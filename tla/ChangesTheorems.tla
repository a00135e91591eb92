-------------------------- MODULE ChangesTheorems --------------------------
(***************************************************************************)
(* What holds of every comparison, whatever the two snapshots are: which   *)
(* records the engine makes, and that the page reads back all of what the  *)
(* plugin writes.                                                          *)
(***************************************************************************)
EXTENDS ChangesModel, GraphTheorems

IdsIn(x) == {n.id : n \in x.nodes}

\* An edge has the four fields that the graph factory gives it.
IsEdge(e) ==
  e = [source |-> e.source, relation |-> e.relation, target |-> e.target, route |-> e.route]
HasEdges(s) == s # None => \A e \in s.content.edges : IsEdge(e)

(***************************************************************************)
(* The records of a comparison.                                            *)
(***************************************************************************)

\* The records about nodes, each with what it says.
LEMMA NodeRecords ==
  ASSUME NEW p, NEW c, NEW r \in Differences(p, c).nodeChanges
  PROVE  /\ r = [kind |-> r.kind, evidence |-> r.evidence, nodeId |-> r.nodeId,
                 label |-> r.label, fields |-> r.fields]
         /\ \/ /\ r.kind = "ADDED" /\ r.fields = NoFields
               /\ r.nodeId \in IdsIn(c) \ IdsIn(p)
               /\ r.evidence = additionEvidence(requiredSubsystems(type(r.nodeId)), p.quality)
            \/ /\ r.kind = "REMOVED" /\ r.fields = NoFields
               /\ r.nodeId \in IdsIn(p) \ IdsIn(c)
               /\ r.evidence = removalEvidence(requiredSubsystems(type(r.nodeId)), c.quality)
            \/ /\ r.kind = "MODIFIED" /\ r.evidence = "CONFIRMED"
               /\ r.nodeId \in IdsIn(p) \cap IdsIn(c)
               /\ \E b, a : r.fields = fieldChanges(b, a, c.quality)
PROOF
<1> DEFINE Made(kind, evidence, n, fields) ==
             [kind |-> kind, evidence |-> evidence, nodeId |-> n.id, label |-> n.label, fields |-> fields]
<1>1. \/ \E n \in c.nodes : 
           /\ n.id \notin IdsIn(p)
           /\ r = Made("ADDED", additionEvidence(requiredSubsystems(type(n.id)), p.quality), n, NoFields)
      \/ \E n \in p.nodes :
           /\ n.id \notin IdsIn(c)
           /\ r = Made("REMOVED", removalEvidence(requiredSubsystems(type(n.id)), c.quality), n, NoFields)
      \/ \E n \in c.nodes :
           /\ n.id \in IdsIn(p)
           /\ r = Made("MODIFIED", "CONFIRMED", n, fieldChanges(CHOOSE b \in p.nodes : b.id = n.id, n, c.quality))
  BY DEF Differences, IdsIn
<1> QED
  BY <1>1 DEF IdsIn

\* The records about edges.
LEMMA EdgeRecords ==
  ASSUME NEW p, NEW c, NEW r \in Differences(p, c).relationshipChanges
  PROVE  /\ r = [kind |-> r.kind, evidence |-> r.evidence, edge |-> r.edge]
         /\ \/ /\ r.kind = "RELATIONSHIP_ADDED" /\ r.edge \in c.edges \ p.edges
               /\ r.evidence = additionEvidence(edgeSubsystems(r.edge), p.quality)
            \/ /\ r.kind = "RELATIONSHIP_REMOVED" /\ r.edge \in p.edges \ c.edges
               /\ r.evidence = removalEvidence(edgeSubsystems(r.edge), c.quality)
BY DEF Differences

\* A resource that only one snapshot has is reported.
LEMMA NodesReported ==
  ASSUME NEW p, NEW c
  PROVE  /\ \A id \in IdsIn(c) \ IdsIn(p) : \E r \in Differences(p, c).nodeChanges :
              /\ r.nodeId = id /\ r.kind = "ADDED"
              /\ r.evidence = additionEvidence(requiredSubsystems(type(id)), p.quality)
         /\ \A id \in IdsIn(p) \ IdsIn(c) : \E r \in Differences(p, c).nodeChanges :
              /\ r.nodeId = id /\ r.kind = "REMOVED"
              /\ r.evidence = removalEvidence(requiredSubsystems(type(id)), c.quality)
PROOF
<1> DEFINE Made(kind, evidence, n, fields) ==
             [kind |-> kind, evidence |-> evidence, nodeId |-> n.id, label |-> n.label, fields |-> fields]
<1>1. ASSUME NEW n \in c.nodes, n.id \notin IdsIn(p)
      PROVE  Made("ADDED", additionEvidence(requiredSubsystems(type(n.id)), p.quality), n, NoFields)
               \in Differences(p, c).nodeChanges
  BY <1>1 DEF Differences, IdsIn
<1>2. ASSUME NEW n \in p.nodes, n.id \notin IdsIn(c)
      PROVE  Made("REMOVED", removalEvidence(requiredSubsystems(type(n.id)), c.quality), n, NoFields)
               \in Differences(p, c).nodeChanges
  BY <1>2 DEF Differences, IdsIn
<1>3. ASSUME NEW id \in IdsIn(c) \ IdsIn(p)
      PROVE  \E r \in Differences(p, c).nodeChanges :
               /\ r.nodeId = id /\ r.kind = "ADDED"
               /\ r.evidence = additionEvidence(requiredSubsystems(type(id)), p.quality)
  <2>1. PICK n \in c.nodes : n.id = id
    BY DEF IdsIn
  <2> QED
    BY <1>1, <2>1
<1>4. ASSUME NEW id \in IdsIn(p) \ IdsIn(c)
      PROVE  \E r \in Differences(p, c).nodeChanges :
               /\ r.nodeId = id /\ r.kind = "REMOVED"
               /\ r.evidence = removalEvidence(requiredSubsystems(type(id)), c.quality)
  <2>1. PICK n \in p.nodes : n.id = id
    BY DEF IdsIn
  <2> QED
    BY <1>2, <2>1
<1> QED
  BY <1>3, <1>4

\* What a comparison consists of.
LEMMA DifferencesAre ==
  ASSUME NEW p, NEW c
  PROVE  LET d == Differences(p, c)
         IN  /\ d = [status |-> d.status, nodeChanges |-> d.nodeChanges,
                     relationshipChanges |-> d.relationshipChanges,
                     uncertainties |-> d.uncertainties, summary |-> d.summary]
             /\ d.summary = Summary(d.nodeChanges, d.relationshipChanges, d.uncertainties, TRUE)
             /\ d.status = IF ~d.summary.isComplete THEN "PARTIAL"
                           ELSE IF d.summary.hasChanges THEN "CHANGED" ELSE "NO_CHANGES"
             /\ \A u \in d.uncertainties : u = [subsystem |-> u.subsystem, reason |-> u.reason]
             /\ \A s \in Incomplete(REMOTE_SUBSYSTEMS, c.quality) :
                  [subsystem |-> s, reason |-> "CURRENT_DISCOVERY_INCOMPLETE"] \in d.uncertainties
PROOF
<1> DEFINE d == Differences(p, c)
<1>1. \A u \in d.uncertainties : \E s, reason : u = [subsystem |-> s, reason |-> reason]
  BY DEF Differences
<1>2. \A u \in d.uncertainties : u = [subsystem |-> u.subsystem, reason |-> u.reason]
  BY <1>1
<1>3. d = [status |-> d.status, nodeChanges |-> d.nodeChanges,
           relationshipChanges |-> d.relationshipChanges,
           uncertainties |-> d.uncertainties, summary |-> d.summary]
  BY DEF Differences
<1>4. d.summary = Summary(d.nodeChanges, d.relationshipChanges, d.uncertainties, TRUE)
  BY DEF Differences
<1>5. d.status = IF ~d.summary.isComplete THEN "PARTIAL"
                 ELSE IF d.summary.hasChanges THEN "CHANGED" ELSE "NO_CHANGES"
  BY DEF Differences
<1>6. \A s \in Incomplete(REMOTE_SUBSYSTEMS, c.quality) :
        [subsystem |-> s, reason |-> "CURRENT_DISCOVERY_INCOMPLETE"] \in d.uncertainties
  BY DEF Differences
<1> QED
  BY <1>2, <1>3, <1>4, <1>5, <1>6

\* Every comparison of snapshots has the shape that the page expects of it.
IsRecorded(d) ==
  /\ d = [status |-> d.status, nodeChanges |-> d.nodeChanges,
          relationshipChanges |-> d.relationshipChanges,
          uncertainties |-> d.uncertainties, summary |-> d.summary]
  /\ \E complete \in BOOLEAN :
       d.summary = Summary(d.nodeChanges, d.relationshipChanges, d.uncertainties, complete)
  /\ \A u \in d.uncertainties : u = [subsystem |-> u.subsystem, reason |-> u.reason]
  /\ \A r \in d.nodeChanges :
       /\ r = [kind |-> r.kind, evidence |-> r.evidence, nodeId |-> r.nodeId,
               label |-> r.label, fields |-> r.fields]
       /\ r.fields = [f \in DOMAIN r.fields |->
                        [before |-> r.fields[f].before, after |-> r.fields[f].after]]
  /\ \A r \in d.relationshipChanges :
       /\ r = [kind |-> r.kind, evidence |-> r.evidence, edge |-> r.edge]
       /\ IsEdge(r.edge)

LEMMA ComparisonRecorded ==
  ASSUME NEW previous, NEW current, HasEdges(previous), HasEdges(current), current # None
  PROVE  IsRecorded(compare(previous, current))
PROOF
<1>1. \A status, complete : complete \in BOOLEAN => IsRecorded(terminal(status, complete))
  BY DEF terminal, IsRecorded
<1>2. ASSUME previous # None
      PROVE  IsRecorded(Differences(previous.content, current.content))
  <2> DEFINE d == Differences(previous.content, current.content)
  <2>1. \A b, a, quality : LET changes == fieldChanges(b, a, quality)
                           IN  changes = [f \in DOMAIN changes |->
                                            [before |-> changes[f].before, after |-> changes[f].after]]
    BY DEF fieldChanges
  <2>2. NoFields = [f \in DOMAIN NoFields |-> [before |-> NoFields[f].before, after |-> NoFields[f].after]]
    BY DEF NoFields
  <2>3. ASSUME NEW r \in d.nodeChanges
        PROVE  /\ r = [kind |-> r.kind, evidence |-> r.evidence, nodeId |-> r.nodeId,
                       label |-> r.label, fields |-> r.fields]
               /\ r.fields = [f \in DOMAIN r.fields |->
                                [before |-> r.fields[f].before, after |-> r.fields[f].after]]
    <3>1. r.fields = NoFields \/ \E b, a : r.fields = fieldChanges(b, a, current.content.quality)
      BY NodeRecords
    <3> QED
      BY <2>1, <2>2, <3>1, NodeRecords
  <2>4. ASSUME NEW r \in d.relationshipChanges
        PROVE  /\ r = [kind |-> r.kind, evidence |-> r.evidence, edge |-> r.edge]
               /\ IsEdge(r.edge)
    BY <1>2, EdgeRecords DEF HasEdges
  <2>5. /\ d = [status |-> d.status, nodeChanges |-> d.nodeChanges,
                relationshipChanges |-> d.relationshipChanges,
                uncertainties |-> d.uncertainties, summary |-> d.summary]
        /\ d.summary = Summary(d.nodeChanges, d.relationshipChanges, d.uncertainties, TRUE)
        /\ \A u \in d.uncertainties : u = [subsystem |-> u.subsystem, reason |-> u.reason]
    BY DifferencesAre, ZenonT(30)
  <2> HIDE DEF d
  <2>6. IsRecorded(d)
    BY <2>3, <2>4, <2>5 DEF IsRecorded
  <2> QED
    BY <2>6 DEF d
<1> QED
  BY <1>1, <1>2 DEF compare

(***************************************************************************)
(* What the plugin writes is what the page reads.                          *)
(***************************************************************************)
LEMMA WrittenIsRead ==
  ASSUME NEW before, NEW after
  PROVE  normalizeField(Written([before |-> before, after |-> after], {"before", "after"}))
           = [before |-> before, after |-> after]
PROOF
<1> DEFINE o == Written([before |-> before, after |-> after], {"before", "after"})
<1>1. DOMAIN o = {x \in {"before", "after"} : [before |-> before, after |-> after][x] # None}
  BY DEF Written
<1>2. \A x \in DOMAIN o : o[x] = [before |-> before, after |-> after][x]
  BY DEF Written
<1>3. Get(o, "before") = before
  BY <1>1, <1>2 DEF Get, Has
<1>4. Get(o, "after") = after
  BY <1>1, <1>2 DEF Get, Has
<1> QED
  BY <1>3, <1>4 DEF normalizeField

LEMMA NodeChangeIsRead ==
  ASSUME NEW r,
         r = [kind |-> r.kind, evidence |-> r.evidence, nodeId |-> r.nodeId,
              label |-> r.label, fields |-> r.fields],
         r.fields = [f \in DOMAIN r.fields |->
                       [before |-> r.fields[f].before, after |-> r.fields[f].after]],
         NEW o,
         o = [r EXCEPT !.fields = [f \in DOMAIN @ |-> Written(@[f], {"before", "after"})]]
  PROVE  IsNodeChange(o) /\ normalizeNodeChange(o) = r
PROOF
<1> DEFINE fields == [f \in DOMAIN r.fields |-> Written(r.fields[f], {"before", "after"})]
<1>1. o = [kind |-> r.kind, evidence |-> r.evidence, nodeId |-> r.nodeId,
           label |-> r.label, fields |-> fields]
  OBVIOUS
<1>2. \A f \in DOMAIN r.fields : normalizeField(fields[f]) = r.fields[f]
  BY WrittenIsRead
<1>3. [f \in DOMAIN fields |-> normalizeField(fields[f])] = r.fields
  BY <1>2
<1> HIDE DEF fields
<1>4. /\ IsNodeChange(o)
      /\ normalizeNodeChange(o) =
           [kind |-> r.kind, evidence |-> r.evidence, nodeId |-> r.nodeId, label |-> r.label,
            fields |-> [f \in DOMAIN fields |-> normalizeField(fields[f])]]
  BY <1>1 DEF IsNodeChange, normalizeNodeChange, Has, text
<1> QED
  BY <1>3, <1>4

LEMMA RelationshipChangeIsRead ==
  ASSUME NEW r, r = [kind |-> r.kind, evidence |-> r.evidence, edge |-> r.edge], IsEdge(r.edge)
  PROVE  IsRelationshipChange(r) /\ normalizeRelationshipChange(r) = r
PROOF
<1>1. IsRelationshipChange(r)
  BY DEF IsRelationshipChange, IsEdge, Has
<1>2. text(r, "kind") = r.kind /\ text(r, "evidence") = r.evidence /\ text(r.edge, "relation") = r.edge.relation
  BY DEF text, IsEdge, Has
<1> QED
  BY <1>1, <1>2 DEF normalizeRelationshipChange, IsEdge

LEMMA SummaryIsRead ==
  ASSUME NEW nodes, NEW relationships, NEW uncertainties, NEW complete \in BOOLEAN
  PROVE  LET s == Summary(nodes, relationships, uncertainties, complete)
         IN  normalizeSummary(s) = s
PROOF
<1> DEFINE s == Summary(nodes, relationships, uncertainties, complete)
<1>1. s = [addedNodes |-> s.addedNodes, removedNodes |-> s.removedNodes,
           modifiedNodes |-> s.modifiedNodes, addedRelationships |-> s.addedRelationships,
           removedRelationships |-> s.removedRelationships,
           uncertainComparisons |-> s.uncertainComparisons,
           hasChanges |-> s.hasChanges, isComplete |-> s.isComplete]
  BY DEF Summary
<1>2. s.hasChanges \in BOOLEAN /\ s.isComplete \in BOOLEAN
  BY DEF Summary
<1> HIDE DEF s
<1>3. /\ count(s, "addedNodes") = s.addedNodes /\ count(s, "removedNodes") = s.removedNodes
      /\ count(s, "modifiedNodes") = s.modifiedNodes
      /\ count(s, "addedRelationships") = s.addedRelationships
      /\ count(s, "removedRelationships") = s.removedRelationships
      /\ count(s, "uncertainComparisons") = s.uncertainComparisons
      /\ (Get(s, "hasChanges") = TRUE) = s.hasChanges
      /\ (Get(s, "isComplete") # FALSE) = s.isComplete
  BY <1>1, <1>2 DEF count, Get, Has
<1>4. normalizeSummary(s) = s
  BY <1>1, <1>3 DEF normalizeSummary
<1> QED
  BY <1>4 DEF s

\* The records about a comparison after they were written and read.
LEMMA DiffIsRead ==
  ASSUME NEW d, IsRecorded(d), NEW o, o = encodedDiff(d)
  PROVE  IsDiff(o) /\ normalizeDiff(o) = d
PROOF
<1> DEFINE Sent(r) == [r EXCEPT !.fields = [f \in DOMAIN @ |-> Written(@[f], {"before", "after"})]]
           sent == {Sent(r) : r \in d.nodeChanges}
<1>1. o = [status |-> d.status, nodeChanges |-> sent, relationshipChanges |-> d.relationshipChanges,
           uncertainties |-> d.uncertainties, summary |-> d.summary]
  BY DEF IsRecorded, encodedDiff
<1>2. \A r \in d.nodeChanges : IsNodeChange(Sent(r)) /\ normalizeNodeChange(Sent(r)) = r
  BY NodeChangeIsRead DEF IsRecorded
<1> HIDE DEF Sent
<1>3. {normalizeNodeChange(x) : x \in {y \in sent : IsNodeChange(y)}} = d.nodeChanges
  BY <1>2
<1>4. \A r \in d.relationshipChanges : IsRelationshipChange(r) /\ normalizeRelationshipChange(r) = r
  BY RelationshipChangeIsRead DEF IsRecorded
<1>5. {normalizeRelationshipChange(x) : x \in {y \in d.relationshipChanges : IsRelationshipChange(y)}}
        = d.relationshipChanges
  BY <1>4
<1>6. \A u \in d.uncertainties : normalizeUncertainty(u) = u
  BY DEF IsRecorded, normalizeUncertainty, text, Has
<1>7. {normalizeUncertainty(u) : u \in d.uncertainties} = d.uncertainties
  BY <1>6
<1>8. normalizeSummary(d.summary) = d.summary
  BY SummaryIsRead DEF IsRecorded
<1> HIDE DEF sent
<1>9. IsDiff(o)
  BY <1>1 DEF IsDiff, Has
<1>10. /\ o.status = d.status /\ o.summary = d.summary
       /\ array(o, "nodeChanges") = sent
       /\ array(o, "relationshipChanges") = d.relationshipChanges
       /\ array(o, "uncertainties") = d.uncertainties
  BY <1>1 DEF array, Has
<1>11. d = [status |-> d.status, summary |-> d.summary, nodeChanges |-> d.nodeChanges,
            relationshipChanges |-> d.relationshipChanges, uncertainties |-> d.uncertainties]
  BY DEF IsRecorded
<1> QED
  BY <1>3, <1>5, <1>7, <1>8, <1>9, <1>10, <1>11 DEF normalizeDiff

LEMMA ResourceIsRead ==
  ASSUME NEW r, r = [before |-> r.before, after |-> r.after]
  PROVE  normalizeResource(Written(r, {"before", "after"})) = r
BY WrittenIsRead, ZenonT(30) DEF normalizeField, normalizeResource

LEMMA EncodedIs ==
  ASSUME NEW p, NEW c, NEW d, NEW r,
         p = [schemaVersion |-> 1, comparison |-> c, diff |-> d, resources |-> r]
  PROVE  encoded(p) = [schemaVersion |-> 1, comparison |-> Written(c, {"previous"}),
                       diff |-> encodedDiff(d),
                       resources |-> [id \in DOMAIN r |-> Written(r[id], {"before", "after"})]]
PROOF
<1> DEFINE Sent(R) == [id \in DOMAIN R |-> Written(R[id], {"before", "after"})]
<1>1. encoded(p) = [p EXCEPT !.comparison = Written(p.comparison, {"previous"}),
                             !.diff = encodedDiff(p.diff), !.resources = Sent(p.resources)]
  BY DEF encoded
<1>2. p.comparison = c /\ p.diff = d /\ p.resources = r
  OBVIOUS
<1> HIDE DEF Sent
<1>3. encoded(p) = [schemaVersion |-> 1, comparison |-> Written(c, {"previous"}),
                    diff |-> encodedDiff(d), resources |-> Sent(r)]
  BY <1>1, <1>2
<1> QED
  BY <1>3 DEF Sent

\* Whatever two snapshots are compared, the page that reads the response of the
\* plugin gets the payload that the plugin made, with all its records: no value
\* that the serializer leaves out makes the page refuse it or drop a part.
THEOREM PayloadIsRead ==
  ASSUME NEW previous, NEW current, HasEdges(previous), HasEdges(current), current # None
  PROVE  normalizeChangesResponse(success(payload(previous, current)))
           = [ok |-> TRUE, payload |-> payload(previous, current)]
PROOF
<1> DEFINE p == payload(previous, current)
           o == encoded(p)
           diff == compare(previous, current)
           prior == IF previous = None THEN None ELSE previous.id
           sentDiff == encodedDiff(diff)
           sentComparison == Written(p.comparison, {"previous"})
           sentResources == [id \in DOMAIN p.resources |-> Written(p.resources[id], {"before", "after"})]
<1>1. p = [schemaVersion |-> 1, comparison |-> [previous |-> prior, current |-> current.id],
           diff |-> diff, resources |-> p.resources]
  BY DEF payload
<1>2. [id \in DOMAIN sentResources |-> normalizeResource(sentResources[id])] = p.resources
  <2> DEFINE ids == {c.nodeId : c \in diff.nodeChanges}
                    \cup UNION {{c.edge.source, c.edge.target} : c \in diff.relationshipChanges}
             Node(s, id) == IF s = None THEN None ELSE Only({n \in s.content.nodes : n.id = id})
             Before(id) == Node(previous, id)
             After(id) == Node(current, id)
  <2>1. p.resources = [id \in ids |-> [before |-> Before(id), after |-> After(id)]]
    BY DEF payload
  <2> HIDE DEF ids, Before, After, p
  <2>2. p.resources = [id \in DOMAIN p.resources |->
                         [before |-> p.resources[id].before, after |-> p.resources[id].after]]
    BY <2>1
  <2>3. \A id \in DOMAIN p.resources :
          p.resources[id] = [before |-> p.resources[id].before, after |-> p.resources[id].after]
    BY <2>2
  <2>4. \A id \in DOMAIN p.resources : normalizeResource(Written(p.resources[id], {"before", "after"})) = p.resources[id]
    BY <2>3, ResourceIsRead
  <2>5. p.resources = [id \in DOMAIN p.resources |-> p.resources[id]]
    BY <2>2
  <2> QED
    BY <2>4, <2>5
<1>3. IsDiff(sentDiff) /\ normalizeDiff(sentDiff) = diff
  BY ComparisonRecorded, DiffIsRead
<1>4. /\ Has(sentComparison, {"current"}) /\ sentComparison.current = current.id
      /\ Get(sentComparison, "previous") = prior
  <2> HIDE DEF prior, diff
  <2>1. p.comparison = [previous |-> prior, current |-> current.id]
    BY <1>1
  <2>2. DOMAIN sentComparison = {x \in {"previous", "current"} :
                                   x # "previous" \/ p.comparison[x] # None}
    BY <2>1 DEF Written
  <2>3. \A x \in DOMAIN sentComparison : sentComparison[x] = p.comparison[x]
    BY DEF Written
  <2> QED
    BY <2>1, <2>2, <2>3 DEF Has, Get
<1> HIDE DEF diff, prior, p
<1>5. o = [schemaVersion |-> 1, comparison |-> sentComparison, diff |-> sentDiff,
           resources |-> sentResources]
  BY <1>1, EncodedIs
<1> HIDE DEF o, sentDiff, sentComparison, sentResources
<1>6. IsPayload(o)
  BY <1>3, <1>4, <1>5 DEF IsPayload, Has, Get
<1>7. normalizePayload(o) = p
  BY <1>1, <1>2, <1>3, <1>4, <1>5 DEF normalizePayload
<1>8. success(p) = [ok |-> TRUE, payload |-> o]
  BY DEF success, o
<1> QED
  BY <1>6, <1>7, <1>8 DEF normalizeChangesResponse, Has, p

(***************************************************************************)
(* The counts of a comparison.                                             *)
(***************************************************************************)

\* A comparison of finite graphs has finitely many records.
LEMMA RecordsFinite ==
  ASSUME NEW p, NEW c, IsFiniteSet(p.nodes), IsFiniteSet(c.nodes), IsFiniteSet(p.edges), IsFiniteSet(c.edges)
  PROVE  /\ IsFiniteSet(Differences(p, c).nodeChanges)
         /\ IsFiniteSet(Differences(p, c).relationshipChanges)
         /\ IsFiniteSet(Differences(p, c).uncertainties)
PROOF
<1> DEFINE Made(kind, evidence, n, fields) ==
             [kind |-> kind, evidence |-> evidence, nodeId |-> n.id, label |-> n.label, fields |-> fields]
           Added(n) == Made("ADDED", additionEvidence(requiredSubsystems(type(n.id)), p.quality), n, NoFields)
           Removed(n) == Made("REMOVED", removalEvidence(requiredSubsystems(type(n.id)), c.quality), n, NoFields)
           Modified(n) ==
             Made("MODIFIED", "CONFIRMED", n, fieldChanges(CHOOSE b \in p.nodes : b.id = n.id, n, c.quality))
           EdgeRecord(kind, evidence, e) == [kind |-> kind, evidence |-> evidence, edge |-> e]
           EdgeAdded(e) == EdgeRecord("RELATIONSHIP_ADDED", additionEvidence(edgeSubsystems(e), p.quality), e)
           EdgeRemoved(e) == EdgeRecord("RELATIONSHIP_REMOVED", removalEvidence(edgeSubsystems(e), c.quality), e)
           Uncertain(s, reason) == [subsystem |-> s, reason |-> reason]
           subsystems == {"BASE_HOST", "DOCKER", "CADDY", "SYSTEMD", "HOST_LISTENERS"}
           N == p.nodes \cup c.nodes
           E == p.edges \cup c.edges
           f == [n \in N |-> {Added(n)} \cup {Removed(n)} \cup {Modified(n)}]
           g == [e \in E |-> {EdgeAdded(e)} \cup {EdgeRemoved(e)}]
           h == [s \in subsystems |-> {Uncertain(s, "CURRENT_DISCOVERY_INCOMPLETE")}
                                      \cup {Uncertain(s, "PREVIOUS_DISCOVERY_INCOMPLETE")}]
<1>1. \A r \in Differences(p, c).nodeChanges :
        \E n \in N : r \in {Added(n)} \cup {Removed(n)} \cup {Modified(n)}
  BY DEF Differences
<1>2. \A r \in Differences(p, c).relationshipChanges :
        \E e \in E : r \in {EdgeAdded(e)} \cup {EdgeRemoved(e)}
  BY DEF Differences
<1>3. \A r \in Differences(p, c).uncertainties :
        \E s \in subsystems : r \in {Uncertain(s, "CURRENT_DISCOVERY_INCOMPLETE")}
                                    \cup {Uncertain(s, "PREVIOUS_DISCOVERY_INCOMPLETE")}
  <2>1. \A t : requiredSubsystems(t) \subseteq subsystems
    BY DEF requiredSubsystems
  <2>2. \A e : edgeSubsystems(e) \subseteq subsystems
    BY <2>1 DEF edgeSubsystems
  <2>3. REMOTE_SUBSYSTEMS \subseteq subsystems
    BY DEF REMOTE_SUBSYSTEMS
  <2> HIDE DEF subsystems
  <2> QED
    BY <2>1, <2>2, <2>3 DEF Differences, Incomplete
<1> HIDE DEF Added, Removed, Modified, EdgeAdded, EdgeRemoved, Uncertain
<1>4. \A a, b, d : IsFiniteSet({a} \cup {b} \cup {d}) /\ IsFiniteSet({a} \cup {b})
  BY FS_Singleton, FS_Union
<1>5. IsFiniteSet(N) /\ IsFiniteSet(E)
  BY FS_Union
<1>6. IsFiniteSet(subsystems)
  <2>1. IsFiniteSet({"BASE_HOST"} \cup {"DOCKER"} \cup {"CADDY"})
    BY <1>4
  <2>2. IsFiniteSet(({"BASE_HOST"} \cup {"DOCKER"} \cup {"CADDY"}) \cup {"SYSTEMD"})
    BY <2>1, FS_AddElement
  <2>3. IsFiniteSet((({"BASE_HOST"} \cup {"DOCKER"} \cup {"CADDY"}) \cup {"SYSTEMD"}) \cup {"HOST_LISTENERS"})
    BY <2>2, FS_AddElement
  <2>4. subsystems = (({"BASE_HOST"} \cup {"DOCKER"} \cup {"CADDY"}) \cup {"SYSTEMD"}) \cup {"HOST_LISTENERS"}
    OBVIOUS
  <2> QED
    BY <2>3, <2>4, Zenon
<1>7. /\ f = [n \in N |-> f[n]] /\ \A n \in N : IsFiniteSet(f[n])
      /\ \A r \in Differences(p, c).nodeChanges : \E n \in N : r \in f[n]
  BY <1>1, <1>4
<1>8. /\ g = [e \in E |-> g[e]] /\ \A e \in E : IsFiniteSet(g[e])
      /\ \A r \in Differences(p, c).relationshipChanges : \E e \in E : r \in g[e]
  BY <1>2, <1>4
<1>9. /\ h = [s \in subsystems |-> h[s]] /\ \A s \in subsystems : IsFiniteSet(h[s])
      /\ \A r \in Differences(p, c).uncertainties : \E s \in subsystems : r \in h[s]
  BY <1>3, <1>4
<1> HIDE DEF f, g, h, N, E, subsystems
<1>10. IsFiniteSet(Differences(p, c).nodeChanges)
  BY <1>5, <1>7, FiniteCover
<1>11. IsFiniteSet(Differences(p, c).relationshipChanges)
  BY <1>5, <1>8, FiniteCover
<1>12. IsFiniteSet(Differences(p, c).uncertainties)
  BY <1>6, <1>9, FiniteCover
<1> QED
  BY <1>10, <1>11, <1>12

Unconfirmed(S) == {r \in S : r.evidence = "UNCONFIRMED_REMOVAL"}
Counted(S, kind) == {r \in S : r.kind = kind /\ r.evidence # "UNCONFIRMED_REMOVAL"}

LEMMA SummaryIs ==
  ASSUME NEW b, NEW c, NEW d, d = Differences(b, c), NEW s, s = d.summary
  PROVE  /\ s.addedNodes = Cardinality(Counted(d.nodeChanges, "ADDED"))
         /\ s.removedNodes = Cardinality(Counted(d.nodeChanges, "REMOVED"))
         /\ s.modifiedNodes = Cardinality(Counted(d.nodeChanges, "MODIFIED"))
         /\ s.addedRelationships = Cardinality(Counted(d.relationshipChanges, "RELATIONSHIP_ADDED"))
         /\ s.removedRelationships = Cardinality(Counted(d.relationshipChanges, "RELATIONSHIP_REMOVED"))
         /\ s.uncertainComparisons =
              Cardinality(d.uncertainties) + Cardinality(Unconfirmed(d.nodeChanges \cup d.relationshipChanges))
         /\ s.hasChanges <=> \E r \in d.nodeChanges \cup d.relationshipChanges : r.evidence # "UNCONFIRMED_REMOVAL"
         /\ s.isComplete <=> /\ d.uncertainties = {}
                             /\ \A r \in d.nodeChanges \cup d.relationshipChanges :
                                  r.evidence # "UNCONFIRMED_REMOVAL"
PROOF
<1>1. PICK N, E, U : N = d.nodeChanges /\ E = d.relationshipChanges /\ U = d.uncertainties
  OBVIOUS
<1>2. s = Summary(N, E, U, TRUE)
  BY <1>1, DifferencesAre
<1>3. /\ s.addedNodes = Cardinality(Counted(N, "ADDED"))
      /\ s.removedNodes = Cardinality(Counted(N, "REMOVED"))
      /\ s.modifiedNodes = Cardinality(Counted(N, "MODIFIED"))
      /\ s.addedRelationships = Cardinality(Counted(E, "RELATIONSHIP_ADDED"))
      /\ s.removedRelationships = Cardinality(Counted(E, "RELATIONSHIP_REMOVED"))
      /\ s.uncertainComparisons = Cardinality(U) + Cardinality(Unconfirmed(N \cup E))
  BY <1>2 DEF Summary, Counted, Unconfirmed
<1>4. s.hasChanges = (N \cup E # Unconfirmed(N \cup E))
  BY <1>2 DEF Summary, Unconfirmed
<1>5. s.isComplete = (TRUE /\ U = {} /\ Unconfirmed(N \cup E) = {})
  BY <1>2 DEF Summary, Unconfirmed
<1>6. s.hasChanges <=> \E r \in N \cup E : r.evidence # "UNCONFIRMED_REMOVAL"
  BY <1>4 DEF Unconfirmed
<1>7. s.isComplete <=> U = {} /\ \A r \in N \cup E : r.evidence # "UNCONFIRMED_REMOVAL"
  BY <1>5 DEF Unconfirmed
<1> QED
  BY <1>1, <1>3, <1>6, <1>7

\* Each record has one of the five kinds, and only removals are unconfirmed.
LEMMA KindsAre ==
  ASSUME NEW p, NEW c
  PROVE  /\ \A r \in Differences(p, c).nodeChanges :
              /\ r.kind \in {"ADDED", "REMOVED", "MODIFIED"}
              /\ r.kind # "REMOVED" => r.evidence # "UNCONFIRMED_REMOVAL"
         /\ \A r \in Differences(p, c).relationshipChanges :
              /\ r.kind \in {"RELATIONSHIP_ADDED", "RELATIONSHIP_REMOVED"}
              /\ r.kind # "RELATIONSHIP_REMOVED" => r.evidence # "UNCONFIRMED_REMOVAL"
PROOF
<1>1. \A required, quality : additionEvidence(required, quality) # "UNCONFIRMED_REMOVAL"
  BY DEF additionEvidence
<1>2. ASSUME NEW r \in Differences(p, c).nodeChanges
      PROVE  /\ r.kind \in {"ADDED", "REMOVED", "MODIFIED"}
             /\ r.kind # "REMOVED" => r.evidence # "UNCONFIRMED_REMOVAL"
  BY <1>1, NodeRecords
<1>3. ASSUME NEW r \in Differences(p, c).relationshipChanges
      PROVE  /\ r.kind \in {"RELATIONSHIP_ADDED", "RELATIONSHIP_REMOVED"}
             /\ r.kind # "RELATIONSHIP_REMOVED" => r.evidence # "UNCONFIRMED_REMOVAL"
  BY <1>1, EdgeRecords
<1> QED
  BY <1>2, <1>3

IsFinite(graph) == IsFiniteSet(graph.nodes) /\ IsFiniteSet(graph.edges)

\* The numbers of the summary are natural numbers, and one of them is positive
\* when a record is not an unconfirmed removal.
LEMMA CountsOfDifferences ==
  ASSUME NEW b, NEW c, IsFinite(b), IsFinite(c), NEW d, d = Differences(b, c), NEW s, s = d.summary
  PROVE  /\ s.addedNodes \in Nat /\ s.modifiedNodes \in Nat /\ s.removedNodes \in Nat
         /\ s.addedRelationships \in Nat /\ s.removedRelationships \in Nat
         /\ s.hasChanges =>
              s.addedNodes + s.modifiedNodes + s.removedNodes
              + s.addedRelationships + s.removedRelationships > 0
PROOF
<1>2. IsFiniteSet(d.nodeChanges) /\ IsFiniteSet(d.relationshipChanges)
  BY RecordsFinite DEF IsFinite
<1>3. ASSUME NEW S, IsFiniteSet(S), NEW kind
      PROVE  /\ IsFiniteSet(Counted(S, kind)) /\ Cardinality(Counted(S, kind)) \in Nat
             /\ Counted(S, kind) # {} => Cardinality(Counted(S, kind)) > 0
  <2>1. Counted(S, kind) \in SUBSET S
    BY DEF Counted
  <2>2. IsFiniteSet(Counted(S, kind))
    BY <1>3, <2>1, FS_Subset
  <2>3. Cardinality(Counted(S, kind)) \in Nat
    BY <2>2, FS_CardinalityType
  <2>4. Cardinality(Counted(S, kind)) = 0 <=> Counted(S, kind) = {}
    BY <2>2, FS_EmptySet
  <2> QED
    BY <2>2, <2>3, <2>4
<1>4. /\ s.addedNodes = Cardinality(Counted(d.nodeChanges, "ADDED"))
      /\ s.removedNodes = Cardinality(Counted(d.nodeChanges, "REMOVED"))
      /\ s.modifiedNodes = Cardinality(Counted(d.nodeChanges, "MODIFIED"))
      /\ s.addedRelationships = Cardinality(Counted(d.relationshipChanges, "RELATIONSHIP_ADDED"))
      /\ s.removedRelationships = Cardinality(Counted(d.relationshipChanges, "RELATIONSHIP_REMOVED"))
      /\ s.hasChanges => \E r \in d.nodeChanges \cup d.relationshipChanges : r.evidence # "UNCONFIRMED_REMOVAL"
  BY SummaryIs, ZenonT(30)
<1>5. /\ s.addedNodes \in Nat /\ s.modifiedNodes \in Nat /\ s.removedNodes \in Nat
      /\ s.addedRelationships \in Nat /\ s.removedRelationships \in Nat
  BY <1>2, <1>3, <1>4
<1>6. ASSUME s.hasChanges
      PROVE  \/ s.addedNodes > 0 \/ s.modifiedNodes > 0 \/ s.removedNodes > 0
             \/ s.addedRelationships > 0 \/ s.removedRelationships > 0
  <2>1. PICK r \in d.nodeChanges \cup d.relationshipChanges : r.evidence # "UNCONFIRMED_REMOVAL"
    BY <1>4, <1>6
  <2>2. CASE r \in d.nodeChanges
    <3>1. \/ r \in Counted(d.nodeChanges, "ADDED") \/ r \in Counted(d.nodeChanges, "REMOVED")
          \/ r \in Counted(d.nodeChanges, "MODIFIED")
      BY <2>1, <2>2, KindsAre DEF Counted
    <3> QED
      BY <1>2, <1>3, <1>4, <3>1
  <2>3. CASE r \in d.relationshipChanges
    <3>1. \/ r \in Counted(d.relationshipChanges, "RELATIONSHIP_ADDED")
          \/ r \in Counted(d.relationshipChanges, "RELATIONSHIP_REMOVED")
      BY <2>1, <2>3, KindsAre DEF Counted
    <3> QED
      BY <1>2, <1>3, <1>4, <3>1
  <2> QED
    BY <2>1, <2>2, <2>3
<1> QED
  BY <1>5, <1>6

\* The line of the toolbar for a comparison: a number of changes is not zero, and
\* without changes the two graphs have the same resources and the last discovery
\* was complete.
LEMMA FeedbackOf ==
  ASSUME NEW p, NEW b, NEW c, IsFinite(b), IsFinite(c), p.diff = Differences(b, c)
  PROVE  /\ scanFeedback(p).text = "CHANGES" => scanFeedback(p).count > 0
         /\ scanFeedback(p).text = "NO_CHANGES" =>
              IdsIn(b) = IdsIn(c) /\ Incomplete(REMOTE_SUBSYSTEMS, c.quality) = {}
PROOF
<1> DEFINE d == Differences(b, c)
           s == d.summary
           n == confirmedChangeCount(p)
<1>1. n = s.addedNodes + s.modifiedNodes + s.removedNodes + s.addedRelationships + s.removedRelationships
  BY DEF confirmedChangeCount
<1>2. n \in Nat /\ (s.hasChanges => n > 0)
  BY <1>1, CountsOfDifferences
<1>3. /\ d.status = IF ~s.isComplete THEN "PARTIAL" ELSE IF s.hasChanges THEN "CHANGED" ELSE "NO_CHANGES"
      /\ \A x \in Incomplete(REMOTE_SUBSYSTEMS, c.quality) :
           [subsystem |-> x, reason |-> "CURRENT_DISCOVERY_INCOMPLETE"] \in d.uncertainties
  BY DifferencesAre
<1> HIDE DEF n
<1>4. CASE d.status = "PARTIAL"
  <2>1. scanFeedback(p) = IF n = 0 THEN [text |-> "INCOMPLETE", count |-> 0] ELSE [text |-> "CHANGES", count |-> n]
    BY <1>4 DEF scanFeedback, n
  <2> QED
    BY <1>2, <2>1
<1>5. CASE d.status = "CHANGED"
  <2>1. scanFeedback(p) = [text |-> "CHANGES", count |-> n]
    BY <1>5 DEF scanFeedback, n
  <2>2. s.hasChanges
    BY <1>3, <1>5
  <2> QED
    BY <1>2, <2>1, <2>2
<1>6. CASE d.status = "NO_CHANGES"
  <2>1. scanFeedback(p).text = "NO_CHANGES"
    BY <1>6 DEF scanFeedback
  <2>2. s.isComplete /\ ~s.hasChanges
    BY <1>3, <1>6
  <2>4. d.nodeChanges = {} /\ d.uncertainties = {}
    BY <2>2, SummaryIs
  <2>5. Incomplete(REMOTE_SUBSYSTEMS, c.quality) = {}
    BY <1>3, <2>4
  <2>6. (\A id \in IdsIn(c) : id \in IdsIn(b)) /\ (\A id \in IdsIn(b) : id \in IdsIn(c))
    BY <2>4, NodesReported
  <2> QED
    BY <2>1, <2>5, <2>6
<1> QED
  BY <1>3, <1>4, <1>5, <1>6

(***************************************************************************)
(* The cards of the page.                                                  *)
(***************************************************************************)

\* The records of relationships that are not unconfirmed removals, and those of
\* them that are on the card of one.
Normal(p) == {c \in p.diff.relationshipChanges : c.evidence # "UNCONFIRMED_REMOVAL"}
GroupOf(p, c) == {x \in Normal(p) : x.edge.source = c.edge.source /\ x.edge.relation = c.edge.relation}
RecordsOf(p, c) == IF Replacement(GroupOf(p, c)) THEN GroupOf(p, c) ELSE {c}
CardOf(p, c) == relationshipPresentation(RecordsOf(p, c), p.resources, FALSE)
UncertainCard(p, c) == relationshipPresentation({c}, p.resources, TRUE)

LEMMA PresentationsAre ==
  ASSUME NEW p
  PROVE  /\ relationshipPresentations(p) = {CardOf(p, c) : c \in Normal(p)}
         /\ uncertainRelationshipPresentations(p) =
              {UncertainCard(p, c) : c \in Unconfirmed(p.diff.relationshipChanges)}
BY DEF relationshipPresentations, uncertainRelationshipPresentations, CardOf, UncertainCard,
       RecordsOf, GroupOf, Normal, Unconfirmed

LEMMA RecordsOfCard ==
  ASSUME NEW records, NEW resources, NEW uncertain
  PROVE  LET card == relationshipPresentation(records, resources, uncertain)
         IN  /\ card.records = records
             /\ {"relation", "records", "uncertain"} \subseteq DOMAIN card
BY DEF relationshipPresentation

\* A record is on its own card, and every card that has it has the same records.
LEMMA OneCard ==
  ASSUME NEW p, NEW c \in Normal(p)
  PROVE  /\ c \in RecordsOf(p, c) /\ RecordsOf(p, c) \subseteq Normal(p)
         /\ \A d \in Normal(p) : c \in RecordsOf(p, d) => RecordsOf(p, d) = RecordsOf(p, c)
PROOF
<1>1. c \in GroupOf(p, c) /\ GroupOf(p, c) \subseteq Normal(p)
  BY DEF GroupOf
<1>2. ASSUME NEW d \in Normal(p), c \in RecordsOf(p, d)
      PROVE  RecordsOf(p, d) = RecordsOf(p, c)
  <2>1. CASE Replacement(GroupOf(p, d))
    <3>1. c \in GroupOf(p, d)
      BY <1>2, <2>1 DEF RecordsOf
    <3>2. GroupOf(p, c) = GroupOf(p, d)
      BY <3>1 DEF GroupOf
    <3> QED
      BY <2>1, <3>2 DEF RecordsOf
  <2>2. CASE ~Replacement(GroupOf(p, d))
    BY <1>2, <2>2 DEF RecordsOf
  <2> QED
    BY <2>1, <2>2
<1> QED
  BY <1>1, <1>2 DEF RecordsOf

\* What is on the page without a search.
LEMMA CardsAre ==
  ASSUME NEW p, NEW cards, cards = Cards(p, None)
  PROVE  /\ DOMAIN cards = {"MODIFIED", "ADDED", "REMOVED", "RELATIONSHIP", "UNCERTAIN"}
         /\ cards["ADDED"] = {c \in p.diff.nodeChanges : c.kind = "ADDED"}
         /\ cards["MODIFIED"] = {c \in p.diff.nodeChanges : c.kind = "MODIFIED"}
         /\ cards["REMOVED"] = Counted(p.diff.nodeChanges, "REMOVED")
         /\ cards["RELATIONSHIP"] = {CardOf(p, c) : c \in Normal(p)}
         /\ cards["UNCERTAIN"] = p.diff.uncertainties \cup Unconfirmed(p.diff.nodeChanges)
                                \cup {UncertainCard(p, c) : c \in Unconfirmed(p.diff.relationshipChanges)}
PROOF
<1>1. /\ \A c : nodeMatches(c, None)
      /\ \A r : relationshipMatches(r, None)
  BY DEF nodeMatches, relationshipMatches
<1>2. PICK groups : groups = nodeChangeGroups(p, None)
  OBVIOUS
<1>3. /\ groups.added = {c \in p.diff.nodeChanges : c.kind = "ADDED"}
      /\ groups.modified = {c \in p.diff.nodeChanges : c.kind = "MODIFIED"}
      /\ groups.removed = Counted(p.diff.nodeChanges, "REMOVED")
      /\ groups.uncertain = Unconfirmed(p.diff.nodeChanges)
  BY <1>1, <1>2 DEF nodeChangeGroups, Counted, Unconfirmed
<1>4. \A S : {r \in S : relationshipMatches(r, None)} = S
  BY <1>1
<1>5. cards = [MODIFIED |-> groups.modified, ADDED |-> groups.added, REMOVED |-> groups.removed,
               RELATIONSHIP |-> relationshipPresentations(p),
               UNCERTAIN |-> p.diff.uncertainties \cup groups.uncertain
                             \cup uncertainRelationshipPresentations(p)]
  BY <1>2, <1>4 DEF Cards
<1> QED
  BY <1>3, <1>5, PresentationsAre

LEMMA DisjointCount ==
  ASSUME NEW S, IsFiniteSet(S), NEW T, IsFiniteSet(T), \A x \in S : x \notin T
  PROVE  /\ IsFiniteSet(S \cup T) /\ Cardinality(S \cup T) = Cardinality(S) + Cardinality(T)
         /\ Cardinality(S) \in Nat /\ Cardinality(T) \in Nat
PROOF
<1>1. S \cap T = {}
  OBVIOUS
<1>2. Cardinality(S \cup T) = Cardinality(S) + Cardinality(T) - Cardinality(S \cap T)
  BY FS_Union
<1>3. Cardinality(S \cap T) = 0
  BY <1>1, FS_EmptySet
<1>4. Cardinality(S) \in Nat /\ Cardinality(T) \in Nat
  BY FS_CardinalityType
<1> QED
  BY <1>2, <1>3, <1>4, FS_Union

\* No record of one sort is one of another, or a card.
LEMMA Sorts ==
  ASSUME NEW b, NEW c, NEW d, d = Differences(b, c)
  PROVE  /\ \A u \in d.uncertainties : DOMAIN u = {"subsystem", "reason"}
         /\ \A r \in d.nodeChanges : DOMAIN r = {"kind", "evidence", "nodeId", "label", "fields"}
         /\ \A r \in d.relationshipChanges : DOMAIN r = {"kind", "evidence", "edge"}
PROOF
<1>1. ASSUME NEW u \in d.uncertainties PROVE DOMAIN u = {"subsystem", "reason"}
  <2>1. u = [subsystem |-> u.subsystem, reason |-> u.reason]
    BY DifferencesAre
  <2> QED
    BY <2>1
<1>2. ASSUME NEW r \in d.nodeChanges PROVE DOMAIN r = {"kind", "evidence", "nodeId", "label", "fields"}
  <2>1. r = [kind |-> r.kind, evidence |-> r.evidence, nodeId |-> r.nodeId, label |-> r.label, fields |-> r.fields]
    BY NodeRecords
  <2> QED
    BY <2>1
<1>3. ASSUME NEW r \in d.relationshipChanges PROVE DOMAIN r = {"kind", "evidence", "edge"}
  <2>1. r = [kind |-> r.kind, evidence |-> r.evidence, edge |-> r.edge]
    BY EdgeRecords
  <2> QED
    BY <2>1
<1> QED
  BY <1>1, <1>2, <1>3

\* What the summary counts as uncertain is as much as the cards of the section.
LEMMA UncertainCount ==
  ASSUME NEW p, NEW b, NEW c, IsFinite(b), IsFinite(c), p.diff = Differences(b, c)
  PROVE  p.diff.summary.uncertainComparisons = Cardinality(Cards(p, None)["UNCERTAIN"])
PROOF
<1>1. PICK d : d = p.diff
  OBVIOUS
<1> DEFINE UN == Unconfirmed(d.nodeChanges)
           UE == Unconfirmed(d.relationshipChanges)
           U == d.uncertainties
           UC == {UncertainCard(p, r) : r \in UE}
           f == [r \in UE |-> UncertainCard(p, r)]
<1>2. d.summary.uncertainComparisons = Cardinality(U) + Cardinality(Unconfirmed(d.nodeChanges \cup d.relationshipChanges))
  BY <1>1, SummaryIs
<1>3. d.summary.uncertainComparisons = Cardinality(U) + Cardinality(UN \cup UE)
  <2>1. Unconfirmed(d.nodeChanges \cup d.relationshipChanges) = UN \cup UE
    BY DEF Unconfirmed
  <2> HIDE DEF U, UN, UE
  <2> QED
    BY <1>2, <2>1
<1>4. Cards(p, None)["UNCERTAIN"] = (U \cup UN) \cup UC
  BY <1>1, CardsAre
<1>5. IsFiniteSet(U) /\ IsFiniteSet(UN) /\ IsFiniteSet(UE)
  <2>1. IsFiniteSet(U) /\ IsFiniteSet(d.nodeChanges) /\ IsFiniteSet(d.relationshipChanges)
    BY <1>1, RecordsFinite DEF IsFinite
  <2>2. UN \in SUBSET d.nodeChanges /\ UE \in SUBSET d.relationshipChanges
    BY DEF Unconfirmed
  <2> QED
    BY <2>1, <2>2, FS_Subset
<1>6. /\ \A x \in U : DOMAIN x = {"subsystem", "reason"}
      /\ \A x \in UN : DOMAIN x = {"kind", "evidence", "nodeId", "label", "fields"}
      /\ \A x \in UE : DOMAIN x = {"kind", "evidence", "edge"}
  BY <1>1, Sorts DEF Unconfirmed
<1>7. /\ \A r : "records" \in DOMAIN UncertainCard(p, r)
      /\ \A r : UncertainCard(p, r).records = {r}
  BY RecordsOfCard DEF UncertainCard
<1>8. IsFiniteSet(UC) /\ Cardinality(UC) = Cardinality(UE)
  <2>1. f = [r \in UE |-> f[r]] /\ UC = {f[r] : r \in UE}
    OBVIOUS
  <2>2. \A x, y \in UE : f[x] = f[y] => x = y
    BY <1>7
  <2> HIDE DEF f, UE, UC
  <2> QED
    BY <1>5, <2>1, <2>2, ImageCount
<1>9. /\ \A x \in UN : x \notin UE
      /\ \A x \in U : x \notin UN
      /\ \A x \in U \cup UN : x \notin UC
  <2>1. "nodeId" \notin {"kind", "evidence", "edge"} /\ "nodeId" \notin {"subsystem", "reason"}
    OBVIOUS
  <2>2. \A x \in UC : "records" \in DOMAIN x
    BY <1>7
  <2>3. \A x \in U \cup UN : "records" \notin DOMAIN x
    BY <1>6
  <2> HIDE DEF U, UN, UE, UC
  <2> QED
    BY <1>6, <2>1, <2>2, <2>3
<1> HIDE DEF U, UN, UE, UC
<1>10. Cardinality(UN \cup UE) = Cardinality(UN) + Cardinality(UE)
  BY <1>5, <1>9, DisjointCount
<1>11. IsFiniteSet(U \cup UN) /\ Cardinality(U \cup UN) = Cardinality(U) + Cardinality(UN)
  BY <1>5, <1>9, DisjointCount
<1>12. Cardinality((U \cup UN) \cup UC) = Cardinality(U \cup UN) + Cardinality(UC)
  BY <1>8, <1>9, <1>11, DisjointCount
<1>13. Cardinality(U) \in Nat /\ Cardinality(UN) \in Nat /\ Cardinality(UE) \in Nat
  BY <1>5, FS_CardinalityType
<1>14. Cardinality((U \cup UN) \cup UC) = Cardinality(U) + Cardinality(UN \cup UE)
  BY <1>8, <1>10, <1>11, <1>12, <1>13
<1> QED
  BY <1>1, <1>3, <1>4, <1>14

\* The other counts, of records.
LEMMA NodeCounts ==
  ASSUME NEW b, NEW c, NEW d, d = Differences(b, c)
  PROVE  /\ d.summary.addedNodes = Cardinality(Counted(d.nodeChanges, "ADDED"))
         /\ d.summary.removedNodes = Cardinality(Counted(d.nodeChanges, "REMOVED"))
         /\ d.summary.modifiedNodes = Cardinality(Counted(d.nodeChanges, "MODIFIED"))
         /\ d.summary.addedRelationships = Cardinality(Counted(d.relationshipChanges, "RELATIONSHIP_ADDED"))
         /\ d.summary.removedRelationships = Cardinality(Counted(d.relationshipChanges, "RELATIONSHIP_REMOVED"))
BY SummaryIs, ZenonT(30)

\* The other counts.
LEMMA PageCounts ==
  ASSUME NEW p, NEW b, NEW c, IsFinite(b), IsFinite(c), p.diff = Differences(b, c)
  PROVE  /\ p.diff.summary.addedNodes = Cardinality(Cards(p, None)["ADDED"])
         /\ p.diff.summary.modifiedNodes = Cardinality(Cards(p, None)["MODIFIED"])
         /\ p.diff.summary.removedNodes = Cardinality(Cards(p, None)["REMOVED"])
         /\ p.diff.summary.addedRelationships + p.diff.summary.removedRelationships = Cardinality(Normal(p))
PROOF
<1>1. PICK d, s, cards : d = p.diff /\ s = p.diff.summary /\ cards = Cards(p, None)
  OBVIOUS
<1>2. /\ s.addedNodes = Cardinality(Counted(d.nodeChanges, "ADDED"))
      /\ s.removedNodes = Cardinality(Counted(d.nodeChanges, "REMOVED"))
      /\ s.modifiedNodes = Cardinality(Counted(d.nodeChanges, "MODIFIED"))
      /\ s.addedRelationships = Cardinality(Counted(d.relationshipChanges, "RELATIONSHIP_ADDED"))
      /\ s.removedRelationships = Cardinality(Counted(d.relationshipChanges, "RELATIONSHIP_REMOVED"))
  BY <1>1, NodeCounts
<1>3. /\ \A r \in d.nodeChanges : r.kind # "REMOVED" => r.evidence # "UNCONFIRMED_REMOVAL"
      /\ \A r \in d.relationshipChanges : r.kind \in {"RELATIONSHIP_ADDED", "RELATIONSHIP_REMOVED"}
  BY <1>1, KindsAre
<1>4. /\ Counted(d.nodeChanges, "ADDED") = {r \in d.nodeChanges : r.kind = "ADDED"}
      /\ Counted(d.nodeChanges, "MODIFIED") = {r \in d.nodeChanges : r.kind = "MODIFIED"}
  BY <1>3 DEF Counted
<1>5. /\ cards["ADDED"] = {r \in d.nodeChanges : r.kind = "ADDED"}
      /\ cards["MODIFIED"] = {r \in d.nodeChanges : r.kind = "MODIFIED"}
      /\ cards["REMOVED"] = Counted(d.nodeChanges, "REMOVED")
  BY <1>1, CardsAre
<1>6. s.addedRelationships + s.removedRelationships = Cardinality(Normal(p))
  <2> DEFINE A == Counted(d.relationshipChanges, "RELATIONSHIP_ADDED")
             R == Counted(d.relationshipChanges, "RELATIONSHIP_REMOVED")
  <2>1. Normal(p) = A \cup R
    BY <1>1, <1>3 DEF Normal, Counted
  <2>2. IsFiniteSet(d.relationshipChanges) /\ A \in SUBSET d.relationshipChanges /\ R \in SUBSET d.relationshipChanges
    BY <1>1, RecordsFinite DEF IsFinite, Counted
  <2>3. \A r \in A : r \notin R
    BY DEF Counted
  <2>4. IsFiniteSet(A) /\ IsFiniteSet(R)
    BY <2>2, FS_Subset
  <2> HIDE DEF A, R
  <2>5. Cardinality(A \cup R) = Cardinality(A) + Cardinality(R)
    BY <2>3, <2>4, DisjointCount
  <2> QED
    BY <1>2, <2>1, <2>5 DEF A, R
<1> QED
  BY <1>1, <1>2, <1>4, <1>5, <1>6

LEMMA StatusIs ==
  ASSUME NEW b, NEW c, NEW d, d = Differences(b, c)
  PROVE  d.status = IF ~d.summary.isComplete THEN "PARTIAL"
                    ELSE IF d.summary.hasChanges THEN "CHANGED" ELSE "NO_CHANGES"
BY DifferencesAre, ZenonT(30)

\* The cards of relationships have the records that are not unconfirmed removals.
LEMMA RecordsOnCards ==
  ASSUME NEW p
  PROVE  (UNION {card.records : card \in Cards(p, None)["RELATIONSHIP"]}) = Normal(p)
PROOF
<1>1. Cards(p, None)["RELATIONSHIP"] = {CardOf(p, c) : c \in Normal(p)}
  BY CardsAre
<1>2. \A c : CardOf(p, c).records = RecordsOf(p, c)
  BY RecordsOfCard DEF CardOf
<1>3. \A c \in Normal(p) : c \in RecordsOf(p, c) /\ RecordsOf(p, c) \subseteq Normal(p)
  BY OneCard
<1> QED
  BY <1>1, <1>2, <1>3

\* A page of cards has one.
LEMMA SomethingIsVisible ==
  ASSUME NEW b, NEW c, NEW d, d = Differences(b, c), NEW p, p.diff = d, d.status # "NO_CHANGES"
  PROVE  hasVisible(Cards(p, None), "ALL")
PROOF
<1>1. PICK cards : cards = Cards(p, None)
  OBVIOUS
<1>2. \A kind, uncertain : filterAllows("ALL", kind, uncertain)
  BY DEF filterAllows
<1>3. \/ \E r \in d.nodeChanges \cup d.relationshipChanges : r.evidence # "UNCONFIRMED_REMOVAL"
      \/ d.uncertainties # {}
      \/ \E r \in d.nodeChanges \cup d.relationshipChanges : r.evidence = "UNCONFIRMED_REMOVAL"
  <2>a. d.status = IF ~d.summary.isComplete THEN "PARTIAL"
                   ELSE IF d.summary.hasChanges THEN "CHANGED" ELSE "NO_CHANGES"
    BY StatusIs
  <2>1. \/ d.summary.hasChanges \/ ~d.summary.isComplete
    BY <2>a
  <2>2. /\ d.summary.hasChanges <=>
             \E r \in d.nodeChanges \cup d.relationshipChanges : r.evidence # "UNCONFIRMED_REMOVAL"
        /\ d.summary.isComplete <=>
             d.uncertainties = {} /\ \A r \in d.nodeChanges \cup d.relationshipChanges :
                                       r.evidence # "UNCONFIRMED_REMOVAL"
    BY SummaryIs, ZenonT(30)
  <2> QED
    BY <2>1, <2>2
<1>4. /\ DOMAIN cards = {"MODIFIED", "ADDED", "REMOVED", "RELATIONSHIP", "UNCERTAIN"}
      /\ cards["ADDED"] = {r \in d.nodeChanges : r.kind = "ADDED"}
      /\ cards["MODIFIED"] = {r \in d.nodeChanges : r.kind = "MODIFIED"}
      /\ cards["REMOVED"] = Counted(d.nodeChanges, "REMOVED")
      /\ cards["RELATIONSHIP"] = {CardOf(p, r) : r \in Normal(p)}
      /\ cards["UNCERTAIN"] = d.uncertainties \cup Unconfirmed(d.nodeChanges)
                              \cup {UncertainCard(p, r) : r \in Unconfirmed(d.relationshipChanges)}
  BY <1>1, CardsAre
<1>5. \E kind \in DOMAIN cards : cards[kind] # {}
  <2>1. ASSUME NEW r \in d.nodeChanges, r.evidence # "UNCONFIRMED_REMOVAL"
        PROVE  r \in cards["ADDED"] \/ r \in cards["MODIFIED"] \/ r \in cards["REMOVED"]
    BY <1>4, <2>1, KindsAre DEF Counted
  <2>2. ASSUME NEW r \in d.relationshipChanges, r.evidence # "UNCONFIRMED_REMOVAL"
        PROVE  CardOf(p, r) \in cards["RELATIONSHIP"]
    BY <1>4, <2>2 DEF Normal
  <2>3. ASSUME NEW r \in d.nodeChanges, r.evidence = "UNCONFIRMED_REMOVAL"
        PROVE  r \in cards["UNCERTAIN"]
    BY <1>4, <2>3 DEF Unconfirmed
  <2>4. ASSUME NEW r \in d.relationshipChanges, r.evidence = "UNCONFIRMED_REMOVAL"
        PROVE  UncertainCard(p, r) \in cards["UNCERTAIN"]
    BY <1>4, <2>4 DEF Unconfirmed
  <2>5. d.uncertainties \subseteq cards["UNCERTAIN"]
    BY <1>4
  <2>6. {"MODIFIED", "ADDED", "REMOVED", "RELATIONSHIP", "UNCERTAIN"} \subseteq DOMAIN cards
    BY <1>4
  <2>7. \/ cards["ADDED"] # {} \/ cards["MODIFIED"] # {} \/ cards["REMOVED"] # {}
        \/ cards["RELATIONSHIP"] # {} \/ cards["UNCERTAIN"] # {}
    BY <1>3, <2>1, <2>2, <2>3, <2>4, <2>5
  <2> QED
    BY <2>6, <2>7
<1> QED
  BY <1>1, <1>2, <1>5 DEF hasVisible

\* Each section is shown by the filter ALL and by one other.
LEMMA FiltersOf ==
  ASSUME NEW k \in {"MODIFIED", "ADDED", "REMOVED", "RELATIONSHIP", "UNCERTAIN"},
         NEW filters, filters = {f \in ChangeFilters : filterAllows(f, k, k = "UNCERTAIN")}
  PROVE  "ALL" \in filters /\ Cardinality(filters) = 2
PROOF
<1> DEFINE own == IF k = "RELATIONSHIP" THEN "RELATIONSHIPS" ELSE k
<1>1. own # "ALL" /\ own \in ChangeFilters
  BY DEF ChangeFilters
<1>2. ASSUME NEW f \in ChangeFilters PROVE filterAllows(f, k, k = "UNCERTAIN") <=> f = "ALL" \/ f = own
  BY DEF ChangeFilters, filterAllows
<1> HIDE DEF own
<1>3. filters = {"ALL"} \cup {own}
  BY <1>1, <1>2 DEF ChangeFilters
<1>4. IsFiniteSet({"ALL"}) /\ Cardinality({"ALL"}) = 1
  BY FS_Singleton
<1>5. own \notin {"ALL"}
  BY <1>1
<1>6. Cardinality({"ALL"} \cup {own}) = Cardinality({"ALL"}) + 1
  BY <1>4, <1>5, FS_AddElement
<1> QED
  BY <1>3, <1>4, <1>6

\* A record of a resource is on one card, which a search for its label finds.
LEMMA NodeOnOneCard ==
  ASSUME NEW p, NEW b, NEW c, p.diff = Differences(b, c), NEW r \in p.diff.nodeChanges,
         NEW cards, cards = Cards(p, None),
         NEW sections, sections = {k \in DOMAIN cards \ {"RELATIONSHIP"} : r \in cards[k]}
  PROVE  /\ Cardinality(sections) = 1
         /\ \A k \in sections : r \in Cards(p, r.label)[k]
PROOF
<1>1. PICK d : d = p.diff
  OBVIOUS
<1>2. /\ DOMAIN cards = {"MODIFIED", "ADDED", "REMOVED", "RELATIONSHIP", "UNCERTAIN"}
      /\ cards["ADDED"] = {x \in d.nodeChanges : x.kind = "ADDED"}
      /\ cards["MODIFIED"] = {x \in d.nodeChanges : x.kind = "MODIFIED"}
      /\ cards["REMOVED"] = Counted(d.nodeChanges, "REMOVED")
      /\ cards["UNCERTAIN"] = d.uncertainties \cup Unconfirmed(d.nodeChanges)
                              \cup {UncertainCard(p, x) : x \in Unconfirmed(d.relationshipChanges)}
  BY <1>1, CardsAre
<1>3. /\ r.kind \in {"ADDED", "REMOVED", "MODIFIED"}
      /\ r.kind # "REMOVED" => r.evidence # "UNCONFIRMED_REMOVAL"
  BY KindsAre
<1>4. r \in cards["UNCERTAIN"] <=> r.evidence = "UNCONFIRMED_REMOVAL"
  <2>1. DOMAIN r = {"kind", "evidence", "nodeId", "label", "fields"}
    BY Sorts
  <2>2. r \notin d.uncertainties
    <3>1. \A u \in d.uncertainties : DOMAIN u = {"subsystem", "reason"}
      BY <1>1, Sorts
    <3> QED
      BY <2>1, <3>1
  <2>3. \A x : r # UncertainCard(p, x)
    <3>1. \A x : "records" \in DOMAIN UncertainCard(p, x)
      BY RecordsOfCard DEF UncertainCard
    <3> QED
      BY <2>1, <3>1
  <2> QED
    BY <1>1, <1>2, <2>2, <2>3 DEF Unconfirmed
<1> DEFINE own == IF r.evidence = "UNCONFIRMED_REMOVAL" THEN "UNCERTAIN" ELSE r.kind
<1>5. /\ own \in DOMAIN cards \ {"RELATIONSHIP"}
      /\ \A k \in DOMAIN cards \ {"RELATIONSHIP"} : r \in cards[k] <=> k = own
  BY <1>1, <1>2, <1>3, <1>4 DEF Counted
<1>6. sections = {own}
  BY <1>5
<1>7. r \in Cards(p, r.label)[own]
  <2>1. nodeMatches(r, r.label)
    BY DEF nodeMatches
  <2>2. PICK groups : groups = nodeChangeGroups(p, r.label)
    OBVIOUS
  <2>3. /\ r.kind = "ADDED" => r \in groups.added
        /\ r.kind = "MODIFIED" => r \in groups.modified
        /\ r.kind = "REMOVED" /\ r.evidence # "UNCONFIRMED_REMOVAL" => r \in groups.removed
        /\ r.evidence = "UNCONFIRMED_REMOVAL" => r \in groups.uncertain
    BY <2>1, <2>2 DEF nodeChangeGroups
  <2>4. /\ Cards(p, r.label)["MODIFIED"] = groups.modified
        /\ Cards(p, r.label)["ADDED"] = groups.added
        /\ Cards(p, r.label)["REMOVED"] = groups.removed
        /\ groups.uncertain \subseteq Cards(p, r.label)["UNCERTAIN"]
    BY <2>2 DEF Cards
  <2> QED
    BY <1>3, <2>3, <2>4
<1> HIDE DEF own
<1> QED
  BY <1>6, <1>7, FS_Singleton

\* The resources of a payload: each that a record names, as the scans found it.
UniqueIds(graph) == \A m, n \in graph.nodes : m.id = n.id => m = n

LEMMA OnlyNode ==
  ASSUME NEW graph, UniqueIds(graph), None \notin graph.nodes, NEW id,
         NEW n, n = Only({x \in graph.nodes : x.id = id})
  PROVE  /\ n # None <=> id \in IdsIn(graph)
         /\ n # None => n.id = id
PROOF
<1>1. CASE id \in IdsIn(graph)
  <2>1. PICK m \in graph.nodes : m.id = id
    BY <1>1 DEF IdsIn
  <2>2. {x \in graph.nodes : x.id = id} = {m}
    BY <2>1 DEF UniqueIds
  <2>3. Cardinality({m}) = 1
    BY FS_Singleton
  <2>4. n = m
    BY <2>2, <2>3 DEF Only
  <2> QED
    BY <1>1, <2>1, <2>4
<1>2. CASE id \notin IdsIn(graph)
  <2>1. {x \in graph.nodes : x.id = id} = {}
    BY <1>2 DEF IdsIn
  <2>2. Cardinality({}) = 0
    BY FS_EmptySet
  <2>3. n = None
    BY <2>1, <2>2 DEF Only
  <2> QED
    BY <1>2, <2>3
<1> QED
  BY <1>1, <1>2

LEMMA ResourcesAre ==
  ASSUME NEW s, NEW t, s # None, t # None, NEW p, p = payload(s, t),
         UniqueIds(s.content), None \notin s.content.nodes,
         UniqueIds(t.content), None \notin t.content.nodes,
         NEW id, \/ \E c \in p.diff.nodeChanges : id = c.nodeId
                 \/ \E c \in p.diff.relationshipChanges : id = c.edge.source \/ id = c.edge.target
  PROVE  /\ p.resources[id].before # None <=> id \in IdsIn(s.content)
         /\ p.resources[id].before # None => p.resources[id].before.id = id
         /\ p.resources[id].after # None <=> id \in IdsIn(t.content)
         /\ p.resources[id].after # None => p.resources[id].after.id = id
PROOF
<1> DEFINE diff == compare(s, t)
           ids == {c.nodeId : c \in diff.nodeChanges}
                  \cup UNION {{c.edge.source, c.edge.target} : c \in diff.relationshipChanges}
           Node(x, i) == IF x = None THEN None ELSE Only({n \in x.content.nodes : n.id = i})
           Before(i) == Node(s, i)
           After(i) == Node(t, i)
<1>1. p.diff = diff /\ p.resources = [i \in ids |-> [before |-> Before(i), after |-> After(i)]]
  BY DEF payload
<1>2. id \in ids
  BY <1>1
<1>3. Before(id) = Only({n \in s.content.nodes : n.id = id}) /\ After(id) = Only({n \in t.content.nodes : n.id = id})
  OBVIOUS
<1> HIDE DEF ids, Before, After
<1>4. p.resources[id].before = Before(id) /\ p.resources[id].after = After(id)
  BY <1>1, <1>2
<1>5. (Before(id) # None <=> id \in IdsIn(s.content)) /\ (Before(id) # None => Before(id).id = id)
  BY <1>3, OnlyNode, ZenonT(30)
<1>6. (After(id) # None <=> id \in IdsIn(t.content)) /\ (After(id) # None => After(id).id = id)
  BY <1>3, OnlyNode
<1> QED
  BY <1>4, <1>5, <1>6

\* A set of two.
LEMMA PairIs ==
  ASSUME NEW S, IsFiniteSet(S), Cardinality(S) = 2, NEW x \in S, NEW y \in S, x # y
  PROVE  S = {x, y}
PROOF
<1>1. IsFiniteSet({x}) /\ Cardinality({x}) = 1 /\ y \notin {x}
  BY FS_Singleton
<1>2. Cardinality({x} \cup {y}) = 2
  <2>1. Cardinality({x} \cup {y}) = Cardinality({x}) + 1
    BY <1>1, FS_AddElement
  <2> QED
    BY <1>1, <2>1
<1>3. {x} \cup {y} \in SUBSET S
  OBVIOUS
<1>4. S = {x} \cup {y}
  BY <1>2, <1>3, FS_Subset
<1> QED
  BY <1>4

\* A card has one record of a kind: a replacement is a removal and an addition.
LEMMA KindOnCard ==
  ASSUME NEW p, IsFiniteSet(p.diff.relationshipChanges), NEW c \in Normal(p)
  PROVE  {x \in RecordsOf(p, c) : x.kind = c.kind} = {c}
PROOF
<1>1. CASE Replacement(GroupOf(p, c))
  <2>1. PICK S : S = GroupOf(p, c)
    OBVIOUS
  <2>2. S \in SUBSET p.diff.relationshipChanges /\ c \in S
    BY <2>1 DEF GroupOf, Normal
  <2>3. IsFiniteSet(S)
    BY <2>2, FS_Subset
  <2>4. Cardinality(S) = 2 /\ {r.kind : r \in S} = {"RELATIONSHIP_ADDED", "RELATIONSHIP_REMOVED"}
    BY <1>1, <2>1 DEF Replacement
  <2>5. c.kind \in {"RELATIONSHIP_ADDED", "RELATIONSHIP_REMOVED"}
    BY <2>2, <2>4
  <2>6. PICK d \in S : d.kind # c.kind
    BY <2>4, <2>5
  <2>7. S = {c, d}
    BY <2>2, <2>3, <2>4, <2>6, PairIs
  <2> QED
    BY <1>1, <2>1, <2>6, <2>7 DEF RecordsOf
<1>2. CASE ~Replacement(GroupOf(p, c))
  BY <1>2 DEF RecordsOf
<1> QED
  BY <1>1, <1>2

OneOf(preferred, other) == IF preferred # None THEN preferred ELSE other

\* What a card says of a record on it.
LEMMA CardSays ==
  ASSUME NEW R, NEW res, NEW u, NEW c \in R, \A x \in R : x.edge.source = c.edge.source,
         {x \in R : x.kind = c.kind} = {c}, NEW card, card = relationshipPresentation(R, res, u)
  PROVE  /\ card.records = R
         /\ card.subjectInCurrent = (res[c.edge.source].after # None)
         /\ card.subject = OneOf(res[c.edge.source].after, res[c.edge.source].before)
         /\ c.kind = "RELATIONSHIP_ADDED" =>
              card.afterTarget = OneOf(res[c.edge.target].after, res[c.edge.target].before)
         /\ c.kind = "RELATIONSHIP_REMOVED" =>
              card.beforeTarget = OneOf(res[c.edge.target].before, res[c.edge.target].after)
PROOF
<1>1. (CHOOSE r \in R : TRUE).edge.source = c.edge.source
  OBVIOUS
<1>2. PICK T : T = res[c.edge.target]
  OBVIOUS
<1>3. {res[r.edge.target] : r \in {x \in R : x.kind = c.kind}} = {T}
  BY <1>2
<1>4. \A x : Only({x}) = x
  BY FS_Singleton DEF Only
<1>5. card.records = R
  BY DEF relationshipPresentation
<1>6. /\ card.subjectInCurrent = (res[c.edge.source].after # None)
      /\ card.subject = OneOf(res[c.edge.source].after, res[c.edge.source].before)
  BY <1>1 DEF relationshipPresentation, OneOf
<1>7. ASSUME c.kind = "RELATIONSHIP_ADDED" PROVE card.afterTarget = OneOf(T.after, T.before)
  <2> DEFINE added == {res[r.edge.target] : r \in {x \in R : x.kind = "RELATIONSHIP_ADDED"}}
  <2>1. card.afterTarget = Only({OneOf(t.after, t.before) : t \in added})
    BY DEF relationshipPresentation, OneOf
  <2>2. added = {T}
    BY <1>3, <1>7
  <2> HIDE DEF added
  <2>3. {OneOf(t.after, t.before) : t \in added} = {OneOf(T.after, T.before)}
    BY <2>2
  <2> QED
    BY <1>4, <2>1, <2>3
<1>8. ASSUME c.kind = "RELATIONSHIP_REMOVED" PROVE card.beforeTarget = OneOf(T.before, T.after)
  <2> DEFINE removed == {res[r.edge.target] : r \in {x \in R : x.kind = "RELATIONSHIP_REMOVED"}}
  <2>1. card.beforeTarget = Only({OneOf(t.before, t.after) : t \in removed})
    BY DEF relationshipPresentation, OneOf
  <2>2. removed = {T}
    BY <1>3, <1>8
  <2> HIDE DEF removed
  <2>3. {OneOf(t.before, t.after) : t \in removed} = {OneOf(T.before, T.after)}
    BY <2>2
  <2> QED
    BY <1>4, <2>1, <2>3
<1> QED
  BY <1>2, <1>5, <1>6, <1>7, <1>8

\* A record of a relationship is on one card.
LEMMA EdgeOnOneCard ==
  ASSUME NEW p, NEW c \in p.diff.relationshipChanges,
         NEW mine, mine = {card \in Cards(p, None)["RELATIONSHIP"]
                                      \cup uncertainRelationshipPresentations(p) : c \in card.records}
  PROVE  mine = {IF c \in Normal(p) THEN CardOf(p, c) ELSE UncertainCard(p, c)}
PROOF
<1>1. /\ Cards(p, None)["RELATIONSHIP"] = {CardOf(p, x) : x \in Normal(p)}
      /\ uncertainRelationshipPresentations(p) =
           {UncertainCard(p, x) : x \in Unconfirmed(p.diff.relationshipChanges)}
  BY CardsAre, PresentationsAre
<1>2. \A x : CardOf(p, x).records = RecordsOf(p, x) /\ UncertainCard(p, x).records = {x}
  BY RecordsOfCard DEF CardOf, UncertainCard
<1>3. \A x : x \in Unconfirmed(p.diff.relationshipChanges)
               <=> x \in p.diff.relationshipChanges /\ x \notin Normal(p)
  BY DEF Unconfirmed, Normal
<1>4. CASE c \in Normal(p)
  <2>1. c \in RecordsOf(p, c)
    BY <1>4, OneCard
  <2>2. CardOf(p, c) \in mine
    BY <1>1, <1>2, <1>4, <2>1
  <2>3. ASSUME NEW card \in mine PROVE card = CardOf(p, c)
    <3>1. c \in card.records
      OBVIOUS
    <3>2. CASE card \in Cards(p, None)["RELATIONSHIP"]
      <4>1. PICK d \in Normal(p) : card = CardOf(p, d)
        BY <1>1, <3>2
      <4>2. RecordsOf(p, d) = RecordsOf(p, c)
        BY <1>2, <1>4, <3>1, <4>1, OneCard
      <4> QED
        BY <4>1, <4>2 DEF CardOf
    <3>3. CASE card \in uncertainRelationshipPresentations(p)
      <4>1. PICK d \in Unconfirmed(p.diff.relationshipChanges) : card = UncertainCard(p, d)
        BY <1>1, <3>3
      <4>2. c = d
        BY <1>2, <3>1, <4>1
      <4> QED
        BY <1>3, <1>4, <4>2
    <3> QED
      BY <3>2, <3>3
  <2> QED
    BY <1>4, <2>2, <2>3
<1>5. CASE c \notin Normal(p)
  <2>1. UncertainCard(p, c) \in mine
    BY <1>1, <1>2, <1>3, <1>5
  <2>2. ASSUME NEW card \in mine PROVE card = UncertainCard(p, c)
    <3>1. c \in card.records
      OBVIOUS
    <3>2. CASE card \in Cards(p, None)["RELATIONSHIP"]
      <4>1. PICK d \in Normal(p) : card = CardOf(p, d)
        BY <1>1, <3>2
      <4>2. c \in RecordsOf(p, d) /\ RecordsOf(p, d) \subseteq Normal(p)
        BY <1>2, <3>1, <4>1, OneCard
      <4> QED
        BY <1>5, <4>2
    <3>3. CASE card \in uncertainRelationshipPresentations(p)
      <4>1. PICK d \in Unconfirmed(p.diff.relationshipChanges) : card = UncertainCard(p, d)
        BY <1>1, <3>3
      <4>2. c = d
        BY <1>2, <3>1, <4>1
      <4> QED
        BY <4>1, <4>2
    <3> QED
      BY <3>2, <3>3
  <2> QED
    BY <1>5, <2>1, <2>2
<1> QED
  BY <1>4, <1>5

\* The card of a record names the record's target, and a click on it opens the
\* live resource exactly when the newer graph has it.
LEMMA CardOfRecord ==
  ASSUME NEW s, NEW t, s # None, t # None, NEW p, p = payload(s, t),
         p.diff = Differences(s.content, t.content), IsFinite(s.content), IsFinite(t.content),
         UniqueIds(s.content), None \notin s.content.nodes,
         UniqueIds(t.content), None \notin t.content.nodes,
         \A e \in s.content.edges : e.source \in IdsIn(s.content) /\ e.target \in IdsIn(s.content),
         \A e \in t.content.edges : e.source \in IdsIn(t.content) /\ e.target \in IdsIn(t.content),
         NEW c \in p.diff.relationshipChanges,
         NEW card, card = IF c \in Normal(p) THEN CardOf(p, c) ELSE UncertainCard(p, c)
  PROVE  /\ c.kind = "RELATIONSHIP_ADDED" => card.afterTarget # None /\ card.afterTarget.id = c.edge.target
         /\ c.kind # "RELATIONSHIP_ADDED" => card.beforeTarget # None /\ card.beforeTarget.id = c.edge.target
         /\ opensSubject(card) <=> c.edge.source \in IdsIn(t.content)
PROOF
<1>1. PICK S, T, R : S = p.resources[c.edge.source] /\ T = p.resources[c.edge.target]
                     /\ R = IF c \in Normal(p) THEN RecordsOf(p, c) ELSE {c}
  OBVIOUS
<1>2. /\ S.after # None <=> c.edge.source \in IdsIn(t.content)
      /\ T.before # None <=> c.edge.target \in IdsIn(s.content)
      /\ T.before # None => T.before.id = c.edge.target
      /\ T.after # None <=> c.edge.target \in IdsIn(t.content)
      /\ T.after # None => T.after.id = c.edge.target
  BY <1>1, ResourcesAre
<1>3. c.kind \in {"RELATIONSHIP_ADDED", "RELATIONSHIP_REMOVED"}
  BY KindsAre
<1>4. /\ c.kind = "RELATIONSHIP_ADDED" => T.after # None
      /\ c.kind = "RELATIONSHIP_REMOVED" => T.before # None
  <2>1. /\ c.kind = "RELATIONSHIP_ADDED" => c.edge \in t.content.edges
        /\ c.kind = "RELATIONSHIP_REMOVED" => c.edge \in s.content.edges
    BY EdgeRecords
  <2> QED
    BY <1>2, <2>1
<1>5. c \in R /\ (\A x \in R : x.edge.source = c.edge.source) /\ {x \in R : x.kind = c.kind} = {c}
  <2>1. CASE c \in Normal(p)
    <3>1. IsFiniteSet(p.diff.relationshipChanges)
      BY RecordsFinite DEF IsFinite
    <3>2. {x \in RecordsOf(p, c) : x.kind = c.kind} = {c}
      BY <2>1, <3>1, KindOnCard
    <3>3. c \in RecordsOf(p, c)
      BY <2>1, OneCard
    <3>4. \A x \in RecordsOf(p, c) : x.edge.source = c.edge.source
      BY DEF RecordsOf, GroupOf
    <3> QED
      BY <1>1, <2>1, <3>2, <3>3, <3>4
  <2>2. CASE c \notin Normal(p)
    BY <1>1, <2>2
  <2> QED
    BY <2>1, <2>2
<1>6. \E u : card = relationshipPresentation(R, p.resources, u)
  BY <1>1 DEF CardOf, UncertainCard
<1>7. /\ card.subjectInCurrent = (S.after # None)
      /\ card.subject = OneOf(S.after, S.before)
      /\ c.kind = "RELATIONSHIP_ADDED" => card.afterTarget = OneOf(T.after, T.before)
      /\ c.kind = "RELATIONSHIP_REMOVED" => card.beforeTarget = OneOf(T.before, T.after)
  BY <1>1, <1>5, <1>6, CardSays
<1>8. opensSubject(card) <=> S.after # None
  BY <1>7 DEF opensSubject, OneOf
<1>9. /\ c.kind = "RELATIONSHIP_ADDED" => card.afterTarget = T.after
      /\ c.kind = "RELATIONSHIP_REMOVED" => card.beforeTarget = T.before
  BY <1>4, <1>7 DEF OneOf
<1> QED
  BY <1>2, <1>3, <1>4, <1>8, <1>9

=============================================================================
