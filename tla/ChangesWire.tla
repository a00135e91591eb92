----------------------------- MODULE ChangesWire -----------------------------
(***************************************************************************)
(* The way of a comparison from the plugin to the page: the payload of     *)
(* ChangesOrchestrator, the JSON that its serializers write of it, and     *)
(* what changes-model.ts makes of that.                                    *)
(*                                                                         *)
(* An object is a function: a key that the serializer leaves out is not in *)
(* its domain, and null is None.  The plugin writes every value with its   *)
(* type, so a check of a type is a check that the value is there.  Lists   *)
(* are sets, and fields and resources are kept by their key.  The history, *)
(* instants, and the metadata of a resource are left out.                  *)
(***************************************************************************)
EXTENDS InfrastructureDiff

(* The plugin. *)

payload(previous, current) ==
  LET diff == compare(previous, current)
      ids == {c.nodeId : c \in diff.nodeChanges}
             \cup UNION {{c.edge.source, c.edge.target} : c \in diff.relationshipChanges}
      Node(s, id) == IF s = None THEN None ELSE Only({n \in s.content.nodes : n.id = id})
  IN  [schemaVersion |-> 1,
       comparison |-> [previous |-> IF previous = None THEN None ELSE previous.id,
                       current |-> current.id],
       diff |-> diff,
       resources |-> [id \in ids |-> [before |-> Node(previous, id), after |-> Node(current, id)]]]

\* A property with a default value is not written when it has that value,
\* except where the class says EncodeDefault.
Written(object, optional) ==
  [k \in {x \in DOMAIN object : x \notin optional \/ object[x] # None} |-> object[k]]

\* A fault: the schema version is left out, being the default.
EncodedWithoutVersion(p) == [k \in DOMAIN p \ {"schemaVersion"} |-> p[k]]

encodedDiff(d) ==
  [d EXCEPT !.nodeChanges =
     {[c EXCEPT !.fields = [f \in DOMAIN @ |-> Written(@[f], {"before", "after"})]] : c \in @}]
encoded(p) ==
  [p EXCEPT !.comparison = Written(@, {"previous"}), !.diff = encodedDiff(@),
            !.resources = [id \in DOMAIN @ |-> Written(@[id], {"before", "after"})]]

success(p) == [ok |-> TRUE, payload |-> encoded(p)]

(* The page. *)

Has(object, keys) == keys \subseteq DOMAIN object
Get(object, key) == IF Has(object, {key}) THEN object[key] ELSE None
text(object, key) == IF Has(object, {key}) THEN object[key] ELSE "UNKNOWN"
array(object, key) == IF Has(object, {key}) THEN object[key] ELSE {}
count(object, key) == IF Has(object, {key}) THEN object[key] ELSE 0

normalizeField(o) == [before |-> Get(o, "before"), after |-> Get(o, "after")]
normalizeResource(o) == [before |-> Get(o, "before"), after |-> Get(o, "after")]

IsNodeChange(o) == Has(o, {"nodeId"})
normalizeNodeChange(o) ==
  LET fields == IF Has(o, {"fields"}) THEN o.fields ELSE NoFields
  IN  [kind |-> text(o, "kind"), evidence |-> text(o, "evidence"), nodeId |-> o.nodeId,
       label |-> text(o, "label"),
       fields |-> [f \in DOMAIN fields |-> normalizeField(fields[f])]]

\* The ID of an edge ends with its route.
IsRelationshipChange(o) == Has(o, {"edge"}) /\ Has(o.edge, {"source", "target", "route"})
normalizeRelationshipChange(o) ==
  [kind |-> text(o, "kind"), evidence |-> text(o, "evidence"),
   edge |-> [source |-> o.edge.source, relation |-> text(o.edge, "relation"),
             target |-> o.edge.target, route |-> o.edge.route]]

normalizeUncertainty(o) == [subsystem |-> text(o, "subsystem"), reason |-> text(o, "reason")]

normalizeSummary(o) ==
  [addedNodes |-> count(o, "addedNodes"), removedNodes |-> count(o, "removedNodes"),
   modifiedNodes |-> count(o, "modifiedNodes"),
   addedRelationships |-> count(o, "addedRelationships"),
   removedRelationships |-> count(o, "removedRelationships"),
   uncertainComparisons |-> count(o, "uncertainComparisons"),
   hasChanges |-> Get(o, "hasChanges") = TRUE, isComplete |-> Get(o, "isComplete") # FALSE]

IsDiff(o) == Has(o, {"status", "summary"})
normalizeDiff(o) ==
  [status |-> o.status, summary |-> normalizeSummary(o.summary),
   nodeChanges |->
     {normalizeNodeChange(c) : c \in {x \in array(o, "nodeChanges") : IsNodeChange(x)}},
   relationshipChanges |->
     {normalizeRelationshipChange(c) :
        c \in {x \in array(o, "relationshipChanges") : IsRelationshipChange(x)}},
   uncertainties |-> {normalizeUncertainty(u) : u \in array(o, "uncertainties")}]

IsPayload(o) ==
  /\ Get(o, "schemaVersion") = 1
  /\ Has(o, {"resources", "comparison", "diff"})
  /\ Has(o.comparison, {"current"}) /\ IsDiff(o.diff)
normalizePayload(o) ==
  [schemaVersion |-> 1,
   comparison |-> [previous |-> Get(o.comparison, "previous"), current |-> o.comparison.current],
   diff |-> normalizeDiff(o.diff),
   resources |-> [id \in DOMAIN o.resources |-> normalizeResource(o.resources[id])]]

unavailable == [ok |-> FALSE, error |-> [code |-> "INVALID_CHANGES_PAYLOAD"]]

normalizeChangesResponse(response) ==
  IF ~response.ok THEN response
  ELSE IF Has(response, {"payload"}) /\ IsPayload(response.payload)
  THEN [ok |-> TRUE, payload |-> normalizePayload(response.payload)]
  ELSE unavailable
=============================================================================
