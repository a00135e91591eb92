---------------------------- MODULE ChangesModel ----------------------------
(***************************************************************************)
(* What the Changes page shows of a comparison: changes-model.ts and       *)
(* ChangesPage.tsx.                                                        *)
(*                                                                         *)
(* A search query is None or a word of a change, a label, a type, a field  *)
(* or a relation; the values of fields are not searched.  The order of the *)
(* cards, the history list and the wording are left out.                   *)
(***************************************************************************)
EXTENDS ChangesWire

ChangeFilters == {"ALL", "ADDED", "MODIFIED", "REMOVED", "RELATIONSHIPS", "UNCERTAIN"}

confirmedChangeCount(p) ==
  p.diff.summary.addedNodes + p.diff.summary.modifiedNodes + p.diff.summary.removedNodes
  + p.diff.summary.addedRelationships + p.diff.summary.removedRelationships

(* Nodes. *)

nodeMatches(change, query) ==
  query \in {None, change.label, type(change.nodeId)} \cup DOMAIN change.fields

\* A fault: an unconfirmed removal is listed with the removed resources.
AllRemoved(p, query) ==
  [removed |-> {c \in p.diff.nodeChanges : c.kind = "REMOVED" /\ nodeMatches(c, query)},
   added |-> {c \in p.diff.nodeChanges : c.kind = "ADDED" /\ nodeMatches(c, query)},
   modified |-> {c \in p.diff.nodeChanges : c.kind = "MODIFIED" /\ nodeMatches(c, query)},
   uncertain |-> {c \in p.diff.nodeChanges : c.evidence = "UNCONFIRMED_REMOVAL" /\ nodeMatches(c, query)}]

nodeChangeGroups(p, query) ==
  LET matches == {c \in p.diff.nodeChanges : nodeMatches(c, query)}
  IN  [added |-> {c \in matches : c.kind = "ADDED"},
       modified |-> {c \in matches : c.kind = "MODIFIED"},
       removed |-> {c \in matches : c.kind = "REMOVED" /\ c.evidence # "UNCONFIRMED_REMOVAL"},
       uncertain |-> {c \in matches : c.evidence = "UNCONFIRMED_REMOVAL"}]

(* Relationships. *)

relationshipPresentation(records, resources, uncertain) ==
  LET first == (CHOOSE r \in records : TRUE).edge
      source == resources[first.source]
      Either(preferred, other) == IF preferred # None THEN preferred ELSE other
      Targets(kind) == {resources[r.edge.target] : r \in {x \in records : x.kind = kind}}
      removed == Targets("RELATIONSHIP_REMOVED")
      added == Targets("RELATIONSHIP_ADDED")
  IN  [relation |-> first.relation, records |-> records, uncertain |-> uncertain,
       subject |-> Either(source.after, source.before),
       subjectInCurrent |-> source.after # None,
       beforeTarget |-> Only({Either(t.before, t.after) : t \in removed}),
       afterTarget |-> Only({Either(t.after, t.before) : t \in added})]

\* A fault: records of one subject are joined whatever their number.
JoinedAlways(records) == TRUE

\* One removed and one added relationship of a subject are shown as a replacement.
Replacement(records) ==
  /\ Cardinality(records) = 2
  /\ {r.kind : r \in records} = {"RELATIONSHIP_ADDED", "RELATIONSHIP_REMOVED"}

relationshipPresentations(p) ==
  LET normal == {c \in p.diff.relationshipChanges : c.evidence # "UNCONFIRMED_REMOVAL"}
      Group(c) == {x \in normal : x.edge.source = c.edge.source /\ x.edge.relation = c.edge.relation}
  IN  {relationshipPresentation(IF Replacement(Group(c)) THEN Group(c) ELSE {c}, p.resources, FALSE)
         : c \in normal}

uncertainRelationshipPresentations(p) ==
  {relationshipPresentation({c}, p.resources, TRUE)
     : c \in {x \in p.diff.relationshipChanges : x.evidence = "UNCONFIRMED_REMOVAL"}}

relationshipMatches(presentation, query) ==
  LET nodes == {presentation.subject, presentation.beforeTarget, presentation.afterTarget} \ {None}
  IN  query \in {None, presentation.relation} \cup {n.label : n \in nodes}
                \cup {type(n.id) : n \in {presentation.subject} \ {None}}

(* The page. *)

filterAllows(filter, kind, uncertain) ==
  CASE filter = "ALL" -> TRUE
    [] filter = "UNCERTAIN" -> uncertain
    [] OTHER -> ~uncertain /\ kind = (IF filter = "RELATIONSHIPS" THEN "RELATIONSHIP" ELSE filter)

\* The cards of each section of the page, which are not filtered yet.
Cards(p, query) ==
  LET groups == nodeChangeGroups(p, query)
      MatchingQuery(S) == {r \in S : relationshipMatches(r, query)}
  IN  [MODIFIED |-> groups.modified, ADDED |-> groups.added, REMOVED |-> groups.removed,
       RELATIONSHIP |-> MatchingQuery(relationshipPresentations(p)),
       UNCERTAIN |-> p.diff.uncertainties \cup groups.uncertain
                     \cup MatchingQuery(uncertainRelationshipPresentations(p))]

hasVisible(cards, filter) ==
  \E kind \in DOMAIN cards : filterAllows(filter, kind, kind = "UNCERTAIN") /\ cards[kind] # {}

\* What the page becomes: cards for a comparison, one sentence for the other statuses.
PageOf(p) ==
  CASE p.diff.status \in {"NO_BASELINE", "NO_CHANGES"} -> p.diff.status
    [] p.diff.status \in {"CHANGED", "PARTIAL"} -> "CARDS"
    [] OTHER -> "UNAVAILABLE"

\* A click on a card opens the live resource, or the details of the change.
opensNode(p, change) == p.resources[change.nodeId].after # None
opensSubject(presentation) == presentation.subjectInCurrent /\ presentation.subject # None

\* A fault: a partial comparison always reports its count.
CountedFeedback(p) ==
  IF p.diff.status \in {"NO_BASELINE", "NO_CHANGES"} THEN [text |-> p.diff.status, count |-> 0]
  ELSE [text |-> "CHANGES", count |-> confirmedChangeCount(p)]

\* The line the toolbar shows after a scan.
scanFeedback(p) ==
  CASE p.diff.status \in {"NO_BASELINE", "NO_CHANGES"} -> [text |-> p.diff.status, count |-> 0]
    [] p.diff.status = "PARTIAL" /\ confirmedChangeCount(p) = 0 -> [text |-> "INCOMPLETE", count |-> 0]
    [] OTHER -> [text |-> "CHANGES", count |-> confirmedChangeCount(p)]
=============================================================================
