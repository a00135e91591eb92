---------------------------- MODULE SnapshotOrder ----------------------------
(***************************************************************************)
(* The data of the local snapshot history and the order it is kept in.     *)
(* A snapshot stands for its metadata: the UUID, the capture instant and   *)
(* the fingerprint of its content.  Lists that the code keeps sorted by    *)
(* metadataOrder are sets here: the order is a function of the elements.   *)
(***************************************************************************)
EXTENDS Naturals, FiniteSets

CONSTANTS
  Ids,              \* snapshot UUIDs, as numbers because UUIDs break ties
  Times,            \* capture instants
  Fingerprints,     \* content fingerprints
  RetentionLimit    \* snapshots kept per server (50 in the product)

ASSUME IdsAssumption == Ids \subseteq Nat
ASSUME TimesAssumption == Times \subseteq Nat
ASSUME RetentionAssumption == RetentionLimit \in Nat \ {0}

Snapshot == [id : Ids, at : Times, fp : Fingerprints]

IdsOf(S) == {m.id : m \in S}

\* metadataOrder: the later capture first, then the greater UUID.
Newer(a, b) == a.at > b.at \/ (a.at = b.at /\ a.id > b.id)

Ahead(m, S) == {o \in S : Newer(o, m)}

\* sortedWith(metadataOrder).firstOrNull(), as a set of at most one snapshot.
First(S) == {m \in S : Ahead(m, S) = {}}

\* One entry too few.
RetainedTooFew(S) == {m \in S : Cardinality(Ahead(m, S)) + 1 < RetentionLimit}

\* sortedWith(metadataOrder).take(retentionLimit).
Retained(S) == {m \in S : Cardinality(Ahead(m, S)) < RetentionLimit}
=============================================================================
