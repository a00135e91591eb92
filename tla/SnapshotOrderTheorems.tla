------------------------ MODULE SnapshotOrderTheorems ------------------------
(***************************************************************************)
(* What retention keeps of a finite set of snapshots with distinct IDs: at *)
(* most RetentionLimit of them, and a full list that is newer than every   *)
(* snapshot it drops.                                                      *)
(***************************************************************************)
EXTENDS SnapshotOrder, FiniteSetTheorems, WellFoundedInduction, TLAPS

DistinctIds(S) == \A a, b \in S : a.id = b.id => a = b

\* metadataOrder is a strict order, total on snapshots with distinct IDs.
LEMMA NewerIsStrict ==
  /\ \A a \in Snapshot : ~Newer(a, a)
  /\ \A a, b, c \in Snapshot : Newer(a, b) /\ Newer(b, c) => Newer(a, c)
  /\ \A a, b \in Snapshot : a.id # b.id => Newer(a, b) \/ Newer(b, a)
<1>1. \A a \in Snapshot : a.at \in Nat /\ a.id \in Nat
  BY IdsAssumption, TimesAssumption DEF Snapshot
<1> QED
  BY <1>1 DEF Newer

\* The first entry of a nonempty sorted list exists.
LEMMA FirstExists ==
  ASSUME NEW S \in SUBSET Snapshot, IsFiniteSet(S), S # {}
  PROVE  First(S) # {}
<1> DEFINE T == {Ahead(m, S) : m \in S}
<1>1. T \subseteq FiniteSubsetsOf(S) /\ T # {}
  <2>1. \A m \in S : Ahead(m, S) \in SUBSET S
    BY DEF Ahead
  <2>2. \A m \in S : IsFiniteSet(Ahead(m, S))
    BY <2>1, FS_Subset
  <2> QED
    BY <2>1, <2>2 DEF FiniteSubsetsOf
<1>2. PICK A \in T : \A B \in T : ~(<<B, A>> \in StrictSubsetOrdering(S))
  <2> HIDE DEF T
  <2> QED
    BY <1>1, FS_StrictSubsetOrderingWellFounded, WFMin
<1>3. PICK m \in S : A = Ahead(m, S)
  OBVIOUS
<1>4. ASSUME NEW o \in Ahead(m, S) PROVE FALSE
  <2>1. Ahead(o, S) \subseteq Ahead(m, S) /\ o \notin Ahead(o, S)
    BY <1>4, NewerIsStrict DEF Ahead
  <2>2. o \in S
    BY <1>4 DEF Ahead
  <2>3. Ahead(o, S) \in T
    BY <2>2
  <2>4. <<Ahead(o, S), A>> \in StrictSubsetOrdering(S)
    <3>1. Ahead(o, S) \in SUBSET S /\ Ahead(m, S) \in SUBSET S
      BY DEF Ahead
    <3>2. Ahead(o, S) # Ahead(m, S)
      BY <1>4, <2>1
    <3> QED
      BY <1>3, <2>1, <3>1, <3>2 DEF StrictSubsetOrdering
  <2> QED
    BY <1>2, <2>3, <2>4
<1> QED
  BY <1>4 DEF First

\* So does the last one.
LEMMA LastExists ==
  ASSUME NEW S \in SUBSET Snapshot, IsFiniteSet(S), S # {}
  PROVE  \E m \in S : \A o \in S : ~Newer(m, o)
<1> DEFINE Behind(m) == {o \in S : Newer(m, o)}
<1> DEFINE T == {Behind(m) : m \in S}
<1>1. T \subseteq FiniteSubsetsOf(S) /\ T # {}
  <2>1. \A m \in S : Behind(m) \in SUBSET S
    OBVIOUS
  <2>2. \A m \in S : IsFiniteSet(Behind(m))
    BY <2>1, FS_Subset
  <2> QED
    BY <2>1, <2>2 DEF FiniteSubsetsOf
<1>2. PICK A \in T : \A B \in T : ~(<<B, A>> \in StrictSubsetOrdering(S))
  BY <1>1, FS_StrictSubsetOrderingWellFounded, WFMin
<1>3. PICK m \in S : A = Behind(m)
  OBVIOUS
<1>4. ASSUME NEW o \in Behind(m) PROVE FALSE
  <2>1. Behind(o) \subseteq Behind(m) /\ o \notin Behind(o)
    BY <1>4, NewerIsStrict
  <2>2. Behind(o) \in T
    BY <1>4
  <2> QED
    BY <1>1, <1>2, <1>3, <1>4, <2>1, <2>2 DEF StrictSubsetOrdering
<1> QED
  BY <1>4

\* Retention drops a snapshot only in favour of a full list of newer ones.
LEMMA RetainedFull ==
  ASSUME NEW S \in SUBSET Snapshot, IsFiniteSet(S), DistinctIds(S),
         NEW d \in S \ Retained(S)
  PROVE  /\ Cardinality(Retained(S)) >= RetentionLimit
         /\ \A m \in Retained(S) : Newer(m, d)
<1> DEFINE C == S \ Retained(S)
<1>1. PICK f \in C : Ahead(f, C) = {}
  <2>1. C \in SUBSET Snapshot /\ IsFiniteSet(C) /\ C # {}
    BY FS_Subset
  <2> QED
    BY <2>1, FirstExists DEF First
<1>2. Ahead(f, S) \subseteq Retained(S)
  BY <1>1 DEF Ahead
<1>3. IsFiniteSet(Retained(S)) /\ Cardinality(Retained(S)) \in Nat
  BY FS_Subset, FS_CardinalityType DEF Retained
<1>4. \A m \in S : IsFiniteSet(Ahead(m, S)) /\ Cardinality(Ahead(m, S)) \in Nat
  BY FS_Subset, FS_CardinalityType DEF Ahead
<1>5. \A m \in C : Cardinality(Ahead(m, S)) >= RetentionLimit
  BY <1>4, RetentionAssumption DEF Retained
<1>6. Cardinality(Retained(S)) >= RetentionLimit
  <2>1. Cardinality(Ahead(f, S)) <= Cardinality(Retained(S))
    BY <1>2, <1>3, FS_Subset
  <2> QED
    BY <1>1, <1>3, <1>4, <1>5, <2>1, RetentionAssumption
<1>7. ASSUME NEW m \in Retained(S), ~Newer(m, d) PROVE FALSE
  <2>1. m \in S /\ m # d /\ Cardinality(Ahead(m, S)) < RetentionLimit
    BY <1>7 DEF Retained
  <2>2. Newer(d, m)
    BY <1>7, <2>1, NewerIsStrict DEF DistinctIds
  <2>3. Ahead(d, S) \subseteq Ahead(m, S)
    BY <2>1, <2>2, NewerIsStrict DEF Ahead
  <2>4. Cardinality(Ahead(d, S)) <= Cardinality(Ahead(m, S))
    BY <1>4, <2>1, <2>3, FS_Subset
  <2> QED
    BY <1>4, <1>5, <2>1, <2>4, RetentionAssumption
<1> QED
  BY <1>6, <1>7

\* Retention keeps at most RetentionLimit snapshots.
LEMMA RetainedBound ==
  ASSUME NEW S \in SUBSET Snapshot, IsFiniteSet(S), DistinctIds(S)
  PROVE  /\ IsFiniteSet(Retained(S))
         /\ Cardinality(Retained(S)) \in Nat
         /\ Cardinality(Retained(S)) <= RetentionLimit
<1>1. IsFiniteSet(Retained(S)) /\ Cardinality(Retained(S)) \in Nat
  BY FS_Subset, FS_CardinalityType DEF Retained
<1>2. CASE Retained(S) = {}
  BY <1>2, <1>1, FS_EmptySet, RetentionAssumption
<1>3. CASE Retained(S) # {}
  <2>1. PICK l \in Retained(S) : \A o \in Retained(S) : ~Newer(l, o)
    BY <1>1, <1>3, LastExists DEF Retained
  <2>2. l \in S /\ Cardinality(Ahead(l, S)) < RetentionLimit
    BY DEF Retained
  <2>3. Retained(S) \subseteq Ahead(l, S) \cup {l}
    BY <2>1, <2>2, NewerIsStrict DEF Ahead, Retained, DistinctIds
  <2>4. IsFiniteSet(Ahead(l, S)) /\ Cardinality(Ahead(l, S)) \in Nat
    BY FS_Subset, FS_CardinalityType DEF Ahead
  <2>5. /\ IsFiniteSet(Ahead(l, S) \cup {l})
        /\ Cardinality(Ahead(l, S) \cup {l}) = Cardinality(Ahead(l, S)) + 1
    <3>1. l \notin Ahead(l, S)
      BY NewerIsStrict, <2>2 DEF Ahead
    <3>2. Cardinality(Ahead(l, S) \cup {l}) = Cardinality(Ahead(l, S)) + 1
      BY <2>4, <3>1, FS_AddElement, Zenon
    <3> QED
      BY <2>4, <3>2, FS_AddElement, Zenon
  <2>6. /\ Cardinality(Retained(S)) <= Cardinality(Ahead(l, S) \cup {l})
        /\ Cardinality(Ahead(l, S) \cup {l}) \in Nat
    BY <2>3, <2>5, FS_Subset, FS_CardinalityType
  <2> QED
    BY <1>1, <2>2, <2>4, <2>5, <2>6, RetentionAssumption
<1> QED
  BY <1>2, <1>3

\* The newest snapshot is unique.
LEMMA FirstUnique ==
  ASSUME NEW S \in SUBSET Snapshot, DistinctIds(S), NEW a \in First(S), NEW b \in First(S)
  PROVE  a = b
BY NewerIsStrict DEF First, Ahead, DistinctIds

\* Retention drops nothing from a history within the limit.
LEMMA RetainedAll ==
  ASSUME NEW S \in SUBSET Snapshot, IsFiniteSet(S), DistinctIds(S),
         Cardinality(S) <= RetentionLimit
  PROVE  Retained(S) = S
<1> SUFFICES ASSUME NEW d \in S PROVE Cardinality(Ahead(d, S)) < RetentionLimit
  BY DEF Retained
<1>1. Ahead(d, S) \subseteq S /\ d \notin Ahead(d, S)
  BY NewerIsStrict DEF Ahead
<1>2. /\ Cardinality(Ahead(d, S)) \in Nat /\ Cardinality(S) \in Nat
      /\ Cardinality(Ahead(d, S)) < Cardinality(S)
  <2>1. IsFiniteSet(Ahead(d, S)) /\ Cardinality(Ahead(d, S)) <= Cardinality(S)
    BY <1>1, FS_Subset
  <2>2. Cardinality(Ahead(d, S)) # Cardinality(S)
    BY <1>1, FS_Subset
  <2> QED
    BY <2>1, <2>2, FS_CardinalityType
<1> QED
  BY <1>2, RetentionAssumption

\* Deleting a snapshot that retention drops changes nothing of what it keeps.
LEMMA RetainedWithout ==
  ASSUME NEW S \in SUBSET Snapshot, IsFiniteSet(S), DistinctIds(S),
         NEW d \in S \ Retained(S)
  PROVE  Retained(S \ {d}) = Retained(S)
<1>1. /\ \A m \in S : Ahead(m, S \ {d}) \subseteq Ahead(m, S)
      /\ \A m \in Retained(S) : Ahead(m, S \ {d}) = Ahead(m, S)
  <2>1. \A m \in Retained(S) : Newer(m, d) /\ m \in Snapshot /\ d \in Snapshot
    BY RetainedFull DEF Retained
  <2> QED
    BY <2>1, NewerIsStrict DEF Ahead
<1>2. Retained(S) \subseteq Retained(S \ {d})
  BY <1>1 DEF Retained
<1>3. ASSUME NEW m \in S \ {d}, m \notin Retained(S) PROVE m \notin Retained(S \ {d})
  <2>1. /\ Cardinality(Retained(S)) >= RetentionLimit
        /\ Retained(S) \subseteq Ahead(m, S \ {d})
    BY <1>3, RetainedFull DEF Ahead, Retained
  <2>2. IsFiniteSet(Ahead(m, S \ {d}))
    BY FS_Subset DEF Ahead
  <2>3. /\ Cardinality(Retained(S)) <= Cardinality(Ahead(m, S \ {d}))
        /\ Cardinality(Retained(S)) \in Nat /\ Cardinality(Ahead(m, S \ {d})) \in Nat
    BY <2>1, <2>2, FS_Subset, FS_CardinalityType
  <2> QED
    BY <2>1, <2>3, RetentionAssumption DEF Retained
<1> QED
  BY <1>2, <1>3 DEF Retained

\* A snapshot of a history, or one that retention has dropped from it.
Kept(m, S) == m \in S \/ Cardinality(Ahead(m, S)) >= RetentionLimit

\* A dropped snapshot stays behind a full list.
LEMMA KeptByRetention ==
  ASSUME NEW S \in SUBSET Snapshot, IsFiniteSet(S), NEW m \in Snapshot,
         DistinctIds(S \cup {m}), Kept(m, S)
  PROVE  Kept(m, Retained(S))
<1> DEFINE T == S \cup {m}
<1>1. IsFiniteSet(T) /\ T \in SUBSET Snapshot /\ DistinctIds(S)
  BY FS_AddElement DEF DistinctIds
<1>2. ASSUME m \notin Retained(T), Retained(S) = Retained(T) PROVE Kept(m, Retained(S))
  <2>1. /\ Cardinality(Retained(T)) >= RetentionLimit
        /\ \A o \in Retained(T) : Newer(o, m)
    BY <1>1, <1>2, RetainedFull
  <2>2. Ahead(m, Retained(S)) = Retained(S)
    BY <1>2, <2>1 DEF Ahead
  <2> QED
    BY <1>2, <2>1, <2>2 DEF Kept
<1>3. CASE m \in S
  <2>1. T = S
    BY <1>3
  <2> QED
    BY <1>2, <2>1 DEF Kept
<1>4. CASE m \notin S
  <2>1. Ahead(m, T) = Ahead(m, S) /\ T \ {m} = S
    BY <1>4, NewerIsStrict DEF Ahead
  <2>2. m \notin Retained(T)
    <3>1. IsFiniteSet(Ahead(m, S)) /\ Cardinality(Ahead(m, S)) \in Nat
      BY FS_Subset, FS_CardinalityType DEF Ahead
    <3> QED
      BY <1>4, <2>1, <3>1, RetentionAssumption DEF Kept, Retained
  <2>3. Retained(T \ {m}) = Retained(T)
    BY <1>1, <2>2, RetainedWithout
  <2> QED
    BY <1>2, <2>1, <2>2, <2>3
<1> QED
  BY <1>3, <1>4

\* Saving to a history keeps what it held and what is saved.
LEMMA KeptBySaving ==
  ASSUME NEW S \in SUBSET Snapshot, NEW C \in SUBSET Snapshot, IsFiniteSet(S), IsFiniteSet(C),
         NEW m \in Snapshot, DistinctIds((S \cup C) \cup {m}), m \in C \/ Kept(m, S)
  PROVE  Kept(m, Retained(S \cup C))
<1>1. IsFiniteSet(S \cup C) /\ S \cup C \in SUBSET Snapshot
  BY FS_Union
<1>2. Kept(m, S \cup C)
  <2>1. IsFiniteSet(Ahead(m, S \cup C)) /\ Ahead(m, S) \subseteq Ahead(m, S \cup C)
    BY <1>1, FS_Subset DEF Ahead
  <2>2. /\ Cardinality(Ahead(m, S)) <= Cardinality(Ahead(m, S \cup C))
        /\ Cardinality(Ahead(m, S)) \in Nat /\ Cardinality(Ahead(m, S \cup C)) \in Nat
    BY <2>1, FS_Subset, FS_CardinalityType
  <2> QED
    BY <2>2, RetentionAssumption DEF Kept
<1> QED
  BY <1>1, <1>2, KeptByRetention
=============================================================================
