------------------------- MODULE SnapshotStoreProofs -------------------------
(***************************************************************************)
(* The invariants of SnapshotStore for any number of threads, snapshots    *)
(* and crashes, and what they imply for eviction.                          *)
(***************************************************************************)
EXTENDS SnapshotStore, SnapshotOrderTheorems

LEMMA ResultTyped ==
  /\ \A tag \in Tags, snaps \in SUBSET Snapshot : Result(tag, snaps) \in Results
  /\ {} \in SUBSET Snapshot
  /\ {"none", "saved", "duplicate", "found", "listed", "failed"} \subseteq Tags
  /\ {"idle", "waiting"} \cup Busy = {"idle", "waiting", "recovering", "reading", "finishing"}
BY DEF Result, Results, Tags, Busy

LEMMA AtMostOneTyped ==
  /\ {} \in AtMostOne
  /\ \A s \in Snapshot : {s} \in AtMostOne
  /\ AtMostOne \subseteq SUBSET Snapshot
BY DEF AtMostOne

LEMMA RetainedTyped == \A S : Retained(S) \subseteq S /\ First(S) \subseteq S
BY DEF Retained, First

\* Return leaves typed locals, whatever it returns.
LEMMA ReturnTyped ==
  ASSUME TypeOK, NEW t \in Threads, NEW tag \in Tags, NEW snaps \in SUBSET Snapshot,
         Return(t, tag, snaps)
  PROVE  /\ lock' \in SUBSET Threads
         /\ pc' \in [Threads -> Busy \cup {"idle", "waiting"}]
         /\ op' \in [Threads -> Ops \cup {"none"}]
         /\ pending' \in [Threads -> AtMostOne]
         /\ list' \in [Threads -> SUBSET Snapshot]
         /\ doomed' \in [Threads -> SUBSET Snapshot]
         /\ res' \in [Threads -> Results]
BY ResultTyped, AtMostOneTyped DEF Return, Release, TypeOK

LEMMA TypeInit == Init => TypeOK
<1> SUFFICES ASSUME Init PROVE TypeOK
  OBVIOUS
<1>1. index \in [readable : BOOLEAN, entries : SUBSET Snapshot] /\ damage \in 0..MaxFileDamage
  BY DamageAssumption DEF Init
<1>2. pending \in [Threads -> AtMostOne] /\ res \in [Threads -> Results]
  BY ResultTyped, AtMostOneTyped DEF Init
<1>3. /\ pc \in [Threads -> Busy \cup {"idle", "waiting"}]
      /\ op \in [Threads -> Ops \cup {"none"}]
  BY DEF Init
<1> QED
  BY <1>1, <1>2, <1>3 DEF Init, TypeOK

LEMMA TypeStep ==
  ASSUME TypeOK, [Next]_vars
  PROVE  TypeOK'
<1> USE ResultTyped, AtMostOneTyped, RetainedTyped DEF TypeOK, disk, locals, outside
<1>1. ASSUME NEW t \in Threads, CallSave(t) PROVE TypeOK'
  <2> PICK i \in NewIds, a \in Instants, f \in Fingerprints :
           /\ Call(t, "save", {[id |-> i, at |-> a, fp |-> f]})
           /\ clock' = IF StrictClock THEN a ELSE clock
    BY <1>1 DEF CallSave
  <2>1. i \in Ids /\ a \in Times
    BY DEF NewIds, FreshIds, Instants, Least
  <2>2. [id |-> i, at |-> a, fp |-> f] \in Snapshot
    BY <2>1 DEF Snapshot
  <2> QED
    BY <2>1, <2>2 DEF Call, Ops
<1>2. ASSUME NEW t \in Threads, CallRead(t) PROVE TypeOK'
  BY <1>2 DEF CallRead, Call, Ops
<1>3. ASSUME NEW t \in Threads, EnterMissing(t) PROVE TypeOK'
  BY <1>3 DEF EnterMissing, Return, Release
<1>4. ASSUME NEW t \in Threads, Enter(t) PROVE TypeOK'
  BY <1>4 DEF Enter, Recover, Goto
<1>5. ASSUME NEW t \in Threads, Load(t) PROVE TypeOK'
  <2> PICK i \in Ids :
           \/ i \notin corrupt /\ Return(t, "found", {m \in valid : m.id = i})
           \/ /\ lock' = {t} /\ Recover(t, "finishing")
              /\ res' = [res EXCEPT ![t] = Result("found", {})]
              /\ UNCHANGED <<op, pending>>
    BY <1>5 DEF Load
  <2>1. CASE Return(t, "found", {m \in valid : m.id = i})
    BY <1>5, <2>1, ReturnTyped DEF Load
  <2>2. CASE Recover(t, "finishing")
    BY <1>5, <2>2 DEF Load, Recover, Goto, Return, Release
  <2> QED
    BY <2>1, <2>2
<1>6. ASSUME NEW t \in Threads, SaveDuplicate(t) PROVE TypeOK'
  BY <1>6 DEF SaveDuplicate, Return, Release, Repeated
<1>7. ASSUME NEW t \in Threads, SaveFile(t) PROVE TypeOK'
  BY <1>7 DEF SaveFile, Merged, Goto
<1>8. ASSUME NEW t \in Threads, ReadLatest(t) PROVE TypeOK'
  <2> DEFINE loaded == First(list[t] \cap valid)
  <2>1. loaded \in SUBSET Snapshot
    BY DEF First
  <2>2. CASE Return(t, "found", loaded)
    BY <1>8, <2>1, <2>2, ReturnTyped DEF ReadLatest
  <2>3. CASE ~Return(t, "found", loaded)
    BY <1>8, <2>1, <2>3 DEF ReadLatest, Recover, Goto
  <2> QED
    BY <2>2, <2>3
<1>9. ASSUME NEW t \in Threads, ReadList(t) PROVE TypeOK'
  BY <1>9 DEF ReadList, Return, Release
<1>10. ASSUME NEW t \in Threads, Prune(t) PROVE TypeOK'
  BY <1>10 DEF Prune
<1>11. ASSUME NEW t \in Threads, WriteIndex(t) PROVE TypeOK'
  <2>2. index' \in [readable : BOOLEAN, entries : SUBSET Snapshot]
    BY <1>11 DEF WriteIndex
  <2>3. CASE Return(t, res[t].tag, res[t].snaps)
    <3>1. res[t].tag \in Tags /\ res[t].snaps \in SUBSET Snapshot
      BY DEF Results
    <3> QED
      BY <1>11, <2>2, <2>3, <3>1, ReturnTyped DEF WriteIndex
  <2>4. CASE UNCHANGED <<lock, locals, res>> /\ pc' = [pc EXCEPT ![t] = "reading"]
    BY <1>11, <2>2, <2>4 DEF WriteIndex
  <2> QED
    BY <1>11, <2>3, <2>4 DEF WriteIndex
<1>12. ASSUME NEW t \in Threads, Fail(t) PROVE TypeOK'
  BY <1>12 DEF Fail, Return, Release
<1>13. CASE Crash
  BY <1>13 DEF Crash
<1>14. CASE LoseIndex
  BY <1>14 DEF LoseIndex
<1>15. CASE DamageFile
  <2>1. damage + 1 \in 0..MaxFileDamage
    BY <1>15, DamageAssumption DEF DamageFile
  <2>2. \A m \in valid : m.id \in Ids
    BY DEF Snapshot
  <2> QED
    BY <1>15, <2>1, <2>2 DEF DamageFile
<1>16. CASE UNCHANGED vars
  BY <1>16 DEF vars
<1> QED
  BY <1>1, <1>2, <1>3, <1>4, <1>5, <1>6, <1>7, <1>8, <1>9, <1>10, <1>11, <1>12,
     <1>13, <1>14, <1>15, <1>16 DEF Next, Step

\* Every state of the store has the declared types.
THEOREM TypeCorrect == Spec => []TypeOK
BY TypeInit, TypeStep, PTL DEF Spec

(***************************************************************************)
(* One lemma per part of the inductive invariant, one step per action.     *)
(***************************************************************************)
LEMMA LockStep ==
  ASSUME TypeOK, LockInv, [Next]_vars
  PROVE  LockInv'
<1> USE DEF TypeOK, LockInv, Busy, locals
<1>1. ASSUME NEW t \in Threads, CallSave(t) PROVE LockInv'
  BY <1>1 DEF CallSave, Call
<1>2. ASSUME NEW t \in Threads, CallRead(t) PROVE LockInv'
  BY <1>2 DEF CallRead, Call
<1>3. ASSUME NEW t \in Threads, EnterMissing(t) PROVE LockInv'
  BY <1>3 DEF EnterMissing, Waiting, Return, Release
<1>4. ASSUME NEW t \in Threads, Enter(t) PROVE LockInv'
  BY <1>4 DEF Enter, Waiting, Recover, Goto
<1>5. ASSUME NEW t \in Threads, Load(t) PROVE LockInv'
  BY <1>5 DEF Load, Waiting, Recover, Goto, Return, Release
<1>6. ASSUME NEW t \in Threads, SaveDuplicate(t) PROVE LockInv'
  BY <1>6, SMTT(20) DEF SaveDuplicate, Return, Release
<1>7. ASSUME NEW t \in Threads, SaveFile(t) PROVE LockInv'
  BY <1>7 DEF SaveFile, Goto
<1>8. ASSUME NEW t \in Threads, ReadLatest(t) PROVE LockInv'
  BY <1>8 DEF ReadLatest, Recover, Goto, Return, Release
<1>9. ASSUME NEW t \in Threads, ReadList(t) PROVE LockInv'
  BY <1>9, SMTT(20) DEF ReadList, Return, Release
<1>10. ASSUME NEW t \in Threads, Prune(t) PROVE LockInv'
  BY <1>10 DEF Prune
<1>11. ASSUME NEW t \in Threads, WriteIndex(t) PROVE LockInv'
  BY <1>11 DEF WriteIndex, Return, Release
<1>12. ASSUME NEW t \in Threads, Fail(t) PROVE LockInv'
  <2>1. \A u \in Threads \ {t} : pc[u] \notin Busy
    BY <1>12 DEF Fail
  <2>2. /\ lock' = {} /\ pc' = [pc EXCEPT ![t] = "idle"]
        /\ list' = [list EXCEPT ![t] = {}] /\ doomed' = [doomed EXCEPT ![t] = {}]
    BY <1>12 DEF Fail, Return, Release
  <2> QED
    BY <2>1, <2>2
<1>13. CASE Crash
  BY <1>13 DEF Crash
<1>14. CASE LoseIndex
  BY <1>14 DEF LoseIndex
<1>15. CASE DamageFile
  BY <1>15 DEF DamageFile
<1>16. CASE UNCHANGED vars
  BY <1>16 DEF vars
<1> QED
  BY <1>1, <1>2, <1>3, <1>4, <1>5, <1>6, <1>7, <1>8, <1>9, <1>10, <1>11, <1>12,
     <1>13, <1>14, <1>15, <1>16 DEF Next, Step

\* A step that adds nothing to what is known keeps identities apart.
LEMMA IdentityKept ==
  ASSUME IdentityInv,
         \A u \in Threads : /\ list'[u] \cup doomed'[u] \subseteq Known
                            /\ pending'[u] \subseteq pending[u],
         valid' \cup index'.entries \subseteq Known,
         corrupt' \subseteq corrupt \cup IdsOf(Known)
  PROVE  IdentityInv'
<1>1. Known' \subseteq Known
  BY DEF Known
<1> QED
  BY <1>1 DEF IdentityInv, IdsOf

LEMMA KnownHolds ==
  /\ valid \subseteq Known /\ index.entries \subseteq Known
  /\ \A t \in Threads : list[t] \subseteq Known /\ doomed[t] \subseteq Known
BY DEF Known

LEMMA IdentityStep ==
  ASSUME TypeOK, IdentityInv, [Next]_vars
  PROVE  IdentityInv'
<1> USE KnownHolds, RetainedTyped DEF TypeOK, locals, disk
<1>1. ASSUME NEW t \in Threads, CallSave(t) PROVE IdentityInv'
  <2>1. PICK i \in FreshIds, a \in Times, f \in Fingerprints :
           Call(t, "save", {[id |-> i, at |-> a, fp |-> f]})
    BY <1>1 DEF CallSave, NewIds, Instants, Least
  <2> DEFINE s == [id |-> i, at |-> a, fp |-> f]
  <2>2. Known' = Known /\ corrupt' = corrupt
    BY <2>1 DEF Call, Known
  <2>3. pending' = [pending EXCEPT ![t] = {s}] /\ s.id = i
    BY <2>1 DEF Call
  <2>4. i \notin IdsOf(Known) \cup corrupt
    BY DEF FreshIds
  <2>5. \A u \in Threads : \A r \in pending[u] : r.id # i
    BY DEF FreshIds, IdsOf
  <2> HIDE DEF s
  <2>6. \A u \in Threads : \A r \in pending'[u] : r \in pending[u] \/ (u = t /\ r = s)
    BY <2>3
  <2> QED
    BY <2>2, <2>3, <2>4, <2>5, <2>6 DEF IdentityInv
<1>2. ASSUME NEW t \in Threads, CallRead(t) PROVE IdentityInv'
  BY <1>2, IdentityKept DEF CallRead, Call
<1>3. ASSUME NEW t \in Threads, EnterMissing(t) PROVE IdentityInv'
  BY <1>3, IdentityKept DEF EnterMissing, Return, Release
<1>4. ASSUME NEW t \in Threads, Enter(t) PROVE IdentityInv'
  BY <1>4, IdentityKept DEF Enter, Recover, Goto
<1>5. ASSUME NEW t \in Threads, Load(t) PROVE IdentityInv'
  BY <1>5, IdentityKept DEF Load, Recover, Goto, Return, Release
<1>6. ASSUME NEW t \in Threads, SaveDuplicate(t) PROVE IdentityInv'
  BY <1>6, IdentityKept DEF SaveDuplicate, Return, Release
<1>7. ASSUME NEW t \in Threads, SaveFile(t) PROVE IdentityInv'
  <2>1. Known' \subseteq Known \cup pending[t] /\ corrupt' = corrupt
    <3>1. valid' \cup index'.entries \subseteq Known \cup pending[t]
      BY <1>7 DEF SaveFile
    <3>2. \A u \in Threads : list'[u] \cup doomed'[u] \subseteq Known \cup pending[t]
      BY <1>7 DEF SaveFile, Merged, Goto
    <3> QED
      BY <1>7, <3>1, <3>2 DEF Known, SaveFile
  <2>2. \A u \in Threads : pending'[u] = IF u = t THEN {} ELSE pending[u]
    BY <1>7 DEF SaveFile
  <2> QED
    BY <2>1, <2>2 DEF IdentityInv, IdsOf
<1>8. ASSUME NEW t \in Threads, ReadLatest(t) PROVE IdentityInv'
  BY <1>8, IdentityKept DEF ReadLatest, Recover, Goto, Return, Release
<1>9. ASSUME NEW t \in Threads, ReadList(t) PROVE IdentityInv'
  BY <1>9, IdentityKept DEF ReadList, Return, Release
<1>10. ASSUME NEW t \in Threads, Prune(t) PROVE IdentityInv'
  BY <1>10, IdentityKept DEF Prune
<1>11. ASSUME NEW t \in Threads, WriteIndex(t) PROVE IdentityInv'
  BY <1>11, IdentityKept DEF WriteIndex, Return, Release
<1>12. ASSUME NEW t \in Threads, Fail(t) PROVE IdentityInv'
  BY <1>12, IdentityKept DEF Fail, Return, Release
<1>13. CASE Crash
  BY <1>13, IdentityKept DEF Crash
<1>14. CASE LoseIndex
  BY <1>14, IdentityKept DEF LoseIndex
<1>15. CASE DamageFile
  BY <1>15, IdentityKept DEF DamageFile, IdsOf
<1>16. CASE UNCHANGED vars
  BY <1>16, IdentityKept DEF vars
<1> QED
  BY <1>1, <1>2, <1>3, <1>4, <1>5, <1>6, <1>7, <1>8, <1>9, <1>10, <1>11, <1>12,
     <1>13, <1>14, <1>15, <1>16 DEF Next, Step

\* Sets bounded in size: subsets, additions and retention.
LEMMA AtMostSubset ==
  ASSUME NEW S, NEW T \in SUBSET S, NEW n \in Nat, AtMost(S, n)
  PROVE  AtMost(T, n)
BY FS_Subset, FS_CardinalityType DEF AtMost

LEMMA AtMostEmpty == \A n \in Nat : AtMost({}, n)
BY FS_EmptySet DEF AtMost

LEMMA AtMostAdd ==
  ASSUME NEW S, NEW P \in AtMostOne, NEW n \in Nat, AtMost(S, n)
  PROVE  AtMost(S \cup P, n + 1)
<1>1. IsFiniteSet(S) /\ Cardinality(S) \in Nat /\ Cardinality(S) <= n
  BY FS_CardinalityType DEF AtMost
<1>2. CASE P = {}
  BY <1>1, <1>2 DEF AtMost
<1>3. CASE \E s \in Snapshot : P = {s}
  <2>1. PICK s \in Snapshot : P = {s}
    BY <1>3
  <2>2. IsFiniteSet(S \cup {s})
    BY <1>1, FS_AddElement
  <2>3. Cardinality(S \cup {s}) = Cardinality(S) \/ Cardinality(S \cup {s}) = Cardinality(S) + 1
    BY <1>1, FS_AddElement, Zenon
  <2> QED
    BY <1>1, <2>1, <2>2, <2>3 DEF AtMost
<1> QED
  BY <1>2, <1>3 DEF AtMostOne

LEMMA AtMostRetained ==
  ASSUME NEW S \in SUBSET Snapshot, IsFiniteSet(S), DistinctIds(S)
  PROVE  AtMost(Retained(S), RetentionLimit)
BY RetainedBound DEF AtMost

\* While a usable index is read, it lists every valid file.
LEMMA UsableIndexCovers ==
  ASSUME IdentityInv, IndexUsable
  PROVE  valid \subseteq index.entries
BY DEF IdentityInv, IndexUsable, FileIds, IdsOf, Known

LEMMA BoundStep ==
  ASSUME TypeOK, LockInv, IdentityInv, BoundInv, [Next]_vars
  PROVE  BoundInv'
<1> USE AtMostEmpty, RetentionAssumption DEF TypeOK, locals, disk
<1>a. RetentionLimit \in Nat /\ RetentionLimit + 1 \in Nat
  OBVIOUS
<1>b. AtMost(Retained(valid), RetentionLimit)
  BY KnownHolds, AtMostRetained DEF IdentityInv, DistinctIds, BoundInv, AtMost
<1>1. ASSUME NEW t \in Threads, CallSave(t) PROVE BoundInv'
  BY <1>1 DEF BoundInv, CallSave, Call
<1>2. ASSUME NEW t \in Threads, CallRead(t) PROVE BoundInv'
  BY <1>2 DEF BoundInv, CallRead, Call
<1>3. ASSUME NEW t \in Threads, EnterMissing(t) PROVE BoundInv'
  BY <1>3 DEF BoundInv, EnterMissing, Return, Release
<1>4. ASSUME NEW t \in Threads, Enter(t) PROVE BoundInv'
  BY <1>4, <1>b, UsableIndexCovers DEF BoundInv, Enter, Recover, Goto
<1>5. ASSUME NEW t \in Threads, Load(t) PROVE BoundInv'
  <2>1. valid' = valid /\ index' = index
    BY <1>5 DEF Load
  <2>2. \A u \in Threads : list'[u] \in {list[u], {}, Retained(valid)}
    BY <1>5 DEF Load, Recover, Goto, Return, Release
  <2>3. \A u \in Threads : pc'[u] \in {"recovering", "reading"} =>
           pc'[u] = pc[u] /\ list'[u] = list[u] /\ doomed'[u] = doomed[u]
    BY <1>5 DEF Load, Recover, Goto, Return, Release
  <2>4. \A u \in Threads : AtMost(list'[u], RetentionLimit)
    BY <1>a, <1>b, <2>2 DEF BoundInv
  <2> QED
    BY <2>1, <2>3, <2>4 DEF BoundInv
<1>6. ASSUME NEW t \in Threads, SaveDuplicate(t) PROVE BoundInv'
  BY <1>6 DEF BoundInv, SaveDuplicate, Return, Release
<1>7. ASSUME NEW t \in Threads, SaveFile(t) PROVE BoundInv'
  <2>1. \A u \in Threads : pc[u] \in Busy => u = t
    BY <1>7 DEF SaveFile, LockInv, Busy
  <2>2. AtMost(valid', RetentionLimit + 1)
    <3>1. valid \subseteq list[t] /\ AtMost(list[t], RetentionLimit)
      BY <1>7 DEF SaveFile, BoundInv
    <3>2. AtMost(valid, RetentionLimit)
      BY <3>1, <1>a, AtMostSubset
    <3> QED
      BY <1>7, <1>a, <3>2, AtMostAdd DEF SaveFile
  <2>3. AtMost(Retained(list[t] \cup pending[t]), RetentionLimit)
    <3>1. list[t] \cup pending[t] \in SUBSET Snapshot
      BY AtMostOneTyped
    <3>2. IsFiniteSet(list[t] \cup pending[t])
      BY <1>a, AtMostAdd DEF BoundInv, AtMost
    <3>3. DistinctIds(list[t] \cup pending[t])
      BY KnownHolds DEF IdentityInv, DistinctIds, IdsOf
    <3> QED
      BY <3>1, <3>2, <3>3, AtMostRetained
  <2>4. \A u \in Threads : u # t => pc'[u] \notin Busy /\ list'[u] = list[u]
    BY <1>7, <2>1 DEF SaveFile, Goto
  <2>5. pc'[t] = "finishing" /\ list'[t] = Retained(list[t] \cup pending[t])
    BY <1>7 DEF SaveFile, Merged, Goto
  <2>6. index' = index
    BY <1>7 DEF SaveFile
  <2> QED
    BY <2>2, <2>3, <2>4, <2>5, <2>6 DEF BoundInv, Busy
<1>8. ASSUME NEW t \in Threads, ReadLatest(t) PROVE BoundInv'
  <2>1. valid' = valid /\ index' = index
    BY <1>8 DEF ReadLatest
  <2>2. \A u \in Threads : list'[u] \in {list[u], {}, Retained(valid)}
    BY <1>8 DEF ReadLatest, Recover, Goto, Return, Release
  <2>3. \A u \in Threads : pc'[u] \in {"recovering", "reading"} =>
           pc'[u] = pc[u] /\ list'[u] = list[u] /\ doomed'[u] = doomed[u]
    BY <1>8 DEF ReadLatest, Recover, Goto, Return, Release
  <2>4. \A u \in Threads : AtMost(list'[u], RetentionLimit)
    BY <1>a, <1>b, <2>2 DEF BoundInv
  <2> QED
    BY <2>1, <2>3, <2>4 DEF BoundInv
<1>9. ASSUME NEW t \in Threads, ReadList(t) PROVE BoundInv'
  BY <1>9 DEF BoundInv, ReadList, Return, Release
<1>10. ASSUME NEW t \in Threads, Prune(t) PROVE BoundInv'
  <2>1. valid' \subseteq valid
    BY <1>10 DEF Prune
  <2>2. AtMost(valid', RetentionLimit + 1)
    BY <2>1, <1>a, AtMostSubset DEF BoundInv
  <2>3. pc'[t] = "recovering" => valid' \subseteq list'[t] \cup doomed'[t]
    BY <1>10 DEF Prune, BoundInv
  <2>4. \A u \in Threads : u # t => pc'[u] \notin Busy
    BY <1>10 DEF Prune, LockInv, Busy
  <2>5. pc'[t] # "reading"
    BY <1>10 DEF Prune
  <2>6. list' = list /\ index' = index
    BY <1>10 DEF Prune
  <2> QED
    BY <2>2, <2>3, <2>4, <2>5, <2>6 DEF BoundInv, Busy
<1>11. ASSUME NEW t \in Threads, WriteIndex(t) PROVE BoundInv'
  <2>1. valid' = valid /\ AtMost(index'.entries, RetentionLimit)
    BY <1>11 DEF WriteIndex, BoundInv
  <2>2. CASE pc[t] = "finishing"
    <3>1. Return(t, res[t].tag, res[t].snaps)
      BY <1>11, <2>2 DEF WriteIndex
    <3> QED
      BY <2>1, <3>1 DEF BoundInv, Return, Release
  <2>3. CASE pc[t] = "recovering"
    <3>1. pc' = [pc EXCEPT ![t] = "reading"] /\ list' = list /\ doomed' = doomed
      BY <1>11, <2>3 DEF WriteIndex
    <3>2. valid \subseteq list[t]
      BY <1>11, <2>3 DEF WriteIndex, BoundInv
    <3> QED
      BY <2>1, <3>1, <3>2 DEF BoundInv
  <2> QED
    BY <1>11, <2>2, <2>3 DEF WriteIndex
<1>12. ASSUME NEW t \in Threads, Fail(t) PROVE BoundInv'
  BY <1>12 DEF BoundInv, Fail, Return, Release
<1>13. CASE Crash
  BY <1>13 DEF BoundInv, Crash
<1>14. CASE LoseIndex
  BY <1>14 DEF BoundInv, LoseIndex
<1>15. CASE DamageFile
  <2>1. valid' \subseteq valid
    BY <1>15 DEF DamageFile
  <2>2. AtMost(valid', RetentionLimit + 1)
    BY <2>1, <1>a, AtMostSubset DEF BoundInv
  <2> QED
    BY <1>15, <2>1, <2>2 DEF DamageFile, BoundInv
<1>16. CASE UNCHANGED vars
  BY <1>16 DEF BoundInv, vars
<1> QED
  BY <1>1, <1>2, <1>3, <1>4, <1>5, <1>6, <1>7, <1>8, <1>9, <1>10, <1>11, <1>12,
     <1>13, <1>14, <1>15, <1>16 DEF Next, Step

\* Without damage a usable index lists nothing but valid files.
LEMMA UsableIndexSound ==
  ASSUME IdentityInv, corrupt = {}, IndexUsable
  PROVE  index.entries \subseteq valid
BY DEF IdentityInv, IndexUsable, FileIds, IdsOf, Known

\* A plan that retention makes is safe.
LEMMA RetainedPlan ==
  ASSUME NEW S \in SUBSET Snapshot, NEW D \in SUBSET S, IsFiniteSet(S), DistinctIds(S),
         S \subseteq valid
  PROVE  SafePlan(Retained(S), D \ Retained(S))
BY RetainedFull, RetainedTyped DEF SafePlan

\* Only DamageFile touches the count of damaged files, and it counts up.
LEMMA DamageCounted ==
  ASSUME TypeOK, [Next]_vars
  PROVE  /\ DamageFile \/ damage' = damage
         /\ damage' = 0 => damage = 0 /\ ~DamageFile
<1> USE DEF outside
<1>1. DamageFile => damage' = damage + 1 /\ damage \in Nat
  BY DEF DamageFile, TypeOK
<1>2. ASSUME NEW t \in Threads, CallSave(t) \/ CallRead(t) PROVE damage' = damage
  BY <1>2 DEF CallSave, CallRead, Call
<1>3. ASSUME NEW t \in Threads, Step(t) \/ Fail(t) PROVE damage' = damage
  BY <1>3 DEF Step, EnterMissing, Enter, Load, SaveDuplicate, SaveFile, ReadLatest, ReadList,
     Prune, WriteIndex, Fail
<1>4. Crash \/ LoseIndex \/ UNCHANGED vars => damage' = damage
  BY DEF Crash, LoseIndex, vars
<1>5. DamageFile \/ damage' = damage
  BY <1>2, <1>3, <1>4 DEF Next
<1> QED
  BY <1>1, <1>5

LEMMA EvictionStep ==
  ASSUME TypeOK, LockInv, IdentityInv, BoundInv, EvictionInv, [Next]_vars
  PROVE  EvictionInv'
<1> SUFFICES ASSUME damage' = 0
             PROVE  corrupt' = {} /\ \A u \in Threads : SafePlan(list[u], doomed[u])'
  BY DEF EvictionInv
<1> USE DEF TypeOK, locals, disk, outside
<1>a. damage = 0
  BY DamageCounted
<1>b. corrupt = {} /\ \A u \in Threads : SafePlan(list[u], doomed[u])
  BY <1>a DEF EvictionInv
<1>c. SafePlan(Retained(valid), valid \ Retained(valid)) /\ SafePlan({}, {})
  <2>1. IsFiniteSet(valid) /\ DistinctIds(valid)
    BY KnownHolds DEF IdentityInv, DistinctIds, BoundInv, AtMost
  <2> QED
    BY <2>1, RetainedPlan DEF SafePlan
\* Every step but SaveFile and Prune leaves the files alone and each plan is
\* an old one, the empty one, the recovery's, or the usable index.
<1>d. ASSUME valid' = valid, corrupt' = corrupt,
             \A u \in Threads :
               \/ list'[u] = list[u] /\ doomed'[u] = doomed[u]
               \/ list'[u] = {} /\ doomed'[u] = {}
               \/ list'[u] = Retained(valid) /\ doomed'[u] = valid \ Retained(valid)
               \/ IndexUsable /\ list'[u] = index.entries /\ doomed'[u] = {}
      PROVE  corrupt' = {} /\ \A u \in Threads : SafePlan(list[u], doomed[u])'
  <2>1. \A u \in Threads : SafePlan(list'[u], doomed'[u])
    <3> SUFFICES ASSUME NEW u \in Threads PROVE SafePlan(list'[u], doomed'[u])
      OBVIOUS
    <3>1. CASE list'[u] = list[u] /\ doomed'[u] = doomed[u]
      BY <3>1, <1>b
    <3>2. CASE list'[u] = {} /\ doomed'[u] = {}
      BY <3>2, <1>c
    <3>3. CASE list'[u] = Retained(valid) /\ doomed'[u] = valid \ Retained(valid)
      BY <3>3, <1>c
    <3>4. CASE IndexUsable /\ list'[u] = index.entries /\ doomed'[u] = {}
      BY <3>4, <1>b, UsableIndexSound DEF SafePlan
    <3> QED
      BY <1>d, <3>1, <3>2, <3>3, <3>4
  <2> QED
    BY <1>b, <1>d, <2>1 DEF SafePlan
<1>1. ASSUME NEW t \in Threads, CallSave(t) \/ CallRead(t)
      PROVE  corrupt' = {} /\ \A u \in Threads : SafePlan(list[u], doomed[u])'
  BY <1>1, <1>d DEF CallSave, CallRead, Call
<1>2. ASSUME NEW t \in Threads, EnterMissing(t) \/ SaveDuplicate(t) \/ ReadList(t) \/ Fail(t)
      PROVE  corrupt' = {} /\ \A u \in Threads : SafePlan(list[u], doomed[u])'
  BY <1>2, <1>d DEF EnterMissing, SaveDuplicate, ReadList, Fail, Return, Release
<1>3. ASSUME NEW t \in Threads, Enter(t)
      PROVE  corrupt' = {} /\ \A u \in Threads : SafePlan(list[u], doomed[u])'
  BY <1>3, <1>d DEF Enter, Recover, Goto
<1>4. ASSUME NEW t \in Threads, Load(t)
      PROVE  corrupt' = {} /\ \A u \in Threads : SafePlan(list[u], doomed[u])'
  BY <1>4, <1>d DEF Load, Recover, Goto, Return, Release
<1>5. ASSUME NEW t \in Threads, ReadLatest(t)
      PROVE  corrupt' = {} /\ \A u \in Threads : SafePlan(list[u], doomed[u])'
  BY <1>5, <1>d DEF ReadLatest, Recover, Goto, Return, Release
<1>6. ASSUME NEW t \in Threads, WriteIndex(t)
      PROVE  corrupt' = {} /\ \A u \in Threads : SafePlan(list[u], doomed[u])'
  BY <1>6, <1>d DEF WriteIndex, Return, Release
<1>7. ASSUME NEW t \in Threads, SaveFile(t)
      PROVE  corrupt' = {} /\ \A u \in Threads : SafePlan(list[u], doomed[u])'
  <2> DEFINE S == list[t] \cup pending[t]
  <2>1. valid' = valid \cup pending[t] /\ corrupt' = corrupt
    BY <1>7 DEF SaveFile
  <2>2. S \in SUBSET Snapshot /\ S \subseteq valid'
    BY <1>b, <2>1, AtMostOneTyped DEF SafePlan
  <2>3. IsFiniteSet(S) /\ DistinctIds(S)
    <3>1. IsFiniteSet(S)
      BY RetentionAssumption, AtMostAdd DEF BoundInv, AtMost
    <3>2. DistinctIds(S)
      BY KnownHolds DEF IdentityInv, DistinctIds, IdsOf
    <3> QED
      BY <3>1, <3>2
  <2>4. list'[t] = Retained(S) /\ doomed'[t] = list[t] \ Retained(S)
    BY <1>7 DEF SaveFile, Merged, Goto
  <2>5. SafePlan(list[t], doomed[t])'
    <3>1. list'[t] \subseteq valid' /\ doomed'[t] \subseteq valid'
      BY <2>2, <2>4, RetainedTyped
    <3>2. \A d \in doomed'[t] : /\ Cardinality(list'[t]) >= RetentionLimit
                                /\ \A m \in list'[t] : Newer(m, d)
      BY <2>2, <2>3, <2>4, RetainedFull
    <3> QED
      BY <3>1, <3>2 DEF SafePlan
  <2>6. \A u \in Threads \ {t} : list'[u] = list[u] /\ doomed'[u] = doomed[u]
    BY <1>7 DEF SaveFile, Goto
  <2> QED
    BY <1>b, <2>1, <2>5, <2>6 DEF SafePlan
<1>8. ASSUME NEW t \in Threads, Prune(t)
      PROVE  corrupt' = {} /\ \A u \in Threads : SafePlan(list[u], doomed[u])'
  <2>1. PICK d \in doomed[t] : /\ valid' = {v \in valid : v.id # d.id}
                               /\ corrupt' = corrupt \ {d.id}
                               /\ doomed' = [doomed EXCEPT ![t] = @ \ {d}]
    BY <1>8, RetainedTyped DEF Prune, Doomed
  <2>2. \A v \in valid : v.id = d.id => v = d
    BY KnownHolds DEF IdentityInv
  <2>3. d \notin list[t]
    BY <1>b, NewerIsStrict DEF SafePlan
  <2>4. list[t] \subseteq valid' /\ doomed'[t] \subseteq valid'
    BY <1>b, <2>1, <2>2, <2>3 DEF SafePlan
  <2>5. \A u \in Threads \ {t} : list[u] = {} /\ doomed[u] = {}
    BY <1>8 DEF Prune, LockInv, Busy
  <2>6. list' = list /\ doomed'[t] \subseteq doomed[t]
        /\ \A u \in Threads \ {t} : doomed'[u] = doomed[u]
    BY <1>8, <2>1 DEF Prune
  <2> QED
    BY <1>b, <2>1, <2>4, <2>5, <2>6 DEF SafePlan
<1>9. CASE Crash \/ LoseIndex
  BY <1>9, <1>d DEF Crash, LoseIndex
<1>10. CASE DamageFile
  BY <1>10, <1>a DEF DamageFile
<1>11. CASE UNCHANGED vars
  BY <1>11, <1>d DEF vars
<1> QED
  BY <1>1, <1>2, <1>3, <1>4, <1>5, <1>6, <1>7, <1>8, <1>9, <1>10, <1>11 DEF Next, Step

(***************************************************************************)
(* The theorems.                                                           *)
(***************************************************************************)

\* The lock, the identities, the bounds and the eviction plans of the store are
\* right in every reachable state.
THEOREM InvariantHolds == Spec => []IInv
<1>1. Init => IInv
  <2> SUFFICES ASSUME Init PROVE IInv
    OBVIOUS
  <2>1. TypeOK
    BY TypeInit
  <2>2. LockInv /\ IdentityInv
    BY DEF Init, LockInv, IdentityInv, Busy, Known
  <2>3. BoundInv
    BY AtMostEmpty, RetentionAssumption DEF Init, BoundInv
  <2>4. EvictionInv
    BY DEF Init, EvictionInv, SafePlan
  <2> QED
    BY <2>1, <2>2, <2>3, <2>4 DEF IInv
<1>2. IInv /\ [Next]_vars => IInv'
  BY TypeStep, LockStep, IdentityStep, BoundStep, EvictionStep DEF IInv
<1> QED
  BY <1>1, <1>2, PTL DEF Spec

\* However calls, failures, crashes and damage interleave, at most one valid
\* snapshot beyond the retention limit is on disk.
THEOREM HistoryIsBounded == Spec => []BoundedHistory
<1>1. IInv => BoundedHistory
  BY DEF IInv, BoundInv, AtMost, BoundedHistory
<1> QED
  BY <1>1, InvariantHolds, PTL

\* As long as no snapshot file is damaged, neither a save nor a recovery after
\* a crash deletes a snapshot that is among the newest RetentionLimit.
THEOREM EvictionIsSafe ==
  ASSUME MaxFileDamage = 0
  PROVE  Spec => EvictOnlyOldest
<1>1. ASSUME IInv, [Next]_vars
      PROVE  [damage' = damage =>
                \A m \in valid \ valid' : Cardinality(Ahead(m, valid)) >= RetentionLimit]_vars
  <2> SUFFICES ASSUME Next, damage' = damage, NEW m \in valid \ valid'
               PROVE  Cardinality(Ahead(m, valid)) >= RetentionLimit
    BY <1>1
  <2> USE DEF IInv
  <2>1. PICK t \in Threads : Prune(t)
    <3> SUFFICES ASSUME \A t \in Threads : ~Prune(t) PROVE valid \subseteq valid'
      OBVIOUS
    <3> USE DEF disk
    <3>1. ASSUME NEW t \in Threads, CallSave(t) \/ CallRead(t) PROVE valid' = valid
      BY <3>1 DEF CallSave, CallRead, Call
    <3>2. ASSUME NEW t \in Threads, SaveFile(t) PROVE valid \subseteq valid'
      BY <3>2 DEF SaveFile
    <3>3. ASSUME NEW t \in Threads, Step(t), ~SaveFile(t) PROVE valid' = valid
      BY <3>3 DEF Step, EnterMissing, Enter, Load, SaveDuplicate, ReadLatest, ReadList, WriteIndex
    <3>4. ASSUME NEW t \in Threads, Fail(t) PROVE valid' = valid
      BY <3>4 DEF Fail
    <3>5. Crash \/ LoseIndex => valid' = valid
      BY DEF Crash, LoseIndex
    <3>6. ~DamageFile
      BY <1>1 DEF DamageFile, TypeOK
    <3> QED
      BY <3>1, <3>2, <3>3, <3>4, <3>5, <3>6 DEF Next
  <2>2. PICK d \in doomed[t] : valid' = {v \in valid : v.id # d.id}
    BY <1>1, <2>1, RetainedTyped DEF Prune, Doomed
  <2>3. m = d
    BY <1>1, <2>2, KnownHolds DEF IdentityInv
  <2>4. damage = 0
    BY <1>1 DEF TypeOK
  <2>5. list[t] \subseteq Ahead(m, valid) /\ Cardinality(list[t]) >= RetentionLimit
    BY <1>1, <2>2, <2>3, <2>4 DEF EvictionInv, SafePlan, Ahead
  <2>6. IsFiniteSet(Ahead(m, valid))
    BY <1>1, FS_Subset DEF BoundInv, AtMost, Ahead
  <2>7. /\ Cardinality(list[t]) <= Cardinality(Ahead(m, valid))
        /\ Cardinality(list[t]) \in Nat /\ Cardinality(Ahead(m, valid)) \in Nat
    BY <2>5, <2>6, FS_Subset, FS_CardinalityType
  <2> QED
    BY <2>5, <2>7, RetentionAssumption
<1> QED
  BY <1>1, InvariantHolds, PTL DEF Spec, EvictOnlyOldest
(***************************************************************************)
(* What the callers of FileSnapshotRepository are promised: the store      *)
(* implements the atomic history, latest returns the newest snapshot that  *)
(* loads, and, for one thread whose clock never goes back, what was saved  *)
(* is listed and neighbours differ.                                        *)
(***************************************************************************)
\* Until the first save made the directory there is nothing in it, and a save
\* that has not written its file yet still has its snapshot.
CallInv ==
  /\ ~directory => valid = {} /\ \A t \in Threads : pc[t] \notin Busy
  /\ \A t \in Threads :
       op[t] = "save" /\ pc[t] \in {"waiting", "recovering", "reading"} => pending[t] # {}

LEMMA CallInit == Init => CallInv
BY DEF Init, CallInv, Busy

LEMMA CallStep ==
  ASSUME TypeOK, CallInv, [Next]_vars
  PROVE  CallInv'
<1> USE DEF TypeOK, CallInv, Busy, locals, disk, outside
<1>1. ASSUME NEW t \in Threads, CallSave(t) PROVE CallInv'
  <2>1. PICK s : Call(t, "save", {s})
    BY <1>1 DEF CallSave
  <2> QED
    BY <2>1 DEF Call
<1>2. ASSUME NEW t \in Threads, CallRead(t) PROVE CallInv'
  BY <1>2 DEF CallRead, Call
<1>3. ASSUME NEW t \in Threads, EnterMissing(t) PROVE CallInv'
  BY <1>3 DEF EnterMissing, Return
<1>4. ASSUME NEW t \in Threads, Enter(t) PROVE CallInv'
  BY <1>4 DEF Enter, Waiting, Recover, Goto
<1>5. ASSUME NEW t \in Threads, Load(t) PROVE CallInv'
  BY <1>5 DEF Load, Waiting, Recover, Goto, Return
<1>6. ASSUME NEW t \in Threads, SaveDuplicate(t) PROVE CallInv'
  BY <1>6 DEF SaveDuplicate, Return
<1>7. ASSUME NEW t \in Threads, SaveFile(t) PROVE CallInv'
  BY <1>7 DEF SaveFile, Goto
<1>8. ASSUME NEW t \in Threads, ReadLatest(t) PROVE CallInv'
  BY <1>8 DEF ReadLatest, Recover, Goto, Return
<1>9. ASSUME NEW t \in Threads, ReadList(t) PROVE CallInv'
  BY <1>9 DEF ReadList, Return
<1>10. ASSUME NEW t \in Threads, Prune(t) PROVE CallInv'
  BY <1>10 DEF Prune
<1>11. ASSUME NEW t \in Threads, WriteIndex(t) PROVE CallInv'
  BY <1>11 DEF WriteIndex, Return
<1>12. ASSUME NEW t \in Threads, Fail(t) PROVE CallInv'
  BY <1>12 DEF Fail, Return
<1>13. CASE Crash
  BY <1>13 DEF Crash
<1>14. CASE LoseIndex
  BY <1>14 DEF LoseIndex
<1>15. CASE DamageFile
  BY <1>15 DEF DamageFile
<1>16. CASE UNCHANGED vars
  BY <1>16 DEF vars
<1> QED
  BY <1>1, <1>2, <1>3, <1>4, <1>5, <1>6, <1>7, <1>8, <1>9, <1>10, <1>11, <1>12,
     <1>13, <1>14, <1>15, <1>16 DEF Next, Step

LEMMA CallCorrect == Spec => [](IInv /\ CallInv)
<1>1. IInv /\ CallInv /\ [Next]_vars => CallInv'
  BY CallStep DEF IInv
<1> QED
  BY <1>1, CallInit, InvariantHolds, PTL DEF Spec

(***************************************************************************)
(* latest                                                                  *)
(***************************************************************************)

\* The store's snapshots are a finite set in which an ID names one of them.
LEMMA ValidSet ==
  ASSUME IInv
  PROVE  valid \in SUBSET Snapshot /\ IsFiniteSet(valid) /\ DistinctIds(valid)
BY KnownHolds DEF IInv, TypeOK, IdentityInv, BoundInv, AtMost, DistinctIds

\* latest returns the newest snapshot that loads: the list that it reads covers
\* every valid file, whatever was damaged, lost or left behind by a crash.
THEOREM LatestReturnsNewest == Spec => LatestIsNewest
<1>1. ASSUME IInv, CallInv, [Next]_vars
      PROVE  [\A t \in Threads :
                op[t] = "latest" /\ res[t].tag = "none" /\ res'[t].tag = "found"
                  => res'[t].snaps = First(valid)]_vars
  <2> SUFFICES ASSUME Next, NEW u \in Threads,
                      op[u] = "latest", res[u].tag = "none", res'[u].tag = "found"
               PROVE  res'[u].snaps = First(valid)
    BY <1>1
  <2> USE <1>1 DEF IInv, TypeOK, locals, disk, Result
  <2>1. ASSUME NEW t \in Threads, CallSave(t) \/ CallRead(t) PROVE FALSE
    BY <2>1 DEF CallSave, CallRead, Call
  <2>2. ASSUME NEW t \in Threads, EnterMissing(t) PROVE res'[u].snaps = First(valid)
    BY <2>2 DEF EnterMissing, Return, CallInv, First
  <2>3. ASSUME NEW t \in Threads, ReadLatest(t) PROVE res'[u].snaps = First(valid)
    <3>1. list[t] \cap valid = valid
      BY <2>3 DEF ReadLatest, BoundInv
    <3>2. res' = [res EXCEPT ![t] = Result("found", First(valid))]
      BY <2>3, <3>1 DEF ReadLatest, Return
    <3> QED
      BY <3>2
  <2>4. ASSUME NEW t \in Threads, Load(t) PROVE FALSE
    BY <2>4 DEF Load, Waiting, Return
  <2>5. ASSUME NEW t \in Threads,
               Enter(t) \/ SaveDuplicate(t) \/ SaveFile(t) \/ ReadList(t) \/ Prune(t)
                 \/ WriteIndex(t) \/ Fail(t)
        PROVE  FALSE
    BY <2>5 DEF Enter, SaveDuplicate, SaveFile, ReadList, Prune, WriteIndex, Fail, Return
  <2>6. ~Crash /\ ~LoseIndex /\ ~DamageFile
    BY DEF Crash, LoseIndex, DamageFile
  <2> QED
    BY <2>1, <2>2, <2>3, <2>4, <2>5, <2>6 DEF Next, Step
<1> QED
  BY <1>1, CallCorrect, PTL DEF Spec, LatestIsNewest

(***************************************************************************)
(* The store implements the atomic history.                                *)
(***************************************************************************)

\* While no file is damaged, the list that an operation reads is the history,
\* and the history is what is on disk.
LEMMA ReadsHistory ==
  ASSUME IInv, damage = 0, NEW t \in Threads, pc[t] = "reading"
  PROVE  list[t] = valid /\ Retained(valid) = valid
<1>1. list[t] = valid
  BY DEF IInv, BoundInv, EvictionInv, SafePlan
<1>2. Cardinality(valid) <= RetentionLimit
  BY <1>1 DEF IInv, BoundInv, AtMost
<1> QED
  BY <1>1, <1>2, ValidSet, RetainedAll

\* The history sorts and retains as the store does.
LEMMA SameOrder ==
  ASSUME NEW S
  PROVE  History!First(S) = First(S) /\ History!Retained(S) = Retained(S)
<1>1. \A m : History!Ahead(m, S) = Ahead(m, S)
  BY DEF Ahead, Newer, History!Ahead, History!Newer
<1>2. \A T : History!Cardinality(T) = Cardinality(T)
  BY DEF Cardinality, History!Cardinality
<1> QED
  BY <1>1, <1>2 DEF First, Retained, History!First, History!Retained

\* What is pending is one snapshot or none.
LEMMA PendingOne ==
  ASSUME TypeOK, NEW t \in Threads, pending[t] # {}
  PROVE  \E s \in Snapshot : pending[t] = {s}
BY DEF TypeOK, AtMostOne

\* The steps of the history that the visible steps of the store are.
LEMMA VisibleSteps ==
  /\ (History!Next <=>
        \/ \E t \in Threads :
             \/ \E s \in Snapshot : History!Save(t, s)
             \/ History!Duplicate(t) \/ History!Latest(t) \/ History!List(t)
             \/ History!Fail(t) \/ History!NextCall(t)
             \/ \E i \in Ids : History!Load(t, i)
        \/ History!Restart)
  /\ UNCHANGED <<Retained(valid), res>> => UNCHANGED History!vars
BY DEF History!Next, History!vars, History!Snapshot, Snapshot

\* Every step of the store is a step of the history or changes nothing of it.
LEMMA HistoryStep ==
  ASSUME IInv, CallInv, damage = 0, [Next]_vars, ~DamageFile
  PROVE  [History!Next]_(History!vars)
<1> SUFFICES \/ History!Next
             \/ UNCHANGED <<Retained(valid), res>>
  BY VisibleSteps
<1> USE DEF disk, locals, outside, Result
<1>a. TypeOK
  BY DEF IInv
<1>1. ASSUME NEW t \in Threads, CallSave(t) \/ CallRead(t) PROVE History!NextCall(t)
  BY <1>1 DEF CallSave, CallRead, Call, History!NextCall, History!Returns, History!Result
<1>2. ASSUME NEW t \in Threads, Fail(t) PROVE History!Fail(t)
  BY <1>2 DEF Fail, Return, History!Fail, History!Returns, History!Result
<1>3. ASSUME NEW t \in Threads, EnterMissing(t) PROVE History!Latest(t) \/ History!List(t)
  <2>1. valid = {} /\ valid' = {}
    BY <1>3 DEF EnterMissing, CallInv
  <2>2. Retained(valid) = {} /\ Retained(valid)' = {} /\ History!First({}) = {}
    BY <2>1 DEF Retained, History!First
  <2> QED
    BY <1>3, <2>2
       DEF EnterMissing, Return, History!Latest, History!List, History!Returns, History!Result
<1>4. ASSUME NEW t \in Threads, Enter(t) PROVE UNCHANGED <<Retained(valid), res>>
  BY <1>4 DEF Enter
<1>5. ASSUME NEW t \in Threads, Load(t) PROVE \E i \in Ids : History!Load(t, i)
  <2>1. corrupt = {}
    BY DEF IInv, EvictionInv
  <2>2. PICK i \in Ids : Return(t, "found", {m \in valid : m.id = i}) /\ valid' = valid
    BY <1>5, <2>1 DEF Load
  <2>3. CASE \E m \in valid : m.id = i
    <3>1. PICK m \in valid : m.id = i
      BY <2>3
    <3>2. {v \in valid : v.id = i} = {m} /\ m \in Snapshot
      BY <3>1, ValidSet DEF DistinctIds
    <3>3. m \notin Retained(valid) => i \notin IdsOf(Retained(valid))
      BY <3>1, ValidSet, RetainedTyped DEF DistinctIds, IdsOf
    <3> QED
      BY <2>2, <3>1, <3>2, <3>3
         DEF Return, IdsOf, Snapshot, History!Load, History!Returns, History!Result, History!IdsOf,
             History!Snapshot
  <2>4. CASE ~\E m \in valid : m.id = i
    <3>1. {v \in valid : v.id = i} = {} /\ i \notin IdsOf(Retained(valid))
      BY <2>4, RetainedTyped DEF IdsOf
    <3> QED
      BY <2>2, <3>1
         DEF Return, IdsOf, History!Load, History!Returns, History!Result, History!IdsOf
  <2> QED
    BY <2>3, <2>4
<1>6. ASSUME NEW t \in Threads, SaveDuplicate(t) PROVE History!Duplicate(t)
  <2>1. list[t] = valid /\ Retained(valid) = valid
    BY <1>6, ReadsHistory DEF SaveDuplicate
  <2>2. PICK m \in Repeated(t) : m \in First(valid)
    BY <1>6, <2>1 DEF SaveDuplicate, Repeated
  <2>3. Repeated(t) = {m}
    BY <2>1, <2>2, ValidSet, FirstUnique DEF Repeated
  <2> QED
    BY <1>6, <2>1, <2>2, <2>3, SameOrder
       DEF SaveDuplicate, Return, History!Duplicate, History!Returns, History!Result
<1>7. ASSUME NEW t \in Threads, SaveFile(t) PROVE \E s \in Snapshot : History!Save(t, s)
  <2>1. list[t] = valid /\ Retained(valid) = valid
    BY <1>7, ReadsHistory DEF SaveFile
  <2>2. PICK s \in Snapshot : pending[t] = {s}
    BY <1>7, <1>a, PendingOne DEF SaveFile, CallInv
  <2>3. valid' = valid \cup {s} /\ res' = [res EXCEPT ![t] = Result("saved", {s})]
    BY <1>7, <2>2 DEF SaveFile
  <2>4. \A m \in First(valid) : m.fp # s.fp
    BY <1>7, <2>1, <2>2, RetainedTyped DEF SaveFile, Repeated
  <2>5. Retained(valid') = Retained(Retained(valid) \cup {s})
    BY <2>1, <2>3
  <2> QED
    BY <2>1, <2>3, <2>4, <2>5, SameOrder DEF History!Save, History!Returns, History!Result
<1>8. ASSUME NEW t \in Threads, ReadLatest(t) PROVE History!Latest(t)
  <2>1. list[t] = valid /\ Retained(valid) = valid
    BY <1>8, ReadsHistory DEF ReadLatest
  <2>2. Return(t, "found", First(valid)) /\ valid' = valid
    BY <1>8, <2>1 DEF ReadLatest
  <2> QED
    BY <2>1, <2>2, SameOrder DEF Return, History!Latest, History!Returns, History!Result
<1>9. ASSUME NEW t \in Threads, ReadList(t) PROVE History!List(t)
  <2>1. list[t] = valid /\ Retained(valid) = valid
    BY <1>9, ReadsHistory DEF ReadList
  <2> QED
    BY <1>9, <2>1 DEF ReadList, Return, History!List, History!Returns, History!Result
<1>10. ASSUME NEW t \in Threads, Prune(t) PROVE UNCHANGED <<Retained(valid), res>>
  <2>1. PICK d \in doomed[t] : valid' = {v \in valid : v.id # d.id}
    BY <1>10, RetainedTyped DEF Prune, Doomed
  <2>2. SafePlan(list[t], doomed[t])
    BY DEF IInv, EvictionInv
  <2>3. d \in valid \ Retained(valid)
    <3>1. list[t] \subseteq Ahead(d, valid) /\ Cardinality(list[t]) >= RetentionLimit
      BY <2>2 DEF SafePlan, Ahead
    <3>2. IsFiniteSet(Ahead(d, valid))
      BY ValidSet, FS_Subset DEF Ahead
    <3>3. /\ Cardinality(list[t]) <= Cardinality(Ahead(d, valid))
          /\ Cardinality(list[t]) \in Nat /\ Cardinality(Ahead(d, valid)) \in Nat
      BY <3>1, <3>2, FS_Subset, FS_CardinalityType
    <3> QED
      BY <2>2, <3>1, <3>3, RetentionAssumption DEF SafePlan, Retained
  <2>4. valid' = valid \ {d}
    BY <2>1, <2>3, ValidSet DEF DistinctIds
  <2>5. res' = res
    BY <1>10 DEF Prune
  <2> QED
    BY <2>3, <2>4, <2>5, ValidSet, RetainedWithout
<1>11. ASSUME NEW t \in Threads, WriteIndex(t) PROVE UNCHANGED <<Retained(valid), res>>
  <2>1. res[t] = Result(res[t].tag, res[t].snaps)
    BY <1>a DEF TypeOK, Results
  <2> QED
    BY <1>11, <1>a, <2>1 DEF WriteIndex, Return, TypeOK
<1>12. CASE Crash
  BY <1>12 DEF Crash, History!Next, History!Restart, History!Result
<1>13. CASE LoseIndex \/ UNCHANGED vars
  BY <1>13 DEF LoseIndex, vars
<1> QED
  BY <1>1, <1>2, <1>3, <1>4, <1>5, <1>6, <1>7, <1>8, <1>9, <1>10, <1>11, <1>12, <1>13,
     VisibleSteps DEF Next, Step

\* As long as no file is damaged, calls of any number of threads, with failures,
\* crashes and lost indexes between any two changes of the disk, look like an
\* atomic history of the newest snapshots.
THEOREM StoreImplementsHistory ==
  ASSUME MaxFileDamage = 0
  PROVE  Spec => Linearizable
<1>1. Init => History!Init
  BY DEF Init, Retained, Result, History!Init, History!Result
<1>2. IInv /\ CallInv /\ [Next]_vars => [History!Next]_(History!vars)
  <2>1. IInv => damage = 0 /\ ~DamageFile
    BY DEF IInv, TypeOK, DamageFile
  <2> QED
    BY <2>1, HistoryStep
<1> QED
  BY <1>1, <1>2, CallCorrect, PTL DEF Spec, Linearizable, History!Spec

(***************************************************************************)
(* One thread whose clock never goes back: a capture is newer than all     *)
(* that is known, so a save puts it at the head of the history.            *)
(***************************************************************************)
Captured == StrictClock /\ \E t \in Threads : Threads = {t}

ClockInv ==
  /\ \A m \in Known : m.at <= clock
  /\ \A t \in Threads : \A s \in pending[t] :
       s.at <= clock /\ \A m \in Known : m.at < s.at

\* The list that a save is about to write has what it saved.
ListedInv ==
  \A t \in Threads : pc[t] = "finishing" /\ res[t].tag = "saved" => res[t].snaps \subseteq list[t]

OrderInv == ClockInv /\ ListedInv /\ NoConsecutiveDuplicates

LEMMA KnownTyped ==
  ASSUME TypeOK
  PROVE  /\ Known \subseteq Snapshot
         /\ \A m \in Snapshot : m.at \in Nat
         /\ clock \in Nat
<1>1. \A t \in Threads : list[t] \subseteq Snapshot /\ doomed[t] \subseteq Snapshot
  BY DEF TypeOK
<1>2. index.entries \subseteq Snapshot /\ clock \in Nat
  BY TimesAssumption DEF TypeOK
<1>3. \A m \in Snapshot : m.at \in Nat
  BY TimesAssumption DEF Snapshot
<1> QED
  BY <1>1, <1>2, <1>3 DEF TypeOK, Known

\* A step that adds nothing to what is known, and takes no new instant, keeps
\* the instants in order.
LEMMA ClockKept ==
  ASSUME ClockInv, clock' = clock,
         \A u \in Threads : /\ list'[u] \cup doomed'[u] \subseteq Known
                            /\ pending'[u] \subseteq pending[u],
         valid' \cup index'.entries \subseteq Known
  PROVE  ClockInv'
<1>1. Known' \subseteq Known
  BY DEF Known
<1> QED
  BY <1>1 DEF ClockInv

LEMMA ClockStep ==
  ASSUME Captured, TypeOK, ClockInv, [Next]_vars
  PROVE  ClockInv'
<1> USE KnownHolds, RetainedTyped DEF TypeOK, locals, disk, outside
<1>1. ASSUME NEW t \in Threads, CallSave(t) PROVE ClockInv'
  <2>1. PICK i \in Ids, a \in Times, f \in Fingerprints :
           /\ a > clock /\ clock' = a
           /\ Call(t, "save", {[id |-> i, at |-> a, fp |-> f]})
    BY <1>1 DEF CallSave, NewIds, FreshIds, Instants, Least, Captured
  <2> DEFINE s == [id |-> i, at |-> a, fp |-> f]
  <2>2. pending' = [pending EXCEPT ![t] = {s}] /\ s.at = a
    BY <2>1 DEF Call
  <2> HIDE DEF s
  <2>3. Known' = Known
    BY <2>1 DEF Call, Known
  <2>4. \A u \in Threads : u = t
    BY DEF Captured
  <2>5. a \in Nat /\ clock \in Nat /\ \A m \in Known : m.at \in Nat
    BY TimesAssumption, KnownTyped
  <2> QED
    BY <2>1, <2>2, <2>3, <2>4, <2>5 DEF ClockInv
<1>2. ASSUME NEW t \in Threads, CallRead(t) PROVE ClockInv'
  BY <1>2, ClockKept DEF CallRead, Call
<1>3. ASSUME NEW t \in Threads, EnterMissing(t) PROVE ClockInv'
  BY <1>3, ClockKept DEF EnterMissing, Return, Release
<1>4. ASSUME NEW t \in Threads, Enter(t) PROVE ClockInv'
  BY <1>4, ClockKept DEF Enter, Recover, Goto
<1>5. ASSUME NEW t \in Threads, Load(t) PROVE ClockInv'
  BY <1>5, ClockKept DEF Load, Recover, Goto, Return, Release
<1>6. ASSUME NEW t \in Threads, SaveDuplicate(t) PROVE ClockInv'
  BY <1>6, ClockKept DEF SaveDuplicate, Return, Release
<1>7. ASSUME NEW t \in Threads, SaveFile(t) PROVE ClockInv'
  <2>1. Known' \subseteq Known \cup pending[t] /\ clock' = clock
    <3>1. valid' \cup index'.entries \subseteq Known \cup pending[t]
      BY <1>7 DEF SaveFile
    <3>2. \A u \in Threads : list'[u] \cup doomed'[u] \subseteq Known \cup pending[t]
      BY <1>7 DEF SaveFile, Merged, Goto
    <3> QED
      BY <1>7, <3>1, <3>2 DEF Known, SaveFile
  <2>2. \A u \in Threads : pending'[u] = {}
    BY <1>7 DEF SaveFile, Captured
  <2> QED
    BY <2>1, <2>2 DEF ClockInv
<1>8. ASSUME NEW t \in Threads, ReadLatest(t) PROVE ClockInv'
  BY <1>8, ClockKept DEF ReadLatest, Recover, Goto, Return, Release
<1>9. ASSUME NEW t \in Threads, ReadList(t) PROVE ClockInv'
  BY <1>9, ClockKept DEF ReadList, Return, Release
<1>10. ASSUME NEW t \in Threads, Prune(t) PROVE ClockInv'
  BY <1>10, ClockKept DEF Prune
<1>11. ASSUME NEW t \in Threads, WriteIndex(t) PROVE ClockInv'
  BY <1>11, ClockKept DEF WriteIndex, Return, Release
<1>12. ASSUME NEW t \in Threads, Fail(t) PROVE ClockInv'
  BY <1>12, ClockKept DEF Fail, Return, Release
<1>13. CASE Crash
  BY <1>13, ClockKept DEF Crash
<1>14. CASE LoseIndex
  BY <1>14, ClockKept DEF LoseIndex
<1>15. CASE DamageFile
  BY <1>15, ClockKept DEF DamageFile
<1>16. CASE UNCHANGED vars
  BY <1>16, ClockKept DEF vars
<1> QED
  BY <1>1, <1>2, <1>3, <1>4, <1>5, <1>6, <1>7, <1>8, <1>9, <1>10, <1>11, <1>12,
     <1>13, <1>14, <1>15, <1>16 DEF Next, Step

\* The newest snapshot of a set is retained.
LEMMA NewestRetained ==
  ASSUME NEW S \in SUBSET Snapshot, NEW s \in First(S)
  PROVE  s \in Retained(S)
BY FS_EmptySet, RetentionAssumption DEF First, Retained

\* What a save has pending is newer than the whole list and every file.
LEMMA SavedAhead ==
  ASSUME Captured, IInv, CallInv, ClockInv, NEW t \in Threads, SaveFile(t)
  PROVE  \E s \in Snapshot :
           /\ pending[t] = {s} /\ s \notin valid
           /\ \A m \in list[t] \cup valid : Newer(s, m) /\ ~Newer(m, s)
<1>1. PICK s \in Snapshot : pending[t] = {s}
  BY PendingOne DEF SaveFile, CallInv, IInv
<1>2. \A m \in list[t] \cup valid : m.at \in Nat /\ s.at \in Nat /\ m.at < s.at
  BY <1>1, KnownHolds, KnownTyped DEF ClockInv, IInv
<1> QED
  BY <1>1, <1>2 DEF Newer

LEMMA ListedStep ==
  ASSUME Captured, IInv, CallInv, ClockInv, ListedInv, [Next]_vars
  PROVE  ListedInv'
<1> USE DEF TypeOK, ListedInv, locals, Result
<1>a. TypeOK
  BY DEF IInv
<1>1. ASSUME NEW t \in Threads, CallSave(t) \/ CallRead(t) PROVE ListedInv'
  BY <1>a, <1>1 DEF CallSave, CallRead, Call
<1>2. ASSUME NEW t \in Threads, EnterMissing(t) \/ SaveDuplicate(t) \/ ReadList(t) \/ Fail(t)
      PROVE  ListedInv'
  BY <1>a, <1>2 DEF EnterMissing, SaveDuplicate, ReadList, Fail, Return
<1>3. ASSUME NEW t \in Threads, Enter(t) PROVE ListedInv'
  BY <1>a, <1>3 DEF Enter, Recover, Goto
<1>4. ASSUME NEW t \in Threads, Load(t) PROVE ListedInv'
  BY <1>a, <1>4 DEF Load, Recover, Goto, Return
<1>5. ASSUME NEW t \in Threads, ReadLatest(t) PROVE ListedInv'
  BY <1>a, <1>5 DEF ReadLatest, Recover, Goto, Return
<1>6. ASSUME NEW t \in Threads, SaveFile(t) PROVE ListedInv'
  <2>1. PICK s \in Snapshot : /\ pending[t] = {s}
                              /\ \A m \in list[t] : ~Newer(m, s)
    BY <1>6, SavedAhead
  <2>2. s \in First(list[t] \cup {s})
    BY <2>1, NewerIsStrict DEF First, Ahead
  <2>3. s \in Retained(list[t] \cup {s})
    BY <1>a, <2>2, NewestRetained
  <2>4. /\ list' = [list EXCEPT ![t] = Retained(list[t] \cup {s})]
        /\ res' = [res EXCEPT ![t] = Result("saved", {s})]
    BY <1>6, <2>1 DEF SaveFile, Merged, Goto
  <2>5. \A u \in Threads : u = t
    BY DEF Captured
  <2> QED
    BY <1>a, <2>3, <2>4, <2>5
<1>7. ASSUME NEW t \in Threads, Prune(t) PROVE ListedInv'
  BY <1>7 DEF Prune
<1>8. ASSUME NEW t \in Threads, WriteIndex(t) PROVE ListedInv'
  BY <1>a, <1>8 DEF WriteIndex, Return
<1>9. CASE Crash \/ LoseIndex \/ DamageFile \/ UNCHANGED vars
  BY <1>9 DEF Crash, LoseIndex, DamageFile, vars
<1> QED
  BY <1>1, <1>2, <1>3, <1>4, <1>5, <1>6, <1>7, <1>8, <1>9 DEF Next, Step

\* The only file that is deleted while none is damaged is the oldest one.
LEMMA PrunesOldest ==
  ASSUME IInv, damage = 0, NEW t \in Threads, Prune(t)
  PROVE  \E d \in valid : valid' = valid \ {d} /\ \A m \in valid \ {d} : Newer(m, d) /\ ~Newer(d, m)
<1>1. PICK d \in doomed[t] : valid' = {v \in valid : v.id # d.id}
  BY RetainedTyped DEF Prune, Doomed
<1>2. SafePlan(list[t], doomed[t]) /\ d \in valid
  BY DEF IInv, EvictionInv, SafePlan
<1>3. valid' = valid \ {d}
  BY <1>1, <1>2, ValidSet DEF DistinctIds
<1>4. \A m \in list[t] : Newer(m, d) /\ ~Newer(d, m) /\ m # d
  BY <1>2, ValidSet, NewerIsStrict DEF SafePlan
<1>5. list[t] \cup {d} = valid
  <2>1. list[t] \cup {d} \subseteq valid /\ IsFiniteSet(list[t])
    BY <1>2, ValidSet, FS_Subset DEF SafePlan
  <2>2. Cardinality(list[t] \cup {d}) = Cardinality(list[t]) + 1
    BY <1>4, <2>1, FS_AddElement, Zenon
  <2>3. Cardinality(list[t]) >= RetentionLimit /\ Cardinality(valid) <= RetentionLimit + 1
    BY <1>2 DEF SafePlan, IInv, BoundInv, AtMost
  <2>4. /\ Cardinality(list[t] \cup {d}) <= Cardinality(valid)
        /\ Cardinality(list[t]) \in Nat /\ Cardinality(valid) \in Nat
    BY <2>1, ValidSet, FS_Subset, FS_CardinalityType
  <2>5. Cardinality(list[t] \cup {d}) = Cardinality(valid)
    BY <2>2, <2>3, <2>4, RetentionAssumption
  <2> QED
    BY <2>1, <2>5, ValidSet, FS_Subset
<1> QED
  BY <1>2, <1>3, <1>4, <1>5

LEMMA NeighboursStep ==
  ASSUME Captured, IInv, CallInv, ClockInv, NoConsecutiveDuplicates, [Next]_vars
  PROVE  NoConsecutiveDuplicates'
<1> SUFFICES ASSUME damage' = 0, NEW a \in valid', NEW b \in valid',
                    Ahead(b, valid') = Ahead(a, valid') \cup {a}
             PROVE  a.fp # b.fp
  BY DEF NoConsecutiveDuplicates, Ahead, Newer
<1> USE DEF disk
<1>a. damage = 0 /\ ~DamageFile
  BY DamageCounted DEF IInv
<1>b. ASSUME valid' = valid PROVE a.fp # b.fp
  BY <1>a, <1>b DEF NoConsecutiveDuplicates
<1>1. ASSUME NEW t \in Threads, SaveFile(t) PROVE a.fp # b.fp
  <2>1. PICK s \in Snapshot : /\ pending[t] = {s} /\ s \notin valid
                              /\ \A m \in valid : Newer(s, m) /\ ~Newer(m, s)
    BY <1>1, SavedAhead
  <2>2. valid' = valid \cup {s} /\ list[t] = valid
    BY <1>1, <1>a, <2>1, ReadsHistory DEF SaveFile
  <2>3. /\ \A m \in valid : Ahead(m, valid') = Ahead(m, valid) \cup {s} /\ s \notin Ahead(m, valid)
        /\ Ahead(s, valid') = {}
    BY <2>1, <2>2, NewerIsStrict DEF Ahead
  <2>4. b # s
    BY <2>3
  <2>5. CASE a = s
    <3>1. Ahead(b, valid) = {}
      BY <2>2, <2>3, <2>4, <2>5
    <3>2. b \in First(list[t]) \cap valid
      BY <2>2, <2>4, <3>1 DEF First
    <3> QED
      BY <1>1, <2>1, <2>5, <3>2 DEF SaveFile, Repeated
  <2>6. CASE a # s
    <3>1. a \in valid /\ b \in valid
      BY <2>2, <2>4, <2>6
    <3>2. Ahead(b, valid) \cup {s} = Ahead(a, valid) \cup {s} \cup {a}
      BY <2>3, <3>1
    <3>3. Ahead(b, valid) = Ahead(a, valid) \cup {a}
      BY <2>3, <2>6, <3>1, <3>2
    <3> QED
      BY <1>a, <3>1, <3>3 DEF NoConsecutiveDuplicates
  <2> QED
    BY <2>5, <2>6
<1>2. ASSUME NEW t \in Threads, Prune(t) PROVE a.fp # b.fp
  <2>1. PICK d \in valid : valid' = valid \ {d} /\ \A m \in valid \ {d} : ~Newer(d, m)
    BY <1>2, <1>a, PrunesOldest
  <2>2. \A m \in valid' : Ahead(m, valid') = Ahead(m, valid)
    BY <2>1 DEF Ahead
  <2> QED
    BY <1>a, <2>1, <2>2 DEF NoConsecutiveDuplicates
<1>3. ASSUME NEW t \in Threads, CallSave(t) \/ CallRead(t) PROVE valid' = valid
  BY <1>3 DEF CallSave, CallRead, Call
<1>4. ASSUME NEW t \in Threads, Step(t) \/ Fail(t), ~SaveFile(t), ~Prune(t) PROVE valid' = valid
  BY <1>4 DEF Step, EnterMissing, Enter, Load, SaveDuplicate, ReadLatest, ReadList, WriteIndex, Fail
<1>5. Crash \/ LoseIndex \/ UNCHANGED vars => valid' = valid
  BY DEF Crash, LoseIndex, vars
<1> QED
  BY <1>1, <1>2, <1>3, <1>4, <1>5, <1>a, <1>b DEF Next, Step

LEMMA OrderCorrect ==
  ASSUME Captured
  PROVE  Spec => [](IInv /\ CallInv /\ OrderInv)
<1>1. Init => OrderInv
  BY DEF Init, OrderInv, ClockInv, ListedInv, NoConsecutiveDuplicates, Known
<1>2. IInv /\ CallInv /\ OrderInv /\ [Next]_vars => OrderInv'
  BY ClockStep, ListedStep, NeighboursStep DEF IInv, OrderInv
<1> QED
  BY <1>1, <1>2, CallCorrect, PTL DEF Spec

\* For one window whose clock never goes back, no two neighbours of an undamaged
\* history have the same content: save compares with the newest snapshot, and
\* eviction and recovery only ever take the oldest one away.
THEOREM NeighboursDiffer ==
  ASSUME Captured
  PROVE  Spec => []NoConsecutiveDuplicates
<1>1. OrderInv => NoConsecutiveDuplicates
  BY DEF OrderInv
<1> QED
  BY <1>1, OrderCorrect, PTL

\* For one window whose clock never goes back, a save that reports Saved has its
\* snapshot in the index it wrote.
THEOREM SavedStaysListed ==
  ASSUME Captured
  PROVE  Spec => SavedIsListed
<1>1. ASSUME IInv, OrderInv, [Next]_vars
      PROVE  [\A t \in Threads :
                pc[t] = "finishing" /\ pc'[t] = "idle" /\ res'[t].tag = "saved"
                  => res'[t].snaps \subseteq index'.entries]_vars
  <2> SUFFICES ASSUME Next, NEW u \in Threads,
                      pc[u] = "finishing", pc'[u] = "idle", res'[u].tag = "saved"
               PROVE  res'[u].snaps \subseteq index'.entries
    BY <1>1
  <2> USE <1>1 DEF IInv, TypeOK, disk, locals, Result
  <2>1. ASSUME NEW t \in Threads, WriteIndex(t) PROVE res'[u].snaps \subseteq index'.entries
    <3>1. u = t
      BY <2>1 DEF WriteIndex, LockInv, Busy
    <3>2. res'[t] = Result(res[t].tag, res[t].snaps) /\ index'.entries = list[t]
      BY <2>1, <3>1 DEF WriteIndex, Return
    <3>3. res[t].tag = "saved" => res[t].snaps \subseteq list[t]
      BY <3>1 DEF OrderInv, ListedInv
    <3> QED
      BY <3>1, <3>2, <3>3
  <2>2. ASSUME NEW t \in Threads, CallSave(t) \/ CallRead(t) PROVE FALSE
    BY <2>2 DEF CallSave, CallRead, Call
  <2>3. ASSUME NEW t \in Threads, Fail(t) PROVE FALSE
    BY <2>3 DEF Fail, Return
  <2>4. ASSUME NEW t \in Threads, EnterMissing(t) \/ Enter(t) \/ Load(t) PROVE FALSE
    BY <2>4 DEF EnterMissing, Enter, Load, Waiting, Return, Recover, Goto
  <2>5. ASSUME NEW t \in Threads,
               SaveDuplicate(t) \/ SaveFile(t) \/ ReadLatest(t) \/ ReadList(t) \/ Prune(t)
        PROVE  FALSE
    BY <2>5 DEF SaveDuplicate, SaveFile, ReadLatest, ReadList, Prune, Return, Recover, Goto
  <2>6. ~Crash /\ ~LoseIndex /\ ~DamageFile
    BY DEF Crash, LoseIndex, DamageFile
  <2> QED
    BY <2>1, <2>2, <2>3, <2>4, <2>5, <2>6 DEF Next, Step
<1> QED
  BY <1>1, OrderCorrect, PTL DEF Spec, SavedIsListed
=============================================================================
