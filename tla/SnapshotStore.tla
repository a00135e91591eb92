---------------------------- MODULE SnapshotStore ----------------------------
(***************************************************************************)
(* FileSnapshotRepository for one server: the directory of snapshot files  *)
(* and index.json, and the threads that save to it and read it.            *)
(*                                                                         *)
(* Every call runs under the lock of its server.  What the model keeps     *)
(* apart is each change of the disk: one file written, one file deleted,   *)
(* the index replaced.  Between any two of them an exception may end the   *)
(* call or the process may die.                                            *)
(*                                                                         *)
(* A snapshot file is valid (it decodes and passes validate) or corrupt.   *)
(* atomicWrite is one step: its ".tmp" file is never listed and the rename *)
(* replaces the target or leaves it.  The scan limit of 200 files is not   *)
(* reached: fewer than 150 corrupt files are assumed.                      *)
(***************************************************************************)
EXTENDS SnapshotOrder

CONSTANTS
  Threads,
  StrictClock,      \* TRUE: every capture is later than the ones before it
  MaxFileDamage     \* snapshot files that outside causes damage or remove

ASSUME StrictClockAssumption == StrictClock \in BOOLEAN
ASSUME DamageAssumption == MaxFileDamage \in Nat

VARIABLES
  valid,        \* the snapshots in valid files
  corrupt,      \* the IDs of files that do not load
  index,        \* index.json
  directory,    \* the server directory exists
  lock,         \* the thread that holds the server lock, as a set
  pc,
  op,           \* the repository operation each thread calls
  pending,      \* the snapshot that a save has not written yet, as a set
  list,         \* the metadata list in memory: read, or about to be written
  doomed,       \* the entries whose files are still to be deleted
  res,          \* what the last call of each thread returned
  clock,        \* the instant of the last capture
  damage        \* number of damaged files so far

disk == <<valid, corrupt, index, directory>>
locals == <<op, pending, list, doomed>>
outside == <<clock, damage>>
vars == <<disk, lock, pc, locals, res, outside>>

Ops == {"save", "latest", "list", "load"}
Busy == {"recovering", "reading", "finishing"}
Tags == {"none", "saved", "duplicate", "found", "listed", "failed"}
Results == [tag : Tags, snaps : SUBSET Snapshot]
Result(tag, snaps) == [tag |-> tag, snaps |-> snaps]

\* What a call can have pending: nothing, or one snapshot.
AtMostOne == {{}} \cup {{s} : s \in Snapshot}

FileIds == IdsOf(valid) \cup corrupt

\* Two weaker tests of the index: none, and a comparison of sizes.
IndexReadable == index.readable
IndexSameSize == index.readable /\ Cardinality(index.entries) = Cardinality(FileIds)

\* The index is trusted when its IDs are exactly those of the files.
IndexUsable == index.readable /\ IdsOf(index.entries) = FileIds

\* Every snapshot the repository knows of, and the IDs that are left: UUIDs are
\* never reused.
Known == valid \cup index.entries \cup UNION {list[t] \cup doomed[t] : t \in Threads}
FreshIds == Ids \ (corrupt \cup IdsOf(Known) \cup IdsOf(UNION {pending[t] : t \in Threads}))

Init ==
  /\ valid = {} /\ corrupt = {} /\ directory = FALSE
  /\ index = [readable |-> FALSE, entries |-> {}]
  /\ lock = {}
  /\ pc = [t \in Threads |-> "idle"]
  /\ op = [t \in Threads |-> "none"]
  /\ pending = [t \in Threads |-> {}]
  /\ list = [t \in Threads |-> {}]
  /\ doomed = [t \in Threads |-> {}]
  /\ res = [t \in Threads |-> Result("none", {})]
  /\ clock = 0 /\ damage = 0

(***************************************************************************)
(* Calls.  A capture takes its instant and UUID before it asks for the     *)
(* lock, so captures may reach the repository out of order.                *)
(***************************************************************************)
Call(t, o, snaps) ==
  /\ pc[t] = "idle"
  /\ pc' = [pc EXCEPT ![t] = "waiting"]
  /\ op' = [op EXCEPT ![t] = o]
  /\ pending' = [pending EXCEPT ![t] = snaps]
  /\ res' = [res EXCEPT ![t] = Result("none", {})]
  /\ UNCHANGED <<disk, lock, list, doomed, damage>>

\* Under a strict clock only the order of the captures matters, so the next
\* instant and the least fresh ID stand for all.
Least(S) == {a \in S : \A b \in S : a <= b}
Instants == IF StrictClock THEN Least({a \in Times : a > clock}) ELSE Times
NewIds == IF StrictClock THEN Least(FreshIds) ELSE FreshIds

CallSave(t) ==
  \E i \in NewIds, a \in Instants, f \in Fingerprints :
    /\ Call(t, "save", {[id |-> i, at |-> a, fp |-> f]})
    /\ clock' = IF StrictClock THEN a ELSE clock

CallRead(t) ==
  /\ \E o \in Ops \ {"save"} : Call(t, o, {})
  /\ UNCHANGED clock

(***************************************************************************)
(* Under the lock.  Return ends the call, whatever it was.                 *)
(***************************************************************************)
\* An exit that forgets the lock, and the finally of withServerLock.
KeepLock == UNCHANGED lock
Release == lock' = {}

Return(t, tag, snaps) ==
  /\ pc' = [pc EXCEPT ![t] = "idle"]
  /\ Release
  /\ res' = [res EXCEPT ![t] = Result(tag, snaps)]
  /\ pending' = [pending EXCEPT ![t] = {}]
  /\ list' = [list EXCEPT ![t] = {}]
  /\ doomed' = [doomed EXCEPT ![t] = {}]
  /\ op' = [op EXCEPT ![t] = "none"]

Goto(t, label, kept, dropped) ==
  /\ pc' = [pc EXCEPT ![t] = label]
  /\ list' = [list EXCEPT ![t] = kept]
  /\ doomed' = [doomed EXCEPT ![t] = dropped]

\* A recovery without retention.
RecoverKeepingAll(t, label) == Goto(t, label, valid, {})

\* recoverIndex: keep the newest valid files, delete the others, then replace
\* the index (Prune and WriteIndex below).
Recover(t, label) == Goto(t, label, Retained(valid), valid \ Retained(valid))

\* A thread that asked for the lock, without and with its being free.
Asking(t, ops) == pc[t] = "waiting" /\ op[t] \in ops
Waiting(t, ops) == pc[t] = "waiting" /\ lock = {} /\ op[t] \in ops

\* A read finds no directory: it returns nothing and creates nothing.
EnterMissing(t) ==
  /\ Waiting(t, Ops \ {"save"})
  /\ ~directory
  /\ Return(t, IF op[t] = "list" THEN "listed" ELSE "found", {})
  /\ UNCHANGED <<disk, outside>>

\* readOrRecoverIndex, for the operations that start with it.
Enter(t) ==
  /\ Waiting(t, {"save", "latest", "list"})
  /\ directory \/ op[t] = "save"
  /\ directory' = TRUE
  /\ lock' = {t}
  /\ \/ IndexUsable /\ Goto(t, "reading", index.entries, {})
     \/ ~IndexUsable /\ Recover(t, "recovering")
  /\ UNCHANGED <<valid, corrupt, index, op, pending, res, outside>>

\* load reads one file and rebuilds the index when that file is corrupt.
Load(t) ==
  /\ Waiting(t, {"load"})
  /\ directory
  /\ \E i \in Ids :
       \/ /\ i \notin corrupt
          /\ Return(t, "found", {m \in valid : m.id = i})
       \/ /\ i \in corrupt
          /\ lock' = {t}
          /\ Recover(t, "finishing")
          /\ res' = [res EXCEPT ![t] = Result("found", {})]
          /\ UNCHANGED <<op, pending>>
  /\ UNCHANGED <<disk, outside>>

\* The comparison with the other end of the list.
RepeatedOldest(t) ==
  {m \in list[t] \cap valid :
     list[t] = Ahead(m, list[t]) \cup {m} /\ \E s \in pending[t] : m.fp = s.fp}

\* save: the newest listed snapshot still loads and has the same content.
Repeated(t) == {m \in First(list[t]) \cap valid : \E s \in pending[t] : m.fp = s.fp}

SaveDuplicate(t) ==
  /\ pc[t] = "reading" /\ op[t] = "save"
  /\ Repeated(t) # {}
  /\ Return(t, "duplicate", Repeated(t))
  /\ UNCHANGED <<disk, outside>>

\* The index without, and with, the snapshot that is being saved.
MergedStale(t) == list[t]
Merged(t) == list[t] \cup pending[t]

\* save: write the file.  Only entries that were listed before can be evicted.
SaveFile(t) ==
  LET kept == Retained(Merged(t))
  IN  /\ pc[t] = "reading" /\ op[t] = "save"
      /\ Repeated(t) = {}
      /\ valid' = valid \cup pending[t]
      /\ Goto(t, "finishing", kept, list[t] \ kept)
      /\ pending' = [pending EXCEPT ![t] = {}]
      /\ res' = [res EXCEPT ![t] = Result("saved", pending[t])]
      /\ UNCHANGED <<corrupt, index, directory, lock, op, outside>>

\* latest: the newest listed snapshot that loads, and the repair it triggers.
ReadLatest(t) ==
  LET loaded == First(list[t] \cap valid)
  IN  /\ pc[t] = "reading" /\ op[t] = "latest"
      /\ \/ /\ loaded = First(list[t])
            /\ Return(t, "found", loaded)
         \/ /\ loaded # First(list[t])
            /\ \/ loaded = {} /\ Goto(t, "finishing", {}, {})
               \/ loaded # {} /\ Recover(t, "finishing")
            /\ res' = [res EXCEPT ![t] = Result("found", loaded)]
            /\ UNCHANGED <<lock, op, pending>>
      /\ UNCHANGED <<disk, outside>>

ReadList(t) ==
  /\ pc[t] = "reading" /\ op[t] = "list"
  /\ Return(t, "listed", list[t])
  /\ UNCHANGED <<disk, outside>>

Doomed(t) == First(doomed[t])

\* One deleteIfExists, in list order.
Prune(t) ==
  /\ pc[t] \in {"recovering", "finishing"}
  /\ \E m \in Doomed(t) :
       /\ valid' = {v \in valid : v.id # m.id}
       /\ corrupt' = corrupt \ {m.id}
       /\ doomed' = [doomed EXCEPT ![t] = @ \ {m}]
  /\ UNCHANGED <<index, directory, lock, pc, op, pending, list, res, outside>>

\* writeIndex, after which the operation goes on or returns.
WriteIndex(t) ==
  /\ pc[t] \in {"recovering", "finishing"}
  /\ doomed[t] = {}
  /\ index' = [readable |-> TRUE, entries |-> list[t]]
  /\ \/ /\ pc[t] = "recovering"
        /\ pc' = [pc EXCEPT ![t] = "reading"]
        /\ UNCHANGED <<lock, locals, res>>
     \/ /\ pc[t] = "finishing"
        /\ Return(t, res[t].tag, res[t].snaps)
  /\ UNCHANGED <<valid, corrupt, directory, outside>>

\* An IOException or a failed requirement leaves the call; withLock releases.
Fail(t) ==
  /\ \/ pc[t] = "waiting" /\ lock = {}
     \/ pc[t] \in {"recovering", "finishing"}
     \/ pc[t] = "reading" /\ op[t] = "save"
  /\ Return(t, "failed", {})
  /\ UNCHANGED <<disk, outside>>

(***************************************************************************)
(* The environment: the process dies, the index is lost, and between calls *)
(* a snapshot file is damaged or removed.                                  *)
(***************************************************************************)
Crash ==
  /\ lock' = {}
  /\ pc' = [t \in Threads |-> "idle"]
  /\ op' = [t \in Threads |-> "none"]
  /\ pending' = [t \in Threads |-> {}]
  /\ list' = [t \in Threads |-> {}]
  /\ doomed' = [t \in Threads |-> {}]
  /\ res' = [t \in Threads |-> Result("none", {})]
  /\ UNCHANGED <<disk, outside>>

LoseIndex ==
  /\ index.readable
  /\ index' = [readable |-> FALSE, entries |-> {}]
  /\ UNCHANGED <<valid, corrupt, directory, lock, pc, locals, res, outside>>

DamageFile ==
  /\ damage < MaxFileDamage
  /\ lock = {}
  /\ damage' = damage + 1
  /\ \E m \in valid :
       /\ valid' = valid \ {m}
       /\ corrupt' \in {corrupt, corrupt \cup {m.id}}
  /\ UNCHANGED <<index, directory, lock, pc, locals, res, clock>>

Step(t) ==
  \/ EnterMissing(t) \/ Enter(t) \/ Load(t)
  \/ SaveDuplicate(t) \/ SaveFile(t) \/ ReadLatest(t) \/ ReadList(t)
  \/ Prune(t) \/ WriteIndex(t)

Next ==
  \/ \E t \in Threads : CallSave(t) \/ CallRead(t) \/ Step(t) \/ Fail(t)
  \/ Crash \/ LoseIndex \/ DamageFile

\* A thread that holds the lock keeps running.
Fairness == \A t \in Threads : WF_vars(Step(t))

Spec == Init /\ [][Next]_vars
FairSpec == Spec /\ Fairness
-----------------------------------------------------------------------------
(***************************************************************************)
(* Invariants.                                                             *)
(***************************************************************************)
TypeOK ==
  /\ valid \subseteq Snapshot
  /\ corrupt \subseteq Ids
  /\ index \in [readable : BOOLEAN, entries : SUBSET Snapshot]
  /\ directory \in BOOLEAN
  /\ lock \in SUBSET Threads
  /\ pc \in [Threads -> Busy \cup {"idle", "waiting"}]
  /\ op \in [Threads -> Ops \cup {"none"}]
  /\ pending \in [Threads -> AtMostOne]
  /\ list \in [Threads -> SUBSET Snapshot]
  /\ doomed \in [Threads -> SUBSET Snapshot]
  /\ res \in [Threads -> Results]
  /\ clock \in Times \cup {0}
  /\ damage \in 0..MaxFileDamage

\* A thread is inside an operation exactly when it holds the lock, and only
\* then does it have a list or files to delete.
LockInv ==
  \A t \in Threads :
    /\ (pc[t] \in Busy <=> lock = {t})
    /\ pc[t] \notin Busy => list[t] = {} /\ doomed[t] = {}

\* A UUID names one snapshot, wherever it is kept, and a snapshot that is not
\* written yet has a UUID of its own.
IdentityInv ==
  /\ \A a, b \in Known : a.id = b.id => a = b
  /\ \A t \in Threads : \A s \in pending[t] :
       /\ s.id \notin IdsOf(Known) \cup corrupt
       /\ \A u \in Threads : \A r \in pending[u] : s.id = r.id => t = u /\ s = r

\* The lists that the code bounds, and what bounds the directory.
AtMost(S, n) == IsFiniteSet(S) /\ Cardinality(S) <= n
BoundInv ==
  /\ AtMost(index.entries, RetentionLimit)
  /\ AtMost(valid, RetentionLimit + 1)
  /\ \A t \in Threads :
       /\ AtMost(list[t], RetentionLimit)
       /\ pc[t] = "recovering" => valid \subseteq list[t] \cup doomed[t]
       /\ pc[t] = "reading" => valid \subseteq list[t]

\* While no file was damaged: every listed entry has its file, and the files a
\* thread is about to delete are older than a full list that it keeps.
SafePlan(kept, dropped) ==
  /\ kept \subseteq valid /\ dropped \subseteq valid
  /\ dropped # {} => Cardinality(kept) >= RetentionLimit
  /\ \A m \in kept, d \in dropped : Newer(m, d)

EvictionInv ==
  damage = 0 => corrupt = {} /\ \A t \in Threads : SafePlan(list[t], doomed[t])

IInv == TypeOK /\ LockInv /\ IdentityInv /\ BoundInv /\ EvictionInv

(***************************************************************************)
(* Properties.                                                             *)
(***************************************************************************)

\* The directory never holds more than one valid snapshot over the limit,
\* whatever crashes, failures and damage come between a save and its eviction.
BoundedHistory == Cardinality(valid) <= RetentionLimit + 1

\* A valid snapshot is deleted only when RetentionLimit newer valid ones are on
\* disk: neither eviction by save nor an index rebuilt after a crash may cost a
\* snapshot that belongs to the newest ones.
EvictOnlyOldest ==
  [][damage' = damage =>
       \A m \in valid \ valid' : Cardinality(Ahead(m, valid)) >= RetentionLimit]_vars

\* latest() returns the newest snapshot that loads, even when the index is
\* stale, the index is lost, or newer files are damaged.
LatestIsNewest ==
  [][\A t \in Threads :
       op[t] = "latest" /\ res[t].tag = "none" /\ res'[t].tag = "found"
         => res'[t].snaps = First(valid)]_vars

\* As long as no file was damaged, no two neighbours of the history have the
\* same content: the documented deduplication of consecutive fingerprints.
NoConsecutiveDuplicates ==
  damage = 0 =>
    \A a, b \in valid :
      Ahead(b, valid) = Ahead(a, valid) \cup {a} => a.fp # b.fp

\* When the clock never goes back, a save that reports Saved has its snapshot in
\* the index it wrote, also after a recovery in the same call.
SavedIsListed ==
  [][\A t \in Threads :
       pc[t] = "finishing" /\ pc'[t] = "idle" /\ res'[t].tag = "saved"
         => res'[t].snaps \subseteq index'.entries]_vars

\* Calls, crashes and lost indexes together look like an atomic history.
History == INSTANCE SnapshotHistory WITH hist <- Retained(valid)
Linearizable == History!Spec

\* Whoever holds the server lock releases it.
LockReleased == \A t \in Threads : lock = {t} ~> lock # {t}
=============================================================================
