--------------------------- MODULE SnapshotHistory ---------------------------
(***************************************************************************)
(* What the snapshot repository promises its callers for one server: an    *)
(* atomic history of at most RetentionLimit snapshots, the newest ones     *)
(* ever saved.  A save commits in one step or not at all, although its     *)
(* caller may be told of a failure after the commit; a read returns what   *)
(* the history holds when it takes effect.                                 *)
(***************************************************************************)
EXTENDS SnapshotOrder

CONSTANT Threads

VARIABLES
  hist,     \* the retained snapshots
  res       \* what the last call of each thread returned

vars == <<hist, res>>

Tags == {"none", "saved", "duplicate", "found", "listed", "failed"}
Result(tag, snaps) == [tag |-> tag, snaps |-> snaps]
Results == [tag : Tags, snaps : SUBSET Snapshot]

Returns(t, tag, snaps) == res' = [res EXCEPT ![t] = Result(tag, snaps)]

Init ==
  /\ hist = {}
  /\ res = [t \in Threads |-> Result("none", {})]

\* A snapshot is committed unless it repeats the content of the newest one.
Save(t, s) ==
  /\ Returns(t, "saved", {s})
  /\ \A m \in First(hist) : m.fp # s.fp
  /\ hist' = Retained(hist \cup {s})

Duplicate(t) ==
  /\ \E m \in First(hist) : Returns(t, "duplicate", {m})
  /\ UNCHANGED hist

Latest(t) ==
  /\ Returns(t, "found", First(hist))
  /\ UNCHANGED hist

List(t) ==
  /\ Returns(t, "listed", hist)
  /\ UNCHANGED hist

\* A retained snapshot is always found; a snapshot that retention dropped may
\* still be found until its file is deleted.
Load(t, i) ==
  /\ \/ \E m \in hist : m.id = i /\ Returns(t, "found", {m})
     \/ i \notin IdsOf(hist) /\ Returns(t, "found", {})
     \/ i \notin IdsOf(hist) /\ \E m \in Snapshot : m.id = i /\ Returns(t, "found", {m})
  /\ UNCHANGED hist

Fail(t) == Returns(t, "failed", {}) /\ UNCHANGED hist

NextCall(t) == Returns(t, "none", {}) /\ UNCHANGED hist

\* The process ends: results are forgotten, the history is not.
Restart ==
  /\ res' = [t \in Threads |-> Result("none", {})]
  /\ UNCHANGED hist

Next ==
  \/ \E t \in Threads :
       \/ \E s \in Snapshot : Save(t, s)
       \/ Duplicate(t) \/ Latest(t) \/ List(t) \/ Fail(t) \/ NextCall(t)
       \/ \E i \in Ids : Load(t, i)
  \/ Restart

Spec == Init /\ [][Next]_vars
=============================================================================
