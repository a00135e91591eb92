--------------------------- MODULE MCSnapshotStore ---------------------------
(* Small instances of SnapshotStore for TLC. *)
EXTENDS SnapshotStore

CONSTANTS t1, t2, x, y

TwoThreads == {t1, t2}
OneThread == {t1}
TwoContents == {x, y}
=============================================================================
