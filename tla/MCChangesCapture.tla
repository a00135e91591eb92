--------------------------- MODULE MCChangesCapture ---------------------------
(* Small instances of ChangesCapture for TLC. *)
EXTENDS ChangesCapture, TLC

CONSTANTS w1, w2, c1, c2, s1, s2, x, y

TwoWindows == {w1, w2}
OneWindow == {w1}
TwoConnections == {c1, c2}
OneConnection == {c1}
TwoServers == {s1, s2}
TwoContents == {x, y}

\* Windows, connections, server UUIDs and contents are interchangeable.
Symmetry ==
  Permutations(TwoWindows) \cup Permutations(TwoConnections)
    \cup Permutations(TwoServers) \cup Permutations(TwoContents)
=============================================================================
