---------------------------- MODULE MCScanSession ----------------------------
(* Small instances of ScanSession for TLC. *)
EXTENDS ScanSession

CONSTANTS a, b

TwoServers == {a, b}
=============================================================================
