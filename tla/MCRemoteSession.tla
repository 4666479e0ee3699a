--------------------------- MODULE MCRemoteSession ---------------------------
(* Small instances of RemoteSession for TLC. *)
EXTENDS RemoteSession

CONSTANTS r1, r2, r3

Three == {r1, r2, r3}
=============================================================================
