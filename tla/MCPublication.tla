---------------------------- MODULE MCPublication ----------------------------
(* The two processes of a server, two people and one release. *)
EXTENDS Publication, TLC

CONSTANTS p, q, d1, r1, http, stdio

MCPerson == {p, q}
MCProcess == {http, stdio}
MCDraft == {d1}
MCRelease == {r1}

(* Both people and both processes are treated alike. *)
Alike == Permutations(MCPerson) \cup Permutations(MCProcess)
=============================================================================
