----------------------------- MODULE MCAuditLog -----------------------------
(* Small instances of AuditLog for TLC. *)
EXTENDS AuditLog

CONSTANTS w1, w2, w3

Writers == {w1, w2, w3}
MCOutcome == {"success", "error"}

(* Writers differ in nothing. *)
Perms == Permutations(Writers)
=============================================================================
