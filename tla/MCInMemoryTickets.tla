------------------------- MODULE MCInMemoryTickets -------------------------
(* Small instances of InMemoryTickets for TLC. *)
EXTENDS InMemoryTickets, TLC

CONSTANTS t1, t2, owner, agent

TwoTickets == {t1, t2}
MCCaller == {owner, agent}

(* A write and an audit read that need the owner. *)
GuardedOps == {"guarded", "audit"}
AuditOps == {"audit"}

Symmetry == Permutations(TwoTickets)
=============================================================================
