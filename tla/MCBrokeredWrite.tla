-------------------------- MODULE MCBrokeredWrite --------------------------
(* Small instances of BrokeredWrite for TLC. *)
EXTENDS BrokeredWrite, TLC

CONSTANTS t1, t2, w1, w2, owner, agent

OneTicket == {t1}
TwoTickets == {t1, t2}
MCWorker == {w1, w2}
MCCaller == {owner, agent}

(* An ordinary confirmed write, one that needs the owner, and an audit read. *)
AllOps == {"write", "guarded", "audit"}
GuardedOps == {"guarded", "audit"}
MCLocalOp == {"audit"}

(* Tickets and broker threads are interchangeable. *)
Symmetry == Permutations(TwoTickets) \cup Permutations(MCWorker)
=============================================================================
