--------------------------- MODULE OneShotTicket ---------------------------
(***************************************************************************)
(* What the confirmation model promises about one ticket, whatever the     *)
(* number of processes that handle it (policy/confirmation.py, docstring): *)
(* it lets one operation run to completion at most once, only after the    *)
(* owner co-signed it if its rule says so, and a failed run gives it back. *)
(* Tickets are independent, so any of them may move in a step.             *)
(***************************************************************************)
CONSTANT Ticket

VARIABLES
  status,    \* where each ticket is in its life
  guarded,   \* the tickets whose rule requires the owner's signature
  cosigned   \* the tickets the owner has signed an approval for

vars == <<status, guarded, cosigned>>

Status == {"unissued", "pending", "running", "done", "void"}

Init ==
  /\ status = [t \in Ticket |-> "unissued"]
  /\ guarded = {}
  /\ cosigned = {}

Issue(t) == status[t] = "unissued" /\ status'[t] = "pending"

(* An operation may begin, or run in one go, only on a pending ticket. *)
Begin(t) ==
  /\ status[t] = "pending"
  /\ status'[t] \in {"running", "done"}
  /\ t \in guarded => t \in cosigned

Succeed(t) == status[t] = "running" /\ status'[t] = "done"

(* The ticket is given back, unless it was removed in the meantime. *)
Fail(t) == status[t] = "running" /\ status'[t] \in {"pending", "void"}

(* It lapsed, or was presented for something else. *)
Withdraw(t) == status[t] = "pending" /\ status'[t] = "void"

Move(t) ==
  \/ status'[t] = status[t]
  \/ Issue(t) \/ Begin(t) \/ Succeed(t) \/ Fail(t) \/ Withdraw(t)

(* Whether a ticket is guarded is settled when it is issued, and a          *)
(* signature is never taken back.                                           *)
Next ==
  /\ status' \in [Ticket -> Status]
  /\ \A t \in Ticket : Move(t)
  /\ guarded \subseteq guarded'
  /\ \A t \in guarded' \ guarded : status[t] = "unissued"
  /\ cosigned \subseteq cosigned'

Spec == Init /\ [][Next]_vars
=============================================================================
