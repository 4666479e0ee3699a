-------------------------- MODULE InMemoryTickets --------------------------
(***************************************************************************)
(* The in-memory ConfirmationStore of a server without a broker            *)
(* (policy/confirmation.py 157-313; stdio, development, one process), with *)
(* the tool calls that use it from the worker pool and the threads that    *)
(* push approvals.  Its dictionary has no lock.  A read of it that is      *)
(* followed by the removal of the same key is one step here: what it       *)
(* tested cannot change back and a second removal raises.  approve is two, *)
(* for it writes back the ticket it read before it verified a signature.   *)
(***************************************************************************)
EXTENDS ConfirmationStore

CONSTANTS
  MaxTime,      \* bound on the clock
  PushEnabled,  \* owner_push_approval_enabled
  NoTicket      \* history: a ticket that was never issued

ASSUME InMemoryAssumption ==
  /\ MaxTime \in Nat
  /\ PushEnabled \in BOOLEAN
  /\ NoTicket \notin [caller : Caller, op : Op]

VARIABLES
  pending,     \* _pending
  now,         \* time.time()
  signatures,  \* kind-24243 events that exist in the world
  approving,   \* approve calls between their read and their write, as
               \* [ticket, row, route]: the approve_operation tool holds
               \* the WriteLock, the push thread does not
  pushed,      \* tickets whose push thread is done or gone
  issued,      \* history: whom each ticket was created for, and for what
  executed,    \* history: the requests whose tool body was run
  runs         \* history: how often a ticket let a body run, up to 2

vars == <<pending, now, signatures, approving, pushed, issued, executed, runs>>

Init ==
  /\ pending = [t \in Ticket |-> NoRow]
  /\ now = 0
  /\ signatures = {}
  /\ approving = {}
  /\ pushed = {}
  /\ issued = [t \in Ticket |-> NoTicket]
  /\ executed = {}
  /\ runs = [t \in Ticket |-> 0]

LockFree == \A a \in approving : a.route # "tool"

(* Mutant: write tools forget the lock too. *)
MayAlwaysRun(op) == TRUE

(* Write tools run under the WriteLock, the audit reads do not. *)
MayRun(op) == op \in LocalOp \/ LockFree

Issue(c, op, t) ==
  /\ MayRun(op)
  /\ issued[t] = NoTicket
  /\ pending' = Create(pending, t, c, op, now)
  /\ issued' = [issued EXCEPT ![t] = [caller |-> c, op |-> op]]
  /\ UNCHANGED <<now, signatures, approving, pushed, executed, runs>>

(* consume without defer, and the tool body it lets through. *)
Consume(c, op, t) ==
  /\ MayRun(op)
  /\ Consumable(pending, t, c, op, now)
  /\ pending' = Delete(pending, t)
  /\ executed' = executed \cup {[ticket |-> t, caller |-> c, op |-> op]}
  /\ runs' = [runs EXCEPT ![t] = IF @ < 2 THEN @ + 1 ELSE @]
  /\ UNCHANGED <<now, signatures, approving, pushed, issued>>

ConsumeFails(c, op, t) ==
  /\ MayRun(op)
  /\ ~Consumable(pending, t, c, op, now)
  /\ pending' = ConsumeRefused(pending, t, c, op, now)
  /\ UNCHANGED <<now, signatures, approving, pushed, issued, executed, runs>>

Peek(t) ==
  /\ pending' = CheckLive(pending, t, now)
  /\ UNCHANGED <<now, signatures, approving, pushed, issued, executed, runs>>

SignApproval(s, t) ==
  /\ issued[t] # NoTicket
  /\ signatures' = signatures \cup {[signer |-> s, ticket |-> t]}
  /\ UNCHANGED <<pending, now, approving, pushed, issued, executed, runs>>

(* Which approve calls there are: the tool's, one at a time and with any    *)
(* event; and one per ticket from the push thread, with the event it asked  *)
(* for.                                                                     *)
MayApprove(e, t, route) ==
  \/ route = "tool" /\ LockFree
  \/ /\ route = "push"
     /\ PushEnabled
     /\ issued[t] # NoTicket
     /\ issued[t].op \in OwnerOp
     /\ t \notin pushed
     /\ OwnerSigned(e, t)

Pushed(t, route) == IF route = "push" THEN pushed \cup {t} ELSE pushed

(* approve reads the ticket, finds it live, and verifies the event.         *)
BeginApprove(e, t, route) ==
  /\ MayApprove(e, t, route)
  /\ Live(pending, t, now)
  /\ OwnerSigned(e, t)
  /\ approving' = approving \cup
       {[ticket |-> t, row |-> pending[t], route |-> route]}
  /\ pushed' = Pushed(t, route)
  /\ UNCHANGED <<pending, now, signatures, issued, executed, runs>>

ApproveFails(e, t, route) ==
  /\ MayApprove(e, t, route)
  /\ ~(Live(pending, t, now) /\ OwnerSigned(e, t))
  /\ pending' = CheckLive(pending, t, now)
  /\ pushed' = Pushed(t, route)
  /\ UNCHANGED <<now, signatures, approving, issued, executed, runs>>

(* self._pending[confirmation_id] = updated: the copy made from the ticket  *)
(* read before, whatever became of the ticket since.                        *)
StoreApproval(a) ==
  /\ pending' = [pending EXCEPT ![a.ticket] = [a.row EXCEPT !.approved = TRUE]]
  /\ approving' = approving \ {a}
  /\ UNCHANGED <<now, signatures, pushed, issued, executed, runs>>

(* The process ends and starts again: nothing is persisted. *)
Restart ==
  /\ pending' = [t \in Ticket |-> NoRow]
  /\ approving' = {}
  /\ pushed' = {t \in Ticket : issued[t] # NoTicket}
  /\ UNCHANGED <<now, signatures, issued, executed, runs>>

Tick ==
  /\ now < MaxTime
  /\ now' = now + 1
  /\ UNCHANGED <<pending, signatures, approving, pushed, issued, executed, runs>>

Next ==
  \/ \E c \in Caller, op \in Op, t \in Ticket :
       Issue(c, op, t) \/ Consume(c, op, t) \/ ConsumeFails(c, op, t)
  \/ \E t \in Ticket : Peek(t)
  \/ \E s \in Caller, t \in Ticket : SignApproval(s, t)
  \/ \E e \in signatures, t \in Ticket, route \in {"tool", "push"} :
       BeginApprove(e, t, route) \/ ApproveFails(e, t, route)
  \/ \E a \in approving : StoreApproval(a)
  \/ Restart
  \/ Tick

Spec == Init /\ [][Next]_vars

-----------------------------------------------------------------------------
(* Even through a ticket that came back, a body runs only for the identity  *)
(* and arguments the ticket was created for, and a guarded one only after   *)
(* the owner signed for that ticket.                                        *)
Authorised ==
  \A r \in executed :
    /\ issued[r.ticket] = [caller |-> r.caller, op |-> r.op]
    /\ r.op \in OwnerOp =>
         [signer |-> Owner, ticket |-> r.ticket] \in signatures

(* What the WriteLock buys: a ticket of a write tool that no push thread    *)
(* approved lets one body run, though an approve_operation that lost a race *)
(* with a status poll stores a ticket that lapsed and was removed, and      *)
(* though the audit reads take no lock.                                     *)
OneShotUnderLock ==
  \A t \in Ticket :
    runs[t] > 1 => t \in pushed \/ issued[t].op \in LocalOp
=============================================================================
