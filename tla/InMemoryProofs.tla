---------------------------- MODULE InMemoryProofs ----------------------------
(***************************************************************************)
(* Proofs about InMemoryTickets for every set of tickets, identities and   *)
(* operations and every value of the two TTLs: what a ticket authorises,   *)
(* and that the WriteLock makes it good for one use.                       *)
(***************************************************************************)
EXTENDS InMemoryTickets, TLAPS

USE StoreAssumption, NoRowAssumption, InMemoryAssumption

Issued == [caller : Caller, op : Op]

Request == [ticket : Ticket, caller : Caller, op : Op]

Signed(t) == [signer |-> Owner, ticket |-> t] \in signatures

(* A row of ticket t, in the dictionary or in the hands of an approve call, *)
(* is for what t was issued for.                                            *)
Genuine(row, t) ==
  row \in Row /\ issued[t] = [caller |-> row.caller, op |-> row.op]

TypesOK ==
  /\ pending \in [Ticket -> Row \cup {NoRow}]
  /\ now \in Nat
  /\ signatures \subseteq Approval
  /\ issued \in [Ticket -> Issued \cup {NoTicket}]
  /\ executed \subseteq Request
  /\ runs \in [Ticket -> 0..2]

(* An approval, stored or about to be, has the owner's signature behind it. *)
RowsBound ==
  /\ \A t \in Ticket : Exists(pending, t) =>
       Genuine(pending[t], t) /\ (pending[t].approved => Signed(t))
  /\ \A a \in approving :
       a.ticket \in Ticket /\ Genuine(a.row, a.ticket) /\ Signed(a.ticket)

(* A ticket of a write tool that no push thread has been at, once used, is  *)
(* in nobody's hands.                                                       *)
UsedMeansGone ==
  /\ \A a \in approving : a.route # "tool" => a.ticket \in pushed
  /\ \A t \in Ticket : runs[t] > 0 => issued[t] # NoTicket
  /\ \A t \in Ticket \ pushed :
       runs[t] > 0 /\ issued[t].op \notin LocalOp =>
         /\ runs[t] = 1
         /\ ~Exists(pending, t)
         /\ \A a \in approving : a.ticket # t

Inv == TypesOK /\ RowsBound /\ Authorised /\ UsedMeansGone

-----------------------------------------------------------------------------
(* Looking a ticket up, or refusing to consume it, at most removes it. *)
Removal ==
  /\ pending' \in [Ticket -> Row \cup {NoRow}]
  /\ \A t \in Ticket : pending'[t] \in {pending[t], NoRow}

LEMMA Removals ==
  ASSUME TypesOK, NEW c \in Caller, NEW op \in Op, NEW t \in Ticket,
         \/ pending' = CheckLive(pending, t, now)
         \/ pending' = ConsumeRefused(pending, t, c, op, now)
         \/ pending' = Delete(pending, t)
  PROVE  Removal
BY DEF TypesOK, Removal, CheckLive, ConsumeRefused, Delete

(* Steps that at most remove tickets, end approve calls and let time pass.  *)
LEMMA Quiet ==
  ASSUME Inv, Removal, approving' \subseteq approving, pushed \subseteq pushed',
         now' \in Nat, UNCHANGED <<signatures, issued, executed, runs>>
  PROVE  Inv'
<1>1. TypesOK'
  BY DEF Inv, TypesOK, Removal
<1>2. RowsBound'
  BY DEF Inv, RowsBound, Removal, Exists, Genuine, Signed
<1>3. Authorised'
  BY DEF Inv, Authorised
<1>4. UsedMeansGone'
  BY DEF Inv, UsedMeansGone, Removal, Exists
<1>5. QED
  BY <1>1, <1>2, <1>3, <1>4 DEF Inv

LEMMA RowsTyped ==
  ASSUME NEW row \in Row
  PROVE  row.caller \in Caller /\ row.op \in Op
BY DEF Row

LEMMA IssueStep ==
  ASSUME Inv, NEW c \in Caller, NEW op \in Op, NEW t \in Ticket, Issue(c, op, t)
  PROVE  Inv'
<1> DEFINE row == [caller |-> c, op |-> op, expires |-> now + TtlFor(op),
                   approved |-> FALSE, consumed |-> FALSE]
<1>1. row \in Row
  BY DEF Row, TtlFor, Inv, TypesOK
<1>2. /\ pending' = [pending EXCEPT ![t] = row]
      /\ issued[t] = NoTicket
      /\ issued' = [issued EXCEPT ![t] = [caller |-> c, op |-> op]]
      /\ UNCHANGED <<now, signatures, approving, pushed, executed, runs>>
  BY DEF Issue, Create
<1>3. /\ pending'[t] = row /\ issued'[t] = [caller |-> c, op |-> op]
      /\ \A u \in Ticket \ {t} : pending'[u] = pending[u] /\ issued'[u] = issued[u]
  BY <1>2 DEF Inv, TypesOK
<1>4. TypesOK'
  BY <1>1, <1>2 DEF Inv, TypesOK, Issued
<1>5. /\ \A u \in Ticket : Exists(pending, u) => u # t
      /\ \A a \in approving : a.ticket # t
      /\ \A r \in executed : r.ticket # t
      /\ runs[t] = 0
  <2>1. ASSUME NEW x \in Caller, NEW y \in Op
        PROVE  issued[t] # [caller |-> x, op |-> y]
    <3>1. [caller |-> x, op |-> y] \in [caller : Caller, op : Op]
      OBVIOUS
    <3>2. QED
      BY <1>2, <3>1 DEF InMemoryAssumption
  <2>2. ~Exists(pending, t)
    <3>1. SUFFICES ASSUME Exists(pending, t) PROVE FALSE
      OBVIOUS
    <3>2. pending[t] \in Row /\ issued[t] = [caller |-> pending[t].caller, op |-> pending[t].op]
      BY <3>1 DEF Inv, RowsBound, Genuine
    <3>3. QED
      BY <2>1, <3>2, RowsTyped
  <2>3. ASSUME NEW a \in approving, a.ticket = t PROVE FALSE
    <3>1. a.row \in Row /\ issued[t] = [caller |-> a.row.caller, op |-> a.row.op]
      BY <2>3 DEF Inv, RowsBound, Genuine
    <3>2. QED
      BY <2>1, <3>1, RowsTyped
  <2>4. ASSUME NEW r \in executed, r.ticket = t PROVE FALSE
    <3>1. r.caller \in Caller /\ r.op \in Op
      BY DEF Inv, TypesOK, Request
    <3>2. issued[t] = [caller |-> r.caller, op |-> r.op]
      BY <2>4 DEF Inv, Authorised
    <3>3. QED
      BY <2>1, <3>1, <3>2
  <2>5. runs[t] = 0
    BY <1>2 DEF Inv, UsedMeansGone, TypesOK
  <2>6. QED
    BY <2>2, <2>3, <2>4, <2>5
<1>6. RowsBound'
  BY <1>1, <1>2, <1>3, <1>5 DEF Inv, RowsBound, Exists, Genuine, Signed
<1>7. Authorised'
  <2>1. ASSUME NEW r \in executed
        PROVE  r.ticket \in Ticket \ {t} /\ issued'[r.ticket] = issued[r.ticket]
    BY <1>3, <1>5 DEF Inv, TypesOK, Request
  <2>2. QED
    BY <1>2, <2>1 DEF Inv, Authorised
<1>8. UsedMeansGone'
  BY <1>2, <1>3, <1>5 DEF Inv, UsedMeansGone, Exists
<1>9. QED
  BY <1>4, <1>6, <1>7, <1>8 DEF Inv

(* The lock keeps the tool's approve call away while a write tool consumes. *)
LEMMA ConsumeStep ==
  ASSUME Inv, NEW c \in Caller, NEW op \in Op, NEW t \in Ticket, Consume(c, op, t)
  PROVE  Inv'
<1>1. /\ pending' = [pending EXCEPT ![t] = NoRow]
      /\ executed' = executed \cup {[ticket |-> t, caller |-> c, op |-> op]}
      /\ runs' = [runs EXCEPT ![t] = IF @ < 2 THEN @ + 1 ELSE @]
      /\ UNCHANGED <<now, signatures, approving, pushed, issued>>
  BY DEF Consume, Delete
<1>2. /\ Exists(pending, t) /\ issued[t] = [caller |-> c, op |-> op]
      /\ op \in OwnerOp => Signed(t)
  BY DEF Consume, Consumable, Live, IssuedTo, CoSigned, Inv, RowsBound, Genuine
<1>3. /\ pending'[t] = NoRow
      /\ \A u \in Ticket \ {t} : pending'[u] = pending[u] /\ runs'[u] = runs[u]
  BY <1>1 DEF Inv, TypesOK
<1>4. TypesOK'
  BY <1>1 DEF Inv, TypesOK, Request
<1>5. RowsBound'
  BY <1>1, <1>3 DEF Inv, RowsBound, Exists, Genuine, Signed
<1>6. Authorised'
  <2>1. SUFFICES ASSUME NEW r \in executed'
                 PROVE  /\ issued[r.ticket] = [caller |-> r.caller, op |-> r.op]
                        /\ r.op \in OwnerOp => Signed(r.ticket)
    BY <1>1 DEF Authorised, Signed
  <2>2. CASE r \in executed
    BY <2>2 DEF Inv, Authorised, Signed
  <2>3. CASE r = [ticket |-> t, caller |-> c, op |-> op]
    BY <1>2, <2>3
  <2>4. QED
    BY <1>1, <2>2, <2>3
<1>7. ASSUME t \notin pushed, op \notin LocalOp
      PROVE  runs[t] = 0 /\ \A a \in approving : a.ticket # t
  <2>1. LockFree
    BY <1>7 DEF Consume, MayRun
  <2>2. \A a \in approving : a.ticket # t
    BY <1>7, <2>1 DEF LockFree, Inv, UsedMeansGone
  <2>3. issued[t].op = op
    BY <1>2
  <2>4. ~(runs[t] > 0)
    BY <1>2, <1>7, <2>3 DEF Inv, UsedMeansGone
  <2>5. QED
    BY <2>2, <2>4 DEF Inv, TypesOK
<1>8. /\ runs[t] = 0 => runs'[t] = 1
      /\ issued[t] # NoTicket /\ issued[t].op = op
  BY <1>1, <1>2 DEF Inv, TypesOK
<1>9. UsedMeansGone'
  BY <1>1, <1>3, <1>7, <1>8 DEF Inv, UsedMeansGone, Exists
<1>10. QED
  BY <1>4, <1>5, <1>6, <1>9 DEF Inv

LEMMA SignStep ==
  ASSUME Inv, NEW s \in Caller, NEW t \in Ticket, SignApproval(s, t)
  PROVE  Inv'
<1>1. signatures' = signatures \cup {[signer |-> s, ticket |-> t]}
      /\ UNCHANGED <<pending, now, approving, pushed, issued, executed, runs>>
  BY DEF SignApproval
<1>2. TypesOK'
  BY <1>1 DEF Inv, TypesOK, Approval
<1>3. QED
  BY <1>1, <1>2 DEF Inv, RowsBound, Authorised, UsedMeansGone, Genuine, Signed, Exists

(* What is read is genuine and the event is the owner's for this ticket.    *)
LEMMA BeginApproveStep ==
  ASSUME Inv, NEW e \in signatures, NEW t \in Ticket, NEW route \in {"tool", "push"},
         BeginApprove(e, t, route)
  PROVE  Inv'
<1>1. /\ approving' = approving \cup {[ticket |-> t, row |-> pending[t], route |-> route]}
      /\ pushed' = Pushed(t, route)
      /\ UNCHANGED <<pending, now, signatures, issued, executed, runs>>
  BY DEF BeginApprove
<1>2. Exists(pending, t) /\ e.signer = Owner /\ e.ticket = t
  BY DEF BeginApprove, Live, OwnerSigned
<1>3. Signed(t)
  BY <1>2 DEF Inv, TypesOK, Approval, Signed
<1>4. pushed \subseteq pushed' /\ (route = "push" => t \in pushed')
  BY <1>1 DEF Pushed
<1>5. TypesOK' /\ Authorised'
  BY <1>1 DEF Inv, TypesOK, Authorised
<1>6. RowsBound'
  BY <1>1, <1>2, <1>3 DEF Inv, RowsBound, Exists, Genuine, Signed
<1>7. UsedMeansGone'
  BY <1>1, <1>2, <1>4 DEF Inv, UsedMeansGone, Exists
<1>8. QED
  BY <1>5, <1>6, <1>7 DEF Inv

(* What is stored is for what the ticket was issued for, whatever became of *)
(* the ticket since; and a ticket that was used is in no approve call.      *)
LEMMA StoreStep ==
  ASSUME Inv, NEW a \in approving, StoreApproval(a)
  PROVE  Inv'
<1>0. PICK t \in Ticket : a.ticket = t
  BY DEF Inv, RowsBound
<1> DEFINE row == [a.row EXCEPT !.approved = TRUE]
<1>1. /\ pending' = [pending EXCEPT ![t] = row]
      /\ approving' = approving \ {a}
      /\ UNCHANGED <<now, signatures, pushed, issued, executed, runs>>
  BY <1>0 DEF StoreApproval
<1>2. a.row \in Row /\ issued[t] = [caller |-> a.row.caller, op |-> a.row.op] /\ Signed(t)
  BY <1>0 DEF Inv, RowsBound, Genuine
<1>3. row \in Row /\ row.caller = a.row.caller /\ row.op = a.row.op
  BY <1>2 DEF Row
<1>4. pending'[t] = row /\ \A u \in Ticket \ {t} : pending'[u] = pending[u]
  BY <1>1 DEF Inv, TypesOK
<1>5. TypesOK' /\ Authorised'
  BY <1>1, <1>3 DEF Inv, TypesOK, Authorised
<1>6. RowsBound'
  BY <1>1, <1>2, <1>3, <1>4 DEF Inv, RowsBound, Exists, Genuine, Signed
<1>7. UsedMeansGone'
  BY <1>0, <1>1, <1>4 DEF Inv, UsedMeansGone, Exists
<1>8. QED
  BY <1>5, <1>6, <1>7 DEF Inv

LEMMA RestartStep == ASSUME Inv, Restart PROVE Inv'
<1>1. /\ pending' = [t \in Ticket |-> NoRow]
      /\ approving' = {}
      /\ pushed' = {t \in Ticket : issued[t] # NoTicket}
      /\ UNCHANGED <<now, signatures, issued, executed, runs>>
  BY DEF Restart
<1>2. TypesOK' /\ Authorised'
  BY <1>1 DEF Inv, TypesOK, Authorised
<1>3. RowsBound'
  BY <1>1 DEF Inv, RowsBound, Exists
<1>4. UsedMeansGone'
  BY <1>1 DEF Inv, UsedMeansGone
<1>5. QED
  BY <1>2, <1>3, <1>4 DEF Inv

LEMMA InvStep == ASSUME Inv, [Next]_vars PROVE Inv'
<1> USE DEF Inv
<1>1. ASSUME NEW c \in Caller, NEW op \in Op, NEW t \in Ticket, ConsumeFails(c, op, t)
      PROVE  Inv'
  BY <1>1, Removals, Quiet DEF ConsumeFails, TypesOK
<1>2. ASSUME NEW t \in Ticket, Peek(t) PROVE Inv'
  <2>1. Removal
    BY <1>2 DEF Peek, Removal, TypesOK, CheckLive, Delete
  <2>2. QED
    BY <1>2, <2>1, Quiet DEF Peek, TypesOK
<1>3. ASSUME NEW e \in signatures, NEW t \in Ticket, NEW route \in {"tool", "push"},
             ApproveFails(e, t, route)
      PROVE  Inv'
  <2>1. Removal
    BY <1>3 DEF ApproveFails, Removal, TypesOK, CheckLive, Delete
  <2>2. pushed \subseteq pushed'
    BY <1>3 DEF ApproveFails, Pushed
  <2>3. QED
    BY <1>3, <2>1, <2>2, Quiet DEF ApproveFails, TypesOK
<1>4. CASE Tick \/ UNCHANGED vars
  <2>1. Removal /\ now' \in Nat
    BY <1>4 DEF Tick, vars, Removal, TypesOK
  <2>2. QED
    BY <1>4, <2>1, Quiet DEF Tick, vars
<1>5. QED
  BY <1>1, <1>2, <1>3, <1>4, IssueStep, ConsumeStep, SignStep, BeginApproveStep,
     StoreStep, RestartStep DEF Next

LEMMA InvHolds == Spec => []Inv
<1>1. Init => Inv
  BY DEF Init, Inv, TypesOK, RowsBound, Authorised, UsedMeansGone, Exists
<1>2. Inv /\ [Next]_vars => Inv'
  BY InvStep
<1>3. QED
  BY <1>1, <1>2, PTL DEF Spec

(* A tool body runs only for the identity and the arguments its ticket was  *)
(* issued for and, if guarded, after the owner signed for that ticket - even*)
(* through a ticket that an approval brought back (confirmation.py:233).    *)
THEOREM OnlyAuthorisedRuns == Spec => []Authorised
BY InvHolds, PTL DEF Inv

(* A ticket of a write tool that no push thread was at lets one body run:   *)
(* the approve_operation tool and the write tools share the WriteLock.      *)
THEOREM LockedTicketsRunOnce == Spec => []OneShotUnderLock
<1>1. Inv => OneShotUnderLock
  BY DEF Inv, TypesOK, UsedMeansGone, OneShotUnderLock
<1>2. QED
  BY <1>1, InvHolds, PTL
=============================================================================
