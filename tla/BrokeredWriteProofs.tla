------------------------ MODULE BrokeredWriteProofs ------------------------
(***************************************************************************)
(* Proofs about BrokeredWrite for every set of tickets, identities,        *)
(* operations and broker threads, and every value of the two TTLs.         *)
(***************************************************************************)
EXTENDS BrokeredWrite, TLAPS

USE StoreAssumption, NoRowAssumption, WriteAssumption

Table == [Ticket -> Row \cup {NoRow}]

-----------------------------------------------------------------------------
(* The methods of the store.                                               *)

(* Every method leaves a table behind. *)
LEMMA StoreTyping ==
  ASSUME NEW db \in Table, NEW t \in Ticket, NEW c \in Caller, NEW op \in Op,
         NEW n \in Nat, NEW e \in Approval
  PROVE  /\ Delete(db, t) \in Table
         /\ CheckLive(db, t, n) \in Table
         /\ Create(db, t, c, op, n) \in Table
         /\ Approve(db, e, t, n) \in Table
         /\ Exists(db, t) => Claim(db, t) \in Table
         /\ ConsumeRefused(db, t, c, op, n) \in Table
         /\ Revert(db, t) \in Table
<1>1. Delete(db, t) \in Table
  BY DEF Table, Delete
<1>2. CheckLive(db, t, n) \in Table /\ ConsumeRefused(db, t, c, op, n) \in Table
  BY <1>1 DEF CheckLive, ConsumeRefused
<1>3. Create(db, t, c, op, n) \in Table
  BY DEF Table, Create, Row, TtlFor
<1>4. ASSUME Exists(db, t)
      PROVE  /\ [db EXCEPT ![t].approved = TRUE] \in Table
             /\ [db EXCEPT ![t].consumed = TRUE] \in Table
             /\ [db EXCEPT ![t].consumed = FALSE] \in Table
  BY <1>4 DEF Exists, Table, Row
<1>5. QED
  BY <1>1, <1>2, <1>3, <1>4 DEF Approve, Claim, Revert, Peekable, Live

(* Looking a ticket up, or refusing to consume it, changes no row except    *)
(* that it may remove that ticket's.                                        *)
LEMMA StoreRemovals ==
  ASSUME NEW db \in Table, NEW t \in Ticket, NEW c \in Caller, NEW op \in Op,
         NEW n \in Nat, NEW u \in Ticket
  PROVE  /\ Delete(db, t)[u] = IF u = t THEN NoRow ELSE db[u]
         /\ CheckLive(db, t, n)[u] \in {db[u], NoRow}
         /\ ConsumeRefused(db, t, c, op, n)[u] \in {db[u], NoRow}
BY DEF Table, Delete, CheckLive, ConsumeRefused

(* A row keeps what its ticket was issued for, and until when it lives. *)
SameIssue(old, new) ==
  new.caller = old.caller /\ new.op = old.op /\ new.expires = old.expires

(* The methods that write a row write one column of one row. *)
LEMMA ClaimUpdate ==
  ASSUME NEW db \in Table, NEW t \in Ticket, Exists(db, t)
  PROVE  /\ \A u \in Ticket \ {t} : Claim(db, t)[u] = db[u]
         /\ Claim(db, t)[t] \in Row
         /\ SameIssue(db[t], Claim(db, t)[t])
         /\ Claim(db, t)[t].approved = db[t].approved
         /\ Claim(db, t)[t].consumed
BY DEF Table, Row, Claim, Exists, SameIssue

LEMMA RevertUpdate ==
  ASSUME NEW db \in Table, NEW t \in Ticket
  PROVE  /\ \A u \in Ticket \ {t} : Revert(db, t)[u] = db[u]
         /\ ~Exists(db, t) => Revert(db, t)[t] = NoRow
         /\ Exists(db, t) =>
              /\ Revert(db, t)[t] \in Row
              /\ SameIssue(db[t], Revert(db, t)[t])
              /\ Revert(db, t)[t].approved = db[t].approved
              /\ ~Revert(db, t)[t].consumed
BY DEF Table, Row, Revert, Exists, SameIssue

(* An approval removes a lapsed row, marks the row its event names, or does *)
(* nothing.                                                                 *)
LEMMA ApproveUpdate ==
  ASSUME NEW db \in Table, NEW t \in Ticket, NEW e \in Approval, NEW n \in Nat
  PROVE  /\ \A u \in Ticket \ {t} : Approve(db, e, t, n)[u] = db[u]
         /\ \/ Approve(db, e, t, n)[t] \in {db[t], NoRow}
            \/ /\ Exists(db, t)
               /\ ~db[t].consumed
               /\ OwnerSigned(e, t)
               /\ Approve(db, e, t, n)[t] \in Row
               /\ SameIssue(db[t], Approve(db, e, t, n)[t])
               /\ Approve(db, e, t, n)[t].approved
               /\ ~Approve(db, e, t, n)[t].consumed
<1>1. CASE Peekable(db, t, n) /\ OwnerSigned(e, t)
  BY <1>1 DEF Approve, Table, Row, Peekable, Live, Exists, SameIssue
<1>2. CASE ~(Peekable(db, t, n) /\ OwnerSigned(e, t))
  BY <1>2 DEF Approve, CheckLive, Delete, Table
<1>3. QED BY <1>1, <1>2

-----------------------------------------------------------------------------
(* Type correctness.                                                       *)

(* How far in the future a row may lapse. *)
Lapses(db, n) ==
  \A t \in Ticket : Exists(db, t) => db[t].expires <= n + TtlFor(db[t].op)

LEMMA TtlTyping == ASSUME NEW op \in Op PROVE TtlFor(op) \in Nat
BY DEF TtlFor

(* A method that removes rows, or rewrites flags of rows it keeps, leaves   *)
(* every row lapsing when it did.                                           *)
LEMMA LapsesKept ==
  ASSUME NEW db \in Table, NEW new \in Table, NEW n \in Nat, Lapses(db, n),
         \A t \in Ticket : \/ new[t] \in {db[t], NoRow}
                           \/ Exists(db, t) /\ SameIssue(db[t], new[t])
  PROVE  Lapses(new, n)
BY DEF Lapses, Exists, SameIssue

(* A step that at most removes the row of t. *)
Removal(t) ==
  \/ rows' = rows
  \/ rows' = Delete(rows, t)
  \/ rows' = CheckLive(rows, t, now)
  \/ \E c \in Caller, op \in Op : rows' = ConsumeRefused(rows, t, c, op, now)

LEMMA RemovalStep ==
  ASSUME TypeOK, NEW t \in Ticket, Removal(t)
  PROVE  /\ rows' \in Table
         /\ \A u \in Ticket : rows'[u] \in {rows[u], NoRow}
BY DEF TypeOK, Table, Removal, Delete, CheckLive, ConsumeRefused

(* The part of TypeOK that is about the table and the clock. *)
TableOK == rows \in Table /\ now \in 0..MaxTime /\ Lapses(rows, now)

(* The part about everything else. *)
RestOK ==
  /\ signatures \subseteq Approval
  /\ call \in Call \cup {NoCall}
  /\ job \in [Worker -> Job \cup {NoJob}]
  /\ issued \in [Ticket -> Issue \cup {NoTicket}]
  /\ executed \subseteq Request
  /\ runs \in [Ticket -> 0..2]

LEMMA TypeParts ==
  (TypeOK <=> TableOK /\ RestOK) /\ (TypeOK' <=> TableOK' /\ RestOK')
BY DEF TypeOK, TableOK, RestOK, Lapses, Table

LEMMA TypeInit == Init => TypeOK
BY DEF Init, TypeOK, Exists

(* A step that only removes rows, and does not move the clock. *)
LEMMA TableRemoval ==
  ASSUME TypeOK, NEW t \in Ticket, Removal(t), now' = now
  PROVE  TableOK'
<1>1. TableOK
  BY TypeParts
<1>2. rows' \in Table /\ \A u \in Ticket : rows'[u] \in {rows[u], NoRow}
  BY RemovalStep
<1>3. Lapses(rows', now)
  BY <1>1, <1>2, LapsesKept DEF TableOK
<1>4. QED BY <1>1, <1>2, <1>3 DEF TableOK

LEMMA FrontendType == TypeOK /\ Frontend => TypeOK'
<1> SUFFICES ASSUME TypeOK, Frontend PROVE TypeOK'
  OBVIOUS
<1>0. TableOK /\ RestOK
  BY TypeParts
<1>1. ASSUME NEW t \in Ticket, ApprovalStatus(t) PROVE TypeOK'
  <2>1. TableOK'
    BY <1>1, TableRemoval DEF ApprovalStatus, Removal
  <2>2. QED BY <2>1, <1>0, <1>1, TypeParts DEF ApprovalStatus, RestOK
<1>2. ASSUME NEW c \in Caller, NEW op \in Op, NEW t \in Ticket,
             IssueTicket(c, op, t)
      PROVE  TypeOK'
  <2>1. rows' \in Table
    BY <1>0, <1>2 DEF IssueTicket, TableOK, Table, Create, Row, TtlFor
  <2>2. Lapses(rows', now)
    BY <1>0, <1>2, TtlTyping
       DEF IssueTicket, TableOK, Lapses, Table, Create, Exists
  <2>3. QED
    BY <2>1, <2>2, <1>0, <1>2, TypeParts DEF IssueTicket, TableOK, RestOK, Issue
<1>3. ASSUME NEW c \in Caller, NEW op \in Op, NEW t \in Ticket,
             PresentTicket(c, op, t)
      PROVE  TypeOK'
  <2>1. TableOK'
    BY <1>3, TableRemoval DEF PresentTicket, Removal
  <2>2. QED BY <2>1, <1>0, <1>3, TypeParts DEF PresentTicket, RestOK, Call
<1>4. ASSUME NEW c \in Caller, NEW op \in Op, NEW t \in Ticket,
             AuditRead(c, op, t)
      PROVE  TypeOK'
  <2>1. TableOK'
    BY <1>4, TableRemoval DEF AuditRead, Removal
  <2>2. QED
    BY <2>1, <1>0, <1>4, TypeParts DEF AuditRead, RestOK, Request, CountRun
<1>5. ASSUME NEW c \in Caller, NEW op \in Op, NEW t \in Ticket,
             AuditReadRefused(c, op, t)
      PROVE  TypeOK'
  <2>1. TableOK'
    BY <1>5, TableRemoval DEF AuditReadRefused, Removal
  <2>2. QED BY <2>1, <1>0, <1>5, TypeParts DEF AuditReadRefused, RestOK
<1>6. ASSUME NEW w \in Worker, Forward(w) PROVE TypeOK'
  <2>1. TableOK'
    BY <1>0, <1>6 DEF Forward, TableOK
  <2>2. RestOK'
    BY <1>0, <1>6 DEF Forward, RestOK, Call, Job, Stage
  <2>3. QED BY <2>1, <2>2, TypeParts
<1>7. ASSUME GiveUp PROVE TypeOK'
  BY <1>0, <1>7, TypeParts DEF GiveUp, TableOK, RestOK
<1>8. QED
  BY <1>1, <1>2, <1>3, <1>4, <1>5, <1>6, <1>7 DEF Frontend

LEMMA ApprovingType == TypeOK /\ Approving => TypeOK'
<1> SUFFICES ASSUME TypeOK, Approving PROVE TypeOK'
  OBVIOUS
<1>0. TableOK /\ RestOK
  BY TypeParts
<1>1. ASSUME NEW s \in Caller, NEW t \in Ticket, SignApproval(s, t)
      PROVE  TypeOK'
  BY <1>0, <1>1, TypeParts DEF SignApproval, TableOK, RestOK, Approval
<1>2. ASSUME NEW e \in signatures, NEW t \in Ticket,
             ApproveOperation(e, t) \/ PushApproval(e, t)
      PROVE  TypeOK'
  <2>0. rows' = Approve(rows, e, t, now) /\ e \in Approval /\ now \in Nat
    BY <1>0, <1>2 DEF ApproveOperation, PushApproval, RestOK, TableOK
  <2>1. \A u \in Ticket : \/ rows'[u] \in {rows[u], NoRow}
                          \/ /\ Exists(rows, u)
                             /\ rows'[u] \in Row
                             /\ SameIssue(rows[u], rows'[u])
    BY <1>0, <2>0, ApproveUpdate DEF TableOK
  <2>2. rows' \in Table
    BY <1>0, <2>0 DEF TableOK, Table, Approve, CheckLive, Delete, Row, Peekable,
       Live, Exists
  <2>3. Lapses(rows', now)
    BY <1>0, <2>0, <2>1, <2>2, LapsesKept DEF TableOK
  <2>4. QED
    BY <2>2, <2>3, <1>0, <1>2, TypeParts
       DEF ApproveOperation, PushApproval, TableOK, RestOK
<1>3. QED
  BY <1>1, <1>2 DEF Approving

(* A thread that moves to another stage, or ends, stays well typed. *)
LEMMA AdvanceType ==
  ASSUME NEW w \in Worker, RestOK, NEW s \in Stage, job[w] # NoJob, Advance(w, s)
  PROVE  job' \in [Worker -> Job \cup {NoJob}]
BY DEF Advance, RestOK, Job

LEMMA AnswerType ==
  ASSUME NEW w \in Worker, RestOK, Answer(w)
  PROVE  /\ job' \in [Worker -> Job \cup {NoJob}]
         /\ call' \in Call \cup {NoCall}
BY DEF Answer, RestOK

LEMMA HandleType == ASSUME TypeOK, NEW w \in Worker, Handle(w) PROVE TypeOK'
<1>0. TableOK /\ RestOK
  BY TypeParts
<1>1. job[w] # NoJob => job[w] \in Job
  BY <1>0 DEF RestOK
<1> USE <1>0, TypeParts
<1>2. CASE Deny(w) \/ RevertFaults(w) \/ SendResult(w)
  BY <1>2, AnswerType
     DEF Deny, RevertFaults, SendResult, TableOK, RestOK
<1>3. CASE ConsumeTicket(w)
  <2> DEFINE j == job[w]
  <2>0. j \in Job /\ Exists(rows, j.ticket) /\ rows' = Claim(rows, j.ticket)
    BY <1>1, <1>3
       DEF ConsumeTicket, AtStage, Claimable, Consumable, Live
  <2>1. /\ rows' \in Table
        /\ \A u \in Ticket : \/ rows'[u] = rows[u]
                             \/ /\ Exists(rows, u)
                                /\ SameIssue(rows[u], rows'[u])
    BY <2>0, ClaimUpdate DEF TableOK, Table, Claim, Job, Row, Exists
  <2>2. Lapses(rows', now)
    BY <2>1, LapsesKept DEF TableOK
  <2>3. job' \in [Worker -> Job \cup {NoJob}]
    BY <1>3, AdvanceType DEF ConsumeTicket, AtStage, Stage
  <2>4. QED
    BY <2>1, <2>2, <2>3, <1>3 DEF ConsumeTicket, TableOK, RestOK
<1>4. CASE RefuseTicket(w)
  <2>1. TableOK'
    BY <1>1, <1>4, TableRemoval DEF RefuseTicket, AtStage, Job, Removal
  <2>2. QED
    BY <2>1, <1>4, AnswerType DEF RefuseTicket, RestOK
<1>5. CASE BeginInvoke(w) \/ InvokeRaises(w) \/ FinalizeFaults(w)
  <2>1. job' \in [Worker -> Job \cup {NoJob}]
    BY <1>5, AdvanceType
       DEF BeginInvoke, InvokeRaises, FinalizeFaults, AtStage, Stage
  <2>2. QED
    BY <2>1, <1>5
       DEF BeginInvoke, InvokeRaises, FinalizeFaults, TableOK, RestOK
<1>6. CASE InvokeReturns(w)
  <2>1. job' \in [Worker -> Job \cup {NoJob}]
    BY <1>6, AdvanceType DEF InvokeReturns, AtStage, Stage
  <2>2. executed' \subseteq Request /\ runs' \in [Ticket -> 0..2]
    BY <1>1, <1>6
       DEF InvokeReturns, AtStage, RestOK, Request, Job, CountRun
  <2>3. QED
    BY <2>1, <2>2, <1>6 DEF InvokeReturns, TableOK, RestOK
<1>7. CASE Finalize(w)
  <2>1. TableOK'
    BY <1>1, <1>7, TableRemoval DEF Finalize, AtStage, Job, Removal
  <2>2. job' \in [Worker -> Job \cup {NoJob}]
    BY <1>7, AdvanceType DEF Finalize, AtStage, Stage
  <2>3. QED
    BY <2>1, <2>2, <1>7 DEF Finalize, RestOK
<1>8. CASE RevertClaim(w)
  <2> DEFINE t == job[w].ticket
  <2>0. t \in Ticket /\ rows' = Revert(rows, t)
    BY <1>1, <1>8 DEF RevertClaim, AtStage, Job
  <2>1. /\ rows' \in Table
        /\ \A u \in Ticket : \/ rows'[u] \in {rows[u], NoRow}
                             \/ /\ Exists(rows, u)
                                /\ SameIssue(rows[u], rows'[u])
    BY <2>0, RevertUpdate DEF TableOK, Table, Revert, Row, Exists
  <2>2. Lapses(rows', now)
    BY <2>1, LapsesKept DEF TableOK
  <2>3. QED
    BY <2>1, <2>2, <1>8, AnswerType DEF RevertClaim, TableOK, RestOK
<1>9. QED
  BY <1>2, <1>3, <1>4, <1>5, <1>6, <1>7, <1>8 DEF Handle

LEMMA TypeStep == TypeOK /\ [Next]_vars => TypeOK'
<1> SUFFICES ASSUME TypeOK, [Next]_vars PROVE TypeOK'
  OBVIOUS
<1>0. TableOK /\ RestOK
  BY TypeParts
<1>1. CASE BrokerCrash
  BY <1>0, <1>1, TypeParts DEF BrokerCrash, TableOK, RestOK
<1>2. CASE Tick
  <2>1. now' \in 0..MaxTime
    BY <1>0, <1>2 DEF Tick, TableOK
  <2>2. ASSUME NEW t \in Ticket, Exists(rows, t)
        PROVE  rows[t].expires <= now' + TtlFor(rows[t].op)
    <3>1. rows[t] \in Row /\ rows[t].op \in Op
      BY <1>0, <2>2 DEF TableOK, Table, Exists, Row
    <3>2. rows[t].expires \in Nat /\ TtlFor(rows[t].op) \in Nat
      BY <3>1, TtlTyping DEF Row
    <3>3. QED
      BY <1>0, <1>2, <2>2, <3>2 DEF Tick, TableOK, Lapses
  <2>3. QED
    BY <1>0, <1>2, <2>1, <2>2, TypeParts DEF Tick, TableOK, RestOK, Lapses
<1>3. CASE UNCHANGED vars
  BY <1>0, <1>3, TypeParts DEF vars, TableOK, RestOK
<1>4. QED
  BY <1>1, <1>2, <1>3, FrontendType, ApprovingType, HandleType DEF Next

(* Type correctness: the code keeps every variable in its type, and no row  *)
(* lapses later than its TTL after the present.                             *)
THEOREM TypeCorrect == Spec => []TypeOK
<1>1. QED
  BY TypeInit, TypeStep, PTL DEF Spec

-----------------------------------------------------------------------------
(* What a step can do to one row, to one claim and to the history.         *)

(* A ticket issued in this step. *)
RowIssued(t) ==
  /\ issued[t] = NoTicket
  /\ rows'[t] \in Row
  /\ issued'[t] = [caller |-> rows'[t].caller, op |-> rows'[t].op]
  /\ ~rows'[t].approved
  /\ ~rows'[t].consumed

RowApproved(t) ==
  /\ Exists(rows, t)
  /\ ~rows[t].consumed
  /\ [signer |-> Owner, ticket |-> t] \in signatures
  /\ rows'[t] \in Row
  /\ SameIssue(rows[t], rows'[t])
  /\ rows'[t].approved
  /\ ~rows'[t].consumed

RowClaimed(w, t) ==
  /\ ConsumeTicket(w)
  /\ job[w].ticket = t
  /\ Exists(rows, t)
  /\ rows'[t] \in Row
  /\ SameIssue(rows[t], rows'[t])
  /\ rows'[t].approved = rows[t].approved
  /\ rows'[t].consumed

RowReverted(w, t) ==
  /\ RevertClaim(w)
  /\ job[w].ticket = t
  /\ Exists(rows, t)
  /\ rows'[t] \in Row
  /\ SameIssue(rows[t], rows'[t])
  /\ rows'[t].approved = rows[t].approved
  /\ ~rows'[t].consumed

LEMMA RowStep ==
  ASSUME TypeOK, [Next]_vars, NEW t \in Ticket
  PROVE  \/ rows'[t] \in {rows[t], NoRow}
         \/ RowIssued(t)
         \/ RowApproved(t)
         \/ \E w \in Worker : RowClaimed(w, t) \/ RowReverted(w, t)
<1>0. rows \in Table /\ now \in Nat
  BY DEF TypeOK, Table
<1>1. ASSUME NEW u \in Ticket, Removal(u) PROVE rows'[t] \in {rows[t], NoRow}
  BY <1>1, RemovalStep
<1>2. ASSUME NEW c \in Caller, NEW op \in Op, NEW u \in Ticket,
             IssueTicket(c, op, u)
      PROVE  rows'[t] = rows[t] \/ RowIssued(t)
  BY <1>0, <1>2
     DEF IssueTicket, Create, Table, Row, TtlFor, RowIssued, TypeOK
<1>3. ASSUME NEW e \in signatures, NEW u \in Ticket, rows' = Approve(rows, e, u, now)
      PROVE  rows'[t] \in {rows[t], NoRow} \/ RowApproved(t)
  <2>1. e \in Approval
    BY DEF TypeOK
  <2>2. OwnerSigned(e, u) => e = [signer |-> Owner, ticket |-> u]
    BY <2>1 DEF OwnerSigned, Approval
  <2>3. QED
    BY <1>0, <1>3, <2>1, <2>2, ApproveUpdate DEF RowApproved
<1>4. ASSUME NEW w \in Worker, ConsumeTicket(w)
      PROVE  rows'[t] = rows[t] \/ RowClaimed(w, t)
  <2>1. /\ job[w].ticket \in Ticket
        /\ Exists(rows, job[w].ticket)
        /\ rows' = Claim(rows, job[w].ticket)
    BY <1>4 DEF ConsumeTicket, AtStage, TypeOK, Job, Claimable, Consumable, Live
  <2>2. QED
    BY <1>0, <1>4, <2>1, ClaimUpdate DEF RowClaimed
<1>5. ASSUME NEW w \in Worker, RevertClaim(w)
      PROVE  rows'[t] \in {rows[t], NoRow} \/ RowReverted(w, t)
  <2>1. job[w].ticket \in Ticket /\ rows' = Revert(rows, job[w].ticket)
    BY <1>5 DEF RevertClaim, AtStage, TypeOK, Job
  <2>2. QED
    BY <1>0, <1>5, <2>1, RevertUpdate DEF RowReverted
<1>6. CASE Frontend
  <2>1. ASSUME NEW u \in Ticket, ApprovalStatus(u) PROVE Removal(u)
    BY <2>1 DEF ApprovalStatus, Removal
  <2>2. ASSUME NEW c \in Caller, NEW op \in Op, NEW u \in Ticket,
               \/ PresentTicket(c, op, u)
               \/ AuditRead(c, op, u)
               \/ AuditReadRefused(c, op, u)
        PROVE  Removal(u)
    BY <2>2 DEF PresentTicket, AuditRead, AuditReadRefused, Removal
  <2>3. ASSUME (\E w \in Worker : Forward(w)) \/ GiveUp PROVE rows' = rows
    BY <2>3 DEF Forward, GiveUp
  <2>4. QED
    BY <1>1, <1>2, <1>6, <2>1, <2>2, <2>3 DEF Frontend
<1>7. CASE Approving
  BY <1>3, <1>7 DEF Approving, SignApproval, ApproveOperation, PushApproval
<1>8. ASSUME NEW w \in Worker, Handle(w)
      PROVE  \/ rows'[t] \in {rows[t], NoRow}
             \/ RowClaimed(w, t) \/ RowReverted(w, t)
  <2>1. CASE RefuseTicket(w) \/ Finalize(w)
    <3>1. /\ job[w].ticket \in Ticket
          /\ job[w].caller \in Caller
          /\ job[w].op \in Op
      BY <2>1 DEF RefuseTicket, Finalize, AtStage, TypeOK, Job
    <3>2. Removal(job[w].ticket)
      BY <2>1, <3>1 DEF RefuseTicket, Finalize, Removal
    <3>3. QED BY <1>1, <3>1, <3>2
  <2>2. CASE ConsumeTicket(w) \/ RevertClaim(w)
    BY <1>4, <1>5, <2>2
  <2>3. CASE \/ Deny(w) \/ BeginInvoke(w) \/ InvokeReturns(w)
             \/ InvokeRaises(w) \/ FinalizeFaults(w) \/ RevertFaults(w)
             \/ SendResult(w)
    BY <2>3 DEF Deny, BeginInvoke, InvokeReturns, InvokeRaises,
       FinalizeFaults, RevertFaults, SendResult
  <2>4. QED
    BY <1>8, <2>1, <2>2, <2>3 DEF Handle
<1>9. CASE BrokerCrash \/ Tick \/ UNCHANGED vars
  BY <1>9 DEF BrokerCrash, Tick, vars
<1>10. QED
  BY <1>6, <1>7, <1>8, <1>9 DEF Next

(* Signatures are never unmade, and a ticket is issued once. *)
LEMMA HistoryStep ==
  ASSUME TypeOK, [Next]_vars
  PROVE  /\ signatures \subseteq signatures'
         /\ \A t \in Ticket : issued[t] # NoTicket => issued'[t] = issued[t]
<1>1. CASE Frontend
  BY <1>1 DEF Frontend, ApprovalStatus, IssueTicket, PresentTicket, AuditRead,
     AuditReadRefused, Forward, GiveUp, TypeOK
<1>2. CASE Approving
  BY <1>2 DEF Approving, SignApproval, ApproveOperation, PushApproval
<1>3. ASSUME NEW w \in Worker, Handle(w)
      PROVE  signatures' = signatures /\ issued' = issued
  BY <1>3 DEF Handle, Deny, ConsumeTicket, RefuseTicket, BeginInvoke,
     InvokeReturns, InvokeRaises, Finalize, FinalizeFaults, RevertClaim,
     RevertFaults, SendResult
<1>4. CASE BrokerCrash \/ Tick \/ UNCHANGED vars
  BY <1>4 DEF BrokerCrash, Tick, vars
<1>5. QED
  BY <1>1, <1>2, <1>3, <1>4 DEF Next

(* A thread gets hold of a claim only by consuming the ticket, and keeps    *)
(* the request it works on.                                                 *)
SameRequest(w) ==
  /\ job'[w].ticket = job[w].ticket
  /\ job'[w].caller = job[w].caller
  /\ job'[w].op = job[w].op

LEMMA HoldStep ==
  ASSUME TypeOK, [Next]_vars, NEW w \in Worker, NEW t \in Ticket, Holds(w, t)'
  PROVE  /\ job[w] # NoJob
         /\ job[w].ticket = t
         /\ SameRequest(w)
         /\ Holds(w, t) \/ ConsumeTicket(w)
<1>0. job'[w] # NoJob /\ job'[w].ticket = t /\
      job'[w].stage \in {"claimed", "invoking", "executed", "failed"}
  BY DEF Holds
<1>1. CASE job'[w] = job[w]
  BY <1>0, <1>1 DEF Holds, SameRequest
<1>2. ASSUME job'[w] # job[w], Handle(w)
      PROVE  /\ job[w] # NoJob
             /\ SameRequest(w)
             /\ Holds(w, t) \/ ConsumeTicket(w)
  <2>1. ASSUME Answer(w) PROVE FALSE
    BY <1>0, <2>1 DEF Answer, TypeOK
  <2>2. ASSUME NEW s \in Stage, job[w] # NoJob, Advance(w, s) PROVE SameRequest(w)
    BY <2>2 DEF Advance, TypeOK, Job, SameRequest
  <2>3. CASE ConsumeTicket(w)
    BY <2>2, <2>3 DEF ConsumeTicket, AtStage, Stage
  <2>4. CASE BeginInvoke(w) \/ InvokeReturns(w) \/ InvokeRaises(w)
             \/ FinalizeFaults(w) \/ Finalize(w)
    <3>1. SameRequest(w)
      BY <2>2, <2>4 DEF BeginInvoke, InvokeReturns, InvokeRaises,
         FinalizeFaults, Finalize, AtStage, Stage
    <3>2. Holds(w, t)
      BY <3>1, <1>0, <2>4 DEF BeginInvoke, InvokeReturns, InvokeRaises,
         FinalizeFaults, Finalize, AtStage, Holds, SameRequest
    <3>3. QED BY <3>1, <3>2 DEF Holds
  <2>5. QED
    BY <1>2, <2>1, <2>3, <2>4
       DEF Handle, Deny, RefuseTicket, RevertClaim, RevertFaults, SendResult
<1>3. ASSUME job'[w] # job[w], ~Handle(w) PROVE FALSE
  <2>1. ASSUME NEW v \in Worker, Handle(v) PROVE job'[w] = job[w]
    <3>1. v # w
      BY <1>3, <2>1
    <3>2. QED
      BY <2>1, <3>1 DEF Handle, Deny, ConsumeTicket, RefuseTicket, BeginInvoke,
         InvokeReturns, InvokeRaises, Finalize, FinalizeFaults, RevertClaim,
         RevertFaults, SendResult, Advance, Answer, TypeOK
  <2>2. ASSUME NEW v \in Worker, Forward(v) PROVE job'[w] = job[w]
    BY <1>0, <2>2 DEF Forward, TypeOK
  <2>3. CASE Frontend
    BY <1>3, <2>2, <2>3 DEF Frontend, ApprovalStatus, IssueTicket, PresentTicket,
       AuditRead, AuditReadRefused, GiveUp
  <2>4. CASE Approving
    BY <1>3, <2>4 DEF Approving, SignApproval, ApproveOperation, PushApproval
  <2>5. CASE BrokerCrash \/ Tick \/ UNCHANGED vars
    BY <1>0, <1>3, <2>5 DEF BrokerCrash, Tick, vars
  <2>6. QED
    BY <1>3, <2>1, <2>3, <2>4, <2>5 DEF Next
<1>4. QED
  BY <1>0, <1>1, <1>2, <1>3 DEF SameRequest

(* Calls and threads carry only operations the broker runs. *)
Brokered ==
  /\ call # NoCall => call.op \notin LocalOp
  /\ \A w \in Worker : job[w] # NoJob => job[w].op \notin LocalOp

LEMMA BrokeredStep == TypeOK /\ Brokered /\ [Next]_vars => Brokered'
<1> SUFFICES ASSUME TypeOK, Brokered, [Next]_vars PROVE Brokered'
  OBVIOUS
<1>1. CASE Frontend
  <2>1. CASE \E w \in Worker : Forward(w)
    BY <2>1 DEF Forward, Brokered, TypeOK, Call
  <2>2. CASE \E c \in Caller, op \in Op, t \in Ticket : PresentTicket(c, op, t)
    BY <2>2 DEF PresentTicket, Brokered
  <2>3. QED
    BY <1>1, <2>1, <2>2 DEF Frontend, ApprovalStatus, IssueTicket, AuditRead,
       AuditReadRefused, GiveUp, Brokered
<1>2. CASE Approving
  BY <1>2 DEF Approving, SignApproval, ApproveOperation, PushApproval, Brokered
<1>3. ASSUME NEW w \in Worker, Handle(w) PROVE Brokered'
  <2>1. CASE Answer(w)
    BY <2>1 DEF Answer, Brokered, TypeOK
  <2>2. ASSUME NEW s \in Stage, job[w] # NoJob, Advance(w, s), call' = call
        PROVE  Brokered'
    BY <2>2 DEF Advance, Brokered, TypeOK, Job
  <2>3. QED
    BY <1>3, <2>1, <2>2 DEF Handle, Deny, ConsumeTicket, RefuseTicket,
       BeginInvoke, InvokeReturns, InvokeRaises, Finalize, FinalizeFaults,
       RevertClaim, RevertFaults, SendResult, AtStage, Stage
<1>4. CASE BrokerCrash \/ Tick \/ UNCHANGED vars
  BY <1>4 DEF BrokerCrash, Tick, vars, Brokered
<1>5. QED
  BY <1>1, <1>2, <1>3, <1>4 DEF Next

(* What Bound says of one row, and of one claim. *)
RowBound(t) ==
  Exists(rows, t) =>
    /\ issued[t] = [caller |-> rows[t].caller, op |-> rows[t].op]
    /\ rows[t].approved => [signer |-> Owner, ticket |-> t] \in signatures
    /\ rows[t].consumed => rows[t].op \notin LocalOp

ClaimBound(w, t) ==
  Holds(w, t) =>
    /\ issued[t] = [caller |-> job[w].caller, op |-> job[w].op]
    /\ job[w].op \in OwnerOp => [signer |-> Owner, ticket |-> t] \in signatures

LEMMA BoundParts ==
  /\ Bound <=> /\ Brokered
               /\ \A t \in Ticket : RowBound(t)
               /\ \A w \in Worker, t \in Ticket : ClaimBound(w, t)
  /\ Bound' <=> /\ Brokered'
                /\ \A t \in Ticket : RowBound(t)'
                /\ \A w \in Worker, t \in Ticket : ClaimBound(w, t)'
BY DEF Bound, Brokered, RowBound, ClaimBound

(* A consume that claims t found the row live, unclaimed, issued to this    *)
(* caller for this operation, and co-signed if its rule asks for it.        *)
LEMMA ClaimMeans ==
  ASSUME TypeOK, NEW w \in Worker, ConsumeTicket(w), NEW t \in Ticket,
         job[w].ticket = t
  PROVE  /\ Exists(rows, t)
         /\ ~rows[t].consumed
         /\ IssuedTo(rows[t], job[w].caller, job[w].op)
         /\ CoSigned(rows[t], job[w].op)
BY DEF ConsumeTicket, Claimable, Consumable, Live

LEMMA NotIssued ==
  ASSUME NEW c, NEW op, c \in Caller, op \in Op
  PROVE  [caller |-> c, op |-> op] # NoTicket
BY DEF Issue

LEMMA BoundStep == TypeOK /\ Bound /\ [Next]_vars => Bound'
<1> SUFFICES ASSUME TypeOK, Bound, [Next]_vars PROVE Bound'
  OBVIOUS
<1>1. /\ Brokered
      /\ \A t \in Ticket : RowBound(t)
      /\ \A w \in Worker, t \in Ticket : ClaimBound(w, t)
  BY BoundParts
<1>2. Brokered'
  BY <1>1, BrokeredStep
<1>3. ASSUME NEW t \in Ticket PROVE RowBound(t)'
  <2>1. Exists(rows, t) =>
          rows[t].caller \in Caller /\ rows[t].op \in Op /\ issued'[t] = issued[t]
    <3>1. Exists(rows, t) => rows[t] \in Row
      BY DEF TypeOK, Exists
    <3>2. ASSUME Exists(rows, t)
          PROVE  rows[t].caller \in Caller /\ rows[t].op \in Op
      BY <3>1, <3>2 DEF Row
    <3>3. ASSUME Exists(rows, t) PROVE issued[t] # NoTicket
      <4>1. issued[t] = [caller |-> rows[t].caller, op |-> rows[t].op]
        BY <1>1, <3>3 DEF RowBound
      <4>2. QED BY <3>2, <3>3, <4>1, NotIssued
    <3>4. QED BY <3>2, <3>3, HistoryStep
  <2>2. CASE rows'[t] \in {rows[t], NoRow}
    BY <1>1, <2>1, <2>2, HistoryStep DEF RowBound, Exists
  <2>3. CASE RowIssued(t)
    BY <2>3 DEF RowIssued, RowBound
  <2>4. CASE RowApproved(t)
    BY <1>1, <2>1, <2>4, HistoryStep DEF RowApproved, RowBound, SameIssue
  <2>5. ASSUME NEW w \in Worker, RowClaimed(w, t) PROVE RowBound(t)'
    <3>1. rows[t].op \notin LocalOp
      BY <1>1, <2>5, ClaimMeans
         DEF RowClaimed, IssuedTo, Brokered, ConsumeTicket, AtStage
    <3>2. QED
      BY <1>1, <2>1, <2>5, <3>1, HistoryStep DEF RowClaimed, RowBound, SameIssue
  <2>6. ASSUME NEW w \in Worker, RowReverted(w, t) PROVE RowBound(t)'
    BY <1>1, <2>1, <2>6, HistoryStep DEF RowReverted, RowBound, SameIssue
  <2>7. QED
    BY <2>2, <2>3, <2>4, <2>5, <2>6, RowStep
<1>4. ASSUME NEW w \in Worker, NEW t \in Ticket, Holds(w, t)'
      PROVE  /\ issued'[t] = [caller |-> job'[w].caller, op |-> job'[w].op]
             /\ job'[w].op \in OwnerOp =>
                  [signer |-> Owner, ticket |-> t] \in signatures'
  <2>1. /\ job[w] # NoJob
        /\ job[w].ticket = t
        /\ SameRequest(w)
        /\ Holds(w, t) \/ ConsumeTicket(w)
    BY <1>4, HoldStep
  <2>2. /\ issued[t] = [caller |-> job[w].caller, op |-> job[w].op]
        /\ job[w].op \in OwnerOp => [signer |-> Owner, ticket |-> t] \in signatures
    <3>1. CASE Holds(w, t)
      BY <1>1, <3>1 DEF ClaimBound
    <3>2. CASE ConsumeTicket(w)
      BY <1>1, <2>1, <3>2, ClaimMeans DEF RowBound, IssuedTo, CoSigned
    <3>3. QED BY <2>1, <3>1, <3>2
  <2>3. issued'[t] = issued[t]
    BY <2>1, <2>2, NotIssued, HistoryStep DEF TypeOK, Job
  <2>4. QED
    BY <2>1, <2>2, <2>3, HistoryStep DEF SameRequest
<1>5. QED
  BY <1>2, <1>3, <1>4, BoundParts DEF ClaimBound

(* A claim is exclusive because a consume that succeeds found the row       *)
(* unclaimed, and only the thread that holds a claim reverts it.            *)
LEMMA ExclusiveStep ==
  TypeOK /\ Bound /\ HeldIsConsumed /\ ExclusiveClaim /\ [Next]_vars
    => HeldIsConsumed' /\ ExclusiveClaim'
<1> SUFFICES ASSUME TypeOK, Bound, HeldIsConsumed, ExclusiveClaim, [Next]_vars
             PROVE  HeldIsConsumed' /\ ExclusiveClaim'
  OBVIOUS
<1>1. ASSUME NEW w \in Worker, NEW t \in Ticket, Holds(w, t)'
      PROVE  rows'[t] # NoRow => rows'[t].consumed
  <2>1. /\ job[w] # NoJob
        /\ job[w].ticket = t
        /\ Holds(w, t) \/ ConsumeTicket(w)
    BY <1>1, HoldStep
  <2>2. CASE Holds(w, t)
    <3>1. rows[t] # NoRow => rows[t].consumed
      BY <2>2 DEF HeldIsConsumed, Exists
    <3>2. issued[t] # NoTicket
      <4>1. issued[t] = [caller |-> job[w].caller, op |-> job[w].op]
        BY <2>2 DEF Bound
      <4>2. QED BY <2>1, <4>1, NotIssued DEF TypeOK, Job
    <3>3. ASSUME NEW v \in Worker, RowReverted(v, t) PROVE FALSE
      <4>1. Holds(v, t)
        BY <3>3 DEF RowReverted, RevertClaim, AtStage, Holds
      <4>2. v = w
        BY <2>2, <4>1 DEF ExclusiveClaim
      <4>3. job'[w] = NoJob
        BY <3>3, <4>2 DEF RowReverted, RevertClaim, Answer, TypeOK
      <4>4. QED BY <1>1, <4>3 DEF Holds
    <3>4. QED
      BY <3>1, <3>2, <3>3, RowStep
         DEF RowIssued, RowApproved, RowClaimed, Exists
  <2>3. CASE ConsumeTicket(w)
    BY <2>1, <2>3, ClaimMeans, ClaimUpdate
       DEF ConsumeTicket, TypeOK, Table
  <2>4. QED BY <2>1, <2>2, <2>3
<1>2. ASSUME NEW v \in Worker, NEW w \in Worker, NEW t \in Ticket,
             Holds(v, t)', Holds(w, t)'
      PROVE  v = w
  <2>1. /\ Holds(v, t) \/ ConsumeTicket(v)
        /\ Holds(w, t) \/ ConsumeTicket(w)
        /\ job[v].ticket = t
        /\ job[w].ticket = t
    BY <1>2, HoldStep
  <2>2. CASE Holds(v, t) /\ Holds(w, t)
    BY <2>2 DEF ExclusiveClaim
  <2>3. ASSUME NEW x \in Worker, NEW y \in Worker, ConsumeTicket(x), Holds(y, t),
               job[x].ticket = t
        PROVE  FALSE
    BY <2>3, ClaimMeans DEF HeldIsConsumed
  <2>4. CASE ConsumeTicket(v) /\ ConsumeTicket(w)
    BY <1>2, <2>4 DEF ConsumeTicket, Advance, AtStage, Holds, TypeOK
  <2>5. QED BY <2>1, <2>2, <2>3, <2>4
<1>3. QED
  BY <1>1, <1>2 DEF HeldIsConsumed, ExclusiveClaim, Exists

LEMMA SafetyInit ==
  Init => /\ Bound /\ HeldIsConsumed /\ ExclusiveClaim /\ Authorised /\ OneShotInv
BY DEF Init, Bound, HeldIsConsumed, ExclusiveClaim, Authorised, OneShotInv,
   AtMostOnce, NeverRetriableOnceDone, HeldIsFresh, DoneIsIssued, Holds, Done,
   Exists

ClaimInv == TypeOK /\ Bound /\ HeldIsConsumed /\ ExclusiveClaim

LEMMA ClaimInvariance == Spec => []ClaimInv
<1>1. Init => ClaimInv
  BY TypeInit, SafetyInit DEF ClaimInv
<1>2. ClaimInv /\ [Next]_vars => ClaimInv'
  BY TypeStep, BoundStep, ExclusiveStep DEF ClaimInv
<1>3. QED BY <1>1, <1>2, PTL DEF Spec

(* At any time at most one broker thread holds the claim on a ticket,       *)
(* whatever rows are removed, whatever crashes and whatever SQLite errors   *)
(* finalize and revert meet.                                                *)
THEOREM ClaimsAreExclusive == Spec => []ExclusiveClaim
<1>1. ClaimInv => ExclusiveClaim
  BY DEF ClaimInv
<1>2. QED BY <1>1, ClaimInvariance, PTL

-----------------------------------------------------------------------------
(* Only authorised operations complete.                                    *)

Entry(w) == [ticket |-> job[w].ticket, caller |-> job[w].caller, op |-> job[w].op]

(* An operation completes in a broker thread that holds the claim, or in an *)
(* audit read; no other step touches the history of completions.            *)
LEMMA RunStep ==
  ASSUME TypeOK, [Next]_vars
  PROVE  \/ executed' = executed /\ runs' = runs
         \/ \E w \in Worker : InvokeReturns(w)
         \/ \E c \in Caller, op \in Op, t \in Ticket : AuditRead(c, op, t)
<1>1. CASE Frontend
  BY <1>1 DEF Frontend, ApprovalStatus, IssueTicket, PresentTicket,
     AuditReadRefused, Forward, GiveUp
<1>2. CASE Approving
  BY <1>2 DEF Approving, SignApproval, ApproveOperation, PushApproval
<1>3. ASSUME NEW w \in Worker, Handle(w)
      PROVE  InvokeReturns(w) \/ (executed' = executed /\ runs' = runs)
  BY <1>3 DEF Handle, Deny, ConsumeTicket, RefuseTicket, BeginInvoke,
     InvokeRaises, Finalize, FinalizeFaults, RevertClaim, RevertFaults, SendResult
<1>4. CASE BrokerCrash \/ Tick \/ UNCHANGED vars
  BY <1>4 DEF BrokerCrash, Tick, vars
<1>5. QED
  BY <1>1, <1>2, <1>3, <1>4 DEF Next

(* One completed request has what it needed. *)
Warranted(r) ==
  /\ issued[r.ticket] = [caller |-> r.caller, op |-> r.op]
  /\ r.op \in OwnerOp => [signer |-> Owner, ticket |-> r.ticket] \in signatures

LEMMA WarrantKept ==
  ASSUME TypeOK, [Next]_vars, NEW r \in Request, Warranted(r)
  PROVE  Warranted(r)'
<1>1. issued[r.ticket] # NoTicket
  BY NotIssued DEF Warranted, Request
<1>2. QED
  BY <1>1, HistoryStep DEF Warranted, Request

LEMMA AuthorisedStep ==
  TypeOK /\ Bound /\ Authorised /\ [Next]_vars => Authorised'
<1> SUFFICES ASSUME TypeOK, Bound, Authorised, [Next]_vars PROVE Authorised'
  OBVIOUS
<1>1. \A r \in executed : r \in Request /\ Warranted(r)
  BY DEF Authorised, TypeOK, Warranted
<1>2. CASE executed' = executed
  BY <1>1, <1>2, WarrantKept DEF Authorised, Warranted
<1>3. ASSUME NEW w \in Worker, InvokeReturns(w) PROVE Authorised'
  <2>1. job[w] \in Job /\ Holds(w, job[w].ticket) /\ job[w].ticket \in Ticket
    BY <1>3 DEF InvokeReturns, AtStage, TypeOK, Holds, Job
  <2>2. Entry(w) \in Request /\ Warranted(Entry(w))
    BY <2>1 DEF Bound, Entry, Warranted, Request, Job
  <2>3. executed' = executed \cup {Entry(w)}
    BY <1>3 DEF InvokeReturns, Entry
  <2>4. \A r \in executed' : Warranted(r)'
    BY <1>1, <2>2, <2>3, WarrantKept
  <2>5. QED BY <2>4 DEF Authorised, Warranted
<1>4. ASSUME NEW c \in Caller, NEW op \in Op, NEW t \in Ticket,
             AuditRead(c, op, t)
      PROVE  Authorised'
  <2> DEFINE r == [ticket |-> t, caller |-> c, op |-> op]
  <2>1. r \in Request
    BY DEF Request
  <2>2. Warranted(r)
    BY <1>4 DEF AuditRead, Consumable, Live, IssuedTo, CoSigned, Bound, Warranted
  <2>3. \A q \in executed' : Warranted(q)'
    BY <1>1, <1>4, <2>1, <2>2, WarrantKept DEF AuditRead
  <2>4. QED BY <2>3 DEF Authorised, Warranted
<1>5. QED
  BY <1>2, <1>3, <1>4, RunStep

(* No operation ever completes for another identity, for other arguments or *)
(* without the owner's signature on its own ticket when its rule asks for   *)
(* one.                                                                     *)
THEOREM OnlyAuthorisedRuns == Spec => []Authorised
<1> DEFINE Inv == ClaimInv /\ Authorised
<1>1. Init => Inv
  BY TypeInit, SafetyInit DEF ClaimInv
<1>2. Inv /\ [Next]_vars => Inv'
  BY TypeStep, BoundStep, ExclusiveStep, AuthorisedStep DEF ClaimInv
<1>3. QED
  <2>1. Inv => Authorised
    OBVIOUS
  <2>2. QED BY <1>1, <1>2, <2>1, PTL DEF Spec

(* Without storage faults, a thread that leaves "executed" or "failed" does *)
(* so in Finalize, or ends.                                                 *)
LEMMA StageStep ==
  ASSUME TypeOK, ~StorageFaults, [Next]_vars, NEW w \in Worker, job[w] # NoJob,
         job[w].stage \in {"executed", "failed"}, job'[w] # job[w],
         job'[w] # NoJob
  PROVE  Finalize(w)
<1>1. ASSUME NEW v \in Worker, Handle(v), v # w PROVE FALSE
  BY <1>1 DEF Handle, Deny, ConsumeTicket, RefuseTicket, BeginInvoke,
     InvokeReturns, InvokeRaises, Finalize, FinalizeFaults, RevertClaim,
     RevertFaults, SendResult, Advance, Answer, TypeOK
<1>2. CASE Handle(w)
  BY <1>2 DEF Handle, Deny, ConsumeTicket, RefuseTicket, BeginInvoke,
     InvokeReturns, InvokeRaises, FinalizeFaults, RevertClaim, RevertFaults,
     SendResult, Answer, AtStage, TypeOK
<1>3. CASE Frontend
  BY <1>3 DEF Frontend, ApprovalStatus, IssueTicket, PresentTicket,
     AuditRead, AuditReadRefused, Forward, GiveUp, TypeOK
<1>4. CASE Approving
  BY <1>4 DEF Approving, SignApproval, ApproveOperation, PushApproval
<1>5. CASE BrokerCrash \/ Tick \/ UNCHANGED vars
  BY <1>5 DEF BrokerCrash, Tick, vars
<1>6. QED
  BY <1>1, <1>2, <1>3, <1>4, <1>5 DEF Next

-----------------------------------------------------------------------------
(* One-shot.                                                               *)

(* An audit ticket that can be consumed has not been used: were it done,    *)
(* its row would be claimed, and audit tickets never are.                   *)
LEMMA AuditIsFresh ==
  ASSUME TypeOK, Bound, NeverRetriableOnceDone, NEW c \in Caller, NEW op \in Op,
         NEW t \in Ticket, AuditRead(c, op, t)
  PROVE  ~Done(t) /\ Exists(rows, t) /\ ~rows[t].consumed
<1>1. op \in LocalOp /\ Exists(rows, t) /\ rows[t].op = op
  BY DEF AuditRead, Consumable, Live, IssuedTo
<1>2. ~rows[t].consumed
  BY <1>1 DEF Bound
<1>3. QED BY <1>1, <1>2 DEF NeverRetriableOnceDone

LEMMA RunCounts ==
  ASSUME TypeOK, [Next]_vars, NEW t \in Ticket, runs'[t] # runs[t]
  PROVE  /\ runs'[t] = CountRun(runs[t])
         /\ \/ \E w \in Worker : InvokeReturns(w) /\ job[w].ticket = t
            \/ \E c \in Caller, op \in Op : AuditRead(c, op, t)
<1>1. ASSUME NEW w \in Worker, InvokeReturns(w)
      PROVE  job[w].ticket = t /\ runs'[t] = CountRun(runs[t])
  BY <1>1 DEF InvokeReturns, AtStage, TypeOK, Job
<1>2. ASSUME NEW c \in Caller, NEW op \in Op, NEW u \in Ticket,
             AuditRead(c, op, u)
      PROVE  u = t /\ runs'[t] = CountRun(runs[t])
  BY <1>2 DEF AuditRead, TypeOK
<1>3. QED BY <1>1, <1>2, RunStep

(* What a completion starts from: a fresh ticket. *)
LEMMA CompletionIsFirst ==
  ASSUME TypeOK, Bound, OneShotInv, [Next]_vars, NEW t \in Ticket,
         runs'[t] # runs[t]
  PROVE  ~Done(t) /\ runs'[t] = 1
<1>1. ~Done(t)
  <2>1. ASSUME NEW w \in Worker, InvokeReturns(w), job[w].ticket = t
        PROVE  ~Done(t)
    BY <2>1 DEF InvokeReturns, AtStage, Holds, OneShotInv, HeldIsFresh
  <2>2. ASSUME NEW c \in Caller, NEW op \in Op, AuditRead(c, op, t)
        PROVE  ~Done(t)
    BY <2>2, AuditIsFresh DEF OneShotInv
  <2>3. QED BY <2>1, <2>2, RunCounts
<1>2. runs[t] = 0
  BY <1>1 DEF Done, TypeOK
<1>3. QED BY <1>1, <1>2, RunCounts DEF CountRun

LEMMA OneShotStep ==
  ASSUME ~StorageFaults, ClaimInv, OneShotInv, [Next]_vars
  PROVE  OneShotInv'
<1>0. TypeOK /\ Bound /\ HeldIsConsumed /\ ExclusiveClaim /\ ExclusiveClaim'
      /\ TypeOK'
  BY TypeStep, ExclusiveStep DEF ClaimInv
<1>1. AtMostOnce'
  BY <1>0, CompletionIsFirst DEF OneShotInv, AtMostOnce
<1>2. ASSUME NEW t \in Ticket, Done(t)' PROVE issued'[t] # NoTicket
  <2>1. CASE Done(t)
    BY <1>0, <2>1, HistoryStep DEF OneShotInv, DoneIsIssued
  <2>2. ASSUME NEW w \in Worker, InvokeReturns(w), job[w].ticket = t
        PROVE  issued'[t] # NoTicket
    <3>1. /\ job[w].caller \in Caller
          /\ job[w].op \in Op
          /\ issued[t] = [caller |-> job[w].caller, op |-> job[w].op]
      BY <1>0, <2>2 DEF InvokeReturns, AtStage, Bound, Holds, TypeOK, Job
    <3>2. QED BY <1>0, <3>1, NotIssued, HistoryStep
  <2>3. ASSUME NEW c \in Caller, NEW op \in Op, AuditRead(c, op, t)
        PROVE  issued'[t] # NoTicket
    <3>1. issued[t] = [caller |-> c, op |-> op]
      BY <1>0, <2>3 DEF AuditRead, Consumable, Live, IssuedTo, Bound
    <3>2. QED BY <1>0, <3>1, NotIssued, HistoryStep
  <2>4. CASE ~Done(t)
    <3>1. runs'[t] # runs[t]
      BY <1>2, <2>4 DEF Done
    <3>2. QED BY <1>0, <2>2, <2>3, <3>1, RunCounts
  <2>5. QED BY <2>1, <2>4
<1>3. ASSUME NEW t \in Ticket, Done(t)'
      PROVE  ~Exists(rows', t) \/ rows'[t].consumed
  <2>1. CASE Done(t)
    <3>1. /\ ~Exists(rows, t) \/ rows[t].consumed
          /\ issued[t] # NoTicket
      BY <2>1 DEF OneShotInv, NeverRetriableOnceDone, DoneIsIssued
    <3>2. ASSUME NEW w \in Worker, RowReverted(w, t) PROVE FALSE
      BY <2>1, <3>2
         DEF RowReverted, RevertClaim, AtStage, Holds, OneShotInv, HeldIsFresh
    <3>3. QED
      BY <1>0, <3>1, <3>2, RowStep
         DEF RowIssued, RowApproved, RowClaimed, Exists
  <2>2. ASSUME NEW w \in Worker, InvokeReturns(w), job[w].ticket = t
        PROVE  ~Exists(rows', t) \/ rows'[t].consumed
    BY <1>0, <2>2 DEF InvokeReturns, AtStage, Holds, HeldIsConsumed
  <2>3. ASSUME NEW c \in Caller, NEW op \in Op, AuditRead(c, op, t)
        PROVE  ~Exists(rows', t)
    BY <1>0, <2>3 DEF AuditRead, Delete, Exists, TypeOK
  <2>4. CASE ~Done(t)
    <3>1. runs'[t] # runs[t]
      BY <1>3, <2>4 DEF Done
    <3>2. QED BY <1>0, <2>2, <2>3, <3>1, RunCounts
  <2>5. QED BY <2>1, <2>4
<1>4. ASSUME NEW w \in Worker, NEW t \in Ticket, Holds(w, t)', Done(t)'
      PROVE  /\ job'[w].stage \in {"executed", "failed"}
             /\ job'[w].stage = "failed" => ~Exists(rows', t)
  <2>0. /\ job[w] # NoJob
        /\ job[w].ticket = t
        /\ Holds(w, t) \/ ConsumeTicket(w)
    BY <1>0, <1>4, HoldStep
  <2>1. CASE Done(t)
    <3>1. ~ConsumeTicket(w)
      BY <1>0, <2>0, <2>1, ClaimMeans DEF OneShotInv, NeverRetriableOnceDone
    <3>2. /\ job[w].stage \in {"executed", "failed"}
          /\ job[w].stage = "failed" => ~Exists(rows, t)
      BY <2>0, <2>1, <3>1 DEF OneShotInv, HeldIsFresh, Holds, AtStage
    <3>3. ~Exists(rows, t) => ~Exists(rows', t)
      BY <1>0, <2>1, RowStep
         DEF RowIssued, RowApproved, RowClaimed, RowReverted, Exists, OneShotInv,
             DoneIsIssued
    <3>4. CASE job'[w] = job[w]
      BY <3>2, <3>3, <3>4
    <3>5. CASE job'[w] # job[w]
      <4>1. Finalize(w)
        <5>1. job'[w] # NoJob
          BY <1>4 DEF Holds
        <5>2. QED BY <1>0, <2>0, <3>2, <3>5, <5>1, StageStep
      <4>2. QED
        BY <1>0, <2>0, <4>1, <1>4
           DEF Finalize, Advance, Holds, AtStage, TypeOK, Job, Delete, Exists
    <3>6. QED BY <3>4, <3>5
  <2>2. CASE ~Done(t)
    <3>1. runs'[t] # runs[t]
      BY <1>4, <2>2 DEF Done
    <3>2. ASSUME NEW v \in Worker, InvokeReturns(v), job[v].ticket = t
          PROVE  job'[w].stage = "executed"
      <4>1. job'[v].stage = "executed" /\ Holds(v, t)'
        <5>1. job[v] \in Job /\ job[v].ticket = t /\ job[v].stage = "invoking"
          BY <1>0, <3>2 DEF InvokeReturns, AtStage, TypeOK
        <5>2. job'[v] = [job[v] EXCEPT !.stage = "executed"]
          BY <1>0, <3>2 DEF InvokeReturns, Advance, TypeOK
        <5>3. job'[v] \in Job /\ job'[v].ticket = t /\ job'[v].stage = "executed"
          BY <5>1, <5>2 DEF Job, Stage
        <5>4. QED BY <5>3, WriteAssumption DEF Holds
      <4>2. v = w
        BY <1>0, <1>4, <4>1 DEF ExclusiveClaim
      <4>3. QED BY <4>1, <4>2
    <3>3. ASSUME NEW c \in Caller, NEW op \in Op, AuditRead(c, op, t)
          PROVE  FALSE
      <4>1. Exists(rows, t) /\ ~rows[t].consumed
        BY <1>0, <3>3, AuditIsFresh DEF OneShotInv
      <4>2. Holds(w, t)
        BY <1>4, <3>3 DEF AuditRead, Holds
      <4>3. QED BY <1>0, <4>1, <4>2 DEF HeldIsConsumed
    <3>4. QED BY <1>0, <3>1, <3>2, <3>3, RunCounts
  <2>3. QED BY <2>1, <2>2
<1>5. HeldIsFresh'
  BY <1>4 DEF HeldIsFresh, AtStage
<1>6. QED
  BY <1>1, <1>2, <1>3, <1>5
     DEF OneShotInv, NeverRetriableOnceDone, DoneIsIssued

(* No confirmation's operation completes twice, and one that has completed  *)
(* leaves nothing to claim, provided SQLite does not fail finalize or       *)
(* revert.                                                                  *)
THEOREM OneShot ==
  ASSUME ~StorageFaults
  PROVE  Spec => [](AtMostOnce /\ NeverRetriableOnceDone)
<1> DEFINE Inv == ClaimInv /\ OneShotInv
<1>1. Init => Inv
  BY TypeInit, SafetyInit DEF ClaimInv
<1>2. Inv /\ [Next]_vars => Inv'
  BY TypeStep, BoundStep, ExclusiveStep, OneShotStep DEF ClaimInv
<1>3. Inv => AtMostOnce /\ NeverRetriableOnceDone
  BY DEF OneShotInv
<1>4. QED BY <1>1, <1>2, <1>3, PTL DEF Spec

-----------------------------------------------------------------------------
(* What a step may never do.                                               *)

(* A call that is under way, and a thread that works for one, carry exactly *)
(* what their ticket was issued for, whether or not its row is still there; *)
(* a thread past its operation leaves a ticket that is done.                *)
CallCarries ==
  call # NoCall => issued[call.ticket] = [caller |-> call.caller, op |-> call.op]

JobCarries(w) ==
  job[w] # NoJob =>
    /\ issued[job[w].ticket] = [caller |-> job[w].caller, op |-> job[w].op]
    /\ job[w].stage \in {"executed", "finalized"} => Done(job[w].ticket)

Carries == CallCarries /\ \A w \in Worker : JobCarries(w)

(* A ticket that was issued to somebody stays so. *)
LEMMA IssueStays ==
  ASSUME TypeOK, [Next]_vars, NEW t \in Ticket, NEW c \in Caller, NEW op \in Op,
         issued[t] = [caller |-> c, op |-> op]
  PROVE  issued'[t] = [caller |-> c, op |-> op]
BY NotIssued, HistoryStep

LEMMA DoneStays ==
  ASSUME TypeOK, [Next]_vars, NEW t \in Ticket, Done(t)
  PROVE  Done(t)'
<1>1. runs[t] \in 0..2
  BY DEF TypeOK
<1>2. runs'[t] # runs[t] => runs'[t] = CountRun(runs[t])
  BY RunCounts
<1>3. QED BY <1>1, <1>2 DEF Done, CountRun

LEMMA CallCarriesStep ==
  TypeOK /\ Bound /\ Carries /\ [Next]_vars => CallCarries'
<1> SUFFICES ASSUME TypeOK, Bound, Carries, [Next]_vars, call' # NoCall
             PROVE  issued'[call'.ticket] = [caller |-> call'.caller, op |-> call'.op]
  BY DEF CallCarries
<1>1. CASE /\ call # NoCall
           /\ call'.ticket = call.ticket
           /\ call'.caller = call.caller
           /\ call'.op = call.op
  <2>1. /\ call.ticket \in Ticket
        /\ call.caller \in Caller
        /\ call.op \in Op
    BY <1>1 DEF TypeOK, Call
  <2>2. QED BY <1>1, <2>1, IssueStays DEF Carries, CallCarries
<1>2. ASSUME NEW c \in Caller, NEW op \in Op, NEW t \in Ticket,
             PresentTicket(c, op, t)
      PROVE  issued'[call'.ticket] = [caller |-> call'.caller, op |-> call'.op]
  <2>1. /\ call' = [ticket |-> t, caller |-> c, op |-> op, worker |-> NoWorker]
        /\ Exists(rows, t)
        /\ rows[t].caller = c
        /\ rows[t].op = op
    BY <1>2 DEF PresentTicket, Accepted, Peekable, Live, IssuedTo
  <2>2. issued[t] = [caller |-> c, op |-> op] /\ issued' = issued
    BY <1>2, <2>1 DEF Bound, PresentTicket
  <2>3. QED BY <2>1, <2>2
<1>3. ASSUME NEW w \in Worker, Forward(w)
      PROVE  issued'[call'.ticket] = [caller |-> call'.caller, op |-> call'.op]
  <2>1. call \in Call
    BY <1>3 DEF Forward, TypeOK
  <2>2. /\ call'.ticket = call.ticket
        /\ call'.caller = call.caller
        /\ call'.op = call.op
    BY <1>3, <2>1 DEF Forward, Call
  <2>3. QED BY <1>1, <1>3, <2>2 DEF Forward
<1>4. CASE call' = call
  BY <1>1, <1>4
<1>5. CASE Frontend
  BY <1>2, <1>3, <1>4, <1>5 DEF Frontend, ApprovalStatus, IssueTicket, AuditRead,
     AuditReadRefused, GiveUp
<1>6. CASE Approving
  BY <1>4, <1>6 DEF Approving, SignApproval, ApproveOperation, PushApproval
<1>7. ASSUME NEW w \in Worker, Handle(w) PROVE call' = call
  BY <1>7 DEF Handle, Deny, ConsumeTicket, RefuseTicket, BeginInvoke,
     InvokeReturns, InvokeRaises, Finalize, FinalizeFaults, RevertClaim,
     RevertFaults, SendResult, Answer
<1>8. CASE BrokerCrash \/ Tick \/ UNCHANGED vars
  BY <1>4, <1>8 DEF BrokerCrash, Tick, vars
<1>9. QED
  BY <1>4, <1>5, <1>6, <1>7, <1>8 DEF Next

(* How a thread comes by its request, or moves on with it. *)
LEMMA JobStep ==
  ASSUME TypeOK, [Next]_vars, NEW w \in Worker, job'[w] # NoJob,
         job'[w] # job[w]
  PROVE  \/ /\ Forward(w)
            /\ job'[w].stage = "received"
         \/ /\ job[w] # NoJob
            /\ SameRequest(w)
            /\ \/ job'[w].stage \in {"claimed", "invoking", "failed"}
               \/ job'[w].stage = "executed" /\ InvokeReturns(w)
               \/ job'[w].stage = "finalized" /\ job[w].stage = "executed"
<1>1. ASSUME NEW v \in Worker, Forward(v)
      PROVE  Forward(w) /\ job'[w].stage = "received"
  BY <1>1 DEF Forward, TypeOK
<1>2. ASSUME NEW v \in Worker, Handle(v) PROVE v = w
  BY <1>2 DEF Handle, Deny, ConsumeTicket, RefuseTicket, BeginInvoke,
     InvokeReturns, InvokeRaises, Finalize, FinalizeFaults, RevertClaim,
     RevertFaults, SendResult, Advance, Answer, TypeOK
<1>3. ASSUME Answer(w) PROVE FALSE
  BY <1>3 DEF Answer, TypeOK
<1>4. ASSUME NEW s \in Stage, job[w] # NoJob, Advance(w, s)
      PROVE  SameRequest(w) /\ job'[w].stage = s
  BY <1>4 DEF Advance, TypeOK, Job, SameRequest
<1>5. CASE ConsumeTicket(w) \/ BeginInvoke(w) \/ InvokeRaises(w) \/ FinalizeFaults(w)
  BY <1>4, <1>5 DEF ConsumeTicket, BeginInvoke, InvokeRaises, FinalizeFaults,
     AtStage, Stage
<1>6. CASE InvokeReturns(w)
  BY <1>4, <1>6 DEF InvokeReturns, AtStage, Stage
<1>7. CASE Finalize(w)
  BY <1>4, <1>7 DEF Finalize, AtStage, Stage
<1>8. CASE Handle(w)
  BY <1>3, <1>5, <1>6, <1>7, <1>8
     DEF Handle, Deny, RefuseTicket, RevertClaim, RevertFaults, SendResult
<1>9. CASE Frontend
  BY <1>1, <1>9 DEF Frontend, ApprovalStatus, IssueTicket, PresentTicket,
     AuditRead, AuditReadRefused, GiveUp
<1>10. CASE Approving
  BY <1>10 DEF Approving, SignApproval, ApproveOperation, PushApproval
<1>11. CASE BrokerCrash \/ Tick \/ UNCHANGED vars
  BY <1>11 DEF BrokerCrash, Tick, vars
<1>12. QED
  BY <1>2, <1>8, <1>9, <1>10, <1>11 DEF Next

LEMMA CarriesStep == TypeOK /\ Bound /\ Carries /\ [Next]_vars => Carries'
<1> SUFFICES ASSUME TypeOK, Bound, Carries, [Next]_vars PROVE Carries'
  OBVIOUS
<1>1. ASSUME NEW w \in Worker PROVE JobCarries(w)'
  <2>0. SUFFICES ASSUME job'[w] # NoJob PROVE JobCarries(w)'
    BY DEF JobCarries
  <2>1. job[w] # NoJob =>
          /\ job[w].ticket \in Ticket
          /\ job[w].caller \in Caller
          /\ job[w].op \in Op
    BY DEF TypeOK, Job
  <2>2. job[w] # NoJob =>
          /\ issued'[job[w].ticket] = [caller |-> job[w].caller, op |-> job[w].op]
          /\ runs[job[w].ticket] > 0 => runs'[job[w].ticket] > 0
    BY <2>1, IssueStays, DoneStays DEF Carries, JobCarries, Done
  <2>3. CASE job'[w] = job[w]
    BY <2>0, <2>2, <2>3 DEF JobCarries, Carries, Done
  <2>4. CASE Forward(w) /\ job'[w].stage = "received"
    <3>1. /\ job'[w] = [stage |-> "received", ticket |-> call.ticket,
                        caller |-> call.caller, op |-> call.op]
          /\ call # NoCall
          /\ issued' = issued
      BY <2>4 DEF Forward, TypeOK
    <3>2. QED BY <2>4, <3>1 DEF JobCarries, Carries, CallCarries
  <2>5. CASE job[w] # NoJob /\ SameRequest(w)
             /\ job'[w].stage \in {"claimed", "invoking", "failed"}
    BY <2>2, <2>5 DEF JobCarries, SameRequest
  <2>6. CASE job[w] # NoJob /\ SameRequest(w) /\ InvokeReturns(w)
    <3>1. runs'[job[w].ticket] > 0
      BY <2>1, <2>6 DEF InvokeReturns, TypeOK, CountRun
    <3>2. QED BY <2>2, <2>6, <3>1 DEF JobCarries, SameRequest, Done
  <2>7. CASE job[w] # NoJob /\ SameRequest(w) /\ job[w].stage = "executed"
    BY <2>2, <2>7 DEF JobCarries, Carries, SameRequest, Done
  <2>8. QED
    BY <2>0, <2>3, <2>4, <2>5, <2>6, <2>7, JobStep
<1>2. QED
  BY <1>1, CallCarriesStep DEF Carries

LEMMA CarriesInvariance == Spec => [](ClaimInv /\ Carries)
<1>1. Init => ClaimInv /\ Carries
  BY TypeInit, SafetyInit DEF ClaimInv, Carries, CallCarries, JobCarries, Init
<1>2. ClaimInv /\ Carries /\ [Next]_vars => (ClaimInv /\ Carries)'
  BY TypeStep, BoundStep, ExclusiveStep, CarriesStep DEF ClaimInv
<1>3. QED BY <1>1, <1>2, PTL DEF Spec

(* The cause of one row's disappearance. *)
Caused(t) ==
  \/ Expired(rows, t, now)
  \/ runs'[t] > 0
  \/ \E c \in Caller, op \in LocalOp :
       AuditReadRefused(c, op, t) /\ ~IssuedTo(rows[t], c, op)

LEMMA BurnStep ==
  ASSUME ClaimInv, Carries, [Next]_vars, NEW t \in Ticket, Exists(rows, t),
         ~Exists(rows', t)
  PROVE  Caused(t)
<1>0. /\ TypeOK
      /\ rows \in Table
      /\ rows'[t] = NoRow
      /\ rows[t] # NoRow
      /\ issued[t] = [caller |-> rows[t].caller, op |-> rows[t].op]
  BY DEF ClaimInv, TypeOK, Table, Exists, Bound
<1>1. ASSUME NEW u \in Ticket, rows' = CheckLive(rows, u, now) PROVE Caused(t)
  BY <1>0, <1>1 DEF CheckLive, Delete, Table, Caused
<1>2. ASSUME rows' = rows PROVE FALSE
  BY <1>0, <1>2
<1>3. CASE Frontend
  <2>1. ASSUME NEW c \in Caller, NEW op \in Op, NEW u \in Ticket,
               IssueTicket(c, op, u)
        PROVE  FALSE
    <3>1. rows'[u] \in Row /\ (u # t => rows'[t] = rows[t])
      BY <1>0, <2>1 DEF IssueTicket, Create, Table, TypeOK, Row, TtlFor
    <3>2. QED BY <1>0, <3>1
  <2>2. ASSUME NEW c \in Caller, NEW op \in Op, NEW u \in Ticket,
               AuditRead(c, op, u)
        PROVE  Caused(t)
    <3>1. u = t
      BY <1>0, <2>2 DEF AuditRead, Delete, Table
    <3>2. runs'[t] = CountRun(runs[t]) /\ runs[t] \in 0..2
      BY <1>0, <2>2, <3>1 DEF AuditRead, TypeOK
    <3>3. QED BY <3>2 DEF Caused, CountRun
  <2>3. ASSUME NEW c \in Caller, NEW op \in Op, NEW u \in Ticket,
               AuditReadRefused(c, op, u)
        PROVE  Caused(t)
    <3>1. u = t /\ (Expired(rows, t, now) \/ ~IssuedTo(rows[t], c, op))
      BY <1>0, <2>3 DEF AuditReadRefused, ConsumeRefused, Delete, Table
    <3>2. op \in LocalOp
      BY <2>3 DEF AuditReadRefused
    <3>3. QED BY <2>3, <3>1, <3>2 DEF Caused
  <2>4. CASE \/ \E u \in Ticket : ApprovalStatus(u)
             \/ \E c \in Caller, op \in Op, u \in Ticket : PresentTicket(c, op, u)
    BY <1>1, <2>4 DEF ApprovalStatus, PresentTicket
  <2>5. CASE (\E w \in Worker : Forward(w)) \/ GiveUp
    BY <1>2, <2>5 DEF Forward, GiveUp
  <2>6. QED BY <1>3, <2>1, <2>2, <2>3, <2>4, <2>5 DEF Frontend
<1>4. CASE Approving
  <2>1. ASSUME NEW e \in signatures, NEW u \in Ticket,
               rows' = Approve(rows, e, u, now)
        PROVE  Caused(t)
    <3>1. CASE rows' = CheckLive(rows, u, now)
      BY <1>1, <3>1
    <3>2. CASE rows' = [rows EXCEPT ![u].approved = TRUE] /\ Exists(rows, u)
      <4>1. u = t
        BY <1>0, <3>2 DEF Table
      <4>2. rows'[t] \in Row
        BY <1>0, <3>2, <4>1 DEF Table, Row
      <4>3. QED BY <1>0, <4>2
    <3>3. QED BY <2>1, <3>1, <3>2 DEF Approve, Peekable, Live
  <2>2. QED BY <1>2, <1>4, <2>1
         DEF Approving, SignApproval, ApproveOperation, PushApproval
<1>5. ASSUME NEW w \in Worker, Handle(w) PROVE Caused(t)
  <2>0. job[w] # NoJob =>
          /\ job[w].ticket \in Ticket
          /\ issued[job[w].ticket] = [caller |-> job[w].caller, op |-> job[w].op]
    BY <1>0 DEF TypeOK, Job, Carries, JobCarries
  <2>1. CASE RefuseTicket(w)
    <3>1. /\ job[w] # NoJob
          /\ job[w].ticket = t
          /\ Expired(rows, t, now) \/ ~IssuedTo(rows[t], job[w].caller, job[w].op)
      BY <1>0, <2>1 DEF RefuseTicket, AtStage, ConsumeRefused, Delete, Table
    <3>2. IssuedTo(rows[t], job[w].caller, job[w].op)
      BY <1>0, <2>0, <3>1 DEF IssuedTo
    <3>3. QED BY <3>1, <3>2 DEF Caused
  <2>2. CASE Finalize(w)
    <3>1. job[w].ticket = t /\ AtStage(w, "executed") /\ runs' = runs
      BY <1>0, <2>2 DEF Finalize, Delete, Table
    <3>2. QED
      BY <3>1 DEF Carries, JobCarries, AtStage, Done, Caused
  <2>3. ASSUME ConsumeTicket(w) \/ RevertClaim(w) PROVE FALSE
    <3>1. /\ job[w].ticket \in Ticket
          /\ \/ /\ Exists(rows, job[w].ticket)
                /\ rows' = Claim(rows, job[w].ticket)
             \/ rows' = Revert(rows, job[w].ticket)
      BY <2>0, <2>3
         DEF ConsumeTicket, RevertClaim, AtStage, Claimable, Consumable, Live
    <3>2. rows'[t] = rows[t] \/ rows'[t] \in Row
      BY <1>0, <3>1, ClaimUpdate, RevertUpdate DEF Exists
    <3>3. QED BY <1>0, <3>2
  <2>4. CASE \/ Deny(w) \/ BeginInvoke(w) \/ InvokeReturns(w) \/ InvokeRaises(w)
             \/ FinalizeFaults(w) \/ RevertFaults(w) \/ SendResult(w)
    BY <1>2, <2>4 DEF Deny, BeginInvoke, InvokeReturns, InvokeRaises,
       FinalizeFaults, RevertFaults, SendResult
  <2>5. QED BY <1>5, <2>1, <2>2, <2>3, <2>4 DEF Handle
<1>6. CASE BrokerCrash \/ Tick \/ UNCHANGED vars
  BY <1>2, <1>6 DEF BrokerCrash, Tick, vars
<1>7. QED BY <1>3, <1>4, <1>5, <1>6 DEF Next

(* A row leaves the table only because it lapsed, because its operation     *)
(* completed, or because an audit read presented its id for something else. *)
(* The broker's own refusals burn nothing: what it is asked for is always   *)
(* what the ticket was issued for.                                          *)
THEOREM NothingBurnsInVain == Spec => BurnedForCause
<1>1. ASSUME ClaimInv, Carries, [Next]_vars
      PROVE  \A t \in Ticket : Exists(rows, t) /\ ~Exists(rows', t) => Caused(t)
  BY <1>1, BurnStep
<1>2. QED BY <1>1, CarriesInvariance, PTL DEF Spec, BurnedForCause, Caused

(* As long as a row is there, an approval it has is kept: no refused,       *)
(* failed or reverted attempt makes the requester ask the owner again.      *)
THEOREM ApprovalsStand == Spec => ApprovalKept
<1>1. ASSUME ClaimInv, [Next]_vars, NEW t \in Ticket, Exists(rows, t),
             rows[t].approved, Exists(rows', t)
      PROVE  rows'[t].approved
  <2>1. TypeOK
    BY <1>1 DEF ClaimInv
  <2>2. ~RowIssued(t)
    <3>1. /\ issued[t] = [caller |-> rows[t].caller, op |-> rows[t].op]
          /\ rows[t] \in Row
      BY <1>1, <2>1 DEF ClaimInv, Bound, Exists, TypeOK
    <3>2. QED BY <3>1, NotIssued DEF RowIssued, Row
  <2>3. QED
    BY <1>1, <2>1, <2>2, RowStep DEF RowApproved, RowClaimed, RowReverted, Exists
<1>2. ClaimInv /\ [Next]_vars =>
        \A t \in Ticket :
          /\ Exists(rows, t) /\ rows[t].approved
          /\ Exists(rows', t)
          => rows'[t].approved
  BY <1>1
<1>3. QED BY <1>2, ClaimInvariance, PTL DEF Spec, ApprovalKept

(* A thread gives its claim up by reverting or failing to, by removing the  *)
(* row, or because the broker is killed.                                    *)
LEMMA ReleaseStep ==
  ASSUME TypeOK, [Next]_vars, NEW w \in Worker, NEW t \in Ticket, Holds(w, t),
         ~Holds(w, t)'
  PROVE  RevertClaim(w) \/ RevertFaults(w) \/ Finalize(w) \/ BrokerCrash
<1>0. job[w] # NoJob /\ job[w].ticket = t /\ job[w] \in Job
  BY DEF Holds, TypeOK
<1>1. job'[w] # job[w]
  BY DEF Holds
<1>2. ASSUME NEW v \in Worker, Handle(v), v # w PROVE FALSE
  BY <1>1, <1>2 DEF Handle, Deny, ConsumeTicket, RefuseTicket, BeginInvoke,
     InvokeReturns, InvokeRaises, Finalize, FinalizeFaults, RevertClaim,
     RevertFaults, SendResult, Advance, Answer, TypeOK
<1>3. ASSUME NEW s \in {"claimed", "invoking", "executed", "failed"}, Advance(w, s)
      PROVE  FALSE
  <2>1. job'[w] = [job[w] EXCEPT !.stage = s]
    BY <1>3 DEF Advance, TypeOK
  <2>2. job'[w] \in Job /\ job'[w].stage = s /\ job'[w].ticket = t
    BY <1>0, <2>1 DEF Job, Stage
  <2>3. QED BY <2>2 DEF Holds
<1>4. CASE Handle(w)
  <2>1. job[w].stage \in {"claimed", "invoking", "executed", "failed"}
    BY DEF Holds
  <2>2. ASSUME \/ ConsumeTicket(w) \/ BeginInvoke(w) \/ InvokeReturns(w)
               \/ InvokeRaises(w) \/ FinalizeFaults(w)
        PROVE  FALSE
    BY <1>3, <2>2 DEF ConsumeTicket, BeginInvoke, InvokeReturns, InvokeRaises,
       FinalizeFaults
  <2>3. ASSUME Deny(w) \/ RefuseTicket(w) \/ SendResult(w) PROVE FALSE
    BY <2>1, <2>3 DEF Deny, RefuseTicket, SendResult, AtStage
  <2>4. QED BY <1>4, <2>2, <2>3 DEF Handle
<1>5. CASE Frontend
  BY <1>0, <1>1, <1>5 DEF Frontend, ApprovalStatus, IssueTicket, PresentTicket,
     AuditRead, AuditReadRefused, Forward, GiveUp, TypeOK
<1>6. CASE Approving
  BY <1>1, <1>6 DEF Approving, SignApproval, ApproveOperation, PushApproval
<1>7. CASE Tick \/ UNCHANGED vars
  BY <1>1, <1>7 DEF Tick, vars
<1>8. QED BY <1>2, <1>4, <1>5, <1>6, <1>7 DEF Next

(* No failure path leaves a claim that nobody will settle: a ticket loses   *)
(* the thread that holds it only when the broker is killed or the revert    *)
(* meets a storage fault.                                                   *)
THEOREM NoClaimIsOrphaned == Spec => NoOrphanClaim
<1>1. ASSUME ClaimInv, [Next]_vars, NEW t \in Ticket, Orphaned(t)', ~Orphaned(t),
             ~BrokerCrash, ~\E w \in Worker : RevertFaults(w)
      PROVE  FALSE
  <2>0. TypeOK /\ rows \in Table
    BY <1>1 DEF ClaimInv, TypeOK, Table
  <2>1. Exists(rows', t) /\ rows'[t].consumed /\ \A w \in Worker : ~Holds(w, t)'
    BY <1>1 DEF Orphaned, Claimed, Exists
  <2>2. ASSUME NEW w \in Worker, RowClaimed(w, t) PROVE FALSE
    <3>1. Advance(w, "claimed") /\ job[w] # NoJob /\ job[w].ticket = t
      BY <2>2 DEF RowClaimed, ConsumeTicket, AtStage
    <3>2. job'[w] = [job[w] EXCEPT !.stage = "claimed"] /\ job[w] \in Job
      BY <2>0, <3>1 DEF Advance, TypeOK
    <3>3. job'[w] \in Job /\ job'[w].stage = "claimed" /\ job'[w].ticket = t
      BY <3>1, <3>2 DEF Job, Stage
    <3>4. QED BY <2>1, <3>3 DEF Holds
  <2>3. Claimed(t)
    BY <2>0, <1>1, <2>1, <2>2, RowStep
       DEF RowIssued, RowApproved, RowReverted, Claimed, Exists
  <2>4. PICK w \in Worker : Holds(w, t)
    BY <1>1, <2>3 DEF Orphaned
  <2>5. RevertClaim(w) \/ Finalize(w)
    BY <1>1, <2>0, <2>1, <2>4, ReleaseStep
  <2>6. job[w].ticket = t /\ (rows' = Revert(rows, t) \/ rows' = Delete(rows, t))
    BY <2>4, <2>5 DEF Holds, RevertClaim, Finalize
  <2>7. QED
    BY <2>0, <2>1, <2>6, RevertUpdate DEF Delete, Table, Exists
<1>2. ClaimInv /\ [Next]_vars =>
        \A t \in Ticket : Orphaned(t)' =>
          Orphaned(t) \/ BrokerCrash \/ \E w \in Worker : RevertFaults(w)
  BY <1>1
<1>3. QED BY <1>2, ClaimInvariance, PTL DEF Spec, NoOrphanClaim

-----------------------------------------------------------------------------
(* The two processes and their table implement the one-shot ticket.        *)

RefinementInv == ClaimInv /\ OneShotInv

(* The abstract life of a ticket, read off four facts about it. *)
Held(t) == \E w \in Worker : Holds(w, t)

Open(t) == Exists(rows, t) /\ ~rows[t].consumed

LEMMA RunningMeans ==
  ASSUME OneShotInv, NEW t \in Ticket
  PROVE  Running(t) <=> Held(t) /\ ~Done(t)
BY DEF Running, Held, OneShotInv, HeldIsFresh

(* A ticket is in exactly one abstract state, and an unissued one has no    *)
(* row, no holder and no completion.                                        *)
StatusFacts(t) ==
  /\ StatusOf(t) \in {"unissued", "pending", "running", "done", "void"}
  /\ StatusOf(t) = "done" <=> Done(t)
  /\ StatusOf(t) = "running" <=> Held(t) /\ ~Done(t)
  /\ StatusOf(t) = "pending" <=> Open(t) /\ ~Held(t) /\ ~Done(t)
  /\ StatusOf(t) = "unissued" <=> issued[t] = NoTicket

LEMMA StatusMeans == RefinementInv => \A t \in Ticket : StatusFacts(t)
<1> SUFFICES ASSUME RefinementInv, NEW t \in Ticket PROVE StatusFacts(t)
  OBVIOUS
<1>1. Running(t) <=> Held(t) /\ ~Done(t)
  BY RunningMeans DEF RefinementInv
<1>2. Exists(rows, t) => issued[t] # NoTicket
  <2>1. Exists(rows, t) =>
          /\ rows[t] \in Row
          /\ issued[t] = [caller |-> rows[t].caller, op |-> rows[t].op]
    BY DEF RefinementInv, ClaimInv, TypeOK, Bound, Exists
  <2>2. QED BY <2>1, NotIssued DEF Row
<1>3. Held(t) => issued[t] # NoTicket
  <2>1. ASSUME NEW w \in Worker, Holds(w, t) PROVE issued[t] # NoTicket
    <3>1. /\ job[w] \in Job
          /\ issued[t] = [caller |-> job[w].caller, op |-> job[w].op]
      BY <2>1 DEF RefinementInv, ClaimInv, TypeOK, Bound, Holds
    <3>2. QED BY <3>1, NotIssued DEF Job
  <2>2. QED BY <2>1 DEF Held
<1>4. Done(t) => issued[t] # NoTicket
  BY DEF RefinementInv, OneShotInv, DoneIsIssued
<1>5. QED
  BY <1>1, <1>2, <1>3, <1>4 DEF StatusOf, Open, StatusFacts

LEMMA StatusMeansNext == RefinementInv' => (\A t \in Ticket : StatusFacts(t))'
BY StatusMeans, PTL

(* Only issuing a ticket changes whom it is issued to, and it leaves a row  *)
(* that waits to be claimed.                                                *)
LEMMA IssueStep ==
  ASSUME RefinementInv, [Next]_vars, NEW t \in Ticket, issued'[t] # issued[t]
  PROVE  issued[t] = NoTicket /\ Open(t)'
<1>0. TypeOK /\ rows \in Table
  BY DEF RefinementInv, ClaimInv, TypeOK, Table
<1>1. ASSUME NEW c \in Caller, NEW op \in Op, NEW u \in Ticket,
             IssueTicket(c, op, u)
      PROVE  issued[t] = NoTicket /\ Open(t)'
  <2>1. t = u
    BY <1>0, <1>1 DEF IssueTicket, TypeOK
  <2>2. rows'[t] \in Row /\ ~rows'[t].consumed
    BY <1>0, <1>1, <2>1 DEF IssueTicket, Create, Table, Row, TtlFor, TypeOK
  <2>3. QED BY <1>1, <2>1, <2>2 DEF IssueTicket, Open, Exists
<1>2. CASE Frontend
  BY <1>1, <1>2 DEF Frontend, ApprovalStatus, PresentTicket, AuditRead,
     AuditReadRefused, Forward, GiveUp
<1>3. CASE Approving
  BY <1>3 DEF Approving, SignApproval, ApproveOperation, PushApproval
<1>4. ASSUME NEW w \in Worker, Handle(w) PROVE FALSE
  BY <1>4 DEF Handle, Deny, ConsumeTicket, RefuseTicket, BeginInvoke,
     InvokeReturns, InvokeRaises, Finalize, FinalizeFaults, RevertClaim,
     RevertFaults, SendResult
<1>5. CASE BrokerCrash \/ Tick \/ UNCHANGED vars
  BY <1>5 DEF BrokerCrash, Tick, vars
<1>6. QED
  BY <1>2, <1>3, <1>4, <1>5 DEF Next

(* A row that waits to be claimed was waiting before, was issued just now,  *)
(* or was given back by the thread that held its claim.                     *)
LEMMA OpenStep ==
  ASSUME RefinementInv, [Next]_vars, NEW t \in Ticket, Open(t)'
  PROVE  Open(t) \/ Held(t) \/ issued[t] = NoTicket
<1>1. TypeOK
  BY DEF RefinementInv, ClaimInv
<1>2. ASSUME NEW w \in Worker, RowReverted(w, t) PROVE Held(t)
  BY <1>2 DEF RowReverted, RevertClaim, AtStage, Holds, Held
<1>3. QED
  BY <1>1, <1>2, RowStep DEF Open, RowIssued, RowApproved, RowClaimed, Exists

(* A claim begins on a row that waits, with the owner's signature if its    *)
(* rule asks for it.                                                        *)
Guarded(t) == issued[t] # NoTicket /\ issued[t].op \in OwnerOp

Cosigned(t) == [signer |-> Owner, ticket |-> t] \in signatures

LEMMA HeldStep ==
  ASSUME RefinementInv, [Next]_vars, NEW t \in Ticket, Held(t)', ~Held(t)
  PROVE  Open(t) /\ (Guarded(t) => Cosigned(t))
<1>0. TypeOK
  BY DEF RefinementInv, ClaimInv
<1>1. PICK w \in Worker : Holds(w, t)'
  BY DEF Held
<1>2. ConsumeTicket(w) /\ job[w].ticket = t
  BY <1>0, <1>1, HoldStep DEF Held
<1>3. /\ Open(t)
      /\ IssuedTo(rows[t], job[w].caller, job[w].op)
      /\ CoSigned(rows[t], job[w].op)
  BY <1>0, <1>2, ClaimMeans DEF Open
<1>4. /\ issued[t] = [caller |-> rows[t].caller, op |-> rows[t].op]
      /\ rows[t].approved => Cosigned(t)
  BY <1>3 DEF Open, RefinementInv, ClaimInv, Bound, Cosigned
<1>5. QED
  BY <1>3, <1>4 DEF Guarded, IssuedTo, CoSigned

(* An operation completes for the thread that holds the claim, or at once   *)
(* in an audit read of a row that waits.                                    *)
LEMMA CompletionStep ==
  ASSUME RefinementInv, [Next]_vars, NEW t \in Ticket, Done(t)', ~Done(t)
  PROVE  \/ Held(t)
         \/ Open(t) /\ (Guarded(t) => Cosigned(t))
<1>0. TypeOK /\ Bound
  BY DEF RefinementInv, ClaimInv
<1>1. runs'[t] # runs[t]
  BY DEF Done
<1>2. ASSUME NEW w \in Worker, InvokeReturns(w), job[w].ticket = t PROVE Held(t)
  BY <1>2 DEF InvokeReturns, AtStage, Holds, Held
<1>3. ASSUME NEW c \in Caller, NEW op \in Op, AuditRead(c, op, t)
      PROVE  Open(t) /\ (Guarded(t) => Cosigned(t))
  <2>1. Open(t)
    BY <1>0, <1>3, AuditIsFresh DEF RefinementInv, OneShotInv, Open
  <2>2. IssuedTo(rows[t], c, op) /\ CoSigned(rows[t], op)
    BY <1>3 DEF AuditRead, Consumable
  <2>3. /\ issued[t] = [caller |-> rows[t].caller, op |-> rows[t].op]
        /\ rows[t].approved => Cosigned(t)
    BY <1>0, <2>1 DEF Open, Bound, Cosigned
  <2>4. QED BY <2>1, <2>2, <2>3 DEF Guarded, IssuedTo, CoSigned
<1>4. QED BY <1>0, <1>1, <1>2, <1>3, RunCounts

(* Every step moves each ticket along its abstract life, or leaves it. *)
AbstractMove(old, new, guarded, cosigned) ==
  \/ new = old
  \/ old = "unissued" /\ new = "pending"
  \/ old = "pending" /\ new \in {"running", "done"} /\ (guarded => cosigned)
  \/ old = "running" /\ new = "done"
  \/ old = "running" /\ new \in {"pending", "void"}
  \/ old = "pending" /\ new = "void"

LEMMA MoveStep ==
  ASSUME RefinementInv, RefinementInv', [Next]_vars, NEW t \in Ticket
  PROVE  AbstractMove(StatusOf(t), StatusOf(t)', Guarded(t), Cosigned(t))
<1>1. StatusFacts(t) /\ StatusFacts(t)'
  BY StatusMeans, StatusMeansNext
<1>2. /\ StatusOf(t)' \in {"unissued", "pending", "running", "done", "void"}
      /\ StatusOf(t)' = "done" <=> Done(t)'
      /\ StatusOf(t)' = "running" <=> Held(t)' /\ ~Done(t)'
      /\ StatusOf(t)' = "pending" <=> Open(t)' /\ ~Held(t)' /\ ~Done(t)'
      /\ StatusOf(t)' = "unissued" <=> issued'[t] = NoTicket
  BY <1>1 DEF StatusFacts
<1>3. Done(t) => Done(t)'
  BY DoneStays DEF RefinementInv, ClaimInv
<1>4. /\ Done(t)' /\ ~Done(t) => Held(t) \/ (Open(t) /\ (Guarded(t) => Cosigned(t)))
      /\ Held(t)' /\ ~Held(t) => Open(t) /\ (Guarded(t) => Cosigned(t))
      /\ Open(t)' => Open(t) \/ Held(t) \/ issued[t] = NoTicket
      /\ issued'[t] # issued[t] => issued[t] = NoTicket /\ Open(t)'
  BY CompletionStep, HeldStep, OpenStep, IssueStep
<1>5. CASE StatusOf(t) = "done"
  BY <1>1, <1>2, <1>3, <1>5 DEF AbstractMove, StatusFacts
<1>6. CASE StatusOf(t) = "running"
  BY <1>1, <1>2, <1>4, <1>6 DEF AbstractMove, StatusFacts
<1>7. CASE StatusOf(t) = "pending"
  BY <1>1, <1>2, <1>4, <1>7 DEF AbstractMove, StatusFacts
<1>8. CASE StatusOf(t) = "unissued"
  BY <1>1, <1>2, <1>4, <1>8 DEF AbstractMove, StatusFacts
<1>9. CASE StatusOf(t) = "void"
  BY <1>1, <1>2, <1>4, <1>9 DEF AbstractMove, StatusFacts
<1>10. QED
  BY <1>1, <1>5, <1>6, <1>7, <1>8, <1>9 DEF StatusFacts

LEMMA LifecycleInit == Init => Lifecycle!Init
<1> SUFFICES ASSUME Init PROVE Lifecycle!Init
  OBVIOUS
<1>1. ASSUME NEW t \in Ticket PROVE StatusOf(t) = "unissued"
  BY DEF Init, StatusOf, Running, Holds, Done, Exists
<1>2. /\ {t \in Ticket : issued[t] # NoTicket /\ issued[t].op \in OwnerOp} = {}
      /\ {t \in Ticket : [signer |-> Owner, ticket |-> t] \in signatures} = {}
  BY DEF Init
<1>3. QED BY <1>1, <1>2 DEF Lifecycle!Init

LEMMA LifecycleStep ==
  ASSUME RefinementInv, RefinementInv', [Next]_vars
  PROVE  Lifecycle!Next
<1> DEFINE status == [t \in Ticket |-> StatusOf(t)]
           guarded == {t \in Ticket : issued[t] # NoTicket /\ issued[t].op \in OwnerOp}
           cosigned == {t \in Ticket : [signer |-> Owner, ticket |-> t] \in signatures}
<1>0. TypeOK
  BY DEF RefinementInv, ClaimInv
<1>1. status' \in [Ticket -> Lifecycle!Status]
  <2>1. \A t \in Ticket : StatusOf(t)' \in Lifecycle!Status
    BY StatusMeansNext DEF StatusFacts, Lifecycle!Status
  <2>2. QED BY <2>1
<1>2. ASSUME NEW t \in Ticket PROVE Lifecycle!Move(t)
  <2>1. /\ status[t] = StatusOf(t)
        /\ status'[t] = StatusOf(t)'
        /\ t \in guarded <=> Guarded(t)
        /\ t \in cosigned <=> Cosigned(t)
    BY DEF Guarded, Cosigned
  <2>2. AbstractMove(status[t], status'[t], t \in guarded, t \in cosigned)
    BY <2>1, MoveStep DEF AbstractMove
  <2>3. QED
    BY <2>2 DEF AbstractMove, Lifecycle!Move, Lifecycle!Issue, Lifecycle!Begin,
       Lifecycle!Succeed, Lifecycle!Fail, Lifecycle!Withdraw
<1>3. guarded \subseteq guarded' /\ cosigned \subseteq cosigned'
  BY <1>0, HistoryStep
<1>4. ASSUME NEW t \in guarded' \ guarded PROVE status[t] = "unissued"
  <2>1. t \in Ticket /\ issued[t] = NoTicket
    BY <1>0, <1>4, HistoryStep
  <2>2. QED BY <2>1, StatusMeans DEF StatusFacts
<1>5. QED
  BY <1>1, <1>2, <1>3, <1>4 DEF Lifecycle!Next

(* The frontend, the broker's threads and their table implement the         *)
(* one-shot ticket: whatever is interleaved, lost or killed, each ticket    *)
(* goes from pending to running only with the signature its rule asks for,  *)
(* from running to done once, and back to pending when its operation fails. *)
(* A SQLite error in finalize or revert is the one thing it excludes.       *)
THEOREM OneShotRefinement ==
  ASSUME ~StorageFaults
  PROVE  Spec => ImplementsOneShot
<1>1. Init => RefinementInv
  BY TypeInit, SafetyInit DEF RefinementInv, ClaimInv
<1>2. RefinementInv /\ [Next]_vars => RefinementInv'
  BY TypeStep, BoundStep, ExclusiveStep, OneShotStep DEF RefinementInv, ClaimInv
<1>3. RefinementInv /\ RefinementInv' /\ [Next]_vars => Lifecycle!Next
  BY LifecycleStep
<1>4. QED
  BY <1>1, <1>2, <1>3, LifecycleInit, PTL DEF Spec, ImplementsOneShot, Lifecycle!Spec
=============================================================================
