--------------------------- MODULE BrokeredWrite ---------------------------
(***************************************************************************)
(* A confirmed write in the packaged deployment: the unprivileged frontend *)
(* (server.py, policy/enforcement.py, audit/decorator.py) checks a ticket  *)
(* under its WriteLock and forwards the request over a Unix socket; one    *)
(* thread of the root broker (broker/helper.py) per request claims the     *)
(* ticket, runs the YunoHost operation and finalizes or reverts the claim. *)
(* Both processes share the ticket table of ConfirmationStore.             *)
(***************************************************************************)
EXTENDS ConfirmationStore

CONSTANTS
  Worker,         \* broker handler threads that can be busy at once
  MaxTime,        \* bound on the clock
  CanCrash,       \* whether the broker process may be killed and restarted
  StorageFaults,  \* whether finalize and revert may raise a SQLite error
  NoTicket,       \* history: a ticket that was never issued
  NoJob,          \* an idle broker thread
  NoCall,         \* a free WriteLock
  NoWorker        \* a call that holds the lock and has not been forwarded

Request == [ticket : Ticket, caller : Caller, op : Op]

(* Where a broker thread is in BrokerRequestHandler.handle. *)
Stage == {"received", "claimed", "invoking", "executed", "failed", "finalized"}

Job == [stage : Stage, ticket : Ticket, caller : Caller, op : Op]

Call == [ticket : Ticket, caller : Caller, op : Op,
         worker : Worker \cup {NoWorker}]

Issue == [caller : Caller, op : Op]

ASSUME WriteAssumption ==
  /\ MaxTime \in Nat
  /\ CanCrash \in BOOLEAN
  /\ StorageFaults \in BOOLEAN
  /\ NoTicket \notin Issue
  /\ NoJob \notin Job
  /\ NoCall \notin Call
  /\ NoWorker \notin Worker

VARIABLES
  rows,        \* the confirmations table
  now,         \* time.time(), shared by both processes
  signatures,  \* kind-24243 events that exist in the world
  call,        \* the tool call that holds write_lock
  job,         \* the request each broker thread is handling
  issued,      \* history: whom each ticket was created for, and for what
  executed,    \* history: the requests whose operation ran to completion
  runs         \* history: how often a ticket's operation ran to completion,
               \* counted up to 2

vars == <<rows, now, signatures, call, job, issued, executed, runs>>

Init ==
  /\ rows = [t \in Ticket |-> NoRow]
  /\ now = 0
  /\ signatures = {}
  /\ call = NoCall
  /\ job = [w \in Worker |-> NoJob]
  /\ issued = [t \in Ticket |-> NoTicket]
  /\ executed = {}
  /\ runs = [t \in Ticket |-> 0]

CountRun(n) == IF n < 2 THEN n + 1 ELSE n

-----------------------------------------------------------------------------
(* The frontend.                                                           *)

(* A call without a confirmation_id returns confirmation_required.  Write   *)
(* tools hold the WriteLock for its whole, short, duration; the audit reads *)
(* are not audited writes and take no lock.                                 *)
IssueTicket(c, op, t) ==
  /\ op \in LocalOp \/ call = NoCall
  /\ issued[t] = NoTicket
  /\ rows' = Create(rows, t, c, op, now)
  /\ issued' = [issued EXCEPT ![t] = [caller |-> c, op |-> op]]
  /\ UNCHANGED <<now, signatures, call, job, executed, runs>>

(* A call with a confirmation_id takes the lock and peeks; one that is      *)
(* accepted keeps the lock while the tool body calls the broker.            *)
Accepted(t, c, op) ==
  /\ Peekable(rows, t, now)
  /\ IssuedTo(rows[t], c, op)
  /\ CoSigned(rows[t], op)

PresentTicket(c, op, t) ==
  /\ op \notin LocalOp
  /\ call = NoCall
  /\ rows' = CheckLive(rows, t, now)
  /\ call' = IF Accepted(t, c, op)
             THEN [ticket |-> t, caller |-> c, op |-> op, worker |-> NoWorker]
             ELSE NoCall
  /\ UNCHANGED <<now, signatures, job, issued, executed, runs>>

(* broker/client.py: connect and send; ThreadingMixIn gives the request a   *)
(* thread of its own.                                                       *)
Forward(w) ==
  /\ call # NoCall
  /\ call.worker = NoWorker
  /\ job[w] = NoJob
  /\ call' = [call EXCEPT !.worker = w]
  /\ job' = [job EXCEPT ![w] = [stage |-> "received", ticket |-> call.ticket,
                                caller |-> call.caller, op |-> call.op]]
  /\ UNCHANGED <<rows, now, signatures, issued, executed, runs>>

(* The socket refuses, the answer does not come within                      *)
(* request_timeout_seconds, or the frontend restarts: the lock is released  *)
(* and a thread already at work is not told.                                *)
GiveUp ==
  /\ call # NoCall
  /\ call' = NoCall
  /\ UNCHANGED <<rows, now, signatures, job, issued, executed, runs>>

(* approval_get and approval_status peek before they look at who asks.      *)
ApprovalStatus(t) ==
  /\ rows' = CheckLive(rows, t, now)
  /\ UNCHANGED <<now, signatures, call, job, issued, executed, runs>>

(* audit_list and audit_get consume without defer and then only read, so    *)
(* the read is part of the same step.  An id that was issued for something  *)
(* else is removed by the attempt.                                          *)
AuditRead(c, op, t) ==
  /\ op \in LocalOp
  /\ Consumable(rows, t, c, op, now)
  /\ rows' = Delete(rows, t)
  /\ executed' = executed \cup {[ticket |-> t, caller |-> c, op |-> op]}
  /\ runs' = [runs EXCEPT ![t] = CountRun(@)]
  /\ UNCHANGED <<now, signatures, call, job, issued>>

AuditReadRefused(c, op, t) ==
  /\ op \in LocalOp
  /\ ~Consumable(rows, t, c, op, now)
  /\ rows' = ConsumeRefused(rows, t, c, op, now)
  /\ UNCHANGED <<now, signatures, call, job, issued, executed, runs>>

-----------------------------------------------------------------------------
(* The owner.                                                              *)

(* Anyone may sign an event about a ticket that exists, the owner included. *)
SignApproval(s, t) ==
  /\ issued[t] # NoTicket
  /\ signatures' = signatures \cup {[signer |-> s, ticket |-> t]}
  /\ UNCHANGED <<rows, now, call, job, issued, executed, runs>>

(* approve_operation: an audited write, so it needs the lock, and it may be *)
(* handed any event about any ticket.                                       *)
ApproveOperation(e, t) ==
  /\ call = NoCall
  /\ rows' = Approve(rows, e, t, now)
  /\ UNCHANGED <<now, signatures, call, job, issued, executed, runs>>

(* _push_owner_approval: a background thread that took no lock presents the *)
(* event it got back for the ticket it was started for.                     *)
PushApproval(e, t) ==
  /\ issued[t] # NoTicket
  /\ issued[t].op \in OwnerOp
  /\ OwnerSigned(e, t)
  /\ rows' = Approve(rows, e, t, now)
  /\ UNCHANGED <<now, signatures, call, job, issued, executed, runs>>

-----------------------------------------------------------------------------
(* The broker: BrokerRequestHandler.handle in thread w.                    *)

AtStage(w, s) == job[w] # NoJob /\ job[w].stage = s

Advance(w, s) == job' = [job EXCEPT ![w].stage = s]

(* The thread ends; the client that is still waiting for it gets an answer  *)
(* and its tool call releases the lock.                                     *)
Answer(w) ==
  /\ job' = [job EXCEPT ![w] = NoJob]
  /\ call' = IF call # NoCall /\ call.worker = w THEN NoCall ELSE call

(* Peer, protocol, NIP-98, scope and hard policy checks come before the     *)
(* consume; refusing leaves the ticket as it was.                           *)
Deny(w) ==
  /\ AtStage(w, "received")
  /\ Answer(w)
  /\ UNCHANGED <<rows, now, signatures, issued, executed, runs>>

ConsumeTicket(w) ==
  LET j == job[w] IN
  /\ AtStage(w, "received")
  /\ Claimable(rows, j.ticket, j.caller, j.op, now)
  /\ rows' = Claim(rows, j.ticket)
  /\ Advance(w, "claimed")
  /\ UNCHANGED <<now, signatures, call, issued, executed, runs>>

RefuseTicket(w) ==
  LET j == job[w] IN
  /\ AtStage(w, "received")
  /\ ~Claimable(rows, j.ticket, j.caller, j.op, now)
  /\ rows' = ConsumeRefused(rows, j.ticket, j.caller, j.op, now)
  /\ Answer(w)
  /\ UNCHANGED <<now, signatures, issued, executed, runs>>

(* The package-test session check passes, or there is none to make. *)
BeginInvoke(w) ==
  /\ AtStage(w, "claimed")
  /\ Advance(w, "invoking")
  /\ UNCHANGED <<rows, now, signatures, call, issued, executed, runs>>

(* operation.invoke returns. *)
InvokeReturns(w) ==
  LET j == job[w] IN
  /\ AtStage(w, "invoking")
  /\ Advance(w, "executed")
  /\ executed' = executed \cup
       {[ticket |-> j.ticket, caller |-> j.caller, op |-> j.op]}
  /\ runs' = [runs EXCEPT ![j.ticket] = CountRun(@)]
  /\ UNCHANGED <<rows, now, signatures, call, issued>>

(* Mutant: the error branch answers and forgets the claim. *)
InvokeRaisesUnhandled(w) ==
  /\ AtStage(w, "claimed") \/ AtStage(w, "invoking")
  /\ Answer(w)
  /\ UNCHANGED <<rows, now, signatures, issued, executed, runs>>

(* The session check or operation.invoke raises. *)
InvokeRaises(w) ==
  /\ AtStage(w, "claimed") \/ AtStage(w, "invoking")
  /\ Advance(w, "failed")
  /\ UNCHANGED <<rows, now, signatures, call, issued, executed, runs>>

(* finalize: the row may be gone, removed since the claim by a peek that    *)
(* found it lapsed or by a consume for something else; then it raises.      *)
Finalize(w) ==
  LET t == job[w].ticket IN
  /\ AtStage(w, "executed")
  /\ rows' = Delete(rows, t)
  /\ Advance(w, IF Exists(rows, t) THEN "finalized" ELSE "failed")
  /\ UNCHANGED <<now, signatures, call, issued, executed, runs>>

(* finalize raises sqlite3.OperationalError (table locked past              *)
(* busy_timeout, disk full) and changes nothing.                            *)
FinalizeFaults(w) ==
  /\ StorageFaults
  /\ AtStage(w, "executed")
  /\ Advance(w, "failed")
  /\ UNCHANGED <<rows, now, signatures, call, issued, executed, runs>>

(* Mutant: a failed operation burns its ticket. *)
RevertBurns(w) ==
  /\ AtStage(w, "failed")
  /\ rows' = Delete(rows, job[w].ticket)
  /\ Answer(w)
  /\ UNCHANGED <<now, signatures, issued, executed, runs>>

(* Mutant: a failed operation is tried again by the same thread. *)
RevertRetries(w) ==
  /\ AtStage(w, "failed")
  /\ Advance(w, "invoking")
  /\ UNCHANGED <<rows, now, signatures, call, issued, executed, runs>>

(* Every except branch: _revert_confirmation, then the error response. *)
RevertClaim(w) ==
  /\ AtStage(w, "failed")
  /\ rows' = Revert(rows, job[w].ticket)
  /\ Answer(w)
  /\ UNCHANGED <<now, signatures, issued, executed, runs>>

RevertFaults(w) ==
  /\ StorageFaults
  /\ AtStage(w, "failed")
  /\ Answer(w)
  /\ UNCHANGED <<rows, now, signatures, issued, executed, runs>>

(* The response is sent.  A response that cannot be encoded or delivered    *)
(* takes the error branch, whose revert finds no row.                       *)
SendResult(w) ==
  /\ AtStage(w, "finalized")
  /\ Answer(w)
  /\ UNCHANGED <<rows, now, signatures, issued, executed, runs>>

-----------------------------------------------------------------------------
(* The environment.                                                        *)

(* The broker is killed and started again: its threads are gone, the table  *)
(* and its markers are not, and a waiting client reads end of file.         *)
BrokerCrash ==
  /\ CanCrash
  /\ job' = [w \in Worker |-> NoJob]
  /\ call' = IF call # NoCall /\ call.worker # NoWorker THEN NoCall ELSE call
  /\ UNCHANGED <<rows, now, signatures, issued, executed, runs>>

Tick ==
  /\ now < MaxTime
  /\ now' = now + 1
  /\ UNCHANGED <<rows, signatures, call, job, issued, executed, runs>>

Frontend ==
  \/ \E t \in Ticket : ApprovalStatus(t)
  \/ \E c \in Caller, op \in Op, t \in Ticket :
       \/ IssueTicket(c, op, t)
       \/ PresentTicket(c, op, t)
       \/ AuditRead(c, op, t)
       \/ AuditReadRefused(c, op, t)
  \/ \E w \in Worker : Forward(w)
  \/ GiveUp

Approving ==
  \/ \E s \in Caller, t \in Ticket : SignApproval(s, t)
  \/ \E e \in signatures, t \in Ticket :
       ApproveOperation(e, t) \/ PushApproval(e, t)

Handle(w) ==
  \/ Deny(w) \/ ConsumeTicket(w) \/ RefuseTicket(w)
  \/ BeginInvoke(w) \/ InvokeReturns(w) \/ InvokeRaises(w)
  \/ Finalize(w) \/ FinalizeFaults(w)
  \/ RevertClaim(w) \/ RevertFaults(w) \/ SendResult(w)

Next ==
  \/ Frontend
  \/ Approving
  \/ \E w \in Worker : Handle(w)
  \/ BrokerCrash
  \/ Tick

Spec == Init /\ [][Next]_vars

(* A thread the broker has started runs on: its steps are plain code, and   *)
(* YunoHost's own operations return or raise.                               *)
FairSpec == Spec /\ \A w \in Worker : WF_vars(Handle(w))

-----------------------------------------------------------------------------
(* Properties.                                                             *)

(* Every variable holds what the code can put in it, and no row outlives    *)
(* the TTL of its kind of ticket.                                           *)
TypeOK ==
  /\ rows \in [Ticket -> Row \cup {NoRow}]
  /\ now \in 0..MaxTime
  /\ \A t \in Ticket :
       Exists(rows, t) => rows[t].expires <= now + TtlFor(rows[t].op)
  /\ signatures \subseteq Approval
  /\ call \in Call \cup {NoCall}
  /\ job \in [Worker -> Job \cup {NoJob}]
  /\ issued \in [Ticket -> Issue \cup {NoTicket}]
  /\ executed \subseteq Request
  /\ runs \in [Ticket -> 0..2]

(* The thread has claimed t and has neither finalized nor reverted. *)
Holds(w, t) ==
  /\ job[w] # NoJob
  /\ job[w].stage \in {"claimed", "invoking", "executed", "failed"}
  /\ job[w].ticket = t

Claimed(t) == Exists(rows, t) /\ rows[t].consumed

Done(t) == runs[t] > 0

(* One-shot: whatever two clients, timed-out calls, concurrent broker       *)
(* threads, lapses and crashes do, the operation of one confirmation runs   *)
(* to completion at most once (confirmation.py 404-415).                    *)
AtMostOnce == \A t \in Ticket : runs[t] <= 1

(* An operation only ever completes for the identity and the exact          *)
(* arguments its ticket was issued for and, when the rule asks for it,      *)
(* after the owner signed an approval of that very ticket                   *)
(* (confirmation.py 95-120, 392-400).                                       *)
Authorised ==
  \A r \in executed :
    /\ issued[r.ticket] = [caller |-> r.caller, op |-> r.op]
    /\ r.op \in OwnerOp =>
         [signer |-> Owner, ticket |-> r.ticket] \in signatures

(* Two threads never hold the claim on one ticket, even when its row was    *)
(* removed under the first of them.                                         *)
ExclusiveClaim ==
  \A v, w \in Worker : \A t \in Ticket :
    Holds(v, t) /\ Holds(w, t) => v = w

(* Once its operation has completed, a ticket is never again in a state     *)
(* from which it could be claimed: the answer may be lost, the broker may   *)
(* die before finalize, and a retry still finds nothing to run.             *)
NeverRetriableOnceDone ==
  \A t \in Ticket : Done(t) => ~Exists(rows, t) \/ rows[t].consumed

(* Nobody is left to finalize or revert the claim on t. *)
Orphaned(t) == Claimed(t) /\ ~\E w \in Worker : Holds(w, t)

(* No failure path of handle() leaves a live ticket unusable: a consumed_at *)
(* marker loses the thread that would settle it only when the broker is     *)
(* killed, or when the revert itself meets a storage fault.                 *)
NoOrphanClaim ==
  [][\A t \in Ticket : Orphaned(t)' =>
       Orphaned(t) \/ BrokerCrash \/ \E w \in Worker : RevertFaults(w)]_vars

(* A row leaves the table only because it lapsed, because its operation     *)
(* completed, or because an audit read presented its id for something else: *)
(* a denied, refused, failed, timed-out or interrupted write keeps the      *)
(* ticket (confirmation.py 258-266).                                        *)
BurnedForCause ==
  [][\A t \in Ticket :
       Exists(rows, t) /\ ~Exists(rows', t) =>
         \/ Expired(rows, t, now)
         \/ runs'[t] > 0
         \/ \E c \in Caller, op \in LocalOp :
              AuditReadRefused(c, op, t) /\ ~IssuedTo(rows[t], c, op)]_vars

(* The owner's approval outlives every failed attempt: as long as the row   *)
(* is there it stays approved, so the requester can retry without asking    *)
(* the owner again.                                                         *)
ApprovalKept ==
  [][\A t \in Ticket :
       /\ Exists(rows, t) /\ rows[t].approved
       /\ Exists(rows', t)
       => rows'[t].approved]_vars

(* Every claim is settled, its operation completing or its ticket becoming  *)
(* usable again or going away, unless a crash or a storage fault took its   *)
(* thread.                                                                  *)
ClaimSettles ==
  \A t \in Ticket : Claimed(t) ~> ~Claimed(t) \/ Orphaned(t)

(* The table, the threads and the history read as the life of a ticket. *)
(* A thread that claims a ticket whose operation already completed is       *)
(* running it again.                                                        *)
Running(t) ==
  \E w \in Worker :
    Holds(w, t) /\ (~Done(t) \/ AtStage(w, "claimed") \/ AtStage(w, "invoking"))

StatusOf(t) ==
  IF Running(t) THEN "running"
  ELSE IF Done(t) THEN "done"
  ELSE IF Exists(rows, t) /\ ~rows[t].consumed THEN "pending"
  ELSE IF issued[t] = NoTicket THEN "unissued" ELSE "void"

Lifecycle == INSTANCE OneShotTicket WITH
  status <- [t \in Ticket |-> StatusOf(t)],
  guarded <- {t \in Ticket : issued[t] # NoTicket /\ issued[t].op \in OwnerOp},
  cosigned <- {t \in Ticket : [signer |-> Owner, ticket |-> t] \in signatures}

(* The two processes and their table implement the one-shot ticket. *)
ImplementsOneShot == Lifecycle!Spec

-----------------------------------------------------------------------------
(* The strengthening under which the safety invariants are inductive.      *)

(* What the columns of a row and the stage of a thread say about the        *)
(* history: a row keeps the identity and operation it was created with, its *)
(* approval has a signature behind it, and a thread past the consume works  *)
(* on exactly what was issued.  Audit reads never reach the broker, so no   *)
(* audit ticket is ever claimed.                                            *)
Bound ==
  /\ \A t \in Ticket : Exists(rows, t) =>
       /\ issued[t] = [caller |-> rows[t].caller, op |-> rows[t].op]
       /\ rows[t].approved => [signer |-> Owner, ticket |-> t] \in signatures
       /\ rows[t].consumed => rows[t].op \notin LocalOp
  /\ call # NoCall => call.op \notin LocalOp
  /\ \A w \in Worker : job[w] # NoJob => job[w].op \notin LocalOp
  /\ \A w \in Worker, t \in Ticket : Holds(w, t) =>
       /\ issued[t] = [caller |-> job[w].caller, op |-> job[w].op]
       /\ job[w].op \in OwnerOp =>
            [signer |-> Owner, ticket |-> t] \in signatures

(* A held claim shows in the row for as long as there is a row. *)
HeldIsConsumed ==
  \A w \in Worker, t \in Ticket :
    Holds(w, t) => ~Exists(rows, t) \/ rows[t].consumed

(* Without storage faults: a thread on its way to the operation has a       *)
(* ticket that is not done, and one that failed after the operation lost    *)
(* its row, so that its revert frees nothing.                               *)
HeldIsFresh ==
  \A w \in Worker, t \in Ticket : Holds(w, t) /\ Done(t) =>
    /\ ~AtStage(w, "claimed")
    /\ ~AtStage(w, "invoking")
    /\ AtStage(w, "failed") => ~Exists(rows, t)

DoneIsIssued == \A t \in Ticket : Done(t) => issued[t] # NoTicket

OneShotInv ==
  AtMostOnce /\ NeverRetriableOnceDone /\ HeldIsFresh /\ DoneIsIssued
=============================================================================
