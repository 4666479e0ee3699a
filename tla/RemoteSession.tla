---------------------------- MODULE RemoteSession ----------------------------
(***************************************************************************)
(* The bridge's connection to one remote server (bridge.py, RemoteSession  *)
(* and the part of _async_main that owns it).  Requests of the local MCP   *)
(* client connect on demand and share one connection; each connection is   *)
(* held by a task of its own.  Everything runs on one event loop, so a     *)
(* step here is the code between two awaits.                               *)
(***************************************************************************)
EXTENDS Naturals

CONSTANTS
  Request,   \* requests of the local client; each starts one connection at most
  NoConn     \* None

ASSUME NoConnAssumption == NoConn \notin Request

(* The connection a request starts is named after the request. *)
Conn == Request

VARIABLES
  remote,      \* _remote: the connection requests are given
  closeEvent,  \* _close_event: the connection that will be told to close
  cooling,     \* time.monotonic() < _next_retry_at
  lock,        \* the request inside _state_lock, or NoConn
  pc,          \* where each request is
  client,      \* the connection each request calls
  stage,       \* how far the task of each connection is
  told,        \* connections whose close event is set
  ready,       \* connections whose ready event is set
  phase,       \* of the process: "serving", "closing", "closed"
  causes       \* history: what has happened that the session does not repair

vars == <<remote, closeEvent, cooling, lock, pc, client, stage, told, ready,
          phase, causes>>

session == <<remote, closeEvent, cooling>>
conns == <<stage, told, ready>>

Ended == {"answered", "failed", "cancelled"}

Init ==
  /\ remote = NoConn
  /\ closeEvent = NoConn
  /\ cooling = FALSE
  /\ lock = NoConn
  /\ pc = [r \in Request |-> "new"]
  /\ client = [r \in Request |-> NoConn]
  /\ stage = [c \in Conn |-> "none"]
  /\ told = {}
  /\ ready = {}
  /\ phase = "serving"
  /\ causes = {}

Goto(r, where) == pc' = [pc EXCEPT ![r] = where]

-----------------------------------------------------------------------------
(* _connect.                                                               *)

(* _remote is there: the request goes on to its operation. *)
UseRemote(r) ==
  /\ remote # NoConn
  /\ Goto(r, "calling")
  /\ client' = [client EXCEPT ![r] = remote]
  /\ UNCHANGED <<session, lock, conns, phase, causes>>

CoolingDown(r) ==
  /\ remote = NoConn
  /\ cooling
  /\ Goto(r, "failed")
  /\ UNCHANGED <<session, lock, client, conns, phase, causes>>

(* A task is started for a new connection; the request waits for it with    *)
(* the lock in its hands.                                                   *)
StartConnection(r) ==
  /\ closeEvent' = r
  /\ stage' = [stage EXCEPT ![r] = "starting"]
  /\ lock' = r
  /\ Goto(r, "waiting")
  /\ UNCHANGED <<remote, cooling, client, told, ready, phase, causes>>

(* The checks before the lock; an unlocked lock is taken without yielding,  *)
(* so that the checks inside it find what the first ones found.             *)
Begin(r) ==
  /\ phase = "serving"
  /\ pc[r] = "new"
  /\ \/ UseRemote(r)
     \/ CoolingDown(r)
     \/ /\ remote = NoConn /\ ~cooling /\ lock = NoConn
        /\ StartConnection(r)
     \/ /\ remote = NoConn /\ ~cooling /\ lock # NoConn
        /\ Goto(r, "queued")
        /\ UNCHANGED <<session, lock, client, conns, phase, causes>>

(* Mutants: one of the checks is not made again inside the lock. *)
LockedNoRemoteCheck(r) ==
  /\ pc[r] = "queued"
  /\ lock = NoConn
  /\ CoolingDown(r) \/ (~cooling /\ StartConnection(r))

LockedNoTimeCheck(r) ==
  /\ pc[r] = "queued"
  /\ lock = NoConn
  /\ UseRemote(r) \/ (remote = NoConn /\ StartConnection(r))

(* The lock was taken; by the time it is free both answers may differ. *)
Locked(r) ==
  /\ pc[r] = "queued"
  /\ lock = NoConn
  /\ \/ UseRemote(r)
     \/ CoolingDown(r)
     \/ remote = NoConn /\ ~cooling /\ StartConnection(r)

(* ready.wait() returns and the lock is released; by now the connection may *)
(* have failed, or come and gone.                                           *)
Awaken(r) ==
  /\ pc[r] = "waiting"
  /\ r \in ready
  /\ lock' = NoConn
  /\ \/ /\ remote = NoConn
        /\ closeEvent' = NoConn
        /\ cooling' = TRUE
        /\ Goto(r, "failed")
        /\ UNCHANGED client
     \/ /\ remote # NoConn
        /\ cooling' = FALSE
        /\ Goto(r, "calling")
        /\ client' = [client EXCEPT ![r] = remote]
        /\ UNCHANGED closeEvent
  /\ UNCHANGED <<remote, conns, phase, causes>>

-----------------------------------------------------------------------------
(* request and _drop.                                                      *)

OperationReturns(r) ==
  /\ pc[r] = "calling"
  /\ Goto(r, "answered")
  /\ UNCHANGED <<session, lock, client, conns, phase, causes>>

TellToClose ==
  told' = IF closeEvent = NoConn THEN told ELSE told \cup {closeEvent}

(* Mutant: whatever connection is current is dropped. *)
DropAny(r) ==
  /\ remote' = NoConn
  /\ cooling' = TRUE
  /\ TellToClose
  /\ closeEvent' = NoConn

(* The body of _drop, inside the lock. *)
Drop(r) ==
  IF remote # client[r]
  THEN UNCHANGED <<session, told>>
  ELSE /\ remote' = NoConn
       /\ cooling' = TRUE
       /\ TellToClose
       /\ closeEvent' = NoConn

(* The operation raises; the lock may have to be waited for. *)
OperationFails(r) ==
  /\ pc[r] = "calling"
  /\ IF lock = NoConn
     THEN Drop(r) /\ Goto(r, "failed")
     ELSE Goto(r, "dropping") /\ UNCHANGED <<session, told>>
  /\ UNCHANGED <<lock, client, stage, ready, phase, causes>>

DropLater(r) ==
  /\ pc[r] = "dropping"
  /\ lock = NoConn
  /\ Drop(r)
  /\ Goto(r, "failed")
  /\ UNCHANGED <<lock, client, stage, ready, phase, causes>>

(* The dispatcher's fail_after, or the client, cancels a request.  One that *)
(* waits for a connection that is not ready leaves it to come up unwatched. *)
Cancel(r) ==
  /\ pc[r] \in {"queued", "waiting", "calling", "dropping"}
  /\ Goto(r, "cancelled")
  /\ lock' = IF lock = r THEN NoConn ELSE lock
  /\ causes' = IF lock = r /\ r \notin ready THEN causes \cup {"cancelled"}
               ELSE causes
  /\ UNCHANGED <<session, client, conns, phase>>

-----------------------------------------------------------------------------
(* _run_connection, the task of connection c.                              *)

ConnUp(c) ==
  /\ stage[c] = "starting"
  /\ stage' = [stage EXCEPT ![c] = "open"]
  /\ remote' = c
  /\ ready' = ready \cup {c}
  /\ UNCHANGED <<closeEvent, cooling, lock, pc, client, told, phase, causes>>

(* finally: self._remote = None, whichever connection that is. *)
Forget(c) ==
  /\ remote' = NoConn
  /\ causes' = IF remote \in {c, NoConn} THEN causes
               ELSE causes \cup {"ended late"}
  /\ stage' = [stage EXCEPT ![c] = "ended"]

(* Mutant: nobody is told of the failure. *)
ConnFailsSilently(c) ==
  /\ stage[c] = "starting"
  /\ Forget(c)
  /\ UNCHANGED <<closeEvent, cooling, lock, pc, client, told, ready, phase>>

ConnFails(c) ==
  /\ stage[c] = "starting"
  /\ ready' = ready \cup {c}
  /\ Forget(c)
  /\ UNCHANGED <<closeEvent, cooling, lock, pc, client, told, phase>>

(* The close event is set, or the transport breaks: the task leaves its     *)
(* async with block, which takes its time.                                  *)
ConnCloses(c) ==
  /\ stage[c] = "open"
  /\ c \in told
  /\ stage' = [stage EXCEPT ![c] = "closing"]
  /\ UNCHANGED <<session, lock, pc, client, told, ready, phase, causes>>

ConnBreaks(c) ==
  /\ stage[c] = "open"
  /\ stage' = [stage EXCEPT ![c] = "closing"]
  /\ UNCHANGED <<session, lock, pc, client, told, ready, phase, causes>>

ConnEnds(c) ==
  /\ stage[c] = "closing"
  /\ Forget(c)
  /\ UNCHANGED <<closeEvent, cooling, lock, pc, client, told, ready, phase>>

-----------------------------------------------------------------------------
(* _async_main.                                                            *)

(* Standard input ends: run_stdio_async takes its handlers down and returns.*)
StdioEnds ==
  /\ phase = "serving"
  /\ phase' = "closing"
  /\ pc' = [r \in Request |-> IF pc[r] \in Ended THEN pc[r] ELSE "cancelled"]
  /\ lock' = NoConn
  /\ UNCHANGED <<session, client, conns, causes>>

(* Mutant: the connection is forgotten, not told. *)
CloseSilently ==
  /\ phase = "closing"
  /\ phase' = "closed"
  /\ remote' = NoConn
  /\ closeEvent' = NoConn
  /\ UNCHANGED <<cooling, lock, pc, client, conns, causes>>

(* close; what is left is for the task group to wait for its tasks. *)
Close ==
  /\ phase = "closing"
  /\ phase' = "closed"
  /\ remote' = NoConn
  /\ TellToClose
  /\ closeEvent' = NoConn
  /\ UNCHANGED <<cooling, lock, pc, client, stage, ready, causes>>

(* RETRY_DELAY_SECONDS are over. *)
CooldownEnds ==
  /\ cooling
  /\ cooling' = FALSE
  /\ UNCHANGED <<remote, closeEvent, lock, pc, client, conns, phase, causes>>

RequestStep(r) ==
  \/ Locked(r) \/ Awaken(r) \/ DropLater(r)
  \/ OperationReturns(r) \/ OperationFails(r)

ConnStep(c) == ConnUp(c) \/ ConnFails(c) \/ ConnCloses(c) \/ ConnEnds(c)

Next ==
  \/ \E r \in Request : Begin(r) \/ RequestStep(r) \/ Cancel(r)
  \/ \E c \in Conn : ConnStep(c) \/ ConnBreaks(c)
  \/ StdioEnds
  \/ Close
  \/ CooldownEnds

Spec == Init /\ [][Next]_vars

(* The event loop runs what can run; a handshake, an operation and the end  *)
(* of a transport take bounded time (httpx2.Timeout(120.0)).                *)
FairSpec ==
  /\ Spec
  /\ \A r \in Request : WF_vars(RequestStep(r))
  /\ \A c \in Conn : WF_vars(ConnStep(c))
  /\ WF_vars(Close)

-----------------------------------------------------------------------------
(* Properties.                                                             *)

(* A connection that holds on until it is told to let go. *)
Holding(c) == stage[c] \in {"starting", "open"} /\ c \notin told

(* No connection is lost from sight: one that is up, or coming up, is the   *)
(* one that a failing call or the end of the process will tell to close.    *)
(* Two things undo this: a request cancelled while it waits for its         *)
(* connection, and a connection that ends so slowly that its successor is   *)
(* already up and is forgotten in its place (bridge.py 116-117).            *)
NoLeak == causes = {} => \A c \in Conn : Holding(c) => closeEvent = c

(* Requests are given the connection that close_event belongs to, so that a *)
(* call that fails never closes a connection it was not made on.            *)
DropsItsOwn ==
  [][\A c \in told' \ told :
       \/ causes # {}
       \/ Close
       \/ \E r \in Request : client[r] = c /\ pc'[r] = "failed" /\ pc[r] # "failed"]_vars

(* However many requests queue up behind an attempt that fails, none of     *)
(* them tries again before the retry delay is over.                         *)
Paced == causes = {} => (cooling => \A c \in Conn : stage[c] # "starting")

(* Every request comes to an end: with the answer, an error, or cancelled.  *)
(* An unreachable remote, a connection that dies under many requests and    *)
(* the lock they all go through leave nobody waiting.                       *)
RequestsEnd == \A r \in Request : pc[r] # "new" ~> pc[r] \in Ended

(* When standard input ends the process does too: the task group has no     *)
(* task left to wait for, unless a connection was lost from sight.          *)
AllOver == \A c \in Conn : stage[c] \in {"none", "ended"}

ShutdownEnds == phase = "closing" ~> AllOver \/ causes # {}
=============================================================================
