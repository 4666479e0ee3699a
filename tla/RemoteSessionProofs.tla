------------------------- MODULE RemoteSessionProofs -------------------------
(***************************************************************************)
(* Theorems about RemoteSession: while nothing of what the session does    *)
(* not repair has happened, no connection is lost from sight, no request   *)
(* retries before its time, and a failing call closes its own connection   *)
(* only.                                                                   *)
(*                                                                         *)
(* All three rest on who holds the lock.  A connection that is coming up   *)
(* is the one its request waits for inside the lock, and while a lock is   *)
(* held nobody drops or starts a connection; so there is one connection    *)
(* that holds on, and close_event is its.                                  *)
(***************************************************************************)
EXTENDS RemoteSession, TLAPS

USE NoConnAssumption DEF Conn

Stages == {"none", "starting", "open", "closing", "ended"}

Places == {"new", "queued", "waiting", "calling", "dropping"} \cup Ended

TypeOK ==
  /\ remote \in Conn \cup {NoConn}
  /\ closeEvent \in Conn \cup {NoConn}
  /\ lock \in Request \cup {NoConn}
  /\ pc \in [Request -> Places]
  /\ client \in [Request -> Conn \cup {NoConn}]
  /\ stage \in [Conn -> Stages]
  /\ phase \in {"serving", "closing", "closed"}

(* The lock is held across one await, by the request that waits for its     *)
(* connection.                                                              *)
LockIsWaiting == \A r \in Request : lock = r <=> pc[r] = "waiting"

(* When standard input has ended no request is under way.                   *)
NobodyLeft == phase # "serving" => \A r \in Request : pc[r] \in Ended

(* A request that has not reached the inside of the lock has no connection. *)
Unstarted == \A r \in Request : pc[r] \in {"new", "queued"} => stage[r] = "none"

(* The ready event is set when the connection is up or has failed.          *)
ReadyIsPast == \A c \in Conn : stage[c] \in {"none", "starting"} => c \notin ready

(* A request calls on a connection, not on None.                            *)
CallersHaveOne ==
  \A r \in Request : pc[r] \in {"calling", "dropping"} => client[r] \in Conn

(* What a connection that is coming up, or up, has of the session.          *)
ComingUp ==
  \A c \in Conn : stage[c] = "starting" =>
    /\ phase = "serving" => lock = c
    /\ IF phase = "closed" THEN c \in told ELSE closeEvent = c
    /\ ~cooling

Up == \A c \in Conn : stage[c] = "open" /\ c \notin told => remote = c /\ closeEvent = c

(* _remote and _close_event are of one connection.                          *)
OfOne ==
  IF phase = "closed" THEN closeEvent = NoConn
  ELSE remote # NoConn => closeEvent = remote

InSight == causes = {} => ComingUp /\ Up /\ OfOne

SessionInv ==
  /\ TypeOK
  /\ LockIsWaiting
  /\ NobodyLeft
  /\ Unstarted
  /\ ReadyIsPast
  /\ CallersHaveOne
  /\ InSight

-----------------------------------------------------------------------------
(* _connect: entering, with or without the lock, and waking up in it. *)

LEMMA UseRemoteStep ==
  ASSUME SessionInv, NEW r \in Request, pc[r] \in {"new", "queued"}, UseRemote(r)
  PROVE  SessionInv'
BY DEF UseRemote, Goto, session, conns, SessionInv, TypeOK, LockIsWaiting,
       NobodyLeft, Unstarted, ReadyIsPast, CallersHaveOne, InSight, ComingUp, Up,
       OfOne, Places, Stages, Ended

LEMMA CoolingDownStep ==
  ASSUME SessionInv, NEW r \in Request, pc[r] \in {"new", "queued"},
         CoolingDown(r)
  PROVE  SessionInv'
BY DEF CoolingDown, Goto, session, conns, SessionInv, TypeOK, LockIsWaiting,
       NobodyLeft, Unstarted, ReadyIsPast, CallersHaveOne, InSight, ComingUp, Up,
       OfOne, Places, Stages, Ended

(* With the lock free no connection is coming up, and without a remote none *)
(* is up: close_event may be the new one's.                                 *)
LEMMA StartStep ==
  ASSUME SessionInv, NEW r \in Request, pc[r] \in {"new", "queued"},
         remote = NoConn, ~cooling, lock = NoConn, StartConnection(r)
  PROVE  SessionInv'
<1>1. phase = "serving"
  BY DEF SessionInv, NobodyLeft, TypeOK, Ended
<1>2. TypeOK' /\ LockIsWaiting' /\ NobodyLeft' /\ CallersHaveOne'
  BY <1>1 DEF StartConnection, Goto, SessionInv, TypeOK, LockIsWaiting,
     NobodyLeft, CallersHaveOne, Places, Stages, Ended
<1>3. Unstarted' /\ ReadyIsPast'
  BY DEF StartConnection, Goto, SessionInv, TypeOK, Unstarted, ReadyIsPast
<1>4. ASSUME causes = {} PROVE (ComingUp /\ Up /\ OfOne)'
  <2>1. \A c \in Conn : stage[c] # "starting"
    BY <1>1, <1>4 DEF SessionInv, InSight, ComingUp
  <2>2. \A c \in Conn : ~(stage[c] = "open" /\ c \notin told)
    BY <1>4 DEF SessionInv, InSight, Up
  <2>3. QED
    BY <1>1, <2>1, <2>2 DEF StartConnection, Goto, SessionInv, TypeOK, ComingUp,
       Up, OfOne
<1>5. QED
  BY <1>2, <1>3, <1>4 DEF StartConnection, SessionInv, InSight

LEMMA QueueStep ==
  ASSUME SessionInv, NEW r \in Request, pc[r] = "new", Goto(r, "queued"),
         phase = "serving",
         UNCHANGED <<session, lock, client, conns, phase, causes>>
  PROVE  SessionInv'
BY DEF Goto, session, conns, SessionInv, TypeOK, LockIsWaiting,
       NobodyLeft, Unstarted, ReadyIsPast, CallersHaveOne, InSight, ComingUp, Up,
       OfOne, Places, Stages, Ended

LEMMA EnterStep ==
  ASSUME SessionInv, NEW r \in Request,
         \/ Begin(r)
         \/ Locked(r)
  PROVE  SessionInv'
BY UseRemoteStep, CoolingDownStep, StartStep, QueueStep DEF Begin, Locked

(* The lock is the request's, and its connection is no longer coming up.    *)
LEMMA AwakenStep ==
  ASSUME SessionInv, NEW r \in Request, Awaken(r)
  PROVE  SessionInv'
<1>1. lock = r /\ phase = "serving"
  BY DEF Awaken, SessionInv, TypeOK, LockIsWaiting, NobodyLeft, Ended
<1>2. TypeOK' /\ LockIsWaiting' /\ NobodyLeft' /\ CallersHaveOne'
  BY <1>1 DEF Awaken, Goto, conns, SessionInv, TypeOK, LockIsWaiting,
     NobodyLeft, CallersHaveOne, Places, Stages, Ended
<1>3. Unstarted' /\ ReadyIsPast'
  BY DEF Awaken, Goto, conns, SessionInv, TypeOK, Unstarted, ReadyIsPast
<1>4. ASSUME causes = {} PROVE (ComingUp /\ Up /\ OfOne)'
  <2>1. \A c \in Conn : stage[c] # "starting"
    BY <1>1, <1>4 DEF Awaken, SessionInv, InSight, ComingUp, ReadyIsPast
  <2>2. QED
    BY <1>1, <1>4, <2>1 DEF Awaken, conns, SessionInv, TypeOK, InSight, ComingUp,
       Up, OfOne
<1>5. QED
  BY <1>2, <1>3, <1>4 DEF Awaken, SessionInv, InSight

-----------------------------------------------------------------------------
(* request and _drop. *)

LEMMA ReturnStep ==
  ASSUME SessionInv, NEW r \in Request, OperationReturns(r)
  PROVE  SessionInv'
BY DEF OperationReturns, Goto, session, conns, SessionInv, TypeOK, LockIsWaiting,
       NobodyLeft, Unstarted, ReadyIsPast, CallersHaveOne, InSight, ComingUp, Up,
       OfOne, Places, Stages, Ended

(* What a drop tells to close is the connection it takes from the session.  *)
LEMMA DropsClient ==
  ASSUME SessionInv, NEW r \in Request, pc[r] \in {"calling", "dropping"},
         lock = NoConn, Drop(r), causes = {}
  PROVE  /\ told' \subseteq told \cup {client[r]}
         /\ told \subseteq told'
         /\ (ComingUp /\ Up /\ OfOne) /\ UNCHANGED <<stage, phase, lock>>
              => (ComingUp /\ Up /\ OfOne)'
<1>1. phase = "serving" /\ client[r] \in Conn
  BY DEF SessionInv, NobodyLeft, CallersHaveOne, TypeOK, Ended
<1>2. CASE remote # client[r]
  BY <1>2 DEF Drop, session, ComingUp, Up, OfOne
<1>3. CASE remote = client[r]
  <2>1. closeEvent = client[r] /\ remote # NoConn
    BY <1>1, <1>3 DEF SessionInv, InSight, OfOne
  <2>2. told' = told \cup {client[r]} /\ remote' = NoConn /\ closeEvent' = NoConn
    BY <1>1, <1>3, <2>1 DEF Drop, TellToClose
  <2>3. \A c \in Conn : stage[c] # "starting"
    BY <1>1 DEF SessionInv, InSight, ComingUp
  <2>4. QED
    BY <1>1, <1>3, <2>1, <2>2, <2>3 DEF ComingUp, Up, OfOne
<1>4. QED
  BY <1>2, <1>3

LEMMA DropStep ==
  ASSUME SessionInv, NEW r \in Request, pc[r] \in {"calling", "dropping"},
         lock = NoConn, Drop(r), Goto(r, "failed"),
         UNCHANGED <<lock, client, stage, ready, phase, causes>>
  PROVE  SessionInv'
<1>1. closeEvent' \in Conn \cup {NoConn} /\ remote' \in Conn \cup {NoConn}
  BY DEF SessionInv, TypeOK, Drop, session
<1>2. TypeOK' /\ LockIsWaiting' /\ NobodyLeft' /\ CallersHaveOne'
  BY <1>1 DEF Goto, SessionInv, TypeOK, LockIsWaiting,
     NobodyLeft, CallersHaveOne, Places, Stages, Ended
<1>3. Unstarted' /\ ReadyIsPast'
  BY DEF Goto, SessionInv, TypeOK, Unstarted, ReadyIsPast
<1>4. InSight'
  BY DropsClient DEF SessionInv, InSight
<1>5. QED
  BY <1>2, <1>3, <1>4 DEF SessionInv

LEMMA FailsStep ==
  ASSUME SessionInv, NEW r \in Request,
         \/ OperationFails(r)
         \/ DropLater(r)
  PROVE  SessionInv'
<1>1. CASE lock = NoConn
  BY <1>1, DropStep DEF OperationFails, DropLater
<1>2. CASE lock # NoConn
  BY <1>2 DEF OperationFails, DropLater, Goto, session, SessionInv, TypeOK,
     LockIsWaiting, NobodyLeft, Unstarted, ReadyIsPast, CallersHaveOne, InSight,
     ComingUp, Up, OfOne, Places, Stages, Ended
<1>3. QED
  BY <1>1, <1>2

LEMMA CancelStep ==
  ASSUME SessionInv, NEW r \in Request, Cancel(r)
  PROVE  SessionInv'
<1>1. TypeOK' /\ LockIsWaiting' /\ NobodyLeft' /\ CallersHaveOne'
  BY DEF Cancel, Goto, session, conns, SessionInv, TypeOK, LockIsWaiting,
     NobodyLeft, CallersHaveOne, Places, Stages, Ended
<1>2. Unstarted' /\ ReadyIsPast'
  BY DEF Cancel, Goto, conns, SessionInv, TypeOK, Unstarted, ReadyIsPast
<1>3. ASSUME causes' = {} PROVE (ComingUp /\ Up /\ OfOne)'
  <2>1. causes = {} /\ (lock = r => r \in ready)
    BY <1>3 DEF Cancel
  <2>2. lock = r => stage[r] # "starting"
    BY <2>1 DEF SessionInv, ReadyIsPast
  <2>3. QED
    BY <2>1, <2>2 DEF Cancel, session, conns, SessionInv, InSight, ComingUp, Up,
       OfOne
<1>4. QED
  BY <1>1, <1>2, <1>3 DEF SessionInv, InSight

-----------------------------------------------------------------------------
(* _run_connection. *)

LEMMA ConnUpStep ==
  ASSUME SessionInv, NEW c \in Conn, ConnUp(c)
  PROVE  SessionInv'
<1>1. TypeOK' /\ LockIsWaiting' /\ NobodyLeft' /\ CallersHaveOne'
  BY DEF ConnUp, SessionInv, TypeOK, LockIsWaiting, NobodyLeft, CallersHaveOne,
     Stages
<1>2. Unstarted' /\ ReadyIsPast'
  BY DEF ConnUp, SessionInv, TypeOK, Unstarted, ReadyIsPast
<1>3. ASSUME causes = {} PROVE (ComingUp /\ Up /\ OfOne)'
  BY <1>3 DEF ConnUp, SessionInv, TypeOK, InSight, ComingUp, Up, OfOne
<1>4. QED
  BY <1>1, <1>2, <1>3 DEF ConnUp, SessionInv, InSight

LEMMA ForgetStep ==
  ASSUME SessionInv, NEW c \in Conn,
         \/ ConnFails(c)
         \/ ConnEnds(c)
  PROVE  SessionInv'
<1> USE DEF ConnFails, ConnEnds, Forget
<1>1. TypeOK' /\ LockIsWaiting' /\ NobodyLeft' /\ CallersHaveOne'
  BY DEF SessionInv, TypeOK, LockIsWaiting, NobodyLeft, CallersHaveOne, Stages
<1>2. Unstarted' /\ ReadyIsPast'
  BY DEF SessionInv, TypeOK, Unstarted, ReadyIsPast
<1>3. ASSUME causes' = {} PROVE (ComingUp /\ Up /\ OfOne)'
  <2>1. causes = {} /\ remote \in {c, NoConn}
    BY <1>3
  <2>2. QED
    BY <2>1 DEF SessionInv, TypeOK, InSight, ComingUp, Up, OfOne
<1>4. QED
  BY <1>1, <1>2, <1>3 DEF SessionInv, InSight

LEMMA LeavesStep ==
  ASSUME SessionInv, NEW c \in Conn,
         \/ ConnCloses(c)
         \/ ConnBreaks(c)
  PROVE  SessionInv'
BY DEF ConnCloses, ConnBreaks, session, SessionInv, TypeOK, LockIsWaiting,
       NobodyLeft, Unstarted, ReadyIsPast, CallersHaveOne, InSight, ComingUp, Up,
       OfOne, Stages

-----------------------------------------------------------------------------
(* _async_main. *)

LEMMA StdioEndsStep == SessionInv /\ StdioEnds => SessionInv'
BY DEF StdioEnds, session, conns, SessionInv, TypeOK, LockIsWaiting,
       NobodyLeft, Unstarted, ReadyIsPast, CallersHaveOne, InSight, ComingUp, Up,
       OfOne, Places, Stages, Ended

LEMMA CloseStep == SessionInv /\ Close => SessionInv'
BY DEF Close, TellToClose, SessionInv, TypeOK, LockIsWaiting,
       NobodyLeft, Unstarted, ReadyIsPast, CallersHaveOne, InSight, ComingUp, Up,
       OfOne

LEMMA CooldownStep == SessionInv /\ CooldownEnds => SessionInv'
BY DEF CooldownEnds, conns, SessionInv, TypeOK, LockIsWaiting,
       NobodyLeft, Unstarted, ReadyIsPast, CallersHaveOne, InSight, ComingUp, Up,
       OfOne

LEMMA SessionStep == SessionInv /\ [Next]_vars => SessionInv'
<1> SUFFICES ASSUME SessionInv, [Next]_vars PROVE SessionInv'
  OBVIOUS
<1>1. ASSUME NEW r \in Request, Begin(r) \/ RequestStep(r) \/ Cancel(r)
      PROVE  SessionInv'
  BY <1>1, EnterStep, AwakenStep, ReturnStep, FailsStep, CancelStep
     DEF RequestStep
<1>2. ASSUME NEW c \in Conn, ConnStep(c) \/ ConnBreaks(c) PROVE SessionInv'
  BY <1>2, ConnUpStep, ForgetStep, LeavesStep DEF ConnStep
<1>3. CASE UNCHANGED vars
  BY <1>3 DEF vars, SessionInv, TypeOK, LockIsWaiting, NobodyLeft, Unstarted,
     ReadyIsPast, CallersHaveOne, InSight, ComingUp, Up, OfOne
<1>4. QED
  BY <1>1, <1>2, <1>3, StdioEndsStep, CloseStep, CooldownStep DEF Next

LEMMA SessionInvHolds == Spec => []SessionInv
<1>1. Init => SessionInv
  BY DEF Init, SessionInv, TypeOK, LockIsWaiting, NobodyLeft, Unstarted,
     ReadyIsPast, CallersHaveOne, InSight, ComingUp, Up, OfOne, Places, Stages,
     Ended
<1>2. QED
  BY <1>1, SessionStep, PTL DEF Spec

-----------------------------------------------------------------------------
(* However many requests share the session, a connection that is up or      *)
(* coming up and has not been told to close is the one close_event belongs  *)
(* to (bridge.py:98-170).                                                   *)
THEOREM NoConnectionLost == Spec => []NoLeak
<1>1. SessionInv => NoLeak
  BY DEF SessionInv, InSight, ComingUp, Up, NoLeak, Holding
<1>2. QED
  BY <1>1, SessionInvHolds, PTL

(* No connection is coming up while the retry delay runs (bridge.py:126).   *)
THEOREM AttemptsPaced == Spec => []Paced
<1>1. SessionInv => Paced
  BY DEF SessionInv, InSight, ComingUp, Paced
<1>2. QED
  BY <1>1, SessionInvHolds, PTL

(* A connection is told to close by the end of the process, or by a request *)
(* whose own call on it failed (bridge.py, _drop).                          *)
THEOREM FailuresDropTheirOwn == Spec => DropsItsOwn
<1>1. SessionInv /\ [Next]_vars =>
        \A c \in told' \ told :
          \/ causes # {}
          \/ Close
          \/ \E r \in Request : client[r] = c /\ pc'[r] = "failed" /\ pc[r] # "failed"
  <2> SUFFICES ASSUME SessionInv, [Next]_vars, NEW c \in told' \ told,
                      causes = {}, ~Close
               PROVE  \E r \in Request :
                        client[r] = c /\ pc'[r] = "failed" /\ pc[r] # "failed"
    OBVIOUS
  <2>1. PICK r \in Request : OperationFails(r) \/ DropLater(r)
    BY DEF Next, vars, RequestStep, ConnStep, Begin, UseRemote, CoolingDown,
       StartConnection, Locked, Awaken, OperationReturns, Cancel, ConnUp,
       ConnFails, Forget, ConnCloses, ConnBreaks, ConnEnds, StdioEnds,
       CooldownEnds, session, conns
  <2>2. /\ pc[r] \in {"calling", "dropping"}
        /\ lock = NoConn /\ Drop(r) /\ Goto(r, "failed")
    BY <2>1 DEF OperationFails, DropLater
  <2>3. client[r] = c
    BY <2>2, DropsClient
  <2>4. QED
    BY <2>2, <2>3 DEF Goto, SessionInv, TypeOK
<1>2. QED
  BY <1>1, SessionInvHolds, PTL DEF Spec, DropsItsOwn
=============================================================================
