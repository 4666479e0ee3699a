--------------------------- MODULE RequestReplay ---------------------------
(***************************************************************************)
(* One signed HTTP request on its way through both replay caches.  The     *)
(* frontend's middleware (auth/middleware.py) admits a NIP-98 event once;  *)
(* the tool it calls forwards the same envelope to the broker for each     *)
(* privileged call it makes (broker/client.py), and the broker verifies    *)
(* the event again against a cache of its own (broker/helper.py,           *)
(* auth/nip98.py, auth/replay.py).                                         *)
(***************************************************************************)
EXTENDS Integers

CONSTANTS
  Event,           \* NIP-98 event ids, one per signed request
  Tool,            \* the tools that may be called, see BrokerCalls
  Thread,          \* broker handler threads
  Skew,            \* nip98_clock_skew_seconds
  Ttl,             \* nip98_replay_ttl_seconds
  MaxTime,         \* bound on the clock
  BrokerRestarts,  \* whether the broker may be restarted
  NoRequest,       \* an event with no request in progress
  NoJob            \* an idle broker thread

(* The packaged defaults are 60 and 300 seconds.  An event may be dated     *)
(* Skew ahead when it is first seen and stays fresh for twice that.         *)
ASSUME ReplayAssumption ==
  /\ Skew \in Nat
  /\ Ttl \in Nat
  /\ MaxTime \in Nat
  /\ Ttl > 2 * Skew
  /\ BrokerRestarts \in BOOLEAN

(* How many privileged calls a tool makes for one request.  safe_upgrade    *)
(* asks for the free space, upgrades, and asks for the backups;             *)
(* package_run_tests and test_package inspect the package first.            *)
BrokerCalls(tool) ==
  CASE tool = "safe_upgrade" -> 3
    [] tool \in {"package_run_tests", "test_package"} -> 2
    [] OTHER -> 1

VARIABLES
  now,       \* the clock both processes read
  created,   \* created_at of each event
  admitted,  \* frontend ReplayCache: the events seen, with their expiry
  seen,      \* broker ReplayCache
  request,   \* the admitted requests that tools are working on
  job,       \* the call each broker thread is handling
  entered,   \* history: how often the frontend admitted each event, up to 2
  recent,    \* history: the calls of each event invoked since the broker
             \* was last started
  replayed   \* history: the calls refused by the broker as replays

vars == <<now, created, admitted, seen, request, job, entered, recent, replayed>>

Call == 1..3

Init ==
  /\ now = 0
  /\ created \in [Event -> 0..MaxTime]
  /\ admitted = [e \in Event |-> 0]
  /\ seen = [e \in Event |-> 0]
  /\ request = [e \in Event |-> NoRequest]
  /\ job = [b \in Thread |-> NoJob]
  /\ entered = [e \in Event |-> 0]
  /\ recent = [e \in Event |-> {}]
  /\ replayed = {}

CountUp(n) == IF n < 2 THEN n + 1 ELSE n

-----------------------------------------------------------------------------
(* abs(now - created_at) > clock_skew_seconds refuses. *)
Fresh(e) == now - created[e] <= Skew /\ created[e] - now <= Skew

(* Mutant: the entry lives as long as an event dated now stays fresh. *)
RememberBriefly(cache, e) == [cache EXCEPT ![e] = now + Skew + 1]

(* A cache maps an event to the end of its entry's life, 0 when there is    *)
(* none.  _prune drops the entries whose expiry <= now before the look-up.  *)
Known(cache, e) == cache[e] > now

Remember(cache, e) == [cache EXCEPT ![e] = now + Ttl]

-----------------------------------------------------------------------------
(* The frontend.                                                           *)

(* The event arrives, for the first time or again, with a call of a tool.   *)
(* Verification runs on the event loop, so it is one step.                  *)
Admit(e, tool) ==
  /\ Fresh(e)
  /\ ~Known(admitted, e)
  /\ admitted' = Remember(admitted, e)
  /\ request' = [request EXCEPT ![e] = [tool |-> tool, call |-> 1, sent |-> FALSE]]
  /\ entered' = [entered EXCEPT ![e] = CountUp(@)]
  /\ UNCHANGED <<now, created, seen, job, recent, replayed>>

Forward(e, b) ==
  /\ request[e] # NoRequest
  /\ ~request[e].sent
  /\ job[b] = NoJob
  /\ request' = [request EXCEPT ![e].sent = TRUE]
  /\ job' = [job EXCEPT ![b] =
       [event |-> e, call |-> request[e].call, stage |-> "received"]]
  /\ UNCHANGED <<now, created, admitted, seen, entered, recent, replayed>>

(* A tool that gets an error, or no answer in time, raises: it makes none   *)
(* of its remaining calls.                                                  *)
GiveUp(e) ==
  /\ request[e] # NoRequest
  /\ request' = [request EXCEPT ![e] = NoRequest]
  /\ UNCHANGED <<now, created, admitted, seen, job, entered, recent, replayed>>

-----------------------------------------------------------------------------
(* The broker: authorize_request and what follows, in thread b.            *)

At(b, stage) == job[b] # NoJob /\ job[b].stage = stage

(* The client is still waiting for this very call. *)
Awaited(b) ==
  LET r == request[job[b].event]
  IN r # NoRequest /\ r.sent /\ r.call = job[b].call

Refuse(b) ==
  /\ job' = [job EXCEPT ![b] = NoJob]
  /\ request' = IF Awaited(b)
                THEN [request EXCEPT ![job[b].event] = NoRequest]
                ELSE request
  /\ UNCHANGED <<now, created, admitted, seen, entered, recent>>

(* Any refusal but the one for a replay: before the cache is asked, because *)
(* the event is not fresh any more or the message is malformed; or after,   *)
(* because the identity, its scopes or the policy do not allow the call.    *)
Deny(b) ==
  /\ At(b, "received") \/ At(b, "verified")
  /\ Refuse(b)
  /\ UNCHANGED replayed

RefuseReplay(b) ==
  /\ At(b, "received")
  /\ Fresh(job[b].event)
  /\ Known(seen, job[b].event)
  /\ Refuse(b)
  /\ replayed' = replayed \cup
       {[event |-> job[b].event, call |-> job[b].call]}

(* check_and_record takes no lock: the look-up is a step, the entry one     *)
(* more.                                                                    *)
LookUp(b) ==
  /\ At(b, "received")
  /\ Fresh(job[b].event)
  /\ ~Known(seen, job[b].event)
  /\ job' = [job EXCEPT ![b].stage = "unseen"]
  /\ UNCHANGED <<now, created, admitted, seen, request, entered, recent, replayed>>

(* Mutant: the broker verifies the event and forgets to remember it. *)
RecordNothing(b) ==
  /\ At(b, "unseen")
  /\ job' = [job EXCEPT ![b].stage = "verified"]
  /\ UNCHANGED <<now, created, admitted, seen, request, entered, recent, replayed>>

Record(b) ==
  /\ At(b, "unseen")
  /\ seen' = Remember(seen, job[b].event)
  /\ job' = [job EXCEPT ![b].stage = "verified"]
  /\ UNCHANGED <<now, created, admitted, request, entered, recent, replayed>>

(* The operation runs and the answer goes to whoever still waits for it;    *)
(* the tool makes its next call or is done.                                 *)
Invoke(b) ==
  LET e == job[b].event
      r == request[e]
  IN
  /\ At(b, "verified")
  /\ recent' = [recent EXCEPT ![e] = @ \cup {job[b].call}]
  /\ job' = [job EXCEPT ![b] = NoJob]
  /\ request' = IF ~Awaited(b) THEN request
                ELSE [request EXCEPT ![e] =
                        IF r.call = BrokerCalls(r.tool) THEN NoRequest
                        ELSE [r EXCEPT !.call = @ + 1, !.sent = FALSE]]
  /\ UNCHANGED <<now, created, admitted, seen, entered, replayed>>

(* The broker's cache lives in memory; a call in progress ends in end of    *)
(* file.                                                                    *)
BrokerRestart ==
  /\ BrokerRestarts
  /\ seen' = [e \in Event |-> 0]
  /\ job' = [b \in Thread |-> NoJob]
  /\ request' = [e \in Event |->
       IF request[e] # NoRequest /\ request[e].sent THEN NoRequest ELSE request[e]]
  /\ recent' = [e \in Event |-> {}]
  /\ UNCHANGED <<now, created, admitted, entered, replayed>>

Tick ==
  /\ now < MaxTime
  /\ now' = now + 1
  /\ UNCHANGED <<created, admitted, seen, request, job, entered, recent, replayed>>

Handle(b) ==
  Deny(b) \/ RefuseReplay(b) \/ LookUp(b) \/ Record(b) \/ Invoke(b)

Next ==
  \/ \E e \in Event :
       \/ \E tool \in Tool : Admit(e, tool)
       \/ \E b \in Thread : Forward(e, b)
       \/ GiveUp(e)
  \/ \E b \in Thread : Handle(b)
  \/ BrokerRestart
  \/ Tick

Spec == Init /\ [][Next]_vars

-----------------------------------------------------------------------------
(* Properties.                                                             *)

(* A signed request is admitted once, however often it is delivered, while  *)
(* the frontend is up: no entry is pruned while its event is still fresh,   *)
(* not even one dated ahead of the server's clock.                          *)
AdmittedOnce == \A e \in Event : entered[e] <= 1

(* A signed request authorises one privileged call and no more for as long  *)
(* as the broker stays up; the next one takes a restart.                    *)
OneCallPerEvent ==
  \A e \in Event : \A m, n \in recent[e] : m = n

(* server.py 568-573, 581-582: a tool is "the only broker caller for this   *)
(* HTTP request", so that the broker never sees its own frontend replay.    *)
NeverReplaysItself == replayed = {}
=============================================================================
