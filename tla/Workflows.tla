------------------------------- MODULE Workflows -------------------------------
(***************************************************************************)
(* The tools of several steps that work on the host's apps:                *)
(* plan_app_upgrade and execute_plan, safe_upgrade, the package tests in   *)
(* their sessions, and the cycle of all tests.  Packaged, each step is one *)
(* request of the broker, whose client may give up on it, and the          *)
(* composites are refused (RequestReplay); unpackaged, they run in the     *)
(* server's own process.  A shell on the host changes it at any time.      *)
(***************************************************************************)
EXTENDS Integers, FiniteSets

CONSTANTS
  Person, Plan, Session,
  App, ControlPlane,
  Tested,               \* bound: the apps tests and safe upgrades are asked for
  Latest,               \* the version of each app the catalogue has
  Ttl, MaxTime,         \* lifetime of plans and sessions; bound on the clock
  NoRow, Unused, Gone, NoWork

ASSUME WorkflowsAssumption ==
  /\ ControlPlane \in App /\ Tested \subseteq App
  /\ Latest \in Nat \ {0} /\ Ttl \in Nat /\ MaxTime \in Nat
  /\ Unused # Gone

VARIABLES
  brokered,    \* settings.broker_socket_path is set
  installed,   \* the version of each app on the host, 0 for none
  safe,        \* the version in the archive safe-upgrade-<app>, 0 for none
  archived,    \* there is some other archive
  plans,       \* plan_store, in the frontend's memory
  sessions,    \* the package-test sessions, on disk
  work,        \* what the holder of the write lock does, and a broker thread
               \* whose client has given up
  ran,         \* how often each plan was carried out
  now

host == <<installed, safe, archived>>
vars == <<brokered, host, plans, sessions, work, ran, now>>

Slot == {"front", "orphan"}

Free == work["front"] = NoWork

HasArchive == archived \/ \E a \in App : safe[a] # 0

Init ==
  /\ brokered \in BOOLEAN
  /\ installed \in [App -> {0, 1}]
  /\ installed[ControlPlane] = 1
  /\ safe = [a \in App |-> 0]
  /\ archived \in BOOLEAN
  /\ plans = [i \in Plan |-> Unused]
  /\ sessions = [s \in Session |-> NoRow]
  /\ work = [j \in Slot |-> NoWork]
  /\ ran = [i \in Plan |-> 0]
  /\ now = 0

(* The caller's tool takes the write lock. *)
Start(w) == work' = [work EXCEPT !["front"] = w]

Goto(j, stage) == work' = [work EXCEPT ![j].stage = stage]

Leave(j) == work' = [work EXCEPT ![j] = NoWork]

-----------------------------------------------------------------------------
(* Plans.                                                                  *)

MakePlan(p, i, a) ==
  /\ plans[i] = Unused
  /\ plans' = [plans EXCEPT ![i] = [who |-> p, app |-> a, expires |-> now + Ttl]]
  /\ UNCHANGED <<brokered, host, sessions, work, ran, now>>

Known(i) == plans[i] \notin {Unused, Gone}

Fresh(i) == now < plans[i].expires

(* The plan's maker is told to use app_upgrade for the control plane, which *)
(* the owner co-signs; the plan is kept.                                    *)
TurnedDown(p, i) == Fresh(i) /\ plans[i].who = p /\ plans[i].app = ControlPlane

CarryOut(p, i) ==
  Start([kind |-> "upgrade", who |-> p, app |-> plans[i].app, plan |-> i,
         stage |-> "forwarded"])

(* Mutant: the plan is looked at and stays. *)
UsePlanOnLook(p, i) ==
  /\ Free /\ Known(i)
  /\ ~TurnedDown(p, i)
  /\ Fresh(i) /\ plans[i].who = p
  /\ CarryOut(p, i)
  /\ UNCHANGED <<brokered, host, plans, sessions, ran, now>>

(* execute_plan: whoever names a plan uses it up, and whose it is may then  *)
(* carry it out.                                                            *)
UsePlan(p, i) ==
  /\ Free /\ Known(i)
  /\ ~TurnedDown(p, i)
  /\ plans' = [plans EXCEPT ![i] = Gone]
  /\ IF Fresh(i) /\ plans[i].who = p THEN CarryOut(p, i) ELSE UNCHANGED work
  /\ UNCHANGED <<brokered, host, sessions, ran, now>>

(* The hard policy is checked against the host of the moment, then the app  *)
(* is brought to the version the catalogue has now, whatever the plan said. *)
UpgradePlanned(j) ==
  /\ work[j] # NoWork /\ work[j].kind = "upgrade"
  /\ \/ /\ HasArchive
        /\ installed[work[j].app] \in 1..(Latest - 1)
        /\ installed' = [installed EXCEPT ![work[j].app] = Latest]
        /\ ran' = [ran EXCEPT ![work[j].plan] = @ + 1]
     \/ UNCHANGED <<installed, ran>>
  /\ Leave(j)
  /\ UNCHANGED <<brokered, safe, archived, plans, sessions, now>>

-----------------------------------------------------------------------------
(* Package tests.  A session's source is compared as its app is, and is     *)
(* left out.                                                                *)

TestSteps == {"install", "upgrade", "backup", "restore", "change_url", "remove"}

Prepare(p, s, a) ==
  /\ sessions[s] = NoRow
  /\ sessions' = [sessions EXCEPT ![s] = [who |-> p, app |-> a, expires |-> now + Ttl]]
  /\ UNCHANGED <<brokered, host, plans, work, ran, now>>

(* PackageTestSessionStore.get *)
Matches(s, p, a) ==
  /\ sessions[s] # NoRow
  /\ now < sessions[s].expires
  /\ sessions[s].who = p /\ sessions[s].app = a

(* Anyone who names an expired session removes it. *)
Lapse(s) ==
  /\ sessions[s] # NoRow /\ now >= sessions[s].expires
  /\ sessions' = [sessions EXCEPT ![s] = NoRow]
  /\ UNCHANGED <<brokered, host, plans, work, ran, now>>

(* The tests are let in alike: which of them it is shows when it ends. *)
TestBegins(p, s, a) ==
  /\ Free
  /\ Matches(s, p, a)
  /\ Start([kind |-> "test", who |-> p, app |-> a, session |-> s,
            stage |-> IF brokered THEN "forwarded" ELSE "running"])
  /\ UNCHANGED <<brokered, host, plans, sessions, ran, now>>

(* Mutant: the broker takes the frontend's word. *)
AdmitOnTrust(j) ==
  /\ work[j] # NoWork /\ work[j].kind = "test" /\ work[j].stage = "forwarded"
  /\ Goto(j, "running")
  /\ UNCHANGED <<brokered, host, plans, sessions, ran, now>>

(* _check_package_test_session *)
Admit(j) ==
  /\ work[j] # NoWork /\ work[j].kind = "test" /\ work[j].stage = "forwarded"
  /\ Matches(work[j].session, work[j].who, work[j].app)
  /\ Goto(j, "running")
  /\ UNCHANGED <<brokered, host, plans, sessions, ran, now>>

(* Mutant: the refusal is not sent. *)
RejectSilently(j) ==
  /\ work[j] # NoWork /\ work[j].kind = "test" /\ work[j].stage = "forwarded"
  /\ ~Matches(work[j].session, work[j].who, work[j].app)
  /\ UNCHANGED vars

Reject(j) ==
  /\ work[j] # NoWork /\ work[j].kind = "test" /\ work[j].stage = "forwarded"
  /\ ~Matches(work[j].session, work[j].who, work[j].app)
  /\ Leave(j)
  /\ UNCHANGED <<brokered, host, plans, sessions, ran, now>>

(* What a step may make of the app it works on: done, or failed half-way.   *)
Done(step, a) ==
  CASE step = "install"    -> {IF installed[a] = 0 THEN Latest ELSE installed[a]}
    [] step = "upgrade"    -> IF installed[a] = 0 THEN {} ELSE {Latest}
    [] step = "restore"    -> {Latest}
    [] step = "remove"     -> IF installed[a] = 0 THEN {} ELSE {0}
    [] OTHER               -> IF installed[a] = 0 THEN {} ELSE {installed[a]}

Failed(step, a) ==
  CASE step = "install"                -> {installed[a], IF installed[a] = 0 THEN Latest
                                                         ELSE installed[a]}
    [] step \in {"restore", "remove"}  -> {installed[a], 0}
    [] OTHER                           -> {installed[a]}

(* package_install_test .. package_remove_test: a removal that is answered  *)
(* ends the session.                                                        *)
TestEnds(j, step) ==
  /\ work[j] # NoWork /\ work[j].kind = "test" /\ work[j].stage = "running"
  /\ LET a == work[j].app IN
     \/ /\ \E v \in Done(step, a) : installed' = [installed EXCEPT ![a] = v]
        /\ archived' = (archived \/ step = "backup")
        /\ sessions' = IF step = "remove" /\ j = "front"
                       THEN [sessions EXCEPT ![work[j].session] = NoRow] ELSE sessions
     \/ /\ \E v \in Failed(step, a) : installed' = [installed EXCEPT ![a] = v]
        /\ UNCHANGED <<archived, sessions>>
  /\ Leave(j)
  /\ UNCHANGED <<brokered, safe, plans, ran, now>>

(* The socket's timeout: the lock is the broker's thread goes on. *)
GiveUp ==
  /\ brokered /\ ~Free /\ work["orphan"] = NoWork
  /\ work' = [front |-> NoWork, orphan |-> work["front"]]
  /\ UNCHANGED <<brokered, host, plans, sessions, ran, now>>

-----------------------------------------------------------------------------
(* safe_upgrade: the steps that change the host.  The first that fails ends *)
(* the workflow; the backup rule is checked once more when it has ended.    *)

Safe == ~Free /\ work["front"].kind = "safe"

Step(stage) == ~Free /\ work["front"].stage = stage

(* Mutant: a step that fails is not in the report. *)
ReportSuccess(step, ok, next) ==
  work' = [work EXCEPT !["front"].stage = next,
                       !["front"].passed = IF ok THEN @ \cup {step} ELSE @]

(* run_step has appended its entry to the report. *)
Report(step, ok, next) ==
  work' = [work EXCEPT !["front"].stage = next,
                       !["front"].passed = IF ok THEN @ \cup {step} ELSE @,
                       !["front"].failed = IF ok THEN @ ELSE @ \cup {step}]

SafeUpgradeBegins(a) ==
  /\ Free /\ ~brokered
  /\ Start([kind |-> "safe", app |-> a, steady |-> TRUE,
            stage |-> IF installed[a] = 0 THEN "verify" ELSE "backup",
            passed |-> {}, failed |-> IF installed[a] = 0 THEN {"inspect_app"} ELSE {}])
  /\ UNCHANGED <<brokered, host, plans, sessions, ran, now>>

(* Mutant: an archive of that name will do. *)
SafeBackupReused ==
  /\ Safe /\ Step("backup")
  /\ safe' = [safe EXCEPT ![work["front"].app] = IF @ = 0 THEN installed[work["front"].app] ELSE @]
  /\ Report("backup", TRUE, "upgrade")
  /\ UNCHANGED <<brokered, installed, archived, plans, sessions, ran, now>>

(* backup_create refuses a name that is taken. *)
SafeBackup ==
  /\ Safe /\ Step("backup")
  /\ \/ /\ safe[work["front"].app] = 0
        /\ safe' = [safe EXCEPT ![work["front"].app] = installed[work["front"].app]]
        /\ Report("backup", TRUE, "upgrade")
     \/ /\ Report("backup", FALSE, "verify")
        /\ UNCHANGED safe
  /\ UNCHANGED <<brokered, installed, archived, plans, sessions, ran, now>>

SafeUpgradeStep ==
  /\ Safe /\ Step("upgrade")
  /\ LET a == work["front"].app IN
     \/ /\ installed[a] \in 1..(Latest - 1)
        /\ installed' = [installed EXCEPT ![a] = Latest]
        /\ Report("upgrade", TRUE, "verify")
     \/ /\ Report("upgrade", FALSE, "verify")
        /\ UNCHANGED installed
  /\ UNCHANGED <<brokered, safe, archived, plans, sessions, ran, now>>

(* Mutant: the tool asks for the backup of the host's other archives only. *)
SafeVerifyOthers ==
  /\ Safe /\ Step("verify")
  /\ Goto("front", IF archived THEN "reported" ELSE "raised")
  /\ UNCHANGED <<brokered, host, plans, sessions, ran, now>>

(* The report is returned, or a PolicyViolation raised in its place. *)
SafeVerify ==
  /\ Safe /\ Step("verify")
  /\ Goto("front", IF HasArchive THEN "reported" ELSE "raised")
  /\ UNCHANGED <<brokered, host, plans, sessions, ran, now>>

-----------------------------------------------------------------------------
(* package_run_tests: install, backup, remove, restore, remove.  What is    *)
(* installed is what the manifest names at that time; the other steps work  *)
(* on the name resolved at the start, or given by the caller.               *)

Cycle == ~Free /\ work["front"].kind = "cycle"

CycleBegins(p, s, a, candidate) ==
  /\ Free /\ ~brokered /\ sessions[s] = NoRow
  /\ sessions' = [sessions EXCEPT ![s] = [who |-> p, app |-> a, expires |-> now + Ttl]]
  /\ Start([kind |-> "cycle", app |-> a, candidate |-> candidate,
            session |-> s, stage |-> "install", passed |-> {}, failed |-> {},
            clean |-> candidate = a /\ installed[a] = 0, steady |-> TRUE])
  /\ UNCHANGED <<brokered, host, plans, ran, now>>

CycleStage == [install |-> "backup", backup |-> "remove", remove |-> "restore"]

(* Mutant: clean up only where something was restored. *)
AfterStepRestored(step, ok) ==
  LET passed == work["front"].passed \cup IF ok THEN {step} ELSE {}
  IN CASE step \in {"install", "remove", "restore"} /\ ~ok -> "reported"
       [] step = "remove" /\ "backup" \notin passed -> "reported"
       [] step = "restore" -> "cleanup"
       [] step = "cleanup" -> "reported"
       [] OTHER -> CycleStage[step]

(* The stage after a step, ok or not: install's failure is the end; without *)
(* a backup or a removal nothing is restored.                               *)
AfterStep(step, ok) ==
  LET passed == work["front"].passed \cup IF ok THEN {step} ELSE {}
  IN CASE step = "install" /\ ~ok -> "reported"
       [] step = "remove" /\ ~ok -> "cleanup"
       [] step = "remove" /\ "backup" \notin passed -> "reported"
       [] step = "restore" -> "cleanup"
       [] step = "cleanup" -> "reported"
       [] OTHER -> CycleStage[step]

CycleStep ==
  /\ Cycle
  /\ LET stage == work["front"].stage
         step  == IF stage = "cleanup" THEN "remove" ELSE stage
         a     == IF stage = "install" THEN work["front"].candidate ELSE work["front"].app
     IN /\ step \in TestSteps
        /\ \E ok \in BOOLEAN :
             /\ \E v \in IF ok THEN Done(step, a) ELSE Failed(step, a) :
                  installed' = [installed EXCEPT ![a] = v]
             /\ archived' = (archived \/ (stage = "backup" /\ ok))
             /\ Report(stage, ok, AfterStep(stage, ok))
  /\ UNCHANGED <<brokered, safe, plans, sessions, ran, now>>

(* The tool returns or raises; a cycle's session is removed with it. *)
Finish ==
  /\ ~Free
  /\ work["front"].stage \in {"reported", "raised"}
  /\ sessions' = IF Cycle THEN [sessions EXCEPT ![work["front"].session] = NoRow]
                 ELSE sessions
  /\ Leave("front")
  /\ UNCHANGED <<brokered, host, plans, ran, now>>

-----------------------------------------------------------------------------
(* The frontend restarts: what it had in memory is gone.                    *)
Restart ==
  /\ brokered /\ ~Free => work["orphan"] = NoWork
  /\ plans' = [i \in Plan |-> IF Known(i) THEN Gone ELSE plans[i]]
  /\ work' = [front  |-> NoWork,
              orphan |-> IF brokered /\ ~Free THEN work["front"] ELSE work["orphan"]]
  /\ UNCHANGED <<brokered, host, sessions, ran, now>>

(* The shell: apps come and go and archives are deleted, once in a workflow *)
(* of several steps (a bound).                                              *)
Shell ==
  /\ Safe \/ Cycle
  /\ work["front"].steady
  /\ \/ /\ \E a \in App : \E v \in {0, 1} : installed' = [installed EXCEPT ![a] = v]
        /\ UNCHANGED <<safe, archived>>
     \/ /\ \E a \in App : safe' = [safe EXCEPT ![a] = 0]
        /\ UNCHANGED <<installed, archived>>
     \/ /\ archived' = FALSE
        /\ UNCHANGED <<installed, safe>>
  /\ work' = [work EXCEPT !["front"].steady = FALSE]
  /\ UNCHANGED <<brokered, plans, sessions, ran, now>>

Tick ==
  /\ now < MaxTime
  /\ now' = now + 1
  /\ UNCHANGED <<brokered, host, plans, sessions, work, ran>>

Serve(j) ==
  UpgradePlanned(j) \/ Admit(j) \/ Reject(j)
  \/ \E step \in TestSteps : TestEnds(j, step)

Compose == SafeBackup \/ SafeUpgradeStep \/ SafeVerify \/ CycleStep \/ Finish

Next ==
  \/ \E p \in Person, i \in Plan :
       \/ \E a \in App : MakePlan(p, i, a)
       \/ UsePlan(p, i)
  \/ \E p \in Person, s \in Session, a \in Tested :
       \/ Prepare(p, s, a)
       \/ TestBegins(p, s, a)
       \/ \E candidate \in App : CycleBegins(p, s, a, candidate)
  \/ \E s \in Session : Lapse(s)
  \/ \E j \in Slot : Serve(j)
  \/ \E a \in Tested : SafeUpgradeBegins(a)
  \/ Compose
  \/ GiveUp \/ Restart \/ Shell \/ Tick

Spec == Init /\ [][Next]_vars

(* A thread that works on a call comes to its next step. *)
Fairness == WF_vars(Compose) /\ \A j \in Slot : WF_vars(Serve(j))

FairSpec == Spec /\ Fairness

-----------------------------------------------------------------------------
(* Properties.                                                             *)

(* A plan is carried out at most once (server.py:1856), though its client   *)
(* gives up while root works and asks again, and never on the control plane *)
(* itself, which only the owner may have upgraded.                          *)
PlanRunsOnce ==
  /\ \A i \in Plan : ran[i] <= 1
  /\ \A j \in Slot :
       work[j] # NoWork /\ work[j].kind = "upgrade" => work[j].app # ControlPlane

(* When safe_upgrade comes to the upgrade (adapter.py:3925) its archive     *)
(* holds the version that is about to be replaced, not an earlier one left  *)
(* by an earlier run under the same name.                                   *)
SafeBackupIsCurrent ==
  Safe /\ Step("upgrade") /\ work["front"].steady =>
    safe[work["front"].app] = installed[work["front"].app]

(* A PolicyViolation in place of safe_upgrade's report (server.py:2808)     *)
(* never hides an upgrade that was made.                                    *)
ViolationMeansNotUpgraded ==
  Step("raised") /\ work["front"].steady => "upgrade" \notin work["front"].passed

(* A cycle that installed an app which was not there before, and is called  *)
(* as its manifest calls it, leaves it removed, or says that the clean-up   *)
(* failed, whatever else went wrong.                                        *)
CycleCleansUp ==
  Cycle /\ Step("reported") /\ work["front"].clean /\ work["front"].steady
  /\ "install" \in work["front"].passed
    => installed[work["front"].app] = 0 \/ "cleanup" \in work["front"].failed

(* A cycle without a failed step has been through all five of them. *)
PassedMeansTested ==
  Cycle /\ Step("reported") /\ work["front"].failed = {} =>
    work["front"].passed = {"install", "backup", "remove", "restore", "cleanup"}

(* A test starts at root in a session of its caller for its app that has    *)
(* not lapsed and whose app has not been removed, however long the request  *)
(* was on its way (helper.py:372).                                          *)
AdmittedLive ==
  [][\A j \in Slot :
       work[j] # NoWork /\ work'[j] # NoWork
       /\ work[j].stage = "forwarded" /\ work'[j].stage = "running"
         => Matches(work[j].session, work[j].who, work[j].app)]_vars

(* The write lock is released: every call that holds it ends. *)
LockReleased == ~Free ~> Free
=============================================================================
