--------------------------- MODULE WorkflowsProofs ---------------------------
(***************************************************************************)
(* Theorems about Workflows: for every set of apps, plans and sessions a   *)
(* plan is carried out once, safe_upgrade's backup and report and a        *)
(* cycle's report mean what they say, and a test starts in a live session. *)
(*                                                                         *)
(* The composites run unpackaged only and an orphan exists packaged only,  *)
(* so while a composite runs nobody but the shell changes the host; what   *)
(* its report says so far follows from its stage.                          *)
(***************************************************************************)
EXTENDS Workflows, TLAPS

USE WorkflowsAssumption

PlanRow == [who : Person, app : App, expires : Nat]

SessionRow == [who : Person, app : App, expires : Nat]

Upgrading ==
  [kind : {"upgrade"}, who : Person, app : App, plan : Plan, stage : {"forwarded"}]

Testing ==
  [kind : {"test"}, who : Person, app : App, session : Session,
   stage : {"forwarded", "running"}]

(* What a report has an entry for.                                          *)
Entries ==
  {"inspect_app", "install", "backup", "upgrade", "remove", "restore", "cleanup"}

SafeStages == {"backup", "upgrade", "verify", "reported", "raised"}

CycleSteps == {"install", "backup", "remove", "restore", "cleanup"}

CycleStages == CycleSteps \cup {"reported"}

SafelyUpgrading ==
  [kind : {"safe"}, app : App, steady : BOOLEAN,
   stage : SafeStages,
   passed : SUBSET Entries, failed : SUBSET Entries]

Cycling ==
  [kind : {"cycle"}, app : App, candidate : App, session : Session,
   stage : CycleStages,
   passed : SUBSET Entries, failed : SUBSET Entries, clean : BOOLEAN,
   steady : BOOLEAN]

Work == Upgrading \cup Testing \cup SafelyUpgrading \cup Cycling

TypeOK ==
  /\ brokered \in BOOLEAN
  /\ installed \in [App -> Nat]
  /\ safe \in [App -> Nat]
  /\ archived \in BOOLEAN
  /\ plans \in [Plan -> PlanRow \cup {Unused, Gone}]
  /\ sessions \in [Session -> SessionRow \cup {NoRow}]
  /\ work \in [Slot -> Work \cup {NoWork}]
  /\ ran \in [Plan -> Nat]
  /\ now \in Nat

OnPlan(j, i) == work[j] # NoWork /\ work[j].kind = "upgrade" /\ work[j].plan = i

(* A plan that was carried out, or that one thread is about to carry out,   *)
(* is gone for good.                                                        *)
PlansSpent ==
  /\ \A i \in Plan : ran[i] = 0 \/ (ran[i] = 1 /\ plans[i] = Gone)
  /\ \A j \in Slot, i \in Plan : OnPlan(j, i) =>
       plans[i] = Gone /\ ran[i] = 0 /\ work[j].app # ControlPlane
  /\ \A i \in Plan : ~(OnPlan("front", i) /\ OnPlan("orphan", i))

(* There is no orphan beside a composite.                                   *)
Alone ==
  /\ work["orphan"] # NoWork => brokered
  /\ Safe \/ Cycle => ~brokered

(* What safe_upgrade has done by the stage it is at.                        *)
SafeProgress ==
  Safe =>
    LET w == work["front"] IN
    /\ w.stage \in {"backup", "upgrade"} => "upgrade" \notin w.passed
    /\ w.steady /\ w.stage = "upgrade" => safe[w.app] = installed[w.app]
    /\ w.steady /\ "upgrade" \in w.passed => safe[w.app] # 0 /\ w.stage # "raised"

(* The steps a cycle that goes well has passed when it comes to a stage.    *)
SoFar ==
  [install  |-> {},
   backup   |-> {"install"},
   remove   |-> {"install", "backup"},
   restore  |-> {"install", "backup", "remove"},
   cleanup  |-> {"install", "backup", "remove", "restore"},
   reported |-> CycleSteps]

CycleProgress ==
  Cycle =>
    LET w == work["front"] IN
    /\ w.stage = "install" => w.passed = {}
    /\ w.failed = {} => w.passed = SoFar[w.stage]
    /\ w.stage = "reported" /\ w.steady /\ "install" \in w.passed =>
         installed[w.app] = 0 \/ "cleanup" \in w.failed

WorkflowInv == TypeOK /\ PlansSpent /\ Alone /\ SafeProgress /\ CycleProgress

-----------------------------------------------------------------------------
(* What the operators that write the record of the work do to it. *)

LEMMA WorkKinds ==
  ASSUME TypeOK, NEW j \in Slot, work[j] # NoWork
  PROVE  /\ work[j] \in Work
         /\ work[j].app \in App
         /\ work[j].kind \in {"upgrade", "test", "safe", "cycle"}
         /\ work[j].kind = "upgrade" => work[j] \in Upgrading
         /\ work[j].kind = "test" => work[j] \in Testing
         /\ work[j].kind = "safe" => work[j] \in SafelyUpgrading
         /\ work[j].kind = "cycle" => work[j] \in Cycling
<1>1. work[j] \in Work
  BY DEF TypeOK
<1>2. QED
  BY <1>1 DEF Work, Upgrading, Testing, SafelyUpgrading, Cycling

LEMMA StartTyped ==
  ASSUME TypeOK, NEW w \in Work, Start(w)
  PROVE  /\ work' \in [Slot -> Work \cup {NoWork}]
         /\ work'["front"] = w
         /\ work'["orphan"] = work["orphan"]
BY DEF TypeOK, Start, Slot

LEMMA LeaveTyped ==
  ASSUME TypeOK, NEW j \in Slot, Leave(j)
  PROVE  /\ work' \in [Slot -> Work \cup {NoWork}]
         /\ work'[j] = NoWork
         /\ \A k \in Slot \ {j} : work'[k] = work[k]
BY DEF TypeOK, Leave

LEMMA SafeGoto ==
  ASSUME TypeOK, Safe,
         NEW stage \in SafeStages,
         Goto("front", stage)
  PROVE  /\ work' \in [Slot -> Work \cup {NoWork}]
         /\ work'["front"] = [work["front"] EXCEPT !.stage = stage]
         /\ work'["front"] \in SafelyUpgrading
         /\ work'["orphan"] = work["orphan"]
<1>1. work["front"] \in SafelyUpgrading
  BY WorkKinds DEF Safe, Free, Slot
<1>2. [work["front"] EXCEPT !.stage = stage] \in SafelyUpgrading
  BY <1>1 DEF SafelyUpgrading
<1>3. work' = [work EXCEPT !["front"] = [work["front"] EXCEPT !.stage = stage]]
  BY DEF TypeOK, Goto, Slot
<1>4. QED
  BY <1>2, <1>3 DEF TypeOK, Slot, Work

LEMMA Reports ==
  ASSUME TypeOK, NEW step, NEW ok \in BOOLEAN, NEW next, Report(step, ok, next)
  PROVE  /\ work' = [work EXCEPT !["front"] = work'["front"]]
         /\ work'["orphan"] = work["orphan"]
BY DEF TypeOK, Report, Slot

(* A record with the entry of one more step, and the stage that follows.    *)
Noted(w, step, ok, next) ==
  [w EXCEPT !.stage = next,
            !.passed = IF ok THEN @ \cup {step} ELSE @,
            !.failed = IF ok THEN @ ELSE @ \cup {step}]

LEMMA SafeRecord ==
  ASSUME NEW w \in SafelyUpgrading, NEW r, NEW step \in Entries, NEW ok \in BOOLEAN,
         NEW next \in SafeStages,
         r = Noted(w, step, ok, next)
  PROVE  /\ r \in SafelyUpgrading
         /\ r.stage = next
         /\ r.passed = w.passed \cup IF ok THEN {step} ELSE {}
         /\ r.failed = w.failed \cup IF ok THEN {} ELSE {step}
         /\ r.app = w.app /\ r.steady = w.steady
BY DEF SafelyUpgrading, Noted

LEMMA SafeReports ==
  ASSUME TypeOK, Safe, NEW step \in Entries, NEW ok \in BOOLEAN,
         NEW next \in SafeStages,
         Report(step, ok, next)
  PROVE  /\ work' \in [Slot -> Work \cup {NoWork}]
         /\ work'["front"] \in SafelyUpgrading
         /\ work'["front"].stage = next
         /\ work'["front"].app = work["front"].app
         /\ work'["front"].steady = work["front"].steady
         /\ work'["front"].passed = work["front"].passed \cup IF ok THEN {step} ELSE {}
         /\ work'["orphan"] = work["orphan"]
<1> DEFINE w == work["front"]
<1>1. w \in SafelyUpgrading /\ w \in Work
  BY WorkKinds DEF Safe, Free, Slot
<1>2. work'["front"] = Noted(w, step, ok, next)
  BY <1>1 DEF TypeOK, Slot, Report, SafelyUpgrading, Noted
<1>3. /\ work'["front"] \in SafelyUpgrading
      /\ work'["front"].stage = next
      /\ work'["front"].passed = work["front"].passed \cup IF ok THEN {step} ELSE {}
      /\ work'["front"].failed = work["front"].failed \cup IF ok THEN {} ELSE {step}
      /\ work'["front"].app = work["front"].app
      /\ work'["front"].steady = work["front"].steady
  BY <1>1, <1>2, SafeRecord
<1>4. work' \in [Slot -> Work \cup {NoWork}]
  BY <1>3, Reports DEF TypeOK, Slot, Work
<1>5. QED
  BY <1>3, <1>4, Reports

LEMMA CycleRecord ==
  ASSUME NEW w \in Cycling, NEW r, NEW step \in Entries, NEW ok \in BOOLEAN,
         NEW next \in CycleStages,
         r = Noted(w, step, ok, next)
  PROVE  /\ r \in Cycling
         /\ r.stage = next
         /\ r.passed = w.passed \cup IF ok THEN {step} ELSE {}
         /\ r.failed = w.failed \cup IF ok THEN {} ELSE {step}
         /\ r.app = w.app /\ r.steady = w.steady
BY DEF Cycling, Noted

LEMMA CycleReports ==
  ASSUME TypeOK, Cycle, NEW step \in Entries, NEW ok \in BOOLEAN,
         NEW next \in CycleStages,
         Report(step, ok, next)
  PROVE  /\ work' \in [Slot -> Work \cup {NoWork}]
         /\ work'["front"] \in Cycling
         /\ work'["front"].stage = next
         /\ work'["front"].app = work["front"].app
         /\ work'["front"].steady = work["front"].steady
         /\ work'["front"].passed = work["front"].passed \cup IF ok THEN {step} ELSE {}
         /\ work'["front"].failed = work["front"].failed \cup IF ok THEN {} ELSE {step}
         /\ work'["orphan"] = work["orphan"]
<1> DEFINE w == work["front"]
<1>1. w \in Cycling /\ w \in Work
  BY WorkKinds DEF Cycle, Free, Slot
<1>2. work'["front"] = Noted(w, step, ok, next)
  BY <1>1 DEF TypeOK, Slot, Report, Cycling, Noted
<1>3. /\ work'["front"] \in Cycling
      /\ work'["front"].stage = next
      /\ work'["front"].passed = work["front"].passed \cup IF ok THEN {step} ELSE {}
      /\ work'["front"].failed = work["front"].failed \cup IF ok THEN {} ELSE {step}
      /\ work'["front"].app = work["front"].app
      /\ work'["front"].steady = work["front"].steady
  BY <1>1, <1>2, CycleRecord
<1>4. work' \in [Slot -> Work \cup {NoWork}]
  BY <1>3, Reports DEF TypeOK, Slot, Work
<1>5. QED
  BY <1>3, <1>4, Reports

(* What is done to an app leaves it with a version.                         *)
LEMMA Versions ==
  ASSUME TypeOK, NEW step, NEW a \in App
  PROVE  Done(step, a) \subseteq Nat /\ Failed(step, a) \subseteq Nat
BY DEF TypeOK, Done, Failed

(* Where a cycle goes from a stage it is at.                                *)
LEMMA AfterStepTyped ==
  ASSUME NEW stage \in CycleSteps,
         NEW ok \in BOOLEAN
  PROVE  AfterStep(stage, ok) \in CycleStages
BY DEF AfterStep, CycleStage, CycleSteps, CycleStages

(* A cycle's stages name its steps.                                         *)
LEMMA CycleAt ==
  ASSUME TypeOK, CycleStep
  PROVE  /\ work["front"] \in Cycling
         /\ work["front"].stage \in CycleSteps
<1>1. work["front"] \in Cycling
  BY WorkKinds DEF CycleStep, Cycle, Free, Slot
<1>2. QED
  BY <1>1 DEF CycleStep, Cycling, CycleStages, CycleSteps, TestSteps

-----------------------------------------------------------------------------
(* Types. *)

(* The steps that leave host and work as they are. *)
Aside == UNCHANGED <<brokered, installed, safe, archived, work, ran>>

LEMMA AsideSteps ==
  ASSUME TypeOK,
         \/ \E q \in Person, i \in Plan, a \in App : MakePlan(q, i, a)
         \/ \E q \in Person, s \in Session, a \in Tested : Prepare(q, s, a)
         \/ \E s \in Session : Lapse(s)
         \/ Tick
         \/ UNCHANGED vars
  PROVE  TypeOK' /\ Aside
<1>1. ASSUME NEW q \in Person, NEW i \in Plan, NEW a \in App, MakePlan(q, i, a)
      PROVE  TypeOK' /\ Aside
  BY <1>1 DEF MakePlan, TypeOK, Aside, host, PlanRow
<1>2. ASSUME NEW q \in Person, NEW s \in Session, NEW a \in Tested, Prepare(q, s, a)
      PROVE  TypeOK' /\ Aside
  BY <1>2 DEF Prepare, TypeOK, Aside, host, SessionRow
<1>3. ASSUME NEW s \in Session, Lapse(s) PROVE TypeOK' /\ Aside
  BY <1>3 DEF Lapse, TypeOK, Aside, host
<1>4. CASE Tick
  BY <1>4 DEF Tick, TypeOK, Aside, host
<1>5. CASE UNCHANGED vars
  BY <1>5 DEF vars, TypeOK, Aside, host
<1>6. QED
  BY <1>1, <1>2, <1>3, <1>4, <1>5

-----------------------------------------------------------------------------
(* How the parts of the invariant are kept by steps that are not about them. *)

NoComposite == ~Safe /\ ~Cycle

LEMMA NothingOfComposites ==
  ASSUME NoComposite', brokered' = brokered,
         work'["orphan"] # NoWork => brokered
  PROVE  Alone' /\ SafeProgress' /\ CycleProgress'
BY DEF NoComposite, Alone, SafeProgress, CycleProgress

(* No work on a plan begins, and plans that are gone stay so.               *)
LEMMA PlansKept ==
  ASSUME PlansSpent, ran' = ran,
         \A i \in Plan : plans[i] = Gone => plans'[i] = Gone,
         \A j \in Slot : \/ work'[j] = NoWork
                         \/ work'[j] = work[j]
                         \/ work'[j].kind # "upgrade"
  PROVE  PlansSpent'
<1>1. \A j \in Slot, i \in Plan : OnPlan(j, i)' => OnPlan(j, i) /\ work'[j] = work[j]
  BY DEF OnPlan
<1>2. QED
  BY <1>1 DEF PlansSpent, Slot

LEMMA AsideKeeps ==
  ASSUME WorkflowInv,
         \/ \E q \in Person, i \in Plan, a \in App : MakePlan(q, i, a)
         \/ \E q \in Person, s \in Session, a \in Tested : Prepare(q, s, a)
         \/ \E s \in Session : Lapse(s)
         \/ Tick
         \/ UNCHANGED vars
  PROVE  WorkflowInv'
<1>1. TypeOK' /\ Aside
  BY AsideSteps DEF WorkflowInv
<1>2. \A i \in Plan : plans[i] = Gone => plans'[i] = Gone
  <2>1. ASSUME NEW q \in Person, NEW k \in Plan, NEW a \in App, MakePlan(q, k, a)
        PROVE  \A i \in Plan : plans[i] = Gone => plans'[i] = Gone
    BY <2>1 DEF MakePlan, WorkflowInv, TypeOK
  <2>2. QED
    BY <2>1 DEF Prepare, Lapse, Tick, vars
<1>3. PlansSpent'
  BY <1>1, <1>2, PlansKept DEF Aside, WorkflowInv
<1>4. Alone' /\ SafeProgress' /\ CycleProgress'
  BY <1>1 DEF Aside, WorkflowInv, Alone, SafeProgress, CycleProgress, Safe, Cycle,
     Free
<1>5. QED
  BY <1>1, <1>3, <1>4 DEF WorkflowInv

(* Whoever works on an upgrade or a test, no composite is under way, nor    *)
(* will be when that work ends.                                             *)
LEMMA ServedAlone ==
  ASSUME TypeOK, Alone, NEW j \in Slot, work[j] # NoWork,
         work[j].kind \in {"upgrade", "test"}
  PROVE  /\ NoComposite
         /\ Leave(j) => NoComposite'
<1>1. NoComposite
  BY DEF NoComposite, Alone, Safe, Cycle, Free, Slot
<1>2. ASSUME Leave(j) PROVE NoComposite'
  <2>1. work'["front"] \in {NoWork, work["front"]}
    BY <1>2, LeaveTyped DEF Slot
  <2>2. QED
    BY <1>1, <2>1 DEF NoComposite, Safe, Cycle, Free
<1>3. QED
  BY <1>1, <1>2

-----------------------------------------------------------------------------
(* Plans. *)

LEMMA UsePlanStep ==
  ASSUME WorkflowInv, NEW q \in Person, NEW i \in Plan, UsePlan(q, i)
  PROVE  WorkflowInv'
<1>1. /\ plans[i] \in PlanRow
      /\ plans' = [plans EXCEPT ![i] = Gone]
      /\ Free /\ plans[i] # Gone
      /\ UNCHANGED <<brokered, installed, safe, archived, sessions, ran, now>>
  BY DEF UsePlan, Known, WorkflowInv, TypeOK, host
<1>2. ran[i] = 0 /\ \A j \in Slot : ~OnPlan(j, i)
  BY <1>1 DEF WorkflowInv, PlansSpent
<1>3. CASE work' = work
  <2>1. TypeOK'
    BY <1>1, <1>3 DEF WorkflowInv, TypeOK
  <2>2. PlansSpent'
    BY <1>1, <1>3, PlansKept DEF WorkflowInv, TypeOK
  <2>3. Alone' /\ SafeProgress' /\ CycleProgress'
    BY <1>1, <1>3 DEF WorkflowInv, Alone, SafeProgress, CycleProgress, Safe, Cycle,
       Free
  <2>4. QED
    BY <2>1, <2>2, <2>3 DEF WorkflowInv
<1>4. CASE work' # work
  <2> DEFINE w == [kind |-> "upgrade", who |-> q, app |-> plans[i].app, plan |-> i,
                   stage |-> "forwarded"]
  <2>1. Start(w) /\ plans[i].app # ControlPlane
    BY <1>4 DEF UsePlan, CarryOut, TurnedDown
  <2>2. w \in Upgrading /\ w \in Work
    BY <1>1 DEF PlanRow, Upgrading, Work
  <2>3. w.kind = "upgrade" /\ w.plan = i /\ w.app = plans[i].app
    OBVIOUS
  <2> HIDE DEF w
  <2>4. /\ work' \in [Slot -> Work \cup {NoWork}]
        /\ work'["front"] = w
        /\ work'["orphan"] = work["orphan"]
    BY <2>1, <2>2, StartTyped DEF WorkflowInv
  <2>5. TypeOK'
    BY <1>1, <2>4 DEF WorkflowInv, TypeOK
  <2>6. PlansSpent'
    <3>1. \A k \in Plan : plans'[k] = IF k = i THEN Gone ELSE plans[k]
      BY <1>1 DEF WorkflowInv, TypeOK
    <3>2. \A k \in Plan : OnPlan("front", k)' => k = i /\ work'["front"].app # ControlPlane
      BY <2>1, <2>3, <2>4 DEF OnPlan
    <3>3. \A k \in Plan : OnPlan("orphan", k)' <=> OnPlan("orphan", k)
      BY <2>4 DEF OnPlan
    <3>4. QED
      BY <1>1, <1>2, <2>4, <3>1, <3>2, <3>3 DEF WorkflowInv, PlansSpent, Slot
  <2>7. NoComposite'
    BY <2>3, <2>4 DEF NoComposite, Safe, Cycle
  <2>8. Alone' /\ SafeProgress' /\ CycleProgress'
    BY <1>1, <2>4, <2>7, NothingOfComposites DEF WorkflowInv, Alone
  <2>9. QED
    BY <2>5, <2>6, <2>8 DEF WorkflowInv
<1>5. QED
  BY <1>3, <1>4

LEMMA UpgradeStep ==
  ASSUME WorkflowInv, NEW j \in Slot, UpgradePlanned(j)
  PROVE  WorkflowInv'
<1>1. PICK i \in Plan : work[j].plan = i /\ OnPlan(j, i)
  BY WorkKinds DEF UpgradePlanned, OnPlan, WorkflowInv, Upgrading
<1>2. work[j].app \in App /\ Leave(j)
  BY WorkKinds DEF UpgradePlanned, WorkflowInv
<1>3. /\ work' \in [Slot -> Work \cup {NoWork}]
      /\ work'[j] = NoWork
      /\ \A k \in Slot \ {j} : work'[k] = work[k]
  BY <1>2, LeaveTyped DEF WorkflowInv
<1>4. installed' \in [App -> Nat] /\ ran' \in {ran, [ran EXCEPT ![i] = 1]}
  <2>1. ran[i] = 0
    BY <1>1 DEF WorkflowInv, PlansSpent
  <2>2. QED
    BY <1>1, <1>2, <2>1 DEF UpgradePlanned, WorkflowInv, TypeOK
<1>5. TypeOK'
  BY <1>3, <1>4 DEF UpgradePlanned, WorkflowInv, TypeOK
<1>6. PlansSpent'
  <2>1. plans' = plans /\ plans[i] = Gone
    BY <1>1 DEF UpgradePlanned, WorkflowInv, PlansSpent
  <2>2. \A k \in Plan : ran'[k] = ran[k] \/ (k = i /\ ran'[k] = 1)
    BY <1>4 DEF WorkflowInv, TypeOK
  <2>3. \A k \in Slot, m \in Plan :
          OnPlan(k, m)' => OnPlan(k, m) /\ k # j /\ m # i /\ work'[k] = work[k]
    BY <1>1, <1>3 DEF OnPlan, WorkflowInv, PlansSpent, Slot
  <2>4. QED
    BY <2>1, <2>2, <2>3 DEF WorkflowInv, PlansSpent, Slot
<1>7. Alone' /\ SafeProgress' /\ CycleProgress'
  <2>1. NoComposite'
    BY <1>2, ServedAlone DEF UpgradePlanned, WorkflowInv
  <2>2. QED
    BY <1>3, <2>1, NothingOfComposites DEF UpgradePlanned, WorkflowInv, Alone, Slot
<1>8. QED
  BY <1>5, <1>6, <1>7 DEF WorkflowInv

-----------------------------------------------------------------------------
(* Package tests, and threads left to themselves. *)

LEMMA BeginTestStep ==
  ASSUME WorkflowInv, NEW q \in Person, NEW s \in Session, NEW a \in Tested,
         TestBegins(q, s, a)
  PROVE  WorkflowInv'
<1> DEFINE w == [kind |-> "test", who |-> q, app |-> a, session |-> s,
                 stage |-> IF brokered THEN "forwarded" ELSE "running"]
<1>1. /\ Start(w)
      /\ UNCHANGED <<brokered, installed, safe, archived, plans, sessions, ran, now>>
  BY DEF TestBegins, host
<1>2. w \in Testing /\ w \in Work /\ w.kind = "test"
  BY DEF Testing, Work
<1> HIDE DEF w
<1>3. /\ work' \in [Slot -> Work \cup {NoWork}]
      /\ work'["front"] = w
      /\ work'["orphan"] = work["orphan"]
  BY <1>1, <1>2, StartTyped DEF WorkflowInv
<1>4. TypeOK'
  BY <1>1, <1>3 DEF WorkflowInv, TypeOK
<1>5. PlansSpent'
  BY <1>1, <1>2, <1>3, PlansKept DEF WorkflowInv, Slot
<1>6. NoComposite'
  BY <1>2, <1>3 DEF NoComposite, Safe, Cycle
<1>7. Alone' /\ SafeProgress' /\ CycleProgress'
  BY <1>1, <1>3, <1>6, NothingOfComposites DEF WorkflowInv, Alone
<1>8. QED
  BY <1>4, <1>5, <1>7 DEF WorkflowInv

LEMMA AdmitStep ==
  ASSUME WorkflowInv, NEW j \in Slot, Admit(j)
  PROVE  WorkflowInv'
<1> DEFINE w == [work[j] EXCEPT !.stage = "running"]
<1>1. /\ work[j] # NoWork /\ work[j].kind = "test"
      /\ work' = [work EXCEPT ![j] = w]
      /\ UNCHANGED <<brokered, installed, safe, archived, plans, sessions, ran, now>>
  BY DEF Admit, Goto, host, WorkflowInv, TypeOK
<1>2. w \in Testing /\ w \in Work /\ w.kind = "test"
  BY <1>1, WorkKinds DEF WorkflowInv, Testing, Work
<1> HIDE DEF w
<1>3. /\ work' \in [Slot -> Work \cup {NoWork}]
      /\ work'[j] = w
      /\ \A k \in Slot \ {j} : work'[k] = work[k]
  BY <1>1, <1>2 DEF WorkflowInv, TypeOK
<1>4. TypeOK'
  BY <1>1, <1>3 DEF WorkflowInv, TypeOK
<1>5. PlansSpent'
  BY <1>1, <1>2, <1>3, PlansKept DEF WorkflowInv
<1>6. NoComposite
  BY <1>1, ServedAlone DEF WorkflowInv
<1>7. NoComposite' /\ (work'["orphan"] # NoWork => brokered)
  BY <1>1, <1>2, <1>3, <1>6 DEF NoComposite, Safe, Cycle, Free, Slot, WorkflowInv,
     Alone
<1>8. Alone' /\ SafeProgress' /\ CycleProgress'
  BY <1>1, <1>7, NothingOfComposites
<1>9. QED
  BY <1>4, <1>5, <1>8 DEF WorkflowInv

LEMMA TestLeavesStep ==
  ASSUME WorkflowInv, NEW j \in Slot,
         \/ Reject(j)
         \/ \E step \in TestSteps : TestEnds(j, step)
  PROVE  WorkflowInv'
<1>1. /\ work[j] # NoWork /\ work[j].kind = "test" /\ Leave(j)
      /\ UNCHANGED <<brokered, safe, plans, ran, now>>
  BY DEF Reject, TestEnds, host
<1>2. work[j] \in Testing
  BY <1>1, WorkKinds DEF WorkflowInv
<1>3. /\ work' \in [Slot -> Work \cup {NoWork}]
      /\ work'[j] = NoWork
      /\ \A k \in Slot \ {j} : work'[k] = work[k]
  BY <1>1, LeaveTyped DEF WorkflowInv
<1>4. /\ installed' \in [App -> Nat] /\ archived' \in BOOLEAN
      /\ sessions' \in [Session -> SessionRow \cup {NoRow}]
  <2>1. CASE Reject(j)
    BY <2>1 DEF Reject, host, WorkflowInv, TypeOK
  <2>2. ASSUME NEW step \in TestSteps, TestEnds(j, step)
        PROVE  /\ installed' \in [App -> Nat] /\ archived' \in BOOLEAN
               /\ sessions' \in [Session -> SessionRow \cup {NoRow}]
    <3>1. work[j].app \in App /\ work[j].session \in Session
      BY <1>2 DEF Testing
    <3>2. /\ Done(step, work[j].app) \subseteq Nat
          /\ Failed(step, work[j].app) \subseteq Nat
      BY <3>1, Versions DEF WorkflowInv
    <3>3. PICK v \in Nat : installed' = [installed EXCEPT ![work[j].app] = v]
      BY <2>2, <3>2 DEF TestEnds
    <3>4. installed' \in [App -> Nat]
      BY <3>1, <3>3 DEF WorkflowInv, TypeOK
    <3>5. archived' \in BOOLEAN /\ sessions' \in [Session -> SessionRow \cup {NoRow}]
      <4>1. archived' \in {archived, TRUE}
        BY <2>2 DEF TestEnds, WorkflowInv, TypeOK
      <4>2. sessions' \in {sessions, [sessions EXCEPT ![work[j].session] = NoRow]}
        BY <2>2 DEF TestEnds
      <4>3. QED
        BY <3>1, <4>1, <4>2 DEF WorkflowInv, TypeOK
    <3>6. QED
      BY <3>4, <3>5
  <2>3. QED
    BY <2>1, <2>2
<1>5. TypeOK'
  BY <1>1, <1>3, <1>4 DEF WorkflowInv, TypeOK
<1>6. PlansSpent'
  BY <1>1, <1>3, PlansKept DEF WorkflowInv
<1>7. NoComposite'
  BY <1>1, ServedAlone DEF WorkflowInv
<1>8. Alone' /\ SafeProgress' /\ CycleProgress'
  BY <1>1, <1>3, <1>7, NothingOfComposites DEF WorkflowInv, Alone, Slot
<1>9. QED
  BY <1>5, <1>6, <1>8 DEF WorkflowInv

(* The client gives up, or the frontend restarts: what the broker does goes *)
(* on, what the frontend does itself is over.                               *)
LEMMA DesertedStep ==
  ASSUME WorkflowInv,
         \/ GiveUp
         \/ Restart
  PROVE  WorkflowInv'
<1>1. /\ work'["front"] = NoWork
      /\ work' \in [Slot -> Work \cup {NoWork}]
      /\ \/ work'["orphan"] = work["orphan"]
         \/ work'["orphan"] = work["front"] /\ brokered
      /\ UNCHANGED <<brokered, installed, safe, archived, sessions, ran, now>>
  BY DEF GiveUp, Restart, host, Free, Slot, WorkflowInv, TypeOK
<1>2. /\ plans' \in [Plan -> PlanRow \cup {Unused, Gone}]
      /\ \A i \in Plan : plans[i] = Gone => plans'[i] = Gone
  BY DEF GiveUp, Restart, Known, WorkflowInv, TypeOK
<1>3. TypeOK'
  BY <1>1, <1>2 DEF WorkflowInv, TypeOK
<1>4. PlansSpent'
  <2>1. \A i \in Plan : ~OnPlan("front", i)'
    BY <1>1 DEF OnPlan
  <2>2. \A i \in Plan :
          OnPlan("orphan", i)' =>
            \E j \in Slot : OnPlan(j, i) /\ work'["orphan"] = work[j]
    BY <1>1 DEF OnPlan, Slot
  <2>3. QED
    BY <1>1, <1>2, <2>1, <2>2 DEF WorkflowInv, PlansSpent, Slot
<1>5. NoComposite' /\ (work'["orphan"] # NoWork => brokered)
  BY <1>1 DEF NoComposite, Safe, Cycle, Free, WorkflowInv, Alone
<1>6. Alone' /\ SafeProgress' /\ CycleProgress'
  BY <1>1, <1>5, NothingOfComposites
<1>7. QED
  BY <1>3, <1>4, <1>6 DEF WorkflowInv

-----------------------------------------------------------------------------
(* The composites. *)

LEMMA SafeBeginsStep ==
  ASSUME WorkflowInv, NEW a \in Tested, SafeUpgradeBegins(a)
  PROVE  WorkflowInv'
<1> DEFINE w == [kind |-> "safe", app |-> a, steady |-> TRUE,
                 stage |-> IF installed[a] = 0 THEN "verify" ELSE "backup",
                 passed |-> {},
                 failed |-> IF installed[a] = 0 THEN {"inspect_app"} ELSE {}]
<1>1. /\ Free /\ ~brokered /\ Start(w)
      /\ UNCHANGED <<brokered, installed, safe, archived, plans, sessions, ran, now>>
  BY DEF SafeUpgradeBegins, host
<1>2. /\ w \in SafelyUpgrading /\ w \in Work
      /\ w.kind = "safe" /\ w.passed = {} /\ w.stage # "upgrade"
  <2>1. w.stage \in SafeStages \ {"upgrade"} /\ w.failed \in SUBSET Entries
    BY DEF SafeStages, Entries
  <2>2. w.passed = {} /\ w.kind = "safe" /\ w.app \in App /\ w.steady \in BOOLEAN
    OBVIOUS
  <2>3. w = [kind |-> w.kind, app |-> w.app, steady |-> w.steady, stage |-> w.stage,
             passed |-> w.passed, failed |-> w.failed]
    OBVIOUS
  <2> HIDE DEF w
  <2>4. w \in SafelyUpgrading
    BY <2>1, <2>2, <2>3 DEF SafelyUpgrading
  <2>5. QED
    BY <2>1, <2>2, <2>4 DEF Work
<1> HIDE DEF w
<1>3. /\ work' \in [Slot -> Work \cup {NoWork}]
      /\ work'["front"] = w
      /\ work'["orphan"] = work["orphan"]
  BY <1>1, <1>2, StartTyped DEF WorkflowInv
<1>4. TypeOK'
  BY <1>1, <1>3 DEF WorkflowInv, TypeOK
<1>5. PlansSpent'
  BY <1>1, <1>2, <1>3, PlansKept DEF WorkflowInv, Slot
<1>6. Alone'
  BY <1>1, <1>3 DEF WorkflowInv, Alone
<1>7. SafeProgress' /\ CycleProgress'
  BY <1>2, <1>3 DEF SafeProgress, CycleProgress, Cycle
<1>8. QED
  BY <1>4, <1>5, <1>6, <1>7 DEF WorkflowInv

LEMMA CycleBeginsStep ==
  ASSUME WorkflowInv, NEW q \in Person, NEW s \in Session, NEW a \in Tested,
         NEW candidate \in App, CycleBegins(q, s, a, candidate)
  PROVE  WorkflowInv'
<1> DEFINE w == [kind |-> "cycle", app |-> a, candidate |-> candidate,
                 session |-> s, stage |-> "install", passed |-> {}, failed |-> {},
                 clean |-> candidate = a /\ installed[a] = 0, steady |-> TRUE]
<1>1. /\ Free /\ ~brokered /\ Start(w)
      /\ sessions' = [sessions EXCEPT ![s] = [who |-> q, app |-> a, expires |-> now + Ttl]]
      /\ UNCHANGED <<brokered, installed, safe, archived, plans, ran, now>>
  BY DEF CycleBegins, host
<1>2. /\ w \in Cycling /\ w \in Work
      /\ w.kind = "cycle" /\ w.passed = {} /\ w.stage = "install"
  BY DEF Cycling, CycleStages, CycleSteps, Work
<1> HIDE DEF w
<1>3. /\ work' \in [Slot -> Work \cup {NoWork}]
      /\ work'["front"] = w
      /\ work'["orphan"] = work["orphan"]
  BY <1>1, <1>2, StartTyped DEF WorkflowInv
<1>4. TypeOK'
  BY <1>1, <1>3 DEF WorkflowInv, TypeOK, SessionRow
<1>5. PlansSpent'
  BY <1>1, <1>2, <1>3, PlansKept DEF WorkflowInv, Slot
<1>6. Alone'
  BY <1>1, <1>3 DEF WorkflowInv, Alone
<1>7. SafeProgress' /\ CycleProgress'
  BY <1>2, <1>3 DEF SafeProgress, CycleProgress, Safe, SoFar
<1>8. QED
  BY <1>4, <1>5, <1>6, <1>7 DEF WorkflowInv

(* A composite that goes on is the same kind of composite, and alone.       *)
LEMMA CompositeGoesOn ==
  ASSUME WorkflowInv, Safe \/ Cycle,
         work' \in [Slot -> Work \cup {NoWork}],
         work'["front"] \in SafelyUpgrading \cup Cycling,
         work'["orphan"] = work["orphan"],
         UNCHANGED <<brokered, plans, ran>>
  PROVE  PlansSpent' /\ Alone'
<1>1. ~brokered /\ work["orphan"] = NoWork
  BY DEF WorkflowInv, Alone
<1>2. work'["front"].kind # "upgrade"
  BY DEF SafelyUpgrading, Cycling
<1>3. QED
  BY <1>1, <1>2, PlansKept DEF WorkflowInv, Alone, Slot

LEMMA SafeBackupStep ==
  ASSUME WorkflowInv, SafeBackup
  PROVE  WorkflowInv'
<1> DEFINE f == work["front"]
<1>1. /\ Safe /\ f \in SafelyUpgrading /\ f.stage = "backup"
      /\ UNCHANGED <<brokered, installed, archived, plans, sessions, ran, now>>
  BY WorkKinds DEF SafeBackup, Step, Safe, Free, Slot, WorkflowInv
<1>2. f.app \in App /\ "upgrade" \notin f.passed
  BY <1>1 DEF SafelyUpgrading, WorkflowInv, SafeProgress
<1>3. PICK ok \in BOOLEAN, next \in {"upgrade", "verify"} :
        /\ Report("backup", ok, next)
        /\ next = "upgrade" => safe' = [safe EXCEPT ![f.app] = installed[f.app]]
        /\ next = "verify" => safe' = safe
  BY DEF SafeBackup
<1>4. /\ work' \in [Slot -> Work \cup {NoWork}]
      /\ work'["front"] \in SafelyUpgrading
      /\ work'["front"].stage = next
      /\ work'["front"].app = f.app
      /\ work'["front"].steady = f.steady
      /\ work'["front"].passed = f.passed \cup IF ok THEN {"backup"} ELSE {}
      /\ work'["orphan"] = work["orphan"]
  <2>1. next \in SafeStages /\ "backup" \in Entries
    BY DEF SafeStages, Entries
  <2>2. QED
    BY <1>1, <1>3, <2>1, SafeReports DEF WorkflowInv
<1>5. safe' \in [App -> Nat] /\ (next = "upgrade" => safe'[f.app] = installed[f.app])
  BY <1>2, <1>3 DEF WorkflowInv, TypeOK
<1>6. TypeOK'
  BY <1>1, <1>4, <1>5 DEF WorkflowInv, TypeOK
<1>7. PlansSpent' /\ Alone'
  BY <1>1, <1>4, CompositeGoesOn
<1>8. "upgrade" \notin work'["front"].passed
  BY <1>2, <1>4
<1>9. SafeProgress' /\ CycleProgress'
  BY <1>1, <1>4, <1>5, <1>8 DEF SafeProgress, CycleProgress, Cycle, SafelyUpgrading
<1>10. QED
  BY <1>6, <1>7, <1>9 DEF WorkflowInv

LEMMA SafeUpgradeStepKeeps ==
  ASSUME WorkflowInv, SafeUpgradeStep
  PROVE  WorkflowInv'
<1> DEFINE f == work["front"]
<1>1. /\ Safe /\ f \in SafelyUpgrading /\ f.stage = "upgrade"
      /\ UNCHANGED <<brokered, safe, archived, plans, sessions, ran, now>>
  BY WorkKinds DEF SafeUpgradeStep, Step, Safe, Free, Slot, WorkflowInv
<1>2. /\ f.app \in App /\ "upgrade" \notin f.passed
      /\ f.steady => safe[f.app] = installed[f.app]
  BY <1>1 DEF SafelyUpgrading, WorkflowInv, SafeProgress
<1>3. PICK ok \in BOOLEAN :
        /\ Report("upgrade", ok, "verify")
        /\ ok => /\ installed[f.app] \in 1..(Latest - 1)
                 /\ installed' = [installed EXCEPT ![f.app] = Latest]
        /\ ~ok => installed' = installed
  BY DEF SafeUpgradeStep
<1>4. /\ work' \in [Slot -> Work \cup {NoWork}]
      /\ work'["front"] \in SafelyUpgrading
      /\ work'["front"].stage = "verify"
      /\ work'["front"].app = f.app
      /\ work'["front"].steady = f.steady
      /\ work'["front"].passed = f.passed \cup IF ok THEN {"upgrade"} ELSE {}
      /\ work'["orphan"] = work["orphan"]
  <2>1. "verify" \in SafeStages /\ "upgrade" \in Entries
    BY DEF SafeStages, Entries
  <2>2. QED
    BY <1>1, <1>3, <2>1, SafeReports DEF WorkflowInv
<1>5. installed' \in [App -> Nat]
  BY <1>2, <1>3 DEF WorkflowInv, TypeOK
<1>6. TypeOK'
  BY <1>1, <1>4, <1>5 DEF WorkflowInv, TypeOK
<1>7. PlansSpent' /\ Alone'
  BY <1>1, <1>4, CompositeGoesOn
<1>8. work'["front"].steady /\ "upgrade" \in work'["front"].passed => safe[f.app] # 0
  <2>1. ok => installed[f.app] # 0
    BY <1>3
  <2>2. QED
    BY <1>2, <1>4, <2>1
<1>9. SafeProgress' /\ CycleProgress'
  BY <1>1, <1>4, <1>8 DEF SafeProgress, CycleProgress, Cycle, SafelyUpgrading
<1>10. QED
  BY <1>6, <1>7, <1>9 DEF WorkflowInv

LEMMA SafeVerifyStep ==
  ASSUME WorkflowInv, SafeVerify
  PROVE  WorkflowInv'
<1> DEFINE f == work["front"]
<1>1. /\ Safe /\ f \in SafelyUpgrading /\ f.stage = "verify"
      /\ UNCHANGED <<brokered, installed, safe, archived, plans, sessions, ran, now>>
  BY WorkKinds DEF SafeVerify, Step, Safe, Free, Slot, WorkflowInv, host
<1>2. /\ f.app \in App
      /\ f.steady /\ "upgrade" \in f.passed => safe[f.app] # 0
  BY <1>1 DEF SafelyUpgrading, WorkflowInv, SafeProgress
<1>3. PICK next \in {"reported", "raised"} :
        /\ Goto("front", next)
        /\ next = "raised" => ~HasArchive
  BY DEF SafeVerify
<1>4. /\ work' \in [Slot -> Work \cup {NoWork}]
      /\ work'["front"] = [f EXCEPT !.stage = next]
      /\ work'["front"] \in SafelyUpgrading
      /\ work'["orphan"] = work["orphan"]
  BY <1>1, <1>3, SafeGoto DEF WorkflowInv, SafeStages
<1>5. /\ work'["front"].stage = next
      /\ work'["front"].app = f.app
      /\ work'["front"].steady = f.steady
      /\ work'["front"].passed = f.passed
  BY <1>1, <1>4 DEF SafelyUpgrading
<1>6. TypeOK'
  BY <1>1, <1>4 DEF WorkflowInv, TypeOK
<1>7. PlansSpent' /\ Alone'
  BY <1>1, <1>4, CompositeGoesOn
<1>8. safe[f.app] # 0 => next # "raised"
  BY <1>2, <1>3 DEF HasArchive
<1>9. SafeProgress' /\ CycleProgress'
  BY <1>1, <1>2, <1>4, <1>5, <1>8 DEF SafeProgress, CycleProgress, Cycle,
     SafelyUpgrading
<1>10. QED
  BY <1>6, <1>7, <1>9 DEF WorkflowInv

LEMMA CycleStepKeeps ==
  ASSUME WorkflowInv, CycleStep
  PROVE  WorkflowInv'
<1> DEFINE f == work["front"]
           step == IF f.stage = "cleanup" THEN "remove" ELSE f.stage
           a == IF f.stage = "install" THEN f.candidate ELSE f.app
<1>1. /\ Cycle /\ f \in Cycling /\ f.stage \in CycleSteps
      /\ UNCHANGED <<brokered, safe, plans, sessions, ran, now>>
  BY CycleAt DEF CycleStep, WorkflowInv
<1>2. f.app \in App /\ a \in App
  BY <1>1 DEF Cycling
<1>3. PICK ok \in BOOLEAN :
        /\ \E v \in IF ok THEN Done(step, a) ELSE Failed(step, a) :
             installed' = [installed EXCEPT ![a] = v]
        /\ archived' = (archived \/ (f.stage = "backup" /\ ok))
        /\ Report(f.stage, ok, AfterStep(f.stage, ok))
  BY DEF CycleStep
<1>4. PICK v \in Nat : /\ installed' = [installed EXCEPT ![a] = v]
                       /\ v \in IF ok THEN Done(step, a) ELSE Failed(step, a)
  BY <1>2, <1>3, Versions DEF WorkflowInv
<1>5. /\ work' \in [Slot -> Work \cup {NoWork}]
      /\ work'["front"] \in Cycling
      /\ work'["front"].stage = AfterStep(f.stage, ok)
      /\ work'["front"].app = f.app
      /\ work'["front"].passed = f.passed \cup IF ok THEN {f.stage} ELSE {}
      /\ work'["front"].failed = f.failed \cup IF ok THEN {} ELSE {f.stage}
      /\ work'["orphan"] = work["orphan"]
  <2>1. AfterStep(f.stage, ok) \in CycleStages
    BY <1>1, AfterStepTyped
  <2>2. f.stage \in Entries
    BY <1>1 DEF CycleSteps, Entries
  <2>3. QED
    BY <1>1, <1>3, <2>1, <2>2, CycleReports DEF WorkflowInv
<1>6. TypeOK'
  BY <1>1, <1>2, <1>3, <1>4, <1>5 DEF WorkflowInv, TypeOK
<1>7. PlansSpent' /\ Alone'
  BY <1>1, <1>5, CompositeGoesOn
<1>8. AfterStep(f.stage, ok) # "install"
  BY <1>1 DEF AfterStep, CycleStage, CycleSteps
<1>9. work'["front"].failed = {} => work'["front"].passed = SoFar[work'["front"].stage]
  <2> SUFFICES ASSUME work'["front"].failed = {}
               PROVE  work'["front"].passed = SoFar[work'["front"].stage]
    OBVIOUS
  <2>1. ok /\ f.failed = {}
    BY <1>5
  <2>2. f.passed = SoFar[f.stage]
    BY <1>1, <2>1 DEF WorkflowInv, CycleProgress
  <2>3. work'["front"].stage = AfterStep(f.stage, TRUE)
    BY <1>5, <2>1
  <2>4. work'["front"].passed = SoFar[f.stage] \cup {f.stage}
    BY <1>5, <2>1, <2>2
  <2>5. CASE f.stage = "install"
    BY <2>3, <2>4, <2>5 DEF AfterStep, CycleStage, SoFar
  <2>6. CASE f.stage = "backup"
    BY <2>3, <2>4, <2>6 DEF AfterStep, CycleStage, SoFar
  <2>7. CASE f.stage = "remove"
    <3>1. "backup" \in f.passed
      BY <2>2, <2>7 DEF SoFar
    <3>2. work'["front"].stage = "restore"
      BY <2>3, <2>7, <3>1 DEF AfterStep, CycleStage
    <3>3. QED
      BY <2>4, <2>7, <3>2 DEF SoFar
  <2>8. CASE f.stage = "restore"
    BY <2>3, <2>4, <2>8 DEF AfterStep, CycleStage, SoFar
  <2>9. CASE f.stage = "cleanup"
    <3>1. work'["front"].stage = "reported"
      BY <2>3, <2>9 DEF AfterStep
    <3>2. work'["front"].passed =
            {"install", "backup", "remove", "restore"} \cup {"cleanup"}
      BY <2>4, <2>9 DEF SoFar
    <3>3. work'["front"].passed = CycleSteps
      BY <3>2 DEF CycleSteps
    <3>4. SoFar["reported"] = CycleSteps
      BY DEF SoFar
    <3>5. QED
      BY <3>1, <3>3, <3>4
  <2>10. QED
    BY <1>1, <2>5, <2>6, <2>7, <2>8, <2>9 DEF CycleSteps
<1>10. work'["front"].stage = "reported" /\ "install" \in work'["front"].passed =>
         installed'[f.app] = 0 \/ "cleanup" \in work'["front"].failed
  <2> SUFFICES ASSUME work'["front"].stage = "reported",
                      "install" \in work'["front"].passed,
                      "cleanup" \notin work'["front"].failed
               PROVE  installed'[f.app] = 0
    OBVIOUS
  <2>1. f.stage # "install"
    <3>1. ASSUME f.stage = "install" PROVE FALSE
      <4>1. f.passed = {}
        BY <1>1, <3>1 DEF WorkflowInv, CycleProgress
      <4>2. ~ok
        BY <1>5, <3>1 DEF AfterStep, CycleStage
      <4>3. QED
        BY <1>5, <4>1, <4>2
    <3>2. QED
      BY <3>1
  <2>2. ok /\ step = "remove" /\ a = f.app
    BY <1>1, <1>5, <2>1 DEF AfterStep, CycleStage, CycleSteps
  <2>3. v = 0
    BY <1>4, <2>2 DEF Done
  <2>4. QED
    BY <1>2, <1>4, <2>2, <2>3 DEF WorkflowInv, TypeOK
<1>11. SafeProgress' /\ CycleProgress'
  BY <1>5, <1>8, <1>9, <1>10 DEF SafeProgress, CycleProgress, Safe, Cycling
<1>12. QED
  BY <1>6, <1>7, <1>11 DEF WorkflowInv

LEMMA FinishStep ==
  ASSUME WorkflowInv, Finish
  PROVE  WorkflowInv'
<1>1. /\ Leave("front")
      /\ UNCHANGED <<brokered, installed, safe, archived, plans, ran, now>>
  BY DEF Finish, host
<1>2. sessions' \in [Session -> SessionRow \cup {NoRow}]
  <2>1. Cycle => work["front"].session \in Session
    BY WorkKinds DEF Cycle, Free, Slot, Cycling, WorkflowInv
  <2>2. QED
    BY <2>1 DEF Finish, WorkflowInv, TypeOK
<1>3. /\ work' \in [Slot -> Work \cup {NoWork}]
      /\ work'["front"] = NoWork
      /\ work'["orphan"] = work["orphan"]
  BY <1>1, LeaveTyped DEF WorkflowInv, Slot
<1>4. TypeOK'
  BY <1>1, <1>2, <1>3 DEF WorkflowInv, TypeOK
<1>5. PlansSpent'
  BY <1>1, <1>3, PlansKept DEF WorkflowInv, Slot
<1>6. NoComposite'
  BY <1>3 DEF NoComposite, Safe, Cycle, Free
<1>7. Alone' /\ SafeProgress' /\ CycleProgress'
  BY <1>1, <1>3, <1>6, NothingOfComposites DEF WorkflowInv, Alone
<1>8. QED
  BY <1>4, <1>5, <1>7 DEF WorkflowInv

LEMMA ShellStep ==
  ASSUME WorkflowInv, Shell
  PROVE  WorkflowInv'
<1> DEFINE f == work["front"]
<1>1. /\ Safe \/ Cycle
      /\ f \in SafelyUpgrading \cup Cycling
      /\ work' = [work EXCEPT !["front"].steady = FALSE]
      /\ UNCHANGED <<brokered, plans, sessions, ran, now>>
  BY WorkKinds DEF Shell, Safe, Cycle, Free, Slot, WorkflowInv
<1>2. work'["front"] = [f EXCEPT !.steady = FALSE] /\ work'["orphan"] = work["orphan"]
  BY <1>1 DEF WorkflowInv, TypeOK, Slot
<1>3. /\ f \in SafelyUpgrading => work'["front"] \in SafelyUpgrading
      /\ f \in Cycling => work'["front"] \in Cycling
      /\ ~work'["front"].steady
      /\ work'["front"].kind = f.kind
      /\ work'["front"].stage = f.stage
      /\ work'["front"].passed = f.passed
      /\ work'["front"].failed = f.failed
  <2>1. CASE f \in SafelyUpgrading
    <3>1. work'["front"] \in SafelyUpgrading /\ f.kind = "safe"
      BY <1>2, <2>1 DEF SafelyUpgrading
    <3>2. QED
      BY <1>2, <2>1, <3>1 DEF SafelyUpgrading, Cycling
  <2>2. CASE f \in Cycling
    <3>1. work'["front"] \in Cycling /\ f.kind = "cycle"
      BY <1>2, <2>2 DEF Cycling
    <3>2. QED
      BY <1>2, <2>2, <3>1 DEF SafelyUpgrading, Cycling
  <2>3. QED
    BY <1>1, <2>1, <2>2
<1>4. work' \in [Slot -> Work \cup {NoWork}]
  BY <1>1, <1>2, <1>3 DEF WorkflowInv, TypeOK, Slot, Work
<1>5. installed' \in [App -> Nat] /\ safe' \in [App -> Nat] /\ archived' \in BOOLEAN
  <2>1. ASSUME NEW a \in App, NEW v \in {0, 1}
        PROVE  /\ [installed EXCEPT ![a] = v] \in [App -> Nat]
               /\ [safe EXCEPT ![a] = 0] \in [App -> Nat]
    BY DEF WorkflowInv, TypeOK
  <2>2. CASE (\E a \in App : \E v \in {0, 1} : installed' = [installed EXCEPT ![a] = v])
             /\ UNCHANGED <<safe, archived>>
    BY <2>1, <2>2 DEF WorkflowInv, TypeOK
  <2>3. CASE (\E a \in App : safe' = [safe EXCEPT ![a] = 0])
             /\ UNCHANGED <<installed, archived>>
    BY <2>1, <2>3 DEF WorkflowInv, TypeOK
  <2>4. CASE archived' = FALSE /\ UNCHANGED <<installed, safe>>
    BY <2>4 DEF WorkflowInv, TypeOK
  <2>5. QED
    BY <2>2, <2>3, <2>4 DEF Shell
<1>6. TypeOK'
  BY <1>1, <1>4, <1>5 DEF WorkflowInv, TypeOK
<1>7. PlansSpent' /\ Alone'
  BY <1>1, <1>2, <1>3, <1>4, CompositeGoesOn
<1>8. (Safe' => Safe) /\ (Cycle' => Cycle)
  BY <1>1, <1>3 DEF Safe, Cycle, Free
<1>9. SafeProgress' /\ CycleProgress'
  BY <1>3, <1>8 DEF SafeProgress, CycleProgress, WorkflowInv
<1>10. QED
  BY <1>6, <1>7, <1>9 DEF WorkflowInv

-----------------------------------------------------------------------------
LEMMA InvStep == WorkflowInv /\ [Next]_vars => WorkflowInv'
<1> SUFFICES ASSUME WorkflowInv, [Next]_vars PROVE WorkflowInv'
  OBVIOUS
<1>1. ASSUME NEW q \in Person, NEW i \in Plan,
             (\E a \in App : MakePlan(q, i, a)) \/ UsePlan(q, i)
      PROVE  WorkflowInv'
  BY <1>1, AsideKeeps, UsePlanStep
<1>2. ASSUME NEW q \in Person, NEW s \in Session, NEW a \in Tested,
             \/ Prepare(q, s, a)
             \/ TestBegins(q, s, a)
             \/ \E candidate \in App : CycleBegins(q, s, a, candidate)
      PROVE  WorkflowInv'
  BY <1>2, AsideKeeps, BeginTestStep, CycleBeginsStep
<1>3. ASSUME NEW j \in Slot, Serve(j) PROVE WorkflowInv'
  BY <1>3, UpgradeStep, AdmitStep, TestLeavesStep DEF Serve
<1>4. CASE Compose
  BY <1>4, SafeBackupStep, SafeUpgradeStepKeeps, SafeVerifyStep, CycleStepKeeps,
     FinishStep DEF Compose
<1>5. CASE (\E s \in Session : Lapse(s)) \/ Tick \/ UNCHANGED vars
  BY <1>5, AsideKeeps
<1>6. QED
  BY <1>1, <1>2, <1>3, <1>4, <1>5, SafeBeginsStep, DesertedStep, ShellStep DEF Next

LEMMA InvHolds == Spec => []WorkflowInv
<1>1. Init => WorkflowInv
  <2>1. Init => TypeOK
    BY DEF Init, TypeOK
  <2>2. Init => PlansSpent /\ Alone /\ SafeProgress /\ CycleProgress
    BY DEF Init, PlansSpent, OnPlan, Alone, SafeProgress, CycleProgress, Safe,
       Cycle, Free, Slot
  <2>3. QED
    BY <2>1, <2>2 DEF WorkflowInv
<1>2. QED
  BY <1>1, InvStep, PTL DEF Spec

-----------------------------------------------------------------------------
(* However often a plan is named, and whoever gives up on it while root     *)
(* works, it is carried out at most once, and no plan upgrades the control  *)
(* plane (server.py:1856).                                                  *)
THEOREM PlansRunOnce == Spec => []PlanRunsOnce
<1>1. WorkflowInv => PlanRunsOnce
  <2> SUFFICES ASSUME WorkflowInv PROVE PlanRunsOnce
    OBVIOUS
  <2>1. \A i \in Plan : ran[i] <= 1
    BY DEF WorkflowInv, PlansSpent
  <2>2. ASSUME NEW j \in Slot, work[j] # NoWork, work[j].kind = "upgrade"
        PROVE  work[j].app # ControlPlane
    <3>1. work[j].plan \in Plan
      BY <2>2, WorkKinds DEF WorkflowInv, Upgrading
    <3>2. QED
      BY <2>2, <3>1 DEF WorkflowInv, PlansSpent, OnPlan
  <2>3. QED
    BY <2>1, <2>2 DEF PlanRunsOnce
<1>2. QED
  BY <1>1, InvHolds, PTL

(* Unless the shell was at the host, the archive safe_upgrade relies on is  *)
(* of the version it is about to replace (adapter.py:3925).                 *)
THEOREM BackupsAreCurrent == Spec => []SafeBackupIsCurrent
<1>1. WorkflowInv => SafeBackupIsCurrent
  BY DEF WorkflowInv, SafeProgress, SafeBackupIsCurrent, Safe, Step
<1>2. QED
  BY <1>1, InvHolds, PTL

(* The PolicyViolation safe_upgrade raises in place of its report hides no  *)
(* upgrade (server.py:2808): an upgrade that was made has its archive.      *)
THEOREM ViolationsHideNothing == Spec => []ViolationMeansNotUpgraded
<1>1. WorkflowInv => ViolationMeansNotUpgraded
  <2> SUFFICES ASSUME WorkflowInv, Step("raised"), work["front"].steady
               PROVE  "upgrade" \notin work["front"].passed
    BY DEF ViolationMeansNotUpgraded
  <2>1. Safe
    <3>1. /\ work["front"].kind \in {"upgrade", "test", "safe", "cycle"}
          /\ work["front"].kind = "upgrade" => work["front"] \in Upgrading
          /\ work["front"].kind = "test" => work["front"] \in Testing
          /\ work["front"].kind = "cycle" => work["front"] \in Cycling
          /\ ~Free /\ work["front"].stage = "raised"
      BY WorkKinds DEF WorkflowInv, Step, Free, Slot
    <3>2. QED
      BY <3>1 DEF Safe, Upgrading, Testing, Cycling, CycleStages, CycleSteps
  <2>2. QED
    BY <2>1 DEF WorkflowInv, SafeProgress, Step
<1>2. QED
  BY <1>1, InvHolds, PTL

(* A cycle that reports has removed what it installed, or reports that the  *)
(* clean-up failed.                                                         *)
THEOREM CyclesCleanUp == Spec => []CycleCleansUp
<1>1. WorkflowInv => CycleCleansUp
  BY DEF WorkflowInv, CycleProgress, CycleCleansUp, Step
<1>2. QED
  BY <1>1, InvHolds, PTL

(* A cycle whose report has no failure has passed all five steps.           *)
THEOREM PassesAreComplete == Spec => []PassedMeansTested
<1>1. WorkflowInv => PassedMeansTested
  <2>1. SoFar["reported"] = {"install", "backup", "remove", "restore", "cleanup"}
    BY DEF SoFar, CycleSteps
  <2>2. QED
    BY <2>1 DEF WorkflowInv, CycleProgress, PassedMeansTested, Step
<1>2. QED
  BY <1>1, InvHolds, PTL

(* No work that was there has come to run in this step.                     *)
NobodyAdmitted ==
  \A j \in Slot : \/ work[j] = NoWork
                  \/ work'[j] = NoWork
                  \/ work'[j] = work[j]
                  \/ work[j].stage # "forwarded"
                  \/ work'[j].stage # "running"

LEMMA OnlyAdmitAdmits ==
  ASSUME WorkflowInv, [Next]_vars, \A j \in Slot : ~Admit(j)
  PROVE  NobodyAdmitted
<1>1. ASSUME NEW w, Free, Start(w) PROVE NobodyAdmitted
  <2>1. work["front"] = NoWork /\ work'["orphan"] = work["orphan"]
    BY <1>1 DEF Free, Start, WorkflowInv, TypeOK, Slot
  <2>2. QED
    BY <2>1 DEF NobodyAdmitted, Slot
<1>2. ASSUME NEW k \in Slot, Leave(k) PROVE NobodyAdmitted
  BY <1>2, LeaveTyped DEF NobodyAdmitted, WorkflowInv
<1>3. CASE work' = work
  BY <1>3 DEF NobodyAdmitted
<1>4. ASSUME work'["orphan"] = work["orphan"], work["front"].stage # "forwarded"
      PROVE  NobodyAdmitted
  BY <1>4 DEF NobodyAdmitted, Slot
<1>5. ASSUME NEW q \in Person, NEW i \in Plan,
             (\E a \in App : MakePlan(q, i, a)) \/ UsePlan(q, i)
      PROVE  NobodyAdmitted
  BY <1>1, <1>3, <1>5 DEF MakePlan, UsePlan, CarryOut
<1>6. ASSUME NEW q \in Person, NEW s \in Session, NEW a \in Tested,
             \/ Prepare(q, s, a)
             \/ TestBegins(q, s, a)
             \/ \E candidate \in App : CycleBegins(q, s, a, candidate)
      PROVE  NobodyAdmitted
  BY <1>1, <1>3, <1>6 DEF Prepare, TestBegins, CycleBegins
<1>7. ASSUME NEW j \in Slot, Serve(j) PROVE NobodyAdmitted
  BY <1>2, <1>7 DEF Serve, UpgradePlanned, Reject, TestEnds
<1>8. CASE (\E a \in Tested : SafeUpgradeBegins(a)) \/ Finish
  BY <1>1, <1>2, <1>8 DEF SafeUpgradeBegins, Finish, Slot
<1>9. CASE SafeBackup \/ SafeUpgradeStep \/ SafeVerify
  <2>1. work["front"].stage # "forwarded"
    BY <1>9 DEF SafeBackup, SafeUpgradeStep, SafeVerify, Step
  <2>2. work'["orphan"] = work["orphan"]
    BY <1>9 DEF SafeBackup, SafeUpgradeStep, SafeVerify, Report, Goto, WorkflowInv,
       TypeOK, Slot
  <2>3. QED
    BY <1>4, <2>1, <2>2
<1>10. CASE CycleStep
  <2>1. work["front"].stage # "forwarded"
    BY <1>10, CycleAt DEF WorkflowInv, CycleSteps
  <2>2. work'["orphan"] = work["orphan"]
    BY <1>10 DEF CycleStep, Report, WorkflowInv, TypeOK, Slot
  <2>3. QED
    BY <1>4, <2>1, <2>2
<1>11. CASE GiveUp \/ Restart
  BY <1>11 DEF GiveUp, Restart, NobodyAdmitted, Slot
<1>12. CASE Shell
  <2>1. work["front"] \in SafelyUpgrading \cup Cycling
    BY <1>12, WorkKinds DEF Shell, Safe, Cycle, Free, Slot, WorkflowInv
  <2>2. work["front"].stage # "forwarded"
    BY <2>1 DEF SafelyUpgrading, SafeStages, Cycling, CycleStages, CycleSteps
  <2>3. work'["orphan"] = work["orphan"]
    BY <1>12 DEF Shell, WorkflowInv, TypeOK, Slot
  <2>4. QED
    BY <1>4, <2>2, <2>3
<1>13. CASE (\E s \in Session : Lapse(s)) \/ Tick \/ UNCHANGED vars
  BY <1>3, <1>13 DEF Lapse, Tick, vars
<1>14. QED
  BY <1>5, <1>6, <1>7, <1>8, <1>9, <1>10, <1>11, <1>12, <1>13 DEF Next, Compose

(* A test starts at root only in a session that is its caller's, for its    *)
(* app, and has not lapsed by then (helper.py:372).                         *)
THEOREM TestsAreAdmittedLive == Spec => AdmittedLive
<1>1. WorkflowInv /\ [Next]_vars =>
        \A j \in Slot :
          work[j] # NoWork /\ work'[j] # NoWork
          /\ work[j].stage = "forwarded" /\ work'[j].stage = "running"
            => Matches(work[j].session, work[j].who, work[j].app)
  <2> SUFFICES ASSUME WorkflowInv, [Next]_vars, NEW j \in Slot,
                      work[j] # NoWork, work'[j] # NoWork,
                      work[j].stage = "forwarded", work'[j].stage = "running"
               PROVE  Matches(work[j].session, work[j].who, work[j].app)
    OBVIOUS
  <2>1. PICK k \in Slot : Admit(k)
    BY OnlyAdmitAdmits DEF NobodyAdmitted
  <2>2. CASE k = j
    BY <2>1, <2>2 DEF Admit
  <2>3. CASE k # j
    BY <2>1, <2>3 DEF Admit, Goto, WorkflowInv, TypeOK
  <2>4. QED
    BY <2>2, <2>3
<1>2. QED
  BY <1>1, InvHolds, PTL DEF Spec, AdmittedLive
=============================================================================
