------------------------- MODULE PrivilegedCallProofs -------------------------
(***************************************************************************)
(* Theorems about PrivilegedCall, for every set of roles an administrator  *)
(* gives and every set of keys an edited policy.toml adds: root runs what  *)
(* it was asked to, what its rule wants confirmed on a claimed ticket only *)
(* and as the ticket's plan says, and does not turn down what the frontend *)
(* let through.                                                            *)
(*                                                                         *)
(* What the tables say of one another is assumed (TablesAgree,             *)
(* BindingsTellApart, ToolsAreUnderstood): these assumptions have no       *)
(* parameter and TLC decides them.  What is proved is what the processes   *)
(* make of them while tickets lapse, roles and policies change, and either *)
(* process restarts with a policy the other has not loaded.                *)
(***************************************************************************)
EXTENDS PrivilegedCall, TLAPS

USE CallAssumption

-----------------------------------------------------------------------------
(* Policies. *)

(* What every policy is: no rule of it asks for the owner without asking    *)
(* for a confirmation, and a tool without a key has none.                   *)
IsPolicy(policy) ==
  /\ "none" \notin DOMAIN policy
  /\ \A key \in DOMAIN policy :
       /\ policy[key].confirm \in BOOLEAN
       /\ policy[key].owner => policy[key].confirm

LEMMA RuleFields ==
  ASSUME NEW confirm, NEW owner, NEW backup, NEW space
  PROVE  /\ Rule(confirm, owner, backup, space).confirm = confirm
         /\ Rule(confirm, owner, backup, space).owner = owner
BY DEF Rule

LEMMA RuleConfirmed ==
  ASSUME NEW confirm, NEW owner, NEW backup, NEW space
  PROVE  /\ [Rule(confirm, owner, backup, space) EXCEPT !.confirm = TRUE].confirm = TRUE
         /\ [Rule(confirm, owner, backup, space) EXCEPT !.confirm = TRUE].owner = owner
BY DEF Rule

LEMMA DefaultIsPolicy ==
  /\ IsPolicy(DefaultPolicy)
  /\ \A key \in DOMAIN DefaultPolicy :
       /\ [DefaultPolicy[key] EXCEPT !.confirm = TRUE].confirm = TRUE
       /\ [DefaultPolicy[key] EXCEPT !.confirm = TRUE].owner = DefaultPolicy[key].owner
<1>1. "none" \notin DOMAIN DefaultPolicy
  BY DEF DefaultPolicy, ConfirmedKeys, CoSignedKeys
<1>2. ASSUME NEW key \in DOMAIN DefaultPolicy
      PROVE  /\ DefaultPolicy[key].confirm \in BOOLEAN
             /\ DefaultPolicy[key].owner => DefaultPolicy[key].confirm
             /\ [DefaultPolicy[key] EXCEPT !.confirm = TRUE].confirm = TRUE
             /\ [DefaultPolicy[key] EXCEPT !.confirm = TRUE].owner
                  = DefaultPolicy[key].owner
  <2>1. PICK backup, space :
          DefaultPolicy[key] = Rule(key \in ConfirmedKeys \cup CoSignedKeys,
                                    key \in CoSignedKeys, backup, space)
    BY <1>2 DEF DefaultPolicy
  <2>2. /\ DefaultPolicy[key].confirm = (key \in ConfirmedKeys \cup CoSignedKeys)
        /\ DefaultPolicy[key].owner = (key \in CoSignedKeys)
    BY <2>1, RuleFields
  <2>3. /\ [DefaultPolicy[key] EXCEPT !.confirm = TRUE].confirm = TRUE
        /\ [DefaultPolicy[key] EXCEPT !.confirm = TRUE].owner = (key \in CoSignedKeys)
    BY <2>1, RuleConfirmed
  <2>4. DefaultPolicy[key].confirm \in BOOLEAN
    <3>1. (key \in ConfirmedKeys \cup CoSignedKeys) \in BOOLEAN
      OBVIOUS
    <3>2. QED
      BY <2>2, <3>1, Zenon
  <2>5. DefaultPolicy[key].owner => DefaultPolicy[key].confirm
    BY <2>2, Zenon
  <2>6. QED
    BY <2>2, <2>3, <2>4, <2>5, Zenon
<1>3. QED
  BY <1>1, <1>2 DEF IsPolicy

LEMMA PoliciesAre == \A version \in DOMAIN Policies : IsPolicy(Policies[version])
<1>1. IsPolicy(LoadPolicy(Asked))
  <2>1. DOMAIN LoadPolicy(Asked) = DOMAIN DefaultPolicy \cup Asked
    BY DEF LoadPolicy
  <2>2. ASSUME NEW key \in Asked PROVE LoadPolicy(Asked)[key].confirm = TRUE
    <3>1. LoadPolicy(Asked)[key] = [RuleOf(DefaultPolicy, key) EXCEPT !.confirm = TRUE]
      BY DEF LoadPolicy
    <3>2. CASE key \in DOMAIN DefaultPolicy
      BY <3>1, <3>2, DefaultIsPolicy DEF RuleOf
    <3>3. CASE key \notin DOMAIN DefaultPolicy
      BY <3>1, <3>3 DEF RuleOf, NoRule, Rule
    <3>4. QED
      BY <3>2, <3>3
  <2>3. ASSUME NEW key \in DOMAIN DefaultPolicy \ Asked
        PROVE  LoadPolicy(Asked)[key] = DefaultPolicy[key]
    BY DEF LoadPolicy
  <2>4. QED
    BY <2>1, <2>2, <2>3, DefaultIsPolicy DEF IsPolicy
<1>2. QED
  BY <1>1, DefaultIsPolicy DEF Policies

(* The rules a process goes by.                                             *)
LEMMA RulesOf ==
  ASSUME NEW version \in DOMAIN Policies, NEW key
  PROVE  /\ RuleOf(Policies[version], key).confirm \in BOOLEAN
         /\ RuleOf(Policies[version], key).owner => RuleOf(Policies[version], key).confirm
         /\ ~RuleOf(Policies[version], "none").confirm
         /\ ~RuleOf(Policies[version], "none").owner
<1>1. NoRule.confirm = FALSE /\ NoRule.owner = FALSE
  BY RuleFields DEF NoRule
<1>2. QED
  BY <1>1, PoliciesAre DEF RuleOf, IsPolicy

-----------------------------------------------------------------------------
(* A call's request. *)

Arguments == UNION {Variants(t) : t \in DOMAIN Tools}

Keys == UNION {{PolicyKey(Tools[t].key, args) : args \in Variants(t)} : t \in DOMAIN Tools}

(* A record of a call in flight, and of a ticket.                           *)
IsCall(c) ==
  /\ c \in [tool : DOMAIN Tools, args : Arguments, ticket : BOOLEAN,
            stage : {"forwarded", "running"}, steady : BOOLEAN, claimed : BOOLEAN]
  /\ c.args \in Variants(c.tool)
  /\ c.claimed => c.stage = "running"

IsTicket(k) ==
  /\ k \in [tool : DOMAIN Tools, args : Arguments, approved : BOOLEAN, key : Keys]
  /\ k.args \in Variants(k.tool)
  /\ k.key = PolicyKey(Tools[k.tool].key, k.args)

(* The request is the tool's, with or without its ticket.                   *)
LEMMA RequestOf ==
  ASSUME NEW c
  PROVE  /\ Request(c).op = Request(Sent(c.tool, c.args)).op
         /\ Request(c).args = Request(Sent(c.tool, c.args)).args
         /\ Request(c).ticket = (c.ticket /\ Request(Sent(c.tool, c.args)).ticket)
         /\ RootCall(c) = RootCall(Sent(c.tool, c.args))
         /\ Bound(Request(c)) = Bound(Request(Sent(c.tool, c.args)))
<1>1. /\ Sent(c.tool, c.args).tool = c.tool /\ Sent(c.tool, c.args).args = c.args
      /\ Sent(c.tool, c.args).ticket = TRUE
  BY DEF Sent
<1>2. /\ Request(c).op = Request(Sent(c.tool, c.args)).op
      /\ Request(c).args = Request(Sent(c.tool, c.args)).args
      /\ Request(c).ticket = (c.ticket /\ Request(Sent(c.tool, c.args)).ticket)
  BY <1>1 DEF Request
<1>3. QED
  BY <1>2 DEF RootCall, Bound

-----------------------------------------------------------------------------
(* The inductive invariant. *)

WellFormed ==
  /\ via \in {"own", "delegation"}
  /\ role \in Role
  /\ file \in DOMAIN Policies
  /\ loaded \in [Processes -> DOMAIN Policies]
  /\ ticket # NoTicket => IsTicket(ticket)
  /\ call # NoCall => IsCall(call)

(* The ticket that was claimed for a request. *)
ClaimedFor(req) ==
  /\ IsTicket(ticket)
  /\ ticket.key = PolicyName(req.op, req.args)
  /\ req.op \in DOMAIN ConfirmationArgumentKeys
  /\ ticket.args = Bound(req)
  /\ RootRule(req).owner => ticket.approved

(* What root runs was admitted under the rules it still has, and a ticket   *)
(* that it claimed can do no less now than when it was claimed.             *)
RunsAdmitted ==
  Stage = "running" =>
    /\ RootRule(Request(call)).confirm => call.claimed
    /\ call.claimed => ClaimedFor(Request(call))

(* What the frontend found of a call it forwarded is still true, until an   *)
(* administrator interferes or the ticket is gone.                          *)
StillAccepted ==
  Stage = "forwarded" /\ call.steady =>
    /\ Holds(call.tool, Tools[call.tool].scope)
    /\ FrontendRule(call.tool, call.args).confirm =>
         /\ call.ticket
         /\ ticket # NoTicket => Accepts(call.tool, call.args)

CallInv == WellFormed /\ RunsAdmitted /\ StillAccepted

LEMMA RulesAgree ==
  ASSUME NEW t \in DOMAIN Tools, NEW args \in Variants(t), NEW c,
         c.tool = t, c.args = args
  PROVE  /\ t = "service_start" => PolicyName(Request(c).op, Request(c).args) = "none"
         /\ t = "execute_plan" => PolicyKey(Tools[t].key, args) = "none"
         /\ t \notin {"service_start", "execute_plan"} =>
              PolicyName(Request(c).op, Request(c).args) = PolicyKey(Tools[t].key, args)
<1>1. PolicyKey("none", args) = "none"
  BY DEF PolicyKey, ByApp
<1>2. /\ Request(c).op = Request(Sent(t, args)).op
      /\ Request(c).args = Request(Sent(t, args)).args
  BY RequestOf
<1>3. CASE t = "service_start"
  BY <1>2, <1>3, TablesAgree
<1>4. CASE t = "execute_plan"
  BY <1>1, <1>4, TablesAgree
<1>5. CASE t \notin {"service_start", "execute_plan"}
  BY <1>2, <1>5, TablesAgree
<1>6. QED
  BY <1>3, <1>4, <1>5

(* The rule root goes by asks for nothing unless its key is that of the     *)
(* tool, a plan's execution apart.                                          *)
LEMMA RuleAtRoot ==
  ASSUME WellFormed, NEW c, IsCall(c)
  PROVE  /\ RootRule(Request(c)).confirm \in BOOLEAN
         /\ RootRule(Request(c)).owner => RootRule(Request(c)).confirm
         /\ RootRule(Request(c)).confirm =>
              /\ c.tool # "service_start"
              /\ PolicyName(Request(c).op, Request(c).args) # "none"
         /\ c.tool \notin {"service_start", "execute_plan"} =>
              RootRule(Request(c))
                = RuleOf(Policies[loaded["broker"]], PolicyKey(Tools[c.tool].key, c.args))
<1>1. loaded["broker"] \in DOMAIN Policies
  BY DEF WellFormed, Processes
<1>2. c.tool \in DOMAIN Tools /\ c.args \in Variants(c.tool)
  BY DEF IsCall
<1>3. QED
  BY <1>1, <1>2, RulesOf, RulesAgree DEF RootRule

-----------------------------------------------------------------------------
(* What the steps do to a call and a ticket. *)

LEMMA Unsettled ==
  ASSUME NEW c, IsCall(c)
  PROVE  LET d == [c EXCEPT !.steady = FALSE]
         IN /\ IsCall(d)
            /\ d.stage = c.stage /\ d.claimed = c.claimed /\ d.steady = FALSE
            /\ d.tool = c.tool /\ d.args = c.args /\ d.ticket = c.ticket
BY DEF IsCall

LEMMA Approved ==
  ASSUME NEW k, IsTicket(k)
  PROVE  LET l == [k EXCEPT !.approved = TRUE]
         IN /\ IsTicket(l)
            /\ l.tool = k.tool /\ l.args = k.args /\ l.key = k.key /\ l.approved = TRUE
BY DEF IsTicket

LEMMA Forwarded ==
  ASSUME NEW t \in DOMAIN Tools, NEW args \in Variants(t), NEW w \in BOOLEAN,
         Forward(t, args, w)
  PROVE  /\ IsCall(call')
         /\ call'.stage = "forwarded" /\ call'.claimed = FALSE
         /\ call'.tool = t /\ call'.args = args /\ call'.ticket = w
<1>1. call' = [tool |-> t, args |-> args, ticket |-> w, stage |-> "forwarded",
               steady |-> TRUE, claimed |-> FALSE]
  BY DEF Forward
<1>2. args \in Arguments
  BY DEF Arguments
<1>3. QED
  BY <1>1, <1>2 DEF IsCall

-----------------------------------------------------------------------------
(* The invariant is inductive. *)

LEMMA CallInit == Init => CallInv
<1> SUFFICES ASSUME Init PROVE CallInv
  OBVIOUS
<1>1. "default" \in DOMAIN Policies
  BY DEF Policies
<1>2. WellFormed
  BY <1>1 DEF Init, WellFormed
<1>3. Stage = "idle"
  BY DEF Init, Stage
<1>4. QED
  BY <1>2, <1>3 DEF CallInv, RunsAdmitted, StillAccepted

(* A call that is forwarded, and what the frontend found.                   *)
LEMMA ForwardStep ==
  ASSUME CallInv, NEW t \in DOMAIN Tools, NEW args \in Variants(t), NEW w \in BOOLEAN,
         Forward(t, args, w), UNCHANGED <<via, role, file, loaded, ticket>>,
         Holds(t, Tools[t].scope),
         FrontendRule(t, args).confirm => w /\ Accepts(t, args)
  PROVE  CallInv'
<1>1. /\ IsCall(call')
      /\ call'.stage = "forwarded"
      /\ call'.tool = t /\ call'.args = args /\ call'.ticket = w
  BY Forwarded
<1>2. WellFormed'
  BY <1>1 DEF CallInv, WellFormed
<1>3. Stage' # "running"
  BY <1>1 DEF Stage
<1>4. /\ Holds(t, Tools[t].scope)'
      /\ FrontendRule(t, args)' = FrontendRule(t, args)
      /\ Accepts(t, args)' = Accepts(t, args)
  BY DEF Holds, FrontendRule, Accepts
<1>5. StillAccepted'
  <2> SUFFICES /\ Holds(call.tool, Tools[call.tool].scope)'
               /\ FrontendRule(call.tool, call.args)'.confirm =>
                    call'.ticket /\ Accepts(call.tool, call.args)'
    BY DEF StillAccepted
  <2>1. Holds(call.tool, Tools[call.tool].scope)'
    BY <1>1, <1>4 DEF Holds
  <2>2. FrontendRule(call.tool, call.args)' = FrontendRule(t, args)
    BY <1>1, <1>4 DEF FrontendRule
  <2>3. Accepts(call.tool, call.args)' = Accepts(t, args)
    BY <1>1, <1>4, <2>2 DEF Accepts
  <2>4. QED
    BY <1>1, <2>1, <2>2, <2>3
<1>6. QED
  BY <1>2, <1>3, <1>5 DEF CallInv, RunsAdmitted

(* A step that ends the call, or that leaves none.                          *)
LEMMA NoCallStep ==
  ASSUME WellFormed', call' = NoCall
  PROVE  CallInv'
<1>1. Stage' = "idle"
  BY DEF Stage
<1>2. QED
  BY <1>1 DEF CallInv, RunsAdmitted, StillAccepted

(* A ticket is approved.                                                    *)
LEMMA ApproveStep ==
  ASSUME CallInv, Approve
  PROVE  CallInv'
<1>1. /\ IsTicket(ticket)
      /\ ticket # NoTicket
      /\ ticket' = [ticket EXCEPT !.approved = TRUE]
      /\ UNCHANGED <<via, role, file, loaded, call>>
  BY DEF CallInv, WellFormed, Approve
<1>2. /\ IsTicket(ticket')
      /\ ticket'.args = ticket.args /\ ticket'.key = ticket.key
      /\ ticket'.approved = TRUE
  BY <1>1, Approved
<1>3. WellFormed'
  BY <1>1, <1>2 DEF CallInv, WellFormed
<1>4. Stage' = Stage
  BY <1>1 DEF Stage
<1>5. RunsAdmitted'
  <2>1. RootRule(Request(call))' = RootRule(Request(call))
    BY <1>1 DEF RootRule, Request
  <2>2. ClaimedFor(Request(call)) => ClaimedFor(Request(call))'
    <3>1. Request(call)' = Request(call)
      BY <1>1 DEF Request
    <3>2. QED
      BY <1>1, <1>2, <2>1, <3>1 DEF ClaimedFor
  <2>3. QED
    BY <1>1, <1>4, <2>1, <2>2 DEF CallInv, RunsAdmitted
<1>6. StillAccepted'
  <2>1. FrontendRule(call.tool, call.args)' = FrontendRule(call.tool, call.args)
    BY <1>1 DEF FrontendRule
  <2>2. Holds(call.tool, Tools[call.tool].scope)' = Holds(call.tool, Tools[call.tool].scope)
    BY <1>1 DEF Holds
  <2>3. Accepts(call.tool, call.args) => Accepts(call.tool, call.args)'
    BY <1>1, <1>2, <2>1 DEF Accepts
  <2>4. QED
    BY <1>1, <1>4, <2>1, <2>2, <2>3 DEF CallInv, StillAccepted
<1>7. QED
  BY <1>3, <1>5, <1>6 DEF CallInv

(* The broker runs a call: it is admitted then.                             *)
LEMMA RunStep ==
  ASSUME CallInv, Run
  PROVE  CallInv'
<1>1. /\ call # NoCall /\ Stage = "forwarded"
      /\ IsCall(call)
      /\ Admissible(call)
      /\ call' = [call EXCEPT !.stage = "running",
                              !.claimed = RootRule(Request(call)).confirm]
      /\ UNCHANGED <<via, role, file, loaded, ticket>>
  BY DEF CallInv, WellFormed, Run, Stage
<1>2. RootRule(Request(call)).confirm \in BOOLEAN
  BY <1>1, RuleAtRoot DEF CallInv
<1>3. /\ IsCall(call')
      /\ call'.stage = "running"
      /\ call'.claimed = RootRule(Request(call)).confirm
      /\ call'.tool = call.tool /\ call'.args = call.args /\ call'.ticket = call.ticket
  <2> DEFINE claimed == RootRule(Request(call)).confirm
  <2>1. IsCall(call) /\ claimed \in BOOLEAN
    BY <1>1, <1>2
  <2>2. call' = [call EXCEPT !.stage = "running", !.claimed = claimed]
    BY <1>1
  <2> HIDE DEF claimed
  <2>3. /\ IsCall(call')
        /\ call'.stage = "running" /\ call'.claimed = claimed
        /\ call'.tool = call.tool /\ call'.args = call.args
        /\ call'.ticket = call.ticket
    BY <2>1, <2>2 DEF IsCall
  <2>4. QED
    BY <2>3 DEF claimed
<1>4. WellFormed'
  BY <1>1, <1>3 DEF CallInv, WellFormed
<1>5. Request(call)' = Request(call)
  BY <1>3 DEF Request
<1>6. RootRule(Request(call))' = RootRule(Request(call))
  BY <1>1, <1>5 DEF RootRule
<1>7. RootRule(Request(call)).confirm => ClaimedFor(Request(call))'
  <2> HAVE RootRule(Request(call)).confirm
  <2>1. Claimable(Request(call))
    BY <1>1 DEF Admissible
  <2>2. IsTicket(ticket)
    BY <2>1 DEF Claimable, CallInv, WellFormed
  <2>3. ClaimedFor(Request(call))
    BY <2>1, <2>2 DEF Claimable, ClaimedFor
  <2>4. QED
    BY <1>1, <1>5, <1>6, <2>3 DEF ClaimedFor
<1>8. RunsAdmitted'
  BY <1>3, <1>6, <1>7 DEF RunsAdmitted
<1>9. StillAccepted'
  <2>1. Stage' # "forwarded"
    BY <1>3 DEF Stage
  <2>2. QED
    BY <2>1 DEF StillAccepted
<1>10. QED
  BY <1>4, <1>8, <1>9 DEF CallInv

(* A ticket lapses: the call it is for is not running yet.                  *)
LEMMA LapseStep ==
  ASSUME CallInv, Lapse
  PROVE  CallInv'
<1>1. /\ ticket' = NoTicket
      /\ Stage # "running" /\ Stage' = Stage
      /\ UNCHANGED <<via, role, file, loaded, call>>
  BY DEF Lapse, Stage
<1>2. WellFormed'
  BY <1>1 DEF CallInv, WellFormed
<1>3. RunsAdmitted'
  BY <1>1 DEF RunsAdmitted
<1>4. /\ FrontendRule(call.tool, call.args)' = FrontendRule(call.tool, call.args)
      /\ Holds(call.tool, Tools[call.tool].scope)' = Holds(call.tool, Tools[call.tool].scope)
  BY <1>1 DEF FrontendRule, Holds
<1>5. StillAccepted'
  BY <1>1, <1>4 DEF CallInv, StillAccepted
<1>6. QED
  BY <1>2, <1>3, <1>5 DEF CallInv

(* An administrator gives the identity another role.                        *)
LEMMA ChangeRoleStep ==
  ASSUME CallInv, NEW r \in Role, ChangeRole(r)
  PROVE  CallInv'
<1>1. /\ role' = r /\ call' = Unsteady(call)
      /\ UNCHANGED <<via, file, loaded, ticket>>
  BY DEF ChangeRole
<1>2. CASE call = NoCall
  <2>1. call' = NoCall
    BY <1>1, <1>2 DEF Unsteady
  <2>2. WellFormed'
    BY <1>1, <2>1 DEF CallInv, WellFormed
  <2>3. QED
    BY <2>1, <2>2, NoCallStep
<1>3. CASE call # NoCall
  <2>1. IsCall(call) /\ call' = [call EXCEPT !.steady = FALSE]
    BY <1>1, <1>3 DEF Unsteady, CallInv, WellFormed
  <2>2. /\ IsCall(call')
        /\ call'.stage = call.stage /\ call'.claimed = call.claimed
        /\ call'.steady = FALSE
        /\ call'.tool = call.tool /\ call'.args = call.args
        /\ call'.ticket = call.ticket
    BY <2>1, Unsettled
  <2>3. WellFormed'
    BY <1>1, <2>2 DEF CallInv, WellFormed
  <2>4. Request(call)' = Request(call)
    BY <2>2 DEF Request
  <2>5. RootRule(Request(call))' = RootRule(Request(call))
    BY <1>1, <2>4 DEF RootRule
  <2>6. ClaimedFor(Request(call))' = ClaimedFor(Request(call))
    BY <1>1, <2>4, <2>5 DEF ClaimedFor
  <2>7. Stage' = "running" => Stage = "running"
    BY <1>3, <2>2 DEF Stage
  <2>8. RunsAdmitted'
    BY <2>2, <2>5, <2>6, <2>7 DEF CallInv, RunsAdmitted
  <2>9. StillAccepted'
    BY <2>2 DEF StillAccepted
  <2>10. QED
    BY <2>3, <2>8, <2>9 DEF CallInv
<1>4. QED
  BY <1>2, <1>3

(* A step that no call depends on.                                          *)
LEMMA EditStep ==
  ASSUME CallInv, UNCHANGED <<via, role, loaded, ticket, call>>, file' \in DOMAIN Policies
  PROVE  CallInv'
<1>1. Stage' = Stage
  BY DEF Stage
<1>2. WellFormed'
  BY DEF CallInv, WellFormed, Policies
<1>3. RunsAdmitted'
  <2>1. /\ RootRule(Request(call))' = RootRule(Request(call))
        /\ ClaimedFor(Request(call))' = ClaimedFor(Request(call))
    BY DEF RootRule, Request, ClaimedFor
  <2>2. QED
    BY <1>1, <2>1 DEF CallInv, RunsAdmitted
<1>4. StillAccepted'
  <2>1. /\ FrontendRule(call.tool, call.args)' = FrontendRule(call.tool, call.args)
        /\ Holds(call.tool, Tools[call.tool].scope)' = Holds(call.tool, Tools[call.tool].scope)
        /\ Accepts(call.tool, call.args)' = Accepts(call.tool, call.args)
    BY DEF FrontendRule, Holds, Accepts
  <2>2. QED
    BY <1>1, <2>1 DEF CallInv, StillAccepted
<1>5. QED
  BY <1>2, <1>3, <1>4 DEF CallInv

LEMMA ToolStep ==
  ASSUME CallInv, NEW t \in DOMAIN Tools, NEW args \in Variants(t),
         \/ CallPlainly(t, args)
         \/ Ask(t, args)
         \/ Present(t, args)
  PROVE  CallInv'
<1>1. CASE CallPlainly(t, args)
  <2>1. /\ Forward(t, args, FALSE)
        /\ UNCHANGED <<via, role, file, loaded, ticket>>
        /\ Holds(t, Tools[t].scope)
        /\ ~FrontendRule(t, args).confirm
    BY <1>1 DEF CallPlainly
  <2>2. QED
    BY <2>1, ForwardStep
<1>2. CASE Ask(t, args)
  <2>1. /\ call' = NoCall
        /\ UNCHANGED <<via, role, file, loaded>>
        /\ ticket' = [tool |-> t, args |-> args, approved |-> FALSE,
                      key |-> PolicyKey(Tools[t].key, args)]
    BY <1>2 DEF Ask
  <2>2. args \in Arguments /\ PolicyKey(Tools[t].key, args) \in Keys
    BY DEF Arguments, Keys
  <2>3. IsTicket(ticket')
    BY <2>1, <2>2 DEF IsTicket
  <2>4. WellFormed'
    BY <2>1, <2>3 DEF CallInv, WellFormed
  <2>5. QED
    BY <2>1, <2>4, NoCallStep
<1>3. CASE Present(t, args)
  <2>1. /\ Forward(t, args, TRUE)
        /\ UNCHANGED <<via, role, file, loaded, ticket>>
        /\ Holds(t, Tools[t].scope)
        /\ Accepts(t, args)
    BY <1>3 DEF Present
  <2>2. QED
    BY <2>1, ForwardStep
<1>4. QED
  BY <1>1, <1>2, <1>3

LEMMA CallStep == CallInv /\ [Next]_vars => CallInv'
<1> SUFFICES ASSUME CallInv, [Next]_vars PROVE CallInv'
  OBVIOUS
<1>1. ASSUME NEW t \in DOMAIN Tools, NEW args \in Variants(t),
             \/ CallPlainly(t, args)
             \/ Ask(t, args)
             \/ Present(t, args)
      PROVE  CallInv'
  BY <1>1, ToolStep
<1>2. CASE Approve
  BY <1>2, ApproveStep
<1>3. CASE Run
  BY <1>3, RunStep
<1>4. CASE Refuse
  <2>1. WellFormed' /\ call' = NoCall
    BY <1>4 DEF Refuse, CallInv, WellFormed
  <2>2. QED
    BY <2>1, NoCallStep
<1>5. CASE Return
  <2>1. /\ call' = NoCall /\ ticket' \in {NoTicket, ticket}
        /\ UNCHANGED <<via, role, file, loaded>>
    BY <1>5 DEF Return
  <2>2. WellFormed'
    BY <2>1 DEF CallInv, WellFormed
  <2>3. QED
    BY <2>1, <2>2, NoCallStep
<1>6. CASE Lapse
  BY <1>6, LapseStep
<1>7. ASSUME NEW r \in Role, ChangeRole(r) PROVE CallInv'
  BY <1>7, ChangeRoleStep
<1>8. CASE EditPolicy
  BY <1>8, EditStep DEF EditPolicy
<1>9. ASSUME NEW p \in Processes, Restart(p) PROVE CallInv'
  <2>1. /\ call' = NoCall /\ loaded' = [loaded EXCEPT ![p] = file]
        /\ UNCHANGED <<via, role, file, ticket>>
    BY <1>9 DEF Restart
  <2>2. WellFormed'
    BY <2>1 DEF CallInv, WellFormed
  <2>3. QED
    BY <2>1, <2>2, NoCallStep
<1>10. CASE UNCHANGED vars
  <2>1. UNCHANGED <<via, role, loaded, ticket, call>> /\ file' \in DOMAIN Policies
    BY <1>10 DEF vars, CallInv, WellFormed
  <2>2. QED
    BY <2>1, EditStep
<1>11. QED
  BY <1>1, <1>2, <1>3, <1>4, <1>5, <1>6, <1>7, <1>8, <1>9, <1>10 DEF Next

LEMMA CallAlways == Spec => []CallInv
BY CallInit, CallStep, PTL DEF Spec

-----------------------------------------------------------------------------
(* What follows from it. *)

(* The broker knows every tool's call and root's record of it is whole,     *)
(* whatever was loaded and edited on the way.                               *)
THEOREM CallsAreUnderstood == Spec => []TypeOK
<1>1. CallInv => TypeOK
  <2> SUFFICES ASSUME CallInv PROVE TypeOK
    OBVIOUS
  <2>1. ASSUME call # NoCall
        PROVE  /\ call.tool \in DOMAIN Tools /\ call.args \in Variants(call.tool)
               /\ MethodOf(call.tool) \in DOMAIN Methods
               /\ Request(call).op \in DOMAIN Handlers \cap DOMAIN RequiredScope
               /\ call.claimed => call.stage = "running"
    <3>1. /\ call.tool \in DOMAIN Tools /\ call.args \in Variants(call.tool)
          /\ call.claimed => call.stage = "running"
      BY <2>1 DEF CallInv, WellFormed, IsCall
    <3>2. Request(call).op = Request(Sent(call.tool, call.args)).op
      BY RequestOf
    <3>3. QED
      BY <3>1, <3>2, ToolsAreUnderstood
  <2>2. QED
    BY <2>1 DEF TypeOK, CallInv, WellFormed, IsTicket
<1>2. QED
  BY <1>1, CallAlways, PTL

(* Every name the tool fills in is one the adapter sends and the handler    *)
(* takes, and each of the three passes its value on: what the caller gave   *)
(* is what root is called with.                                             *)
THEOREM NothingGetsLost == Spec => []NothingLost
<1>1. CallInv => NothingLost
  <2> SUFFICES ASSUME CallInv, Stage = "running"
               PROVE  Serves(call.tool, call.args, RootCall(call))
    BY DEF NothingLost
  <2> DEFINE passed == Passed(call.tool, call.args)
             method == Methods[MethodOf(call.tool)]
             handler == Handlers[method.op]
             req == Request(call)
  <2>1. call.tool \in DOMAIN Tools /\ call.args \in Variants(call.tool)
    BY DEF CallInv, WellFormed, Stage, IsCall
  <2>2. /\ req.op = method.op
        /\ req.args = [k \in method.sends |->
                         IF k \in DOMAIN passed THEN passed[k] ELSE "empty"]
    BY DEF Request
  <2>3. /\ Understood(Request(Sent(call.tool, call.args)))
        /\ DOMAIN passed \subseteq method.sends
        /\ Handlers[Request(Sent(call.tool, call.args)).op].method =
             IF call.tool = "services_list" THEN "service_status" ELSE MethodOf(call.tool)
    BY <2>1, ToolsAreUnderstood
  <2>4. /\ DOMAIN req.args \subseteq handler.takes
        /\ handler.method =
             IF call.tool = "services_list" THEN "service_status" ELSE MethodOf(call.tool)
    <3>1. /\ Request(Sent(call.tool, call.args)).op = req.op
          /\ Request(Sent(call.tool, call.args)).args = req.args
      BY RequestOf
    <3>2. QED
      BY <2>2, <2>3, <3>1 DEF Understood
  <2>5. /\ RootCall(call).method = handler.method
        /\ RootCall(call).args = [k \in handler.takes |->
                                   IF k \in DOMAIN req.args THEN req.args[k] ELSE "none"]
    BY <2>2 DEF RootCall
  <2> HIDE DEF passed, method, handler, req
  <2>6. ASSUME NEW p \in DOMAIN passed
        PROVE  p \in DOMAIN RootCall(call).args /\ RootCall(call).args[p] = passed[p]
    <3>1. DOMAIN req.args = method.sends /\ p \in method.sends /\ req.args[p] = passed[p]
      BY <2>2, <2>3 DEF passed, method
    <3>2. p \in handler.takes
      BY <2>4, <3>1
    <3>3. QED
      BY <2>5, <3>1, <3>2
  <2>7. QED
    BY <2>4, <2>5, <2>6 DEF Serves, passed
<1>2. QED
  BY <1>1, CallAlways, PTL

(* Root never runs on the frontend's word what its own rule wants confirmed *)
(* or signed by the owner.                                                  *)
THEOREM RootHasClaimed == Spec => []ClaimedAtRoot
<1>1. CallInv => ClaimedAtRoot
  <2> SUFFICES ASSUME CallInv, Stage = "running", call.tool # "service_start"
               PROVE  LET rule == RuleOf(Policies[loaded["broker"]],
                                         PolicyKey(Tools[call.tool].key, call.args))
                      IN /\ rule.confirm => call.claimed
                         /\ rule.owner => ticket.approved
    BY DEF ClaimedAtRoot
  <2> DEFINE rule == RuleOf(Policies[loaded["broker"]],
                            PolicyKey(Tools[call.tool].key, call.args))
  <2>1. /\ IsCall(call)
        /\ call.tool \in DOMAIN Tools /\ call.args \in Variants(call.tool)
        /\ loaded["broker"] \in DOMAIN Policies
    BY DEF CallInv, WellFormed, Stage, IsCall, Processes
  <2>2. CASE call.tool = "execute_plan"
    <3>1. PolicyKey(Tools[call.tool].key, call.args) = "none"
      BY <2>1, <2>2, RulesAgree
    <3>2. ~rule.confirm /\ ~rule.owner
      BY <2>1, <3>1, RulesOf
    <3>3. QED
      BY <3>2
  <2>3. CASE call.tool # "execute_plan"
    <3>1. rule = RootRule(Request(call))
      BY <2>1, <2>3, RuleAtRoot DEF CallInv
    <3>2. RootRule(Request(call)).owner => RootRule(Request(call)).confirm
      BY <2>1, RuleAtRoot DEF CallInv
    <3>3. QED
      BY <3>1, <3>2 DEF CallInv, RunsAdmitted, ClaimedFor
  <2>4. QED
    BY <2>2, <2>3
<1>2. QED
  BY <1>1, CallAlways, PTL

(* What runs on a ticket is what the plan of that ticket said.              *)
THEOREM PlansAreCarriedOut == Spec => []PlanIsWhatRuns
<1>1. CallInv => PlanIsWhatRuns
  <2> SUFFICES ASSUME CallInv, Stage = "running", call.claimed
               PROVE  /\ Serves(call.tool, ticket.args, RootCall(call))
                      /\ \/ call.tool = ticket.tool
                         \/ {call.tool, ticket.tool} \in Twins
    BY DEF PlanIsWhatRuns
  <2>1. /\ call.tool \in DOMAIN Tools /\ call.args \in Variants(call.tool)
        /\ ClaimedFor(Request(call))
    BY DEF CallInv, WellFormed, RunsAdmitted, Stage, IsCall
  <2> DEFINE req == Request(Sent(call.tool, call.args))
  <2>2. /\ Request(call).op = req.op /\ Request(call).args = req.args
        /\ Bound(Request(call)) = Bound(req)
        /\ RootCall(call) = RootCall(Sent(call.tool, call.args))
    BY RequestOf
  <2>3. /\ ticket.tool \in DOMAIN Tools
        /\ ticket.args \in Variants(ticket.tool)
        /\ ticket.key = PolicyKey(Tools[ticket.tool].key, ticket.args)
        /\ ticket.key = PolicyName(req.op, req.args)
        /\ req.op \in DOMAIN ConfirmationArgumentKeys
        /\ ticket.args = Bound(req)
    BY <2>1, <2>2 DEF ClaimedFor, IsTicket
  <2>4. /\ Serves(call.tool, Bound(req), RootCall(Sent(call.tool, call.args)))
        /\ call.tool = ticket.tool \/ {call.tool, ticket.tool} \in Twins
    BY <2>1, <2>3, BindingsTellApart
  <2>5. QED
    BY <2>2, <2>3, <2>4
<1>2. QED
  BY <1>1, CallAlways, PTL

(* What the frontend lets through the broker does not turn down.            *)
THEOREM AcceptedCallsAreAdmitted == Spec => []AcceptedIsAdmitted
<1>1. CallInv => AcceptedIsAdmitted
  <2> SUFFICES ASSUME CallInv,
                      Stage = "forwarded", call.steady,
                      loaded["frontend"] = loaded["broker"],
                      call.ticket => ticket # NoTicket,
                      ~Exception(call)
               PROVE  Admissible(call)
    BY DEF AcceptedIsAdmitted
  <2> DEFINE req == Request(Sent(call.tool, call.args))
  <2>1. /\ IsCall(call)
        /\ call.tool \in DOMAIN Tools /\ call.args \in Variants(call.tool)
        /\ role \in DOMAIN RoleScopes
    BY DEF CallInv, WellFormed, Stage, IsCall
  <2>2. /\ Request(call).op = req.op /\ Request(call).args = req.args
        /\ Request(call).ticket = (call.ticket /\ req.ticket)
        /\ Bound(Request(call)) = Bound(req)
    BY RequestOf
  <2>3. Holds(call.tool, Tools[call.tool].scope)
    BY DEF CallInv, StillAccepted
  <2>4. req.op \in DOMAIN Handlers /\ Understood(Request(call))
    <3>1. req.op \in DOMAIN Handlers /\ Understood(req)
      BY <2>1, ToolsAreUnderstood
    <3>2. QED
      BY <2>2, <3>1 DEF Understood
  <2>5. Holds(call.tool, RequiredScope[req.op])
    <3>1. RequiredScope[req.op] \in RoleScopes[role]
      BY <2>1, <2>3, ToolsAreUnderstood DEF Holds
    <3>2. via = "delegation" => RequiredScope[req.op] = Tools[call.tool].scope
      BY <2>1, ToolsAreUnderstood DEF Exception
    <3>3. QED
      BY <3>1, <3>2 DEF Holds
  <2>6. ASSUME RootRule(Request(call)).confirm PROVE Claimable(Request(call))
    <3>1. /\ call.tool \notin {"service_start", "execute_plan"}
          /\ PolicyName(req.op, req.args) # "none"
      BY <2>1, <2>2, <2>6, RuleAtRoot DEF CallInv, Exception
    <3>2. /\ RootRule(Request(call)) = FrontendRule(call.tool, call.args)
          /\ PolicyName(req.op, req.args) = PolicyKey(Tools[call.tool].key, call.args)
      BY <2>1, <2>2, <3>1, RuleAtRoot, RulesAgree DEF CallInv, FrontendRule
    <3>3. call.ticket /\ ticket # NoTicket /\ Accepts(call.tool, call.args)
      BY <2>6, <3>2 DEF CallInv, StillAccepted
    <3>4. /\ req.ticket
          /\ req.op \in DOMAIN ConfirmationArgumentKeys
          /\ Bound(req) = call.args
      BY <2>1, <3>1, ToolsAreUnderstood DEF Exception
    <3>5. QED
      BY <2>2, <2>6, <3>2, <3>3, <3>4 DEF Claimable, Accepts
  <2>7. QED
    BY <2>2, <2>4, <2>5, <2>6 DEF Admissible
<1>2. QED
  BY <1>1, CallAlways, PTL
=============================================================================
