---------------------------- MODULE PrivilegedCall ----------------------------
(***************************************************************************)
(* One tool call on its way from the frontend to the root process, through *)
(* the tables both of them keep: the tool's scope and policy key, the      *)
(* adapter's operation and arguments, the broker's handler, scope, policy  *)
(* name and confirmation arguments, and the adapter method root runs.      *)
(* Meanwhile an administrator edits identities and policy, which the two   *)
(* processes read at different times.  Once-ness, crashes and lost answers *)
(* are BrokeredWrite's; here at most one ticket and one call exist.        *)
(***************************************************************************)
EXTENDS ServerTools, AdapterCalls, BrokerOperations, PolicyRules, Roles

CONSTANTS
  Role,       \* the roles an administrator gives the identity
  Asked,      \* policy keys an edited policy.toml wants confirmed
  NoTicket,
  NoCall

ASSUME CallAssumption ==
  /\ Role \subseteq DOMAIN RoleScopes
  /\ "none" \notin Asked    \* the place of a key, for a tool without one

VARIABLES
  via,        \* the caller is in identity.toml ("own") or a delegate of who is
  role,       \* that identity's role, read again for each request
  file,       \* policy.toml: "default" or "edited"
  loaded,     \* the version of the file each process started with
  ticket,     \* the confirmation ticket: what was asked for, its key, approval
  call        \* the call in flight

vars == <<via, role, file, loaded, ticket, call>>

Stage == IF call = NoCall THEN "idle" ELSE call.stage

Policies == [default |-> DefaultPolicy, edited |-> LoadPolicy(Asked)]

Processes == {"frontend", "broker"}

-----------------------------------------------------------------------------
(* The caller.                                                             *)

(* The scopes a request is given: those of the identity's role, or what a   *)
(* delegation asks for as far as the delegator's own role has it.  The      *)
(* delegation of the model asks for the one scope the tool names.           *)
Holds(t, scope) ==
  /\ scope \in RoleScopes[role]
  /\ via = "delegation" => scope = Tools[t].scope

(* What the tools that take an argument may be called with: a value that    *)
(* depends on nothing but the parameter, one parameter given another value, *)
(* or the value that selects another policy.                                *)
Plainly(t) ==
  [p \in Tools[t].takes |-> IF p \in Tools[t].optional THEN "none" ELSE "given"]

Variants(t) ==
  {Plainly(t)}
  \cup {[Plainly(t) EXCEPT ![p] = "other"] : p \in Tools[t].takes}
  \cup {[Plainly(t) EXCEPT ![s[1]] = s[2]] : s \in Selecting(Tools[t].key)}

-----------------------------------------------------------------------------
(* The frontend: from a tool to a request of the broker.                   *)

(* What a tool's body passes to which adapter method.  A package test finds *)
(* the app's name in the manifest when it is not given; a plan holds what   *)
(* was planned.                                                             *)
MethodOf(t) ==
  CASE t = "package_logs" -> "operation_logs"
    [] t = "execute_plan" -> "app_upgrade"
    [] t = "test_package" -> "package_run_tests"
    [] OTHER -> t

Cycles == {"package_run_tests", "test_package"}

Passed(t, args) ==
  CASE t = "package_logs" ->
         [name |-> args["operation"], tail_lines |-> args["tail_lines"]]
    [] t = "execute_plan" -> [app |-> "planned", force |-> "given", url |-> "none"]
    [] t = "catalog_publish" ->
         "plan_id" :> args["plan_id"]
         @@ [p \in {"source", "ref", "ci_result", "ci_provider", "ci_ref"} |-> "planned"]
    [] t \in Cycles ->
         [source |-> args["source"], session_id |-> "created",
          app_id |-> IF args["app_id"] = "none" THEN "manifest" ELSE args["app_id"]]
    [] OTHER -> args

(* Mutant: what is asked without a confirmation is asked with the defaults. *)
RequestWithDefaults(c) ==
  LET method == Methods[MethodOf(c.tool)]
      passed == Passed(c.tool, c.args)
  IN [op     |-> method.op,
      args   |-> [k \in method.sends |->
                    IF k \in DOMAIN passed /\ method.confirmed THEN passed[k] ELSE "empty"],
      ticket |-> c.ticket /\ method.confirmed]

(* _broker_call: the operation and arguments, and the ticket's id if the    *)
(* call has one.                                                            *)
Request(c) ==
  LET method == Methods[MethodOf(c.tool)]
      passed == Passed(c.tool, c.args)
  IN [op     |-> method.op,
      args   |-> [k \in method.sends |-> IF k \in DOMAIN passed THEN passed[k] ELSE "empty"],
      ticket |-> c.ticket /\ method.confirmed]

FrontendRule(t, args) ==
  RuleOf(Policies[loaded["frontend"]], PolicyKey(Tools[t].key, args))

-----------------------------------------------------------------------------
(* The broker: whether a request is run, and as what.                      *)

Understood(req) ==
  LET handler == Handlers[req.op]
  IN /\ DOMAIN req.args \subseteq handler.takes
     /\ \A k \in handler.takes \ handler.optional :
          k \in DOMAIN req.args /\ req.args[k] # "none"

(* The operations whose policy an argument selects. *)
SelectorOf ==
     [op \in {"app.upgrade", "safe.upgrade"} |-> "app_upgrade_policy_key"]
  @@ "app.config_set" :> "app_config_policy_key"
  @@ "app.setting_set" :> "app_setting_policy_key"
  @@ "app.remove" :> "app_remove_policy_key"
  @@ "app.change_url" :> "app_change_url_policy_key"
  @@ "app.install" :> "app_install_policy_key"
  @@ "user.create" :> "user_create_policy_key"
  @@ "user.group_update" :> "user_group_update_policy_key"

(* _policy_name_for_operation *)
PolicyName(op, args) ==
  IF op \in DOMAIN SelectorOf THEN PolicyKey(SelectorOf[op], args)
  ELSE IF op \in DOMAIN PolicyNameByOperation THEN PolicyNameByOperation[op]
  ELSE "none"

(* Mutant: policy.toml is the frontend's business. *)
RootRuleDefault(req) == RuleOf(DefaultPolicy, PolicyName(req.op, req.args))

RootRule(req) == RuleOf(Policies[loaded["broker"]], PolicyName(req.op, req.args))

(* The arguments a ticket must have been issued for. *)
Bound(req) ==
  [k \in ConfirmationArgumentKeys[req.op] |->
     IF k \in DOMAIN req.args THEN req.args[k] ELSE "none"]

(* Mutant: the arguments are not looked at. *)
ClaimableUnbound(req) ==
  /\ req.ticket
  /\ ticket # NoTicket
  /\ ticket.key = PolicyName(req.op, req.args)
  /\ RootRule(req).owner => ticket.approved

(* The deferred consume of _check_operation_policy. *)
Claimable(req) ==
  /\ req.ticket
  /\ ticket # NoTicket
  /\ ticket.key = PolicyName(req.op, req.args)
  /\ req.op \in DOMAIN ConfirmationArgumentKeys
  /\ ticket.args = Bound(req)
  /\ RootRule(req).owner => ticket.approved

Admissible(c) ==
  LET req == Request(c)
  IN /\ req.op \in DOMAIN Handlers
     /\ Holds(c.tool, RequiredScope[req.op])
     /\ Understood(req)
     /\ RootRule(req).confirm => Claimable(req)

(* operation.invoke: the method root runs and the arguments it gets. *)
RootCall(c) ==
  LET req == Request(c)
  IN [method |-> Handlers[req.op].method,
      args   |-> [k \in Handlers[req.op].takes |->
                    IF k \in DOMAIN req.args THEN req.args[k] ELSE "none"]]

-----------------------------------------------------------------------------
Init ==
  /\ via \in {"own", "delegation"}
  /\ role \in Role
  /\ file = "default"
  /\ loaded = [p \in Processes |-> "default"]
  /\ ticket = NoTicket
  /\ call = NoCall

Forward(t, args, withTicket) ==
  call' = [tool |-> t, args |-> args, ticket |-> withTicket, stage |-> "forwarded",
           steady |-> TRUE, claimed |-> FALSE]

(* A tool whose rule asks for no confirmation is forwarded at once. *)
CallPlainly(t, args) ==
  /\ call = NoCall /\ ticket = NoTicket
  /\ Holds(t, Tools[t].scope)
  /\ ~FrontendRule(t, args).confirm
  /\ Forward(t, args, FALSE)
  /\ UNCHANGED <<via, role, file, loaded, ticket>>

(* Any other is answered with a ticket and its plan. *)
Ask(t, args) ==
  /\ call = NoCall /\ ticket = NoTicket
  /\ Holds(t, Tools[t].scope)
  /\ FrontendRule(t, args).confirm
  /\ ticket' = [tool |-> t, args |-> args, approved |-> FALSE,
                key |-> PolicyKey(Tools[t].key, args)]
  /\ UNCHANGED <<via, role, file, loaded, call>>

(* approve_operation, or the owner's signer. *)
Approve ==
  /\ ticket # NoTicket
  /\ ticket' = [ticket EXCEPT !.approved = TRUE]
  /\ UNCHANGED <<via, role, file, loaded, call>>

(* Mutant: the arguments are left for the broker to compare. *)
AcceptsAnyArguments(t, args) ==
  LET rule == FrontendRule(t, args)
  IN rule.confirm =>
       /\ ticket.key = PolicyKey(Tools[t].key, args)
       /\ rule.owner => ticket.approved

(* What peek finds is compared with the call, if the frontend's rule asks   *)
(* for a confirmation at all.                                               *)
Accepts(t, args) ==
  LET rule == FrontendRule(t, args)
  IN rule.confirm =>
       /\ ticket.key = PolicyKey(Tools[t].key, args)
       /\ ticket.args = args
       /\ rule.owner => ticket.approved

(* A call with the ticket's id: the same tool with any arguments, or        *)
(* another tool under the same policy key.                                  *)
Present(t, args) ==
  /\ call = NoCall /\ ticket # NoTicket
  /\ Tools[t].key # "none"
  /\ t = ticket.tool \/ ticket.key = PolicyKey(Tools[t].key, args)
  /\ Holds(t, Tools[t].scope)
  /\ Accepts(t, args)
  /\ Forward(t, args, TRUE)
  /\ UNCHANGED <<via, role, file, loaded, ticket>>

(* The broker runs the operation.  The hard checks are made against the     *)
(* disk and the archives of the moment.                                     *)
HardChecks(c, enough, newest) ==
  LET rule == RootRule(Request(c))
  IN /\ CheckFreeSpace(rule, enough)
     /\ Request(c).op # "safe.upgrade" => CheckRecentBackup(rule, newest)

Run ==
  /\ Stage = "forwarded"
  /\ Admissible(call)
  /\ \E enough \in BOOLEAN, newest \in {"none", "old", "recent"} :
       HardChecks(call, enough, newest)
  /\ call' = [call EXCEPT !.stage = "running",
                          !.claimed = RootRule(Request(call)).confirm]
  /\ UNCHANGED <<via, role, file, loaded, ticket>>

Refuse ==
  /\ Stage = "forwarded"
  /\ \/ ~Admissible(call)
     \/ \E enough \in BOOLEAN, newest \in {"none", "old", "recent"} :
          ~HardChecks(call, enough, newest)
  /\ call' = NoCall
  /\ UNCHANGED <<via, role, file, loaded, ticket>>

(* Mutant: an operation that failed is tried once more, on the old claim. *)
ReturnToRetry ==
  /\ Stage = "running"
  /\ call' = [call EXCEPT !.stage = "forwarded"]
  /\ UNCHANGED <<via, role, file, loaded, ticket>>

(* finalize burns a claimed ticket, revert keeps it; one the broker never   *)
(* claimed stays as it was.                                                 *)
Return ==
  /\ Stage = "running"
  /\ call' = NoCall
  /\ ticket' \in IF call.claimed THEN {NoTicket, ticket} ELSE {ticket}
  /\ UNCHANGED <<via, role, file, loaded>>

Lapse ==
  /\ ticket # NoTicket
  /\ Stage # "running"
  /\ ticket' = NoTicket
  /\ UNCHANGED <<via, role, file, loaded, call>>

Unsteady(c) == IF c = NoCall THEN c ELSE [c EXCEPT !.steady = FALSE]

(* identity.toml is edited; both processes read it at the next request. *)
ChangeRole(r) ==
  /\ r # role
  /\ role' = r
  /\ call' = Unsteady(call)
  /\ UNCHANGED <<via, file, loaded, ticket>>

EditPolicy ==
  /\ file' \in DOMAIN Policies \ {file}
  /\ UNCHANGED <<via, role, loaded, ticket, call>>

(* A process reads policy.toml when it starts; a call it is busy with ends. *)
Restart(p) ==
  /\ loaded[p] # file
  /\ Stage # "running"
  /\ loaded' = [loaded EXCEPT ![p] = file]
  /\ call' = NoCall
  /\ UNCHANGED <<via, role, file, ticket>>

Next ==
  \/ \E t \in DOMAIN Tools : \E args \in Variants(t) :
       CallPlainly(t, args) \/ Ask(t, args) \/ Present(t, args)
  \/ Approve \/ Run \/ Refuse \/ Return \/ Lapse
  \/ \E r \in Role : ChangeRole(r)
  \/ EditPolicy
  \/ \E p \in Processes : Restart(p)

Spec == Init /\ [][Next]_vars

-----------------------------------------------------------------------------
(* Properties.                                                             *)

(* The tables fit together: every tool's call has an adapter method, every  *)
(* method's operation a handler and a scope, and the state is well formed.  *)
TypeOK ==
  /\ via \in {"own", "delegation"}
  /\ role \in Role
  /\ file \in DOMAIN Policies
  /\ loaded \in [Processes -> DOMAIN Policies]
  /\ ticket # NoTicket =>
       /\ ticket.tool \in DOMAIN Tools
       /\ ticket.args \in Variants(ticket.tool)
       /\ ticket.approved \in BOOLEAN
  /\ call # NoCall =>
       /\ call.tool \in DOMAIN Tools
       /\ call.args \in Variants(call.tool)
       /\ MethodOf(call.tool) \in DOMAIN Methods
       /\ Request(call).op \in DOMAIN Handlers \cap DOMAIN RequiredScope
       /\ call.claimed => call.stage = "running"

(* Root does what the tool was asked to do: the same method with the same   *)
(* arguments, none of them lost or renamed on the way through the adapter's *)
(* request and the broker's handler.                                        *)
Serves(t, args, root) ==
  /\ root.method =
       IF t = "services_list" THEN "service_status" ELSE MethodOf(t)
  /\ \A p \in DOMAIN Passed(t, args) :
       p \in DOMAIN root.args /\ root.args[p] = Passed(t, args)[p]

NothingLost == Stage = "running" => Serves(call.tool, call.args, RootCall(call))

(* A call whose tool is under a rule that asks for confirmation is never    *)
(* run on the frontend's word alone: root has claimed a ticket for it, with *)
(* the owner's approval where the rule wants that - whatever either process *)
(* has loaded.  service.start has no policy name at the broker              *)
(* (helper.py:55), so a rule for it is the frontend's alone.                *)
ClaimedAtRoot ==
  Stage = "running" /\ call.tool # "service_start" =>
    LET rule == RuleOf(Policies[loaded["broker"]], PolicyKey(Tools[call.tool].key, call.args))
    IN /\ rule.confirm => call.claimed
       /\ rule.owner => ticket.approved

(* Tools whose calls have the same policy key and the same parameters. *)
Twins ==
  {{"system_reboot", "system_shutdown"}, Cycles,
   {"user_permission_add", "user_permission_remove"}}

(* What runs on a ticket is what the ticket's plan said, with the arguments *)
(* it was issued for, except that twins are not told apart.                 *)
PlanIsWhatRuns ==
  Stage = "running" /\ call.claimed =>
    /\ Serves(call.tool, ticket.args, RootCall(call))
    /\ call.tool = ticket.tool \/ {call.tool, ticket.tool} \in Twins

(* policy/confirmation.py:5-8 "issued to this exact pubkey for this exact   *)
(* tool and these exact arguments": a ticket runs the tool it was issued    *)
(* for.  The frontend compares policy keys (enforcement.py:160).            *)
ConfirmedToolRuns == Stage = "running" /\ call.claimed => call.tool = ticket.tool

(* What the frontend lets through the broker does not turn down, as long as *)
(* no file was edited in between, both have the same rules and the ticket   *)
(* is there.  The exceptions: a package test cycle asked for without an     *)
(* app's name is confirmed without it and sent with it; a plan is executed  *)
(* without a ticket; two reads need another scope at the broker.            *)
Exception(c) ==
  \/ c.tool \in Cycles /\ c.args["app_id"] = "none"
  \/ c.tool = "execute_plan" /\ RootRule(Request(c)).confirm
  \/ via = "delegation" /\ c.tool \in {"updates_check", "package_logs"}

AcceptedIsAdmitted ==
  Stage = "forwarded" /\ call.steady
  /\ loaded["frontend"] = loaded["broker"]
  /\ (call.ticket => ticket # NoTicket)
  /\ ~Exception(call)
    => Admissible(call)

-----------------------------------------------------------------------------
(* What the tables have to agree on.  They are definitions without a        *)
(* parameter, so that evaluating these decides them.                        *)

Sent(t, args) == [tool |-> t, args |-> args, ticket |-> TRUE]

(* A tool's call is under one policy key in both processes, but for the two *)
(* that have a key in one of them only.                                     *)
ASSUME TablesAgree ==
  \A t \in DOMAIN Tools : \A args \in Variants(t) :
    LET req  == Request(Sent(t, args))
        name == PolicyName(req.op, req.args)
    IN CASE t = "service_start" -> name = "none"
         [] t = "execute_plan"  -> Tools[t].key = "none"
         [] OTHER               -> name = PolicyKey(Tools[t].key, args)

(* The key and the bound arguments of a request fit the plan of one tool    *)
(* and its twin, and root does with them what that plan says.               *)
ASSUME BindingsTellApart ==
  \A t \in DOMAIN Tools : \A args \in Variants(t) :
    LET req == Request(Sent(t, args))
    IN req.op \in DOMAIN ConfirmationArgumentKeys =>
         \A u \in DOMAIN Tools :
           /\ Bound(req) \in Variants(u)
           /\ PolicyKey(Tools[u].key, Bound(req)) = PolicyName(req.op, req.args)
           => /\ Serves(t, Bound(req), RootCall(Sent(t, args)))
              /\ t = u \/ {t, u} \in Twins

(* The broker has a handler for each tool's call, which understands the     *)
(* names it is sent, runs the method the tool means, and wants no scope of  *)
(* a role that the tool does not; every name the tool fills in is sent; a   *)
(* ticket that the tool was issued is sent on and binds what the tool's     *)
(* plan did.                                                                *)
ASSUME ToolsAreUnderstood ==
  \A t \in DOMAIN Tools : \A args \in Variants(t) :
    LET req == Request(Sent(t, args))
    IN /\ MethodOf(t) \in DOMAIN Methods
       /\ req.op \in DOMAIN Handlers \cap DOMAIN RequiredScope
       /\ Understood(req)
       /\ DOMAIN Passed(t, args) \subseteq Methods[MethodOf(t)].sends
       /\ Handlers[req.op].method =
            IF t = "services_list" THEN "service_status" ELSE MethodOf(t)
       /\ \A r \in DOMAIN RoleScopes :
            Tools[t].scope \in RoleScopes[r] => RequiredScope[req.op] \in RoleScopes[r]
       /\ t \notin {"updates_check", "package_logs"} =>
            RequiredScope[req.op] = Tools[t].scope
       /\ PolicyName(req.op, req.args) # "none" /\ t # "execute_plan"
          /\ ~(t \in Cycles /\ args["app_id"] = "none") =>
            /\ req.ticket
            /\ req.op \in DOMAIN ConfirmationArgumentKeys
            /\ Bound(req) = args
=============================================================================
