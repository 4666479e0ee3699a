------------------------------ MODULE PolicyRules ------------------------------
(***************************************************************************)
(* policy/rules.py: what a rule asks for, the default rules, the edits of  *)
(* policy.toml, and the functions that choose a rule by an argument.  Sizes*)
(* and ages are what the checks tell apart: whether there is enough space, *)
(* and whether the newest backup is recent, old or missing.                *)
(***************************************************************************)

Rule(confirm, owner, backup, space) ==
  [confirm |-> confirm, owner |-> owner, backup |-> backup, space |-> space]

(* PolicyRule() *)
NoRule == Rule(FALSE, FALSE, "no", FALSE)

(* The keys of DEFAULT_POLICY that ask for a confirmation, and those that   *)
(* ask for the owner's signature as well.                                   *)
ConfirmedKeys ==
  {"domains.write", "domains.cert", "apps.change_url", "apps.config", "apps.setting",
   "services.stop", "users.write", "apps.install", "apps.remove"}

CoSignedKeys ==
  {"catalog.publish", "domains.dns", "packages.test", "apps.control_plane_install",
   "apps.control_plane_change_url", "apps.control_plane_config",
   "apps.control_plane_setting", "apps.control_plane_upgrade",
   "apps.control_plane_remove", "backups.restore", "domains.remove",
   "backups.delete", "system.upgrade", "system.migrate", "users.admin_access",
   "users.delete", "users.permissions", "firewall.write", "settings.write",
   "regenconf.write", "system.power", "audit.read"}

(* DEFAULT_POLICY *)
DefaultPolicy ==
  [key \in ConfirmedKeys \cup CoSignedKeys \cup {"apps.upgrade"} |->
     Rule(key \in ConfirmedKeys \cup CoSignedKeys,
          key \in CoSignedKeys,
          CASE key \in {"apps.upgrade", "apps.control_plane_upgrade"} -> "any"
            [] key \in {"apps.remove", "apps.control_plane_remove"} -> "recent"
            [] OTHER -> "no",
          key \in {"apps.upgrade", "apps.control_plane_upgrade", "apps.install"})]

RuleOf(policy, key) == IF key \in DOMAIN policy THEN policy[key] ELSE NoRule

(* load_policy with a file that sets require_confirmation for some keys:    *)
(* the other fields keep their defaults, and a key may be new.              *)
LoadPolicy(asked) ==
  [key \in DOMAIN DefaultPolicy \cup asked |->
     IF key \in asked THEN [RuleOf(DefaultPolicy, key) EXCEPT !.confirm = TRUE]
     ELSE DefaultPolicy[key]]

ControlPlane == "yunohost_mcp"

(* app_config_policy_key .. app_install_policy_key: the key for the control *)
(* plane's own app and the key for any other.                               *)
ByApp ==
  [app_config_policy_key     |-> <<"apps.control_plane_config", "apps.config">>,
   app_setting_policy_key    |-> <<"apps.control_plane_setting", "apps.setting">>,
   app_upgrade_policy_key    |-> <<"apps.control_plane_upgrade", "apps.upgrade">>,
   app_remove_policy_key     |-> <<"apps.control_plane_remove", "apps.remove">>,
   app_change_url_policy_key |-> <<"apps.control_plane_change_url", "apps.change_url">>,
   app_install_policy_key    |-> <<"apps.control_plane_install", "apps.install">>]

(* No app means all of them, for an upgrade. *)
Protected(selector, app) ==
  app = ControlPlane \/ (selector = "app_upgrade_policy_key" /\ app = "none")

(* The policy key of a tool: fixed, or chosen by an argument. *)
PolicyKey(selector, args) ==
  CASE selector \in DOMAIN ByApp ->
         ByApp[selector][IF Protected(selector, args["app"]) THEN 1 ELSE 2]
    [] selector = "user_create_policy_key" ->
         IF args["admin"] = "true" THEN "users.admin_access" ELSE "users.write"
    [] selector = "user_group_update_policy_key" ->
         IF args["groupname"] = "admins" THEN "users.admin_access" ELSE "users.write"
    [] OTHER -> selector

(* The values that make the choice go the other way. *)
Selecting(selector) ==
  CASE selector \in DOMAIN ByApp -> {<<"app", ControlPlane>>}
    [] selector = "user_create_policy_key" -> {<<"admin", "true">>}
    [] selector = "user_group_update_policy_key" -> {<<"groupname", "admins">>}
    [] OTHER -> {}

CheckFreeSpace(rule, enough) == rule.space => enough

CheckRecentBackup(rule, newest) ==
  CASE rule.backup = "no"     -> TRUE
    [] rule.backup = "any"    -> newest # "none"
    [] rule.backup = "recent" -> newest = "recent"
=============================================================================
