-------------------------------- MODULE Roles --------------------------------
(***************************************************************************)
(* The scopes of each role (policy/roles.py); scopes no tool of ServerTools*)
(* asks for are left out.                                                  *)
(***************************************************************************)

ReadOnly ==
  {"server.read", "diagnosis.read", "system.update", "apps.read", "services.read",
   "logs.read", "backups.read", "users.read", "domains.read", "packages.inspect",
   "catalog.inspect", "catalog.verify", "firewall.read", "apps.config.read",
   "apps.setting.read", "settings.read", "regenconf.read"}

Operator ==
  ReadOnly \cup
  {"services.restart", "services.stop", "services.start", "backups.create"}

AppAdmin ==
  Operator \cup
  {"apps.install", "apps.upgrade", "apps.remove", "apps.config.write",
   "apps.setting.write", "backups.restore", "backups.delete", "domains.write",
   "users.write", "users.delete", "system.upgrade", "firewall.write",
   "system.migrate", "settings.write", "regenconf.write", "system.power"}

PackageDeveloper == AppAdmin \cup {"packages.test", "catalog.publish"}

(* ROLE_SCOPES; "nobody" is an identity taken out of the file, and of these *)
(* scopes a package developer has all, as an administrator does.            *)
RoleScopes ==
  [nobody |-> {}, readonly |-> ReadOnly, operator |-> Operator,
   appadmin |-> AppAdmin, developer |-> PackageDeveloper]
=============================================================================
