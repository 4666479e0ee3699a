----------------------------- MODULE ServerTools ----------------------------
(***************************************************************************)
(* The tools of server.py that end in one call of the adapter: the scope a *)
(* caller needs, the parameters, those of them that default to None, and   *)
(* what the confirmation of a write is filed under - a policy key, or the  *)
(* function of policy/rules.py that chooses one by an argument, or "none"  *)
(* where no confirmation is asked. confirmation_id is no parameter of a    *)
(* row: every tool with a policy key takes it. Bodies, descriptions and    *)
(* plans are left out; a body that passes on something else than its own   *)
(* parameters is in PrivilegedCall.                                        *)
(***************************************************************************)
EXTENDS TLC

Tool(scope, required, optional, key) ==
  [scope |-> scope, takes |-> required \cup optional, optional |-> optional, key |-> key]

Reads(scope, required, optional) == Tool(scope, required, optional, "none")

Writes(scope, required, optional, key) == Tool(scope, required, optional, key)

ServerReads ==
     "server_info" :> Reads("server.read", {}, {})
  @@ "health_check" :> Reads("diagnosis.read", {}, {})
  @@ "apps_list" :> Reads("apps.read", {"full"}, {})

AppReads ==
     "app_info" :> Reads("apps.read", {"app", "full"}, {})
  @@ "app_resources" :> Reads("apps.read", {"app"}, {})
  @@ "app_config_get" :> Reads(
          "apps.config.read", {"app", "key", "full", "export"}, {})
  @@ "app_setting_get" :> Reads("apps.setting.read", {"app", "key"}, {})

ServiceReads ==
     "diagnosis_run" :> Reads("diagnosis.read", {"force"}, {"categories"})
  @@ "services_list" :> Reads("services.read", {}, {})
  @@ "service_status" :> Reads("services.read", {"names"}, {})
  @@ "service_logs" :> Reads(
          "logs.read", {"service", "lines"}, {"since", "until", "priority",
          "grep"})
  @@ "journal_query" :> Reads(
          "logs.read", {"units", "lines"}, {"since", "until", "priority",
          "grep"})

SnapshotReads ==
     "web_logs" :> Reads(
          "logs.read", {"lines"}, {"host", "path", "status", "since", "until"})
  @@ "system_snapshot" :> Reads("server.read", {}, {})
  @@ "service_history" :> Reads("services.read", {"names", "lines"}, {})
  @@ "ssh_diagnose" :> Reads("diagnosis.read", {"since", "lines"}, {})
  @@ "network_snapshot" :> Reads("server.read", {}, {})
  @@ "http_probe" :> Reads("diagnosis.read", {"url", "timeout_seconds"}, {})
  @@ "incident_snapshot" :> Reads("diagnosis.read", {"since", "lines"}, {"until"})
  @@ "domains_list" :> Reads("domains.read", {}, {})

DomainTools ==
     "domain_add" :> Writes(
          "domains.write", {"domain", "install_letsencrypt_cert"}, {},
          "domains.write")
  @@ "domain_cert_info" :> Reads("domains.read", {"domain"}, {})
  @@ "domain_cert_install" :> Writes(
          "domains.write", {"domain", "letsencrypt", "staging"}, {},
          "domains.cert")
  @@ "domain_dns_suggest" :> Reads("domains.read", {"domain"}, {})
  @@ "domain_dns_push_preview" :> Reads(
          "domains.read", {"domain", "force", "purge"}, {})

DomainWrites ==
     "domain_dns_push" :> Writes(
          "domains.write", {"domain", "force", "purge"}, {}, "domains.dns")
  @@ "domain_remove" :> Writes(
          "domains.write", {"domain", "remove_apps", "force"}, {},
          "domains.remove")

UserTools ==
     "users_list" :> Reads("users.read", {}, {})
  @@ "user_create" :> Writes(
          "users.write", {"username", "domain", "password", "fullname",
          "mailbox_quota", "admin"}, {}, "user_create_policy_key")
  @@ "user_update" :> Writes(
          "users.write", {"username"}, {"mail", "change_password",
          "add_mailforward", "remove_mailforward", "add_mailalias",
          "remove_mailalias", "mailbox_quota", "fullname"}, "users.write")
  @@ "user_delete" :> Writes(
          "users.delete", {"username", "purge"}, {}, "users.delete")

GroupTools ==
     "user_group_list" :> Reads("users.read", {}, {})
  @@ "user_group_create" :> Writes("users.write", {"groupname"}, {}, "users.write")
  @@ "user_group_update" :> Writes(
          "users.write", {"groupname"}, {"add", "remove"},
          "user_group_update_policy_key")
  @@ "user_group_delete" :> Writes("users.delete", {"groupname"}, {}, "users.delete")
  @@ "user_permission_list" :> Reads("users.read", {}, {})
  @@ "user_permission_add" :> Writes(
          "users.write", {"permission", "names"}, {}, "users.permissions")
  @@ "user_permission_remove" :> Writes(
          "users.write", {"permission", "names"}, {}, "users.permissions")

BackupAndOperationReads ==
     "user_permission_info" :> Reads("users.read", {"permission"}, {})
  @@ "user_permission_update" :> Writes(
          "users.write", {"permission"}, {"label", "show_tile", "protected"},
          "users.permissions")
  @@ "backups_list" :> Reads("backups.read", {}, {})
  @@ "backup_info" :> Reads("backups.read", {"name", "with_details"}, {})
  @@ "operations_list" :> Reads("logs.read", {"with_suboperations"}, {"limit"})
  @@ "operation_status" :> Reads("logs.read", {"name"}, {})
  @@ "operation_logs" :> Reads("logs.read", {"name"}, {"tail_lines"})
  @@ "updates_check" :> Reads("apps.read", {}, {})
  @@ "updates_refresh" :> Reads("system.update", {"target"}, {})

ServiceAndBackupWrites ==
     "service_restart" :> Writes(
          "services.restart", {"names"}, {}, "services.restart")
  @@ "service_stop" :> Writes("services.stop", {"names"}, {}, "services.stop")
  @@ "service_start" :> Writes("services.start", {"names"}, {}, "services.start")
  @@ "backup_create" :> Writes(
          "backups.create", {}, {"name", "description", "apps", "system"},
          "backups.create")
  @@ "backup_delete" :> Writes("backups.delete", {"name"}, {}, "backups.delete")

AppTools ==
     "app_install" :> Writes(
          "apps.install", {"app", "force"}, {"label", "args"},
          "app_install_policy_key")
  @@ "app_upgrade" :> Writes(
          "apps.upgrade", {"force"}, {"app", "url"}, "app_upgrade_policy_key")
  @@ "execute_plan" :> Writes("apps.upgrade", {"plan_id"}, {}, "none")
  @@ "app_remove" :> Writes(
          "apps.remove", {"app", "purge"}, {}, "app_remove_policy_key")

AppSettingTools ==
     "app_change_url" :> Writes(
          "apps.upgrade", {"app", "domain", "path"}, {},
          "app_change_url_policy_key")
  @@ "app_config_set" :> Writes(
          "apps.config.write", {"app", "key", "value"}, {},
          "app_config_policy_key")
  @@ "app_setting_set" :> Writes(
          "apps.setting.write", {"app", "key", "delete"}, {"value"},
          "app_setting_policy_key")
  @@ "backup_restore" :> Writes(
          "backups.restore", {"name", "force"}, {"apps", "system"},
          "backups.restore")
  @@ "system_upgrade" :> Writes("system.upgrade", {}, {}, "system.upgrade")

SystemTools ==
     "system_reboot" :> Writes("system.power", {}, {}, "system.power")
  @@ "system_shutdown" :> Writes("system.power", {}, {}, "system.power")
  @@ "migrations_list" :> Reads("system.update", {"pending", "done"}, {})
  @@ "migrations_state" :> Reads("system.update", {}, {})
  @@ "migrations_run" :> Writes(
          "system.migrate", {"skip", "auto", "force_rerun", "accept_disclaimer",
          "skip_postmigrations"}, {"targets"}, "system.migrate")
  @@ "firewall_list" :> Reads("firewall.read", {"raw", "protocol", "forwarded"}, {})
  @@ "firewall_is_open" :> Reads("firewall.read", {"port", "protocol"}, {})

FirewallTools ==
     "firewall_open" :> Writes(
          "firewall.write", {"port", "protocol", "comment", "upnp",
          "no_reload"}, {}, "firewall.write")
  @@ "firewall_close" :> Writes(
          "firewall.write", {"port", "protocol", "upnp_only", "no_reload"}, {},
          "firewall.write")
  @@ "firewall_reload" :> Writes(
          "firewall.write", {"skip_upnp"}, {}, "firewall.write")

SettingTools ==
     "settings_list" :> Reads("settings.read", {"full"}, {})
  @@ "settings_get" :> Reads("settings.read", {"key", "full"}, {})
  @@ "settings_set" :> Writes(
          "settings.write", {"key", "value"}, {}, "settings.write")
  @@ "regenconf_pending" :> Reads("regenconf.read", {"with_diff"}, {"names"})
  @@ "regenconf_apply" :> Writes(
          "regenconf.write", {"force"}, {"names"}, "regenconf.write")

PackageInstallTools ==
     "package_inspect" :> Reads("packages.inspect", {"source"}, {})
  @@ "package_lint" :> Reads("packages.inspect", {"source"}, {})
  @@ "package_install_test" :> Writes(
          "packages.test", {"source", "session_id"}, {"label", "args"},
          "packages.test")
  @@ "package_upgrade_test" :> Writes(
          "packages.test", {"app", "source", "session_id"}, {}, "packages.test")
  @@ "package_backup_test" :> Writes(
          "packages.test", {"app", "session_id"}, {}, "packages.test")

PackageTestTools ==
     "package_restore_test" :> Writes(
          "packages.test", {"app", "archive_name", "session_id"}, {},
          "packages.test")
  @@ "package_change_url_test" :> Writes(
          "packages.test", {"app", "domain", "path", "session_id"}, {},
          "packages.test")
  @@ "package_remove_test" :> Writes(
          "packages.test", {"app", "session_id", "purge"}, {}, "packages.test")
  @@ "package_logs" :> Reads("packages.inspect", {"operation"}, {"tail_lines"})

PackageCycleTools ==
     "package_run_tests" :> Writes(
          "packages.test", {"source"}, {"app_id"}, "packages.test")

WorkflowTools ==
     "diagnose_app" :> Reads("apps.read", {"app"}, {})
  @@ "validate_server" :> Reads("server.read", {}, {})
  @@ "safe_upgrade" :> Writes("apps.upgrade", {"app"}, {}, "app_upgrade_policy_key")
  @@ "repair_app" :> Writes("services.restart", {"app", "strategy"}, {}, "none")
  @@ "test_package" :> Writes(
          "packages.test", {"source"}, {"app_id"}, "packages.test")
  @@ "catalog_package_inspect" :> Reads("catalog.inspect", {"source"}, {"ref"})

CatalogTools ==
     "catalog_publish_plan" :> Reads(
          "catalog.inspect", {"source"}, {"ref", "ci_result", "ci_provider",
          "ci_ref"})
  @@ "catalog_verify" :> Reads("catalog.verify", {"event_or_naddr"}, {})
  @@ "catalog_list" :> Reads("catalog.inspect", {}, {})
  @@ "catalog_publish" :> Writes(
          "catalog.publish", {"plan_id"}, {}, "catalog.publish")

Tools ==
     ServerReads
  @@ AppReads
  @@ ServiceReads
  @@ SnapshotReads
  @@ DomainTools
  @@ DomainWrites
  @@ UserTools
  @@ GroupTools
  @@ BackupAndOperationReads
  @@ ServiceAndBackupWrites
  @@ AppTools
  @@ AppSettingTools
  @@ SystemTools
  @@ FirewallTools
  @@ SettingTools
  @@ PackageInstallTools
  @@ PackageTestTools
  @@ PackageCycleTools
  @@ WorkflowTools
  @@ CatalogTools
=============================================================================
