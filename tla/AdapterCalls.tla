---------------------------- MODULE AdapterCalls ----------------------------
(***************************************************************************)
(* The methods of YunohostAdapter the broker is asked through: the         *)
(* operation a method sends and the arguments it sends with it, all of     *)
(* them parameters of the method under the same name. A Confirmed call     *)
(* carries the confirmation_id it was given as well. In the root process   *)
(* the same method, called by a handler, has no broker to ask and makes    *)
(* the YunoHost call; what that call does is left out.                     *)
(***************************************************************************)
EXTENDS TLC

Plain(op, sends) == [op |-> op, sends |-> sends, confirmed |-> FALSE]

Confirmed(op, sends) == [op |-> op, sends |-> sends, confirmed |-> TRUE]

ServerAndAppCalls ==
     "server_info" :> Plain("server.info", {})
  @@ "health_check" :> Plain("health.check", {})
  @@ "apps_list" :> Plain("apps.list", {"full"})
  @@ "app_info" :> Plain("app.info", {"app", "full"})
  @@ "app_resources" :> Plain("app.resources", {"app"})
  @@ "app_config_get" :> Plain("app.config_get", {"app", "key", "full", "export"})
  @@ "app_config_set" :> Confirmed("app.config_set", {"app", "key", "value"})

SettingAndDiagnosisCalls ==
     "app_setting_get" :> Plain("app.setting_get", {"app", "key"})
  @@ "app_setting_set" :> Confirmed(
          "app.setting_set", {"app", "key", "value", "delete"})
  @@ "diagnosis_run" :> Plain("diagnosis.run", {"categories", "force"})
  @@ "services_list" :> Plain("services.status", {"names"})

LogAndSnapshotCalls ==
     "service_logs" :> Plain(
          "service.logs", {"service", "since", "until", "priority", "grep",
          "lines"})
  @@ "journal_query" :> Plain(
          "journal.query", {"units", "since", "until", "priority", "grep",
          "lines"})
  @@ "web_logs" :> Plain(
          "web.logs", {"host", "path", "status", "since", "until", "lines"})
  @@ "system_snapshot" :> Plain("system.snapshot", {})
  @@ "service_history" :> Plain("service.history", {"names", "lines"})
  @@ "ssh_diagnose" :> Plain("ssh.diagnose", {"since", "lines"})
  @@ "network_snapshot" :> Plain("network.snapshot", {})
  @@ "http_probe" :> Plain("http.probe", {"url", "timeout_seconds"})
  @@ "incident_snapshot" :> Plain("incident.snapshot", {"since", "until", "lines"})

ListCalls ==
     "service_status" :> Plain("services.status", {"names"})
  @@ "domains_list" :> Plain("domains.list", {})
  @@ "users_list" :> Plain("users.list", {})

UserCalls ==
     "user_create" :> Confirmed(
          "user.create", {"username", "domain", "password", "fullname",
          "mailbox_quota", "admin"})
  @@ "user_update" :> Confirmed(
          "user.update", {"username", "mail", "change_password",
          "add_mailforward", "remove_mailforward", "add_mailalias",
          "remove_mailalias", "mailbox_quota", "fullname"})
  @@ "user_delete" :> Confirmed("user.delete", {"username", "purge"})
  @@ "user_group_list" :> Plain("user.groups", {})

GroupCalls ==
     "user_group_create" :> Confirmed("user.group_create", {"groupname"})
  @@ "user_group_update" :> Confirmed(
          "user.group_update", {"groupname", "add", "remove"})
  @@ "user_group_delete" :> Confirmed("user.group_delete", {"groupname"})
  @@ "user_permission_list" :> Plain("user.permissions", {})
  @@ "user_permission_add" :> Confirmed(
          "user.permission_add", {"permission", "names"})
  @@ "user_permission_remove" :> Confirmed(
          "user.permission_remove", {"permission", "names"})
  @@ "user_permission_info" :> Plain("user.permission_info", {"permission"})

PermissionAndBackupCalls ==
     "user_permission_update" :> Confirmed(
          "user.permission_update", {"permission", "label", "show_tile",
          "protected"})
  @@ "backups_list" :> Plain("backups.list", {})
  @@ "backup_info" :> Plain("backup.info", {"name", "with_details"})
  @@ "backup_created_at_times" :> Plain("backups.created_at", {})
  @@ "free_space_bytes" :> Plain("system.free_space", {"path"})

OperationCalls ==
     "operations_list" :> Plain("operations.list", {"limit", "with_suboperations"})
  @@ "operation_status" :> Plain("operation.status", {"name"})
  @@ "operation_logs" :> Plain("operation.logs", {"name", "tail_lines"})
  @@ "updates_check" :> Plain("updates.check", {})
  @@ "updates_refresh" :> Plain("updates.refresh", {"target"})

DomainCalls ==
     "domain_add" :> Confirmed("domain.add", {"domain", "install_letsencrypt_cert"})
  @@ "domain_cert_info" :> Plain("domain.certificate_info", {"domain"})

CertificateCalls ==
     "domain_cert_install" :> Confirmed(
          "domain.cert_install", {"domain", "letsencrypt", "staging"})

DnsCalls ==
     "domain_dns_suggest" :> Plain("domain.dns_suggest", {"domain"})
  @@ "domain_dns_push_preview" :> Plain(
          "domain.dns_push_preview", {"domain", "force", "purge"})
  @@ "domain_dns_push" :> Confirmed("domain.dns_push", {"domain", "force", "purge"})
  @@ "domain_remove" :> Confirmed(
          "domain.remove", {"domain", "remove_apps", "force"})

ServiceCalls ==
     "service_restart" :> Confirmed("service.restart", {"names"})
  @@ "service_stop" :> Confirmed("service.stop", {"names"})
  @@ "service_start" :> Confirmed("service.start", {"names"})

BackupCalls ==
     "backup_create" :> Confirmed(
          "backup.create", {"name", "description", "apps", "system"})
  @@ "backup_delete" :> Confirmed("backup.delete", {"name"})

AppCalls ==
     "app_install" :> Confirmed("app.install", {"app", "label", "args", "force"})
  @@ "app_upgrade" :> Confirmed("app.upgrade", {"app", "force", "url"})
  @@ "app_remove" :> Confirmed("app.remove", {"app", "purge"})
  @@ "app_change_url" :> Confirmed("app.change_url", {"app", "domain", "path"})

RestoreAndPowerCalls ==
     "backup_restore" :> Confirmed(
          "backup.restore", {"name", "apps", "system", "force"})
  @@ "system_upgrade" :> Confirmed("system.upgrade", {})
  @@ "system_reboot" :> Confirmed("system.reboot", {})
  @@ "system_shutdown" :> Confirmed("system.shutdown", {})

MigrationCalls ==
     "migrations_list" :> Plain("migrations.list", {"pending", "done"})
  @@ "migrations_state" :> Plain("migrations.state", {})
  @@ "migrations_run" :> Confirmed(
          "migrations.run", {"targets", "skip", "auto", "force_rerun",
          "accept_disclaimer", "skip_postmigrations"})

FirewallCalls ==
     "firewall_list" :> Plain("firewall.list", {"raw", "protocol", "forwarded"})
  @@ "firewall_is_open" :> Plain("firewall.is_open", {"port", "protocol"})
  @@ "firewall_open" :> Confirmed(
          "firewall.open", {"port", "protocol", "comment", "upnp", "no_reload"})
  @@ "firewall_close" :> Confirmed(
          "firewall.close", {"port", "protocol", "upnp_only", "no_reload"})
  @@ "firewall_reload" :> Confirmed("firewall.reload", {"skip_upnp"})

SettingsCalls ==
     "settings_list" :> Plain("settings.list", {"full"})
  @@ "settings_get" :> Plain("settings.get", {"key", "full"})
  @@ "settings_set" :> Confirmed("settings.set", {"key", "value"})
  @@ "regenconf_pending" :> Plain("regenconf.pending", {"names", "with_diff"})
  @@ "regenconf_apply" :> Confirmed("regenconf.apply", {"names", "force"})

PackageReadCalls ==
     "package_inspect" :> Plain("package.inspect", {"source"})
  @@ "package_lint" :> Plain("package.lint", {"source"})

CatalogCalls ==
     "catalog_package_inspect" :> Plain("catalog.package_inspect", {"source", "ref"})
  @@ "catalog_publish_plan" :> Plain(
          "catalog.publish_plan", {"source", "ref", "ci_result", "ci_provider",
          "ci_ref"})

PublishCalls ==
     "catalog_publish" :> Confirmed(
          "catalog.publish", {"source", "ref", "plan_id", "ci_result",
          "ci_provider", "ci_ref"})
  @@ "catalog_verify" :> Plain("catalog.verify", {"event_or_naddr"})
  @@ "catalog_list" :> Plain("catalog.list", {})

PackageTestCalls ==
     "package_install_test" :> Confirmed(
          "package.install_test", {"source", "label", "args", "session_id"})
  @@ "package_upgrade_test" :> Confirmed(
          "package.upgrade_test", {"app", "source", "session_id"})
  @@ "package_backup_test" :> Confirmed("package.backup_test", {"app", "session_id"})
  @@ "package_restore_test" :> Confirmed(
          "package.restore_test", {"app", "archive_name", "session_id"})
  @@ "package_change_url_test" :> Confirmed(
          "package.change_url_test", {"app", "domain", "path", "session_id"})
  @@ "package_remove_test" :> Confirmed(
          "package.remove_test", {"app", "purge", "session_id"})
  @@ "package_run_tests" :> Confirmed(
          "package.run_tests", {"source", "app_id", "session_id"})

DiagnoseCalls ==
     "diagnose_app" :> Plain("diagnose.app", {"app"})
  @@ "validate_server" :> Plain("validate.server", {})

WorkflowCalls ==
     "safe_upgrade" :> Confirmed("safe.upgrade", {"app"})
  @@ "repair_app" :> Plain("repair.app", {"app", "strategy"})

Methods ==
     ServerAndAppCalls
  @@ SettingAndDiagnosisCalls
  @@ LogAndSnapshotCalls
  @@ ListCalls
  @@ UserCalls
  @@ GroupCalls
  @@ PermissionAndBackupCalls
  @@ OperationCalls
  @@ DomainCalls
  @@ CertificateCalls
  @@ DnsCalls
  @@ ServiceCalls
  @@ BackupCalls
  @@ AppCalls
  @@ RestoreAndPowerCalls
  @@ MigrationCalls
  @@ FirewallCalls
  @@ SettingsCalls
  @@ PackageReadCalls
  @@ CatalogCalls
  @@ PublishCalls
  @@ PackageTestCalls
  @@ DiagnoseCalls
  @@ WorkflowCalls
=============================================================================
