-------------------------- MODULE BrokerOperations --------------------------
(***************************************************************************)
(* The operations of the broker: for each handler of operations.py the     *)
(* adapter method it calls, the arguments that must be there and those     *)
(* that may be None, all passed on under their own names; a handler        *)
(* refuses whatever else it is sent (the few that ignore unknown names are *)
(* never sent one). The scope each operation needs is in OPERATIONS; the   *)
(* policy it falls under and the arguments its confirmation binds are the  *)
(* two tables of helper.py. Lengths and formats of values are left out.    *)
(***************************************************************************)
EXTENDS TLC

Handler(method, required, optional) ==
  [method |-> method, takes |-> required \cup optional, optional |-> optional]

BareHandlers ==
     "server.info" :> Handler("server_info", {}, {})
  @@ "health.check" :> Handler("health_check", {}, {})
  @@ "catalog.list" :> Handler("catalog_list", {}, {})
  @@ "validate.server" :> Handler("validate_server", {}, {})
  @@ "domains.list" :> Handler("domains_list", {}, {})
  @@ "users.list" :> Handler("users_list", {}, {})
  @@ "backups.list" :> Handler("backups_list", {}, {})
  @@ "user.groups" :> Handler("user_group_list", {}, {})
  @@ "user.permissions" :> Handler("user_permission_list", {}, {})
  @@ "migrations.state" :> Handler("migrations_state", {}, {})

ReadHandlers ==
     "services.status" :> Handler("service_status", {"names"}, {})
  @@ "apps.list" :> Handler("apps_list", {"full"}, {})
  @@ "app.info" :> Handler("app_info", {"app", "full"}, {})
  @@ "app.resources" :> Handler("app_resources", {"app"}, {})
  @@ "app.config_get" :> Handler(
          "app_config_get", {"app", "key", "full", "export"}, {})
  @@ "app.setting_get" :> Handler("app_setting_get", {"app", "key"}, {})
  @@ "system.free_space" :> Handler("free_space_bytes", {"path"}, {})
  @@ "backups.created_at" :> Handler("backup_created_at_times", {}, {})
  @@ "operations.list" :> Handler(
          "operations_list", {"with_suboperations"}, {"limit"})
  @@ "operation.status" :> Handler("operation_status", {"name"}, {})
  @@ "operation.logs" :> Handler("operation_logs", {"name"}, {"tail_lines"})
  @@ "domain.certificate_info" :> Handler("domain_cert_info", {"domain"}, {})
  @@ "service.logs" :> Handler(
          "service_logs", {"service", "lines"}, {"since", "until", "priority",
          "grep"})
  @@ "journal.query" :> Handler(
          "journal_query", {"units", "lines"}, {"since", "until", "priority",
          "grep"})

IntrospectionHandlers ==
     "web.logs" :> Handler(
          "web_logs", {"lines"}, {"host", "path", "status", "since", "until"})
  @@ "system.snapshot" :> Handler("system_snapshot", {}, {})
  @@ "service.history" :> Handler("service_history", {"names", "lines"}, {})
  @@ "ssh.diagnose" :> Handler("ssh_diagnose", {"since", "lines"}, {})
  @@ "network.snapshot" :> Handler("network_snapshot", {}, {})
  @@ "http.probe" :> Handler("http_probe", {"url", "timeout_seconds"}, {})
  @@ "incident.snapshot" :> Handler(
          "incident_snapshot", {"since", "lines"}, {"until"})
  @@ "updates.check" :> Handler("updates_check", {}, {})
  @@ "updates.refresh" :> Handler("updates_refresh", {"target"}, {})

CatalogHandlers ==
     "diagnosis.run" :> Handler("diagnosis_run", {"force"}, {"categories"})
  @@ "catalog.package_inspect" :> Handler(
          "catalog_package_inspect", {"source"}, {"ref"})
  @@ "catalog.verify" :> Handler("catalog_verify", {"event_or_naddr"}, {})
  @@ "catalog.publish_plan" :> Handler(
          "catalog_publish_plan", {"source"}, {"ref", "ci_result",
          "ci_provider", "ci_ref"})
  @@ "catalog.publish" :> Handler(
          "catalog_publish", {"source"}, {"ref", "plan_id", "ci_result",
          "ci_provider", "ci_ref"})

PackageHandlers ==
     "package.inspect" :> Handler("package_inspect", {"source"}, {})
  @@ "package.lint" :> Handler("package_lint", {"source"}, {})
  @@ "package.run_tests" :> Handler(
          "package_run_tests", {"source", "session_id"}, {"app_id"})
  @@ "package.install_test" :> Handler(
          "package_install_test", {"source", "session_id"}, {"label", "args"})
  @@ "package.upgrade_test" :> Handler(
          "package_upgrade_test", {"app", "source", "session_id"}, {})
  @@ "package.backup_test" :> Handler(
          "package_backup_test", {"app", "session_id"}, {})
  @@ "package.restore_test" :> Handler(
          "package_restore_test", {"app", "archive_name", "session_id"}, {})
  @@ "package.change_url_test" :> Handler(
          "package_change_url_test", {"app", "domain", "path", "session_id"},
          {})
  @@ "package.remove_test" :> Handler(
          "package_remove_test", {"app", "purge", "session_id"}, {})

WorkflowHandlers ==
     "safe.upgrade" :> Handler("safe_upgrade", {"app"}, {})
  @@ "repair.app" :> Handler("repair_app", {"app", "strategy"}, {})
  @@ "diagnose.app" :> Handler("diagnose_app", {"app"}, {})
  @@ "migrations.list" :> Handler("migrations_list", {"pending", "done"}, {})
  @@ "firewall.list" :> Handler(
          "firewall_list", {"raw", "protocol", "forwarded"}, {})
  @@ "firewall.is_open" :> Handler("firewall_is_open", {"port", "protocol"}, {})

ServiceAndBackupHandlers ==
     "service.restart" :> Handler("service_restart", {"names"}, {})
  @@ "service.stop" :> Handler("service_stop", {"names"}, {})
  @@ "service.start" :> Handler("service_start", {"names"}, {})
  @@ "backup.create" :> Handler(
          "backup_create", {}, {"name", "description", "apps", "system"})
  @@ "backup.info" :> Handler("backup_info", {"name", "with_details"}, {})
  @@ "backup.delete" :> Handler("backup_delete", {"name"}, {})

AppHandlers ==
     "app.install" :> Handler("app_install", {"app", "force"}, {"label", "args"})
  @@ "app.upgrade" :> Handler("app_upgrade", {"force"}, {"app", "url"})
  @@ "app.remove" :> Handler("app_remove", {"app", "purge"}, {})
  @@ "app.change_url" :> Handler("app_change_url", {"app", "domain", "path"}, {})
  @@ "app.config_set" :> Handler("app_config_set", {"app", "key", "value"}, {})
  @@ "app.setting_set" :> Handler(
          "app_setting_set", {"app", "key", "delete"}, {"value"})
  @@ "backup.restore" :> Handler(
          "backup_restore", {"name", "force"}, {"apps", "system"})

SystemHandlers ==
     "system.upgrade" :> Handler("system_upgrade", {}, {})
  @@ "system.reboot" :> Handler("system_reboot", {}, {})
  @@ "system.shutdown" :> Handler("system_shutdown", {}, {})
  @@ "migrations.run" :> Handler(
          "migrations_run", {"skip", "auto", "force_rerun", "accept_disclaimer",
          "skip_postmigrations"}, {"targets"})
  @@ "firewall.open" :> Handler(
          "firewall_open", {"port", "protocol", "comment", "upnp", "no_reload"},
          {})
  @@ "firewall.close" :> Handler(
          "firewall_close", {"port", "protocol", "upnp_only", "no_reload"}, {})
  @@ "firewall.reload" :> Handler("firewall_reload", {"skip_upnp"}, {})

UserHandlers ==
     "user.create" :> Handler(
          "user_create", {"username", "domain", "password", "fullname",
          "admin"}, {"mailbox_quota"})
  @@ "user.update" :> Handler(
          "user_update", {"username"}, {"mail", "change_password",
          "add_mailforward", "remove_mailforward", "add_mailalias",
          "remove_mailalias", "mailbox_quota", "fullname"})
  @@ "user.delete" :> Handler("user_delete", {"username", "purge"}, {})
  @@ "user.group_create" :> Handler("user_group_create", {"groupname"}, {})
  @@ "user.group_update" :> Handler(
          "user_group_update", {"groupname"}, {"add", "remove"})
  @@ "user.group_delete" :> Handler("user_group_delete", {"groupname"}, {})
  @@ "user.permission_add" :> Handler(
          "user_permission_add", {"permission", "names"}, {})
  @@ "user.permission_remove" :> Handler(
          "user_permission_remove", {"permission", "names"}, {})
  @@ "user.permission_info" :> Handler("user_permission_info", {"permission"}, {})
  @@ "user.permission_update" :> Handler(
          "user_permission_update", {"permission"}, {"label", "show_tile",
          "protected"})
  @@ "domain.add" :> Handler(
          "domain_add", {"domain", "install_letsencrypt_cert"}, {})

DomainHandlers ==
     "domain.remove" :> Handler(
          "domain_remove", {"domain", "remove_apps", "force"}, {})
  @@ "domain.cert_install" :> Handler(
          "domain_cert_install", {"domain", "letsencrypt", "staging"}, {})
  @@ "domain.dns_suggest" :> Handler("domain_dns_suggest", {"domain"}, {})
  @@ "domain.dns_push_preview" :> Handler(
          "domain_dns_push_preview", {"domain", "force", "purge"}, {})
  @@ "domain.dns_push" :> Handler(
          "domain_dns_push", {"domain", "force", "purge"}, {})
  @@ "settings.list" :> Handler("settings_list", {"full"}, {})

SettingHandlers ==
     "settings.get" :> Handler("settings_get", {"key", "full"}, {})
  @@ "settings.set" :> Handler("settings_set", {"key", "value"}, {})
  @@ "regenconf.pending" :> Handler("regenconf_pending", {"with_diff"}, {"names"})
  @@ "regenconf.apply" :> Handler("regenconf_apply", {"force"}, {"names"})

Handlers ==
     BareHandlers
  @@ ReadHandlers
  @@ IntrospectionHandlers
  @@ CatalogHandlers
  @@ PackageHandlers
  @@ WorkflowHandlers
  @@ ServiceAndBackupHandlers
  @@ AppHandlers
  @@ SystemHandlers
  @@ UserHandlers
  @@ DomainHandlers
  @@ SettingHandlers

(* OPERATIONS: the required_scope of each BrokerOperation. *)
RequiredScope ==
     [op \in {"server.info", "validate.server", "system.free_space",
               "system.snapshot", "network.snapshot"}
      |-> "server.read"]
  @@ [op \in {"health.check", "diagnosis.run", "ssh.diagnose", "http.probe",
               "incident.snapshot"}
      |-> "diagnosis.read"]
  @@ [op \in {"catalog.package_inspect", "catalog.list", "catalog.publish_plan"}
      |-> "catalog.inspect"]
  @@ "catalog.verify" :> "catalog.verify"
  @@ "catalog.publish" :> "catalog.publish"
  @@ [op \in {"package.inspect", "package.lint"} |-> "packages.inspect"]
  @@ [op \in {"package.run_tests", "package.install_test",
               "package.upgrade_test", "package.backup_test",
               "package.restore_test", "package.change_url_test",
               "package.remove_test"}
      |-> "packages.test"]
  @@ [op \in {"safe.upgrade", "app.upgrade", "app.change_url"} |-> "apps.upgrade"]
  @@ [op \in {"repair.app", "service.restart"} |-> "services.restart"]
  @@ [op \in {"diagnose.app", "apps.list", "app.info", "app.resources"}
      |-> "apps.read"]
  @@ "app.config_get" :> "apps.config.read"
  @@ "app.setting_get" :> "apps.setting.read"
  @@ [op \in {"services.status", "service.history"} |-> "services.read"]
  @@ [op \in {"domains.list", "domain.certificate_info", "domain.dns_suggest",
               "domain.dns_push_preview"}
      |-> "domains.read"]
  @@ [op \in {"users.list", "user.groups", "user.permissions",
               "user.permission_info"}
      |-> "users.read"]
  @@ [op \in {"backups.list", "backups.created_at", "backup.info"}
      |-> "backups.read"]
  @@ [op \in {"operations.list", "operation.status", "operation.logs",
               "service.logs", "journal.query", "web.logs"}
      |-> "logs.read"]
  @@ [op \in {"updates.check", "updates.refresh", "migrations.list",
               "migrations.state"}
      |-> "system.update"]
  @@ [op \in {"firewall.list", "firewall.is_open"} |-> "firewall.read"]
  @@ "service.stop" :> "services.stop"
  @@ "service.start" :> "services.start"
  @@ "backup.create" :> "backups.create"
  @@ "backup.delete" :> "backups.delete"
  @@ "app.install" :> "apps.install"
  @@ "app.remove" :> "apps.remove"
  @@ "app.config_set" :> "apps.config.write"
  @@ "app.setting_set" :> "apps.setting.write"
  @@ "backup.restore" :> "backups.restore"
  @@ "system.upgrade" :> "system.upgrade"
  @@ [op \in {"system.reboot", "system.shutdown"} |-> "system.power"]
  @@ "migrations.run" :> "system.migrate"
  @@ [op \in {"firewall.open", "firewall.close", "firewall.reload"}
      |-> "firewall.write"]
  @@ [op \in {"user.create", "user.update", "user.group_create",
               "user.group_update", "user.permission_add",
               "user.permission_remove", "user.permission_update"}
      |-> "users.write"]
  @@ [op \in {"user.delete", "user.group_delete"} |-> "users.delete"]
  @@ [op \in {"domain.add", "domain.remove", "domain.cert_install",
               "domain.dns_push"}
      |-> "domains.write"]
  @@ [op \in {"settings.list", "settings.get"} |-> "settings.read"]
  @@ "settings.set" :> "settings.write"
  @@ "regenconf.pending" :> "regenconf.read"
  @@ "regenconf.apply" :> "regenconf.write"

(* _POLICY_NAME_BY_OPERATION of broker/helper.py. *)
PolicyNameByOperation ==
     [op \in {"app.upgrade", "safe.upgrade"} |-> "apps.upgrade"]
  @@ "app.remove" :> "apps.remove"
  @@ "app.change_url" :> "apps.change_url"
  @@ "app.config_set" :> "apps.config"
  @@ "app.setting_set" :> "apps.setting"
  @@ "backup.restore" :> "backups.restore"
  @@ "system.upgrade" :> "system.upgrade"
  @@ "migrations.run" :> "system.migrate"
  @@ [op \in {"firewall.open", "firewall.close", "firewall.reload"}
      |-> "firewall.write"]
  @@ [op \in {"user.create", "user.update", "user.group_create",
               "user.group_update"}
      |-> "users.write"]
  @@ [op \in {"user.delete", "user.group_delete"} |-> "users.delete"]
  @@ [op \in {"user.permission_add", "user.permission_remove",
               "user.permission_update"}
      |-> "users.permissions"]
  @@ "domain.add" :> "domains.write"
  @@ "domain.cert_install" :> "domains.cert"
  @@ "domain.dns_push" :> "domains.dns"
  @@ "domain.remove" :> "domains.remove"
  @@ "app.install" :> "apps.install"
  @@ "backup.create" :> "backups.create"
  @@ "backup.delete" :> "backups.delete"
  @@ "service.restart" :> "services.restart"
  @@ "service.stop" :> "services.stop"
  @@ [op \in {"system.reboot", "system.shutdown"} |-> "system.power"]
  @@ "settings.set" :> "settings.write"
  @@ "regenconf.apply" :> "regenconf.write"
  @@ "catalog.publish" :> "catalog.publish"
  @@ [op \in {"package.run_tests", "package.install_test",
               "package.upgrade_test", "package.backup_test",
               "package.restore_test", "package.change_url_test",
               "package.remove_test"}
      |-> "packages.test"]

(* _CONFIRMATION_ARGUMENT_KEYS of broker/helper.py: what a ticket is compared *)
(* with, which is what the tool of that name hashed. *)
ConfirmationArgumentKeys ==
     "app.upgrade" :> {"app", "force", "url"}
  @@ "safe.upgrade" :> {"app"}
  @@ "app.remove" :> {"app", "purge"}
  @@ "app.change_url" :> {"app", "domain", "path"}
  @@ "app.config_set" :> {"app", "key", "value"}
  @@ "app.setting_set" :> {"app", "key", "value", "delete"}
  @@ "backup.restore" :> {"name", "apps", "system", "force"}
  @@ "system.upgrade" :> {}
  @@ "migrations.run" :>
          {"targets", "skip", "auto", "force_rerun", "accept_disclaimer",
           "skip_postmigrations"}
  @@ "firewall.open" :> {"port", "protocol", "comment", "upnp", "no_reload"}
  @@ "firewall.close" :> {"port", "protocol", "upnp_only", "no_reload"}
  @@ "firewall.reload" :> {"skip_upnp"}
  @@ "user.create" :>
          {"username", "domain", "password", "fullname", "mailbox_quota", "admin"}
  @@ "user.update" :>
          {"username", "mail", "change_password", "add_mailforward",
           "remove_mailforward", "add_mailalias", "remove_mailalias",
           "mailbox_quota", "fullname"}
  @@ "user.delete" :> {"username", "purge"}
  @@ "user.group_create" :> {"groupname"}
  @@ "user.group_update" :> {"groupname", "add", "remove"}
  @@ "user.group_delete" :> {"groupname"}
  @@ "user.permission_add" :> {"permission", "names"}
  @@ "user.permission_remove" :> {"permission", "names"}
  @@ "user.permission_update" :> {"permission", "label", "show_tile", "protected"}
  @@ "domain.add" :> {"domain", "install_letsencrypt_cert"}
  @@ "domain.cert_install" :> {"domain", "letsencrypt", "staging"}
  @@ "domain.dns_push" :> {"domain", "force", "purge"}
  @@ "domain.remove" :> {"domain", "remove_apps", "force"}
  @@ "app.install" :> {"app", "label", "args", "force"}
  @@ "backup.create" :> {"name", "description", "apps", "system"}
  @@ "backup.delete" :> {"name"}
  @@ "service.restart" :> {"names"}
  @@ "service.stop" :> {"names"}
  @@ "system.reboot" :> {}
  @@ "system.shutdown" :> {}
  @@ "settings.set" :> {"key", "value"}
  @@ "regenconf.apply" :> {"names", "force"}
  @@ "catalog.publish" :> {"plan_id"}
  @@ "package.run_tests" :> {"source", "app_id"}
  @@ "package.install_test" :> {"source", "session_id", "label", "args"}
  @@ "package.upgrade_test" :> {"app", "source", "session_id"}
  @@ "package.backup_test" :> {"app", "session_id"}
  @@ "package.restore_test" :> {"app", "archive_name", "session_id"}
  @@ "package.change_url_test" :> {"app", "domain", "path", "session_id"}
  @@ "package.remove_test" :> {"app", "purge", "session_id"}
=============================================================================
