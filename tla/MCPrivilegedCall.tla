--------------------------- MODULE MCPrivilegedCall ---------------------------
(* Every tool, three roles, and a policy file that adds confirmations. *)
EXTENDS PrivilegedCall

MCAsked == {"services.start", "services.restart", "apps.upgrade", "backups.create"}
=============================================================================
