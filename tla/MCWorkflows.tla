----------------------------- MODULE MCWorkflows -----------------------------
(* A small host: the control plane's own app and one other. *)
EXTENDS Workflows, TLC

CONSTANTS p, q, i1, s1

MCPerson == {p, q}
MCPlan == {i1}
MCSession == {s1}
MCApp == {"app", "yunohost_mcp"}
=============================================================================
