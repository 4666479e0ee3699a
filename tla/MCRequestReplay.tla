-------------------------- MODULE MCRequestReplay --------------------------
(* Small instances of RequestReplay for TLC. *)
EXTENDS RequestReplay, TLC

CONSTANTS e1, b1, b2

OneEvent == {e1}
MCThread == {b1, b2}

AllTools == {"app_upgrade", "safe_upgrade", "package_run_tests"}

Symmetry == Permutations(MCThread)
=============================================================================
