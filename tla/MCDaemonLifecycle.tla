-------------------------- MODULE MCDaemonLifecycle --------------------------
(* Small instances of DaemonLifecycle for TLC. *)
EXTENDS DaemonLifecycle, TLC

CONSTANTS d1, d2

FirstIsOlder == {d1}

AnyClient == Permutations(Clients)
=============================================================================
