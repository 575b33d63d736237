-------------------------- MODULE MCDaemonLifecycle --------------------------
(* Instances of DaemonLifecycle for TLC. *)
EXTENDS DaemonLifecycle, TLC

(* Daemons and commands are interchangeable where no liveness is checked. *)
Interchangeable == Permutations(Daemons) \cup Permutations(Commands)
=============================================================================
