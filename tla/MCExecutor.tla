---------------------------- MODULE MCExecutor ----------------------------
(* The executor, bounded for TLC.                                          *)
EXTENDS ExecutorLifecycle, TLC

CONSTANTS p1, p2

PluginSymmetry == Permutations(Plugins)

=============================================================================
