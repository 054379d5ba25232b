--------------------------- MODULE MCJailLifecycle ---------------------------
(* Model values and bounds for the runs of JailLifecycle. *)
EXTENDS JailLifecycle, TLC

ProcSymmetry == Permutations(Procs)
=============================================================================
