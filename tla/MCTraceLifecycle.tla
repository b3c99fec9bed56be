-------------------------- MODULE MCTraceLifecycle --------------------------
(* TraceLifecycle on small sets of threads. *)
EXTENDS TraceLifecycle, TLC

Symmetry == Permutations(Threads) \cup Permutations(Helpers)
=============================================================================
