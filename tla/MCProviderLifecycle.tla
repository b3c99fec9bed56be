-------------------------- MODULE MCProviderLifecycle --------------------------
(* Small instances of ProviderLifecycle for TLC. *)
EXTENDS ProviderLifecycle, TLC

Symmetry == Permutations(Threads) \cup Permutations(Sdks)
===============================================================================
