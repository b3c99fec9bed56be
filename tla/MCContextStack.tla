---------------------------- MODULE MCContextStack ----------------------------
(* ContextStack on small sets of threads, contexts and tokens. *)
EXTENDS ContextStack, TLC

Symmetry == Permutations(Threads) \cup Permutations(Scopes) \cup Permutations(Contexts)
===============================================================================
