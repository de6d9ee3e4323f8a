---------------------------- MODULE MCJvmRegistry ---------------------------
(* TLC instance of JvmRegistry.                                            *)
EXTENDS JvmRegistry, TLC

Symmetry == Permutations(Threads) \cup Permutations(Contexts)
=============================================================================
