---------------------------- MODULE MCCoreCalls -----------------------------
(***************************************************************************)
(* CoreCalls for TLC.                                                      *)
(***************************************************************************)
EXTENDS CoreCalls, TLC

Symmetry == Permutations(Threads) \cup Permutations(Objects)

=============================================================================
