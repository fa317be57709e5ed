--------------------------- MODULE MCToxLifecycle ---------------------------
(***************************************************************************)
(* ToxLifecycle for TLC.                                                   *)
(***************************************************************************)
EXTENDS ToxLifecycle, TLC

Both == {"jdk", "android"}

\* The avs are interchangeable.
Symmetry == Permutations(Avs)

=============================================================================
