-------------------------- MODULE MCInstanceManager -------------------------
(***************************************************************************)
(* InstanceManager for TLC.                                                *)
(***************************************************************************)
EXTENDS InstanceManager, TLC

\* Threads and objects are interchangeable.
Symmetry == Permutations(Threads) \cup Permutations(Objects)

\* The numbers callers pass: a negative one, the null instance, every number
\* the bounded vector can hold and one beyond its end.
MCNumbers == -1 .. 4

=============================================================================
