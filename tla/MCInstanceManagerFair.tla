------------------------ MODULE MCInstanceManagerFair -----------------------
(***************************************************************************)
(* InstanceManagerFair for TLC.                                            *)
(***************************************************************************)
EXTENDS InstanceManagerFair

\* The null instance, two numbers that can be live, and one never given out.
MCNumbers == 0 .. 2

=============================================================================
