--------------------------- MODULE MCConversions ----------------------------
(***************************************************************************)
(* Conversions for TLC.                                                    *)
(***************************************************************************)
EXTENDS Conversions

=============================================================================
