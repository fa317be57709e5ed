----------------------------- MODULE MCToxEvents ----------------------------
(***************************************************************************)
(* ToxEvents for TLC.                                                      *)
(***************************************************************************)
EXTENDS ToxEvents, TLC

BothOrders == {CoreOrder, AvOrder}
OnlyCore == {CoreOrder}

\* For each order, two types that are dispatched in it and occur in any.
MCTypes == {"friendName", "fileRecv", "callState", "videoReceiveFrame"}
MCChunkTypes == {"fileRecv", "fileRecvChunk"}

Symmetry == Permutations(Threads)

=============================================================================
