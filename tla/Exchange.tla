------------------------------ MODULE Exchange ------------------------------
(***************************************************************************)
(* A call that keeps nothing: a request, and the reply to it.  The modules *)
(* about conversions (errors, enums, frames, keys, log values) add what is *)
(* requested and the handlers that reply.                                  *)
(***************************************************************************)

VARIABLES request,   \* the call and its arguments
          reply      \* what comes of it

exchangeVars == <<request, reply>>

None == [kind |-> "none"]

ExchangeInit == request = None /\ reply = None

\* Made while there is no other.
Request(r) == request' = r /\ UNCHANGED reply
Reply(r) == reply = None /\ reply' = r /\ UNCHANGED request

\* The request has been answered.
Return == reply # None /\ request' = None /\ reply' = None

=============================================================================
