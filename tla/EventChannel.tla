---------------------------- MODULE EventChannel ----------------------------
(***************************************************************************)
(* What iterate promises to the client's handlers, with no lists, types,   *)
(* threads or dispatches.  Events happen; an iterate call fetches all that *)
(* have happened; each fetched event is handled at most once, unless an    *)
(* exception drops it, and what is dropped or handled never comes back.    *)
(* ToxEvents is shown to implement it.                                     *)
(***************************************************************************)
EXTENDS Naturals, Sequences

VARIABLES happened, \* how many events there have been; an event is its place
          fetched,  \* the events that have left the native side
          handled,  \* the events that reached a handler, in this order
          dropped   \* the events no handler will see

channel == <<happened, fetched, handled, dropped>>

Init ==
    /\ happened = 0
    /\ fetched = {}
    /\ handled = <<>>
    /\ dropped = {}

Happen ==
    /\ happened' = happened + 1
    /\ UNCHANGED <<fetched, handled, dropped>>

Fetch ==
    /\ fetched' = 1 .. happened
    /\ UNCHANGED <<happened, handled, dropped>>

\* The events that are on their way to a handler.
Coming == fetched \ (dropped \cup {handled[i] : i \in DOMAIN handled})

Handle(id) ==
    /\ id \in Coming
    /\ handled' = Append(handled, id)
    /\ UNCHANGED <<happened, fetched, dropped>>

Drop ==
    /\ \E lost \in SUBSET Coming : dropped' = dropped \cup lost
    /\ UNCHANGED <<happened, fetched, handled>>

Next == Happen \/ Fetch \/ Drop \/ \E id \in fetched : Handle(id)

Spec == Init /\ [][Next]_channel

=============================================================================
