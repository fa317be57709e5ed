------------------------------ MODULE ToxEvents -----------------------------
(***************************************************************************)
(* From the callbacks of the tox library to the client's handlers, for one *)
(* instance of ToxCore or ToxAv.                                           *)
(*                                                                         *)
(* During iterate, with the instance locked, the library calls back and    *)
(* every callback adds a message to the list of its type in Events.  Then  *)
(* the lists are serialised and cleared, and after the instance is         *)
(* unlocked the Kotlin side parses them and calls the handlers: all events *)
(* of one type, then all of the next.  Any thread may iterate, and a       *)
(* handler may call iterate again, so dispatches overlap.  A handler that  *)
(* throws ends its dispatch, and so does a conversion before it.  An event *)
(* is identified by its position in occurred.                              *)
(***************************************************************************)
EXTENDS Integers, Sequences, FiniteSets, Functions, SequencesExt

CONSTANTS Threads,       \* the client's threads
          NoThread,      \* the owner of the unlocked instance mutex
          DispatchOrders,\* the types of events in the order of dispatch: CoreOrder
                         \* for an instance of ToxCore, AvOrder for one of ToxAv
          Types,         \* the types that occur
          Friends,       \* friend numbers
          Files,         \* file numbers
          MaxEvents,     \* bound: how many events occur
          MaxDepth       \* bound: how deep handlers nest iterate calls

ASSUME EventsAssumption ==
    /\ NoThread \notin Threads
    /\ \A o \in DispatchOrders : o \in Seq(Range(o)) /\ IsInjective(o)
    /\ Types \subseteq UNION {Range(o) : o \in DispatchOrders}
    /\ MaxEvents \in Nat
    /\ MaxDepth \in Nat

\* The types of ToxCoreEventDispatch.dispatch and ToxAvEventDispatch.dispatch.
CoreOrder ==
    <<"selfConnectionStatus", "friendName", "friendStatusMessage", "friendStatus",
      "friendConnectionStatus", "friendTyping", "friendReadReceipt", "friendRequest",
      "friendMessage", "fileRecvControl", "fileChunkRequest", "fileRecv", "fileRecvChunk",
      "friendLossyPacket", "friendLosslessPacket">>

AvOrder ==
    <<"call", "callState", "audioBitRate", "videoBitRate", "audioReceiveFrame",
      "videoReceiveFrame">>

\* The types whose callbacks and messages have a file number.
FileTypes == {"fileRecvControl", "fileChunkRequest", "fileRecv", "fileRecvChunk"}

VARIABLES order,     \* the order of dispatch of this instance
          occurred,  \* history: the events, in the order of their callbacks
          events,    \* the Events message: the list of events of each type
          iterating, \* the thread that runs with the instance locked
          stack,     \* the dispatches each thread is in, the innermost last
          batches,   \* how many batches have been fetched
          overlaps,  \* history: the batches that were open when one was fetched
          delivered, \* history: the calls of handlers
          lost       \* history: the events no handler will see

eventVars == <<order, occurred, events, iterating, stack, batches, overlaps, delivered, lost>>

\* toxNew and toxavNew set a callback for every type of their list.
Registered == Range(order)

\* A message with a list for every type.
NoEvents == [type \in Registered |-> <<>>]

EventsInit ==
    /\ order \in DispatchOrders
    /\ occurred = <<>>
    /\ events = NoEvents
    /\ iterating = NoThread
    /\ stack = [t \in Threads |-> <<>>]
    /\ batches = 0
    /\ overlaps = <<>>
    /\ delivered = <<>>
    /\ lost = {}

Top(t) == stack[t][Len(stack[t])]
Pop(t) == stack' = [stack EXCEPT ![t] = SubSeq(@, 1, Len(@) - 1)]

\* The client's code runs: outside of iterate, or in a handler.
InClient(t) == iterating # t /\ (stack[t] # <<>> => Top(t).handling)

-----------------------------------------------------------------------------
(* Native side *)

\* Mutant: the callback adds the event at the front of the list.
RecordInFront(type, friend, file) ==
    /\ Len(occurred) < MaxEvents
    /\ occurred' = Append(occurred, [type |-> type, friend |-> friend, file |-> file])
    /\ events' = [events EXCEPT ![type] = <<Len(occurred) + 1>> \o @]

\* The callback of an event adds it to the list of its type.
Record(type, friend, file) ==
    /\ Len(occurred) < MaxEvents
    /\ occurred' = Append(occurred, [type |-> type, friend |-> friend, file |-> file])
    /\ events' = [events EXCEPT ![type] = Append(@, Len(occurred) + 1)]

\* toxIterate and toxavIterate lock the instance and call the library ...
IterateBegin(t) ==
    /\ InClient(t)
    /\ Len(stack[t]) < MaxDepth
    /\ iterating = NoThread
    /\ iterating' = t
    /\ UNCHANGED <<order, occurred, events, stack, batches, overlaps, delivered, lost>>

\* ... which calls back ...
Callback(t, type, friend, file) ==
    /\ iterating = t
    /\ Record(type, friend, file)
    /\ UNCHANGED <<order, iterating, stack, batches, overlaps, delivered, lost>>

\* Mutant: a single list, in the order of the callbacks.
FlattenByTime == SetToSortSeq(UNION {Range(events[type]) : type \in DOMAIN events}, <)

\* The events of a batch in the order dispatch goes through them.
Flatten == FlattenSeq([i \in DOMAIN order |-> events[order[i]]])

OpenBatches == {f.batch : f \in UNION {Range(stack[t]) : t \in Threads}}

\* ... and no event is pending: null, and dispatch returns the client's state.
IterateNull(t) ==
    /\ iterating = t
    /\ events = NoEvents
    /\ iterating' = NoThread
    /\ UNCHANGED <<order, occurred, events, stack, batches, overlaps, delivered, lost>>

\* Mutant: the lists are not cleared.
IterateBatchUncleared(t) ==
    /\ iterating = t
    /\ events # NoEvents
    /\ batches' = batches + 1
    /\ overlaps' = Append(overlaps, OpenBatches)
    /\ stack' = [stack EXCEPT ![t] =
                    Append(@, [batch |-> batches + 1, rest |-> Flatten, handling |-> FALSE])]
    /\ iterating' = NoThread
    /\ UNCHANGED <<order, occurred, events, delivered, lost>>

\* ... or the lists are serialised and cleared, and dispatch parses them.
IterateBatch(t) ==
    /\ iterating = t
    /\ events # NoEvents
    /\ events' = NoEvents
    /\ batches' = batches + 1
    /\ overlaps' = Append(overlaps, OpenBatches)
    /\ stack' = [stack EXCEPT ![t] =
                    Append(@, [batch |-> batches + 1, rest |-> Flatten, handling |-> FALSE])]
    /\ iterating' = NoThread
    /\ UNCHANGED <<order, occurred, delivered, lost>>

\* The invoke functions call the callback themselves, with the instance locked.
Invoke(t, type, friend, file) ==
    /\ InClient(t)
    /\ iterating = NoThread
    /\ Record(type, friend, file)
    /\ UNCHANGED <<order, iterating, stack, batches, overlaps, delivered, lost>>

-----------------------------------------------------------------------------
(* Kotlin side *)

\* What the dispatch functions pass to the handlers.  dispatchFileRecvChunk
\* passes the file number for both.
HandlerArgs(e) ==
    [type |-> e.type,
     friend |-> IF e.type = "fileRecvChunk" THEN e.file ELSE e.friend,
     file |-> e.file]

\* The folds of dispatch call the handler of the next event.
Deliver(t) ==
    /\ stack[t] # <<>>
    /\ iterating # t
    /\ ~Top(t).handling
    /\ Top(t).rest # <<>>
    /\ delivered' = Append(delivered, [id |-> Head(Top(t).rest), batch |-> Top(t).batch,
                                       args |-> HandlerArgs(occurred[Head(Top(t).rest)])])
    /\ stack' = [stack EXCEPT ![t][Len(stack[t])] =
                    [Top(t) EXCEPT !.rest = Tail(@), !.handling = TRUE]]
    /\ UNCHANGED <<order, occurred, events, iterating, batches, overlaps, lost>>

HandlerReturns(t) ==
    /\ stack[t] # <<>>
    /\ InClient(t)
    /\ stack' = [stack EXCEPT ![t][Len(stack[t])].handling = FALSE]
    /\ UNCHANGED <<order, occurred, events, iterating, batches, overlaps, delivered, lost>>

\* Mutant: the exception is reported and the dispatch goes on.
HandlerThrowsGoesOn(t) ==
    /\ stack[t] # <<>>
    /\ InClient(t)
    /\ lost' = lost \cup Range(Top(t).rest)
    /\ stack' = [stack EXCEPT ![t][Len(stack[t])].handling = FALSE]
    /\ UNCHANGED <<order, occurred, events, iterating, batches, overlaps, delivered>>

\* Nothing in dispatch catches: the rest of the batch is gone, and the state too.
HandlerThrows(t) ==
    /\ stack[t] # <<>>
    /\ InClient(t)
    /\ lost' = lost \cup Range(Top(t).rest)
    /\ Pop(t)
    /\ UNCHANGED <<order, occurred, events, iterating, batches, overlaps, delivered>>

\* dispatchVideoReceiveFrame copies the planes into the arrays of videFrameCachedYUV
\* before it calls the handler.  If that throws the frame itself is gone too.
ConversionThrows(t) ==
    /\ stack[t] # <<>>
    /\ iterating # t
    /\ ~Top(t).handling
    /\ Top(t).rest # <<>>
    /\ occurred[Head(Top(t).rest)].type = "videoReceiveFrame"
    /\ lost' = lost \cup Range(Top(t).rest)
    /\ Pop(t)
    /\ UNCHANGED <<order, occurred, events, iterating, batches, overlaps, delivered>>

DispatchReturns(t) ==
    /\ stack[t] # <<>>
    /\ iterating # t
    /\ ~Top(t).handling
    /\ Top(t).rest = <<>>
    /\ Pop(t)
    /\ UNCHANGED <<order, occurred, events, iterating, batches, overlaps, delivered, lost>>

-----------------------------------------------------------------------------

\* The types of T this instance has a callback for, and that occur.
Occurring(T) == Types \cap Registered \cap T

\* The callbacks of ToxCore about a friend or itself, those about a file, and those
\* of ToxAv.  Messages without a file number have the default, 0.
FriendCallback(t) ==
    \E type \in Occurring(Range(CoreOrder) \ FileTypes), friend \in Friends :
        Callback(t, type, friend, 0)
FileCallback(t) ==
    \E type \in Occurring(FileTypes), friend \in Friends, file \in Files :
        Callback(t, type, friend, file)
AvCallback(t) ==
    \E type \in Occurring(Range(AvOrder)), friend \in Friends : Callback(t, type, friend, 0)

\* The invoke functions of ToxCoreJni and ToxAvJni.
InvokeFriend(t) ==
    \E type \in Occurring(Range(CoreOrder) \ FileTypes), friend \in Friends :
        Invoke(t, type, friend, 0)
InvokeFile(t) ==
    \E type \in Occurring(FileTypes), friend \in Friends, file \in Files :
        Invoke(t, type, friend, file)
InvokeAv(t) ==
    \E type \in Occurring(Range(AvOrder)), friend \in Friends : Invoke(t, type, friend, 0)

EventsNext ==
    \E t \in Threads :
        \/ IterateBegin(t) \/ IterateNull(t) \/ IterateBatch(t)
        \/ FriendCallback(t) \/ FileCallback(t) \/ AvCallback(t)
        \/ InvokeFriend(t) \/ InvokeFile(t) \/ InvokeAv(t)
        \/ Deliver(t) \/ HandlerReturns(t) \/ HandlerThrows(t) \/ ConversionThrows(t)
        \/ DispatchReturns(t)

EventsSpec == EventsInit /\ [][EventsNext]_eventVars

-----------------------------------------------------------------------------
(* Properties *)

\* The events the native side and the dispatches still hold, and those that
\* reached a handler.
Pending ==
    (UNION {Range(events[type]) : type \in DOMAIN events})
    \cup (UNION {Range(f.rest) : f \in UNION {Range(stack[t]) : t \in Threads}})
Delivered == {d.id : d \in Range(delivered)}

\* No event is forgotten or handled twice, however threads and nested iterate
\* calls overlap: it waits in one list or batch, was given to one handler once,
\* or was dropped with the batch of a handler or a conversion that threw.
AtMostOnce ==
    /\ Pending \cup Delivered \cup lost = DOMAIN occurred
    /\ Cardinality(Pending) + Len(delivered) + Cardinality(lost) = Len(occurred)

\* The place of a type in the order of dispatch.
Rank(id) == CHOOSE i \in DOMAIN order : order[i] = occurred[id].type

\* A batch is handled type by type, and the events of one type in the order of
\* their callbacks.
BatchOrder ==
    \A i, j \in DOMAIN delivered :
        (i < j /\ delivered[i].batch = delivered[j].batch) =>
            LET a == delivered[i].id
                b == delivered[j].id
            IN  Rank(a) < Rank(b) \/ (Rank(a) = Rank(b) /\ a < b)

\* Events of one type reach the handlers in the order of their callbacks, unless
\* the later one was fetched by an iterate call that ran during the dispatch of
\* the earlier one: in another thread, or in a handler.
InOrder ==
    \A i, j \in DOMAIN delivered :
        LET d == delivered[i]
            e == delivered[j]
        IN  (i < j /\ Rank(d.id) = Rank(e.id) /\ e.id < d.id) => e.batch \in overlaps[d.batch]

\* A handler gets what the callback was given, as CoreInvokeTest expects of every
\* event.  The code breaks this for fileRecvChunk.
ArgumentsKept ==
    \A i \in DOMAIN delivered : delivered[i].args = occurred[delivered[i].id]

-----------------------------------------------------------------------------
(* The abstract specification *)

Channel == INSTANCE EventChannel WITH
    happened <- Len(occurred),
    fetched <- DOMAIN occurred \ UNION {Range(events[type]) : type \in DOMAIN events},
    handled <- [i \in DOMAIN delivered |-> delivered[i].id],
    dropped <- lost

\* The events of an instance are a channel to the handlers: an iterate call fetches
\* every event that has occurred, an event that occurs later waits for the next one,
\* and no step of any thread gives a handler an event that was handled or dropped.
RefinesChannel == Channel!Spec

=============================================================================
