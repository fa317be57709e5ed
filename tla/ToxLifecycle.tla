---------------------------- MODULE ToxLifecycle ----------------------------
(***************************************************************************)
(* The life of one ToxCoreImpl and of the ToxAvImpl objects made on it:    *)
(* construction, close, garbage collection and finalisation                *)
(* (ToxCoreImpl.kt, ToxAvImpl.kt, internal/Event.kt).                      *)
(*                                                                         *)
(* A ToxAvImpl registers its close method in the onCloseCallbacks of its   *)
(* ToxCoreImpl, so that closing the latter closes the former first.  The   *)
(* classes are not synchronised: one client thread uses them.  The         *)
(* finalizer thread of the JVM runs the finalizers of unreachable objects, *)
(* one at a time and in any order.  The native instances are seen as       *)
(* InstanceRegistry promises them: a number is live, then killed, then     *)
(* free to be given to somebody else.                                      *)
(***************************************************************************)
EXTENDS Integers, Sequences, FiniteSets, FiniteSetsExt, Functions

CONSTANTS Avs,      \* the ToxAvImpl objects
          Tox,      \* the ToxCoreImpl object
          NoAv,     \* emptyCallback
          Platforms \* whose java.util.ArrayList it may be: the iterator of the
                    \* JDK compares its cursor with the current size, Android's
                    \* with the size the list had at the start

ASSUME LifeAssumption ==
    /\ Tox \notin Avs
    /\ NoAv \notin Avs \cup {Tox}
    /\ Platforms \subseteq {"jdk", "android"}

VARIABLES callbacks, \* onCloseCallbacks.callbacks: whose close is in each slot
          onClose,   \* the Event.Id of each av: its slot, or Invalid
          core,      \* the native instance of Tox
          av,        \* the native instance of each av
          held,      \* the objects the client has references to
          finalized, \* the objects whose finalizer has been started
          pc,        \* where each thread is
          target,    \* the av whose close() a thread is in
          calls,     \* the method that called it: the loop of Tox.close or none
          cursor,    \* the iterator of a thread in Event.invoke
          limit,     \* the size of callbacks when it was made
          modified,  \* whether callbacks has changed in size since then
          platform,  \* where the program runs
          failed     \* history: the objects whose finalizer caught an exception

javaVars == <<callbacks, onClose, held, finalized>>
nativeVars == <<core, av>>
threadVars == <<pc, target, calls, cursor, limit, modified>>
lifeVars == <<javaVars, nativeVars, threadVars, failed, platform>>

Runners == {"client", "finalizer"}
Invalid == 0

\* "none": not constructed.  "null": the constructor threw, instanceNumber is 0.
NativeStates == {"none", "null", "live", "killed", "freed"}
Locations == {"idle", "newav", "loop", "avkill", "toxfinalize"}

LifeInit ==
    /\ callbacks = <<>>
    /\ onClose = [a \in Avs |-> Invalid]
    /\ core = "none"
    /\ av = [a \in Avs |-> "none"]
    /\ held = {}
    /\ finalized = {}
    /\ pc = [r \in Runners |-> "idle"]
    /\ target = [r \in Runners |-> NoAv]
    /\ calls = [r \in Runners |-> "none"]
    /\ cursor = [r \in Runners |-> 0]
    /\ limit = [r \in Runners |-> 0]
    /\ modified = [r \in Runners |-> FALSE]
    /\ platform \in Platforms
    /\ failed = {}

Goto(r, l) == pc' = [pc EXCEPT ![r] = l]

\* toxKill and toxavKill, toxFinalize and toxavFinalize, on a number in a state.
AfterKill(s) == IF s = "live" THEN "killed" ELSE s

\* Mutant: a live instance is not refused.
AfterFinalizeAny(s) == IF s \in {"live", "killed"} THEN "freed" ELSE s

AfterFinalize(s) == IF s = "killed" THEN "freed" ELSE s

-----------------------------------------------------------------------------
(* Event *)

\* The list without the empty callbacks at its end.
Prune(s) == SubSeq(s, 1, Max({i \in DOMAIN s : s[i] # NoAv} \cup {0}))

Add(a) ==
    /\ callbacks' = Append(callbacks, a)
    /\ onClose' = [onClose EXCEPT ![a] = Len(callbacks) + 1]

\* Mutant: the id is not reset.
RemoveKeepingId(a) ==
    /\ UNCHANGED onClose
    /\ callbacks' = IF onClose[a] \in DOMAIN callbacks
                    THEN Prune([callbacks EXCEPT ![onClose[a]] = NoAv]) ELSE callbacks
    /\ modified' = [r \in Runners |-> modified[r] \/ Len(callbacks') # Len(callbacks)]

\* Mutant: the slot is removed and the later callbacks move down.
RemoveShifting(a) ==
    /\ onClose' = [onClose EXCEPT ![a] = Invalid]
    /\ callbacks' = SelectSeq(callbacks, LAMBDA c : c # a)
    /\ modified' = [r \in Runners |-> modified[r] \/ Len(callbacks') # Len(callbacks)]

\* remove(id) does nothing the second time; only pruning changes the size.
Remove(a) ==
    /\ onClose' = [onClose EXCEPT ![a] = Invalid]
    /\ callbacks' = IF onClose[a] = Invalid THEN callbacks
                    ELSE Prune([callbacks EXCEPT ![onClose[a]] = NoAv])
    /\ modified' = [r \in Runners |-> modified[r] \/ Len(callbacks') # Len(callbacks)]

-----------------------------------------------------------------------------
(* Construction *)

\* ToxCoreImpl(options): toxNew may throw.
NewTox ==
    /\ core = "none"
    /\ \/ core' = "live" /\ held' = held \cup {Tox}
       \/ core' = "null" /\ UNCHANGED held
    /\ UNCHANGED <<platform, callbacks, onClose, finalized, av, threadVars, failed>>

\* ToxAvImpl(tox) registers itself first ...
NewAv(a) ==
    /\ pc["client"] = "idle"
    /\ Tox \in held
    /\ av[a] = "none"
    /\ \A r \in Runners : target[r] # a
    /\ Add(a)
    /\ modified' = [r \in Runners |-> TRUE]
    /\ target' = [target EXCEPT !["client"] = a]
    /\ Goto("client", "newav")
    /\ UNCHANGED <<platform, held, finalized, nativeVars, calls, cursor, limit, failed>>

\* ... and calls toxavNew, which throws when tox was killed and may throw anyway.
\* The callback stays registered either way.
NewAvReturns ==
    LET a == target["client"]
    IN  /\ pc["client"] = "newav"
        /\ \/ core = "live" /\ av' = [av EXCEPT ![a] = "live"] /\ held' = held \cup {a}
           \/ av' = [av EXCEPT ![a] = "null"] /\ UNCHANGED held
        /\ target' = [target EXCEPT !["client"] = NoAv]
        /\ Goto("client", "idle")
        /\ UNCHANGED <<platform, callbacks, onClose, finalized, core, calls, cursor, limit, modified, failed>>

-----------------------------------------------------------------------------
(* close *)

\* ToxAvImpl.close: remove the callback, then call toxavKill.
EnterAvClose(r, a, caller) ==
    /\ Remove(a)
    /\ target' = [target EXCEPT ![r] = a]
    /\ calls' = [calls EXCEPT ![r] = caller]
    /\ Goto(r, "avkill")

CloseAv(a) ==
    /\ pc["client"] = "idle"
    /\ a \in held
    /\ EnterAvClose("client", a, "none")
    /\ UNCHANGED <<platform, held, finalized, nativeVars, cursor, limit, failed>>

AvKill(r) ==
    /\ pc[r] = "avkill"
    /\ av' = [av EXCEPT ![target[r]] = AfterKill(@)]
    /\ target' = [target EXCEPT ![r] = NoAv]
    /\ calls' = [calls EXCEPT ![r] = "none"]
    /\ Goto(r, IF calls[r] = "loop" THEN "loop" ELSE "idle")
    /\ UNCHANGED <<platform, javaVars, core, cursor, limit, modified, failed>>

\* ToxCoreImpl.close: run the callbacks, then call toxKill.
EnterToxClose(r) ==
    /\ cursor' = [cursor EXCEPT ![r] = 0]
    /\ limit' = [limit EXCEPT ![r] = Len(callbacks)]
    /\ modified' = [modified EXCEPT ![r] = FALSE]
    /\ Goto(r, "loop")

\* Mutant: toxKill is called before the callbacks.
CloseToxKillFirst ==
    /\ pc["client"] = "idle"
    /\ Tox \in held
    /\ core' = AfterKill(core)
    /\ EnterToxClose("client")
    /\ UNCHANGED <<platform, javaVars, av, target, calls, failed>>

CloseTox ==
    /\ pc["client"] = "idle"
    /\ Tox \in held
    /\ EnterToxClose("client")
    /\ UNCHANGED <<platform, javaVars, nativeVars, target, calls, failed>>

HasNext(r) ==
    IF platform = "jdk" THEN cursor[r] # Len(callbacks) ELSE cursor[r] < limit[r]

\* next() throws: close ends before toxKill, a finalizer catches and logs.
LoopThrows(r) ==
    /\ pc[r] = "loop"
    /\ HasNext(r)
    /\ modified[r]
    /\ Goto(r, "idle")
    /\ failed' = IF r = "finalizer" THEN failed \cup {Tox} ELSE failed
    /\ UNCHANGED <<platform, javaVars, nativeVars, target, calls, cursor, limit, modified>>

\* next() returns a callback: an av's close, or the empty one.
LoopCalls(r) ==
    /\ pc[r] = "loop"
    /\ HasNext(r)
    /\ ~modified[r]
    /\ cursor' = [cursor EXCEPT ![r] = @ + 1]
    /\ LET a == callbacks[cursor[r] + 1]
       IN  IF a = NoAv THEN UNCHANGED <<callbacks, onClose, modified, target, calls, pc>>
                       ELSE EnterAvClose(r, a, "loop")
    /\ UNCHANGED <<platform, held, finalized, nativeVars, limit, failed>>

\* Mutant: the finalizer does not go on to toxFinalize.
ToxKillOnly(r) ==
    /\ pc[r] = "loop"
    /\ ~HasNext(r)
    /\ core' = AfterKill(core)
    /\ Goto(r, "idle")
    /\ UNCHANGED <<platform, javaVars, av, target, calls, cursor, limit, modified, failed>>

\* The callbacks are done: toxKill, and in a finalizer toxFinalize.
ToxKill(r) ==
    /\ pc[r] = "loop"
    /\ ~HasNext(r)
    /\ core' = AfterKill(core)
    /\ Goto(r, IF r = "finalizer" THEN "toxfinalize" ELSE "idle")
    /\ UNCHANGED <<platform, javaVars, av, target, calls, cursor, limit, modified, failed>>

-----------------------------------------------------------------------------
(* Garbage collection *)

Drop(o) ==
    /\ o \in held
    /\ held' = held \ {o}
    /\ UNCHANGED <<platform, callbacks, onClose, finalized, nativeVars, threadVars, failed>>

\* An av refers to its Tox, and a Tox to the avs whose close is registered.
ToxUnreachable == held = {} /\ pc["client"] = "idle"
AvUnreachable(a) ==
    /\ a \notin held
    /\ \A r \in Runners : target[r] # a
    /\ a \in Range(callbacks) => ToxUnreachable

FinalizeTox ==
    /\ pc["finalizer"] = "idle"
    /\ core # "none" /\ Tox \notin finalized /\ ToxUnreachable
    /\ finalized' = finalized \cup {Tox}
    /\ EnterToxClose("finalizer")
    /\ UNCHANGED <<platform, callbacks, onClose, held, nativeVars, target, calls, failed>>

ToxFinalize ==
    /\ pc["finalizer"] = "toxfinalize"
    /\ core' = AfterFinalize(core)
    /\ Goto("finalizer", "idle")
    /\ UNCHANGED <<platform, javaVars, av, target, calls, cursor, limit, modified, failed>>

\* Mutant: the finalizer does not check that the instance was killed.
FinalizeAvLive(a) ==
    /\ pc["finalizer"] = "idle"
    /\ av[a] # "none" /\ a \notin finalized /\ AvUnreachable(a)
    /\ finalized' = finalized \cup {a}
    /\ av' = [av EXCEPT ![a] = IF @ \in {"live", "killed"} THEN "freed" ELSE @]
    /\ UNCHANGED <<platform, callbacks, onClose, held, core, threadVars, failed>>

\* ToxAvImpl.finalize does not close: toxavFinalize throws for a live instance.
FinalizeAv(a) ==
    /\ pc["finalizer"] = "idle"
    /\ av[a] # "none" /\ a \notin finalized /\ AvUnreachable(a)
    /\ finalized' = finalized \cup {a}
    /\ av' = [av EXCEPT ![a] = AfterFinalize(@)]
    /\ failed' = IF av[a] = "live" THEN failed \cup {a} ELSE failed
    /\ UNCHANGED <<platform, callbacks, onClose, held, core, threadVars>>

-----------------------------------------------------------------------------

LifeNext ==
    \/ NewTox \/ NewAvReturns \/ CloseTox \/ FinalizeTox \/ ToxFinalize
    \/ \E a \in Avs : NewAv(a) \/ CloseAv(a) \/ FinalizeAv(a)
    \/ \E o \in Avs \cup {Tox} : Drop(o)
    \/ \E r \in Runners : AvKill(r) \/ LoopThrows(r) \/ LoopCalls(r) \/ ToxKill(r)

LifeSpec == LifeInit /\ [][LifeNext]_lifeVars

-----------------------------------------------------------------------------
(* Properties *)

\* The types of the variables: the list of callbacks holds avs and empty slots.
LifeTypeOK ==
    /\ callbacks \in Seq(Avs \cup {NoAv})
    /\ onClose \in [Avs -> Nat]
    /\ core \in NativeStates
    /\ av \in [Avs -> NativeStates]
    /\ held \subseteq Avs \cup {Tox}
    /\ finalized \subseteq Avs \cup {Tox}
    /\ pc \in [Runners -> Locations]
    /\ target \in [Runners -> Avs \cup {NoAv}]
    /\ calls \in [Runners -> {"none", "loop"}]
    /\ cursor \in [Runners -> Nat]
    /\ limit \in [Runners -> Nat]
    /\ modified \in [Runners -> BOOLEAN]
    /\ platform \in Platforms
    /\ failed \subseteq Avs \cup {Tox}

\* Every id that is not consumed names the slot of its own callback, and every
\* slot in use has such an id, whatever was added and removed in between: remove
\* never takes away another handler, although its comment warns that it may.
IdsSound ==
    /\ \A a \in Avs : onClose[a] # Invalid =>
           onClose[a] \in DOMAIN callbacks /\ callbacks[onClose[a]] = a
    /\ \A i \in DOMAIN callbacks : callbacks[i] # NoAv => onClose[callbacks[i]] = i

\* A ToxAV never outlives its Tox: toxKill comes after the toxavKill of every av,
\* also when several were made, some closed before, and close was called twice.
AvBeforeCore == \A a \in Avs : av[a] = "live" => core = "live"

\* A number that may already belong to somebody else is not used: nobody closes,
\* holds or can reach through the callbacks an av whose number is free.
NoStaleNumber ==
    /\ \A a \in Avs : av[a] = "freed" =>
           /\ a \notin held /\ a \notin Range(callbacks)
           /\ \A r \in Runners : pc[r] = "avkill" => target[r] # a
    /\ core = "freed" => held = {} /\ \A r \in Runners : pc[r] = "idle"

\* Callbacks that unregister themselves change the size of the list that invoke
\* iterates over only when the last one has run: by then every av is closed, so
\* an iterator that throws skips no callback (it still skips toxKill).
ShrinksAtEnd ==
    \A r \in Runners : (pc[r] = "loop" /\ modified[r]) =>
        callbacks = <<>> /\ \A a \in Avs : av[a] # "live"

\* When the finalizer of a ToxCoreImpl is done, its native instance is gone and
\* the number free again, whatever the client forgot to close and however often
\* it closed the rest.  Only an exception in the loop over the callbacks prevents
\* it, which Android's iterator never throws; see ToxFinalizerQuiet for the JDK's.
CoreReclaimed ==
    (Tox \in finalized /\ pc["finalizer"] = "idle") =>
        core \in {"freed", "null"} \/ (platform = "jdk" /\ Tox \in failed)

\* "Exception caught in finalizer; this indicates a serious problem in native
\* code": with a native library that works, the finalizer of ToxCoreImpl catches
\* nothing.  The code breaks this on the JDK: an av that closes itself
\* during Event.invoke shrinks the list that invoke iterates over.
ToxFinalizerQuiet == Tox \notin failed

-----------------------------------------------------------------------------
(* The abstract specification *)

Lifetimes == INSTANCE NativeLifetimes

\* The two classes call the native functions in the order of their lifetimes,
\* whoever closes, drops or finalises what: toxavNew works on a living Tox, toxKill
\* has an effect only when no av is left, and no instance comes back.
RefinesLifetimes == Lifetimes!Spec

=============================================================================
