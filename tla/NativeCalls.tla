----------------------------- MODULE NativeCalls ----------------------------
(***************************************************************************)
(* The native functions of ToxCoreJni, ToxAvJni and ToxCryptoJni: the two  *)
(* instance managers and the call log together (tox4j/ToxInstances.h,      *)
(* ToxCore/*.cpp, ToxAv/*.cpp, ToxCrypto/encryptsave.cpp).                 *)
(*                                                                         *)
(* The three are never locked in one order.  A logged call on an instance  *)
(* takes its manager's mutex, the instance's, and then the log's; toxNew   *)
(* takes the log's mutex and then, in success_func, the manager's; and     *)
(* toxavNew takes the mutexes of the core's manager, of the core's         *)
(* instance, of the log and of the avs' manager.  kill, finalize and the   *)
(* invoke functions do not log.  Callbacks that log during tox_iterate     *)
(* lock a recursive mutex their thread already owns and are left to        *)
(* JniLog.                                                                 *)
(***************************************************************************)
EXTENDS InstanceManager, FiniteSets

CONSTANTS Avs,  \* the identities of the ToxAV objects; Objects are the Tox ones
          Names, MaxSizes, InitialSize, FilterSets, MaxDepth, MaxEntries

\* The assumptions of the avs' manager and of the log, and the functions that log.
ASSUME NativeAssumption ==
    /\ NoObject \notin Avs
    /\ MaxSizes \subseteq Int
    /\ InitialSize \in MaxSizes
    /\ \A F \in FilterSets : F \subseteq Names
    /\ MaxDepth \in Nat
    /\ MaxEntries \in Nat
    /\ {"tox_new", "toxav_new", "tox_call", "tox_crypto"} \subseteq Names

VARIABLES max_size, owner, count, entries, filters, name, written, lpc, stack, taken, dropped,
          avInstances, avLocks, avFreelist, avMutex, avAlive, avCreated,
          avPc, avOp, avNum, avObj, avThrown,
          job        \* what the native function of each thread has yet to do

Log == INSTANCE JniLog

\* av::instances; core::instances is the manager this module extends.
Av == INSTANCE InstanceManager WITH
    Objects <- Avs, instances <- avInstances, locks <- avLocks, freelist <- avFreelist,
    mutex <- avMutex, alive <- avAlive, created <- avCreated, pc <- avPc, op <- avOp,
    num <- avNum, obj <- avObj, thrown <- avThrown

logVars == <<max_size, owner, count, entries, filters, name, written, lpc, stack, taken, dropped>>
avVars == <<avInstances, avLocks, avFreelist, avMutex, avAlive, avCreated,
            avPc, avOp, avNum, avObj, avThrown>>
nativeVars == <<vars, avVars, logVars, job>>

\* "none": in no native function.  "new": tox_new runs.  "failed": it returned an
\* error.  "add": it made an object and add is called.  "crypto": a function of
\* ToxCrypto runs.  "logged": with_instance is called with a func that logs, and
\* "avnew": with the func of toxavNew.  "toxav": toxav_new runs in it.  "avadd": it
\* made an av and add is called.  "body": a func has built its LogEntry and runs.
\* "end": its LogEntry is gone.  "quiet": a function that does not log.
Jobs == {"none", "new", "failed", "add", "crypto", "logged", "avnew", "toxav", "avadd",
         "body", "end", "quiet"}

Do(t, j) == job' = [job EXCEPT ![t] = j]

NativeInit ==
    /\ Init
    /\ Av!Init
    /\ Log!LogInit
    /\ job = [t \in Threads |-> "none"]

\* Bound: calls that may add an entry begin while there is room for theirs.
WillLog == {t \in Threads : job[t] \in {"logged", "avnew"} \/ lpc[t][1] = "want"}
RoomToLog == Len(name) + Cardinality(WillLog) < MaxEntries

Free(t) == job[t] = "none" /\ lpc[t] = <<"run">>

-----------------------------------------------------------------------------
(* toxNew *)

\* with_error_handling builds the LogEntry before it calls tox_new.
ToxNew(t) ==
    /\ Free(t) /\ RoomToLog
    /\ Log!BeginEntry(t, "tox_new")
    /\ Do(t, "new")
    /\ UNCHANGED <<vars, avVars>>

\* tox_new returned an error code: an exception is thrown.
NewFails(t) ==
    /\ job[t] = "new"
    /\ Log!PrintResult(t)
    /\ Do(t, "failed")
    /\ UNCHANGED <<vars, avVars>>

\* tox_new returned an object; success_func sets up its events and calls add
\* while the LogEntry is alive.
NewSucceeds(t, o) ==
    /\ job[t] = "new"
    /\ Log!PrintResult(t)
    /\ CallAdd(t, o)
    /\ Do(t, "add")
    /\ UNCHANGED avVars

\* toxNew returns: the LogEntry goes away after success_func is done.
NewReturns(t) ==
    /\ \/ job[t] = "add" /\ pc[t] = "idle"
       \/ job[t] = "failed"
    /\ Log!EndEntry(t)
    /\ Do(t, "none")
    /\ UNCHANGED <<vars, avVars>>

-----------------------------------------------------------------------------
(* ToxCrypto *)

\* toxGetSalt, toxPassKeyDerive, toxPassKeyDeriveWithSalt, toxPassKeyEncrypt and
\* toxPassKeyDecrypt log without an instance.
CallCrypto(t) ==
    /\ Free(t) /\ RoomToLog
    /\ Log!BeginEntry(t, "tox_crypto")
    /\ Do(t, "crypto")
    /\ UNCHANGED <<vars, avVars>>

CryptoResult(t) ==
    /\ job[t] = "crypto"
    /\ Log!PrintResult(t)
    /\ UNCHANGED <<vars, avVars, job>>

CryptoReturns(t) ==
    /\ job[t] = "crypto"
    /\ Log!EndEntry(t)
    /\ Do(t, "none")
    /\ UNCHANGED <<vars, avVars>>

-----------------------------------------------------------------------------
(* toxavNew *)

ToxavNew(t, n) ==
    /\ Free(t) /\ RoomToLog
    /\ CallWithInstance(t, n)
    /\ Do(t, "avnew")
    /\ UNCHANGED <<avVars, logVars>>

\* func has the core's instance locked, and with_error_handling builds a LogEntry.
ToxavNewLogs(t) ==
    /\ job[t] = "avnew"
    /\ pc[t] = "func"
    /\ Log!BeginEntry(t, "toxav_new")
    /\ Do(t, "toxav")
    /\ UNCHANGED <<vars, avVars>>

\* toxav_new returned an error code: what is left is the end of a logged func.
ToxavNewFails(t) ==
    /\ job[t] = "toxav"
    /\ Log!PrintResult(t)
    /\ Do(t, "body")
    /\ UNCHANGED <<vars, avVars>>

\* Mutant: the core's instance is unlocked before add is called.
ToxavNewUnlocks(t, a) ==
    /\ job[t] = "toxav"
    /\ Log!PrintResult(t)
    /\ Av!CallAdd(t, a)
    /\ Return(t)
    /\ Do(t, "avadd")

\* toxav_new returned an av; success_func calls add of the avs' manager with the
\* core's instance still locked and the LogEntry alive.
ToxavNewSucceeds(t, a) ==
    /\ job[t] = "toxav"
    /\ Log!PrintResult(t)
    /\ Av!CallAdd(t, a)
    /\ Do(t, "avadd")
    /\ UNCHANGED vars

\* add has returned the number of the av.
ToxavNewUnlogs(t) ==
    /\ job[t] = "avadd"
    /\ avPc[t] = "idle"
    /\ Log!EndEntry(t)
    /\ Do(t, "end")
    /\ UNCHANGED <<vars, avVars>>

-----------------------------------------------------------------------------
(* Functions on an instance *)

\* with_instance_err, with_instance_ign, with_instance_noerr and toxIterate.
CallLogged(t, n) ==
    /\ Free(t) /\ RoomToLog
    /\ CallWithInstance(t, n)
    /\ Do(t, "logged")
    /\ UNCHANGED <<avVars, logVars>>

\* toxKill, toxFinalize and the invoke functions.
CallQuiet(t, n) ==
    /\ Free(t)
    /\ CallKill(t, n) \/ CallFinalize(t, n) \/ CallWithInstance(t, n)
    /\ Do(t, "quiet")
    /\ UNCHANGED <<avVars, logVars>>

\* The functions of ToxAv: toxavIterate, toxavCall and their like.
AvCallLogged(t, n) ==
    /\ Free(t) /\ RoomToLog
    /\ Av!CallWithInstance(t, n)
    /\ Do(t, "logged")
    /\ UNCHANGED <<vars, logVars>>

\* toxavKill, toxavFinalize and the invoke functions of ToxAv.
AvCallQuiet(t, n) ==
    /\ Free(t)
    /\ Av!CallKill(t, n) \/ Av!CallFinalize(t, n) \/ Av!CallWithInstance(t, n)
    /\ Do(t, "quiet")
    /\ UNCHANGED <<vars, logVars>>

\* func has the instance locked and builds its InstanceLogEntry.
FuncLogs(t) ==
    /\ job[t] = "logged"
    /\ pc[t] = "func" \/ avPc[t] = "func"
    /\ Log!BeginEntry(t, "tox_call")
    /\ Do(t, "body")
    /\ UNCHANGED <<vars, avVars>>

FuncResult(t) ==
    /\ job[t] = "body"
    /\ Log!PrintResult(t)
    /\ UNCHANGED <<vars, avVars, job>>

FuncUnlogs(t) ==
    /\ job[t] = "body"
    /\ Log!EndEntry(t)
    /\ Do(t, "end")
    /\ UNCHANGED <<vars, avVars>>

\* with_instance returns from func: the entry of a logged one is gone.
FuncReturns(t) ==
    /\ job[t] \in {"quiet", "end"}
    /\ \/ Return(t) /\ UNCHANGED avVars
       \/ Av!Return(t) /\ UNCHANGED vars
    /\ Do(t, "none")
    /\ UNCHANGED logVars

\* The other steps of the managers, and the end of the calls they reject.
ManagerStep(t) ==
    /\ Step(t) /\ pc[t] # "func"
    /\ job' = IF pc'[t] = "idle" /\ job[t] # "add" THEN [job EXCEPT ![t] = "none"] ELSE job
    /\ UNCHANGED <<avVars, logVars>>

AvManagerStep(t) ==
    /\ Av!Step(t) /\ avPc[t] # "func"
    /\ job' = IF avPc'[t] = "idle" /\ job[t] # "avadd" THEN [job EXCEPT ![t] = "none"] ELSE job
    /\ UNCHANGED <<vars, logVars>>

-----------------------------------------------------------------------------
(* The log *)

\* new_entry, in whatever function built the LogEntry.
EntryStep(t) ==
    /\ Log!AddEntry(t) \/ Log!LogFull(t)
    /\ UNCHANGED <<vars, avVars, job>>

\* ToxJniLog(), the setter of maxSize and filterNot.
ToxJniLog(t) ==
    /\ job[t] = "none"
    /\ \/ Log!LastLog(t) \/ Log!Clear(t)
       \/ \E n \in MaxSizes : Log!SetMaxSize(t, n)
       \/ \E F \in FilterSets : Log!SetFilter(t, F)
    /\ UNCHANGED <<vars, avVars, job>>

NativeNext ==
    \E t \in Threads :
        \/ ToxNew(t) \/ NewFails(t) \/ NewReturns(t)
        \/ \E o \in Objects : NewSucceeds(t, o)
        \/ CallCrypto(t) \/ CryptoResult(t) \/ CryptoReturns(t)
        \/ \E n \in Numbers :
               \/ ToxavNew(t, n) \/ CallLogged(t, n) \/ CallQuiet(t, n)
               \/ AvCallLogged(t, n) \/ AvCallQuiet(t, n)
        \/ ToxavNewLogs(t) \/ ToxavNewFails(t) \/ ToxavNewUnlogs(t)
        \/ \E a \in Avs : ToxavNewSucceeds(t, a)
        \/ FuncLogs(t) \/ FuncResult(t) \/ FuncUnlogs(t) \/ FuncReturns(t)
        \/ ManagerStep(t) \/ AvManagerStep(t) \/ EntryStep(t) \/ ToxJniLog(t)

NativeSpec == NativeInit /\ [][NativeNext]_nativeVars

-----------------------------------------------------------------------------
(* Properties *)

\* The threads that own a mutex t waits for.
WaitsFor(t) ==
    {u \in Threads : \/ pc[t] = "lock" /\ mutex = u
                     \/ pc[t] = "wait" /\ locks[num[t]] = u
                     \/ avPc[t] = "lock" /\ avMutex = u
                     \/ avPc[t] = "wait" /\ avLocks[avNum[t]] = u
                     \/ lpc[t][1] \in {"want", "clear"} /\ owner = u /\ u # t}

\* No group of threads wait for each other: every blocked thread waits for one
\* that can go on.  The mutexes of the two managers, of the instances and of the
\* log are taken in different orders by toxNew, by toxavNew and by the calls on an
\* instance.
NoCircularWait ==
    ~ \E S \in SUBSET Threads : S # {} /\ \A t \in S : WaitsFor(t) \cap S # {}

\* A LogEntry outlives no call: a thread that is in no native function has no
\* entry and owns no mutex, so an idle thread never blocks another one.
IdleOwnsNothing ==
    \A t \in Threads : job[t] = "none" =>
        /\ stack[t] = <<>> /\ owner # t
        /\ mutex # t /\ \A n \in DOMAIN locks : locks[n] # t
        /\ avMutex # t /\ \A n \in DOMAIN avLocks : avLocks[n] # t

\* The core an av is made for cannot go away before the av has its number: while
\* toxavNew creates and adds it, the core is alive and nobody else has it locked,
\* although the avs' manager is locked in between.
CoreOutlivesNew ==
    \A t \in Threads : job[t] \in {"toxav", "avadd"} =>
        /\ pc[t] = "func" /\ obj[t] \in alive
        /\ locks[num[t]] = t

=============================================================================
