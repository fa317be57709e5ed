-------------------------- MODULE NativeCallsProofs -------------------------
(***************************************************************************)
(* The native functions use the managers and the log as the modules of     *)
(* these say, so all that is proved of the parts holds of the whole; and   *)
(* the safety properties of the whole that need no bound on the threads.   *)
(*                                                                         *)
(* A step of a native function is a step of each part or leaves it alone.  *)
(* NativeInv is the inductive invariants of the three parts and JobSound,  *)
(* which says where a thread is in each of them at every point of a native *)
(* function.                                                               *)
(***************************************************************************)
EXTENDS NativeCalls, InstanceManagerProofs

\* What is proved of the avs' manager and of the log.
AvP == INSTANCE InstanceManagerProofs WITH
    Objects <- Avs, instances <- avInstances, locks <- avLocks, freelist <- avFreelist,
    mutex <- avMutex, alive <- avAlive, created <- avCreated, pc <- avPc, op <- avOp,
    num <- avNum, obj <- avObj, thrown <- avThrown
LogP == INSTANCE JniLogProofs

\* No LogEntry: the thread is outside of the log's constructor, and none is alive.
NoLogEntry(t) == stack[t] = <<>> /\ lpc[t][1] # "want"

\* One LogEntry: in its constructor, or alive.
OneLogEntry(t) ==
    \/ lpc[t][1] = "want" /\ stack[t] = <<>>
    \/ lpc[t] = <<"run">> /\ Len(stack[t]) = 1

\* A thread is in a call of one manager and not of the other one.
InOneCall(t) == (pc[t] = "idle") # (avPc[t] = "idle")

\* It is in the func of with_instance.
InOneFunc(t) == \/ pc[t] = "func" /\ avPc[t] = "idle"
                \/ avPc[t] = "func" /\ pc[t] = "idle"

\* What each part of a native function says of the managers and of the log.
JobFits(t) ==
    /\ job[t] \in {"none", "new", "failed", "crypto"} => pc[t] = "idle" /\ avPc[t] = "idle"
    /\ job[t] = "add" => /\ avPc[t] = "idle"
                         /\ pc[t] \in {"idle", "lock", "locked"} /\ op[t] = "add"
    /\ job[t] = "avnew" => pc[t] # "idle" /\ avPc[t] = "idle"
    /\ job[t] = "toxav" => pc[t] = "func" /\ avPc[t] = "idle"
    /\ job[t] = "avadd" => /\ pc[t] = "func"
                           /\ avPc[t] \in {"idle", "lock", "locked"} /\ avOp[t] = "add"
    /\ job[t] \in {"logged", "quiet"} => InOneCall(t)
    /\ job[t] \in {"body", "end"} => InOneFunc(t)
    /\ job[t] \in {"none", "logged", "avnew", "end", "quiet"} => NoLogEntry(t)
    /\ job[t] \in {"failed", "add", "avadd", "logged", "avnew", "end", "quiet"} =>
           lpc[t] = <<"run">>
    /\ job[t] \in {"new", "failed", "add", "crypto", "toxav", "avadd", "body"} => OneLogEntry(t)

JobSound == \A t \in Threads : JobFits(t)

NativeInv ==
    /\ InductiveInv
    /\ AvP!InductiveInv
    /\ LogP!LogInv
    /\ job \in [Threads -> Jobs]
    /\ JobSound

-----------------------------------------------------------------------------
(* The instances of the parts *)

\* Their assumptions hold.
LEMMA PartsAssumptions ==
    /\ Numbers \subseteq Int /\ NoThread \notin Threads /\ NoObject \notin Avs
    /\ MaxSizes \subseteq Int /\ InitialSize \in MaxSizes
    /\ (\A F \in FilterSets : F \subseteq Names) /\ MaxDepth \in Nat /\ MaxEntries \in Nat
  BY ConstantsAssumption, NativeAssumption

\* The manager of the avs and the log begin as their modules say, and go on so.
LEMMA AvInitSame == Av!Init => AvP!Init
  BY DEF Av!Init, AvP!Init

LEMMA AvStartSame ==
    ASSUME NEW t \in Threads, Av!Start(t)
    PROVE  AvP!Start(t)
  BY DEF Av!Start, AvP!Start, Av!CallAdd, AvP!CallAdd, Av!CallKill, AvP!CallKill,
         Av!CallFinalize, AvP!CallFinalize, Av!CallWithInstance, AvP!CallWithInstance,
         Av!Call, AvP!Call, Av!Enter, AvP!Enter,
         Av!managerVars, AvP!managerVars, Av!objectVars, AvP!objectVars

LEMMA AvStepSame ==
    ASSUME NEW t \in Threads, Av!Step(t)
    PROVE  AvP!Step(t)
  BY DEF Av!Step, AvP!Step, Av!LockManager, AvP!LockManager, Av!Rejected, AvP!Rejected,
         Av!Accepted, AvP!Accepted, Av!AddReuse, AvP!AddReuse, Av!AddAppend, AvP!AddAppend,
         Av!KillTake, AvP!KillTake, Av!KillDone, AvP!KillDone,
         Av!FinalizeLeaked, AvP!FinalizeLeaked, Av!FinalizeFree, AvP!FinalizeFree,
         Av!Get, AvP!Get, Av!Killed, AvP!Killed, Av!Return, AvP!Return, Av!Leave, AvP!Leave,
         Av!CheckInstanceNumber, AvP!CheckInstanceNumber, Av!Range, AvP!Range,
         Av!CheckException, AvP!CheckException,
         Av!managerVars, AvP!managerVars, Av!objectVars, AvP!objectVars

LEMMA AvNextSame ==
    ASSUME [Av!Next]_(Av!vars)
    PROVE  [AvP!Next]_(AvP!vars)
  <1>1. Av!vars = AvP!vars /\ Av!vars' = AvP!vars'
    BY DEF Av!vars, AvP!vars, Av!managerVars, AvP!managerVars, Av!objectVars, AvP!objectVars,
           Av!threadVars, AvP!threadVars
  <1>2. Av!Next => AvP!Next
    BY AvStartSame, AvStepSame DEF Av!Next, AvP!Next
  <1> QED
    BY <1>1, <1>2

LEMMA AvSame ==
    ASSUME AvP!InductiveInv, [Av!Next]_(Av!vars)
    PROVE  AvP!InductiveInv'
  <1>1. AvP!InductiveInv /\ [AvP!Next]_(AvP!vars) => AvP!InductiveInv'
    BY PartsAssumptions, AvP!NextInductive
  <1> QED
    BY <1>1, AvNextSame

LEMMA LogInitSame == Log!LogInit => LogP!LogInit
  BY DEF Log!LogInit, LogP!LogInit

LEMMA LogEntrySame ==
    ASSUME NEW t \in Threads
    PROVE  /\ \A f \in Names : Log!BeginEntry(t, f) => LogP!BeginEntry(t, f)
           /\ Log!AddEntry(t) => LogP!AddEntry(t)
           /\ Log!LogFull(t) => LogP!LogFull(t)
           /\ Log!PrintResult(t) => LogP!PrintResult(t)
           /\ Log!EndEntry(t) => LogP!EndEntry(t)
  <1>1. ASSUME NEW f \in Names, Log!BeginEntry(t, f)
        PROVE  LogP!BeginEntry(t, f)
    <2>1. LogP!Running(t)
      BY <1>1 DEF Log!BeginEntry, Log!Running, LogP!Running, Log!Top, LogP!Top
    <2>2. IF max_size = 0
          THEN LogP!Push(t, LogP!NoEntry) /\ UNCHANGED lpc
          ELSE lpc' = [lpc EXCEPT ![t] = <<"want", f>>] /\ UNCHANGED stack
      BY <1>1 DEF Log!BeginEntry, Log!Push, LogP!Push, Log!NoEntry, LogP!NoEntry
    <2> QED
      BY <1>1, <2>1, <2>2 DEF Log!BeginEntry, LogP!BeginEntry, Log!Cardinality, LogP!Cardinality
  <1>2. Log!AddEntry(t) => LogP!AddEntry(t)
    BY DEF Log!AddEntry, LogP!AddEntry, Log!CanLock, LogP!CanLock, Log!Push, LogP!Push
  <1>3. Log!LogFull(t) => LogP!LogFull(t)
    BY DEF Log!LogFull, LogP!LogFull, Log!CanLock, LogP!CanLock, Log!Push, LogP!Push,
           Log!NoEntry, LogP!NoEntry
  <1>4. Log!PrintResult(t) => LogP!PrintResult(t)
    BY DEF Log!PrintResult, LogP!PrintResult, Log!Running, LogP!Running, Log!Top, LogP!Top,
           Log!NoEntry, LogP!NoEntry
  <1>5. Log!EndEntry(t) => LogP!EndEntry(t)
    BY DEF Log!EndEntry, LogP!EndEntry, Log!Top, LogP!Top, Log!NoEntry, LogP!NoEntry,
           Log!DeleteEntry, LogP!DeleteEntry, Log!RemoveAt, LogP!RemoveAt,
           Log!Release, LogP!Release, Log!Unlock, LogP!Unlock
  <1> QED
    BY <1>1, <1>2, <1>3, <1>4, <1>5

LEMMA LogSame ==
    ASSUME LogP!LogInv, [Log!LogNext]_(Log!logVars)
    PROVE  LogP!LogInv'
  <1>1. [LogP!LogNext]_(LogP!logVars)
    <2>1. Log!logVars = LogP!logVars /\ Log!logVars' = LogP!logVars'
      BY DEF Log!logVars, LogP!logVars
    <2>2. Log!LogNext => LogP!LogNext
      <3> SUFFICES ASSUME Log!LogNext PROVE LogP!LogNext
        OBVIOUS
      <3>1. PICK t \in Threads :
                \/ \E f \in Names : Log!BeginEntry(t, f)
                \/ Log!AddEntry(t) \/ Log!LogFull(t)
                \/ Log!PrintResult(t) \/ Log!EndEntry(t)
                \/ Log!LastLog(t) \/ Log!Clear(t)
                \/ \E n \in MaxSizes : Log!SetMaxSize(t, n)
                \/ \E F \in FilterSets : Log!SetFilter(t, F)
        BY DEF Log!LogNext
      <3>2. Log!LastLog(t) => LogP!LastLog(t)
        BY DEF Log!LastLog, LogP!LastLog, Log!CanLock, LogP!CanLock
      <3>3. Log!Clear(t) => LogP!Clear(t)
        BY DEF Log!Clear, LogP!Clear, Log!CanLock, LogP!CanLock
      <3>4. \A n \in MaxSizes : Log!SetMaxSize(t, n) => LogP!SetMaxSize(t, n)
        BY DEF Log!SetMaxSize, LogP!SetMaxSize
      <3>5. \A F \in FilterSets : Log!SetFilter(t, F) => LogP!SetFilter(t, F)
        BY DEF Log!SetFilter, LogP!SetFilter, Log!CanLock, LogP!CanLock
      <3> QED
        BY <3>1, <3>2, <3>3, <3>4, <3>5, LogEntrySame DEF LogP!LogNext
    <2> QED
      BY <2>1, <2>2
  <1>2. LogP!LogInv /\ [LogP!LogNext]_(LogP!logVars) => LogP!LogInv'
    BY PartsAssumptions, LogP!LogNextInductive
  <1> QED
    BY <1>1, <1>2

-----------------------------------------------------------------------------
(* The composition *)

\* The steps of a native function, thread by thread.
NativeStep(t) ==
    \/ ToxNew(t) \/ NewFails(t) \/ NewReturns(t)
    \/ \E o \in Objects : NewSucceeds(t, o)
    \/ CallCrypto(t) \/ CryptoResult(t) \/ CryptoReturns(t)
    \/ \E n \in Numbers :
           \/ ToxavNew(t, n) \/ CallLogged(t, n) \/ CallQuiet(t, n)
           \/ AvCallLogged(t, n) \/ AvCallQuiet(t, n)
    \/ ToxavNewLogs(t) \/ ToxavNewFails(t) \/ ToxavNewUnlogs(t)
    \/ \E a \in Avs : ToxavNewSucceeds(t, a)
    \/ FuncLogs(t) \/ FuncResult(t) \/ FuncUnlogs(t) \/ FuncReturns(t)
    \/ ManagerStep(t) \/ AvManagerStep(t) \/ EntryStep(t) \/ ToxJniLog(t)

\* What a step does to the core's manager.
LEMMA CorePart ==
    ASSUME NEW t \in Threads, NativeStep(t)
    PROVE  UNCHANGED vars \/ Start(t) \/ Step(t)
  BY DEF NativeStep, ToxNew, NewFails, NewReturns, NewSucceeds, CallCrypto, CryptoResult,
         CryptoReturns, ToxavNew, CallLogged, CallQuiet, AvCallLogged, AvCallQuiet, ToxavNewLogs,
         ToxavNewFails, ToxavNewUnlogs, ToxavNewSucceeds, FuncLogs, FuncResult, FuncUnlogs,
         FuncReturns, ManagerStep, AvManagerStep, EntryStep, ToxJniLog, Start, Step

\* To the avs' manager.
LEMMA AvPart ==
    ASSUME NEW t \in Threads, NativeStep(t)
    PROVE  UNCHANGED avVars \/ Av!Start(t) \/ Av!Step(t)
  BY DEF NativeStep, ToxNew, NewFails, NewReturns, NewSucceeds, CallCrypto, CryptoResult,
         CryptoReturns, ToxavNew, CallLogged, CallQuiet, AvCallLogged, AvCallQuiet, ToxavNewLogs,
         ToxavNewFails, ToxavNewUnlogs, ToxavNewSucceeds, FuncLogs, FuncResult, FuncUnlogs,
         FuncReturns, ManagerStep, AvManagerStep, EntryStep, ToxJniLog, Av!Start, Av!Step

\* To the log.
LEMMA LogPart ==
    ASSUME NEW t \in Threads, NativeStep(t)
    PROVE  UNCHANGED logVars \/ Log!LogNext
  <1>1. {"tox_new", "toxav_new", "tox_call", "tox_crypto"} \subseteq Names
    BY NativeAssumption
  <1>2. \/ UNCHANGED logVars
        \/ \E f \in Names : Log!BeginEntry(t, f)
        \/ Log!AddEntry(t) \/ Log!LogFull(t)
        \/ Log!PrintResult(t) \/ Log!EndEntry(t)
        \/ Log!LastLog(t) \/ Log!Clear(t)
        \/ \E n \in MaxSizes : Log!SetMaxSize(t, n)
        \/ \E F \in FilterSets : Log!SetFilter(t, F)
    BY <1>1 DEF NativeStep, ToxNew, NewFails, NewReturns, NewSucceeds, CallCrypto, CryptoResult,
         CryptoReturns, ToxavNew, CallLogged, CallQuiet, AvCallLogged, AvCallQuiet, ToxavNewLogs,
         ToxavNewFails, ToxavNewUnlogs, ToxavNewSucceeds, FuncLogs, FuncResult, FuncUnlogs,
         FuncReturns, ManagerStep, AvManagerStep, EntryStep, ToxJniLog
  <1> QED
    BY <1>2 DEF Log!LogNext

LEMMA PartsStep ==
    ASSUME [NativeNext]_nativeVars
    PROVE  /\ [Next]_vars
           /\ [Av!Next]_(Av!vars)
           /\ [Log!LogNext]_(Log!logVars)
  <1>1. UNCHANGED avVars => UNCHANGED Av!vars
    BY DEF avVars, Av!vars, Av!managerVars, Av!objectVars, Av!threadVars
  <1>2. UNCHANGED logVars => UNCHANGED Log!logVars
    BY DEF logVars, Log!logVars
  <1>3. CASE UNCHANGED nativeVars
    BY <1>1, <1>2, <1>3 DEF nativeVars
  <1>4. CASE NativeNext
    <2>1. PICK t \in Threads : NativeStep(t)
      BY <1>4 DEF NativeNext, NativeStep
    <2>2. [Next]_vars
      BY <2>1, CorePart DEF Next
    <2>3. [Av!Next]_(Av!vars)
      BY <1>1, <2>1, AvPart DEF Av!Next
    <2>4. [Log!LogNext]_(Log!logVars)
      BY <1>2, <2>1, LogPart
    <2> QED
      BY <2>2, <2>3, <2>4
  <1> QED
    BY <1>3, <1>4

\* The native functions use the two managers and the log as these are specified, in
\* whatever order they lock them: what is proved of each part holds of the whole.
THEOREM NativeImplementsParts == NativeSpec => Spec /\ Av!Spec /\ Log!LogSpec
  <1>1. NativeInit => Init /\ Av!Init /\ Log!LogInit
    BY DEF NativeInit
  <1>2. [NativeNext]_nativeVars =>
            [Next]_vars /\ [Av!Next]_(Av!vars) /\ [Log!LogNext]_(Log!logVars)
    BY PartsStep
  <1> QED
    BY <1>1, <1>2, PTL DEF NativeSpec, Spec, Av!Spec, Log!LogSpec

-----------------------------------------------------------------------------
(* What a step does to a thread *)

\* A thread begins a call of the core's manager, and goes on in it.
LEMMA CoreEnters ==
    ASSUME TypeOK, NEW t \in Threads, NEW operation, NEW n, NEW o, Enter(t, operation, n, o)
    PROVE  /\ pc[t] = "idle" /\ pc'[t] = "lock" /\ op'[t] = operation
           /\ \A u \in Threads \ {t} : pc'[u] = pc[u] /\ op'[u] = op[u]
  BY DEF TypeOK, Enter

LEMMA CoreGoesOn ==
    ASSUME TypeOK, NEW t \in Threads, Step(t)
    PROVE  /\ pc[t] # "idle" /\ op' = op
           /\ \A u \in Threads \ {t} : pc'[u] = pc[u]
           /\ (op[t] = "add" /\ pc[t] \in {"lock", "locked"}) => pc'[t] \in {"idle", "locked"}
           /\ Return(t) => pc[t] = "func" /\ pc'[t] = "idle"
  <1>1. CASE LockManager(t) \/ Accepted(t)
    BY <1>1 DEF TypeOK, LockManager, Accepted, Return, Leave
  <1>2. CASE Rejected(t) \/ AddReuse(t) \/ AddAppend(t) \/ FinalizeLeaked(t) \/ FinalizeFree(t)
    BY <1>2 DEF TypeOK, Rejected, AddReuse, AddAppend, FinalizeLeaked, FinalizeFree, Return, Leave
  <1>3. CASE KillTake(t) \/ KillDone(t)
    BY <1>3 DEF TypeOK, KillTake, KillDone, Return, Leave
  <1>4. CASE Get(t) \/ Killed(t) \/ Return(t)
    BY <1>4 DEF TypeOK, Get, Killed, Return, Leave
  <1> QED
    BY <1>1, <1>2, <1>3, <1>4 DEF Step

\* The same for the avs' manager.
LEMMA AvEnters ==
    ASSUME AvP!TypeOK, NEW t \in Threads, NEW operation, NEW n, NEW o, Av!Enter(t, operation, n, o)
    PROVE  /\ avPc[t] = "idle" /\ avPc'[t] = "lock" /\ avOp'[t] = operation
           /\ \A u \in Threads \ {t} : avPc'[u] = avPc[u] /\ avOp'[u] = avOp[u]
  BY DEF AvP!TypeOK, Av!Enter

LEMMA AvGoesOn ==
    ASSUME AvP!TypeOK, NEW t \in Threads, Av!Step(t)
    PROVE  /\ avPc[t] # "idle" /\ avOp' = avOp
           /\ \A u \in Threads \ {t} : avPc'[u] = avPc[u]
           /\ (avOp[t] = "add" /\ avPc[t] \in {"lock", "locked"}) => avPc'[t] \in {"idle", "locked"}
           /\ Av!Return(t) => avPc[t] = "func" /\ avPc'[t] = "idle"
  <1>1. CASE Av!LockManager(t) \/ Av!Accepted(t)
    BY <1>1 DEF AvP!TypeOK, Av!LockManager, Av!Accepted, Av!Return, Av!Leave
  <1>2. CASE \/ Av!Rejected(t) \/ Av!AddReuse(t) \/ Av!AddAppend(t)
             \/ Av!FinalizeLeaked(t) \/ Av!FinalizeFree(t)
    BY <1>2 DEF AvP!TypeOK, Av!Rejected, Av!AddReuse, Av!AddAppend, Av!FinalizeLeaked,
                Av!FinalizeFree, Av!Return, Av!Leave
  <1>3. CASE Av!KillTake(t) \/ Av!KillDone(t)
    BY <1>3 DEF AvP!TypeOK, Av!KillTake, Av!KillDone, Av!Return, Av!Leave
  <1>4. CASE Av!Get(t) \/ Av!Killed(t) \/ Av!Return(t)
    BY <1>4 DEF AvP!TypeOK, Av!Get, Av!Killed, Av!Return, Av!Leave
  <1> QED
    BY <1>1, <1>2, <1>3, <1>4 DEF Av!Step

\* The LogEntry objects of the other threads are left alone.
OthersLogs(t) == \A u \in Threads \ {t} : lpc'[u] = lpc[u] /\ stack'[u] = stack[u]

LEMMA LogVariables ==
    ASSUME LogP!LogInv
    PROVE  /\ lpc \in [Threads -> LogP!Steps]
           /\ stack \in [Threads -> Seq(LogP!Frame)]
  BY DEF LogP!LogInv, LogP!LogTypeOK

\* A LogEntry is built ...
LEMMA EntryBegins ==
    ASSUME LogP!LogInv, NEW t \in Threads, NEW f, Log!BeginEntry(t, f), stack[t] = <<>>
    PROVE  OthersLogs(t) /\ OneLogEntry(t)'
  <1>1. lpc \in [Threads -> LogP!Steps] /\ stack \in [Threads -> Seq(LogP!Frame)]
    BY LogVariables
  <1>2. CASE max_size = 0
    <2> DEFINE frame == [entry |-> Log!NoEntry, returned |-> FALSE]
    <2>1. stack' = [stack EXCEPT ![t] = Append(@, frame)] /\ lpc' = lpc /\ lpc[t] = <<"run">>
      BY <1>2 DEF Log!BeginEntry, Log!Push, Log!Running
    <2>2. frame \in LogP!Frame
      BY DEF LogP!Frame, Log!NoEntry
    <2> HIDE DEF frame
    <2>3. stack'[t] = Append(<<>>, frame)
      BY <1>1, <2>1
    <2>4. Len(stack'[t]) = 1
      BY <2>2, <2>3
    <2> QED
      BY <1>1, <2>1, <2>4 DEF OthersLogs, OneLogEntry
  <1>3. CASE max_size # 0
    <2>1. lpc' = [lpc EXCEPT ![t] = <<"want", f>>] /\ stack' = stack
      BY <1>3 DEF Log!BeginEntry
    <2> QED
      BY <1>1, <2>1 DEF OthersLogs, OneLogEntry
  <1> QED
    BY <1>2, <1>3

\* ... added to the log or not ...
LEMMA EntryAdded ==
    ASSUME LogP!LogInv, NEW t \in Threads, Log!AddEntry(t) \/ Log!LogFull(t), OneLogEntry(t)
    PROVE  OthersLogs(t) /\ OneLogEntry(t)' /\ lpc[t][1] = "want"
  <1>1. lpc \in [Threads -> LogP!Steps] /\ stack \in [Threads -> Seq(LogP!Frame)]
    BY LogVariables
  <1>2. PICK e : /\ stack' = [stack EXCEPT ![t] = Append(@, [entry |-> e, returned |-> FALSE])]
                 /\ lpc' = [lpc EXCEPT ![t] = <<"run">>]
                 /\ lpc[t][1] = "want"
    BY DEF Log!AddEntry, Log!LogFull, Log!Push
  <1>3. stack[t] = <<>>
    BY <1>2 DEF OneLogEntry
  <1>4. stack'[t] = Append(<<>>, [entry |-> e, returned |-> FALSE]) /\ lpc'[t] = <<"run">>
    BY <1>1, <1>2, <1>3
  <1>5. Len(stack'[t]) = 1
    BY <1>4
  <1> QED
    BY <1>1, <1>2, <1>4, <1>5 DEF OthersLogs, OneLogEntry

\* ... gets its result ...
LEMMA EntryWritten ==
    ASSUME LogP!LogInv, NEW t \in Threads, Log!PrintResult(t), OneLogEntry(t)
    PROVE  OthersLogs(t) /\ OneLogEntry(t)' /\ lpc'[t] = <<"run">>
  <1>1. lpc \in [Threads -> LogP!Steps] /\ stack \in [Threads -> Seq(LogP!Frame)]
    BY LogVariables
  <1>2. /\ stack' = [stack EXCEPT ![t][Len(stack[t])].returned = TRUE] /\ lpc' = lpc
        /\ lpc[t] = <<"run">> /\ stack[t] # <<>>
    BY DEF Log!PrintResult, Log!Running
  <1>3. Len(stack[t]) = 1
    BY <1>2 DEF OneLogEntry
  <1>4. stack'[t] = [stack[t] EXCEPT ![1] = [stack[t][1] EXCEPT !.returned = TRUE]]
    BY <1>1, <1>2, <1>3
  <1>5. stack[t] \in Seq(LogP!Frame) /\ 1 \in DOMAIN stack[t]
    BY <1>1, <1>3, LenProperties
  <1>6. [stack[t][1] EXCEPT !.returned = TRUE] \in LogP!Frame
    <2>1. stack[t][1] \in LogP!Frame
      BY <1>5, ElementOfSeq, LenProperties
    <2> QED
      BY <2>1 DEF LogP!Frame
  <1>7. Len(stack'[t]) = 1
    BY <1>3, <1>4, <1>5, <1>6, UpdateSeq
  <1> QED
    BY <1>1, <1>2, <1>7 DEF OthersLogs, OneLogEntry

\* ... and goes away.
LEMMA EntryEnds ==
    ASSUME LogP!LogInv, NEW t \in Threads, Log!EndEntry(t), OneLogEntry(t)
    PROVE  OthersLogs(t) /\ NoLogEntry(t)' /\ lpc'[t] = <<"run">>
  <1>1. lpc \in [Threads -> LogP!Steps] /\ stack \in [Threads -> Seq(LogP!Frame)]
    BY LogVariables
  <1>2. /\ stack' = [stack EXCEPT ![t] = SubSeq(@, 1, Len(@) - 1)] /\ lpc' = lpc
        /\ lpc[t] = <<"run">> /\ stack[t] # <<>>
    BY DEF Log!EndEntry
  <1>3. Len(stack[t]) = 1
    BY <1>2 DEF OneLogEntry
  <1>4. stack'[t] = SubSeq(stack[t], 1, 0)
    BY <1>1, <1>2, <1>3
  <1>5. stack'[t] = <<>>
    <2>1. stack[t] \in Seq(LogP!Frame)
      BY <1>1
    <2> QED
      BY <1>4, <2>1
  <1> QED
    BY <1>1, <1>2, <1>5 DEF OthersLogs, NoLogEntry

\* The functions of ToxJniLog build none.
LEMMA NoEntryBuilt ==
    ASSUME LogP!LogInv, NEW t \in Threads, NoLogEntry(t),
           \/ Log!LastLog(t) \/ Log!Clear(t)
           \/ \E n \in MaxSizes : Log!SetMaxSize(t, n)
           \/ \E F \in FilterSets : Log!SetFilter(t, F)
    PROVE  OthersLogs(t) /\ NoLogEntry(t)'
  <1>1. lpc \in [Threads -> LogP!Steps] /\ stack \in [Threads -> Seq(LogP!Frame)]
    BY LogVariables
  <1>2. stack' = stack
    BY DEF Log!LastLog, Log!Clear, Log!SetMaxSize, Log!SetFilter
  <1>3. \/ lpc' = lpc
        \/ lpc' = [lpc EXCEPT ![t] = <<"clear">>]
        \/ lpc' = [lpc EXCEPT ![t] = <<"run">>]
    BY DEF Log!LastLog, Log!Clear, Log!SetMaxSize, Log!SetFilter
  <1>4. /\ \A u \in Threads \ {t} : lpc'[u] = lpc[u]
        /\ lpc'[t] = lpc[t] \/ lpc'[t] = <<"clear">> \/ lpc'[t] = <<"run">>
    BY <1>1, <1>3
  <1>5. <<"clear">>[1] # "want" /\ <<"run">>[1] # "want"
    OBVIOUS
  <1> QED
    BY <1>2, <1>4, <1>5 DEF OthersLogs, NoLogEntry

\* A step of t: where the other threads are in the managers does not change.
OthersCalls(t) ==
    \A u \in Threads \ {t} : /\ pc'[u] = pc[u] /\ op'[u] = op[u]
                             /\ avPc'[u] = avPc[u] /\ avOp'[u] = avOp[u]

\* The next part of the native function of t is j.
Becomes(t, j) ==
    /\ job' \in [Threads -> Jobs]
    /\ job'[t] = j
    /\ \A u \in Threads \ {t} : job'[u] = job[u]

LEMMA DoBecomes ==
    ASSUME NativeInv, NEW t \in Threads, NEW j \in Jobs, Do(t, j)
    PROVE  Becomes(t, j)
  BY DEF NativeInv, Do, Becomes

LEMMA KeepsJob ==
    ASSUME NativeInv, NEW t \in Threads, UNCHANGED job
    PROVE  Becomes(t, job[t])
  BY DEF NativeInv, Becomes

\* It is enough to look at the thread that takes the step.
LEMMA OnlyStepper ==
    ASSUME JobSound, NEW t \in Threads, NEW j, Becomes(t, j), OthersCalls(t), OthersLogs(t),
           JobFits(t)'
    PROVE  job' \in [Threads -> Jobs] /\ JobSound'
  <1>1. ASSUME NEW u \in Threads \ {t} PROVE JobFits(u)'
    <2>1. JobFits(u)
      BY DEF JobSound
    <2>2. /\ job'[u] = job[u] /\ pc'[u] = pc[u] /\ op'[u] = op[u]
          /\ avPc'[u] = avPc[u] /\ avOp'[u] = avOp[u]
          /\ lpc'[u] = lpc[u] /\ stack'[u] = stack[u]
      BY DEF Becomes, OthersCalls, OthersLogs
    <2> QED
      BY <2>1, <2>2 DEF JobFits, InOneCall, InOneFunc, NoLogEntry, OneLogEntry
  <1>2. job' \in [Threads -> Jobs]
    BY DEF Becomes
  <1>3. \A u \in Threads : JobFits(u)'
    BY <1>1
  <1> QED
    BY <1>2, <1>3 DEF JobSound

\* The parts that are left alone.
LEMMA SameCalls ==
    ASSUME NEW t \in Threads, UNCHANGED <<vars, avVars>>
    PROVE  OthersCalls(t) /\ pc' = pc /\ op' = op /\ avPc' = avPc /\ avOp' = avOp
  BY DEF vars, managerVars, objectVars, threadVars, avVars, OthersCalls

LEMMA SameLogs ==
    ASSUME NEW t \in Threads, UNCHANGED logVars
    PROVE  OthersLogs(t) /\ lpc' = lpc /\ stack' = stack
  BY DEF logVars, OthersLogs

\* Where a thread is in the middle of its native function, from the invariant.
LEMMA StepperFits ==
    ASSUME NativeInv, NEW t \in Threads
    PROVE  /\ JobFits(t) /\ JobSound /\ job[t] \in Jobs
           /\ TypeOK /\ AvP!TypeOK /\ LogP!LogInv
  BY DEF NativeInv, JobSound, InductiveInv, AvP!InductiveInv

-----------------------------------------------------------------------------
(* Every step keeps JobSound *)

\* A LogEntry is built.
LEMMA BeginsFit ==
    ASSUME NativeInv, NEW t \in Threads,
           ToxNew(t) \/ CallCrypto(t) \/ ToxavNewLogs(t) \/ FuncLogs(t)
    PROVE  job' \in [Threads -> Jobs] /\ JobSound'
  <1>1. /\ JobFits(t) /\ JobSound /\ job[t] \in Jobs
        /\ TypeOK /\ AvP!TypeOK /\ LogP!LogInv
    BY StepperFits
  <1>2. UNCHANGED <<vars, avVars>>
    BY DEF ToxNew, CallCrypto, ToxavNewLogs, FuncLogs
  <1>3. OthersCalls(t) /\ pc' = pc /\ op' = op /\ avPc' = avPc /\ avOp' = avOp
    BY <1>2, SameCalls
  <1>4. stack[t] = <<>>
    BY <1>1 DEF ToxNew, CallCrypto, ToxavNewLogs, FuncLogs, Free, JobFits, NoLogEntry
  <1>5. \E f : Log!BeginEntry(t, f)
    BY DEF ToxNew, CallCrypto, ToxavNewLogs, FuncLogs
  <1>6. OthersLogs(t) /\ OneLogEntry(t)'
    BY <1>1, <1>4, <1>5, EntryBegins
  <1>7. CASE ToxNew(t) \/ CallCrypto(t)
    <2>1. PICK j \in {"new", "crypto"} : Do(t, j)
      BY <1>7 DEF ToxNew, CallCrypto
    <2>2. Becomes(t, j)
      BY <2>1, DoBecomes DEF Jobs
    <2>3. pc[t] = "idle" /\ avPc[t] = "idle"
      BY <1>1, <1>7 DEF ToxNew, CallCrypto, Free, JobFits
    <2>4. JobFits(t)'
      BY <1>3, <1>6, <2>1, <2>2, <2>3 DEF JobFits, Becomes
    <2> QED
      BY <1>1, <1>3, <1>6, <2>2, <2>4, OnlyStepper
  <1>8. CASE ToxavNewLogs(t)
    <2>1. Becomes(t, "toxav")
      BY <1>8, DoBecomes DEF ToxavNewLogs, Jobs
    <2>2. pc[t] = "func" /\ avPc[t] = "idle"
      BY <1>1, <1>8 DEF ToxavNewLogs, JobFits
    <2>3. JobFits(t)'
      BY <1>3, <1>6, <2>1, <2>2 DEF JobFits, Becomes
    <2> QED
      BY <1>1, <1>3, <1>6, <2>1, <2>3, OnlyStepper
  <1>9. CASE FuncLogs(t)
    <2>1. Becomes(t, "body")
      BY <1>9, DoBecomes DEF FuncLogs, Jobs
    <2>2. InOneFunc(t)
      BY <1>1, <1>9 DEF FuncLogs, JobFits, InOneCall, InOneFunc
    <2>3. JobFits(t)'
      BY <1>3, <1>6, <2>1, <2>2 DEF JobFits, Becomes, InOneFunc
    <2> QED
      BY <1>1, <1>3, <1>6, <2>1, <2>3, OnlyStepper
  <1> QED
    BY <1>7, <1>8, <1>9

\* Its function has returned, and no manager is called.
LEMMA ResultsFit ==
    ASSUME NativeInv, NEW t \in Threads,
           NewFails(t) \/ CryptoResult(t) \/ ToxavNewFails(t) \/ FuncResult(t)
    PROVE  job' \in [Threads -> Jobs] /\ JobSound'
  <1>1. /\ JobFits(t) /\ JobSound /\ job[t] \in Jobs
        /\ TypeOK /\ AvP!TypeOK /\ LogP!LogInv
    BY StepperFits
  <1>2. UNCHANGED <<vars, avVars>> /\ Log!PrintResult(t)
    BY DEF NewFails, CryptoResult, ToxavNewFails, FuncResult
  <1>3. OthersCalls(t) /\ pc' = pc /\ op' = op /\ avPc' = avPc /\ avOp' = avOp
    BY <1>2, SameCalls
  <1>4. OneLogEntry(t)
    BY <1>1 DEF NewFails, CryptoResult, ToxavNewFails, FuncResult, JobFits
  <1>5. OthersLogs(t) /\ OneLogEntry(t)' /\ lpc'[t] = <<"run">>
    BY <1>1, <1>2, <1>4, EntryWritten
  <1>6. CASE NewFails(t)
    <2>1. Becomes(t, "failed")
      BY <1>6, DoBecomes DEF NewFails, Jobs
    <2>2. JobFits(t)'
      BY <1>1, <1>3, <1>5, <1>6, <2>1 DEF NewFails, JobFits, Becomes
    <2> QED
      BY <1>1, <1>3, <1>5, <2>1, <2>2, OnlyStepper
  <1>7. CASE ToxavNewFails(t)
    <2>1. Becomes(t, "body")
      BY <1>7, DoBecomes DEF ToxavNewFails, Jobs
    <2>2. JobFits(t)'
      BY <1>1, <1>3, <1>5, <1>7, <2>1 DEF ToxavNewFails, JobFits, Becomes, InOneFunc
    <2> QED
      BY <1>1, <1>3, <1>5, <2>1, <2>2, OnlyStepper
  <1>8. CASE CryptoResult(t) \/ FuncResult(t)
    <2>1. Becomes(t, job[t])
      BY <1>8, KeepsJob DEF CryptoResult, FuncResult
    <2>2. JobFits(t)'
      BY <1>1, <1>3, <1>5, <1>8, <2>1
         DEF CryptoResult, FuncResult, JobFits, Becomes, InOneFunc
    <2> QED
      BY <1>1, <1>3, <1>5, <2>1, <2>2, OnlyStepper
  <1> QED
    BY <1>6, <1>7, <1>8

\* The LogEntry is gone.
LEMMA EndsFit ==
    ASSUME NativeInv, NEW t \in Threads,
           NewReturns(t) \/ CryptoReturns(t) \/ ToxavNewUnlogs(t) \/ FuncUnlogs(t)
    PROVE  job' \in [Threads -> Jobs] /\ JobSound'
  <1>1. /\ JobFits(t) /\ JobSound /\ job[t] \in Jobs
        /\ TypeOK /\ AvP!TypeOK /\ LogP!LogInv
    BY StepperFits
  <1>2. UNCHANGED <<vars, avVars>> /\ Log!EndEntry(t)
    BY DEF NewReturns, CryptoReturns, ToxavNewUnlogs, FuncUnlogs
  <1>3. OthersCalls(t) /\ pc' = pc /\ op' = op /\ avPc' = avPc /\ avOp' = avOp
    BY <1>2, SameCalls
  <1>4. OneLogEntry(t)
    BY <1>1 DEF NewReturns, CryptoReturns, ToxavNewUnlogs, FuncUnlogs, JobFits
  <1>5. OthersLogs(t) /\ NoLogEntry(t)' /\ lpc'[t] = <<"run">>
    BY <1>1, <1>2, <1>4, EntryEnds
  <1>6. CASE NewReturns(t) \/ CryptoReturns(t)
    <2>1. Becomes(t, "none")
      BY <1>6, DoBecomes DEF NewReturns, CryptoReturns, Jobs
    <2>2. pc[t] = "idle" /\ avPc[t] = "idle"
      BY <1>1, <1>6 DEF NewReturns, CryptoReturns, JobFits
    <2>3. JobFits(t)'
      BY <1>3, <1>5, <2>1, <2>2 DEF JobFits, Becomes
    <2> QED
      BY <1>1, <1>3, <1>5, <2>1, <2>3, OnlyStepper
  <1>7. CASE ToxavNewUnlogs(t) \/ FuncUnlogs(t)
    <2>1. Becomes(t, "end")
      BY <1>7, DoBecomes DEF ToxavNewUnlogs, FuncUnlogs, Jobs
    <2>2. InOneFunc(t)
      BY <1>1, <1>7 DEF ToxavNewUnlogs, FuncUnlogs, JobFits, InOneFunc
    <2>3. JobFits(t)'
      BY <1>3, <1>5, <2>1, <2>2 DEF JobFits, Becomes, InOneFunc
    <2> QED
      BY <1>1, <1>3, <1>5, <2>1, <2>3, OnlyStepper
  <1> QED
    BY <1>6, <1>7

\* tox_new or toxav_new made an object, which is added to its manager.
LEMMA AddsFit ==
    ASSUME NativeInv, NEW t \in Threads,
           \/ \E o \in Objects : NewSucceeds(t, o)
           \/ \E a \in Avs : ToxavNewSucceeds(t, a)
    PROVE  job' \in [Threads -> Jobs] /\ JobSound'
  <1>1. /\ JobFits(t) /\ JobSound /\ job[t] \in Jobs
        /\ TypeOK /\ AvP!TypeOK /\ LogP!LogInv
    BY StepperFits
  <1>2. job[t] \in {"new", "toxav"} /\ Log!PrintResult(t)
    BY DEF NewSucceeds, ToxavNewSucceeds
  <1>3. OneLogEntry(t)
    BY <1>1, <1>2 DEF JobFits
  <1>4. OthersLogs(t) /\ OneLogEntry(t)' /\ lpc'[t] = <<"run">>
    BY <1>1, <1>2, <1>3, EntryWritten
  <1>5. ASSUME NEW o \in Objects, NewSucceeds(t, o)
        PROVE  job' \in [Threads -> Jobs] /\ JobSound'
    <2>1. Becomes(t, "add")
      BY <1>5, DoBecomes DEF NewSucceeds, Jobs
    <2>2. Enter(t, "add", 0, o) /\ UNCHANGED avVars
      BY <1>5 DEF NewSucceeds, CallAdd
    <2>3. /\ pc'[t] = "lock" /\ op'[t] = "add"
          /\ \A u \in Threads \ {t} : pc'[u] = pc[u] /\ op'[u] = op[u]
      BY <1>1, <2>2, CoreEnters
    <2>4. avPc' = avPc /\ avOp' = avOp
      BY <2>2 DEF avVars
    <2>5. OthersCalls(t)
      BY <2>3, <2>4 DEF OthersCalls
    <2>6. avPc[t] = "idle"
      BY <1>1, <1>5 DEF NewSucceeds, JobFits
    <2>7. JobFits(t)'
      BY <1>4, <2>1, <2>3, <2>4, <2>6 DEF JobFits, Becomes
    <2> QED
      BY <1>1, <1>4, <2>1, <2>5, <2>7, OnlyStepper
  <1>6. ASSUME NEW a \in Avs, ToxavNewSucceeds(t, a)
        PROVE  job' \in [Threads -> Jobs] /\ JobSound'
    <2>1. Becomes(t, "avadd")
      BY <1>6, DoBecomes DEF ToxavNewSucceeds, Jobs
    <2>2. Av!Enter(t, "add", 0, a) /\ UNCHANGED vars
      BY <1>6 DEF ToxavNewSucceeds, Av!CallAdd
    <2>3. /\ avPc'[t] = "lock" /\ avOp'[t] = "add"
          /\ \A u \in Threads \ {t} : avPc'[u] = avPc[u] /\ avOp'[u] = avOp[u]
      BY <1>1, <2>2, AvEnters
    <2>4. pc' = pc /\ op' = op
      BY <2>2 DEF vars, threadVars
    <2>5. OthersCalls(t)
      BY <2>3, <2>4 DEF OthersCalls
    <2>6. pc[t] = "func"
      BY <1>1, <1>6 DEF ToxavNewSucceeds, JobFits
    <2>7. JobFits(t)'
      BY <1>4, <2>1, <2>3, <2>4, <2>6 DEF JobFits, Becomes
    <2> QED
      BY <1>1, <1>4, <2>1, <2>5, <2>7, OnlyStepper
  <1> QED
    BY <1>5, <1>6

\* A manager is called for a thread that was in no native function.
LEMMA CallsFit ==
    ASSUME NativeInv, NEW t \in Threads, NEW n \in Numbers,
           \/ ToxavNew(t, n) \/ CallLogged(t, n) \/ CallQuiet(t, n)
           \/ AvCallLogged(t, n) \/ AvCallQuiet(t, n)
    PROVE  job' \in [Threads -> Jobs] /\ JobSound'
  <1>1. /\ JobFits(t) /\ JobSound /\ job[t] \in Jobs
        /\ TypeOK /\ AvP!TypeOK /\ LogP!LogInv
    BY StepperFits
  <1>2. Free(t) /\ UNCHANGED logVars
    BY DEF ToxavNew, CallLogged, CallQuiet, AvCallLogged, AvCallQuiet
  <1>3. OthersLogs(t) /\ lpc' = lpc /\ stack' = stack
    BY <1>2, SameLogs
  <1>4. /\ pc[t] = "idle" /\ avPc[t] = "idle"
        /\ NoLogEntry(t)' /\ lpc'[t] = <<"run">>
    BY <1>1, <1>2, <1>3 DEF Free, JobFits, NoLogEntry
  <1>5. PICK j \in {"avnew", "logged", "quiet"} : Do(t, j)
    BY DEF ToxavNew, CallLogged, CallQuiet, AvCallLogged, AvCallQuiet
  <1>6. Becomes(t, j)
    BY <1>5, DoBecomes DEF Jobs
  <1>7. CASE ToxavNew(t, n) \/ CallLogged(t, n) \/ CallQuiet(t, n)
    <2>1. (\E operation : Enter(t, operation, n, NoObject)) /\ UNCHANGED avVars
      BY <1>7 DEF ToxavNew, CallLogged, CallQuiet, CallKill, CallFinalize, CallWithInstance, Call
    <2>2. /\ pc'[t] = "lock"
          /\ \A u \in Threads \ {t} : pc'[u] = pc[u] /\ op'[u] = op[u]
      BY <1>1, <2>1, CoreEnters
    <2>3. avPc' = avPc /\ avOp' = avOp
      BY <2>1 DEF avVars
    <2>4. OthersCalls(t)
      BY <2>2, <2>3 DEF OthersCalls
    <2>5. JobFits(t)'
      BY <1>4, <1>5, <1>6, <2>2, <2>3 DEF JobFits, Becomes, InOneCall
    <2> QED
      BY <1>1, <1>3, <1>6, <2>4, <2>5, OnlyStepper
  <1>8. CASE AvCallLogged(t, n) \/ AvCallQuiet(t, n)
    <2>1. (\E operation : Av!Enter(t, operation, n, NoObject)) /\ UNCHANGED vars
      BY <1>8 DEF AvCallLogged, AvCallQuiet, Av!CallKill, Av!CallFinalize, Av!CallWithInstance,
                  Av!Call
    <2>2. /\ avPc'[t] = "lock"
          /\ \A u \in Threads \ {t} : avPc'[u] = avPc[u] /\ avOp'[u] = avOp[u]
      BY <1>1, <2>1, AvEnters
    <2>3. pc' = pc /\ op' = op
      BY <2>1 DEF vars, threadVars
    <2>4. OthersCalls(t)
      BY <2>2, <2>3 DEF OthersCalls
    <2>5. job'[t] \in {"logged", "quiet"}
      <3>1. Do(t, "logged") \/ Do(t, "quiet")
        BY <1>8 DEF AvCallLogged, AvCallQuiet
      <3>2. Becomes(t, "logged") \/ Becomes(t, "quiet")
        BY <3>1, DoBecomes DEF Jobs
      <3> QED
        BY <3>2 DEF Becomes
    <2>6. JobFits(t)'
      BY <1>4, <2>2, <2>3, <2>5 DEF JobFits, InOneCall
    <2> QED
      BY <1>1, <1>3, <1>6, <2>4, <2>6, OnlyStepper
  <1> QED
    BY <1>7, <1>8

\* The calls of the core's manager go on and return.
LEMMA CoreStepsFit ==
    ASSUME NativeInv, NEW t \in Threads,
           \/ /\ job[t] \in {"quiet", "end"} /\ Return(t) /\ Do(t, "none")
              /\ UNCHANGED <<avVars, logVars>>
           \/ ManagerStep(t)
    PROVE  job' \in [Threads -> Jobs] /\ JobSound'
  <1>1. /\ JobFits(t) /\ JobSound /\ job[t] \in Jobs
        /\ TypeOK /\ AvP!TypeOK /\ LogP!LogInv
    BY StepperFits
  <1>2. Step(t) /\ UNCHANGED avVars /\ UNCHANGED logVars
    BY DEF ManagerStep, Step
  <1>3. OthersLogs(t) /\ lpc' = lpc /\ stack' = stack
    BY <1>2, SameLogs
  <1>4. /\ NoLogEntry(t)' = NoLogEntry(t) /\ OneLogEntry(t)' = OneLogEntry(t)
        /\ lpc'[t] = lpc[t]
    BY <1>3 DEF NoLogEntry, OneLogEntry
  <1>5. /\ pc[t] # "idle" /\ op' = op
        /\ \A u \in Threads \ {t} : pc'[u] = pc[u]
        /\ (op[t] = "add" /\ pc[t] \in {"lock", "locked"}) => pc'[t] \in {"idle", "locked"}
        /\ Return(t) => pc[t] = "func" /\ pc'[t] = "idle"
    BY <1>1, <1>2, CoreGoesOn
  <1>6. avPc' = avPc /\ avOp' = avOp
    BY <1>2 DEF avVars
  <1>7. OthersCalls(t)
    BY <1>5, <1>6 DEF OthersCalls
  <1>8. CASE job[t] \in {"quiet", "end"} /\ Return(t) /\ Do(t, "none")
    <2>1. Becomes(t, "none")
      BY <1>8, DoBecomes DEF Jobs
    <2>2. avPc[t] = "idle" /\ NoLogEntry(t)
      BY <1>1, <1>5, <1>8 DEF JobFits, InOneCall, InOneFunc
    <2>3. JobFits(t)'
      BY <1>4, <1>5, <1>6, <1>8, <2>1, <2>2 DEF JobFits, Becomes
    <2> QED
      BY <1>1, <1>3, <1>7, <2>1, <2>3, OnlyStepper
  <1>9. CASE ManagerStep(t)
    <2>1. job[t] \in {"add", "avnew", "logged", "quiet"}
      BY <1>1, <1>5, <1>9 DEF ManagerStep, JobFits, InOneFunc, Jobs
    <2>2. job[t] # "add" => avPc[t] = "idle"
      BY <1>1, <1>5, <2>1 DEF JobFits, InOneCall
    <2>3. job[t] = "add" => avPc[t] = "idle" /\ op[t] = "add" /\ pc'[t] \in {"idle", "locked"}
      BY <1>1, <1>5 DEF JobFits
    <2>4. CASE pc'[t] = "idle" /\ job[t] # "add"
      <3>1. Do(t, "none")
        BY <1>9, <2>4 DEF ManagerStep, Do
      <3>2. Becomes(t, "none")
        BY <3>1, DoBecomes DEF Jobs
      <3>3. NoLogEntry(t)
        BY <1>1, <2>1, <2>4 DEF JobFits
      <3>4. JobFits(t)'
        BY <1>4, <1>6, <2>2, <2>4, <3>2, <3>3 DEF JobFits, Becomes
      <3> QED
        BY <1>1, <1>3, <1>7, <3>2, <3>4, OnlyStepper
    <2>5. CASE ~(pc'[t] = "idle" /\ job[t] # "add")
      <3>1. Becomes(t, job[t])
        BY <1>9, <2>5, KeepsJob DEF ManagerStep
      <3>2. CASE job[t] = "add"
        <4>1. JobFits(t)'
          BY <1>1, <1>4, <1>5, <1>6, <2>3, <3>1, <3>2 DEF JobFits, Becomes
        <4> QED
          BY <1>1, <1>3, <1>7, <3>1, <4>1, OnlyStepper
      <3>3. CASE job[t] # "add"
        <4>1. pc'[t] # "idle" /\ avPc'[t] = "idle"
          BY <1>6, <2>2, <2>5, <3>3
        <4>2. NoLogEntry(t)' /\ lpc'[t] = <<"run">>
          BY <1>1, <1>4, <2>1, <3>3 DEF JobFits
        <4>3. JobFits(t)'
          BY <2>1, <3>1, <3>3, <4>1, <4>2 DEF JobFits, Becomes, InOneCall
        <4> QED
          BY <1>1, <1>3, <1>7, <3>1, <4>3, OnlyStepper
      <3> QED
        BY <3>2, <3>3
    <2> QED
      BY <2>4, <2>5
  <1> QED
    BY <1>8, <1>9

\* Those of the avs' manager.
LEMMA AvStepsFit ==
    ASSUME NativeInv, NEW t \in Threads,
           \/ /\ job[t] \in {"quiet", "end"} /\ Av!Return(t) /\ Do(t, "none")
              /\ UNCHANGED <<vars, logVars>>
           \/ AvManagerStep(t)
    PROVE  job' \in [Threads -> Jobs] /\ JobSound'
  <1>1. /\ JobFits(t) /\ JobSound /\ job[t] \in Jobs
        /\ TypeOK /\ AvP!TypeOK /\ LogP!LogInv
    BY StepperFits
  <1>2. Av!Step(t) /\ UNCHANGED vars /\ UNCHANGED logVars
    BY DEF AvManagerStep, Av!Step
  <1>3. OthersLogs(t) /\ lpc' = lpc /\ stack' = stack
    BY <1>2, SameLogs
  <1>4. /\ NoLogEntry(t)' = NoLogEntry(t) /\ OneLogEntry(t)' = OneLogEntry(t)
        /\ lpc'[t] = lpc[t]
    BY <1>3 DEF NoLogEntry, OneLogEntry
  <1>5. /\ avPc[t] # "idle" /\ avOp' = avOp
        /\ \A u \in Threads \ {t} : avPc'[u] = avPc[u]
        /\ (avOp[t] = "add" /\ avPc[t] \in {"lock", "locked"}) => avPc'[t] \in {"idle", "locked"}
        /\ Av!Return(t) => avPc[t] = "func" /\ avPc'[t] = "idle"
    BY <1>1, <1>2, AvGoesOn
  <1>6. pc' = pc /\ op' = op
    BY <1>2 DEF vars, threadVars
  <1>7. OthersCalls(t)
    BY <1>5, <1>6 DEF OthersCalls
  <1>8. CASE job[t] \in {"quiet", "end"} /\ Av!Return(t) /\ Do(t, "none")
    <2>1. Becomes(t, "none")
      BY <1>8, DoBecomes DEF Jobs
    <2>2. pc[t] = "idle" /\ NoLogEntry(t)
      BY <1>1, <1>5, <1>8 DEF JobFits, InOneCall, InOneFunc
    <2>3. JobFits(t)'
      BY <1>4, <1>5, <1>6, <1>8, <2>1, <2>2 DEF JobFits, Becomes
    <2> QED
      BY <1>1, <1>3, <1>7, <2>1, <2>3, OnlyStepper
  <1>9. CASE AvManagerStep(t)
    <2>1. job[t] \in {"avadd", "logged", "quiet"}
      BY <1>1, <1>5, <1>9 DEF AvManagerStep, JobFits, InOneFunc, Jobs
    <2>2. job[t] # "avadd" => pc[t] = "idle"
      BY <1>1, <1>5, <2>1 DEF JobFits, InOneCall
    <2>3. job[t] = "avadd" => pc[t] = "func" /\ avOp[t] = "add" /\ avPc'[t] \in {"idle", "locked"}
      BY <1>1, <1>5 DEF JobFits
    <2>4. CASE avPc'[t] = "idle" /\ job[t] # "avadd"
      <3>1. Do(t, "none")
        BY <1>9, <2>4 DEF AvManagerStep, Do
      <3>2. Becomes(t, "none")
        BY <3>1, DoBecomes DEF Jobs
      <3>3. NoLogEntry(t)
        BY <1>1, <2>1, <2>4 DEF JobFits
      <3>4. JobFits(t)'
        BY <1>4, <1>6, <2>2, <2>4, <3>2, <3>3 DEF JobFits, Becomes
      <3> QED
        BY <1>1, <1>3, <1>7, <3>2, <3>4, OnlyStepper
    <2>5. CASE ~(avPc'[t] = "idle" /\ job[t] # "avadd")
      <3>1. Becomes(t, job[t])
        BY <1>9, <2>5, KeepsJob DEF AvManagerStep
      <3>2. CASE job[t] = "avadd"
        <4>1. JobFits(t)'
          BY <1>1, <1>4, <1>5, <1>6, <2>3, <3>1, <3>2 DEF JobFits, Becomes
        <4> QED
          BY <1>1, <1>3, <1>7, <3>1, <4>1, OnlyStepper
      <3>3. CASE job[t] # "avadd"
        <4>1. avPc'[t] # "idle" /\ pc'[t] = "idle"
          BY <1>6, <2>2, <2>5, <3>3
        <4>2. NoLogEntry(t)' /\ lpc'[t] = <<"run">>
          BY <1>1, <1>4, <2>1, <3>3 DEF JobFits
        <4>3. JobFits(t)'
          BY <2>1, <3>1, <3>3, <4>1, <4>2 DEF JobFits, Becomes, InOneCall
        <4> QED
          BY <1>1, <1>3, <1>7, <3>1, <4>3, OnlyStepper
      <3> QED
        BY <3>2, <3>3
    <2> QED
      BY <2>4, <2>5
  <1> QED
    BY <1>8, <1>9

\* The entry of a native function is added to the log, or ToxJniLog is called.
LEMMA LogStepsFit ==
    ASSUME NativeInv, NEW t \in Threads, EntryStep(t) \/ ToxJniLog(t)
    PROVE  job' \in [Threads -> Jobs] /\ JobSound'
  <1>1. /\ JobFits(t) /\ JobSound /\ job[t] \in Jobs
        /\ TypeOK /\ AvP!TypeOK /\ LogP!LogInv
    BY StepperFits
  <1>2. UNCHANGED <<vars, avVars>> /\ UNCHANGED job
    BY DEF EntryStep, ToxJniLog
  <1>3. OthersCalls(t) /\ pc' = pc /\ op' = op /\ avPc' = avPc /\ avOp' = avOp
    BY <1>2, SameCalls
  <1>4. Becomes(t, job[t])
    BY <1>2, KeepsJob
  <1>5. CASE EntryStep(t)
    <2>1. Log!AddEntry(t) \/ Log!LogFull(t)
      BY <1>5 DEF EntryStep
    <2>2. lpc[t][1] = "want"
      BY <2>1 DEF Log!AddEntry, Log!LogFull
    <2>3. /\ job[t] \notin {"none", "logged", "avnew", "end", "quiet"}
          /\ job[t] \notin {"failed", "add", "avadd"}
      BY <1>1, <2>2 DEF JobFits, NoLogEntry
    <2>4. OneLogEntry(t)
      BY <1>1, <2>3 DEF JobFits, Jobs
    <2>5. OthersLogs(t) /\ OneLogEntry(t)'
      BY <1>1, <2>1, <2>4, EntryAdded
    <2>6. JobFits(t)'
      BY <1>1, <1>3, <1>4, <2>3, <2>5 DEF JobFits, Becomes, InOneFunc
    <2> QED
      BY <1>1, <1>3, <1>4, <2>5, <2>6, OnlyStepper
  <1>6. CASE ToxJniLog(t)
    <2>1. /\ job[t] = "none"
          /\ \/ Log!LastLog(t) \/ Log!Clear(t)
             \/ \E n \in MaxSizes : Log!SetMaxSize(t, n)
             \/ \E F \in FilterSets : Log!SetFilter(t, F)
      BY <1>6 DEF ToxJniLog
    <2>2. NoLogEntry(t)
      BY <1>1, <2>1 DEF JobFits
    <2>3. OthersLogs(t) /\ NoLogEntry(t)'
      BY <1>1, <2>1, <2>2, NoEntryBuilt
    <2>4. JobFits(t)'
      BY <1>1, <1>3, <1>4, <2>1, <2>3 DEF JobFits, Becomes
    <2> QED
      BY <1>1, <1>3, <1>4, <2>3, <2>4, OnlyStepper
  <1> QED
    BY <1>5, <1>6

-----------------------------------------------------------------------------
(* The invariant *)

LEMMA NativeInitInductive == NativeInit => NativeInv
  <1> SUFFICES ASSUME NativeInit PROVE NativeInv
    OBVIOUS
  <1>1. InductiveInv
    BY InitInductive DEF NativeInit
  <1>2. AvP!InductiveInv
    <2>1. AvP!Init
      BY AvInitSame DEF NativeInit
    <2> QED
      BY <2>1, PartsAssumptions, AvP!InitInductive
  <1>3. LogP!LogInv
    <2>1. LogP!LogInit
      BY LogInitSame DEF NativeInit
    <2> QED
      BY <2>1, PartsAssumptions, LogP!LogInitInductive
  <1>4. job \in [Threads -> Jobs] /\ \A t \in Threads : job[t] = "none"
    BY DEF NativeInit, Jobs
  <1>5. ASSUME NEW t \in Threads PROVE JobFits(t)
    <2>1. pc[t] = "idle" /\ avPc[t] = "idle"
      BY DEF NativeInit, Init, Av!Init
    <2>2. lpc[t] = <<"run">> /\ stack[t] = <<>>
      BY DEF NativeInit, Log!LogInit
    <2> QED
      BY <1>4, <2>1, <2>2 DEF JobFits, NoLogEntry
  <1> QED
    BY <1>1, <1>2, <1>3, <1>4, <1>5 DEF NativeInv, JobSound

LEMMA NativeNextInductive == NativeInv /\ [NativeNext]_nativeVars => NativeInv'
  <1> SUFFICES ASSUME NativeInv, [NativeNext]_nativeVars PROVE NativeInv'
    OBVIOUS
  <1>1. [Next]_vars /\ [Av!Next]_(Av!vars) /\ [Log!LogNext]_(Log!logVars)
    BY PartsStep
  <1>2. InductiveInv'
    BY <1>1, NextInductive DEF NativeInv
  <1>3. AvP!InductiveInv'
    BY <1>1, AvSame DEF NativeInv
  <1>4. LogP!LogInv'
    BY <1>1, LogSame DEF NativeInv
  <1>5. job' \in [Threads -> Jobs] /\ JobSound'
    <2>1. CASE UNCHANGED nativeVars
      <3>1. /\ job' = job /\ pc' = pc /\ avPc' = avPc /\ op' = op /\ avOp' = avOp
            /\ lpc' = lpc /\ stack' = stack
        BY <2>1 DEF nativeVars, vars, threadVars, avVars, logVars
      <3> QED
        BY <3>1 DEF NativeInv, JobSound, JobFits, InOneCall, InOneFunc, NoLogEntry, OneLogEntry
    <2>2. CASE NativeNext
      <3>1. PICK t \in Threads : NativeStep(t)
        BY <2>2 DEF NativeNext, NativeStep
      <3>2. CASE ToxNew(t) \/ CallCrypto(t) \/ ToxavNewLogs(t) \/ FuncLogs(t)
        BY <3>2, BeginsFit
      <3>3. CASE NewFails(t) \/ CryptoResult(t) \/ ToxavNewFails(t) \/ FuncResult(t)
        BY <3>3, ResultsFit
      <3>4. CASE NewReturns(t) \/ CryptoReturns(t) \/ ToxavNewUnlogs(t) \/ FuncUnlogs(t)
        BY <3>4, EndsFit
      <3>5. CASE \/ \E o \in Objects : NewSucceeds(t, o)
                 \/ \E a \in Avs : ToxavNewSucceeds(t, a)
        BY <3>5, AddsFit
      <3>6. CASE \E n \in Numbers :
                     \/ ToxavNew(t, n) \/ CallLogged(t, n) \/ CallQuiet(t, n)
                     \/ AvCallLogged(t, n) \/ AvCallQuiet(t, n)
        BY <3>6, CallsFit
      <3>7. CASE FuncReturns(t) \/ ManagerStep(t) \/ AvManagerStep(t)
        BY <3>7, CoreStepsFit, AvStepsFit DEF FuncReturns
      <3>8. CASE EntryStep(t) \/ ToxJniLog(t)
        BY <3>8, LogStepsFit
      <3> QED
        BY <3>1, <3>2, <3>3, <3>4, <3>5, <3>6, <3>7, <3>8 DEF NativeStep
    <2> QED
      BY <2>1, <2>2
  <1> QED
    BY <1>2, <1>3, <1>4, <1>5 DEF NativeInv

\* At every point of a native function its thread is where the function's code puts
\* it in the two managers and in the log, for any number of threads and instances.
THEOREM NativeInductive == NativeSpec => []NativeInv
  BY NativeInitInductive, NativeNextInductive, PTL DEF NativeSpec

\* Once toxavNew is past the check of the core's instance, the core is alive and its
\* thread has it locked until the av has its number.
THEOREM CoreOutlivesNewCorrect == NativeSpec => []CoreOutlivesNew
  <1>1. NativeInv => CoreOutlivesNew
    <2> SUFFICES ASSUME NativeInv, NEW t \in Threads, job[t] \in {"toxav", "avadd"}
                 PROVE  pc[t] = "func" /\ obj[t] \in alive /\ locks[num[t]] = t
      BY DEF CoreOutlivesNew
    <2>1. pc[t] = "func"
      BY DEF NativeInv, JobSound, JobFits
    <2>2. obj[t] \in alive
      BY <2>1 DEF NativeInv, InductiveInv, FuncSafe
    <2>3. locks[num[t]] = t
      BY <2>1 DEF NativeInv, InductiveInv, LockSound, HoldsInstance
    <2> QED
      BY <2>1, <2>2, <2>3
  <1> QED
    BY <1>1, NativeInductive, PTL

\* The owner of the log has a LogEntry.
LEMMA LogOwnerWrites ==
    ASSUME NativeInv, NEW t \in Threads, owner = t
    PROVE  stack[t] # <<>>
  <1> SUFFICES ASSUME stack[t] = <<>> PROVE FALSE
    OBVIOUS
  <1>1. LogP!OneWriter /\ count \in Nat
    BY DEF NativeInv, LogP!LogInv, LogP!LogTypeOK
  <1>2. LogP!OpenEntries(t) = {}
    BY DEF LogP!OpenEntries, LogP!Range
  <1>3. LogP!Cardinality({}) = 0
    BY LogP!FS_EmptySet
  <1> QED
    BY <1>1, <1>2, <1>3, ConstantsAssumption DEF LogP!OneWriter

\* A thread outside of the native functions owns no LogEntry and no mutex, neither
\* the log's nor one of a manager or an instance.
THEOREM IdleOwnsNothingCorrect == NativeSpec => []IdleOwnsNothing
  <1>1. NativeInv => IdleOwnsNothing
    <2> SUFFICES ASSUME NativeInv, NEW t \in Threads, job[t] = "none"
                 PROVE  /\ stack[t] = <<>> /\ owner # t
                        /\ mutex # t /\ \A n \in DOMAIN locks : locks[n] # t
                        /\ avMutex # t /\ \A n \in DOMAIN avLocks : avLocks[n] # t
      BY DEF IdleOwnsNothing
    <2>1. pc[t] = "idle" /\ avPc[t] = "idle" /\ stack[t] = <<>>
      BY DEF NativeInv, JobSound, JobFits, NoLogEntry
    <2>2. t # NoThread
      BY ConstantsAssumption
    <2>3. mutex # t /\ \A n \in DOMAIN locks : locks[n] # t
      BY <2>1, <2>2 DEF NativeInv, InductiveInv, LockSound, InCriticalSection, HoldsInstance
    <2>4. avMutex # t /\ \A n \in DOMAIN avLocks : avLocks[n] # t
      BY <2>1, <2>2 DEF NativeInv, AvP!InductiveInv, AvP!LockSound, AvP!InCriticalSection,
                        AvP!HoldsInstance
    <2>5. owner # t
      BY <2>1, LogOwnerWrites
    <2> QED
      BY <2>1, <2>3, <2>4, <2>5
  <1> QED
    BY <1>1, NativeInductive, PTL

-----------------------------------------------------------------------------
(* Circular waits *)

\* The threads of S wait for each other.
CircularWait(S) == S # {} /\ \A t \in S : WaitsFor(t) \cap S # {}

\* u has made an object in toxNew or toxavNew and waits with the log locked for the
\* manager, which v has locked while it waits for an instance, whose owner w waits
\* for the log, or is in toxavNew as well.
Entangled(u, v, w) ==
    /\ u # v /\ u # w /\ v # w
    /\ owner = u
    /\ \/ /\ job[u] = "add" /\ pc[u] = "lock"
          /\ mutex = v /\ pc[v] = "wait"
          /\ locks[num[v]] = w /\ pc[w] = "func"
       \/ /\ job[u] = "avadd" /\ avPc[u] = "lock"
          /\ avMutex = v /\ avPc[v] = "wait"
          /\ avLocks[avNum[v]] = w /\ avPc[w] = "func"
    /\ lpc[w][1] = "want" \/ job[w] = "avadd"

\* Who waits for the log owns at most an instance, and waits for nothing else.
LEMMA LogWaiter ==
    ASSUME NativeInv, NEW t \in Threads, lpc[t][1] \in {"want", "clear"}
    PROVE  pc[t] \in {"idle", "func"} /\ avPc[t] \in {"idle", "func"}
  <1>1. JobFits(t) /\ job[t] \in Jobs
    BY StepperFits
  <1>2. lpc[t] # <<"run">>
    OBVIOUS
  <1>3. job[t] \notin {"failed", "add", "avadd", "logged", "avnew", "end", "quiet"}
    BY <1>1, <1>2 DEF JobFits
  <1> QED
    BY <1>1, <1>3 DEF JobFits, Jobs, InOneFunc

\* The owner of the log waits for a manager, in toxNew and in toxavNew.
LEMMA LogOwnerWaits ==
    ASSUME NativeInv, NEW t \in Threads, owner = t, WaitsFor(t) # {}
    PROVE  \/ job[t] = "add" /\ pc[t] = "lock" /\ avPc[t] = "idle"
           \/ job[t] = "avadd" /\ pc[t] = "func" /\ avPc[t] = "lock"
  <1>1. JobFits(t) /\ job[t] \in Jobs
    BY StepperFits
  <1>2. stack[t] # <<>>
    BY LogOwnerWrites
  <1>3. job[t] \in {"new", "failed", "add", "crypto", "toxav", "avadd", "body"}
    BY <1>1, <1>2 DEF JobFits, Jobs, NoLogEntry
  <1>4. lpc[t] = <<"run">>
    BY <1>1, <1>2, <1>3 DEF JobFits, OneLogEntry
  <1>5. lpc[t][1] = "run"
    BY <1>4
  <1>6. pc[t] \in {"lock", "wait"} \/ avPc[t] \in {"lock", "wait"}
    BY <1>5 DEF WaitsFor
  <1> QED
    BY <1>1, <1>3, <1>6 DEF JobFits, InOneFunc

\* The owner of the core's manager waits for an instance alone.
LEMMA ManagerOwnerWaits ==
    ASSUME NativeInv, NEW t \in Threads, mutex = t, WaitsFor(t) # {}
    PROVE  pc[t] = "wait" /\ \A u \in WaitsFor(t) : locks[num[t]] = u
  <1>1. JobFits(t) /\ job[t] \in Jobs
    BY StepperFits
  <1>2. pc[t] \in {"locked", "wait", "dying"}
    BY DEF NativeInv, InductiveInv, LockSound, InCriticalSection
  <1>3. job[t] \in {"add", "avnew", "logged", "quiet"}
    BY <1>1, <1>2 DEF JobFits, Jobs, InOneFunc
  <1>4. lpc[t][1] = "run" /\ avPc[t] = "idle"
    BY <1>1, <1>2, <1>3 DEF JobFits, InOneCall
  <1> QED
    BY <1>2, <1>4 DEF WaitsFor

\* The owner of a core's instance waits for the log, or in toxavNew for the avs'
\* manager.
LEMMA InstanceOwnerWaits ==
    ASSUME NativeInv, NEW t \in Threads, NEW n \in DOMAIN locks, locks[n] = t, WaitsFor(t) # {}
    PROVE  /\ pc[t] = "func"
           /\ \/ lpc[t][1] = "want"
              \/ job[t] = "avadd" /\ avPc[t] = "lock"
  <1>1. JobFits(t) /\ job[t] \in Jobs
    BY StepperFits
  <1>2. pc[t] \in {"dying", "func", "null"}
    BY ConstantsAssumption DEF NativeInv, InductiveInv, LockSound, HoldsInstance
  <1>3. job[t] \in {"avnew", "toxav", "avadd", "logged", "quiet", "body", "end"}
    BY <1>1, <1>2 DEF JobFits, Jobs
  <1>4. avPc[t] \in {"lock", "wait"} => job[t] = "avadd" /\ avPc[t] = "lock" /\ pc[t] = "func"
    BY <1>1, <1>2, <1>3 DEF JobFits, InOneCall, InOneFunc
  <1>5. lpc[t][1] \in {"want", "clear"} => lpc[t][1] = "want" /\ pc[t] = "func"
    <2> SUFFICES ASSUME lpc[t][1] \in {"want", "clear"}
                 PROVE  lpc[t][1] = "want" /\ pc[t] = "func"
      OBVIOUS
    <2>1. job[t] \in {"toxav", "body"}
      BY <1>1, <1>3 DEF JobFits
    <2>2. OneLogEntry(t) /\ pc[t] \in {"idle", "func"}
      BY <1>1, <2>1, LogWaiter DEF JobFits
    <2> QED
      BY <1>2, <2>2 DEF OneLogEntry
  <1> QED
    BY <1>2, <1>4, <1>5 DEF WaitsFor

\* The owner of the avs' manager waits for an av alone.
LEMMA AvManagerOwnerWaits ==
    ASSUME NativeInv, NEW t \in Threads, avMutex = t, WaitsFor(t) # {}
    PROVE  avPc[t] = "wait" /\ \A u \in WaitsFor(t) : avLocks[avNum[t]] = u
  <1>1. JobFits(t) /\ job[t] \in Jobs
    BY StepperFits
  <1>2. avPc[t] \in {"locked", "wait", "dying"}
    BY DEF NativeInv, AvP!InductiveInv, AvP!LockSound, AvP!InCriticalSection
  <1>3. job[t] \in {"avadd", "logged", "quiet"}
    BY <1>1, <1>2 DEF JobFits, Jobs, InOneFunc
  <1>4. lpc[t][1] = "run" /\ pc[t] \in {"idle", "func"}
    BY <1>1, <1>2, <1>3 DEF JobFits, InOneCall
  <1> QED
    BY <1>2, <1>4 DEF WaitsFor

\* The owner of an av waits for the log alone.
LEMMA AvOwnerWaits ==
    ASSUME NativeInv, NEW t \in Threads, NEW n \in DOMAIN avLocks, avLocks[n] = t,
           WaitsFor(t) # {}
    PROVE  avPc[t] = "func" /\ lpc[t][1] = "want"
  <1>1. JobFits(t) /\ job[t] \in Jobs
    BY StepperFits
  <1>2. avPc[t] \in {"dying", "func", "null"}
    BY ConstantsAssumption DEF NativeInv, AvP!InductiveInv, AvP!LockSound, AvP!HoldsInstance
  <1>3. job[t] \in {"logged", "quiet", "body", "end"}
    BY <1>1, <1>2 DEF JobFits, Jobs
  <1>4. pc[t] = "idle"
    BY <1>1, <1>2, <1>3 DEF JobFits, InOneCall, InOneFunc
  <1>5. lpc[t][1] \in {"want", "clear"}
    BY <1>2, <1>4 DEF WaitsFor
  <1>6. job[t] = "body"
    BY <1>1, <1>3, <1>5 DEF JobFits
  <1> QED
    BY <1>1, <1>5, <1>6, <1>2, LogWaiter DEF JobFits, OneLogEntry

\* The numbers a thread waits with are numbers of their manager.
LEMMA WaitsWithNumber ==
    ASSUME NativeInv, NEW t \in Threads
    PROVE  /\ pc[t] = "wait" => num[t] \in DOMAIN locks
           /\ avPc[t] = "wait" => avNum[t] \in DOMAIN avLocks
  <1>1. pc[t] = "wait" => num[t] \in DOMAIN locks
    <2> SUFFICES ASSUME pc[t] = "wait" PROVE num[t] \in DOMAIN locks
      OBVIOUS
    <2>1. TypeOK /\ CheckInstanceNumber(num[t])
      BY DEF NativeInv, InductiveInv, LocalSound
    <2> QED
      BY <2>1, LenProperties DEF TypeOK, CheckInstanceNumber
  <1>2. avPc[t] = "wait" => avNum[t] \in DOMAIN avLocks
    <2> SUFFICES ASSUME avPc[t] = "wait" PROVE avNum[t] \in DOMAIN avLocks
      OBVIOUS
    <2>1. AvP!TypeOK /\ AvP!CheckInstanceNumber(avNum[t])
      BY DEF NativeInv, AvP!InductiveInv, AvP!LocalSound
    <2> QED
      BY <2>1, LenProperties DEF AvP!TypeOK, AvP!CheckInstanceNumber
  <1> QED
    BY <1>1, <1>2

\* Every chain of waits ends at the log: managers, instances, the avs' manager and
\* avs are locked in this order.
LEMMA ChainEndsAtLog ==
    ASSUME NativeInv, NEW S \in SUBSET Threads, CircularWait(S)
    PROVE  owner \in S
  <1>1. ASSUME NEW t \in S PROVE t \in Threads /\ WaitsFor(t) # {} /\ \E u \in S : u \in WaitsFor(t)
    BY DEF CircularWait
  <1>2. ASSUME NEW t \in S, lpc[t][1] \in {"want", "clear"} PROVE owner \in S
    <2>1. PICK u \in S : u \in WaitsFor(t)
      BY <1>1
    <2>2. pc[t] \in {"idle", "func"} /\ avPc[t] \in {"idle", "func"}
      BY <1>1, <1>2, LogWaiter
    <2> QED
      BY <2>1, <2>2 DEF WaitsFor
  <1>3. ASSUME NEW t \in S, avPc[t] = "wait", avMutex = t PROVE owner \in S
    <2>1. PICK u \in S : u \in WaitsFor(t)
      BY <1>1
    <2>2. avLocks[avNum[t]] = u /\ avNum[t] \in DOMAIN avLocks
      BY <1>1, <1>3, <2>1, AvManagerOwnerWaits, WaitsWithNumber
    <2>3. lpc[u][1] = "want"
      BY <1>1, <2>2, AvOwnerWaits
    <2> QED
      BY <1>2, <2>3
  <1>4. ASSUME NEW t \in S, avPc[t] = "lock", lpc[t][1] = "run", pc[t] \in {"idle", "func"}
        PROVE  owner \in S
    <2>1. PICK u \in S : u \in WaitsFor(t)
      BY <1>1
    <2>2. avMutex = u
      BY <1>4, <2>1 DEF WaitsFor
    <2>3. avPc[u] = "wait"
      BY <1>1, <2>2, AvManagerOwnerWaits
    <2> QED
      BY <1>3, <2>2, <2>3
  <1>5. ASSUME NEW t \in S, pc[t] = "wait", mutex = t PROVE owner \in S
    <2>1. PICK u \in S : u \in WaitsFor(t)
      BY <1>1
    <2>2. locks[num[t]] = u /\ num[t] \in DOMAIN locks
      BY <1>1, <1>5, <2>1, ManagerOwnerWaits, WaitsWithNumber
    <2>3. pc[u] = "func" /\ (lpc[u][1] = "want" \/ (job[u] = "avadd" /\ avPc[u] = "lock"))
      BY <1>1, <2>2, InstanceOwnerWaits
    <2>4. job[u] = "avadd" => lpc[u][1] = "run"
      BY <1>1, StepperFits DEF JobFits
    <2> QED
      BY <1>2, <1>4, <2>3, <2>4
  <1>6. ASSUME NEW t \in S, pc[t] = "lock" PROVE owner \in S
    <2>1. PICK u \in S : u \in WaitsFor(t)
      BY <1>1
    <2>2. JobFits(t) /\ job[t] \in Jobs /\ t \in Threads
      BY <1>1, StepperFits
    <2>3. job[t] \in {"add", "avnew", "logged", "quiet"}
      BY <1>6, <2>2 DEF JobFits, Jobs, InOneFunc
    <2>4. lpc[t][1] = "run" /\ avPc[t] = "idle"
      BY <1>6, <2>2, <2>3 DEF JobFits, InOneCall
    <2>5. mutex = u
      BY <1>6, <2>1, <2>4 DEF WaitsFor
    <2>6. pc[u] = "wait"
      BY <1>1, <2>5, ManagerOwnerWaits
    <2> QED
      BY <1>5, <2>5, <2>6
  <1>7. PICK t \in S : TRUE
    BY DEF CircularWait
  <1>8. \/ lpc[t][1] \in {"want", "clear"}
        \/ pc[t] = "lock" \/ pc[t] = "wait" \/ avPc[t] = "lock" \/ avPc[t] = "wait"
    BY <1>1, <1>7 DEF WaitsFor
  <1>9. /\ pc[t] = "wait" => mutex = t
        /\ avPc[t] = "wait" => avMutex = t
    BY <1>1, <1>7 DEF NativeInv, InductiveInv, LockSound, InCriticalSection, AvP!InductiveInv,
                      AvP!LockSound, AvP!InCriticalSection
  <1>10. avPc[t] = "lock" => lpc[t][1] = "run" /\ pc[t] \in {"idle", "func"}
    <2> SUFFICES ASSUME avPc[t] = "lock" PROVE lpc[t][1] = "run" /\ pc[t] \in {"idle", "func"}
      OBVIOUS
    <2>1. JobFits(t) /\ job[t] \in Jobs
      BY <1>1, <1>7, StepperFits
    <2>2. job[t] \in {"avadd", "logged", "quiet"}
      BY <2>1 DEF JobFits, Jobs, InOneFunc
    <2> QED
      BY <2>1, <2>2 DEF JobFits, InOneCall
  <1> QED
    BY <1>2, <1>3, <1>4, <1>5, <1>6, <1>7, <1>8, <1>9, <1>10

LEMMA CircularWaitEntangles ==
    ASSUME NativeInv, NEW S \in SUBSET Threads, CircularWait(S)
    PROVE  \E u, v, w \in S : Entangled(u, v, w)
  <1>1. ASSUME NEW t \in S PROVE t \in Threads /\ WaitsFor(t) # {} /\ \E u \in S : u \in WaitsFor(t)
    BY DEF CircularWait
  <1>2. PICK u \in S : owner = u
    BY ChainEndsAtLog
  <1>3. JobFits(u) /\ lpc[u] = <<"run">>
    BY <1>1, <1>2, LogOwnerWaits, StepperFits DEF JobFits
  <1>4. lpc[u][1] = "run"
    BY <1>3
  <1>5. PICK v \in S : v \in WaitsFor(u)
    BY <1>1
  <1>6. CASE job[u] = "add" /\ pc[u] = "lock" /\ avPc[u] = "idle"
    <2>1. mutex = v
      BY <1>4, <1>5, <1>6 DEF WaitsFor
    <2>2. PICK w \in S : w \in WaitsFor(v)
      BY <1>1
    <2>3. pc[v] = "wait" /\ locks[num[v]] = w /\ num[v] \in DOMAIN locks
      BY <1>1, <2>1, <2>2, ManagerOwnerWaits, WaitsWithNumber
    <2>4. pc[w] = "func" /\ (lpc[w][1] = "want" \/ job[w] = "avadd")
      BY <1>1, <2>3, InstanceOwnerWaits
    <2> QED
      BY <1>2, <1>6, <2>1, <2>3, <2>4 DEF Entangled
  <1>7. CASE job[u] = "avadd" /\ pc[u] = "func" /\ avPc[u] = "lock"
    <2>1. avMutex = v
      BY <1>4, <1>5, <1>7 DEF WaitsFor
    <2>2. PICK w \in S : w \in WaitsFor(v)
      BY <1>1
    <2>3. avPc[v] = "wait" /\ avLocks[avNum[v]] = w /\ avNum[v] \in DOMAIN avLocks
      BY <1>1, <2>1, <2>2, AvManagerOwnerWaits, WaitsWithNumber
    <2>4. avPc[w] = "func" /\ lpc[w][1] = "want"
      BY <1>1, <2>3, AvOwnerWaits
    <2> QED
      BY <1>2, <1>7, <2>1, <2>3, <2>4 DEF Entangled
  <1> QED
    BY <1>1, <1>2, <1>6, <1>7, LogOwnerWaits

\* For any number of threads: threads that wait for each other include one that made
\* an object in toxNew or toxavNew and calls add with the log locked, one that waits
\* for an instance with the manager locked, and one whose func on that instance
\* wants the log.  The orders of the other mutexes never close a circle.
THEOREM CircularWaitShape ==
    NativeSpec => [](\A S \in SUBSET Threads :
                         CircularWait(S) => \E u, v, w \in S : Entangled(u, v, w))
  <1>1. NativeInv => \A S \in SUBSET Threads :
                         CircularWait(S) => \E u, v, w \in S : Entangled(u, v, w)
    BY CircularWaitEntangles
  <1> QED
    BY <1>1, NativeInductive, PTL

\* Two threads never wait for each other, although toxNew, toxavNew and the calls on
\* an instance lock the managers and the log in different orders.
THEOREM NoCircularWaitCorrect ==
    ASSUME IsFiniteSet(Threads), Cardinality(Threads) <= 2
    PROVE  NativeSpec => []NoCircularWait
  <1>1. ASSUME NEW u \in Threads, NEW v \in Threads, NEW w \in Threads,
               u # v, u # w, v # w
        PROVE  FALSE
    <2> DEFINE one == {u}
               two == one \cup {v}
               three == two \cup {w}
    <2>1. Cardinality(one) = 1 /\ IsFiniteSet(one)
      BY FS_Singleton
    <2>2. v \notin one /\ w \notin two
      BY <1>1
    <2>3. three \subseteq Threads
      OBVIOUS
    <2> HIDE DEF one
    <2>4. IsFiniteSet(two) /\ Cardinality(two) = Cardinality(one) + 1
      BY <2>1, <2>2, FS_AddElement
    <2> HIDE DEF two
    <2>5. Cardinality(three) = Cardinality(two) + 1
      BY <2>2, <2>4, FS_AddElement
    <2> HIDE DEF three
    <2>6. Cardinality(three) <= Cardinality(Threads)
      BY <2>3, FS_Subset
    <2>7. Cardinality(Threads) \in Nat
      BY FS_CardinalityType
    <2> QED
      BY <2>1, <2>4, <2>5, <2>6, <2>7
  <1>2. NativeInv => NoCircularWait
    BY <1>1, CircularWaitEntangles DEF NoCircularWait, CircularWait, Entangled
  <1> QED
    BY <1>2, NativeInductive, PTL

\* While no toxNew or toxavNew calls add with the log locked, no threads wait for each
\* other, however many there are: with logging off, or with the log full, the
\* mutexes of the managers and of the instances cannot deadlock.
THEOREM OnlyNewEntangles ==
    NativeSpec => [](\/ NoCircularWait
                     \/ \E u \in Threads : owner = u /\ job[u] \in {"add", "avadd"})
  <1>1. NativeInv => \/ NoCircularWait
                     \/ \E u \in Threads : owner = u /\ job[u] \in {"add", "avadd"}
    BY CircularWaitEntangles DEF NoCircularWait, CircularWait, Entangled
  <1> QED
    BY <1>1, NativeInductive, PTL

\* Both managers stay what the registry promises when they are used by the native
\* functions: no number is rebound without kill and finalize, and kill waits for
\* func, with the log's mutex taken in between.
THEOREM NativeImplementsRegistries ==
    NativeSpec => Registry!Spec /\ AvP!Registry!Spec
  <1>1. Spec => Registry!Spec
    BY ManagerImplementsRegistry DEF RefinesRegistry
  <1>2. Av!Init => AvP!Init
    BY AvInitSame
  <1>3. [Av!Next]_(Av!vars) => [AvP!Next]_(AvP!vars)
    BY AvNextSame
  <1>4. Av!Spec => AvP!Spec
    BY <1>2, <1>3, PTL DEF Av!Spec, AvP!Spec
  <1>5. AvP!Spec => AvP!Registry!Spec
    BY PartsAssumptions, AvP!ManagerImplementsRegistry DEF AvP!RefinesRegistry
  <1> QED
    BY <1>1, <1>4, <1>5, NativeImplementsParts

=============================================================================
