------------------------------- MODULE JniLog -------------------------------
(***************************************************************************)
(* The native call log: struct JniLog and LogEntry of                      *)
(* src/main/cpp/util/debug_log.{h,cpp}, and the functions ToxJniLog calls  *)
(* (src/main/cpp/ToxCore/debug.cpp).                                       *)
(*                                                                         *)
(* Every logged native call builds a LogEntry, which adds an entry to the  *)
(* log and keeps the log's recursive mutex until the call is over.         *)
(* Callbacks that run during tox_iterate build entries of their own, so a  *)
(* thread has a stack of them.  max_size is read and written without the   *)
(* mutex.  An entry is identified by the order in which it was added; its  *)
(* arguments and times are left out, whether its result has been written   *)
(* is kept.                                                                *)
(***************************************************************************)
EXTENDS Integers, Sequences, FiniteSets, SequencesExt

CONSTANTS Threads,     \* the JVM threads
          NoThread,    \* the owner of the unlocked mutex
          Names,       \* the names of the native functions
          MaxSizes,    \* the sizes the client sets
          InitialSize, \* max_size when the library is loaded
          FilterSets,  \* the filters the client sets
          MaxDepth,    \* bound: how deep LogEntry objects nest
          MaxEntries   \* bound: how many entries are added in all

ASSUME LogAssumption ==
    /\ NoThread \notin Threads
    /\ MaxSizes \subseteq Int
    /\ InitialSize \in MaxSizes
    /\ \A F \in FilterSets : F \subseteq Names
    /\ MaxDepth \in Nat
    /\ MaxEntries \in Nat

VARIABLES max_size,  \* data::max_size
          owner,     \* the thread that owns the recursive mutex
          count,     \* how many times it has locked it
          entries,   \* the identities of the entries in the log
          filters,   \* the names that are not logged
          name,      \* the name of every entry ever added
          written,   \* the entries whose result has been written
          lpc,       \* "run", or the step of a log function a thread is in
          stack,     \* the LogEntry objects alive in each thread
          taken,     \* history: the entries clear() returned, in order
          dropped    \* history: the entries the filter removed

logVars == <<max_size, owner, count, entries, filters, name, written, lpc, stack, taken, dropped>>

\* A LogEntry that logs nothing: the log was full or disabled.
NoEntry == 0

\* Outside of the log's functions, between empty() and clear(), or in new_entry.
Steps == {<<"run">>, <<"clear">>} \cup {<<"want", f>> : f \in Names}

\* A LogEntry object: its entry, and whether the function it logs has returned.
Frame == [entry : Nat, returned : BOOLEAN]

LogInit ==
    /\ max_size = InitialSize
    /\ owner = NoThread
    /\ count = 0
    /\ entries = <<>>
    /\ filters = {}
    /\ name = <<>>
    /\ written = {}
    /\ lpc = [t \in Threads |-> <<"run">>]
    /\ stack = [t \in Threads |-> <<>>]
    /\ taken = <<>>
    /\ dropped = {}

Top(t) == stack[t][Len(stack[t])]
Push(t, e) == stack' = [stack EXCEPT ![t] = Append(@, [entry |-> e, returned |-> FALSE])]

\* A thread inside the function its innermost LogEntry logs, or outside of all.
Running(t) ==
    /\ lpc[t] = <<"run">>
    /\ stack[t] # <<>> => ~Top(t).returned

\* std::recursive_mutex
CanLock(t) == owner \in {NoThread, t}
Unlock == IF count = 1 THEN owner' = NoThread /\ count' = 0
                       ELSE owner' = owner /\ count' = count - 1

-----------------------------------------------------------------------------
(* LogEntry *)

\* The constructor calls new_entry, which first reads max_size with no lock.
BeginEntry(t, f) ==
    /\ Running(t)
    /\ Len(stack[t]) < MaxDepth
    /\ Len(name) + Cardinality({u \in Threads : lpc[u][1] = "want"}) < MaxEntries
    /\ IF max_size = 0
       THEN Push(t, NoEntry) /\ UNCHANGED lpc
       ELSE lpc' = [lpc EXCEPT ![t] = <<"want", f>>] /\ UNCHANGED stack
    /\ UNCHANGED <<max_size, owner, count, entries, filters, name, written, taken, dropped>>

\* Mutant: new_entry unlocks when it returns, the Entry keeps no lock.
AddEntryUnlocked(t) ==
    /\ lpc[t][1] = "want"
    /\ CanLock(t)
    /\ Len(entries) < max_size
    /\ name' = Append(name, lpc[t][2])
    /\ entries' = Append(entries, Len(name) + 1)
    /\ Push(t, Len(name) + 1)
    /\ lpc' = [lpc EXCEPT ![t] = <<"run">>]
    /\ UNCHANGED <<max_size, owner, count, filters, written, taken, dropped>>

\* new_entry has the mutex and there is room: the entry is added and the Entry
\* object keeps the mutex.
AddEntry(t) ==
    /\ lpc[t][1] = "want"
    /\ CanLock(t)
    /\ Len(entries) < max_size
    /\ owner' = t /\ count' = count + 1
    /\ name' = Append(name, lpc[t][2])
    /\ entries' = Append(entries, Len(name) + 1)
    /\ Push(t, Len(name) + 1)
    /\ lpc' = [lpc EXCEPT ![t] = <<"run">>]
    /\ UNCHANGED <<max_size, filters, written, taken, dropped>>

\* new_entry has the mutex and the log is full: unlock right away, return null.
LogFull(t) ==
    /\ lpc[t][1] = "want"
    /\ CanLock(t)
    /\ Len(entries) >= max_size
    /\ Push(t, NoEntry)
    /\ lpc' = [lpc EXCEPT ![t] = <<"run">>]
    /\ UNCHANGED <<max_size, owner, count, entries, filters, name, written, taken, dropped>>

\* print_result: the function has returned and its result is written.
PrintResult(t) ==
    /\ stack[t] # <<>>
    /\ Running(t)
    /\ stack' = [stack EXCEPT ![t][Len(stack[t])].returned = TRUE]
    /\ written' = IF Top(t).entry = NoEntry THEN written ELSE written \cup {Top(t).entry}
    /\ UNCHANGED <<max_size, owner, count, entries, filters, name, lpc, taken, dropped>>

\* Mutant: the filter deletes the last entry of the log.
DeleteLast(e) == SubSeq(entries, 1, Len(entries) - 1)

\* The entries without e: it is found by its address and deleted by its index, and
\* the ones after it move to the front by one place.
DeleteEntry(e) == RemoveAt(entries, CHOOSE i \in DOMAIN entries : entries[i] = e)

\* The unique_lock of an Entry; the null Entry has none.
Release(e) == IF e = NoEntry THEN UNCHANGED <<owner, count>> ELSE Unlock

\* ~Entry: a filtered entry is removed, then the mutex is unlocked.
EndEntry(t) ==
    /\ lpc[t] = <<"run">>
    /\ stack[t] # <<>>
    /\ Top(t).returned
    /\ LET e == Top(t).entry
           drop == e # NoEntry /\ name[e] \in filters
       IN  /\ entries' = IF drop THEN DeleteEntry(e) ELSE entries
           /\ dropped' = IF drop THEN dropped \cup {e} ELSE dropped
           /\ Release(e)
    /\ stack' = [stack EXCEPT ![t] = SubSeq(@, 1, Len(@) - 1)]
    /\ UNCHANGED <<max_size, filters, name, written, lpc, taken>>

-----------------------------------------------------------------------------
(* The functions of ToxJniLog, called outside of logged calls *)

\* tox4jLastLog asks empty() first, locking and unlocking the mutex.
LastLog(t) ==
    /\ lpc[t] = <<"run">> /\ stack[t] = <<>>
    /\ CanLock(t)
    /\ lpc' = IF entries = <<>> THEN lpc ELSE [lpc EXCEPT ![t] = <<"clear">>]
    /\ UNCHANGED <<max_size, owner, count, entries, filters, name, written, stack, taken, dropped>>

\* Mutant: clear() does not lock the log.
ClearUnlocked(t) ==
    /\ lpc[t] = <<"clear">>
    /\ taken' = taken \o entries
    /\ entries' = <<>>
    /\ lpc' = [lpc EXCEPT ![t] = <<"run">>]
    /\ UNCHANGED <<max_size, owner, count, filters, name, written, stack, dropped>>

\* clear() locks it again, serialises the log and empties it.
Clear(t) ==
    /\ lpc[t] = <<"clear">>
    /\ CanLock(t)
    /\ taken' = taken \o entries
    /\ entries' = <<>>
    /\ lpc' = [lpc EXCEPT ![t] = <<"run">>]
    /\ UNCHANGED <<max_size, owner, count, filters, name, written, stack, dropped>>

\* tox4jSetMaxLogSize, with no lock.
SetMaxSize(t, n) ==
    /\ lpc[t] = <<"run">> /\ stack[t] = <<>>
    /\ max_size' = n
    /\ UNCHANGED <<owner, count, entries, filters, name, written, lpc, stack, taken, dropped>>

\* tox4jSetLogFilter
SetFilter(t, F) ==
    /\ lpc[t] = <<"run">> /\ stack[t] = <<>>
    /\ CanLock(t)
    /\ filters' = F
    /\ UNCHANGED <<max_size, owner, count, entries, name, written, lpc, stack, taken, dropped>>

-----------------------------------------------------------------------------

LogNext ==
    \E t \in Threads :
        \/ \E f \in Names : BeginEntry(t, f)
        \/ AddEntry(t) \/ LogFull(t)
        \/ PrintResult(t) \/ EndEntry(t)
        \/ LastLog(t) \/ Clear(t)
        \/ \E n \in MaxSizes : SetMaxSize(t, n)
        \/ \E F \in FilterSets : SetFilter(t, F)

LogSpec == LogInit /\ [][LogNext]_logVars

-----------------------------------------------------------------------------
(* Properties *)

\* The types of the variables: entries are names that were registered, and a result is
\* only written for one of them.
LogTypeOK ==
    /\ max_size \in Int
    /\ owner \in Threads \cup {NoThread}
    /\ count \in Nat
    /\ entries \in Seq(Nat \ {0})
    /\ filters \subseteq Names
    /\ name \in Seq(Names)
    /\ written \subseteq DOMAIN name
    /\ lpc \in [Threads -> Steps]
    /\ stack \in [Threads -> Seq(Frame)]
    /\ taken \in Seq(Nat \ {0})
    /\ dropped \subseteq DOMAIN name

\* The entries a thread is writing.
OpenEntries(t) == {frame.entry : frame \in Range(stack[t])} \ {NoEntry}

\* The mutex counts exactly the entries its owner has open, and no other thread
\* has one: "Only one thread can operate on the log at the same time".
OneWriter ==
    /\ (owner = NoThread) <=> (count = 0)
    /\ \A t \in Threads :
           Cardinality(OpenEntries(t)) = (IF owner = t THEN count ELSE 0)

\* clear() returns only entries whose result has been written: the lock "ensures
\* that any writes to the log entry are done before any other operations (in
\* particular, clear()) occur".
TakenComplete == \A i \in DOMAIN taken : taken[i] \in written

\* The entry of a running call is in the log until the call ends, so that ~Entry
\* finds it and its assertion cannot fail, and the writes of print_result go to
\* an entry that still exists.
OpenEntryStored == \A t \in Threads : OpenEntries(t) \subseteq Range(entries)

\* Every entry ever added is in one place: still in the log, returned once by
\* clear(), or removed by the filter.  Both lists keep the order of the calls.
NothingLost ==
    LET all == taken \o entries
    IN  /\ Range(all) \cup dropped = DOMAIN name
        /\ Range(all) \cap dropped = {}
        /\ \A i, j \in DOMAIN all : i < j => all[i] < all[j]

=============================================================================
