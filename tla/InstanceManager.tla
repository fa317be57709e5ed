--------------------------- MODULE InstanceManager --------------------------
(***************************************************************************)
(* The native instance manager, src/main/cpp/util/instance_manager.h, at   *)
(* the level of its mutexes.                                               *)
(*                                                                         *)
(* Threads call add, kill, finalize and with_instance.  Every call first   *)
(* locks the manager's mutex.  kill and with_instance then lock the mutex  *)
(* of one instance WHILE THEY STILL HOLD the manager's; kill keeps both    *)
(* until the object is destroyed, with_instance releases the manager's     *)
(* once it has copied the pointers out and runs func under the instance's. *)
(* An object and its events come and go hand in hand, so one identity      *)
(* stands for the pair.  A Java exception is the outcome of a call and is  *)
(* recorded in thrown.                                                     *)
(***************************************************************************)
EXTENDS Integers, Sequences, Functions

CONSTANTS Threads,   \* the JVM threads that make native calls
          Objects,   \* the identities of the native objects (Tox or ToxAV)
          Numbers,   \* the instance numbers callers pass, right or wrong
          NoThread,  \* the owner of an unlocked mutex
          NoObject   \* the null pointer

ASSUME ConstantsAssumption ==
    /\ Numbers \subseteq Int
    /\ NoThread \notin Threads
    /\ NoObject \notin Objects

VARIABLES instances, \* the vector of pointers; number n is at index n
          locks,     \* the deque of mutexes: locks[n] is the owner of number n's
          freelist,  \* the finalised numbers, the most recent one last
          mutex,     \* the owner of the manager's mutex
          alive,     \* the objects created and not yet destroyed
          created,   \* the objects ever created
          pc,        \* where each thread is
          op,        \* the operation it executes
          num,       \* the instance number it was given
          obj,       \* the pointer it carries in a local variable
          thrown     \* the Java exception its last call ended with

managerVars == <<instances, locks, freelist, mutex>>
objectVars == <<alive, created>>
threadVars == <<pc, op, num, obj, thrown>>
vars == <<managerVars, objectVars, threadVars>>

Operations == {"add", "kill", "finalize", "with_instance"}
Exceptions == {"none", "IllegalState", "ToxKilled"}

\* "lock": waits for mutex.  "locked": owns it.  "wait": owns it and waits for
\* the instance's.  "dying": kill has moved the pointers out and runs the
\* destructors.  "func": with_instance runs func.  "null": it got no object.
Locations == {"idle", "lock", "locked", "wait", "dying", "func", "null"}

Init ==
    /\ instances = <<>>
    /\ locks = <<>>
    /\ freelist = <<>>
    /\ mutex = NoThread
    /\ alive = {}
    /\ created = {}
    /\ pc = [t \in Threads |-> "idle"]
    /\ op = [t \in Threads |-> "add"]
    /\ num = [t \in Threads |-> 0]
    /\ obj = [t \in Threads |-> NoObject]
    /\ thrown = [t \in Threads |-> "none"]

-----------------------------------------------------------------------------
(* The calls *)

Enter(t, operation, n, o) ==
    /\ pc[t] = "idle"
    /\ pc' = [pc EXCEPT ![t] = "lock"]
    /\ op' = [op EXCEPT ![t] = operation]
    /\ num' = [num EXCEPT ![t] = n]
    /\ obj' = [obj EXCEPT ![t] = o]
    /\ thrown' = [thrown EXCEPT ![t] = "none"]

Leave(t, exception) ==
    /\ pc' = [pc EXCEPT ![t] = "idle"]
    /\ num' = [num EXCEPT ![t] = 0]
    /\ obj' = [obj EXCEPT ![t] = NoObject]
    /\ thrown' = [thrown EXCEPT ![t] = exception]
    /\ UNCHANGED op

\* toxNew and toxavNew: the native library made a new object, and the caller
\* hands it over.
CallAdd(t, o) ==
    /\ o \notin created
    /\ created' = created \cup {o}
    /\ alive' = alive \cup {o}
    /\ Enter(t, "add", 0, o)
    /\ UNCHANGED managerVars

Call(t, operation, n) ==
    /\ Enter(t, operation, n, NoObject)
    /\ UNCHANGED <<managerVars, objectVars>>

CallKill(t, n) == Call(t, "kill", n)
CallFinalize(t, n) == Call(t, "finalize", n)
CallWithInstance(t, n) == Call(t, "with_instance", n)

LockManager(t) ==
    /\ pc[t] = "lock"
    /\ mutex = NoThread
    /\ mutex' = t
    /\ pc' = [pc EXCEPT ![t] = "locked"]
    /\ UNCHANGED <<instances, locks, freelist, objectVars, op, num, obj, thrown>>

-----------------------------------------------------------------------------
(* check_instance_number, called with the manager locked *)

\* Mutant: a number on the freelist passes the check.
CheckIgnoringFreelist(n) == n > 0 /\ n <= Len(instances)

\* All four tests of the code.
CheckInstanceNumber(n) ==
    /\ n > 0
    /\ n <= Len(instances)
    /\ n \notin Range(freelist)

\* The exception of a failed check: none for number 0 where allow_zero is given.
CheckException(operation, n) ==
    IF n = 0 /\ operation \in {"kill", "finalize"} THEN "none" ELSE "IllegalState"

\* Mutant: the early return keeps the manager locked.
RejectedLocked(t) ==
    /\ pc[t] = "locked"
    /\ op[t] # "add"
    /\ ~CheckInstanceNumber(num[t])
    /\ Leave(t, CheckException(op[t], num[t]))
    /\ UNCHANGED <<managerVars, objectVars>>

\* Mutant: a null instance is skipped quietly by every operation.
RejectedQuietly(t) ==
    /\ pc[t] = "locked"
    /\ op[t] # "add"
    /\ ~CheckInstanceNumber(num[t])
    /\ mutex' = NoThread
    /\ Leave(t, IF num[t] = 0 THEN "none" ELSE "IllegalState")
    /\ UNCHANGED <<instances, locks, freelist, objectVars>>

\* The check fails: kill and finalize return, with_instance finds a pending
\* exception and returns a default value.
Rejected(t) ==
    /\ pc[t] = "locked"
    /\ op[t] # "add"
    /\ ~CheckInstanceNumber(num[t])
    /\ mutex' = NoThread
    /\ Leave(t, CheckException(op[t], num[t]))
    /\ UNCHANGED <<instances, locks, freelist, objectVars>>

\* The check succeeds: kill and with_instance go on to the instance's mutex.
Accepted(t) ==
    /\ pc[t] = "locked"
    /\ op[t] \in {"kill", "with_instance"}
    /\ CheckInstanceNumber(num[t])
    /\ pc' = [pc EXCEPT ![t] = "wait"]
    /\ UNCHANGED <<managerVars, objectVars, op, num, obj, thrown>>

-----------------------------------------------------------------------------
(* add *)

\* The last number that became free is used again.  The assertions of the code
\* (the number is at least 1 and its slot is empty) are part of FreelistSound.
AddReuse(t) ==
    /\ pc[t] = "locked"
    /\ op[t] = "add"
    /\ freelist # <<>>
    /\ instances' = [instances EXCEPT ![freelist[Len(freelist)]] = obj[t]]
    /\ freelist' = SubSeq(freelist, 1, Len(freelist) - 1)
    /\ mutex' = NoThread
    /\ Leave(t, "none")
    /\ UNCHANGED <<locks, objectVars>>

\* Mutant: a new number gets no mutex.
AddAppendNoLock(t) ==
    /\ pc[t] = "locked"
    /\ op[t] = "add"
    /\ freelist = <<>>
    /\ instances' = Append(instances, obj[t])
    /\ mutex' = NoThread
    /\ Leave(t, "none")
    /\ UNCHANGED <<locks, freelist, objectVars>>

AddAppend(t) ==
    /\ pc[t] = "locked"
    /\ op[t] = "add"
    /\ freelist = <<>>
    /\ instances' = Append(instances, obj[t])
    /\ locks' = Append(locks, NoThread)
    /\ mutex' = NoThread
    /\ Leave(t, "none")
    /\ UNCHANGED <<freelist, objectVars>>

-----------------------------------------------------------------------------
(* kill *)

\* Mutant: the pointers are moved out without the instance's mutex.
KillTakeUnlocked(t) ==
    /\ pc[t] = "wait"
    /\ op[t] = "kill"
    /\ obj' = [obj EXCEPT ![t] = instances[num[t]]]
    /\ instances' = [instances EXCEPT ![num[t]] = NoObject]
    /\ pc' = [pc EXCEPT ![t] = "dying"]
    /\ UNCHANGED <<locks, freelist, mutex, objectVars, op, num, thrown>>

\* Lock the instance and move the pointers out of the vector.
KillTake(t) ==
    /\ pc[t] = "wait"
    /\ op[t] = "kill"
    /\ locks[num[t]] = NoThread
    /\ locks' = [locks EXCEPT ![num[t]] = t]
    /\ obj' = [obj EXCEPT ![t] = instances[num[t]]]
    /\ instances' = [instances EXCEPT ![num[t]] = NoObject]
    /\ pc' = [pc EXCEPT ![t] = "dying"]
    /\ UNCHANGED <<freelist, mutex, objectVars, op, num, thrown>>

\* The destructors have run, inside both critical sections.
KillDone(t) ==
    /\ pc[t] = "dying"
    /\ alive' = alive \ {obj[t]}
    /\ locks' = [locks EXCEPT ![num[t]] = NoThread]
    /\ mutex' = NoThread
    /\ Leave(t, "none")
    /\ UNCHANGED <<instances, freelist, created>>

-----------------------------------------------------------------------------
(* finalize *)

FinalizeLeaked(t) ==
    /\ pc[t] = "locked"
    /\ op[t] = "finalize"
    /\ CheckInstanceNumber(num[t])
    /\ instances[num[t]] # NoObject
    /\ mutex' = NoThread
    /\ Leave(t, "IllegalState")
    /\ UNCHANGED <<instances, locks, freelist, objectVars>>

\* Mutant: finalize does not look whether the instance was killed.
FinalizeFreeAny(t) ==
    /\ pc[t] = "locked"
    /\ op[t] = "finalize"
    /\ CheckInstanceNumber(num[t])
    /\ freelist' = Append(freelist, num[t])
    /\ mutex' = NoThread
    /\ Leave(t, "none")
    /\ UNCHANGED <<instances, locks, objectVars>>

FinalizeFree(t) ==
    /\ pc[t] = "locked"
    /\ op[t] = "finalize"
    /\ CheckInstanceNumber(num[t])
    /\ instances[num[t]] = NoObject
    /\ freelist' = Append(freelist, num[t])
    /\ mutex' = NoThread
    /\ Leave(t, "none")
    /\ UNCHANGED <<instances, locks, objectVars>>

-----------------------------------------------------------------------------
(* with_instance *)

\* Mutant: the pointers are copied out before the instance's mutex is locked,
\* and the manager is unlocked in between.
GetUnlocked(t) ==
    /\ pc[t] = "wait"
    /\ op[t] = "with_instance"
    /\ obj' = [obj EXCEPT ![t] = instances[num[t]]]
    /\ pc' = [pc EXCEPT ![t] = IF instances[num[t]] = NoObject THEN "null" ELSE "func"]
    /\ mutex' = NoThread
    /\ UNCHANGED <<instances, locks, freelist, objectVars, op, num, thrown>>

\* Mutant: with_instance does not look for the null pointer.
GetUnchecked(t) ==
    /\ pc[t] = "wait"
    /\ op[t] = "with_instance"
    /\ locks[num[t]] = NoThread
    /\ locks' = [locks EXCEPT ![num[t]] = t]
    /\ obj' = [obj EXCEPT ![t] = instances[num[t]]]
    /\ pc' = [pc EXCEPT ![t] = "func"]
    /\ mutex' = NoThread
    /\ UNCHANGED <<instances, freelist, objectVars, op, num, thrown>>

\* Mutant: the manager stays locked while func runs.
GetKeepingManager(t) ==
    /\ pc[t] = "wait"
    /\ op[t] = "with_instance"
    /\ locks[num[t]] = NoThread
    /\ locks' = [locks EXCEPT ![num[t]] = t]
    /\ obj' = [obj EXCEPT ![t] = instances[num[t]]]
    /\ pc' = [pc EXCEPT ![t] = IF instances[num[t]] = NoObject THEN "null" ELSE "func"]
    /\ UNCHANGED <<mutex, instances, freelist, objectVars, op, num, thrown>>

\* Lock the instance, copy the pointers out and unlock the manager.
Get(t) ==
    /\ pc[t] = "wait"
    /\ op[t] = "with_instance"
    /\ locks[num[t]] = NoThread
    /\ locks' = [locks EXCEPT ![num[t]] = t]
    /\ obj' = [obj EXCEPT ![t] = instances[num[t]]]
    /\ pc' = [pc EXCEPT ![t] = IF instances[num[t]] = NoObject THEN "null" ELSE "func"]
    /\ mutex' = NoThread
    /\ UNCHANGED <<instances, freelist, objectVars, op, num, thrown>>

\* The instance was killed: throw and unlock it.
Killed(t) ==
    /\ pc[t] = "null"
    /\ locks' = [locks EXCEPT ![num[t]] = NoThread]
    /\ Leave(t, "ToxKilled")
    /\ UNCHANGED <<instances, freelist, mutex, objectVars>>

\* func returns, and the unique_lock in the locked object goes away.
Return(t) ==
    /\ pc[t] = "func"
    /\ locks' = [locks EXCEPT ![num[t]] = NoThread]
    /\ Leave(t, "none")
    /\ UNCHANGED <<instances, freelist, mutex, objectVars>>

-----------------------------------------------------------------------------

\* A client thread begins a call.
Start(t) ==
    \/ \E o \in Objects : CallAdd(t, o)
    \/ \E n \in Numbers : CallKill(t, n) \/ CallFinalize(t, n) \/ CallWithInstance(t, n)

\* A thread inside a call takes its next step.
Step(t) ==
    \/ LockManager(t)
    \/ Rejected(t) \/ Accepted(t)
    \/ AddReuse(t) \/ AddAppend(t)
    \/ KillTake(t) \/ KillDone(t)
    \/ FinalizeLeaked(t) \/ FinalizeFree(t)
    \/ Get(t) \/ Killed(t) \/ Return(t)

Next == \E t \in Threads : Start(t) \/ Step(t)

Spec == Init /\ [][Next]_vars

-----------------------------------------------------------------------------
(* Properties *)

\* Every variable holds a value of its kind, and the two lists have equal
\* lengths: "The instances and locks lists are always equal in size (class
\* invariant)".
TypeOK ==
    /\ instances \in Seq(Objects \cup {NoObject})
    /\ locks \in Seq(Threads \cup {NoThread})
    /\ Len(locks) = Len(instances)
    /\ freelist \in Seq(Int)
    /\ mutex \in Threads \cup {NoThread}
    /\ alive \in SUBSET Objects
    /\ created \in SUBSET Objects
    /\ pc \in [Threads -> Locations]
    /\ op \in [Threads -> Operations]
    /\ num \in [Threads -> Int]
    /\ obj \in [Threads -> Objects \cup {NoObject}]
    /\ thrown \in [Threads -> Exceptions]

\* The manager's mutex is owned by exactly the threads between LockManager and
\* the end of their critical section.
InCriticalSection(t) == pc[t] \in {"locked", "wait", "dying"}

\* A thread that owns the mutex of the instance it was called with.
HoldsInstance(t) == pc[t] \in {"dying", "func", "null"}

\* The locks protect what the comments say: at most one thread is in the
\* manager's critical section, each instance mutex has the owner the code
\* expects, and every owner is inside the call that locked it.
LockSound ==
    /\ \A t \in Threads : InCriticalSection(t) <=> mutex = t
    /\ \A t \in Threads : HoldsInstance(t) =>
           num[t] \in DOMAIN locks /\ locks[num[t]] = t
    /\ \A n \in DOMAIN locks : locks[n] # NoThread =>
           HoldsInstance(locks[n]) /\ num[locks[n]] = n

\* Every number on the freelist exists, is there once ("An instance should
\* never be on this list twice") and names no object: the assertions in add
\* cannot stop the process, and add never overwrites an object it manages.
FreelistSound ==
    /\ \A i \in DOMAIN freelist :
           freelist[i] \in DOMAIN instances /\ instances[freelist[i]] = NoObject
    /\ \A i, j \in DOMAIN freelist : freelist[i] = freelist[j] => i = j

\* While func runs on an object, the object is alive and still the one its
\* number names, and no other thread's func runs on it: no use after tox_kill,
\* "multiple concurrent calls to a single instance are not possible".
FuncSafe ==
    \A t \in Threads : pc[t] = "func" =>
        /\ obj[t] \in alive
        /\ instances[num[t]] = obj[t]
        /\ \A u \in Threads \ {t} : pc[u] \in {"func", "dying"} => obj[u] # obj[t]

\* A thread that owns the object it points to: add before the object is in the
\* vector, kill after it was moved out.
Carries(t) == obj[t] # NoObject /\ pc[t] # "func"

AliveOwned ==
    \A o \in alive : \/ \E n \in DOMAIN instances : instances[n] = o
                     \/ \E t \in Threads : Carries(t) /\ obj[t] = o

SlotOwns ==
    \A n \in DOMAIN instances : instances[n] # NoObject =>
        /\ instances[n] \in alive
        /\ \A m \in DOMAIN instances : instances[m] = instances[n] => m = n

CarrierOwns ==
    \A t \in Threads : Carries(t) =>
        /\ obj[t] \in alive
        /\ \A n \in DOMAIN instances : instances[n] # obj[t]
        /\ \A u \in Threads : Carries(u) /\ obj[u] = obj[t] => u = t

\* Every living object has one owner, a slot of the vector or a thread that is
\* adding or destroying it, and nothing else is pointed to: no object is lost
\* for ever, destroyed twice or named by two numbers.
OneOwner == AliveOwned /\ SlotOwns /\ CarrierOwns

\* A with_instance call that returns without an exception has run func: the
\* null instance, a killed instance and a finalised number are never skipped
\* in silence.
NoSilentSkip ==
    [][\A t \in Threads :
          (op[t] = "with_instance" /\ pc[t] # "idle" /\ pc'[t] = "idle")
              => (pc[t] = "func" <=> thrown'[t] = "none")]_vars

\* "multiple concurrent calls to different instances is permitted", and the
\* manager is unlocked before func runs because a long func "would
\* unnecessarily block the manager during its execution": a call on one number
\* never waits for a func that runs on another number.  The code breaks this: a
\* second call on the busy instance waits for it with the manager locked.
IndependentCalls ==
    ~ \E t, u, v \in Threads :
        /\ pc[t] = "func"
        /\ pc[u] = "wait" /\ locks[num[u]] = t /\ mutex = u
        /\ pc[v] = "lock" /\ op[v] = "with_instance" /\ num[v] # num[t]
        /\ num[v] \in DOMAIN instances /\ instances[num[v]] # NoObject

-----------------------------------------------------------------------------
(* The strengthening that makes the safety properties inductive *)

\* What each location says of the thread's local variables.
LocalSound ==
    /\ alive \subseteq created
    /\ \A t \in Threads :
        /\ pc[t] = "idle" => obj[t] = NoObject
        /\ pc[t] \in {"lock", "locked"} => (op[t] = "add" <=> obj[t] # NoObject)
        /\ pc[t] = "wait" => op[t] \in {"kill", "with_instance"} /\ obj[t] = NoObject
        /\ pc[t] = "dying" => op[t] = "kill" /\ instances[num[t]] = NoObject
        /\ pc[t] = "func" => op[t] = "with_instance" /\ obj[t] # NoObject
        /\ pc[t] = "null" => op[t] = "with_instance" /\ obj[t] = NoObject
        /\ pc[t] \in {"wait", "dying"} => CheckInstanceNumber(num[t])

InductiveInv ==
    /\ TypeOK
    /\ LockSound
    /\ FreelistSound
    /\ FuncSafe
    /\ OneOwner
    /\ LocalSound

-----------------------------------------------------------------------------
(* The abstract specification *)

\* The objects that are destroyed or being destroyed.
Gone == {o \in created : o \notin alive \/ \E t \in Threads : pc[t] = "dying" /\ obj[t] = o}

\* The object each thread's func works on.
Using == [t \in Threads |-> IF pc[t] = "func" THEN obj[t] ELSE NoObject]

Registry == INSTANCE InstanceRegistry WITH
    bound <- instances, retired <- Range(freelist), gone <- Gone, using <- Using

\* The manager implements the registry: a number is bound in add, its object
\* counts as gone once kill has moved it out, a thread uses an object while func
\* runs, and every step is a step of the registry or invisible to it.  Numbers
\* are never rebound without kill and finalize, and kill waits for func.
RefinesRegistry == Registry!Spec

=============================================================================
