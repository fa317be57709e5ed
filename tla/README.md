# Tox4j (C backend): TLA+ specification and proofs

Tox4j gives JVM programs an object-oriented interface to c-toxcore. A Kotlin
layer (`ToxCoreImpl`, `ToxAvImpl`) calls static native methods with an *instance
number*; a C++ layer finds the native object of that number, calls the tox
library on it, and sends events back as a serialised message that the Kotlin
layer turns into calls of the client's handlers.

This directory models that machinery in TLA+: the state and the steps of the
code, the properties it must have, TLC models for small instances, and proofs
checked by TLAPS for instances of any size.

Source paths below are relative to the repository; `cpp/` is `src/main/cpp/` and
`jni/` is `src/main/java/im/tox/tox4j/impl/jni/`.

## 1. The system

| Component | State | Operations | Interacts with |
|---|---|---|---|
| Instance manager (`cpp/util/instance_manager.h`), one for Tox and one for ToxAV | the vector of objects, a mutex for each, the freelist, the manager's mutex | `add`, `kill`, `finalize`, `with_instance` | called by every native function |
| Call log (`cpp/util/debug_log.*`) | the entries, `max_size`, the filter, a recursive mutex | `LogEntry` (construct, `print_result`, destroy), `clear`, `empty`, `max_size`, `filter` | a `LogEntry` lives as long as the native call it logs |
| Native functions (`cpp/tox4j/ToxInstances.h`, `cpp/ToxCore/*.cpp`, `cpp/ToxAv/*.cpp`) | none of their own | `toxNew`, `toxKill`, `toxFinalize`, `toxIterate`, some fifty wrappers, `invoke*` | lock the manager, an instance and the log in several orders |
| `ToxCoreImpl`, `ToxAvImpl`, `Event` (`jni/`) | the on-close callbacks, the ids of the callbacks, the instance numbers | constructors, `close`, finalizers | the finalizer thread; `close` of a core closes its avs |
| Methods of `ToxCoreImpl` (`jni/ToxCoreImpl.kt`, `cpp/ToxCore/*.cpp`) | what toxcore keeps for an instance | bootstrap, friends, files, getters and setters | Kotlin checks, C++ asserts and converts, toxcore reads and writes |
| Event batches (`cpp/ToxCore/lifecycle.cpp`, `jni/*EventDispatch.kt`) | the `Events` message of an instance, the batch a dispatch is working on | callbacks, `iterate`, `invoke*`, dispatch | handlers may throw, or call `iterate` again |
| Conversions of ToxAv (`cpp/ToxAv/`, `cpp/util/to_bytes.h`, `jni/ToxAvProtoConverter.kt`) | none | frame sizes, PCM bytes, call states, video planes | between Java arrays and toxav |
| Error codes (`cpp/*/generated/errors.cpp`, `cpp/util/exceptions.cpp`) | none | from a code of a library to a Java exception | every function with an error code |
| Enums (`cpp/*/generated/enums.cpp`, `jni/ToxCoreProtoConverter.kt`) | none | ordinals to enumerators, enumerators to messages and back | arguments of methods, fields of events |
| ToxCrypto (`cpp/ToxCrypto/`, `jni/ToxCryptoImpl.kt`) | none; the client keeps keys and saves | derive, encrypt, decrypt, salt, hash | toxencryptsave |
| Contents of the log (`cpp/util/debug_log.*`, `jni/ToxJniLog.kt`) | none | arguments, results and times to text | every logged call |

What makes it hard: any JVM thread may call any native function at any time;
three kinds of mutexes are taken in different orders; numbers are reused after
finalizers that run in their own thread and in any order; callbacks remove
themselves from the list that is being iterated over; events are taken out under
a lock and handled without it. The hazards are listed, with the line where each
bites and the properties that cover it, in `PROJECT.json`.

What correctness means for each component:

* **Instance manager.** A number names one object, until it is killed *and*
  finalised. No function runs on a killed object or concurrently with another
  one on the same object. Every call returns. Bad numbers throw.
* **Call log.** One writer at a time; an entry is complete when it is fetched;
  every entry is fetched once or filtered.
* **Native functions.** No circular wait; no lock outlives its call; a core lives
  while an av is being made for it.
* **Life cycle.** An av is killed before its core; nobody uses a number that may
  be somebody else's; what the client forgets is reclaimed.
* **Methods.** What Kotlin lets through, no assertion in C++ ends the process for;
  toxcore writes inside the vector it is given, although its size was asked for in
  an earlier step; a call that waited for its locks works on the instance its
  number named when the method read it; numbers keep their meaning across the
  widths.
* **Events.** Each event is handled at most once, is only lost with the batch of
  a handler or a conversion that threw, and comes in the order the dispatch
  promises.
* **Conversions.** Sizes agree with what the library reads, values survive; a
  failure is an exception that says which one, and never a value.
* **ToxCrypto.** Buffers are as long as what the library writes; a save can be
  read again with its passphrase alone.
* **Contents of the log.** Nothing outside of an argument is read; what is printed
  is what was called.

## 2. Modules

| Module | Models | Used by |
|---|---|---|
| `InstanceRegistry` | what the manager promises, without locks | refined by `InstanceManager` |
| `InstanceManager` | `instance_manager.h`, one action per critical step | `InstanceManagerFair`, `NativeCalls`, the proofs |
| `InstanceManagerFair` | the manager with finitely many calls and fairness | liveness only |
| `InstanceManagerProofs` | the inductive invariant, its consequences, and that the manager implements the registry | `NativeCallsProofs` |
| `JniLog` | `debug_log.{h,cpp}`, `ToxCore/debug.cpp` | `NativeCalls` |
| `NativeCalls` | composes the two managers and the log as the native functions do | |
| `NativeLifetimes` | the order of native calls the two classes promise | refined by `ToxLifecycle` |
| `ToxLifecycle` | `ToxCoreImpl.kt`, `ToxAvImpl.kt`, `internal/Event.kt` | |
| `EventChannel` | what `iterate` promises to the handlers | refined by `ToxEvents` |
| `ToxEvents` | callbacks, `toxIterate`, `invoke*`, the dispatch objects | |
| `CoreCalls` | the methods of `ToxCoreImpl.kt` and `ToxCore/*.cpp`, on `InstanceRegistry` | |
| `MachineInts` | signed and unsigned integers of a width | `AvFrames`, `CoreCalls` |
| `Exchange` | a request and its reply | the five modules below |
| `ToxErrors` | `*/generated/errors.cpp`, `ToxInstances.h`, `exceptions.cpp` | `AvFrames`, `ToxCrypto` |
| `AvFrames` | `ToxAv/av.cpp`, `ToxAv/lifecycle.cpp`, `to_bytes.h`, `ToxAvProtoConverter.kt` | `Conversions` |
| `ToxCrypto` | `encryptsave.cpp`, `hash.cpp`, `ToxCryptoImpl.kt`, `ArrayToJava.h` | `Conversions` |
| `ToxEnums` | `*/generated/enums.cpp`, the switches of the callbacks, `ToxCoreProtoConverter.kt` | `Conversions` |
| `LogValues` | `print_arg`, `print_args`, `print_result`, the printing of `ToxJniLog.kt` | `Conversions` |
| `Conversions` | one client of all of them | |
| `JniLogProofs`, `NativeCallsProofs`, `ToxLifecycleProofs`, `CoreCallsProofs`, `ToxEventsProofs`, `ConversionsProofs` | the inductive invariant of the module they extend, and its theorems | TLAPS |
| `ProofLemmas` | sequences, least and greatest elements, powers of two | every module of proofs |
| `MC*` | the constants and symmetry sets for TLC | |

Operators marked *Mutant* in the modules are not part of the specifications. Each
is a plausible mistake in the definition that follows it; `PROJECT.json` says
which property is violated when it takes that definition's place.

### InstanceManager

`instances`, `locks`, `freelist` and `mutex` are the members of the class;
`alive` and `created` stand for the objects themselves. Number `n` of the code is
index `n` here (the code subtracts 1). A thread's `pc` says where in a call it
is: waiting for the manager (`lock`), inside its critical section (`locked`),
waiting for the instance inside that critical section (`wait`), destroying
(`dying`), running `func` (`func`), or having found a null pointer (`null`).
A step is what happens between two points at which another thread can make a
difference: `LockManager`; the check of the number with its exceptions
(`Rejected`, `Accepted`); the two ways of `add`; `KillTake`, which locks the
instance and moves the pointers out, and `KillDone`, after the destructors;
`FinalizeLeaked` and `FinalizeFree`; `Get`, which locks the instance, copies the
pointers and unlocks the manager, and `Killed` or `Return`. `thrown` keeps the
Java exception a call ended with. An object and its events are one identity: the
code asserts that they come and go together.

The refinement mapping to `InstanceRegistry`: `instances` is `bound`, the
freelist as a set is `retired`, an object is `gone` once `kill` has moved it out
of the vector, and a thread is `using` an object while `func` runs.

### JniLog

`max_size` is read and written without the mutex, so `BeginEntry` (the test for
0) and `AddEntry`/`LogFull` (the test with the mutex) are separate steps. The
mutex is recursive: `owner` and `count`. A thread has a `stack` of `LogEntry`
objects, because callbacks that run during `tox_iterate` log as well.
`tox4jLastLog` is two steps, `empty()` and `clear()`. An entry is a number in the
order of `add_entries`; of its contents only "the result was written" is kept.

### NativeCalls

Extends `InstanceManager` for the cores and instantiates it once more, as `Av`,
for the avs, and `JniLog` for the log both share; `job` says what the native
function around them still has to do. `toxNew` builds its `LogEntry`, calls
`tox_new`, and calls `add` while the entry is alive. `toxavNew` does the same
inside `with_instance` of the core, so that it has the core's instance and the
log's mutex when it locks the avs' manager. `with_instance_err`,
`with_instance_ign`, `with_instance_noerr`, `toxIterate` and `toxavIterate` build
their entries inside `func`. `toxKill`, `toxFinalize`, their counterparts for avs
and the `invoke` functions do not log; the functions of `ToxCrypto` log without an
instance. TLC is given a `VIEW` that leaves out the histories of the log and what
remains of a call that is over: no step and no property of the run reads them.

### ToxLifecycle

One `ToxCoreImpl`, several `ToxAvImpl`, one client thread and the finalizer
thread. `callbacks` and `onClose` are the list and the ids of `Event` (slot 0 is
the invalid id); a native instance is `none`, `null` (its constructor threw),
`live`, `killed` or `freed`, which is what `InstanceRegistry` promises of it.
`close` of the core is a loop with an explicit iterator. `platform` says whose
`ArrayList` it is: the JDK's `hasNext` compares the cursor with the current
size, Android's with the size at the start, and both throw from `next` once the
list was modified.

`NativeLifetimes` has the native instances alone: made, killed, freed, with no
callbacks, references or finalizers. The refinement mapping is the identity on
`core` and `av`; every other step of `ToxLifecycle` is a stutter.

### ToxEvents

`events` has one list for each type of event; `iterate` takes them all and
`Flatten` puts them in the order of `dispatch`. A thread's `stack` holds the
dispatches it is in, since a handler may call `iterate`. `order`, the order of
dispatch, is `CoreOrder` or `AvOrder`. The callbacks, and the `invoke` functions
that call them for the client, come in three groups: about friends, about files
and of toxav. Of the arguments, the friend and the file number are kept. Nothing in
`dispatch` catches: an exception of a handler loses the rest of the batch
(`HandlerThrows`), and one of the copying of a video frame, before its handler is
called, the frame as well (`ConversionThrows`).

`EventChannel` has no lists, types, threads or dispatches. The refinement mapping:
`happened` is the number of events that occurred, `fetched` those that are in no
list of the message any more, `handled` the events of the handler calls in their
order, and `dropped` is `lost`.

### CoreCalls

A method is a check in Kotlin, a call of a native function with its assertions
(`Native`, where a failed one ends the process: `aborted`), `Enter` with the
instance's mutex, the tox function, and `Return`. Of the locking only what
`InstanceRegistry` promises is used; `InstanceManagerProofs` proves that the
manager keeps that promise. The getters of arrays ask for the size and fetch the
data in two steps (`GetSize`, `GetData`). Between `Native` and `Enter` a call waits
for the manager and the instance with nothing but a number, while other threads
kill instances, finalizers give numbers free and `toxNew` uses them again;
`meant` keeps which object the number named when the method read it. A finalizer may run
while a call of its own object waits, because the method does not need the object
any more: `Finalize` then lets `meant` be any object, and `RightInstance` says
nothing of that call. An array is its length. Kotlin's checks and the assertions in
C++ use the same `KeySize` and `AddressSize`: that the constants of the two
languages are equal is asserted when the C++ is compiled
(`cpp/ToxCore/generated/constants.h`). Functions that
only pass numbers, enums and arrays with their lengths, and change nothing that
is kept here, are one action for each group.

### Exchange, Conversions and the modules between

A conversion keeps nothing: it is a `request` and a `reply` (`Exchange`), and the
handlers are applied to every input of a small instance. `Conversions` puts the
requests and handlers of the modules together.

* `ToxErrors`. The tables are the switches of the generated files. A reply is a
  value, an exception of the class and code of the failure, or
  `IllegalStateException` for a code without a case. The Code enums of the
  exception classes are not in this repository.
* `AvFrames`. Ints have `IntBits` bits, bytes `ByteBits`. Signed overflow is
  undefined in C++, so `Products` is the set of both results a compiler can
  produce. Rejected frames are thrown with `throw_tox_code`.
* `ToxCrypto`. An array is its length and what it holds. The client keeps up to
  `MaxHeld` arrays (`held`) and passes them on beside arrays of any length and
  content. What toxencryptsave answers is taken from
  `src/test/java/im/tox/tox4j/crypto/ToxCryptoTest.scala`. A reply says how many
  bytes the library wrote and how many there was room for. A salt asked of an
  array that is too short for one is undefined: both answers are possible.
* `ToxEnums`. One sequence for each enum of `enums.cpp` stands for its three
  functions; Kotlin's ordinals and toxcore's numbers are external. A value is
  sent through `valueOf`, received through the switch of its callback, the
  message and the converter, or read as a number (`GetStatus`). The `invoke`
  functions take the first half of one path and the second half of the other, and
  have no log entry.
* `LogValues`. The arguments of the logged functions by type. Which overload of
  `print_args` is chosen depends on the types alone, and on the width of `size_t`:
  both are modelled. Times are real nanoseconds, near the values where the number
  of digits changes; an elapsed time goes through a `uint32` and an `Int` and is
  printed in microseconds, or in nanoseconds if it is shorter than one.

## 3. Runs

Passing runs:

| Run | Instance | Shows |
|---|---|---|
| `manager` | 3 threads, 2 objects, numbers -1..4 | the six conjuncts of the inductive invariant, `RefinesRegistry`, `NoSilentSkip` |
| `manager_live` | 3 threads, 1 object, 2 calls each | `EveryCallReturns` |
| `log` | 2 threads, nesting 2, 4 entries, sizes -1, 0, 1, 2 | one writer, complete entries, none lost (`OneWriter`, `TakenComplete`, `OpenEntryStored`, `NothingLost`) |
| `native` | 2 threads, 2 cores, 1 av, logging on and off | the core outlives `toxavNew`, no circular wait, no lock outlives its call |
| `life` | 3 avs, on the JDK and on Android | the life cycle's invariants, `RefinesLifetimes` |
| `events` | ToxCore and ToxAv, 2 threads, 4 types of events, nesting 2 | `AtMostOnce`, `BatchOrder`, `InOrder`, `RefinesChannel` |
| `calls` | 2 threads, 2 objects that have one number in turn, 3-bit ints, 1-bit ports, arrays up to 3 long | `VectorFits`, `AbortsOnlyUnchecked`, `RightInstance`, `NumbersKept` |
| `conversions` | 4-bit ints, 2-bit bytes, 2 samples; every code and enumerator; 2 passphrases, 3 kept arrays; both widths of `size_t` | sizes, round trips and plane bounds (`SentFits`, `RoundTrip`, `PixelsInside`, `CacheFits`), `ErrorsReported`, `BuffersFit`, `Recovered`, `EnumsKept`, `LogReadsInside`, `LogValueKept` |

Runs that show where the code does not do what it says (`findings` in
`PROJECT.json` quotes the lines):

| Run | Property | What TLC finds |
|---|---|---|
| `manager_convoy` | `IndependentCalls` | a busy instance and one waiting call on it block calls on all other instances |
| `native_deadlock` | `NoCircularWait` | `toxNew` (log, wants manager), a logged call (instance, wants log) and `toxKill` (manager, wants instance) |
| `life_quiet` | `ToxFinalizerQuiet` | an av that closes itself while the core iterates over its callbacks: `ConcurrentModificationException` on the JDK, `toxKill` skipped |
| `events_chunk` | `ArgumentsKept` | `fileRecvChunk` gets the file number as friend number |

### Bounds

* Threads. The interference the manager must exclude is pairwise (a `func` and a
  `kill`, two `func`s); the longest chain of waiting is a thread with an
  instance, one waiting for it with the manager, one waiting for the manager.
  Three threads reach both. The proofs need no bound.
* Objects. Two objects make two numbers live at once, or one number be used
  twice; an object is never made again, so the models are finite.
* Numbers -1..4: negative, the null instance, every valid one, beyond the end.
* Log. Two slots and sizes -1, 0, 1, 2 make the log full, disabled, and over its
  limit; four entries let it be emptied and filled again; nesting 2 is a callback
  inside `tox_iterate`.
* `native` has two threads because the state space with three is beyond a short
  run, and one number besides the invalid ones, which `manager` has; the cycle that
  needs three is what `native_deadlock` finds, and `CircularWaitShape` proves that
  with any number of threads there are no others than those of three.
* Three avs: one closed before, one closing, one to come in a loop over the
  callbacks, with empty slots at the end and in the middle.
* Four events of two types make batches with both orders and dispatches that
  overlap.
* Four-bit ints have every sign and overflow case of a product of two two-bit
  dimensions.
* Keys and saves: a save, its salt and the key derived with it are three arrays,
  so three are kept; two passphrases and two salts (one random, one of the
  client's) give keys that differ in either. The lengths are the smallest at which
  a salt, a key, a box and what is not one are told apart.
* Log values: arrays that are null, empty, at the limit and one beyond it; numbers
  at the ends of their types. Longs have 24 bits and ints 12, so that an `Int` holds
  more than a microsecond; the elapsed times are those around a whole microsecond
  and the ends of the three types.
* `calls`: only calls on one instance can disturb each other, so two threads are
  enough; with two objects and one number, the number is used again; a port has fewer
  bits than an int, so that ports too large and negative ones exist; keys of length
  1 and addresses of length 2 have shorter and longer neighbours and are told from
  each other. Longs are as wide as ints: only their sign matters.

`MaxEntries`, `MaxDepth`, `MaxEvents`, `MaxSamples`, `MaxCalls`, `MaxLength`,
`MaxInfo`, `MaxNumbers`, `MaxFriends`, `MaxData` and `MaxHeld` are bounds of the
models and not of the code.

A log that is disabled still returns the entries it holds (`SetMaxSize` and
`Clear` of `JniLog`), contrary to `ToxJniLog.kt:53-54`. A `ToxAvImpl` that the client drops without
closing it is finalised alive (`FinalizeAv` of `ToxLifecycle`), contrary to
`instance_manager.h:257-258`. A call that takes more than 2^31 nanoseconds is
printed with a negative time or one that is too small (`PrintElapsed` of
`LogValues`), contrary to `ProtoLog.proto:52-54`. No run is spent on these.
`toxavNew` can end in the same kind of circular wait as `toxNew` does in
`native_deadlock`: it holds the log and wants the avs' manager, `toxavKill` holds
that manager and wants an av, and a logged call on the av holds it and wants the
log. `CircularWaitShape` proves that these are the only shapes.

`life` and its variants switch deadlock checking off: the program really ends
when every object has been finalised. So does `calls`, where a failed assertion
ends the process.

### Fairness

Only `InstanceManagerFair` assumes any: weak fairness of each thread's next step
inside a call. The operating system schedules every runnable thread eventually,
and `func` and the destructors return. `std::mutex` is not fair, so nothing is
assumed about who gets a mutex; the number of calls is bounded instead, so that a
thread cannot be overtaken for ever. Without that bound a thread may starve, in
the model as in the code. No thread is forced to make calls.

## 4. Proofs

Every safety property and every refinement of the passing runs is a theorem. TLC
checks a small instance; the theorems hold for every set of threads, objects, avs,
names and numbers, every order of dispatch, integers of every width and arrays of
every length. (`NoCircularWait` alone is false of three threads; it is proved of at
most two, and what is true of any number is two theorems of its own.) The bounds
of the models (`MaxEntries`, `MaxDepth`, `MaxEvents`, `MaxData`, ...) are
arbitrary natural numbers in them.

### What is assumed

The assumptions are those of the modules, and TLC evaluates them in every run:
placeholders such as `NoThread` and `NoObject` are not members of the sets they
are added to; numbers are integers, bounds natural numbers; ports are narrower
than ints, and ints and longs have an even number of bits; a salt and the magic
bytes are a proper part of what encryption adds to the data; an order of dispatch
names every type once and every type is in one. There are no others, except that
`NoCircularWaitCorrect` assumes two threads.

### How each proof goes

Each module of proofs has one inductive invariant, one lemma per action (or per
handler) with one step per conjunct it can disturb, a theorem `...Inductive`, and
one theorem per property that follows from it.

* **Manager** (`InductiveInv`). `FuncSafe` (no use after kill) is not inductive:
  that `KillTake` finds nobody in `func` follows from the instance's mutex being
  free, so `LockSound` must say who owns which mutex; that the slot a `func` took
  its pointer from is not overwritten by `AddReuse` needs `FreelistSound`; that
  two numbers never name one object needs `OneOwner`; and that `KillTake` and
  `Get` index the vector where the check allowed it, although the check was a
  step earlier, needs `LocalSound`: between the check and the lock the manager
  stays locked, so the number stays valid. `NoSilentSkip` is an action property
  and follows from the same invariant.
* **Manager and registry.** `ManagerImplementsRegistry`: the initial state maps to
  the registry's, and under `InductiveInv` each action maps to `Register`, `Kill`,
  `Retire`, `Begin`, `End` or to no step.
* **Log** (`LogInv`). The properties speak of entries, the code of `LogEntry`
  objects on stacks. `StacksSound` connects them: one `LogEntry` per entry, a
  result is written when its function has returned, an entry without a result
  belongs to a running call, and nobody clears the log from inside of a call.
  With `OneWriter`, whoever may lock the recursive mutex finds no entry of
  another thread open, which is why `Clear` takes complete entries only.
* **Native functions** (`NativeInv`). `NativeImplementsParts` shows
  `NativeSpec => Spec /\ Av!Spec /\ Log!LogSpec`: each step of a native function
  is a step of each part or leaves it alone. The theorems of the parts, taken
  through `INSTANCE` for the avs' manager and the log, then hold of the whole and
  are not proved again. `JobSound` says where a thread is in each part at every
  point of a native function, which gives `CoreOutlivesNew` (a thread in the
  middle of `toxavNew` is in `func` of the core's manager, so `FuncSafe` applies)
  and `IdleOwnsNothing`. `NativeImplementsRegistries` adds that each manager is a
  registry inside the native functions as well.
* **Circular waits.** The mutexes have an order: cores' manager, a core, avs'
  manager, an av, log. One lemma per mutex says what its owner can wait for
  (`ManagerOwnerWaits`, `InstanceOwnerWaits`, `AvManagerOwnerWaits`,
  `AvOwnerWaits`, `LogOwnerWaits`): only a mutex further on, with one exception,
  `toxNew` and `toxavNew`, which call `add` with the log locked. So a chain of
  waiting threads ends at the owner of the log (`ChainEndsAtLog`), and it closes
  only if that owner is in `add`; then the manager's owner and the owner of the
  instance it waits for are two more threads. This is `CircularWaitShape`, for any
  number of threads. `NoCircularWaitCorrect` (two threads are too few) and
  `OnlyNewEntangles` (without the call of `add` under the log's mutex there is no
  circular wait at all) follow: moving that call out of the `LogEntry`'s scope
  removes the deadlock of `native_deadlock` and creates no other.
* **Life cycle** (`LifeInv`). `OneActor` (the client and the finalizer of the core
  are never both inside of the classes), `Targets` and `Registered` (a live av is
  registered unless a thread is about to kill it), `Pruned` and `Looping` (what
  `Event.invoke` has left behind its cursor). `NoStaleNumber` and `ShrinksAtEnd`
  are consequences. `QuietOnAndroid` bounds the finding of `life_quiet`: the
  list shrinks only when the last callback has run (`Looping`), and by then the
  cursor has reached the size Android's iterator has kept, which therefore does
  not call `next` again. The exception needs the JDK's iterator.
* **Life cycle and lifetimes.** `LifeImplementsLifetimes`: `LifeInv` says of each
  native call in which state its instance is. The step that needs most of it is
  `ToxKill`, which is a `KillCore` only if no av is alive.
* **Methods** (`CallsInv`). `Exclusive` (an object has one user) keeps the size a
  getter asked for valid until it copies; `NospamKept` and `CallSound` say what
  the arguments have become behind the checks. The conversions of numbers are
  lemmas about remainders and powers of two. `RightInstance` speaks of calls that
  run; a second inductive invariant (`MeantSound`) says of one that still waits that
  its number is not free and names what it named when the method read it, or
  nothing. A kill leaves the number taken, so `Register` gives it to no other
  object; only `Finalize` frees it, and that excepts the call.
* **Events** (`EventsInv`). It accounts for every event: waiting, in an open
  dispatch, delivered or lost. Lists are emptied with each batch, so batches are
  fetched in order (`FetchedInOrder`, `WaitingLater`, `RestLater`), and a batch
  that overtakes another was fetched while that one was open (`OverlapsSound`).
  `OtherArgumentsKept` bounds the finding of `events_chunk`: with `ArgumentsSound`
  as a second inductive invariant, every handler but that of `fileRecvChunk` gets
  the arguments of its event.
* **Events and channel.** `EventsImplementChannel`: an event in an open dispatch
  has left the lists and was neither handled nor lost (`RestComes`), so `Deliver`
  is a `Handle` and an exception drops only what was on its way; a
  batch empties every list, so it fetches all that has happened.
* **Conversions** (`ConversionsInv`). A conversion keeps nothing, so the invariant
  is what can be requested (`RequestSound`) and what the client can have kept
  (`HeldSound`: a key is what a derivation made, a box what an encryption made of
  data, one level deep). The work is in the lemmas about the operators:
  `SampleKept` and `FrameKept` (two bytes are a short again, for bytes of any
  width), `StatesKept` (a mask has the states it was summed from), `SizeExact` and
  `RowInside` (products that overflow, pixels in a plane), `BehindBytes` (behind a
  pointer no number is taken for a size that is none), `PaddedToSix`, and the
  tables of errors and enumerators case by case.

TLC finds each of these invariants true on the instance of its run before it is
proved. Induction over data is done with least counterexamples
(`LeastElement`): powers of two (`PowerAdd`), the greatest element of a set, and
the sum a fold computes (`SumOfBits`). `10^k` and other literals are computed by
the prover; times are stated with inequalities instead of large intervals, which
it does not digest.

### Only model-checked

* `EveryCallReturns`: liveness under fairness is out of the prover's reach.
* The violations of the four runs above: counterexamples, found by TLC.

## 5. Not modelled

* Lengths of file ids and of the public key given to `invokeFriendRequest`: both are
  read for a fixed size, and neither Kotlin nor C++ looks at how long they are.
  Contents of strings and of most arrays, and widths and heights outside of
  `uint16_t`.
* Several client threads on one `ToxCoreImpl` object while it is being closed;
  the classes are not synchronised.
* In `ToxLifecycle`, a finalizer that runs during a native call of its own object;
  `CoreCalls` has it.
* The arrays a client returns from `videFrameCachedYUV` in `ToxEvents` (any frame
  may fail to be copied there; when it does is `CacheFits` of `AvFrames`), and
  `iterate` calls made inside of it.
* The thread in which toxav calls back; `ToxEvents` takes it to be the one that
  iterates.
* The registry of function names: a map that is filled at start-up, and by the
  first calls of some getters. Entries are printed with their function here.
* The cryptography of the library, and what it reads behind a short array.
* The memory of JNI arrays and strings, the library loader, `tryAndLog` (nothing
  calls it), test tools: no state of the program, or only I/O.

## 6. Plan

1. *Done.* Manager, registry, refinement, liveness, proofs.
2. *Done.* Log; two managers and log composed.
3. *Done.* Life cycle; events; methods of `ToxCoreImpl`.
4. *Done.* Conversions: frames, errors, enums, keys and saves, log values.
5. *Done.* Proofs of the safety properties of every module, of the three
   refinements, and of the exact extent of three of the findings (`CircularWaitShape`,
   `QuietOnAndroid`, `OtherArgumentsKept`).
6. `ToxLifecycle` with a second client thread, and composed with
   `InstanceRegistry` so that a reused number belongs to another object.
