----------------------------- MODULE LogValues ------------------------------
(***************************************************************************)
(* What a log entry says of a call: its arguments, and when it was         *)
(* (util/debug_log.h, util/debug_log.cpp, ToxCore/debug.cpp, ToxJniLog.kt).*)
(*                                                                         *)
(* print_args takes a pointer to bytes together with the number behind it  *)
(* if that number has the type size_t, and prints so many bytes.  Which    *)
(* other type size_t is depends on the machine.  An array is its length,   *)
(* or NullArray.  Longs have LongBits bits, ints half of them.             *)
(***************************************************************************)
EXTENDS Exchange, MachineInts, Sequences, FiniteSetsExt

CONSTANTS LongBits,    \* 64 in the program
          MaxDataLog,  \* MAX_DATA_LOG_LENGTH
          Elapsed,     \* the times calls take, in nanoseconds
          NullArray

ASSUME LogValuesAssumption ==
    /\ LongBits \in Nat \ {0} /\ LongBits % 2 = 0
    /\ MaxDataLog \in Nat
    /\ Elapsed \subseteq UnsignedInts(LongBits - 1)

-----------------------------------------------------------------------------
(* Arguments *)

\* The arguments of the functions that are logged with arrays: bytes is a pointer,
\* length the size_t of the bytes before it, array an array with its own size, and
\* count a size_t that is not the length of bytes.  The others are numbers: uint,
\* int, long (jlong) and ulong (uint64_t).  Objects, strings and enumerators are
\* "other".
Signatures ==
    [tox_bootstrap             |-> <<"other", "other", "int", "array">>,
     tox_friend_add            |-> <<"other", "array", "bytes", "length">>,
     tox_self_set_name         |-> <<"other", "bytes", "length">>,
     tox_friend_send_message   |-> <<"other", "int", "other", "bytes", "length">>,
     tox_friend_send_packet    |-> <<"other", "int", "bytes", "length">>,
     tox_file_send             |-> <<"other", "int", "int", "long", "array", "bytes", "length">>,
     tox_file_send_chunk       |-> <<"other", "int", "int", "long", "bytes", "length">>,
     toxav_audio_send_frame    |-> <<"other", "int", "samples", "int", "int", "int">>,
     toxav_video_send_frame    |-> <<"other", "int", "int", "int", "array", "array", "array">>,
     friend_name_cb            |-> <<"uint", "bytes", "length">>,
     friend_message_cb         |-> <<"uint", "other", "bytes", "length">>,
     friend_request_cb         |-> <<"bytes", "bytes", "length">>,
     file_chunk_request_cb     |-> <<"uint", "uint", "ulong", "count">>,
     file_recv_cb              |-> <<"uint", "uint", "uint", "ulong", "bytes", "length">>,
     file_recv_chunk_cb        |-> <<"uint", "uint", "ulong", "bytes", "length">>,
     audio_receive_frame_cb    |-> <<"uint", "pcm", "count", "uint", "uint">>,
     video_receive_frame_cb    |-> <<"uint", "uint", "uint", "bytes", "bytes", "bytes",
                                     "int", "int", "int">>]

ArrayTypes == {"bytes", "array", "samples", "pcm"}

\* Mutant: any integer is taken for the size.
AnyIntegers(pointers) == {"length", "count", "uint", "int", "long", "ulong"}

\* The types that are size_t on a machine with 32-bit or 64-bit pointers.
SizeTypes(pointers) ==
    {"length", "count"} \cup (IF pointers = 32 THEN {"uint"} ELSE {"ulong"})

\* The overload of print_args for a pointer and a size is chosen for argument i.
Sized(types, i, pointers) ==
    /\ types[i] = "bytes" /\ i < Len(types)
    /\ types[i + 1] \in SizeTypes(pointers)

\* print_arg for bytes and for shorts of known length.
PrintBytes(length, size) ==
    IF length = NullArray
    THEN [what |-> "null"]
    ELSE [what |-> "bytes", read |-> Min({size, MaxDataLog}),
          truncated |-> IF size > MaxDataLog THEN size ELSE 0]

\* print_arg for integers: a sint64.
PrintNumber(x) == [what |-> "number", value |-> Signed(x, LongBits)]

\* print_arg for the pointers of unknown length, which are not followed.
PrintPointer(length) == [what |-> IF length = NullArray THEN "null" ELSE "pointer"]

PrintArg(types, values, i, pointers) ==
    CASE Sized(types, i, pointers) -> PrintBytes(values[i], values[i + 1])
      [] types[i] \in {"bytes", "pcm"} /\ ~Sized(types, i, pointers) -> PrintPointer(values[i])
      [] types[i] = "array" -> PrintBytes(values[i], IF values[i] = NullArray THEN 0 ELSE values[i])
      [] types[i] = "samples" /\ values[i] # NullArray -> [what |-> "shorts", size |-> values[i]]
      [] types[i] = "samples" /\ values[i] = NullArray -> [what |-> "null"]
      [] types[i] = "other" -> [what |-> "other"]
      [] OTHER -> PrintNumber(values[i])

\* ToxJniLog.print: of bytes only the length.
PrintValue(v) ==
    IF v.what = "bytes"
    THEN [length |-> IF v.truncated = 0 THEN v.read ELSE v.truncated]
    ELSE [other |-> v]

\* print_args: argument i is printed unless it was taken as the size of i - 1.
PrintArgs ==
    /\ request.kind = "logCall"
    /\ LET types == Signatures[request.func]
           taken == {i \in DOMAIN types : i > 1 /\ Sized(types, i - 1, request.pointers)}
           logged == [i \in DOMAIN types \ taken |->
                         PrintArg(types, request.values, i, request.pointers)]
       IN  Reply([kind |-> "entry", logged |-> logged,
                  printed |-> [i \in DOMAIN logged |-> PrintValue(logged[i])]])

-----------------------------------------------------------------------------
(* Times *)

Second == 1000000000

\* Mutant: nothing is borrowed from the seconds.
DiffWithoutBorrow(a, b) ==
    [seconds |-> a.seconds - b.seconds, nanos |-> (a.nanos - b.nanos + Second) % Second]

TimeDiff(a, b) ==
    LET seconds == a.seconds - b.seconds
        nanos == a.nanos - b.nanos
    IN  IF nanos < 0 THEN [seconds |-> seconds - 1, nanos |-> nanos + Second]
        ELSE [seconds |-> seconds, nanos |-> nanos]

\* The zeros printed before the microseconds.
Padding(micros) ==
    CASE micros < 10 -> 5
      [] 10 <= micros /\ micros < 100 -> 4
      [] 100 <= micros /\ micros < 1000 -> 3
      [] 1000 <= micros /\ micros < 10000 -> 2
      [] 10000 <= micros /\ micros < 100000 -> 1
      [] OTHER -> 0

\* print_result stores the time since the epoch when the call began;
\* printFormattedTimeDiff prints it relative to the first entry.
PrintTime ==
    /\ request.kind = "logTime"
    /\ LET diff == TimeDiff(request.time, request.first)
           micros == diff.nanos \div 1000
       IN  Reply([kind |-> "time", seconds |-> diff.seconds, zeros |-> Padding(micros),
                  micros |-> micros])

\* Duration.inWholeMicroseconds rounds towards 0.
inWholeMicroseconds(nanos) == IF nanos < 0 THEN -((-nanos) \div 1000) ELSE nanos \div 1000

\* The elapsed time is a long when it is measured, a uint32 in the message and an
\* Int in Kotlin.  It is printed in microseconds, or in nanoseconds if that is 0;
\* unit is the nanoseconds of the unit.
PrintElapsed ==
    /\ request.kind = "logElapsed"
    /\ LET nanos == Signed(Unsigned(request.nanos, LongBits \div 2), LongBits \div 2)
           micros == inWholeMicroseconds(nanos)
       IN  Reply(IF micros = 0 THEN [kind |-> "elapsed", amount |-> nanos, unit |-> 1]
                 ELSE [kind |-> "elapsed", amount |-> micros, unit |-> 1000])

-----------------------------------------------------------------------------

Lengths == {NullArray, 0, 1, MaxDataLog, MaxDataLog + 1}

\* Numbers of every type at the ends of their ranges.
Numbers(type) ==
    CASE type = "uint" -> {0, 2^(LongBits \div 2) - 1}
      [] type = "int" -> {-(2^(LongBits \div 2 - 1)), 2^(LongBits \div 2 - 1) - 1}
      [] type = "long" -> {-(2^(LongBits - 1)), 2^(LongBits - 1) - 1}
      [] type \in {"ulong", "count"} -> {0, 2^LongBits - 1}
      [] OTHER -> {0}

\* The values of the arguments: a length is that of the bytes before it.
Values(types, arrays, high) ==
    [i \in DOMAIN types |->
        CASE types[i] \in ArrayTypes -> arrays[i]
          [] types[i] = "length" -> IF arrays[i - 1] = NullArray THEN 0 ELSE arrays[i - 1]
          [] OTHER -> IF high THEN Max(Numbers(types[i])) ELSE Min(Numbers(types[i]))]

\* Times near the places where the number of digits changes.
Nanos == {0, 999, 1000, 9999, 10000, 99999, 100000, 999999, 1000000, 9999999, 10000000,
          99999999, 100000000, 999999999}

Times == [seconds : {0, 1}, nanos : Nanos]

LogRequests ==
    \/ \E func \in DOMAIN Signatures, pointers \in {32, 64}, high \in BOOLEAN :
       \E arrays \in [{i \in DOMAIN Signatures[func] : Signatures[func][i] \in ArrayTypes} -> Lengths] :
           Request([kind |-> "logCall", func |-> func, pointers |-> pointers,
                    values |-> Values(Signatures[func], arrays, high)])
    \/ \E first, time \in Times :
           \* The first entry began before the others.
           /\ \/ first.seconds < time.seconds
              \/ first.seconds = time.seconds /\ first.nanos <= time.nanos
           /\ Request([kind |-> "logTime", first |-> first, time |-> time])
    \/ \E nanos \in Elapsed : Request([kind |-> "logElapsed", nanos |-> nanos])

LogHandlers == PrintArgs \/ PrintTime \/ PrintElapsed

-----------------------------------------------------------------------------
(* Properties *)

\* The log reads no byte that is not in the array it prints, on either machine:
\* no number beside a pointer is taken for its size that is not its size.
LogReadsInside ==
    reply.kind = "entry" =>
        \A i \in DOMAIN reply.logged :
            reply.logged[i].what = "bytes" => reply.logged[i].read <= request.values[i]

Digits(n) == Cardinality({k \in 0 .. 9 : k = 0 \/ n >= 10^k})

\* The printed entry says what the call was: every array has its length, long ones
\* too although only their beginning is stored, every number its value except those
\* above the largest long, no argument is missing except the sizes of arrays, the
\* microseconds have six digits and are those since the first entry, and a call
\* that took less than 2^31 nanoseconds has its time, exact to the printed unit and
\* never 0 for a time that is not 0.
LogValueKept ==
    /\ reply.kind = "entry" =>
           \A i \in DOMAIN request.values :
               LET type == Signatures[request.func][i]
               IN  /\ i \in DOMAIN reply.printed \/ type = "length"
                   /\ (type = "array" \/ Sized(Signatures[request.func], i, request.pointers)) =>
                          request.values[i] = NullArray \/ reply.printed[i] = [length |-> request.values[i]]
                   /\ type \in {"uint", "int", "long", "ulong", "count"} =>
                          \/ reply.printed[i].other.value = request.values[i]
                          \/ request.values[i] >= 2^(LongBits - 1)
    /\ reply.kind = "time" =>
           LET micros == reply.seconds * 1000000 + reply.micros
               nanos == (request.time.seconds - request.first.seconds) * Second
                        + (request.time.nanos - request.first.nanos)
           IN  /\ reply.zeros + Digits(reply.micros) = 6
               /\ reply.seconds >= 0 /\ reply.micros < 1000000
               /\ micros = nanos \div 1000
    /\ (reply.kind = "elapsed" /\ request.nanos < 2^(LongBits \div 2 - 1)) =>
           /\ reply.amount * reply.unit <= request.nanos
           /\ request.nanos < (reply.amount + 1) * reply.unit
           /\ reply.amount = 0 => request.nanos = 0

=============================================================================
