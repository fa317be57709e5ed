---------------------------- MODULE JniLogProofs ----------------------------
(***************************************************************************)
(* The safety properties of the native call log, for every set of threads, *)
(* names, sizes and filters and whatever the bounds are.                   *)
(*                                                                         *)
(* LogInv is the conjunction of the properties and of StacksSound, which   *)
(* says what the LogEntry objects of the threads have to do with the       *)
(* entries: an entry has one LogEntry, a result is written when its        *)
(* function has returned, and what is not yet written belongs to a call    *)
(* that is still running.  The recursive mutex is what makes it inductive: *)
(* by OneWriter nobody else has an entry open when a thread may lock.      *)
(***************************************************************************)
EXTENDS JniLog, ProofLemmas

\* A LogEntry of thread t that has an entry.
Opens(t, i) == i \in DOMAIN stack[t] /\ stack[t][i].entry # NoEntry

\* No two LogEntry objects of a thread have the same entry.
OwnEntries ==
    \A t \in Threads : \A i, j \in DOMAIN stack[t] :
        (Opens(t, i) /\ stack[t][i].entry = stack[t][j].entry) => i = j

\* The result of a function that has returned is written.
ReturnedWritten ==
    \A t \in Threads : \A i \in DOMAIN stack[t] :
        (Opens(t, i) /\ stack[t][i].returned) => stack[t][i].entry \in written

\* An entry in the log without a result belongs to a function that is running.
UnwrittenRuns ==
    \A k \in DOMAIN entries : entries[k] \notin written =>
        \E t \in Threads : \E i \in DOMAIN stack[t] :
            stack[t][i].entry = entries[k] /\ ~stack[t][i].returned

\* A thread calls clear() outside of logged functions.
ClearsOutside == \A t \in Threads : lpc[t] = <<"clear">> => stack[t] = <<>>

StacksSound == OwnEntries /\ ReturnedWritten /\ UnwrittenRuns /\ ClearsOutside

LogInv ==
    /\ LogTypeOK
    /\ OneWriter
    /\ StacksSound
    /\ TakenComplete
    /\ OpenEntryStored
    /\ NothingLost

-----------------------------------------------------------------------------
(* Deleting from a vector *)

\* Deleting the element at an index: the later ones move down by one place.
LEMMA RemoveAtSeq ==
    ASSUME NEW S, NEW s \in Seq(S), NEW k \in DOMAIN s
    PROVE  /\ RemoveAt(s, k) \in Seq(S)
           /\ Len(RemoveAt(s, k)) = Len(s) - 1
           /\ DOMAIN RemoveAt(s, k) = 1 .. Len(s) - 1
           /\ \A i \in 1 .. Len(s) - 1 : RemoveAt(s, k)[i] = IF i < k THEN s[i] ELSE s[i + 1]
  <1>1. Len(s) \in Nat /\ DOMAIN s = 1 .. Len(s) /\ k \in 1 .. Len(s)
    BY LenProperties
  <1>2. \A i \in 1 .. Len(s) : s[i] \in S
    BY ElementOfSeq
  <1> DEFINE a == SubSeq(s, 1, k - 1)
             b == SubSeq(s, k + 1, Len(s))
  <1>3. /\ a \in Seq(S) /\ Len(a) = k - 1
        /\ \A i \in 1 .. k - 1 : a[i] = s[i]
    BY <1>1, <1>2, SubSeqProperties
  <1>4. /\ b \in Seq(S) /\ Len(b) = Len(s) - k
        /\ \A i \in 1 .. Len(s) - k : b[i] = s[k + i]
    <2>1. \A i \in k + 1 .. Len(s) : s[i] \in S
      BY <1>1, <1>2
    <2>2. /\ SubSeq(s, k + 1, Len(s)) \in Seq(S)
          /\ Len(SubSeq(s, k + 1, Len(s))) = IF k + 1 <= Len(s) THEN Len(s) - (k + 1) + 1 ELSE 0
          /\ \A i \in 1 .. Len(s) - (k + 1) + 1 : SubSeq(s, k + 1, Len(s))[i] = s[(k + 1) + i - 1]
      BY <1>1, <2>1, SubSeqProperties
    <2> QED
      BY <1>1, <2>2
  <1> HIDE DEF a, b
  <1>5. /\ a \o b \in Seq(S) /\ Len(a \o b) = Len(s) - 1
        /\ \A i \in 1 .. Len(s) - 1 : (a \o b)[i] = IF i < k THEN s[i] ELSE s[i + 1]
    <2>1. /\ a \o b \in Seq(S) /\ Len(a \o b) = Len(a) + Len(b)
          /\ \A i \in 1 .. Len(a) + Len(b) :
                 (a \o b)[i] = IF i <= Len(a) THEN a[i] ELSE b[i - Len(a)]
      BY <1>3, <1>4, ConcatProperties
    <2>2. Len(a) + Len(b) = Len(s) - 1
      BY <1>1, <1>3, <1>4
    <2>3. ASSUME NEW i \in 1 .. Len(s) - 1
          PROVE  (a \o b)[i] = IF i < k THEN s[i] ELSE s[i + 1]
      <3>1. CASE i < k
        BY <1>1, <1>3, <2>1, <2>2, <3>1
      <3>2. CASE ~(i < k)
        <4>1. (a \o b)[i] = b[i - (k - 1)]
          BY <1>1, <1>3, <2>1, <2>2, <3>2
        <4>2. i - (k - 1) \in 1 .. Len(s) - k /\ k + (i - (k - 1)) = i + 1
          BY <1>1, <3>2
        <4> QED
          BY <1>4, <3>2, <4>1, <4>2
      <3> QED
        BY <3>1, <3>2
    <2> QED
      BY <2>1, <2>2, <2>3
  <1>6. RemoveAt(s, k) = a \o b
    BY DEF RemoveAt, a, b
  <1> QED
    BY <1>5, <1>6, LenProperties

\* Deleting from the second of two sequences deletes from both together.
LEMMA ConcatRemoveAt ==
    ASSUME NEW S, NEW a \in Seq(S), NEW b \in Seq(S), NEW k \in DOMAIN b
    PROVE  /\ Len(a) + k \in DOMAIN (a \o b)
           /\ (a \o b)[Len(a) + k] = b[k]
           /\ a \o RemoveAt(b, k) = RemoveAt(a \o b, Len(a) + k)
  <1>1. PICK n \in Nat : n = Len(a)
    BY LenProperties
  <1>2. PICK m \in Nat : m = Len(b)
    BY LenProperties
  <1>3. k \in 1 .. m
    BY <1>2, LenProperties
  <1>4. /\ a \o b \in Seq(S) /\ Len(a \o b) = n + m /\ DOMAIN (a \o b) = 1 .. n + m
        /\ \A i \in 1 .. n + m : (a \o b)[i] = IF i <= n THEN a[i] ELSE b[i - n]
    BY <1>1, <1>2, ConcatProperties, LenProperties
  <1>5. n + k \in 1 .. n + m /\ ~(n + k <= n) /\ (n + k) - n = k
    BY <1>3
  <1>6. (a \o b)[n + k] = b[k]
    BY <1>4, <1>5
  <1> DEFINE r == RemoveAt(b, k)
             c == a \o b
             q == RemoveAt(c, n + k)
  <1>7. /\ r \in Seq(S) /\ Len(r) = m - 1
        /\ \A i \in 1 .. m - 1 : r[i] = IF i < k THEN b[i] ELSE b[i + 1]
    BY <1>2, RemoveAtSeq
  <1>c. c \in Seq(S) /\ Len(c) = n + m /\ n + k \in DOMAIN c
    BY <1>4, <1>5
  <1> HIDE DEF c
  <1>8. /\ q \in Seq(S) /\ Len(q) = n + m - 1
        /\ \A i \in 1 .. n + m - 1 : q[i] = IF i < n + k THEN c[i] ELSE c[i + 1]
    <2>1. /\ RemoveAt(c, n + k) \in Seq(S) /\ Len(RemoveAt(c, n + k)) = Len(c) - 1
          /\ \A i \in 1 .. Len(c) - 1 :
                 RemoveAt(c, n + k)[i] = IF i < n + k THEN c[i] ELSE c[i + 1]
      BY <1>c, RemoveAtSeq
    <2> QED
      BY <1>c, <2>1
  <1> HIDE DEF r, q
  <1>9. /\ a \o r \in Seq(S) /\ Len(a \o r) = n + (m - 1)
        /\ \A i \in 1 .. n + (m - 1) : (a \o r)[i] = IF i <= n THEN a[i] ELSE r[i - n]
    <2>1. /\ a \o r \in Seq(S) /\ Len(a \o r) = Len(a) + Len(r)
          /\ \A i \in 1 .. Len(a) + Len(r) :
                 (a \o r)[i] = IF i <= Len(a) THEN a[i] ELSE r[i - Len(a)]
      BY <1>7, ConcatProperties
    <2> QED
      BY <1>1, <1>7, <2>1
  <1>10. ASSUME NEW i \in 1 .. n + m - 1
         PROVE  (a \o r)[i] = q[i]
    <2>1. i \in 1 .. n + (m - 1) /\ i \in 1 .. n + m /\ i + 1 \in 1 .. n + m
      BY <1>3
    <2>2. CASE i <= n
      <3>1. (a \o r)[i] = a[i]
        BY <1>9, <2>1, <2>2
      <3>2. q[i] = c[i]
        BY <1>3, <1>8, <2>2
      <3>3. c[i] = a[i]
        BY <1>4, <2>1, <2>2 DEF c
      <3> QED
        BY <3>1, <3>2, <3>3
    <2>3. CASE ~(i <= n)
      <3>1. (a \o r)[i] = r[i - n] /\ i - n \in 1 .. m - 1
        BY <1>9, <2>1, <2>3
      <3>2. CASE i < n + k
        <4>1. r[i - n] = b[i - n]
          BY <1>3, <1>7, <3>1, <3>2
        <4>2. c[i] = b[i - n]
          BY <1>4, <2>1, <2>3 DEF c
        <4>3. q[i] = c[i]
          BY <1>8, <3>2
        <4> QED
          BY <3>1, <4>1, <4>2, <4>3
      <3>3. CASE ~(i < n + k)
        <4>1. r[i - n] = b[(i - n) + 1]
          BY <1>3, <1>7, <3>1, <3>3
        <4>2. c[i + 1] = b[(i + 1) - n] /\ (i + 1) - n = (i - n) + 1
          BY <1>4, <2>1, <2>3 DEF c
        <4>3. q[i] = c[i + 1]
          BY <1>8, <3>3
        <4> QED
          BY <3>1, <4>1, <4>2, <4>3
      <3> QED
        BY <3>2, <3>3
    <2> QED
      BY <2>2, <2>3
  <1>11. Len(a \o r) = Len(q)
    BY <1>8, <1>9
  <1>12. a \o r = q
    BY <1>8, <1>9, <1>10, <1>11, SeqEqual
  <1> QED
    BY <1>1, <1>4, <1>5, <1>6, <1>12 DEF r, q, c

\* Deleting an element keeps the order of the others, and only that one goes.
LEMMA RemoveAtIncreasing ==
    ASSUME NEW s \in Seq(Nat), NEW k \in DOMAIN s,
           \A i, j \in DOMAIN s : i < j => s[i] < s[j]
    PROVE  /\ \A i, j \in DOMAIN RemoveAt(s, k) : i < j => RemoveAt(s, k)[i] < RemoveAt(s, k)[j]
           /\ Range(RemoveAt(s, k)) = Range(s) \ {s[k]}
  <1> DEFINE r == RemoveAt(s, k)
  <1>1. PICK n \in Nat : n = Len(s)
    BY LenProperties
  <1>2. DOMAIN s = 1 .. n /\ k \in 1 .. n /\ \A i \in 1 .. n : s[i] \in Nat
    BY <1>1, LenProperties, ElementOfSeq
  <1>3. /\ DOMAIN r = 1 .. n - 1
        /\ \A i \in 1 .. n - 1 : r[i] = IF i < k THEN s[i] ELSE s[i + 1]
    <2>1. /\ DOMAIN RemoveAt(s, k) = 1 .. Len(s) - 1
          /\ \A i \in 1 .. Len(s) - 1 : RemoveAt(s, k)[i] = IF i < k THEN s[i] ELSE s[i + 1]
      BY RemoveAtSeq
    <2> QED
      BY <1>1, <2>1
  <1> HIDE DEF r
  <1>4. ASSUME NEW i \in DOMAIN r, NEW j \in DOMAIN r, i < j
        PROVE  r[i] < r[j]
    <2>1. i \in 1 .. n - 1 /\ j \in 1 .. n - 1 /\ i < j
      BY <1>3, <1>4
    <2>2. CASE j < k
      <3>1. i < k /\ i \in 1 .. n /\ j \in 1 .. n
        BY <1>2, <2>1, <2>2
      <3>2. r[i] = s[i] /\ r[j] = s[j]
        BY <1>3, <2>1, <2>2, <3>1
      <3> QED
        BY <1>2, <2>1, <3>1, <3>2
    <2>3. CASE i < k /\ ~(j < k)
      <3>1. r[i] = s[i] /\ r[j] = s[j + 1]
        BY <1>3, <2>1, <2>3
      <3>2. i \in 1 .. n /\ j + 1 \in 1 .. n /\ i < j + 1
        BY <2>1
      <3> QED
        BY <1>2, <3>1, <3>2
    <2>4. CASE ~(i < k)
      <3>3. ~(j < k)
        BY <1>2, <2>1, <2>4
      <3>1. r[i] = s[i + 1] /\ r[j] = s[j + 1]
        BY <1>3, <2>1, <2>4, <3>3
      <3>2. i + 1 \in 1 .. n /\ j + 1 \in 1 .. n /\ i + 1 < j + 1
        BY <2>1
      <3> QED
        BY <1>2, <3>1, <3>2
    <2> QED
      BY <1>2, <2>1, <2>2, <2>3, <2>4
  <1>5. \A i, j \in DOMAIN s : s[i] = s[j] => i = j
    <2> SUFFICES ASSUME NEW i \in DOMAIN s, NEW j \in DOMAIN s, i # j
                 PROVE  s[i] # s[j]
      OBVIOUS
    <2>1. s[i] < s[j] \/ s[j] < s[i]
      BY <1>2
    <2> QED
      BY <1>2, <2>1
  <1>6. ASSUME NEW i \in DOMAIN r
        PROVE  r[i] \in Range(s) \ {s[k]}
    <2>1. CASE i < k
      <3>1. r[i] = s[i] /\ i \in DOMAIN s /\ i # k
        BY <1>2, <1>3, <2>1
      <3> QED
        BY <1>5, <3>1 DEF Range
    <2>2. CASE ~(i < k)
      <3>1. r[i] = s[i + 1] /\ i + 1 \in DOMAIN s /\ i + 1 # k
        BY <1>2, <1>3, <2>2
      <3> QED
        BY <1>5, <3>1 DEF Range
    <2> QED
      BY <2>1, <2>2
  <1>7. ASSUME NEW j \in DOMAIN s, j # k
        PROVE  s[j] \in Range(r)
    <2>1. CASE j < k
      <3>1. r[j] = s[j] /\ j \in DOMAIN r
        BY <1>2, <1>3, <2>1
      <3> QED
        BY <3>1 DEF Range
    <2>2. CASE ~(j < k)
      <3>1. j - 1 \in DOMAIN r /\ ~(j - 1 < k) /\ (j - 1) + 1 = j
        BY SMTT(30), <1>2, <1>3, <1>7, <2>2
      <3>2. r[j - 1] = s[j]
        BY <1>3, <3>1
      <3> QED
        BY <3>1, <3>2 DEF Range
    <2> QED
      BY <2>1, <2>2
  <1>8. Range(r) = Range(s) \ {s[k]}
    BY <1>6, <1>7 DEF Range
  <1> QED
    BY <1>4, <1>8 DEF r

-----------------------------------------------------------------------------
(* Open entries *)

\* The entries of a stack of LogEntry objects.
OpenIn(frames) == {frames[i].entry : i \in DOMAIN frames} \ {NoEntry}

LEMMA OpenEntriesIn == \A t \in Threads : OpenEntries(t) = OpenIn(stack[t])
  BY DEF OpenEntries, OpenIn, Range

LEMMA OpenEntriesInNext == \A t \in Threads : OpenEntries(t)' = OpenIn(stack'[t])
  BY DEF OpenEntries, OpenIn, Range

\* Building a LogEntry opens its entry, if it has one.
LEMMA PushOpens ==
    ASSUME NEW s \in Seq(Frame), NEW frame \in Frame
    PROVE  /\ Append(s, frame) \in Seq(Frame)
           /\ OpenIn(Append(s, frame)) =
                  IF frame.entry = NoEntry THEN OpenIn(s) ELSE OpenIn(s) \cup {frame.entry}
  BY AppendSeq DEF OpenIn

\* The last LogEntry goes away, and with it its entry.
LEMMA PopCloses ==
    ASSUME NEW s \in Seq(Frame), s # <<>>,
           \A i, j \in DOMAIN s : (s[i].entry # NoEntry /\ s[i].entry = s[j].entry) => i = j
    PROVE  OpenIn(SubSeq(s, 1, Len(s) - 1)) = OpenIn(s) \ {s[Len(s)].entry}
  <1> DEFINE r == SubSeq(s, 1, Len(s) - 1)
  <1>1. /\ Len(s) \in DOMAIN s /\ DOMAIN r = DOMAIN s \ {Len(s)}
        /\ \A m \in DOMAIN s \ {Len(s)} : r[m] = s[m]
    BY PopSeq
  <1> HIDE DEF r
  <1>2. ASSUME NEW e \in OpenIn(r)
        PROVE  e \in OpenIn(s) /\ e # s[Len(s)].entry
    BY <1>1 DEF OpenIn
  <1>3. ASSUME NEW e \in OpenIn(s), e # s[Len(s)].entry
        PROVE  e \in OpenIn(r)
    <2>1. PICK i \in DOMAIN s : e = s[i].entry /\ e # NoEntry
      BY DEF OpenIn
    <2>2. i \in DOMAIN r /\ r[i] = s[i]
      BY <1>1, <1>3, <2>1
    <2> QED
      BY <2>1, <2>2 DEF OpenIn
  <1>4. OpenIn(r) = OpenIn(s) \ {s[Len(s)].entry}
    BY <1>2, <1>3
  <1> QED
    BY <1>4 DEF r

\* Numbers of entries are the places of their names.
LEMMA OpenEntriesFinite ==
    ASSUME LogTypeOK, OpenEntryStored, NothingLost, NEW t \in Threads
    PROVE  IsFiniteSet(OpenEntries(t)) /\ OpenEntries(t) \subseteq DOMAIN name
  <1>1. /\ Range(entries) \subseteq DOMAIN name
        /\ DOMAIN name = 1 .. Len(name) /\ Len(name) \in Nat
    BY RangeConcatenation, LenProperties DEF NothingLost, LogTypeOK
  <1>2. OpenEntries(t) \subseteq DOMAIN name
    BY <1>1 DEF OpenEntryStored
  <1>3. IsFiniteSet(DOMAIN name)
    BY <1>1, FS_Interval
  <1> QED
    BY <1>2, <1>3, FS_Subset

\* A thread that may lock the mutex finds no entry of another thread open, and one
\* of its own only if it owns the mutex already.
LEMMA LockerAlone ==
    ASSUME LogInv, NEW t \in Threads, CanLock(t)
    PROVE  \A u \in Threads \ {t} : OpenEntries(u) = {}
  <1> SUFFICES ASSUME NEW u \in Threads, u # t
               PROVE  OpenEntries(u) = {}
    OBVIOUS
  <1>1. Cardinality(OpenEntries(u)) = 0
    BY LogAssumption DEF LogInv, OneWriter, CanLock
  <1> QED
    BY <1>1, OpenEntriesFinite, FS_EmptySet DEF LogInv

\* The owner of an open entry owns the mutex.
LEMMA OpenerOwns ==
    ASSUME LogInv, NEW t \in Threads, OpenEntries(t) # {}
    PROVE  owner = t /\ count \in Nat \ {0} /\ CanLock(t)
  <1>1. Cardinality(OpenEntries(t)) \in Nat \ {0}
    BY OpenEntriesFinite, FS_EmptySet, FS_CardinalityType DEF LogInv
  <1> QED
    BY <1>1 DEF LogInv, OneWriter, CanLock

-----------------------------------------------------------------------------
(* One lemma per action *)

\* Nothing is logged when the library is loaded.
LEMMA LogInitInductive == LogInit => LogInv
  <1> SUFFICES ASSUME LogInit PROVE LogInv
    OBVIOUS
  <1>1. LogTypeOK
    BY LogAssumption, EmptySeq DEF LogInit, LogTypeOK, Steps
  <1>2. \A t \in Threads : OpenEntries(t) = {}
    BY OpenEntriesIn DEF LogInit, OpenIn
  <1>3. OneWriter /\ OpenEntryStored
    BY <1>2, LogAssumption, FS_EmptySet DEF LogInit, OneWriter, OpenEntryStored
  <1>4. StacksSound /\ TakenComplete
    BY DEF LogInit, StacksSound, OwnEntries, ReturnedWritten, UnwrittenRuns, ClearsOutside,
           TakenComplete
  <1>5. NothingLost
    BY ConcatEmptySeq, EmptySeq DEF LogInit, NothingLost, Range
  <1> QED
    BY <1>1, <1>3, <1>4, <1>5 DEF LogInv

\* A step that touches neither the log nor the stacks.
LEMMA QuietInductive ==
    ASSUME LogInv, LogTypeOK', ClearsOutside',
           UNCHANGED <<owner, count, entries, name, written, stack, taken, dropped>>
    PROVE  LogInv'
  BY DEF LogInv, OneWriter, StacksSound, OwnEntries, ReturnedWritten, UnwrittenRuns, Opens,
         TakenComplete, OpenEntryStored, OpenEntries, NothingLost

\* The functions of ToxJniLog that do not take entries.
LEMMA LastLogInductive ==
    ASSUME LogInv, NEW t \in Threads, LastLog(t)
    PROVE  LogInv'
  <1>1. LogTypeOK'
    BY DEF LogInv, LogTypeOK, LastLog, Steps
  <1>2. ClearsOutside'
    BY DEF LogInv, LogTypeOK, StacksSound, ClearsOutside, LastLog
  <1> QED
    BY <1>1, <1>2, QuietInductive DEF LastLog

LEMMA SetMaxSizeInductive ==
    ASSUME LogInv, NEW t \in Threads, NEW n \in MaxSizes, SetMaxSize(t, n)
    PROVE  LogInv'
  <1>1. LogTypeOK' /\ ClearsOutside'
    BY LogAssumption DEF LogInv, LogTypeOK, StacksSound, ClearsOutside, SetMaxSize
  <1> QED
    BY <1>1, QuietInductive DEF SetMaxSize

LEMMA SetFilterInductive ==
    ASSUME LogInv, NEW t \in Threads, NEW F \in FilterSets, SetFilter(t, F)
    PROVE  LogInv'
  <1>1. LogTypeOK' /\ ClearsOutside'
    BY LogAssumption DEF LogInv, LogTypeOK, StacksSound, ClearsOutside, SetFilter
  <1> QED
    BY <1>1, QuietInductive DEF SetFilter

\* A LogEntry without an entry: the log is disabled or full.
LEMMA PushNothing ==
    ASSUME LogInv, NEW t \in Threads, Push(t, NoEntry), lpc' \in [Threads -> Steps],
           lpc'[t] # <<"clear">>, \A u \in Threads \ {t} : lpc'[u] = lpc[u],
           UNCHANGED <<max_size, owner, count, entries, filters, name, written, taken, dropped>>
    PROVE  LogInv'
  <1> DEFINE frame == [entry |-> NoEntry, returned |-> FALSE]
  <1>1. frame \in Frame /\ stack[t] \in Seq(Frame)
    BY DEF Frame, NoEntry, LogInv, LogTypeOK
  <1>2. /\ stack' = [stack EXCEPT ![t] = Append(stack[t], frame)]
        /\ stack'[t] = Append(stack[t], frame)
        /\ \A u \in Threads \ {t} : stack'[u] = stack[u]
    BY DEF Push, LogInv, LogTypeOK
  <1>3. /\ stack'[t] \in Seq(Frame)
        /\ DOMAIN stack'[t] = DOMAIN stack[t] \cup {Len(stack[t]) + 1}
        /\ stack'[t][Len(stack[t]) + 1] = frame
        /\ Len(stack[t]) + 1 \notin DOMAIN stack[t]
        /\ \A i \in DOMAIN stack[t] : stack'[t][i] = stack[t][i]
    BY <1>1, <1>2, AppendSeq
  <1>4. LogTypeOK'
    BY <1>1, <1>2, <1>3 DEF LogInv, LogTypeOK
  <1>5. \A u \in Threads : OpenEntries(u)' = OpenEntries(u)
    <2>1. OpenIn(stack'[t]) = OpenIn(stack[t])
      BY <1>1, <1>2, PushOpens
    <2> QED
      BY <1>2, <2>1, OpenEntriesIn, OpenEntriesInNext
  <1>6. OneWriter' /\ OpenEntryStored'
    BY <1>5 DEF LogInv, OneWriter, OpenEntryStored
  <1>7. OwnEntries' /\ ReturnedWritten'
    BY <1>2, <1>3 DEF LogInv, StacksSound, OwnEntries, ReturnedWritten, Opens
  <1>8. UnwrittenRuns'
    BY <1>2, <1>3 DEF LogInv, StacksSound, UnwrittenRuns
  <1>9. ClearsOutside'
    BY <1>2 DEF LogInv, StacksSound, ClearsOutside
  <1> QED
    BY <1>4, <1>6, <1>7, <1>8, <1>9 DEF LogInv, StacksSound, TakenComplete, NothingLost

\* new_entry begins: it looks at max_size.
LEMMA BeginEntryInductive ==
    ASSUME LogInv, NEW t \in Threads, NEW f \in Names, BeginEntry(t, f)
    PROVE  LogInv'
  <1>1. CASE max_size = 0
    <2>1. Push(t, NoEntry) /\ UNCHANGED lpc /\ lpc[t] = <<"run">>
      BY <1>1 DEF BeginEntry, Running
    <2>2. lpc' \in [Threads -> Steps] /\ lpc'[t] # <<"clear">>
      BY <2>1 DEF LogInv, LogTypeOK
    <2> QED
      BY <2>1, <2>2, PushNothing DEF BeginEntry
  <1>2. CASE max_size # 0
    <2>1. lpc' = [lpc EXCEPT ![t] = <<"want", f>>] /\ UNCHANGED stack
      BY <1>2 DEF BeginEntry
    <2>2. LogTypeOK'
      BY <2>1 DEF BeginEntry, LogInv, LogTypeOK, Steps
    <2>3. ClearsOutside'
      BY <2>1 DEF LogInv, LogTypeOK, StacksSound, ClearsOutside
    <2> QED
      BY <2>1, <2>2, <2>3, QuietInductive DEF BeginEntry
  <1> QED
    BY <1>1, <1>2

\* new_entry finds the log full.
LEMMA LogFullInductive ==
    ASSUME LogInv, NEW t \in Threads, LogFull(t)
    PROVE  LogInv'
  <1>1. lpc' \in [Threads -> Steps] /\ lpc'[t] = <<"run">>
        /\ \A u \in Threads \ {t} : lpc'[u] = lpc[u]
    BY DEF LogFull, LogInv, LogTypeOK, Steps
  <1> QED
    BY <1>1, PushNothing DEF LogFull

\* The places of all the entries that were added and not dropped.
All == taken \o entries

LEMMA AllProperties ==
    ASSUME LogTypeOK
    PROVE  /\ All \in Seq(Nat \ {0}) /\ Len(taken) \in Nat /\ Len(entries) \in Nat
           /\ DOMAIN taken = 1 .. Len(taken) /\ DOMAIN entries = 1 .. Len(entries)
           /\ DOMAIN All = 1 .. Len(taken) + Len(entries)
           /\ \A i \in 1 .. Len(taken) + Len(entries) :
                  All[i] = IF i <= Len(taken) THEN taken[i] ELSE entries[i - Len(taken)]
           /\ Range(All) = Range(taken) \cup Range(entries)
  BY ConcatProperties, LenProperties, RangeConcatenation DEF LogTypeOK, All

\* new_entry adds an entry: only the thread that adds it may have others open, and
\* its number is greater than all before.
LEMMA AddEntryInductive ==
    ASSUME LogInv, NEW t \in Threads, AddEntry(t)
    PROVE  LogInv'
  <1> DEFINE e == Len(name) + 1
             frame == [entry |-> e, returned |-> FALSE]
             f == lpc[t][2]
  <1>1. /\ Len(name) \in Nat /\ DOMAIN name = 1 .. Len(name)
        /\ e \in Nat \ {0} /\ e # NoEntry /\ e \notin DOMAIN name
    BY LenProperties DEF LogInv, LogTypeOK, NoEntry
  <1>2. frame \in Frame /\ stack[t] \in Seq(Frame)
    BY <1>1 DEF Frame, LogInv, LogTypeOK
  <1>3. f \in Names
    <2>1. lpc[t] \in Steps /\ lpc[t][1] = "want"
      BY DEF AddEntry, LogInv, LogTypeOK
    <2>2. lpc[t] # <<"run">> /\ lpc[t] # <<"clear">>
      BY <2>1
    <2>3. PICK g \in Names : lpc[t] = <<"want", g>>
      BY <2>1, <2>2 DEF Steps
    <2> QED
      BY <2>3
  <1>4. /\ name' \in Seq(Names)
        /\ DOMAIN name' = DOMAIN name \cup {e}
    BY <1>3, AppendSeq DEF AddEntry, LogInv, LogTypeOK
  <1>5. /\ entries' = Append(entries, e)
        /\ entries' \in Seq(Nat \ {0})
        /\ DOMAIN entries' = DOMAIN entries \cup {Len(entries) + 1}
        /\ Len(entries) + 1 \notin DOMAIN entries
        /\ entries'[Len(entries) + 1] = e
        /\ \A k \in DOMAIN entries : entries'[k] = entries[k]
    BY SMTT(30), <1>1, AppendSeq DEF AddEntry, LogInv, LogTypeOK
  <1>6. /\ stack' = [stack EXCEPT ![t] = Append(stack[t], frame)]
        /\ stack'[t] = Append(stack[t], frame)
        /\ \A u \in Threads \ {t} : stack'[u] = stack[u]
    BY DEF AddEntry, Push, LogInv, LogTypeOK
  <1>7. /\ stack'[t] \in Seq(Frame)
        /\ DOMAIN stack'[t] = DOMAIN stack[t] \cup {Len(stack[t]) + 1}
        /\ stack'[t][Len(stack[t]) + 1] = frame
        /\ Len(stack[t]) + 1 \notin DOMAIN stack[t]
        /\ \A i \in DOMAIN stack[t] : stack'[t][i] = stack[t][i]
    BY <1>2, <1>6, AppendSeq
  <1>8. LogTypeOK'
    BY <1>1, <1>2, <1>3, <1>4, <1>5, <1>6, <1>7 DEF AddEntry, LogInv, LogTypeOK, Steps
  <1>9. /\ OpenEntries(t)' = OpenEntries(t) \cup {e}
        /\ \A u \in Threads \ {t} : OpenEntries(u)' = OpenEntries(u)
    <2>1. OpenIn(stack'[t]) = OpenIn(stack[t]) \cup {e}
      BY <1>1, <1>2, <1>6, PushOpens
    <2> QED
      BY <1>6, <2>1, OpenEntriesIn, OpenEntriesInNext
  <1>10. /\ \A u \in Threads : IsFiniteSet(OpenEntries(u)) /\ OpenEntries(u) \subseteq DOMAIN name
         /\ \A u \in Threads \ {t} : OpenEntries(u) = {}
    BY OpenEntriesFinite, LockerAlone DEF LogInv, AddEntry
  <1>11. OneWriter'
    <2>1. Cardinality(OpenEntries(t)') = Cardinality(OpenEntries(t)) + 1
      BY <1>1, <1>9, <1>10, FS_AddElement
    <2>2. Cardinality(OpenEntries(t)) = count
      BY LogAssumption DEF LogInv, OneWriter, AddEntry, CanLock
    <2>3. owner' = t /\ count' = count + 1 /\ count \in Nat
      BY DEF AddEntry, LogInv, LogTypeOK
    <2>4. \A u \in Threads \ {t} : Cardinality(OpenEntries(u)') = 0
      BY <1>9, <1>10, FS_EmptySet
    <2> QED
      BY <2>1, <2>2, <2>3, <2>4, LogAssumption DEF OneWriter
  <1>12. OpenEntryStored'
    <2>1. Range(entries') = Range(entries) \cup {e}
      BY <1>5 DEF Range
    <2> QED
      BY <1>9, <2>1 DEF LogInv, OpenEntryStored
  <1>13. OwnEntries'
    <2>1. \A i \in DOMAIN stack[t] : stack[t][i].entry # e
      BY <1>1, <1>10, OpenEntriesIn DEF OpenIn
    <2> QED
      BY <1>6, <1>7, <2>1 DEF LogInv, StacksSound, OwnEntries, Opens
  <1>14. ReturnedWritten'
    BY <1>6, <1>7 DEF AddEntry, LogInv, StacksSound, ReturnedWritten, Opens
  <1>15. UnwrittenRuns'
    <2> SUFFICES ASSUME NEW k \in DOMAIN entries', entries'[k] \notin written'
                 PROVE  \E u \in Threads : \E i \in DOMAIN stack'[u] :
                            stack'[u][i].entry = entries'[k] /\ ~stack'[u][i].returned
      BY DEF UnwrittenRuns
    <2>1. CASE k = Len(entries) + 1
      <3>1. /\ Len(stack[t]) + 1 \in DOMAIN stack'[t]
            /\ stack'[t][Len(stack[t]) + 1].entry = entries'[k]
            /\ ~stack'[t][Len(stack[t]) + 1].returned
        BY <1>5, <1>7, <2>1
      <3> QED
        BY <3>1
    <2>2. CASE k \in DOMAIN entries
      <3>1. PICK u \in Threads : \E i \in DOMAIN stack[u] :
                stack[u][i].entry = entries[k] /\ ~stack[u][i].returned
        BY <1>5, <2>2 DEF AddEntry, LogInv, StacksSound, UnwrittenRuns
      <3>2. PICK i \in DOMAIN stack[u] : stack[u][i].entry = entries[k] /\ ~stack[u][i].returned
        BY <3>1
      <3>3. i \in DOMAIN stack'[u] /\ stack'[u][i] = stack[u][i]
        BY <1>6, <1>7
      <3> QED
        BY <1>5, <2>2, <3>2, <3>3
    <2> QED
      BY <1>5, <2>1, <2>2
  <1>16. ClearsOutside'
    BY <1>6 DEF AddEntry, LogInv, LogTypeOK, StacksSound, ClearsOutside
  <1>17. TakenComplete'
    BY DEF AddEntry, LogInv, TakenComplete
  <1>18. NothingLost'
    <2>1. /\ Range(All) \cup dropped = DOMAIN name
          /\ Range(All) \cap dropped = {}
          /\ \A i, j \in DOMAIN All : i < j => All[i] < All[j]
      BY DEF LogInv, NothingLost, All
    <2>2. /\ All \in Seq(Nat \ {0}) /\ taken \in Seq(Nat \ {0}) /\ entries \in Seq(Nat \ {0})
          /\ Len(All) \in Nat /\ DOMAIN All = 1 .. Len(All)
      BY AllProperties, LenProperties DEF LogInv, LogTypeOK
    <2>3. All' = Append(All, e)
      <3>1. <<e>> \in Seq(Nat \ {0})
        BY <1>1
      <3>2. taken \o (entries \o <<e>>) = (taken \o entries) \o <<e>>
        BY <2>2, <3>1, ConcatAssociative
      <3>3. Append(entries, e) = entries \o <<e>>
        BY <1>1, <2>2, AppendIsConcat
      <3>4. Append(All, e) = All \o <<e>>
        BY <1>1, <2>2, AppendIsConcat
      <3> QED
        BY <1>5, <3>2, <3>3, <3>4 DEF All, AddEntry
    <2>4. /\ DOMAIN All' = DOMAIN All \cup {Len(All) + 1}
          /\ All'[Len(All) + 1] = e
          /\ \A i \in DOMAIN All : All'[i] = All[i]
      BY <1>1, <2>2, <2>3, AppendSeq
    <2>5. Range(All') = Range(All) \cup {e}
      BY <2>4 DEF Range
    <2>6. \A i \in DOMAIN All : All[i] \in DOMAIN name
      BY <2>1 DEF Range
    <2>7. /\ Range(All') \cup dropped' = DOMAIN name'
          /\ Range(All') \cap dropped' = {}
      BY <1>1, <1>4, <2>1, <2>5 DEF AddEntry, LogInv, LogTypeOK
    <2>8. \A i, j \in DOMAIN All' : i < j => All'[i] < All'[j]
      BY <1>1, <2>1, <2>2, <2>4, <2>6
    <2> QED
      BY <2>7, <2>8 DEF NothingLost, All
  <1> QED
    BY <1>8, <1>11, <1>12, <1>13, <1>14, <1>15, <1>16, <1>17, <1>18 DEF LogInv, StacksSound

\* The function has returned: its result is written into its entry.
LEMMA PrintResultInductive ==
    ASSUME LogInv, NEW t \in Threads, PrintResult(t)
    PROVE  LogInv'
  <1> DEFINE top == Len(stack[t])
             frame == [stack[t][top] EXCEPT !.returned = TRUE]
  <1>1. stack[t] \in Seq(Frame) /\ stack[t] # <<>> /\ top \in DOMAIN stack[t]
    BY PopSeq DEF PrintResult, LogInv, LogTypeOK
  <1>2. stack[t][top] \in Frame
    BY <1>1, ElementOfSeq, LenProperties
  <1>3. frame \in Frame /\ frame.entry = stack[t][top].entry /\ frame.returned = TRUE
    BY <1>2 DEF Frame
  <1>4. /\ stack' = [stack EXCEPT ![t] = [stack[t] EXCEPT ![top] = frame]]
        /\ stack'[t] = [stack[t] EXCEPT ![top] = frame]
        /\ \A u \in Threads \ {t} : stack'[u] = stack[u]
    BY <1>1, <1>2 DEF PrintResult, LogInv, LogTypeOK, Frame
  <1>5. /\ stack'[t] \in Seq(Frame)
        /\ DOMAIN stack'[t] = DOMAIN stack[t]
        /\ stack'[t][top] = frame
        /\ \A i \in DOMAIN stack[t] \ {top} : stack'[t][i] = stack[t][i]
    <2> HIDE DEF frame
    <2> QED
      BY <1>1, <1>3, <1>4, UpdateSeq
  <1> HIDE DEF frame
  <1>6. /\ \A u \in Threads : DOMAIN stack'[u] = DOMAIN stack[u]
        /\ \A u \in Threads : \A i \in DOMAIN stack[u] : stack'[u][i].entry = stack[u][i].entry
    BY <1>1, <1>3, <1>4, <1>5
  <1>7. \A u \in Threads : OpenEntries(u)' = OpenEntries(u)
    <2>1. \A u \in Threads : OpenIn(stack'[u]) = OpenIn(stack[u])
      BY <1>6 DEF OpenIn
    <2> QED
      BY <2>1, OpenEntriesIn, OpenEntriesInNext
  <1>8. /\ written \subseteq written'
        /\ stack[t][top].entry # NoEntry => stack[t][top].entry \in written'
        /\ written' \subseteq DOMAIN name
    <2>1. stack[t][top].entry # NoEntry => stack[t][top].entry \in DOMAIN name
      <3>1. stack[t][top].entry # NoEntry => stack[t][top].entry \in OpenIn(stack[t])
        BY <1>1 DEF OpenIn
      <3> QED
        BY <3>1, OpenEntriesFinite, OpenEntriesIn DEF LogInv
    <2> QED
      BY <2>1 DEF PrintResult, Top, LogInv, LogTypeOK
  <1>9. LogTypeOK'
    BY <1>4, <1>5, <1>8 DEF PrintResult, LogInv, LogTypeOK
  <1>10. OneWriter' /\ OpenEntryStored'
    BY <1>7 DEF PrintResult, LogInv, OneWriter, OpenEntryStored
  <1>11. OwnEntries'
    BY <1>6 DEF LogInv, StacksSound, OwnEntries, Opens
  <1>12. ReturnedWritten'
    BY <1>3, <1>4, <1>5, <1>6, <1>8 DEF LogInv, StacksSound, ReturnedWritten, Opens
  <1>13. UnwrittenRuns'
    <2> SUFFICES ASSUME NEW k \in DOMAIN entries, entries[k] \notin written'
                 PROVE  \E u \in Threads : \E i \in DOMAIN stack'[u] :
                            stack'[u][i].entry = entries[k] /\ ~stack'[u][i].returned
      BY DEF PrintResult, UnwrittenRuns
    <2>1. PICK u \in Threads : \E i \in DOMAIN stack[u] :
              stack[u][i].entry = entries[k] /\ ~stack[u][i].returned
      BY <1>8 DEF LogInv, StacksSound, UnwrittenRuns
    <2>2. PICK i \in DOMAIN stack[u] : stack[u][i].entry = entries[k] /\ ~stack[u][i].returned
      BY <2>1
    <2>3. entries[k] # NoEntry
      BY ElementOfSeq, LenProperties DEF LogInv, LogTypeOK, NoEntry
    <2>4. ~(u = t /\ i = top)
      BY <1>8, <2>2, <2>3
    <2>5. stack'[u][i] = stack[u][i]
      BY <1>4, <1>5, <2>4
    <2> QED
      BY <1>6, <2>2, <2>5
  <1>14. ClearsOutside'
    BY <1>4 DEF PrintResult, Running, LogInv, StacksSound, ClearsOutside
  <1>15. TakenComplete' /\ NothingLost'
    BY <1>8 DEF PrintResult, LogInv, TakenComplete, NothingLost
  <1> QED
    BY <1>9, <1>10, <1>11, <1>12, <1>13, <1>14, <1>15 DEF LogInv, StacksSound

\* What ~Entry does to the log: nothing, or the entry is found and deleted.
LEMMA EndEntryLog ==
    ASSUME LogInv, NEW t \in Threads, EndEntry(t)
    PROVE  LET e == Top(t).entry
           IN  \/ UNCHANGED <<entries, dropped>>
               \/ /\ e # NoEntry
                  /\ dropped' = dropped \cup {e}
                  /\ \E k \in DOMAIN entries : entries[k] = e /\ entries' = RemoveAt(entries, k)
  <1> DEFINE e == Top(t).entry
             k == CHOOSE k \in DOMAIN entries : entries[k] = e
  <1>1. CASE e # NoEntry /\ name[e] \in filters
    <2>1. entries' = RemoveAt(entries, k) /\ dropped' = dropped \cup {e}
      BY <1>1 DEF EndEntry, DeleteEntry
    <2>2. e \in OpenEntries(t)
      BY <1>1, OpenEntriesIn, PopSeq DEF EndEntry, Top, OpenIn, LogInv, LogTypeOK
    <2>3. \E i \in DOMAIN entries : entries[i] = e
      BY <2>2 DEF LogInv, OpenEntryStored, Range
    <2>4. k \in DOMAIN entries /\ entries[k] = e
      BY <2>3
    <2> HIDE DEF k
    <2> QED
      BY <1>1, <2>1, <2>4
  <1>2. CASE ~(e # NoEntry /\ name[e] \in filters)
    BY <1>2 DEF EndEntry
  <1> QED
    BY <1>1, <1>2

\* Deleting an entry keeps the others in order, and each in one place.
LEMMA DropKeepsOthers ==
    ASSUME LogTypeOK, NothingLost, NEW k \in DOMAIN entries, entries' = RemoveAt(entries, k),
           dropped' = dropped \cup {entries[k]}, UNCHANGED <<taken, name>>
    PROVE  /\ NothingLost'
           /\ entries' \in Seq(Nat \ {0})
           /\ Range(entries') = Range(entries) \ {entries[k]}
  <1> DEFINE j == Len(taken) + k
  <1>1. /\ Range(All) \cup dropped = DOMAIN name
        /\ Range(All) \cap dropped = {}
        /\ \A i, l \in DOMAIN All : i < l => All[i] < All[l]
    BY DEF NothingLost, All
  <1>2. entries \in Seq(Nat \ {0}) /\ taken \in Seq(Nat \ {0}) /\ All \in Seq(Nat)
    BY AllProperties, SeqMonotonic DEF LogTypeOK
  <1>3. j \in DOMAIN All /\ All[j] = entries[k] /\ All' = RemoveAt(All, j)
    BY ZenonT(60), <1>2, ConcatRemoveAt DEF All
  <1> HIDE DEF j
  <1>4. /\ \A i, l \in DOMAIN All' : i < l => All'[i] < All'[l]
        /\ Range(All') = Range(All) \ {entries[k]}
    BY <1>1, <1>2, <1>3, RemoveAtIncreasing
  <1>5. entries[k] \in Range(All)
    BY <1>3 DEF Range
  <1>6. NothingLost'
    BY <1>1, <1>4, <1>5 DEF NothingLost, All
  <1>7. entries' \in Seq(Nat \ {0})
    BY <1>2, RemoveAtSeq
  <1>8. \A i, l \in DOMAIN entries : i < l => entries[i] < entries[l]
    <2> SUFFICES ASSUME NEW i \in DOMAIN entries, NEW l \in DOMAIN entries, i < l
                 PROVE  entries[i] < entries[l]
      OBVIOUS
    <2>1. /\ Len(taken) + i \in DOMAIN All /\ All[Len(taken) + i] = entries[i]
      BY ZenonT(60), <1>2, ConcatRemoveAt DEF All
    <2>3. /\ Len(taken) + l \in DOMAIN All /\ All[Len(taken) + l] = entries[l]
      BY ZenonT(60), <1>2, ConcatRemoveAt DEF All
    <2>2. Len(taken) + i < Len(taken) + l
      BY <1>2, LenProperties
    <2> QED
      BY <1>1, <2>1, <2>2, <2>3
  <1>9. entries \in Seq(Nat)
    BY <1>2, SeqMonotonic
  <1> QED
    BY <1>6, <1>7, <1>8, <1>9, RemoveAtIncreasing

\* ~Entry: the entry of the innermost LogEntry leaves the log if it is filtered, and
\* the mutex is unlocked once if there was an entry.
LEMMA EndEntryInductive ==
    ASSUME LogInv, NEW t \in Threads, EndEntry(t)
    PROVE  LogInv'
  <1> DEFINE top == Len(stack[t])
             e == stack[t][top].entry
  <1>1. stack[t] \in Seq(Frame) /\ stack[t] # <<>> /\ top \in DOMAIN stack[t]
    BY PopSeq DEF EndEntry, LogInv, LogTypeOK
  <1>2. stack[t][top] \in Frame /\ e \in Nat /\ e = Top(t).entry /\ stack[t][top].returned
    <2>1. stack[t][top] \in Frame
      BY <1>1, ElementOfSeq, LenProperties
    <2> QED
      BY <2>1 DEF Frame, Top, EndEntry
  <1>3. /\ stack' = [stack EXCEPT ![t] = SubSeq(stack[t], 1, top - 1)]
        /\ stack'[t] = SubSeq(stack[t], 1, top - 1)
        /\ \A u \in Threads \ {t} : stack'[u] = stack[u]
    BY DEF EndEntry, LogInv, LogTypeOK
  <1>4. /\ stack'[t] \in Seq(Frame)
        /\ DOMAIN stack'[t] = DOMAIN stack[t] \ {top}
        /\ \A i \in DOMAIN stack[t] \ {top} : stack'[t][i] = stack[t][i]
    BY <1>1, <1>3, PopSeq
  <1>5. /\ \A u \in Threads : DOMAIN stack'[u] \subseteq DOMAIN stack[u]
        /\ \A u \in Threads : \A i \in DOMAIN stack'[u] : stack'[u][i] = stack[u][i]
    BY <1>3, <1>4
  <1>6. /\ OpenEntries(t)' = OpenEntries(t) \ {e}
        /\ \A u \in Threads \ {t} : OpenEntries(u)' = OpenEntries(u)
        /\ e # NoEntry => e \in OpenEntries(t)
        /\ NoEntry \notin OpenEntries(t)
    <2>1. OpenIn(stack'[t]) = OpenIn(stack[t]) \ {e}
      BY <1>1, <1>3, PopCloses DEF LogInv, StacksSound, OwnEntries, Opens
    <2>2. e # NoEntry => e \in OpenIn(stack[t])
      BY <1>1 DEF OpenIn
    <2>3. NoEntry \notin OpenIn(stack[t])
      BY DEF OpenIn
    <2> QED
      BY <1>3, <2>1, <2>2, <2>3, OpenEntriesIn, OpenEntriesInNext
  <1>7. /\ entries' \in Seq(Nat \ {0})
        /\ NothingLost'
        /\ Range(entries') \subseteq Range(entries)
        /\ Range(entries) \ {e} \subseteq Range(entries')
        /\ e = NoEntry => entries' = entries
        /\ dropped' \subseteq DOMAIN name
    <2>1. CASE UNCHANGED <<entries, dropped>>
      BY <2>1 DEF EndEntry, LogInv, LogTypeOK, NothingLost
    <2>2. CASE /\ e # NoEntry
               /\ dropped' = dropped \cup {e}
               /\ \E k \in DOMAIN entries : entries[k] = e /\ entries' = RemoveAt(entries, k)
      <3>1. PICK k \in DOMAIN entries : entries[k] = e /\ entries' = RemoveAt(entries, k)
        BY <2>2
      <3>2. /\ NothingLost'
            /\ entries' \in Seq(Nat \ {0})
            /\ Range(entries') = Range(entries) \ {entries[k]}
        BY <2>2, <3>1, DropKeepsOthers DEF LogInv, EndEntry
      <3>3. dropped' \subseteq DOMAIN name
        BY <1>6, <2>2, OpenEntriesFinite DEF LogInv, LogTypeOK
      <3> QED
        BY <2>2, <3>1, <3>2, <3>3
    <2> QED
      BY <1>2, <2>1, <2>2, EndEntryLog
  <1>8. \A u \in Threads : IsFiniteSet(OpenEntries(u))
    BY OpenEntriesFinite DEF LogInv
  <1>9. OneWriter' /\ owner' \in Threads \cup {NoThread} /\ count' \in Nat
    <2>1. CASE e = NoEntry
      <3>1. UNCHANGED <<owner, count>>
        BY <1>2, <2>1 DEF EndEntry, Release
      <3>2. \A u \in Threads : OpenEntries(u)' = OpenEntries(u)
        BY <1>6, <2>1
      <3> QED
        BY <3>1, <3>2 DEF LogInv, LogTypeOK, OneWriter
    <2>2. CASE e # NoEntry
      <3>1. e \in OpenEntries(t) /\ owner = t /\ count \in Nat \ {0}
        BY <1>6, <2>2, OpenerOwns
      <3>2. Unlock
        BY <1>2, <2>2 DEF EndEntry, Release
      <3>3. Cardinality(OpenEntries(t)) = count
        BY <3>1 DEF LogInv, OneWriter
      <3>4. Cardinality(OpenEntries(t)') = count - 1
        <4>1. Cardinality(OpenEntries(t) \ {e}) = Cardinality(OpenEntries(t)) - 1
          <5> HIDE DEF e
          <5>1. IsFiniteSet(OpenEntries(t)) /\ e \in OpenEntries(t)
            BY <1>8, <3>1
          <5> QED
            BY <5>1, FS_RemoveElement
        <4> QED
          BY <1>6, <3>3, <4>1
      <3>5. \A u \in Threads \ {t} : Cardinality(OpenEntries(u)') = 0
        BY <1>6, <3>1 DEF LogInv, OneWriter
      <3>6. CASE count = 1
        <4>1. owner' = NoThread /\ count' = 0
          BY <3>2, <3>6 DEF Unlock
        <4>2. \A u \in Threads : Cardinality(OpenEntries(u)') = 0
          BY <3>4, <3>5, <3>6
        <4> QED
          BY <4>1, <4>2, LogAssumption DEF OneWriter
      <3>7. CASE count # 1
        <4>1. owner' = t /\ count' = count - 1 /\ count' \in Nat \ {0}
          BY <3>1, <3>2, <3>7 DEF Unlock
        <4> QED
          BY <3>4, <3>5, <4>1, LogAssumption DEF OneWriter
      <3> QED
        BY <3>6, <3>7
    <2> QED
      BY <2>1, <2>2
  <1>10. LogTypeOK'
    BY <1>3, <1>4, <1>7, <1>9 DEF EndEntry, LogInv, LogTypeOK
  <1>11. OpenEntryStored'
    <2>1. \A u \in Threads : OpenEntries(u) \subseteq Range(entries)
      BY DEF LogInv, OpenEntryStored
    <2>2. CASE e = NoEntry
      BY <1>6, <1>7, <2>1, <2>2 DEF OpenEntryStored
    <2>3. CASE e # NoEntry
      <3>1. \A u \in Threads \ {t} : OpenEntries(u) = {}
        BY <1>6, <2>3, OpenerOwns, LockerAlone
      <3> QED
        BY <1>6, <1>7, <2>1, <3>1 DEF OpenEntryStored
    <2> QED
      BY <2>2, <2>3
  <1>12. OwnEntries' /\ ReturnedWritten'
    BY <1>5 DEF EndEntry, LogInv, StacksSound, OwnEntries, ReturnedWritten, Opens
  <1>13. UnwrittenRuns'
    <2> SUFFICES ASSUME NEW k \in DOMAIN entries', entries'[k] \notin written'
                 PROVE  \E u \in Threads : \E i \in DOMAIN stack'[u] :
                            stack'[u][i].entry = entries'[k] /\ ~stack'[u][i].returned
      BY DEF UnwrittenRuns
    <2>1. entries'[k] \in Range(entries) /\ entries'[k] \notin written
      BY <1>7 DEF Range, EndEntry
    <2>2. PICK l \in DOMAIN entries : entries[l] = entries'[k]
      BY <2>1 DEF Range
    <2>3. PICK u \in Threads : \E i \in DOMAIN stack[u] :
              stack[u][i].entry = entries[l] /\ ~stack[u][i].returned
      BY <2>1, <2>2 DEF LogInv, StacksSound, UnwrittenRuns
    <2>4. PICK i \in DOMAIN stack[u] : stack[u][i].entry = entries[l] /\ ~stack[u][i].returned
      BY <2>3
    <2>5. i \in DOMAIN stack'[u] /\ stack'[u][i] = stack[u][i]
      BY <1>2, <1>3, <1>4, <2>4
    <2> QED
      BY <2>2, <2>4, <2>5
  <1>14. ClearsOutside'
    BY <1>3 DEF EndEntry, LogInv, StacksSound, ClearsOutside
  <1>15. TakenComplete'
    BY DEF EndEntry, LogInv, TakenComplete
  <1> QED
    BY <1>7, <1>9, <1>10, <1>11, <1>12, <1>13, <1>14, <1>15 DEF LogInv, StacksSound

\* clear(): the thread is outside of logged functions and has locked the mutex, so
\* no function is running that still has to write its result.
LEMMA ClearInductive ==
    ASSUME LogInv, NEW t \in Threads, Clear(t)
    PROVE  LogInv'
  <1>1. stack[t] = <<>>
    BY DEF Clear, LogInv, StacksSound, ClearsOutside
  <1>2. \A u \in Threads : OpenEntries(u) = {}
    <2>1. OpenEntries(t) = {}
      BY <1>1, OpenEntriesIn DEF OpenIn
    <2> QED
      BY <2>1, LockerAlone DEF Clear
  <1>3. \A k \in DOMAIN entries : entries[k] \in written
    <2> SUFFICES ASSUME NEW k \in DOMAIN entries, entries[k] \notin written
                 PROVE  FALSE
      OBVIOUS
    <2>1. PICK u \in Threads : \E i \in DOMAIN stack[u] : stack[u][i].entry = entries[k]
      BY DEF LogInv, StacksSound, UnwrittenRuns
    <2>2. entries[k] # NoEntry
      BY ElementOfSeq, LenProperties DEF LogInv, LogTypeOK, NoEntry
    <2>3. entries[k] \in OpenEntries(u)
      BY <2>1, <2>2, OpenEntriesIn DEF OpenIn
    <2> QED
      BY <1>2, <2>3
  <1>4. taken' = All /\ entries' = <<>> /\ All' = All
    <2>1. All \in Seq(Nat \ {0})
      BY AllProperties DEF LogInv
    <2>2. taken' = All /\ entries' = <<>>
      BY DEF Clear, All
    <2>3. All' = taken' \o <<>>
      BY <2>2 DEF All
    <2> QED
      BY <2>1, <2>2, <2>3, ConcatEmptySeq
  <1>5. LogTypeOK'
    BY <1>4, AllProperties, EmptySeq DEF Clear, LogInv, LogTypeOK, Steps
  <1>6. \A u \in Threads : OpenEntries(u)' = {}
    BY <1>2 DEF Clear, OpenEntries
  <1>7. OneWriter' /\ OpenEntryStored'
    BY <1>2, <1>6 DEF Clear, LogInv, OneWriter, OpenEntryStored
  <1>8. StacksSound'
    <2>1. OwnEntries' /\ ReturnedWritten'
      BY DEF Clear, LogInv, StacksSound, OwnEntries, ReturnedWritten, Opens
    <2>2. UnwrittenRuns'
      BY <1>4 DEF UnwrittenRuns
    <2>3. ClearsOutside'
      BY DEF Clear, LogInv, LogTypeOK, StacksSound, ClearsOutside
    <2> QED
      BY <2>1, <2>2, <2>3 DEF StacksSound
  <1>9. TakenComplete'
    <2> SUFFICES ASSUME NEW i \in DOMAIN All
                 PROVE  All[i] \in written
      BY <1>4 DEF TakenComplete, Clear
    <2>1. All[i] \in Range(taken) \cup Range(entries)
      BY AllProperties DEF LogInv, Range
    <2> QED
      BY <1>3, <2>1 DEF LogInv, TakenComplete, Range
  <1>10. NothingLost'
    BY <1>4 DEF Clear, LogInv, NothingLost, All
  <1> QED
    BY <1>5, <1>7, <1>8, <1>9, <1>10 DEF LogInv

LEMMA LogNextInductive == LogInv /\ [LogNext]_logVars => LogInv'
  <1> SUFFICES ASSUME LogInv, [LogNext]_logVars PROVE LogInv'
    OBVIOUS
  <1>1. CASE UNCHANGED logVars
    <2>1. LogTypeOK' /\ ClearsOutside'
      BY <1>1 DEF logVars, LogInv, LogTypeOK, StacksSound, ClearsOutside
    <2> QED
      BY <1>1, <2>1, QuietInductive DEF logVars
  <1>2. ASSUME NEW t \in Threads,
               \/ \E f \in Names : BeginEntry(t, f)
               \/ AddEntry(t) \/ LogFull(t)
               \/ PrintResult(t) \/ EndEntry(t)
               \/ LastLog(t) \/ Clear(t)
               \/ \E n \in MaxSizes : SetMaxSize(t, n)
               \/ \E F \in FilterSets : SetFilter(t, F)
        PROVE  LogInv'
    BY <1>2, BeginEntryInductive, AddEntryInductive, LogFullInductive, PrintResultInductive,
       EndEntryInductive, LastLogInductive, ClearInductive, SetMaxSizeInductive,
       SetFilterInductive
  <1> QED
    BY <1>1, <1>2 DEF LogNext

-----------------------------------------------------------------------------
(* The theorems *)

\* LogInv holds in every state of every behaviour of the log.
THEOREM LogInductive == LogSpec => []LogInv
  BY LogInitInductive, LogNextInductive, PTL DEF LogSpec

\* The variables of the log keep their types.
THEOREM LogTypeCorrect == LogSpec => []LogTypeOK
  <1>1. LogInv => LogTypeOK
    BY DEF LogInv
  <1> QED
    BY <1>1, LogInductive, PTL

\* Only the owner of the recursive mutex has entries open, and its lock count is the
\* number of them: no LogEntry unlocks a mutex it has not locked, however calls,
\* callbacks, full logs and filters nest and interleave.
THEOREM OneWriterCorrect == LogSpec => []OneWriter
  <1>1. LogInv => OneWriter
    BY DEF LogInv
  <1> QED
    BY <1>1, LogInductive, PTL

\* clear() never returns an entry of a call that has not returned.
THEOREM TakenCompleteCorrect == LogSpec => []TakenComplete
  <1>1. LogInv => TakenComplete
    BY DEF LogInv
  <1> QED
    BY <1>1, LogInductive, PTL

\* ~Entry always finds its entry: no clear() and no filter of another thread takes
\* the entry of a running call away.
THEOREM OpenEntryStoredCorrect == LogSpec => []OpenEntryStored
  <1>1. LogInv => OpenEntryStored
    BY DEF LogInv
  <1> QED
    BY <1>1, LogInductive, PTL

\* Every entry is in the log, returned once by clear() or removed by the filter, and
\* the order of the calls is kept.
THEOREM NothingLostCorrect == LogSpec => []NothingLost
  <1>1. LogInv => NothingLost
    BY DEF LogInv
  <1> QED
    BY <1>1, LogInductive, PTL

=============================================================================
