--------------------------- MODULE ToxEventsProofs --------------------------
(***************************************************************************)
(* The safety properties of event batches, for every order of dispatch and *)
(* all threads, types, friends and files, whatever the bounds are.         *)
(*                                                                         *)
(* EventsInv adds to the properties where the events are.  The lists are   *)
(* emptied with every batch, so a batch has later events than all before   *)
(* it (FetchedInOrder) and those in the lists are later still              *)
(* (WaitingLater).  What a dispatch has left comes after what it delivered *)
(* (RestLater).  So an event can only be overtaken by one of a later       *)
(* batch, and that batch was fetched while the dispatch of the earlier one *)
(* was open (OverlapsSound).                                               *)
(***************************************************************************)
EXTENDS ToxEvents, ProofLemmas

\* The records of the state variables.
Occurrences == [type : Registered, friend : Friends, file : Files \cup {0}]
Frames == [batch : Nat, rest : Seq(Nat), handling : BOOLEAN]
Calls == [id : Nat, batch : Nat,
          args : [type : Registered, friend : Friends \cup Files \cup {0}, file : Files \cup {0}]]

EventsTypeOK ==
    /\ order \in DispatchOrders
    /\ occurred \in Seq(Occurrences)
    /\ events \in [Registered -> Seq(Nat)]
    /\ iterating \in Threads \cup {NoThread}
    /\ stack \in [Threads -> Seq(Frames)]
    /\ batches \in Nat
    /\ overlaps \in Seq(SUBSET Nat) /\ Len(overlaps) = batches
    /\ delivered \in Seq(Calls)
    /\ lost \in SUBSET Nat

\* The dispatches of all threads.
Open == UNION {Range(stack[t]) : t \in Threads}

\* The events that wait in the lists of the native side.
Waiting == UNION {Range(events[type]) : type \in DOMAIN events}

\* A dispatch handles event a before event b of its batch.
Before(a, b) == Rank(a) < Rank(b) \/ (Rank(a) = Rank(b) /\ a < b)

\* Every batch is in one dispatch.
BatchesApart ==
    \A t, u \in Threads : \A i \in DOMAIN stack[t], j \in DOMAIN stack[u] :
        stack[t][i].batch = stack[u][j].batch => t = u /\ i = j

\* A list has events of its type, in the order of their callbacks.
ListsSound ==
    \A type \in Registered :
        /\ \A k \in DOMAIN events[type] : /\ events[type][k] \in DOMAIN occurred
                                          /\ occurred[events[type][k]].type = type
        /\ \A k, l \in DOMAIN events[type] : k < l => events[type][k] < events[type][l]

\* A dispatch goes through events that occurred, in the order of dispatch.
OpenSound ==
    \A f \in Open :
        /\ f.batch \in 1 .. batches
        /\ \A k \in DOMAIN f.rest : f.rest[k] \in DOMAIN occurred
        /\ \A k, l \in DOMAIN f.rest : k < l => Before(f.rest[k], f.rest[l])

DeliveredSound ==
    \A i \in DOMAIN delivered : /\ delivered[i].id \in DOMAIN occurred
                                /\ delivered[i].batch \in 1 .. batches

\* The events that have been fetched, with their batches.
Fetched ==
    {<<d.id, d.batch>> : d \in Range(delivered)}
    \cup UNION {{<<id, f.batch>> : id \in Range(f.rest)} : f \in Open}

\* An earlier batch has earlier events, and those that wait are later than all.
FetchedInOrder == \A p, q \in Fetched : p[2] < q[2] => p[1] < q[1]
WaitingLater ==
    \A id \in Waiting : (\A p \in Fetched : p[1] < id) /\ (\A l \in lost : l < id)

\* The rest of a dispatch comes after what it has delivered.
RestLater ==
    \A i \in DOMAIN delivered : \A f \in Open :
        delivered[i].batch = f.batch => \A id \in Range(f.rest) : Before(delivered[i].id, id)

\* What is lost is in no dispatch and reached no handler.
LostApart == \A p \in Fetched : p[1] \notin lost

\* A dispatch that is open was open when the later batches were fetched.
OverlapsSound == \A f \in Open : \A b \in f.batch + 1 .. batches : f.batch \in overlaps[b]

\* No event is forgotten.
AllAccounted == Pending \cup Delivered \cup lost = DOMAIN occurred

EventsInv ==
    /\ EventsTypeOK
    /\ BatchesApart
    /\ ListsSound
    /\ OpenSound
    /\ DeliveredSound
    /\ FetchedInOrder
    /\ WaitingLater
    /\ RestLater
    /\ LostApart
    /\ OverlapsSound
    /\ AllAccounted
    /\ BatchOrder
    /\ InOrder

-----------------------------------------------------------------------------
(* Flattening *)

\* The recursive function of FlattenSeq exists: there is one for every prefix of the
\* sequence, since the shortest prefix without one would get it from the prefix
\* before.
LEMMA FlattenExists ==
    ASSUME NEW seqs, NEW n \in Nat \ {0}
    PROVE  \E g : g = [i \in 1 .. n |-> IF i = 1 THEN seqs[i] ELSE g[i - 1] \o seqs[i]]
  <1> DEFINE Solves(g, m) == g = [i \in 1 .. m |-> IF i = 1 THEN seqs[i] ELSE g[i - 1] \o seqs[i]]
             T == {m \in Nat \ {0} : ~ \E g : Solves(g, m)}
  <1> SUFFICES ASSUME T # {} PROVE FALSE
    OBVIOUS
  <1>1. T \in SUBSET Nat
    OBVIOUS
  <1>2. PICK m \in T : \A y \in T : m <= y
    <2> HIDE DEF T
    <2> QED
      BY <1>1, LeastElement
  <1>3. m # 1
    <2> SUFFICES ASSUME m = 1 PROVE FALSE
      OBVIOUS
    <2> DEFINE g == [i \in 1 .. 1 |-> seqs[i]]
    <2>1. g = [i \in 1 .. 1 |-> IF i = 1 THEN seqs[i] ELSE g[i - 1] \o seqs[i]]
      OBVIOUS
    <2>2. Solves(g, m)
      BY <2>1
    <2> QED
      BY <2>2
  <1>4. m - 1 \in Nat \ {0} /\ m - 1 \notin T
    <2>1. m \in Nat \ {0}
      BY <1>2
    <2> HIDE DEF T
    <2> QED
      BY <1>2, <1>3, <2>1
  <1>5. PICK g : Solves(g, m - 1)
    BY <1>4
  <1> DEFINE h == [i \in 1 .. m |-> IF i = 1 THEN seqs[i] ELSE g[i - 1] \o seqs[i]]
  <1>6. \A i \in 1 .. m - 1 : h[i] = g[i]
    <2> SUFFICES ASSUME NEW i \in 1 .. m - 1 PROVE h[i] = g[i]
      OBVIOUS
    <2>1. i \in 1 .. m
      OBVIOUS
    <2>2. g[i] = IF i = 1 THEN seqs[i] ELSE g[i - 1] \o seqs[i]
      BY <1>5
    <2> QED
      BY <2>1, <2>2
  <1>7. Solves(h, m)
    <2>1. ASSUME NEW i \in 1 .. m
          PROVE  h[i] = IF i = 1 THEN seqs[i] ELSE h[i - 1] \o seqs[i]
      <3>1. i # 1 => i - 1 \in 1 .. m - 1
        OBVIOUS
      <3>2. i # 1 => h[i - 1] = g[i - 1]
        BY <1>6, <3>1
      <3> QED
        BY <3>2
    <2>2. h = [i \in 1 .. m |-> h[i]]
      OBVIOUS
    <2> HIDE DEF h
    <2> QED
      BY <2>1, <2>2
  <1> QED
    BY <1>2, <1>7

\* FlattenSeq keeps what each of the sequences has, in an order R that holds between
\* the elements of one sequence and those of a later one.
LEMMA FlattenSorted ==
    ASSUME NEW S, NEW seqs \in Seq(Seq(S)), NEW R,
           \A i \in DOMAIN seqs : \A k, l \in DOMAIN seqs[i] : k < l => <<seqs[i][k], seqs[i][l]>> \in R,
           \A i, j \in DOMAIN seqs : i < j =>
               \A x \in Range(seqs[i]), y \in Range(seqs[j]) : <<x, y>> \in R
    PROVE  /\ FlattenSeq(seqs) \in Seq(S)
           /\ Range(FlattenSeq(seqs)) = UNION {Range(seqs[i]) : i \in DOMAIN seqs}
           /\ \A k, l \in DOMAIN FlattenSeq(seqs) :
                  k < l => <<FlattenSeq(seqs)[k], FlattenSeq(seqs)[l]>> \in R
  <1>1. PICK n \in Nat : n = Len(seqs) /\ DOMAIN seqs = 1 .. n
    BY LenProperties
  <1>2. CASE n = 0
    <2>1. FlattenSeq(seqs) = <<>> /\ DOMAIN seqs = {}
      BY <1>1, <1>2, EmptySeq DEF FlattenSeq
    <2> QED
      BY <2>1, EmptySeq DEF Range
  <1>3. CASE n # 0
    <2> DEFINE f == CHOOSE g : g = [i \in 1 .. n |-> IF i = 1 THEN seqs[i] ELSE g[i - 1] \o seqs[i]]
    <2>1. FlattenSeq(seqs) = f[n]
      BY <1>1, <1>3 DEF FlattenSeq
    <2>2. f = [i \in 1 .. n |-> IF i = 1 THEN seqs[i] ELSE f[i - 1] \o seqs[i]]
      <3>1. \E g : g = [i \in 1 .. n |-> IF i = 1 THEN seqs[i] ELSE g[i - 1] \o seqs[i]]
        <4>1. n \in Nat \ {0}
          BY <1>3
        <4> QED
          BY <4>1, FlattenExists, Zenon
      <3> QED
        BY <3>1, Zenon
    <2> HIDE DEF f
    <2>3. /\ f[1] = seqs[1]
          /\ \A i \in 1 .. n : i # 1 => f[i] = f[i - 1] \o seqs[i]
      <3>1. ASSUME NEW i \in 1 .. n
            PROVE  f[i] = IF i = 1 THEN seqs[i] ELSE f[i - 1] \o seqs[i]
        BY <2>2, Zenon
      <3>2. 1 \in 1 .. n
        BY <1>3
      <3> QED
        BY <3>1, <3>2
    <2> DEFINE Upto(m) == UNION {Range(seqs[i]) : i \in 1 .. m}
               Good(m) == /\ f[m] \in Seq(S)
                          /\ Range(f[m]) = Upto(m)
                          /\ \A k, l \in DOMAIN f[m] : k < l => <<f[m][k], f[m][l]>> \in R
               T == {m \in 1 .. n : ~Good(m)}
    <2>4. \A i \in 1 .. n : seqs[i] \in Seq(S)
      BY <1>1, ElementOfSeq
    <2>5. Good(1)
      <3>1. 1 \in 1 .. n /\ Upto(1) = Range(seqs[1])
        BY <1>3
      <3> QED
        BY <1>1, <2>3, <2>4, <3>1
    <2>6. ASSUME NEW m \in 1 .. n, m # 1, Good(m - 1)
          PROVE  Good(m)
      <3> DEFINE a == f[m - 1]
                 b == seqs[m]
      <3>1. a \in Seq(S) /\ b \in Seq(S) /\ f[m] = a \o b
        <4>1. b \in Seq(S)
          BY <2>4
        <4>2. f[m] = a \o b
          BY <2>3, <2>6
        <4>3. a \in Seq(S)
          BY <2>6
        <4> QED
          BY <4>1, <4>2, <4>3
      <3>8. /\ Range(a) = Upto(m - 1)
            /\ \A k, l \in DOMAIN a : k < l => <<a[k], a[l]>> \in R
            /\ \A k, l \in DOMAIN b : k < l => <<b[k], b[l]>> \in R
        BY <1>1, <2>6
      <3> HIDE DEF a
      <3>2. PICK p \in Nat : p = Len(a) /\ DOMAIN a = 1 .. p
        BY <3>1, LenProperties
      <3>3. PICK q \in Nat : q = Len(b) /\ DOMAIN b = 1 .. q
        BY <3>1, LenProperties
      <3>4. /\ f[m] \in Seq(S) /\ DOMAIN f[m] = 1 .. p + q
            /\ \A k \in 1 .. p + q : f[m][k] = IF k <= p THEN a[k] ELSE b[k - p]
            /\ Range(f[m]) = Range(a) \cup Range(b)
        <4> HIDE DEF b
        <4>1. /\ a \o b \in Seq(S) /\ Len(a \o b) = Len(a) + Len(b)
              /\ \A k \in 1 .. Len(a) + Len(b) :
                     (a \o b)[k] = IF k <= Len(a) THEN a[k] ELSE b[k - Len(a)]
          BY <3>1, ConcatProperties
        <4>2. /\ a \o b \in Seq(S) /\ Len(a \o b) = p + q
              /\ \A k \in 1 .. p + q : (a \o b)[k] = IF k <= p THEN a[k] ELSE b[k - p]
          BY <3>2, <3>3, <4>1
        <4>3. DOMAIN (a \o b) = 1 .. p + q
          BY <4>2, LenProperties
        <4>4. Range(a \o b) = Range(a) \cup Range(b)
          BY <3>1, RangeConcatenation
        <4> QED
          BY <3>1, <4>2, <4>3, <4>4
      <3>5. Upto(m) = Upto(m - 1) \cup Range(seqs[m])
        <4>1. 1 .. m = 1 .. m - 1 \cup {m}
          OBVIOUS
        <4> QED
          BY <4>1
      <3>6. Range(f[m]) = Upto(m)
        BY <3>4, <3>5, <3>8
      <3>7. ASSUME NEW k \in 1 .. p + q, NEW l \in 1 .. p + q, k < l
            PROVE  <<f[m][k], f[m][l]>> \in R
        <4>1. CASE l <= p
          <5>2. k \in 1 .. p /\ l \in 1 .. p /\ k <= p
            BY <3>7, <4>1
          <5>1. f[m][k] = a[k] /\ f[m][l] = a[l]
            BY <3>4, <4>1, <5>2
          <5> QED
            BY <3>2, <3>7, <3>8, <5>1, <5>2
        <4>2. CASE k > p
          <5>1. k - p \in 1 .. q /\ l - p \in 1 .. q /\ k - p < l - p
            BY <3>7, <4>2
          <5>2. f[m][k] = b[k - p] /\ f[m][l] = b[l - p]
            <6>1. ~(k <= p) /\ ~(l <= p)
              BY <3>7, <4>2
            <6> QED
              BY <3>4, <6>1
          <5> QED
            BY <3>3, <3>8, <5>1, <5>2
        <4>3. CASE k <= p /\ l > p
          <5>1. k \in DOMAIN a /\ l - p \in DOMAIN b
            <6> HIDE DEF b
            <6> QED
              BY <3>2, <3>3, <4>3
          <5>2. f[m][k] = a[k] /\ f[m][l] = b[l - p]
            BY <3>4, <4>3
          <5>3. a[k] \in Upto(m - 1) /\ b[l - p] \in Range(seqs[m])
            BY <3>8, <5>1 DEF Range
          <5>4. PICK i \in 1 .. m - 1 : a[k] \in Range(seqs[i])
            BY <5>3
          <5>5. i \in DOMAIN seqs /\ m \in DOMAIN seqs /\ i < m
            BY <1>1, <5>4
          <5> QED
            BY <5>2, <5>3, <5>4, <5>5
        <4> QED
          BY <3>7, <4>1, <4>2, <4>3
      <3> QED
        BY <3>4, <3>6, <3>7
    <2> HIDE DEF Good
    <2>7. T = {}
      <3> SUFFICES ASSUME T # {} PROVE FALSE
        OBVIOUS
      <3>1. T \in SUBSET Nat
        BY <1>3
      <3>2. PICK m \in T : \A y \in T : m <= y
        <4> HIDE DEF T
        <4> QED
          BY <3>1, LeastElement
      <3>3. m # 1 /\ m \in 1 .. n /\ ~Good(m)
        BY <2>5, <3>2
      <3>4. m - 1 \in 1 .. n /\ m - 1 \notin T
        BY <3>2, <3>3
      <3>5. Good(m - 1)
        BY <3>4
      <3> QED
        BY <2>6, <3>3, <3>5
    <2>8. Good(n)
      BY <1>3, <2>7
    <2> QED
      BY <1>1, <2>1, <2>8 DEF Good
  <1> QED
    BY <1>2, <1>3

-----------------------------------------------------------------------------
(* The order of dispatch *)

\* The rank of an event is the place of its type.
LEMMA RankType ==
    ASSUME EventsTypeOK, NEW id \in DOMAIN occurred
    PROVE  /\ Rank(id) \in DOMAIN order /\ order[Rank(id)] = occurred[id].type
           /\ Rank(id) \in Nat
           /\ id \in Nat
           /\ \A i \in DOMAIN order : order[i] = occurred[id].type => i = Rank(id)
  <1>1. order \in Seq(Range(order)) /\ IsInjective(order)
    BY EventsAssumption DEF EventsTypeOK
  <1>2. PICK n \in Nat : DOMAIN order = 1 .. n
    BY <1>1, LenProperties
  <1>3. occurred \in Seq(Occurrences)
    BY DEF EventsTypeOK
  <1>4. occurred[id].type \in Range(order)
    <2>1. occurred[id] \in Occurrences
      BY <1>3, ElementOfSeq, LenProperties
    <2> QED
      BY <2>1 DEF Occurrences, Registered
  <1>5. \E i \in DOMAIN order : order[i] = occurred[id].type
    BY <1>4 DEF Range
  <1>6. Rank(id) \in DOMAIN order /\ order[Rank(id)] = occurred[id].type
    BY <1>5 DEF Rank
  <1>7. \A i \in DOMAIN order : order[i] = occurred[id].type => i = Rank(id)
    BY <1>1, <1>6 DEF IsInjective
  <1>8. id \in Nat
    BY <1>3, LenProperties
  <1> QED
    BY <1>2, <1>6, <1>7, <1>8

\* Before is irreflexive, and the order of the callbacks for events of one type.
LEMMA BeforeStrict ==
    ASSUME EventsTypeOK, NEW a \in DOMAIN occurred, NEW b \in DOMAIN occurred, Before(a, b)
    PROVE  a # b /\ (Rank(a) = Rank(b) => a < b)
  <1>1. Rank(a) \in Nat /\ Rank(b) \in Nat /\ a \in Nat /\ b \in Nat
    BY RankType
  <1> QED
    BY <1>1 DEF Before

\* The ranks of events are fixed when they occur.
LEMMA RankKept ==
    ASSUME order' = order, NEW a, NEW b,
           occurred'[a].type = occurred[a].type, occurred'[b].type = occurred[b].type
    PROVE  Rank(a)' = Rank(a) /\ Rank(b)' = Rank(b) /\ Before(a, b)' = Before(a, b)
  <1>1. (CHOOSE i \in DOMAIN order : order[i] = occurred[a].type)'
        = CHOOSE i \in DOMAIN order : order[i] = occurred[a].type
    OBVIOUS
  <1>2. (CHOOSE i \in DOMAIN order : order[i] = occurred[b].type)'
        = CHOOSE i \in DOMAIN order : order[i] = occurred[b].type
    OBVIOUS
  <1>3. Rank(a)' = Rank(a) /\ Rank(b)' = Rank(b)
    BY <1>1, <1>2 DEF Rank
  <1>4. Before(a, b)' = (Rank(a)' < Rank(b)' \/ (Rank(a)' = Rank(b)' /\ a < b))
    BY DEF Before
  <1> QED
    BY <1>3, <1>4 DEF Before

-----------------------------------------------------------------------------
(* The dispatches *)

\* An open dispatch has a place in the stack of a thread.
LEMMA OpenPlace ==
    ASSUME EventsTypeOK
    PROVE  /\ \A f \in Open : \E t \in Threads : \E i \in DOMAIN stack[t] : f = stack[t][i]
           /\ \A t \in Threads : \A i \in DOMAIN stack[t] : stack[t][i] \in Open
           /\ Open \subseteq Frames
  <1>1. \A t \in Threads : stack[t] \in Seq(Frames)
    BY DEF EventsTypeOK
  <1>2. \A t \in Threads : \A i \in DOMAIN stack[t] : stack[t][i] \in Frames
    BY <1>1, ElementOfSeq, LenProperties
  <1> QED
    BY <1>2 DEF Open, Range

\* Two dispatches have different batches.
LEMMA OneDispatch ==
    ASSUME EventsTypeOK, BatchesApart, NEW f \in Open, NEW g \in Open, f.batch = g.batch
    PROVE  f = g
  <1>1. PICK t \in Threads : \E i \in DOMAIN stack[t] : f = stack[t][i]
    BY OpenPlace
  <1>2. PICK i \in DOMAIN stack[t] : f = stack[t][i]
    BY <1>1
  <1>3. PICK u \in Threads : \E j \in DOMAIN stack[u] : g = stack[u][j]
    BY OpenPlace
  <1>4. PICK j \in DOMAIN stack[u] : g = stack[u][j]
    BY <1>3
  <1> QED
    BY <1>2, <1>4 DEF BatchesApart

\* A dispatch begins.
LEMMA PushOpen ==
    ASSUME EventsTypeOK, NEW t \in Threads, NEW f \in Frames,
           stack' = [stack EXCEPT ![t] = Append(@, f)],
           BatchesApart, \A g \in Open : g.batch # f.batch
    PROVE  /\ stack' \in [Threads -> Seq(Frames)]
           /\ Open' = Open \cup {f}
           /\ BatchesApart'
  <1> DEFINE s == stack[t]
             n == Len(s) + 1
  <1>1. stack \in [Threads -> Seq(Frames)] /\ s \in Seq(Frames)
    BY DEF EventsTypeOK
  <1>2. stack'[t] = Append(s, f) /\ \A u \in Threads \ {t} : stack'[u] = stack[u]
    BY <1>1
  <1>3. /\ stack'[t] \in Seq(Frames)
        /\ DOMAIN stack'[t] = DOMAIN s \cup {n} /\ n \notin DOMAIN s
        /\ stack'[t][n] = f
        /\ \A m \in DOMAIN s : stack'[t][m] = s[m]
    BY <1>1, <1>2, AppendSeq
  <1>4. stack' \in [Threads -> Seq(Frames)]
    BY <1>1, <1>3
  <1> HIDE DEF n
  <1>5. Range(stack'[t]) = Range(s) \cup {f}
    BY <1>3 DEF Range
  <1>6. Open' = Open \cup {f}
    <2>1. Open' = UNION {Range(stack'[u]) : u \in Threads}
      BY DEF Open
    <2> QED
      BY <1>2, <1>5, <2>1 DEF Open
  <1>7. BatchesApart'
    <2>1. ASSUME NEW u \in Threads, NEW v \in Threads,
                 NEW i \in DOMAIN stack'[u], NEW j \in DOMAIN stack'[v],
                 stack'[u][i].batch = stack'[v][j].batch
          PROVE  u = v /\ i = j
      <3>1. \A w \in Threads : \A k \in DOMAIN stack'[w] :
                \/ w = t /\ k = n
                \/ k \in DOMAIN stack[w] /\ stack'[w][k] = stack[w][k] /\ stack[w][k] \in Open
        BY <1>2, <1>3, OpenPlace
      <3>2. \A w \in Threads : \A k \in DOMAIN stack[w] : stack[w][k].batch # f.batch
        BY OpenPlace
      <3> QED
        BY <1>3, <2>1, <3>1, <3>2 DEF BatchesApart
    <2> QED
      BY <2>1 DEF BatchesApart
  <1> QED
    BY <1>4, <1>6, <1>7

\* The innermost dispatch of a thread.
LEMMA TopOpen ==
    ASSUME EventsTypeOK, NEW t \in Threads, stack[t] # <<>>
    PROVE  Len(stack[t]) \in DOMAIN stack[t] /\ Top(t) \in Open /\ Top(t) \in Frames
  <1>1. stack[t] \in Seq(Frames)
    BY DEF EventsTypeOK
  <1>2. Len(stack[t]) \in DOMAIN stack[t]
    BY <1>1, EmptySeq, LenProperties
  <1> QED
    BY <1>2, OpenPlace DEF Top

\* A dispatch goes on.
LEMMA ReplaceOpen ==
    ASSUME EventsTypeOK, BatchesApart, NEW t \in Threads, stack[t] # <<>>,
           NEW g \in Frames, g.batch = Top(t).batch,
           stack' = [stack EXCEPT ![t] = [stack[t] EXCEPT ![Len(stack[t])] = g]]
    PROVE  /\ stack' \in [Threads -> Seq(Frames)]
           /\ BatchesApart'
           /\ Open' = (Open \ {Top(t)}) \cup {g}
  <1> DEFINE s == stack[t]
             n == Len(s)
  <1>1. stack \in [Threads -> Seq(Frames)] /\ s \in Seq(Frames) /\ n \in DOMAIN s
    BY TopOpen DEF EventsTypeOK
  <1>2. stack'[t] = [s EXCEPT ![n] = g] /\ \A u \in Threads \ {t} : stack'[u] = stack[u]
    BY <1>1
  <1>3. /\ stack'[t] \in Seq(Frames)
        /\ DOMAIN stack'[t] = DOMAIN s
        /\ stack'[t][n] = g
        /\ \A m \in DOMAIN s \ {n} : stack'[t][m] = s[m]
    BY <1>1, <1>2, UpdateSeq
  <1>4. stack' \in [Threads -> Seq(Frames)]
    BY <1>1, <1>3
  <1>8. stack[t][n] = Top(t)
    BY DEF Top
  <1> HIDE DEF n
  <1>5. \A w \in Threads : /\ DOMAIN stack'[w] = DOMAIN stack[w]
                           /\ \A k \in DOMAIN stack[w] :
                                  IF w = t /\ k = n THEN stack'[w][k] = g
                                  ELSE stack'[w][k] = stack[w][k] /\ stack[w][k] # Top(t)
    <2>1. \A w \in Threads : \A k \in DOMAIN stack[w] :
              stack[w][k] = Top(t) => w = t /\ k = n
      BY <1>1, <1>8 DEF BatchesApart
    <2> QED
      BY <1>2, <1>3, <2>1
  <1>6. Open' = (Open \ {Top(t)}) \cup {g}
    <2>1. Open' = UNION {Range(stack'[u]) : u \in Threads}
      BY DEF Open
    <2>2. \A h \in Open' : h = g \/ (h \in Open /\ h # Top(t))
      BY <1>5, <2>1, OpenPlace DEF Range
    <2>3. g \in Open'
      BY <1>1, <1>3, <2>1 DEF Range
    <2>4. ASSUME NEW h \in Open, h # Top(t)
          PROVE  h \in Open'
      <3>1. PICK w \in Threads : \E k \in DOMAIN stack[w] : h = stack[w][k]
        BY OpenPlace
      <3>2. PICK k \in DOMAIN stack[w] : h = stack[w][k]
        BY <3>1
      <3>3. stack'[w][k] = h /\ k \in DOMAIN stack'[w]
        BY <1>5, <1>8, <2>4, <3>2
      <3> QED
        BY <2>1, <3>3 DEF Range
    <2> QED
      BY <2>2, <2>3, <2>4
  <1>7. BatchesApart'
    <2>1. \A w \in Threads : \A k \in DOMAIN stack[w] : stack'[w][k].batch = stack[w][k].batch
      BY <1>5, <1>8
    <2> QED
      BY <1>5, <2>1 DEF BatchesApart
  <1> QED
    BY <1>4, <1>6, <1>7

\* A dispatch ends.
LEMMA PopOpen ==
    ASSUME EventsTypeOK, BatchesApart, NEW t \in Threads, stack[t] # <<>>, Pop(t)
    PROVE  /\ stack' \in [Threads -> Seq(Frames)]
           /\ BatchesApart'
           /\ Open' = Open \ {Top(t)}
  <1> DEFINE s == stack[t]
             n == Len(s)
  <1>1. stack \in [Threads -> Seq(Frames)] /\ s \in Seq(Frames) /\ n \in DOMAIN s
    BY TopOpen DEF EventsTypeOK
  <1>2. stack'[t] = SubSeq(s, 1, n - 1) /\ \A u \in Threads \ {t} : stack'[u] = stack[u]
    BY <1>1 DEF Pop
  <1>3. /\ stack'[t] \in Seq(Frames)
        /\ DOMAIN stack'[t] = DOMAIN s \ {n}
        /\ \A m \in DOMAIN s \ {n} : stack'[t][m] = s[m]
    BY <1>1, <1>2, PopSeq
  <1>4. stack' \in [Threads -> Seq(Frames)]
    BY <1>1, <1>3 DEF Pop
  <1>8. stack[t][n] = Top(t)
    BY DEF Top
  <1> HIDE DEF n
  <1>5. \A w \in Threads : /\ DOMAIN stack'[w] = {k \in DOMAIN stack[w] : ~(w = t /\ k = n)}
                           /\ \A k \in DOMAIN stack'[w] :
                                  stack'[w][k] = stack[w][k] /\ stack[w][k] # Top(t)
    <2>1. \A w \in Threads : \A k \in DOMAIN stack[w] :
              stack[w][k] = Top(t) => w = t /\ k = n
      BY <1>1, <1>8 DEF BatchesApart
    <2> QED
      BY <1>2, <1>3, <2>1
  <1>6. Open' = Open \ {Top(t)}
    <2>1. Open' = UNION {Range(stack'[u]) : u \in Threads}
      BY DEF Open
    <2>2. \A h \in Open' : h \in Open /\ h # Top(t)
      BY <1>5, <2>1, OpenPlace DEF Range
    <2>4. ASSUME NEW h \in Open, h # Top(t)
          PROVE  h \in Open'
      <3>1. PICK w \in Threads : \E k \in DOMAIN stack[w] : h = stack[w][k]
        BY OpenPlace
      <3>2. PICK k \in DOMAIN stack[w] : h = stack[w][k]
        BY <3>1
      <3>3. stack'[w][k] = h /\ k \in DOMAIN stack'[w]
        BY <1>5, <1>8, <2>4, <3>2
      <3> QED
        BY <2>1, <3>3 DEF Range
    <2> QED
      BY <2>2, <2>4
  <1>7. BatchesApart'
    BY <1>5 DEF BatchesApart
  <1> QED
    BY <1>4, <1>6, <1>7

-----------------------------------------------------------------------------
(* Handlers: the steps of a dispatch *)

\* What is left of a dispatch is what was left, or all but the next event of it.
Continues(g, f) ==
    /\ g.batch = f.batch
    /\ g.rest = f.rest \/ (f.rest # <<>> /\ g.rest = Tail(f.rest))

\* The tail of a sequence.
LEMMA TailSeq ==
    ASSUME NEW S, NEW s \in Seq(S), s # <<>>
    PROVE  /\ Tail(s) \in Seq(S)
           /\ 1 \in DOMAIN s /\ Head(s) = s[1]
           /\ \A k \in DOMAIN Tail(s) : k + 1 \in DOMAIN s /\ 1 < k + 1 /\ Tail(s)[k] = s[k + 1]
           /\ \A k \in DOMAIN s : k = 1 \/ k - 1 \in DOMAIN Tail(s)
           /\ Range(s) = Range(Tail(s)) \cup {Head(s)}
  <1>1. PICK n \in Nat \ {0} : n = Len(s) /\ DOMAIN s = 1 .. n
    BY EmptySeq, LenProperties
  <1>2. /\ Tail(s) \in Seq(S) /\ Len(Tail(s)) = n - 1 /\ Head(s) = s[1]
        /\ \A k \in 1 .. n - 1 : Tail(s)[k] = s[k + 1]
    BY <1>1, HeadTailProperties
  <1>3. DOMAIN Tail(s) = 1 .. n - 1
    BY <1>1, <1>2, LenProperties
  <1>4. /\ \A k \in DOMAIN Tail(s) : k + 1 \in DOMAIN s /\ 1 < k + 1 /\ Tail(s)[k] = s[k + 1]
        /\ \A k \in DOMAIN s : k = 1 \/ k - 1 \in DOMAIN Tail(s)
        /\ 1 \in DOMAIN s
        /\ DOMAIN s \in SUBSET Nat
    BY <1>1, <1>2, <1>3
  <1>5. \A k \in DOMAIN s : k = 1 \/ s[k] = Tail(s)[k - 1]
    BY <1>1, <1>2, <1>3
  <1>6. Range(s) \subseteq Range(Tail(s)) \cup {Head(s)}
    BY <1>2, <1>4, <1>5 DEF Range
  <1>7. Range(Tail(s)) \cup {Head(s)} \subseteq Range(s)
    BY <1>2, <1>4 DEF Range
  <1> QED
    BY <1>2, <1>4, <1>6, <1>7

\* A dispatch that goes on keeps its order and has nothing new.
LEMMA ContinuesKeeps ==
    ASSUME NEW f \in Frames, NEW g \in Frames, Continues(g, f)
    PROVE  /\ g.batch = f.batch
           /\ Range(g.rest) \subseteq Range(f.rest)
           /\ \A k, l \in DOMAIN g.rest : k < l =>
                  \E m, n \in DOMAIN f.rest : m < n /\ g.rest[k] = f.rest[m] /\ g.rest[l] = f.rest[n]
  <1>1. f.rest \in Seq(Nat)
    BY DEF Frames
  <1>2. CASE g.rest = f.rest
    BY <1>2 DEF Continues
  <1>3. CASE f.rest # <<>> /\ g.rest = Tail(f.rest)
    <2>1. /\ \A k \in DOMAIN Tail(f.rest) :
                 k + 1 \in DOMAIN f.rest /\ Tail(f.rest)[k] = f.rest[k + 1]
          /\ Range(f.rest) = Range(Tail(f.rest)) \cup {Head(f.rest)}
      BY <1>1, <1>3, TailSeq
    <2>2. Range(g.rest) \subseteq Range(f.rest)
      BY <1>3, <2>1
    <2>3. ASSUME NEW k \in DOMAIN g.rest, NEW l \in DOMAIN g.rest, k < l
          PROVE  \E m, n \in DOMAIN f.rest : m < n /\ g.rest[k] = f.rest[m] /\ g.rest[l] = f.rest[n]
      <3>1. k + 1 \in DOMAIN f.rest /\ l + 1 \in DOMAIN f.rest
        BY <1>3, <2>1
      <3>2. k \in Nat /\ l \in Nat
        <4>1. g.rest \in Seq(Nat)
          BY DEF Frames
        <4> QED
          BY <4>1, LenProperties
      <3>3. k + 1 < l + 1
        BY <2>3, <3>2
      <3> QED
        BY <1>3, <2>1, <3>1, <3>3
    <2> QED
      BY <2>2, <2>3 DEF Continues
  <1> QED
    BY <1>2, <1>3 DEF Continues

\* What a step of a dispatch keeps, whichever it is.
LEMMA DispatchStep ==
    ASSUME EventsInv,
           UNCHANGED <<order, occurred, events, batches, overlaps>>,
           stack' \in [Threads -> Seq(Frames)],
           \A g \in Open' : g \in Frames /\ \E f \in Open : Continues(g, f)
    PROVE  /\ ListsSound'
           /\ OpenSound'
           /\ OverlapsSound'
           /\ Waiting' = Waiting
           /\ \A g \in Open' : \E f \in Open :
                  g.batch = f.batch /\ Range(g.rest) \subseteq Range(f.rest)
  <1>1. Registered' = Registered /\ Waiting' = Waiting
    BY DEF Registered, Waiting
  <1>2. ListsSound'
    BY <1>1 DEF ListsSound, EventsInv
  <1>0. EventsTypeOK /\ OpenSound /\ OverlapsSound
    BY DEF EventsInv
  <1>3. ASSUME NEW g \in Open'
        PROVE  \E f \in Open :
                  /\ g.batch = f.batch /\ Range(g.rest) \subseteq Range(f.rest)
                  /\ \A k, l \in DOMAIN g.rest : k < l =>
                        \E m, n \in DOMAIN f.rest :
                            m < n /\ g.rest[k] = f.rest[m] /\ g.rest[l] = f.rest[n]
    <2>1. PICK f \in Open : Continues(g, f)
      BY <1>3
    <2>2. f \in Frames /\ g \in Frames
      BY <1>0, OpenPlace
    <2>3. /\ g.batch = f.batch /\ Range(g.rest) \subseteq Range(f.rest)
          /\ \A k, l \in DOMAIN g.rest : k < l =>
                 \E m, n \in DOMAIN f.rest : m < n /\ g.rest[k] = f.rest[m] /\ g.rest[l] = f.rest[n]
      BY <2>1, <2>2, ContinuesKeeps
    <2> QED
      BY <2>3
  <1>4. OpenSound'
    <2> SUFFICES ASSUME NEW g \in Open'
                 PROVE  /\ g.batch \in 1 .. batches
                        /\ \A k \in DOMAIN g.rest : g.rest[k] \in DOMAIN occurred
                        /\ \A k, l \in DOMAIN g.rest : k < l => Before(g.rest[k], g.rest[l])
      <3>1. \A a, b : Before(a, b)' = Before(a, b)
        BY RankKept
      <3> QED
        BY <3>1 DEF OpenSound
    <2>1. PICK f \in Open :
                  /\ g.batch = f.batch /\ Range(g.rest) \subseteq Range(f.rest)
                  /\ \A k, l \in DOMAIN g.rest : k < l =>
                        \E m, n \in DOMAIN f.rest :
                            m < n /\ g.rest[k] = f.rest[m] /\ g.rest[l] = f.rest[n]
      BY <1>3
    <2>2. /\ f.batch \in 1 .. batches
          /\ \A k \in DOMAIN f.rest : f.rest[k] \in DOMAIN occurred
          /\ \A k, l \in DOMAIN f.rest : k < l => Before(f.rest[k], f.rest[l])
      BY <1>0 DEF OpenSound
    <2>3. \A k \in DOMAIN g.rest : g.rest[k] \in DOMAIN occurred
      BY <2>1, <2>2 DEF Range
    <2>4. ASSUME NEW k \in DOMAIN g.rest, NEW l \in DOMAIN g.rest, k < l
          PROVE  Before(g.rest[k], g.rest[l])
      <3>1. PICK m \in DOMAIN f.rest, n \in DOMAIN f.rest :
                m < n /\ g.rest[k] = f.rest[m] /\ g.rest[l] = f.rest[n]
        BY <2>1, <2>4
      <3> QED
        BY <2>2, <3>1
    <2> QED
      BY <2>1, <2>2, <2>3, <2>4
  <1>5. OverlapsSound'
    BY <1>0, <1>3 DEF OverlapsSound
  <1> QED
    BY <1>1, <1>2, <1>3, <1>4, <1>5

\* What holds of the fetched events holds of fewer of them.
LEMMA FewerFetched ==
    ASSUME EventsInv, Fetched' \subseteq Fetched, Waiting' = Waiting, lost' = lost
    PROVE  FetchedInOrder' /\ WaitingLater' /\ LostApart'
  BY DEF EventsInv, FetchedInOrder, WaitingLater, LostApart

\* A pair of Fetched.
LEMMA FetchedPair ==
    ASSUME NEW p
    PROVE  /\ p \in Fetched <=>
                  \/ \E i \in DOMAIN delivered : p = <<delivered[i].id, delivered[i].batch>>
                  \/ \E f \in Open : \E id \in Range(f.rest) : p = <<id, f.batch>>
           /\ p \in Fetched' <=>
                  \/ \E i \in DOMAIN delivered' : p = <<delivered'[i].id, delivered'[i].batch>>
                  \/ \E f \in Open' : \E id \in Range(f.rest) : p = <<id, f.batch>>
  BY DEF Fetched, Range

\* The events of the lists and of the dispatches.
LEMMA PendingIs ==
    /\ Pending = Waiting \cup UNION {Range(f.rest) : f \in Open}
    /\ Pending' = Waiting' \cup UNION {Range(f.rest) : f \in Open'}
  BY DEF Pending, Waiting, Open

\* Deliver and the properties it could break: the event is the first of the rest, so
\* it comes after all that its dispatch delivered.
LEMMA DeliverKeeps ==
    ASSUME EventsInv, NEW t \in Threads, Deliver(t)
    PROVE  EventsInv'
  <1> DEFINE f == Top(t)
             id == Head(f.rest)
             call == [id |-> id, batch |-> f.batch, args |-> HandlerArgs(occurred[id])]
             g == [f EXCEPT !.rest = Tail(f.rest), !.handling = TRUE]
  <1>0. /\ EventsTypeOK /\ BatchesApart /\ ListsSound /\ OpenSound /\ DeliveredSound
        /\ FetchedInOrder /\ WaitingLater /\ RestLater /\ LostApart /\ OverlapsSound
        /\ AllAccounted /\ BatchOrder /\ InOrder
    BY DEF EventsInv
  <1>1. /\ stack[t] # <<>> /\ f.rest # <<>>
        /\ delivered' = Append(delivered, call)
        /\ UNCHANGED <<order, occurred, events, iterating, batches, overlaps, lost>>
    BY DEF Deliver
  <1>2. f \in Open /\ f \in Frames /\ Len(stack[t]) \in DOMAIN stack[t]
    BY <1>0, <1>1, TopOpen
  <1>3. f.rest \in Seq(Nat) /\ f.batch \in Nat
    BY <1>2 DEF Frames
  <1>4. stack' = [stack EXCEPT ![t] = [stack[t] EXCEPT ![Len(stack[t])] = g]]
    BY <1>0, <1>2 DEF Deliver, Top, EventsTypeOK
  <1>5. /\ Tail(f.rest) \in Seq(Nat)
        /\ 1 \in DOMAIN f.rest /\ id = f.rest[1]
        /\ \A k \in DOMAIN Tail(f.rest) : k + 1 \in DOMAIN f.rest /\ 1 < k + 1 /\ Tail(f.rest)[k] = f.rest[k + 1]
        /\ Range(f.rest) = Range(Tail(f.rest)) \cup {id}
    BY <1>1, <1>3, TailSeq
  <1>6. g \in Frames /\ g.batch = f.batch /\ g.rest = Tail(f.rest)
    BY <1>2, <1>5 DEF Frames
  <1> HIDE DEF f, id, g
  <1>7. /\ stack' \in [Threads -> Seq(Frames)]
        /\ BatchesApart'
        /\ Open' = (Open \ {f}) \cup {g}
    BY <1>0, <1>1, <1>4, <1>6, ReplaceOpen DEF f
  <1>8. \A h \in Open' : h \in Frames /\ \E e \in Open : Continues(h, e)
    BY <1>0, <1>1, <1>2, <1>6, <1>7, OpenPlace DEF Continues
  <1>9. /\ ListsSound' /\ OpenSound' /\ OverlapsSound' /\ Waiting' = Waiting
        /\ \A h \in Open' : \E e \in Open :
               h.batch = e.batch /\ Range(h.rest) \subseteq Range(e.rest)
    BY <1>1, <1>7, <1>8, DispatchStep
  <1>10. /\ id \in DOMAIN occurred /\ f.batch \in 1 .. batches
         /\ \A x \in Range(Tail(f.rest)) : Before(id, x)
    <2>1. \A k \in DOMAIN Tail(f.rest) : Before(id, Tail(f.rest)[k])
      BY <1>0, <1>2, <1>5 DEF OpenSound
    <2> QED
      BY <1>0, <1>2, <1>5, <2>1 DEF OpenSound, Range
  <1>11. call \in Calls
    <2>1. occurred[id] \in Occurrences /\ id \in Nat
      BY <1>0, <1>10, ElementOfSeq, LenProperties DEF EventsTypeOK
    <2>2. HandlerArgs(occurred[id]) \in
              [type : Registered, friend : Friends \cup Files \cup {0}, file : Files \cup {0}]
      BY <2>1 DEF HandlerArgs, Occurrences
    <2> QED
      BY <1>3, <2>1, <2>2 DEF Calls
  <1>12. call.id = id /\ call.batch = f.batch
    OBVIOUS
  <1> HIDE DEF call
  <1>13. delivered \in Seq(Calls)
    BY <1>0 DEF EventsTypeOK
  <1>14. PICK n \in Nat : n = Len(delivered) /\ DOMAIN delivered = 1 .. n
    BY <1>13, LenProperties
  <1>15. /\ delivered' \in Seq(Calls)
         /\ DOMAIN delivered' = DOMAIN delivered \cup {n + 1} /\ n + 1 \notin DOMAIN delivered
         /\ delivered'[n + 1] = call
         /\ \A i \in DOMAIN delivered : delivered'[i] = delivered[i]
    BY <1>1, <1>11, <1>13, <1>14, AppendSeq
  <1>16. Registered' = Registered /\ Occurrences' = Occurrences /\ Calls' = Calls
    BY <1>1 DEF Registered, Occurrences, Calls
  <1>17. EventsTypeOK'
    BY <1>0, <1>1, <1>7, <1>15, <1>16 DEF EventsTypeOK, Frames
  <1>18. DeliveredSound'
    BY <1>0, <1>1, <1>10, <1>12, <1>15 DEF DeliveredSound
  <1>19. Fetched' \subseteq Fetched
    <2> SUFFICES ASSUME NEW p \in Fetched' PROVE p \in Fetched
      OBVIOUS
    <2>1. \/ \E i \in DOMAIN delivered' : p = <<delivered'[i].id, delivered'[i].batch>>
          \/ \E h \in Open' : \E x \in Range(h.rest) : p = <<x, h.batch>>
      BY FetchedPair
    <2>2. CASE \E i \in DOMAIN delivered' : p = <<delivered'[i].id, delivered'[i].batch>>
      <3>1. PICK i \in DOMAIN delivered' : p = <<delivered'[i].id, delivered'[i].batch>>
        BY <2>2
      <3>2. CASE i = n + 1
        <4>1. p = <<id, f.batch>> /\ id \in Range(f.rest)
          BY <1>5, <1>12, <1>15, <3>1, <3>2
        <4> QED
          BY <1>2, <4>1, FetchedPair
      <3>3. CASE i \in DOMAIN delivered
        BY <1>15, <3>1, <3>3, FetchedPair
      <3> QED
        BY <1>15, <3>2, <3>3
    <2>3. CASE \E h \in Open' : \E x \in Range(h.rest) : p = <<x, h.batch>>
      <3>1. PICK h \in Open' : \E x \in Range(h.rest) : p = <<x, h.batch>>
        BY <2>3
      <3>2. PICK x \in Range(h.rest) : p = <<x, h.batch>>
        BY <3>1
      <3>3. PICK e \in Open : h.batch = e.batch /\ Range(h.rest) \subseteq Range(e.rest)
        BY <1>9
      <3>4. x \in Range(e.rest) /\ p = <<x, e.batch>>
        BY <3>2, <3>3
      <3> QED
        BY <3>4, FetchedPair
    <2> QED
      BY <2>1, <2>2, <2>3
  <1>20. FetchedInOrder' /\ WaitingLater' /\ LostApart'
    BY <1>1, <1>9, <1>19, FewerFetched
  <1>21. \A a, b : /\ Before(a, b)' = Before(a, b)
                   /\ Rank(a)' = Rank(a) /\ Rank(b)' = Rank(b)
    BY <1>1, RankKept
  <1>22. RestLater'
    <2> SUFFICES ASSUME NEW i \in DOMAIN delivered', NEW h \in Open',
                        delivered'[i].batch = h.batch, NEW x \in Range(h.rest)
                 PROVE  Before(delivered'[i].id, x)
      BY <1>21 DEF RestLater
    <2>1. CASE i \in DOMAIN delivered
      <3>1. PICK e \in Open : h.batch = e.batch /\ Range(h.rest) \subseteq Range(e.rest)
        BY <1>9
      <3> QED
        BY <1>0, <1>15, <2>1, <3>1 DEF RestLater
    <2>2. CASE i = n + 1
      <3>1. delivered'[i].id = id /\ h.batch = f.batch
        BY <1>12, <1>15, <2>2
      <3>2. h = g
        BY <1>0, <1>2, <1>7, <3>1, OneDispatch
      <3> QED
        BY <1>6, <1>10, <3>1, <3>2
    <2> QED
      BY <1>15, <2>1, <2>2
  <1>23. AllAccounted'
    <2>1. Delivered' = Delivered \cup {id}
      <3>1. Delivered' = {delivered'[i].id : i \in DOMAIN delivered'}
        BY DEF Delivered, Range
      <3>2. Delivered = {delivered[i].id : i \in DOMAIN delivered}
        BY DEF Delivered, Range
      <3> QED
        BY <1>12, <1>15, <3>1, <3>2
    <2>2. Pending \subseteq Pending' \cup {id}
      BY <1>5, <1>6, <1>7, <1>9, PendingIs
    <2>3. Pending' \subseteq Pending
      BY <1>9, PendingIs
    <2>4. id \in DOMAIN occurred
      BY <1>10
    <2>5. Pending \cup Delivered \cup lost = DOMAIN occurred
      BY <1>0 DEF AllAccounted
    <2>6. Pending' \cup Delivered' \cup lost' = DOMAIN occurred'
      BY <1>1, <2>1, <2>2, <2>3, <2>4, <2>5
    <2> QED
      BY <2>6 DEF AllAccounted
  <1>24. BatchOrder'
    <2> SUFFICES ASSUME NEW i \in DOMAIN delivered', NEW j \in DOMAIN delivered', i < j,
                        delivered'[i].batch = delivered'[j].batch
                 PROVE  Before(delivered'[i].id, delivered'[j].id)
      <3>1. \A a, b : Before(a, b)' = (Rank(a)' < Rank(b)' \/ (Rank(a)' = Rank(b)' /\ a < b))
        BY DEF Before
      <3> QED
        BY <1>21, <3>1 DEF BatchOrder
    <2>1. i \in DOMAIN delivered
      BY <1>14, <1>15
    <2>2. CASE j \in DOMAIN delivered
      BY <1>0, <1>15, <2>1, <2>2 DEF BatchOrder, Before
    <2>3. CASE j = n + 1
      <3>1. delivered'[j].id = id /\ delivered[i].batch = f.batch /\ id \in Range(f.rest)
        BY <1>5, <1>12, <1>15, <2>1, <2>3
      <3> QED
        BY <1>0, <1>2, <1>15, <2>1, <3>1 DEF RestLater
    <2> QED
      BY <1>15, <2>2, <2>3
  <1>25. InOrder'
    <2> SUFFICES ASSUME NEW i \in DOMAIN delivered', NEW j \in DOMAIN delivered', i < j,
                        Rank(delivered'[i].id) = Rank(delivered'[j].id),
                        delivered'[j].id < delivered'[i].id
                 PROVE  delivered'[j].batch \in overlaps[delivered'[i].batch]
      BY <1>1, <1>21 DEF InOrder
    <2>1. i \in DOMAIN delivered /\ delivered'[i] = delivered[i]
      BY <1>14, <1>15
    <2>2. CASE j \in DOMAIN delivered
      BY <1>0, <1>15, <2>1, <2>2 DEF InOrder
    <2>3. CASE j = n + 1
      <3> DEFINE d == delivered[i]
      <3>1. /\ delivered'[j].id = id /\ delivered'[j].batch = f.batch /\ id \in Range(f.rest)
            /\ Rank(d.id) = Rank(id) /\ id < d.id
        BY <1>5, <1>12, <1>15, <2>1, <2>3
      <3>2. d.id \in DOMAIN occurred /\ d.batch \in 1 .. batches
        BY <1>0, <2>1 DEF DeliveredSound
      <3>3. batches \in Nat /\ d.id \in Nat /\ id \in Nat
        BY <1>0, <1>10, <3>2, RankType DEF EventsTypeOK
      <3>4. <<d.id, d.batch>> \in Fetched /\ <<id, f.batch>> \in Fetched
        BY <1>2, <2>1, <3>1, FetchedPair
      <3>5. ~(d.batch < f.batch)
        <4>1. d.batch < f.batch => d.id < id
          BY <1>0, <3>4 DEF FetchedInOrder
        <4> QED
          BY <3>1, <3>3, <4>1
      <3>6. d.batch # f.batch
        <4>1. d.batch = f.batch => Before(d.id, id)
          BY <1>0, <1>2, <2>1, <3>1 DEF RestLater
        <4>2. d.batch = f.batch => d.id < id
          BY <1>0, <1>10, <3>1, <3>2, <4>1, BeforeStrict
        <4> QED
          BY <3>1, <3>3, <4>2
      <3>7. d.batch \in f.batch + 1 .. batches
        BY <1>10, <3>2, <3>3, <3>5, <3>6
      <3> QED
        BY <1>0, <1>2, <2>1, <3>1, <3>7 DEF OverlapsSound
    <2> QED
      BY <1>15, <2>2, <2>3
  <1> QED
    BY <1>7, <1>9, <1>17, <1>18, <1>20, <1>22, <1>23, <1>24, <1>25 DEF EventsInv

\* The steps of a dispatch that call no handler: the events of some dispatches are
\* dropped, and these events are in no other.
LEMMA CloseKeeps ==
    ASSUME EventsInv, NEW L \in SUBSET Nat,
           UNCHANGED <<order, occurred, events, iterating, batches, overlaps, delivered>>,
           stack' \in [Threads -> Seq(Frames)], BatchesApart',
           \A g \in Open' : g \in Frames /\ \E f \in Open : g.batch = f.batch /\ g.rest = f.rest,
           lost' = lost \cup L,
           \A x \in L : \E f \in Open : x \in Range(f.rest),
           \A f \in Open : \A x \in Range(f.rest) :
               x \in L \/ \E g \in Open' : x \in Range(g.rest),
           \A p \in Fetched' : p[1] \notin L
    PROVE  EventsInv'
  <1>0. /\ EventsTypeOK /\ DeliveredSound /\ FetchedInOrder /\ WaitingLater /\ RestLater
        /\ LostApart /\ AllAccounted /\ BatchOrder /\ InOrder
    BY DEF EventsInv
  <1>1. \A h \in Open' : h \in Frames /\ \E e \in Open : Continues(h, e)
    BY DEF Continues
  <1>2. ListsSound' /\ OpenSound' /\ OverlapsSound' /\ Waiting' = Waiting
    BY <1>1, DispatchStep
  <1>3. EventsTypeOK'
    <2>1. Registered' = Registered
      BY DEF Registered
    <2>2. lost' \in SUBSET Nat
      BY <1>0 DEF EventsTypeOK
    <2> QED
      BY <1>0, <2>1, <2>2 DEF EventsTypeOK, Occurrences, Calls, Frames
  <1>4. DeliveredSound'
    BY <1>0 DEF DeliveredSound
  <1>5. Fetched' \subseteq Fetched
    <2> SUFFICES ASSUME NEW p \in Fetched' PROVE p \in Fetched
      OBVIOUS
    <2>1. CASE \E i \in DOMAIN delivered : p = <<delivered[i].id, delivered[i].batch>>
      BY <2>1, FetchedPair
    <2>2. CASE \E h \in Open' : \E x \in Range(h.rest) : p = <<x, h.batch>>
      BY <2>2, FetchedPair
    <2> QED
      BY <2>1, <2>2, FetchedPair
  <1>6. FetchedInOrder'
    BY <1>0, <1>5 DEF FetchedInOrder
  <1>7. WaitingLater'
    <2> SUFFICES ASSUME NEW w \in Waiting
                 PROVE  (\A p \in Fetched' : p[1] < w) /\ (\A x \in lost' : x < w)
      BY <1>2 DEF WaitingLater
    <2>1. \A x \in L : x < w
      <3> SUFFICES ASSUME NEW x \in L PROVE x < w
        OBVIOUS
      <3>1. PICK f \in Open : x \in Range(f.rest)
        OBVIOUS
      <3>2. <<x, f.batch>> \in Fetched
        BY <3>1, FetchedPair
      <3> QED
        BY <1>0, <3>2 DEF WaitingLater
    <2> QED
      BY <1>0, <1>5, <2>1 DEF WaitingLater
  <1>8. LostApart'
    BY <1>0, <1>5 DEF LostApart
  <1>9. \A a, b : /\ Before(a, b)' = Before(a, b)
                  /\ Rank(a)' = Rank(a) /\ Rank(b)' = Rank(b)
    BY RankKept
  <1>10. RestLater'
    BY SMTT(40), <1>0, <1>9 DEF RestLater
  <1>11. AllAccounted'
    <2>1. Delivered' = Delivered
      BY DEF Delivered
    <2>2. Pending' \cup L = Pending
      <3>1. ASSUME NEW x \in Pending' \cup L PROVE x \in Pending
        <4>1. CASE x \in L \/ x \in Waiting'
          BY <1>2, <4>1, PendingIs
        <4>2. CASE \E h \in Open' : x \in Range(h.rest)
          BY <4>2, PendingIs
        <4> QED
          BY <3>1, <4>1, <4>2, PendingIs
      <3>2. ASSUME NEW x \in Pending PROVE x \in Pending' \cup L
        BY <1>2, <3>2, PendingIs
      <3> QED
        BY <3>1, <3>2
    <2>3. Pending \cup Delivered \cup lost = DOMAIN occurred
      BY <1>0 DEF AllAccounted
    <2>4. Pending' \cup Delivered' \cup lost' = DOMAIN occurred'
      BY <2>1, <2>2, <2>3
    <2> QED
      BY <2>4 DEF AllAccounted
  <1>12. BatchOrder' /\ InOrder'
    BY <1>0, <1>9 DEF BatchOrder, InOrder
  <1> QED
    BY <1>2, <1>3, <1>4, <1>6, <1>7, <1>8, <1>10, <1>11, <1>12 DEF EventsInv

LEMMA HandlerReturnsKeeps ==
    ASSUME EventsInv, NEW t \in Threads, HandlerReturns(t)
    PROVE  EventsInv'
  <1> DEFINE f == Top(t)
             g == [f EXCEPT !.handling = FALSE]
  <1>0. EventsTypeOK /\ BatchesApart
    BY DEF EventsInv
  <1>1. /\ stack[t] # <<>>
        /\ UNCHANGED <<order, occurred, events, iterating, batches, overlaps, delivered, lost>>
    BY DEF HandlerReturns
  <1>2. f \in Open /\ f \in Frames /\ Len(stack[t]) \in DOMAIN stack[t]
    BY <1>0, <1>1, TopOpen
  <1>3. g \in Frames /\ g.batch = f.batch /\ g.rest = f.rest
    BY <1>2 DEF Frames
  <1>4. stack' = [stack EXCEPT ![t] = [stack[t] EXCEPT ![Len(stack[t])] = g]]
    BY <1>0, <1>2 DEF HandlerReturns, Top, EventsTypeOK
  <1> HIDE DEF f, g
  <1>5. /\ stack' \in [Threads -> Seq(Frames)]
        /\ BatchesApart'
        /\ Open' = (Open \ {f}) \cup {g}
    BY <1>0, <1>1, <1>3, <1>4, ReplaceOpen DEF f
  <1>6. \A h \in Open' : h \in Frames /\ \E e \in Open : h.batch = e.batch /\ h.rest = e.rest
    BY <1>0, <1>2, <1>3, <1>5, OpenPlace
  <1>7. \A e \in Open : \A x \in Range(e.rest) : \E h \in Open' : x \in Range(h.rest)
    BY <1>3, <1>5
  <1>8. {} \in SUBSET Nat /\ lost' = lost \cup {}
    BY <1>1
  <1>9. /\ \A x \in {} : \E e \in Open : x \in Range(e.rest)
        /\ \A p \in Fetched' : p[1] \notin {}
    OBVIOUS
  <1> QED
    BY <1>1, <1>5, <1>6, <1>7, <1>8, <1>9, CloseKeeps

\* The events of the dispatch that ends are in no other.
LEMMA ThrowKeeps ==
    ASSUME EventsInv, NEW t \in Threads, HandlerThrows(t) \/ ConversionThrows(t)
    PROVE  EventsInv'
  <1> DEFINE f == Top(t)
             L == Range(f.rest)
  <1>0. EventsTypeOK /\ BatchesApart /\ OpenSound /\ DeliveredSound /\ FetchedInOrder /\ RestLater
    BY DEF EventsInv
  <1>1. /\ stack[t] # <<>> /\ Pop(t) /\ lost' = lost \cup L
        /\ UNCHANGED <<order, occurred, events, iterating, batches, overlaps, delivered>>
    BY DEF HandlerThrows, ConversionThrows
  <1>2. f \in Open /\ f \in Frames
    BY <1>0, <1>1, TopOpen
  <1> HIDE DEF f
  <1>3. L \in SUBSET Nat
    <2>1. f.rest \in Seq(Nat)
      BY <1>2 DEF Frames
    <2> QED
      BY <2>1, ElementOfSeq, LenProperties DEF Range
  <1>4. /\ stack' \in [Threads -> Seq(Frames)]
        /\ BatchesApart'
        /\ Open' = Open \ {f}
    BY <1>0, <1>1, PopOpen DEF f
  <1>5. \A h \in Open' : h \in Frames /\ \E e \in Open : h.batch = e.batch /\ h.rest = e.rest
    BY <1>0, <1>4, OpenPlace
  <1>6. \A e \in Open : \A x \in Range(e.rest) :
            x \in L \/ \E h \in Open' : x \in Range(h.rest)
    BY <1>4
  <1>7. \A x \in L : x \in DOMAIN occurred /\ <<x, f.batch>> \in Fetched
    <2>1. \A k \in DOMAIN f.rest : f.rest[k] \in DOMAIN occurred
      BY <1>0, <1>2 DEF OpenSound
    <2>2. \A x \in L : <<x, f.batch>> \in Fetched
      BY <1>2, FetchedPair
    <2> QED
      BY <2>1, <2>2 DEF Range
  <1>8. ASSUME NEW p \in Fetched', p[1] \in L
        PROVE  FALSE
    <2>1. p \in Fetched /\ p[2] # f.batch /\ p[2] \in 1 .. batches
      <3>1. CASE \E i \in DOMAIN delivered : p = <<delivered[i].id, delivered[i].batch>>
        <4>1. PICK i \in DOMAIN delivered : p = <<delivered[i].id, delivered[i].batch>>
          BY <3>1
        <4>2. delivered[i].id \in DOMAIN occurred /\ delivered[i].batch \in 1 .. batches
          BY <1>0 DEF DeliveredSound
        <4>3. delivered[i].batch # f.batch
          <5> SUFFICES ASSUME delivered[i].batch = f.batch PROVE FALSE
            OBVIOUS
          <5>1. Before(p[1], p[1])
            BY <1>0, <1>2, <1>8, <4>1 DEF RestLater
          <5>2. p[1] \in DOMAIN occurred
            BY <4>1, <4>2
          <5> QED
            BY <1>0, <5>1, <5>2, BeforeStrict
        <4> QED
          BY <4>1, <4>2, <4>3, FetchedPair
      <3>2. CASE \E h \in Open' : \E x \in Range(h.rest) : p = <<x, h.batch>>
        <4>1. PICK h \in Open' : \E x \in Range(h.rest) : p = <<x, h.batch>>
          BY <3>2
        <4>2. h \in Open /\ h # f
          BY <1>4
        <4>3. h.batch # f.batch
          BY <1>0, <1>2, <4>2, OneDispatch
        <4>4. h.batch \in 1 .. batches
          BY <1>0, <4>2 DEF OpenSound
        <4> QED
          BY <4>1, <4>2, <4>3, <4>4, FetchedPair
      <3> QED
        BY <1>1, <1>8, <3>1, <3>2, FetchedPair
    <2>2. <<p[1], f.batch>> \in Fetched
      BY <1>7, <1>8
    <2>3. f.batch \in 1 .. batches /\ batches \in Nat
      BY <1>0, <1>2 DEF OpenSound, EventsTypeOK
    <2>4. p[1] \in Nat
      BY <1>3, <1>8
    <2>5. /\ p[2] < f.batch => p[1] < p[1]
          /\ f.batch < p[2] => p[1] < p[1]
      BY <1>0, <2>1, <2>2 DEF FetchedInOrder
    <2> QED
      BY <2>1, <2>3, <2>4, <2>5
  <1>9. \A x \in L : \E e \in Open : x \in Range(e.rest)
    BY <1>2
  <1>10. \A p \in Fetched' : p[1] \notin L
    BY <1>8
  <1> HIDE DEF L
  <1> QED
    BY <1>1, <1>3, <1>4, <1>5, <1>6, <1>9, <1>10, CloseKeeps

LEMMA DispatchReturnsKeeps ==
    ASSUME EventsInv, NEW t \in Threads, DispatchReturns(t)
    PROVE  EventsInv'
  <1> DEFINE f == Top(t)
  <1>0. EventsTypeOK /\ BatchesApart
    BY DEF EventsInv
  <1>1. /\ stack[t] # <<>> /\ Pop(t) /\ f.rest = <<>>
        /\ UNCHANGED <<order, occurred, events, iterating, batches, overlaps, delivered, lost>>
    BY DEF DispatchReturns
  <1> HIDE DEF f
  <1>4. /\ stack' \in [Threads -> Seq(Frames)]
        /\ BatchesApart'
        /\ Open' = Open \ {f}
    BY <1>0, <1>1, PopOpen DEF f
  <1>5. \A h \in Open' : h \in Frames /\ \E e \in Open : h.batch = e.batch /\ h.rest = e.rest
    BY <1>0, <1>4, OpenPlace
  <1>6. \A e \in Open : \A x \in Range(e.rest) : \E h \in Open' : x \in Range(h.rest)
    <2>1. Range(f.rest) = {}
      BY <1>1 DEF Range
    <2> QED
      BY <1>4, <2>1
  <1>8. {} \in SUBSET Nat /\ lost' = lost \cup {}
    BY <1>1
  <1>9. /\ \A x \in {} : \E e \in Open : x \in Range(e.rest)
        /\ \A p \in Fetched' : p[1] \notin {}
    OBVIOUS
  <1> QED
    BY <1>1, <1>4, <1>5, <1>6, <1>8, <1>9, CloseKeeps

-----------------------------------------------------------------------------
(* The native side *)

\* Fetched and lost events occurred.
LEMMA FetchedOccurred ==
    ASSUME EventsInv
    PROVE  /\ \A p \in Fetched : p[1] \in DOMAIN occurred /\ p[2] \in 1 .. batches
           /\ lost \subseteq DOMAIN occurred
           /\ Waiting \subseteq DOMAIN occurred
           /\ Delivered \subseteq DOMAIN occurred
           /\ Pending \subseteq DOMAIN occurred
  <1>1. AllAccounted /\ OpenSound /\ DeliveredSound
    BY DEF EventsInv
  <1>2. ASSUME NEW p \in Fetched
        PROVE  p[1] \in DOMAIN occurred /\ p[2] \in 1 .. batches
    <2>1. CASE \E i \in DOMAIN delivered : p = <<delivered[i].id, delivered[i].batch>>
      BY <1>1, <2>1 DEF DeliveredSound
    <2>2. CASE \E f \in Open : \E id \in Range(f.rest) : p = <<id, f.batch>>
      BY <1>1, <2>2 DEF OpenSound, Range
    <2> QED
      BY <2>1, <2>2, FetchedPair
  <1>3. lost \subseteq DOMAIN occurred /\ Delivered \subseteq DOMAIN occurred
        /\ Pending \subseteq DOMAIN occurred
    BY <1>1 DEF AllAccounted
  <1>4. Waiting \subseteq DOMAIN occurred
    BY <1>3, PendingIs
  <1> QED
    BY <1>2, <1>3, <1>4

\* A callback: the event is later than all others, and waits.
LEMMA RecordKeeps ==
    ASSUME EventsInv, NEW type \in Registered, NEW friend \in Friends, NEW file \in Files \cup {0},
           Record(type, friend, file),
           UNCHANGED <<order, iterating, stack, batches, overlaps, delivered, lost>>
    PROVE  EventsInv'
  <1> DEFINE e == [type |-> type, friend |-> friend, file |-> file]
  <1>0. /\ EventsTypeOK /\ BatchesApart /\ ListsSound /\ OpenSound /\ DeliveredSound
        /\ FetchedInOrder /\ WaitingLater /\ RestLater /\ LostApart /\ OverlapsSound
        /\ AllAccounted /\ BatchOrder /\ InOrder
    BY DEF EventsInv
  <1>1. occurred \in Seq(Occurrences) /\ events \in [Registered -> Seq(Nat)]
    BY <1>0 DEF EventsTypeOK
  <1>2. PICK n \in Nat : n = Len(occurred) /\ DOMAIN occurred = 1 .. n
    BY <1>1, LenProperties
  <1>3. /\ occurred' = Append(occurred, e)
        /\ events' = [events EXCEPT ![type] = Append(@, n + 1)]
    BY <1>2 DEF Record
  <1>4. e \in Occurrences /\ e.type = type
    BY DEF Occurrences
  <1> HIDE DEF e
  <1>5. /\ occurred' \in Seq(Occurrences)
        /\ DOMAIN occurred' = DOMAIN occurred \cup {n + 1} /\ n + 1 \notin DOMAIN occurred
        /\ occurred'[n + 1] = e
        /\ \A i \in DOMAIN occurred : occurred'[i] = occurred[i]
    BY <1>1, <1>2, <1>3, <1>4, AppendSeq
  <1>6. PICK m \in Nat : m = Len(events[type]) /\ DOMAIN events[type] = 1 .. m
    BY <1>1, LenProperties
  <1>7. events'[type] = Append(events[type], n + 1)
        /\ \A y \in Registered \ {type} : events'[y] = events[y]
    BY <1>1, <1>3
  <1>8. /\ events'[type] \in Seq(Nat)
        /\ DOMAIN events'[type] = DOMAIN events[type] \cup {m + 1}
        /\ m + 1 \notin DOMAIN events[type]
        /\ events'[type][m + 1] = n + 1
        /\ \A k \in DOMAIN events[type] : events'[type][k] = events[type][k]
    <2>1. events[type] \in Seq(Nat) /\ n + 1 \in Nat
      BY <1>1
    <2> QED
      BY <1>6, <1>7, <2>1, AppendSeq
  <1>9. Registered' = Registered /\ Occurrences' = Occurrences /\ Calls' = Calls /\ Open' = Open
    BY DEF Registered, Occurrences, Calls, Open
  <1>10. events' \in [Registered -> Seq(Nat)]
    BY <1>1, <1>3, <1>8
  <1>11. EventsTypeOK'
    BY <1>0, <1>5, <1>9, <1>10 DEF EventsTypeOK, Frames
  <1>12. BatchesApart' /\ OverlapsSound'
    BY <1>0, <1>9 DEF BatchesApart, OverlapsSound
  <1>13. ASSUME NEW a \in DOMAIN occurred, NEW b \in DOMAIN occurred
         PROVE  /\ Before(a, b)' = Before(a, b)
                /\ Rank(a)' = Rank(a) /\ Rank(b)' = Rank(b)
    BY <1>5, RankKept
  <1>14. ListsSound'
    <2> SUFFICES ASSUME NEW y \in Registered
                 PROVE  /\ \A k \in DOMAIN events'[y] : /\ events'[y][k] \in DOMAIN occurred'
                                                        /\ occurred'[events'[y][k]].type = y
                        /\ \A k, l \in DOMAIN events'[y] : k < l => events'[y][k] < events'[y][l]
      BY <1>9 DEF ListsSound
    <2>1. CASE y # type
      BY <1>0, <1>5, <1>7, <2>1 DEF ListsSound
    <2>2. CASE y = type
      <3>1. \A k \in DOMAIN events[type] : /\ events[type][k] \in DOMAIN occurred
                                           /\ occurred[events[type][k]].type = type
                                           /\ events[type][k] < n + 1
        BY <1>0, <1>2 DEF ListsSound
      <3>2. \A k, l \in DOMAIN events[type] : k < l => events[type][k] < events[type][l]
        BY <1>0 DEF ListsSound
      <3>3. \A k \in DOMAIN events[type] : ~(m + 1 < k)
        BY <1>6
      <3>4. ~(m + 1 < m + 1)
        OBVIOUS
      <3>5. \A k, l \in DOMAIN events'[type] : k < l => events'[type][k] < events'[type][l]
        BY <1>8, <3>1, <3>2, <3>3, <3>4
      <3>6. \A k \in DOMAIN events'[type] : /\ events'[type][k] \in DOMAIN occurred'
                                            /\ occurred'[events'[type][k]].type = type
        BY <1>4, <1>5, <1>8, <3>1
      <3> QED
        BY <2>2, <3>5, <3>6
    <2> QED
      BY <2>1, <2>2
  <1>15. OpenSound'
    <2>1. \A f \in Open : \A k \in DOMAIN f.rest : f.rest[k] \in DOMAIN occurred
      BY <1>0 DEF OpenSound
    <2> QED
      BY <1>0, <1>5, <1>9, <1>13, <2>1 DEF OpenSound
  <1>16. DeliveredSound'
    BY <1>0, <1>5 DEF DeliveredSound
  <1>17. Fetched' = Fetched
    BY <1>9 DEF Fetched
  <1>18. FetchedInOrder' /\ LostApart'
    BY <1>0, <1>17 DEF FetchedInOrder, LostApart
  <1>19. Waiting' = Waiting \cup {n + 1}
    <2>1. DOMAIN events' = Registered /\ DOMAIN events = Registered
      BY <1>1, <1>10
    <2>2. Range(events'[type]) = Range(events[type]) \cup {n + 1}
      BY <1>8 DEF Range
    <2>3. Waiting' = UNION {Range(events'[y]) : y \in Registered}
      BY <2>1 DEF Waiting
    <2>4. Waiting = UNION {Range(events[y]) : y \in Registered}
      BY <2>1 DEF Waiting
    <2> QED
      BY <1>7, <2>2, <2>3, <2>4
  <1>20. WaitingLater'
    <2>1. \A p \in Fetched : p[1] < n + 1
      BY <1>2, FetchedOccurred
    <2>2. \A x \in lost : x < n + 1
      BY <1>2, FetchedOccurred
    <2> QED
      BY <1>0, <1>17, <1>19, <2>1, <2>2 DEF WaitingLater
  <1>21. RestLater'
    <2>1. \A f \in Open : \A id \in Range(f.rest) : id \in DOMAIN occurred
      BY <1>0 DEF OpenSound, Range
    <2>2. \A i \in DOMAIN delivered : delivered[i].id \in DOMAIN occurred
      BY <1>0 DEF DeliveredSound
    <2> QED
      BY <1>0, <1>9, <1>13, <2>1, <2>2 DEF RestLater
  <1>22. AllAccounted'
    <2>1. Delivered' = Delivered
      BY DEF Delivered
    <2>2. Pending' = Pending \cup {n + 1}
      BY <1>9, <1>19, PendingIs
    <2>3. Pending \cup Delivered \cup lost = DOMAIN occurred
      BY <1>0 DEF AllAccounted
    <2>4. Pending' \cup Delivered' \cup lost' = DOMAIN occurred'
      BY <1>5, <2>1, <2>2, <2>3
    <2> QED
      BY <2>4 DEF AllAccounted
  <1>23. BatchOrder' /\ InOrder'
    <2>1. \A i \in DOMAIN delivered : Rank(delivered[i].id)' = Rank(delivered[i].id)
      BY <1>0, <1>13 DEF DeliveredSound
    <2> QED
      BY <1>0, <2>1 DEF BatchOrder, InOrder
  <1> QED
    BY <1>11, <1>12, <1>14, <1>15, <1>16, <1>18, <1>20, <1>21, <1>22, <1>23 DEF EventsInv

\* Flatten has what waits in the lists, in the order of dispatch.
LEMMA FlattenLists ==
    ASSUME EventsTypeOK, ListsSound
    PROVE  /\ Flatten \in Seq(Nat)
           /\ Range(Flatten) = Waiting
           /\ \A k, l \in DOMAIN Flatten : k < l => Before(Flatten[k], Flatten[l])
  <1> DEFINE seqs == [i \in DOMAIN order |-> events[order[i]]]
             R == {p \in Nat \X Nat : Before(p[1], p[2])}
  <1>1. order \in Seq(Range(order)) /\ IsInjective(order) /\ events \in [Registered -> Seq(Nat)]
    BY EventsAssumption DEF EventsTypeOK
  <1>2. PICK n \in Nat : DOMAIN order = 1 .. n
    BY <1>1, LenProperties
  <1>3. \A i \in DOMAIN order : order[i] \in Registered
    BY DEF Registered, Range
  <1>4. seqs \in Seq(Seq(Nat)) /\ DOMAIN seqs = DOMAIN order
    <2>1. \A i \in 1 .. n : events[order[i]] \in Seq(Nat)
      BY <1>1, <1>2, <1>3
    <2> QED
      BY <1>2, <2>1, SeqDef
  <1>5. ASSUME NEW i \in DOMAIN order, NEW x \in Range(events[order[i]])
        PROVE  x \in DOMAIN occurred /\ x \in Nat /\ Rank(x) = i
    <2>1. x \in DOMAIN occurred /\ occurred[x].type = order[i]
      BY <1>3, <1>5 DEF ListsSound, Range
    <2> QED
      BY <2>1, RankType
  <1>6. ASSUME NEW i \in DOMAIN seqs, NEW k \in DOMAIN seqs[i], NEW l \in DOMAIN seqs[i], k < l
        PROVE  <<seqs[i][k], seqs[i][l]>> \in R
    <2> DEFINE s == events[order[i]]
    <2>1. i \in DOMAIN order /\ seqs[i] = s
      BY <1>4
    <2>2. s[k] < s[l] /\ s[k] \in Range(s) /\ s[l] \in Range(s)
      BY <1>3, <1>6, <2>1 DEF ListsSound, Range
    <2>3. Rank(s[k]) = Rank(s[l]) /\ s[k] \in Nat /\ s[l] \in Nat
      BY <1>5, <2>1, <2>2
    <2> QED
      BY <2>1, <2>2, <2>3 DEF Before
  <1>7. ASSUME NEW i \in DOMAIN seqs, NEW j \in DOMAIN seqs, i < j,
               NEW x \in Range(seqs[i]), NEW y \in Range(seqs[j])
        PROVE  <<x, y>> \in R
    <2>1. i \in DOMAIN order /\ j \in DOMAIN order
      BY <1>4
    <2>2. Rank(x) = i /\ Rank(y) = j /\ x \in Nat /\ y \in Nat
      BY <1>5, <1>7, <2>1
    <2> QED
      BY <1>7, <2>2 DEF Before
  <1>8. Flatten = FlattenSeq(seqs)
    BY DEF Flatten
  <1>9. UNION {Range(seqs[i]) : i \in DOMAIN seqs} = Waiting
    <2>1. DOMAIN events = {order[i] : i \in DOMAIN order}
      BY <1>1 DEF Registered, Range
    <2>2. {Range(seqs[i]) : i \in DOMAIN seqs} = {Range(events[order[i]]) : i \in DOMAIN order}
      BY <1>4
    <2>3. {Range(events[type]) : type \in DOMAIN events} = {Range(events[order[i]]) : i \in DOMAIN order}
      BY <2>1
    <2> QED
      BY <2>2, <2>3 DEF Waiting
  <1> HIDE DEF seqs, R
  <1>10. /\ FlattenSeq(seqs) \in Seq(Nat)
         /\ Range(FlattenSeq(seqs)) = UNION {Range(seqs[i]) : i \in DOMAIN seqs}
         /\ \A k, l \in DOMAIN FlattenSeq(seqs) :
                k < l => <<FlattenSeq(seqs)[k], FlattenSeq(seqs)[l]>> \in R
    BY <1>4, <1>6, <1>7, FlattenSorted
  <1>11. \A x, y : <<x, y>> \in R => Before(x, y)
    BY DEF R
  <1> QED
    BY <1>8, <1>9, <1>10, <1>11

\* A batch is fetched: all that waits goes into a dispatch of its own, and what was
\* fetched before is earlier.
LEMMA BatchKeeps ==
    ASSUME EventsInv, NEW t \in Threads, IterateBatch(t)
    PROVE  EventsInv'
  <1> DEFINE f == [batch |-> batches + 1, rest |-> Flatten, handling |-> FALSE]
  <1>0. /\ EventsTypeOK /\ BatchesApart /\ ListsSound /\ OpenSound /\ DeliveredSound
        /\ FetchedInOrder /\ WaitingLater /\ RestLater /\ LostApart /\ OverlapsSound
        /\ AllAccounted /\ BatchOrder /\ InOrder
    BY DEF EventsInv
  <1>1. /\ events' = NoEvents
        /\ batches' = batches + 1
        /\ overlaps' = Append(overlaps, OpenBatches)
        /\ stack' = [stack EXCEPT ![t] = Append(@, f)]
        /\ iterating' = NoThread
        /\ UNCHANGED <<order, occurred, delivered, lost>>
    BY DEF IterateBatch
  <1>2. batches \in Nat
    BY <1>0 DEF EventsTypeOK
  <1>3. /\ Flatten \in Seq(Nat)
        /\ Range(Flatten) = Waiting
        /\ \A k, l \in DOMAIN Flatten : k < l => Before(Flatten[k], Flatten[l])
    BY <1>0, FlattenLists
  <1>4. f \in Frames /\ f.batch = batches + 1 /\ f.rest = Flatten
    BY <1>2, <1>3 DEF Frames
  <1> HIDE DEF f
  <1>5. \A g \in Open : g.batch \in 1 .. batches
    BY <1>0 DEF OpenSound
  <1>6. \A g \in Open : g.batch # f.batch
    BY <1>2, <1>4, <1>5
  <1>7. /\ stack' \in [Threads -> Seq(Frames)]
        /\ Open' = Open \cup {f}
        /\ BatchesApart'
    BY <1>0, <1>1, <1>4, <1>6, PushOpen
  <1>8. overlaps \in Seq(SUBSET Nat) /\ Len(overlaps) = batches /\ DOMAIN overlaps = 1 .. batches
    BY <1>0, LenProperties DEF EventsTypeOK
  <1>9. OpenBatches \in SUBSET Nat /\ \A g \in Open : g.batch \in OpenBatches
    BY <1>2, <1>5 DEF OpenBatches, Open
  <1>10. /\ overlaps' \in Seq(SUBSET Nat) /\ Len(overlaps') = batches + 1
         /\ overlaps'[batches + 1] = OpenBatches
         /\ \A b \in 1 .. batches : overlaps'[b] = overlaps[b]
    BY <1>1, <1>8, <1>9, AppendSeq
  <1>11. Registered' = Registered /\ Occurrences' = Occurrences /\ Calls' = Calls
    BY <1>1 DEF Registered, Occurrences, Calls
  <1>12. events' \in [Registered -> Seq(Nat)] /\ \A type \in Registered : events'[type] = <<>>
    BY <1>1 DEF NoEvents
  <1>13. EventsTypeOK'
    BY <1>0, <1>1, <1>2, <1>7, <1>10, <1>11, <1>12 DEF EventsTypeOK, Frames
  <1>14. ListsSound'
    BY <1>11, <1>12 DEF ListsSound
  <1>15. Waiting' = {}
    BY <1>12 DEF Waiting, Range
  <1>16. \A a, b : /\ Before(a, b)' = Before(a, b)
                   /\ Rank(a)' = Rank(a) /\ Rank(b)' = Rank(b)
    BY <1>1, RankKept
  <1>17. OpenSound'
    <2> SUFFICES ASSUME NEW g \in Open'
                 PROVE  /\ g.batch \in 1 .. batches + 1
                        /\ \A k \in DOMAIN g.rest : g.rest[k] \in DOMAIN occurred
                        /\ \A k, l \in DOMAIN g.rest : k < l => Before(g.rest[k], g.rest[l])
      BY <1>1, <1>16 DEF OpenSound
    <2>1. CASE g \in Open
      BY <1>0, <1>2, <2>1 DEF OpenSound
    <2>2. CASE g = f
      <3>1. \A k \in DOMAIN Flatten : Flatten[k] \in DOMAIN occurred
        BY <1>3, FetchedOccurred DEF Range
      <3>2. batches + 1 \in 1 .. batches + 1
        BY <1>2
      <3> QED
        BY <1>3, <1>4, <2>2, <3>1, <3>2
    <2> QED
      BY <1>7, <2>1, <2>2
  <1>18. DeliveredSound'
    <2>1. \A b \in 1 .. batches : b \in 1 .. batches'
      BY <1>1, <1>2
    <2> QED
      BY <1>0, <1>1, <2>1 DEF DeliveredSound
  <1>19. ASSUME NEW p \in Fetched'
         PROVE  \/ p \in Fetched /\ p[2] \in 1 .. batches
                \/ p[1] \in Waiting /\ p[2] = batches + 1
    <2>1. CASE \E i \in DOMAIN delivered : p = <<delivered[i].id, delivered[i].batch>>
      BY <2>1, FetchedPair, FetchedOccurred
    <2>2. CASE \E h \in Open : \E x \in Range(h.rest) : p = <<x, h.batch>>
      BY <2>2, FetchedPair, FetchedOccurred
    <2>3. CASE \E x \in Range(f.rest) : p = <<x, f.batch>>
      BY <1>3, <1>4, <2>3
    <2> QED
      BY <1>1, <1>7, <1>19, <2>1, <2>2, <2>3, FetchedPair
  <1>20. FetchedInOrder'
    <2> SUFFICES ASSUME NEW p \in Fetched', NEW q \in Fetched', p[2] < q[2]
                 PROVE  p[1] < q[1]
      BY DEF FetchedInOrder
    <2>1. CASE p \in Fetched /\ q \in Fetched
      BY <1>0, <2>1 DEF FetchedInOrder
    <2>2. CASE p \in Fetched /\ q[1] \in Waiting
      BY <1>0, <2>2 DEF WaitingLater
    <2>3. CASE p[2] = batches + 1
      <3>1. q[2] \in 1 .. batches + 1
        BY <1>2, <1>19
      <3> QED
        BY <1>2, <2>3, <3>1
    <2> QED
      BY <1>19, <2>1, <2>2, <2>3
  <1>21. WaitingLater'
    BY <1>15 DEF WaitingLater
  <1>22. RestLater'
    <2> SUFFICES ASSUME NEW i \in DOMAIN delivered, NEW h \in Open',
                        delivered[i].batch = h.batch, NEW x \in Range(h.rest)
                 PROVE  Before(delivered[i].id, x)
      BY <1>1, <1>16 DEF RestLater
    <2>1. delivered[i].batch \in 1 .. batches
      BY <1>0 DEF DeliveredSound
    <2>2. h \in Open
      BY <1>2, <1>4, <1>7, <2>1
    <2> QED
      BY <1>0, <2>2 DEF RestLater
  <1>23. LostApart'
    <2> SUFFICES ASSUME NEW p \in Fetched', p[1] \in lost PROVE FALSE
      BY <1>1 DEF LostApart
    <2>1. p[1] \in Waiting
      BY <1>0, <1>19 DEF LostApart
    <2>2. p[1] < p[1] /\ p[1] \in Nat
      BY <1>0, <2>1 DEF WaitingLater, EventsTypeOK
    <2> QED
      BY <2>2
  <1>24. OverlapsSound'
    <2> SUFFICES ASSUME NEW g \in Open', NEW b \in g.batch + 1 .. batches + 1
                 PROVE  g.batch \in overlaps'[b]
      BY <1>1 DEF OverlapsSound
    <2>1. CASE g = f
      BY <1>2, <1>4, <2>1
    <2>2. CASE g \in Open
      <3>1. g.batch \in 1 .. batches
        BY <1>5, <2>2
      <3>2. CASE b = batches + 1
        BY <1>9, <1>10, <2>2, <3>2
      <3>3. CASE b # batches + 1
        <4>1. b \in g.batch + 1 .. batches /\ b \in 1 .. batches
          BY <1>2, <3>1, <3>3
        <4> QED
          BY <1>0, <1>10, <2>2, <4>1 DEF OverlapsSound
      <3> QED
        BY <3>2, <3>3
    <2> QED
      BY <1>7, <2>1, <2>2
  <1>25. AllAccounted'
    <2>1. Delivered' = Delivered
      BY <1>1 DEF Delivered
    <2>2. Pending' = Pending
      <3>1. UNION {Range(h.rest) : h \in Open'} = (UNION {Range(h.rest) : h \in Open}) \cup Waiting
        BY <1>3, <1>4, <1>7
      <3> QED
        BY <1>15, <3>1, PendingIs
    <2> QED
      BY <1>0, <1>1, <2>1, <2>2 DEF AllAccounted
  <1>26. BatchOrder'
    BY <1>0, <1>1, <1>16 DEF BatchOrder
  <1>27. InOrder'
    <2>1. \A i \in DOMAIN delivered : delivered[i].batch \in 1 .. batches
      BY <1>0 DEF DeliveredSound
    <2>2. \A i \in DOMAIN delivered : overlaps'[delivered[i].batch] = overlaps[delivered[i].batch]
      BY <1>10, <2>1
    <2> SUFFICES ASSUME NEW i \in DOMAIN delivered, NEW j \in DOMAIN delivered, i < j,
                        Rank(delivered[i].id) = Rank(delivered[j].id),
                        delivered[j].id < delivered[i].id
                 PROVE  delivered[j].batch \in overlaps'[delivered[i].batch]
      BY ZenonT(60), <1>1, <1>16 DEF InOrder
    <2>3. delivered[j].batch \in overlaps[delivered[i].batch]
      BY <1>0 DEF InOrder
    <2> QED
      BY <2>2, <2>3
  <1> QED
    BY <1>7, <1>13, <1>14, <1>17, <1>18, <1>20, <1>21, <1>22, <1>23, <1>24, <1>25, <1>26, <1>27
    DEF EventsInv

-----------------------------------------------------------------------------
(* Theorems *)

LEMMA EventsInitial == EventsInit => EventsInv
  <1> SUFFICES ASSUME EventsInit PROVE EventsInv
    OBVIOUS
  <1>1. events = [type \in Registered |-> <<>>] /\ \A t \in Threads : stack[t] = <<>>
    BY DEF EventsInit, NoEvents
  <1>2. Open = {} /\ Waiting = {} /\ Fetched = {} /\ Delivered = {}
    <2>1. Open = {} /\ Waiting = {} /\ Delivered = {}
      BY <1>1 DEF EventsInit, Open, Waiting, Delivered, Range
    <2> QED
      BY <2>1, FetchedPair DEF EventsInit
  <1>3. EventsTypeOK
    BY <1>1 DEF EventsInit, EventsTypeOK
  <1>4. AllAccounted
    BY <1>2, PendingIs DEF EventsInit, AllAccounted
  <1>5. BatchesApart /\ ListsSound
    BY <1>1 DEF BatchesApart, ListsSound
  <1>6. /\ OpenSound /\ FetchedInOrder /\ WaitingLater /\ RestLater /\ LostApart /\ OverlapsSound
    BY <1>2 DEF OpenSound, FetchedInOrder, WaitingLater, RestLater, LostApart, OverlapsSound
  <1>7. DeliveredSound /\ BatchOrder /\ InOrder
    BY DEF EventsInit, DeliveredSound, BatchOrder, InOrder
  <1> QED
    BY <1>3, <1>4, <1>5, <1>6, <1>7 DEF EventsInv

\* A step that leaves the events and dispatches alone.
LEMMA QuietKeeps ==
    ASSUME EventsInv, iterating' \in Threads \cup {NoThread},
           UNCHANGED <<order, occurred, events, stack, batches, overlaps, delivered, lost>>
    PROVE  EventsInv'
  <1>1. /\ Registered' = Registered /\ Open' = Open /\ Waiting' = Waiting
        /\ Fetched' = Fetched /\ Pending' = Pending /\ Delivered' = Delivered
    BY DEF Registered, Open, Waiting, Fetched, Pending, Delivered
  <1>2. \A a, b : /\ Before(a, b)' = Before(a, b)
                  /\ Rank(a)' = Rank(a) /\ Rank(b)' = Rank(b)
    BY RankKept
  <1>3. EventsTypeOK'
    BY <1>1 DEF EventsInv, EventsTypeOK, Occurrences, Calls, Frames
  <1>4. BatchesApart' /\ ListsSound'
    BY <1>1 DEF EventsInv, BatchesApart, ListsSound
  <1>5. OpenSound' /\ DeliveredSound'
    BY <1>1, <1>2 DEF EventsInv, OpenSound, DeliveredSound
  <1>6. FetchedInOrder' /\ WaitingLater' /\ LostApart'
    BY <1>1 DEF EventsInv, FetchedInOrder, WaitingLater, LostApart
  <1>7. RestLater' /\ OverlapsSound' /\ AllAccounted'
    BY <1>1, <1>2 DEF EventsInv, RestLater, OverlapsSound, AllAccounted
  <1>8. BatchOrder' /\ InOrder'
    BY <1>2 DEF EventsInv, BatchOrder, InOrder
  <1> QED
    BY <1>3, <1>4, <1>5, <1>6, <1>7, <1>8 DEF EventsInv

\* Every step of native code and of dispatch preserves EventsInv.
LEMMA EventsStep == EventsInv /\ [EventsNext]_eventVars => EventsInv'
  <1> SUFFICES ASSUME EventsInv, [EventsNext]_eventVars PROVE EventsInv'
    OBVIOUS
  <1>1. CASE UNCHANGED eventVars
    <2>1. iterating' \in Threads \cup {NoThread}
      BY <1>1 DEF eventVars, EventsInv, EventsTypeOK
    <2> QED
      BY <1>1, <2>1, QuietKeeps DEF eventVars
  <1>2. ASSUME NEW t \in Threads, IterateBegin(t) \/ IterateNull(t)
        PROVE  EventsInv'
    BY <1>2, QuietKeeps DEF IterateBegin, IterateNull
  <1>3. ASSUME NEW t \in Threads, NEW type \in Registered, NEW friend \in Friends,
               NEW file \in Files \cup {0},
               Callback(t, type, friend, file) \/ Invoke(t, type, friend, file)
        PROVE  EventsInv'
    BY <1>3, RecordKeeps DEF Callback, Invoke
  <1>4. ASSUME NEW t \in Threads,
               \/ FriendCallback(t) \/ FileCallback(t) \/ AvCallback(t)
               \/ InvokeFriend(t) \/ InvokeFile(t) \/ InvokeAv(t)
        PROVE  EventsInv'
    <2>1. PICK type \in Registered, friend \in Friends, file \in Files \cup {0} :
              Callback(t, type, friend, file) \/ Invoke(t, type, friend, file)
      BY <1>4 DEF FriendCallback, FileCallback, AvCallback, InvokeFriend, InvokeFile, InvokeAv,
                  Occurring
    <2> QED
      BY <1>3, <2>1
  <1> QED
    BY <1>1, <1>2, <1>4, BatchKeeps, DeliverKeeps, HandlerReturnsKeeps, ThrowKeeps,
       DispatchReturnsKeeps DEF EventsNext

\* The events, lists and dispatches of an instance are always as EventsInv says.
THEOREM EventsInductive == EventsSpec => []EventsInv
  BY EventsInitial, EventsStep, PTL DEF EventsSpec

\* No two calls of handlers are for the same event.
LEMMA DeliveredOnce ==
    ASSUME EventsInv, NEW i \in DOMAIN delivered, NEW j \in DOMAIN delivered, i # j
    PROVE  delivered[i].id # delivered[j].id
  <1>0. EventsTypeOK /\ DeliveredSound /\ FetchedInOrder /\ BatchOrder
    BY DEF EventsInv
  <1>1. \A k, l \in DOMAIN delivered : k < l => delivered[k].id # delivered[l].id
    <2> SUFFICES ASSUME NEW k \in DOMAIN delivered, NEW l \in DOMAIN delivered, k < l,
                        delivered[k].id = delivered[l].id
                 PROVE  FALSE
      OBVIOUS
    <2> DEFINE d == delivered[k]
               e == delivered[l]
    <2>1. /\ d.id \in DOMAIN occurred /\ e.id \in DOMAIN occurred
          /\ d.batch \in 1 .. batches /\ e.batch \in 1 .. batches
      BY <1>0 DEF DeliveredSound
    <2>2. d.id \in Nat /\ batches \in Nat
      BY <1>0, <2>1, RankType DEF EventsTypeOK
    <2>3. <<d.id, d.batch>> \in Fetched /\ <<e.id, e.batch>> \in Fetched
      BY FetchedPair
    <2>4. d.batch = e.batch
      <3>1. (d.batch < e.batch => d.id < e.id) /\ (e.batch < d.batch => e.id < d.id)
        BY <1>0, <2>3 DEF FetchedInOrder
      <3> QED
        BY <2>1, <2>2, <3>1
    <2>5. Before(d.id, e.id)
      BY <1>0, <2>4 DEF BatchOrder, Before
    <2> QED
      BY <1>0, <2>1, <2>5, BeforeStrict
  <1>2. i \in Nat /\ j \in Nat
    BY <1>0, LenProperties DEF EventsTypeOK
  <1>3. i < j \/ j < i
    BY <1>2
  <1> QED
    BY <1>1, <1>3

\* What waits or is being dispatched has not reached a handler, and neither is lost.
LEMMA Disjoint ==
    ASSUME EventsInv
    PROVE  /\ Pending \cap Delivered = {}
           /\ (Pending \cup Delivered) \cap lost = {}
  <1>0. /\ EventsTypeOK /\ BatchesApart /\ OpenSound /\ DeliveredSound /\ FetchedInOrder
        /\ WaitingLater /\ RestLater /\ LostApart
    BY DEF EventsInv
  <1>1. ASSUME NEW x \in Waiting
        PROVE  x \notin Delivered /\ x \notin lost
    <2>1. x \in DOMAIN occurred
      BY FetchedOccurred
    <2>2. x \in Nat
      BY <1>0, <2>1, RankType
    <2>3. ~(x < x)
      BY <2>2
    <2>4. x \notin lost
      BY <1>0, <2>3 DEF WaitingLater
    <2>5. ASSUME NEW i \in DOMAIN delivered, x = delivered[i].id
          PROVE  FALSE
      <3>1. <<x, delivered[i].batch>> \in Fetched
        BY <2>5, FetchedPair
      <3> QED
        BY <1>0, <2>3, <3>1 DEF WaitingLater
    <2> QED
      BY <2>4, <2>5 DEF Delivered, Range
  <1>2. ASSUME NEW f \in Open, NEW x \in Range(f.rest)
        PROVE  x \notin Delivered /\ x \notin lost
    <2>1. <<x, f.batch>> \in Fetched
      BY FetchedPair
    <2>2. x \in DOMAIN occurred /\ f.batch \in 1 .. batches
      BY <2>1, FetchedOccurred
    <2>3. x \in Nat /\ batches \in Nat
      BY <1>0, <2>2, RankType DEF EventsTypeOK
    <2>4. x \notin lost
      BY <1>0, <2>1 DEF LostApart
    <2>5. ASSUME NEW i \in DOMAIN delivered, x = delivered[i].id
          PROVE  FALSE
      <3>1. <<x, delivered[i].batch>> \in Fetched /\ delivered[i].batch \in 1 .. batches
        BY <1>0, <2>5, FetchedPair DEF DeliveredSound
      <3>2. delivered[i].batch = f.batch
        <4>1. /\ delivered[i].batch < f.batch => x < x
              /\ f.batch < delivered[i].batch => x < x
          BY <1>0, <2>1, <3>1 DEF FetchedInOrder
        <4> QED
          BY <2>2, <2>3, <3>1, <4>1
      <3>3. Before(x, x)
        BY <1>0, <2>5, <3>2 DEF RestLater
      <3> QED
        BY <1>0, <2>2, <3>3, BeforeStrict
    <2> QED
      BY <2>4, <2>5 DEF Delivered, Range
  <1>3. ASSUME NEW x \in Delivered
        PROVE  x \notin lost
    <2>1. PICK i \in DOMAIN delivered : x = delivered[i].id
      BY DEF Delivered, Range
    <2>2. <<x, delivered[i].batch>> \in Fetched
      BY <2>1, FetchedPair
    <2> QED
      BY <1>0, <2>2 DEF LostApart
  <1> QED
    BY <1>1, <1>2, <1>3, PendingIs

\* No event is forgotten or handled twice, however iterate calls overlap.
THEOREM AtMostOnceCorrect == EventsSpec => []AtMostOnce
  <1>1. EventsInv => AtMostOnce
    <2> SUFFICES ASSUME EventsInv PROVE AtMostOnce
      OBVIOUS
    <2>1. EventsTypeOK /\ AllAccounted
      BY DEF EventsInv
    <2>2. PICK n \in Nat : n = Len(occurred) /\ DOMAIN occurred = 1 .. n
      BY <2>1, LenProperties DEF EventsTypeOK
    <2>3. PICK m \in Nat : m = Len(delivered) /\ DOMAIN delivered = 1 .. m
      BY <2>1, LenProperties DEF EventsTypeOK
    <2>4. IsFiniteSet(1 .. n) /\ Cardinality(1 .. n) = n
      BY FS_Interval
    <2>5. IsFiniteSet(Pending) /\ IsFiniteSet(Delivered) /\ IsFiniteSet(lost)
      BY <2>2, <2>4, FetchedOccurred, FS_Subset
    <2>6. Cardinality(Delivered) = m
      <3> DEFINE h == [i \in 1 .. m |-> delivered[i].id]
      <3>1. h \in [1 .. m -> Delivered]
        BY <2>3 DEF Delivered, Range
      <3>2. \A x \in Delivered : \E i \in 1 .. m : h[i] = x
        BY <2>3 DEF Delivered, Range
      <3>3. \A i, j \in 1 .. m : h[i] = h[j] => i = j
        BY <2>3, DeliveredOnce
      <3>4. h \in Bijection(1 .. m, Delivered)
        <4> HIDE DEF h
        <4> QED
          BY <3>1, <3>2, <3>3 DEF Bijection, Injection, Surjection, IsInjective
      <3>5. IsFiniteSet(1 .. m) /\ Cardinality(1 .. m) = m
        BY FS_Interval
      <3> QED
        BY <3>4, <3>5, FS_Bijection DEF ExistsBijection
    <2>7. Pending \cap Delivered = {} /\ (Pending \cup Delivered) \cap lost = {}
      BY Disjoint
    <2>8. Cardinality(Pending \cup Delivered) = Cardinality(Pending) + m
      <3>1. Cardinality(Pending \cup Delivered)
            = Cardinality(Pending) + Cardinality(Delivered) - Cardinality(Pending \cap Delivered)
        BY <2>5, FS_Union
      <3>2. Cardinality(Pending \cap Delivered) = 0 /\ Cardinality(Pending) \in Nat
        BY <2>5, <2>7, FS_EmptySet, FS_CardinalityType
      <3> QED
        BY <2>6, <3>1, <3>2
    <2>9. Cardinality((Pending \cup Delivered) \cup lost)
          = Cardinality(Pending) + m + Cardinality(lost)
      <3>1. IsFiniteSet(Pending \cup Delivered)
        BY <2>5, FS_Union
      <3>2. Cardinality((Pending \cup Delivered) \cup lost)
            = Cardinality(Pending \cup Delivered) + Cardinality(lost)
              - Cardinality((Pending \cup Delivered) \cap lost)
        BY <2>5, <3>1, FS_Union
      <3>3. /\ Cardinality((Pending \cup Delivered) \cap lost) = 0
            /\ Cardinality(Pending) \in Nat /\ Cardinality(lost) \in Nat
        BY <2>5, <2>7, FS_EmptySet, FS_CardinalityType
      <3> QED
        BY <2>8, <3>2, <3>3
    <2>10. Pending \cup Delivered \cup lost = DOMAIN occurred
      BY <2>1 DEF AllAccounted
    <2>11. Cardinality(Pending) + m + Cardinality(lost) = n
      BY <2>2, <2>4, <2>9, <2>10
    <2> QED
      BY <2>2, <2>3, <2>10, <2>11 DEF AtMostOnce
  <1> QED
    BY <1>1, EventsInductive, PTL

\* A batch is handled type by type, in the order of dispatch.
THEOREM BatchOrderCorrect == EventsSpec => []BatchOrder
  <1>1. EventsInv => BatchOrder
    BY DEF EventsInv
  <1> QED
    BY <1>1, EventsInductive, PTL

\* Only an iterate call during a dispatch lets an event overtake an earlier one of its
\* type.
THEOREM InOrderCorrect == EventsSpec => []InOrder
  <1>1. EventsInv => InOrder
    BY DEF EventsInv
  <1> QED
    BY <1>1, EventsInductive, PTL

-----------------------------------------------------------------------------
(* The arguments of the handlers *)

\* A handler was given what the dispatch functions pass on.
ArgumentsSound ==
    \A i \in DOMAIN delivered : delivered[i].args = HandlerArgs(occurred[delivered[i].id])

\* What a step adds to the two histories.
LEMMA HistoriesGrow ==
    ASSUME EventsInv, [EventsNext]_eventVars
    PROVE  /\ \A id \in DOMAIN occurred : id \in DOMAIN occurred' /\ occurred'[id] = occurred[id]
           /\ \/ delivered' = delivered
              \/ \E t \in Threads : Deliver(t)
  <1>1. occurred \in Seq(Occurrences)
    BY DEF EventsInv, EventsTypeOK
  <1>2. ASSUME NEW t \in Threads,
               \/ FriendCallback(t) \/ FileCallback(t) \/ AvCallback(t)
               \/ InvokeFriend(t) \/ InvokeFile(t) \/ InvokeAv(t)
        PROVE  /\ delivered' = delivered
               /\ \E e \in Occurrences : occurred' = Append(occurred, e)
    <2>1. PICK type \in Registered, friend \in Friends, file \in Files \cup {0} :
              Callback(t, type, friend, file) \/ Invoke(t, type, friend, file)
      BY <1>2 DEF FriendCallback, FileCallback, AvCallback, InvokeFriend, InvokeFile, InvokeAv,
                  Occurring
    <2>2. [type |-> type, friend |-> friend, file |-> file] \in Occurrences
      BY DEF Occurrences
    <2> QED
      BY <2>1, <2>2 DEF Callback, Invoke, Record
  <1>3. ASSUME NEW e \in Occurrences, occurred' = Append(occurred, e)
        PROVE  \A id \in DOMAIN occurred : id \in DOMAIN occurred' /\ occurred'[id] = occurred[id]
    BY <1>1, <1>3, AppendSeq
  <1>4. \/ occurred' = occurred /\ (delivered' = delivered \/ \E t \in Threads : Deliver(t))
        \/ delivered' = delivered /\ \E e \in Occurrences : occurred' = Append(occurred, e)
    BY <1>2 DEF EventsNext, eventVars, IterateBegin, IterateNull, IterateBatch, Deliver,
                HandlerReturns, HandlerThrows, ConversionThrows, DispatchReturns
  <1>5. occurred' = occurred \/ \E e \in Occurrences : occurred' = Append(occurred, e)
    BY <1>4
  <1>6. delivered' = delivered \/ \E t \in Threads : Deliver(t)
    BY <1>4
  <1> QED
    BY <1>3, <1>5, <1>6

\* What a delivery adds to the calls of handlers.
LEMMA DeliveredCall ==
    ASSUME EventsInv, NEW t \in Threads, Deliver(t)
    PROVE  \E f \in Open : \E id \in Range(f.rest) : \E call \in Calls :
               /\ call = [id |-> id, batch |-> f.batch, args |-> HandlerArgs(occurred[id])]
               /\ delivered' = Append(delivered, call)
               /\ UNCHANGED <<order, occurred, events, lost>>
  <1> DEFINE f == Top(t)
             id == Head(f.rest)
             call == [id |-> id, batch |-> f.batch, args |-> HandlerArgs(occurred[id])]
  <1>1. /\ stack[t] # <<>> /\ f.rest # <<>> /\ delivered' = Append(delivered, call)
        /\ UNCHANGED <<order, occurred, events, lost>>
    BY DEF Deliver
  <1>2. EventsTypeOK /\ f \in Open /\ f \in Frames
    BY <1>1, TopOpen DEF EventsInv
  <1>3. f.rest \in Seq(Nat) /\ f.batch \in Nat
    BY <1>2 DEF Frames
  <1>4. id \in Range(f.rest)
    BY <1>1, <1>3, TailSeq
  <1> HIDE DEF f, id
  <1>5. <<id, f.batch>> \in Fetched
    BY <1>2, <1>4, FetchedPair
  <1>6. id \in DOMAIN occurred
    BY <1>5, FetchedOccurred
  <1>7. occurred[id] \in Occurrences /\ id \in Nat
    BY <1>2, <1>6, ElementOfSeq, LenProperties DEF EventsTypeOK
  <1>8. HandlerArgs(occurred[id]) \in [type : Registered, friend : Friends \cup Files \cup {0},
                                       file : Files \cup {0}]
    BY <1>7 DEF HandlerArgs, Occurrences
  <1>9. call \in Calls
    BY <1>3, <1>7, <1>8 DEF Calls
  <1> QED
    BY <1>1, <1>2, <1>4, <1>9

\* Every handler gets what the callback was given, in the order of its parameters,
\* for every type of event but fileRecvChunk: of the conversions from the callbacks
\* to the handlers only dispatchFileRecvChunk mixes up its arguments.
THEOREM OtherArgumentsKept ==
    EventsSpec => [](\A i \in DOMAIN delivered :
                         \/ delivered[i].args = occurred[delivered[i].id]
                         \/ occurred[delivered[i].id].type = "fileRecvChunk")
  <1>1. EventsInit => ArgumentsSound
    BY EmptySeq, LenProperties DEF EventsInit, ArgumentsSound
  <1>2. EventsInv /\ ArgumentsSound /\ [EventsNext]_eventVars => ArgumentsSound'
    <2> SUFFICES ASSUME EventsInv, ArgumentsSound, [EventsNext]_eventVars,
                        NEW i \in DOMAIN delivered'
                 PROVE  delivered'[i].args = HandlerArgs(occurred'[delivered'[i].id])
      BY DEF ArgumentsSound, HandlerArgs
    <2>1. \A id \in DOMAIN occurred : occurred'[id] = occurred[id]
      BY HistoriesGrow
    <2>2. ASSUME NEW j \in DOMAIN delivered
          PROVE  delivered[j].args = HandlerArgs(occurred'[delivered[j].id])
      <3>1. delivered[j].id \in DOMAIN occurred
        BY DEF EventsInv, DeliveredSound
      <3> QED
        BY <2>1, <3>1 DEF ArgumentsSound
    <2>3. CASE delivered' = delivered
      BY <2>2, <2>3
    <2>4. ASSUME NEW t \in Threads, Deliver(t)
          PROVE  delivered'[i].args = HandlerArgs(occurred'[delivered'[i].id])
      <3>1. PICK f \in Open : \E id \in Range(f.rest) : \E call \in Calls :
                /\ call = [id |-> id, batch |-> f.batch, args |-> HandlerArgs(occurred[id])]
                /\ delivered' = Append(delivered, call)
                /\ UNCHANGED <<order, occurred, events, lost>>
        BY <2>4, DeliveredCall
      <3>2. PICK id \in Range(f.rest), call \in Calls :
                /\ call = [id |-> id, batch |-> f.batch, args |-> HandlerArgs(occurred[id])]
                /\ delivered' = Append(delivered, call)
                /\ occurred' = occurred
        BY <3>1
      <3>3. delivered \in Seq(Calls)
        BY DEF EventsInv, EventsTypeOK
      <3>4. \/ i \in DOMAIN delivered /\ delivered'[i] = delivered[i]
            \/ delivered'[i] = call
        BY <3>2, <3>3, AppendSeq
      <3>5. call.id = id /\ call.args = HandlerArgs(occurred[id])
        BY <3>2
      <3> QED
        BY <2>2, <3>2, <3>4, <3>5
    <2> QED
      BY <2>3, <2>4, HistoriesGrow
  <1>3. EventsInv /\ ArgumentsSound =>
            \A i \in DOMAIN delivered : \/ delivered[i].args = occurred[delivered[i].id]
                                        \/ occurred[delivered[i].id].type = "fileRecvChunk"
    <2> SUFFICES ASSUME EventsInv, ArgumentsSound, NEW i \in DOMAIN delivered,
                        occurred[delivered[i].id].type # "fileRecvChunk"
                 PROVE  delivered[i].args = occurred[delivered[i].id]
      OBVIOUS
    <2> DEFINE e == occurred[delivered[i].id]
    <2>1. delivered[i].id \in DOMAIN occurred
      BY DEF EventsInv, DeliveredSound
    <2>2. e \in Occurrences
      BY <2>1, ElementOfSeq, LenProperties DEF EventsInv, EventsTypeOK
    <2>3. delivered[i].args = HandlerArgs(e)
      BY DEF ArgumentsSound
    <2> HIDE DEF e
    <2>4. e.type # "fileRecvChunk"
      BY DEF e
    <2>5. HandlerArgs(e) = e
      BY <2>2, <2>4 DEF HandlerArgs, Occurrences
    <2> QED
      BY <2>3, <2>5 DEF e
  <1> QED
    BY <1>1, <1>2, <1>3, EventsInductive, PTL DEF EventsSpec

-----------------------------------------------------------------------------
(* The channel *)

\* The variables of the channel.
Handled == [i \in DOMAIN delivered |-> delivered[i].id]
Left == DOMAIN occurred \ Waiting

\* What is in a dispatch is on its way to a handler.
LEMMA RestComes ==
    ASSUME EventsInv, NEW f \in Open, NEW id \in Range(f.rest)
    PROVE  id \in Channel!Coming /\ id \in Left
  <1>1. <<id, f.batch>> \in Fetched
    BY FetchedPair
  <1>2. id \in DOMAIN occurred
    BY <1>1, FetchedOccurred
  <1>3. id \in Nat
    BY <1>2, LenProperties DEF EventsInv, EventsTypeOK
  <1>4. id \notin Waiting
    BY <1>1, <1>3 DEF EventsInv, WaitingLater
  <1>5. id \in Pending
    BY PendingIs
  <1>6. id \notin Delivered /\ id \notin lost
    BY <1>5, Disjoint
  <1>7. \A i \in DOMAIN delivered : Handled[i] # id
    BY <1>6 DEF Delivered, Handled, Range
  <1> QED
    BY <1>2, <1>4, <1>6, <1>7 DEF Left, Waiting, Handled, Channel!Coming

\* A delivery hands over an event that is on its way, after the others.
LEMMA DeliverRefines ==
    ASSUME EventsInv, NEW t \in Threads, Deliver(t)
    PROVE  Channel!Next
  <1>1. PICK f \in Open : \E id \in Range(f.rest) : \E call \in Calls :
            /\ call = [id |-> id, batch |-> f.batch, args |-> HandlerArgs(occurred[id])]
            /\ delivered' = Append(delivered, call)
            /\ UNCHANGED <<order, occurred, events, lost>>
    BY DeliveredCall
  <1>2. PICK id \in Range(f.rest), call \in Calls :
            /\ call = [id |-> id, batch |-> f.batch, args |-> HandlerArgs(occurred[id])]
            /\ delivered' = Append(delivered, call)
            /\ UNCHANGED <<order, occurred, events, lost>>
    BY <1>1
  <1>3. id \in Channel!Coming /\ id \in Left
    BY RestComes
  <1>4. delivered \in Seq(Calls)
    BY DEF EventsInv, EventsTypeOK
  <1>5. PICK m \in Nat : m = Len(delivered) /\ DOMAIN delivered = 1 .. m
    BY <1>4, LenProperties
  <1>6. /\ DOMAIN delivered' = DOMAIN delivered \cup {m + 1} /\ m + 1 \notin DOMAIN delivered
        /\ delivered'[m + 1] = call
        /\ \A i \in DOMAIN delivered : delivered'[i] = delivered[i]
    BY <1>2, <1>4, <1>5, AppendSeq
  <1>7. call.id = id
    BY <1>2
  <1>8. DOMAIN delivered' = 1 .. m + 1
    BY <1>5, <1>6
  <1>9. Handled' = Append(Handled, id)
    <2> DEFINE h == [i \in 1 .. m |-> delivered[i].id]
               k == [i \in 1 .. m + 1 |-> delivered'[i].id]
               S == {delivered'[i].id : i \in 1 .. m + 1}
    <2>1. Handled = h
      BY <1>5 DEF Handled
    <2>2. Handled' = k
      BY <1>8 DEF Handled
    <2>3. \A i \in 1 .. m : i \in 1 .. m + 1 /\ delivered'[i] = delivered[i]
      BY <1>5, <1>6
    <2>4. id \in S
      BY <1>6, <1>7
    <2>5. k \in Seq(S) /\ Len(k) = m + 1 /\ \A i \in 1 .. m + 1 : k[i] = delivered'[i].id
      OBVIOUS
    <2>6. h \in Seq(S) /\ Len(h) = m /\ \A i \in 1 .. m : h[i] = delivered'[i].id
      BY <2>3
    <2> HIDE DEF h, k, S
    <2>7. /\ Append(h, id) \in Seq(S) /\ Len(Append(h, id)) = m + 1
          /\ Append(h, id)[m + 1] = id
          /\ \A i \in 1 .. m : Append(h, id)[i] = h[i]
      BY <2>4, <2>6, AppendProperties
    <2>8. \A i \in 1 .. m + 1 : k[i] = Append(h, id)[i]
      BY <1>6, <1>7, <2>5, <2>6, <2>7
    <2>9. k = Append(h, id)
      BY <2>5, <2>7, <2>8, SeqEqual
    <2> QED
      BY <2>1, <2>2, <2>9
  <1>10. Channel!Handle(id)
    <2>1. id \in Channel!Coming
      BY <1>3
    <2> QED
      BY <1>2, <1>9, <2>1 DEF Handled, Channel!Handle
  <1> QED
    BY <1>3, <1>10 DEF Left, Waiting, Channel!Next

\* A callback.
LEMMA RecordRefines ==
    ASSUME EventsInv, NEW type \in Registered, NEW friend \in Friends, NEW file \in Files \cup {0},
           Record(type, friend, file), UNCHANGED <<delivered, lost>>
    PROVE  Channel!Next
  <1> DEFINE e == [type |-> type, friend |-> friend, file |-> file]
  <1>1. occurred \in Seq(Occurrences) /\ events \in [Registered -> Seq(Nat)]
    BY DEF EventsInv, EventsTypeOK
  <1>2. PICK n \in Nat : n = Len(occurred) /\ DOMAIN occurred = 1 .. n
    BY <1>1, LenProperties
  <1>3. /\ occurred' = Append(occurred, e)
        /\ events' = [events EXCEPT ![type] = Append(events[type], n + 1)]
    BY <1>2 DEF Record
  <1>4. e \in Occurrences
    BY DEF Occurrences
  <1> HIDE DEF e
  <1>5. /\ Len(occurred') = n + 1
        /\ DOMAIN occurred' = DOMAIN occurred \cup {n + 1} /\ n + 1 \notin DOMAIN occurred
    BY <1>1, <1>2, <1>3, <1>4, AppendSeq
  <1>6. Range(events'[type]) = Range(events[type]) \cup {n + 1}
    <2>1. events[type] \in Seq(Nat) /\ n + 1 \in Nat
      BY <1>1, <1>2
    <2>2. events'[type] = Append(events[type], n + 1)
      BY <1>1, <1>3
    <2>3. /\ DOMAIN Append(events[type], n + 1) = DOMAIN events[type] \cup {Len(events[type]) + 1}
          /\ Append(events[type], n + 1)[Len(events[type]) + 1] = n + 1
          /\ \A k \in DOMAIN events[type] : Append(events[type], n + 1)[k] = events[type][k]
      BY <2>1, AppendSeq
    <2> QED
      BY <2>2, <2>3 DEF Range
  <1>7. /\ DOMAIN events' = DOMAIN events
        /\ \A other \in DOMAIN events \ {type} : events'[other] = events[other]
        /\ type \in DOMAIN events
    BY <1>1, <1>3
  <1>8. Waiting' = Waiting \cup {n + 1}
    BY <1>6, <1>7 DEF Waiting
  <1>9. Left' = Left
    BY <1>5, <1>8 DEF Left
  <1>10. Channel!Happen
    BY <1>2, <1>5, <1>9 DEF Left, Waiting, Channel!Happen
  <1> QED
    BY <1>10 DEF Channel!Next

\* A batch takes all that waits.
LEMMA BatchRefines ==
    ASSUME EventsInv, NEW t \in Threads, IterateBatch(t)
    PROVE  Channel!Next
  <1>1. UNCHANGED <<order, occurred, delivered, lost>> /\ events' = NoEvents
    BY DEF IterateBatch
  <1>2. Waiting' = {}
    <2>1. \A type \in DOMAIN events' : Range(events'[type]) = {}
      BY <1>1 DEF NoEvents, Range
    <2> QED
      BY <2>1 DEF Waiting
  <1>3. Left' = 1 .. Len(occurred)
    <2>1. DOMAIN occurred = 1 .. Len(occurred)
      BY LenProperties DEF EventsInv, EventsTypeOK
    <2> QED
      BY <1>1, <1>2, <2>1 DEF Left
  <1>4. Channel!Fetch
    BY <1>1, <1>3 DEF Left, Waiting, Channel!Fetch
  <1> QED
    BY <1>4 DEF Channel!Next

\* The exception of a handler or a conversion drops the rest of its batch.
LEMMA ThrowRefines ==
    ASSUME EventsInv, NEW t \in Threads, HandlerThrows(t) \/ ConversionThrows(t)
    PROVE  Channel!Next
  <1>1. /\ stack[t] # <<>> /\ lost' = lost \cup Range(Top(t).rest)
        /\ UNCHANGED <<order, occurred, events, delivered>>
    BY DEF HandlerThrows, ConversionThrows
  <1>2. Top(t) \in Open
    BY <1>1, TopOpen DEF EventsInv
  <1>3. Range(Top(t).rest) \subseteq Channel!Coming
    BY <1>2, RestComes
  <1>4. Channel!Drop
    BY <1>1, <1>3 DEF Channel!Drop
  <1> QED
    BY <1>4 DEF Channel!Next

\* The lists of the native side and the dispatches of all threads implement the
\* channel, for any number of events, threads and nested iterate calls: an iterate
\* call fetches every event that has occurred, and none is handled twice, or handled
\* after it was dropped.
THEOREM EventsImplementChannel == EventsSpec => RefinesChannel
  <1>1. EventsInit => Channel!Init
    <2> SUFFICES ASSUME EventsInit PROVE Channel!Init
      OBVIOUS
    <2>1. occurred = <<>> /\ delivered = <<>> /\ lost = {}
      BY DEF EventsInit
    <2>2. DOMAIN occurred = {} /\ DOMAIN delivered = {} /\ Len(occurred) = 0
      BY <2>1
    <2>3. Handled = <<>>
      BY <2>2 DEF Handled
    <2> QED
      BY <2>1, <2>2, <2>3 DEF Handled, Channel!Init
  <1>2. EventsInv /\ [EventsNext]_eventVars => [Channel!Next]_(Channel!channel)
    <2> SUFFICES ASSUME EventsInv, [EventsNext]_eventVars
                 PROVE  Channel!Next \/ UNCHANGED Channel!channel
      OBVIOUS
    <2>1. CASE UNCHANGED <<occurred, events, delivered, lost>>
      BY <2>1 DEF Channel!channel
    <2>2. ASSUME NEW t \in Threads,
                 \/ FriendCallback(t) \/ FileCallback(t) \/ AvCallback(t)
                 \/ InvokeFriend(t) \/ InvokeFile(t) \/ InvokeAv(t)
          PROVE  Channel!Next
      <3>1. PICK type \in Registered, friend \in Friends, file \in Files \cup {0} :
                Callback(t, type, friend, file) \/ Invoke(t, type, friend, file)
        BY <2>2 DEF FriendCallback, FileCallback, AvCallback, InvokeFriend, InvokeFile, InvokeAv,
                    Occurring
      <3> QED
        BY <3>1, RecordRefines DEF Callback, Invoke
    <2> QED
      BY <2>1, <2>2, BatchRefines, DeliverRefines, ThrowRefines
      DEF EventsNext, eventVars, IterateBegin, IterateNull, HandlerReturns, DispatchReturns
  <1> QED
    BY <1>1, <1>2, EventsInductive, PTL DEF EventsSpec, RefinesChannel, Channel!Spec

=============================================================================
