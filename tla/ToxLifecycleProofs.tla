-------------------------- MODULE ToxLifecycleProofs ------------------------
(***************************************************************************)
(* The safety properties of the life of a ToxCoreImpl and its ToxAvImpl    *)
(* objects, for every set of avs and every platform.                       *)
(*                                                                         *)
(* LifeInv is the inductive invariant.  OneActor: at most one of the two   *)
(* threads is in a method of the classes, since the finalizer of Tox       *)
(* starts when the client has no way left to call one.  Targets and        *)
(* Registered: which avs are registered, and that a live one is, unless a  *)
(* thread is about to kill it.  Pruned and Looping: what Event.invoke has  *)
(* left behind its cursor, and that the list shrinks at its last slot      *)
(* only.  NoStaleNumber and ShrinksAtEnd follow from it.                   *)
(***************************************************************************)
EXTENDS ToxLifecycle, ProofLemmas

\* At most one thread is inside of a method, and how far the finalizer of Tox got.
OneActor ==
    /\ Tox \in finalized => held = {} /\ pc["client"] = "idle" /\ core # "none"
    /\ pc["finalizer"] # "idle" => Tox \in finalized
    /\ pc["client"] # "toxfinalize" /\ pc["finalizer"] # "newav"
    /\ core = "freed" => Tox \in finalized /\ pc["finalizer"] = "idle"
    /\ pc["finalizer"] = "toxfinalize" => core \in {"killed", "null"}
    /\ pc["finalizer"] = "avkill" => calls["finalizer"] = "loop"

\* The av a thread works on.
Targets ==
    /\ \A r \in Runners : pc[r] = "avkill" =>
           target[r] \in Avs /\ av[target[r]] # "none" /\ onClose[target[r]] = Invalid
    /\ pc["client"] = "newav" =>
           /\ target["client"] \in Avs
           /\ av[target["client"]] = "none"
           /\ onClose[target["client"]] # Invalid

\* When an av is registered, by the state of its native instance.
Registered ==
    \A a \in Avs :
        /\ av[a] = "none" =>
               /\ a \notin held
               /\ onClose[a] = Invalid \/ (pc["client"] = "newav" /\ target["client"] = a)
        /\ av[a] = "live" =>
               onClose[a] # Invalid \/ \E r \in Runners : pc[r] = "avkill" /\ target[r] = a
        /\ av[a] \in {"killed", "freed"} => onClose[a] = Invalid
        /\ av[a] = "freed" =>
               a \notin held /\ \A r \in Runners : pc[r] = "avkill" => target[r] # a

\* The list never ends with an empty callback.
Pruned == callbacks # <<>> => callbacks[Len(callbacks)] # NoAv

\* A thread is in Event.invoke, or in a close that it called.
InLoop(r) == pc[r] = "loop" \/ (pc[r] = "avkill" /\ calls[r] = "loop")

\* The callbacks before the cursor have run and are gone; the list keeps its size
\* until the last one has run.
Looping ==
    \A r \in Runners : InLoop(r) =>
        /\ cursor[r] <= limit[r] /\ Len(callbacks) <= limit[r]
        /\ \A i \in DOMAIN callbacks : i <= cursor[r] => callbacks[i] = NoAv
        /\ modified[r] => callbacks = <<>> /\ cursor[r] = limit[r]
        /\ ~modified[r] => Len(callbacks) = limit[r]

LifeInv ==
    /\ LifeTypeOK
    /\ OneActor
    /\ Targets
    /\ Registered
    /\ IdsSound
    /\ Pruned
    /\ Looping
    /\ AvBeforeCore
    /\ CoreReclaimed

-----------------------------------------------------------------------------
(* Event *)

\* What pruning leaves: every slot in use, and one of them at the end.
LEMMA PruneProperties ==
    ASSUME NEW S, NEW s \in Seq(S)
    PROVE  /\ Prune(s) \in Seq(S)
           /\ Len(Prune(s)) <= Len(s)
           /\ \A i \in DOMAIN s : s[i] # NoAv => i \in DOMAIN Prune(s)
           /\ \A i \in DOMAIN Prune(s) : i \in DOMAIN s /\ Prune(s)[i] = s[i]
           /\ Prune(s) # <<>> => Prune(s)[Len(Prune(s))] # NoAv
  <1> DEFINE T == {i \in DOMAIN s : s[i] # NoAv} \cup {0}
             p == Prune(s)
  <1>1. PICK n \in Nat : n = Len(s) /\ DOMAIN s = 1 .. n
    BY LenProperties
  <1>2. T \in SUBSET Nat /\ T # {} /\ \A y \in T : y <= n
    BY <1>1
  <1>3. Max(T) \in T /\ \A y \in T : y <= Max(T)
    BY <1>2, GreatestElement
  <1>4. PICK m \in Nat : m = Max(T) /\ m <= n
    BY <1>2, <1>3
  <1>5. p = SubSeq(s, 1, m)
    BY <1>4 DEF Prune
  <1>6. \A i \in 1 .. m : s[i] \in S
    BY <1>1, <1>4, ElementOfSeq
  <1>7. /\ SubSeq(s, 1, m) \in Seq(S)
        /\ Len(SubSeq(s, 1, m)) = IF 1 <= m THEN m - 1 + 1 ELSE 0
        /\ \A i \in 1 .. m - 1 + 1 : SubSeq(s, 1, m)[i] = s[1 + i - 1]
    BY <1>6, SubSeqProperties
  <1> HIDE DEF p, T
  <1>8. p \in Seq(S) /\ Len(p) = m /\ DOMAIN p = 1 .. m /\ \A i \in 1 .. m : p[i] = s[i]
    BY <1>5, <1>7, LenProperties
  <1>9. \A i \in DOMAIN s : s[i] # NoAv => i \in 1 .. m
    BY <1>1, <1>3, <1>4 DEF T
  <1>10. m # 0 => m \in DOMAIN s /\ s[m] # NoAv
    BY <1>3, <1>4 DEF T
  <1>11. p # <<>> => m # 0
    BY <1>8, EmptySeq
  <1> QED
    BY <1>1, <1>4, <1>8, <1>9, <1>10, <1>11 DEF p

\* A callback in use belongs to an av, which has its id.
LEMMA SlotOfAv ==
    ASSUME LifeTypeOK, IdsSound, NEW i \in DOMAIN callbacks, callbacks[i] # NoAv
    PROVE  callbacks[i] \in Avs /\ onClose[callbacks[i]] = i /\ onClose[callbacks[i]] # Invalid
  BY ElementOfSeq, LenProperties DEF LifeTypeOK, IdsSound, Invalid

\* remove(id) empties the slot of its own callback and no other.  The list becomes
\* shorter only if that slot was the last.
LEMMA RemoveProperties ==
    ASSUME LifeTypeOK, IdsSound, Pruned, NEW a \in Avs, Remove(a)
    PROVE  /\ callbacks' \in Seq(Avs \cup {NoAv})
           /\ onClose' \in [Avs -> Nat]
           /\ modified' \in [Runners -> BOOLEAN]
           /\ onClose'[a] = Invalid
           /\ \A b \in Avs \ {a} : onClose'[b] = onClose[b]
           /\ IdsSound'
           /\ Pruned'
           /\ Len(callbacks') <= Len(callbacks)
           /\ \A i \in DOMAIN callbacks' :
                  i \in DOMAIN callbacks /\ callbacks'[i] \in {callbacks[i], NoAv}
           /\ Len(callbacks') # Len(callbacks) => onClose[a] = Len(callbacks)
           /\ \A r \in Runners : modified'[r] = (modified[r] \/ Len(callbacks') # Len(callbacks))
  <1>1. /\ callbacks \in Seq(Avs \cup {NoAv}) /\ onClose \in [Avs -> Nat]
        /\ modified \in [Runners -> BOOLEAN]
    BY DEF LifeTypeOK
  <1>2. /\ onClose' \in [Avs -> Nat] /\ onClose'[a] = Invalid
        /\ \A b \in Avs \ {a} : onClose'[b] = onClose[b]
    BY <1>1 DEF Remove, Invalid
  <1>3. /\ modified' \in [Runners -> BOOLEAN]
        /\ \A r \in Runners : modified'[r] = (modified[r] \/ Len(callbacks') # Len(callbacks))
    BY <1>1 DEF Remove
  <1>4. CASE onClose[a] = Invalid
    <2>1. callbacks' = callbacks
      BY <1>4 DEF Remove
    <2>2. IdsSound' /\ Pruned'
      <3>1. \A b \in Avs : onClose'[b] = onClose[b]
        BY <1>2, <1>4
      <3> QED
        BY <2>1, <3>1, SlotOfAv DEF IdsSound, Pruned
    <2> QED
      BY <1>1, <1>2, <1>3, <2>1, <2>2, LenProperties
  <1>5. CASE onClose[a] # Invalid
    <2> DEFINE k == onClose[a]
               s == [callbacks EXCEPT ![k] = NoAv]
    <2>1. k \in DOMAIN callbacks /\ callbacks[k] = a /\ callbacks' = Prune(s)
      BY <1>5 DEF IdsSound, Remove
    <2>2. /\ s \in Seq(Avs \cup {NoAv}) /\ Len(s) = Len(callbacks) /\ DOMAIN s = DOMAIN callbacks
          /\ s[k] = NoAv /\ \A i \in DOMAIN callbacks \ {k} : s[i] = callbacks[i]
      BY <1>1, <2>1, UpdateSeq
    <2> HIDE DEF s
    <2>3. /\ callbacks' \in Seq(Avs \cup {NoAv})
          /\ Len(callbacks') <= Len(callbacks)
          /\ \A i \in DOMAIN s : s[i] # NoAv => i \in DOMAIN callbacks'
          /\ \A i \in DOMAIN callbacks' : i \in DOMAIN s /\ callbacks'[i] = s[i]
          /\ Pruned'
      BY <2>1, <2>2, PruneProperties DEF Pruned
    <2>4. IdsSound'
      <3>1. ASSUME NEW b \in Avs, onClose'[b] # Invalid
            PROVE  onClose'[b] \in DOMAIN callbacks' /\ callbacks'[onClose'[b]] = b
        <4>1. b # a /\ onClose'[b] = onClose[b] /\ onClose[b] \in DOMAIN callbacks
              /\ callbacks[onClose[b]] = b
          BY <1>2, <3>1 DEF IdsSound
        <4>2. onClose[b] # k /\ s[onClose[b]] = b
          BY <2>1, <2>2, <4>1
        <4> QED
          BY <2>2, <2>3, <4>1, <4>2, LifeAssumption
      <3>2. ASSUME NEW i \in DOMAIN callbacks', callbacks'[i] # NoAv
            PROVE  onClose'[callbacks'[i]] = i
        <4>1. i \in DOMAIN callbacks /\ i # k /\ callbacks'[i] = callbacks[i]
          BY <2>2, <2>3, <3>2
        <4>2. callbacks[i] \in Avs
          BY <1>1, <3>2, <4>1, ElementOfSeq, LenProperties
        <4>3. onClose[callbacks[i]] = i
          BY <3>2, <4>1 DEF IdsSound
        <4> QED
          BY <1>2, <4>1, <4>2, <4>3
      <3> QED
        BY <3>1, <3>2 DEF IdsSound
    <2>5. Len(callbacks') # Len(callbacks) => k = Len(callbacks)
      <3> SUFFICES ASSUME k # Len(callbacks)
                   PROVE  Len(callbacks') = Len(callbacks)
        OBVIOUS
      <3>1. callbacks # <<>> /\ Len(callbacks) \in DOMAIN callbacks
        BY <1>1, <2>1, PopSeq
      <3>2. s[Len(callbacks)] # NoAv
        BY <2>2, <3>1 DEF Pruned
      <3>3. Len(callbacks) \in DOMAIN callbacks'
        BY <2>2, <2>3, <3>1, <3>2
      <3>4. Len(callbacks) <= Len(callbacks')
        BY <2>3, <3>3, LenProperties
      <3> QED
        BY <1>1, <2>3, <3>4, LenProperties
    <2> QED
      BY <1>2, <1>3, <2>2, <2>3, <2>4, <2>5
  <1> QED
    BY <1>4, <1>5

\* A list with a callback has not been left behind by the iterator.
LEMMA LoopGoesOn ==
    ASSUME LifeInv, NEW r \in Runners, pc[r] = "loop"
    PROVE  /\ callbacks # <<>> => HasNext(r)
           /\ (HasNext(r) /\ ~modified[r]) => cursor[r] + 1 \in DOMAIN callbacks
           /\ (HasNext(r) /\ modified[r]) => platform = "jdk"
  <1>1. PICK n \in Nat : n = Len(callbacks) /\ DOMAIN callbacks = 1 .. n
    BY LenProperties DEF LifeInv, LifeTypeOK
  <1>2. /\ cursor[r] \in Nat /\ limit[r] \in Nat /\ cursor[r] <= limit[r] /\ n <= limit[r]
        /\ \A i \in 1 .. n : i <= cursor[r] => callbacks[i] = NoAv
        /\ modified[r] => cursor[r] = limit[r]
        /\ ~modified[r] => n = limit[r]
        /\ platform \in {"jdk", "android"}
    BY <1>1, LifeAssumption DEF LifeInv, LifeTypeOK, Looping, InLoop
  <1>3. callbacks # <<>> => cursor[r] < n
    <2>1. callbacks # <<>> => n \in 1 .. n /\ callbacks[n] # NoAv
      BY <1>1, PopSeq DEF LifeInv, LifeTypeOK, Pruned
    <2> QED
      BY <1>2, <2>1
  <1> QED
    BY <1>1, <1>2, <1>3 DEF HasNext

-----------------------------------------------------------------------------
(* One lemma per action *)

\* Nothing is constructed when the program starts.
LEMMA LifeInitInductive == LifeInit => LifeInv
  <1> SUFFICES ASSUME LifeInit PROVE LifeInv
    OBVIOUS
  <1>1. LifeTypeOK
    BY EmptySeq DEF LifeInit, LifeTypeOK, NativeStates, Locations, Invalid
  <1>2. OneActor /\ Targets /\ Registered
    BY DEF LifeInit, OneActor, Targets, Registered, Runners
  <1>3. IdsSound /\ Pruned /\ Looping
    BY DEF LifeInit, IdsSound, Pruned, Looping, InLoop
  <1>4. AvBeforeCore /\ CoreReclaimed
    BY DEF LifeInit, AvBeforeCore, CoreReclaimed
  <1> QED
    BY <1>1, <1>2, <1>3, <1>4 DEF LifeInv

\* While the client can call a method or is in one, the finalizer is in none.
LEMMA FinalizerWaits ==
    ASSUME LifeInv, held # {} \/ pc["client"] # "idle"
    PROVE  pc["finalizer"] = "idle" /\ Tox \notin finalized /\ core # "freed"
  BY DEF LifeInv, OneActor

\* A thread in a method is alone.
LEMMA OthersIdle ==
    ASSUME LifeInv, NEW r \in Runners, pc[r] # "idle"
    PROVE  \A q \in Runners \ {r} : pc[q] = "idle"
  BY FinalizerWaits DEF LifeInv, OneActor, Runners

LEMMA NewToxInductive == ASSUME LifeInv, NewTox PROVE LifeInv'
  <1>1. LifeTypeOK'
    BY DEF NewTox, threadVars, LifeInv, LifeTypeOK, NativeStates
  <1>2. Tox \notin finalized /\ core = "none" /\ core' \in {"live", "null"}
    BY DEF NewTox, LifeInv, OneActor
  <1>3. OneActor'
    BY <1>2 DEF NewTox, threadVars, LifeInv, OneActor
  <1>4. Targets' /\ Registered'
    BY LifeAssumption DEF NewTox, threadVars, LifeInv, Targets, Registered
  <1>5. IdsSound' /\ Pruned' /\ Looping'
    BY DEF NewTox, threadVars, LifeInv, IdsSound, Pruned, Looping, InLoop
  <1>6. AvBeforeCore' /\ CoreReclaimed'
    BY <1>2 DEF NewTox, threadVars, LifeInv, AvBeforeCore, CoreReclaimed
  <1> QED
    BY <1>1, <1>3, <1>4, <1>5, <1>6 DEF LifeInv

\* The constructor of an av registers it: it has no slot yet.
LEMMA NewAvInductive ==
    ASSUME LifeInv, NEW a \in Avs, NewAv(a)
    PROVE  LifeInv'
  <1>1. PICK n \in Nat : n = Len(callbacks) /\ DOMAIN callbacks = 1 .. n
    BY LenProperties DEF LifeInv, LifeTypeOK
  <1>2. /\ callbacks' \in Seq(Avs \cup {NoAv})
        /\ Len(callbacks') = n + 1
        /\ DOMAIN callbacks' = DOMAIN callbacks \cup {n + 1}
        /\ callbacks'[n + 1] = a
        /\ \A i \in DOMAIN callbacks : callbacks'[i] = callbacks[i]
    BY <1>1, AppendSeq DEF NewAv, Add, LifeInv, LifeTypeOK
  <1>3. /\ onClose' \in [Avs -> Nat] /\ onClose'[a] = n + 1 /\ onClose'[a] # Invalid
        /\ \A b \in Avs \ {a} : onClose'[b] = onClose[b]
    BY <1>1 DEF NewAv, Add, LifeInv, LifeTypeOK, Invalid
  <1>4. /\ pc["client"] = "idle" /\ pc["finalizer"] = "idle" /\ Tox \notin finalized
        /\ core # "freed" /\ core' = core /\ UNCHANGED <<held, finalized, av>>
    BY FinalizerWaits DEF NewAv, nativeVars
  <1>5. /\ pc' \in [Runners -> Locations] /\ pc'["client"] = "newav" /\ pc'["finalizer"] = "idle"
        /\ target' \in [Runners -> Avs \cup {NoAv}] /\ target'["client"] = a
    BY <1>4 DEF NewAv, Goto, LifeInv, LifeTypeOK, Runners, Locations
  <1>6. av[a] = "none" /\ onClose[a] = Invalid /\ a \notin held
    BY <1>4 DEF NewAv, LifeInv, Registered
  <1>7. LifeTypeOK'
    BY <1>2, <1>3, <1>5 DEF NewAv, nativeVars, LifeInv, LifeTypeOK
  <1>8. OneActor' /\ CoreReclaimed'
    BY <1>4, <1>5 DEF OneActor, CoreReclaimed
  <1>9. Targets'
    BY <1>3, <1>4, <1>5, <1>6 DEF Targets, Runners
  <1>10. Registered'
    BY <1>3, <1>4, <1>5, <1>6 DEF LifeInv, Registered, Runners
  <1>11. IdsSound'
    <2>1. ASSUME NEW b \in Avs, onClose'[b] # Invalid
          PROVE  onClose'[b] \in DOMAIN callbacks' /\ callbacks'[onClose'[b]] = b
      BY <1>2, <1>3, <2>1 DEF LifeInv, IdsSound
    <2>2. ASSUME NEW i \in DOMAIN callbacks', callbacks'[i] # NoAv
          PROVE  onClose'[callbacks'[i]] = i
      <3>1. CASE i = n + 1
        BY <1>2, <1>3, <3>1
      <3>2. CASE i \in DOMAIN callbacks
        <4>1. callbacks[i] \in Avs /\ onClose[callbacks[i]] = i /\ callbacks[i] # a
          BY <1>2, <1>6, <2>2, <3>2, SlotOfAv DEF LifeInv
        <4> QED
          BY <1>2, <1>3, <3>2, <4>1
      <3> QED
        BY <1>2, <3>1, <3>2
    <2> QED
      BY <2>1, <2>2 DEF IdsSound
  <1>12. Pruned'
    BY <1>2, LifeAssumption DEF Pruned
  <1>13. Looping'
    BY <1>5 DEF Looping, InLoop, Runners
  <1>14. AvBeforeCore'
    BY <1>4 DEF LifeInv, AvBeforeCore
  <1> QED
    BY <1>7, <1>8, <1>9, <1>10, <1>11, <1>12, <1>13, <1>14 DEF LifeInv

\* toxavNew has returned or thrown.
LEMMA NewAvReturnsInductive == ASSUME LifeInv, NewAvReturns PROVE LifeInv'
  <1> DEFINE a == target["client"]
  <1>1. a \in Avs /\ av[a] = "none" /\ onClose[a] # Invalid /\ pc["client"] = "newav"
    BY DEF NewAvReturns, LifeInv, Targets
  <1>2. /\ pc["finalizer"] = "idle" /\ Tox \notin finalized /\ core # "freed"
        /\ UNCHANGED <<callbacks, onClose, finalized, core>>
    BY <1>1, FinalizerWaits DEF NewAvReturns
  <1>3. /\ pc' \in [Runners -> Locations] /\ pc'["client"] = "idle" /\ pc'["finalizer"] = "idle"
        /\ target' \in [Runners -> Avs \cup {NoAv}]
    BY <1>2 DEF NewAvReturns, Goto, LifeInv, LifeTypeOK, Runners, Locations
  <1>4. /\ av' \in [Avs -> NativeStates]
        /\ av'[a] = "live" => core = "live"
        /\ av'[a] \in {"live", "null"}
        /\ \A b \in Avs \ {a} : av'[b] = av[b]
        /\ held' \subseteq held \cup {a}
        /\ held' \subseteq Avs \cup {Tox}
    BY <1>1 DEF NewAvReturns, LifeInv, LifeTypeOK, NativeStates
  <1> HIDE DEF a
  <1>5. LifeTypeOK'
    BY <1>3, <1>4 DEF NewAvReturns, LifeInv, LifeTypeOK
  <1>6. OneActor' /\ CoreReclaimed'
    BY <1>2, <1>3 DEF OneActor, CoreReclaimed
  <1>7. Targets'
    BY <1>3 DEF Targets, Runners
  <1>8. Registered'
    <2> SUFFICES ASSUME NEW b \in Avs
                 PROVE  /\ av'[b] = "none" => b \notin held' /\ onClose'[b] = Invalid
                        /\ av'[b] = "live" => onClose'[b] # Invalid
                        /\ av'[b] \in {"killed", "freed"} => onClose'[b] = Invalid
                        /\ av'[b] = "freed" => b \notin held'
      BY <1>3 DEF Registered, Runners
    <2>1. CASE b = a
      BY <1>1, <1>2, <1>4, <2>1
    <2>2. CASE b # a
      BY <1>1, <1>2, <1>4, <2>2 DEF LifeInv, Registered, Runners, a
    <2> QED
      BY <2>1, <2>2
  <1>9. IdsSound' /\ Pruned'
    BY <1>2 DEF LifeInv, IdsSound, Pruned
  <1>10. Looping'
    BY <1>3 DEF Looping, InLoop, Runners
  <1>11. AvBeforeCore'
    BY <1>2, <1>4 DEF LifeInv, AvBeforeCore
  <1> QED
    BY <1>5, <1>6, <1>7, <1>8, <1>9, <1>10, <1>11 DEF LifeInv

\* A thread enters the close of an av that it may reach: its callback goes, and from
\* now on the thread is the one that kills it.
LEMMA EnterAvCloseProperties ==
    ASSUME LifeInv, NEW r \in Runners, NEW a \in Avs, NEW caller \in {"none", "loop"},
           EnterAvClose(r, a, caller), av[a] \notin {"none", "freed"},
           pc[r] \in {"idle", "loop"}, \A q \in Runners \ {r} : pc[q] = "idle",
           UNCHANGED <<held, finalized, nativeVars>>
    PROVE  /\ pc' \in [Runners -> Locations] /\ pc'[r] = "avkill"
           /\ target' \in [Runners -> Avs \cup {NoAv}]
           /\ calls' \in [Runners -> {"none", "loop"}] /\ calls'[r] = caller
           /\ \A q \in Runners \ {r} : pc'[q] = "idle"
           /\ Targets' /\ Registered' /\ AvBeforeCore'
  <1>1. /\ onClose'[a] = Invalid
        /\ \A b \in Avs \ {a} : onClose'[b] = onClose[b]
    BY RemoveProperties DEF EnterAvClose, LifeInv
  <1>2. /\ pc' \in [Runners -> Locations] /\ pc'[r] = "avkill"
        /\ target' \in [Runners -> Avs \cup {NoAv}] /\ target'[r] = a
        /\ calls' \in [Runners -> {"none", "loop"}] /\ calls'[r] = caller
        /\ \A q \in Runners \ {r} : pc'[q] = "idle"
    BY DEF EnterAvClose, Goto, LifeInv, LifeTypeOK, Locations
  <1>3. UNCHANGED <<held, finalized, core, av>>
    BY DEF nativeVars
  <1>4. Targets'
    <2>1. pc'["client"] # "newav"
      BY <1>2 DEF Runners
    <2> QED
      BY <1>1, <1>2, <1>3, <2>1 DEF Targets
  <1>5. Registered'
    <2> SUFFICES ASSUME NEW b \in Avs
                 PROVE  /\ av[b] = "none" => b \notin held /\ onClose'[b] = Invalid
                        /\ av[b] = "live" => onClose'[b] # Invalid \/ b = a
                        /\ av[b] \in {"killed", "freed"} => onClose'[b] = Invalid
                        /\ av[b] = "freed" => b \notin held /\ b # a
      BY <1>2, <1>3 DEF Registered
    <2>1. CASE b = a
      BY <1>1, <2>1
    <2>2. CASE b # a
      <3>1. pc["client"] # "newav" /\ \A q \in Runners : pc[q] # "avkill"
        BY DEF Runners
      <3> QED
        BY <1>1, <2>2, <3>1 DEF LifeInv, Registered
    <2> QED
      BY <2>1, <2>2
  <1>6. AvBeforeCore'
    BY <1>3 DEF LifeInv, AvBeforeCore
  <1> QED
    BY <1>2, <1>4, <1>5, <1>6

\* The client closes an av.
LEMMA CloseAvInductive ==
    ASSUME LifeInv, NEW a \in Avs, CloseAv(a)
    PROVE  LifeInv'
  <1>1. /\ pc["client"] = "idle" /\ pc["finalizer"] = "idle" /\ Tox \notin finalized
        /\ core # "freed"
    BY FinalizerWaits DEF CloseAv
  <1>2. av[a] \notin {"none", "freed"}
    BY DEF CloseAv, LifeInv, Registered
  <1>3. /\ pc' \in [Runners -> Locations] /\ pc'["client"] = "avkill"
        /\ target' \in [Runners -> Avs \cup {NoAv}]
        /\ calls' \in [Runners -> {"none", "loop"}] /\ calls'["client"] = "none"
        /\ \A q \in Runners \ {"client"} : pc'[q] = "idle"
        /\ Targets' /\ Registered' /\ AvBeforeCore'
    <2>1. "client" \in Runners /\ \A q \in Runners \ {"client"} : pc[q] = "idle"
      BY <1>1 DEF Runners
    <2> QED
      BY <1>1, <1>2, <2>1, EnterAvCloseProperties DEF CloseAv
  <1>4. /\ callbacks' \in Seq(Avs \cup {NoAv}) /\ onClose' \in [Avs -> Nat]
        /\ modified' \in [Runners -> BOOLEAN] /\ IdsSound' /\ Pruned'
    BY RemoveProperties DEF CloseAv, EnterAvClose, LifeInv
  <1>5. LifeTypeOK'
    BY <1>3, <1>4 DEF CloseAv, nativeVars, LifeInv, LifeTypeOK
  <1>6. pc'["finalizer"] = "idle"
    BY <1>3 DEF Runners
  <1>7. OneActor' /\ CoreReclaimed'
    BY <1>1, <1>3, <1>6 DEF CloseAv, nativeVars, OneActor, CoreReclaimed
  <1>8. Looping'
    BY <1>3 DEF Looping, InLoop, Runners
  <1> QED
    BY <1>3, <1>4, <1>5, <1>7, <1>8 DEF LifeInv

\* toxavKill: the callback of the av is gone already.
LEMMA AvKillInductive ==
    ASSUME LifeInv, NEW r \in Runners, AvKill(r)
    PROVE  LifeInv'
  <1> DEFINE a == target[r]
  <1>1. /\ pc[r] = "avkill" /\ a \in Avs /\ av[a] # "none" /\ onClose[a] = Invalid
        /\ av[a] # "freed"
    BY DEF AvKill, LifeInv, Targets, Registered
  <1>2. \A q \in Runners \ {r} : pc[q] = "idle"
    BY <1>1, OthersIdle
  <1>3. /\ pc' \in [Runners -> Locations]
        /\ pc'[r] = (IF calls[r] = "loop" THEN "loop" ELSE "idle")
        /\ target' \in [Runners -> Avs \cup {NoAv}] /\ calls' \in [Runners -> {"none", "loop"}]
        /\ \A q \in Runners \ {r} : pc'[q] = "idle"
    BY <1>2 DEF AvKill, Goto, LifeInv, LifeTypeOK, Locations
  <1>4. /\ av' \in [Avs -> NativeStates] /\ av'[a] = AfterKill(av[a])
        /\ \A b \in Avs \ {a} : av'[b] = av[b]
        /\ av'[a] \notin {"none", "live", "freed"}
    BY <1>1 DEF AvKill, AfterKill, LifeInv, LifeTypeOK, NativeStates
  <1>5. UNCHANGED <<callbacks, onClose, held, finalized, core, cursor, limit, modified, failed, platform>>
    BY DEF AvKill, javaVars
  <1>6. LifeTypeOK'
    BY <1>3, <1>4, <1>5 DEF LifeInv, LifeTypeOK
  <1>7. OneActor' /\ CoreReclaimed'
    <2>1. CASE r = "client"
      BY <1>1, <1>2, <1>3, <1>5, <2>1 DEF LifeInv, OneActor, CoreReclaimed, Runners
    <2>2. CASE r = "finalizer"
      <3>1. calls[r] = "loop" /\ pc'[r] = "loop"
        BY <1>1, <1>3, <2>2 DEF LifeInv, OneActor
      <3>2. pc'["client"] = "idle" /\ Tox \in finalized
        BY <1>1, <1>3, <2>2 DEF LifeInv, OneActor, Runners
      <3> QED
        BY <1>1, <1>5, <2>2, <3>1, <3>2 DEF LifeInv, OneActor, CoreReclaimed
    <2> QED
      BY <2>1, <2>2 DEF Runners
  <1>8. \A q \in Runners : pc'[q] \notin {"avkill", "newav"}
    BY <1>3
  <1>9. Targets'
    BY <1>8 DEF Targets, Runners
  <1>10. Registered'
    <2> SUFFICES ASSUME NEW b \in Avs
                 PROVE  /\ av'[b] = "none" => b \notin held /\ onClose[b] = Invalid
                        /\ av'[b] = "live" => onClose[b] # Invalid
                        /\ av'[b] \in {"killed", "freed"} => onClose[b] = Invalid
                        /\ av'[b] = "freed" => b \notin held
      BY <1>5, <1>8 DEF Registered
    <2>1. CASE b = a
      BY <1>1, <1>4, <2>1
    <2>2. CASE b # a
      <3>1. pc["client"] # "newav" /\ \A q \in Runners : pc[q] = "avkill" => target[q] = a
        BY <1>1, <1>2 DEF Runners
      <3> QED
        BY <1>4, <2>2, <3>1 DEF LifeInv, Registered
    <2> QED
      BY <2>1, <2>2
  <1>11. IdsSound' /\ Pruned'
    BY <1>5 DEF LifeInv, IdsSound, Pruned
  <1>12. Looping'
    <2>1. \A q \in Runners : InLoop(q)' => InLoop(q)
      BY <1>1, <1>3 DEF InLoop
    <2> QED
      BY <1>5, <2>1 DEF LifeInv, Looping
  <1>13. AvBeforeCore'
    BY <1>4, <1>5 DEF LifeInv, AvBeforeCore
  <1> QED
    BY <1>6, <1>7, <1>9, <1>10, <1>11, <1>12, <1>13 DEF LifeInv

\* Event.invoke begins, in a thread that is alone.
LEMMA EnterToxCloseProperties ==
    ASSUME LifeInv, NEW r \in Runners, EnterToxClose(r), \A q \in Runners : pc[q] = "idle",
           UNCHANGED <<callbacks, onClose, held, nativeVars, target>>
    PROVE  /\ pc' \in [Runners -> Locations] /\ pc'[r] = "loop"
           /\ cursor' \in [Runners -> Nat] /\ limit' \in [Runners -> Nat]
           /\ modified' \in [Runners -> BOOLEAN]
           /\ \A q \in Runners \ {r} : pc'[q] = "idle"
           /\ Targets' /\ Registered' /\ IdsSound' /\ Pruned' /\ Looping' /\ AvBeforeCore'
  <1>1. PICK n \in Nat : n = Len(callbacks) /\ DOMAIN callbacks = 1 .. n
    BY LenProperties DEF LifeInv, LifeTypeOK
  <1>2. /\ pc' \in [Runners -> Locations] /\ pc'[r] = "loop"
        /\ \A q \in Runners \ {r} : pc'[q] = "idle"
        /\ cursor' \in [Runners -> Nat] /\ limit' \in [Runners -> Nat]
        /\ modified' \in [Runners -> BOOLEAN]
        /\ cursor'[r] = 0 /\ limit'[r] = n /\ modified'[r] = FALSE
    BY <1>1 DEF EnterToxClose, Goto, LifeInv, LifeTypeOK, Locations
  <1>3. \A q \in Runners : pc'[q] \notin {"avkill", "newav"}
    BY <1>2
  <1>4. Targets'
    BY <1>3 DEF Targets, Runners
  <1>5. Registered'
    <2>1. pc["client"] # "newav" /\ \A q \in Runners : pc[q] # "avkill"
      BY DEF Runners
    <2> QED
      BY <1>3, <2>1 DEF LifeInv, Registered, nativeVars
  <1>6. IdsSound' /\ Pruned' /\ AvBeforeCore'
    BY DEF LifeInv, IdsSound, Pruned, AvBeforeCore, nativeVars
  <1>7. Looping'
    <2> SUFFICES /\ 0 <= n /\ n <= n
                 /\ \A i \in 1 .. n : i <= 0 => callbacks[i] = NoAv
      BY <1>1, <1>2 DEF Looping, InLoop
    <2> QED
      BY <1>1
  <1> QED
    BY <1>2, <1>4, <1>5, <1>6, <1>7

\* The client closes Tox.
LEMMA CloseToxInductive == ASSUME LifeInv, CloseTox PROVE LifeInv'
  <1>1. /\ pc["client"] = "idle" /\ pc["finalizer"] = "idle" /\ Tox \notin finalized
        /\ core # "freed"
    BY FinalizerWaits DEF CloseTox
  <1>2. "client" \in Runners /\ \A q \in Runners : pc[q] = "idle"
    BY <1>1 DEF Runners
  <1>3. /\ pc' \in [Runners -> Locations] /\ pc'["client"] = "loop"
        /\ cursor' \in [Runners -> Nat] /\ limit' \in [Runners -> Nat]
        /\ modified' \in [Runners -> BOOLEAN]
        /\ \A q \in Runners \ {"client"} : pc'[q] = "idle"
        /\ Targets' /\ Registered' /\ IdsSound' /\ Pruned' /\ Looping' /\ AvBeforeCore'
    BY <1>2, EnterToxCloseProperties DEF CloseTox, javaVars
  <1>4. LifeTypeOK'
    BY <1>3 DEF CloseTox, javaVars, nativeVars, LifeInv, LifeTypeOK
  <1>5. pc'["finalizer"] = "idle"
    BY <1>3 DEF Runners
  <1>6. OneActor' /\ CoreReclaimed'
    BY <1>1, <1>3, <1>5 DEF CloseTox, javaVars, nativeVars, OneActor, CoreReclaimed
  <1> QED
    BY <1>3, <1>4, <1>6 DEF LifeInv

\* The finalizer of Tox starts: nobody else can reach it any more.
LEMMA FinalizeToxInductive == ASSUME LifeInv, FinalizeTox PROVE LifeInv'
  <1>1. /\ pc["client"] = "idle" /\ pc["finalizer"] = "idle" /\ held = {} /\ core # "none"
        /\ core # "freed" /\ finalized' = finalized \cup {Tox}
    BY DEF FinalizeTox, ToxUnreachable, LifeInv, OneActor
  <1>2. "finalizer" \in Runners /\ \A q \in Runners : pc[q] = "idle"
    BY <1>1 DEF Runners
  <1>3. /\ pc' \in [Runners -> Locations] /\ pc'["finalizer"] = "loop"
        /\ cursor' \in [Runners -> Nat] /\ limit' \in [Runners -> Nat]
        /\ modified' \in [Runners -> BOOLEAN]
        /\ \A q \in Runners \ {"finalizer"} : pc'[q] = "idle"
        /\ Targets' /\ Registered' /\ IdsSound' /\ Pruned' /\ Looping' /\ AvBeforeCore'
    BY <1>2, EnterToxCloseProperties DEF FinalizeTox
  <1>4. LifeTypeOK'
    BY <1>1, <1>3 DEF FinalizeTox, nativeVars, LifeInv, LifeTypeOK
  <1>5. pc'["client"] = "idle"
    BY <1>3 DEF Runners
  <1>6. OneActor' /\ CoreReclaimed'
    BY <1>1, <1>3, <1>5 DEF FinalizeTox, nativeVars, OneActor, CoreReclaimed
  <1> QED
    BY <1>3, <1>4, <1>6 DEF LifeInv

\* toxFinalize: the instance was killed before, or never made.
LEMMA ToxFinalizeInductive == ASSUME LifeInv, ToxFinalize PROVE LifeInv'
  <1>1. /\ pc["finalizer"] = "toxfinalize" /\ pc["client"] = "idle" /\ Tox \in finalized
        /\ held = {} /\ core \in {"killed", "null"}
    BY DEF ToxFinalize, LifeInv, OneActor
  <1>2. core' \in {"freed", "null"}
    BY <1>1 DEF ToxFinalize, AfterFinalize
  <1>3. /\ pc' \in [Runners -> Locations] /\ pc'["finalizer"] = "idle" /\ pc'["client"] = "idle"
    BY <1>1 DEF ToxFinalize, Goto, LifeInv, LifeTypeOK, Runners, Locations
  <1>4. UNCHANGED <<callbacks, onClose, held, finalized, av, target, calls, cursor, limit, modified,
                    failed, platform>>
    BY DEF ToxFinalize, javaVars
  <1>5. LifeTypeOK'
    BY <1>2, <1>3, <1>4 DEF LifeInv, LifeTypeOK, NativeStates
  <1>6. OneActor' /\ CoreReclaimed'
    BY <1>1, <1>2, <1>3, <1>4 DEF OneActor, CoreReclaimed
  <1>7. Targets'
    BY <1>3 DEF Targets, Runners
  <1>8. Registered'
    BY <1>1, <1>3, <1>4 DEF LifeInv, Registered, Runners
  <1>9. IdsSound' /\ Pruned'
    BY <1>4 DEF LifeInv, IdsSound, Pruned
  <1>10. Looping'
    BY <1>3 DEF Looping, InLoop, Runners
  <1>11. AvBeforeCore'
    BY <1>1, <1>4 DEF LifeInv, AvBeforeCore
  <1> QED
    BY <1>5, <1>6, <1>7, <1>8, <1>9, <1>10, <1>11 DEF LifeInv

\* The finalizer of an av: toxavFinalize frees the number of a killed one.
LEMMA FinalizeAvInductive ==
    ASSUME LifeInv, NEW a \in Avs, FinalizeAv(a)
    PROVE  LifeInv'
  <1>1. /\ av[a] # "none" /\ a \notin held /\ \A r \in Runners : target[r] # a
        /\ finalized' = finalized \cup {a} /\ Tox # a
    BY LifeAssumption DEF FinalizeAv, AvUnreachable
  <1>2. /\ av' \in [Avs -> NativeStates] /\ av'[a] = AfterFinalize(av[a])
        /\ \A b \in Avs \ {a} : av'[b] = av[b]
    BY DEF FinalizeAv, AfterFinalize, LifeInv, LifeTypeOK, NativeStates
  <1>3. UNCHANGED <<callbacks, onClose, held, core, pc, target, calls, cursor, limit, modified, platform>>
    BY DEF FinalizeAv, threadVars
  <1>4. failed \subseteq failed' /\ failed' \subseteq Avs \cup {Tox}
    BY DEF FinalizeAv, LifeInv, LifeTypeOK
  <1>5. LifeTypeOK'
    BY <1>1, <1>2, <1>3, <1>4 DEF LifeInv, LifeTypeOK
  <1>6. OneActor'
    BY <1>1, <1>3 DEF LifeInv, OneActor
  <1>7. CoreReclaimed'
    BY <1>1, <1>3, <1>4 DEF LifeInv, CoreReclaimed
  <1>8. \A b \in Avs :
            /\ av'[b] = "none" <=> av[b] = "none"
            /\ av'[b] = "live" <=> av[b] = "live"
            /\ av'[b] \in {"killed", "freed"} <=> av[b] \in {"killed", "freed"}
    BY <1>2 DEF AfterFinalize
  <1>9. Targets'
    BY <1>3, <1>8 DEF LifeInv, Targets
  <1>10. Registered'
    <2> SUFFICES ASSUME NEW b \in Avs, av'[b] = "freed"
                 PROVE  b \notin held /\ \A r \in Runners : pc[r] = "avkill" => target[r] # b
      BY <1>3, <1>8 DEF LifeInv, Registered
    <2> QED
      BY <1>1, <1>2 DEF LifeInv, Registered
  <1>11. IdsSound' /\ Pruned'
    BY <1>3 DEF LifeInv, IdsSound, Pruned
  <1>12. Looping'
    BY <1>3 DEF LifeInv, Looping, InLoop
  <1>13. AvBeforeCore'
    BY <1>3, <1>8 DEF LifeInv, AvBeforeCore
  <1> QED
    BY <1>5, <1>6, <1>7, <1>9, <1>10, <1>11, <1>12, <1>13 DEF LifeInv

\* The client forgets an object, or nothing happens.
LEMMA ForgetInductive ==
    ASSUME LifeInv, held' \subseteq held,
           UNCHANGED <<platform, callbacks, onClose, finalized, nativeVars, threadVars, failed>>
    PROVE  LifeInv'
  <1>1. LifeTypeOK'
    BY DEF nativeVars, threadVars, LifeInv, LifeTypeOK
  <1>2. OneActor' /\ Targets' /\ Registered'
    BY DEF nativeVars, threadVars, LifeInv, OneActor, Targets, Registered
  <1>3. IdsSound' /\ Pruned' /\ Looping'
    BY DEF threadVars, LifeInv, IdsSound, Pruned, Looping, InLoop
  <1>4. AvBeforeCore' /\ CoreReclaimed'
    BY DEF nativeVars, threadVars, LifeInv, AvBeforeCore, CoreReclaimed
  <1> QED
    BY <1>1, <1>2, <1>3, <1>4 DEF LifeInv

\* The iterator throws: only that of the JDK does.
LEMMA LoopThrowsInductive ==
    ASSUME LifeInv, NEW r \in Runners, LoopThrows(r)
    PROVE  LifeInv'
  <1>1. pc[r] = "loop" /\ platform = "jdk" /\ \A q \in Runners \ {r} : pc[q] = "idle"
    BY LoopGoesOn, OthersIdle DEF LoopThrows
  <1>2. /\ pc' \in [Runners -> Locations] /\ \A q \in Runners : pc'[q] = "idle"
    BY <1>1 DEF LoopThrows, Goto, LifeInv, LifeTypeOK, Locations
  <1>3. UNCHANGED <<callbacks, onClose, held, finalized, core, av, target, calls, cursor, limit,
                    modified, platform>>
    BY DEF LoopThrows, javaVars, nativeVars
  <1>4. /\ failed \subseteq failed' /\ failed' \subseteq Avs \cup {Tox}
        /\ r = "finalizer" => Tox \in failed'
    BY DEF LoopThrows, LifeInv, LifeTypeOK
  <1>5. LifeTypeOK'
    BY <1>2, <1>3, <1>4 DEF LifeInv, LifeTypeOK
  <1>6. OneActor'
    BY <1>1, <1>2, <1>3 DEF LifeInv, OneActor, Runners
  <1>7. CoreReclaimed'
    <2>1. CASE r = "finalizer"
      BY <1>1, <1>3, <1>4, <2>1 DEF CoreReclaimed
    <2>2. CASE r = "client"
      BY <1>1, <1>3, <2>2 DEF LifeInv, OneActor, CoreReclaimed
    <2> QED
      BY <2>1, <2>2 DEF Runners
  <1>8. Targets'
    BY <1>2 DEF Targets, Runners
  <1>9. Registered'
    <2>1. pc["client"] # "newav" /\ \A q \in Runners : pc[q] # "avkill"
      BY <1>1 DEF Runners
    <2>2. pc'["client"] # "newav" /\ \A q \in Runners : pc'[q] # "avkill"
      BY <1>2 DEF Runners
    <2> QED
      BY <1>3, <2>1, <2>2 DEF LifeInv, Registered
  <1>10. IdsSound' /\ Pruned' /\ AvBeforeCore'
    BY <1>3 DEF LifeInv, IdsSound, Pruned, AvBeforeCore
  <1>11. Looping'
    BY <1>2 DEF Looping, InLoop
  <1> QED
    BY <1>5, <1>6, <1>7, <1>8, <1>9, <1>10, <1>11 DEF LifeInv

\* Event.invoke calls the next callback.  The close of an av empties the slot behind
\* the cursor; if that shortens the list, it was the last slot and the list is empty.
LEMMA LoopCallsInductive ==
    ASSUME LifeInv, NEW r \in Runners, LoopCalls(r)
    PROVE  LifeInv'
  <1> DEFINE k == cursor[r] + 1
             a == callbacks[k]
  <1>1. pc[r] = "loop" /\ ~modified[r] /\ k \in DOMAIN callbacks
    BY LoopGoesOn DEF LoopCalls
  <1>2. \A q \in Runners \ {r} : pc[q] = "idle"
    BY <1>1, OthersIdle
  <1>3. PICK n \in Nat : n = Len(callbacks) /\ DOMAIN callbacks = 1 .. n
    BY LenProperties DEF LifeInv, LifeTypeOK
  <1>4. /\ cursor[r] \in Nat /\ limit[r] = n /\ k \in 1 .. n
        /\ \A i \in 1 .. n : i <= cursor[r] => callbacks[i] = NoAv
    BY <1>1, <1>3 DEF LifeInv, LifeTypeOK, Looping, InLoop
  <1>5. /\ cursor' \in [Runners -> Nat] /\ cursor'[r] = k
        /\ UNCHANGED <<platform, held, finalized, core, av, limit, failed>>
    BY <1>4 DEF LoopCalls, nativeVars, LifeInv, LifeTypeOK
  <1>6. CASE a = NoAv
    <2>1. UNCHANGED <<callbacks, onClose, modified, target, calls, pc>>
      BY <1>6 DEF LoopCalls
    <2>2. LifeTypeOK'
      BY <1>5, <2>1 DEF LifeInv, LifeTypeOK
    <2>3. OneActor' /\ Targets' /\ Registered'
      BY <1>5, <2>1 DEF LifeInv, OneActor, Targets, Registered
    <2>4. IdsSound' /\ Pruned' /\ AvBeforeCore' /\ CoreReclaimed'
      BY <1>5, <2>1 DEF LifeInv, IdsSound, Pruned, AvBeforeCore, CoreReclaimed
    <2>5. Looping'
      <3>1. \A i \in 1 .. n : i <= k => callbacks[i] = NoAv
        BY <1>4, <1>6
      <3>2. \A q \in Runners \ {r} : ~InLoop(q)'
        BY <1>2, <2>1 DEF InLoop
      <3> QED
        BY <1>1, <1>3, <1>4, <1>5, <2>1, <3>1, <3>2 DEF Looping
    <2> QED
      BY <2>2, <2>3, <2>4, <2>5 DEF LifeInv
  <1>7. CASE a # NoAv
    <2>1. EnterAvClose(r, a, "loop")
      BY <1>7 DEF LoopCalls
    <2>2. a \in Avs /\ onClose[a] = k /\ onClose[a] # Invalid
      BY <1>1, <1>7, SlotOfAv DEF LifeInv
    <2>3. av[a] \notin {"none", "freed"}
      <3>1. pc["client"] # "newav"
        BY <1>1, <1>2 DEF Runners
      <3> QED
        BY <2>2, <3>1 DEF LifeInv, Registered
    <2> HIDE DEF a
    <2>4. /\ pc' \in [Runners -> Locations] /\ pc'[r] = "avkill"
          /\ target' \in [Runners -> Avs \cup {NoAv}]
          /\ calls' \in [Runners -> {"none", "loop"}] /\ calls'[r] = "loop"
          /\ \A q \in Runners \ {r} : pc'[q] = "idle"
          /\ Targets' /\ Registered' /\ AvBeforeCore'
      BY <1>1, <1>2, <1>5, <2>1, <2>2, <2>3, EnterAvCloseProperties DEF nativeVars
    <2>5. /\ callbacks' \in Seq(Avs \cup {NoAv}) /\ onClose' \in [Avs -> Nat]
          /\ modified' \in [Runners -> BOOLEAN] /\ IdsSound' /\ Pruned'
          /\ Len(callbacks') <= n /\ onClose'[a] = Invalid
          /\ \A i \in DOMAIN callbacks' :
                 i \in DOMAIN callbacks /\ callbacks'[i] \in {callbacks[i], NoAv}
          /\ Len(callbacks') # n => k = n
          /\ modified'[r] = (modified[r] \/ Len(callbacks') # n)
      BY <1>3, <2>1, <2>2, RemoveProperties DEF EnterAvClose, LifeInv
    <2>6. LifeTypeOK'
      BY <1>5, <2>4, <2>5 DEF LifeInv, LifeTypeOK
    <2>7. OneActor' /\ CoreReclaimed'
      <3>1. CASE r = "client"
        BY <1>1, <1>2, <1>5, <2>4, <3>1 DEF LifeInv, OneActor, CoreReclaimed, Runners
      <3>2. CASE r = "finalizer"
        BY <1>1, <1>2, <1>5, <2>4, <3>2 DEF LifeInv, OneActor, CoreReclaimed, Runners
      <3> QED
        BY <3>1, <3>2 DEF Runners
    <2>8. Looping'
      <3>1. PICK m \in Nat : m = Len(callbacks') /\ DOMAIN callbacks' = 1 .. m
        BY <2>5, LenProperties
      <3>2. \A i \in 1 .. m : i <= k => callbacks'[i] = NoAv
        <4> SUFFICES ASSUME NEW i \in 1 .. m, i <= k
                     PROVE  callbacks'[i] = NoAv
          OBVIOUS
        <4>1. i \in 1 .. n /\ callbacks'[i] \in {callbacks[i], NoAv}
          BY <1>3, <2>5, <3>1
        <4>2. CASE i <= cursor[r]
          BY <1>4, <4>1, <4>2
        <4>3. CASE i = k
          <5>1. callbacks'[i] # a
            <6> SUFFICES ASSUME callbacks'[i] = a PROVE FALSE
              OBVIOUS
            <6>1. callbacks'[i] # NoAv /\ i \in DOMAIN callbacks'
              BY <2>2, <3>1, LifeAssumption
            <6>2. onClose'[a] = i
              BY <2>5, <6>1 DEF IdsSound
            <6> QED
              BY <2>5, <6>2 DEF Invalid
          <5> QED
            BY <4>1, <4>3, <5>1 DEF a
        <4> QED
          BY <1>4, <4>2, <4>3
      <3>3. m # n => callbacks' = <<>> /\ k = n
        <4> SUFFICES ASSUME m # n
                     PROVE  callbacks' = <<>> /\ k = n
          OBVIOUS
        <4>1. k = n /\ m <= n
          BY <2>5, <3>1
        <4>2. callbacks' # <<>> => m \in 1 .. m /\ callbacks'[m] # NoAv
          BY <2>5, <3>1, PopSeq DEF Pruned
        <4> QED
          BY <3>2, <4>1, <4>2
      <3>4. \A q \in Runners \ {r} : ~InLoop(q)'
        BY <2>4 DEF InLoop
      <3>5. /\ k <= n /\ m <= n
            /\ \A i \in DOMAIN callbacks' : i <= k => callbacks'[i] = NoAv
            /\ modified'[r] => callbacks' = <<>> /\ k = n
            /\ ~modified'[r] => m = n
        BY <1>1, <1>4, <2>5, <3>1, <3>2, <3>3
      <3> QED
        BY <1>4, <1>5, <3>1, <3>4, <3>5 DEF Looping
    <2> QED
      BY <2>4, <2>5, <2>6, <2>7, <2>8 DEF LifeInv
  <1> QED
    BY <1>6, <1>7

\* In a loop that has come to its end there is no av left to close.
LEMMA AllClosed ==
    ASSUME LifeInv, NEW r \in Runners, pc[r] = "loop", callbacks = <<>>
    PROVE  \A a \in Avs : av[a] # "live"
  <1> SUFFICES ASSUME NEW a \in Avs, av[a] = "live" PROVE FALSE
    OBVIOUS
  <1>1. \A q \in Runners : pc[q] # "avkill"
    BY OthersIdle
  <1>2. onClose[a] # Invalid
    BY <1>1 DEF LifeInv, Registered
  <1> QED
    BY <1>2 DEF LifeInv, IdsSound

\* toxKill.
LEMMA ToxKillInductive ==
    ASSUME LifeInv, NEW r \in Runners, ToxKill(r)
    PROVE  LifeInv'
  <1>1. pc[r] = "loop" /\ callbacks = <<>> /\ \A q \in Runners \ {r} : pc[q] = "idle"
    BY LoopGoesOn, OthersIdle DEF ToxKill
  <1>2. \A a \in Avs : av[a] # "live"
    BY <1>1, AllClosed
  <1>3. /\ pc' \in [Runners -> Locations]
        /\ pc'[r] = (IF r = "finalizer" THEN "toxfinalize" ELSE "idle")
        /\ \A q \in Runners \ {r} : pc'[q] = "idle"
    BY <1>1 DEF ToxKill, Goto, LifeInv, LifeTypeOK, Locations
  <1>4. UNCHANGED <<callbacks, onClose, held, finalized, av, target, calls, cursor, limit, modified,
                    failed, platform>>
    BY DEF ToxKill, javaVars
  <1>5. core' \in NativeStates /\ core' = AfterKill(core) /\ core # "freed"
    BY <1>1 DEF ToxKill, AfterKill, LifeInv, LifeTypeOK, NativeStates, OneActor, Runners
  <1>6. LifeTypeOK'
    BY <1>3, <1>4, <1>5 DEF LifeInv, LifeTypeOK
  <1>7. OneActor' /\ CoreReclaimed'
    <2>1. CASE r = "client"
      <3>1. Tox \notin finalized /\ pc'["finalizer"] = "idle" /\ pc'["client"] = "idle"
        BY <1>1, <1>3, <2>1 DEF LifeInv, OneActor, Runners
      <3>2. core' # "freed"
        BY <1>5 DEF AfterKill
      <3> QED
        BY <1>4, <3>1, <3>2 DEF OneActor, CoreReclaimed
    <2>2. CASE r = "finalizer"
      <3>1. /\ Tox \in finalized /\ held = {} /\ core # "none" /\ pc'["client"] = "idle"
            /\ pc'["finalizer"] = "toxfinalize"
        BY <1>1, <1>3, <2>2 DEF LifeInv, OneActor, Runners
      <3>2. core' \in {"killed", "null"}
        BY <1>5, <3>1 DEF AfterKill, LifeInv, LifeTypeOK, NativeStates
      <3> QED
        BY <1>4, <3>1, <3>2 DEF OneActor, CoreReclaimed
    <2> QED
      BY <2>1, <2>2 DEF Runners
  <1>8. Targets'
    BY <1>3 DEF Targets, Runners
  <1>9. Registered'
    <2>1. pc["client"] # "newav" /\ \A q \in Runners : pc[q] # "avkill"
      BY <1>1 DEF Runners
    <2>2. pc'["client"] # "newav" /\ \A q \in Runners : pc'[q] # "avkill"
      BY <1>3 DEF Runners
    <2> QED
      BY <1>4, <2>1, <2>2 DEF LifeInv, Registered
  <1>10. IdsSound' /\ Pruned'
    BY <1>4 DEF LifeInv, IdsSound, Pruned
  <1>11. Looping'
    BY <1>3 DEF Looping, InLoop
  <1>12. AvBeforeCore'
    BY <1>2, <1>4 DEF AvBeforeCore
  <1> QED
    BY <1>6, <1>7, <1>8, <1>9, <1>10, <1>11, <1>12 DEF LifeInv

LEMMA LifeNextInductive == LifeInv /\ [LifeNext]_lifeVars => LifeInv'
  <1> SUFFICES ASSUME LifeInv, [LifeNext]_lifeVars PROVE LifeInv'
    OBVIOUS
  <1>1. CASE UNCHANGED lifeVars
    BY <1>1, ForgetInductive DEF lifeVars, javaVars
  <1>2. CASE NewTox \/ NewAvReturns \/ CloseTox \/ FinalizeTox \/ ToxFinalize
    BY <1>2, NewToxInductive, NewAvReturnsInductive, CloseToxInductive, FinalizeToxInductive,
       ToxFinalizeInductive
  <1>3. CASE \E a \in Avs : NewAv(a) \/ CloseAv(a) \/ FinalizeAv(a)
    BY <1>3, NewAvInductive, CloseAvInductive, FinalizeAvInductive
  <1>4. CASE \E o \in Avs \cup {Tox} : Drop(o)
    <2>1. PICK o \in Avs \cup {Tox} : Drop(o)
      BY <1>4
    <2>2. held' \subseteq held
      BY <2>1 DEF Drop
    <2> QED
      BY <2>1, <2>2, ForgetInductive DEF Drop
  <1>5. CASE \E r \in Runners : AvKill(r) \/ LoopThrows(r) \/ LoopCalls(r) \/ ToxKill(r)
    BY <1>5, AvKillInductive, LoopThrowsInductive, LoopCallsInductive, ToxKillInductive
  <1> QED
    BY <1>1, <1>2, <1>3, <1>4, <1>5 DEF LifeNext

-----------------------------------------------------------------------------
(* The theorems *)

\* LifeInv holds in every state of every behaviour of the classes.
THEOREM LifeInductive == LifeSpec => []LifeInv
  BY LifeInitInductive, LifeNextInductive, PTL DEF LifeSpec

\* The fields of the two classes, their native instances and the iterators keep
\* their types.
THEOREM LifeTypeCorrect == LifeSpec => []LifeTypeOK
  <1>1. LifeInv => LifeTypeOK
    BY DEF LifeInv
  <1> QED
    BY <1>1, LifeInductive, PTL

\* Event.remove takes away the handler it was asked to and no other, however adding,
\* removing and pruning alternate.
THEOREM IdsCorrect == LifeSpec => []IdsSound
  <1>1. LifeInv => IdsSound
    BY DEF LifeInv
  <1> QED
    BY <1>1, LifeInductive, PTL

\* toxKill comes after the toxavKill of every av.
THEOREM AvBeforeCoreCorrect == LifeSpec => []AvBeforeCore
  <1>1. LifeInv => AvBeforeCore
    BY DEF LifeInv
  <1> QED
    BY <1>1, LifeInductive, PTL

\* Nobody holds, is closing or can reach an object whose number is free.
THEOREM NoStaleNumberCorrect == LifeSpec => []NoStaleNumber
  <1>1. LifeInv => NoStaleNumber
    <2> SUFFICES ASSUME LifeInv PROVE NoStaleNumber
      OBVIOUS
    <2>1. ASSUME NEW a \in Avs, av[a] = "freed"
          PROVE  /\ a \notin held /\ a \notin Range(callbacks)
                 /\ \A r \in Runners : pc[r] = "avkill" => target[r] # a
      <3>1. a \notin held /\ onClose[a] = Invalid
            /\ \A r \in Runners : pc[r] = "avkill" => target[r] # a
        BY <2>1 DEF LifeInv, Registered
      <3>2. \A i \in DOMAIN callbacks : callbacks[i] # a
        BY <3>1, SlotOfAv, LifeAssumption DEF LifeInv
      <3> QED
        BY <3>1, <3>2 DEF Range
    <2>2. core = "freed" => held = {} /\ \A r \in Runners : pc[r] = "idle"
      BY DEF LifeInv, OneActor, Runners
    <2> QED
      BY <2>1, <2>2 DEF NoStaleNumber
  <1> QED
    BY <1>1, LifeInductive, PTL

\* The list of callbacks changes its size under an iterator only when every av is
\* closed: no exception of the iterator skips a callback.
THEOREM ShrinksAtEndCorrect == LifeSpec => []ShrinksAtEnd
  <1>1. LifeInv => ShrinksAtEnd
    <2> SUFFICES ASSUME LifeInv, NEW r \in Runners, pc[r] = "loop", modified[r]
                 PROVE  callbacks = <<>> /\ \A a \in Avs : av[a] # "live"
      BY DEF ShrinksAtEnd
    <2>1. callbacks = <<>>
      BY DEF LifeInv, Looping, InLoop
    <2> QED
      BY <2>1, AllClosed
  <1> QED
    BY <1>1, LifeInductive, PTL

\* A finalizer of ToxCoreImpl that is done has given the native instance back, unless
\* the iterator of the JDK threw.
THEOREM CoreReclaimedCorrect == LifeSpec => []CoreReclaimed
  <1>1. LifeInv => CoreReclaimed
    BY DEF LifeInv
  <1> QED
    BY <1>1, LifeInductive, PTL

-----------------------------------------------------------------------------
(* What the finalizer catches *)

\* next() finds a change of the list only where the iterator compares its cursor with
\* the current size: Android's stops at the size it has remembered.
LEMMA ThrowsOnJdk ==
    ASSUME LifeInv, NEW r \in Runners, LoopThrows(r)
    PROVE  platform = "jdk"
  <1>1. pc[r] = "loop" /\ HasNext(r) /\ modified[r]
    BY DEF LoopThrows
  <1>2. cursor[r] = limit[r] /\ limit[r] \in Nat
    BY <1>1 DEF LifeInv, Looping, InLoop, LifeTypeOK
  <1>3. ~(cursor[r] < limit[r])
    BY <1>2
  <1> QED
    BY <1>1, <1>3 DEF HasNext

\* On Android the finalizer of ToxCoreImpl never catches an exception of the loop
\* over the close callbacks: what it logs as "a serious problem in native code" is
\* one.  On the JDK the closing avs can cause it.
THEOREM QuietOnAndroid == LifeSpec => [](ToxFinalizerQuiet \/ platform = "jdk")
  <1> DEFINE Quiet == ToxFinalizerQuiet \/ platform = "jdk"
  <1>1. LifeInit => Quiet
    BY DEF LifeInit, ToxFinalizerQuiet
  <1>2. LifeInv /\ Quiet /\ [LifeNext]_lifeVars => Quiet'
    <2> SUFFICES ASSUME LifeInv, Quiet, [LifeNext]_lifeVars PROVE Quiet'
      OBVIOUS
    <2>1. platform' = platform
      BY DEF LifeNext, lifeVars, NewTox, NewAvReturns, CloseTox, FinalizeTox, ToxFinalize, NewAv,
             CloseAv, FinalizeAv, Drop, AvKill, LoopThrows, LoopCalls, ToxKill
    <2>2. CASE \E r \in Runners : LoopThrows(r)
      BY <2>1, <2>2, ThrowsOnJdk
    <2>3. CASE \E a \in Avs : FinalizeAv(a)
      BY <2>1, <2>3, LifeAssumption DEF FinalizeAv, ToxFinalizerQuiet
    <2>4. CASE failed' = failed
      BY <2>1, <2>4 DEF ToxFinalizerQuiet
    <2> QED
      BY <2>2, <2>3, <2>4
      DEF LifeNext, lifeVars, NewTox, NewAvReturns, CloseTox, FinalizeTox, ToxFinalize, NewAv,
          CloseAv, Drop, AvKill, LoopCalls, ToxKill
  <1> HIDE DEF Quiet
  <1>3. LifeSpec => []Quiet
    BY <1>1, <1>2, LifeInductive, PTL DEF LifeSpec
  <1> QED
    BY <1>3, PTL DEF Quiet

-----------------------------------------------------------------------------
(* The lifetimes *)

\* Constructors.
LEMMA MakeRefines ==
    ASSUME LifeInv, NewTox \/ NewAvReturns
    PROVE  Lifetimes!Next
  <1>1. CASE NewTox
    BY <1>1 DEF NewTox, Lifetimes!Next, Lifetimes!MakeCore
  <1>2. CASE NewAvReturns
    <2> DEFINE a == target["client"]
    <2>1. a \in Avs /\ av[a] = "none"
      BY <1>2 DEF NewAvReturns, LifeInv, Targets
    <2>2. Lifetimes!MakeAv(a)
      BY <1>2, <2>1 DEF NewAvReturns, Lifetimes!MakeAv
    <2> QED
      BY <2>1, <2>2 DEF Lifetimes!Next
  <1> QED
    BY <1>1, <1>2

\* toxavKill, on a live av or without effect.
LEMMA AvKillRefines ==
    ASSUME LifeInv, NEW r \in Runners, AvKill(r)
    PROVE  Lifetimes!Next \/ UNCHANGED Lifetimes!lifetimes
  <1> DEFINE a == target[r]
  <1>1. a \in Avs /\ av \in [Avs -> NativeStates]
    BY DEF AvKill, LifeInv, Targets, LifeTypeOK
  <1>2. core' = core /\ av' = [av EXCEPT ![a] = AfterKill(av[a])]
    BY <1>1 DEF AvKill
  <1>3. CASE av[a] = "live"
    <2>1. core = "live"
      BY <1>1, <1>3 DEF LifeInv, AvBeforeCore
    <2>2. Lifetimes!KillAv(a)
      BY <1>2, <1>3, <2>1 DEF AfterKill, Lifetimes!KillAv
    <2> QED
      BY <1>1, <2>2 DEF Lifetimes!Next
  <1>4. CASE av[a] # "live"
    BY <1>1, <1>2, <1>4 DEF AfterKill, Lifetimes!lifetimes
  <1> QED
    BY <1>3, <1>4

\* toxKill, after the callbacks.
LEMMA ToxKillRefines ==
    ASSUME LifeInv, NEW r \in Runners, ToxKill(r)
    PROVE  Lifetimes!Next \/ UNCHANGED Lifetimes!lifetimes
  <1>1. pc[r] = "loop" /\ callbacks = <<>>
    BY LoopGoesOn DEF ToxKill
  <1>2. \A a \in Avs : av[a] # "live"
    BY <1>1, AllClosed
  <1>3. core' = AfterKill(core) /\ av' = av
    BY DEF ToxKill
  <1> QED
    BY <1>2, <1>3 DEF AfterKill, Lifetimes!Next, Lifetimes!KillCore, Lifetimes!lifetimes

\* The finalizers free what was killed.
LEMMA FinalizeRefines ==
    ASSUME LifeInv, ToxFinalize \/ \E a \in Avs : FinalizeAv(a)
    PROVE  Lifetimes!Next \/ UNCHANGED Lifetimes!lifetimes
  <1>1. CASE ToxFinalize
    BY <1>1 DEF ToxFinalize, AfterFinalize, Lifetimes!Next, Lifetimes!FreeCore, Lifetimes!lifetimes
  <1>2. ASSUME NEW a \in Avs, FinalizeAv(a)
        PROVE  Lifetimes!Next \/ UNCHANGED Lifetimes!lifetimes
    <2>1. core' = core /\ av' = [av EXCEPT ![a] = AfterFinalize(av[a])]
      BY <1>2 DEF FinalizeAv
    <2>2. av \in [Avs -> NativeStates]
      BY DEF LifeInv, LifeTypeOK
    <2>3. CASE av[a] = "killed"
      <3>1. Lifetimes!FreeAv(a)
        BY <2>1, <2>3 DEF AfterFinalize, Lifetimes!FreeAv
      <3> QED
        BY <3>1 DEF Lifetimes!Next
    <2>4. CASE av[a] # "killed"
      BY <2>1, <2>2, <2>4 DEF AfterFinalize, Lifetimes!lifetimes
    <2> QED
      BY <2>3, <2>4
  <1> QED
    BY <1>1, <1>2

\* ToxCoreImpl and ToxAvImpl call the native functions in the order NativeLifetimes
\* allows, for any number of avs and whatever is closed, dropped or left to the
\* finalizers: an av is made on a live Tox and killed before it, and an instance is
\* freed after it was killed.
THEOREM LifeImplementsLifetimes == LifeSpec => RefinesLifetimes
  <1>1. LifeInit => Lifetimes!Init
    BY DEF LifeInit, Lifetimes!Init
  <1>2. LifeInv /\ [LifeNext]_lifeVars => [Lifetimes!Next]_(Lifetimes!lifetimes)
    <2> SUFFICES ASSUME LifeInv, [LifeNext]_lifeVars
                 PROVE  Lifetimes!Next \/ UNCHANGED Lifetimes!lifetimes
      OBVIOUS
    <2>1. CASE UNCHANGED nativeVars
      BY <2>1 DEF nativeVars, Lifetimes!lifetimes
    <2>2. CASE NewTox \/ NewAvReturns
      BY <2>2, MakeRefines
    <2>3. CASE ToxFinalize \/ \E a \in Avs : FinalizeAv(a)
      BY <2>3, FinalizeRefines
    <2>4. CASE \E r \in Runners : AvKill(r) \/ ToxKill(r)
      BY <2>4, AvKillRefines, ToxKillRefines
    <2> QED
      BY <2>1, <2>2, <2>3, <2>4
      DEF LifeNext, lifeVars, CloseTox, FinalizeTox, NewAv, CloseAv, Drop, LoopThrows, LoopCalls
  <1> QED
    BY <1>1, <1>2, LifeInductive, PTL DEF LifeSpec, RefinesLifetimes, Lifetimes!Spec

=============================================================================
