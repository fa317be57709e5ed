------------------------ MODULE InstanceManagerProofs -----------------------
(***************************************************************************)
(* The safety properties of the instance manager, and that it implements   *)
(* the registry, for every set of threads, objects and instance numbers.   *)
(*                                                                         *)
(* InductiveInv is the conjunction of the properties and of LocalSound,    *)
(* which says what a thread's local variables hold at each location.  One  *)
(* lemma per action shows that the action preserves it, one step per       *)
(* conjunct; most steps need the mutual exclusion in LockSound to know     *)
(* that no other thread is at a location where it could interfere.         *)
(***************************************************************************)
EXTENDS InstanceManager, ProofLemmas

\* The empty manager satisfies the invariant.
LEMMA InitInductive == Init => InductiveInv
  BY ConstantsAssumption, EmptySeq
  DEF Init, InductiveInv, TypeOK, LockSound, FreelistSound, FuncSafe, OneOwner, AliveOwned, SlotOwns, CarrierOwns, LocalSound,
      InCriticalSection, HoldsInstance, Carries, Locations, Operations, Exceptions

\* Ownership is untouched by a step that moves no object and changes no
\* thread's claim on one.
LEMMA OneOwnerFrame ==
    ASSUME OneOwner, UNCHANGED <<instances, alive>>,
           \A u \in Threads : Carries(u)' <=> Carries(u),
           \A u \in Threads : Carries(u) => obj'[u] = obj[u]
    PROVE  OneOwner'
  <1>1. AliveOwned'
    BY DEF OneOwner, AliveOwned
  <1>2. SlotOwns'
    BY DEF OneOwner, SlotOwns
  <1>3. CarrierOwns'
    BY DEF OneOwner, CarrierOwns
  <1> QED
    BY <1>1, <1>2, <1>3 DEF OneOwner

\* A call of kill, finalize or with_instance begins.
LEMMA CallInductive ==
    ASSUME InductiveInv, NEW t \in Threads, NEW operation \in Operations \ {"add"},
           NEW n \in Numbers, Call(t, operation, n)
    PROVE  InductiveInv'
  <1>1. TypeOK'
    BY ConstantsAssumption
    DEF InductiveInv, Call, Enter, managerVars, objectVars, TypeOK, Locations, Operations,
        Exceptions
  <1>2. LockSound'
    BY ConstantsAssumption
    DEF InductiveInv, Call, Enter, managerVars, objectVars, TypeOK, LockSound,
        InCriticalSection, HoldsInstance
  <1>3. FreelistSound'
    BY DEF InductiveInv, Call, Enter, managerVars, objectVars, TypeOK, FreelistSound
  <1>4. FuncSafe'
    BY ConstantsAssumption
    DEF InductiveInv, Call, Enter, managerVars, objectVars, TypeOK, LockSound, FuncSafe,
        OneOwner, SlotOwns, CarrierOwns, Carries, LocalSound, InCriticalSection, HoldsInstance
  <1>5. OneOwner'
    <2>1. /\ UNCHANGED <<instances, alive>>
          /\ \A u \in Threads : Carries(u)' <=> Carries(u)
          /\ \A u \in Threads : Carries(u) => obj'[u] = obj[u]
      BY ConstantsAssumption
      DEF InductiveInv, Call, Enter, managerVars, objectVars, TypeOK, LocalSound, Carries
    <2> QED
      BY <2>1, OneOwnerFrame DEF InductiveInv
  <1>6. LocalSound'
    BY ConstantsAssumption
    DEF InductiveInv, Call, Enter, managerVars, objectVars, TypeOK, LockSound, LocalSound,
        CheckInstanceNumber, InCriticalSection, HoldsInstance
  <1> QED
    BY <1>1, <1>2, <1>3, <1>4, <1>5, <1>6 DEF InductiveInv

\* toxNew hands a new object to add.
LEMMA CallAddInductive ==
    ASSUME InductiveInv, NEW t \in Threads, NEW o \in Objects, CallAdd(t, o)
    PROVE  InductiveInv'
  <1>1. TypeOK'
    BY ConstantsAssumption
    DEF InductiveInv, CallAdd, Enter, managerVars, objectVars, TypeOK, Locations, Operations,
        Exceptions
  <1>2. LockSound'
    BY ConstantsAssumption
    DEF InductiveInv, CallAdd, Enter, managerVars, objectVars, TypeOK, LockSound,
        InCriticalSection, HoldsInstance
  <1>3. FreelistSound'
    BY DEF InductiveInv, CallAdd, Enter, managerVars, objectVars, TypeOK, FreelistSound
  <1>4. FuncSafe'
    BY ConstantsAssumption
    DEF InductiveInv, CallAdd, Enter, managerVars, objectVars, TypeOK, LockSound, FuncSafe,
        OneOwner, SlotOwns, CarrierOwns, Carries, LocalSound, InCriticalSection, HoldsInstance
  <1>5. OneOwner'
    <2>1. AliveOwned'
      <3> SUFFICES ASSUME NEW p \in alive'
                   PROVE  \/ \E n \in DOMAIN instances' : instances'[n] = p
                          \/ \E u \in Threads : Carries(u)' /\ obj'[u] = p
        BY DEF AliveOwned
      <3>1. CASE p = o
        <4> Carries(t)' /\ obj'[t] = p
          BY <3>1, ConstantsAssumption DEF CallAdd, Enter, Carries, InductiveInv, TypeOK
        <4> QED
          OBVIOUS
      <3>2. CASE p # o
        <4>1. p \in alive
          BY <3>2 DEF CallAdd
        <4>2. \A u \in Threads : Carries(u) => Carries(u)' /\ obj'[u] = obj[u]
          BY DEF CallAdd, Enter, Carries, InductiveInv, TypeOK, LocalSound
        <4> QED
          BY <4>1, <4>2 DEF CallAdd, managerVars, InductiveInv, OneOwner, AliveOwned
      <3> QED
        BY <3>1, <3>2
    <2>2. SlotOwns'
      BY ConstantsAssumption
      DEF InductiveInv, CallAdd, Enter, managerVars, objectVars, TypeOK, LocalSound, Carries,
          OneOwner, AliveOwned, SlotOwns, CarrierOwns, FuncSafe
    <2>3. CarrierOwns'
      BY ConstantsAssumption
      DEF InductiveInv, CallAdd, Enter, managerVars, objectVars, TypeOK, LocalSound, Carries,
          OneOwner, AliveOwned, SlotOwns, CarrierOwns, FuncSafe
    <2> QED
      BY <2>1, <2>2, <2>3 DEF OneOwner
  <1>6. LocalSound'
    BY ConstantsAssumption
    DEF InductiveInv, CallAdd, Enter, managerVars, objectVars, TypeOK, LockSound, LocalSound,
        CheckInstanceNumber, InCriticalSection, HoldsInstance
  <1> QED
    BY <1>1, <1>2, <1>3, <1>4, <1>5, <1>6 DEF InductiveInv

\* A thread locks the manager.
LEMMA LockManagerInductive ==
    ASSUME InductiveInv, NEW t \in Threads, LockManager(t)
    PROVE  InductiveInv'
  <1>1. TypeOK'
    BY ConstantsAssumption
    DEF InductiveInv, LockManager, objectVars, TypeOK, Locations, Operations, Exceptions
  <1>2. LockSound'
    BY ConstantsAssumption
    DEF InductiveInv, LockManager, objectVars, TypeOK, LockSound, InCriticalSection,
        HoldsInstance
  <1>3. FreelistSound'
    BY DEF InductiveInv, LockManager, objectVars, TypeOK, FreelistSound
  <1>4. FuncSafe'
    BY ConstantsAssumption
    DEF InductiveInv, LockManager, objectVars, TypeOK, LockSound, FuncSafe, OneOwner,
        SlotOwns, CarrierOwns, Carries, LocalSound, InCriticalSection, HoldsInstance
  <1>5. OneOwner'
    <2>1. /\ UNCHANGED <<instances, alive>>
          /\ \A u \in Threads : Carries(u)' <=> Carries(u)
          /\ \A u \in Threads : Carries(u) => obj'[u] = obj[u]
      BY ConstantsAssumption
      DEF InductiveInv, LockManager, objectVars, TypeOK, LocalSound, Carries
    <2> QED
      BY <2>1, OneOwnerFrame DEF InductiveInv
  <1>6. LocalSound'
    BY ConstantsAssumption
    DEF InductiveInv, LockManager, objectVars, TypeOK, LockSound, LocalSound,
        CheckInstanceNumber, InCriticalSection, HoldsInstance
  <1> QED
    BY <1>1, <1>2, <1>3, <1>4, <1>5, <1>6 DEF InductiveInv

\* check_instance_number fails and the call returns.
LEMMA RejectedInductive ==
    ASSUME InductiveInv, NEW t \in Threads, Rejected(t)
    PROVE  InductiveInv'
  <1>1. TypeOK'
    BY ConstantsAssumption
    DEF InductiveInv, Rejected, Leave, CheckException, objectVars, TypeOK, Locations,
        Operations, Exceptions
  <1>2. LockSound'
    BY ConstantsAssumption
    DEF InductiveInv, Rejected, Leave, CheckException, objectVars, TypeOK, LockSound,
        InCriticalSection, HoldsInstance
  <1>3. FreelistSound'
    BY DEF InductiveInv, Rejected, Leave, CheckException, objectVars, TypeOK, FreelistSound
  <1>4. FuncSafe'
    BY ConstantsAssumption
    DEF InductiveInv, Rejected, Leave, CheckException, objectVars, TypeOK, LockSound,
        FuncSafe, OneOwner, SlotOwns, CarrierOwns, Carries, LocalSound, InCriticalSection,
        HoldsInstance
  <1>5. OneOwner'
    <2>1. /\ UNCHANGED <<instances, alive>>
          /\ \A u \in Threads : Carries(u)' <=> Carries(u)
          /\ \A u \in Threads : Carries(u) => obj'[u] = obj[u]
      BY ConstantsAssumption
      DEF InductiveInv, Rejected, Leave, CheckException, objectVars, TypeOK, LocalSound,
          Carries
    <2> QED
      BY <2>1, OneOwnerFrame DEF InductiveInv
  <1>6. LocalSound'
    BY ConstantsAssumption
    DEF InductiveInv, Rejected, Leave, CheckException, objectVars, TypeOK, LockSound,
        LocalSound, CheckInstanceNumber, InCriticalSection, HoldsInstance
  <1> QED
    BY <1>1, <1>2, <1>3, <1>4, <1>5, <1>6 DEF InductiveInv

\* check_instance_number succeeds.
LEMMA AcceptedInductive ==
    ASSUME InductiveInv, NEW t \in Threads, Accepted(t)
    PROVE  InductiveInv'
  <1>1. TypeOK'
    BY ConstantsAssumption
    DEF InductiveInv, Accepted, managerVars, objectVars, TypeOK, Locations, Operations,
        Exceptions
  <1>2. LockSound'
    BY ConstantsAssumption
    DEF InductiveInv, Accepted, managerVars, objectVars, TypeOK, LockSound, InCriticalSection,
        HoldsInstance
  <1>3. FreelistSound'
    BY DEF InductiveInv, Accepted, managerVars, objectVars, TypeOK, FreelistSound
  <1>4. FuncSafe'
    BY ConstantsAssumption
    DEF InductiveInv, Accepted, managerVars, objectVars, TypeOK, LockSound, FuncSafe,
        OneOwner, SlotOwns, CarrierOwns, Carries, LocalSound, InCriticalSection, HoldsInstance
  <1>5. OneOwner'
    <2>1. /\ UNCHANGED <<instances, alive>>
          /\ \A u \in Threads : Carries(u)' <=> Carries(u)
          /\ \A u \in Threads : Carries(u) => obj'[u] = obj[u]
      BY ConstantsAssumption
      DEF InductiveInv, Accepted, managerVars, objectVars, TypeOK, LocalSound, Carries
    <2> QED
      BY <2>1, OneOwnerFrame DEF InductiveInv
  <1>6. LocalSound'
    BY ConstantsAssumption
    DEF InductiveInv, Accepted, managerVars, objectVars, TypeOK, LockSound, LocalSound,
        CheckInstanceNumber, InCriticalSection, HoldsInstance
  <1> QED
    BY <1>1, <1>2, <1>3, <1>4, <1>5, <1>6 DEF InductiveInv

\* finalize finds an instance that was not killed.
LEMMA FinalizeLeakedInductive ==
    ASSUME InductiveInv, NEW t \in Threads, FinalizeLeaked(t)
    PROVE  InductiveInv'
  <1>1. TypeOK'
    BY ConstantsAssumption
    DEF InductiveInv, FinalizeLeaked, Leave, objectVars, TypeOK, Locations, Operations,
        Exceptions
  <1>2. LockSound'
    BY ConstantsAssumption
    DEF InductiveInv, FinalizeLeaked, Leave, objectVars, TypeOK, LockSound, InCriticalSection,
        HoldsInstance
  <1>3. FreelistSound'
    BY DEF InductiveInv, FinalizeLeaked, Leave, objectVars, TypeOK, FreelistSound
  <1>4. FuncSafe'
    BY ConstantsAssumption
    DEF InductiveInv, FinalizeLeaked, Leave, objectVars, TypeOK, LockSound, FuncSafe,
        OneOwner, SlotOwns, CarrierOwns, Carries, LocalSound, InCriticalSection, HoldsInstance
  <1>5. OneOwner'
    <2>1. /\ UNCHANGED <<instances, alive>>
          /\ \A u \in Threads : Carries(u)' <=> Carries(u)
          /\ \A u \in Threads : Carries(u) => obj'[u] = obj[u]
      BY ConstantsAssumption
      DEF InductiveInv, FinalizeLeaked, Leave, objectVars, TypeOK, LocalSound, Carries
    <2> QED
      BY <2>1, OneOwnerFrame DEF InductiveInv
  <1>6. LocalSound'
    BY ConstantsAssumption
    DEF InductiveInv, FinalizeLeaked, Leave, objectVars, TypeOK, LockSound, LocalSound,
        CheckInstanceNumber, InCriticalSection, HoldsInstance
  <1> QED
    BY <1>1, <1>2, <1>3, <1>4, <1>5, <1>6 DEF InductiveInv

\* add takes the last number off the freelist.  That number's slot is empty and
\* no other entry of the freelist is the same number.
LEMMA AddReuseInductive ==
    ASSUME InductiveInv, NEW t \in Threads, AddReuse(t)
    PROVE  InductiveInv'
  <1> DEFINE k == freelist[Len(freelist)]
  <1>a. /\ freelist' \in Seq(Int)
        /\ Len(freelist) \in DOMAIN freelist
        /\ DOMAIN freelist' = DOMAIN freelist \ {Len(freelist)}
        /\ \A m \in DOMAIN freelist \ {Len(freelist)} : freelist'[m] = freelist[m]
    BY PopSeq DEF AddReuse, InductiveInv, TypeOK
  <1>b. k \in DOMAIN instances /\ instances[k] = NoObject
    BY <1>a DEF InductiveInv, FreelistSound
  <1>c. /\ instances' \in Seq(Objects \cup {NoObject})
        /\ Len(instances') = Len(instances)
        /\ DOMAIN instances' = DOMAIN instances
        /\ instances'[k] = obj[t]
        /\ \A m \in DOMAIN instances \ {k} : instances'[m] = instances[m]
    BY <1>b, UpdateSeq DEF AddReuse, InductiveInv, TypeOK
  <1>1. TypeOK'
    BY <1>a, <1>b, <1>c, ConstantsAssumption
    DEF InductiveInv, AddReuse, Leave, objectVars, TypeOK, Locations, Operations, Exceptions
  <1>2. LockSound'
    BY <1>a, <1>b, <1>c, ConstantsAssumption
    DEF InductiveInv, AddReuse, Leave, objectVars, TypeOK, LockSound, InCriticalSection,
        HoldsInstance
  <1>3. FreelistSound'
    <2>1. ASSUME NEW i \in DOMAIN freelist'
          PROVE  freelist'[i] \in DOMAIN instances' /\ instances'[freelist'[i]] = NoObject
      <3>1. i \in DOMAIN freelist /\ i # Len(freelist) /\ freelist'[i] = freelist[i]
        BY <1>a
      <3>2. freelist[i] # k
        BY <1>a, <3>1 DEF InductiveInv, FreelistSound
      <3> QED
        BY <1>c, <3>1, <3>2 DEF InductiveInv, FreelistSound
    <2>2. ASSUME NEW i \in DOMAIN freelist', NEW j \in DOMAIN freelist', freelist'[i] = freelist'[j]
          PROVE  i = j
      BY <1>a, <2>2 DEF InductiveInv, FreelistSound
    <2> QED
      BY <2>1, <2>2 DEF FreelistSound
  <1>4. FuncSafe'
    BY <1>a, <1>b, <1>c, ConstantsAssumption
    DEF InductiveInv, AddReuse, Leave, objectVars, TypeOK, LockSound, FuncSafe, OneOwner,
        SlotOwns, CarrierOwns, Carries, LocalSound, InCriticalSection, HoldsInstance
  <1>5. OneOwner'
    <2>1. AliveOwned'
      <3> SUFFICES ASSUME NEW p \in alive'
                   PROVE  \/ \E n \in DOMAIN instances' : instances'[n] = p
                          \/ \E u \in Threads : Carries(u)' /\ obj'[u] = p
        BY DEF AliveOwned
      <3>1. p \in alive
        BY DEF AddReuse, objectVars
      <3>2. CASE \E n \in DOMAIN instances : instances[n] = p
        <4>1. p # NoObject
          BY <3>1, ConstantsAssumption DEF InductiveInv, TypeOK
        <4> QED
          BY <3>2, <4>1, <1>b, <1>c
      <3>3. CASE \E u \in Threads : Carries(u) /\ obj[u] = p
        <4>1. PICK u \in Threads : Carries(u) /\ obj[u] = p
          BY <3>3
        <4>2. CASE u = t
          BY <4>1, <4>2, <1>b, <1>c
        <4>3. CASE u # t
          <5> Carries(u)' /\ obj'[u] = p
            BY <4>1, <4>3 DEF AddReuse, Leave, Carries, InductiveInv, TypeOK
          <5> QED
            OBVIOUS
        <4> QED
          BY <4>2, <4>3
      <3> QED
        BY <3>1, <3>2, <3>3 DEF InductiveInv, OneOwner, AliveOwned
    <2>2. SlotOwns'
      BY <1>a, <1>b, <1>c, ConstantsAssumption
      DEF InductiveInv, AddReuse, Leave, objectVars, TypeOK, LocalSound, Carries, OneOwner,
          AliveOwned, SlotOwns, CarrierOwns, FuncSafe
    <2>3. CarrierOwns'
      BY <1>a, <1>b, <1>c, ConstantsAssumption
      DEF InductiveInv, AddReuse, Leave, objectVars, TypeOK, LocalSound, Carries, OneOwner,
          AliveOwned, SlotOwns, CarrierOwns, FuncSafe
    <2> QED
      BY <2>1, <2>2, <2>3 DEF OneOwner
  <1>6. LocalSound'
    BY <1>a, <1>b, <1>c, ConstantsAssumption
    DEF InductiveInv, AddReuse, Leave, objectVars, TypeOK, LockSound, LocalSound,
        CheckInstanceNumber, InCriticalSection, HoldsInstance
  <1> QED
    BY <1>1, <1>2, <1>3, <1>4, <1>5, <1>6 DEF InductiveInv

\* add extends both lists.
LEMMA AddAppendInductive ==
    ASSUME InductiveInv, NEW t \in Threads, AddAppend(t)
    PROVE  InductiveInv'
  <1>a. /\ instances' \in Seq(Objects \cup {NoObject})
        /\ Len(instances') = Len(instances) + 1
        /\ DOMAIN instances' = DOMAIN instances \cup {Len(instances) + 1}
        /\ Len(instances) + 1 \notin DOMAIN instances
        /\ instances'[Len(instances) + 1] = obj[t]
        /\ \A m \in DOMAIN instances : instances'[m] = instances[m]
    BY AppendSeq DEF AddAppend, InductiveInv, TypeOK
  <1>b. /\ locks' \in Seq(Threads \cup {NoThread})
        /\ Len(locks') = Len(locks) + 1
        /\ DOMAIN locks' = DOMAIN locks \cup {Len(locks) + 1}
        /\ locks'[Len(locks) + 1] = NoThread
        /\ \A m \in DOMAIN locks : locks'[m] = locks[m]
    BY AppendSeq DEF AddAppend, InductiveInv, TypeOK
  <1>c. DOMAIN instances = 1 .. Len(instances) /\ DOMAIN locks = 1 .. Len(locks) /\ Len(instances) \in Nat
    BY LenProperties DEF InductiveInv, TypeOK
  <1>1. TypeOK'
    BY <1>a, <1>b, <1>c, ConstantsAssumption
    DEF InductiveInv, AddAppend, Leave, objectVars, TypeOK, Locations, Operations, Exceptions
  <1>2. LockSound'
    BY <1>a, <1>b, <1>c, ConstantsAssumption
    DEF InductiveInv, AddAppend, Leave, objectVars, TypeOK, LockSound, InCriticalSection,
        HoldsInstance
  <1>3. FreelistSound'
    BY <1>a, <1>b, <1>c DEF InductiveInv, AddAppend, Leave, objectVars, TypeOK, FreelistSound
  <1>4. FuncSafe'
    BY <1>a, <1>b, <1>c, ConstantsAssumption
    DEF InductiveInv, AddAppend, Leave, objectVars, TypeOK, LockSound, FuncSafe, OneOwner,
        SlotOwns, CarrierOwns, Carries, LocalSound, InCriticalSection, HoldsInstance
  <1>5. OneOwner'
    <2>1. AliveOwned'
      <3> SUFFICES ASSUME NEW p \in alive'
                   PROVE  \/ \E n \in DOMAIN instances' : instances'[n] = p
                          \/ \E u \in Threads : Carries(u)' /\ obj'[u] = p
        BY DEF AliveOwned
      <3>1. p \in alive
        BY DEF AddAppend, objectVars
      <3>2. CASE \E n \in DOMAIN instances : instances[n] = p
        <4>1. p # NoObject
          BY <3>1, ConstantsAssumption DEF InductiveInv, TypeOK
        <4> QED
          BY <3>2, <4>1, <1>a
      <3>3. CASE \E u \in Threads : Carries(u) /\ obj[u] = p
        <4>1. PICK u \in Threads : Carries(u) /\ obj[u] = p
          BY <3>3
        <4>2. CASE u = t
          BY <4>1, <4>2, <1>a
        <4>3. CASE u # t
          <5> Carries(u)' /\ obj'[u] = p
            BY <4>1, <4>3 DEF AddAppend, Leave, Carries, InductiveInv, TypeOK
          <5> QED
            OBVIOUS
        <4> QED
          BY <4>2, <4>3
      <3> QED
        BY <3>1, <3>2, <3>3 DEF InductiveInv, OneOwner, AliveOwned
    <2>2. SlotOwns'
      BY <1>a, <1>b, <1>c, ConstantsAssumption
      DEF InductiveInv, AddAppend, Leave, objectVars, TypeOK, LocalSound, Carries, OneOwner,
          AliveOwned, SlotOwns, CarrierOwns, FuncSafe
    <2>3. CarrierOwns'
      BY <1>a, <1>b, <1>c, ConstantsAssumption
      DEF InductiveInv, AddAppend, Leave, objectVars, TypeOK, LocalSound, Carries, OneOwner,
          AliveOwned, SlotOwns, CarrierOwns, FuncSafe
    <2> QED
      BY <2>1, <2>2, <2>3 DEF OneOwner
  <1>6. LocalSound'
    BY <1>a, <1>b, <1>c, ConstantsAssumption
    DEF InductiveInv, AddAppend, Leave, objectVars, TypeOK, LockSound, LocalSound,
        CheckInstanceNumber, InCriticalSection, HoldsInstance
  <1> QED
    BY <1>1, <1>2, <1>3, <1>4, <1>5, <1>6 DEF InductiveInv

\* finalize puts a number on the freelist.  The check has shown that it was not
\* there.
LEMMA FinalizeFreeInductive ==
    ASSUME InductiveInv, NEW t \in Threads, FinalizeFree(t)
    PROVE  InductiveInv'
  <1>a. /\ freelist' \in Seq(Int)
        /\ DOMAIN freelist' = DOMAIN freelist \cup {Len(freelist) + 1}
        /\ freelist'[Len(freelist) + 1] = num[t]
        /\ \A m \in DOMAIN freelist : freelist'[m] = freelist[m]
    BY AppendSeq DEF FinalizeFree, InductiveInv, TypeOK
  <1>b. num[t] \in DOMAIN instances
    BY LenProperties DEF FinalizeFree, CheckInstanceNumber, InductiveInv, TypeOK
  <1>1. TypeOK'
    BY <1>a, <1>b, ConstantsAssumption
    DEF InductiveInv, FinalizeFree, Leave, objectVars, TypeOK, Locations, Operations,
        Exceptions
  <1>2. LockSound'
    BY <1>a, <1>b, ConstantsAssumption
    DEF InductiveInv, FinalizeFree, Leave, objectVars, TypeOK, LockSound, InCriticalSection,
        HoldsInstance
  <1>3. FreelistSound'
    BY <1>a, <1>b
    DEF InductiveInv, FinalizeFree, Leave, objectVars, TypeOK, FreelistSound,
        CheckInstanceNumber, Range
  <1>4. FuncSafe'
    BY <1>a, <1>b, ConstantsAssumption
    DEF InductiveInv, FinalizeFree, Leave, objectVars, TypeOK, LockSound, FuncSafe, OneOwner,
        SlotOwns, CarrierOwns, Carries, LocalSound, InCriticalSection, HoldsInstance
  <1>5. OneOwner'
    <2>1. /\ UNCHANGED <<instances, alive>>
          /\ \A u \in Threads : Carries(u)' <=> Carries(u)
          /\ \A u \in Threads : Carries(u) => obj'[u] = obj[u]
      BY <1>a, <1>b, ConstantsAssumption
      DEF InductiveInv, FinalizeFree, Leave, objectVars, TypeOK, LocalSound, Carries
    <2> QED
      BY <2>1, OneOwnerFrame DEF InductiveInv
  <1>6. LocalSound'
    BY <1>a, <1>b, ConstantsAssumption
    DEF InductiveInv, FinalizeFree, Leave, objectVars, TypeOK, LockSound, LocalSound,
        CheckInstanceNumber, InCriticalSection, HoldsInstance
  <1> QED
    BY <1>1, <1>2, <1>3, <1>4, <1>5, <1>6 DEF InductiveInv

\* kill moves the pointers out: the slot's object becomes the thread's.
LEMMA KillTakeInductive ==
    ASSUME InductiveInv, NEW t \in Threads, KillTake(t)
    PROVE  InductiveInv'
  <1>a. num[t] \in DOMAIN instances /\ DOMAIN locks = DOMAIN instances
    BY LenProperties DEF KillTake, CheckInstanceNumber, InductiveInv, TypeOK, LocalSound
  <1>b. /\ locks' \in Seq(Threads \cup {NoThread})
        /\ Len(locks') = Len(locks)
        /\ DOMAIN locks' = DOMAIN locks
        /\ locks'[num[t]] = t
        /\ \A m \in DOMAIN locks \ {num[t]} : locks'[m] = locks[m]
    BY <1>a, UpdateSeq DEF KillTake, InductiveInv, TypeOK
  <1>c. /\ instances' \in Seq(Objects \cup {NoObject})
        /\ Len(instances') = Len(instances)
        /\ DOMAIN instances' = DOMAIN instances
        /\ instances'[num[t]] = NoObject
        /\ \A m \in DOMAIN instances \ {num[t]} : instances'[m] = instances[m]
        /\ instances[num[t]] \in Objects \cup {NoObject}
    BY <1>a, UpdateSeq, ElementOfSeq DEF KillTake, InductiveInv, TypeOK
  <1>1. TypeOK'
    BY <1>a, <1>b, <1>c, ConstantsAssumption
    DEF InductiveInv, KillTake, objectVars, TypeOK, Locations, Operations, Exceptions
  <1>2. LockSound'
    BY <1>a, <1>b, <1>c, ConstantsAssumption
    DEF InductiveInv, KillTake, objectVars, TypeOK, LockSound, InCriticalSection,
        HoldsInstance
  <1>3. FreelistSound'
    BY <1>a, <1>b, <1>c DEF InductiveInv, KillTake, objectVars, TypeOK, FreelistSound
  <1>4. FuncSafe'
    BY <1>a, <1>b, <1>c, ConstantsAssumption
    DEF InductiveInv, KillTake, objectVars, TypeOK, LockSound, FuncSafe, OneOwner, SlotOwns,
        CarrierOwns, Carries, LocalSound, InCriticalSection, HoldsInstance
  <1>5. OneOwner'
    <2>1. AliveOwned'
      BY <1>a, <1>b, <1>c, ConstantsAssumption
      DEF InductiveInv, KillTake, objectVars, TypeOK, LocalSound, Carries, OneOwner,
          AliveOwned, SlotOwns, CarrierOwns, FuncSafe
    <2>2. SlotOwns'
      BY <1>a, <1>b, <1>c, ConstantsAssumption
      DEF InductiveInv, KillTake, objectVars, TypeOK, LocalSound, Carries, OneOwner,
          AliveOwned, SlotOwns, CarrierOwns, FuncSafe
    <2>3. CarrierOwns'
      BY <1>a, <1>b, <1>c, ConstantsAssumption
      DEF InductiveInv, KillTake, objectVars, TypeOK, LocalSound, Carries, OneOwner,
          AliveOwned, SlotOwns, CarrierOwns, FuncSafe
    <2> QED
      BY <2>1, <2>2, <2>3 DEF OneOwner
  <1>6. LocalSound'
    BY <1>a, <1>b, <1>c, ConstantsAssumption
    DEF InductiveInv, KillTake, objectVars, TypeOK, LockSound, LocalSound,
        CheckInstanceNumber, InCriticalSection, HoldsInstance
  <1> QED
    BY <1>1, <1>2, <1>3, <1>4, <1>5, <1>6 DEF InductiveInv

\* kill has destroyed the object and unlocks both mutexes.
LEMMA KillDoneInductive ==
    ASSUME InductiveInv, NEW t \in Threads, KillDone(t)
    PROVE  InductiveInv'
  <1>a. num[t] \in DOMAIN instances /\ DOMAIN locks = DOMAIN instances
    BY LenProperties DEF KillDone, CheckInstanceNumber, InductiveInv, TypeOK, LocalSound
  <1>b. /\ locks' \in Seq(Threads \cup {NoThread})
        /\ Len(locks') = Len(locks)
        /\ DOMAIN locks' = DOMAIN locks
        /\ locks'[num[t]] = NoThread
        /\ \A m \in DOMAIN locks \ {num[t]} : locks'[m] = locks[m]
    BY <1>a, UpdateSeq DEF KillDone, InductiveInv, TypeOK
  <1>1. TypeOK'
    BY <1>a, <1>b, ConstantsAssumption
    DEF InductiveInv, KillDone, Leave, TypeOK, Locations, Operations, Exceptions
  <1>2. LockSound'
    BY <1>a, <1>b, ConstantsAssumption
    DEF InductiveInv, KillDone, Leave, TypeOK, LockSound, InCriticalSection, HoldsInstance
  <1>3. FreelistSound'
    BY <1>a, <1>b DEF InductiveInv, KillDone, Leave, TypeOK, FreelistSound
  <1>4. FuncSafe'
    BY <1>a, <1>b, ConstantsAssumption
    DEF InductiveInv, KillDone, Leave, TypeOK, LockSound, FuncSafe, OneOwner, SlotOwns,
        CarrierOwns, Carries, LocalSound, InCriticalSection, HoldsInstance
  <1>5. OneOwner'
    <2>1. AliveOwned'
      BY ZenonT(60), <1>a, <1>b, ConstantsAssumption
      DEF InductiveInv, KillDone, Leave, TypeOK, LocalSound, Carries, OneOwner, AliveOwned,
          SlotOwns, CarrierOwns, FuncSafe
    <2>2. SlotOwns'
      BY <1>a, <1>b, ConstantsAssumption
      DEF InductiveInv, KillDone, Leave, TypeOK, LocalSound, Carries, OneOwner, AliveOwned,
          SlotOwns, CarrierOwns, FuncSafe
    <2>3. CarrierOwns'
      BY <1>a, <1>b, ConstantsAssumption
      DEF InductiveInv, KillDone, Leave, TypeOK, LocalSound, Carries, OneOwner, AliveOwned,
          SlotOwns, CarrierOwns, FuncSafe
    <2> QED
      BY <2>1, <2>2, <2>3 DEF OneOwner
  <1>6. LocalSound'
    BY <1>a, <1>b, ConstantsAssumption
    DEF InductiveInv, KillDone, Leave, TypeOK, LockSound, LocalSound, CheckInstanceNumber,
        InCriticalSection, HoldsInstance
  <1> QED
    BY <1>1, <1>2, <1>3, <1>4, <1>5, <1>6 DEF InductiveInv

\* with_instance copies the pointers out and unlocks the manager.
LEMMA GetInductive ==
    ASSUME InductiveInv, NEW t \in Threads, Get(t)
    PROVE  InductiveInv'
  <1>a. num[t] \in DOMAIN instances /\ DOMAIN locks = DOMAIN instances /\ instances[num[t]] \in Objects \cup {NoObject}
    BY LenProperties, ElementOfSeq
    DEF Get, CheckInstanceNumber, InductiveInv, TypeOK, LocalSound
  <1>b. /\ locks' \in Seq(Threads \cup {NoThread})
        /\ Len(locks') = Len(locks)
        /\ DOMAIN locks' = DOMAIN locks
        /\ locks'[num[t]] = t
        /\ \A m \in DOMAIN locks \ {num[t]} : locks'[m] = locks[m]
    BY <1>a, UpdateSeq DEF Get, InductiveInv, TypeOK
  <1>1. TypeOK'
    BY <1>a, <1>b, ConstantsAssumption
    DEF InductiveInv, Get, objectVars, TypeOK, Locations, Operations, Exceptions
  <1>2. LockSound'
    BY <1>a, <1>b, ConstantsAssumption
    DEF InductiveInv, Get, objectVars, TypeOK, LockSound, InCriticalSection, HoldsInstance
  <1>3. FreelistSound'
    BY <1>a, <1>b DEF InductiveInv, Get, objectVars, TypeOK, FreelistSound
  <1>4. FuncSafe'
    BY <1>a, <1>b, ConstantsAssumption
    DEF InductiveInv, Get, objectVars, TypeOK, LockSound, FuncSafe, OneOwner, SlotOwns,
        CarrierOwns, Carries, LocalSound, InCriticalSection, HoldsInstance
  <1>5. OneOwner'
    <2>1. /\ UNCHANGED <<instances, alive>>
          /\ \A u \in Threads : Carries(u)' <=> Carries(u)
          /\ \A u \in Threads : Carries(u) => obj'[u] = obj[u]
      BY <1>a, <1>b, ConstantsAssumption
      DEF InductiveInv, Get, objectVars, TypeOK, LocalSound, Carries
    <2> QED
      BY <2>1, OneOwnerFrame DEF InductiveInv
  <1>6. LocalSound'
    BY <1>a, <1>b, ConstantsAssumption
    DEF InductiveInv, Get, objectVars, TypeOK, LockSound, LocalSound, CheckInstanceNumber,
        InCriticalSection, HoldsInstance
  <1> QED
    BY <1>1, <1>2, <1>3, <1>4, <1>5, <1>6 DEF InductiveInv

\* with_instance leaves a killed instance.
LEMMA KilledInductive ==
    ASSUME InductiveInv, NEW t \in Threads, Killed(t)
    PROVE  InductiveInv'
  <1>a. num[t] \in DOMAIN locks
    BY DEF Killed, HoldsInstance, InductiveInv, LockSound
  <1>b. /\ locks' \in Seq(Threads \cup {NoThread})
        /\ Len(locks') = Len(locks)
        /\ DOMAIN locks' = DOMAIN locks
        /\ locks'[num[t]] = NoThread
        /\ \A m \in DOMAIN locks \ {num[t]} : locks'[m] = locks[m]
    BY <1>a, UpdateSeq DEF Killed, InductiveInv, TypeOK
  <1>1. TypeOK'
    BY <1>a, <1>b, ConstantsAssumption
    DEF InductiveInv, Killed, Leave, objectVars, TypeOK, Locations, Operations, Exceptions
  <1>2. LockSound'
    BY <1>a, <1>b, ConstantsAssumption
    DEF InductiveInv, Killed, Leave, objectVars, TypeOK, LockSound, InCriticalSection,
        HoldsInstance
  <1>3. FreelistSound'
    BY <1>a, <1>b DEF InductiveInv, Killed, Leave, objectVars, TypeOK, FreelistSound
  <1>4. FuncSafe'
    BY <1>a, <1>b, ConstantsAssumption
    DEF InductiveInv, Killed, Leave, objectVars, TypeOK, LockSound, FuncSafe, OneOwner,
        SlotOwns, CarrierOwns, Carries, LocalSound, InCriticalSection, HoldsInstance
  <1>5. OneOwner'
    <2>1. /\ UNCHANGED <<instances, alive>>
          /\ \A u \in Threads : Carries(u)' <=> Carries(u)
          /\ \A u \in Threads : Carries(u) => obj'[u] = obj[u]
      BY <1>a, <1>b, ConstantsAssumption
      DEF InductiveInv, Killed, Leave, objectVars, TypeOK, LocalSound, Carries
    <2> QED
      BY <2>1, OneOwnerFrame DEF InductiveInv
  <1>6. LocalSound'
    BY <1>a, <1>b, ConstantsAssumption
    DEF InductiveInv, Killed, Leave, objectVars, TypeOK, LockSound, LocalSound,
        CheckInstanceNumber, InCriticalSection, HoldsInstance
  <1> QED
    BY <1>1, <1>2, <1>3, <1>4, <1>5, <1>6 DEF InductiveInv

\* with_instance returns from func.
LEMMA ReturnInductive ==
    ASSUME InductiveInv, NEW t \in Threads, Return(t)
    PROVE  InductiveInv'
  <1>a. num[t] \in DOMAIN locks
    BY DEF Return, HoldsInstance, InductiveInv, LockSound
  <1>b. /\ locks' \in Seq(Threads \cup {NoThread})
        /\ Len(locks') = Len(locks)
        /\ DOMAIN locks' = DOMAIN locks
        /\ locks'[num[t]] = NoThread
        /\ \A m \in DOMAIN locks \ {num[t]} : locks'[m] = locks[m]
    BY <1>a, UpdateSeq DEF Return, InductiveInv, TypeOK
  <1>1. TypeOK'
    BY <1>a, <1>b, ConstantsAssumption
    DEF InductiveInv, Return, Leave, objectVars, TypeOK, Locations, Operations, Exceptions
  <1>2. LockSound'
    BY <1>a, <1>b, ConstantsAssumption
    DEF InductiveInv, Return, Leave, objectVars, TypeOK, LockSound, InCriticalSection,
        HoldsInstance
  <1>3. FreelistSound'
    BY <1>a, <1>b DEF InductiveInv, Return, Leave, objectVars, TypeOK, FreelistSound
  <1>4. FuncSafe'
    BY <1>a, <1>b, ConstantsAssumption
    DEF InductiveInv, Return, Leave, objectVars, TypeOK, LockSound, FuncSafe, OneOwner,
        SlotOwns, CarrierOwns, Carries, LocalSound, InCriticalSection, HoldsInstance
  <1>5. OneOwner'
    <2>1. /\ UNCHANGED <<instances, alive>>
          /\ \A u \in Threads : Carries(u)' <=> Carries(u)
          /\ \A u \in Threads : Carries(u) => obj'[u] = obj[u]
      BY <1>a, <1>b, ConstantsAssumption
      DEF InductiveInv, Return, Leave, objectVars, TypeOK, LocalSound, Carries
    <2> QED
      BY <2>1, OneOwnerFrame DEF InductiveInv
  <1>6. LocalSound'
    BY <1>a, <1>b, ConstantsAssumption
    DEF InductiveInv, Return, Leave, objectVars, TypeOK, LockSound, LocalSound,
        CheckInstanceNumber, InCriticalSection, HoldsInstance
  <1> QED
    BY <1>1, <1>2, <1>3, <1>4, <1>5, <1>6 DEF InductiveInv

\* Every step of the manager preserves the invariant.
LEMMA NextInductive == InductiveInv /\ [Next]_vars => InductiveInv'
  <1> SUFFICES ASSUME InductiveInv, [Next]_vars
               PROVE  InductiveInv'
    OBVIOUS
  <1>1. ASSUME NEW t \in Threads, Start(t)
        PROVE  InductiveInv'
    <2>1. ASSUME NEW o \in Objects, CallAdd(t, o)
          PROVE  InductiveInv'
      BY <2>1, CallAddInductive
    <2>2. ASSUME NEW n \in Numbers, NEW operation \in Operations \ {"add"}, Call(t, operation, n)
          PROVE  InductiveInv'
      BY <2>2, CallInductive
    <2> QED
      BY <1>1, <2>1, <2>2 DEF Start, CallKill, CallFinalize, CallWithInstance, Operations
  <1>2. ASSUME NEW t \in Threads, Step(t)
        PROVE  InductiveInv'
    BY <1>2, LockManagerInductive, RejectedInductive, AcceptedInductive, AddReuseInductive,
       AddAppendInductive, KillTakeInductive, KillDoneInductive, FinalizeLeakedInductive,
       FinalizeFreeInductive, GetInductive, KilledInductive, ReturnInductive
    DEF Step
  <1>3. CASE UNCHANGED vars
    BY <1>3
    DEF vars, managerVars, objectVars, threadVars, InductiveInv, TypeOK, LockSound, FreelistSound,
        FuncSafe, OneOwner, AliveOwned, SlotOwns, CarrierOwns, Carries, LocalSound,
        CheckInstanceNumber, InCriticalSection, HoldsInstance
  <1> QED
    BY <1>1, <1>2, <1>3 DEF Next

\* The invariant holds in every reachable state.
THEOREM Inductive == Spec => []InductiveInv
  BY InitInductive, NextInductive, PTL DEF Spec

\* TypeOK, the lists' equal lengths included, holds in every reachable state.
THEOREM TypeCorrect == Spec => []TypeOK
  <1>1. InductiveInv => TypeOK
    BY DEF InductiveInv
  <1> QED
    BY <1>1, Inductive, PTL

\* The mutexes have the owners the code expects (LockSound): the manager's
\* critical sections exclude each other, and so do the funcs and destructors of one
\* instance.
THEOREM LocksCorrect == Spec => []LockSound
  <1>1. InductiveInv => LockSound
    BY DEF InductiveInv
  <1> QED
    BY <1>1, Inductive, PTL

\* The freelist holds distinct, existing, empty numbers (FreelistSound): the
\* assertions in add never abort the process.
THEOREM FreelistCorrect == Spec => []FreelistSound
  <1>1. InductiveInv => FreelistSound
    BY DEF InductiveInv
  <1> QED
    BY <1>1, Inductive, PTL

\* func only runs on a living object that its number names and that no other
\* thread uses or destroys (FuncSafe).
THEOREM FuncCorrect == Spec => []FuncSafe
  <1>1. InductiveInv => FuncSafe
    BY DEF InductiveInv
  <1> QED
    BY <1>1, Inductive, PTL

\* Every living object has exactly one owner (OneOwner): nothing leaks, nothing
\* is destroyed twice.
THEOREM OwnershipCorrect == Spec => []OneOwner
  <1>1. InductiveInv => OneOwner
    BY DEF InductiveInv
  <1> QED
    BY <1>1, Inductive, PTL

\* What each location says of a thread's local variables (LocalSound): a call
\* carries an object only while it adds, uses or destroys it, and whoever waits
\* for an instance has passed check_instance_number.
THEOREM LocalsCorrect == Spec => []LocalSound
  <1>1. InductiveInv => LocalSound
    BY DEF InductiveInv
  <1> QED
    BY <1>1, Inductive, PTL

\* with_instance runs func or throws (NoSilentSkip).
THEOREM NeverSilent == Spec => NoSilentSkip
  <1>1. InductiveInv /\ [Next]_vars =>
          [\A t \in Threads :
             (op[t] = "with_instance" /\ pc[t] # "idle" /\ pc'[t] = "idle")
                 => (pc[t] = "func" <=> thrown'[t] = "none")]_vars
    <2> SUFFICES ASSUME InductiveInv, Next, NEW t \in Threads,
                        op[t] = "with_instance", pc[t] # "idle", pc'[t] = "idle"
                 PROVE  pc[t] = "func" <=> thrown'[t] = "none"
      OBVIOUS
    <2>1. ASSUME NEW u \in Threads, Start(u)
          PROVE  FALSE
      BY <2>1 DEF Start, CallAdd, CallKill, CallFinalize, CallWithInstance, Call, Enter,
                  InductiveInv, TypeOK
    <2>2. PICK u \in Threads : Step(u)
      BY <2>1 DEF Next
    <2>3. u = t
      BY <2>2
      DEF Step, LockManager, Rejected, Accepted, AddReuse, AddAppend, KillTake, KillDone,
                  FinalizeLeaked, FinalizeFree, Get, Killed, Return, Leave, InductiveInv, TypeOK
    <2> QED
      BY <2>2, <2>3
      DEF Step, LockManager, Rejected, Accepted, AddReuse, AddAppend, KillTake, KillDone,
          FinalizeLeaked, FinalizeFree, Get, Killed, Return, Leave, CheckException,
          InductiveInv, TypeOK, LocalSound
  <1> QED
    BY <1>1, Inductive, PTL DEF Spec, NoSilentSkip

-----------------------------------------------------------------------------
(* The instance manager implements the registry. *)

\* A step that leaves the vector, the freelist, the destroyed objects and the
\* running funcs alone is invisible in the registry.
LEMMA InvisibleStep ==
    ASSUME UNCHANGED <<instances, freelist>>, Gone' = Gone, Using' = Using
    PROVE  UNCHANGED Registry!vars
  BY DEF Registry!vars

\* The objects destroyed and the funcs running depend on the threads that are
\* in kill's destructor or in func, and on the sets of objects.
LEMMA SameGone ==
    ASSUME UNCHANGED <<alive, created>>,
           \A t \in Threads : (pc[t] = "dying" <=> pc'[t] = "dying")
                              /\ (pc[t] = "dying" => obj'[t] = obj[t])
    PROVE  Gone' = Gone
  BY DEF Gone

LEMMA SameUsing ==
    ASSUME \A t \in Threads : (pc[t] = "func" <=> pc'[t] = "func")
                              /\ (pc[t] = "func" => obj'[t] = obj[t])
    PROVE  Using' = Using
  BY DEF Using

\* Entering and leaving a call, locking the manager and the failing checks.
LEMMA QuietStepRefines ==
    ASSUME InductiveInv, NEW t \in Threads,
           \/ \E n \in Numbers, operation \in Operations \ {"add"} : Call(t, operation, n)
           \/ LockManager(t) \/ Rejected(t) \/ Accepted(t) \/ FinalizeLeaked(t) \/ Killed(t)
    PROVE  UNCHANGED Registry!vars
  <1> USE DEF Call, Enter, LockManager, Rejected, Accepted, FinalizeLeaked, Killed, Leave,
              managerVars, objectVars, InductiveInv, TypeOK
  <1>1. UNCHANGED <<instances, freelist, alive, created>>
    OBVIOUS
  <1>2. Gone' = Gone
    BY <1>1, SameGone
  <1>3. Using' = Using
    BY SameUsing
  <1> QED
    BY <1>1, <1>2, <1>3, InvisibleStep

\* The new object is neither destroyed nor in use.
LEMMA CallAddRefines ==
    ASSUME InductiveInv, NEW t \in Threads, NEW o \in Objects, CallAdd(t, o)
    PROVE  UNCHANGED Registry!vars
  <1>1. UNCHANGED <<instances, freelist>>
    BY DEF CallAdd, managerVars
  <1>2. Gone' = Gone
    <2>1. \A u \in Threads : (pc[u] = "dying" <=> pc'[u] = "dying")
                             /\ (pc[u] = "dying" => obj'[u] = obj[u])
      BY DEF CallAdd, Enter, InductiveInv, TypeOK
    <2>2. \A u \in Threads : pc[u] = "dying" => obj[u] # o
      BY ConstantsAssumption
      DEF CallAdd, InductiveInv, OneOwner, CarrierOwns, Carries, LocalSound
    <2>3. created' = created \cup {o} /\ alive' = alive \cup {o} /\ o \notin created
      BY DEF CallAdd
    <2> QED
      BY <2>1, <2>2, <2>3 DEF Gone
  <1>3. Using' = Using
    BY SameUsing DEF CallAdd, Enter, InductiveInv, TypeOK
  <1> QED
    BY <1>1, <1>2, <1>3, InvisibleStep

\* The object handed to add is registered.  It is nobody else's, so it is not
\* being destroyed and no number names it.
LEMMA AddRefines ==
    ASSUME InductiveInv, NEW t \in Threads, AddReuse(t) \/ AddAppend(t)
    PROVE  Registry!Register(obj[t]) /\ obj[t] \in Objects
  <1>1. Carries(t) /\ obj[t] \in Objects
    BY DEF AddReuse, AddAppend, Carries, InductiveInv, TypeOK, LocalSound
  <1>2. obj[t] \notin Gone /\ \A n \in DOMAIN instances : instances[n] # obj[t]
    <2>1. \A u \in Threads : pc[u] = "dying" /\ obj[u] = obj[t] => u = t
      BY <1>1 DEF InductiveInv, OneOwner, CarrierOwns, Carries
    <2>2. pc[t] # "dying" /\ obj[t] \in alive
      BY <1>1 DEF AddReuse, AddAppend, InductiveInv, OneOwner, CarrierOwns
    <2> QED
      BY <1>1, <2>1, <2>2 DEF Gone, InductiveInv, OneOwner, CarrierOwns
  <1>3. Gone' = Gone /\ Using' = Using
    BY SameGone, SameUsing DEF AddReuse, AddAppend, Leave, objectVars, InductiveInv, TypeOK
  <1>4. CASE AddReuse(t)
    <2> DEFINE k == freelist[Len(freelist)]
    <2>1. /\ Len(freelist) \in DOMAIN freelist
          /\ DOMAIN freelist' = DOMAIN freelist \ {Len(freelist)}
          /\ \A m \in DOMAIN freelist \ {Len(freelist)} : freelist'[m] = freelist[m]
      BY <1>4, PopSeq DEF AddReuse, InductiveInv, TypeOK
    <2>2. k \in Range(freelist)
      BY <2>1 DEF Range
    <2>3. Range(freelist') = Range(freelist) \ {k}
      BY <2>1 DEF Range, InductiveInv, FreelistSound
    <2>4. instances' = [instances EXCEPT ![k] = obj[t]]
      BY <1>4 DEF AddReuse
    <2> QED
      BY <1>1, <1>2, <1>3, <2>2, <2>3, <2>4 DEF Registry!Register
  <1>5. CASE AddAppend(t)
    <2>1. Range(freelist) = {} /\ Range(freelist') = {}
      BY <1>5, EmptySeq, LenProperties DEF AddAppend, Range
    <2>2. instances' = Append(instances, obj[t])
      BY <1>5 DEF AddAppend
    <2> QED
      BY <1>1, <1>2, <1>3, <2>1, <2>2 DEF Registry!Register
  <1> QED
    BY <1>4, <1>5

\* kill moves the pointers out: the object is gone from here on.  Nobody uses it
\* because the instance's mutex was free.
LEMMA KillTakeRefines ==
    ASSUME InductiveInv, NEW t \in Threads, KillTake(t)
    PROVE  \/ num[t] \in DOMAIN instances /\ Registry!Kill(num[t])
           \/ UNCHANGED Registry!vars
  <1>1. num[t] \in DOMAIN instances /\ DOMAIN locks = DOMAIN instances
    BY LenProperties DEF KillTake, CheckInstanceNumber, InductiveInv, TypeOK, LocalSound
  <1>2. freelist' = freelist /\ instances' = [instances EXCEPT ![num[t]] = NoObject]
    BY DEF KillTake
  <1>3. Using' = Using
    BY SameUsing DEF KillTake, InductiveInv, TypeOK
  <1>4. CASE instances[num[t]] = NoObject
    <2>1. instances' = instances
      BY <1>1, <1>2, <1>4, LenProperties DEF InductiveInv, TypeOK
    <2>2. Gone' = Gone
      BY <1>4, ConstantsAssumption DEF KillTake, objectVars, Gone, InductiveInv, TypeOK
    <2> QED
      BY <1>2, <1>3, <2>1, <2>2, InvisibleStep
  <1>5. CASE instances[num[t]] # NoObject
    <2>1. instances[num[t]] \in alive /\ instances[num[t]] \in created
      BY <1>1, <1>5 DEF InductiveInv, OneOwner, SlotOwns, LocalSound
    <2>2. Gone' = Gone \cup {instances[num[t]]}
      BY <2>1 DEF KillTake, objectVars, Gone, InductiveInv, TypeOK
    <2>3. \A u \in Threads : Using[u] # instances[num[t]]
      <3> SUFFICES ASSUME NEW u \in Threads, pc[u] = "func", obj[u] = instances[num[t]]
                   PROVE  FALSE
        BY <1>5 DEF Using
      <3>1. instances[num[u]] = obj[u] /\ num[u] \in DOMAIN instances /\ locks[num[u]] = u
        BY <1>1 DEF InductiveInv, FuncSafe, LockSound, HoldsInstance
      <3>2. num[u] = num[t]
        BY <1>1, <1>5, <3>1 DEF InductiveInv, OneOwner, SlotOwns
      <3> QED
        BY <3>1, <3>2, ConstantsAssumption DEF KillTake
    <2> QED
      BY <1>1, <1>2, <1>3, <1>5, <2>2, <2>3 DEF Registry!Kill
  <1> QED
    BY <1>4, <1>5

\* The destructors end: the object was gone already.
LEMMA KillDoneRefines ==
    ASSUME InductiveInv, NEW t \in Threads, KillDone(t)
    PROVE  UNCHANGED Registry!vars
  <1>1. UNCHANGED <<instances, freelist>>
    BY DEF KillDone
  <1>2. Gone' = Gone
    <2>1. \A u \in Threads \ {t} : pc[u] # "dying"
      BY DEF KillDone, InductiveInv, LockSound, InCriticalSection
    <2> QED
      BY <2>1, ConstantsAssumption DEF KillDone, Leave, Gone, InductiveInv, TypeOK
  <1>3. Using' = Using
    BY SameUsing DEF KillDone, Leave, InductiveInv, TypeOK
  <1> QED
    BY <1>1, <1>2, <1>3, InvisibleStep

LEMMA FinalizeFreeRefines ==
    ASSUME InductiveInv, NEW t \in Threads, FinalizeFree(t)
    PROVE  num[t] \in DOMAIN instances /\ Registry!Retire(num[t])
  <1>1. num[t] \in DOMAIN instances /\ num[t] \notin Range(freelist)
    BY LenProperties DEF FinalizeFree, CheckInstanceNumber, InductiveInv, TypeOK
  <1>2. /\ DOMAIN freelist' = DOMAIN freelist \cup {Len(freelist) + 1}
        /\ freelist'[Len(freelist) + 1] = num[t]
        /\ \A m \in DOMAIN freelist : freelist'[m] = freelist[m]
    BY AppendSeq DEF FinalizeFree, InductiveInv, TypeOK
  <1>3. Range(freelist') = Range(freelist) \cup {num[t]}
    BY <1>2 DEF Range
  <1>4. Gone' = Gone /\ Using' = Using
    BY SameGone, SameUsing DEF FinalizeFree, Leave, objectVars, InductiveInv, TypeOK
  <1> QED
    BY <1>1, <1>3, <1>4 DEF FinalizeFree, Registry!Retire

\* with_instance gets an object that nobody uses, or finds it killed.
LEMMA GetRefines ==
    ASSUME InductiveInv, NEW t \in Threads, Get(t)
    PROVE  \/ num[t] \in DOMAIN instances /\ Registry!Begin(t, num[t])
           \/ UNCHANGED Registry!vars
  <1>1. num[t] \in DOMAIN instances /\ DOMAIN locks = DOMAIN instances
    BY LenProperties DEF Get, CheckInstanceNumber, InductiveInv, TypeOK, LocalSound
  <1>2. UNCHANGED <<instances, freelist>>
    BY DEF Get
  <1>3. Gone' = Gone
    BY SameGone DEF Get, objectVars, InductiveInv, TypeOK
  <1>4. CASE instances[num[t]] = NoObject
    <2>1. Using' = Using
      BY <1>4, SameUsing DEF Get, InductiveInv, TypeOK
    <2> QED
      BY <1>2, <1>3, <2>1, InvisibleStep
  <1>5. CASE instances[num[t]] # NoObject
    <2>1. Using' = [Using EXCEPT ![t] = instances[num[t]]]
      BY <1>5 DEF Get, Using, InductiveInv, TypeOK
    <2>2. Using[t] = NoObject
      BY DEF Get, Using
    <2>3. \A u \in Threads : Using[u] # instances[num[t]]
      <3> SUFFICES ASSUME NEW u \in Threads, pc[u] = "func", obj[u] = instances[num[t]]
                   PROVE  FALSE
        BY <1>5 DEF Using
      <3>1. instances[num[u]] = obj[u] /\ num[u] \in DOMAIN instances /\ locks[num[u]] = u
        BY <1>1 DEF InductiveInv, FuncSafe, LockSound, HoldsInstance
      <3>2. num[u] = num[t]
        BY <1>1, <1>5, <3>1 DEF InductiveInv, OneOwner, SlotOwns
      <3> QED
        BY <3>1, <3>2, ConstantsAssumption DEF Get
    <2> QED
      BY <1>1, <1>2, <1>3, <1>5, <2>1, <2>2, <2>3 DEF Registry!Begin
  <1> QED
    BY <1>4, <1>5

LEMMA ReturnRefines ==
    ASSUME InductiveInv, NEW t \in Threads, Return(t)
    PROVE  Registry!End(t)
  <1>1. UNCHANGED <<instances, freelist>>
    BY DEF Return
  <1>2. Gone' = Gone
    BY SameGone DEF Return, Leave, objectVars, InductiveInv, TypeOK
  <1>3. Using' = [Using EXCEPT ![t] = NoObject] /\ Using[t] # NoObject
    BY DEF Return, Leave, Using, InductiveInv, TypeOK, LocalSound
  <1> QED
    BY <1>1, <1>2, <1>3 DEF Registry!End

\* Spec implements Registry!Spec, the formula RefinesRegistry: instance numbers
\* as instance_manager.h hands them out, kills and recycles them behave like the
\* registry of its class comment, under every interleaving of the callers.
THEOREM ManagerImplementsRegistry == Spec => RefinesRegistry
  <1>1. Init => Registry!Init
    BY EmptySeq, LenProperties DEF Init, Registry!Init, Range, Gone, Using
  <1>2. InductiveInv /\ [Next]_vars => [Registry!Next]_(Registry!vars)
    <2> SUFFICES ASSUME InductiveInv, [Next]_vars
                 PROVE  Registry!Next \/ UNCHANGED Registry!vars
      OBVIOUS
    <2>1. ASSUME NEW t \in Threads, Start(t)
          PROVE  UNCHANGED Registry!vars
      BY <2>1, CallAddRefines, QuietStepRefines
      DEF Start, CallKill, CallFinalize, CallWithInstance, Operations
    <2>2. ASSUME NEW t \in Threads, Step(t)
          PROVE  Registry!Next \/ UNCHANGED Registry!vars
      <3>1. CASE LockManager(t) \/ Rejected(t) \/ Accepted(t) \/ FinalizeLeaked(t) \/ Killed(t)
        BY <3>1, QuietStepRefines
      <3>2. CASE AddReuse(t) \/ AddAppend(t)
        BY <3>2, AddRefines DEF Registry!Next
      <3>3. CASE KillTake(t)
        BY <3>3, KillTakeRefines DEF Registry!Next
      <3>4. CASE KillDone(t)
        BY <3>4, KillDoneRefines
      <3>5. CASE FinalizeFree(t)
        BY <3>5, FinalizeFreeRefines DEF Registry!Next
      <3>6. CASE Get(t)
        BY <3>6, GetRefines DEF Registry!Next
      <3>7. CASE Return(t)
        BY <3>7, ReturnRefines DEF Registry!Next
      <3> QED
        BY <2>2, <3>1, <3>2, <3>3, <3>4, <3>5, <3>6, <3>7 DEF Step
    <2>3. CASE UNCHANGED vars
      BY <2>3, InvisibleStep, SameGone, SameUsing DEF vars, managerVars, objectVars, threadVars
    <2> QED
      BY <2>1, <2>2, <2>3 DEF Next
  <1> QED
    BY <1>1, <1>2, Inductive, PTL DEF Spec, RefinesRegistry, Registry!Spec

=============================================================================
