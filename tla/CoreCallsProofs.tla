--------------------------- MODULE CoreCallsProofs --------------------------
(***************************************************************************)
(* The safety properties of the methods of ToxCoreImpl and their native    *)
(* functions, for all threads and objects and for every width of the       *)
(* integers, whatever the bounds are.                                      *)
(*                                                                         *)
(* CallsInv is the inductive invariant.  Apart from types it says that an  *)
(* object has one user (Exclusive), which is what makes the size a thread  *)
(* asked for still the right one when it copies, that toxcore keeps the    *)
(* unsigned form of the nospam value the client set last (NospamKept), and *)
(* what the arguments of a call have become when the checks let it pass    *)
(* (CallSound).  MeantSound, on top of it, says what the number of a       *)
(* waiting call can still name.                                            *)
(***************************************************************************)
EXTENDS CoreCalls, ProofLemmas

-----------------------------------------------------------------------------
(* Numbers *)

\* A value of a type is the remainder of itself, and adding the modulus once or
\* subtracting it once does not change the remainder.
LEMMA Remainders ==
    ASSUME NEW m \in Nat \ {0}, NEW x \in 0 .. m - 1
    PROVE  x % m = x /\ (x + m) % m = x /\ (x - m) % m = x
  <1>1. x % m = x
    OBVIOUS
  <1>2. (x + m) % m = x
    OBVIOUS
  <1>3. (x - m) % m = x
    OBVIOUS
  <1> QED
    BY <1>1, <1>2, <1>3

\* The two halves of the ints.
LEMMA IntRange ==
    \E h \in Nat \ {0} :
        /\ h = 2^(IntBits - 1) /\ 2^IntBits = h + h
        /\ Ints = -h .. h - 1 /\ UnsignedInts(IntBits) = 0 .. h + h - 1
  <1>1. IntBits - 1 \in Nat /\ (IntBits - 1) + 1 = IntBits
    BY CallsAssumption
  <1>2. PICK h \in Nat \ {0} : h = 2^(IntBits - 1)
    BY <1>1, PowerPositive
  <1>3. 2^((IntBits - 1) + 1) = 2 * h
    BY <1>1, <1>2, PowerDouble
  <1>4. 2 * h = h + h
    OBVIOUS
  <1>5. 2^IntBits = h + h
    BY <1>1, <1>3, <1>4
  <1> QED
    BY <1>2, <1>5 DEF Ints, SignedInts, UnsignedInts

\* A C++ function that takes an int as unsigned and another that returns it as signed
\* give the client back what it passed.
LEMMA SignedOfUnsigned ==
    ASSUME NEW x \in Ints
    PROVE  /\ Unsigned(x, IntBits) \in UnsignedInts(IntBits)
           /\ Signed(Unsigned(x, IntBits), IntBits) = x
  <1>1. PICK h \in Nat \ {0} :
            /\ h = 2^(IntBits - 1) /\ 2^IntBits = h + h
            /\ Ints = -h .. h - 1 /\ UnsignedInts(IntBits) = 0 .. h + h - 1
    BY IntRange
  <1>2. x \in -h .. h - 1 /\ h + h \in Nat \ {0}
    BY <1>1
  <1>3. /\ Unsigned(x, IntBits) = x % (h + h)
        /\ Signed(x % (h + h), IntBits) = (((x % (h + h)) + h) % (h + h)) - h
    BY <1>1 DEF Signed, Unsigned
  <1>4. CASE x >= 0
    <2>1. x % (h + h) = x
      BY <1>2, <1>4, Remainders
    <2>2. (x + h) % (h + h) = x + h
      BY <1>2, <1>4, Remainders
    <2>3. Unsigned(x, IntBits) = x
      BY <1>3, <2>1
    <2>4. Signed(x, IntBits) = (x + h) - h
      BY <1>3, <2>1, <2>2
    <2>5. (x + h) - h = x /\ x \in 0 .. h + h - 1
      BY <1>2, <1>4
    <2> QED
      BY <1>1, <2>3, <2>4, <2>5
  <1>5. CASE x < 0
    <2>1. PICK y \in 0 .. h + h - 1 : y = x + (h + h)
      BY <1>2, <1>5
    <2>2. (y - (h + h)) % (h + h) = y /\ x = y - (h + h)
      BY <1>2, <2>1, Remainders
    <2>3. x % (h + h) = y
      BY <2>2
    <2>4. PICK z \in 0 .. h + h - 1 : z = x + h
      BY <1>2, <1>5
    <2>5. (z + (h + h)) % (h + h) = z /\ y + h = z + (h + h)
      BY <1>2, <2>1, <2>4, Remainders
    <2>6. (y + h) % (h + h) = z
      BY <2>5
    <2> QED
      BY <1>1, <1>2, <1>3, <2>1, <2>3, <2>4, <2>6
  <1> QED
    BY <1>2, <1>4, <1>5

\* No other unsigned value is the nospam of 0.
LEMMA UnsignedZero == 0 \in Ints /\ Unsigned(0, IntBits) = 0
  <1>1. PICK h \in Nat \ {0} : 2^IntBits = h + h /\ Ints = -h .. h - 1
    BY IntRange
  <1>2. h + h \in Nat \ {0} /\ 0 \in 0 .. h + h - 1
    OBVIOUS
  <1> QED
    BY <1>1, <1>2, Remainders DEF Unsigned

\* A port that passed the check loses no bits.
LEMMA PortKept == ASSUME NEW port \in Ports PROVE Port(port) = port
  <1>1. PortBits \in Nat
    BY CallsAssumption
  <1>2. PICK m \in Nat \ {0} : m = 2^PortBits
    BY <1>1, PowerPositive
  <1>3. port \in 0 .. m - 1 /\ Port(port) = port % m
    BY <1>2 DEF Ports, UnsignedInts, Port, Unsigned
  <1> QED
    BY <1>2, <1>3, Remainders

\* toxcore is given the size of a file, or UINT64_MAX for a stream and only then.
LEMMA FileSizeKept ==
    ASSUME NEW size \in Ints
    PROVE  /\ FileSize(size) = Streaming <=> size < 0
           /\ size >= 0 => Signed(FileSize(size), IntBits) = size
  <1>1. PICK h \in Nat \ {0} : 2^IntBits = h + h /\ Ints = -h .. h - 1
    BY IntRange
  <1>2. size \in -h .. h - 1 /\ Streaming = h + h - 1 /\ h + h \in Nat \ {0}
    BY <1>1 DEF Streaming
  <1>3. CASE size < 0
    <2>1. PICK y \in 0 .. h + h - 1 : y = h + h - 1
      BY <1>2
    <2>2. (y - (h + h)) % (h + h) = y /\ y - (h + h) = -1
      BY <1>2, <2>1, Remainders
    <2>3. FileSize(size) = (-1) % (h + h)
      BY <1>1, <1>3 DEF FileSize, Unsigned
    <2> QED
      BY <1>2, <1>3, <2>1, <2>2, <2>3
  <1>4. CASE size >= 0
    <2>1. FileSize(size) = Unsigned(size, IntBits)
      BY <1>2, <1>4 DEF FileSize
    <2>2. Signed(FileSize(size), IntBits) = size
      BY <2>1, SignedOfUnsigned
    <2>3. size % (h + h) = size /\ size # h + h - 1
      BY <1>2, <1>4, Remainders
    <2> QED
      BY <1>1, <1>2, <1>4, <2>1, <2>2, <2>3 DEF Unsigned
  <1> QED
    BY <1>2, <1>3, <1>4

-----------------------------------------------------------------------------
(* The invariant *)

\* What toxcore keeps for an object.
ToxState == [name : Nat, friends : Nat, nospam : UnsignedInts(IntBits)]

CallsTypeOK ==
    /\ bound \in Seq(Objects \cup {NoObject})
    /\ retired \subseteq DOMAIN bound
    /\ using \in [Threads -> Objects \cup {NoObject}]
    /\ tox \in [Objects -> ToxState]
    /\ lastSet \in [Objects -> Ints]
    /\ call = [t \in Threads |-> call[t]]
    /\ at \in [Threads -> Places]

\* An object is used by one thread, and a thread in a tox function has one.
Exclusive ==
    /\ \A t, u \in Threads : t # u => using[t] # using[u] \/ using[t] = NoObject
    /\ \A t \in Threads : at[t] \in {"func", "data", "done"} => using[t] # NoObject

NospamKept == \A o \in Objects : tox[o].nospam = Unsigned(lastSet[o], IntBits)

\* The numbers of a call that has passed the checks.
ArgumentsSound(c) ==
    /\ c.op = "bootstrap" => c.toxPort = c.port
    /\ c.op = "toxNew" =>
           c.optPort = c.port /\ (c.proxied => c.optProxyPort = c.proxyPort)
    /\ c.op = "fileSend" =>
           /\ c.toxSize = Streaming <=> c.size < 0
           /\ c.size >= 0 => Signed(c.toxSize, IntBits) = c.size

\* A call, its arguments and the place of its result.
CallSound(c) ==
    /\ ArgumentsSound(c)
    /\ c.op \notin {"none", "toxNew"} => c.n \in DOMAIN bound
    /\ c.op = "setInfo" => c.info \in Nat
    /\ c.op = "setNospam" => c.value \in Ints
    /\ c.op = "getNospam" => c \in [op : {"getNospam"}, n : Nat, value : Ints]
    /\ c.op = "getVector" =>
           c \in [op : {"getVector"}, n : Nat, attribute : Attributes, size : Nat]

\* How far a call is, and its result: of get_vector after the first of its two
\* questions, and of the getter of nospam.
ResultSound(t) ==
    /\ at[t] = "lock" => call[t].op # "none"
    /\ at[t] = "data" =>
           call[t].op = "getVector" /\ call[t].size = Size(using[t], call[t].attribute)
    /\ (call[t].op = "getNospam" /\ at[t] = "done") => call[t].value = lastSet[using[t]]

CallsInv ==
    /\ CallsTypeOK
    /\ Exclusive
    /\ NospamKept
    /\ \A t \in Threads : CallSound(call[t])
    /\ \A t \in Threads : ResultSound(t)
    /\ AbortsOnlyUnchecked

LEMMA InvImplies == CallsInv => VectorFits /\ AbortsOnlyUnchecked /\ NumbersKept
  <1> SUFFICES ASSUME CallsInv
               PROVE  VectorFits /\ AbortsOnlyUnchecked /\ NumbersKept
    OBVIOUS
  <1>1. VectorFits
    BY DEF CallsInv, ResultSound, VectorFits
  <1>2. NumbersKept
    BY DEF CallsInv, CallSound, ArgumentsSound, ResultSound, NumbersKept
  <1> QED
    BY <1>1, <1>2 DEF CallsInv

-----------------------------------------------------------------------------
(* One lemma per kind of step *)

LEMMA CallsInitInductive == CallsInit => CallsInv
  <1> SUFFICES ASSUME CallsInit PROVE CallsInv
    OBVIOUS
  <1>1. 0 \in UnsignedInts(IntBits)
    <2>1. PICK h \in Nat \ {0} : UnsignedInts(IntBits) = 0 .. h + h - 1
      BY IntRange
    <2> QED
      BY <2>1
  <1>2. CallsTypeOK
    BY <1>1, UnsignedZero, EmptySeq
       DEF CallsInit, Registry!Init, CallsTypeOK, ToxState, NewTox, Places
  <1>3. Exclusive
    BY DEF CallsInit, Registry!Init, Exclusive
  <1>4. NospamKept
    BY UnsignedZero DEF CallsInit, NewTox, NospamKept
  <1>5. \A t \in Threads : CallSound(call[t]) /\ ResultSound(t)
    BY DEF CallsInit, NoCall, CallSound, ArgumentsSound, ResultSound
  <1>6. AbortsOnlyUnchecked
    BY DEF CallsInit, NoCall, AbortsOnlyUnchecked
  <1> QED
    BY <1>2, <1>3, <1>4, <1>5, <1>6 DEF CallsInv

\* A method calls its native function with arguments that are sound if the
\* assertions hold.
LEMMA NativeInductive ==
    ASSUME CallsInv, NEW t \in Threads, NEW c, NEW assertion \in BOOLEAN,
           Native(t, c, assertion), c.op # "none", assertion => CallSound(c),
           ~assertion => c.op \in {"toxNew", "friendByPublicKey"}
    PROVE  CallsInv'
  <1>1. UNCHANGED <<bound, retired, gone, using, tox, lastSet>> /\ at[t] = "client"
    BY DEF Native, Running, registryVars
  <1>2. CASE assertion
    <2>1. /\ call' = [call EXCEPT ![t] = c] /\ at' = [at EXCEPT ![t] = "lock"] /\ UNCHANGED aborted
      BY <1>2 DEF Native, To
    <2>2. /\ call'[t] = c /\ \A u \in Threads \ {t} : call'[u] = call[u]
          /\ at'[t] = "lock" /\ \A u \in Threads \ {t} : at'[u] = at[u]
          /\ call' = [u \in Threads |-> call'[u]] /\ at' \in [Threads -> Places]
      BY <2>1 DEF CallsInv, CallsTypeOK, Places
    <2>3. CallsTypeOK'
      BY <1>1, <2>2 DEF CallsInv, CallsTypeOK
    <2>4. Exclusive' /\ NospamKept'
      BY <1>1, <2>2 DEF CallsInv, Exclusive, NospamKept
    <2>5. \A u \in Threads : CallSound(call[u])'
      BY <1>1, <1>2, <2>2 DEF CallsInv, CallSound, ArgumentsSound
    <2>6. \A u \in Threads : ResultSound(u)'
      BY ZenonT(60), <1>1, <2>2 DEF CallsInv, ResultSound, Size
    <2>7. AbortsOnlyUnchecked'
      BY <2>1 DEF CallsInv, AbortsOnlyUnchecked
    <2> QED
      BY <2>3, <2>4, <2>5, <2>6, <2>7 DEF CallsInv
  <1>3. CASE ~assertion
    <2>1. /\ aborted' = c /\ call' = [u \in Threads |-> NoCall] /\ at' = [u \in Threads |-> "client"]
      BY <1>3 DEF Native
    <2>2. CallsTypeOK'
      BY <1>1, <2>1 DEF CallsInv, CallsTypeOK, Places
    <2>3. Exclusive' /\ NospamKept'
      BY <1>1, <2>1 DEF CallsInv, Exclusive, NospamKept
    <2>4. \A u \in Threads : CallSound(call[u])' /\ ResultSound(u)'
      BY <2>1 DEF NoCall, CallSound, ArgumentsSound, ResultSound
    <2>5. AbortsOnlyUnchecked'
      BY <1>3, <2>1 DEF AbortsOnlyUnchecked
    <2> QED
      BY <2>2, <2>3, <2>4, <2>5 DEF CallsInv
  <1> QED
    BY <1>2, <1>3

\* The methods: what the checks in Kotlin let pass, the assertions in C++ accept, and
\* the arguments are converted without loss.
LEMMA ToxNewInductive ==
    ASSUME CallsInv, NEW t \in Threads, NEW proxied \in BOOLEAN, NEW proxyPort \in Ints,
           NEW port \in Ints, ToxNew(t, proxied, proxyPort, port)
    PROVE  CallsInv'
  <1> DEFINE c == [op |-> "toxNew", proxied |-> proxied, proxyPort |-> proxyPort, port |-> port,
                   optProxyPort |-> Port(proxyPort), optPort |-> Port(port)]
             ok == AssertOptions(proxied, proxyPort, port)
  <1>1. c.op = "toxNew" /\ c.op # "none" /\ ok \in BOOLEAN /\ Native(t, c, ok)
    BY DEF ToxNew, AssertOptions, AssertPort
  <1>2. ok => CallSound(c)
    BY PortKept DEF AssertOptions, AssertPort, CallSound, ArgumentsSound
  <1> HIDE DEF c, ok
  <1> QED
    BY <1>1, <1>2, NativeInductive

LEMMA BootstrapInductive ==
    ASSUME CallsInv, NEW t \in Threads, NEW n \in DOMAIN bound, NEW port \in Ints,
           NEW key \in Arrays, Bootstrap(t, n, port, key)
    PROVE  CallsInv'
  <1> DEFINE c == [op |-> "bootstrap", n |-> n, port |-> port, toxPort |-> Port(port), key |-> key]
  <1>1. port \in Ports /\ Native(t, c, TRUE)
    BY DEF Bootstrap, checkBootstrapArguments, AssertPort, AssertLength
  <1>2. CallSound(c) /\ c.op # "none"
    BY <1>1, PortKept DEF CallSound, ArgumentsSound
  <1> HIDE DEF c
  <1> QED
    BY <1>1, <1>2, NativeInductive

LEMMA FriendAddInductive ==
    ASSUME CallsInv, NEW t \in Threads, NEW n \in DOMAIN bound, NEW key \in Arrays,
           FriendAdd(t, n, key) \/ FriendAddNorequest(t, n, key)
    PROVE  CallsInv'
  <1> SUFFICES ASSUME NEW op \in {"friendAdd", "friendAddNorequest"},
                      Native(t, [op |-> op, n |-> n, key |-> key], TRUE)
               PROVE  CallsInv'
    BY DEF FriendAdd, FriendAddNorequest, checkLength, AssertLength
  <1> DEFINE c == [op |-> op, n |-> n, key |-> key]
  <1>1. CallSound(c) /\ c.op # "none"
    BY DEF CallSound, ArgumentsSound
  <1> HIDE DEF c
  <1> QED
    BY <1>1, NativeInductive DEF c

LEMMA FriendByPublicKeyInductive ==
    ASSUME CallsInv, NEW t \in Threads, NEW n \in DOMAIN bound, NEW key \in Arrays,
           FriendByPublicKey(t, n, key)
    PROVE  CallsInv'
  <1> DEFINE c == [op |-> "friendByPublicKey", n |-> n, key |-> key]
             ok == AssertLength(key, KeySize)
  <1>1. Native(t, c, ok) /\ ok \in BOOLEAN /\ c.op = "friendByPublicKey" /\ c.op # "none"
    BY DEF FriendByPublicKey, AssertLength
  <1>2. ok => CallSound(c)
    BY DEF CallSound, ArgumentsSound
  <1> HIDE DEF c, ok
  <1> QED
    BY <1>1, <1>2, NativeInductive

LEMMA FileSendInductive ==
    ASSUME CallsInv, NEW t \in Threads, NEW n \in DOMAIN bound, NEW size \in Ints,
           FileSend(t, n, size)
    PROVE  CallsInv'
  <1> DEFINE c == [op |-> "fileSend", n |-> n, size |-> size, toxSize |-> FileSize(size)]
  <1>1. CallSound(c) /\ c.op # "none"
    BY FileSizeKept DEF CallSound, ArgumentsSound
  <1>2. Native(t, c, TRUE)
    BY DEF FileSend
  <1> HIDE DEF c
  <1> QED
    BY <1>1, <1>2, NativeInductive

LEMMA SetInfoInductive ==
    ASSUME CallsInv, NEW t \in Threads, NEW n \in DOMAIN bound, NEW info \in Infos,
           SetInfo(t, n, info)
    PROVE  CallsInv'
  <1> DEFINE c == [op |-> "setInfo", n |-> n, info |-> info]
  <1>1. info \in Nat /\ Native(t, c, TRUE)
    <2>1. MaxInfo \in Nat
      BY CallsAssumption
    <2>2. info # Null /\ Native(t, c, TRUE)
      BY DEF SetInfo, checkInfoNotNull
    <2>3. info \in 0 .. MaxInfo
      BY <2>2 DEF Infos
    <2>4. info \in Nat
      <3> HIDE DEF c
      <3> QED
        BY <2>1, <2>3
    <2> QED
      BY <2>2, <2>4
  <1>2. CallSound(c) /\ c.op # "none"
    BY <1>1 DEF CallSound, ArgumentsSound
  <1> HIDE DEF c
  <1> QED
    BY <1>1, <1>2, NativeInductive

LEMMA SetNospamInductive ==
    ASSUME CallsInv, NEW t \in Threads, NEW n \in DOMAIN bound, NEW value \in Ints,
           SetNospam(t, n, value)
    PROVE  CallsInv'
  <1> DEFINE c == [op |-> "setNospam", n |-> n, value |-> value]
  <1>1. CallSound(c) /\ c.op # "none" /\ Native(t, c, TRUE)
    BY DEF SetNospam, CallSound, ArgumentsSound
  <1> HIDE DEF c
  <1> QED
    BY <1>1, NativeInductive

LEMMA GetInductive ==
    ASSUME CallsInv, NEW t \in Threads, NEW n \in DOMAIN bound,
           GetNospam(t, n) \/ \E a \in Attributes : GetVector(t, n, a)
    PROVE  CallsInv'
  <1>1. n \in Nat
    BY LenProperties DEF CallsInv, CallsTypeOK
  <1>2. CASE GetNospam(t, n)
    <2> DEFINE c == [op |-> "getNospam", n |-> n, value |-> 0]
    <2>1. CallSound(c) /\ c.op # "none" /\ Native(t, c, TRUE)
      BY <1>1, <1>2, UnsignedZero DEF GetNospam, CallSound, ArgumentsSound
    <2> HIDE DEF c
    <2> QED
      BY <2>1, NativeInductive
  <1>3. ASSUME NEW a \in Attributes, GetVector(t, n, a)
        PROVE  CallsInv'
    <2> DEFINE c == [op |-> "getVector", n |-> n, attribute |-> a, size |-> 0]
    <2>1. CallSound(c) /\ c.op # "none" /\ Native(t, c, TRUE)
      BY <1>1, <1>3 DEF GetVector, CallSound, ArgumentsSound
    <2> HIDE DEF c
    <2> QED
      BY <2>1, NativeInductive
  <1> QED
    BY <1>2, <1>3

\* The functions whose arguments are passed on as they are.
LEMMA PlainInductive ==
    ASSUME CallsInv, NEW t \in Threads, NEW n \in DOMAIN bound,
           \/ FriendDelete(t, n) \/ FriendGetPublicKey(t, n)
           \/ GetNetwork(t, n) \/ GetKeys(t, n) \/ Status(t, n)
           \/ FileCommand(t, n) \/ FileChunk(t, n) \/ Interact(t, n) \/ SendPacket(t, n)
    PROVE  CallsInv'
  <1> DEFINE Ops == {"friendDelete", "friendGetPublicKey", "getNetwork", "getKeys", "status",
                     "fileCommand", "fileChunk", "interact", "sendPacket"}
  <1>1. PICK op \in Ops : Native(t, [op |-> op, n |-> n], TRUE)
    BY DEF FriendDelete, FriendGetPublicKey, GetNetwork, GetKeys, Status, FileCommand, FileChunk,
           Interact, SendPacket
  <1> DEFINE c == [op |-> op, n |-> n]
  <1>2. CallSound(c) /\ c.op # "none"
    BY DEF CallSound, ArgumentsSound
  <1> HIDE DEF c
  <1> QED
    BY <1>1, <1>2, NativeInductive DEF c

\* A step of t that is over with its call, or moves from one place to another, and
\* leaves what toxcore keeps alone.
LEMMA MoveInductive ==
    ASSUME CallsInv, NEW t \in Threads, CallsTypeOK', Exclusive',
           DOMAIN bound \subseteq DOMAIN bound',
           \A u \in Threads \ {t} : at'[u] = at[u] /\ call'[u] = call[u] /\ using'[u] = using[u],
           \/ call'[t] = NoCall /\ at'[t] = "client"
           \/ CallSound(call[t])' /\ ResultSound(t)',
           UNCHANGED <<tox, lastSet, aborted>>
    PROVE  CallsInv'
  <1>1. NospamKept' /\ AbortsOnlyUnchecked'
    BY DEF CallsInv, NospamKept, AbortsOnlyUnchecked
  <1>2. \A u \in Threads \ {t} : CallSound(call[u])'
    BY DEF CallsInv, CallSound, ArgumentsSound
  <1>3. ASSUME NEW u \in Threads, u # t
        PROVE  ResultSound(u)'
    <2>1. ResultSound(u) /\ at'[u] = at[u] /\ call'[u] = call[u] /\ using'[u] = using[u]
      BY <1>3 DEF CallsInv
    <2> QED
      BY <2>1 DEF ResultSound, Size
  <1>4. CallSound(call[t])' /\ ResultSound(t)'
    BY DEF NoCall, CallSound, ArgumentsSound, ResultSound
  <1> QED
    BY <1>1, <1>2, <1>3, <1>4 DEF CallsInv

\* tox_new has returned: the object has a number, or there is none.
LEMMA NewReturnsInductive ==
    ASSUME CallsInv, NEW t \in Threads, NewReturns(t)
    PROVE  CallsInv'
  <1>1. /\ call' = [call EXCEPT ![t] = NoCall] /\ at' = [at EXCEPT ![t] = "client"]
        /\ UNCHANGED <<tox, lastSet, aborted>>
    BY DEF NewReturns, To
  <1>2. /\ bound' \in Seq(Objects \cup {NoObject}) /\ retired' \subseteq DOMAIN bound'
        /\ DOMAIN bound \subseteq DOMAIN bound' /\ using' = using
    <2>1. CASE UNCHANGED registryVars
      BY <2>1 DEF registryVars, CallsInv, CallsTypeOK
    <2>2. ASSUME NEW o \in Objects, Registry!Register(o)
          PROVE  /\ bound' \in Seq(Objects \cup {NoObject}) /\ retired' \subseteq DOMAIN bound'
                 /\ DOMAIN bound \subseteq DOMAIN bound' /\ using' = using
      <3>1. bound \in Seq(Objects \cup {NoObject}) /\ retired \subseteq DOMAIN bound
        BY DEF CallsInv, CallsTypeOK
      <3>2. ASSUME NEW n \in retired, bound' = [bound EXCEPT ![n] = o], retired' = retired \ {n}
            PROVE  /\ bound' \in Seq(Objects \cup {NoObject}) /\ DOMAIN bound' = DOMAIN bound
        BY <3>1, <3>2, UpdateSeq
      <3>3. CASE bound' = Append(bound, o) /\ retired' = retired
        BY <3>1, <3>3, AppendSeq, <2>2 DEF Registry!Register
      <3> QED
        BY <2>2, <3>1, <3>2, <3>3 DEF Registry!Register
    <2> QED
      BY <2>1, <2>2 DEF NewReturns
  <1>3. CallsTypeOK' /\ Exclusive'
    BY <1>1, <1>2 DEF CallsInv, CallsTypeOK, Exclusive, Places
  <1>4. /\ call'[t] = NoCall /\ at'[t] = "client"
        /\ \A u \in Threads \ {t} : at'[u] = at[u] /\ call'[u] = call[u] /\ using'[u] = using[u]
    BY <1>1, <1>2 DEF CallsInv, CallsTypeOK
  <1> QED
    BY <1>1, <1>2, <1>3, <1>4, MoveInductive

\* with_instance has locked the instance: nobody else uses the object.
LEMMA EnterInductive ==
    ASSUME CallsInv, NEW t \in Threads, Enter(t)
    PROVE  CallsInv'
  <1> DEFINE o == bound[call[t].n]
  <1>1. /\ at[t] = "lock" /\ at' = [at EXCEPT ![t] = "func"] /\ using' = [using EXCEPT ![t] = o]
        /\ o # NoObject /\ \A u \in Threads : using[u] # o
        /\ UNCHANGED <<bound, retired, tox, lastSet, call, aborted>>
    BY DEF Enter, Running, To, Registry!Begin
  <1>2. o \in Objects
    <2>1. call[t].n \in DOMAIN bound
      BY DEF Enter, Running, CallsInv, CallSound, ResultSound
    <2> QED
      BY <1>1, <2>1, ElementOfSeq, LenProperties DEF CallsInv, CallsTypeOK
  <1> HIDE DEF o
  <1>3. /\ at'[t] = "func" /\ using'[t] = o
        /\ \A u \in Threads \ {t} : at'[u] = at[u] /\ call'[u] = call[u] /\ using'[u] = using[u]
    BY <1>1 DEF CallsInv, CallsTypeOK
  <1>4. CallsTypeOK'
    BY <1>1, <1>2 DEF CallsInv, CallsTypeOK, Places
  <1>5. Exclusive'
    BY <1>1, <1>3 DEF CallsInv, Exclusive
  <1>6. CallSound(call[t])' /\ ResultSound(t)'
    BY <1>1, <1>3 DEF CallsInv, CallSound, ArgumentsSound, ResultSound
  <1> QED
    BY <1>1, <1>3, <1>4, <1>5, <1>6, MoveInductive

\* The instance was killed, or the call returns and the instance is unlocked.
LEMMA LeaveInductive ==
    ASSUME CallsInv, NEW t \in Threads, EnterKilled(t) \/ Return(t)
    PROVE  CallsInv'
  <1>1. /\ call' = [call EXCEPT ![t] = NoCall] /\ at' = [at EXCEPT ![t] = "client"]
        /\ using' = using \/ using' = [using EXCEPT ![t] = NoObject]
        /\ UNCHANGED <<bound, retired, tox, lastSet, aborted>>
    BY DEF EnterKilled, Return, To, registryVars, Registry!End
  <1>2. /\ call'[t] = NoCall /\ at'[t] = "client"
        /\ \A u \in Threads \ {t} : at'[u] = at[u] /\ call'[u] = call[u] /\ using'[u] = using[u]
        /\ using'[t] \in {using[t], NoObject}
    BY <1>1 DEF CallsInv, CallsTypeOK
  <1>3. CallsTypeOK'
    BY <1>1 DEF CallsInv, CallsTypeOK, Places
  <1>4. Exclusive'
    BY <1>2 DEF CallsInv, Exclusive
  <1> QED
    BY <1>1, <1>2, <1>3, <1>4, MoveInductive

\* get_vector::make: the size, and the data.
LEMMA GetSizeInductive ==
    ASSUME CallsInv, NEW t \in Threads, GetSize(t)
    PROVE  CallsInv'
  <1> DEFINE o == using[t]
             size == Size(o, call[t].attribute)
             c == [call[t] EXCEPT !.size = size]
  <1>1. /\ at[t] = "func" /\ at' = [at EXCEPT ![t] = "data"]
        /\ call' = [call EXCEPT ![t] = [call[t] EXCEPT !.size = size]]
        /\ UNCHANGED <<bound, retired, using, tox, lastSet, aborted>>
    BY DEF GetSize, Running, To, registryVars
  <1>2. call[t] \in [op : {"getVector"}, n : Nat, attribute : Attributes, size : Nat]
        /\ call[t].n \in DOMAIN bound
    BY DEF GetSize, CallsInv, CallSound
  <1>3. o \in Objects /\ tox[o] \in ToxState
    BY <1>1 DEF CallsInv, CallsTypeOK, Exclusive
  <1>4. size \in Nat
    BY <1>2, <1>3 DEF Size, ToxState, Attributes
  <1> HIDE DEF size
  <1>5. /\ c \in [op : {"getVector"}, n : Nat, attribute : Attributes, size : Nat]
        /\ c.op = "getVector" /\ c.size = size /\ c.attribute = call[t].attribute
        /\ c.n = call[t].n
    BY <1>2, <1>4
  <1> HIDE DEF c
  <1>6. /\ call'[t] = c /\ at'[t] = "data"
        /\ \A u \in Threads \ {t} : at'[u] = at[u] /\ call'[u] = call[u] /\ using'[u] = using[u]
        /\ call' = [u \in Threads |-> call'[u]]
    BY <1>1 DEF CallsInv, CallsTypeOK, c
  <1>7. CallsTypeOK' /\ Exclusive'
    BY <1>1, <1>6 DEF CallsInv, CallsTypeOK, Exclusive, Places
  <1>8. CallSound(call[t])'
    BY <1>1, <1>2, <1>5, <1>6 DEF CallSound, ArgumentsSound
  <1>9. ResultSound(t)'
    BY <1>1, <1>5, <1>6 DEF ResultSound, Size, size
  <1> QED
    BY <1>1, <1>6, <1>7, <1>8, <1>9, MoveInductive

LEMMA GetDataInductive ==
    ASSUME CallsInv, NEW t \in Threads, GetData(t)
    PROVE  CallsInv'
  <1>1. /\ at[t] = "data" /\ at' = [at EXCEPT ![t] = "done"]
        /\ UNCHANGED <<bound, retired, using, call, tox, lastSet, aborted>>
    BY DEF GetData, Running, To, registryVars
  <1>2. call[t].op = "getVector" /\ at'[t] = "done"
        /\ \A u \in Threads \ {t} : at'[u] = at[u] /\ call'[u] = call[u] /\ using'[u] = using[u]
    BY <1>1 DEF CallsInv, CallsTypeOK, ResultSound
  <1>3. CallsTypeOK' /\ Exclusive'
    BY <1>1 DEF CallsInv, CallsTypeOK, Exclusive, Places
  <1>4. CallSound(call[t])' /\ ResultSound(t)'
    BY <1>1, <1>2 DEF CallsInv, CallSound, ArgumentsSound, ResultSound
  <1> QED
    BY <1>1, <1>2, <1>3, <1>4, MoveInductive

\* What one thread does to an object, or the client's toxKill, is not seen by a thread
\* that uses another.
LEMMA OthersSeeNothing ==
    ASSUME CallsInv, NEW u \in Threads, at'[u] = at[u], call'[u] = call[u], using'[u] = using[u],
           bound' = bound \/ DOMAIN bound' = DOMAIN bound, NEW o \in Objects, using[u] # o,
           \A p \in Objects \ {o} : tox'[p] = tox[p] /\ lastSet'[p] = lastSet[p]
    PROVE  CallSound(call[u])' /\ ResultSound(u)'
  <1>1. CallSound(call[u])'
    BY DEF CallsInv, CallSound, ArgumentsSound
  <1>2. at[u] \in {"data", "done"} => using[u] \in Objects \ {o}
    BY DEF CallsInv, CallsTypeOK, Exclusive
  <1>3. ResultSound(u)'
    BY ZenonT(60), <1>2 DEF CallsInv, ResultSound, Size
  <1> QED
    BY <1>1, <1>3

\* A tox function changes the object of its thread only.
LEMMA FuncInductive ==
    ASSUME CallsInv, NEW t \in Threads, NEW ops, NEW new \in ToxState, NEW value \in Ints,
           ToxFunction(t, ops, new), new.nospam = Unsigned(value, IntBits),
           lastSet' = [lastSet EXCEPT ![using[t]] = value],
           call' = [call EXCEPT ![t] = call'[t]], CallSound(call'[t]),
           call'[t].op = "getNospam" => call'[t].value = value
    PROVE  CallsInv'
  <1> DEFINE o == using[t]
  <1>1. /\ at[t] = "func" /\ at' = [at EXCEPT ![t] = "done"] /\ tox' = [tox EXCEPT ![o] = new]
        /\ UNCHANGED <<bound, retired, using, aborted>>
    BY DEF ToxFunction, Running, To, registryVars
  <1>2. o \in Objects /\ \A u \in Threads \ {t} : using[u] # o
    BY <1>1 DEF CallsInv, CallsTypeOK, Exclusive
  <1>3. /\ tox'[o] = new /\ lastSet'[o] = value
        /\ \A p \in Objects \ {o} : tox'[p] = tox[p] /\ lastSet'[p] = lastSet[p]
        /\ at'[t] = "done" /\ \A u \in Threads \ {t} : at'[u] = at[u] /\ call'[u] = call[u]
        /\ call' = [u \in Threads |-> call'[u]]
    BY <1>1, <1>2 DEF CallsInv, CallsTypeOK
  <1>4. CallsTypeOK'
    BY <1>1, <1>2, <1>3 DEF CallsInv, CallsTypeOK, Places
  <1>5. Exclusive'
    BY <1>1, <1>2, <1>3 DEF CallsInv, Exclusive
  <1>6. NospamKept'
    BY <1>3 DEF CallsInv, NospamKept
  <1>7. \A u \in Threads \ {t} : CallSound(call[u])' /\ ResultSound(u)'
    BY <1>1, <1>2, <1>3, OthersSeeNothing
  <1>8. CallSound(call[t])'
    BY <1>1 DEF CallSound, ArgumentsSound
  <1>9. ResultSound(t)'
    BY <1>1, <1>3 DEF ResultSound
  <1>10. AbortsOnlyUnchecked'
    BY <1>1 DEF CallsInv, AbortsOnlyUnchecked
  <1> QED
    BY <1>4, <1>5, <1>6, <1>7, <1>8, <1>9, <1>10 DEF CallsInv

LEMMA FuncOtherInductive ==
    ASSUME CallsInv, NEW t \in Threads, FuncOther(t)
    PROVE  CallsInv'
  <1> DEFINE o == using[t]
             ops == Other \cup {"friendAdd", "friendAddNorequest", "friendDelete", "setInfo"}
  <1>1. o \in Objects
    BY DEF FuncOther, ToxFunction, Running, CallsInv, CallsTypeOK, Exclusive
  <1>2. tox[o] \in ToxState /\ lastSet[o] \in Ints /\ tox[o].nospam = Unsigned(lastSet[o], IntBits)
    BY <1>1 DEF CallsInv, CallsTypeOK, NospamKept
  <1>3. lastSet' = [lastSet EXCEPT ![o] = lastSet[o]] /\ call' = [call EXCEPT ![t] = call'[t]]
    BY <1>1 DEF FuncOther, CallsInv, CallsTypeOK
  <1>4. ToxFunction(t, ops, tox[o]) /\ call'[t] = call[t] /\ call[t].op # "getNospam"
    BY DEF FuncOther, ToxFunction, Other
  <1>5. CallSound(call'[t])
    BY <1>4 DEF CallsInv
  <1> HIDE DEF o, ops
  <1> QED
    BY <1>2, <1>3, <1>4, <1>5, FuncInductive DEF o

\* The functions that change what toxcore keeps, but not the nospam value.
LEMMA FuncChangesInductive ==
    ASSUME CallsInv, NEW t \in Threads,
           FuncAddsFriend(t) \/ FuncDeletesFriend(t) \/ FuncSetsInfo(t)
    PROVE  CallsInv'
  <1> DEFINE o == using[t]
  <1>1. o \in Objects
    BY DEF FuncAddsFriend, FuncDeletesFriend, FuncSetsInfo, ToxFunction, Running, CallsInv,
           CallsTypeOK, Exclusive
  <1>2. tox[o] \in ToxState /\ lastSet[o] \in Ints /\ tox[o].nospam = Unsigned(lastSet[o], IntBits)
    BY <1>1 DEF CallsInv, CallsTypeOK, NospamKept
  <1>3. lastSet' = [lastSet EXCEPT ![o] = lastSet[o]] /\ call' = [call EXCEPT ![t] = call'[t]]
        /\ call'[t] = call[t]
    BY <1>1 DEF FuncAddsFriend, FuncDeletesFriend, FuncSetsInfo, CallsInv, CallsTypeOK
  <1>4. CallSound(call'[t])
    BY <1>3 DEF CallsInv
  <1>5. ASSUME NEW new \in ToxState, NEW ops, ToxFunction(t, ops, new), "getNospam" \notin ops,
               new.nospam = tox[o].nospam
        PROVE  CallsInv'
    <2>1. call[t].op # "getNospam"
      BY <1>5 DEF ToxFunction
    <2> QED
      BY <1>2, <1>3, <1>4, <1>5, <2>1, FuncInductive
  <1>6. CASE FuncAddsFriend(t)
    <2> DEFINE new == [tox[o] EXCEPT !.friends = @ + 1]
               ops == {"friendAdd", "friendAddNorequest"}
    <2>1. new \in ToxState /\ new.nospam = tox[o].nospam
      BY <1>2 DEF ToxState
    <2>2. ToxFunction(t, ops, new) /\ "getNospam" \notin ops
      BY <1>6 DEF FuncAddsFriend
    <2> HIDE DEF new, ops
    <2> QED
      BY <1>5, <2>1, <2>2
  <1>7. CASE FuncDeletesFriend(t)
    <2> DEFINE new == [tox[o] EXCEPT !.friends = @ - 1]
               ops == {"friendDelete"}
    <2>1. new \in ToxState /\ new.nospam = tox[o].nospam
      BY <1>2, <1>7 DEF ToxState, FuncDeletesFriend
    <2>2. ToxFunction(t, ops, new) /\ "getNospam" \notin ops
      BY <1>7 DEF FuncDeletesFriend
    <2> HIDE DEF new, ops
    <2> QED
      BY <1>5, <2>1, <2>2
  <1>8. CASE FuncSetsInfo(t)
    <2> DEFINE new == [tox[o] EXCEPT !.name = call[t].info]
               ops == {"setInfo"}
    <2>1. ToxFunction(t, ops, new) /\ "getNospam" \notin ops
      BY <1>8 DEF FuncSetsInfo
    <2>2. call[t].info \in Nat
      BY <2>1 DEF ToxFunction, CallsInv, CallSound
    <2>3. new \in ToxState /\ new.nospam = tox[o].nospam
      BY <1>2, <2>2 DEF ToxState
    <2> HIDE DEF new, ops
    <2> QED
      BY <1>5, <2>1, <2>3
  <1> QED
    BY <1>6, <1>7, <1>8

LEMMA FuncSetsNospamInductive ==
    ASSUME CallsInv, NEW t \in Threads, FuncSetsNospam(t)
    PROVE  CallsInv'
  <1> DEFINE o == using[t]
             value == call[t].value
             new == [tox[o] EXCEPT !.nospam = Unsigned(value, IntBits)]
             ops == {"setNospam"}
  <1>1. o \in Objects /\ tox[o] \in ToxState
    BY DEF FuncSetsNospam, ToxFunction, Running, CallsInv, CallsTypeOK, Exclusive
  <1>2. ToxFunction(t, ops, new) /\ call[t].op = "setNospam"
    BY DEF FuncSetsNospam, ToxFunction
  <1>3. value \in Ints
    BY <1>2 DEF CallsInv, CallSound
  <1>4. Unsigned(value, IntBits) \in UnsignedInts(IntBits)
    BY <1>3, SignedOfUnsigned
  <1>5. new \in ToxState /\ new.nospam = Unsigned(value, IntBits)
    BY <1>1, <1>4 DEF ToxState
  <1>6. lastSet' = [lastSet EXCEPT ![using[t]] = value] /\ call' = [call EXCEPT ![t] = call'[t]]
        /\ call'[t] = call[t] /\ CallSound(call'[t])
    BY DEF FuncSetsNospam, CallsInv, CallsTypeOK
  <1> HIDE DEF new, ops, value
  <1> QED
    BY <1>2, <1>3, <1>5, <1>6, FuncInductive

LEMMA FuncGetsNospamInductive ==
    ASSUME CallsInv, NEW t \in Threads, FuncGetsNospam(t)
    PROVE  CallsInv'
  <1> DEFINE o == using[t]
             value == Signed(tox[o].nospam, IntBits)
             c == [call[t] EXCEPT !.value = value]
             ops == {"getNospam"}
  <1>1. o \in Objects
    BY DEF FuncGetsNospam, ToxFunction, Running, CallsInv, CallsTypeOK, Exclusive
  <1>2. tox[o] \in ToxState /\ lastSet[o] \in Ints /\ tox[o].nospam = Unsigned(lastSet[o], IntBits)
    BY <1>1 DEF CallsInv, CallsTypeOK, NospamKept
  <1>3. value = lastSet[o] /\ value \in Ints
    BY <1>2, SignedOfUnsigned
  <1>4. /\ ToxFunction(t, ops, tox[o]) /\ call[t].op = "getNospam"
        /\ call' = [call EXCEPT ![t] = [call[t] EXCEPT !.value = value]]
    BY DEF FuncGetsNospam, ToxFunction
  <1>5. call[t] \in [op : {"getNospam"}, n : Nat, value : Ints] /\ call[t].n \in DOMAIN bound
    BY <1>4 DEF CallsInv, CallSound
  <1> HIDE DEF value
  <1>6. /\ c \in [op : {"getNospam"}, n : Nat, value : Ints]
        /\ c.op = "getNospam" /\ c.value = value /\ c.n = call[t].n
    BY <1>3, <1>5
  <1> HIDE DEF c
  <1>7. call'[t] = c /\ call' = [call EXCEPT ![t] = call'[t]]
    BY <1>4 DEF CallsInv, CallsTypeOK, c
  <1>8. CallSound(call'[t])
    BY <1>5, <1>6, <1>7 DEF CallSound, ArgumentsSound
  <1>9. lastSet' = [lastSet EXCEPT ![o] = value]
    BY <1>1, <1>3 DEF FuncGetsNospam, CallsInv, CallsTypeOK
  <1> HIDE DEF ops
  <1> QED
    BY <1>2, <1>3, <1>4, <1>6, <1>7, <1>8, <1>9, FuncInductive

\* toxKill and toxFinalize: the object is not in use.
LEMMA KillInductive ==
    ASSUME CallsInv, NEW n \in DOMAIN bound, Kill(n)
    PROVE  CallsInv'
  <1> DEFINE o == bound[n]
  <1>1. /\ o # NoObject /\ \A t \in Threads : using[t] # o
        /\ bound' = [bound EXCEPT ![n] = NoObject]
        /\ tox' = [tox EXCEPT ![o] = NewTox] /\ lastSet' = [lastSet EXCEPT ![o] = 0]
        /\ UNCHANGED <<retired, using, call, at, aborted>>
    BY DEF Kill, Registry!Kill
  <1>2. o \in Objects
    BY <1>1, ElementOfSeq, LenProperties DEF CallsInv, CallsTypeOK
  <1>3. bound' \in Seq(Objects \cup {NoObject}) /\ DOMAIN bound' = DOMAIN bound
    BY <1>1, UpdateSeq DEF CallsInv, CallsTypeOK
  <1>4. NewTox \in ToxState /\ NewTox.nospam = 0
    <2>1. 0 \in UnsignedInts(IntBits)
      BY UnsignedZero, SignedOfUnsigned
    <2> QED
      BY <2>1 DEF NewTox, ToxState
  <1> HIDE DEF o
  <1>5. CallsTypeOK'
    BY <1>1, <1>2, <1>3, <1>4, UnsignedZero DEF CallsInv, CallsTypeOK
  <1>6. /\ tox'[o] = NewTox /\ lastSet'[o] = 0
        /\ \A p \in Objects \ {o} : tox'[p] = tox[p] /\ lastSet'[p] = lastSet[p]
    BY <1>1, <1>2 DEF CallsInv, CallsTypeOK
  <1>7. Exclusive' /\ AbortsOnlyUnchecked'
    BY <1>1 DEF CallsInv, Exclusive, AbortsOnlyUnchecked
  <1>8. NospamKept'
    BY <1>4, <1>6, UnsignedZero DEF CallsInv, NospamKept
  <1>9. \A u \in Threads : CallSound(call[u])' /\ ResultSound(u)'
    BY <1>1, <1>2, <1>3, <1>6, OthersSeeNothing
  <1> QED
    BY <1>5, <1>7, <1>8, <1>9 DEF CallsInv

LEMMA FinalizeInductive ==
    ASSUME CallsInv, NEW n \in DOMAIN bound, Finalize(n)
    PROVE  CallsInv'
  <1>1. UNCHANGED <<bound, using, tox, lastSet, call, at, aborted>> /\ retired' = retired \cup {n}
    BY DEF Finalize, Registry!Retire
  <1>2. CallsTypeOK'
    BY <1>1 DEF CallsInv, CallsTypeOK
  <1> QED
    BY ZenonT(60), <1>1, <1>2 DEF CallsInv, Exclusive, NospamKept, CallSound, ArgumentsSound, ResultSound, Size,
                      AbortsOnlyUnchecked

LEMMA CallsNextInductive == CallsInv /\ [CallsNext]_callVars => CallsInv'
  <1> SUFFICES ASSUME CallsInv, [CallsNext]_callVars PROVE CallsInv'
    OBVIOUS
  <1>1. CASE UNCHANGED callVars
    BY ZenonT(60), <1>1 DEF callVars, registryVars, CallsInv, CallsTypeOK, Exclusive, NospamKept, CallSound,
                ArgumentsSound, ResultSound, Size, AbortsOnlyUnchecked
  <1>2. ASSUME NEW t \in Threads, NEW n \in DOMAIN bound \ retired,
               SelfMethods(t, n) \/ FriendMethods(t, n) \/ TransferMethods(t, n)
        PROVE  CallsInv'
    <2>1. CASE SelfMethods(t, n)
      BY <2>1, BootstrapInductive, GetInductive, SetInfoInductive, SetNospamInductive, PlainInductive
         DEF SelfMethods
    <2>2. CASE FriendMethods(t, n)
      BY <2>2, FriendAddInductive, FriendByPublicKeyInductive, PlainInductive DEF FriendMethods
    <2>3. CASE TransferMethods(t, n)
      BY <2>3, FileSendInductive, PlainInductive DEF TransferMethods
    <2> QED
      BY <1>2, <2>1, <2>2, <2>3
  <1>3. ASSUME NEW t \in Threads,
               \/ NewReturns(t) \/ Enter(t) \/ EnterKilled(t) \/ Return(t)
               \/ FuncOther(t) \/ FuncAddsFriend(t) \/ FuncDeletesFriend(t)
               \/ FuncSetsInfo(t) \/ FuncSetsNospam(t) \/ FuncGetsNospam(t)
               \/ GetSize(t) \/ GetData(t)
        PROVE  CallsInv'
    BY <1>3, NewReturnsInductive, EnterInductive, LeaveInductive, FuncOtherInductive,
       FuncChangesInductive, FuncSetsNospamInductive, FuncGetsNospamInductive, GetSizeInductive,
       GetDataInductive
  <1>4. ASSUME NEW t \in Threads, NEW proxied \in BOOLEAN, NEW proxyPort \in Ints,
               NEW port \in Ints, ToxNew(t, proxied, proxyPort, port)
        PROVE  CallsInv'
    BY <1>4, ToxNewInductive
  <1>5. ASSUME NEW n \in DOMAIN bound, Kill(n) \/ Finalize(n)
        PROVE  CallsInv'
    BY <1>5, KillInductive, FinalizeInductive
  <1> QED
    BY <1>1, <1>2, <1>3, <1>4, <1>5 DEF CallsNext

-----------------------------------------------------------------------------
(* The theorems *)

\* CallsInv holds in every state of every behaviour of the methods.
THEOREM CallsInductive == CallsSpec => []CallsInv
  BY CallsInitInductive, CallsNextInductive, PTL DEF CallsSpec

\* A vector that get_vector::make has made still has the size of the data when
\* toxcore fills it.
THEOREM VectorFitsCorrect == CallsSpec => []VectorFits
  <1>1. CallsInv => VectorFits
    BY InvImplies
  <1> QED
    BY <1>1, CallsInductive, PTL

\* No argument that a method of ToxCoreImpl accepts makes an assertion in C++ end the
\* process, except in the functions that have no check.
THEOREM AbortsCorrect == CallsSpec => []AbortsOnlyUnchecked
  <1>1. CallsInv => AbortsOnlyUnchecked
    BY InvImplies
  <1> QED
    BY <1>1, CallsInductive, PTL

\* Ports, file sizes and nospam values survive the conversions between Java's and
\* C++'s integers, for every width.
THEOREM NumbersKeptCorrect == CallsSpec => []NumbersKept
  <1>1. CallsInv => NumbersKept
    BY InvImplies
  <1> QED
    BY <1>1, CallsInductive, PTL

-----------------------------------------------------------------------------
(* The instance a call reaches *)

\* As long as its finalizer has not run, the number of a waiting call is not free, and
\* names what it named when the call was made, or nothing.
WaitingSound(t) ==
    (at[t] = "lock" /\ call[t].op # "toxNew") =>
        \/ Objects \subseteq meant[t]
        \/ call[t].n \notin retired /\ Named(call[t].n) \subseteq meant[t]

MeantSound ==
    /\ meant = [t \in Threads |-> meant[t]]
    /\ \A t \in Threads : WaitingSound(t)
    /\ RightInstance

\* A method is called with a number that was not finalised.
LEMMA MethodCalls ==
    ASSUME NEW t \in Threads, NEW n,
           SelfMethods(t, n) \/ FriendMethods(t, n) \/ TransferMethods(t, n)
    PROVE  \E c : \E assertion \in BOOLEAN : Native(t, c, assertion) /\ c.n = n
  <1>1. ASSUME NEW port, NEW key, Bootstrap(t, n, port, key)
        PROVE  \E c : \E assertion \in BOOLEAN : Native(t, c, assertion) /\ c.n = n
    <2> DEFINE c == [op |-> "bootstrap", n |-> n, port |-> port, toxPort |-> Port(port), key |-> key]
    <2>1. Native(t, c, AssertPort(port) /\ AssertLength(key, KeySize)) /\ c.n = n
      BY <1>1 DEF Bootstrap
    <2> HIDE DEF c
    <2> QED
      BY <2>1 DEF AssertPort, AssertLength
  <1>2. ASSUME NEW key,
               FriendAdd(t, n, key) \/ FriendAddNorequest(t, n, key) \/ FriendByPublicKey(t, n, key)
        PROVE  \E c : \E assertion \in BOOLEAN : Native(t, c, assertion) /\ c.n = n
    <2>1. ASSUME NEW op, NEW size, Native(t, [op |-> op, n |-> n, key |-> key], AssertLength(key, size))
          PROVE  \E c : \E assertion \in BOOLEAN : Native(t, c, assertion) /\ c.n = n
      <3> DEFINE c == [op |-> op, n |-> n, key |-> key]
      <3>1. Native(t, c, AssertLength(key, size)) /\ c.n = n
        BY <2>1
      <3>2. AssertLength(key, size) \in BOOLEAN
        BY DEF AssertLength
      <3> HIDE DEF c
      <3> QED
        BY <3>1, <3>2
    <2> QED
      BY <1>2, <2>1 DEF FriendAdd, FriendAddNorequest, FriendByPublicKey
  <1>3. ASSUME NEW size, FileSend(t, n, size)
        PROVE  \E c : \E assertion \in BOOLEAN : Native(t, c, assertion) /\ c.n = n
    <2> DEFINE c == [op |-> "fileSend", n |-> n, size |-> size, toxSize |-> FileSize(size)]
    <2>1. Native(t, c, TRUE) /\ c.n = n
      BY <1>3 DEF FileSend
    <2> HIDE DEF c
    <2> QED
      BY <2>1
  <1>4. ASSUME NEW x, SetInfo(t, n, x) \/ SetNospam(t, n, x) \/ GetVector(t, n, x) \/ GetNospam(t, n)
        PROVE  \E c : \E assertion \in BOOLEAN : Native(t, c, assertion) /\ c.n = n
    <2> DEFINE info == [op |-> "setInfo", n |-> n, info |-> x]
               set == [op |-> "setNospam", n |-> n, value |-> x]
               vector == [op |-> "getVector", n |-> n, attribute |-> x, size |-> 0]
               get == [op |-> "getNospam", n |-> n, value |-> 0]
    <2>1. \/ Native(t, info, TRUE) \/ Native(t, set, TRUE)
          \/ Native(t, vector, TRUE) \/ Native(t, get, TRUE)
      BY <1>4 DEF SetInfo, SetNospam, GetVector, GetNospam
    <2>2. info.n = n /\ set.n = n /\ vector.n = n /\ get.n = n
      OBVIOUS
    <2> HIDE DEF info, set, vector, get
    <2> QED
      BY <2>1, <2>2
  <1>5. ASSUME \/ FriendDelete(t, n) \/ FriendGetPublicKey(t, n)
               \/ GetNetwork(t, n) \/ GetKeys(t, n) \/ Status(t, n)
               \/ FileCommand(t, n) \/ FileChunk(t, n) \/ Interact(t, n) \/ SendPacket(t, n)
        PROVE  \E c : \E assertion \in BOOLEAN : Native(t, c, assertion) /\ c.n = n
    <2>1. ASSUME NEW op, Native(t, [op |-> op, n |-> n], TRUE)
          PROVE  \E c : \E assertion \in BOOLEAN : Native(t, c, assertion) /\ c.n = n
      <3> DEFINE c == [op |-> op, n |-> n]
      <3>1. Native(t, c, TRUE) /\ c.n = n
        BY <2>1
      <3> HIDE DEF c
      <3> QED
        BY <3>1
    <2> QED
      BY <1>5, <2>1 DEF FriendDelete, FriendGetPublicKey, GetNetwork, GetKeys, Status, FileCommand,
                        FileChunk, Interact, SendPacket
  <1> QED
    BY <1>1, <1>2, <1>3, <1>4, <1>5 DEF SelfMethods, FriendMethods, TransferMethods

LEMMA NativeMeant ==
    ASSUME MeantSound, NEW t \in Threads, NEW c, NEW assertion \in BOOLEAN,
           CallsTypeOK, Native(t, c, assertion), c.op # "toxNew" => c.n \notin retired
    PROVE  MeantSound'
  <1>1. /\ UNCHANGED <<bound, retired, using>> /\ at[t] = "client"
        /\ meant' = [meant EXCEPT ![t] = IF c.op = "toxNew" THEN {} ELSE Named(c.n)]
    BY DEF Native, Running, registryVars
  <1>2. /\ meant' = [u \in Threads |-> meant'[u]] /\ \A u \in Threads \ {t} : meant'[u] = meant[u]
        /\ c.op # "toxNew" => meant'[t] = Named(c.n)
    BY <1>1 DEF MeantSound
  <1>3. CASE assertion
    <2>1. /\ call'[t] = c /\ \A u \in Threads \ {t} : call'[u] = call[u]
          /\ at'[t] = "lock" /\ \A u \in Threads \ {t} : at'[u] = at[u]
      BY <1>3 DEF Native, To, CallsTypeOK
    <2>2. RightInstance'
      BY <1>1, <1>2, <2>1 DEF MeantSound, RightInstance
    <2>3. \A u \in Threads : WaitingSound(u)'
      BY <1>1, <1>2, <2>1 DEF MeantSound, WaitingSound, Named
    <2> QED
      BY <1>2, <2>2, <2>3 DEF MeantSound
  <1>4. CASE ~assertion
    <2>1. at' = [u \in Threads |-> "client"]
      BY <1>4 DEF Native
    <2> QED
      BY <1>2, <2>1 DEF MeantSound, WaitingSound, RightInstance
  <1> QED
    BY <1>3, <1>4

\* A step inside of a tox function.
LEMMA FuncMeant ==
    ASSUME CallsInv, MeantSound, NEW t \in Threads,
           \/ FuncOther(t) \/ FuncAddsFriend(t) \/ FuncDeletesFriend(t)
           \/ FuncSetsInfo(t) \/ FuncSetsNospam(t) \/ FuncGetsNospam(t)
           \/ GetSize(t) \/ GetData(t)
    PROVE  MeantSound'
  <1>1. /\ UNCHANGED <<bound, retired, using, meant>>
        /\ at[t] \in {"func", "data"}
        /\ at' = [at EXCEPT ![t] = "data"] \/ at' = [at EXCEPT ![t] = "done"]
        /\ \A u \in Threads \ {t} : call'[u] = call[u]
    BY DEF FuncOther, FuncAddsFriend, FuncDeletesFriend, FuncSetsInfo, FuncSetsNospam,
           FuncGetsNospam, GetSize, GetData, ToxFunction, Running, To, registryVars, CallsInv,
           CallsTypeOK
  <1>2. at'[t] \in {"data", "done"} /\ \A u \in Threads \ {t} : at'[u] = at[u]
    BY <1>1 DEF CallsInv, CallsTypeOK
  <1>3. RightInstance'
    BY <1>1, <1>2 DEF MeantSound, RightInstance
  <1>4. \A u \in Threads : WaitingSound(u)'
    BY <1>1, <1>2 DEF MeantSound, WaitingSound, Named
  <1> QED
    BY <1>1, <1>3, <1>4 DEF MeantSound

\* A new instance gets a number that no waiting call means.
LEMMA NewReturnsMeant ==
    ASSUME CallsInv, MeantSound, NEW t \in Threads, NewReturns(t)
    PROVE  MeantSound'
  <1>1. /\ at' = [at EXCEPT ![t] = "client"] /\ call' = [call EXCEPT ![t] = NoCall] /\ meant' = meant
    BY DEF NewReturns, To
  <1>2. /\ at'[t] = "client"
        /\ \A u \in Threads \ {t} : at'[u] = at[u] /\ call'[u] = call[u]
    BY <1>1 DEF CallsInv, CallsTypeOK
  <1>3. /\ using' = using /\ retired' \subseteq retired
        /\ \A n \in DOMAIN bound \ retired : bound'[n] = bound[n]
    <2>1. CASE UNCHANGED registryVars
      BY <2>1 DEF registryVars
    <2>2. ASSUME NEW o \in Objects, Registry!Register(o)
          PROVE  /\ using' = using /\ retired' \subseteq retired
                 /\ \A n \in DOMAIN bound \ retired : bound'[n] = bound[n]
      <3>1. bound \in Seq(Objects \cup {NoObject}) /\ retired \subseteq DOMAIN bound
        BY DEF CallsInv, CallsTypeOK
      <3>2. ASSUME NEW n \in retired, bound' = [bound EXCEPT ![n] = o], retired' = retired \ {n}
            PROVE  \A m \in DOMAIN bound \ retired : bound'[m] = bound[m]
        BY <3>1, <3>2
      <3>3. ASSUME bound' = Append(bound, o), retired' = retired
            PROVE  \A m \in DOMAIN bound \ retired : bound'[m] = bound[m]
        BY <3>1, <3>3, AppendSeq
      <3> QED
        BY <2>2, <3>2, <3>3 DEF Registry!Register
    <2> QED
      BY <2>1, <2>2 DEF NewReturns
  <1>4. RightInstance'
    BY <1>1, <1>2, <1>3 DEF MeantSound, RightInstance
  <1>5. ASSUME NEW u \in Threads
        PROVE  WaitingSound(u)'
    <2>1. (at[u] = "lock" /\ call[u].op # "toxNew") => call[u].n \in DOMAIN bound
      BY DEF CallsInv, CallSound, ResultSound
    <2> QED
      BY <1>1, <1>2, <1>3, <2>1 DEF MeantSound, WaitingSound, Named
  <1> QED
    BY <1>1, <1>4, <1>5 DEF MeantSound

LEMMA EnterMeant ==
    ASSUME CallsInv, MeantSound, NEW t \in Threads, Enter(t)
    PROVE  MeantSound'
  <1> DEFINE o == bound[call[t].n]
  <1>1. /\ at[t] = "lock" /\ call[t].op # "toxNew" /\ o # NoObject
        /\ at' = [at EXCEPT ![t] = "func"] /\ using' = [using EXCEPT ![t] = o]
        /\ UNCHANGED <<bound, retired, call, meant>>
    BY DEF Enter, Running, To, Registry!Begin
  <1>2. o \in Objects
    <2>1. call[t].n \in DOMAIN bound
      BY <1>1 DEF CallsInv, CallSound, ResultSound
    <2> QED
      BY <1>1, <2>1, ElementOfSeq, LenProperties DEF CallsInv, CallsTypeOK
  <1>3. o \in meant[t]
    BY <1>1, <1>2 DEF MeantSound, WaitingSound, Named
  <1> HIDE DEF o
  <1>4. /\ at'[t] = "func" /\ using'[t] = o
        /\ \A u \in Threads \ {t} : at'[u] = at[u] /\ using'[u] = using[u]
    BY <1>1 DEF CallsInv, CallsTypeOK
  <1>5. RightInstance'
    BY <1>1, <1>3, <1>4 DEF MeantSound, RightInstance
  <1>6. \A u \in Threads : WaitingSound(u)'
    BY <1>1, <1>4 DEF MeantSound, WaitingSound, Named
  <1> QED
    BY <1>1, <1>5, <1>6 DEF MeantSound

LEMMA LeaveMeant ==
    ASSUME CallsInv, MeantSound, NEW t \in Threads, EnterKilled(t) \/ Return(t)
    PROVE  MeantSound'
  <1>1. /\ at' = [at EXCEPT ![t] = "client"] /\ call' = [call EXCEPT ![t] = NoCall]
        /\ meant' = [meant EXCEPT ![t] = {}]
        /\ using' = using \/ using' = [using EXCEPT ![t] = NoObject]
        /\ UNCHANGED <<bound, retired>>
    BY DEF EnterKilled, Return, To, registryVars, Registry!End
  <1>2. /\ at'[t] = "client" /\ meant' = [u \in Threads |-> meant'[u]]
        /\ \A u \in Threads \ {t} : /\ at'[u] = at[u] /\ call'[u] = call[u]
                                    /\ using'[u] = using[u] /\ meant'[u] = meant[u]
    BY <1>1 DEF CallsInv, CallsTypeOK, MeantSound
  <1>3. RightInstance'
    BY <1>1, <1>2 DEF MeantSound, RightInstance
  <1>4. \A u \in Threads : WaitingSound(u)'
    BY <1>1, <1>2 DEF MeantSound, WaitingSound, Named
  <1> QED
    BY <1>2, <1>3, <1>4 DEF MeantSound

\* A killed instance leaves its number naming nothing.
LEMMA KillMeant ==
    ASSUME CallsInv, MeantSound, NEW n \in DOMAIN bound, Kill(n)
    PROVE  MeantSound'
  <1>1. /\ bound' = [bound EXCEPT ![n] = NoObject]
        /\ UNCHANGED <<retired, using, call, at, meant>>
    BY DEF Kill, Registry!Kill
  <1>2. \A m \in DOMAIN bound : bound'[m] \in {bound[m], NoObject}
    BY <1>1 DEF CallsInv, CallsTypeOK
  <1>3. RightInstance'
    BY <1>1 DEF MeantSound, RightInstance
  <1>4. ASSUME NEW u \in Threads
        PROVE  WaitingSound(u)'
    <2>1. (at[u] = "lock" /\ call[u].op # "toxNew") => call[u].n \in DOMAIN bound
      BY DEF CallsInv, CallSound, ResultSound
    <2> QED
      BY <1>1, <1>2, <2>1 DEF MeantSound, WaitingSound, Named
  <1> QED
    BY <1>1, <1>3, <1>4 DEF MeantSound

LEMMA FinalizeMeant ==
    ASSUME CallsInv, MeantSound, NEW n \in DOMAIN bound, Finalize(n)
    PROVE  MeantSound'
  <1>1. /\ retired' = retired \cup {n} /\ UNCHANGED <<bound, using, call, at>>
        /\ meant' = [t \in Threads |-> IF t \in Waiting(n) THEN Objects ELSE meant[t]]
    BY DEF Finalize, Registry!Retire
  <1>2. meant' = [t \in Threads |-> meant'[t]]
    BY <1>1
  <1>3. \A t \in Threads : meant'[t] = IF t \in Waiting(n) THEN Objects ELSE meant[t]
    BY <1>1
  <1>4. RightInstance'
    BY <1>1, <1>3 DEF MeantSound, RightInstance, Waiting
  <1>5. \A t \in Threads : WaitingSound(t)'
    BY <1>1, <1>3 DEF MeantSound, WaitingSound, Named, Waiting
  <1> QED
    BY <1>2, <1>4, <1>5 DEF MeantSound

\* A call works on the instance its number named when the method read it, whatever
\* instances others kill and make while it waits for the locks, unless its own
\* ToxCoreImpl is finalised meanwhile.
THEOREM RightInstanceCorrect == CallsSpec => []RightInstance
  <1>1. CallsInit => MeantSound
    BY DEF CallsInit, MeantSound, WaitingSound, RightInstance
  <1>2. CallsInv /\ MeantSound /\ [CallsNext]_callVars => MeantSound'
    <2> SUFFICES ASSUME CallsInv, MeantSound, [CallsNext]_callVars PROVE MeantSound'
      OBVIOUS
    <2>1. CASE UNCHANGED callVars
      BY <2>1 DEF callVars, registryVars, MeantSound, WaitingSound, RightInstance, Named
    <2>2. ASSUME NEW t \in Threads, NEW n \in DOMAIN bound \ retired,
                 SelfMethods(t, n) \/ FriendMethods(t, n) \/ TransferMethods(t, n)
          PROVE  MeantSound'
      <3>1. PICK c : \E assertion \in BOOLEAN : Native(t, c, assertion) /\ c.n = n
        BY <2>2, MethodCalls
      <3> QED
        BY <3>1, NativeMeant DEF CallsInv
    <2>3. ASSUME NEW t \in Threads, NEW proxied \in BOOLEAN, NEW proxyPort \in Ints,
                 NEW port \in Ints, ToxNew(t, proxied, proxyPort, port)
          PROVE  MeantSound'
      <3> DEFINE c == [op |-> "toxNew", proxied |-> proxied, proxyPort |-> proxyPort, port |-> port,
                       optProxyPort |-> Port(proxyPort), optPort |-> Port(port)]
                 ok == AssertOptions(proxied, proxyPort, port)
      <3>1. Native(t, c, ok) /\ ok \in BOOLEAN /\ c.op = "toxNew"
        BY <2>3 DEF ToxNew, AssertOptions, AssertPort
      <3> HIDE DEF c, ok
      <3> QED
        BY <3>1, NativeMeant DEF CallsInv
    <2>4. ASSUME NEW t \in Threads, NewReturns(t) \/ Enter(t) \/ EnterKilled(t) \/ Return(t)
          PROVE  MeantSound'
      BY <2>4, NewReturnsMeant, EnterMeant, LeaveMeant
    <2>5. ASSUME NEW t \in Threads,
                 \/ FuncOther(t) \/ FuncAddsFriend(t) \/ FuncDeletesFriend(t)
                 \/ FuncSetsInfo(t) \/ FuncSetsNospam(t) \/ FuncGetsNospam(t)
                 \/ GetSize(t) \/ GetData(t)
          PROVE  MeantSound'
      BY <2>5, FuncMeant
    <2>6. ASSUME NEW n \in DOMAIN bound, Kill(n) \/ Finalize(n)
          PROVE  MeantSound'
      BY <2>6, KillMeant, FinalizeMeant
    <2> QED
      BY <2>1, <2>2, <2>3, <2>4, <2>5, <2>6 DEF CallsNext
  <1>3. MeantSound => RightInstance
    BY DEF MeantSound
  <1> QED
    BY <1>1, <1>2, <1>3, CallsInductive, PTL DEF CallsSpec

=============================================================================
