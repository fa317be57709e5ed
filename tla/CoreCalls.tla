------------------------------ MODULE CoreCalls -----------------------------
(***************************************************************************)
(* The methods of ToxCoreImpl and the native functions behind them         *)
(* (ToxCoreImpl.kt, ToxCore/*.cpp): what they check, what they convert and *)
(* how they read from toxcore, called by several threads.                  *)
(*                                                                         *)
(* A method checks its arguments and throws; the native function asserts   *)
(* what it needs, and a failed assertion ends the process; then it works   *)
(* on the instance with its mutex locked.  Of the locking only what        *)
(* InstanceRegistry promises is used.  An array is its length, or Null.    *)
(* The ints have few bits, and a port has fewer bits than an int.  Longs   *)
(* are as wide as ints: only their signs differ in use.                    *)
(***************************************************************************)
EXTENDS MachineInts, Sequences

CONSTANTS Threads, Objects, NoObject,
          Null,       \* the null reference
          IntBits,    \* 32 in the program
          PortBits,   \* 16 in the program
          KeySize,    \* of a public key, and
          AddressSize, \* of an address: equal in Kotlin and C++ (static_assert)
          MaxLength,  \* bound: the length of a key or an address
          MaxInfo,    \* bound: the length of a name or a status message
          MaxNumbers, \* bound: the number of instance numbers
          MaxFriends  \* bound: the number of friends

ASSUME CallsAssumption ==
    /\ {IntBits, PortBits, KeySize, AddressSize, MaxLength, MaxInfo, MaxNumbers, MaxFriends}
           \subseteq Nat \ {0}
    /\ PortBits < IntBits
    /\ KeySize < MaxLength /\ AddressSize < MaxLength

VARIABLES bound, retired, gone, using,  \* the registry of the instances
          tox,        \* tox[o] is what toxcore keeps for object o
          lastSet,    \* history: lastSet[o] is the nospam value the client set last
          call,       \* call[t] is the call of thread t, with its arguments
          at,         \* at[t] is how far it is
          meant,      \* history: meant[t] is the objects the call of thread t may work on
          aborted     \* the call that ended the process, or NoCall

Registry == INSTANCE InstanceRegistry

registryVars == <<bound, retired, gone, using>>
callVars == <<registryVars, tox, lastSet, call, at, meant, aborted>>

Ints == SignedInts(IntBits)
Ports == UnsignedInts(PortBits)
Arrays == {Null} \cup (0 .. MaxLength)
Infos == {Null} \cup (0 .. MaxInfo)
NoCall == [op |-> "none"]

\* "client": in no method.  "lock": the assertions held, with_instance is called.
\* "func": the instance is locked.  "data": a vector of the size was made.
\* "done": the tox function has returned.
Places == {"client", "lock", "func", "data", "done"}

NewTox == [name |-> 0, friends |-> 0, nospam |-> 0]

CallsInit ==
    /\ Registry!Init
    /\ tox = [o \in Objects |-> NewTox]
    /\ lastSet = [o \in Objects |-> 0]
    /\ call = [t \in Threads |-> NoCall]
    /\ at = [t \in Threads |-> "client"]
    /\ meant = [t \in Threads |-> {}]
    /\ aborted = NoCall

-----------------------------------------------------------------------------
(* Checks in Kotlin.  A call they reject throws, and nothing has changed. *)

\* Mutant: long keys are not rejected.
NotTooShort(port, key) == port \in Ports /\ key \notin 0 .. KeySize - 1

checkBootstrapArguments(port, key) == port \in Ports /\ key \in {Null, KeySize}

checkLength(bytes, expectedSize) == bytes \in {Null, expectedSize}

checkInfoNotNull(info) == info # Null

(* Assertions in C++ *)

AssertPort(port) == port \in Ports

AssertLength(bytes, size) == bytes \in {Null, size}

\* assert_valid_uint16 of toxNew: the port of a proxy matters if there is one.
AssertOptions(proxied, proxyPort, port) ==
    /\ proxied => AssertPort(proxyPort)
    /\ AssertPort(port)

(* Conversions of numbers *)

Port(port) == Unsigned(port, PortBits)

\* UINT64_MAX
Streaming == 2^IntBits - 1

\* Mutant: negative sizes are passed on.
AnySize(size) == Unsigned(size, IntBits)

FileSize(size) == Unsigned(IF size < 0 THEN -1 ELSE size, IntBits)

Running(t, place) == at[t] = place /\ aborted = NoCall
To(t, place) == at' = [at EXCEPT ![t] = place]

\* The object a number names, if it names one.
Named(n) == {bound[n]} \ {NoObject}

\* Thread t makes a call, and the process ends if it fails an assertion.
Native(t, c, assertion) ==
    /\ Running(t, "client")
    /\ meant' = [meant EXCEPT ![t] = IF c.op = "toxNew" THEN {} ELSE Named(c.n)]
    /\ IF assertion
       THEN /\ call' = [call EXCEPT ![t] = c]
            /\ To(t, "lock")
            /\ UNCHANGED aborted
       ELSE /\ aborted' = c
            /\ call' = [u \in Threads |-> NoCall]
            /\ at' = [u \in Threads |-> "client"]
    /\ UNCHANGED <<registryVars, tox, lastSet>>

-----------------------------------------------------------------------------
(* toxNew, toxKill, toxFinalize *)

\* startPort, endPort and tcpPort are treated alike and are one port here.
ToxNew(t, proxied, proxyPort, port) ==
    Native(t, [op |-> "toxNew", proxied |-> proxied, proxyPort |-> proxyPort, port |-> port,
               optProxyPort |-> Port(proxyPort), optPort |-> Port(port)],
           AssertOptions(proxied, proxyPort, port))

\* tox_new makes an object, or fails: the constructor throws.
NewReturns(t) ==
    /\ Running(t, "lock") /\ call[t].op = "toxNew"
    /\ \/ (\E o \in Objects : Registry!Register(o)) /\ Len(bound') <= MaxNumbers
       \/ UNCHANGED registryVars
    /\ To(t, "client")
    /\ call' = [call EXCEPT ![t] = NoCall]
    /\ UNCHANGED <<tox, lastSet, meant, aborted>>

\* Mutant: kill gives the number free.
KillFrees(n) ==
    /\ aborted = NoCall
    /\ bound[n] # NoObject /\ \A t \in Threads : using[t] # bound[n]
    /\ gone' = gone \cup {bound[n]}
    /\ bound' = [bound EXCEPT ![n] = NoObject]
    /\ retired' = retired \cup {n}
    /\ tox' = [tox EXCEPT ![bound[n]] = NewTox]
    /\ lastSet' = [lastSet EXCEPT ![bound[n]] = 0]
    /\ UNCHANGED <<using, call, at, meant, aborted>>

Kill(n) ==
    /\ aborted = NoCall
    /\ Registry!Kill(n)
    /\ tox' = [tox EXCEPT ![bound[n]] = NewTox]
    /\ lastSet' = [lastSet EXCEPT ![bound[n]] = 0]
    /\ UNCHANGED <<call, at, meant, aborted>>

\* The calls that wait with number n.
Waiting(n) == {t \in Threads : at[t] = "lock" /\ call[t].op # "toxNew" /\ call[t].n = n}

\* A finalizer may run while a call still waits with the number: the method has read
\* it and does not need its object any more.  From then on the call may reach any
\* instance.
Finalize(n) ==
    /\ aborted = NoCall
    /\ Registry!Retire(n)
    /\ meant' = [t \in Threads |-> IF t \in Waiting(n) THEN Objects ELSE meant[t]]
    /\ UNCHANGED <<tox, lastSet, call, at, aborted>>

-----------------------------------------------------------------------------
(* Calls on an instance *)

\* bootstrap and addTcpRelay
Bootstrap(t, n, port, key) ==
    /\ checkBootstrapArguments(port, key)
    /\ Native(t, [op |-> "bootstrap", n |-> n, port |-> port, toxPort |-> Port(port), key |-> key],
              AssertPort(port) /\ AssertLength(key, KeySize))

FriendAdd(t, n, address) ==
    /\ checkLength(address, AddressSize)
    /\ Native(t, [op |-> "friendAdd", n |-> n, key |-> address], AssertLength(address, AddressSize))

FriendAddNorequest(t, n, key) ==
    /\ checkLength(key, KeySize)
    /\ Native(t, [op |-> "friendAddNorequest", n |-> n, key |-> key], AssertLength(key, KeySize))

\* The method has no check of its own.
FriendByPublicKey(t, n, key) ==
    Native(t, [op |-> "friendByPublicKey", n |-> n, key |-> key], AssertLength(key, KeySize))

FriendDelete(t, n) == Native(t, [op |-> "friendDelete", n |-> n], TRUE)

\* The file id is left out: neither Kotlin nor C++ looks at its length.
FileSend(t, n, size) ==
    Native(t, [op |-> "fileSend", n |-> n, size |-> size, toxSize |-> FileSize(size)], TRUE)

\* name and statusMessage
SetInfo(t, n, info) ==
    /\ checkInfoNotNull(info)
    /\ Native(t, [op |-> "setInfo", n |-> n, info |-> info], TRUE)

SetNospam(t, n, value) == Native(t, [op |-> "setNospam", n |-> n, value |-> value], TRUE)
GetNospam(t, n) == Native(t, [op |-> "getNospam", n |-> n, value |-> 0], TRUE)

\* The getters that return arrays; a status message is like a name.
Attributes == {"name", "friends", "savedata"}

GetVector(t, n, a) ==
    Native(t, [op |-> "getVector", n |-> n, attribute |-> a, size |-> 0], TRUE)

(***************************************************************************)
(* Functions that give toxcore numbers, enums, and arrays together with    *)
(* their lengths, and that change nothing kept here.                       *)
(***************************************************************************)

\* fileControl and fileSeek
FileCommand(t, n) == Native(t, [op |-> "fileCommand", n |-> n], TRUE)

\* fileSendChunk and getFileFileId
FileChunk(t, n) == Native(t, [op |-> "fileChunk", n |-> n], TRUE)

\* setTyping and friendSendMessage
Interact(t, n) == Native(t, [op |-> "interact", n |-> n], TRUE)

\* friendSendLossyPacket and friendSendLosslessPacket
SendPacket(t, n) == Native(t, [op |-> "sendPacket", n |-> n], TRUE)

\* udpPort, tcpPort and dhtId
GetNetwork(t, n) == Native(t, [op |-> "getNetwork", n |-> n], TRUE)

\* publicKey, secretKey and address, whose vectors have constant sizes
GetKeys(t, n) == Native(t, [op |-> "getKeys", n |-> n], TRUE)

\* getFriendPublicKey, into an array of constant size
FriendGetPublicKey(t, n) == Native(t, [op |-> "friendGetPublicKey", n |-> n], TRUE)

\* status, iterationInterval and friendExists
Status(t, n) == Native(t, [op |-> "status", n |-> n], TRUE)

Other == {"fileCommand", "fileChunk", "interact", "sendPacket", "getNetwork", "getKeys",
          "friendGetPublicKey", "status", "bootstrap", "friendByPublicKey", "fileSend"}

-----------------------------------------------------------------------------
(* with_instance, and the tox functions *)

\* Mutant: two threads have one instance.
EnterShared(t) ==
    /\ Running(t, "lock") /\ call[t].op # "toxNew"
    /\ bound[call[t].n] # NoObject
    /\ using' = [using EXCEPT ![t] = bound[call[t].n]]
    /\ To(t, "func")
    /\ UNCHANGED <<bound, retired, gone, tox, lastSet, call, meant, aborted>>

Enter(t) ==
    /\ Running(t, "lock") /\ call[t].op # "toxNew"
    /\ Registry!Begin(t, call[t].n)
    /\ To(t, "func")
    /\ UNCHANGED <<tox, lastSet, call, meant, aborted>>

\* The instance was killed: ToxKilledException.
EnterKilled(t) ==
    /\ Running(t, "lock") /\ call[t].op # "toxNew"
    /\ bound[call[t].n] = NoObject
    /\ To(t, "client")
    /\ call' = [call EXCEPT ![t] = NoCall]
    /\ meant' = [meant EXCEPT ![t] = {}]
    /\ UNCHANGED <<registryVars, tox, lastSet, aborted>>

\* The tox function of a call op returns, and the object has become new.
ToxFunction(t, ops, new) ==
    /\ Running(t, "func") /\ call[t].op \in ops
    /\ tox' = [tox EXCEPT ![using[t]] = new]
    /\ To(t, "done")
    /\ UNCHANGED <<registryVars, meant, aborted>>

\* An error code, which becomes an exception, or a success that leaves the object
\* as it was.
FuncOther(t) ==
    /\ ToxFunction(t, Other \cup {"friendAdd", "friendAddNorequest", "friendDelete", "setInfo"},
                   tox[using[t]])
    /\ UNCHANGED <<lastSet, call>>

FuncAddsFriend(t) ==
    /\ ToxFunction(t, {"friendAdd", "friendAddNorequest"},
                   [tox[using[t]] EXCEPT !.friends = @ + 1])
    /\ call[t].key # Null /\ tox[using[t]].friends < MaxFriends
    /\ UNCHANGED <<lastSet, call>>

FuncDeletesFriend(t) ==
    /\ ToxFunction(t, {"friendDelete"}, [tox[using[t]] EXCEPT !.friends = @ - 1])
    /\ tox[using[t]].friends > 0
    /\ UNCHANGED <<lastSet, call>>

FuncSetsInfo(t) ==
    /\ ToxFunction(t, {"setInfo"}, [tox[using[t]] EXCEPT !.name = call[t].info])
    /\ UNCHANGED <<lastSet, call>>

FuncSetsNospam(t) ==
    /\ ToxFunction(t, {"setNospam"},
                   [tox[using[t]] EXCEPT !.nospam = Unsigned(call[t].value, IntBits)])
    /\ lastSet' = [lastSet EXCEPT ![using[t]] = call[t].value]
    /\ UNCHANGED call

FuncGetsNospam(t) ==
    /\ ToxFunction(t, {"getNospam"}, tox[using[t]])
    /\ call' = [call EXCEPT ![t].value = Signed(tox[using[t]].nospam, IntBits)]
    /\ UNCHANGED lastSet

\* The size toxcore has for an attribute: what is saved has the name and the friends.
Size(o, attribute) ==
    CASE attribute = "name" -> tox[o].name
      [] attribute = "friends" -> tox[o].friends
      [] attribute = "savedata" -> tox[o].name + tox[o].friends

\* get_vector::make asks for the size and makes a vector of it ...
GetSize(t) ==
    /\ Running(t, "func") /\ call[t].op = "getVector"
    /\ call' = [call EXCEPT ![t].size = Size(using[t], call[t].attribute)]
    /\ To(t, "data")
    /\ UNCHANGED <<registryVars, tox, lastSet, meant, aborted>>

\* ... and lets toxcore fill it.
GetData(t) ==
    /\ Running(t, "data")
    /\ To(t, "done")
    /\ UNCHANGED <<registryVars, tox, lastSet, call, meant, aborted>>

Return(t) ==
    /\ Running(t, "done")
    /\ Registry!End(t)
    /\ To(t, "client")
    /\ call' = [call EXCEPT ![t] = NoCall]
    /\ meant' = [meant EXCEPT ![t] = {}]
    /\ UNCHANGED <<tox, lastSet, aborted>>

(***************************************************************************)
(* The methods of ToxCoreImpl, in the order of the class.                  *)
(***************************************************************************)

SelfMethods(t, n) ==
    \/ \E port \in Ints, key \in Arrays : Bootstrap(t, n, port, key)
    \/ \E a \in Attributes : GetVector(t, n, a)
    \/ \E info \in Infos : SetInfo(t, n, info)
    \/ \E value \in Ints : SetNospam(t, n, value)
    \/ GetNospam(t, n) \/ GetNetwork(t, n) \/ GetKeys(t, n) \/ Status(t, n)

FriendMethods(t, n) ==
    \/ \E key \in Arrays :
           FriendAdd(t, n, key) \/ FriendAddNorequest(t, n, key) \/ FriendByPublicKey(t, n, key)
    \/ FriendDelete(t, n) \/ FriendGetPublicKey(t, n)

TransferMethods(t, n) ==
    \/ \E size \in Ints : FileSend(t, n, size)
    \/ FileCommand(t, n) \/ FileChunk(t, n) \/ Interact(t, n) \/ SendPacket(t, n)

CallsNext ==
    \/ \E t \in Threads :
           \/ \E proxied \in BOOLEAN, proxyPort, port \in Ints : ToxNew(t, proxied, proxyPort, port)
           \* The number of a ToxCoreImpl that the finalizer has not seen.
           \/ \E n \in DOMAIN bound \ retired :
                  SelfMethods(t, n) \/ FriendMethods(t, n) \/ TransferMethods(t, n)
           \/ NewReturns(t) \/ Enter(t) \/ EnterKilled(t) \/ Return(t)
           \/ FuncOther(t) \/ FuncAddsFriend(t) \/ FuncDeletesFriend(t)
           \/ FuncSetsInfo(t) \/ FuncSetsNospam(t) \/ FuncGetsNospam(t)
           \/ GetSize(t) \/ GetData(t)
    \/ \E n \in DOMAIN bound : Kill(n) \/ Finalize(n)

CallsSpec == CallsInit /\ [][CallsNext]_callVars

-----------------------------------------------------------------------------
(* Properties *)

\* The vector get_vector::make has made is exactly as long as what toxcore is
\* about to write into it, whatever the other threads do to the instance between
\* the question for the size and the copy.
VectorFits ==
    \A t \in Threads :
        at[t] = "data" => call[t].size = Size(using[t], call[t].attribute)

\* The checks in Kotlin reject whatever an assertion in C++ would end the process
\* for, except where there is no check: the options of toxNew and the key of
\* friendByPublicKey, which rely on the types Port and ToxPublicKey.
AbortsOnlyUnchecked == aborted.op \in {"none", "toxNew", "friendByPublicKey"}

\* A method reads the number of its ToxCoreImpl and waits with it for two locks,
\* while others kill instances and make new ones.  The call works on the instance
\* the number named when the method read it, or throws; it reaches another one only
\* if the finalizer of its own ToxCoreImpl has run while it was waiting.
RightInstance ==
    \A t \in Threads : at[t] \in {"func", "data", "done"} => using[t] \in meant[t]

\* Numbers mean to toxcore what they mean to the client.  No port that is used
\* loses bits; a file has the size the client said, or is a stream if the client
\* said a negative one, and is told from a stream by the sign when the receiver's
\* event has the size as a long again; a getter of nospam returns what was set
\* last.
NumbersKept ==
    \A t \in Threads :
        /\ call[t].op = "bootstrap" => call[t].toxPort = call[t].port
        /\ call[t].op = "toxNew" =>
               /\ call[t].optPort = call[t].port
               /\ call[t].proxied => call[t].optProxyPort = call[t].proxyPort
        /\ call[t].op = "fileSend" =>
               /\ call[t].toxSize = Streaming <=> call[t].size < 0
               /\ call[t].size >= 0 => Signed(call[t].toxSize, IntBits) = call[t].size
        /\ (call[t].op = "getNospam" /\ at[t] = "done") => call[t].value = lastSet[using[t]]

=============================================================================
