------------------------------ MODULE ToxEnums ------------------------------
(***************************************************************************)
(* Enumerators on their way between Kotlin and the libraries               *)
(* (generated/enums.cpp, ToxCore/lifecycle.cpp, ToxCoreProtoConverter.kt,  *)
(* ToxCoreImpl.kt).                                                        *)
(*                                                                         *)
(* An enum is numbered four times: by the library, by the ordinals of the  *)
(* Kotlin enum, by the switches of enums.cpp and by the protocol buffers.  *)
(* A value goes to the library as an ordinal and comes back as a message;  *)
(* the status of the client comes back as the library's own number.        *)
(***************************************************************************)
EXTENDS Exchange, Integers, Sequences

Invalid == "invalid"

\* The enumerator numbered n from 0 in a sequence.
Numbered(s, n) == IF n \in 0 .. Len(s) - 1 THEN s[n + 1] ELSE Invalid

\* The number of an enumerator of the sequence.
NumberIn(s, e) == CHOOSE n \in 0 .. Len(s) - 1 : Numbered(s, n) = e

-----------------------------------------------------------------------------
(* enums.cpp: ordinal, valueOf and print_arg of each enum list its enumerators *)
(* in one order.                                                               *)

TOX_CONNECTION == <<"NONE", "TCP", "UDP">>

\* Mutant: two enumerators change places.
PauseFirst == <<"PAUSE", "RESUME", "CANCEL">>

TOX_FILE_CONTROL == <<"RESUME", "PAUSE", "CANCEL">>
TOX_MESSAGE_TYPE == <<"NORMAL", "ACTION">>
TOX_PROXY_TYPE == <<"NONE", "HTTP", "SOCKS5">>
TOX_SAVEDATA_TYPE == <<"NONE", "TOX_SAVE", "SECRET_KEY">>
TOX_USER_STATUS == <<"NONE", "AWAY", "BUSY">>
TOXAV_CALL_CONTROL ==
    <<"RESUME", "PAUSE", "CANCEL", "MUTE_AUDIO", "UNMUTE_AUDIO", "HIDE_VIDEO", "SHOW_VIDEO">>
TOXAV_FRIEND_CALL_STATE ==
    <<"ERROR", "FINISHED", "SENDING_A", "SENDING_V", "ACCEPTING_A", "ACCEPTING_V">>

Switches ==
    [connection |-> TOX_CONNECTION, fileControl |-> TOX_FILE_CONTROL,
     messageType |-> TOX_MESSAGE_TYPE, proxyType |-> TOX_PROXY_TYPE,
     savedataType |-> TOX_SAVEDATA_TYPE, userStatus |-> TOX_USER_STATUS,
     callControl |-> TOXAV_CALL_CONTROL, callState |-> TOXAV_FRIEND_CALL_STATE]

\* The enums of the Kotlin interface, by ordinal.
Kotlin ==
    [connection |-> <<"NONE", "TCP", "UDP">>, fileControl |-> <<"RESUME", "PAUSE", "CANCEL">>,
     messageType |-> <<"NORMAL", "ACTION">>, proxyType |-> <<"NONE", "HTTP", "SOCKS5">>,
     savedataType |-> <<"NONE", "TOX_SAVE", "SECRET_KEY">>,
     userStatus |-> <<"NONE", "AWAY", "BUSY">>,
     callControl |-> <<"RESUME", "PAUSE", "CANCEL", "MUTE_AUDIO", "UNMUTE_AUDIO", "HIDE_VIDEO",
                       "SHOW_VIDEO">>]

\* The enums of toxcore that come from it, by number.
Library ==
    [connection |-> <<"NONE", "TCP", "UDP">>, fileControl |-> <<"RESUME", "PAUSE", "CANCEL">>,
     messageType |-> <<"NORMAL", "ACTION">>, userStatus |-> <<"NONE", "AWAY", "BUSY">>]

\* What the methods send, what the callbacks receive, and what invoke* passes to
\* the callbacks.
Sent == {"fileControl", "messageType", "proxyType", "savedataType", "userStatus", "callControl"}
Received == {"connection", "fileControl", "messageType", "userStatus"}

\* Enum::valueOf ends the process for a number without a case.
valueOf(type, ordinal) == Numbered(Switches[type], ordinal)

\* print_arg: the name of an enumerator, or its number.
print_enum(type, e) == IF \E i \in DOMAIN Switches[type] : Switches[type][i] = e THEN e ELSE Invalid

-----------------------------------------------------------------------------
(* Messages *)

\* Core.proto: the numbers of the message enums.
Proto ==
    [connection |-> <<"NONE", "TCP", "UDP">>, userStatus |-> <<"NONE", "AWAY", "BUSY">>,
     messageType |-> <<"NORMAL", "ACTION">>, fileControl |-> <<"RESUME", "PAUSE", "CANCEL">>]

\* The switch of a callback.  A field that no case sets is 0 in the message.
CallbackCases ==
    [connection |-> {"NONE", "TCP", "UDP"}, userStatus |-> {"NONE", "AWAY", "BUSY"},
     messageType |-> {"NORMAL", "ACTION"}, fileControl |-> {"RESUME", "PAUSE", "CANCEL"}]

SetField(type, e) ==
    IF e \in CallbackCases[type] THEN NumberIn(Proto[type], e) ELSE 0

\* ToxCoreProtoConverter.convert, which throws for what the protocol does not know.
convert(type, n) == Numbered(Proto[type], n)

-----------------------------------------------------------------------------

\* A method, with the log entry of the library's function.
SendEnum ==
    /\ request.kind = "sendEnum"
    /\ LET e == valueOf(request.type, NumberIn(Kotlin[request.type], request.value))
       IN  Reply(IF e = Invalid
                 THEN [kind |-> "abort"]
                 ELSE [kind |-> "enum", value |-> e, logged |-> print_enum(request.type, e)])

\* A callback of toxcore, its message and its dispatch.
ReceiveEnum ==
    /\ request.kind = "receiveEnum"
    /\ LET e == Numbered(Library[request.type], request.number)
       IN  Reply([kind |-> "enum", value |-> convert(request.type, SetField(request.type, e)),
                  logged |-> print_enum(request.type, e)])

\* invokeFriendStatus and the like: an ordinal, as if toxcore had called back.  There
\* is no log entry.
InvokeEnum ==
    /\ request.kind = "invokeEnum"
    /\ LET e == valueOf(request.type, NumberIn(Kotlin[request.type], request.value))
       IN  Reply(IF e = Invalid
                 THEN [kind |-> "abort"]
                 ELSE [kind |-> "enum", value |-> convert(request.type, SetField(request.type, e))])

\* toxSelfGetStatus returns the library's number, and ToxCoreImpl takes the entry
\* of the Kotlin enum with that index.
GetStatus ==
    /\ request.kind = "getStatus"
    /\ Reply([kind |-> "enum", logged |-> print_enum("userStatus", request.value),
              value |-> Numbered(Kotlin.userStatus, NumberIn(Library.userStatus, request.value))])

Enumerators(type) == {Kotlin[type][i] : i \in DOMAIN Kotlin[type]}

\* toxcore's number may be one that this version does not know.
EnumRequests ==
    \/ \E type \in Sent : \E e \in Enumerators(type) :
           Request([kind |-> "sendEnum", type |-> type, value |-> e])
    \/ \E type \in Received : \E n \in 0 .. Len(Library[type]) :
           Request([kind |-> "receiveEnum", type |-> type, number |-> n])
    \/ \E type \in Received : \E e \in Enumerators(type) :
           Request([kind |-> "invokeEnum", type |-> type, value |-> e])
    \/ \E e \in Enumerators("userStatus") : Request([kind |-> "getStatus", value |-> e])

EnumHandlers == SendEnum \/ ReceiveEnum \/ InvokeEnum \/ GetStatus

-----------------------------------------------------------------------------
(* Properties *)

\* An enumerator arrives as the one that was sent, and has its name in the log
\* entry of the call that sends it or asks for it, although every station has its
\* own numbers; the process is not ended.  A
\* number toxcore did not have when the switches were written arrives as the
\* enumerator numbered 0.
EnumsKept ==
    (request.kind \in {"sendEnum", "receiveEnum", "invokeEnum", "getStatus"} /\ reply # None) =>
        /\ reply.kind = "enum"
        /\ request.kind # "receiveEnum" => reply.value = request.value
        /\ request.kind \in {"sendEnum", "getStatus"} => reply.logged = request.value
        /\ request.kind = "receiveEnum" =>
               reply.value = IF request.number < Len(Library[request.type])
                             THEN Library[request.type][request.number + 1]
                             ELSE Library[request.type][1]

=============================================================================
