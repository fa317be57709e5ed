---------------------------- MODULE Conversions -----------------------------
(***************************************************************************)
(* Every conversion between Kotlin and the libraries, driven by one client.*)
(*                                                                         *)
(* The conversions share no state, so that one request at a time shows all *)
(* they do.  Only the client's arrays of ToxCrypto last from one request   *)
(* to the next: other requests are made while it has none.                 *)
(***************************************************************************)
EXTENDS AvFrames, ToxCrypto, ToxEnums, LogValues

conversionVars == <<request, reply, held>>

ConversionsInit == ExchangeInit /\ CryptoInit

Client ==
    \/ /\ request = None /\ held = {}
       /\ FrameRequests \/ ErrorRequests \/ EnumRequests \/ LogRequests
       /\ UNCHANGED held
    \/ request = None /\ CryptoRequests /\ UNCHANGED held
    \/ Forget /\ UNCHANGED <<request, reply>>
    \/ Return /\ held' = Keep

Handlers ==
    /\ \/ AudioSendFrame \/ VideoSendFrame
       \/ InvokeCallState \/ InvokeAudioReceiveFrame \/ DispatchVideoReceiveFrame
       \/ ToxFunction \/ ThrowCode
       \/ CryptoHandlers \/ EnumHandlers \/ LogHandlers
    /\ UNCHANGED held

ConversionsNext == Client \/ Handlers

ConversionsSpec == ConversionsInit /\ [][ConversionsNext]_conversionVars

=============================================================================
