----------------------------- MODULE ToxErrors ------------------------------
(***************************************************************************)
(* Error codes of toxcore, toxav and toxencryptsave, and the exceptions    *)
(* they become (generated/errors.cpp, tox4j/ToxInstances.h,                *)
(* util/exceptions.cpp).                                                   *)
(*                                                                         *)
(* An error enum is named by its subsystem and its method.  The tables     *)
(* list the codes a switch handles besides OK; the library may have others *)
(* in a newer version, and Unknown stands for them.                        *)
(***************************************************************************)
EXTENDS Exchange, FiniteSets

Unknown == "UNKNOWN"

-----------------------------------------------------------------------------
(* The switches of generated/errors.cpp *)

FileErrors ==
    [Bootstrap     |-> {"BAD_HOST", "BAD_PORT", "NULL"},
     FileControl   |-> {"ALREADY_PAUSED", "DENIED", "FRIEND_NOT_CONNECTED", "FRIEND_NOT_FOUND",
                        "NOT_FOUND", "NOT_PAUSED", "SENDQ"},
     FileGet       |-> {"FRIEND_NOT_FOUND", "NOT_FOUND", "NULL"},
     FileSeek      |-> {"DENIED", "FRIEND_NOT_CONNECTED", "FRIEND_NOT_FOUND", "INVALID_POSITION",
                        "NOT_FOUND", "SENDQ"},
     FileSendChunk |-> {"FRIEND_NOT_CONNECTED", "FRIEND_NOT_FOUND", "INVALID_LENGTH", "NOT_FOUND",
                        "NOT_TRANSFERRING", "NULL", "SENDQ", "WRONG_POSITION"},
     FileSend      |-> {"FRIEND_NOT_CONNECTED", "FRIEND_NOT_FOUND", "NAME_TOO_LONG", "NULL",
                        "TOO_MANY"}]

FriendErrors ==
    [FriendAdd          |-> {"ALREADY_SENT", "BAD_CHECKSUM", "MALLOC", "NO_MESSAGE", "NULL",
                             "OWN_KEY", "SET_NEW_NOSPAM", "TOO_LONG"},
     FriendByPublicKey  |-> {"NOT_FOUND", "NULL"},
     FriendCustomPacket |-> {"EMPTY", "FRIEND_NOT_CONNECTED", "FRIEND_NOT_FOUND", "INVALID",
                             "NULL", "SENDQ", "TOO_LONG"},
     FriendDelete       |-> {"FRIEND_NOT_FOUND"},
     FriendGetPublicKey |-> {"FRIEND_NOT_FOUND"},
     FriendSendMessage  |-> {"EMPTY", "FRIEND_NOT_CONNECTED", "FRIEND_NOT_FOUND", "NULL", "SENDQ",
                             "TOO_LONG"}]

SelfErrors ==
    [GetPort   |-> {"NOT_BOUND"},
     New       |-> {"LOAD_BAD_FORMAT", "LOAD_ENCRYPTED", "MALLOC", "NULL", "PORT_ALLOC",
                    "PROXY_BAD_HOST", "PROXY_BAD_PORT", "PROXY_BAD_TYPE", "PROXY_NOT_FOUND"},
     SetInfo   |-> {"NULL", "TOO_LONG"},
     SetTyping |-> {"FRIEND_NOT_FOUND"}]

AvErrors ==
    [Answer      |-> {"CODEC_INITIALIZATION", "FRIEND_NOT_CALLING", "FRIEND_NOT_FOUND",
                      "INVALID_BIT_RATE", "SYNC"},
     BitRateSet  |-> {"FRIEND_NOT_FOUND", "FRIEND_NOT_IN_CALL", "INVALID_BIT_RATE", "SYNC"},
     CallControl |-> {"FRIEND_NOT_FOUND", "FRIEND_NOT_IN_CALL", "INVALID_TRANSITION", "SYNC"},
     Call        |-> {"FRIEND_ALREADY_IN_CALL", "FRIEND_NOT_CONNECTED", "FRIEND_NOT_FOUND",
                      "INVALID_BIT_RATE", "MALLOC", "SYNC"},
     New         |-> {"MALLOC", "MULTIPLE", "NULL"},
     SendFrame   |-> {"FRIEND_NOT_FOUND", "FRIEND_NOT_IN_CALL", "INVALID", "NULL",
                      "PAYLOAD_TYPE_DISABLED", "RTP_FAILED", "SYNC"}]

CryptoErrors ==
    [Decryption    |-> {"BAD_FORMAT", "FAILED", "INVALID_LENGTH", "KEY_DERIVATION_FAILED", "NULL"},
     Encryption    |-> {"FAILED", "KEY_DERIVATION_FAILED", "NULL"},
     GetSalt       |-> {"BAD_FORMAT", "NULL"},
     KeyDerivation |-> {"FAILED", "NULL"}]

CoreErrors ==
    [m \in DOMAIN FileErrors \cup DOMAIN FriendErrors \cup DOMAIN SelfErrors |->
        CASE m \in DOMAIN FileErrors -> FileErrors[m]
          [] m \in DOMAIN FriendErrors -> FriendErrors[m]
          [] m \in DOMAIN SelfErrors -> SelfErrors[m]]

Handled == [core |-> CoreErrors, av |-> AvErrors, crypto |-> CryptoErrors]

\* The Code enums of the exception classes.  Two have codes that no library call
\* returns: Kotlin throws the one, toxPassKeyDeriveWithSalt the other.
JavaCodes(e) ==
    Handled[e[1]][e[2]] \cup (CASE e = <<"core", "Bootstrap">> -> {"BAD_KEY"}
                                [] e = <<"crypto", "KeyDerivation">> -> {"INVALID_LENGTH"}
                                [] OTHER -> {})

-----------------------------------------------------------------------------
(* From a code to an exception *)

\* Mutant: a code without a case is taken for OK.
HandleAsOk(e, code) ==
    IF code \in Handled[e[1]][e[2]] THEN "FAILURE" ELSE "SUCCESS"

handle_error_enum(e, code) ==
    CASE code = "OK" -> "SUCCESS"
      [] code \in Handled[e[1]][e[2]] -> "FAILURE"
      [] OTHER -> "UNHANDLED"

IllegalState == [kind |-> "throws", of |-> <<"java", "IllegalState">>, code |-> "none"]

\* throw_tox_exception by name.  Code.valueOf throws for a name it does not have.
throw_tox_exception(e, code) ==
    IF code \in JavaCodes(e)
    THEN [kind |-> "throws", of |-> e, code |-> code]
    ELSE [kind |-> "throws", of |-> <<"java", "IllegalArgument">>, code |-> "none"]

\* throw_tox_exception by code.
throw_tox_code(e, code) ==
    IF handle_error_enum(e, code) = "FAILURE" THEN throw_tox_exception(e, code) ELSE IllegalState

\* The tox function has returned code: value is what success_func makes of its
\* result, and is looked at only if the code is OK.
with_error_handling(e, code, value) ==
    CASE handle_error_enum(e, code) = "SUCCESS" -> value
      [] handle_error_enum(e, code) = "FAILURE" -> throw_tox_exception(e, code)
      [] OTHER -> IllegalState

ErrorEnums == UNION {{s} \X DOMAIN Handled[s] : s \in DOMAIN Handled}

\* Any function with an error code, called through an instance or not.
ToxFunction ==
    /\ request.kind = "toxFunction"
    /\ Reply(with_error_handling(request.error, request.code, [kind |-> "value"]))

\* A native function that throws a code itself.
ThrowCode ==
    /\ request.kind = "throwCode"
    /\ Reply(throw_tox_code(request.error, request.code))

ErrorRequests ==
    \E e \in ErrorEnums, kind \in {"toxFunction", "throwCode"} :
    \E code \in Handled[e[1]][e[2]] \cup {"OK", Unknown} :
        Request([kind |-> kind, error |-> e, code |-> code])

-----------------------------------------------------------------------------
(* Properties *)

\* The client gets a value exactly when the library reported success, and learns
\* which failure it was from the class and the code of the exception; what the
\* library reports and the switches do not know is an exception too, never a
\* default value that looks like a result.
ErrorsReported ==
    (request.kind \in {"toxFunction", "throwCode"} /\ reply # None) =>
        CASE request.code \notin {"OK", Unknown} ->
                 reply = [kind |-> "throws", of |-> request.error, code |-> request.code]
          [] request.code = "OK" /\ request.kind = "toxFunction" -> reply.kind = "value"
          [] OTHER -> reply = IllegalState

=============================================================================
