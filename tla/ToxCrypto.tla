----------------------------- MODULE ToxCrypto ------------------------------
(***************************************************************************)
(* Keys, salts and encrypted saves (ToxCrypto/encryptsave.cpp, hash.cpp,   *)
(* ToxCryptoImpl.kt, util/jni/ArrayToJava.h).                              *)
(*                                                                         *)
(* An array is its length and what its bytes hold: a salt, a key, a save   *)
(* encrypted with a key (a box), or anything else.  The client keeps some  *)
(* of the arrays it got and passes them to later calls, beside arrays of   *)
(* its own, of any length.  toxencryptsave is external: it is what its     *)
(* uses here and the tests of this repository show of it.                  *)
(***************************************************************************)
EXTENDS ToxErrors, Integers, FiniteSetsExt

CONSTANTS SaltLength, KeyLength, HashLength,
          MagicLength,   \* the first bytes of a box, before its salt
          ExtraLength,   \* what a box is longer than its data
          Passphrases, Salts,
          MaxData,       \* bound: the length of what is encrypted
          MaxHeld        \* bound: arrays the client keeps

ASSUME CryptoAssumption ==
    /\ {SaltLength, KeyLength, HashLength, MagicLength, MaxData, MaxHeld} \subseteq Nat \ {0}
    /\ ExtraLength \in Nat /\ MagicLength + SaltLength < ExtraLength

VARIABLE held   \* the arrays the client keeps

PassKeyLength == SaltLength + KeyLength

Anything == [kind |-> "anything"]
Array(n, what) == [length |-> n, holds |-> what]
Raw == {Array(n, Anything) : n \in 0 .. ExtraLength + MaxData}
Salt(s) == Array(SaltLength, [kind |-> "salt", salt |-> s])
PassKey(p, salt) == Array(PassKeyLength, [kind |-> "key", pass |-> p, salt |-> salt])
Box(data, key) == Array(data.length + ExtraLength, [kind |-> "box", data |-> data, key |-> key])

IsBox(a) == a.holds.kind = "box"

\* A key begins with its salt.
SaltOf(key) == IF key.holds.kind = "key" THEN key.holds.salt ELSE Array(SaltLength, Anything)

\* The library wrote so many bytes into a buffer of so many, and the buffer is
\* made a Java array.
toJavaArray(array, wrote, room) ==
    [kind |-> "array", array |-> array, wrote |-> wrote, room |-> room]

-----------------------------------------------------------------------------
(* toxencryptsave *)

\* The codes tox_get_salt may return.  It is not told the length of the data: what
\* is behind a short array decides.
GetSaltCodes(data) ==
    IF IsBox(data) THEN {"OK"}
    ELSE {"BAD_FORMAT"} \cup (IF data.length < MagicLength + SaltLength THEN {"OK"} ELSE {})

SaltRead(data) == IF IsBox(data) THEN SaltOf(data.holds.key) ELSE Array(SaltLength, Anything)

EncryptCodes(data) == IF data.length = 0 THEN {"NULL"} ELSE {"OK", "FAILED"}

DecryptCode(data, key) ==
    CASE data.length <= ExtraLength -> "INVALID_LENGTH"
      [] data.length > ExtraLength /\ ~IsBox(data) -> "BAD_FORMAT"
      [] data.length > ExtraLength /\ IsBox(data) /\ data.holds.key # key -> "FAILED"
      [] OTHER -> "OK"

DerivationCodes == {"OK", "FAILED"}

-----------------------------------------------------------------------------
(* Native functions *)

\* Mutant: the function that makes the Java array has a copy of the salt, made
\* before the call.
GetSaltCopied ==
    /\ request.kind = "getSalt"
    /\ \E code \in GetSaltCodes(request.data) :
           Reply(with_error_handling(<<"crypto", "GetSalt">>, code,
                     toJavaArray(Array(SaltLength, Anything), SaltLength, SaltLength)))

toxGetSalt ==
    /\ request.kind = "getSalt"
    /\ \E code \in GetSaltCodes(request.data) :
           Reply(with_error_handling(<<"crypto", "GetSalt">>, code,
                     toJavaArray(SaltRead(request.data), SaltLength, SaltLength)))

toxIsDataEncrypted ==
    /\ request.kind = "isDataEncrypted"
    /\ Reply([kind |-> "boolean",
              value |-> request.data.length >= ExtraLength /\ IsBox(request.data)])

\* A derived key is copied out of the library's before that is deleted.
pass_key_to_java(p, salt) ==
    toJavaArray(PassKey(p, salt), PassKeyLength, PassKeyLength)

toxPassKeyDeriveWithSalt ==
    /\ request.kind = "deriveWithSalt"
    /\ IF request.salt.length # SaltLength
       THEN Reply(throw_tox_exception(<<"crypto", "KeyDerivation">>, "INVALID_LENGTH"))
       ELSE \E code \in DerivationCodes :
                Reply(with_error_handling(<<"crypto", "KeyDerivation">>, code,
                          pass_key_to_java(request.pass, request.salt)))

toxPassKeyDerive ==
    /\ request.kind = "derive"
    /\ \E code \in DerivationCodes, s \in Salts :
           Reply(with_error_handling(<<"crypto", "KeyDerivation">>, code,
                     pass_key_to_java(request.pass, Salt(s))))

\* pass_key_from_java asserts that the key has its length.
AssertPassKey(key) == key.length = PassKeyLength

\* Mutant: the output is as long as the input.
SameRoom(data) == data.length

DecryptRoom(data) == Max({0, data.length - ExtraLength})

\* The lambda that makes the Java array runs only if the code is OK.
toxPassKeyDecrypt ==
    /\ request.kind = "decrypt"
    /\ \/ ~AssertPassKey(request.key) /\ Reply([kind |-> "abort"])
       \/ /\ AssertPassKey(request.key)
          /\ LET code == DecryptCode(request.data, request.key)
             IN  Reply(with_error_handling(<<"crypto", "Decryption">>, code,
                           toJavaArray(IF code = "OK" THEN request.data.holds.data ELSE request.data,
                                       request.data.length - ExtraLength,
                                       DecryptRoom(request.data))))

EncryptRoom(data) == data.length + ExtraLength

toxPassKeyEncrypt ==
    /\ request.kind = "encrypt"
    /\ \/ ~AssertPassKey(request.key) /\ Reply([kind |-> "abort"])
       \/ /\ AssertPassKey(request.key)
          /\ \E code \in EncryptCodes(request.data) :
                 Reply(with_error_handling(<<"crypto", "Encryption">>, code,
                           toJavaArray(Box(request.data, request.key),
                                       request.data.length + ExtraLength,
                                       EncryptRoom(request.data))))

\* tox_hash fails only for a null pointer with a length, which an array never is.
toxHash ==
    /\ request.kind = "hash"
    /\ Reply([kind |-> "hash", of |-> request.data, wrote |-> HashLength, room |-> HashLength])

\* ToxCryptoImpl.passKeyFromBytes: a copy, or null.
passKeyFromBytes ==
    /\ request.kind = "passKeyFromBytes"
    /\ Reply(IF request.data.length = PassKeyLength
             THEN toJavaArray(request.data, PassKeyLength, PassKeyLength)
             ELSE [kind |-> "null"])

-----------------------------------------------------------------------------
(* The client *)

CryptoInit == held = {}

CryptoRequests ==
    \/ \E data \in Raw \cup held,
          kind \in {"getSalt", "isDataEncrypted", "hash", "passKeyFromBytes"} :
           Request([kind |-> kind, data |-> data])
    \/ \E p \in Passphrases : Request([kind |-> "derive", pass |-> p])
    \/ \E p \in Passphrases, salt \in Raw \cup held :
           Request([kind |-> "deriveWithSalt", pass |-> p, salt |-> salt])
    \/ \E data \in Raw, key \in Raw \cup held :
           /\ data.length <= MaxData
           /\ Request([kind |-> "encrypt", data |-> data, key |-> key])
    \/ \E data, key \in Raw \cup held :
           Request([kind |-> "decrypt", data |-> data, key |-> key])

\* The client keeps an array it got, if it is not one it has anyway.
Keep ==
    IF reply.kind = "array" /\ reply.array \notin Raw /\ Cardinality(held) < MaxHeld
    THEN held \cup {reply.array}
    ELSE held

Forget == request = None /\ \E a \in held : held' = held \ {a}

CryptoHandlers ==
    \/ toxGetSalt \/ toxIsDataEncrypted
    \/ toxPassKeyDeriveWithSalt \/ toxPassKeyDerive
    \/ toxPassKeyDecrypt \/ toxPassKeyEncrypt
    \/ toxHash \/ passKeyFromBytes

-----------------------------------------------------------------------------
(* Properties *)

\* The library fills the buffer the native function has for it: nothing is written
\* behind its end, and no byte of the Java array made from it is left unwritten.
\* A key that a derivation returned never ends the process.
BuffersFit ==
    /\ reply.kind \in {"array", "hash"} => reply.wrote = reply.room
    /\ reply.kind = "array" => reply.array.length = reply.room
    /\ reply.kind = "abort" /\ request.kind \in {"encrypt", "decrypt"} =>
           request.key.holds.kind # "key"

\* A save can be read again with nothing but its passphrase: the salt is found in
\* the encrypted save, the key derived with it is the one the save was encrypted
\* with, and decryption gives the data, unless the library runs out of memory.
Recovered ==
    reply # None =>
        /\ (request.kind = "getSalt" /\ IsBox(request.data)) =>
               reply.kind = "array" /\ reply.array = SaltOf(request.data.holds.key)
        /\ (request.kind = "deriveWithSalt" /\ reply.kind = "array") =>
               \A box \in {a \in held : IsBox(a)} :
                   LET key == box.holds.key
                   IN  (/\ key.holds.kind = "key" /\ key.holds.pass = request.pass
                        /\ SaltOf(key) = request.salt) => reply.array = key
        /\ (request.kind = "decrypt" /\ IsBox(request.data) /\ request.key = request.data.holds.key) =>
               reply.kind = "array" /\ reply.array = request.data.holds.data

=============================================================================
