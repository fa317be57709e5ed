------------------------------ MODULE AvFrames ------------------------------
(***************************************************************************)
(* The conversions of ToxAv: frames the client sends, and call states and  *)
(* frames it receives (ToxAv/av.cpp, ToxAv/lifecycle.cpp, util/to_bytes.h, *)
(* ToxAvEventDispatch.kt, ToxAvProtoConverter.kt).                         *)
(*                                                                         *)
(* A call is one request, converted by the native function and, for what   *)
(* is received, by the dispatch; the reply is what toxav or the handler    *)
(* gets.  Bytes and ints have few bits, with the proportions of the real   *)
(* ones: a short is two bytes, an int is two of toxav's uint16_t.  Of a    *)
(* video plane only the length is kept.                                    *)
(***************************************************************************)
EXTENDS MachineInts, ToxErrors, Sequences, FiniteSetsExt

CONSTANTS ByteBits,  \* 8 in the program
          IntBits,   \* 32 in the program
          MaxSamples \* bound: the length of a received audio frame

ASSUME FramesAssumption ==
    /\ ByteBits \in Nat \ {0}
    /\ IntBits \in Nat \ {0} /\ IntBits % 2 = 0
    /\ MaxSamples \in Nat

-----------------------------------------------------------------------------
(* Machine integers *)

Int_ == SignedInts(IntBits)
Short == SignedInts(2 * ByteBits)

\* uint16_t, which toxav has for widths and heights.
Dimension == UnsignedInts(IntBits \div 2)

\* The length of an array is a jint too.
Length == 0 .. 2^(IntBits - 1) - 1

\* A product of two ints that overflows is undefined: it wraps around, or it is
\* computed with the width of the size_t it is converted to.
Products(x, y) == {x * y, Signed(x * y, IntBits)}

\* Division of C++, towards zero.
Half(x) == IF x >= 0 THEN x \div 2 ELSE -((-x) \div 2)

Abs(x) == IF x >= 0 THEN x ELSE -x

-----------------------------------------------------------------------------
(* Frames the client sends *)

\* AudioChannels is mono or stereo.
Channels == {1, 2}

\* toxavAudioSendFrame: a negative count stops the process.
AudioSendFrame ==
    /\ request.kind = "sendAudio"
    /\ \/ request.count < 0 /\ Reply([kind |-> "abort"])
       \/ /\ request.count >= 0
          /\ \E size \in Products(request.count, request.channels) :
                 Reply(IF request.pcm = size
                       THEN [kind |-> "sent"]
                       ELSE throw_tox_code(<<"av", "SendFrame">>, "INVALID"))

\* Mutant: odd widths and heights are rounded up.
ChromaRounded(width, height) == Products(Half(width + 1), Half(height + 1))

ChromaSizes(width, height) == Products(Half(width), Half(height))

\* toxavVideoSendFrame
VideoSendFrame ==
    /\ request.kind = "sendVideo"
    /\ \E ySize \in Products(request.width, request.height) :
       \E uvSize \in ChromaSizes(request.width, request.height) :
           Reply(IF <<request.y, request.u, request.v>> = <<ySize, uvSize, uvSize>>
                 THEN [kind |-> "sent"]
                 ELSE throw_tox_code(<<"av", "SendFrame">>, "INVALID"))

-----------------------------------------------------------------------------
(* Call states *)

CallStates == {"ERROR", "FINISHED", "SENDING_A", "SENDING_V", "ACCEPTING_A", "ACCEPTING_V"}

\* TOXAV_FRIEND_CALL_STATE_*
ToxavBit == [ERROR |-> 1, FINISHED |-> 2, SENDING_A |-> 4, SENDING_V |-> 8,
             ACCEPTING_A |-> 16, ACCEPTING_V |-> 32]

\* Mutant: two states have one bit.
ShiftTwice == [ERROR |-> 0, FINISHED |-> 1, SENDING_A |-> 2, SENDING_V |-> 3,
               ACCEPTING_A |-> 4, ACCEPTING_V |-> 4]

\* The shifts of ToxAvProtoConverter.convert(callState).
Shift == [ERROR |-> 0, FINISHED |-> 1, SENDING_A |-> 2, SENDING_V |-> 3,
          ACCEPTING_A |-> 4, ACCEPTING_V |-> 5]

\* The bits are distinct, so that or is a sum.
Mask(S) == SumSet({2^Shift[s] : s \in S})

\* tox4j_call_state_cb and the EnumSet of dispatchCallState.
States(mask) == {s \in CallStates : (mask \div ToxavBit[s]) % 2 = 1}

InvokeCallState ==
    /\ request.kind = "callState"
    /\ Reply([kind |-> "callState", states |-> States(Mask(request.states))])

-----------------------------------------------------------------------------
(* Audio frames received *)

\* Mutant: the low byte first.
LowByteFirst(value) == <<value % 2^ByteBits, (value \div 2^ByteBits) % 2^ByteBits>>

\* The shifts of a negative value are arithmetic.
ToBytes(value) == <<(value \div 2^ByteBits) % 2^ByteBits, value % 2^ByteBits>>

\* to_bytes on a frame: two bytes per sample.
PcmBytes(pcm) ==
    [i \in 1 .. 2 * Len(pcm) |-> ToBytes(pcm[(i + 1) \div 2])[IF i % 2 = 1 THEN 1 ELSE 2]]

\* ByteString.toShortArray: a ByteBuffer is big-endian.
ToShortArray(bytes) ==
    [i \in 1 .. Len(bytes) \div 2 |->
        Signed(bytes[2 * i - 1] * 2^ByteBits + bytes[2 * i], 2 * ByteBits)]

\* invokeAudioReceiveFrame stops the process for half a sample.
InvokeAudioReceiveFrame ==
    /\ request.kind = "receiveAudio"
    /\ \/ Len(request.pcm) % request.channels # 0 /\ Reply([kind |-> "abort"])
       \/ /\ Len(request.pcm) % request.channels = 0
          /\ Reply([kind |-> "audio", pcm |-> ToShortArray(PcmBytes(request.pcm))])

-----------------------------------------------------------------------------
(* Video frames received *)

\* Mutant: the stride is not looked at.
YSizePacked(f) == f.width * f.height

YSize(f) == Max({f.width, Abs(f.yStride)}) * f.height

\* Mutant: half a row too many.
UvSizeRounded(f, stride) == Max({f.width \div 2, Abs(stride)}) * ((f.height + 1) \div 2)

UvSize(f, stride) == Max({f.width \div 2, Abs(stride)}) * (f.height \div 2)

\* The planes of the message, each as long as the frame and its strides ask for.
Planes(f) == <<YSize(f), UvSize(f, f.uStride), UvSize(f, f.vStride)>>

\* A handler that caches its arrays knows the height and the strides.
CachedArrays(f) ==
    <<Abs(f.yStride) * f.height,
      Abs(f.uStride) * (f.height \div 2),
      Abs(f.vStride) * (f.height \div 2)>>

\* Strides of different signs: the callback asserts that there are none, unless
\* the build leaves assertions out.
MixedSigns(f) == \E s \in {f.uStride, f.vStride} : (s < 0) # (f.yStride < 0)

\* ToxAvProtoConverter.convert copies into the arrays of the handler, or makes
\* new ones.  Copying into an array that is too short throws.
DispatchVideoReceiveFrame ==
    /\ request.kind = "receiveVideo"
    /\ \/ MixedSigns(request) /\ Reply([kind |-> "abort"])
       \/ ~request.cached /\ Reply([kind |-> "video", arrays |-> Planes(request)])
       \/ /\ request.cached
          /\ Reply(IF \E i \in 1 .. 3 : Planes(request)[i] > CachedArrays(request)[i]
                   THEN [kind |-> "throws", of |-> <<"java", "IndexOutOfBounds">>, code |-> "none"]
                   ELSE [kind |-> "video", arrays |-> CachedArrays(request)])

-----------------------------------------------------------------------------

FrameRequests ==
    \/ \E count \in Int_, channels \in Channels, pcm \in Length :
           Request([kind |-> "sendAudio", count |-> count, channels |-> channels, pcm |-> pcm])
    \/ \E width, height \in Int_, y, u, v \in Length :
           Request([kind |-> "sendVideo", width |-> width, height |-> height,
                    y |-> y, u |-> u, v |-> v])
    \/ \E S \in SUBSET CallStates : Request([kind |-> "callState", states |-> S])
    \/ \E n \in 0 .. MaxSamples, channels \in Channels : \E pcm \in [1 .. n -> Short] :
           Request([kind |-> "receiveAudio", pcm |-> pcm, channels |-> channels])
    \/ \E width, height \in Dimension, yStride, uStride, vStride \in Int_, cached \in BOOLEAN :
           Request([kind |-> "receiveVideo", width |-> width, height |-> height,
                    yStride |-> yStride, uStride |-> uStride, vStride |-> vStride,
                    cached |-> cached])

-----------------------------------------------------------------------------
(* Properties *)

\* toxav gets as many samples and bytes as it reads for the dimensions it is
\* told, when they fit its types, although the sizes are computed with ints that
\* overflow for the largest frames.
SentFits ==
    reply.kind = "sent" =>
        /\ request.kind = "sendAudio" => request.pcm = request.count * request.channels
        /\ (request.kind = "sendVideo" /\ {request.width, request.height} \subseteq Dimension) =>
               /\ request.y = request.width * request.height
               /\ request.u = (request.width \div 2) * (request.height \div 2)
               /\ request.v = request.u

\* A handler gets the call states and the samples the callback was given: the bit
\* mask, the list of enum values, and the bytes in between lose nothing.
RoundTrip ==
    /\ reply.kind = "callState" => reply.states = request.states
    /\ reply.kind = "audio" => reply.pcm = request.pcm

\* Every pixel of a video frame a handler gets is inside the arrays it gets, at
\* the row and column the strides say.
PixelsInside ==
    reply.kind = "video" =>
        /\ \A row \in 0 .. request.height - 1, col \in 0 .. request.width - 1 :
               row * Abs(request.yStride) + col < reply.arrays[1]
        /\ \A row \in 0 .. (request.height \div 2) - 1, col \in 0 .. (request.width \div 2) - 1 :
               /\ row * Abs(request.uStride) + col < reply.arrays[2]
               /\ row * Abs(request.vStride) + col < reply.arrays[3]

\* The arrays of a handler that goes by the height and the strides it is told are
\* long enough for every frame whose rows are not longer than its strides: the
\* dispatch does not throw, and the batch is not lost.
CacheFits ==
    (request.kind = "receiveVideo" /\ reply.kind = "throws") =>
        \/ Abs(request.yStride) < request.width
        \/ Abs(request.uStride) < request.width \div 2
        \/ Abs(request.vStride) < request.width \div 2

=============================================================================
