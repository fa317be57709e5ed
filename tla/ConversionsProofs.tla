-------------------------- MODULE ConversionsProofs -------------------------
(***************************************************************************)
(* Proofs about the conversions, for integers of every width and arrays of *)
(* every length.                                                           *)
(*                                                                         *)
(* A reply depends on the request and, for ToxCrypto, on what the client   *)
(* keeps from earlier ones.  The invariant therefore says which requests   *)
(* can be made (RequestSound), what the arrays of the client can hold      *)
(* (HeldSound: a key is what a derivation makes, a box what an encryption  *)
(* makes), and that there is no reply without a request.  For each         *)
(* property one lemma shows that every handler establishes it; the client  *)
(* only takes replies away.                                                *)
(***************************************************************************)
EXTENDS Conversions, ProofLemmas

-----------------------------------------------------------------------------
(* Machine integers *)

LEMMA PowerAdd ==
    ASSUME NEW m \in Nat, NEW n \in Nat
    PROVE  2^(m + n) = 2^m * 2^n
  <1> DEFINE T == {k \in Nat : 2^(m + k) # 2^m * 2^k}
  <1>1. SUFFICES T = {}
    OBVIOUS
  <1>2. SUFFICES ASSUME T # {} PROVE FALSE
    OBVIOUS
  <1>3. PICK k \in T : \A j \in T : k <= j
    BY <1>2, LeastElement
  <1>4. 2^m \in Nat
    BY PowerPositive
  <1>5. CASE k = 0
    <2>1. 2^0 = 1
      OBVIOUS
    <2> QED
      BY <1>3, <1>4, <1>5, <2>1
  <1>6. CASE k # 0
    <2>1. PICK j \in Nat : k = j + 1
      <3>1. k - 1 \in Nat /\ k = (k - 1) + 1
        BY <1>3, <1>6
      <3> QED
        BY <3>1
    <2>2. 2^(m + j) = 2^m * 2^j
      BY <1>3, <2>1
    <2>3. 2^k = 2 * 2^j /\ 2^(m + k) = 2 * 2^(m + j)
      <3>1. m + k = (m + j) + 1 /\ m + j \in Nat
        BY <2>1
      <3> QED
        BY <2>1, <3>1, PowerDouble
    <2>4. 2^j \in Nat
      BY PowerPositive
    <2>5. PICK a \in Nat, b \in Nat : a = 2^m /\ b = 2^j
      BY <1>4, <2>4
    <2>6. 2 * (a * b) = a * (2 * b)
      OBVIOUS
    <2>7. 2^(m + k) = 2^m * 2^k
      BY <2>2, <2>3, <2>5, <2>6
    <2> QED
      BY <1>3, <2>7
  <1> QED
    BY <1>5, <1>6

\* A number below the modulus, and one in the next period.
LEMMA ModBelow ==
    ASSUME NEW N \in Nat \ {0}, NEW x \in Nat, x < 2 * N
    PROVE  x % N = IF x < N THEN x ELSE x - N
  OBVIOUS

\* A product that fits the unsigned type is the signed one if that is not negative.
LEMMA SignedSmall ==
    ASSUME NEW M \in Nat \ {0}, NEW bits, 2^bits = 2 * M, 2^(bits - 1) = M,
           NEW x \in Nat, x < 2 * M
    PROVE  Signed(x, bits) = IF x < M THEN x ELSE x - 2 * M
  <1>1. PICK N \in Nat \ {0}, y \in Nat : N = 2 * M /\ y = x + M /\ y < 2 * N
    OBVIOUS
  <1>2. y % N = IF y < N THEN y ELSE y - N
    BY <1>1, ModBelow
  <1>3. Signed(x, bits) = (y % N) - M
    BY <1>1 DEF Signed
  <1> QED
    BY <1>1, <1>2, <1>3

\* What is written into a buffer of the size of the product of two ints.
LEMMA ProductExact ==
    ASSUME NEW bits \in Nat \ {0}, NEW x \in Nat, x < 2^bits, NEW p \in Nat, p < 2^(bits - 1),
           p \in {x, Signed(x, bits)}
    PROVE  p = x
  <1>1. bits - 1 \in Nat /\ bits = (bits - 1) + 1
    OBVIOUS
  <1>2. 2^bits = 2 * 2^(bits - 1)
    BY <1>1, PowerDouble
  <1>3. 2^(bits - 1) \in Nat \ {0}
    BY <1>1, PowerPositive
  <1>4. PICK M \in Nat \ {0} : M = 2^(bits - 1)
    BY <1>3
  <1>5. Signed(x, bits) = IF x < M THEN x ELSE x - 2 * M
    BY ZenonT(60), <1>2, <1>4, SignedSmall
  <1>6. x < 2 * M
    BY <1>2, <1>4
  <1> QED
    BY <1>5, <1>6

\* A pixel inside a plane.
LEMMA RowInside ==
    ASSUME NEW m \in Nat, NEW h \in Nat, NEW s \in Nat, s <= m,
           NEW row \in 0 .. h - 1, NEW col \in 0 .. m - 1
    PROVE  row * s + col < m * h
  <1>1. row * s <= row * m
    OBVIOUS
  <1>2. row * m + m <= h * m
    <2>1. (row + 1) * m <= h * m
      OBVIOUS
    <2> QED
      BY <2>1
  <1>3. row * s \in Int /\ row * m \in Int /\ h * m \in Int /\ m * h = h * m
    OBVIOUS
  <1> QED
    BY <1>1, <1>2, <1>3

\* The larger and the smaller of two numbers.
LEMMA MaxOfTwo ==
    ASSUME NEW a \in Int, NEW b \in Int
    PROVE  Max({a, b}) = IF a >= b THEN a ELSE b
  BY DEF Max

LEMMA MinOfTwo ==
    ASSUME NEW a \in Int, NEW b \in Int
    PROVE  Min({a, b}) = IF a <= b THEN a ELSE b
  BY DEF Min

\* A short is put together again from its two bytes.
LEMMA SampleKept ==
    ASSUME NEW v \in Short
    PROVE  Signed(ToBytes(v)[1] * 2^ByteBits + ToBytes(v)[2], 2 * ByteBits) = v
  <1>1. PICK h \in Nat : ByteBits = h + 1
    <2>1. ByteBits - 1 \in Nat /\ ByteBits = (ByteBits - 1) + 1
      BY FramesAssumption
    <2> QED
      BY <2>1
  <1>2. PICK C \in Nat \ {0} : C = 2^h
    BY PowerPositive
  <1>3. PICK B \in Nat \ {0} : B = 2^ByteBits /\ B = 2 * C
    <2>1. 2^ByteBits = 2 * C
      BY <1>1, <1>2, PowerDouble
    <2> QED
      BY <2>1
  <1>4. PICK M \in Nat \ {0} : M = C * B
    <2>1. C * B \in Nat \ {0}
      OBVIOUS
    <2> QED
      BY <2>1
  <1>5. 2^(2 * ByteBits - 1) = M
    <2>1. 2 * ByteBits - 1 = h + ByteBits /\ ByteBits \in Nat
      BY <1>1
    <2> QED
      BY ZenonT(60), <1>2, <1>3, <1>4, <2>1, PowerAdd
  <1>6. 2^(2 * ByteBits) = 2 * M
    <2>1. 2 * ByteBits = ByteBits + ByteBits /\ ByteBits \in Nat
      BY <1>1
    <2>2. 2^(2 * ByteBits) = B * B
      BY <1>3, <2>1, PowerAdd
    <2>3. B * B = 2 * (C * B)
      BY <1>3
    <2> QED
      BY <1>4, <2>2, <2>3
  <1>7. v \in -M .. M - 1
    BY <1>5 DEF Short, SignedInts
  <1>8. PICK q \in Int, r \in 0 .. B - 1 : q = v \div B /\ r = v % B /\ v = B * q + r
    <2>1. v \in Int
      BY <1>7
    <2> QED
      BY <2>1
  <1>9. q \in -C .. C - 1
    <2>1. B * q + r < C * B /\ -(C * B) <= B * q + r
      BY <1>4, <1>7, <1>8
    <2>2. q < C
      BY <2>1
    <2>3. -C <= q
      BY <2>1
    <2> QED
      BY <2>2, <2>3
  <1>10. q % B = IF q >= 0 THEN q ELSE q + B
    BY <1>3, <1>9
  <1>11. PICK x \in Nat : /\ x = (q % B) * B + r
                          /\ x = IF q >= 0 THEN v ELSE v + 2 * M
    <2>1. CASE q >= 0
      <3>1. (q % B) * B + r = v
        <4>1. q % B = q
          BY <1>10, <2>1
        <4>2. q * B + r = v
          BY <1>8
        <4> QED
          BY <4>1, <4>2
      <3>2. v \in Nat
        BY <1>8, <2>1
      <3> QED
        BY <2>1, <3>1, <3>2
    <2>2. CASE q < 0
      <3>1. (q % B) * B + r = (q + B) * B + r
        BY <1>10, <2>2
      <3>2. (q + B) * B = q * B + 2 * (C * B)
        BY <1>3
      <3>3. (q % B) * B + r = v + 2 * M
        BY <1>4, <1>8, <3>1, <3>2
      <3>4. v + 2 * M \in Nat
        BY <1>7
      <3> QED
        BY <2>2, <3>3, <3>4
    <2> QED
      BY <2>1, <2>2
  <1>12. q >= 0 <=> v >= 0
    BY <1>8
  <1>13. x < 2 * M
    BY <1>7, <1>11, <1>12
  <1>14. Signed(x, 2 * ByteBits) = IF x < M THEN x ELSE x - 2 * M
    BY <1>5, <1>6, <1>13, SignedSmall
  <1>15. Signed(x, 2 * ByteBits) = v
    BY <1>7, <1>11, <1>12, <1>14
  <1>16. ToBytes(v)[1] = q % B /\ ToBytes(v)[2] = r
    BY <1>3, <1>8 DEF ToBytes
  <1> QED
    BY <1>3, <1>11, <1>15, <1>16

\* A frame arrives as it was, sample by sample.
LEMMA FrameKept ==
    ASSUME NEW pcm \in Seq(Short)
    PROVE  ToShortArray(PcmBytes(pcm)) = pcm
  <1> DEFINE bytes == PcmBytes(pcm)
  <1>1. Len(pcm) \in Nat /\ DOMAIN pcm = 1 .. Len(pcm)
    OBVIOUS
  <1>2. bytes = [i \in 1 .. 2 * Len(pcm) |->
                    ToBytes(pcm[(i + 1) \div 2])[IF i % 2 = 1 THEN 1 ELSE 2]]
    BY DEF PcmBytes
  <1>3. DOMAIN bytes = 1 .. 2 * Len(pcm)
    BY <1>2
  <1>4. Len(bytes) = 2 * Len(pcm)
    <2>1. \A i \in 1 .. Len(pcm) : pcm[i] \in Int
      <3>1. \A i \in 1 .. Len(pcm) : pcm[i] \in Short
        OBVIOUS
      <3>2. Short \subseteq Int
        BY DEF Short, SignedInts
      <3> QED
        BY <3>1, <3>2
    <2>2. ByteBits \in Nat
      BY FramesAssumption
    <2>3. PICK B \in Nat \ {0} : B = 2^ByteBits
      BY <2>2, PowerPositive
    <2>4. \A v \in Int : (v \div B) % B \in Int /\ v % B \in Int
      OBVIOUS
    <2>5. \A i \in 1 .. 2 * Len(pcm) : (i + 1) \div 2 \in 1 .. Len(pcm)
      BY <1>1
    <2>6. \A i \in 1 .. 2 * Len(pcm) : bytes[i] \in Int
      <3> SUFFICES ASSUME NEW i \in 1 .. 2 * Len(pcm) PROVE bytes[i] \in Int
        OBVIOUS
      <3>1. PICK v \in Int : v = pcm[(i + 1) \div 2]
        BY <2>1, <2>5
      <3>2. bytes[i] = <<(v \div B) % B, v % B>>[IF i % 2 = 1 THEN 1 ELSE 2]
        BY <1>2, <2>3, <3>1 DEF ToBytes
      <3>3. bytes[i] = (v \div B) % B \/ bytes[i] = v % B
        BY <3>2
      <3> QED
        BY <2>4, <3>3
    <2>7. bytes \in Seq(Int)
      BY <1>1, <1>2, <2>6
    <2> QED
      BY <1>1, <1>3, <2>7
  <1>5. \A i \in 1 .. Len(pcm) :
            /\ bytes[2 * i - 1] = ToBytes(pcm[i])[1]
            /\ bytes[2 * i] = ToBytes(pcm[i])[2]
    <2> SUFFICES ASSUME NEW i \in 1 .. Len(pcm)
                 PROVE  /\ bytes[2 * i - 1] = ToBytes(pcm[i])[1]
                        /\ bytes[2 * i] = ToBytes(pcm[i])[2]
      OBVIOUS
    <2>1. /\ 2 * i - 1 \in 1 .. 2 * Len(pcm) /\ 2 * i \in 1 .. 2 * Len(pcm)
          /\ (2 * i - 1 + 1) \div 2 = i /\ (2 * i + 1) \div 2 = i
          /\ (2 * i - 1) % 2 = 1 /\ (2 * i) % 2 # 1
      BY <1>1
    <2> QED
      BY <1>2, <2>1
  <1> HIDE DEF bytes
  <1>6. ToShortArray(bytes) = [i \in 1 .. Len(pcm) |->
            Signed(bytes[2 * i - 1] * 2^ByteBits + bytes[2 * i], 2 * ByteBits)]
    <2>1. (2 * Len(pcm)) \div 2 = Len(pcm)
      <3>1. PICK n \in Nat : n = Len(pcm)
        BY <1>1
      <3>2. (2 * n) \div 2 = n
        OBVIOUS
      <3> QED
        BY <3>1, <3>2
    <2> QED
      BY <1>4, <2>1 DEF ToShortArray
  <1>7. \A i \in 1 .. Len(pcm) : ToShortArray(bytes)[i] = pcm[i]
    <2>1. \A i \in 1 .. Len(pcm) : pcm[i] \in Short
      OBVIOUS
    <2> QED
      BY <1>5, <1>6, <2>1, SampleKept
  <1>8. ToShortArray(bytes) = pcm
    BY <1>1, <1>6, <1>7
  <1> QED
    BY <1>8 DEF bytes

-----------------------------------------------------------------------------
(* Call states *)

Bits == {1, 2, 4, 8, 16, 32}

\* The sum of a set of bits, bit by bit.
Total(s) == (IF 1 \in s THEN 1 ELSE 0) + (IF 2 \in s THEN 2 ELSE 0) + (IF 4 \in s THEN 4 ELSE 0)
            + (IF 8 \in s THEN 8 ELSE 0) + (IF 16 \in s THEN 16 ELSE 0)
            + (IF 32 \in s THEN 32 ELSE 0)

LEMMA TotalRemove ==
    ASSUME NEW s \in SUBSET Bits, NEW x \in s
    PROVE  Total(s) = x + Total(s \ {x})
  <1>1. x \in Bits
    OBVIOUS
  <1>2. CASE x = 1
    BY <1>2 DEF Total
  <1>3. CASE x = 2
    BY <1>3 DEF Total
  <1>4. CASE x = 4
    BY <1>4 DEF Total
  <1>5. CASE x = 8
    BY <1>5 DEF Total
  <1>6. CASE x = 16
    BY <1>6 DEF Total
  <1>7. CASE x = 32
    BY <1>7 DEF Total
  <1> QED
    BY <1>1, <1>2, <1>3, <1>4, <1>5, <1>6, <1>7 DEF Bits

\* The fold over a set of bits is their sum: the function it recurs with exists, and
\* a smallest set for which it is another one does not.
LEMMA SumOfBits ==
    ASSUME NEW S \in SUBSET Bits
    PROVE  SumSet(S) = Total(S)
  <1> DEFINE x(s) == CHOOSE e \in s : TRUE
             R(f) == f = [s \in SUBSET S |-> IF s = {} THEN 0 ELSE x(s) + f[s \ {x(s)}]]
             iter == CHOOSE f : R(f)
             g == [s \in SUBSET S |-> Total(s)]
  <1>1. SumSet(S) = iter[S]
    BY Zenon DEF SumSet, FoldSet, MapThenFoldSet
  <1>2. \A s \in SUBSET S : s # {} => x(s) \in s /\ s \ {x(s)} \in SUBSET S
    OBVIOUS
  <1>3. \A s \in SUBSET S : s # {} => Total(s) = x(s) + Total(s \ {x(s)})
    BY <1>2, TotalRemove
  <1>4. Total({}) = 0
    BY DEF Total
  <1> HIDE DEF x
  <1>5. R(g)
    <2>1. \A s \in SUBSET S : g[s] = IF s = {} THEN 0 ELSE x(s) + g[s \ {x(s)}]
      BY <1>2, <1>3, <1>4
    <2> HIDE DEF g
    <2>2. g = [s \in SUBSET S |-> g[s]]
      BY DEF g
    <2> QED
      BY <2>1, <2>2
  <1>6. R(iter)
    BY <1>5
  <1> HIDE DEF iter, g
  <1>7. \A s \in SUBSET S : iter[s] = IF s = {} THEN 0 ELSE x(s) + iter[s \ {x(s)}]
    BY <1>6
  <1>8. \A s \in SUBSET S : IsFiniteSet(s)
    <2>1. IsFiniteSet(1 .. 32)
      <3>1. 1 \in Int /\ 32 \in Int
        OBVIOUS
      <3> QED
        BY <3>1, FS_Interval
    <2>2. \A s \in SUBSET S : s \subseteq 1 .. 32
      BY DEF Bits
    <2> QED
      BY <2>1, <2>2, FS_Subset
  <1> DEFINE Wrong == {s \in SUBSET S : iter[s] # Total(s)}
             Sizes == {Cardinality(s) : s \in Wrong}
  <1>9. Wrong = {}
    <2> SUFFICES ASSUME Wrong # {} PROVE FALSE
      OBVIOUS
    <2>1. Sizes \in SUBSET Nat /\ Sizes # {}
      BY <1>8, FS_CardinalityType
    <2>2. PICK n \in Sizes : \A k \in Sizes : n <= k
      BY <2>1, LeastElement
    <2>3. PICK s \in Wrong : n = Cardinality(s)
      OBVIOUS
    <2>4. s # {}
      BY <1>4, <1>7, <2>3
    <2>5. x(s) \in s /\ s \ {x(s)} \in SUBSET S /\ IsFiniteSet(s)
      BY <1>2, <1>8, <2>3, <2>4
    <2>6. Cardinality(s \ {x(s)}) = Cardinality(s) - 1 /\ Cardinality(s) \in Nat
      BY <2>5, FS_RemoveElement, FS_CardinalityType
    <2>7. s \ {x(s)} \notin Wrong
      BY <2>2, <2>3, <2>6
    <2>8. iter[s \ {x(s)}] = Total(s \ {x(s)})
      BY <2>5, <2>7
    <2>9. iter[s] = Total(s)
      BY <1>3, <1>7, <2>3, <2>4, <2>8
    <2> QED
      BY <2>3, <2>9
  <1> QED
    BY <1>1, <1>9

\* The bit mask of the message has the states the callback was given, no more.
LEMMA StatesKept ==
    ASSUME NEW S \in SUBSET CallStates
    PROVE  States(Mask(S)) = S
  <1> DEFINE B == {2^Shift[s] : s \in S}
             m == Total(B)
  <1>1. /\ 2^0 = 1 /\ 2^1 = 2 /\ 2^2 = 4 /\ 2^3 = 8 /\ 2^4 = 16 /\ 2^5 = 32
    OBVIOUS
  <1>2. \A s \in CallStates : 2^Shift[s] = ToxavBit[s]
    <2>1. \A s \in CallStates :
              \/ Shift[s] = 0 /\ ToxavBit[s] = 1
              \/ Shift[s] = 1 /\ ToxavBit[s] = 2
              \/ Shift[s] = 2 /\ ToxavBit[s] = 4
              \/ Shift[s] = 3 /\ ToxavBit[s] = 8
              \/ Shift[s] = 4 /\ ToxavBit[s] = 16
              \/ Shift[s] = 5 /\ ToxavBit[s] = 32
      BY DEF CallStates, Shift, ToxavBit
    <2> QED
      BY <1>1, <2>1
  <1>3. B = {ToxavBit[s] : s \in S}
    BY <1>2
  <1>4. \A s \in CallStates : ToxavBit[s] \in Bits /\ (s \in S <=> ToxavBit[s] \in B)
    <2>1. \A s \in CallStates : ToxavBit[s] \in Bits
      BY DEF CallStates, ToxavBit, Bits
    <2>2. \A s, r \in CallStates : ToxavBit[s] = ToxavBit[r] => s = r
      BY DEF CallStates, ToxavBit
    <2> QED
      BY <1>3, <2>1, <2>2
  <1>5. Mask(S) = m
    <2>1. B \in SUBSET Bits
      BY <1>3, <1>4
    <2> QED
      BY <2>1, SumOfBits DEF Mask
  <1>6. PICK b1 \in {0, 1}, b2 \in {0, 1}, b4 \in {0, 1}, b8 \in {0, 1}, b16 \in {0, 1},
             b32 \in {0, 1} :
            /\ m = b1 + 2 * b2 + 4 * b4 + 8 * b8 + 16 * b16 + 32 * b32
            /\ b1 = 1 <=> 1 \in B
            /\ b2 = 1 <=> 2 \in B
            /\ b4 = 1 <=> 4 \in B
            /\ b8 = 1 <=> 8 \in B
            /\ b16 = 1 <=> 16 \in B
            /\ b32 = 1 <=> 32 \in B
    <2> HIDE DEF B
    <2> DEFINE bit(k) == IF k \in B THEN 1 ELSE 0
    <2> WITNESS bit(1) \in {0, 1}, bit(2) \in {0, 1}, bit(4) \in {0, 1}, bit(8) \in {0, 1},
                bit(16) \in {0, 1}, bit(32) \in {0, 1}
    <2> QED
      BY DEF Total
  <1> HIDE DEF m, B
  <1>7. /\ (m \div 1) % 2 = b1 /\ (m \div 2) % 2 = b2 /\ (m \div 4) % 2 = b4
        /\ (m \div 8) % 2 = b8 /\ (m \div 16) % 2 = b16 /\ (m \div 32) % 2 = b32
    BY <1>6
  <1>8. \A k \in Bits : (m \div k) % 2 = 1 <=> k \in B
    BY <1>6, <1>7 DEF Bits
  <1>9. \A s \in CallStates : (m \div ToxavBit[s]) % 2 = 1 <=> s \in S
    BY <1>4, <1>8
  <1> QED
    BY <1>5, <1>9 DEF States

-----------------------------------------------------------------------------
(* The invariant *)

\* An array as long as a salt holds neither a key nor a box, which are longer.
SaltSound(a) == a.length = SaltLength /\ a.holds.kind \notin {"key", "box"}

\* A key is what its passphrase and its salt derive.
KeySound(a) ==
    a.holds.kind = "key" =>
        /\ a = PassKey(a.holds.pass, a.holds.salt)
        /\ SaltSound(a.holds.salt)

\* A box is longer than its data, which the client made and which is not empty.
BoxSound(a) ==
    IsBox(a) =>
        /\ a.holds.data \in Raw /\ a.holds.data.length # 0
        /\ a.length = a.holds.data.length + ExtraLength
        /\ KeySound(a.holds.key) /\ a.holds.key.length = PassKeyLength

ArraySound(a) == a.length \in Nat /\ KeySound(a) /\ BoxSound(a)

HeldSound == \A a \in held : ArraySound(a)
ReplySound == reply.kind = "array" => ArraySound(reply.array)

\* What is requested.
FrameSound ==
    /\ request.kind = "sendAudio" =>
           request.count \in Int_ /\ request.channels \in Channels /\ request.pcm \in Length
    /\ request.kind = "sendVideo" => {request.y, request.u, request.v} \subseteq Length
    /\ request.kind = "callState" => request.states \in SUBSET CallStates
    /\ request.kind = "receiveAudio" => request.pcm \in Seq(Short)
    /\ request.kind = "receiveVideo" =>
           /\ request.width \in Nat /\ request.height \in Nat
           /\ {request.yStride, request.uStride, request.vStride} \subseteq Int
           /\ request.cached \in BOOLEAN

ErrorSound ==
    request.kind \in {"toxFunction", "throwCode"} =>
        /\ request.error \in ErrorEnums
        /\ request.code \in Handled[request.error[1]][request.error[2]] \cup {"OK", Unknown}

CryptoSound ==
    /\ request.kind \in {"getSalt", "isDataEncrypted", "hash", "passKeyFromBytes"} =>
           ArraySound(request.data)
    /\ request.kind = "deriveWithSalt" => ArraySound(request.salt)
    /\ request.kind = "encrypt" => request.data \in Raw /\ ArraySound(request.key)
    /\ request.kind = "decrypt" => ArraySound(request.data) /\ ArraySound(request.key)

EnumSound ==
    /\ request.kind = "sendEnum" =>
           request.type \in Sent /\ request.value \in Enumerators(request.type)
    /\ request.kind = "receiveEnum" =>
           request.type \in Received /\ request.number \in 0 .. Len(Library[request.type])
    /\ request.kind = "invokeEnum" =>
           request.type \in Received /\ request.value \in Enumerators(request.type)
    /\ request.kind = "getStatus" => request.value \in Enumerators("userStatus")

LogSound ==
    /\ request.kind = "logCall" =>
           LET types == Signatures[request.func]
           IN  /\ request.func \in DOMAIN Signatures
               /\ request.pointers \in {32, 64}
               /\ \E high \in BOOLEAN,
                     arrays \in [{i \in DOMAIN types : types[i] \in ArrayTypes} -> Lengths] :
                      request.values = Values(types, arrays, high)
    /\ request.kind = "logTime" =>
           /\ request.first \in Times /\ request.time \in Times
           /\ \/ request.first.seconds < request.time.seconds
              \/ /\ request.first.seconds = request.time.seconds
                 /\ request.first.nanos <= request.time.nanos
    /\ request.kind = "logElapsed" => request.nanos \in Elapsed

RequestSound == FrameSound /\ ErrorSound /\ CryptoSound /\ EnumSound /\ LogSound

Sound ==
    /\ request = None => reply = None
    /\ RequestSound
    /\ HeldSound
    /\ ReplySound

ConversionsInv ==
    /\ Sound
    /\ SentFits
    /\ RoundTrip
    /\ PixelsInside
    /\ CacheFits
    /\ ErrorsReported
    /\ BuffersFit
    /\ Recovered
    /\ EnumsKept
    /\ LogReadsInside
    /\ LogValueKept

\* The arrays of the client hold neither keys nor boxes.
LEMMA RawSound == \A a \in Raw : ArraySound(a)
  <1> SUFFICES ASSUME NEW n \in 0 .. ExtraLength + MaxData PROVE ArraySound(Array(n, Anything))
    BY DEF Raw
  <1>1. n \in Nat
    BY CryptoAssumption
  <1> QED
    BY <1>1 DEF ArraySound, KeySound, BoxSound, IsBox, Array, Anything

\* There is nothing to say of a request that has not been answered.
LEMMA Unanswered ==
    ASSUME reply' = None
    PROVE  /\ ReplySound' /\ SentFits' /\ RoundTrip' /\ PixelsInside' /\ CacheFits'
           /\ ErrorsReported' /\ BuffersFit' /\ Recovered' /\ EnumsKept' /\ LogReadsInside'
           /\ LogValueKept'
  BY DEF None, ReplySound, SentFits, RoundTrip, PixelsInside, CacheFits, ErrorsReported,
         BuffersFit, Recovered, EnumsKept, LogReadsInside, LogValueKept

LEMMA InitSound == ConversionsInit => ConversionsInv
  <1> SUFFICES ASSUME ConversionsInit PROVE ConversionsInv
    OBVIOUS
  <1>1. request = [kind |-> "none"] /\ reply = [kind |-> "none"] /\ held = {}
    BY DEF ConversionsInit, ExchangeInit, CryptoInit, None
  <1>2. request.kind = "none" /\ reply.kind = "none"
    BY <1>1
  <1>3. RequestSound
    BY <1>2 DEF RequestSound, FrameSound, ErrorSound, CryptoSound, EnumSound, LogSound
  <1>4. Sound
    BY <1>1, <1>2, <1>3 DEF Sound, None, HeldSound, ReplySound
  <1> QED
    BY <1>1, <1>2, <1>4
       DEF ConversionsInv, None, SentFits, RoundTrip, PixelsInside, CacheFits, ErrorsReported,
           BuffersFit, Recovered, EnumsKept, LogReadsInside, LogValueKept

\* Every request the client makes is sound.
LEMMA FrameRequestsSound == FrameRequests => RequestSound'
  <1> USE DEF Request, RequestSound, ErrorSound, CryptoSound, EnumSound, LogSound, FrameSound
  <1>1. ASSUME NEW count \in Int_, NEW channels \in Channels, NEW pcm \in Length,
               Request([kind |-> "sendAudio", count |-> count, channels |-> channels, pcm |-> pcm])
        PROVE  RequestSound'
    BY <1>1
  <1>2. ASSUME NEW width \in Int_, NEW height \in Int_, NEW y \in Length, NEW u \in Length,
               NEW v \in Length,
               Request([kind |-> "sendVideo", width |-> width, height |-> height,
                        y |-> y, u |-> u, v |-> v])
        PROVE  RequestSound'
    BY <1>2
  <1>3. ASSUME NEW S \in SUBSET CallStates, Request([kind |-> "callState", states |-> S])
        PROVE  RequestSound'
    BY <1>3
  <1>4. ASSUME NEW n \in 0 .. MaxSamples, NEW channels \in Channels, NEW pcm \in [1 .. n -> Short],
               Request([kind |-> "receiveAudio", pcm |-> pcm, channels |-> channels])
        PROVE  RequestSound'
    <2>1. n \in Nat
      BY FramesAssumption
    <2>2. pcm \in Seq(Short)
      BY <2>1
    <2> QED
      BY <1>4, <2>2
  <1>5. ASSUME NEW width \in Dimension, NEW height \in Dimension, NEW yStride \in Int_,
               NEW uStride \in Int_, NEW vStride \in Int_, NEW cached \in BOOLEAN,
               Request([kind |-> "receiveVideo", width |-> width, height |-> height,
                        yStride |-> yStride, uStride |-> uStride, vStride |-> vStride,
                        cached |-> cached])
        PROVE  RequestSound'
    <2>1. width \in Nat /\ height \in Nat /\ {yStride, uStride, vStride} \subseteq Int
      BY DEF Dimension, UnsignedInts, Int_, SignedInts
    <2> QED
      BY <1>5, <2>1
  <1> QED
    BY <1>1, <1>2, <1>3, <1>4, <1>5 DEF FrameRequests

LEMMA OtherRequestsSound == ErrorRequests \/ EnumRequests \/ LogRequests => RequestSound'
  <1> USE DEF Request, RequestSound, ErrorSound, CryptoSound, EnumSound, LogSound, FrameSound
  <1>1. ErrorRequests => RequestSound'
    BY DEF ErrorRequests
  <1>2. EnumRequests => RequestSound'
    BY DEF EnumRequests
  <1>3. ASSUME NEW func \in DOMAIN Signatures, NEW pointers \in {32, 64}, NEW high \in BOOLEAN,
               NEW arrays \in [{i \in DOMAIN Signatures[func] : Signatures[func][i] \in ArrayTypes}
                                  -> Lengths],
               Request([kind |-> "logCall", func |-> func, pointers |-> pointers,
                        values |-> Values(Signatures[func], arrays, high)])
        PROVE  RequestSound'
    BY <1>3
  <1>4. ASSUME NEW first \in Times, NEW time \in Times,
               \/ first.seconds < time.seconds
               \/ first.seconds = time.seconds /\ first.nanos <= time.nanos,
               Request([kind |-> "logTime", first |-> first, time |-> time])
        PROVE  RequestSound'
    BY <1>4
  <1>5. ASSUME NEW nanos \in Elapsed,
               Request([kind |-> "logElapsed", nanos |-> nanos])
        PROVE  RequestSound'
    BY <1>5
  <1> HIDE DEF RequestSound, ErrorSound, CryptoSound, EnumSound, LogSound, FrameSound, Request
  <1>6. LogRequests => RequestSound'
    BY ZenonT(60), <1>3, <1>4, <1>5 DEF LogRequests
  <1> QED
    BY <1>1, <1>2, <1>6

LEMMA CryptoRequestsSound ==
    ASSUME HeldSound, CryptoRequests
    PROVE  RequestSound'
  <1>1. \A a \in Raw \cup held : ArraySound(a)
    BY RawSound DEF HeldSound
  <1> USE DEF Request, RequestSound, ErrorSound, CryptoSound, EnumSound, LogSound, FrameSound
  <1>2. ASSUME NEW data \in Raw \cup held,
               NEW kind \in {"getSalt", "isDataEncrypted", "hash", "passKeyFromBytes"},
               Request([kind |-> kind, data |-> data])
        PROVE  RequestSound'
    BY <1>1, <1>2
  <1>3. ASSUME NEW p \in Passphrases, Request([kind |-> "derive", pass |-> p])
        PROVE  RequestSound'
    BY <1>3
  <1>4. ASSUME NEW p \in Passphrases, NEW salt \in Raw \cup held,
               Request([kind |-> "deriveWithSalt", pass |-> p, salt |-> salt])
        PROVE  RequestSound'
    BY <1>1, <1>4
  <1>5. ASSUME NEW data \in Raw, NEW key \in Raw \cup held,
               Request([kind |-> "encrypt", data |-> data, key |-> key])
        PROVE  RequestSound'
    BY <1>1, <1>5
  <1>6. ASSUME NEW data \in Raw \cup held, NEW key \in Raw \cup held,
               Request([kind |-> "decrypt", data |-> data, key |-> key])
        PROVE  RequestSound'
    BY <1>1, <1>6
  <1> QED
    BY <1>2, <1>3, <1>4, <1>5, <1>6 DEF CryptoRequests

\* The steps of the client.
LEMMA ClientSound ==
    ASSUME ConversionsInv, Client
    PROVE  ConversionsInv'
  <1>1. (request = None => reply = None) /\ RequestSound /\ HeldSound /\ ReplySound
    BY DEF ConversionsInv, Sound
  <1>2. reply' = None
    BY <1>1 DEF Client, FrameRequests, ErrorRequests, EnumRequests, LogRequests, CryptoRequests,
                Request, Forget, Return
  <1>3. RequestSound'
    <2>1. CASE FrameRequests \/ ErrorRequests \/ EnumRequests \/ LogRequests \/ CryptoRequests
      BY <1>1, <2>1, FrameRequestsSound, OtherRequestsSound, CryptoRequestsSound
    <2>2. CASE UNCHANGED <<request, reply>>
      <3>1. request' = request
        BY <2>2
      <3>2. FrameSound' /\ ErrorSound'
        BY <1>1, <3>1 DEF RequestSound, FrameSound, ErrorSound
      <3>3. CryptoSound'
        BY <1>1, <3>1 DEF RequestSound, CryptoSound
      <3>4. EnumSound'
        BY <1>1, <3>1 DEF RequestSound, EnumSound
      <3>5. LogSound'
        BY <1>1, <3>1 DEF RequestSound, LogSound
      <3> QED
        BY <3>2, <3>3, <3>4, <3>5 DEF RequestSound
    <2>3. CASE Return
      <3>1. request'.kind = "none"
        BY <2>3 DEF Return, None
      <3> QED
        BY <3>1 DEF RequestSound, FrameSound, ErrorSound, CryptoSound, EnumSound, LogSound
    <2> QED
      BY <2>1, <2>2, <2>3 DEF Client
  <1>4. HeldSound'
    BY <1>1 DEF Client, Forget, Keep, HeldSound, ReplySound
  <1>5. Sound'
    BY <1>2, <1>3, <1>4, Unanswered DEF Sound
  <1> QED
    BY <1>2, <1>5, Unanswered DEF ConversionsInv

-----------------------------------------------------------------------------
(* The replies *)

\* No switch has a case for OK among its failures, nor one for what it does not know.
LEMMA TablesApart ==
    ASSUME NEW e \in ErrorEnums
    PROVE  {"OK", Unknown} \cap Handled[e[1]][e[2]] = {}
  <1>1. PICK s \in DOMAIN Handled : e \in {s} \X DOMAIN Handled[s]
    BY DEF ErrorEnums
  <1>2. e[1] = s /\ e[2] \in DOMAIN Handled[s]
    BY <1>1
  <1>3. s \in {"core", "av", "crypto"}
    BY DEF Handled
  <1> USE DEF Unknown
  <1>4. \A m \in DOMAIN FileErrors : "OK" \notin FileErrors[m] /\ Unknown \notin FileErrors[m]
    BY DEF FileErrors
  <1>5. \A m \in DOMAIN FriendErrors : "OK" \notin FriendErrors[m] /\ Unknown \notin FriendErrors[m]
    BY DEF FriendErrors
  <1>6. \A m \in DOMAIN SelfErrors : "OK" \notin SelfErrors[m] /\ Unknown \notin SelfErrors[m]
    BY DEF SelfErrors
  <1>7. \A m \in DOMAIN AvErrors : "OK" \notin AvErrors[m] /\ Unknown \notin AvErrors[m]
    BY DEF AvErrors
  <1>8. \A m \in DOMAIN CryptoErrors : "OK" \notin CryptoErrors[m] /\ Unknown \notin CryptoErrors[m]
    BY DEF CryptoErrors
  <1> HIDE DEF Unknown
  <1>9. CASE s = "core"
    <2>1. Handled[s] = CoreErrors
      BY <1>9 DEF Handled
    <2>2. PICK m \in DOMAIN CoreErrors : m = e[2]
      BY <1>2, <2>1
    <2>3. m \in DOMAIN FileErrors \cup DOMAIN FriendErrors \cup DOMAIN SelfErrors
      BY <2>2 DEF CoreErrors
    <2>4. \/ m \in DOMAIN FileErrors /\ CoreErrors[m] = FileErrors[m]
          \/ m \in DOMAIN FriendErrors /\ CoreErrors[m] = FriendErrors[m]
          \/ m \in DOMAIN SelfErrors /\ CoreErrors[m] = SelfErrors[m]
      BY <2>3 DEF CoreErrors
    <2> QED
      BY <1>2, <1>4, <1>5, <1>6, <2>1, <2>2, <2>4
  <1>10. CASE s = "av"
    <2>1. Handled[s] = AvErrors
      BY <1>10 DEF Handled
    <2> QED
      BY <1>2, <1>7, <2>1
  <1>11. CASE s = "crypto"
    <2>1. Handled[s] = CryptoErrors
      BY <1>11 DEF Handled
    <2> QED
      BY <1>2, <1>8, <2>1
  <1> QED
    BY <1>3, <1>9, <1>10, <1>11

\* The functions of ToxCrypto have tables.
LEMMA CryptoTables ==
    \A m \in {"GetSalt", "KeyDerivation", "Decryption", "Encryption"} :
        <<"crypto", m>> \in ErrorEnums
  <1>1. Handled.crypto = CryptoErrors /\ "crypto" \in DOMAIN Handled
    BY DEF Handled
  <1>2. \A m \in {"GetSalt", "KeyDerivation", "Decryption", "Encryption"} : m \in DOMAIN CryptoErrors
    BY DEF CryptoErrors
  <1>3. \A m \in {"GetSalt", "KeyDerivation", "Decryption", "Encryption"} :
            <<"crypto", m>> \in {"crypto"} \X DOMAIN Handled["crypto"]
    BY <1>1, <1>2
  <1> QED
    BY <1>1, <1>3 DEF ErrorEnums

\* A call gives the value if and only if the library returned OK.
LEMMA Outcome ==
    ASSUME NEW e, NEW code, NEW v
    PROVE  /\ code # "OK" => with_error_handling(e, code, v).kind = "throws"
           /\ e \in ErrorEnums /\ code = "OK" => with_error_handling(e, code, v) = v
           /\ with_error_handling(e, code, v).kind \in {v.kind, "throws"}
  <1>1. throw_tox_exception(e, code).kind = "throws" /\ IllegalState.kind = "throws"
    BY DEF throw_tox_exception, IllegalState
  <1>2. code # "OK" => handle_error_enum(e, code) \in {"FAILURE", "UNHANDLED"}
    BY DEF handle_error_enum
  <1>3. ASSUME e \in ErrorEnums, code = "OK" PROVE handle_error_enum(e, code) = "SUCCESS"
    <2>1. "OK" \notin Handled[e[1]][e[2]]
      BY <1>3, TablesApart
    <2> QED
      BY <1>3, <2>1 DEF handle_error_enum
  <1> QED
    BY <1>1, <1>2, <1>3 DEF with_error_handling

LEMMA ThrowsKind == \A e, code : throw_tox_code(e, code).kind = "throws"
  BY DEF throw_tox_code, throw_tox_exception, IllegalState

LEMMA ThrowsException == \A e, code : throw_tox_exception(e, code).kind = "throws"
  BY DEF throw_tox_exception

\* A handler leaves the request and what the client keeps alone.
LEMMA HandlersReply ==
    ASSUME Handlers
    PROVE  reply = None /\ request' = request /\ held' = held
  <1> USE DEF Reply
  <1>1. AudioSendFrame \/ VideoSendFrame => reply = None /\ request' = request
    BY DEF AudioSendFrame, VideoSendFrame
  <1>2. InvokeCallState \/ InvokeAudioReceiveFrame \/ DispatchVideoReceiveFrame =>
            reply = None /\ request' = request
    BY DEF InvokeCallState, InvokeAudioReceiveFrame, DispatchVideoReceiveFrame
  <1>3. ToxFunction \/ ThrowCode => reply = None /\ request' = request
    BY DEF ToxFunction, ThrowCode
  <1>4. CryptoHandlers => reply = None /\ request' = request
    BY DEF CryptoHandlers, toxGetSalt, toxIsDataEncrypted, toxPassKeyDeriveWithSalt,
           toxPassKeyDerive, toxPassKeyDecrypt, toxPassKeyEncrypt, toxHash, passKeyFromBytes
  <1>5. EnumHandlers => reply = None /\ request' = request
    BY DEF EnumHandlers, SendEnum, ReceiveEnum, InvokeEnum, GetStatus
  <1>6. LogHandlers => reply = None /\ request' = request
    BY DEF LogHandlers, PrintArgs, PrintTime, PrintElapsed
  <1> QED
    BY <1>1, <1>2, <1>3, <1>4, <1>5, <1>6 DEF Handlers

\* What each function answers.
LEMMA FrameKinds ==
    /\ AudioSendFrame \/ VideoSendFrame => reply'.kind \in {"sent", "throws", "abort"}
    /\ InvokeCallState => reply'.kind = "callState"
    /\ InvokeAudioReceiveFrame => reply'.kind \in {"audio", "abort"}
    /\ DispatchVideoReceiveFrame => reply'.kind \in {"video", "throws", "abort"}
  <1>1. AudioSendFrame \/ VideoSendFrame => reply'.kind \in {"sent", "throws", "abort"}
    BY ThrowsKind DEF AudioSendFrame, VideoSendFrame, Reply
  <1>2. InvokeCallState => reply'.kind = "callState"
    BY DEF InvokeCallState, Reply
  <1>3. InvokeAudioReceiveFrame => reply'.kind \in {"audio", "abort"}
    BY DEF InvokeAudioReceiveFrame, Reply
  <1>4. DispatchVideoReceiveFrame => reply'.kind \in {"video", "throws", "abort"}
    BY DEF DispatchVideoReceiveFrame, Reply
  <1> QED
    BY <1>1, <1>2, <1>3, <1>4

LEMMA ErrorKinds == ToxFunction \/ ThrowCode => reply'.kind \in {"value", "throws"}
  <1>1. [kind |-> "value"].kind = "value"
    OBVIOUS
  <1>2. \A e, code : with_error_handling(e, code, [kind |-> "value"]).kind \in {"value", "throws"}
    BY <1>1, Outcome
  <1> QED
    BY <1>2, ThrowsKind DEF ToxFunction, ThrowCode, Reply

LEMMA CryptoKinds ==
    CryptoHandlers => reply'.kind \in {"array", "boolean", "hash", "null", "throws", "abort"}
  <1>1. \A a, w, r : toJavaArray(a, w, r).kind = "array"
    BY DEF toJavaArray
  <1>2. \A e, code, a, w, r :
            with_error_handling(e, code, toJavaArray(a, w, r)).kind \in {"array", "throws"}
    BY <1>1, Outcome
  <1>3. toxGetSalt => reply'.kind \in {"array", "throws"}
    BY <1>2 DEF toxGetSalt, Reply
  <1>4. toxIsDataEncrypted => reply'.kind = "boolean"
    BY DEF toxIsDataEncrypted, Reply
  <1>5. toxPassKeyDeriveWithSalt => reply'.kind \in {"array", "throws"}
    BY <1>2, ThrowsException DEF toxPassKeyDeriveWithSalt, pass_key_to_java, Reply
  <1>6. toxPassKeyDerive => reply'.kind \in {"array", "throws"}
    BY <1>2 DEF toxPassKeyDerive, pass_key_to_java, Reply
  <1>7. toxPassKeyDecrypt => reply'.kind \in {"array", "throws", "abort"}
    BY <1>2 DEF toxPassKeyDecrypt, Reply
  <1>8. toxPassKeyEncrypt => reply'.kind \in {"array", "throws", "abort"}
    BY <1>2 DEF toxPassKeyEncrypt, Reply
  <1>9. toxHash => reply'.kind = "hash"
    BY DEF toxHash, Reply
  <1>10. passKeyFromBytes => reply'.kind \in {"array", "null"}
    BY <1>1 DEF passKeyFromBytes, Reply
  <1> QED
    BY <1>3, <1>4, <1>5, <1>6, <1>7, <1>8, <1>9, <1>10 DEF CryptoHandlers

LEMMA EnumKinds == EnumHandlers => reply'.kind \in {"enum", "abort"}
  BY DEF EnumHandlers, SendEnum, ReceiveEnum, InvokeEnum, GetStatus, Reply

LEMMA LogKinds == LogHandlers => reply'.kind \in {"entry", "time", "elapsed"}
  BY DEF LogHandlers, PrintArgs, PrintTime, PrintElapsed, Reply

\* Which function a request calls.
LEMMA ByKind ==
    ASSUME Handlers
    PROVE  /\ request.kind = "sendAudio" => AudioSendFrame
           /\ request.kind = "sendVideo" => VideoSendFrame
           /\ request.kind = "callState" => InvokeCallState
           /\ request.kind = "receiveAudio" => InvokeAudioReceiveFrame
           /\ request.kind = "receiveVideo" => DispatchVideoReceiveFrame
           /\ request.kind \in {"toxFunction", "throwCode"} => ToxFunction \/ ThrowCode
           /\ request.kind \in {"getSalt", "isDataEncrypted", "deriveWithSalt", "derive", "decrypt",
                                "encrypt", "hash", "passKeyFromBytes"} => CryptoHandlers
           /\ request.kind \in {"sendEnum", "receiveEnum", "invokeEnum", "getStatus"} => EnumHandlers
           /\ request.kind \in {"logCall", "logTime", "logElapsed"} => LogHandlers
  <1>1. AudioSendFrame => request.kind = "sendAudio"
    BY DEF AudioSendFrame
  <1>2. VideoSendFrame => request.kind = "sendVideo"
    BY DEF VideoSendFrame
  <1>3. InvokeCallState => request.kind = "callState"
    BY DEF InvokeCallState
  <1>4. InvokeAudioReceiveFrame => request.kind = "receiveAudio"
    BY DEF InvokeAudioReceiveFrame
  <1>5. DispatchVideoReceiveFrame => request.kind = "receiveVideo"
    BY DEF DispatchVideoReceiveFrame
  <1>6. ToxFunction \/ ThrowCode => request.kind \in {"toxFunction", "throwCode"}
    BY DEF ToxFunction, ThrowCode
  <1>7. CryptoHandlers =>
            request.kind \in {"getSalt", "isDataEncrypted", "deriveWithSalt", "derive", "decrypt",
                              "encrypt", "hash", "passKeyFromBytes"}
    BY DEF CryptoHandlers, toxGetSalt, toxIsDataEncrypted, toxPassKeyDeriveWithSalt,
           toxPassKeyDerive, toxPassKeyDecrypt, toxPassKeyEncrypt, toxHash, passKeyFromBytes
  <1>8. EnumHandlers => request.kind \in {"sendEnum", "receiveEnum", "invokeEnum", "getStatus"}
    BY DEF EnumHandlers, SendEnum, ReceiveEnum, InvokeEnum, GetStatus
  <1>9. LogHandlers => request.kind \in {"logCall", "logTime", "logElapsed"}
    BY DEF LogHandlers, PrintArgs, PrintTime, PrintElapsed
  <1> QED
    BY <1>1, <1>2, <1>3, <1>4, <1>5, <1>6, <1>7, <1>8, <1>9 DEF Handlers

\* Which functions a reply comes from.
LEMMA ByReply ==
    ASSUME Handlers
    PROVE  /\ reply'.kind = "sent" => AudioSendFrame \/ VideoSendFrame
           /\ reply'.kind = "callState" => InvokeCallState
           /\ reply'.kind = "audio" => InvokeAudioReceiveFrame
           /\ reply'.kind = "video" => DispatchVideoReceiveFrame
           /\ reply'.kind \in {"array", "hash"} => CryptoHandlers
           /\ reply'.kind = "entry" => LogHandlers
  BY FrameKinds, ErrorKinds, CryptoKinds, EnumKinds, LogKinds DEF Handlers

-----------------------------------------------------------------------------
(* Frames *)

LEMMA IntWidths ==
    /\ IntBits \in Nat \ {0}
    /\ 2^(IntBits - 1) \in Nat \ {0}
    /\ 2^IntBits = 2 * 2^(IntBits - 1)
    /\ 2^(IntBits \div 2) \in Nat \ {0}
    /\ 2^(IntBits \div 2) * 2^(IntBits \div 2) = 2^IntBits
  <1>1. IntBits \in Nat \ {0} /\ IntBits % 2 = 0
    BY FramesAssumption
  <1>2. IntBits - 1 \in Nat /\ IntBits = (IntBits - 1) + 1
    BY <1>1
  <1>3. IntBits \div 2 \in Nat /\ IntBits = (IntBits \div 2) + (IntBits \div 2)
    BY <1>1
  <1>4. 2^(IntBits - 1) \in Nat \ {0} /\ 2^IntBits = 2 * 2^(IntBits - 1)
    BY <1>2, PowerPositive, PowerDouble
  <1>5. 2^(IntBits \div 2) \in Nat \ {0}
    BY <1>3, PowerPositive
  <1>6. 2^(IntBits \div 2) * 2^(IntBits \div 2) = 2^IntBits
    BY <1>3, PowerAdd
  <1> QED
    BY <1>1, <1>4, <1>5, <1>6

\* A size in Length that is one of the products is the product, if that is small.
LEMMA SizeExact ==
    ASSUME NEW a \in Nat, NEW b \in Nat, a * b < 2^IntBits,
           NEW p \in Length, p \in Products(a, b)
    PROVE  p = a * b
  <1>1. PICK x \in Nat : x = a * b /\ x < 2^IntBits
    BY SMT
  <1>2. p \in Nat /\ p < 2^(IntBits - 1)
    BY IntWidths DEF Length
  <1>3. p \in {x, Signed(x, IntBits)}
    BY <1>1 DEF Products
  <1> QED
    BY <1>1, <1>2, <1>3, IntWidths, ProductExact

LEMMA SentFitsKept ==
    ASSUME Sound, Handlers
    PROVE  SentFits'
  <1>1. request' = request /\ FrameSound
    BY HandlersReply DEF Sound, RequestSound
  <1> SUFFICES ASSUME reply'.kind = "sent"
               PROVE  /\ request.kind = "sendAudio" => request.pcm = request.count * request.channels
                      /\ (request.kind = "sendVideo" /\ {request.width, request.height} \subseteq Dimension) =>
                             /\ request.y = request.width * request.height
                             /\ request.u = (request.width \div 2) * (request.height \div 2)
                             /\ request.v = request.u
    BY <1>1 DEF SentFits
  <1>2. ASSUME request.kind = "sendAudio"
        PROVE  request.pcm = request.count * request.channels
    <2>1. AudioSendFrame
      BY <1>2, ByKind
    <2>2. request.count \in Int_ /\ request.channels \in {1, 2} /\ request.pcm \in Length
      BY <1>1, <1>2 DEF FrameSound, Channels
    <2>3. /\ request.count >= 0
          /\ request.pcm \in Products(request.count, request.channels)
      BY <2>1, ThrowsKind DEF AudioSendFrame, Reply
    <2>4. PICK a \in Nat, b \in {1, 2} : a = request.count /\ b = request.channels
      BY <2>2, <2>3 DEF Int_, SignedInts
    <2>5. a < 2^(IntBits - 1)
      BY <2>2, <2>4, IntWidths DEF Int_, SignedInts
    <2>6. a * b < 2^IntBits
      BY <2>5, IntWidths
    <2> QED
      BY <2>2, <2>3, <2>4, <2>6, SizeExact
  <1>3. ASSUME request.kind = "sendVideo", request.width \in Dimension, request.height \in Dimension
        PROVE  /\ request.y = request.width * request.height
               /\ request.u = (request.width \div 2) * (request.height \div 2)
               /\ request.v = request.u
    <2>1. VideoSendFrame
      BY <1>3, ByKind
    <2>2. request.y \in Length /\ request.u \in Length /\ request.v \in Length
      BY <1>1, <1>3 DEF FrameSound
    <2>3. /\ request.y \in Products(request.width, request.height)
          /\ request.u \in ChromaSizes(request.width, request.height)
          /\ request.v = request.u
      BY <2>1, ThrowsKind DEF VideoSendFrame, Reply
    <2>4. PICK D \in Nat \ {0} : D = 2^(IntBits \div 2)
      BY IntWidths
    <2>5. PICK w \in Nat, h \in Nat : w = request.width /\ h = request.height /\ w < D /\ h < D
      BY <1>3, <2>4 DEF Dimension, UnsignedInts
    <2>6. D * D = 2^IntBits
      BY <2>4, IntWidths
    <2>7. w * h < D * D
      BY <2>5
    <2>8. PICK c \in Nat, d \in Nat : c = w \div 2 /\ d = h \div 2 /\ c < D /\ d < D
      BY <2>5
    <2>9. c * d < D * D
      BY <2>8
    <2>10. Half(w) = c /\ Half(h) = d
      BY <2>8 DEF Half
    <2>11. request.y = w * h
      BY <2>2, <2>3, <2>5, <2>6, <2>7, SizeExact
    <2>12. request.u \in Products(c, d)
      BY <2>3, <2>5, <2>10 DEF ChromaSizes
    <2>13. request.u = c * d
      BY <2>2, <2>6, <2>9, <2>12, SizeExact
    <2> QED
      BY <2>3, <2>5, <2>8, <2>11, <2>13
  <1> QED
    BY <1>2, <1>3

LEMMA RoundTripKept ==
    ASSUME Sound, Handlers
    PROVE  RoundTrip'
  <1>1. request' = request /\ FrameSound
    BY HandlersReply DEF Sound, RequestSound
  <1>2. ASSUME reply'.kind = "callState" PROVE reply'.states = request.states
    <2>1. InvokeCallState
      BY <1>2, ByReply
    <2>2. request.states \in SUBSET CallStates /\ reply'.states = States(Mask(request.states))
      BY <1>1, <2>1 DEF FrameSound, InvokeCallState, Reply
    <2> QED
      BY <2>2, StatesKept
  <1>3. ASSUME reply'.kind = "audio" PROVE reply'.pcm = request.pcm
    <2>1. InvokeAudioReceiveFrame
      BY <1>3, ByReply
    <2>2. request.pcm \in Seq(Short) /\ reply'.pcm = ToShortArray(PcmBytes(request.pcm))
      BY <1>1, <1>3, <2>1 DEF FrameSound, InvokeAudioReceiveFrame, Reply
    <2> QED
      BY <2>2, FrameKept
  <1> QED
    BY <1>1, <1>2, <1>3 DEF RoundTrip

\* A plane that is as long as the longer of a row and a stride, for every row.
LEMMA PlaneInside ==
    ASSUME NEW w \in Nat, NEW h \in Nat, NEW s \in Int
    PROVE  /\ Max({w, Abs(s)}) * h \in Nat
           /\ \A row \in 0 .. h - 1, col \in 0 .. w - 1 :
                  row * Abs(s) + col < Max({w, Abs(s)}) * h
           /\ Abs(s) >= w => Max({w, Abs(s)}) * h = Abs(s) * h
  <1>1. Abs(s) \in Nat
    BY DEF Abs
  <1>2. PICK m \in Nat : m = Max({w, Abs(s)}) /\ w <= m /\ Abs(s) <= m /\ (Abs(s) >= w => m = Abs(s))
    BY <1>1, MaxOfTwo
  <1>3. ASSUME NEW row \in 0 .. h - 1, NEW col \in 0 .. w - 1
        PROVE  row * Abs(s) + col < m * h
    <2>1. col \in 0 .. m - 1
      BY <1>2
    <2> QED
      BY <1>1, <1>2, <2>1, RowInside
  <1>4. m * h \in Nat
    OBVIOUS
  <1> QED
    BY <1>2, <1>3, <1>4

\* The three planes of a frame that is received.
LEMMA PlanesInside ==
    ASSUME FrameSound, request.kind = "receiveVideo"
    PROVE  /\ \A i \in 1 .. 3 : Planes(request)[i] \in Int /\ CachedArrays(request)[i] \in Int
           /\ \A row \in 0 .. request.height - 1, col \in 0 .. request.width - 1 :
                  row * Abs(request.yStride) + col < Planes(request)[1]
           /\ \A row \in 0 .. (request.height \div 2) - 1, col \in 0 .. (request.width \div 2) - 1 :
                  /\ row * Abs(request.uStride) + col < Planes(request)[2]
                  /\ row * Abs(request.vStride) + col < Planes(request)[3]
           /\ (/\ Abs(request.yStride) >= request.width
               /\ Abs(request.uStride) >= request.width \div 2
               /\ Abs(request.vStride) >= request.width \div 2) =>
                  \A i \in 1 .. 3 : Planes(request)[i] = CachedArrays(request)[i]
  <1>1. PICK w \in Nat, h \in Nat, y \in Int, u \in Int, v \in Int :
            /\ w = request.width /\ h = request.height
            /\ y = request.yStride /\ u = request.uStride /\ v = request.vStride
    BY DEF FrameSound
  <1>2. PICK c \in Nat, d \in Nat : c = w \div 2 /\ d = h \div 2
    OBVIOUS
  <1>3. /\ Planes(request)[1] = Max({w, Abs(y)}) * h
        /\ Planes(request)[2] = Max({c, Abs(u)}) * d
        /\ Planes(request)[3] = Max({c, Abs(v)}) * d
    BY <1>1, <1>2 DEF Planes, YSize, UvSize
  <1>4. /\ CachedArrays(request)[1] = Abs(y) * h
        /\ CachedArrays(request)[2] = Abs(u) * d
        /\ CachedArrays(request)[3] = Abs(v) * d
    BY <1>1, <1>2 DEF CachedArrays
  <1>5. Abs(y) \in Nat /\ Abs(u) \in Nat /\ Abs(v) \in Nat
    BY DEF Abs
  <1>6. /\ Planes(request)[1] \in Nat
        /\ \A row \in 0 .. h - 1, col \in 0 .. w - 1 : row * Abs(y) + col < Planes(request)[1]
    <2>1. /\ Max({w, Abs(y)}) * h \in Nat
          /\ \A row \in 0 .. h - 1, col \in 0 .. w - 1 :
                 row * Abs(y) + col < Max({w, Abs(y)}) * h
      BY PlaneInside, Zenon
    <2> QED
      BY <1>3, <2>1, Zenon
  <1>7. /\ Planes(request)[2] \in Nat
        /\ \A row \in 0 .. d - 1, col \in 0 .. c - 1 : row * Abs(u) + col < Planes(request)[2]
    <2>1. /\ Max({c, Abs(u)}) * d \in Nat
          /\ \A row \in 0 .. d - 1, col \in 0 .. c - 1 :
                 row * Abs(u) + col < Max({c, Abs(u)}) * d
      BY PlaneInside, Zenon
    <2> QED
      BY <1>3, <2>1, Zenon
  <1>8. /\ Planes(request)[3] \in Nat
        /\ \A row \in 0 .. d - 1, col \in 0 .. c - 1 : row * Abs(v) + col < Planes(request)[3]
    <2>1. /\ Max({c, Abs(v)}) * d \in Nat
          /\ \A row \in 0 .. d - 1, col \in 0 .. c - 1 :
                 row * Abs(v) + col < Max({c, Abs(v)}) * d
      BY PlaneInside, Zenon
    <2> QED
      BY <1>3, <2>1, Zenon
  <1>9. \A i \in 1 .. 3 : Planes(request)[i] \in Int /\ CachedArrays(request)[i] \in Int
    BY <1>4, <1>5, <1>6, <1>7, <1>8
  <1>10. ASSUME Abs(y) >= w, Abs(u) >= c, Abs(v) >= c
         PROVE  \A i \in 1 .. 3 : Planes(request)[i] = CachedArrays(request)[i]
    <2>1. /\ Planes(request)[1] = CachedArrays(request)[1]
          /\ Planes(request)[2] = CachedArrays(request)[2]
          /\ Planes(request)[3] = CachedArrays(request)[3]
      BY <1>3, <1>4, <1>10, PlaneInside
    <2> QED
      BY <2>1
  <1> QED
    BY <1>1, <1>2, <1>6, <1>7, <1>8, <1>9, <1>10

LEMMA VideoKept ==
    ASSUME Sound, Handlers
    PROVE  PixelsInside' /\ CacheFits'
  <1>1. request' = request /\ FrameSound
    BY HandlersReply DEF Sound, RequestSound
  <1>2. PixelsInside'
    <2> SUFFICES ASSUME reply'.kind = "video" PROVE PixelsInside'
      BY DEF PixelsInside
    <2>1. DispatchVideoReceiveFrame
      BY ByReply
    <2>2. request.kind = "receiveVideo"
      BY <2>1 DEF DispatchVideoReceiveFrame
    <2>3. \/ reply'.arrays = Planes(request)
          \/ /\ reply'.arrays = CachedArrays(request)
             /\ \A i \in 1 .. 3 : ~(Planes(request)[i] > CachedArrays(request)[i])
      BY <2>1 DEF DispatchVideoReceiveFrame, Reply
    <2>4. \A i \in 1 .. 3 : Planes(request)[i] \in Int /\ reply'.arrays[i] \in Int
                            /\ Planes(request)[i] <= reply'.arrays[i]
      BY <1>1, <2>2, <2>3, PlanesInside
    <2>5. PICK p1 \in Int, p2 \in Int, p3 \in Int :
              /\ p1 = Planes(request)[1] /\ p2 = Planes(request)[2] /\ p3 = Planes(request)[3]
              /\ p1 <= reply'.arrays[1] /\ p2 <= reply'.arrays[2] /\ p3 <= reply'.arrays[3]
      BY <2>4
    <2>6. PICK r1 \in Int, r2 \in Int, r3 \in Int :
              r1 = reply'.arrays[1] /\ r2 = reply'.arrays[2] /\ r3 = reply'.arrays[3]
      BY <2>4
    <2>7. request.height \in Nat /\ request.width \in Nat
      BY <1>1, <2>2 DEF FrameSound
    <2>8. Abs(request.yStride) \in Nat /\ Abs(request.uStride) \in Nat /\ Abs(request.vStride) \in Nat
      BY <1>1, <2>2 DEF FrameSound, Abs
    <2>9. \A row \in 0 .. request.height - 1, col \in 0 .. request.width - 1 :
              row * Abs(request.yStride) + col < r1
      <3> SUFFICES ASSUME NEW row \in 0 .. request.height - 1, NEW col \in 0 .. request.width - 1
                   PROVE  row * Abs(request.yStride) + col < r1
        OBVIOUS
      <3>1. PICK x \in Int : x = row * Abs(request.yStride) + col
        BY <2>7, <2>8
      <3>2. x < p1
        BY <1>1, <2>2, <2>5, <3>1, PlanesInside
      <3> QED
        BY <2>5, <2>6, <3>1, <3>2
    <2>10. \A row \in 0 .. (request.height \div 2) - 1, col \in 0 .. (request.width \div 2) - 1 :
               /\ row * Abs(request.uStride) + col < r2
               /\ row * Abs(request.vStride) + col < r3
      <3> SUFFICES ASSUME NEW row \in 0 .. (request.height \div 2) - 1,
                          NEW col \in 0 .. (request.width \div 2) - 1
                   PROVE  /\ row * Abs(request.uStride) + col < r2
                          /\ row * Abs(request.vStride) + col < r3
        OBVIOUS
      <3>1. row \in Int /\ col \in Int
        OBVIOUS
      <3>2. PICK x \in Int, z \in Int : /\ x = row * Abs(request.uStride) + col
                                        /\ z = row * Abs(request.vStride) + col
        BY <2>8, <3>1
      <3>3. x < p2 /\ z < p3
        BY <1>1, <2>2, <2>5, <3>2, PlanesInside
      <3> QED
        BY <2>5, <2>6, <3>2, <3>3
    <2> QED
      BY <1>1, <2>6, <2>9, <2>10 DEF PixelsInside
  <1>3. CacheFits'
    <2> SUFFICES ASSUME request.kind = "receiveVideo", reply'.kind = "throws"
                 PROVE  \/ Abs(request.yStride) < request.width
                        \/ Abs(request.uStride) < request.width \div 2
                        \/ Abs(request.vStride) < request.width \div 2
      BY <1>1 DEF CacheFits
    <2>1. DispatchVideoReceiveFrame
      BY ByKind
    <2>2. \E i \in 1 .. 3 : Planes(request)[i] > CachedArrays(request)[i]
      BY <2>1 DEF DispatchVideoReceiveFrame, Reply
    <2>3. PICK w \in Nat, y \in Int, u \in Int, v \in Int :
              w = request.width /\ y = request.yStride /\ u = request.uStride /\ v = request.vStride
      BY <1>1 DEF FrameSound
    <2>4. Abs(y) \in Nat /\ Abs(u) \in Nat /\ Abs(v) \in Nat /\ w \div 2 \in Nat
      BY DEF Abs
    <2>5. ~(Abs(y) >= w /\ Abs(u) >= w \div 2 /\ Abs(v) >= w \div 2)
      BY <1>1, <2>2, <2>3, PlanesInside
    <2> QED
      BY <2>3, <2>4, <2>5
  <1> QED
    BY <1>2, <1>3

-----------------------------------------------------------------------------
(* Error codes *)

LEMMA ErrorsKept ==
    ASSUME Sound, Handlers
    PROVE  ErrorsReported'
  <1>1. request' = request /\ ErrorSound
    BY HandlersReply DEF Sound, RequestSound
  <1> SUFFICES ASSUME request.kind \in {"toxFunction", "throwCode"} PROVE ErrorsReported'
    BY <1>1 DEF ErrorsReported
  <1> DEFINE e == request.error
             code == request.code
             codes == Handled[e[1]][e[2]]
             value == [kind |-> "value"]
  <1>2. e \in ErrorEnums /\ code \in codes \cup {"OK", Unknown}
    BY <1>1 DEF ErrorSound
  <1>3. "OK" \notin codes /\ Unknown \notin codes /\ Unknown # "OK"
    BY <1>2, TablesApart DEF Unknown
  <1>4. \/ request.kind = "toxFunction" /\ reply' = with_error_handling(e, code, value)
        \/ request.kind = "throwCode" /\ reply' = throw_tox_code(e, code)
    BY ByKind DEF ToxFunction, ThrowCode, Reply
  <1> HIDE DEF codes, value
  <1>5. CASE code \notin {"OK", Unknown}
    <2>1. code \in codes
      BY <1>2, <1>5
    <2>2. handle_error_enum(e, code) = "FAILURE"
      BY <1>3, <1>5, <2>1 DEF handle_error_enum, codes
    <2>3. throw_tox_exception(e, code) = [kind |-> "throws", of |-> e, code |-> code]
      BY <2>1 DEF throw_tox_exception, JavaCodes, codes
    <2>4. reply' = [kind |-> "throws", of |-> e, code |-> code]
      BY <1>4, <2>2, <2>3 DEF with_error_handling, throw_tox_code
    <2> QED
      BY <1>1, <1>5, <2>4 DEF ErrorsReported
  <1>6. CASE code = "OK"
    <2>1. handle_error_enum(e, code) = "SUCCESS"
      BY <1>3, <1>6 DEF handle_error_enum, codes
    <2>2. CASE request.kind = "toxFunction"
      <3>1. reply' = value
        BY <1>4, <2>1, <2>2 DEF with_error_handling
      <3>2. reply'.kind = "value"
        BY <3>1 DEF value
      <3> QED
        BY <1>1, <1>6, <2>2, <3>2 DEF ErrorsReported
    <2>3. CASE request.kind = "throwCode"
      <3>1. reply' = IllegalState
        BY <1>4, <2>1, <2>3 DEF throw_tox_code
      <3> QED
        BY <1>1, <1>6, <2>3, <3>1 DEF ErrorsReported
    <2> QED
      BY <2>2, <2>3
  <1>7. CASE code = Unknown
    <2>1. handle_error_enum(e, code) = "UNHANDLED"
      BY <1>3, <1>7 DEF handle_error_enum, codes
    <2>2. reply' = IllegalState
      BY <1>4, <2>1 DEF with_error_handling, throw_tox_code
    <2> QED
      BY <1>1, <1>3, <1>7, <2>2 DEF ErrorsReported
  <1> QED
    BY <1>5, <1>6, <1>7

-----------------------------------------------------------------------------
(* Keys and boxes *)

LEMMA CryptoLengths ==
    /\ SaltLength \in Nat \ {0} /\ KeyLength \in Nat \ {0} /\ ExtraLength \in Nat
    /\ PassKeyLength \in Nat /\ PassKeyLength > SaltLength /\ ExtraLength > SaltLength
  <1>1. /\ SaltLength \in Nat \ {0} /\ KeyLength \in Nat \ {0} /\ MagicLength \in Nat \ {0}
        /\ ExtraLength \in Nat /\ MagicLength + SaltLength < ExtraLength
    BY CryptoAssumption
  <1> QED
    BY <1>1 DEF PassKeyLength

LEMMA RawLength == \A a \in Raw : a.length \in Nat
  BY RawSound DEF ArraySound

LEMMA SaltsSound ==
    /\ SaltSound(Array(SaltLength, Anything))
    /\ \A s : SaltSound(Salt(s))
    /\ \A a : SaltSound(a) => ArraySound(a)
    /\ \A a : ArraySound(a) /\ a.length = SaltLength => SaltSound(a)
    /\ \A k : KeySound(k) => SaltSound(SaltOf(k))
  <1>1. SaltSound(Array(SaltLength, Anything))
    BY DEF SaltSound, Array, Anything
  <1>2. \A s : SaltSound(Salt(s))
    BY DEF SaltSound, Salt, Array
  <1>3. \A a : SaltSound(a) => ArraySound(a)
    BY CryptoLengths DEF SaltSound, ArraySound, KeySound, BoxSound, IsBox
  <1>4. ASSUME NEW a, ArraySound(a), a.length = SaltLength PROVE SaltSound(a)
    <2>1. a.holds.kind # "key"
      <3> SUFFICES ASSUME a.holds.kind = "key" PROVE FALSE
        OBVIOUS
      <3>1. a = PassKey(a.holds.pass, a.holds.salt)
        BY <1>4 DEF ArraySound, KeySound
      <3>2. \A p, s : PassKey(p, s).length = PassKeyLength
        BY DEF PassKey, Array
      <3>3. a.length = PassKeyLength
        BY <3>1, <3>2
      <3> QED
        BY <1>4, <3>3, CryptoLengths
    <2>2. a.holds.kind # "box"
      <3> SUFFICES ASSUME a.holds.kind = "box" PROVE FALSE
        OBVIOUS
      <3>1. a.length = a.holds.data.length + ExtraLength /\ a.holds.data.length \in Nat
        BY <1>4, RawLength DEF ArraySound, BoxSound, IsBox
      <3> QED
        BY <1>4, <3>1, CryptoLengths
    <2> QED
      BY <1>4, <2>1, <2>2 DEF SaltSound
  <1>5. \A k : KeySound(k) => SaltSound(SaltOf(k))
    BY <1>1 DEF KeySound, SaltOf
  <1> QED
    BY <1>1, <1>2, <1>3, <1>4, <1>5

LEMMA PassKeySound ==
    ASSUME NEW p, NEW s, SaltSound(s)
    PROVE  /\ ArraySound(PassKey(p, s)) /\ PassKey(p, s).length = PassKeyLength
  <1> DEFINE k == PassKey(p, s)
  <1>1. /\ k.length = PassKeyLength /\ k.holds.kind = "key"
        /\ k.holds.pass = p /\ k.holds.salt = s
    BY DEF PassKey, Array
  <1>2. k = PassKey(k.holds.pass, k.holds.salt)
    BY <1>1
  <1> HIDE DEF k
  <1>3. ArraySound(k)
    BY <1>1, <1>2, CryptoLengths DEF ArraySound, KeySound, BoxSound, IsBox
  <1> QED
    BY <1>1, <1>3 DEF k

LEMMA BoxesSound ==
    ASSUME NEW data \in Raw, data.length # 0, NEW key, ArraySound(key), key.length = PassKeyLength
    PROVE  ArraySound(Box(data, key)) /\ Box(data, key).length = data.length + ExtraLength
  <1> DEFINE b == Box(data, key)
  <1>1. /\ b.length = data.length + ExtraLength /\ b.holds.kind = "box"
        /\ b.holds.data = data /\ b.holds.key = key
    BY DEF Box, Array
  <1>2. data.length \in Nat
    BY RawLength
  <1>3. b.length \in Nat
    BY <1>1, <1>2, CryptoLengths
  <1> HIDE DEF b
  <1>4. ArraySound(b)
    BY <1>1, <1>3 DEF ArraySound, KeySound, BoxSound, IsBox
  <1> QED
    BY <1>1, <1>4 DEF b

\* An array that a function returns is sound and fills its buffer.
Fits(r) ==
    r.kind \in {"array", "hash"} =>
        /\ r.wrote = r.room
        /\ r.kind = "array" => r.array.length = r.room /\ ArraySound(r.array)

LEMMA FitsArray ==
    ASSUME NEW a, NEW w, NEW r, w = r, a.length = r, ArraySound(a)
    PROVE  Fits(toJavaArray(a, w, r))
  BY DEF Fits, toJavaArray

\* Only the value of a successful call has to fit.
LEMMA FitsOutcome ==
    ASSUME NEW e, NEW code, NEW v, e \in ErrorEnums, code = "OK" => Fits(v)
    PROVE  Fits(with_error_handling(e, code, v))
  <1>1. CASE code = "OK"
    BY <1>1, Outcome
  <1>2. CASE code # "OK"
    <2>1. with_error_handling(e, code, v).kind = "throws"
      BY <1>2, Outcome
    <2> QED
      BY <2>1 DEF Fits
  <1> QED
    BY <1>1, <1>2

LEMMA GetSaltFits ==
    ASSUME CryptoSound, toxGetSalt
    PROVE  Fits(reply')
  <1>1. PICK code : reply' = with_error_handling(<<"crypto", "GetSalt">>, code,
                                 toJavaArray(SaltRead(request.data), SaltLength, SaltLength))
    BY DEF toxGetSalt, Reply
  <1>2. ArraySound(request.data)
    BY DEF toxGetSalt, CryptoSound
  <1>3. SaltSound(SaltRead(request.data))
    BY <1>2, SaltsSound DEF SaltRead, ArraySound, BoxSound
  <1>4. SaltRead(request.data).length = SaltLength /\ ArraySound(SaltRead(request.data))
    BY <1>3, SaltsSound DEF SaltSound
  <1>5. Fits(toJavaArray(SaltRead(request.data), SaltLength, SaltLength))
    BY <1>4, FitsArray
  <1>6. <<"crypto", "GetSalt">> \in ErrorEnums
    BY CryptoTables
  <1> QED
    BY <1>1, <1>5, <1>6, FitsOutcome

LEMMA DerivationFits ==
    ASSUME CryptoSound, toxPassKeyDerive \/ toxPassKeyDeriveWithSalt
    PROVE  Fits(reply')
  <1>1. <<"crypto", "KeyDerivation">> \in ErrorEnums
    BY CryptoTables
  <1>2. ASSUME NEW code, NEW p, NEW s, SaltSound(s)
        PROVE  Fits(with_error_handling(<<"crypto", "KeyDerivation">>, code, pass_key_to_java(p, s)))
    <2>1. ArraySound(PassKey(p, s)) /\ PassKey(p, s).length = PassKeyLength
      BY <1>2, PassKeySound
    <2>2. Fits(pass_key_to_java(p, s))
      BY <2>1, FitsArray DEF pass_key_to_java
    <2> QED
      BY <1>1, <2>2, FitsOutcome
  <1>3. CASE toxPassKeyDerive
    BY <1>2, <1>3, SaltsSound DEF toxPassKeyDerive, Reply
  <1>4. CASE toxPassKeyDeriveWithSalt
    <2>1. CASE request.salt.length # SaltLength
      <3>1. reply'.kind = "throws"
        BY <1>4, <2>1, ThrowsException DEF toxPassKeyDeriveWithSalt, Reply
      <3> QED
        BY <3>1 DEF Fits
    <2>2. CASE request.salt.length = SaltLength
      <3>1. SaltSound(request.salt)
        BY <1>4, <2>2, SaltsSound DEF toxPassKeyDeriveWithSalt, CryptoSound
      <3> QED
        BY <1>2, <1>4, <2>2, <3>1 DEF toxPassKeyDeriveWithSalt, Reply
    <2> QED
      BY <2>1, <2>2
  <1> QED
    BY <1>3, <1>4

\* decrypt succeeds for a box only, and its buffer is as long as the data in it.
LEMMA DecryptFits ==
    ASSUME CryptoSound, toxPassKeyDecrypt
    PROVE  Fits(reply')
  <1>1. ArraySound(request.data) /\ ArraySound(request.key)
    BY DEF toxPassKeyDecrypt, CryptoSound
  <1>2. CASE ~AssertPassKey(request.key)
    <2>1. reply'.kind = "abort"
      BY <1>2 DEF toxPassKeyDecrypt, Reply
    <2> QED
      BY <2>1 DEF Fits
  <1>3. CASE AssertPassKey(request.key)
    <2> DEFINE code == DecryptCode(request.data, request.key)
               array == IF code = "OK" THEN request.data.holds.data ELSE request.data
               wrote == request.data.length - ExtraLength
               room == DecryptRoom(request.data)
    <2>1. reply' = with_error_handling(<<"crypto", "Decryption">>, code, toJavaArray(array, wrote, room))
      BY <1>3 DEF toxPassKeyDecrypt, Reply
    <2>2. request.data.length \in Nat /\ ExtraLength \in Nat
      BY <1>1, CryptoLengths DEF ArraySound
    <2>3. ASSUME code = "OK" PROVE Fits(toJavaArray(array, wrote, room))
      <3>1. request.data.length > ExtraLength /\ IsBox(request.data)
        BY <2>2, <2>3 DEF DecryptCode
      <3>2. /\ request.data.holds.data \in Raw
            /\ request.data.length = request.data.holds.data.length + ExtraLength
        BY <1>1, <3>1 DEF ArraySound, BoxSound
      <3>3. request.data.holds.data.length \in Nat /\ ArraySound(request.data.holds.data)
        BY <3>2, RawSound, RawLength
      <3>4. wrote = request.data.holds.data.length
        BY <2>2, <3>2, <3>3
      <3>5. room = wrote
        <4>1. wrote \in Int /\ wrote > 0
          BY <2>2, <3>1
        <4> QED
          BY <4>1, MaxOfTwo DEF DecryptRoom
      <3>6. array = request.data.holds.data
        BY <2>3
      <3> HIDE DEF array, wrote, room
      <3> QED
        BY <3>3, <3>4, <3>5, <3>6, FitsArray
    <2>4. <<"crypto", "Decryption">> \in ErrorEnums
      BY CryptoTables
    <2> HIDE DEF code, array, wrote, room
    <2> QED
      BY <2>1, <2>3, <2>4, FitsOutcome
  <1> QED
    BY <1>2, <1>3

LEMMA EncryptFits ==
    ASSUME CryptoSound, toxPassKeyEncrypt
    PROVE  Fits(reply')
  <1>1. request.data \in Raw /\ ArraySound(request.key)
    BY DEF toxPassKeyEncrypt, CryptoSound
  <1>2. CASE ~AssertPassKey(request.key)
    <2>1. reply'.kind = "abort"
      BY <1>2 DEF toxPassKeyEncrypt, Reply
    <2> QED
      BY <2>1 DEF Fits
  <1>3. CASE AssertPassKey(request.key)
    <2> DEFINE box == Box(request.data, request.key)
               length == request.data.length + ExtraLength
    <2>1. PICK code \in EncryptCodes(request.data) :
              reply' = with_error_handling(<<"crypto", "Encryption">>, code,
                                           toJavaArray(box, length, length))
      BY <1>3 DEF toxPassKeyEncrypt, EncryptRoom, Reply
    <2>2. ASSUME code = "OK" PROVE Fits(toJavaArray(box, length, length))
      <3>1. request.data.length # 0
        BY <2>1, <2>2 DEF EncryptCodes
      <3>2. ArraySound(box) /\ box.length = length
        BY <1>1, <1>3, <3>1, BoxesSound DEF AssertPassKey
      <3> QED
        BY <3>2, FitsArray
    <2>3. <<"crypto", "Encryption">> \in ErrorEnums
      BY CryptoTables
    <2> HIDE DEF box, length
    <2> QED
      BY <2>1, <2>2, <2>3, FitsOutcome
  <1> QED
    BY <1>2, <1>3

LEMMA CryptoFits ==
    ASSUME CryptoSound, CryptoHandlers
    PROVE  Fits(reply')
  <1>1. CASE toxIsDataEncrypted \/ toxHash
    BY <1>1 DEF toxIsDataEncrypted, toxHash, Reply, Fits
  <1>2. CASE passKeyFromBytes
    <2>1. ArraySound(request.data)
      BY <1>2 DEF passKeyFromBytes, CryptoSound
    <2>2. CASE request.data.length = PassKeyLength
      <3>1. reply' = toJavaArray(request.data, PassKeyLength, PassKeyLength)
        BY <1>2, <2>2 DEF passKeyFromBytes, Reply
      <3> QED
        BY <2>1, <2>2, <3>1, FitsArray
    <2>3. CASE request.data.length # PassKeyLength
      <3>1. reply' = [kind |-> "null"]
        BY <1>2, <2>3 DEF passKeyFromBytes, Reply
      <3> QED
        BY <3>1 DEF Fits
    <2> QED
      BY <2>2, <2>3
  <1> QED
    BY <1>1, <1>2, GetSaltFits, DerivationFits, DecryptFits, EncryptFits DEF CryptoHandlers

LEMMA BuffersKept ==
    ASSUME Sound, Handlers
    PROVE  ReplySound' /\ BuffersFit'
  <1>1. request' = request /\ CryptoSound
    BY HandlersReply DEF Sound, RequestSound
  <1>2. ASSUME reply'.kind \in {"array", "hash"} PROVE Fits(reply')
    BY <1>1, <1>2, ByReply, CryptoFits
  <1>3. ReplySound'
    BY <1>2 DEF ReplySound, Fits
  <1>4. ASSUME reply'.kind = "abort", request.kind \in {"encrypt", "decrypt"}
        PROVE  request.key.holds.kind # "key"
    <2>1. toxPassKeyEncrypt \/ toxPassKeyDecrypt
      <3>1. CryptoHandlers
        BY <1>4, ByKind
      <3> QED
        BY <1>4, <3>1 DEF CryptoHandlers, toxGetSalt, toxIsDataEncrypted,
               toxPassKeyDeriveWithSalt, toxPassKeyDerive, toxHash, passKeyFromBytes
    <2>2. ~AssertPassKey(request.key)
      <3>1. \A e, code, a, w, r :
                with_error_handling(e, code, toJavaArray(a, w, r)).kind \in {"array", "throws"}
        <4>1. \A a, w, r : toJavaArray(a, w, r).kind = "array"
          BY DEF toJavaArray
        <4> QED
          BY <4>1, Outcome
      <3>2. AssertPassKey(request.key) => reply'.kind \in {"array", "throws"}
        BY <2>1, <3>1 DEF toxPassKeyEncrypt, toxPassKeyDecrypt, Reply
      <3> QED
        BY <1>4, <3>2
    <2>3. ArraySound(request.key)
      BY <1>1, <1>4 DEF CryptoSound
    <2> SUFFICES ASSUME request.key.holds.kind = "key" PROVE FALSE
      OBVIOUS
    <2>4. request.key = PassKey(request.key.holds.pass, request.key.holds.salt)
      BY <2>3 DEF ArraySound, KeySound
    <2>5. \A p, s : PassKey(p, s).length = PassKeyLength
      BY DEF PassKey, Array
    <2>6. request.key.length = PassKeyLength
      BY <2>4, <2>5
    <2> QED
      BY <2>2, <2>6 DEF AssertPassKey
  <1>5. BuffersFit'
    BY <1>1, <1>2, <1>4 DEF BuffersFit, Fits
  <1> QED
    BY <1>3, <1>5

LEMMA RecoveredKept ==
    ASSUME Sound, Handlers
    PROVE  Recovered'
  <1>1. request' = request /\ held' = held /\ CryptoSound /\ HeldSound
    BY HandlersReply DEF Sound, RequestSound
  <1> DEFINE E(m) == <<"crypto", m>>
  <1>2. \A a, w, r : toJavaArray(a, w, r).kind = "array" /\ toJavaArray(a, w, r).array = a
    BY DEF toJavaArray
  <1>3. ASSUME request.kind = "getSalt", IsBox(request.data)
        PROVE  reply'.kind = "array" /\ reply'.array = SaltOf(request.data.holds.key)
    <2> DEFINE v == toJavaArray(SaltRead(request.data), SaltLength, SaltLength)
    <2>1. toxGetSalt
      <3>1. CryptoHandlers
        BY <1>3, ByKind
      <3> QED
        BY <1>3, <3>1 DEF CryptoHandlers, toxIsDataEncrypted, toxPassKeyEncrypt, toxPassKeyDecrypt,
               toxPassKeyDeriveWithSalt, toxPassKeyDerive, toxHash, passKeyFromBytes
    <2>2. PICK code \in GetSaltCodes(request.data) :
              reply' = with_error_handling(E("GetSalt"), code, v)
      BY <2>1 DEF toxGetSalt, Reply
    <2>3. code = "OK"
      BY <1>3, <2>2 DEF GetSaltCodes
    <2>4. E("GetSalt") \in ErrorEnums
      BY CryptoTables
    <2> HIDE DEF v, E
    <2>5. reply' = v
      BY <2>2, <2>3, <2>4, Outcome
    <2> QED
      BY <1>2, <1>3, <2>5 DEF v, SaltRead
  <1>4. ASSUME request.kind = "deriveWithSalt", reply'.kind = "array",
               NEW box \in held, IsBox(box), box.holds.key.holds.kind = "key",
               box.holds.key.holds.pass = request.pass, SaltOf(box.holds.key) = request.salt
        PROVE  reply'.array = box.holds.key
    <2> DEFINE v == pass_key_to_java(request.pass, request.salt)
    <2>1. toxPassKeyDeriveWithSalt
      <3>1. CryptoHandlers
        BY <1>4, ByKind
      <3> QED
        BY <1>4, <3>1 DEF CryptoHandlers, toxIsDataEncrypted, toxPassKeyEncrypt, toxPassKeyDecrypt,
               toxGetSalt, toxPassKeyDerive, toxHash, passKeyFromBytes
    <2>2. PICK code : reply' = with_error_handling(E("KeyDerivation"), code, v)
      BY <1>4, <2>1, ThrowsException DEF toxPassKeyDeriveWithSalt, Reply
    <2>3. E("KeyDerivation") \in ErrorEnums
      BY CryptoTables
    <2> HIDE DEF v, E
    <2>4. reply' = v
      BY <1>4, <2>2, <2>3, Outcome
    <2>5. reply'.array = PassKey(request.pass, request.salt)
      BY <1>2, <2>4 DEF v, pass_key_to_java
    <2>6. KeySound(box.holds.key)
      BY <1>1, <1>4 DEF HeldSound, ArraySound, BoxSound
    <2>7. box.holds.key = PassKey(request.pass, request.salt)
      BY <1>4, <2>6 DEF KeySound, SaltOf
    <2> QED
      BY <2>5, <2>7
  <1>5. ASSUME request.kind = "decrypt", IsBox(request.data), request.key = request.data.holds.key
        PROVE  reply'.kind = "array" /\ reply'.array = request.data.holds.data
    <2>1. toxPassKeyDecrypt
      <3>1. CryptoHandlers
        BY <1>5, ByKind
      <3> QED
        BY <1>5, <3>1 DEF CryptoHandlers, toxIsDataEncrypted, toxPassKeyEncrypt, toxGetSalt,
               toxPassKeyDeriveWithSalt, toxPassKeyDerive, toxHash, passKeyFromBytes
    <2>2. BoxSound(request.data)
      BY <1>1, <1>5 DEF CryptoSound, ArraySound
    <2>3. AssertPassKey(request.key)
      BY <1>5, <2>2 DEF BoxSound, AssertPassKey
    <2>4. ~(request.data.length <= ExtraLength) /\ request.data.length > ExtraLength
      <3>1. /\ request.data.length = request.data.holds.data.length + ExtraLength
            /\ request.data.holds.data.length \in Nat \ {0}
        BY <1>5, <2>2, RawLength DEF BoxSound
      <3> QED
        BY <3>1, CryptoLengths
    <2>5. DecryptCode(request.data, request.key) = "OK"
      BY <1>5, <2>4 DEF DecryptCode
    <2> DEFINE wrote == request.data.length - ExtraLength
               v == toJavaArray(request.data.holds.data, wrote, DecryptRoom(request.data))
    <2>6. reply' = with_error_handling(E("Decryption"), "OK", v)
      BY <2>1, <2>3, <2>5 DEF toxPassKeyDecrypt, Reply
    <2>7. E("Decryption") \in ErrorEnums
      BY CryptoTables
    <2> HIDE DEF v, E
    <2>8. reply' = v
      BY <2>6, <2>7, Outcome
    <2> QED
      BY <1>2, <2>8 DEF v
  <1> QED
    BY <1>1, <1>3, <1>4, <1>5 DEF Recovered

-----------------------------------------------------------------------------
(* Enumerators *)

\* The names of all enumerators.
Words == {"NONE", "TCP", "UDP", "RESUME", "PAUSE", "CANCEL", "NORMAL", "ACTION", "HTTP", "SOCKS5",
          "TOX_SAVE", "SECRET_KEY", "AWAY", "BUSY", "MUTE_AUDIO", "UNMUTE_AUDIO", "HIDE_VIDEO",
          "SHOW_VIDEO"}

LEMMA WordsValid == Invalid \notin Words
  BY DEF Invalid, Words

\* The tables of an enum list its enumerators in one order.
LEMMA EnumTables ==
    /\ \A type \in Sent : Switches[type] = Kotlin[type]
    /\ \A type \in Received :
           Switches[type] = Kotlin[type] /\ Library[type] = Kotlin[type] /\ Proto[type] = Kotlin[type]
    /\ \A type \in Sent \cup Received :
           Kotlin[type] \in Seq(Words) /\ Len(Kotlin[type]) > 0
    /\ \A type \in Received :
           Enumerators(type) \subseteq CallbackCases[type] /\ Invalid \notin CallbackCases[type]
    /\ "userStatus" \in Sent \cap Received
  <1>1. \A type \in Sent : Switches[type] = Kotlin[type]
    BY DEF Sent, Switches, Kotlin, TOX_FILE_CONTROL, TOX_MESSAGE_TYPE, TOX_PROXY_TYPE,
           TOX_SAVEDATA_TYPE, TOX_USER_STATUS, TOXAV_CALL_CONTROL
  <1>2. \A type \in Received :
            Switches[type] = Kotlin[type] /\ Library[type] = Kotlin[type] /\ Proto[type] = Kotlin[type]
    BY DEF Received, Switches, Kotlin, Library, Proto, TOX_CONNECTION, TOX_FILE_CONTROL,
           TOX_MESSAGE_TYPE, TOX_USER_STATUS
  <1>3. \A type \in Sent \cup Received :
            Kotlin[type] \in Seq(Words) /\ Len(Kotlin[type]) > 0
    <2> USE DEF Kotlin, Words
    <2>1. Kotlin["connection"] \in Seq(Words) /\ Len(Kotlin["connection"]) > 0
      OBVIOUS
    <2>2. Kotlin["fileControl"] \in Seq(Words) /\ Len(Kotlin["fileControl"]) > 0
      OBVIOUS
    <2>3. Kotlin["messageType"] \in Seq(Words) /\ Len(Kotlin["messageType"]) > 0
      OBVIOUS
    <2>4. Kotlin["proxyType"] \in Seq(Words) /\ Len(Kotlin["proxyType"]) > 0
      OBVIOUS
    <2>5. Kotlin["savedataType"] \in Seq(Words) /\ Len(Kotlin["savedataType"]) > 0
      OBVIOUS
    <2>6. Kotlin["userStatus"] \in Seq(Words) /\ Len(Kotlin["userStatus"]) > 0
      OBVIOUS
    <2>7. Kotlin["callControl"] \in Seq(Words) /\ Len(Kotlin["callControl"]) > 0
      OBVIOUS
    <2> HIDE DEF Kotlin, Words
    <2> QED
      BY <2>1, <2>2, <2>3, <2>4, <2>5, <2>6, <2>7 DEF Sent, Received
  <1>4. \A type \in Received :
            Enumerators(type) \subseteq CallbackCases[type] /\ Invalid \notin CallbackCases[type]
    <2> SUFFICES ASSUME NEW type \in Received
                 PROVE  /\ Enumerators(type) \subseteq CallbackCases[type]
                        /\ Invalid \notin CallbackCases[type]
      OBVIOUS
    <2>1. Invalid \notin CallbackCases[type]
      BY DEF Received, CallbackCases, Invalid
    <2> USE DEF Enumerators, CallbackCases, Kotlin
    <2>2. CASE type = "connection"
      BY <2>1, <2>2
    <2>3. CASE type = "fileControl"
      BY <2>1, <2>3
    <2>4. CASE type = "messageType"
      BY <2>1, <2>4
    <2>5. CASE type = "userStatus"
      BY <2>1, <2>5
    <2> QED
      BY <2>2, <2>3, <2>4, <2>5 DEF Received
  <1>5. "userStatus" \in Sent \cap Received
    BY DEF Sent, Received
  <1> QED
    BY <1>1, <1>2, <1>3, <1>4, <1>5

\* The enumerator that has the number of an enumerator is that one.
LEMMA NumberedBack ==
    ASSUME NEW s \in Seq(Words), NEW i \in DOMAIN s
    PROVE  /\ Numbered(s, NumberIn(s, s[i])) = s[i]
           /\ s[i] # Invalid
  <1>1. Len(s) \in Nat /\ i \in 1 .. Len(s) /\ s[i] # Invalid
    BY WordsValid
  <1>2. i - 1 \in 0 .. Len(s) - 1 /\ (i - 1) + 1 = i
    BY <1>1
  <1>3. Numbered(s, i - 1) = s[i]
    BY <1>2 DEF Numbered
  <1>4. \E n \in 0 .. Len(s) - 1 : Numbered(s, n) = s[i]
    BY <1>2, <1>3
  <1> QED
    BY <1>1, <1>4 DEF NumberIn

LEMMA EnumsReply ==
    ASSUME Sound, Handlers
    PROVE  EnumsKept'
  <1>1. request' = request /\ EnumSound
    BY HandlersReply DEF Sound, RequestSound
  <1>2. ASSUME NEW type \in Sent \cup Received, NEW e \in Enumerators(type)
        PROVE  /\ valueOf(type, NumberIn(Kotlin[type], e)) = e
               /\ print_enum(type, e) = e /\ e # Invalid
               /\ Numbered(Kotlin[type], NumberIn(Kotlin[type], e)) = e
    <2>1. PICK i \in DOMAIN Kotlin[type] : e = Kotlin[type][i]
      BY <1>2 DEF Enumerators
    <2>2. Kotlin[type] \in Seq(Words) /\ Switches[type] = Kotlin[type]
      BY EnumTables
    <2>3. Numbered(Kotlin[type], NumberIn(Kotlin[type], e)) = e /\ e # Invalid
      BY <2>1, <2>2, NumberedBack
    <2> QED
      BY <2>1, <2>2, <2>3 DEF valueOf, print_enum
  <1>3. ASSUME NEW type \in Received, NEW e \in Enumerators(type)
        PROVE  convert(type, SetField(type, e)) = e
    <2>1. e \in CallbackCases[type] /\ Proto[type] = Kotlin[type]
      BY EnumTables
    <2> QED
      BY <1>2, <2>1 DEF convert, SetField
  <1>4. CASE request.kind = "sendEnum"
    <2>1. request.type \in Sent /\ request.value \in Enumerators(request.type)
      BY <1>1, <1>4 DEF EnumSound
    <2>2. SendEnum
      <3>1. EnumHandlers
        BY <1>4, ByKind
      <3> QED
        BY <1>4, <3>1 DEF EnumHandlers, ReceiveEnum, InvokeEnum, GetStatus
    <2>3. reply' = [kind |-> "enum", value |-> request.value, logged |-> request.value]
      BY <1>2, <2>1, <2>2 DEF SendEnum, Reply
    <2> QED
      BY <1>1, <1>4, <2>3 DEF EnumsKept
  <1>5. CASE request.kind = "invokeEnum"
    <2>1. request.type \in Received /\ request.value \in Enumerators(request.type)
      BY <1>1, <1>5 DEF EnumSound
    <2>2. InvokeEnum
      <3>1. EnumHandlers
        BY <1>5, ByKind
      <3> QED
        BY <1>5, <3>1 DEF EnumHandlers, ReceiveEnum, SendEnum, GetStatus
    <2>3. reply' = [kind |-> "enum", value |-> request.value]
      BY <1>2, <1>3, <2>1, <2>2 DEF InvokeEnum, Reply
    <2> QED
      BY <1>1, <1>5, <2>3 DEF EnumsKept
  <1>6. CASE request.kind = "getStatus"
    <2>1. /\ "userStatus" \in Received /\ request.value \in Enumerators("userStatus")
          /\ Library["userStatus"] = Kotlin["userStatus"]
      BY <1>1, <1>6, EnumTables DEF EnumSound
    <2>2. GetStatus
      <3>1. EnumHandlers
        BY <1>6, ByKind
      <3> QED
        BY <1>6, <3>1 DEF EnumHandlers, ReceiveEnum, SendEnum, InvokeEnum
    <2>3. reply'.kind = "enum" /\ reply'.value = request.value /\ reply'.logged = request.value
      BY <1>2, <2>1, <2>2 DEF GetStatus, Reply
    <2> QED
      BY <1>1, <1>6, <2>3 DEF EnumsKept
  <1>7. CASE request.kind = "receiveEnum"
    <2> DEFINE type == request.type
               n == request.number
               s == Library[type]
               e == Numbered(s, n)
    <2>1. type \in Received /\ n \in 0 .. Len(s)
      BY <1>1, <1>7 DEF EnumSound
    <2>2. ReceiveEnum
      <3>1. EnumHandlers
        BY <1>7, ByKind
      <3> QED
        BY <1>7, <3>1 DEF EnumHandlers, InvokeEnum, SendEnum, GetStatus
    <2>3. reply'.kind = "enum" /\ reply'.value = convert(type, SetField(type, e))
      BY <2>2 DEF ReceiveEnum, Reply
    <2>4. s = Kotlin[type] /\ Proto[type] = s /\ s \in Seq(Words) /\ Len(s) > 0
      BY <2>1, EnumTables
    <2>5. Len(s) \in Nat /\ DOMAIN s = 1 .. Len(s)
      BY <2>4
    <2>6. CASE n < Len(s)
      <3>1. n + 1 \in DOMAIN s /\ n \in 0 .. Len(s) - 1
        BY <2>1, <2>5, <2>6
      <3>2. e = s[n + 1]
        BY <3>1 DEF Numbered
      <3>3. e \in Enumerators(type)
        BY <2>4, <3>1, <3>2 DEF Enumerators
      <3>4. reply'.value = s[n + 1]
        BY <1>3, <2>1, <2>3, <3>2, <3>3
      <3> QED
        BY <1>1, <1>7, <2>3, <2>6, <3>4 DEF EnumsKept
    <2>7. CASE ~(n < Len(s))
      <3>1. n \notin 0 .. Len(s) - 1
        BY <2>1, <2>5, <2>7
      <3>2. e = Invalid
        BY <3>1 DEF Numbered
      <3>3. SetField(type, e) = 0
        BY <2>1, <3>2, EnumTables DEF SetField
      <3>4. 0 \in 0 .. Len(s) - 1 /\ 0 + 1 = 1
        BY <2>4, <2>5
      <3>5. reply'.value = s[1]
        BY <2>3, <2>4, <3>3, <3>4 DEF convert, Numbered
      <3> QED
        BY <1>1, <1>7, <2>3, <2>7, <3>5 DEF EnumsKept
    <2> QED
      BY <2>6, <2>7
  <1> QED
    BY <1>1, <1>4, <1>5, <1>6, <1>7 DEF EnumsKept

-----------------------------------------------------------------------------
(* Log values *)

\* Behind a pointer to bytes there is its length, or no size_t on any machine.
LEMMA BehindBytes ==
    ASSUME NEW func \in DOMAIN Signatures, NEW i \in DOMAIN Signatures[func],
           Signatures[func][i] = "bytes", i < Len(Signatures[func])
    PROVE  Signatures[func][i + 1] \in {"length", "bytes", "int"}
  <1>1. func \in {"tox_bootstrap", "tox_friend_add", "tox_self_set_name",
                 "tox_friend_send_message", "tox_friend_send_packet", "tox_file_send",
                 "tox_file_send_chunk", "toxav_audio_send_frame",
                 "toxav_video_send_frame", "friend_name_cb", "friend_message_cb",
                 "friend_request_cb", "file_chunk_request_cb", "file_recv_cb",
                 "file_recv_chunk_cb", "audio_receive_frame_cb",
                 "video_receive_frame_cb"}
    BY DEF Signatures
  <1>2. CASE func = "tox_bootstrap"
    BY <1>2 DEF Signatures
  <1>3. CASE func = "tox_friend_add"
    BY <1>3 DEF Signatures
  <1>4. CASE func = "tox_self_set_name"
    BY <1>4 DEF Signatures
  <1>5. CASE func = "tox_friend_send_message"
    BY <1>5 DEF Signatures
  <1>6. CASE func = "tox_friend_send_packet"
    BY <1>6 DEF Signatures
  <1>7. CASE func = "tox_file_send"
    BY <1>7 DEF Signatures
  <1>8. CASE func = "tox_file_send_chunk"
    BY <1>8 DEF Signatures
  <1>9. CASE func = "toxav_audio_send_frame"
    BY <1>9 DEF Signatures
  <1>10. CASE func = "toxav_video_send_frame"
    BY <1>10 DEF Signatures
  <1>11. CASE func = "friend_name_cb"
    BY <1>11 DEF Signatures
  <1>12. CASE func = "friend_message_cb"
    BY <1>12 DEF Signatures
  <1>13. CASE func = "friend_request_cb"
    BY <1>13 DEF Signatures
  <1>14. CASE func = "file_chunk_request_cb"
    BY <1>14 DEF Signatures
  <1>15. CASE func = "file_recv_cb"
    BY <1>15 DEF Signatures
  <1>16. CASE func = "file_recv_chunk_cb"
    BY <1>16 DEF Signatures
  <1>17. CASE func = "audio_receive_frame_cb"
    BY <1>17 DEF Signatures
  <1>18. CASE func = "video_receive_frame_cb"
    BY <1>18 DEF Signatures
  <1> QED
    BY <1>1, <1>2, <1>3, <1>4, <1>5, <1>6, <1>7, <1>8, <1>9, <1>10,
       <1>11, <1>12, <1>13, <1>14, <1>15, <1>16, <1>17, <1>18

ArgTypes == {"other", "int", "long", "uint", "ulong", "array", "bytes", "length", "count", "samples",
             "pcm"}

LEMMA SignatureSeq ==
    ASSUME NEW func \in DOMAIN Signatures
    PROVE  Signatures[func] \in Seq(ArgTypes)
  <1>1. func \in {"tox_bootstrap", "tox_friend_add", "tox_self_set_name",
                 "tox_friend_send_message", "tox_friend_send_packet", "tox_file_send",
                 "tox_file_send_chunk", "toxav_audio_send_frame",
                 "toxav_video_send_frame", "friend_name_cb", "friend_message_cb",
                 "friend_request_cb", "file_chunk_request_cb", "file_recv_cb",
                 "file_recv_chunk_cb", "audio_receive_frame_cb",
                 "video_receive_frame_cb"}
    BY DEF Signatures
  <1>2. CASE func = "tox_bootstrap"
    BY <1>2 DEF Signatures, ArgTypes
  <1>3. CASE func = "tox_friend_add"
    BY <1>3 DEF Signatures, ArgTypes
  <1>4. CASE func = "tox_self_set_name"
    BY <1>4 DEF Signatures, ArgTypes
  <1>5. CASE func = "tox_friend_send_message"
    BY <1>5 DEF Signatures, ArgTypes
  <1>6. CASE func = "tox_friend_send_packet"
    BY <1>6 DEF Signatures, ArgTypes
  <1>7. CASE func = "tox_file_send"
    BY <1>7 DEF Signatures, ArgTypes
  <1>8. CASE func = "tox_file_send_chunk"
    BY <1>8 DEF Signatures, ArgTypes
  <1>9. CASE func = "toxav_audio_send_frame"
    BY <1>9 DEF Signatures, ArgTypes
  <1>10. CASE func = "toxav_video_send_frame"
    BY <1>10 DEF Signatures, ArgTypes
  <1>11. CASE func = "friend_name_cb"
    BY <1>11 DEF Signatures, ArgTypes
  <1>12. CASE func = "friend_message_cb"
    BY <1>12 DEF Signatures, ArgTypes
  <1>13. CASE func = "friend_request_cb"
    BY <1>13 DEF Signatures, ArgTypes
  <1>14. CASE func = "file_chunk_request_cb"
    BY <1>14 DEF Signatures, ArgTypes
  <1>15. CASE func = "file_recv_cb"
    BY <1>15 DEF Signatures, ArgTypes
  <1>16. CASE func = "file_recv_chunk_cb"
    BY <1>16 DEF Signatures, ArgTypes
  <1>17. CASE func = "audio_receive_frame_cb"
    BY <1>17 DEF Signatures, ArgTypes
  <1>18. CASE func = "video_receive_frame_cb"
    BY <1>18 DEF Signatures, ArgTypes
  <1> QED
    BY <1>1, <1>2, <1>3, <1>4, <1>5, <1>6, <1>7, <1>8, <1>9, <1>10,
       <1>11, <1>12, <1>13, <1>14, <1>15, <1>16, <1>17, <1>18

LEMMA SizedLength ==
    ASSUME NEW func \in DOMAIN Signatures, NEW pointers \in {32, 64}, NEW i \in DOMAIN Signatures[func],
           Sized(Signatures[func], i, pointers)
    PROVE  Signatures[func][i] = "bytes" /\ Signatures[func][i + 1] = "length"
  <1>1. Signatures[func][i] = "bytes" /\ i < Len(Signatures[func])
    BY DEF Sized
  <1>2. Signatures[func][i + 1] \in {"length", "bytes", "int"}
    BY <1>1, BehindBytes
  <1>3. Signatures[func][i + 1] \in SizeTypes(pointers)
    BY DEF Sized
  <1> QED
    BY <1>1, <1>2, <1>3 DEF SizeTypes

\* The arguments of a call that is logged: an array has one of Lengths, and what is
\* behind bytes is the length of the bytes.
LEMMA ArrayValues ==
    ASSUME NEW func \in DOMAIN Signatures, NEW pointers \in {32, 64}, NEW high \in BOOLEAN,
           NEW arrays \in [{i \in DOMAIN Signatures[func] : Signatures[func][i] \in ArrayTypes} -> Lengths],
           NEW i \in DOMAIN Signatures[func],
           \/ Signatures[func][i] = "array"
           \/ Sized(Signatures[func], i, pointers),
           NEW values, values = Values(Signatures[func], arrays, high)
    PROVE  /\ values[i] \in Lengths
           /\ Sized(Signatures[func], i, pointers) =>
                  values[i + 1] = IF values[i] = NullArray THEN 0 ELSE values[i]
  <1> DEFINE types == Signatures[func]
  <1>1. types[i] \in ArrayTypes
    BY SizedLength DEF ArrayTypes
  <1>2. types \in Seq(ArgTypes) /\ Len(types) \in Nat /\ DOMAIN types = 1 .. Len(types)
    BY SignatureSeq
  <1>3. arrays[i] \in Lengths
    BY <1>1
  <1>4. values[i] = arrays[i]
    BY <1>1 DEF Values, ArrayTypes
  <1>5. ASSUME Sized(types, i, pointers)
        PROVE  values[i + 1] = IF arrays[i] = NullArray THEN 0 ELSE arrays[i]
    <2>1. i + 1 \in DOMAIN types /\ (i + 1) - 1 = i
      BY <1>2, <1>5 DEF Sized
    <2>2. types[i + 1] = "length"
      BY <1>5, SizedLength
    <2> QED
      BY <2>1, <2>2 DEF Values, ArrayTypes
  <1> QED
    BY <1>3, <1>4, <1>5

\* An array is printed with its length, and no more than the array is read.
LEMMA ArrayPrinted ==
    ASSUME NEW func \in DOMAIN Signatures, NEW pointers \in {32, 64}, NEW high \in BOOLEAN,
           NEW arrays \in [{i \in DOMAIN Signatures[func] : Signatures[func][i] \in ArrayTypes} -> Lengths],
           NEW i \in DOMAIN Signatures[func],
           \/ Signatures[func][i] = "array"
           \/ Sized(Signatures[func], i, pointers),
           NEW values, values = Values(Signatures[func], arrays, high)
    PROVE  LET arg == PrintArg(Signatures[func], values, i, pointers)
           IN  /\ values[i] = NullArray => arg = [what |-> "null"]
               /\ values[i] # NullArray =>
                      arg.read <= values[i] /\ PrintValue(arg) = [length |-> values[i]]
  <1> DEFINE types == Signatures[func]
             arg == PrintArg(types, values, i, pointers)
  <1>1. /\ values[i] \in Lengths
        /\ Sized(types, i, pointers) => values[i + 1] = IF values[i] = NullArray THEN 0 ELSE values[i]
    BY ArrayValues
  <1>2. arg = PrintBytes(values[i], IF values[i] = NullArray THEN 0 ELSE values[i])
    <2>1. CASE Sized(types, i, pointers)
      <3>1. types[i] = "bytes"
        BY <2>1 DEF Sized
      <3>2. arg = PrintBytes(values[i], values[i + 1])
        BY <2>1, <3>1 DEF PrintArg
      <3> QED
        BY <1>1, <2>1, <3>2
    <2>2. CASE types[i] = "array"
      BY <2>2 DEF PrintArg, Sized
    <2> QED
      BY <2>1, <2>2
  <1> HIDE DEF arg
  <1>3. values[i] = NullArray => arg = [what |-> "null"]
    BY <1>2 DEF PrintBytes
  <1>4. ASSUME values[i] # NullArray
        PROVE  arg.read <= values[i] /\ PrintValue(arg) = [length |-> values[i]]
    <2>1. MaxDataLog \in Nat
      BY LogValuesAssumption
    <2>2. PICK size \in Nat : size = values[i]
      BY <1>1, <1>4, <2>1 DEF Lengths
    <2>3. arg = [what |-> "bytes", read |-> Min({size, MaxDataLog}),
                 truncated |-> IF size > MaxDataLog THEN size ELSE 0]
      BY <1>2, <1>4, <2>2 DEF PrintBytes
    <2>4. Min({size, MaxDataLog}) = IF size <= MaxDataLog THEN size ELSE MaxDataLog
      BY <2>1, MinOfTwo
    <2>5. /\ arg.what = "bytes" /\ arg.read = IF size <= MaxDataLog THEN size ELSE MaxDataLog
          /\ arg.truncated = IF size > MaxDataLog THEN size ELSE 0
      BY <2>3, <2>4
    <2>6. arg.read <= size
      BY <2>1, <2>5
    <2>7. (IF arg.truncated = 0 THEN arg.read ELSE arg.truncated) = size
      BY <2>1, <2>5
    <2> QED
      BY <2>2, <2>5, <2>6, <2>7 DEF PrintValue
  <1> QED
    BY <1>3, <1>4 DEF arg

\* No other argument is read through.
LEMMA OthersPrinted ==
    ASSUME NEW types, NEW values, NEW i, NEW pointers, types[i] # "array", ~Sized(types, i, pointers)
    PROVE  PrintArg(types, values, i, pointers).what # "bytes"
  <1>1. CASE types[i] \in {"bytes", "pcm"}
    BY <1>1 DEF PrintArg, PrintPointer
  <1>2. CASE types[i] = "samples"
    BY <1>2 DEF PrintArg
  <1>3. CASE types[i] = "other"
    BY <1>3 DEF PrintArg
  <1>4. CASE types[i] \notin {"bytes", "pcm", "samples", "other"}
    <2>1. PrintArg(types, values, i, pointers) = PrintNumber(values[i])
      BY <1>4 DEF PrintArg
    <2> QED
      BY <2>1 DEF PrintNumber
  <1> QED
    BY <1>1, <1>2, <1>3, <1>4

\* A number of the type is itself.
LEMMA SignedInside ==
    ASSUME NEW M \in Nat \ {0}, NEW bits, 2^bits = 2 * M, 2^(bits - 1) = M,
           NEW x \in -M .. M - 1
    PROVE  Signed(x, bits) = x
  <1>1. PICK N \in Nat \ {0}, y \in Nat : N = 2 * M /\ y = x + M /\ y < N
    <2>1. x + M \in Nat /\ 2 * M \in Nat \ {0} /\ x + M < 2 * M
      OBVIOUS
    <2> QED
      BY <2>1
  <1>2. y % N = y
    BY <1>1, ModBelow
  <1>3. Signed(x, bits) = (y % N) - M
    BY <1>1 DEF Signed
  <1> QED
    BY <1>1, <1>2, <1>3

\* The widths of a long and of half of it.
LEMMA LongWidths ==
    \E C \in Nat \ {0}, M \in Nat \ {0} :
        /\ 2^(LongBits \div 2 - 1) = C /\ 2^(LongBits \div 2) = 2 * C
        /\ 2^(LongBits - 1) = M /\ 2^LongBits = 2 * M
        /\ M >= 2 * C
  <1>1. PICK h \in Nat : LongBits = 2 * (h + 1) /\ LongBits \div 2 = h + 1
    <2>1. PICK n \in Nat \ {0} : n = LongBits /\ n % 2 = 0
      BY LogValuesAssumption
    <2>2. n \div 2 - 1 \in Nat /\ n = 2 * ((n \div 2 - 1) + 1) /\ n \div 2 = (n \div 2 - 1) + 1
      BY <2>1
    <2> QED
      BY <2>1, <2>2
  <1>2. PICK C \in Nat \ {0} : C = 2^h
    BY PowerPositive
  <1>3. 2^(h + 1) = 2 * C
    BY <1>2, PowerDouble
  <1>4. 2^(h + (h + 1)) = C * (2 * C)
    <2>1. h + 1 \in Nat
      OBVIOUS
    <2>2. 2^(h + (h + 1)) = 2^h * 2^(h + 1)
      BY <2>1, PowerAdd
    <2> QED
      BY <1>2, <1>3, <2>2
  <1>5. PICK M \in Nat \ {0} : M = C * (2 * C) /\ M >= 2 * C
    <2>1. C * (2 * C) \in Nat \ {0} /\ C * (2 * C) >= 2 * C
      OBVIOUS
    <2> QED
      BY <2>1
  <1>6. /\ (h + 1) - 1 = h /\ 2 * (h + 1) - 1 = h + (h + 1)
        /\ 2 * (h + 1) = (h + (h + 1)) + 1 /\ h + (h + 1) \in Nat
    OBVIOUS
  <1>7. 2^(LongBits - 1) = M /\ 2^LongBits = 2 * M
    BY <1>1, <1>4, <1>5, <1>6, PowerDouble
  <1>8. 2^(LongBits \div 2 - 1) = C /\ 2^(LongBits \div 2) = 2 * C
    BY <1>1, <1>2, <1>3, <1>6
  <1> QED
    BY <1>5, <1>7, <1>8

NumberTypes == {"uint", "int", "long", "ulong", "count"}

\* A sint64 holds every number but those above the largest long.
LEMMA NumberKept ==
    ASSUME NEW type \in NumberTypes, NEW high \in BOOLEAN, NEW x,
           x = IF high THEN Max(Numbers(type)) ELSE Min(Numbers(type))
    PROVE  Signed(x, LongBits) = x \/ x >= 2^(LongBits - 1)
  <1>1. PICK C \in Nat \ {0}, M \in Nat \ {0} :
            /\ 2^(LongBits \div 2 - 1) = C /\ 2^(LongBits \div 2) = 2 * C
            /\ 2^(LongBits - 1) = M /\ 2^LongBits = 2 * M
            /\ M >= 2 * C
    BY LongWidths
  <1>2. \E a \in Int, b \in Int :
            /\ Numbers(type) = {a, b}
            /\ a \in -M .. M - 1 \/ a >= M
            /\ b \in -M .. M - 1 \/ b >= M
    <2>1. CASE type = "uint"
      <3>1. Numbers(type) = {0, 2 * C - 1}
        BY <1>1, <2>1 DEF Numbers
      <3>2. 0 \in -M .. M - 1 /\ 2 * C - 1 \in -M .. M - 1
        BY <1>1
      <3> QED
        BY <3>1, <3>2
    <2>2. CASE type = "int"
      <3>1. Numbers(type) = {-C, C - 1}
        BY <1>1, <2>2 DEF Numbers
      <3>2. -C \in -M .. M - 1 /\ C - 1 \in -M .. M - 1
        BY <1>1
      <3> QED
        BY <3>1, <3>2
    <2>3. CASE type = "long"
      <3>1. Numbers(type) = {-M, M - 1}
        BY <1>1, <2>3 DEF Numbers
      <3>2. -M \in -M .. M - 1 /\ M - 1 \in -M .. M - 1
        OBVIOUS
      <3> QED
        BY <3>1, <3>2
    <2>4. CASE type \in {"ulong", "count"}
      <3>1. Numbers(type) = {0, 2 * M - 1}
        BY <1>1, <2>4 DEF Numbers
      <3>2. 0 \in -M .. M - 1 /\ 2 * M - 1 \in Int /\ 2 * M - 1 >= M
        OBVIOUS
      <3> QED
        BY <3>1, <3>2
    <2> QED
      BY <2>1, <2>2, <2>3, <2>4 DEF NumberTypes
  <1>3. PICK a \in Int, b \in Int :
            /\ Numbers(type) = {a, b}
            /\ a \in -M .. M - 1 \/ a >= M
            /\ b \in -M .. M - 1 \/ b >= M
    BY <1>2
  <1>4. x \in {a, b}
    BY <1>3, MaxOfTwo, MinOfTwo
  <1>5. x \in -M .. M - 1 \/ x >= M
    BY <1>3, <1>4
  <1>6. x \in -M .. M - 1 => Signed(x, LongBits) = x
    BY <1>1, SignedInside
  <1> QED
    BY <1>1, <1>5, <1>6

\* An entry has every argument that is no length, as print_arg prints it.
LEMMA EntryReply ==
    ASSUME LogSound, PrintArgs
    PROVE  LET types == Signatures[request.func]
           IN  /\ DOMAIN reply'.logged \subseteq DOMAIN types
               /\ DOMAIN reply'.printed = DOMAIN reply'.logged
               /\ \A i \in DOMAIN types : types[i] # "length" => i \in DOMAIN reply'.logged
               /\ \A i \in DOMAIN reply'.logged :
                      /\ reply'.logged[i] = PrintArg(types, request.values, i, request.pointers)
                      /\ reply'.printed[i] = PrintValue(reply'.logged[i])
  <1> DEFINE types == Signatures[request.func]
             taken == {i \in DOMAIN types : i > 1 /\ Sized(types, i - 1, request.pointers)}
             logged == [i \in DOMAIN types \ taken |->
                           PrintArg(types, request.values, i, request.pointers)]
             printed == [i \in DOMAIN logged |-> PrintValue(logged[i])]
  <1>1. request.func \in DOMAIN Signatures /\ request.pointers \in {32, 64}
    BY DEF LogSound, PrintArgs
  <1>2. reply' = [kind |-> "entry", logged |-> logged, printed |-> printed]
    BY DEF PrintArgs, Reply
  <1>3. reply'.logged = logged /\ reply'.printed = printed
    BY <1>2
  <1>4. \A i \in taken : types[i] = "length"
    <2> SUFFICES ASSUME NEW i \in taken PROVE types[i] = "length"
      OBVIOUS
    <2>1. types \in Seq(ArgTypes) /\ Len(types) \in Nat /\ DOMAIN types = 1 .. Len(types)
      BY <1>1, SignatureSeq
    <2>2. i \in 1 .. Len(types) /\ i > 1
      BY <2>1
    <2>3. i - 1 \in DOMAIN types /\ (i - 1) + 1 = i
      BY <2>1, <2>2
    <2>4. Sized(types, i - 1, request.pointers)
      OBVIOUS
    <2> QED
      BY <1>1, <2>3, <2>4, SizedLength
  <1> QED
    BY <1>3, <1>4

LEMMA EntryKept ==
    ASSUME LogSound, PrintArgs
    PROVE  LogReadsInside' /\ LogValueKept'
  <1> DEFINE types == Signatures[request.func]
             arg(i) == PrintArg(types, request.values, i, request.pointers)
  <1>1. request' = request /\ reply'.kind = "entry" /\ request.kind = "logCall"
    BY DEF PrintArgs, Reply
  <1>2. request.func \in DOMAIN Signatures /\ request.pointers \in {32, 64}
    BY <1>1 DEF LogSound
  <1>3. PICK high \in BOOLEAN,
             arrays \in [{i \in DOMAIN types : types[i] \in ArrayTypes} -> Lengths] :
                request.values = Values(types, arrays, high)
    BY <1>1 DEF LogSound
  <1>4. DOMAIN request.values = DOMAIN types
    BY <1>3 DEF Values
  <1>5. \A i \in DOMAIN types : types[i] \in ArgTypes
    <2>1. types \in Seq(ArgTypes)
      BY <1>2, SignatureSeq
    <2> QED
      BY <2>1
  <1>6. /\ DOMAIN reply'.logged \subseteq DOMAIN types
        /\ DOMAIN reply'.printed = DOMAIN reply'.logged
        /\ \A i \in DOMAIN types : types[i] # "length" => i \in DOMAIN reply'.logged
        /\ \A i \in DOMAIN reply'.logged :
               reply'.logged[i] = arg(i) /\ reply'.printed[i] = PrintValue(arg(i))
    BY EntryReply
  <1>7. \A i \in DOMAIN types : types[i] = "array" \/ Sized(types, i, request.pointers) =>
            /\ request.values[i] = NullArray => arg(i) = [what |-> "null"]
            /\ request.values[i] # NullArray =>
                   /\ arg(i).read <= request.values[i]
                   /\ PrintValue(arg(i)) = [length |-> request.values[i]]
    BY <1>2, <1>3, ArrayPrinted
  <1>8. \A i \in DOMAIN types : ~(types[i] = "array" \/ Sized(types, i, request.pointers)) =>
            arg(i).what # "bytes"
    BY OthersPrinted
  <1>9. LogReadsInside'
    <2>1. \A i \in DOMAIN reply'.logged :
              reply'.logged[i].what = "bytes" => reply'.logged[i].read <= request.values[i]
      <3> SUFFICES ASSUME NEW i \in DOMAIN reply'.logged, arg(i).what = "bytes"
                   PROVE  arg(i).read <= request.values[i]
        BY <1>6
      <3>1. i \in DOMAIN types
        BY <1>6
      <3>2. types[i] = "array" \/ Sized(types, i, request.pointers)
        BY <1>8, <3>1
      <3> HIDE DEF arg
      <3>3. request.values[i] # NullArray
        <4>1. [what |-> "null"].what # "bytes"
          OBVIOUS
        <4> QED
          BY <1>7, <3>1, <3>2, <4>1
      <3> QED
        BY <1>7, <3>1, <3>2, <3>3
    <2> QED
      BY <1>1, <2>1 DEF LogReadsInside
  <1>10. ASSUME NEW i \in DOMAIN types, types[i] \in NumberTypes
         PROVE  \/ reply'.printed[i].other.value = request.values[i]
                \/ request.values[i] >= 2^(LongBits - 1)
    <2>1. types[i] \notin {"array", "bytes", "pcm", "samples", "other", "length"}
      BY <1>10 DEF NumberTypes
    <2>2. ~Sized(types, i, request.pointers)
      BY <2>1 DEF Sized
    <2>3. arg(i) = PrintNumber(request.values[i])
      BY <2>1, <2>2 DEF PrintArg
    <2>4. PrintValue(PrintNumber(request.values[i])).other.value = Signed(request.values[i], LongBits)
      BY DEF PrintNumber, PrintValue
    <2>5. reply'.printed[i].other.value = Signed(request.values[i], LongBits)
      BY <1>6, <2>1, <2>3, <2>4
    <2>6. request.values[i] = IF high THEN Max(Numbers(types[i])) ELSE Min(Numbers(types[i]))
      BY <1>3, <2>1 DEF Values, ArrayTypes
    <2> QED
      BY <1>10, <2>5, <2>6, NumberKept
  <1>11. ASSUME NEW i \in DOMAIN types, types[i] = "array" \/ Sized(types, i, request.pointers)
         PROVE  request.values[i] = NullArray \/ reply'.printed[i] = [length |-> request.values[i]]
    <2>1. types[i] # "length"
      BY <1>11 DEF Sized
    <2> QED
      BY <1>6, <1>7, <1>11, <2>1
  <1>12. \A i \in DOMAIN types : i \in DOMAIN reply'.printed \/ types[i] = "length"
    BY <1>6
  <1> HIDE DEF types, arg
  <1>13. \A i \in DOMAIN types :
            /\ i \in DOMAIN reply'.printed \/ types[i] = "length"
            /\ (types[i] = "array" \/ Sized(types, i, request.pointers)) =>
                   request.values[i] = NullArray \/ reply'.printed[i] = [length |-> request.values[i]]
            /\ types[i] \in {"uint", "int", "long", "ulong", "count"} =>
                   \/ reply'.printed[i].other.value = request.values[i]
                   \/ request.values[i] >= 2^(LongBits - 1)
    BY <1>10, <1>11, <1>12 DEF NumberTypes
  <1>14. LogValueKept'
    BY <1>1, <1>4, <1>13 DEF LogValueKept, types
  <1> QED
    BY <1>9, <1>14

\* How many numbers there are below another.
LEMMA CountBelow ==
    ASSUME NEW d \in Nat \ {0}
    PROVE  Cardinality(0 .. d - 1) = d
  <1>1. 0 \in Int /\ d - 1 \in Int /\ ~(0 > d - 1) /\ (d - 1) - 0 + 1 = d
    OBVIOUS
  <1> QED
    BY <1>1, FS_Interval

\* The zeros before a number of at most six digits make it six digits long.
LEMMA PaddedToSix ==
    ASSUME NEW n \in Nat, n < 1000000
    PROVE  Padding(n) + Digits(n) = 6
  <1> DEFINE K == {k \in 0 .. 9 : k = 0 \/ n >= 10^k}
  <1>1. /\ 10^1 = 10 /\ 10^2 = 100 /\ 10^3 = 1000 /\ 10^4 = 10000 /\ 10^5 = 100000
        /\ 10^6 = 1000000 /\ 10^7 = 10000000 /\ 10^8 = 100000000 /\ 10^9 = 1000000000
    BY SMT
  <1>2. \A k : k \in K <=> \/ k = 0
                           \/ k = 1 /\ n >= 10
                           \/ k = 2 /\ n >= 100
                           \/ k = 3 /\ n >= 1000
                           \/ k = 4 /\ n >= 10000
                           \/ k = 5 /\ n >= 100000
    <2>1. \A k : k \in 0 .. 9 <=> k \in {0, 1, 2, 3, 4, 5, 6, 7, 8, 9}
      BY SMT
    <2>2. \A k : k \in K <=> k \in {0, 1, 2, 3, 4, 5, 6, 7, 8, 9} /\ (k = 0 \/ n >= 10^k)
      BY SMT, <2>1
    <2>3. /\ 0 \in K
          /\ 1 \in K <=> n >= 10
          /\ 2 \in K <=> n >= 100
          /\ 3 \in K <=> n >= 1000
          /\ 4 \in K <=> n >= 10000
          /\ 5 \in K <=> n >= 100000
          /\ 6 \notin K /\ 7 \notin K /\ 8 \notin K /\ 9 \notin K
      BY SMT, <1>1
    <2>4. \A k \in K : k \in {0, 1, 2, 3, 4, 5, 6, 7, 8, 9}
      BY SMT, <2>2
    <2> HIDE DEF K
    <2> QED
      BY SMT, <2>3, <2>4
  <1>3. \A d \in {1, 2, 3, 4, 5, 6} : Cardinality(0 .. d - 1) = d
    BY SMT, CountBelow
  <1>4. Digits(n) = Cardinality(K)
    BY SMT DEF Digits
  <1> HIDE DEF K
  <1>5. CASE n < 10
    <2>1. K = 0 .. 1 - 1
      BY SMT, <1>2, <1>5
    <2>2. Padding(n) = 5
      BY SMT, <1>5 DEF Padding
    <2> QED
      BY SMT, <1>3, <1>4, <2>1, <2>2
  <1>6. CASE 10 <= n /\ n < 100
    <2>1. K = 0 .. 2 - 1
      BY SMT, <1>2, <1>6
    <2>2. Padding(n) = 4
      BY SMT, <1>6 DEF Padding
    <2> QED
      BY SMT, <1>3, <1>4, <2>1, <2>2
  <1>7. CASE 100 <= n /\ n < 1000
    <2>1. K = 0 .. 3 - 1
      BY SMT, <1>2, <1>7
    <2>2. Padding(n) = 3
      BY SMT, <1>7 DEF Padding
    <2> QED
      BY SMT, <1>3, <1>4, <2>1, <2>2
  <1>8. CASE 1000 <= n /\ n < 10000
    <2>1. K = 0 .. 4 - 1
      BY SMT, <1>2, <1>8
    <2>2. Padding(n) = 2
      BY SMT, <1>8 DEF Padding
    <2> QED
      BY SMT, <1>3, <1>4, <2>1, <2>2
  <1>9. CASE 10000 <= n /\ n < 100000
    <2>1. K = 0 .. 5 - 1
      BY SMT, <1>2, <1>9
    <2>2. Padding(n) = 1
      BY SMT, <1>9 DEF Padding
    <2> QED
      BY SMT, <1>3, <1>4, <2>1, <2>2
  <1>10. CASE n >= 100000
    <2>1. K = 0 .. 6 - 1
      BY SMT, <1>2, <1>10
    <2>2. Padding(n) = 0
      BY SMT, <1>10 DEF Padding
    <2> QED
      BY SMT, <1>3, <1>4, <2>1, <2>2
  <1> QED
    BY SMT, <1>5, <1>6, <1>7, <1>8, <1>9, <1>10

\* The printed time is the one since the first entry, in whole microseconds.
LEMMA TimeKept ==
    ASSUME LogSound, PrintTime
    PROVE  LogValueKept'
  <1> DEFINE diff == TimeDiff(request.time, request.first)
             micros == diff.nanos \div 1000
  <1>1. request' = request /\ request.kind = "logTime"
    BY SMT DEF PrintTime, Reply
  <1>2. reply' = [kind |-> "time", seconds |-> diff.seconds, zeros |-> Padding(micros),
                  micros |-> micros]
    BY SMT DEF PrintTime, Reply
  <1>3. /\ request.first \in Times /\ request.time \in Times
        /\ \/ request.first.seconds < request.time.seconds
           \/ /\ request.first.seconds = request.time.seconds
              /\ request.first.nanos <= request.time.nanos
    BY SMT, <1>1 DEF LogSound
  <1>4. PICK s1 \in {0, 1}, n1 \in Nat, s2 \in {0, 1}, n2 \in Nat :
            /\ request.first.seconds = s1 /\ request.first.nanos = n1
            /\ request.time.seconds = s2 /\ request.time.nanos = n2
            /\ n1 < Second /\ n2 < Second
    <2>1. \A n \in Nanos : n \in Nat /\ n < Second
      BY SMT DEF Nanos, Second
    <2> QED
      BY SMT, <1>3, <2>1 DEF Times
  <1>5. PICK s \in Nat, n \in Nat :
            /\ diff.seconds = s /\ diff.nanos = n
            /\ n < Second
            /\ s * Second + n = (s2 - s1) * Second + (n2 - n1)
    <2>1. CASE n2 - n1 < 0
      <3>1. diff = [seconds |-> s2 - s1 - 1, nanos |-> n2 - n1 + Second]
        BY SMT, <1>4, <2>1 DEF TimeDiff
      <3>2. s2 - s1 - 1 \in Nat /\ n2 - n1 + Second \in Nat /\ n2 - n1 + Second < Second
        BY SMT, <1>3, <1>4, <2>1 DEF Second
      <3>3. (s2 - s1 - 1) * Second + (n2 - n1 + Second) = (s2 - s1) * Second + (n2 - n1)
        BY SMT DEF Second
      <3>4. diff.seconds = s2 - s1 - 1 /\ diff.nanos = n2 - n1 + Second
        BY SMT, <3>1
      <3> QED
        BY SMT, <3>2, <3>3, <3>4
    <2>2. CASE ~(n2 - n1 < 0)
      <3>1. diff = [seconds |-> s2 - s1, nanos |-> n2 - n1]
        BY SMT, <1>4, <2>2 DEF TimeDiff
      <3>2. s2 - s1 \in Nat /\ n2 - n1 \in Nat /\ n2 - n1 < Second
        BY SMT, <1>3, <1>4, <2>2 DEF Second
      <3>3. diff.seconds = s2 - s1 /\ diff.nanos = n2 - n1
        BY SMT, <3>1
      <3> QED
        BY SMT, <3>2, <3>3
    <2> QED
      BY SMT, <2>1, <2>2
  <1>6. PICK m \in Nat : m = micros /\ m = n \div 1000 /\ m < 1000000
    <2>1. n \div 1000 \in Nat /\ n \div 1000 < 1000000
      BY SMT, <1>5 DEF Second
    <2> QED
      BY SMT, <1>5, <2>1
  <1>7. /\ reply'.kind = "time" /\ reply'.seconds = s /\ reply'.micros = m
        /\ reply'.zeros = Padding(m)
    BY SMT, <1>2, <1>5, <1>6
  <1>8. s * 1000000 + m = (s * Second + n) \div 1000
    BY SMT, <1>6 DEF Second
  <1>9. /\ reply'.zeros + Digits(reply'.micros) = 6
        /\ reply'.seconds >= 0 /\ reply'.micros < 1000000
        /\ reply'.seconds * 1000000 + reply'.micros =
               ((request.time.seconds - request.first.seconds) * Second
                + (request.time.nanos - request.first.nanos)) \div 1000
    <2>1. reply'.zeros + Digits(reply'.micros) = 6
      BY SMT, <1>6, <1>7, PaddedToSix
    <2>2. reply'.seconds >= 0 /\ reply'.micros < 1000000
      BY SMT, <1>6, <1>7
    <2> QED
      BY SMT, <1>4, <1>5, <1>7, <1>8, <2>1, <2>2
  <1> QED
    BY SMT, <1>1, <1>7, <1>9 DEF LogValueKept

\* A time that fits an Int stays what it is.
LEMMA ElapsedKept ==
    ASSUME LogSound, PrintElapsed
    PROVE  LogValueKept'
  <1> DEFINE bits == LongBits \div 2
             nanos == Signed(Unsigned(request.nanos, bits), bits)
             micros == inWholeMicroseconds(nanos)
  <1>1. /\ request' = request /\ request.kind = "logElapsed" /\ reply'.kind = "elapsed"
        /\ micros = 0 => reply'.amount = nanos /\ reply'.unit = 1
        /\ micros # 0 => reply'.amount = micros /\ reply'.unit = 1000
    BY DEF PrintElapsed, Reply
  <1>2. request.nanos \in UnsignedInts(LongBits - 1)
    BY <1>1, LogValuesAssumption DEF LogSound
  <1>3. PICK C \in Nat \ {0}, M \in Nat \ {0} :
            /\ 2^(LongBits \div 2 - 1) = C /\ 2^(LongBits \div 2) = 2 * C
            /\ 2^(LongBits - 1) = M
    BY LongWidths
  <1>4. ASSUME request.nanos < 2^(LongBits \div 2 - 1)
        PROVE  /\ reply'.amount * reply'.unit <= request.nanos
               /\ request.nanos < (reply'.amount + 1) * reply'.unit
               /\ reply'.amount = 0 => request.nanos = 0
    <2>1. PICK x \in Nat : x = request.nanos /\ x < C
      BY <1>2, <1>3, <1>4 DEF UnsignedInts
    <2>2. PICK N \in Nat \ {0} : N = 2 * C
      OBVIOUS
    <2>3. x < N /\ x < 2 * N /\ x \in -C .. C - 1
      BY <2>1, <2>2
    <2>4. x % N = x
      BY <2>3, ModBelow
    <2>5. Unsigned(x, bits) = x
      BY <1>3, <2>2, <2>4 DEF Unsigned
    <2>6. Signed(x, bits) = x
      BY <1>3, <2>3, SignedInside
    <2>7. nanos = x
      BY <2>1, <2>5, <2>6
    <2>8. micros = x \div 1000
      BY <2>7 DEF inWholeMicroseconds
    <2> HIDE DEF nanos, micros
    <2>9. CASE micros = 0
      <3>1. x < 1000
        BY <2>8, <2>9
      <3> QED
        BY <1>1, <2>1, <2>7, <2>9
    <2>10. CASE micros # 0
      <3>1. micros \in Nat /\ micros * 1000 <= x /\ x < (micros + 1) * 1000
        BY <2>8
      <3> QED
        BY <1>1, <2>1, <2>10, <3>1
    <2> QED
      BY <2>9, <2>10
  <1> QED
    BY <1>1, <1>4 DEF LogValueKept

\* What is logged is no more than there is, and says what the call was.
LEMMA LogKept ==
    ASSUME Sound, Handlers
    PROVE  LogReadsInside' /\ LogValueKept'
  <1>1. LogSound
    BY DEF Sound, RequestSound
  <1>2. CASE PrintArgs
    BY <1>1, <1>2, EntryKept
  <1>3. CASE PrintTime
    <2>1. reply'.kind = "time"
      BY <1>3 DEF PrintTime, Reply
    <2> QED
      BY <1>1, <1>3, <2>1, TimeKept DEF LogReadsInside
  <1>4. CASE PrintElapsed
    <2>1. reply'.kind = "elapsed"
      BY <1>4 DEF PrintElapsed, Reply
    <2> QED
      BY <1>1, <1>4, <2>1, ElapsedKept DEF LogReadsInside
  <1>5. CASE ~LogHandlers
    <2>1. reply'.kind \notin {"entry", "time", "elapsed"}
      BY <1>5, FrameKinds, ErrorKinds, CryptoKinds, EnumKinds DEF Handlers
    <2> QED
      BY <2>1 DEF LogReadsInside, LogValueKept
  <1> QED
    BY <1>2, <1>3, <1>4, <1>5 DEF LogHandlers

-----------------------------------------------------------------------------
(* The theorems *)

\* A function answers a request and keeps nothing.
LEMMA HandlersSound ==
    ASSUME Sound, Handlers
    PROVE  Sound'
  <1>1. request' = request /\ held' = held
    BY HandlersReply
  <1>2. RequestSound /\ HeldSound
    BY DEF Sound
  <1>3. RequestSound'
    <2>1. FrameSound' /\ ErrorSound'
      BY <1>1, <1>2 DEF RequestSound, FrameSound, ErrorSound
    <2>2. CryptoSound'
      BY <1>1, <1>2 DEF RequestSound, CryptoSound
    <2>3. EnumSound'
      BY <1>1, <1>2 DEF RequestSound, EnumSound
    <2>4. LogSound'
      BY <1>1, <1>2 DEF RequestSound, LogSound
    <2> QED
      BY <2>1, <2>2, <2>3, <2>4 DEF RequestSound
  <1>4. HeldSound'
    BY <1>1, <1>2 DEF HeldSound
  <1>5. request # None
    <2>1. None.kind = "none"
      BY DEF None
    <2>2. request.kind # "none"
      <3>1. CASE AudioSendFrame \/ VideoSendFrame \/ InvokeCallState
                 \/ InvokeAudioReceiveFrame \/ DispatchVideoReceiveFrame
        BY <3>1 DEF AudioSendFrame, VideoSendFrame, InvokeCallState, InvokeAudioReceiveFrame,
                    DispatchVideoReceiveFrame
      <3>2. CASE ToxFunction \/ ThrowCode
        BY <3>2 DEF ToxFunction, ThrowCode
      <3>3. CASE CryptoHandlers
        BY <3>3 DEF CryptoHandlers, toxGetSalt, toxIsDataEncrypted, toxPassKeyDeriveWithSalt,
                    toxPassKeyDerive, toxPassKeyDecrypt, toxPassKeyEncrypt, toxHash,
                    passKeyFromBytes
      <3>4. CASE EnumHandlers
        BY <3>4 DEF EnumHandlers, SendEnum, ReceiveEnum, InvokeEnum, GetStatus
      <3>5. CASE LogHandlers
        BY <3>5 DEF LogHandlers, PrintArgs, PrintTime, PrintElapsed
      <3> QED
        BY <3>1, <3>2, <3>3, <3>4, <3>5 DEF Handlers
    <2> QED
      BY <2>1, <2>2
  <1> QED
    BY <1>1, <1>3, <1>4, <1>5, BuffersKept DEF Sound

LEMMA NextSound == ConversionsInv /\ [ConversionsNext]_conversionVars => ConversionsInv'
  <1> SUFFICES ASSUME ConversionsInv, [ConversionsNext]_conversionVars PROVE ConversionsInv'
    OBVIOUS
  <1>1. CASE Client
    BY <1>1, ClientSound
  <1>2. CASE Handlers
    <2>1. Sound
      BY DEF ConversionsInv
    <2> QED
      BY <1>2, <2>1, HandlersSound, SentFitsKept, RoundTripKept, VideoKept, ErrorsKept,
         BuffersKept, RecoveredKept, EnumsReply, LogKept DEF ConversionsInv
  <1>3. CASE UNCHANGED conversionVars
    <2>1. request' = request /\ reply' = reply /\ held' = held
      BY <1>3 DEF conversionVars
    <2>2. RequestSound'
      <3>1. FrameSound' /\ ErrorSound'
        BY <2>1 DEF ConversionsInv, Sound, RequestSound, FrameSound, ErrorSound
      <3>2. CryptoSound'
        BY <2>1 DEF ConversionsInv, Sound, RequestSound, CryptoSound
      <3>3. EnumSound'
        BY <2>1 DEF ConversionsInv, Sound, RequestSound, EnumSound
      <3>4. LogSound'
        BY <2>1 DEF ConversionsInv, Sound, RequestSound, LogSound
      <3> QED
        BY <3>1, <3>2, <3>3, <3>4 DEF RequestSound
    <2>3. Sound'
      BY <2>1, <2>2 DEF ConversionsInv, Sound, HeldSound, ReplySound
    <2>4. SentFits' /\ RoundTrip'
      BY <2>1 DEF ConversionsInv, SentFits, RoundTrip
    <2>5. PixelsInside' /\ CacheFits'
      BY <2>1 DEF ConversionsInv, PixelsInside, CacheFits
    <2>6. ErrorsReported'
      BY <2>1 DEF ConversionsInv, ErrorsReported
    <2>7. BuffersFit' /\ Recovered'
      BY <2>1 DEF ConversionsInv, BuffersFit, Recovered
    <2>8. EnumsKept'
      BY <2>1 DEF ConversionsInv, EnumsKept
    <2>9. LogReadsInside' /\ LogValueKept'
      BY <2>1 DEF ConversionsInv, LogReadsInside, LogValueKept
    <2> QED
      BY <2>3, <2>4, <2>5, <2>6, <2>7, <2>8, <2>9 DEF ConversionsInv
  <1> QED
    BY <1>1, <1>2, <1>3 DEF ConversionsNext

\* What the client keeps and requests is sound, and every property holds, for every
\* width of the integers and every length of the library's arrays.
THEOREM ConversionsInductive == ConversionsSpec => []ConversionsInv
  <1>1. ConversionsInit => ConversionsInv
    BY InitSound
  <1>2. ConversionsInv /\ [ConversionsNext]_conversionVars => ConversionsInv'
    BY NextSound
  <1> QED
    BY <1>1, <1>2, PTL DEF ConversionsSpec

\* toxavAudioSendFrame and toxavVideoSendFrame pass arrays of the sizes toxav reads,
\* for ints of every width: no array has the size of an overflowed product while the
\* dimensions still fit the types of toxav.
THEOREM SentFitsCorrect == ConversionsSpec => []SentFits
  <1>1. ConversionsInv => SentFits
    BY DEF ConversionsInv
  <1> QED
    BY <1>1, ConversionsInductive, PTL

\* Call states survive the bit mask, and samples the bytes that the batch carries
\* them in: for every set of states and every sequence of shorts.
THEOREM RoundTripCorrect == ConversionsSpec => []RoundTrip
  <1>1. ConversionsInv => RoundTrip
    BY DEF ConversionsInv
  <1> QED
    BY <1>1, ConversionsInductive, PTL

\* The planes dispatchVideoReceiveFrame hands out hold every pixel of the frame, for
\* every width, height and strides that toxav may report.
THEOREM PixelsInsideCorrect == ConversionsSpec => []PixelsInside
  <1>1. ConversionsInv => PixelsInside
    BY DEF ConversionsInv
  <1> QED
    BY <1>1, ConversionsInductive, PTL

\* dispatchVideoReceiveFrame does not overrun the arrays of a handler that allocates
\* them from the height and the strides, if no row is longer than its stride.
THEOREM CacheFitsCorrect == ConversionsSpec => []CacheFits
  <1>1. ConversionsInv => CacheFits
    BY DEF ConversionsInv
  <1> QED
    BY <1>1, ConversionsInductive, PTL

\* with_error_handling returns a value exactly when the library reported OK, and an
\* exception otherwise, whose code is the library's if a switch knows it.
THEOREM ErrorsReportedCorrect == ConversionsSpec => []ErrorsReported
  <1>1. ConversionsInv => ErrorsReported
    BY DEF ConversionsInv
  <1> QED
    BY <1>1, ConversionsInductive, PTL

\* The buffers of the functions of ToxCryptoJni are as long as what the library
\* writes into them, whatever the lengths of salts, keys, hashes and boxes.
THEOREM BuffersFitCorrect == ConversionsSpec => []BuffersFit
  <1>1. ConversionsInv => BuffersFit
    BY DEF ConversionsInv
  <1> QED
    BY <1>1, ConversionsInductive, PTL

\* A passphrase and the encrypted save are enough: toxGetSalt finds the salt in the
\* save, and the key derived with it decrypts what toxPassKeyEncrypt encrypted.
THEOREM RecoveredCorrect == ConversionsSpec => []Recovered
  <1>1. ConversionsInv => Recovered
    BY DEF ConversionsInv
  <1> QED
    BY <1>1, ConversionsInductive, PTL

\* The enumerators of Kotlin, the messages, Java and toxcore are converted into each
\* other without loss by the switches of enums.cpp and ToxCoreEventDispatch.
THEOREM EnumsKeptCorrect == ConversionsSpec => []EnumsKept
  <1>1. ConversionsInv => EnumsKept
    BY DEF ConversionsInv
  <1> QED
    BY <1>1, ConversionsInductive, PTL

\* print_args reads no byte behind the end of an array of a logged call, on a machine
\* with 32-bit or 64-bit pointers and for every MAX_DATA_LOG_LENGTH.
THEOREM LogReadsInsideCorrect == ConversionsSpec => []LogReadsInside
  <1>1. ConversionsInv => LogReadsInside
    BY DEF ConversionsInv
  <1> QED
    BY <1>1, ConversionsInductive, PTL

\* An entry of the log printed by ToxJniLog says what the call was: lengths, numbers,
\* the time since the first entry in microseconds and the time it took.
THEOREM LogValueKeptCorrect == ConversionsSpec => []LogValueKept
  <1>1. ConversionsInv => LogValueKept
    BY DEF ConversionsInv
  <1> QED
    BY <1>1, ConversionsInductive, PTL

=============================================================================
