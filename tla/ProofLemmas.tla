----------------------------- MODULE ProofLemmas ----------------------------
(***************************************************************************)
(* Facts about vectors, greatest elements and powers of two that the       *)
(* proofs of several components rest on.                                   *)
(***************************************************************************)
EXTENDS Integers, Sequences, FiniteSets, FiniteSetsExt, SequenceTheorems,
        FiniteSetTheorems, WellFoundedInduction, TLAPS

-----------------------------------------------------------------------------
(* Sequences *)

\* Assigning to an element of a vector (facts about EXCEPT on sequences).
LEMMA UpdateSeq ==
    ASSUME NEW S, NEW s \in Seq(S), NEW n \in DOMAIN s, NEW x \in S
    PROVE  /\ [s EXCEPT ![n] = x] \in Seq(S)
           /\ Len([s EXCEPT ![n] = x]) = Len(s)
           /\ DOMAIN [s EXCEPT ![n] = x] = DOMAIN s
           /\ [s EXCEPT ![n] = x][n] = x
           /\ \A m \in DOMAIN s \ {n} : [s EXCEPT ![n] = x][m] = s[m]
  BY ExceptSeq

\* push_back and emplace_back.
LEMMA AppendSeq ==
    ASSUME NEW S, NEW s \in Seq(S), NEW x \in S
    PROVE  /\ Append(s, x) \in Seq(S)
           /\ Len(Append(s, x)) = Len(s) + 1
           /\ DOMAIN Append(s, x) = DOMAIN s \cup {Len(s) + 1}
           /\ Len(s) + 1 \notin DOMAIN s
           /\ Append(s, x)[Len(s) + 1] = x
           /\ \A m \in DOMAIN s : Append(s, x)[m] = s[m]
  BY AppendProperties, LenProperties

\* pop_back.
LEMMA PopSeq ==
    ASSUME NEW S, NEW s \in Seq(S), s # <<>>
    PROVE  /\ SubSeq(s, 1, Len(s) - 1) \in Seq(S)
           /\ Len(s) \in DOMAIN s
           /\ DOMAIN SubSeq(s, 1, Len(s) - 1) = DOMAIN s \ {Len(s)}
           /\ \A m \in DOMAIN s \ {Len(s)} : SubSeq(s, 1, Len(s) - 1)[m] = s[m]
  <1>1. Len(s) \in Nat \ {0} /\ DOMAIN s = 1 .. Len(s)
    BY EmptySeq, LenProperties
  <1>2. /\ SubSeq(s, 1, Len(s) - 1) \in Seq(S)
        /\ Len(SubSeq(s, 1, Len(s) - 1)) = Len(s) - 1
        /\ \A i \in 1 .. Len(s) - 1 : SubSeq(s, 1, Len(s) - 1)[i] = s[i]
    BY <1>1, SubSeqProperties
  <1> QED
    BY <1>1, <1>2, LenProperties

-----------------------------------------------------------------------------
(* Numbers *)

\* Every set of naturals that is not empty has a least element.
LEMMA LeastElement ==
    ASSUME NEW T \in SUBSET Nat, T # {}
    PROVE  \E x \in T : \A y \in T : x <= y
  <1> DEFINE R == OpToRel(<, Nat)
  <1>1. IsWellFoundedOn(R, Nat)
    BY NatLessThanWellFounded
  <1>2. PICK x \in T : \A y \in T : <<y, x>> \notin R
    BY <1>1, WFMin
  <1>3. \A y \in T : ~(y < x)
    BY <1>2 DEF OpToRel
  <1> QED
    BY <1>3

\* Every bounded set of naturals that is not empty has a greatest element: the
\* least of its bounds.
LEMMA GreatestElement ==
    ASSUME NEW T \in SUBSET Nat, T # {}, NEW n \in Nat, \A y \in T : y <= n
    PROVE  Max(T) \in T /\ \A y \in T : y <= Max(T)
  <1> DEFINE B == {b \in Nat : \A y \in T : y <= b}
  <1>1. n \in B
    OBVIOUS
  <1>2. PICK b \in B : \A c \in B : b <= c
    BY <1>1, LeastElement
  <1>3. b \in T
    <2> SUFFICES ASSUME b \notin T PROVE FALSE
      OBVIOUS
    <2>1. \A y \in T : y <= b - 1
      BY <1>2
    <2>2. b - 1 \in Nat
      <3>1. PICK y \in T : TRUE
        OBVIOUS
      <3>2. y \in Nat /\ y <= b - 1
        BY <2>1, <3>1
      <3> QED
        BY <3>2
    <2>3. b - 1 \in B
      BY <2>1, <2>2
    <2> QED
      BY <1>2, <2>3
  <1>4. \E x \in T : \A y \in T : x >= y
    BY <1>2, <1>3
  <1>5. Max(T) \in T /\ \A y \in T : Max(T) >= y
    BY <1>4 DEF Max
  <1> QED
    BY <1>5

\* A power of two is a positive number.
LEMMA PowerPositive ==
    ASSUME NEW n \in Nat
    PROVE  2^n \in Nat \ {0}
  <1>1. IsFiniteSet(1 .. n) /\ Cardinality(1 .. n) = n
    BY FS_Interval
  <1>2. IsFiniteSet(SUBSET (1 .. n)) /\ Cardinality(SUBSET (1 .. n)) = 2^n
    BY <1>1, FS_SUBSET
  <1>3. SUBSET (1 .. n) # {}
    OBVIOUS
  <1> QED
    BY <1>2, <1>3, FS_EmptySet, FS_CardinalityType

\* Another bit doubles a power of two: a subset of 1 .. n + 1 is one of 1 .. n,
\* without n + 1 or with it.
LEMMA PowerDouble ==
    ASSUME NEW n \in Nat
    PROVE  2^(n + 1) = 2 * 2^n
  <1> DEFINE Low == SUBSET (1 .. n)
             High == {T \cup {n + 1} : T \in Low}
             f == [T \in Low |-> T \cup {n + 1}]
  <1>1. IsFiniteSet(Low) /\ Cardinality(Low) = 2^n
    <2>1. IsFiniteSet(1 .. n) /\ Cardinality(1 .. n) = n
      BY FS_Interval
    <2> QED
      BY <2>1, FS_SUBSET
  <1>2. IsFiniteSet(SUBSET (1 .. n + 1)) /\ Cardinality(SUBSET (1 .. n + 1)) = 2^(n + 1)
    <2>1. IsFiniteSet(1 .. n + 1) /\ Cardinality(1 .. n + 1) = n + 1
      BY FS_Interval
    <2> QED
      BY <2>1, FS_SUBSET
  <1>3. IsFiniteSet(High) /\ Cardinality(High) = 2^n
    <2>1. f \in [Low -> High]
      OBVIOUS
    <2>2. ASSUME NEW T \in Low, NEW U \in Low, T # U
          PROVE  T \cup {n + 1} # U \cup {n + 1}
      <3>1. n + 1 \notin T /\ n + 1 \notin U
        OBVIOUS
      <3> QED
        BY <2>2, <3>1
    <2>3. f \in Surjection(Low, High)
      <3>1. \A U \in High : \E T \in Low : f[T] = U
        OBVIOUS
      <3> QED
        BY <2>1, <3>1, Zenon DEF Surjection
    <2>4. f \in Injection(Low, High)
      <3>1. \A T, U \in Low : f[T] = f[U] => T = U
        BY <2>2
      <3> QED
        BY <2>1, <3>1 DEF Injection, IsInjective
    <2>5. f \in Bijection(Low, High)
      BY <2>3, <2>4 DEF Bijection
    <2> QED
      BY <1>1, <2>5, FS_Bijection DEF ExistsBijection
  <1>4. Low \cap High = {}
    OBVIOUS
  <1>5. Low \cup High = SUBSET (1 .. n + 1)
    <2>1. ASSUME NEW T \in SUBSET (1 .. n + 1)
          PROVE  T \in Low \cup High
      <3>1. CASE n + 1 \notin T
        BY <3>1
      <3>2. CASE n + 1 \in T
        <4>1. T \ {n + 1} \in Low /\ T = (T \ {n + 1}) \cup {n + 1}
          BY <3>2
        <4> QED
          BY <4>1
      <3> QED
        BY <3>1, <3>2
    <2>2. 1 .. n \subseteq 1 .. n + 1 /\ n + 1 \in 1 .. n + 1
      OBVIOUS
    <2>3. Low \subseteq SUBSET (1 .. n + 1)
      BY <2>2
    <2>4. ASSUME NEW T \in Low
          PROVE  T \cup {n + 1} \in SUBSET (1 .. n + 1)
      BY <2>2
    <2>5. High \subseteq SUBSET (1 .. n + 1)
      BY <2>4
    <2> HIDE DEF Low, High
    <2>6. Low \cup High \subseteq SUBSET (1 .. n + 1)
      BY <2>3, <2>5
    <2>7. SUBSET (1 .. n + 1) \subseteq Low \cup High
      BY <2>1
    <2> QED
      BY <2>6, <2>7
  <1> HIDE DEF Low, High
  <1>6. Cardinality(Low \cup High) = Cardinality(Low) + Cardinality(High) - Cardinality(Low \cap High)
    BY <1>1, <1>3, FS_Union
  <1>7. Cardinality(Low \cap High) = 0
    BY <1>4, FS_EmptySet
  <1>8. 2^n \in Nat /\ 2^(n + 1) \in Nat
    BY PowerPositive
  <1> DEFINE c == 2^n
             d == 2^(n + 1)
  <1>9. d = c + c - 0
    BY <1>1, <1>2, <1>3, <1>5, <1>6, <1>7
  <1>10. c \in Nat /\ d \in Nat
    BY <1>8
  <1> HIDE DEF c, d
  <1>11. d = 2 * c
    BY <1>9, <1>10
  <1> QED
    BY <1>11 DEF c, d

=============================================================================
