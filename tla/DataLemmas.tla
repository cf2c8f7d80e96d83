----------------------------- MODULE DataLemmas -----------------------------
(***************************************************************************)
(* Facts about numbers, maxima, prefixes and listings that the proofs of   *)
(* several modules use.                                                    *)
(***************************************************************************)
EXTENDS Integers, Sequences, FiniteSetsExt, SequencesExt, SequenceTheorems,
        FiniteSetTheorems, WellFoundedInduction, TLAPS

\* What a prefix is, position by position.
LEMMA PrefixAt ==
    ASSUME NEW S, NEW s \in Seq(S), NEW t \in Seq(S), IsPrefix(s, t)
    PROVE  /\ Len(s) <= Len(t)
           /\ \A i \in 1..Len(s) : s[i] = t[i]
<1>1. Len(s) \in Nat /\ Len(s) <= Len(t)
  BY DEF IsPrefix
<1>2. SubSeq(s, 1, Len(s)) = SubSeq(t, 1, Len(s))
  BY DEF IsPrefix
<1> QED BY <1>1, <1>2

LEMMA PrefixFrom ==
    ASSUME NEW S, NEW s \in Seq(S), NEW t \in Seq(S),
           Len(s) <= Len(t), \A i \in 1..Len(s) : s[i] = t[i]
    PROVE  IsPrefix(s, t)
<1>1. /\ SubSeq(s, 1, Len(s)) \in Seq(S)
      /\ SubSeq(t, 1, Len(s)) \in Seq(S)
      /\ Len(SubSeq(s, 1, Len(s))) = Len(s)
      /\ Len(SubSeq(t, 1, Len(s))) = Len(s)
      /\ \A i \in 1..Len(s) : SubSeq(s, 1, Len(s))[i] = SubSeq(t, 1, Len(s))[i]
  OBVIOUS
<1>2. SubSeq(s, 1, Len(s)) = SubSeq(t, 1, Len(s))
  BY <1>1, SeqEqual
<1> QED BY <1>2 DEF IsPrefix

\* The least-number principle, for sets: what replaces an induction over Nat.
LEMMA LeastNatural ==
    ASSUME NEW S \in SUBSET Nat, S # {}
    PROVE  \E x \in S : \A y \in S : x <= y
<1> DEFINE below == {p \in Nat \X Nat : p[1] < p[2]}
<1>1. IsWellFoundedOn(below, Nat)
  BY NatLessThanWellFounded, Zenon DEF OpToRel
<1>2. \A x, y \in Nat : <<y, x>> \notin below => x <= y
  OBVIOUS
<1> HIDE DEF below
<1>3. \E x \in S : \A y \in S : <<y, x>> \notin below
  BY <1>1, WFMin
<1> QED BY <1>2, <1>3

\* The greatest element is the maximum.
LEMMA MaxIs ==
    ASSUME NEW S \in SUBSET Int, NEW n \in S, \A x \in S : x <= n
    PROVE  Max(S) = n
<1>1. \E x \in S : \A y \in S : x >= y
  <2>1. \A y \in S : n >= y
    OBVIOUS
  <2> QED BY <2>1
<1>2. Max(S) \in S /\ \A y \in S : Max(S) >= y
  BY <1>1, Zenon DEF Max
<1>3. Max(S) \in Int /\ Max(S) >= n /\ Max(S) <= n
  BY <1>2
<1> QED BY <1>3

\* A set of naturals below n has a maximum.
LEMMA MaxIn ==
    ASSUME NEW S \in SUBSET Nat, NEW n \in Nat, \A x \in S : x <= n, S # {}
    PROVE  /\ Max(S) \in S
           /\ \A x \in S : x <= Max(S)
<1> DEFINE T == {m \in Nat : n - m \in S}
<1>1. T \in SUBSET Nat /\ \A x \in S : n - x \in T
  OBVIOUS
<1>2. \E m \in T : \A x \in T : m <= x
  <2> HIDE DEF T
  <2> QED BY <1>1, LeastNatural
<1>3. \E x \in S : \A y \in S : x >= y
  <2>1. PICK m \in T : \A x \in T : m <= x
    BY <1>2
  <2>2. \A y \in S : m <= n - y
    BY <1>1, <2>1
  <2>3. m \in Nat /\ n - m \in S /\ \A y \in S : n - m >= y
    BY <2>1, <2>2
  <2> QED BY <2>3
<1>4. Max(S) \in S /\ \A y \in S : Max(S) >= y
  BY <1>3, Zenon DEF Max
<1> QED BY <1>4

\* The first n members of a listing are n members.
LEMMA ListedCount ==
    ASSUME NEW n \in Nat, NEW o, \A i, j \in 1..n : o[i] = o[j] => i = j,
           NEW T, \A x : x \in T <=> \E i \in 1..n : o[i] = x
    PROVE  IsFiniteSet(T) /\ Cardinality(T) = n
<1> DEFINE f == [i \in 1..n |-> o[i]]
<1>1. f \in Bijection(1..n, T)
  BY DEF Bijection, Injection, Surjection, IsInjective
<1>2. ExistsBijection(1..n, T)
  BY <1>1 DEF ExistsBijection
<1> HIDE DEF f
<1>3. Cardinality(T) = n
  BY <1>2, FS_CountingElements
<1>4. IsFiniteSet(T)
  BY <1>2, FS_NatBijection
<1> QED BY <1>3, <1>4

\* A listing of as many members as a set has lists them all.
LEMMA ListsAll ==
    ASSUME NEW S, IsFiniteSet(S), NEW o \in [1..Cardinality(S) -> S],
           \A i, j \in DOMAIN o : o[i] = o[j] => i = j
    PROVE  \A k \in S : \E i \in 1..Cardinality(S) : o[i] = k
<1> DEFINE n == Cardinality(S)
           T == {o[i] : i \in 1..n}
<1>1. n \in Nat
  BY FS_CardinalityType
<1>2. T \in SUBSET S /\ \A i, j \in 1..n : o[i] = o[j] => i = j
  OBVIOUS
<1>3. Cardinality(T) = n
  <2>1. \A x : x \in T <=> \E i \in 1..n : o[i] = x
    OBVIOUS
  <2> HIDE DEF n, T
  <2> QED BY <1>1, <1>2, <2>1, ListedCount
<1>4. T = S
  <2> HIDE DEF T
  <2> QED BY <1>2, <1>3, FS_Subset
<1> QED BY <1>4

\* SetToSeq lists the members of a finite set.
LEMMA SetListed ==
    ASSUME NEW S, IsFiniteSet(S)
    PROVE  /\ SetToSeq(S) \in Seq(S) /\ Len(SetToSeq(S)) = Cardinality(S)
           /\ DOMAIN SetToSeq(S) = 1..Cardinality(S) /\ Cardinality(S) \in Nat
           /\ \A x \in S : \E i \in 1..Cardinality(S) : SetToSeq(S)[i] = x
<1> DEFINE n == Cardinality(S)
           f == SetToSeq(S)
<1>1. n \in Nat /\ ExistsBijection(1..n, S)
  BY FS_CardinalityType
<1>2. PICK g \in [1..n -> S] : IsInjective(g)
  <2>1. PICK g : g \in Bijection(1..n, S)
    BY <1>1 DEF ExistsBijection
  <2> QED BY <2>1 DEF Bijection, Injection
<1>3. f \in [1..n -> S] /\ IsInjective(f)
  BY <1>2, Zenon DEF SetToSeq
<1> HIDE DEF f
<1>4. \A i, j \in DOMAIN f : f[i] = f[j] => i = j
  BY <1>3 DEF IsInjective
<1>5. \A x \in S : \E i \in 1..n : f[i] = x
  BY <1>3, <1>4, ListsAll
<1>6. f \in Seq(S) /\ Len(f) = n /\ DOMAIN f = 1..n
  BY <1>1, <1>3
<1> QED BY <1>1, <1>5, <1>6 DEF f
=============================================================================
