----------------------------- MODULE DataFacts ------------------------------
(***************************************************************************)
(* Facts about numbers and sequences that the proofs of this project share *)
(*                                                                         *)
(* The induction rules of the libraries range over a predicate, which the  *)
(* provers at hand cannot instantiate.  The rules below range over a set,  *)
(* {n \in Nat : P(n)} in their uses.  They follow from the library's       *)
(* well-founded ordering of the finite sets, to which a natural number n   *)
(* is mapped as 0..(n - 1).                                                *)
(***************************************************************************)
EXTENDS Integers, Sequences, FiniteSetTheorems, SequenceTheorems, WellFoundedInduction, TLAPS

\* Every non-empty set of natural numbers has a smallest element.
LEMMA SmallestNat ==
  ASSUME NEW T \in SUBSET Nat, T # {}
  PROVE  \E x \in T : \A y \in T : x <= y
  <1> DEFINE Below(n) == 0..(n - 1)
             B == {Below(n) : n \in T}
  <1>1. B \subseteq FiniteSubsetsOf(Nat)
    <2>1. \A n \in Nat : IsFiniteSet(Below(n))
      BY FS_Interval
    <2> QED BY <2>1 DEF FiniteSubsetsOf
  <1>2. B # {}
    OBVIOUS
  <1>3. PICK b \in B : \A c \in B : ~ (<<c, b>> \in StrictSubsetOrdering(Nat))
    BY <1>1, <1>2, FS_StrictSubsetOrderingWellFounded, WFMin
  <1>4. PICK x \in T : b = Below(x)
    OBVIOUS
  <1>5. ASSUME NEW y \in T, y < x PROVE FALSE
    <2>1. Below(y) \subseteq Below(x) /\ Below(y) # Below(x)
      <3>1. y \in Below(x) /\ y \notin Below(y)
        BY <1>5
      <3> QED BY <3>1, <1>5
    <2>2. Below(y) \in B /\ Below(y) \subseteq Nat /\ Below(x) \subseteq Nat
      OBVIOUS
    <2> QED BY <1>3, <1>4, <2>1, <2>2 DEF StrictSubsetOrdering
  <1> QED BY <1>5

\* Mathematical induction.
LEMMA NatInduct ==
  ASSUME NEW S, 0 \in S, \A n \in Nat : n \in S => n + 1 \in S
  PROVE  Nat \subseteq S
  <1> SUFFICES ASSUME Nat \ S # {} PROVE FALSE
    OBVIOUS
  <1>1. PICK m \in Nat \ S : \A y \in Nat \ S : m <= y
    BY SmallestNat
  <1>2. m # 0 /\ m - 1 \in Nat
    OBVIOUS
  <1> QED BY <1>1, <1>2

\* Powers of two count the subsets of a set.
LEMMA PowerOfTwo ==
  ASSUME NEW n \in Nat
  PROVE  2^n \in Nat /\ 2^n > 0
  <1>1. IsFiniteSet(1..n) /\ Cardinality(1..n) = n
    BY FS_Interval
  <1>2. IsFiniteSet(SUBSET (1..n)) /\ Cardinality(SUBSET (1..n)) = 2^n
    BY <1>1, FS_SUBSET
  <1>3. SUBSET (1..n) # {}
    OBVIOUS
  <1> QED BY <1>2, <1>3, FS_CardinalityType, FS_EmptySet

\* A function on 1..n is a sequence.
LEMMA FunctionIsSeq ==
  ASSUME NEW S, NEW n \in Nat, NEW w \in [1..n -> S]
  PROVE  w \in Seq(S) /\ Len(w) = n
  <1>1. w \in Seq(S)
    BY SeqDef
  <1>2. DOMAIN w = 1..n /\ DOMAIN w = 1..Len(w) /\ Len(w) \in Nat
    BY <1>1, LenProperties
  <1> QED BY <1>1, <1>2

\* A function can be defined by recursion on 0..n: from its first value and the
\* function h that gives the next one.
StepFunctions(n, T) == [(1..n) \X T -> T]

IsRecursion(g, n, T, a, h) ==
  /\ g \in [0..n -> T]
  /\ g[0] = a
  /\ \A i \in 1..n : g[i] = h[<<i, g[i - 1]>>]

LEMMA RecursionExists ==
  ASSUME NEW n \in Nat, NEW T, NEW a \in T, NEW h \in StepFunctions(n, T)
  PROVE  \E g : IsRecursion(g, n, T, a, h)
  <1> USE DEF StepFunctions
  <1> DEFINE Upto(m, g) == g[0] = a /\ \A i \in 1..m : g[i] = h[<<i, g[i - 1]>>]
             S == {m \in Nat : m <= n => \E g \in [0..m -> T] : Upto(m, g)}
  <1>1. 0 \in S
    <2> DEFINE g == [i \in 0..0 |-> a]
    <2>1. g \in [0..0 -> T] /\ Upto(0, g)
      OBVIOUS
    <2> QED BY <2>1
  <1>2. ASSUME NEW m \in Nat, m \in S PROVE m + 1 \in S
    <2> SUFFICES ASSUME m + 1 <= n PROVE \E g \in [0..(m + 1) -> T] : Upto(m + 1, g)
      OBVIOUS
    <2>1. PICK f \in [0..m -> T] : Upto(m, f)
      BY <1>2
    <2> DEFINE g == [i \in 0..(m + 1) |-> IF i = m + 1 THEN h[<<m + 1, f[m]>>] ELSE f[i]]
    <2>2. h[<<m + 1, f[m]>>] \in T
      <3>1. m + 1 \in 1..n /\ f[m] \in T
        OBVIOUS
      <3> QED BY <3>1
    <2>3. \A i \in 0..m : g[i] = f[i]
      OBVIOUS
    <2>4. g[m + 1] = h[<<m + 1, g[m]>>]
      <3>1. g[m] = f[m] /\ m + 1 \in 0..(m + 1)
        BY <2>3
      <3>2. g[m + 1] = h[<<m + 1, f[m]>>]
        BY <3>1
      <3> HIDE DEF g
      <3> QED BY <3>1, <3>2
    <2>5. g \in [0..(m + 1) -> T]
      BY <2>2
    <2> HIDE DEF g
    <2>6. ASSUME NEW i \in 1..(m + 1) PROVE g[i] = h[<<i, g[i - 1]>>]
      <3>1. CASE i = m + 1
        BY <2>4, <3>1
      <3>2. CASE i \in 1..m
        <4>1. i - 1 \in 0..m /\ i \in 0..m
          BY <3>2
        <4> QED BY <2>1, <2>3, <3>2, <4>1
      <3> QED BY <3>1, <3>2
    <2>7. g[0] = a
      BY <2>1, <2>3
    <2> QED BY <2>5, <2>6, <2>7
  <1> HIDE DEF S
  <1>3. n \in S
    BY <1>1, <1>2, NatInduct
  <1> QED BY <1>3 DEF S, IsRecursion

\* Rounding up to a multiple of g.
LEMMA RoundUp ==
  ASSUME NEW need \in Nat, NEW g \in Nat \ {0}
  PROVE  /\ ((need + g - 1) \div g) * g \in Nat
         /\ ((need + g - 1) \div g) * g >= need
  <1> DEFINE a == need + g - 1
             q == a \div g
  <1>1. a \in Nat /\ g \in Nat /\ g > 0
    OBVIOUS
  <1> HIDE DEF a
  <1>2. q \in Nat /\ q * g <= a /\ a < q * g + g
    BY <1>1
  <1> HIDE DEF q
  <1>3. q * g \in Nat
    BY <1>1, <1>2
  <1>4. q * g >= need
    BY <1>1, <1>2, <1>3 DEF a
  <1> QED BY <1>3, <1>4 DEF a, q

-----------------------------------------------------------------------------
(* A sequence that lists the elements of a set, each once. *)

Enumerates(l, S) == l \in Seq(S) /\ Range(l) = S /\ IsInjective(l)

LEMMA EnumeratesAt ==
  ASSUME NEW l, NEW S, Enumerates(l, S)
  PROVE  /\ Len(l) \in Nat /\ DOMAIN l = 1..Len(l)
         /\ \A i \in 1..Len(l) : l[i] \in S
         /\ \A x \in S : \E i \in 1..Len(l) : l[i] = x
         /\ \A i, j \in 1..Len(l) : l[i] = l[j] => i = j
  BY LenProperties DEF Enumerates, Range, IsInjective

\* It is enough to know the elements.
LEMMA EnumeratesBy ==
  ASSUME NEW l, NEW S, NEW n \in Nat, NEW T, l \in Seq(T), Len(l) = n,
         \A i \in 1..n : l[i] \in S,
         \A x \in S : \E i \in 1..n : l[i] = x,
         \A i, j \in 1..n : l[i] = l[j] => i = j
  PROVE  Enumerates(l, S)
  <1>1. DOMAIN l = 1..n /\ l \in [1..n -> S]
    BY LenProperties
  <1>2. l \in Seq(S)
    BY <1>1, FunctionIsSeq
  <1> QED BY <1>1, <1>2 DEF Enumerates, Range, IsInjective

LEMMA EnumeratesAppend ==
  ASSUME NEW l, NEW S, Enumerates(l, S), NEW b, b \notin S
  PROVE  Enumerates(Append(l, b), S \cup {b})
  <1> DEFINE T == S \cup {b}
             a == Append(l, b)
             n == Len(l)
  <1>1. n \in Nat /\ l \in Seq(T)
    <2>1. l \in [1..n -> T] /\ n \in Nat
      BY EnumeratesAt, LenProperties DEF Enumerates
    <2> QED BY <2>1, FunctionIsSeq
  <1>2. /\ a \in Seq(T) /\ Len(a) = n + 1 /\ a[n + 1] = b
        /\ \A i \in 1..n : a[i] = l[i]
    BY <1>1, AppendProperties
  <1> HIDE DEF a
  <1>3. \A i \in 1..(n + 1) : i \in 1..n \/ i = n + 1
    BY <1>1
  <1>4. \A i \in 1..n : l[i] \in S /\ a[i] # b
    BY <1>2, EnumeratesAt
  <1>5. \A i \in 1..(n + 1) : a[i] \in T
    BY <1>2, <1>3, <1>4
  <1>6. ASSUME NEW x \in T PROVE \E i \in 1..(n + 1) : a[i] = x
    <2>1. n + 1 \in 1..(n + 1) /\ 1..n \subseteq 1..(n + 1)
      BY <1>1
    <2>2. CASE x = b
      BY <1>2, <2>1, <2>2
    <2>3. CASE x \in S
      <3>1. PICK i \in 1..n : l[i] = x
        BY <2>3, EnumeratesAt
      <3> QED BY <1>2, <2>1, <3>1
    <2> QED BY <2>2, <2>3
  <1>7. ASSUME NEW i \in 1..(n + 1), NEW j \in 1..(n + 1), a[i] = a[j] PROVE i = j
    <2>1. CASE i \in 1..n /\ j \in 1..n
      BY <1>2, <1>7, <2>1, EnumeratesAt
    <2> QED BY <1>2, <1>3, <1>4, <1>7, <2>1
  <1>8. n + 1 \in Nat
    BY <1>1
  <1> DEFINE m == n + 1
  <1>9. /\ m \in Nat /\ a \in Seq(T) /\ Len(a) = m /\ \A i \in 1..m : a[i] \in T
        /\ \A x \in T : \E i \in 1..m : a[i] = x
        /\ \A i, j \in 1..m : a[i] = a[j] => i = j
    BY <1>2, <1>5, <1>6, <1>7, <1>8
  <1> HIDE DEF m, T
  <1>10. Enumerates(a, T)
    BY <1>9, EnumeratesBy
  <1> QED BY <1>10 DEF a, T

LEMMA EnumeratesFront ==
  ASSUME NEW l, NEW S, Enumerates(l, S), l # <<>>
  PROVE  /\ l[Len(l)] \in S
         /\ Enumerates(SubSeq(l, 1, Len(l) - 1), S \ {l[Len(l)]})
  <1> DEFINE n == Len(l)
             m == n - 1
             r == SubSeq(l, 1, m)
             T == S \ {l[n]}
  <1>1. n \in Nat /\ l \in Seq(S) /\ n # 0
    BY EnumeratesAt, EmptySeq, LenProperties DEF Enumerates
  <1>2. m \in Nat /\ n = m + 1 /\ n \in 1..n /\ 1..m \subseteq 1..n
    BY <1>1
  <1> HIDE DEF m, n
  <1>3. \A i \in 1..m : l[i] \in S
    BY <1>2, EnumeratesAt DEF n
  <1>4. r \in Seq(S) /\ Len(r) = m /\ \A i \in 1..m : r[i] = l[i]
    <2>1. /\ SubSeq(l, 1, m) \in Seq(S)
          /\ Len(SubSeq(l, 1, m)) = IF 1 <= m THEN m - 1 + 1 ELSE 0
          /\ \A i \in 1..(m - 1 + 1) : SubSeq(l, 1, m)[i] = l[1 + i - 1]
      BY <1>1, <1>2, <1>3, SubSeqProperties
    <2>2. m - 1 + 1 = m /\ (~ (1 <= m) => m = 0) /\ \A i \in 1..m : 1 + i - 1 = i
      BY <1>2
    <2> QED BY <2>1, <2>2
  <1> HIDE DEF r
  <1>5. \A i \in 1..n : i \in 1..m \/ i = n
    BY <1>2
  <1>6. n \notin 1..m
    BY <1>2
  <1>7. \A i, j \in 1..n : l[i] = l[j] => i = j
    BY EnumeratesAt DEF n
  <1>8. \A i \in 1..m : r[i] \in T
    BY <1>2, <1>3, <1>4, <1>6, <1>7
  <1>9. \A x \in T : \E i \in 1..m : r[i] = x
    <2> SUFFICES ASSUME NEW x \in T PROVE \E i \in 1..m : r[i] = x
      OBVIOUS
    <2>1. PICK i \in 1..n : l[i] = x
      BY EnumeratesAt DEF n
    <2> QED BY <1>4, <1>5, <2>1
  <1>10. \A i, j \in 1..m : r[i] = r[j] => i = j
    BY <1>2, <1>4, <1>7
  <1> HIDE DEF T
  <1>11. Enumerates(r, T)
    BY <1>2, <1>4, <1>8, <1>9, <1>10, EnumeratesBy
  <1>12. l[n] \in S
    BY <1>2, EnumeratesAt DEF n
  <1> QED BY <1>11, <1>12 DEF r, T, m, n
=============================================================================
