-------------------------- MODULE BlockCacheProofs --------------------------
(***************************************************************************)
(* The block cache and the image under it are an array of blocks, for any  *)
(* capacity, growth step and number of blocks.  The invariant adds to the  *)
(* checked properties that a clean entry agrees with the image unless its  *)
(* contents were given up, that the image reads as zeros past its end, and *)
(* that the place of the allocator snapshot is never dirty in the cache.   *)
(***************************************************************************)
EXTENDS BlockCache, DataFacts

-----------------------------------------------------------------------------
(* The queue. *)

\* A queue that lists the blocks of S, each once.
Lists(l, S) == l \in Seq(Blocks) /\ Range(l) = S /\ IsInjective(l)

LEMMA ListsAt ==
  ASSUME NEW l \in Seq(Blocks)
  PROVE  /\ Len(l) \in Nat
         /\ DOMAIN l = 1..Len(l)
         /\ \A i \in 1..Len(l) : l[i] \in Blocks
         /\ \A x : x \in Range(l) <=> \E i \in 1..Len(l) : l[i] = x
  BY LenProperties, ElementOfSeq DEF Range

\* A block joins at the end.
LEMMA ListsAppend ==
  ASSUME NEW l, NEW S, Lists(l, S), NEW b \in Blocks \ S
  PROVE  Lists(Append(l, b), S \cup {b})
  <1> DEFINE a == Append(l, b)
             n == Len(l)
  <1>1. n \in Nat /\ l \in Seq(Blocks)
    BY LenProperties DEF Lists
  <1>2. a \in Seq(Blocks) /\ Len(a) = n + 1 /\ a[n + 1] = b
        /\ \A i \in 1..n : a[i] = l[i]
    BY <1>1, AppendProperties
  <1> HIDE DEF a
  <1>3. DOMAIN a = 1..(n + 1) /\ DOMAIN l = 1..n
    BY <1>1, <1>2, LenProperties
  <1>4. \A i \in 1..n : l[i] \in S
    BY <1>3 DEF Lists, Range
  <1>5. Range(a) = S \cup {b}
    <2>1. ASSUME NEW x \in Range(a) PROVE x \in S \cup {b}
      <3>1. PICK i \in 1..(n + 1) : a[i] = x
        BY <1>3, <2>1 DEF Range
      <3>2. i \in 1..n \/ i = n + 1
        BY <1>1
      <3> QED BY <1>2, <1>4, <3>1, <3>2
    <2>2. ASSUME NEW x \in S PROVE x \in Range(a)
      <3>1. PICK i \in 1..n : l[i] = x
        BY <1>3, <2>2 DEF Lists, Range
      <3>2. i \in 1..(n + 1)
        BY <1>1
      <3> QED BY <1>2, <1>3, <3>1, <3>2 DEF Range
    <2>3. b \in Range(a)
      <3>1. n + 1 \in DOMAIN a
        BY <1>1, <1>3
      <3> QED BY <1>2, <3>1 DEF Range
    <2> QED BY <2>1, <2>2, <2>3
  <1>6. IsInjective(a)
    <2> SUFFICES ASSUME NEW i \in 1..(n + 1), NEW j \in 1..(n + 1), a[i] = a[j] PROVE i = j
      BY <1>3 DEF IsInjective
    <2>1. (i \in 1..n \/ i = n + 1) /\ (j \in 1..n \/ j = n + 1)
      BY <1>1
    <2>2. CASE i \in 1..n /\ j \in 1..n
      BY <1>2, <1>3, <2>2 DEF Lists, IsInjective
    <2> QED BY <1>2, <1>4, <2>1, <2>2
  <1> QED BY <1>2, <1>5, <1>6 DEF Lists, a

\* A block leaves, wherever it is.
LEMMA ListsRemove ==
  ASSUME NEW l, NEW S, Lists(l, S), NEW k \in 1..Len(l)
  PROVE  Lists(RemoveAt(l, k), S \ {l[k]})
  <1> DEFINE n == Len(l)
             r == RemoveAt(l, k)
             p == SubSeq(l, 1, k - 1)
             q == SubSeq(l, k + 1, n)
  <1>1. n \in Nat /\ l \in Seq(Blocks) /\ DOMAIN l = 1..n /\ k \in Int
        /\ \A i \in 1..n : l[i] \in Blocks
    BY ListsAt DEF Lists
  <1>2. /\ p \in Seq(Blocks) /\ Len(p) = k - 1
        /\ \A i \in 1..(k - 1) : p[i] = l[i]
    <2>1. \A i \in 1..(k - 1) : l[i] \in Blocks
      BY <1>1
    <2> QED BY <1>1, <2>1, SubSeqProperties
  <1>3. /\ q \in Seq(Blocks) /\ Len(q) = n - k
        /\ \A i \in 1..(n - k) : q[i] = l[k + i]
    <2>1. \A i \in (k + 1)..n : l[i] \in Blocks
      BY <1>1
    <2> DEFINE m == k + 1
    <2>2. m \in Int /\ n \in Int /\ q = SubSeq(l, m, n) /\ \A i \in m..n : l[i] \in Blocks
      BY <1>1, <2>1
    <2> HIDE DEF q, m
    <2>3. /\ q \in Seq(Blocks) /\ Len(q) = IF m <= n THEN n - m + 1 ELSE 0
          /\ \A i \in 1..(n - m + 1) : q[i] = l[m + i - 1]
      <3> HIDE DEF n
      <3>1. /\ SubSeq(l, m, n) \in Seq(Blocks)
            /\ Len(SubSeq(l, m, n)) = IF m <= n THEN n - m + 1 ELSE 0
            /\ \A i \in 1..(n - m + 1) : SubSeq(l, m, n)[i] = l[m + i - 1]
        BY <2>2, SubSeqProperties
      <3> QED BY <2>2, <3>1
    <2>4. n \in Int /\ k \in Int /\ k <= n
      BY <1>1
    <2> HIDE DEF n
    <2>5. n - m + 1 = n - k /\ (m <= n <=> k < n) /\ (~ (k < n) => n - k = 0)
      BY <2>4 DEF m
    <2>6. \A i \in 1..(n - k) : m + i - 1 = k + i
      BY <2>4 DEF m
    <2> QED BY <2>3, <2>5, <2>6
  <1> HIDE DEF p, q
  <1>4. /\ r \in Seq(Blocks) /\ Len(r) = n - 1
        /\ \A i \in 1..(n - 1) : r[i] = IF i < k THEN l[i] ELSE l[i + 1]
    <2>1. r = p \o q
      BY DEF RemoveAt, p, q
    <2> HIDE DEF r
    <2>2. /\ r \in Seq(Blocks) /\ Len(r) = Len(p) + Len(q)
          /\ \A i \in 1..(Len(p) + Len(q)) :
               r[i] = IF i <= Len(p) THEN p[i] ELSE q[i - Len(p)]
      BY <1>2, <1>3, <2>1, ConcatProperties
    <2>3. ASSUME NEW i \in 1..(n - 1) PROVE r[i] = IF i < k THEN l[i] ELSE l[i + 1]
      <3>0. i \in 1..(Len(p) + Len(q)) /\ (i <= Len(p) <=> i < k)
        BY <1>1, <1>2, <1>3
      <3>1. CASE i < k
        <4>1. r[i] = p[i] /\ i \in 1..(k - 1)
          BY <1>1, <2>2, <3>0, <3>1
        <4> QED BY <1>2, <3>1, <4>1
      <3>2. CASE ~ (i < k)
        <4>1. i - (k - 1) \in 1..(n - k) /\ k + (i - (k - 1)) = i + 1
          BY <1>1, <3>2
        <4>2. r[i] = q[i - (k - 1)]
          BY <1>2, <2>2, <3>0, <3>2
        <4> QED BY <1>3, <3>2, <4>1, <4>2
      <3> QED BY <3>1, <3>2
    <2> QED BY <1>1, <1>2, <1>3, <2>2, <2>3
  <1> HIDE DEF r
  <1>5. DOMAIN r = 1..(n - 1)
    BY <1>4, LenProperties
  <1>6. \A i, j \in 1..n : l[i] = l[j] => i = j
    BY <1>1 DEF Lists, IsInjective
  <1>7. \A x : x \in S <=> \E i \in 1..n : l[i] = x
    BY <1>1, ListsAt DEF Lists
  <1>8. Range(r) = S \ {l[k]}
    <2>1. ASSUME NEW x \in Range(r) PROVE x \in S \ {l[k]}
      <3>1. PICK i \in 1..(n - 1) : r[i] = x
        BY <1>5, <2>1 DEF Range
      <3>2. (i \in 1..n /\ i # k /\ x = l[i]) \/ (i + 1 \in 1..n /\ i + 1 # k /\ x = l[i + 1])
        BY <1>1, <1>4, <3>1
      <3> QED BY <1>6, <1>7, <3>2
    <2>2. ASSUME NEW x \in S \ {l[k]} PROVE x \in Range(r)
      <3>1. PICK i \in 1..n : l[i] = x
        BY <1>7, <2>2
      <3>2. i < k \/ i > k
        BY <1>1, <2>2, <3>1
      <3>3. CASE i < k
        <4>1. i \in 1..(n - 1) /\ r[i] = x
          BY <1>1, <1>4, <3>1, <3>3
        <4> QED BY <1>5, <4>1 DEF Range
      <3>4. CASE i > k
        <4>1. i - 1 \in 1..(n - 1) /\ ~ (i - 1 < k) /\ (i - 1) + 1 = i
          BY <1>1, <3>1, <3>4
        <4>2. r[i - 1] = x
          BY <1>4, <3>1, <4>1
        <4> QED BY <1>5, <4>1, <4>2 DEF Range
      <3> QED BY <3>2, <3>3, <3>4
    <2> QED BY <2>1, <2>2
  <1>9. IsInjective(r)
    <2> SUFFICES ASSUME NEW i \in 1..(n - 1), NEW j \in 1..(n - 1), r[i] = r[j] PROVE i = j
      BY <1>5 DEF IsInjective
    <2> DEFINE Old(m) == IF m < k THEN m ELSE m + 1
    <2>1. Old(i) \in 1..n /\ Old(j) \in 1..n
      BY <1>1
    <2>2. r[i] = l[Old(i)] /\ r[j] = l[Old(j)]
      BY <1>4
    <2>3. Old(i) = Old(j)
      BY <1>6, <2>1, <2>2
    <2> QED BY <1>1, <2>3
  <1> QED BY <1>4, <1>8, <1>9 DEF Lists, r

\* BlockCache::touch keeps the queue in step with the map.
LEMMA ListsTouch ==
  ASSUME NEW l, NEW S, Lists(l, S), NEW b \in Blocks
  PROVE  Lists(Touch(l, b), S \cup {b})
  <1>1. \A x : x \in S <=> \E i \in 1..Len(l) : l[i] = x
    BY ListsAt DEF Lists
  <1>2. CASE Position(l, b) = {}
    <2>1. b \notin S
      <3> SUFFICES ASSUME b \in S PROVE FALSE
        OBVIOUS
      <3>1. PICK i \in 1..Len(l) : l[i] = b
        BY <1>1
      <3>2. ASSUME NEW j \in 1..(i - 1), l[j] = b PROVE FALSE
        <4>1. DOMAIN l = 1..Len(l) /\ Len(l) \in Nat
          BY ListsAt DEF Lists
        <4>2. i \in DOMAIN l /\ j \in DOMAIN l /\ i # j
          BY <4>1
        <4> QED BY <3>1, <3>2, <4>2 DEF Lists, IsInjective
      <3> QED BY <1>2, <3>1, <3>2 DEF Position
    <2>2. Touch(l, b) = Append(l, b)
      BY <1>2 DEF Touch
    <2> QED BY <2>1, <2>2, ListsAppend
  <1>3. CASE Position(l, b) # {}
    <2> DEFINE i == CHOOSE k \in Position(l, b) : TRUE
    <2>1. i \in 1..Len(l) /\ l[i] = b
      BY <1>3 DEF Position
    <2>2. Touch(l, b) = Append(RemoveAt(l, i), b)
      BY <1>3 DEF Touch
    <2> HIDE DEF i
    <2>3. Lists(RemoveAt(l, i), S \ {b})
      BY <2>1, ListsRemove
    <2>4. Lists(Append(RemoveAt(l, i), b), (S \ {b}) \cup {b})
      BY <2>3, ListsAppend
    <2>5. (S \ {b}) \cup {b} = S \cup {b}
      OBVIOUS
    <2> QED BY <2>2, <2>4, <2>5
  <1> QED BY <1>2, <1>3

\* evict_one takes the first block of the queue.
LEMMA ListsPop ==
  ASSUME NEW l, NEW S, Lists(l, S), l # <<>>
  PROVE  /\ Len(l) >= 1 /\ l[1] \in S
         /\ Lists(SubSeq(l, 2, Len(l)), S \ {l[1]})
  <1>1. l \in Seq(Blocks) /\ Len(l) \in Nat \ {0}
    BY EmptySeq DEF Lists
  <1>2. 1 \in 1..Len(l) /\ l[1] \in S
    BY <1>1, ListsAt DEF Lists
  <1>3. Lists(RemoveAt(l, 1), S \ {l[1]})
    BY <1>2, ListsRemove
  <1>4. RemoveAt(l, 1) = SubSeq(l, 2, Len(l))
    <2>1. SubSeq(l, 1, 0) = <<>>
      BY SubSeqEmpty
    <2>2. \A i \in 2..Len(l) : l[i] \in Blocks
      BY <1>1, ListsAt
    <2>3. SubSeq(l, 2, Len(l)) \in Seq(Blocks)
      BY <1>1, <2>2, SubSeqProperties
    <2>4. <<>> \o SubSeq(l, 2, Len(l)) = SubSeq(l, 2, Len(l))
      BY <2>3, ConcatEmptySeq
    <2>5. RemoveAt(l, 1) = SubSeq(l, 1, 0) \o SubSeq(l, 2, Len(l))
      BY <1>1 DEF RemoveAt
    <2> QED BY <2>1, <2>4, <2>5
  <1>5. Len(l) >= 1
    BY <1>1
  <1>6. Lists(SubSeq(l, 2, Len(l)), S \ {l[1]})
    BY <1>3, <1>4, Zenon
  <1> QED BY <1>2, <1>5, <1>6

\* BlockCache::drop_from: the queue loses the blocks that the map loses.
LEMMA ListsRetain ==
  ASSUME NEW l, NEW S, Lists(l, S), NEW end \in Nat
  PROVE  Lists(RetainBelow(l, end), {x \in S : x < end})
  <1> DEFINE n == Len(l)
             h == [p \in (1..n) \X Seq(Blocks) |->
                     IF l[p[1]] < end THEN Append(p[2], l[p[1]]) ELSE p[2]]
             Body(g, i) == IF i = 0 THEN <<>>
                           ELSE IF l[i] < end THEN Append(g[i - 1], l[i]) ELSE g[i - 1]
             IsKept(g) == g = [i \in 0..n |-> Body(g, i)]
             kept == CHOOSE g : IsKept(g)
  <1>1. n \in Nat /\ l \in Seq(Blocks) /\ DOMAIN l = 1..n /\ \A i \in 1..n : l[i] \in Blocks
    BY ListsAt DEF Lists
  <1>2. h \in [(1..n) \X Seq(Blocks) -> Seq(Blocks)]
    <2>1. ASSUME NEW i \in 1..n, NEW s \in Seq(Blocks) PROVE Append(s, l[i]) \in Seq(Blocks)
      BY <1>1, AppendProperties
    <2> QED BY <2>1
  <1>3. PICK g \in [0..n -> Seq(Blocks)] :
          g[0] = <<>> /\ \A i \in 1..n : g[i] = h[<<i, g[i - 1]>>]
    <2> DEFINE e == <<>>
               T == Seq(Blocks)
    <2> HIDE DEF h
    <2>1. e \in T
      BY EmptySeq
    <2> HIDE DEF e
    <2>2. n \in Nat /\ h \in StepFunctions(n, T)
      BY <1>1, <1>2 DEF StepFunctions
    <2> HIDE DEF n, T
    <2>3. \E g : IsRecursion(g, n, T, e, h)
      BY <2>1, <2>2, RecursionExists
    <2> QED BY <2>3 DEF IsRecursion, e, T
  <1>4. \A i \in 1..n : g[i] = IF l[i] < end THEN Append(g[i - 1], l[i]) ELSE g[i - 1]
    <2> SUFFICES ASSUME NEW i \in 1..n
                 PROVE  g[i] = IF l[i] < end THEN Append(g[i - 1], l[i]) ELSE g[i - 1]
      OBVIOUS
    <2>1. i - 1 \in 0..n /\ g[i - 1] \in Seq(Blocks)
      BY <1>1
    <2> QED BY <1>3, <2>1
  <1>5. IsKept(g)
    <2>1. ASSUME NEW i \in 0..n PROVE g[i] = Body(g, i)
      <3>1. CASE i = 0
        BY <1>3, <3>1
      <3>2. CASE i # 0
        <4>1. i \in 1..n
          BY <1>1, <3>2
        <4> QED BY <1>4, <3>2, <4>1
      <3> QED BY <3>1, <3>2
    <2> HIDE DEF Body
    <2> QED BY <2>1
  <1>6. IsKept(kept)
    <2> HIDE DEF IsKept
    <2> QED BY <1>5
  <1>7. RetainBelow(l, end) = kept[n]
    BY DEF RetainBelow
  <1>8. kept[0] = <<>>
        /\ \A i \in 1..n : kept[i] = IF l[i] < end THEN Append(kept[i - 1], l[i]) ELSE kept[i - 1]
    <2> HIDE DEF kept
    <2>1. \A i \in 0..n : kept[i] = Body(kept, i)
      <3> HIDE DEF Body
      <3> QED BY <1>6
    <2>2. ASSUME NEW i \in 1..n
          PROVE  kept[i] = IF l[i] < end THEN Append(kept[i - 1], l[i]) ELSE kept[i - 1]
      <3>1. i \in 0..n /\ i # 0
        BY <1>1
      <3> QED BY <2>1, <3>1
    <2>3. 0 \in 0..n
      BY <1>1
    <2> QED BY <2>1, <2>2, <2>3
  <1> DEFINE Part(i) == {x \in Blocks : x < end /\ \E j \in 1..i : l[j] = x}
             P == {i \in Nat : i <= n => Lists(kept[i], Part(i))}
  <1> HIDE DEF kept
  <1>9. 0 \in P
    <2>1. Part(0) = {}
      OBVIOUS
    <2>2. Lists(<<>>, {})
      BY EmptySeq DEF Lists, Range, IsInjective
    <2> QED BY <1>8, <2>1, <2>2
  <1>10. ASSUME NEW i \in Nat, i \in P PROVE i + 1 \in P
    <2> SUFFICES ASSUME i + 1 <= n PROVE Lists(kept[i + 1], Part(i + 1))
      OBVIOUS
    <2>1. i + 1 \in 1..n /\ (i + 1) - 1 = i /\ i <= n
      BY <1>1
    <2>2. Lists(kept[i], Part(i))
      BY <1>10, <2>1
    <2>3. kept[i + 1] = IF l[i + 1] < end THEN Append(kept[i], l[i + 1]) ELSE kept[i]
      BY <1>8, <2>1
    <2>4. \A j : j \in 1..(i + 1) <=> j \in 1..i \/ j = i + 1
      OBVIOUS
    <2>5. CASE l[i + 1] < end
      <3>1. l[i + 1] \in Blocks \ Part(i)
        <4>1. \A j \in 1..i : j \in 1..n /\ j # i + 1
          BY <1>1, <2>1
        <4>2. \A j \in 1..i : l[j] # l[i + 1]
          BY <1>1, <2>1, <4>1 DEF Lists, IsInjective
        <4> QED BY <1>1, <2>1, <4>2
      <3>2. Part(i + 1) = Part(i) \cup {l[i + 1]}
        BY <2>4, <2>5, <3>1
      <3>3. kept[i + 1] = Append(kept[i], l[i + 1])
        BY <2>3, <2>5
      <3> HIDE DEF Part
      <3> QED BY <2>2, <3>1, <3>2, <3>3, ListsAppend
    <2>6. CASE ~ (l[i + 1] < end)
      <3>1. Part(i + 1) = Part(i)
        BY <2>4, <2>6
      <3> QED BY <2>2, <2>3, <2>6, <3>1
    <2> QED BY <2>5, <2>6
  <1>11. n \in P
    <2> HIDE DEF P
    <2> QED BY <1>1, <1>9, <1>10, NatInduct
  <1>12. Part(n) = {x \in S : x < end}
    <2>1. \A x : x \in S <=> \E i \in 1..n : l[i] = x
      BY ListsAt DEF Lists
    <2> QED BY <1>1, <2>1
  <1>13. n <= n
    BY <1>1
  <1> HIDE DEF Part
  <1>14. Lists(kept[n], Part(n))
    BY <1>11, <1>13
  <1> HIDE DEF n
  <1> QED BY <1>7, <1>12, <1>14

-----------------------------------------------------------------------------
(* A state of the cache and the image. *)

IsPack(c) == DOMAIN c = {"map", "lru", "img", "len"}

\* Types, the queue in step with the map, zeros past the end of the image.
Good(c) ==
  /\ IsPack(c)
  /\ DOMAIN c.map \subseteq Blocks
  /\ c.map \in [DOMAIN c.map -> Entries]
  /\ Lists(c.lru, DOMAIN c.map)
  /\ c.img \in [Blocks -> Data]
  /\ c.len \in Nat
  /\ \A b \in Blocks : b >= c.len => c.img[b] = Zero

\* A clean entry is a copy of the image, unless its contents were given up (J).
Agrees(c, J) ==
  \A b \in DOMAIN c.map : ~ c.map[b].dirty /\ b \notin J => c.map[b].data = c.img[b]

\* Nothing waits to be written over the snapshot at a.
CleanAt(c, a) == a \in DOMAIN c.map => ~ c.map[a].dirty

Within(c) == Cardinality(DOMAIN c.map) <= Capacity

Sound(c, J, a) == Good(c) /\ Within(c) /\ Agrees(c, J) /\ CleanAt(c, a)

ViewOf(c, b) == IF b \in DOMAIN c.map THEN c.map[b].data ELSE c.img[b]

\* What a step from c to d leaves alone, the block x aside: what readers see,
\* the snapshot, and the contents of what leaves the cache.
Keeps(c, d, J, a, x) ==
  /\ \A b \in Blocks \ (J \cup {x}) : ViewOf(d, b) = ViewOf(c, b)
  /\ a \in Blocks => d.img[a] = c.img[a]
  /\ c.len <= d.len
  /\ \A b \in DOMAIN c.map :
       c.map[b].dirty /\ b \notin DOMAIN d.map => d.img[b] = c.map[b].data

LEMMA FiniteMaps ==
  ASSUME NEW D \in SUBSET Blocks
  PROVE  IsFiniteSet(D) /\ Cardinality(D) \in Nat
  <1>1. IsFiniteSet(Blocks)
    BY BlockCacheAssumption, FS_Interval DEF Blocks
  <1> QED BY <1>1, FS_Subset, FS_CardinalityType

LEMMA BlocksNat == Blocks \subseteq Nat
  BY BlockCacheAssumption DEF Blocks

\* Image::grow_to reaches block b and never shortens the file.
LEMMA GrowToCovers ==
  ASSUME NEW n \in Nat, NEW b \in Nat
  PROVE  GrowTo(n, b + 1) \in Nat /\ GrowTo(n, b + 1) >= n /\ GrowTo(n, b + 1) > b
  <1> DEFINE need == b + 1
  <1>1. need \in Nat /\ need > b
    OBVIOUS
  <1> HIDE DEF need
  <1>2. /\ ((need + GrowStep - 1) \div GrowStep) * GrowStep \in Nat
        /\ ((need + GrowStep - 1) \div GrowStep) * GrowStep >= need
    BY <1>1, GrowStepAssumption, RoundUp
  <1> DEFINE r == ((need + GrowStep - 1) \div GrowStep) * GrowStep
  <1>3. GrowTo(n, need) = IF need <= n THEN n ELSE r
    BY DEF GrowTo
  <1> HIDE DEF r
  <1>4. r \in Nat /\ r >= need
    BY <1>2 DEF r
  <1>5. GrowTo(n, need) \in Nat /\ GrowTo(n, need) >= n /\ GrowTo(n, need) >= need
    BY <1>1, <1>3, <1>4
  <1> QED BY <1>1, <1>5 DEF need

LEMMA WriteBlockIs ==
  ASSUME NEW c, IsPack(c), NEW b, NEW v
  PROVE  LET w == WriteBlock(c, b, v) IN
         /\ IsPack(w) /\ w.map = c.map /\ w.lru = c.lru
         /\ w.img = [c.img EXCEPT ![b] = v] /\ w.len = GrowTo(c.len, b + 1)
  BY DEF WriteBlock, IsPack

LEMMA UnmappedIs ==
  ASSUME NEW c, IsPack(c), NEW k
  PROVE  LET w == Unmapped(c, k) IN
         /\ IsPack(w) /\ w.map = Drop(c.map, {c.lru[k]})
         /\ w.lru = SubSeq(c.lru, k + 1, Len(c.lru))
         /\ w.img = c.img /\ w.len = c.len
  BY DEF Unmapped, IsPack

LEMMA WriteBlockGood ==
  ASSUME NEW c, Good(c), NEW b \in Blocks, NEW v \in Data
  PROVE  LET w == WriteBlock(c, b, v) IN
         /\ Good(w)
         /\ w.map = c.map /\ w.lru = c.lru
         /\ w.img = [c.img EXCEPT ![b] = v]
         /\ w.len >= c.len /\ w.len > b
  <1> DEFINE w == WriteBlock(c, b, v)
             n == GrowTo(c.len, b + 1)
  <1>1. n \in Nat /\ n >= c.len /\ n > b
    BY GrowToCovers, BlocksNat DEF Good
  <1> HIDE DEF n
  <1>3. /\ IsPack(w) /\ w.map = c.map /\ w.lru = c.lru
        /\ w.img = [c.img EXCEPT ![b] = v] /\ w.len = n
    BY WriteBlockIs DEF Good, n
  <1> HIDE DEF w
  <1>4. w.img \in [Blocks -> Data]
    BY <1>3 DEF Good
  <1>5. \A x \in Blocks : x >= w.len => w.img[x] = Zero
    BY <1>1, <1>3, BlocksNat DEF Good
  <1>7. Good(w)
    BY <1>1, <1>3, <1>4, <1>5 DEF Good
  <1> QED BY <1>1, <1>3, <1>7 DEF w

\* BlockCache::evict_one on a cache that is not empty: a block goes, its
\* contents do not.
LEMMA EvictedSound ==
  ASSUME NEW c, NEW J, NEW a, Sound(c, J, a), DOMAIN c.map # {}, NEW d \in Evicted(c)
  PROVE  /\ Sound(d, J, a) /\ Keeps(c, d, J, a, NoBlock)
         /\ Cardinality(DOMAIN d.map) < Capacity
         /\ DOMAIN d.map \subseteq DOMAIN c.map
         /\ \A x \in DOMAIN d.map : d.map[x] = c.map[x]
  <1> USE DEF Sound
  <1>1. c.lru # <<>>
    BY DEF Good, Lists, Range
  <1>2. /\ Len(c.lru) >= 1 /\ c.lru[1] \in DOMAIN c.map
        /\ Lists(SubSeq(c.lru, 2, Len(c.lru)), DOMAIN c.map \ {c.lru[1]})
    BY <1>1, ListsPop DEF Good
  <1>3. Len(c.lru) \in Nat
    BY ListsAt DEF Good, Lists
  <1>4. Victims(c) = {1}
    <2>1. 1 \in Victims(c)
      BY <1>2, <1>3 DEF Victims
    <2>2. ASSUME NEW i \in Victims(c) PROVE i = 1
      <3>1. i \in 1..Len(c.lru) /\ \A j \in 1..(i - 1) : c.lru[j] \notin DOMAIN c.map
        BY <2>2 DEF Victims
      <3>2. 1 \notin 1..(i - 1)
        BY <1>2, <3>1
      <3> QED BY <1>3, <3>1, <3>2
    <2> QED BY <2>1, <2>2
  <1> DEFINE v == c.lru[1]
             u == Unmapped(c, 1)
  <1>5. v \in DOMAIN c.map /\ v \in Blocks /\ c.map[v].data \in Data /\ c.map[v].dirty \in BOOLEAN
    BY <1>2 DEF Good, Entries
  <1>7. /\ IsPack(u)
        /\ u.map = [x \in DOMAIN c.map \ {v} |-> c.map[x]]
        /\ u.lru = SubSeq(c.lru, 2, Len(c.lru))
        /\ u.img = c.img /\ u.len = c.len
    <2>1. /\ IsPack(u) /\ u.map = Drop(c.map, {v}) /\ u.lru = SubSeq(c.lru, 1 + 1, Len(c.lru))
          /\ u.img = c.img /\ u.len = c.len
      BY UnmappedIs DEF Good
    <2>2. 1 + 1 = 2
      OBVIOUS
    <2> HIDE DEF u, v
    <2> QED BY <2>1, <2>2 DEF Drop
  <1>8. d = IF c.map[v].dirty THEN WriteBlock(u, v, c.map[v].data) ELSE u
    BY <1>4 DEF Evicted
  <1>9. Lists(u.lru, DOMAIN c.map \ {v})
    BY <1>2, <1>7
  <1> HIDE DEF u, v
  <1>10. DOMAIN u.map = DOMAIN c.map \ {v} /\ \A x \in DOMAIN u.map : u.map[x] = c.map[x]
    BY <1>7
  <1>11. Good(u)
    <2>1. u.map \in [DOMAIN u.map -> Entries]
      BY <1>7, <1>10 DEF Good
    <2> QED BY <1>7, <1>9, <1>10, <2>1 DEF Good
  <1>12. /\ Good(d) /\ d.map = u.map /\ d.len >= c.len
         /\ d.img \in [Blocks -> Data]
         /\ d.img[v] = IF c.map[v].dirty THEN c.map[v].data ELSE c.img[v]
         /\ \A x \in Blocks \ {v} : d.img[x] = c.img[x]
    <2>1. CASE c.map[v].dirty
      <3>1. d = WriteBlock(u, v, c.map[v].data)
        BY <1>8, <2>1
      <3>2. /\ Good(d) /\ d.map = u.map /\ d.img = [u.img EXCEPT ![v] = c.map[v].data]
            /\ d.len >= u.len
        BY <1>5, <1>11, <3>1, WriteBlockGood
      <3> QED BY <1>5, <1>7, <2>1, <3>2 DEF Good
    <2>2. CASE ~ c.map[v].dirty
      <3>1. d = u
        BY <1>8, <2>2
      <3>2. u.len >= c.len
        BY <1>7 DEF Good
      <3> QED BY <1>7, <1>11, <2>2, <3>1, <3>2 DEF Good
    <2> QED BY <2>1, <2>2
  <1>13. Cardinality(DOMAIN d.map) < Capacity
    <2>1. Cardinality(DOMAIN c.map \ {v}) = Cardinality(DOMAIN c.map) - 1
      BY <1>5, FiniteMaps, FS_RemoveElement DEF Good
    <2>2. DOMAIN d.map = DOMAIN c.map \ {v}
      BY <1>10, <1>12
    <2>3. Cardinality(DOMAIN c.map) \in Nat /\ Cardinality(DOMAIN c.map) <= Capacity
      BY FiniteMaps DEF Good, Within
    <2> QED BY <2>1, <2>2, <2>3, BlockCacheAssumption
  <1>14. Within(d)
    BY <1>12, <1>13, FiniteMaps, BlockCacheAssumption DEF Within, Good
  <1>15. Agrees(d, J)
    BY <1>10, <1>12 DEF Agrees, Good
  <1>16. CleanAt(d, a)
    BY <1>10, <1>12 DEF CleanAt
  <1>17. Keeps(c, d, J, a, NoBlock)
    <2>1. ASSUME NEW b \in Blocks \ (J \cup {NoBlock}) PROVE ViewOf(d, b) = ViewOf(c, b)
      <3>1. CASE b = v
        BY <1>5, <1>10, <1>12, <3>1 DEF ViewOf, Agrees
      <3>2. CASE b # v
        BY <1>10, <1>12, <3>2 DEF ViewOf
      <3> QED BY <3>1, <3>2
    <2>2. a \in Blocks => d.img[a] = c.img[a]
      BY <1>5, <1>12 DEF CleanAt
    <2>3. ASSUME NEW b \in DOMAIN c.map, c.map[b].dirty, b \notin DOMAIN d.map
          PROVE  d.img[b] = c.map[b].data
      BY <1>10, <1>12, <2>3
    <2> QED BY <1>12, <2>1, <2>2, <2>3 DEF Keeps
  <1> QED BY <1>10, <1>12, <1>13, <1>14, <1>15, <1>16, <1>17

HasRoom(c, b) == b \in DOMAIN c.map \/ Cardinality(DOMAIN c.map) < Capacity

\* The room that get and insert_dirty make.
LEMMA WithRoomSound ==
  ASSUME NEW c, NEW J, NEW a, Sound(c, J, a), NEW b, NEW d \in WithRoom(c, b)
  PROVE  Sound(d, J, a) /\ Keeps(c, d, J, a, NoBlock) /\ HasRoom(d, b)
  <1>1. CASE b \in DOMAIN c.map \/ ~ Full(c)
    <2>1. d = c
      BY <1>1 DEF WithRoom
    <2>2. Cardinality(DOMAIN c.map) \in Nat
      BY FiniteMaps DEF Sound, Good
    <2>3. c.len <= c.len
      BY DEF Sound, Good
    <2> QED BY <1>1, <2>1, <2>2, <2>3, BlockCacheAssumption DEF Keeps, HasRoom, Full
  <1>2. CASE ~ (b \in DOMAIN c.map \/ ~ Full(c))
    <2>1. DOMAIN c.map # {}
      <3> SUFFICES ASSUME DOMAIN c.map = {} PROVE FALSE
        OBVIOUS
      <3>1. Cardinality(DOMAIN c.map) = 0
        BY FS_EmptySet
      <3> QED BY <1>2, <3>1, BlockCacheAssumption DEF Full
    <2>2. d \in Evicted(c)
      BY <1>2 DEF WithRoom
    <2> QED BY <2>1, <2>2, EvictedSound DEF HasRoom
  <1> QED BY <1>1, <1>2

\* An entry e for block b comes in or changes.  J2 is what is given up after
\* it: a block that was written is not given up any more.
PutStep(c, d, b, e, J, J2, a) ==
  /\ b \in Blocks /\ e \in Entries
  /\ Sound(c, J, a) /\ HasRoom(c, b) /\ J \ {b} \subseteq J2
  /\ IsPack(d) /\ d.map = Put(c.map, b, e) /\ Lists(d.lru, DOMAIN c.map \cup {b})
  /\ d.img = c.img /\ d.len \in Nat /\ d.len >= c.len
  /\ e.dirty => b # a
  /\ ~ e.dirty => b \in J2 \/ e.data = c.img[b]

LEMMA PutSound ==
  ASSUME NEW c, NEW d, NEW b, NEW e, NEW J, NEW J2, NEW a, PutStep(c, d, b, e, J, J2, a)
  PROVE  /\ Sound(d, J2, a) /\ Keeps(c, d, J, a, b)
         /\ DOMAIN d.map = DOMAIN c.map \cup {b} /\ d.map[b] = e
  <1> USE DEF Sound, PutStep
  <1>1. /\ DOMAIN d.map = DOMAIN c.map \cup {b}
        /\ d.map[b] = e
        /\ \A x \in DOMAIN c.map \ {b} : d.map[x] = c.map[x]
    BY DEF Put
  <1>2. Good(d)
    <2>1. DOMAIN d.map \subseteq Blocks
      BY <1>1 DEF Good
    <2>2. d.map \in [DOMAIN d.map -> Entries]
      <3>1. \A x \in DOMAIN d.map : d.map[x] \in Entries
        BY <1>1 DEF Good
      <3> QED BY <3>1 DEF Put
    <2>3. \A x \in Blocks : x >= d.len => d.img[x] = Zero
      BY BlocksNat DEF Good
    <2> QED BY <1>1, <2>1, <2>2, <2>3 DEF Good
  <1>3. Within(d)
    <2>1. IsFiniteSet(DOMAIN c.map) /\ Cardinality(DOMAIN c.map) \in Nat
      BY FiniteMaps DEF Good
    <2>2. Cardinality(DOMAIN c.map \cup {b})
            = IF b \in DOMAIN c.map THEN Cardinality(DOMAIN c.map)
              ELSE Cardinality(DOMAIN c.map) + 1
      BY <2>1, FS_AddElement
    <2> QED BY <1>1, <2>1, <2>2, BlockCacheAssumption DEF Within, HasRoom
  <1>4. Agrees(d, J2)
    <2> SUFFICES ASSUME NEW x \in DOMAIN d.map, ~ d.map[x].dirty, x \notin J2
                 PROVE  d.map[x].data = d.img[x]
      BY DEF Agrees
    <2>1. CASE x = b
      BY <1>1, <2>1
    <2>2. CASE x # b
      BY <1>1, <2>2 DEF Agrees
    <2> QED BY <2>1, <2>2
  <1>5. CleanAt(d, a)
    BY <1>1 DEF CleanAt
  <1>6. Keeps(c, d, J, a, b)
    <2>1. \A x \in Blocks \ (J \cup {b}) : ViewOf(d, x) = ViewOf(c, x)
      BY <1>1 DEF ViewOf
    <2>2. c.len <= d.len
      BY DEF Good
    <2> QED BY <1>1, <2>1, <2>2 DEF Keeps
  <1> QED BY <1>1, <1>2, <1>3, <1>4, <1>5, <1>6

\* BlockCache::get: what it returns is what was there.
LEMMA LoadedSound ==
  ASSUME NEW c, NEW J, NEW a, Sound(c, J, a), NEW b \in Blocks, HasRoom(c, b)
  PROVE  LET d == Loaded(c, b) IN
         /\ Sound(d, J, a) /\ Keeps(c, d, J, a, NoBlock)
         /\ b \in DOMAIN d.map /\ DOMAIN c.map \subseteq DOMAIN d.map
         /\ d.img = c.img
  <1> DEFINE d == Loaded(c, b)
             l == Touch(c.lru, b)
  <1>1. Lists(l, DOMAIN c.map \cup {b})
    BY ListsTouch DEF Sound, Good
  <1> HIDE DEF l
  <1>2. CASE b \in DOMAIN c.map
    <2>1. /\ IsPack(d) /\ d.map = c.map /\ d.lru = l /\ d.img = c.img /\ d.len = c.len
      BY <1>2 DEF Loaded, Sound, Good, IsPack, l
    <2>2. DOMAIN c.map \cup {b} = DOMAIN c.map
      BY <1>2
    <2> HIDE DEF d
    <2>3. Good(d)
      BY <1>1, <2>1, <2>2 DEF Sound, Good
    <2>4. c.len <= d.len
      BY <2>1 DEF Sound, Good
    <2>5. Within(d) /\ Agrees(d, J) /\ CleanAt(d, a)
      BY <2>1 DEF Sound, Within, Agrees, CleanAt
    <2>6. Keeps(c, d, J, a, NoBlock)
      BY <2>1, <2>4 DEF Keeps, ViewOf
    <2>7. Sound(d, J, a)
      BY <2>3, <2>5 DEF Sound
    <2> QED BY <1>2, <2>1, <2>6, <2>7 DEF d
  <1>3. CASE b \notin DOMAIN c.map
    <2> DEFINE n == IF b < c.len THEN c.len ELSE GrowTo(c.len, b + 1)
               e == [data |-> IF b < c.len THEN c.img[b] ELSE Zero, dirty |-> FALSE]
    <2>0. c.len \in Nat /\ b \in Nat
      BY BlocksNat DEF Sound, Good
    <2>1. n \in Nat /\ n >= c.len
      <3> DEFINE g == GrowTo(c.len, b + 1)
      <3>1. g \in Nat /\ g >= c.len
        BY <2>0, GrowToCovers
      <3> HIDE DEF g
      <3>2. n = IF b < c.len THEN c.len ELSE g
        BY DEF g
      <3> HIDE DEF n
      <3> QED BY <2>0, <3>1, <3>2
    <2>2. e.data = c.img[b] /\ ~ e.dirty
      BY BlocksNat DEF Sound, Good
    <2>3. e \in Entries
      BY DEF Sound, Good, Entries, Data
    <2>4. IsPack(d) /\ d.map = Put(c.map, b, e) /\ d.lru = l /\ d.img = c.img /\ d.len = n
      BY <1>3 DEF Loaded, Sound, Good, IsPack, l
    <2> HIDE DEF d, n, e
    <2>5. /\ J \ {b} \subseteq J /\ Lists(d.lru, DOMAIN c.map \cup {b})
          /\ d.len \in Nat /\ d.len >= c.len
          /\ (e.dirty => b # a) /\ (~ e.dirty => b \in J \/ e.data = c.img[b])
      BY <1>1, <2>1, <2>2, <2>4
    <2>6. /\ Sound(d, J, a) /\ Keeps(c, d, J, a, b)
          /\ DOMAIN d.map = DOMAIN c.map \cup {b} /\ d.map[b] = e
      <3>1. PutStep(c, d, b, e, J, J, a)
        BY <2>3, <2>4, <2>5 DEF PutStep
      <3> QED BY <3>1, PutSound
    <2>7. ViewOf(d, b) = ViewOf(c, b)
      BY <1>3, <2>2, <2>6 DEF ViewOf
    <2>8. Keeps(c, d, J, a, NoBlock)
      BY <2>6, <2>7 DEF Keeps
    <2> QED BY <2>4, <2>6, <2>8 DEF d
  <1> QED BY <1>2, <1>3

\* Making room, then a step that only adds to the map.
LEMMA KeepsThen ==
  ASSUME NEW c, NEW d, NEW f, NEW J, NEW a, NEW x,
         Sound(c, J, a), Sound(d, J, a), Good(f), Keeps(c, d, J, a, NoBlock), Keeps(d, f, J, a, x),
         f.img = d.img, DOMAIN d.map \subseteq DOMAIN f.map
  PROVE  Keeps(c, f, J, a, x)
  <1>1. \A b \in Blocks \ (J \cup {x}) : ViewOf(f, b) = ViewOf(c, b)
    BY BlockCacheAssumption DEF Keeps
  <1>2. c.len <= f.len
    BY DEF Keeps, Sound, Good
  <1>3. \A b \in DOMAIN c.map :
          c.map[b].dirty /\ b \notin DOMAIN f.map => f.img[b] = c.map[b].data
    BY DEF Keeps
  <1>4. a \in Blocks => f.img[a] = c.img[a]
    BY DEF Keeps
  <1> QED BY <1>1, <1>2, <1>3, <1>4 DEF Keeps

WrittenEntry(v) == [data |-> v, dirty |-> TRUE]

LEMMA WrittenEntryIs ==
  ASSUME NEW v \in Values
  PROVE  WrittenEntry(v) \in Entries /\ WrittenEntry(v).dirty /\ WrittenEntry(v).data = v
  BY DEF WrittenEntry, Entries, Data

\* A block that is in the cache is written through get_mut's reference.
MutOf(d, b, v) == [d EXCEPT !.map = Put(d.map, b, [data |-> v, dirty |-> TRUE])]

LEMMA MutSound ==
  ASSUME NEW c, NEW J, NEW a, Sound(c, J, a), NEW b \in Blocks, b # a, NEW v \in Values,
         b \in DOMAIN c.map
  PROVE  LET f == MutOf(c, b, v) IN
         /\ Sound(f, J \ {b}, a) /\ Keeps(c, f, J, a, b) /\ ViewOf(f, b) = v
         /\ f.img = c.img /\ DOMAIN f.map = DOMAIN c.map
  <1> DEFINE f == MutOf(c, b, v)
             e == WrittenEntry(v)
  <1>1. IsPack(f) /\ f.map = Put(c.map, b, e) /\ f.lru = c.lru /\ f.img = c.img /\ f.len = c.len
    BY DEF MutOf, WrittenEntry, Sound, Good, IsPack
  <1>2. e \in Entries /\ e.dirty /\ e.data = v
    BY WrittenEntryIs
  <1> HIDE DEF f, e
  <1>3. DOMAIN c.map \cup {b} = DOMAIN c.map
    OBVIOUS
  <1>4. Lists(f.lru, DOMAIN c.map \cup {b}) /\ f.len \in Nat /\ f.len >= c.len
    BY <1>1, <1>3 DEF Sound, Good
  <1>5. PutStep(c, f, b, e, J, J \ {b}, a)
    BY <1>1, <1>2, <1>4 DEF PutStep, HasRoom
  <1>6. /\ Sound(f, J \ {b}, a) /\ Keeps(c, f, J, a, b)
        /\ DOMAIN f.map = DOMAIN c.map \cup {b} /\ f.map[b] = e
    BY <1>5, PutSound
  <1>7. ViewOf(f, b) = v
    BY <1>2, <1>6 DEF ViewOf
  <1> QED BY <1>1, <1>3, <1>6, <1>7 DEF f

\* BlockCache::insert_dirty.
LEMMA StoredSound ==
  ASSUME NEW c, NEW J, NEW a, Sound(c, J, a), NEW b \in Blocks, b # a, NEW v \in Values,
         HasRoom(c, b)
  PROVE  LET f == Stored(c, b, v) IN
         /\ Sound(f, J \ {b}, a) /\ Keeps(c, f, J, a, b) /\ ViewOf(f, b) = v
         /\ f.img = c.img /\ DOMAIN c.map \subseteq DOMAIN f.map
  <1> DEFINE f == Stored(c, b, v)
             e == WrittenEntry(v)
             l == Touch(c.lru, b)
  <1>0. Lists(l, DOMAIN c.map \cup {b})
    BY ListsTouch DEF Sound, Good
  <1>1. IsPack(f) /\ f.map = Put(c.map, b, e) /\ f.lru = l /\ f.img = c.img /\ f.len = c.len
    BY DEF Stored, WrittenEntry, Sound, Good, IsPack
  <1>2. e \in Entries /\ e.dirty /\ e.data = v
    BY WrittenEntryIs
  <1> HIDE DEF f, e, l
  <1>4. Lists(f.lru, DOMAIN c.map \cup {b}) /\ f.len \in Nat /\ f.len >= c.len
    BY <1>0, <1>1 DEF Sound, Good
  <1>5. PutStep(c, f, b, e, J, J \ {b}, a)
    BY <1>1, <1>2, <1>4 DEF PutStep
  <1>6. /\ Sound(f, J \ {b}, a) /\ Keeps(c, f, J, a, b)
        /\ DOMAIN f.map = DOMAIN c.map \cup {b} /\ f.map[b] = e
    BY <1>5, PutSound
  <1>7. ViewOf(f, b) = v
    BY <1>2, <1>6 DEF ViewOf
  <1> QED BY <1>1, <1>6, <1>7 DEF f

\* The file reaches past everything a flush wrote.
LEMMA FlushLensCover ==
  ASSUME NEW c, c.len \in Nat, NEW W \in SUBSET Blocks, NEW n \in FlushLens(c, W)
  PROVE  n \in Nat /\ n >= c.len /\ \A b \in W : b < n
  <1>1. CASE W = {}
    BY <1>1 DEF FlushLens
  <1>2. CASE W # {}
    <2>1. PICK x \in W : n = GrowTo(c.len, x + 1) /\ \A y \in W : y <= x
      BY <1>2 DEF FlushLens
    <2>2. x \in Nat /\ \A b \in W : b \in Nat
      BY BlocksNat
    <2>3. n \in Nat /\ n >= c.len /\ n > x
      BY <2>1, <2>2, GrowToCovers
    <2> QED BY <2>1, <2>2, <2>3
  <1> QED BY <1>1, <1>2

\* The cache after a flush that wrote the blocks of W.
Flushed(c, W, n) == [FlushedTo(c, W) EXCEPT !.len = n]

LEMMA FlushedSound ==
  ASSUME NEW c, NEW J, NEW a, Sound(c, J, a), NEW W \in SUBSET Dirty(c), NEW n \in FlushLens(c, W)
  PROVE  LET d == Flushed(c, W, n) IN
         /\ Sound(d, J, a) /\ Keeps(c, d, J, a, NoBlock)
         /\ DOMAIN d.map = DOMAIN c.map /\ d.lru = c.lru
         /\ \A b \in DOMAIN c.map : d.map[b].data = c.map[b].data
         /\ \A b \in DOMAIN c.map : d.map[b].dirty <=> c.map[b].dirty /\ b \notin W
         /\ \A b \in W : d.img[b] = c.map[b].data
  <1> DEFINE d == Flushed(c, W, n)
             m == [x \in DOMAIN c.map |->
                     IF x \in W THEN [c.map[x] EXCEPT !.dirty = FALSE] ELSE c.map[x]]
             g == [b \in Blocks |-> IF b \in W THEN c.map[b].data ELSE c.img[b]]
  <1>1. IsPack(d) /\ d.map = m /\ d.lru = c.lru /\ d.img = g /\ d.len = n
    BY DEF Flushed, FlushedTo, Sound, Good, IsPack
  <1>2. /\ DOMAIN c.map \subseteq Blocks /\ W \subseteq DOMAIN c.map
        /\ \A b \in W : c.map[b].dirty
        /\ \A b \in DOMAIN c.map : c.map[b] \in Entries
    BY DEF Sound, Good, Dirty
  <1>3. n \in Nat /\ n >= c.len /\ \A b \in W : b < n
    BY <1>2, FlushLensCover DEF Sound, Good
  <1>4. /\ DOMAIN m = DOMAIN c.map
        /\ \A b \in DOMAIN c.map : b \notin W => m[b] = c.map[b]
        /\ \A b \in W : m[b] \in Entries /\ ~ m[b].dirty /\ m[b].data = c.map[b].data
    BY <1>2 DEF Entries
  <1>5. g \in [Blocks -> Data]
    BY <1>2 DEF Sound, Good, Entries
  <1>6. (\A b \in W : g[b] = c.map[b].data) /\ \A b \in Blocks \ W : g[b] = c.img[b]
    BY <1>2
  <1>7. m \in [DOMAIN c.map -> Entries]
    BY <1>2 DEF Entries
  <1> HIDE DEF d, m, g
  <1>8. Good(d)
    <2>1. \A b \in Blocks : b >= d.len => d.img[b] = Zero
      <3> SUFFICES ASSUME NEW b \in Blocks, b >= n PROVE g[b] = Zero
        BY <1>1
      <3>1. b \notin W /\ b >= c.len
        BY <1>3, BlocksNat DEF Sound, Good
      <3> QED BY <1>6, <3>1 DEF Sound, Good
    <2> QED BY <1>1, <1>3, <1>4, <1>5, <1>7, <2>1 DEF Sound, Good
  <1>9. Within(d)
    BY <1>1, <1>4 DEF Within, Sound
  <1>10. \A b \in DOMAIN c.map : m[b].data = c.map[b].data
    BY <1>4
  <1>11. \A b \in DOMAIN c.map : m[b].dirty <=> c.map[b].dirty /\ b \notin W
    BY <1>2, <1>4
  <1>12. Agrees(d, J)
    <2> SUFFICES ASSUME NEW b \in DOMAIN c.map, ~ m[b].dirty, b \notin J PROVE m[b].data = g[b]
      BY <1>1, <1>4 DEF Agrees
    <2>1. CASE b \in W
      BY <1>6, <1>10, <2>1
    <2>2. CASE b \notin W
      BY <1>2, <1>6, <1>10, <1>11, <2>2 DEF Sound, Agrees
    <2> QED BY <2>1, <2>2
  <1>13. CleanAt(d, a)
    BY <1>1, <1>4, <1>11 DEF Sound, CleanAt
  <1>14. Keeps(c, d, J, a, NoBlock)
    <2>1. \A b \in Blocks : ViewOf(d, b) = ViewOf(c, b)
      BY <1>1, <1>2, <1>4, <1>6, <1>10 DEF ViewOf
    <2>2. a \in Blocks => d.img[a] = c.img[a]
      BY <1>1, <1>2, <1>6 DEF Sound, CleanAt
    <2>3. c.len <= d.len
      BY <1>1, <1>3 DEF Sound, Good
    <2> QED BY <1>1, <1>4, <2>1, <2>2, <2>3 DEF Keeps
  <1>15. Sound(d, J, a)
    BY <1>8, <1>9, <1>12, <1>13 DEF Sound
  <1> QED BY <1>1, <1>4, <1>6, <1>10, <1>11, <1>14, <1>15 DEF d

\* The state that CheckpointFrom reaches: the snapshot v is in block s of the
\* image, the cache and perhaps the file end at `end'.
CutFrom(c, s, v, end, cut) ==
  LET w == WriteBlock(c, s, v)
      n == IF cut THEN ShrinkTo(w.len, end) ELSE w.len IN
  Pack(Drop(w.map, {b \in Blocks : b >= end}),
       RetainBelow(w.lru, end),
       [b \in Blocks |-> IF b < n THEN w.img[b] ELSE Zero],
       n)

Beyond(end) == {b \in Blocks : b >= end}

\* What a checkpoint gives up: both places of the snapshot, the end of the file.
GivenUp(J, s, a, end) == J \cup ({s, a} \cap Blocks) \cup Beyond(end)

LEMMA CutSound ==
  ASSUME NEW c, NEW J, NEW a, Sound(c, J, a), \A b \in DOMAIN c.map : ~ c.map[b].dirty,
         NEW s \in Blocks, NEW v \in Values, NEW end \in 1..MaxBlocks, s < end,
         NEW cut \in BOOLEAN
  PROVE  LET r == CutFrom(c, s, v, end, cut)
             K == GivenUp(J, s, a, end) IN
         /\ Sound(r, K, s)
         /\ \A b \in Blocks \ K : ViewOf(r, b) = ViewOf(c, b)
         /\ r.img[s] = v /\ s < r.len
         /\ \A b \in DOMAIN c.map : b \notin DOMAIN r.map => b \in K
  <1> DEFINE w == WriteBlock(c, s, v)
             n == IF cut THEN ShrinkTo(w.len, end) ELSE w.len
             r == CutFrom(c, s, v, end, cut)
             K == GivenUp(J, s, a, end)
             m == Drop(w.map, Beyond(end))
             l == RetainBelow(w.lru, end)
             g == [b \in Blocks |-> IF b < n THEN w.img[b] ELSE Zero]
  <1>1. /\ Good(w) /\ w.map = c.map /\ w.lru = c.lru
        /\ w.img = [c.img EXCEPT ![s] = v] /\ w.len >= c.len /\ w.len > s
    <2>1. v \in Data
      BY DEF Data
    <2> QED BY <2>1, WriteBlockGood DEF Sound
  <1>2. r.map = m /\ r.lru = l /\ r.img = g /\ r.len = n /\ IsPack(r)
    BY DEF CutFrom, Pack, IsPack, Beyond
  <1> HIDE DEF w, r
  <1>3. end \in Nat /\ s \in Nat /\ w.len \in Nat
    BY <1>1, BlocksNat, BlockCacheAssumption DEF Good
  <1>4. n \in Nat /\ s < n /\ n <= w.len /\ (n = w.len \/ n = end)
    BY <1>1, <1>3 DEF ShrinkTo
  <1>5. /\ DOMAIN m = DOMAIN c.map \ Beyond(end)
        /\ \A b \in DOMAIN m : m[b] = c.map[b]
        /\ m \in [DOMAIN m -> Entries]
    BY <1>1 DEF Drop, Sound, Good
  <1>6. g \in [Blocks -> Data]
    BY <1>1 DEF Good, Data
  <1>7. /\ \A b \in Blocks : b >= n => g[b] = Zero
        /\ \A b \in Blocks : b < n => g[b] = w.img[b]
    BY <1>4, BlocksNat
  <1> HIDE DEF n
  <1>8. Lists(l, DOMAIN m)
    <2>1. Lists(w.lru, DOMAIN c.map)
      BY <1>1 DEF Good
    <2>2. Lists(l, {b \in DOMAIN c.map : b < end})
      BY <1>3, <2>1, ListsRetain
    <2> HIDE DEF l, m
    <2>3. {b \in DOMAIN c.map : b < end} = DOMAIN m
      BY <1>3, <1>5, BlocksNat DEF Beyond, Sound, Good
    <2> QED BY <2>2, <2>3
  <1> HIDE DEF m, l, g
  <1>9. Good(r)
    <2>1. DOMAIN r.map \subseteq Blocks
      BY <1>2, <1>5 DEF Sound, Good
    <2> QED BY <1>2, <1>4, <1>5, <1>6, <1>7, <1>8, <2>1 DEF Good
  <1>10. Within(r)
    <2>1. DOMAIN r.map \subseteq DOMAIN c.map /\ IsFiniteSet(DOMAIN c.map)
      BY <1>2, <1>5, FiniteMaps DEF Sound, Good
    <2>2. Cardinality(DOMAIN r.map) <= Cardinality(DOMAIN c.map)
      BY <2>1, FS_Subset
    <2>3. Cardinality(DOMAIN r.map) \in Nat /\ Cardinality(DOMAIN c.map) \in Nat
      BY <2>1, FiniteMaps DEF Sound, Good
    <2> QED BY <2>2, <2>3, BlockCacheAssumption DEF Within, Sound
  <1>11. \A b \in Blocks \ K : b # s /\ b < end /\ b \notin J
    BY <1>3, BlocksNat DEF GivenUp, Beyond
  <1>12. \A b \in Blocks \ K : g[b] = c.img[b]
    <2> SUFFICES ASSUME NEW b \in Blocks \ K PROVE g[b] = c.img[b]
      OBVIOUS
    <2>1. b # s /\ b < end /\ b \in Nat
      BY <1>11, BlocksNat
    <2>2. w.img[b] = c.img[b]
      BY <1>1, <2>1 DEF Sound, Good
    <2>3. CASE b < n
      BY <1>7, <2>2, <2>3
    <2>4. CASE ~ (b < n)
      <3>1. b >= n /\ b >= w.len
        BY <1>3, <1>4, <2>1, <2>4
      <3>2. w.img[b] = Zero
        BY <1>1, <3>1 DEF Good
      <3> QED BY <1>7, <2>2, <3>1, <3>2
    <2> QED BY <2>3, <2>4
  <1> HIDE DEF K
  <1>13. Agrees(r, K)
    <2> SUFFICES ASSUME NEW b \in DOMAIN m, b \notin K PROVE m[b].data = g[b]
      BY <1>2 DEF Agrees
    <2>1. b \in DOMAIN c.map /\ b \in Blocks /\ m[b] = c.map[b]
      BY <1>5 DEF Sound, Good
    <2>2. b \notin J /\ g[b] = c.img[b]
      BY <1>11, <1>12, <2>1
    <2> QED BY <2>1, <2>2 DEF Sound, Agrees
  <1>14. CleanAt(r, s)
    BY <1>2, <1>5 DEF CleanAt
  <1>15. \A b \in Blocks \ K : ViewOf(r, b) = ViewOf(c, b)
    <2> SUFFICES ASSUME NEW b \in Blocks \ K PROVE ViewOf(r, b) = ViewOf(c, b)
      OBVIOUS
    <2>1. b \notin Beyond(end)
      BY <1>3, <1>11, BlocksNat DEF Beyond
    <2> QED BY <1>2, <1>5, <1>12, <2>1 DEF ViewOf
  <1>16. r.img[s] = v /\ s < r.len
    BY <1>1, <1>2, <1>4, <1>7 DEF Sound, Good
  <1>17. \A b \in DOMAIN c.map : b \notin DOMAIN r.map => b \in K
    BY <1>2, <1>5 DEF K, GivenUp
  <1>18. Sound(r, K, s)
    BY <1>9, <1>10, <1>13, <1>14 DEF Sound
  <1> QED BY <1>15, <1>16, <1>17, <1>18 DEF r, K

-----------------------------------------------------------------------------
(* The invariant and the four kinds of step. *)

Inv ==
  /\ Sound(Here, junk, at)
  /\ at \in Blocks \cup {NoBlock}
  /\ saved \in Values \cup {Undef}
  /\ junk \subseteq Blocks
  /\ SnapshotIntact

\* Nothing changes for a reader.
Quiet ==
  /\ UNCHANGED <<at, saved, junk>>
  /\ Keeps(Here, Here', junk, at, NoBlock)

\* Block b holds v from now on.
Writes(b, v) ==
  /\ b # at
  /\ UNCHANGED <<at, saved>>
  /\ junk' = junk \ {b}
  /\ Keeps(Here, Here', junk, at, b)
  /\ ViewOf(Here', b) = v

\* The contents of block b, which were only in the cache, are lost.
Loses(b) ==
  /\ b # at
  /\ UNCHANGED <<at, saved>>
  /\ junk' = junk \cup {b}
  /\ \A x \in Blocks \ junk' : ViewOf(Here', x) = ViewOf(Here, x)
  /\ img' = img /\ len <= len'
  /\ \A x \in DOMAIN map : x \notin DOMAIN map' => x = b

\* The snapshot v goes to block s, the blocks of D are given up.
Saves(s, v, D) ==
  /\ at' = s
  /\ saved' = v
  /\ junk' = junk \cup ({s, at} \cap Blocks) \cup D
  /\ \A b \in Blocks \ junk' : ViewOf(Here', b) = ViewOf(Here, b)
  /\ Here'.img[s] = v /\ s < Here'.len
  /\ \A b \in DOMAIN Here.map : b \notin DOMAIN Here'.map => b \in junk'

SameFields(c, d) == d.map = c.map /\ d.lru = c.lru /\ d.img = c.img /\ d.len = c.len

LEMMA HereFields ==
  /\ IsPack(Here) /\ Here.map = map /\ Here.lru = lru /\ Here.img = img /\ Here.len = len
  /\ IsPack(Here') /\ Here'.map = map' /\ Here'.lru = lru' /\ Here'.img = img' /\ Here'.len = len'
  BY DEF Here, Pack, IsPack

LEMMA SameSound ==
  ASSUME NEW c, NEW d, SameFields(c, d), IsPack(d)
  PROVE  /\ \A J, a : Sound(c, J, a) => Sound(d, J, a)
         /\ \A e, J, a, x : Keeps(e, c, J, a, x) => Keeps(e, d, J, a, x)
         /\ \A b : ViewOf(c, b) = ViewOf(d, b)
  BY DEF SameFields, Sound, Good, Within, Agrees, CleanAt, Keeps, ViewOf

LEMMA BecomeSame ==
  ASSUME NEW c, Become(c)
  PROVE  SameFields(c, Here') /\ IsPack(Here')
  BY HereFields DEF Become, SameFields

LEMMA GetStep ==
  ASSUME Inv, NEW b \in Blocks, Get(b)
  PROVE  Sound(Here', junk', at') /\ Quiet
  <1>1. PICK c \in WithRoom(Here, b) : Become(Loaded(c, b))
    BY DEF Get
  <1>2. Sound(c, junk, at) /\ Keeps(Here, c, junk, at, NoBlock) /\ HasRoom(c, b)
    BY WithRoomSound DEF Inv
  <1> DEFINE d == Loaded(c, b)
  <1>3. /\ Sound(d, junk, at) /\ Keeps(c, d, junk, at, NoBlock)
        /\ DOMAIN c.map \subseteq DOMAIN d.map /\ d.img = c.img
    BY <1>2, LoadedSound
  <1>4. SameFields(d, Here') /\ IsPack(Here')
    BY <1>1, BecomeSame
  <1> HIDE DEF d
  <1>5. Keeps(Here, d, junk, at, NoBlock)
    BY <1>2, <1>3, KeepsThen DEF Inv, Sound
  <1>6. UNCHANGED <<at, saved, junk>>
    BY DEF Get
  <1> QED BY <1>3, <1>4, <1>5, <1>6, SameSound DEF Quiet

LEMMA GetFailsStep ==
  ASSUME Inv, NEW b \in Blocks, GetFails(b)
  PROVE  Sound(Here', junk', at') /\ Quiet
  <1>1. PICK c \in WithRoom(Here, b) : Become(c)
    BY DEF GetFails
  <1>2. Sound(c, junk, at) /\ Keeps(Here, c, junk, at, NoBlock)
    BY WithRoomSound DEF Inv
  <1>3. SameFields(c, Here') /\ IsPack(Here')
    BY <1>1, BecomeSame
  <1>4. UNCHANGED <<at, saved, junk>>
    BY DEF GetFails
  <1> QED BY <1>2, <1>3, <1>4, SameSound DEF Quiet

\* A failed eviction: the queue and the map lose the same block, whose
\* contents nobody may rely on any more.
LEMMA EvictFailsStep ==
  ASSUME Inv, NEW b \in Blocks, EvictFails(b)
  PROVE  Sound(Here', junk', at') /\ \E x \in Blocks : Loses(x)
  <1>0. PICK i \in Victims(Here) :
          /\ map[lru[i]].dirty
          /\ \E n \in {len, GrowTo(len, lru[i] + 1)} : Become([Unmapped(Here, i) EXCEPT !.len = n])
          /\ junk' = junk \cup {lru[i]}
    BY DEF EvictFails
  <1>1. PICK n \in {len, GrowTo(len, lru[i] + 1)} : Become([Unmapped(Here, i) EXCEPT !.len = n])
    BY <1>0
  <1> DEFINE x == lru[i]
             m == Drop(map, {x})
  <1>2. /\ DOMAIN map \subseteq Blocks /\ map \in [DOMAIN map -> Entries]
        /\ Lists(lru, DOMAIN map) /\ img \in [Blocks -> Data] /\ len \in Nat
        /\ \A y \in Blocks : y >= len => img[y] = Zero
        /\ Cardinality(DOMAIN map) <= Capacity
        /\ \A y \in DOMAIN map : ~ map[y].dirty /\ y \notin junk => map[y].data = img[y]
        /\ at \in DOMAIN map => ~ map[at].dirty
        /\ junk \subseteq Blocks
    BY HereFields DEF Inv, Sound, Good, Within, Agrees, CleanAt
  <1>3. i \in 1..Len(lru) /\ x \in DOMAIN map /\ \A j \in 1..(i - 1) : lru[j] \notin DOMAIN map
    BY <1>0, HereFields DEF Victims
  <1>4. i = 1
    <2>1. lru \in Seq(Blocks) /\ Len(lru) \in Nat
      BY <1>2, ListsAt DEF Lists
    <2>2. \A j \in 1..Len(lru) : lru[j] \in DOMAIN map
      BY <1>2, <2>1, ListsAt DEF Lists
    <2> QED BY <1>3, <2>1, <2>2
  <1>5. /\ map' = m /\ lru' = SubSeq(lru, 2, Len(lru)) /\ img' = img /\ len' = n
    <2>1. Unmapped(Here, i).map = m /\ Unmapped(Here, i).lru = SubSeq(lru, i + 1, Len(lru))
          /\ Unmapped(Here, i).img = img /\ IsPack(Unmapped(Here, i))
      BY HereFields, UnmappedIs
    <2> DEFINE u == Unmapped(Here, i)
    <2>2. Become([u EXCEPT !.len = n])
      BY <1>1
    <2>3. u.map = m /\ u.lru = SubSeq(lru, i + 1, Len(lru)) /\ u.img = img /\ IsPack(u)
      BY <2>1
    <2> HIDE DEF u, m
    <2> QED BY <1>4, <2>2, <2>3 DEF Become, IsPack
  <1>6. n \in Nat /\ n >= len
    BY <1>1, <1>2, <1>3, GrowToCovers, BlocksNat
  <1>7. /\ DOMAIN m = DOMAIN map \ {x} /\ m \in [DOMAIN m -> Entries]
        /\ \A y \in DOMAIN m : m[y] = map[y]
    BY <1>2 DEF Drop
  <1>8. Lists(lru', DOMAIN m)
    <2>1. lru # <<>>
      BY <1>2, <1>3
    <2>2. Lists(SubSeq(lru, 2, Len(lru)), DOMAIN map \ {lru[1]})
      BY <1>2, <2>1, ListsPop
    <2> QED BY <1>4, <1>5, <1>7, <2>2
  <1>9. b # at /\ UNCHANGED <<at, saved>> /\ x # at
    BY <1>0, <1>2, <1>3 DEF EvictFails
  <1> HIDE DEF m
  <1>10. Good(Here')
    <2>1. \A y \in Blocks : y >= len' => img'[y] = Zero
      BY <1>2, <1>5, <1>6, BlocksNat
    <2>2. DOMAIN map' \subseteq Blocks /\ map' \in [DOMAIN map' -> Entries]
      BY <1>2, <1>5, <1>7
    <2> QED BY <1>2, <1>5, <1>6, <1>8, <2>1, <2>2, HereFields DEF Good
  <1>11. Within(Here')
    <2>1. DOMAIN map' \subseteq DOMAIN map /\ IsFiniteSet(DOMAIN map)
      BY <1>2, <1>5, <1>7, FiniteMaps
    <2>2. Cardinality(DOMAIN map') <= Cardinality(DOMAIN map)
      BY <2>1, FS_Subset
    <2>3. Cardinality(DOMAIN map') \in Nat /\ Cardinality(DOMAIN map) \in Nat
      BY <1>2, <2>1, FiniteMaps
    <2> QED BY <1>2, <2>2, <2>3, HereFields, BlockCacheAssumption DEF Within
  <1>12. Agrees(Here', junk') /\ CleanAt(Here', at')
    BY <1>0, <1>2, <1>5, <1>7, <1>9, HereFields DEF Agrees, CleanAt
  <1>13. \A y \in Blocks \ junk' : ViewOf(Here', y) = ViewOf(Here, y)
    BY <1>0, <1>5, <1>7, HereFields DEF ViewOf
  <1>14. x \in Blocks /\ junk' = junk \cup {x}
    BY <1>0, <1>2, <1>3
  <1>15. \A y \in DOMAIN map : y \notin DOMAIN map' => y = x
    BY <1>5, <1>7
  <1> HIDE DEF x
  <1>16. Loses(x)
    BY <1>2, <1>5, <1>6, <1>9, <1>13, <1>14, <1>15 DEF Loses
  <1> QED BY <1>10, <1>11, <1>12, <1>14, <1>16 DEF Sound

LEMMA GetMutStep ==
  ASSUME Inv, NEW b \in Blocks, NEW v \in Values, GetMut(b, v)
  PROVE  Sound(Here', junk', at') /\ Writes(b, v)
  <1>1. PICK c \in WithRoom(Here, b) : Become(MutOf(Loaded(c, b), b, v))
    BY DEF GetMut, MutOf
  <1>2. Sound(c, junk, at) /\ Keeps(Here, c, junk, at, NoBlock) /\ HasRoom(c, b)
    BY WithRoomSound DEF Inv
  <1> DEFINE d == Loaded(c, b)
             f == MutOf(d, b, v)
  <1>3. /\ Sound(d, junk, at) /\ Keeps(c, d, junk, at, NoBlock)
        /\ b \in DOMAIN d.map /\ DOMAIN c.map \subseteq DOMAIN d.map /\ d.img = c.img
    BY <1>2, LoadedSound
  <1>4. SameFields(f, Here') /\ IsPack(Here')
    BY <1>1, BecomeSame
  <1> HIDE DEF d
  <1>5. Keeps(Here, d, junk, at, NoBlock)
    BY <1>2, <1>3, KeepsThen DEF Inv, Sound
  <1>6. b # at /\ UNCHANGED <<at, saved>> /\ junk' = junk \ {b}
    BY DEF GetMut
  <1>7. /\ Sound(f, junk \ {b}, at) /\ Keeps(d, f, junk, at, b) /\ ViewOf(f, b) = v
        /\ f.img = d.img /\ DOMAIN f.map = DOMAIN d.map
    BY <1>3, <1>6, MutSound
  <1> HIDE DEF f
  <1>8. Keeps(Here, f, junk, at, b)
    BY <1>3, <1>5, <1>7, KeepsThen DEF Inv, Sound
  <1> QED BY <1>4, <1>6, <1>7, <1>8, SameSound DEF Writes

LEMMA InsertDirtyStep ==
  ASSUME Inv, NEW b \in Blocks, NEW v \in Values, InsertDirty(b, v)
  PROVE  Sound(Here', junk', at') /\ Writes(b, v)
  <1>1. PICK c \in WithRoom(Here, b) : Become(Stored(c, b, v))
    BY DEF InsertDirty
  <1>2. Sound(c, junk, at) /\ Keeps(Here, c, junk, at, NoBlock) /\ HasRoom(c, b)
    BY WithRoomSound DEF Inv
  <1> DEFINE f == Stored(c, b, v)
  <1>4. SameFields(f, Here') /\ IsPack(Here')
    BY <1>1, BecomeSame
  <1>6. b # at /\ UNCHANGED <<at, saved>> /\ junk' = junk \ {b}
    BY DEF InsertDirty
  <1>7. /\ Sound(f, junk \ {b}, at) /\ Keeps(c, f, junk, at, b) /\ ViewOf(f, b) = v
        /\ f.img = c.img /\ DOMAIN c.map \subseteq DOMAIN f.map
    BY <1>2, <1>6, StoredSound
  <1> HIDE DEF f
  <1>8. Keeps(Here, f, junk, at, b)
    BY <1>2, <1>7, KeepsThen DEF Inv, Sound
  <1> QED BY <1>4, <1>6, <1>7, <1>8, SameSound DEF Writes

LEMMA FlushStep ==
  ASSUME Inv, NEW W \in SUBSET Dirty(Here), Flush(W)
  PROVE  Sound(Here', junk', at') /\ Quiet
  <1>1. PICK n \in FlushLens(Here, W) : Become(Flushed(Here, W, n))
    BY DEF Flush, Flushed
  <1> DEFINE d == Flushed(Here, W, n)
  <1>2. Sound(d, junk, at) /\ Keeps(Here, d, junk, at, NoBlock)
    BY FlushedSound DEF Inv
  <1>3. SameFields(d, Here') /\ IsPack(Here')
    BY <1>1, BecomeSame
  <1> HIDE DEF d
  <1>4. UNCHANGED <<at, saved, junk>>
    BY DEF Flush
  <1> QED BY <1>2, <1>3, <1>4, SameSound DEF Quiet

LEMMA CheckpointStep ==
  ASSUME Inv, NEW s \in Blocks, NEW v \in Values, NEW end \in 1..MaxBlocks, NEW cut \in BOOLEAN,
         Checkpoint(s, v, end, cut)
  PROVE  Sound(Here', junk', at') /\ Saves(s, v, Beyond(end))
  <1> DEFINE W == Dirty(Here)
  <1>1. PICK n \in FlushLens(Here, W) : CheckpointFrom(Flushed(Here, W, n), s, v, end, cut)
    BY DEF Checkpoint, Flushed
  <1> DEFINE c == Flushed(Here, W, n)
             r == CutFrom(c, s, v, end, cut)
             K == GivenUp(junk, s, at, end)
  <1>2. /\ Sound(c, junk, at) /\ Keeps(Here, c, junk, at, NoBlock)
        /\ DOMAIN c.map = DOMAIN Here.map
        /\ \A b \in DOMAIN Here.map : c.map[b].dirty <=> Here.map[b].dirty /\ b \notin W
    <2>1. W \in SUBSET Dirty(Here)
      OBVIOUS
    <2> HIDE DEF W
    <2> QED BY <2>1, FlushedSound DEF Inv
  <1>3. Become(r)
    BY <1>1 DEF CheckpointFrom, CutFrom
  <1> HIDE DEF c
  <1>4. \A b \in DOMAIN c.map : ~ c.map[b].dirty
    BY <1>2 DEF Dirty
  <1>5. s < end
    BY DEF Checkpoint
  <1>6. /\ Sound(r, K, s)
        /\ \A b \in Blocks \ K : ViewOf(r, b) = ViewOf(c, b)
        /\ r.img[s] = v /\ s < r.len
        /\ \A b \in DOMAIN c.map : b \notin DOMAIN r.map => b \in K
    BY <1>2, <1>4, <1>5, CutSound
  <1>7. SameFields(r, Here') /\ IsPack(Here')
    BY <1>3, BecomeSame
  <1>8. at' = s /\ saved' = v /\ junk' = K
    BY DEF Checkpoint, GivenUp, Beyond
  <1>9. junk' = junk \cup ({s, at} \cap Blocks) \cup Beyond(end)
    BY <1>8 DEF GivenUp
  <1>10. \A b \in Blocks \ K : b \notin junk
    BY DEF GivenUp
  <1> HIDE DEF r, K
  <1>11. \A b \in Blocks \ K : ViewOf(Here', b) = ViewOf(Here, b)
    <2> SUFFICES ASSUME NEW b \in Blocks \ K PROVE ViewOf(Here', b) = ViewOf(Here, b)
      OBVIOUS
    <2>1. ViewOf(Here', b) = ViewOf(r, b) /\ ViewOf(r, b) = ViewOf(c, b)
      BY <1>6, <1>7, SameSound
    <2>2. ViewOf(c, b) = ViewOf(Here, b)
      BY <1>2, <1>10, BlockCacheAssumption DEF Keeps
    <2> QED BY <2>1, <2>2
  <1>12. Sound(Here', junk', at')
    BY <1>6, <1>7, <1>8, SameSound
  <1>13. Here'.img[s] = v /\ s < Here'.len
    BY <1>6, <1>7 DEF SameFields
  <1>14. \A b \in DOMAIN Here.map : b \notin DOMAIN Here'.map => b \in junk'
    BY <1>2, <1>6, <1>7, <1>8 DEF SameFields
  <1> QED BY <1>8, <1>9, <1>11, <1>12, <1>13, <1>14 DEF Saves

LEMMA RemountStep ==
  ASSUME Inv, Remount
  PROVE  Sound(Here', junk', at') /\ Quiet
  <1>1. DOMAIN map' = {} /\ lru' = <<>> /\ img' = img /\ len' = len
    BY DEF Remount, Become, Here, Pack
  <1>2. UNCHANGED <<at, saved, junk>>
    BY DEF Remount
  <1>3. \A b \in DOMAIN map : ~ map[b].dirty
    BY DEF Remount, Dirty, Here, Pack
  <1>4. Lists(lru', DOMAIN map')
    BY <1>1 DEF Lists, Range, IsInjective
  <1>5. map' \in [{} -> Entries]
    BY DEF Remount, Become, Here, Pack
  <1>6. Good(Here')
    BY <1>1, <1>4, <1>5, HereFields DEF Inv, Sound, Good
  <1>7. Within(Here')
    BY <1>1, HereFields, FS_EmptySet, BlockCacheAssumption DEF Within
  <1>8. Agrees(Here', junk') /\ CleanAt(Here', at')
    BY <1>1, HereFields DEF Agrees, CleanAt
  <1>9. Keeps(Here, Here', junk, at, NoBlock)
    <2>1. \A b \in Blocks \ junk : ViewOf(Here', b) = ViewOf(Here, b)
      BY <1>1, <1>3, HereFields DEF ViewOf, Inv, Sound, Agrees
    <2>2. len <= len'
      BY <1>1, HereFields DEF Inv, Sound, Good
    <2> QED BY <1>1, <1>3, <2>1, <2>2, HereFields DEF Keeps
  <1> QED BY <1>2, <1>6, <1>7, <1>8, <1>9 DEF Sound, Quiet

\* Every step of the cache is of one of four kinds.
LEMMA NextSteps ==
  ASSUME Inv, Next
  PROVE  /\ Sound(Here', junk', at')
         /\ \/ Quiet
            \/ \E b \in Blocks, v \in Values : Writes(b, v)
            \/ \E b \in Blocks : Loses(b)
            \/ \E s \in Blocks, v \in Values, D \in SUBSET Blocks : Saves(s, v, D)
  <1>1. ASSUME NEW b \in Blocks, Get(b) \/ GetFails(b) PROVE Sound(Here', junk', at') /\ Quiet
    BY <1>1, GetStep, GetFailsStep
  <1>2. ASSUME NEW b \in Blocks, NEW v \in Values, GetMut(b, v) \/ InsertDirty(b, v)
        PROVE  Sound(Here', junk', at') /\ Writes(b, v)
    BY <1>2, GetMutStep, InsertDirtyStep
  <1>3. ASSUME NEW W \in SUBSET Dirty(Here), Flush(W) PROVE Sound(Here', junk', at') /\ Quiet
    BY <1>3, FlushStep
  <1>4. ASSUME NEW s \in Blocks, NEW v \in Values, NEW end \in 1..MaxBlocks,
               NEW cut \in BOOLEAN, Checkpoint(s, v, end, cut)
        PROVE  /\ Sound(Here', junk', at')
               /\ \E D \in SUBSET Blocks : Saves(s, v, D)
    <2>1. Beyond(end) \in SUBSET Blocks
      BY DEF Beyond
    <2> QED BY <1>4, <2>1, CheckpointStep
  <1>5. Remount => Sound(Here', junk', at') /\ Quiet
    BY RemountStep
  <1>6. ASSUME NEW b \in Blocks, EvictFails(b)
        PROVE  Sound(Here', junk', at') /\ \E x \in Blocks : Loses(x)
    BY <1>6, EvictFailsStep
  <1> QED BY <1>1, <1>2, <1>3, <1>4, <1>5, <1>6 DEF Next

LEMMA InitInv == Init => Inv
  <1> SUFFICES ASSUME Init PROVE Inv
    OBVIOUS
  <1> USE DEF Init
  <1>1. DOMAIN map = {} /\ map \in [{} -> Entries]
    OBVIOUS
  <1>2. Lists(lru, DOMAIN map)
    BY <1>1 DEF Lists, Range, IsInjective
  <1>3. len \in Nat
    BY BlockCacheAssumption
  <1>4. Good(Here)
    BY <1>1, <1>2, <1>3, HereFields DEF Good, Data
  <1>5. Within(Here)
    BY <1>1, HereFields, FS_EmptySet, BlockCacheAssumption DEF Within
  <1>6. Agrees(Here, junk) /\ CleanAt(Here, at)
    BY <1>1, HereFields DEF Agrees, CleanAt
  <1> QED BY <1>4, <1>5, <1>6 DEF Inv, Sound, SnapshotIntact

\* A step that leaves every variable alone is a step of the first kind.
LEMMA StutterQuiet ==
  ASSUME Inv, UNCHANGED vars
  PROVE  Sound(Here', junk', at') /\ Quiet
  <1>1. SameFields(Here, Here') /\ IsPack(Here') /\ UNCHANGED <<at, saved, junk>>
    BY HereFields DEF vars, SameFields
  <1>2. Keeps(Here, Here, junk, at, NoBlock)
    BY DEF Keeps, Inv, Sound, Good
  <1> QED BY <1>1, <1>2, SameSound DEF Inv, Quiet

LEMMA StepKinds ==
  ASSUME Inv, [Next]_vars
  PROVE  /\ Sound(Here', junk', at')
         /\ \/ Quiet
            \/ \E b \in Blocks, v \in Values : Writes(b, v)
            \/ \E b \in Blocks : Loses(b)
            \/ \E s \in Blocks, v \in Values, D \in SUBSET Blocks : Saves(s, v, D)
  BY NextSteps, StutterQuiet

LEMMA StepInv ==
  ASSUME Inv, [Next]_vars
  PROVE  Inv'
  <1> SUFFICES /\ at' \in Blocks \cup {NoBlock} /\ saved' \in Values \cup {Undef}
               /\ junk' \subseteq Blocks /\ SnapshotIntact'
    BY StepKinds DEF Inv
  <1>1. ASSUME NEW x, Keeps(Here, Here', junk, at, x), UNCHANGED <<at, saved>>
        PROVE  SnapshotIntact'
    <2>1. at \in Blocks => img'[at] = img[at]
      BY <1>1, HereFields DEF Keeps
    <2>2. len <= len' /\ len \in Nat /\ len' \in Nat
      BY <1>1, StepKinds, HereFields DEF Keeps, Inv, Sound, Good
    <2>3. at # NoBlock => at \in Nat /\ at \in Blocks
      BY BlocksNat DEF Inv
    <2> QED BY <1>1, <2>1, <2>2, <2>3 DEF Inv, SnapshotIntact
  <1>2. CASE Quiet
    BY <1>1, <1>2 DEF Quiet, Inv
  <1>3. CASE \E b \in Blocks, v \in Values : Writes(b, v)
    BY <1>1, <1>3 DEF Writes, Inv
  <1>4. CASE \E s \in Blocks, v \in Values, D \in SUBSET Blocks : Saves(s, v, D)
    BY <1>4, HereFields DEF Saves, Inv, SnapshotIntact
  <1>5. CASE \E b \in Blocks : Loses(b)
    <2>1. len <= len' /\ len \in Nat /\ len' \in Nat
      BY <1>5, StepKinds, HereFields DEF Loses, Inv, Sound, Good
    <2>2. at # NoBlock => at \in Nat
      BY BlocksNat DEF Inv
    <2> QED BY <1>5, <2>1, <2>2 DEF Loses, Inv, SnapshotIntact
  <1> QED BY <1>2, <1>3, <1>4, <1>5, StepKinds

\* The invariant holds throughout: with the checked properties, clean entries
\* agree with the image and nothing waits to be written over the snapshot.
THEOREM InvHolds == Spec => []Inv
  <1>1. Inv /\ [Next]_vars => Inv'
    BY StepInv
  <1> QED BY InitInv, <1>1, PTL DEF Spec

\* For every capacity, number of blocks and growth step, the LRU queue lists
\* exactly the cached blocks, each once, and the cache never outgrows its
\* capacity: evict_one always finds a victim.
THEOREM WellFormedHolds == Spec => []WellFormed
  <1>1. Inv => WellFormed
    <2> SUFFICES ASSUME Inv PROVE WellFormed
      OBVIOUS
    <2>1. TypeOK
      BY HereFields DEF Inv, Sound, Good, Lists, TypeOK
    <2>2. LruAgrees
      BY HereFields DEF Inv, Sound, Good, Lists, LruAgrees
    <2>3. WithinCapacity
      BY HereFields DEF Inv, Sound, Within, WithinCapacity
    <2> QED BY <2>1, <2>2, <2>3 DEF WellFormed
  <1> QED BY InvHolds, <1>1, PTL

\* For every capacity, number of blocks and growth step, the allocator
\* snapshot that the last checkpoint wrote past the cache stays in the image:
\* no later write-back of an eviction or a flush lands on it, no shrink cuts it.
THEOREM SnapshotIntactHolds == Spec => []SnapshotIntact
  <1>1. Inv => SnapshotIntact
    BY DEF Inv
  <1> QED BY InvHolds, <1>1, PTL

\* No step of the cache loses a dirty block: it leaves the map only with its
\* contents in the image, because the checkpoint gave it up, or because the
\* host failed to write this very block.
THEOREM DirtyReachesImageHolds == Spec => DirtyReachesImage
  <1> DEFINE A == \A b \in DOMAIN map :
                    map[b].dirty /\ b \notin DOMAIN map' => img'[b] = map[b].data \/ b \in junk'
  <1>1. ASSUME Inv, [Next]_vars PROVE A
    <2>1. ASSUME NEW x, Keeps(Here, Here', junk, at, x) PROVE A
      BY <2>1, HereFields DEF Keeps
    <2>2. CASE Quiet
      BY <2>1, <2>2 DEF Quiet
    <2>3. CASE \E b \in Blocks, v \in Values : Writes(b, v)
      BY <2>1, <2>3 DEF Writes
    <2>4. CASE \E s \in Blocks, v \in Values, D \in SUBSET Blocks : Saves(s, v, D)
      BY <2>4, HereFields DEF Saves
    <2>5. CASE \E b \in Blocks : Loses(b)
      BY <2>5 DEF Loses
    <2> QED BY <1>1, <2>2, <2>3, <2>4, <2>5, StepKinds
  <1> HIDE DEF A
  <1>2. Inv /\ [Next]_vars => [A]_vars
    BY <1>1
  <1>3. [][A]_vars => DirtyReachesImage
    BY DEF A, DirtyReachesImage
  <1> QED BY InvHolds, <1>2, <1>3, PTL DEF Spec

-----------------------------------------------------------------------------
(* The refinement. *)

\* The array of blocks that the cache and the image stand for.
Val == [b \in Blocks |-> IF b \in junk THEN Undef ELSE View(b)]

Kept == IF at = NoBlock THEN Undef ELSE img[at]

LEMMA ViewIs ==
  \A b : View(b) = ViewOf(Here, b) /\ View(b)' = ViewOf(Here', b)
  BY HereFields DEF View, ViewOf

LEMMA QuietMaps ==
  ASSUME Inv, Quiet
  PROVE  UNCHANGED <<Val, at, Kept>>
  <1>1. UNCHANGED <<at, saved, junk>> /\ Keeps(Here, Here', junk, at, NoBlock)
    BY DEF Quiet
  <1>2. ASSUME NEW b \in Blocks, b \notin junk PROVE View(b)' = View(b)
    BY <1>1, <1>2, ViewIs, BlockCacheAssumption DEF Keeps
  <1>3. Val' = Val
    BY <1>1, <1>2 DEF Val
  <1>4. Kept' = Kept
    BY <1>1, HereFields DEF Keeps, Kept, Inv
  <1> QED BY <1>1, <1>3, <1>4

LEMMA WritesMaps ==
  ASSUME Inv, NEW b \in Blocks, NEW v \in Values, Writes(b, v)
  PROVE  b # at /\ Val' = [Val EXCEPT ![b] = v] /\ UNCHANGED <<at, Kept>>
  <1>1. /\ b # at /\ UNCHANGED <<at, saved>> /\ junk' = junk \ {b}
        /\ Keeps(Here, Here', junk, at, b) /\ View(b)' = v
    BY ViewIs DEF Writes
  <1>2. ASSUME NEW x \in Blocks, x # b, x \notin junk PROVE View(x)' = View(x)
    BY <1>1, <1>2, ViewIs DEF Keeps
  <1>3. ASSUME NEW x \in Blocks PROVE Val'[x] = IF x = b THEN v ELSE Val[x]
    BY <1>1, <1>2 DEF Val
  <1>4. Val' = [Val EXCEPT ![b] = v]
    BY <1>3 DEF Val
  <1>5. Kept' = Kept
    BY <1>1, HereFields DEF Keeps, Kept, Inv
  <1> QED BY <1>1, <1>4, <1>5

LEMMA LosesMaps ==
  ASSUME Inv, NEW b \in Blocks, Loses(b)
  PROVE  b # at /\ Val' = [Val EXCEPT ![b] = Undef] /\ UNCHANGED <<at, Kept>>
  <1>1. /\ b # at /\ UNCHANGED <<at, saved>> /\ junk' = junk \cup {b} /\ img' = img
        /\ \A x \in Blocks \ junk' : View(x)' = View(x)
    BY ViewIs DEF Loses
  <1>2. ASSUME NEW x \in Blocks PROVE Val'[x] = IF x = b THEN Undef ELSE Val[x]
    BY <1>1 DEF Val
  <1>3. Val' = [Val EXCEPT ![b] = Undef]
    BY <1>2 DEF Val
  <1> QED BY <1>1, <1>3 DEF Kept

LEMMA SavesMaps ==
  ASSUME Inv, NEW s \in Blocks, NEW v \in Values, NEW D \in SUBSET Blocks, Saves(s, v, D)
  PROVE  /\ at' = s /\ Kept' = v
         /\ Val' = [b \in Blocks |-> IF b \in D \cup {s, at} THEN Undef ELSE Val[b]]
  <1>1. /\ at' = s /\ junk' = junk \cup ({s, at} \cap Blocks) \cup D
        /\ img'[s] = v
        /\ \A b \in Blocks \ junk' : View(b)' = View(b)
    BY ViewIs, HereFields DEF Saves
  <1>2. Kept' = v
    BY <1>1, BlockCacheAssumption DEF Kept
  <1>3. ASSUME NEW b \in Blocks
        PROVE  Val'[b] = IF b \in D \cup {s, at} THEN Undef ELSE Val[b]
    BY <1>1 DEF Val
  <1>4. Val' = [b \in Blocks |-> IF b \in D \cup {s, at} THEN Undef ELSE Val[b]]
    BY <1>3 DEF Val
  <1> QED BY <1>1, <1>2, <1>4

\* The cache, its evictions, its failing reads, evictions and flushes, and the
\* checkpoints that go around it implement a flat array of blocks in which a
\* failed write loses its own block and no other, for every capacity, number
\* of blocks and growth step.
THEOREM Refinement == Spec => ImplementsBlockStore
  <1>1. Init => Store!Init
    BY DEF Init, Store!Init
  <1>2. ASSUME Inv, [Next]_vars PROVE [Store!Next]_(Store!vars)
    <2>1. CASE Quiet
      BY <1>2, <2>1, QuietMaps DEF Store!vars, Val, Kept
    <2>2. ASSUME NEW b \in Blocks, NEW v \in Values, Writes(b, v) PROVE Store!Next
      <3>1. b # at /\ Val' = [Val EXCEPT ![b] = v] /\ UNCHANGED <<at, Kept>>
        BY <1>2, <2>2, WritesMaps
      <3>2. Store!Write(b, v)
        BY <3>1 DEF Store!Write, Val, Kept
      <3> QED BY <3>2 DEF Store!Next
    <2>3. ASSUME NEW s \in Blocks, NEW v \in Values, NEW D \in SUBSET Blocks, Saves(s, v, D)
          PROVE  Store!Next
      <3>1. /\ at' = s /\ Kept' = v
            /\ Val' = [b \in Blocks |-> IF b \in D \cup {s, at} THEN Undef ELSE Val[b]]
        BY <1>2, <2>3, SavesMaps
      <3>2. Store!Save(s, v, D)
        BY <3>1 DEF Store!Save, Val, Kept
      <3> QED BY <3>2 DEF Store!Next
    <2>4. ASSUME NEW b \in Blocks, Loses(b) PROVE Store!Next
      <3>1. b # at /\ Val' = [Val EXCEPT ![b] = Undef] /\ UNCHANGED <<at, Kept>>
        BY <1>2, <2>4, LosesMaps
      <3>2. Store!Lose(b)
        BY <3>1 DEF Store!Lose, Val, Kept
      <3> QED BY <3>2 DEF Store!Next
    <2> QED BY <1>2, <2>1, <2>2, <2>3, <2>4, StepKinds
  <1> QED BY InvHolds, <1>1, <1>2, PTL DEF Spec, ImplementsBlockStore, Store!Spec
=============================================================================
