-------------------------- MODULE AllocatorProofs ---------------------------
(***************************************************************************)
(* The extent allocator never hands out a block twice and never loses one, *)
(* for every geometry of the image.  The argument is an induction on Inv,  *)
(* which adds to the partition of the block space two facts the steps need *)
(* to keep it: free extents never touch (otherwise Allocator::free would   *)
(* miss a neighbour), and the snapshot on disk describes a partition too   *)
(* (otherwise a mount would load a bad one).                               *)
(***************************************************************************)
EXTENDS Allocator, FiniteSetTheorems, TLAPS

-----------------------------------------------------------------------------
(* The free map. *)

\* A map that starts out as a partition with separated extents: the hypothesis
\* and the conclusion of every lemma about the operations of alloc.rs.
Good(f, t, held) ==
  /\ IsFreeMap(f)
  /\ t \in Nat
  /\ held \subseteq Nat
  /\ Separated(f)
  /\ PartitionOf(f, t, held)

\* What BTreeMap::insert and BTreeMap::remove keep.
LEMMA MapOps ==
  ASSUME NEW f, IsFreeMap(f), NEW s \in Nat, NEW n \in Nat \ {0}
  PROVE  /\ IsFreeMap(Insert(f, s, n))
         /\ DOMAIN Insert(f, s, n) = DOMAIN f \cup {s}
         /\ \A x \in DOMAIN f \cup {s} : Insert(f, s, n)[x] = IF x = s THEN n ELSE f[x]
         /\ IsFreeMap(Without(f, s))
         /\ DOMAIN Without(f, s) = DOMAIN f \ {s}
         /\ \A x \in DOMAIN f \ {s} : Without(f, s)[x] = f[x]
  BY DEF IsFreeMap, Insert, Without

\* Extent by extent, a good map: its keys and lengths are naturals, extents
\* are apart, and each lies between FirstData and the end.
LEMMA GoodFacts ==
  ASSUME NEW f, NEW t, NEW held, Good(f, t, held), NEW s \in DOMAIN f
  PROVE  /\ s \in Nat /\ f[s] \in Nat /\ f[s] > 0
         /\ FirstData <= s /\ s + f[s] <= t
         /\ \A x \in DOMAIN f : x < s => x + f[x] < s
         /\ \A x \in DOMAIN f : s < x => s + f[s] < x
         /\ \A b \in Nat : s <= b /\ b < s + f[s] => b \notin held
  <1>1. s \in Nat /\ f[s] \in Nat /\ f[s] > 0
    BY DEF Good, IsFreeMap
  <1>2. FirstData <= s /\ s + f[s] <= t
    BY DEF Good, PartitionOf
  <1>3. \A x \in DOMAIN f : (x < s => x + f[x] < s) /\ (s < x => s + f[s] < x)
    BY DEF Good, Separated
  <1>4. ASSUME NEW b \in Nat, s <= b, b < s + f[s] PROVE b \notin held
    <2>1. InExtent(f, b)
      BY <1>1, <1>4 DEF InExtent, Run
    <2>2. b \in FirstData..(t - 1)
      BY <1>1, <1>2, <1>4, AllocatorAssumption DEF Good
    <2> QED BY <2>1, <2>2 DEF Good, PartitionOf
  <1> QED BY <1>1, <1>2, <1>3, <1>4

\* Two good maps describe the same blocks alike if their extents do.
LEMMA Repartition ==
  ASSUME NEW f, NEW t, NEW held, Good(f, t, held),
         NEW g, NEW u \in Nat, NEW held2 \in SUBSET Nat,
         IsFreeMap(g), Separated(g),
         \A b \in held2 : FirstData <= b /\ b < u,
         \A s \in DOMAIN g : FirstData <= s /\ s + g[s] <= u,
         \A b \in Nat : FirstData <= b /\ b < u => (b \in held2 <=> ~ InExtent(g, b))
  PROVE  Good(g, u, held2)
  BY AllocatorAssumption DEF Good, PartitionOf

\* Taking `want' blocks from the front of a free extent that is long enough:
\* the blocks were free, and now they are held.
LEMMA CarveGood ==
  ASSUME NEW f, NEW t, NEW held, Good(f, t, held),
         NEW s \in DOMAIN f, NEW want \in Nat \ {0}, f[s] >= want
  PROVE  /\ Good(Carve(f, s, want), t, held \cup Run(s, want))
         /\ Run(s, want) \cap held = {}
         /\ s \in Nat /\ FirstData <= s /\ s + want <= t
  <1> DEFINE g == Carve(f, s, want)
             held2 == held \cup Run(s, want)
  <1>1. /\ s \in Nat /\ f[s] \in Nat /\ f[s] > 0
        /\ FirstData <= s /\ s + f[s] <= t
        /\ \A x \in DOMAIN f : x < s => x + f[x] < s
        /\ \A x \in DOMAIN f : s < x => s + f[s] < x
        /\ \A b \in Nat : s <= b /\ b < s + f[s] => b \notin held
    BY GoodFacts
  <1>2. /\ IsFreeMap(f) /\ t \in Nat /\ held \subseteq Nat /\ Separated(f)
        /\ DOMAIN f \subseteq Nat /\ \A x \in DOMAIN f : f[x] \in Nat /\ f[x] > 0
        /\ FirstData \in Nat
    BY AllocatorAssumption DEF Good, IsFreeMap
  <1>3. Run(s, want) \cap held = {} /\ Run(s, want) \subseteq Nat
    BY <1>1, <1>2 DEF Run
  <1>4. /\ IsFreeMap(g)
        /\ DOMAIN g \subseteq (DOMAIN f \ {s}) \cup {s + want}
        /\ DOMAIN f \ {s} \subseteq DOMAIN g
        /\ s + want \in DOMAIN g <=> f[s] > want
        /\ \A x \in DOMAIN f \ {s} : g[x] = f[x]
        /\ f[s] > want => g[s + want] = f[s] - want
    <2>1. IsFreeMap(Without(f, s)) /\ DOMAIN Without(f, s) = DOMAIN f \ {s}
          /\ \A x \in DOMAIN f \ {s} : Without(f, s)[x] = f[x]
      BY <1>1, <1>2, MapOps
    <2>2. s + want \notin DOMAIN f
      BY <1>1, <1>2
    <2>3. CASE f[s] > want
      <3>1. s + want \in Nat /\ f[s] - want \in Nat \ {0}
        BY <1>1, <2>3
      <3> DEFINE h == Without(f, s)
                 k == f[s] - want
                 p == s + want
      <3>a. IsFreeMap(h) /\ p \in Nat /\ k \in Nat \ {0}
        BY <2>1, <3>1
      <3> HIDE DEF h, k, p
      <3>2. /\ IsFreeMap(Insert(h, p, k))
            /\ DOMAIN Insert(h, p, k) = DOMAIN h \cup {p}
            /\ \A x \in DOMAIN h \cup {p} :
                 Insert(h, p, k)[x] = IF x = p THEN k ELSE h[x]
        BY <3>a DEF Insert, IsFreeMap
      <3>3. g = Insert(h, p, k)
        BY <2>3 DEF Carve, h, k, p
      <3> QED BY <2>1, <2>2, <2>3, <3>2, <3>3 DEF h, k, p
    <2>4. CASE ~ (f[s] > want)
      BY <2>1, <2>2, <2>4 DEF Carve
    <2> QED BY <2>3, <2>4
  <1> HIDE DEF g
  <1>5. Separated(g)
    <2> SUFFICES ASSUME NEW x \in DOMAIN g, NEW y \in DOMAIN g, x < y
                 PROVE  x + g[x] < y
      BY DEF Separated
    <2>1. CASE x \in DOMAIN f \ {s} /\ y \in DOMAIN f \ {s}
      BY <1>2, <1>4, <2>1 DEF Separated
    <2>2. CASE x = s + want
      BY <1>1, <1>2, <1>4, <2>2
    <2>3. CASE x \in DOMAIN f \ {s} /\ y = s + want
      BY <1>1, <1>2, <1>4, <2>3
    <2> QED BY <1>4, <2>1, <2>2, <2>3
  <1>6. \A x \in DOMAIN g : FirstData <= x /\ x + g[x] <= t
    BY <1>1, <1>2, <1>4, GoodFacts
  <1>7. ASSUME NEW b \in Nat, FirstData <= b, b < t
        PROVE  b \in held2 <=> ~ InExtent(g, b)
    <2>1. b \in held <=> ~ InExtent(f, b)
      BY <1>2, <1>7 DEF Good, PartitionOf
    <2>2. InExtent(g, b) => InExtent(f, b) /\ b \notin Run(s, want)
      <3> SUFFICES ASSUME NEW x \in DOMAIN g, b \in Run(x, g[x])
                   PROVE  InExtent(f, b) /\ b \notin Run(s, want)
        BY DEF InExtent
      <3>1. CASE x \in DOMAIN f \ {s}
        <4>1. b \in Run(x, f[x])
          BY <1>4, <3>1
        <4>2. ~ (s <= b /\ b < s + f[s])
          BY <1>1, <1>2, <3>1, <4>1 DEF Run
        <4> QED BY <1>1, <1>2, <3>1, <4>1, <4>2 DEF InExtent, Run
      <3>2. CASE x = s + want
        BY <1>1, <1>2, <1>4, <3>2 DEF InExtent, Run
      <3> QED BY <1>4, <3>1, <3>2
    <2>3. InExtent(f, b) /\ b \notin Run(s, want) => InExtent(g, b)
      <3> SUFFICES ASSUME NEW x \in DOMAIN f, b \in Run(x, f[x]), b \notin Run(s, want)
                   PROVE  InExtent(g, b)
        BY DEF InExtent
      <3>1. CASE x = s
        BY <1>1, <1>2, <1>4, <3>1 DEF InExtent, Run
      <3>2. CASE x # s
        BY <1>4, <3>2 DEF InExtent
      <3> QED BY <3>1, <3>2
    <2> QED BY <2>1, <2>2, <2>3
  <1>8. \A b \in held2 : FirstData <= b /\ b < t
    BY <1>1, <1>2 DEF Good, PartitionOf, Run
  <1>9. held2 \in SUBSET Nat
    BY <1>2, <1>3
  <1>10. Good(g, t, held2)
    BY <1>2, <1>4, <1>5, <1>6, <1>7, <1>8, <1>9, Repartition
  <1> QED BY <1>1, <1>2, <1>3, <1>10 DEF g

\* Taking blocks from the grown tail when no extent fits: the blocks past the
\* old end become held, the rounding of the growth step becomes free.
LEMMA GrowGood ==
  ASSUME NEW f, NEW t, NEW held, Good(f, t, held), FirstData <= t,
         NEW want \in Nat \ {0}, NEW ln \in Nat
  PROVE  /\ Good(Grown(f, t + want, ln), GrownTotal(t + want, ln), held \cup Run(t, want))
         /\ Run(t, want) \cap held = {}
         /\ GrownTotal(t + want, ln) \in Nat /\ t + want <= GrownTotal(t + want, ln)
  <1> DEFINE held2 == held \cup Run(t, want)
             p == t + want
             k == ln - p
             g == Grown(f, p, ln)
             u == GrownTotal(p, ln)
  <1>1. /\ IsFreeMap(f) /\ t \in Nat /\ held \in SUBSET Nat /\ Separated(f)
        /\ FirstData \in Nat /\ u \in Nat /\ p \in Nat /\ t < p /\ p <= u
        /\ DOMAIN f \subseteq Nat /\ \A x \in DOMAIN f : f[x] \in Nat /\ f[x] > 0
        /\ g = IF ln > p THEN Insert(f, p, k) ELSE f
        /\ u = IF ln > p THEN ln ELSE p
    BY AllocatorAssumption DEF Good, IsFreeMap, Grown, GrownTotal
  <1> HIDE DEF g, u
  <1>2. \A x \in DOMAIN f : FirstData <= x /\ x + f[x] <= t
    BY GoodFacts
  <1>3. \A b \in held : FirstData <= b /\ b < t
    BY DEF Good, PartitionOf
  <1>4. /\ IsFreeMap(g)
        /\ DOMAIN g \subseteq DOMAIN f \cup {p}
        /\ DOMAIN f \subseteq DOMAIN g
        /\ p \in DOMAIN g <=> ln > p
        /\ \A x \in DOMAIN f : g[x] = f[x]
        /\ ln > p => g[p] = ln - p /\ u = ln
    <2>1. p \notin DOMAIN f
      BY <1>1, <1>2
    <2>2. CASE ln > p
      <3>1. g = Insert(f, p, k) /\ k \in Nat \ {0} /\ u = ln
        BY <1>1, <2>2
      <3> HIDE DEF p, k
      <3>2. /\ IsFreeMap(Insert(f, p, k))
            /\ DOMAIN Insert(f, p, k) = DOMAIN f \cup {p}
            /\ \A x \in DOMAIN f \cup {p} :
                 Insert(f, p, k)[x] = IF x = p THEN k ELSE f[x]
        BY <1>1, <3>1 DEF Insert, IsFreeMap
      <3> QED BY <2>1, <2>2, <3>1, <3>2 DEF k
    <2>3. CASE ~ (ln > p)
      BY <1>1, <2>1, <2>3
    <2> QED BY <2>2, <2>3
  <1>5. u > p => ln > p /\ u = ln
    BY <1>1
  <1> HIDE DEF p
  <1>6. Separated(g)
    BY <1>1, <1>2, <1>4 DEF Separated
  <1>7. \A x \in DOMAIN g : FirstData <= x /\ x + g[x] <= u
    BY <1>1, <1>2, <1>4
  <1>8. ASSUME NEW b \in Nat, FirstData <= b, b < u
        PROVE  b \in held2 <=> ~ InExtent(g, b)
    <2>1. CASE b < t
      <3>1. b \in held <=> ~ InExtent(f, b)
        BY <1>1, <1>8, <2>1 DEF Good, PartitionOf
      <3>2. InExtent(g, b) <=> InExtent(f, b)
        BY <1>1, <1>2, <1>4, <2>1 DEF InExtent, Run
      <3> QED BY <1>1, <2>1, <3>1, <3>2 DEF Run
    <2>2. CASE t <= b /\ b < p
      <3>1. ~ InExtent(g, b)
        BY <1>1, <1>2, <1>4, <2>2 DEF InExtent, Run
      <3>2. b \in Run(t, want)
        BY <1>1, <2>2 DEF Run, p
      <3> QED BY <3>1, <3>2
    <2>3. CASE p <= b
      <3>1. b \notin held2
        BY <1>1, <1>3, <2>3 DEF Run, p
      <3>2. InExtent(g, b)
        BY <1>1, <1>4, <1>5, <1>8, <2>3 DEF InExtent, Run
      <3> QED BY <3>1, <3>2
    <2> QED BY <1>1, <2>1, <2>2, <2>3
  <1>9. /\ held2 \in SUBSET Nat
        /\ \A b \in held2 : FirstData <= b /\ b < u
        /\ Run(t, want) \cap held = {}
    BY <1>1, <1>3 DEF Run, p
  <1>10. Good(g, u, held2)
    BY <1>1, <1>4, <1>6, <1>7, <1>8, <1>9, Repartition
  <1> QED BY <1>1, <1>9, <1>10 DEF g, u, p

-----------------------------------------------------------------------------
(* Freeing. *)

\* Extents of h leave room for a run at s: none ends at s or beyond it unless
\* it starts after the run.
Room(h, s, m) == \A x \in DOMAIN h : x + h[x] < s \/ s + m <= x

\* The second half of Allocator::free: join the run with the extent after it.
LEMMA JoinNextGood ==
  ASSUME NEW h, IsFreeMap(h), Separated(h),
         NEW s \in Nat, NEW m \in Nat \ {0}, Room(h, s, m), NEW g,
         g = JoinNext(h, s, m)
  PROVE  /\ IsFreeMap(g) /\ Separated(g)
         /\ \A b \in Nat : InExtent(g, b) <=> InExtent(h, b) \/ b \in Run(s, m)
         /\ \A x \in DOMAIN g : \/ x \in DOMAIN h /\ g[x] = h[x]
                                \/ x = s /\ g[x] = m
                                \/ x = s /\ s + m \in DOMAIN h /\ x + g[x] = s + m + h[s + m]
  <1> DEFINE e == s + m
  <1>1. /\ DOMAIN h \subseteq Nat /\ \A x \in DOMAIN h : h[x] \in Nat /\ h[x] > 0
        /\ e \in Nat /\ s < e
    BY DEF IsFreeMap
  <1>2. \A x \in DOMAIN h : x + h[x] < s \/ e <= x
    BY DEF Room
  <1>3. s \notin DOMAIN h
    BY <1>1, <1>2
  <1>4. CASE e \in DOMAIN h
    <2> DEFINE k == m + h[e]
               d == Without(h, e)
    <2>1. k \in Nat \ {0} /\ s + k = e + h[e] /\ g = Insert(d, s, k)
      BY <1>1, <1>4 DEF JoinNext
    <2> HIDE DEF k
    <2>2. IsFreeMap(d) /\ DOMAIN d = DOMAIN h \ {e} /\ \A x \in DOMAIN d : d[x] = h[x]
      BY DEF Without, IsFreeMap
    <2> HIDE DEF d, e
    <2>3. /\ IsFreeMap(g)
          /\ DOMAIN g = DOMAIN d \cup {s}
          /\ \A x \in DOMAIN d \cup {s} : g[x] = IF x = s THEN k ELSE d[x]
      BY <2>1, <2>2 DEF Insert, IsFreeMap
    <2>4. Separated(g)
      <3> SUFFICES ASSUME NEW x \in DOMAIN g, NEW y \in DOMAIN g, x < y
                   PROVE  x + g[x] < y
        BY DEF Separated
      <3>1. CASE x = s
        <4>1. y \in DOMAIN h /\ e < y
          BY <1>1, <1>2, <2>2, <2>3, <3>1
        <4>2. e + h[e] < y
          BY <1>4, <4>1 DEF Separated
        <4> QED BY <2>1, <2>3, <3>1, <4>2
      <3>2. CASE y = s
        BY <1>1, <1>2, <2>2, <2>3, <3>2
      <3>3. CASE x # s /\ y # s
        BY <2>2, <2>3, <3>3 DEF Separated
      <3> QED BY <3>1, <3>2, <3>3
    <2>5. ASSUME NEW b \in Nat
          PROVE  InExtent(g, b) <=> InExtent(h, b) \/ b \in Run(s, m)
      <3>1. b \in Run(s, k) <=> b \in Run(s, m) \/ b \in Run(e, h[e])
        BY <1>1, <1>4, <2>1 DEF Run, e
      <3>2. InExtent(g, b) <=> (\E x \in DOMAIN d : b \in Run(x, h[x])) \/ b \in Run(s, k)
        BY <1>3, <2>2, <2>3 DEF InExtent
      <3>3. InExtent(h, b) <=> (\E x \in DOMAIN d : b \in Run(x, h[x])) \/ b \in Run(e, h[e])
        BY <1>4, <2>2 DEF InExtent
      <3> QED BY <3>1, <3>2, <3>3
    <2>6. \A x \in DOMAIN g : \/ x \in DOMAIN h /\ g[x] = h[x]
                              \/ x = s /\ e \in DOMAIN h /\ x + g[x] = e + h[e]
      BY <1>3, <1>4, <2>1, <2>2, <2>3
    <2> QED BY <2>3, <2>4, <2>5, <2>6 DEF e
  <1>5. CASE e \notin DOMAIN h
    <2>1. g = Insert(h, s, m)
      BY <1>5 DEF JoinNext
    <2> HIDE DEF e
    <2>2. /\ IsFreeMap(g)
          /\ DOMAIN g = DOMAIN h \cup {s}
          /\ \A x \in DOMAIN h \cup {s} : g[x] = IF x = s THEN m ELSE h[x]
      BY <2>1 DEF Insert, IsFreeMap
    <2>3. Separated(g)
      <3> SUFFICES ASSUME NEW x \in DOMAIN g, NEW y \in DOMAIN g, x < y
                   PROVE  x + g[x] < y
        BY DEF Separated
      <3>1. CASE x = s
        <4>1. y \in DOMAIN h /\ e <= y /\ e # y
          BY <1>1, <1>2, <1>5, <2>2, <3>1
        <4> QED BY <1>1, <2>2, <3>1, <4>1 DEF e
      <3>2. CASE y = s
        BY <1>1, <1>2, <2>2, <3>2
      <3>3. CASE x # s /\ y # s
        BY <2>2, <3>3 DEF Separated
      <3> QED BY <3>1, <3>2, <3>3
    <2>4. \A b \in Nat : InExtent(g, b) <=> InExtent(h, b) \/ b \in Run(s, m)
      BY <1>3, <2>2 DEF InExtent
    <2>5. \A x \in DOMAIN g : \/ x \in DOMAIN h /\ g[x] = h[x]
                              \/ x = s /\ g[x] = m
      BY <1>3, <2>2
    <2> QED BY <2>2, <2>3, <2>4, <2>5
  <1> QED BY <1>4, <1>5

\* The first half of Allocator::free: join the run with the extent before it.
LEMMA JoinPrevGood ==
  ASSUME NEW f, NEW t, NEW held, Good(f, t, held),
         NEW start \in Nat, NEW n \in Nat \ {0}, Run(start, n) \subseteq held,
         NEW j, j = JoinPrev(f, start, n)
  PROVE  /\ IsFreeMap(j.free) /\ Separated(j.free)
         /\ \A x \in DOMAIN j.free : x \in DOMAIN f /\ j.free[x] = f[x]
         /\ j.start \in Nat /\ j.n \in Nat \ {0}
         /\ FirstData <= j.start /\ j.start + j.n = start + n
         /\ Room(j.free, j.start, j.n)
         /\ \A b \in Nat : InExtent(j.free, b) \/ b \in Run(j.start, j.n)
                             <=> InExtent(f, b) \/ b \in Run(start, n)
  <1>1. /\ IsFreeMap(f) /\ Separated(f) /\ FirstData \in Nat
        /\ DOMAIN f \subseteq Nat /\ \A x \in DOMAIN f : f[x] \in Nat /\ f[x] > 0
    BY AllocatorAssumption DEF Good, IsFreeMap
  <1>2. start \in held /\ FirstData <= start
    BY DEF Run, Good, PartitionOf
  <1>3. ASSUME NEW x \in DOMAIN f PROVE x + f[x] <= start \/ start + n <= x
    <2>1. SUFFICES ASSUME x + f[x] > start, start + n > x PROVE FALSE
      BY <1>1
    <2>2. PICK b \in Nat : b \in Run(start, n) /\ x <= b /\ b < x + f[x]
      <3>1. CASE x <= start
        BY <1>1, <2>1, <3>1 DEF Run
      <3>2. CASE start < x
        BY <1>1, <2>1, <3>2 DEF Run
      <3> QED BY <1>1, <3>1, <3>2
    <2> QED BY <2>2, GoodFacts
  <1>4. CASE PrevAdjacent(f, start) = {}
    <2>1. j.free = f /\ j.start = start /\ j.n = n
      BY <1>4 DEF JoinPrev
    <2>2. ASSUME NEW x \in DOMAIN f PROVE x + f[x] < start \/ start + n <= x
      <3>1. SUFFICES ASSUME x + f[x] = start PROVE FALSE
        BY <1>1, <1>3
      <3>2. x < start /\ \A q \in DOMAIN f : q < start => q <= x
        BY <1>1, <3>1 DEF Separated
      <3> QED BY <1>4, <3>1, <3>2 DEF PrevAdjacent
    <2> QED BY <1>1, <1>2, <2>1, <2>2 DEF Room
  <1>5. CASE PrevAdjacent(f, start) # {}
    <2> DEFINE p == CHOOSE p \in PrevAdjacent(f, start) : TRUE
               d == Without(f, p)
    <2>1. p \in DOMAIN f /\ p < start /\ p + f[p] = start
      BY <1>5 DEF PrevAdjacent
    <2>2. j.free = d /\ j.start = p /\ j.n = n + f[p]
      BY <1>5 DEF JoinPrev
    <2> HIDE DEF p
    <2>3. IsFreeMap(d) /\ DOMAIN d = DOMAIN f \ {p} /\ \A x \in DOMAIN d : d[x] = f[x]
      BY <1>1 DEF Without, IsFreeMap
    <2> HIDE DEF d
    <2>4. Separated(d)
      BY <1>1, <2>3 DEF Separated
    <2>5. p \in Nat /\ f[p] \in Nat /\ f[p] > 0 /\ FirstData <= p
      BY <1>1, <2>1, GoodFacts
    <2>6. Room(d, p, n + f[p])
      <3> SUFFICES ASSUME NEW x \in DOMAIN d
                   PROVE  x + d[x] < p \/ p + (n + f[p]) <= x
        BY DEF Room
      <3>1. x \in DOMAIN f /\ x # p /\ d[x] = f[x] /\ x \in Nat
        BY <1>1, <2>3
      <3>2. CASE x < p
        BY <1>1, <2>1, <3>1, <3>2 DEF Separated
      <3>3. CASE p < x
        <4>1. start < x
          BY <1>1, <2>1, <3>1, <3>3 DEF Separated
        <4>2. start + n <= x
          BY <1>1, <1>3, <3>1, <4>1
        <4> QED BY <2>1, <2>5, <3>1, <4>2
      <3> QED BY <2>5, <3>1, <3>2, <3>3
    <2>7. ASSUME NEW b \in Nat
          PROVE  InExtent(d, b) \/ b \in Run(p, n + f[p])
                   <=> InExtent(f, b) \/ b \in Run(start, n)
      <3>1. b \in Run(p, n + f[p]) <=> b \in Run(p, f[p]) \/ b \in Run(start, n)
        BY <2>1, <2>5 DEF Run
      <3>2. InExtent(f, b) <=> InExtent(d, b) \/ b \in Run(p, f[p])
        BY <2>1, <2>3 DEF InExtent
      <3> QED BY <3>1, <3>2
    <2> QED BY <2>1, <2>2, <2>3, <2>4, <2>5, <2>6, <2>7
  <1> QED BY <1>4, <1>5

\* Allocator::free gives back exactly the run, and leaves no two extents
\* touching.
LEMMA FreeGood ==
  ASSUME NEW f, NEW t, NEW held, Good(f, t, held),
         NEW start \in Nat, NEW n \in Nat \ {0}, Run(start, n) \subseteq held
  PROVE  Good(FreeExtent(f, start, n), t, held \ Run(start, n))
  <1> DEFINE j == JoinPrev(f, start, n)
             g == JoinNext(j.free, j.start, j.n)
             held2 == held \ Run(start, n)
  <1>1. g = FreeExtent(f, start, n)
    BY DEF FreeExtent
  <1>2. /\ IsFreeMap(j.free) /\ Separated(j.free)
        /\ \A x \in DOMAIN j.free : x \in DOMAIN f /\ j.free[x] = f[x]
        /\ j.start \in Nat /\ j.n \in Nat \ {0}
        /\ FirstData <= j.start /\ j.start + j.n = start + n
        /\ Room(j.free, j.start, j.n)
        /\ \A b \in Nat : InExtent(j.free, b) \/ b \in Run(j.start, j.n)
                            <=> InExtent(f, b) \/ b \in Run(start, n)
    BY JoinPrevGood
  <1> HIDE DEF j
  <1>3. /\ IsFreeMap(g) /\ Separated(g)
        /\ \A b \in Nat : InExtent(g, b) <=> InExtent(j.free, b) \/ b \in Run(j.start, j.n)
        /\ \A x \in DOMAIN g :
             \/ x \in DOMAIN j.free /\ g[x] = j.free[x]
             \/ x = j.start /\ g[x] = j.n
             \/ /\ x = j.start /\ j.start + j.n \in DOMAIN j.free
                /\ x + g[x] = j.start + j.n + j.free[j.start + j.n]
    BY <1>2, JoinNextGood
  <1> HIDE DEF g
  <1>4. /\ t \in Nat /\ held \in SUBSET Nat /\ FirstData \in Nat
        /\ \A b \in held : FirstData <= b /\ b < t
    BY AllocatorAssumption DEF Good, PartitionOf
  <1>5. start + n <= t
    <2>1. start + n - 1 \in Run(start, n)
      BY DEF Run
    <2> QED BY <1>4, <2>1
  <1>6. \A x \in DOMAIN f : FirstData <= x /\ x + f[x] <= t
    BY GoodFacts
  <1>7. \A x \in DOMAIN g : FirstData <= x /\ x + g[x] <= t
    BY <1>2, <1>3, <1>4, <1>5, <1>6
  <1>8. ASSUME NEW b \in Nat, FirstData <= b, b < t
        PROVE  b \in held2 <=> ~ InExtent(g, b)
    <2>1. b \in held <=> ~ InExtent(f, b)
      BY <1>4, <1>8 DEF Good, PartitionOf
    <2> QED BY <1>2, <1>3, <2>1
  <1>9. held2 \in SUBSET Nat /\ \A b \in held2 : FirstData <= b /\ b < t
    BY <1>4
  <1>10. Good(g, t, held2)
    BY <1>3, <1>4, <1>7, <1>8, <1>9, Repartition
  <1> QED BY <1>1, <1>10

\* Allocator::maybe_shrink cuts only free blocks off the end.
LEMMA ShrinkGood ==
  ASSUME NEW f, NEW t, NEW held, Good(f, t, held),
         NEW s \in DOMAIN f, MayShrink(f, t, s)
  PROVE  /\ Good(Shrunk(f, s), s + ShrinkSlack, held)
         /\ \A b \in held : b < s
         /\ FirstData <= s /\ s \in Nat
  <1> DEFINE g == Shrunk(f, s)
             u == s + ShrinkSlack
  <1>1. /\ s \in Nat /\ f[s] \in Nat /\ f[s] > 0
        /\ FirstData <= s /\ s + f[s] = t /\ f[s] > ShrinkSlack
        /\ \A x \in DOMAIN f : x <= s /\ (x < s => x + f[x] < s)
        /\ \A b \in Nat : s <= b /\ b < s + f[s] => b \notin held
    BY GoodFacts DEF MayShrink, LastExtent
  <1>2. /\ IsFreeMap(f) /\ t \in Nat /\ held \in SUBSET Nat /\ Separated(f)
        /\ DOMAIN f \subseteq Nat /\ \A x \in DOMAIN f : f[x] \in Nat /\ f[x] > 0
        /\ FirstData \in Nat /\ ShrinkSlack \in Nat /\ u \in Nat
        /\ \A b \in held : FirstData <= b /\ b < t
    BY <1>1, AllocatorAssumption DEF Good, IsFreeMap, PartitionOf
  <1>3. \A b \in held : b < s
    BY <1>1, <1>2
  <1>4. /\ IsFreeMap(g)
        /\ DOMAIN g \subseteq DOMAIN f
        /\ DOMAIN f \ {s} \subseteq DOMAIN g
        /\ s \in DOMAIN g <=> ShrinkSlack > 0
        /\ \A x \in DOMAIN f \ {s} : g[x] = f[x]
        /\ ShrinkSlack > 0 => g[s] = ShrinkSlack
    BY <1>1, <1>2 DEF Shrunk, Insert, Without, IsFreeMap
  <1> HIDE DEF g
  <1>5. Separated(g)
    BY <1>1, <1>2, <1>4 DEF Separated
  <1>6. \A x \in DOMAIN g : FirstData <= x /\ x + g[x] <= u
    <2>1. \A x \in DOMAIN f : FirstData <= x
      BY GoodFacts
    <2> QED BY <1>1, <1>2, <1>4, <2>1
  <1>7. ASSUME NEW b \in Nat, FirstData <= b, b < u
        PROVE  b \in held <=> ~ InExtent(g, b)
    <2>1. CASE b < s
      <3>1. b \in held <=> ~ InExtent(f, b)
        BY <1>1, <1>2, <1>7, <2>1 DEF Good, PartitionOf
      <3>2. InExtent(g, b) <=> InExtent(f, b)
        BY <1>1, <1>2, <1>4, <2>1 DEF InExtent, Run
      <3> QED BY <3>1, <3>2
    <2>2. CASE s <= b
      <3>1. ShrinkSlack > 0 /\ s \in DOMAIN g /\ b \in Run(s, g[s])
        BY <1>1, <1>2, <1>4, <1>7, <2>2 DEF Run
      <3> QED BY <1>3, <2>2, <3>1, <1>1, <1>2 DEF InExtent
    <2> QED BY <1>1, <2>1, <2>2
  <1>8. \A b \in held : FirstData <= b /\ b < u
    BY <1>1, <1>2, <1>3
  <1>9. Good(g, u, held)
    BY <1>2, <1>4, <1>5, <1>6, <1>7, <1>8, Repartition
  <1> QED BY <1>1, <1>3, <1>9 DEF g

-----------------------------------------------------------------------------
(* The operations. *)

\* Image::grow_to reaches the length asked for and never shortens the image.
LEMMA GrowToBounds ==
  ASSUME NEW ln \in Nat, NEW need \in Nat
  PROVE  GrowTo(ln, need) \in Nat /\ GrowTo(ln, need) >= need /\ GrowTo(ln, need) >= ln
  <1>1. CASE need <= ln
    BY <1>1 DEF GrowTo
  <1>2. CASE need > ln
    <2> DEFINE a == need + GrowStep - 1
               q == a \div GrowStep
    <2>1. GrowStep \in Nat /\ GrowStep > 0 /\ a \in Nat
      BY GrowStepAssumption
    <2> HIDE DEF a
    <2>2. q \in Nat /\ q * GrowStep <= a /\ a < q * GrowStep + GrowStep
      BY <2>1
    <2>3. q * GrowStep \in Nat
      BY <2>1, <2>2
    <2>4. GrowTo(ln, need) = q * GrowStep
      BY <1>2 DEF GrowTo, a
    <2> HIDE DEF q
    <2>5. q * GrowStep >= need
      BY <2>1, <2>2, <2>3 DEF a
    <2> QED BY <1>2, <2>3, <2>4, <2>5
  <1> QED BY <1>1, <1>2

\* The same for the block that follows a run.
LEMMA GrowToPast ==
  ASSUME NEW ln \in Nat, NEW b \in Nat, NEW n \in Nat
  PROVE  /\ GrowTo(ln, b + n) \in Nat
         /\ GrowTo(ln, b + n) >= b + n
         /\ GrowTo(ln, b + n) >= ln
  <1> DEFINE need == b + n
  <1>1. need \in Nat
    OBVIOUS
  <1> HIDE DEF need
  <1>2. GrowTo(ln, need) \in Nat /\ GrowTo(ln, need) >= need /\ GrowTo(ln, need) >= ln
    BY <1>1, GrowToBounds
  <1> QED BY <1>2 DEF need

\* Allocator::allocate returns blocks nobody holds, and the map it leaves is
\* the map without them.
LEMMA AllocateGood ==
  ASSUME NEW f, NEW t, NEW held, Good(f, t, held), FirstData <= t,
         NEW ln \in Nat, NEW want \in Nat \ {0},
         NEW o \in AllocateOutcomes(f, t, ln, want)
  PROVE  /\ Good(o.free, o.total, held \cup Run(o.start, want))
         /\ Run(o.start, want) \cap held = {}
         /\ o.start \in Nat /\ FirstData <= o.start /\ o.start + want <= o.total
         /\ o.total \in Nat /\ o.len \in Nat /\ ln <= o.len
  <1>1. t \in Nat
    BY DEF Good
  <1>2. CASE Fits(f, want) # {}
    <2>1. PICK s \in BestFits(f, want) :
            o = [start |-> s, free |-> Carve(f, s, want), total |-> t, len |-> ln]
      BY <1>2 DEF AllocateOutcomes
    <2>2. s \in DOMAIN f /\ f[s] >= want
      BY DEF BestFits, Fits
    <2>3. /\ Good(Carve(f, s, want), t, held \cup Run(s, want))
          /\ Run(s, want) \cap held = {}
          /\ s \in Nat /\ FirstData <= s /\ s + want <= t
      BY <2>2, CarveGood
    <2> QED BY <1>1, <2>1, <2>3
  <1>3. CASE Fits(f, want) = {}
    <2> DEFINE ln2 == GrowTo(ln, t + want)
    <2>1. o = [start |-> t, free |-> Grown(f, t + want, ln2),
               total |-> GrownTotal(t + want, ln2), len |-> ln2]
      BY <1>3 DEF AllocateOutcomes
    <2>2. ln2 \in Nat /\ ln <= ln2
      BY <1>1, GrowToPast
    <2> HIDE DEF ln2
    <2>3. /\ Good(Grown(f, t + want, ln2), GrownTotal(t + want, ln2), held \cup Run(t, want))
          /\ Run(t, want) \cap held = {}
          /\ GrownTotal(t + want, ln2) \in Nat /\ t + want <= GrownTotal(t + want, ln2)
      BY <2>2, GrowGood
    <2> QED BY <1>1, <2>1, <2>2, <2>3
  <1> QED BY <1>2, <1>3

\* Allocator::maybe_shrink keeps the map good and the held blocks inside.
LEMMA ShrinkOutcomeGood ==
  ASSUME NEW f, NEW t, NEW held, Good(f, t, held), FirstData <= t,
         NEW ln \in Nat, NEW k \in ShrinkOutcomes(f, t, ln)
  PROVE  /\ Good(k.free, k.total, held)
         /\ k.total \in Nat /\ FirstData <= k.total /\ k.total <= t
         /\ k.len \in Nat
         /\ \A b \in held : b < ln => b < k.len
  <1>1. t \in Nat /\ held \subseteq Nat /\ ShrinkSlack \in Nat /\ FirstData \in Nat
    BY AllocatorAssumption DEF Good
  <1>2. CASE \E s \in DOMAIN f : MayShrink(f, t, s)
    <2>1. PICK s \in {x \in DOMAIN f : MayShrink(f, t, x)} :
            k = [free |-> Shrunk(f, s), total |-> s + ShrinkSlack,
                 len |-> ShrinkTo(ln, s + ShrinkSlack)]
      BY <1>2 DEF ShrinkOutcomes
    <2>2. /\ Good(Shrunk(f, s), s + ShrinkSlack, held)
          /\ \A b \in held : b < s
          /\ FirstData <= s /\ s \in Nat
      BY ShrinkGood
    <2>3. s + ShrinkSlack < t
      BY DEF MayShrink
    <2>4. ShrinkTo(ln, s + ShrinkSlack) \in Nat
          /\ \A b \in held : b < ln => b < ShrinkTo(ln, s + ShrinkSlack)
      BY <1>1, <2>2 DEF ShrinkTo
    <2> QED BY <1>1, <2>1, <2>2, <2>3, <2>4
  <1>3. CASE ~ \E s \in DOMAIN f : MayShrink(f, t, s)
    <2>1. k = [free |-> f, total |-> t, len |-> ln]
      BY <1>3 DEF ShrinkOutcomes
    <2> QED BY <1>1, <2>1
  <1> QED BY <1>2, <1>3

\* A good map has finitely many extents.
LEMMA GoodFinite ==
  ASSUME NEW f, NEW t, NEW held, Good(f, t, held)
  PROVE  IsFiniteSet(DOMAIN f) /\ Cardinality(DOMAIN f) \in Nat
  <1>1. t \in Nat /\ FirstData \in Nat
    BY AllocatorAssumption DEF Good
  <1>2. DOMAIN f \subseteq FirstData..t
    <2> SUFFICES ASSUME NEW s \in DOMAIN f PROVE s \in FirstData..t
      OBVIOUS
    <2>1. s \in Nat /\ f[s] \in Nat /\ f[s] > 0 /\ FirstData <= s /\ s + f[s] <= t
      BY GoodFacts
    <2> QED BY <1>1, <2>1
  <1>3. IsFiniteSet(FirstData..t)
    BY <1>1, FS_Interval
  <1>4. IsFiniteSet(DOMAIN f)
    BY <1>2, <1>3, FS_Subset
  <1> QED BY <1>4, FS_CardinalityType

\* The blocks write_alloc_blocks asks for hold the encoded map and the slack.
LEMMA SnapBlocksBound ==
  ASSUME NEW f, Cardinality(DOMAIN f) \in Nat
  PROVE  /\ SnapBlocks(f) \in Nat \ {0}
         /\ SnapBlocks(f) * SnapUnits >= EncodedLen(f) + SnapSlack
         /\ EncodedLen(f) \in Nat
  <1> DEFINE e == EncodedLen(f) + SnapSlack
             a == e + SnapUnits - 1
             q == a \div SnapUnits
  <1>1. EncodedLen(f) \in Nat /\ e \in Nat /\ e > 0
    BY AllocatorAssumption DEF EncodedLen
  <1>2. SnapUnits \in Nat /\ SnapUnits > 0 /\ a \in Nat
    BY <1>1, AllocatorAssumption
  <1>3. SnapBlocks(f) = q
    BY DEF SnapBlocks
  <1> HIDE DEF a
  <1>4. q \in Nat /\ q * SnapUnits <= a /\ a < q * SnapUnits + SnapUnits
    BY <1>2
  <1>5. q * SnapUnits \in Nat
    BY <1>2, <1>4
  <1> HIDE DEF q
  <1>6. q * SnapUnits >= e
    BY <1>1, <1>2, <1>4, <1>5 DEF a
  <1>7. q # 0
    BY <1>1, <1>2, <1>4, <1>6
  <1> QED BY <1>1, <1>3, <1>4, <1>6, <1>7

\* One allocation adds at most one extent to the map.
LEMMA AllocateSize ==
  ASSUME NEW f, NEW t, NEW held, Good(f, t, held),
         NEW ln, NEW want \in Nat \ {0},
         NEW o \in AllocateOutcomes(f, t, ln, want)
  PROVE  /\ IsFiniteSet(DOMAIN o.free)
         /\ Cardinality(DOMAIN o.free) \in Nat
         /\ Cardinality(DOMAIN o.free) <= Cardinality(DOMAIN f) + 1
  <1>1. \E x : DOMAIN o.free \subseteq DOMAIN f \cup {x}
    <2>1. CASE Fits(f, want) # {}
      <3>1. PICK s \in BestFits(f, want) : o.free = Carve(f, s, want)
        BY <2>1 DEF AllocateOutcomes
      <3>2. DOMAIN Carve(f, s, want) \subseteq DOMAIN f \cup {s + want}
        BY DEF Carve, Insert, Without
      <3> QED BY <3>1, <3>2
    <2>2. CASE Fits(f, want) = {}
      <3>1. o.free = Grown(f, t + want, GrowTo(ln, t + want))
        BY <2>2 DEF AllocateOutcomes
      <3>2. DOMAIN Grown(f, t + want, GrowTo(ln, t + want)) \subseteq DOMAIN f \cup {t + want}
        BY DEF Grown, Insert
      <3> QED BY <3>1, <3>2
    <2> QED BY <2>1, <2>2
  <1>2. PICK x : DOMAIN o.free \subseteq DOMAIN f \cup {x}
    BY <1>1
  <1>3. IsFiniteSet(DOMAIN f) /\ Cardinality(DOMAIN f) \in Nat
    BY GoodFinite
  <1>4. /\ IsFiniteSet(DOMAIN f \cup {x})
        /\ Cardinality(DOMAIN f \cup {x}) <= Cardinality(DOMAIN f) + 1
        /\ Cardinality(DOMAIN f \cup {x}) \in Nat
    BY <1>3, FS_AddElement
  <1>5. /\ IsFiniteSet(DOMAIN o.free)
        /\ Cardinality(DOMAIN o.free) <= Cardinality(DOMAIN f \cup {x})
    BY <1>2, <1>4, FS_Subset
  <1>6. Cardinality(DOMAIN o.free) \in Nat
    BY <1>5, FS_CardinalityType
  <1> QED BY <1>3, <1>4, <1>5, <1>6

-----------------------------------------------------------------------------
(* The specification. *)

\* What the snapshot on disk must satisfy for a mount to load a partition, and
\* for the next checkpoint to give its blocks back.
SnapInv ==
  Mounted =>
    /\ Good(snap.free, snap.total, snap.used)
    /\ FirstData <= snap.total
    /\ Run(snap.at, snap.n) \subseteq used
    /\ Run(snap.at, snap.n) \subseteq snap.used

\* Nothing the allocator knows of lies past the bound of the model.
WithinBound ==
  /\ total <= MaxBlocks
  /\ Mounted => snap.total <= MaxBlocks /\ snap.at + snap.n <= MaxBlocks

Inv ==
  /\ TypeOK
  /\ WithinBound
  /\ Good(free, total, used)
  /\ FirstData <= total
  /\ SnapInv
  /\ StoredInImage
  /\ SnapshotReadable
  /\ SnapshotFits

LEMMA InitInv == Init => Inv
  <1> SUFFICES ASSUME Init PROVE Inv
    OBVIOUS
  <1> DEFINE e == FirstData + 2
  <1>1. /\ FirstData \in Nat /\ FirstData > 0 /\ e \in Nat /\ InitialBlocks \in Nat
        /\ e <= InitialBlocks /\ used = FirstData..(e - 1)
    BY AllocatorAssumption DEF Init, Table, Run
  <1>2. /\ IsFreeMap(free)
        /\ DOMAIN free = IF InitialBlocks > e THEN {e} ELSE {}
        /\ InitialBlocks > e => free[e] = InitialBlocks - e
    BY <1>1 DEF Init, IsFreeMap
  <1>3. Separated(free)
    BY <1>1, <1>2 DEF Separated
  <1>4. PartitionOf(free, total, used)
    <2>1. total = InitialBlocks
      BY DEF Init
    <2>2. ASSUME NEW b \in FirstData..(total - 1) PROVE b \in used <=> ~ InExtent(free, b)
      BY <1>1, <1>2, <2>1, <2>2 DEF InExtent, Run
    <2> QED BY <1>1, <1>2, <2>1, <2>2 DEF PartitionOf
  <1>5. IsFreeMap([x \in {} |-> 0])
    BY DEF IsFreeMap
  <1>6. TypeOK
    BY <1>1, <1>2, <1>5 DEF Init, TypeOK, NoSnap
  <1>7. ~ Mounted
    BY DEF Mounted, Init, NoSnap
  <1>8. StoredInImage
    BY DEF StoredInImage, Init
  <1>9. Good(free, total, used) /\ FirstData <= total
    BY <1>1, <1>2, <1>3, <1>4 DEF Good, Init
  <1>10. WithinBound
    BY <1>7, AllocatorAssumption DEF WithinBound, Init
  <1> QED BY <1>6, <1>7, <1>8, <1>9, <1>10 DEF Inv, SnapInv, SnapshotReadable, SnapshotFits

LEMMA AllocateInv ==
  ASSUME Inv, NEW want \in 1..MaxWant, NEW writes \in BOOLEAN, Allocate(want, writes)
  PROVE  Inv'
  <1>1. want \in Nat \ {0} /\ len \in Nat /\ total \in Nat
    BY AllocatorAssumption DEF Inv, TypeOK
  <1>2. PICK o \in AllocateOutcomes(free, total, len, want) :
          /\ o.total <= MaxBlocks
          /\ free' = o.free /\ total' = o.total /\ len' = o.len
          /\ used' = used \cup Run(o.start, want)
          /\ dirty' = IF writes THEN dirty \cup Run(o.start, want) ELSE dirty
          /\ stored' = stored /\ snap' = snap
    BY DEF Allocate
  <1>3. /\ Good(o.free, o.total, used \cup Run(o.start, want))
        /\ o.start \in Nat /\ FirstData <= o.start /\ o.start + want <= o.total
        /\ o.total \in Nat /\ o.len \in Nat /\ len <= o.len
    BY <1>1, AllocateGood DEF Inv
  <1>4. TypeOK'
    <2>1. Run(o.start, want) \subseteq Nat
      BY <1>1, <1>3 DEF Run
    <2> QED BY <1>2, <1>3, <2>1 DEF Inv, TypeOK, Good
  <1>5. Good(free, total, used)' /\ (FirstData <= total)'
    BY <1>1, <1>2, <1>3, AllocatorAssumption DEF Good, Separated, PartitionOf, IsFreeMap, InExtent, Run
  <1>6. SnapInv'
    BY <1>2 DEF Inv, SnapInv, Mounted, Good, Separated, PartitionOf, IsFreeMap, InExtent, Run
  <1>7. StoredInImage' /\ SnapshotReadable' /\ SnapshotFits'
    <2>1. \A b \in stored : b \in Nat
      BY DEF Inv, TypeOK
    <2>2. snap.at \in Nat /\ snap.n \in Nat
      BY DEF Inv, TypeOK
    <2> QED BY <1>1, <1>2, <1>3, <2>1, <2>2
            DEF Inv, StoredInImage, SnapshotReadable, SnapshotFits, Mounted, EncodedLen
  <1>8. WithinBound'
    BY <1>2 DEF Inv, WithinBound, Mounted
  <1> QED BY <1>4, <1>5, <1>6, <1>7, <1>8 DEF Inv

LEMMA FreeInv ==
  ASSUME Inv, NEW start \in used, NEW n \in 1..MaxWant, Free(start, n)
  PROVE  Inv'
  <1>1. n \in Nat \ {0} /\ start \in Nat
    BY AllocatorAssumption DEF Inv, TypeOK
  <1>2. /\ Run(start, n) \subseteq used \ Run(snap.at, snap.n)
        /\ free' = FreeExtent(free, start, n)
        /\ used' = used \ Run(start, n)
        /\ stored' = stored \ Run(start, n)
        /\ total' = total /\ len' = len /\ dirty' = dirty /\ snap' = snap
    BY DEF Free
  <1>3. Good(FreeExtent(free, start, n), total, used \ Run(start, n))
    BY <1>1, <1>2, FreeGood DEF Inv
  <1>4. TypeOK'
    BY <1>2, <1>3 DEF Inv, TypeOK, Good
  <1>5. Good(free, total, used)' /\ (FirstData <= total)'
    BY <1>2, <1>3 DEF Inv, Good, Separated, PartitionOf, IsFreeMap, InExtent, Run
  <1>6. SnapInv'
    <2>1. Mounted => Run(snap.at, snap.n) \subseteq used \ Run(start, n)
      BY <1>2 DEF Inv, SnapInv
    <2> QED BY <1>2, <2>1 DEF Inv, SnapInv, Mounted, Good, Separated, PartitionOf, IsFreeMap, InExtent, Run
  <1>7. StoredInImage' /\ SnapshotReadable' /\ SnapshotFits'
    BY <1>2 DEF Inv, StoredInImage, SnapshotReadable, SnapshotFits, Mounted, EncodedLen
  <1>8. WithinBound'
    BY <1>2 DEF Inv, WithinBound, Mounted
  <1> QED BY <1>4, <1>5, <1>6, <1>7, <1>8 DEF Inv

\* A step that leaves the block space alone and does not shorten the image.
LEMMA ImageStepInv ==
  ASSUME Inv,
         free' = free, total' = total, used' = used, snap' = snap,
         len' \in Nat, len <= len', dirty' \subseteq Nat,
         stored' \subseteq used, \A b \in stored' : b < len'
  PROVE  Inv'
  <1>1. TypeOK'
    BY DEF Inv, TypeOK
  <1>2. Good(free, total, used)' /\ (FirstData <= total)'
    BY DEF Inv, Good, Separated, PartitionOf, IsFreeMap, InExtent, Run
  <1>3. SnapInv'
    BY DEF Inv, SnapInv, Mounted, Good, Separated, PartitionOf, IsFreeMap, InExtent, Run
  <1>4. StoredInImage' /\ SnapshotReadable' /\ SnapshotFits'
    <2>1. snap.at \in Nat /\ snap.n \in Nat /\ len \in Nat
      BY DEF Inv, TypeOK
    <2> QED BY <2>1 DEF Inv, StoredInImage, SnapshotReadable, SnapshotFits, Mounted, EncodedLen
  <1>5. WithinBound'
    BY DEF Inv, WithinBound, Mounted
  <1> QED BY <1>1, <1>2, <1>3, <1>4, <1>5 DEF Inv

LEMMA RewriteInv ==
  ASSUME Inv, NEW b \in used, NEW miss \in BOOLEAN, Rewrite(b, miss)
  PROVE  Inv'
  <1>1. b \in Nat /\ len \in Nat /\ dirty \subseteq Nat /\ stored \subseteq used
        /\ stored \subseteq Nat
    BY DEF Inv, TypeOK
  <1>2. len' \in Nat /\ len <= len'
    <2>1. GrowTo(len, b + 1) \in Nat /\ len <= GrowTo(len, b + 1)
      BY <1>1, GrowToPast
    <2> QED BY <1>1, <2>1 DEF Rewrite
  <1>3. \A x \in stored' : x < len'
    BY <1>1, <1>2 DEF Rewrite, Inv, StoredInImage
  <1> QED BY <1>1, <1>2, <1>3, ImageStepInv DEF Rewrite

LEMMA EvictInv ==
  ASSUME Inv, NEW b \in dirty, Evict(b)
  PROVE  Inv'
  <1>1. b \in Nat /\ len \in Nat /\ dirty \subseteq Nat /\ stored \subseteq used
        /\ stored \subseteq Nat
    BY DEF Inv, TypeOK
  <1>2. len' \in Nat /\ len <= len' /\ b < len'
    <2>1. GrowTo(len, b + 1) \in Nat /\ len <= GrowTo(len, b + 1)
          /\ b + 1 <= GrowTo(len, b + 1)
      BY <1>1, GrowToPast
    <2> QED BY <1>1, <2>1 DEF Evict
  <1>3. \A x \in stored' : x < len'
    BY <1>1, <1>2 DEF Evict, Inv, StoredInImage
  <1> QED BY <1>1, <1>2, <1>3, ImageStepInv DEF Evict

LEMMA RemountInv ==
  ASSUME Inv, Remount
  PROVE  Inv'
  <1>1. /\ Mounted /\ used = snap.used
        /\ free' = snap.free /\ total' = snap.total
        /\ len' = len /\ used' = used /\ dirty' = dirty /\ stored' = stored /\ snap' = snap
    BY DEF Remount
  <1>2. Good(snap.free, snap.total, snap.used) /\ FirstData <= snap.total
    BY <1>1 DEF Inv, SnapInv
  <1>3. TypeOK'
    BY <1>1, <1>2 DEF Inv, TypeOK, Good
  <1>4. Good(free, total, used)' /\ (FirstData <= total)'
    BY <1>1, <1>2 DEF Inv, Good, Separated, PartitionOf, IsFreeMap, InExtent, Run
  <1>5. SnapInv'
    BY <1>1 DEF Inv, SnapInv, Mounted, Good, Separated, PartitionOf, IsFreeMap, InExtent, Run
  <1>6. StoredInImage' /\ SnapshotReadable' /\ SnapshotFits'
    BY <1>1 DEF Inv, StoredInImage, SnapshotReadable, SnapshotFits, Mounted, EncodedLen
  <1>7. WithinBound'
    BY <1>1 DEF Inv, WithinBound, Mounted
  <1> QED BY <1>3, <1>4, <1>5, <1>6, <1>7 DEF Inv

\* What the flush and the release of the old snapshot leave to work with.
LEMMA OldSnapGone ==
  ASSUME Inv, NEW ln \in FlushedLens
  PROVE  /\ ln \in Nat /\ len <= ln
         /\ \A b \in dirty : b < ln
         /\ Good(WithoutOldSnap(ln), total, UsedWithoutOldSnap(ln))
         /\ UsedWithoutOldSnap(ln) \subseteq used
  <1>1. len \in Nat /\ dirty \subseteq Nat /\ snap.at \in Nat /\ snap.n \in Nat
    BY DEF Inv, TypeOK
  <1>2. ln \in Nat /\ len <= ln /\ \A b \in dirty : b < ln
    <2>1. CASE dirty = {}
      BY <1>1, <2>1 DEF FlushedLens
    <2>2. CASE dirty # {}
      <3>1. PICK b \in dirty : (\A d \in dirty : d <= b) /\ ln = GrowTo(len, b + 1)
        BY <2>2 DEF FlushedLens
      <3>2. b \in Nat
        BY <1>1
      <3>3. ln \in Nat /\ b + 1 <= ln /\ len <= ln
        BY <1>1, <3>1, <3>2, GrowToPast
      <3> QED BY <1>1, <3>1, <3>2, <3>3
    <2> QED BY <2>1, <2>2
  <1>3. CASE OldSnapReadable(ln)
    <2>1. Run(snap.at, snap.n) \subseteq used /\ snap.n \in Nat \ {0}
      BY <1>1, <1>3 DEF OldSnapReadable, Inv, SnapInv, Mounted
    <2>2. Good(FreeExtent(free, snap.at, snap.n), total, used \ Run(snap.at, snap.n))
      <3> DEFINE at == snap.at
                 n == snap.n
      <3>1. at \in Nat /\ n \in Nat \ {0} /\ Run(at, n) \subseteq used
        BY <1>1, <2>1
      <3> HIDE DEF at, n
      <3>2. Good(FreeExtent(free, at, n), total, used \ Run(at, n))
        BY <3>1, FreeGood DEF Inv
      <3> QED BY <3>2 DEF at, n
    <2> QED BY <1>2, <1>3, <2>2 DEF WithoutOldSnap, UsedWithoutOldSnap
  <1>4. CASE ~ OldSnapReadable(ln)
    BY <1>2, <1>4 DEF WithoutOldSnap, UsedWithoutOldSnap, Inv
  <1> QED BY <1>3, <1>4

LEMMA WriteSnapInv ==
  ASSUME Inv, NEW ln \in FlushedLens, NEW n, n = SnapBlocks(WithoutOldSnap(ln)),
         NEW o \in AllocateOutcomes(WithoutOldSnap(ln), total, ln, n),
         WriteSnap(ln, n, o)
  PROVE  Inv'
  <1> DEFINE f == WithoutOldSnap(ln)
             base == UsedWithoutOldSnap(ln)
             held == base \cup Run(o.start, n)
             written == GrowTo(o.len, o.start + n)
  <1>1. /\ ln \in Nat /\ len <= ln /\ \A b \in dirty : b < ln
        /\ Good(f, total, base) /\ base \subseteq used
    BY OldSnapGone
  <1>2. Cardinality(DOMAIN f) \in Nat
    BY <1>1, GoodFinite
  <1>3. n \in Nat \ {0} /\ n * SnapUnits >= EncodedLen(f) + SnapSlack /\ EncodedLen(f) \in Nat
    BY <1>2, SnapBlocksBound
  <1>4. FirstData <= total /\ len \in Nat /\ dirty \subseteq Nat /\ used \subseteq Nat
        /\ stored \subseteq used /\ \A b \in stored : b < len
    BY DEF Inv, TypeOK, StoredInImage
  <1>5. /\ Good(o.free, o.total, held)
        /\ o.start \in Nat /\ FirstData <= o.start /\ o.start + n <= o.total
        /\ o.total \in Nat /\ o.len \in Nat /\ ln <= o.len
    BY <1>1, <1>3, <1>4, AllocateGood
  <1>6. written \in Nat /\ o.start + n <= written /\ o.len <= written
    BY <1>3, <1>5, GrowToPast
  <1>7. /\ used' = held /\ dirty' = {}
        /\ stored' = (stored \cup (dirty \cap used) \cup Run(o.start, n)) \cap held
        /\ snap' = [at |-> o.start, n |-> n, free |-> o.free, total |-> o.total, used |-> held]
        /\ \E k \in ShrinkOutcomes(o.free, o.total, written) :
             free' = k.free /\ total' = k.total /\ len' = k.len
    BY DEF WriteSnap
  <1>8. PICK k \in ShrinkOutcomes(o.free, o.total, written) :
          free' = k.free /\ total' = k.total /\ len' = k.len
    BY <1>7
  <1>9. FirstData <= o.total /\ FirstData \in Nat
    BY <1>3, <1>5, AllocatorAssumption
  <1> HIDE DEF f, base, held, written
  <1>10. /\ Good(k.free, k.total, held)
         /\ k.total \in Nat /\ FirstData <= k.total /\ k.total <= o.total
         /\ k.len \in Nat
         /\ \A b \in held : b < written => b < k.len
    BY <1>5, <1>6, <1>9, ShrinkOutcomeGood
  <1>11. Run(o.start, n) \subseteq held /\ held \subseteq Nat
         /\ \A b \in Run(o.start, n) : b \in Nat /\ b < o.start + n
    BY <1>3, <1>5 DEF held, Run, Good
  <1>12. TypeOK'
    BY <1>3, <1>5, <1>7, <1>8, <1>10, <1>11 DEF TypeOK, Good
  <1>13. Good(free, total, used)' /\ (FirstData <= total)'
    BY <1>7, <1>8, <1>10 DEF Good, Separated, PartitionOf, IsFreeMap, InExtent, Run
  <1>14. SnapInv'
    <2>1. Good(o.free, o.total, held) /\ FirstData <= o.total /\ Run(o.start, n) \subseteq held
      BY <1>5, <1>9, <1>11
    <2> QED BY <1>7, <2>1 DEF SnapInv, Mounted, Good, Separated, PartitionOf, IsFreeMap, InExtent, Run
  <1>15. StoredInImage'
    <2> SUFFICES ASSUME NEW b \in stored' PROVE b < len'
      BY DEF StoredInImage
    <2>1. b \in held /\ b \in Nat
      BY <1>7, <1>11
    <2>2. b < written
      <3>1. CASE b \in stored
        BY <1>1, <1>4, <1>5, <1>6, <2>1, <3>1
      <3>2. CASE b \in dirty
        BY <1>1, <1>5, <1>6, <2>1, <3>2
      <3>3. CASE b \in Run(o.start, n)
        BY <1>3, <1>5, <1>6, <1>11, <2>1, <3>3
      <3> QED BY <1>7, <3>1, <3>2, <3>3
    <2> QED BY <1>8, <1>10, <2>1, <2>2
  <1>16. SnapshotReadable'
    <2>1. o.start + n - 1 \in Run(o.start, n)
      BY <1>3, <1>5 DEF Run
    <2>2. o.start + n - 1 < k.len
      BY <1>3, <1>5, <1>6, <1>10, <1>11, <2>1
    <2> QED BY <1>3, <1>5, <1>7, <1>8, <1>10, <2>2 DEF SnapshotReadable
  <1>17. SnapshotFits'
    <2>1. Cardinality(DOMAIN o.free) \in Nat
          /\ Cardinality(DOMAIN o.free) <= Cardinality(DOMAIN f) + 1
      BY <1>1, <1>3, AllocateSize DEF f
    <2>2. EncodedLen(o.free) <= EncodedLen(f) + 2 /\ EncodedLen(o.free) \in Nat
      BY <1>2, <2>1 DEF EncodedLen
    <2>3. n * SnapUnits \in Nat
      BY <1>3, AllocatorAssumption
    <2>4. EncodedLen(o.free) <= n * SnapUnits
      BY <1>3, <2>2, <2>3, AllocatorAssumption
    <2> QED BY <1>7, <2>4 DEF SnapshotFits, EncodedLen
  <1>18. WithinBound'
    <2>1. o.total <= MaxBlocks /\ MaxBlocks \in Nat
      BY AllocatorAssumption DEF WriteSnap
    <2>2. k.total <= MaxBlocks /\ o.start + n <= MaxBlocks
      BY <1>3, <1>5, <1>10, <2>1
    <2> QED BY <1>7, <1>8, <2>1, <2>2 DEF WithinBound
  <1> QED BY <1>12, <1>13, <1>14, <1>15, <1>16, <1>17, <1>18 DEF Inv

LEMMA NextInv == Inv /\ [Next]_vars => Inv'
  <1> SUFFICES ASSUME Inv, [Next]_vars PROVE Inv'
    OBVIOUS
  <1>1. ASSUME NEW want \in 1..MaxWant, NEW writes \in BOOLEAN, Allocate(want, writes)
        PROVE  Inv'
    BY <1>1, AllocateInv
  <1>2. ASSUME NEW start \in used, NEW n \in 1..MaxWant, Free(start, n) PROVE Inv'
    BY <1>2, FreeInv
  <1>3. ASSUME NEW b \in used, NEW miss \in BOOLEAN, Rewrite(b, miss) PROVE Inv'
    BY <1>3, RewriteInv
  <1>4. ASSUME NEW b \in dirty, Evict(b) PROVE Inv'
    BY <1>4, EvictInv
  <1>5. CASE FlushAll
    BY <1>5, WriteSnapInv DEF FlushAll
  <1>6. CASE Remount
    BY <1>6, RemountInv
  <1>7. CASE UNCHANGED vars
    <2>1. len \in Nat /\ dirty \subseteq Nat /\ stored \subseteq used
          /\ \A b \in stored : b < len
      BY DEF Inv, TypeOK, StoredInImage
    <2> QED BY <1>7, <2>1, ImageStepInv DEF vars
  <1> QED BY <1>1, <1>2, <1>3, <1>4, <1>5, <1>6, <1>7 DEF Next

\* Every state the allocator reaches satisfies the inductive invariant.
THEOREM AllocatorInv == Spec => []Inv
  <1> QED BY InitInv, NextInv, PTL DEF Spec

\* Type correctness of the allocator, its snapshot and the image length.
THEOREM AllocatorTypes == Spec => []TypeOK
  <1>1. Inv => TypeOK
    BY DEF Inv
  <1> QED BY <1>1, AllocatorInv, PTL

\* No block is handed out twice and none is lost, across growth, shrinking,
\* checkpoints and mounts.
THEOREM NoDoubleAllocation == Spec => []Partition
  <1>1. Inv => Partition
    BY DEF Inv, Good, Partition
  <1> QED BY <1>1, AllocatorInv, PTL

\* The free map never holds two extents that touch.
THEOREM AlwaysCoalesced == Spec => []Coalesced
  <1>1. Inv => Coalesced
    BY DEF Inv, Good, Coalesced
  <1> QED BY <1>1, AllocatorInv, PTL

\* The shrink at the end of a checkpoint never cuts off stored contents.
THEOREM ShrinkKeepsContents == Spec => []StoredInImage
  <1>1. Inv => StoredInImage
    BY DEF Inv
  <1> QED BY <1>1, AllocatorInv, PTL

\* The snapshot a mount reads lies inside the image and holds the whole map.
THEOREM SnapshotSound == Spec => []SnapshotUsable
  <1>1. Inv => SnapshotUsable
    BY DEF Inv, SnapshotUsable
  <1> QED BY <1>1, AllocatorInv, PTL

-----------------------------------------------------------------------------
(* Refinement. *)

\* The invariant makes the free map and the held blocks complements.
LEMMA Complement == Inv => Space!Conserved
  <1> SUFFICES ASSUME Inv PROVE Space!Conserved
    OBVIOUS
  <1>1. /\ IsFreeMap(free) /\ PartitionOf(free, total, used)
        /\ total \in Nat /\ FirstData \in Nat /\ used \subseteq Nat
    BY AllocatorAssumption DEF Inv, Good
  <1>2. used \subseteq FirstData..(total - 1)
    BY <1>1 DEF PartitionOf
  <1>3. ASSUME NEW b PROVE b \in Available <=> b \in (FirstData..(total - 1)) \ used
    <2>1. b \in Available <=> InExtent(free, b)
      BY DEF Available, InExtent
    <2>2. InExtent(free, b) => b \in FirstData..(total - 1)
      BY <1>1 DEF InExtent, IsFreeMap, PartitionOf, Run
    <2> QED BY <1>1, <2>1, <2>2 DEF PartitionOf
  <1> QED BY <1>2, <1>3 DEF Space!Conserved

LEMMA ComplementNext == Inv /\ [Next]_vars => Space!Conserved'
  BY Complement, NextInv, PTL

LEMMA FlushAllMoves ==
  ASSUME Inv, FlushAll
  PROVE  Space!Next
  <1>0. Space!Conserved'
    BY ComplementNext DEF Next
  <1>1. PICK ln \in FlushedLens :
          \E o \in AllocateOutcomes(WithoutOldSnap(ln), total, ln, SnapBlocks(WithoutOldSnap(ln))) :
            WriteSnap(ln, SnapBlocks(WithoutOldSnap(ln)), o)
    BY DEF FlushAll
  <1> DEFINE f == WithoutOldSnap(ln)
             base == UsedWithoutOldSnap(ln)
             n == SnapBlocks(f)
  <1>2. PICK o \in AllocateOutcomes(f, total, ln, n) : WriteSnap(ln, n, o)
    BY <1>1
  <1>3. ln \in Nat /\ Good(f, total, base)
    BY OldSnapGone
  <1>4. n \in Nat \ {0}
    BY <1>3, GoodFinite, SnapBlocksBound
  <1>5. FirstData <= total /\ snap.at \in Nat /\ snap.n \in Nat /\ total \in Nat /\ MaxBlocks \in Nat
        /\ FirstData \in Nat
    BY AllocatorAssumption DEF Inv, TypeOK
  <1>6. used' = base \cup Run(o.start, n) /\ o.total <= MaxBlocks
    BY <1>2 DEF WriteSnap
  <1> HIDE DEF n, f
  <1>7. /\ Run(o.start, n) \cap base = {}
        /\ o.start \in Nat /\ o.start + n <= o.total /\ o.total \in Nat
    BY <1>3, <1>4, <1>5, AllocateGood
  <1>8. o.start \in 0..MaxBlocks /\ n \in 0..MaxBlocks
    BY <1>4, <1>5, <1>6, <1>7
  <1>9. CASE OldSnapReadable(ln)
    <2>1. Mounted /\ snap.at + 1 <= ln
      BY <1>9 DEF OldSnapReadable
    <2>2. Run(snap.at, snap.n) \subseteq used
      BY <2>1 DEF Inv, SnapInv
    <2>3. base = used \ Run(snap.at, snap.n)
      BY <1>9 DEF UsedWithoutOldSnap
    <2>4. snap.at \in 0..MaxBlocks /\ snap.n \in 0..MaxBlocks
      <3>1. snap.at + snap.n <= MaxBlocks
        BY <2>1 DEF Inv, WithinBound
      <3> QED BY <1>5, <3>1
    <2>5. Space!Move(snap.at, snap.n, o.start, n)
      BY <1>4, <1>6, <1>7, <2>2, <2>3 DEF Space!Move, Space!Run, Run
    <2> QED BY <1>0, <1>8, <2>2, <2>4, <2>5 DEF Space!Next, Space!Run, Run
  <1>10. CASE ~ OldSnapReadable(ln)
    <2>1. base = used
      BY <1>10 DEF UsedWithoutOldSnap
    <2>2. UNCHANGED used \/ Space!Move(FirstData, 0, o.start, n)
      <3>1. Run(FirstData, 0) = {}
        BY <1>5 DEF Run
      <3> QED BY <1>4, <1>6, <1>7, <2>1, <3>1 DEF Space!Move, Space!Run, Run
    <2>3. FirstData \in 0..MaxBlocks /\ 0 \in 0..MaxBlocks /\ Space!Run(FirstData, 0) \subseteq used
      BY AllocatorAssumption DEF Space!Run
    <2> QED BY <1>0, <1>8, <2>2, <2>3 DEF Space!Next
  <1> QED BY <1>9, <1>10

LEMMA RefinementStep == Inv /\ [Next]_vars => [Space!Next]_(Space!space)
  <1> SUFFICES ASSUME Inv, [Next]_vars PROVE [Space!Next]_(Space!space)
    OBVIOUS
  <1> USE AllocatorAssumption
  <1>0. Space!Conserved'
    BY ComplementNext
  <1>1. ASSUME NEW want \in 1..MaxWant, NEW writes \in BOOLEAN, Allocate(want, writes)
        PROVE  Space!Next
    <2>1. want \in Nat \ {0} /\ len \in Nat /\ total \in Nat
      BY DEF Inv, TypeOK
    <2>2. PICK o \in AllocateOutcomes(free, total, len, want) :
            o.total <= MaxBlocks /\ used' = used \cup Run(o.start, want) /\ total' = o.total
      BY <1>1 DEF Allocate
    <2>3. /\ Run(o.start, want) \cap used = {}
          /\ o.start \in Nat /\ o.start + want <= o.total /\ o.total \in Nat
      BY <2>1, AllocateGood DEF Inv
    <2>6. total <= o.total
      <3>1. total = o.total \/ o.start = total
        BY DEF AllocateOutcomes
      <3> QED BY <2>1, <2>3, <3>1
    <2>4. o.start \in 0..MaxBlocks /\ want \in 0..MaxBlocks
      BY <2>1, <2>2, <2>3
    <2>5. Space!Take(o.start, want)
      BY <2>1, <2>2, <2>3, <2>6 DEF Space!Take, Space!Run, Run
    <2> QED BY <1>0, <2>4, <2>5 DEF Space!Next
  <1>2. ASSUME NEW start \in used, NEW n \in 1..MaxWant, Free(start, n)
        PROVE  Space!Next
    <2>1. Run(start, n) \subseteq used /\ used' = used \ Run(start, n) /\ total' = total
      BY <1>2 DEF Free
    <2>2. start \in 0..MaxBlocks /\ n \in 0..MaxBlocks
      <3>1. start \in Nat /\ n \in Nat \ {0} /\ total \in Nat /\ total <= MaxBlocks
        BY DEF Inv, TypeOK, WithinBound
      <3>2. start + n - 1 \in used
        BY <2>1, <3>1 DEF Run
      <3>3. start + n - 1 < total
        BY <3>2 DEF Inv, Good, PartitionOf
      <3> QED BY <3>1, <3>3
    <2>3. Space!Give(start, n)
      BY <2>1 DEF Space!Give, Space!Run, Run
    <2> QED BY <1>0, <2>2, <2>3 DEF Space!Next
  <1>3. CASE \E b \in used : \E miss \in BOOLEAN : Rewrite(b, miss)
    BY <1>0, <1>3 DEF Rewrite, Space!Next
  <1>4. CASE \E b \in dirty : Evict(b)
    BY <1>0, <1>4 DEF Evict, Space!Next
  <1>5. CASE FlushAll
    BY <1>5, FlushAllMoves
  <1>6. CASE Remount
    BY <1>0, <1>6 DEF Remount, Space!Next
  <1>7. CASE UNCHANGED vars
    BY <1>7 DEF vars, Space!space, Available
  <1> QED BY <1>1, <1>2, <1>3, <1>4, <1>5, <1>6, <1>7 DEF Next

\* The allocator, with its checkpoints and mounts, implements the promise of
\* BlockSpace: a run is handed out only while nobody holds a block of it.
THEOREM AllocatorRefinesBlockSpace == Spec => ImplementsBlockSpace
  <1>1. Init => Space!Init
    <2>1. Init => Space!Conserved
      BY InitInv, Complement
    <2> QED BY <2>1 DEF Init, Space!Init, Space!Conserved
  <1> QED BY <1>1, AllocatorInv, RefinementStep, PTL DEF Spec, ImplementsBlockSpace, Space!Spec

=============================================================================
