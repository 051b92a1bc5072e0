-------------------------- MODULE InodeTableProofs --------------------------
(***************************************************************************)
(* The inode table keeps what callers made, for any number of inodes that  *)
(* fits the extents of the superblock, any geometry of the table and any   *)
(* attributes.  A state is treated as a value: Sound holds of it at every  *)
(* point of flush_all's loop, relative to the inodes that were not saved   *)
(* yet.  The numbers of inodes come on top.                                *)
(***************************************************************************)
EXTENDS InodeTable, DataFacts

-----------------------------------------------------------------------------
(* What holds of a table and of a state. *)

Ext == [log : Nat, phys : Blocks, len : Nat]

\* The extents follow each other without a gap, are long enough and lie in
\* different places of the image.
IsTable(t) ==
  /\ t \in Seq(Ext) /\ t # <<>>
  /\ t[1].log = 0
  /\ \A k \in 1..(Len(t) - 1) : t[k + 1].log = t[k].log + t[k].len
  /\ \A k \in 1..Len(t) : t[k].len >= GrowBlocks /\ Run(t[k].phys, t[k].len) \subseteq Blocks
  /\ \A j, k \in 1..Len(t) :
       j # k => Run(t[j].phys, t[j].len) \cap Run(t[k].phys, t[k].len) = {}

\* It grew only when all of its slots were taken.
Needed(t) == PerBlock * (LogicalEnd(t) - GrowBlocks) <= MaxIno

BlocksOf(t) == UNION {Run(t[k].phys, t[k].len) : k \in DOMAIN t}

\* The numbers that have a slot, where it is and what it holds.
Slotted(t) == 0..(PerBlock * LogicalEnd(t) - 1)

BlockOf(t, i) == CHOOSE b \in Blocks : SlotBlock(t, i) = {b}

SlotOf(s, i) == s.block[BlockOf(s.table, i)].slots[Slot(i)]

SlotValues == {Unused, 0} \cup Blocks

Types(s) ==
  /\ DOMAIN s = {"table", "alloc", "block", "inodes"}
  /\ s.alloc \subseteq Blocks
  /\ s.block \in [Blocks -> [slots : [0..(PerBlock - 1) -> SlotValues], xattrs : XattrSets]]
  /\ DOMAIN s.inodes \subseteq Inos
  /\ \A i \in DOMAIN s.inodes : s.inodes[i] \in [xattr : XattrSets, block : {0} \cup Blocks]

\* The block of inode i's attributes, 0 for none.
Home(s, i) == IF i \in DOMAIN s.inodes THEN s.inodes[i].block ELSE SlotOf(s, i)

\* A slot holds its inode, those of U aside, which were not saved since they
\* changed.  A slot that no inode ever had may hold anything; the ones that
\* dropped inodes had (Z) are zeroed.
Slots(s, L, U, Z) ==
  /\ DOMAIN L \subseteq Slotted(s.table) \ {0}
  /\ DOMAIN s.inodes \subseteq DOMAIN L /\ U \subseteq DOMAIN s.inodes
  /\ Z \subseteq Slotted(s.table) \ DOMAIN L
  /\ \A i \in Z : SlotOf(s, i) = Unused
  /\ \A i \in DOMAIN L :
       \/ SlotOf(s, i) = Home(s, i) /\ Home(s, i) # Unused
       \/ i \in U /\ Home(s, i) = 0

\* The attributes are in memory, or in the block that the slot names.
Attrs(s, L, U) ==
  /\ \A i \in DOMAIN s.inodes : s.inodes[i].xattr = L[i]
  /\ \A i \in DOMAIN L \ U :
       L[i] = IF Home(s, i) = 0 THEN NoXattrs ELSE s.block[Home(s, i)].xattrs

Owned(s, L, d) ==
  /\ \A i \in DOMAIN L : Home(s, i) \in ({0} \cup Blocks) \ (BlocksOf(s.table) \cup d)
  /\ \A i, j \in DOMAIN L : i # j /\ Home(s, i) # 0 => Home(s, i) # Home(s, j)
  /\ d \subseteq Blocks \ BlocksOf(s.table)
  /\ \A b \in Blocks : b \in s.alloc <=>
       b \notin BlocksOf(s.table) \cup d /\ \A i \in DOMAIN L : Home(s, i) # b

Sound(s, L, U, d, Z) ==
  /\ Types(s) /\ IsTable(s.table) /\ Needed(s.table)
  /\ Slots(s, L, U, Z) /\ Attrs(s, L, U) /\ Owned(s, L, d)

Unborn == (1..(numbers.next - 1)) \ DOMAIN live

Numbers ==
  /\ numbers = [free |-> numbers.free, next |-> numbers.next, count |-> numbers.count]
  /\ numbers.next \in 2..(MaxIno + 1)
  /\ numbers.next <= PerBlock * LogicalEnd(st.table)
  /\ ROOT_INO \in DOMAIN live /\ DOMAIN live \subseteq 1..(numbers.next - 1)
  /\ Enumerates(numbers.free, Unborn)
  /\ numbers.count = Cardinality(DOMAIN live)

Inv == Sound(st, live, dirty, data, Unborn) /\ Numbers

-----------------------------------------------------------------------------
(* The extents of the table. *)

LEMMA Consts ==
  /\ PerBlock \in Nat /\ PerBlock > 0 /\ MaxExts \in Nat /\ MaxExts > 0
  /\ MaxIno \in Nat /\ MaxIno > 0 /\ NBlocks \in Nat /\ NBlocks >= 2
  /\ Blocks = 1..NBlocks /\ Inos = 1..MaxIno /\ GrowBlocks = 2
  BY InodeTableAssumption DEF Blocks, Inos, GrowBlocks

LEMMA TableAt ==
  ASSUME NEW t, IsTable(t)
  PROVE  /\ Len(t) \in Nat /\ Len(t) >= 1 /\ DOMAIN t = 1..Len(t)
         /\ \A k \in 1..Len(t) : /\ t[k] \in Ext
                                 /\ t[k].log \in Nat /\ t[k].phys \in Blocks /\ t[k].len \in Nat
                                 /\ t[k].phys \in Nat /\ t[k].len >= 2
         /\ LogicalEnd(t) \in Nat
  <1>1. Len(t) \in Nat /\ Len(t) # 0 /\ DOMAIN t = 1..Len(t) /\ \A k \in 1..Len(t) : t[k] \in Ext
    BY LenProperties, EmptySeq, ElementOfSeq DEF IsTable
  <1>2. \A k \in 1..Len(t) : t[k].log \in Nat /\ t[k].phys \in Blocks /\ t[k].len \in Nat
    BY <1>1 DEF Ext
  <1>3. \A k \in 1..Len(t) : t[k].phys \in Nat /\ t[k].len >= 2
    BY <1>2, Consts DEF IsTable
  <1>4. LogicalEnd(t) \in Nat
    <2>1. Len(t) \in 1..Len(t)
      BY <1>1
    <2> QED BY <1>2, <2>1 DEF LogicalEnd
  <1> QED BY <1>1, <1>2, <1>3, <1>4

\* Where the extents end, and how many there can be.
LEMMA TableEnds ==
  ASSUME NEW t, IsTable(t)
  PROVE  \A k \in 1..Len(t) :
           /\ t[k].log >= 2 * (k - 1)
           /\ \A j \in 1..Len(t) : j < k => t[j].log + t[j].len <= t[k].log
  <1> DEFINE n == Len(t)
             Ok(k) == /\ t[k].log >= 2 * (k - 1)
                      /\ \A j \in 1..n : j < k => t[j].log + t[j].len <= t[k].log
             S == {m \in Nat : m + 1 <= n => Ok(m + 1)}
  <1>0. n \in Nat /\ \A k \in 1..n : t[k].log \in Nat /\ t[k].len \in Nat /\ t[k].len >= 2
    BY TableAt
  <1>1. 0 \in S
    <2>1. t[1].log = 0
      BY DEF IsTable
    <2> QED BY <1>0, <2>1
  <1>2. ASSUME NEW m \in Nat, m \in S PROVE m + 1 \in S
    <2> SUFFICES ASSUME m + 1 + 1 <= n PROVE Ok(m + 1 + 1)
      OBVIOUS
    <2> DEFINE a == m + 1
    <2>1. a \in 1..(n - 1) /\ a \in 1..n /\ a + 1 \in 1..n /\ a \in Nat
      BY <1>0
    <2>2. Ok(a)
      BY <1>2, <2>1
    <2> HIDE DEF a
    <2>3. t[a + 1].log = t[a].log + t[a].len
      BY <2>1 DEF IsTable
    <2>4. t[a].log \in Nat /\ t[a].len \in Nat /\ t[a].len >= 2
      BY <1>0, <2>1
    <2>5. t[a + 1].log >= 2 * ((a + 1) - 1)
      BY <2>1, <2>2, <2>3, <2>4
    <2>6. ASSUME NEW j \in 1..n, j < a + 1 PROVE t[j].log + t[j].len <= t[a + 1].log
      <3>1. CASE j = a
        BY <2>3, <2>4, <3>1
      <3>2. CASE j < a
        <4> DEFINE u == t[j].log
                   v == t[j].len
                   x == t[a].log
                   y == t[a].len
                   z == t[a + 1].log
        <4>1. u + v <= x /\ u \in Nat /\ v \in Nat
          BY <1>0, <2>2, <3>2
        <4>2. z = x + y /\ x \in Nat /\ y \in Nat
          BY <2>3, <2>4
        <4> HIDE DEF u, v, x, y, z
        <4>3. u + v <= z
          BY <4>1, <4>2
        <4> QED BY <4>3 DEF u, v, z
      <3> QED BY <2>1, <2>6, <3>1, <3>2
    <2> QED BY <2>5, <2>6 DEF a
  <1> HIDE DEF S
  <1>3. Nat \subseteq S
    BY <1>1, <1>2, NatInduct
  <1>4. ASSUME NEW k \in 1..n PROVE Ok(k)
    <2>1. k - 1 \in S /\ (k - 1) + 1 = k /\ k <= n
      BY <1>0, <1>3
    <2> QED BY <2>1 DEF S
  <1> QED BY <1>4

\* Inner::inode_table_capacity counts all of them.
LEMMA CapacityIs ==
  ASSUME NEW t, IsTable(t)
  PROVE  Capacity(t) = PerBlock * LogicalEnd(t) /\ Capacity(t) \in Nat
  <1> DEFINE n == Len(t)
             Is(g) == g = [k \in 0..n |-> IF k = 0 THEN 0 ELSE g[k - 1] + t[k].len]
             up == CHOOSE g : Is(g)
             f == [k \in 0..n |-> IF k = 0 THEN 0 ELSE t[k].log + t[k].len]
  <1>0. n \in Nat /\ n >= 1 /\ \A k \in 1..n : t[k].log \in Nat /\ t[k].len \in Nat
    BY TableAt
  <1>1. ASSUME NEW k \in 1..n PROVE f[k - 1] = t[k].log
    <2>1. k - 1 \in 0..n
      BY <1>0
    <2>2. CASE k = 1
      BY <1>0, <2>1, <2>2 DEF IsTable
    <2>3. CASE k # 1
      <3>1. k - 1 \in 1..(n - 1) /\ (k - 1) + 1 = k
        BY <1>0, <2>3
      <3>2. t[k].log = t[k - 1].log + t[k - 1].len
        BY <3>1 DEF IsTable
      <3> QED BY <2>1, <2>3, <3>1, <3>2
    <2> QED BY <2>2, <2>3
  <1>2. Is(f)
    <2>1. ASSUME NEW k \in 0..n
          PROVE  f[k] = IF k = 0 THEN 0 ELSE f[k - 1] + t[k].len
      <3>1. CASE k = 0
        BY <3>1
      <3>2. CASE k # 0
        <4>1. k \in 1..n
          BY <1>0, <3>2
        <4>2. f[k - 1] = t[k].log /\ f[k] = t[k].log + t[k].len
          BY <1>1, <4>1
        <4> HIDE DEF f
        <4> QED BY <3>2, <4>2
      <3> QED BY <3>1, <3>2
    <2> QED BY <2>1
  <1>3. Is(up)
    <2> HIDE DEF Is
    <2> QED BY <1>2
  <1>4. Capacity(t) = PerBlock * up[n]
    BY DEF Capacity
  <1> HIDE DEF up
  <1>5. \A k \in 0..n : up[k] = IF k = 0 THEN 0 ELSE up[k - 1] + t[k].len
    BY <1>3
  <1> DEFINE S == {k \in Nat : k <= n => up[k] = f[k]}
  <1>6. 0 \in S
    BY <1>0, <1>5
  <1>7. ASSUME NEW k \in Nat, k \in S PROVE k + 1 \in S
    <2> SUFFICES ASSUME k + 1 <= n PROVE up[k + 1] = f[k + 1]
      OBVIOUS
    <2>1. k + 1 \in 1..n /\ k + 1 \in 0..n /\ k + 1 # 0 /\ (k + 1) - 1 = k /\ k <= n
      BY <1>0
    <2>2. up[k] = f[k]
      BY <1>7, <2>1
    <2>3. f[k] = t[k + 1].log /\ f[k + 1] = t[k + 1].log + t[k + 1].len
      BY <1>1, <2>1
    <2> HIDE DEF f
    <2>4. up[k + 1] = up[k] + t[k + 1].len
      BY <1>5, <2>1
    <2> QED BY <2>2, <2>3, <2>4
  <1> HIDE DEF S
  <1>8. n \in S
    BY <1>0, <1>6, <1>7, NatInduct
  <1>9. up[n] = t[n].log + t[n].len
    BY <1>0, <1>8 DEF S
  <1>10. up[n] = LogicalEnd(t) /\ LogicalEnd(t) \in Nat
    BY <1>9, TableAt DEF LogicalEnd
  <1> QED BY <1>4, <1>10, Consts

-----------------------------------------------------------------------------
(* Slots and their places. *)

LEMMA DivMod ==
  ASSUME NEW i \in Nat, NEW e \in Nat, i < PerBlock * e
  PROVE  /\ i \div PerBlock \in 0..(e - 1)
         /\ Slot(i) \in 0..(PerBlock - 1)
         /\ i = PerBlock * (i \div PerBlock) + Slot(i)
  <1> DEFINE P == PerBlock
             q == i \div P
             r == i % P
  <1>1. P \in Nat /\ P > 0
    BY Consts
  <1> HIDE DEF P
  <1>2. q \in Int /\ r \in 0..(P - 1) /\ i = P * q + r
    BY <1>1
  <1> HIDE DEF q, r
  <1>3. q >= 0
    <2>1. CASE q < 0
      <3>1. P * q <= P * (-1)
        BY <1>1, <1>2, <2>1
      <3> QED BY <1>1, <1>2, <3>1
    <2> QED BY <1>2, <2>1
  <1>4. q < e
    <2>1. CASE q >= e
      <3>1. P * q >= P * e
        BY <1>1, <1>2, <2>1
      <3> QED BY <1>1, <1>2, <3>1 DEF P
    <2> QED BY <1>2, <2>1
  <1> QED BY <1>2, <1>3, <1>4 DEF P, q, r, Slot

Covers(t, k, l) == k \in 1..Len(t) /\ t[k].log <= l /\ l < t[k].log + t[k].len

PlaceIn(t, k, l) == t[k].phys + (l - t[k].log)

\* map_extents finds one block.
LEMMA MappedAt ==
  ASSUME NEW t, IsTable(t), NEW l \in 0..(LogicalEnd(t) - 1)
  PROVE  \E k \in 1..Len(t) : Covers(t, k, l) /\ Mapped(t, l) = {PlaceIn(t, k, l)}
  <1> DEFINE n == Len(t)
             S == {k \in 1..n : l < t[k].log + t[k].len}
  <1>0. /\ n \in Nat /\ n >= 1 /\ DOMAIN t = 1..n
        /\ \A k \in 1..n : t[k].log \in Nat /\ t[k].len \in Nat
        /\ LogicalEnd(t) \in Nat /\ l \in Nat
    BY TableAt
  <1>1. n \in S
    BY <1>0 DEF LogicalEnd
  <1>2. PICK k \in S : \A j \in S : k <= j
    <2>1. S \in SUBSET Nat /\ S # {}
      BY <1>1
    <2> QED BY <2>1, SmallestNat
  <1>3. t[k].log <= l
    <2>1. CASE k = 1
      BY <1>0, <2>1 DEF IsTable
    <2>2. CASE k # 1
      <3>1. k - 1 \in 1..(n - 1) /\ k - 1 \in 1..n /\ (k - 1) + 1 = k /\ k - 1 < k
        BY <1>0, <2>2
      <3>2. k - 1 \notin S
        BY <1>2, <3>1
      <3>3. t[k].log = t[k - 1].log + t[k - 1].len
        BY <3>1 DEF IsTable
      <3> QED BY <1>0, <3>1, <3>2, <3>3
    <2> QED BY <2>1, <2>2
  <1>4. Covers(t, k, l)
    BY <1>3 DEF Covers
  <1>5. \A j \in 1..n : Covers(t, j, l) => j = k
    <2> SUFFICES ASSUME NEW j \in 1..n, Covers(t, j, l), j # k PROVE FALSE
      OBVIOUS
    <2>1. CASE j < k
      <3>1. t[j].log + t[j].len <= t[k].log
        BY <2>1, TableEnds
      <3> QED BY <1>0, <1>4, <3>1 DEF Covers
    <2>2. CASE k < j
      <3>1. t[k].log + t[k].len <= t[j].log
        BY <2>2, TableEnds
      <3> QED BY <1>0, <1>4, <3>1 DEF Covers
    <2> QED BY <1>0, <2>1, <2>2
  <1>6. {j \in DOMAIN t : t[j].log <= l /\ l < t[j].log + t[j].len} = {k}
    BY <1>0, <1>4, <1>5 DEF Covers
  <1>7. Mapped(t, l) = {PlaceIn(t, k, l)}
    <2>1. Mapped(t, l) = {t[x].phys + (l - t[x].log) : x \in {k}}
      BY <1>6 DEF Mapped
    <2> QED BY <2>1 DEF PlaceIn
  <1> QED BY <1>4, <1>7

LEMMA PlaceFacts ==
  ASSUME NEW t, IsTable(t), NEW l \in Nat, NEW k, Covers(t, k, l)
  PROVE  /\ PlaceIn(t, k, l) \in Run(t[k].phys, t[k].len)
         /\ PlaceIn(t, k, l) \in BlocksOf(t)
         /\ PlaceIn(t, k, l) \in Blocks
         /\ PlaceIn(t, k, l) - t[k].phys = l - t[k].log
  <1>1. /\ k \in 1..Len(t) /\ DOMAIN t = 1..Len(t)
        /\ t[k].log \in Nat /\ t[k].len \in Nat /\ t[k].phys \in Nat
        /\ t[k].log <= l /\ l < t[k].log + t[k].len
    BY TableAt DEF Covers
  <1>2. PlaceIn(t, k, l) \in Run(t[k].phys, t[k].len) /\ PlaceIn(t, k, l) - t[k].phys = l - t[k].log
    <2> DEFINE lo == t[k].phys
               n == t[k].len
               at == t[k].log
    <2>1. lo \in Nat /\ n \in Nat /\ at \in Nat /\ at <= l /\ l < at + n
      BY <1>1
    <2>2. PlaceIn(t, k, l) = lo + (l - at) /\ Run(t[k].phys, t[k].len) = lo..(lo + n - 1)
      BY DEF PlaceIn, Run
    <2> HIDE DEF lo, n, at
    <2>3. lo + (l - at) \in lo..(lo + n - 1) /\ lo + (l - at) - lo = l - at
      BY <2>1
    <2>4. PlaceIn(t, k, l) \in Run(t[k].phys, t[k].len)
      BY <2>2, <2>3
    <2>5. PlaceIn(t, k, l) - lo = l - at
      BY <2>1, <2>2
    <2> QED BY <2>4, <2>5 DEF lo, at
  <1>3. Run(t[k].phys, t[k].len) \subseteq Blocks
    BY <1>1 DEF IsTable
  <1> QED BY <1>1, <1>2, <1>3 DEF BlocksOf

LEMMA BlocksOfFacts ==
  ASSUME NEW t, IsTable(t)
  PROVE  BlocksOf(t) \subseteq Blocks
  BY TableAt DEF BlocksOf, IsTable

\* Every number that has a slot has it in one block of the table.
LEMMA SlotAt ==
  ASSUME NEW t, IsTable(t), NEW i \in Slotted(t)
  PROVE  /\ SlotBlock(t, i) = {BlockOf(t, i)}
         /\ BlockOf(t, i) \in BlocksOf(t) /\ BlockOf(t, i) \in Blocks
         /\ Slot(i) \in 0..(PerBlock - 1)
         /\ i \in Nat /\ i < Capacity(t)
         /\ \E k \in 1..Len(t) : /\ Covers(t, k, i \div PerBlock)
                                 /\ BlockOf(t, i) = PlaceIn(t, k, i \div PerBlock)
  <1> DEFINE e == LogicalEnd(t)
             l == i \div PerBlock
  <1>1. e \in Nat /\ PerBlock * e \in Nat
    BY TableAt, Consts
  <1>2. i \in Nat /\ i < PerBlock * e
    BY <1>1 DEF Slotted
  <1>3. l \in 0..(e - 1) /\ Slot(i) \in 0..(PerBlock - 1)
    BY <1>1, <1>2, DivMod
  <1>4. PICK k \in 1..Len(t) : Covers(t, k, l) /\ Mapped(t, l) = {PlaceIn(t, k, l)}
    <2> HIDE DEF l
    <2> QED BY <1>3, MappedAt
  <1> DEFINE b == PlaceIn(t, k, l)
  <1>5. b \in BlocksOf(t) /\ b \in Blocks
    <2>1. l \in Nat
      BY <1>1, <1>3
    <2> HIDE DEF l
    <2> QED BY <1>4, <2>1, PlaceFacts
  <1>6. SlotBlock(t, i) = {b}
    BY <1>4 DEF SlotBlock
  <1> HIDE DEF b
  <1>7. BlockOf(t, i) = b
    BY <1>5, <1>6 DEF BlockOf
  <1>8. i < Capacity(t)
    BY <1>2, CapacityIs
  <1> QED BY <1>2, <1>3, <1>4, <1>5, <1>6, <1>7, <1>8 DEF b

\* Two numbers never share a slot.
LEMMA SlotsDiffer ==
  ASSUME NEW t, IsTable(t), NEW i \in Slotted(t), NEW j \in Slotted(t),
         BlockOf(t, i) = BlockOf(t, j), Slot(i) = Slot(j)
  PROVE  i = j
  <1> DEFINE l == i \div PerBlock
             m == j \div PerBlock
             e == LogicalEnd(t)
  <1>1. e \in Nat /\ PerBlock * e \in Nat /\ PerBlock \in Nat
    BY TableAt, Consts
  <1>2. i \in Nat /\ i < PerBlock * e /\ j \in Nat /\ j < PerBlock * e
    BY <1>1 DEF Slotted
  <1>3. /\ l \in Nat /\ m \in Nat
        /\ i = PerBlock * l + Slot(i) /\ j = PerBlock * m + Slot(j)
    <2>1. i \div PerBlock \in 0..(e - 1) /\ i = PerBlock * (i \div PerBlock) + Slot(i)
      BY <1>1, <1>2, DivMod
    <2>2. j \div PerBlock \in 0..(e - 1) /\ j = PerBlock * (j \div PerBlock) + Slot(j)
      BY <1>1, <1>2, DivMod
    <2>3. l \in 0..(e - 1) /\ m \in 0..(e - 1)
      BY <2>1, <2>2
    <2> QED BY <2>1, <2>2, <2>3
  <1>4. PICK k \in 1..Len(t) : Covers(t, k, l) /\ BlockOf(t, i) = PlaceIn(t, k, l)
    BY SlotAt
  <1>5. PICK h \in 1..Len(t) : Covers(t, h, m) /\ BlockOf(t, j) = PlaceIn(t, h, m)
    BY SlotAt
  <1> HIDE DEF l, m, e
  <1>6. /\ PlaceIn(t, k, l) \in Run(t[k].phys, t[k].len)
        /\ PlaceIn(t, k, l) - t[k].phys = l - t[k].log
    BY <1>3, <1>4, PlaceFacts
  <1>7. /\ PlaceIn(t, h, m) \in Run(t[h].phys, t[h].len)
        /\ PlaceIn(t, h, m) - t[h].phys = m - t[h].log
    BY <1>3, <1>5, PlaceFacts
  <1>8. h = k
    BY <1>4, <1>5, <1>6, <1>7 DEF IsTable
  <1>9. t[k].log \in Nat
    BY TableAt
  <1>10. l = m
    <2>1. PlaceIn(t, k, l) = PlaceIn(t, k, m)
      BY <1>4, <1>5, <1>8
    <2>2. l - t[k].log = m - t[k].log
      BY <1>6, <1>7, <1>8, <2>1
    <2> QED BY <1>3, <1>9, <2>2
  <1> QED BY <1>3, <1>10

-----------------------------------------------------------------------------
(* Blocks and what they hold. *)

Block == [slots : [0..(PerBlock - 1) -> SlotValues], xattrs : XattrSets]

LEMMA NoXattrsType == NoXattrs \in XattrSets
  <1>1. NoXattrs \in [{} -> Values]
    BY DEF NoXattrs
  <1> QED BY <1>1 DEF XattrSets

LEMMA NoSlotsFacts ==
  /\ NoSlots \in [0..(PerBlock - 1) -> SlotValues]
  /\ \A k \in 0..(PerBlock - 1) : NoSlots[k] = Unused
  BY DEF NoSlots, SlotValues

LEMMA BlockFields ==
  ASSUME NEW x \in Block
  PROVE  /\ x = [slots |-> x.slots, xattrs |-> x.xattrs]
         /\ x.slots \in [0..(PerBlock - 1) -> SlotValues]
         /\ x.xattrs \in XattrSets
         /\ \A k \in 0..(PerBlock - 1) : x.slots[k] \in SlotValues
  BY DEF Block

\* A slot is written.
LEMMA SetSlotIs ==
  ASSUME NEW x \in Block, NEW i, Slot(i) \in 0..(PerBlock - 1), NEW v \in SlotValues
  PROVE  /\ SetSlot(x, i, v) \in Block
         /\ SetSlot(x, i, v).slots = [x.slots EXCEPT ![Slot(i)] = v]
         /\ SetSlot(x, i, v).slots[Slot(i)] = v
         /\ \A k \in 0..(PerBlock - 1) : k # Slot(i) => SetSlot(x, i, v).slots[k] = x.slots[k]
  <1> DEFINE f == [x.slots EXCEPT ![Slot(i)] = v]
  <1>1. x = [slots |-> x.slots, xattrs |-> x.xattrs] /\ x.slots \in [0..(PerBlock - 1) -> SlotValues]
    BY BlockFields
  <1>2. SetSlot(x, i, v) = [slots |-> f, xattrs |-> NoXattrs]
    <2> DEFINE g == x.slots
               y == x.xattrs
    <2>1. x = [slots |-> g, xattrs |-> y]
      BY <1>1
    <2>2. SetSlot(x, i, v) = [[x EXCEPT !.slots = [x.slots EXCEPT ![Slot(i)] = v]] EXCEPT !.xattrs = NoXattrs]
      BY DEF SetSlot
    <2> HIDE DEF g, y, f
    <2>3. [x EXCEPT !.slots = f] = [slots |-> f, xattrs |-> y]
      BY <2>1
    <2> QED BY <2>2, <2>3 DEF f
  <1>3. /\ f \in [0..(PerBlock - 1) -> SlotValues] /\ f[Slot(i)] = v
        /\ \A k \in 0..(PerBlock - 1) : k # Slot(i) => f[k] = x.slots[k]
    BY <1>1
  <1> HIDE DEF f
  <1> QED BY <1>2, <1>3, NoXattrsType DEF Block, f

\* The slot of number i in the blocks m of table t.
Cell(t, m, i) == m[BlockOf(t, i)].slots[Slot(i)]

LEMMA CellIs ==
  ASSUME NEW s
  PROVE  \A i : SlotOf(s, i) = Cell(s.table, s.block, i)
  BY DEF SlotOf, Cell

LEMMA CellType ==
  ASSUME NEW t, IsTable(t), NEW m \in [Blocks -> Block], NEW i \in Slotted(t)
  PROVE  Cell(t, m, i) \in SlotValues
  <1>1. BlockOf(t, i) \in Blocks /\ Slot(i) \in 0..(PerBlock - 1)
    BY SlotAt
  <1>2. m[BlockOf(t, i)] \in Block
    BY <1>1
  <1> QED BY <1>1, <1>2, BlockFields DEF Cell

\* What writing v to the slot of i does to the blocks.
Written(t, m, i, v) == [m EXCEPT ![BlockOf(t, i)] = SetSlot(@, i, v)]

LEMMA WrittenIs ==
  ASSUME NEW t, IsTable(t), NEW m \in [Blocks -> Block], NEW i \in Slotted(t), NEW v \in SlotValues
  PROVE  LET w == Written(t, m, i, v) IN
         /\ w \in [Blocks -> Block]
         /\ Cell(t, w, i) = v
         /\ \A j \in Slotted(t) : j # i => Cell(t, w, j) = Cell(t, m, j)
         /\ \A b \in Blocks \ BlocksOf(t) : w[b] = m[b]
  <1> DEFINE a == BlockOf(t, i)
             x == SetSlot(m[a], i, v)
             w == Written(t, m, i, v)
  <1>1. a \in Blocks /\ a \in BlocksOf(t) /\ Slot(i) \in 0..(PerBlock - 1)
    BY SlotAt
  <1>2. m[a] \in Block
    BY <1>1
  <1>3. /\ x \in Block /\ x.slots[Slot(i)] = v
        /\ \A k \in 0..(PerBlock - 1) : k # Slot(i) => x.slots[k] = m[a].slots[k]
    <2> DEFINE y == m[a]
    <2>1. y \in Block
      BY <1>2
    <2> HIDE DEF y
    <2>2. /\ SetSlot(y, i, v) \in Block
          /\ SetSlot(y, i, v).slots = [y.slots EXCEPT ![Slot(i)] = v]
          /\ SetSlot(y, i, v).slots[Slot(i)] = v
          /\ \A k \in 0..(PerBlock - 1) : k # Slot(i) => SetSlot(y, i, v).slots[k] = y.slots[k]
      BY <1>1, <2>1, SetSlotIs
    <2> QED BY <2>2 DEF y
  <1>4. w = [m EXCEPT ![a] = x]
    BY DEF Written
  <1> HIDE DEF x, w
  <1>5. w \in [Blocks -> Block] /\ w[a] = x /\ \A b \in Blocks : b # a => w[b] = m[b]
    BY <1>1, <1>3, <1>4
  <1>6. Cell(t, w, i) = v
    BY <1>3, <1>5 DEF Cell
  <1>7. ASSUME NEW j \in Slotted(t), j # i PROVE Cell(t, w, j) = Cell(t, m, j)
    <2>1. BlockOf(t, j) \in Blocks /\ Slot(j) \in 0..(PerBlock - 1)
      BY SlotAt
    <2>2. CASE BlockOf(t, j) # a
      BY <1>5, <2>1, <2>2 DEF Cell
    <2>3. CASE BlockOf(t, j) = a
      <3>1. Slot(j) # Slot(i)
        BY <1>7, <2>3, SlotsDiffer
      <3> QED BY <1>3, <1>5, <2>1, <2>3, <3>1 DEF Cell
    <2> QED BY <2>2, <2>3
  <1>8. \A b \in Blocks \ BlocksOf(t) : w[b] = m[b]
    BY <1>1, <1>5
  <1> QED BY <1>5, <1>6, <1>7, <1>8 DEF w

\* Writing to a block outside of the table leaves the slots alone.
LEMMA OutsideKeeps ==
  ASSUME NEW t, IsTable(t), NEW m \in [Blocks -> Block], NEW b \in Blocks \ BlocksOf(t), NEW x \in Block
  PROVE  LET w == [m EXCEPT ![b] = x] IN
         /\ w \in [Blocks -> Block] /\ w[b] = x
         /\ \A j \in Slotted(t) : Cell(t, w, j) = Cell(t, m, j)
         /\ \A c \in Blocks \ {b} : w[c] = m[c]
  <1> DEFINE w == [m EXCEPT ![b] = x]
  <1>1. w \in [Blocks -> Block] /\ w[b] = x /\ \A c \in Blocks \ {b} : w[c] = m[c]
    OBVIOUS
  <1> HIDE DEF w
  <1>2. \A j \in Slotted(t) : BlockOf(t, j) \in Blocks \ {b}
    BY SlotAt
  <1>3. \A j \in Slotted(t) : Cell(t, w, j) = Cell(t, m, j)
    BY <1>1, <1>2 DEF Cell
  <1> QED BY <1>1, <1>3 DEF w

-----------------------------------------------------------------------------
(* Finding an inode. *)

LEMMA SoundTypes ==
  ASSUME NEW s, Types(s)
  PROVE  s.block \in [Blocks -> Block]
  BY DEF Types, Block

LEMMA StoredIs ==
  ASSUME NEW s, Types(s), IsTable(s.table), NEW i \in Slotted(s.table)
  PROVE  /\ SlotOf(s, i) \in SlotValues
         /\ SlotOf(s, i) = Unused => Stored(s, i) = {}
         /\ SlotOf(s, i) # Unused =>
              Stored(s, i) = {[xattr |-> IF SlotOf(s, i) = 0 THEN NoXattrs ELSE s.block[SlotOf(s, i)].xattrs,
                               block |-> SlotOf(s, i)]}
  <1> DEFINE v == SlotOf(s, i)
             a == BlockOf(s.table, i)
             at == {b \in SlotBlock(s.table, i) : s.block[b].slots[Slot(i)] # Unused}
             xb == {s.block[b].slots[Slot(i)] : b \in at}
             N(b) == [xattr |-> IF b = 0 THEN NoXattrs ELSE s.block[b].xattrs, block |-> b]
  <1>1. SlotBlock(s.table, i) = {a} /\ i \in Nat /\ i < Capacity(s.table)
    BY SlotAt
  <1>2. ~ (i >= Capacity(s.table))
    BY <1>1, CapacityIs
  <1>3. Stored(s, i) = {N(b) : b \in xb}
    BY <1>2 DEF Stored
  <1>4. s.block[a].slots[Slot(i)] = v
    BY DEF SlotOf
  <1>5. v \in SlotValues
    BY SoundTypes, CellType, CellIs
  <1> HIDE DEF v, N
  <1>6. CASE v = Unused
    BY <1>1, <1>3, <1>4, <1>5, <1>6 DEF v
  <1>7. CASE v # Unused
    <2>1. xb = {v}
      BY <1>1, <1>4, <1>7
    <2> HIDE DEF xb
    <2>2. Stored(s, i) = {N(v)}
      BY <1>3, <2>1
    <2> QED BY <1>5, <1>7, <2>2 DEF v, N
  <1> QED BY <1>6, <1>7

\* get_inode finds every inode that exists, with its attributes.
LEMMA GetIs ==
  ASSUME NEW s, NEW L, NEW U, NEW d, NEW Z, Sound(s, L, U, d, Z), NEW i \in DOMAIN L
  PROVE  /\ Get(s, i) = {[xattr |-> L[i], block |-> Home(s, i)]}
         /\ Home(s, i) \in {0} \cup Blocks
         /\ i \in Slotted(s.table) /\ i \in Nat /\ i # 0
  <1>1. i \in Slotted(s.table) /\ i # 0 /\ U \subseteq DOMAIN s.inodes
    BY DEF Sound, Slots
  <1>2. i \in Nat
    BY <1>1, SlotAt DEF Sound
  <1>3. Home(s, i) \in {0} \cup Blocks
    BY DEF Sound, Owned
  <1>4. CASE i \in DOMAIN s.inodes
    <2>1. s.inodes[i].xattr = L[i] /\ s.inodes[i] \in [xattr : XattrSets, block : {0} \cup Blocks]
      BY <1>4 DEF Sound, Attrs, Types
    <2>2. s.inodes[i] = [xattr |-> L[i], block |-> s.inodes[i].block]
      BY <2>1
    <2> QED BY <1>1, <1>2, <1>3, <1>4, <2>2 DEF Get, Home
  <1>5. CASE i \notin DOMAIN s.inodes
    <2>1. i \notin U
      BY <1>1, <1>5
    <2>2. SlotOf(s, i) = Home(s, i) /\ Home(s, i) # Unused
      BY <2>1 DEF Sound, Slots
    <2>3. L[i] = IF Home(s, i) = 0 THEN NoXattrs ELSE s.block[Home(s, i)].xattrs
      BY <2>1 DEF Sound, Attrs
    <2>4. Stored(s, i) = {[xattr |-> IF SlotOf(s, i) = 0 THEN NoXattrs ELSE s.block[SlotOf(s, i)].xattrs,
                           block |-> SlotOf(s, i)]}
      BY <1>1, <2>2, StoredIs DEF Sound
    <2> QED BY <1>1, <1>2, <1>3, <1>5, <2>2, <2>3, <2>4 DEF Get
  <1> QED BY <1>4, <1>5

-----------------------------------------------------------------------------
(* Saving an inode. *)

Fields == {"table", "alloc", "block", "inodes"}

\* A block that inode i may keep its attributes in, and the blocks m once they
\* were written there.
Stores(s, L, i, b, m) ==
  \/ b = 0 /\ L[i] = NoXattrs /\ m = s.block
  \/ /\ b \in Blocks /\ (b \in s.alloc \/ b = Home(s, i))
     /\ m = [s.block EXCEPT ![b] = [slots |-> NoSlots, xattrs |-> L[i]]]

LEMMA StoresFacts ==
  ASSUME NEW s, NEW L, NEW U, NEW d, NEW Z, Sound(s, L, U, d, Z),
         NEW i \in U, NEW b, NEW m, Stores(s, L, i, b, m)
  PROVE  /\ m \in [Blocks -> Block]
         /\ \A j \in Slotted(s.table) : Cell(s.table, m, j) = Cell(s.table, s.block, j)
         /\ \A c \in Blocks \ {b} : m[c] = s.block[c]
         /\ b \in ({0} \cup Blocks) \ (BlocksOf(s.table) \cup d)
         /\ b # 0 => m[b].slots = NoSlots /\ m[b].xattrs = L[i]
         /\ b = 0 => L[i] = NoXattrs
         /\ \A j \in DOMAIN L : j # i /\ b # 0 => Home(s, j) # b
  <1>0. /\ s.block \in [Blocks -> Block] /\ IsTable(s.table) /\ i \in DOMAIN s.inodes /\ i \in DOMAIN L
        /\ s.inodes[i].xattr = L[i] /\ s.inodes[i].xattr \in XattrSets
    BY SoundTypes DEF Sound, Types, Slots, Attrs
  <1>1. 0 \notin Blocks /\ 0 \notin BlocksOf(s.table) /\ 0 \notin d
    BY <1>0, Consts, BlocksOfFacts DEF Sound, Owned
  <1>2. CASE b = 0 /\ L[i] = NoXattrs /\ m = s.block
    BY <1>0, <1>1, <1>2
  <1>3. CASE /\ b \in Blocks /\ (b \in s.alloc \/ b = Home(s, i))
             /\ m = [s.block EXCEPT ![b] = [slots |-> NoSlots, xattrs |-> L[i]]]
    <2> DEFINE x == [slots |-> NoSlots, xattrs |-> L[i]]
               w == [s.block EXCEPT ![b] = x]
    <2>1. x \in Block /\ x.slots = NoSlots /\ x.xattrs = L[i]
      BY <1>0, NoSlotsFacts DEF Block
    <2>2. /\ b \notin BlocksOf(s.table) \cup d
          /\ \A j \in DOMAIN L : j # i => Home(s, j) # b
      BY <1>0, <1>1, <1>3 DEF Sound, Owned
    <2>3. m = w /\ b # 0
      BY <1>1, <1>3
    <2> HIDE DEF x
    <2>4. /\ w \in [Blocks -> Block] /\ w[b] = x
          /\ \A j \in Slotted(s.table) : Cell(s.table, w, j) = Cell(s.table, s.block, j)
          /\ \A c \in Blocks \ {b} : w[c] = s.block[c]
      BY <1>0, <1>3, <2>1, <2>2, OutsideKeeps
    <2> HIDE DEF w
    <2> QED BY <1>3, <2>1, <2>2, <2>3, <2>4
  <1> QED BY <1>2, <1>3 DEF Stores

\* The state p after inode i was saved with its attributes in block b.
Saved(s, L, i, b, m, p) ==
  /\ DOMAIN p = Fields /\ p.table = s.table
  /\ p.alloc = {c \in Blocks : (c \in s.alloc \/ c = Home(s, i)) /\ c # b}
  /\ p.block = Written(s.table, m, i, b)
  /\ DOMAIN p.inodes = DOMAIN s.inodes
  /\ \A j \in DOMAIN s.inodes :
       p.inodes[j] = IF j = i THEN [xattr |-> L[i], block |-> b] ELSE s.inodes[j]

LEMMA SavedKeeps ==
  ASSUME NEW s, NEW L, NEW U, NEW d, NEW Z, Sound(s, L, U, d, Z),
         NEW i \in U, NEW b, NEW m, Stores(s, L, i, b, m),
         NEW p, Saved(s, L, i, b, m, p)
  PROVE  Sound(p, L, U \ {i}, d, Z)
  <1> DEFINE t == s.table
             w == p.block
  <1>0. /\ s.block \in [Blocks -> Block] /\ IsTable(t) /\ i \in DOMAIN s.inodes /\ i \in DOMAIN L
        /\ s.inodes[i].xattr = L[i] /\ s.inodes[i].xattr \in XattrSets /\ U \subseteq DOMAIN s.inodes
        /\ DOMAIN s.inodes \subseteq DOMAIN L /\ DOMAIN L \subseteq Slotted(t) \ {0}
    BY SoundTypes DEF Sound, Types, Slots, Attrs
  <1>1. /\ m \in [Blocks -> Block]
        /\ \A j \in Slotted(t) : Cell(t, m, j) = Cell(t, s.block, j)
        /\ \A c \in Blocks \ {b} : m[c] = s.block[c]
        /\ b \in ({0} \cup Blocks) \ (BlocksOf(t) \cup d)
        /\ b # 0 => m[b].slots = NoSlots /\ m[b].xattrs = L[i]
        /\ b = 0 => L[i] = NoXattrs
        /\ \A j \in DOMAIN L : j # i /\ b # 0 => Home(s, j) # b
    BY StoresFacts
  <1>2. 0 \notin Blocks /\ Unused \notin {0} \cup Blocks /\ b \in SlotValues /\ b # Unused
    BY <1>1, Consts DEF SlotValues, Unused
  <1>3. /\ w \in [Blocks -> Block]
        /\ Cell(t, w, i) = b
        /\ \A j \in Slotted(t) : j # i => Cell(t, w, j) = Cell(t, m, j)
        /\ \A c \in Blocks \ BlocksOf(t) : w[c] = m[c]
    BY <1>0, <1>1, <1>2, WrittenIs DEF Saved
  <1>4. /\ SlotOf(p, i) = b
        /\ \A j \in Slotted(t) : j # i => SlotOf(p, j) = SlotOf(s, j)
    BY <1>0, <1>1, <1>3, CellIs DEF Saved
  <1>5. Home(p, i) = b /\ \A j \in DOMAIN L : j # i => Home(p, j) = Home(s, j)
    BY <1>0, <1>4 DEF Home, Saved
  <1>6. /\ DOMAIN p = Fields /\ p.table = t /\ DOMAIN p.inodes = DOMAIN s.inodes
        /\ p.alloc = {c \in Blocks : (c \in s.alloc \/ c = Home(s, i)) /\ c # b}
        /\ \A j \in DOMAIN s.inodes :
             p.inodes[j] = IF j = i THEN [xattr |-> L[i], block |-> b] ELSE s.inodes[j]
    BY DEF Saved
  <1> HIDE DEF w
  <1>7. Types(p)
    <2>1. \A j \in DOMAIN p.inodes : p.inodes[j] \in [xattr : XattrSets, block : {0} \cup Blocks]
      <3> TAKE j \in DOMAIN p.inodes
      <3>1. CASE j = i
        BY <1>0, <1>1, <1>6, <3>1
      <3>2. CASE j # i
        BY <1>6, <3>2 DEF Sound, Types
      <3> QED BY <3>1, <3>2
    <2>2. DOMAIN p.inodes \subseteq Inos
      BY <1>6 DEF Sound, Types
    <2> QED BY <1>3, <1>6, <2>1, <2>2 DEF Types, Fields, w, Block
  <1>8. IsTable(p.table) /\ Needed(p.table)
    BY <1>6 DEF Sound
  <1>9. Slots(p, L, U \ {i}, Z)
    <2>1. Z \subseteq Slotted(p.table) \ DOMAIN L
      BY <1>6 DEF Sound, Slots
    <2>2. \A j \in Z : SlotOf(p, j) = Unused
      BY <1>0, <1>4, <1>6, <2>1 DEF Sound, Slots
    <2>3. ASSUME NEW j \in DOMAIN L
          PROVE  \/ SlotOf(p, j) = Home(p, j) /\ Home(p, j) # Unused
                 \/ j \in U \ {i} /\ Home(p, j) = 0
      <3>1. CASE j = i
        BY <1>2, <1>4, <1>5, <3>1
      <3>2. CASE j # i
        BY <1>0, <1>4, <1>5, <3>2 DEF Sound, Slots
      <3> QED BY <3>1, <3>2
    <2> QED BY <1>0, <1>6, <2>1, <2>2, <2>3 DEF Slots
  <1>10. Attrs(p, L, U \ {i})
    <2>1. \A j \in DOMAIN p.inodes : p.inodes[j].xattr = L[j]
      BY <1>6 DEF Sound, Attrs
    <2>2. ASSUME NEW j \in DOMAIN L \ (U \ {i})
          PROVE  L[j] = IF Home(p, j) = 0 THEN NoXattrs ELSE p.block[Home(p, j)].xattrs
      <3>1. CASE j = i
        BY <1>1, <1>2, <1>3, <1>5, <3>1 DEF w
      <3>2. CASE j # i
        <4>1. /\ L[j] = IF Home(s, j) = 0 THEN NoXattrs ELSE s.block[Home(s, j)].xattrs
              /\ Home(s, j) \in ({0} \cup Blocks) \ BlocksOf(t)
          BY <3>2 DEF Sound, Attrs, Owned
        <4>2. CASE Home(s, j) = 0
          BY <1>5, <3>2, <4>1, <4>2
        <4>3. CASE Home(s, j) # 0
          <5>1. Home(s, j) \in Blocks \ {b}
            BY <1>1, <1>2, <3>2, <4>1, <4>3
          <5>2. w[Home(s, j)] = s.block[Home(s, j)]
            BY <1>1, <1>3, <4>1, <5>1
          <5> QED BY <1>5, <3>2, <4>1, <4>3, <5>2 DEF w
        <4> QED BY <4>2, <4>3
      <3> QED BY <3>1, <3>2
    <2> QED BY <2>1, <2>2 DEF Attrs
  <1>11. Owned(p, L, d)
    <2>1. \A j \in DOMAIN L : Home(p, j) \in ({0} \cup Blocks) \ (BlocksOf(p.table) \cup d)
      BY <1>1, <1>5, <1>6 DEF Sound, Owned
    <2>2. \A j, k \in DOMAIN L : j # k /\ Home(p, j) # 0 => Home(p, j) # Home(p, k)
      BY <1>0, <1>1, <1>5 DEF Sound, Owned
    <2>3. d \subseteq Blocks \ BlocksOf(p.table)
      BY <1>6 DEF Sound, Owned
    <2>4. ASSUME NEW c \in Blocks
          PROVE  c \in p.alloc <=> c \notin BlocksOf(p.table) \cup d /\ \A j \in DOMAIN L : Home(p, j) # c
      <3>1. c \in s.alloc <=> c \notin BlocksOf(t) \cup d /\ \A j \in DOMAIN L : Home(s, j) # c
        BY DEF Sound, Owned
      <3>2. c # 0
        BY <1>2
      <3>3. c = Home(s, i) => c \notin BlocksOf(t) \cup d /\ \A j \in DOMAIN L : j # i => Home(s, j) # c
        BY <1>0, <3>2 DEF Sound, Owned
      <3>4. c \in p.alloc <=> (c \in s.alloc \/ c = Home(s, i)) /\ c # b
        BY <1>6
      <3>5. (\A j \in DOMAIN L : Home(p, j) # c) <=> c # b /\ \A j \in DOMAIN L : j # i => Home(s, j) # c
        BY <1>0, <1>5
      <3> QED BY <1>0, <1>6, <3>1, <3>3, <3>4, <3>5
    <2> QED BY <2>1, <2>2, <2>3, <2>4 DEF Owned
  <1> QED BY <1>7, <1>8, <1>9, <1>10, <1>11 DEF Sound

\* An inode that has a slot does not make the table grow.
LEMMA CoveringIs ==
  ASSUME NEW s, NEW i, i < Capacity(s.table)
  PROVE  Covering(s, i) = {s}
  <1> DEFINE More(o) == IF i < Capacity(o.table) THEN {o} ELSE Grow(o)
             Is(g) == g = [k \in 0..MaxIno |-> IF k = 0 THEN {s} ELSE UNION {More(o) : o \in g[k - 1]}]
             after == CHOOSE g : Is(g)
             f == [k \in 0..MaxIno |-> {s}]
  <1>0. MaxIno \in Nat
    BY Consts
  <1>1. More(s) = {s}
    OBVIOUS
  <1>2. Covering(s, i) = after[MaxIno]
    BY DEF Covering
  <1> HIDE DEF More
  <1>3. Is(f)
    <2>1. ASSUME NEW k \in 0..MaxIno
          PROVE  f[k] = IF k = 0 THEN {s} ELSE UNION {More(o) : o \in f[k - 1]}
      <3>1. CASE k = 0
        BY <3>1
      <3>2. CASE k # 0
        <4>1. k - 1 \in 0..MaxIno
          BY <1>0, <3>2
        <4>2. f[k - 1] = {s} /\ f[k] = {s}
          BY <4>1
        <4> HIDE DEF f
        <4>3. UNION {More(o) : o \in f[k - 1]} = {s}
          BY <1>1, <4>2
        <4> QED BY <3>2, <4>2, <4>3
      <3> QED BY <3>1, <3>2
    <2> QED BY <2>1
  <1>4. Is(after)
    <2> HIDE DEF Is
    <2> QED BY <1>3
  <1> HIDE DEF after
  <1>5. \A k \in 0..MaxIno : after[k] = IF k = 0 THEN {s} ELSE UNION {More(o) : o \in after[k - 1]}
    BY <1>4
  <1> DEFINE one == {s}
             S == {k \in Nat : k <= MaxIno => after[k] = one}
  <1>6. 0 \in S
    <2>1. after[0] = one
      <3>1. 0 \in 0..MaxIno
        BY <1>0
      <3> QED BY <1>5, <3>1, Zenon
    <2> HIDE DEF one
    <2> QED BY <2>1
  <1>7. ASSUME NEW k \in Nat, k \in S PROVE k + 1 \in S
    <2>1. ASSUME k + 1 <= MaxIno PROVE after[k + 1] = one
      <3>1. k + 1 \in 0..MaxIno /\ k + 1 # 0 /\ (k + 1) - 1 = k /\ k <= MaxIno
        BY <1>0, <2>1
      <3>2. after[k] = one
        <4> HIDE DEF one
        <4> QED BY <1>7, <3>1
      <3>3. after[k + 1] = UNION {More(o) : o \in after[k]}
        BY <1>5, <3>1
      <3> QED BY <1>1, <3>2, <3>3
    <2> HIDE DEF one
    <2> QED BY <2>1
  <1> HIDE DEF S
  <1>8. MaxIno \in S
    BY <1>0, <1>6, <1>7, NatInduct
  <1> QED BY <1>0, <1>2, <1>8 DEF S

\* The allocator hands out free blocks only.
LEMMA StartsIs ==
  ASSUME NEW free, free \subseteq Blocks, NEW n \in Nat, n >= 1, NEW lo \in Starts(free, n)
  PROVE  lo \in free /\ lo \in Nat /\ Run(lo, n) \subseteq free
  <1>1. PICK r \in FreeRuns(free, n) : lo = r[1]
    BY DEF Starts
  <1>2. r \in free \X (n..NBlocks) /\ Run(r[1], r[2]) \subseteq free
    BY <1>1 DEF FreeRuns
  <1>3. lo \in free /\ r[2] \in n..NBlocks
    BY <1>1, <1>2
  <1> DEFINE m == r[2]
  <1>4. lo \in Nat /\ m \in Nat /\ n <= m
    <2>1. m \in n..NBlocks /\ lo \in Blocks
      BY <1>3
    <2> HIDE DEF m
    <2> QED BY <2>1, Consts
  <1>5. Run(lo, m) \subseteq free
    BY <1>1, <1>2
  <1> HIDE DEF m
  <1>6. Run(lo, n) \subseteq Run(lo, m)
    BY <1>4 DEF Run
  <1> QED BY <1>1, <1>3, <1>4, <1>5, <1>6

\* What store_xattrs did.
Placed(s, L, i, b, m, o) ==
  /\ DOMAIN o = Fields /\ o.table = s.table /\ o.block = m
  /\ o.alloc = {c \in Blocks : (c \in s.alloc \/ c = Home(s, i)) /\ c # b}
  /\ DOMAIN o.inodes = DOMAIN s.inodes
  /\ \A j \in DOMAIN s.inodes :
       o.inodes[j] = IF j = i THEN [xattr |-> L[i], block |-> b] ELSE s.inodes[j]

LEMMA SetInodeIs ==
  ASSUME NEW s, DOMAIN s = Fields, NEW i, NEW v
  PROVE  LET o == SetInode(s, i, v) IN
         /\ DOMAIN o = Fields /\ o.table = s.table /\ o.alloc = s.alloc /\ o.block = s.block
         /\ DOMAIN o.inodes = DOMAIN s.inodes \cup {i}
         /\ \A j \in DOMAIN o.inodes : o.inodes[j] = IF j = i THEN v ELSE s.inodes[j]
  BY DEF SetInode, Put, Fields

LEMMA StoreXattrsIs ==
  ASSUME NEW s, NEW L, NEW U, NEW d, NEW Z, Sound(s, L, U, d, Z),
         NEW i \in U, NEW o \in StoreXattrs(s, i)
  PROVE  \E b, m : Stores(s, L, i, b, m) /\ Placed(s, L, i, b, m, o)
  <1> DEFINE n == s.inodes[i]
             h == Home(s, i)
  <1>1. /\ i \in DOMAIN s.inodes /\ i \in DOMAIN L /\ h = n.block /\ n.xattr = L[i]
        /\ n \in [xattr : XattrSets, block : {0} \cup Blocks] /\ DOMAIN s = Fields
        /\ s.alloc \subseteq Blocks
    BY DEF Sound, Slots, Attrs, Types, Home, Fields
  <1>2. 0 \notin Blocks
    BY Consts
  <1>3. h \in {0} \cup Blocks /\ h \notin s.alloc
    BY <1>1, <1>2 DEF Sound, Owned
  <1>4. CASE n.xattr = NoXattrs
    <2> DEFINE q == SetInode(s, i, NewInode)
    <2>1. /\ DOMAIN q = Fields /\ q.table = s.table /\ q.alloc = s.alloc /\ q.block = s.block
          /\ DOMAIN q.inodes = DOMAIN s.inodes \cup {i}
          /\ \A j \in DOMAIN q.inodes : q.inodes[j] = IF j = i THEN NewInode ELSE s.inodes[j]
      BY <1>1, SetInodeIs
    <2>2. o = [q EXCEPT !.alloc = q.alloc \cup ({n.block} \ {0})]
      BY <1>4 DEF StoreXattrs
    <2> HIDE DEF q
    <2>3. /\ DOMAIN o = Fields /\ o.table = s.table /\ o.block = s.block /\ o.inodes = q.inodes
          /\ o.alloc = s.alloc \cup ({h} \ {0})
      BY <1>1, <2>1, <2>2 DEF Fields
    <2>4. o.alloc = {c \in Blocks : (c \in s.alloc \/ c = h) /\ c # 0}
      BY <1>1, <1>2, <1>3, <2>3
    <2>5. NewInode = [xattr |-> L[i], block |-> 0]
      BY <1>1, <1>4 DEF NewInode
    <2>6. Placed(s, L, i, 0, s.block, o)
      BY <1>1, <2>1, <2>3, <2>4, <2>5 DEF Placed
    <2>7. Stores(s, L, i, 0, s.block)
      BY <1>1, <1>4 DEF Stores
    <2> QED BY <2>6, <2>7
  <1>5. CASE n.xattr # NoXattrs
    <2> DEFINE x == [slots |-> NoSlots, xattrs |-> n.xattr]
    <2>1. PICK b \in IF n.block # 0 THEN {n.block} ELSE Starts(s.alloc, 1) :
            o = [SetInode(s, i, [n EXCEPT !.block = b]) EXCEPT !.block[b] = x, !.alloc = @ \ {b}]
      BY <1>5 DEF StoreXattrs
    <2>2. b \in Blocks /\ (b \in s.alloc \/ b = h) /\ (h # 0 => b = h)
      <3>1. CASE n.block # 0
        BY <1>1, <1>3, <2>1, <3>1
      <3>2. CASE n.block = 0
        <4>1. b \in Starts(s.alloc, 1)
          BY <2>1, <3>2
        <4>2. b \in s.alloc
          <5>1. 1 \in Nat /\ 1 >= 1
            OBVIOUS
          <5> QED BY <1>1, <4>1, <5>1, StartsIs
        <4> QED BY <1>1, <3>2, <4>2
      <3> QED BY <3>1, <3>2
    <2> DEFINE v == [n EXCEPT !.block = b]
               q == SetInode(s, i, v)
               m == [s.block EXCEPT ![b] = x]
    <2>3. v = [xattr |-> L[i], block |-> b]
      BY <1>1
    <2> HIDE DEF v
    <2>4. /\ DOMAIN q = Fields /\ q.table = s.table /\ q.alloc = s.alloc /\ q.block = s.block
          /\ DOMAIN q.inodes = DOMAIN s.inodes \cup {i}
          /\ \A j \in DOMAIN q.inodes : q.inodes[j] = IF j = i THEN v ELSE s.inodes[j]
      BY <1>1, SetInodeIs
    <2>5. o = [[q EXCEPT !.block = [q.block EXCEPT ![b] = x]] EXCEPT !.alloc = q.alloc \ {b}]
      <3>1. o = [q EXCEPT !.block[b] = x, !.alloc = @ \ {b}]
        BY <2>1 DEF v
      <3> HIDE DEF q, x
      <3> QED BY <2>4, <3>1 DEF Fields
    <2> HIDE DEF q
    <2>6. /\ DOMAIN o = Fields /\ o.table = s.table /\ o.block = m /\ o.inodes = q.inodes
          /\ o.alloc = s.alloc \ {b}
      <3> HIDE DEF x
      <3> QED BY <2>4, <2>5 DEF Fields
    <2>7. o.alloc = {c \in Blocks : (c \in s.alloc \/ c = h) /\ c # b}
      BY <1>1, <1>2, <1>3, <2>2, <2>6
    <2>8. Placed(s, L, i, b, m, o)
      <3> HIDE DEF m
      <3> QED BY <1>1, <2>3, <2>4, <2>6, <2>7 DEF Placed
    <2>9. Stores(s, L, i, b, m)
      BY <1>1, <2>2 DEF Stores
    <2> QED BY <2>8, <2>9
  <1> QED BY <1>4, <1>5

\* persist_inode: one inode less to save, the same table and the same inodes
\* in memory.
LEMMA PersistKeeps ==
  ASSUME NEW s, NEW L, NEW U, NEW d, NEW Z, Sound(s, L, U, d, Z), NEW i \in U, NEW p \in Persist(s, i)
  PROVE  Sound(p, L, U \ {i}, d, Z) /\ p.table = s.table /\ DOMAIN p.inodes = DOMAIN s.inodes
  <1>1. PICK o \in StoreXattrs(s, i) : p \in WriteInode(o, i)
    BY DEF Persist
  <1>2. PICK b, m : Stores(s, L, i, b, m) /\ Placed(s, L, i, b, m, o)
    BY <1>1, StoreXattrsIs
  <1>3. /\ DOMAIN o = Fields /\ o.table = s.table /\ o.block = m
        /\ o.alloc = {c \in Blocks : (c \in s.alloc \/ c = Home(s, i)) /\ c # b}
        /\ DOMAIN o.inodes = DOMAIN s.inodes
        /\ \A j \in DOMAIN s.inodes :
             o.inodes[j] = IF j = i THEN [xattr |-> L[i], block |-> b] ELSE s.inodes[j]
    BY <1>2 DEF Placed
  <1>4. IsTable(s.table) /\ i \in Slotted(s.table) /\ i \in DOMAIN s.inodes
    BY DEF Sound, Slots
  <1>5. SlotBlock(s.table, i) = {BlockOf(s.table, i)} /\ i < Capacity(s.table)
    BY <1>4, SlotAt
  <1>6. Covering(o, i) = {o}
    BY <1>3, <1>5, CoveringIs
  <1>7. p = [o EXCEPT !.block[BlockOf(s.table, i)] = SetSlot(@, i, o.inodes[i].block)]
    BY <1>1, <1>3, <1>5, <1>6 DEF WriteInode
  <1>8. o.inodes[i].block = b
    BY <1>3, <1>4
  <1>9. p = [o EXCEPT !.block = Written(s.table, m, i, b)]
    <2> DEFINE a == BlockOf(s.table, i)
    <2>1. p = [o EXCEPT !.block = [o.block EXCEPT ![a] = SetSlot(o.block[a], i, o.inodes[i].block)]]
      <3> HIDE DEF a
      <3> QED BY <1>3, <1>7 DEF Fields, a
    <2> QED BY <1>3, <1>8, <2>1 DEF Written
  <1>10. Saved(s, L, i, b, m, p)
    <2> DEFINE w == Written(s.table, m, i, b)
    <2>1. p = [o EXCEPT !.block = w]
      BY <1>9
    <2> HIDE DEF w
    <2>2. DOMAIN p = Fields /\ p.table = o.table /\ p.alloc = o.alloc /\ p.block = w /\ p.inodes = o.inodes
      BY <1>3, <2>1 DEF Fields
    <2> QED BY <1>3, <2>2 DEF Saved, w
  <1> QED BY <1>2, <1>10, SavedKeeps DEF Saved

-----------------------------------------------------------------------------
(* The loop of flush_all. *)

\* Saying that fewer inodes were saved is no harm.
LEMMA SoundMore ==
  ASSUME NEW s, NEW L, NEW U, NEW d, NEW Z, Sound(s, L, U, d, Z),
         NEW V, U \subseteq V, V \subseteq DOMAIN s.inodes
  PROVE  Sound(s, L, V, d, Z)
  BY DEF Sound, Slots, Attrs

\* The states after inode i was saved in one of the states X.
SaveOne(X, i) == UNION {Persist(o, i) : o \in X}

SaveBody(g, E) == IF E = {} THEN {st} ELSE UNION {SaveOne(g[E \ {i}], i) : i \in E}

LEMMA SaveBodySame ==
  ASSUME NEW f, NEW g, NEW E, \A i \in E : f[E \ {i}] = g[E \ {i}]
  PROVE  SaveBody(f, E) = SaveBody(g, E)
  <1>1. {SaveOne(f[E \ {i}], i) : i \in E} = {SaveOne(g[E \ {i}], i) : i \in E}
    OBVIOUS
  <1> QED BY <1>1, Zenon DEF SaveBody

\* The recursion over the sets of inodes has a solution.
LEMMA SavesExist ==
  ASSUME NEW D, IsFiniteSet(D)
  PROVE  \E g : g = [E \in SUBSET D |-> SaveBody(g, E)]
  <1> DEFINE T(n) == {E \in SUBSET D : Cardinality(E) <= n}
             Upto(n, g) == g = [E \in T(n) |-> SaveBody(g, E)]
             S == {n \in Nat : \E g : Upto(n, g)}
  <1>0. \A E \in SUBSET D : IsFiniteSet(E) /\ Cardinality(E) \in Nat
    BY FS_Subset, FS_CardinalityType
  <1>1. 0 \in S
    <2> DEFINE g == [E \in T(0) |-> {st}]
    <2>1. ASSUME NEW E \in T(0) PROVE E = {}
      <3>1. E \in SUBSET D /\ Cardinality(E) <= 0
        OBVIOUS
      <3>2. IsFiniteSet(E) /\ Cardinality(E) = 0
        BY <1>0, <3>1
      <3> QED BY <3>2, FS_EmptySet
    <2>2. \A E \in T(0) : g[E] = SaveBody(g, E)
      BY <2>1 DEF SaveBody
    <2>3. Upto(0, g)
      BY <2>2
    <2> QED BY <2>3
  <1>2. ASSUME NEW n \in Nat, n \in S PROVE n + 1 \in S
    <2>1. PICK g : Upto(n, g)
      BY <1>2
    <2> DEFINE f == [E \in T(n + 1) |-> SaveBody(g, E)]
    <2>2. ASSUME NEW E \in T(n + 1), NEW i \in E PROVE E \ {i} \in T(n) /\ E \ {i} \in T(n + 1)
      <3>1. E \in SUBSET D /\ Cardinality(E) <= n + 1 /\ IsFiniteSet(E) /\ Cardinality(E) \in Nat
        BY <1>0
      <3>2. Cardinality(E \ {i}) = Cardinality(E) - 1
        BY <2>2, <3>1, FS_RemoveElement
      <3>3. E \ {i} \in SUBSET D
        BY <3>1
      <3> QED BY <3>1, <3>2, <3>3
    <2>3. ASSUME NEW E \in T(n) PROVE g[E] = SaveBody(g, E)
      BY <2>1
    <2>4. ASSUME NEW E \in T(n + 1) PROVE f[E] = SaveBody(f, E)
      <3>1. \A i \in E : f[E \ {i}] = g[E \ {i}]
        BY <2>2, <2>3
      <3>2. f[E] = SaveBody(g, E)
        OBVIOUS
      <3> HIDE DEF f
      <3> QED BY <3>1, <3>2, SaveBodySame
    <2>5. Upto(n + 1, f)
      BY <2>4
    <2> HIDE DEF Upto
    <2> QED BY <2>5
  <1>3. Cardinality(D) \in Nat
    BY FS_CardinalityType
  <1>4. Cardinality(D) \in S
    <2> HIDE DEF S
    <2> QED BY <1>1, <1>2, <1>3, NatInduct
  <1>5. T(Cardinality(D)) = SUBSET D
    <2>1. \A E \in SUBSET D : Cardinality(E) <= Cardinality(D)
      BY FS_Subset
    <2> QED BY <2>1
  <1>6. PICK g : Upto(Cardinality(D), g)
    BY <1>4
  <1>7. g = [E \in SUBSET D |-> SaveBody(g, E)]
    BY <1>5, <1>6
  <1> QED BY <1>7

LEMMA PersistedKeeps ==
  ASSUME Sound(st, live, dirty, data, Unborn), NEW D, D \subseteq dirty, NEW p \in Persisted(D)
  PROVE  Sound(p, live, dirty \ D, data, Unborn) /\ p.table = st.table /\ DOMAIN p.inodes = DOMAIN st.inodes
  <1> DEFINE Is(g) == g = [E \in SUBSET D |-> SaveBody(g, E)]
             done == CHOOSE g : Is(g)
             Good(E, o) == /\ Sound(o, live, dirty \ E, data, Unborn) /\ o.table = st.table
                           /\ DOMAIN o.inodes = DOMAIN st.inodes
             S == {n \in Nat : \A E \in SUBSET D : Cardinality(E) = n => \A o \in done[E] : Good(E, o)}
  <1>0. IsFiniteSet(D)
    <2>1. D \subseteq 1..MaxIno
      BY Consts DEF Sound, Slots, Types
    <2>2. IsFiniteSet(1..MaxIno)
      BY Consts, FS_Interval
    <2> QED BY <2>1, <2>2, FS_Subset
  <1>1. \A E \in SUBSET D : IsFiniteSet(E) /\ Cardinality(E) \in Nat
    BY <1>0, FS_Subset, FS_CardinalityType
  <1>2. Persisted(D) = done[D]
    BY DEF Persisted, SaveBody, SaveOne
  <1>3. Is(done)
    <2>1. \E g : Is(g)
      BY <1>0, SavesExist
    <2> HIDE DEF Is
    <2> QED BY <2>1
  <1> HIDE DEF done
  <1>4. \A E \in SUBSET D : done[E] = SaveBody(done, E)
    BY <1>3
  <1>5. 0 \in S
    <2>1. ASSUME NEW E \in SUBSET D, Cardinality(E) = 0, NEW o \in done[E] PROVE Good(E, o)
      <3>1. E = {}
        BY <1>1, <2>1, FS_EmptySet
      <3>2. o = st
        BY <1>4, <2>1, <3>1 DEF SaveBody
      <3>3. dirty \ E = dirty
        BY <3>1
      <3> QED BY <3>2, <3>3
    <2> QED BY <2>1
  <1>6. ASSUME NEW n \in Nat, n \in S PROVE n + 1 \in S
    <2>1. ASSUME NEW E \in SUBSET D, Cardinality(E) = n + 1, NEW o \in done[E] PROVE Good(E, o)
      <3>1. E # {}
        BY <2>1, FS_EmptySet
      <3>2. o \in UNION {SaveOne(done[E \ {i}], i) : i \in E}
        BY <1>4, <2>1, <3>1 DEF SaveBody
      <3>3. PICK i \in E : o \in SaveOne(done[E \ {i}], i)
        BY <3>2
      <3>4. PICK q \in done[E \ {i}] : o \in Persist(q, i)
        BY <3>3 DEF SaveOne
      <3>5. E \ {i} \in SUBSET D /\ Cardinality(E \ {i}) = n
        <4>1. Cardinality(E \ {i}) = Cardinality(E) - 1
          BY <1>1, FS_RemoveElement
        <4> QED BY <2>1, <4>1
      <3>6. Good(E \ {i}, q)
        BY <1>6, <3>4, <3>5
      <3> DEFINE U == dirty \ (E \ {i})
      <3>7. i \in U /\ U \ {i} = dirty \ E
        OBVIOUS
      <3>8. Sound(q, live, U, data, Unborn)
        BY <3>6
      <3> HIDE DEF U
      <3>9. Sound(o, live, U \ {i}, data, Unborn) /\ o.table = q.table /\ DOMAIN o.inodes = DOMAIN q.inodes
        BY <3>4, <3>7, <3>8, PersistKeeps
      <3> QED BY <3>6, <3>7, <3>9
    <2> HIDE DEF Good
    <2> QED BY <2>1
  <1> HIDE DEF S
  <1>7. Cardinality(D) \in S
    BY <1>1, <1>5, <1>6, NatInduct
  <1>8. Good(D, p)
    BY <1>2, <1>7 DEF S
  <1> QED BY <1>8

-----------------------------------------------------------------------------
(* Inodes in memory. *)

LEMMA SoundFacts ==
  ASSUME NEW s, NEW L, NEW U, NEW d, NEW Z, Sound(s, L, U, d, Z)
  PROVE  /\ DOMAIN s = Fields /\ s.block \in [Blocks -> Block] /\ s.alloc \subseteq Blocks
         /\ IsTable(s.table) /\ U \subseteq DOMAIN s.inodes /\ DOMAIN s.inodes \subseteq DOMAIN L
         /\ DOMAIN L \subseteq Slotted(s.table) \ {0} /\ DOMAIN s.inodes \subseteq Inos
         /\ \A i \in DOMAIN s.inodes : s.inodes[i] \in [xattr : XattrSets, block : {0} \cup Blocks]
         /\ 0 \notin Blocks /\ Unused \notin Blocks /\ Unused # 0
  BY SoundTypes, Consts DEF Sound, Types, Slots, Fields, Unused

LEMMA LiveType ==
  ASSUME NEW s, NEW L, NEW U, NEW d, NEW Z, Sound(s, L, U, d, Z), NEW i \in DOMAIN L
  PROVE  L[i] \in XattrSets
  <1>1. U \subseteq DOMAIN s.inodes /\ s.block \in [Blocks -> Block]
    BY SoundFacts
  <1>2. CASE i \in DOMAIN s.inodes
    BY <1>2 DEF Sound, Types, Attrs
  <1>3. CASE i \notin DOMAIN s.inodes
    <2>1. L[i] = IF Home(s, i) = 0 THEN NoXattrs ELSE s.block[Home(s, i)].xattrs
      BY <1>1, <1>3 DEF Sound, Attrs
    <2>2. Home(s, i) \in {0} \cup Blocks
      BY DEF Sound, Owned
    <2>3. CASE Home(s, i) = 0
      BY <2>1, <2>3, NoXattrsType
    <2>4. CASE Home(s, i) # 0
      <3>1. s.block[Home(s, i)] \in Block
        BY <1>1, <2>2, <2>4
      <3> QED BY <2>1, <2>4, <3>1, BlockFields
    <2> QED BY <2>3, <2>4
  <1> QED BY <1>2, <1>3

LEMMA XattrsPut ==
  ASSUME NEW xs \in XattrSets, NEW n \in Names, NEW v \in Values
  PROVE  Put(xs, n, v) \in XattrSets
  <1>1. PICK D \in SUBSET Names : xs \in [D -> Values]
    BY DEF XattrSets
  <1>2. Put(xs, n, v) \in [D \cup {n} -> Values] /\ D \cup {n} \in SUBSET Names
    BY <1>1 DEF Put
  <1> QED BY <1>2 DEF XattrSets

LEMMA XattrsRestrict ==
  ASSUME NEW xs \in XattrSets, NEW n
  PROVE  Restrict(xs, DOMAIN xs \ {n}) \in XattrSets
  <1>1. PICK D \in SUBSET Names : xs \in [D -> Values]
    BY DEF XattrSets
  <1>2. Restrict(xs, DOMAIN xs \ {n}) \in [D \ {n} -> Values] /\ D \ {n} \in SUBSET Names
    BY <1>1 DEF Restrict
  <1> QED BY <1>2 DEF XattrSets

\* get_inode keeps the inode in memory; get_inode_mut also marks it, and its
\* caller sets the attributes.
LEMMA LoadKeeps ==
  ASSUME NEW s, NEW L, NEW U, NEW d, NEW Z, Sound(s, L, U, d, Z), NEW i \in DOMAIN L, i \in Inos,
         NEW xs \in XattrSets, NEW V, (V = U /\ xs = L[i]) \/ V = U \cup {i},
         NEW M, DOMAIN M = DOMAIN L, \A j \in DOMAIN L : M[j] = IF j = i THEN xs ELSE L[j],
         NEW p, p = SetInode(s, i, [xattr |-> xs, block |-> Home(s, i)])
  PROVE  Sound(p, M, V, d, Z)
  <1> DEFINE v == [xattr |-> xs, block |-> Home(s, i)]
  <1>0. /\ DOMAIN s = Fields /\ s.block \in [Blocks -> Block] /\ s.alloc \subseteq Blocks
        /\ IsTable(s.table) /\ U \subseteq DOMAIN s.inodes /\ DOMAIN s.inodes \subseteq DOMAIN L
        /\ DOMAIN L \subseteq Slotted(s.table) \ {0} /\ DOMAIN s.inodes \subseteq Inos
        /\ \A j \in DOMAIN s.inodes : s.inodes[j] \in [xattr : XattrSets, block : {0} \cup Blocks]
        /\ 0 \notin Blocks /\ Unused \notin Blocks /\ Unused # 0
    BY SoundFacts
  <1>1. v.block = Home(s, i) /\ v.xattr = xs /\ v \in [xattr : XattrSets, block : {0} \cup Blocks]
    BY DEF Sound, Owned
  <1>2. p = SetInode(s, i, v)
    OBVIOUS
  <1> HIDE DEF v
  <1>3. /\ DOMAIN p = Fields /\ p.table = s.table /\ p.alloc = s.alloc /\ p.block = s.block
        /\ DOMAIN p.inodes = DOMAIN s.inodes \cup {i}
        /\ \A j \in DOMAIN p.inodes : p.inodes[j] = IF j = i THEN v ELSE s.inodes[j]
    <2> DEFINE q == SetInode(s, i, v)
    <2>1. /\ DOMAIN q = Fields /\ q.table = s.table /\ q.alloc = s.alloc /\ q.block = s.block
          /\ DOMAIN q.inodes = DOMAIN s.inodes \cup {i}
          /\ \A j \in DOMAIN q.inodes : q.inodes[j] = IF j = i THEN v ELSE s.inodes[j]
      BY <1>0, SetInodeIs
    <2> HIDE DEF q
    <2> QED BY <1>2, <2>1 DEF q
  <1>4. \A j : SlotOf(p, j) = SlotOf(s, j)
    BY <1>3 DEF SlotOf
  <1>5. \A j \in DOMAIN L : Home(p, j) = Home(s, j)
    BY <1>1, <1>3, <1>4 DEF Home
  <1>6. Types(p) /\ IsTable(p.table) /\ Needed(p.table)
    <2>1. \A j \in DOMAIN p.inodes : p.inodes[j] \in [xattr : XattrSets, block : {0} \cup Blocks]
      BY <1>0, <1>1, <1>3
    <2>2. DOMAIN p.inodes \subseteq Inos
      BY <1>0, <1>3
    <2>3. p.block \in [Blocks -> [slots : [0..(PerBlock - 1) -> SlotValues], xattrs : XattrSets]]
      BY <1>0, <1>3 DEF Block
    <2> QED BY <1>0, <1>3, <2>1, <2>2, <2>3 DEF Types, Fields, Sound
  <1>7. Slots(p, M, V, Z)
    <2>1. \A j \in DOMAIN M : \/ SlotOf(p, j) = Home(p, j) /\ Home(p, j) # Unused
                              \/ j \in V /\ Home(p, j) = 0
      BY <1>4, <1>5 DEF Sound, Slots
    <2>2. Z \subseteq Slotted(p.table) \ DOMAIN M /\ \A j \in Z : SlotOf(p, j) = Unused
      BY <1>3, <1>4 DEF Sound, Slots
    <2> QED BY <1>0, <1>3, <2>1, <2>2 DEF Slots
  <1>8. Attrs(p, M, V)
    <2>1. \A j \in DOMAIN p.inodes : p.inodes[j].xattr = M[j]
      BY <1>0, <1>1, <1>3 DEF Sound, Attrs
    <2>2. \A j \in DOMAIN M \ V : M[j] = L[j] /\ j \in DOMAIN L \ U
      OBVIOUS
    <2>3. \A j \in DOMAIN M \ V : M[j] = IF Home(p, j) = 0 THEN NoXattrs ELSE p.block[Home(p, j)].xattrs
      BY <1>3, <1>5, <2>2 DEF Sound, Attrs
    <2> QED BY <2>1, <2>3 DEF Attrs
  <1>9. Owned(p, M, d)
    BY <1>3, <1>5 DEF Sound, Owned
  <1> QED BY <1>6, <1>7, <1>8, <1>9 DEF Sound

\* alloc_inode, once there is a slot.
LEMMA BornKeeps ==
  ASSUME NEW s, NEW L, NEW U, NEW d, NEW Z, Sound(s, L, U, d, Z),
         NEW i \in Inos, i \in Slotted(s.table) \ DOMAIN L
  PROVE  Sound(SetInode(s, i, NewInode), Put(L, i, NoXattrs), U \cup {i}, d, Z \ {i})
  <1> DEFINE p == SetInode(s, i, NewInode)
             M == Put(L, i, NoXattrs)
             V == U \cup {i}
  <1>0. /\ DOMAIN s = Fields /\ s.block \in [Blocks -> Block] /\ s.alloc \subseteq Blocks
        /\ IsTable(s.table) /\ U \subseteq DOMAIN s.inodes /\ DOMAIN s.inodes \subseteq DOMAIN L
        /\ DOMAIN L \subseteq Slotted(s.table) \ {0} /\ DOMAIN s.inodes \subseteq Inos
        /\ \A j \in DOMAIN s.inodes : s.inodes[j] \in [xattr : XattrSets, block : {0} \cup Blocks]
        /\ 0 \notin Blocks /\ Unused \notin Blocks /\ Unused # 0
    BY SoundFacts
  <1>1. /\ NewInode.block = 0 /\ NewInode.xattr = NoXattrs
        /\ NewInode \in [xattr : XattrSets, block : {0} \cup Blocks]
    BY NoXattrsType DEF NewInode
  <1>2. /\ DOMAIN p = Fields /\ p.table = s.table /\ p.alloc = s.alloc /\ p.block = s.block
        /\ DOMAIN p.inodes = DOMAIN s.inodes \cup {i}
        /\ \A j \in DOMAIN p.inodes : p.inodes[j] = IF j = i THEN NewInode ELSE s.inodes[j]
    BY <1>0, SetInodeIs
  <1>3. /\ DOMAIN M = DOMAIN L \cup {i} /\ M[i] = NoXattrs
        /\ \A j \in DOMAIN L : M[j] = L[j] /\ j # i
    <2>1. /\ DOMAIN M = DOMAIN L \cup {i}
          /\ \A j \in DOMAIN L \cup {i} : M[j] = IF j = i THEN NoXattrs ELSE L[j]
      BY DEF Put
    <2> HIDE DEF M
    <2> QED BY <2>1
  <1> HIDE DEF p, M
  <1>4. \A j : SlotOf(p, j) = SlotOf(s, j)
    BY <1>2 DEF SlotOf
  <1>5. Home(p, i) = 0 /\ \A j \in DOMAIN L : Home(p, j) = Home(s, j)
    BY <1>1, <1>2, <1>3, <1>4 DEF Home
  <1>6. Types(p) /\ IsTable(p.table) /\ Needed(p.table)
    BY <1>0, <1>1, <1>2 DEF Types, Fields, Sound
  <1>7. Slots(p, M, V, Z \ {i})
    <2>1. \A j \in DOMAIN M : \/ SlotOf(p, j) = Home(p, j) /\ Home(p, j) # Unused
                              \/ j \in V /\ Home(p, j) = 0
      BY <1>3, <1>4, <1>5 DEF Sound, Slots
    <2>2. /\ Z \ {i} \subseteq Slotted(p.table) \ DOMAIN M
          /\ \A j \in Z \ {i} : SlotOf(p, j) = Unused
      BY <1>2, <1>3, <1>4 DEF Sound, Slots
    <2>3. i # 0
      BY Consts
    <2> QED BY <1>0, <1>2, <1>3, <2>1, <2>2, <2>3 DEF Slots
  <1>8. Attrs(p, M, V)
    BY <1>0, <1>1, <1>2, <1>3, <1>5 DEF Sound, Attrs
  <1>9. Owned(p, M, d)
    <2>1. 0 \notin BlocksOf(s.table) /\ 0 \notin d
      BY <1>0, BlocksOfFacts DEF Sound, Owned
    <2>2. \A j \in DOMAIN M : Home(p, j) \in ({0} \cup Blocks) \ (BlocksOf(p.table) \cup d)
      BY <1>2, <1>3, <1>5, <2>1 DEF Sound, Owned
    <2>3. \A j, k \in DOMAIN M : j # k /\ Home(p, j) # 0 => Home(p, j) # Home(p, k)
      BY <1>3, <1>5 DEF Sound, Owned
    <2>4. \A b \in Blocks : b \in p.alloc <=>
            b \notin BlocksOf(p.table) \cup d /\ \A j \in DOMAIN M : Home(p, j) # b
      BY <1>0, <1>2, <1>3, <1>5 DEF Sound, Owned
    <2> QED BY <1>2, <2>2, <2>3, <2>4 DEF Sound, Owned
  <1> QED BY <1>6, <1>7, <1>8, <1>9 DEF Sound, p, M

\* drop_inode zeroes the slot.
LEMMA ClearedIs ==
  ASSUME NEW s, s.block \in [Blocks -> Block], IsTable(s.table), NEW i \in Slotted(s.table)
  PROVE  Cleared(s, i) = Written(s.table, s.block, i, Unused)
  <1> DEFINE a == BlockOf(s.table, i)
             x == SetSlot(s.block[a], i, Unused)
  <1>1. SlotBlock(s.table, i) = {a} /\ i < Capacity(s.table) /\ a \in Blocks
    BY SlotAt
  <1>2. Cleared(s, i) = [b \in Blocks |-> IF b = a THEN SetSlot(s.block[b], i, Unused) ELSE s.block[b]]
    BY <1>1 DEF Cleared
  <1>3. Cleared(s, i) = [b \in Blocks |-> IF b = a THEN x ELSE s.block[b]]
    BY <1>2
  <1>4. Written(s.table, s.block, i, Unused) = [s.block EXCEPT ![a] = x]
    BY DEF Written
  <1> HIDE DEF a, x
  <1>5. [s.block EXCEPT ![a] = x] = [b \in Blocks |-> IF b = a THEN x ELSE s.block[b]]
    BY <1>1
  <1> QED BY <1>3, <1>4, <1>5

\* The state p after inode i was dropped.
Dropped(s, i, p) ==
  /\ DOMAIN p = Fields /\ p.table = s.table
  /\ p.alloc = s.alloc \cup ({Home(s, i)} \ {0})
  /\ p.block = Cleared(s, i)
  /\ DOMAIN p.inodes = DOMAIN s.inodes \ {i}
  /\ \A j \in DOMAIN p.inodes : p.inodes[j] = s.inodes[j]

LEMMA DropKeeps ==
  ASSUME NEW s, NEW L, NEW U, NEW d, NEW Z, Sound(s, L, U, d, Z),
         NEW i \in DOMAIN L, NEW p, Dropped(s, i, p),
         NEW M, DOMAIN M = DOMAIN L \ {i}, \A j \in DOMAIN M : M[j] = L[j]
  PROVE  Sound(p, M, U \ {i}, d, Z \cup {i})
  <1> DEFINE t == s.table
             w == p.block
             h == Home(s, i)
  <1>0. /\ DOMAIN s = Fields /\ s.block \in [Blocks -> Block] /\ s.alloc \subseteq Blocks
        /\ IsTable(s.table) /\ U \subseteq DOMAIN s.inodes /\ DOMAIN s.inodes \subseteq DOMAIN L
        /\ DOMAIN L \subseteq Slotted(s.table) \ {0} /\ DOMAIN s.inodes \subseteq Inos
        /\ \A j \in DOMAIN s.inodes : s.inodes[j] \in [xattr : XattrSets, block : {0} \cup Blocks]
        /\ 0 \notin Blocks /\ Unused \notin Blocks /\ Unused # 0
    BY SoundFacts
  <1>1. /\ DOMAIN p = Fields /\ p.table = s.table /\ p.alloc = s.alloc \cup ({h} \ {0})
        /\ p.block = Cleared(s, i) /\ DOMAIN p.inodes = DOMAIN s.inodes \ {i}
        /\ \A j \in DOMAIN p.inodes : p.inodes[j] = s.inodes[j]
    BY DEF Dropped
  <1>2. /\ w \in [Blocks -> Block] /\ Cell(t, w, i) = Unused
        /\ \A j \in Slotted(t) : j # i => Cell(t, w, j) = Cell(t, s.block, j)
        /\ \A b \in Blocks \ BlocksOf(t) : w[b] = s.block[b]
    <2>1. w = Written(t, s.block, i, Unused) /\ Unused \in SlotValues
      BY <1>0, <1>1, ClearedIs DEF SlotValues
    <2> QED BY <1>0, <2>1, WrittenIs
  <1>3. /\ SlotOf(p, i) = Unused
        /\ \A j \in Slotted(t) : j # i => SlotOf(p, j) = SlotOf(s, j)
    BY <1>1, <1>2, CellIs
  <1>4. \A j \in DOMAIN M : Home(p, j) = Home(s, j)
    BY <1>0, <1>1, <1>3 DEF Home
  <1> HIDE DEF w
  <1>5. h \in {0} \cup Blocks /\ h \notin BlocksOf(t) \cup d /\ \A j \in DOMAIN M : h # 0 => Home(s, j) # h
    BY DEF Sound, Owned
  <1>6. Types(p) /\ IsTable(p.table) /\ Needed(p.table)
    <2>1. \A j \in DOMAIN p.inodes : p.inodes[j] \in [xattr : XattrSets, block : {0} \cup Blocks]
      BY <1>0, <1>1
    <2>2. p.block \in [Blocks -> [slots : [0..(PerBlock - 1) -> SlotValues], xattrs : XattrSets]]
      BY <1>2 DEF w, Block
    <2> QED BY <1>0, <1>1, <1>5, <2>1, <2>2 DEF Types, Fields, Sound
  <1>7. Slots(p, M, U \ {i}, Z \cup {i})
    <2>1. \A j \in DOMAIN M : \/ SlotOf(p, j) = Home(p, j) /\ Home(p, j) # Unused
                              \/ j \in U \ {i} /\ Home(p, j) = 0
      BY <1>0, <1>3, <1>4 DEF Sound, Slots
    <2>2. Z \cup {i} \subseteq Slotted(p.table) \ DOMAIN M
      BY <1>0, <1>1 DEF Sound, Slots
    <2>3. \A j \in Z \cup {i} : SlotOf(p, j) = Unused
      BY <1>1, <1>3, <2>2 DEF Sound, Slots
    <2> QED BY <1>0, <1>1, <2>1, <2>2, <2>3 DEF Slots
  <1>8. Attrs(p, M, U \ {i})
    <2>1. \A j \in DOMAIN p.inodes : p.inodes[j].xattr = M[j]
      BY <1>0, <1>1 DEF Sound, Attrs
    <2>2. ASSUME NEW j \in DOMAIN M \ (U \ {i})
          PROVE  M[j] = IF Home(p, j) = 0 THEN NoXattrs ELSE p.block[Home(p, j)].xattrs
      <3>1. /\ L[j] = IF Home(s, j) = 0 THEN NoXattrs ELSE s.block[Home(s, j)].xattrs
            /\ Home(s, j) \in ({0} \cup Blocks) \ BlocksOf(t)
        BY DEF Sound, Attrs, Owned
      <3>2. Home(s, j) # 0 => w[Home(s, j)] = s.block[Home(s, j)]
        BY <1>2, <3>1
      <3> QED BY <1>4, <3>1, <3>2 DEF w
    <2> QED BY <2>1, <2>2 DEF Attrs
  <1>9. Owned(p, M, d)
    <2>1. \A j \in DOMAIN M : Home(p, j) \in ({0} \cup Blocks) \ (BlocksOf(p.table) \cup d)
      BY <1>1, <1>4 DEF Sound, Owned
    <2>2. \A j, k \in DOMAIN M : j # k /\ Home(p, j) # 0 => Home(p, j) # Home(p, k)
      BY <1>4 DEF Sound, Owned
    <2>3. ASSUME NEW c \in Blocks
          PROVE  c \in p.alloc <=> c \notin BlocksOf(p.table) \cup d /\ \A j \in DOMAIN M : Home(p, j) # c
      <3>1. c \in s.alloc <=> c \notin BlocksOf(t) \cup d /\ \A j \in DOMAIN L : Home(s, j) # c
        BY DEF Sound, Owned
      <3>2. c \in p.alloc <=> c \in s.alloc \/ c = h
        BY <1>0, <1>1
      <3>3. (\A j \in DOMAIN M : Home(p, j) # c) <=> (\A j \in DOMAIN L : j # i => Home(s, j) # c)
        BY <1>4
      <3>4. c = h => c \notin BlocksOf(t) \cup d /\ \A j \in DOMAIN L : j # i => Home(s, j) # c
        BY <1>0, <1>5
      <3> QED BY <1>1, <3>1, <3>2, <3>3, <3>4
    <2> QED BY <1>1, <2>1, <2>2, <2>3 DEF Sound, Owned
  <1> QED BY <1>6, <1>7, <1>8, <1>9 DEF Sound

\* File contents take a block or give one back.
LEMMA TakeKeeps ==
  ASSUME NEW s, NEW L, NEW U, NEW d, NEW Z, Sound(s, L, U, d, Z),
         NEW b \in s.alloc, NEW x \in Block, NEW p,
         DOMAIN p = Fields, p.table = s.table, p.inodes = s.inodes,
         p.alloc = s.alloc \ {b}, p.block = [s.block EXCEPT ![b] = x]
  PROVE  Sound(p, L, U, d \cup {b}, Z) /\ p.table = s.table
  <1> DEFINE w == [s.block EXCEPT ![b] = x]
  <1>0. /\ DOMAIN s = Fields /\ s.block \in [Blocks -> Block] /\ s.alloc \subseteq Blocks
        /\ IsTable(s.table) /\ U \subseteq DOMAIN s.inodes /\ DOMAIN s.inodes \subseteq DOMAIN L
        /\ DOMAIN L \subseteq Slotted(s.table) \ {0} /\ DOMAIN s.inodes \subseteq Inos
        /\ \A j \in DOMAIN s.inodes : s.inodes[j] \in [xattr : XattrSets, block : {0} \cup Blocks]
        /\ 0 \notin Blocks /\ Unused \notin Blocks /\ Unused # 0
    BY SoundFacts
  <1>1. /\ DOMAIN p = Fields /\ p.table = s.table /\ p.inodes = s.inodes
        /\ p.alloc = s.alloc \ {b} /\ p.block = w
    OBVIOUS
  <1>2. b \in Blocks \ BlocksOf(s.table) /\ b \notin d /\ \A j \in DOMAIN L : Home(s, j) # b
    BY <1>0 DEF Sound, Owned
  <1>4. /\ w \in [Blocks -> Block]
        /\ \A j \in Slotted(s.table) : Cell(s.table, w, j) = Cell(s.table, s.block, j)
        /\ \A c \in Blocks \ {b} : w[c] = s.block[c]
    BY <1>0, <1>2, OutsideKeeps
  <1> HIDE DEF w
  <1>5. \A j \in Slotted(s.table) : SlotOf(p, j) = SlotOf(s, j)
    BY <1>1, <1>4, CellIs
  <1>6. \A j \in DOMAIN L : Home(p, j) = Home(s, j)
    BY <1>0, <1>1, <1>5 DEF Home
  <1>7. Types(p) /\ IsTable(p.table) /\ Needed(p.table)
    <2>1. p.block \in [Blocks -> [slots : [0..(PerBlock - 1) -> SlotValues], xattrs : XattrSets]]
      BY <1>1, <1>4 DEF Block
    <2> QED BY <1>0, <1>1, <2>1 DEF Types, Fields, Sound
  <1>8. Slots(p, L, U, Z)
    BY <1>0, <1>1, <1>5, <1>6 DEF Sound, Slots
  <1>9. Attrs(p, L, U)
    <2>1. ASSUME NEW j \in DOMAIN L \ U
          PROVE  L[j] = IF Home(p, j) = 0 THEN NoXattrs ELSE p.block[Home(p, j)].xattrs
      <3>1. /\ L[j] = IF Home(s, j) = 0 THEN NoXattrs ELSE s.block[Home(s, j)].xattrs
            /\ Home(s, j) \in {0} \cup Blocks
        BY DEF Sound, Attrs, Owned
      <3>2. Home(s, j) # 0 => w[Home(s, j)] = s.block[Home(s, j)]
        BY <1>2, <1>4, <3>1
      <3> QED BY <1>1, <1>6, <3>1, <3>2
    <2> QED BY <1>1, <2>1 DEF Sound, Attrs
  <1>10. Owned(p, L, d \cup {b})
    BY <1>1, <1>2, <1>6 DEF Sound, Owned
  <1> QED BY <1>1, <1>7, <1>8, <1>9, <1>10 DEF Sound

LEMMA GiveKeeps ==
  ASSUME NEW s, NEW L, NEW U, NEW d, NEW Z, Sound(s, L, U, d, Z), NEW b \in d, NEW p,
         p = [s EXCEPT !.alloc = @ \cup {b}]
  PROVE  Sound(p, L, U, d \ {b}, Z) /\ p.table = s.table
  <1>0. DOMAIN s = Fields
    BY SoundFacts
  <1>1. /\ DOMAIN p = Fields /\ p.table = s.table /\ p.inodes = s.inodes
        /\ p.alloc = s.alloc \cup {b} /\ p.block = s.block
    BY <1>0 DEF Fields
  <1>2. b \in Blocks \ BlocksOf(s.table)
    BY DEF Sound, Owned
  <1>3. \A j \in DOMAIN L : Home(s, j) # b
    BY DEF Sound, Owned
  <1>4. \A j : SlotOf(p, j) = SlotOf(s, j) /\ Home(p, j) = Home(s, j)
    BY <1>1 DEF Home, SlotOf
  <1>5. Types(p) /\ IsTable(p.table) /\ Needed(p.table)
    BY <1>1, <1>2 DEF Types, Fields, Sound
  <1>6. Slots(p, L, U, Z)
    BY <1>1, <1>4 DEF Sound, Slots
  <1>7. Attrs(p, L, U)
    BY <1>1, <1>4 DEF Sound, Attrs
  <1>8. Owned(p, L, d \ {b})
    BY <1>1, <1>2, <1>3, <1>4 DEF Sound, Owned
  <1> QED BY <1>1, <1>5, <1>6, <1>7, <1>8 DEF Sound

-----------------------------------------------------------------------------
(* A longer table. *)

\* One extent covers a block of the table; the last one ends last.
LEMMA CoversOnce ==
  ASSUME NEW t, IsTable(t), NEW l \in Nat
  PROVE  /\ \A j, k : Covers(t, j, l) /\ Covers(t, k, l) => j = k
         /\ \A k \in 1..Len(t) : t[k].log + t[k].len <= LogicalEnd(t)
         /\ \A k \in 1..(Len(t) - 1) : t[k].log + t[k].len <= t[Len(t)].log
  <1> DEFINE n == Len(t)
  <1>0. /\ n \in Nat /\ n >= 1 /\ n \in 1..n
        /\ \A k \in 1..n : t[k].log \in Nat /\ t[k].len \in Nat
    BY TableAt
  <1>1. \A j, k \in 1..n : j < k => t[j].log + t[j].len <= t[k].log
    BY TableEnds
  <1>2. ASSUME NEW j, NEW k, Covers(t, j, l), Covers(t, k, l) PROVE j = k
    <2>1. j \in 1..n /\ k \in 1..n /\ t[j].log <= l /\ l < t[j].log + t[j].len
          /\ t[k].log <= l /\ l < t[k].log + t[k].len
      BY <1>2 DEF Covers
    <2>2. ~ (j < k)
      BY <1>0, <1>1, <2>1
    <2>3. ~ (k < j)
      BY <1>0, <1>1, <2>1
    <2> QED BY <1>0, <2>1, <2>2, <2>3
  <1>3. \A k \in 1..(n - 1) : t[k].log + t[k].len <= t[n].log
    BY <1>0, <1>1
  <1>4. \A k \in 1..n : t[k].log + t[k].len <= LogicalEnd(t)
    <2> TAKE k \in 1..n
    <2>1. CASE k = n
      BY <1>0, <2>1 DEF LogicalEnd
    <2>2. CASE k # n
      <3>1. t[k].log + t[k].len <= t[n].log
        BY <1>0, <1>1, <2>2
      <3> QED BY <1>0, <3>1 DEF LogicalEnd
    <2> QED BY <2>1, <2>2
  <1> QED BY <1>2, <1>3, <1>4

\* What grow_inode_table makes of table t.
Longer(t, u, lo) ==
  /\ IsTable(u)
  /\ LogicalEnd(u) = LogicalEnd(t) + 2
  /\ BlocksOf(u) = BlocksOf(t) \cup Run(lo, 2)
  /\ Len(u) >= Len(t)
  /\ \A k \in 1..Len(t) : u[k].log = t[k].log /\ u[k].phys = t[k].phys /\ u[k].len >= t[k].len
  /\ \A l \in Nat, k \in 1..Len(u) :
       Covers(u, k, l) /\ l >= LogicalEnd(t) => PlaceIn(u, k, l) \in Run(lo, 2)

LEMMA MergedIs ==
  ASSUME NEW t, IsTable(t), NEW lo \in Nat, Run(lo, 2) \subseteq Blocks \ BlocksOf(t), PhysicalEnd(t) = lo
  PROVE  Longer(t, [t EXCEPT ![Len(t)].len = @ + GrowBlocks], lo)
  <1> DEFINE n == Len(t)
             x == [log |-> t[n].log, phys |-> t[n].phys, len |-> t[n].len + 2]
             u == [t EXCEPT ![n] = x]
  <1>0. /\ n \in Nat /\ n >= 1 /\ n \in 1..n /\ DOMAIN t = 1..n
        /\ \A k \in 1..n : /\ t[k] \in Ext /\ t[k].log \in Nat /\ t[k].len \in Nat /\ t[k].len >= 2
                           /\ t[k].phys \in Nat /\ t[k].phys \in Blocks
    BY TableAt
  <1>a. n \in Nat /\ n >= 1 /\ \A k \in 1..(n - 1) : k \in 1..n /\ k # n /\ k + 1 \in 1..n
    <2>1. n \in Nat /\ n >= 1
      BY <1>0
    <2> HIDE DEF n
    <2> QED BY <2>1
  <1>1. [t EXCEPT ![n].len = @ + GrowBlocks] = u
    <2>1. [t[n] EXCEPT !.len = @ + GrowBlocks] = x
      BY <1>0 DEF Ext, GrowBlocks
    <2>2. [t EXCEPT ![n].len = @ + GrowBlocks] = [t EXCEPT ![n] = [t[n] EXCEPT !.len = @ + GrowBlocks]]
      OBVIOUS
    <2> QED BY <2>1, <2>2
  <1>2. t \in Seq(Ext) /\ x \in Ext
    BY <1>0 DEF IsTable, Ext
  <1>3. /\ u \in Seq(Ext) /\ Len(u) = n /\ u[n] = x
        /\ \A k \in 1..n : k # n => u[k] = t[k]
    <2> HIDE DEF x
    <2>1. u \in [1..n -> Ext] /\ u[n] = x /\ \A k \in 1..n : k # n => u[k] = t[k]
      BY <1>0, <1>2 DEF IsTable
    <2>2. u \in Seq(Ext) /\ Len(u) = n
      BY <1>0, <2>1, FunctionIsSeq
    <2> QED BY <2>1, <2>2
  <1>4. u[n].log = t[n].log /\ u[n].phys = t[n].phys /\ u[n].len = t[n].len + 2
    BY <1>3
  <1> HIDE DEF u, x
  <1>5. \A k \in 1..n : u[k].log = t[k].log /\ u[k].phys = t[k].phys /\ u[k].len >= t[k].len
    BY <1>0, <1>3, <1>4
  <1>6. Run(u[n].phys, u[n].len) = Run(t[n].phys, t[n].len) \cup Run(lo, 2)
    <2> DEFINE a == t[n].phys
               c == t[n].len
    <2>1. a \in Nat /\ c \in Nat /\ lo = a + c
      BY <1>0 DEF PhysicalEnd
    <2>2. u[n].phys = a /\ u[n].len = c + 2
      BY <1>4
    <2> HIDE DEF a, c
    <2>3. a..(a + (c + 2) - 1) = (a..(a + c - 1)) \cup (lo..(lo + 2 - 1))
      BY <2>1
    <2> QED BY <2>2, <2>3 DEF Run, a, c
  <1>7. BlocksOf(u) = BlocksOf(t) \cup Run(lo, 2)
    <2>1. DOMAIN u = 1..n
      BY <1>3, LenProperties
    <2>2. \A k \in 1..n : k # n => Run(u[k].phys, u[k].len) = Run(t[k].phys, t[k].len)
      BY <1>3
    <2> DEFINE F(k) == Run(t[k].phys, t[k].len)
               G(k) == Run(u[k].phys, u[k].len)
    <2>3. BlocksOf(u) = UNION {G(k) : k \in 1..n} /\ BlocksOf(t) = UNION {F(k) : k \in 1..n}
      BY <1>0, <2>1 DEF BlocksOf
    <2>4. (\A k \in 1..n : k # n => G(k) = F(k)) /\ G(n) = F(n) \cup Run(lo, 2)
      BY <1>6, <2>2
    <2> HIDE DEF F, G
    <2>5. UNION {G(k) : k \in 1..n} = (UNION {F(k) : k \in 1..n}) \cup Run(lo, 2)
      <3>1. ASSUME NEW y \in UNION {G(k) : k \in 1..n} PROVE y \in (UNION {F(k) : k \in 1..n}) \cup Run(lo, 2)
        BY <2>4
      <3>2. ASSUME NEW y \in (UNION {F(k) : k \in 1..n}) \cup Run(lo, 2) PROVE y \in UNION {G(k) : k \in 1..n}
        <4>1. CASE y \in Run(lo, 2)
          BY <1>0, <2>4, <4>1
        <4>2. CASE y \in UNION {F(k) : k \in 1..n}
          <5>1. PICK k \in 1..n : y \in F(k)
            BY <4>2
          <5> QED BY <2>4, <5>1
        <4> QED BY <3>2, <4>1, <4>2
      <3> QED BY <3>1, <3>2
    <2> QED BY <2>3, <2>5
  <1>8. IsTable(u)
    <2>1. u # <<>>
      BY <1>a, <1>3, EmptySeq
    <2>2. u[1].log = 0
      BY <1>a, <1>5 DEF IsTable
    <2>3. \A k \in 1..(n - 1) : u[k + 1].log = u[k].log + u[k].len
      <3> TAKE k \in 1..(n - 1)
      <3>1. k \in 1..n /\ k # n /\ k + 1 \in 1..n
        BY <1>a
      <3>2. u[k] = t[k] /\ u[k + 1].log = t[k + 1].log
        BY <1>3, <1>5, <3>1
      <3> QED BY <3>2 DEF IsTable
    <2>4. \A k \in 1..n : u[k].len >= GrowBlocks /\ Run(u[k].phys, u[k].len) \subseteq Blocks
      <3> TAKE k \in 1..n
      <3>1. CASE k = n
        <4>1. Run(t[n].phys, t[n].len) \subseteq Blocks
          BY <1>0 DEF IsTable
        <4>2. u[n].len >= GrowBlocks
          BY <1>0, <1>4 DEF GrowBlocks
        <4> QED BY <1>6, <3>1, <4>1, <4>2
      <3>2. CASE k # n
        BY <1>3, <3>2 DEF IsTable
      <3> QED BY <3>1, <3>2
    <2>5. ASSUME NEW j \in 1..n, NEW k \in 1..n, j # k
          PROVE  Run(u[j].phys, u[j].len) \cap Run(u[k].phys, u[k].len) = {}
      <3>1. Run(t[j].phys, t[j].len) \cap Run(t[k].phys, t[k].len) = {}
        BY <2>5 DEF IsTable
      <3>2. /\ Run(t[j].phys, t[j].len) \cap Run(lo, 2) = {}
            /\ Run(t[k].phys, t[k].len) \cap Run(lo, 2) = {}
        BY <1>0 DEF BlocksOf
      <3>3. CASE j = n
        <4>1. u[k] = t[k]
          BY <1>3, <2>5, <3>3
        <4> QED BY <1>6, <3>1, <3>2, <3>3, <4>1
      <3>4. CASE k = n
        <4>1. u[j] = t[j]
          BY <1>3, <2>5, <3>4
        <4> QED BY <1>6, <3>1, <3>2, <3>4, <4>1
      <3>5. CASE j # n /\ k # n
        <4>1. u[j] = t[j] /\ u[k] = t[k]
          BY <1>3, <3>5
        <4> QED BY <3>1, <4>1
      <3> QED BY <3>3, <3>4, <3>5
    <2> QED BY <1>3, <2>1, <2>2, <2>3, <2>4, <2>5 DEF IsTable
  <1>9. LogicalEnd(u) = LogicalEnd(t) + 2
    <2> DEFINE a == t[n].log
               c == t[n].len
    <2>1. a \in Nat /\ c \in Nat
      BY <1>0
    <2>2. LogicalEnd(t) = a + c /\ LogicalEnd(u) = a + (c + 2)
      BY <1>3, <1>4 DEF LogicalEnd
    <2> HIDE DEF a, c
    <2> QED BY <2>1, <2>2
  <1>10. ASSUME NEW l \in Nat, NEW k \in 1..n, Covers(u, k, l), l >= LogicalEnd(t)
         PROVE  PlaceIn(u, k, l) \in Run(lo, 2)
    <2>1. k = n
      <3>1. CASE k # n
        <4>1. t[k].log + t[k].len <= LogicalEnd(t) /\ u[k] = t[k] /\ LogicalEnd(t) \in Nat
          BY <1>3, <3>1, CoversOnce, TableAt
        <4>2. l < t[k].log + t[k].len /\ t[k].log \in Nat /\ t[k].len \in Nat
          BY <1>0, <1>10, <4>1 DEF Covers
        <4> HIDE DEF n
        <4> QED BY <1>10, <4>1, <4>2
      <3> QED BY <3>1
    <2> DEFINE a == t[n].phys
               c == t[n].len
               g == t[n].log
    <2>2. a \in Nat /\ c \in Nat /\ g \in Nat /\ lo = a + c /\ LogicalEnd(t) = g + c
      BY <1>0 DEF PhysicalEnd, LogicalEnd
    <2>3. u[n].phys = a /\ u[n].log = g /\ u[n].len = c + 2
      BY <1>4
    <2>4. g <= l /\ l < g + (c + 2) /\ l >= g + c
      BY <1>10, <2>1, <2>2, <2>3 DEF Covers
    <2>5. PlaceIn(u, k, l) = a + (l - g)
      BY <2>1, <2>3 DEF PlaceIn
    <2> HIDE DEF a, c, g
    <2>6. a + (l - g) \in lo..(lo + 2 - 1)
      BY <2>2, <2>4
    <2> QED BY <2>5, <2>6 DEF Run
  <1>11. Longer(t, u, lo)
    <2>1. Len(u) = Len(t) /\ Len(u) >= Len(t)
      BY <1>a, <1>3
    <2> QED BY <1>5, <1>7, <1>8, <1>9, <1>10, <2>1 DEF Longer
  <1> QED BY <1>1, <1>11

LEMMA AppendedIs ==
  ASSUME NEW t, IsTable(t), NEW lo \in Nat, Run(lo, 2) \subseteq Blocks \ BlocksOf(t)
  PROVE  Longer(t, Append(t, [log |-> LogicalEnd(t), phys |-> lo, len |-> GrowBlocks]), lo)
  <1> DEFINE n == Len(t)
             e == LogicalEnd(t)
             x == [log |-> e, phys |-> lo, len |-> GrowBlocks]
             u == Append(t, x)
             m == n + 1
  <1>0. /\ n \in Nat /\ n >= 1 /\ n \in 1..n /\ DOMAIN t = 1..n /\ e \in Nat
        /\ \A k \in 1..n : /\ t[k] \in Ext /\ t[k].log \in Nat /\ t[k].len \in Nat /\ t[k].len >= 2
                           /\ t[k].phys \in Nat /\ t[k].phys \in Blocks
    BY TableAt
  <1>1. lo \in Run(lo, 2) /\ lo \in Blocks
    BY DEF Run
  <1>2. t \in Seq(Ext) /\ x \in Ext /\ x.log = e /\ x.phys = lo /\ x.len = 2
    BY <1>0, <1>1 DEF IsTable, Ext, GrowBlocks
  <1> HIDE DEF x
  <1>3. /\ u \in Seq(Ext) /\ Len(u) = m /\ u[m] = x
        /\ \A k \in 1..n : u[k] = t[k]
    BY <1>0, <1>2, AppendProperties
  <1>4. DOMAIN u = 1..m /\ m \in Nat /\ 1..m = (1..n) \cup {m} /\ m \notin 1..n
    BY <1>0, <1>3, LenProperties
  <1> HIDE DEF u, e
  <1>5. Run(u[m].phys, u[m].len) = Run(lo, 2)
    BY <1>2, <1>3
  <1>6. BlocksOf(u) = BlocksOf(t) \cup Run(lo, 2)
    <2> DEFINE F(k) == Run(t[k].phys, t[k].len)
               G(k) == Run(u[k].phys, u[k].len)
    <2>1. BlocksOf(u) = UNION {G(k) : k \in 1..m} /\ BlocksOf(t) = UNION {F(k) : k \in 1..n}
      BY <1>0, <1>4 DEF BlocksOf
    <2>2. (\A k \in 1..n : G(k) = F(k)) /\ G(m) = Run(lo, 2)
      BY <1>3, <1>5
    <2> HIDE DEF F, G, m
    <2>3. UNION {G(k) : k \in 1..m} = (UNION {F(k) : k \in 1..n}) \cup Run(lo, 2)
      <3>1. ASSUME NEW y \in UNION {G(k) : k \in 1..m} PROVE y \in (UNION {F(k) : k \in 1..n}) \cup Run(lo, 2)
        BY <1>4, <2>2
      <3>2. ASSUME NEW y \in (UNION {F(k) : k \in 1..n}) \cup Run(lo, 2) PROVE y \in UNION {G(k) : k \in 1..m}
        <4>1. CASE y \in Run(lo, 2)
          BY <1>4, <2>2, <4>1
        <4>2. CASE y \in UNION {F(k) : k \in 1..n}
          <5>1. PICK k \in 1..n : y \in F(k)
            BY <4>2
          <5> QED BY <1>4, <2>2, <5>1
        <4> QED BY <3>2, <4>1, <4>2
      <3> QED BY <3>1, <3>2
    <2> QED BY <2>1, <2>3
  <1>7. IsTable(u)
    <2>1. u # <<>>
      BY <1>0, <1>3, EmptySeq
    <2>2. u[1].log = 0
      BY <1>0, <1>3 DEF IsTable
    <2>3. \A k \in 1..(m - 1) : u[k + 1].log = u[k].log + u[k].len
      <3> TAKE k \in 1..(m - 1)
      <3>1. CASE k = n
        <4>1. u[k + 1].log = e /\ u[k] = t[n]
          BY <1>0, <1>2, <1>3, <3>1
        <4> QED BY <4>1 DEF e, LogicalEnd
      <3>2. CASE k # n
        <4>1. k \in 1..n /\ k + 1 \in 1..n /\ k \in 1..(n - 1)
          <5>1. n \in Nat
            BY <1>0
          <5> HIDE DEF n
          <5> QED BY <3>2, <5>1
        <4>2. u[k] = t[k] /\ u[k + 1] = t[k + 1]
          BY <1>3, <4>1
        <4> QED BY <4>1, <4>2 DEF IsTable
      <3> QED BY <3>1, <3>2
    <2>4. \A k \in 1..m : u[k].len >= GrowBlocks /\ Run(u[k].phys, u[k].len) \subseteq Blocks
      <3> TAKE k \in 1..m
      <3>1. CASE k = m
        BY <1>2, <1>3, <1>5, <3>1 DEF GrowBlocks
      <3>2. CASE k \in 1..n
        BY <1>3, <3>2 DEF IsTable
      <3> QED BY <1>4, <3>1, <3>2
    <2>5. ASSUME NEW j \in 1..m, NEW k \in 1..m, j # k
          PROVE  Run(u[j].phys, u[j].len) \cap Run(u[k].phys, u[k].len) = {}
      <3>1. \A h \in 1..n : Run(u[h].phys, u[h].len) \cap Run(lo, 2) = {}
        BY <1>0, <1>3 DEF BlocksOf
      <3>2. CASE j = m
        BY <1>4, <1>5, <2>5, <3>1, <3>2
      <3>3. CASE k = m
        BY <1>4, <1>5, <2>5, <3>1, <3>3
      <3>4. CASE j \in 1..n /\ k \in 1..n
        <4>1. u[j] = t[j] /\ u[k] = t[k]
          BY <1>3, <3>4
        <4> QED BY <2>5, <3>4, <4>1 DEF IsTable
      <3> QED BY <1>4, <3>2, <3>3, <3>4
    <2> QED BY <1>3, <2>1, <2>2, <2>3, <2>4, <2>5 DEF IsTable
  <1>8. LogicalEnd(u) = e + 2
    BY <1>2, <1>3 DEF LogicalEnd
  <1>9. ASSUME NEW l \in Nat, NEW k \in 1..m, Covers(u, k, l), l >= e
        PROVE  PlaceIn(u, k, l) \in Run(lo, 2)
    <2>1. k = m
      <3>1. CASE k \in 1..n
        <4>1. t[k].log + t[k].len <= e /\ u[k] = t[k]
          BY <1>3, <3>1, CoversOnce DEF e
        <4> QED BY <1>0, <1>9, <3>1, <4>1 DEF Covers
      <3> QED BY <1>4, <3>1
    <2>2. PlaceIn(u, k, l) = lo + (l - e) /\ l < e + 2
      BY <1>2, <1>3, <1>9, <2>1 DEF PlaceIn, Covers
    <2> QED BY <1>0, <1>9, <2>2 DEF Run
  <1>10. \A k \in 1..n : u[k].log = t[k].log /\ u[k].phys = t[k].phys /\ u[k].len >= t[k].len
    BY <1>0, <1>3
  <1>11. Longer(t, u, lo)
    BY <1>0, <1>3, <1>6, <1>7, <1>8, <1>9, <1>10 DEF Longer, e
  <1> QED BY <1>11 DEF u, x, e

\* The slots stay where they are, the new ones are in the new blocks.
LEMMA LongerPlaces ==
  ASSUME NEW t, IsTable(t), NEW u, NEW lo, Longer(t, u, lo)
  PROVE  /\ Slotted(t) \subseteq Slotted(u)
         /\ \A i \in Slotted(t) : BlockOf(u, i) = BlockOf(t, i)
         /\ \A i \in Slotted(u) \ Slotted(t) : BlockOf(u, i) \in Run(lo, 2)
  <1> DEFINE e == LogicalEnd(t)
             g == LogicalEnd(u)
             P == PerBlock
  <1>1. e \in Nat /\ g = e + 2 /\ P \in Nat /\ P > 0 /\ IsTable(u) /\ g \in Nat
    BY TableAt, Consts DEF Longer
  <1>2. /\ Slotted(t) = 0..(P * e - 1) /\ Slotted(u) = 0..(P * g - 1)
        /\ P * e \in Nat /\ P * g \in Nat
    BY <1>1 DEF Slotted
  <1>3. Slotted(t) \subseteq Slotted(u)
    <2> DEFINE u1 == P * e
               u2 == P * g
    <2>1. u1 \in Nat /\ u2 \in Nat /\ u1 <= u2
      BY <1>1, <1>2
    <2>2. Slotted(t) = 0..(u1 - 1) /\ Slotted(u) = 0..(u2 - 1)
      BY <1>2
    <2> HIDE DEF u1, u2
    <2> QED BY <2>1, <2>2
  <1>4. ASSUME NEW i \in Slotted(t) PROVE BlockOf(u, i) = BlockOf(t, i)
    <2> DEFINE l == i \div P
    <2>1. i \in Nat /\ i < P * g /\ i \in Slotted(u)
      BY <1>1, <1>2, <1>3
    <2>2. l \in 0..(g - 1)
      BY <1>1, <2>1, DivMod
    <2>3. l \in Nat
      BY <1>1, <2>2
    <2>4. PICK k \in 1..Len(t) : Covers(t, k, l) /\ BlockOf(t, i) = PlaceIn(t, k, l)
      BY SlotAt
    <2>5. PICK h \in 1..Len(u) : Covers(u, h, l) /\ BlockOf(u, i) = PlaceIn(u, h, l)
      BY <1>1, <2>1, SlotAt
    <2> HIDE DEF l
    <2>6. /\ k \in 1..Len(u) /\ u[k].log = t[k].log /\ u[k].phys = t[k].phys /\ u[k].len >= t[k].len
          /\ t[k].log \in Nat /\ t[k].len \in Nat /\ u[k].len \in Nat
      <3>1. k \in 1..Len(u)
        <4>1. Len(u) >= Len(t) /\ Len(u) \in Nat /\ Len(t) \in Nat
          BY <1>1, TableAt DEF Longer
        <4> QED BY <4>1
      <3> QED BY <1>1, <3>1, TableAt DEF Longer
    <2>7. Covers(u, k, l)
      <3>1. t[k].log <= l /\ l < t[k].log + t[k].len
        BY <2>4 DEF Covers
      <3>2. u[k].log <= l /\ l < u[k].log + u[k].len
        BY <2>3, <2>6, <3>1
      <3> QED BY <2>6, <3>2 DEF Covers
    <2>8. h = k
      BY <1>1, <2>3, <2>5, <2>7, CoversOnce
    <2> QED BY <2>4, <2>5, <2>6, <2>8 DEF PlaceIn
  <1>5. ASSUME NEW i \in Slotted(u) \ Slotted(t) PROVE BlockOf(u, i) \in Run(lo, 2)
    <2> DEFINE l == i \div P
    <2>1. i \in Nat /\ i < P * g /\ i >= P * e
      BY <1>1, <1>2
    <2>2. l \in 0..(g - 1) /\ Slot(i) \in 0..(P - 1) /\ i = P * l + Slot(i)
      BY <1>1, <2>1, DivMod
    <2>3. PICK h \in 1..Len(u) : Covers(u, h, l) /\ BlockOf(u, i) = PlaceIn(u, h, l)
      BY <1>1, SlotAt
    <2> HIDE DEF l
    <2>4. l >= e /\ l \in Nat
      <3> DEFINE r == Slot(i)
      <3>1. l \in Nat /\ r \in 0..(P - 1) /\ i = P * l + r
        BY <1>1, <2>2
      <3> HIDE DEF r, P, e
      <3>2. CASE l < e
        <4>1. P * l <= P * (e - 1) /\ P * (e - 1) = P * e - P
          BY <1>1, <3>1, <3>2
        <4>2. P * l \in Int /\ P * e \in Int
          BY <1>1, <3>1
        <4> QED BY <1>1, <2>1, <3>1, <4>1, <4>2
      <3> QED BY <1>1, <3>1, <3>2
    <2> QED BY <2>3, <2>4 DEF Longer
  <1> QED BY <1>3, <1>4, <1>5

\* grow_inode_table: the new blocks keep what they held, and their slots belong
\* to numbers that were not handed out.
LEMMA GrowKeeps ==
  ASSUME NEW s, NEW L, NEW U, NEW d, NEW Z, Sound(s, L, U, d, Z),
         Capacity(s.table) <= MaxIno, NEW p \in Grow(s)
  PROVE  Sound(p, L, U, d, Z) /\ LogicalEnd(p.table) = LogicalEnd(s.table) + 2
  <1> DEFINE t == s.table
  <1>0. /\ DOMAIN s = Fields /\ s.block \in [Blocks -> Block] /\ s.alloc \subseteq Blocks
        /\ IsTable(s.table) /\ U \subseteq DOMAIN s.inodes /\ DOMAIN s.inodes \subseteq DOMAIN L
        /\ DOMAIN L \subseteq Slotted(s.table) \ {0} /\ DOMAIN s.inodes \subseteq Inos
        /\ \A j \in DOMAIN s.inodes : s.inodes[j] \in [xattr : XattrSets, block : {0} \cup Blocks]
        /\ 0 \notin Blocks /\ Unused \notin Blocks /\ Unused # 0
    BY SoundFacts
  <1>1. PICK lo \in Starts(s.alloc, 2) :
          p = [s EXCEPT !.table = WithBlocks(@, lo), !.alloc = @ \ Run(lo, 2)]
    BY DEF Grow, GrowBlocks
  <1>2. lo \in Nat /\ Run(lo, 2) \subseteq s.alloc
    <2>1. 2 \in Nat /\ 2 >= 1
      OBVIOUS
    <2> QED BY <1>0, <1>1, <2>1, StartsIs
  <1> DEFINE u == WithBlocks(t, lo)
             R == Run(lo, 2)
  <1>3. R \subseteq Blocks \ BlocksOf(t) /\ R \cap d = {} /\ \A j \in DOMAIN L : Home(s, j) \notin R
    BY <1>0, <1>2 DEF Sound, Owned
  <1>4. Longer(t, u, lo)
    <2>1. CASE PhysicalEnd(t) = lo
      <3>1. u = [t EXCEPT ![Len(t)].len = @ + GrowBlocks]
        BY <2>1 DEF WithBlocks
      <3> QED BY <1>0, <1>2, <1>3, <2>1, <3>1, MergedIs
    <2>2. CASE PhysicalEnd(t) # lo
      <3>1. u = Append(t, [log |-> LogicalEnd(t), phys |-> lo, len |-> GrowBlocks])
        BY <2>2 DEF WithBlocks
      <3> QED BY <1>0, <1>2, <1>3, <3>1, AppendedIs
    <2> QED BY <2>1, <2>2
  <1> HIDE DEF u, R
  <1>5. /\ DOMAIN p = Fields /\ p.table = u /\ p.alloc = s.alloc \ R /\ p.block = s.block
        /\ p.inodes = s.inodes
    BY <1>0, <1>1 DEF Fields, u, R
  <1>6. /\ Slotted(t) \subseteq Slotted(u)
        /\ \A i \in Slotted(t) : BlockOf(u, i) = BlockOf(t, i)
        /\ \A i \in Slotted(u) \ Slotted(t) : BlockOf(u, i) \in R
    BY <1>0, <1>4, LongerPlaces DEF R
  <1>7. IsTable(u) /\ LogicalEnd(u) = LogicalEnd(t) + 2 /\ BlocksOf(u) = BlocksOf(t) \cup R
    BY <1>4 DEF Longer, R
  <1>8. \A i \in Slotted(t) : SlotOf(p, i) = SlotOf(s, i)
    BY <1>5, <1>6 DEF SlotOf
  <1>9. \A j \in DOMAIN L : Home(p, j) = Home(s, j)
    BY <1>0, <1>5, <1>8 DEF Home
  <1>10. Types(p)
    BY <1>0, <1>5 DEF Types, Fields, Block
  <1>11. Needed(u)
    <2>1. PerBlock * LogicalEnd(t) <= MaxIno /\ LogicalEnd(t) \in Nat
      BY <1>0, CapacityIs, TableAt
    <2>2. LogicalEnd(u) - GrowBlocks = LogicalEnd(t)
      BY <1>7, <2>1 DEF GrowBlocks
    <2> QED BY <2>1, <2>2 DEF Needed
  <1>12. Slots(p, L, U, Z)
    <2>1. \A j \in DOMAIN L : \/ SlotOf(p, j) = Home(p, j) /\ Home(p, j) # Unused
                              \/ j \in U /\ Home(p, j) = 0
      BY <1>0, <1>8, <1>9 DEF Sound, Slots
    <2>2. Z \subseteq Slotted(p.table) \ DOMAIN L /\ \A j \in Z : SlotOf(p, j) = Unused
      BY <1>5, <1>6, <1>8 DEF Sound, Slots
    <2> QED BY <1>0, <1>5, <1>6, <2>1, <2>2 DEF Slots
  <1>13. Attrs(p, L, U)
    BY <1>5, <1>9 DEF Sound, Attrs
  <1>14. Owned(p, L, d)
    <2>1. \A i \in DOMAIN L : Home(p, i) \in ({0} \cup Blocks) \ (BlocksOf(p.table) \cup d)
      BY <1>3, <1>5, <1>7, <1>9 DEF Sound, Owned
    <2>2. \A i, j \in DOMAIN L : i # j /\ Home(p, i) # 0 => Home(p, i) # Home(p, j)
      BY <1>9 DEF Sound, Owned
    <2>3. d \subseteq Blocks \ BlocksOf(p.table)
      BY <1>3, <1>5, <1>7 DEF Sound, Owned
    <2>4. \A b \in Blocks : b \in p.alloc <=>
            b \notin BlocksOf(p.table) \cup d /\ \A i \in DOMAIN L : Home(p, i) # b
      BY <1>3, <1>5, <1>7, <1>9 DEF Sound, Owned
    <2> QED BY <2>1, <2>2, <2>3, <2>4 DEF Owned
  <1> QED BY <1>5, <1>7, <1>10, <1>11, <1>12, <1>13, <1>14 DEF Sound

-----------------------------------------------------------------------------
(* Opening the image again. *)

\* Every inode fits the extents that the superblock keeps.
Room == MaxIno < 2 * PerBlock * MaxExts

\* Then decode finds the table that encode was given.
LEMMA KeptAll ==
  ASSUME Room, NEW t, IsTable(t), Needed(t)
  PROVE  KeptExtents(t) = t
  <1> DEFINE n == Len(t)
             g == t[n].log
             c == t[n].len
             e == LogicalEnd(t)
             P == PerBlock
  <1>1. /\ n \in Nat /\ n >= 1 /\ n \in 1..n /\ g \in Nat /\ c \in Nat /\ c >= 2 /\ e = g + c
        /\ P \in Nat /\ P > 0 /\ MaxExts \in Nat /\ MaxIno \in Nat
    BY TableAt, Consts DEF LogicalEnd
  <1>2. g >= 2 * (n - 1)
    BY <1>1, TableEnds
  <1>3. P * (e - 2) < 2 * P * MaxExts
    <2>1. P * (e - 2) <= MaxIno /\ MaxIno < 2 * P * MaxExts
      BY DEF Needed, Room, GrowBlocks
    <2>2. P * (e - 2) \in Int /\ 2 * P * MaxExts \in Int
      BY <1>1
    <2> HIDE DEF P, e
    <2> QED BY <1>1, <2>1, <2>2
  <1> HIDE DEF n, g, c, e, P
  <1>4. e - 2 < 2 * MaxExts
    <2>1. CASE e - 2 >= 2 * MaxExts
      <3>1. e - 2 \in Int /\ 2 * MaxExts \in Int
        BY <1>1
      <3>2. P * (e - 2) >= P * (2 * MaxExts)
        BY <1>1, <2>1, <3>1
      <3>3. P * (2 * MaxExts) = 2 * P * MaxExts
        BY <1>1
      <3> QED BY <1>1, <1>3, <3>2, <3>3
    <2> QED BY <1>1, <2>1
  <1>5. n <= MaxExts
    BY <1>1, <1>2, <1>4
  <1>6. (IF n < MaxExts THEN n ELSE MaxExts) = n
    BY <1>1, <1>5
  <1>7. KeptExtents(t) = SubSeq(t, 1, n)
    BY <1>6 DEF KeptExtents, n
  <1>8. t \in Seq(Ext)
    BY DEF IsTable
  <1> QED BY <1>7, <1>8, SubSeqFull DEF n

\* With every inode saved, the inodes in memory are no longer needed.
LEMMA ForgetKeeps ==
  ASSUME NEW s, NEW L, NEW d, NEW Z, Sound(s, L, {}, d, Z), NEW p,
         DOMAIN p = Fields, p.table = s.table, p.alloc = s.alloc, p.block = s.block, DOMAIN p.inodes = {}
  PROVE  /\ Sound(p, L, {}, d, Z)
         /\ \A i \in DOMAIN L \cup Z : Stored(p, i) = {} <=> i \notin DOMAIN L
  <1>0. /\ DOMAIN s = Fields /\ s.block \in [Blocks -> Block] /\ s.alloc \subseteq Blocks
        /\ IsTable(s.table) /\ DOMAIN s.inodes \subseteq DOMAIN L
        /\ DOMAIN L \subseteq Slotted(s.table) \ {0}
        /\ 0 \notin Blocks /\ Unused \notin Blocks /\ Unused # 0
    BY SoundFacts
  <1>1. \A i : SlotOf(p, i) = SlotOf(s, i)
    BY DEF SlotOf
  <1>2. \A i \in DOMAIN L : SlotOf(s, i) = Home(s, i) /\ Home(s, i) # Unused
    BY DEF Sound, Slots
  <1>3. \A i \in DOMAIN L : Home(p, i) = Home(s, i)
    BY <1>1, <1>2 DEF Home
  <1>4. Types(p) /\ IsTable(p.table) /\ Needed(p.table)
    <2>1. p.block \in [Blocks -> [slots : [0..(PerBlock - 1) -> SlotValues], xattrs : XattrSets]]
      BY <1>0 DEF Block
    <2> QED BY <1>0, <2>1 DEF Types, Fields, Sound
  <1>5. Slots(p, L, {}, Z)
    BY <1>0, <1>1, <1>2, <1>3 DEF Sound, Slots
  <1>6. Attrs(p, L, {})
    BY <1>3 DEF Sound, Attrs
  <1>7. Owned(p, L, d)
    BY <1>3 DEF Sound, Owned
  <1>8. ASSUME NEW i \in DOMAIN L \cup Z PROVE Stored(p, i) = {} <=> i \notin DOMAIN L
    <2>0. i \in Slotted(p.table)
      BY DEF Sound, Slots
    <2>1. CASE i \in DOMAIN L
      <3>1. SlotOf(p, i) # Unused
        BY <1>1, <1>2, <2>1
      <3> DEFINE x == [xattr |-> IF SlotOf(p, i) = 0 THEN NoXattrs ELSE p.block[SlotOf(p, i)].xattrs,
                       block |-> SlotOf(p, i)]
      <3>2. Stored(p, i) # {}
        <4>1. Stored(p, i) = {x}
          BY <1>4, <2>0, <3>1, StoredIs
        <4> HIDE DEF x
        <4> QED BY <4>1
      <3> QED BY <2>1, <3>2
    <2>2. CASE i \notin DOMAIN L
      <3>1. SlotOf(p, i) = Unused
        BY <1>1, <2>2 DEF Sound, Slots
      <3>2. Stored(p, i) = {}
        BY <1>4, <2>0, <3>1, StoredIs
      <3> QED BY <2>2, <3>2
    <2> QED BY <2>1, <2>2
  <1> QED BY <1>4, <1>5, <1>6, <1>7, <1>8 DEF Sound

\* The increasing lists of a set.
Sorted(S) ==
  {f \in [1..Cardinality(S) -> S] : \A j, k \in DOMAIN f : j < k => f[j] < f[k]}

LEMMA SortedExists ==
  ASSUME NEW n \in Nat, NEW S \in SUBSET (1..n)
  PROVE  Sorted(S) # {}
  <1> DEFINE T == {m \in Nat : \A X \in SUBSET (1..m) : Sorted(X) # {}}
  <1>1. 0 \in T
    <2>1. ASSUME NEW X \in SUBSET (1..0) PROVE Sorted(X) # {}
      <3>1. X = {} /\ Cardinality(X) = 0
        <4>1. 1..0 = {}
          OBVIOUS
        <4>2. X = {}
          BY <4>1
        <4> QED BY <4>2, FS_EmptySet
      <3>2. [k \in 1..0 |-> 0] \in Sorted(X)
        BY <3>1 DEF Sorted
      <3> QED BY <3>2
    <2> QED BY <2>1
  <1>2. ASSUME NEW m \in Nat, m \in T PROVE m + 1 \in T
    <2>1. ASSUME NEW X \in SUBSET (1..(m + 1)) PROVE Sorted(X) # {}
      <3>0. 1..(m + 1) = (1..m) \cup {m + 1} /\ m + 1 \notin 1..m
        OBVIOUS
      <3>1. CASE m + 1 \notin X
        <4>1. X \in SUBSET (1..m)
          BY <3>0, <3>1
        <4> QED BY <1>2, <4>1
      <3>2. CASE m + 1 \in X
        <4> DEFINE Y == X \ {m + 1}
                   c == Cardinality(Y)
        <4>1. Y \in SUBSET (1..m)
          BY <3>0
        <4>2. PICK g : g \in Sorted(Y)
          BY <1>2, <4>1
        <4>3. IsFiniteSet(X) /\ IsFiniteSet(Y)
          <5>1. IsFiniteSet(1..(m + 1))
            BY FS_Interval
          <5>2. IsFiniteSet(X)
            BY <5>1, FS_Subset
          <5> QED BY <5>2, FS_RemoveElement
        <4>4. c \in Nat /\ Cardinality(X) = c + 1
          <5>1. c = Cardinality(X) - 1
            BY <3>2, <4>3, FS_RemoveElement
          <5>2. c \in Nat /\ Cardinality(X) \in Nat
            BY <4>3, FS_CardinalityType
          <5> QED BY <5>1, <5>2
        <4> DEFINE f == [k \in 1..(c + 1) |-> IF k = c + 1 THEN m + 1 ELSE g[k]]
        <4>5. g \in [1..c -> Y] /\ \A j, k \in 1..c : j < k => g[j] < g[k]
          BY <4>2 DEF Sorted
        <4> HIDE DEF c
        <4>6. \A k \in 1..(c + 1) : k = c + 1 \/ k \in 1..c
          BY <4>4
        <4>7. f \in [1..(c + 1) -> X]
          <5>1. \A k \in 1..(c + 1) : f[k] \in X
            BY <3>2, <4>4, <4>5, <4>6
          <5> QED BY <5>1
        <4>8. ASSUME NEW j \in 1..(c + 1), NEW k \in 1..(c + 1), j < k PROVE f[j] < f[k]
          <5>1. j \in 1..c /\ f[j] = g[j] /\ g[j] \in 1..m
            <6>1. j \in 1..c /\ j # c + 1
              BY <4>4, <4>8
            <6>2. g[j] \in Y
              BY <4>5, <6>1
            <6>3. f[j] = g[j]
              BY <6>1
            <6> QED BY <4>1, <6>1, <6>2, <6>3
          <5>2. CASE k = c + 1
            BY <5>1, <5>2
          <5>3. CASE k \in 1..c
            BY <4>4, <4>5, <4>8, <5>1, <5>3
          <5> QED BY <4>6, <5>2, <5>3
        <4> HIDE DEF f
        <4>9. DOMAIN f = 1..(c + 1)
          BY <4>7
        <4>10. f \in Sorted(X)
          BY <4>4, <4>7, <4>8, <4>9 DEF Sorted
        <4> QED BY <4>10
      <3> QED BY <3>1, <3>2
    <2> QED BY <2>1
  <1> HIDE DEF T
  <1>3. n \in T
    BY <1>1, <1>2, NatInduct
  <1> QED BY <1>3 DEF T

LEMMA SortedEnumerates ==
  ASSUME NEW n \in Nat, NEW S \in SUBSET (1..n), NEW f \in Sorted(S)
  PROVE  Enumerates(f, S)
  <1> DEFINE c == Cardinality(S)
  <1>1. IsFiniteSet(S) /\ c \in Nat
    <2>1. IsFiniteSet(1..n)
      BY FS_Interval
    <2> QED BY <2>1, FS_Subset, FS_CardinalityType
  <1>2. f \in [1..c -> S] /\ \A j, k \in 1..c : j < k => f[j] < f[k]
    BY DEF Sorted
  <1>3. \A j, k \in 1..c : f[j] = f[k] => j = k
    <2> SUFFICES ASSUME NEW j \in 1..c, NEW k \in 1..c, f[j] = f[k], j # k PROVE FALSE
      OBVIOUS
    <2>1. f[j] \in 1..n /\ f[k] \in 1..n
      BY <1>2
    <2>2. j < k \/ k < j
      BY <1>1
    <2> QED BY <1>2, <2>1, <2>2
  <1>4. IsFiniteSet(1..c) /\ Cardinality(1..c) = c
    BY <1>1, FS_Interval
  <1>5. f \in Injection(1..c, S)
    BY <1>2, <1>3 DEF Injection, IsInjective
  <1>6. f \in Surjection(1..c, S)
    BY <1>1, <1>4, <1>5, FS_Injection
  <1>7. \A x \in S : \E i \in 1..c : f[i] = x
    BY <1>6 DEF Surjection
  <1>8. f \in Seq(S) /\ Len(f) = c
    BY <1>1, <1>2, FunctionIsSeq
  <1>9. DOMAIN f = 1..c /\ \A i \in 1..c : f[i] \in S
    BY <1>2
  <1> HIDE DEF c
  <1>10. Range(f) = S
    BY <1>7, <1>9 DEF Range
  <1> QED BY <1>3, <1>8, <1>9, <1>10 DEF Enumerates, IsInjective

-----------------------------------------------------------------------------
(* The steps. *)

LEMMA NumbersSame ==
  ASSUME Numbers, numbers' = numbers, DOMAIN live' = DOMAIN live, st'.table = st.table
  PROVE  Numbers' /\ Unborn' = Unborn
  <1>1. Unborn' = Unborn
    BY DEF Unborn
  <1>2. LogicalEnd(st'.table) = LogicalEnd(st.table)
    OBVIOUS
  <1> QED BY <1>1, <1>2 DEF Numbers

LEMMA NumbersFacts ==
  ASSUME Inv
  PROVE  /\ numbers.next \in Nat /\ numbers.next >= 2 /\ numbers.next <= MaxIno + 1
         /\ numbers.next <= Capacity(st.table) /\ Capacity(st.table) = PerBlock * LogicalEnd(st.table)
         /\ Capacity(st.table) \in Nat
         /\ 1..(numbers.next - 1) \subseteq Slotted(st.table) /\ 1..(numbers.next - 1) \subseteq Inos
         /\ IsFiniteSet(DOMAIN live) /\ DOMAIN live \subseteq 1..(numbers.next - 1)
         /\ DOMAIN live \subseteq Inos
  <1> DEFINE n == numbers.next
             c == PerBlock * LogicalEnd(st.table)
  <1>1. IsTable(st.table)
    BY DEF Inv, Sound
  <1>2. Capacity(st.table) = c /\ c \in Nat
    BY <1>1, CapacityIs
  <1>3. n \in 2..(MaxIno + 1) /\ n <= c /\ DOMAIN live \subseteq 1..(n - 1)
    BY DEF Inv, Numbers
  <1>4. Slotted(st.table) = 0..(c - 1)
    BY DEF Slotted
  <1> HIDE DEF n, c
  <1>5. n \in Nat /\ n >= 2 /\ n <= MaxIno + 1
    BY <1>3, Consts
  <1>6. 1..(n - 1) \subseteq 0..(c - 1) /\ 1..(n - 1) \subseteq 1..MaxIno
    BY <1>2, <1>3, <1>5, Consts
  <1>7. IsFiniteSet(DOMAIN live)
    <2>1. IsFiniteSet(1..(n - 1))
      BY <1>5, FS_Interval
    <2> QED BY <1>3, <2>1, FS_Subset
  <1> QED BY <1>2, <1>3, <1>4, <1>5, <1>6, <1>7, Consts DEF n, c

LEMMA BornIs ==
  ASSUME NEW s, NEW i \in Inos, Sound(s, live, dirty, data, Unborn),
         i \in Slotted(s.table) \ DOMAIN live, Born(i, s)
  PROVE  /\ Sound(st', live', dirty', data', Unborn \ {i}) /\ DOMAIN live' = DOMAIN live \cup {i}
         /\ st'.table = s.table
  <1>1. Sound(SetInode(s, i, NewInode), Put(live, i, NoXattrs), dirty \cup {i}, data, Unborn \ {i})
    BY BornKeeps
  <1>2. /\ st' = SetInode(s, i, NewInode) /\ live' = Put(live, i, NoXattrs) /\ dirty' = dirty \cup {i}
        /\ data' = data
    BY DEF Born
  <1>3. DOMAIN live' = DOMAIN live \cup {i}
    BY <1>2 DEF Put
  <1>4. DOMAIN s = Fields
    BY SoundFacts
  <1>5. st'.table = s.table
    BY <1>2, <1>4, SetInodeIs
  <1>6. Sound(st', live', dirty', data', Unborn \ {i})
    BY <1>1, <1>2
  <1> QED BY <1>3, <1>5, <1>6

LEMMA ReusedStep ==
  ASSUME Inv, AllocReused
  PROVE  Inv'
  <1> DEFINE f == numbers.free
             i == f[Len(f)]
             g == SubSeq(f, 1, Len(f) - 1)
  <1>1. f # <<>> /\ numbers' = [numbers EXCEPT !.free = g, !.count = @ + 1] /\ Born(i, st)
    BY DEF AllocReused
  <1>2. Enumerates(f, Unborn)
    BY DEF Inv, Numbers
  <1>3. i \in Unborn /\ Enumerates(g, Unborn \ {i})
    BY <1>1, <1>2, EnumeratesFront
  <1> HIDE DEF i, g, f
  <1>4. /\ i \in 1..(numbers.next - 1) /\ i \notin DOMAIN live /\ i \in Inos /\ i \in Slotted(st.table)
        /\ IsFiniteSet(DOMAIN live) /\ DOMAIN live \subseteq 1..(numbers.next - 1)
    BY <1>3, NumbersFacts DEF Unborn
  <1>5. /\ Sound(st', live', dirty', data', Unborn \ {i}) /\ DOMAIN live' = DOMAIN live \cup {i}
        /\ st'.table = st.table
    BY <1>1, <1>4, BornIs DEF Inv
  <1>6. numbers' = [free |-> g, next |-> numbers.next, count |-> numbers.count + 1]
    <2>1. numbers = [free |-> numbers.free, next |-> numbers.next, count |-> numbers.count]
      BY DEF Inv, Numbers
    <2> QED BY <1>1, <2>1
  <1>7. Unborn' = Unborn \ {i}
    BY <1>5, <1>6 DEF Unborn
  <1>8. numbers'.count = Cardinality(DOMAIN live')
    <2>1. Cardinality(DOMAIN live \cup {i}) = Cardinality(DOMAIN live) + 1
      BY <1>4, FS_AddElement
    <2>2. numbers.count = Cardinality(DOMAIN live)
      BY DEF Inv, Numbers
    <2> QED BY <1>5, <1>6, <2>1, <2>2
  <1>9. Numbers'
    <2>1. numbers'.free = g /\ numbers'.next = numbers.next
      BY <1>6
    <2>2. Enumerates(numbers'.free, Unborn')
      BY <1>3, <1>7, <2>1
    <2>3. ROOT_INO \in DOMAIN live' /\ DOMAIN live' \subseteq 1..(numbers'.next - 1)
      BY <1>4, <1>5, <2>1 DEF Inv, Numbers
    <2>4. numbers'.next \in 2..(MaxIno + 1) /\ numbers'.next <= PerBlock * LogicalEnd(st'.table)
      BY <1>5, <2>1 DEF Inv, Numbers
    <2>5. numbers' = [free |-> numbers'.free, next |-> numbers'.next, count |-> numbers'.count]
      BY <1>6
    <2> QED BY <1>8, <2>2, <2>3, <2>4, <2>5 DEF Numbers
  <1> QED BY <1>5, <1>7, <1>9 DEF Inv

LEMMA NewStep ==
  ASSUME Inv, AllocNew
  PROVE  Inv'
  <1> DEFINE n == numbers.next
             c == Capacity(st.table)
  <1>1. /\ numbers.free = <<>> /\ n \in Inos
        /\ numbers' = [numbers EXCEPT !.next = @ + 1, !.count = @ + 1]
    BY DEF AllocNew
  <1>2. PICK s \in IF Enough(st.table) THEN {st} ELSE Grow(st) : Born(n, s)
    BY DEF AllocNew
  <1>3. /\ n \in Nat /\ n >= 2 /\ n <= MaxIno + 1 /\ n <= c
        /\ c = PerBlock * LogicalEnd(st.table) /\ c \in Nat
        /\ IsFiniteSet(DOMAIN live) /\ DOMAIN live \subseteq 1..(n - 1)
    BY NumbersFacts
  <1>4. n \notin DOMAIN live /\ n <= MaxIno
    BY <1>1, <1>3, Consts
  <1>5. Sound(s, live, dirty, data, Unborn) /\ n + 1 <= PerBlock * LogicalEnd(s.table) /\ LogicalEnd(s.table) \in Nat
    <2>1. CASE Enough(st.table)
      <3>1. s = st
        BY <1>2, <2>1
      <3>2. n < c
        BY <2>1 DEF Enough
      <3>3. LogicalEnd(st.table) \in Nat
        BY TableAt DEF Inv, Sound
      <3>4. n + 1 <= c
        <4> HIDE DEF n, c
        <4> QED BY <1>3, <3>2
      <3> QED BY <1>3, <3>1, <3>3, <3>4 DEF Inv
    <2>2. CASE ~ Enough(st.table)
      <3>1. s \in Grow(st)
        BY <1>2, <2>2
      <3>2. c <= MaxIno
        <4>1. ~ (n < c)
          BY <2>2 DEF Enough
        <4> HIDE DEF n, c
        <4> QED BY <1>3, <1>4, <4>1, Consts
      <3>3. Sound(s, live, dirty, data, Unborn) /\ LogicalEnd(s.table) = LogicalEnd(st.table) + 2
        BY <3>1, <3>2, GrowKeeps DEF Inv
      <3>4. LogicalEnd(st.table) \in Nat
        BY TableAt DEF Inv, Sound
      <3> DEFINE e == LogicalEnd(st.table)
      <3>5. LogicalEnd(s.table) = e + 2 /\ e \in Nat /\ c = PerBlock * e
        BY <1>3, <3>3, <3>4
      <3> HIDE DEF e, n, c
      <3>6. PerBlock * (e + 2) = PerBlock * e + 2 * PerBlock
        BY <3>5, Consts
      <3>7. n + 1 <= PerBlock * (e + 2)
        BY <1>3, <3>5, <3>6, Consts
      <3> QED BY <3>3, <3>5, <3>7
    <2> QED BY <2>1, <2>2
  <1>6. n \in Slotted(s.table) \ DOMAIN live
    <2> DEFINE k == PerBlock * LogicalEnd(s.table)
    <2>1. n + 1 <= k /\ k \in Int
      BY <1>5, Consts
    <2>2. Slotted(s.table) = 0..(k - 1)
      BY DEF Slotted
    <2> HIDE DEF k, n
    <2> QED BY <1>3, <1>4, <2>1, <2>2
  <1>7. /\ Sound(st', live', dirty', data', Unborn \ {n}) /\ DOMAIN live' = DOMAIN live \cup {n}
        /\ st'.table = s.table
    BY <1>1, <1>2, <1>5, <1>6, BornIs
  <1>8. numbers' = [free |-> <<>>, next |-> n + 1, count |-> numbers.count + 1]
    <2>1. numbers = [free |-> numbers.free, next |-> numbers.next, count |-> numbers.count]
      BY DEF Inv, Numbers
    <2> QED BY <1>1, <2>1
  <1>9. Unborn' = {} /\ Unborn = {}
    <2>1. Enumerates(<<>>, Unborn)
      BY <1>1 DEF Inv, Numbers
    <2>2. Unborn = {}
      BY <2>1 DEF Enumerates, Range
    <2>3. 1..(n - 1) \subseteq DOMAIN live
      BY <2>2 DEF Unborn
    <2>4. Unborn' = (1..((n + 1) - 1)) \ (DOMAIN live \cup {n})
      BY <1>7, <1>8 DEF Unborn
    <2> HIDE DEF n
    <2> QED BY <1>3, <2>2, <2>3, <2>4
  <1>10. numbers'.count = Cardinality(DOMAIN live')
    <2>1. Cardinality(DOMAIN live \cup {n}) = Cardinality(DOMAIN live) + 1
      BY <1>3, <1>4, FS_AddElement
    <2>2. numbers.count = Cardinality(DOMAIN live)
      BY DEF Inv, Numbers
    <2> QED BY <1>7, <1>8, <2>1, <2>2
  <1>11. Numbers'
    <2>1. numbers'.free = <<>> /\ numbers'.next = n + 1
      BY <1>8
    <2>2. Enumerates(numbers'.free, Unborn')
      <3>1. Enumerates(<<>>, {})
        BY EmptySeq DEF Enumerates, Range, IsInjective
      <3> QED BY <1>9, <2>1, <3>1
    <2>3. ROOT_INO \in DOMAIN live' /\ DOMAIN live' \subseteq 1..(numbers'.next - 1)
      <3>1. ROOT_INO \in DOMAIN live
        BY DEF Inv, Numbers
      <3> HIDE DEF n
      <3>2. DOMAIN live \cup {n} \subseteq 1..((n + 1) - 1)
        BY <1>3
      <3> QED BY <1>7, <2>1, <3>1, <3>2
    <2>4. numbers'.next \in 2..(MaxIno + 1) /\ numbers'.next <= PerBlock * LogicalEnd(st'.table)
      <3>1. n + 1 \in 2..(MaxIno + 1)
        <4> HIDE DEF n
        <4> QED BY <1>3, <1>4, Consts
      <3> QED BY <1>5, <1>7, <2>1, <3>1
    <2>5. numbers' = [free |-> numbers'.free, next |-> numbers'.next, count |-> numbers'.count]
      BY <1>8
    <2> QED BY <1>10, <2>2, <2>3, <2>4, <2>5 DEF Numbers
  <1>12. Unborn \ {n} = Unborn'
    BY <1>9
  <1> QED BY <1>7, <1>11, <1>12 DEF Inv

LEMMA DropStep ==
  ASSUME Inv, NEW i \in Inos, DropInode(i)
  PROVE  Inv'
  <1> DEFINE h == Home(st, i)
  <1>1. /\ i # ROOT_INO /\ i \in DOMAIN live /\ dirty' = dirty \ {i} /\ data' = data
        /\ live' = Restrict(live, DOMAIN live \ {i})
        /\ numbers' = [numbers EXCEPT !.free = Append(@, i), !.count = IF @ = 0 THEN 0 ELSE @ - 1]
    BY DEF DropInode
  <1>2. Get(st, i) = {[xattr |-> live[i], block |-> h]} /\ DOMAIN st = Fields
    BY <1>1, GetIs, SoundFacts DEF Inv
  <1>3. st' = [st EXCEPT !.alloc = @ \cup ({h} \ {0}),
                         !.inodes = Restrict(@, DOMAIN @ \ {i}),
                         !.block = Cleared(st, i)]
    <2> HIDE DEF h
    <2>1. PICK n \in Get(st, i) :
            st' = [st EXCEPT !.alloc = @ \cup ({n.block} \ {0}),
                             !.inodes = Restrict(@, DOMAIN @ \ {i}),
                             !.block = Cleared(st, i)]
      BY DEF DropInode
    <2>2. n.block = h
      BY <1>2, <2>1
    <2> QED BY <2>1, <2>2
  <1>4. Dropped(st, i, st')
    <2> DEFINE m == Cleared(st, i)
    <2>1. st' = [st EXCEPT !.alloc = @ \cup ({h} \ {0}),
                           !.inodes = Restrict(@, DOMAIN @ \ {i}), !.block = m]
      BY <1>3
    <2> HIDE DEF h, m
    <2>2. /\ DOMAIN st' = Fields /\ st'.table = st.table /\ st'.alloc = st.alloc \cup ({h} \ {0})
          /\ st'.block = m /\ st'.inodes = Restrict(st.inodes, DOMAIN st.inodes \ {i})
      BY <1>2, <2>1 DEF Fields
    <2>3. /\ DOMAIN st'.inodes = DOMAIN st.inodes \ {i}
          /\ \A j \in DOMAIN st'.inodes : st'.inodes[j] = st.inodes[j]
      BY <2>2 DEF Restrict
    <2> QED BY <2>2, <2>3 DEF Dropped, h, m
  <1>5. DOMAIN live' = DOMAIN live \ {i} /\ \A j \in DOMAIN live' : live'[j] = live[j]
    BY <1>1 DEF Restrict
  <1>6. Sound(st', live', dirty \ {i}, data, Unborn \cup {i}) /\ st'.table = st.table
    <2>1. Sound(st, live, dirty, data, Unborn) /\ i \in DOMAIN live
      BY <1>1 DEF Inv
    <2>2. Sound(st', live', dirty \ {i}, data, Unborn \cup {i})
      BY <1>4, <1>5, <2>1, DropKeeps
    <2> QED BY <1>4, <2>2 DEF Dropped
  <1>7. /\ IsFiniteSet(DOMAIN live) /\ DOMAIN live \subseteq 1..(numbers.next - 1)
        /\ numbers.count = Cardinality(DOMAIN live) /\ Cardinality(DOMAIN live) \in Nat
    BY NumbersFacts, FS_CardinalityType DEF Inv, Numbers
  <1>8. numbers.count # 0
    BY <1>1, <1>7, FS_EmptySet
  <1>9. numbers' = [free |-> Append(numbers.free, i), next |-> numbers.next, count |-> numbers.count - 1]
    <2>1. numbers = [free |-> numbers.free, next |-> numbers.next, count |-> numbers.count]
      BY DEF Inv, Numbers
    <2> DEFINE g == Append(numbers.free, i)
               k == IF numbers.count = 0 THEN 0 ELSE numbers.count - 1
    <2>2. numbers' = [numbers EXCEPT !.free = g, !.count = k]
      BY <1>1
    <2>3. k = numbers.count - 1
      BY <1>8
    <2> HIDE DEF g, k
    <2> QED BY <2>1, <2>2, <2>3 DEF g
  <1>10. Unborn' = Unborn \cup {i} /\ i \notin Unborn
    BY <1>1, <1>5, <1>7, <1>9 DEF Unborn
  <1>11. Enumerates(Append(numbers.free, i), Unborn \cup {i})
    <2>1. Enumerates(numbers.free, Unborn)
      BY DEF Inv, Numbers
    <2> QED BY <1>10, <2>1, EnumeratesAppend
  <1>12. Numbers'
    <2> DEFINE g == Append(numbers.free, i)
    <2>1. numbers' = [free |-> g, next |-> numbers.next, count |-> numbers.count - 1]
      BY <1>9
    <2>2. Enumerates(g, Unborn')
      BY <1>10, <1>11
    <2> HIDE DEF g
    <2>3. numbers'.free = g /\ numbers'.next = numbers.next /\ numbers'.count = numbers.count - 1
      BY <2>1
    <2>4. ROOT_INO \in DOMAIN live' /\ DOMAIN live' \subseteq 1..(numbers'.next - 1)
      BY <1>1, <1>5, <1>7, <2>3 DEF Inv, Numbers
    <2>5. numbers'.next \in 2..(MaxIno + 1) /\ numbers'.next <= PerBlock * LogicalEnd(st'.table)
      BY <1>6, <2>3 DEF Inv, Numbers
    <2>6. numbers'.count = Cardinality(DOMAIN live')
      <3>1. Cardinality(DOMAIN live \ {i}) = Cardinality(DOMAIN live) - 1
        BY <1>1, <1>7, FS_RemoveElement
      <3> QED BY <1>5, <1>7, <2>3, <3>1
    <2>7. numbers' = [free |-> numbers'.free, next |-> numbers'.next, count |-> numbers'.count]
      BY <2>1
    <2>8. Enumerates(numbers'.free, Unborn')
      BY <2>2, <2>3
    <2> QED BY <2>4, <2>5, <2>6, <2>7, <2>8 DEF Numbers
  <1> QED BY <1>1, <1>6, <1>10, <1>12 DEF Inv

LEMMA LoadStep ==
  ASSUME Inv, NEW i \in Inos, Load(i)
  PROVE  Inv'
  <1> DEFINE n == [xattr |-> live[i], block |-> Home(st, i)]
  <1>1. /\ i \in DOMAIN live /\ UNCHANGED <<dirty, numbers, data, live>>
        /\ \E x \in Get(st, i) : st' = SetInode(st, i, x)
    BY DEF Load
  <1>2. Get(st, i) = {n} /\ DOMAIN st = Fields
    BY <1>1, GetIs, SoundFacts DEF Inv
  <1>3. st' = SetInode(st, i, n)
    BY <1>1, <1>2
  <1>4. live[i] \in XattrSets
    BY <1>1, LiveType DEF Inv
  <1>5. Sound(st', live, dirty, data, Unborn)
    <2>1. \A j \in DOMAIN live : live[j] = IF j = i THEN live[i] ELSE live[j]
      OBVIOUS
    <2> QED BY <1>1, <1>3, <1>4, <2>1, LoadKeeps DEF Inv
  <1>6. st'.table = st.table
    BY <1>2, <1>3, SetInodeIs
  <1>7. Numbers' /\ Unborn' = Unborn
    BY <1>1, <1>6, NumbersSame DEF Inv
  <1> QED BY <1>1, <1>5, <1>7 DEF Inv

\* What setxattr and removexattr do.
LEMMA ChangedStep ==
  ASSUME Inv, NEW i \in Inos, i \in DOMAIN live, NEW n, n = [xattr |-> live[i], block |-> Home(st, i)],
         NEW xs \in XattrSets, Changed(i, n, xs), live' = [live EXCEPT ![i] = xs]
  PROVE  Inv'
  <1>1. /\ dirty' = dirty \cup {i} /\ UNCHANGED <<numbers, data>>
        /\ st' = SetInode(st, i, [n EXCEPT !.xattr = xs])
    BY DEF Changed
  <1>2. [n EXCEPT !.xattr = xs] = [xattr |-> xs, block |-> Home(st, i)]
    OBVIOUS
  <1>3. st' = SetInode(st, i, [xattr |-> xs, block |-> Home(st, i)])
    BY <1>1, <1>2
  <1>4. DOMAIN live' = DOMAIN live /\ \A j \in DOMAIN live : live'[j] = IF j = i THEN xs ELSE live[j]
    OBVIOUS
  <1>5. Sound(st', live', dirty', data, Unborn)
    <2>1. dirty' = dirty \cup {i}
      BY <1>1
    <2> QED BY <1>3, <1>4, <2>1, LoadKeeps DEF Inv
  <1>6. DOMAIN st = Fields
    BY SoundFacts DEF Inv
  <1>7. st'.table = st.table
    BY <1>3, <1>6, SetInodeIs
  <1>8. Numbers' /\ Unborn' = Unborn
    BY <1>1, <1>4, <1>7, NumbersSame DEF Inv
  <1> QED BY <1>1, <1>5, <1>8 DEF Inv

LEMMA SetXattrStep ==
  ASSUME Inv, NEW i \in Owners, NEW name \in Names, NEW v \in Values, NEW c, NEW r,
         SetXattr(i, name, v, c, r)
  PROVE  Inv'
  <1>1. i \in DOMAIN live /\ live' = [live EXCEPT ![i] = Put(@, name, v)]
    BY DEF SetXattr
  <1>2. PICK n \in Get(st, i) : Changed(i, n, Put(n.xattr, name, v))
    BY DEF SetXattr
  <1>3. n = [xattr |-> live[i], block |-> Home(st, i)]
    BY <1>1, <1>2, GetIs DEF Inv
  <1> DEFINE xs == Put(live[i], name, v)
  <1>4. xs \in XattrSets
    BY <1>1, LiveType, XattrsPut DEF Inv
  <1>5. i \in Inos
    BY InodeTableAssumption DEF Inos
  <1>6. n.xattr = live[i]
    BY <1>3
  <1>7. Changed(i, n, xs) /\ live' = [live EXCEPT ![i] = xs]
    BY <1>1, <1>2, <1>6
  <1> HIDE DEF xs
  <1> QED BY <1>1, <1>3, <1>4, <1>5, <1>7, ChangedStep

LEMMA RemoveXattrStep ==
  ASSUME Inv, NEW i \in Owners, NEW name, RemoveXattr(i, name)
  PROVE  Inv'
  <1>1. i \in DOMAIN live /\ live' = [live EXCEPT ![i] = Restrict(@, DOMAIN @ \ {name})]
    BY DEF RemoveXattr
  <1>2. PICK n \in Get(st, i) : Changed(i, n, Restrict(n.xattr, DOMAIN n.xattr \ {name}))
    BY DEF RemoveXattr
  <1>3. n = [xattr |-> live[i], block |-> Home(st, i)]
    BY <1>1, <1>2, GetIs DEF Inv
  <1> DEFINE xs == Restrict(live[i], DOMAIN live[i] \ {name})
  <1>4. xs \in XattrSets
    BY <1>1, LiveType, XattrsRestrict DEF Inv
  <1>5. i \in Inos
    BY InodeTableAssumption DEF Inos
  <1>6. n.xattr = live[i]
    BY <1>3
  <1>7. Changed(i, n, xs) /\ live' = [live EXCEPT ![i] = xs]
    BY <1>1, <1>2, <1>6
  <1> HIDE DEF xs
  <1> QED BY <1>1, <1>3, <1>4, <1>5, <1>7, ChangedStep

LEMMA SyncStep ==
  ASSUME Inv, Sync
  PROVE  Inv'
  <1>1. st' \in Persisted(dirty) /\ dirty' = {} /\ UNCHANGED <<numbers, data, live>>
    BY DEF Sync
  <1>2. Sound(st', live, dirty \ dirty, data, Unborn) /\ st'.table = st.table
    BY <1>1, PersistedKeeps DEF Inv
  <1>3. dirty \ dirty = {}
    OBVIOUS
  <1>4. Numbers' /\ Unborn' = Unborn
    BY <1>1, <1>2, NumbersSame DEF Inv
  <1> QED BY <1>1, <1>2, <1>3, <1>4 DEF Inv

LEMMA SyncFailsStep ==
  ASSUME Inv, SyncFails
  PROVE  Inv'
  <1>1. UNCHANGED <<dirty, numbers, data, live>>
    BY DEF SyncFails
  <1>2. PICK D \in SUBSET (dirty \ Oversize) : st' \in Persisted(D)
    BY DEF SyncFails
  <1>3. /\ Sound(st', live, dirty \ D, data, Unborn) /\ st'.table = st.table
        /\ DOMAIN st'.inodes = DOMAIN st.inodes
    BY <1>2, PersistedKeeps DEF Inv
  <1>4. dirty \subseteq DOMAIN st.inodes
    BY SoundFacts DEF Inv
  <1>5. Sound(st', live, dirty, data, Unborn)
    BY <1>3, <1>4, SoundMore
  <1>6. Numbers' /\ Unborn' = Unborn
    BY <1>1, <1>3, NumbersSame DEF Inv
  <1> QED BY <1>1, <1>5, <1>6 DEF Inv

LEMMA TakeStep ==
  ASSUME Inv, NEW f \in Foreign, TakeBlock(f)
  PROVE  Inv'
  <1> DEFINE x == [slots |-> f, xattrs |-> NoXattrs]
  <1>0. x \in Block
    BY ForeignAssumption, NoXattrsType DEF Block, SlotValues
  <1>1. PICK b \in Starts(st.alloc, 1) :
          /\ st' = [st EXCEPT !.alloc = @ \ {b}, !.block[b] = x]
          /\ data' = data \cup {b} /\ UNCHANGED <<dirty, numbers, live>>
    BY DEF TakeBlock
  <1> HIDE DEF x
  <1>2. b \in st.alloc
    <2>1. 1 \in Nat /\ 1 >= 1 /\ st.alloc \subseteq Blocks
      BY SoundFacts DEF Inv
    <2> QED BY <1>1, <2>1, StartsIs
  <1>3. Sound(st', live, dirty, data \cup {b}, Unborn) /\ st'.table = st.table
    <2>1. Sound(st, live, dirty, data, Unborn) /\ DOMAIN st = Fields
      BY SoundFacts DEF Inv
    <2>2. /\ DOMAIN st' = Fields /\ st'.table = st.table /\ st'.inodes = st.inodes
          /\ st'.alloc = st.alloc \ {b} /\ st'.block = [st.block EXCEPT ![b] = x]
      BY <1>1, <2>1 DEF Fields
    <2> QED BY <1>0, <1>2, <2>1, <2>2, TakeKeeps
  <1>4. Numbers' /\ Unborn' = Unborn
    BY <1>1, <1>3, NumbersSame DEF Inv
  <1> QED BY <1>1, <1>3, <1>4 DEF Inv

LEMMA GiveStep ==
  ASSUME Inv, NEW b \in Blocks, GiveBlock(b)
  PROVE  Inv'
  <1>1. /\ b \in data /\ st' = [st EXCEPT !.alloc = @ \cup {b}]
        /\ data' = data \ {b} /\ UNCHANGED <<dirty, numbers, live>>
    BY DEF GiveBlock
  <1>2. Sound(st', live, dirty, data \ {b}, Unborn) /\ st'.table = st.table
    <2>1. Sound(st, live, dirty, data, Unborn) /\ b \in data /\ st' = [st EXCEPT !.alloc = @ \cup {b}]
      BY <1>1 DEF Inv
    <2> QED BY <2>1, GiveKeeps
  <1>3. Numbers' /\ Unborn' = Unborn
    BY <1>1, <1>2, NumbersSame DEF Inv
  <1> QED BY <1>1, <1>2, <1>3 DEF Inv

\* rebuild_free_inodes finds the numbers that no inode has.
LEMMA RebuiltIs ==
  ASSUME Inv, NEW s, s.table = st.table,
         \A i \in 1..(numbers.next - 1) : Stored(s, i) = {} <=> i \notin DOMAIN live
  PROVE  /\ Rebuilt(s) = [free |-> Rebuilt(s).free, next |-> numbers.next, count |-> numbers.count]
         /\ Enumerates(Rebuilt(s).free, Unborn)
  <1> DEFINE n == numbers.next
             unused == {i \in FIRST_USER_INO..(Limit(s) - 1) : Stored(s, i) = {}}
             used == {i \in 1..(Limit(s) - 1) : Stored(s, i) # {}}
             f == CHOOSE g \in [1..Cardinality(unused) -> unused] :
                    \A j, k \in DOMAIN g : j < k => g[j] < g[k]
  <1>1. /\ n \in Nat /\ n >= 2 /\ n <= Capacity(st.table) /\ Capacity(st.table) \in Nat
        /\ 1..(n - 1) \subseteq Slotted(st.table) /\ DOMAIN live \subseteq 1..(n - 1)
    BY NumbersFacts
  <1>2. Limit(s) = n
    <2> DEFINE c == Capacity(st.table)
    <2>1. Limit(s) = IF n < c THEN n ELSE c
      BY DEF Limit
    <2>2. n \in Nat /\ c \in Nat /\ n <= c
      BY <1>1
    <2> HIDE DEF n, c
    <2> QED BY <2>1, <2>2
  <1>3. 1 \in DOMAIN live
    BY DEF Inv, Numbers, ROOT_INO
  <1>4. \A i \in 1..(n - 1) : Stored(s, i) = {} <=> i \notin DOMAIN live
    BY <1>1
  <1>5. unused = Unborn
    <2>1. unused = {i \in 2..(n - 1) : Stored(s, i) = {}}
      BY <1>2 DEF FIRST_USER_INO
    <2>2. Unborn = (1..(n - 1)) \ DOMAIN live
      BY DEF Unborn
    <2> HIDE DEF n, unused
    <2>3. \A i : i \in 2..(n - 1) <=> i \in 1..(n - 1) /\ i # 1
      BY <1>1
    <2> QED BY <1>3, <1>4, <2>1, <2>2, <2>3
  <1>6. used = DOMAIN live
    <2>1. used = {i \in 1..(n - 1) : Stored(s, i) # {}}
      BY <1>2
    <2> HIDE DEF n, used
    <2> QED BY <1>1, <1>4, <2>1
  <1>7. Cardinality(used) = numbers.count
    BY <1>6 DEF Inv, Numbers
  <1>8. Rebuilt(s) = [free |-> f, next |-> n, count |-> Cardinality(used)]
    BY DEF Rebuilt
  <1>9. f \in Sorted(Unborn)
    <2> DEFINE P(g) == \A j, k \in DOMAIN g : j < k => g[j] < g[k]
               F == [1..Cardinality(Unborn) -> Unborn]
    <2>1. Unborn \in SUBSET (1..(n - 1)) /\ n - 1 \in Nat
      BY <1>1 DEF Unborn
    <2>2. Sorted(Unborn) # {}
      <3> DEFINE m == n - 1
      <3>1. Unborn \in SUBSET (1..m) /\ m \in Nat
        BY <2>1
      <3> HIDE DEF m
      <3> QED BY <3>1, SortedExists
    <2>3. Sorted(Unborn) = {g \in F : P(g)}
      BY DEF Sorted
    <2>4. f = CHOOSE g \in F : P(g)
      BY <1>5
    <2> HIDE DEF f, P, F
    <2>5. \E g \in F : P(g)
      BY <2>2, <2>3
    <2>6. f \in F /\ P(f)
      BY <2>4, <2>5
    <2> QED BY <2>3, <2>6
  <1> HIDE DEF f, unused, used
  <1>10. Enumerates(f, Unborn)
    <2> DEFINE m == n - 1
    <2>1. Unborn \in SUBSET (1..m) /\ m \in Nat
      BY <1>1 DEF Unborn
    <2> HIDE DEF m
    <2> QED BY <1>9, <2>1, SortedEnumerates
  <1> QED BY <1>7, <1>8, <1>10

LEMMA ReopenStep ==
  ASSUME Room, Inv, Reopen
  PROVE  Inv'
  <1>1. PICK o \in Persisted(dirty) :
          /\ st' = [o EXCEPT !.table = KeptExtents(@), !.inodes = [i \in {} |-> NewInode]]
          /\ numbers' = Rebuilt(st')
    BY DEF Reopen
  <1>2. dirty' = {} /\ data' = data /\ live' = live
    BY DEF Reopen
  <1>3. Sound(o, live, {}, data, Unborn) /\ o.table = st.table
    <2>1. Sound(o, live, dirty \ dirty, data, Unborn) /\ o.table = st.table
      BY <1>1, PersistedKeeps DEF Inv
    <2>2. dirty \ dirty = {}
      OBVIOUS
    <2> QED BY <2>1, <2>2
  <1>4. KeptExtents(o.table) = o.table
    BY <1>3, KeptAll DEF Sound
  <1>5. DOMAIN o = Fields
    BY <1>3, SoundFacts
  <1>6. /\ DOMAIN st' = Fields /\ st'.table = o.table /\ st'.alloc = o.alloc /\ st'.block = o.block
        /\ st'.inodes = [i \in {} |-> NewInode]
    BY <1>1, <1>4, <1>5 DEF Fields
  <1>7. DOMAIN st'.inodes = {}
    BY <1>6
  <1>8. /\ Sound(st', live, {}, data, Unborn)
        /\ \A i \in 1..(numbers.next - 1) : Stored(st', i) = {} <=> i \notin DOMAIN live
    <2>1. /\ Sound(st', live, {}, data, Unborn)
          /\ \A i \in DOMAIN live \cup Unborn : Stored(st', i) = {} <=> i \notin DOMAIN live
      BY <1>3, <1>6, <1>7, ForgetKeeps
    <2> QED BY <2>1 DEF Unborn
  <1>9. st'.table = st.table
    BY <1>3, <1>6
  <1>10. /\ Rebuilt(st') = [free |-> Rebuilt(st').free, next |-> numbers.next, count |-> numbers.count]
         /\ Enumerates(Rebuilt(st').free, Unborn)
    BY <1>8, <1>9, RebuiltIs
  <1>11. Numbers'
    <2> DEFINE f == Rebuilt(st').free
    <2>1. numbers' = [free |-> f, next |-> numbers.next, count |-> numbers.count] /\ Enumerates(f, Unborn)
      BY <1>1, <1>10
    <2> HIDE DEF f
    <2>2. numbers'.free = f /\ numbers'.next = numbers.next /\ numbers'.count = numbers.count
      BY <2>1
    <2>3. Unborn' = Unborn
      BY <1>2, <2>2 DEF Unborn
    <2>4. numbers' = [free |-> numbers'.free, next |-> numbers'.next, count |-> numbers'.count]
      BY <2>1
    <2>5. Enumerates(numbers'.free, Unborn')
      BY <2>1, <2>2, <2>3
    <2> QED BY <1>2, <1>9, <2>2, <2>4, <2>5 DEF Inv, Numbers
  <1>12. Unborn' = Unborn
    BY <1>1, <1>2, <1>10 DEF Unborn
  <1> QED BY <1>2, <1>8, <1>11, <1>12 DEF Inv

\* Inner::create
LEMMA InitInv ==
  ASSUME Init
  PROVE  Inv
  <1> DEFINE x == [log |-> 0, phys |-> 1, len |-> GrowBlocks]
             t == <<x>>
             m == [b \in Blocks |-> Junk]
             a == 1 + 1 \div PerBlock
  <1>0. PerBlock \in Nat /\ PerBlock > 0 /\ NBlocks \in Nat /\ NBlocks >= 2 /\ Blocks = 1..NBlocks
    BY Consts
  <1>1. x \in Ext /\ x.log = 0 /\ x.phys = 1 /\ x.len = 2
    BY <1>0 DEF Ext, GrowBlocks
  <1> HIDE DEF x
  <1>2. t \in Seq(Ext) /\ Len(t) = 1 /\ t[1] = x /\ DOMAIN t = 1..1 /\ t # <<>>
    BY <1>1
  <1>3. st = [[table |-> t, alloc |-> Blocks \ Run(1, GrowBlocks), block |-> m,
               inodes |-> [i \in {ROOT_INO} |-> NewInode]] EXCEPT !.block[a] = SetSlot(@, ROOT_INO, 0)]
    BY DEF Init, Mkfs, x, ROOT_INO
  <1> HIDE DEF t
  <1>4. Run(1, 2) = {1, 2} /\ {1, 2} \subseteq Blocks /\ 0 \notin Blocks
    BY <1>0 DEF Run
  <1>5. \A k \in 1..Len(t) : k = 1
    BY <1>2
  <1>6. IsTable(t)
    <2>1. \A k \in 1..(Len(t) - 1) : FALSE
      BY <1>2
    <2> QED BY <1>1, <1>2, <1>4, <1>5, <2>1 DEF IsTable, GrowBlocks
  <1>7. LogicalEnd(t) = 2 /\ BlocksOf(t) = {1, 2}
    <2>1. DOMAIN t = {1} /\ Run(t[1].phys, t[1].len) = {1, 2}
      BY <1>1, <1>2, <1>4
    <2> QED BY <1>1, <1>2, <2>1 DEF LogicalEnd, BlocksOf
  <1>8. Slotted(t) = 0..(PerBlock * 2 - 1) /\ 1 \in Slotted(t)
    BY <1>0, <1>7 DEF Slotted
  <1>9. BlockOf(t, 1) = a /\ a \in Blocks
    <2> DEFINE l == 1 \div PerBlock
    <2>1. PICK k \in 1..Len(t) : Covers(t, k, l) /\ BlockOf(t, 1) = PlaceIn(t, k, l)
      BY <1>6, <1>8, SlotAt
    <2>2. k = 1
      BY <1>5
    <2>3. l \in Int
      BY <1>0
    <2>4. BlockOf(t, 1) = 1 + (l - 0)
      BY <1>1, <1>2, <2>1, <2>2 DEF PlaceIn
    <2>5. BlockOf(t, 1) \in Blocks
      BY <1>6, <1>8, SlotAt
    <2> HIDE DEF l
    <2> QED BY <2>3, <2>4, <2>5 DEF l
  <1>10. Junk \in Block /\ Junk.slots = NoSlots
    BY NoSlotsFacts, NoXattrsType DEF Junk, Block
  <1>11. m \in [Blocks -> Block] /\ \A b \in Blocks : m[b] = Junk
    BY <1>10
  <1> HIDE DEF m, a
  <1>12. /\ DOMAIN st = Fields /\ st.table = t /\ st.alloc = Blocks \ {1, 2}
         /\ st.block = Written(t, m, 1, 0) /\ st.inodes = [i \in {1} |-> NewInode]
    <2> DEFINE w == [m EXCEPT ![a] = SetSlot(m[a], 1, 0)]
    <2>1. st = [table |-> t, alloc |-> Blocks \ Run(1, GrowBlocks), block |-> w,
                inodes |-> [i \in {ROOT_INO} |-> NewInode]]
      BY <1>3 DEF ROOT_INO
    <2>2. w = Written(t, m, 1, 0)
      BY <1>9 DEF Written
    <2> HIDE DEF w
    <2> QED BY <1>4, <2>1, <2>2 DEF Fields, GrowBlocks, ROOT_INO
  <1> DEFINE w == Written(t, m, 1, 0)
  <1>13. /\ w \in [Blocks -> Block] /\ Cell(t, w, 1) = 0
         /\ \A j \in Slotted(t) : j # 1 => Cell(t, w, j) = Cell(t, m, j)
         /\ \A b \in Blocks \ BlocksOf(t) : w[b] = m[b]
    <2>1. 0 \in SlotValues
      BY DEF SlotValues
    <2> DEFINE i == 1
               v == 0
               y == Written(t, m, i, v)
    <2>2. i \in Slotted(t) /\ v \in SlotValues
      BY <1>8, <2>1
    <2> HIDE DEF i, v
    <2>3. /\ y \in [Blocks -> Block] /\ Cell(t, y, i) = v
          /\ \A j \in Slotted(t) : j # i => Cell(t, y, j) = Cell(t, m, j)
          /\ \A b \in Blocks \ BlocksOf(t) : y[b] = m[b]
      BY <1>6, <1>11, <2>2, WrittenIs
    <2>4. y = w
      BY DEF i, v
    <2> HIDE DEF y, w
    <2> QED BY <2>3, <2>4 DEF i, v
  <1> HIDE DEF w
  <1>14. \A j \in Slotted(t) : Cell(t, m, j) = Unused
    <2> TAKE j \in Slotted(t)
    <2>1. BlockOf(t, j) \in Blocks /\ Slot(j) \in 0..(PerBlock - 1)
      BY <1>6, SlotAt
    <2> QED BY <1>10, <1>11, <2>1, NoSlotsFacts DEF Cell
  <1>15. SlotOf(st, 1) = 0 /\ \A j \in Slotted(t) : j # 1 => SlotOf(st, j) = Unused
    BY <1>12, <1>13, <1>14, CellIs DEF w
  <1>16. /\ dirty = {} /\ data = {} /\ live = [i \in {1} |-> NoXattrs]
         /\ numbers = [free |-> <<>>, next |-> 2, count |-> 1]
    BY DEF Init, ROOT_INO, FIRST_USER_INO
  <1>17. /\ NewInode.block = 0 /\ NewInode.xattr = NoXattrs
         /\ NewInode \in [xattr : XattrSets, block : {0} \cup Blocks]
    BY NoXattrsType DEF NewInode
  <1>18. /\ DOMAIN live = {1} /\ live[1] = NoXattrs /\ DOMAIN st.inodes = {1} /\ st.inodes[1] = NewInode
    BY <1>12, <1>16
  <1>19. Home(st, 1) = 0
    BY <1>17, <1>18 DEF Home
  <1>20. Types(st)
    <2>1. st.block \in [Blocks -> [slots : [0..(PerBlock - 1) -> SlotValues], xattrs : XattrSets]]
      BY <1>12, <1>13 DEF w, Block
    <2>2. 1 \in Inos
      BY Consts
    <2> QED BY <1>12, <1>17, <1>18, <2>1, <2>2 DEF Types, Fields
  <1>21. Needed(st.table)
    BY <1>0, <1>7, <1>12, Consts DEF Needed
  <1>22. Slots(st, live, dirty, Unborn)
    <2>1. Unborn = {}
      BY <1>16, <1>18 DEF Unborn
    <2>2. Unused # 0
      BY DEF Unused
    <2> QED BY <1>8, <1>12, <1>15, <1>16, <1>18, <1>19, <2>1, <2>2 DEF Slots
  <1>23. Attrs(st, live, dirty)
    BY <1>16, <1>17, <1>18, <1>19 DEF Attrs
  <1>24. Owned(st, live, data)
    BY <1>4, <1>7, <1>12, <1>16, <1>18, <1>19 DEF Owned
  <1>25. Sound(st, live, dirty, data, Unborn)
    BY <1>6, <1>12, <1>20, <1>21, <1>22, <1>23, <1>24 DEF Sound
  <1>26. Numbers
    <2>1. numbers.free = <<>> /\ numbers.next = 2 /\ numbers.count = 1
      BY <1>16
    <2>2. Unborn = {}
      BY <1>18, <2>1 DEF Unborn
    <2>3. Enumerates(<<>>, {})
      BY EmptySeq DEF Enumerates, Range, IsInjective
    <2>4. Cardinality(DOMAIN live) = 1
      BY <1>18, FS_Singleton
    <2>5. 2 \in 2..(MaxIno + 1) /\ 2 <= PerBlock * 2
      BY Consts
    <2>6. ROOT_INO \in DOMAIN live /\ DOMAIN live \subseteq 1..(2 - 1)
      BY <1>18 DEF ROOT_INO
    <2> QED BY <1>7, <1>12, <1>16, <2>1, <2>2, <2>3, <2>4, <2>5, <2>6 DEF Numbers
  <1> QED BY <1>25, <1>26 DEF Inv

LEMMA StepInv ==
  ASSUME Room, Inv, [Next]_vars
  PROVE  Inv'
  <1>1. CASE AllocReused
    BY <1>1, ReusedStep
  <1>2. CASE AllocNew
    BY <1>2, NewStep
  <1>3. ASSUME NEW i \in Inos, DropInode(i) PROVE Inv'
    BY <1>3, DropStep
  <1>4. ASSUME NEW i \in Inos, Load(i) PROVE Inv'
    BY <1>4, LoadStep
  <1>5. ASSUME NEW i \in Owners, NEW n \in Names, NEW v \in Values, NEW c \in BOOLEAN, NEW r \in BOOLEAN,
               SetXattr(i, n, v, c, r)
        PROVE  Inv'
    BY <1>5, SetXattrStep
  <1>6. ASSUME NEW i \in Owners, NEW n \in Names, RemoveXattr(i, n) PROVE Inv'
    BY <1>6, RemoveXattrStep
  <1>7. CASE Sync
    BY <1>7, SyncStep
  <1>8. CASE SyncFails
    BY <1>8, SyncFailsStep
  <1>9. CASE Reopen
    BY <1>9, ReopenStep
  <1>10. ASSUME NEW f \in Foreign, TakeBlock(f) PROVE Inv'
    BY <1>10, TakeStep
  <1>11. ASSUME NEW b \in Blocks, GiveBlock(b) PROVE Inv'
    BY <1>11, GiveStep
  <1>12. CASE UNCHANGED vars
    <2>1. st' = st /\ dirty' = dirty /\ numbers' = numbers /\ data' = data /\ live' = live
      BY <1>12 DEF vars
    <2>2. Numbers' /\ Unborn' = Unborn
      BY <2>1, NumbersSame DEF Inv
    <2> QED BY <2>1, <2>2 DEF Inv
  <1> QED BY <1>1, <1>2, <1>3, <1>4, <1>5, <1>6, <1>7, <1>8, <1>9, <1>10, <1>11, <1>12, Zenon DEF Next

-----------------------------------------------------------------------------
(* What the invariant says of the properties. *)

LEMMA InvWellFormed ==
  ASSUME Inv
  PROVE  WellFormed
  <1>1. /\ Types(st) /\ IsTable(st.table) /\ dirty \subseteq DOMAIN st.inodes /\ data \subseteq Blocks
    BY DEF Inv, Sound, Slots, Owned
  <1>2. /\ numbers.next \in Nat /\ IsFiniteSet(DOMAIN live) /\ DOMAIN live \subseteq 1..(numbers.next - 1)
        /\ DOMAIN live \subseteq Inos /\ 1..(numbers.next - 1) \subseteq Inos
    BY NumbersFacts
  <1>3. /\ Enumerates(numbers.free, Unborn) /\ numbers.count = Cardinality(DOMAIN live)
        /\ numbers.next \in 2..(MaxIno + 1)
        /\ numbers = [free |-> numbers.free, next |-> numbers.next, count |-> numbers.count]
    BY DEF Inv, Numbers
  <1>4. numbers.free \in Seq(Inos)
    <2> DEFINE f == numbers.free
               n == Len(f)
    <2>1. n \in Nat /\ DOMAIN f = 1..n /\ \A i \in 1..n : f[i] \in Unborn
      BY <1>3, EnumeratesAt
    <2>2. f \in Seq(Unborn) /\ Unborn \subseteq Inos
      BY <1>2, <1>3 DEF Enumerates, Unborn
    <2>3. f = [i \in 1..n |-> f[i]]
      BY <2>2
    <2>4. f \in [1..n -> Inos]
      BY <2>1, <2>2, <2>3
    <2> HIDE DEF f, n
    <2>5. f \in Seq(Inos)
      BY <2>1, <2>4, FunctionIsSeq
    <2> QED BY <2>5 DEF f
  <1>5. numbers \in [free : Seq(Inos), next : 2..(MaxIno + 1), count : Nat]
    <2>1. numbers.count \in Nat
      BY <1>2, <1>3, FS_CardinalityType
    <2> DEFINE f == numbers.free
               n == numbers.next
               c == numbers.count
    <2>2. numbers = [free |-> f, next |-> n, count |-> c]
      BY <1>3
    <2>3. f \in Seq(Inos) /\ n \in 2..(MaxIno + 1) /\ c \in Nat
      BY <1>3, <1>4, <2>1
    <2> HIDE DEF f, n, c
    <2> QED BY <2>2, <2>3
  <1>6. TypeOK
    <2>1. st.table \in Seq([log : Nat, phys : Blocks, len : Nat])
      BY <1>1 DEF IsTable, Ext
    <2> QED BY <1>1, <1>2, <1>5, <2>1 DEF TypeOK, Types, SlotValues
  <1>7. NumbersFree
    <2>1. IsInjective(numbers.free) /\ Range(numbers.free) = Unborn
      BY <1>3 DEF Enumerates
    <2>2. Unborn \cap DOMAIN live = {} /\ Unborn \cup DOMAIN live = 1..(numbers.next - 1)
      BY <1>2 DEF Unborn
    <2> QED BY <1>3, <2>1, <2>2 DEF NumbersFree
  <1> QED BY <1>6, <1>7 DEF WellFormed

LEMMA InvKept ==
  ASSUME Inv
  PROVE  InodesKept
  <1>1. ASSUME NEW i \in DOMAIN live PROVE \E n \in Get(st, i) : n.xattr = live[i]
    <2> DEFINE x == [xattr |-> live[i], block |-> Home(st, i)]
    <2>1. Get(st, i) = {x}
      BY GetIs DEF Inv
    <2>2. x.xattr = live[i]
      OBVIOUS
    <2> HIDE DEF x
    <2> QED BY <2>1, <2>2
  <1> QED BY <1>1 DEF InodesKept

LEMMA InvOwned ==
  ASSUME Inv
  PROVE  BlocksOwned
  <1> DEFINE xs == UNION {XattrBlock(i) : i \in DOMAIN live}
             t == BlocksOf(st.table)
  <1>1. ASSUME NEW i \in DOMAIN live PROVE XattrBlock(i) = {Home(st, i)} \ {0}
    <2> DEFINE x == [xattr |-> live[i], block |-> Home(st, i)]
    <2>1. Get(st, i) = {x}
      BY GetIs DEF Inv
    <2>2. x.block = Home(st, i)
      OBVIOUS
    <2> HIDE DEF x
    <2> QED BY <2>1, <2>2 DEF XattrBlock
  <1>2. TableBlocks = t
    BY DEF TableBlocks, BlocksOf
  <1>3. \A b : b \in xs <=> b # 0 /\ \E i \in DOMAIN live : Home(st, i) = b
    BY <1>1
  <1> HIDE DEF xs, t
  <1>4. /\ \A i \in DOMAIN live : Home(st, i) \in ({0} \cup Blocks) \ (t \cup data)
        /\ \A i, j \in DOMAIN live : i # j /\ Home(st, i) # 0 => Home(st, i) # Home(st, j)
        /\ data \subseteq Blocks \ t
        /\ \A b \in Blocks : b \in st.alloc <=> b \notin t \cup data /\ \A i \in DOMAIN live : Home(st, i) # b
        /\ st.alloc \subseteq Blocks /\ 0 \notin Blocks
    BY Consts DEF Inv, Sound, Owned, Types, t
  <1>5. \A i, j \in DOMAIN live : i # j => XattrBlock(i) \cap XattrBlock(j) = {}
    BY <1>1, <1>4
  <1>6. t \cap xs = {} /\ (t \cup xs) \cap data = {}
    BY <1>3, <1>4
  <1>7. st.alloc = Blocks \ (t \cup xs \cup data)
    BY <1>3, <1>4
  <1> QED BY <1>2, <1>5, <1>6, <1>7 DEF BlocksOwned, xs

-----------------------------------------------------------------------------
(* The theorems.  All of them ask for Room: without it Superblock::encode    *)
(* leaves out extents, and what they hold is lost at the next mount.         *)

LEMMA AlwaysInv ==
  ASSUME Room
  PROVE  Spec => []Inv
  <1>1. Init => Inv
    BY InitInv
  <1>2. Inv /\ [Next]_vars => Inv'
    BY StepInv
  <1> QED BY <1>1, <1>2, PTL DEF Spec

\* Types, and inode numbers: alloc_inode hands out each number below
\* next_inode to one inode at a time, and free_inodes is the rest of them, also
\* after rebuild_free_inodes made it from the slots.
THEOREM InodeTableWellFormed ==
  ASSUME Room
  PROVE  Spec => []WellFormed
  <1>1. Inv => WellFormed
    BY InvWellFormed
  <1> QED BY <1>1, AlwaysInv, PTL

\* get_inode finds every inode that was created and not dropped, with the
\* attributes last set, whatever the table's growth, the reuse of slots, the
\* order in which flush_all saves, its failure, and the reopenings in between.
THEOREM InodeTableInodesKept ==
  ASSUME Room
  PROVE  Spec => []InodesKept
  <1>1. Inv => InodesKept
    BY InvKept
  <1> QED BY <1>1, AlwaysInv, PTL

\* A block belongs to the table, to the attributes of one inode, to file
\* contents or to the allocator, never to two of them and never to none.
THEOREM InodeTableBlocksOwned ==
  ASSUME Room
  PROVE  Spec => []BlocksOwned
  <1>1. Inv => BlocksOwned
    BY InvOwned
  <1> QED BY <1>1, AlwaysInv, PTL
=============================================================================
