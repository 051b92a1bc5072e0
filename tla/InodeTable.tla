---------------------------- MODULE InodeTable ------------------------------
(***************************************************************************)
(* The inode table and the extended attributes of src/inner.rs, with what  *)
(* the superblock of src/format.rs keeps of the table: how inode numbers   *)
(* are handed out, where an inode is stored and found again, and who owns  *)
(* the blocks of the table and of the attributes.                          *)
(*                                                                         *)
(* Blocks read back what was last written (BlockStore).  An inode is       *)
(* reduced to its attributes and the block that holds them.                *)
(***************************************************************************)
EXTENDS Integers, Sequences, FiniteSets, Functions

CONSTANTS
  Names,     \* names of attributes
  Values,    \* their values
  PerBlock,  \* INODES_PER_BLOCK, 16 in the code
  MaxExts,   \* extents of the table that the superblock keeps, 16 in the code
  MaxXattrs, \* attributes that fit in one block
  MaxIno,    \* bound: inode numbers 1..MaxIno
  Owners,    \* bound: the inodes whose attributes the callers change
  Foreign,   \* bound: what the slots of a block of file contents would hold
  MaxData,   \* bound: blocks that files hold at a time
  NBlocks    \* bound: blocks 1..NBlocks

ASSUME InodeTableAssumption ==
  /\ PerBlock \in Nat \ {0} /\ MaxExts \in Nat \ {0} /\ MaxXattrs \in Nat
  /\ MaxIno \in Nat \ {0} /\ Owners \subseteq 1..MaxIno /\ NBlocks \in Nat /\ NBlocks >= 2
  /\ MaxData \in Nat

VARIABLES
  st,      \* table, alloc, block and inodes: see Mkfs
  dirty,   \* Inner::dirty_inodes
  numbers, \* Inner::free_inodes, Superblock::next_inode and inode_count
  data,    \* blocks that hold file contents
  live     \* the attributes of the inodes that exist, as the callers set them

vars == <<st, dirty, numbers, data, live>>

ROOT_INO == 1
FIRST_USER_INO == 2
GrowBlocks == 2

Inos == 1..MaxIno
Blocks == 1..NBlocks
Run(lo, n) == lo..(lo + n - 1)

NoXattrs == [n \in {} |-> 0]
XattrSets == UNION {[D -> Values] : D \in SUBSET Names}

Put(f, x, v) == [y \in DOMAIN f \cup {x} |-> IF y = x THEN v ELSE f[y]]

\* A slot of the table holds the inode's xattr_block, 0 for none; zeroes and
\* whatever fails the checksum are Unused.
Unused == -1
NoSlots == [k \in 0..(PerBlock - 1) |-> Unused]
Junk == [slots |-> NoSlots, xattrs |-> NoXattrs]

\* Nothing keeps the bytes of a file from having the form of inodes.
ASSUME ForeignAssumption == Foreign \subseteq [0..(PerBlock - 1) -> {Unused, 0} \cup Blocks]

NewInode == [xattr |-> NoXattrs, block |-> 0]

\* table   Superblock::inode_table_extents
\* alloc   the free blocks
\* block   the contents of the blocks
\* inodes  Inner::inodes, the inodes in memory
Mkfs ==
  [table  |-> <<[log |-> 0, phys |-> 1, len |-> GrowBlocks]>>,
   alloc  |-> Blocks \ Run(1, GrowBlocks),
   block  |-> [b \in Blocks |-> Junk],
   inodes |-> [i \in {ROOT_INO} |-> NewInode]]

-----------------------------------------------------------------------------
(* The table. *)

\* Inner::inode_table_capacity
Capacity(t) ==
  LET upTo[k \in 0..Len(t)] == IF k = 0 THEN 0 ELSE upTo[k - 1] + t[k].len
  IN PerBlock * upTo[Len(t)]

\* map_extents: the block of table block l, none if no extent covers it.
Mapped(t, l) == {t[k].phys + (l - t[k].log) :
                   k \in {j \in DOMAIN t : t[j].log <= l /\ l < t[j].log + t[j].len}}

SlotBlock(t, i) == Mapped(t, i \div PerBlock)

Slot(i) == i % PerBlock

SetSlot(b, i, v) == [b EXCEPT !.slots[Slot(i)] = v, !.xattrs = NoXattrs]

\* Allocator::allocate: the shortest run of free blocks that is long enough,
\* the lowest of them.
FreeRuns(free, n) ==
  {r \in free \X (n..NBlocks) :
     Run(r[1], r[2]) \subseteq free /\ r[1] - 1 \notin free /\ r[1] + r[2] \notin free}

Starts(free, n) ==
  LET runs == FreeRuns(free, n) IN
  {r[1] : r \in {q \in runs :
                   \A p \in runs : q[2] < p[2] \/ (q[2] = p[2] /\ q[1] <= p[1])}}

LogicalEnd(t) == t[Len(t)].log + t[Len(t)].len

PhysicalEnd(t) == t[Len(t)].phys + t[Len(t)].len

\* Mutant of WithBlocks: any new blocks are counted to the last extent.
WithBlocksMerged(t, lo) == [t EXCEPT ![Len(t)].len = @ + GrowBlocks]

WithBlocks(t, lo) ==
  IF PhysicalEnd(t) = lo
  THEN [t EXCEPT ![Len(t)].len = @ + GrowBlocks]
  ELSE Append(t, [log |-> LogicalEnd(t), phys |-> lo, len |-> GrowBlocks])

\* Inner::grow_inode_table; the new blocks keep what an earlier owner left.
Grow(s) ==
  {[s EXCEPT !.table = WithBlocks(@, lo), !.alloc = @ \ Run(lo, GrowBlocks)] :
     lo \in Starts(s.alloc, GrowBlocks)}

\* The loop of write_inode_to_table: grow until inode i has a slot.
Covering(s, i) ==
  LET after[k \in 0..MaxIno] ==
        IF k = 0 THEN {s}
        ELSE UNION {IF i < Capacity(o.table) THEN {o} ELSE Grow(o) : o \in after[k - 1]}
  IN after[MaxIno]

\* Inner::read_inode_raw: the inodes at number i, at most one.
Stored(s, i) ==
  IF i >= Capacity(s.table) THEN {}
  ELSE LET at == {b \in SlotBlock(s.table, i) : s.block[b].slots[Slot(i)] # Unused}
           xb == {s.block[b].slots[Slot(i)] : b \in at}
       IN {[xattr |-> IF b = 0 THEN NoXattrs ELSE s.block[b].xattrs, block |-> b] : b \in xb}

\* Inner::get_inode
Get(s, i) == IF i \in DOMAIN s.inodes THEN {s.inodes[i]} ELSE Stored(s, i)

-----------------------------------------------------------------------------
(* Saving an inode: persist_inode. *)

\* The encoding is at most a block long.
Fits(xs) == Cardinality(DOMAIN xs) <= MaxXattrs

SetInode(s, i, v) == [s EXCEPT !.inodes = Put(@, i, v)]

\* Mutant of StoreXattrs: the block of a list that became empty is not given
\* back.
StoreXattrsLeaks(s, i) ==
  LET n == s.inodes[i] IN
  IF n.xattr = NoXattrs THEN {SetInode(s, i, NewInode)}
  ELSE {[SetInode(s, i, [n EXCEPT !.block = b])
           EXCEPT !.block[b] = [slots |-> NoSlots, xattrs |-> n.xattr], !.alloc = @ \ {b}] :
          b \in IF n.block # 0 THEN {n.block} ELSE Starts(s.alloc, 1)}

\* Inner::store_xattrs of attributes that fit: an empty list gives its block
\* back, another is written to the inode's block or to a new one.
StoreXattrs(s, i) ==
  LET n == s.inodes[i] IN
  IF n.xattr = NoXattrs
  THEN {[SetInode(s, i, NewInode) EXCEPT !.alloc = @ \cup ({n.block} \ {0})]}
  ELSE {[SetInode(s, i, [n EXCEPT !.block = b])
           EXCEPT !.block[b] = [slots |-> NoSlots, xattrs |-> n.xattr], !.alloc = @ \ {b}] :
          b \in IF n.block # 0 THEN {n.block} ELSE Starts(s.alloc, 1)}

\* Inner::write_inode_to_table
WriteInode(s, i) ==
  UNION {{[o EXCEPT !.block[b] = SetSlot(@, i, o.inodes[i].block)] : b \in SlotBlock(o.table, i)} :
           o \in Covering(s, i)}

Persist(s, i) == UNION {WriteInode(o, i) : o \in StoreXattrs(s, i)}

\* The loop of flush_all over the inodes D, in whichever order.
Persisted(D) ==
  LET done[E \in SUBSET D] ==
        IF E = {} THEN {st}
        ELSE UNION {UNION {Persist(o, i) : o \in done[E \ {i}]} : i \in E}
  IN done[D]

Oversize == {i \in dirty : ~ Fits(st.inodes[i].xattr)}

-----------------------------------------------------------------------------
(* The operations. *)

\* Inner::create, with its flush_all.
Init ==
  /\ st = [Mkfs EXCEPT !.block[1 + ROOT_INO \div PerBlock] = SetSlot(@, ROOT_INO, 0)]
  /\ dirty = {}
  /\ numbers = [free |-> <<>>, next |-> FIRST_USER_INO, count |-> 1]
  /\ data = {}
  /\ live = [i \in {ROOT_INO} |-> NoXattrs]

Enough(t) == numbers.next < Capacity(t)

Born(i, s) ==
  /\ st' = SetInode(s, i, NewInode)
  /\ dirty' = dirty \cup {i}
  /\ live' = Put(live, i, NoXattrs)
  /\ UNCHANGED data

\* Inner::alloc_inode
AllocReused ==
  LET f == numbers.free IN
  /\ f # <<>>
  /\ numbers' = [numbers EXCEPT !.free = SubSeq(f, 1, Len(f) - 1), !.count = @ + 1]
  /\ Born(f[Len(f)], st)

AllocNew ==
  /\ numbers.free = <<>>
  /\ numbers.next \in Inos
  /\ numbers' = [numbers EXCEPT !.next = @ + 1, !.count = @ + 1]
  /\ \E s \in IF Enough(st.table) THEN {st} ELSE Grow(st) : Born(numbers.next, s)

\* Mutant of Cleared: the slot keeps the inode.
ClearedNot(s, i) == s.block

\* The slot of a dropped inode is zeroed.
Cleared(s, i) ==
  [b \in Blocks |-> IF i < Capacity(s.table) /\ b \in SlotBlock(s.table, i)
                    THEN SetSlot(s.block[b], i, Unused) ELSE s.block[b]]

\* Inner::drop_inode
DropInode(i) ==
  /\ i # ROOT_INO
  /\ i \in DOMAIN live
  /\ \E n \in Get(st, i) :
       st' = [st EXCEPT !.alloc = @ \cup ({n.block} \ {0}),
                        !.inodes = Restrict(@, DOMAIN @ \ {i}),
                        !.block = Cleared(st, i)]
  /\ dirty' = dirty \ {i}
  /\ numbers' = [numbers EXCEPT !.free = Append(@, i), !.count = IF @ = 0 THEN 0 ELSE @ - 1]
  /\ live' = Restrict(live, DOMAIN live \ {i})
  /\ UNCHANGED data

\* Inner::get_inode of an inode that is not in memory.
Load(i) ==
  /\ i \in DOMAIN live \ DOMAIN st.inodes
  /\ \E n \in Get(st, i) : st' = SetInode(st, i, n)
  /\ UNCHANGED <<dirty, numbers, data, live>>

\* What setxattr does to inode i, which get_inode_mut loads and marks.
Changed(i, n, xs) ==
  /\ st' = SetInode(st, i, [n EXCEPT !.xattr = xs])
  /\ dirty' = dirty \cup {i}
  /\ UNCHANGED <<numbers, data>>

\* Inner::setxattr; create and replace are the flags of the call.
SetXattr(i, name, v, create, replace) ==
  /\ i \in DOMAIN live
  /\ \E n \in Get(st, i) :
       /\ create => name \notin DOMAIN n.xattr
       /\ replace => name \in DOMAIN n.xattr
       /\ Changed(i, n, Put(n.xattr, name, v))
  /\ live' = [live EXCEPT ![i] = Put(@, name, v)]

\* Inner::removexattr marks the inode also when it answers ENODATA.
RemoveXattr(i, name) ==
  /\ i \in DOMAIN live
  /\ \E n \in Get(st, i) : Changed(i, n, Restrict(n.xattr, DOMAIN n.xattr \ {name}))
  /\ live' = [live EXCEPT ![i] = Restrict(@, DOMAIN @ \ {name})]

\* Inner::flush_all
Sync ==
  /\ dirty # {}
  /\ Oversize = {}
  /\ st' \in Persisted(dirty)
  /\ dirty' = {}
  /\ UNCHANGED <<numbers, data, live>>

\* flush_all ends with ERANGE at an inode whose attributes do not fit, having
\* saved some of the others; all of them stay dirty.
SyncFails ==
  /\ Oversize # {}
  /\ \E D \in SUBSET (dirty \ Oversize) : st' \in Persisted(D)
  /\ UNCHANGED <<dirty, numbers, data, live>>

\* Inner::rebuild_free_inodes
Limit(s) == IF numbers.next < Capacity(s.table) THEN numbers.next ELSE Capacity(s.table)

Rebuilt(s) ==
  LET unused == {i \in FIRST_USER_INO..(Limit(s) - 1) : Stored(s, i) = {}} IN
  [free  |-> CHOOSE f \in [1..Cardinality(unused) -> unused] :
               \A j, k \in DOMAIN f : j < k => f[j] < f[k],
   next  |-> numbers.next,
   count |-> Cardinality({i \in 1..(Limit(s) - 1) : Stored(s, i) # {}})]

\* Superblock::encode and decode
KeptExtents(t) == SubSeq(t, 1, IF Len(t) < MaxExts THEN Len(t) ELSE MaxExts)

\* The last handle is dropped, whose flush_all succeeds, and the image opened
\* again.
Reopen ==
  /\ Oversize = {}
  /\ \E o \in Persisted(dirty) :
       LET s == [o EXCEPT !.table = KeptExtents(@), !.inodes = [i \in {} |-> NewInode]] IN
       /\ st' = s
       /\ numbers' = Rebuilt(s)
  /\ dirty' = {}
  /\ UNCHANGED <<data, live>>

\* File contents take a block and overwrite it, or give one back.
TakeBlock(f) ==
  /\ Cardinality(data) < MaxData
  /\ \E b \in Starts(st.alloc, 1) :
       /\ st' = [st EXCEPT !.alloc = @ \ {b}, !.block[b] = [slots |-> f, xattrs |-> NoXattrs]]
       /\ data' = data \cup {b}
  /\ UNCHANGED <<dirty, numbers, live>>

GiveBlock(b) ==
  /\ b \in data
  /\ st' = [st EXCEPT !.alloc = @ \cup {b}]
  /\ data' = data \ {b}
  /\ UNCHANGED <<dirty, numbers, live>>

Next ==
  \/ AllocReused
  \/ AllocNew
  \/ \E i \in Inos : DropInode(i)
  \/ \E i \in Inos : Load(i)
  \/ \E i \in Owners, n \in Names, v \in Values, create, replace \in BOOLEAN :
       SetXattr(i, n, v, create, replace)
  \/ \E i \in Owners, n \in Names : RemoveXattr(i, n)
  \/ Sync
  \/ SyncFails
  \/ Reopen
  \/ \E f \in Foreign : TakeBlock(f)
  \/ \E b \in Blocks : GiveBlock(b)

Spec == Init /\ [][Next]_vars

-----------------------------------------------------------------------------
(* Properties. *)

TypeOK ==
  /\ st.table \in Seq([log : Nat, phys : Blocks, len : Nat])
  /\ st.alloc \subseteq Blocks
  /\ st.block \in [Blocks -> [slots : [0..(PerBlock - 1) -> {Unused, 0} \cup Blocks],
                              xattrs : XattrSets]]
  /\ DOMAIN st.inodes \subseteq Inos
  /\ \A i \in DOMAIN st.inodes : st.inodes[i] \in [xattr : XattrSets, block : {0} \cup Blocks]
  /\ dirty \subseteq DOMAIN st.inodes
  /\ numbers \in [free : Seq(Inos), next : 2..(MaxIno + 1), count : Nat]
  /\ data \subseteq Blocks
  /\ DOMAIN live \subseteq Inos

\* README "Persist on `sync()` or when the last `LinuxFile` handle is dropped":
\* every inode that was created and not dropped is found, in memory or in the
\* table, and has the attributes that were last set, over any number of
\* reopenings, reuses of its slot and growths of the table.
InodesKept == \A i \in DOMAIN live : \E n \in Get(st, i) : n.xattr = live[i]

\* A number is handed out once: free_inodes, which a mount rebuilds from the
\* slots of the table, lists the numbers below next_inode that no inode has.
NumbersFree ==
  /\ IsInjective(numbers.free)
  /\ Range(numbers.free) \cap DOMAIN live = {}
  /\ Range(numbers.free) \cup DOMAIN live = 1..(numbers.next - 1)
  /\ numbers.count = Cardinality(DOMAIN live)

\* Types, and numbers that are used once, over every reopening.
WellFormed == TypeOK /\ NumbersFree

TableBlocks == UNION {Run(st.table[k].phys, st.table[k].len) : k \in DOMAIN st.table}

XattrBlock(i) == {n.block : n \in Get(st, i)} \ {0}

\* Every block has one owner: the table, the attributes of one inode, file
\* contents or the allocator; none is given back twice or forgotten, also when
\* flush_all fails half way and runs again.
BlocksOwned ==
  LET xs == UNION {XattrBlock(i) : i \in DOMAIN live} IN
  /\ \A i, j \in DOMAIN live : i # j => XattrBlock(i) \cap XattrBlock(j) = {}
  /\ TableBlocks \cap xs = {} /\ (TableBlocks \cup xs) \cap data = {}
  /\ st.alloc = Blocks \ (TableBlocks \cup xs \cup data)
=============================================================================
