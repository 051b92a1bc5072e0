----------------------------- MODULE Allocator ------------------------------
(***************************************************************************)
(* The extent allocator (src/alloc.rs) over the growing and shrinking host *)
(* image (src/store.rs), with the checkpoint that saves it and the mount   *)
(* that loads it back.  The unit of every length is one 4 KiB block.       *)
(*                                                                         *)
(* `used' records which blocks callers hold (inode table, file extents,    *)
(* extent trees, xattr blocks, the snapshot itself); the code keeps that   *)
(* knowledge spread over the inodes.  `dirty' and `stored' say where the   *)
(* contents of a block are: in the block cache, in the image.              *)
(***************************************************************************)
EXTENDS HostImage, FiniteSets

CONSTANTS
  FirstData,      \* first block after superblock, journal and backup
  InitialBlocks,  \* CreateOptions::initial_blocks
  ShrinkSlack,    \* SHRINK_SLACK_BLOCKS (64 in the code)
  SnapUnits,      \* payload of a snapshot block, in 8 byte units (510)
  SnapSlack,      \* units write_alloc_blocks asks for beyond the encoding (8)
  MaxWant,        \* bound: largest request of a caller
  MaxBlocks       \* bound: the image never grows past this many blocks

ASSUME AllocatorAssumption ==
  /\ FirstData \in Nat \ {0}
  /\ InitialBlocks \in Nat /\ InitialBlocks >= FirstData + 2
  /\ ShrinkSlack \in Nat
  /\ SnapUnits \in Nat \ {0}
  /\ SnapSlack \in Nat /\ SnapSlack >= 2
  /\ MaxWant \in Nat
  /\ MaxBlocks \in Nat /\ InitialBlocks <= MaxBlocks

VARIABLES
  free,    \* Allocator::free, start block -> length
  total,   \* Allocator::total_blocks
  len,     \* Image::len
  used,    \* blocks that callers hold
  dirty,   \* blocks with a dirty entry in the block cache
  stored,  \* held blocks whose contents are in the image
  snap     \* the snapshot on disk; at = 0 is Superblock::alloc_block = 0

vars == <<free, total, len, used, dirty, stored, snap>>

Run(lo, n) == lo..(lo + n - 1)

-----------------------------------------------------------------------------
(* The free map and the operations on it. *)

Insert(f, s, n) == [x \in DOMAIN f \cup {s} |-> IF x = s THEN n ELSE f[x]]

Without(f, s) == [x \in DOMAIN f \ {s} |-> f[x]]

\* The extents that can satisfy a request, and the one the scan keeps: the
\* shortest, and of these the first in address order.
Fits(f, want) == {s \in DOMAIN f : f[s] >= want}

BestFits(f, want) ==
  {s \in Fits(f, want) :
     \A t \in Fits(f, want) : f[s] < f[t] \/ (f[s] = f[t] /\ s <= t)}

\* Mutants of Carve: an empty rest is kept; a rest keeps the taken blocks.
CarveKeepsEmpty(f, s, want) == Insert(Without(f, s), s + want, f[s] - want)

CarveForgets(f, s, want) == IF f[s] > want THEN f ELSE Without(f, s)

Carve(f, s, want) ==
  IF f[s] > want THEN Insert(Without(f, s), s + want, f[s] - want)
                 ELSE Without(f, s)

\* What the rounding of the growth step leaves beyond the new run is free.
Grown(f, end, ln) == IF ln > end THEN Insert(f, end, ln - end) ELSE f

\* Mutant of GrownTotal: the rounding is not counted.
GrownTotalShort(end, ln) == end

GrownTotal(end, ln) == IF ln > end THEN ln ELSE end

\* Allocator::allocate: the start it returns and the state it leaves.
AllocateOutcomes(f, t, ln, want) ==
  IF Fits(f, want) # {}
  THEN {[start |-> s, free |-> Carve(f, s, want), total |-> t, len |-> ln] :
          s \in BestFits(f, want)}
  ELSE LET ln2 == GrowTo(ln, t + want)
       IN {[start |-> t, free |-> Grown(f, t + want, ln2),
            total |-> GrownTotal(t + want, ln2), len |-> ln2]}

\* Allocator::free: join with the extent that ends at start, then with the
\* one that begins where the result ends.
PrevAdjacent(f, start) ==
  {p \in DOMAIN f : /\ p < start
                    /\ \A q \in DOMAIN f : q < start => q <= p
                    /\ p + f[p] = start}

JoinPrev(f, start, n) ==
  IF PrevAdjacent(f, start) = {}
  THEN [free |-> f, start |-> start, n |-> n]
  ELSE LET p == CHOOSE p \in PrevAdjacent(f, start) : TRUE
       IN [free |-> Without(f, p), start |-> p, n |-> n + f[p]]

\* Mutant of JoinNext: the extent that follows is not joined.
JoinNextMissing(f, start, n) == Insert(f, start, n)

JoinNext(f, start, n) ==
  IF start + n \in DOMAIN f
  THEN Insert(Without(f, start + n), start, n + f[start + n])
  ELSE Insert(f, start, n)

FreeExtent(f, start, n) ==
  IF n = 0 THEN f
  ELSE LET j == JoinPrev(f, start, n) IN JoinNext(j.free, j.start, j.n)

\* Allocator::maybe_shrink on the last extent of the map.
LastExtent(f) == {s \in DOMAIN f : \A t \in DOMAIN f : t <= s}

\* Mutant of MayShrink: the last extent need not reach the end.
MayShrinkAnywhere(f, t, s) ==
  s \in LastExtent(f) /\ f[s] > ShrinkSlack /\ s + ShrinkSlack < t

MayShrink(f, t, s) ==
  /\ s \in LastExtent(f)
  /\ s + f[s] = t
  /\ f[s] > ShrinkSlack
  /\ s + ShrinkSlack < t

Shrunk(f, s) ==
  IF ShrinkSlack > 0 THEN Insert(Without(f, s), s, ShrinkSlack)
                     ELSE Without(f, s)

ShrinkOutcomes(f, t, ln) ==
  IF \E s \in DOMAIN f : MayShrink(f, t, s)
  THEN {[free |-> Shrunk(f, s), total |-> s + ShrinkSlack,
         len |-> ShrinkTo(ln, s + ShrinkSlack)] :
          s \in {x \in DOMAIN f : MayShrink(f, t, x)}}
  ELSE {[free |-> f, total |-> t, len |-> ln]}

\* Allocator::encode is a 24 byte header and 16 bytes per extent.
EncodedLen(f) == 3 + 2 * Cardinality(DOMAIN f)

\* Mutant of SnapBlocks: the quotient is rounded down.
SnapBlocksDown(f) == (EncodedLen(f) + SnapSlack) \div SnapUnits

SnapBlocks(f) == (EncodedLen(f) + SnapSlack + SnapUnits - 1) \div SnapUnits

-----------------------------------------------------------------------------
\* The first extent of the inode table, which is never given back.
Table == Run(FirstData, 2)

NoSnap == [at |-> 0, n |-> 0, free |-> [x \in {} |-> 0], total |-> 0, used |-> {}]

\* Inner::create up to its flush_all: the inode table holds two blocks and the
\* root inode dirtied the first of them.
Init ==
  /\ free = IF InitialBlocks > FirstData + 2
            THEN [s \in {FirstData + 2} |-> InitialBlocks - (FirstData + 2)]
            ELSE [x \in {} |-> 0]
  /\ total = InitialBlocks
  /\ len = InitialBlocks
  /\ used = Table
  /\ dirty = {FirstData}
  /\ stored = {}
  /\ snap = NoSnap

Mounted == snap.n > 0

\* A caller allocates and, unless the blocks extend the inode table, writes
\* them through the cache at once.
Allocate(want, writes) ==
  /\ Mounted
  /\ want > 0
  /\ \E o \in AllocateOutcomes(free, total, len, want) :
       /\ o.len <= MaxBlocks /\ o.total <= MaxBlocks
       /\ free' = o.free
       /\ total' = o.total
       /\ len' = o.len
       /\ used' = used \cup Run(o.start, want)
       /\ dirty' = IF writes THEN dirty \cup Run(o.start, want) ELSE dirty
  /\ UNCHANGED <<stored, snap>>

\* A caller gives back part of what it holds.  Cache entries of freed blocks
\* stay in the cache.
Free(start, n) ==
  /\ Mounted
  /\ n > 0
  /\ Run(start, n) \subseteq used \ (Table \cup Run(snap.at, snap.n))
  /\ free' = FreeExtent(free, start, n)
  /\ used' = used \ Run(start, n)
  /\ stored' = stored \ Run(start, n)
  /\ UNCHANGED <<total, len, dirty, snap>>

\* A caller rewrites a block it holds.  A cache miss past the end of the image
\* grows the image; replacing the whole block, or a hit, does not.
Rewrite(b, miss) ==
  /\ Mounted
  /\ b \in used \ Run(snap.at, snap.n)
  /\ miss => b \notin dirty
  /\ len' = IF miss THEN GrowTo(len, b + 1) ELSE len
  /\ len' <= MaxBlocks
  /\ dirty' = dirty \cup {b}
  /\ UNCHANGED <<free, total, used, stored, snap>>

\* The cache evicts a dirty block: Image::write_block.
Evict(b) ==
  /\ Mounted
  /\ b \in dirty
  /\ len' = GrowTo(len, b + 1)
  /\ len' <= MaxBlocks
  /\ dirty' = dirty \ {b}
  /\ stored' = stored \cup ({b} \cap used)
  /\ UNCHANGED <<free, total, used, snap>>

\* Inner::flush_all as far as blocks go: write every dirty block, free the old
\* snapshot, allocate and write the new one, save the superblock, shrink.
FlushedLens ==
  IF dirty = {} THEN {len}
  ELSE {GrowTo(len, b + 1) : b \in {c \in dirty : \A d \in dirty : d <= c}}

OldSnapReadable(ln) == Mounted /\ snap.at + 1 <= ln

WithoutOldSnap(ln) ==
  IF OldSnapReadable(ln) THEN FreeExtent(free, snap.at, snap.n) ELSE free

UsedWithoutOldSnap(ln) ==
  IF OldSnapReadable(ln) THEN used \ Run(snap.at, snap.n) ELSE used

WriteSnap(ln, n, o) ==
  LET written == GrowTo(o.len, o.start + n)
      held    == UsedWithoutOldSnap(ln) \cup Run(o.start, n) IN
  /\ written <= MaxBlocks /\ o.total <= MaxBlocks
  /\ used' = held
  /\ dirty' = {}
  /\ stored' = (stored \cup (dirty \cap used) \cup Run(o.start, n)) \cap held
  /\ snap' = [at |-> o.start, n |-> n, free |-> o.free, total |-> o.total,
              used |-> held]
  /\ \E k \in ShrinkOutcomes(o.free, o.total, written) :
       /\ free' = k.free
       /\ total' = k.total
       /\ len' = k.len

FlushAll ==
  \E ln \in FlushedLens :
    LET f == WithoutOldSnap(ln)
        n == SnapBlocks(f) IN
    \E o \in AllocateOutcomes(f, total, ln, n) : WriteSnap(ln, n, o)

\* Inner::open after a clean unmount: the allocator is what read_alloc_blocks
\* decodes, which flush_all wrote before it shrank the image.
Remount ==
  /\ Mounted
  /\ dirty = {} /\ used = snap.used
  /\ free' = snap.free
  /\ total' = snap.total
  /\ UNCHANGED <<len, used, dirty, stored, snap>>

Next ==
  \/ \E want \in 1..MaxWant : \E writes \in BOOLEAN : Allocate(want, writes)
  \/ \E start \in used : \E n \in 1..MaxWant : Free(start, n)
  \/ \E b \in used : \E miss \in BOOLEAN : Rewrite(b, miss)
  \/ \E b \in dirty : Evict(b)
  \/ FlushAll
  \/ Remount

Spec == Init /\ [][Next]_vars

-----------------------------------------------------------------------------
(* Properties. *)

IsFreeMap(f) ==
  /\ f \in [DOMAIN f -> Nat \ {0}]
  /\ DOMAIN f \subseteq Nat

TypeOK ==
  /\ IsFreeMap(free)
  /\ total \in Nat /\ len \in Nat
  /\ used \subseteq Nat
  /\ dirty \subseteq Nat
  /\ stored \subseteq used
  /\ snap.at \in Nat /\ snap.n \in Nat /\ snap.total \in Nat
  /\ IsFreeMap(snap.free)
  /\ snap.used \subseteq Nat

\* The free map is what the doc comment of alloc.rs calls it, extents "with
\* coalescing": between two free extents lies at least one block in use.
Separated(f) == \A s, t \in DOMAIN f : s < t => s + f[s] < t

Coalesced == Separated(free)

\* No block is handed out twice and none is lost: from FirstData on, up to
\* total_blocks, every block is either free or held, never both, and nothing
\* else is.  A remount restores exactly this.
InExtent(f, b) == \E s \in DOMAIN f : b \in Run(s, f[s])

PartitionOf(f, t, held) ==
  /\ \A b \in held : FirstData <= b /\ b < t
  /\ \A s \in DOMAIN f : FirstData <= s /\ s + f[s] <= t
  /\ \A b \in FirstData..(t - 1) : b \in held <=> ~ InExtent(f, b)

Partition == PartitionOf(free, total, used)

\* Shrinking the image never cuts off the contents of a block somebody holds.
StoredInImage == \A b \in stored : b < len

\* The snapshot that a mount needs is inside the image after the shrink that
\* follows its own write: read_alloc_blocks cannot run past the end.
SnapshotReadable == Mounted => snap.at + snap.n <= len

\* The state encoded after the snapshot's own allocation fits the blocks that
\* were sized before it (write_alloc_blocks drops what does not fit).
SnapshotFits == Mounted => EncodedLen(snap.free) <= snap.n * SnapUnits

\* A mount can read the whole allocator from the snapshot.
SnapshotUsable == SnapshotReadable /\ SnapshotFits

\* The blocks of the free map, as a set.
Available == UNION {Run(s, free[s]) : s \in DOMAIN free}

\* The allocator implements its promise to callers: what allocate, free, a
\* checkpoint and a mount do to the free map is, block for block, handing out,
\* taking back and resizing a space in which nothing is held twice or lost.
Space == INSTANCE BlockSpace WITH First <- FirstData,
                                  Blocks <- 0..MaxBlocks,
                                  InitUsed <- Table,
                                  InitTop <- InitialBlocks,
                                  avail <- Available,
                                  top <- total

ImplementsBlockSpace == Space!Spec
=============================================================================
