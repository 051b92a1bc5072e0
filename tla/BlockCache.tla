----------------------------- MODULE BlockCache -----------------------------
(***************************************************************************)
(* The write-back block cache (src/cache.rs) over the host image           *)
(* (src/store.rs).  Every operation runs under the engine's lock; what     *)
(* interleaves is the order of calls, evictions at capacity, checkpoints   *)
(* that write past the cache, and host I/O errors in the middle of a call. *)
(***************************************************************************)
EXTENDS HostImage, FiniteSets, Sequences, Functions

CONSTANTS
  Values,     \* what callers write into a block
  Zero,       \* the contents of a block of a freshly extended file
  Undef,      \* contents nobody relies on
  NoBlock,    \* Superblock::alloc_block = 0
  Capacity,   \* BlockCache::capacity
  MaxBlocks   \* bound: blocks that exist; block 0 is never cached

Blocks == 1..(MaxBlocks - 1)

ASSUME BlockCacheAssumption ==
  /\ Capacity \in Nat \ {0}
  /\ MaxBlocks \in Nat
  /\ Undef \notin Values \cup {Zero}
  /\ NoBlock \notin Blocks

Data == Values \cup {Zero}

VARIABLES
  map,    \* BlockCache::map, block -> [data, dirty]
  lru,    \* BlockCache::lru, least recently used first
  img,    \* the contents of the host file; Zero past its end
  len,    \* Image::len
  at,     \* where the allocator snapshot is (Superblock::alloc_block)
  saved,  \* what the last checkpoint wrote there
  junk    \* blocks nobody wrote since they were last discarded or lost

vars == <<map, lru, img, len, at, saved, junk>>

\* A state of the cache and the image, as the operators below pass it on.
Pack(m, l, i, n) == [map |-> m, lru |-> l, img |-> i, len |-> n]

Here == Pack(map, lru, img, len)

Become(c) ==
  /\ map' = c.map
  /\ lru' = c.lru
  /\ img' = c.img
  /\ len' = c.len

Put(m, b, e) == [x \in DOMAIN m \cup {b} |-> IF x = b THEN e ELSE m[x]]

Drop(m, S) == [x \in DOMAIN m \ S |-> m[x]]

\* Image::write_block, growing the file first where it must.
WriteBlock(c, b, v) ==
  [c EXCEPT !.img[b] = v, !.len = GrowTo(c.len, b + 1)]

\* Mutant of Touch: the old queue entry stays.
TouchTwice(l, b) == Append(l, b)

\* The first place of block b in the queue.
Position(l, b) == {i \in 1..Len(l) : l[i] = b /\ \A j \in 1..(i - 1) : l[j] # b}

RemoveAt(l, i) == SubSeq(l, 1, i - 1) \o SubSeq(l, i + 1, Len(l))

\* BlockCache::touch
Touch(l, b) ==
  Append(IF Position(l, b) = {} THEN l ELSE RemoveAt(l, CHOOSE i \in Position(l, b) : TRUE), b)

\* The queue in BlockCache::drop_from.
RetainBelow(l, end) ==
  LET kept[i \in 0..Len(l)] ==
        IF i = 0 THEN <<>>
        ELSE IF l[i] < end THEN Append(kept[i - 1], l[i]) ELSE kept[i - 1]
  IN kept[Len(l)]

\* The first entry of the queue that is still in the map.
Victims(c) ==
  {i \in 1..Len(c.lru) : /\ c.lru[i] \in DOMAIN c.map
                         /\ \A j \in 1..(i - 1) : c.lru[j] \notin DOMAIN c.map}

\* BlockCache::evict_one up to its write, which may fail.
Unmapped(c, i) ==
  [c EXCEPT !.map = Drop(c.map, {c.lru[i]}), !.lru = SubSeq(c.lru, i + 1, Len(c.lru))]

\* Mutant of Evicted: no write-back.
EvictedLossy(c) ==
  IF Victims(c) = {} THEN {[c EXCEPT !.lru = <<>>]} ELSE {Unmapped(c, i) : i \in Victims(c)}

Evicted(c) ==
  IF Victims(c) = {} THEN {[c EXCEPT !.lru = <<>>]}
  ELSE {IF c.map[c.lru[i]].dirty
        THEN WriteBlock(Unmapped(c, i), c.lru[i], c.map[c.lru[i]].data)
        ELSE Unmapped(c, i) : i \in Victims(c)}

Full(c) == Cardinality(DOMAIN c.map) >= Capacity

\* Room for block b: nothing to do on a hit or below the capacity.
WithRoom(c, b) ==
  IF b \in DOMAIN c.map \/ ~ Full(c) THEN {c} ELSE Evicted(c)

\* BlockCache::get: a miss past the end of the file grows it and reads zeros.
Loaded(c, b) ==
  IF b \in DOMAIN c.map THEN [c EXCEPT !.lru = Touch(c.lru, b)]
  ELSE [c EXCEPT !.map = Put(c.map, b, [data |-> IF b < c.len THEN c.img[b] ELSE Zero,
                                        dirty |-> FALSE]),
                 !.len = IF b < c.len THEN c.len ELSE GrowTo(c.len, b + 1),
                 !.lru = Touch(c.lru, b)]

\* Mutant of Stored: the entry is not marked dirty.
StoredClean(c, b, v) ==
  [c EXCEPT !.map = Put(c.map, b, [data |-> v, dirty |-> FALSE]), !.lru = Touch(c.lru, b)]

Stored(c, b, v) ==
  [c EXCEPT !.map = Put(c.map, b, [data |-> v, dirty |-> TRUE]),
            !.lru = Touch(c.lru, b)]

\* Mutant of FlushedTo: the entries stay dirty.
FlushedToKeepsDirty(c, W) ==
  [c EXCEPT !.img = [b \in Blocks |-> IF b \in W THEN c.map[b].data ELSE c.img[b]]]

\* BlockCache::flush as far as it gets: the blocks of W are written.
FlushedTo(c, W) ==
  [c EXCEPT !.map = [x \in DOMAIN c.map |->
                       IF x \in W THEN [c.map[x] EXCEPT !.dirty = FALSE] ELSE c.map[x]],
            !.img = [b \in Blocks |-> IF b \in W THEN c.map[b].data ELSE c.img[b]]]

Dirty(c) == {b \in DOMAIN c.map : c.map[b].dirty}

\* The length of the file after the blocks of W were written.
FlushLens(c, W) ==
  IF W = {} THEN {c.len}
  ELSE {GrowTo(c.len, b + 1) : b \in {x \in W : \A y \in W : y <= x}}

-----------------------------------------------------------------------------
Init ==
  /\ map = [x \in {} |-> 0]
  /\ lru = <<>>
  /\ img = [b \in Blocks |-> Zero]
  /\ len \in 1..MaxBlocks
  /\ at = NoBlock
  /\ saved = Undef
  /\ junk = Blocks

\* A read through the cache.
Get(b) ==
  /\ b # at
  /\ \E c \in WithRoom(Here, b) : Become(Loaded(c, b))
  /\ UNCHANGED <<at, saved, junk>>

\* A read whose read_block fails: the eviction before it stays done.
GetFails(b) ==
  /\ b # at
  /\ b \notin DOMAIN map
  /\ \E c \in WithRoom(Here, b) : b < c.len /\ Become(c)
  /\ UNCHANGED <<at, saved, junk>>

\* A call for block b whose evict_one fails to write: the entry is gone from the
\* map by then, and the error goes to a caller that asked for another block.
EvictFails(b) ==
  /\ b # at
  /\ b \notin DOMAIN map
  /\ Full(Here)
  /\ \E i \in Victims(Here) :
       /\ map[lru[i]].dirty
       /\ \E n \in {len, GrowTo(len, lru[i] + 1)} : Become([Unmapped(Here, i) EXCEPT !.len = n])
       /\ junk' = junk \cup {lru[i]}
  /\ UNCHANGED <<at, saved>>

\* get_mut, and the caller's write through the reference it returns.
GetMut(b, v) ==
  /\ b # at
  /\ \E c \in WithRoom(Here, b) :
       LET d == Loaded(c, b) IN
       Become([d EXCEPT !.map = Put(d.map, b, [data |-> v, dirty |-> TRUE])])
  /\ junk' = junk \ {b}
  /\ UNCHANGED <<at, saved>>

InsertDirty(b, v) ==
  /\ b # at
  /\ \E c \in WithRoom(Here, b) : Become(Stored(c, b, v))
  /\ junk' = junk \ {b}
  /\ UNCHANGED <<at, saved>>

\* flush, complete or cut short by an error after the blocks of W.
Flush(W) ==
  /\ \E n \in FlushLens(Here, W) : Become([FlushedTo(Here, W) EXCEPT !.len = n])
  /\ UNCHANGED <<at, saved, junk>>

\* The end of flush_all: flush, write the snapshot v to block s of the image,
\* cut the file at the allocator's new end (or not), forget what lies beyond.
CheckpointFrom(c, s, v, end, cut) ==
  LET w == WriteBlock(c, s, v)
      n == IF cut THEN ShrinkTo(w.len, end) ELSE w.len IN
  Become(Pack(Drop(w.map, {b \in Blocks : b >= end}),
              RetainBelow(w.lru, end),
              [b \in Blocks |-> IF b < n THEN w.img[b] ELSE Zero],
              n))

Checkpoint(s, v, end, cut) ==
  /\ s < end
  /\ \E n \in FlushLens(Here, Dirty(Here)) :
       CheckpointFrom([FlushedTo(Here, Dirty(Here)) EXCEPT !.len = n], s, v, end, cut)
  /\ at' = s
  /\ saved' = v
  /\ junk' = junk \cup ({s, at} \cap Blocks) \cup {b \in Blocks : b >= end}

\* A clean unmount and a mount: a new, empty cache.
Remount ==
  /\ Dirty(Here) = {}
  /\ Become([Here EXCEPT !.map = [x \in {} |-> 0], !.lru = <<>>])
  /\ UNCHANGED <<at, saved, junk>>

Next ==
  \/ \E b \in Blocks : Get(b)
  \/ \E b \in Blocks : GetFails(b)
  \/ \E b \in Blocks : EvictFails(b)
  \/ \E b \in Blocks, v \in Values : GetMut(b, v)
  \/ \E b \in Blocks, v \in Values : InsertDirty(b, v)
  \/ \E W \in SUBSET Dirty(Here) : Flush(W)
  \/ \E s \in Blocks, v \in Values, end \in 1..MaxBlocks, cut \in BOOLEAN :
       Checkpoint(s, v, end, cut)
  \/ Remount

Spec == Init /\ [][Next]_vars

-----------------------------------------------------------------------------
(* Properties. *)

Entries == [data : Data, dirty : BOOLEAN]

TypeOK ==
  /\ DOMAIN map \subseteq Blocks /\ map \in [DOMAIN map -> Entries]
  /\ lru \in Seq(Blocks)
  /\ img \in [Blocks -> Data]
  /\ len \in Nat
  /\ at \in Blocks \cup {NoBlock}
  /\ saved \in Values \cup {Undef}
  /\ junk \subseteq Blocks

\* The queue lists every cached block, and each one once: evict_one, which
\* skips queue entries without a map entry, finds a victim whenever the cache
\* is full, and the victim really is the least recently used one.
LruAgrees == Range(lru) = DOMAIN map /\ IsInjective(lru)

\* The cache never outgrows its capacity.
WithinCapacity == Cardinality(DOMAIN map) <= Capacity

\* What the methods rely on: types, the agreement of queue and map, capacity.
WellFormed == TypeOK /\ LruAgrees /\ WithinCapacity

\* "Dirty blocks are flushed on eviction, sync, and unmount" (cache.rs): an
\* entry leaves the cache only with its contents in the image, unless the
\* engine discarded the block or the host failed to write this very block.
DirtyReachesImage ==
  [][\A b \in DOMAIN map :
       map[b].dirty /\ b \notin DOMAIN map' => img'[b] = map[b].data \/ b \in junk']_vars

\* No write-back lands on the allocator snapshot, which bypasses the cache,
\* and no shrink cuts it off.
SnapshotIntact == at # NoBlock => at < len /\ img[at] = saved

\* What a reader of block b gets.
View(b) == IF b \in DOMAIN map THEN map[b].data ELSE img[b]

\* The cache, its evictions and the checkpoints that go around it add up to
\* the flat array of blocks the engine works with.
Store == INSTANCE BlockStore
           WITH val <- [b \in Blocks |-> IF b \in junk THEN Undef ELSE View(b)],
                saved <- IF at = NoBlock THEN Undef ELSE img[at]

ImplementsBlockStore == Store!Spec
=============================================================================
