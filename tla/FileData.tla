------------------------------ MODULE FileData ------------------------------
(***************************************************************************)
(* The contents of files (src/inner.rs): inline bytes in the inode,        *)
(* extents, the extent tree, compressed records and the one-record cache.  *)
(*                                                                         *)
(* The unit of sizes and offsets is a fraction of a block: a block has     *)
(* UnitsPerBlock units, a record RecBlocks blocks, and up to InlineMax     *)
(* units fit the inode.  A unit is Zero, a value somebody wrote, or part   *)
(* of an encoded structure: of a compressed record or of an extent tree.   *)
(* The block cache and the allocator are the ones BlockStore and           *)
(* BlockSpace promise: a flat array of blocks and a set of free ones.      *)
(*                                                                         *)
(* The operations are functions from file system states to file system     *)
(* states, so that one call of the code is one step.                       *)
(***************************************************************************)
EXTENDS Integers, Sequences, FiniteSets, SequencesExt, TLC

CONSTANTS
  Files,          \* inode numbers
  Values,         \* what a caller writes
  Zero, Hole, Eio, NoRecord,  \* model values
  UnitsPerBlock,  \* BLOCK_SIZE
  InlineMax,      \* INLINE_MAX
  RecBlocks,      \* record_blocks
  MaxDirect,      \* MAX_DIRECT_EXTENTS
  MaxSize,        \* bound: sizes, in units
  MaxWrite,       \* bound: units of one write
  MaxOps,         \* bound: steps
  MaxUsed,        \* bound: steps on an image that was used before or is compressed
  MaxShared,      \* bound: steps once every file is in use
  NBlocks         \* bound: blocks of the image

ASSUME FileDataAssumption ==
  /\ UnitsPerBlock \in Nat \ {0} /\ RecBlocks \in Nat /\ RecBlocks >= 2
  /\ InlineMax \in Nat /\ InlineMax < UnitsPerBlock
  /\ MaxDirect \in Nat /\ NBlocks \in Nat
  /\ MaxSize \in Nat /\ MaxWrite \in Nat /\ MaxOps \in Nat /\ MaxShared \in Nat
  /\ MaxUsed \in 0..MaxOps

VARIABLES
  fs,      \* the file system: inodes, dirty inodes, record cache, free blocks, blocks
  want,    \* what callers expect to read: the last value written, Hole if none
  spoilt,  \* history: the units the code is known to lose, by file
  leaked,  \* history: the blocks the code is known to lose
  ops      \* steps so far

vars == <<fs, want, spoilt, leaked, ops>>

RecUnits == RecBlocks * UnitsPerBlock

Smaller(a, b) == IF a < b THEN a ELSE b
Larger(a, b) == IF a < b THEN b ELSE a
CeilDiv(a, b) == (a + b - 1) \div b

Run(lo, n) == lo..(lo + n - 1)
Zeros(n) == [k \in 1..n |-> Zero]
Resize(d, n) == [k \in 1..n |-> IF k <= Len(d) THEN d[k] ELSE Zero]

\* d with the units from offset off (counted from 0) replaced by new.
Overlay(d, off, new) ==
  [k \in 1..Larger(Len(d), off + Len(new)) |->
     IF k > off /\ k <= off + Len(new) THEN new[k - off]
     ELSE IF k <= Len(d) THEN d[k] ELSE Zero]

-----------------------------------------------------------------------------
(* Inodes and the file system state. *)

\* alloc_inode: a new file has the default compression of the image, on or off.
NewInode(default) == [kind |-> "Inline", size |-> 0, inline |-> <<>>, ext |-> <<>>,
                      tree |-> 0, lz4 |-> default, flag |-> FALSE]

Uses(i) == i.lz4 \/ i.flag

\* get_inode_mut marks the inode dirty.
SetInode(s, f, i) == [s EXCEPT !.ino[f] = i, !.dirty = @ \cup {f}]

Release(s, blocks) == [s EXCEPT !.free = @ \cup blocks]

\* Allocator::allocate: best fit, the first of the shortest free runs.
RunLength(free, lo) == CHOOSE n \in 1..NBlocks : Run(lo, n) \subseteq free /\ lo + n \notin free

FreeRuns(free, n) == {lo \in free : lo - 1 \notin free /\ RunLength(free, lo) >= n}

Alloc(s, n) ==
  LET length(lo) == RunLength(s.free, lo) IN
  CHOOSE lo \in FreeRuns(s.free, n) : \A q \in FreeRuns(s.free, n) :
    length(lo) < length(q) \/ (length(lo) = length(q) /\ lo <= q)

Taken(s, lo, n) == [s EXCEPT !.free = @ \ Run(lo, n)]

\* write_physical_bytes: whole blocks, the last one padded with zeros.
WritePhysical(s, lo, data) ==
  LET n == Larger(CeilDiv(Len(data), UnitsPerBlock), 1)
      d == Resize(data, n * UnitsPerBlock) IN
  [s EXCEPT !.disk = [b \in DOMAIN @ |->
     IF b \in Run(lo, n)
     THEN SubSeq(d, (b - lo) * UnitsPerBlock + 1, (b - lo + 1) * UnitsPerBlock)
     ELSE @[b]]]

-----------------------------------------------------------------------------
(* Extents. *)

Extent(log, phys, len, plen, comp) ==
  [log |-> log, phys |-> phys, len |-> len, plen |-> plen, comp |-> comp]

PhysLen(e) == IF e.plen # 0 THEN e.plen ELSE e.len
LogicalEnd(e) == e.log + e.len

ContainsLogical(e, b) == e.log <= b /\ b < LogicalEnd(e)

Covering(es, b) == {k \in DOMAIN es : ContainsLogical(es[k], b)}

\* map_file_block: the first extent that contains the block; 0 for none.
MapBlock(es, b) ==
  IF Covering(es, b) = {} THEN 0
  ELSE LET e == es[Min(Covering(es, b))] IN e.phys + (b - e.log)

KindOf(es) == IF Len(es) > MaxDirect THEN "Tree" ELSE "Extents"

SortedByLogical(es) ==
  LET before(x, y) == x.log < y.log IN SortSeq(es, before)

Merges(es, e) ==
  /\ es # <<>> /\ ~e.comp /\ e.plen = e.len
  /\ ~Last(es).comp
  /\ LogicalEnd(Last(es)) = e.log
  /\ Last(es).phys + PhysLen(Last(es)) = e.phys

Merged(last, e) ==
  [last EXCEPT !.len = @ + e.len, !.plen = IF @ # 0 THEN @ + e.plen ELSE 0]

\* Mutant of WithExtent: new extents stay where they were pushed.
WithExtentUnsorted(es, e) ==
  IF Merges(es, e) THEN [es EXCEPT ![Len(es)] = Merged(@, e)] ELSE Append(es, e)

WithExtent(es, e) ==
  IF Merges(es, e) THEN [es EXCEPT ![Len(es)] = Merged(@, e)]
  ELSE SortedByLogical(Append(es, e))

AddExtent(s, f, e) ==
  LET es == WithExtent(s.ino[f].ext, e) IN
  SetInode(s, f, [s.ino[f] EXCEPT !.ext = es, !.kind = KindOf(es)])

\* What is left of an extent outside the blocks start <= b < end, and the
\* physical blocks that go.  A compressed extent goes as a whole.
Outside(e, start, end) == LogicalEnd(e) <= start \/ e.log >= end

Kept(e, start, end) ==
  IF Outside(e, start, end) THEN <<e>>
  ELSE IF e.comp THEN <<>>
  ELSE (IF e.log < start
        THEN <<Extent(e.log, e.phys, start - e.log, start - e.log, FALSE)>> ELSE <<>>)
    \o (IF LogicalEnd(e) > end
        THEN <<Extent(end, e.phys + (end - e.log), LogicalEnd(e) - end,
                      LogicalEnd(e) - end, FALSE)>> ELSE <<>>)

Freed(e, start, end) ==
  IF Outside(e, start, end) THEN {}
  ELSE IF e.comp THEN Run(e.phys, PhysLen(e))
  ELSE {e.phys + (b - e.log) :
          b \in Larger(start, e.log)..(Smaller(end, LogicalEnd(e)) - 1)}

KeptExtents(es, start, end) ==
  FlattenSeq([k \in DOMAIN es |-> Kept(es[k], start, end)])

\* Mutant of FreedBlocks: the physical length of a compressed extent is forgotten.
FreedBlocksRaw(es, start, end) ==
  UNION {Freed([es[k] EXCEPT !.comp = FALSE], start, end) : k \in DOMAIN es}

FreedBlocks(es, start, end) == UNION {Freed(es[k], start, end) : k \in DOMAIN es}

PunchLogicalRange(s, f, start, end) ==
  LET i == s.ino[f]
      es == SortedByLogical(KeptExtents(i.ext, start, end)) IN
  SetInode(Release(s, FreedBlocks(i.ext, start, end)), f,
           [i EXCEPT !.ext = es, !.kind = KindOf(es)])

AllPhysical(es) == UNION {Run(es[k].phys, PhysLen(es[k])) : k \in DOMAIN es}

-----------------------------------------------------------------------------
(* Records. *)

AllZero(d) == \A k \in DOMAIN d : d[k] = Zero

\* The block of a compressed record: header and payload.  lz4 says whether
\* LZ4 saves a block; try_compress does not try on less than two blocks.
Packed(d) == [k \in 1..UnitsPerBlock |-> [rec |-> d, part |-> k]]

IsHeader(unit) == unit \notin Values \cup {Zero} /\ "rec" \in DOMAIN unit

TryCompress(i, d, lz4) == i.lz4 /\ Len(d) >= 2 * UnitsPerBlock /\ lz4

StoreRecord(s, f, rec, d, lz4) ==
  LET log == rec * RecBlocks
      n == Larger(CeilDiv(Len(d), UnitsPerBlock), 1)
      packed == TryCompress(s.ino[f], d, lz4)
      plen == IF packed THEN 1 ELSE n
      phys == Alloc(s, plen)
      s1 == WritePhysical(Taken(s, phys, plen), phys, IF packed THEN Packed(d) ELSE d)
      s2 == AddExtent(PunchLogicalRange(s1, f, log, log + RecBlocks), f,
                      Extent(log, phys, n, plen, packed)) IN
  IF AllZero(d) THEN PunchLogicalRange(s, f, log, log + RecBlocks)
  ELSE [s2 EXCEPT !.ino[f].flag = @ \/ packed]

\* read_compressed_extent: Eio unless header and payload belong together.
ReadCompressed(s, e) ==
  LET b == s.disk[e.phys] IN
  IF IsHeader(b[1]) /\ b = Packed(b[1].rec) THEN b[1].rec ELSE Eio

RawUnit(s, i, u) ==
  LET p == MapBlock(i.ext, u \div UnitsPerBlock) IN
  IF p = 0 THEN Zero ELSE s.disk[p][(u % UnitsPerBlock) + 1]

LoadRecord(s, f, rec) ==
  LET i == s.ino[f]
      c == Covering(i.ext, rec * RecBlocks) IN
  IF c # {} /\ i.ext[Min(c)].comp
  THEN LET d == ReadCompressed(s, i.ext[Min(c)])
       IN IF d = Eio THEN Eio ELSE Resize(d, RecUnits)
  ELSE [k \in 1..RecUnits |->
          IF rec * RecUnits + k - 1 < i.size THEN RawUnit(s, i, rec * RecUnits + k - 1)
          ELSE Zero]

FlushRecord(s, lz4) ==
  LET t == [s EXCEPT !.rc = NoRecord] IN
  IF s.rc # NoRecord /\ s.rc.dirty
  THEN StoreRecord(t, s.rc.file, s.rc.rec, s.rc.data, lz4) ELSE t

\* Mutant of Hit: the record number is enough.
HitAnyFile(s, f, rec) == s.rc # NoRecord /\ s.rc.rec = rec

Hit(s, f, rec) == s.rc # NoRecord /\ s.rc.file = f /\ s.rc.rec = rec

\* cached_record; the cache stays empty when the record cannot be read.
CachedRecord(s, f, rec, lz4) ==
  IF Hit(s, f, rec) THEN s
  ELSE LET t == FlushRecord(s, lz4)
           d == LoadRecord(t, f, rec) IN
       IF d = Eio THEN t
       ELSE [t EXCEPT !.rc = [file |-> f, rec |-> rec, data |-> d, dirty |-> FALSE]]

-----------------------------------------------------------------------------
(* Writing. *)

\* promote_inline: the inline bytes move to a block of their own.
PromoteInline(s, f) ==
  LET i == s.ino[f]
      n == Larger(CeilDiv(Len(i.inline), UnitsPerBlock), 1)
      phys == Alloc(s, n)
      s1 == WritePhysical(Taken(s, phys, n), phys, i.inline)
      s2 == SetInode(s1, f, [i EXCEPT !.inline = <<>>, !.kind = "Extents", !.ext = <<>>]) IN
  IF i.kind # "Inline" THEN s
  ELSE IF i.inline = <<>> THEN SetInode(s, f, [i EXCEPT !.kind = "Extents"])
  ELSE AddExtent(s2, f, Extent(0, phys, n, n, FALSE))

\* allocate_logical leaves the contents of a new block as they are.
AllocateLogical(s, f, b) ==
  IF MapBlock(s.ino[f].ext, b) # 0 THEN s
  ELSE LET phys == Alloc(s, 1)
       IN AddExtent(Taken(s, phys, 1), f, Extent(b, phys, 1, 1, FALSE))

\* Indices first..last as a sequence: the order of the loops over chunks.
Steps(first, last) == [k \in 1..(last - first + 1) |-> first + k - 1]

\* The part of a write at offset off that falls into the chunk of `size' units
\* with index c: where it starts inside the chunk, and the units.
Within(off, size, c) == Larger(off - c * size, 0)

Part(off, new, size, c) ==
  SubSeq(new, Larger(c * size - off, 0) + 1, Smaller((c + 1) * size - off, Len(new)))

WriteRaw(s, f, off, new) ==
  LET step(t, b) ==
        LET a == AllocateLogical(t, f, b)
            p == MapBlock(a.ino[f].ext, b) IN
        [a EXCEPT !.disk[p] = Overlay(@, Within(off, UnitsPerBlock, b),
                                      Part(off, new, UnitsPerBlock, b))]
  IN FoldLeft(step, PromoteInline(s, f),
              Steps(off \div UnitsPerBlock, (off + Len(new) - 1) \div UnitsPerBlock))

\* write_data_compressed.  An unreadable record ends the write and leaves the
\* cache empty, which is how WriteData and Write tell a failed write.
WriteRecords(s, f, off, new, lz4) ==
  LET first == off \div RecUnits
      step(t, r) ==
        LET a == IF r > first /\ t.rc = NoRecord THEN t ELSE CachedRecord(t, f, r, lz4) IN
        IF a.rc = NoRecord THEN a
        ELSE [a EXCEPT
                !.rc.data = Overlay(@, Within(off, RecUnits, r), Part(off, new, RecUnits, r)),
                !.rc.dirty = TRUE]
  IN FoldLeft(step, s, Steps(first, (off + Len(new) - 1) \div RecUnits))

Grow(s, f, end) ==
  SetInode(s, f, [s.ino[f] EXCEPT !.size = Larger(@, end)])

WriteInline(s, f, off, new) ==
  Grow(SetInode(s, f, [s.ino[f] EXCEPT !.inline = Overlay(@, off, new)]),
       f, off + Len(new))

\* An inline file of a compressed image becomes records at once.
InlineToRecords(s, f, off, new, lz4) ==
  LET full == Overlay(s.ino[f].inline, off, new)
      s1 == Grow(SetInode(s, f, [s.ino[f] EXCEPT !.inline = <<>>, !.kind = "Extents"]),
                 f, off + Len(new))
      step(t, r) ==
        StoreRecord(t, f, r, SubSeq(full, r * RecUnits + 1,
                                    Smaller((r + 1) * RecUnits, Len(full))), lz4)
  IN FoldLeft(step, s1, Steps(0, (Len(full) - 1) \div RecUnits))

WriteData(s, f, off, new, lz4) ==
  LET i == s.ino[f]
      end == off + Len(new)
      recs == WriteRecords(s, f, off, new, lz4) IN
  IF i.kind = "Inline" /\ end <= InlineMax /\ i.ext = <<>> THEN WriteInline(s, f, off, new)
  ELSE IF Uses(i) /\ i.kind = "Inline" THEN InlineToRecords(s, f, off, new, lz4)
  ELSE IF Uses(i) THEN IF recs.rc = NoRecord THEN recs ELSE Grow(recs, f, end)
  ELSE Grow(WriteRaw(s, f, off, new), f, end)

\* read_data, unit by unit.
Content(s, f, u) ==
  LET i == s.ino[f]
      rec == u \div RecUnits IN
  IF i.kind = "Inline" THEN IF u < Len(i.inline) THEN i.inline[u + 1] ELSE Eio
  ELSE IF ~Uses(i) THEN RawUnit(s, i, u)
  ELSE LET d == IF Hit(s, f, rec)
                THEN s.rc.data ELSE LoadRecord(s, f, rec)
       IN IF d = Eio THEN Eio ELSE d[(u % RecUnits) + 1]

-----------------------------------------------------------------------------
(* Truncating. *)

\* The whole file in the inode again, its blocks given back.
Inlined(s, f, data) ==
  LET i == s.ino[f] IN
  SetInode(Release(s, AllPhysical(i.ext)), f,
           [i EXCEPT !.ext = <<>>, !.kind = "Inline", !.inline = data, !.size = Len(data)])

ShrinkRecords(s, f, n, lz4) ==
  LET last == (n - 1) \div RecUnits
      d == LoadRecord(s, f, last)
      s1 == StoreRecord(s, f, last, SubSeq(d, 1, n - last * RecUnits), lz4)
      s2 == PunchLogicalRange(s1, f, (last + 1) * RecBlocks, MaxSize + 1)
  IN IF d = Eio THEN s ELSE SetInode(s2, f, [s2.ino[f] EXCEPT !.size = n])

\* Without compression the rest of the last block stays, and so does the kind.
ShrinkRaw(s, f, n) ==
  LET i == s.ino[f]
      drop == CeilDiv(n, UnitsPerBlock) IN
  SetInode(Release(s, FreedBlocks(i.ext, drop, MaxSize + 1)), f,
           [i EXCEPT !.ext = KeptExtents(i.ext, drop, MaxSize + 1), !.size = n])

\* Mutant of MaybeInline: the bytes are read after the blocks were given back.
MaybeInlineZero(s, f, n) ==
  IF n <= InlineMax /\ Len(s.ino[f].ext) <= 1 THEN Inlined(s, f, Zeros(n)) ELSE s

MaybeInline(s, f, n) ==
  LET data == [k \in 1..n |-> Content(s, f, k - 1)] IN
  IF n <= InlineMax /\ Len(s.ino[f].ext) <= 1 /\ Eio \notin ToSet(data)
  THEN Inlined(s, f, data) ELSE s

TruncateData(s0, f, n, lz4) ==
  LET s == FlushRecord(s0, lz4)
      i == s.ino[f] IN
  IF n = i.size THEN s
  ELSE IF i.kind = "Inline"
  THEN SetInode(s, f, [i EXCEPT !.inline = Resize(@, n), !.size = n])
  ELSE IF n > i.size THEN SetInode(s, f, [i EXCEPT !.size = n])
  ELSE IF Uses(i) /\ n = 0 THEN Inlined(s, f, <<>>)
  ELSE MaybeInline(IF Uses(i) THEN ShrinkRecords(s, f, n, lz4) ELSE ShrinkRaw(s, f, n), f, n)

-----------------------------------------------------------------------------
(* Saving and loading inodes. *)

TreeBlock(es) == [k \in 1..UnitsPerBlock |-> [tree |-> es, part |-> k]]

\* store_extent_tree; up to 204 extents take one block.
StoreExtentTree(s, f) ==
  LET i == s.ino[f]
      s1 == IF i.tree # 0 THEN Release(s, {i.tree}) ELSE s
      t == Alloc(s1, 1) IN
  IF Len(i.ext) <= MaxDirect
  THEN IF i.tree = 0 THEN s
       ELSE [s1 EXCEPT !.ino[f].tree = 0, !.ino[f].kind = "Extents"]
  ELSE [WritePhysical(Taken(s1, t, 1), t, TreeBlock(i.ext))
          EXCEPT !.ino[f].tree = t, !.ino[f].kind = "Tree"]

\* flush_all, as far as contents go.  The dirty inodes are a hash set: one order.
FlushAll(s, lz4) ==
  LET s1 == FlushRecord(s, lz4)
  IN [FoldLeft(StoreExtentTree, s1, SetToSeq(s1.dirty)) EXCEPT !.dirty = {}]

\* Extents lose phys_length and the algorithm on disk; a compressed file gets
\* them back from what the first block of the extent looks like.
Plain(es) == [k \in DOMAIN es |-> Extent(es[k].log, es[k].phys, es[k].len, 0, FALSE)]

Resolved(s, es) ==
  [k \in DOMAIN es |->
     LET packed == IsHeader(s.disk[es[k].phys][1])
     IN [es[k] EXCEPT !.plen = IF packed THEN 1 ELSE es[k].len, !.comp = packed]]

\* Inode::encode keeps INLINE_MAX bytes of inline data.
SavedInline(d) == SubSeq(d, 1, Smaller(Len(d), InlineMax))

\* Inode::encode, then read_inode_raw.
Reloaded(s, i) ==
  LET direct == Plain(SubSeq(i.ext, 1, Smaller(Len(i.ext), MaxDirect)))
      es == CASE i.kind = "Inline" -> <<>>
              [] i.kind = "Tree" /\ i.tree # 0 -> Plain(s.disk[i.tree][1].tree)
              [] OTHER -> direct
  IN [i EXCEPT !.ext = IF Uses(i) THEN Resolved(s, es) ELSE es,
               !.inline = IF i.kind = "Inline"
                          THEN SavedInline(@) ELSE <<>>]

\* drop_inode, and the number is used for a new file.
DropInode(s, f, lz4) ==
  LET i == s.ino[f]
      s1 == IF s.rc # NoRecord /\ s.rc.file = f THEN [s EXCEPT !.rc = NoRecord] ELSE s
      s2 == TruncateData(s1, f, 0, lz4)
      s3 == IF i.tree # 0 /\ i.kind = "Tree" THEN Release(s2, {i.tree}) ELSE s2
  IN SetInode(s3, f, NewInode(s.default))

-----------------------------------------------------------------------------
NoWant == [u \in 0..(MaxSize - 1) |-> Hole]

\* The blocks of a new image are zeros.  In one that was used they may hold what
\* deleted files left: records, the worst a block can begin with.
Disks ==
  LET old == Packed([k \in 1..RecUnits |-> CHOOSE v \in Values : TRUE])
  IN {[b \in 1..NBlocks |-> Zeros(UnitsPerBlock)], [b \in 1..NBlocks |-> old]}

\* Compression, off by default in the longest behaviours, can be switched on
\* there by the first step.
Init ==
  /\ \E default \in BOOLEAN : \E disk \in Disks :
       /\ fs = [default |-> default, ino |-> [f \in Files |-> NewInode(default)],
                dirty |-> Files, rc |-> NoRecord, free |-> 1..NBlocks, disk |-> disk]
       /\ ops = IF AllZero(disk[1]) /\ ~default THEN 0 ELSE MaxOps - MaxUsed
  /\ want = [f \in Files |-> NoWant]
  /\ spoilt = [f \in Files |-> {}] /\ leaked = {}

InUse(f) == fs.ino[f] # NewInode(fs.default)

\* The bounds of a step on f: steps, fewer when another file is in use, and room
\* for the records one step can store (the code grows the image instead).
Step(f) ==
  /\ ops < (IF \E g \in Files \ {f} : InUse(g) THEN MaxShared ELSE MaxOps)
  /\ ops' = ops + 1
  /\ (NBlocks - 2 * RecBlocks + 1)..NBlocks \subseteq fs.free

-----------------------------------------------------------------------------
(* What the code loses.  Each operator names a place where it does, by the    *)
(* condition of the code and not by its effect.  The history variables spoilt *)
(* and leaked record the units and blocks; no step depends on them.           *)

\* Units that are read as what a block held before it became f's: a raw write
\* takes a free block that nobody clears (allocate_logical).
StaleInNew(f, off, n) ==
  LET old == PromoteInline(fs, f).ino[f] IN
  {u \in DOMAIN want[f] \ Run(off, n) :
     LET b == u \div UnitsPerBlock IN
     /\ b \in (off \div UnitsPerBlock)..((off + n - 1) \div UnitsPerBlock)
     /\ MapBlock(old.ext, b) = 0
     /\ fs.disk[MapBlock(fs'.ino[f].ext, b)][(u % UnitsPerBlock) + 1] # Zero}

\* Units that come back when the file grows again: shrinking an uncompressed
\* file leaves the rest of its last block.
StaleTail(f, n) ==
  {u \in DOMAIN want[f] :
     /\ u >= n /\ n % UnitsPerBlock # 0 /\ u \div UnitsPerBlock = n \div UnitsPerBlock
     /\ fs.ino[f].kind # "Inline" /\ ~Uses(fs.ino[f])
     /\ RawUnit(fs, fs.ino[f], u) # Zero}

\* A file that went back into its inode while its old tree is on disk:
\* store_extent_tree frees the tree, makes it a file of no extents and so
\* leaves its bytes where nobody reads them.
Stranded(s, f) ==
  f \in s.dirty /\ s.ino[f].kind = "Inline" /\ s.ino[f].tree # 0

\* Units of an inline file that set_len grew past INLINE_MAX: encode keeps less.
CutOff(s, f) ==
  {u \in DOMAIN want[f] : s.ino[f].kind = "Inline" /\ InlineMax <= u /\ u < s.ino[f].size}

\* Extents of a compressed file that are not compressed and whose first block
\* begins like a record: resolve_all_extents takes them for one.
Misread(s, f) ==
  {k \in DOMAIN s.ino[f].ext :
     /\ s.ino[f].kind # "Inline" /\ Uses(s.ino[f]) /\ ~s.ino[f].ext[k].comp
     /\ IsHeader(s.disk[s.ino[f].ext[k].phys][1])}

\* What such an extent covers goes when its record is replaced; a record that
\* begins in it is read from the old one.
MisreadUnits(s, f) ==
  {u \in DOMAIN want[f] : \E k \in Misread(s, f) :
     \/ ContainsLogical(s.ino[f].ext[k], u \div UnitsPerBlock)
     \/ ContainsLogical(s.ino[f].ext[k], (u \div RecUnits) * RecBlocks)}

MisreadBlocks(s) ==
  UNION {UNION {Run(s.ino[f].ext[k].phys + 1, PhysLen(s.ino[f].ext[k]) - 1) :
                  k \in Misread(s, f)} : f \in Files}

StrandedUnits(s, f) == IF Stranded(s, f) THEN {u \in DOMAIN want[f] : want[f][u] # Hole} ELSE {}

-----------------------------------------------------------------------------
(* The actions. *)

WriteFailed(f) ==
  fs.ino[f].kind # "Inline" /\ Uses(fs.ino[f]) /\ fs'.rc = NoRecord

RawWrite(f, off, n) ==
  /\ ~Uses(fs.ino[f])
  /\ ~(fs.ino[f].kind = "Inline" /\ off + n <= InlineMax /\ fs.ino[f].ext = <<>>)

\* A write that fails promises nothing.
Write(f, off, n, v, lz4) ==
  /\ off + n <= MaxSize
  /\ fs' = WriteData(fs, f, off, [k \in 1..n |-> v], lz4)
  /\ IF WriteFailed(f) THEN UNCHANGED <<want, spoilt>>
     ELSE /\ want' = [want EXCEPT ![f] =
                        [u \in DOMAIN @ |-> IF u \in Run(off, n) THEN v ELSE @[u]]]
          /\ spoilt' = [spoilt EXCEPT ![f] =
                          (@ \ Run(off, n))
                            \cup IF RawWrite(f, off, n) THEN StaleInNew(f, off, n) ELSE {}]
  /\ UNCHANGED leaked

\* Reading through the record cache moves records.
Read(f, rec, lz4) ==
  /\ rec * RecUnits < fs.ino[f].size
  /\ fs.ino[f].kind # "Inline" /\ Uses(fs.ino[f])
  /\ fs' = CachedRecord(fs, f, rec, lz4)
  /\ UNCHANGED <<want, spoilt, leaked>>

\* A record that cannot be read ends the call before the size changes.
Truncate(f, n, lz4) ==
  /\ fs' = TruncateData(fs, f, n, lz4)
  /\ IF fs'.ino[f].size # n \/ n >= fs.ino[f].size THEN UNCHANGED <<want, spoilt>>
     ELSE /\ want' = [want EXCEPT ![f] = [u \in DOMAIN @ |-> IF u < n THEN @[u] ELSE Hole]]
          /\ spoilt' = [spoilt EXCEPT ![f] =
                          {u \in @ : u < n}
                            \cup IF fs'.ino[f].kind = "Inline" THEN {} ELSE StaleTail(f, n)]
  /\ UNCHANGED leaked

\* drop_inode frees the tree of a file that is still of that kind: the tree of
\* one that was truncated since the last checkpoint is lost.
Drop(f, lz4) ==
  /\ fs' = DropInode(fs, f, lz4)
  /\ want' = [want EXCEPT ![f] = NoWant]
  /\ spoilt' = [spoilt EXCEPT ![f] = {}]
  /\ leaked' = leaked \cup IF fs.ino[f].kind = "Tree" THEN {} ELSE {fs.ino[f].tree} \ {0}

SetInodeCompression(f, on, lz4) ==
  /\ LET s == FlushRecord(fs, lz4) IN
     fs' = SetInode(s, f, [s.ino[f] EXCEPT !.lz4 = on, !.flag = @ \/ on])
  /\ UNCHANGED <<want, spoilt, leaked>>

Sync(lz4) ==
  /\ fs' = FlushAll(fs, lz4)
  /\ spoilt' = [f \in Files |-> spoilt[f] \cup StrandedUnits(FlushRecord(fs, lz4), f)]
  /\ UNCHANGED <<want, leaked>>

\* The image is closed and opened again.
Remount(lz4) ==
  /\ LET s == FlushAll(fs, lz4) IN
     /\ fs' = [s EXCEPT !.ino = [f \in Files |-> Reloaded(s, s.ino[f])]]
     /\ spoilt' = [f \in Files |->
          spoilt[f] \cup StrandedUnits(FlushRecord(fs, lz4), f)
                    \cup CutOff(s, f) \cup MisreadUnits(s, f)]
     /\ leaked' = leaked \cup MisreadBlocks(s)
  /\ UNCHANGED want

\* Whether LZ4 saves a block matters once a file has compression on.
Lz4Saves == IF \E f \in Files : fs.ino[f].lz4 THEN BOOLEAN ELSE {FALSE}

\* A call that changes nothing is a stuttering step.
Next ==
  /\ \E f \in Files :
       /\ Step(f)
       /\ \E lz4 \in Lz4Saves :
            \/ \E off \in 0..(MaxSize - 1) : \E n \in 1..MaxWrite : \E v \in Values :
                 Write(f, off, n, v, lz4)
            \/ \E rec \in 0..(MaxSize \div RecUnits) : Read(f, rec, lz4)
            \/ \E n \in 0..MaxSize : Truncate(f, n, lz4)
            \/ Drop(f, lz4)
            \/ \E on \in BOOLEAN : SetInodeCompression(f, on, lz4)
            \/ Sync(lz4)
            \/ Remount(lz4)
  /\ fs' # fs

Spec == Init /\ [][Next]_vars

-----------------------------------------------------------------------------
(* Properties. *)

TypeOK ==
  /\ ops \in 0..MaxOps
  /\ \A f \in Files :
       LET i == fs.ino[f] IN
       /\ i.kind \in {"Inline", "Extents", "Tree"}
       /\ i.size \in 0..MaxSize
       /\ i.tree \in 0..NBlocks
       /\ i.kind = "Inline" => i.ext = <<>>
  /\ fs.free \subseteq 1..NBlocks
  /\ fs.rc # NoRecord => fs.rc.file \in Files /\ Len(fs.rc.data) = RecUnits

Written(f, u) == want[f][u] # Hole

AsWritten(f, u) == u < fs.ino[f].size /\ Content(fs, f, u) = want[f][u]

ReadsZero(f, u) == u < fs.ino[f].size => Content(fs, f, u) = Zero

\* What was written is what is read, whatever happened in between: the file
\* moved between the inode, extents, tree and records, its record was cached,
\* displaced and compressed, other files took its old blocks, compression was
\* switched, the image was closed and opened.  The only units left out are
\* those the code loses where StrandedUnits and MisreadUnits describe it, until
\* they are written again: the harm is never wider than that.
ReadBack ==
  \A f \in Files : \A u \in DOMAIN want[f] \ spoilt[f] : Written(f, u) => AsWritten(f, u)

\* What was not written reads as zeros, over the same histories.  The only units
\* left out are those of StaleInNew, StaleTail and CutOff, and MisreadUnits.
HolesReadZero ==
  \A f \in Files : \A u \in DOMAIN want[f] \ spoilt[f] : ~Written(f, u) => ReadsZero(f, u)

\* README: "Persist on `sync()` or when the last `LinuxFile` handle is dropped":
\* whatever was written is read, with no unit left out.
EveryByteKept ==
  \A f \in Files : \A u \in DOMAIN want[f] : Written(f, u) => AsWritten(f, u)

\* README: "Reads in the hole return zeros", with no unit left out.
EveryHoleZero ==
  \A f \in Files : \A u \in DOMAIN want[f] : ~Written(f, u) => ReadsZero(f, u)

\* Every block is free or belongs to exactly one extent or tree of one file:
\* replacing a record or a tree neither leaks its blocks nor frees them twice.
\* The blocks lost are exactly the ones `leaked' counts, the tree of a file
\* deleted before a checkpoint and the tail of a misread extent, and no file
\* gets one of those again.
Owners(b) ==
  LET ext(f) == fs.ino[f].ext IN
  UNION {{<<f, k>> : k \in {j \in DOMAIN ext(f) : b \in Run(ext(f)[j].phys, PhysLen(ext(f)[j]))}} :
           f \in Files}
  \cup {<<f, 0>> : f \in {g \in Files : fs.ino[g].tree = b}}

BlocksAccounted ==
  /\ leaked \cap fs.free = {}
  /\ \A b \in 1..NBlocks : Cardinality(Owners(b)) = IF b \in fs.free \cup leaked THEN 0 ELSE 1

\* Extents are sorted and do not overlap, so that map_file_block and the merge
\* with the last extent find the right one.
ExtentsOrdered ==
  \A f \in Files :
    LET es == fs.ino[f].ext IN
    \A j, k \in DOMAIN es : j < k => LogicalEnd(es[j]) <= es[k].log

\* The bytes an inline file reports are in its inode, where read_data slices
\* them, but for those a reload has cut off.
InlineCoversSize ==
  \A f \in Files : fs.ino[f].kind = "Inline" =>
    Run(Len(fs.ino[f].inline), fs.ino[f].size - Len(fs.ino[f].inline)) \subseteq spoilt[f]

\* What read_data and map_file_block rely on in an inode, whichever of its four
\* forms it has and after every crossing between them.
WellFormed == TypeOK /\ ExtentsOrdered /\ InlineCoversSize
=============================================================================
