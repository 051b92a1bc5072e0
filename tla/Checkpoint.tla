----------------------------- MODULE Checkpoint -----------------------------
(***************************************************************************)
(* The checkpoint of src/inner.rs (flush_all) write by write, with crashes *)
(* of the process between any two writes, and the mount that follows:      *)
(* src/journal.rs, the superblock and its backup of src/format.rs, the     *)
(* allocator snapshot of src/alloc.rs.  The host keeps every write that    *)
(* completed; the write of a superblock may also be torn.                  *)
(*                                                                         *)
(* A file owns at most one block; its inode is one entry of the inode      *)
(* table, which is one block of the cache.                                 *)
(***************************************************************************)
EXTENDS Integers, Sequences, FiniteSets, FiniteSetsExt

CONSTANTS
  Files,        \* inode numbers
  NBlocks,      \* bound: data blocks 1..NBlocks of the image
  SnapLen,      \* blocks of an allocator snapshot
  Journaled,    \* SyncMode is Ordered or Full, not None
  Crashes,      \* bound: crashes
  MaxVer        \* bound: versions of a file, and checkpoints

ASSUME CheckpointAssumption ==
  /\ NBlocks \in Nat /\ SnapLen \in 1..NBlocks
  /\ Journaled \in BOOLEAN
  /\ Crashes \in Nat /\ MaxVer \in Nat

VARIABLES
  mem,      \* Inner::inodes: file -> block, 0 for an empty file
  ver,      \* file -> version of its contents in memory
  dirty,    \* Inner::dirty_inodes
  free,     \* Allocator::free as a set of blocks
  cache,    \* dirty blocks of the cache; the table is block 0
  image,    \* blocks of the host file
  sb,       \* superblock and backup: where the snapshot is, last journal seq
  log,      \* journal area: the last transaction
  msb,      \* Inner::sb, the superblock in memory
  pc,       \* where flush_all is; "down" after a crash
  snap,     \* start of the snapshot being written, blocks of it still to write
  touched,  \* history: files written or removed since the last complete checkpoint
  gone,     \* history: files removed since the last transaction
  crashes

vars == <<mem, ver, dirty, free, cache, image, sb, log, msb, pc, snap, touched, gone, crashes>>

Blocks == 1..NBlocks
Torn == [alloc |-> 0, seq |-> 0, ok |-> FALSE]
Run(lo, n) == lo..(lo + n - 1)

EmptyTable == [f \in Files |-> 0]
Data(f, v) == [kind |-> "data", file |-> f, ver |-> v]
Junk == [kind |-> "junk"]

\* Block k of a snapshot of the free set, the first one carrying the header.
SnapBlock(k, fr) == [kind |-> "snap", part |-> k, free |-> fr]

\* Allocator::allocate: best fit, then lowest address.
FreeRuns(fr, n) ==
  {r \in fr \X (n..NBlocks) :
     Run(r[1], r[2]) \subseteq fr /\ r[1] - 1 \notin fr /\ r[1] + r[2] \notin fr}

Fit(fr, n) ==
  {r[1] : r \in {x \in FreeRuns(fr, n) :
     \A y \in FreeRuns(fr, n) : x[2] < y[2] \/ (x[2] = y[2] /\ x[1] <= y[1])}}

Put(c, b, v) == [x \in DOMAIN c \cup {b} |-> IF x = b THEN v ELSE c[x]]

Idle == pc = "idle"

-----------------------------------------------------------------------------
(* A fresh image, after the flush_all at the end of Inner::create. *)

Init ==
  /\ mem = EmptyTable
  /\ ver = [f \in Files |-> 0]
  /\ dirty = {}
  /\ free = Blocks \ Run(1, SnapLen)
  /\ cache = [x \in {} |-> 0]
  /\ image = [b \in 0..NBlocks |->
                IF b = 0 THEN EmptyTable
                ELSE IF b <= SnapLen THEN SnapBlock(b, Blocks \ Run(1, SnapLen)) ELSE Junk]
  /\ msb = [alloc |-> 1, seq |-> 1, ok |-> TRUE]
  /\ sb = <<msb, msb>>
  /\ log = [seq |-> 1, inodes |-> [f \in {} |-> 0]]
  /\ pc = "idle"
  /\ snap = [at |-> 1, left |-> {}]
  /\ touched = {} /\ gone = {}
  /\ crashes = 0

\* A write to a file: in place, or to a new block.
Write(f) ==
  /\ Idle
  /\ ver[f] < MaxVer
  /\ ver' = [ver EXCEPT ![f] = @ + 1]
  /\ IF mem[f] # 0
     THEN /\ cache' = Put(cache, mem[f], Data(f, ver[f] + 1))
          /\ UNCHANGED <<mem, free>>
     ELSE \E b \in Fit(free, 1) :
            /\ mem' = [mem EXCEPT ![f] = b]
            /\ free' = free \ {b}
            /\ cache' = Put(cache, b, Data(f, ver[f] + 1))
  /\ dirty' = dirty \cup {f}
  /\ touched' = touched \cup {f}
  /\ UNCHANGED <<image, sb, log, msb, pc, snap, gone, crashes>>

\* drop_inode gives the block back and clears the slot in the cached table.
Table == IF 0 \in DOMAIN cache THEN cache[0] ELSE image[0]

Remove(f) ==
  /\ Idle
  /\ mem[f] # 0
  /\ free' = free \cup {mem[f]}
  /\ mem' = [mem EXCEPT ![f] = 0]
  /\ dirty' = dirty \ {f}
  /\ cache' = Put(cache, 0, [Table EXCEPT ![f] = 0])
  /\ touched' = touched \cup {f} /\ gone' = gone \cup {f}
  /\ UNCHANGED <<ver, image, sb, log, msb, pc, snap, crashes>>

\* One dirty block reaches the image: by eviction between calls, or in the
\* loop of BlockCache::flush, which has the order of a hash map.
WriteBack(b) ==
  /\ pc \in {"idle", "cache"}
  /\ b \in DOMAIN cache
  /\ image' = [image EXCEPT ![b] = cache[b]]
  /\ cache' = [x \in DOMAIN cache \ {b} |-> cache[x]]
  /\ UNCHANGED <<mem, ver, dirty, free, sb, log, msb, pc, snap, touched, gone, crashes>>

-----------------------------------------------------------------------------
(* flush_all. *)

\* Journal::begin and commit: the dirty inodes as they are in memory.
Commit ==
  /\ Idle
  /\ msb.seq <= MaxVer
  /\ IF Journaled
     THEN /\ log' = [seq |-> msb.seq + 1, inodes |-> [f \in dirty |-> mem[f]]]
          /\ msb' = [msb EXCEPT !.seq = @ + 1]
     ELSE UNCHANGED <<log, msb>>
  /\ pc' = "persist"
  /\ gone' = {}
  /\ UNCHANGED <<mem, ver, dirty, free, cache, image, sb, snap, touched, crashes>>

Saved(t) == [f \in Files |-> IF f \in dirty THEN mem[f] ELSE t[f]]

\* persist_inode for every dirty inode.
Persist ==
  /\ pc = "persist"
  /\ cache' = IF dirty = {} THEN cache ELSE Put(cache, 0, Saved(Table))
  /\ dirty' = {}
  /\ pc' = "cache"
  /\ UNCHANGED <<mem, ver, free, image, sb, log, msb, snap, touched, gone, crashes>>

\* Mutant of FreeForSnap: the new snapshot still counts its own blocks free.
FreeForSnapStale(fr, at) == fr

FreeForSnap(fr, at) == fr \ Run(at, SnapLen)

\* Mutant of OldSnap: one block too many is given back.
OldSnapLong ==
  IF image[msb.alloc].kind = "snap" /\ image[msb.alloc].part = 1
  THEN Run(msb.alloc, SnapLen + 1) \cap Blocks ELSE {}

\* write_alloc_blocks: the old snapshot is given back if its header is there,
\* the new one is allocated.
OldSnap ==
  IF image[msb.alloc].kind = "snap" /\ image[msb.alloc].part = 1
  THEN Run(msb.alloc, SnapLen) ELSE {}

\* Mutant of CacheFlushed: what follows does not wait for the cache.
CacheFlushedEarly == pc = "cache"

CacheFlushed == pc = "cache" /\ DOMAIN cache = {}

AllocSnap ==
  /\ CacheFlushed
  /\ \E at \in Fit(free \cup OldSnap, SnapLen) :
       /\ snap' = [at |-> at, left |-> Run(at, SnapLen)]
       /\ free' = FreeForSnap(free \cup OldSnap, at)
  /\ pc' = "snap"
  /\ UNCHANGED <<mem, ver, dirty, cache, image, sb, log, msb, touched, gone, crashes>>

WriteSnap ==
  /\ pc = "snap" /\ snap.left # {}
  /\ LET b == Min(snap.left) IN
     /\ image' = [image EXCEPT ![b] = SnapBlock(b - snap.at + 1, free)]
     /\ snap' = [snap EXCEPT !.left = @ \ {b}]
  /\ UNCHANGED <<mem, ver, dirty, free, cache, sb, log, msb, pc, touched, gone, crashes>>

\* Mutant of SnapDone: the superblock does not wait for the snapshot.
SnapDoneEarly == pc = "snap"

SnapDone == pc = "snap" /\ snap.left = {}

WriteSuperblock ==
  /\ SnapDone
  /\ msb' = [msb EXCEPT !.alloc = snap.at]
  /\ sb' = [sb EXCEPT ![1] = msb']
  /\ pc' = "backup"
  /\ UNCHANGED <<mem, ver, dirty, free, cache, image, log, snap, touched, gone, crashes>>

WriteBackup ==
  /\ pc = "backup"
  /\ sb' = [sb EXCEPT ![2] = msb]
  /\ pc' = "idle"
  /\ touched' = {}
  /\ UNCHANGED <<mem, ver, dirty, free, cache, image, log, msb, snap, gone, crashes>>

-----------------------------------------------------------------------------
(* Crashes and mounts. *)

\* The process dies.  Memory is lost; what it held is kept in mem, ver until
\* the mount only to be compared with.  A torn superblock is a second fault, and
\* both copies torn at once is beyond what a backup is for.
Crash ==
  /\ pc # "down"
  /\ crashes < Crashes
  /\ crashes' = crashes + 1
  /\ pc' = "down"
  /\ cache' = [x \in {} |-> 0]
  /\ \/ UNCHANGED sb
     \/ SnapDone /\ sb[2].ok /\ sb' = [sb EXCEPT ![1] = Torn]
     \/ pc = "backup" /\ sb' = [sb EXCEPT ![2] = Torn]
  /\ UNCHANGED <<mem, ver, dirty, free, image, log, msb, snap, touched, gone>>

\* Mutant of Chosen: the backup is not consulted.
ChosenPrimary == sb[1]

\* Inner::open falls back on the backup when the superblock does not decode.
Chosen == IF sb[1].ok THEN sb[1] ELSE sb[2]

\* read_alloc_blocks and Allocator::decode: only the first block is marked.
Loadable(at) == image[at].kind = "snap" /\ image[at].part = 1

\* The blocks after the first are the ones written with it.
Whole(at) == \A k \in 1..SnapLen : image[at + k - 1] = SnapBlock(k, image[at].free)

\* The free map read from blocks that do not belong together can be any.
FreeRead(at) == IF Whole(at) THEN {image[at].free} ELSE SUBSET Blocks

\* journal::replay skips transactions newer than the superblock and applies
\* none of the inodes it finds.
Replayed(t) == t

Mount ==
  /\ pc = "down"
  /\ Chosen.ok /\ Loadable(Chosen.alloc)
  /\ msb' = Chosen
  /\ free' \in FreeRead(Chosen.alloc)
  /\ mem' = Replayed(image[0])
  /\ dirty' = {}
  /\ cache' = [x \in {} |-> 0]
  /\ pc' = "idle"
  /\ touched' = {}
  /\ UNCHANGED <<ver, image, sb, log, snap, gone, crashes>>

Next ==
  \/ \E f \in Files : Write(f) \/ Remove(f)
  \/ \E b \in 0..NBlocks : WriteBack(b)
  \/ Commit
  \/ Persist
  \/ AllocSnap
  \/ WriteSnap
  \/ WriteSuperblock
  \/ WriteBackup
  \/ Crash
  \/ Mount

Spec == Init /\ [][Next]_vars

-----------------------------------------------------------------------------
(* Properties. *)

TypeOK ==
  /\ mem \in [Files -> 0..NBlocks]
  /\ ver \in [Files -> 0..MaxVer]
  /\ dirty \subseteq Files
  /\ free \subseteq Blocks
  /\ DOMAIN cache \subseteq 0..NBlocks
  /\ image[0] \in [Files -> 0..NBlocks]
  /\ \A i \in {1, 2} : sb[i].ok => sb[i].alloc \in Blocks
  /\ pc \in {"idle", "persist", "cache", "snap", "backup", "down"}
  /\ snap.left \subseteq Blocks

\* Whatever write a crash interrupts, the mount that follows finds a superblock
\* that decodes and, where it points, the first block of an allocator snapshot.
Mountable == pc = "down" => Chosen.ok /\ Loadable(Chosen.alloc)

\* A complete checkpoint leaves in the image the inode table, the contents and the
\* free blocks of memory: a crash at that moment loses nothing.
CheckpointComplete ==
  touched = {} /\ Idle /\ crashes = 0 =>
    /\ image[0] = mem
    /\ \A f \in Files : mem[f] # 0 => image[mem[f]] = Data(f, ver[f])
    /\ Loadable(Chosen.alloc) /\ image[Chosen.alloc].free = free

\* What the superblock counts as committed is in the inode table: every inode of
\* the transaction, as it was committed, but for a file removed since, of which
\* the table may have nothing.  Replay applies no inode of a transaction and
\* skips the ones the superblock does not count, so nothing else would bring
\* them back.
CommittedCheckpointed ==
  pc = "down" /\ Chosen.ok /\ log.seq <= Chosen.seq =>
    \A f \in DOMAIN log.inodes :
      image[0][f] = log.inodes[f] \/ (f \in gone /\ image[0][f] = 0)

\* A crash at any write of flush_all, or of an eviction before it, harms no file
\* but those written or removed since the last checkpoint: table entry and
\* contents of every other one are in the image, although the blocks of the old
\* snapshot and of removed files are being written again.
Durable ==
  pc = "down" /\ crashes = 1 =>
    \A f \in Files \ touched :
      image[0][f] = mem[f] /\ (mem[f] # 0 => image[mem[f]] = Data(f, ver[f]))

\* Until a crash, between calls, no block is both free and held, by a file or by
\* the allocator snapshot, and no two of them hold the same.
BlocksExclusive ==
  Idle /\ crashes = 0 =>
    /\ Run(msb.alloc, SnapLen) \cap (free \cup {mem[f] : f \in Files}) = {}
    /\ \A f \in Files : mem[f] # 0 =>
         mem[f] \notin free /\ \A g \in Files \ {f} : mem[g] # mem[f]

\* What every operation relies on between calls.
WellFormed == TypeOK /\ BlocksExclusive

\* README on SyncMode::Ordered: "file data is written before the inode update".
DataBeforeInode ==
  \A f \in Files :
    image[0][f] # 0 => image[image[0][f]].kind = "data" /\ image[image[0][f]].file = f
=============================================================================
