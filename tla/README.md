# linuxfile: TLA+ models, model checks and proofs

`linuxfile` is a userspace Linux filesystem kept in one host file.  This
directory models its engine in TLA+, checks the models with TLC and proves the
central facts with TLAPS.  Paths below are relative to the repository.

## 1. Inventory

| Component | Source | State | Operations |
|---|---|---|---|
| Host image | `src/store.rs` | file contents, `len` | grow in 1 MiB steps, shrink, read/write block, fsync |
| Block cache | `src/cache.rs` | `map` (block -> data, dirty), `lru` | get, get_mut, insert_dirty, flush, drop_from, evict_one |
| Extent allocator | `src/alloc.rs` | `free` (start -> length), `total_blocks` | allocate (best fit, grow), free (coalesce), maybe_shrink, write/read_alloc_blocks |
| Journal | `src/journal.rs` | `seq`, `head`, log area | begin, write_inode, commit, replay |
| Superblock, inode format | `src/format.rs` | on-disk records | encode, decode |
| Inode table | `src/inner.rs` | `inodes`, `dirty_inodes`, `free_inodes`, `next_inode` | alloc_inode, drop_inode, persist_inode, grow_inode_table, rebuild_free_inodes |
| File data | `src/inner.rs`, `src/compress.rs` | inline bytes, extents, extent tree, record cache | write_data, read_data, truncate_data, store_record, set_inode_compression |
| Namespace | `src/inner.rs` | directory entries, `nlink`, `open_count`, `orphans` | create_child, unlink_name, link_into, rename, inc_open, dec_open |
| Path walk | `src/inner.rs`, `src/path.rs` | cursor, remaining components, symlink hops | walk |
| Mount, checkpoint | `src/inner.rs` | all of the above, the host file | create, open, flush_all, sync |
| Handles | `src/file.rs`, `src/fs.rs` | `ino`, `pos`, flags | open_opts, read, write, seek, try_clone, clone, drop |
| Process context | `src/context.rs` | fd table, cwd, root, umask | openat, dup, dup2, close, chdir, chroot, the `*at` calls |
| Permissions, types | `src/types.rs` | none | check_access, apply_umask |
| CRC, errors | `src/crc.rs`, `src/error.rs` | none | pure functions |
| Extended attributes | `src/inner.rs` | `xattr`, `xattr_block` | getxattr, setxattr, removexattr, store_xattrs |
| Library entry | `src/lib.rs` | none | options, re-exports, tests |

How they interact: every call of a `LinuxFile`, `File` or `Context` takes the
one lock around `Inner` (some calls take it twice), works on the inodes in
memory, takes blocks from the allocator and reads and writes them through the
block cache.  `flush_all` (called by `sync`, by `create` and when the last handle
is dropped) is the only operation that saves inodes: it writes the journal, the
inode table, all dirty blocks, a snapshot of the allocator, the superblock and its
backup, and then shrinks the host file.  `open` reads them back.

### Hard behaviours and what correctness means

* **Allocator**: long mixes of allocate, free, grow, shrink, checkpoint and mount.
  No block is handed out twice or lost; free extents never touch; a shrink cuts
  nothing off; the snapshot is sized before its own allocation and must still fit.
* **Block cache**: evictions at capacity, partial flushes, a checkpoint that writes
  around the cache.  It must look like a flat array of blocks.
* **File data**: a file crosses between four representations, and one cached record
  is shared by all files.  What was written is read back; every block has one owner.
* **Namespace**: link counts, renames of directories, inodes kept alive by open
  handles, and other threads between the two locks of an open.
* **Path walk**: `..`, absolute and relative symlinks, spliced again and again, from a
  root and a current directory that `chroot` and `chdir` move.  A process stays below
  its root, the walk agrees with a resolution component by component, and it ends.
* **Process**: descriptors numbered across `dup2`, offsets at the edge of their type,
  appends by several descriptors, and a flush that only the last reference performs.
* **Inode table**: it grows in pieces between the blocks of files, its slots are reused, its
  list of free numbers is rebuilt from them at every mount, and a flush can fail half way.
* **Tree operations**: `create_dir_all` and `remove_dir_all` lock once per step and work on
  what they saw earlier, while other threads change the tree.
* **Checkpoint**: crashes between any two writes, blocks written in the order of a
  hash map, torn superblocks.

`PROJECT.json` lists every hazard at its line, with the properties that watch it.

## 2. Modules

| Module | Models | Correspondence |
|---|---|---|
| `HostImage` | `store.rs` | the length of the host file: growth in steps, shrinking |
| `BlockSpace` | abstract | what an allocator promises: runs handed out, taken back, the end moved, nothing held twice or lost |
| `Allocator` | `alloc.rs`, and the users of blocks in `inner.rs` and `cache.rs` | `free`, `total`, `len` are the fields of the code; `used`, `dirty`, `stored` say who holds a block and where its contents are; `snap` is what `write_alloc_blocks` saved.  `Allocate`, `Free`, `Rewrite`, `Evict`, `FlushAll`, `Remount` |
| `AllocatorProofs` | | the TLAPS proofs about `Allocator` |
| `BlockStore` | abstract | a flat array of blocks and a saved snapshot; a block may be lost, alone |
| `BlockCache` | `cache.rs` | `map`, `lru`, the image and its length; one action per method; the host may refuse a write, in an eviction (`EvictFails`) or half way through a flush |
| `Namespace` | directories and inode life in `inner.rs`; handles in `file.rs`, `fs.rs`, `context.rs` | `fs` is the engine, `handle` the `File` values.  An open is two actions (`Resolve`, `New`), as the code locks twice |
| `FileData` | contents in `inner.rs`, `compress.rs`, encoding in `format.rs` | `fs` holds inodes, the record cache, free blocks and blocks; every call is a function on it.  `want` is what callers wrote; `spoilt` and `leaked` record the units and blocks that four faults of the code cost |
| `BlockCacheProofs`, `NamespaceProofs`, `ProcessProofs`, `CheckpointProofs`, `InodeTableProofs` | | the TLAPS proofs about these five; `NamespaceProofs` holds those about `TreeOps` too |
| `DataFacts` | | lemmas the proofs share: induction and recursion over the naturals, powers of two, queues that list a set |
| `Checkpoint` | `flush_all`, `journal.rs`, superblock and mount | `pc` is the place in `flush_all`; every write to the host is a step.  `touched` and `gone` are histories of what was written or removed |
| `PathWalk` | `walk` in `inner.rs`, `path.rs`, and its callers in `context.rs` | `w` is the innermost activation of `walk` (`dir`, `comps`, `i`, `hops`), one action per arm of its `match`; `proc` is a `Context`; `call` the system call being executed.  A recursive call replaces `w`, as it is a tail call |
| `PathWalkProofs` | | the TLAPS proofs about it: it is well typed, and a process stays below its root |
| `Process` | `Context`'s descriptors, `File`'s offsets, `LinuxFile::drop` | `lf` are the `LinuxFile` values, `fds` and `next` the descriptor table, `data` and `image` the file in memory and on disk, as the tokens written; `seen` is what a descriptor has read.  Dropping a `LinuxFile` is two actions (`DropCheck`, `Release`), since the count is read before the reference goes |
| `TreeOps` | `create_dir_all`, `remove_dir_all` in `fs.rs`, over `Namespace` | `th` are the threads with their call stacks, `order` the entry lists; an action is one hold of the lock |
| `InodeTable` | the table, numbers and xattrs in `inner.rs`, what `format.rs` keeps of them | `st` holds table extents, free blocks, blocks and the inodes in memory; `numbers` is `free_inodes`, `next_inode`, `inode_count`; `live` is what callers made.  `Foreign` is what the blocks of files look like when they are read as inodes |

`MC...` modules instantiate these for TLC.  `Allocator` implements `BlockSpace`
(`ImplementsBlockSpace`) and `BlockCache` implements `BlockStore`
(`ImplementsBlockStore`); `FileData` and `Checkpoint` are written over those two
promises: blocks are a flat array and the free blocks a set, taken best fit.  `InodeTable` is
written over the same two.  `TreeOps` extends `Namespace` and calls its operators.

Abstractions.  Block contents are model values.  In `FileData` a block is
two units, a record two blocks, one unit fits an inode; whether LZ4 saves a block
is a free choice at every store.  An image is new and zeroed, or used: then its free blocks begin with old records.
In `Checkpoint` a file owns one block and the inode
table is one block; in `InodeTable` a block has two slots and one extended attribute fits
a block.  In `PathWalk` a path is its sequence of components, and the tree stands still
during a walk, which holds the lock; whether a directory may be searched is part of the tree.
In `Process` offsets have `Bits` bits and there is one file.  The other permissions, times, names' bytes and
`st_blocks` are left out.

`Namespace` has a variable `prog` that never changes: what kind of program uses the library, with
several threads or one, with or without `File::clone`.  Some promises hold for some programs only.

## 3. Runs

| Run | Shows | Bounds |
|---|---|---|
| `allocator` | free map coalesced, space partitioned, nothing stored or saved is cut off, the snapshot readable and complete; refinement of `BlockSpace` | 8 blocks, requests up to 2, growth by 2, slack 1: growth with a remainder, shrinking and snapshots of several blocks (4 units each) all happen |
| `cache` | refinement of `BlockStore`; queue and map agree, capacity; snapshot intact; dirty data reaches the image unless the host refuses that very block | 3 cached blocks for a capacity of 2, two values |
| `namespace` | link counts, entries, tree, inode numbers, orphans and open counts in every program; unlink-while-open in a program with one thread that uses `try_clone` only | 4 inodes (a chain of three directories below the root), 2 names, 2 handles |
| `file_data` | read-back, holes, block ownership, order of extents, inline sizes, compressed or not, on a new and on a used image | two files of up to 5 units (two records), 10 blocks, writes of up to 2 units, one direct extent, so that two extents need a tree; 5 calls (`MaxOps`) on a new image without compression, which the first may switch on; 4 on a used or compressed one (`MaxUsed`); one less once both files are in use (`MaxShared`), where what matters is who gets whose block or record |
| `checkpoint` | checkpoints are complete; the first crash leaves a mountable image whose table holds all that its superblock counts, and harms no file that was not being changed; nothing shares a block | two files, 4 blocks, 3 checkpoints, one crash |
| `path_walk` | a process stays below its root; `walk` agrees with the reference `Lookup` of `MCPathWalk`; it returns when no symlink leads to itself | 3 directories, a file and 2 symlinks; 12 trees whose targets are relative, absolute, empty, climbing, chained, dangling and cyclic, one with a directory that may not be searched; 24 paths; `SYMLOOP_MAX` 3 |
| `process` | nothing is lost when handles are dropped one after the other; appends and reads in order; sizes bounded; fresh descriptors | two handles, two descriptors numbered up to 5, 3-bit offsets and `MAX_SZ` 3, so that wrapping is possible; 2 writes |
| `tree_ops` | makers of overlapping paths succeed; of removers of one path one succeeds and nothing is left; every call returns | 3 threads, paths of one or two names, four trees of up to four entries, a file in the way in two of them |
| `inode_table` | inodes and attributes survive; numbers used once; every block has one owner | 4 inodes in blocks of 2, 6 blocks, two attributes of which one fits a block, 2 extents in the superblock; a file holds one block at a time (`MaxData`), which attributes and earlier growth spread over the image, with bytes that read as an inode in every slot |
| `lost_inodes` | violation: an inode of an extent the superblock has no room for is lost by a reopen | as above with 1 extent in the superblock |
| `symlink_loop` | violation: a walk does not return | the trees of `path_walk`, no descriptors |
| `tree_loss` | violation: what was written is not read after a checkpoint | one file on a new image, otherwise as `file_data` |

A model step is one call of the code, or one hold of the lock, or one write to the
host, and every bound is a named constant
(`MaxBlocks`, `MaxIno`, `MaxOps`, `NBlocks`, `MaxVer`, `Crashes`, `MaxFds`, `MaxOpen`, `MaxWrites`, ...).
In `InodeTable` the bound of 16 extents is `MaxExts`: the passing run has room for every extent
that 6 blocks can make, the violation does not.
`CHECK_DEADLOCK FALSE` is set where a behaviour ends at a bound: `Namespace` when the inode
numbers are used up (removed directories are never freed), `FileData` after
`MaxOps` calls, `Checkpoint` after the last version, or with an image that does not mount, and `TreeOps`
when all calls have returned.  The others never stop.

`WellFormed` is, in each module that has it, the type invariant together with the facts that the
operations rely on without checking.

### Fairness

The engine runs nothing in the background, so fairness is assumed of threads in the middle of
a call only.  `PathWalk!Spec` has `WF_vars(Step)`: a thread inside `walk` holds the lock and
waits for nobody.  `TreeSpec` has weak fairness for every thread: each step is one acquisition of
the engine's lock, which every holder releases after a bounded piece of work.  Nothing else, and
in particular no call being made, is assumed to happen.

### Known losses in `FileData`

The code loses data or blocks in four places (section 6).  The model takes those calls as the code
does, and nothing forbids them.  So that the properties can still say something, the places are named by
their conditions in the code: `StaleInNew` and `StaleTail` (`inner.rs:911`, a block that is not zeroed),
`Stranded` (`:454`, a tree behind an inline file; `Drop` at `:348`), `CutOff` (`:1060`, an inline file
past `INLINE_MAX`) and `Misread` (`:667`, a raw block that looks like a record).  The history variables
`spoilt` and `leaked` collect the units and blocks concerned, no step depends on them, and a
unit that is written again leaves `spoilt`.  `ReadBack`, `HolesReadZero`, `BlocksAccounted` and
`InlineCoversSize` hold of every other unit and block: the harm is no wider than stated, it never reaches another file, and
a lost block is never handed out again.  `EveryByteKept` and `EveryHoleZero` are the same promises
without exception; both fail (`tree_loss`, `MCFileDataHole.cfg`).

Each property has a mutant in `PROJECT.json`: a changed definition, kept beside the
original in the module, under which TLC finds the property violated.

## 4. Proofs

`AllocatorProofs` proves, for every geometry that satisfies `AllocatorAssumption`
(at least two blocks of room for the inode table, a slack of at least two units for
the snapshot) and `HostImage`'s assumption on the growth step:

* `AllocatorTypes`: `TypeOK`;
* `NoDoubleAllocation`: `Partition`;
* `AlwaysCoalesced`: `Coalesced`;
* `ShrinkKeepsContents`: `StoredInImage`;
* `SnapshotSound`: `SnapshotUsable` (the snapshot is inside the image and complete);
* `AllocatorRefinesBlockSpace`: the allocator implements `BlockSpace`.

The inductive invariant `Inv` strengthens the partition by three facts without which
it is not preserved.  Free extents are separated: `Allocator::free` looks only at the
extents that touch the freed run, and two touching ones would make the joined
extent overlap a third.  The snapshot on disk is itself a separated partition
with its own set of held blocks: `Remount` installs it.  And the snapshot's blocks are held: the
next checkpoint gives them back.  The argument goes operation by operation:
`CarveGood`, `GrowGood`, `FreeGood` (from `JoinPrevGood` and `JoinNextGood`) and `ShrinkGood`
say that each keeps a good map good; `AllocateSize` and `SnapBlocksBound` bound the number
of extents by cardinality; then one lemma per action, and `NextInv`.  The refinement follows because
under `Inv` the blocks of the free map are the complement of the held ones
(`Complement`), so each action is a `Take`, `Give`, `Move` or stutter of `BlockSpace`.

`PathWalkProofs` proves `StaysJailed`: `Spec => []Jailed` for every set of trees that satisfies
`PathWalkAssumption` (a directory has one entry, in the directory its `..` names; the root
is its own parent), every set of paths and every bound.  The inductive invariant adds to `Jailed` the types of
the state and that no walk is active between calls.  The argument is about subtrees: the inodes below a
directory are the least set that holds it and, with a directory, its entries (`BelowDef`);
so a child of an inode below the root is below it (`BelowChild`), and so is the parent of one that is
not the root itself (`BelowUp`), since without it and its subtree the set would still be closed.  From that
each arm of `walk` keeps the walk inside (`AdvanceKeeps`, `WalkKeeps`, `StepKeeps`), and the system calls
only install what a walk found (`ProcKeeps`).  The condition `~ leaky` is needed: a directory that was open before
`chroot` leads out of the new root, in Linux as here.
`WalkTypes` proves `TypeOK` of the same module: with the paths typed, `walk` stands at a component of its
path or at its end, also after a symlink was spliced into it (`RestType`).

`ProcessProofs` proves `WellFormed`, `NothingLost`, `AppendsKept`, `ReadsInOrder` and `FreshFd` for
any number of handles, descriptors and writes, any width of an offset and any `MAX_SZ` that the
offsets can exceed (`ProcessAssumption`).  `NothingLost` is not inductive: it speaks of a state in which
everything is gone.  `DropInv` carries it through `LinuxFile::drop`: while handles go one after the
other at most one is between its check of the count and its release, and once no handle is live the
image is up to date and no descriptor is open, because the handle that went last saw a count of one
(`CountFacts`).  `WellFormed` needs the bound on the size of the saved file too, since a mount loads it.
`ReadsInOrder` compares bytes: `seen`, what a descriptor that was never moved has read, is the beginning of what was appended
(`InOrder`).  It is inductive with `AppendsKept`: an append only extends the file, and a read continues where `seen` ends.

`BlockCacheProofs` proves `WellFormed`, `SnapshotIntact`, `DirtyReachesImage` and
`Refinement` (`Spec => ImplementsBlockStore`) for any capacity, growth step and number of blocks.  The invariant
adds three facts: a clean entry agrees with the image unless the block was given up (so an eviction
that drops it loses nothing), the image is zero past its end (so a block that is read
after growth reads as one never written), and the place of the snapshot is not dirty in the cache (so no
write-back lands on it).  Every method is a function on the record of map, queue, image and length, and
keeps `Sound` and, for every block it is not called for, what a reader gets (`Keeps`); a flush does so
for any set of blocks it has written when it stops.  A write that fails in an eviction (`EvictFailsStep`) does it for all blocks but the
victim (`Loses`), which is a `Lose` of `BlockStore`.
The refinement then needs one case per action.

`NamespaceProofs` proves `WellFormed`, `LinkCounts`, `OpenCounts`, `HandlesKeepInode` and `TreeIntact`
for any number of inodes and any finite sets of names and handles.  `Basic` says of an engine,
taken as a value, that its entries are valid, its numbers are live, free or not yet given out, its link counts are the ones a
`fsck` would compute, and a directory has at most one entry.  It holds between any two calls; inside a call
it does not (an entry is gone and its link count is still to be lowered), so each operation is followed through its
intermediate states by lemmas on what one entry more or less does to the two cardinalities a link count is made of.  `rename` is
the largest case: it may drop a target, move an entry, change `..` and move a link from one parent to the other, within
one directory or between two.  `Orph` adds which inodes are orphans, and the handles' part that `open_count` counts
them and that a counted handle's inode is the one opened.  `Acyclic` is the
invariant behind `TreeIntact`: no set of directories below the root is closed under `..`.  In this form it is
preserved by a move without an induction on paths: a closed set after the move must have the moved
directory in it, and then all of the target's ancestors, which `is_ancestor` has just shown not to include it.
`TreeIntactHolds` has the hypothesis `Guard + 1 >= MaxIno`: `is_ancestor` gives up after `Guard` steps (4096) and then
answers no, so in a deeper tree a directory can be moved below itself.

It also proves the invariants of `TreeOps`, `TreeTypeOK`, `MakersSucceed` and `RemoversWin`, for any number of threads, any paths and any
initial trees that a list of successful creations builds (`Buildable`, in `TreeOpsAssumption`; `BuiltHolds` shows that such a
list does build a well-formed engine).  They rest on `Basic` and on the lemmas about single calls; what is new is paths and threads.  `AtIn` is
the walk to a path, by recursion on its length, and facts about paths go by `PathInduct`.  For makers, `MakeInv` says
that every prefix below a thread's level is a directory, and so is the one it is about to look at after an `EEXIST`; when all
threads make, the engine only grows (`Grown`), so what one thread relies on no other takes away.  `RemoversWin` is harder, as a
remover may fail and leave the rest to others.  In `RemoveInv` every frame of every call stack knows that
what is still in the directory's list is the rest of what it listed (`Rest`): every thread takes the entries from the front, so
the others' lists lose their front only (`Popped`).  The thread that removed last is `Fresh`: all it has listed and not yet removed is still
there (`Whole`), so its next call cannot fail.  A removal by another thread keeps every call's part (`CallKept`) and makes
that thread the fresh one (`RemoverFresh`).  There is always a fresh thread or one that has returned Ok, and so not all can fail.

`CheckpointProofs` proves `WellFormed`, `CheckpointComplete`, `CommittedCheckpointed` and `Durable` for any number of files, blocks,
versions and crashes, any length of the snapshot, with and without a journal.  The invariant has three parts.  `Shape`: types, and every place a
superblock names has room for a snapshot inside the image.  `Logged`: how the last transaction of the journal, the table and the two
superblocks stand to each other at each phase of `flush_all`, and after a crash at any of them; a
transaction that is not in the table yet is newer than both superblocks.  `Intact`, before the first crash: blocks are held once
(`Exclusive`), what a reader of the cache gets for a block of a file, or for a clean inode, is its present contents
(`Stored`), and the blocks of the snapshot that are not left to write are written (`SnapWritten`).
`Durable` rests on the same part, with `Untouched`: of a file outside `touched` the table entry and the contents are in the image, and no cached block has anything else to say of it.  `MountableHolds` proves `Mountable` up to the first crash for `SnapLen = 1`.  Both conditions
are needed, and TLC shows it: a snapshot of two blocks can be placed across its predecessor, which the superblock still names, and a second crash can find the
backup naming a snapshot that was reused (section 6).

`InodeTableProofs` proves `WellFormed`, `InodesKept` and `BlocksOwned` for any number of inodes per block, blocks, names
and values, under one hypothesis, `Room`: `MaxIno < 2 * PerBlock * MaxExts`.  The superblock keeps `MaxExts` extents of the table (16), an
extent has at least two blocks, a block 16 inodes: 511 inodes always fit, and the run `lost_inodes` loses
one with the least number that violates `Room`.  As in the other proofs the state is a value: `Sound(s, L, U, d, Z)` says of the engine `s`
that the inodes `L` exist, all of them but `U` have been saved, and file contents hold the blocks `d`.  It has parts that the properties do not name.
`IsTable`: the extents continue each other, so that `map_extents` finds exactly one block for a table block (`MappedAt`), and
no two numbers share a slot (`SlotsDiffer`).  `Needed`: the table grew only when it was full, from which `KeptAll` gets
that `KeptExtents` drops nothing.  `Slots`: the slot of an inode names the block of its attributes, that of a dropped inode (`Z`) is unused,
since `drop_inode` zeroes it.  Slots of numbers never given out, and all slots of blocks outside of the table, may hold anything, also what
reads as an inode: the table grows for one number at a time and `persist_inode` overwrites the slot whole, and the list that a mount rebuilds stops at
`next_inode`.  `Owned`: the blocks.  `PersistKeeps` says that
`persist_inode` moves one inode out of `U`; `PersistedKeeps` carries it through the loop of `flush_all`, for every order of the inodes and every
set of them saved before an error (`SavesExist` shows that the recursion over sets has a solution at all).  `RebuiltIs`
shows that the list a mount builds from the slots is the free list again.

`DataFacts` supplies what these proofs share.  Induction over the naturals is stated about a set instead of an
operator (`NatInduct`, from the library's theorem that the subsets of a finite set are well-founded), and so the
existence of a recursive function can be proved too (`RecursionExists`).

### Only model-checked

* `FileData`: its operations fold over sequences of extents and records and sort them; the provers have no facts about the folds.
* `WalkAgrees`: its reference `Lookup` is a RECURSIVE operator.
* Liveness (`ReturnsAcyclic`, `AllReturn`): out of reach of this prover.

## 5. Not modelled

* `chmod`, `chown`, `umask`, times and the access checks other than search: pure predicates on
  mode bits, switched off unless a `Context` enables them.
* `LinuxFile::copy`, `read`, `write`, `canonicalize` and other calls composed of modelled ones.
* Opening an image whose last `flush_all` failed with ERANGE and was ignored by `LinuxFile::drop` (`fs.rs:598`): such an image is that
  of a crash in `flush_all`, which `Checkpoint` models.  `InodeTable` has the failing flush and its repetition, and reopens after one that succeeded.
* Host I/O errors inside `flush_all`, a journal area too small for a transaction, and its wrap-around.
* The bytes of records: CRC32 and LZ4 are external; a checksum tells whole from torn, compression saves a block
  or does not.  The backup superblock is read where it was written, although the code computes its place from
  the primary that did not decode.
* A changing tree during a walk: the lock is held.  What happens to a resolved inode after the lock is released
  is `Namespace`.

## 6. Disagreements between code and documentation

Three have a run and are described under `findings`: `lost_inodes`, `symlink_loop` and `tree_loss`.  The others were
met on the way.  Those with a `.cfg` of their own are reproduced by running it, the rest by changing
constants or the specification of one:

| What | Where | How to see it |
|---|---|---|
| An unlink between the two locks of an open drops the inode under the new handle | `fs.rs:196` | `MCNamespaceRace.cfg`, `UnlinkWhileOpen` |
| A new block, or the rest of a cut-off block, is read as a hole without having been zeroed; README says "Reads in the hole return zeros." | `inner.rs:911` | `MCFileDataHole.cfg`, `EveryHoleZero` |
| A file whose extent tree is on disk and which is truncated into the inode loses its contents at the next checkpoint and remount | `inner.rs:454` | run `tree_loss`, `EveryByteKept` |
| Dirty blocks are written in the order of a hash map, so the table may reach the image before the data; README says of `Ordered` "file data is written before the inode update" | `cache.rs:94` | `MCCheckpointOrdered.cfg`, `DataBeforeInode` |
| Two handles dropped at once each see the other's reference, and a descriptor that outlives the last `LinuxFile` keeps one: nobody flushes; README says "Persist on `sync()` or when the last `LinuxFile` handle is dropped" | `fs.rs:596` | `MCProcessLast.cfg`, `LastHandleSaves` |
| The flush of the last handle ignores its error | `fs.rs:598` | `DropCheck` has no error to report |
| `setxattr` accepts attributes that do not fit a block; every `flush_all` then fails with ERANGE until they are removed | `inner.rs:517` | `SyncFails` in `InodeTable` |
| A failed write during an eviction loses the dirty block | `cache.rs:38` | `EvictFails` in `BlockCache` and `Lose` in `BlockStore`; `DirtyReachesImage` without its exception for `junk` |
| `File::clone` does not count the handle, so closing one copy drops an unlinked inode under the other | `file.rs:10` | `Programs <- AllPrograms`, `UnlinkWhileOpen` |
| A removed directory keeps one link and is never freed | `inner.rs:1473` | `DeletedIsFreed` |
| An inline file grown by truncation stays inline, and only 128 bytes are saved | `inner.rs:1060` | `InlineCoversSize` without its exception `spoilt` |
| A deleted file may leave its extent tree allocated | `inner.rs:348` | `MCFileData.cfg` with the invariant `leaked = {}` |
| A raw block that begins with an old record header is taken for a record | `inner.rs:667` | `MCFileData.cfg` with the invariant `\A f \in Files : Misread(fs, f) = {}`: what a `Remount` then gets wrong is `MisreadUnits` |
| A snapshot of several blocks may overwrite its predecessor before the superblock moves | `alloc.rs:216` | `NBlocks = 6`, `SnapLen = 2`, `Mountable` |
| After a crash between superblock and backup, the backup names a snapshot that is reused | `inner.rs:1749` | `Crashes = 2`, `Mountable` |
| The table is saved before the allocator, so that after a crash a held block may be free | `inner.rs:1740` | `BlocksExclusive` without its condition `crashes = 0` |
| Committed transactions newer than the superblock are skipped and inode records are never applied | `journal.rs:127`, `:188` | `Replayed` is the identity |
| The commit record is written before the data | `inner.rs:1729` | `Commit` needs no empty cache |
| `lseek` with SEEK_SET takes a negative offset for a huge one instead of EINVAL | `context.rs:197` | `SeekTo` in `Process` |
| `dup` and `dup2` make a descriptor with an offset of its own, at 0 | `context.rs:222` | `Dup` in `Process` |
| New descriptors are numbered upwards, never the lowest free number | `context.rs:71` | `AllocFd` in `Process` |
| A trailing `.` behind a symlink or file is dropped, so `f/.` resolves where Linux says ENOTDIR | `inner.rs:1274`, `:1331` | `StepCur` and `Rest` in `PathWalk` |

## 7. Plan

1. Done: allocator, block cache, namespace, process, checkpoint and inode table, with proofs of all their checked
   properties; tree operations, with proofs of their invariants; path walk with the proofs of its type and
   that it stays below the root; file data.
2. Models: host I/O errors and the size of the journal inside `flush_all`; permissions.
