----------------------------- MODULE Namespace ------------------------------
(***************************************************************************)
(* Directories, link counts and the life of an inode (src/inner.rs), with  *)
(* the handles that keep an unlinked inode alive (src/file.rs, src/fs.rs,  *)
(* src/context.rs).  The engine runs one call at a time under its lock;    *)
(* opening a file takes the lock twice, so other threads run in between.   *)
(***************************************************************************)
EXTENDS Integers, Sequences, FiniteSets, Functions

CONSTANTS
  Names,       \* names of directory entries, "." and ".." aside
  Handles,     \* File values a program may hold
  MaxIno,      \* bound: inode numbers 1..MaxIno
  Guard,       \* steps after which is_ancestor gives up (4096 in the code)
  Programs     \* the programs considered, see Program below

ROOT_INO == 1

Inos == 1..MaxIno

\* threads  whether other threads run while one of them opens a file
\* clones   whether it calls File::clone
Program == [threads : BOOLEAN, clones : BOOLEAN]

ASSUME NamespaceAssumption ==
  /\ IsFiniteSet(Names)
  /\ IsFiniteSet(Handles)
  /\ MaxIno \in Nat \ {0}
  /\ Guard \in Nat
  /\ Programs \subseteq Program

VARIABLES
  prog,   \* the program that uses the engine, chosen once
  fs,     \* the engine: see Engine below
  handle  \* the handles; stale is set when the inode behind one is dropped

vars == <<prog, fs, handle>>

Kinds == {"none", "file", "dir"}

NoEntries == [n \in {} |-> 0]

\* kind       the inode's type, "none" if the inode does not exist
\* nlink      Inode::nlink
\* ents       the entries of a directory: name -> inode and its type
\* up         the inode its ".." entry names
\* free, next Inner::free_inodes and Superblock::next_inode
\* count      Superblock::inode_count
\* opens      Inner::open_count, 0 where the map has no entry
\* orphans    Inner::orphans
Mkfs ==
  [kind    |-> [i \in Inos |-> IF i = ROOT_INO THEN "dir" ELSE "none"],
   nlink   |-> [i \in Inos |-> IF i = ROOT_INO THEN 2 ELSE 0],
   ents    |-> [i \in Inos |-> NoEntries],
   up      |-> [i \in Inos |-> ROOT_INO],
   free    |-> <<>>,
   next    |-> 2,
   count   |-> 1,
   opens   |-> [i \in Inos |-> 0],
   orphans |-> {}]

Closed == [st |-> "closed", ino |-> ROOT_INO, stale |-> FALSE]

Dirs(s) == {i \in Inos : s.kind[i] = "dir"}

Has(s, p, n) == n \in DOMAIN s.ents[p]

-----------------------------------------------------------------------------
(* Entries, link counts, inodes. *)

\* Inner::dir_insert and Inner::dir_remove.
DirInsert(s, p, n, i, k) ==
  [s EXCEPT !.ents[p] = [m \in DOMAIN @ \cup {n} |->
                           IF m = n THEN [ino |-> i, ft |-> k] ELSE @[m]]]

DirRemove(s, p, n) == [s EXCEPT !.ents[p] = Restrict(@, DOMAIN @ \ {n})]

Inc(s, i) == [s EXCEPT !.nlink[i] = @ + 1]

\* saturating_sub
Dec(s, i) == [s EXCEPT !.nlink[i] = IF @ = 0 THEN 0 ELSE @ - 1]

\* Inner::alloc_inode: reuse the number freed last, or take a new one.
NextIno(s) == IF s.free = <<>> THEN s.next ELSE s.free[Len(s.free)]

\* Mutant of AllocInode: the number stays on the free list.
AllocInodeKeepsFree(s, k) ==
  LET i == NextIno(s) IN
  [s EXCEPT !.kind[i] = k,
            !.nlink[i] = IF k = "dir" THEN 2 ELSE 1,
            !.next = IF s.free = <<>> THEN @ + 1 ELSE @,
            !.count = @ + 1]

AllocInode(s, k) ==
  LET i == NextIno(s) IN
  [s EXCEPT !.kind[i] = k,
            !.nlink[i] = IF k = "dir" THEN 2 ELSE 1,
            !.free = IF @ = <<>> THEN @ ELSE SubSeq(@, 1, Len(@) - 1),
            !.next = IF s.free = <<>> THEN @ + 1 ELSE @,
            !.count = @ + 1]

\* Inner::drop_inode
DropInode(s, i) ==
  [s EXCEPT !.kind[i] = "none",
            !.nlink[i] = 0,
            !.ents[i] = NoEntries,
            !.up[i] = ROOT_INO,
            !.free = Append(@, i),
            !.count = IF @ = 0 THEN 0 ELSE @ - 1]

\* Inner::create_child, past its checks.
CreateChild(s, p, n, k) ==
  LET i == NextIno(s)
      a == AllocInode(s, k)
      b == IF k = "dir" THEN Inc([a EXCEPT !.up[i] = p], p) ELSE a
  IN DirInsert(b, p, n, i, k)

\* Mutant of UnlinkName: the inode goes although it is open.
UnlinkNameForced(s, p, n) ==
  LET a == Dec(DirRemove(s, p, n), s.ents[p][n].ino) IN
  IF s.ents[p][n].ft = "dir" THEN Dec(a, p)
  ELSE IF a.nlink[s.ents[p][n].ino] = 0 THEN DropInode(a, s.ents[p][n].ino) ELSE a

\* Inner::unlink_name, past its checks.
UnlinkName(s, p, n) ==
  LET e == s.ents[p][n]
      i == e.ino
      a == DirRemove(s, p, n)
      b == IF e.ft = "dir" THEN Dec(a, p) ELSE a
      c == Dec(b, i)
  IN IF c.nlink[i] # 0 THEN c
     ELSE IF c.opens[i] = 0 THEN DropInode(c, i)
     ELSE [c EXCEPT !.orphans = @ \cup {i}]

\* Mutant of LinkInto: the link is not counted.
LinkIntoUncounted(s, i, p, n) == DirInsert(s, p, n, i, s.kind[i])

LinkInto(s, i, p, n) == Inc(DirInsert(s, p, n, i, s.kind[i]), i)

\* Mutant of IsAncestor: only the directory and its parent are compared.
IsAncestorNear(s, d, child) == child = d \/ s.up[child] = d

\* Inner::is_ancestor follows ".." at most Guard times.
IsAncestor(s, d, child) ==
  LET chain[k \in 0..Guard] == IF k = 0 THEN child ELSE s.up[chain[k - 1]]
  IN \E k \in 0..Guard : chain[k] = d

\* Inner::rename, past its checks: replace the target, move the entry, and
\* let a directory that changes its parent point to the new one.
Rename(s, op, on, np, nn) ==
  LET e == s.ents[op][on]
      a == IF Has(s, np, nn) THEN UnlinkName(s, np, nn) ELSE s
      b == DirInsert(DirRemove(a, op, on), np, nn, e.ino, e.ft)
  IN IF e.ft = "dir" /\ op # np
     THEN Inc(Dec([b EXCEPT !.up[e.ino] = np], op), np)
     ELSE b

\* Mutant of DecOpen: the orphan is not dropped.
DecOpenLeaks(s, i) == IF s.opens[i] = 0 THEN s ELSE [s EXCEPT !.opens[i] = @ - 1]

\* Inner::dec_open
DecOpen(s, i) ==
  IF s.opens[i] = 0 THEN s
  ELSE LET a == [s EXCEPT !.opens[i] = @ - 1]
           b == [a EXCEPT !.orphans = @ \ {i}]
       IN IF a.opens[i] # 0 THEN a
          ELSE IF i \in s.orphans /\ s.nlink[i] = 0 THEN DropInode(b, i)
          ELSE b

-----------------------------------------------------------------------------
(* The calls. *)

\* Take on the engine state s and the handles h; a handle to an inode that
\* disappears in this step is stale from now on.
Become(s, h) ==
  /\ UNCHANGED prog
  /\ fs' = s
  /\ handle' = [x \in Handles |->
                  IF h[x].st # "closed" /\ fs.kind[h[x].ino] # "none"
                                        /\ s.kind[h[x].ino] = "none"
                  THEN [h[x] EXCEPT !.stale = TRUE] ELSE h[x]]

\* In a program with one thread nothing runs while a file is being opened.
Quiet == prog.threads \/ \A h \in Handles : handle[h].st # "resolved"

Init ==
  /\ prog \in Programs
  /\ fs = Mkfs
  /\ handle = [h \in Handles |-> Closed]

\* create_child of a file or a symlink, or of a directory.  The parent may be
\* a directory that was removed: a current directory, a dirfd, or a path
\* resolved before the lock was taken.
Create(p, n, k) ==
  /\ Quiet
  /\ ~ Has(fs, p, n)
  /\ NextIno(fs) \in Inos
  /\ Become(CreateChild(fs, p, n, k), handle)

Unlink(p, n) ==
  /\ Quiet
  /\ Has(fs, p, n)
  /\ fs.ents[p][n].ft # "dir"
  /\ Become(UnlinkName(fs, p, n), handle)

IsEmptyDir(s, d) == DOMAIN s.ents[d] = {}

Rmdir(p, n) ==
  /\ Quiet
  /\ Has(fs, p, n)
  /\ fs.ents[p][n].ft = "dir"
  /\ IsEmptyDir(fs, fs.ents[p][n].ino)
  /\ Become(UnlinkName(fs, p, n), handle)

Link(d, m, p, n) ==
  /\ Quiet
  /\ Has(fs, d, m)
  /\ fs.kind[fs.ents[d][m].ino] # "dir"
  /\ ~ Has(fs, p, n)
  /\ Become(LinkInto(fs, fs.ents[d][m].ino, p, n), handle)

MayReplace(src, dst) ==
  /\ src.ino # dst.ino
  /\ (src.ft = "dir") = (dst.ft = "dir")
  /\ dst.ft = "dir" => IsEmptyDir(fs, dst.ino)

Move(op, on, np, nn) ==
  /\ Quiet
  /\ Has(fs, op, on)
  /\ <<op, on>> # <<np, nn>>
  /\ fs.ents[op][on].ft = "dir" => ~ IsAncestor(fs, fs.ents[op][on].ino, np)
  /\ Has(fs, np, nn) => MayReplace(fs.ents[op][on], fs.ents[np][nn])
  /\ Become(Rename(fs, op, on, np, nn), handle)

\* open_opts and openat up to the point where they release the lock.
Resolve(h, p, n) ==
  /\ Quiet
  /\ handle[h] = Closed
  /\ Has(fs, p, n)
  /\ Become(fs, [handle EXCEPT ![h] = [st |-> "resolved", ino |-> fs.ents[p][n].ino,
                                       stale |-> FALSE]])

ResolveNew(h, p, n) ==
  /\ Quiet
  /\ handle[h] = Closed
  /\ ~ Has(fs, p, n)
  /\ NextIno(fs) \in Inos
  /\ Become(CreateChild(fs, p, n, "file"),
            [handle EXCEPT ![h] = [st |-> "resolved", ino |-> NextIno(fs), stale |-> FALSE]])

\* File::new takes the lock again and counts the handle.
New(h) ==
  /\ handle[h].st = "resolved"
  /\ Become([fs EXCEPT !.opens[handle[h].ino] = @ + 1],
            [handle EXCEPT ![h].st = "open"])

\* File::try_clone, which dup and dup2 use.
TryClone(h, k) ==
  /\ Quiet
  /\ handle[h].st = "open"
  /\ handle[k] = Closed
  /\ Become([fs EXCEPT !.opens[handle[h].ino] = @ + 1], [handle EXCEPT ![k] = handle[h]])

\* The derived File::clone copies the fields and counts nothing.
Clone(h, k) ==
  /\ Quiet
  /\ prog.clones
  /\ handle[h].st = "open"
  /\ handle[k] = Closed
  /\ Become(fs, [handle EXCEPT ![k] = handle[h]])

\* Dropping a File.
Close(h) ==
  /\ Quiet
  /\ handle[h].st = "open"
  /\ Become(DecOpen(fs, handle[h].ino), [handle EXCEPT ![h] = Closed])

Next ==
  \/ \E p \in Dirs(fs), n \in Names, k \in {"file", "dir"} : Create(p, n, k)
  \/ \E p \in Dirs(fs), n \in Names : Unlink(p, n)
  \/ \E p \in Dirs(fs), n \in Names : Rmdir(p, n)
  \/ \E p, d \in Dirs(fs), n, m \in Names : Link(d, m, p, n)
  \/ \E p, d \in Dirs(fs), n, m \in Names : Move(d, m, p, n)
  \/ \E h \in Handles, p \in Dirs(fs), n \in Names : Resolve(h, p, n)
  \/ \E h \in Handles, p \in Dirs(fs), n \in Names : ResolveNew(h, p, n)
  \/ \E h \in Handles : New(h)
  \/ \E h, k \in Handles : TryClone(h, k)
  \/ \E h, k \in Handles : Clone(h, k)
  \/ \E h \in Handles : Close(h)

Spec == Init /\ [][Next]_vars

-----------------------------------------------------------------------------
(* Properties. *)

Entry == [ino : Inos, ft : {"file", "dir"}]

EntryMaps == UNION {[D -> Entry] : D \in SUBSET Names}

TypeOK ==
  /\ prog \in Program
  /\ fs.kind \in [Inos -> Kinds]
  /\ fs.nlink \in [Inos -> Nat]
  /\ fs.ents \in [Inos -> EntryMaps]
  /\ fs.up \in [Inos -> Inos]
  /\ fs.free \in Seq(Inos \ {ROOT_INO})
  /\ fs.next \in 2..(MaxIno + 1)
  /\ fs.count \in Nat
  /\ fs.opens \in [Inos -> Nat]
  /\ fs.orphans \subseteq Inos
  /\ handle \in [Handles -> [st : {"closed", "resolved", "open"}, ino : Inos, stale : BOOLEAN]]

Live == {i \in Inos : fs.kind[i] # "none"}

\* Where the entries that name inode i are.
Links(i) == {l \in Dirs(fs) \X Names : Has(fs, l[1], l[2]) /\ fs.ents[l[1]][l[2]].ino = i}

Subdirs(d) == {l \in {d} \X Names : Has(fs, d, l[2]) /\ fs.ents[d][l[2]].ft = "dir"}

\* Link counts are what a fsck would compute: a file has one link per entry,
\* a directory one for its entry (the root for itself), one for its "." and one per
\* subdirectory.  saturating_sub never hides a miscount.
LinkCounts ==
  \A i \in Live :
    fs.nlink[i] = IF fs.kind[i] = "file" THEN Cardinality(Links(i))
                  ELSE 1 + Cardinality(Subdirs(i))
                         + (IF i = ROOT_INO THEN 1 ELSE Cardinality(Links(i)))

\* An entry names an inode that exists and has the type the entry records;
\* unlink and rename trust that type without reading the inode.
EntriesValid ==
  \A d \in Dirs(fs) : \A n \in DOMAIN fs.ents[d] :
    fs.kind[fs.ents[d][n].ino] = fs.ents[d][n].ft

\* Following ".." from d ends at the root.
RootAbove(d) ==
  LET chain[k \in 0..MaxIno] == IF k = 0 THEN d ELSE fs.up[chain[k - 1]]
  IN chain[MaxIno] = ROOT_INO

\* Renames never close a loop: from every directory, removed ones included,
\* ".." leads to the root, and a directory that has an entry has one only, in
\* the directory its ".." names.
TreeIntact ==
  /\ \A d \in Dirs(fs) : RootAbove(d)
  /\ \A d \in Dirs(fs) : \A l \in Links(d) : l[1] = fs.up[d]
  /\ \A d \in Dirs(fs) : Cardinality(Links(d)) <= 1
  /\ Links(ROOT_INO) = {}

\* A number handed out is free for nobody else: the numbers below next are the
\* live inodes and the free list, each once, and inode_count counts them.
InodeNumbers ==
  /\ IsInjective(fs.free)
  /\ Range(fs.free) \cap Live = {}
  /\ Range(fs.free) \cup Live = 1..(fs.next - 1)
  /\ fs.count = Cardinality(Live)

\* What the engine relies on without looking: types of entries, and numbers
\* that are used once.
WellFormed == TypeOK /\ EntriesValid /\ InodeNumbers

\* An orphan is an unlinked file with an open handle; nothing else has zero
\* links and still exists.
OrphansOpen ==
  /\ fs.orphans = {i \in Live : fs.nlink[i] = 0}
  /\ \A i \in fs.orphans : fs.kind[i] = "file" /\ fs.opens[i] > 0

\* README "unlink-while-open": the inode behind a handle exists, and it is the
\* one that was opened, until the handle is closed.
UnlinkWhileOpen == \A h \in Handles : handle[h].st = "open" => ~ handle[h].stale

\* In a program with one thread that does not call File::clone the promise
\* is kept: try_clone, dup, unlink, rename over an open file and close in any order.
HandlesKeepInode == ~ prog.threads /\ ~ prog.clones => UnlinkWhileOpen

\* open_count counts the handles, also when threads open files while others
\* unlink them; only the derived File::clone escapes the count.
OpensCounted ==
  ~ prog.clones =>
    \A i \in Inos : fs.opens[i] = Cardinality({h \in Handles : handle[h].st = "open" /\ handle[h].ino = i})

\* The life of an unlinked file: its orphan is kept exactly as long as the
\* handles that are counted.
OpenCounts == OrphansOpen /\ OpensCounted

\* README "Deletes free extents": an inode that no entry and no handle refers
\* to is gone, so that its number and its blocks can be used again.
DeletedIsFreed ==
  \A i \in Live : \/ i = ROOT_INO
                  \/ Links(i) # {}
                  \/ \E h \in Handles : handle[h].st # "closed" /\ handle[h].ino = i
=============================================================================
