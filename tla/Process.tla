------------------------------ MODULE Process -------------------------------
(***************************************************************************)
(* The values a program holds the engine by, and what it does with them:   *)
(* LinuxFile handles (src/fs.rs), one Context with its descriptors         *)
(* (src/context.rs) and the File in each descriptor (src/file.rs), open on *)
(* one file.  Each value owns a reference of the Arc around the engine;    *)
(* dropping a LinuxFile reads the reference count before it gives its own  *)
(* reference back, and other threads run in between.                       *)
(***************************************************************************)
EXTENDS Integers, Sequences, FiniteSets, Functions

CONSTANTS
  Users,    \* the LinuxFile values besides the one inside the Context
  Ctx,      \* the LinuxFile inside the Context
  MaxFd,    \* bound: descriptors FirstFd..MaxFd
  MaxOpen,  \* bound: descriptors open at a time
  Bits,     \* width of an offset: u64 and i64 in the code
  MAX_SZ,   \* largest file
  Seeks,    \* the offsets and origins lseek is called with
  MaxWrites \* bound: calls that change the file

FirstFd == 3

Lfs == Users \cup {Ctx}

\* u64 and i64
Unsigned == 0..(2^Bits - 1)
Signed == -(2^(Bits - 1))..(2^(Bits - 1) - 1)

ASSUME ProcessAssumption ==
  /\ Ctx \notin Users
  /\ Users # {} /\ IsFiniteSet(Users)
  /\ MaxFd \in Nat /\ MaxFd >= FirstFd /\ MaxOpen \in Nat
  /\ Bits \in Nat \ {0, 1}
  /\ MAX_SZ \in Nat /\ MAX_SZ < 2^Bits - 1
  /\ Seeks \subseteq Signed \X {"SET", "CUR", "END"}
  /\ MaxWrites \in Nat

VARIABLES
  lf,      \* the LinuxFile values: "none", "live", or "dropping" inside drop
  fds,     \* Context::fds
  next,    \* Context::next_fd
  data,    \* the file as the engine has it, the tokens written, 0 for a hole
  image,   \* the file as the image has it
  clock,   \* the last token written
  appends, \* history: the tokens written through O_APPEND descriptors
  plain,   \* history: the file was changed in another way
  hasty    \* history: a handle was dropped while another was being dropped,
           \* or the last one while a descriptor was open

engine == <<data, image, clock, appends, plain>>
vars == <<lf, fds, next, engine, hasty>>

\* How a descriptor was opened: O_RDONLY, O_WRONLY, O_RDWR | O_APPEND.
Modes == {"r", "w", "a"}

\* seen and moved are history: the tokens read, and whether anything but read
\* changed the position.
NewFile(m) == [mode |-> m, pos |-> 0, seen |-> <<>>, moved |-> FALSE]

NoFds == [n \in {} |-> NewFile("r")]

\* Arc::strong_count
Count == Cardinality({u \in Lfs : lf[u] # "none"}) + Cardinality(DOMAIN fds)

Init ==
  /\ lf = [u \in Lfs |-> "none"]
  /\ fds = NoFds
  /\ next = FirstFd
  /\ data = <<>> /\ image = <<>>
  /\ clock = 0
  /\ appends = <<>>
  /\ plain = FALSE
  /\ hasty = FALSE

-----------------------------------------------------------------------------
(* Handles. *)

\* LinuxFile::open: the engine starts from what the image holds.
Mount(u) ==
  /\ Count = 0
  /\ lf' = [lf EXCEPT ![u] = "live"]
  /\ data' = image
  /\ appends' = image /\ plain' = FALSE
  /\ hasty' = FALSE
  /\ UNCHANGED <<fds, next, image, clock>>

\* LinuxFile::clone, and LinuxFile::context, which makes a Context.
CloneHandle(u, v) ==
  /\ lf[u] = "live"
  /\ lf[v] = "none"
  /\ v = Ctx => fds = NoFds
  /\ lf' = [lf EXCEPT ![v] = "live"]
  /\ next' = IF v = Ctx THEN FirstFd ELSE next
  /\ UNCHANGED <<fds, engine, hasty>>

\* Mutant of IsLast: the reference of the handle itself is forgotten.
IsLastOfNone == Count = 0

\* The test in LinuxFile::drop.
IsLast == Count = 1

\* LinuxFile::drop: the last holder saves everything.  A Context drops its
\* LinuxFile before its descriptors.
DropCheck(u) ==
  /\ lf[u] = "live"
  /\ lf' = [lf EXCEPT ![u] = "dropping"]
  /\ image' = IF IsLast THEN data ELSE image
  /\ hasty' = (\/ hasty
               \/ \E v \in Lfs : lf[v] = "dropping"
               \/ fds # NoFds /\ \A v \in Lfs \ {u} : lf[v] = "none")
  /\ UNCHANGED <<fds, next, data, clock, appends, plain>>

\* ... and then its reference goes.
Release(u) ==
  /\ lf[u] = "dropping"
  /\ lf' = [lf EXCEPT ![u] = "none"]
  /\ UNCHANGED <<fds, next, engine, hasty>>

\* The descriptors of a dropped Context, in their order.
DropFd(n) ==
  /\ lf[Ctx] = "none"
  /\ n \in DOMAIN fds /\ \A m \in DOMAIN fds : n <= m
  /\ fds' = Restrict(fds, DOMAIN fds \ {n})
  /\ UNCHANGED <<lf, next, engine, hasty>>

\* LinuxFile::sync, and fsync on a descriptor.
Sync(u) ==
  /\ lf[u] = "live"
  /\ image' = data
  /\ UNCHANGED <<lf, fds, next, data, clock, appends, plain, hasty>>

-----------------------------------------------------------------------------
(* Descriptors. *)

Live == lf[Ctx] = "live"

\* Mutant of AllocFd: numbers taken by dup2 are not skipped.
AllocFdBlind == next

\* Context::alloc_fd: the first number from next_fd on that is not in use.
AllocFd == CHOOSE n \in next..(next + Cardinality(DOMAIN fds)) :
             /\ n \notin DOMAIN fds
             /\ \A m \in next..(n - 1) : m \in DOMAIN fds

Room(n) == n \in DOMAIN fds \/ Cardinality(DOMAIN fds) < MaxOpen

Put(n, f) == [m \in DOMAIN fds \cup {n} |-> IF m = n THEN f ELSE fds[m]]

Insert(f) ==
  /\ AllocFd <= MaxFd /\ Room(AllocFd)
  /\ fds' = Put(AllocFd, f)
  /\ next' = AllocFd + 1
  /\ UNCHANGED <<lf, engine, hasty>>

Open(m) == Live /\ Insert(NewFile(m))

\* File::try_clone: the new File starts at 0.
Dup(n) == Live /\ n \in DOMAIN fds /\ Insert(NewFile(fds[n].mode))

\* dup2 replaces what new was; next_fd stays.
Dup2(n, new) ==
  /\ Live
  /\ n \in DOMAIN fds /\ n # new /\ Room(new)
  /\ fds' = Put(new, NewFile(fds[n].mode))
  /\ UNCHANGED <<lf, next, engine, hasty>>

Close(n) ==
  /\ Live
  /\ n \in DOMAIN fds
  /\ fds' = Restrict(fds, DOMAIN fds \ {n})
  /\ UNCHANGED <<lf, next, engine, hasty>>

-----------------------------------------------------------------------------
(* Files. *)

Lesser(a, b) == IF a < b THEN a ELSE b

\* read_data: how many of len bytes there are at pos.
Available(pos, len) == IF pos >= Len(data) THEN 0 ELSE Lesser(Len(data) - pos, len)

\* What a read of len bytes at pos puts into the buffer.
Fetched(pos, len) == [i \in 1..Available(pos, len) |-> data[pos + i]]

\* What the reader of f has got after a read of len bytes.
Seen(f, len) == IF f.moved THEN <<>> ELSE f.seen \o Fetched(f.pos, len)

\* Mutant of ReadTo: the position moves by what was asked for.
ReadToBlind(f, len) == [f EXCEPT !.pos = @ + len, !.seen = Seen(f, len)]

ReadTo(f, len) == [f EXCEPT !.pos = @ + Available(f.pos, len), !.seen = Seen(f, len)]

\* The position of f becomes p by something else than a read.
MoveTo(f, p) == [f EXCEPT !.pos = p, !.moved = TRUE, !.seen = <<>>]

\* File::read
Read(n, len) ==
  /\ Live
  /\ n \in DOMAIN fds /\ fds[n].mode # "w"
  /\ fds' = [fds EXCEPT ![n] = ReadTo(@, len)]
  /\ UNCHANGED <<lf, next, engine, hasty>>

\* Mutant of WriteOffset: an O_APPEND descriptor writes where it is.
WriteOffsetPos(f) == f.pos

\* File::write: O_APPEND writes at the end, under the lock.
WriteOffset(f) == IF f.mode = "a" THEN Len(data) ELSE f.pos

\* Mutant of WriteEnd: the sum wraps.
WriteEndWraps(off, len) == (off + len) % 2^Bits

\* write_data: saturating_add
WriteEnd(off, len) == IF off + len >= 2^Bits THEN 2^Bits - 1 ELSE off + len

\* The file after len tokens t were written at off; a gap is a hole.
Written(off, len, t) ==
  [i \in 1..(IF off + len > Len(data) THEN off + len ELSE Len(data)) |->
     IF i > off /\ i <= off + len THEN t ELSE IF i <= Len(data) THEN data[i] ELSE 0]

Write(n, len) ==
  /\ Live
  /\ n \in DOMAIN fds /\ fds[n].mode # "r"
  /\ clock < MaxWrites
  /\ LET f == fds[n]
         off == WriteOffset(f)
     IN /\ WriteEnd(off, len) <= MAX_SZ        \* otherwise EFBIG
        /\ data' = Written(off, len, clock + 1)
        /\ clock' = clock + 1
        /\ fds' = [fds EXCEPT ![n] = MoveTo(@, off + len)]
        /\ plain' = (plain \/ f.mode # "a")
        /\ appends' = IF plain' THEN <<>> ELSE appends \o [i \in 1..len |-> clock + 1]
  /\ UNCHANGED <<lf, next, image, hasty>>

\* Context::lseek and File::seek.  The offset is cast to u64 before SEEK_SET
\* looks at it; the others add in i128 and refuse a negative position.
SeekTo(f, off, whence) ==
  CASE whence = "SET" -> off % 2^Bits
    [] whence = "CUR" -> f.pos + off
    [] whence = "END" -> Len(data) + off

Lseek(n, off, whence) ==
  /\ Live
  /\ n \in DOMAIN fds
  /\ SeekTo(fds[n], off, whence) >= 0          \* otherwise EINVAL
  /\ fds' = [fds EXCEPT ![n] = MoveTo(@, SeekTo(@, off, whence) % 2^Bits)]
  /\ UNCHANGED <<lf, next, engine, hasty>>

\* File::set_len
Ftruncate(n, size) ==
  /\ Live
  /\ n \in DOMAIN fds /\ fds[n].mode # "r"
  /\ size <= MAX_SZ                             \* otherwise EFBIG
  /\ clock < MaxWrites
  /\ data' = [i \in 1..size |-> IF i <= Len(data) THEN data[i] ELSE 0]
  /\ clock' = clock + 1
  /\ plain' = TRUE /\ appends' = <<>>
  /\ UNCHANGED <<lf, fds, next, image, hasty>>

Fds == FirstFd..MaxFd

Next ==
  \/ \E u \in Users : Mount(u)
  \/ \E u, v \in Lfs : CloneHandle(u, v)
  \/ \E u \in Lfs : DropCheck(u)
  \/ \E u \in Lfs : Release(u)
  \/ \E n \in Fds : DropFd(n)
  \/ \E u \in Lfs : Sync(u)
  \/ \E m \in Modes : Open(m)
  \/ \E n \in Fds : Dup(n)
  \/ \E n, new \in Fds : Dup2(n, new)
  \/ \E n \in Fds : Close(n)
  \/ \E n \in Fds, len \in 1..2 : Read(n, len)
  \/ \E n \in Fds, len \in 1..2 : Write(n, len)
  \/ \E n \in Fds, s \in Seeks : Lseek(n, s[1], s[2])
  \/ \E n \in Fds, size \in {0, 1, MAX_SZ + 1} : Ftruncate(n, size)

Spec == Init /\ [][Next]_vars

-----------------------------------------------------------------------------
(* Properties. *)

FileState == [mode : Modes, pos : Unsigned, seen : Seq(0..MaxWrites), moved : BOOLEAN]

TypeOK ==
  /\ lf \in [Lfs -> {"none", "live", "dropping"}]
  /\ DOMAIN fds \subseteq Fds
  /\ \A n \in DOMAIN fds : fds[n] \in FileState
  /\ next \in FirstFd..(MaxFd + 1)
  /\ data \in Seq(0..MaxWrites) /\ image \in Seq(0..MaxWrites)
  /\ clock \in 0..MaxWrites
  /\ plain \in BOOLEAN /\ hasty \in BOOLEAN

\* What survives: when the last value is gone the image holds the last write,
\* if handles were dropped one after the other and no descriptor outlived
\* them.
NothingLost == (Count = 0 /\ ~ hasty) => image = data

\* README:221 "Persist on sync() or when the last LinuxFile handle is dropped".
LastHandleSaves == (\A u \in Lfs : lf[u] = "none") => image = data

\* open and dup never take a number that is in use, whatever dup2 did.
FreshFd ==
  [][next' > next => \A n \in DOMAIN fds : n \in DOMAIN fds' /\ fds'[n] = fds[n]]_vars

\* A file written through O_APPEND descriptors only holds every record, in
\* the order of the writes, however many descriptors wrote and wherever they
\* stood.
AppendsKept == ~ plain => data = appends

\* The bytes read through f are the first ones appended, up to its position.
InOrder(f) ==
  /\ f.pos <= Len(appends)
  /\ Len(f.seen) = f.pos
  /\ \A i \in 1..f.pos : f.seen[i] = appends[i]

\* A reader that follows a file while others append to it gets the bytes that
\* were appended, in their order, with nothing skipped or read twice: however
\* short its reads were, wherever it met the end, and whoever appended since.
ReadsInOrder ==
  \A n \in DOMAIN fds : ~ plain /\ ~ fds[n].moved => InOrder(fds[n])

\* No offset, not even one that lseek took from a negative number, makes a
\* file larger than MAX_SZ.
SizeBounded == Len(data) <= MAX_SZ

\* Offsets, descriptors and sizes stay in the range of their types, at the
\* edge of which write_data's saturating_add and lseek's cast matter.
WellFormed == TypeOK /\ SizeBounded
=============================================================================
