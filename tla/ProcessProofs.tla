--------------------------- MODULE ProcessProofs ----------------------------
(***************************************************************************)
(* Handles, descriptors and positions, for any number of handles, any      *)
(* width of an offset and any largest file.  Inv is the inductive          *)
(* invariant; its part DropInv says what the drop of the last handle       *)
(* leaves behind while its reference is still counted.                     *)
(***************************************************************************)
EXTENDS Process, DataFacts

Held == {u \in Lfs : lf[u] # "none"}

\* As long as handles go one after the other, at most one of them is inside
\* drop, and once none is live the image is up to date and no descriptor is
\* open: the handle that is going, or went last, has seen a count of one.
DropInv ==
  ~ hasty =>
    /\ \A u, v \in Lfs : lf[u] = "dropping" /\ lf[v] = "dropping" => u = v
    /\ (\A u \in Lfs : lf[u] # "live") => image = data /\ DOMAIN fds = {}

\* The file and what a mount would load of it.
Sizes == Len(data) <= MAX_SZ /\ Len(image) <= MAX_SZ

Inv == TypeOK /\ Sizes /\ DropInv /\ AppendsKept /\ ReadsInOrder

-----------------------------------------------------------------------------
(* Facts about the operators. *)

LEMMA Widths == 2^Bits \in Nat /\ 2^Bits > 0 /\ MAX_SZ < 2^Bits - 1 /\ MAX_SZ \in Nat
  BY ProcessAssumption, PowerOfTwo

LEMMA FiniteLfs == IsFiniteSet(Lfs) /\ IsFiniteSet(Held)
  <1>1. IsFiniteSet(Lfs)
    BY ProcessAssumption, FS_AddElement DEF Lfs
  <1> QED BY <1>1, FS_Subset DEF Held

LEMMA FiniteFds == ASSUME TypeOK PROVE IsFiniteSet(DOMAIN fds)
  <1>1. IsFiniteSet(Fds)
    BY ProcessAssumption, FS_Interval DEF Fds, FirstFd
  <1> QED BY <1>1, FS_Subset DEF TypeOK

\* Arc::strong_count is zero when nothing is left, and one when the only value
\* left is a handle.
LEMMA CountFacts ==
  ASSUME TypeOK
  PROVE  /\ Count = 0 <=> Held = {} /\ DOMAIN fds = {}
         /\ \A u \in Held : Count = 1 <=> Held = {u} /\ DOMAIN fds = {}
  <1> DEFINE h == Cardinality(Held)
             d == Cardinality(DOMAIN fds)
  <1>1. h \in Nat /\ d \in Nat
    BY FiniteLfs, FiniteFds, FS_CardinalityType
  <1>2. (h = 0 <=> Held = {}) /\ (d = 0 <=> DOMAIN fds = {})
    BY FiniteLfs, FiniteFds, FS_EmptySet
  <1>3. h = 1 <=> \E x : Held = {x}
    BY FiniteLfs, FS_Singleton
  <1>4. Count = h + d
    BY DEF Count, Held
  <1>5. Count = 0 <=> Held = {} /\ DOMAIN fds = {}
    BY <1>1, <1>2, <1>4
  <1>6. ASSUME NEW u \in Held PROVE Count = 1 <=> Held = {u} /\ DOMAIN fds = {}
    <2>1. h = 1 <=> Held = {u}
      BY <1>3
    <2>2. h # 0
      BY <1>2
    <2> QED BY <1>1, <1>2, <1>4, <2>1, <2>2
  <1> QED BY <1>5, <1>6

\* Context::alloc_fd finds a number: of the numbers it may try, one more than
\* there are descriptors, one is not in use, and the first such is taken.
LEMMA AllocFdFree ==
  ASSUME TypeOK
  PROVE  AllocFd \in Nat /\ AllocFd >= next /\ AllocFd \notin DOMAIN fds
  <1> DEFINE c == Cardinality(DOMAIN fds)
             Unused == {n \in next..(next + c) : n \notin DOMAIN fds}
  <1>1. next \in Nat /\ c \in Nat
    BY ProcessAssumption, FiniteFds, FS_CardinalityType DEF TypeOK, FirstFd
  <1>2. Unused # {}
    <2> SUFFICES ASSUME next..(next + c) \subseteq DOMAIN fds PROVE FALSE
      OBVIOUS
    <2>1. Cardinality(next..(next + c)) = c + 1
      BY <1>1, FS_Interval
    <2>2. Cardinality(next..(next + c)) <= c
      BY FiniteFds, FS_Subset
    <2> QED BY <1>1, <2>1, <2>2
  <1>3. PICK n \in Unused : \A m \in Unused : n <= m
    <2>1. Unused \subseteq Nat
      BY <1>1
    <2> HIDE DEF Unused
    <2> QED BY <1>2, <2>1, SmallestNat
  <1>4. \A m \in next..(n - 1) : m \in DOMAIN fds
    BY <1>1, <1>3
  <1>5. /\ AllocFd \in next..(next + c)
        /\ AllocFd \notin DOMAIN fds
    BY <1>3, <1>4 DEF AllocFd
  <1> QED BY <1>1, <1>5

\* A File keeps its type: a read stops at the end of the file, and a position
\* that was moved is one of 64 bits.
LEMMA ReadToType ==
  ASSUME TypeOK, Sizes, NEW f \in FileState, NEW len \in 1..2
  PROVE  /\ ReadTo(f, len) \in FileState
         /\ ReadTo(f, len).moved = f.moved
         /\ ~ f.moved /\ ~ plain /\ AppendsKept /\ InOrder(f) => InOrder(ReadTo(f, len))
  <1> DEFINE a == Available(f.pos, len)
             g == Fetched(f.pos, len)
             q == Seen(f, len)
  <1>1. f.pos \in Nat /\ f.pos < 2^Bits /\ f.seen \in Seq(0..MaxWrites)
    BY Widths DEF FileState, Unsigned
  <1>2. data \in Seq(0..MaxWrites) /\ Len(data) \in Nat
    BY DEF TypeOK
  <1>3. a \in Nat /\ f.pos + a < 2^Bits /\ (a # 0 => f.pos + a <= Len(data))
    BY <1>1, <1>2, Widths DEF Sizes, Available, Lesser
  <1>4. f.pos + a \in Unsigned
    BY <1>1, <1>3, Widths DEF Unsigned
  <1>5. g = [i \in 1..a |-> data[f.pos + i]]
    BY DEF Fetched
  <1>6. \A i \in 1..a : f.pos + i \in 1..Len(data) /\ data[f.pos + i] \in 0..MaxWrites
    <2> SUFFICES ASSUME NEW i \in 1..a
                 PROVE  f.pos + i \in 1..Len(data) /\ data[f.pos + i] \in 0..MaxWrites
      OBVIOUS
    <2> HIDE DEF a
    <2>1. f.pos + i \in 1..Len(data)
      BY <1>1, <1>2, <1>3
    <2> QED BY <1>2, <2>1, ElementOfSeq
  <1> HIDE DEF a, g
  <1>7. g \in Seq(0..MaxWrites) /\ Len(g) = a /\ \A i \in 1..a : g[i] = data[f.pos + i]
    <2>1. g \in [1..a -> 0..MaxWrites]
      BY <1>5, <1>6
    <2> QED BY <1>3, <1>5, <2>1, FunctionIsSeq
  <1>8. q = IF f.moved THEN <<>> ELSE f.seen \o g
    BY DEF Seen, g
  <1>9. q \in Seq(0..MaxWrites)
    <2> DEFINE p == f.seen
    <2>1. p \in Seq(0..MaxWrites)
      BY <1>1
    <2> HIDE DEF p
    <2>2. <<>> \in Seq(0..MaxWrites)
      BY EmptySeq
    <2>3. p \o g \in Seq(0..MaxWrites)
      BY <1>7, <2>1, ConcatProperties
    <2> QED BY <1>8, <2>2, <2>3 DEF p
  <1> HIDE DEF q
  <1>10. ReadTo(f, len) = [f EXCEPT !.pos = f.pos + a, !.seen = q]
    BY DEF ReadTo, a, q, FileState
  <1> HIDE DEF ReadTo
  <1>11. /\ ReadTo(f, len).pos = f.pos + a
         /\ ReadTo(f, len).seen = q
         /\ ReadTo(f, len).moved = f.moved
    BY <1>10 DEF FileState
  <1>12. ReadTo(f, len) \in FileState
    BY <1>4, <1>9, <1>10 DEF FileState
  <1>13. ASSUME ~ f.moved, ~ plain, AppendsKept, InOrder(f) PROVE InOrder(ReadTo(f, len))
    <2>1. data = appends /\ q = f.seen \o g
      BY <1>8, <1>13 DEF AppendsKept
    <2>2. f.pos <= Len(data) /\ Len(f.seen) = f.pos /\ \A i \in 1..f.pos : f.seen[i] = data[i]
      BY <1>13, <2>1 DEF InOrder
    <2>3. /\ Len(q) = f.pos + a
          /\ \A i \in 1..(f.pos + a) : q[i] = IF i <= f.pos THEN f.seen[i] ELSE g[i - f.pos]
      <3> DEFINE p == f.seen
      <3>1. p \in Seq(0..MaxWrites) /\ Len(p) = f.pos /\ q = p \o g
        BY <1>1, <2>1, <2>2
      <3> HIDE DEF p
      <3>2. /\ Len(p \o g) = Len(p) + Len(g)
            /\ \A i \in 1..(Len(p) + Len(g)) :
                 (p \o g)[i] = IF i <= Len(p) THEN p[i] ELSE g[i - Len(p)]
        BY <1>7, <3>1, ConcatProperties
      <3>3. /\ Len(q) = f.pos + a
            /\ \A i \in 1..(f.pos + a) : q[i] = IF i <= f.pos THEN p[i] ELSE g[i - f.pos]
        BY <1>7, <3>1, <3>2
      <3> QED BY <3>3 DEF p
    <2>4. ASSUME NEW i \in 1..(f.pos + a) PROVE q[i] = data[i]
      <3>1. CASE i <= f.pos
        BY <1>1, <1>3, <2>2, <2>3, <3>1
      <3>2. CASE i > f.pos
        <4>1. i - f.pos \in 1..a /\ f.pos + (i - f.pos) = i /\ ~ (i <= f.pos)
          BY <1>1, <1>3, <3>2
        <4> QED BY <1>7, <2>3, <4>1
      <3> QED BY <1>1, <1>3, <3>1, <3>2
    <2>5. f.pos + a <= Len(data)
      BY <1>1, <1>3, <2>2
    <2> QED BY <1>11, <2>1, <2>3, <2>4, <2>5 DEF InOrder
  <1> QED BY <1>11, <1>12, <1>13

LEMMA MoveToType ==
  ASSUME NEW f \in FileState, NEW p \in Unsigned
  PROVE  MoveTo(f, p) \in FileState /\ MoveTo(f, p).moved
  <1>1. <<>> \in Seq(0..MaxWrites)
    BY EmptySeq
  <1> QED BY <1>1 DEF MoveTo, FileState

LEMMA NewFileType ==
  ASSUME TypeOK, NEW m \in Modes
  PROVE  NewFile(m) \in FileState /\ (AppendsKept /\ ~ plain => InOrder(NewFile(m)))
  <1>1. <<>> \in Seq(0..MaxWrites) /\ Len(<<>>) = 0
    BY EmptySeq
  <1>2. NewFile(m) \in FileState
    BY <1>1, Widths DEF NewFile, FileState, Unsigned
  <1>3. ASSUME AppendsKept, ~ plain PROVE InOrder(NewFile(m))
    <2>1. Len(appends) \in Nat
      BY <1>3 DEF TypeOK, AppendsKept
    <2> QED BY <1>1, <2>1 DEF NewFile, InOrder
  <1> QED BY <1>2, <1>3

\* A number that lseek stores fits in 64 bits.
LEMMA SeekType ==
  ASSUME TypeOK, NEW f \in FileState, NEW s \in Seeks
  PROVE  SeekTo(f, s[1], s[2]) % 2^Bits \in Unsigned
  <1>1. s \in Signed \X {"SET", "CUR", "END"}
    BY ProcessAssumption
  <1>2. s[1] \in Int
    BY <1>1, ProcessAssumption, PowerOfTwo DEF Signed
  <1>3. f.pos \in Int /\ Len(data) \in Int
    BY Widths DEF FileState, Unsigned, TypeOK
  <1>4. s[1] % 2^Bits \in Int
    BY <1>2, Widths
  <1>5. SeekTo(f, s[1], s[2]) \in Int
    BY <1>1, <1>2, <1>3, <1>4 DEF SeekTo
  <1> HIDE DEF SeekTo
  <1> QED BY <1>5, Widths DEF Unsigned

\* write_data refuses with EFBIG before the sum could leave its range.
LEMMA WriteFits ==
  ASSUME TypeOK, Sizes, NEW f \in FileState, NEW len \in 1..2,
         WriteEnd(WriteOffset(f), len) <= MAX_SZ
  PROVE  /\ WriteOffset(f) \in Nat
         /\ WriteOffset(f) + len <= MAX_SZ
         /\ WriteOffset(f) + len \in Unsigned
  <1>1. WriteOffset(f) \in Nat
    BY Widths DEF WriteOffset, FileState, Unsigned, TypeOK
  <1> QED BY <1>1, Widths DEF WriteEnd, Unsigned

\* Writing replaces what it covers, and never shortens the file.
LEMMA WrittenType ==
  ASSUME TypeOK, Sizes, NEW off \in Nat, NEW len \in 1..2, off + len <= MAX_SZ, clock < MaxWrites
  PROVE  /\ Written(off, len, clock + 1) \in Seq(0..MaxWrites)
         /\ Len(Written(off, len, clock + 1)) <= MAX_SZ
         /\ off = Len(data) =>
              Written(off, len, clock + 1) = data \o [i \in 1..len |-> clock + 1]
  <1> DEFINE n == IF off + len > Len(data) THEN off + len ELSE Len(data)
             w == Written(off, len, clock + 1)
  <1>1. n \in Nat /\ n <= MAX_SZ /\ Len(data) \in Nat
    BY Widths DEF TypeOK, Sizes
  <1>2. clock + 1 \in 0..MaxWrites /\ 0 \in 0..MaxWrites
    BY ProcessAssumption DEF TypeOK
  <1>3. \A i \in 1..n : i <= Len(data) => data[i] \in 0..MaxWrites
    <2> SUFFICES ASSUME NEW i \in 1..n, i <= Len(data) PROVE data[i] \in 0..MaxWrites
      OBVIOUS
    <2>1. i \in 1..Len(data)
      BY <1>1
    <2> QED BY <2>1, ElementOfSeq DEF TypeOK
  <1>4. w = [i \in 1..n |-> IF i > off /\ i <= off + len THEN clock + 1
                            ELSE IF i <= Len(data) THEN data[i] ELSE 0]
    BY DEF Written
  <1>5. w \in [1..n -> 0..MaxWrites]
    BY <1>2, <1>3, <1>4
  <1> HIDE DEF w, n
  <1>6. w \in Seq(0..MaxWrites) /\ Len(w) = n
    BY <1>1, <1>5, FunctionIsSeq
  <1>7. ASSUME off = Len(data) PROVE w = data \o [i \in 1..len |-> clock + 1]
    <2> DEFINE r == [i \in 1..len |-> clock + 1]
    <2>1. r \in [1..len -> 0..MaxWrites] /\ len \in Nat
      BY <1>2
    <2>2. data \in Seq(0..MaxWrites) /\ r \in Seq(0..MaxWrites) /\ Len(r) = len
      BY <2>1, FunctionIsSeq DEF TypeOK
    <2>3. n = Len(data) + len
      BY <1>7, <1>1 DEF n
    <2>4. \A i \in 1..len : r[i] = clock + 1
      OBVIOUS
    <2> HIDE DEF r
    <2>5. /\ data \o r \in Seq(0..MaxWrites)
          /\ Len(data \o r) = Len(data) + Len(r)
          /\ \A i \in 1..(Len(data) + Len(r)) :
               (data \o r)[i] = IF i <= Len(data) THEN data[i] ELSE r[i - Len(data)]
      BY <2>2, ConcatProperties
    <2>6. \A i \in 1..n : w[i] = (data \o r)[i]
      <3> SUFFICES ASSUME NEW i \in 1..n PROVE w[i] = (data \o r)[i]
        OBVIOUS
      <3>1. CASE i <= Len(data)
        BY <1>1, <1>4, <1>7, <2>2, <2>3, <2>5, <3>1
      <3>2. CASE i > Len(data)
        <4>1. i - Len(data) \in 1..len /\ i \in 1..(Len(data) + Len(r)) /\ ~ (i <= Len(data))
          BY <1>1, <2>2, <2>3, <3>2
        <4>2. (data \o r)[i] = clock + 1
          BY <2>4, <2>5, <4>1
        <4>3. i > off /\ i <= off + len
          BY <1>1, <1>7, <2>3, <3>2
        <4> QED BY <1>4, <4>2, <4>3
      <3>3. i <= Len(data) \/ i > Len(data)
        BY <1>1
      <3> QED BY <3>1, <3>2, <3>3
    <2>7. w = data \o r
      BY <1>6, <2>2, <2>3, <2>5, <2>6, SeqEqual
    <2> QED BY <2>7 DEF r
  <1> QED BY <1>1, <1>6, <1>7 DEF w

\* Truncating and extending keep what is below the new size.
LEMMA TruncatedType ==
  ASSUME TypeOK, NEW size \in Nat, size <= MAX_SZ
  PROVE  LET t == [i \in 1..size |-> IF i <= Len(data) THEN data[i] ELSE 0]
         IN t \in Seq(0..MaxWrites) /\ Len(t) <= MAX_SZ
  <1> DEFINE t == [i \in 1..size |-> IF i <= Len(data) THEN data[i] ELSE 0]
  <1>1. \A i \in 1..size : i <= Len(data) => data[i] \in 0..MaxWrites
    <2> SUFFICES ASSUME NEW i \in 1..size, i <= Len(data) PROVE data[i] \in 0..MaxWrites
      OBVIOUS
    <2>1. i \in 1..Len(data)
      BY DEF TypeOK
    <2> QED BY <2>1, ElementOfSeq DEF TypeOK
  <1>2. 0 \in 0..MaxWrites
    BY ProcessAssumption
  <1>3. t \in [1..size -> 0..MaxWrites]
    BY <1>1, <1>2
  <1> HIDE DEF t
  <1>4. t \in Seq(0..MaxWrites) /\ Len(t) = size
    BY <1>3, FunctionIsSeq
  <1> QED BY <1>4 DEF t

-----------------------------------------------------------------------------
(* The steps. *)

\* Descriptors that got a file f, of which nothing else changed.
LEMMA PutKeeps ==
  ASSUME Inv, NEW n \in Fds, NEW f \in FileState, ~ plain => InOrder(f),
         lf[Ctx] = "live", fds' = Put(n, f), next' \in FirstFd..(MaxFd + 1),
         UNCHANGED <<lf, engine, hasty>>
  PROVE  Inv'
  <1>1. DOMAIN fds' = DOMAIN fds \cup {n}
    BY DEF Put
  <1>2. \A m \in DOMAIN fds' : fds'[m] = IF m = n THEN f ELSE fds[m]
    BY DEF Put
  <1>3. TypeOK'
    BY <1>1, <1>2 DEF Inv, TypeOK, engine
  <1>4. DropInv'
    BY DEF Inv, DropInv, engine, Lfs
  <1>5. ReadsInOrder'
    BY <1>1, <1>2 DEF Inv, ReadsInOrder, InOrder, engine
  <1> QED BY <1>3, <1>4, <1>5 DEF Inv, Sizes, AppendsKept, engine

\* A descriptor that was closed.
LEMMA RemoveKeeps ==
  ASSUME Inv, NEW n, fds' = Restrict(fds, DOMAIN fds \ {n}),
         UNCHANGED <<lf, next, engine, hasty>>
  PROVE  Inv'
  <1>1. DOMAIN fds' = DOMAIN fds \ {n} /\ \A m \in DOMAIN fds' : fds'[m] = fds[m]
    BY DEF Restrict
  <1>2. TypeOK'
    BY <1>1 DEF Inv, TypeOK, engine
  <1>3. DropInv'
    BY <1>1 DEF Inv, DropInv, engine, Lfs
  <1>4. ReadsInOrder'
    <2> SUFFICES ASSUME NEW m \in DOMAIN fds', ~ plain', ~ fds'[m].moved
                 PROVE  InOrder(fds'[m])
      BY DEF ReadsInOrder, InOrder, engine
    <2>1. fds'[m] = fds[m] /\ m \in DOMAIN fds /\ ~ plain
      BY <1>1 DEF engine
    <2> QED BY <2>1 DEF Inv, ReadsInOrder
  <1> QED BY <1>2, <1>3, <1>4 DEF Inv, Sizes, AppendsKept, engine

\* A descriptor whose position changed; the file may have.
LEMMA MoveKeeps ==
  ASSUME Inv, NEW n \in DOMAIN fds, NEW f \in FileState,
         lf[Ctx] = "live", fds' = [fds EXCEPT ![n] = f],
         UNCHANGED <<lf, next, image, hasty>>,
         data' \in Seq(0..MaxWrites), Len(data') <= MAX_SZ,
         clock' \in 0..MaxWrites, plain' \in BOOLEAN, AppendsKept', ReadsInOrder'
  PROVE  Inv'
  <1>1. DOMAIN fds' = DOMAIN fds /\ \A m \in DOMAIN fds' : fds'[m] = IF m = n THEN f ELSE fds[m]
    OBVIOUS
  <1>2. TypeOK'
    BY <1>1 DEF Inv, TypeOK
  <1>3. DropInv'
    BY DEF Inv, DropInv, Lfs
  <1>4. Sizes'
    BY DEF Inv, Sizes
  <1> QED BY <1>2, <1>3, <1>4 DEF Inv

LEMMA InitInv == Init => Inv
  <1> SUFFICES ASSUME Init PROVE Inv
    OBVIOUS
  <1>1. <<>> \in Seq(0..MaxWrites) /\ Len(<<>>) = 0
    BY EmptySeq
  <1>2. DOMAIN fds = {}
    BY DEF Init, NoFds
  <1>3. TypeOK
    <2>1. FirstFd \in FirstFd..(MaxFd + 1) /\ 0 \in 0..MaxWrites
      BY ProcessAssumption DEF FirstFd
    <2> QED BY <1>1, <1>2, <2>1 DEF Init, TypeOK
  <1> QED BY <1>1, <1>2, <1>3, ProcessAssumption
          DEF Init, Inv, Sizes, DropInv, AppendsKept, ReadsInOrder, InOrder

LEMMA MountKeeps == ASSUME Inv, NEW u \in Users, Mount(u) PROVE Inv'
  <1>1. Held = {} /\ DOMAIN fds = {}
    BY CountFacts DEF Inv, Mount
  <1>2. TypeOK'
    BY DEF Inv, TypeOK, Mount, Lfs
  <1>3. DropInv'
    BY <1>1 DEF Inv, TypeOK, DropInv, Mount, Held, Lfs
  <1>4. ReadsInOrder'
    BY <1>1 DEF Mount, ReadsInOrder
  <1> QED BY <1>2, <1>3, <1>4 DEF Inv, Mount, Sizes, AppendsKept

LEMMA CloneKeeps == ASSUME Inv, NEW u \in Lfs, NEW v \in Lfs, CloneHandle(u, v) PROVE Inv'
  <1>1. TypeOK'
    BY ProcessAssumption DEF Inv, TypeOK, CloneHandle, FirstFd, engine
  <1>2. DropInv'
    BY DEF Inv, TypeOK, DropInv, CloneHandle, engine
  <1> QED BY <1>1, <1>2 DEF Inv, CloneHandle, Sizes, AppendsKept, ReadsInOrder, InOrder, engine

\* The one step that must save: the handle that finds no other one live finds
\* a count of one, or the drop is counted as hasty.
LEMMA DropCheckKeeps == ASSUME Inv, NEW u \in Lfs, DropCheck(u) PROVE Inv'
  <1>1. TypeOK'
    <2>1. hasty' \in BOOLEAN
      BY Zenon DEF DropCheck
    <2>2. image' \in Seq(0..MaxWrites)
      BY DEF Inv, TypeOK, DropCheck
    <2> QED BY <2>1, <2>2 DEF Inv, TypeOK, DropCheck
  <1>2. DropInv'
    <2> SUFFICES ASSUME ~ hasty'
                 PROVE  /\ \A w, v \in Lfs : lf'[w] = "dropping" /\ lf'[v] = "dropping" => w = v
                        /\ (\A w \in Lfs : lf'[w] # "live") => image' = data' /\ DOMAIN fds' = {}
      BY DEF DropInv
    <2>1. /\ ~ hasty
          /\ \A v \in Lfs : lf[v] # "dropping"
          /\ fds = NoFds \/ \E v \in Lfs \ {u} : lf[v] # "none"
      BY DEF DropCheck
    <2>2. \A w, v \in Lfs : lf'[w] = "dropping" /\ lf'[v] = "dropping" => w = v
      BY <2>1 DEF Inv, TypeOK, DropCheck
    <2>3. ASSUME \A w \in Lfs : lf'[w] # "live" PROVE image' = data' /\ DOMAIN fds' = {}
      <3>1. \A w \in Lfs \ {u} : lf[w] = "none"
        BY <2>1, <2>3 DEF Inv, TypeOK, DropCheck
      <3>2. DOMAIN fds = {}
        BY <2>1, <3>1 DEF NoFds
      <3>3. Held = {u}
        BY <3>1 DEF DropCheck, Held
      <3>4. IsLast
        BY <3>2, <3>3, CountFacts DEF Inv, IsLast
      <3> QED BY <3>2, <3>4 DEF DropCheck
    <2> QED BY <2>2, <2>3
  <1>3. Sizes'
    BY DEF Inv, Sizes, DropCheck
  <1> QED BY <1>1, <1>2, <1>3 DEF Inv, DropCheck, AppendsKept, ReadsInOrder, InOrder

LEMMA ReleaseKeeps == ASSUME Inv, NEW u \in Lfs, Release(u) PROVE Inv'
  <1>1. TypeOK'
    BY DEF Inv, TypeOK, Release, engine
  <1>2. DropInv'
    BY DEF Inv, TypeOK, DropInv, Release, engine
  <1> QED BY <1>1, <1>2 DEF Inv, Release, Sizes, AppendsKept, ReadsInOrder, InOrder, engine

LEMMA SyncKeeps == ASSUME Inv, NEW u \in Lfs, Sync(u) PROVE Inv'
  <1>1. TypeOK'
    BY DEF Inv, TypeOK, Sync
  <1>2. DropInv'
    BY DEF Inv, DropInv, Sync
  <1> QED BY <1>1, <1>2 DEF Inv, Sync, Sizes, AppendsKept, ReadsInOrder, InOrder

LEMMA InsertKeeps ==
  ASSUME Inv, Live, NEW m \in Modes, Insert(NewFile(m))
  PROVE  Inv'
  <1>1. AllocFd \in Nat /\ AllocFd >= next /\ AllocFd <= MaxFd
    BY AllocFdFree DEF Inv, Insert
  <1>2. AllocFd \in Fds /\ AllocFd + 1 \in FirstFd..(MaxFd + 1)
    BY <1>1, ProcessAssumption DEF Inv, TypeOK, Fds, FirstFd
  <1> HIDE DEF AllocFd
  <1>3. NewFile(m) \in FileState /\ (~ plain => InOrder(NewFile(m)))
    BY NewFileType DEF Inv
  <1> HIDE DEF NewFile, InOrder
  <1> QED BY <1>2, <1>3, PutKeeps DEF Insert, Live

LEMMA OpenKeeps == ASSUME Inv, NEW m \in Modes, Open(m) PROVE Inv'
  BY InsertKeeps DEF Open

LEMMA DupKeeps == ASSUME Inv, NEW n \in Fds, Dup(n) PROVE Inv'
  <1>1. fds[n].mode \in Modes
    BY DEF Inv, TypeOK, Dup, FileState
  <1> QED BY <1>1, InsertKeeps DEF Dup

LEMMA Dup2Keeps == ASSUME Inv, NEW n \in Fds, NEW new \in Fds, Dup2(n, new) PROVE Inv'
  <1>1. fds[n].mode \in Modes /\ next' \in FirstFd..(MaxFd + 1)
    BY DEF Inv, TypeOK, Dup2, FileState
  <1>2. NewFile(fds[n].mode) \in FileState /\ (~ plain => InOrder(NewFile(fds[n].mode)))
    BY <1>1, NewFileType DEF Inv
  <1> HIDE DEF NewFile, InOrder
  <1> QED BY <1>1, <1>2, PutKeeps DEF Dup2, Live

LEMMA ReadKeeps == ASSUME Inv, NEW n \in Fds, NEW len \in 1..2, Read(n, len) PROVE Inv'
  <1>1. n \in DOMAIN fds /\ fds[n] \in FileState /\ fds' = [fds EXCEPT ![n] = ReadTo(fds[n], len)]
    BY DEF Inv, TypeOK, Read
  <1>2. ReadTo(fds[n], len) \in FileState
    BY <1>1, ReadToType DEF Inv
  <1>3. ReadsInOrder'
    <2> SUFFICES ASSUME NEW m \in DOMAIN fds', ~ plain', ~ fds'[m].moved
                 PROVE  InOrder(fds'[m])
      BY DEF ReadsInOrder, InOrder, Read, engine
    <2>1. ~ plain
      BY DEF Read, engine
    <2>2. CASE m = n
      <3>1. fds'[m] = ReadTo(fds[n], len) /\ ~ fds[n].moved
        BY <1>1, <2>2, ReadToType DEF Inv
      <3>2. InOrder(fds[n])
        BY <1>1, <2>1, <3>1 DEF Inv, ReadsInOrder
      <3> QED BY <1>1, <2>1, <3>1, <3>2, ReadToType DEF Inv
    <2>3. CASE m # n
      BY <1>1, <2>1, <2>3 DEF Inv, ReadsInOrder
    <2> QED BY <2>2, <2>3
  <1>4. /\ data' \in Seq(0..MaxWrites) /\ Len(data') <= MAX_SZ
        /\ clock' \in 0..MaxWrites /\ plain' \in BOOLEAN /\ AppendsKept'
    BY DEF Inv, TypeOK, Sizes, AppendsKept, Read, engine
  <1> HIDE DEF ReadTo
  <1> QED BY <1>1, <1>2, <1>3, <1>4, MoveKeeps DEF Read, Live, engine

LEMMA WriteKeeps == ASSUME Inv, NEW n \in Fds, NEW len \in 1..2, Write(n, len) PROVE Inv'
  <1> DEFINE f == fds[n]
             off == WriteOffset(f)
  <1>1. n \in DOMAIN fds /\ f \in FileState
    BY DEF Inv, TypeOK, Write
  <1>2. /\ WriteEnd(off, len) <= MAX_SZ
        /\ clock < MaxWrites
        /\ data' = Written(off, len, clock + 1)
        /\ clock' = clock + 1
        /\ fds' = [fds EXCEPT ![n] = MoveTo(fds[n], off + len)]
        /\ plain' = (plain \/ f.mode # "a")
        /\ appends' = IF plain' THEN <<>> ELSE appends \o [i \in 1..len |-> clock + 1]
    BY DEF Write
  <1>3. off \in Nat /\ off + len <= MAX_SZ /\ off + len \in Unsigned
    BY <1>1, <1>2, WriteFits DEF Inv
  <1> HIDE DEF off
  <1>4. MoveTo(f, off + len) \in FileState /\ MoveTo(f, off + len).moved
    BY <1>1, <1>3, MoveToType
  <1>5. data' \in Seq(0..MaxWrites) /\ Len(data') <= MAX_SZ
    BY <1>2, <1>3, WrittenType DEF Inv
  <1>6. clock' \in 0..MaxWrites
    BY <1>2, ProcessAssumption DEF Inv, TypeOK
  <1>7. plain' \in BOOLEAN
    BY <1>2, Zenon
  <1>8. AppendsKept'
    <2> SUFFICES ASSUME ~ plain' PROVE data' = appends'
      BY DEF AppendsKept
    <2>1. ~ plain /\ f.mode = "a"
      BY <1>2
    <2>2. data = appends /\ off = Len(data)
      BY <2>1 DEF Inv, AppendsKept, off, WriteOffset
    <2>3. data' = data \o [i \in 1..len |-> clock + 1]
      BY <1>2, <1>3, <2>2, WrittenType DEF Inv
    <2> QED BY <1>2, <2>2, <2>3
  <1>9. lf[Ctx] = "live" /\ UNCHANGED <<lf, next, image, hasty>>
    BY DEF Write, Live
  <1>10. ReadsInOrder'
    <2> SUFFICES ASSUME NEW m \in DOMAIN fds', ~ plain', ~ fds'[m].moved
                 PROVE  /\ fds'[m].pos <= Len(appends')
                        /\ Len(fds'[m].seen) = fds'[m].pos
                        /\ \A i \in 1..fds'[m].pos : fds'[m].seen[i] = appends'[i]
      BY DEF ReadsInOrder, InOrder
    <2>1. ~ plain /\ m # n /\ m \in DOMAIN fds /\ fds'[m] = fds[m]
      BY <1>1, <1>2, <1>4
    <2>2. InOrder(fds[m])
      BY <2>1 DEF Inv, ReadsInOrder
    <2>3. fds[m].pos \in Nat
      BY <2>1, Widths DEF Inv, TypeOK, FileState, Unsigned
    <2> DEFINE rec == [i \in 1..len |-> clock + 1]
    <2>4. appends \in Seq(0..MaxWrites) /\ Len(appends) \in Nat
      BY <2>1 DEF Inv, TypeOK, AppendsKept
    <2>5. rec \in Seq(0..MaxWrites) /\ Len(rec) = len
      <3>1. rec \in [1..len -> 0..MaxWrites] /\ len \in Nat
        BY <1>2, <1>6
      <3> QED BY <3>1, FunctionIsSeq
    <2>6. appends' = appends \o rec
      BY <1>2
    <2> HIDE DEF rec
    <2>7. /\ Len(appends') = Len(appends) + len
          /\ \A i \in 1..Len(appends) : appends'[i] = appends[i]
      <3>1. /\ Len(appends \o rec) = Len(appends) + Len(rec)
            /\ \A i \in 1..(Len(appends) + Len(rec)) :
                 (appends \o rec)[i] = IF i <= Len(appends) THEN appends[i] ELSE rec[i - Len(appends)]
        BY <2>4, <2>5, ConcatProperties
      <3> QED BY <2>4, <2>5, <2>6, <3>1
    <2> QED BY <2>1, <2>2, <2>3, <2>4, <2>7 DEF InOrder
  <1> HIDE DEF f, InOrder
  <1> QED BY <1>1, <1>2, <1>4, <1>5, <1>6, <1>7, <1>8, <1>9, <1>10, MoveKeeps DEF f

LEMMA LseekKeeps == ASSUME Inv, NEW n \in Fds, NEW s \in Seeks, Lseek(n, s[1], s[2]) PROVE Inv'
  <1> DEFINE p == SeekTo(fds[n], s[1], s[2]) % 2^Bits
  <1>1. n \in DOMAIN fds /\ fds[n] \in FileState /\ fds' = [fds EXCEPT ![n] = MoveTo(fds[n], p)]
    BY DEF Inv, TypeOK, Lseek
  <1>2. p \in Unsigned
    BY <1>1, SeekType DEF Inv
  <1>3. /\ data' \in Seq(0..MaxWrites) /\ Len(data') <= MAX_SZ
        /\ clock' \in 0..MaxWrites /\ plain' \in BOOLEAN /\ AppendsKept'
    BY DEF Inv, TypeOK, Sizes, AppendsKept, Lseek, engine
  <1>4. lf[Ctx] = "live" /\ UNCHANGED <<lf, next, image, hasty>>
    BY DEF Lseek, Live, engine
  <1> HIDE DEF p
  <1>5. MoveTo(fds[n], p) \in FileState /\ MoveTo(fds[n], p).moved
    BY <1>1, <1>2, MoveToType
  <1>6. ReadsInOrder'
    BY <1>1, <1>5 DEF Inv, ReadsInOrder, InOrder, Lseek, engine
  <1> QED BY <1>1, <1>3, <1>4, <1>5, <1>6, MoveKeeps

LEMMA FtruncateKeeps ==
  ASSUME Inv, NEW n \in Fds, NEW size \in {0, 1, MAX_SZ + 1}, Ftruncate(n, size)
  PROVE  Inv'
  <1>1. size \in Nat /\ size <= MAX_SZ
    BY Widths DEF Ftruncate
  <1>2. data' \in Seq(0..MaxWrites) /\ Len(data') <= MAX_SZ
    BY <1>1, TruncatedType DEF Inv, Ftruncate
  <1>3. clock' \in 0..MaxWrites
    BY ProcessAssumption DEF Inv, TypeOK, Ftruncate
  <1>4. TypeOK'
    BY <1>2, <1>3 DEF Inv, TypeOK, Ftruncate
  <1>5. DropInv'
    BY DEF Inv, DropInv, Ftruncate, Live, Lfs
  <1> QED BY <1>2, <1>4, <1>5 DEF Inv, Ftruncate, Sizes, AppendsKept, ReadsInOrder, InOrder

-----------------------------------------------------------------------------
(* The theorems. *)

LEMMA StepInv == Inv /\ [Next]_vars => Inv'
  <1> SUFFICES ASSUME Inv, [Next]_vars PROVE Inv'
    OBVIOUS
  <1>1. ASSUME NEW u \in Users, Mount(u) PROVE Inv'
    BY <1>1, MountKeeps
  <1>2. ASSUME NEW u \in Lfs, NEW v \in Lfs, CloneHandle(u, v) PROVE Inv'
    BY <1>2, CloneKeeps
  <1>3. ASSUME NEW u \in Lfs, DropCheck(u) PROVE Inv'
    BY <1>3, DropCheckKeeps
  <1>4. ASSUME NEW u \in Lfs, Release(u) PROVE Inv'
    BY <1>4, ReleaseKeeps
  <1>5. ASSUME NEW n \in Fds, DropFd(n) PROVE Inv'
    BY <1>5, RemoveKeeps DEF DropFd
  <1>6. ASSUME NEW u \in Lfs, Sync(u) PROVE Inv'
    BY <1>6, SyncKeeps
  <1>7. ASSUME NEW m \in Modes, Open(m) PROVE Inv'
    BY <1>7, OpenKeeps
  <1>8. ASSUME NEW n \in Fds, Dup(n) PROVE Inv'
    BY <1>8, DupKeeps
  <1>9. ASSUME NEW n \in Fds, NEW new \in Fds, Dup2(n, new) PROVE Inv'
    BY <1>9, Dup2Keeps
  <1>10. ASSUME NEW n \in Fds, Close(n) PROVE Inv'
    BY <1>10, RemoveKeeps DEF Close
  <1>11. ASSUME NEW n \in Fds, NEW len \in 1..2, Read(n, len) PROVE Inv'
    BY <1>11, ReadKeeps
  <1>12. ASSUME NEW n \in Fds, NEW len \in 1..2, Write(n, len) PROVE Inv'
    BY <1>12, WriteKeeps
  <1>13. ASSUME NEW n \in Fds, NEW s \in Seeks, Lseek(n, s[1], s[2]) PROVE Inv'
    BY <1>13, LseekKeeps
  <1>14. ASSUME NEW n \in Fds, NEW size \in {0, 1, MAX_SZ + 1}, Ftruncate(n, size) PROVE Inv'
    BY <1>14, FtruncateKeeps
  <1>15. CASE UNCHANGED vars
    BY <1>15 DEF Inv, vars, engine, TypeOK, Sizes, DropInv, AppendsKept, ReadsInOrder, InOrder
  <1> QED
    BY <1>1, <1>2, <1>3, <1>4, <1>5, <1>6, <1>7, <1>8, <1>9, <1>10, <1>11, <1>12, <1>13,
       <1>14, <1>15 DEF Next

\* The inductive invariant: types, sizes, what a drop leaves behind, and the
\* order of appends and reads.
THEOREM InvHolds == Spec => []Inv
  BY InitInv, StepInv, PTL DEF Spec

\* Positions, descriptor numbers, the counters and both copies of the file keep
\* their types, and no sequence of lseek and write makes a file larger than
\* MAX_SZ, whatever the width of an offset.
THEOREM WellFormedHolds == Spec => []WellFormed
  <1>1. Inv => WellFormed
    BY DEF Inv, WellFormed, Sizes, SizeBounded
  <1> QED BY <1>1, InvHolds, PTL

\* LinuxFile::drop saves: however many handles there are, the image holds the
\* last write once all of them are gone, if they went one after the other.
THEOREM NothingLostHolds == Spec => []NothingLost
  <1>1. Inv => NothingLost
    <2> SUFFICES ASSUME Inv, Count = 0, ~ hasty PROVE image = data
      BY DEF NothingLost
    <2>1. Held = {}
      BY CountFacts DEF Inv
    <2> QED BY <2>1 DEF Inv, DropInv, Held
  <1> QED BY <1>1, InvHolds, PTL

\* O_APPEND: records written through any number of descriptors all stay.
THEOREM AppendsKeptHolds == Spec => []AppendsKept
  <1>1. Inv => AppendsKept
    BY DEF Inv
  <1> QED BY <1>1, InvHolds, PTL

\* File::read: a descriptor that only reads has read the file up to where it is.
THEOREM ReadsInOrderHolds == Spec => []ReadsInOrder
  <1>1. Inv => ReadsInOrder
    BY DEF Inv
  <1> QED BY <1>1, InvHolds, PTL

\* Context::alloc_fd: open and dup leave every open descriptor as it was.
THEOREM FreshFdHolds == Spec => FreshFd
  <1> DEFINE Keeps == next' > next => \A n \in DOMAIN fds : n \in DOMAIN fds' /\ fds'[n] = fds[n]
  <1>1. Inv /\ [Next]_vars => [Keeps]_vars
    <2> SUFFICES ASSUME Inv, Next, next' > next PROVE Keeps
      OBVIOUS
    <2>1. next \in Nat
      BY ProcessAssumption DEF Inv, TypeOK, FirstFd
    <2>2. ASSUME NEW f, Insert(f) PROVE Keeps
      <3>1. AllocFd \notin DOMAIN fds
        BY AllocFdFree DEF Inv
      <3>2. fds' = [m \in DOMAIN fds \cup {AllocFd} |-> IF m = AllocFd THEN f ELSE fds[m]]
        BY <2>2 DEF Insert, Put
      <3> HIDE DEF AllocFd
      <3> QED BY <3>1, <3>2
    <2>3. ASSUME NEW u \in Lfs, NEW v \in Lfs, CloneHandle(u, v) PROVE Keeps
      BY <2>3 DEF CloneHandle
    <2>4. ASSUME next' = next PROVE Keeps
      BY <2>1, <2>4
    <2>5. (\E m \in Modes : Open(m)) \/ (\E n \in Fds : Dup(n)) => \E f : Insert(f)
      BY DEF Open, Dup
    <2>6. \/ \E f : Insert(f)
          \/ \E u, v \in Lfs : CloneHandle(u, v)
          \/ next' = next
      BY <2>5 DEF Next, Mount, DropCheck, Release, DropFd, Sync, Dup2, Close, Read, Write,
                  Lseek, Ftruncate
    <2> QED BY <2>2, <2>3, <2>4, <2>6
  <1> QED BY <1>1, InvHolds, PTL DEF Spec, FreshFd
=============================================================================
