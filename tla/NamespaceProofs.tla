-------------------------- MODULE NamespaceProofs ---------------------------
(***************************************************************************)
(* Directory entries, link counts, inode numbers and handles agree, for    *)
(* any number of inodes, names and handles.  The engine's state is treated *)
(* as a value: Basic holds of it between any two calls, and each operation *)
(* of Namespace carries it over.  Orphans, handles and the shape of the    *)
(* tree come on top.                                                       *)
(***************************************************************************)
EXTENDS TreeOps, DataFacts

-----------------------------------------------------------------------------
(* What holds of an engine between two calls. *)

IsEngine(s) ==
  DOMAIN s = {"kind", "nlink", "ents", "up", "free", "next", "count", "opens", "orphans"}

Types(s) ==
  /\ IsEngine(s)
  /\ s.kind \in [Inos -> Kinds]
  /\ s.nlink \in [Inos -> Nat]
  /\ s.ents \in [Inos -> EntryMaps]
  /\ s.up \in [Inos -> Inos]
  /\ s.next \in 2..(MaxIno + 1)
  /\ s.opens \in [Inos -> Nat]
  /\ s.orphans \subseteq Inos

LiveOf(s) == {i \in Inos : s.kind[i] # "none"}

\* Only directories have entries; an entry tells the type of its inode, and
\* never names the root or the directory it is in.
Valid(s) ==
  /\ s.kind[ROOT_INO] = "dir"
  /\ \A p \in Inos : s.kind[p] # "dir" => DOMAIN s.ents[p] = {}
  /\ \A p \in Inos : \A n \in DOMAIN s.ents[p] :
       /\ s.kind[s.ents[p][n].ino] = s.ents[p][n].ft
       /\ s.ents[p][n].ino # ROOT_INO
       /\ s.ents[p][n].ino # p

\* The free list holds the numbers that were given back, each once.
Numbers(s) ==
  /\ LiveOf(s) \subseteq 1..(s.next - 1)
  /\ Enumerates(s.free, (1..(s.next - 1)) \ LiveOf(s))
  /\ s.count = Cardinality(LiveOf(s))

LinksOf(s, i) ==
  {l \in Inos \X Names : l[2] \in DOMAIN s.ents[l[1]] /\ s.ents[l[1]][l[2]].ino = i}

SubsOf(s, d) ==
  {l \in {d} \X Names : l[2] \in DOMAIN s.ents[d] /\ s.ents[d][l[2]].ft = "dir"}

LinkNum(s, i) == Cardinality(LinksOf(s, i))

SubNum(s, d) == Cardinality(SubsOf(s, d))

\* The link count of inode i that a fsck would compute.
Want(s, i) ==
  IF s.kind[i] = "file" THEN LinkNum(s, i)
  ELSE 1 + SubNum(s, i) + (IF i = ROOT_INO THEN 1 ELSE LinkNum(s, i))

Counts(s) == \A i \in LiveOf(s) : s.nlink[i] = Want(s, i)

\* A directory has at most one entry, in the directory its ".." names.
Tree(s) ==
  /\ s.up[ROOT_INO] = ROOT_INO
  /\ \A d \in Dirs(s) : s.up[d] \in Dirs(s)
  /\ \A d \in Dirs(s) : \A l \in LinksOf(s, d) : l[1] = s.up[d]
  /\ \A d \in Dirs(s) : \A l, m \in LinksOf(s, d) : l = m

Basic(s) == Types(s) /\ Valid(s) /\ Numbers(s) /\ Counts(s) /\ Tree(s)

\* An inode without links is a file that is kept for its open handles.
Orph(s) ==
  /\ s.orphans = {i \in LiveOf(s) : s.nlink[i] = 0}
  /\ \A i \in s.orphans : s.kind[i] = "file" /\ s.opens[i] > 0

\* No set of directories below the root is closed under "..".
Acyclic(s) ==
  \A S \in SUBSET (Dirs(s) \ {ROOT_INO}) : S # {} => \E d \in S : s.up[d] \notin S

-----------------------------------------------------------------------------
(* Entries and how many of them there are. *)

LEMMA InosFinite ==
  /\ IsFiniteSet(Inos) /\ Cardinality(Inos) = MaxIno /\ ROOT_INO \in Inos
  /\ Inos \subseteq Nat
  <1>1. MaxIno \in Nat /\ MaxIno >= 1
    BY NamespaceAssumption
  <1>2. IsFiniteSet(1..MaxIno) /\ Cardinality(1..MaxIno) = MaxIno
    BY <1>1, FS_Interval
  <1> QED BY <1>1, <1>2 DEF Inos, ROOT_INO

LEMMA EntryMapsAre ==
  ASSUME NEW e
  PROVE  e \in EntryMaps <=> DOMAIN e \subseteq Names /\ e \in [DOMAIN e -> Entry]
  BY DEF EntryMaps

LEMMA EntsAt ==
  ASSUME NEW s, Types(s), NEW p \in Inos
  PROVE  /\ DOMAIN s.ents[p] \subseteq Names
         /\ s.ents[p] \in [DOMAIN s.ents[p] -> Entry]
         /\ \A n \in DOMAIN s.ents[p] :
              s.ents[p][n] \in Entry /\ s.ents[p][n].ino \in Inos
              /\ s.ents[p][n].ft \in {"file", "dir"}
  <1>1. s.ents[p] \in EntryMaps
    BY DEF Types
  <1>2. DOMAIN s.ents[p] \subseteq Names /\ s.ents[p] \in [DOMAIN s.ents[p] -> Entry]
    BY <1>1, EntryMapsAre
  <1> QED BY <1>2 DEF Entry

LEMMA LinksFinite ==
  ASSUME NEW s, NEW i
  PROVE  /\ IsFiniteSet(LinksOf(s, i)) /\ LinkNum(s, i) \in Nat
         /\ IsFiniteSet(SubsOf(s, i)) /\ SubNum(s, i) \in Nat
  <1>1. IsFiniteSet(Inos \X Names)
    BY InosFinite, NamespaceAssumption, FS_Product
  <1>2. IsFiniteSet({i} \X Names)
    BY NamespaceAssumption, FS_Product, FS_Singleton
  <1>3. LinksOf(s, i) \in SUBSET (Inos \X Names) /\ SubsOf(s, i) \in SUBSET ({i} \X Names)
    BY DEF LinksOf, SubsOf
  <1>4. IsFiniteSet(LinksOf(s, i)) /\ IsFiniteSet(SubsOf(s, i))
    BY <1>1, <1>2, <1>3, FS_Subset
  <1> QED BY <1>4, FS_CardinalityType DEF LinkNum, SubNum

\* d has the entries of s, the one called n in p aside.
Removed(s, d, p, n) ==
  /\ p \in Inos /\ n \in DOMAIN s.ents[p]
  /\ DOMAIN d.ents[p] = DOMAIN s.ents[p] \ {n}
  /\ \A q \in Inos \ {p} : DOMAIN d.ents[q] = DOMAIN s.ents[q]
  /\ \A q \in Inos : \A m \in DOMAIN d.ents[q] : d.ents[q][m] = s.ents[q][m]

LEMMA RemovedLinks ==
  ASSUME NEW s, NEW d, NEW p, NEW n, Types(s), Removed(s, d, p, n)
  PROVE  /\ <<p, n>> \in LinksOf(s, s.ents[p][n].ino)
         /\ \A i : LinksOf(d, i) = LinksOf(s, i) \ {<<p, n>>}
         /\ \A q \in Inos : SubsOf(d, q) = SubsOf(s, q) \ {<<p, n>>}
         /\ \A i : <<p, n>> \in LinksOf(s, i) <=> i = s.ents[p][n].ino
         /\ \A q \in Inos : <<p, n>> \in SubsOf(s, q) <=> q = p /\ s.ents[p][n].ft = "dir"
  <1>1. p \in Inos /\ n \in Names
    BY EntsAt DEF Removed
  <1>2. \A q \in Inos, m \in Names :
          m \in DOMAIN d.ents[q] <=> m \in DOMAIN s.ents[q] /\ <<q, m>> # <<p, n>>
    BY DEF Removed
  <1>3. \A q \in Inos, m \in Names : m \in DOMAIN d.ents[q] => d.ents[q][m] = s.ents[q][m]
    BY DEF Removed
  <1>4. ASSUME NEW i PROVE LinksOf(d, i) = LinksOf(s, i) \ {<<p, n>>}
    BY <1>2, <1>3 DEF LinksOf
  <1>5. ASSUME NEW q \in Inos PROVE SubsOf(d, q) = SubsOf(s, q) \ {<<p, n>>}
    BY <1>2, <1>3 DEF SubsOf
  <1>6. ASSUME NEW i PROVE <<p, n>> \in LinksOf(s, i) <=> i = s.ents[p][n].ino
    BY <1>1 DEF LinksOf, Removed
  <1>7. ASSUME NEW q \in Inos
        PROVE  <<p, n>> \in SubsOf(s, q) <=> q = p /\ s.ents[p][n].ft = "dir"
    BY <1>1 DEF SubsOf, Removed
  <1> QED BY <1>4, <1>5, <1>6, <1>7

LEMMA RemovedNums ==
  ASSUME NEW s, NEW d, NEW p, NEW n, Types(s), Removed(s, d, p, n)
  PROVE  /\ \A i : LinkNum(s, i) = LinkNum(d, i) + (IF i = s.ents[p][n].ino THEN 1 ELSE 0)
         /\ \A q \in Inos : SubNum(s, q) = SubNum(d, q)
                              + (IF q = p /\ s.ents[p][n].ft = "dir" THEN 1 ELSE 0)
  <1>0. /\ \A i : LinksOf(d, i) = LinksOf(s, i) \ {<<p, n>>}
        /\ \A q \in Inos : SubsOf(d, q) = SubsOf(s, q) \ {<<p, n>>}
        /\ \A i : <<p, n>> \in LinksOf(s, i) <=> i = s.ents[p][n].ino
        /\ \A q \in Inos : <<p, n>> \in SubsOf(s, q) <=> q = p /\ s.ents[p][n].ft = "dir"
    BY RemovedLinks
  <1>1. ASSUME NEW i
        PROVE  LinkNum(s, i) = LinkNum(d, i) + (IF i = s.ents[p][n].ino THEN 1 ELSE 0)
    <2>1. LinkNum(d, i) = IF <<p, n>> \in LinksOf(s, i) THEN LinkNum(s, i) - 1 ELSE LinkNum(s, i)
      <3> DEFINE L == LinksOf(s, i)
                 x == <<p, n>>
      <3>1. IsFiniteSet(L) /\ LinksOf(d, i) = L \ {x}
        BY <1>0, LinksFinite
      <3>2. Cardinality(L \ {x}) = IF x \in L THEN Cardinality(L) - 1 ELSE Cardinality(L)
        <4> HIDE DEF L, x
        <4> QED BY <3>1, FS_RemoveElement
      <3> HIDE DEF x
      <3> QED BY <3>1, <3>2 DEF LinkNum, x
    <2>2. <<p, n>> \in LinksOf(s, i) <=> i = s.ents[p][n].ino
      BY <1>0
    <2>3. LinkNum(s, i) \in Nat /\ LinkNum(d, i) \in Nat
      BY LinksFinite
    <2> QED BY <2>1, <2>2, <2>3
  <1>2. ASSUME NEW q \in Inos
        PROVE  SubNum(s, q) = SubNum(d, q)
                                + (IF q = p /\ s.ents[p][n].ft = "dir" THEN 1 ELSE 0)
    <2>1. SubNum(d, q) = IF <<p, n>> \in SubsOf(s, q) THEN SubNum(s, q) - 1 ELSE SubNum(s, q)
      <3> DEFINE L == SubsOf(s, q)
                 x == <<p, n>>
      <3>1. IsFiniteSet(L) /\ SubsOf(d, q) = L \ {x}
        BY <1>0, LinksFinite
      <3>2. Cardinality(L \ {x}) = IF x \in L THEN Cardinality(L) - 1 ELSE Cardinality(L)
        <4> HIDE DEF L, x
        <4> QED BY <3>1, FS_RemoveElement
      <3> HIDE DEF x
      <3> QED BY <3>1, <3>2 DEF SubNum, x
    <2>2. <<p, n>> \in SubsOf(s, q) <=> q = p /\ s.ents[p][n].ft = "dir"
      BY <1>0
    <2>3. SubNum(s, q) \in Nat /\ SubNum(d, q) \in Nat
      BY LinksFinite
    <2> QED BY <2>1, <2>2, <2>3
  <1> QED BY <1>1, <1>2

-----------------------------------------------------------------------------
(* The steps that the operations are made of. *)

SameNames(s, d) ==
  /\ d.kind = s.kind /\ d.up = s.up /\ d.free = s.free /\ d.next = s.next
  /\ d.count = s.count /\ d.opens = s.opens /\ d.orphans = s.orphans

LEMMA DirRemoveIs ==
  ASSUME NEW s, Types(s), NEW p \in Inos, NEW n \in DOMAIN s.ents[p]
  PROVE  LET d == DirRemove(s, p, n) IN
         Types(d) /\ SameNames(s, d) /\ d.nlink = s.nlink /\ Removed(s, d, p, n)
  <1> DEFINE d == DirRemove(s, p, n)
             g == [x \in DOMAIN s.ents[p] \ {n} |-> s.ents[p][x]]
  <1>1. /\ IsEngine(d) /\ SameNames(s, d) /\ d.nlink = s.nlink
        /\ d.ents = [s.ents EXCEPT ![p] = g]
    BY DEF DirRemove, Restrict, Types, IsEngine, SameNames
  <1>2. g \in EntryMaps
    <2>1. DOMAIN g \subseteq Names /\ g \in [DOMAIN g -> Entry]
      BY EntsAt
    <2> HIDE DEF g
    <2> QED BY <2>1, EntryMapsAre
  <1>3. DOMAIN g = DOMAIN s.ents[p] \ {n} /\ \A x \in DOMAIN g : g[x] = s.ents[p][x]
    OBVIOUS
  <1> HIDE DEF d, g
  <1>4. d.ents \in [Inos -> EntryMaps] /\ d.ents[p] = g
        /\ \A q \in Inos \ {p} : d.ents[q] = s.ents[q]
    BY <1>1, <1>2 DEF Types
  <1>5. Types(d)
    BY <1>1, <1>4 DEF Types, SameNames
  <1>6. Removed(s, d, p, n)
    BY <1>3, <1>4 DEF Removed
  <1> QED BY <1>1, <1>5, <1>6 DEF d

LEMMA DirInsertIs ==
  ASSUME NEW s, Types(s), NEW p \in Inos, NEW n \in Names, n \notin DOMAIN s.ents[p],
         NEW i \in Inos, NEW k \in {"file", "dir"}
  PROVE  LET d == DirInsert(s, p, n, i, k) IN
         /\ Types(d) /\ SameNames(s, d) /\ d.nlink = s.nlink /\ Removed(d, s, p, n)
         /\ d.ents[p][n].ino = i /\ d.ents[p][n].ft = k
  <1> DEFINE d == DirInsert(s, p, n, i, k)
             e == [ino |-> i, ft |-> k]
             g == [m \in DOMAIN s.ents[p] \cup {n} |-> IF m = n THEN e ELSE s.ents[p][m]]
  <1>1. /\ IsEngine(d) /\ SameNames(s, d) /\ d.nlink = s.nlink
        /\ d.ents = [s.ents EXCEPT ![p] = g]
    BY DEF DirInsert, Types, IsEngine, SameNames
  <1>2. e \in Entry /\ e.ino = i /\ e.ft = k
    BY DEF Entry
  <1> HIDE DEF e
  <1>3. g \in EntryMaps
    <2>1. DOMAIN g \subseteq Names /\ g \in [DOMAIN g -> Entry]
      BY <1>2, EntsAt
    <2> HIDE DEF g
    <2> QED BY <2>1, EntryMapsAre
  <1>4. /\ DOMAIN g = DOMAIN s.ents[p] \cup {n} /\ g[n] = e
        /\ \A x \in DOMAIN s.ents[p] : g[x] = s.ents[p][x]
    OBVIOUS
  <1> HIDE DEF d, g
  <1>5. d.ents \in [Inos -> EntryMaps] /\ d.ents[p] = g
        /\ \A q \in Inos \ {p} : d.ents[q] = s.ents[q]
    BY <1>1, <1>3 DEF Types
  <1>6. Types(d)
    BY <1>1, <1>5 DEF Types, SameNames
  <1>7. Removed(d, s, p, n)
    BY <1>4, <1>5 DEF Removed
  <1> QED BY <1>1, <1>2, <1>4, <1>5, <1>6, <1>7 DEF d

\* d is s with v in the link count of inode i.
Relinked(s, d, i, v) ==
  /\ Types(d) /\ SameNames(s, d) /\ d.ents = s.ents
  /\ d.nlink[i] = v /\ \A j \in Inos \ {i} : d.nlink[j] = s.nlink[j]

LEMMA IncIs ==
  ASSUME NEW s, Types(s), NEW i \in Inos
  PROVE  Relinked(s, Inc(s, i), i, s.nlink[i] + 1)
  <1> DEFINE d == Inc(s, i)
  <1>1. IsEngine(d) /\ SameNames(s, d) /\ d.ents = s.ents
        /\ d.nlink = [s.nlink EXCEPT ![i] = @ + 1]
    BY DEF Inc, Types, IsEngine, SameNames
  <1> HIDE DEF d
  <1>2. s.nlink[i] \in Nat
    BY DEF Types
  <1>3. d.nlink \in [Inos -> Nat] /\ d.nlink[i] = s.nlink[i] + 1
        /\ \A j \in Inos \ {i} : d.nlink[j] = s.nlink[j]
    BY <1>1, <1>2 DEF Types
  <1> QED BY <1>1, <1>3 DEF Relinked, Types, SameNames, d

LEMMA DecIs ==
  ASSUME NEW s, Types(s), NEW i \in Inos, s.nlink[i] # 0
  PROVE  Relinked(s, Dec(s, i), i, s.nlink[i] - 1)
  <1> DEFINE d == Dec(s, i)
  <1>1. IsEngine(d) /\ SameNames(s, d) /\ d.ents = s.ents
        /\ d.nlink = [s.nlink EXCEPT ![i] = s.nlink[i] - 1]
    BY DEF Dec, Types, IsEngine, SameNames
  <1> HIDE DEF d
  <1>2. s.nlink[i] - 1 \in Nat
    BY DEF Types
  <1>3. d.nlink \in [Inos -> Nat] /\ d.nlink[i] = s.nlink[i] - 1
        /\ \A j \in Inos \ {i} : d.nlink[j] = s.nlink[j]
    BY <1>1, <1>2 DEF Types
  <1> QED BY <1>1, <1>3 DEF Relinked, Types, SameNames, d

-----------------------------------------------------------------------------
(* Inner::create_child. *)

\* The number that alloc_inode hands out is nobody's.
LEMMA NextInoFree ==
  ASSUME NEW s, Basic(s), NextIno(s) \in Inos
  PROVE  LET i == NextIno(s) IN
         /\ i \notin LiveOf(s) /\ s.kind[i] = "none" /\ DOMAIN s.ents[i] = {}
         /\ LinksOf(s, i) = {} /\ i # ROOT_INO
  <1> DEFINE i == NextIno(s)
             F == (1..(s.next - 1)) \ LiveOf(s)
  <1>1. i \notin LiveOf(s)
    <2>1. CASE s.free = <<>>
      <3>1. i = s.next /\ s.next \in Nat
        BY <2>1, NamespaceAssumption DEF NextIno, Basic, Types
      <3> QED BY <3>1 DEF Basic, Numbers
    <2>2. CASE s.free # <<>>
      <3>1. i = s.free[Len(s.free)] /\ Enumerates(s.free, F)
        BY <2>2 DEF NextIno, Basic, Numbers
      <3> HIDE DEF i, F
      <3>2. i \in F
        BY <2>2, <3>1, EnumeratesFront
      <3> QED BY <3>2 DEF F
    <2> QED BY <2>1, <2>2
  <1> HIDE DEF i
  <1>2. s.kind[i] = "none"
    BY <1>1 DEF LiveOf, i
  <1>3. DOMAIN s.ents[i] = {} /\ i # ROOT_INO
    BY <1>2 DEF Basic, Valid, i
  <1>4. LinksOf(s, i) = {}
    <2> SUFFICES ASSUME NEW l \in LinksOf(s, i) PROVE FALSE
      OBVIOUS
    <2>1. l[1] \in Inos /\ l[2] \in DOMAIN s.ents[l[1]] /\ s.ents[l[1]][l[2]].ino = i
      BY DEF LinksOf
    <2>2. s.kind[i] = s.ents[l[1]][l[2]].ft
      BY <2>1 DEF Basic, Valid
    <2>3. s.ents[l[1]][l[2]].ft \in {"file", "dir"}
      BY <2>1, EntsAt DEF Basic
    <2> QED BY <1>2, <2>2, <2>3
  <1> QED BY <1>1, <1>2, <1>3, <1>4 DEF i

Allocated(s, a, i, k) ==
  /\ Types(a) /\ a.ents = s.ents /\ a.up = s.up /\ a.opens = s.opens /\ a.orphans = s.orphans
  /\ a.kind = [s.kind EXCEPT ![i] = k]
  /\ a.nlink = [s.nlink EXCEPT ![i] = IF k = "dir" THEN 2 ELSE 1]
  /\ Numbers(a)

LEMMA AllocInodeIs ==
  ASSUME NEW s, Basic(s), NextIno(s) \in Inos, NEW k \in {"file", "dir"}
  PROVE  Allocated(s, AllocInode(s, k), NextIno(s), k)
  <1> DEFINE i == NextIno(s)
             a == AllocInode(s, k)
             F == (1..(s.next - 1)) \ LiveOf(s)
  <1>1. /\ IsEngine(a) /\ a.ents = s.ents /\ a.up = s.up /\ a.opens = s.opens
        /\ a.orphans = s.orphans
        /\ a.kind = [s.kind EXCEPT ![i] = k]
        /\ a.nlink = [s.nlink EXCEPT ![i] = IF k = "dir" THEN 2 ELSE 1]
        /\ a.free = (IF s.free = <<>> THEN s.free ELSE SubSeq(s.free, 1, Len(s.free) - 1))
        /\ a.next = (IF s.free = <<>> THEN s.next + 1 ELSE s.next)
        /\ a.count = s.count + 1
    BY DEF AllocInode, Basic, Types, IsEngine
  <1>2. i \in Inos /\ i \notin LiveOf(s)
    BY NextInoFree
  <1>3. s.next \in Nat /\ s.next >= 2 /\ s.next <= MaxIno + 1 /\ MaxIno \in Nat
    BY NamespaceAssumption DEF Basic, Types
  <1>4. Enumerates(s.free, F) /\ LiveOf(s) \subseteq 1..(s.next - 1)
    BY DEF Basic, Numbers
  <1>5. s.free = <<>> => i = s.next
    BY DEF NextIno
  <1>6. s.free # <<>> => i = s.free[Len(s.free)]
    BY DEF NextIno
  <1> HIDE DEF a, i
  <1>7. LiveOf(a) = LiveOf(s) \cup {i}
    BY <1>1, <1>2 DEF LiveOf, Basic, Types
  <1>8. a.next \in 2..(MaxIno + 1) /\ LiveOf(a) \subseteq 1..(a.next - 1)
        /\ Enumerates(a.free, (1..(a.next - 1)) \ LiveOf(a))
    <2>1. CASE s.free = <<>>
      <3>1. F = {}
        BY <1>4, <2>1 DEF Enumerates, Range
      <3>2. a.next = s.next + 1 /\ i = s.next /\ a.free = <<>>
        BY <1>1, <1>5, <2>1
      <3>3. a.next \in 2..(MaxIno + 1)
        BY <1>2, <1>3, <3>2 DEF Inos
      <3>4. LiveOf(a) \subseteq 1..(a.next - 1)
        BY <1>3, <1>4, <1>7, <3>2
      <3>5. (1..(a.next - 1)) \ LiveOf(a) = {}
        <4> SUFFICES ASSUME NEW x \in 1..(a.next - 1), x \notin LiveOf(a) PROVE FALSE
          OBVIOUS
        <4>1. x \in 1..(s.next - 1) \/ x = i
          BY <1>3, <3>2
        <4> QED BY <1>7, <3>1, <4>1
      <3>6. Enumerates(<<>>, {})
        BY <1>4, <2>1, <3>1
      <3> QED BY <3>2, <3>3, <3>4, <3>5, <3>6
    <2>2. CASE s.free # <<>>
      <3>1. a.next = s.next /\ i = s.free[Len(s.free)]
            /\ a.free = SubSeq(s.free, 1, Len(s.free) - 1)
        BY <1>1, <1>6, <2>2
      <3> HIDE DEF F
      <3>2. i \in F /\ Enumerates(a.free, F \ {i})
        BY <1>4, <2>2, <3>1, EnumeratesFront
      <3>3. F \ {i} = (1..(a.next - 1)) \ LiveOf(a)
        BY <1>7, <3>1 DEF F
      <3>4. LiveOf(a) \subseteq 1..(a.next - 1)
        BY <1>4, <1>7, <3>1, <3>2 DEF F
      <3>5. a.next \in 2..(MaxIno + 1)
        BY <1>3, <3>1
      <3> QED BY <3>2, <3>3, <3>4, <3>5
    <2> QED BY <2>1, <2>2
  <1>9. a.count = Cardinality(LiveOf(a))
    <2>1. LiveOf(s) \in SUBSET Inos /\ IsFiniteSet(LiveOf(s))
      BY InosFinite, FS_Subset DEF LiveOf
    <2>2. Cardinality(LiveOf(s) \cup {i}) = Cardinality(LiveOf(s)) + 1
      BY <1>2, <2>1, FS_AddElement
    <2> QED BY <1>1, <1>7, <2>2 DEF Basic, Numbers
  <1>10. a.kind \in [Inos -> Kinds] /\ a.nlink \in [Inos -> Nat]
    BY <1>1, <1>2 DEF Basic, Types, Kinds
  <1>11. Types(a)
    BY <1>1, <1>8, <1>10 DEF Types, Basic
  <1>12. Numbers(a)
    BY <1>8, <1>9 DEF Numbers
  <1> QED BY <1>1, <1>11, <1>12 DEF Allocated, a, i

\* What create_child changes.
Created(s, d, p, n, i, k) ==
  /\ Types(d) /\ Numbers(d) /\ Removed(d, s, p, n)
  /\ d.ents[p][n].ino = i /\ d.ents[p][n].ft = k
  /\ d.kind = [s.kind EXCEPT ![i] = k]
  /\ d.nlink[i] = (IF k = "dir" THEN 2 ELSE 1)
  /\ d.nlink[p] = s.nlink[p] + (IF k = "dir" THEN 1 ELSE 0)
  /\ \A j \in Inos \ {i, p} : d.nlink[j] = s.nlink[j]
  /\ k = "dir" => d.up[i] = p
  /\ \A j \in Inos \ {i} : d.up[j] = s.up[j]
  /\ d.opens = s.opens /\ d.orphans = s.orphans

LEMMA NumbersSame ==
  ASSUME NEW s, NEW d, Numbers(s), d.kind = s.kind, d.free = s.free, d.next = s.next,
         d.count = s.count
  PROVE  Numbers(d)
  BY DEF Numbers, LiveOf

LEMMA CreateChildIs ==
  ASSUME NEW s, Basic(s), NEW p \in Dirs(s), NEW n \in Names, ~ Has(s, p, n),
         NextIno(s) \in Inos, NEW k \in {"file", "dir"}
  PROVE  Created(s, CreateChild(s, p, n, k), p, n, NextIno(s), k)
  <1> DEFINE i == NextIno(s)
             a == AllocInode(s, k)
             u == [a EXCEPT !.up[i] = p]
             b == IF k = "dir" THEN Inc(u, p) ELSE a
             d == DirInsert(b, p, n, i, k)
  <1>1. p \in Inos /\ s.kind[p] = "dir" /\ n \notin DOMAIN s.ents[p]
    BY DEF Dirs, Has
  <1>2. i \in Inos /\ i # p /\ i \notin LiveOf(s)
    BY <1>1, NextInoFree DEF LiveOf
  <1>3. Allocated(s, a, i, k)
    BY AllocInodeIs
  <1> HIDE DEF a, i
  <1>4. /\ Types(u) /\ u.ents = a.ents /\ u.kind = a.kind /\ u.nlink = a.nlink
        /\ u.opens = a.opens /\ u.orphans = a.orphans
        /\ u.free = a.free /\ u.next = a.next /\ u.count = a.count
        /\ u.up[i] = p /\ \A j \in Inos \ {i} : u.up[j] = a.up[j]
    <2>1. /\ IsEngine(u) /\ u.ents = a.ents /\ u.kind = a.kind /\ u.nlink = a.nlink
          /\ u.opens = a.opens /\ u.orphans = a.orphans
          /\ u.free = a.free /\ u.next = a.next /\ u.count = a.count
          /\ u.up = [a.up EXCEPT ![i] = p]
      BY <1>3 DEF Allocated, Types, IsEngine
    <2> HIDE DEF u
    <2> QED BY <1>1, <1>2, <1>3, <2>1 DEF Allocated, Types
  <1> HIDE DEF u
  <1>5. /\ Types(b) /\ b.ents = s.ents /\ b.kind = a.kind /\ Numbers(b)
        /\ b.opens = s.opens /\ b.orphans = s.orphans
        /\ b.nlink[i] = (IF k = "dir" THEN 2 ELSE 1)
        /\ b.nlink[p] = s.nlink[p] + (IF k = "dir" THEN 1 ELSE 0)
        /\ \A j \in Inos \ {i, p} : b.nlink[j] = s.nlink[j]
        /\ k = "dir" => b.up[i] = p
        /\ \A j \in Inos \ {i} : b.up[j] = s.up[j]
    <2>0. /\ a.nlink[i] = (IF k = "dir" THEN 2 ELSE 1)
          /\ \A j \in Inos \ {i} : a.nlink[j] = s.nlink[j]
      BY <1>2, <1>3 DEF Allocated, Basic, Types
    <2>1. CASE k = "dir"
      <3>1. b = Inc(u, p)
        BY <2>1
      <3>2. Relinked(u, b, p, u.nlink[p] + 1)
        BY <1>1, <1>4, <3>1, IncIs
      <3> HIDE DEF b
      <3>3. Numbers(b)
        BY <1>3, <1>4, <3>2, NumbersSame DEF Allocated, Relinked, SameNames
      <3> QED BY <1>1, <1>2, <1>3, <1>4, <2>0, <2>1, <3>2, <3>3
              DEF Allocated, Relinked, SameNames
    <2>2. CASE k # "dir"
      <3>1. b = a
        BY <2>2
      <3>2. s.nlink[p] + 0 = s.nlink[p]
        BY <1>1 DEF Basic, Types
      <3> HIDE DEF b
      <3> QED BY <1>1, <1>2, <1>3, <2>0, <2>2, <3>1, <3>2 DEF Allocated
    <2> QED BY <2>1, <2>2
  <1> HIDE DEF b
  <1>6. /\ Types(d) /\ SameNames(b, d) /\ d.nlink = b.nlink /\ Removed(d, b, p, n)
        /\ d.ents[p][n].ino = i /\ d.ents[p][n].ft = k
    BY <1>1, <1>2, <1>5, DirInsertIs
  <1> HIDE DEF d
  <1>7. Removed(d, s, p, n)
    BY <1>5, <1>6 DEF Removed
  <1>8. Numbers(d)
    BY <1>5, <1>6, NumbersSame DEF SameNames
  <1>9. Created(s, d, p, n, i, k)
    BY <1>3, <1>5, <1>6, <1>7, <1>8 DEF Created, SameNames, Allocated
  <1> QED BY <1>9 DEF CreateChild, d, b, u, a, i

\* A directory has links: its own and one for ".".
LEMMA DirLinked ==
  ASSUME NEW s, Basic(s), NEW p \in Dirs(s)
  PROVE  s.nlink[p] \in Nat /\ s.nlink[p] >= 1 /\ p \in LiveOf(s) /\ p \in Inos
         /\ s.kind[p] = "dir" /\ s.nlink[p] >= 1 + SubNum(s, p)
  <1>1. p \in LiveOf(s) /\ s.kind[p] = "dir" /\ p \in Inos
    BY DEF Dirs, LiveOf
  <1>2. s.nlink[p] = 1 + SubNum(s, p) + (IF p = ROOT_INO THEN 1 ELSE LinkNum(s, p))
    BY <1>1 DEF Basic, Counts, Want
  <1>3. SubNum(s, p) \in Nat /\ LinkNum(s, p) \in Nat
    BY LinksFinite
  <1> QED BY <1>1, <1>2, <1>3

NewDirs(i, k) == IF k = "dir" THEN {i} ELSE {}

LEMMA CreatedBasic ==
  ASSUME NEW s, NEW d, NEW p \in Dirs(s), NEW n, NEW i, NEW k \in {"file", "dir"},
         Basic(s), i = NextIno(s), i \in Inos, Created(s, d, p, n, i, k)
  PROVE  /\ Basic(d) /\ LiveOf(d) = LiveOf(s) \cup {i}
         /\ Dirs(d) = Dirs(s) \cup NewDirs(i, k)
         /\ i \notin LiveOf(s)
  <1> USE DEF Basic
  <1>1. /\ i \notin LiveOf(s) /\ s.kind[i] = "none" /\ DOMAIN s.ents[i] = {}
        /\ LinksOf(s, i) = {} /\ i # ROOT_INO
    BY NextInoFree
  <1>2. p \in Inos /\ s.kind[p] = "dir" /\ i # p /\ p \in LiveOf(s)
    BY <1>1 DEF Dirs, LiveOf
  <1>3. d.kind[i] = k /\ \A j \in Inos \ {i} : d.kind[j] = s.kind[j]
    BY DEF Created, Types
  <1>4. LiveOf(d) = LiveOf(s) \cup {i}
    BY <1>3 DEF LiveOf
  <1>5. Dirs(d) = Dirs(s) \cup NewDirs(i, k)
    BY <1>1, <1>3 DEF Dirs, NewDirs
  <1>6. Types(d) /\ Removed(d, s, p, n) /\ d.ents[p][n].ino = i /\ d.ents[p][n].ft = k
    BY DEF Created
  <1>7. /\ \A q \in Inos \ {p} : DOMAIN d.ents[q] = DOMAIN s.ents[q]
        /\ DOMAIN s.ents[p] = DOMAIN d.ents[p] \ {n}
        /\ \A q \in Inos : \A m \in DOMAIN s.ents[q] : d.ents[q][m] = s.ents[q][m]
    BY <1>6 DEF Removed
  <1>8. Valid(d)
    <2>1. d.kind[ROOT_INO] = "dir"
      BY <1>1, <1>3, InosFinite DEF Valid
    <2>2. ASSUME NEW q \in Inos, d.kind[q] # "dir" PROVE DOMAIN d.ents[q] = {}
      BY <1>1, <1>2, <1>3, <1>7, <2>2 DEF Valid
    <2>3. ASSUME NEW q \in Inos, NEW m \in DOMAIN d.ents[q]
          PROVE  /\ d.kind[d.ents[q][m].ino] = d.ents[q][m].ft
                 /\ d.ents[q][m].ino # ROOT_INO
                 /\ d.ents[q][m].ino # q
      <3>1. CASE q = p /\ m = n
        BY <1>1, <1>2, <1>3, <1>6, <3>1
      <3>2. CASE ~ (q = p /\ m = n)
        <4>1. m \in DOMAIN s.ents[q] /\ d.ents[q][m] = s.ents[q][m]
          BY <1>7, <3>2
        <4> DEFINE j == s.ents[q][m].ino
        <4>2. j \in Inos /\ s.ents[q][m].ft \in {"file", "dir"}
          BY <4>1, EntsAt
        <4>3. s.kind[j] = s.ents[q][m].ft /\ j # ROOT_INO /\ j # q
          BY <4>1 DEF Valid
        <4>4. j # i
          BY <1>1, <4>2, <4>3
        <4> QED BY <1>3, <4>1, <4>2, <4>3, <4>4
      <3> QED BY <3>1, <3>2
    <2> QED BY <2>1, <2>2, <2>3 DEF Valid
  <1>9. /\ \A j : LinkNum(d, j) = LinkNum(s, j) + (IF j = i THEN 1 ELSE 0)
        /\ \A q \in Inos : SubNum(d, q) = SubNum(s, q)
                                          + (IF q = p /\ k = "dir" THEN 1 ELSE 0)
    BY <1>6, RemovedNums
  <1>10. Counts(d)
    <2> SUFFICES ASSUME NEW j \in LiveOf(d) PROVE d.nlink[j] = Want(d, j)
      BY DEF Counts
    <2>0. j \in Inos /\ LinkNum(s, j) \in Nat /\ SubNum(s, j) \in Nat
      BY LinksFinite DEF LiveOf
    <2>1. CASE j = i
      <3>1. LinkNum(s, i) = 0
        BY <1>1, FS_EmptySet DEF LinkNum
      <3>2. SubNum(s, i) = 0
        <4>1. SubsOf(s, i) = {}
          BY <1>1 DEF SubsOf
        <4> QED BY <4>1, FS_EmptySet DEF SubNum
      <3>3. LinkNum(d, i) = 1 /\ SubNum(d, i) = 0
        BY <1>2, <1>9, <3>1, <3>2
      <3>4. d.nlink[i] = IF k = "dir" THEN 2 ELSE 1
        BY DEF Created
      <3> QED BY <1>1, <1>3, <2>1, <3>3, <3>4 DEF Want
    <2>2. CASE j # i
      <3>1. j \in LiveOf(s) /\ s.nlink[j] = Want(s, j) /\ d.kind[j] = s.kind[j]
        BY <1>3, <1>4, <2>0, <2>2 DEF Counts
      <3>2. LinkNum(d, j) = LinkNum(s, j)
        BY <1>9, <2>0, <2>2
      <3>3. CASE j = p
        <4>1. SubNum(d, j) = SubNum(s, j) + (IF k = "dir" THEN 1 ELSE 0)
          BY <1>9, <2>0, <3>3
        <4>2. d.nlink[j] = s.nlink[j] + (IF k = "dir" THEN 1 ELSE 0)
          BY <3>3 DEF Created
        <4> QED BY <1>2, <2>0, <3>1, <3>2, <3>3, <4>1, <4>2 DEF Want
      <3>4. CASE j # p
        <4>1. SubNum(d, j) = SubNum(s, j)
          BY <1>9, <2>0, <3>4
        <4>2. d.nlink[j] = s.nlink[j]
          BY <2>0, <2>2, <3>4 DEF Created
        <4> QED BY <3>1, <3>2, <4>1, <4>2 DEF Want
      <3> QED BY <3>3, <3>4
    <2> QED BY <2>1, <2>2
  <1>11. Tree(d)
    <2>1. /\ \A j : LinksOf(s, j) = LinksOf(d, j) \ {<<p, n>>}
          /\ \A j : <<p, n>> \in LinksOf(d, j) <=> j = i
      BY <1>6, RemovedLinks
    <2>2. \A j : j # i => LinksOf(d, j) = LinksOf(s, j)
      BY <2>1
    <2>3. LinksOf(d, i) \subseteq {<<p, n>>}
      BY <1>1, <2>1
    <2>4. d.up[ROOT_INO] = ROOT_INO
      BY <1>1, InosFinite DEF Created, Tree
    <2>5. \A q \in Dirs(d) : d.up[q] \in Dirs(d)
      BY <1>1, <1>5 DEF Created, Tree, Dirs, NewDirs
    <2>6. ASSUME NEW q \in Dirs(d) PROVE \A l \in LinksOf(d, q) : l[1] = d.up[q]
      <3>1. CASE q = i
        BY <1>1, <1>5, <2>3, <2>6, <3>1 DEF Created, Dirs, NewDirs
      <3>2. CASE q # i
        BY <1>5, <2>2, <2>6, <3>2 DEF Created, Tree, Dirs, NewDirs
      <3> QED BY <3>1, <3>2
    <2>7. ASSUME NEW q \in Dirs(d) PROVE \A l, m \in LinksOf(d, q) : l = m
      <3>1. CASE q = i
        BY <2>3, <3>1
      <3>2. CASE q # i
        BY <1>5, <2>2, <2>7, <3>2 DEF Tree, NewDirs
      <3> QED BY <3>1, <3>2
    <2> QED BY <2>4, <2>5, <2>6, <2>7 DEF Tree
  <1>12. Numbers(d)
    BY DEF Created
  <1> QED BY <1>1, <1>4, <1>5, <1>6, <1>8, <1>10, <1>11, <1>12

LEMMA CreatedOrph ==
  ASSUME NEW s, NEW d, NEW p \in Dirs(s), NEW n, NEW i, NEW k \in {"file", "dir"},
         Basic(s), Orph(s), i = NextIno(s), i \in Inos, Created(s, d, p, n, i, k)
  PROVE  Orph(d)
  <1>1. Basic(d) /\ LiveOf(d) = LiveOf(s) \cup {i} /\ i \notin LiveOf(s)
    BY CreatedBasic
  <1>2. s.nlink[p] \in Nat /\ s.nlink[p] >= 1 /\ p \in LiveOf(s)
    BY DirLinked
  <1>3. d.nlink[i] # 0 /\ d.nlink[p] # 0
    BY <1>2 DEF Created
  <1>4. \A j \in LiveOf(s) : d.nlink[j] = 0 <=> s.nlink[j] = 0
    <2> SUFFICES ASSUME NEW j \in LiveOf(s) PROVE d.nlink[j] = 0 <=> s.nlink[j] = 0
      OBVIOUS
    <2>1. j \in Inos /\ j # i
      BY <1>1 DEF LiveOf
    <2>2. CASE j = p
      BY <1>2, <1>3, <2>2
    <2>3. CASE j # p
      BY <2>1, <2>3 DEF Created
    <2> QED BY <2>2, <2>3
  <1>5. d.orphans = s.orphans /\ d.opens = s.opens
        /\ \A j \in Inos \ {i} : d.kind[j] = s.kind[j]
    BY DEF Created, Basic, Types
  <1>6. d.orphans = {j \in LiveOf(d) : d.nlink[j] = 0}
    BY <1>1, <1>3, <1>4, <1>5 DEF Orph
  <1>7. \A j \in s.orphans : j \in Inos \ {i}
    BY <1>1 DEF Orph, LiveOf
  <1> QED BY <1>5, <1>6, <1>7 DEF Orph

LEMMA CreatedAcyclic ==
  ASSUME NEW s, NEW d, NEW p \in Dirs(s), NEW n, NEW i, NEW k \in {"file", "dir"},
         Basic(s), Acyclic(s), i = NextIno(s), i \in Inos, Created(s, d, p, n, i, k)
  PROVE  Acyclic(d)
  <1>1. /\ Basic(d) /\ LiveOf(d) = LiveOf(s) \cup {i}
        /\ Dirs(d) = Dirs(s) \cup NewDirs(i, k) /\ i \notin LiveOf(s)
    BY CreatedBasic
  <1>2. i \notin Dirs(s)
    BY <1>1 DEF Dirs, LiveOf
  <1>3. /\ k = "dir" => d.up[i] = p
        /\ \A q \in Dirs(s) : d.up[q] = s.up[q] /\ s.up[q] \in Dirs(s)
    BY <1>2 DEF Created, Basic, Tree, Dirs
  <1> SUFFICES ASSUME NEW S \in SUBSET (Dirs(d) \ {ROOT_INO}), S # {}
               PROVE  \E q \in S : d.up[q] \notin S
    BY DEF Acyclic
  <1>4. CASE i \notin S
    BY <1>1, <1>3, <1>4 DEF Acyclic, NewDirs
  <1>5. CASE i \in S
    <2>1. k = "dir"
      BY <1>1, <1>2, <1>5 DEF NewDirs
    <2>2. CASE S \ {i} = {}
      BY <1>2, <1>3, <1>5, <2>1, <2>2
    <2>3. CASE S \ {i} # {}
      <3>1. S \ {i} \in SUBSET (Dirs(s) \ {ROOT_INO})
        BY <1>1 DEF NewDirs
      <3>2. PICK q \in S \ {i} : s.up[q] \notin S \ {i}
        BY <2>3, <3>1 DEF Acyclic
      <3> QED BY <1>2, <1>3, <3>1, <3>2
    <2> QED BY <2>2, <2>3
  <1> QED BY <1>4, <1>5

-----------------------------------------------------------------------------
(* Inner::unlink_name. *)

\* The entry and its link counts are gone, the inode is not looked at yet.
CutOf(s, p, n) ==
  LET e == s.ents[p][n]
      a == DirRemove(s, p, n)
      b == IF e.ft = "dir" THEN Dec(a, p) ELSE a
  IN Dec(b, e.ino)

Cut(s, c, p, n) ==
  LET i == s.ents[p][n].ino
      k == s.ents[p][n].ft IN
  /\ Types(c) /\ SameNames(s, c) /\ Removed(s, c, p, n)
  /\ c.nlink[i] = s.nlink[i] - 1
  /\ c.nlink[p] = s.nlink[p] - (IF k = "dir" THEN 1 ELSE 0)
  /\ \A j \in Inos \ {i, p} : c.nlink[j] = s.nlink[j]

\* An entry and the inode it names.
LEMMA EntryFacts ==
  ASSUME NEW s, Basic(s), NEW p \in Dirs(s), NEW n \in DOMAIN s.ents[p]
  PROVE  LET i == s.ents[p][n].ino
             k == s.ents[p][n].ft IN
         /\ i \in Inos /\ k \in {"file", "dir"} /\ i # p /\ i # ROOT_INO
         /\ s.kind[i] = k /\ i \in LiveOf(s) /\ p \in Inos /\ n \in Names
         /\ s.nlink[i] \in Nat /\ s.nlink[i] >= (IF k = "dir" THEN 2 ELSE 1)
         /\ s.nlink[p] \in Nat /\ s.nlink[p] >= (IF k = "dir" THEN 2 ELSE 1)
  <1> DEFINE i == s.ents[p][n].ino
             k == s.ents[p][n].ft
             a == DirRemove(s, p, n)
  <1>1. p \in Inos /\ s.kind[p] = "dir" /\ p \in LiveOf(s) /\ Types(s)
    BY DEF Dirs, LiveOf, Basic
  <1>2. i \in Inos /\ k \in {"file", "dir"} /\ n \in Names
    BY <1>1, EntsAt
  <1>3. s.kind[i] = k /\ i # ROOT_INO /\ i # p
    BY <1>1 DEF Basic, Valid
  <1>4. i \in LiveOf(s)
    BY <1>2, <1>3 DEF LiveOf
  <1>5. Removed(s, a, p, n)
    BY <1>1, DirRemoveIs
  <1> HIDE DEF a
  <1>6. /\ LinkNum(s, i) = LinkNum(a, i) + 1
        /\ SubNum(s, p) = SubNum(a, p) + (IF k = "dir" THEN 1 ELSE 0)
    <2>1. /\ \A j : LinkNum(s, j) = LinkNum(a, j) + (IF j = i THEN 1 ELSE 0)
          /\ \A q \in Inos : SubNum(s, q) = SubNum(a, q) + (IF q = p /\ k = "dir" THEN 1 ELSE 0)
      BY <1>1, <1>5, RemovedNums
    <2> HIDE DEF i, k
    <2> QED BY <1>1, <2>1
  <1>7. /\ LinkNum(a, i) \in Nat /\ SubNum(a, p) \in Nat /\ SubNum(s, i) \in Nat
        /\ LinkNum(s, p) \in Nat
    BY LinksFinite
  <1>8. s.nlink[i] = Want(s, i) /\ s.nlink[p] = Want(s, p)
    BY <1>1, <1>4 DEF Basic, Counts
  <1> HIDE DEF i, k
  <1>9. s.nlink[i] \in Nat /\ s.nlink[i] >= (IF k = "dir" THEN 2 ELSE 1)
    BY <1>2, <1>3, <1>6, <1>7, <1>8 DEF Want
  <1>10. s.nlink[p] \in Nat /\ s.nlink[p] >= (IF k = "dir" THEN 2 ELSE 1)
    BY <1>1, <1>2, <1>6, <1>7, <1>8 DEF Want
  <1> QED BY <1>1, <1>2, <1>3, <1>4, <1>9, <1>10 DEF i, k

LEMMA CutIs ==
  ASSUME NEW s, Basic(s), NEW p \in Dirs(s), NEW n \in DOMAIN s.ents[p]
  PROVE  Cut(s, CutOf(s, p, n), p, n)
  <1> DEFINE i == s.ents[p][n].ino
             k == s.ents[p][n].ft
             a == DirRemove(s, p, n)
             b == IF k = "dir" THEN Dec(a, p) ELSE a
             c == Dec(b, i)
  <1>1. /\ i \in Inos /\ k \in {"file", "dir"} /\ i # p /\ p \in Inos
        /\ s.nlink[i] \in Nat /\ s.nlink[i] >= (IF k = "dir" THEN 2 ELSE 1)
        /\ s.nlink[p] \in Nat /\ s.nlink[p] >= (IF k = "dir" THEN 2 ELSE 1)
    BY EntryFacts
  <1>2. Types(a) /\ SameNames(s, a) /\ a.nlink = s.nlink /\ Removed(s, a, p, n)
    BY <1>1, DirRemoveIs DEF Basic
  <1> HIDE DEF a, i, k
  <1>3. /\ Types(b) /\ SameNames(a, b) /\ b.ents = a.ents
        /\ b.nlink[p] = s.nlink[p] - (IF k = "dir" THEN 1 ELSE 0)
        /\ \A j \in Inos \ {p} : b.nlink[j] = s.nlink[j]
    <2>1. CASE k = "dir"
      <3>1. b = Dec(a, p) /\ a.nlink[p] # 0
        BY <1>1, <1>2, <2>1
      <3>2. Relinked(a, b, p, a.nlink[p] - 1)
        BY <1>1, <1>2, <3>1, DecIs
      <3> HIDE DEF b
      <3> QED BY <1>2, <2>1, <3>2 DEF Relinked
    <2>2. CASE k # "dir"
      <3>1. b = a /\ s.nlink[p] - 0 = s.nlink[p]
        BY <1>1, <2>2
      <3> HIDE DEF b
      <3> QED BY <1>2, <2>2, <3>1 DEF SameNames
    <2> QED BY <2>1, <2>2
  <1> HIDE DEF b
  <1>4. b.nlink[i] = s.nlink[i] /\ b.nlink[i] # 0
    BY <1>1, <1>3
  <1>5. Relinked(b, c, i, b.nlink[i] - 1)
    BY <1>1, <1>3, <1>4, DecIs
  <1> HIDE DEF c
  <1>6. Types(c) /\ SameNames(s, c) /\ c.ents = a.ents
    BY <1>2, <1>3, <1>5 DEF Relinked, SameNames
  <1>7. Removed(s, c, p, n)
    BY <1>2, <1>6 DEF Removed
  <1>8. /\ c.nlink[i] = s.nlink[i] - 1
        /\ c.nlink[p] = s.nlink[p] - (IF k = "dir" THEN 1 ELSE 0)
        /\ \A j \in Inos \ {i, p} : c.nlink[j] = s.nlink[j]
    BY <1>1, <1>3, <1>4, <1>5 DEF Relinked
  <1>9. Cut(s, c, p, n)
    BY <1>6, <1>7, <1>8 DEF Cut, i, k
  <1> QED BY <1>9 DEF CutOf, c, b, a, i, k

\* What does not depend on the link counts.
LEMMA RemovedValid ==
  ASSUME NEW s, NEW c, NEW p, NEW n, Types(s), Removed(s, c, p, n), c.kind = s.kind, Valid(s)
  PROVE  Valid(c)
  <1>1. /\ \A q \in Inos : DOMAIN c.ents[q] \subseteq DOMAIN s.ents[q]
        /\ \A q \in Inos : \A m \in DOMAIN c.ents[q] : c.ents[q][m] = s.ents[q][m]
    BY DEF Removed
  <1> QED BY <1>1 DEF Valid

LEMMA RemovedTree ==
  ASSUME NEW s, NEW c, NEW p, NEW n, Types(s), Removed(s, c, p, n), c.kind = s.kind,
         c.up = s.up, Tree(s)
  PROVE  Tree(c)
  <1>1. /\ \A i : LinksOf(c, i) = LinksOf(s, i) \ {<<p, n>>}
        /\ <<p, n>> \in LinksOf(s, s.ents[p][n].ino)
    BY RemovedLinks
  <1>2. Dirs(c) = Dirs(s) /\ \A i : LinksOf(c, i) \subseteq LinksOf(s, i)
    BY <1>1 DEF Dirs
  <1> QED BY <1>2 DEF Tree

LEMMA CutBasic ==
  ASSUME NEW s, NEW c, NEW p \in Dirs(s), NEW n \in DOMAIN s.ents[p], Basic(s), Cut(s, c, p, n)
  PROVE  /\ Basic(c)
         /\ c.nlink[s.ents[p][n].ino] = 0 => s.ents[p][n].ft = "file"
         /\ c.nlink[p] # 0
  <1> DEFINE i == s.ents[p][n].ino
             k == s.ents[p][n].ft
  <1>1. /\ i \in Inos /\ k \in {"file", "dir"} /\ i # p /\ i # ROOT_INO
        /\ s.kind[i] = k /\ i \in LiveOf(s) /\ p \in Inos
        /\ s.nlink[i] \in Nat /\ s.nlink[i] >= (IF k = "dir" THEN 2 ELSE 1)
        /\ s.nlink[p] \in Nat /\ s.nlink[p] >= (IF k = "dir" THEN 2 ELSE 1)
    BY EntryFacts
  <1>2. /\ Types(c) /\ SameNames(s, c) /\ Removed(s, c, p, n)
        /\ c.nlink[i] = s.nlink[i] - 1
        /\ c.nlink[p] = s.nlink[p] - (IF k = "dir" THEN 1 ELSE 0)
        /\ \A j \in Inos \ {i, p} : c.nlink[j] = s.nlink[j]
    BY DEF Cut
  <1>3. /\ \A j : LinkNum(s, j) = LinkNum(c, j) + (IF j = i THEN 1 ELSE 0)
        /\ \A q \in Inos : SubNum(s, q) = SubNum(c, q) + (IF q = p /\ k = "dir" THEN 1 ELSE 0)
    BY <1>2, RemovedNums DEF Basic
  <1> HIDE DEF i, k
  <1>4. c.kind = s.kind /\ c.up = s.up /\ LiveOf(c) = LiveOf(s)
    BY <1>2 DEF SameNames, LiveOf
  <1>5. Counts(c)
    <2> SUFFICES ASSUME NEW j \in LiveOf(s) PROVE c.nlink[j] = Want(c, j)
      BY <1>4 DEF Counts
    <2>1. /\ j \in Inos /\ LinkNum(c, j) \in Nat /\ SubNum(c, j) \in Nat
          /\ s.nlink[j] = Want(s, j) /\ c.kind[j] = s.kind[j]
      BY <1>4, LinksFinite DEF LiveOf, Basic, Counts
    <2>2. CASE j = i
      <3>1. LinkNum(s, j) = LinkNum(c, j) + 1 /\ SubNum(s, j) = SubNum(c, j)
        BY <1>1, <1>3, <2>1, <2>2
      <3> QED BY <1>1, <1>2, <2>1, <2>2, <3>1 DEF Want
    <2>3. CASE j = p
      <3>1. /\ LinkNum(s, j) = LinkNum(c, j)
            /\ SubNum(s, j) = SubNum(c, j) + (IF k = "dir" THEN 1 ELSE 0)
        BY <1>1, <1>3, <2>1, <2>3
      <3>2. s.kind[j] = "dir"
        BY <2>3 DEF Dirs
      <3> QED BY <1>1, <1>2, <2>1, <2>3, <3>1, <3>2 DEF Want
    <2>4. CASE j # i /\ j # p
      <3>1. LinkNum(s, j) = LinkNum(c, j) /\ SubNum(s, j) = SubNum(c, j)
        BY <1>1, <1>3, <2>1, <2>4
      <3> QED BY <1>2, <2>1, <2>4, <3>1 DEF Want
    <2> QED BY <2>2, <2>3, <2>4
  <1>6. Valid(c) /\ Tree(c)
    BY <1>2, <1>4, RemovedValid, RemovedTree DEF Basic
  <1>7. Numbers(c)
    BY <1>2, NumbersSame DEF Basic, SameNames
  <1>8. (c.nlink[i] = 0 => k = "file") /\ c.nlink[p] # 0
    BY <1>1, <1>2
  <1> QED BY <1>2, <1>5, <1>6, <1>7, <1>8 DEF Basic, i, k

SameEntries(s, d) ==
  /\ \A q \in Inos : DOMAIN d.ents[q] = DOMAIN s.ents[q]
  /\ \A q \in Inos : \A m \in DOMAIN d.ents[q] : d.ents[q][m] = s.ents[q][m]

LEMMA SameEntriesNums ==
  ASSUME NEW s, NEW d, SameEntries(s, d)
  PROVE  /\ \A i : LinksOf(d, i) = LinksOf(s, i) /\ LinkNum(d, i) = LinkNum(s, i)
         /\ \A q \in Inos : SubsOf(d, q) = SubsOf(s, q) /\ SubNum(d, q) = SubNum(s, q)
  <1>1. \A i : LinksOf(d, i) = LinksOf(s, i)
    BY DEF SameEntries, LinksOf
  <1>2. \A q \in Inos : SubsOf(d, q) = SubsOf(s, q)
    BY DEF SameEntries, SubsOf
  <1> QED BY <1>1, <1>2 DEF LinkNum, SubNum

\* The inode i is gone.
Dropped(c, d, i) ==
  /\ Types(d) /\ SameEntries(c, d)
  /\ d.kind = [c.kind EXCEPT ![i] = "none"]
  /\ \A j \in Inos \ {i} : d.nlink[j] = c.nlink[j]
  /\ \A j \in Inos \ {i} : d.up[j] = c.up[j]
  /\ d.next = c.next /\ d.free = Append(c.free, i)
  /\ d.count = (IF c.count = 0 THEN 0 ELSE c.count - 1)
  /\ d.opens = c.opens /\ d.orphans = c.orphans

LEMMA DropInodeIs ==
  ASSUME NEW c, Basic(c), NEW i \in LiveOf(c), c.kind[i] = "file"
  PROVE  Dropped(c, DropInode(c, i), i)
  <1> DEFINE d == DropInode(c, i)
  <1>1. i \in Inos /\ DOMAIN c.ents[i] = {} /\ Types(c)
    BY DEF LiveOf, Basic, Valid
  <1>2. /\ IsEngine(d) /\ d.kind = [c.kind EXCEPT ![i] = "none"]
        /\ d.nlink = [c.nlink EXCEPT ![i] = 0]
        /\ d.ents = [c.ents EXCEPT ![i] = NoEntries]
        /\ d.up = [c.up EXCEPT ![i] = ROOT_INO]
        /\ d.next = c.next /\ d.free = Append(c.free, i)
        /\ d.count = (IF c.count = 0 THEN 0 ELSE c.count - 1)
        /\ d.opens = c.opens /\ d.orphans = c.orphans
    BY <1>1 DEF DropInode, Types, IsEngine
  <1> HIDE DEF d
  <1>3. DOMAIN NoEntries = {} /\ NoEntries \in EntryMaps
    <2>1. DOMAIN NoEntries = {} /\ NoEntries \in [{} -> Entry]
      BY DEF NoEntries
    <2> QED BY <2>1, EntryMapsAre
  <1>4. d.ents \in [Inos -> EntryMaps] /\ SameEntries(c, d)
    <2>1. /\ d.ents \in [Inos -> EntryMaps] /\ d.ents[i] = NoEntries
          /\ \A q \in Inos \ {i} : d.ents[q] = c.ents[q]
      BY <1>1, <1>2, <1>3 DEF Types
    <2>2. \A q \in Inos : DOMAIN d.ents[q] = DOMAIN c.ents[q]
      BY <1>1, <1>3, <2>1
    <2>3. ASSUME NEW q \in Inos, NEW m \in DOMAIN d.ents[q] PROVE d.ents[q][m] = c.ents[q][m]
      BY <1>3, <2>1, <2>3
    <2> QED BY <2>1, <2>2, <2>3 DEF SameEntries
  <1>5. /\ d.kind \in [Inos -> Kinds] /\ d.nlink \in [Inos -> Nat] /\ d.up \in [Inos -> Inos]
        /\ \A j \in Inos \ {i} : d.nlink[j] = c.nlink[j] /\ d.up[j] = c.up[j]
    BY <1>1, <1>2, InosFinite DEF Types, Kinds
  <1>6. Types(d)
    BY <1>1, <1>2, <1>4, <1>5 DEF Types
  <1> QED BY <1>2, <1>4, <1>5, <1>6 DEF Dropped, d

LEMMA DroppedBasic ==
  ASSUME NEW c, NEW d, NEW i \in LiveOf(c), Basic(c), c.kind[i] = "file", c.nlink[i] = 0,
         Dropped(c, d, i)
  PROVE  /\ Basic(d) /\ LiveOf(d) = LiveOf(c) \ {i} /\ Dirs(d) = Dirs(c)
         /\ \A q \in Dirs(c) : d.up[q] = c.up[q]
  <1>1. /\ i \in Inos /\ i # ROOT_INO /\ DOMAIN c.ents[i] = {} /\ Types(c) /\ Types(d)
        /\ SameEntries(c, d)
    BY DEF LiveOf, Basic, Valid, Dropped
  <1>2. d.kind[i] = "none" /\ \A j \in Inos \ {i} : d.kind[j] = c.kind[j]
    <2>1. d.kind = [c.kind EXCEPT ![i] = "none"] /\ c.kind \in [Inos -> Kinds]
      BY <1>1 DEF Dropped, Types
    <2> QED BY <1>1, <2>1
  <1>3. LiveOf(d) = LiveOf(c) \ {i} /\ Dirs(d) = Dirs(c) /\ i \notin Dirs(c)
    BY <1>2 DEF LiveOf, Dirs
  <1>4. \A q \in Dirs(c) : d.up[q] = c.up[q]
    BY <1>3 DEF Dropped, Dirs
  <1>5. /\ \A j : LinksOf(d, j) = LinksOf(c, j) /\ LinkNum(d, j) = LinkNum(c, j)
        /\ \A q \in Inos : SubsOf(d, q) = SubsOf(c, q) /\ SubNum(d, q) = SubNum(c, q)
    BY <1>1, SameEntriesNums
  <1>6. LinksOf(c, i) = {}
    <2>1. LinkNum(c, i) = 0
      BY DEF Basic, Counts, Want
    <2> QED BY <2>1, LinksFinite, FS_EmptySet DEF LinkNum
  <1>7. Counts(d)
    <2> SUFFICES ASSUME NEW j \in LiveOf(c), j # i PROVE d.nlink[j] = Want(d, j)
      BY <1>3 DEF Counts
    <2>1. j \in Inos /\ c.nlink[j] = Want(c, j)
      BY DEF LiveOf, Basic, Counts
    <2> QED BY <1>2, <1>5, <2>1 DEF Want, Dropped
  <1>8. Valid(d)
    <2>1. \A q \in Inos : d.kind[q] # "dir" => DOMAIN d.ents[q] = {}
      BY <1>1, <1>2 DEF Basic, Valid, SameEntries
    <2>2. d.kind[ROOT_INO] = "dir"
      BY <1>1, <1>2, InosFinite DEF Basic, Valid
    <2>3. ASSUME NEW q \in Inos, NEW m \in DOMAIN d.ents[q]
          PROVE  /\ d.kind[d.ents[q][m].ino] = d.ents[q][m].ft
                 /\ d.ents[q][m].ino # ROOT_INO
                 /\ d.ents[q][m].ino # q
      <3>1. m \in DOMAIN c.ents[q] /\ d.ents[q][m] = c.ents[q][m]
        BY <1>1 DEF SameEntries
      <3>2. c.ents[q][m].ino \in Inos /\ m \in Names
        BY <1>1, <3>1, EntsAt
      <3>3. c.ents[q][m].ino # i
        <4> SUFFICES ASSUME c.ents[q][m].ino = i PROVE FALSE
          OBVIOUS
        <4>1. <<q, m>> \in LinksOf(c, i)
          BY <3>1, <3>2 DEF LinksOf
        <4> QED BY <1>6, <4>1
      <3> QED BY <1>2, <3>1, <3>2, <3>3 DEF Basic, Valid
    <2> QED BY <2>1, <2>2, <2>3 DEF Valid
  <1>9. Tree(d)
    BY <1>1, <1>3, <1>4, <1>5, InosFinite DEF Basic, Tree, Dropped
  <1>10. Numbers(d)
    <2> DEFINE F == (1..(c.next - 1)) \ LiveOf(c)
    <2>1. Enumerates(c.free, F) /\ LiveOf(c) \subseteq 1..(c.next - 1)
          /\ c.count = Cardinality(LiveOf(c))
      BY DEF Basic, Numbers
    <2>2. F \cup {i} = (1..(d.next - 1)) \ LiveOf(d) /\ i \notin F
      BY <1>3, <2>1 DEF Dropped
    <2> HIDE DEF F
    <2>3. Enumerates(d.free, F \cup {i})
      BY <2>1, <2>2, EnumeratesAppend DEF Dropped
    <2>4. IsFiniteSet(LiveOf(c))
      BY InosFinite, FS_Subset DEF LiveOf
    <2>5. Cardinality(LiveOf(d)) = Cardinality(LiveOf(c)) - 1 /\ Cardinality(LiveOf(c)) \in Nat
          /\ Cardinality(LiveOf(d)) \in Nat
      BY <1>3, <2>4, FS_RemoveElement, FS_CardinalityType
    <2>6. d.count = Cardinality(LiveOf(d))
      BY <2>1, <2>5 DEF Dropped
    <2> QED BY <1>3, <2>1, <2>2, <2>3, <2>6 DEF Numbers, Dropped
  <1> QED BY <1>1, <1>3, <1>4, <1>7, <1>8, <1>9, <1>10 DEF Basic

\* What unlink_name leaves behind.
Unlinked(s, d, p, n) ==
  /\ Basic(d) /\ Orph(d) /\ Removed(s, d, p, n)
  /\ Dirs(d) = Dirs(s) /\ \A q \in Dirs(s) : d.up[q] = s.up[q]
  /\ d.opens = s.opens
  /\ \A j \in Inos \ {s.ents[p][n].ino} : d.kind[j] = s.kind[j]

\* An inode disappears only when no handle is counted for it.
KeepsOpen(s, d) ==
  \A j \in Inos : s.kind[j] # "none" /\ d.kind[j] = "none" => d.opens[j] = 0

LEMMA UnlinkNameIs ==
  ASSUME NEW s, Basic(s), Orph(s), NEW p \in Dirs(s), NEW n \in DOMAIN s.ents[p]
  PROVE  Unlinked(s, UnlinkName(s, p, n), p, n) /\ KeepsOpen(s, UnlinkName(s, p, n))
  <1> DEFINE i == s.ents[p][n].ino
             k == s.ents[p][n].ft
             c == CutOf(s, p, n)
             o == [c EXCEPT !.orphans = @ \cup {i}]
             d == UnlinkName(s, p, n)
  <1>1. /\ i \in Inos /\ k \in {"file", "dir"} /\ i # p /\ i # ROOT_INO
        /\ s.kind[i] = k /\ i \in LiveOf(s) /\ p \in Inos
        /\ s.nlink[i] \in Nat /\ s.nlink[i] >= (IF k = "dir" THEN 2 ELSE 1)
        /\ s.nlink[p] \in Nat /\ s.nlink[p] >= (IF k = "dir" THEN 2 ELSE 1)
    BY EntryFacts
  <1>2. d = IF c.nlink[i] # 0 THEN c ELSE IF c.opens[i] = 0 THEN DropInode(c, i) ELSE o
    BY DEF UnlinkName, CutOf
  <1>3. Cut(s, c, p, n)
    BY CutIs
  <1> HIDE DEF c, d
  <1>4. Basic(c) /\ (c.nlink[i] = 0 => k = "file") /\ c.nlink[p] # 0
    BY <1>3, CutBasic
  <1>5. /\ Types(c) /\ SameNames(s, c) /\ Removed(s, c, p, n)
        /\ \A j \in Inos \ {i, p} : c.nlink[j] = s.nlink[j]
    BY <1>3 DEF Cut
  <1> HIDE DEF i, k
  <1>6. /\ c.kind = s.kind /\ c.up = s.up /\ c.opens = s.opens /\ c.orphans = s.orphans
        /\ LiveOf(c) = LiveOf(s) /\ Dirs(c) = Dirs(s)
    BY <1>5 DEF SameNames, LiveOf, Dirs
  <1>7. s.orphans = {j \in LiveOf(c) \ {i} : c.nlink[j] = 0}
    <2>1. s.orphans = {j \in LiveOf(s) : s.nlink[j] = 0} /\ s.nlink[i] # 0 /\ s.nlink[p] # 0
      BY <1>1 DEF Orph
    <2>2. ASSUME NEW j \in LiveOf(s), j # i PROVE c.nlink[j] = 0 <=> s.nlink[j] = 0
      <3>1. CASE j = p
        BY <1>4, <2>1, <3>1
      <3>2. CASE j # p
        BY <1>5, <2>2, <3>2 DEF LiveOf
      <3> QED BY <3>1, <3>2
    <2> QED BY <1>6, <2>1, <2>2
  <1>8. CASE c.nlink[i] # 0
    <2>1. d = c
      BY <1>2, <1>8
    <2>2. Orph(c)
      BY <1>6, <1>7, <1>8 DEF Orph
    <2> QED BY <1>4, <1>5, <1>6, <2>1, <2>2 DEF Unlinked, KeepsOpen, d
  <1>9. CASE c.nlink[i] = 0 /\ c.opens[i] = 0
    <2>1. d = DropInode(c, i) /\ i \in LiveOf(c) /\ c.kind[i] = "file"
      BY <1>1, <1>2, <1>4, <1>6, <1>9
    <2>2. Dropped(c, d, i)
      BY <1>4, <2>1, DropInodeIs
    <2>3. /\ Basic(d) /\ LiveOf(d) = LiveOf(c) \ {i} /\ Dirs(d) = Dirs(c)
          /\ \A q \in Dirs(c) : d.up[q] = c.up[q]
      BY <1>4, <1>9, <2>1, <2>2, DroppedBasic
    <2>4. /\ \A j \in Inos \ {i} : d.kind[j] = c.kind[j] /\ d.nlink[j] = c.nlink[j]
          /\ d.opens = c.opens /\ d.orphans = c.orphans
      BY <1>1, <1>5, <2>2 DEF Dropped, Types
    <2>5. Removed(s, d, p, n)
      BY <1>5, <2>2 DEF Dropped, SameEntries, Removed
    <2>6. Orph(d)
      <3>1. \A j \in LiveOf(c) \ {i} : d.nlink[j] = c.nlink[j] /\ d.kind[j] = c.kind[j]
        BY <2>4 DEF LiveOf
      <3>2. d.orphans = {j \in LiveOf(d) : d.nlink[j] = 0}
        BY <1>6, <1>7, <2>3, <2>4, <3>1
      <3>3. \A j \in d.orphans : j \in LiveOf(c) \ {i}
        BY <2>3, <3>2
      <3> QED BY <1>6, <2>4, <3>1, <3>2, <3>3 DEF Orph
    <2>7. Unlinked(s, d, p, n)
      BY <1>6, <2>3, <2>4, <2>5, <2>6 DEF Unlinked, i
    <2>8. KeepsOpen(s, d)
      BY <1>6, <1>9, <2>4 DEF KeepsOpen
    <2> QED BY <2>7, <2>8 DEF d
  <1>10. CASE c.nlink[i] = 0 /\ c.opens[i] # 0
    <2>1. d = o
      BY <1>2, <1>10
    <2>2. /\ IsEngine(o) /\ o.kind = c.kind /\ o.nlink = c.nlink /\ o.ents = c.ents
          /\ o.up = c.up /\ o.free = c.free /\ o.next = c.next /\ o.count = c.count
          /\ o.opens = c.opens /\ o.orphans = c.orphans \cup {i}
      BY <1>5 DEF Types, IsEngine
    <2> HIDE DEF o
    <2>3. SameEntries(c, o) /\ LiveOf(o) = LiveOf(c) /\ Dirs(o) = Dirs(c)
      BY <2>2 DEF SameEntries, LiveOf, Dirs
    <2>4. Types(o)
      BY <1>1, <1>5, <2>2 DEF Types
    <2>5. Valid(o) /\ Numbers(o)
      BY <1>4, <2>2, NumbersSame DEF Basic, Valid
    <2>6. Counts(o) /\ Tree(o)
      <3>1. /\ \A j : LinksOf(o, j) = LinksOf(c, j) /\ LinkNum(o, j) = LinkNum(c, j)
            /\ \A q \in Inos : SubsOf(o, q) = SubsOf(c, q) /\ SubNum(o, q) = SubNum(c, q)
        BY <2>3, SameEntriesNums
      <3>2. Counts(o)
        <4> SUFFICES ASSUME NEW j \in LiveOf(c) PROVE o.nlink[j] = Want(o, j)
          BY <2>3 DEF Counts
        <4>1. j \in Inos /\ c.nlink[j] = Want(c, j)
          BY <1>4 DEF LiveOf, Basic, Counts
        <4> QED BY <2>2, <3>1, <4>1 DEF Want
      <3>3. Tree(o)
        BY <1>4, <2>2, <2>3, <3>1 DEF Basic, Tree
      <3> QED BY <3>2, <3>3
    <2>7. Removed(s, o, p, n)
      BY <1>5, <2>2 DEF Removed
    <2>8. Orph(o)
      <3>1. c.opens[i] \in Nat /\ c.opens[i] > 0
        BY <1>1, <1>5, <1>10 DEF Types
      <3>2. i \in LiveOf(c) /\ o.orphans = {j \in LiveOf(o) : o.nlink[j] = 0}
        BY <1>1, <1>6, <1>7, <1>10, <2>2, <2>3
      <3>3. c.kind[i] = "file"
        BY <1>1, <1>4, <1>6, <1>10
      <3> QED BY <1>6, <2>2, <3>1, <3>2, <3>3 DEF Orph
    <2>9. Unlinked(s, o, p, n)
      BY <1>6, <2>2, <2>3, <2>4, <2>5, <2>6, <2>7, <2>8 DEF Unlinked, Basic
    <2>10. KeepsOpen(s, o)
      BY <1>6, <2>2 DEF KeepsOpen
    <2> QED BY <2>1, <2>9, <2>10 DEF d
  <1> QED BY <1>8, <1>9, <1>10

\* Handles and orphans aside, an engine is its inodes and entries.
LEMMA BasicSame ==
  ASSUME NEW s, NEW d, Basic(s), Types(d), d.ents = s.ents, d.nlink = s.nlink, d.kind = s.kind,
         d.up = s.up, d.free = s.free, d.next = s.next, d.count = s.count
  PROVE  Basic(d) /\ LiveOf(d) = LiveOf(s) /\ Dirs(d) = Dirs(s)
  <1>1. SameEntries(s, d) /\ LiveOf(d) = LiveOf(s) /\ Dirs(d) = Dirs(s)
    BY DEF SameEntries, LiveOf, Dirs
  <1>2. /\ \A j : LinksOf(d, j) = LinksOf(s, j) /\ LinkNum(d, j) = LinkNum(s, j)
        /\ \A q \in Inos : SubsOf(d, q) = SubsOf(s, q) /\ SubNum(d, q) = SubNum(s, q)
    BY <1>1, SameEntriesNums
  <1>3. Counts(d)
    <2> SUFFICES ASSUME NEW j \in LiveOf(s) PROVE d.nlink[j] = Want(d, j)
      BY <1>1 DEF Counts
    <2>1. j \in Inos /\ s.nlink[j] = Want(s, j)
      BY DEF LiveOf, Basic, Counts
    <2> QED BY <1>2, <2>1 DEF Want
  <1>4. Tree(d)
    BY <1>1, <1>2 DEF Basic, Tree
  <1>5. Valid(d) /\ Numbers(d)
    BY NumbersSame DEF Basic, Valid
  <1> QED BY <1>1, <1>3, <1>4, <1>5 DEF Basic

-----------------------------------------------------------------------------
(* Inner::link_into and Inner::dec_open. *)

\* What a call may do to the directories: nothing.
SameDirs(s, d) == Dirs(d) = Dirs(s) /\ \A q \in Dirs(s) : d.up[q] = s.up[q]

Linked(s, d) == Basic(d) /\ Orph(d) /\ d.opens = s.opens /\ d.kind = s.kind /\ SameDirs(s, d)

LEMMA LinkIntoIs ==
  ASSUME NEW s, Basic(s), Orph(s), NEW q \in Dirs(s), NEW m \in DOMAIN s.ents[q],
         NEW p \in Dirs(s), NEW n \in Names, ~ Has(s, p, n), s.kind[s.ents[q][m].ino] # "dir"
  PROVE  Linked(s, LinkInto(s, s.ents[q][m].ino, p, n))
  <1> DEFINE i == s.ents[q][m].ino
             b == DirInsert(s, p, n, i, s.kind[i])
             d == Inc(b, i)
  <1>1. /\ i \in Inos /\ i # q /\ i # ROOT_INO /\ i \in LiveOf(s)
        /\ s.kind[i] \in {"file", "dir"} /\ s.nlink[i] \in Nat /\ s.nlink[i] >= 1
    BY EntryFacts
  <1>2. s.kind[i] = "file"
    BY <1>1
  <1>3. p \in Inos /\ s.kind[p] = "dir" /\ n \notin DOMAIN s.ents[p] /\ Types(s) /\ i # p
    BY <1>2 DEF Dirs, Has, Basic
  <1> HIDE DEF i
  <1>4. /\ Types(b) /\ SameNames(s, b) /\ b.nlink = s.nlink /\ Removed(b, s, p, n)
        /\ b.ents[p][n].ino = i /\ b.ents[p][n].ft = "file"
    BY <1>1, <1>2, <1>3, DirInsertIs
  <1> HIDE DEF b
  <1>5. Relinked(b, d, i, b.nlink[i] + 1)
    BY <1>1, <1>4, IncIs
  <1> HIDE DEF d
  <1>6. /\ Types(d) /\ SameNames(s, d) /\ d.ents = b.ents
        /\ d.nlink[i] = s.nlink[i] + 1 /\ \A j \in Inos \ {i} : d.nlink[j] = s.nlink[j]
    BY <1>4, <1>5 DEF Relinked, SameNames
  <1>7. Removed(d, s, p, n) /\ d.ents[p][n].ino = i /\ d.ents[p][n].ft = "file"
    BY <1>4, <1>6 DEF Removed
  <1>8. d.kind = s.kind /\ d.up = s.up /\ LiveOf(d) = LiveOf(s) /\ Dirs(d) = Dirs(s)
        /\ d.opens = s.opens /\ d.orphans = s.orphans
    BY <1>6 DEF SameNames, LiveOf, Dirs
  <1>9. /\ \A j : LinksOf(s, j) = LinksOf(d, j) \ {<<p, n>>}
        /\ \A j : <<p, n>> \in LinksOf(d, j) <=> j = i
    BY <1>6, <1>7, RemovedLinks
  <1>10. /\ \A j : LinkNum(d, j) = LinkNum(s, j) + (IF j = i THEN 1 ELSE 0)
         /\ \A x \in Inos : SubNum(d, x) = SubNum(s, x)
    <2>1. /\ \A j : LinkNum(d, j) = LinkNum(s, j) + (IF j = i THEN 1 ELSE 0)
          /\ \A x \in Inos : SubNum(d, x) = SubNum(s, x)
                               + (IF x = p /\ d.ents[p][n].ft = "dir" THEN 1 ELSE 0)
      BY <1>6, <1>7, RemovedNums
    <2>2. \A x : SubNum(s, x) \in Nat
      BY LinksFinite
    <2> QED BY <1>7, <2>1, <2>2
  <1>11. Counts(d)
    <2> SUFFICES ASSUME NEW j \in LiveOf(s) PROVE d.nlink[j] = Want(d, j)
      BY <1>8 DEF Counts
    <2>1. j \in Inos /\ LinkNum(s, j) \in Nat /\ s.nlink[j] = Want(s, j)
      BY LinksFinite DEF LiveOf, Basic, Counts
    <2>2. CASE j = i
      BY <1>2, <1>6, <1>8, <1>10, <2>1, <2>2 DEF Want
    <2>3. CASE j # i
      BY <1>6, <1>8, <1>10, <2>1, <2>3 DEF Want
    <2> QED BY <2>2, <2>3
  <1>12. Valid(d)
    <2>1. /\ \A x \in Inos \ {p} : DOMAIN d.ents[x] = DOMAIN s.ents[x]
          /\ DOMAIN s.ents[p] = DOMAIN d.ents[p] \ {n}
          /\ \A x \in Inos : \A y \in DOMAIN s.ents[x] : d.ents[x][y] = s.ents[x][y]
      BY <1>7 DEF Removed
    <2>2. \A x \in Inos : d.kind[x] # "dir" => DOMAIN d.ents[x] = {}
      BY <1>3, <1>8, <2>1 DEF Basic, Valid
    <2>3. ASSUME NEW x \in Inos, NEW y \in DOMAIN d.ents[x]
          PROVE  /\ d.kind[d.ents[x][y].ino] = d.ents[x][y].ft
                 /\ d.ents[x][y].ino # ROOT_INO
                 /\ d.ents[x][y].ino # x
      <3>1. CASE x = p /\ y = n
        BY <1>1, <1>2, <1>3, <1>7, <1>8, <3>1
      <3>2. CASE ~ (x = p /\ y = n)
        <4>1. y \in DOMAIN s.ents[x] /\ d.ents[x][y] = s.ents[x][y]
          BY <2>1, <3>2
        <4> QED BY <1>8, <4>1 DEF Basic, Valid
      <3> QED BY <3>1, <3>2
    <2> QED BY <1>8, <2>2, <2>3 DEF Basic, Valid
  <1>13. Tree(d)
    <2>1. \A x \in Dirs(s) : LinksOf(d, x) = LinksOf(s, x)
      <3>1. \A x \in Dirs(s) : x # i
        BY <1>2 DEF Dirs
      <3> QED BY <1>9, <3>1
    <2> QED BY <1>8, <2>1 DEF Basic, Tree
  <1>14. Orph(d)
    <2>1. d.nlink[i] # 0 /\ s.nlink[i] # 0
      BY <1>1, <1>6
    <2>2. \A j \in LiveOf(s) : d.nlink[j] = 0 <=> s.nlink[j] = 0
      BY <1>6, <2>1 DEF LiveOf
    <2> QED BY <1>8, <2>2 DEF Orph
  <1>15. Numbers(d)
    BY <1>6, NumbersSame DEF Basic, SameNames
  <1>16. Linked(s, d)
    BY <1>6, <1>8, <1>11, <1>12, <1>13, <1>14, <1>15 DEF Linked, Basic, SameDirs
  <1> QED BY <1>16 DEF LinkInto, d, b, i

\* The count of open handles of inode i becomes v.
LEMMA OpensIs ==
  ASSUME NEW s, Basic(s), NEW i \in Inos, NEW v \in Nat
  PROVE  LET d == [s EXCEPT !.opens[i] = v] IN
         /\ Basic(d) /\ LiveOf(d) = LiveOf(s) /\ d.kind = s.kind /\ d.nlink = s.nlink
         /\ SameDirs(s, d) /\ d.orphans = s.orphans
         /\ d.opens[i] = v /\ \A j \in Inos \ {i} : d.opens[j] = s.opens[j]
  <1> DEFINE d == [s EXCEPT !.opens[i] = v]
  <1>1. /\ IsEngine(d) /\ d.ents = s.ents /\ d.nlink = s.nlink /\ d.kind = s.kind
        /\ d.up = s.up /\ d.free = s.free /\ d.next = s.next /\ d.count = s.count
        /\ d.opens = [s.opens EXCEPT ![i] = v] /\ d.orphans = s.orphans
    BY DEF Basic, Types, IsEngine
  <1> HIDE DEF d
  <1>2. /\ d.opens \in [Inos -> Nat] /\ d.opens[i] = v
        /\ \A j \in Inos \ {i} : d.opens[j] = s.opens[j]
    BY <1>1 DEF Basic, Types
  <1>3. Types(d)
    BY <1>1, <1>2 DEF Basic, Types
  <1>4. Basic(d) /\ LiveOf(d) = LiveOf(s) /\ Dirs(d) = Dirs(s)
    BY <1>1, <1>3, BasicSame
  <1> QED BY <1>1, <1>2, <1>4 DEF SameDirs, d

\* File::new and try_clone.
LEMMA IncOpenIs ==
  ASSUME NEW s, Basic(s), Orph(s), NEW i \in Inos
  PROVE  LET d == [s EXCEPT !.opens[i] = @ + 1] IN
         /\ Basic(d) /\ Orph(d) /\ d.kind = s.kind /\ SameDirs(s, d)
         /\ d.opens[i] = s.opens[i] + 1 /\ \A j \in Inos \ {i} : d.opens[j] = s.opens[j]
  <1> DEFINE v == s.opens[i] + 1
             d == [s EXCEPT !.opens[i] = v]
  <1>1. s.opens \in [Inos -> Nat] /\ v \in Nat /\ v > 0
    BY DEF Basic, Types
  <1>2. d = [s EXCEPT !.opens[i] = @ + 1]
    OBVIOUS
  <1> HIDE DEF v
  <1>3. /\ Basic(d) /\ LiveOf(d) = LiveOf(s) /\ d.kind = s.kind /\ d.nlink = s.nlink
        /\ SameDirs(s, d) /\ d.orphans = s.orphans
        /\ d.opens[i] = v /\ \A j \in Inos \ {i} : d.opens[j] = s.opens[j]
    BY <1>1, OpensIs
  <1> HIDE DEF d
  <1>4. \A j \in s.orphans : s.opens[j] > 0 => d.opens[j] > 0
    BY <1>1, <1>3 DEF Basic, Types
  <1>5. Orph(d)
    BY <1>3, <1>4 DEF Orph
  <1> QED BY <1>2, <1>3, <1>5 DEF v

\* What dec_open does to the engine when the count of i goes down to v.
Released(s, d, i, v) ==
  /\ Basic(d) /\ Orph(d) /\ SameDirs(s, d) /\ KeepsOpen(s, d)
  /\ d.opens[i] = v /\ \A j \in Inos \ {i} : d.opens[j] = s.opens[j] /\ d.kind[j] = s.kind[j]

LEMMA DecOpenIs ==
  ASSUME NEW s, Basic(s), Orph(s), NEW i \in Inos, s.opens[i] # 0
  PROVE  Released(s, DecOpen(s, i), i, s.opens[i] - 1)
  <1> DEFINE v == s.opens[i] - 1
             a == [s EXCEPT !.opens[i] = v]
             b == [a EXCEPT !.orphans = @ \ {i}]
             d == DecOpen(s, i)
  <1>1. v \in Nat
    BY DEF Basic, Types
  <1>2. d = IF a.opens[i] # 0 THEN a
            ELSE IF i \in s.orphans /\ s.nlink[i] = 0 THEN DropInode(b, i) ELSE b
    BY DEF DecOpen
  <1> HIDE DEF v, d
  <1>3. /\ Basic(a) /\ LiveOf(a) = LiveOf(s) /\ a.kind = s.kind /\ a.nlink = s.nlink
        /\ SameDirs(s, a) /\ a.orphans = s.orphans
        /\ a.opens[i] = v /\ \A j \in Inos \ {i} : a.opens[j] = s.opens[j]
    BY <1>1, OpensIs
  <1> HIDE DEF a
  <1>4. /\ IsEngine(b) /\ b.ents = a.ents /\ b.nlink = a.nlink /\ b.kind = a.kind
        /\ b.up = a.up /\ b.free = a.free /\ b.next = a.next /\ b.count = a.count
        /\ b.opens = a.opens /\ b.orphans = a.orphans \ {i}
    BY <1>3 DEF Basic, Types, IsEngine
  <1> HIDE DEF b
  <1>5. Types(b)
    BY <1>3, <1>4 DEF Basic, Types
  <1>6. Basic(b) /\ LiveOf(b) = LiveOf(a) /\ Dirs(b) = Dirs(a)
    BY <1>3, <1>4, <1>5, BasicSame
  <1>7. s.orphans \subseteq Inos
    BY DEF Basic, Types
  <1>8. CASE v # 0
    <2>1. d = a
      BY <1>2, <1>3, <1>8
    <2>2. Orph(a)
      <3>1. \A j \in a.orphans : a.kind[j] = "file" /\ a.opens[j] > 0
        BY <1>1, <1>3, <1>7, <1>8 DEF Orph
      <3> QED BY <1>3, <3>1 DEF Orph
    <2>3. Released(s, a, i, v)
      BY <1>3, <2>2 DEF Released, KeepsOpen
    <2> QED BY <2>1, <2>3 DEF v, d
  <1>9. CASE v = 0 /\ i \in s.orphans
    <2>1. s.nlink[i] = 0 /\ i \in LiveOf(s) /\ s.kind[i] = "file"
      BY <1>9 DEF Orph
    <2>2. d = DropInode(b, i)
      BY <1>2, <1>3, <1>9, <2>1
    <2>3. i \in LiveOf(b) /\ b.kind[i] = "file" /\ b.nlink[i] = 0
      BY <1>3, <1>4, <1>6, <2>1
    <2>4. Dropped(b, d, i)
      BY <1>6, <2>2, <2>3, DropInodeIs
    <2>5. /\ Basic(d) /\ LiveOf(d) = LiveOf(b) \ {i} /\ Dirs(d) = Dirs(b)
          /\ \A q \in Dirs(b) : d.up[q] = b.up[q]
      BY <1>6, <2>3, <2>4, DroppedBasic
    <2>6. /\ \A j \in Inos \ {i} : d.kind[j] = b.kind[j] /\ d.nlink[j] = b.nlink[j]
          /\ d.opens = b.opens /\ d.orphans = b.orphans
      BY <1>5, <2>4 DEF Dropped, Types
    <2>7. Orph(d)
      <3>1. d.orphans = s.orphans \ {i} /\ LiveOf(d) = LiveOf(s) \ {i}
        BY <1>3, <1>4, <1>6, <2>5, <2>6
      <3>2. \A j \in LiveOf(s) \ {i} : d.nlink[j] = s.nlink[j] /\ d.kind[j] = s.kind[j]
                                       /\ d.opens[j] = s.opens[j]
        BY <1>3, <1>4, <2>6 DEF LiveOf
      <3>3. d.orphans = {j \in LiveOf(d) : d.nlink[j] = 0}
        BY <3>1, <3>2 DEF Orph
      <3>4. \A j \in d.orphans : j \in LiveOf(s) \ {i} /\ j \in s.orphans
        BY <3>1, <3>3
      <3> QED BY <3>2, <3>3, <3>4 DEF Orph
    <2>8. SameDirs(s, d)
      BY <1>3, <1>4, <1>6, <2>5 DEF SameDirs
    <2>9. KeepsOpen(s, d)
      BY <1>3, <1>4, <1>9, <2>6 DEF KeepsOpen
    <2>10. Released(s, d, i, v)
      BY <1>3, <1>4, <2>5, <2>6, <2>7, <2>8, <2>9 DEF Released
    <2> QED BY <2>10 DEF v, d
  <1>10. CASE v = 0 /\ i \notin s.orphans
    <2>1. d = b
      BY <1>2, <1>3, <1>10
    <2>2. b.orphans = s.orphans
      BY <1>3, <1>4, <1>10
    <2>3. Orph(b)
      BY <1>3, <1>4, <1>6, <1>7, <1>10, <2>2 DEF Orph
    <2>4. Released(s, b, i, v)
      BY <1>3, <1>4, <1>6, <2>3 DEF Released, KeepsOpen, SameDirs
    <2> QED BY <2>1, <2>4 DEF v, d
  <1> QED BY <1>8, <1>9, <1>10

-----------------------------------------------------------------------------
(* Inner::rename. *)

\* Moving the entry, once the target is out of the way.
MoveOf(s, op, on, np, nn) ==
  LET e == s.ents[op][on]
      b == DirInsert(DirRemove(s, op, on), np, nn, e.ino, e.ft)
  IN IF e.ft = "dir" /\ op # np
     THEN Inc(Dec([b EXCEPT !.up[e.ino] = np], op), np)
     ELSE b

Moved(s, f, op, on, np, nn) ==
  LET i == s.ents[op][on].ino
      k == s.ents[op][on].ft
      far == k = "dir" /\ op # np IN
  /\ Types(f) /\ f.kind = s.kind /\ f.opens = s.opens /\ f.orphans = s.orphans
  /\ f.free = s.free /\ f.next = s.next /\ f.count = s.count
  /\ \E r : Types(r) /\ Removed(s, r, op, on) /\ Removed(f, r, np, nn)
  /\ f.ents[np][nn].ino = i /\ f.ents[np][nn].ft = k
  /\ k = "dir" => f.up[i] = np
  /\ \A j \in Inos : k # "dir" \/ j # i => f.up[j] = s.up[j]
  /\ f.nlink[op] = (IF far THEN s.nlink[op] - 1 ELSE s.nlink[op])
  /\ f.nlink[np] = (IF far THEN s.nlink[np] + 1 ELSE s.nlink[np])
  /\ \A j \in Inos \ {op, np} : f.nlink[j] = s.nlink[j]

LEMMA MoveIs ==
  ASSUME NEW s, Basic(s), NEW op \in Dirs(s), NEW on \in DOMAIN s.ents[op],
         NEW np \in Dirs(s), NEW nn \in Names, nn \notin DOMAIN s.ents[np]
  PROVE  Moved(s, MoveOf(s, op, on, np, nn), op, on, np, nn)
  <1> DEFINE i == s.ents[op][on].ino
             k == s.ents[op][on].ft
             r == DirRemove(s, op, on)
             b == DirInsert(r, np, nn, i, k)
             u == [b EXCEPT !.up[i] = np]
             c == Dec(u, op)
             f == MoveOf(s, op, on, np, nn)
  <1>1. /\ i \in Inos /\ k \in {"file", "dir"} /\ i # op /\ s.kind[i] = k /\ op \in Inos
        /\ s.nlink[op] \in Nat /\ s.nlink[op] >= (IF k = "dir" THEN 2 ELSE 1)
    BY EntryFacts
  <1>2. np \in Inos /\ Types(s)
    BY DEF Dirs, Basic
  <1>3. f = IF k = "dir" /\ op # np THEN Inc(c, np) ELSE b
    BY DEF MoveOf
  <1>4. k = "dir" => s.up[i] = op
    <2> SUFFICES ASSUME k = "dir" PROVE s.up[i] = op
      OBVIOUS
    <2>1. <<op, on>> \in LinksOf(s, i) /\ i \in Dirs(s)
      BY <1>1, <1>2, EntsAt DEF LinksOf, Dirs
    <2> QED BY <2>1 DEF Basic, Tree
  <1>5. Types(r) /\ SameNames(s, r) /\ r.nlink = s.nlink /\ Removed(s, r, op, on)
    BY <1>1, <1>2, DirRemoveIs
  <1> HIDE DEF i, k, r, f
  <1>6. nn \notin DOMAIN r.ents[np]
    BY <1>2, <1>5 DEF Removed
  <1>7. /\ Types(b) /\ SameNames(r, b) /\ b.nlink = r.nlink /\ Removed(b, r, np, nn)
        /\ b.ents[np][nn].ino = i /\ b.ents[np][nn].ft = k
    BY <1>1, <1>2, <1>5, <1>6, DirInsertIs
  <1> HIDE DEF b
  <1>8. CASE k = "dir" /\ op # np
    <2>1. /\ IsEngine(u) /\ u.ents = b.ents /\ u.nlink = b.nlink /\ u.kind = b.kind
          /\ u.free = b.free /\ u.next = b.next /\ u.count = b.count
          /\ u.opens = b.opens /\ u.orphans = b.orphans
          /\ u.up = [b.up EXCEPT ![i] = np]
      BY <1>7 DEF Types, IsEngine
    <2> HIDE DEF u
    <2>2. /\ u.up \in [Inos -> Inos] /\ u.up[i] = np
          /\ \A j \in Inos \ {i} : u.up[j] = b.up[j]
      BY <1>1, <1>2, <1>7, <2>1 DEF Types
    <2>3. Types(u)
      BY <1>7, <2>1, <2>2 DEF Types
    <2>4. u.nlink = s.nlink /\ u.nlink[op] # 0
      BY <1>1, <1>5, <1>7, <2>1
    <2>5. Relinked(u, c, op, u.nlink[op] - 1)
      BY <1>1, <2>3, <2>4, DecIs
    <2> HIDE DEF c
    <2>6. f = Inc(c, np) /\ Types(c)
      BY <1>3, <1>8, <2>5 DEF Relinked
    <2>7. Relinked(c, f, np, c.nlink[np] + 1)
      BY <1>2, <2>6, IncIs
    <2>8. /\ Types(f) /\ f.ents = b.ents /\ f.kind = s.kind /\ f.opens = s.opens
          /\ f.orphans = s.orphans /\ f.free = s.free /\ f.next = s.next /\ f.count = s.count
          /\ f.up = u.up
      BY <1>5, <1>7, <2>1, <2>5, <2>7 DEF Relinked, SameNames
    <2>9. /\ f.nlink[op] = s.nlink[op] - 1 /\ f.nlink[np] = s.nlink[np] + 1
          /\ \A j \in Inos \ {op, np} : f.nlink[j] = s.nlink[j]
      BY <1>1, <1>2, <1>8, <2>4, <2>5, <2>7 DEF Relinked
    <2>10. Removed(f, r, np, nn) /\ f.ents[np][nn].ino = i /\ f.ents[np][nn].ft = k
      BY <1>7, <2>8 DEF Removed
    <2>11. f.up[i] = np /\ \A j \in Inos \ {i} : f.up[j] = s.up[j]
      BY <1>5, <1>7, <2>2, <2>8 DEF SameNames
    <2> QED BY <1>5, <1>8, <2>8, <2>9, <2>10, <2>11 DEF Moved, i, k, f
  <1>9. CASE ~ (k = "dir" /\ op # np)
    <2>1. f = b
      BY <1>3, <1>9
    <2>2. /\ f.kind = s.kind /\ f.opens = s.opens /\ f.nlink = s.nlink /\ f.up = s.up
          /\ f.orphans = s.orphans /\ f.free = s.free /\ f.next = s.next /\ f.count = s.count
      BY <1>5, <1>7, <2>1 DEF SameNames
    <2>3. k = "dir" => f.up[i] = np
      BY <1>4, <1>9, <2>2
    <2> QED BY <1>5, <1>7, <1>9, <2>1, <2>2, <2>3 DEF Moved, i, k, f
  <1> QED BY <1>8, <1>9

LEMMA MovedBasic ==
  ASSUME NEW s, NEW f, NEW op \in Dirs(s), NEW on \in DOMAIN s.ents[op],
         NEW np \in Dirs(s), NEW nn, Basic(s), Orph(s), Moved(s, f, op, on, np, nn),
         s.ents[op][on].ft = "dir" => s.ents[op][on].ino # np
  PROVE  Basic(f) /\ Orph(f) /\ Dirs(f) = Dirs(s)
  <1> DEFINE i == s.ents[op][on].ino
             k == s.ents[op][on].ft
             far == k = "dir" /\ op # np
  <1>1. /\ i \in Inos /\ k \in {"file", "dir"} /\ i # op /\ i # ROOT_INO
        /\ s.kind[i] = k /\ i \in LiveOf(s) /\ op \in Inos
    BY EntryFacts
  <1>2. np \in Inos /\ s.kind[np] = "dir" /\ Types(s) /\ i # np /\ s.kind[op] = "dir"
    BY <1>1 DEF Dirs, Basic
  <1>3. /\ Types(f) /\ f.kind = s.kind /\ f.opens = s.opens /\ f.orphans = s.orphans
        /\ f.free = s.free /\ f.next = s.next /\ f.count = s.count
        /\ f.ents[np][nn].ino = i /\ f.ents[np][nn].ft = k
        /\ k = "dir" => f.up[i] = np
        /\ \A j \in Inos : k # "dir" \/ j # i => f.up[j] = s.up[j]
        /\ f.nlink[op] = (IF far THEN s.nlink[op] - 1 ELSE s.nlink[op])
        /\ f.nlink[np] = (IF far THEN s.nlink[np] + 1 ELSE s.nlink[np])
        /\ \A j \in Inos \ {op, np} : f.nlink[j] = s.nlink[j]
    BY DEF Moved
  <1>4. PICK r : Types(r) /\ Removed(s, r, op, on) /\ Removed(f, r, np, nn)
    BY DEF Moved
  <1>5. /\ \A j : LinksOf(r, j) = LinksOf(s, j) \ {<<op, on>>}
        /\ \A j : <<op, on>> \in LinksOf(s, j) <=> j = i
    BY <1>2, <1>4, RemovedLinks
  <1>6. /\ \A j : LinksOf(r, j) = LinksOf(f, j) \ {<<np, nn>>}
        /\ \A j : <<np, nn>> \in LinksOf(f, j) <=> j = i
    BY <1>3, <1>4, RemovedLinks
  <1>7. /\ \A j : LinkNum(s, j) = LinkNum(r, j) + (IF j = i THEN 1 ELSE 0)
        /\ \A q \in Inos : SubNum(s, q) = SubNum(r, q) + (IF q = op /\ k = "dir" THEN 1 ELSE 0)
    BY <1>2, <1>4, RemovedNums
  <1>8. /\ \A j : LinkNum(f, j) = LinkNum(r, j) + (IF j = i THEN 1 ELSE 0)
        /\ \A q \in Inos : SubNum(f, q) = SubNum(r, q) + (IF q = np /\ k = "dir" THEN 1 ELSE 0)
    BY <1>3, <1>4, RemovedNums
  <1>9. /\ \A q \in Inos : \A m \in DOMAIN f.ents[q] :
             \/ q = np /\ m = nn
             \/ m \in DOMAIN s.ents[q] /\ f.ents[q][m] = s.ents[q][m]
        /\ \A q \in Inos \ {np} : DOMAIN f.ents[q] \subseteq DOMAIN s.ents[q]
    BY <1>4 DEF Removed
  <1> HIDE DEF i, k
  <1>10. LiveOf(f) = LiveOf(s) /\ Dirs(f) = Dirs(s)
    BY <1>3 DEF LiveOf, Dirs
  <1>11. Valid(f)
    <2>1. \A q \in Inos : f.kind[q] # "dir" => DOMAIN f.ents[q] = {}
      BY <1>2, <1>3, <1>9 DEF Basic, Valid
    <2>2. ASSUME NEW q \in Inos, NEW m \in DOMAIN f.ents[q]
          PROVE  /\ f.kind[f.ents[q][m].ino] = f.ents[q][m].ft
                 /\ f.ents[q][m].ino # ROOT_INO
                 /\ f.ents[q][m].ino # q
      <3>1. CASE q = np /\ m = nn
        BY <1>1, <1>2, <1>3, <3>1
      <3>2. CASE m \in DOMAIN s.ents[q] /\ f.ents[q][m] = s.ents[q][m]
        BY <1>3, <3>2 DEF Basic, Valid
      <3> QED BY <1>9, <3>1, <3>2
    <2> QED BY <1>3, <2>1, <2>2 DEF Basic, Valid
  <1>12. Counts(f)
    <2> SUFFICES ASSUME NEW j \in LiveOf(s) PROVE f.nlink[j] = Want(f, j)
      BY <1>10 DEF Counts
    <2>1. /\ j \in Inos /\ s.nlink[j] = Want(s, j) /\ f.kind[j] = s.kind[j]
          /\ LinkNum(r, j) \in Nat /\ SubNum(r, j) \in Nat
      BY <1>3, LinksFinite DEF LiveOf, Basic, Counts
    <2>2. LinkNum(f, j) = LinkNum(s, j) /\ LinkNum(f, j) \in Nat
      BY <1>7, <1>8, LinksFinite
    <2>3. CASE j = op /\ op # np
      <3>1. /\ SubNum(s, j) = SubNum(f, j) + (IF far THEN 1 ELSE 0)
            /\ SubNum(f, j) \in Nat
        BY <1>7, <1>8, <2>1, <2>3
      <3> QED BY <1>2, <1>3, <2>1, <2>2, <2>3, <3>1 DEF Want
    <2>4. CASE j = np /\ op # np
      <3>1. /\ SubNum(f, j) = SubNum(s, j) + (IF far THEN 1 ELSE 0)
            /\ SubNum(s, j) \in Nat
        BY <1>7, <1>8, <2>1, <2>4
      <3> QED BY <1>2, <1>3, <2>1, <2>2, <2>4, <3>1 DEF Want
    <2>5. CASE op = np \/ (j # op /\ j # np)
      <3>1. SubNum(f, j) = SubNum(s, j)
        BY <1>7, <1>8, <2>1, <2>5
      <3>2. f.nlink[j] = s.nlink[j]
        BY <1>3, <2>1, <2>5
      <3> QED BY <2>1, <2>2, <3>1, <3>2 DEF Want
    <2> QED BY <2>3, <2>4, <2>5
  <1>13. Tree(f)
    <2>1. \A j : j # i => LinksOf(f, j) = LinksOf(s, j)
      BY <1>5, <1>6
    <2>2. k = "dir" => LinksOf(f, i) \subseteq {<<np, nn>>}
      <3> SUFFICES ASSUME k = "dir" PROVE LinksOf(f, i) \subseteq {<<np, nn>>}
        OBVIOUS
      <3>1. i \in Dirs(s)
        BY <1>1 DEF Dirs
      <3>2. LinksOf(s, i) \subseteq {<<op, on>>}
        BY <1>5, <3>1 DEF Basic, Tree
      <3> QED BY <1>5, <1>6, <3>2
    <2>3. \A q \in Dirs(s) : q \in Inos /\ (q = i => k = "dir")
      BY <1>1 DEF Dirs
    <2>4. f.up[ROOT_INO] = ROOT_INO
      BY <1>1, <1>3, InosFinite DEF Basic, Tree
    <2>5. \A q \in Dirs(s) : f.up[q] \in Dirs(s)
      BY <1>3, <2>3 DEF Basic, Tree
    <2>6. ASSUME NEW q \in Dirs(s) PROVE \A l \in LinksOf(f, q) : l[1] = f.up[q]
      <3>1. CASE q = i
        BY <1>3, <2>2, <2>3, <3>1
      <3>2. CASE q # i
        BY <1>3, <2>1, <2>3, <3>2 DEF Basic, Tree
      <3> QED BY <3>1, <3>2
    <2>7. ASSUME NEW q \in Dirs(s) PROVE \A l, m \in LinksOf(f, q) : l = m
      <3>1. CASE q = i
        BY <2>2, <2>3, <3>1
      <3>2. CASE q # i
        BY <2>1, <3>2 DEF Basic, Tree
      <3> QED BY <3>1, <3>2
    <2> QED BY <1>10, <2>4, <2>5, <2>6, <2>7 DEF Tree
  <1>14. Numbers(f)
    BY <1>3, NumbersSame DEF Basic
  <1>15. Basic(f)
    BY <1>3, <1>11, <1>12, <1>13, <1>14 DEF Basic
  <1>16. Orph(f)
    <2>1. ASSUME NEW j \in LiveOf(s) PROVE f.nlink[j] = 0 <=> s.nlink[j] = 0
      <3>1. CASE j \in Dirs(s)
        <4>1. s.nlink[j] >= 1 /\ f.nlink[j] >= 1
          BY <1>10, <1>15, <3>1, DirLinked
        <4> QED BY <4>1
      <3>2. CASE j \notin Dirs(s)
        BY <1>3, <3>2 DEF LiveOf, Dirs
      <3> QED BY <3>1, <3>2
    <2> QED BY <1>3, <1>10, <2>1 DEF Orph
  <1> QED BY <1>10, <1>15, <1>16

\* What a rename leaves behind.
Renamed(s, f, op, on, np) ==
  LET i == s.ents[op][on].ino
      k == s.ents[op][on].ft IN
  /\ Basic(f) /\ Orph(f) /\ Dirs(f) = Dirs(s) /\ f.opens = s.opens /\ KeepsOpen(s, f)
  /\ k = "dir" => f.up[i] = np
  /\ \A q \in Dirs(s) : k # "dir" \/ q # i => f.up[q] = s.up[q]

LEMMA RenameIs ==
  ASSUME NEW s, Basic(s), Orph(s), NEW op \in Dirs(s), NEW on \in DOMAIN s.ents[op],
         NEW np \in Dirs(s), NEW nn \in Names, <<op, on>> # <<np, nn>>,
         s.ents[op][on].ft = "dir" => s.ents[op][on].ino # np,
         Has(s, np, nn) => s.ents[op][on].ino # s.ents[np][nn].ino
  PROVE  Renamed(s, Rename(s, op, on, np, nn), op, on, np)
  <1> DEFINE i == s.ents[op][on].ino
             k == s.ents[op][on].ft
             a == IF Has(s, np, nn) THEN UnlinkName(s, np, nn) ELSE s
             f == MoveOf(a, op, on, np, nn)
  <1>1. i \in Inos /\ op \in Inos /\ np \in Inos /\ s.kind[i] = k
    BY EntryFacts DEF Dirs
  <1>2. /\ Basic(a) /\ Orph(a) /\ Dirs(a) = Dirs(s) /\ a.opens = s.opens /\ KeepsOpen(s, a)
        /\ \A q \in Dirs(s) : a.up[q] = s.up[q]
        /\ on \in DOMAIN a.ents[op] /\ a.ents[op][on] = s.ents[op][on]
        /\ nn \notin DOMAIN a.ents[np]
    <2>1. CASE Has(s, np, nn)
      <3>1. a = UnlinkName(s, np, nn) /\ nn \in DOMAIN s.ents[np]
        BY <2>1 DEF Has
      <3>2. Unlinked(s, a, np, nn) /\ KeepsOpen(s, a)
        BY <3>1, UnlinkNameIs
      <3> HIDE DEF a
      <3>3. on \in DOMAIN a.ents[op] /\ a.ents[op][on] = s.ents[op][on]
        BY <1>1, <3>2 DEF Unlinked, Removed
      <3>4. nn \notin DOMAIN a.ents[np]
        BY <3>2 DEF Unlinked, Removed
      <3> QED BY <3>2, <3>3, <3>4 DEF Unlinked
    <2>2. CASE ~ Has(s, np, nn)
      <3>1. a = s /\ nn \notin DOMAIN s.ents[np]
        BY <2>2 DEF Has
      <3> QED BY <3>1 DEF KeepsOpen
    <2> QED BY <2>1, <2>2
  <1>3. Rename(s, op, on, np, nn) = f
    <2>1. a.ents[op][on] = s.ents[op][on]
      BY <1>2
    <2> QED BY <2>1 DEF Rename, MoveOf
  <1> HIDE DEF a
  <1>4. Moved(a, f, op, on, np, nn)
    BY <1>2, MoveIs
  <1> HIDE DEF f
  <1>5. Basic(f) /\ Orph(f) /\ Dirs(f) = Dirs(a)
    BY <1>2, <1>4, MovedBasic
  <1>6. /\ f.kind = a.kind /\ f.opens = a.opens /\ (k = "dir" => f.up[i] = np)
        /\ \A j \in Inos : k # "dir" \/ j # i => f.up[j] = a.up[j]
    BY <1>2, <1>4 DEF Moved
  <1>7. KeepsOpen(s, f)
    BY <1>2, <1>6 DEF KeepsOpen
  <1>8. \A q \in Dirs(s) : k # "dir" \/ q # i => f.up[q] = s.up[q]
    BY <1>2, <1>6 DEF Dirs
  <1> HIDE DEF i, k
  <1>9. Renamed(s, f, op, on, np)
    BY <1>2, <1>5, <1>6, <1>7, <1>8 DEF Renamed, i, k
  <1> QED BY <1>3, <1>9

-----------------------------------------------------------------------------
(* Following "..". *)

\* The walk that IsAncestor and RootAbove define by recursion.
ChainBody(g, s, x, k) == IF k = 0 THEN x ELSE s.up[g[k - 1]]

IsChainOf(g, s, x, n) == g = [k \in 0..n |-> ChainBody(g, s, x, k)]

ChainOf(s, x, n) == CHOOSE g : IsChainOf(g, s, x, n)

IsChain(g, s, x, n) ==
  /\ g \in [0..n -> Inos] /\ g[0] = x
  /\ \A k \in 0..(n - 1) : g[k + 1] = s.up[g[k]]

LEMMA ChainExists ==
  ASSUME NEW s, Types(s), NEW x \in Inos, NEW n \in Nat
  PROVE  IsChain(ChainOf(s, x, n), s, x, n)
  <1> DEFINE h == [p \in (1..n) \X Inos |-> s.up[p[2]]]
             c == ChainOf(s, x, n)
  <1>1. h \in StepFunctions(n, Inos)
    BY DEF StepFunctions, Types
  <1>2. PICK g : IsRecursion(g, n, Inos, x, h)
    <2> HIDE DEF h
    <2> QED BY <1>1, RecursionExists
  <1>3. g \in [0..n -> Inos] /\ g[0] = x /\ \A k \in 1..n : g[k] = s.up[g[k - 1]]
    <2>1. g \in [0..n -> Inos] /\ g[0] = x /\ \A k \in 1..n : g[k] = h[<<k, g[k - 1]>>]
      BY <1>2 DEF IsRecursion
    <2>2. ASSUME NEW k \in 1..n PROVE g[k] = s.up[g[k - 1]]
      <3>1. k - 1 \in 0..n
        OBVIOUS
      <3>2. g[k - 1] \in Inos
        BY <2>1, <3>1
      <3> QED BY <2>1, <3>2
    <2> QED BY <2>1, <2>2
  <1>4. IsChainOf(g, s, x, n)
    <2>1. ASSUME NEW k \in 0..n PROVE g[k] = ChainBody(g, s, x, k)
      <3>1. CASE k = 0
        BY <1>3, <3>1 DEF ChainBody
      <3>2. CASE k # 0
        <4>1. k \in 1..n
          BY <3>2
        <4> QED BY <1>3, <3>2, <4>1 DEF ChainBody
      <3> QED BY <3>1, <3>2
    <2> QED BY <1>3, <2>1 DEF IsChainOf
  <1>5. IsChainOf(c, s, x, n)
    BY <1>4 DEF ChainOf
  <1> HIDE DEF c
  <1>6. c[0] = x
    <2>1. 0 \in 0..n
      OBVIOUS
    <2>2. c[0] = ChainBody(c, s, x, 0)
      BY <1>5, <2>1 DEF IsChainOf
    <2> QED BY <2>2 DEF ChainBody
  <1>7. \A k \in 0..(n - 1) : c[k + 1] = s.up[c[k]]
    <2> SUFFICES ASSUME NEW k \in 0..(n - 1) PROVE c[k + 1] = s.up[c[k]]
      OBVIOUS
    <2>1. k + 1 \in 0..n /\ k + 1 # 0 /\ (k + 1) - 1 = k
      OBVIOUS
    <2>2. c[k + 1] = ChainBody(c, s, x, k + 1)
      BY <1>5, <2>1 DEF IsChainOf
    <2> QED BY <2>1, <2>2 DEF ChainBody
  <1>8. \A k \in 0..n : c[k] \in Inos
    <2> DEFINE S == {k \in Nat : k <= n => c[k] \in Inos}
    <2>1. 0 \in S
      BY <1>6
    <2>2. ASSUME NEW k \in Nat, k \in S PROVE k + 1 \in S
      <3> SUFFICES ASSUME k + 1 <= n PROVE c[k + 1] \in Inos
        OBVIOUS
      <3>1. k \in 0..(n - 1) /\ c[k] \in Inos
        BY <2>2
      <3> QED BY <1>7, <3>1 DEF Types
    <2> HIDE DEF S
    <2>3. Nat \subseteq S
      BY <2>1, <2>2, NatInduct
    <2> QED BY <2>3 DEF S
  <1>9. c \in [0..n -> Inos]
    BY <1>5, <1>8 DEF IsChainOf
  <1> QED BY <1>6, <1>7, <1>9 DEF IsChain, c

\* A walk that stays below the root is not as long as there are inodes.
LEMMA ChainEnds ==
  ASSUME NEW s, NEW x, NEW n \in Nat, NEW g, IsChain(g, s, x, n), Acyclic(s), n + 1 >= MaxIno,
         \A k \in 0..n : g[k] \in Dirs(s) \ {ROOT_INO}
  PROVE  FALSE
  <1> DEFINE D == Inos \ {ROOT_INO}
  <1>1. IsFiniteSet(0..n) /\ Cardinality(0..n) = n + 1
    BY FS_Interval
  <1>2. IsFiniteSet(D) /\ Cardinality(D) = MaxIno - 1
    BY InosFinite, FS_RemoveElement
  <1>3. Cardinality(D) < Cardinality(0..n)
    BY <1>1, <1>2, NamespaceAssumption
  <1>4. g \in [0..n -> D]
    BY DEF IsChain, Dirs
  <1>5. \E a, b \in 0..n : a # b /\ g[a] = g[b]
    <2> DEFINE I == 0..n
    <2>1. IsFiniteSet(I) /\ IsFiniteSet(D) /\ Cardinality(D) < Cardinality(I) /\ g \in [I -> D]
      BY <1>1, <1>2, <1>3, <1>4
    <2> HIDE DEF I, D
    <2>2. \E a, b \in I : a # b /\ g[a] = g[b]
      BY <2>1, FS_PigeonHole
    <2> QED BY <2>2 DEF I
  <1>6. PICK a \in 0..n, b \in 0..n : a < b /\ g[a] = g[b]
    BY <1>5
  <1> DEFINE S == {g[k] : k \in 0..(b - 1)}
  <1>7. S \in SUBSET (Dirs(s) \ {ROOT_INO}) /\ S # {}
    <2>1. 0..(b - 1) \subseteq 0..n /\ 0 \in 0..(b - 1)
      BY <1>6
    <2> QED BY <2>1
  <1>8. PICK q \in S : s.up[q] \notin S
    BY <1>7 DEF Acyclic
  <1>9. PICK k \in 0..(b - 1) : q = g[k]
    OBVIOUS
  <1>10. k \in 0..(n - 1) /\ (k + 1 \in 0..(b - 1) \/ k + 1 = b) /\ a \in 0..(b - 1)
    BY <1>6
  <1>11. s.up[q] = g[k + 1]
    BY <1>9, <1>10 DEF IsChain
  <1>12. g[k + 1] \in S
    BY <1>6, <1>10
  <1> QED BY <1>8, <1>11, <1>12

\* From every directory ".." leads to the root.
LEMMA AcyclicReachesRoot ==
  ASSUME NEW s, Basic(s), Acyclic(s), NEW x \in Dirs(s), NEW g, IsChain(g, s, x, MaxIno)
  PROVE  g[MaxIno] = ROOT_INO
  <1> SUFFICES ASSUME g[MaxIno] # ROOT_INO PROVE FALSE
    OBVIOUS
  <1>1. MaxIno \in Nat /\ \A k \in 0..(MaxIno - 1) : g[k + 1] = s.up[g[k]]
    BY NamespaceAssumption DEF IsChain
  <1>2. s.up[ROOT_INO] = ROOT_INO /\ \A q \in Dirs(s) : s.up[q] \in Dirs(s)
    BY DEF Basic, Tree
  <1>3. \A k \in 0..MaxIno : g[k] \in Dirs(s)
    <2> DEFINE S == {k \in Nat : k <= MaxIno => g[k] \in Dirs(s)}
    <2>1. 0 \in S
      BY DEF IsChain
    <2>2. ASSUME NEW k \in Nat, k \in S PROVE k + 1 \in S
      <3> SUFFICES ASSUME k + 1 <= MaxIno PROVE g[k + 1] \in Dirs(s)
        OBVIOUS
      <3>1. k \in 0..(MaxIno - 1) /\ g[k] \in Dirs(s)
        BY <1>1, <2>2
      <3> QED BY <1>1, <1>2, <3>1
    <2> HIDE DEF S
    <2>3. Nat \subseteq S
      BY <2>1, <2>2, NatInduct
    <2> QED BY <1>1, <2>3 DEF S
  <1>4. \A k \in 0..MaxIno : g[k] # ROOT_INO
    <2> SUFFICES ASSUME NEW k \in 0..MaxIno, g[k] = ROOT_INO PROVE FALSE
      OBVIOUS
    <2> DEFINE S == {m \in Nat : k + m <= MaxIno => g[k + m] = ROOT_INO}
    <2>1. 0 \in S
      <3>1. k + 0 = k
        BY <1>1
      <3> QED BY <3>1
    <2>2. ASSUME NEW m \in Nat, m \in S PROVE m + 1 \in S
      <3> SUFFICES ASSUME k + (m + 1) <= MaxIno PROVE g[k + (m + 1)] = ROOT_INO
        OBVIOUS
      <3>1. k + m \in 0..(MaxIno - 1) /\ k + (m + 1) = (k + m) + 1 /\ k + m <= MaxIno
        BY <1>1
      <3>2. g[k + m] = ROOT_INO
        BY <2>2, <3>1
      <3> QED BY <1>1, <1>2, <3>1, <3>2
    <2> HIDE DEF S
    <2>3. Nat \subseteq S
      BY <2>1, <2>2, NatInduct
    <2>4. MaxIno - k \in Nat /\ k + (MaxIno - k) = MaxIno
      BY <1>1
    <2>5. MaxIno - k \in S
      BY <2>3, <2>4
    <2> QED BY <1>1, <2>4, <2>5 DEF S
  <1>5. MaxIno + 1 >= MaxIno
    BY <1>1
  <1> QED BY <1>1, <1>3, <1>4, <1>5, ChainEnds

\* A rename that passes the check of is_ancestor closes no loop, provided the
\* check does not give up before it can have seen every inode.
LEMMA RenamedAcyclic ==
  ASSUME NEW s, NEW f, NEW op, NEW on, NEW np \in Dirs(s), Basic(s), Acyclic(s),
         Renamed(s, f, op, on, np), Guard + 1 >= MaxIno,
         s.ents[op][on].ft = "dir" => ~ IsAncestor(s, s.ents[op][on].ino, np)
  PROVE  Acyclic(f)
  <1> DEFINE i == s.ents[op][on].ino
             k == s.ents[op][on].ft
  <1>1. /\ Dirs(f) = Dirs(s) /\ (k = "dir" => f.up[i] = np)
        /\ \A q \in Dirs(s) : k # "dir" \/ q # i => f.up[q] = s.up[q]
    BY DEF Renamed
  <1>2. k = "dir" => ~ IsAncestor(s, i, np)
    OBVIOUS
  <1> HIDE DEF i, k
  <1> SUFFICES ASSUME NEW S \in SUBSET (Dirs(s) \ {ROOT_INO}), S # {},
                      \A q \in S : f.up[q] \in S
               PROVE  FALSE
    BY <1>1 DEF Acyclic
  <1>3. CASE k # "dir" \/ i \notin S
    BY <1>1, <1>3 DEF Acyclic
  <1>4. CASE k = "dir" /\ i \in S
    <2> DEFINE g == ChainOf(s, np, Guard)
    <2>1. Guard \in Nat /\ np \in Inos
      BY NamespaceAssumption DEF Dirs
    <2>2. IsChain(g, s, np, Guard)
      BY <2>1, ChainExists DEF Basic
    <2>3. \A m \in 0..Guard : g[m] # i
      BY <1>2, <1>4 DEF IsAncestor, ChainOf, IsChainOf, ChainBody
    <2> HIDE DEF g
    <2>4. \A m \in 0..Guard : g[m] \in S
      <3> DEFINE T == {m \in Nat : m <= Guard => g[m] \in S}
      <3>1. 0 \in T
        BY <1>1, <1>4, <2>2 DEF IsChain
      <3>2. ASSUME NEW m \in Nat, m \in T PROVE m + 1 \in T
        <4> SUFFICES ASSUME m + 1 <= Guard PROVE g[m + 1] \in S
          OBVIOUS
        <4>1. m \in 0..(Guard - 1) /\ m \in 0..Guard /\ g[m] \in S
          BY <2>1, <3>2
        <4>2. g[m + 1] = s.up[g[m]] /\ g[m] # i
          BY <2>2, <2>3, <4>1 DEF IsChain
        <4>3. f.up[g[m]] = s.up[g[m]]
          BY <1>1, <4>1, <4>2
        <4> QED BY <4>1, <4>2, <4>3
      <3> HIDE DEF T
      <3>3. Nat \subseteq T
        BY <3>1, <3>2, NatInduct
      <3> QED BY <2>1, <3>3 DEF T
    <2> QED BY <2>1, <2>2, <2>4, ChainEnds
  <1> QED BY <1>3, <1>4

LEMMA SameDirsAcyclic ==
  ASSUME NEW s, NEW d, Acyclic(s), SameDirs(s, d)
  PROVE  Acyclic(d)
  BY DEF Acyclic, SameDirs

-----------------------------------------------------------------------------
(* The handles. *)

HandleType == [st : {"closed", "resolved", "open"}, ino : Inos, stale : BOOLEAN]

OpenSet(hd, i) == {h \in Handles : hd[h].st = "open" /\ hd[h].ino = i}

Counted(o, hd) == \A i \in Inos : o[i] = Cardinality(OpenSet(hd, i))

\* Every handle in use refers to an inode that exists, the one it was made for.
KeptAt(s, hd) ==
  \A h \in Handles : hd[h].st # "closed" => ~ hd[h].stale /\ s.kind[hd[h].ino] # "none"

Inv ==
  /\ prog \in Program
  /\ Basic(fs) /\ Orph(fs)
  /\ handle \in [Handles -> HandleType]
  /\ ~ prog.clones => Counted(fs.opens, handle)
  /\ ~ prog.threads /\ ~ prog.clones => KeptAt(fs, handle)

\* What an action has to show of the engine s and the handles hd that it
\* hands to Become.
StepOK(s, hd) ==
  /\ Basic(s) /\ Orph(s)
  /\ hd \in [Handles -> HandleType]
  /\ ~ prog.clones => Counted(s.opens, hd)
  /\ ~ prog.threads /\ ~ prog.clones => KeptAt(s, hd)
  /\ Guard + 1 >= MaxIno /\ Acyclic(fs) => Acyclic(s)

LEMMA OpenSetFinite ==
  ASSUME NEW hd, NEW i
  PROVE  IsFiniteSet(OpenSet(hd, i)) /\ Cardinality(OpenSet(hd, i)) \in Nat
  <1>1. OpenSet(hd, i) \in SUBSET Handles
    BY DEF OpenSet
  <1> QED BY <1>1, NamespaceAssumption, FS_Subset, FS_CardinalityType

LEMMA BecomeStep ==
  ASSUME Inv, NEW s, NEW hd, StepOK(s, hd), Become(s, hd)
  PROVE  Inv' /\ (Guard + 1 >= MaxIno /\ Acyclic(fs) => Acyclic(fs'))
  <1>1. /\ prog' = prog /\ fs' = s
        /\ handle' = [x \in Handles |->
             IF hd[x].st # "closed" /\ fs.kind[hd[x].ino] # "none" /\ s.kind[hd[x].ino] = "none"
             THEN [hd[x] EXCEPT !.stale = TRUE] ELSE hd[x]]
    BY DEF Become
  <1>2. \A x \in Handles : hd[x] \in HandleType
    BY DEF StepOK
  <1>3. ASSUME NEW x \in Handles
        PROVE  /\ handle'[x] \in HandleType /\ handle'[x].st = hd[x].st
               /\ handle'[x].ino = hd[x].ino
               /\ (hd[x].st # "closed" => s.kind[hd[x].ino] # "none") => handle'[x] = hd[x]
    <2>1. [hd[x] EXCEPT !.stale = TRUE] \in HandleType
          /\ [hd[x] EXCEPT !.stale = TRUE].st = hd[x].st
          /\ [hd[x] EXCEPT !.stale = TRUE].ino = hd[x].ino
      BY <1>2 DEF HandleType
    <2> QED BY <1>1, <1>2, <2>1
  <1>4. handle' \in [Handles -> HandleType]
    BY <1>1, <1>3
  <1>5. ~ prog.clones => Counted(s.opens, handle')
    <2>1. \A i : OpenSet(handle', i) = OpenSet(hd, i)
      BY <1>3 DEF OpenSet
    <2> QED BY <2>1 DEF StepOK, Counted
  <1>6. ~ prog.threads /\ ~ prog.clones => KeptAt(s, handle')
    BY <1>3 DEF StepOK, KeptAt
  <1> QED BY <1>1, <1>4, <1>5, <1>6 DEF StepOK, Inv

\* A call that neither makes nor closes a handle: inodes that it drops have
\* none, and with one thread no file is being opened meanwhile.
LEMMA CallStep ==
  ASSUME Inv, Quiet, NEW s, Basic(s), Orph(s), s.opens = fs.opens, KeepsOpen(fs, s),
         Guard + 1 >= MaxIno /\ Acyclic(fs) => Acyclic(s), Become(s, handle)
  PROVE  Inv' /\ (Guard + 1 >= MaxIno /\ Acyclic(fs) => Acyclic(fs'))
  <1>1. ASSUME ~ prog.threads, ~ prog.clones PROVE KeptAt(s, handle)
    <2> SUFFICES ASSUME NEW h \in Handles, handle[h].st # "closed"
                 PROVE  ~ handle[h].stale /\ s.kind[handle[h].ino] # "none"
      BY DEF KeptAt
    <2> DEFINE i == handle[h].ino
    <2>1. handle[h] \in HandleType /\ handle[h].st = "open" /\ i \in Inos
      BY <1>1 DEF Inv, Quiet, HandleType
    <2>2. ~ handle[h].stale /\ fs.kind[i] # "none"
      BY <1>1 DEF Inv, KeptAt
    <2>3. h \in OpenSet(handle, i)
      BY <2>1 DEF OpenSet
    <2>4. Cardinality(OpenSet(handle, i)) # 0
      BY <2>3, OpenSetFinite, FS_EmptySet
    <2>5. fs.opens[i] # 0
      BY <1>1, <2>1, <2>4 DEF Inv, Counted
    <2> QED BY <2>1, <2>2, <2>5 DEF KeepsOpen
  <1>2. StepOK(s, handle)
    BY <1>1 DEF StepOK, Inv
  <1> QED BY <1>2, BecomeStep

LEMMA CreateStep ==
  ASSUME Inv, NEW p \in Dirs(fs), NEW n \in Names, NEW k \in {"file", "dir"}, Create(p, n, k)
  PROVE  Inv' /\ (Guard + 1 >= MaxIno /\ Acyclic(fs) => Acyclic(fs'))
  <1> DEFINE i == NextIno(fs)
             s == CreateChild(fs, p, n, k)
  <1>1. Quiet /\ ~ Has(fs, p, n) /\ i \in Inos /\ Become(s, handle)
    BY DEF Create
  <1>2. Created(fs, s, p, n, i, k)
    BY <1>1, CreateChildIs DEF Inv
  <1> HIDE DEF s
  <1>3. /\ Basic(s) /\ LiveOf(s) = LiveOf(fs) \cup {i}
        /\ Dirs(s) = Dirs(fs) \cup NewDirs(i, k) /\ i \notin LiveOf(fs)
    BY <1>1, <1>2, CreatedBasic DEF Inv
  <1>4. Orph(s)
    BY <1>1, <1>2, CreatedOrph DEF Inv
  <1>5. Acyclic(fs) => Acyclic(s)
    BY <1>1, <1>2, CreatedAcyclic DEF Inv
  <1>6. s.opens = fs.opens
    BY <1>2 DEF Created
  <1>7. KeepsOpen(fs, s)
    BY <1>3 DEF KeepsOpen, LiveOf
  <1> QED BY <1>1, <1>3, <1>4, <1>5, <1>6, <1>7, CallStep

LEMMA UnlinkStep ==
  ASSUME Inv, NEW p \in Dirs(fs), NEW n \in Names, Unlink(p, n) \/ Rmdir(p, n)
  PROVE  Inv' /\ (Guard + 1 >= MaxIno /\ Acyclic(fs) => Acyclic(fs'))
  <1> DEFINE s == UnlinkName(fs, p, n)
  <1>1. Quiet /\ n \in DOMAIN fs.ents[p] /\ Become(s, handle)
    BY DEF Unlink, Rmdir, Has
  <1>2. Unlinked(fs, s, p, n) /\ KeepsOpen(fs, s)
    BY <1>1, UnlinkNameIs DEF Inv
  <1> HIDE DEF s
  <1>3. Acyclic(fs) => Acyclic(s)
    BY <1>2, SameDirsAcyclic DEF Unlinked, SameDirs
  <1> QED BY <1>1, <1>2, <1>3, CallStep DEF Unlinked

LEMMA LinkStep ==
  ASSUME Inv, NEW p \in Dirs(fs), NEW q \in Dirs(fs), NEW n \in Names, NEW m \in Names,
         Link(q, m, p, n)
  PROVE  Inv' /\ (Guard + 1 >= MaxIno /\ Acyclic(fs) => Acyclic(fs'))
  <1> DEFINE i == fs.ents[q][m].ino
             s == LinkInto(fs, i, p, n)
  <1>1. /\ Quiet /\ m \in DOMAIN fs.ents[q] /\ fs.kind[i] # "dir" /\ ~ Has(fs, p, n)
        /\ Become(s, handle)
    BY DEF Link, Has
  <1>2. Linked(fs, s)
    BY <1>1, LinkIntoIs DEF Inv
  <1> HIDE DEF s
  <1>3. (Acyclic(fs) => Acyclic(s)) /\ KeepsOpen(fs, s)
    BY <1>2, SameDirsAcyclic DEF Linked, KeepsOpen
  <1> QED BY <1>1, <1>2, <1>3, CallStep DEF Linked

\* is_ancestor looks at the directory itself first.
LEMMA NotOwnAncestor ==
  ASSUME NEW s, Types(s), NEW x \in Inos
  PROVE  IsAncestor(s, x, x)
  <1> DEFINE g == ChainOf(s, x, Guard)
  <1>1. g[0] = x /\ 0 \in 0..Guard
    BY NamespaceAssumption, ChainExists DEF IsChain
  <1>2. \E k \in 0..Guard : g[k] = x
    BY <1>1
  <1> QED BY <1>2 DEF IsAncestor, ChainOf, IsChainOf, ChainBody

LEMMA MoveStep ==
  ASSUME Inv, NEW np \in Dirs(fs), NEW op \in Dirs(fs), NEW nn \in Names, NEW on \in Names,
         Move(op, on, np, nn)
  PROVE  Inv' /\ (Guard + 1 >= MaxIno /\ Acyclic(fs) => Acyclic(fs'))
  <1> DEFINE i == fs.ents[op][on].ino
             k == fs.ents[op][on].ft
             s == Rename(fs, op, on, np, nn)
  <1>1. /\ Quiet /\ on \in DOMAIN fs.ents[op] /\ <<op, on>> # <<np, nn>>
        /\ (k = "dir" => ~ IsAncestor(fs, i, np))
        /\ (Has(fs, np, nn) => i # fs.ents[np][nn].ino)
        /\ Become(s, handle)
    BY DEF Move, Has, MayReplace
  <1>2. k = "dir" => i # np
    BY <1>1, NotOwnAncestor DEF Inv, Basic, Dirs
  <1>3. Renamed(fs, s, op, on, np)
    BY <1>1, <1>2, RenameIs DEF Inv
  <1> HIDE DEF s
  <1>4. Guard + 1 >= MaxIno /\ Acyclic(fs) => Acyclic(s)
    BY <1>1, <1>3, RenamedAcyclic DEF Inv
  <1> QED BY <1>1, <1>3, <1>4, CallStep DEF Renamed

\* One handle changes: the set of open handles of an inode.
LEMMA SetHandle ==
  ASSUME Inv, NEW h \in Handles, NEW r \in HandleType
  PROVE  LET hd == [handle EXCEPT ![h] = r] IN
         /\ hd \in [Handles -> HandleType]
         /\ hd[h] = r /\ \A x \in Handles \ {h} : hd[x] = handle[x]
         /\ r.st # "open" => \A i : OpenSet(hd, i) = OpenSet(handle, i) \ {h}
         /\ r.st = "open" => /\ OpenSet(hd, r.ino) = OpenSet(handle, r.ino) \cup {h}
                             /\ \A i : i # r.ino => OpenSet(hd, i) = OpenSet(handle, i) \ {h}
  <1> DEFINE hd == [handle EXCEPT ![h] = r]
  <1>1. /\ hd \in [Handles -> HandleType]
        /\ hd[h] = r /\ \A x \in Handles \ {h} : hd[x] = handle[x]
    BY DEF Inv
  <1> HIDE DEF hd
  <1>2. /\ r.st # "open" => \A i : OpenSet(hd, i) = OpenSet(handle, i) \ {h}
        /\ r.st = "open" => /\ OpenSet(hd, r.ino) = OpenSet(handle, r.ino) \cup {h}
                            /\ \A i : i # r.ino => OpenSet(hd, i) = OpenSet(handle, i) \ {h}
    BY <1>1 DEF OpenSet
  <1> QED BY <1>1, <1>2 DEF hd

\* h is not open, and the new value r is not open either.
LEMMA CountedSame ==
  ASSUME Inv, NEW h \in Handles, NEW r \in HandleType, handle[h].st # "open", r.st # "open",
         NEW o, o = fs.opens
  PROVE  ~ prog.clones => Counted(o, [handle EXCEPT ![h] = r])
  <1> DEFINE hd == [handle EXCEPT ![h] = r]
  <1>1. \A i : OpenSet(hd, i) = OpenSet(handle, i) \ {h}
    BY SetHandle
  <1>2. \A i : h \notin OpenSet(handle, i)
    BY DEF OpenSet
  <1> HIDE DEF hd
  <1>3. \A i : OpenSet(hd, i) = OpenSet(handle, i)
    BY <1>1, <1>2
  <1>4. ~ prog.clones => Counted(o, hd)
    BY <1>3 DEF Inv, Counted
  <1> QED BY <1>4 DEF hd

\* h was not open, and becomes a counted handle of inode i.
LEMMA CountedMore ==
  ASSUME Inv, NEW h \in Handles, NEW r \in HandleType, handle[h].st # "open", r.st = "open",
         NEW o, o[r.ino] = fs.opens[r.ino] + 1, \A j \in Inos \ {r.ino} : o[j] = fs.opens[j]
  PROVE  ~ prog.clones => Counted(o, [handle EXCEPT ![h] = r])
  <1> DEFINE hd == [handle EXCEPT ![h] = r]
             i == r.ino
  <1>1. /\ OpenSet(hd, i) = OpenSet(handle, i) \cup {h}
        /\ \A j : j # i => OpenSet(hd, j) = OpenSet(handle, j) \ {h}
    BY SetHandle
  <1>2. \A j : h \notin OpenSet(handle, j)
    BY DEF OpenSet
  <1> HIDE DEF hd
  <1>3. Cardinality(OpenSet(hd, i)) = Cardinality(OpenSet(handle, i)) + 1
    BY <1>1, <1>2, OpenSetFinite, FS_AddElement
  <1>4. \A j : j # i => OpenSet(hd, j) = OpenSet(handle, j)
    BY <1>1, <1>2
  <1>5. i \in Inos
    BY DEF HandleType
  <1>6. ~ prog.clones => Counted(o, hd)
    BY <1>3, <1>4, <1>5 DEF Inv, Counted
  <1> QED BY <1>6 DEF hd

LEMMA ClosedIs == Closed \in HandleType /\ Closed.st = "closed"
  BY InosFinite DEF Closed, HandleType

LEMMA ResolveStep ==
  ASSUME Inv, NEW h \in Handles, NEW p \in Dirs(fs), NEW n \in Names, Resolve(h, p, n)
  PROVE  Inv' /\ (Guard + 1 >= MaxIno /\ Acyclic(fs) => Acyclic(fs'))
  <1> DEFINE r == [st |-> "resolved", ino |-> fs.ents[p][n].ino, stale |-> FALSE]
             hd == [handle EXCEPT ![h] = r]
  <1>1. n \in DOMAIN fs.ents[p] /\ handle[h] = Closed /\ Become(fs, hd)
    BY DEF Resolve, Has
  <1>2. fs.ents[p][n].ino \in Inos /\ fs.kind[fs.ents[p][n].ino] # "none"
    BY <1>1, EntryFacts DEF Inv, LiveOf
  <1>3. r \in HandleType /\ r.st = "resolved" /\ r.ino = fs.ents[p][n].ino /\ ~ r.stale
    BY <1>2 DEF HandleType
  <1> HIDE DEF r
  <1>4. handle[h].st # "open"
    BY <1>1, ClosedIs
  <1>5. /\ hd \in [Handles -> HandleType]
        /\ hd[h] = r /\ \A x \in Handles \ {h} : hd[x] = handle[x]
    BY <1>3, SetHandle
  <1>6. ~ prog.clones => Counted(fs.opens, hd)
    BY <1>3, <1>4, CountedSame
  <1> HIDE DEF hd
  <1>7. KeptAt(fs, handle) => KeptAt(fs, hd)
    BY <1>2, <1>3, <1>5 DEF KeptAt
  <1>8. StepOK(fs, hd)
    BY <1>5, <1>6, <1>7 DEF StepOK, Inv
  <1> QED BY <1>1, <1>8, BecomeStep

LEMMA ResolveNewStep ==
  ASSUME Inv, NEW h \in Handles, NEW p \in Dirs(fs), NEW n \in Names, ResolveNew(h, p, n)
  PROVE  Inv' /\ (Guard + 1 >= MaxIno /\ Acyclic(fs) => Acyclic(fs'))
  <1> DEFINE i == NextIno(fs)
             s == CreateChild(fs, p, n, "file")
             r == [st |-> "resolved", ino |-> i, stale |-> FALSE]
             hd == [handle EXCEPT ![h] = r]
  <1>1. ~ Has(fs, p, n) /\ i \in Inos /\ handle[h] = Closed /\ Become(s, hd)
    BY DEF ResolveNew
  <1>2. Created(fs, s, p, n, i, "file")
    BY <1>1, CreateChildIs DEF Inv
  <1> HIDE DEF s
  <1>3. /\ Basic(s) /\ LiveOf(s) = LiveOf(fs) \cup {i}
        /\ Dirs(s) = Dirs(fs) \cup NewDirs(i, "file") /\ i \notin LiveOf(fs)
    BY <1>1, <1>2, CreatedBasic DEF Inv
  <1>4. Orph(s)
    BY <1>1, <1>2, CreatedOrph DEF Inv
  <1>5. Acyclic(fs) => Acyclic(s)
    BY <1>1, <1>2, CreatedAcyclic DEF Inv
  <1>6. s.opens = fs.opens
    BY <1>2 DEF Created
  <1> HIDE DEF i
  <1>7. r \in HandleType /\ r.st = "resolved" /\ r.ino = i /\ ~ r.stale
    BY <1>1 DEF HandleType
  <1> HIDE DEF r
  <1>8. handle[h].st # "open"
    BY <1>1, ClosedIs
  <1>9. /\ hd \in [Handles -> HandleType]
        /\ hd[h] = r /\ \A x \in Handles \ {h} : hd[x] = handle[x]
    BY <1>7, SetHandle
  <1>10. ~ prog.clones => Counted(s.opens, hd)
    BY <1>6, <1>7, <1>8, CountedSame
  <1> HIDE DEF hd
  <1>11. \A x \in Handles : handle[x].ino \in Inos
    BY DEF Inv, HandleType
  <1>12. \A j \in Inos : fs.kind[j] # "none" \/ j = i => s.kind[j] # "none"
    BY <1>3 DEF LiveOf
  <1>13. KeptAt(fs, handle) => KeptAt(s, hd)
    BY <1>1, <1>7, <1>9, <1>11, <1>12 DEF KeptAt
  <1>14. StepOK(s, hd)
    BY <1>3, <1>4, <1>5, <1>9, <1>10, <1>13 DEF StepOK, Inv
  <1> QED BY <1>1, <1>14, BecomeStep

LEMMA NewStep ==
  ASSUME Inv, NEW h \in Handles, New(h)
  PROVE  Inv' /\ (Guard + 1 >= MaxIno /\ Acyclic(fs) => Acyclic(fs'))
  <1> DEFINE i == handle[h].ino
             s == [fs EXCEPT !.opens[i] = @ + 1]
             r == [handle[h] EXCEPT !.st = "open"]
             hd == [handle EXCEPT ![h] = r]
  <1>1. handle[h].st = "resolved" /\ Become(s, hd)
    BY DEF New
  <1>2. handle[h] \in HandleType /\ i \in Inos
    BY DEF Inv, HandleType
  <1>3. r \in HandleType /\ r.st = "open" /\ r.ino = i /\ r.stale = handle[h].stale
    BY <1>2 DEF HandleType
  <1> HIDE DEF r
  <1>4. /\ Basic(s) /\ Orph(s) /\ s.kind = fs.kind /\ SameDirs(fs, s)
        /\ s.opens[i] = fs.opens[i] + 1 /\ \A j \in Inos \ {i} : s.opens[j] = fs.opens[j]
    BY <1>2, IncOpenIs DEF Inv
  <1> HIDE DEF s
  <1>5. /\ hd \in [Handles -> HandleType]
        /\ hd[h] = r /\ \A x \in Handles \ {h} : hd[x] = handle[x]
    BY <1>3, SetHandle
  <1>6. ~ prog.clones => Counted(s.opens, hd)
    BY <1>1, <1>3, <1>4, CountedMore
  <1> HIDE DEF hd
  <1>7. KeptAt(fs, handle) => KeptAt(s, hd)
    BY <1>1, <1>3, <1>4, <1>5 DEF KeptAt
  <1>8. Acyclic(fs) => Acyclic(s)
    BY <1>4, SameDirsAcyclic
  <1>9. StepOK(s, hd)
    BY <1>4, <1>5, <1>6, <1>7, <1>8 DEF StepOK, Inv
  <1> QED BY <1>1, <1>9, BecomeStep

LEMMA TryCloneStep ==
  ASSUME Inv, NEW h \in Handles, NEW k \in Handles, TryClone(h, k)
  PROVE  Inv' /\ (Guard + 1 >= MaxIno /\ Acyclic(fs) => Acyclic(fs'))
  <1> DEFINE i == handle[h].ino
             s == [fs EXCEPT !.opens[i] = @ + 1]
             hd == [handle EXCEPT ![k] = handle[h]]
  <1>1. handle[h].st = "open" /\ handle[k] = Closed /\ Become(s, hd)
    BY DEF TryClone
  <1>2. handle[h] \in HandleType /\ i \in Inos /\ handle[k].st # "open"
    BY <1>1, ClosedIs DEF Inv, HandleType
  <1>4. /\ Basic(s) /\ Orph(s) /\ s.kind = fs.kind /\ SameDirs(fs, s)
        /\ s.opens[i] = fs.opens[i] + 1 /\ \A j \in Inos \ {i} : s.opens[j] = fs.opens[j]
    BY <1>2, IncOpenIs DEF Inv
  <1> HIDE DEF s
  <1>5. /\ hd \in [Handles -> HandleType]
        /\ hd[k] = handle[h] /\ \A x \in Handles \ {k} : hd[x] = handle[x]
    BY <1>2, SetHandle
  <1>6. ~ prog.clones => Counted(s.opens, hd)
    BY <1>1, <1>2, <1>4, CountedMore
  <1> HIDE DEF hd
  <1>7. KeptAt(fs, handle) => KeptAt(s, hd)
    BY <1>1, <1>4, <1>5 DEF KeptAt
  <1>8. Acyclic(fs) => Acyclic(s)
    BY <1>4, SameDirsAcyclic
  <1>9. StepOK(s, hd)
    BY <1>4, <1>5, <1>6, <1>7, <1>8 DEF StepOK, Inv
  <1> QED BY <1>1, <1>9, BecomeStep

LEMMA CloneStep ==
  ASSUME Inv, NEW h \in Handles, NEW k \in Handles, Clone(h, k)
  PROVE  Inv' /\ (Guard + 1 >= MaxIno /\ Acyclic(fs) => Acyclic(fs'))
  <1> DEFINE hd == [handle EXCEPT ![k] = handle[h]]
  <1>1. prog.clones /\ Become(fs, hd)
    BY DEF Clone
  <1>2. hd \in [Handles -> HandleType]
    BY DEF Inv
  <1> HIDE DEF hd
  <1>3. StepOK(fs, hd)
    BY <1>1, <1>2 DEF StepOK, Inv
  <1> QED BY <1>1, <1>3, BecomeStep

\* Where the count is kept, the last handle to close is the last one counted.
LEMMA CloseStep ==
  ASSUME Inv, NEW h \in Handles, Close(h)
  PROVE  Inv' /\ (Guard + 1 >= MaxIno /\ Acyclic(fs) => Acyclic(fs'))
  <1> DEFINE i == handle[h].ino
             s == DecOpen(fs, i)
             hd == [handle EXCEPT ![h] = Closed]
  <1>1. Quiet /\ handle[h].st = "open" /\ Become(s, hd)
    BY DEF Close
  <1>2. handle[h] \in HandleType /\ i \in Inos
    BY DEF Inv, HandleType
  <1>3. /\ hd \in [Handles -> HandleType]
        /\ hd[h] = Closed /\ \A x \in Handles \ {h} : hd[x] = handle[x]
        /\ \A j : OpenSet(hd, j) = OpenSet(handle, j) \ {h}
    BY ClosedIs, SetHandle
  <1> HIDE DEF hd
  <1>4. h \in OpenSet(handle, i) /\ \A j : j # i => h \notin OpenSet(handle, j)
    BY <1>1 DEF OpenSet
  <1>5. Cardinality(OpenSet(hd, i)) = Cardinality(OpenSet(handle, i)) - 1
    BY <1>3, <1>4, OpenSetFinite, FS_RemoveElement
  <1>6. \A j : j # i => OpenSet(hd, j) = OpenSet(handle, j)
    BY <1>3, <1>4
  <1>7. CASE fs.opens[i] = 0
    <2>1. s = fs
      BY <1>7 DEF DecOpen
    <2>2. prog.clones
      <3>1. Cardinality(OpenSet(handle, i)) # 0
        BY <1>4, OpenSetFinite, FS_EmptySet
      <3> QED BY <1>2, <1>7, <3>1 DEF Inv, Counted
    <2>3. StepOK(fs, hd)
      BY <1>3, <2>2 DEF StepOK, Inv
    <2> QED BY <1>1, <2>1, <2>3, BecomeStep
  <1>8. CASE fs.opens[i] # 0
    <2> DEFINE v == fs.opens[i] - 1
    <2>1. Released(fs, s, i, v)
      BY <1>2, <1>8, DecOpenIs DEF Inv
    <2> HIDE DEF s
    <2>2. /\ Basic(s) /\ Orph(s) /\ SameDirs(fs, s) /\ KeepsOpen(fs, s) /\ s.opens[i] = v
          /\ \A j \in Inos \ {i} : s.opens[j] = fs.opens[j] /\ s.kind[j] = fs.kind[j]
      BY <2>1 DEF Released
    <2>3. ~ prog.clones => Counted(s.opens, hd)
      BY <1>5, <1>6, <2>2 DEF Inv, Counted
    <2>4. ASSUME ~ prog.threads, ~ prog.clones PROVE KeptAt(s, hd)
      <3> SUFFICES ASSUME NEW x \in Handles, hd[x].st # "closed"
                   PROVE  ~ hd[x].stale /\ s.kind[hd[x].ino] # "none"
        BY DEF KeptAt
      <3>1. x # h /\ hd[x] = handle[x]
        BY <1>3, ClosedIs
      <3>2. hd[x] \in HandleType /\ hd[x].st = "open" /\ hd[x].ino \in Inos
        BY <1>1, <2>4, <3>1 DEF Inv, Quiet, HandleType
      <3>3. ~ hd[x].stale /\ fs.kind[hd[x].ino] # "none"
        BY <2>4, <3>1 DEF Inv, KeptAt
      <3>4. x \in OpenSet(hd, hd[x].ino)
        BY <3>2 DEF OpenSet
      <3>5. Cardinality(OpenSet(hd, hd[x].ino)) # 0
        BY <3>4, OpenSetFinite, FS_EmptySet
      <3>6. s.opens[hd[x].ino] # 0
        BY <2>3, <2>4, <3>2, <3>5 DEF Counted
      <3> QED BY <2>2, <3>2, <3>3, <3>6 DEF KeepsOpen
    <2>5. Acyclic(fs) => Acyclic(s)
      BY <2>2, SameDirsAcyclic
    <2>6. StepOK(s, hd)
      BY <1>3, <2>2, <2>3, <2>4, <2>5 DEF StepOK
    <2> QED BY <1>1, <2>6, BecomeStep
  <1> QED BY <1>7, <1>8

-----------------------------------------------------------------------------
(* The invariant, and what follows from it. *)

\* mkfs makes an engine with an empty root.
LEMMA MkfsIs ==
  /\ Basic(Mkfs) /\ Orph(Mkfs) /\ Acyclic(Mkfs) /\ Dirs(Mkfs) = {ROOT_INO}
  /\ Mkfs.free = <<>> /\ Mkfs.next = 2 /\ Mkfs.opens = [i \in Inos |-> 0]
  /\ \A p \in Inos : DOMAIN Mkfs.ents[p] = {}
  <1> DEFINE s == Mkfs
  <1>1. ROOT_INO = 1 /\ ROOT_INO \in Inos /\ MaxIno \in Nat /\ MaxIno >= 1
    BY NamespaceAssumption, InosFinite DEF ROOT_INO
  <1>3. /\ IsEngine(s) /\ s.kind = [i \in Inos |-> IF i = ROOT_INO THEN "dir" ELSE "none"]
        /\ s.nlink = [i \in Inos |-> IF i = ROOT_INO THEN 2 ELSE 0]
        /\ s.ents = [i \in Inos |-> NoEntries] /\ s.up = [i \in Inos |-> ROOT_INO]
        /\ s.free = <<>> /\ s.next = 2 /\ s.count = 1
        /\ s.opens = [i \in Inos |-> 0] /\ s.orphans = {}
    BY DEF Mkfs, IsEngine
  <1> HIDE DEF s
  <1>4. DOMAIN NoEntries = {} /\ NoEntries \in EntryMaps
    <2>1. DOMAIN NoEntries = {} /\ NoEntries \in [{} -> Entry]
      BY DEF NoEntries
    <2> QED BY <2>1, EntryMapsAre
  <1>5. s.kind \in [Inos -> Kinds] /\ s.nlink \in [Inos -> Nat]
    BY <1>3 DEF Kinds
  <1>6. Types(s)
    BY <1>1, <1>3, <1>4, <1>5 DEF Types
  <1>7. LiveOf(s) = {ROOT_INO} /\ Dirs(s) = {ROOT_INO}
    BY <1>1, <1>3 DEF LiveOf, Dirs
  <1>8. \A p \in Inos : DOMAIN s.ents[p] = {}
    BY <1>3, <1>4
  <1>9. Valid(s)
    BY <1>1, <1>3, <1>8 DEF Valid
  <1>10. Numbers(s)
    <2>1. 1..(s.next - 1) = {ROOT_INO}
      BY <1>1, <1>3
    <2>2. Cardinality({ROOT_INO}) = 1
      BY FS_Singleton
    <2>3. Enumerates(<<>>, {})
      <3>1. <<>> \in Seq({}) /\ DOMAIN <<>> = {}
        OBVIOUS
      <3> QED BY <3>1 DEF Enumerates, Range, IsInjective
    <2>4. (1..(s.next - 1)) \ LiveOf(s) = {} /\ LiveOf(s) \subseteq 1..(s.next - 1)
      BY <1>7, <2>1
    <2> QED BY <1>3, <1>7, <2>2, <2>3, <2>4 DEF Numbers
  <1>11. \A i : LinksOf(s, i) = {} /\ (i \in Inos => SubsOf(s, i) = {})
    BY <1>8 DEF LinksOf, SubsOf
  <1>12. Counts(s)
    <2>1. SubNum(s, ROOT_INO) = 0
      BY <1>1, <1>11, FS_EmptySet DEF SubNum
    <2>2. s.nlink[ROOT_INO] = 2 /\ s.kind[ROOT_INO] = "dir"
      BY <1>1, <1>3
    <2> QED BY <1>7, <2>1, <2>2 DEF Counts, Want
  <1>13. Tree(s)
    BY <1>1, <1>3, <1>7, <1>11 DEF Tree
  <1>14. Orph(s)
    <2>1. s.nlink[ROOT_INO] = 2
      BY <1>1, <1>3
    <2> QED BY <1>3, <1>7, <2>1 DEF Orph
  <1>15. Acyclic(s)
    BY <1>7 DEF Acyclic
  <1>16. Basic(s)
    BY <1>6, <1>9, <1>10, <1>12, <1>13 DEF Basic
  <1> QED BY <1>3, <1>7, <1>8, <1>14, <1>15, <1>16 DEF s

\* Handles that are all closed count nothing.
LEMMA ClosedCount ==
  ASSUME NEW s, s.opens = [i \in Inos |-> 0], NEW hd, hd = [h \in Handles |-> Closed]
  PROVE  /\ hd \in [Handles -> HandleType] /\ (\A h \in Handles : hd[h].st = "closed")
         /\ Counted(s.opens, hd) /\ KeptAt(s, hd)
  <1>1. hd \in [Handles -> HandleType] /\ \A h \in Handles : hd[h].st = "closed"
    BY ClosedIs
  <1>2. Counted(s.opens, hd)
    <2>1. \A i : OpenSet(hd, i) = {}
      BY <1>1 DEF OpenSet
    <2>2. Cardinality({}) = 0
      BY FS_EmptySet
    <2>3. \A i \in Inos : Cardinality(OpenSet(hd, i)) = 0
      BY <2>1, <2>2
    <2> QED BY <2>3 DEF Counted
  <1>3. KeptAt(s, hd)
    BY <1>1 DEF KeptAt
  <1> QED BY <1>1, <1>2, <1>3

LEMMA InitInv == Init => Inv /\ Acyclic(fs)
  <1> SUFFICES ASSUME Init PROVE Inv /\ Acyclic(fs)
    OBVIOUS
  <1>1. fs = Mkfs /\ handle = [h \in Handles |-> Closed] /\ prog \in Program
    BY NamespaceAssumption DEF Init
  <1>2. Basic(fs) /\ Orph(fs) /\ Acyclic(fs) /\ fs.opens = [i \in Inos |-> 0]
    BY <1>1, MkfsIs
  <1>3. handle \in [Handles -> HandleType] /\ Counted(fs.opens, handle) /\ KeptAt(fs, handle)
    BY <1>1, <1>2, ClosedCount
  <1> QED BY <1>1, <1>2, <1>3 DEF Inv

LEMMA StepInv ==
  Inv /\ [Next]_vars => Inv' /\ (Guard + 1 >= MaxIno /\ Acyclic(fs) => Acyclic(fs'))
  <1> SUFFICES ASSUME Inv, [Next]_vars
               PROVE  Inv' /\ (Guard + 1 >= MaxIno /\ Acyclic(fs) => Acyclic(fs'))
    OBVIOUS
  <1>1. CASE UNCHANGED vars
    <2>1. prog' = prog /\ fs' = fs /\ handle' = handle
      BY <1>1 DEF vars
    <2> QED BY <2>1 DEF Inv
  <1>2. ASSUME NEW p \in Dirs(fs), NEW n \in Names, NEW k \in {"file", "dir"}, Create(p, n, k)
        PROVE  Inv' /\ (Guard + 1 >= MaxIno /\ Acyclic(fs) => Acyclic(fs'))
    BY <1>2, CreateStep
  <1>3. ASSUME NEW p \in Dirs(fs), NEW n \in Names, Unlink(p, n) \/ Rmdir(p, n)
        PROVE  Inv' /\ (Guard + 1 >= MaxIno /\ Acyclic(fs) => Acyclic(fs'))
    BY <1>3, UnlinkStep
  <1>4. ASSUME NEW p \in Dirs(fs), NEW d \in Dirs(fs), NEW n \in Names, NEW m \in Names,
               Link(d, m, p, n)
        PROVE  Inv' /\ (Guard + 1 >= MaxIno /\ Acyclic(fs) => Acyclic(fs'))
    BY <1>4, LinkStep
  <1>5. ASSUME NEW p \in Dirs(fs), NEW d \in Dirs(fs), NEW n \in Names, NEW m \in Names,
               Move(d, m, p, n)
        PROVE  Inv' /\ (Guard + 1 >= MaxIno /\ Acyclic(fs) => Acyclic(fs'))
    BY <1>5, MoveStep
  <1>6. ASSUME NEW h \in Handles, NEW p \in Dirs(fs), NEW n \in Names, Resolve(h, p, n)
        PROVE  Inv' /\ (Guard + 1 >= MaxIno /\ Acyclic(fs) => Acyclic(fs'))
    BY <1>6, ResolveStep
  <1>7. ASSUME NEW h \in Handles, NEW p \in Dirs(fs), NEW n \in Names, ResolveNew(h, p, n)
        PROVE  Inv' /\ (Guard + 1 >= MaxIno /\ Acyclic(fs) => Acyclic(fs'))
    BY <1>7, ResolveNewStep
  <1>8. ASSUME NEW h \in Handles, New(h)
        PROVE  Inv' /\ (Guard + 1 >= MaxIno /\ Acyclic(fs) => Acyclic(fs'))
    BY <1>8, NewStep
  <1>9. ASSUME NEW h \in Handles, NEW k \in Handles, TryClone(h, k)
        PROVE  Inv' /\ (Guard + 1 >= MaxIno /\ Acyclic(fs) => Acyclic(fs'))
    BY <1>9, TryCloneStep
  <1>10. ASSUME NEW h \in Handles, NEW k \in Handles, Clone(h, k)
         PROVE  Inv' /\ (Guard + 1 >= MaxIno /\ Acyclic(fs) => Acyclic(fs'))
    BY <1>10, CloneStep
  <1>11. ASSUME NEW h \in Handles, Close(h)
         PROVE  Inv' /\ (Guard + 1 >= MaxIno /\ Acyclic(fs) => Acyclic(fs'))
    BY <1>11, CloseStep
  <1> QED BY <1>1, <1>2, <1>3, <1>4, <1>5, <1>6, <1>7, <1>8, <1>9, <1>10, <1>11, Zenon DEF Next

\* The inductive invariant: entries, link counts, inode numbers, orphans and
\* handles agree between any two calls.
THEOREM InvHolds == Spec => []Inv
  <1>1. Init => Inv
    BY InitInv
  <1>2. Inv /\ [Next]_vars => Inv'
    BY StepInv
  <1> QED BY <1>1, <1>2, PTL DEF Spec

LEMMA InvWellFormed == ASSUME Inv PROVE WellFormed
  <1> DEFINE F == (1..(fs.next - 1)) \ LiveOf(fs)
  <1>1. /\ Types(fs) /\ Valid(fs) /\ fs.kind[ROOT_INO] = "dir"
        /\ LiveOf(fs) \subseteq 1..(fs.next - 1) /\ Enumerates(fs.free, F)
        /\ fs.count = Cardinality(LiveOf(fs))
    BY DEF Inv, Basic, Numbers, Valid
  <1>2. Live = LiveOf(fs)
    BY DEF Live, LiveOf
  <1>3. LiveOf(fs) \in SUBSET Inos /\ ROOT_INO \in LiveOf(fs)
    BY <1>1, InosFinite DEF LiveOf
  <1>4. fs.count \in Nat
    BY <1>1, <1>3, InosFinite, FS_Subset, FS_CardinalityType
  <1>5. fs.free \in Seq(Inos \ {ROOT_INO})
    <2>1. F \subseteq Inos \ {ROOT_INO}
      BY <1>1, <1>3, NamespaceAssumption DEF Types, Inos
    <2>2. fs.free \in [1..Len(fs.free) -> Inos \ {ROOT_INO}] /\ Len(fs.free) \in Nat
      BY <1>1, <2>1, EnumeratesAt, LenProperties DEF Enumerates
    <2> QED BY <2>2, FunctionIsSeq
  <1>6. TypeOK
    BY <1>1, <1>4, <1>5 DEF TypeOK, Types, Inv, HandleType
  <1>7. EntriesValid
    BY <1>1 DEF EntriesValid, Valid, Dirs
  <1>8. InodeNumbers
    BY <1>1, <1>2 DEF InodeNumbers, Enumerates
  <1> QED BY <1>6, <1>7, <1>8 DEF WellFormed

\* What unlink, rename and alloc_inode rely on without looking: the type an
\* entry records is that of an inode that exists, and an inode number that is
\* free or in use is so once.
THEOREM WellFormedHolds == Spec => []WellFormed
  <1>1. Inv => WellFormed
    BY InvWellFormed
  <1> QED BY <1>1, InvHolds, PTL

LEMMA LinksAre ==
  ASSUME Inv, NEW i
  PROVE  Links(i) = LinksOf(fs, i) /\ Subdirs(i) = SubsOf(fs, i)
  <1>1. \A p \in Inos : p \notin Dirs(fs) => DOMAIN fs.ents[p] = {}
    BY DEF Inv, Basic, Valid, Dirs
  <1>2. Dirs(fs) \subseteq Inos
    BY DEF Dirs
  <1>3. Links(i) = LinksOf(fs, i)
    BY <1>1, <1>2 DEF Links, LinksOf, Has
  <1>4. Subdirs(i) = SubsOf(fs, i)
    BY DEF Subdirs, SubsOf, Has
  <1> QED BY <1>3, <1>4

\* Every nlink is the number of entries a fsck would count, whatever sequence
\* of creates, links, renames and unlinks came before: saturating_sub never
\* hides a miscount.
THEOREM LinkCountsHolds == Spec => []LinkCounts
  <1>1. Inv => LinkCounts
    <2> SUFFICES ASSUME Inv, NEW i \in Live
                 PROVE  fs.nlink[i] = IF fs.kind[i] = "file" THEN Cardinality(Links(i))
                                      ELSE 1 + Cardinality(Subdirs(i))
                                        + (IF i = ROOT_INO THEN 1 ELSE Cardinality(Links(i)))
      BY DEF LinkCounts
    <2>1. i \in LiveOf(fs)
      BY DEF Live, LiveOf
    <2>2. fs.nlink[i] = Want(fs, i)
      BY <2>1 DEF Inv, Basic, Counts
    <2> QED BY <2>2, LinksAre DEF Want, LinkNum, SubNum
  <1> QED BY <1>1, InvHolds, PTL

\* An inode without links is an orphan that a counted handle keeps, and
\* open_count is the number of handles unless File::clone is called, also
\* when threads unlink what another one is opening.
THEOREM OpenCountsHolds == Spec => []OpenCounts
  <1>1. Inv => OpenCounts
    <2> SUFFICES ASSUME Inv PROVE OpenCounts
      OBVIOUS
    <2>1. Live = LiveOf(fs)
      BY DEF Live, LiveOf
    <2>2. OrphansOpen
      BY <2>1 DEF OrphansOpen, Inv, Orph
    <2>3. OpensCounted
      BY DEF OpensCounted, Inv, Counted, OpenSet
    <2> QED BY <2>2, <2>3 DEF OpenCounts
  <1> QED BY <1>1, InvHolds, PTL

\* Unlink-while-open, for a program with one thread that does not call
\* File::clone: the inode behind an open handle is never dropped.
THEOREM HandlesKeepInodeHolds == Spec => []HandlesKeepInode
  <1>1. Inv => HandlesKeepInode
    BY DEF Inv, KeptAt, HandlesKeepInode, UnlinkWhileOpen
  <1> QED BY <1>1, InvHolds, PTL

\* Renames never close a loop, provided is_ancestor may take as many steps as
\* there are inodes; and a directory has at most one entry, in its parent.
THEOREM TreeIntactHolds ==
  ASSUME Guard + 1 >= MaxIno
  PROVE  Spec => []TreeIntact
  <1>1. Init => Inv /\ Acyclic(fs)
    BY InitInv
  <1>2. Inv /\ Acyclic(fs) /\ [Next]_vars => Inv' /\ Acyclic(fs')
    BY StepInv
  <1>3. Inv /\ Acyclic(fs) => TreeIntact
    <2> SUFFICES ASSUME Inv, Acyclic(fs) PROVE TreeIntact
      OBVIOUS
    <2>1. Basic(fs) /\ Types(fs) /\ Tree(fs) /\ Valid(fs)
      BY DEF Inv, Basic
    <2>2. ASSUME NEW d \in Dirs(fs) PROVE RootAbove(d)
      <3> DEFINE g == ChainOf(fs, d, MaxIno)
      <3>1. MaxIno \in Nat /\ d \in Inos
        BY NamespaceAssumption DEF Dirs
      <3>2. IsChain(g, fs, d, MaxIno)
        BY <2>1, <3>1, ChainExists
      <3>3. g[MaxIno] = ROOT_INO
        BY <2>1, <3>2, AcyclicReachesRoot
      <3> QED BY <3>3 DEF RootAbove, ChainOf, IsChainOf, ChainBody
    <2>3. \A d \in Dirs(fs) : \A l \in Links(d) : l[1] = fs.up[d]
      BY <2>1, LinksAre DEF Tree
    <2>4. ASSUME NEW d \in Dirs(fs) PROVE Cardinality(Links(d)) <= 1
      <3>1. \A l, m \in Links(d) : l = m
        BY <2>1, LinksAre DEF Tree
      <3>2. CASE Links(d) = {}
        BY <3>2, FS_EmptySet
      <3>3. CASE Links(d) # {}
        <4>1. PICK l : l \in Links(d)
          BY <3>3
        <4>2. Links(d) = {l}
          BY <3>1, <4>1
        <4>3. Cardinality({l}) = 1
          BY FS_Singleton
        <4> QED BY <4>2, <4>3
      <3> QED BY <3>2, <3>3
    <2>5. Links(ROOT_INO) = {}
      BY <2>1 DEF Valid, Links, Has, Dirs
    <2> QED BY <2>2, <2>3, <2>4, <2>5 DEF TreeIntact
  <1> DEFINE K == Inv /\ Acyclic(fs)
  <1>4. Init => K
    BY <1>1
  <1>5. K /\ [Next]_vars => K'
    BY <1>2
  <1>6. K => TreeIntact
    BY <1>3
  <1> HIDE DEF K
  <1> QED BY <1>4, <1>5, <1>6, PTL DEF Spec


-----------------------------------------------------------------------------
(* create_dir_all and remove_dir_all (TreeOps): what holds between any two  *)
(* of their calls.                                                          *)

Paths == Seq(Names) \ {<<>>}

Todos == Seq([name : Names, ft : {"file", "dir"}])

FrameType == [path : Paths, at : {"lstat", "list", "child", "unlink"}, todo : Todos]

IsThread(s) ==
  /\ DOMAIN s = {"op", "path", "level", "at", "stack", "res"}
  /\ s.op \in {"make", "remove"}
  /\ s.path \in Paths
  /\ s.level \in 1..Len(s.path)
  /\ s.at \in {"mkdir", "stat"}
  /\ s.stack \in Seq(FrameType) /\ s.stack # <<>>

\* The list of a directory holds the names of its entries, each once.
Ordered(s, o) ==
  /\ o \in [Inos -> Seq(Names)]
  /\ \A d \in Dirs(s) : Enumerates(o[d], DOMAIN s.ents[d])

TreeInv ==
  /\ Inv
  /\ \A h \in Handles : handle[h].st = "closed"
  /\ Ordered(fs, order)
  /\ DOMAIN th = Threads
  /\ \A t \in Threads : IsThread(th[t])

-----------------------------------------------------------------------------
(* Where a path leads. *)

\* The walk that At defines by recursion, in engine s.
ToBody(g, s, p, k) ==
  IF k = 0 THEN ROOT_INO
  ELSE IF g[k - 1] # 0 /\ p[k] \in DOMAIN s.ents[g[k - 1]]
       THEN s.ents[g[k - 1]][p[k]].ino ELSE 0

IsToOf(g, s, p) == g = [k \in 0..Len(p) |-> ToBody(g, s, p, k)]

ToOf(s, p) == CHOOSE g : IsToOf(g, s, p)

AtIn(s, p) == ToOf(s, p)[Len(p)]

LEMMA AtIs == ASSUME NEW p PROVE At(p) = AtIn(fs, p)
  BY DEF At, AtIn, ToOf, IsToOf, ToBody

\* One step of the walk.
EntryOf(s, d, n) == IF d # 0 /\ n \in DOMAIN s.ents[d] THEN s.ents[d][n].ino ELSE 0

LEMMA EntryOfType ==
  ASSUME NEW s, Types(s), NEW d \in Inos \cup {0}, NEW n
  PROVE  EntryOf(s, d, n) \in Inos \cup {0}
  <1>1. CASE d # 0 /\ n \in DOMAIN s.ents[d]
    BY <1>1, EntsAt DEF EntryOf
  <1>2. CASE ~ (d # 0 /\ n \in DOMAIN s.ents[d])
    BY <1>2 DEF EntryOf
  <1> QED BY <1>1, <1>2

IsTo(g, s, p) ==
  /\ g[0] = ROOT_INO
  /\ \A k \in 1..Len(p) : g[k] = EntryOf(s, g[k - 1], p[k])

LEMMA ToExists ==
  ASSUME NEW s, Types(s), NEW p \in Seq(Names)
  PROVE  IsTo(ToOf(s, p), s, p)
  <1> DEFINE n == Len(p)
             T == Inos \cup {0}
             h == [x \in (1..n) \X T |-> EntryOf(s, x[2], p[x[1]])]
             c == ToOf(s, p)
  <1>0. n \in Nat /\ ROOT_INO \in T
    BY InosFinite, LenProperties
  <1>1. h \in StepFunctions(n, T)
    <2>1. \A x \in (1..n) \X T : EntryOf(s, x[2], p[x[1]]) \in T
      BY EntryOfType
    <2> QED BY <2>1 DEF StepFunctions
  <1>2. PICK g : IsRecursion(g, n, T, ROOT_INO, h)
    <2> HIDE DEF h, n, T
    <2> QED BY <1>0, <1>1, RecursionExists
  <1>3. g \in [0..n -> T] /\ g[0] = ROOT_INO /\ \A k \in 1..n : g[k] = EntryOf(s, g[k - 1], p[k])
    <2>1. g \in [0..n -> T] /\ g[0] = ROOT_INO /\ \A k \in 1..n : g[k] = h[<<k, g[k - 1]>>]
      BY <1>2 DEF IsRecursion
    <2>2. ASSUME NEW k \in 1..n PROVE g[k] = EntryOf(s, g[k - 1], p[k])
      <3>1. k - 1 \in 0..n
        BY <1>0
      <3>2. g[k - 1] \in T
        BY <2>1, <3>1
      <3> QED BY <2>1, <3>2
    <2> QED BY <2>1, <2>2
  <1> HIDE DEF h
  <1>4. IsToOf(g, s, p)
    <2>1. ASSUME NEW k \in 0..n PROVE g[k] = ToBody(g, s, p, k)
      <3>1. CASE k = 0
        BY <1>3, <3>1 DEF ToBody
      <3>2. CASE k # 0
        <4>1. k \in 1..n
          BY <1>0, <3>2
        <4> QED BY <1>3, <3>2, <4>1 DEF ToBody, EntryOf
      <3> QED BY <3>1, <3>2
    <2> QED BY <1>3, <2>1 DEF IsToOf
  <1>5. IsToOf(c, s, p)
    BY <1>4 DEF ToOf
  <1> HIDE DEF c
  <1>6. c[0] = ROOT_INO
    <2>1. 0 \in 0..n
      BY <1>0
    <2>2. c[0] = ToBody(c, s, p, 0)
      BY <1>5, <2>1 DEF IsToOf
    <2> QED BY <2>2 DEF ToBody
  <1>7. ASSUME NEW k \in 1..n PROVE c[k] = EntryOf(s, c[k - 1], p[k])
    <2>1. k \in 0..n /\ k # 0
      BY <1>0
    <2>2. c[k] = ToBody(c, s, p, k)
      BY <1>5, <2>1 DEF IsToOf
    <2> QED BY <2>1, <2>2 DEF ToBody, EntryOf
  <1> QED BY <1>6, <1>7 DEF IsTo, c

\* The front of a path and its last name.
LEMMA ParentIs ==
  ASSUME NEW p \in Paths
  PROVE  /\ Parent(p) \in Seq(Names) /\ Len(p) \in Nat /\ Len(p) >= 1
         /\ Len(Parent(p)) = Len(p) - 1
         /\ \A k \in 1..(Len(p) - 1) : Parent(p)[k] = p[k]
         /\ Base(p) \in Names /\ Base(p) = p[Len(p)]
  <1>1. p \in Seq(Names) /\ Len(p) \in Nat /\ Len(p) >= 1
    BY EmptySeq, LenProperties DEF Paths
  <1> DEFINE n == Len(p)
             m == n - 1
  <1>2. m \in Nat /\ n = m + 1 /\ \A k \in 1..m : k \in 1..n
    BY <1>1
  <1>3. \A k \in 1..n : p[k] \in Names
    BY <1>1, ElementOfSeq
  <1> HIDE DEF m, n
  <1>4. /\ SubSeq(p, 1, m) \in Seq(Names)
        /\ Len(SubSeq(p, 1, m)) = IF 1 <= m THEN m - 1 + 1 ELSE 0
        /\ \A i \in 1..(m - 1 + 1) : SubSeq(p, 1, m)[i] = p[1 + i - 1]
    BY <1>1, <1>2, <1>3, SubSeqProperties DEF n
  <1>5. m - 1 + 1 = m /\ (~ (1 <= m) => m = 0) /\ \A i \in 1..m : 1 + i - 1 = i
    BY <1>2
  <1>6. n \in 1..n
    BY <1>1 DEF n
  <1> QED BY <1>1, <1>3, <1>4, <1>5, <1>6 DEF Parent, Base, m, n

LEMMA AtRoot ==
  ASSUME NEW s, Types(s)
  PROVE  AtIn(s, <<>>) = ROOT_INO
  <1>1. <<>> \in Seq(Names) /\ Len(<<>>) = 0
    OBVIOUS
  <1>2. IsTo(ToOf(s, <<>>), s, <<>>)
    BY <1>1, ToExists
  <1> QED BY <1>1, <1>2 DEF IsTo, AtIn

LEMMA AtLast ==
  ASSUME NEW s, Types(s), NEW p \in Paths
  PROVE  AtIn(s, p) = EntryOf(s, AtIn(s, Parent(p)), Base(p))
  <1> DEFINE n == Len(p)
             q == Parent(p)
             g == ToOf(s, p)
             f == ToOf(s, q)
  <1>1. /\ q \in Seq(Names) /\ n \in Nat /\ n >= 1 /\ Len(q) = n - 1
        /\ \A k \in 1..(n - 1) : q[k] = p[k]
        /\ Base(p) = p[n]
    BY ParentIs
  <1>2. p \in Seq(Names)
    BY DEF Paths
  <1>3. IsTo(g, s, p) /\ IsTo(f, s, q)
    BY <1>1, <1>2, ToExists
  <1> HIDE DEF g, f, q
  <1>4. \A k \in 0..(n - 1) : f[k] = g[k]
    <2> DEFINE S == {k \in Nat : k <= n - 1 => f[k] = g[k]}
    <2>1. 0 \in S
      BY <1>3 DEF IsTo
    <2>2. ASSUME NEW k \in Nat, k \in S PROVE k + 1 \in S
      <3> SUFFICES ASSUME k + 1 <= n - 1 PROVE f[k + 1] = g[k + 1]
        OBVIOUS
      <3>1. k + 1 \in 1..(n - 1) /\ k + 1 \in 1..n /\ (k + 1) - 1 = k /\ f[k] = g[k]
        BY <1>1, <2>2
      <3>2. f[k + 1] = EntryOf(s, f[k], q[k + 1]) /\ g[k + 1] = EntryOf(s, g[k], p[k + 1])
        BY <1>1, <1>3, <3>1 DEF IsTo
      <3> QED BY <1>1, <3>1, <3>2
    <2> HIDE DEF S
    <2>3. Nat \subseteq S
      BY <2>1, <2>2, NatInduct
    <2> QED BY <1>1, <2>3 DEF S
  <1>5. n \in 1..n /\ n - 1 \in 0..(n - 1)
    BY <1>1
  <1>6. g[n] = EntryOf(s, g[n - 1], p[n])
    BY <1>3, <1>5 DEF IsTo
  <1> QED BY <1>1, <1>4, <1>5, <1>6 DEF AtIn, g, f, q

\* Induction over paths.
LEMMA PathInduct ==
  ASSUME NEW S, <<>> \in S,
         \A p \in Paths : Parent(p) \in S => p \in S
  PROVE  Seq(Names) \subseteq S
  <1> DEFINE N == {n \in Nat : \A p \in Seq(Names) : Len(p) = n => p \in S}
  <1>1. 0 \in N
    BY EmptySeq
  <1>2. ASSUME NEW n \in Nat, n \in N PROVE n + 1 \in N
    <2> SUFFICES ASSUME NEW p \in Seq(Names), Len(p) = n + 1 PROVE p \in S
      BY <1>2
    <2>1. p \in Paths
      BY EmptySeq DEF Paths
    <2>2. Parent(p) \in Seq(Names) /\ Len(Parent(p)) = n
      BY <2>1, ParentIs
    <2>3. Parent(p) \in S
      BY <1>2, <2>2
    <2> QED BY <2>1, <2>3
  <1> HIDE DEF N
  <1>3. Nat \subseteq N
    BY <1>1, <1>2, NatInduct
  <1> SUFFICES ASSUME NEW p \in Seq(Names) PROVE p \in S
    OBVIOUS
  <1>4. Len(p) \in Nat
    BY LenProperties
  <1> QED BY <1>3, <1>4 DEF N

\* A path leads to an inode that exists, or nowhere.
LEMMA AtType ==
  ASSUME NEW s, Basic(s), NEW p \in Seq(Names)
  PROVE  AtIn(s, p) = 0 \/ (AtIn(s, p) \in Inos /\ AtIn(s, p) \in LiveOf(s))
  <1> DEFINE S == {q \in Seq(Names) : AtIn(s, q) = 0 \/ AtIn(s, q) \in LiveOf(s)}
  <1>0. Types(s) /\ Valid(s)
    BY DEF Basic
  <1>1. <<>> \in S
    BY <1>0, AtRoot, InosFinite DEF Valid, LiveOf
  <1>2. ASSUME NEW q \in Paths, Parent(q) \in S PROVE q \in S
    <2> DEFINE d == AtIn(s, Parent(q))
               n == Base(q)
    <2>1. AtIn(s, q) = EntryOf(s, d, n) /\ q \in Seq(Names)
      BY <1>0, AtLast DEF Paths
    <2>2. d = 0 \/ d \in LiveOf(s)
      BY <1>2
    <2> HIDE DEF d, n
    <2>3. CASE d # 0 /\ n \in DOMAIN s.ents[d]
      <3>1. d \in Inos
        BY <2>2, <2>3 DEF LiveOf
      <3>2. s.ents[d][n].ino \in Inos /\ s.ents[d][n].ft \in {"file", "dir"}
            /\ s.kind[s.ents[d][n].ino] = s.ents[d][n].ft
        BY <1>0, <2>3, <3>1, EntsAt DEF Valid
      <3> QED BY <2>1, <2>3, <3>2 DEF EntryOf, LiveOf
    <2>4. CASE ~ (d # 0 /\ n \in DOMAIN s.ents[d])
      BY <2>1, <2>4 DEF EntryOf
    <2> QED BY <2>3, <2>4
  <1> HIDE DEF S
  <1>3. Seq(Names) \subseteq S
    BY <1>1, <1>2, PathInduct
  <1> QED BY <1>3 DEF S, LiveOf

\* What leads somewhere is an entry of a directory.
LEMMA AtEntry ==
  ASSUME NEW s, Basic(s), NEW p \in Paths, AtIn(s, p) # 0
  PROVE  LET d == AtIn(s, Parent(p)) IN
         /\ d # 0 /\ d \in Inos /\ d \in Dirs(s) /\ Base(p) \in DOMAIN s.ents[d]
         /\ AtIn(s, p) = s.ents[d][Base(p)].ino /\ DOMAIN s.ents[d] # {}
         /\ s.kind[AtIn(s, p)] = s.ents[d][Base(p)].ft
         /\ s.kind[AtIn(s, p)] \in {"file", "dir"} /\ AtIn(s, p) \in Inos
  <1> DEFINE d == AtIn(s, Parent(p))
             n == Base(p)
  <1>0. Types(s) /\ Valid(s)
    BY DEF Basic
  <1>1. AtIn(s, p) = EntryOf(s, d, n) /\ Parent(p) \in Seq(Names)
    BY <1>0, AtLast, ParentIs
  <1>2. d = 0 \/ d \in Inos
    BY <1>1, AtType
  <1> HIDE DEF d, n
  <1>3. d # 0 /\ n \in DOMAIN s.ents[d] /\ AtIn(s, p) = s.ents[d][n].ino
    BY <1>1 DEF EntryOf
  <1>4. s.kind[d] = "dir" /\ s.kind[s.ents[d][n].ino] = s.ents[d][n].ft
    BY <1>0, <1>2, <1>3 DEF Valid
  <1>5. s.ents[d][n].ino \in Inos /\ s.ents[d][n].ft \in {"file", "dir"}
    BY <1>0, <1>2, <1>3, EntsAt
  <1>6. d \in Dirs(s)
    BY <1>2, <1>3, <1>4 DEF Dirs
  <1> QED BY <1>2, <1>3, <1>4, <1>5, <1>6 DEF d, n

\* The path of length k that p begins with.
LEMMA FrontIs ==
  ASSUME NEW p \in Seq(Names), NEW k \in 0..Len(p)
  PROVE  /\ SubSeq(p, 1, k) \in Seq(Names) /\ Len(SubSeq(p, 1, k)) = k /\ Len(p) \in Nat
         /\ \A i \in 1..k : SubSeq(p, 1, k)[i] = p[i]
  <1>1. Len(p) \in Nat /\ \A i \in 1..Len(p) : p[i] \in Names
    BY LenProperties, ElementOfSeq
  <1>2. k \in Nat /\ \A i \in 1..k : i \in 1..Len(p)
    BY <1>1
  <1>3. /\ SubSeq(p, 1, k) \in Seq(Names)
        /\ Len(SubSeq(p, 1, k)) = IF 1 <= k THEN k - 1 + 1 ELSE 0
        /\ \A i \in 1..(k - 1 + 1) : SubSeq(p, 1, k)[i] = p[1 + i - 1]
    BY <1>1, <1>2, SubSeqProperties
  <1>4. k - 1 + 1 = k /\ (~ (1 <= k) => k = 0) /\ \A i \in 1..k : 1 + i - 1 = i
    BY <1>2
  <1> QED BY <1>1, <1>3, <1>4

LEMMA SamePath ==
  ASSUME NEW p \in Seq(Names), NEW q \in Seq(Names), Len(p) = Len(q),
         \A i \in 1..Len(p) : p[i] = q[i]
  PROVE  p = q
  BY SeqEqual

LEMMA FrontFront ==
  ASSUME NEW p \in Paths, NEW k \in 0..(Len(p) - 1)
  PROVE  /\ SubSeq(Parent(p), 1, k) = SubSeq(p, 1, k)
         /\ k + 1 \in 1..Len(p) /\ SubSeq(p, 1, k + 1) \in Paths
         /\ Parent(SubSeq(p, 1, k + 1)) = SubSeq(p, 1, k) /\ Base(SubSeq(p, 1, k + 1)) = p[k + 1]
         /\ SubSeq(p, 1, Len(p)) = p /\ SubSeq(p, 1, Len(p) - 1) = Parent(p)
  <1> DEFINE n == Len(p)
             a == SubSeq(Parent(p), 1, k)
             b == SubSeq(p, 1, k)
             c == SubSeq(p, 1, k + 1)
             e == SubSeq(p, 1, n)
  <1>1. /\ Parent(p) \in Seq(Names) /\ n \in Nat /\ n >= 1 /\ Len(Parent(p)) = n - 1
        /\ \A i \in 1..(n - 1) : Parent(p)[i] = p[i]
        /\ p \in Seq(Names)
    BY ParentIs DEF Paths
  <1>2. k \in 0..Len(Parent(p)) /\ k \in 0..n /\ k + 1 \in 0..n /\ n \in 0..n /\ k + 1 \in 1..n
        /\ k \in Nat
    BY <1>1
  <1>3. a \in Seq(Names) /\ Len(a) = k /\ \A i \in 1..k : a[i] = Parent(p)[i]
    BY <1>1, <1>2, FrontIs
  <1>4. b \in Seq(Names) /\ Len(b) = k /\ \A i \in 1..k : b[i] = p[i]
    BY <1>1, <1>2, FrontIs
  <1>5. c \in Seq(Names) /\ Len(c) = k + 1 /\ \A i \in 1..(k + 1) : c[i] = p[i]
    BY <1>1, <1>2, FrontIs
  <1>6. e \in Seq(Names) /\ Len(e) = n /\ \A i \in 1..n : e[i] = p[i]
    BY <1>1, <1>2, FrontIs
  <1> HIDE DEF a, b, c, e
  <1>7. \A i \in 1..k : i \in 1..(n - 1) /\ i \in 1..(k + 1)
    BY <1>1, <1>2
  <1>8. a = b
    BY <1>1, <1>3, <1>4, <1>7, SamePath
  <1>9. c \in Paths
    BY <1>2, <1>5, EmptySeq DEF Paths
  <1>10. Parent(c) \in Seq(Names) /\ Len(Parent(c)) = k /\ (\A i \in 1..k : Parent(c)[i] = c[i])
         /\ Base(c) = c[k + 1]
    <2>1. /\ Parent(c) \in Seq(Names) /\ Len(Parent(c)) = Len(c) - 1
          /\ \A i \in 1..(Len(c) - 1) : Parent(c)[i] = c[i]
          /\ Base(c) = c[Len(c)]
      BY <1>9, ParentIs
    <2>2. Len(c) - 1 = k
      BY <1>2, <1>5
    <2> QED BY <1>5, <2>1, <2>2
  <1>11. Parent(c) = b
    BY <1>4, <1>5, <1>7, <1>10, SamePath
  <1>12. Base(c) = p[k + 1]
    BY <1>2, <1>5, <1>10
  <1>13. e = p
    BY <1>1, <1>6, SamePath
  <1> QED BY <1>2, <1>8, <1>9, <1>11, <1>12, <1>13 DEF a, b, c, e, Parent

\* Entries that stay keep the paths that lead over them.
Contains(s, d) ==
  \A i \in Inos : \A n \in DOMAIN s.ents[i] :
    n \in DOMAIN d.ents[i] /\ d.ents[i][n].ino = s.ents[i][n].ino

LEMMA AtGrown ==
  ASSUME NEW s, NEW d, Basic(s), Basic(d), Contains(s, d), NEW p \in Seq(Names), AtIn(s, p) # 0
  PROVE  AtIn(d, p) = AtIn(s, p)
  <1> DEFINE S == {q \in Seq(Names) : AtIn(s, q) # 0 => AtIn(d, q) = AtIn(s, q)}
  <1>0. Types(s) /\ Types(d)
    BY DEF Basic
  <1>1. <<>> \in S
    BY <1>0, AtRoot
  <1>2. ASSUME NEW q \in Paths, Parent(q) \in S PROVE q \in S
    <2> SUFFICES ASSUME AtIn(s, q) # 0 PROVE AtIn(d, q) = AtIn(s, q)
      BY DEF Paths
    <2> DEFINE x == AtIn(s, Parent(q))
    <2>1. x # 0 /\ x \in Inos /\ Base(q) \in DOMAIN s.ents[x] /\ AtIn(s, q) = s.ents[x][Base(q)].ino
      BY AtEntry
    <2>2. AtIn(d, Parent(q)) = x
      BY <1>2, <2>1
    <2>3. AtIn(d, q) = EntryOf(d, x, Base(q))
      BY <1>0, <2>2, AtLast
    <2> HIDE DEF x
    <2> QED BY <2>1, <2>3 DEF EntryOf, Contains
  <1> HIDE DEF S
  <1>3. Seq(Names) \subseteq S
    BY <1>1, <1>2, PathInduct
  <1> QED BY <1>3 DEF S

LEMMA AtShrunk ==
  ASSUME NEW s, NEW d, Basic(s), Basic(d), NEW q, NEW n, Removed(s, d, q, n), NEW p \in Seq(Names)
  PROVE  AtIn(d, p) = 0 \/ AtIn(d, p) = AtIn(s, p)
  <1>1. Contains(d, s)
    BY DEF Contains, Removed
  <1> QED BY <1>1, AtGrown

\* An entry of an inode that has none itself is on the way to nothing else.
LEMMA AtKept ==
  ASSUME NEW s, NEW d, Basic(s), Basic(d), NEW q, NEW n, Removed(s, d, q, n),
         DOMAIN s.ents[s.ents[q][n].ino] = {},
         NEW p \in Seq(Names), AtIn(s, p) # 0, AtIn(s, p) # s.ents[q][n].ino
  PROVE  AtIn(d, p) = AtIn(s, p)
  <1> DEFINE i == s.ents[q][n].ino
             S == {r \in Seq(Names) : AtIn(s, r) # 0 /\ AtIn(s, r) # i => AtIn(d, r) = AtIn(s, r)}
  <1>0. Types(s) /\ Types(d)
    BY DEF Basic
  <1> HIDE DEF i
  <1>1. <<>> \in S
    BY <1>0, AtRoot
  <1>2. ASSUME NEW r \in Paths, Parent(r) \in S PROVE r \in S
    <2> SUFFICES ASSUME AtIn(s, r) # 0, AtIn(s, r) # i PROVE AtIn(d, r) = AtIn(s, r)
      BY DEF Paths
    <2> DEFINE x == AtIn(s, Parent(r))
    <2>1. /\ x # 0 /\ x \in Inos /\ Base(r) \in DOMAIN s.ents[x]
          /\ AtIn(s, r) = s.ents[x][Base(r)].ino /\ DOMAIN s.ents[x] # {}
      BY AtEntry
    <2>2. x # i
      BY <2>1 DEF i
    <2>3. AtIn(d, Parent(r)) = x
      BY <1>2, <2>1, <2>2
    <2>4. AtIn(d, r) = EntryOf(d, x, Base(r))
      BY <1>0, <2>3, AtLast
    <2> HIDE DEF x
    <2>5. <<x, Base(r)>> # <<q, n>>
      BY <2>1 DEF i
    <2>6. Base(r) \in DOMAIN d.ents[x] /\ d.ents[x][Base(r)] = s.ents[x][Base(r)]
      BY <2>1, <2>5 DEF Removed
    <2> QED BY <2>1, <2>4, <2>6 DEF EntryOf
  <1> HIDE DEF S
  <1>3. Seq(Names) \subseteq S
    BY <1>1, <1>2, PathInduct
  <1> QED BY <1>3 DEF S, i

\* The path that was removed leads nowhere.
LEMMA AtGone ==
  ASSUME NEW s, NEW d, Basic(s), Basic(d), NEW p \in Paths,
         Removed(s, d, AtIn(s, Parent(p)), Base(p))
  PROVE  AtIn(d, p) = 0
  <1> DEFINE x == AtIn(s, Parent(p))
             y == AtIn(d, Parent(p))
  <1>1. y = 0 \/ y = x
    BY ParentIs, AtShrunk
  <1>2. AtIn(d, p) = EntryOf(d, y, Base(p))
    BY AtLast DEF Basic
  <1> HIDE DEF x, y
  <1>3. Base(p) \notin DOMAIN d.ents[x]
    BY DEF Removed, x
  <1> QED BY <1>1, <1>2, <1>3 DEF EntryOf

-----------------------------------------------------------------------------
(* The lists of the directories. *)

LEMMA WithoutIs ==
  ASSUME NEW o \in Seq(Names), NEW S, Enumerates(o, S), NEW n \in S
  PROVE  LET w == Without(o, n) IN
         /\ w \in Seq(Names) /\ Enumerates(w, S \ {n}) /\ Len(o) \in Nat /\ Len(o) >= 1
         /\ Len(w) = Len(o) - 1
         /\ o[1] = n => \A j \in 1..Len(w) : w[j] = o[j + 1]
  <1> DEFINE len == Len(o)
             m == len - 1
             Is(j) == o[j] = n /\ \A k \in 1..(j - 1) : o[k] # n
             pos == CHOOSE j \in DOMAIN o : Is(j)
             w == [j \in 1..m |-> IF j < pos THEN o[j] ELSE o[j + 1]]
  <1>1. /\ len \in Nat /\ DOMAIN o = 1..len
        /\ \A i \in 1..len : o[i] \in S
        /\ \A x \in S : \E i \in 1..len : o[i] = x
        /\ \A i, j \in 1..len : o[i] = o[j] => i = j
    BY EnumeratesAt
  <1>2. PICK i \in 1..len : o[i] = n
    BY <1>1
  <1>3. Is(i)
    <2>1. \A k \in 1..(i - 1) : k \in 1..len /\ k # i
      BY <1>1
    <2> QED BY <1>1, <1>2, <2>1
  <1>4. pos \in 1..len /\ o[pos] = n
    <2> HIDE DEF Is
    <2>1. pos \in DOMAIN o /\ Is(pos)
      BY <1>1, <1>3
    <2> QED BY <1>1, <2>1 DEF Is
  <1>5. pos = i
    BY <1>1, <1>2, <1>4
  <1>6. w = Without(o, n)
    BY DEF Without
  <1>7. \A j \in 1..len : o[j] \in Names
    BY ElementOfSeq
  <1> HIDE DEF pos
  <1>8. m \in Nat /\ len = m + 1 /\ \A j \in 1..m : j \in 1..len /\ j + 1 \in 1..len
    BY <1>1
  <1>9. w \in [1..m -> Names]
    BY <1>7, <1>8
  <1>10. \A j \in 1..m : w[j] = IF j < pos THEN o[j] ELSE o[j + 1]
    OBVIOUS
  <1> HIDE DEF w, m, len, Is
  <1>11. w \in Seq(Names) /\ Len(w) = m
    BY <1>8, <1>9, FunctionIsSeq
  <1>12. \A j \in 1..m : w[j] \in S \ {n}
    <2> SUFFICES ASSUME NEW j \in 1..m PROVE w[j] \in S \ {n}
      OBVIOUS
    <2>1. CASE j < pos
      <3>1. w[j] = o[j] /\ j # pos /\ j \in 1..len
        BY <1>4, <1>8, <1>10, <2>1
      <3> QED BY <1>1, <1>4, <3>1
    <2>2. CASE ~ (j < pos)
      <3>1. w[j] = o[j + 1] /\ j + 1 # pos /\ j + 1 \in 1..len
        BY <1>1, <1>4, <1>8, <1>10, <2>2
      <3> QED BY <1>1, <1>4, <3>1
    <2> QED BY <2>1, <2>2
  <1>13. ASSUME NEW x \in S \ {n} PROVE \E j \in 1..m : w[j] = x
    <2>1. PICK j \in 1..len : o[j] = x
      BY <1>1
    <2>2. j # pos
      BY <1>4, <2>1
    <2>3. CASE j < pos
      <3>1. j \in 1..m
        BY <1>1, <1>4, <1>8, <2>3
      <3> QED BY <1>10, <2>1, <2>3, <3>1
    <2>4. CASE ~ (j < pos)
      <3>1. j - 1 \in 1..m /\ ~ (j - 1 < pos) /\ (j - 1) + 1 = j
        BY <1>1, <1>4, <1>8, <2>2, <2>4
      <3> QED BY <1>10, <2>1, <3>1
    <2> QED BY <2>3, <2>4
  <1>14. ASSUME NEW a \in 1..m, NEW b \in 1..m, w[a] = w[b] PROVE a = b
    <2> DEFINE f(j) == IF j < pos THEN j ELSE j + 1
    <2>1. w[a] = o[f(a)] /\ w[b] = o[f(b)] /\ f(a) \in 1..len /\ f(b) \in 1..len
      BY <1>8, <1>10
    <2>2. f(a) = f(b)
      <3> HIDE DEF f
      <3> QED BY <1>1, <1>14, <2>1
    <2> QED BY <1>1, <1>4, <2>2
  <1>15. Enumerates(w, S \ {n})
    BY <1>8, <1>11, <1>12, <1>13, <1>14, EnumeratesBy
  <1>16. ASSUME o[1] = n PROVE \A j \in 1..Len(w) : w[j] = o[j + 1]
    <2>1. 1 \in 1..len
      BY <1>1, <1>2
    <2>2. pos = 1
      BY <1>1, <1>4, <1>16, <2>1
    <2> QED BY <1>8, <1>10, <1>11, <2>2
  <1>17. len >= 1
    BY <1>1, <1>2
  <1> QED BY <1>1, <1>6, <1>8, <1>11, <1>15, <1>16, <1>17 DEF len, m

\* What a step needs of the engine for the common part of the invariant.
LEMMA TreeInvKept ==
  ASSUME TreeInv, prog' = prog, handle' = handle, Basic(fs'), Orph(fs'), fs'.opens = fs.opens
  PROVE  Inv' /\ \A h \in Handles : handle'[h].st = "closed"
  <1>1. KeptAt(fs', handle)
    BY DEF TreeInv, KeptAt
  <1> QED BY <1>1 DEF TreeInv, Inv

\* create_dir makes a directory at p.
LEMMA AddsIs ==
  ASSUME TreeInv, NEW p \in Paths, IsDirAt(Parent(p)), At(p) = 0, Adds(p, "dir")
  PROVE  /\ Inv' /\ (\A h \in Handles : handle'[h].st = "closed") /\ Ordered(fs', order')
         /\ Contains(fs, fs') /\ Basic(fs) /\ Basic(fs')
         /\ \A i \in LiveOf(fs) : fs'.kind[i] = fs.kind[i]
         /\ AtIn(fs', p) # 0 /\ fs'.kind[AtIn(fs', p)] = "dir"
  <1> DEFINE d == At(Parent(p))
             n == Base(p)
             i == NextIno(fs)
  <1>1. /\ i \in Inos /\ fs' = CreateChild(fs, d, n, "dir")
        /\ order' = [order EXCEPT ![d] = Append(@, n), ![i] = <<>>]
        /\ prog' = prog /\ handle' = handle
    BY DEF Adds
  <1>2. Basic(fs) /\ Orph(fs) /\ Ordered(fs, order) /\ Types(fs)
    BY DEF TreeInv, Inv, Basic
  <1>3. d # 0 /\ fs.kind[d] = "dir" /\ n \in Names /\ Parent(p) \in Seq(Names)
    BY ParentIs DEF IsDirAt
  <1>4. d \in Inos /\ d \in Dirs(fs)
    BY <1>2, <1>3, AtIs, AtType DEF Dirs
  <1>5. ~ Has(fs, d, n)
    <2>1. EntryOf(fs, d, n) = 0
      BY <1>2, AtIs, AtLast
    <2>2. n \in DOMAIN fs.ents[d] => fs.ents[d][n].ino \in Inos
      BY <1>2, <1>4, EntsAt
    <2> QED BY <1>3, <2>1, <2>2, InosFinite DEF EntryOf, Has, Inos
  <1> HIDE DEF d, n, i
  <1>6. Created(fs, fs', d, n, i, "dir")
    BY <1>1, <1>2, <1>3, <1>4, <1>5, CreateChildIs DEF i
  <1>7. /\ Basic(fs') /\ Orph(fs') /\ Dirs(fs') = Dirs(fs) \cup NewDirs(i, "dir")
        /\ i \notin LiveOf(fs)
    BY <1>1, <1>2, <1>4, <1>6, CreatedBasic, CreatedOrph DEF i
  <1>8. /\ d # i /\ \A j \in LiveOf(fs) : j # i
    BY <1>4, <1>7 DEF LiveOf, Dirs
  <1>9. /\ fs'.opens = fs.opens /\ fs'.ents[d][n].ino = i
        /\ DOMAIN fs'.ents[d] = DOMAIN fs.ents[d] \cup {n}
        /\ DOMAIN fs'.ents[i] = {}
        /\ \A q \in Inos \ {d} : DOMAIN fs'.ents[q] = DOMAIN fs.ents[q]
        /\ \A q \in Inos : \A m \in DOMAIN fs.ents[q] : fs'.ents[q][m] = fs.ents[q][m]
        /\ fs'.kind = [fs.kind EXCEPT ![i] = "dir"]
    <2>1. Removed(fs', fs, d, n) /\ i \in Inos \ {d} /\ n \notin DOMAIN fs.ents[d]
      BY <1>1, <1>5, <1>6, <1>8 DEF Created, Has
    <2>2. DOMAIN fs.ents[i] = {}
      BY <1>1, <1>2, NextInoFree DEF i
    <2>3. /\ fs'.opens = fs.opens /\ fs'.ents[d][n].ino = i
          /\ fs'.kind = [fs.kind EXCEPT ![i] = "dir"]
      BY <1>6 DEF Created
    <2> QED BY <2>1, <2>2, <2>3 DEF Removed
  <1>10. fs'.kind[i] = "dir" /\ \A j \in LiveOf(fs) : fs'.kind[j] = fs.kind[j]
    <2>1. \A j \in LiveOf(fs) : j \in Inos /\ j # i
      BY <1>8 DEF LiveOf
    <2>2. DOMAIN fs.kind = Inos /\ fs'.kind = [fs.kind EXCEPT ![i] = "dir"]
      BY <1>2, <1>9 DEF Types
    <2> QED BY <1>1, <2>1, <2>2
  <1>11. Contains(fs, fs')
    BY <1>9 DEF Contains
  <1>12. AtIn(fs', p) = i
    <2>1. AtIn(fs, Parent(p)) = d
      BY AtIs DEF d
    <2>2. AtIn(fs', Parent(p)) = d
      BY <1>2, <1>3, <1>7, <1>11, <2>1, AtGrown
    <2>3. AtIn(fs', p) = EntryOf(fs', d, n)
      BY <1>7, <2>2, AtLast DEF Basic, n
    <2> QED BY <1>3, <1>9, <2>3 DEF EntryOf
  <1>13. Ordered(fs', order')
    <2>1. /\ order \in [Inos -> Seq(Names)] /\ order[d] \in Seq(Names)
          /\ Enumerates(order[d], DOMAIN fs.ents[d]) /\ n \notin DOMAIN fs.ents[d]
      BY <1>2, <1>4, <1>5 DEF Ordered, Has
    <2>2. Append(order[d], n) \in Seq(Names)
      BY <1>3, <2>1, AppendProperties
    <2>3. <<>> \in Seq(Names)
      OBVIOUS
    <2>4. /\ order' \in [Inos -> Seq(Names)] /\ order'[d] = Append(order[d], n)
          /\ order'[i] = <<>> /\ \A q \in Inos \ {d, i} : order'[q] = order[q]
      BY <1>1, <1>4, <1>8, <2>1, <2>2, <2>3
    <2>5. Enumerates(order'[d], DOMAIN fs'.ents[d])
      <3>1. Enumerates(Append(order[d], n), DOMAIN fs.ents[d] \cup {n})
        BY <2>1, EnumeratesAppend
      <3>2. DOMAIN fs'.ents[d] = DOMAIN fs.ents[d] \cup {n}
        BY <1>9
      <3> QED BY <2>4, <3>1, <3>2
    <2>6. Enumerates(<<>>, {})
      <3>1. <<>> \in Seq({}) /\ DOMAIN <<>> = {}
        OBVIOUS
      <3> QED BY <3>1 DEF Enumerates, Range, IsInjective
    <2>7. ASSUME NEW q \in Dirs(fs') PROVE Enumerates(order'[q], DOMAIN fs'.ents[q])
      <3>1. CASE q = d
        BY <2>5, <3>1
      <3>2. CASE q = i
        BY <1>9, <2>4, <2>6, <3>2
      <3>3. CASE q # d /\ q # i
        <4>1. q \in Dirs(fs) /\ q \in Inos
          BY <1>7, <3>3 DEF NewDirs, Dirs
        <4>2. order'[q] = order[q] /\ DOMAIN fs'.ents[q] = DOMAIN fs.ents[q]
          BY <1>9, <2>4, <3>3, <4>1
        <4> QED BY <1>2, <4>1, <4>2 DEF Ordered
      <3> QED BY <3>1, <3>2, <3>3
    <2> QED BY <2>4, <2>7 DEF Ordered
  <1>14. i # 0
    BY <1>1, InosFinite DEF Inos
  <1> QED BY <1>1, <1>2, <1>7, <1>9, <1>10, <1>11, <1>12, <1>13, <1>14, TreeInvKept

\* What is true of a removal of p: it was an entry of an inode with no entries
\* of its own, and only that entry is gone.
RemovedAt(p) ==
  LET d == At(Parent(p))
      n == Base(p) IN
  /\ Basic(fs) /\ Basic(fs') /\ AtIn(fs, Parent(p)) = d /\ AtIn(fs, p) # 0
  /\ d # 0 /\ d \in Inos /\ d \in Dirs(fs) /\ n \in DOMAIN fs.ents[d]
  /\ AtIn(fs, p) = fs.ents[d][n].ino /\ DOMAIN fs.ents[fs.ents[d][n].ino] = {}
  /\ Removed(fs, fs', d, n) /\ Dirs(fs') = Dirs(fs)
  /\ order'[d] = Without(order[d], n)
  /\ \A q \in Inos \ {d} : order'[q] = order[q]

LEMMA RemovesIs ==
  ASSUME TreeInv, NEW p \in Paths, At(p) # 0, DOMAIN fs.ents[At(p)] = {}, Removes(p)
  PROVE  /\ Inv' /\ (\A h \in Handles : handle'[h].st = "closed") /\ Ordered(fs', order')
         /\ RemovedAt(p)
  <1> DEFINE d == At(Parent(p))
             n == Base(p)
  <1>1. /\ fs' = UnlinkName(fs, d, n) /\ order' = [order EXCEPT ![d] = Without(@, n)]
        /\ prog' = prog /\ handle' = handle
    BY DEF Removes
  <1>2. Basic(fs) /\ Orph(fs) /\ Ordered(fs, order) /\ Types(fs)
    BY DEF TreeInv, Inv, Basic
  <1>3. At(p) = AtIn(fs, p) /\ d = AtIn(fs, Parent(p))
    BY AtIs
  <1>4. /\ d # 0 /\ d \in Inos /\ d \in Dirs(fs) /\ n \in DOMAIN fs.ents[d]
        /\ AtIn(fs, p) = fs.ents[d][n].ino
    BY <1>2, <1>3, AtEntry
  <1>5. DOMAIN fs.ents[fs.ents[d][n].ino] = {}
    BY <1>3, <1>4
  <1> HIDE DEF d, n
  <1>6. Unlinked(fs, fs', d, n)
    BY <1>1, <1>2, <1>4, UnlinkNameIs
  <1>7. /\ Basic(fs') /\ Orph(fs') /\ Removed(fs, fs', d, n) /\ Dirs(fs') = Dirs(fs)
        /\ fs'.opens = fs.opens
    BY <1>6 DEF Unlinked
  <1>8. /\ order \in [Inos -> Seq(Names)] /\ order[d] \in Seq(Names)
        /\ Enumerates(order[d], DOMAIN fs.ents[d])
    BY <1>2, <1>4 DEF Ordered
  <1>9. /\ Without(order[d], n) \in Seq(Names)
        /\ Enumerates(Without(order[d], n), DOMAIN fs.ents[d] \ {n})
    BY <1>4, <1>8, WithoutIs
  <1>10. /\ order' \in [Inos -> Seq(Names)] /\ order'[d] = Without(order[d], n)
         /\ \A q \in Inos \ {d} : order'[q] = order[q]
    BY <1>1, <1>4, <1>8, <1>9
  <1>11. ASSUME NEW q \in Dirs(fs') PROVE Enumerates(order'[q], DOMAIN fs'.ents[q])
    <2>1. CASE q = d
      <3>1. DOMAIN fs'.ents[d] = DOMAIN fs.ents[d] \ {n}
        BY <1>7 DEF Removed
      <3> QED BY <1>9, <1>10, <2>1, <3>1
    <2>2. CASE q # d
      <3>1. q \in Dirs(fs) /\ q \in Inos
        BY <1>7 DEF Dirs
      <3>2. DOMAIN fs'.ents[q] = DOMAIN fs.ents[q] /\ order'[q] = order[q]
        BY <1>7, <1>10, <2>2, <3>1 DEF Removed
      <3> QED BY <1>2, <3>1, <3>2 DEF Ordered
    <2> QED BY <2>1, <2>2
  <1>12. Ordered(fs', order')
    BY <1>10, <1>11 DEF Ordered
  <1>13. RemovedAt(p)
    BY <1>2, <1>3, <1>4, <1>5, <1>7, <1>10 DEF RemovedAt, d, n
  <1> QED BY <1>1, <1>7, <1>12, <1>13, TreeInvKept

-----------------------------------------------------------------------------
(* The threads. *)

LEMMA MadeIs ==
  ASSUME NEW s, IsThread(s), NEW res
  PROVE  LET m == Made(s, res) IN
         /\ IsThread(m) /\ m.op = s.op /\ m.path = s.path /\ m.stack = s.stack
         /\ IF s.level < Len(s.path)
            THEN m.level = s.level + 1 /\ m.at = "mkdir" /\ m.res = s.res
            ELSE m.level = s.level /\ m.at = s.at /\ m.res = res /\ s.level = Len(s.path)
  <1>1. s.path \in Seq(Names) /\ Len(s.path) \in Nat
    BY LenProperties DEF IsThread, Paths
  <1>2. CASE s.level < Len(s.path)
    <2> DEFINE m == [s EXCEPT !.level = @ + 1, !.at = "mkdir"]
    <2>1. /\ DOMAIN m = DOMAIN s /\ m.op = s.op /\ m.path = s.path /\ m.stack = s.stack
          /\ m.level = s.level + 1 /\ m.at = "mkdir" /\ m.res = s.res
      BY DEF IsThread
    <2>2. m = Made(s, res)
      BY <1>2 DEF Made
    <2> HIDE DEF m
    <2>3. m.level \in 1..Len(m.path)
      BY <1>1, <1>2, <2>1 DEF IsThread
    <2>4. IsThread(m)
      BY <2>1, <2>3 DEF IsThread
    <2> QED BY <1>2, <2>1, <2>2, <2>4
  <1>3. CASE ~ (s.level < Len(s.path))
    <2> DEFINE m == [s EXCEPT !.res = res]
    <2>1. /\ DOMAIN m = DOMAIN s /\ m.op = s.op /\ m.path = s.path /\ m.stack = s.stack
          /\ m.level = s.level /\ m.at = s.at /\ m.res = res
      BY DEF IsThread
    <2>2. m = Made(s, res)
      BY <1>3 DEF Made
    <2>3. s.level = Len(s.path)
      BY <1>1, <1>3 DEF IsThread
    <2> HIDE DEF m
    <2>4. IsThread(m)
      BY <2>1 DEF IsThread
    <2> QED BY <1>3, <2>1, <2>2, <2>3, <2>4
  <1> QED BY <1>2, <1>3

LEMMA AfterExistsIs ==
  ASSUME NEW s, IsThread(s)
  PROVE  LET m == AfterExists(s) IN
         /\ IsThread(m) /\ m.op = s.op /\ m.path = s.path /\ m.stack = s.stack
         /\ m.level = s.level /\ m.at = "stat" /\ m.res = s.res
  <1> DEFINE m == AfterExists(s)
  <1>1. /\ DOMAIN m = DOMAIN s /\ m.op = s.op /\ m.path = s.path /\ m.stack = s.stack
        /\ m.level = s.level /\ m.at = "stat" /\ m.res = s.res
    BY DEF IsThread, AfterExists
  <1> HIDE DEF m
  <1>2. IsThread(m)
    BY <1>1 DEF IsThread
  <1> QED BY <1>1, <1>2 DEF m

LEMMA TopIs ==
  ASSUME NEW s, IsThread(s)
  PROVE  /\ Len(s.stack) \in Nat /\ Len(s.stack) >= 1 /\ Top(s) \in FrameType
         /\ Top(s) = s.stack[Len(s.stack)] /\ s.stack \in Seq(FrameType)
         /\ Len(s.stack) \in 1..Len(s.stack) /\ DOMAIN s.stack = 1..Len(s.stack)
         /\ \A k \in 1..Len(s.stack) : s.stack[k] \in FrameType
  <1>1. s.stack \in Seq(FrameType) /\ Len(s.stack) \in Nat /\ Len(s.stack) >= 1
    BY EmptySeq, LenProperties DEF IsThread
  <1>2. DOMAIN s.stack = 1..Len(s.stack) /\ \A k \in 1..Len(s.stack) : s.stack[k] \in FrameType
    BY <1>1, ElementOfSeq, LenProperties
  <1>3. Len(s.stack) \in 1..Len(s.stack)
    BY <1>1
  <1> QED BY <1>1, <1>2, <1>3 DEF Top

\* m is the thread s with another stack.
Restacked(s, m) ==
  /\ IsThread(m) /\ m.op = s.op /\ m.path = s.path /\ m.level = s.level /\ m.at = s.at
  /\ m.res = s.res

LEMMA RestackedBy ==
  ASSUME NEW s, IsThread(s), NEW k \in Seq(FrameType), k # <<>>
  PROVE  Restacked(s, [s EXCEPT !.stack = k]) /\ [s EXCEPT !.stack = k].stack = k
  <1> DEFINE m == [s EXCEPT !.stack = k]
  <1>1. /\ DOMAIN m = DOMAIN s /\ m.op = s.op /\ m.path = s.path /\ m.stack = k
        /\ m.level = s.level /\ m.at = s.at /\ m.res = s.res
    BY DEF IsThread
  <1> HIDE DEF m
  <1>2. IsThread(m)
    BY <1>1 DEF IsThread
  <1> QED BY <1>1, <1>2 DEF m, Restacked

LEMMA SetTopIs ==
  ASSUME NEW s, IsThread(s), NEW f \in FrameType
  PROVE  LET m == SetTop(s, f) IN
         /\ Restacked(s, m) /\ Len(m.stack) = Len(s.stack) /\ Top(m) = f
         /\ m.stack[Len(s.stack)] = f
         /\ \A k \in 1..(Len(s.stack) - 1) : m.stack[k] = s.stack[k]
  <1> DEFINE n == Len(s.stack)
             g == [s.stack EXCEPT ![n] = f]
  <1>1. n \in Nat /\ n >= 1 /\ n \in 1..n /\ DOMAIN s.stack = 1..n
        /\ \A k \in 1..n : s.stack[k] \in FrameType
    BY TopIs
  <1>2. /\ g \in [1..n -> FrameType] /\ g[n] = f
        /\ \A k \in 1..(n - 1) : g[k] = s.stack[k]
    <2>1. s.stack \in [1..n -> FrameType]
      BY TopIs, LenProperties
    <2>2. \A k \in 1..(n - 1) : k \in 1..n /\ k # n
      BY <1>1
    <2> HIDE DEF n
    <2> QED BY <1>1, <2>1, <2>2
  <1>3. SetTop(s, f) = [s EXCEPT !.stack = g]
    BY DEF SetTop
  <1> HIDE DEF g, n
  <1>4. g \in Seq(FrameType) /\ Len(g) = n /\ g # <<>>
    BY <1>1, <1>2, FunctionIsSeq, EmptySeq
  <1>5. Restacked(s, SetTop(s, f)) /\ SetTop(s, f).stack = g
    BY <1>3, <1>4, RestackedBy
  <1> QED BY <1>2, <1>4, <1>5 DEF Top, n

LEMMA PushIs ==
  ASSUME NEW s, IsThread(s), NEW f \in FrameType
  PROVE  LET m == [s EXCEPT !.stack = Append(@, f)] IN
         /\ Restacked(s, m) /\ Len(m.stack) = Len(s.stack) + 1 /\ Top(m) = f
         /\ m.stack[Len(s.stack) + 1] = f
         /\ \A k \in 1..Len(s.stack) : m.stack[k] = s.stack[k]
  <1> DEFINE n == Len(s.stack)
             g == Append(s.stack, f)
  <1>1. n \in Nat /\ s.stack \in Seq(FrameType)
    BY TopIs
  <1>2. g \in Seq(FrameType) /\ Len(g) = n + 1 /\ g[n + 1] = f /\ \A k \in 1..n : g[k] = s.stack[k]
    BY <1>1, AppendProperties
  <1>3. [s EXCEPT !.stack = Append(@, f)] = [s EXCEPT !.stack = g]
    OBVIOUS
  <1> HIDE DEF g
  <1>4. g # <<>>
    BY <1>1, <1>2, EmptySeq
  <1>5. Restacked(s, [s EXCEPT !.stack = g]) /\ [s EXCEPT !.stack = g].stack = g
    BY <1>2, <1>4, RestackedBy
  <1> QED BY <1>2, <1>3, <1>5 DEF Top

LEMMA BackIs ==
  ASSUME NEW s, IsThread(s), NEW res
  PROVE  LET m == Back(s, res) IN
         /\ IsThread(m) /\ m.op = s.op /\ m.path = s.path
         /\ IF res = "ok" /\ Len(s.stack) > 1
            THEN /\ m.res = s.res /\ Len(m.stack) = Len(s.stack) - 1
                 /\ \A k \in 1..(Len(s.stack) - 1) : m.stack[k] = s.stack[k]
            ELSE m.res = res /\ m.stack = s.stack
  <1> DEFINE n == Len(s.stack)
  <1>1. CASE res = "ok" /\ n > 1
    <2> DEFINE g == SubSeq(s.stack, 1, n - 1)
               a == n - 1
    <2>1. n \in Nat /\ s.stack \in Seq(FrameType) /\ \A k \in 1..n : s.stack[k] \in FrameType
      BY TopIs
    <2>2. a \in Nat /\ a >= 1 /\ a - 1 + 1 = a /\ (\A k \in 1..a : 1 + k - 1 = k /\ k \in 1..n)
      BY <1>1, <2>1
    <2>3. Back(s, res) = [s EXCEPT !.stack = g]
      BY <1>1 DEF Back
    <2> HIDE DEF a
    <2>4. /\ SubSeq(s.stack, 1, a) \in Seq(FrameType)
          /\ Len(SubSeq(s.stack, 1, a)) = IF 1 <= a THEN a - 1 + 1 ELSE 0
          /\ \A i \in 1..(a - 1 + 1) : SubSeq(s.stack, 1, a)[i] = s.stack[1 + i - 1]
      BY <2>1, <2>2, SubSeqProperties
    <2>5. g \in Seq(FrameType) /\ Len(g) = a /\ \A k \in 1..a : g[k] = s.stack[k]
      BY <2>2, <2>4 DEF a
    <2> HIDE DEF g
    <2>6. g # <<>>
      BY <2>2, <2>5, EmptySeq
    <2>7. Restacked(s, [s EXCEPT !.stack = g]) /\ [s EXCEPT !.stack = g].stack = g
      BY <2>5, <2>6, RestackedBy
    <2> QED BY <1>1, <2>3, <2>5, <2>7 DEF Restacked, a
  <1>2. CASE ~ (res = "ok" /\ n > 1)
    <2> DEFINE m == [s EXCEPT !.res = res]
    <2>1. /\ DOMAIN m = DOMAIN s /\ m.op = s.op /\ m.path = s.path /\ m.stack = s.stack
          /\ m.level = s.level /\ m.at = s.at /\ m.res = res
      BY DEF IsThread
    <2>2. m = Back(s, res)
      BY <1>2 DEF Back
    <2> HIDE DEF m
    <2>3. IsThread(m)
      BY <2>1 DEF IsThread
    <2> QED BY <1>2, <2>1, <2>2, <2>3
  <1> QED BY <1>1, <1>2

LEMMA GoesIs ==
  ASSUME TreeInv, NEW t \in Threads, NEW s, IsThread(s), Goes(t, s)
  PROVE  /\ DOMAIN th' = Threads /\ th'[t] = s
         /\ \A u \in Threads \ {t} : th'[u] = th[u]
         /\ \A u \in Threads : IsThread(th'[u])
  <1>1. DOMAIN th = Threads /\ \A u \in Threads : IsThread(th[u])
    BY DEF TreeInv
  <1>2. th' = [th EXCEPT ![t] = s]
    BY DEF Goes
  <1>3. DOMAIN th' = Threads /\ th'[t] = s /\ \A u \in Threads \ {t} : th'[u] = th[u]
    BY <1>1, <1>2
  <1>4. ASSUME NEW u \in Threads PROVE IsThread(th'[u])
    <2>1. CASE u = t
      BY <1>3, <2>1
    <2>2. CASE u # t
      BY <1>1, <1>3, <2>2
    <2> QED BY <2>1, <2>2
  <1> QED BY <1>3, <1>4

\* m is what becomes of the thread x.
Succeeds(x, m) == IsThread(m) /\ m.op = x.op /\ m.path = x.path

\* No call changes its arguments.
CallsKept == \A u \in Threads : th'[u].op = th[u].op /\ th'[u].path = th[u].path

LEMMA ReadsStep ==
  ASSUME TreeInv, NEW t \in Threads, NEW s, Succeeds(th[t], s), Goes(t, s), Reads
  PROVE  TreeInv' /\ CallsKept
  <1>1. prog' = prog /\ fs' = fs /\ handle' = handle /\ order' = order
    BY DEF Reads
  <1>2. DOMAIN th' = Threads /\ (\A u \in Threads : IsThread(th'[u])) /\ CallsKept
    BY GoesIs DEF Succeeds, CallsKept
  <1> QED BY <1>1, <1>2 DEF TreeInv, Inv, Ordered

LEMMA WritesStep ==
  ASSUME TreeInv, NEW t \in Threads, NEW s, Succeeds(th[t], s), Goes(t, s),
         Inv', \A h \in Handles : handle'[h].st = "closed", Ordered(fs', order')
  PROVE  TreeInv' /\ CallsKept
  <1>1. DOMAIN th' = Threads /\ (\A u \in Threads : IsThread(th'[u])) /\ CallsKept
    BY GoesIs DEF Succeeds, CallsKept
  <1> QED BY <1>1 DEF TreeInv

\* The prefix that create_dir_all is making.
LEMMA PrefixIs ==
  ASSUME NEW s, IsThread(s)
  PROVE  /\ Prefix(s) \in Paths /\ s.level \in Nat /\ s.level >= 1 /\ Len(s.path) \in Nat
         /\ s.level <= Len(s.path) /\ s.path \in Paths /\ s.path \in Seq(Names)
         /\ Parent(Prefix(s)) = SubSeq(s.path, 1, s.level - 1)
         /\ s.level = Len(s.path) => Prefix(s) = s.path
  <1> DEFINE k == s.level - 1
  <1>1. s.path \in Paths /\ s.path \in Seq(Names) /\ Len(s.path) \in Nat /\ s.level \in 1..Len(s.path)
    BY LenProperties DEF IsThread, Paths
  <1>2. k \in 0..(Len(s.path) - 1) /\ k + 1 = s.level
    BY <1>1
  <1> HIDE DEF k
  <1>3. /\ SubSeq(s.path, 1, k + 1) \in Paths
        /\ Parent(SubSeq(s.path, 1, k + 1)) = SubSeq(s.path, 1, k)
        /\ SubSeq(s.path, 1, Len(s.path)) = s.path
    BY <1>1, <1>2, FrontFront
  <1> QED BY <1>1, <1>2, <1>3 DEF Prefix, k

LEMMA MakeTyped ==
  ASSUME TreeInv, NEW t \in Threads, MakeDir(t) \/ MakeStat(t)
  PROVE  TreeInv' /\ CallsKept
  <1> DEFINE s == th[t]
             p == Prefix(s)
  <1>1. IsThread(s) /\ p \in Paths
    BY PrefixIs DEF TreeInv
  <1>2. \A res : Succeeds(th[t], Made(s, res))
    BY <1>1, MadeIs DEF Succeeds
  <1>3. Succeeds(th[t], AfterExists(s))
    BY <1>1, AfterExistsIs DEF Succeeds
  <1> HIDE DEF s, p
  <1>4. CASE IsDirAt(Parent(p)) /\ At(p) = 0 /\ Adds(p, "dir") /\ Goes(t, Made(s, "ok"))
    <2>1. Inv' /\ (\A h \in Handles : handle'[h].st = "closed") /\ Ordered(fs', order')
      BY <1>1, <1>4, AddsIs
    <2> QED BY <1>2, <1>4, <2>1, WritesStep
  <1>5. CASE Reads /\ Goes(t, AfterExists(s))
    BY <1>3, <1>5, ReadsStep
  <1>6. ASSUME NEW res, Reads, Goes(t, Made(s, res)) PROVE TreeInv' /\ CallsKept
    BY <1>2, <1>6, ReadsStep
  <1>7. CASE MakeDir(t)
    BY <1>4, <1>5, <1>6, <1>7 DEF MakeDir, s, p
  <1>8. CASE MakeStat(t)
    BY <1>6, <1>8 DEF MakeStat, s, p
  <1> QED BY <1>7, <1>8

\* Paths and children.
LEMMA ChildPath ==
  ASSUME NEW p \in Seq(Names), NEW n \in Names
  PROVE  Append(p, n) \in Paths /\ Parent(Append(p, n)) = p /\ Base(Append(p, n)) = n
  <1> DEFINE q == Append(p, n)
             m == Len(p)
  <1>1. m \in Nat /\ q \in Seq(Names) /\ Len(q) = m + 1 /\ q[m + 1] = n
        /\ \A k \in 1..m : q[k] = p[k]
    BY AppendProperties, LenProperties
  <1> HIDE DEF q
  <1>2. q \in Paths
    BY <1>1, EmptySeq DEF Paths
  <1>3. /\ Parent(q) \in Seq(Names) /\ Len(Parent(q)) = Len(q) - 1
        /\ \A k \in 1..(Len(q) - 1) : Parent(q)[k] = q[k]
        /\ Base(q) = q[Len(q)]
    BY <1>2, ParentIs
  <1>4. Len(q) - 1 = m
    BY <1>1
  <1>5. Parent(q) = p
    BY <1>1, <1>3, <1>4, SamePath
  <1> QED BY <1>1, <1>2, <1>3, <1>5 DEF q

Child == [name : Names, ft : {"file", "dir"}]

LEMMA TodoIs ==
  ASSUME NEW f \in FrameType
  PROVE  /\ f.path \in Paths /\ f.path \in Seq(Names) /\ Len(f.todo) \in Nat
         /\ f.at \in {"lstat", "list", "child", "unlink"} /\ f.todo \in Seq(Child)
         /\ \A j \in 1..Len(f.todo) : f.todo[j] \in Child /\ f.todo[j].name \in Names
         /\ f.todo # <<>> => /\ Head(f.todo) = f.todo[1] /\ Len(f.todo) >= 1
                             /\ Tail(f.todo) \in Seq(Child) /\ Len(Tail(f.todo)) = Len(f.todo) - 1
                             /\ \A j \in 1..(Len(f.todo) - 1) : Tail(f.todo)[j] = f.todo[j + 1]
         /\ f.todo = <<>> => Len(f.todo) = 0
  <1>1. f.path \in Paths /\ f.path \in Seq(Names) /\ f.todo \in Seq(Child)
        /\ f.at \in {"lstat", "list", "child", "unlink"}
    BY DEF FrameType, Paths, Todos, Child
  <1>2. Len(f.todo) \in Nat /\ \A j \in 1..Len(f.todo) : f.todo[j] \in Child
    BY <1>1, LenProperties, ElementOfSeq
  <1>3. \A c \in Child : c.name \in Names
    BY DEF Child
  <1>4. ASSUME f.todo # <<>>
        PROVE  /\ Head(f.todo) = f.todo[1] /\ Len(f.todo) >= 1
               /\ Tail(f.todo) \in Seq(Child) /\ Len(Tail(f.todo)) = Len(f.todo) - 1
               /\ \A j \in 1..(Len(f.todo) - 1) : Tail(f.todo)[j] = f.todo[j + 1]
    <2>1. Len(f.todo) >= 1
      BY <1>1, <1>2, <1>4, EmptySeq
    <2>2. /\ Tail(f.todo) \in Seq(Child) /\ Len(Tail(f.todo)) = Len(f.todo) - 1
          /\ \A j \in 1..Len(Tail(f.todo)) : Tail(f.todo)[j] = f.todo[j + 1]
      BY <1>1, <1>4, HeadTailProperties
    <2> QED BY <1>1, <2>1, <2>2
  <1>5. f.todo = <<>> => Len(f.todo) = 0
    OBVIOUS
  <1> QED BY <1>1, <1>2, <1>3, <1>4, <1>5

LEMMA FrameSet ==
  ASSUME NEW f \in FrameType, NEW a \in {"lstat", "list", "child", "unlink"}, NEW l \in Seq(Child)
  PROVE  /\ [f EXCEPT !.at = a] \in FrameType /\ [f EXCEPT !.at = a].at = a
         /\ [f EXCEPT !.at = a].path = f.path
         /\ [f EXCEPT !.at = a, !.todo = l] \in FrameType /\ [f EXCEPT !.at = a, !.todo = l].at = a
         /\ [f EXCEPT !.at = a, !.todo = l].path = f.path
         /\ [f EXCEPT !.at = a, !.todo = l].todo = l
         /\ [f EXCEPT !.todo = l] \in FrameType /\ [f EXCEPT !.todo = l].at = f.at
         /\ [f EXCEPT !.todo = l].path = f.path /\ [f EXCEPT !.todo = l].todo = l
  BY DEF FrameType, Todos, Child

LEMMA TodoSet ==
  ASSUME NEW f \in FrameType, NEW l \in Seq(Child)
  PROVE  [f EXCEPT !.todo = l] \in FrameType
  BY DEF FrameType, Todos, Child

LEMMA FrameIs ==
  ASSUME NEW p \in Paths
  PROVE  Frame(p) \in FrameType /\ Frame(p).path = p /\ Frame(p).at = "lstat"
  <1>1. <<>> \in Todos
    BY DEF Todos
  <1> QED BY <1>1 DEF Frame, FrameType

LEMMA ListingIs ==
  ASSUME TreeInv, NEW p \in Seq(Names), IsDirAt(p)
  PROVE  LET d == At(p)
             l == Listing(d) IN
         /\ d \in Inos /\ d \in Dirs(fs) /\ l \in Seq(Child) /\ Len(l) = Len(order[d])
         /\ Len(l) \in Nat
         /\ \A k \in 1..Len(l) : l[k].name = order[d][k] /\ order[d][k] \in DOMAIN fs.ents[d]
                                 /\ l[k].ft = fs.ents[d][l[k].name].ft
  <1> DEFINE d == At(p)
             l == Listing(d)
             n == Len(order[d])
  <1>1. d # 0 /\ fs.kind[d] = "dir" /\ Basic(fs) /\ Types(fs)
    BY DEF IsDirAt, TreeInv, Inv, Basic
  <1>2. d \in Inos /\ d \in Dirs(fs)
    BY <1>1, AtIs, AtType DEF Dirs
  <1> HIDE DEF d
  <1>3. Enumerates(order[d], DOMAIN fs.ents[d])
    BY <1>2 DEF TreeInv, Ordered
  <1>4. n \in Nat /\ DOMAIN order[d] = 1..n /\ \A k \in 1..n : order[d][k] \in DOMAIN fs.ents[d]
    BY <1>3, EnumeratesAt
  <1>5. \A m \in DOMAIN fs.ents[d] : m \in Names /\ fs.ents[d][m].ft \in {"file", "dir"}
    BY <1>1, <1>2, EntsAt
  <1>6. l = [k \in 1..n |-> [name |-> order[d][k], ft |-> fs.ents[d][order[d][k]].ft]]
    BY <1>4 DEF Listing
  <1>7. l \in [1..n -> Child] /\ \A k \in 1..n : l[k].name = order[d][k]
                                                /\ l[k].ft = fs.ents[d][order[d][k]].ft
    BY <1>4, <1>5, <1>6 DEF Child
  <1> HIDE DEF l, n
  <1>8. l \in Seq(Child) /\ Len(l) = n
    BY <1>4, <1>7, FunctionIsSeq
  <1> QED BY <1>2, <1>4, <1>7, <1>8 DEF l, n, d

\* What is not a directory has no entries.
LEMMA FileEmpty ==
  ASSUME TreeInv, NEW p \in Seq(Names), At(p) # 0, fs.kind[At(p)] = "file"
  PROVE  DOMAIN fs.ents[At(p)] = {}
  <1>1. Basic(fs) /\ At(p) = AtIn(fs, p)
    BY AtIs DEF TreeInv, Inv
  <1>2. At(p) \in Inos
    BY <1>1, AtType
  <1> QED BY <1>1, <1>2 DEF Basic, Valid

LEMMA RemoveTyped ==
  ASSUME TreeInv, NEW t \in Threads,
         RemoveLstat(t) \/ RemoveList(t) \/ RemoveChild(t) \/ RemoveFile(t) \/ RemoveDir(t)
  PROVE  TreeInv' /\ CallsKept
  <1> DEFINE s == th[t]
             f == Top(s)
             p == f.path
  <1>1. IsThread(s) /\ f \in FrameType /\ p \in Paths /\ p \in Seq(Names)
    BY TopIs, TodoIs DEF TreeInv
  <1>2. \A res : Succeeds(th[t], Back(s, res))
    BY <1>1, BackIs DEF Succeeds
  <1>3. \A g \in FrameType : Succeeds(th[t], SetTop(s, g))
    BY <1>1, SetTopIs DEF Restacked, Succeeds
  <1> HIDE DEF s, f, p
  <1>4. ASSUME NEW m, Succeeds(th[t], m), Goes(t, m), Reads PROVE TreeInv' /\ CallsKept
    BY <1>4, ReadsStep
  <1>5. ASSUME NEW m, Succeeds(th[t], m), Goes(t, m), NEW q \in Paths, At(q) # 0,
               DOMAIN fs.ents[At(q)] = {}, Removes(q)
        PROVE  TreeInv' /\ CallsKept
    <2>1. Inv' /\ (\A h \in Handles : handle'[h].st = "closed") /\ Ordered(fs', order')
      BY <1>5, RemovesIs
    <2> QED BY <1>5, <2>1, WritesStep
  <1>6. CASE RemoveLstat(t)
    <2> DEFINE m == CASE At(p) = 0 /\ WalkError(p) = "ENOENT" -> Back(s, "ok")
                      [] At(p) = 0 /\ WalkError(p) # "ENOENT" -> Back(s, WalkError(p))
                      [] IsDirAt(p) -> SetTop(s, [f EXCEPT !.at = "list"])
                      [] OTHER -> SetTop(s, [f EXCEPT !.at = "unlink"])
    <2>1. [f EXCEPT !.at = "list"] \in FrameType /\ [f EXCEPT !.at = "unlink"] \in FrameType
      BY <1>1 DEF FrameType
    <2>2. Succeeds(th[t], m)
      BY <1>2, <1>3, <2>1 DEF IsDirAt
    <2>3. Goes(t, m) /\ Reads
      BY <1>6 DEF RemoveLstat, s, f, p
    <2> QED BY <1>4, <2>2, <2>3
  <1>7. CASE RemoveList(t)
    <2> DEFINE m == CASE IsDirAt(p) -> SetTop(s, [f EXCEPT !.at = "child", !.todo = Listing(At(p))])
                      [] ~ IsDirAt(p) /\ At(p) # 0 -> Back(s, "ENOTDIR")
                      [] OTHER -> Back(s, WalkError(p))
    <2>1. IsDirAt(p) => [f EXCEPT !.at = "child", !.todo = Listing(At(p))] \in FrameType
      BY <1>1, ListingIs, FrameSet
    <2>2. Succeeds(th[t], m)
      BY <1>2, <1>3, <2>1
    <2>3. Goes(t, m) /\ Reads
      BY <1>7 DEF RemoveList, s, f, p
    <2> QED BY <1>4, <2>2, <2>3
  <1>8. CASE RemoveChild(t)
    <2> DEFINE next == [f EXCEPT !.todo = Tail(@)]
               q == Append(p, Head(f.todo).name)
    <2>1. f.todo # <<>>
      BY <1>8 DEF RemoveChild, s, f
    <2>2. /\ Head(f.todo) = f.todo[1] /\ Tail(f.todo) \in Seq(Child) /\ f.todo[1].name \in Names
      BY <1>1, <2>1, TodoIs
    <2>3. next \in FrameType /\ q \in Paths /\ Frame(q) \in FrameType
      <3>1. next \in FrameType
        BY <1>1, <2>2, TodoSet
      <3>2. q \in Paths
        BY <1>1, <2>2, ChildPath
      <3> HIDE DEF q
      <3>3. Frame(q) \in FrameType
        BY <3>2, FrameIs
      <3> QED BY <3>1, <3>2, <3>3
    <2> HIDE DEF next, q
    <2>4. /\ Succeeds(th[t], SetTop(s, next))
          /\ Succeeds(th[t], [SetTop(s, next) EXCEPT !.stack = Append(@, Frame(q))])
      BY <1>3, <2>3, PushIs DEF Restacked, Succeeds
    <2>5. q \in Seq(Names)
      BY <2>3 DEF Paths
    <2>6. \/ Goes(t, [SetTop(s, next) EXCEPT !.stack = Append(@, Frame(q))]) /\ Reads
          \/ At(q) # 0 /\ fs.kind[At(q)] = "file" /\ Goes(t, SetTop(s, next)) /\ Removes(q)
          \/ \E res : Goes(t, Back(s, res)) /\ Reads
      BY <1>8, Zenon DEF RemoveChild, s, f, p, next, q
    <2> QED BY <1>2, <1>4, <1>5, <2>3, <2>4, <2>5, <2>6, FileEmpty
  <1>9. CASE RemoveFile(t)
    <2>1. \/ At(p) # 0 /\ fs.kind[At(p)] = "file" /\ Goes(t, Back(s, "ok")) /\ Removes(p)
          \/ \E res : Goes(t, Back(s, res)) /\ Reads
      BY <1>9, Zenon DEF RemoveFile, s, f, p
    <2> QED BY <1>1, <1>2, <1>4, <1>5, <2>1, FileEmpty
  <1>10. CASE RemoveDir(t)
    <2>1. \/ IsDirAt(p) /\ IsEmptyDir(fs, At(p)) /\ Goes(t, Back(s, "ok")) /\ Removes(p)
          \/ \E res : Goes(t, Back(s, res)) /\ Reads
      BY <1>10, Zenon DEF RemoveDir, s, f, p
    <2> QED BY <1>1, <1>2, <1>4, <1>5, <2>1 DEF IsEmptyDir, IsDirAt
  <1> QED BY <1>6, <1>7, <1>8, <1>9, <1>10

-----------------------------------------------------------------------------
(* create_dir_all by any number of threads. *)

IsDirIn(s, p) == AtIn(s, p) # 0 /\ s.kind[AtIn(s, p)] = "dir"

ClearIn(s, p) ==
  \A k \in 1..Len(p) : AtIn(s, SubSeq(p, 1, k)) = 0 \/ IsDirIn(s, SubSeq(p, 1, k))

LEMMA IsDirAtIs == ASSUME NEW p PROVE IsDirAt(p) <=> IsDirIn(fs, p)
  BY AtIs DEF IsDirAt, IsDirIn

LEMMA ClearIs == ASSUME NEW p PROVE Clear(p) <=> ClearIn(fs, p)
  BY AtIs, IsDirAtIs DEF Clear, ClearIn

\* What a thread x in create_dir_all relies on when nothing is in its way: the
\* prefixes before its level are directories, and so is what made mkdir fail.
Making(s, x) ==
  /\ \A k \in 1..(x.level - 1) : IsDirIn(s, SubSeq(x.path, 1, k))
  /\ x.at = "stat" => IsDirIn(s, Prefix(x))
  /\ x.res # "" => x.res = "ok" /\ IsDirIn(s, x.path)

MakeInv == All("make") => \A t \in Threads : ClearIn(fs, th[t].path) => Making(fs, th[t])

\* Directories that are added hide nothing.
Grown(s, d) ==
  /\ Basic(s) /\ Basic(d) /\ Contains(s, d)
  /\ \A i \in LiveOf(s) : d.kind[i] = s.kind[i]

LEMMA GrownSame ==
  ASSUME NEW s, Basic(s)
  PROVE  Grown(s, s)
  BY DEF Grown, Contains

LEMMA GrownAt ==
  ASSUME NEW s, NEW d, Grown(s, d), NEW p \in Seq(Names)
  PROVE  /\ IsDirIn(s, p) => IsDirIn(d, p)
         /\ IsDirIn(d, p) => AtIn(s, p) = 0 \/ IsDirIn(s, p)
         /\ AtIn(d, p) = 0 => AtIn(s, p) = 0
  <1>1. AtIn(s, p) = 0 \/ AtIn(s, p) \in LiveOf(s)
    BY AtType DEF Grown
  <1>2. AtIn(s, p) # 0 => AtIn(d, p) = AtIn(s, p)
    BY AtGrown DEF Grown
  <1> QED BY <1>1, <1>2 DEF Grown, IsDirIn

LEMMA GrownClear ==
  ASSUME NEW s, NEW d, Grown(s, d), NEW p \in Seq(Names), ClearIn(d, p)
  PROVE  ClearIn(s, p)
  <1> SUFFICES ASSUME NEW k \in 1..Len(p)
               PROVE  AtIn(s, SubSeq(p, 1, k)) = 0 \/ IsDirIn(s, SubSeq(p, 1, k))
    BY DEF ClearIn
  <1>1. SubSeq(p, 1, k) \in Seq(Names)
    <2>1. k \in 0..Len(p)
      BY LenProperties
    <2> QED BY <2>1, FrontIs
  <1>2. AtIn(d, SubSeq(p, 1, k)) = 0 \/ IsDirIn(d, SubSeq(p, 1, k))
    BY DEF ClearIn
  <1> QED BY <1>1, <1>2, GrownAt

LEMMA GrownMaking ==
  ASSUME NEW s, NEW d, Grown(s, d), NEW x, IsThread(x), Making(s, x)
  PROVE  Making(d, x)
  <1>1. /\ Prefix(x) \in Seq(Names) /\ x.path \in Seq(Names) /\ Len(x.path) \in Nat
        /\ x.level \in Nat /\ x.level <= Len(x.path)
    BY PrefixIs DEF Paths
  <1>2. ASSUME NEW k \in 1..(x.level - 1) PROVE SubSeq(x.path, 1, k) \in Seq(Names)
    <2>1. k \in 0..Len(x.path)
      BY <1>1
    <2> QED BY <1>1, <2>1, FrontIs
  <1> QED BY <1>1, <1>2, GrownAt DEF Making

LEMMA UpTo ==
  ASSUME NEW l \in Nat, NEW a, a = l + 1
  PROVE  \A k \in 1..(a - 1) : k \in 1..(l - 1) \/ k = l
  OBVIOUS

\* The prefix at the thread's level is a directory now: on to the next one.
LEMMA MadeMaking ==
  ASSUME NEW s, NEW x, IsThread(x), Making(s, x), x.res = "", IsDirIn(s, Prefix(x))
  PROVE  Making(s, Made(x, "ok"))
  <1> DEFINE m == Made(x, "ok")
  <1>1. /\ m.path = x.path
        /\ IF x.level < Len(x.path)
           THEN m.level = x.level + 1 /\ m.at = "mkdir" /\ m.res = x.res
           ELSE m.level = x.level /\ m.at = x.at /\ m.res = "ok" /\ x.level = Len(x.path)
    BY MadeIs
  <1>2. x.level \in Nat /\ x.level >= 1 /\ (x.level = Len(x.path) => Prefix(x) = x.path)
    BY PrefixIs
  <1> HIDE DEF m
  <1>3. CASE x.level < Len(x.path)
    <2>1. m.level = x.level + 1
      BY <1>1, <1>3
    <2>2. \A k \in 1..(m.level - 1) : k \in 1..(x.level - 1) \/ k = x.level
      BY <1>2, <2>1, UpTo
    <2> QED BY <1>1, <1>3, <2>2 DEF Making, Prefix, m
  <1>4. CASE ~ (x.level < Len(x.path))
    BY <1>1, <1>2, <1>4 DEF Making, Prefix, m
  <1> QED BY <1>3, <1>4

\* The parent of the prefix is a directory.
LEMMA MakingParent ==
  ASSUME NEW s, Basic(s), NEW x, IsThread(x), Making(s, x)
  PROVE  IsDirIn(s, Parent(Prefix(x)))
  <1>1. /\ x.level \in Nat /\ x.level >= 1 /\ x.path \in Seq(Names)
        /\ Parent(Prefix(x)) = SubSeq(x.path, 1, x.level - 1)
    BY PrefixIs
  <1>2. CASE x.level = 1
    <2>1. Parent(Prefix(x)) = <<>>
      <3>1. x.level - 1 = 0 /\ 0 \in 0..Len(x.path)
        BY <1>1, <1>2, LenProperties
      <3>2. SubSeq(x.path, 1, 0) \in Seq(Names) /\ Len(SubSeq(x.path, 1, 0)) = 0
        BY <1>1, <3>1, FrontIs
      <3> QED BY <1>1, <3>1, <3>2, EmptySeq
    <2>2. AtIn(s, <<>>) = ROOT_INO
      BY AtRoot DEF Basic
    <2> QED BY <2>1, <2>2 DEF IsDirIn, Basic, Valid, ROOT_INO
  <1>3. CASE x.level # 1
    <2>1. x.level - 1 \in 1..(x.level - 1)
      BY <1>1, <1>3
    <2> QED BY <1>1, <2>1 DEF Making
  <1> QED BY <1>2, <1>3

LEMMA MakeGrows ==
  ASSUME TreeInv, NEW t \in Threads, MakeDir(t) \/ MakeStat(t)
  PROVE  Grown(fs, fs')
  <1> DEFINE p == Prefix(th[t])
  <1>1. p \in Paths /\ Basic(fs)
    BY PrefixIs DEF TreeInv, Inv
  <1> HIDE DEF p
  <1>2. CASE IsDirAt(Parent(p)) /\ At(p) = 0 /\ Adds(p, "dir")
    BY <1>1, <1>2, AddsIs DEF Grown
  <1>3. CASE Reads
    BY <1>1, <1>3, GrownSame DEF Reads
  <1> QED BY <1>2, <1>3 DEF MakeDir, MakeStat, p

\* The thread t itself, when nothing is in its way.
LEMMA MakerStep ==
  ASSUME TreeInv, NEW t \in Threads, MakeDir(t) \/ MakeStat(t),
         Making(fs, th[t]), ClearIn(fs, th[t].path)
  PROVE  Making(fs', th'[t])
  <1> DEFINE s == th[t]
             p == Prefix(s)
  <1>1. IsThread(s) /\ p \in Paths /\ Basic(fs) /\ s.path \in Seq(Names)
        /\ s.level \in 1..Len(s.path)
    BY PrefixIs DEF TreeInv, Inv, IsThread
  <1>2. IsDirAt(Parent(p)) /\ Making(fs, s)
    BY <1>1, MakingParent, IsDirAtIs
  <1>3. At(p) # 0 => IsDirIn(fs, p)
    BY <1>1, AtIs DEF ClearIn, Prefix
  <1>4. s.res = ""
    BY DEF MakeDir, MakeStat
  <1>5. IsThread(Made(s, "ok")) /\ IsThread(AfterExists(s))
    BY <1>1, MadeIs, AfterExistsIs
  <1> HIDE DEF s, p
  <1>6. ASSUME NEW m, IsThread(m), Goes(t, m), Reads, Making(fs, m)
        PROVE  Making(fs', th'[t])
    <2>1. fs' = fs /\ th'[t] = m
      BY <1>6, GoesIs DEF Reads
    <2> QED BY <1>6, <2>1
  <1>7. CASE At(p) = 0 /\ Adds(p, "dir") /\ Goes(t, Made(s, "ok"))
    <2>1. Grown(fs, fs') /\ IsDirIn(fs', p)
      BY <1>1, <1>2, <1>7, AddsIs DEF Grown, IsDirIn
    <2>2. th'[t] = Made(s, "ok")
      BY <1>5, <1>7, GoesIs
    <2>3. Making(fs', s)
      BY <1>1, <1>2, <2>1, GrownMaking
    <2> QED BY <1>1, <1>4, <2>1, <2>2, <2>3, MadeMaking DEF p
  <1>8. CASE At(p) # 0 /\ Reads /\ Goes(t, AfterExists(s))
    <2> DEFINE m == AfterExists(s)
    <2>1. m.path = s.path /\ m.level = s.level /\ m.at = "stat" /\ m.res = s.res /\ IsThread(m)
      BY <1>1, AfterExistsIs
    <2> HIDE DEF m
    <2>2. Making(fs, m)
      BY <1>2, <1>3, <1>4, <1>8, <2>1 DEF Making, Prefix, p
    <2> QED BY <1>6, <1>8, <2>1, <2>2 DEF m
  <1>9. CASE MakeDir(t)
    BY <1>2, <1>7, <1>8, <1>9 DEF MakeDir, s, p
  <1>10. CASE MakeStat(t)
    <2>1. s.at = "stat" /\ Reads
      BY <1>10 DEF MakeStat, s
    <2>2. IsDirIn(fs, p)
      BY <1>2, <2>1 DEF Making, p
    <2>3. IsDirAt(p)
      BY <2>2, IsDirAtIs
    <2>4. Goes(t, Made(s, "ok"))
      BY <1>10, <2>3 DEF MakeStat, s, p
    <2>5. Making(fs, Made(s, "ok"))
      BY <1>1, <1>2, <1>4, <2>2, MadeMaking DEF p
    <2> QED BY <1>5, <1>6, <2>1, <2>4, <2>5
  <1> QED BY <1>9, <1>10

LEMMA MakeInvStep ==
  ASSUME TreeInv, MakeInv, NEW t \in Threads, Step(t), CallsKept
  PROVE  MakeInv'
  <1> SUFFICES ASSUME All("make")', NEW u \in Threads, ClearIn(fs', th'[u].path)
               PROVE  Making(fs', th'[u])
    BY DEF MakeInv
  <1>1. \A v \in Threads : th[v].op = "make" /\ th'[v].path = th[v].path
    BY DEF All, CallsKept
  <1>2. MakeDir(t) \/ MakeStat(t)
    <2>1. th[t].op # "remove"
      BY <1>1
    <2> QED BY <2>1 DEF Step, RemoveLstat, RemoveList, RemoveChild, RemoveFile, RemoveDir, Removing
  <1>3. Grown(fs, fs')
    BY <1>2, MakeGrows
  <1>4. IsThread(th[u]) /\ th[u].path \in Seq(Names)
    BY PrefixIs DEF TreeInv
  <1>5. ClearIn(fs, th[u].path)
    BY <1>1, <1>3, <1>4, GrownClear
  <1>6. Making(fs, th[u])
    BY <1>1, <1>5 DEF MakeInv, All
  <1>7. CASE u = t
    BY <1>2, <1>5, <1>6, <1>7, MakerStep
  <1>8. CASE u # t
    <2>1. th'[u] = th[u]
      <3>1. \A s : Goes(t, s) => th'[u] = th[u]
        BY <1>8 DEF Goes, TreeInv
      <3> QED BY <1>2, <3>1 DEF MakeDir, MakeStat
    <2> QED BY <1>3, <1>4, <1>6, <2>1, GrownMaking
  <1> QED BY <1>7, <1>8

-----------------------------------------------------------------------------
(* remove_dir_all by any number of threads on one path.  Nobody adds an      *)
(* entry, and whoever removes one removes the first of its directory's list: *)
(* what others have listed is gone from the front.  So the thread that       *)
(* removed last finds all the rest of what it listed.                        *)

\* The list o is what is left of the children in todo.
Rest(o, todo) ==
  /\ Len(o) <= Len(todo)
  /\ \A j \in 1..Len(o) : o[j] = todo[Len(todo) - Len(o) + j].name

\* The list o is c and all the children in todo.
Whole(o, c, todo) ==
  /\ Len(o) = Len(todo) + 1
  /\ o[1] = c
  /\ \A j \in 1..Len(todo) : o[j + 1] = todo[j].name

\* The list o is the children in todo.
Same(o, todo) == Len(o) = Len(todo) /\ \A j \in 1..Len(o) : o[j] = todo[j].name

Once(todo) == \A i, j \in 1..Len(todo) : todo[i].name = todo[j].name => i = j

NotIn(c, todo) == \A j \in 1..Len(todo) : todo[j].name # c

LEMMA SameRest ==
  ASSUME NEW o \in Seq(Names), NEW todo \in Seq(Child), Same(o, todo)
  PROVE  Rest(o, todo)
  <1> DEFINE a == Len(o)
             b == Len(todo)
  <1>1. a \in Nat /\ b \in Nat /\ a = b /\ \A j \in 1..a : o[j] = todo[j].name
    BY LenProperties DEF Same
  <1>2. a <= b /\ \A j \in 1..a : b - a + j = j
    BY <1>1
  <1> QED BY <1>1, <1>2 DEF Rest

LEMMA TailIs ==
  ASSUME NEW todo \in Seq(Child), todo # <<>>
  PROVE  /\ Len(todo) \in Nat /\ Len(todo) >= 1 /\ Tail(todo) \in Seq(Child)
         /\ Len(Tail(todo)) = Len(todo) - 1 /\ Head(todo) = todo[1]
         /\ \A j \in 1..(Len(todo) - 1) : Tail(todo)[j] = todo[j + 1]
  <1>1. Len(todo) \in Nat /\ Len(todo) >= 1
    BY EmptySeq, LenProperties
  <1>2. /\ Tail(todo) \in Seq(Child) /\ Len(Tail(todo)) = Len(todo) - 1
        /\ \A j \in 1..Len(Tail(todo)) : Tail(todo)[j] = todo[j + 1]
    BY HeadTailProperties
  <1> QED BY <1>1, <1>2

\* The head of the children is taken off.
LEMMA RestTail ==
  ASSUME NEW o \in Seq(Names), NEW todo \in Seq(Child), todo # <<>>, Rest(o, todo)
  PROVE  Rest(o, Tail(todo)) \/ Whole(o, todo[1].name, Tail(todo))
  <1> DEFINE a == Len(o)
             b == Len(todo)
             r == Tail(todo)
             c == Len(r)
  <1>1. /\ a \in Nat /\ b \in Nat /\ b >= 1 /\ c = b - 1
        /\ \A j \in 1..(b - 1) : r[j] = todo[j + 1]
    BY TailIs, LenProperties
  <1>2. a <= b /\ \A j \in 1..a : o[j] = todo[b - a + j].name
    BY DEF Rest
  <1> HIDE DEF a, b, c, r
  <1>3. CASE a = b
    <2>1. a = c + 1 /\ c \in Nat /\ 1 \in 1..a /\ b - a + 1 = 1
      BY <1>1, <1>3
    <2>2. ASSUME NEW j \in 1..c PROVE o[j + 1] = r[j].name
      <3>1. j + 1 \in 1..a /\ b - a + (j + 1) = j + 1 /\ j \in 1..(b - 1)
        BY <1>1, <1>3
      <3> QED BY <1>1, <1>2, <3>1
    <2>3. o[1] = todo[1].name
      BY <1>2, <2>1
    <2> QED BY <2>1, <2>2, <2>3 DEF Whole, a, c, r
  <1>4. CASE a # b
    <2>1. a <= c
      BY <1>1, <1>2, <1>4
    <2>2. ASSUME NEW j \in 1..a PROVE o[j] = r[c - a + j].name
      <3>1. c - a + j \in 1..(b - 1) /\ (c - a + j) + 1 = b - a + j
        BY <1>1, <2>1
      <3> QED BY <1>1, <1>2, <3>1
    <2> QED BY <2>1, <2>2 DEF Rest, a, c, r
  <1> QED BY <1>3, <1>4

\* A list that contains the child that is taken off is the whole list.
LEMMA WholeBy ==
  ASSUME NEW o \in Seq(Names), NEW todo \in Seq(Child), NEW c, NotIn(c, todo),
         Rest(o, todo) \/ Whole(o, c, todo), \E j \in 1..Len(o) : o[j] = c
  PROVE  Whole(o, c, todo)
  <1> SUFFICES ASSUME Rest(o, todo) PROVE FALSE
    OBVIOUS
  <1> DEFINE a == Len(o)
             b == Len(todo)
  <1>1. a \in Nat /\ b \in Nat /\ a <= b /\ \A j \in 1..a : o[j] = todo[b - a + j].name
    BY LenProperties DEF Rest
  <1>2. PICK j \in 1..a : o[j] = c
    OBVIOUS
  <1> HIDE DEF a, b
  <1>3. b - a + j \in 1..b
    BY <1>1
  <1> QED BY <1>1, <1>2, <1>3 DEF NotIn, b

LEMMA OnceTail ==
  ASSUME NEW todo \in Seq(Child), todo # <<>>, Once(todo)
  PROVE  Once(Tail(todo)) /\ NotIn(todo[1].name, Tail(todo))
  <1> DEFINE b == Len(todo)
             r == Tail(todo)
             c == Len(r)
  <1>1. b \in Nat /\ b >= 1 /\ c = b - 1 /\ \A j \in 1..(b - 1) : r[j] = todo[j + 1]
    BY TailIs
  <1>2. \A i, j \in 1..b : todo[i].name = todo[j].name => i = j
    BY DEF Once
  <1> HIDE DEF b, c, r
  <1>3. \A j \in 1..c : j + 1 \in 1..b /\ j + 1 # 1 /\ r[j] = todo[j + 1]
    BY <1>1
  <1>4. 1 \in 1..b
    BY <1>1
  <1>5. ASSUME NEW i \in 1..c, NEW j \in 1..c, r[i].name = r[j].name PROVE i = j
    <2>1. i + 1 = j + 1
      BY <1>2, <1>3, <1>5
    <2> QED BY <2>1
  <1>6. \A j \in 1..c : r[j].name # todo[1].name
    BY <1>2, <1>3, <1>4
  <1> QED BY <1>5, <1>6 DEF Once, NotIn, c, r

\* The first entry of the list goes.
Popped(o, w) ==
  Len(o) \in Nat /\ Len(o) >= 1 /\ Len(w) = Len(o) - 1 /\ \A j \in 1..Len(w) : w[j] = o[j + 1]

LEMMA PoppedRest ==
  ASSUME NEW o \in Seq(Names), NEW w \in Seq(Names), NEW todo \in Seq(Child), Popped(o, w),
         Rest(o, todo)
  PROVE  Rest(w, todo)
  <1> DEFINE a == Len(o)
             b == Len(todo)
             c == Len(w)
  <1>1. /\ a \in Nat /\ b \in Nat /\ a >= 1 /\ c = a - 1 /\ \A j \in 1..c : w[j] = o[j + 1]
        /\ a <= b /\ \A j \in 1..a : o[j] = todo[b - a + j].name
    BY LenProperties DEF Popped, Rest
  <1> HIDE DEF a, b, c
  <1>2. ASSUME NEW j \in 1..c PROVE w[j] = todo[b - c + j].name
    <2>1. j + 1 \in 1..a /\ b - a + (j + 1) = b - c + j
      BY <1>1
    <2>2. o[j + 1] = todo[b - a + (j + 1)].name
      BY <1>1, <2>1
    <2> QED BY <1>1, <2>1, <2>2
  <1>3. c <= b
    BY <1>1
  <1> QED BY <1>2, <1>3 DEF Rest, b, c

LEMMA PoppedWhole ==
  ASSUME NEW o \in Seq(Names), NEW w \in Seq(Names), NEW todo \in Seq(Child), Popped(o, w),
         NEW c, Whole(o, c, todo)
  PROVE  Same(w, todo) /\ Rest(w, todo)
  <1>1. Same(w, todo)
    <2>1. Len(w) = Len(todo)
      BY LenProperties DEF Popped, Whole
    <2> QED BY <2>1 DEF Popped, Whole, Same
  <1> QED BY <1>1, SameRest

\* The types of the children are those that were listed.
TypesKept(s, d, todo) ==
  \A j \in 1..Len(todo) :
    todo[j].name \in DOMAIN s.ents[d] => s.ents[d][todo[j].name].ft = todo[j].ft

ListedOK(s, d, todo) ==
  Once(todo) /\ (d # 0 => s.kind[d] = "dir" /\ TypesKept(s, d, todo))

\* The frames of a thread are calls for a child of the one before.
Nested(x) ==
  /\ x.stack[1].path = x.path
  /\ \A k \in 1..(Len(x.stack) - 1) :
       x.stack[k].at = "child" /\ Parent(x.stack[k + 1].path) = x.stack[k].path

\* What the directory of the k-th frame of thread x still holds is what the
\* frame has yet to do; all but the last frame wait for a child c.
FrameOK(s, o, x, k) ==
  LET f == x.stack[k]
      d == AtIn(s, f.path)
      c == Base(x.stack[k + 1].path) IN
  /\ f.at = "unlink" => k = 1
  /\ k > 1 => d = 0 \/ s.kind[d] = "dir"
  /\ f.at = "child" => ListedOK(s, d, f.todo)
  /\ f.at = "child" /\ k = Len(x.stack) /\ d # 0 => Rest(o[d], f.todo)
  /\ f.at = "child" /\ k < Len(x.stack) => NotIn(c, f.todo)
  /\ f.at = "child" /\ k < Len(x.stack) /\ d # 0 => Rest(o[d], f.todo) \/ Whole(o[d], c, f.todo)

\* The call has not returned.
Runs(x) == x.res = ""

CallOK(s, o, x) ==
  /\ Nested(x)
  /\ Runs(x) => \A k \in 1..Len(x.stack) : FrameOK(s, o, x, k)
  /\ x.res = "ok" => AtIn(s, x.path) = 0

\* All but the last frame of x wait for a child that is there, as are all the
\* children after it.
Waiting(s, o, x) ==
  \A k \in 1..(Len(x.stack) - 1) :
    LET d == AtIn(s, x.stack[k].path) IN
    d # 0 /\ Whole(o[d], Base(x.stack[k + 1].path), x.stack[k].todo)

\* All that the thread has listed and not removed is there.
Fresh(s, o, x) ==
  /\ Waiting(s, o, x)
  /\ LET f == Top(x)
         d == AtIn(s, f.path) IN
     /\ f.at = "lstat" => Len(x.stack) = 1 \/ d # 0
     /\ f.at = "list" => d # 0 /\ s.kind[d] = "dir"
     /\ f.at = "unlink" => d # 0 /\ s.kind[d] = "file"
     /\ f.at = "child" => d # 0 /\ Same(o[d], f.todo)

OnePath == All("remove") /\ \A t, u \in Threads : th[t].path = th[u].path

RemoveInv ==
  OnePath =>
    \A t \in Threads :
      /\ CallOK(fs, order, th[t])
      /\ ClearIn(fs, Parent(th[t].path)) =>
           \E w \in Threads : \/ th[w].res = "ok"
                              \/ Runs(th[w]) /\ Fresh(fs, order, th[w])

\* A frame whose directory is there is below frames whose directories are.
LEMMA NestedUp ==
  ASSUME NEW s, Basic(s), NEW x, IsThread(x), Nested(x), NEW k \in 1..Len(x.stack),
         AtIn(s, x.stack[k].path) # 0
  PROVE  \A j \in 1..k :
           LET d == AtIn(s, x.stack[j].path) IN
           /\ d # 0 /\ d \in Inos
           /\ j < k => /\ d \in Dirs(s) /\ DOMAIN s.ents[d] # {}
                       /\ Base(x.stack[j + 1].path) \in DOMAIN s.ents[d]
                       /\ s.ents[d][Base(x.stack[j + 1].path)].ino = AtIn(s, x.stack[j + 1].path)
  <1> DEFINE n == Len(x.stack)
             at(j) == AtIn(s, x.stack[j].path)
             b(j) == Base(x.stack[j + 1].path)
             Is(j) == /\ at(j) \in Dirs(s) /\ DOMAIN s.ents[at(j)] # {}
                      /\ b(j) \in DOMAIN s.ents[at(j)] /\ s.ents[at(j)][b(j)].ino = at(j + 1)
             S == {m \in Nat : m + 1 <= n /\ at(m + 1) # 0 => \A j \in 1..m : at(j) # 0 /\ Is(j)}
  <1>1. n \in Nat /\ \A j \in 1..n : x.stack[j].path \in Paths /\ x.stack[j].path \in Seq(Names)
    BY TopIs, TodoIs
  <1>2. ASSUME NEW j \in 1..(n - 1), at(j + 1) # 0 PROVE at(j) # 0 /\ Is(j)
    <2>1. j + 1 \in 1..n /\ Parent(x.stack[j + 1].path) = x.stack[j].path
      BY <1>1 DEF Nested
    <2>2. x.stack[j + 1].path \in Paths
      BY <1>1, <2>1
    <2>3. LET d == AtIn(s, Parent(x.stack[j + 1].path)) IN
          /\ d # 0 /\ d \in Dirs(s) /\ b(j) \in DOMAIN s.ents[d]
          /\ at(j + 1) = s.ents[d][b(j)].ino /\ DOMAIN s.ents[d] # {}
      BY <1>2, <2>2, AtEntry
    <2> QED BY <2>1, <2>3
  <1> HIDE DEF Is, at
  <1>3. 0 \in S
    OBVIOUS
  <1>4. ASSUME NEW m \in Nat, m \in S PROVE m + 1 \in S
    <2> SUFFICES ASSUME (m + 1) + 1 <= n, at((m + 1) + 1) # 0, NEW j \in 1..(m + 1)
                 PROVE  at(j) # 0 /\ Is(j)
      OBVIOUS
    <2>1. m + 1 \in 1..(n - 1) /\ m + 1 <= n
      BY <1>1
    <2>2. at(m + 1) # 0 /\ Is(m + 1)
      BY <1>2, <2>1
    <2>3. \A i \in 1..m : at(i) # 0 /\ Is(i)
      BY <1>4, <2>1, <2>2
    <2>4. j \in 1..m \/ j = m + 1
      OBVIOUS
    <2> QED BY <2>2, <2>3, <2>4
  <1> HIDE DEF S
  <1>5. Nat \subseteq S
    BY <1>3, <1>4, NatInduct
  <1>6. k - 1 \in S /\ (k - 1) + 1 = k /\ k <= n /\ at(k) # 0
    BY <1>1, <1>5 DEF at
  <1>7. \A j \in 1..(k - 1) : at(j) # 0 /\ Is(j)
    BY <1>6 DEF S
  <1>8. ASSUME NEW j \in 1..k PROVE at(j) # 0 /\ at(j) \in Inos /\ (j < k => Is(j))
    <2>1. j \in 1..n /\ (j = k \/ j \in 1..(k - 1))
      BY <1>1
    <2>2. at(j) # 0 /\ (j < k => Is(j))
      BY <1>6, <1>7, <2>1
    <2>3. at(j) = 0 \/ at(j) \in Inos
      BY <1>1, <2>1, AtType DEF at
    <2> QED BY <2>2, <2>3
  <1> QED BY <1>8 DEF Is, at

\* The frames of a thread whose last directory is there all wait for a child
\* that is there.
LEMMA CallWaiting ==
  ASSUME TreeInv, NEW x, IsThread(x), CallOK(fs, order, x), Runs(x),
         AtIn(fs, Top(x).path) # 0
  PROVE  Waiting(fs, order, x)
  <1> DEFINE n == Len(x.stack)
  <1>0. /\ Basic(fs) /\ Ordered(fs, order) /\ Nested(x) /\ \A k \in 1..n : FrameOK(fs, order, x, k)
    BY DEF TreeInv, Inv, CallOK
  <1>1. /\ n \in Nat /\ n \in 1..n /\ AtIn(fs, x.stack[n].path) # 0
        /\ \A k \in 1..n : x.stack[k] \in FrameType
    BY TopIs
  <1> SUFFICES ASSUME NEW k \in 1..(n - 1)
               PROVE  LET d == AtIn(fs, x.stack[k].path) IN
                      d # 0 /\ Whole(order[d], Base(x.stack[k + 1].path), x.stack[k].todo)
    BY DEF Waiting
  <1> DEFINE f == x.stack[k]
             d == AtIn(fs, f.path)
             c == Base(x.stack[k + 1].path)
  <1>2. k \in 1..n /\ k < n
    BY <1>1
  <1>3. /\ d # 0 /\ d \in Inos /\ d \in Dirs(fs) /\ c \in DOMAIN fs.ents[d]
    BY <1>0, <1>1, <1>2, NestedUp
  <1>4. f.at = "child" /\ f.todo \in Seq(Child)
    BY <1>0, <1>1, <1>2, TodoIs DEF Nested
  <1>5. NotIn(c, f.todo) /\ (Rest(order[d], f.todo) \/ Whole(order[d], c, f.todo))
    BY <1>0, <1>2, <1>3, <1>4 DEF FrameOK
  <1> HIDE DEF f, d, c
  <1>6. order[d] \in Seq(Names) /\ Enumerates(order[d], DOMAIN fs.ents[d])
    BY <1>0, <1>3 DEF Ordered
  <1>7. \E j \in 1..Len(order[d]) : order[d][j] = c
    BY <1>3, <1>6, EnumeratesAt
  <1>8. Whole(order[d], c, f.todo)
    BY <1>4, <1>5, <1>6, <1>7, WholeBy
  <1> QED BY <1>3, <1>8 DEF f, d, c

\* Removing the first entry of a list.
LEMMA RemovedPops ==
  ASSUME TreeInv, Ordered(fs', order'), NEW q \in Paths, RemovedAt(q),
         order[At(Parent(q))][1] = Base(q)
  PROVE  Popped(order[At(Parent(q))], order'[At(Parent(q))])
  <1> DEFINE d == At(Parent(q))
             n == Base(q)
  <1>1. /\ d \in Inos /\ d \in Dirs(fs) /\ n \in DOMAIN fs.ents[d] /\ Ordered(fs, order)
        /\ order'[d] = Without(order[d], n) /\ order[d][1] = n
    BY DEF RemovedAt, TreeInv
  <1> HIDE DEF d, n
  <1>2. order[d] \in Seq(Names) /\ Enumerates(order[d], DOMAIN fs.ents[d])
    BY <1>1 DEF Ordered
  <1>3. LET w == Without(order[d], n) IN
        /\ Len(order[d]) \in Nat /\ Len(order[d]) >= 1 /\ Len(w) = Len(order[d]) - 1
        /\ order[d][1] = n => \A j \in 1..Len(w) : w[j] = order[d][j + 1]
    BY <1>1, <1>2, WithoutIs
  <1> QED BY <1>1, <1>3 DEF Popped, d

\* A removal leaves a frame as it was, or takes its directory, or the first
\* entry of it.
LEMMA FrameKept ==
  ASSUME TreeInv, Ordered(fs', order'), NEW q \in Paths, RemovedAt(q),
         NEW x, IsThread(x), NEW k \in 1..Len(x.stack), FrameOK(fs, order, x, k),
         AtIn(fs', x.stack[k].path) = 0 \/ order[At(Parent(q))][1] = Base(q)
  PROVE  FrameOK(fs', order', x, k)
  <1> DEFINE f == x.stack[k]
             p == f.path
             d == AtIn(fs, p)
             e == AtIn(fs', p)
             c == Base(x.stack[k + 1].path)
             r == At(Parent(q))
             n == Len(x.stack)
  <1>1. f \in FrameType /\ p \in Seq(Names) /\ f.todo \in Seq(Child)
    BY TopIs, TodoIs
  <1>2. /\ Basic(fs) /\ Basic(fs') /\ Removed(fs, fs', r, Base(q)) /\ Dirs(fs') = Dirs(fs)
        /\ \A i \in Inos \ {r} : order'[i] = order[i]
    BY DEF RemovedAt
  <1>3. e = 0 \/ e = d
    BY <1>1, <1>2, AtShrunk
  <1>4. /\ f.at = "unlink" => k = 1
        /\ k > 1 => d = 0 \/ fs.kind[d] = "dir"
        /\ f.at = "child" => ListedOK(fs, d, f.todo)
        /\ f.at = "child" /\ k = n /\ d # 0 => Rest(order[d], f.todo)
        /\ f.at = "child" /\ k < n => NotIn(c, f.todo)
        /\ f.at = "child" /\ k < n /\ d # 0 => Rest(order[d], f.todo) \/ Whole(order[d], c, f.todo)
    BY DEF FrameOK
  <1>5. d = 0 \/ d \in Inos
    BY <1>1, <1>2, AtType
  <1>6. e # 0 => order[r][1] = Base(q)
    OBVIOUS
  <1> HIDE DEF f, p, d, e, c, n
  <1>7. CASE e = 0
    <2>1. f.at = "child" => ListedOK(fs', e, f.todo)
      BY <1>4, <1>7 DEF ListedOK
    <2> QED BY <1>4, <1>7, <2>1 DEF FrameOK, f, p, e, c, n
  <1>8. CASE e # 0
    <2>1. e = d /\ d \in Inos /\ d # 0
      BY <1>3, <1>5, <1>8
    <2>2. \A i \in Inos : fs.kind[i] = "dir" <=> fs'.kind[i] = "dir"
      BY <1>2 DEF Dirs
    <2>3. f.at = "child" => ListedOK(fs', d, f.todo)
      <3>1. \A m \in DOMAIN fs'.ents[d] : m \in DOMAIN fs.ents[d] /\ fs'.ents[d][m] = fs.ents[d][m]
        BY <1>2, <2>1 DEF Removed
      <3>2. TypesKept(fs, d, f.todo) => TypesKept(fs', d, f.todo)
        BY <3>1 DEF TypesKept
      <3> QED BY <1>4, <2>1, <2>2, <3>2 DEF ListedOK
    <2>4. \/ order'[d] = order[d]
          \/ Popped(order[d], order'[d])
      BY <1>2, <1>6, <1>8, <2>1, RemovedPops
    <2>5. order[d] \in Seq(Names) /\ order'[d] \in Seq(Names)
      BY <2>1 DEF TreeInv, Ordered
    <2>6. Rest(order[d], f.todo) => Rest(order'[d], f.todo)
      BY <1>1, <2>4, <2>5, PoppedRest
    <2>7. Whole(order[d], c, f.todo) => Rest(order'[d], f.todo) \/ Whole(order'[d], c, f.todo)
      BY <1>1, <2>4, <2>5, PoppedWhole
    <2> QED BY <1>4, <2>1, <2>2, <2>3, <2>6, <2>7 DEF FrameOK, f, p, d, e, c, n
  <1> QED BY <1>7, <1>8

\* So the calls of all threads stay as they should be, if the entry is the
\* first one of its directory or the path that all of them remove.
LEMMA CallKept ==
  ASSUME TreeInv, Ordered(fs', order'), NEW q \in Paths, RemovedAt(q),
         NEW x, IsThread(x), CallOK(fs, order, x),
         q = x.path \/ order[At(Parent(q))][1] = Base(q)
  PROVE  CallOK(fs', order', x)
  <1>1. Basic(fs) /\ Basic(fs') /\ Nested(x) /\ x.path \in Seq(Names)
        /\ Removed(fs, fs', AtIn(fs, Parent(q)), Base(q))
    BY PrefixIs DEF RemovedAt, CallOK
  <1>2. x.res = "ok" => AtIn(fs', x.path) = 0
    <2>1. AtIn(fs', x.path) = 0 \/ AtIn(fs', x.path) = AtIn(fs, x.path)
      BY <1>1, AtShrunk
    <2> QED BY <2>1 DEF CallOK
  <1>3. ASSUME Runs(x), NEW k \in 1..Len(x.stack) PROVE FrameOK(fs', order', x, k)
    <2>1. FrameOK(fs, order, x, k)
      BY <1>3 DEF CallOK
    <2>2. q = x.path => AtIn(fs', x.stack[k].path) = 0
      <3> SUFFICES ASSUME q = x.path, AtIn(fs', x.stack[k].path) # 0 PROVE FALSE
        OBVIOUS
      <3>1. 1 \in 1..k
        BY TopIs
      <3>2. AtIn(fs', x.stack[1].path) # 0
        BY <1>1, <1>3, <3>1, NestedUp
      <3>3. AtIn(fs', x.path) = 0
        BY <1>1, AtGone
      <3> QED BY <1>1, <3>2, <3>3 DEF Nested
    <2> QED BY <1>3, <2>1, <2>2, FrameKept
  <1> QED BY <1>1, <1>2, <1>3 DEF CallOK

\* The thread that removes an entry finds the rest of what it listed: m is the
\* thread after the step, back in the frame of the directory.
LEMMA RemoverFresh ==
  ASSUME TreeInv, Ordered(fs', order'), NEW q \in Paths, RemovedAt(q),
         NEW m, IsThread(m), Nested(m), Top(m).at = "child", Parent(q) = Top(m).path,
         Waiting(fs, order, m), Whole(order[At(Parent(q))], Base(q), Top(m).todo),
         ListedOK(fs, At(Parent(q)), Top(m).todo),
         \A k \in 1..(Len(m.stack) - 1) : FrameOK(fs, order, m, k)
  PROVE  /\ order[At(Parent(q))][1] = Base(q)
         /\ Fresh(fs', order', m)
         /\ \A k \in 1..Len(m.stack) : FrameOK(fs', order', m, k)
  <1> DEFINE n == Len(m.stack)
             d == At(Parent(q))
             b == Base(q)
             i == fs.ents[d][b].ino
             at(k) == AtIn(fs, m.stack[k].path)
             c(k) == Base(m.stack[k + 1].path)
             todo == Top(m).todo
  <1>1. /\ Basic(fs) /\ Basic(fs') /\ Removed(fs, fs', d, b) /\ Dirs(fs') = Dirs(fs)
        /\ AtIn(fs, Parent(q)) = d /\ d # 0 /\ d \in Inos /\ d \in Dirs(fs)
        /\ b \in DOMAIN fs.ents[d] /\ DOMAIN fs.ents[i] = {}
        /\ \A j \in Inos \ {d} : order'[j] = order[j]
    BY DEF RemovedAt
  <1>2. /\ n \in Nat /\ n \in 1..n /\ Top(m) = m.stack[n] /\ Top(m) \in FrameType
        /\ \A k \in 1..n : m.stack[k] \in FrameType
    BY TopIs
  <1>3. \A k \in 1..n : m.stack[k].path \in Seq(Names) /\ m.stack[k].todo \in Seq(Child)
    BY <1>2, TodoIs
  <1>4. at(n) = d /\ todo \in Seq(Child)
    BY <1>1, <1>2, <1>3
  <1>5. order[d][1] = b /\ Popped(order[d], order'[d])
    BY RemovedPops DEF Whole
  <1>6. Same(order'[d], todo) /\ Rest(order'[d], todo)
    <2>1. order[d] \in Seq(Names) /\ order'[d] \in Seq(Names)
      BY <1>1 DEF TreeInv, Ordered
    <2> QED BY <1>4, <1>5, <2>1, PoppedWhole
  <1> HIDE DEF d, b, i, todo
  <1>7. \A k \in 1..n : k < n => k + 1 \in 1..n /\ k \in 1..(n - 1)
    BY <1>2
  <1>8. ASSUME NEW k \in 1..n
        PROVE  /\ at(k) # 0 /\ at(k) \in Inos /\ DOMAIN fs.ents[at(k)] # {}
               /\ k < n => c(k) \in DOMAIN fs.ents[at(k)] /\ fs.ents[at(k)][c(k)].ino = at(k + 1)
    <2>1. AtIn(fs, m.stack[n].path) # 0
      BY <1>1, <1>4
    <2>2. /\ at(k) # 0 /\ at(k) \in Inos
          /\ k < n => /\ DOMAIN fs.ents[at(k)] # {} /\ c(k) \in DOMAIN fs.ents[at(k)]
                      /\ fs.ents[at(k)][c(k)].ino = at(k + 1)
      <3>1. Basic(fs) /\ n \in 1..n /\ k \in 1..n
        BY <1>1, <1>2
      <3>2. \A j \in 1..n :
              /\ at(j) # 0 /\ at(j) \in Inos
              /\ j < n => /\ at(j) \in Dirs(fs) /\ DOMAIN fs.ents[at(j)] # {}
                          /\ c(j) \in DOMAIN fs.ents[at(j)]
                          /\ fs.ents[at(j)][c(j)].ino = at(j + 1)
        BY <2>1, <3>1, NestedUp
      <3> HIDE DEF at, c, n
      <3> QED BY <3>1, <3>2
    <2>3. CASE k = n
      <3>1. at(k) = d
        BY <1>4, <2>3
      <3>2. ~ (k < n)
        BY <1>2, <2>3
      <3> HIDE DEF at
      <3> QED BY <1>1, <2>2, <3>1, <3>2
    <2>4. CASE k # n
      <3>1. k < n
        BY <1>2, <2>4
      <3> QED BY <2>2, <3>1
    <2> QED BY <2>3, <2>4
  <1>9. ASSUME NEW k \in 1..n PROVE AtIn(fs', m.stack[k].path) = at(k)
    <2>1. at(k) # 0 /\ at(k) # i /\ m.stack[k].path \in Seq(Names)
      BY <1>1, <1>3, <1>8
    <2> QED BY <1>1, <2>1, AtKept DEF i
  <1>10. ASSUME NEW k \in 1..(n - 1) PROVE order'[at(k)] = order[at(k)]
    <2>1. k \in 1..n /\ k < n /\ k + 1 \in 1..n
      BY <1>2
    <2>2. Whole(order[at(k)], c(k), m.stack[k].todo)
      BY DEF Waiting
    <2>3. order[at(k)][1] = c(k)
      BY <2>2 DEF Whole
    <2>4. fs.ents[at(k)][c(k)].ino = at(k + 1) /\ DOMAIN fs.ents[at(k + 1)] # {} /\ at(k) \in Inos
      BY <1>8, <2>1
    <2> HIDE DEF at, c
    <2>5. at(k) # d
      <3> SUFFICES ASSUME at(k) = d PROVE FALSE
        OBVIOUS
      <3>1. c(k) = b
        BY <1>5, <2>3
      <3>2. at(k + 1) = i
        BY <2>4, <3>1 DEF i
      <3> QED BY <1>1, <2>4, <3>2
    <2> QED BY <1>1, <2>4, <2>5
  <1>11. Waiting(fs', order', m)
    <2> SUFFICES ASSUME NEW k \in 1..(n - 1)
                 PROVE  LET e == AtIn(fs', m.stack[k].path) IN
                        e # 0 /\ Whole(order'[e], c(k), m.stack[k].todo)
      BY DEF Waiting
    <2>1. k \in 1..n
      BY <1>2
    <2>2. AtIn(fs', m.stack[k].path) = at(k) /\ at(k) # 0 /\ order'[at(k)] = order[at(k)]
      BY <1>8, <1>9, <1>10, <2>1
    <2>3. Whole(order[at(k)], c(k), m.stack[k].todo)
      BY DEF Waiting
    <2> HIDE DEF at, c
    <2> QED BY <2>2, <2>3
  <1>12. AtIn(fs', Top(m).path) = d
    BY <1>2, <1>4, <1>9
  <1>13. Fresh(fs', order', m)
    BY <1>1, <1>6, <1>11, <1>12 DEF Fresh, todo
  <1>14. FrameOK(fs', order', m, n)
    <2>1. fs'.kind[d] = "dir"
      BY <1>1 DEF Dirs
    <2>2. ListedOK(fs', d, todo)
      <3>1. \A l \in DOMAIN fs'.ents[d] : l \in DOMAIN fs.ents[d] /\ fs'.ents[d][l] = fs.ents[d][l]
        BY <1>1 DEF Removed
      <3>2. ListedOK(fs, d, todo)
        BY DEF d, todo
      <3>3. Once(todo) /\ TypesKept(fs, d, todo)
        BY <1>1, <3>2 DEF ListedOK
      <3>4. TypesKept(fs', d, todo)
        BY <3>1, <3>3 DEF TypesKept
      <3> QED BY <2>1, <3>3, <3>4 DEF ListedOK
    <2>3. m.stack[n].at = "child" /\ m.stack[n].todo = todo /\ AtIn(fs', m.stack[n].path) = d
      BY <1>2, <1>12 DEF todo
    <2>4. ~ (n < Len(m.stack)) /\ "child" # "unlink"
      BY <1>2
    <2> HIDE DEF n
    <2> QED BY <1>6, <2>1, <2>2, <2>3, <2>4 DEF FrameOK
  <1>15. ASSUME NEW k \in 1..n PROVE FrameOK(fs', order', m, k)
    <2>1. CASE k = n
      BY <1>14, <2>1
    <2>2. CASE k # n
      <3>1. k \in 1..(n - 1)
        BY <1>2, <2>2
      <3> QED BY <1>5, <3>1, FrameKept DEF d, b
    <2> QED BY <2>1, <2>2
  <1> QED BY <1>5, <1>13, <1>15 DEF d, b

\* What FrameOK says of the last frame.
TopOK(s, o, x) ==
  LET f == Top(x)
      d == AtIn(s, f.path) IN
  /\ f.at = "unlink" => Len(x.stack) = 1
  /\ Len(x.stack) > 1 => d = 0 \/ s.kind[d] = "dir"
  /\ f.at = "child" => ListedOK(s, d, f.todo) /\ (d # 0 => Rest(o[d], f.todo))

LEMMA TopFrame ==
  ASSUME NEW s, NEW o, NEW x, IsThread(x)
  PROVE  FrameOK(s, o, x, Len(x.stack)) <=> TopOK(s, o, x)
  <1> DEFINE n == Len(x.stack)
  <1>1. Top(x) = x.stack[n] /\ ~ (n < Len(x.stack)) /\ n = Len(x.stack)
    BY TopIs
  <1> HIDE DEF n
  <1> QED BY <1>1 DEF FrameOK, TopOK

\* The last frame is replaced by one for the same path.
LEMMA SetTopKeeps ==
  ASSUME NEW s, NEW o, NEW x, IsThread(x), CallOK(s, o, x), Runs(x), NEW f \in FrameType,
         f.path = Top(x).path
  PROVE  LET m == SetTop(x, f) IN
         /\ Nested(m) /\ Runs(m) /\ m.path = x.path /\ Top(m) = f /\ IsThread(m)
         /\ Len(m.stack) = Len(x.stack)
         /\ \A k \in 1..(Len(m.stack) - 1) : FrameOK(s, o, m, k)
         /\ Waiting(s, o, x) => Waiting(s, o, m)
         /\ TopOK(s, o, m) => CallOK(s, o, m)
  <1> DEFINE m == SetTop(x, f)
             n == Len(x.stack)
  <1>1. /\ IsThread(m) /\ m.path = x.path /\ m.res = x.res /\ Len(m.stack) = n /\ Top(m) = f
        /\ m.stack[n] = f /\ \A k \in 1..(n - 1) : m.stack[k] = x.stack[k]
    BY SetTopIs DEF Restacked
  <1>2. n \in Nat /\ n >= 1 /\ x.stack[n].path = f.path
    BY TopIs
  <1>3. Nested(x) /\ \A k \in 1..n : FrameOK(s, o, x, k)
    BY DEF CallOK
  <1> HIDE DEF m, n
  <1>4. \A k \in 1..n : m.stack[k].path = x.stack[k].path
    <2> SUFFICES ASSUME NEW k \in 1..n PROVE m.stack[k].path = x.stack[k].path
      OBVIOUS
    <2>1. CASE k = n
      BY <1>1, <1>2, <2>1
    <2>2. CASE k # n
      <3>1. k \in 1..(n - 1)
        BY <1>2, <2>2
      <3> QED BY <1>1, <3>1
    <2> QED BY <2>1, <2>2
  <1>5. 1 \in 1..n /\ \A k \in 1..(n - 1) : k \in 1..n /\ k + 1 \in 1..n /\ k < n /\ k # n
    BY <1>2
  <1>6. Nested(m)
    BY <1>1, <1>3, <1>4, <1>5 DEF Nested, n
  <1>7. ASSUME NEW k \in 1..(n - 1) PROVE FrameOK(s, o, m, k)
    <2>1. m.stack[k] = x.stack[k] /\ m.stack[k + 1].path = x.stack[k + 1].path /\ Len(m.stack) = Len(x.stack)
      BY <1>1, <1>4, <1>5 DEF n
    <2>2. FrameOK(s, o, x, k)
      BY <1>3, <1>5
    <2> QED BY <2>1, <2>2 DEF FrameOK
  <1>8. Waiting(s, o, x) => Waiting(s, o, m)
    BY <1>1, <1>4, <1>5 DEF Waiting, n
  <1>9. Runs(m)
    BY <1>1 DEF Runs
  <1>10. ASSUME TopOK(s, o, m) PROVE CallOK(s, o, m)
    <2>1. FrameOK(s, o, m, n)
      BY <1>1, <1>10, TopFrame
    <2>2. ASSUME NEW k \in 1..Len(m.stack) PROVE FrameOK(s, o, m, k)
      <3>1. k = n \/ k \in 1..(n - 1)
        BY <1>1, <1>2
      <3> QED BY <1>7, <2>1, <3>1
    <2>3. m.res # "ok"
      BY <1>9 DEF Runs
    <2> QED BY <1>6, <2>2, <2>3 DEF CallOK
  <1> QED BY <1>1, <1>6, <1>7, <1>8, <1>9, <1>10 DEF m, n

IsError(res) == res # "ok" /\ res # ""

\* An error ends the call.
LEMMA BackFails ==
  ASSUME NEW s, NEW o, NEW x, IsThread(x), CallOK(s, o, x), NEW res, IsError(res)
  PROVE  CallOK(s, o, Back(x, res))
  <1> DEFINE m == Back(x, res)
  <1>1. m.path = x.path /\ m.res = res /\ m.stack = x.stack
    <2>1. res # "ok"
      BY Zenon DEF IsError
    <2> QED BY <2>1, BackIs
  <1> HIDE DEF m
  <1>2. Nested(m)
    BY <1>1 DEF CallOK, Nested
  <1>3. m.res # "ok" /\ ~ Runs(m)
    BY <1>1, Zenon DEF IsError, Runs
  <1> QED BY <1>2, <1>3 DEF CallOK, m

\* The last activation returns to the one before it.
LEMMA PopKeeps ==
  ASSUME NEW s, NEW o, NEW x, IsThread(x), CallOK(s, o, x), Runs(x), Len(x.stack) > 1
  PROVE  LET m == Back(x, "ok")
             n == Len(m.stack) IN
         /\ Nested(m) /\ Runs(m) /\ m.path = x.path /\ IsThread(m) /\ n \in Nat /\ n >= 1
         /\ Len(x.stack) = n + 1 /\ Top(m) = x.stack[n] /\ Top(m).at = "child"
         /\ Parent(Top(x).path) = Top(m).path
         /\ NotIn(Base(Top(x).path), Top(m).todo)
         /\ ListedOK(s, AtIn(s, Top(m).path), Top(m).todo)
         /\ (n > 1 => AtIn(s, Top(m).path) = 0 \/ s.kind[AtIn(s, Top(m).path)] = "dir")
         /\ AtIn(s, Top(m).path) # 0 =>
              \/ Rest(o[AtIn(s, Top(m).path)], Top(m).todo)
              \/ Whole(o[AtIn(s, Top(m).path)], Base(Top(x).path), Top(m).todo)
         /\ \A k \in 1..(n - 1) : FrameOK(s, o, m, k)
         /\ Waiting(s, o, x) => Waiting(s, o, m)
         /\ TopOK(s, o, m) => CallOK(s, o, m)
  <1> DEFINE m == Back(x, "ok")
             n == Len(m.stack)
             l == Len(x.stack)
  <1>1. /\ IsThread(m) /\ m.path = x.path /\ m.res = x.res /\ n = l - 1
        /\ \A k \in 1..(l - 1) : m.stack[k] = x.stack[k]
    BY BackIs
  <1>2. l \in Nat /\ l > 1 /\ Top(x) = x.stack[l]
    BY TopIs
  <1>3. Top(m) = m.stack[n]
    BY <1>1, TopIs
  <1>4. Nested(x) /\ \A k \in 1..l : FrameOK(s, o, x, k)
    BY DEF CallOK
  <1> HIDE DEF m, n, l
  <1>5. n \in Nat /\ n >= 1 /\ l = n + 1 /\ n \in 1..(l - 1) /\ n \in 1..l /\ n < l
    BY <1>1, <1>2
  <1>6. \A k \in 1..(n - 1) : k \in 1..(l - 1) /\ k + 1 \in 1..(l - 1) /\ k \in 1..l /\ k < l /\ k < n
    BY <1>5
  <1>7. Top(m) = x.stack[n] /\ Top(m).at = "child" /\ Parent(Top(x).path) = Top(m).path
    <2>1. Top(m) = x.stack[n]
      BY <1>1, <1>3, <1>5
    <2>2. x.stack[n].at = "child" /\ Parent(x.stack[n + 1].path) = x.stack[n].path
      BY <1>4, <1>5 DEF Nested, l
    <2> QED BY <1>2, <1>5, <2>1, <2>2
  <1>8. Nested(m)
    <2>1. 1 \in 1..(l - 1)
      BY <1>5
    <2>2. m.stack[1].path = m.path
      BY <1>1, <1>4, <2>1 DEF Nested
    <2>3. ASSUME NEW k \in 1..(n - 1)
          PROVE  m.stack[k].at = "child" /\ Parent(m.stack[k + 1].path) = m.stack[k].path
      BY <1>1, <1>4, <1>6 DEF Nested, l
    <2> QED BY <2>2, <2>3 DEF Nested, n
  <1>9. FrameOK(s, o, x, n)
    BY <1>4, <1>5
  <1>10. /\ NotIn(Base(Top(x).path), Top(m).todo)
         /\ ListedOK(s, AtIn(s, Top(m).path), Top(m).todo)
         /\ n > 1 => AtIn(s, Top(m).path) = 0 \/ s.kind[AtIn(s, Top(m).path)] = "dir"
         /\ AtIn(s, Top(m).path) # 0 =>
              \/ Rest(o[AtIn(s, Top(m).path)], Top(m).todo)
              \/ Whole(o[AtIn(s, Top(m).path)], Base(Top(x).path), Top(m).todo)
    <2>1. n < Len(x.stack) /\ x.stack[n + 1] = Top(x)
      BY <1>2, <1>5 DEF l
    <2> QED BY <1>7, <1>9, <2>1 DEF FrameOK
  <1>11. ASSUME NEW k \in 1..(n - 1) PROVE FrameOK(s, o, m, k)
    <2>1. m.stack[k] = x.stack[k] /\ m.stack[k + 1] = x.stack[k + 1]
      BY <1>1, <1>6
    <2>2. FrameOK(s, o, x, k)
      BY <1>4, <1>6
    <2>3. k < Len(m.stack) /\ k < Len(x.stack) /\ k # Len(m.stack)
      BY <1>5, <1>6 DEF n, l
    <2> QED BY <2>1, <2>2, <2>3 DEF FrameOK
  <1>12. Waiting(s, o, x) => Waiting(s, o, m)
    <2> SUFFICES ASSUME Waiting(s, o, x), NEW k \in 1..(n - 1)
                 PROVE  LET d == AtIn(s, m.stack[k].path) IN
                        d # 0 /\ Whole(o[d], Base(m.stack[k + 1].path), m.stack[k].todo)
      BY DEF Waiting, n
    <2>1. m.stack[k] = x.stack[k] /\ m.stack[k + 1] = x.stack[k + 1] /\ k \in 1..(Len(x.stack) - 1)
      BY <1>1, <1>6 DEF l
    <2> QED BY <2>1 DEF Waiting
  <1>13. Runs(m)
    BY <1>1 DEF Runs
  <1>14. ASSUME TopOK(s, o, m) PROVE CallOK(s, o, m)
    <2>1. FrameOK(s, o, m, n)
      BY <1>1, <1>14, TopFrame DEF n
    <2>2. ASSUME NEW k \in 1..n PROVE FrameOK(s, o, m, k)
      <3>1. k = n \/ k \in 1..(n - 1)
        BY <1>5
      <3> QED BY <1>11, <2>1, <3>1
    <2>3. m.res # "ok"
      BY <1>13 DEF Runs
    <2> QED BY <1>8, <2>2, <2>3 DEF CallOK, n
  <1> QED BY <1>1, <1>5, <1>7, <1>8, <1>10, <1>11, <1>12, <1>13, <1>14 DEF m, n, l

-----------------------------------------------------------------------------
(* The steps that only read. *)

\* m is what the call x may come to: as it should be, and still fresh, or
\* done, if nothing was in the way.
Advances(x, m) ==
  /\ CallOK(fs, order, m)
  /\ ClearIn(fs, Parent(x.path)) /\ Fresh(fs, order, x) =>
       m.res = "ok" \/ (Runs(m) /\ Fresh(fs, order, m))

IsAt(x, a) == Top(x).at = a

\* A call of a thread that has not returned.
Call(x) == IsThread(x) /\ CallOK(fs, order, x) /\ Runs(x)

LEMMA CallIs ==
  ASSUME TreeInv, NEW x, Call(x)
  PROVE  LET p == Top(x).path
             d == AtIn(fs, p) IN
         /\ Basic(fs) /\ Types(fs) /\ Ordered(fs, order)
         /\ IsThread(x) /\ CallOK(fs, order, x) /\ Runs(x) /\ Nested(x) /\ TopOK(fs, order, x)
         /\ Top(x) \in FrameType /\ p \in Paths /\ p \in Seq(Names) /\ Top(x).todo \in Seq(Child)
         /\ Len(x.stack) \in Nat /\ Len(x.stack) >= 1 /\ x.path \in Paths
         /\ Len(x.stack) > 1 <=> Len(x.stack) # 1
         /\ Len(x.stack) = 1 => p = x.path
         /\ At(p) = d /\ (IsDirAt(p) <=> d # 0 /\ fs.kind[d] = "dir")
         /\ d # 0 => /\ d \in Inos /\ fs.kind[d] \in {"file", "dir"}
                     /\ fs.kind[d] = "dir" => /\ d \in Dirs(fs) /\ order[d] \in Seq(Names)
                                              /\ Enumerates(order[d], DOMAIN fs.ents[d])
         /\ Waiting(fs, order, x) \/ d = 0
  <1> DEFINE p == Top(x).path
             d == AtIn(fs, p)
             n == Len(x.stack)
  <1>1. IsThread(x) /\ CallOK(fs, order, x) /\ Runs(x)
    BY DEF Call
  <1>2. /\ n \in Nat /\ n >= 1 /\ n \in 1..n /\ Top(x) \in FrameType /\ Top(x) = x.stack[n]
    BY <1>1, TopIs
  <1>3. p \in Paths /\ p \in Seq(Names) /\ Top(x).todo \in Seq(Child)
    BY <1>2, TodoIs
  <1>4. Basic(fs) /\ Types(fs) /\ Ordered(fs, order)
    BY DEF TreeInv, Inv, Basic
  <1>5. Nested(x) /\ FrameOK(fs, order, x, n) /\ x.path \in Paths
    BY <1>1, <1>2 DEF CallOK, IsThread
  <1>6. TopOK(fs, order, x)
    BY <1>1, <1>5, TopFrame
  <1>7. n = 1 => p = x.path
    BY <1>2, <1>5 DEF Nested
  <1>8. At(p) = d /\ (IsDirAt(p) <=> d # 0 /\ fs.kind[d] = "dir")
    BY AtIs DEF IsDirAt
  <1>9. d # 0 => d \in Inos /\ fs.kind[d] \in {"file", "dir"}
    BY <1>3, <1>4, AtEntry
  <1>10. d # 0 /\ fs.kind[d] = "dir" => d \in Dirs(fs) /\ order[d] \in Seq(Names)
                                        /\ Enumerates(order[d], DOMAIN fs.ents[d])
    BY <1>4, <1>9 DEF Ordered, Dirs
  <1>11. Waiting(fs, order, x) \/ d = 0
    BY <1>1, CallWaiting
  <1>12. n > 1 <=> n # 1
    <2> HIDE DEF n
    <2> QED BY <1>2
  <1> QED BY <1>1, <1>2, <1>3, <1>4, <1>5, <1>6, <1>7, <1>8, <1>9, <1>10, <1>11, <1>12

\* An error is no advance, but a fresh call does not meet it.
LEMMA FailAdvances ==
  ASSUME TreeInv, NEW x, Call(x), NEW res, IsError(res),
         ~ (ClearIn(fs, Parent(x.path)) /\ Fresh(fs, order, x))
  PROVE  Advances(x, Back(x, res))
  <1>1. IsThread(x) /\ CallOK(fs, order, x)
    BY DEF Call
  <1>2. CallOK(fs, order, Back(x, res))
    BY <1>1, BackFails
  <1> QED BY <1>2 DEF Advances

LEMMA WalkErrorIs ==
  ASSUME NEW p
  PROVE  IsError(WalkError(p))
  BY Zenon DEF WalkError, IsError

\* A path below directories fails with ENOENT only.
LEMMA ClearWalk ==
  ASSUME NEW p \in Paths, ClearIn(fs, Parent(p))
  PROVE  WalkError(p) = "ENOENT"
  <1>1. Len(p) \in Nat /\ Len(p) >= 1 /\ Len(Parent(p)) = Len(p) - 1
    BY ParentIs
  <1>2. ASSUME NEW k \in 1..(Len(p) - 1), At(SubSeq(p, 1, k)) # 0
        PROVE  fs.kind[At(SubSeq(p, 1, k))] = "dir"
    <2>1. k \in 1..Len(Parent(p)) /\ k \in 0..(Len(p) - 1)
      BY <1>1
    <2>2. SubSeq(Parent(p), 1, k) = SubSeq(p, 1, k)
      BY <2>1, FrontFront
    <2>3. AtIn(fs, SubSeq(p, 1, k)) = 0 \/ IsDirIn(fs, SubSeq(p, 1, k))
      BY <2>1, <2>2 DEF ClearIn
    <2> QED BY <1>2, <2>3, AtIs DEF IsDirIn
  <1> QED BY <1>2 DEF WalkError

\* symlink_metadata finds nothing: the call is done.
LEMMA LstatGone ==
  ASSUME TreeInv, NEW x, Call(x), IsAt(x, "lstat"), At(Top(x).path) = 0
  PROVE  Advances(x, Back(x, "ok"))
  <1> DEFINE m == Back(x, "ok")
             p == Top(x).path
             f == Top(m)
             d == AtIn(fs, f.path)
             c == Base(p)
             n == Len(m.stack)
  <1>0. /\ IsThread(x) /\ CallOK(fs, order, x) /\ Runs(x) /\ Nested(x) /\ AtIn(fs, p) = 0
        /\ Basic(fs) /\ Types(fs) /\ Ordered(fs, order) /\ p \in Paths
        /\ Len(x.stack) = 1 => p = x.path
        /\ Len(x.stack) > 1 <=> Len(x.stack) # 1
    BY CallIs
  <1>1. CASE Len(x.stack) = 1
    <2>1. m.path = x.path /\ m.res = "ok" /\ m.stack = x.stack
      BY <1>0, <1>1, BackIs
    <2>2. AtIn(fs, m.path) = 0
      BY <1>0, <1>1, <2>1
    <2> HIDE DEF m
    <2>3. Nested(m)
      BY <1>0, <2>1 DEF Nested
    <2>4. CallOK(fs, order, m)
      BY <2>1, <2>2, <2>3 DEF CallOK, Runs
    <2> QED BY <2>1, <2>4 DEF Advances, m
  <1>2. CASE Len(x.stack) # 1
    <2>0. Len(x.stack) > 1
      BY <1>0, <1>2
    <2>1. /\ IsThread(m) /\ f.at = "child" /\ Parent(p) = f.path
          /\ ListedOK(fs, d, f.todo) /\ (n > 1 => d = 0 \/ fs.kind[d] = "dir")
          /\ d # 0 => Rest(order[d], f.todo) \/ Whole(order[d], c, f.todo)
          /\ TopOK(fs, order, m) => CallOK(fs, order, m)
      BY <1>0, <2>0, PopKeeps
    <2>2. ~ Fresh(fs, order, x)
      BY <1>0, <1>2 DEF Fresh, IsAt
    <2> HIDE DEF m, p, d, c, n
    <2>3. EntryOf(fs, d, c) = 0
      BY <1>0, <2>1, AtLast DEF d, c
    <2>4. d # 0 => Rest(order[d], f.todo)
      <3> SUFFICES ASSUME d # 0, Whole(order[d], c, f.todo) PROVE FALSE
        BY <2>1
      <3>1. f \in FrameType /\ f.path \in Seq(Names) /\ f.todo \in Seq(Child)
        BY <2>1, TopIs, TodoIs
      <3>2. d \in Inos /\ fs.kind[d] = "dir"
        BY <1>0, <2>1, <3>1, AtType DEF ListedOK, d
      <3>3. order[d] \in Seq(Names) /\ Enumerates(order[d], DOMAIN fs.ents[d])
        BY <1>0, <3>2 DEF Ordered, Dirs
      <3>4. order[d][1] = c /\ Len(order[d]) = Len(f.todo) + 1
        BY DEF Whole
      <3>5. 1 \in 1..Len(order[d])
        BY <3>1, <3>4, LenProperties
      <3>6. c \in DOMAIN fs.ents[d]
        BY <3>3, <3>4, <3>5, EnumeratesAt
      <3>7. fs.ents[d][c].ino \in Inos /\ 0 \notin Inos
        BY <1>0, <3>2, <3>6, EntsAt DEF Inos
      <3> QED BY <2>3, <3>6, <3>7 DEF EntryOf
    <2>5. TopOK(fs, order, m)
      BY <2>1, <2>4 DEF TopOK, d, n
    <2> QED BY <2>1, <2>2, <2>5 DEF Advances, m
  <1> QED BY <1>1, <1>2

LEMMA LstatFails ==
  ASSUME TreeInv, NEW x, Call(x), IsAt(x, "lstat"), At(Top(x).path) = 0,
         WalkError(Top(x).path) # "ENOENT"
  PROVE  Advances(x, Back(x, WalkError(Top(x).path)))
  <1>1. /\ AtIn(fs, Top(x).path) = 0 /\ (Len(x.stack) = 1 => Top(x).path = x.path)
        /\ x.path \in Paths
    BY CallIs
  <1>2. Fresh(fs, order, x) => Len(x.stack) = 1
    BY <1>1 DEF Fresh, IsAt
  <1>3. ClearIn(fs, Parent(x.path)) => WalkError(x.path) = "ENOENT"
    BY <1>1, ClearWalk
  <1> QED BY <1>1, <1>2, <1>3, WalkErrorIs, FailAdvances

LEMMA LstatDir ==
  ASSUME TreeInv, NEW x, Call(x), IsDirAt(Top(x).path)
  PROVE  Advances(x, SetTop(x, [Top(x) EXCEPT !.at = "list"]))
  <1> DEFINE f == [Top(x) EXCEPT !.at = "list"]
             m == SetTop(x, f)
             d == AtIn(fs, Top(x).path)
  <1>1. /\ IsThread(x) /\ CallOK(fs, order, x) /\ Runs(x) /\ Top(x) \in FrameType
        /\ d # 0 /\ fs.kind[d] = "dir" /\ Waiting(fs, order, x)
    BY CallIs
  <1>2. f \in FrameType /\ f.at = "list" /\ f.path = Top(x).path
    BY <1>1 DEF FrameType
  <1> HIDE DEF f
  <1>3. /\ Runs(m) /\ Top(m) = f /\ (Waiting(fs, order, x) => Waiting(fs, order, m))
        /\ TopOK(fs, order, m) => CallOK(fs, order, m)
    BY <1>1, <1>2, SetTopKeeps
  <1> HIDE DEF m
  <1>4. TopOK(fs, order, m)
    BY <1>1, <1>2, <1>3 DEF TopOK
  <1>5. Fresh(fs, order, m)
    BY <1>1, <1>2, <1>3 DEF Fresh
  <1> QED BY <1>3, <1>4, <1>5 DEF Advances, m, f

LEMMA LstatFile ==
  ASSUME TreeInv, NEW x, Call(x), At(Top(x).path) # 0, ~ IsDirAt(Top(x).path)
  PROVE  Advances(x, SetTop(x, [Top(x) EXCEPT !.at = "unlink"]))
  <1> DEFINE f == [Top(x) EXCEPT !.at = "unlink"]
             m == SetTop(x, f)
             d == AtIn(fs, Top(x).path)
  <1>1. /\ IsThread(x) /\ CallOK(fs, order, x) /\ Runs(x) /\ Top(x) \in FrameType
        /\ d # 0 /\ fs.kind[d] = "file" /\ Waiting(fs, order, x) /\ TopOK(fs, order, x)
        /\ Len(x.stack) > 1 <=> Len(x.stack) # 1
    BY CallIs
  <1>2. f \in FrameType /\ f.at = "unlink" /\ f.path = Top(x).path
    BY <1>1 DEF FrameType
  <1>3. Len(x.stack) = 1
    BY <1>1 DEF TopOK
  <1> HIDE DEF f
  <1>4. /\ Runs(m) /\ Top(m) = f /\ (Waiting(fs, order, x) => Waiting(fs, order, m))
        /\ Len(m.stack) = Len(x.stack)
        /\ TopOK(fs, order, m) => CallOK(fs, order, m)
    BY <1>1, <1>2, SetTopKeeps
  <1> HIDE DEF m
  <1>5. Len(m.stack) = 1 /\ ~ (Len(m.stack) > 1)
    BY <1>1, <1>3, <1>4
  <1>6. TopOK(fs, order, m)
    BY <1>1, <1>2, <1>4, <1>5 DEF TopOK
  <1>7. Fresh(fs, order, m)
    BY <1>1, <1>2, <1>4 DEF Fresh
  <1> QED BY <1>4, <1>6, <1>7 DEF Advances, m, f

\* read_dir lists the whole directory.
LEMMA ListDir ==
  ASSUME TreeInv, NEW x, Call(x), IsDirAt(Top(x).path)
  PROVE  Advances(x, SetTop(x, [Top(x) EXCEPT !.at = "child", !.todo = Listing(At(Top(x).path))]))
  <1> DEFINE l == Listing(At(Top(x).path))
             f == [Top(x) EXCEPT !.at = "child", !.todo = l]
             m == SetTop(x, f)
             d == AtIn(fs, Top(x).path)
  <1>1. /\ IsThread(x) /\ CallOK(fs, order, x) /\ Runs(x) /\ Top(x) \in FrameType
        /\ d # 0 /\ d \in Inos /\ fs.kind[d] = "dir" /\ Waiting(fs, order, x)
        /\ At(Top(x).path) = d /\ Top(x).path \in Seq(Names)
        /\ order[d] \in Seq(Names) /\ Enumerates(order[d], DOMAIN fs.ents[d])
    BY CallIs
  <1>2. /\ l \in Seq(Child) /\ Len(l) = Len(order[d]) /\ Len(l) \in Nat
        /\ \A k \in 1..Len(l) : l[k].name = order[d][k] /\ l[k].ft = fs.ents[d][l[k].name].ft
    BY <1>1, ListingIs
  <1> HIDE DEF l, d
  <1>3. f \in FrameType /\ f.at = "child" /\ f.path = Top(x).path /\ f.todo = l
    <2>1. Top(x) \in FrameType /\ l \in Seq(Child)
      BY <1>1, <1>2
    <2> QED BY <2>1 DEF FrameType, Todos, Child
  <1>4. Same(order[d], l) /\ Rest(order[d], l)
    <2>1. Same(order[d], l)
      BY <1>2 DEF Same
    <2> QED BY <1>1, <1>2, <2>1, SameRest
  <1>5. Once(l)
    <2>1. \A i, j \in 1..Len(order[d]) : order[d][i] = order[d][j] => i = j
      BY <1>1, EnumeratesAt
    <2> QED BY <1>2, <2>1 DEF Once
  <1>6. TypesKept(fs, d, l)
    BY <1>2 DEF TypesKept
  <1> HIDE DEF f
  <1>7. /\ Runs(m) /\ Top(m) = f /\ (Waiting(fs, order, x) => Waiting(fs, order, m))
        /\ TopOK(fs, order, m) => CallOK(fs, order, m)
    BY <1>1, <1>3, SetTopKeeps
  <1> HIDE DEF m
  <1>8. AtIn(fs, f.path) = d
    BY <1>3 DEF d
  <1>9. ListedOK(fs, d, l)
    BY <1>1, <1>5, <1>6 DEF ListedOK
  <1>10. TopOK(fs, order, m)
    BY <1>1, <1>3, <1>4, <1>7, <1>8, <1>9 DEF TopOK
  <1>11. Fresh(fs, order, m)
    BY <1>1, <1>3, <1>4, <1>7, <1>8 DEF Fresh
  <1> QED BY <1>7, <1>10, <1>11 DEF Advances, m, f, l

\* The directory is there for a call that is fresh.
LEMMA ListFails ==
  ASSUME TreeInv, NEW x, Call(x), IsAt(x, "list"), ~ IsDirAt(Top(x).path), NEW res, IsError(res)
  PROVE  Advances(x, Back(x, res))
  <1>1. IsDirAt(Top(x).path) <=> AtIn(fs, Top(x).path) # 0 /\ fs.kind[AtIn(fs, Top(x).path)] = "dir"
    BY CallIs
  <1>2. ~ Fresh(fs, order, x)
    BY <1>1 DEF Fresh, IsAt
  <1> QED BY <1>2, FailAdvances

\* The last frame of thread y has a directory d and goes on to its child q.
Descends(s, o, y, q, d) ==
  /\ IsThread(y) /\ Nested(y) /\ Runs(y) /\ IsAt(y, "child")
  /\ q \in Paths /\ Parent(q) = Top(y).path
  /\ AtIn(s, q) = 0 \/ s.kind[AtIn(s, q)] = "dir"
  /\ \A k \in 1..(Len(y.stack) - 1) : FrameOK(s, o, y, k)
  /\ d = AtIn(s, Top(y).path) /\ ListedOK(s, d, Top(y).todo)
  /\ Len(y.stack) > 1 => d = 0 \/ s.kind[d] = "dir"
  /\ NotIn(Base(q), Top(y).todo)
  /\ d # 0 => Rest(o[d], Top(y).todo) \/ Whole(o[d], Base(q), Top(y).todo)

\* A call for a child of the last frame's directory.
LEMMA PushKeeps ==
  ASSUME NEW s, NEW o, NEW y, NEW q, NEW d, Descends(s, o, y, q, d)
  PROVE  LET m == [y EXCEPT !.stack = Append(@, Frame(q))] IN
         /\ CallOK(s, o, m) /\ Runs(m) /\ Top(m) = Frame(q)
         /\ Waiting(s, o, y) /\ d # 0 /\ Whole(o[d], Base(q), Top(y).todo) => Waiting(s, o, m)
  <1> DEFINE m == [y EXCEPT !.stack = Append(@, Frame(q))]
             n == Len(y.stack)
             l == Len(m.stack)
  <1>0. /\ IsThread(y) /\ Nested(y) /\ Runs(y) /\ IsAt(y, "child")
        /\ q \in Paths /\ Parent(q) = Top(y).path
        /\ AtIn(s, q) = 0 \/ s.kind[AtIn(s, q)] = "dir"
        /\ \A k \in 1..(Len(y.stack) - 1) : FrameOK(s, o, y, k)
        /\ d = AtIn(s, Top(y).path) /\ ListedOK(s, d, Top(y).todo)
        /\ Len(y.stack) > 1 => d = 0 \/ s.kind[d] = "dir"
        /\ NotIn(Base(q), Top(y).todo)
        /\ d # 0 => Rest(o[d], Top(y).todo) \/ Whole(o[d], Base(q), Top(y).todo)
    BY DEF Descends
  <1> USE <1>0
  <1>1. Frame(q) \in FrameType /\ Frame(q).path = q /\ Frame(q).at = "lstat"
    BY FrameIs
  <1>2. /\ IsThread(m) /\ m.path = y.path /\ m.res = y.res
        /\ l = n + 1 /\ Top(m) = Frame(q) /\ m.stack[n + 1] = Frame(q)
        /\ \A k \in 1..n : m.stack[k] = y.stack[k]
    BY <1>1, PushIs DEF Restacked
  <1>3. n \in Nat /\ n >= 1 /\ y.stack[n] = Top(y)
    BY TopIs
  <1> HIDE DEF m, n, l
  <1>4. Runs(m)
    BY <1>2, Zenon DEF Runs
  <1>5. n \in 1..n /\ 1 \in 1..n /\ n < l /\ l - 1 = n /\ n + 1 = l /\ n # l
    BY <1>2, <1>3
  <1>6. \A k \in 1..(n - 1) : k \in 1..n /\ k + 1 \in 1..n /\ k < n /\ k < l /\ k # n /\ k # l
    BY <1>2, <1>3
  <1>7. \A k \in 1..n : k = n \/ k \in 1..(n - 1)
    BY <1>3
  <1>8. m.stack[n] = Top(y) /\ m.stack[n + 1].path = q /\ m.stack[n].at = "child"
    BY <1>1, <1>2, <1>3, <1>5 DEF IsAt
  <1>9. Nested(m)
    <2>1. m.stack[1].path = m.path
      BY <1>2, <1>5 DEF Nested
    <2>2. ASSUME NEW k \in 1..n
          PROVE  m.stack[k].at = "child" /\ Parent(m.stack[k + 1].path) = m.stack[k].path
      <3>1. CASE k = n
        BY <1>8, <3>1
      <3>2. CASE k \in 1..(n - 1)
        BY <1>2, <1>6, <3>2 DEF Nested, n
      <3> QED BY <1>7, <3>1, <3>2
    <2>3. Len(m.stack) - 1 = n
      BY <1>5 DEF l
    <2> QED BY <2>1, <2>2, <2>3 DEF Nested
  <1>10. ASSUME NEW k \in 1..(n - 1) PROVE FrameOK(s, o, m, k)
    <2>1. m.stack[k] = y.stack[k] /\ m.stack[k + 1] = y.stack[k + 1]
      BY <1>2, <1>6
    <2>2. FrameOK(s, o, y, k)
      BY DEF n
    <2>3. k < Len(m.stack) /\ k < Len(y.stack) /\ k # Len(m.stack)
      BY <1>6 DEF n, l
    <2> QED BY <2>1, <2>2, <2>3 DEF FrameOK
  <1>11. FrameOK(s, o, m, n)
    <2>1. n < Len(m.stack) /\ n # Len(m.stack) /\ "child" # "unlink"
      BY <1>5 DEF l
    <2>2. AtIn(s, m.stack[n].path) = d /\ Base(m.stack[n + 1].path) = Base(q)
      BY <1>8
    <2>3. n > 1 => d = 0 \/ s.kind[d] = "dir"
      BY DEF n
    <2> QED BY <1>8, <2>1, <2>2, <2>3 DEF FrameOK
  <1>12. FrameOK(s, o, m, l)
    <2>1. TopOK(s, o, m)
      BY <1>1, <1>2 DEF TopOK
    <2> QED BY <1>2, <2>1, TopFrame DEF l
  <1>13. ASSUME NEW k \in 1..l PROVE FrameOK(s, o, m, k)
    <2>1. k = l \/ k = n \/ k \in 1..(n - 1)
      BY <1>2, <1>3
    <2> QED BY <1>10, <1>11, <1>12, <2>1
  <1>14. CallOK(s, o, m)
    <2>1. m.res # "ok"
      BY <1>4, Zenon DEF Runs
    <2> QED BY <1>9, <1>13, <2>1 DEF CallOK, l
  <1>15. ASSUME Waiting(s, o, y), d # 0, Whole(o[d], Base(q), Top(y).todo) PROVE Waiting(s, o, m)
    <2> DEFINE Is(k) == LET e == AtIn(s, m.stack[k].path) IN
                        e # 0 /\ Whole(o[e], Base(m.stack[k + 1].path), m.stack[k].todo)
    <2>1. Is(n)
      BY <1>8, <1>15
    <2>2. ASSUME NEW k \in 1..(n - 1) PROVE Is(k)
      <3>1. m.stack[k] = y.stack[k] /\ m.stack[k + 1] = y.stack[k + 1] /\ k \in 1..(Len(y.stack) - 1)
        BY <1>2, <1>6 DEF n
      <3> QED BY <1>15, <3>1 DEF Waiting
    <2> HIDE DEF Is
    <2>3. \A k \in 1..n : Is(k)
      BY <1>7, <2>1, <2>2
    <2>4. Len(m.stack) - 1 = n
      BY <1>5 DEF l
    <2> QED BY <2>3, <2>4 DEF Waiting, Is
  <1> QED BY <1>2, <1>4, <1>14, <1>15 DEF m

\* The next child of the last frame, and the frame without it.
NextPath(x) == Append(Top(x).path, Head(Top(x).todo).name)

NextFrame(x) == [Top(x) EXCEPT !.todo = Tail(@)]

LEMMA NextIs ==
  ASSUME TreeInv, NEW x, Call(x), IsAt(x, "child"), Top(x).todo # <<>>
  PROVE  LET q == NextPath(x)
             g == NextFrame(x)
             c == Base(q)
             d == AtIn(fs, Top(x).path) IN
         /\ g \in FrameType /\ g.at = "child" /\ g.path = Top(x).path
         /\ q \in Paths /\ Parent(q) = Top(x).path
         /\ ListedOK(fs, d, g.todo) /\ NotIn(c, g.todo)
         /\ Len(x.stack) > 1 => d = 0 \/ fs.kind[d] = "dir"
         /\ d # 0 => Rest(order[d], g.todo) \/ Whole(order[d], c, g.todo)
         /\ AtIn(fs, q) # 0 => /\ d # 0 /\ Waiting(fs, order, x) /\ Whole(order[d], c, g.todo)
                               /\ fs.kind[AtIn(fs, q)] = Head(Top(x).todo).ft
         /\ Fresh(fs, order, x) => AtIn(fs, q) # 0
  <1> DEFINE f == Top(x)
             q == NextPath(x)
             g == NextFrame(x)
             c == f.todo[1].name
             d == AtIn(fs, f.path)
             b == Len(f.todo)
  <1>1. /\ f \in FrameType /\ TopOK(fs, order, x) /\ Basic(fs) /\ Types(fs)
        /\ d # 0 => /\ d \in Inos /\ Waiting(fs, order, x)
                    /\ fs.kind[d] = "dir" => /\ order[d] \in Seq(Names)
                                             /\ Enumerates(order[d], DOMAIN fs.ents[d])
    BY CallIs
  <1>2. f.path \in Seq(Names) /\ f.todo \in Seq(Child) /\ f.at = "child"
    BY <1>1, TodoIs DEF IsAt
  <1>3. /\ Tail(f.todo) \in Seq(Child) /\ b \in Nat /\ b >= 1 /\ Head(f.todo) = f.todo[1]
        /\ Len(Tail(f.todo)) = b - 1 /\ \A j \in 1..(b - 1) : Tail(f.todo)[j] = f.todo[j + 1]
    BY <1>2, TailIs
  <1>4. g \in FrameType /\ g.at = f.at /\ g.path = f.path /\ g.todo = Tail(f.todo)
    <2>1. f \in FrameType /\ Tail(f.todo) \in Seq(Child)
      BY <1>1, <1>3
    <2> QED BY <2>1 DEF NextFrame, FrameType, Todos, Child
  <1>5. q \in Paths /\ Parent(q) = f.path /\ Base(q) = c
    <2>1. c \in Names
      BY <1>1, TodoIs
    <2>2. q = Append(f.path, c)
      BY <1>3 DEF NextPath
    <2> HIDE DEF c
    <2> QED BY <1>2, <2>1, <2>2, ChildPath
  <1>6. /\ ListedOK(fs, d, f.todo) /\ (d # 0 => Rest(order[d], f.todo))
        /\ Len(x.stack) > 1 => d = 0 \/ fs.kind[d] = "dir"
    BY <1>1, <1>2 DEF TopOK
  <1> HIDE DEF f, q, g, d, b
  <1>7. Once(g.todo) /\ NotIn(c, g.todo)
    BY <1>2, <1>4, <1>6, OnceTail DEF ListedOK, f
  <1>8. d # 0 => fs.kind[d] = "dir" /\ TypesKept(fs, d, f.todo) /\ order[d] \in Seq(Names)
                  /\ Enumerates(order[d], DOMAIN fs.ents[d])
    BY <1>1, <1>6 DEF ListedOK
  <1>9. ListedOK(fs, d, g.todo)
    <2>1. \A j \in 1..(b - 1) : j + 1 \in 1..b
      BY <1>3
    <2>2. \A j \in 1..Len(g.todo) : \E k \in 1..Len(f.todo) : g.todo[j] = f.todo[k]
      BY <1>3, <1>4, <2>1 DEF b
    <2>3. TypesKept(fs, d, f.todo) => TypesKept(fs, d, g.todo)
      BY <2>2 DEF TypesKept
    <2> QED BY <1>7, <1>8, <2>3 DEF ListedOK
  <1>10. d # 0 => Rest(order[d], g.todo) \/ Whole(order[d], c, g.todo)
    BY <1>2, <1>4, <1>6, <1>8, RestTail DEF f
  <1>11. ASSUME AtIn(fs, q) # 0
         PROVE  /\ d # 0 /\ Waiting(fs, order, x) /\ Whole(order[d], c, g.todo)
                /\ fs.kind[AtIn(fs, q)] = f.todo[1].ft
    <2>1. d # 0 /\ c \in DOMAIN fs.ents[d] /\ fs.kind[AtIn(fs, q)] = fs.ents[d][c].ft
      BY <1>1, <1>5, <1>11, AtEntry DEF d
    <2>2. 1 \in 1..Len(f.todo)
      BY <1>3 DEF b
    <2>3. fs.ents[d][c].ft = f.todo[1].ft
      BY <1>8, <2>1, <2>2 DEF TypesKept
    <2>4. \E j \in 1..Len(order[d]) : order[d][j] = c
      BY <1>8, <2>1, EnumeratesAt
    <2>5. g.todo \in Seq(Child)
      BY <1>3, <1>4
    <2>6. Whole(order[d], c, g.todo)
      BY <1>7, <1>8, <1>10, <2>1, <2>4, <2>5, WholeBy
    <2> QED BY <1>1, <2>1, <2>3, <2>6
  <1>12. ASSUME Fresh(fs, order, x) PROVE AtIn(fs, q) # 0
    <2>1. d # 0 /\ Same(order[d], f.todo)
      BY <1>2, <1>12 DEF Fresh, f, d
    <2>2. 1 \in 1..Len(order[d]) /\ order[d][1] = c
      BY <1>3, <2>1 DEF Same, b
    <2>3. c \in DOMAIN fs.ents[d]
      BY <1>8, <2>1, <2>2, EnumeratesAt
    <2>4. AtIn(fs, q) = fs.ents[d][c].ino
      BY <1>1, <1>5, <2>1, <2>3, AtLast DEF EntryOf, d
    <2>5. fs.ents[d][c].ino \in Inos
      BY <1>1, <2>1, <2>3, EntsAt
    <2>6. 0 \notin Inos
      BY DEF Inos
    <2> QED BY <2>4, <2>5, <2>6
  <1> QED BY <1>2, <1>3, <1>4, <1>5, <1>6, <1>7, <1>9, <1>10, <1>11, <1>12 DEF f, q, g, d

\* A child that is a directory is a call of its own.
LEMMA ChildDir ==
  ASSUME TreeInv, NEW x, Call(x), IsAt(x, "child"), Top(x).todo # <<>>,
         Head(Top(x).todo).ft = "dir"
  PROVE  Advances(x, [SetTop(x, NextFrame(x)) EXCEPT !.stack = Append(@, Frame(NextPath(x)))])
  <1> DEFINE g == NextFrame(x)
             q == NextPath(x)
             y == SetTop(x, g)
             m == [y EXCEPT !.stack = Append(@, Frame(q))]
             d == AtIn(fs, Top(x).path)
  <1>1. IsThread(x) /\ CallOK(fs, order, x) /\ Runs(x)
    BY DEF Call
  <1>2. /\ g \in FrameType /\ g.at = "child" /\ g.path = Top(x).path
        /\ q \in Paths /\ Parent(q) = Top(x).path
        /\ ListedOK(fs, d, g.todo) /\ NotIn(Base(q), g.todo)
        /\ Len(x.stack) > 1 => d = 0 \/ fs.kind[d] = "dir"
        /\ d # 0 => Rest(order[d], g.todo) \/ Whole(order[d], Base(q), g.todo)
        /\ AtIn(fs, q) # 0 => /\ d # 0 /\ Waiting(fs, order, x) /\ Whole(order[d], Base(q), g.todo)
                              /\ fs.kind[AtIn(fs, q)] = "dir"
        /\ Fresh(fs, order, x) => AtIn(fs, q) # 0
    BY NextIs
  <1> HIDE DEF g, q
  <1>3. /\ Nested(y) /\ Runs(y) /\ Top(y) = g /\ IsThread(y) /\ Len(y.stack) = Len(x.stack)
        /\ \A k \in 1..(Len(y.stack) - 1) : FrameOK(fs, order, y, k)
        /\ Waiting(fs, order, x) => Waiting(fs, order, y)
    BY <1>1, <1>2, SetTopKeeps
  <1> HIDE DEF y
  <1>4. IsAt(y, "child") /\ d = AtIn(fs, Top(y).path)
    BY <1>2, <1>3 DEF IsAt
  <1>5. /\ Len(y.stack) > 1 => d = 0 \/ fs.kind[d] = "dir"
        /\ AtIn(fs, q) = 0 \/ fs.kind[AtIn(fs, q)] = "dir"
    BY <1>2, <1>3
  <1> HIDE DEF d
  <1>6. /\ CallOK(fs, order, m) /\ Runs(m) /\ Top(m) = Frame(q)
        /\ Waiting(fs, order, y) /\ d # 0 /\ Whole(order[d], Base(q), g.todo) => Waiting(fs, order, m)
    <2>1. /\ IsThread(y) /\ Nested(y) /\ Runs(y) /\ q \in Paths
          /\ \A k \in 1..(Len(y.stack) - 1) : FrameOK(fs, order, y, k)
      BY <1>2, <1>3
    <2>2. /\ Parent(q) = Top(y).path /\ ListedOK(fs, d, Top(y).todo)
          /\ NotIn(Base(q), Top(y).todo) /\ Top(y) = g
          /\ d # 0 => Rest(order[d], Top(y).todo) \/ Whole(order[d], Base(q), Top(y).todo)
      BY <1>2, <1>3
    <2>3. /\ CallOK(fs, order, m) /\ Runs(m) /\ Top(m) = Frame(q)
          /\ Waiting(fs, order, y) /\ d # 0 /\ Whole(order[d], Base(q), Top(y).todo)
             => Waiting(fs, order, m)
      <3>1. Descends(fs, order, y, q, d)
        BY <2>1, <2>2, <1>4, <1>5 DEF Descends
      <3> QED BY <3>1, PushKeeps
    <2> HIDE DEF m
    <2> QED BY <2>2, <2>3
  <1>7. Frame(q).path = q /\ Frame(q).at = "lstat"
    BY <1>2, FrameIs
  <1> HIDE DEF m
  <1>8. Fresh(fs, order, x) => Fresh(fs, order, m)
    BY <1>2, <1>3, <1>6, <1>7 DEF Fresh
  <1> QED BY <1>6, <1>8 DEF Advances, m, y, g, q

LEMMA ChildFails ==
  ASSUME TreeInv, NEW x, Call(x), IsAt(x, "child"), Top(x).todo # <<>>,
         Head(Top(x).todo).ft # "dir", NEW res, IsError(res),
         ~ (At(NextPath(x)) # 0 /\ fs.kind[At(NextPath(x))] = "file")
  PROVE  Advances(x, Back(x, res))
  <1> DEFINE q == NextPath(x)
  <1>1. /\ q \in Paths /\ (Fresh(fs, order, x) => AtIn(fs, q) # 0)
        /\ AtIn(fs, q) # 0 => fs.kind[AtIn(fs, q)] = Head(Top(x).todo).ft
    BY NextIs
  <1>2. AtIn(fs, q) # 0 => fs.kind[AtIn(fs, q)] \in {"file", "dir"}
    BY <1>1, AtEntry DEF TreeInv, Inv
  <1>3. ~ Fresh(fs, order, x)
    BY <1>1, <1>2, AtIs
  <1> QED BY <1>3, FailAdvances

\* remove_file and remove_dir fail for a call that is not fresh only.
LEMMA FileFails ==
  ASSUME TreeInv, NEW x, Call(x), IsAt(x, "unlink"), NEW res, IsError(res),
         ~ (At(Top(x).path) # 0 /\ fs.kind[At(Top(x).path)] = "file")
  PROVE  Advances(x, Back(x, res))
  <1>1. ~ Fresh(fs, order, x)
    BY AtIs DEF Fresh, IsAt
  <1> QED BY <1>1, FailAdvances

LEMMA DirFails ==
  ASSUME TreeInv, NEW x, Call(x), IsAt(x, "child"), Top(x).todo = <<>>, NEW res, IsError(res),
         ~ (IsDirAt(Top(x).path) /\ IsEmptyDir(fs, At(Top(x).path)))
  PROVE  Advances(x, Back(x, res))
  <1> DEFINE d == AtIn(fs, Top(x).path)
  <1>1. /\ At(Top(x).path) = d /\ (IsDirAt(Top(x).path) <=> d # 0 /\ fs.kind[d] = "dir")
        /\ TopOK(fs, order, x)
        /\ d # 0 /\ fs.kind[d] = "dir" =>
             order[d] \in Seq(Names) /\ Enumerates(order[d], DOMAIN fs.ents[d])
    BY CallIs
  <1>2. ASSUME Fresh(fs, order, x) PROVE FALSE
    <2>1. d # 0 /\ Same(order[d], Top(x).todo)
      BY <1>2 DEF Fresh, IsAt
    <2>2. fs.kind[d] = "dir"
      BY <1>1, <2>1 DEF TopOK, ListedOK, IsAt
    <2>3. Len(order[d]) = 0
      BY <2>1 DEF Same
    <2>4. DOMAIN fs.ents[d] = {}
      BY <1>1, <2>1, <2>2, <2>3, EnumeratesAt
    <2> QED BY <1>1, <2>1, <2>2, <2>4 DEF IsEmptyDir
  <1> QED BY <1>2, FailAdvances

-----------------------------------------------------------------------------
(* The steps that remove. *)

\* The call x removes the entry at q and comes to m, which is fresh or done.
Removal(x, m, q) ==
  /\ q \in Paths /\ RemovedAt(q)
  /\ q = x.path \/ order[At(Parent(q))][1] = Base(q)
  /\ CallOK(fs', order', m)
  /\ m.res = "ok" \/ (Runs(m) /\ Fresh(fs', order', m))

LEMMA CallBy ==
  ASSUME NEW s, NEW o, NEW m, Nested(m), Runs(m), \A k \in 1..Len(m.stack) : FrameOK(s, o, m, k)
  PROVE  CallOK(s, o, m)
  <1>1. m.res # "ok"
    BY Zenon DEF Runs
  <1> QED BY <1>1 DEF CallOK

LEMMA ChildFile ==
  ASSUME TreeInv, NEW x, Call(x), IsAt(x, "child"), Top(x).todo # <<>>,
         At(NextPath(x)) # 0, DOMAIN fs.ents[At(NextPath(x))] = {}, Removes(NextPath(x))
  PROVE  Removal(x, SetTop(x, NextFrame(x)), NextPath(x))
  <1> DEFINE g == NextFrame(x)
             q == NextPath(x)
             m == SetTop(x, g)
             d == AtIn(fs, Top(x).path)
  <1>1. IsThread(x) /\ CallOK(fs, order, x) /\ Runs(x)
    BY DEF Call
  <1>2. /\ g \in FrameType /\ g.at = "child" /\ g.path = Top(x).path
        /\ q \in Paths /\ Parent(q) = Top(x).path /\ ListedOK(fs, d, g.todo)
        /\ AtIn(fs, q) # 0 => Waiting(fs, order, x) /\ Whole(order[d], Base(q), g.todo)
    BY NextIs
  <1>3. AtIn(fs, q) # 0 /\ At(Parent(q)) = d
    BY <1>2, AtIs
  <1> HIDE DEF g
  <1>4. Ordered(fs', order') /\ RemovedAt(q)
    BY <1>2, RemovesIs
  <1> HIDE DEF q, d
  <1>5. /\ Nested(m) /\ Runs(m) /\ Top(m) = g /\ IsThread(m)
        /\ \A k \in 1..(Len(m.stack) - 1) : FrameOK(fs, order, m, k)
        /\ Waiting(fs, order, x) => Waiting(fs, order, m)
    BY <1>1, <1>2, SetTopKeeps
  <1> HIDE DEF m
  <1>6. /\ order[At(Parent(q))][1] = Base(q) /\ Fresh(fs', order', m)
        /\ \A k \in 1..Len(m.stack) : FrameOK(fs', order', m, k)
    BY <1>2, <1>3, <1>4, <1>5, RemoverFresh
  <1>7. CallOK(fs', order', m)
    BY <1>5, <1>6, CallBy
  <1> QED BY <1>2, <1>4, <1>5, <1>6, <1>7 DEF Removal, q, m, g

\* The directory of an inner call is the child its caller waits for.
LEMMA InnerDir ==
  ASSUME TreeInv, NEW x, Call(x), Len(x.stack) # 1,
         At(Top(x).path) # 0, DOMAIN fs.ents[At(Top(x).path)] = {}, Removes(Top(x).path)
  PROVE  Removal(x, Back(x, "ok"), Top(x).path)
  <1> DEFINE q == Top(x).path
             m == Back(x, "ok")
             d == AtIn(fs, Top(m).path)
             n == Len(m.stack)
  <1>1. /\ IsThread(x) /\ CallOK(fs, order, x) /\ Runs(x) /\ q \in Paths /\ AtIn(fs, q) # 0
        /\ Waiting(fs, order, x) /\ Len(x.stack) > 1
    BY CallIs
  <1>2. /\ Nested(m) /\ Runs(m) /\ IsThread(m) /\ n \in Nat /\ n >= 1
        /\ Len(x.stack) = n + 1 /\ Top(m) = x.stack[n] /\ Top(m).at = "child"
        /\ Parent(q) = Top(m).path /\ ListedOK(fs, d, Top(m).todo)
        /\ \A k \in 1..(n - 1) : FrameOK(fs, order, m, k)
        /\ Waiting(fs, order, x) => Waiting(fs, order, m)
    BY <1>1, PopKeeps
  <1>3. Ordered(fs', order') /\ RemovedAt(q)
    BY <1>1, RemovesIs
  <1>4. At(Parent(q)) = d
    BY <1>2, AtIs
  <1>5. x.stack[n + 1] = Top(x)
    BY <1>1, <1>2, TopIs
  <1>6. n \in 1..(Len(x.stack) - 1)
    <2> HIDE DEF n
    <2> QED BY <1>2
  <1>7. Whole(order[d], Base(q), Top(m).todo)
    BY <1>1, <1>2, <1>5, <1>6 DEF Waiting
  <1> HIDE DEF m, q, d
  <1>8. /\ order[At(Parent(q))][1] = Base(q) /\ Fresh(fs', order', m)
        /\ \A k \in 1..Len(m.stack) : FrameOK(fs', order', m, k)
    BY <1>1, <1>2, <1>3, <1>4, <1>7, RemoverFresh
  <1>9. CallOK(fs', order', m)
    BY <1>2, <1>8, CallBy
  <1> QED BY <1>1, <1>2, <1>3, <1>8, <1>9 DEF Removal, q, m

\* The last step of a call removes its path.
LEMMA OuterRemove ==
  ASSUME TreeInv, NEW x, Call(x), Len(x.stack) = 1,
         At(Top(x).path) # 0, DOMAIN fs.ents[At(Top(x).path)] = {}, Removes(Top(x).path)
  PROVE  Removal(x, Back(x, "ok"), Top(x).path)
  <1> DEFINE q == Top(x).path
             m == Back(x, "ok")
  <1>1. /\ IsThread(x) /\ Nested(x) /\ q \in Paths /\ q = x.path /\ ~ (Len(x.stack) > 1)
    BY CallIs
  <1>2. RemovedAt(q)
    BY <1>1, RemovesIs
  <1>3. AtIn(fs', q) = 0
    BY <1>1, <1>2, AtGone DEF RemovedAt
  <1>4. m.path = x.path /\ m.res = "ok" /\ m.stack = x.stack
    BY <1>1, BackIs
  <1> HIDE DEF m, q
  <1>5. Nested(m)
    BY <1>1, <1>4 DEF Nested
  <1>6. CallOK(fs', order', m)
    <2>1. ~ Runs(m)
      BY <1>4, Zenon DEF Runs
    <2> QED BY <1>1, <1>3, <1>4, <1>5, <2>1 DEF CallOK
  <1> QED BY <1>1, <1>2, <1>4, <1>6 DEF Removal, q, m

\* A step of remove_dir_all reads and advances, or removes.
LEMMA RemoverStep ==
  ASSUME TreeInv, NEW t \in Threads, Call(th[t]),
         RemoveLstat(t) \/ RemoveList(t) \/ RemoveChild(t) \/ RemoveFile(t) \/ RemoveDir(t)
  PROVE  \E m : Goes(t, m) /\ ((Reads /\ Advances(th[t], m)) \/ \E q : Removal(th[t], m, q))
  <1> DEFINE x == th[t]
             p == Top(x).path
             Good(m) == (Reads /\ Advances(x, m)) \/ \E q : Removal(x, m, q)
  <1>1. /\ At(p) = AtIn(fs, p) /\ p \in Paths /\ p \in Seq(Names) /\ TopOK(fs, order, x)
    BY CallIs
  <1>2. IsError("EISDIR") /\ IsError("ENOTDIR") /\ IsError("ENOTEMPTY") /\ IsError(WalkError(p))
    BY WalkErrorIs, Zenon DEF IsError
  <1>3. ASSUME At(p) # 0, DOMAIN fs.ents[At(p)] = {}, Removes(p) PROVE Good(Back(x, "ok"))
    BY <1>3, InnerDir, OuterRemove
  <1> HIDE DEF x, p
  <1>4. CASE RemoveLstat(t)
    <2> DEFINE ok == Back(x, "ok")
               er == Back(x, WalkError(p))
               ls == SetTop(x, [Top(x) EXCEPT !.at = "list"])
               un == SetTop(x, [Top(x) EXCEPT !.at = "unlink"])
               no == WalkError(p) = "ENOENT"
               m == CASE At(p) = 0 /\ no -> ok
                      [] At(p) = 0 /\ ~ no -> er
                      [] IsDirAt(p) -> ls
                      [] OTHER -> un
    <2>1. Goes(t, m) /\ Reads /\ IsAt(x, "lstat")
      BY <1>4, Zenon DEF RemoveLstat, Removing, IsAt, x, p
    <2>2. /\ At(p) = 0 /\ no => Advances(x, ok)
          /\ At(p) = 0 /\ ~ no => Advances(x, er)
          /\ IsDirAt(p) => Advances(x, ls)
          /\ At(p) # 0 /\ ~ IsDirAt(p) => Advances(x, un)
      BY <2>1, LstatGone, LstatFails, LstatDir, LstatFile DEF x, p
    <2>3. IsDirAt(p) => At(p) # 0
      BY DEF IsDirAt
    <2> HIDE DEF ok, er, ls, un, no
    <2>4. Advances(x, m)
      BY <2>2, <2>3
    <2> QED BY <2>1, <2>4 DEF x
  <1>5. CASE RemoveList(t)
    <2> DEFINE l == SetTop(x, [Top(x) EXCEPT !.at = "child", !.todo = Listing(At(p))])
               m == CASE IsDirAt(p) -> l
                      [] ~ IsDirAt(p) /\ At(p) # 0 -> Back(x, "ENOTDIR")
                      [] OTHER -> Back(x, WalkError(p))
    <2>1. Goes(t, m) /\ Reads /\ IsAt(x, "list")
      BY <1>5, Zenon DEF RemoveList, Removing, IsAt, x, p
    <2>2. CASE IsDirAt(p)
      <3>1. Advances(x, l)
        BY <2>2, ListDir DEF x, p
      <3>2. m = l
        BY <2>2
      <3> HIDE DEF l, m
      <3> QED BY <2>1, <3>1, <3>2 DEF x
    <2>3. CASE ~ IsDirAt(p)
      <3>1. Advances(x, Back(x, "ENOTDIR")) /\ Advances(x, Back(x, WalkError(p)))
        BY <1>2, <2>1, <2>3, ListFails DEF x, p
      <3>2. m = Back(x, "ENOTDIR") \/ m = Back(x, WalkError(p))
        BY <2>3
      <3> HIDE DEF l, m
      <3> QED BY <2>1, <3>1, <3>2 DEF x
    <2> QED BY <2>2, <2>3
  <1>6. CASE RemoveChild(t)
    <2> DEFINE q == NextPath(x)
               g == NextFrame(x)
               e == Back(x, IF At(q) # 0 THEN "EISDIR" ELSE WalkError(q))
    <2>1. IsAt(x, "child") /\ Top(x).todo # <<>>
      BY <1>6, Zenon DEF RemoveChild, Removing, IsAt, x
    <2>2. \/ /\ Head(Top(x).todo).ft = "dir"
             /\ Goes(t, [SetTop(x, g) EXCEPT !.stack = Append(@, Frame(q))]) /\ Reads
          \/ At(q) # 0 /\ fs.kind[At(q)] = "file" /\ Goes(t, SetTop(x, g)) /\ Removes(q)
          \/ /\ Head(Top(x).todo).ft # "dir" /\ ~ (At(q) # 0 /\ fs.kind[At(q)] = "file")
             /\ Goes(t, e) /\ Reads
      BY <1>6, Zenon DEF RemoveChild, NextPath, NextFrame, x
    <2>3. CASE /\ Head(Top(x).todo).ft = "dir"
               /\ Goes(t, [SetTop(x, g) EXCEPT !.stack = Append(@, Frame(q))]) /\ Reads
      <3>1. Advances(x, [SetTop(x, g) EXCEPT !.stack = Append(@, Frame(q))])
        BY <2>1, <2>3, ChildDir DEF x
      <3> HIDE DEF q, g
      <3> QED BY <2>3, <3>1, Zenon DEF x
    <2>4. CASE At(q) # 0 /\ fs.kind[At(q)] = "file" /\ Goes(t, SetTop(x, g)) /\ Removes(q)
      <3>1. q \in Seq(Names)
        BY <2>1, NextIs DEF x, Paths
      <3>2. DOMAIN fs.ents[At(q)] = {}
        BY <2>4, <3>1, FileEmpty
      <3>3. Removal(x, SetTop(x, g), q)
        BY <2>1, <2>4, <3>2, ChildFile DEF x
      <3> HIDE DEF q, g
      <3> QED BY <2>4, <3>3 DEF x
    <2>5. CASE /\ Head(Top(x).todo).ft # "dir" /\ ~ (At(q) # 0 /\ fs.kind[At(q)] = "file")
               /\ Goes(t, e) /\ Reads
      <3> DEFINE r == IF At(q) # 0 THEN "EISDIR" ELSE WalkError(q)
      <3>1. IsError(r)
        BY <1>2, WalkErrorIs
      <3> HIDE DEF r
      <3>2. Advances(x, Back(x, r))
        BY <2>1, <2>5, <3>1, ChildFails DEF x
      <3> QED BY <2>5, <3>2 DEF x, r
    <2> QED BY <2>2, <2>3, <2>4, <2>5, Zenon
  <1>7. CASE RemoveFile(t)
    <2> DEFINE r == IF At(p) # 0 THEN "EISDIR" ELSE WalkError(p)
    <2>1. IsAt(x, "unlink")
      BY <1>7, Zenon DEF RemoveFile, Removing, IsAt, x
    <2>2. \/ At(p) # 0 /\ fs.kind[At(p)] = "file" /\ Goes(t, Back(x, "ok")) /\ Removes(p)
          \/ ~ (At(p) # 0 /\ fs.kind[At(p)] = "file") /\ Goes(t, Back(x, r)) /\ Reads
      BY <1>7, Zenon DEF RemoveFile, x, p
    <2>3. IsError(r)
      BY <1>2
    <2> HIDE DEF r
    <2>4. CASE At(p) # 0 /\ fs.kind[At(p)] = "file" /\ Goes(t, Back(x, "ok")) /\ Removes(p)
      <3>1. DOMAIN fs.ents[At(p)] = {}
        BY <1>1, <2>4, FileEmpty
      <3> QED BY <1>3, <2>4, <3>1 DEF x
    <2>5. CASE ~ (At(p) # 0 /\ fs.kind[At(p)] = "file") /\ Goes(t, Back(x, r)) /\ Reads
      <3>1. Advances(x, Back(x, r))
        BY <2>1, <2>3, <2>5, FileFails DEF x, p
      <3> QED BY <2>5, <3>1 DEF x
    <2> QED BY <2>2, <2>4, <2>5, Zenon
  <1>8. CASE RemoveDir(t)
    <2> DEFINE r == CASE At(p) = 0 -> WalkError(p)
                      [] IsDirAt(p) -> "ENOTEMPTY"
                      [] OTHER -> "ENOTDIR"
    <2>1. IsAt(x, "child") /\ Top(x).todo = <<>>
      BY <1>8, Zenon DEF RemoveDir, Removing, IsAt, x
    <2>2. \/ IsDirAt(p) /\ IsEmptyDir(fs, At(p)) /\ Goes(t, Back(x, "ok")) /\ Removes(p)
          \/ ~ (IsDirAt(p) /\ IsEmptyDir(fs, At(p))) /\ Goes(t, Back(x, r)) /\ Reads
      BY <1>8, Zenon DEF RemoveDir, x, p
    <2>3. IsError(r)
      BY <1>2 DEF IsDirAt
    <2> HIDE DEF r
    <2>4. CASE IsDirAt(p) /\ IsEmptyDir(fs, At(p)) /\ Goes(t, Back(x, "ok")) /\ Removes(p)
      <3>1. At(p) # 0 /\ DOMAIN fs.ents[At(p)] = {}
        BY <2>4 DEF IsDirAt, IsEmptyDir
      <3> QED BY <1>3, <2>4, <3>1 DEF x
    <2>5. CASE ~ (IsDirAt(p) /\ IsEmptyDir(fs, At(p))) /\ Goes(t, Back(x, r)) /\ Reads
      <3>1. Advances(x, Back(x, r))
        BY <2>1, <2>3, <2>5, DirFails DEF x, p
      <3> QED BY <2>5, <3>1 DEF x
    <2> QED BY <2>2, <2>4, <2>5, Zenon
  <1> QED BY <1>4, <1>5, <1>6, <1>7, <1>8

LEMMA RemoveInvStep ==
  ASSUME TreeInv, RemoveInv, NEW t \in Threads, Step(t), CallsKept, TreeInv'
  PROVE  RemoveInv'
  <1> DEFINE Won(w) == th'[w].res = "ok" \/ (Runs(th'[w]) /\ Fresh(fs', order', th'[w]))
  <1> SUFFICES ASSUME OnePath', NEW u \in Threads
               PROVE  /\ CallOK(fs', order', th'[u])
                      /\ ClearIn(fs', Parent(th'[u].path)) => \E w \in Threads : Won(w)
    BY DEF RemoveInv
  <1>1. \A v \in Threads : th[v].op = "remove" /\ th'[v].path = th[v].path /\ th[v].path = th[t].path
    BY DEF OnePath, All, CallsKept
  <1>2. OnePath
    BY <1>1 DEF OnePath, All
  <1>3. RemoveLstat(t) \/ RemoveList(t) \/ RemoveChild(t) \/ RemoveFile(t) \/ RemoveDir(t)
    <2>1. th[t].op # "make"
      BY <1>1
    <2> QED BY <2>1, Zenon DEF Step, MakeDir, MakeStat
  <1>4. Runs(th[t])
    BY <1>3, Zenon DEF RemoveLstat, RemoveList, RemoveChild, RemoveFile, RemoveDir, Removing, Runs
  <1>5. /\ \A v \in Threads : CallOK(fs, order, th[v]) /\ IsThread(th[v])
        /\ ClearIn(fs, Parent(th[t].path)) =>
             \E w \in Threads : th[w].res = "ok" \/ (Runs(th[w]) /\ Fresh(fs, order, th[w]))
    BY <1>2 DEF RemoveInv, TreeInv
  <1>6. Call(th[t])
    BY <1>4, <1>5 DEF Call
  <1>7. PICK m : Goes(t, m) /\ ((Reads /\ Advances(th[t], m)) \/ \E q : Removal(th[t], m, q))
    BY <1>3, <1>6, RemoverStep
  <1>8. th'[t] = m /\ \A v \in Threads \ {t} : th'[v] = th[v]
    BY <1>7 DEF Goes, TreeInv
  <1>9. CASE Reads /\ Advances(th[t], m)
    <2>1. fs' = fs /\ order' = order
      BY <1>9 DEF Reads
    <2>2. CallOK(fs', order', th'[u])
      BY <1>5, <1>8, <1>9, <2>1 DEF Advances
    <2>3. ASSUME ClearIn(fs', Parent(th'[u].path)) PROVE \E w \in Threads : Won(w)
      <3>1. ClearIn(fs, Parent(th[t].path))
        BY <1>1, <2>1, <2>3
      <3>2. PICK w \in Threads : th[w].res = "ok" \/ (Runs(th[w]) /\ Fresh(fs, order, th[w]))
        BY <1>5, <3>1
      <3>3. CASE w = t
        <4>1. ~ (th[t].res = "ok")
          BY <1>4, Zenon DEF Runs
        <4>2. Fresh(fs, order, th[t])
          BY <3>2, <3>3, <4>1, Zenon
        <4>3. m.res = "ok" \/ (Runs(m) /\ Fresh(fs, order, m))
          BY <1>9, <3>1, <4>2 DEF Advances
        <4>4. Won(t)
          BY <1>8, <2>1, <4>3
        <4> QED BY <4>4
      <3>4. CASE w # t
        <4>1. th'[w] = th[w]
          BY <1>8, <3>4
        <4>2. Won(w)
          BY <2>1, <3>2, <4>1
        <4> QED BY <4>2
      <3> QED BY <3>3, <3>4
    <2> QED BY <2>2, <2>3
  <1>10. CASE \E q : Removal(th[t], m, q)
    <2>1. PICK q : Removal(th[t], m, q)
      BY <1>10
    <2>2. /\ q \in Paths /\ RemovedAt(q)
          /\ q = th[u].path \/ order[At(Parent(q))][1] = Base(q)
          /\ CallOK(fs', order', m)
          /\ m.res = "ok" \/ (Runs(m) /\ Fresh(fs', order', m))
      BY <1>1, <2>1 DEF Removal
    <2>3. Ordered(fs', order')
      BY DEF TreeInv
    <2>4. CallOK(fs', order', th'[u])
      <3>1. CASE u = t
        BY <1>8, <2>2, <3>1
      <3>2. CASE u # t
        <4>1. CallOK(fs', order', th[u])
          BY <1>5, <2>2, <2>3, CallKept
        <4>2. th'[u] = th[u]
          BY <1>8, <3>2
        <4> QED BY <4>1, <4>2
      <3> QED BY <3>1, <3>2
    <2>5. Won(t)
      BY <1>8, <2>2
    <2> HIDE DEF Won
    <2> QED BY <2>4, <2>5
  <1> QED BY <1>7, <1>9, <1>10

-----------------------------------------------------------------------------
(* The trees that the threads start with. *)

BuildBody(g, l, k) ==
  IF k = 0 THEN [fs |-> Mkfs, order |-> [d \in Inos |-> <<>>]]
  ELSE [fs    |-> CreateChild(g[k - 1].fs, l[k][1], l[k][2], l[k][3]),
        order |-> [g[k - 1].order EXCEPT ![l[k][1]] = Append(@, l[k][2])]]

IsBuild(g, l, n) == g = [k \in 0..n |-> BuildBody(g, l, k)]

BuildOf(l) == CHOOSE g : IsBuild(g, l, Len(l))

LEMMA BuiltIs == ASSUME NEW l PROVE Built(l) = BuildOf(l)[Len(l)]
  BY DEF Built, BuildOf, IsBuild, BuildBody

LEMMA BuildExists ==
  ASSUME NEW l, NEW n \in Nat
  PROVE  \E g : IsBuild(g, l, n)
  <1> DEFINE S == {k \in Nat : \E g : IsBuild(g, l, k)}
  <1>1. 0 \in S
    <2> DEFINE g == [k \in 0..0 |-> BuildBody(l, l, 0)]
    <2>1. \A k \in 0..0 : k = 0
      OBVIOUS
    <2>2. BuildBody(l, l, 0) = BuildBody(g, l, 0)
      BY DEF BuildBody
    <2>3. IsBuild(g, l, 0)
      BY <2>1, <2>2, Zenon DEF IsBuild
    <2> QED BY <2>3
  <1>2. ASSUME NEW k \in Nat, k \in S PROVE k + 1 \in S
    <2>1. PICK g : IsBuild(g, l, k)
      BY <1>2
    <2> DEFINE h == [j \in 0..(k + 1) |-> IF j <= k THEN g[j] ELSE BuildBody(g, l, k + 1)]
    <2>2. \A j \in 0..k : g[j] = BuildBody(g, l, j) /\ j \in 0..(k + 1) /\ j <= k
      BY <2>1 DEF IsBuild
    <2>3. \A j \in 0..k : h[j] = g[j]
      BY <2>2
    <2>4. h[k + 1] = BuildBody(g, l, k + 1)
      OBVIOUS
    <2>5. ASSUME NEW j \in 0..(k + 1) PROVE BuildBody(g, l, j) = BuildBody(h, l, j)
      <3>1. CASE j = 0
        BY <3>1 DEF BuildBody
      <3>2. CASE j # 0
        <4>1. j - 1 \in 0..k
          BY <3>2
        <4>2. g[j - 1] = h[j - 1]
          BY <2>3, <4>1
        <4> HIDE DEF h
        <4> QED BY <4>2 DEF BuildBody
      <3> QED BY <3>1, <3>2
    <2>6. ASSUME NEW j \in 0..(k + 1) PROVE h[j] = BuildBody(h, l, j)
      <3>1. j \in 0..k \/ j = k + 1
        OBVIOUS
      <3>2. h[j] = BuildBody(g, l, j)
        <4> HIDE DEF h
        <4> QED BY <2>2, <2>3, <2>4, <3>1
      <3> HIDE DEF h
      <3> QED BY <2>5, <3>2
    <2>7. h = [j \in 0..(k + 1) |-> h[j]]
      OBVIOUS
    <2> HIDE DEF h
    <2>8. IsBuild(h, l, k + 1)
      BY <2>6, <2>7 DEF IsBuild
    <2> QED BY <2>8
  <1> HIDE DEF S
  <1>3. Nat \subseteq S
    BY <1>1, <1>2, NatInduct
  <1> QED BY <1>3 DEF S

LEMMA BuildIs ==
  ASSUME NEW l, Len(l) \in Nat
  PROVE  \A k \in 0..Len(l) : BuildOf(l)[k] = BuildBody(BuildOf(l), l, k)
  <1> DEFINE b == BuildOf(l)
  <1>1. IsBuild(b, l, Len(l))
    BY BuildExists DEF BuildOf
  <1> HIDE DEF b
  <1>2. \A k \in 0..Len(l) : b[k] = BuildBody(b, l, k)
    BY <1>1 DEF IsBuild
  <1> QED BY <1>2 DEF b

\* create_child takes the next number while none was given back.
LEMMA CreateNumbers ==
  ASSUME NEW s, Types(s), s.free = <<>>, NEW p, NEW n, NEW k
  PROVE  LET d == CreateChild(s, p, n, k) IN
         /\ NextIno(s) = s.next /\ d.free = <<>> /\ d.next = s.next + 1
  <1> DEFINE i == NextIno(s)
             a == AllocInode(s, k)
             u == [a EXCEPT !.up[i] = p]
             b == IF k = "dir" THEN Inc(u, p) ELSE a
             d == DirInsert(b, p, n, i, k)
  <1>1. i = s.next
    BY DEF NextIno
  <1>2. IsEngine(a) /\ a.free = <<>> /\ a.next = s.next + 1
    BY DEF Types, IsEngine, AllocInode
  <1> HIDE DEF a
  <1>3. IsEngine(u) /\ u.free = <<>> /\ u.next = s.next + 1
    BY <1>2 DEF IsEngine
  <1> HIDE DEF u
  <1>4. IsEngine(b) /\ b.free = <<>> /\ b.next = s.next + 1
    BY <1>2, <1>3 DEF IsEngine, Inc
  <1> HIDE DEF b
  <1>5. d.free = <<>> /\ d.next = s.next + 1
    BY <1>4 DEF IsEngine, DirInsert
  <1> HIDE DEF d
  <1> QED BY <1>1, <1>5 DEF CreateChild, d, b, u, a

\* What the engine s and the lists o are after the first k creations of l.
BuiltOK(s, o, l, k) ==
  /\ Basic(s) /\ Orph(s) /\ s.free = <<>> /\ s.next = k + 2
  /\ s.opens = [i \in Inos |-> 0]
  /\ ROOT_INO \in Dirs(s) /\ \A j \in 1..k : l[j][3] = "dir" => j + 1 \in Dirs(s)
  /\ \A d \in Inos : \A n \in DOMAIN s.ents[d] : \E j \in 1..k : l[j][1] = d /\ l[j][2] = n
  /\ o \in [Inos -> Seq(Names)]
  /\ \A d \in Inos : Enumerates(o[d], DOMAIN s.ents[d])

LEMMA BuiltFirst ==
  ASSUME NEW l
  PROVE  BuiltOK(Mkfs, [d \in Inos |-> <<>>], l, 0)
  <1> DEFINE o == [d \in Inos |-> <<>>]
  <1>1. o \in [Inos -> Seq(Names)] /\ \A d \in Inos : o[d] = <<>>
    OBVIOUS
  <1>2. Enumerates(<<>>, {})
    <2>1. <<>> \in Seq({}) /\ DOMAIN <<>> = {}
      OBVIOUS
    <2> QED BY <2>1 DEF Enumerates, Range, IsInjective
  <1> HIDE DEF o
  <1>3. 1..0 = {} /\ 0 + 2 = 2
    OBVIOUS
  <1>4. BuiltOK(Mkfs, o, l, 0)
    BY <1>1, <1>2, <1>3, MkfsIs DEF BuiltOK
  <1> QED BY <1>4 DEF o

LEMMA BuiltNext ==
  ASSUME NEW l, Buildable(l), NEW k \in Nat, k + 1 <= Len(l), NEW s, NEW o, BuiltOK(s, o, l, k)
  PROVE  BuiltOK(CreateChild(s, l[k + 1][1], l[k + 1][2], l[k + 1][3]),
                 [o EXCEPT ![l[k + 1][1]] = Append(@, l[k + 1][2])], l, k + 1)
  <1> DEFINE p == l[k + 1][1]
             n == l[k + 1][2]
             t == l[k + 1][3]
             d == CreateChild(s, p, n, t)
             e == [o EXCEPT ![p] = Append(@, n)]
             i == NextIno(s)
  <1>1. /\ Len(l) \in Nat /\ k + 1 \in 1..Len(l) /\ DOMAIN l = 1..Len(l)
        /\ l[k + 1] \in Inos \X Names \X {"file", "dir"} /\ Len(l) < MaxIno
    <2>1. l \in Seq(Inos \X Names \X {"file", "dir"}) /\ Len(l) < MaxIno
      BY DEF Buildable
    <2>2. Len(l) \in Nat /\ DOMAIN l = 1..Len(l)
      BY <2>1, LenProperties
    <2>3. k + 1 \in 1..Len(l)
      BY <2>2
    <2> QED BY <2>1, <2>2, <2>3, ElementOfSeq
  <1>2. p \in Inos /\ n \in Names /\ t \in {"file", "dir"}
    BY <1>1
  <1>3. /\ Basic(s) /\ Orph(s) /\ s.free = <<>> /\ s.next = k + 2 /\ Types(s)
        /\ s.opens = [j \in Inos |-> 0]
        /\ ROOT_INO \in Dirs(s) /\ (\A j \in 1..k : l[j][3] = "dir" => j + 1 \in Dirs(s))
        /\ \A a \in Inos : \A m \in DOMAIN s.ents[a] : \E j \in 1..k : l[j][1] = a /\ l[j][2] = m
        /\ o \in [Inos -> Seq(Names)] /\ \A a \in Inos : Enumerates(o[a], DOMAIN s.ents[a])
    BY DEF BuiltOK, Basic
  <1>4. p \in Dirs(s)
    <2>1. p = ROOT_INO \/ \E j \in 1..((k + 1) - 1) : l[j][3] = "dir" /\ p = j + 1
      BY <1>1 DEF Buildable
    <2>2. (k + 1) - 1 = k
      OBVIOUS
    <2> HIDE DEF p
    <2> QED BY <1>3, <2>1, <2>2
  <1>5. n \notin DOMAIN s.ents[p]
    <2> SUFFICES ASSUME n \in DOMAIN s.ents[p] PROVE FALSE
      OBVIOUS
    <2> HIDE DEF p, n
    <2>1. PICK j \in 1..k : l[j][1] = p /\ l[j][2] = n
      BY <1>2, <1>3
    <2>2. j \in 1..Len(l) /\ j # k + 1
      BY <1>1
    <2>3. l[j][1] # p \/ l[j][2] # n
      BY <1>1, <2>2 DEF Buildable, p, n
    <2> QED BY <2>1, <2>3
  <1>6. i = k + 2 /\ d.free = <<>> /\ d.next = (k + 1) + 2 /\ i \in Inos
    <2>1. i = s.next /\ d.free = <<>> /\ d.next = s.next + 1
      BY <1>3, CreateNumbers
    <2>2. k + 2 \in Inos
      BY <1>1, NamespaceAssumption DEF Inos
    <2> QED BY <1>3, <2>1, <2>2
  <1>7. Created(s, d, p, n, i, t)
    BY <1>2, <1>3, <1>4, <1>5, <1>6, CreateChildIs DEF Has
  <1> HIDE DEF d, i, p, n, t
  <1>8. Basic(d) /\ Dirs(d) = Dirs(s) \cup NewDirs(i, t) /\ Orph(d)
    <2>1. i = NextIno(s)
      BY DEF i
    <2>2. Basic(s) /\ Orph(s) /\ p \in Dirs(s) /\ t \in {"file", "dir"} /\ i \in Inos
      BY <1>2, <1>3, <1>4, <1>6
    <2>3. Basic(d) /\ Dirs(d) = Dirs(s) \cup NewDirs(i, t)
      BY <1>7, <2>1, <2>2, CreatedBasic
    <2>4. Orph(d)
      BY <1>7, <2>1, <2>2, CreatedOrph
    <2> QED BY <2>3, <2>4
  <1>9. d.opens = [j \in Inos |-> 0] /\ Removed(d, s, p, n)
    BY <1>3, <1>7 DEF Created
  <1>10. ROOT_INO \in Dirs(d) /\ \A j \in 1..(k + 1) : l[j][3] = "dir" => j + 1 \in Dirs(d)
    <2>1. \A j \in 1..(k + 1) : j \in 1..k \/ (j = k + 1 /\ j + 1 = i)
      BY <1>6
    <2>2. t = "dir" => i \in Dirs(d)
      BY <1>8 DEF NewDirs
    <2> QED BY <1>3, <1>8, <2>1, <2>2 DEF t
  <1>11. DOMAIN d.ents[p] = DOMAIN s.ents[p] \cup {n} /\ \A a \in Inos \ {p} : DOMAIN d.ents[a] = DOMAIN s.ents[a]
    BY <1>9 DEF Removed
  <1>12. ASSUME NEW a \in Inos, NEW m \in DOMAIN d.ents[a]
         PROVE  \E j \in 1..(k + 1) : l[j][1] = a /\ l[j][2] = m
    <2>1. \A j \in 1..k : j \in 1..(k + 1)
      OBVIOUS
    <2>2. k + 1 \in 1..(k + 1)
      OBVIOUS
    <2>3. m \in DOMAIN s.ents[a] \/ (a = p /\ m = n)
      BY <1>11
    <2> QED BY <1>3, <2>1, <2>2, <2>3 DEF p, n
  <1>13. e \in [Inos -> Seq(Names)] /\ e[p] = Append(o[p], n) /\ \A a \in Inos \ {p} : e[a] = o[a]
    <2>1. Append(o[p], n) \in Seq(Names)
      BY <1>2, <1>3, AppendProperties
    <2> QED BY <1>2, <1>3, <2>1
  <1> HIDE DEF e
  <1>14. ASSUME NEW a \in Inos PROVE Enumerates(e[a], DOMAIN d.ents[a])
    <2>1. Enumerates(Append(o[p], n), DOMAIN s.ents[p] \cup {n})
      BY <1>2, <1>3, <1>5, EnumeratesAppend
    <2>2. CASE a = p
      BY <1>11, <1>13, <2>1, <2>2
    <2>3. CASE a # p
      BY <1>3, <1>11, <1>13, <2>3
    <2> QED BY <2>2, <2>3
  <1>15. BuiltOK(d, e, l, k + 1)
    BY <1>6, <1>8, <1>9, <1>10, <1>12, <1>13, <1>14 DEF BuiltOK
  <1> QED BY <1>15 DEF d, e, p, n, t

LEMMA BuiltHolds ==
  ASSUME NEW l, Buildable(l)
  PROVE  BuiltOK(Built(l).fs, Built(l).order, l, Len(l))
  <1> DEFINE b == BuildOf(l)
             n == Len(l)
             S == {k \in Nat : k <= n => BuiltOK(b[k].fs, b[k].order, l, k)}
  <1>1. n \in Nat
    BY LenProperties DEF Buildable
  <1>2. \A k \in 0..n : b[k] = BuildBody(b, l, k)
    BY <1>1, BuildIs
  <1> HIDE DEF b
  <1>3. 0 \in S
    <2>1. b[0] = BuildBody(b, l, 0)
      BY <1>1, <1>2
    <2>2. b[0].fs = Mkfs /\ b[0].order = [d \in Inos |-> <<>>]
      BY <2>1 DEF BuildBody
    <2> QED BY <2>2, BuiltFirst
  <1>4. ASSUME NEW k \in Nat, k \in S PROVE k + 1 \in S
    <2> SUFFICES ASSUME k + 1 <= n PROVE BuiltOK(b[k + 1].fs, b[k + 1].order, l, k + 1)
      OBVIOUS
    <2>1. BuiltOK(b[k].fs, b[k].order, l, k)
      BY <1>1, <1>4
    <2>2. b[k + 1] = BuildBody(b, l, k + 1) /\ (k + 1) - 1 = k /\ k + 1 # 0
      BY <1>1, <1>2
    <2>3. /\ b[k + 1].fs = CreateChild(b[k].fs, l[k + 1][1], l[k + 1][2], l[k + 1][3])
          /\ b[k + 1].order = [b[k].order EXCEPT ![l[k + 1][1]] = Append(@, l[k + 1][2])]
      BY <2>2 DEF BuildBody
    <2>4. k + 1 <= Len(l)
      OBVIOUS
    <2> DEFINE u == b[k].fs
               v == b[k].order
    <2> HIDE DEF S, n, u, v
    <2>5. BuiltOK(CreateChild(u, l[k + 1][1], l[k + 1][2], l[k + 1][3]),
                  [v EXCEPT ![l[k + 1][1]] = Append(@, l[k + 1][2])], l, k + 1)
      BY <2>1, <2>4, BuiltNext DEF u, v
    <2> QED BY <2>3, <2>5 DEF u, v
  <1> HIDE DEF S
  <1>5. Nat \subseteq S
    BY <1>3, <1>4, NatInduct
  <1>6. BuiltOK(b[n].fs, b[n].order, l, n)
    BY <1>1, <1>5 DEF S
  <1> QED BY <1>6, BuiltIs DEF b

LEMMA CallingIs ==
  ASSUME NEW op \in {"make", "remove"}, NEW p \in Paths
  PROVE  LET c == Calling(op, p) IN
         /\ IsThread(c) /\ c.op = op /\ c.path = p /\ c.level = 1 /\ c.at = "mkdir"
         /\ c.stack = <<Frame(p)>> /\ Runs(c)
  <1> DEFINE c == Calling(op, p)
             q == <<Frame(p)>>
  <1>1. \A l, a, k, r : LET x == [op |-> op, path |-> p, level |-> l, at |-> a, stack |-> k, res |-> r] IN
          /\ DOMAIN x = {"op", "path", "level", "at", "stack", "res"}
          /\ x.op = op /\ x.path = p /\ x.level = l /\ x.at = a /\ x.stack = k /\ x.res = r
    OBVIOUS
  <1>2. /\ DOMAIN c = {"op", "path", "level", "at", "stack", "res"}
        /\ c.op = op /\ c.path = p /\ c.level = 1 /\ c.at = "mkdir" /\ c.stack = q /\ c.res = ""
    BY <1>1, Zenon DEF Calling
  <1>3. Runs(c)
    BY <1>2, Zenon DEF Runs
  <1>4. /\ DOMAIN c = {"op", "path", "level", "at", "stack", "res"}
        /\ c.op = op /\ c.path = p /\ c.level = 1 /\ c.at = "mkdir" /\ c.stack = q
    BY <1>2, Zenon
  <1> HIDE DEF c
  <1>5. q \in Seq(FrameType) /\ q # <<>>
    <2>1. Frame(p) \in FrameType
      BY FrameIs
    <2> QED BY <2>1
  <1> HIDE DEF q
  <1>6. 1 \in 1..Len(p)
    BY ParentIs
  <1>7. IsThread(c)
    BY <1>4, <1>5, <1>6 DEF IsThread
  <1> QED BY <1>3, <1>4, <1>7 DEF c, q

\* A call that has not begun.
LEMMA CallingFresh ==
  ASSUME NEW s, NEW o, NEW op \in {"make", "remove"}, NEW p \in Paths
  PROVE  LET c == Calling(op, p) IN
         Making(s, c) /\ CallOK(s, o, c) /\ Fresh(s, o, c)
  <1> DEFINE c == Calling(op, p)
  <1>1. /\ IsThread(c) /\ c.op = op /\ c.path = p /\ c.level = 1 /\ c.at = "mkdir"
        /\ c.stack = <<Frame(p)>> /\ Runs(c)
    BY CallingIs
  <1> HIDE DEF c
  <1>2. /\ Len(c.stack) = 1 /\ c.stack[1] = Frame(p) /\ Top(c) = Frame(p)
        /\ Frame(p).path = p /\ Frame(p).at = "lstat"
    BY <1>1, FrameIs DEF Top
  <1>3. ~ (c.res # "") /\ c.res # "ok"
    BY <1>1, Zenon DEF Runs
  <1>4. 1..(c.level - 1) = {} /\ 1..(Len(c.stack) - 1) = {} /\ ~ (Len(c.stack) > 1) /\ 1..Len(c.stack) = {1}
    <2>1. 1..(1 - 1) = {} /\ ~ (1 > 1) /\ 1..1 = {1}
      OBVIOUS
    <2> QED BY <1>1, <1>2, <2>1
  <1>5. Making(s, c)
    <2>1. c.at # "stat"
      BY <1>1
    <2>2. \A k \in 1..(c.level - 1) : IsDirIn(s, SubSeq(c.path, 1, k))
      BY <1>4
    <2> QED BY <1>3, <2>1, <2>2, Zenon DEF Making
  <1>6. Nested(c)
    BY <1>1, <1>2, <1>4 DEF Nested
  <1>7. TopOK(s, o, c)
    BY <1>2, <1>4 DEF TopOK
  <1>8. FrameOK(s, o, c, 1)
    BY <1>1, <1>2, <1>7, TopFrame
  <1>9. CallOK(s, o, c)
    BY <1>1, <1>4, <1>6, <1>8, CallBy
  <1>10. Fresh(s, o, c)
    BY <1>2, <1>4 DEF Fresh, Waiting
  <1> QED BY <1>5, <1>9, <1>10 DEF c

LEMMA TreeInitInv == TreeInit => TreeInv /\ MakeInv /\ RemoveInv
  <1> SUFFICES ASSUME TreeInit PROVE TreeInv /\ MakeInv /\ RemoveInv
    OBVIOUS
  <1>1. PICK l \in Layouts : fs = Built(l).fs /\ order = Built(l).order
    BY DEF TreeInit
  <1>2. BuiltOK(fs, order, l, Len(l))
    BY <1>1, TreeOpsAssumption, BuiltHolds
  <1>3. Basic(fs) /\ Orph(fs) /\ fs.opens = [i \in Inos |-> 0] /\ Ordered(fs, order)
    BY <1>2 DEF BuiltOK, Ordered, Dirs
  <1>4. prog \in Program /\ handle = [h \in Handles |-> Closed]
    BY NamespaceAssumption DEF TreeInit
  <1>5. /\ handle \in [Handles -> HandleType] /\ (\A h \in Handles : handle[h].st = "closed")
        /\ Counted(fs.opens, handle) /\ KeptAt(fs, handle)
    BY <1>3, <1>4, ClosedCount
  <1>6. DOMAIN th = Threads /\ \A t \in Threads : \E op \in {"make", "remove"}, p \in Paths :
          th[t] = Calling(op, p)
    BY TreeOpsAssumption DEF TreeInit, Paths
  <1>7. ASSUME NEW t \in Threads
        PROVE  /\ IsThread(th[t]) /\ Runs(th[t]) /\ Making(fs, th[t])
               /\ CallOK(fs, order, th[t]) /\ Fresh(fs, order, th[t])
    <2>1. PICK op \in {"make", "remove"}, p \in Paths : th[t] = Calling(op, p)
      BY <1>6
    <2> QED BY <2>1, CallingIs, CallingFresh
  <1>8. TreeInv
    BY <1>3, <1>4, <1>5, <1>6, <1>7 DEF TreeInv, Inv
  <1>9. MakeInv
    BY <1>7 DEF MakeInv
  <1>10. RemoveInv
    BY <1>7 DEF RemoveInv
  <1> QED BY <1>8, <1>9, <1>10

LEMMA TreeStepInv ==
  TreeInv /\ MakeInv /\ RemoveInv /\ [TreeNext]_treeVars => TreeInv' /\ MakeInv' /\ RemoveInv'
  <1> SUFFICES ASSUME TreeInv, MakeInv, RemoveInv, [TreeNext]_treeVars
               PROVE  TreeInv' /\ MakeInv' /\ RemoveInv'
    OBVIOUS
  <1>1. CASE UNCHANGED treeVars
    <2>1. prog' = prog /\ fs' = fs /\ handle' = handle /\ order' = order /\ th' = th
      BY <1>1 DEF treeVars
    <2>2. TreeInv'
      BY <2>1 DEF TreeInv, Inv
    <2>3. MakeInv'
      BY <2>1 DEF MakeInv, All
    <2>4. RemoveInv'
      BY <2>1 DEF RemoveInv, OnePath, All
    <2> QED BY <2>2, <2>3, <2>4
  <1>2. ASSUME NEW t \in Threads, Step(t) PROVE TreeInv' /\ MakeInv' /\ RemoveInv'
    <2>1. TreeInv' /\ CallsKept
      BY <1>2, MakeTyped, RemoveTyped, Zenon DEF Step
    <2>2. MakeInv'
      BY <1>2, <2>1, MakeInvStep
    <2>3. RemoveInv'
      BY <1>2, <2>1, RemoveInvStep
    <2> QED BY <2>1, <2>2, <2>3
  <1> QED BY <1>1, <1>2 DEF TreeNext

\* The inductive invariant of create_dir_all and remove_dir_all: the engine is
\* well formed and the lists are its directories', makers rely only on
\* directories that stay, and removers' lists only lose their first names.
THEOREM TreeInvHolds == TreeSpec => [](TreeInv /\ MakeInv /\ RemoveInv)
  <1> DEFINE K == TreeInv /\ MakeInv /\ RemoveInv
  <1>1. TreeInit => K
    BY TreeInitInv
  <1>2. K /\ [TreeNext]_treeVars => K'
    BY TreeStepInv
  <1> HIDE DEF K
  <1>3. TreeSpec => []K
    BY <1>1, <1>2, PTL DEF TreeSpec
  <1> QED BY <1>3 DEF K

\* Between any two calls of create_dir_all and remove_dir_all the engine is
\* well typed, and the list of each directory holds its entries, each once,
\* whatever the threads' interleaving.
THEOREM TreeTypeOKHolds == TreeSpec => []TreeTypeOK
  <1>1. TreeInv /\ MakeInv /\ RemoveInv => TreeTypeOK
    <2> SUFFICES ASSUME TreeInv PROVE TreeTypeOK
      OBVIOUS
    <2>1. TypeOK
      BY InvWellFormed DEF TreeInv, WellFormed
    <2> QED BY <2>1 DEF TreeTypeOK, TreeInv, Ordered, Enumerates, IsThread
  <1> QED BY <1>1, TreeInvHolds, PTL

\* However many threads call create_dir_all at the same time on overlapping
\* paths, whatever the tree: each that has nothing but directories in its way
\* returns Ok and its directory is there.
THEOREM MakersSucceedHolds == TreeSpec => []MakersSucceed
  <1>1. TreeInv /\ MakeInv /\ RemoveInv => MakersSucceed
    <2> SUFFICES ASSUME MakeInv, All("make"), NEW t \in Threads, Ended(t), Clear(th[t].path)
                 PROVE  th[t].res = "ok" /\ IsDirAt(th[t].path)
      BY Zenon DEF MakersSucceed
    <2>1. ClearIn(fs, th[t].path)
      BY ClearIs
    <2>2. Making(fs, th[t])
      BY <2>1, Zenon DEF MakeInv
    <2>3. th[t].res = "ok" /\ IsDirIn(fs, th[t].path)
      BY <2>2, Zenon DEF Making, Ended
    <2> QED BY <2>3, IsDirAtIs
  <1> QED BY <1>1, TreeInvHolds, PTL

\* However many threads call remove_dir_all at the same time on one path,
\* whatever the tree: when all have returned the tree is gone, and one of
\* them returned Ok.
THEOREM RemoversWinHolds == TreeSpec => []RemoversWin
  <1>1. TreeInv /\ MakeInv /\ RemoveInv => RemoversWin
    <2> SUFFICES ASSUME RemoveInv, All("remove"),
                        \A t, u \in Threads : th[t].path = th[u].path /\ Ended(t),
                        NEW t \in Threads, Clear(Parent(th[t].path))
                 PROVE  At(th[t].path) = 0 /\ \E u \in Threads : th[u].res = "ok"
      BY Zenon DEF RemoversWin
    <2>1. OnePath /\ \A u \in Threads : ~ Runs(th[u]) /\ th[u].path = th[t].path
      BY Zenon DEF OnePath, Ended, Runs
    <2>2. ClearIn(fs, Parent(th[t].path))
      BY ClearIs
    <2>3. PICK w \in Threads : th[w].res = "ok" \/ (Runs(th[w]) /\ Fresh(fs, order, th[w]))
      BY <2>1, <2>2, Zenon DEF RemoveInv
    <2>4. th[w].res = "ok"
      BY <2>1, <2>3, Zenon
    <2>5. AtIn(fs, th[w].path) = 0
      BY <2>1, <2>4 DEF RemoveInv, CallOK
    <2> QED BY <2>1, <2>4, <2>5, AtIs
  <1> QED BY <1>1, TreeInvHolds, PTL
=============================================================================
