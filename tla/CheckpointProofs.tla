-------------------------- MODULE CheckpointProofs --------------------------
(***************************************************************************)
(* The checkpoint of flush_all, for any number of files, blocks and        *)
(* crashes. Besides Durable, Inv has three parts: Shape, the types, with   *)
(* every place of a snapshot inside the image; Logged, what ties the       *)
(* journal's last transaction to the inode table through the phases of     *)
(* flush_all and over every crash; and Intact, what is true of blocks,     *)
(* contents and table until the first crash.                               *)
(***************************************************************************)
EXTENDS Checkpoint, DataFacts

\* Where a snapshot fits into the image.
Places == 1..(NBlocks - SnapLen + 1)

Tables == [Files -> 0..NBlocks]

Super == [alloc : 0..NBlocks, seq : Nat, ok : BOOLEAN]

Shape ==
  /\ mem \in Tables
  /\ ver \in [Files -> 0..MaxVer]
  /\ dirty \subseteq Files
  /\ free \subseteq Blocks
  /\ DOMAIN cache \subseteq 0..NBlocks
  /\ 0 \in DOMAIN cache => cache[0] \in Tables
  /\ \A b \in DOMAIN cache \ {0} : cache[b].kind = "data"
  /\ DOMAIN image = 0..NBlocks
  /\ image[0] \in Tables
  /\ \A b \in Blocks : image[b].kind = "snap" => image[b].free \subseteq Blocks
  /\ DOMAIN sb = {1, 2}
  /\ \A i \in {1, 2} : sb[i] \in Super /\ (sb[i].ok => sb[i].alloc \in Places)
  /\ msb \in Super /\ msb.ok /\ msb.alloc \in Places
  /\ pc \in {"idle", "persist", "cache", "snap", "backup", "down"}
  /\ snap \in [at : Places, left : SUBSET Blocks]
  /\ snap.left \subseteq Run(snap.at, SnapLen)
  /\ log.seq \in Nat
  /\ crashes \in Nat
  /\ touched \subseteq Files /\ gone \subseteq Files

\* What the table may have of a file of the transaction: its inode as committed,
\* or nothing once the file is removed.
Accounts(f, x) == x = log.inodes[f] \/ (f \in gone /\ x = 0)

\* That is so in the image and in the cache.
TableAgrees ==
  \A f \in DOMAIN log.inodes :
    /\ Accounts(f, image[0][f])
    /\ 0 \in DOMAIN cache => Accounts(f, cache[0][f])

\* The transaction holds the dirty inodes until they are persisted, and what
\* the table holds from then on; before the superblock counts it, it is newer
\* than both superblocks.
Logged ==
  /\ DOMAIN log.inodes \subseteq Files
  /\ ~ Journaled => DOMAIN log.inodes = {}
  /\ sb[1].ok /\ sb[2].ok => sb[2].seq <= sb[1].seq
  /\ pc # "down" => \A i \in {1, 2} : sb[i].ok => sb[i].seq <= msb.seq
  /\ pc \in {"persist", "cache", "snap"} /\ Journaled =>
       log.seq = msb.seq /\ \A i \in {1, 2} : sb[i].ok => sb[i].seq < msb.seq
  /\ pc = "persist" /\ Journaled =>
       DOMAIN log.inodes = dirty /\ \A f \in dirty : log.inodes[f] = mem[f]
  /\ pc \in {"cache", "snap", "backup"} => \A f \in DOMAIN log.inodes : Table[f] = log.inodes[f]
  /\ pc \in {"snap", "backup", "down"} => DOMAIN cache = {}
  /\ pc = "backup" => sb[1] = msb
  /\ pc \in {"idle", "down"} /\ Chosen.ok /\ log.seq <= Chosen.seq => TableAgrees

\* The blocks of the snapshot that counts: the old one until its successor
\* has been allocated.
SnapRun == Run(IF pc = "snap" THEN snap.at ELSE msb.alloc, SnapLen)

\* Block b as a read finds it.
Here(b) == IF b \in DOMAIN cache THEN cache[b] ELSE image[b]

Exclusive ==
  /\ SnapRun \cap free = {} /\ SnapRun \cap DOMAIN cache = {}
  /\ \A f \in Files : /\ mem[f] \notin SnapRun
                      /\ mem[f] # 0 => mem[f] \notin free
                      /\ \A g \in Files : mem[f] # 0 /\ mem[f] = mem[g] => f = g

\* Contents and table are in cache and image, whatever was written back.
Stored ==
  /\ \A f \in Files : mem[f] # 0 => Here(mem[f]) = Data(f, ver[f])
  /\ pc \in {"idle", "persist"} => \A f \in Files \ dirty : Table[f] = mem[f]
  /\ pc \in {"cache", "snap", "backup"} => Table = mem /\ dirty = {}

SnapWritten ==
  /\ pc = "snap" => \A b \in SnapRun \ snap.left : image[b] = SnapBlock(b - snap.at + 1, free)
  /\ pc = "backup" => image[msb.alloc] = SnapBlock(1, free)
  /\ Idle /\ touched = {} => DOMAIN cache = {} /\ dirty = {} /\ image[msb.alloc] = SnapBlock(1, free)

Supers ==
  /\ sb[1].ok /\ sb[2].ok
  /\ sb[1].alloc = msb.alloc
  /\ pc # "backup" => sb[2].alloc = msb.alloc

\* Of a file nobody touched since the last checkpoint everything is in the image,
\* and the cache has nothing else to say of it.
Untouched ==
  \A f \in Files \ touched :
    /\ f \notin dirty
    /\ image[0][f] = mem[f]
    /\ 0 \in DOMAIN cache => cache[0][f] = mem[f]
    /\ mem[f] # 0 => mem[f] \notin DOMAIN cache

Intact ==
  crashes = 0 => pc # "down" /\ Supers /\ Exclusive /\ Stored /\ SnapWritten /\ Untouched

Inv == Shape /\ Logged /\ Intact /\ Durable

\* The snapshot in use begins with its header, and a first crash leaves a
\* superblock that names it.
MountOK ==
  /\ crashes = 0 => Loadable(msb.alloc)
  /\ crashes = 1 => Mountable

-----------------------------------------------------------------------------
(* The operators of the model. *)

LEMMA Sizes ==
  /\ NBlocks \in Nat /\ SnapLen \in Nat /\ SnapLen >= 1 /\ SnapLen <= NBlocks
  /\ Crashes \in Nat /\ MaxVer \in Nat /\ Blocks = 1..NBlocks
  /\ 1 \in Places /\ Places \subseteq Blocks
  /\ \A at \in Places : Run(at, SnapLen) \subseteq Blocks /\ at \in Run(at, SnapLen)
  BY CheckpointAssumption DEF Blocks, Places, Run

LEMMA PlaceIs ==
  ASSUME NEW at \in Places
  PROVE  at \in Blocks /\ at \in 0..NBlocks /\ at \in Run(at, SnapLen)
  BY CheckpointAssumption DEF Blocks, Places, Run

\* What allocate returns was free, all of it.
LEMMA FitIs ==
  ASSUME NEW fr \in SUBSET Blocks, NEW n \in Nat, n >= 1, NEW at \in Fit(fr, n)
  PROVE  /\ at \in fr /\ at \in Blocks /\ Run(at, n) \subseteq fr
         /\ at \in 1..(NBlocks - n + 1)
  <1>1. PICK r \in FreeRuns(fr, n) : at = r[1]
    BY DEF Fit
  <1>2. PICK lo \in fr, k \in n..NBlocks : r = <<lo, k>> /\ Run(lo, k) \subseteq fr
    BY <1>1 DEF FreeRuns
  <1>3. at = lo /\ at \in fr
    BY <1>1, <1>2
  <1>4. NBlocks \in Nat /\ at \in 1..NBlocks /\ k \in Nat /\ n <= k
    BY <1>2, <1>3, Sizes
  <1>5. Run(at, n) \subseteq Run(at, k) /\ at + n - 1 \in Run(at, k)
    BY <1>4 DEF Run
  <1>6. at + n - 1 \in 1..NBlocks
    BY <1>2, <1>3, <1>5, Sizes
  <1> QED BY <1>2, <1>3, <1>4, <1>5, <1>6, Sizes

LEMMA DataIs ==
  ASSUME NEW f, NEW v
  PROVE  Data(f, v).kind = "data"
  BY DEF Data

LEMMA SnapBlockIs ==
  ASSUME NEW k, NEW fr
  PROVE  SnapBlock(k, fr).kind = "snap" /\ SnapBlock(k, fr).part = k /\ SnapBlock(k, fr).free = fr
  BY DEF SnapBlock

LEMMA TableType ==
  ASSUME Shape
  PROVE  Table \in Tables
  BY DEF Shape, Table

LEMMA OldSnapIs ==
  ASSUME Shape
  PROVE  OldSnap \subseteq Run(msb.alloc, SnapLen) /\ OldSnap \subseteq Blocks
  BY Sizes DEF Shape, OldSnap

-----------------------------------------------------------------------------
(* Init. *)

LEMMA InitInv == Init => Inv /\ MountOK
  <1> SUFFICES ASSUME Init PROVE Inv /\ MountOK
    OBVIOUS
  <1> DEFINE fr == Blocks \ Run(1, SnapLen)
             one == [alloc |-> 1, seq |-> 1, ok |-> TRUE]
  <1>1. /\ mem = EmptyTable /\ ver = [f \in Files |-> 0] /\ dirty = {} /\ free = fr
        /\ msb = one /\ sb = <<one, one>> /\ log = [seq |-> 1, inodes |-> [f \in {} |-> 0]]
        /\ pc = "idle" /\ snap = [at |-> 1, left |-> {}] /\ touched = {} /\ gone = {}
        /\ crashes = 0
    BY DEF Init
  <1>2. DOMAIN cache = {}
    BY DEF Init
  <1>3. /\ DOMAIN image = 0..NBlocks
        /\ \A b \in 0..NBlocks :
             image[b] = IF b = 0 THEN EmptyTable
                        ELSE IF b <= SnapLen THEN SnapBlock(b, fr) ELSE Junk
    BY DEF Init
  <1>4. EmptyTable \in Tables /\ \A f \in Files : EmptyTable[f] = 0
    BY Sizes DEF EmptyTable, Tables
  <1>5. image[0] = EmptyTable /\ image[1] = SnapBlock(1, fr)
    <2>1. 0 \in 0..NBlocks /\ 1 \in 0..NBlocks /\ 1 <= SnapLen
      BY Sizes
    <2> HIDE DEF fr
    <2> QED BY <1>3, <2>1
  <1>6. \A b \in Blocks : image[b].kind = "snap" => image[b].free \subseteq Blocks
    <2>1. Junk.kind = "junk"
      BY DEF Junk
    <2>0. \A b \in Blocks : b \in 0..NBlocks /\ b # 0
      BY CheckpointAssumption DEF Blocks
    <2> HIDE DEF fr
    <2>2. \A b \in Blocks : image[b] = SnapBlock(b, fr) \/ image[b] = Junk
      BY <1>3, <2>0
    <2>3. fr \subseteq Blocks
      BY DEF fr
    <2> QED BY <2>1, <2>2, <2>3, SnapBlockIs
  <1>7. ver \in [Files -> 0..MaxVer]
    BY <1>1, Sizes
  <1>8. one \in Super /\ one.alloc = 1 /\ one.ok /\ one.seq = 1
    BY Sizes DEF Super
  <1>9. DOMAIN sb = {1, 2} /\ sb[1] = one /\ sb[2] = one
    BY <1>1
  <1> HIDE DEF one
  <1>10. snap \in [at : Places, left : SUBSET Blocks] /\ snap.left = {}
    BY <1>1, Sizes
  <1>11. log.seq = 1 /\ DOMAIN log.inodes = {}
    BY <1>1
  <1>12. Shape
    BY <1>1, <1>2, <1>3, <1>4, <1>5, <1>6, <1>7, <1>8, <1>9, <1>10, <1>11, Sizes DEF Shape
  <1>13. Logged
    BY <1>1, <1>2, <1>8, <1>9, <1>11 DEF Logged, TableAgrees, Accounts
  <1>14. SnapRun = Run(1, SnapLen) /\ 0 \notin SnapRun
    BY <1>1, <1>8 DEF SnapRun, Run
  <1>15. Exclusive
    BY <1>1, <1>2, <1>4, <1>14 DEF Exclusive
  <1>16. Stored
    BY <1>1, <1>2, <1>4, <1>5 DEF Stored, Table
  <1>17. SnapWritten
    BY <1>1, <1>2, <1>5, <1>8 DEF SnapWritten
  <1>18. Supers
    BY <1>1, <1>8, <1>9 DEF Supers
  <1>19. Intact
    <2>1. Untouched
      BY <1>1, <1>2, <1>4, <1>5 DEF Untouched
    <2> QED BY <1>1, <1>15, <1>16, <1>17, <1>18, <2>1 DEF Intact
  <1>21. Durable
    BY <1>1 DEF Durable
  <1>20. MountOK
    BY <1>1, <1>5, <1>8, SnapBlockIs DEF MountOK, Loadable
  <1> QED BY <1>12, <1>13, <1>19, <1>20, <1>21 DEF Inv

-----------------------------------------------------------------------------
(* Calls and evictions. *)

LEMMA WriteStep ==
  ASSUME Inv, NEW f \in Files, Write(f)
  PROVE  Inv' /\ (MountOK => MountOK')
  <1> DEFINE d == Data(f, ver[f] + 1)
  <1>1. /\ pc = "idle" /\ pc' = "idle" /\ ver[f] < MaxVer /\ ver' = [ver EXCEPT ![f] = @ + 1]
        /\ dirty' = dirty \cup {f} /\ touched' = touched \cup {f} /\ gone' = gone
        /\ image' = image /\ sb' = sb /\ log' = log /\ msb' = msb /\ snap' = snap
        /\ crashes' = crashes
    BY DEF Write, Idle
  <1>2. Shape /\ Logged /\ Intact
    BY DEF Inv
  <1>3. PICK b \in Blocks : /\ b \in free \/ b = mem[f]
                            /\ mem' = [mem EXCEPT ![f] = b]
                            /\ free' = free \ {b} \/ (free' = free /\ b = mem[f])
                            /\ cache' = Put(cache, b, d)
    <2>1. CASE mem[f] # 0
      <3>1. mem[f] \in Blocks /\ mem = [mem EXCEPT ![f] = mem[f]]
        BY <1>2, <2>1, Sizes DEF Shape, Tables
      <3> QED BY <2>1, <3>1 DEF Write
    <2>2. CASE mem[f] = 0
      <3>1. PICK b \in Fit(free, 1) : /\ mem' = [mem EXCEPT ![f] = b]
                                      /\ free' = free \ {b} /\ cache' = Put(cache, b, d)
        BY <2>2 DEF Write
      <3>2. free \in SUBSET Blocks /\ 1 \in Nat /\ 1 >= 1
        BY <1>2 DEF Shape
      <3>3. b \in free /\ b \in Blocks
        BY <3>2, FitIs
      <3> QED BY <3>1, <3>3
    <2> QED BY <2>1, <2>2
  <1>5. d.kind = "data" /\ b # 0 /\ b \in 0..NBlocks
    BY Sizes, DataIs
  <1> HIDE DEF d
  <1>4. /\ DOMAIN cache' = DOMAIN cache \cup {b} /\ cache'[b] = d
        /\ \A x \in DOMAIN cache \ {b} : cache'[x] = cache[x]
    <2>1. /\ DOMAIN Put(cache, b, d) = DOMAIN cache \cup {b}
          /\ Put(cache, b, d)[b] = d
          /\ \A x \in DOMAIN cache \ {b} : Put(cache, b, d)[x] = cache[x]
      BY DEF Put
    <2> QED BY <1>3, <2>1
  <1>6. mem' \in Tables /\ mem'[f] = b /\ \A g \in Files \ {f} : mem'[g] = mem[g]
    BY <1>2, <1>3, <1>5 DEF Shape, Tables
  <1>7. ver' \in [Files -> 0..MaxVer] /\ ver'[f] = ver[f] + 1
        /\ \A g \in Files \ {f} : ver'[g] = ver[g]
    BY <1>1, <1>2, Sizes DEF Shape
  <1>8. 0 \in DOMAIN cache' <=> 0 \in DOMAIN cache
    BY <1>4, <1>5
  <1>9. 0 \in DOMAIN cache => cache'[0] = cache[0]
    BY <1>4, <1>5
  <1>10. free' \subseteq free
    BY <1>3
  <1>11. Shape'
    <2>1. DOMAIN cache' \subseteq 0..NBlocks /\ (0 \in DOMAIN cache' => cache'[0] \in Tables)
      BY <1>2, <1>4, <1>5, <1>8, <1>9 DEF Shape
    <2>2. \A x \in DOMAIN cache' \ {0} : cache'[x].kind = "data"
      BY <1>2, <1>4, <1>5 DEF Shape
    <2>3. free' \subseteq Blocks /\ dirty' \subseteq Files
      BY <1>1, <1>2, <1>10 DEF Shape
    <2> QED BY <1>1, <1>2, <1>6, <1>7, <2>1, <2>2, <2>3 DEF Shape
  <1>12. Logged'
    BY <1>1, <1>2, <1>8, <1>9 DEF Logged, TableAgrees, Accounts, Chosen
  <1>13. Intact'
    <2> SUFFICES ASSUME crashes = 0
                 PROVE  Supers' /\ Exclusive' /\ Stored' /\ SnapWritten' /\ Untouched'
      BY <1>1 DEF Intact
    <2>1. Supers /\ Exclusive /\ Stored /\ Untouched
      BY <1>2 DEF Intact
    <2>2. SnapRun' = SnapRun
      BY <1>1 DEF SnapRun
    <2>3. b \notin SnapRun /\ \A g \in Files \ {f} : mem[g] # b
      BY <1>3, <1>5, <2>1 DEF Exclusive
    <2>4. Exclusive'
      <3>1. SnapRun \cap free' = {} /\ SnapRun \cap DOMAIN cache' = {}
        BY <1>4, <1>10, <2>1, <2>3 DEF Exclusive
      <3>2. b \notin free'
        <4>1. CASE b \in free
          BY <1>3, <1>5, <2>1, <4>1 DEF Exclusive
        <4> QED BY <1>3, <4>1
      <3>3. ASSUME NEW g \in Files
            PROVE  mem'[g] \notin SnapRun /\ (mem'[g] # 0 => mem'[g] \notin free')
        BY <1>6, <1>10, <2>1, <2>3, <3>2 DEF Exclusive
      <3>4. ASSUME NEW g \in Files, NEW h \in Files, mem'[g] # 0, mem'[g] = mem'[h]
            PROVE  g = h
        BY <1>6, <2>1, <2>3, <3>4 DEF Exclusive
      <3> QED BY <2>2, <3>1, <3>3, <3>4 DEF Exclusive
    <2>5. ASSUME NEW g \in Files, mem'[g] # 0
          PROVE  Here(mem[g])' = Data(g, ver'[g])
      <3>1. CASE g = f
        BY <1>4, <1>6, <1>7, <3>1 DEF Here, d
      <3>2. CASE g # f
        <4>1. mem'[g] = mem[g] /\ mem[g] # b /\ ver'[g] = ver[g]
          BY <1>6, <1>7, <2>3, <3>2
        <4>2. Here(mem[g]) = Data(g, ver[g])
          BY <2>1, <2>5, <4>1 DEF Stored
        <4> QED BY <1>1, <1>4, <4>1, <4>2 DEF Here
      <3> QED BY <3>1, <3>2
    <2>6. ASSUME NEW g \in Files \ dirty'
          PROVE  Table'[g] = mem'[g]
      <3>1. g \in Files \ dirty /\ g # f
        BY <1>1
      <3>2. Table' = Table
        BY <1>1, <1>8, <1>9 DEF Table
      <3> QED BY <1>1, <1>6, <2>1, <3>1, <3>2 DEF Stored
    <2>7. Stored'
      BY <1>1, <2>5, <2>6 DEF Stored
    <2>9. Untouched'
      <3> SUFFICES ASSUME NEW g \in Files \ touched'
                   PROVE  /\ g \notin dirty' /\ image'[0][g] = mem'[g]
                          /\ 0 \in DOMAIN cache' => cache'[0][g] = mem'[g]
                          /\ mem'[g] # 0 => mem'[g] \notin DOMAIN cache'
        BY DEF Untouched
      <3>1. g \in Files \ touched /\ g # f /\ mem'[g] = mem[g] /\ mem[g] # b
        BY <1>1, <1>6, <2>3
      <3> QED BY <1>1, <1>4, <1>8, <1>9, <2>1, <3>1 DEF Untouched
    <2> QED BY <1>1, <2>1, <2>4, <2>7, <2>9 DEF Supers, SnapWritten, Idle
  <1>14. MountOK => MountOK'
    BY <1>1 DEF MountOK, Mountable, Loadable
  <1>15. Durable'
    BY <1>1 DEF Durable
  <1> QED BY <1>11, <1>12, <1>13, <1>14, <1>15 DEF Inv

LEMMA RemoveStep ==
  ASSUME Inv, NEW f \in Files, Remove(f)
  PROVE  Inv' /\ (MountOK => MountOK')
  <1> DEFINE t == [Table EXCEPT ![f] = 0]
  <1>1. /\ pc = "idle" /\ pc' = "idle" /\ mem[f] # 0 /\ free' = free \cup {mem[f]}
        /\ mem' = [mem EXCEPT ![f] = 0] /\ dirty' = dirty \ {f} /\ touched' = touched \cup {f}
        /\ gone' = gone \cup {f}
        /\ cache' = Put(cache, 0, t)
        /\ ver' = ver /\ image' = image /\ sb' = sb /\ log' = log /\ msb' = msb /\ snap' = snap
        /\ crashes' = crashes
    BY DEF Remove, Idle
  <1>2. Shape /\ Logged /\ Intact /\ Table \in Tables
    BY TableType DEF Inv
  <1>4. t \in Tables /\ t[f] = 0 /\ \A g \in Files \ {f} : t[g] = Table[g]
    BY <1>2, Sizes DEF Tables
  <1> HIDE DEF t
  <1>3. /\ DOMAIN cache' = DOMAIN cache \cup {0} /\ cache'[0] = t
        /\ \A x \in DOMAIN cache \ {0} : cache'[x] = cache[x]
    <2>1. /\ DOMAIN Put(cache, 0, t) = DOMAIN cache \cup {0}
          /\ Put(cache, 0, t)[0] = t
          /\ \A x \in DOMAIN cache \ {0} : Put(cache, 0, t)[x] = cache[x]
      BY DEF Put
    <2> QED BY <1>1, <2>1
  <1>5. mem' \in Tables /\ mem'[f] = 0 /\ \A g \in Files \ {f} : mem'[g] = mem[g]
    BY <1>1, <1>2, Sizes DEF Shape, Tables
  <1>6. mem[f] \in Blocks /\ 0 \in 0..NBlocks
    BY <1>1, <1>2, Sizes DEF Shape, Tables
  <1>7. \A x \in DOMAIN cache' \ {0} : x \in DOMAIN cache \ {0} /\ cache'[x] = cache[x]
    BY <1>3
  <1>8. Shape'
    <2>1. DOMAIN cache' \subseteq 0..NBlocks /\ (0 \in DOMAIN cache' => cache'[0] \in Tables)
      BY <1>2, <1>3, <1>4, <1>6 DEF Shape
    <2>2. \A x \in DOMAIN cache' \ {0} : cache'[x].kind = "data"
      BY <1>2, <1>7 DEF Shape
    <2>3. free' \subseteq Blocks /\ dirty' \subseteq Files
      BY <1>1, <1>2, <1>6 DEF Shape
    <2> QED BY <1>1, <1>2, <1>5, <2>1, <2>2, <2>3 DEF Shape
  <1>9. TableAgrees => TableAgrees'
    <2>1. ASSUME TableAgrees, NEW g \in DOMAIN log.inodes
          PROVE  t[g] = log.inodes[g] \/ (g \in gone' /\ t[g] = 0)
      <3>1. g \in Files
        BY <1>2 DEF Logged
      <3>2. Accounts(g, Table[g])
        BY <2>1 DEF TableAgrees, Accounts, Table
      <3> QED BY <1>1, <1>4, <3>1, <3>2 DEF Accounts
    <2> QED BY <1>1, <1>3, <2>1 DEF TableAgrees, Accounts
  <1>10. Logged'
    BY <1>1, <1>2, <1>9 DEF Logged, Chosen
  <1>11. Intact'
    <2> SUFFICES ASSUME crashes = 0
                 PROVE  Supers' /\ Exclusive' /\ Stored' /\ SnapWritten' /\ Untouched'
      BY <1>1 DEF Intact
    <2>1. Supers /\ Exclusive /\ Stored /\ Untouched
      BY <1>2 DEF Intact
    <2>2. SnapRun' = SnapRun /\ 0 \notin SnapRun
      <3>1. SnapRun = Run(msb.alloc, SnapLen) /\ SnapRun' = SnapRun
        BY <1>1 DEF SnapRun
      <3>2. msb.alloc \in Places
        BY <1>2 DEF Shape
      <3>3. Run(msb.alloc, SnapLen) \subseteq Blocks
        BY <3>2, Sizes
      <3>4. 0 \notin Blocks
        BY Sizes
      <3> QED BY <3>1, <3>3, <3>4
    <2>3. Exclusive'
      <3>1. SnapRun \cap free' = {} /\ SnapRun \cap DOMAIN cache' = {}
        BY <1>1, <1>3, <2>1, <2>2 DEF Exclusive
      <3>2. ASSUME NEW g \in Files
            PROVE  mem'[g] \notin SnapRun /\ (mem'[g] # 0 => mem'[g] \notin free')
        BY <1>1, <1>5, <2>1, <2>2 DEF Exclusive
      <3>3. ASSUME NEW g \in Files, NEW h \in Files, mem'[g] # 0, mem'[g] = mem'[h]
            PROVE  g = h
        BY <1>5, <2>1, <3>3 DEF Exclusive
      <3> QED BY <2>2, <3>1, <3>2, <3>3 DEF Exclusive
    <2>4. ASSUME NEW g \in Files, mem'[g] # 0
          PROVE  Here(mem[g])' = Data(g, ver'[g])
      <3>1. g # f /\ mem'[g] = mem[g]
        BY <1>5, <2>4
      <3>2. Here(mem[g]) = Data(g, ver[g])
        BY <2>1, <2>4, <3>1 DEF Stored
      <3> QED BY <1>1, <1>3, <2>4, <3>1, <3>2 DEF Here
    <2>5. ASSUME NEW g \in Files \ dirty'
          PROVE  Table'[g] = mem'[g]
      <3>1. Table' = t
        BY <1>3 DEF Table
      <3>2. CASE g = f
        BY <1>4, <1>5, <3>1, <3>2
      <3>3. CASE g # f
        <4>1. g \in Files \ dirty /\ mem'[g] = mem[g] /\ t[g] = Table[g]
          BY <1>1, <1>4, <1>5, <3>3
        <4> QED BY <1>1, <2>1, <3>1, <4>1 DEF Stored
      <3> QED BY <3>2, <3>3
    <2>6. Stored'
      BY <1>1, <2>4, <2>5 DEF Stored
    <2>9. Untouched'
      <3> SUFFICES ASSUME NEW g \in Files \ touched'
                   PROVE  /\ g \notin dirty' /\ image'[0][g] = mem'[g]
                          /\ 0 \in DOMAIN cache' => cache'[0][g] = mem'[g]
                          /\ mem'[g] # 0 => mem'[g] \notin DOMAIN cache'
        BY DEF Untouched
      <3>1. g \in Files \ touched /\ g # f /\ mem'[g] = mem[g] /\ t[g] = Table[g]
        BY <1>1, <1>4, <1>5
      <3>2. Table[g] = mem[g]
        BY <2>1, <3>1 DEF Untouched, Table
      <3> QED BY <1>1, <1>3, <2>1, <3>1, <3>2 DEF Untouched
    <2> QED BY <1>1, <2>1, <2>3, <2>6, <2>9 DEF Supers, SnapWritten, Idle
  <1>12. MountOK => MountOK'
    BY <1>1 DEF MountOK, Mountable, Loadable
  <1>13. Durable'
    BY <1>1 DEF Durable
  <1> QED BY <1>8, <1>10, <1>11, <1>12, <1>13 DEF Inv

\* A block that reaches the image is not one of the snapshot, and the table
\* and the contents are what they were, seen through the cache.
LEMMA WriteBackStep ==
  ASSUME Inv, NEW b \in 0..NBlocks, WriteBack(b)
  PROVE  Inv' /\ (MountOK => MountOK')
  <1>1. /\ pc \in {"idle", "cache"} /\ b \in DOMAIN cache
        /\ image' = [image EXCEPT ![b] = cache[b]]
        /\ cache' = [x \in DOMAIN cache \ {b} |-> cache[x]]
        /\ mem' = mem /\ ver' = ver /\ dirty' = dirty /\ free' = free /\ sb' = sb /\ log' = log
        /\ msb' = msb /\ pc' = pc /\ snap' = snap /\ touched' = touched /\ gone' = gone /\ crashes' = crashes
    BY DEF WriteBack
  <1>2. Shape /\ Logged /\ Intact
    BY DEF Inv
  <1>3. DOMAIN image' = 0..NBlocks /\ image'[b] = cache[b]
        /\ \A x \in 0..NBlocks : x # b => image'[x] = image[x]
    BY <1>1, <1>2 DEF Shape
  <1>4. DOMAIN cache' = DOMAIN cache \ {b} /\ \A x \in DOMAIN cache' : cache'[x] = cache[x]
    BY <1>1
  <1>5. 0 \in 0..NBlocks /\ \A x \in Blocks : x \in 0..NBlocks /\ x # 0
    BY Sizes
  <1>6. image'[0] = IF b = 0 THEN cache[0] ELSE image[0]
    BY <1>3, <1>5
  <1>7. \A x \in Blocks : image'[x].kind = "snap" => image'[x].free \subseteq Blocks
    <2> SUFFICES ASSUME NEW x \in Blocks
                 PROVE  image'[x].kind = "snap" => image'[x].free \subseteq Blocks
      OBVIOUS
    <2>1. CASE x = b
      <3>1. image'[x].kind = "data"
        BY <1>1, <1>2, <1>3, <1>5, <2>1 DEF Shape
      <3> QED BY <3>1
    <2>2. CASE x # b
      BY <1>2, <1>3, <1>5, <2>2 DEF Shape
    <2> QED BY <2>1, <2>2
  <1>8. Table' = Table /\ Table = IF 0 \in DOMAIN cache THEN cache[0] ELSE image[0]
    <2>1. CASE b = 0
      BY <1>1, <1>3, <1>4, <2>1 DEF Table
    <2>2. CASE b # 0
      BY <1>3, <1>4, <1>5, <2>2 DEF Table
    <2> QED BY <2>1, <2>2 DEF Table
  <1>9. image'[0] \in Tables /\ (0 \in DOMAIN cache' => cache'[0] \in Tables)
    BY <1>1, <1>2, <1>4, <1>6 DEF Shape
  <1>10. Shape'
    BY <1>1, <1>2, <1>3, <1>4, <1>7, <1>9 DEF Shape
  <1>11. TableAgrees => TableAgrees'
    BY <1>1, <1>4, <1>6 DEF TableAgrees, Accounts
  <1>12. Logged'
    BY <1>1, <1>2, <1>8, <1>11 DEF Logged, Chosen
  <1>13. \A x \in 0..NBlocks : Here(x)' = Here(x)
    BY <1>1, <1>3, <1>4 DEF Here
  <1>14. crashes = 0 => msb.alloc # b /\ image'[msb.alloc] = image[msb.alloc]
    <2>1. msb.alloc \in SnapRun /\ msb.alloc \in 0..NBlocks
      BY <1>1, <1>2, <1>5, Sizes DEF SnapRun, Shape
    <2> QED BY <1>1, <1>2, <1>3, <2>1 DEF Intact, Exclusive
  <1>15. Intact'
    <2> SUFFICES ASSUME crashes = 0
                 PROVE  Supers' /\ Exclusive' /\ Stored' /\ SnapWritten' /\ Untouched'
      BY <1>1, <1>2 DEF Intact, Logged
    <2>1. Supers /\ Exclusive /\ Stored /\ SnapWritten /\ Untouched
      BY <1>2 DEF Intact
    <2>2. SnapRun' = SnapRun
      BY <1>1 DEF SnapRun
    <2>3. Exclusive'
      BY <1>1, <1>4, <2>1, <2>2 DEF Exclusive
    <2>4. \A f \in Files : mem[f] \in 0..NBlocks
      BY <1>2 DEF Shape, Tables
    <2>5. Stored'
      BY <1>1, <1>8, <1>13, <2>1, <2>4 DEF Stored
    <2>6. SnapWritten'
      BY <1>1, <1>4, <1>14, <2>1 DEF SnapWritten, Idle
    <2>9. Untouched'
      BY <1>1, <1>4, <1>6, <2>1 DEF Untouched
    <2> QED BY <1>1, <2>1, <2>3, <2>5, <2>6, <2>9 DEF Supers
  <1>16. MountOK => MountOK'
    BY <1>1, <1>14 DEF MountOK, Mountable, Loadable
  <1>17. Durable'
    BY <1>1 DEF Durable
  <1> QED BY <1>10, <1>12, <1>15, <1>16, <1>17 DEF Inv

-----------------------------------------------------------------------------
(* flush_all. *)

LEMMA CommitStep ==
  ASSUME Inv, Commit
  PROVE  Inv' /\ (MountOK => MountOK')
  <1>1. /\ pc = "idle" /\ pc' = "persist"
        /\ mem' = mem /\ ver' = ver /\ dirty' = dirty /\ free' = free /\ cache' = cache
        /\ image' = image /\ sb' = sb /\ snap' = snap /\ touched' = touched /\ gone' = {} /\ crashes' = crashes
    BY DEF Commit, Idle
  <1>2. Shape /\ Logged /\ Intact
    BY DEF Inv
  <1>3. /\ msb' \in Super /\ msb'.ok /\ msb'.alloc = msb.alloc /\ log'.seq \in Nat
        /\ Journaled => /\ log'.seq = msb.seq + 1 /\ msb'.seq = msb.seq + 1
                        /\ DOMAIN log'.inodes = dirty /\ \A f \in dirty : log'.inodes[f] = mem[f]
        /\ ~ Journaled => msb' = msb /\ log' = log
    <2>1. msb \in Super /\ msb.ok /\ log.seq \in Nat /\ msb.seq \in Nat
      BY <1>2 DEF Shape, Super
    <2>2. CASE Journaled
      <3>1. /\ log' = [seq |-> msb.seq + 1, inodes |-> [f \in dirty |-> mem[f]]]
            /\ msb' = [msb EXCEPT !.seq = @ + 1]
        BY <2>2 DEF Commit
      <3>2. /\ msb' \in Super /\ msb'.ok /\ msb'.alloc = msb.alloc /\ msb'.seq = msb.seq + 1
        BY <2>1, <3>1 DEF Super
      <3>3. /\ log'.seq = msb.seq + 1
            /\ DOMAIN log'.inodes = dirty /\ \A f \in dirty : log'.inodes[f] = mem[f]
        BY <3>1
      <3> QED BY <2>1, <2>2, <3>2, <3>3
    <2>3. CASE ~ Journaled
      BY <2>1, <2>3 DEF Commit
    <2> QED BY <2>2, <2>3
  <1>4. Shape'
    BY <1>1, <1>2, <1>3 DEF Shape
  <1>5. \A i \in {1, 2} : sb[i].ok => sb[i].seq \in Nat /\ msb.seq \in Nat /\ sb[i].seq <= msb.seq
    BY <1>1, <1>2 DEF Logged, Shape, Super
  <1>6. \A i \in {1, 2} : sb[i].ok => sb[i].seq <= msb'.seq
    BY <1>3, <1>5
  <1>7. Journaled => \A i \in {1, 2} : sb[i].ok => sb[i].seq < msb'.seq
    BY <1>3, <1>5
  <1>8. DOMAIN log'.inodes \subseteq Files /\ (~ Journaled => DOMAIN log'.inodes = {})
    BY <1>2, <1>3, CheckpointAssumption DEF Shape, Logged
  <1>9. Logged'
    BY <1>1, <1>2, <1>3, <1>6, <1>7, <1>8 DEF Logged
  <1>10. Intact'
    <2> SUFFICES ASSUME crashes = 0
                 PROVE  Supers' /\ Exclusive' /\ Stored' /\ SnapWritten' /\ Untouched'
      BY <1>1 DEF Intact
    <2>1. Supers /\ Exclusive /\ Stored /\ Untouched
      BY <1>2 DEF Intact
    <2>2. SnapRun' = SnapRun
      BY <1>1, <1>3 DEF SnapRun
    <2>3. Exclusive'
      BY <1>1, <2>1, <2>2 DEF Exclusive
    <2>4. Stored'
      BY <1>1, <2>1 DEF Stored, Here, Table
    <2>9. Untouched'
      BY <1>1, <2>1 DEF Untouched
    <2> QED BY <1>1, <1>3, <2>1, <2>3, <2>4, <2>9 DEF Supers, SnapWritten, Idle
  <1>11. MountOK => MountOK'
    BY <1>1, <1>3 DEF MountOK, Mountable, Loadable
  <1>12. Durable'
    BY <1>1 DEF Durable
  <1> QED BY <1>4, <1>9, <1>10, <1>11, <1>12 DEF Inv

LEMMA PersistStep ==
  ASSUME Inv, Persist
  PROVE  Inv' /\ (MountOK => MountOK')
  <1> DEFINE t == Saved(Table)
  <1>1. /\ pc = "persist" /\ pc' = "cache" /\ dirty' = {}
        /\ cache' = IF dirty = {} THEN cache ELSE Put(cache, 0, t)
        /\ mem' = mem /\ ver' = ver /\ free' = free /\ image' = image /\ sb' = sb /\ log' = log
        /\ msb' = msb /\ snap' = snap /\ touched' = touched /\ gone' = gone /\ crashes' = crashes
    BY DEF Persist
  <1>2. Shape /\ Logged /\ Intact /\ Table \in Tables
    BY TableType DEF Inv
  <1>3. /\ t \in Tables /\ \A f \in dirty : t[f] = mem[f]
        /\ \A f \in Files \ dirty : t[f] = Table[f]
    BY <1>2 DEF Saved, Shape, Tables
  <1> HIDE DEF t
  <1>4. /\ DOMAIN cache' = IF dirty = {} THEN DOMAIN cache ELSE DOMAIN cache \cup {0}
        /\ dirty # {} => cache'[0] = t
        /\ \A x \in DOMAIN cache \ {0} : x \in DOMAIN cache' /\ cache'[x] = cache[x]
        /\ dirty = {} => cache' = cache
    BY <1>1 DEF Put
  <1>5. 0 \in 0..NBlocks
    BY Sizes
  <1>6. Table' \in Tables /\ \A f \in dirty : Table'[f] = mem[f]
    BY <1>1, <1>2, <1>3, <1>4 DEF Table
  <1>7. \A f \in Files \ dirty : Table'[f] = Table[f]
    BY <1>1, <1>3, <1>4 DEF Table
  <1>8. Shape'
    <2>1. DOMAIN cache' \subseteq 0..NBlocks /\ (0 \in DOMAIN cache' => cache'[0] \in Tables)
      BY <1>2, <1>3, <1>4, <1>5 DEF Shape
    <2>2. \A x \in DOMAIN cache' \ {0} : cache'[x].kind = "data"
      <3>1. \A x \in DOMAIN cache' \ {0} : x \in DOMAIN cache \ {0}
        BY <1>4
      <3> QED BY <1>2, <1>4, <3>1 DEF Shape
    <2> QED BY <1>1, <1>2, <2>1, <2>2 DEF Shape
  <1>9. \A f \in DOMAIN log.inodes : Table'[f] = log.inodes[f]
    BY <1>1, <1>2, <1>6 DEF Logged
  <1>10. Logged'
    BY <1>1, <1>2, <1>9 DEF Logged
  <1>11. Intact'
    <2> SUFFICES ASSUME crashes = 0
                 PROVE  Supers' /\ Exclusive' /\ Stored' /\ SnapWritten' /\ Untouched'
      BY <1>1 DEF Intact
    <2>1. Supers /\ Exclusive /\ Stored /\ Untouched
      BY <1>2 DEF Intact
    <2>2. SnapRun' = SnapRun /\ 0 \notin SnapRun
      <3>1. SnapRun = Run(msb.alloc, SnapLen) /\ SnapRun' = SnapRun
        BY <1>1 DEF SnapRun
      <3>2. msb.alloc \in Places
        BY <1>2 DEF Shape
      <3>3. Run(msb.alloc, SnapLen) \subseteq Blocks
        BY <3>2, Sizes
      <3>4. 0 \notin Blocks
        BY Sizes
      <3> QED BY <3>1, <3>3, <3>4
    <2>3. Exclusive'
      BY <1>1, <1>4, <2>1, <2>2 DEF Exclusive
    <2>4. ASSUME NEW f \in Files, mem[f] # 0
          PROVE  Here(mem[f])' = Data(f, ver[f])
      <3>1. Here(mem[f]) = Data(f, ver[f])
        BY <2>1, <2>4 DEF Stored
      <3>2. mem[f] \in DOMAIN cache' <=> mem[f] \in DOMAIN cache
        BY <1>4, <2>4
      <3> QED BY <1>1, <1>4, <2>4, <3>1, <3>2 DEF Here
    <2>5. Table' = mem
      <3>1. \A f \in Files : Table'[f] = mem[f]
        BY <1>1, <1>6, <1>7, <2>1 DEF Stored
      <3>2. mem \in [Files -> 0..NBlocks] /\ Table' \in [Files -> 0..NBlocks]
        BY <1>2, <1>6 DEF Shape, Tables
      <3> QED BY <3>1, <3>2
    <2>6. Stored'
      BY <1>1, <2>4, <2>5 DEF Stored
    <2>9. Untouched'
      <3>1. \A f \in Files \ touched : f \notin dirty /\ Table[f] = mem[f]
        BY <2>1 DEF Untouched, Table
      <3> QED BY <1>1, <1>3, <1>4, <2>1, <3>1 DEF Untouched
    <2> QED BY <1>1, <2>1, <2>3, <2>6, <2>9 DEF Supers, SnapWritten, Idle
  <1>12. MountOK => MountOK'
    BY <1>1 DEF MountOK, Mountable, Loadable
  <1>13. Durable'
    BY <1>1 DEF Durable
  <1> QED BY <1>8, <1>10, <1>11, <1>12, <1>13 DEF Inv

LEMMA AllocSnapStep ==
  ASSUME Inv, AllocSnap
  PROVE  Inv' /\ (MountOK => MountOK')
  <1> DEFINE fr == free \cup OldSnap
  <1>1. /\ pc = "cache" /\ DOMAIN cache = {} /\ pc' = "snap"
        /\ mem' = mem /\ ver' = ver /\ dirty' = dirty /\ cache' = cache /\ image' = image
        /\ sb' = sb /\ log' = log /\ msb' = msb /\ touched' = touched /\ gone' = gone /\ crashes' = crashes
    BY DEF AllocSnap, CacheFlushed
  <1>2. PICK at \in Fit(fr, SnapLen) : /\ snap' = [at |-> at, left |-> Run(at, SnapLen)]
                                       /\ free' = fr \ Run(at, SnapLen)
    BY DEF AllocSnap, FreeForSnap
  <1>3. Shape /\ Logged /\ Intact
    BY DEF Inv
  <1>4. fr \in SUBSET Blocks /\ fr \subseteq free \cup Run(msb.alloc, SnapLen)
    BY <1>3, OldSnapIs DEF Shape
  <1> HIDE DEF fr
  <1>5. at \in fr /\ at \in Blocks /\ Run(at, SnapLen) \subseteq fr
        /\ at \in 1..(NBlocks - SnapLen + 1)
    BY <1>4, Sizes, FitIs
  <1>6. snap' \in [at : Places, left : SUBSET Blocks] /\ snap'.at = at
        /\ snap'.left = Run(at, SnapLen)
    BY <1>2, <1>4, <1>5 DEF Places
  <1>7. Shape'
    BY <1>1, <1>2, <1>3, <1>4, <1>6 DEF Shape
  <1>8. Logged'
    BY <1>1, <1>3 DEF Logged, Table
  <1>9. Intact'
    <2> SUFFICES ASSUME crashes = 0
                 PROVE  Supers' /\ Exclusive' /\ Stored' /\ SnapWritten' /\ Untouched'
      BY <1>1 DEF Intact
    <2>1. Supers /\ Exclusive /\ Stored /\ Untouched
      BY <1>3 DEF Intact
    <2>2. SnapRun' = Run(at, SnapLen) /\ SnapRun = Run(msb.alloc, SnapLen)
      BY <1>1, <1>6 DEF SnapRun
    <2>3. 0 \notin SnapRun'
      BY <1>4, <1>5, <2>2, Sizes
    <2>4. \A f \in Files : mem[f] # 0 => mem[f] \notin fr
      BY <1>4, <2>1, <2>2 DEF Exclusive
    <2>5. Exclusive'
      BY <1>1, <1>2, <1>5, <2>1, <2>2, <2>3, <2>4 DEF Exclusive
    <2>6. Stored'
      BY <1>1, <2>1 DEF Stored, Here, Table
    <2>7. SnapWritten'
      BY <1>1, <1>6, <2>2 DEF SnapWritten, Idle
    <2>9. Untouched'
      BY <1>1, <2>1 DEF Untouched
    <2> QED BY <1>1, <2>1, <2>5, <2>6, <2>7, <2>9 DEF Supers
  <1>10. MountOK => MountOK'
    BY <1>1 DEF MountOK, Mountable, Loadable
  <1>11. Durable'
    BY <1>1 DEF Durable
  <1> QED BY <1>7, <1>8, <1>9, <1>10, <1>11 DEF Inv

\* With a snapshot of one block, the header of the old one is overwritten only
\* by the header of the new one.
LEMMA WriteSnapStep ==
  ASSUME Inv, WriteSnap
  PROVE  Inv' /\ (SnapLen = 1 /\ MountOK => MountOK')
  <1> DEFINE b == Min(snap.left)
             v == SnapBlock(b - snap.at + 1, free)
  <1>1. /\ pc = "snap" /\ pc' = "snap" /\ snap.left # {}
        /\ image' = [image EXCEPT ![b] = v] /\ snap' = [snap EXCEPT !.left = @ \ {b}]
        /\ mem' = mem /\ ver' = ver /\ dirty' = dirty /\ free' = free /\ cache' = cache
        /\ sb' = sb /\ log' = log /\ msb' = msb /\ touched' = touched /\ gone' = gone /\ crashes' = crashes
    BY DEF WriteSnap
  <1>2. Shape /\ Logged /\ Intact
    BY DEF Inv
  <1>3. snap.at \in Places /\ snap.left \in SUBSET Blocks /\ free \subseteq Blocks
    BY <1>2 DEF Shape
  <1>4. b \in snap.left
    <2>1. snap.left \in SUBSET Nat
      BY <1>3, Sizes
    <2>2. \E x \in snap.left : \A y \in snap.left : x <= y
      BY <1>1, <2>1, SmallestNat
    <2> QED BY <2>2 DEF Min
  <1>5. b \in Blocks /\ b \in 0..NBlocks /\ b # 0
    BY <1>3, <1>4, Sizes
  <1>6. v.kind = "snap" /\ v.part = b - snap.at + 1 /\ v.free = free
    BY SnapBlockIs
  <1> HIDE DEF b
  <1>7. v = SnapBlock(b - snap.at + 1, free)
    OBVIOUS
  <1> HIDE DEF v
  <1>8. DOMAIN image' = 0..NBlocks /\ image'[b] = v
        /\ \A x \in 0..NBlocks : x # b => image'[x] = image[x]
    BY <1>1, <1>2, <1>5 DEF Shape
  <1>9. image'[0] = image[0] /\ Table' = Table
    <2>1. 0 \in 0..NBlocks
      BY Sizes
    <2>2. image'[0] = image[0]
      BY <1>5, <1>8, <2>1
    <2> QED BY <1>1, <2>2 DEF Table
  <1>10. snap' \in [at : Places, left : SUBSET Blocks] /\ snap'.at = snap.at
         /\ snap'.left = snap.left \ {b}
    BY <1>1, <1>2 DEF Shape
  <1>11. Shape'
    <2>1. \A x \in Blocks : image'[x].kind = "snap" => image'[x].free \subseteq Blocks
      <3>1. \A x \in Blocks : x \in 0..NBlocks
        BY Sizes
      <3> QED BY <1>2, <1>3, <1>6, <1>8, <3>1 DEF Shape
    <2> QED BY <1>1, <1>2, <1>8, <1>9, <1>10, <2>1 DEF Shape
  <1>12. Logged'
    BY <1>1, <1>2, <1>9 DEF Logged
  <1>13. b \in SnapRun /\ SnapRun' = SnapRun /\ SnapRun \subseteq Blocks
    <2>1. SnapRun = Run(snap.at, SnapLen) /\ SnapRun' = SnapRun
      BY <1>1, <1>10 DEF SnapRun
    <2> QED BY <1>2, <1>3, <1>4, <2>1, Sizes DEF Shape
  <1>14. Intact'
    <2> SUFFICES ASSUME crashes = 0
                 PROVE  Supers' /\ Exclusive' /\ Stored' /\ SnapWritten' /\ Untouched'
      BY <1>1 DEF Intact
    <2>1. Supers /\ Exclusive /\ Stored /\ SnapWritten /\ Untouched
      BY <1>2 DEF Intact
    <2>2. Exclusive'
      BY <1>1, <1>13, <2>1 DEF Exclusive
    <2>3. ASSUME NEW f \in Files, mem[f] # 0
          PROVE  Here(mem[f])' = Data(f, ver[f])
      <3>1. Here(mem[f]) = Data(f, ver[f]) /\ mem[f] # b /\ mem[f] \in 0..NBlocks
        BY <1>2, <1>13, <2>1, <2>3 DEF Stored, Exclusive, Shape, Tables
      <3> QED BY <1>1, <1>8, <3>1 DEF Here
    <2>4. Stored'
      BY <1>1, <1>9, <2>1, <2>3 DEF Stored
    <2>5. ASSUME NEW x \in SnapRun \ snap'.left
          PROVE  image'[x] = SnapBlock(x - snap.at + 1, free)
      <3>1. CASE x = b
        BY <1>7, <1>8, <3>1
      <3>2. CASE x # b
        <4>1. x \in SnapRun \ snap.left /\ x \in Blocks
          BY <1>10, <1>13, <2>5, <3>2
        <4>2. x \in 0..NBlocks
          BY <4>1, Sizes
        <4> QED BY <1>1, <1>8, <2>1, <3>2, <4>1, <4>2 DEF SnapWritten
      <3> QED BY <3>1, <3>2
    <2>6. SnapWritten'
      BY <1>1, <1>10, <1>13, <2>5 DEF SnapWritten, Idle
    <2>9. Untouched'
      BY <1>1, <1>9, <2>1 DEF Untouched
    <2> QED BY <1>1, <2>1, <2>2, <2>4, <2>6, <2>9 DEF Supers
  <1>15. SnapLen = 1 /\ MountOK => MountOK'
    <2> SUFFICES ASSUME SnapLen = 1, MountOK, crashes = 0
                 PROVE  Loadable(msb.alloc)'
      BY <1>1 DEF MountOK, Mountable
    <2>1. Loadable(msb.alloc) /\ msb.alloc \in 0..NBlocks
      <3>1. msb.alloc \in Places
        BY <1>2 DEF Shape
      <3> QED BY <3>1, PlaceIs DEF MountOK
    <2>2. CASE msb.alloc = b
      <3>1. b \in snap.at..(snap.at + 1 - 1)
        BY <1>2, <1>4 DEF Shape, Run
      <3>2. snap.at \in Nat
        BY <1>3, Sizes
      <3>3. b - snap.at + 1 = 1
        BY <3>1, <3>2
      <3> QED BY <1>1, <1>6, <1>8, <2>2, <3>3 DEF Loadable
    <2>3. CASE msb.alloc # b
      BY <1>1, <1>8, <2>1, <2>3 DEF Loadable
    <2> QED BY <2>2, <2>3
  <1>16. Durable'
    BY <1>1 DEF Durable
  <1> QED BY <1>11, <1>12, <1>14, <1>15, <1>16 DEF Inv

LEMMA WriteSuperblockStep ==
  ASSUME Inv, WriteSuperblock
  PROVE  Inv' /\ (MountOK => MountOK')
  <1>1. /\ pc = "snap" /\ snap.left = {} /\ pc' = "backup"
        /\ msb' = [msb EXCEPT !.alloc = snap.at] /\ sb' = [sb EXCEPT ![1] = msb']
        /\ mem' = mem /\ ver' = ver /\ dirty' = dirty /\ free' = free /\ cache' = cache
        /\ image' = image /\ log' = log /\ snap' = snap /\ touched' = touched /\ gone' = gone /\ crashes' = crashes
    BY DEF WriteSuperblock, SnapDone
  <1>2. Shape /\ Logged /\ Intact
    BY DEF Inv
  <1>3. snap.at \in Places /\ snap.at \in 0..NBlocks /\ snap.at \in Run(snap.at, SnapLen)
    <2>1. snap.at \in Places
      BY <1>2 DEF Shape
    <2> QED BY <2>1, PlaceIs
  <1>4. msb' \in Super /\ msb'.alloc = snap.at /\ msb'.seq = msb.seq /\ msb'.ok
    BY <1>1, <1>2, <1>3 DEF Shape, Super
  <1>5. DOMAIN sb' = {1, 2} /\ sb'[1] = msb' /\ sb'[2] = sb[2]
    BY <1>1, <1>2 DEF Shape
  <1>6. Shape'
    BY <1>1, <1>2, <1>3, <1>4, <1>5 DEF Shape
  <1>7. sb[2].ok => sb[2].seq <= msb.seq
    BY <1>1, <1>2 DEF Logged
  <1>8. msb.seq \in Nat /\ msb.seq <= msb.seq
    BY <1>2 DEF Shape, Super
  <1>9. Logged'
    BY <1>1, <1>2, <1>4, <1>5, <1>7, <1>8 DEF Logged, Table
  <1>10. crashes = 0 => image[snap.at] = SnapBlock(1, free)
    <2>1. snap.at - snap.at + 1 = 1
      BY <1>3, Sizes
    <2>2. crashes = 0 => image[snap.at] = SnapBlock(snap.at - snap.at + 1, free)
      BY <1>1, <1>2, <1>3 DEF Intact, SnapWritten, SnapRun
    <2> QED BY <2>1, <2>2
  <1>11. Intact'
    <2> SUFFICES ASSUME crashes = 0
                 PROVE  Supers' /\ Exclusive' /\ Stored' /\ SnapWritten' /\ Untouched'
      BY <1>1 DEF Intact
    <2>1. Supers /\ Exclusive /\ Stored /\ Untouched
      BY <1>2 DEF Intact
    <2>2. SnapRun' = SnapRun
      BY <1>1, <1>4 DEF SnapRun
    <2>3. Exclusive'
      BY <1>1, <2>1, <2>2 DEF Exclusive
    <2>4. Stored'
      BY <1>1, <2>1 DEF Stored, Here, Table
    <2>5. SnapWritten'
      BY <1>1, <1>4, <1>10 DEF SnapWritten, Idle
    <2>9. Untouched'
      BY <1>1, <2>1 DEF Untouched
    <2> QED BY <1>1, <1>4, <1>5, <2>1, <2>3, <2>4, <2>5, <2>9 DEF Supers
  <1>12. MountOK => MountOK'
    BY <1>1, <1>4, <1>10, SnapBlockIs DEF MountOK, Mountable, Loadable
  <1>13. Durable'
    BY <1>1 DEF Durable
  <1> QED BY <1>6, <1>9, <1>11, <1>12, <1>13 DEF Inv

LEMMA WriteBackupStep ==
  ASSUME Inv, WriteBackup
  PROVE  Inv' /\ (MountOK => MountOK')
  <1>1. /\ pc = "backup" /\ pc' = "idle" /\ touched' = {} /\ gone' = gone /\ sb' = [sb EXCEPT ![2] = msb]
        /\ mem' = mem /\ ver' = ver /\ dirty' = dirty /\ free' = free /\ cache' = cache
        /\ image' = image /\ log' = log /\ msb' = msb /\ snap' = snap /\ crashes' = crashes
    BY DEF WriteBackup
  <1>2. Shape /\ Logged /\ Intact
    BY DEF Inv
  <1>3. DOMAIN sb' = {1, 2} /\ sb'[1] = msb /\ sb'[2] = msb
    BY <1>1, <1>2 DEF Shape, Logged
  <1>4. Shape'
    BY <1>1, <1>2, <1>3 DEF Shape
  <1>5. msb.seq \in Nat /\ msb.seq <= msb.seq
    BY <1>2 DEF Shape, Super
  <1>6. TableAgrees'
    BY <1>1, <1>2 DEF TableAgrees, Accounts, Logged, Table
  <1>7. Logged'
    BY <1>1, <1>2, <1>3, <1>5, <1>6 DEF Logged
  <1>8. Intact'
    <2> SUFFICES ASSUME crashes = 0
                 PROVE  Supers' /\ Exclusive' /\ Stored' /\ SnapWritten' /\ Untouched'
      BY <1>1 DEF Intact
    <2>1. Supers /\ Exclusive /\ Stored /\ SnapWritten /\ Untouched
      BY <1>2 DEF Intact
    <2>2. SnapRun' = SnapRun
      BY <1>1 DEF SnapRun
    <2>3. Exclusive'
      BY <1>1, <2>1, <2>2 DEF Exclusive
    <2>4. Stored'
      BY <1>1, <2>1 DEF Stored, Here, Table
    <2>5. SnapWritten'
      BY <1>1, <1>2, <2>1 DEF SnapWritten, Idle, Logged, Stored
    <2>6. Supers'
      BY <1>1, <1>2, <1>3 DEF Supers, Shape
    <2>9. Untouched'
      <3>1. image[0] = mem /\ dirty = {} /\ DOMAIN cache = {}
        BY <1>1, <1>2, <2>1 DEF Logged, Stored, Table
      <3> QED BY <1>1, <3>1 DEF Untouched
    <2> QED BY <2>3, <2>4, <2>5, <2>6, <2>9
  <1>9. MountOK => MountOK'
    BY <1>1 DEF MountOK, Mountable, Loadable
  <1>10. Durable'
    BY <1>1 DEF Durable
  <1> QED BY <1>4, <1>7, <1>8, <1>9, <1>10 DEF Inv

-----------------------------------------------------------------------------
(* Crashes and mounts. *)

LEMMA TornIs == Torn \in Super /\ ~ Torn.ok
  BY Sizes DEF Torn, Super

LEMMA CrashStep ==
  ASSUME Inv, Crash
  PROVE  Inv' /\ (MountOK => MountOK')
  <1>1. /\ pc # "down" /\ pc' = "down" /\ crashes' = crashes + 1 /\ DOMAIN cache' = {}
        /\ mem' = mem /\ ver' = ver /\ dirty' = dirty /\ free' = free /\ image' = image
        /\ log' = log /\ msb' = msb /\ snap' = snap /\ touched' = touched /\ gone' = gone
        /\ \/ sb' = sb
           \/ pc = "snap" /\ sb[2].ok /\ sb' = [sb EXCEPT ![1] = Torn]
           \/ pc = "backup" /\ sb' = [sb EXCEPT ![2] = Torn]
    BY DEF Crash, SnapDone
  <1>2. Shape /\ Logged /\ Intact
    BY DEF Inv
  <1>3. /\ DOMAIN sb' = {1, 2}
        /\ \/ sb'[1] = sb[1] /\ sb'[2] = sb[2]
           \/ pc = "snap" /\ sb[2].ok /\ sb'[1] = Torn /\ sb'[2] = sb[2]
           \/ pc = "backup" /\ sb'[1] = sb[1] /\ sb'[2] = Torn
    BY <1>1, <1>2 DEF Shape
  <1>4. \A i \in {1, 2} : sb'[i] \in Super /\ (sb'[i].ok => sb'[i].alloc \in Places)
    BY <1>2, <1>3, TornIs DEF Shape
  <1>5. crashes \in Nat /\ crashes' \in Nat /\ crashes' # 0
    BY <1>1, <1>2 DEF Shape
  <1>6. Shape'
    BY <1>1, <1>2, <1>3, <1>4, <1>5 DEF Shape
  <1>7. sb'[1].ok /\ sb'[2].ok => sb'[2].seq <= sb'[1].seq
    BY <1>2, <1>3, TornIs DEF Logged
  <1>8. ASSUME Chosen'.ok, log.seq <= Chosen'.seq PROVE TableAgrees'
    <2>1. \E i \in {1, 2} : Chosen' = sb[i] /\ sb[i].ok /\ (pc = "backup" => i = 1)
      <3>1. pc = "backup" => sb[1].ok
        BY <1>2 DEF Logged, Shape
      <3> QED BY <1>3, <1>8, <3>1, TornIs DEF Chosen
    <2>2. PICK i \in {1, 2} : Chosen' = sb[i] /\ sb[i].ok /\ (pc = "backup" => i = 1)
      BY <2>1
    <2>3. CASE pc \in {"persist", "cache", "snap"} /\ Journaled
      <3>1. sb[i].seq < msb.seq /\ log.seq = msb.seq /\ log.seq <= sb[i].seq
        BY <1>2, <1>8, <2>2, <2>3 DEF Logged
      <3>2. sb[i].seq \in Nat /\ msb.seq \in Nat
        BY <1>2 DEF Shape, Super
      <3> QED BY <3>1, <3>2
    <2>4. CASE ~ Journaled
      BY <1>1, <1>2, <2>4 DEF Logged, TableAgrees, Accounts
    <2>5. CASE pc = "backup"
      BY <1>1, <1>2, <2>5 DEF Logged, TableAgrees, Accounts, Table
    <2>6. CASE pc = "idle"
      <3>1. Chosen' = Chosen
        BY <1>3, <2>6 DEF Chosen
      <3>2. TableAgrees
        BY <1>2, <1>8, <2>6, <3>1 DEF Logged
      <3> QED BY <1>1, <3>2 DEF TableAgrees, Accounts
    <2> QED BY <1>1, <1>2, <2>3, <2>4, <2>5, <2>6 DEF Shape
  <1>9. Logged'
    BY <1>1, <1>2, <1>7, <1>8 DEF Logged
  <1>10. Intact'
    BY <1>5 DEF Intact
  <1>11. MountOK => MountOK'
    <2> SUFFICES ASSUME MountOK, crashes = 0
                 PROVE  Chosen'.ok /\ Loadable(Chosen.alloc)'
      BY <1>1, <1>5 DEF MountOK, Mountable
    <2>1. Loadable(msb.alloc) /\ Supers
      BY <1>2 DEF MountOK, Intact
    <2>2. Chosen'.ok /\ Chosen'.alloc = msb.alloc
      BY <1>3, <2>1, TornIs DEF Supers, Chosen
    <2> QED BY <1>1, <2>1, <2>2 DEF Loadable
  <1>12. Durable'
    BY <1>1, <1>2, <1>5 DEF Durable, Intact, Untouched, Stored, Here
  <1> QED BY <1>6, <1>9, <1>10, <1>11, <1>12 DEF Inv

LEMMA MountStep ==
  ASSUME Inv, Mount
  PROVE  Inv' /\ (MountOK => MountOK')
  <1>1. /\ pc = "down" /\ pc' = "idle" /\ Chosen.ok /\ Loadable(Chosen.alloc) /\ msb' = Chosen
        /\ free' \in FreeRead(Chosen.alloc) /\ mem' = image[0] /\ dirty' = {}
        /\ DOMAIN cache' = {} /\ touched' = {} /\ gone' = gone
        /\ ver' = ver /\ image' = image /\ sb' = sb /\ log' = log /\ snap' = snap
        /\ crashes' = crashes
    BY DEF Mount, Replayed
  <1>2. Shape /\ Logged /\ Intact
    BY DEF Inv
  <1>3. Chosen \in Super /\ Chosen.alloc \in Places /\ Chosen.alloc \in Blocks
    BY <1>1, <1>2, Sizes DEF Shape, Chosen
  <1>4. free' \subseteq Blocks
    BY <1>1, <1>2, <1>3 DEF FreeRead, Loadable, Shape
  <1>5. Shape'
    BY <1>1, <1>2, <1>3, <1>4 DEF Shape
  <1>6. \A i \in {1, 2} : sb[i].ok => sb[i].seq <= Chosen.seq
    <2>1. Chosen.seq \in Nat
      BY <1>3 DEF Super
    <2> QED BY <1>1, <1>2, <2>1 DEF Logged, Chosen
  <1>7. Chosen' = Chosen
    BY <1>1 DEF Chosen
  <1>8. Chosen'.ok /\ log'.seq <= Chosen'.seq => TableAgrees'
    BY <1>1, <1>2, <1>7 DEF Logged, TableAgrees, Accounts
  <1>9. Logged'
    BY <1>1, <1>2, <1>6, <1>8 DEF Logged
  <1>10. crashes # 0
    BY <1>1, <1>2 DEF Intact
  <1>11. Intact' /\ (MountOK => MountOK')
    BY <1>1, <1>10 DEF Intact, MountOK, Mountable
  <1>12. Durable'
    BY <1>1 DEF Durable
  <1> QED BY <1>5, <1>9, <1>11, <1>12 DEF Inv

-----------------------------------------------------------------------------
(* The invariant, and what follows from it. *)

LEMMA StepInv == Inv /\ [Next]_vars => Inv' /\ (SnapLen = 1 /\ MountOK => MountOK')
  <1> SUFFICES ASSUME Inv, [Next]_vars
               PROVE  Inv' /\ (SnapLen = 1 /\ MountOK => MountOK')
    OBVIOUS
  <1>1. CASE UNCHANGED vars
    BY <1>1 DEF vars, Inv, Shape, Logged, TableAgrees, Accounts, Untouched, Durable, Table, Chosen,
                Intact, Supers, Exclusive,
       SnapRun, Stored, Here, SnapWritten, Idle, MountOK, Mountable, Loadable
  <1>2. ASSUME NEW f \in Files, Write(f) \/ Remove(f)
        PROVE  Inv' /\ (SnapLen = 1 /\ MountOK => MountOK')
    BY <1>2, WriteStep, RemoveStep
  <1>3. ASSUME NEW b \in 0..NBlocks, WriteBack(b)
        PROVE  Inv' /\ (SnapLen = 1 /\ MountOK => MountOK')
    BY <1>3, WriteBackStep
  <1>4. CASE Commit
    BY <1>4, CommitStep
  <1>5. CASE Persist
    BY <1>5, PersistStep
  <1>6. CASE AllocSnap
    BY <1>6, AllocSnapStep
  <1>7. CASE WriteSnap
    BY <1>7, WriteSnapStep
  <1>8. CASE WriteSuperblock
    BY <1>8, WriteSuperblockStep
  <1>9. CASE WriteBackup
    BY <1>9, WriteBackupStep
  <1>10. CASE Crash
    BY <1>10, CrashStep
  <1>11. CASE Mount
    BY <1>11, MountStep
  <1> QED BY <1>1, <1>2, <1>3, <1>4, <1>5, <1>6, <1>7, <1>8, <1>9, <1>10, <1>11, Zenon DEF Next

\* The inductive invariant of the checkpoint.
THEOREM InvHolds == Spec => []Inv
  <1>1. Init => Inv
    BY InitInv
  <1>2. Inv /\ [Next]_vars => Inv'
    BY StepInv
  <1> QED BY <1>1, <1>2, PTL DEF Spec

\* Until a crash no block is both free and held, by a file or by the allocator
\* snapshot, and no two files hold the same one, although flush_all frees the
\* old snapshot before it places the new one.
THEOREM WellFormedHolds == Spec => []WellFormed
  <1>1. Inv => WellFormed
    <2> SUFFICES ASSUME Inv PROVE WellFormed
      OBVIOUS
    <2>1. Shape /\ Intact
      BY DEF Inv
    <2>2. \A i \in {1, 2} : sb[i].ok => sb[i].alloc \in Blocks
      <3>1. \A i \in {1, 2} : sb[i].ok => sb[i].alloc \in Places
        BY <2>1 DEF Shape
      <3> QED BY <3>1, Sizes
    <2>3. snap.left \subseteq Blocks
      BY <2>1 DEF Shape
    <2>4. TypeOK
      BY <2>1, <2>2, <2>3 DEF TypeOK, Shape, Tables
    <2>5. BlocksExclusive
      <3> SUFFICES ASSUME Idle, crashes = 0
                   PROVE  /\ Run(msb.alloc, SnapLen) \cap (free \cup {mem[f] : f \in Files}) = {}
                          /\ \A f \in Files : mem[f] # 0 =>
                               mem[f] \notin free /\ \A g \in Files \ {f} : mem[g] # mem[f]
        BY DEF BlocksExclusive
      <3>1. Exclusive /\ SnapRun = Run(msb.alloc, SnapLen)
        BY <2>1 DEF Intact, SnapRun, Idle
      <3> QED BY <3>1 DEF Exclusive
    <2> QED BY <2>4, <2>5 DEF WellFormed
  <1> QED BY <1>1, InvHolds, PTL

\* What the image holds when flush_all has returned is what memory holds:
\* table, contents and free blocks, whichever blocks were evicted before and
\* in whichever order the cache was written.
THEOREM CheckpointCompleteHolds == Spec => []CheckpointComplete
  <1>1. Inv => CheckpointComplete
    <2> SUFFICES ASSUME Inv, touched = {}, Idle, crashes = 0
                 PROVE  /\ image[0] = mem
                        /\ \A f \in Files : mem[f] # 0 => image[mem[f]] = Data(f, ver[f])
                        /\ Loadable(Chosen.alloc) /\ image[Chosen.alloc].free = free
      BY DEF CheckpointComplete
    <2>1. /\ Supers /\ Stored /\ DOMAIN cache = {} /\ dirty = {}
          /\ image[msb.alloc] = SnapBlock(1, free)
      BY DEF Inv, Intact, SnapWritten
    <2>2. image[0] = mem
      <3>1. \A f \in Files : image[0][f] = mem[f]
        BY <2>1 DEF Stored, Table, Idle
      <3>2. image[0] \in [Files -> 0..NBlocks] /\ mem \in [Files -> 0..NBlocks]
        BY DEF Inv, Shape, Tables
      <3> QED BY <3>1, <3>2
    <2>3. \A f \in Files : mem[f] # 0 => image[mem[f]] = Data(f, ver[f])
      BY <2>1 DEF Stored, Here
    <2>4. Chosen.alloc = msb.alloc
      BY <2>1 DEF Supers, Chosen
    <2> QED BY <2>1, <2>2, <2>3, <2>4, SnapBlockIs DEF Loadable
  <1> QED BY <1>1, InvHolds, PTL

\* Over any number of crashes and mounts: every inode of a transaction that the
\* superblock counts is in the table as it was committed, unless its file was
\* removed since, so that replay loses nothing by applying none of them.
THEOREM CommittedCheckpointedHolds == Spec => []CommittedCheckpointed
  <1>1. Inv => CommittedCheckpointed
    BY DEF Inv, Logged, CommittedCheckpointed, TableAgrees, Accounts
  <1> QED BY <1>1, InvHolds, PTL

\* The first crash, at whichever write it strikes, leaves in the image the table
\* entry and the contents of every file that nobody wrote or removed since the
\* last checkpoint.
THEOREM DurableHolds == Spec => []Durable
  <1>1. Inv => Durable
    BY DEF Inv
  <1> QED BY <1>1, InvHolds, PTL

\* With an allocator snapshot of one block, the image is mountable after the
\* first crash, at whichever write of flush_all or eviction it strikes.
THEOREM MountableHolds ==
  ASSUME SnapLen = 1
  PROVE  Spec => [](crashes <= 1 => Mountable)
  <1> DEFINE K == Inv /\ MountOK
             Q == crashes <= 1 => Mountable
  <1>1. Init => K
    BY InitInv
  <1>2. K /\ [Next]_vars => K'
    BY StepInv
  <1>3. K => Q
    <2> SUFFICES ASSUME Inv, MountOK, crashes <= 1, pc = "down" PROVE Mountable
      BY DEF Mountable
    <2>1. crashes \in Nat /\ crashes # 0
      BY DEF Inv, Shape, Intact
    <2>2. crashes = 1
      BY <2>1
    <2> QED BY <2>2 DEF MountOK
  <1> HIDE DEF K, Q
  <1>4. Spec => []Q
    BY <1>1, <1>2, <1>3, PTL DEF Spec
  <1> QED BY <1>4 DEF Q
=============================================================================
