-------------------------- MODULE PathWalkProofs ----------------------------
(***************************************************************************)
(* Proof that a process stays in its root, for every tree, every set of    *)
(* paths and every number of open directories.  The invariant adds to      *)
(* Jailed the shape of the state and that the tree is one of Trees.        *)
(***************************************************************************)
EXTENDS PathWalk, DataFacts

\* The records have their fields, and inodes are inodes.
Shape ==
  /\ tree \in Trees
  /\ proc \in [root : Inos, cwd : Inos, fds : SUBSET Inos]
  /\ leaky \in BOOLEAN
  /\ w = [dir |-> w.dir, comps |-> w.comps, i |-> w.i, hops |-> w.hops, out |-> w.out]
  /\ w.dir \in Inos
  /\ w.out.ino \in Inos \cup {NoIno}
  /\ w.out.parent \in Inos \cup {NoIno}

\* While no call is executed there is no activation of walk.
Resting == call.op = "none" => w = NoWalk

Inv == Shape /\ Resting /\ Jailed

\* S holds, with a directory, all its entries.
Closed(S) ==
  \A d \in S : tree.kind[d] = "dir" => \A n \in DOMAIN tree.ents[d] : tree.ents[d][n] \in S

-----------------------------------------------------------------------------
(* The subtree below a directory. *)

\* Below in terms of Closed.
LEMMA BelowDef ==
  ASSUME NEW r
  PROVE  Below(r) = {i \in Inos : \A S \in SUBSET Inos : r \in S /\ Closed(S) => i \in S}
BY DEF Below, Closed

\* A directory is below itself.
LEMMA BelowSelf ==
  ASSUME NEW r \in Inos
  PROVE  r \in Below(r)
BY BelowDef

\* So is what a directory below r holds: a lookup goes down.
LEMMA BelowChild ==
  ASSUME NEW r \in Inos, NEW d \in Below(r), tree \in Trees,
         tree.kind[d] = "dir", NEW n \in DOMAIN tree.ents[d]
  PROVE  tree.ents[d][n] \in Below(r)
<1>1. d \in Inos /\ tree.ents[d][n] \in Inos
  BY BelowDef, PathWalkAssumption DEF IsTree
<1>2. SUFFICES ASSUME NEW S \in SUBSET Inos, r \in S, Closed(S)
               PROVE  tree.ents[d][n] \in S
  BY <1>1, BelowDef
<1>3. d \in S
  BY <1>2, BelowDef
<1> QED
  BY <1>2, <1>3 DEF Closed

\* ".." of a directory below r other than r stays below r: a directory is an
\* entry of the directory its ".." names only, so that a closed set without
\* the parent could do without the directory.
LEMMA BelowUp ==
  ASSUME NEW r \in Inos, NEW d \in Below(r), tree \in Trees,
         tree.kind[d] = "dir", d # r
  PROVE  tree.up[d] \in Below(r)
<1>1. d \in Inos /\ tree.up[d] \in Inos
  BY BelowDef, PathWalkAssumption DEF IsTree
<1>2. SUFFICES ASSUME NEW S \in SUBSET Inos, r \in S, Closed(S), tree.up[d] \notin S
               PROVE  FALSE
  BY <1>1, BelowDef
<1> DEFINE T == S \ {d}
<1>3. \A x \in T : tree.kind[x] = "dir" => \A n \in DOMAIN tree.ents[x] : tree.ents[x][n] \in T
  <2>1. SUFFICES ASSUME NEW x \in T, tree.kind[x] = "dir", NEW n \in DOMAIN tree.ents[x]
                 PROVE  tree.ents[x][n] \in T
    OBVIOUS
  <2>2. tree.ents[x][n] \in S
    BY <1>2, <2>1 DEF Closed
  <2>3. tree.ents[x][n] # d
    BY <1>2, <2>1, PathWalkAssumption DEF IsTree
  <2> QED
    BY <2>2, <2>3
<1>4. T \in SUBSET Inos /\ r \in T /\ Closed(T)
  BY <1>2, <1>3 DEF Closed
<1>5. d \in T
  BY <1>4, BelowDef
<1> QED
  BY <1>5

-----------------------------------------------------------------------------
(* The steps. *)

\* Above of a directory in the jail is in the jail.
LEMMA AboveStays ==
  ASSUME Shape, NEW d \in Below(proc.root), d = proc.root \/ tree.kind[d] = "dir"
  PROVE  Above(d) \in Below(proc.root) /\ Above(d) \in Inos
<1>1. proc.root \in Inos /\ tree \in Trees
  BY DEF Shape
<1>2. Above(d) \in Below(proc.root)
  BY <1>1, BelowUp DEF Above
<1> QED
  BY <1>2, BelowDef

\* A turn of the loop that returns r, which lies in the jail.
LEMMA ReturnKeeps ==
  ASSUME Inv, Frame, call.op # "none", NEW r, Return(r),
         r.ino \in Inos \cup {NoIno}, r.parent \in Inos \cup {NoIno},
         ~ leaky => /\ r.ino # NoIno => r.ino \in Below(proc.root)
                    /\ r.parent # NoIno => r.parent \in Below(proc.root)
  PROVE  Inv'
<1>1. w' = [dir |-> w.dir, comps |-> w.comps, i |-> w.i, hops |-> w.hops, out |-> r]
  BY DEF Inv, Shape, Return
<1>2. w'.dir = w.dir /\ w'.out = r
  BY <1>1
<1>3. Shape'
  BY <1>1, <1>2 DEF Inv, Shape, Frame
<1>4. Jailed'
  BY <1>2 DEF Inv, Jailed, Frame, Below
<1> QED
  BY <1>3, <1>4 DEF Inv, Resting, Frame

\* A turn of the loop that goes on in d, which lies in the jail.
LEMMA AdvanceKeeps ==
  ASSUME Inv, Frame, call.op # "none", NEW d \in Inos, Advance(d),
         ~ leaky => d \in Below(proc.root)
  PROVE  Inv'
<1>1. w' = [dir |-> d, comps |-> w.comps, i |-> w.i + 1, hops |-> w.hops, out |-> w.out]
  BY DEF Inv, Shape, Advance
<1>2. w'.dir = d /\ w'.out = w.out
  BY <1>1
<1>3. Shape'
  BY <1>1, <1>2 DEF Inv, Shape, Frame
<1>4. Jailed'
  BY <1>2 DEF Inv, Jailed, Frame, Below
<1> QED
  BY <1>3, <1>4 DEF Inv, Resting, Frame

\* An activation of walk that starts in the jail.
LEMMA WalkKeeps ==
  ASSUME Inv, UNCHANGED <<tree, proc, leaky>>, call'.op # "none",
         NEW s \in Inos, NEW p, w' = Walk(s, p),
         ~ leaky => s \in Below(proc.root)
  PROVE  Inv'
<1> DEFINE d == IF p # <<>> /\ p[1] = Root THEN proc.root ELSE s
           r == IF p = <<>> THEN Fail("EINVAL") ELSE Pending
<1>1. d \in Inos /\ (~ leaky => d \in Below(proc.root))
  BY BelowSelf DEF Inv, Shape
<1>2. r.ino = NoIno /\ r.parent = NoIno
  BY DEF Pending, Fail
<1>3. w' = [dir |-> d, comps |-> p, i |-> 1, hops |-> 0, out |-> r]
  BY DEF Walk
<1> HIDE DEF d, r
<1>4. w'.dir = d /\ w'.out = r
  BY <1>3
<1>5. Shape'
  BY <1>1, <1>2, <1>3, <1>4 DEF Inv, Shape
<1>6. Jailed'
  BY <1>1, <1>2, <1>4 DEF Inv, Jailed, Below
<1> QED
  BY <1>5, <1>6 DEF Inv, Resting

\* Every turn of the loop.
LEMMA StepKeeps ==
  ASSUME Inv, Step
  PROVE  Inv'
<1> USE DEF NoIno
<1>0. /\ call.op # "none" /\ Frame
      /\ proc.root \in Inos /\ tree \in Trees /\ w.dir \in Inos
      /\ ~ leaky => w.dir \in Below(proc.root)
  BY DEF Inv, Shape, Jailed, Step, StepRoot, StepCur, StepUp, StepMiss, StepLink,
         StepDown, StepEnd, Found, Running
<1>1. ASSUME NEW e, Return(Fail(e)) PROVE Inv'
  BY <1>0, <1>1, ReturnKeeps DEF Fail
<1>2. CASE StepRoot
  BY <1>0, <1>2, AdvanceKeeps, BelowSelf DEF StepRoot
<1>3. CASE StepCur
  BY <1>0, <1>3, AdvanceKeeps DEF StepCur
<1>4. CASE StepUp
  <2>1. CASE \E e : Return(Fail(e))
    BY <1>1, <2>1
  <2>2. CASE /\ w.dir = proc.root \/ tree.kind[w.dir] = "dir"
             /\ Return(Resolved(Above(w.dir), Up, Above(w.dir))) \/ Advance(Above(w.dir))
    <3> DEFINE a == Above(w.dir)
    <3>1. a \in Inos
      BY <1>0, PathWalkAssumption DEF Above, IsTree
    <3>2. ~ leaky => a \in Below(proc.root)
      BY <1>0, <2>2, AboveStays DEF Inv
    <3>3. Return(Resolved(a, Up, a)) \/ Advance(a)
      BY <2>2
    <3> HIDE DEF a
    <3>4. CASE Return(Resolved(a, Up, a))
      <4> DEFINE r == Resolved(a, Up, a)
      <4>1. r.ino = a /\ r.parent = a
        BY DEF Resolved
      <4>2. Return(r)
        BY <3>4
      <4> HIDE DEF r
      <4> QED
        BY <1>0, <3>1, <3>2, <4>1, <4>2, ReturnKeeps
    <3>5. CASE Advance(a)
      BY <1>0, <3>1, <3>2, <3>5, AdvanceKeeps
    <3> QED
      BY <3>3, <3>4, <3>5
  <2> QED
    BY <1>4, <2>1, <2>2 DEF StepUp
<1>5. CASE StepMiss
  <2>1. CASE \E e : Return(Fail(e))
    BY <1>1, <2>1
  <2>2. CASE Return(Resolved(w.dir, Comp, NoIno))
    <3> DEFINE r == Resolved(w.dir, Comp, NoIno)
    <3>1. r.ino = NoIno /\ r.parent = w.dir
      BY DEF Resolved
    <3>2. Return(r)
      BY <2>2
    <3> HIDE DEF r
    <3> QED
      BY <1>0, <3>1, <3>2, ReturnKeeps
  <2> QED
    BY <1>5, <2>1, <2>2 DEF StepMiss
<1>6. CASE StepLink
  <2>1. CASE Return(Fail("ELOOP"))
    BY <1>1, <2>1
  <2>2. CASE w' = Walk(w.dir, Rest(tree.target[Child]))
    <3>1. UNCHANGED <<tree, proc, leaky>> /\ call'.op # "none"
      BY <1>0 DEF Frame
    <3> QED
      BY <1>0, <2>2, <3>1, WalkKeeps
  <2> QED
    BY <1>6, <2>1, <2>2 DEF StepLink
<1>7. CASE StepDown
  <2> DEFINE c == Child
  <2>1. /\ tree.kind[w.dir] = "dir" /\ Comp \in DOMAIN tree.ents[w.dir]
        /\ Return(Resolved(w.dir, Comp, c)) \/ Advance(c)
    BY <1>7 DEF StepDown, Found
  <2>2. c \in Inos /\ (~ leaky => c \in Below(proc.root))
    BY <1>0, <2>1, BelowChild, PathWalkAssumption DEF Child, IsTree
  <2> HIDE DEF c
  <2>3. CASE Return(Resolved(w.dir, Comp, c))
    <3> DEFINE r == Resolved(w.dir, Comp, c)
    <3>1. r.ino = c /\ r.parent = w.dir
      BY DEF Resolved
    <3>2. Return(r)
      BY <2>3
    <3> HIDE DEF r
    <3> QED
      BY <1>0, <2>2, <3>1, <3>2, ReturnKeeps
  <2>4. CASE Advance(c)
    BY <1>0, <2>2, <2>4, AdvanceKeeps
  <2> QED
    BY <2>1, <2>3, <2>4
<1>8. CASE StepEnd
  <2> DEFINE r == Resolved(w.dir, "", w.dir)
  <2>1. r.ino = w.dir /\ r.parent = w.dir
    BY DEF Resolved
  <2>2. Return(r)
    BY <1>8 DEF StepEnd
  <2> HIDE DEF r
  <2> QED
    BY <1>0, <2>1, <2>2, ReturnKeeps
<1> QED
  BY <1>2, <1>3, <1>4, <1>5, <1>6, <1>7, <1>8 DEF Step

\* A call that ends or a descriptor operation: the process changes.
LEMMA ProcKeeps ==
  ASSUME Inv, UNCHANGED tree, leaky' \in BOOLEAN,
         proc' \in [root : Inos, cwd : Inos, fds : SUBSET Inos],
         w' = NoWalk, call'.op = "none",
         ~ leaky' => {proc'.cwd} \cup proc'.fds \subseteq Below(proc'.root)
  PROVE  Inv'
<1>1. /\ w' = [dir |-> w'.dir, comps |-> w'.comps, i |-> w'.i, hops |-> w'.hops, out |-> w'.out]
      /\ w'.dir = ROOT_INO /\ w'.out.ino = NoIno /\ w'.out.parent = NoIno
  BY DEF NoWalk, Pending, Fail
<1>2. Shape'
  BY <1>1, PathWalkAssumption DEF Inv, Shape
<1>3. Jailed'
  BY <1>1 DEF Inv, Jailed, Below
<1>4. Resting'
  BY DEF Resting, NoWalk, Pending, Fail
<1> QED
  BY <1>2, <1>3, <1>4 DEF Inv

\* Every step keeps the invariant.
LEMMA NextKeeps ==
  ASSUME Inv, [Next]_vars
  PROVE  Inv'
<1>0. /\ proc \in [root : Inos, cwd : Inos, fds : SUBSET Inos]
      /\ leaky \in BOOLEAN /\ w.out.ino \in Inos \cup {NoIno}
      /\ ~ leaky => {proc.cwd} \cup proc.fds \subseteq Below(proc.root)
      /\ ~ leaky /\ w.out.ino # NoIno => w.out.ino \in Below(proc.root)
  BY DEF Inv, Shape, Jailed
<1>1. CASE Step
  BY <1>1, StepKeeps
<1>2. ASSUME NEW op \in Ops, NEW path \in Paths, NEW start \in {proc.cwd} \cup proc.fds,
             Begin(op, start, path)
      PROVE  Inv'
  <2>1. UNCHANGED <<tree, proc, leaky>> /\ call'.op # "none" /\ w' = Walk(start, path)
    BY <1>2 DEF Begin, Ops
  <2>2. start \in Inos /\ (~ leaky => start \in Below(proc.root))
    BY <1>0, <1>2
  <2> QED
    BY <2>1, <2>2, WalkKeeps
<1>3. CASE FinishChdir
  <2>1. /\ w' = NoWalk /\ call'.op = "none" /\ UNCHANGED <<tree, leaky>>
        /\ w.out.ino # NoIno
        /\ proc' = [root |-> proc.root, cwd |-> w.out.ino, fds |-> proc.fds]
    BY <1>0, <1>3 DEF FinishChdir, Reached, Idle, IsDir
  <2> QED
    BY <1>0, <2>1, ProcKeeps
<1>4. CASE FinishChroot
  <2>1. /\ w' = NoWalk /\ call'.op = "none" /\ UNCHANGED tree
        /\ w.out.ino # NoIno
        /\ proc' = [root |-> w.out.ino, cwd |-> w.out.ino, fds |-> proc.fds]
        /\ leaky' = (leaky \/ ~ proc.fds \subseteq Below(w.out.ino))
    BY <1>0, <1>4 DEF FinishChroot, Reached, Idle, IsDir
  <2>2. w.out.ino \in Inos /\ w.out.ino \in Below(w.out.ino)
    BY <1>0, <2>1, BelowSelf
  <2>3. leaky' \in BOOLEAN
    BY <2>1
  <2>4. ~ leaky' => {proc'.cwd} \cup proc'.fds \subseteq Below(proc'.root)
    BY <2>1, <2>2
  <2>5. proc' \in [root : Inos, cwd : Inos, fds : SUBSET Inos]
    BY <1>0, <2>1, <2>2
  <2> QED
    BY <2>1, <2>3, <2>4, <2>5, ProcKeeps
<1>5. CASE FinishOpen
  <2>1. /\ w' = NoWalk /\ call'.op = "none" /\ UNCHANGED <<tree, leaky>>
        /\ w.out.ino # NoIno
        /\ proc' = [root |-> proc.root, cwd |-> proc.cwd, fds |-> proc.fds \cup {w.out.ino}]
    BY <1>0, <1>5 DEF FinishOpen, Reached, Idle, IsDir
  <2> QED
    BY <1>0, <2>1, ProcKeeps
<1>6. CASE FinishOther
  <2>1. w' = NoWalk /\ call'.op = "none" /\ UNCHANGED <<tree, proc, leaky>>
    BY <1>6 DEF FinishOther, Idle
  <2> QED
    BY <1>0, <2>1, ProcKeeps
<1>7. ASSUME NEW d \in Inos, Fchdir(d)
      PROVE  Inv'
  <2>1. /\ w' = NoWalk /\ call'.op = "none" /\ UNCHANGED <<tree, leaky>>
        /\ d \in proc.fds
        /\ proc' = [root |-> proc.root, cwd |-> d, fds |-> proc.fds]
    BY <1>0, <1>7 DEF Fchdir, Idle, Inv, Resting
  <2> QED
    BY <1>0, <2>1, ProcKeeps
<1>8. ASSUME NEW d \in Inos, Close(d)
      PROVE  Inv'
  <2>1. /\ w' = NoWalk /\ call'.op = "none" /\ UNCHANGED <<tree, leaky>>
        /\ proc' = [root |-> proc.root, cwd |-> proc.cwd, fds |-> proc.fds \ {d}]
    BY <1>0, <1>8 DEF Close, Idle, Inv, Resting
  <2> QED
    BY <1>0, <2>1, ProcKeeps
<1>9. CASE UNCHANGED vars
  BY <1>9 DEF Inv, Shape, Resting, Jailed, Below, vars
<1> QED
  BY <1>1, <1>2, <1>3, <1>4, <1>5, <1>6, <1>7, <1>8, <1>9 DEF Next, Finish

\* The first state.
LEMMA InitInv == Init => Inv
<1> SUFFICES ASSUME Init PROVE Inv
  OBVIOUS
<1>1. /\ proc.root = ROOT_INO /\ proc.cwd = ROOT_INO /\ proc.fds = {}
      /\ proc \in [root : Inos, cwd : Inos, fds : SUBSET Inos]
  BY PathWalkAssumption DEF Init
<1>2. w = NoWalk /\ w.dir = ROOT_INO /\ w.out.ino = NoIno /\ w.out.parent = NoIno
  BY DEF Init, NoWalk, Pending, Fail
<1>3. Shape
  BY <1>1, <1>2, PathWalkAssumption DEF Init, Shape, NoWalk
<1>4. ROOT_INO \in Below(ROOT_INO)
  BY BelowSelf, PathWalkAssumption
<1>5. Jailed
  BY <1>1, <1>2, <1>4 DEF Init, Jailed, Idle
<1> QED
  BY <1>2, <1>3, <1>5 DEF Inv, Resting

-----------------------------------------------------------------------------
\* No sequence of chdir, chroot, openat, fchdir and close, along paths with
\* "..", "/" and symlinks, takes a process of Context out of its root, nor a
\* walk in its middle, unless it held a directory outside when it entered:
\* for every tree whose ".." entries are right, and every path.
THEOREM StaysJailed == Spec => []Jailed
<1>1. Init => Inv
  BY InitInv
<1>2. Inv /\ [Next]_vars => Inv'
  BY NextKeeps
<1>3. Inv => Jailed
  BY DEF Inv
<1> QED
  BY <1>1, <1>2, <1>3, PTL DEF Spec
-----------------------------------------------------------------------------
(* The components of a path and the place in it. *)

\* What remains without "." is a path.
LEMMA WithoutCurType ==
  ASSUME NEW s \in Seq(STRING)
  PROVE  WithoutCur(s) \in Seq(STRING)
<1> DEFINE n == Len(s)
           T == Seq(STRING)
           e == <<>>
           h == [p \in (1..n) \X T |-> IF s[p[1]] = Cur THEN p[2] ELSE Append(p[2], s[p[1]])]
           Body(g, k) == IF k = 0 THEN <<>>
                         ELSE IF s[k] = Cur THEN g[k - 1] ELSE Append(g[k - 1], s[k])
           IsKept(g) == g = [k \in 0..n |-> Body(g, k)]
           kept == CHOOSE g : IsKept(g)
<1>1. n \in Nat /\ \A k \in 1..n : s[k] \in STRING
  BY LenProperties, ElementOfSeq
<1>2. h \in [(1..n) \X T -> T]
  <2>1. ASSUME NEW k \in 1..n, NEW t \in Seq(STRING) PROVE Append(t, s[k]) \in Seq(STRING)
    BY <1>1, AppendProperties
  <2> QED
    BY <2>1
<1>3. PICK g \in [0..n -> T] : g[0] = e /\ \A k \in 1..n : g[k] = h[<<k, g[k - 1]>>]
  <2>1. e \in T
    BY EmptySeq
  <2>2. n \in Nat /\ h \in StepFunctions(n, T)
    BY <1>1, <1>2 DEF StepFunctions
  <2> HIDE DEF n, T, e, h
  <2>3. \E g : IsRecursion(g, n, T, e, h)
    BY <2>1, <2>2, RecursionExists
  <2> QED
    BY <2>3 DEF IsRecursion
<1>4. ASSUME NEW k \in 0..n PROVE g[k] = Body(g, k)
  <2>1. CASE k = 0
    BY <1>3, <2>1
  <2>2. CASE k # 0
    <3>1. k \in 1..n /\ k - 1 \in 0..n
      BY <1>1, <2>2
    <3>2. g[k - 1] \in T
      BY <1>3, <3>1
    <3> QED
      BY <1>3, <2>2, <3>1, <3>2
  <2> QED
    BY <2>1, <2>2
<1>5. IsKept(kept)
  <2>1. IsKept(g)
    <3> HIDE DEF Body
    <3> QED
      BY <1>3, <1>4
  <2> HIDE DEF IsKept
  <2> QED
    BY <2>1
<1>6. WithoutCur(s) = kept[n]
  BY DEF WithoutCur
<1> DEFINE P == {k \in Nat : k <= n => kept[k] \in T}
<1>7. \A k \in 0..n : kept[k] = Body(kept, k)
  <2> HIDE DEF kept, Body
  <2> QED
    BY <1>5
<1> HIDE DEF kept
<1>8. 0 \in P
  <2>1. 0 \in 0..n /\ e \in T
    BY <1>1, EmptySeq
  <2>2. kept[0] = e
    BY <1>7, <2>1
  <2> QED
    BY <2>1, <2>2
<1>9. ASSUME NEW k \in Nat, k \in P PROVE k + 1 \in P
  <2> SUFFICES ASSUME k + 1 <= n PROVE kept[k + 1] \in T
    OBVIOUS
  <2>1. k + 1 \in 0..n /\ k + 1 # 0 /\ (k + 1) - 1 = k /\ k <= n /\ k + 1 \in 1..n
    BY <1>1
  <2>2. kept[k] \in Seq(STRING) /\ s[k + 1] \in STRING
    BY <1>1, <1>9, <2>1
  <2>3. kept[k + 1] = IF s[k + 1] = Cur THEN kept[k] ELSE Append(kept[k], s[k + 1])
    BY <1>7, <2>1
  <2>4. Append(kept[k], s[k + 1]) \in Seq(STRING)
    BY <2>2, AppendProperties
  <2> QED
    BY <2>2, <2>3, <2>4
<1>10. n \in P
  <2> HIDE DEF P
  <2> QED
    BY <1>1, <1>8, <1>9, NatInduct
<1> QED
  BY <1>1, <1>6, <1>10

\* The path of a symlink, spliced.
LEMMA RestType ==
  ASSUME w.comps \in Seq(STRING), w.i \in 1..Len(w.comps), NEW t \in Seq(STRING)
  PROVE  Rest(t) \in Seq(STRING)
<1>1. SubSeq(w.comps, w.i + 1, Len(w.comps)) \in Seq(STRING)
  <2>1. Len(w.comps) \in Nat
    BY LenProperties
  <2>2. \A k \in (w.i + 1)..Len(w.comps) : w.comps[k] \in STRING
    BY <2>1, ElementOfSeq
  <2> QED
    BY <2>1, <2>2, SubSeqProperties
<1>2. WithoutCur(SubSeq(w.comps, w.i + 1, Len(w.comps))) \in Seq(STRING)
  BY <1>1, WithoutCurType
<1> QED
  BY <1>2, ConcatProperties DEF Rest

\* Calls and paths; a walk stands at a component of its path or at its end.
Words ==
  /\ call \in [op : Ops \cup {"none"}, follow : BOOLEAN, start : Inos, path : Seq(STRING)]
  /\ w.comps \in Seq(STRING)
  /\ w.i \in 1..(Len(w.comps) + 1)
  /\ w.hops \in Nat

\* A turn of the loop.
LEMMA StepWords ==
  ASSUME Inv, Words, Step
  PROVE  Words'
<1>0. /\ call' = call /\ Len(w.comps) \in Nat
      /\ w = [dir |-> w.dir, comps |-> w.comps, i |-> w.i, hops |-> w.hops, out |-> w.out]
  BY LenProperties DEF Inv, Shape, Words, Step, StepRoot, StepCur, StepUp, StepMiss, StepLink,
         StepDown, StepEnd, Frame
<1>1. ASSUME NEW r, Return(r) PROVE Words'
  <2>1. w' = [dir |-> w.dir, comps |-> w.comps, i |-> w.i, hops |-> w.hops, out |-> r]
    BY <1>0, <1>1 DEF Return
  <2>2. w'.comps = w.comps /\ w'.i = w.i /\ w'.hops = w.hops
    BY <2>1
  <2> QED
    BY <1>0, <2>2 DEF Words
<1>2. ASSUME NEW d, Advance(d), w.i <= Len(w.comps) PROVE Words'
  <2>1. w' = [dir |-> d, comps |-> w.comps, i |-> w.i + 1, hops |-> w.hops, out |-> w.out]
    BY <1>0, <1>2 DEF Advance
  <2>2. w'.comps = w.comps /\ w'.i = w.i + 1 /\ w'.hops = w.hops
    BY <2>1
  <2> QED
    BY <1>0, <1>2, <2>2 DEF Words
<1>3. CASE StepLink
  <2>1. CASE \E r : Return(r)
    BY <1>1, <2>1
  <2>2. CASE w' = Walk(w.dir, Rest(tree.target[Child]))
    <3>1. /\ tree \in Trees /\ w.dir \in Inos /\ Comp \in DOMAIN tree.ents[w.dir]
          /\ w.i \in 1..Len(w.comps)
      BY <1>0, <1>3 DEF StepLink, Found, Running, Inv, Shape, Words
    <3>2. tree.target[Child] \in Seq(STRING)
      BY <3>1, PathWalkAssumption DEF IsTree, Child
    <3> DEFINE p == Rest(tree.target[Child])
    <3>3. p \in Seq(STRING)
      BY <3>1, <3>2, RestType DEF Words
    <3>4. w' = Walk(w.dir, p)
      BY <2>2
    <3> HIDE DEF p
    <3>5. w'.comps = p /\ w'.i = 1 /\ w'.hops = 0 /\ Len(p) \in Nat
      BY <3>3, <3>4, LenProperties DEF Walk
    <3> QED
      BY <1>0, <3>3, <3>5 DEF Words
  <2> QED
    BY <1>3, <2>1, <2>2 DEF StepLink
<1>4. CASE \E r : Return(r)
  BY <1>1, <1>4
<1>5. CASE w.i <= Len(w.comps) /\ \E d : Advance(d)
  BY <1>2, <1>5
<1> QED
  BY <1>3, <1>4, <1>5 DEF Step, StepRoot, StepCur, StepUp, StepMiss, StepDown, StepEnd, Found, Running

\* Every step.
LEMMA NextWords ==
  ASSUME Inv, Words, [Next]_vars
  PROVE  Words'
<1>1. CASE Step
  BY <1>1, StepWords
<1>2. ASSUME NEW op \in Ops, NEW path \in Paths, NEW start \in {proc.cwd} \cup proc.fds,
             Begin(op, start, path)
      PROVE  Words'
  <2>1. start \in Inos /\ path \in Seq(STRING)
    BY <1>2, PathWalkAssumption DEF Inv, Shape
  <2>2. w'.comps = path /\ w'.i = 1 /\ w'.hops = 0 /\ Len(path) \in Nat
    BY <1>2, <2>1, LenProperties DEF Begin, Walk
  <2>3. call' \in [op : Ops \cup {"none"}, follow : BOOLEAN, start : Inos, path : Seq(STRING)]
    BY <1>2, <2>1 DEF Begin
  <2> QED
    BY <2>1, <2>2, <2>3 DEF Words
<1>3. CASE call' = Idle /\ w' = NoWalk
  <2>1. <<>> \in Seq(STRING) /\ Len(<<>>) = 0
    BY EmptySeq
  <2>2. call' \in [op : Ops \cup {"none"}, follow : BOOLEAN, start : Inos, path : Seq(STRING)]
    BY <1>3, <2>1, PathWalkAssumption DEF Idle
  <2>3. w'.comps = <<>> /\ w'.i = 1 /\ w'.hops = 0
    BY <1>3 DEF NoWalk
  <2> QED
    BY <2>1, <2>2, <2>3 DEF Words
<1>4. CASE UNCHANGED <<call, w>>
  BY <1>4 DEF Words
<1>5. Finish => call' = Idle /\ w' = NoWalk
  BY DEF Finish, FinishChdir, FinishChroot, FinishOpen, FinishOther, Reached
<1>6. (\E d \in Inos : Fchdir(d)) \/ (\E d \in Inos : Close(d)) \/ UNCHANGED vars
        => UNCHANGED <<call, w>>
  BY DEF Fchdir, Close, vars
<1> QED
  BY <1>1, <1>2, <1>3, <1>4, <1>5, <1>6 DEF Next

\* The state of a process and of its walk has its type: in particular walk
\* never indexes past the components of its path, however often a symlink
\* was spliced into it.
THEOREM WalkTypes == Spec => []TypeOK
<1> DEFINE K == Inv /\ Words
<1>1. Init => K
  <2> SUFFICES ASSUME Init PROVE Words
    BY InitInv
  <2>1. <<>> \in Seq(STRING) /\ Len(<<>>) = 0
    BY EmptySeq
  <2>2. call \in [op : Ops \cup {"none"}, follow : BOOLEAN, start : Inos, path : Seq(STRING)]
    BY <2>1, PathWalkAssumption DEF Init, Idle
  <2>3. w.comps = <<>> /\ w.i = 1 /\ w.hops = 0
    BY DEF Init, NoWalk
  <2> QED
    BY <2>1, <2>2, <2>3 DEF Words
<1>2. K /\ [Next]_vars => K'
  BY NextKeeps, NextWords
<1>3. K => TypeOK
  BY DEF Inv, Shape, Words, TypeOK
<1> QED
  BY <1>1, <1>2, <1>3, PTL DEF Spec
=============================================================================
