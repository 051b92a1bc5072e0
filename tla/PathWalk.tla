------------------------------ MODULE PathWalk ------------------------------
(***************************************************************************)
(* Path resolution (Inner::walk in src/inner.rs, components in             *)
(* src/path.rs) for a process with a root, a current directory and open    *)
(* directories (src/context.rs).  One step is one turn of walk's loop; a   *)
(* followed symlink calls walk again, with a loop counter of its own.      *)
(* The engine's lock is held for the whole walk, so the tree stands still. *)
(***************************************************************************)
EXTENDS Naturals, Sequences, FiniteSets

CONSTANTS
  Inos,        \* the inodes of the trees
  Trees,       \* the trees a behaviour may start with
  Paths,       \* the paths a program asks for, as sequences of components
  MaxFds,      \* bound: directories a process holds open
  SYMLOOP_MAX  \* symlinks after which walk gives up (40 in the code)

ROOT_INO == 1

\* Components: "/" is RootDir, "." CurDir, ".." ParentDir, any other a name.
\* Only the first component of a path can be "/".
Root == "/"
Cur == "."
Up == ".."

\* kind    "dir", "file" or "link"
\* ents    the entries of a directory, "." and ".." aside: name -> inode
\* up      the inode its ".." entry names
\* target  what a symlink holds
\* search  whether access_ok(.., Exec) lets this process pass the directory
IsTree(t) ==
  /\ t.kind \in [Inos -> {"dir", "file", "link"}]
  /\ DOMAIN t.ents = Inos
  /\ \A d \in Inos : \A n \in DOMAIN t.ents[d] : t.ents[d][n] \in Inos
  /\ t.up \in [Inos -> Inos]
  /\ t.target \in [Inos -> Seq(STRING)]
  /\ t.search \in [Inos -> BOOLEAN]
  /\ t.kind[ROOT_INO] = "dir"
  /\ t.up[ROOT_INO] = ROOT_INO
  \* A directory has one entry, in the directory its ".." names.
  /\ \A d \in Inos : t.kind[d] = "dir" =>
       \A n \in DOMAIN t.ents[d] :
         t.kind[t.ents[d][n]] = "dir" => t.up[t.ents[d][n]] = d /\ t.ents[d][n] # ROOT_INO

ASSUME PathWalkAssumption ==
  /\ ROOT_INO \in Inos
  /\ Paths \subseteq Seq(STRING)
  /\ \A t \in Trees : IsTree(t)
  /\ MaxFds \in Nat /\ SYMLOOP_MAX \in Nat

VARIABLES
  tree,   \* the directories and symlinks
  proc,   \* Context: root, cwd and the open directories
  leaky,  \* history: chroot was called with a directory outside the new root open
  call,   \* the call being executed
  w       \* the innermost activation of walk, and its result

vars == <<tree, proc, leaky, call, w>>

NoIno == 0

Ops == {"chdir", "chroot", "open", "lstat"}

Idle == [op |-> "none", follow |-> FALSE, start |-> ROOT_INO, path |-> <<>>]

\* walk returns an errno, or where the last component is and which inode it
\* names; NoIno if there is none, with the directory it can be created in.
Fail(e) == [err |-> e, parent |-> NoIno, name |-> "", ino |-> NoIno]

Resolved(p, n, i) == [err |-> "", parent |-> p, name |-> n, ino |-> i]

Pending == Fail("pending")

\* An activation of walk: dir, comps, i and hops are its local variables.
Walk(start, path) ==
  [dir   |-> IF path # <<>> /\ path[1] = Root THEN proc.root ELSE start,
   comps |-> path,
   i     |-> 1,
   hops  |-> 0,
   out   |-> IF path = <<>> THEN Fail("EINVAL") ELSE Pending]

NoWalk == [dir |-> ROOT_INO, comps |-> <<>>, i |-> 1, hops |-> 0, out |-> Pending]

Init ==
  /\ tree \in Trees
  /\ proc = [root |-> ROOT_INO, cwd |-> ROOT_INO, fds |-> {}]
  /\ leaky = FALSE
  /\ call = Idle
  /\ w = NoWalk

-----------------------------------------------------------------------------
(* The loop of walk. *)

Comp == w.comps[w.i]

Last == w.i = Len(w.comps)

Running == call.op # "none" /\ w.out = Pending /\ w.i <= Len(w.comps)

Return(r) == w' = [w EXCEPT !.out = r]

\* Mutant of Advance: a component is skipped.
AdvanceTwice(d) == w' = [w EXCEPT !.dir = d, !.i = @ + 2]

Advance(d) == w' = [w EXCEPT !.dir = d, !.i = @ + 1]

Frame == UNCHANGED <<tree, proc, leaky, call>>

\* RootDir
StepRoot ==
  /\ Running /\ Comp = Root
  /\ Advance(proc.root)
  /\ Frame

\* CurDir
StepCur ==
  /\ Running /\ Comp = Cur
  /\ Advance(w.dir)
  /\ Frame

\* Mutant of Above: ".." leaves the root of the process.
AboveUnchecked(d) == tree.up[d]

\* ".." stays where it is in the root of the process.
Above(d) == IF d = proc.root THEN d ELSE tree.up[d]

\* ParentDir
StepUp ==
  /\ Running /\ Comp = Up
  /\ IF ~ tree.search[w.dir] THEN Return(Fail("EACCES"))
     ELSE IF w.dir # proc.root /\ tree.kind[w.dir] # "dir" THEN Return(Fail("ENOTDIR"))
     ELSE IF Last THEN Return(Resolved(Above(w.dir), Up, Above(w.dir)))
     ELSE Advance(Above(w.dir))
  /\ Frame

Normal == Comp \notin {Root, Cur, Up}

Child == tree.ents[w.dir][Comp]

\* The components of s without those that are ".".
WithoutCur(s) ==
  LET kept[k \in 0..Len(s)] ==
        IF k = 0 THEN <<>>
        ELSE IF s[k] = Cur THEN kept[k - 1] ELSE Append(kept[k - 1], s[k])
  IN kept[Len(s)]

\* Mutants of Rest: the symlink is not replaced by its target; the components
\* after it are forgotten.
RestKeepsLink(t) == SubSeq(w.comps, w.i, Len(w.comps))

RestForgets(t) == t

\* What a symlink to t makes of the path: t and the components after it.
Rest(t) == t \o WithoutCur(SubSeq(w.comps, w.i + 1, Len(w.comps)))

\* Normal: no such entry, and the errors before the lookup.
StepMiss ==
  /\ Running /\ Normal
  /\ \/ tree.kind[w.dir] # "dir" /\ Return(Fail("ENOTDIR"))
     \/ /\ tree.kind[w.dir] = "dir" /\ ~ tree.search[w.dir]
        /\ Return(Fail("EACCES"))
     \/ /\ tree.kind[w.dir] = "dir" /\ tree.search[w.dir]
        /\ Comp \notin DOMAIN tree.ents[w.dir]
        /\ Return(IF Last THEN Resolved(w.dir, Comp, NoIno) ELSE Fail("ENOENT"))
  /\ Frame

Found ==
  /\ Running /\ Normal
  /\ tree.kind[w.dir] = "dir" /\ tree.search[w.dir]
  /\ Comp \in DOMAIN tree.ents[w.dir]

Follows == tree.kind[Child] = "link" /\ (~ Last \/ call.follow)

\* Normal: a symlink is followed by calling walk again, from the directory
\* that holds it; hops starts at 0 in the new activation.
StepLink ==
  /\ Found /\ Follows
  /\ IF w.hops + 1 > SYMLOOP_MAX
     THEN Return(Fail("ELOOP"))
     ELSE w' = Walk(w.dir, Rest(tree.target[Child]))
  /\ Frame

StepDown ==
  /\ Found /\ ~ Follows
  /\ IF Last THEN Return(Resolved(w.dir, Comp, Child)) ELSE Advance(Child)
  /\ Frame

\* The path ended in "/" or ".".
StepEnd ==
  /\ call.op # "none" /\ w.out = Pending /\ w.i > Len(w.comps)
  /\ Return(Resolved(w.dir, "", w.dir))
  /\ Frame

Step == StepRoot \/ StepCur \/ StepUp \/ StepMiss \/ StepLink \/ StepDown \/ StepEnd

-----------------------------------------------------------------------------
(* The calls of Context. *)

\* walk_at: an absolute path starts at the root, any other at the current
\* directory or at an open one.
Begin(op, start, path) ==
  /\ call = Idle
  /\ call' = [op |-> op, follow |-> op # "lstat", start |-> start, path |-> path]
  /\ w' = Walk(start, path)
  /\ UNCHANGED <<tree, proc, leaky>>

Done == call.op # "none" /\ w.out # Pending

IsDir(i) == i # NoIno /\ tree.kind[i] = "dir"

\* A call that resolved its path to a directory.
Reached(op) ==
  /\ Done /\ call.op = op
  /\ IsDir(w.out.ino)
  /\ call' = Idle /\ w' = NoWalk

FinishChdir ==
  /\ Reached("chdir")
  /\ proc' = [proc EXCEPT !.cwd = w.out.ino]
  /\ UNCHANGED <<tree, leaky>>

\* The inodes at or below r: those in every set that holds r and, with a
\* directory, all its entries.
Below(r) ==
  {i \in Inos : \A S \in SUBSET Inos :
     (r \in S /\ \A d \in S : tree.kind[d] = "dir" =>
                   \A n \in DOMAIN tree.ents[d] : tree.ents[d][n] \in S) => i \in S}

\* chroot by a superuser.
FinishChroot ==
  /\ Reached("chroot")
  /\ proc' = [proc EXCEPT !.root = w.out.ino, !.cwd = w.out.ino]
  /\ leaky' = (leaky \/ ~ proc.fds \subseteq Below(w.out.ino))
  /\ UNCHANGED tree

\* openat of a directory.
FinishOpen ==
  /\ Reached("open")
  /\ proc' = [proc EXCEPT !.fds = @ \cup {w.out.ino}]
  /\ UNCHANGED <<tree, leaky>>

\* A call that fails, an lstat, an open of something else, and a chroot by
\* another user (EPERM): the process is as before.
FinishOther ==
  /\ Done
  /\ ~ (call.op \in {"chdir", "open"} /\ IsDir(w.out.ino))
  /\ call' = Idle /\ w' = NoWalk
  /\ UNCHANGED <<tree, proc, leaky>>

Finish == FinishChdir \/ FinishChroot \/ FinishOpen \/ FinishOther

Fchdir(d) ==
  /\ call = Idle
  /\ d \in proc.fds
  /\ proc' = [proc EXCEPT !.cwd = d]
  /\ UNCHANGED <<tree, leaky, call, w>>

Close(d) ==
  /\ call = Idle
  /\ d \in proc.fds
  /\ proc' = [proc EXCEPT !.fds = @ \ {d}]
  /\ UNCHANGED <<tree, leaky, call, w>>

Next ==
  \/ Step
  \/ \E op \in Ops, path \in Paths : \E start \in {proc.cwd} \cup proc.fds :
       /\ Cardinality(proc.fds) < MaxFds \/ op # "open"
       /\ op \in {"open", "lstat"} \/ start = proc.cwd
       /\ Begin(op, start, path)
  \/ Finish
  \/ \E d \in Inos : Fchdir(d)
  \/ \E d \in Inos : Close(d)

\* A thread inside walk goes on: it waits for nobody, holding the lock.
Spec == Init /\ [][Next]_vars /\ WF_vars(Step)

-----------------------------------------------------------------------------
(* Properties. *)

Links(t) == {i \in Inos : t.kind[i] = "link"}

\* The symlinks that a walk along t.target[i] can meet, by their names.
Mentions(t, i) ==
  {j \in Links(t) :
     \E d \in Inos : \E n \in DOMAIN t.ents[d] :
       t.ents[d][n] = j /\ n \in {t.target[i][k] : k \in DOMAIN t.target[i]}}

\* The symlinks can be ranked so that each leads to lower ones.
Acyclic(t) ==
  \E rank \in [Links(t) -> 1..Cardinality(Links(t))] :
    \A i \in Links(t) : \A j \in Mentions(t, i) : rank[j] < rank[i]

TypeOK ==
  /\ tree \in Trees
  /\ proc.root \in Inos /\ proc.cwd \in Inos /\ proc.fds \subseteq Inos
  /\ leaky \in BOOLEAN
  /\ call \in [op : Ops \cup {"none"}, follow : BOOLEAN, start : Inos, path : Seq(STRING)]
  /\ w.dir \in Inos
  /\ w.comps \in Seq(STRING)
  /\ w.i \in 1..(Len(w.comps) + 1)
  /\ w.hops \in Nat
  /\ w.out.parent \in Inos \cup {NoIno} /\ w.out.ino \in Inos \cup {NoIno}

\* README "Isolate the process at /home/app (like chroot)": no sequence of
\* calls, "..", absolute paths and symlinks takes a process out of its root,
\* be it in the middle of a walk, unless it already held a directory outside.
Jailed ==
  ~ leaky =>
    /\ {proc.cwd} \cup proc.fds \subseteq Below(proc.root)
    /\ call.op # "none" => w.dir \in Below(proc.root)
    /\ w.out.ino # NoIno => w.out.ino \in Below(proc.root)
    /\ w.out.parent # NoIno => w.out.parent \in Below(proc.root)

\* path.rs:10 "Maximum symlink follow depth": every walk returns, with an error
\* if it meets too many symlinks.
Returns == call.op # "none" ~> Done

\* Without a cycle of symlinks every walk returns.
ReturnsAcyclic == Acyclic(tree) => Returns
=============================================================================
