------------------------------ MODULE TreeOps -------------------------------
(***************************************************************************)
(* LinuxFile::create_dir_all and remove_dir_all (src/fs.rs).  Each is a     *)
(* loop of calls that take the engine's lock one at a time, so threads      *)
(* working on the same tree run in between.  The engine is that of          *)
(* Namespace.                                                               *)
(***************************************************************************)
EXTENDS Namespace

CONSTANTS
  Threads,  \* every thread makes one call
  Targets,  \* the paths they are called with, sequences of names
  Layouts   \* the trees they may start with, as the list of the creations

\* A list of creations that all succeed: the k-th makes inode k + 1, in the
\* root or in a directory made before, under a name that is not used there.
Buildable(l) ==
  /\ l \in Seq(Inos \X Names \X {"file", "dir"})
  /\ Len(l) < MaxIno
  /\ \A k \in DOMAIN l :
       l[k][1] = ROOT_INO \/ \E j \in 1..(k - 1) : l[j][3] = "dir" /\ l[k][1] = j + 1
  /\ \A j, k \in DOMAIN l : j # k => l[j][1] # l[k][1] \/ l[j][2] # l[k][2]

ASSUME TreeOpsAssumption ==
  /\ Targets \subseteq Seq(Names) \ {<<>>}
  /\ \A l \in Layouts : Buildable(l)

VARIABLES
  order,  \* the entries of a directory in the order of its list
  th      \* the threads

treeVars == <<prog, fs, handle, order, th>>

\* A frame of remove_dir_all: its path, the place in the code, and the
\* children it listed and has not removed yet.
Frame(p) == [path |-> p, at |-> "lstat", todo |-> <<>>]

\* op     "make" for create_dir_all, "remove" for remove_dir_all
\* path   its argument
\* level  create_dir_all: the prefix being made
\* at     create_dir_all: "mkdir", or "stat" after an EEXIST
\* stack  remove_dir_all: its activations, the innermost last
\* res    "" until the call returns, then "ok" or an errno
Calling(op, p) ==
  [op |-> op, path |-> p, level |-> 1, at |-> "mkdir", stack |-> <<Frame(p)>>, res |-> ""]

\* The inode at path p below the root, 0 if there is none.
At(p) ==
  LET to[k \in 0..Len(p)] ==
        IF k = 0 THEN ROOT_INO
        ELSE IF to[k - 1] # 0 /\ p[k] \in DOMAIN fs.ents[to[k - 1]]
             THEN fs.ents[to[k - 1]][p[k]].ino ELSE 0
  IN to[Len(p)]

IsDirAt(p) == At(p) # 0 /\ fs.kind[At(p)] = "dir"

Parent(p) == SubSeq(p, 1, Len(p) - 1)

Base(p) == p[Len(p)]

\* Why walk does not reach the last component of p.
WalkError(p) ==
  IF \E k \in 1..(Len(p) - 1) : LET i == At(SubSeq(p, 1, k)) IN i # 0 /\ fs.kind[i] # "dir"
  THEN "ENOTDIR" ELSE "ENOENT"

-----------------------------------------------------------------------------
(* The steps under the lock.  Each takes the thread's state after it. *)

Goes(t, s) == th' = [th EXCEPT ![t] = s]

Reads == UNCHANGED <<prog, fs, handle, order>>

Adds(p, k) ==
  /\ NextIno(fs) \in Inos
  /\ fs' = CreateChild(fs, At(Parent(p)), Base(p), k)
  /\ order' = [order EXCEPT ![At(Parent(p))] = Append(@, Base(p)), ![NextIno(fs)] = <<>>]
  /\ UNCHANGED <<prog, handle>>

\* The entries of a list without the first one called n.
Without(o, n) ==
  LET pos == CHOOSE j \in DOMAIN o : o[j] = n /\ \A k \in 1..(j - 1) : o[k] # n
  IN [j \in 1..(Len(o) - 1) |-> IF j < pos THEN o[j] ELSE o[j + 1]]

Removes(p) ==
  /\ fs' = UnlinkName(fs, At(Parent(p)), Base(p))
  /\ order' = [order EXCEPT ![At(Parent(p))] = Without(@, Base(p))]
  /\ UNCHANGED <<prog, handle>>

-----------------------------------------------------------------------------
(* create_dir_all: make every prefix of the path, shortest first; only the  *)
(* outcome of the last one counts.                                          *)

Prefix(s) == SubSeq(s.path, 1, s.level)

\* Mutant of Made: the loop runs past the path.
MadeTooFar(s, res) ==
  IF s.level <= Len(s.path) THEN [s EXCEPT !.level = @ + 1, !.at = "mkdir"]
                            ELSE [s EXCEPT !.res = res]

Made(s, res) ==
  IF s.level < Len(s.path) THEN [s EXCEPT !.level = @ + 1, !.at = "mkdir"]
                           ELSE [s EXCEPT !.res = res]

\* Mutants of AfterExists: what exists is an error; create_dir is tried again.
AfterExistsFails(s) == Made(s, "EEXIST")

AfterExistsRetries(s) == s

AfterExists(s) == [s EXCEPT !.at = "stat"]

MakeDir(t) ==
  LET s == th[t]
      p == Prefix(s)
  IN /\ s.op = "make" /\ s.res = "" /\ s.at = "mkdir"
     /\ \/ IsDirAt(Parent(p)) /\ At(p) = 0 /\ Adds(p, "dir") /\ Goes(t, Made(s, "ok"))
        \/ IsDirAt(Parent(p)) /\ At(p) # 0 /\ Reads /\ Goes(t, AfterExists(s))
        \/ ~ IsDirAt(Parent(p)) /\ Reads /\ Goes(t, Made(s, WalkError(p)))

\* metadata(path)?.is_dir()
MakeStat(t) ==
  LET s == th[t]
      p == Prefix(s)
  IN /\ s.op = "make" /\ s.res = "" /\ s.at = "stat"
     /\ Goes(t, Made(s, IF IsDirAt(p) THEN "ok"
                        ELSE IF At(p) # 0 THEN "EEXIST" ELSE WalkError(p)))
     /\ Reads

-----------------------------------------------------------------------------
(* remove_dir_all *)

Top(s) == s.stack[Len(s.stack)]

SetTop(s, f) == [s EXCEPT !.stack[Len(s.stack)] = f]

\* The innermost activation returns: an error ends them all.
Back(s, res) ==
  IF res = "ok" /\ Len(s.stack) > 1 THEN [s EXCEPT !.stack = SubSeq(@, 1, Len(@) - 1)]
                                    ELSE [s EXCEPT !.res = res]

\* Removing is what thread t is about to do at place at.
Removing(t, at) == th[t].op = "remove" /\ th[t].res = "" /\ Top(th[t]).at = at

\* symlink_metadata
RemoveLstat(t) ==
  LET s == th[t]
      p == Top(s).path
  IN /\ Removing(t, "lstat")
     /\ Goes(t, CASE At(p) = 0 /\ WalkError(p) = "ENOENT" -> Back(s, "ok")
                  [] At(p) = 0 /\ WalkError(p) # "ENOENT" -> Back(s, WalkError(p))
                  [] IsDirAt(p) -> SetTop(s, [Top(s) EXCEPT !.at = "list"])
                  [] OTHER -> SetTop(s, [Top(s) EXCEPT !.at = "unlink"]))
     /\ Reads

\* Mutant of Listing: directories are not listed.
ListingFiles(d) ==
  SelectSeq([k \in DOMAIN order[d] |-> [name |-> order[d][k], ft |-> fs.ents[d][order[d][k]].ft]],
            LAMBDA e : e.ft # "dir")

\* read_dir: the entries with the types they record.
Listing(d) == [k \in DOMAIN order[d] |->
                 [name |-> order[d][k], ft |-> fs.ents[d][order[d][k]].ft]]

RemoveList(t) ==
  LET s == th[t]
      p == Top(s).path
  IN /\ Removing(t, "list")
     /\ Goes(t, CASE IsDirAt(p) -> SetTop(s, [Top(s) EXCEPT !.at = "child", !.todo = Listing(At(p))])
                  [] ~ IsDirAt(p) /\ At(p) # 0 -> Back(s, "ENOTDIR")
                  [] OTHER -> Back(s, WalkError(p)))
     /\ Reads

\* The next child: a directory is a call of its own, a file is unlinked.
\* After the last one the directory itself is removed.
RemoveChild(t) ==
  LET s == th[t]
      f == Top(s)
      next == [f EXCEPT !.todo = Tail(@)]
      p == Append(f.path, Head(f.todo).name)
  IN /\ Removing(t, "child") /\ f.todo # <<>>
     /\ IF Head(f.todo).ft = "dir"
        THEN /\ Goes(t, [SetTop(s, next) EXCEPT !.stack = Append(@, Frame(p))])
             /\ Reads
        ELSE IF At(p) # 0 /\ fs.kind[At(p)] = "file"
        THEN Goes(t, SetTop(s, next)) /\ Removes(p)
        ELSE Goes(t, Back(s, IF At(p) # 0 THEN "EISDIR" ELSE WalkError(p))) /\ Reads

\* remove_file of a path that is not a directory.
RemoveFile(t) ==
  LET s == th[t]
      p == Top(s).path
  IN /\ Removing(t, "unlink")
     /\ IF At(p) # 0 /\ fs.kind[At(p)] = "file"
        THEN Goes(t, Back(s, "ok")) /\ Removes(p)
        ELSE Goes(t, Back(s, IF At(p) # 0 THEN "EISDIR" ELSE WalkError(p))) /\ Reads

\* remove_dir
RemoveDir(t) ==
  LET s == th[t]
      p == Top(s).path
  IN /\ Removing(t, "child") /\ Top(s).todo = <<>>
     /\ IF IsDirAt(p) /\ IsEmptyDir(fs, At(p))
        THEN Goes(t, Back(s, "ok")) /\ Removes(p)
        ELSE /\ Goes(t, Back(s, CASE At(p) = 0 -> WalkError(p)
                                  [] IsDirAt(p) -> "ENOTEMPTY"
                                  [] OTHER -> "ENOTDIR"))
             /\ Reads

-----------------------------------------------------------------------------

\* The engine and the lists after the creations of l.
Built(l) ==
  LET b[k \in 0..Len(l)] ==
        IF k = 0 THEN [fs |-> Mkfs, order |-> [d \in Inos |-> <<>>]]
        ELSE [fs    |-> CreateChild(b[k - 1].fs, l[k][1], l[k][2], l[k][3]),
              order |-> [b[k - 1].order EXCEPT ![l[k][1]] = Append(@, l[k][2])]]
  IN b[Len(l)]

TreeInit ==
  /\ \E l \in Layouts : fs = Built(l).fs /\ order = Built(l).order
  /\ prog \in Programs
  /\ handle = [h \in Handles |-> Closed]
  /\ th \in [Threads -> {Calling(op, p) : op \in {"make", "remove"}, p \in Targets}]

Step(t) ==
  \/ MakeDir(t) \/ MakeStat(t)
  \/ RemoveLstat(t) \/ RemoveList(t) \/ RemoveChild(t) \/ RemoveFile(t) \/ RemoveDir(t)

TreeNext == \E t \in Threads : Step(t)

\* Every thread gets the lock at last: no call holds it for ever, and the
\* threads wait for nothing else.
TreeSpec == TreeInit /\ [][TreeNext]_treeVars /\ \A t \in Threads : WF_treeVars(Step(t))

-----------------------------------------------------------------------------
(* Properties. *)

TreeTypeOK ==
  /\ TypeOK
  /\ order \in [Inos -> Seq(Names)]
  /\ \A d \in Dirs(fs) : Range(order[d]) = DOMAIN fs.ents[d] /\ IsInjective(order[d])
  /\ \A t \in Threads : th[t].level \in 1..Len(th[t].path) /\ th[t].stack # <<>>

All(op) == \A t \in Threads : th[t].op = op

Ended(t) == th[t].res # ""

\* Nothing but a directory is in the way of path p.
Clear(p) == \A k \in 1..Len(p) : At(SubSeq(p, 1, k)) = 0 \/ IsDirAt(SubSeq(p, 1, k))

\* Threads that call create_dir_all at the same time on overlapping paths all
\* succeed and find their directory, although each may lose the race for any
\* prefix: an EEXIST is looked at again, and errors on the way are ignored.
MakersSucceed ==
  All("make") =>
    \A t \in Threads : (Ended(t) /\ Clear(th[t].path)) => th[t].res = "ok" /\ IsDirAt(th[t].path)

\* Threads that call remove_dir_all at the same time on one path may fail, as
\* another one removes what they listed; but the tree is gone once they have
\* all returned, and one of them said so.
RemoversWin ==
  (All("remove") /\ \A t, u \in Threads : th[t].path = th[u].path /\ Ended(t)) =>
    \A t \in Threads :
      Clear(Parent(th[t].path)) => At(th[t].path) = 0 /\ \E u \in Threads : th[u].res = "ok"

\* Every call returns, whatever the other threads do to the tree meanwhile:
\* both loops run over what they listed once and try nothing twice.
AllReturn == \A t \in Threads : <>(th[t].res # "")
=============================================================================
