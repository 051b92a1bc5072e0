---------------------------- MODULE MCPathWalk ------------------------------
(* Instance of PathWalk for TLC: trees of three directories, a file and two *)
(* symlinks with targets of every kind, and a reference resolution.         *)
EXTENDS PathWalk, TLC

\* /a, /a/b, /a/b/f, and the symlinks /l and /a/m
MCInos == 1..6

Children == <<"a" :> 2 @@ "l" :> 5, "b" :> 3 @@ "m" :> 6, "f" :> 4>>

\* The trees with targets l and m, in which directory s may not be searched.
Tree(l, m, s) ==
  [kind   |-> [i \in MCInos |-> IF i <= 3 THEN "dir" ELSE IF i = 4 THEN "file" ELSE "link"],
   ents   |-> [i \in MCInos |-> IF i <= 3 THEN Children[i] ELSE [n \in {} |-> 0]],
   up     |-> [i \in MCInos |-> IF i = 3 THEN 2 ELSE 1],
   target |-> [i \in MCInos |-> IF i = 5 THEN l ELSE IF i = 6 THEN m ELSE <<>>],
   search |-> [i \in MCInos |-> i # s]]

MCTrees ==
  {Tree(l, m, 0) : l \in {<<"a", "m">>, <<>>},
                   m \in {<<Up>>, <<Root, "b">>, <<"b", "f">>, <<"b", Up, Up, "a">>}}
  \cup {Tree(<<Root, "a", "b">>, <<Up, "l">>, s) : s \in {0, 2}}
  \cup {Tree(<<"a", "m">>, <<Up, "l">>, 0), Tree(<<"l">>, <<"c">>, 0)}

MCPaths ==
  {<<>>, <<Root>>, <<Cur>>, <<Up>>, <<"a">>, <<"b">>, <<"l">>, <<"m">>, <<Root, "m">>,
   <<Up, Up>>, <<Root, Up, "a">>, <<"a", "b">>, <<"a", "m">>, <<"l", "b">>, <<"m", Up>>,
   <<"l", Cur>>, <<"b", "f">>, <<"b", "f", Cur>>, <<"b", "f", Up>>, <<"b", "f", "a">>,
   <<"l", "c">>, <<"c", "c">>, <<"m", Cur, "f">>, <<Root, "l", Up, "l">>}

\* The reference: the symlink in front of the rest of a path stands for the
\* inode it leads to, and the rest is resolved from there.
RECURSIVE Lookup(_, _, _)
Lookup(d, path, follow) ==
  IF path = <<>> THEN Resolved(d, "", d)
  ELSE
    LET c == Head(path)
        rest == Tail(path)
    IN CASE c = Root -> Lookup(proc.root, rest, follow)
         [] c = Cur -> Lookup(d, rest, follow)
         [] c = Up /\ ~ tree.search[d] -> Fail("EACCES")
         [] c # Up /\ tree.kind[d] = "dir" /\ ~ tree.search[d] -> Fail("EACCES")
         [] tree.kind[d] # "dir" -> Fail("ENOTDIR")
         [] c = Up -> LET p == IF d = proc.root THEN d ELSE tree.up[d]
                      IN IF rest = <<>> THEN Resolved(p, Up, p) ELSE Lookup(p, rest, follow)
         [] c \notin DOMAIN tree.ents[d] ->
              IF rest = <<>> THEN Resolved(d, c, NoIno) ELSE Fail("ENOENT")
         [] OTHER ->
              LET i == tree.ents[d][c]
                  t == IF tree.target[i] = <<>> /\ rest = <<>> THEN Fail("EINVAL")
                       ELSE Lookup(d, tree.target[i], rest # <<>> \/ follow)
              IN CASE tree.kind[i] = "link" /\ rest # <<>> ->
                        IF t.err # "" THEN t
                        ELSE IF t.ino = NoIno THEN Fail("ENOENT")
                        ELSE Lookup(t.ino, rest, follow)
                   [] tree.kind[i] = "link" /\ follow -> t
                   [] rest = <<>> -> Resolved(d, c, i)
                   [] OTHER -> Lookup(i, rest, follow)

\* walk splices the target of a symlink into the path and starts again; the
\* outcome, errors included, is that of resolving the symlink on its own
\* first.  A trailing "." is left out: walk drops it behind a symlink.
WalkAgrees ==
  (Done /\ Acyclic(tree) /\ call.path # <<>> /\ call.path[Len(call.path)] # Cur)
    => w.out = Lookup(call.start, call.path, call.follow)
=============================================================================
