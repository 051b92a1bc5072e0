---------------------------- MODULE MCTreeOps -------------------------------
(* Instance of TreeOps for TLC. *)
EXTENDS TreeOps

MCPrograms == {[threads |-> TRUE, clones |-> FALSE]}

\* An empty image; a/b/b and a/a; the file a/b; the file a.
MCNames == {"a", "b"}

MCTargets == {<<"a">>, <<"a", "b">>}

MCLayouts ==
  {<<>>,
   <<<<1, "a", "dir">>, <<2, "b", "dir">>, <<3, "b", "file">>, <<2, "a", "file">>>>,
   <<<<1, "a", "dir">>, <<2, "b", "file">>>>,
   <<<<1, "a", "file">>>>}
=============================================================================
