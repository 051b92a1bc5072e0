---------------------------- MODULE MCNamespace -----------------------------
(* Instance of Namespace for TLC; the constants are set in the .cfg files. *)
EXTENDS Namespace, TLC

Alone == [threads |-> FALSE, clones |-> FALSE]

Threaded == [threads |-> TRUE, clones |-> FALSE]

Cloning == [threads |-> TRUE, clones |-> TRUE]

AllPrograms == {Alone, Threaded, Cloning}

OnlyThreaded == {Threaded}

Symmetry == Permutations(Names) \cup Permutations(Handles)
=============================================================================
