---------------------------- MODULE MCInodeTable ----------------------------
(* Instance of InodeTable for TLC; the constants are set in the .cfg files. *)
EXTENDS InodeTable, TLC

\* File contents that have the form of an inode in every slot; the blocks that
\* no file took yet are zeroed.
MCForeign == {[k \in 0..(PerBlock - 1) |-> 0]}

Symmetry == Permutations(Names)
=============================================================================
