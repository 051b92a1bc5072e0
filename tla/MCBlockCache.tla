---------------------------- MODULE MCBlockCache ----------------------------
(* Instance of BlockCache for TLC; the constants are set in the .cfg files. *)
EXTENDS BlockCache, TLC

Symmetry == Permutations(Values)
=============================================================================
