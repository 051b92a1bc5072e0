---------------------------- MODULE MCFileData ------------------------------
(* Instance of FileData for TLC; the constants are set in the .cfg files. *)
EXTENDS FileData

Symmetry == Permutations(Files)
=============================================================================
