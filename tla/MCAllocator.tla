---------------------------- MODULE MCAllocator -----------------------------
(* Instance of Allocator for TLC; the constants are set in the .cfg files. *)
EXTENDS Allocator
=============================================================================
