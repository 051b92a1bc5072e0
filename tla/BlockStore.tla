----------------------------- MODULE BlockStore -----------------------------
(***************************************************************************)
(* What the engine expects of the block cache and the image under it: a    *)
(* flat array of blocks.  A block that nobody wrote since it was last      *)
(* discarded, or that the host failed to write, holds anything (Undef).    *)
(* `saved' is the allocator snapshot of the last checkpoint, which goes to *)
(* the image past the cache.                                               *)
(***************************************************************************)
CONSTANTS Blocks, Values, Undef, NoBlock

VARIABLES val, at, saved

vars == <<val, at, saved>>

Init ==
  /\ val = [b \in Blocks |-> Undef]
  /\ at = NoBlock
  /\ saved = Undef

Write(b, v) ==
  /\ b # at
  /\ val' = [val EXCEPT ![b] = v]
  /\ UNCHANGED <<at, saved>>

\* The snapshot v goes to block s; the blocks in D lose their contents, and so
\* do the old and the new place of the snapshot.
Save(s, v, D) ==
  /\ at' = s
  /\ saved' = v
  /\ val' = [b \in Blocks |-> IF b \in D \cup {s, at} THEN Undef ELSE val[b]]

\* The host fails to write block b, and its contents are lost.
Lose(b) ==
  /\ b # at
  /\ val' = [val EXCEPT ![b] = Undef]
  /\ UNCHANGED <<at, saved>>

Next ==
  \/ \E b \in Blocks, v \in Values : Write(b, v)
  \/ \E b \in Blocks : Lose(b)
  \/ \E s \in Blocks, v \in Values, D \in SUBSET Blocks : Save(s, v, D)

Spec == Init /\ [][Next]_vars
=============================================================================
