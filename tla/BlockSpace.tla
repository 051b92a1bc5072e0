----------------------------- MODULE BlockSpace -----------------------------
(***************************************************************************)
(* What the extent allocator promises its callers, free map aside.  The    *)
(* space ends at `top' and every block of it is held or available, never   *)
(* both.  A run is handed out only while nobody holds a block of it, a     *)
(* caller gives back only what it holds, and the end of the space moves    *)
(* only past available blocks.                                             *)
(***************************************************************************)
EXTENDS Integers

CONSTANTS First, Blocks, InitUsed, InitTop

VARIABLES used, avail, top

space == <<used, avail, top>>

\* Run(lo, n) is the run of n blocks that starts at block lo.
Run(lo, n) == lo..(lo + n - 1)

Conserved ==
  /\ used \subseteq First..(top - 1)
  /\ avail = (First..(top - 1)) \ used

Init ==
  /\ used = InitUsed
  /\ top = InitTop
  /\ avail = (First..(InitTop - 1)) \ InitUsed

\* Taking a run may extend the space, and never ends it earlier.
Take(lo, n) ==
  /\ n > 0
  /\ Run(lo, n) \cap used = {}
  /\ used' = used \cup Run(lo, n)
  /\ top <= top'

Give(lo, n) ==
  /\ Run(lo, n) \subseteq used
  /\ used' = used \ Run(lo, n)
  /\ top' = top

\* Move(lo, n, lo2, n2) gives back one run and takes another in one step, as a
\* checkpoint does with the blocks of the allocator's own snapshot.
Move(lo, n, lo2, n2) ==
  /\ Run(lo, n) \subseteq used
  /\ n2 > 0
  /\ Run(lo2, n2) \cap (used \ Run(lo, n)) = {}
  /\ used' = (used \ Run(lo, n)) \cup Run(lo2, n2)

Next ==
  /\ Conserved'
  /\ \/ used' = used
     \/ \E lo, n \in Blocks :
          \/ Take(lo, n)
          \/ Give(lo, n)
          \/ /\ Run(lo, n) \subseteq used
             /\ \E lo2, n2 \in Blocks : Move(lo, n, lo2, n2)

Spec == Init /\ [][Next]_space
=============================================================================
