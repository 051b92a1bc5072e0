----------------------------- MODULE HostImage ------------------------------
(***************************************************************************)
(* The length of the host file (src/store.rs), in blocks of 4 KiB.         *)
(***************************************************************************)
EXTENDS Integers

CONSTANT GrowStep  \* blocks in the 1 MiB growth step (256 in the code)

ASSUME GrowStepAssumption == GrowStep \in Nat \ {0}

\* Image::grow_to rounds up to a multiple of the growth step.
GrowTo(ln, need) ==
  IF need <= ln THEN ln
                ELSE ((need + GrowStep - 1) \div GrowStep) * GrowStep

\* Image::shrink_to never lengthens the file.
ShrinkTo(ln, new) == IF new >= ln THEN ln ELSE new
=============================================================================
