--------------------------- MODULE MCQatNodeState ---------------------------
(***************************************************************************)
(* An instance of QatNodeState for TLC: two PFs, one with two VFs.          *)
(***************************************************************************)
EXTENDS QatNodeState

CONSTANTS pfA, pfB, a1, a2, b1, one, two, other

TwoPFs == [v \in VFs |-> IF v = b1 THEN pfB ELSE pfA]

For(v) == [device |-> v, local |-> TRUE]
OfOtherDriver(v) == [device |-> v, local |-> FALSE]

\* The scheduler has given b1 to `two` after the claim `one` was force-deleted; no
\* device of `other` is this driver's.
MCAllocation ==
  [c \in Claims |->
     CASE c = one   -> <<For(a1), For(b1)>>
       [] c = two   -> <<OfOtherDriver(a1), For(a2), For(b1)>>
       [] c = other -> <<OfOtherDriver(a1)>>]
=============================================================================
