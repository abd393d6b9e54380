-------------------------- MODULE MCGaudiNodeState --------------------------
(***************************************************************************)
(* Instances of GaudiNodeState for TLC: claims of this driver and one that  *)
(* has no device of it.                                                     *)
(***************************************************************************)
EXTENDS GaudiNodeState, TLC

CONSTANTS own1, own2, other

OwnSymmetry == Permutations({own1, own2})
=============================================================================
