---------------------------- MODULE MCQatDevice ----------------------------
(***************************************************************************)
(* An instance of QatDevice for TLC: three VFs, two claims, and services of   *)
(* which the hardware does not accept every combination.                    *)
(***************************************************************************)
EXTENDS QatDevice

CONSTANTS one, two

MCSupported == {{}, {"sym"}, {"sym", "asym"}}
MCDefault == {{"sym"}, {"asym"}}
=============================================================================
