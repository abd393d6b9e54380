--------------------------- MODULE MCGaudiHealth ---------------------------
(***************************************************************************)
(* An instance of GaudiHealth for TLC.                                      *)
(***************************************************************************)
EXTENDS GaudiHealth

CONSTANTS gaudi1, gaudi2
=============================================================================
