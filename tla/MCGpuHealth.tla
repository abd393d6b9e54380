---------------------------- MODULE MCGpuHealth ----------------------------
(***************************************************************************)
(* An instance of GpuHealth for TLC.                                        *)
(***************************************************************************)
EXTENDS GpuHealth

CONSTANTS gpu, udev, kubelet
=============================================================================
