----------------------------- MODULE MCFakeGpuSysfs -----------------------------
(* Two xe GPUs, which go to xe-vfio-pci and back: their writes go to the same *)
(* four files.                                                               *)
EXTENDS FakeGpuSysfs

CONSTANTS d1, d2, xe, xeVfio

MCSlot == d1 :> 1 @@ d2 :> 2
MCHome == [d \in Devices |-> xe]
MCVfio == [d \in Devices |-> xeVfio]
=============================================================================
