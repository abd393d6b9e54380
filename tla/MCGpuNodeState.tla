--------------------------- MODULE MCGpuNodeState ---------------------------
(***************************************************************************)
(* Instances of GpuNodeState for TLC: two GPUs and the claims the           *)
(* scheduler can have allocated them to.                                   *)
(***************************************************************************)
EXTENDS GpuNodeState

CONSTANTS d1, d2, vm, pod, monitor

For(d, adminAccess, vfioClass) ==
  [device |-> d, admin |-> adminAccess, vfio |-> vfioClass, local |-> TRUE]

OfOtherDriver(d) == [device |-> d, admin |-> FALSE, vfio |-> FALSE, local |-> FALSE]

\* A virtual machine has d1, and after its claim was force-deleted the scheduler has
\* given d1 and d2 to a pod; a monitor has admin access to both.
SharedAllocation ==
  [c \in Claims |->
     CASE c = vm      -> <<For(d1, FALSE, TRUE)>>
       [] c = pod     -> <<For(d1, FALSE, FALSE), OfOtherDriver(d2), For(d2, FALSE, FALSE)>>
       [] c = monitor -> <<For(d1, TRUE, FALSE), For(d2, TRUE, FALSE)>>]

\* One device, wanted by a virtual machine and by a pod.
SingleAllocation ==
  [c \in Claims |-> <<For(d1, FALSE, c = vm)>>]

\* The virtual machine has both devices, the pod one of them.
PairAllocation ==
  [c \in Claims |->
     IF c = vm THEN <<For(d1, FALSE, TRUE), For(d2, FALSE, TRUE)>>
               ELSE <<For(d1, FALSE, FALSE)>>]
=============================================================================
