------------------------------ MODULE Discovery ------------------------------
(***************************************************************************)
(* A program that looks for devices: the GPU plugin and the generator for  *)
(* GPUs, the Gaudi plugin and the generator for Gaudis. The generator asks *)
(* for one kind after the other (handleDevices, cdi-specs-generator), and  *)
(* neither discovery reads what the other one does, so that one kind at a  *)
(* time is all there is to see.                                            *)
(***************************************************************************)
EXTENDS GpuDiscovery

CONSTANTS
  GaudiAddresses,  \* Addresses of GaudiDiscovery
  ModuleOf, UverbsOf

VARIABLES
  wanted,          \* "gpu" or "gaudi"
  accelDir, moduleId, bound, accel,
  gaudiTodo, gaudiAt, scan, half, indexMap, gaudiDevices, gaudiPhase,
  gaudiTouched, gaudiHad, gaudiChanges

gaudiVars == <<accelDir, moduleId, bound, accel, gaudiTodo, gaudiAt, scan, half, indexMap,
               gaudiDevices, gaudiPhase, gaudiTouched, gaudiHad, gaudiChanges>>

Gaudi == INSTANCE GaudiDiscovery WITH
           Addresses <- GaudiAddresses, Missing <- None,
           todo <- gaudiTodo, at <- gaudiAt, devices <- gaudiDevices,
           phase <- gaudiPhase, touched <- gaudiTouched, had <- gaudiHad,
           changes <- gaudiChanges

ASSUME GaudiAssumption == Gaudi!ConstantsFit

\* What is not looked at is left in one state: GPUs without a driver, Gaudis with
\* their numbers in order.
DiscoveryInit ==
  /\ wanted \in {"gpu", "gaudi"}
  /\ Init /\ Gaudi!Init
  /\ wanted = "gaudi" => program.naming = "classic" /\ \A d \in Device : driver[d] = None
  /\ wanted = "gpu" => /\ accelDir /\ moduleId
                       /\ \A i \in DOMAIN GaudiAddresses : accel[GaudiAddresses[i]] = i - 1

DiscoveryNext ==
  /\ UNCHANGED wanted
  /\ \/ wanted = "gpu"   /\ Next        /\ UNCHANGED gaudiVars
     \/ wanted = "gaudi" /\ Gaudi!Next  /\ UNCHANGED vars

DiscoverySpec == DiscoveryInit /\ [][DiscoveryNext]_<<wanted, vars, gaudiVars>>

----------------------------------------------------------------------------
(* The properties of both parts together. *)

\* What a plugin or the generator publishes of the devices that did not change while
\* it looked is right: they are all found, as the PF or VF they are, with their own
\* names, memory and indexes, whatever happened to the others, on every kernel
\* (gpu discovery.go:36, discovery-pci.go:69; gaudi discovery.go:130, fallback.go:69).
FoundRight ==
  /\ UndisturbedRight /\ MemoryRight
  /\ Gaudi!TypeOK /\ Gaudi!UndisturbedRight

\* A Gaudi that was unbound or bound again while the program read it gets no accel
\* device but one that was its own (fallback.go:42).
GaudiNodesWereTheirs == Gaudi!NodesWereTheirs
=============================================================================
