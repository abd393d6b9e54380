---------------------------- MODULE GpuNodeState ----------------------------
(***************************************************************************)
(* The GPU kubelet plugin's nodeState (src/cmd/kubelet-gpu-plugin): the    *)
(* ResourceClaims prepared on this node, their checkpoint file, the driver *)
(* each GPU is bound to and the CDI entry containers are started with.     *)
(*                                                                         *)
(* kubelet's calls come one at a time.  Prepare and Unprepare hold the     *)
(* state mutex from their first step to their last; the udev goroutine     *)
(* takes the same mutex.  What can still come between two steps of a call  *)
(* is the kernel (a device is bound, unbound, removed by somebody else)    *)
(* and a crash, so a call is modelled by its steps.                        *)
(***************************************************************************)
EXTENDS Naturals, Sequences

CONSTANTS
  Devices,          \* GPUs, by the UID the ResourceSlice names them with
  Claims,           \* UIDs of ResourceClaims allocated on this node
  NoClaim,
  Allocation,       \* Allocation[c]: the allocation results of claim c
  ManageBinding,    \* the -b flag: the plugin may rebind devices
  Healthcare,       \* the -m flag: the udev listener runs
  ExternalChanges,  \* somebody else rebinds, removes and adds devices
  Reboots,          \* the node may reboot
  KernelFaults,     \* sysfs, devfs and CDI operations may fail
  WriteFaults,      \* writing the checkpoint may fail
  MaxEvents         \* bound on the udev events that wait at a time

\* Linux driver a device is bound to.  "drm" stands for i915 and xe, "vfio" for
\* vfio-pci and xe-vfio-pci, and an absent device is not on the PCI bus.
Drivers == {"drm", "vfio"}
SysfsStates == Drivers \cup {"unbound", "absent"}

\* One entry of claim.Status.Allocation.Devices.Results: `local` says that it
\* names this driver and this node's pool, `vfio` that its request is of the
\* device class gpu-vfio.intel.com.
Result == [device: Devices, admin: BOOLEAN, vfio: BOOLEAN, local: BOOLEAN]

PreparedDevice == [device: Devices, admin: BOOLEAN]

\* A udev event: DRIVER of a bind event, "unbound" for every other action.
Event == [device: Devices, driver: Drivers \cup {"unbound"}]

\* ClaimPreparations: claim UID -> the devices prepared for it.
ClaimPreparations == UNION {[S -> SUBSET PreparedDevice] : S \in SUBSET Claims}
NoPreparations == [c \in {} |-> {}]

ASSUME NoClaimAssumption == NoClaim \notin Claims
ASSUME AllocationAssumption == Allocation \in [Claims -> Seq(Result)]
ASSUME MaxEventsAssumption == MaxEvents \in Nat
ASSUME SwitchesAssumption ==
  {ManageBinding, Healthcare, ExternalChanges, Reboots, KernelFaults, WriteFaults}
    \subseteq BOOLEAN

VARIABLES
  running,        \* the plugin process is up
  prepared,       \* nodeState.Prepared
  checkpoint,     \* content of the prepared claims file
  torn,           \* the file was truncated and its content not yet written
  allocatable,    \* keys of nodeState.Allocatable
  currentDriver,  \* DeviceInfo.CurrentDriver
  absentTaint,    \* devices whose HealthStatus[DeviceAbsent] is Unhealthy
  driverTaint,    \* devices whose HealthStatus[UnexpectedDriver] is Unhealthy
  cdiEdits,       \* the CDI entry: "none", or whether it describes the
                  \* device nodes of the device's present binding
  sysfsDriver,    \* the driver the kernel has bound
  watching,       \* the udev monitor is started
  events,         \* udev events not yet handled
  unseen,         \* devices changed in sysfs with no event and no rediscovery
  phase,          \* where the call in progress is
  claim,          \* its claim
  pos,            \* its next allocation result
  acc,            \* preparedDevices so far
  needPublish,    \* needToPublishSlice
  unpublished,    \* devices whose published ResourceSlice entry is outdated
  granted         \* claims kubelet got a PrepareResult for and still uses

claimVars  == <<prepared, checkpoint, torn>>
deviceVars == <<allocatable, currentDriver, absentTaint, driverTaint>>
kernelVars == <<cdiEdits, sysfsDriver, watching, events, unseen>>
callVars   == <<phase, claim, pos, acc, needPublish>>
outVars    == <<unpublished, granted>>
vars == <<running, claimVars, deviceVars, kernelVars, callVars, outVars>>

\* The phases of a call.  The mutex is held in the first four.
Locked == {"devices", "rebind", "saving", "freeing"}
Phases == Locked \cup {"idle", "granting", "returning"}

-----------------------------------------------------------------------------
(* Maps                                                                     *)

Put(p, c, s) == [x \in DOMAIN p \cup {c} |-> IF x = c THEN s ELSE p[x]]
Delete(p, c) == [x \in DOMAIN p \ {c} |-> p[x]]

\* Mutant: the adminAccess test is inverted.
UsedByMonitorAlready(d, c) ==
  \E o \in DOMAIN prepared \ {c} : \E x \in prepared[o] : x.device = d /\ x.admin

\* isDeviceUsedExclusivelyAlready: a claim other than c holds d without adminAccess.
UsedExclusively(d, c) ==
  \E o \in DOMAIN prepared \ {c} : \E x \in prepared[o] : x.device = d /\ ~x.admin

Current == Allocation[claim][pos]

\* The driver the device class of a result asks for.
TargetDriver(r) == IF r.vfio THEN "vfio" ELSE "drm"

\* Mutant: only the VFIO class makes Prepare look at the driver.
NeedsRebindForVFIO(r) == r.vfio /\ currentDriver[r.device] # TargetDriver(r)

NeedsRebind(r) == currentDriver[r.device] # TargetDriver(r)

\* Mutant: the cached driver is not updated.
KeepCurrentDriver(d, drv) == UNCHANGED currentDriver

SetCurrentDriver(d, drv) == currentDriver' = [currentDriver EXCEPT ![d] = drv]

\* Mutant: the CDI entry of the earlier binding stays.
KeepGPUDevices(d, drv) == UNCHANGED cdiEdits

\* The CDI entry of d is removed, and written again unless d is unbound.
UpdateGPUDevices(d, drv) ==
  cdiEdits' = [cdiEdits EXCEPT ![d] = IF drv \in Drivers THEN "fresh" ELSE "none"]

-----------------------------------------------------------------------------
(* The kernel: sysfs, devfs and the udev event socket.                      *)

Room(n) == Healthcare => Len(events) + n <= MaxEvents

\* The kernel binds d to drv, or unbinds, removes or adds it.  The device nodes the
\* CDI entry names are those of the earlier binding.
SysfsChange(d, drv) ==
  /\ sysfsDriver' = [sysfsDriver EXCEPT ![d] = drv]
  /\ cdiEdits' = [cdiEdits EXCEPT ![d] = IF @ = "none" THEN @ ELSE "stale"]
  /\ events' = IF watching
                 THEN Append(events, [device |-> d,
                                      driver |-> IF drv \in Drivers THEN drv ELSE "unbound"])
                 ELSE events

\* Somebody other than the plugin changes what d is bound to.
ExternalChange(d) ==
  /\ ExternalChanges
  /\ Room(IF phase = "rebind" THEN 2 ELSE 1)
  /\ \E drv \in SysfsStates :
       /\ \/ sysfsDriver[d] \in Drivers /\ drv = "unbound"
          \/ sysfsDriver[d] = "unbound" /\ drv \in Drivers \cup {"absent"}
          \/ sysfsDriver[d] = "absent"  /\ drv = "unbound"
       /\ SysfsChange(d, drv)
  /\ unseen' = IF watching THEN unseen ELSE unseen \cup {d}
  /\ UNCHANGED <<running, claimVars, deviceVars, watching, callVars, outVars>>

-----------------------------------------------------------------------------
(* Prepare                                                                  *)

\* The claim was prepared before: kubelet gets the same PrepareResult again.
PrepareAgain(c) ==
  /\ running
  /\ phase = "idle"
  /\ c \in DOMAIN prepared
  /\ granted' = granted \cup {c}
  /\ UNCHANGED <<running, claimVars, deviceVars, kernelVars, callVars, unpublished>>

\* Mutant: the call goes on with the claim of the call before.
EnterAgain(c) == phase' = "devices" /\ claim' = claim /\ pos' = 1 /\ acc' = {}

Enter(c) == phase' = "devices" /\ claim' = c /\ pos' = 1 /\ acc' = {}

PrepareBegin(c) ==
  /\ running
  /\ phase = "idle"
  /\ c \notin DOMAIN prepared
  /\ Enter(c)
  /\ needPublish' = FALSE
  /\ UNCHANGED <<running, claimVars, deviceVars, kernelVars, outVars>>

\* The loop of Prepare is at a result it can prepare.
AtResult == phase = "devices" /\ pos <= Len(Allocation[claim])

AtOwnResult ==
  /\ AtResult
  /\ Current.local
  /\ ~(~Current.admin /\ UsedExclusively(Current.device, claim))
  /\ Current.device \in allocatable

\* A result of another driver or pool is ignored.
PrepareSkip ==
  /\ AtResult
  /\ ~Current.local
  /\ pos' = pos + 1
  /\ UNCHANGED <<running, claimVars, deviceVars, kernelVars, phase, claim, acc,
                 needPublish, outVars>>

\* The device is held by another claim, or is not one of this node's.
PrepareReject ==
  /\ AtResult
  /\ Current.local
  /\ \/ ~Current.admin /\ UsedExclusively(Current.device, claim)
     \/ Current.device \notin allocatable
  /\ phase' = "returning"
  /\ UNCHANGED <<running, claimVars, deviceVars, kernelVars, claim, pos, acc,
                 needPublish, outVars>>

\* The device is appended to preparedDevices and the loop goes on.
Prepared(r) ==
  /\ acc' = acc \cup {[device |-> r.device, admin |-> r.admin]}
  /\ pos' = pos + 1
  /\ phase' = "devices"

\* The device is already bound to what its class asks for.  needToPublishSlice is
\* assigned the result for this device.
PrepareBound ==
  /\ AtOwnResult
  /\ ~NeedsRebind(Current)
  /\ Prepared(Current)
  /\ needPublish' = FALSE
  /\ UNCHANGED <<running, claimVars, deviceVars, kernelVars, claim, outVars>>

\* The kernel module is not loaded, binding is not managed, or the device cannot be
\* unbound: the driver stays as it is and Prepare fails.
PrepareUnbindFails ==
  /\ AtOwnResult
  /\ \/ KernelFaults
     \/ NeedsRebind(Current) /\ ~ManageBinding
  /\ phase' = "returning"
  /\ needPublish' = FALSE
  /\ UNCHANGED <<running, claimVars, deviceVars, kernelVars, claim, pos, acc, outVars>>

\* changeKernelDriver unbinds the device from whatever driver it is bound to.
Unbind ==
  LET d == Current.device IN
  /\ AtOwnResult
  /\ NeedsRebind(Current)
  /\ ManageBinding
  /\ phase' = "rebind"
  /\ Room(2)
  /\ \/ /\ sysfsDriver[d] \in Drivers
        /\ SysfsChange(d, "unbound")
        /\ unseen' = IF watching THEN unseen ELSE unseen \cup {d}
        /\ UNCHANGED watching
     \/ /\ sysfsDriver[d] \notin Drivers
        /\ UNCHANGED kernelVars
  /\ UNCHANGED <<running, claimVars, deviceVars, claim, pos, acc, needPublish, outVars>>

\* The device cannot be bound to the target driver (it is gone, or somebody else
\* has bound it): it is left as it is and CurrentDriver is not updated.
BindFails ==
  /\ phase = "rebind"
  /\ KernelFaults \/ sysfsDriver[Current.device] # "unbound"
  /\ phase' = "returning"
  /\ needPublish' = TRUE
  /\ UNCHANGED <<running, claimVars, deviceVars, kernelVars, claim, pos, acc, outVars>>

\* The device is bound to the target driver and CurrentDriver follows.  Then the
\* device nodes are looked up and the CDI entry rewritten; any of it may fail, with
\* the old entry still there or removed and not added again.
Bind ==
  LET d == Current.device
      target == TargetDriver(Current) IN
  /\ phase = "rebind"
  /\ sysfsDriver[d] = "unbound"
  /\ sysfsDriver' = [sysfsDriver EXCEPT ![d] = target]
  /\ events' = IF watching THEN Append(events, [device |-> d, driver |-> target]) ELSE events
  /\ unseen' = unseen \ {d}
  /\ SetCurrentDriver(d, target)
  /\ unpublished' = unpublished \cup {d}
  /\ needPublish' = TRUE
  /\ \/ /\ UpdateGPUDevices(d, target)
        /\ Prepared(Current)
     \/ /\ KernelFaults
        /\ \E left \in {cdiEdits[d], "none"} : cdiEdits' = [cdiEdits EXCEPT ![d] = left]
        /\ phase' = "returning"
        /\ UNCHANGED <<pos, acc>>
  /\ UNCHANGED <<running, claimVars, allocatable, absentTaint, driverTaint, watching,
                 claim, granted>>

-----------------------------------------------------------------------------
(* The checkpoint file is truncated and then written (os.WriteFile), with   *)
(* the map in memory already changed.                                       *)

StoreTruncate(p, next) ==
  /\ prepared' = p
  /\ \/ /\ torn' = TRUE
        /\ phase' = next
     \/ /\ WriteFaults      \* the file cannot be opened
        /\ torn' = torn
        /\ phase' = "returning"
  /\ UNCHANGED checkpoint

\* All results are prepared.
PrepareStore ==
  /\ phase = "devices"
  /\ pos > Len(Allocation[claim])
  /\ StoreTruncate(Put(prepared, claim, acc), "saving")
  /\ UNCHANGED <<running, deviceVars, kernelVars, claim, pos, acc, needPublish, outVars>>

\* Mutant: the file is written before the map holds the claim.
EncodedBefore == Delete(prepared, claim)

Encoded == prepared

Write(ok) ==
  /\ phase \in {"saving", "freeing"}
  /\ IF ok THEN checkpoint' = Encoded /\ torn' = FALSE
           ELSE WriteFaults /\ UNCHANGED <<checkpoint, torn>>
  /\ phase' = IF ok /\ phase = "saving" THEN "granting" ELSE "returning"
  /\ UNCHANGED <<running, prepared, deviceVars, kernelVars, claim, pos, acc,
                 needPublish, outVars>>

\* The handler publishes a new ResourceSlice if it has to, and answers kubelet.
Return ==
  /\ phase \in {"granting", "returning"}
  /\ unpublished' = IF needPublish THEN {} ELSE unpublished
  /\ granted' = IF phase = "granting" THEN granted \cup {claim} ELSE granted
  /\ phase' = "idle"
  /\ claim' = NoClaim
  /\ pos' = 1
  /\ acc' = {}
  /\ needPublish' = FALSE
  /\ UNCHANGED <<running, claimVars, deviceVars, kernelVars>>

-----------------------------------------------------------------------------
(* Unprepare: kubelet calls it when no container uses the claim any more.   *)

DevicesOf(c) == {x.device : x \in prepared[c]}

\* Mutant: the taint outlives the claim.
NoTaint(c) == {}

\* UnexpectedDriver taints that go with the claim.
ClaimTaints(c) == driverTaint \cap DevicesOf(c) \cap allocatable

\* Mutant: unprepareDevices does not ask for a new ResourceSlice.
NeverPublish(cleared) == FALSE

PublishIfCleared(cleared) == cleared # {}

\* A claim that is not prepared is already unprepared.
UnprepareUnknown(c) ==
  /\ running
  /\ phase = "idle"
  /\ c \notin DOMAIN prepared
  /\ c \in granted
  /\ granted' = granted \ {c}
  /\ UNCHANGED <<running, claimVars, deviceVars, kernelVars, callVars, unpublished>>

\* unprepareDevices clears the UnexpectedDriver taint of the claim's devices.  The ids
\* it removes from the CDI specs are qualified (vendor/class=uid) and match no entry's
\* name, so every entry stays; rewriting the specs may fail, and the claim then stays
\* prepared.
Unprepare(c) ==
  LET cleared == ClaimTaints(c) IN
  /\ running
  /\ phase = "idle"
  /\ c \in DOMAIN prepared
  /\ granted' = granted \ {c}
  /\ claim' = c
  /\ driverTaint' = driverTaint \ cleared
  /\ unpublished' = unpublished \cup cleared
  /\ needPublish' = PublishIfCleared(cleared)
  /\ \/ StoreTruncate(Delete(prepared, c), "freeing")
     \/ KernelFaults /\ phase' = "returning" /\ UNCHANGED claimVars
  /\ UNCHANGED <<running, allocatable, currentDriver, absentTaint, kernelVars, pos, acc>>

-----------------------------------------------------------------------------
(* The udev goroutine                                                       *)

\* What the ResourceSlice shows of the devices.
shown == <<allocatable, currentDriver, absentTaint, driverTaint>>

\* A new one is published when the mutex is released, if the handler asks for it.
Publish(d, needToPublish) ==
  unpublished' = IF needToPublish THEN {}
                 ELSE IF shown' = shown THEN unpublished ELSE unpublished \cup {d}

\* Mutant: a change of a device in use is ignored.
IgnoredWhenUsed(d, expected) == sysfsDriver[d] # expected \/ UsedExclusively(d, NoClaim)

\* The event is older than what was discovered: another event follows.
Ignored(d, expected) == sysfsDriver[d] # expected

\* Mutant: a device that is back is not published.
PublishUpdated(d, updated) == updated

NeedToPublish(d, updated) == d \in absentTaint \/ updated

\* cachedDeviceInfo of a device found in sysfs is compared with what was discovered.
RefreshKnown(d, expected) ==
  LET updated == ~Ignored(d, expected) /\ currentDriver[d] # sysfsDriver[d] IN
  /\ absentTaint' = absentTaint \ {d}
  /\ IF updated
       THEN /\ SetCurrentDriver(d, sysfsDriver[d])
            /\ driverTaint' = driverTaint \cup (IF UsedExclusively(d, NoClaim) THEN {d} ELSE {})
       ELSE UNCHANGED <<currentDriver, driverTaint>>
  /\ unseen' = IF Ignored(d, expected) THEN unseen ELSE unseen \ {d}
  /\ UNCHANGED <<allocatable, cdiEdits>>
  /\ Publish(d, NeedToPublish(d, updated))

\* A device that was not among the allocatable ones becomes one; an unbound device
\* gets no CDI entry.
RefreshNew(d) ==
  /\ allocatable' = allocatable \cup {d}
  /\ SetCurrentDriver(d, sysfsDriver[d])
  /\ \/ UpdateGPUDevices(d, sysfsDriver[d])
     \/ KernelFaults /\ UNCHANGED cdiEdits
  /\ unseen' = unseen \ {d}
  /\ UNCHANGED <<absentTaint, driverTaint>>
  /\ Publish(d, TRUE)

\* A device of Allocatable that is not discovered is tainted; one that is neither is
\* only logged.
RefreshAbsent(d) ==
  /\ absentTaint' = absentTaint \cup ({d} \cap allocatable)
  /\ UNCHANGED <<allocatable, currentDriver, driverTaint, cdiEdits, unseen>>
  /\ Publish(d, d \in allocatable)

\* RefreshDeviceOnDriverEvent, for the oldest event.
Refresh ==
  LET d == Head(events).device IN
  /\ running
  /\ phase \notin Locked
  /\ events # <<>>
  /\ events' = Tail(events)
  /\ \/ sysfsDriver[d] # "absent" /\ d \in allocatable /\ RefreshKnown(d, Head(events).driver)
     \/ sysfsDriver[d] # "absent" /\ d \notin allocatable /\ RefreshNew(d)
     \/ (sysfsDriver[d] = "absent" \/ KernelFaults) /\ RefreshAbsent(d)
  /\ UNCHANGED <<running, claimVars, sysfsDriver, watching, callVars, granted>>

-----------------------------------------------------------------------------
(* The process stops at any step; newDriver discovers the devices, rewrites *)
(* the CDI specs and reads the checkpoint.                                  *)

Stop ==
  /\ running' = FALSE
  /\ prepared' = NoPreparations
  /\ allocatable' = {}
  /\ currentDriver' = [d \in Devices |-> "unbound"]
  /\ absentTaint' = {}
  /\ driverTaint' = {}
  /\ watching' = FALSE
  /\ events' = <<>>
  /\ unseen' = {}
  /\ phase' = "idle"
  /\ claim' = NoClaim
  /\ pos' = 1
  /\ acc' = {}
  /\ needPublish' = FALSE
  /\ unpublished' = {}
  /\ UNCHANGED <<checkpoint, torn>>

Crash ==
  /\ running
  /\ Stop
  /\ UNCHANGED <<cdiEdits, sysfsDriver, granted>>

\* After a reboot no container runs and the kernel binds every device to its DRM driver.
Reboot ==
  /\ Reboots
  /\ Stop
  /\ granted' = {}
  /\ sysfsDriver' = [d \in Devices |-> IF sysfsDriver[d] = "absent" THEN "absent" ELSE "drm"]
  /\ cdiEdits' = [d \in Devices |-> IF cdiEdits[d] = "none" THEN "none" ELSE "stale"]

Present == {d \in Devices : sysfsDriver[d] # "absent"}

\* Mutant: the checkpoint is not read.
NothingRecovered == NoPreparations

Recovered == checkpoint

\* The CDI specs are written anew for the devices that were discovered; an unbound one
\* has no device nodes to describe.
AddDetectedDevicesToCDIRegistry(found) ==
  cdiEdits' = [d \in Devices |-> IF d \notin found THEN "none"
                                 ELSE IF sysfsDriver[d] \in Drivers THEN "fresh" ELSE "stale"]

\* A file that was truncated and not written does not parse: newNodeState fails, after
\* it rewrote the CDI specs.
Restart ==
  \E found \in IF KernelFaults THEN SUBSET Present ELSE {Present} :
    /\ ~running
    /\ AddDetectedDevicesToCDIRegistry(found)
    /\ running' = ~torn
    /\ IF torn THEN UNCHANGED <<prepared, allocatable, currentDriver>>
       ELSE /\ prepared' = Recovered
            /\ allocatable' = found
            /\ currentDriver' = [d \in Devices |-> IF d \in found THEN sysfsDriver[d] ELSE "unbound"]
    /\ UNCHANGED <<checkpoint, torn, absentTaint, driverTaint, sysfsDriver, watching, events,
                   unseen, callVars, outVars>>

\* The udev monitor is started after the devices were discovered.
StartWatch ==
  /\ running
  /\ Healthcare
  /\ ~watching
  /\ watching' = TRUE
  /\ UNCHANGED <<running, claimVars, deviceVars, cdiEdits, sysfsDriver, events, unseen,
                 callVars, outVars>>

-----------------------------------------------------------------------------
Init ==
  /\ running = FALSE
  /\ prepared = NoPreparations
  /\ checkpoint = NoPreparations     \* GetOrCreatePreparedClaims makes an empty file
  /\ torn = FALSE
  /\ allocatable = {}
  /\ currentDriver = [d \in Devices |-> "unbound"]
  /\ absentTaint = {}
  /\ driverTaint = {}
  /\ cdiEdits = [d \in Devices |-> "none"]
  /\ sysfsDriver = [d \in Devices |-> "drm"]
  /\ watching = FALSE
  /\ events = <<>>
  /\ unseen = {}
  /\ phase = "idle"
  /\ claim = NoClaim
  /\ pos = 1
  /\ acc = {}
  /\ needPublish = FALSE
  /\ unpublished = {}
  /\ granted = {}

PrepareStep ==
  \/ PrepareSkip \/ PrepareReject \/ PrepareBound \/ PrepareUnbindFails
  \/ Unbind \/ BindFails \/ Bind \/ PrepareStore

Next ==
  \/ \E c \in Claims : PrepareAgain(c) \/ PrepareBegin(c) \/ UnprepareUnknown(c) \/ Unprepare(c)
  \/ PrepareStep
  \/ \E ok \in BOOLEAN : Write(ok)
  \/ Return
  \/ Refresh
  \/ \E d \in Devices : ExternalChange(d)
  \/ Crash \/ Reboot \/ Restart \/ StartWatch

Spec == Init /\ [][Next]_vars

-----------------------------------------------------------------------------
(* Properties                                                               *)

\* Every variable has its type (nodeState and DeviceInfo, node_state.go:46).
TypeOK ==
  /\ running \in BOOLEAN /\ torn \in BOOLEAN /\ watching \in BOOLEAN
  /\ needPublish \in BOOLEAN
  /\ prepared \in ClaimPreparations
  /\ checkpoint \in ClaimPreparations
  /\ allocatable \subseteq Devices
  /\ currentDriver \in [Devices -> Drivers \cup {"unbound"}]
  /\ absentTaint \subseteq Devices /\ driverTaint \subseteq Devices
  /\ cdiEdits \in [Devices -> {"none", "fresh", "stale"}]
  /\ sysfsDriver \in [Devices -> SysfsStates]
  /\ events \in Seq(Event)
  /\ unseen \subseteq Devices /\ unpublished \subseteq Devices
  /\ phase \in Phases
  /\ claim \in Claims \cup {NoClaim}
  /\ (phase # "idle") => claim \in Claims
  /\ pos \in Nat \ {0}
  /\ (phase = "rebind") => pos <= Len(Allocation[claim])
  /\ acc \subseteq PreparedDevice
  /\ granted \subseteq Claims

Exclusive(p) ==
  \A c1, c2 \in DOMAIN p : c1 # c2 =>
    \A x \in p[c1], y \in p[c2] : x.device = y.device => x.admin \/ y.admin

\* No device is prepared for two claims without adminAccess, in memory or in the
\* checkpoint a restart would read (node_state.go:233).
ExclusiveUse == Exclusive(prepared) /\ Exclusive(checkpoint)

\* The devices a claim was allocated for itself, on this node.
Holds(c) ==
  {Allocation[c][i].device : i \in {j \in 1..Len(Allocation[c]) :
      Allocation[c][j].local /\ ~Allocation[c][j].admin}}

\* No two claims that kubelet runs containers with share a device one of them was
\* allocated for itself, whatever crashes and retries there were: the "protection
\* against force-deleted claims" of node_state.go:233.
GrantedExclusive ==
  \A c1, c2 \in granted : c1 # c2 => Holds(c1) \cap Holds(c2) = {}

\* A claim kubelet was answered for is on record: in memory while the plugin runs, in
\* the checkpoint when it does not, unless the checkpoint is unreadable
\* (node_state.go:291, claimPreparations.go:129).
GrantedRecorded ==
  /\ running => granted \subseteq DOMAIN prepared
  /\ ~running /\ ~torn => granted \subseteq DOMAIN checkpoint

\* The claims on record: those in memory while the plugin runs, those a restart would
\* read while it does not.  With an unreadable checkpoint it does not run again, and
\* what is left are the claims kubelet still runs containers with.
OnRecord ==
  IF running THEN DOMAIN prepared ELSE IF torn THEN granted ELSE DOMAIN checkpoint

Ledger == INSTANCE DeviceLedger WITH
  Wanted <- [c \in Claims |-> Holds(c)], recorded <- OnRecord

\* Through rebinding, partial failures, retries, crashes and restarts the plugin keeps
\* what DeviceLedger promises (node_state.go:213, 405 and 57).
ImplementsLedger == Ledger!Spec

\* A call that ends with the claim prepared leaves every device of it bound to the
\* driver its class asks for (USAGE.md:408-414).
PreparedOnRequestedDriver ==
  phase = "saving" =>
    \A i \in 1..Len(Allocation[claim]) :
      LET r == Allocation[claim][i] IN r.local => sysfsDriver[r.device] = TargetDriver(r)

\* Unless others rebind devices, whose CDI entries the code then leaves as they are
\* (node_state.go:391), a device is prepared for a claim only when its entry describes
\* the device nodes that exist (node_state.go:465 and 522).
PreparedWithFreshEdits ==
  [][~ExternalChanges => \A x \in acc' \ acc : cdiEdits'[x.device] = "fresh"]_vars

\* The plugin never rebinds a device under a claim that runs containers with it.
NoRebindUnderGrant ==
  phase = "rebind" => \A c \in granted : Current.device \notin Holds(c)

\* The UnexpectedDriver taint goes with the claims: a device nobody has prepared does
\* not carry it (node_state.go:388).
TaintOnlyInUse ==
  \A d \in driverTaint : \E c \in DOMAIN prepared : d \in DevicesOf(c)

\* Only a change by somebody else makes a driver unexpected: the plugin's own rebinding
\* raises no taint (node_state.go:373).
OwnChangesNeverTaint == ~ExternalChanges => driverTaint = {}

\* Between calls the published ResourceSlice shows what the plugin knows of each
\* device (node_state.go:211).
PublishedWhenIdle == phase = "idle" => unpublished = {}

\* When every udev event was handled, the cached driver of each device is the kernel's
\* (node_state.go:330), unless the device was changed before the monitor was started
\* or could not be discovered and is tainted for it.
CacheFollowsKernel ==
  running /\ phase \notin Locked /\ events = <<>> =>
    \A d \in (allocatable \cap Present) \ (unseen \cup absentTaint) : currentDriver[d] = sysfsDriver[d]
=============================================================================
