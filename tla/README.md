# TLA+ models of the Intel resource drivers for Kubernetes

The repository has three DRA kubelet plugins, for Intel GPUs, QAT accelerators and
Gaudi accelerators. Each runs as one process per node, finds its devices in sysfs,
answers kubelet's `PrepareResourceClaims` and `UnprepareResourceClaims`, keeps the
prepared claims in memory and in a checkpoint file, writes CDI specs that containers are
started with, and publishes a ResourceSlice. This directory has TLA+ models of them, TLC
configurations that check the models on small instances, and TLAPS proofs of their safety
properties. `PROJECT.json` lists components, runs, hazards, mutants and theorems, and maps
each definition to the lines it models. Paths are relative to `src/`.

## 1. Inventory

| Part | State | Operations | What makes it hard | What makes it correct |
|---|---|---|---|---|
| GPU `nodeState` (`cmd/kubelet-gpu-plugin/node_state.go`, `driver.go`, `claimPreparations.go`, `pkg/vfio`) | `Allocatable` with `CurrentDriver` and `HealthStatus`, `Prepared`, checkpoint file, drivers in sysfs | Prepare, Unprepare, restart | steps that fail halfway, crashes between map, file and answer, retries, reboots | no device for two exclusive claims; what is granted is on record; a device is on the driver its class asks for |
| GPU udev listener (`udev.go`) | a queue of events | `RefreshDeviceOnDriverEvent` | events older than the device's state, the plugin's own rebinding | the cached driver follows the kernel; only somebody else's change taints, and only while a claim uses the device |
| GPU health (`xpumd.go`, `resourceHealthPodStatus.go`) | `HealthStatus`, ResourceSlice, streams and their channels | connect, receive, publish, broadcast, open and close a stream | three kinds of goroutines, a mutex that is not held while publishing, a bounded channel, cancellation, aborted streams | the published taints and kubelet's streams follow the health; the listener neither hangs nor stops silently |
| GPU discovery (`pkg/gpu/discovery`, `pkg/gpu/drm`) | the map of devices being made, sysfs | `DiscoverDevices`: PCI, driver, names, SR-IOV, memory | many readings of a sysfs that changes | what is published of a device is its own |
| GPU plugin from start to end (`driver.go`, `healthcheck.go`, `pkg/helpers/helpers.go`) | servers, health endpoint, signal channel | start, serve, check, stop | checks in flight while the plugin stops, servers that die, a port that is taken | a check fails for a reason only, a signal ends the plugin, kubelet's restarts bring it back |
| QAT claims (`cmd/kubelet-qat-plugin`) | `Prepared`, checkpoint, PFs with `AvailableDevices` and `AllocatedDevices` | set-up, configuration, Prepare, Unprepare | roll-back of a claim that fails, allocations that exist in memory only | each VF is free or one claim's; nothing leaks |
| QAT physical function (`pkg/qat/device`) | state, services and VFs in sysfs, a copy in memory | `New`, `EnableVFs`, `SetServices`, `Allocate...`, `Free` | any write may fail, the process may end between two of them, a configuration may be refused | memory and sysfs agree where it matters; no VF in use loses its services; a PF comes up again |
| Gaudi claims (`cmd/kubelet-gaudi-plugin/node_state.go`, `driver.go`, `pkg/gaudi/cdihelpers`) | `Prepared`, checkpoint, the CDI spec in a file and in the CDI library | Prepare, Unprepare, restart | a cache that is changed before its file and refreshed later, also between getting the spec and writing it | a claim has its blank CDI device as long as it is prepared, and not longer |
| Gaudi health (`healthcare.go`) | HLML event set, `Healthy` flags, DeviceTaintRules, ResourceSlice | watch, receive, update, publish, shutdown | an unbuffered channel between two goroutines, events at any time | each critical event is published and tainted; shutting down stops the goroutines |
| Gaudi discovery (`pkg/gaudi/discovery`) | the map of devices being made, sysfs | `DiscoverDevices`, with its fallback for older kernels | indexes that are given out again while they are read | a Gaudi gets no accel device of another one |
| CDI directory (the `cdihelpers` packages, `cmd/cdi-specs-generator`) | spec files, a copy of them in each program | remove old specs, write, update an entry, blank devices, make readable | four programs, a copy that is refreshed late, also between getting specs and writing them | each device is described once, by its present edits |
| Fake sysfs of the tests (`pkg/fakesysfs/gpu.go`, `gpu-driver-binder.go`) | directories, links, device nodes, `bind` and `unbind` files | bind, unbind, read and truncate | a watcher and the plugin meet only in files | the file system stays consistent and each change asked for is done |
| `pkg/helpers` | claims and checkpoint of QAT and Gaudi | read, write, Unprepare | as above | as above |

kubelet calls a plugin one call at a time (the kubeletplugin helper serialises them).
In the GPU plugin the state mutex is shared by kubelet's calls, the udev goroutine and
the xpumd listener. The udev goroutine and Prepare act on the same sysfs. The plugins and
the generator share the CDI directory. The DRA helper with its gRPC servers, the API
server, kubelet, the kernel, xpumd, HLML, the CDI library and inotify are external: they
are modelled from how the code uses them.

Not modelled: `WatchNumvfs` and the VFs of `pkg/fakesysfs/gpu-sriov.go` (nothing calls
them), the fakes of Gaudi, QAT and HLML and the device faker (they fill directories
once), `qat-showdevice` (it prints what it reads), flags, logging and version, and the
data no property tells apart: MEI names, PCI roots, models, the layout of what ioctls
return, Gaudi's classic names, IOMMU groups of QAT. `PROJECT.json` has the reason for each.

## 2. Modules

| Module | Models | Composes or refines |
|---|---|---|
| `DeviceLedger` | the promise for claims: recorded only when their devices are free, granted only when recorded, recorded as long as granted | abstract |
| `GpuNodeState` | GPU claims, checkpoint, driver binding, udev listener, CDI edits of a device, kernel, restart | implements `DeviceLedger` with `recorded <- OnRecord` |
| `GpuHealth` | xpumd listener, other goroutines that change health, publishing, health streams | |
| `GpuLifecycle` | start, health endpoint, signals and end of the GPU plugin, with kubelet's probes and restarts | |
| `VfPool` | the promise for VFs: taken only from nobody, given back only by their holder, reconfigured only when nobody holds one | abstract |
| `QatNodeState` | all PFs with their VFs, claims, start-up configuration | implements `VfPool`, with a claim as the holder |
| `QatDevice` | one PF, write by write | implements `VfPool`, with sysfs as the configuration |
| `GaudiNodeState` | claims, blank CDI devices, CDI library | |
| `GaudiHealth` | watcher and monitor goroutines, HLML, taint rules | |
| `CdiRegistry` | the CDI directory with all programs that write it | composes the three plugins' and the generator's CDI code |
| `GpuDiscovery`, `GaudiDiscovery` | discovery reading by reading, against a kernel that changes | |
| `Discovery` | the program that looks for one kind of devices | composes both |
| `FakeGpuSysfs` | fake sysfs, its watcher, and the plugin's rebinding through it | composes `pkg/fakesysfs` with `pkg/vfio` |
| `MC...` | values of the constants for TLC | extends its module |
| `..._proofs` | theorems (section 4) | extends its modules |

### GpuNodeState

A call is a sequence of steps, because the kernel or a crash may come between two of
them: `phase` is where it is, `claim`, `pos` and `acc` are the claim, the index of the
loop over `Allocation.Devices.Results` and `preparedDevices`. `PrepareSkip`,
`PrepareReject`, `PrepareBound`, `PrepareUnbindFails`, `Unbind`, `BindFails` and `Bind`
are what one turn of the loop may do; `PrepareStore` and `Write` change the map,
truncate the file and write it (`os.WriteFile` is not atomic: `torn`); `Return` is what
`driver.go` does after the call. `Refresh` is a whole run of
`RefreshDeviceOnDriverEvent`, which needs the mutex (`phase \notin Locked`). `granted` is
kubelet's view: the claims it got a PrepareResult for. i915 and xe are one driver
(`"drm"`), vfio-pci and xe-vfio-pci another. `cdiEdits` says whether a device's CDI
entry describes the device nodes of its present binding. `RemoveDevices` in Unprepare
matches no entry (it compares qualified names with plain ones), so Unprepare leaves the
entries alone, as the code does. A kubelet call is for one claim; the code's loop over
several claims publishes once at the end.

`unseen` holds devices changed before the udev monitor was started, `unpublished` the
devices whose change is not in the ResourceSlice yet. Both only watch: no guard reads
them.

### GpuHealth

`status` is `HealthStatus` of each device, per category. `TakeSnapshot` is
`GetResources` under the mutex, `PublishResources` comes after it without the mutex, as
in `PublishResourceSlice`. The steps of the listener are the phases of `xpumdListen` and
`ConsumeXPUMDDeviceDetails`. gRPC aborts a stream on every error but the end of it
(`aborted`): only a reconnect, or kubelet's restart of a plugin that gave up, opens a
new one. `infiniteWait` is the flag `--health-monitoring-optional`. `Publishers` are the
udev goroutine and kubelet's Unprepare, which change the plugin's own categories and
publish. `overlap`, `due` and `skipped` only watch. Broadcasting is one step, since it
holds the streams' mutex.

### QatNodeState

`phase` runs through start-up (`enabling`, `configuring`), then kubelet's calls.
`allocated` and `available` are the two maps of every PF together. Nothing but a crash
comes between the steps of a call. `AllowReconfiguration` is false for each PF
(`device.go:212`) and `EnableReconfiguration` has no caller outside tests, so
`AllocateWithReconfiguration` always fails and freeing the last VF reconfigures
nothing. `"panic"` is the nil pointer of a device that is no longer allocatable.

### GaudiNodeState

The CDI library has three views of a blank device: in the spec `file`, in the cached
`spec` the plugin changes before it writes it, and in the `index` by which
`GetDevice` finds it, which is rebuilt when the library's watcher notices a change
(`Refresh`). The watcher is a goroutine of its own, and any program's write to the
directory wakes it. So getting a spec is one step (`Prepare`, `UnprepareDelete`) and
changing and writing it the next (`PrepareAdd`, `UnprepareFilter`): a call goes on with the
spec it `held`, which is the one the library has only while `shared`. `GetDevice` and the
spec it belongs to are of one refresh, so a late index makes the filter of a spec without
the device index out of range (phase `"panic"`).

`cdiHabanaEnvVar` looks a device up by a name that is not qualified, so its
overwriting branch is never taken. `spec[c]` counts up to 2, for "more than once".
`failed`, `unrecorded`, `missed`, `recovered` and `overtaken` only watch. `overtaken` has
the prepared claims whose device was written from a spec the library had no more: it may
get lost by the next call's write until the library has read it (Disagreements).

### GaudiHealth

`outbox` is what the watcher has to send on the unbuffered channel, `received` what the
monitor has taken. The ResourceSlice is `slice`. `Shutdown` and `ShutdownHLML` are the
two halves of the handler around its sleep of one second.

### QatDevice

Where `QatNodeState` takes the configuration of a PF as one or two steps, `QatDevice` has a
step per write: `phase` runs through `down`, `write`, `create`, `unbind`, `bind` and `up`
of `SetServices` and `EnableVFs`, and `caller` says where their result goes. `Default` is
what the default configuration may ask for, `Supported` what the hardware accepts; a
refused configuration is restored (`restoring`). `Reconfigurable` is
`AllowReconfiguration`: `Allocate` and `Free` then reconfigure in the same call, which the
plugin has no caller for but the package and its tests offer. The set-up binds VFs in any
order (Go's order of a map).

### CdiRegistry

`dir` is the directory, `view` the copy in each program's library; a write by anyone makes
all copies `stale` and `Refresh` reads the directory again, between any two steps. An entry
is the device and the driver its edits are for. Names sort as in the code, on which
`FirstSpec`, the spec Gaudi's blank device goes to, depends. `RemoveOld` removes nothing for
QAT and Gaudi, as in the code (see Disagreements).

A call gets specs and writes them in two steps; `held` are the specs of the call in
progress, `shared` says whether the library still has the same ones, which are then changed
with them. `UpdateGPUDevices` is `Update` (Prepare changed the driver) or `Appear` (the udev
goroutine found a new GPU, perhaps without a driver), then `Drop`, `Fetch` and `Add`; the
blank devices are `NewBlankDevice` and `AddBlank`, `DeleteBlankDevices` and `DropBlank`.
An entry with the edits `"twice"` stands for a device that is in a spec twice, which
`WriteSpec` refuses. `index` is what Gaudi's library can find by name.

`overtaken` has, per program, what it wrote from specs its library had no more; it leaves
when the library has read it and no call holds specs without it. `missed` has claims that
were unprepared before the library saw their device come or go. Both are history: no guard
reads `overtaken`, and `missed` only keeps `NewBlankDevice` from claims that are prepared
again while their device is still there, which are `GaudiNodeState`'s, with the failures of
Gaudi's writes. `driver` changes by the plugin only; what others do to a driver, and the CDI
entry that is then left as it was, is in `GpuNodeState`. The MEI device of a GPU that
appears late is added to no spec, by the code or here.

### FakeGpuSysfs

`file` is what was written to a `bind` or `unbind` file since it was truncated. The watcher
is told by inotify (`events`, which merges equal ones), reads, truncates and only then
acts: `WatcherRead`, `WatcherTruncate`, `WatcherAct`. The plugin is `changeKernelDriver`
with the two sleeps of `pkg/vfio`; `Slept` is where a sleep ends.

### GpuLifecycle

`main` is the main goroutine, `hc` the health endpoint, `probe` the server the check in
flight asks. A check of the DRA server waits behind a call that is `busy` with claims.
`dead` servers and a taken port are only logged by the code. `fails` is kubelet's count.

### GpuDiscovery, GaudiDiscovery, Discovery

`at` is the device that is looked at, with the step that comes next: each step reads one
file or directory. The kernel and the administrator bind, unbind, probe and register
devices and enable VFs between any two steps. `touched` and `had` are history, which no
guard reads: devices that changed since the discovery began, and the device nodes there
were. `program` says whose discovery it is: names and privileges differ.

## 3. Runs

| Run | Instance | Shows | States |
|---|---|---|---|
| `gpu_prepare` | 2 GPUs, claims of a VM, a pod (after the VM's claim was force-deleted) and a monitor; kernel failures, reboots | `TypeOK`, `ExclusiveUse`, `GrantedExclusive`, `GrantedRecorded`, `ImplementsLedger` | 2 755 |
| `gpu_udev` | 1 GPU, 2 claims, anyone rebinds it, 3 waiting events | `TaintOnlyInUse`, `PublishedWhenIdle`, `CacheFollowsKernel`, `NoRebindUnderGrant` | 12 526 |
| `gpu_rebind` | a VM's claim of 2 GPUs, a pod's of 1, 4 waiting events, failing writes, reboots | `PreparedOnRequestedDriver`, `OwnChangesNeverTaint`, `PreparedWithFreshEdits` | 6 155 |
| `gpu_health` | 1 GPU, a category of xpumd's and one of the plugin's, 1 other goroutine, 1 stream with room for 1 update, 2 attempts, 1 error, health monitoring required or optional | `TaintsPublishedAlone`, `StreamsFollow`, `NilStreamNeverUsed`, `ListenerStops`, `StreamComesBack` | about 963 000 |
| `gpu_lifecycle` | 2 failed probes restart the plugin, 3 faults (failing steps, dead servers, a taken port, signals) | `NotServingOnlyWhenDead`, `SignalEnds`, `Recovers` | 2 932 |
| `qat_node` | 2 PFs with 3 VFs, 3 claims of which two want one VF, all failures | `HeldWhilePrepared`, `NoLeak` (with `Partition`), `ImplementsPool` | 38 356 |
| `qat_device` | 1 PF with 3 VFs, 2 claims, 2 services, a configuration the hardware refuses, 2 crashes, failing writes or none | `ReadyWhenUp`, `ImplementsPool`, `UpAgain` | 130 662 |
| `gaudi_node` | 2 claims with Gaudi devices, 1 without, all failures | `BlanksMatch`, `GrantedRecorded` | 8 477 936 |
| `gaudi_health` | 2 devices, all failures | `UnhealthyIsTainted`, `ErrorPublished`, `WatcherStops` | 19 496 |
| `cdi` | the GPU and the QAT plugin with 2 GPUs, 1 MEI and 1 VF and 2 updates (driver changes and late GPUs), the GPU and the Gaudi plugin with 1 of each, 1 update and 2 claims, or the generator; an old GPU file, 1 end of a program, failing writes | `DevicesDescribed`, `BlankKept`, `GeneratedReadable` | about 1 690 000 |
| `fake_gpu` | 2 xe GPUs, 4 driver changes, a watcher that is prompt or not | `FilesSound` (`LinksAgree`, `NodesOwned`), `PluginUpToDate`, `ChangeDone` | about 866 000 |
| `discovery` | a PF with 2 VFs, a GPU of an unknown model and a network card, or 3 Gaudis; 3 changes of drivers and VFs; 3 programs and 4 kernels | `FoundRight`, `NodesWereTheirs`, `GaudiNodesWereTheirs` | about 1 570 000 |

The type invariant of each module is a conjunct of one of its properties
(`GpuNodeState` checks its own, which is a theorem as well). Every property has a mutant
in `PROJECT.json`: a plausible error in a modelled definition that the run then finds.

Names that play the same part are interchanged by TLC's symmetry reduction: the two claims
with Gaudis in `gaudi_node` and in `cdi`. No liveness is checked in these runs.

Some variables are chosen in `Init` and never change, so that one run has several
hosts: `infiniteWait` (`GpuHealth`), `sysfsFaults` (`QatDevice`), `programs`
(`CdiRegistry`, whose `Installed` and `MaxUpdates` depend on it), `prompt` (`FakeGpuSysfs`), `program`, `wanted`, `accelDir` and
`moduleId` (the discoveries). A property that needs one of them says so.

Why these bounds are enough to be of interest: exclusivity needs two claims and one
device, a lost update of a loop over devices needs two devices, and a result of another
driver is in the middle of an allocation. A rebinding makes two events, so three or four
waiting events let an event be older than the next change. One more goroutine that
publishes is what a race of snapshots needs; room for one update is where a channel
becomes full. A second VF on a PF distinguishes "no VF of this PF is allocated" from "this
VF is not allocated", and a third lets the process end with some VFs bound, one unbound
and one untouched; two crashes let a recovery be interrupted. Two updates of GPUs let the
second meet what the first left in the CDI copy, and two claims let the write for one meet
what that for the other left; one end is a restart that meets any files a killed program
left. Four
changes are two devices there and back; the number spaces of the fake sysfs are used
beyond the numbers given at first. Three changes unbind a device, bind it and bind another
one in its place while one program reads. Three faults are a dead server, a signal while
the checks fail, and a failing step of the restart.

Deadlock is checked except where the system may stop for good: `GpuHealth` (the listener
ended), `CdiRegistry` (all programs ended), `FakeGpuSysfs` (no change is asked for any
more) and `Discovery` (it is done).

What the runs leave out on purpose, in the switches of their configurations:
`gpu_prepare` has no failing checkpoint writes, `gpu_udev` no binding failures and no
adminAccess claims, `gpu_rebind` no binding failures and no changes by others, because the properties do not
hold with them (see Disagreements, section 4 and the notes of the hazards). `cdi` takes the 250 ms the
plugins sleep at start as long enough for the CDI library to read the directory, and has no
old files of QAT and Gaudi. `PluginUpToDate` and `ChangeDone` take the sleeps of `pkg/vfio` as
long enough for the watcher (`prompt`); `FilesSound` does not. The fake devices are plain
files, as in the tests.

### Disagreements

Where the code does not do what its comments say. The models follow the code; the
properties except these cases, each by a condition or a switch that is named in the notes
of the hazards. TLC found the first two with
the exception (`overtaken`) left out of `BlankWhilePrepared` and `DevicesDescribed`.

| Code | What it does | What is said |
|---|---|---|
| `pkg/gaudi/cdihelpers/cdihelpers.go:157` | the library's watcher may replace the cached spec between getting it and writing it; the blank device is then in the file and not in the cache, and the next claim's call writes the file without it | `cmd/kubelet-gaudi-plugin/node_state.go:153`: "cdiHabanaEnvVar ensures there is a CDI device with name == claimUID" |
| `pkg/gpu/cdihelpers/cdihelpers.go:285` | the same for a GPU's entry: two GPUs appear in a row (`cmd/kubelet-gpu-plugin/node_state.go:396`, without the delay of a driver change), and writing the second drops the first | cdihelpers.go:260: "removes existing entries from CDI registry and adds new entries based on up supplied DevicesInfo" |
| `cmd/kubelet-gpu-plugin/node_state.go:291` | a claim stays in `s.Prepared` when writing the file fails; kubelet's retry is answered from memory, and after a restart its device is given to another claim | node_state.go:233: "Protection against force-deleted claims making cluster think the device is free" |
| `cmd/kubelet-gpu-plugin/node_state.go:259` | `needToPublishSlice` is overwritten by the last device of a claim, so that a rebound one before it is not published | node_state.go:210: returns whether a new ResourceSlice needs to be published |
| `cmd/kubelet-gpu-plugin/driver.go:158` | the snapshot is taken under the mutex and published after it: an older one may be published last, and stays | xpumd.go:133, udev.go:127: the updated ResourceSlice is published |
| `cmd/kubelet-gpu-plugin/xpumd.go:253` | Unknown to Healthy is not published | xpumd.go:250: it is |
| `cmd/kubelet-gpu-plugin/xpumd.go:117` | only EOF opens a new stream; with `--health-monitoring-optional` a stream that ended with another error is read for ever | main.go:62: "Allow infinite polling for XPUM daemon without restart" |
| `cmd/kubelet-qat-plugin/config.go:56` | after a restart a PF is taken down although claims on record have its VFs | `pkg/qat/device/device.go:346`: "cannot change QAT configuration while VF devices are allocated" |
| `pkg/gaudi/cdihelpers/cdihelpers.go:50` | a restart removes the blank devices of the claims on record, and nothing writes them again | `cmd/kubelet-gaudi-plugin/node_state.go:153`: there is a CDI device with the claim's UID |
| `pkg/gaudi/cdihelpers/cdihelpers.go:53`, `pkg/qat/cdihelpers/cdihelpers.go:45` | `RemoveSpec` gets a path where it expects a name, and removes nothing | cdihelpers.go:49: "after deleting old specs" |
| `pkg/gpu/cdihelpers/cdihelpers.go:302` | when the library reads the directory again between the two halves of an update, the update fails and the entry is missing until the next one | cdihelpers.go:260: "removes existing entries from CDI registry and adds new entries" |
| `pkg/fakesysfs/gpu.go:335` | the second binding of a fake device to DRM fails on the by-path link the first one left | gpu-driver-binder.go:151: "if the device is not bound - bind it" |
| `pkg/fakesysfs/gpu.go:71` | every fake device bound anew gets renderD1, because `class/drm` has the cards only | gpu.go:49: "current highest DRM card and renderD indexes" |
| `pkg/gpu/discovery/discovery.go:66` | with classic naming devices without a card have one key, so that one hides the others | discovery.go:34: a map of all devices |

### Fairness

- `GpuHealth`: goroutines are scheduled (weak fairness of the listener, of the goroutine
  that waits for the context and of publishing). `Recv` returns only when a message, an
  error or the cancellation of its context comes, so the listener's step in `Recv` is
  fair only once the context is canceled or the stream aborted: gRPC ends such streams.
  `StreamComesBack` needs no xpumd that answers: without one the attempts run out.
- `GaudiHealth`: both goroutines are scheduled. Strong fairness of `CheckEvent`: the
  watcher asks HLML again and again and an event that waits is delivered one day. Strong
  fairness of `WatcherStop`: a Go `select` with several ready cases chooses among them at
  random, so it does not pass over `ctx.Done()` for ever.
- `QatDevice`: a call that began goes on, and the plugin is started and configured (weak
  fairness of `New`, `Configure` and `CallStep`). Nobody has to allocate or free.
- `FakeGpuSysfs`: the watcher's goroutine and a call in progress go on. Nobody has to ask
  for a change.
- `GpuLifecycle`: the main goroutine and a check go on (a check has a deadline, so it ends
  though the DRA server is busy); kubelet probes, stops a container whose probes failed and
  starts it again (startup and liveness probes of
  `deployments/gpu/base/resource-driver.yaml`); a call with claims ends, and
  so does the process that has the port. Faults are bounded, and no fairness asks for one.

The other specifications state no fairness: they claim safety only.

## 4. Proofs

Each `..._proofs` module proves theorems of the specification of the module it extends, and
`Gaudi_proofs` and `GpuHealth_proofs` of the two they extend, for all values of the constants
that meet their assumptions: any devices, claims, allocations, VFs, streams, goroutines,
addresses and bounds. Those bounds (`MaxEvents`, `MaxFaults`, `MaxErrors`, `MaxChanges`,
`MaxCalls`, `ConnectAttemptsMax`, `Threshold`) are any number there.
The assumptions say that constants have their types, that a "none" value is not a real one,
in `GpuDiscovery` that addresses are listed once and a VF is one VF of one PF, and in
`FakeGpuSysfs` that there are finitely many devices, each with a number of its own; TLC
evaluates them on every run.

| Module | Theorems | Inductive invariant, and what it adds to the property |
|---|---|---|
| `GpuNodeState_proofs` | `TypeCorrect`, `ExclusiveAlways` | `ExclusiveInv`: what is in `acc` passed the test against the claims now on record (`Accepted`), and a stopped plugin has no claims in memory and no call (`Stopped`) |
| | `GrantedRecordedAlways`, `GrantedExclusiveAlways`, `NoRebindUnderGrantAlways`, `ImplementsLedgerAlways` | `RecordInv`: a recorded claim has all it was allocated for itself (`Complete`), what is before `pos` is in `acc` (`AcceptedAll`), memory and checkpoint agree but between changing one and writing the other (`CheckpointCurrent`) |
| | `TaintOnlyInUseAlways` | `TaintInv`: only known devices are tainted, and none while the plugin is down |
| | `CacheFollowsKernelAlways` | `CacheInv`: the cached driver is the kernel's, or the last waiting event of the device names the kernel's, or the device could not be discovered at its last event and is tainted for it |
| | `OwnChangesNeverTaintAlways`, `FreshEditsAlways` | `FollowInv`: but for the device that is being rebound, cache, kernel and CDI entry agree at every step |
| | `RequestedDriverAlways` | `BoundInv`: the results before `pos` are bound as they should be |
| | `PublishedWhenIdleAlways` | `PublishInv`: what is unpublished was asked to be published, and no later result can take that back |
| `QatNodeState_proofs` | `HeldAlways`, `NoLeakAlways`, `ImplementsPoolAlways` | `IInv`: with `Partition`, who may hold a VF that no prepared claim names (`Accounted`), and what the call in progress holds (`InCall`) |
| `QatDevice_proofs` | `ReadyWhenUpAlways`, `ImplementsPoolAlways` | `IInv`: memory and sysfs agree, step by step, on state and services (`ServicesInv`); nobody has a VF while the PF is changed (`VFsInv`); a VF not bound is still to be bound (`BoundInv`) |
| `Gaudi_proofs`, about `GaudiNodeState` | `BlanksMatchAlways`, `GrantedRecordedAlways` | `IInv`: the file, the cached spec and the one a call holds each have the blank devices of the prepared claims that are not overtaken, once (`DescribedInv`; the held one because the file is written from it), and each blank device anywhere belongs to a claim that accounts for it (`AccountedInv`) |
| the same, about `GaudiHealth` | `UnhealthyIsTaintedAlways` | `HealthInv`: neither the marks nor the ResourceSlice are ahead of the rules |
| `GpuHealth_proofs`, about `GpuHealth` | `TaintsPublishedAloneAlways`, `StreamsFollowAlways`, `NilStreamNeverUsedAlways` | `IInv`: where the listener may have no stream (`StreamInv`), that the newest update of a stream is sent or last in its channel (`FollowInv`), and which snapshots are current while some are held (`PublishInv`) |
| the same, about `GpuLifecycle` | `NotServingOnlyWhenDeadAlways` | `LifecycleInv`: the servers run as long as the endpoint that asks them |
| `Discovery_proofs` | `FoundRightAlways`, `NodesWereTheirsAlways`, `GaudiNodesWereTheirsAlways` | `IInv`: what was read of the device that is looked at is right for each step it has behind it (`AtInv`, `CardInv`, and `IndexMapInv` for the fallback's map), every device that did not change is still to be read, being read or stored (`CompleteInv`, `CardCompleteInv`), and numbers are used once per kind of node (`KernelInv`, `AccelInv`) |
| `CdiRegistry_proofs` | `DevicesDescribedAlways`, `BlankKeptAlways`, `GeneratedReadableAlways` | `IInv`: while a program starts its copy is the directory unless it is stale, and then still on the kinds it is to remove (`BootInv`); the file of a serving plugin, its library's copy and the specs a call holds each describe the devices whose update is done, did not fail and was not overtaken (`GpuRight`, `GaudiRight`), since any of them may be written next; what Gaudi's library finds by name is in its copy (`GaudiIndex`) |
| `FakeGpuSysfs_proofs` | `FilesSoundAlways`, `PluginUpToDateAlways` | `IInv`: names in use are in the class directory, which is never cleaned, so that a new number is above them all (`NodesInv`); with a prompt watcher, one write is under way, that of the call in progress (`OneWriteInv`), and the plugin knows every other device (`KnowsInv`) |

Each inductive invariant was checked by TLC on a run of its module while it was being found.
A proof has a lemma per action or group of actions, and one per fact about the model's
operators that several need: maps of claims (`PutType`, `ExclusivePut`, `CompletePut`), a
publication that overlaps another (`SmallChange`), a step of the kernel while a program reads
(`SteadyAt`, `SteadyStored`, `AccelStepKeeps`). The discoveries rest on `LeastNatural`
(a set of numbers that is not empty has a least one, by the library's well-founded
induction for a fixed set), and on `FreeNumberIsFree` and `FreeIndex`: by the pigeonhole
principle the kernel's lowest free number exists and is nobody's. `FakeGpuSysfs` rests on
`HighestIs` (what is highest of bounded numbers) and `SlotBound` (finitely many devices have
bounded numbers, by well-founded induction on the subsets of the devices).

Some theorems of `GpuNodeState_proofs` have a hypothesis, each a switch or a property of
the allocations, because the code needs it:

- `~WriteFaults` (`GrantedRecordedAlways`, `GrantedExclusiveAlways`, `NoRebindUnderGrantAlways`,
  `ImplementsLedgerAlways`): a claim whose checkpoint could not be written is granted by the
  retry and forgotten by a restart (Disagreements, first row).
- `NoAdminAccess` (`NoRebindUnderGrantAlways`): a claim with adminAccess passes the test and may
  rebind a device that another claim runs containers with.
- `~KernelFaults` (`OwnChangesNeverTaintAlways`; with `~ExternalChanges`, as `Undisturbed`, in
  `FreshEditsAlways` and `RequestedDriverAlways`): a binding that fails after the unbinding
  leaves the old driver in the cache, which the retry then believes.
- `~ExternalChanges` in `FreshEditsAlways`: `RefreshDeviceOnDriverEvent` leaves the CDI entry of a
  known device as it is (node_state.go:391). In `RequestedDriverAlways`: another party may
  rebind a device after Prepare's loop went past it.
- `OneClass` (`RequestedDriverAlways`): no claim has one device by a vfio class and another one.
- `OneResult` (`PublishedWhenIdleAlways`): no claim has two devices of the node
  (Disagreements, second row).

Those of `CdiRegistry_proofs` assume `OldOfGpus`, that no file with an older name is there
for QAT or Gaudi: these plugins give the CDI library the whole path of such a file, which it
does not find, so that the file stays and describes the devices a second time. That a
program's step leaves the files of the others alone is one lemma (`BootKept`, with
`QatKept`, `GaudiKept` and `GpuKept`, put together in `Combine`), so that each action is proved
for its own program only. Getting a spec (`GpuGets`, `GaudiGets`) and the end of a call
(`CallEnds`, `BlankEnds`) are lemmas of their own, and `RefreshGpu` and `RefreshGaudi` show
when an overtaken entry is safe.

All other theorems hold with every failure, crash and interleaving that their models have.

Every safety property of the runs is a theorem. Checked by TLC only is liveness
(`ListenerStops`, `StreamComesBack`, `ErrorPublished`, `WatcherStops`, `UpAgain`,
`ChangeDone`, `SignalEnds`, `Recovers`), since the prover handles neither fairness nor
`ENABLED`.

`todo` and `scan` of the discoveries are sets of positions, of which the least is read next
(`FirstIn`), rather than sequences with elements taken out: the order of `os.ReadDir` is the
same, and a prover can reason about it. The models use no recursive operator.

## 5. Plan

Done: the modules and theorems above. To come:

1. Composition of the Gaudi parts under their state mutex: `updateHealth` holds it
   during API calls while kubelet's Prepare waits.
2. A failed binding and its stale `CurrentDriver`, and adminAccess claims that rebind a
   VM's device, as switches of `gpu_rebind`.
