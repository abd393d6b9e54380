------------------------------ MODULE FakeGpuSysfs ------------------------------
(***************************************************************************)
(* The fake sysfs and devfs of the GPU tests (pkg/fakesysfs/gpu.go), the   *)
(* goroutine that plays the kernel when a driver's bind or unbind file is  *)
(* written (gpu-driver-binder.go), and the plugin that rebinds devices     *)
(* through it (pkg/vfio/vfio.go, changeKernelDriver in node_state.go).     *)
(*                                                                         *)
(* The plugin appends a PCI address to a file; the watcher is told of a    *)
(* write by inotify, reads the file, truncates it, and only then acts.     *)
(* The two meet only in the file system: nothing tells the plugin that the *)
(* watcher is done, it sleeps (DriverChangeDelay, and the second of        *)
(* BindDeviceToDriver).                                                    *)
(***************************************************************************)
EXTENDS Naturals, Sequences, FiniteSets, SequencesExt, FiniteSetsExt

CONSTANTS
  Devices,      \* PCI addresses
  Home,         \* [Devices -> DrmDrivers]: DeviceInfo.Driver
  Vfio,         \* [Devices -> VfioDrivers]: deduceTargetVFIODriver's answer
  DrmDrivers,   \* i915, xe
  VfioDrivers,  \* vfio-pci, xe-vfio-pci
  Slot,         \* [Devices -> Nat]: the numbers a test gives its devices
  MaxCalls,     \* bound on the driver changes
  None

Drivers == DrmDrivers \cup VfioDrivers
Files   == Drivers \X {"bind", "unbind"}
Name    == [card : Nat, renderD : Nat] \cup [vfio : Nat, group : Nat]
Content == [file : Files, value : Seq(Devices), truncated : BOOLEAN]  \* of a file that was read

ASSUME FakeAssumption ==
  /\ IsFiniteSet(Devices)
  /\ Home \in [Devices -> DrmDrivers] /\ Vfio \in [Devices -> VfioDrivers]
  /\ DrmDrivers \cap VfioDrivers = {}
  /\ Slot \in [Devices -> Nat \ {0}]
  /\ \A d, e \in Devices : Slot[d] = Slot[e] => d = e
  /\ MaxCalls \in Nat
  /\ None \notin Devices \cup Drivers \cup Name \cup Content

VARIABLES
  prompt,   \* whether the watcher is done with every write when a sleep ends
  driver,   \* [Devices -> Drivers or None]: bus/pci/devices/<d>/driver
  links,    \* {<<driver, d>>}: bus/pci/drivers/<driver>/<d>
  drm,      \* [Devices -> names or None]: the directory <d>/drm
  vfio,     \* [Devices -> names or None]: <d>/vfio-dev and <d>/iommu_group
  class,    \* {<<kind, n>>}: class/drm, class/vfio, class/mei
  devfs,    \* {<<kind, n>>}: the device nodes
  byPath,   \* [Devices -> card or None]: devfs dri/by-path/pci-<d>-card
  refused,  \* devices whose binding the watcher reported as failed
  file,     \* [Files -> Seq(Devices)]: what was written since the truncation
  events,   \* the inotify events the watcher has not read
  held,     \* what the watcher has read and not acted upon, or None
  pc,       \* where changeKernelDriver is
  job,      \* <<device, target driver>> of the call
  current,  \* [Devices -> Drivers]: the plugin's DeviceInfo.CurrentDriver
  names,    \* [Devices -> names]: CardName and RenderDName, or VFIODevice ...
  calls     \* driver changes so far

fs     == <<driver, links, drm, vfio, class, devfs, byPath, refused>>
plugin == <<pc, job, current, names, calls>>
vars   == <<prompt, fs, file, events, held, plugin>>

DrmNames(d)  == [card |-> Slot[d], renderD |-> 128 + Slot[d]]
VfioNames(d) == [vfio |-> Slot[d], group |-> Slot[d]]
NodesOf(n)   == {<<k, n[k]>> : k \in DOMAIN n}

----------------------------------------------------------------------------
(* The kernel's part. *)

\* deduceHighest...: the class directories are never cleaned, so card, mei
\* and vfio numbers are not used twice; class/drm gets the cards only.
\* Mutant: they are counted.
CountOf(kind, dir) == Cardinality({x \in dir : x[1] = kind})
Highest(kind, dir) == Max({0} \cup {x[2] : x \in {y \in dir : y[1] = kind}})

AlreadyBound(d) == driver[d] # None

\* fakeDeviceBinding
\* Mutant: the device gets no link to its driver.
LinkOneWay(drv, d) ==
  /\ UNCHANGED driver
  /\ links' = links \cup {<<drv, d>>}
Link(drv, d) ==
  /\ driver' = [driver EXCEPT ![d] = drv]
  /\ links' = links \cup {<<drv, d>>}

\* fakeBindPCIDeviceToDRMDriver. createDevfsBypathSymlinks fails on a link
\* that an earlier binding left behind: then there is no MEI device either.
BindDrm(drv, d) ==
  LET n   == [card |-> Highest("card", class) + 1,
              renderD |-> Highest("renderD", class) + 1]
      mei == <<"mei", Highest("mei", class) + 1>>
      old == byPath[d] # None
  IN  /\ Link(drv, d)
      /\ drm' = [drm EXCEPT ![d] = n]
      /\ class' = class \cup {<<"card", n.card>>} \cup (IF old THEN {} ELSE {mei})
      /\ devfs' = devfs \cup NodesOf(n) \cup (IF old THEN {} ELSE {mei})
      /\ byPath' = [byPath EXCEPT ![d] = IF old THEN @ ELSE n.card]
      /\ refused' = IF old THEN refused \cup {d} ELSE refused
      /\ UNCHANGED vfio

\* fakeBindPCIDeviceToVFIODriver: IOMMU groups are numbered after the nodes.
BindVfio(drv, d) ==
  LET n == [vfio |-> Highest("vfio", class) + 1,
            group |-> Highest("group", devfs) + 1]
  IN  /\ Link(drv, d)
      /\ vfio' = [vfio EXCEPT ![d] = n]
      /\ class' = class \cup {<<"vfio", n.vfio>>}
      /\ devfs' = devfs \cup NodesOf(n)
      /\ UNCHANGED <<drm, byPath, refused>>

\* fakeBindPCIDeviceToDriver: two addresses that ran together in the file
\* are those of no device, and a bound device is left alone.
Bind(drv, value) ==
  IF Len(value) # 1 \/ AlreadyBound(value[1])
  THEN UNCHANGED fs
  ELSE \/ drv \in DrmDrivers  /\ BindDrm(drv, value[1])
       \/ drv \in VfioDrivers /\ BindVfio(drv, value[1])

\* fakeUnbindPCIDeviceFromDriver with cleanupDRMDevice or cleanupVFIODevice:
\* by-path links, class links and the MEI device stay.
Unbind(drv, value) ==
  IF Len(value) # 1 \/ <<drv, value[1]>> \notin links
  THEN UNCHANGED fs
  ELSE LET d == value[1] IN
       /\ \/ /\ drv \in DrmDrivers
             /\ devfs' = devfs \ NodesOf(drm[d])
             /\ drm' = [drm EXCEPT ![d] = None]
             /\ UNCHANGED vfio
          \/ /\ drv \in VfioDrivers
             /\ devfs' = devfs \ NodesOf(vfio[d])
             /\ vfio' = [vfio EXCEPT ![d] = None]
             /\ UNCHANGED drm
       /\ links' = links \ {<<drv, d>>}
       /\ driver' = [driver EXCEPT ![d] = None]
       /\ UNCHANGED <<class, byPath, refused>>

----------------------------------------------------------------------------
(* The watcher goroutine. *)

\* inotify merges an event with the last unread one when they are the same.
Notify(f) == IF events # <<>> /\ Last(events) = f THEN events ELSE Append(events, f)

\* An event is taken and the file read: empty means the watcher's own
\* truncation.
WatcherRead ==
  /\ held = None /\ events # <<>>
  /\ events' = Tail(events)
  /\ LET f == Head(events) IN
     held' = IF file[f] = <<>> THEN None
             ELSE [file |-> f, value |-> file[f], truncated |-> FALSE]
  /\ UNCHANGED <<prompt, fs, file, plugin>>

\* Whatever was written since the file was read is lost here.
WatcherTruncate ==
  /\ held # None /\ ~held.truncated
  /\ file' = [file EXCEPT ![held.file] = <<>>]
  /\ events' = Notify(held.file)
  /\ held' = [held EXCEPT !.truncated = TRUE]
  /\ UNCHANGED <<prompt, fs, plugin>>

\* Mutant: the watcher never looks at what it truncated.
WatcherDrops ==
  /\ held # None /\ held.truncated
  /\ held' = None
  /\ UNCHANGED <<prompt, fs, file, events, plugin>>
WatcherAct ==
  /\ held # None /\ held.truncated
  /\ \/ held.file[2] = "bind"   /\ Bind(held.file[1], held.value)
     \/ held.file[2] = "unbind" /\ Unbind(held.file[1], held.value)
  /\ held' = None
  /\ UNCHANGED <<prompt, file, events, plugin>>

----------------------------------------------------------------------------
(* The plugin: one call at a time, under the mutex of nodeState. *)

\* writeSysfsFile appends.
Write(f, d) ==
  /\ file' = [file EXCEPT ![f] = Append(@, d)]
  /\ events' = Notify(f)

\* Mutant: no sleep.
NoSleep == TRUE
Slept == prompt => events = <<>> /\ held = None

\* prepareVFIODevice and prepareDRMDevice compare with the cached driver.
StartChange(d, target) ==
  /\ pc = "idle" /\ calls < MaxCalls
  /\ target \in {Home[d], Vfio[d]} /\ current[d] # target
  /\ pc' = "unbind" /\ job' = <<d, target>> /\ calls' = calls + 1
  /\ UNCHANGED <<prompt, fs, file, events, held, current, names>>

\* UnbindDeviceFromKernelDriver
WriteUnbind ==
  /\ pc = "unbind"
  /\ LET d == job[1] IN
     IF driver[d] = None THEN UNCHANGED <<file, events>>
                         ELSE Write(<<driver[d], "unbind">>, d)
  /\ pc' = "bind"
  /\ UNCHANGED <<prompt, fs, held, job, current, names, calls>>

\* BindDeviceToDriver
WriteBind ==
  /\ pc = "bind" /\ Slept
  /\ Write(<<job[2], "bind">>, job[1])
  /\ pc' = "read"
  /\ UNCHANGED <<prompt, fs, held, job, current, names, calls>>

\* The device's new names are read (DeduceCardAndRenderDNames, or
\* GetVFIODevice and GetIOMMUGroup); without them the call fails, the driver
\* being recorded already.
ReadNames ==
  /\ pc = "read" /\ Slept
  /\ LET d   == job[1]
         dir == IF job[2] \in DrmDrivers THEN drm[d] ELSE vfio[d]
     IN  /\ current' = [current EXCEPT ![d] = job[2]]
         /\ names' = [names EXCEPT ![d] = IF dir = None THEN @ ELSE dir]
  /\ pc' = "idle" /\ job' = None
  /\ UNCHANGED <<prompt, fs, file, events, held, calls>>

----------------------------------------------------------------------------
\* FakeSysFsGpuContents: every device is given bound, to either driver.
Init ==
  /\ prompt \in BOOLEAN
  /\ driver \in {f \in [Devices -> Drivers] : \A d \in Devices : f[d] \in {Home[d], Vfio[d]}}
  /\ links = {<<driver[d], d>> : d \in Devices}
  /\ drm = [d \in Devices |-> IF driver[d] = Home[d] THEN DrmNames(d) ELSE None]
  /\ vfio = [d \in Devices |-> IF driver[d] = Vfio[d] THEN VfioNames(d) ELSE None]
  /\ LET onDrm == {d \in Devices : driver[d] = Home[d]}
         onVfio == Devices \ onDrm
         mei   == {<<"mei", Slot[d]>> : d \in onDrm}
     IN  /\ class = {<<"card", Slot[d]>> : d \in onDrm} \cup mei
                      \cup {<<"vfio", Slot[d]>> : d \in onVfio}
         /\ devfs = mei \cup (UNION {NodesOf(DrmNames(d)) : d \in onDrm})
                        \cup (UNION {NodesOf(VfioNames(d)) : d \in onVfio})
         /\ byPath = [d \in Devices |-> IF d \in onDrm THEN Slot[d] ELSE None]
  /\ refused = {}
  /\ file = [f \in Files |-> <<>>] /\ events = <<>> /\ held = None
  /\ pc = "idle" /\ job = None /\ calls = 0
  /\ current = driver
  /\ names = [d \in Devices |-> IF driver[d] = Home[d] THEN DrmNames(d) ELSE VfioNames(d)]

Watcher == WatcherRead \/ WatcherTruncate \/ WatcherAct
Change  == WriteUnbind \/ WriteBind \/ ReadNames

Next ==
  \/ \E d \in Devices, target \in Drivers : StartChange(d, target)
  \/ WriteUnbind \/ WriteBind \/ ReadNames
  \/ WatcherRead \/ WatcherTruncate \/ WatcherAct

Spec == Init /\ [][Next]_vars

\* The watcher's goroutine runs until the test ends, and a call returns.
FairSpec == Spec /\ WF_vars(Watcher) /\ WF_vars(Change)

----------------------------------------------------------------------------
(* Properties. *)

TypeOK ==
  /\ prompt \in BOOLEAN
  /\ driver \in [Devices -> Drivers \cup {None}]
  /\ links \subseteq Drivers \X Devices
  /\ \A d \in Devices :
       /\ (drm[d] # None) = (driver[d] \in DrmDrivers)
       /\ (vfio[d] # None) = (driver[d] \in VfioDrivers)
       /\ names[d] \in Name
  /\ refused \subseteq Devices
  /\ file \in [Files -> Seq(Devices)] /\ events \in Seq(Files)
  /\ held = None \/ held \in Content
  /\ pc \in {"idle", "unbind", "bind", "read"}
  /\ current \in [Devices -> Drivers]

\* The two links between a driver and a device exist together, for at most
\* one driver, whatever writes were lost or ran together: otherwise a later
\* fakeDeviceBinding fails on the link it finds (gpu.go:481).
LinksAgree ==
  links = {<<driver[d], d>> : d \in {e \in Devices : driver[e] # None}}

\* Every bound device has its card, or its vfio device and IOMMU group, in
\* devfs, no two devices share one, and an unbound one leaves none behind
\* (the numbering of gpu.go:50 to 160 against the removals of
\* gpu-driver-binder.go:257 to 346).
NodesOwned ==
  LET Of(kind, dir) ==
        {<<kind, dir[d][kind]>> : d \in {e \in Devices : dir[e] # None}}
      Owned(kind, dir) ==
        /\ {x \in devfs : x[1] = kind} = Of(kind, dir)
        /\ Cardinality(Of(kind, dir)) = Cardinality({d \in Devices : dir[d] # None})
  IN  Owned("card", drm) /\ Owned("vfio", vfio) /\ Owned("group", vfio)

\* What is left on the file system by any order of writes is sound: the links
\* are those of the drivers, and devfs has the nodes of the bound devices.
FilesSound == TypeOK /\ LinksAgree /\ NodesOwned

\* With a watcher that is faster than the sleeps, a driver change ends with
\* the device on the driver asked for and the plugin knowing its new names
\* (node_state.go:443 to 467, 503 to 521).
PluginUpToDate ==
  prompt /\ pc = "idle" =>
    \A d \in Devices :
      /\ current[d] = driver[d]
      /\ names[d] = IF driver[d] \in DrmDrivers THEN drm[d] ELSE vfio[d]

\* Every driver change asked for is carried out: no write is lost or taken
\* for another one, and the device is never left without a driver.
ChangeDone ==
  \A d \in Devices, t \in Drivers :
    (prompt /\ pc = "unbind" /\ job = <<d, t>>) ~> (driver[d] = t)
=============================================================================
