------------------------------ MODULE GpuDiscovery ------------------------------
(***************************************************************************)
(* How the GPU plugin and the CDI specs generator find their devices:      *)
(* DiscoverDevices and DiscoverPCIDevice (pkg/gpu/discovery, pkg/gpu/drm), *)
(* reading sysfs file by file while the kernel and the administrator       *)
(* change it: drivers are bound and unbound, VFs enabled and disabled.     *)
(*                                                                         *)
(* The program reads what links a device has in a fixed order (driver,     *)
(* names, SR-IOV), and every reading may be of another moment.             *)
(***************************************************************************)
EXTENDS Naturals, SequencesExt, FiniteSetsExt

CONSTANTS
  Addresses,   \* every PCI address, in the order of os.ReadDir
  IntelGpus,   \* those with the vendor and a class of an Intel GPU
  KnownModels, \* those whose device id is in device.ModelDetails
  VfsOf,       \* [PFs -> Seq(addresses)]: what VF i of a PF is enabled as
  AutoProbe,   \* PFs with sriov_drivers_autoprobe on
  MaxChanges,  \* bound on changes of drivers and VFs
  None

PFs == DOMAIN VfsOf
Device == Range(Addresses)
VfAddresses == UNION {Range(VfsOf[p]) : p \in PFs}

\* A VF has one index of one PF.
ASSUME DiscoveryAssumption ==
  /\ Addresses \in Seq(Device) /\ IsInjective(Addresses)
  /\ IntelGpus \subseteq Device /\ KnownModels \subseteq Device
  /\ PFs \subseteq Device /\ VfAddresses \subseteq Device \ PFs
  /\ \A p \in PFs : VfsOf[p] \in Seq(VfAddresses) /\ IsInjective(VfsOf[p])
  /\ \A p, q \in PFs : p # q => Range(VfsOf[p]) \cap Range(VfsOf[q]) = {}
  /\ AutoProbe \subseteq PFs /\ MaxChanges \in Nat
  /\ None \notin Device

\* The plugin in a privileged container and in another one, and the generator, which
\* gives classic names unless told otherwise.
Programs == {[naming |-> "machine", privileged |-> TRUE],
             [naming |-> "machine", privileged |-> FALSE],
             [naming |-> "classic", privileged |-> TRUE]}

Drm     == {"i915", "xe"}
Drivers == Drm \cup {"vfio-pci"}
Kind(drv) == IF drv \in Drm THEN "card" ELSE "vfio"

VfIndices == {0} \cup UNION {{i - 1 : i \in DOMAIN VfsOf[p]} : p \in PFs}

\* What is known of a device: DeviceInfo and what DiscoverPCIDevice reads next.
Info ==
  [dev : Device, step : {"info", "names", "sriov", "virtfn", "store"},
   driver : Drivers \cup {None}, number : 0..Len(Addresses), maxVFs : Nat,
   vf : BOOLEAN, parent : PFs \cup {None}, index : VfIndices, memory : Device \cup {None}]

ASSUME NoneAssumption == None \notin Drivers \cup Info

VARIABLES
  program,  \* the names it wants, and whether it may open the device nodes
  present,  \* devices with a directory in bus/pci/devices
  driver,   \* [Device -> Drivers or None]: the driver link
  number,   \* [Device -> Nat]: N of its cardN or vfioN, 0 until it is probed
  virtfn,   \* [PFs -> Nat]: how many virtfn links a PF has
  todo,     \* positions in Addresses of the entries still to look at
  at,       \* the device that is looked at: a record with a step, or None
  devices,  \* the result: a function from names to DeviceInfo
  unasked,  \* names whose memory is still to be asked for
  phase,    \* wait, pci, memory, done
  touched,  \* history: devices that changed since the discovery started
  had,      \* history: the device nodes there were since then
  changes   \* changes so far

sysfs == <<present, driver, number, virtfn>>
disco == <<program, todo, at, devices, unasked, phase>>
vars  == <<sysfs, disco, touched, had, changes>>

----------------------------------------------------------------------------
(* The kernel and the administrator. *)

Links(p) == {VfsOf[p][i] : i \in 1..virtfn[p]}
IsVf(d)  == \E p \in PFs : d \in Links(p)

\* Numbers are given out again once they are free.
FreeNumber(d) ==
  LET used == {number[e] : e \in {f \in Device : Kind(driver[f]) = Kind(driver[d])}}
  IN  Min((1..Len(Addresses)) \ used)

Change(d) ==
  /\ changes < MaxChanges /\ changes' = changes + 1
  /\ touched' = touched \cup {d}

UnbindDriver(d) ==
  /\ d \in present /\ driver[d] # None /\ Change(d)
  /\ driver' = [driver EXCEPT ![d] = None]
  /\ number' = [number EXCEPT ![d] = 0]
  /\ UNCHANGED <<present, virtfn, had, disco>>

\* The link is there before the driver's probe has made the devices.
BindDriver(d, drv) ==
  /\ d \in present \cap IntelGpus /\ driver[d] = None /\ Change(d)
  /\ driver' = [driver EXCEPT ![d] = drv]
  /\ UNCHANGED <<present, number, virtfn, had, disco>>

Probed(d) ==
  /\ driver[d] # None /\ number[d] = 0
  /\ number' = [number EXCEPT ![d] = FreeNumber(d)]
  /\ touched' = touched \cup {d}
  /\ had' = had \cup {<<d, Kind(driver[d]), FreeNumber(d)>>}
  /\ UNCHANGED <<present, driver, virtfn, disco, changes>>

\* A VF's directory is there before its two links, virtfn and physfn.
AddVf(p) ==
  /\ p \in present /\ virtfn[p] < Len(VfsOf[p])
  /\ LET v == VfsOf[p][virtfn[p] + 1]
     IN  v \notin present /\ Change(v) /\ present' = present \cup {v}
  /\ UNCHANGED <<driver, number, virtfn, had, disco>>

LinkVf(p) ==
  /\ virtfn[p] < Len(VfsOf[p])
  /\ LET v == VfsOf[p][virtfn[p] + 1]
     IN  v \in present /\ touched' = touched \cup {v}
  /\ virtfn' = [virtfn EXCEPT ![p] = @ + 1]
  /\ UNCHANGED <<present, driver, number, had, disco, changes>>

DisableVfs(p) ==
  /\ virtfn[p] > 0
  /\ changes < MaxChanges /\ changes' = changes + 1
  /\ touched' = touched \cup Range(VfsOf[p])
  /\ present' = present \ Range(VfsOf[p])
  /\ driver' = [d \in Device |-> IF d \in Range(VfsOf[p]) THEN None ELSE driver[d]]
  /\ number' = [d \in Device |-> IF d \in Range(VfsOf[p]) THEN 0 ELSE number[d]]
  /\ virtfn' = [virtfn EXCEPT ![p] = 0]
  /\ UNCHANGED <<had, disco>>

----------------------------------------------------------------------------
(* DiscoverPCIDevice, reading by reading. *)

Look == phase = "pci" /\ at # None
Env  == UNCHANGED <<program, sysfs, touched, had, changes>>

Ignore == at' = None /\ UNCHANGED <<devices, todo, unasked, phase>>

\* The directory is read once.
Begin ==
  /\ phase = "wait" /\ phase' = "pci"
  /\ todo' = {i \in DOMAIN Addresses : Addresses[i] \in present}
  /\ touched' = {}
  /\ had' = {<<d, Kind(driver[d]), number[d]>> : d \in {e \in Device : number[e] # 0}}
  /\ UNCHANGED <<program, sysfs, at, devices, unasked, changes>>

FirstIn(S) == {i \in S : \A j \in S : i <= j}

\* The next entry: GetPCIDeviceDriver. A device without a driver, or with
\* none of the DRM ones, is for the driver of its model.
ReadDriver ==
  /\ phase = "pci" /\ at = None
  /\ \E i \in FirstIn(todo) :
       /\ todo' = todo \ {i}
       /\ at' = [dev |-> Addresses[i], step |-> "info", driver |-> driver[Addresses[i]],
                 number |-> 0, maxVFs |-> 0, vf |-> FALSE, parent |-> None,
                 index |-> 0, memory |-> None]
  /\ UNCHANGED <<devices, unasked, phase>> /\ Env

\* readPCIInfo: the files of a device that is gone cannot be read.
ReadInfo ==
  /\ Look /\ at.step = "info"
  /\ IF /\ at.dev \in present \cap IntelGpus
        /\ at.driver \in Drm \/ at.dev \in KnownModels
     THEN at' = [at EXCEPT !.step = "names"]
          /\ UNCHANGED <<devices, todo, unasked, phase>>
     ELSE Ignore
  /\ Env

\* DeduceCardAndRenderDNames, or GetVFIODevice and GetIOMMUGroup: there are
\* none when the driver is not done, or is another one by now.
\* Mutant: the device's driver is not asked about.
AnyNames(d, drv) == number[d] # 0
HasNames(d, drv) ==
  /\ number[d] # 0
  /\ Kind(driver[d]) = Kind(drv)

ReadNames ==
  /\ Look /\ at.step = "names"
  /\ IF at.driver = None
     THEN at' = [at EXCEPT !.step = "sriov"] /\ UNCHANGED <<devices, todo, unasked, phase>>
     ELSE IF HasNames(at.dev, at.driver)
     THEN at' = [at EXCEPT !.step = "sriov", !.number = number[at.dev]]
          /\ UNCHANGED <<devices, todo, unasked, phase>>
     ELSE Ignore
  /\ Env

\* detectSRIOV: a PF has sriov_totalvfs; a VF has physfn.
ReadSriov ==
  /\ Look /\ at.step = "sriov"
  /\ at' = [at EXCEPT
       !.step   = IF at.dev \notin PFs /\ IsVf(at.dev) THEN "virtfn" ELSE "store",
       !.maxVFs = IF at.dev \in AutoProbe THEN Len(VfsOf[at.dev]) ELSE 0,
       !.parent = IF IsVf(at.dev) THEN CHOOSE p \in PFs : at.dev \in Links(p) ELSE None]
  /\ UNCHANGED <<devices, todo, unasked, phase>> /\ Env

\* deduceVfIdx: the link of the parent to the VF, whose name has the index.
\* It is counted from 0. Without it the device stays what it is, a GPU.
\* Mutant: counted from 1, as the DRM index is.
DrmIndex(p, d) == {i \in 1..virtfn[p] : VfsOf[p][i] = d}
VfIndex(p, d) == {i \in 0..(virtfn[p] - 1) : VfsOf[p][i + 1] = d}

ReadVirtfn ==
  /\ Look /\ at.step = "virtfn"
  /\ LET found == VfIndex(at.parent, at.dev)
     IN  at' = [at EXCEPT !.step = "store", !.vf = found # {},
                  !.index = IF found = {} THEN 0 ELSE Min(found),
                  !.parent = IF found = {} THEN None ELSE @]
  /\ UNCHANGED <<devices, todo, unasked, phase>> /\ Env

\* DetermineDeviceName, and the map that processSysfsPCIDevices fills.
NameOf(info) ==
  IF program.naming = "machine" THEN <<"uid", info.dev>>
  ELSE IF info.driver \in Drm THEN <<"card", info.number>> ELSE <<"">>

Store ==
  /\ Look /\ at.step = "store"
  /\ devices' = [n \in DOMAIN devices \cup {NameOf(at)} |->
                   IF n = NameOf(at) THEN at ELSE devices[n]]
  /\ at' = None
  /\ UNCHANGED <<todo, unasked, phase>> /\ Env

----------------------------------------------------------------------------
(* populateDevicesInfoMemory: in the order of a Go map, until one fails. *)

EndPci ==
  /\ phase = "pci" /\ at = None /\ todo = {}
  /\ phase' = "memory" /\ unasked' = DOMAIN devices
  /\ UNCHANGED <<todo, at, devices>> /\ Env

\* openDRMDevice and the driver's own query: the device that has this card by
\* now answers, if it has this driver. Here its memory is named by the device.
\* Mutant: the card is opened by its number alone, counted from another 0.
NextCard(info) == {d \in present : driver[d] = info.driver /\ number[d] = info.number + 1}
Answers(info)  == {d \in present : driver[d] = info.driver /\ number[d] = info.number}

Asked(n) ==
  /\ unasked' = unasked \ {n}
  /\ phase' = IF unasked = {n} THEN "done" ELSE phase

AskMemory(n) ==
  /\ phase = "memory" /\ n \in unasked
  /\ LET info == devices[n] IN
     \/ info.driver \notin Drm /\ Asked(n) /\ UNCHANGED devices
     \/ /\ info.driver \in Drm /\ program.privileged
        /\ \E d \in Answers(info) : devices' = [devices EXCEPT ![n].memory = d]
        /\ Asked(n)
     \/ /\ info.driver \in Drm /\ (~program.privileged \/ Answers(info) = {})
        /\ phase' = "done" /\ UNCHANGED <<devices, unasked>>
  /\ UNCHANGED <<todo, at>> /\ Env

NoneToAsk ==
  /\ phase = "memory" /\ unasked = {}
  /\ phase' = "done"
  /\ UNCHANGED <<todo, at, devices, unasked>> /\ Env

----------------------------------------------------------------------------
\* Any drivers at the start, all probed; the VFs come later.
Numbered(f) ==
  [d \in Device |->
     IF f[d] = None THEN 0
     ELSE Cardinality({i \in DOMAIN Addresses :
            /\ f[Addresses[i]] # None /\ Kind(f[Addresses[i]]) = Kind(f[d])
            /\ \E j \in DOMAIN Addresses : i <= j /\ Addresses[j] = d})]

Init ==
  /\ program \in Programs
  /\ present = Device \ VfAddresses
  /\ driver \in {f \in [Device -> Drivers \cup {None}] :
                   \A d \in Device : d \notin present \cap IntelGpus => f[d] = None}
  /\ number = Numbered(driver)
  /\ virtfn = [p \in PFs |-> 0]
  /\ todo = {} /\ at = None /\ devices = <<>> /\ unasked = {} /\ phase = "wait"
  /\ touched = {} /\ had = {} /\ changes = 0

Next ==
  \/ \E d \in Device : UnbindDriver(d) \/ Probed(d)
  \/ \E d \in Device, drv \in Drivers : BindDriver(d, drv)
  \/ \E p \in PFs : AddVf(p) \/ LinkVf(p) \/ DisableVfs(p)
  \/ Begin
  \/ ReadDriver \/ ReadInfo \/ ReadNames \/ ReadSriov \/ ReadVirtfn \/ Store
  \/ EndPci \/ NoneToAsk
  \/ \E n \in DOMAIN devices : AskMemory(n)

Spec == Init /\ [][Next]_vars

----------------------------------------------------------------------------
(* Properties. *)

TypeOK ==
  /\ program \in Programs
  /\ present \subseteq Device /\ driver \in [Device -> Drivers \cup {None}]
  /\ number \in [Device -> 0..Len(Addresses)]
  /\ virtfn \in [PFs -> Nat] /\ \A p \in PFs : virtfn[p] <= Len(VfsOf[p])
  /\ todo \subseteq DOMAIN Addresses /\ at \in Info \cup {None}
  /\ \A n \in DOMAIN devices : devices[n] \in Info
  /\ unasked \subseteq DOMAIN devices
  /\ phase \in {"wait", "pci", "memory", "done"}
  /\ touched \subseteq Device /\ changes \in 0..MaxChanges

Found(d) == {n \in DOMAIN devices : devices[n].dev = d}

Usable(d) ==
  /\ d \in IntelGpus
  /\ driver[d] \in Drm \/ d \in KnownModels
  /\ driver[d] = None \/ number[d] # 0

\* A device that did not change while the program looked is found if and only
\* if it can be used, with its driver, its names, and as the VF or PF it is,
\* whatever happened to the others (DiscoverPCIDevice, discovery-pci.go:69). Only
\* classic names are of no use without a card: there one device hides another.
UndisturbedRight ==
  /\ TypeOK
  /\ phase \in {"memory", "done"} =>
    \A d \in present \ touched :
      /\ Found(d) # {} => Usable(d)
      /\ Usable(d) /\ (program.naming = "machine" \/ driver[d] \in Drm) => Found(d) # {}
      /\ \A n \in Found(d) :
           LET info == devices[n] IN
           /\ info.driver = driver[d] /\ info.number = number[d]
           /\ info.vf = IsVf(d)
           /\ info.vf => VfsOf[info.parent][info.index + 1] = d
           /\ info.maxVFs = IF d \in AutoProbe THEN Len(VfsOf[d]) ELSE 0

\* Even a device that was rebound while the program read it is published with
\* a device node of its own, of the kind its driver has: a container gets
\* neither a card without a driver nor a vfio node as a card
\* (discovery-pci.go:107, the driver read before the names).
NodesWereTheirs ==
  \A n \in DOMAIN devices :
    LET info == devices[n] IN
    info.driver # None => <<info.dev, Kind(info.driver), info.number>> \in had

\* A device that did not change has no memory but its own, and if nothing
\* changed every DRM device has it in privileged mode (discovery.go:36). One
\* that changed may get that of the device which has its card by now.
MemoryRight ==
  phase = "done" =>
    \A n \in DOMAIN devices :
      LET info == devices[n] IN
      info.dev \notin touched =>
        /\ info.memory \in {info.dev, None}
        /\ (touched = {} /\ program.privileged /\ info.driver \in Drm) => info.memory = info.dev
=============================================================================
