---------------------------- MODULE GaudiDiscovery ----------------------------
(***************************************************************************)
(* How the Gaudi plugin and the CDI specs generator find their devices:    *)
(* DiscoverDevices (src/pkg/gaudi/discovery), which reads the directory of *)
(* the habanalabs driver device by device, and, where a kernel has no      *)
(* accel directory or no module_id there, all of devices/virtual/accel for *)
(* every index that is missing (fallback.go), while devices are bound,     *)
(* registered and unbound.                                                 *)
(***************************************************************************)
EXTENDS Naturals, SequencesExt, FiniteSetsExt

CONSTANTS
  Addresses,   \* PCI addresses, in the order of os.ReadDir
  ModuleOf,    \* [addresses -> Nat]: the slot a card is in
  UverbsOf,    \* [addresses -> SUBSET Nat]: its InfiniBand links
  MaxChanges,  \* bound on bindings and unbindings
  Missing      \* no index, no module, no entry

Device  == Range(Addresses)
Indices == 0..(Len(Addresses) - 1)

Modules == {ModuleOf[d] : d \in Device}

\* What is known of a device, and which reading is next.
Found == [dev : Device, step : {"accel", "module", "accelMap", "moduleMap", "store"},
          index : Indices \cup {Missing}, module : Modules \cup {Missing}]

ConstantsFit ==
  /\ Addresses \in Seq(Device) /\ IsInjective(Addresses) /\ MaxChanges \in Nat
  /\ DOMAIN ModuleOf = Device /\ DOMAIN UverbsOf = Device
  /\ \A d \in Device : ModuleOf[d] \in Nat
  /\ Missing \notin Nat \cup Found

VARIABLES
  accelDir,  \* this kernel has accel in a device's directory
  moduleId,  \* it has module_id there
  bound,     \* devices in the driver's directory
  accel,     \* [Device -> Indices or Missing]: N of the accelN it is registered as
  todo,      \* positions in Addresses of the entries of the driver's directory still to look at
  at,        \* the device that is looked at, or Missing
  scan,      \* indexes of the entries of devices/virtual/accel populateIndexMap still reads
  half,      \* module_id of the entry it is reading, or Missing
  indexMap,  \* what it has found: a function from addresses to the two indexes
  devices,   \* the result: a function from UIDs to DeviceInfo
  phase,     \* wait, scanning, done
  touched,   \* history: devices that changed since the discovery started
  had,       \* history: who had which accel device since then
  changes    \* changes so far

kernel == <<accelDir, moduleId>>
sysfs  == <<bound, accel>>
reads  == <<todo, at, scan, half, indexMap, devices, phase>>
vars   == <<kernel, sysfs, reads, touched, had, changes>>

----------------------------------------------------------------------------
(* The kernel and the administrator. *)

Change(d) ==
  /\ changes < MaxChanges /\ changes' = changes + 1
  /\ touched' = touched \cup {d}

UnbindDevice(d) ==
  /\ d \in bound /\ Change(d)
  /\ bound' = bound \ {d}
  /\ accel' = [accel EXCEPT ![d] = Missing]
  /\ UNCHANGED <<kernel, reads, had>>

BindDevice(d) ==
  /\ d \notin bound /\ Change(d)
  /\ bound' = bound \cup {d}
  /\ UNCHANGED <<kernel, accel, reads, had>>

\* The driver registers the accel device, with the lowest number that is free.
RegisterAccel(d) ==
  LET free == Min(Indices \ {accel[e] : e \in Device}) IN
  /\ d \in bound /\ accel[d] = Missing
  /\ accel' = [accel EXCEPT ![d] = free]
  /\ touched' = touched \cup {d}
  /\ had' = had \cup {<<d, free>>}
  /\ UNCHANGED <<kernel, bound, reads, changes>>

----------------------------------------------------------------------------
(* scanDevicesFromDriverDirFiles. *)

Env == UNCHANGED <<kernel, sysfs, touched, had, changes>>

Begin ==
  /\ phase = "wait" /\ phase' = "scanning"
  /\ todo' = {i \in DOMAIN Addresses : Addresses[i] \in bound}
  /\ touched' = {}
  /\ had' = {<<d, accel[d]>> : d \in {e \in Device : accel[e] # Missing}}
  /\ UNCHANGED <<kernel, sysfs, at, scan, half, indexMap, devices, changes>>

\* A device whose directory is gone, or of which an index cannot be had, is left out.
LeaveOut == at' = Missing /\ UNCHANGED <<todo, scan, half, indexMap, devices, phase>>

\* Directories are read in order.
FirstIn(S) == {i \in S : \A j \in S : i <= j}

ReadDeviceId ==
  /\ phase = "scanning" /\ at = Missing
  /\ \E i \in FirstIn(todo) :
       /\ todo' = todo \ {i}
       /\ at' = IF Addresses[i] \in bound
                  THEN [dev |-> Addresses[i], step |-> "accel",
                        index |-> Missing, module |-> Missing]
                  ELSE Missing
  /\ UNCHANGED <<scan, half, indexMap, devices, phase>> /\ Env

\* getAccelIndex: exactly one accel device, or the fallback. It reads the whole
\* of devices/virtual/accel, in the order of the names.
AccelHere  == accelDir /\ accel[at.dev] # Missing
ModuleHere == moduleId /\ at.dev \in bound

Registered == {accel[d] : d \in Device} \ {Missing}

Fallback ==
  /\ at' = [at EXCEPT !.step = IF @ = "accel" THEN "accelMap" ELSE "moduleMap"]
  /\ scan' = Registered
  /\ indexMap' = <<>> /\ half' = Missing
  /\ UNCHANGED <<todo, devices, phase>>

ReadAccel ==
  /\ at # Missing /\ at.step = "accel"
  /\ IF AccelHere
     THEN /\ at' = [at EXCEPT !.step = "module", !.index = accel[at.dev]]
          /\ UNCHANGED <<todo, scan, half, indexMap, devices, phase>>
     ELSE Fallback
  /\ Env

ReadModule ==
  /\ at # Missing /\ at.step = "module"
  /\ IF ModuleHere
     THEN /\ at' = [at EXCEPT !.step = "store", !.module = ModuleOf[at.dev]]
          /\ UNCHANGED <<todo, scan, half, indexMap, devices, phase>>
     ELSE Fallback
  /\ Env

----------------------------------------------------------------------------
(* populateIndexMap: the entry's name, its module_id, its pci_addr. *)

OwnerOf(i) == {d \in Device : accel[d] = i}

Mapping == at # Missing /\ at.step \in {"accelMap", "moduleMap"}

\* An entry that is gone is skipped.
ReadEntryModule ==
  /\ Mapping /\ half = Missing
  /\ \E i \in FirstIn(scan) :
       \/ OwnerOf(i) = {} /\ scan' = scan \ {i} /\ UNCHANGED half
       \/ \E d \in OwnerOf(i) : half' = ModuleOf[d] /\ UNCHANGED scan
  /\ UNCHANGED <<todo, at, indexMap, devices, phase>> /\ Env

IndexOf(i) == i

Put(d, i) == [e \in DOMAIN indexMap \cup {d} |->
                IF e = d THEN [accelIdx |-> IndexOf(i), moduleIdx |-> half] ELSE indexMap[e]]

ReadEntryAddress ==
  /\ Mapping /\ half # Missing /\ half' = Missing
  /\ \E i \in FirstIn(scan) :
       /\ scan' = scan \ {i}
       /\ \/ OwnerOf(i) = {} /\ UNCHANGED indexMap
          \/ \E d \in OwnerOf(i) : indexMap' = Put(d, i)
  /\ UNCHANGED <<todo, at, devices, phase>> /\ Env

\* Mutant: any entry is better than none.
Somebody(d) == IF d \in DOMAIN indexMap THEN {d} ELSE DOMAIN indexMap
EntryOf(d)  == {d} \cap DOMAIN indexMap

UseMap ==
  /\ Mapping /\ scan = {}
  /\ IF EntryOf(at.dev) = {} THEN LeaveOut
     ELSE /\ \E d \in EntryOf(at.dev) :
               at' = IF at.step = "accelMap"
                       THEN [at EXCEPT !.step = "module", !.index = indexMap[d].accelIdx]
                       ELSE [at EXCEPT !.step = "store", !.module = indexMap[d].moduleIdx]
          /\ UNCHANGED <<todo, scan, half, indexMap, devices, phase>>
  /\ Env

----------------------------------------------------------------------------
\* getUverbsId: exactly one link; a device without is usable. Mutant: at least one.
OneOrMore(S) == IF S = {} THEN Missing ELSE Min(S)
TheOne(S)    == IF Cardinality(S) = 1 THEN Min(S) ELSE Missing

Store ==
  /\ at # Missing /\ at.step = "store"
  /\ devices' = [d \in DOMAIN devices \cup {at.dev} |->
       IF d = at.dev
         THEN [index |-> at.index, module |-> at.module,
               uverbs |-> TheOne(IF at.dev \in bound THEN UverbsOf[at.dev] ELSE {})]
         ELSE devices[d]]
  /\ at' = Missing
  /\ UNCHANGED <<todo, scan, half, indexMap, phase>> /\ Env

Finish ==
  /\ phase = "scanning" /\ at = Missing /\ todo = {}
  /\ phase' = "done"
  /\ UNCHANGED <<todo, at, scan, half, indexMap, devices>> /\ Env

Init ==
  /\ accelDir \in BOOLEAN /\ moduleId \in BOOLEAN
  /\ bound = Device
  /\ accel \in {f \in [Device -> Indices] : \A d, e \in Device : f[d] = f[e] => d = e}
  /\ todo = {} /\ at = Missing /\ scan = {} /\ half = Missing
  /\ indexMap = <<>> /\ devices = <<>> /\ phase = "wait"
  /\ touched = {} /\ had = {} /\ changes = 0

Next ==
  \/ \E d \in Device : UnbindDevice(d) \/ BindDevice(d) \/ RegisterAccel(d)
  \/ Begin \/ ReadDeviceId \/ ReadAccel \/ ReadModule
  \/ ReadEntryModule \/ ReadEntryAddress \/ UseMap \/ Store \/ Finish

Spec == Init /\ [][Next]_vars

----------------------------------------------------------------------------
(* Properties. *)

\* Every variable has its type; what is stored has both indexes
\* (discovery.go:70 to 80: without one the device is left out).
TypeOK ==
  /\ {accelDir, moduleId} \subseteq BOOLEAN
  /\ bound \subseteq Device /\ accel \in [Device -> Indices \cup {Missing}]
  /\ todo \subseteq DOMAIN Addresses /\ at \in Found \cup {Missing}
  /\ scan \subseteq Indices /\ half \in Modules \cup {Missing}
  /\ \A d \in DOMAIN indexMap : indexMap[d] \in [accelIdx : Indices, moduleIdx : Modules]
  /\ DOMAIN devices \subseteq Device
  /\ \A d \in DOMAIN devices : /\ devices[d].index \in Indices
                               /\ devices[d].module \in Modules
  /\ phase \in {"wait", "scanning", "done"}
  /\ touched \subseteq Device /\ changes \in 0..MaxChanges

\* A device that did not change while the program looked is found, with its own
\* indexes, on every kernel and whatever happened to the others
\* (discovery.go:130, fallback.go:69).
UndisturbedRight ==
  phase = "done" =>
    \A d \in bound \ touched :
      accel[d] # Missing =>
        /\ d \in DOMAIN devices
        /\ devices[d].index = accel[d]
        /\ devices[d].module = ModuleOf[d]
        /\ devices[d].uverbs = IF Cardinality(UverbsOf[d]) = 1 THEN Min(UverbsOf[d]) ELSE Missing

\* Even a device that was unbound or bound again while the program read it gets
\* no accel device but one that was its own: the container of a claim is not
\* given a node that another card had all the time (fallback.go:42).
NodesWereTheirs == \A d \in DOMAIN devices : <<d, devices[d].index>> \in had
===============================================================================
