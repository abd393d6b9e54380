------------------------ MODULE FakeGpuSysfs_proofs ------------------------
(***************************************************************************)
(* Proofs about FakeGpuSysfs, for any finite set of devices with any        *)
(* numbers and drivers, and any number of driver changes.                  *)
(***************************************************************************)
EXTENDS FakeGpuSysfs, FiniteSetTheorems, WellFoundedInduction, TLAPS

-----------------------------------------------------------------------------
(* The inductive invariant                                                  *)

NodeKinds == {"card", "renderD", "mei", "vfio", "group"}
DrmName  == [card : Nat, renderD : Nat]
VfioName == [vfio : Nat, group : Nat]

\* Types, in groups of variables.
FsTypes ==
  /\ driver \in [Devices -> Drivers \cup {None}] /\ links \subseteq Drivers \X Devices
  /\ drm \in [Devices -> DrmName \cup {None}] /\ vfio \in [Devices -> VfioName \cup {None}]
  /\ \A d \in Devices : /\ drm[d] # None <=> driver[d] \in DrmDrivers
                        /\ vfio[d] # None <=> driver[d] \in VfioDrivers
  /\ class \subseteq NodeKinds \X Nat /\ devfs \subseteq NodeKinds \X Nat
  /\ refused \subseteq Devices

QueueTypes ==
  /\ prompt \in BOOLEAN
  /\ file \in [Files -> Seq(Devices)] /\ events \in Seq(Files)
  /\ held \in Content \cup {None}

PluginTypes ==
  /\ pc \in {"idle", "unbind", "bind", "read"}
  /\ pc # "idle" => job \in Devices \X Drivers
  /\ current \in [Devices -> Drivers] /\ names \in [Devices -> Name]

\* The nodes of a kind are those of the devices in dir, each has its own, and all numbers
\* given out are below some number.
Owned(kind, dir) ==
  /\ \A i : <<kind, i>> \in devfs <=> \E d \in Devices : dir[d] # None /\ dir[d][kind] = i
  /\ \A d, e \in Devices :
       dir[d] # None /\ dir[e] # None /\ dir[d][kind] = dir[e][kind] => d = e

InClass(kind, dir) == \A d \in Devices : dir[d] # None => <<kind, dir[d][kind]>> \in class

Bounded == \E b \in Nat : \A x \in class \cup devfs : x[2] <= b

NodesInv ==
  /\ Owned("card", drm) /\ Owned("vfio", vfio) /\ Owned("group", vfio)
  /\ InClass("card", drm) /\ InClass("vfio", vfio) /\ Bounded

\* What the watcher keeps.
Sound == FsTypes /\ LinksAgree /\ NodesInv

\* Nothing was written since the watcher was last done; but for its own truncation; or d
\* was written to f and the watcher did not act upon it yet.
Empty == [f \in Files |-> <<>>]
Quiet == events = <<>> /\ held = None /\ file = Empty

Settling == held = None /\ file = Empty /\ \E f \in Files : events \in {<<>>, <<f>>}

Underway(f, d) ==
  \/ /\ events = <<f>> /\ held = None /\ file = [Empty EXCEPT ![f] = <<d>>]
  \/ /\ events = <<>> /\ file = [Empty EXCEPT ![f] = <<d>>]
     /\ held = [file |-> f, value |-> <<d>>, truncated |-> FALSE]
  \/ /\ events = <<f>> /\ file = Empty
     /\ held = [file |-> f, value |-> <<d>>, truncated |-> TRUE]

\* What the plugin has in memory of a device is so.
NamesOf(d) == IF driver[d] \in DrmDrivers THEN drm[d] ELSE vfio[d]
Known(d) == driver[d] # None /\ current[d] = driver[d] /\ names[d] = NamesOf(d)

\* A prompt watcher: the plugin knows all devices but the one it is rebinding, and one write
\* at a time is on its way, that of the call in progress.
KnowsInv == \A d \in Devices : pc \in {"idle", "unbind"} \/ d # job[1] => Known(d)

OneWriteInv ==
  /\ pc \in {"idle", "unbind"} => Quiet
  /\ pc = "bind" =>
       \/ driver[job[1]] # None /\ Underway(<<driver[job[1]], "unbind">>, job[1])
       \/ driver[job[1]] = None /\ Settling
  /\ pc = "read" =>
       \/ driver[job[1]] = None /\ Underway(<<job[2], "bind">>, job[1])
       \/ driver[job[1]] = job[2] /\ Settling

PromptInv == prompt => KnowsInv /\ OneWriteInv

IInv == Sound /\ QueueTypes /\ PluginTypes /\ PromptInv

-----------------------------------------------------------------------------
(* Numbers                                                                  *)

\* A set of numbers that is bounded has a greatest one: the least of its bounds.
LEMMA GreatestNatural ==
  ASSUME NEW S, S \subseteq Nat, S # {}, NEW b \in Nat, \A x \in S : x <= b
  PROVE  Max(S) \in S /\ \A y \in S : y <= Max(S)
  <1> DEFINE R == {ss \in Nat \X Nat : ss[1] < ss[2]}
             B == {n \in Nat : \A x \in S : x <= n}
  <1>1. OpToRel(<, Nat) = R
    BY Zenon DEF OpToRel
  <1>2. IsWellFoundedOn(R, Nat)
    BY <1>1, NatLessThanWellFounded
  <1>3. B \subseteq Nat /\ b \in B
    OBVIOUS
  <1>4. PICK m \in B : \A n \in B : ~ (<<n, m>> \in R)
    <2> HIDE DEF R, B
    <2> QED
      BY <1>2, <1>3, WFMin, Zenon
  <1>5. m \in Nat /\ \A x \in S : x <= m
    BY <1>4
  <1>6. m \in S
    <2> SUFFICES ASSUME m \notin S PROVE FALSE
      OBVIOUS
    <2>1. m # 0
      <3> PICK x \in S : TRUE
        OBVIOUS
      <3>1. x \in Nat /\ x <= m /\ x # m
        BY <1>5
      <3> QED
        BY <1>5, <3>1
    <2>2. m - 1 \in B
      BY <1>5, <2>1
    <2>3. <<m - 1, m>> \in R
      BY <1>5, <2>1
    <2> QED
      BY <1>4, <2>2, <2>3
  <1>7. \A y \in S : m >= y
    BY <1>5
  <1>8. Max(S) \in S /\ \A y \in S : Max(S) >= y
    BY <1>6, <1>7, Zenon DEF Max
  <1> QED
    BY <1>8

\* A number above the highest in use is nobody's, and the highest is within the bound.
LEMMA HighestIs ==
  ASSUME NEW kind, NEW dir, dir \subseteq NodeKinds \X Nat,
         NEW b \in Nat, \A x \in dir : x[2] <= b
  PROVE  /\ Highest(kind, dir) \in Nat /\ Highest(kind, dir) <= b
         /\ <<kind, Highest(kind, dir) + 1>> \notin dir
  <1> DEFINE S == {0} \cup {x[2] : x \in {y \in dir : y[1] = kind}}
  <1>1. S \subseteq Nat /\ S # {} /\ \A x \in S : x <= b
    OBVIOUS
  <1>2. \A n : <<kind, n>> \in dir => n \in S
    OBVIOUS
  <1>3. Highest(kind, dir) = Max(S)
    BY Zenon DEF Highest
  <1> HIDE DEF S
  <1>4. Max(S) \in S /\ \A y \in S : y <= Max(S)
    BY <1>1, GreatestNatural
  <1>5. Max(S) \in Nat /\ \A n \in S : n \in Nat /\ n <= Max(S)
    BY <1>1, <1>4
  <1>6. Max(S) + 1 \notin S
    <2> DEFINE m == Max(S)
    <2>1. m \in Nat /\ \A n \in S : n \in Nat /\ n <= m
      BY <1>5
    <2> HIDE DEF m
    <2>2. m + 1 \notin S
      BY <2>1
    <2> QED
      BY <2>2 DEF m
  <1>7. Max(S) <= b
    BY <1>1, <1>4
  <1> QED
    BY <1>2, <1>3, <1>5, <1>6, <1>7

\* The numbers of finitely many devices have a bound: a least set of devices without one
\* has a device whose number is above a bound of the others.
LEMMA SlotBound == \E b \in Nat : \A d \in Devices : Slot[d] <= b
  <1> DEFINE HasBound(D) == \E b \in Nat : \A d \in D : Slot[d] <= b
             Unbound == {D \in FiniteSubsetsOf(Devices) : ~HasBound(D)}
  <1>1. Devices \in FiniteSubsetsOf(Devices)
    BY FakeAssumption DEF FiniteSubsetsOf
  <1>2. SUFFICES ASSUME Unbound # {} PROVE FALSE
    BY <1>1
  <1>3. PICK D \in Unbound : \A U \in Unbound : ~ (<<U, D>> \in StrictSubsetOrdering(Devices))
    <2>1. Unbound \subseteq FiniteSubsetsOf(Devices)
      OBVIOUS
    <2> HIDE DEF Unbound
    <2> QED
      BY <1>2, <2>1, FS_StrictSubsetOrderingWellFounded, WFMin, Zenon
  <1>4. D \subseteq Devices /\ IsFiniteSet(D) /\ ~HasBound(D)
    BY <1>3 DEF FiniteSubsetsOf
  <1>5. PICK d \in D : TRUE
    BY <1>4
  <1>6. Slot[d] \in Nat
    BY <1>4, <1>5, FakeAssumption
  <1>7. D \ {d} \in FiniteSubsetsOf(Devices)
    BY <1>4, FS_RemoveElement DEF FiniteSubsetsOf
  <1>8. <<D \ {d}, D>> \in StrictSubsetOrdering(Devices)
    BY <1>4, <1>5 DEF StrictSubsetOrdering
  <1>9. HasBound(D \ {d})
    BY <1>3, <1>7, <1>8
  <1>10. PICK b \in Nat : \A e \in D \ {d} : Slot[e] <= b
    BY <1>9
  <1>11. \A e \in D : Slot[e] <= b + Slot[d]
    BY <1>4, <1>6, <1>10, FakeAssumption
  <1>12. HasBound(D)
    BY <1>6, <1>11
  <1> QED
    BY <1>4, <1>12

\* Devices that each have a name of their own have as many names.
LEMMA AsManyNames ==
  ASSUME NEW D \in SUBSET Devices, NEW f,
         \A d, e \in D : f[d] = f[e] => d = e
  PROVE  Cardinality({f[d] : d \in D}) = Cardinality(D)
  <1> DEFINE T == {f[d] : d \in D}
             g == [d \in D |-> f[d]]
  <1>1. IsFiniteSet(D)
    BY FS_Subset, FakeAssumption
  <1>2. g \in Bijection(D, T)
    <2>1. g \in [D -> T] /\ \A d, e \in D : g[d] = g[e] => d = e
      OBVIOUS
    <2>2. \A t \in T : \E d \in D : g[d] = t
      OBVIOUS
    <2> HIDE DEF T, g
    <2> QED
      BY <2>1, <2>2, Zenon DEF Bijection, Injection, Surjection, IsInjective
  <1>3. ExistsBijection(D, T)
    BY <1>2, Zenon DEF ExistsBijection
  <1> HIDE DEF T, g
  <1>4. Cardinality(T) = Cardinality(D)
    BY <1>1, <1>3, FS_Bijection
  <1> QED
    BY <1>4 DEF T

-----------------------------------------------------------------------------
(* Nodes and links                                                          *)

LEMMA NamesAreNotNone == \A n \in DrmName \cup VfioName : n \in Name /\ n # None
  BY FakeAssumption DEF DrmName, VfioName, Name

LEMMA DriversAreNotNone ==
  /\ \A drv \in Drivers : drv # None
  /\ \A drv \in DrmDrivers : drv \in Drivers /\ drv \notin VfioDrivers
  /\ \A drv \in VfioDrivers : drv \in Drivers /\ drv \notin DrmDrivers
  BY FakeAssumption DEF Drivers

LEMMA DrmNodes ==
  ASSUME NEW n \in DrmName
  PROVE  NodesOf(n) = {<<"card", n.card>>, <<"renderD", n.renderD>>}
  BY DEF NodesOf, DrmName

LEMMA VfioNodes ==
  ASSUME NEW n \in VfioName
  PROVE  NodesOf(n) = {<<"vfio", n.vfio>>, <<"group", n.group>>}
  BY DEF NodesOf, VfioName

\* A link is that of the device's driver.
LEMMA LinkOf ==
  ASSUME LinksAgree, NEW d \in Devices, NEW drv
  PROVE  <<drv, d>> \in links <=> driver[d] = drv /\ drv # None
  BY DEF LinksAgree

\* The links follow a driver that is bound or unbound.
LEMMA Linked ==
  ASSUME FsTypes, LinksAgree, NEW d \in Devices, NEW drv \in Drivers, driver[d] = None,
         Link(drv, d)
  PROVE  /\ driver' = [driver EXCEPT ![d] = drv] /\ driver' \in [Devices -> Drivers \cup {None}]
         /\ LinksAgree' /\ links' \subseteq Drivers \X Devices
  <1>1. driver' = [driver EXCEPT ![d] = drv] /\ links' = links \cup {<<drv, d>>}
    BY DEF Link
  <1>2. driver' \in [Devices -> Drivers \cup {None}]
    BY <1>1 DEF FsTypes
  <1>3. LinksAgree'
    BY <1>1, DriversAreNotNone DEF LinksAgree, FsTypes
  <1> QED
    BY <1>1, <1>2, <1>3 DEF FsTypes

LEMMA Unlinked ==
  ASSUME FsTypes, LinksAgree, NEW d \in Devices, NEW drv \in Drivers, driver[d] = drv,
         links' = links \ {<<drv, d>>}, driver' = [driver EXCEPT ![d] = None]
  PROVE  /\ driver' \in [Devices -> Drivers \cup {None}]
         /\ LinksAgree' /\ links' \subseteq Drivers \X Devices
  BY DriversAreNotNone DEF LinksAgree, FsTypes

\* A change of the bindings of d leaves the names of the others alone.
OthersKept(d) == \A e \in Devices \ {d} : drm'[e] = drm[e] /\ vfio'[e] = vfio[e]

LEMMA BoundToDrm ==
  ASSUME Sound, NEW d \in Devices, NEW drv \in DrmDrivers, driver[d] = None, BindDrm(drv, d)
  PROVE  Sound' /\ OthersKept(d) /\ driver' = [driver EXCEPT ![d] = drv]
  <1> DEFINE n == [card |-> Highest("card", class) + 1, renderD |-> Highest("renderD", class) + 1]
             mei == <<"mei", Highest("mei", class) + 1>>
             extra == IF byPath[d] # None THEN {} ELSE {mei}
  <1>1. PICK b \in Nat : \A x \in class \cup devfs : x[2] <= b
    BY DEF Sound, NodesInv, Bounded
  <1>2. /\ Highest("card", class) \in Nat /\ Highest("card", class) <= b
        /\ <<"card", Highest("card", class) + 1>> \notin class
        /\ Highest("renderD", class) \in Nat /\ Highest("renderD", class) <= b
        /\ Highest("mei", class) \in Nat /\ Highest("mei", class) <= b
    BY <1>1, HighestIs DEF Sound, FsTypes
  <1>3. n \in DrmName /\ n # None /\ NodesOf(n) = {<<"card", n.card>>, <<"renderD", n.renderD>>}
    <2>1. n \in DrmName
      BY <1>2 DEF DrmName
    <2> HIDE DEF n
    <2> QED
      BY <2>1, DrmNodes, NamesAreNotNone
  <1>4. /\ <<"card", n.card>> \notin class
        /\ n.card \in Nat /\ n.card <= b + 1 /\ n.renderD \in Nat /\ n.renderD <= b + 1
        /\ mei[1] = "mei" /\ mei[2] \in Nat /\ mei[2] <= b + 1 /\ mei \in NodeKinds \X Nat
    BY <1>1, <1>2 DEF NodeKinds
  <1>5. extra \subseteq {mei}
    OBVIOUS
  <1>6. /\ Link(drv, d) /\ drm' = [drm EXCEPT ![d] = n] /\ vfio' = vfio
        /\ class' = class \cup {<<"card", n.card>>} \cup extra
        /\ devfs' = devfs \cup NodesOf(n) \cup extra
        /\ refused' \subseteq refused \cup {d}
    BY DEF BindDrm
  <1>7. /\ driver' = [driver EXCEPT ![d] = drv] /\ driver' \in [Devices -> Drivers \cup {None}]
        /\ LinksAgree' /\ links' \subseteq Drivers \X Devices
    BY <1>6, Linked, DriversAreNotNone DEF Sound
  <1> HIDE DEF n, mei, extra
  <1>8. /\ drm' \in [Devices -> DrmName \cup {None}] /\ drm'[d] = n
        /\ \A e \in Devices \ {d} : drm'[e] = drm[e]
    BY <1>3, <1>6 DEF Sound, FsTypes
  <1>9. FsTypes'
    <2>1. class' \subseteq NodeKinds \X Nat /\ devfs' \subseteq NodeKinds \X Nat
      BY <1>3, <1>4, <1>5, <1>6 DEF Sound, FsTypes, NodeKinds
    <2>2. \A e \in Devices : /\ drm'[e] # None <=> driver'[e] \in DrmDrivers
                             /\ vfio'[e] # None <=> driver'[e] \in VfioDrivers
      BY <1>3, <1>6, <1>7, <1>8, DriversAreNotNone DEF Sound, FsTypes
    <2>3. refused' \subseteq Devices
      BY <1>6 DEF Sound, FsTypes
    <2> QED
      BY <1>6, <1>7, <1>8, <2>1, <2>2, <2>3 DEF Sound, FsTypes
  <1>10. NodesInv'
    <2>1. \A i : <<"card", i>> \in devfs' <=> <<"card", i>> \in devfs \/ i = n.card
      BY <1>3, <1>4, <1>5, <1>6
    <2>2. \A i : /\ <<"vfio", i>> \in devfs' <=> <<"vfio", i>> \in devfs
                 /\ <<"group", i>> \in devfs' <=> <<"group", i>> \in devfs
      BY <1>3, <1>4, <1>5, <1>6
    <2>3. drm[d] = None
      BY DriversAreNotNone DEF Sound, FsTypes
    <2>4. Owned("card", drm)'
      <3>1. \A i : <<"card", i>> \in devfs' =>
                     \E e \in Devices : drm'[e] # None /\ drm'[e]["card"] = i
        BY <1>3, <1>8, <2>1, <2>3 DEF Sound, NodesInv, Owned
      <3>2. \A e \in Devices : drm'[e] # None => <<"card", drm'[e]["card"]>> \in devfs'
        BY <1>3, <1>8, <2>1, <2>3 DEF Sound, NodesInv, Owned
      <3>3. \A e \in Devices \ {d} : drm[e] # None => drm[e]["card"] # n["card"]
        BY <1>4 DEF Sound, NodesInv, InClass
      <3>4. \A e, f \in Devices :
              drm'[e] # None /\ drm'[f] # None /\ drm'[e]["card"] = drm'[f]["card"] => e = f
        BY <1>8, <3>3 DEF Sound, NodesInv, Owned
      <3> QED
        BY <3>1, <3>2, <3>4 DEF Owned
    <2>5. Owned("vfio", vfio)' /\ Owned("group", vfio)'
      BY <1>6, <2>2 DEF Sound, NodesInv, Owned
    <2>6. InClass("card", drm)' /\ InClass("vfio", vfio)'
      BY <1>6, <1>8 DEF Sound, NodesInv, InClass
    <2>7. Bounded'
      <3>1. \A x \in class' \cup devfs' : x[2] <= b + 1
        BY <1>1, <1>3, <1>4, <1>5, <1>6 DEF Sound, FsTypes
      <3> QED
        BY <3>1 DEF Bounded
    <2> QED
      BY <2>4, <2>5, <2>6, <2>7 DEF NodesInv
  <1> QED
    BY <1>6, <1>7, <1>8, <1>9, <1>10 DEF Sound, OthersKept

LEMMA BoundToVfio ==
  ASSUME Sound, NEW d \in Devices, NEW drv \in VfioDrivers, driver[d] = None, BindVfio(drv, d)
  PROVE  Sound' /\ OthersKept(d) /\ driver' = [driver EXCEPT ![d] = drv]
  <1> DEFINE n == [vfio |-> Highest("vfio", class) + 1, group |-> Highest("group", devfs) + 1]
  <1>1. PICK b \in Nat : \A x \in class \cup devfs : x[2] <= b
    BY DEF Sound, NodesInv, Bounded
  <1>2. /\ Highest("vfio", class) \in Nat /\ Highest("vfio", class) <= b
        /\ <<"vfio", Highest("vfio", class) + 1>> \notin class
        /\ Highest("group", devfs) \in Nat /\ Highest("group", devfs) <= b
        /\ <<"group", Highest("group", devfs) + 1>> \notin devfs
    BY <1>1, HighestIs DEF Sound, FsTypes
  <1>3. n \in VfioName /\ n # None /\ NodesOf(n) = {<<"vfio", n.vfio>>, <<"group", n.group>>}
    <2>1. n \in VfioName
      BY <1>2 DEF VfioName
    <2> HIDE DEF n
    <2> QED
      BY <2>1, VfioNodes, NamesAreNotNone
  <1>4. /\ <<"vfio", n.vfio>> \notin class /\ <<"group", n.group>> \notin devfs
        /\ n.vfio \in Nat /\ n.vfio <= b + 1 /\ n.group \in Nat /\ n.group <= b + 1
    BY <1>1, <1>2
  <1>5. /\ Link(drv, d) /\ vfio' = [vfio EXCEPT ![d] = n] /\ drm' = drm
        /\ class' = class \cup {<<"vfio", n.vfio>>} /\ devfs' = devfs \cup NodesOf(n)
        /\ refused' = refused
    BY DEF BindVfio
  <1>6. /\ driver' = [driver EXCEPT ![d] = drv] /\ driver' \in [Devices -> Drivers \cup {None}]
        /\ LinksAgree' /\ links' \subseteq Drivers \X Devices
    BY <1>5, Linked, DriversAreNotNone DEF Sound
  <1> HIDE DEF n
  <1>7. /\ vfio' \in [Devices -> VfioName \cup {None}] /\ vfio'[d] = n
        /\ \A e \in Devices \ {d} : vfio'[e] = vfio[e]
    BY <1>3, <1>5 DEF Sound, FsTypes
  <1>8. FsTypes'
    <2>1. class' \subseteq NodeKinds \X Nat /\ devfs' \subseteq NodeKinds \X Nat
      BY <1>3, <1>4, <1>5 DEF Sound, FsTypes, NodeKinds
    <2>2. \A e \in Devices : /\ drm'[e] # None <=> driver'[e] \in DrmDrivers
                             /\ vfio'[e] # None <=> driver'[e] \in VfioDrivers
      BY <1>3, <1>5, <1>6, <1>7, DriversAreNotNone DEF Sound, FsTypes
    <2> QED
      BY <1>5, <1>6, <1>7, <2>1, <2>2 DEF Sound, FsTypes
  <1>9. NodesInv'
    <2>1. \A i : <<"vfio", i>> \in devfs' <=> <<"vfio", i>> \in devfs \/ i = n["vfio"]
      BY <1>3, <1>5
    <2>2. \A i : <<"group", i>> \in devfs' <=> <<"group", i>> \in devfs \/ i = n["group"]
      BY <1>3, <1>5
    <2>3. \A i : <<"card", i>> \in devfs' <=> <<"card", i>> \in devfs
      BY <1>3, <1>5
    <2>4. vfio[d] = None
      BY DriversAreNotNone DEF Sound, FsTypes
    <2>5. Owned("vfio", vfio)'
      <3>1. \A i : <<"vfio", i>> \in devfs' =>
                     \E e \in Devices : vfio'[e] # None /\ vfio'[e]["vfio"] = i
        BY <1>3, <1>7, <2>1, <2>4 DEF Sound, NodesInv, Owned
      <3>2. \A e \in Devices : vfio'[e] # None => <<"vfio", vfio'[e]["vfio"]>> \in devfs'
        BY <1>3, <1>7, <2>1, <2>4 DEF Sound, NodesInv, Owned
      <3>3. \A e \in Devices \ {d} : vfio[e] # None => vfio[e]["vfio"] # n["vfio"]
        BY <1>4 DEF Sound, NodesInv, InClass
      <3>4. \A e, f \in Devices :
              vfio'[e] # None /\ vfio'[f] # None /\ vfio'[e]["vfio"] = vfio'[f]["vfio"] => e = f
        BY <1>7, <3>3 DEF Sound, NodesInv, Owned
      <3> QED
        BY <3>1, <3>2, <3>4 DEF Owned
    <2>6. Owned("group", vfio)'
      <3>1. \A i : <<"group", i>> \in devfs' =>
                     \E e \in Devices : vfio'[e] # None /\ vfio'[e]["group"] = i
        BY <1>3, <1>7, <2>2, <2>4 DEF Sound, NodesInv, Owned
      <3>2. \A e \in Devices : vfio'[e] # None => <<"group", vfio'[e]["group"]>> \in devfs'
        BY <1>3, <1>7, <2>2, <2>4 DEF Sound, NodesInv, Owned
      <3>3. \A e \in Devices \ {d} : vfio[e] # None => vfio[e]["group"] # n["group"]
        BY <1>4 DEF Sound, NodesInv, Owned
      <3>4. \A e, f \in Devices :
              vfio'[e] # None /\ vfio'[f] # None /\ vfio'[e]["group"] = vfio'[f]["group"] => e = f
        BY <1>7, <3>3 DEF Sound, NodesInv, Owned
      <3> QED
        BY <3>1, <3>2, <3>4 DEF Owned
    <2>7. Owned("card", drm)'
      BY <1>5, <2>3 DEF Sound, NodesInv, Owned
    <2>8. InClass("card", drm)' /\ InClass("vfio", vfio)'
      BY <1>5, <1>7 DEF Sound, NodesInv, InClass
    <2>9. Bounded'
      <3>1. \A x \in class' \cup devfs' : x[2] <= b + 1
        BY <1>1, <1>3, <1>4, <1>5 DEF Sound, FsTypes
      <3> QED
        BY <3>1 DEF Bounded
    <2> QED
      BY <2>5, <2>6, <2>7, <2>8, <2>9 DEF NodesInv
  <1> QED
    BY <1>5, <1>6, <1>7, <1>8, <1>9 DEF Sound, OthersKept

LEMMA Unbound ==
  ASSUME Sound, NEW d \in Devices, NEW drv \in Drivers, driver[d] = drv, Unbind(drv, <<d>>)
  PROVE  Sound' /\ OthersKept(d) /\ driver' = [driver EXCEPT ![d] = None]
  <1>1. /\ links' = links \ {<<drv, d>>} /\ driver' = [driver EXCEPT ![d] = None]
        /\ UNCHANGED <<class, byPath, refused>>
        /\ \/ /\ drv \in DrmDrivers /\ devfs' = devfs \ NodesOf(drm[d])
              /\ drm' = [drm EXCEPT ![d] = None] /\ vfio' = vfio
           \/ /\ drv \in VfioDrivers /\ devfs' = devfs \ NodesOf(vfio[d])
              /\ vfio' = [vfio EXCEPT ![d] = None] /\ drm' = drm
    <2>1. <<drv, d>> \in links
      BY LinkOf, DriversAreNotNone DEF Sound
    <2>2. Len(<<d>>) = 1 /\ <<d>>[1] = d
      OBVIOUS
    <2> QED
      BY <2>1, <2>2 DEF Unbind
  <1>2. /\ driver' \in [Devices -> Drivers \cup {None}]
        /\ LinksAgree' /\ links' \subseteq Drivers \X Devices
    BY <1>1, Unlinked DEF Sound
  <1>3. devfs' \subseteq devfs /\ devfs' \subseteq NodeKinds \X Nat
    BY <1>1 DEF Sound, FsTypes
  <1>4. Bounded'
    BY <1>1, <1>3 DEF Sound, NodesInv, Bounded
  <1>5. CASE drv \in DrmDrivers
    <2>1. /\ devfs' = devfs \ NodesOf(drm[d]) /\ drm' = [drm EXCEPT ![d] = None] /\ vfio' = vfio
      BY <1>1, <1>5, DriversAreNotNone
    <2>2. drm[d] \in DrmName
      BY <1>5 DEF Sound, FsTypes
    <2>3. NodesOf(drm[d]) = {<<"card", drm[d].card>>, <<"renderD", drm[d].renderD>>}
      BY <2>2, DrmNodes
    <2>4. /\ drm' \in [Devices -> DrmName \cup {None}] /\ drm'[d] = None
          /\ \A e \in Devices \ {d} : drm'[e] = drm[e]
      BY <2>1 DEF Sound, FsTypes
    <2>5. FsTypes'
      BY <1>1, <1>2, <1>3, <1>5, <2>1, <2>4, DriversAreNotNone DEF Sound, FsTypes
    <2>6. Owned("card", drm)'
      BY <2>1, <2>2, <2>3, <2>4, NamesAreNotNone DEF Sound, NodesInv, Owned
    <2>7. Owned("vfio", vfio)' /\ Owned("group", vfio)'
      BY <2>1, <2>3 DEF Sound, NodesInv, Owned
    <2>8. InClass("card", drm)' /\ InClass("vfio", vfio)'
      BY <1>1, <2>1, <2>4 DEF Sound, NodesInv, InClass
    <2> QED
      BY <1>1, <1>2, <1>4, <2>1, <2>4, <2>5, <2>6, <2>7, <2>8 DEF Sound, NodesInv, OthersKept
  <1>6. CASE drv \in VfioDrivers
    <2>1. /\ devfs' = devfs \ NodesOf(vfio[d]) /\ vfio' = [vfio EXCEPT ![d] = None] /\ drm' = drm
      BY <1>1, <1>6, DriversAreNotNone
    <2>2. vfio[d] \in VfioName
      BY <1>6 DEF Sound, FsTypes
    <2>3. NodesOf(vfio[d]) = {<<"vfio", vfio[d].vfio>>, <<"group", vfio[d].group>>}
      BY <2>2, VfioNodes
    <2>4. /\ vfio' \in [Devices -> VfioName \cup {None}] /\ vfio'[d] = None
          /\ \A e \in Devices \ {d} : vfio'[e] = vfio[e]
      BY <2>1 DEF Sound, FsTypes
    <2>5. FsTypes'
      BY <1>1, <1>2, <1>3, <1>6, <2>1, <2>4, DriversAreNotNone DEF Sound, FsTypes
    <2>6. Owned("vfio", vfio)'
      BY <2>1, <2>2, <2>3, <2>4, NamesAreNotNone DEF Sound, NodesInv, Owned
    <2>7. Owned("group", vfio)'
      BY <2>1, <2>2, <2>3, <2>4, NamesAreNotNone DEF Sound, NodesInv, Owned
    <2>8. Owned("card", drm)'
      BY <2>1, <2>3 DEF Sound, NodesInv, Owned
    <2>9. InClass("card", drm)' /\ InClass("vfio", vfio)'
      BY <1>1, <2>1, <2>4 DEF Sound, NodesInv, InClass
    <2> QED
      BY <1>1, <1>2, <1>4, <2>1, <2>4, <2>5, <2>6, <2>7, <2>8, <2>9
         DEF Sound, NodesInv, OthersKept
  <1> QED
    BY <1>5, <1>6 DEF Drivers

\* The nodes of a kind are as many as the devices that have one.
LEMMA NodesOfKind ==
  ASSUME FsTypes, NEW kind, NEW dir, Owned(kind, dir)
  PROVE  /\ {x \in devfs : x[1] = kind} =
              {<<kind, dir[d][kind]>> : d \in {e \in Devices : dir[e] # None}}
         /\ Cardinality({<<kind, dir[d][kind]>> : d \in {e \in Devices : dir[e] # None}}) =
              Cardinality({d \in Devices : dir[d] # None})
  <1> DEFINE D == {e \in Devices : dir[e] # None}
             f == [d \in D |-> <<kind, dir[d][kind]>>]
  <1>1. \A x \in devfs : x = <<x[1], x[2]>>
    BY DEF FsTypes
  <1>2. {x \in devfs : x[1] = kind} = {<<kind, dir[d][kind]>> : d \in D}
    BY <1>1 DEF Owned
  <1>3. \A d, e \in D : f[d] = f[e] => d = e
    BY DEF Owned
  <1>4. {f[d] : d \in D} = {<<kind, dir[d][kind]>> : d \in D}
    OBVIOUS
  <1>5. D \in SUBSET Devices
    OBVIOUS
  <1> HIDE DEF D, f
  <1>6. Cardinality({f[d] : d \in D}) = Cardinality(D)
    BY <1>3, <1>5, AsManyNames
  <1> QED
    BY <1>2, <1>4, <1>6 DEF D

LEMMA FsUnchanged ==
  ASSUME Sound, UNCHANGED fs
  PROVE  Sound' /\ \A d \in Devices : OthersKept(d)
  BY DEF fs, Sound, FsTypes, LinksAgree, NodesInv, Owned, InClass, Bounded, OthersKept

-----------------------------------------------------------------------------
(* The watcher                                                              *)

LEMMA OneAddress ==
  ASSUME NEW value \in Seq(Devices), Len(value) = 1
  PROVE  value[1] \in Devices /\ value = <<value[1]>>
  OBVIOUS

LEMMA BindOne ==
  ASSUME Sound, NEW drv \in Drivers, NEW d \in Devices, Bind(drv, <<d>>)
  PROVE  /\ Sound' /\ OthersKept(d)
         /\ driver[d] = None => driver' = [driver EXCEPT ![d] = drv]
         /\ driver[d] # None => UNCHANGED fs
  <1>1. Len(<<d>>) = 1 /\ <<d>>[1] = d
    OBVIOUS
  <1>2. CASE driver[d] # None
    <2>1. UNCHANGED fs
      BY <1>1, <1>2 DEF Bind, AlreadyBound
    <2> QED
      BY <1>2, <2>1, FsUnchanged
  <1>3. CASE driver[d] = None
    <2>1. (drv \in DrmDrivers /\ BindDrm(drv, d)) \/ (drv \in VfioDrivers /\ BindVfio(drv, d))
      BY <1>1, <1>3 DEF Bind, AlreadyBound
    <2> QED
      BY <1>3, <2>1, BoundToDrm, BoundToVfio
  <1> QED
    BY <1>2, <1>3

LEMMA UnbindOne ==
  ASSUME Sound, NEW drv \in Drivers, NEW d \in Devices, Unbind(drv, <<d>>)
  PROVE  /\ Sound' /\ OthersKept(d)
         /\ driver[d] = drv => driver' = [driver EXCEPT ![d] = None]
         /\ driver[d] # drv => UNCHANGED fs
  <1>1. Len(<<d>>) = 1 /\ <<d>>[1] = d
    OBVIOUS
  <1>2. CASE driver[d] # drv
    <2>1. <<drv, d>> \notin links
      BY <1>2, LinkOf DEF Sound
    <2>2. UNCHANGED fs
      BY <1>1, <2>1 DEF Unbind
    <2> QED
      BY <1>2, <2>2, FsUnchanged
  <1>3. CASE driver[d] = drv
    BY <1>3, Unbound
  <1> QED
    BY <1>2, <1>3

\* Whatever the file held, one address, none or several that ran together.
LEMMA Acted ==
  ASSUME Sound, QueueTypes, WatcherAct
  PROVE  Sound'
  <1>1. /\ held.file[1] \in Drivers /\ held.value \in Seq(Devices)
        /\ Bind(held.file[1], held.value) \/ Unbind(held.file[1], held.value)
    BY DEF WatcherAct, QueueTypes, Content, Files
  <1>2. CASE Len(held.value) # 1
    <2>1. UNCHANGED fs
      BY <1>1, <1>2 DEF Bind, Unbind
    <2> QED
      BY <2>1, FsUnchanged
  <1>3. CASE Len(held.value) = 1
    <2> DEFINE d == held.value[1]
    <2>1. d \in Devices /\ held.value = <<d>>
      BY <1>1, <1>3, OneAddress
    <2> HIDE DEF d
    <2>2. Bind(held.file[1], <<d>>) \/ Unbind(held.file[1], <<d>>)
      BY <1>1, <2>1
    <2> QED
      BY <1>1, <2>1, <2>2, BindOne, UnbindOne
  <1> QED
    BY <1>2, <1>3

-----------------------------------------------------------------------------
(* The invariant holds at the start                                         *)

LEMMA FirstNames ==
  ASSUME NEW d \in Devices
  PROVE  /\ Slot[d] \in Nat /\ DrmNames(d) \in DrmName /\ VfioNames(d) \in VfioName
         /\ DrmNames(d).card = Slot[d] /\ VfioNames(d).vfio = Slot[d]
         /\ VfioNames(d).group = Slot[d]
         /\ Home[d] \in DrmDrivers /\ Vfio[d] \in VfioDrivers /\ Home[d] # Vfio[d]
  <1>1. Slot[d] \in Nat /\ 128 + Slot[d] \in Nat
    BY FakeAssumption
  <1>2. Home[d] \in DrmDrivers /\ Vfio[d] \in VfioDrivers
    BY FakeAssumption
  <1> QED
    BY <1>1, <1>2, DriversAreNotNone DEF DrmNames, VfioNames, DrmName, VfioName

LEMMA InitSound == Init => Sound
  <1> SUFFICES ASSUME Init PROVE Sound
    OBVIOUS
  <1> DEFINE onDrm == {d \in Devices : driver[d] = Home[d]}
             onVfio == Devices \ onDrm
             mei == {<<"mei", Slot[d]>> : d \in onDrm}
  <1>1. /\ driver \in [Devices -> Drivers]
        /\ \A d \in Devices : driver[d] \in {Home[d], Vfio[d]}
        /\ links = {<<driver[d], d>> : d \in Devices}
        /\ drm = [d \in Devices |-> IF driver[d] = Home[d] THEN DrmNames(d) ELSE None]
        /\ vfio = [d \in Devices |-> IF driver[d] = Vfio[d] THEN VfioNames(d) ELSE None]
        /\ refused = {}
    BY DEF Init
  <1>2. /\ class = ({<<"card", Slot[d]>> : d \in onDrm} \cup mei)
                     \cup {<<"vfio", Slot[d]>> : d \in onVfio}
        /\ devfs = (mei \cup (UNION {NodesOf(DrmNames(d)) : d \in onDrm}))
                     \cup (UNION {NodesOf(VfioNames(d)) : d \in onVfio})
    BY Zenon DEF Init
  <1>3. \A d \in Devices : /\ d \in onDrm <=> driver[d] \in DrmDrivers
                           /\ d \in onVfio <=> driver[d] \in VfioDrivers
                           /\ d \in onVfio <=> driver[d] = Vfio[d]
    BY <1>1, FirstNames, DriversAreNotNone
  <1>4. \A d \in Devices : /\ d \in onDrm <=> drm[d] # None
                           /\ d \in onVfio <=> vfio[d] # None
                           /\ d \in onDrm => drm[d] = DrmNames(d)
                           /\ d \in onVfio => vfio[d] = VfioNames(d)
    BY <1>1, <1>3, FirstNames, NamesAreNotNone
  <1>5. onDrm \subseteq Devices /\ onVfio \subseteq Devices
    OBVIOUS
  <1>6. \A x : x \in devfs <=> \/ \E d \in onDrm : x = <<"mei", Slot[d]>>
                               \/ \E d \in onDrm : x = <<"card", DrmNames(d).card>>
                               \/ \E d \in onDrm : x = <<"renderD", DrmNames(d).renderD>>
                               \/ \E d \in onVfio : x = <<"vfio", VfioNames(d).vfio>>
                               \/ \E d \in onVfio : x = <<"group", VfioNames(d).group>>
    <2>1. \A d \in onDrm :
            NodesOf(DrmNames(d)) =
              {<<"card", DrmNames(d).card>>, <<"renderD", DrmNames(d).renderD>>}
      BY <1>5, FirstNames, DrmNodes
    <2>2. \A d \in onVfio :
            NodesOf(VfioNames(d)) = {<<"vfio", VfioNames(d).vfio>>, <<"group", VfioNames(d).group>>}
      BY <1>5, FirstNames, VfioNodes
    <2> HIDE DEF onDrm, onVfio
    <2>3. \A x : x \in UNION {NodesOf(DrmNames(d)) : d \in onDrm} <=>
                   \E d \in onDrm : x \in NodesOf(DrmNames(d))
      OBVIOUS
    <2>4. \A x : x \in UNION {NodesOf(VfioNames(d)) : d \in onVfio} <=>
                   \E d \in onVfio : x \in NodesOf(VfioNames(d))
      OBVIOUS
    <2>5. \A x : x \in mei <=> \E d \in onDrm : x = <<"mei", Slot[d]>>
      OBVIOUS
    <2> HIDE DEF mei
    <2> QED
      BY <1>2, <2>1, <2>2, <2>3, <2>4, <2>5
  <1>7. \A x : x \in class <=> \/ \E d \in onDrm : x = <<"card", Slot[d]>>
                               \/ \E d \in onDrm : x = <<"mei", Slot[d]>>
                               \/ \E d \in onVfio : x = <<"vfio", Slot[d]>>
    <2> HIDE DEF onDrm, onVfio
    <2> QED
      BY <1>2
  <1> HIDE DEF onDrm, onVfio, mei
  <1>8. FsTypes
    <2>1. drm \in [Devices -> DrmName \cup {None}] /\ vfio \in [Devices -> VfioName \cup {None}]
      BY <1>1, FirstNames
    <2>2. \A d \in Devices : /\ drm[d] # None <=> driver[d] \in DrmDrivers
                             /\ vfio[d] # None <=> driver[d] \in VfioDrivers
      BY <1>3, <1>4
    <2>3. class \subseteq NodeKinds \X Nat
      BY <1>5, <1>7, FirstNames DEF NodeKinds
    <2>4. devfs \subseteq NodeKinds \X Nat
      BY <1>5, <1>6, FirstNames DEF NodeKinds, DrmName
    <2> QED
      BY <1>1, <2>1, <2>2, <2>3, <2>4 DEF FsTypes
  <1>9. LinksAgree
    BY <1>1, DriversAreNotNone DEF LinksAgree
  <1>10. NodesInv
    <2>1. \A d, e \in Devices : Slot[d] = Slot[e] => d = e
      BY FakeAssumption
    <2>2. Owned("card", drm)
      BY <1>4, <1>5, <1>6, <2>1, FirstNames DEF Owned
    <2>3. Owned("vfio", vfio)
      BY <1>4, <1>5, <1>6, <2>1, FirstNames DEF Owned
    <2>4. Owned("group", vfio)
      BY <1>4, <1>5, <1>6, <2>1, FirstNames DEF Owned
    <2>5. InClass("card", drm) /\ InClass("vfio", vfio)
      BY <1>4, <1>5, <1>7, FirstNames DEF InClass
    <2>6. Bounded
      <3>1. PICK b \in Nat : \A d \in Devices : Slot[d] <= b
        BY SlotBound
      <3>2. \A d \in Devices : Slot[d] <= b + 128 /\ DrmNames(d).renderD <= b + 128
        <4> TAKE d \in Devices
        <4>1. Slot[d] \in Nat /\ Slot[d] <= b
          BY <3>1, FirstNames
        <4>2. DrmNames(d).renderD = 128 + Slot[d]
          BY DEF DrmNames
        <4> QED
          BY <4>1, <4>2
      <3>3. \A x \in class \cup devfs : x[2] <= b + 128
        BY <1>5, <1>6, <1>7, <3>2, FirstNames
      <3> QED
        BY <3>3 DEF Bounded
    <2> QED
      BY <2>2, <2>3, <2>4, <2>5, <2>6 DEF NodesInv
  <1> QED
    BY <1>8, <1>9, <1>10 DEF Sound

LEMMA Initially == Init => IInv
  <1> SUFFICES ASSUME Init PROVE IInv
    OBVIOUS
  <1>1. Sound
    BY InitSound
  <1>2. QueueTypes /\ Quiet
    BY DEF Init, QueueTypes, Quiet, Empty
  <1>3. \A d \in Devices : names[d] \in Name /\ names[d] = NamesOf(d) /\ driver[d] # None
    <2>1. \A d \in Devices : driver[d] \in {Home[d], Vfio[d]}
      BY DEF Init
    <2> QED
      BY <2>1, FirstNames, NamesAreNotNone, DriversAreNotNone DEF Init, NamesOf
  <1>4. PluginTypes
    <2>1. names \in [Devices -> Name]
      BY <1>3 DEF Init
    <2> QED
      BY <2>1 DEF Init, PluginTypes
  <1>5. PromptInv
    BY <1>2, <1>3 DEF Init, PromptInv, KnowsInv, OneWriteInv, Known
  <1> QED
    BY <1>1, <1>2, <1>4, <1>5 DEF IInv

-----------------------------------------------------------------------------
(* Every step keeps the types                                               *)

LEMMA StepSound == IInv /\ [Next]_vars => Sound'
  <1> SUFFICES ASSUME Sound, QueueTypes, [Next]_vars PROVE Sound'
    BY DEF IInv
  <1>1. CASE WatcherAct
    BY <1>1, Acted
  <1>2. CASE UNCHANGED fs
    BY <1>2, FsUnchanged
  <1>3. UNCHANGED fs \/ WatcherAct
    BY DEF Next, StartChange, WriteUnbind, WriteBind, ReadNames, WatcherRead, WatcherTruncate, vars
  <1> QED
    BY <1>1, <1>2, <1>3

\* An event queue that notices a file.
LEMMA Notified ==
  ASSUME events \in Seq(Files), NEW f \in Files
  PROVE  Notify(f) \in Seq(Files)
  BY DEF Notify

LEMMA Appended ==
  ASSUME QueueTypes, NEW f \in Files, NEW d \in Devices, Write(f, d)
  PROVE  file' \in [Files -> Seq(Devices)] /\ events' \in Seq(Files)
  <1>1. Append(file[f], d) \in Seq(Devices)
    BY DEF QueueTypes
  <1>2. file' = [file EXCEPT ![f] = Append(file[f], d)] /\ events' = Notify(f)
    BY DEF Write
  <1>3. events' \in Seq(Files)
    BY <1>2, Notified DEF QueueTypes
  <1> QED
    BY <1>1, <1>2, <1>3 DEF QueueTypes

LEMMA StepQueue == IInv /\ [Next]_vars => QueueTypes'
  <1> SUFFICES ASSUME Sound, QueueTypes, PluginTypes, [Next]_vars PROVE QueueTypes'
    BY DEF IInv
  <1>1. CASE WatcherRead
    <2>1. Head(events) \in Files /\ Tail(events) \in Seq(Files)
      BY <1>1 DEF WatcherRead, QueueTypes
    <2> DEFINE f == Head(events)
    <2>2. held' \in {None, [file |-> f, value |-> file[f], truncated |-> FALSE]}
      BY <1>1 DEF WatcherRead
    <2>3. [file |-> f, value |-> file[f], truncated |-> FALSE] \in Content
      BY <2>1 DEF Content, QueueTypes
    <2> HIDE DEF f
    <2> QED
      BY <1>1, <2>1, <2>2, <2>3 DEF WatcherRead, QueueTypes
  <1>2. CASE WatcherTruncate
    <2>1. held \in Content
      BY <1>2 DEF WatcherTruncate, QueueTypes
    <2>2. held.file \in Files /\ held' \in Content
      BY <1>2, <2>1 DEF WatcherTruncate, Content
    <2>3. <<>> \in Seq(Devices)
      OBVIOUS
    <2>4. file' \in [Files -> Seq(Devices)]
      BY <1>2, <2>3 DEF WatcherTruncate, QueueTypes
    <2>5. events' \in Seq(Files)
      BY <1>2, <2>2, Notified DEF WatcherTruncate, QueueTypes
    <2> QED
      BY <1>2, <2>2, <2>4, <2>5 DEF WatcherTruncate, QueueTypes
  <1>3. CASE WatcherAct
    BY <1>3 DEF WatcherAct, QueueTypes
  <1>4. CASE \E d \in Devices, target \in Drivers : StartChange(d, target)
    BY <1>4 DEF StartChange, QueueTypes
  <1>5. CASE WriteUnbind
    <2>1. job[1] \in Devices
      BY <1>5 DEF WriteUnbind, PluginTypes
    <2>2. CASE driver[job[1]] = None
      BY <1>5, <2>2 DEF WriteUnbind, QueueTypes
    <2>3. CASE driver[job[1]] # None
      <3>1. <<driver[job[1]], "unbind">> \in Files
        BY <2>1, <2>3 DEF Sound, FsTypes, Files
      <3>2. Write(<<driver[job[1]], "unbind">>, job[1]) /\ prompt' = prompt /\ held' = held
        BY <1>5, <2>3 DEF WriteUnbind
      <3> QED
        BY <2>1, <3>1, <3>2, Appended DEF QueueTypes
    <2> QED
      BY <2>2, <2>3
  <1>6. CASE WriteBind
    <2>1. job[1] \in Devices /\ <<job[2], "bind">> \in Files
      BY <1>6 DEF WriteBind, PluginTypes, Files
    <2> QED
      BY <1>6, <2>1, Appended DEF WriteBind, QueueTypes
  <1>7. CASE ReadNames
    BY <1>7 DEF ReadNames, QueueTypes
  <1>8. CASE UNCHANGED vars
    BY <1>8 DEF vars, QueueTypes
  <1> QED
    BY <1>1, <1>2, <1>3, <1>4, <1>5, <1>6, <1>7, <1>8 DEF Next

LEMMA StepPlugin == IInv /\ [Next]_vars => PluginTypes'
  <1> SUFFICES ASSUME Sound, PluginTypes, [Next]_vars PROVE PluginTypes'
    BY DEF IInv
  <1>1. CASE \E d \in Devices, target \in Drivers : StartChange(d, target)
    BY <1>1 DEF StartChange, PluginTypes
  <1>2. CASE WriteUnbind \/ WriteBind
    BY <1>2 DEF WriteUnbind, WriteBind, PluginTypes
  <1>3. CASE ReadNames
    <2>1. job[1] \in Devices /\ job[2] \in Drivers
      BY <1>3 DEF ReadNames, PluginTypes
    <2>2. /\ drm[job[1]] # None => drm[job[1]] \in Name
          /\ vfio[job[1]] # None => vfio[job[1]] \in Name
      BY <2>1, NamesAreNotNone DEF Sound, FsTypes
    <2>3. names' \in [Devices -> Name]
      BY <1>3, <2>1, <2>2 DEF ReadNames, PluginTypes
    <2> QED
      BY <1>3, <2>1, <2>3 DEF ReadNames, PluginTypes
  <1>4. CASE WatcherRead \/ WatcherTruncate \/ WatcherAct \/ UNCHANGED vars
    BY <1>4 DEF WatcherRead, WatcherTruncate, WatcherAct, vars, plugin, PluginTypes
  <1> QED
    BY <1>1, <1>2, <1>3, <1>4 DEF Next

-----------------------------------------------------------------------------
(* A prompt watcher                                                         *)

LEMMA EmptyFiles == \A f \in Files : Empty[f] = <<>>
  BY DEF Empty

LEMMA HeldIsNotNone == \A h \in Content : h # None
  BY FakeAssumption

LEMMA ReadOne ==
  ASSUME NEW f \in Files, NEW d \in Devices, Underway(f, d), WatcherRead
  PROVE  Underway(f, d)'
  <1>1. events = <<f>> /\ held = None /\ file = [Empty EXCEPT ![f] = <<d>>]
    <2>1. [file |-> f, value |-> <<d>>, truncated |-> TRUE] \in Content
      BY DEF Content
    <2> QED
      BY <2>1, HeldIsNotNone DEF Underway, WatcherRead
  <1>2. Head(events) = f /\ Tail(events) = <<>> /\ file[f] = <<d>> /\ <<d>> # <<>>
    BY <1>1 DEF Empty
  <1>3. /\ events' = <<>> /\ file' = [Empty EXCEPT ![f] = <<d>>]
        /\ held' = [file |-> f, value |-> <<d>>, truncated |-> FALSE]
    BY <1>1, <1>2 DEF WatcherRead
  <1> QED
    BY <1>3 DEF Underway

LEMMA TruncateOne ==
  ASSUME NEW f \in Files, NEW d \in Devices, Underway(f, d), WatcherTruncate
  PROVE  Underway(f, d)'
  <1>1. /\ events = <<>> /\ file = [Empty EXCEPT ![f] = <<d>>]
        /\ held = [file |-> f, value |-> <<d>>, truncated |-> FALSE]
    BY DEF Underway, WatcherTruncate
  <1>2. held.file = f /\ Notify(f) = <<f>>
    BY <1>1 DEF Notify
  <1>3. /\ events' = <<f>> /\ file' = [file EXCEPT ![f] = <<>>]
        /\ held' = [held EXCEPT !.truncated = TRUE]
    BY <1>2 DEF WatcherTruncate
  <1>4. file' = Empty
    BY <1>1, <1>3 DEF Empty
  <1>5. held' = [file |-> f, value |-> <<d>>, truncated |-> TRUE]
    BY <1>1, <1>3
  <1> QED
    BY <1>3, <1>4, <1>5 DEF Underway

LEMMA ActOne ==
  ASSUME NEW f \in Files, NEW d \in Devices, Underway(f, d), WatcherAct
  PROVE  Settling' /\ held.file = f /\ held.value = <<d>>
  <1>1. /\ events = <<f>> /\ file = Empty
        /\ held = [file |-> f, value |-> <<d>>, truncated |-> TRUE]
    BY DEF Underway, WatcherAct
  <1> QED
    BY <1>1 DEF WatcherAct, Settling

\* Its own truncation makes the watcher read an empty file, and nothing else.
LEMMA SettleOn ==
  ASSUME Settling
  PROVE  /\ WatcherRead => Settling'
         /\ ~WatcherTruncate /\ ~WatcherAct
  <1>1. ~WatcherTruncate /\ ~WatcherAct
    BY DEF Settling, WatcherTruncate, WatcherAct
  <1>2. ASSUME WatcherRead PROVE Settling'
    <2>1. PICK f \in Files : events = <<f>>
      BY <1>2 DEF Settling, WatcherRead
    <2>2. Head(events) = f /\ Tail(events) = <<>> /\ file[f] = <<>>
      BY <2>1, EmptyFiles DEF Settling
    <2>3. events' = <<>> /\ held' = None /\ file' = Empty
      BY <1>2, <2>2 DEF WatcherRead, Settling
    <2> QED
      BY <2>1, <2>3 DEF Settling
  <1> QED
    BY <1>1, <1>2

\* A sleep ends when nothing is under way any more.
LEMMA SleptQuiet ==
  ASSUME prompt, Slept
  PROVE  /\ \A f \in Files, d \in Devices : ~Underway(f, d)
         /\ Settling => Quiet
  <1>1. events = <<>> /\ held = None
    BY DEF Slept
  <1>2. ASSUME NEW f \in Files, NEW d \in Devices PROVE ~Underway(f, d)
    <2>1. [file |-> f, value |-> <<d>>, truncated |-> FALSE] \in Content
      BY DEF Content
    <2> QED
      BY <1>1, <2>1, HeldIsNotNone DEF Underway
  <1> QED
    BY <1>1, <1>2 DEF Settling, Quiet

\* A write when all is quiet.
LEMMA WriteOne ==
  ASSUME Quiet, NEW f \in Files, NEW d \in Devices, Write(f, d), held' = held
  PROVE  Underway(f, d)'
  <1>1. events' = <<f>>
    BY DEF Quiet, Write, Notify
  <1>2. file[f] = <<>> /\ Append(<<>>, d) = <<d>>
    BY EmptyFiles DEF Quiet
  <1>3. file' = [Empty EXCEPT ![f] = <<d>>]
    BY <1>2 DEF Quiet, Write
  <1> QED
    BY <1>1, <1>3 DEF Quiet, Underway

\* Only the watcher changes the bindings.
LEMMA FsSteady ==
  ASSUME UNCHANGED fs
  PROVE  driver' = driver /\ drm' = drm /\ vfio' = vfio
  BY DEF fs

\* What the watcher does of a write: it carries the write out, or is not there yet.
LEMMA WatcherStep ==
  ASSUME Sound, PluginTypes, KnowsInv, OneWriteInv,
         WatcherRead \/ WatcherTruncate \/ WatcherAct
  PROVE  KnowsInv' /\ OneWriteInv'
  <1>1. pc' = pc /\ job' = job /\ current' = current /\ names' = names
    BY DEF WatcherRead, WatcherTruncate, WatcherAct, plugin
  <1>2. pc \in {"bind", "read"}
    BY DEF OneWriteInv, Quiet, WatcherRead, WatcherTruncate, WatcherAct, PluginTypes
  <1>3. PICK d \in Devices, t \in Drivers : job = <<d, t>>
    BY <1>2 DEF PluginTypes
  <1>4. PICK drv \in Drivers \cup {None} : driver[d] = drv
    BY DEF Sound, FsTypes
  <1>5. ASSUME OthersKept(d), \A e \in Devices \ {d} : driver'[e] = driver[e] PROVE KnowsInv'
    BY <1>1, <1>2, <1>3, <1>5 DEF KnowsInv, Known, NamesOf, OthersKept
  <1>6. CASE Settling /\ driver[d] = IF pc = "bind" THEN None ELSE t
    <2>1. WatcherRead /\ Settling'
      BY <1>6, SettleOn
    <2>2. driver' = driver /\ OthersKept(d)
      BY <2>1 DEF WatcherRead, fs, OthersKept
    <2> QED
      BY <1>1, <1>2, <1>3, <1>5, <1>6, <2>1, <2>2 DEF OneWriteInv
  <1>7. CASE pc = "bind" /\ drv # None /\ Underway(<<drv, "unbind">>, d)
    <2>1. <<drv, "unbind">> \in Files /\ drv \in Drivers
      BY <1>7 DEF Files
    <2>2. CASE WatcherRead \/ WatcherTruncate
      <3>1. Underway(<<drv, "unbind">>, d)'
        BY <1>7, <2>1, <2>2, ReadOne, TruncateOne
      <3>2. driver' = driver /\ OthersKept(d)
        BY <2>2 DEF WatcherRead, WatcherTruncate, fs, OthersKept
      <3> QED
        BY <1>1, <1>3, <1>4, <1>5, <1>7, <3>1, <3>2 DEF OneWriteInv, Underway
    <2>3. CASE WatcherAct
      <3>1. Settling' /\ Unbind(drv, <<d>>)
        BY <1>7, <2>1, <2>3, ActOne DEF WatcherAct
      <3>2. OthersKept(d) /\ driver' = [driver EXCEPT ![d] = None]
        BY <1>4, <2>1, <3>1, UnbindOne
      <3>3. driver'[d] = None /\ \A e \in Devices \ {d} : driver'[e] = driver[e]
        BY <3>2 DEF Sound, FsTypes
      <3> QED
        BY <1>1, <1>3, <1>5, <1>7, <3>1, <3>2, <3>3 DEF OneWriteInv
    <2> QED
      BY <2>2, <2>3
  <1>8. CASE pc = "read" /\ drv = None /\ Underway(<<t, "bind">>, d)
    <2>1. <<t, "bind">> \in Files
      BY DEF Files
    <2>2. CASE WatcherRead \/ WatcherTruncate
      <3>1. Underway(<<t, "bind">>, d)'
        BY <1>8, <2>1, <2>2, ReadOne, TruncateOne
      <3>2. driver' = driver /\ OthersKept(d)
        BY <2>2 DEF WatcherRead, WatcherTruncate, fs, OthersKept
      <3> QED
        BY <1>1, <1>3, <1>4, <1>5, <1>8, <3>1, <3>2 DEF OneWriteInv, Underway
    <2>3. CASE WatcherAct
      <3>1. Settling' /\ Bind(t, <<d>>)
        BY <1>8, <2>1, <2>3, ActOne DEF WatcherAct
      <3>2. OthersKept(d) /\ driver' = [driver EXCEPT ![d] = t]
        BY <1>4, <1>8, <3>1, BindOne
      <3>3. driver'[d] = t /\ \A e \in Devices \ {d} : driver'[e] = driver[e]
        BY <3>2 DEF Sound, FsTypes
      <3> QED
        BY <1>1, <1>3, <1>5, <1>8, <3>1, <3>2, <3>3 DEF OneWriteInv
    <2> QED
      BY <2>2, <2>3
  <1> QED
    BY <1>2, <1>3, <1>4, <1>6, <1>7, <1>8 DEF OneWriteInv

LEMMA StepPrompt == IInv /\ [Next]_vars => PromptInv'
  <1> SUFFICES ASSUME Sound, QueueTypes, PluginTypes, PromptInv, [Next]_vars
               PROVE  PromptInv'
    BY DEF IInv
  <1>0. prompt' = prompt
    <2>1. CASE \E d \in Devices, target \in Drivers : StartChange(d, target)
      BY <2>1 DEF StartChange
    <2>2. CASE WriteUnbind \/ WriteBind \/ ReadNames
      BY <2>2 DEF WriteUnbind, WriteBind, ReadNames
    <2>3. CASE WatcherRead \/ WatcherTruncate \/ WatcherAct
      BY <2>3 DEF WatcherRead, WatcherTruncate, WatcherAct
    <2>4. CASE UNCHANGED vars
      BY <2>4 DEF vars
    <2> QED
      BY <2>1, <2>2, <2>3, <2>4 DEF Next
  <1> SUFFICES ASSUME prompt PROVE KnowsInv' /\ OneWriteInv'
    BY <1>0 DEF PromptInv
  <1>1. KnowsInv /\ OneWriteInv
    BY DEF PromptInv
  <1>2. CASE WatcherRead \/ WatcherTruncate \/ WatcherAct
    BY <1>1, <1>2, WatcherStep
  <1>3. CASE \E d \in Devices, target \in Drivers : StartChange(d, target)
    <2>1. pc = "idle" /\ pc' = "unbind" /\ UNCHANGED <<fs, file, events, held, current, names>>
      BY <1>3 DEF StartChange
    <2> QED
      BY <1>1, <2>1, FsSteady DEF KnowsInv, Known, NamesOf, OneWriteInv, Quiet
  <1>4. CASE WriteUnbind
    <2>1. PICK d \in Devices, t \in Drivers : job = <<d, t>>
      BY <1>4 DEF WriteUnbind, PluginTypes
    <2>2. /\ pc = "unbind" /\ pc' = "bind" /\ job' = job /\ held' = held
          /\ UNCHANGED <<fs, current, names>>
      BY <1>4 DEF WriteUnbind
    <2>3. PICK drv \in Drivers : driver[d] = drv /\ drv # None
      BY <1>1, <2>2, DriversAreNotNone DEF KnowsInv, Known, Sound, FsTypes
    <2>4. <<drv, "unbind">> \in Files /\ Quiet /\ Write(<<drv, "unbind">>, d)
      BY <1>1, <1>4, <2>1, <2>2, <2>3 DEF WriteUnbind, OneWriteInv, Files
    <2>5. Underway(<<drv, "unbind">>, d)'
      BY <2>2, <2>4, WriteOne
    <2>6. KnowsInv'
      BY <1>1, <2>2, FsSteady DEF KnowsInv, Known, NamesOf
    <2> QED
      BY <2>1, <2>2, <2>3, <2>5, <2>6, FsSteady DEF OneWriteInv, Underway
  <1>5. CASE WriteBind
    <2>1. PICK d \in Devices, t \in Drivers : job = <<d, t>>
      BY <1>5 DEF WriteBind, PluginTypes
    <2>2. /\ pc = "bind" /\ pc' = "read" /\ job' = job /\ held' = held /\ Slept
          /\ UNCHANGED <<fs, current, names>> /\ Write(<<t, "bind">>, d)
      BY <1>5, <2>1 DEF WriteBind
    <2>3. driver[d] \in Drivers \cup {None}
      BY DEF Sound, FsTypes
    <2>4. driver[d] = None /\ Quiet
      <3>1. driver[d] # None => <<driver[d], "unbind">> \in Files
        BY <2>3 DEF Files
      <3> QED
        BY <1>1, <2>1, <2>2, <3>1, SleptQuiet DEF OneWriteInv
    <2>5. Underway(<<t, "bind">>, d)'
      BY <2>2, <2>4, WriteOne DEF Files
    <2>6. KnowsInv'
      BY <1>1, <2>2, FsSteady DEF KnowsInv, Known, NamesOf
    <2> QED
      BY <2>1, <2>2, <2>4, <2>5, <2>6, FsSteady DEF OneWriteInv, Underway
  <1>6. CASE ReadNames
    <2>1. PICK d \in Devices, t \in Drivers : job = <<d, t>>
      BY <1>6 DEF ReadNames, PluginTypes
    <2>2. /\ pc = "read" /\ pc' = "idle" /\ Slept
          /\ UNCHANGED <<fs, file, events, held>>
          /\ current' = [current EXCEPT ![d] = t]
          /\ names' = [names EXCEPT ![d] =
               IF (IF t \in DrmDrivers THEN drm[d] ELSE vfio[d]) = None THEN @
               ELSE IF t \in DrmDrivers THEN drm[d] ELSE vfio[d]]
      BY <1>6, <2>1 DEF ReadNames
    <2>3. driver[d] = t /\ Quiet
      <3>1. <<t, "bind">> \in Files
        BY DEF Files
      <3> QED
        BY <1>1, <2>1, <2>2, <3>1, SleptQuiet DEF OneWriteInv
    <2>4. NamesOf(d) # None
      BY <2>3 DEF NamesOf, Sound, FsTypes, Drivers
    <2>5. /\ current'[d] = t /\ names'[d] = NamesOf(d)
          /\ \A e \in Devices \ {d} : current'[e] = current[e] /\ names'[e] = names[e]
      BY <2>2, <2>3, <2>4 DEF PluginTypes, NamesOf
    <2>6. KnowsInv'
      BY <1>1, <2>1, <2>2, <2>3, <2>5, FsSteady, DriversAreNotNone DEF KnowsInv, Known, NamesOf
    <2> QED
      BY <2>2, <2>3, <2>6 DEF OneWriteInv, Quiet
  <1>7. CASE UNCHANGED vars
    <2>1. UNCHANGED <<fs, file, events, held, pc, job, current, names>>
      BY <1>7 DEF vars, plugin
    <2> QED
      BY <1>1, <2>1, FsSteady DEF KnowsInv, Known, NamesOf, OneWriteInv, Quiet, Settling, Underway
  <1> QED
    BY <1>2, <1>3, <1>4, <1>5, <1>6, <1>7 DEF Next

\* The invariant holds in every state of every behavior.
LEMMA Invariant == Spec => []IInv
  <1>1. IInv /\ [Next]_vars => IInv'
    BY StepSound, StepQueue, StepPlugin, StepPrompt DEF IInv
  <1> QED
    BY Initially, <1>1, PTL DEF Spec

-----------------------------------------------------------------------------
(* Theorems                                                                 *)

\* Whatever writes are lost, run together or come too early: the two links of a device and
\* its driver exist together, each bound device has nodes of its own, and an unbound one has
\* none (gpu.go:481, gpu-driver-binder.go:257).
THEOREM FilesSoundAlways == Spec => []FilesSound
  <1>1. IInv => TypeOK
    BY NamesAreNotNone DEF IInv, Sound, FsTypes, QueueTypes, PluginTypes, TypeOK
  <1>2. IInv => LinksAgree
    BY DEF IInv, Sound
  <1>3. IInv => NodesOwned
    <2> SUFFICES ASSUME Sound PROVE NodesOwned
      BY DEF IInv
    <2>1. /\ {x \in devfs : x[1] = "card"} =
               {<<"card", drm[d]["card"]>> : d \in {e \in Devices : drm[e] # None}}
          /\ Cardinality({<<"card", drm[d]["card"]>> : d \in {e \in Devices : drm[e] # None}}) =
               Cardinality({d \in Devices : drm[d] # None})
      <3>1. Owned("card", drm)
        BY DEF Sound, NodesInv
      <3> QED
        BY <3>1, NodesOfKind, Zenon DEF Sound
    <2>2. /\ {x \in devfs : x[1] = "vfio"} =
               {<<"vfio", vfio[d]["vfio"]>> : d \in {e \in Devices : vfio[e] # None}}
          /\ Cardinality({<<"vfio", vfio[d]["vfio"]>> : d \in {e \in Devices : vfio[e] # None}}) =
               Cardinality({d \in Devices : vfio[d] # None})
      <3>1. Owned("vfio", vfio)
        BY DEF Sound, NodesInv
      <3> QED
        BY <3>1, NodesOfKind, Zenon DEF Sound
    <2>3. /\ {x \in devfs : x[1] = "group"} =
               {<<"group", vfio[d]["group"]>> : d \in {e \in Devices : vfio[e] # None}}
          /\ Cardinality({<<"group", vfio[d]["group"]>> : d \in {e \in Devices : vfio[e] # None}}) =
               Cardinality({d \in Devices : vfio[d] # None})
      <3>1. Owned("group", vfio)
        BY DEF Sound, NodesInv
      <3> QED
        BY <3>1, NodesOfKind, Zenon DEF Sound
    <2> QED
      BY <2>1, <2>2, <2>3, Zenon DEF NodesOwned
  <1> QED
    BY Invariant, <1>1, <1>2, <1>3, PTL DEF FilesSound

\* When the watcher is done with each write before the plugin's sleep ends, a driver change
\* ends with the driver asked for, and the plugin knows the device's new names
\* (node_state.go:443 and 503).
THEOREM PluginUpToDateAlways == Spec => []PluginUpToDate
  <1>1. IInv => PluginUpToDate
    BY DEF IInv, PromptInv, KnowsInv, Known, NamesOf, PluginUpToDate
  <1> QED
    BY Invariant, <1>1, PTL
=============================================================================
