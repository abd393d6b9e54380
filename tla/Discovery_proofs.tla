--------------------------- MODULE Discovery_proofs ---------------------------
(***************************************************************************)
(* What a discovery finds is right, for any devices, any VFs and any       *)
(* number of changes while it reads: first the GPUs, then the Gaudis, then *)
(* the program that looks for either.                                      *)
(***************************************************************************)
EXTENDS Discovery, TLAPS, FiniteSetTheorems, WellFoundedInduction

----------------------------------------------------------------------------
(* The least of a set of numbers. *)

LEMMA LeastNatural ==
  ASSUME NEW S, S \subseteq Nat, S # {}
  PROVE  Min(S) \in S /\ \A y \in S : Min(S) <= y
<1> DEFINE R == {ss \in Nat \X Nat : ss[1] < ss[2]}
<1>1. OpToRel(<, Nat) = R
  BY Zenon DEF OpToRel
<1>2. IsWellFoundedOn(R, Nat)
  BY <1>1, NatLessThanWellFounded
<1> HIDE DEF R
<1>3. \E x \in S : \A y \in S : ~ (<<y, x>> \in R)
  BY <1>2, WFMin, Zenon
<1>4. \A x, y \in S : x <= y \/ <<y, x>> \in R
  BY DEF R
<1>5. \E x \in S : \A y \in S : x <= y
  BY <1>3, <1>4, Zenon
<1> QED
  BY <1>5, Zenon DEF Min

LEMMA Intervals ==
  ASSUME NEW n \in Nat
  PROVE  IsFiniteSet(1..n) /\ Cardinality(1..n) = n /\ Cardinality(0..n) = n + 1
<1>1. IsFiniteSet(1..n) /\ Cardinality(1..n) = IF 1 > n THEN 0 ELSE n - 1 + 1
  BY FS_Interval
<1>2. Cardinality(0..n) = IF 0 > n THEN 0 ELSE n - 0 + 1
  BY FS_Interval
<1>3. (IF 1 > n THEN 0 ELSE n - 1 + 1) = n /\ (IF 0 > n THEN 0 ELSE n - 0 + 1) = n + 1
  OBVIOUS
<1> QED
  BY <1>1, <1>2, <1>3

\* There is a first position in any set of positions that is not empty.
LEMMA FirstExists ==
  ASSUME NEW S, S \subseteq Nat, S # {}
  PROVE  FirstIn(S) # {}
<1>1. Min(S) \in S /\ \A y \in S : Min(S) <= y
  BY LeastNatural, Zenon
<1> QED
  BY <1>1, Zenon DEF FirstIn

----------------------------------------------------------------------------
(* The devices and their positions. *)

LEMMA DeviceAt ==
  /\ Len(Addresses) \in Nat /\ DOMAIN Addresses = 1..Len(Addresses)
  /\ \A i \in DOMAIN Addresses : Addresses[i] \in Device
  /\ \A d \in Device : \E i \in DOMAIN Addresses : Addresses[i] = d
  /\ \A i, j \in DOMAIN Addresses : Addresses[i] = Addresses[j] => i = j
<1>1. Addresses \in Seq(Device)
  BY DiscoveryAssumption
<1>2. Len(Addresses) \in Nat /\ DOMAIN Addresses = 1..Len(Addresses)
  BY <1>1
<1>3. /\ \A i \in DOMAIN Addresses : Addresses[i] \in Device
      /\ \A d \in Device : \E i \in DOMAIN Addresses : Addresses[i] = d
  BY Zenon DEF Device, Range
<1>4. \A i, j \in DOMAIN Addresses : Addresses[i] = Addresses[j] => i = j
  BY DiscoveryAssumption, Zenon DEF IsInjective
<1> QED
  BY <1>2, <1>3, <1>4, Zenon

LEMMA VfsAt ==
  ASSUME NEW p \in PFs
  PROVE  /\ Len(VfsOf[p]) \in Nat /\ DOMAIN VfsOf[p] = 1..Len(VfsOf[p])
         /\ \A i \in 1..Len(VfsOf[p]) : /\ VfsOf[p][i] \in Range(VfsOf[p])
                                        /\ VfsOf[p][i] \in Device \ PFs
         /\ \A d \in Range(VfsOf[p]) : \E i \in 1..Len(VfsOf[p]) : d = VfsOf[p][i]
         /\ \A i, j \in 1..Len(VfsOf[p]) : VfsOf[p][i] = VfsOf[p][j] => i = j
<1>1. VfsOf[p] \in Seq(VfAddresses) /\ IsInjective(VfsOf[p])
  BY DiscoveryAssumption, Zenon
<1>2. Len(VfsOf[p]) \in Nat /\ DOMAIN VfsOf[p] = 1..Len(VfsOf[p])
  BY <1>1
<1>3. \A i \in DOMAIN VfsOf[p] : VfsOf[p][i] \in Range(VfsOf[p])
  BY Zenon DEF Range
<1>4. \A d \in Range(VfsOf[p]) : \E i \in DOMAIN VfsOf[p] : d = VfsOf[p][i]
  BY Zenon DEF Range
<1>5. Range(VfsOf[p]) \subseteq Device \ PFs
  BY DiscoveryAssumption, Zenon DEF VfAddresses
<1>6. \A i, j \in DOMAIN VfsOf[p] : VfsOf[p][i] = VfsOf[p][j] => i = j
  BY <1>1, Zenon DEF IsInjective
<1> QED
  BY <1>2, <1>3, <1>4, <1>5, <1>6, Zenon

\* The VFs that are linked are some of those of the PF, and no PF is one.
LEMMA LinksOf ==
  ASSUME TypeOK, NEW p \in PFs
  PROVE  /\ Links(p) \subseteq Range(VfsOf[p]) /\ Links(p) \subseteq Device \ PFs
         /\ \A d \in Links(p) : \E i \in 1..virtfn[p] : d = VfsOf[p][i]
         /\ 1..virtfn[p] \subseteq 1..Len(VfsOf[p])
<1>1. virtfn[p] \in Nat /\ virtfn[p] <= Len(VfsOf[p])
  BY DEF TypeOK
<1>2. 1..virtfn[p] \subseteq 1..Len(VfsOf[p])
  BY <1>1, VfsAt
<1>3. \A d \in Links(p) : \E i \in 1..virtfn[p] : d = VfsOf[p][i]
  BY Zenon DEF Links
<1>4. \A i \in 1..Len(VfsOf[p]) : /\ VfsOf[p][i] \in Range(VfsOf[p])
                                   /\ VfsOf[p][i] \in Device \ PFs
  BY VfsAt, Zenon
<1>5. Links(p) \subseteq Range(VfsOf[p]) /\ Links(p) \subseteq Device \ PFs
  BY <1>2, <1>3, <1>4, Zenon
<1> QED
  BY <1>2, <1>3, <1>5, Zenon

----------------------------------------------------------------------------
(* The numbers the kernel gives to the device nodes. *)

SameKind(d) == {e \in Device : Kind(driver[e]) = Kind(driver[d])}
InUse(d)    == {number[e] : e \in SameKind(d)}

\* When a driver probes a device one of the numbers is free: there are as many
\* as there are devices, and this one has none yet.
LEMMA FreeNumberIsFree ==
  ASSUME TypeOK, NEW d \in Device, number[d] = 0
  PROVE  /\ FreeNumber(d) \in 1..Len(Addresses)
         /\ \A e \in Device : Kind(driver[e]) = Kind(driver[d]) => number[e] # FreeNumber(d)
<1> DEFINE L == Len(Addresses)
           U == InUse(d)
           g == [i \in 1..L |-> IF Addresses[i] \in SameKind(d) THEN number[Addresses[i]] ELSE 0]
<1>0. L \in Nat /\ U \subseteq 0..L /\ 0 \in U
  <2>1. number \in [Device -> 0..L]
    BY DEF TypeOK
  <2>2. d \in SameKind(d) /\ SameKind(d) \subseteq Device
    BY DEF SameKind
  <2>3. L \in Nat
    BY DeviceAt
  <2>4. \A e \in SameKind(d) : number[e] \in 0..L
    BY <2>1, <2>2
  <2>5. U \subseteq 0..L
    BY <2>4, Zenon DEF InUse
  <2>6. 0 \in U
    BY <2>2, Zenon DEF InUse
  <2> QED
    BY <2>3, <2>5, <2>6
<1>1. g \in Surjection(1..L, U)
  <2>1. \A i \in 1..L : g[i] \in U
    BY <1>0, DeviceAt, Zenon DEF InUse
  <2>2. \A n \in U : \E i \in 1..L : g[i] = n
    <3> TAKE n \in U
    <3>1. PICK e \in SameKind(d) : n = number[e]
      BY Zenon DEF InUse
    <3>2. PICK i \in 1..L : Addresses[i] = e
      BY <3>1, DeviceAt DEF SameKind
    <3> QED
      BY <3>1, <3>2
  <2>3. g \in [1..L -> U]
    BY <2>1
  <2> QED
    BY <2>2, <2>3, Zenon DEF Surjection
<1>2. IsFiniteSet(1..L) /\ Cardinality(1..L) = L
  BY <1>0, Intervals
<1>3. IsFiniteSet(U) /\ Cardinality(U) <= L
  BY <1>1, <1>2, FS_Surjection
<1>4. (1..L) \ U # {}
  <2> SUFFICES ASSUME (1..L) \ U = {}
               PROVE  FALSE
    OBVIOUS
  <2>1. 0..L \in SUBSET U
    BY <1>0
  <2>2. Cardinality(0..L) <= Cardinality(U)
    BY <1>3, <2>1, FS_Subset
  <2>3. Cardinality(0..L) = L + 1
    BY <1>0, Intervals
  <2>4. Cardinality(U) \in Nat
    BY <1>3, FS_CardinalityType
  <2> QED
    BY <1>0, <1>3, <2>2, <2>3, <2>4
<1>5. FreeNumber(d) = Min((1..L) \ U)
  BY Zenon DEF FreeNumber, InUse, SameKind
<1>6. (1..L) \ U \subseteq Nat
  BY <1>0
<1>7. FreeNumber(d) \in (1..L) \ U
  BY <1>4, <1>5, <1>6, LeastNatural, Zenon
<1>8. \A e \in Device : Kind(driver[e]) = Kind(driver[d]) => number[e] \in U
  BY Zenon DEF InUse, SameKind
<1> QED
  BY <1>7, <1>8, Zenon

Before(f, d) ==
  {i \in DOMAIN Addresses :
     /\ f[Addresses[i]] # None /\ Kind(f[Addresses[i]]) = Kind(f[d])
     /\ \E j \in DOMAIN Addresses : i <= j /\ Addresses[j] = d}

\* At the start they are counted from 1, in the order of the addresses.
LEMMA NumberedApart ==
  ASSUME NEW f \in [Device -> Drivers \cup {None}]
  PROVE  /\ Numbered(f) \in [Device -> 0..Len(Addresses)]
         /\ \A d \in Device : f[d] = None => Numbered(f)[d] = 0
         /\ \A d, e \in Device :
              Numbered(f)[d] # 0 /\ Numbered(f)[d] = Numbered(f)[e] /\ Kind(f[d]) = Kind(f[e])
                => d = e
<1> DEFINE L == Len(Addresses)
<1>1. L \in Nat /\ IsFiniteSet(1..L) /\ Cardinality(1..L) = L /\ DOMAIN Addresses = 1..L
  <2>1. L \in Nat /\ DOMAIN Addresses = 1..L
    BY DeviceAt, Zenon
  <2> QED
    BY <2>1, Intervals
<1>2. \A d \in Device : Numbered(f)[d] = IF f[d] = None THEN 0 ELSE Cardinality(Before(f, d))
  BY Zenon DEF Numbered, Before
<1>3. \A d \in Device : /\ IsFiniteSet(Before(f, d))
                        /\ Cardinality(Before(f, d)) \in 0..L
  <2> TAKE d \in Device
  <2>1. Before(f, d) \in SUBSET (1..L)
    BY <1>1 DEF Before
  <2>2. IsFiniteSet(Before(f, d)) /\ Cardinality(Before(f, d)) <= L
    BY <1>1, <2>1, FS_Subset
  <2>3. Cardinality(Before(f, d)) \in Nat
    BY <2>2, FS_CardinalityType
  <2> QED
    BY <1>1, <2>2, <2>3
<1>4. Numbered(f) \in [Device -> 0..L]
  <2>1. \A d \in Device : Numbered(f)[d] \in 0..L
    BY <1>1, <1>2, <1>3
  <2>2. Numbered(f) = [d \in Device |-> Numbered(f)[d]]
    BY Zenon DEF Numbered
  <2> QED
    BY <2>1, <2>2
<1>5. ASSUME NEW d \in Device, NEW e \in Device, NEW i \in 1..L, NEW j \in 1..L,
             Addresses[i] = d, Addresses[j] = e, i < j,
             f[d] # None, f[e] # None, Kind(f[d]) = Kind(f[e])
      PROVE  Cardinality(Before(f, d)) # Cardinality(Before(f, e))
  <2>1. Before(f, d) \subseteq Before(f, e)
    <3> SUFFICES ASSUME NEW k \in Before(f, d) PROVE k \in Before(f, e)
      OBVIOUS
    <3>1. PICK m \in 1..L : k <= m /\ Addresses[m] = d
      BY <1>1 DEF Before
    <3>2. m = i
      BY <1>1, <1>5, <3>1, DeviceAt
    <3>3. k \in 1..L /\ k <= j
      BY <1>1, <1>5, <3>1, <3>2 DEF Before
    <3> QED
      BY <1>1, <1>5, <3>3 DEF Before
  <2>2. j \in Before(f, e)
    BY <1>1, <1>5 DEF Before
  <2>3. j \notin Before(f, d)
    <3> SUFFICES ASSUME j \in Before(f, d) PROVE FALSE
      OBVIOUS
    <3>1. PICK m \in 1..L : j <= m /\ Addresses[m] = d
      BY <1>1 DEF Before
    <3>2. m = i
      BY <1>1, <1>5, <3>1, DeviceAt
    <3> QED
      BY <1>1, <1>5, <3>1, <3>2
  <2> QED
    BY <1>3, <2>1, <2>2, <2>3, FS_Subset
<1>6. \A d, e \in Device :
        Numbered(f)[d] # 0 /\ Numbered(f)[d] = Numbered(f)[e] /\ Kind(f[d]) = Kind(f[e]) => d = e
  <2> SUFFICES ASSUME NEW d \in Device, NEW e \in Device, d # e,
                      Numbered(f)[d] # 0, Numbered(f)[d] = Numbered(f)[e],
                      Kind(f[d]) = Kind(f[e])
               PROVE  FALSE
    BY Zenon
  <2>1. PICK i \in 1..L : Addresses[i] = d
    BY <1>1, DeviceAt
  <2>2. PICK j \in 1..L : Addresses[j] = e
    BY <1>1, DeviceAt
  <2>3. i # j
    BY <2>1, <2>2
  <2>4. f[d] # None /\ f[e] # None
    BY <1>2
  <2>5. Cardinality(Before(f, d)) = Cardinality(Before(f, e))
    BY <1>2, <2>4
  <2>6. CASE i < j
    BY <1>5, <2>1, <2>2, <2>4, <2>5, <2>6
  <2>7. CASE j < i
    BY <1>5, <2>1, <2>2, <2>4, <2>5, <2>7
  <2> QED
    BY <1>1, <2>3, <2>6, <2>7
<1> QED
  BY <1>2, <1>4, <1>6, Zenon

----------------------------------------------------------------------------
(* The inductive invariant of the discovery of GPUs.                        *)

\* Only a GPU that is there has a driver, only one with a driver has a number, and
\* no two of a kind have the same one.
KernelInv ==
  /\ \A d \in Device : driver[d] # None => d \in present \cap IntelGpus
  /\ \A d \in Device : driver[d] = None => number[d] = 0
  /\ \A d, e \in Device :
       number[d] # 0 /\ number[d] = number[e] /\ Kind(driver[d]) = Kind(driver[e]) => d = e

\* The history has every device node there is. Nobody else had the node of a device
\* that did not change, since then.
HadInv ==
  phase # "wait" =>
    /\ \A d \in Device : number[d] # 0 => <<d, Kind(driver[d]), number[d]>> \in had
    /\ \A d \in Device \ touched, e \in Device :
         number[d] # 0 /\ <<e, Kind(driver[d]), number[d]>> \in had => e = d

\* What was read of a device, when it did not change meanwhile, is how it is.
Fits(info)   == /\ info.dev \in present \cap IntelGpus /\ info.driver = driver[info.dev]
                /\ info.driver \in Drm \/ info.dev \in KnownModels
Named(info)  == /\ info.number = number[info.dev]
                /\ info.driver = None \/ info.number # 0
Linked(info) == /\ info.vf <=> IsVf(info.dev)
                /\ info.vf => VfsOf[info.parent][info.index + 1] = info.dev
Counted(info) == info.maxVFs = IF info.dev \in AutoProbe THEN Len(VfsOf[info.dev]) ELSE 0
Owned(info)  == info.driver # None => <<info.dev, Kind(info.driver), info.number>> \in had

\* The device that is looked at, step by step.
AtInv ==
  at # None =>
    /\ phase = "pci" /\ at.memory = None
    /\ at.step # "store" => ~at.vf
    /\ at.step \in {"info", "names"} => at.number = 0
    /\ at.step \in {"sriov", "virtfn", "store"} => Owned(at)
    /\ at.step \in {"virtfn", "store"} => Counted(at)
    /\ at.step = "virtfn" => at.parent \in PFs /\ at.dev \notin PFs
    /\ at.dev \notin touched =>
         /\ at.dev \in present /\ at.driver = driver[at.dev]
         /\ at.step # "info" => Fits(at)
         /\ at.step \in {"sriov", "virtfn", "store"} => Named(at)
         /\ at.step = "virtfn" => at.dev \in Links(at.parent)
         /\ at.step = "store" => Linked(at)

\* The entries that are still to be looked at.
TodoInv ==
  /\ phase # "pci" => at = None /\ todo = {}
  /\ \A i \in todo : Addresses[i] \in present \cup touched

\* What has been stored.
StoredInv ==
  \A n \in DOMAIN devices :
    LET info == devices[n] IN
    /\ n = NameOf(info) /\ Owned(info) /\ Counted(info)
    /\ info.dev \notin touched => Fits(info) /\ Named(info) /\ Linked(info)

\* A device that did not change is still to be looked at, or is looked at, or is stored.
Reached(d) ==
  \/ \E i \in todo : Addresses[i] = d
  \/ at # None /\ at.dev = d
  \/ \E n \in DOMAIN devices : devices[n].dev = d

CompleteInv ==
  phase # "wait" =>
    \A d \in present \ touched :
      Usable(d) /\ (program.naming = "machine" \/ driver[d] \in Drm) => Reached(d)

\* The memory is the device's own when it did not change; when nothing changed none is
\* left unasked in the end.
MemoryInv ==
  /\ phase \in {"wait", "pci"} => \A n \in DOMAIN devices : devices[n].memory = None
  /\ phase = "wait" => devices = <<>>
  /\ \A n \in DOMAIN devices :
       devices[n].dev \notin touched => devices[n].memory \in {devices[n].dev, None}
  /\ phase \in {"memory", "done"} /\ touched = {} /\ program.privileged =>
       /\ \A n \in DOMAIN devices \ unasked :
            devices[n].driver \in Drm => devices[n].memory = devices[n].dev
       /\ phase = "done" => unasked = {}

GpuInv ==
  /\ TypeOK /\ KernelInv /\ HadInv /\ AtInv /\ TodoInv
  /\ StoredInv /\ CompleteInv /\ MemoryInv

----------------------------------------------------------------------------
(* The kernel and the administrator: a device that does not change stays what it was. *)

KernelTypes ==
  /\ present \subseteq Device /\ driver \in [Device -> Drivers \cup {None}]
  /\ number \in [Device -> 0..Len(Addresses)]
  /\ virtfn \in [PFs -> Nat] /\ \A p \in PFs : virtfn[p] <= Len(VfsOf[p])
  /\ touched \subseteq Device /\ changes \in 0..MaxChanges

DiscoTypes ==
  /\ program \in Programs /\ todo \subseteq DOMAIN Addresses /\ at \in Info \cup {None}
  /\ \A n \in DOMAIN devices : devices[n] \in Info
  /\ unasked \subseteq DOMAIN devices
  /\ phase \in {"wait", "pci", "memory", "done"}

LEMMA TypesSplit == TypeOK <=> KernelTypes /\ DiscoTypes
  BY DEF TypeOK, KernelTypes, DiscoTypes

Steady ==
  /\ touched \subseteq touched' /\ had \subseteq had'
  /\ \A d \in Device \ touched' :
       /\ driver'[d] = driver[d] /\ number'[d] = number[d]
       /\ d \in present' <=> d \in present
       /\ \A p \in PFs : d \in Links(p)' <=> d \in Links(p)

LEMMA Bounds == MaxChanges \in Nat /\ None \notin Drivers /\ None \notin Device
  BY DiscoveryAssumption, NoneAssumption

LEMMA UnbindKeeps ==
  ASSUME TypeOK, KernelInv, HadInv, NEW d \in Device, UnbindDriver(d)
  PROVE  KernelTypes' /\ KernelInv' /\ HadInv' /\ Steady
<1> USE DEF UnbindDriver, Change
<1>1. KernelTypes
  BY TypesSplit
<1>2. KernelTypes'
  BY <1>1, Bounds DEF KernelTypes
<1>3. KernelInv'
  BY <1>1 DEF KernelTypes, KernelInv
<1>4. HadInv'
  BY <1>1 DEF KernelTypes, HadInv, disco
<1>5. Steady
  BY <1>1 DEF KernelTypes, Steady, Links
<1> QED
  BY <1>2, <1>3, <1>4, <1>5

LEMMA BindKeeps ==
  ASSUME TypeOK, KernelInv, HadInv, NEW d \in Device, NEW drv \in Drivers, BindDriver(d, drv)
  PROVE  KernelTypes' /\ KernelInv' /\ HadInv' /\ Steady
<1> USE DEF BindDriver, Change
<1>1. KernelTypes
  BY TypesSplit
<1>2. KernelTypes'
  BY <1>1, Bounds DEF KernelTypes
<1>3. number[d] = 0
  BY DEF KernelInv
<1>4. KernelInv'
  BY <1>1, <1>3, Bounds DEF KernelTypes, KernelInv
<1>5. HadInv'
  BY <1>1, <1>3 DEF KernelTypes, HadInv, disco
<1>6. Steady
  BY <1>1 DEF KernelTypes, Steady, Links
<1> QED
  BY <1>2, <1>4, <1>5, <1>6

LEMMA ProbedKeeps ==
  ASSUME TypeOK, KernelInv, HadInv, NEW d \in Device, Probed(d)
  PROVE  KernelTypes' /\ KernelInv' /\ HadInv' /\ Steady
<1> USE DEF Probed
<1> DEFINE N == FreeNumber(d)
<1>1. KernelTypes
  BY TypesSplit
<1>2. /\ N \in 1..Len(Addresses)
      /\ \A e \in Device : Kind(driver[e]) = Kind(driver[d]) => number[e] # N
  BY FreeNumberIsFree
<1>3. /\ number' = [number EXCEPT ![d] = N] /\ had' = had \cup {<<d, Kind(driver[d]), N>>}
      /\ driver[d] # None /\ number[d] = 0 /\ touched' = touched \cup {d}
      /\ UNCHANGED <<present, driver, virtfn, disco, changes>>
  OBVIOUS
<1>4. Len(Addresses) \in Nat
  BY DeviceAt
<1> HIDE DEF N, Probed
<1>5. KernelTypes'
  BY <1>1, <1>2, <1>3, <1>4 DEF KernelTypes
<1>6. KernelInv'
  BY <1>1, <1>2, <1>3, <1>4 DEF KernelTypes, KernelInv
<1>7. HadInv'
  <2> SUFFICES ASSUME phase # "wait"
               PROVE  /\ \A e \in Device : number'[e] # 0 =>
                           <<e, Kind(driver[e]), number'[e]>> \in had'
                      /\ \A e \in Device \ touched', f \in Device :
                           number'[e] # 0 /\ <<f, Kind(driver[e]), number'[e]>> \in had' => f = e
    BY <1>3 DEF HadInv, disco
  <2>1. \A e \in Device : number'[e] # 0 => <<e, Kind(driver[e]), number'[e]>> \in had'
    BY <1>1, <1>3 DEF HadInv, KernelTypes
  <2>2. ASSUME NEW e \in Device \ touched', NEW f \in Device,
               number'[e] # 0, <<f, Kind(driver[e]), number'[e]>> \in had'
        PROVE  f = e
    <3>1. e # d /\ e \in Device \ touched /\ number'[e] = number[e]
      BY <1>1, <1>3, <2>2 DEF KernelTypes
    <3>2. CASE <<f, Kind(driver[e]), number[e]>> \in had
      BY <2>2, <3>1, <3>2 DEF HadInv
    <3>3. CASE <<f, Kind(driver[e]), number[e]>> = <<d, Kind(driver[d]), N>>
      BY <1>2, <3>1, <3>3
    <3> QED
      BY <1>3, <2>2, <3>1, <3>2, <3>3
  <2> QED
    BY <2>1, <2>2, Zenon
<1>8. Steady
  BY <1>1, <1>3 DEF KernelTypes, Steady, Links
<1> QED
  BY <1>5, <1>6, <1>7, <1>8

LEMMA AddVfKeeps ==
  ASSUME TypeOK, KernelInv, HadInv, NEW p \in PFs, AddVf(p)
  PROVE  KernelTypes' /\ KernelInv' /\ HadInv' /\ Steady
<1> DEFINE v == VfsOf[p][virtfn[p] + 1]
<1>1. KernelTypes
  BY TypesSplit
<1>2. virtfn[p] + 1 \in 1..Len(VfsOf[p])
  BY <1>1, VfsAt DEF AddVf, KernelTypes
<1>3. v \in Device
  BY <1>2, VfsAt
<1>4. /\ v \notin present /\ present' = present \cup {v} /\ touched' = touched \cup {v}
      /\ changes < MaxChanges /\ changes' = changes + 1
      /\ UNCHANGED <<driver, number, virtfn, had, disco>>
  BY DEF AddVf, Change
<1> HIDE DEF v
<1>5. KernelTypes'
  BY <1>1, <1>3, <1>4, Bounds DEF KernelTypes
<1>6. KernelInv'
  BY <1>4 DEF KernelInv
<1>7. HadInv'
  BY <1>4 DEF HadInv, disco
<1>8. Steady
  BY <1>1, <1>3, <1>4 DEF KernelTypes, Steady, Links
<1> QED
  BY <1>5, <1>6, <1>7, <1>8

LEMMA LinkVfKeeps ==
  ASSUME TypeOK, KernelInv, HadInv, NEW p \in PFs, LinkVf(p)
  PROVE  KernelTypes' /\ KernelInv' /\ HadInv' /\ Steady
<1> DEFINE k == virtfn[p] + 1
           v == VfsOf[p][k]
<1>1. KernelTypes
  BY TypesSplit
<1>2. k \in 1..Len(VfsOf[p])
  BY <1>1, VfsAt DEF LinkVf, KernelTypes
<1>3. v \in Device
  BY <1>2, VfsAt
<1>4. /\ touched' = touched \cup {v} /\ virtfn' = [virtfn EXCEPT ![p] = k]
      /\ UNCHANGED <<present, driver, number, had, disco, changes>>
  BY DEF LinkVf
<1>5. KernelTypes'
  BY <1>1, <1>2, <1>3, <1>4 DEF KernelTypes
<1>6. KernelInv'
  BY <1>4 DEF KernelInv
<1>7. HadInv'
  BY <1>4 DEF HadInv, disco
<1>8. \A d \in Device \ touched' : \A q \in PFs : d \in Links(q)' <=> d \in Links(q)
  <2> TAKE d \in Device \ touched'
  <2> TAKE q \in PFs
  <2>1. d # v
    BY <1>4
  <2>2. CASE q # p
    <3>1. virtfn'[q] = virtfn[q]
      BY <1>1, <1>4, <2>2 DEF KernelTypes
    <3> QED
      BY <3>1 DEF Links
  <2>3. CASE q = p
    <3>1. virtfn'[p] = virtfn[p] + 1 /\ virtfn[p] \in Nat
      BY <1>1, <1>4 DEF KernelTypes
    <3>2. 1..virtfn'[p] = (1..virtfn[p]) \cup {k}
      BY <3>1
    <3> QED
      BY <2>1, <2>3, <3>2 DEF Links
  <2> QED
    BY <2>2, <2>3
<1>9. Steady
  BY <1>4, <1>8 DEF Steady
<1> QED
  BY <1>5, <1>6, <1>7, <1>9

LEMMA DisableKeeps ==
  ASSUME TypeOK, KernelInv, HadInv, NEW p \in PFs, DisableVfs(p)
  PROVE  KernelTypes' /\ KernelInv' /\ HadInv' /\ Steady
<1> DEFINE V == Range(VfsOf[p])
<1>1. KernelTypes
  BY TypesSplit
<1>2. V \subseteq Device
  <2>1. \A d \in V : \E i \in 1..Len(VfsOf[p]) : d = VfsOf[p][i]
    BY VfsAt, Zenon
  <2>2. \A i \in 1..Len(VfsOf[p]) : VfsOf[p][i] \in Device
    BY VfsAt, Zenon
  <2> QED
    BY <2>1, <2>2, Zenon
<1>3. /\ touched' = touched \cup V /\ present' = present \ V
      /\ driver' = [d \in Device |-> IF d \in V THEN None ELSE driver[d]]
      /\ number' = [d \in Device |-> IF d \in V THEN 0 ELSE number[d]]
      /\ virtfn' = [virtfn EXCEPT ![p] = 0]
      /\ changes < MaxChanges /\ changes' = changes + 1
      /\ UNCHANGED <<had, disco>>
  BY DEF DisableVfs
<1>4. V \cap Links(p) = Links(p)
  BY LinksOf
<1> HIDE DEF V
<1>5. KernelTypes'
  <2>1. Len(VfsOf[p]) \in Nat /\ Len(Addresses) \in Nat
    BY VfsAt, DeviceAt
  <2> QED
    BY <1>1, <1>2, <1>3, <2>1, Bounds DEF KernelTypes
<1>6. KernelInv'
  BY <1>1, <1>3 DEF KernelInv, KernelTypes
<1>7. HadInv'
  BY <1>1, <1>3 DEF HadInv, disco, KernelTypes
<1>8. \A d \in Device \ touched' : \A q \in PFs : d \in Links(q)' <=> d \in Links(q)
  <2> TAKE d \in Device \ touched'
  <2> TAKE q \in PFs
  <2>1. d \notin V
    BY <1>3
  <2>2. CASE q # p
    <3>1. virtfn'[q] = virtfn[q]
      BY <1>1, <1>3, <2>2 DEF KernelTypes
    <3> QED
      BY <3>1 DEF Links
  <2>3. CASE q = p
    <3>1. virtfn'[p] = 0
      BY <1>1, <1>3 DEF KernelTypes
    <3>2. Links(p)' = {}
      BY <3>1 DEF Links
    <3> QED
      BY <1>4, <2>1, <2>3, <3>2
  <2> QED
    BY <2>2, <2>3
<1>9. Steady
  BY <1>3, <1>8 DEF Steady
<1> QED
  BY <1>5, <1>6, <1>7, <1>9

----------------------------------------------------------------------------
(* What was read and stored stays right when a step of the kernel leaves the *)
(* devices that did not change as they are.                                  *)

LEMMA SteadyOf ==
  ASSUME Steady, NEW d \in Device, d \notin touched'
  PROVE  /\ d \notin touched
         /\ d \in present' <=> d \in present
         /\ driver'[d] = driver[d] /\ number'[d] = number[d]
         /\ IsVf(d)' <=> IsVf(d)
         /\ \A p \in PFs : d \in Links(p)' <=> d \in Links(p)
  BY DEF Steady, IsVf

LEMMA SteadyAt ==
  ASSUME TypeOK, AtInv, TodoInv, Steady, UNCHANGED disco
  PROVE  AtInv' /\ TodoInv'
<1>1. at' = at /\ phase' = phase /\ todo' = todo /\ had \subseteq had' /\ touched \subseteq touched'
  BY DEF disco, Steady
<1>2. AtInv'
  <2> SUFFICES ASSUME at # None PROVE AtInv'
    BY <1>1 DEF AtInv
  <2>1. at \in Info
    BY DEF TypeOK
  <2>2. at.dev \in Device
    BY <2>1 DEF Info
  <2>3. /\ phase = "pci" /\ at.memory = None
        /\ at.step # "store" => ~at.vf
        /\ at.step \in {"info", "names"} => at.number = 0
        /\ at.step \in {"virtfn", "store"} => Counted(at)
        /\ at.step = "virtfn" => at.parent \in PFs /\ at.dev \notin PFs
    BY DEF AtInv
  <2>4. Counted(at)' <=> Counted(at)
    BY <1>1 DEF Counted
  <2>5. at.step \in {"sriov", "virtfn", "store"} => Owned(at)'
    BY <1>1 DEF AtInv, Owned
  <2>6. ASSUME at.dev \notin touched'
        PROVE  /\ at.dev \in present' /\ at.driver = driver'[at.dev]
               /\ at.step # "info" => Fits(at)'
               /\ at.step \in {"sriov", "virtfn", "store"} => Named(at)'
               /\ at.step = "virtfn" => at.dev \in Links(at.parent)'
               /\ at.step = "store" => Linked(at)'
    <3>1. /\ at.dev \notin touched
          /\ at.dev \in present' <=> at.dev \in present
          /\ driver'[at.dev] = driver[at.dev] /\ number'[at.dev] = number[at.dev]
          /\ IsVf(at.dev)' <=> IsVf(at.dev)
          /\ \A p \in PFs : at.dev \in Links(p)' <=> at.dev \in Links(p)
      BY <1>1, <2>2, <2>6, SteadyOf
    <3>2. /\ Fits(at) => Fits(at)'
          /\ Named(at) => Named(at)'
          /\ Linked(at) => Linked(at)'
      BY <1>1, <3>1 DEF Fits, Named, Linked
    <3>3. /\ at.dev \in present /\ at.driver = driver[at.dev]
          /\ at.step # "info" => Fits(at)
          /\ at.step \in {"sriov", "virtfn", "store"} => Named(at)
          /\ at.step = "virtfn" => at.dev \in Links(at.parent)
          /\ at.step = "store" => Linked(at)
      BY <3>1 DEF AtInv
    <3> QED
      BY <1>1, <2>3, <3>1, <3>2, <3>3
  <2> QED
    BY <1>1, <2>3, <2>4, <2>5, <2>6 DEF AtInv
<1>3. TodoInv'
  <2>1. ASSUME NEW i \in todo, Addresses[i] \notin touched'
        PROVE  Addresses[i] \in present'
    <3>1. Addresses[i] \in Device
      BY DeviceAt DEF TypeOK
    <3>2. Addresses[i] \in present
      BY <1>1, <2>1 DEF TodoInv
    <3> QED
      BY <2>1, <3>1, <3>2, SteadyOf
  <2> QED
    BY <1>1, <2>1 DEF TodoInv
<1> QED
  BY <1>2, <1>3

LEMMA SteadyStored ==
  ASSUME TypeOK, StoredInv, CompleteInv, MemoryInv, Steady, KernelTypes', UNCHANGED disco
  PROVE  StoredInv' /\ CompleteInv' /\ MemoryInv'
<1>1. /\ had \subseteq had' /\ touched \subseteq touched'
      /\ UNCHANGED <<program, todo, at, devices, unasked, phase>>
  BY DEF disco, Steady
<1>2. StoredInv'
  <2> SUFFICES ASSUME NEW n \in DOMAIN devices
               PROVE  /\ n = NameOf(devices[n])' /\ Owned(devices[n])' /\ Counted(devices[n])'
                      /\ devices[n].dev \notin touched' =>
                           Fits(devices[n])' /\ Named(devices[n])' /\ Linked(devices[n])'
    BY <1>1 DEF StoredInv
  <2>1. devices[n].dev \in Device
    BY DEF TypeOK, Info
  <2>2. n = NameOf(devices[n]) /\ Owned(devices[n]) /\ Counted(devices[n])
    BY DEF StoredInv
  <2>3. n = NameOf(devices[n])' /\ Owned(devices[n])' /\ Counted(devices[n])'
    BY <1>1, <2>2 DEF NameOf, Owned, Counted
  <2>4. ASSUME devices[n].dev \notin touched'
        PROVE  Fits(devices[n])' /\ Named(devices[n])' /\ Linked(devices[n])'
    <3> DEFINE d == devices[n].dev
    <3>1. /\ d \notin touched
          /\ d \in present' <=> d \in present
          /\ driver'[d] = driver[d] /\ number'[d] = number[d]
          /\ IsVf(d)' <=> IsVf(d)
      <4>1. d \in Device /\ d \notin touched' /\ d' = d
        BY <1>1, <2>1, <2>4
      <4> QED
        BY <1>1, <4>1, SteadyOf DEF IsVf
    <3>2. Fits(devices[n]) /\ Named(devices[n]) /\ Linked(devices[n])
      BY <3>1 DEF StoredInv
    <3> QED
      BY <1>1, <3>1, <3>2 DEF Fits, Named, Linked
  <2> QED
    BY <2>3, <2>4
<1>3. CompleteInv'
  <2> SUFFICES ASSUME phase # "wait", NEW d \in Device, d \in present', d \notin touched',
                      Usable(d)', program.naming = "machine" \/ driver'[d] \in Drm
               PROVE  Reached(d)'
    BY <1>1 DEF CompleteInv, KernelTypes
  <2>1. /\ d \notin touched /\ d \in present
        /\ driver'[d] = driver[d] /\ number'[d] = number[d]
    BY SteadyOf
  <2>2. Usable(d)
    BY <2>1 DEF Usable
  <2>3. Reached(d)
    BY <2>1, <2>2 DEF CompleteInv
  <2> QED
    BY <1>1, <2>3 DEF Reached
<1>4. MemoryInv'
  BY <1>1 DEF MemoryInv
<1> QED
  BY <1>2, <1>3, <1>4

----------------------------------------------------------------------------
(* The readings, which leave the kernel as it is. *)

Same == UNCHANGED <<present, driver, number, virtfn, program, touched, had, changes>>

LEMMA SameKernel ==
  ASSUME TypeOK, KernelInv, HadInv, Same, phase = "wait" <=> phase' = "wait"
  PROVE  KernelTypes' /\ KernelInv' /\ HadInv'
<1> USE DEF Same
<1>1. KernelTypes'
  BY TypesSplit DEF KernelTypes
<1>2. KernelInv'
  BY DEF KernelInv
<1>3. HadInv'
  BY DEF HadInv
<1> QED
  BY <1>1, <1>2, <1>3

\* What is not stored again stays as it was.
LEMMA SameStored ==
  ASSUME StoredInv, Same, UNCHANGED devices
  PROVE  StoredInv'
<1> USE DEF Same
<1>1. \A d : IsVf(d)' <=> IsVf(d)
  BY DEF IsVf, Links
<1>2. StoredInv'
  <2> SUFFICES ASSUME NEW n \in DOMAIN devices
               PROVE  /\ n = NameOf(devices[n])' /\ Owned(devices[n])' /\ Counted(devices[n])'
                      /\ devices[n].dev \notin touched' =>
                           Fits(devices[n])' /\ Named(devices[n])' /\ Linked(devices[n])'
    BY DEF StoredInv
  <2>1. /\ n = NameOf(devices[n]) /\ Owned(devices[n]) /\ Counted(devices[n])
        /\ devices[n].dev \notin touched =>
             Fits(devices[n]) /\ Named(devices[n]) /\ Linked(devices[n])
    BY DEF StoredInv
  <2>2. n = NameOf(devices[n])' /\ Owned(devices[n])' /\ Counted(devices[n])'
    BY <2>1 DEF NameOf, Owned, Counted
  <2>3. devices[n].dev \notin touched' => Fits(devices[n])' /\ Named(devices[n])'
    BY <2>1 DEF Fits, Named
  <2>4. devices[n].dev \notin touched' => Linked(devices[n])'
    BY <1>1, <2>1 DEF Linked
  <2> QED
    BY <2>2, <2>3, <2>4
<1> QED
  BY <1>2

LEMMA SameMemory ==
  ASSUME MemoryInv, Same, UNCHANGED <<devices, phase, unasked>>
  PROVE  MemoryInv'
  BY DEF MemoryInv, Same

\* Only a device that changed, or that cannot be used, may be given up.
LEMMA SameComplete ==
  ASSUME CompleteInv, Same, phase # "wait",
         \A d \in present \ touched :
           /\ Usable(d) /\ (program.naming = "machine" \/ driver[d] \in Drm)
           /\ Reached(d)
           => Reached(d)'
  PROVE  CompleteInv'
  BY DEF CompleteInv, Same, Usable

LEMMA BeginKeeps ==
  ASSUME GpuInv, Begin
  PROVE  GpuInv'
<1> USE DEF Begin, sysfs
<1>1. KernelTypes /\ DiscoTypes /\ KernelInv /\ TodoInv /\ MemoryInv
  BY TypesSplit DEF GpuInv
<1>2. TypeOK'
  <2>1. KernelTypes' /\ DiscoTypes'
    BY <1>1 DEF KernelTypes, DiscoTypes
  <2> QED
    BY <2>1, TypesSplit, PTL
<1>3. KernelInv'
  BY <1>1 DEF KernelInv
<1>4. HadInv'
  <2>1. had' = {<<d, Kind(driver[d]), number[d]>> : d \in {e \in Device : number[e] # 0}}
    OBVIOUS
  <2>2. \A d \in Device : number[d] # 0 => <<d, Kind(driver[d]), number[d]>> \in had'
    BY <2>1
  <2>3. ASSUME NEW d \in Device, NEW e \in Device, number[d] # 0,
               <<e, Kind(driver[d]), number[d]>> \in had'
        PROVE  e = d
    <3>1. PICK f \in Device : /\ number[f] # 0
                              /\ <<e, Kind(driver[d]), number[d]>> = <<f, Kind(driver[f]), number[f]>>
      BY <2>1, <2>3
    <3>2. f = e /\ Kind(driver[d]) = Kind(driver[f]) /\ number[d] = number[f]
      BY <3>1
    <3> QED
      BY <1>1, <2>3, <3>2 DEF KernelInv
  <2> QED
    BY <2>2, <2>3 DEF HadInv
<1>5. at = None /\ at' = None /\ devices = <<>> /\ devices' = <<>>
  BY <1>1 DEF TodoInv, MemoryInv
<1>6. AtInv'
  BY <1>5 DEF AtInv
<1>7. TodoInv'
  BY <1>5 DEF TodoInv
<1>8. DOMAIN devices' = {}
  BY <1>5
<1>9. StoredInv'
  BY <1>8 DEF StoredInv
<1>10. CompleteInv'
  <2> SUFFICES ASSUME NEW d \in present, Usable(d)
               PROVE  \E i \in todo' : Addresses[i] = d
    BY DEF CompleteInv, Usable, Reached
  <2>1. d \in Device
    BY <1>1 DEF KernelTypes
  <2> QED
    BY <2>1, DeviceAt
<1>11. MemoryInv'
  BY <1>8 DEF MemoryInv
<1> QED
  BY <1>2, <1>3, <1>4, <1>6, <1>7, <1>9, <1>10, <1>11 DEF GpuInv

LEMMA EnvIsSame ==
  ASSUME Env PROVE Same /\ sysfs' = sysfs /\ UNCHANGED <<program, touched, had, changes>>
  BY DEF Env, Same, sysfs

LEMMA ReadDriverKeeps ==
  ASSUME GpuInv, ReadDriver
  PROVE  GpuInv'
<1>1. /\ TypeOK /\ KernelTypes /\ DiscoTypes /\ KernelInv /\ HadInv /\ TodoInv
      /\ StoredInv /\ CompleteInv /\ MemoryInv
  BY TypesSplit DEF GpuInv
<1>2. Same /\ phase = "pci" /\ at = None /\ UNCHANGED <<devices, unasked, phase>>
  BY EnvIsSame DEF ReadDriver
<1>3. PICK i \in FirstIn(todo) :
        /\ todo' = todo \ {i}
        /\ at' = [dev |-> Addresses[i], step |-> "info", driver |-> driver[Addresses[i]],
                  number |-> 0, maxVFs |-> 0, vf |-> FALSE, parent |-> None,
                  index |-> 0, memory |-> None]
  BY Zenon DEF ReadDriver
<1>4. i \in todo /\ Addresses[i] \in Device
  BY <1>1, <1>3, DeviceAt DEF FirstIn, DiscoTypes
<1>5. at' \in Info /\ at' # None
  <2>1. 0 \in 0..Len(Addresses) /\ 0 \in VfIndices
    BY DeviceAt DEF VfIndices
  <2>2. driver[Addresses[i]] \in Drivers \cup {None}
    BY <1>1, <1>4 DEF KernelTypes
  <2>3. at' \in Info
    BY <1>3, <1>4, <2>1, <2>2 DEF Info
  <2> QED
    BY <2>3, NoneAssumption
<1>6. KernelTypes' /\ KernelInv' /\ HadInv'
  BY <1>1, <1>2, SameKernel
<1>7. TypeOK'
  <2>1. DiscoTypes'
    BY <1>1, <1>2, <1>3, <1>5 DEF DiscoTypes, Same
  <2> QED
    BY <1>6, <2>1, TypesSplit, PTL
<1>8. AtInv'
  <2>1. /\ at'.dev = Addresses[i] /\ at'.step = "info" /\ at'.memory = None
        /\ at'.driver = driver[Addresses[i]] /\ at'.vf = FALSE /\ at'.number = 0
    BY <1>3
  <2>2. Addresses[i] \in present \cup touched
    BY <1>1, <1>4 DEF TodoInv
  <2> QED
    BY <1>2, <2>1, <2>2 DEF AtInv, Same
<1>9. TodoInv'
  BY <1>1, <1>2, <1>3 DEF TodoInv, Same
<1>10. StoredInv' /\ MemoryInv'
  BY <1>1, <1>2, SameStored, SameMemory
<1>11. CompleteInv'
  <2>1. ASSUME NEW d, Reached(d)
        PROVE  Reached(d)'
    BY <1>2, <1>3, <1>5, <2>1 DEF Reached
  <2> QED
    BY <1>1, <1>2, <2>1, SameComplete
<1> QED
  BY <1>6, <1>7, <1>8, <1>9, <1>10, <1>11 DEF GpuInv

\* A step that only changes what is known of the device that is looked at.
LEMMA LookKeeps ==
  ASSUME GpuInv, Look, Env, UNCHANGED <<devices, todo, unasked, phase>>,
         at' \in Info, at'.dev = at.dev, AtInv'
  PROVE  GpuInv'
<1>1. /\ TypeOK /\ KernelTypes /\ DiscoTypes /\ KernelInv /\ HadInv /\ TodoInv
      /\ StoredInv /\ CompleteInv /\ MemoryInv
  BY TypesSplit DEF GpuInv
<1>2. Same /\ phase = "pci" /\ at # None /\ at' # None
  BY EnvIsSame, NoneAssumption DEF Look
<1>3. KernelTypes' /\ KernelInv' /\ HadInv'
  BY <1>1, <1>2, SameKernel
<1>4. TypeOK'
  <2>1. DiscoTypes'
    BY <1>1, <1>2 DEF DiscoTypes, Same
  <2> QED
    BY <1>3, <2>1, TypesSplit, PTL
<1>5. TodoInv'
  BY <1>1, <1>2 DEF TodoInv, Same
<1>6. StoredInv' /\ MemoryInv'
  BY <1>1, <1>2, SameStored, SameMemory
<1>7. CompleteInv'
  <2>1. ASSUME NEW d, Reached(d)
        PROVE  Reached(d)'
    BY <1>2, <2>1 DEF Reached
  <2> QED
    BY <1>1, <1>2, <2>1, SameComplete
<1> QED
  BY <1>3, <1>4, <1>5, <1>6, <1>7 DEF GpuInv

\* A device is only given up when it changed or is not one that can be used.
LEMMA IgnoreKeeps ==
  ASSUME GpuInv, Look, Env, Ignore, at.dev \in touched \/ ~Usable(at.dev)
  PROVE  GpuInv'
<1>1. /\ TypeOK /\ KernelTypes /\ DiscoTypes /\ KernelInv /\ HadInv /\ TodoInv
      /\ StoredInv /\ CompleteInv /\ MemoryInv
  BY TypesSplit DEF GpuInv
<1>2. Same /\ phase = "pci" /\ at' = None /\ UNCHANGED <<devices, todo, unasked, phase>>
  BY EnvIsSame DEF Look, Ignore
<1>3. KernelTypes' /\ KernelInv' /\ HadInv'
  BY <1>1, <1>2, SameKernel
<1>4. TypeOK'
  <2>1. DiscoTypes'
    BY <1>1, <1>2 DEF DiscoTypes, Same
  <2> QED
    BY <1>3, <2>1, TypesSplit, PTL
<1>5. AtInv'
  BY <1>2 DEF AtInv
<1>6. TodoInv'
  BY <1>1, <1>2 DEF TodoInv, Same
<1>7. StoredInv' /\ MemoryInv'
  BY <1>1, <1>2, SameStored, SameMemory
<1>8. CompleteInv'
  <2>1. ASSUME NEW d \in present \ touched, Usable(d), Reached(d)
        PROVE  Reached(d)'
    <3>1. ~(at # None /\ at.dev = d)
      BY <2>1
    <3> QED
      BY <1>2, <2>1, <3>1 DEF Reached
  <2> QED
    BY <1>1, <1>2, <2>1, SameComplete
<1> QED
  BY <1>3, <1>4, <1>5, <1>6, <1>7, <1>8 DEF GpuInv

LEMMA ReadInfoKeeps ==
  ASSUME GpuInv, ReadInfo
  PROVE  GpuInv'
<1>1. TypeOK /\ AtInv
  BY DEF GpuInv
<1>2. Look /\ at.step = "info" /\ Env /\ at # None /\ at \in Info
  BY <1>1 DEF ReadInfo, Look, TypeOK
<1>3. CASE /\ at.dev \in present \cap IntelGpus
           /\ at.driver \in Drm \/ at.dev \in KnownModels
  <2>1. at' = [at EXCEPT !.step = "names"] /\ UNCHANGED <<devices, todo, unasked, phase>>
    BY <1>3 DEF ReadInfo
  <2>2. /\ at' \in Info /\ at'.dev = at.dev /\ at'.step = "names" /\ at'.vf = at.vf
        /\ at'.number = at.number /\ at'.driver = at.driver /\ at'.memory = at.memory
    BY <1>2, <2>1 DEF Info
  <2>3. AtInv'
    BY <1>1, <1>2, <1>3, <2>1, <2>2 DEF AtInv, Env, sysfs, Fits
  <2> QED
    BY <1>2, <2>1, <2>2, <2>3, LookKeeps
<1>4. CASE ~ (/\ at.dev \in present \cap IntelGpus
              /\ at.driver \in Drm \/ at.dev \in KnownModels)
  <2>1. Ignore
    BY <1>4 DEF ReadInfo
  <2>2. at.dev \in touched \/ ~Usable(at.dev)
    BY <1>1, <1>2, <1>4 DEF AtInv, Usable
  <2> QED
    BY <1>2, <2>1, <2>2, IgnoreKeeps
<1> QED
  BY <1>3, <1>4, Zenon

LEMMA ReadNamesKeeps ==
  ASSUME GpuInv, ReadNames
  PROVE  GpuInv'
<1>1. TypeOK /\ AtInv /\ KernelInv /\ HadInv
  BY DEF GpuInv
<1>2. /\ Look /\ at.step = "names" /\ Env /\ at # None /\ at \in Info
      /\ at.dev \in Device /\ phase = "pci"
  BY <1>1 DEF ReadNames, Look, TypeOK, Info
<1>3. CASE at.driver = None
  <2>1. at' = [at EXCEPT !.step = "sriov"] /\ UNCHANGED <<devices, todo, unasked, phase>>
    BY <1>3 DEF ReadNames
  <2>2. /\ at' \in Info /\ at'.dev = at.dev /\ at'.step = "sriov" /\ at'.vf = at.vf
        /\ at'.driver = at.driver /\ at'.memory = at.memory /\ at'.number = at.number
    BY <1>2, <2>1 DEF Info
  <2>3. at.dev \notin touched => Fits(at) /\ number[at.dev] = 0
    BY <1>1, <1>2, <1>3 DEF AtInv, KernelInv, Fits
  <2>4. at.number = 0
    BY <1>1, <1>2 DEF AtInv
  <2>5. AtInv'
    BY <1>1, <1>2, <1>3, <2>1, <2>2, <2>3, <2>4
       DEF AtInv, Env, sysfs, Fits, Named, Owned
  <2> QED
    BY <1>2, <2>1, <2>2, <2>5, LookKeeps
<1>4. CASE at.driver # None /\ HasNames(at.dev, at.driver)
  <2>1. /\ at' = [at EXCEPT !.step = "sriov", !.number = number[at.dev]]
        /\ UNCHANGED <<devices, todo, unasked, phase>>
    BY <1>4 DEF ReadNames
  <2>2. number[at.dev] \in 0..Len(Addresses)
    BY <1>1, <1>2 DEF TypeOK
  <2>3. /\ at' \in Info /\ at'.dev = at.dev /\ at'.step = "sriov" /\ at'.vf = at.vf
        /\ at'.driver = at.driver /\ at'.memory = at.memory /\ at'.number = number[at.dev]
    BY <1>2, <2>1, <2>2 DEF Info
  <2>4. number[at.dev] # 0 /\ Kind(driver[at.dev]) = Kind(at.driver)
    BY <1>4 DEF HasNames
  <2>5. <<at.dev, Kind(at.driver), number[at.dev]>> \in had
    BY <1>1, <1>2, <2>4 DEF HadInv
  <2>6. AtInv'
    BY <1>1, <1>2, <1>4, <2>1, <2>3, <2>4, <2>5
       DEF AtInv, Env, sysfs, Fits, Named, Owned
  <2> QED
    BY <1>2, <2>1, <2>3, <2>6, LookKeeps
<1>5. CASE at.driver # None /\ ~HasNames(at.dev, at.driver)
  <2>1. Ignore
    BY <1>5 DEF ReadNames
  <2>2. at.dev \in touched \/ ~Usable(at.dev)
    BY <1>1, <1>2, <1>5 DEF AtInv, Usable, HasNames
  <2> QED
    BY <1>2, <2>1, <2>2, IgnoreKeeps
<1> QED
  BY <1>3, <1>4, <1>5, Zenon

LEMMA ReadSriovKeeps ==
  ASSUME GpuInv, ReadSriov
  PROVE  GpuInv'
<1> DEFINE step == IF at.dev \notin PFs /\ IsVf(at.dev) THEN "virtfn" ELSE "store"
           maxVFs == IF at.dev \in AutoProbe THEN Len(VfsOf[at.dev]) ELSE 0
           parent == IF IsVf(at.dev) THEN CHOOSE p \in PFs : at.dev \in Links(p) ELSE None
<1>1. TypeOK /\ AtInv
  BY DEF GpuInv
<1>2. /\ Look /\ at.step = "sriov" /\ Env /\ at # None /\ at \in Info
      /\ at.dev \in Device /\ phase = "pci"
  BY <1>1 DEF ReadSriov, Look, TypeOK, Info
<1>3. /\ at' = [at EXCEPT !.step = step, !.maxVFs = maxVFs, !.parent = parent]
      /\ UNCHANGED <<devices, todo, unasked, phase>>
  BY DEF ReadSriov
<1>4. maxVFs \in Nat
  BY DiscoveryAssumption, VfsAt
<1>5. /\ IsVf(at.dev) => parent \in PFs /\ at.dev \in Links(parent)
      /\ parent \in PFs \cup {None}
  BY Zenon DEF IsVf
<1>6. IsVf(at.dev) => at.dev \notin PFs
  BY <1>1, <1>5, LinksOf
<1>7. step \in {"virtfn", "store"} /\ (step = "virtfn" <=> IsVf(at.dev))
  BY <1>6
<1> HIDE DEF step, maxVFs, parent
<1>8. /\ at' \in Info /\ at'.dev = at.dev /\ at'.step = step /\ at'.vf = at.vf
      /\ at'.driver = at.driver /\ at'.memory = at.memory /\ at'.number = at.number
      /\ at'.maxVFs = maxVFs /\ at'.parent = parent
  BY <1>2, <1>3, <1>4, <1>5, <1>7 DEF Info
<1>9. ~at'.vf
  BY <1>1, <1>2, <1>8 DEF AtInv
<1>10. Owned(at)' /\ Counted(at)'
  BY <1>1, <1>2, <1>8 DEF AtInv, Owned, Counted, Env, maxVFs
<1>11. /\ present' = present /\ touched' = touched /\ driver' = driver
       /\ \A p : Links(p)' = Links(p)
       /\ IsVf(at.dev)' <=> IsVf(at.dev)
  <2>1. virtfn' = virtfn /\ present' = present /\ touched' = touched /\ driver' = driver
    BY <1>2 DEF Env, sysfs
  <2>2. \A p : Links(p)' = Links(p)
    BY <2>1 DEF Links
  <2> QED
    BY <1>8, <2>1, <2>2 DEF IsVf
<1>12. ASSUME at.dev \notin touched
       PROVE  /\ Fits(at)' /\ Named(at)'
              /\ step = "virtfn" => (at.dev \in Links(at.parent))'
              /\ step = "store" => Linked(at)'
  <2>1. Fits(at)' /\ Named(at)'
    BY <1>1, <1>2, <1>8, <1>12 DEF AtInv, Fits, Named, Env, sysfs
  <2>2. (at.dev \in Links(at.parent))' <=> at.dev \in Links(parent)
    BY <1>8, <1>11 DEF Links
  <2>3. step = "store" => ~IsVf(at.dev)
    BY <1>7
  <2>4. step = "store" => Linked(at)'
    BY <1>9, <1>11, <2>3 DEF Linked
  <2> QED
    BY <1>5, <1>7, <2>1, <2>2, <2>4
<1>13. AtInv'
  <2>1. at'.dev \in present \/ at'.dev \in touched
    BY <1>1, <1>2, <1>8 DEF AtInv
  <2>3. at'.dev \notin touched => at'.driver = driver[at'.dev]
    BY <1>1, <1>2, <1>8 DEF AtInv
  <2>4. at'.memory = None
    BY <1>1, <1>2, <1>8 DEF AtInv
  <2> QED
    BY <1>2, <1>3, <1>5, <1>6, <1>7, <1>8, <1>9, <1>10, <1>11, <1>12, <2>1, <2>3, <2>4
       DEF AtInv
<1> QED
  BY <1>2, <1>3, <1>8, <1>13, LookKeeps

LEMMA ReadVirtfnKeeps ==
  ASSUME GpuInv, ReadVirtfn
  PROVE  GpuInv'
<1> DEFINE found == VfIndex(at.parent, at.dev)
           index == IF found = {} THEN 0 ELSE Min(found)
           parent == IF found = {} THEN None ELSE at.parent
           vf == found # {}
<1>1. TypeOK /\ AtInv
  BY DEF GpuInv
<1>2. /\ Look /\ at.step = "virtfn" /\ Env /\ at # None /\ at \in Info
      /\ at.dev \in Device /\ phase = "pci" /\ at.parent \in PFs
  BY <1>1 DEF ReadVirtfn, Look, TypeOK, Info, AtInv
<1>3. /\ at' = [at EXCEPT !.step = "store", !.vf = vf, !.index = index, !.parent = parent]
      /\ UNCHANGED <<devices, todo, unasked, phase>>
  BY DEF ReadVirtfn
<1>4. \A i \in found : /\ i \in Nat /\ i + 1 \in 1..virtfn[at.parent]
                       /\ VfsOf[at.parent][i + 1] = at.dev
  BY <1>1, <1>2 DEF VfIndex, TypeOK
<1>5. found # {} => index \in found
  BY <1>4, LeastNatural
<1>6. index \in VfIndices
  <2>1. CASE found = {}
    BY <2>1 DEF VfIndices
  <2>2. CASE found # {}
    <3>1. index \in found
      BY <1>5, <2>2, Zenon
    <3>2. index \in Nat /\ index + 1 \in 1..virtfn[at.parent]
      BY <1>4, <3>1, Zenon
    <3>3. 1..virtfn[at.parent] \subseteq 1..Len(VfsOf[at.parent])
      BY <1>1, <1>2, LinksOf, Zenon
    <3>4. DOMAIN VfsOf[at.parent] = 1..Len(VfsOf[at.parent])
      BY <1>2, VfsAt, Zenon
    <3> HIDE DEF index
    <3>5. index + 1 \in DOMAIN VfsOf[at.parent] /\ index = (index + 1) - 1
      BY <3>2, <3>3, <3>4
    <3> DEFINE ofParent == {i - 1 : i \in DOMAIN VfsOf[at.parent]}
    <3>6. index \in ofParent
      BY <3>5, Zenon
    <3>7. ofParent \subseteq VfIndices
      BY <1>2, Zenon DEF VfIndices
    <3> QED
      BY <3>6, <3>7, Zenon
  <2> QED
    BY <2>1, <2>2
<1>7. vf <=> at.dev \in Links(at.parent)
  <2>1. ASSUME at.dev \in Links(at.parent) PROVE found # {}
    <3>1. PICK i \in 1..virtfn[at.parent] : at.dev = VfsOf[at.parent][i]
      BY <1>1, <1>2, <2>1, LinksOf
    <3>2. i - 1 \in 0..(virtfn[at.parent] - 1) /\ (i - 1) + 1 = i
      BY <1>1, <1>2 DEF TypeOK
    <3> QED
      BY <3>1, <3>2 DEF VfIndex
  <2>2. ASSUME found # {} PROVE at.dev \in Links(at.parent)
    BY <1>4, <2>2 DEF Links
  <2> QED
    BY <2>1, <2>2
<1> HIDE DEF found
<1>8. parent \in PFs \cup {None} /\ vf \in BOOLEAN
  BY <1>2
<1> HIDE DEF index, parent, vf
<1>9. /\ at' \in Info /\ at'.dev = at.dev /\ at'.step = "store" /\ at'.vf = vf
      /\ at'.driver = at.driver /\ at'.memory = at.memory /\ at'.number = at.number
      /\ at'.maxVFs = at.maxVFs /\ at'.parent = parent /\ at'.index = index
  BY <1>2, <1>3, <1>6, <1>8 DEF Info
<1>10. /\ present' = present /\ touched' = touched /\ driver' = driver /\ had' = had
       /\ number' = number /\ IsVf(at.dev)' <=> IsVf(at.dev)
  <2>1. /\ virtfn' = virtfn /\ present' = present /\ touched' = touched /\ driver' = driver
        /\ had' = had /\ number' = number
    BY <1>2 DEF Env, sysfs
  <2>2. \A p : Links(p)' = Links(p)
    BY <2>1 DEF Links
  <2> QED
    BY <1>9, <2>1, <2>2 DEF IsVf
<1>11. Owned(at)' /\ Counted(at)'
  BY <1>1, <1>2, <1>9, <1>10 DEF AtInv, Owned, Counted
<1>12. ASSUME at.dev \notin touched
       PROVE  Fits(at)' /\ Named(at)' /\ Linked(at)'
  <2>0. Fits(at) /\ Named(at)
    BY <1>1, <1>2, <1>12 DEF AtInv
  <2>1. Fits(at)' /\ Named(at)'
    <3>1. at'.dev = at.dev /\ at'.driver = at.driver /\ at'.number = at.number
      BY <1>9
    <3>2. present' = present /\ driver' = driver /\ number' = number
      BY <1>2 DEF Env, sysfs
    <3> QED
      BY <2>0, <3>1, <3>2 DEF Fits, Named
  <2>2. at.dev \in Links(at.parent)
    BY <1>1, <1>2, <1>12 DEF AtInv
  <2>3. vf /\ IsVf(at.dev)
    BY <1>2, <1>7, <2>2 DEF IsVf
  <2>4. parent = at.parent /\ VfsOf[at.parent][index + 1] = at.dev
    BY <1>4, <1>5, <2>3 DEF vf, parent
  <2>5. Linked(at)'
    BY <1>9, <1>10, <2>3, <2>4 DEF Linked
  <2> QED
    BY <2>1, <2>5
<1>13. AtInv'
  <2>1. at'.memory = None
    BY <1>1, <1>2, <1>9 DEF AtInv
  <2>2. at.dev \notin touched => at.dev \in present /\ at.driver = driver[at.dev]
    BY <1>1, <1>2 DEF AtInv
  <2> QED
    BY <1>2, <1>3, <1>9, <1>10, <1>11, <1>12, <2>1, <2>2 DEF AtInv
<1> QED
  BY <1>2, <1>3, <1>9, <1>13, LookKeeps

\* Two devices that are there with a device node each have names of their own.
LEMMA NamesApart ==
  ASSUME GpuInv, Look, at.step = "store",
         NEW d \in Device \ touched, Usable(d), at.dev # d,
         program.naming = "machine" \/ driver[d] \in Drm,
         NEW n \in DOMAIN devices, devices[n].dev = d
  PROVE  n # NameOf(at)
<1>1. TypeOK /\ AtInv /\ StoredInv /\ HadInv /\ phase = "pci" /\ at # None
  BY DEF GpuInv, Look
<1>2. n = NameOf(devices[n]) /\ Fits(devices[n]) /\ Named(devices[n]) /\ Owned(at)
  BY <1>1 DEF StoredInv, AtInv
<1>3. CASE program.naming = "machine"
  BY <1>2, <1>3 DEF NameOf
<1>4. CASE program.naming # "machine" /\ driver[d] \in Drm
  <2>1. /\ devices[n].driver = driver[d] /\ devices[n].number = number[d]
        /\ number[d] # 0 /\ n = <<"card", number[d]>>
    BY <1>2, <1>4, NoneAssumption DEF Fits, Named, NameOf, Drivers
  <2>2. CASE at.driver \in Drm
    <3>1. at.driver # None /\ Kind(at.driver) = "card" /\ Kind(driver[d]) = "card"
      BY <1>4, <2>2, NoneAssumption DEF Kind, Drivers
    <3>2. SUFFICES ASSUME at.number = number[d] PROVE FALSE
      BY <1>4, <2>1, <2>2 DEF NameOf
    <3>3. <<at.dev, Kind(driver[d]), number[d]>> \in had
      BY <1>2, <3>1, <3>2 DEF Owned
    <3>4. at.dev \in Device
      BY <1>1 DEF TypeOK, Info
    <3> QED
      BY <1>1, <2>1, <3>3, <3>4 DEF HadInv
  <2>3. CASE at.driver \notin Drm
    BY <1>4, <2>1, <2>3 DEF NameOf
  <2> QED
    BY <2>2, <2>3
<1> QED
  BY <1>3, <1>4

LEMMA StoreKeeps ==
  ASSUME GpuInv, Store
  PROVE  GpuInv'
<1> DEFINE name == NameOf(at)
<1>1. /\ TypeOK /\ KernelTypes /\ DiscoTypes /\ KernelInv /\ HadInv /\ AtInv /\ TodoInv
      /\ StoredInv /\ CompleteInv /\ MemoryInv
  BY TypesSplit DEF GpuInv
<1>2. /\ Look /\ at.step = "store" /\ Env /\ Same /\ at # None /\ at \in Info
      /\ at.dev \in Device /\ phase = "pci" /\ at' = None
      /\ UNCHANGED <<todo, unasked, phase>>
  BY <1>1, EnvIsSame DEF Store, Look, TypeOK, Info
<1>3. devices' = [n \in DOMAIN devices \cup {name} |-> IF n = name THEN at ELSE devices[n]]
  BY Zenon DEF Store
<1> HIDE DEF name
<1>4. KernelTypes' /\ KernelInv' /\ HadInv'
  BY <1>1, <1>2, SameKernel
<1>5. TypeOK'
  <2>1. DiscoTypes'
    BY <1>1, <1>2, <1>3 DEF DiscoTypes, Same
  <2> QED
    BY <1>4, <2>1, TypesSplit, PTL
<1>6. AtInv' /\ TodoInv'
  BY <1>1, <1>2 DEF AtInv, TodoInv, Same
<1>7. StoredInv'
  <2> SUFFICES ASSUME NEW n \in DOMAIN devices',
                      NEW info, info = devices'[n]
               PROVE  /\ n = (IF program.naming = "machine" THEN <<"uid", info.dev>>
                              ELSE IF info.driver \in Drm THEN <<"card", info.number>> ELSE <<"">>)
                      /\ info.driver # None => <<info.dev, Kind(info.driver), info.number>> \in had
                      /\ info.maxVFs = IF info.dev \in AutoProbe THEN Len(VfsOf[info.dev]) ELSE 0
                      /\ info.dev \notin touched =>
                           /\ Fits(info) /\ Named(info)
                           /\ info.vf <=> IsVf(info.dev)
                           /\ info.vf => VfsOf[info.parent][info.index + 1] = info.dev
    <3>1. \A d : IsVf(d)' <=> IsVf(d)
      BY <1>2 DEF Same, IsVf, Links
    <3> QED
      BY <1>2, <3>1 DEF Same, StoredInv, NameOf, Owned, Counted, Fits, Named, Linked
  <2>1. CASE n = name
    BY <1>1, <1>2, <1>3, <2>1 DEF AtInv, NameOf, Owned, Counted, Linked, name
  <2>2. CASE n # name
    BY <1>1, <1>3, <2>2 DEF StoredInv, NameOf, Owned, Counted, Linked
  <2> QED
    BY <2>1, <2>2
<1>8. CompleteInv'
  <2>1. ASSUME NEW d \in present \ touched, Usable(d), Reached(d),
               program.naming = "machine" \/ driver[d] \in Drm
        PROVE  Reached(d)'
    <3>1. d \in Device \ touched
      BY <1>1 DEF KernelTypes
    <3>2. CASE \E i \in todo : Addresses[i] = d
      BY <1>2, <3>2 DEF Reached
    <3>3. CASE at.dev = d
      BY <1>3, <3>3 DEF Reached
    <3>4. CASE at.dev # d /\ \E n \in DOMAIN devices : devices[n].dev = d
      <4>1. PICK n \in DOMAIN devices : devices[n].dev = d
        BY <3>4
      <4>2. n # name
        BY <1>2, <2>1, <3>1, <3>4, <4>1, NamesApart DEF name
      <4>3. n \in DOMAIN devices' /\ devices'[n].dev = d
        BY <1>3, <4>1, <4>2
      <4> QED
        BY <4>3 DEF Reached
    <3> QED
      BY <2>1, <3>2, <3>3, <3>4 DEF Reached
  <2> QED
    BY <1>1, <1>2, <2>1, SameComplete
<1>9. MemoryInv'
  <2>1. \A n \in DOMAIN devices' : devices'[n].memory = None
    BY <1>1, <1>2, <1>3 DEF MemoryInv, AtInv
  <2> QED
    BY <1>2, <2>1 DEF MemoryInv
<1> QED
  BY <1>4, <1>5, <1>6, <1>7, <1>8, <1>9 DEF GpuInv

LEMMA EndPciKeeps ==
  ASSUME GpuInv, EndPci
  PROVE  GpuInv'
<1>1. /\ TypeOK /\ KernelTypes /\ DiscoTypes /\ KernelInv /\ HadInv /\ TodoInv
      /\ StoredInv /\ CompleteInv /\ MemoryInv
  BY TypesSplit DEF GpuInv
<1>2. /\ Same /\ phase = "pci" /\ phase' = "memory" /\ at = None /\ todo = {}
      /\ unasked' = DOMAIN devices /\ UNCHANGED <<todo, at, devices>>
  BY EnvIsSame DEF EndPci
<1>3. KernelTypes' /\ KernelInv' /\ HadInv'
  BY <1>1, <1>2, SameKernel
<1>4. TypeOK'
  <2>1. DiscoTypes'
    BY <1>1, <1>2 DEF DiscoTypes, Same
  <2> QED
    BY <1>3, <2>1, TypesSplit, PTL
<1>5. AtInv' /\ TodoInv'
  BY <1>1, <1>2 DEF AtInv, TodoInv
<1>6. MemoryInv'
  BY <1>1, <1>2 DEF MemoryInv
<1>7. StoredInv'
  BY <1>1, <1>2, SameStored
<1>8. CompleteInv'
  <2>1. ASSUME NEW d, Reached(d)
        PROVE  Reached(d)'
    BY <1>2, <2>1 DEF Reached
  <2> QED
    BY <1>1, <1>2, <2>1, SameComplete
<1> QED
  BY <1>3, <1>4, <1>5, <1>6, <1>7, <1>8 DEF GpuInv

\* Asking for memory gives nothing but memory, and to a device that did not change
\* nobody's but its own.
LEMMA MemoryKeeps ==
  ASSUME GpuInv, Same, phase = "memory", phase' \in {"memory", "done"}, UNCHANGED <<todo, at>>,
         NEW n, NEW m \in Device \cup {None},
         n \in DOMAIN devices /\ devices[n].dev \notin touched => m \in {devices[n].dev, None},
         devices' = [devices EXCEPT ![n].memory = m] \/ UNCHANGED devices,
         unasked' \subseteq DOMAIN devices,
         MemoryInv'
  PROVE  GpuInv'
<1>1. /\ TypeOK /\ KernelTypes /\ DiscoTypes /\ KernelInv /\ HadInv /\ TodoInv
      /\ StoredInv /\ CompleteInv
  BY TypesSplit DEF GpuInv
<1>2. /\ DOMAIN devices' = DOMAIN devices
      /\ \A k \in DOMAIN devices :
           /\ devices'[k] \in Info
           /\ devices'[k].dev = devices[k].dev /\ devices'[k].driver = devices[k].driver
           /\ devices'[k].number = devices[k].number /\ devices'[k].maxVFs = devices[k].maxVFs
           /\ devices'[k].vf = devices[k].vf /\ devices'[k].parent = devices[k].parent
           /\ devices'[k].index = devices[k].index
  <2>1. \A k \in DOMAIN devices : devices[k] \in Info
    BY <1>1 DEF DiscoTypes
  <2>2. CASE UNCHANGED devices
    BY <2>1, <2>2
  <2>3. CASE devices' = [devices EXCEPT ![n].memory = m]
    <3>1. DOMAIN devices' = DOMAIN devices
      BY <2>3
    <3>2. \A k \in DOMAIN devices :
            devices'[k] = IF k = n THEN [devices[n] EXCEPT !.memory = m] ELSE devices[k]
      BY <2>3
    <3>3. \A k \in DOMAIN devices :
            LET r == [devices[k] EXCEPT !.memory = m] IN
            /\ r \in Info
            /\ r.dev = devices[k].dev /\ r.driver = devices[k].driver
            /\ r.number = devices[k].number /\ r.maxVFs = devices[k].maxVFs
            /\ r.vf = devices[k].vf /\ r.parent = devices[k].parent /\ r.index = devices[k].index
      BY <2>1 DEF Info
    <3>4. ASSUME NEW k \in DOMAIN devices
          PROVE  /\ devices'[k] \in Info
                 /\ devices'[k].dev = devices[k].dev /\ devices'[k].driver = devices[k].driver
                 /\ devices'[k].number = devices[k].number
                 /\ devices'[k].maxVFs = devices[k].maxVFs
                 /\ devices'[k].vf = devices[k].vf /\ devices'[k].parent = devices[k].parent
                 /\ devices'[k].index = devices[k].index
      <4>1. CASE k = n
        BY <3>2, <3>3, <4>1
      <4>2. CASE k # n
        BY <2>1, <3>2, <4>2
      <4> QED
        BY <4>1, <4>2
    <3> QED
      BY <3>1, <3>4, Zenon
  <2> QED
    BY <2>2, <2>3, Zenon
<1>3. KernelTypes' /\ KernelInv' /\ HadInv'
  BY <1>1, SameKernel
<1>4. TypeOK'
  <2>1. DiscoTypes'
    BY <1>1, <1>2 DEF DiscoTypes, Same
  <2> QED
    BY <1>3, <2>1, TypesSplit, PTL
<1>5. AtInv' /\ TodoInv'
  BY <1>1 DEF AtInv, TodoInv
<1>6. StoredInv'
  <2> SUFFICES ASSUME NEW k \in DOMAIN devices
               PROVE  /\ k = NameOf(devices[k])' /\ Owned(devices[k])' /\ Counted(devices[k])'
                      /\ devices'[k].dev \notin touched' =>
                           Fits(devices[k])' /\ Named(devices[k])' /\ Linked(devices[k])'
    BY <1>2 DEF StoredInv
  <2>1. /\ k = NameOf(devices[k]) /\ Owned(devices[k]) /\ Counted(devices[k])
        /\ devices[k].dev \notin touched =>
             Fits(devices[k]) /\ Named(devices[k]) /\ Linked(devices[k])
    BY <1>1 DEF StoredInv
  <2>2. \A d : IsVf(d)' <=> IsVf(d)
    BY DEF Same, IsVf, Links
  <2>3. k = NameOf(devices[k])' /\ Owned(devices[k])' /\ Counted(devices[k])'
    BY <1>2, <2>1 DEF NameOf, Owned, Counted, Same
  <2>4. devices'[k].dev \notin touched' => Fits(devices[k])' /\ Named(devices[k])'
    BY <1>2, <2>1 DEF Fits, Named, Same
  <2>5. devices'[k].dev \notin touched' => Linked(devices[k])'
    BY <1>2, <2>1, <2>2 DEF Linked, Same
  <2> QED
    BY <2>3, <2>4, <2>5
<1>7. CompleteInv'
  <2>1. ASSUME NEW d, Reached(d)
        PROVE  Reached(d)'
    BY <1>2, <2>1 DEF Reached
  <2> QED
    BY <1>1, <2>1, SameComplete
<1> QED
  BY <1>3, <1>4, <1>5, <1>6, <1>7 DEF GpuInv

\* The device that answers is the one that was found, unless one of the two changed.
LEMMA AnswersOwn ==
  ASSUME GpuInv, phase = "memory", NEW n \in DOMAIN devices,
         devices[n].driver \in Drm, devices[n].dev \notin touched
  PROVE  Answers(devices[n]) = {devices[n].dev}
<1>1. TypeOK /\ KernelInv /\ StoredInv
  BY DEF GpuInv
<1>2. /\ devices[n].dev \in Device /\ present \subseteq Device
      /\ Fits(devices[n]) /\ Named(devices[n])
  BY <1>1 DEF TypeOK, Info, StoredInv
<1> QED
  BY <1>1, <1>2, NoneAssumption DEF Answers, Fits, Named, KernelInv, Drivers

LEMMA AskMemoryKeeps ==
  ASSUME GpuInv, NEW n \in DOMAIN devices, AskMemory(n)
  PROVE  GpuInv'
<1> DEFINE info == devices[n]
<1>1. TypeOK /\ MemoryInv /\ StoredInv
  BY DEF GpuInv
<1>2. /\ Same /\ phase = "memory" /\ n \in unasked /\ UNCHANGED <<todo, at>>
      /\ \A k \in DOMAIN devices : devices[k] \in Info
      /\ unasked \subseteq DOMAIN devices
  BY <1>1, EnvIsSame DEF AskMemory, TypeOK
<1>3. CASE info.driver \notin Drm /\ Asked(n) /\ UNCHANGED devices
  <2>1. unasked' = unasked \ {n} /\ phase' = IF unasked = {n} THEN "done" ELSE phase
    BY <1>3 DEF Asked
  <2>2. MemoryInv'
    BY <1>1, <1>2, <1>3, <2>1 DEF MemoryInv, Same
  <2> QED
    BY <1>2, <1>3, <2>1, <2>2, MemoryKeeps
<1>4. CASE /\ info.driver \in Drm
           /\ \E d \in Answers(info) : devices' = [devices EXCEPT ![n].memory = d]
           /\ Asked(n)
  <2>1. unasked' = unasked \ {n} /\ phase' = IF unasked = {n} THEN "done" ELSE phase
    BY <1>4 DEF Asked
  <2>2. PICK d \in Answers(info) : devices' = [devices EXCEPT ![n].memory = d]
    BY <1>4
  <2>3. d \in Device /\ info.dev \notin touched => d = info.dev
    BY <1>2, <1>4, AnswersOwn
  <2>4. d \in Device
    BY <1>1 DEF Answers, TypeOK
  <2>5. /\ DOMAIN devices' = DOMAIN devices
        /\ \A k \in DOMAIN devices :
             /\ devices'[k].dev = devices[k].dev /\ devices'[k].driver = devices[k].driver
             /\ devices'[k].memory = IF k = n THEN d ELSE devices[k].memory
    <3>1. \A k \in DOMAIN devices :
            devices'[k] = IF k = n THEN [devices[n] EXCEPT !.memory = d] ELSE devices[k]
      BY <2>2
    <3>2. /\ [devices[n] EXCEPT !.memory = d].dev = devices[n].dev
          /\ [devices[n] EXCEPT !.memory = d].driver = devices[n].driver
          /\ [devices[n] EXCEPT !.memory = d].memory = d
      BY <1>2 DEF Info
    <3> QED
      BY <2>2, <3>1, <3>2
  <2>6. MemoryInv'
    BY <1>1, <1>2, <2>1, <2>3, <2>4, <2>5 DEF MemoryInv, Same
  <2>7. unasked' \subseteq DOMAIN devices /\ phase' \in {"memory", "done"}
    BY <1>2, <2>1
  <2> QED
    BY <1>2, <2>2, <2>3, <2>4, <2>6, <2>7, MemoryKeeps
<1>5. CASE /\ info.driver \in Drm /\ (~program.privileged \/ Answers(info) = {})
           /\ phase' = "done" /\ UNCHANGED <<devices, unasked>>
  <2>1. ~(touched = {} /\ program.privileged)
    BY <1>2, <1>5, AnswersOwn
  <2>2. MemoryInv'
    BY <1>1, <1>2, <1>5, <2>1 DEF MemoryInv, Same
  <2> QED
    BY <1>2, <1>5, <2>2, MemoryKeeps
<1> QED
  BY <1>3, <1>4, <1>5, Zenon DEF AskMemory

LEMMA NoneToAskKeeps ==
  ASSUME GpuInv, NoneToAsk
  PROVE  GpuInv'
<1>1. TypeOK /\ MemoryInv
  BY DEF GpuInv
<1>2. /\ Same /\ phase = "memory" /\ phase' = "done" /\ unasked = {}
      /\ UNCHANGED <<todo, at, devices, unasked>>
  BY EnvIsSame DEF NoneToAsk
<1>3. MemoryInv'
  BY <1>1, <1>2 DEF MemoryInv, Same
<1> QED
  BY <1>2, <1>3, MemoryKeeps

----------------------------------------------------------------------------
(* The discovery of GPUs as a whole.                                        *)

LEMMA GpuInit == Init => GpuInv
<1> SUFFICES ASSUME Init PROVE GpuInv
  OBVIOUS
<1> USE DEF Init
<1>1. /\ driver \in [Device -> Drivers \cup {None}]
      /\ \A d \in Device : driver[d] # None => d \in present \cap IntelGpus
  OBVIOUS
<1>2. /\ number \in [Device -> 0..Len(Addresses)]
      /\ \A d \in Device : driver[d] = None => number[d] = 0
      /\ \A d, e \in Device :
           number[d] # 0 /\ number[d] = number[e] /\ Kind(driver[d]) = Kind(driver[e]) => d = e
  BY <1>1, NumberedApart
<1>3. KernelTypes
  <2>1. \A p \in PFs : virtfn[p] <= Len(VfsOf[p])
    BY VfsAt
  <2> QED
    BY <1>1, <1>2, <2>1, Bounds DEF KernelTypes
<1>4. DOMAIN devices = {}
  OBVIOUS
<1>5. TypeOK
  <2>1. DiscoTypes
    BY <1>4 DEF DiscoTypes
  <2> QED
    BY <1>3, <2>1, TypesSplit
<1>6. KernelInv
  BY <1>1, <1>2 DEF KernelInv
<1>7. HadInv /\ AtInv /\ TodoInv /\ CompleteInv
  BY DEF HadInv, AtInv, TodoInv, CompleteInv
<1>8. StoredInv /\ MemoryInv
  BY <1>4 DEF StoredInv, MemoryInv
<1> QED
  BY <1>5, <1>6, <1>7, <1>8 DEF GpuInv

\* A step of the kernel.
LEMMA KernelKeeps ==
  ASSUME GpuInv, KernelTypes', KernelInv', HadInv', Steady, UNCHANGED disco
  PROVE  GpuInv'
<1>1. TypeOK'
  <2>1. DiscoTypes'
    BY TypesSplit DEF GpuInv, DiscoTypes, disco
  <2> QED
    BY <2>1, TypesSplit, PTL
<1>2. AtInv' /\ TodoInv'
  BY SteadyAt DEF GpuInv
<1>3. StoredInv' /\ CompleteInv' /\ MemoryInv'
  BY SteadyStored DEF GpuInv
<1> QED
  BY <1>1, <1>2, <1>3 DEF GpuInv

LEMMA GpuStep == GpuInv /\ [Next]_vars => GpuInv'
<1> SUFFICES ASSUME GpuInv, [Next]_vars PROVE GpuInv'
  OBVIOUS
<1>0. TypeOK /\ KernelInv /\ HadInv
  BY DEF GpuInv
<1>1. ASSUME NEW d \in Device, UnbindDriver(d) PROVE GpuInv'
  BY <1>0, <1>1, UnbindKeeps, KernelKeeps DEF UnbindDriver
<1>2. ASSUME NEW d \in Device, Probed(d) PROVE GpuInv'
  BY <1>0, <1>2, ProbedKeeps, KernelKeeps DEF Probed
<1>3. ASSUME NEW d \in Device, NEW drv \in Drivers, BindDriver(d, drv) PROVE GpuInv'
  BY <1>0, <1>3, BindKeeps, KernelKeeps DEF BindDriver
<1>4. ASSUME NEW p \in PFs, AddVf(p) PROVE GpuInv'
  BY <1>0, <1>4, AddVfKeeps, KernelKeeps DEF AddVf
<1>5. ASSUME NEW p \in PFs, LinkVf(p) PROVE GpuInv'
  BY <1>0, <1>5, LinkVfKeeps, KernelKeeps DEF LinkVf
<1>6. ASSUME NEW p \in PFs, DisableVfs(p) PROVE GpuInv'
  BY <1>0, <1>6, DisableKeeps, KernelKeeps DEF DisableVfs
<1>7. CASE Begin
  BY <1>7, BeginKeeps
<1>8. CASE ReadDriver \/ ReadInfo \/ ReadNames
  BY <1>8, ReadDriverKeeps, ReadInfoKeeps, ReadNamesKeeps
<1>9. CASE ReadSriov \/ ReadVirtfn \/ Store
  BY <1>9, ReadSriovKeeps, ReadVirtfnKeeps, StoreKeeps
<1>10. CASE EndPci \/ NoneToAsk
  BY <1>10, EndPciKeeps, NoneToAskKeeps
<1>11. ASSUME NEW n \in DOMAIN devices, AskMemory(n) PROVE GpuInv'
  BY <1>11, AskMemoryKeeps
<1>12. CASE UNCHANGED vars
  <2>1. Same /\ UNCHANGED <<todo, at, devices, unasked, phase>>
    BY <1>12 DEF vars, sysfs, disco, Same
  <2>2. TypeOK' /\ KernelInv' /\ HadInv'
    BY <1>12, <1>0 DEF vars, sysfs, disco, TypeOK, KernelInv, HadInv
  <2>3. StoredInv' /\ MemoryInv'
    BY <2>1, SameStored, SameMemory DEF GpuInv
  <2>4. AtInv' /\ TodoInv' /\ CompleteInv'
    BY <2>1 DEF GpuInv, Same, AtInv, TodoInv, CompleteInv, Usable, Reached, Fits, Named, Linked,
                Owned, Counted, IsVf, Links
  <2> QED
    BY <2>2, <2>3, <2>4 DEF GpuInv
<1> QED
  BY <1>1, <1>2, <1>3, <1>4, <1>5, <1>6, <1>7, <1>8, <1>9, <1>10, <1>11, <1>12, Zenon DEF Next

LEMMA GpuFoundRight ==
  ASSUME GpuInv
  PROVE  UndisturbedRight /\ MemoryRight /\ NodesWereTheirs
<1>1. /\ TypeOK /\ KernelInv /\ HadInv /\ AtInv /\ TodoInv
      /\ StoredInv /\ CompleteInv /\ MemoryInv
  BY DEF GpuInv
<1>2. UndisturbedRight
  <2> SUFFICES ASSUME phase \in {"memory", "done"}, NEW d \in present \ touched
               PROVE  /\ Found(d) # {} => Usable(d)
                      /\ Usable(d) /\ (program.naming = "machine" \/ driver[d] \in Drm)
                           => Found(d) # {}
                      /\ \A n \in Found(d) :
                           LET info == devices[n] IN
                           /\ info.driver = driver[d] /\ info.number = number[d]
                           /\ info.vf = IsVf(d)
                           /\ info.vf => VfsOf[info.parent][info.index + 1] = d
                           /\ info.maxVFs = IF d \in AutoProbe THEN Len(VfsOf[d]) ELSE 0
    BY <1>1 DEF UndisturbedRight
  <2>1. ASSUME NEW n \in Found(d)
        PROVE  /\ Usable(d)
               /\ devices[n].driver = driver[d] /\ devices[n].number = number[d]
               /\ devices[n].vf <=> IsVf(d)
               /\ devices[n].vf => VfsOf[devices[n].parent][devices[n].index + 1] = d
               /\ devices[n].maxVFs = IF d \in AutoProbe THEN Len(VfsOf[d]) ELSE 0
    <3>1. n \in DOMAIN devices /\ devices[n].dev = d
      BY DEF Found
    <3>2. /\ Fits(devices[n]) /\ Named(devices[n]) /\ Linked(devices[n]) /\ Counted(devices[n])
      BY <1>1, <3>1 DEF StoredInv
    <3>3. Usable(d)
      BY <3>1, <3>2 DEF Fits, Named, Usable
    <3> QED
      BY <3>1, <3>2, <3>3 DEF Fits, Named, Linked, Counted
  <2>2. \A n \in Found(d) : devices[n].vf \in BOOLEAN /\ n \in DOMAIN devices
    BY <1>1 DEF Found, TypeOK, Info
  <2>3. IsVf(d) \in BOOLEAN
    BY DEF IsVf
  <2>4. \A n \in Found(d) : devices[n].vf = IsVf(d)
    BY <2>1, <2>2, <2>3
  <2>5. Usable(d) /\ (program.naming = "machine" \/ driver[d] \in Drm) => Found(d) # {}
    BY <1>1 DEF CompleteInv, Reached, Found, TodoInv
  <2> QED
    BY <2>1, <2>4, <2>5
<1>3. MemoryRight
  BY <1>1 DEF MemoryInv, MemoryRight
<1>4. NodesWereTheirs
  BY <1>1 DEF StoredInv, Owned, NodesWereTheirs
<1> QED
  BY <1>2, <1>3, <1>4

----------------------------------------------------------------------------
(* The inductive invariant of the discovery of Gaudis.                      *)

\* Only a bound device is registered, and no two as the same accel device.
AccelInv ==
  /\ \A d \in Gaudi!Device : accel[d] # None => d \in bound
  /\ \A d, e \in Gaudi!Device : accel[d] # None /\ accel[d] = accel[e] => d = e

\* The history has every accel device there is.
AccelHadInv ==
  gaudiPhase # "wait" =>
    \A d \in Gaudi!Device : accel[d] # None => <<d, accel[d]>> \in gaudiHad

\* The devices a correct answer can be given for.
Steadfast == {d \in Gaudi!Device \ gaudiTouched : accel[d] # None}

\* The device that is looked at, step by step.
CardInv ==
  gaudiAt # None =>
    /\ gaudiPhase = "scanning"
    /\ gaudiAt.index # None => <<gaudiAt.dev, gaudiAt.index>> \in gaudiHad
    /\ gaudiAt.step \in {"module", "moduleMap", "store"} =>
         /\ gaudiAt.index # None
         /\ gaudiAt.dev \in Steadfast => gaudiAt.index = accel[gaudiAt.dev]
    /\ gaudiAt.step = "store" =>
         /\ gaudiAt.module # None
         /\ gaudiAt.dev \in Steadfast => gaudiAt.module = ModuleOf[gaudiAt.dev]

\* The fallback's map: an entry that is read belongs to its device, and the entry of
\* a device that did not change is in the map or still to be read.
IndexMapInv ==
  /\ \A d \in DOMAIN indexMap : <<d, indexMap[d].accelIdx>> \in gaudiHad
  /\ \A d \in DOMAIN indexMap \cap Steadfast :
       indexMap[d].accelIdx = accel[d] /\ indexMap[d].moduleIdx = ModuleOf[d]
  /\ half # None =>
       \A i \in Gaudi!FirstIn(scan), d \in Steadfast : accel[d] = i => half = ModuleOf[d]
  /\ Gaudi!Mapping => \A d \in Steadfast : accel[d] \in scan \/ d \in DOMAIN indexMap

\* The entries that are still to be looked at.
CardTodoInv ==
  /\ gaudiPhase # "scanning" => gaudiAt = None /\ gaudiTodo = {}
  /\ gaudiPhase = "wait" => gaudiDevices = <<>> /\ indexMap = <<>> /\ half = None
  /\ \A i \in gaudiTodo : GaudiAddresses[i] \in bound \cup gaudiTouched

\* What has been stored.
CardStoredInv ==
  \A d \in DOMAIN gaudiDevices :
    LET info == gaudiDevices[d] IN
    /\ <<d, info.index>> \in gaudiHad
    /\ d \in Steadfast => /\ info.index = accel[d] /\ info.module = ModuleOf[d]
                          /\ info.uverbs = Gaudi!TheOne(UverbsOf[d])

\* A device that did not change is still to be looked at, or is looked at, or is stored.
CardReached(d) ==
  \/ \E i \in gaudiTodo : GaudiAddresses[i] = d
  \/ gaudiAt # None /\ gaudiAt.dev = d
  \/ d \in DOMAIN gaudiDevices

CardCompleteInv == gaudiPhase # "wait" => \A d \in Steadfast : CardReached(d)

GaudiInv ==
  /\ Gaudi!TypeOK /\ AccelInv /\ AccelHadInv /\ CardInv /\ IndexMapInv
  /\ CardTodoInv /\ CardStoredInv /\ CardCompleteInv

IInv == GpuInv /\ GaudiInv

----------------------------------------------------------------------------
(* The Gaudis and their positions, and the numbers of their accel devices.  *)

LEMMA CardAt ==
  /\ Len(GaudiAddresses) \in Nat /\ DOMAIN GaudiAddresses = 1..Len(GaudiAddresses)
  /\ \A i \in DOMAIN GaudiAddresses : GaudiAddresses[i] \in Gaudi!Device
  /\ \A d \in Gaudi!Device : \E i \in DOMAIN GaudiAddresses : GaudiAddresses[i] = d
<1>1. GaudiAddresses \in Seq(Gaudi!Device)
  BY GaudiAssumption DEF Gaudi!ConstantsFit
<1>2. Len(GaudiAddresses) \in Nat /\ DOMAIN GaudiAddresses = 1..Len(GaudiAddresses)
  BY <1>1
<1>3. /\ \A i \in DOMAIN GaudiAddresses : GaudiAddresses[i] \in Gaudi!Device
      /\ \A d \in Gaudi!Device : \E i \in DOMAIN GaudiAddresses : GaudiAddresses[i] = d
  BY Zenon DEF Gaudi!Device, Gaudi!Range
<1> QED
  BY <1>2, <1>3, Zenon

LEMMA CardConstants ==
  /\ MaxChanges \in Nat /\ None \notin Gaudi!Found
  /\ Gaudi!Indices \subseteq Nat /\ None \notin Gaudi!Indices
  /\ None \notin Gaudi!Modules
  /\ \A d \in Gaudi!Device : ModuleOf[d] \in Gaudi!Modules
<1>1. /\ MaxChanges \in Nat /\ None \notin Nat /\ None \notin Gaudi!Found
      /\ \A d \in Gaudi!Device : ModuleOf[d] \in Nat
  BY GaudiAssumption DEF Gaudi!ConstantsFit
<1>2. Gaudi!Indices \subseteq Nat
  BY CardAt DEF Gaudi!Indices
<1>3. Gaudi!Modules \subseteq Nat /\ \A d \in Gaudi!Device : ModuleOf[d] \in Gaudi!Modules
  BY <1>1 DEF Gaudi!Modules
<1> QED
  BY <1>1, <1>2, <1>3

\* When a device is registered one of the numbers is free: there are as many as
\* devices, and this one has none yet.
LEMMA FreeIndex ==
  ASSUME Gaudi!TypeOK, NEW d \in Gaudi!Device, accel[d] = None
  PROVE  Min(Gaudi!Indices \ {accel[e] : e \in Gaudi!Device})
           \in Gaudi!Indices \ {accel[e] : e \in Gaudi!Device}
<1> DEFINE L == Len(GaudiAddresses)
           U == {accel[e] : e \in Gaudi!Device}
           g == [i \in 1..L |-> accel[GaudiAddresses[i]]]
<1>1. L \in Nat /\ Gaudi!Indices = 0..(L - 1)
  BY CardAt DEF Gaudi!Indices
<1>2. g \in Surjection(1..L, U)
  <2>1. \A i \in 1..L : g[i] \in U
    BY CardAt, Zenon
  <2>2. \A n \in U : \E i \in 1..L : g[i] = n
    <3> TAKE n \in U
    <3>1. PICK e \in Gaudi!Device : n = accel[e]
      OBVIOUS
    <3>2. PICK i \in 1..L : GaudiAddresses[i] = e
      BY <3>1, CardAt
    <3> QED
      BY <3>1, <3>2
  <2>3. g \in [1..L -> U]
    BY <2>1
  <2> QED
    BY <2>2, <2>3, Zenon DEF Surjection
<1>3. IsFiniteSet(1..L) /\ Cardinality(1..L) = L
  BY <1>1, Intervals
<1>4. IsFiniteSet(U) /\ Cardinality(U) <= L
  BY <1>2, <1>3, FS_Surjection
<1>5. None \in U /\ None \notin Gaudi!Indices
  BY CardConstants
<1>6. IsFiniteSet(U \ {None}) /\ Cardinality(U \ {None}) = Cardinality(U) - 1
  BY <1>4, <1>5, FS_RemoveElement
<1>7. Gaudi!Indices \ U # {}
  <2> SUFFICES ASSUME Gaudi!Indices \subseteq U
               PROVE  FALSE
    OBVIOUS
  <2>1. 0..(L - 1) \in SUBSET (U \ {None})
    BY <1>1, <1>5
  <2>2. Cardinality(0..(L - 1)) <= Cardinality(U \ {None})
    BY <1>6, <2>1, FS_Subset
  <2>3. L # 0
    BY <1>1, CardAt
  <2>4. Cardinality(0..(L - 1)) = L
    <3>1. L - 1 \in Nat /\ (L - 1) + 1 = L
      BY <1>1, <2>3
    <3> QED
      BY <3>1, Intervals
  <2>5. Cardinality(U) \in Nat
    BY <1>4, FS_CardinalityType
  <2> QED
    BY <1>1, <1>4, <1>6, <2>2, <2>4, <2>5
<1> HIDE DEF U
<1>8. Gaudi!Indices \ U \subseteq Nat
  BY CardConstants
<1> QED
  BY <1>7, <1>8, LeastNatural, Zenon DEF U

----------------------------------------------------------------------------
(* The driver and the administrator. *)

AccelTypes ==
  /\ bound \subseteq Gaudi!Device /\ accel \in [Gaudi!Device -> Gaudi!Indices \cup {None}]
  /\ gaudiTouched \subseteq Gaudi!Device /\ gaudiChanges \in 0..MaxChanges

CardTypes ==
  /\ {accelDir, moduleId} \subseteq BOOLEAN
  /\ gaudiTodo \subseteq DOMAIN GaudiAddresses /\ gaudiAt \in Gaudi!Found \cup {None}
  /\ scan \subseteq Gaudi!Indices /\ half \in Gaudi!Modules \cup {None}
  /\ \A d \in DOMAIN indexMap :
       indexMap[d] \in [accelIdx : Gaudi!Indices, moduleIdx : Gaudi!Modules]
  /\ DOMAIN gaudiDevices \subseteq Gaudi!Device
  /\ \A d \in DOMAIN gaudiDevices : /\ gaudiDevices[d].index \in Gaudi!Indices
                                    /\ gaudiDevices[d].module \in Gaudi!Modules
  /\ gaudiPhase \in {"wait", "scanning", "done"}

LEMMA CardTypesSplit == Gaudi!TypeOK <=> AccelTypes /\ CardTypes
  BY DEF Gaudi!TypeOK, AccelTypes, CardTypes

\* What has not changed is as it was, and the history is kept.
CardsSteady ==
  /\ gaudiTouched \subseteq gaudiTouched' /\ gaudiHad \subseteq gaudiHad'
  /\ \A d \in Gaudi!Device \ gaudiTouched' :
       accel'[d] = accel[d] /\ (d \in bound' <=> d \in bound)

LEMMA UnbindDeviceKeeps ==
  ASSUME Gaudi!TypeOK, AccelInv, AccelHadInv, NEW d \in Gaudi!Device, Gaudi!UnbindDevice(d)
  PROVE  /\ AccelTypes' /\ AccelInv' /\ AccelHadInv' /\ CardsSteady
         /\ UNCHANGED <<Gaudi!kernel, Gaudi!reads>>
<1> USE DEF Gaudi!UnbindDevice, Gaudi!Change
<1>1. AccelTypes
  BY CardTypesSplit
<1>2. AccelTypes'
  BY <1>1, CardConstants DEF AccelTypes
<1>3. AccelInv'
  BY <1>1 DEF AccelTypes, AccelInv
<1>4. AccelHadInv'
  BY <1>1 DEF AccelTypes, AccelHadInv, Gaudi!reads
<1>5. CardsSteady
  BY <1>1 DEF AccelTypes, CardsSteady
<1> QED
  BY <1>2, <1>3, <1>4, <1>5

LEMMA BindDeviceKeeps ==
  ASSUME Gaudi!TypeOK, AccelInv, AccelHadInv, NEW d \in Gaudi!Device, Gaudi!BindDevice(d)
  PROVE  /\ AccelTypes' /\ AccelInv' /\ AccelHadInv' /\ CardsSteady
         /\ UNCHANGED <<Gaudi!kernel, Gaudi!reads>>
<1> USE DEF Gaudi!BindDevice, Gaudi!Change
<1>1. AccelTypes
  BY CardTypesSplit
<1>2. AccelTypes'
  BY <1>1, CardConstants DEF AccelTypes
<1>3. AccelInv'
  BY DEF AccelInv
<1>4. AccelHadInv'
  BY DEF AccelHadInv, Gaudi!reads
<1>5. CardsSteady
  BY <1>1 DEF AccelTypes, CardsSteady
<1> QED
  BY <1>2, <1>3, <1>4, <1>5

LEMMA RegisterKeeps ==
  ASSUME Gaudi!TypeOK, AccelInv, AccelHadInv, NEW d \in Gaudi!Device, Gaudi!RegisterAccel(d)
  PROVE  /\ AccelTypes' /\ AccelInv' /\ AccelHadInv' /\ CardsSteady
         /\ UNCHANGED <<Gaudi!kernel, Gaudi!reads>>
<1> DEFINE free == Min(Gaudi!Indices \ {accel[e] : e \in Gaudi!Device})
<1>1. AccelTypes
  BY CardTypesSplit
<1>2. /\ d \in bound /\ accel[d] = None
      /\ accel' = [accel EXCEPT ![d] = free]
      /\ gaudiTouched' = gaudiTouched \cup {d} /\ gaudiHad' = gaudiHad \cup {<<d, free>>}
      /\ UNCHANGED <<Gaudi!kernel, bound, Gaudi!reads, gaudiChanges>>
  <2>1. free = Gaudi!Min(Gaudi!Indices \ {accel[e] : e \in Gaudi!Device})
    BY Zenon DEF Min, Gaudi!Min
  <2> HIDE DEF free
  <2> QED
    BY <2>1, Zenon DEF Gaudi!RegisterAccel
<1>3. free \in Gaudi!Indices /\ \A e \in Gaudi!Device : accel[e] # free
  BY <1>2, FreeIndex
<1> HIDE DEF free
<1>4. AccelTypes'
  BY <1>1, <1>2, <1>3 DEF AccelTypes
<1>5. AccelInv'
  BY <1>1, <1>2, <1>3 DEF AccelTypes, AccelInv
<1>6. AccelHadInv'
  BY <1>1, <1>2 DEF AccelTypes, AccelHadInv, Gaudi!reads
<1>7. CardsSteady
  BY <1>1, <1>2 DEF AccelTypes, CardsSteady
<1> QED
  BY <1>2, <1>4, <1>5, <1>6, <1>7

LEMMA StillSteadfast ==
  ASSUME CardsSteady
  PROVE  \A d \in Steadfast' : d \in Steadfast /\ accel'[d] = accel[d] /\ d \in Gaudi!Device
  BY DEF CardsSteady, Steadfast

\* A step of the driver leaves what was read of devices that did not change right.
LEMMA AccelStepKeeps ==
  ASSUME GaudiInv, AccelTypes', AccelInv', AccelHadInv', CardsSteady,
         UNCHANGED <<Gaudi!kernel, Gaudi!reads>>
  PROVE  GaudiInv'
<1>1. /\ Gaudi!TypeOK /\ CardTypes /\ CardInv /\ IndexMapInv
      /\ CardTodoInv /\ CardStoredInv /\ CardCompleteInv
  BY CardTypesSplit DEF GaudiInv
<1>2. /\ UNCHANGED <<accelDir, moduleId, gaudiTodo, gaudiAt, scan, half, indexMap, gaudiDevices,
                     gaudiPhase>>
      /\ gaudiHad \subseteq gaudiHad' /\ gaudiTouched \subseteq gaudiTouched'
  BY DEF Gaudi!kernel, Gaudi!reads, CardsSteady
<1>3. \A d \in Steadfast' : d \in Steadfast /\ accel'[d] = accel[d] /\ d \in Gaudi!Device
  BY StillSteadfast
<1>4. Gaudi!TypeOK'
  <2>1. CardTypes'
    BY <1>1, <1>2 DEF CardTypes
  <2> QED
    BY <2>1, CardTypesSplit, PTL
<1>5. CardInv'
  <2> HIDE DEF Steadfast
  <2> QED
    BY <1>1, <1>2, <1>3 DEF CardInv
<1>6. IndexMapInv'
  <2>1. Gaudi!Mapping' <=> Gaudi!Mapping
    BY <1>2 DEF Gaudi!Mapping
  <2>2. \A S : Gaudi!FirstIn(S)' = Gaudi!FirstIn(S)
    BY DEF Gaudi!FirstIn
  <2>3. \A d \in DOMAIN indexMap : <<d, indexMap[d].accelIdx>> \in gaudiHad'
    BY <1>1, <1>2 DEF IndexMapInv
  <2>4. \A d \in DOMAIN indexMap \cap Steadfast' :
          indexMap[d].accelIdx = accel'[d] /\ indexMap[d].moduleIdx = ModuleOf[d]
    BY <1>1, <1>3 DEF IndexMapInv
  <2>5. half # None =>
          \A i \in Gaudi!FirstIn(scan), d \in Steadfast' : accel'[d] = i => half = ModuleOf[d]
    BY <1>1, <1>3 DEF IndexMapInv
  <2>6. Gaudi!Mapping => \A d \in Steadfast' : accel'[d] \in scan \/ d \in DOMAIN indexMap
    BY <1>1, <1>3 DEF IndexMapInv
  <2> QED
    BY <1>2, <2>1, <2>2, <2>3, <2>4, <2>5, <2>6 DEF IndexMapInv, Gaudi!FirstIn
<1>7. CardTodoInv'
  <2>1. ASSUME NEW i \in gaudiTodo, GaudiAddresses[i] \notin gaudiTouched'
        PROVE  GaudiAddresses[i] \in bound'
    <3>1. GaudiAddresses[i] \in Gaudi!Device
      BY <1>1, CardAt DEF CardTypes
    <3>2. GaudiAddresses[i] \in bound
      BY <1>1, <1>2, <2>1 DEF CardTodoInv
    <3> QED
      BY <2>1, <3>1, <3>2 DEF CardsSteady
  <2> QED
    BY <1>1, <1>2, <2>1 DEF CardTodoInv
<1>8. CardStoredInv'
  <2> SUFFICES ASSUME NEW d \in DOMAIN gaudiDevices
               PROVE  /\ <<d, gaudiDevices[d].index>> \in gaudiHad'
                      /\ d \in Steadfast' => /\ gaudiDevices[d].index = accel'[d]
                                             /\ gaudiDevices[d].module = ModuleOf[d]
                                             /\ gaudiDevices[d].uverbs = Gaudi!TheOne(UverbsOf[d])
    BY <1>2 DEF CardStoredInv, Gaudi!TheOne
  <2> QED
    BY <1>1, <1>2, <1>3 DEF CardStoredInv
<1>9. CardCompleteInv'
  BY <1>1, <1>2, <1>3 DEF CardCompleteInv, CardReached
<1> QED
  BY <1>4, <1>5, <1>6, <1>7, <1>8, <1>9 DEF GaudiInv

----------------------------------------------------------------------------
(* The readings of scanDevicesFromDriverDirFiles and of the fallback. *)

SameCards == UNCHANGED <<bound, accel, accelDir, moduleId, gaudiTouched, gaudiHad, gaudiChanges>>

LEMMA SameAccel ==
  ASSUME GaudiInv, SameCards, gaudiPhase = "wait" <=> gaudiPhase' = "wait"
  PROVE  AccelTypes' /\ AccelInv' /\ AccelHadInv' /\ Steadfast' = Steadfast
<1>1. AccelTypes'
  BY CardTypesSplit DEF GaudiInv, SameCards, AccelTypes
<1>2. AccelInv' /\ AccelHadInv'
  BY DEF GaudiInv, SameCards, AccelInv, AccelHadInv
<1>3. Steadfast' = Steadfast
  BY DEF SameCards, Steadfast
<1> QED
  BY <1>1, <1>2, <1>3

LEMMA CardEnvIsSame ==
  ASSUME Gaudi!Env PROVE SameCards
  BY DEF Gaudi!Env, Gaudi!kernel, Gaudi!sysfs, SameCards

LEMMA SameCardsStored ==
  ASSUME CardStoredInv, SameCards, Steadfast' = Steadfast, UNCHANGED gaudiDevices
  PROVE  CardStoredInv'
<1> SUFFICES ASSUME NEW d \in DOMAIN gaudiDevices
             PROVE  /\ <<d, gaudiDevices[d].index>> \in gaudiHad
                    /\ d \in Steadfast => /\ gaudiDevices[d].index = accel[d]
                                          /\ gaudiDevices[d].module = ModuleOf[d]
                                          /\ gaudiDevices[d].uverbs = Gaudi!TheOne(UverbsOf[d])
  BY DEF CardStoredInv, SameCards, Gaudi!TheOne
<1> QED
  BY DEF CardStoredInv

LEMMA SameIndexMap ==
  ASSUME IndexMapInv, SameCards, Steadfast' = Steadfast, UNCHANGED <<scan, half, indexMap>>,
         Gaudi!Mapping' => Gaudi!Mapping
  PROVE  IndexMapInv'
  BY DEF IndexMapInv, SameCards, Gaudi!FirstIn

\* A step that only changes which device is looked at and what is known of it.
LEMMA CardLookKeeps ==
  ASSUME GaudiInv, SameCards, gaudiPhase = "scanning",
         UNCHANGED <<scan, half, indexMap, gaudiDevices, gaudiPhase>>,
         gaudiTodo' \subseteq gaudiTodo, gaudiAt' \in Gaudi!Found \cup {None},
         Gaudi!Mapping' => Gaudi!Mapping,
         CardInv',
         \A d \in Steadfast : CardReached(d) => CardReached(d)'
  PROVE  GaudiInv'
<1>1. /\ Gaudi!TypeOK /\ CardTypes /\ IndexMapInv
      /\ CardTodoInv /\ CardStoredInv /\ CardCompleteInv
  BY CardTypesSplit DEF GaudiInv
<1>2. AccelTypes' /\ AccelInv' /\ AccelHadInv' /\ Steadfast' = Steadfast
  BY SameAccel
<1>3. Gaudi!TypeOK'
  <2>1. CardTypes'
    BY <1>1 DEF CardTypes, SameCards
  <2> QED
    BY <1>2, <2>1, CardTypesSplit, PTL
<1>4. IndexMapInv' /\ CardStoredInv'
  BY <1>1, <1>2, SameIndexMap, SameCardsStored
<1>5. CardTodoInv'
  BY <1>1 DEF CardTodoInv, SameCards
<1>6. CardCompleteInv'
  BY <1>1, <1>2 DEF CardCompleteInv
<1> QED
  BY <1>2, <1>3, <1>4, <1>5, <1>6 DEF GaudiInv

LEMMA CardBeginKeeps ==
  ASSUME GaudiInv, Gaudi!Begin
  PROVE  GaudiInv'
<1>1. /\ AccelTypes /\ CardTypes /\ AccelInv /\ CardTodoInv
  BY CardTypesSplit DEF GaudiInv
<1>2. /\ gaudiPhase = "wait" /\ gaudiPhase' = "scanning" /\ gaudiTouched' = {}
      /\ gaudiTodo' = {i \in DOMAIN GaudiAddresses : GaudiAddresses[i] \in bound}
      /\ gaudiHad' = {<<d, accel[d]>> : d \in {e \in Gaudi!Device : accel[e] # None}}
      /\ UNCHANGED <<accelDir, moduleId, bound, accel, gaudiAt, scan, half, indexMap,
                     gaudiDevices, gaudiChanges>>
  BY DEF Gaudi!Begin, Gaudi!kernel, Gaudi!sysfs
<1>3. gaudiAt = None /\ gaudiDevices = <<>> /\ indexMap = <<>> /\ half = None
  BY <1>1, <1>2 DEF CardTodoInv
<1>4. DOMAIN gaudiDevices = {} /\ DOMAIN indexMap = {}
  BY <1>3
<1>5. Gaudi!TypeOK'
  <2>1. AccelTypes' /\ CardTypes'
    BY <1>1, <1>2 DEF AccelTypes, CardTypes
  <2> QED
    BY <2>1, CardTypesSplit, PTL
<1>6. AccelInv' /\ AccelHadInv'
  BY <1>1, <1>2 DEF AccelInv, AccelHadInv
<1>7. CardInv' /\ CardStoredInv'
  BY <1>2, <1>3, <1>4 DEF CardInv, CardStoredInv
<1>8. IndexMapInv'
  <2>1. ~Gaudi!Mapping'
    BY <1>2, <1>3 DEF Gaudi!Mapping
  <2> QED
    BY <1>2, <1>3, <1>4, <2>1 DEF IndexMapInv
<1>9. CardTodoInv'
  BY <1>2, <1>3 DEF CardTodoInv
<1>10. CardCompleteInv'
  <2> SUFFICES ASSUME NEW d \in Gaudi!Device, accel[d] # None
               PROVE  \E i \in gaudiTodo' : GaudiAddresses[i] = d
    BY <1>2 DEF CardCompleteInv, Steadfast, CardReached
  <2>1. d \in bound
    BY <1>1 DEF AccelInv
  <2> QED
    BY <1>2, <2>1, CardAt
<1> QED
  BY <1>5, <1>6, <1>7, <1>8, <1>9, <1>10 DEF GaudiInv

LEMMA ReadDeviceIdKeeps ==
  ASSUME GaudiInv, Gaudi!ReadDeviceId
  PROVE  GaudiInv'
<1>1. CardTypes /\ AccelInv /\ CardTodoInv
  BY CardTypesSplit DEF GaudiInv
<1>2. /\ SameCards /\ gaudiPhase = "scanning" /\ gaudiAt = None
      /\ UNCHANGED <<scan, half, indexMap, gaudiDevices, gaudiPhase>>
  BY CardEnvIsSame DEF Gaudi!ReadDeviceId
<1>3. PICK i \in Gaudi!FirstIn(gaudiTodo) :
        /\ gaudiTodo' = gaudiTodo \ {i}
        /\ gaudiAt' = IF GaudiAddresses[i] \in bound
                        THEN [dev |-> GaudiAddresses[i], step |-> "accel",
                              index |-> None, module |-> None]
                        ELSE None
  BY Zenon DEF Gaudi!ReadDeviceId
<1>4. i \in gaudiTodo /\ GaudiAddresses[i] \in Gaudi!Device
  BY <1>1, <1>3, CardAt DEF Gaudi!FirstIn, CardTypes
<1>5. CASE GaudiAddresses[i] \in bound
  <2>1. /\ gaudiAt' \in Gaudi!Found /\ gaudiAt' # None
        /\ gaudiAt'.step = "accel" /\ gaudiAt'.index = None /\ gaudiAt'.dev = GaudiAddresses[i]
    BY <1>3, <1>4, <1>5, CardConstants DEF Gaudi!Found
  <2>2. CardInv'
    BY <1>2, <2>1 DEF CardInv
  <2>3. ~Gaudi!Mapping'
    BY <2>1 DEF Gaudi!Mapping
  <2>4. \A d \in Steadfast : CardReached(d) => CardReached(d)'
    BY <1>2, <1>3, <2>1 DEF CardReached
  <2> QED
    BY <1>2, <1>3, <2>1, <2>2, <2>3, <2>4, CardLookKeeps
<1>6. CASE GaudiAddresses[i] \notin bound
  <2>1. gaudiAt' = None
    BY <1>3, <1>6
  <2>2. CardInv' /\ ~Gaudi!Mapping'
    BY <2>1 DEF CardInv, Gaudi!Mapping
  <2>3. GaudiAddresses[i] \notin Steadfast
    BY <1>1, <1>6 DEF AccelInv, Steadfast
  <2>4. \A d \in Steadfast : CardReached(d) => CardReached(d)'
    BY <1>2, <1>3, <2>3 DEF CardReached
  <2> QED
    BY <1>2, <1>3, <2>1, <2>2, <2>4, CardLookKeeps
<1> QED
  BY <1>5, <1>6

\* The fallback starts with every entry there is.
LEMMA FallbackKeeps ==
  ASSUME GaudiInv, SameCards, gaudiAt # None, gaudiAt.step \in {"accel", "module"},
         Gaudi!Fallback
  PROVE  GaudiInv'
<1>1. /\ CardTypes /\ AccelTypes /\ CardInv /\ IndexMapInv
      /\ CardTodoInv /\ CardStoredInv /\ CardCompleteInv
  BY CardTypesSplit DEF GaudiInv
<1>2. /\ gaudiAt' = [gaudiAt EXCEPT !.step = IF @ = "accel" THEN "accelMap" ELSE "moduleMap"]
      /\ scan' = Gaudi!Registered /\ indexMap' = <<>> /\ half' = None
      /\ UNCHANGED <<gaudiTodo, gaudiDevices, gaudiPhase>>
  BY DEF Gaudi!Fallback
<1>3. /\ gaudiAt \in Gaudi!Found
      /\ gaudiAt' \in Gaudi!Found /\ gaudiAt' # None /\ gaudiAt'.dev = gaudiAt.dev
      /\ gaudiAt'.index = gaudiAt.index /\ gaudiAt'.module = gaudiAt.module
      /\ gaudiAt'.step = IF gaudiAt.step = "accel" THEN "accelMap" ELSE "moduleMap"
  BY <1>1, <1>2, CardConstants DEF CardTypes, Gaudi!Found
<1>4. AccelTypes' /\ AccelInv' /\ AccelHadInv' /\ Steadfast' = Steadfast
  BY <1>2, SameAccel
<1>5. Gaudi!Registered \subseteq Gaudi!Indices
  BY <1>1 DEF Gaudi!Registered, AccelTypes
<1>6. DOMAIN indexMap' = {}
  BY <1>2
<1>7. Gaudi!TypeOK'
  <2>1. CardTypes'
    BY <1>1, <1>2, <1>3, <1>5, <1>6 DEF CardTypes, SameCards
  <2> QED
    BY <1>4, <2>1, CardTypesSplit, PTL
<1>8. CardInv'
  BY <1>1, <1>2, <1>3, <1>4 DEF CardInv, SameCards
<1>9. IndexMapInv'
  <2>1. \A d \in Steadfast : accel[d] \in scan'
    BY <1>2 DEF Gaudi!Registered, Steadfast
  <2> QED
    BY <1>2, <1>4, <1>6, <2>1 DEF IndexMapInv, SameCards
<1>10. CardTodoInv'
  BY <1>1, <1>2, <1>3 DEF CardTodoInv, CardInv, SameCards
<1>11. CardStoredInv'
  BY <1>1, <1>2, <1>4, SameCardsStored
<1>12. CardCompleteInv'
  BY <1>1, <1>2, <1>3, <1>4 DEF CardCompleteInv, CardReached
<1> QED
  BY <1>4, <1>7, <1>8, <1>9, <1>10, <1>11, <1>12 DEF GaudiInv

LEMMA ReadAccelKeeps ==
  ASSUME GaudiInv, Gaudi!ReadAccel
  PROVE  GaudiInv'
<1>1. CardTypes /\ AccelTypes /\ CardInv /\ AccelHadInv
  BY CardTypesSplit DEF GaudiInv
<1>2. SameCards /\ gaudiAt # None /\ gaudiAt.step = "accel" /\ gaudiAt \in Gaudi!Found
  BY <1>1, CardEnvIsSame DEF Gaudi!ReadAccel, CardTypes
<1>3. gaudiPhase = "scanning" /\ gaudiAt.dev \in Gaudi!Device
  BY <1>1, <1>2 DEF CardInv, Gaudi!Found
<1>4. CASE Gaudi!AccelHere
  <2>1. /\ gaudiAt' = [gaudiAt EXCEPT !.step = "module", !.index = accel[gaudiAt.dev]]
        /\ UNCHANGED <<gaudiTodo, scan, half, indexMap, gaudiDevices, gaudiPhase>>
        /\ accel[gaudiAt.dev] # None
    BY <1>4 DEF Gaudi!ReadAccel, Gaudi!AccelHere
  <2>2. accel[gaudiAt.dev] \in Gaudi!Indices \cup {None}
    BY <1>1, <1>3 DEF AccelTypes
  <2>3. /\ gaudiAt' \in Gaudi!Found /\ gaudiAt' # None /\ gaudiAt'.dev = gaudiAt.dev
        /\ gaudiAt'.step = "module" /\ gaudiAt'.index = accel[gaudiAt.dev]
    BY <1>2, <2>1, <2>2, CardConstants DEF Gaudi!Found
  <2>4. <<gaudiAt.dev, accel[gaudiAt.dev]>> \in gaudiHad
    BY <1>1, <1>3, <2>1 DEF AccelHadInv
  <2>5. CardInv'
    BY <1>2, <1>3, <2>1, <2>3, <2>4 DEF CardInv, SameCards, Steadfast
  <2>6. ~Gaudi!Mapping' /\ \A d \in Steadfast : CardReached(d) => CardReached(d)'
    BY <1>2, <2>1, <2>3 DEF Gaudi!Mapping, CardReached
  <2> QED
    BY <1>2, <1>3, <2>1, <2>3, <2>5, <2>6, CardLookKeeps
<1>5. CASE ~Gaudi!AccelHere
  BY <1>2, <1>5, FallbackKeeps DEF Gaudi!ReadAccel
<1> QED
  BY <1>4, <1>5

LEMMA ReadModuleKeeps ==
  ASSUME GaudiInv, Gaudi!ReadModule
  PROVE  GaudiInv'
<1>1. CardTypes /\ CardInv
  BY CardTypesSplit DEF GaudiInv
<1>2. SameCards /\ gaudiAt # None /\ gaudiAt.step = "module" /\ gaudiAt \in Gaudi!Found
  BY <1>1, CardEnvIsSame DEF Gaudi!ReadModule, CardTypes
<1>3. gaudiPhase = "scanning" /\ gaudiAt.dev \in Gaudi!Device
  BY <1>1, <1>2 DEF CardInv, Gaudi!Found
<1>4. CASE Gaudi!ModuleHere
  <2>1. /\ gaudiAt' = [gaudiAt EXCEPT !.step = "store", !.module = ModuleOf[gaudiAt.dev]]
        /\ UNCHANGED <<gaudiTodo, scan, half, indexMap, gaudiDevices, gaudiPhase>>
    BY <1>4 DEF Gaudi!ReadModule
  <2>2. ModuleOf[gaudiAt.dev] \in Gaudi!Modules /\ ModuleOf[gaudiAt.dev] # None
    BY <1>3, CardConstants
  <2>3. /\ gaudiAt' \in Gaudi!Found /\ gaudiAt' # None /\ gaudiAt'.dev = gaudiAt.dev
        /\ gaudiAt'.step = "store" /\ gaudiAt'.index = gaudiAt.index
        /\ gaudiAt'.module = ModuleOf[gaudiAt.dev]
    BY <1>2, <2>1, <2>2, CardConstants DEF Gaudi!Found
  <2>4. CardInv'
    BY <1>1, <1>2, <1>3, <2>1, <2>2, <2>3 DEF CardInv, SameCards, Steadfast
  <2>5. ~Gaudi!Mapping' /\ \A d \in Steadfast : CardReached(d) => CardReached(d)'
    BY <1>2, <2>1, <2>3 DEF Gaudi!Mapping, CardReached
  <2> QED
    BY <1>2, <1>3, <2>1, <2>3, <2>4, <2>5, CardLookKeeps
<1>5. CASE ~Gaudi!ModuleHere
  BY <1>2, <1>5, FallbackKeeps DEF Gaudi!ReadModule
<1> QED
  BY <1>4, <1>5

LEMMA OneFirst ==
  ASSUME CardTypes, NEW i \in Gaudi!FirstIn(scan), NEW j \in Gaudi!FirstIn(scan)
  PROVE  i = j
<1>1. i \in Nat /\ j \in Nat /\ i <= j /\ j <= i
  BY CardConstants DEF CardTypes, Gaudi!FirstIn
<1> QED
  BY <1>1

\* A step of the fallback's scan.
LEMMA ScanKeeps ==
  ASSUME GaudiInv, SameCards, Gaudi!Mapping,
         UNCHANGED <<gaudiTodo, gaudiAt, gaudiDevices, gaudiPhase>>,
         scan' \subseteq scan, half' \in Gaudi!Modules \cup {None},
         \A d \in DOMAIN indexMap' :
           indexMap'[d] \in [accelIdx : Gaudi!Indices, moduleIdx : Gaudi!Modules],
         IndexMapInv'
  PROVE  GaudiInv'
<1>1. /\ CardTypes /\ CardInv /\ CardTodoInv /\ CardStoredInv /\ CardCompleteInv
  BY CardTypesSplit DEF GaudiInv
<1>2. gaudiPhase = "scanning"
  BY <1>1 DEF CardInv, Gaudi!Mapping
<1>3. AccelTypes' /\ AccelInv' /\ AccelHadInv' /\ Steadfast' = Steadfast
  BY SameAccel
<1>4. Gaudi!TypeOK'
  <2>1. CardTypes'
    BY <1>1 DEF CardTypes, SameCards
  <2> QED
    BY <1>3, <2>1, CardTypesSplit, PTL
<1>5. CardInv' /\ CardTodoInv'
  BY <1>1, <1>2, <1>3 DEF CardInv, CardTodoInv, SameCards
<1>6. CardStoredInv'
  BY <1>1, <1>3, SameCardsStored
<1>7. CardCompleteInv'
  BY <1>1, <1>3 DEF CardCompleteInv, CardReached
<1> QED
  BY <1>3, <1>4, <1>5, <1>6, <1>7 DEF GaudiInv

LEMMA ReadEntryModuleKeeps ==
  ASSUME GaudiInv, Gaudi!ReadEntryModule
  PROVE  GaudiInv'
<1>1. CardTypes /\ AccelTypes /\ AccelInv /\ CardInv /\ IndexMapInv
  BY CardTypesSplit DEF GaudiInv
<1>2. /\ SameCards /\ Gaudi!Mapping /\ half = None
      /\ UNCHANGED <<gaudiTodo, gaudiAt, indexMap, gaudiDevices, gaudiPhase>>
  BY CardEnvIsSame DEF Gaudi!ReadEntryModule
<1>3. PICK i \in Gaudi!FirstIn(scan) :
        \/ Gaudi!OwnerOf(i) = {} /\ scan' = scan \ {i} /\ UNCHANGED half
        \/ \E d \in Gaudi!OwnerOf(i) : half' = ModuleOf[d] /\ UNCHANGED scan
  BY Zenon DEF Gaudi!ReadEntryModule
<1>4. Steadfast' = Steadfast /\ Gaudi!Mapping' /\ gaudiHad' = gaudiHad /\ accel' = accel
  BY <1>2, SameAccel DEF Gaudi!Mapping, SameCards
<1>5. \A d \in DOMAIN indexMap :
        indexMap[d] \in [accelIdx : Gaudi!Indices, moduleIdx : Gaudi!Modules]
  BY <1>1 DEF CardTypes
<1>6. CASE Gaudi!OwnerOf(i) = {} /\ scan' = scan \ {i} /\ UNCHANGED half
  <2>1. \A d \in Steadfast : accel[d] # i
    BY <1>6 DEF Gaudi!OwnerOf, Steadfast
  <2>2. IndexMapInv'
    BY <1>1, <1>2, <1>4, <1>6, <2>1 DEF IndexMapInv
  <2> QED
    BY <1>1, <1>2, <1>5, <1>6, <2>2, ScanKeeps DEF CardTypes
<1>7. ASSUME NEW d \in Gaudi!OwnerOf(i), half' = ModuleOf[d], UNCHANGED scan
      PROVE  GaudiInv'
  <2>1. d \in Gaudi!Device /\ accel[d] = i
    BY DEF Gaudi!OwnerOf
  <2>2. half' \in Gaudi!Modules
    BY <1>7, <2>1, CardConstants
  <2>3. \A j \in Gaudi!FirstIn(scan) : j = i
    BY <1>1, OneFirst
  <2>4. \A j \in Gaudi!FirstIn(scan), e \in Steadfast : accel[e] = j => half' = ModuleOf[e]
    BY <1>1, <1>7, <2>1, <2>3 DEF AccelInv, Steadfast
  <2>5. IndexMapInv'
    BY <1>1, <1>2, <1>4, <1>7, <2>4 DEF IndexMapInv, Gaudi!FirstIn
  <2> QED
    BY <1>2, <1>5, <1>7, <2>2, <2>5, ScanKeeps
<1> QED
  BY <1>3, <1>6, <1>7

LEMMA ReadEntryAddressKeeps ==
  ASSUME GaudiInv, Gaudi!ReadEntryAddress
  PROVE  GaudiInv'
<1>1. CardTypes /\ AccelTypes /\ AccelInv /\ AccelHadInv /\ CardInv /\ IndexMapInv
  BY CardTypesSplit DEF GaudiInv
<1>2. /\ SameCards /\ Gaudi!Mapping /\ half # None /\ half' = None
      /\ UNCHANGED <<gaudiTodo, gaudiAt, gaudiDevices, gaudiPhase>>
  BY CardEnvIsSame DEF Gaudi!ReadEntryAddress
<1>3. PICK i \in Gaudi!FirstIn(scan) :
        /\ scan' = scan \ {i}
        /\ \/ Gaudi!OwnerOf(i) = {} /\ UNCHANGED indexMap
           \/ \E d \in Gaudi!OwnerOf(i) : indexMap' = Gaudi!Put(d, i)
  BY Zenon DEF Gaudi!ReadEntryAddress
<1>4. Steadfast' = Steadfast /\ Gaudi!Mapping' /\ gaudiHad' = gaudiHad /\ accel' = accel
  BY <1>2, SameAccel DEF Gaudi!Mapping, SameCards
<1>5. \A d \in DOMAIN indexMap :
        indexMap[d] \in [accelIdx : Gaudi!Indices, moduleIdx : Gaudi!Modules]
  BY <1>1 DEF CardTypes
<1>6. CASE Gaudi!OwnerOf(i) = {} /\ UNCHANGED indexMap
  <2>1. \A d \in Steadfast : accel[d] # i
    BY <1>6 DEF Gaudi!OwnerOf, Steadfast
  <2>2. IndexMapInv'
    BY <1>1, <1>2, <1>3, <1>4, <1>6, <2>1 DEF IndexMapInv
  <2> QED
    BY <1>2, <1>3, <1>5, <1>6, <2>2, ScanKeeps
<1>7. ASSUME NEW d \in Gaudi!OwnerOf(i), indexMap' = Gaudi!Put(d, i)
      PROVE  GaudiInv'
  <2>1. d \in Gaudi!Device /\ accel[d] = i /\ i \in scan
    BY <1>3 DEF Gaudi!OwnerOf, Gaudi!FirstIn
  <2>2. i \in Gaudi!Indices /\ i # None /\ half \in Gaudi!Modules
    BY <1>1, <1>2, <2>1, CardConstants DEF CardTypes
  <2>3. indexMap' = [e \in DOMAIN indexMap \cup {d} |->
                       IF e = d THEN [accelIdx |-> i, moduleIdx |-> half] ELSE indexMap[e]]
    BY <1>7 DEF Gaudi!Put, Gaudi!IndexOf
  <2>4. /\ DOMAIN indexMap' = DOMAIN indexMap \cup {d}
        /\ indexMap'[d].accelIdx = i /\ indexMap'[d].moduleIdx = half
        /\ indexMap'[d] \in [accelIdx : Gaudi!Indices, moduleIdx : Gaudi!Modules]
        /\ \A e \in DOMAIN indexMap : e # d => indexMap'[e] = indexMap[e]
    BY <2>2, <2>3
  <2>5. \A e \in DOMAIN indexMap' :
          indexMap'[e] \in [accelIdx : Gaudi!Indices, moduleIdx : Gaudi!Modules]
    BY <1>5, <2>4
  <2>6. <<d, i>> \in gaudiHad
    BY <1>1, <1>2, <2>1, <2>2 DEF AccelHadInv, CardInv, Gaudi!Mapping
  <2>7. \A e \in DOMAIN indexMap' : <<e, indexMap'[e].accelIdx>> \in gaudiHad
    BY <1>1, <2>4, <2>6 DEF IndexMapInv
  <2>8. d \in Steadfast => half = ModuleOf[d]
    BY <1>1, <1>2, <1>3, <2>1 DEF IndexMapInv
  <2>9. \A e \in DOMAIN indexMap' \cap Steadfast :
          indexMap'[e].accelIdx = accel[e] /\ indexMap'[e].moduleIdx = ModuleOf[e]
    BY <1>1, <2>1, <2>4, <2>8 DEF IndexMapInv
  <2>10. \A e \in Steadfast : accel[e] = i => e = d
    BY <1>1, <2>1 DEF AccelInv, Steadfast
  <2>11. \A e \in Steadfast : accel[e] \in scan' \/ e \in DOMAIN indexMap'
    BY <1>1, <1>2, <1>3, <2>4, <2>10 DEF IndexMapInv
  <2>12. IndexMapInv'
    BY <1>2, <1>4, <2>7, <2>9, <2>11 DEF IndexMapInv
  <2> QED
    BY <1>2, <1>3, <2>5, <2>12, ScanKeeps
<1> QED
  BY <1>3, <1>6, <1>7

LEMMA UseMapKeeps ==
  ASSUME GaudiInv, Gaudi!UseMap
  PROVE  GaudiInv'
<1>1. CardTypes /\ CardInv /\ IndexMapInv
  BY CardTypesSplit DEF GaudiInv
<1>2. /\ SameCards /\ Gaudi!Mapping /\ scan = {} /\ gaudiAt # None /\ gaudiAt \in Gaudi!Found
      /\ gaudiAt.step \in {"accelMap", "moduleMap"}
  BY <1>1, CardEnvIsSame DEF Gaudi!UseMap, Gaudi!Mapping, CardTypes
<1>3. gaudiPhase = "scanning" /\ gaudiAt.dev \in Gaudi!Device
  BY <1>1, <1>2 DEF CardInv, Gaudi!Found
<1>4. CASE Gaudi!EntryOf(gaudiAt.dev) = {}
  <2>1. /\ gaudiAt' = None
        /\ UNCHANGED <<gaudiTodo, scan, half, indexMap, gaudiDevices, gaudiPhase>>
    BY <1>4 DEF Gaudi!UseMap, Gaudi!LeaveOut
  <2>2. gaudiAt.dev \notin Steadfast
    BY <1>1, <1>2, <1>4 DEF IndexMapInv, Gaudi!EntryOf
  <2>3. CardInv' /\ ~Gaudi!Mapping'
    BY <2>1 DEF CardInv, Gaudi!Mapping
  <2>4. \A d \in Steadfast : CardReached(d) => CardReached(d)'
    BY <2>1, <2>2 DEF CardReached
  <2> QED
    BY <1>2, <1>3, <2>1, <2>3, <2>4, CardLookKeeps
<1>5. CASE Gaudi!EntryOf(gaudiAt.dev) # {}
  <2> DEFINE entry == indexMap[gaudiAt.dev]
  <2>1. /\ gaudiAt' = IF gaudiAt.step = "accelMap"
                        THEN [gaudiAt EXCEPT !.step = "module", !.index = entry.accelIdx]
                        ELSE [gaudiAt EXCEPT !.step = "store", !.module = entry.moduleIdx]
        /\ UNCHANGED <<gaudiTodo, scan, half, indexMap, gaudiDevices, gaudiPhase>>
        /\ gaudiAt.dev \in DOMAIN indexMap
    BY <1>5 DEF Gaudi!UseMap, Gaudi!EntryOf
  <2>2. /\ entry.accelIdx \in Gaudi!Indices /\ entry.moduleIdx \in Gaudi!Modules
        /\ entry.accelIdx # None /\ entry.moduleIdx # None
    BY <1>1, <2>1, CardConstants DEF CardTypes
  <2>3. /\ <<gaudiAt.dev, entry.accelIdx>> \in gaudiHad
        /\ gaudiAt.dev \in Steadfast =>
             entry.accelIdx = accel[gaudiAt.dev] /\ entry.moduleIdx = ModuleOf[gaudiAt.dev]
    BY <1>1, <2>1 DEF IndexMapInv
  <2> HIDE DEF entry
  <2>4. /\ gaudiAt' \in Gaudi!Found /\ gaudiAt' # None /\ gaudiAt'.dev = gaudiAt.dev
        /\ \/ /\ gaudiAt.step = "accelMap" /\ gaudiAt'.step = "module"
              /\ gaudiAt'.index = entry.accelIdx
           \/ /\ gaudiAt.step = "moduleMap" /\ gaudiAt'.step = "store"
              /\ gaudiAt'.index = gaudiAt.index /\ gaudiAt'.module = entry.moduleIdx
    BY <1>2, <2>1, <2>2, CardConstants DEF Gaudi!Found
  <2>5. CardInv'
    <3>1. Steadfast' = Steadfast /\ gaudiHad' = gaudiHad /\ accel' = accel
      BY <1>2 DEF SameCards, Steadfast
    <3> QED
      BY <1>1, <1>2, <1>3, <2>1, <2>2, <2>3, <2>4, <3>1 DEF CardInv
  <2>6. ~Gaudi!Mapping' /\ \A d \in Steadfast : CardReached(d) => CardReached(d)'
    BY <1>2, <2>1, <2>4 DEF Gaudi!Mapping, CardReached
  <2> QED
    BY <1>2, <1>3, <2>1, <2>4, <2>5, <2>6, CardLookKeeps
<1> QED
  BY <1>4, <1>5

LEMMA CardStoreKeeps ==
  ASSUME GaudiInv, Gaudi!Store
  PROVE  GaudiInv'
<1> DEFINE info == [index |-> gaudiAt.index, module |-> gaudiAt.module,
                    uverbs |-> Gaudi!TheOne(IF gaudiAt.dev \in bound
                                              THEN UverbsOf[gaudiAt.dev] ELSE {})]
<1>1. /\ CardTypes /\ AccelInv /\ CardInv /\ IndexMapInv /\ CardTodoInv /\ CardStoredInv
      /\ CardCompleteInv
  BY CardTypesSplit DEF GaudiInv
<1>2. /\ SameCards /\ gaudiAt # None /\ gaudiAt.step = "store" /\ gaudiAt \in Gaudi!Found
      /\ gaudiAt' = None /\ UNCHANGED <<gaudiTodo, scan, half, indexMap, gaudiPhase>>
  BY <1>1, CardEnvIsSame DEF Gaudi!Store, CardTypes
<1>3. gaudiDevices' = [d \in DOMAIN gaudiDevices \cup {gaudiAt.dev} |->
                         IF d = gaudiAt.dev THEN info ELSE gaudiDevices[d]]
  BY Zenon DEF Gaudi!Store
<1>4. /\ gaudiAt.dev \in Gaudi!Device
      /\ gaudiAt.index \in Gaudi!Indices /\ gaudiAt.module \in Gaudi!Modules
      /\ <<gaudiAt.dev, gaudiAt.index>> \in gaudiHad
      /\ gaudiAt.dev \in Steadfast =>
           gaudiAt.index = accel[gaudiAt.dev] /\ gaudiAt.module = ModuleOf[gaudiAt.dev]
  BY <1>1, <1>2 DEF CardInv, Gaudi!Found
<1>5. /\ info.index = gaudiAt.index /\ info.module = gaudiAt.module
      /\ gaudiAt.dev \in Steadfast => info.uverbs = Gaudi!TheOne(UverbsOf[gaudiAt.dev])
  BY <1>1 DEF AccelInv, Steadfast
<1> HIDE DEF info
<1>6. AccelTypes' /\ AccelInv' /\ AccelHadInv' /\ Steadfast' = Steadfast
  BY <1>2, SameAccel
<1>7. Gaudi!TypeOK'
  <2>1. CardTypes'
    BY <1>1, <1>2, <1>3, <1>4, <1>5 DEF CardTypes, SameCards
  <2> QED
    BY <1>6, <2>1, CardTypesSplit, PTL
<1>8. CardInv' /\ CardTodoInv'
  BY <1>1, <1>2 DEF CardInv, CardTodoInv, SameCards
<1>9. IndexMapInv'
  <2>1. ~Gaudi!Mapping'
    BY <1>2 DEF Gaudi!Mapping
  <2> QED
    BY <1>1, <1>2, <1>6, <2>1, SameIndexMap
<1>10. CardStoredInv'
  <2> SUFFICES ASSUME NEW d \in DOMAIN gaudiDevices'
               PROVE  /\ <<d, gaudiDevices'[d].index>> \in gaudiHad
                      /\ d \in Steadfast =>
                           /\ gaudiDevices'[d].index = accel[d]
                           /\ gaudiDevices'[d].module = ModuleOf[d]
                           /\ gaudiDevices'[d].uverbs = Gaudi!TheOne(UverbsOf[d])
    BY <1>2, <1>6 DEF CardStoredInv, SameCards, Gaudi!TheOne
  <2>1. CASE d = gaudiAt.dev
    BY <1>3, <1>4, <1>5, <2>1
  <2>2. CASE d # gaudiAt.dev
    BY <1>1, <1>3, <2>2 DEF CardStoredInv
  <2> QED
    BY <2>1, <2>2
<1>11. CardCompleteInv'
  BY <1>1, <1>2, <1>3, <1>6 DEF CardCompleteInv, CardReached
<1> QED
  BY <1>6, <1>7, <1>8, <1>9, <1>10, <1>11 DEF GaudiInv

LEMMA FinishKeeps ==
  ASSUME GaudiInv, Gaudi!Finish
  PROVE  GaudiInv'
<1>1. /\ CardTypes /\ CardInv /\ IndexMapInv /\ CardTodoInv /\ CardStoredInv
      /\ CardCompleteInv
  BY CardTypesSplit DEF GaudiInv
<1>2. /\ SameCards /\ gaudiPhase = "scanning" /\ gaudiPhase' = "done"
      /\ gaudiAt = None /\ gaudiTodo = {}
      /\ UNCHANGED <<gaudiTodo, gaudiAt, scan, half, indexMap, gaudiDevices>>
  BY CardEnvIsSame DEF Gaudi!Finish
<1>3. AccelTypes' /\ AccelInv' /\ AccelHadInv' /\ Steadfast' = Steadfast
  BY <1>2, SameAccel
<1>4. Gaudi!TypeOK'
  <2>1. CardTypes'
    BY <1>1, <1>2 DEF CardTypes, SameCards
  <2> QED
    BY <1>3, <2>1, CardTypesSplit, PTL
<1>5. CardInv' /\ CardTodoInv'
  BY <1>1, <1>2 DEF CardInv, CardTodoInv
<1>6. IndexMapInv'
  <2>1. ~Gaudi!Mapping'
    BY <1>2 DEF Gaudi!Mapping
  <2> QED
    BY <1>1, <1>2, <1>3, <2>1, SameIndexMap
<1>7. CardStoredInv'
  BY <1>1, <1>2, <1>3, SameCardsStored
<1>8. CardCompleteInv'
  BY <1>1, <1>2, <1>3 DEF CardCompleteInv, CardReached
<1> QED
  BY <1>3, <1>4, <1>5, <1>6, <1>7, <1>8 DEF GaudiInv

----------------------------------------------------------------------------
(* The discovery of Gaudis as a whole. *)

LEMMA GaudiInit == Gaudi!Init => GaudiInv
<1> SUFFICES ASSUME Gaudi!Init PROVE GaudiInv
  OBVIOUS
<1>1. /\ bound = Gaudi!Device /\ accel \in [Gaudi!Device -> Gaudi!Indices]
      /\ \A d, e \in Gaudi!Device : accel[d] = accel[e] => d = e
      /\ gaudiTouched = {} /\ gaudiHad = {} /\ gaudiChanges = 0
  BY DEF Gaudi!Init
<1>2. /\ accelDir \in BOOLEAN /\ moduleId \in BOOLEAN
      /\ gaudiTodo = {} /\ gaudiAt = None /\ scan = {} /\ half = None
      /\ indexMap = <<>> /\ gaudiDevices = <<>> /\ gaudiPhase = "wait"
  BY DEF Gaudi!Init
<1>3. DOMAIN indexMap = {} /\ DOMAIN gaudiDevices = {}
  BY <1>2
<1>4. Gaudi!TypeOK
  <2>1. AccelTypes
    BY <1>1, CardConstants DEF AccelTypes
  <2>2. CardTypes
    BY <1>2, <1>3 DEF CardTypes
  <2> QED
    BY <2>1, <2>2, CardTypesSplit
<1>5. AccelInv /\ AccelHadInv
  BY <1>1, <1>2 DEF AccelInv, AccelHadInv
<1>6. CardInv /\ CardTodoInv /\ CardStoredInv /\ CardCompleteInv
  BY <1>2, <1>3 DEF CardInv, CardTodoInv, CardStoredInv, CardCompleteInv
<1>7. IndexMapInv
  BY <1>2, <1>3 DEF IndexMapInv, Gaudi!Mapping
<1> QED
  BY <1>4, <1>5, <1>6, <1>7 DEF GaudiInv

\* The other part of the program moves, or nothing does.
LEMMA GaudiStutters ==
  ASSUME GaudiInv, UNCHANGED gaudiVars
  PROVE  GaudiInv'
<1>1. SameCards /\ UNCHANGED <<gaudiTodo, gaudiAt, scan, half, indexMap, gaudiDevices, gaudiPhase>>
  BY DEF gaudiVars, SameCards
<1>2. /\ CardTypes /\ CardInv /\ IndexMapInv /\ CardTodoInv /\ CardStoredInv
      /\ CardCompleteInv
  BY CardTypesSplit DEF GaudiInv
<1>3. AccelTypes' /\ AccelInv' /\ AccelHadInv' /\ Steadfast' = Steadfast
  BY <1>1, SameAccel
<1>4. Gaudi!TypeOK'
  <2>1. CardTypes'
    BY <1>1, <1>2 DEF CardTypes, SameCards
  <2> QED
    BY <1>3, <2>1, CardTypesSplit, PTL
<1>5. CardInv' /\ CardTodoInv'
  BY <1>1, <1>2, <1>3 DEF CardInv, CardTodoInv, SameCards
<1>6. IndexMapInv' /\ CardStoredInv'
  <2>1. Gaudi!Mapping' => Gaudi!Mapping
    BY <1>1 DEF Gaudi!Mapping
  <2> QED
    BY <1>1, <1>2, <1>3, <2>1, SameIndexMap, SameCardsStored
<1>7. CardCompleteInv'
  BY <1>1, <1>2, <1>3 DEF CardCompleteInv, CardReached
<1> QED
  BY <1>3, <1>4, <1>5, <1>6, <1>7 DEF GaudiInv

LEMMA GaudiStep == GaudiInv /\ Gaudi!Next => GaudiInv'
<1> SUFFICES ASSUME GaudiInv, Gaudi!Next PROVE GaudiInv'
  OBVIOUS
<1>0. Gaudi!TypeOK /\ AccelInv /\ AccelHadInv
  BY DEF GaudiInv
<1>1. ASSUME NEW d \in Gaudi!Device, Gaudi!UnbindDevice(d) PROVE GaudiInv'
  BY <1>0, <1>1, UnbindDeviceKeeps, AccelStepKeeps
<1>2. ASSUME NEW d \in Gaudi!Device, Gaudi!BindDevice(d) PROVE GaudiInv'
  BY <1>0, <1>2, BindDeviceKeeps, AccelStepKeeps
<1>3. ASSUME NEW d \in Gaudi!Device, Gaudi!RegisterAccel(d) PROVE GaudiInv'
  BY <1>0, <1>3, RegisterKeeps, AccelStepKeeps
<1>4. CASE Gaudi!Begin
  BY <1>4, CardBeginKeeps
<1>5. CASE Gaudi!ReadDeviceId \/ Gaudi!ReadAccel \/ Gaudi!ReadModule
  BY <1>5, ReadDeviceIdKeeps, ReadAccelKeeps, ReadModuleKeeps
<1>6. CASE Gaudi!ReadEntryModule \/ Gaudi!ReadEntryAddress \/ Gaudi!UseMap
  BY <1>6, ReadEntryModuleKeeps, ReadEntryAddressKeeps, UseMapKeeps
<1>7. CASE Gaudi!Store \/ Gaudi!Finish
  BY <1>7, CardStoreKeeps, FinishKeeps
<1> QED
  BY <1>1, <1>2, <1>3, <1>4, <1>5, <1>6, <1>7, Zenon DEF Gaudi!Next

LEMMA GaudiFoundRight ==
  ASSUME GaudiInv
  PROVE  Gaudi!TypeOK /\ Gaudi!UndisturbedRight /\ Gaudi!NodesWereTheirs
<1>1. /\ Gaudi!TypeOK /\ AccelTypes /\ CardTodoInv /\ CardStoredInv /\ CardCompleteInv
  BY CardTypesSplit DEF GaudiInv
<1>2. Gaudi!UndisturbedRight
  <2> SUFFICES ASSUME gaudiPhase = "done", NEW d \in bound \ gaudiTouched, accel[d] # None
               PROVE  /\ d \in DOMAIN gaudiDevices
                      /\ gaudiDevices[d].index = accel[d]
                      /\ gaudiDevices[d].module = ModuleOf[d]
                      /\ gaudiDevices[d].uverbs = Gaudi!TheOne(UverbsOf[d])
    BY Zenon DEF Gaudi!UndisturbedRight, Gaudi!TheOne
  <2>1. d \in Steadfast
    BY <1>1 DEF AccelTypes, Steadfast
  <2>2. d \in DOMAIN gaudiDevices
    BY <1>1, <2>1 DEF CardCompleteInv, CardReached, CardTodoInv
  <2> QED
    BY <1>1, <2>1, <2>2 DEF CardStoredInv
<1>3. Gaudi!NodesWereTheirs
  BY <1>1 DEF CardStoredInv, Gaudi!NodesWereTheirs
<1> QED
  BY <1>1, <1>2, <1>3

----------------------------------------------------------------------------
(* The program, whichever it looks for. *)

LEMMA IInvAlways == DiscoverySpec => []IInv
<1>1. DiscoveryInit => IInv
  BY GpuInit, GaudiInit DEF DiscoveryInit, IInv
<1>2. IInv /\ [DiscoveryNext]_<<wanted, vars, gaudiVars>> => IInv'
  <2> SUFFICES ASSUME IInv, [DiscoveryNext]_<<wanted, vars, gaudiVars>>
               PROVE  IInv'
    OBVIOUS
  <2>1. GpuInv /\ GaudiInv
    BY DEF IInv
  <2>2. CASE Next /\ UNCHANGED gaudiVars
    BY <2>1, <2>2, GpuStep, GaudiStutters DEF IInv
  <2>3. CASE Gaudi!Next /\ UNCHANGED vars
    BY <2>1, <2>3, GpuStep, GaudiStep DEF IInv
  <2>4. CASE UNCHANGED vars /\ UNCHANGED gaudiVars
    BY <2>1, <2>4, GpuStep, GaudiStutters DEF IInv
  <2> QED
    BY <2>2, <2>3, <2>4, Zenon DEF DiscoveryNext
<1> QED
  BY <1>1, <1>2, PTL DEF DiscoverySpec

\* Whatever drivers are bound, VFs enabled and cards registered while a program looks,
\* what it publishes of a device that did not change is right, and no such device is
\* missing (gpu discovery.go:36, discovery-pci.go:69; gaudi discovery.go:130,
\* fallback.go:69).
THEOREM FoundRightAlways == DiscoverySpec => []FoundRight
<1>1. IInv => FoundRight
  BY GpuFoundRight, GaudiFoundRight DEF IInv, FoundRight
<1> QED
  BY <1>1, IInvAlways, PTL

\* Every GPU that is found has had the node it is given, while the program looked: a
\* claim gets no card or vfio group that another device had all the time
\* (discovery-pci.go:107).
THEOREM NodesWereTheirsAlways == DiscoverySpec => []NodesWereTheirs
<1>1. IInv => NodesWereTheirs
  BY GpuFoundRight DEF IInv
<1> QED
  BY <1>1, IInvAlways, PTL

\* A Gaudi is given no accel device that it did not have while the program looked, with
\* the fallback's map as without it (fallback.go:42).
THEOREM GaudiNodesWereTheirsAlways == DiscoverySpec => []GaudiNodesWereTheirs
<1>1. IInv => GaudiNodesWereTheirs
  BY GaudiFoundRight DEF IInv, GaudiNodesWereTheirs
<1> QED
  BY <1>1, IInvAlways, PTL
=============================================================================
