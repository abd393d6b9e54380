------------------------- MODULE CdiRegistry_proofs -------------------------
(***************************************************************************)
(* Proofs about CdiRegistry, for any devices, claims, programs of a node    *)
(* and numbers of updates and ends, with failing writes, and with the       *)
(* library reading the directory at any time between two steps of a call.   *)
(***************************************************************************)
EXTENDS CdiRegistry, TLAPS

-----------------------------------------------------------------------------
(* The inductive invariant                                                  *)

\* Files of QAT and Gaudi with an older name are not removed, so that their devices would
\* be described twice (cdihelpers.go:53 and 45).
OldOfGpus == Old \subseteq {"gpu", "mei"}

AllNames == (UNION {Devices[k] : k \in Kinds}) \cup Claims
FileSpec == (SUBSET (AllNames \X Edits)) \cup {Absent}
Dirs  == [Names -> FileSpec]
Steps == {"stopped", "remove", "write", "settle"} \cup Serving
Lists == {<<>>, <<"gpu", "mei">>, <<"mei">>, <<"qat">>, <<"gaudi">>,
          <<"gpu", "mei", "gaudi">>, <<"mei", "gaudi">>, <<"gaudi", "gpu", "mei">>}

Booting == {"remove", "write", "settle"}
Calling == {"drop", "fetch", "add"}

\* Types, in groups of variables, with who may be in which step.
FileTypes ==
  /\ programs \in Hosts /\ dir \in Dirs /\ view \in [AllPrograms -> Dirs]
  /\ readable \subseteq Names /\ stale \subseteq programs

StepTypes ==
  /\ step \in [AllPrograms -> Steps] /\ todo \in [AllPrograms -> Lists]
  /\ \A p \in AllPrograms : todo[p] # <<>> <=> step[p] \in {"remove", "write"}
  /\ \A p \in programs \ {"generator"} : Range(todo[p]) \subseteq OwnKinds(p)
  /\ \A p \in AllPrograms \ programs : step[p] = "stopped"
  /\ \A p \in AllPrograms \ {"gpu", "gaudi"} : step[p] \notin Calling
  /\ step["gaudi"] # "fetch" /\ step["generator"] # "idle"

FoundTypes ==
  /\ detected \in [AllPrograms -> [Kinds -> SUBSET UNION {Devices[k] : k \in Kinds}]]
  /\ \A p \in AllPrograms, k \in Kinds : detected[p][k] \subseteq Devices[k]
  /\ blank \subseteq Claims /\ index \subseteq Claims /\ missed \subseteq Claims
  /\ (step["gaudi"] \notin Serving => blank = {} /\ missed = {})

CallTypes ==
  /\ driver \in [GPUs -> {"drm", "vfio", "none"}] /\ failed \subseteq GPUs
  /\ device \in [AllPrograms -> GPUs \cup Claims \cup {NoDevice}]
  /\ device["gpu"] \in GPUs \cup {NoDevice} /\ device["gaudi"] \in Claims \cup {NoDevice}
  /\ \A p \in AllPrograms : device[p] # NoDevice <=> step[p] \in Calling
  /\ held \in [AllPrograms -> Dirs]
  /\ shared \subseteq {p \in AllPrograms : step[p] \in {"drop", "add"}}
  /\ overtaken \in [AllPrograms -> SUBSET (GPUs \cup Claims)]
  /\ overtaken["gpu"] \subseteq GPUs /\ overtaken["gaudi"] \subseteq blank

Types == FileTypes /\ StepTypes /\ FoundTypes /\ CallTypes

\* No old file of QAT and Gaudi, in the directory or in a copy of it.
OldInv ==
  \A k \in {"qat", "gaudi"} :
    dir[OldName(k)] = Absent /\ \A p \in AllPrograms : view[p][OldName(k)] = Absent

SpecOf(p, k) == IF Entries(p, k) = {} THEN Absent ELSE Entries(p, k)

Written(p, k) == dir[Generated(k)] = SpecOf(p, k) /\ dir[OldName(k)] = Absent

\* The kinds p answers for: a plugin for its own, the generator for those it found.
Mine(p) == IF p = "generator" THEN {k \in Kinds : detected[p][k] # {}} ELSE OwnKinds(p)

Pending(p) == IF step[p] = "write" THEN Range(Tail(todo[p])) ELSE Range(todo[p])

\* While p starts: its copy is the directory unless it is to be read again, and for the
\* kinds that are still to be removed even then; the other kinds are as they were written.
BootInv(p) ==
  step[p] \in Booting =>
    /\ p \notin stale => view[p] = dir
    /\ \A n \in Names : Kind(n) \in Pending(p) => view[p][n] = dir[n]
    /\ step[p] = "write" /\ Head(todo[p]) \in {"gpu", "mei"} =>
         dir[Generated(Head(todo[p]))] = Absent /\ dir[OldName(Head(todo[p]))] = Absent
    /\ \A k \in Mine(p) \ Range(todo[p]) : Written(p, k)

\* QAT's VFs stay as they were written.
QatInv == step["qat"] = "idle" => Written("qat", "qat")

\* What Gaudi's spec has: the devices, the blank ones that are safe, and no others but those
\* that are not, that were missed or that are being deleted.
GaudiDevices == Entries("gaudi", "gaudi")
BlanksOf(S) == {<<c, "blank">> : c \in S}
Deleting == IF step["gaudi"] = "drop" THEN {device["gaudi"]} ELSE {}

GaudiRight(spec) ==
  /\ GaudiDevices \subseteq spec
  /\ BlanksOf(blank \ overtaken["gaudi"]) \subseteq spec
  /\ spec \subseteq GaudiDevices \cup BlanksOf(blank \cup missed \cup Deleting)

GaudiFile == Generated("gaudi")

\* So have the plugin's only file, its copy, and what a call got of it.  Without devices
\* there is no file.  The library finds no claim whose device its copy does not have.
GaudiFiles ==
  IF detected["gaudi"]["gaudi"] = {}
    THEN /\ dir[GaudiFile] = Absent /\ view["gaudi"][GaudiFile] = Absent
         /\ blank = {} /\ step["gaudi"] = "idle"
    ELSE /\ dir[GaudiFile] # Absent /\ view["gaudi"][GaudiFile] # Absent
         /\ GaudiRight(dir[GaudiFile]) /\ GaudiRight(view["gaudi"][GaudiFile])

GaudiIndex == \A c \in blank \cap index : <<c, "blank">> \in view["gaudi"][GaudiFile]

GaudiHeld ==
  step["gaudi"] \in {"drop", "add"} =>
    /\ held["gaudi"][GaudiFile] # Absent /\ GaudiRight(held["gaudi"][GaudiFile])
    /\ \A n \in Names \ {GaudiFile} : held["gaudi"][n] = Absent
    /\ "gaudi" \in shared => view["gaudi"][GaudiFile] = held["gaudi"][GaudiFile]
    /\ device["gaudi"] \notin blank

GaudiCall ==
  /\ step["gaudi"] = "drop" => <<device["gaudi"], "blank">> \in held["gaudi"][GaudiFile]
  /\ step["gaudi"] = "add" => device["gaudi"] \notin missed
  /\ step["gaudi"] = "add" /\ "gaudi" \notin shared => device["gaudi"] \notin index

GaudiInv == step["gaudi"] \in Serving => GaudiFiles /\ GaudiIndex /\ GaudiHeld /\ GaudiCall

\* What a GPU spec says of the devices whose last update did not fail, is not going on and
\* was not overtaken.
Settled == detected["gpu"]["gpu"] \ (failed \cup overtaken["gpu"] \cup {device["gpu"]})

GpuRight(spec) ==
  /\ \A e \in spec : e[1] \in detected["gpu"]["gpu"]
  /\ \A d \in Settled : /\ \A e \in spec : e[1] = d => e = <<d, EditsOf("gpu", d)>>
                        /\ driver[d] # "none" => <<d, EditsOf("gpu", d)>> \in spec

\* Where there is no spec there are no entries.
In(s) == IF s = Absent THEN {} ELSE s

GpuFile == Generated("gpu")
GpuOld  == OldName("gpu")

\* The GPU plugin's only file, its copy, and what a call got of it; the MEI devices stay
\* as they were written.
GpuFiles ==
  /\ Written("gpu", "mei")
  /\ dir[GpuOld] = Absent /\ view["gpu"][GpuOld] = Absent
  /\ GpuRight(In(dir[GpuFile])) /\ GpuRight(In(view["gpu"][GpuFile]))

GpuHeld ==
  step["gpu"] \in {"drop", "add"} =>
    /\ held["gpu"][GpuOld] = Absent /\ GpuRight(In(held["gpu"][GpuFile]))
    /\ "gpu" \in shared => /\ held["gpu"][GpuFile] # Absent
                          /\ view["gpu"][GpuFile] = held["gpu"][GpuFile]

\* A device that appears without a driver has no entry yet.
GpuCall ==
  /\ device["gpu"] # NoDevice => device["gpu"] \in detected["gpu"]["gpu"]
  /\ step["gpu"] = "drop" /\ driver[device["gpu"]] = "none" =>
       \A e \in In(dir[GpuFile]) \cup In(view["gpu"][GpuFile]) : e[1] # device["gpu"]

GpuInv == step["gpu"] \in Serving => GpuFiles /\ GpuHeld /\ GpuCall

IInv == Types /\ OldInv /\ (\A p \in programs : BootInv(p)) /\ QatInv /\ GaudiInv /\ GpuInv

-----------------------------------------------------------------------------
(* Names of files, and the specs the library finds first                    *)

LEMMA FileNames ==
  /\ \A k \in Kinds : /\ Generated(k) \in Names /\ OldName(k) \in Names
                      /\ Kind(Generated(k)) = k /\ Kind(OldName(k)) = k
                      /\ Generated(k) # OldName(k)
  /\ \A n \in Names : /\ Kind(n) \in Kinds
                      /\ n = Generated(Kind(n)) \/ n = OldName(Kind(n))
<1>1. DOMAIN ByName = 1..8
  BY DEF ByName
<1>2. Names = {Generated("gaudi"), Generated("mei"), Generated("gpu"), Generated("qat"),
               OldName("gaudi"), OldName("mei"), OldName("gpu"), OldName("qat")}
  <2>1. 1..8 = {1, 2, 3, 4, 5, 6, 7, 8}
    OBVIOUS
  <2>2. Names = {ByName[1], ByName[2], ByName[3], ByName[4], ByName[5], ByName[6], ByName[7],
                 ByName[8]}
    BY <1>1, <2>1, Zenon DEF Names
  <2> QED
    BY <2>2 DEF ByName
<1>3. \A k \in Kinds : /\ Generated(k) \in Names /\ OldName(k) \in Names
                       /\ Kind(Generated(k)) = k /\ Kind(OldName(k)) = k
  BY <1>2 DEF Kinds, Kind, Generated, OldName
<1>4. \A k \in Kinds : Generated(k) # OldName(k)
  BY DEF Generated, OldName
<1>5. \A n \in Names : \E k \in Kinds : n = Generated(k) \/ n = OldName(k)
  BY <1>2 DEF Kinds
<1> QED
  BY <1>3, <1>4, <1>5

LEMMA NotAbsent == \A S \in SUBSET (AllNames \X Edits) : S # Absent
<1> SUFFICES ASSUME <<>> \in AllNames \X Edits PROVE FALSE
  BY DEF Absent
<1> QED
  OBVIOUS

LEMMA FirstGpu ==
  ASSUME NEW d, d[GpuOld] = Absent, d[GpuFile] # Absent
  PROVE  /\ FirstOf(d, {x \in Names : Kind(x) = "gpu"}) = 3
         /\ ByName[3] = GpuFile
<1> DEFINE S == {x \in Names : Kind(x) = "gpu"}
           I == {i \in 1..Len(ByName) : ByName[i] \in S /\ d[ByName[i]] # Absent}
<1>1. Len(ByName) = 8 /\ ByName[3] = GpuFile
  BY DEF ByName, GpuFile
<1>2. GpuFile \in S
  BY FileNames DEF GpuFile, Kinds
<1>3. 3 \in I
  BY <1>1, <1>2
<1>4. ASSUME NEW i \in I PROVE i = 3
  <2>1. i \in 1..8 /\ ByName[i] \in S /\ d[ByName[i]] # Absent
    BY <1>1
  <2>2. ByName[i] # GpuOld
    BY <2>1
  <2>3. ByName[i] = GpuFile
    BY <2>1, <2>2, FileNames DEF GpuFile, GpuOld
  <2> QED
    BY <2>1, <2>3 DEF ByName, GpuFile, Generated, OldName
<1>5. I = {3}
  BY <1>3, <1>4
<1>6. FirstOf(d, S) = Min(I)
  BY <1>3, Zenon DEF FirstOf, SelectInSeq
<1>7. Min({3}) = 3
  BY DEF Min
<1> QED
  BY <1>1, <1>5, <1>6, <1>7

LEMMA FirstNone ==
  ASSUME NEW d, d[GpuOld] = Absent, d[GpuFile] = Absent
  PROVE  FirstOf(d, {x \in Names : Kind(x) = "gpu"}) = 0
<1> DEFINE S == {x \in Names : Kind(x) = "gpu"}
           I == {i \in 1..Len(ByName) : ByName[i] \in S /\ d[ByName[i]] # Absent}
<1>1. \A x \in S : x = GpuFile \/ x = GpuOld
  BY FileNames DEF GpuFile, GpuOld
<1>2. I = {}
  BY <1>1
<1> QED
  BY <1>2, Zenon DEF FirstOf, SelectInSeq

LEMMA FirstGaudi ==
  ASSUME NEW d, d[Generated("gaudi")] # Absent
  PROVE  FirstSpec(d) = 1 /\ ByName[1] = Generated("gaudi")
<1> DEFINE I == {i \in 1..Len(ByName) : ByName[i] \in Names /\ d[ByName[i]] # Absent}
<1>1. Len(ByName) = 8 /\ ByName[1] = Generated("gaudi")
  BY DEF ByName
<1>2. 1 \in I /\ I \subseteq 1..8
  BY <1>1, FileNames DEF Kinds
<1>3. FirstSpec(d) = Min(I)
  BY <1>2, Zenon DEF FirstSpec, FirstOf, SelectInSeq
<1> HIDE DEF I
<1>4. Min(I) = 1
  <2>1. \E x \in I : \A y \in I : x <= y
    BY <1>2
  <2>2. Min(I) \in I /\ \A y \in I : Min(I) <= y
    BY <2>1, Zenon DEF Min
  <2>3. Min(I) \in 1..8 /\ Min(I) <= 1
    BY <1>2, <2>2, Zenon
  <2> QED
    BY <2>3
<1> QED
  BY <1>1, <1>3, <1>4

-----------------------------------------------------------------------------
(* Lists of kinds, and whose they are                                       *)

LEMMA ListRanges ==
  /\ Range(<<>>) = {} /\ Range(<<"gpu", "mei">>) = {"gpu", "mei"}
  /\ Range(<<"mei">>) = {"mei"} /\ Range(<<"qat">>) = {"qat"} /\ Range(<<"gaudi">>) = {"gaudi"}
  /\ Range(<<"gpu", "mei", "gaudi">>) = {"gpu", "mei", "gaudi"}
  /\ Range(<<"mei", "gaudi">>) = {"mei", "gaudi"}
  /\ Range(<<"gaudi", "gpu", "mei">>) = {"gaudi", "gpu", "mei"}
BY DEF Range

LEMMA ListFacts ==
  ASSUME NEW l \in Lists
  PROVE  /\ Range(l) \subseteq Kinds
         /\ l # <<>> => /\ Head(l) \in Range(l) /\ Tail(l) \in Lists
                        /\ Range(Tail(l)) = Range(l) \ {Head(l)}
                        /\ Len(l) > 1 <=> Tail(l) # <<>>
<1>1. CASE l = <<>>
  BY <1>1, ListRanges
<1>2. CASE l = <<"gpu", "mei">>
  <2>1. Head(l) = "gpu" /\ Tail(l) = <<"mei">> /\ Len(l) = 2
    BY <1>2
  <2> QED
    BY <1>2, <2>1, ListRanges DEF Lists, Kinds
<1>3. CASE l = <<"mei">>
  <2>1. Head(l) = "mei" /\ Tail(l) = <<>> /\ Len(l) = 1
    BY <1>3
  <2> QED
    BY <1>3, <2>1, ListRanges DEF Lists, Kinds
<1>7. CASE l = <<"qat">>
  <2>1. Head(l) = "qat" /\ Tail(l) = <<>> /\ Len(l) = 1
    BY <1>7
  <2> QED
    BY <1>7, <2>1, ListRanges DEF Lists, Kinds
<1>8. CASE l = <<"gaudi">>
  <2>1. Head(l) = "gaudi" /\ Tail(l) = <<>> /\ Len(l) = 1
    BY <1>8
  <2> QED
    BY <1>8, <2>1, ListRanges DEF Lists, Kinds
<1>4. CASE l = <<"gpu", "mei", "gaudi">>
  <2>1. Head(l) = "gpu" /\ Tail(l) = <<"mei", "gaudi">> /\ Len(l) = 3
    BY <1>4
  <2> QED
    BY <1>4, <2>1, ListRanges DEF Lists, Kinds
<1>5. CASE l = <<"mei", "gaudi">>
  <2>1. Head(l) = "mei" /\ Tail(l) = <<"gaudi">> /\ Len(l) = 2
    BY <1>5
  <2> QED
    BY <1>5, <2>1, ListRanges DEF Lists, Kinds
<1>6. CASE l = <<"gaudi", "gpu", "mei">>
  <2>1. Head(l) = "gaudi" /\ Tail(l) = <<"gpu", "mei">> /\ Len(l) = 3
    BY <1>6
  <2> QED
    BY <1>6, <2>1, ListRanges DEF Lists, Kinds
<1> QED
  BY <1>1, <1>2, <1>3, <1>4, <1>5, <1>6, <1>7, <1>8 DEF Lists

\* The kinds whose files a program may write.
Owned(p) == IF p = "generator" THEN Kinds ELSE OwnKinds(p)

LEMMA OwnKindsAre ==
  /\ OwnKinds("gpu") = {"gpu", "mei"} /\ OwnKinds("qat") = {"qat"}
  /\ OwnKinds("gaudi") = {"gaudi"}
  /\ Owned("gpu") = {"gpu", "mei"} /\ Owned("qat") = {"qat"} /\ Owned("gaudi") = {"gaudi"}
  /\ Owned("generator") = Kinds
BY DEF Owned, OwnKinds

LEMMA Apart ==
  ASSUME FileTypes, NEW p \in programs, NEW q \in programs, p # q
  PROVE  /\ Owned(p) \cap Owned(q) = {} /\ p # "generator"
         /\ p \in {"gpu", "qat", "gaudi"}
<1>1. p \in AllPrograms /\ q \in AllPrograms /\ p # "generator" /\ q # "generator"
  BY CdiAssumption DEF FileTypes
<1> QED
  BY <1>1, OwnKindsAre DEF AllPrograms

LEMMA ProgramsOf == ASSUME FileTypes PROVE programs \subseteq AllPrograms
  BY CdiAssumption DEF FileTypes

LEMMA PendingOwned ==
  ASSUME Types, NEW p \in programs
  PROVE  /\ Range(todo[p]) \subseteq Owned(p) /\ Pending(p) \subseteq Range(todo[p])
         /\ Mine(p) \subseteq Owned(p) /\ Owned(p) \subseteq Kinds
<1>1. p \in AllPrograms /\ todo[p] \in Lists
  BY ProgramsOf DEF Types, StepTypes
<1>2. Range(todo[p]) \subseteq Owned(p)
  BY <1>1, ListFacts DEF Types, StepTypes, Owned
<1>3. Pending(p) \subseteq Range(todo[p])
  BY <1>1, ListFacts DEF Types, StepTypes, Pending
<1>4. Mine(p) \subseteq Owned(p)
  BY DEF Mine, Owned
<1>5. Owned(p) \subseteq Kinds
  BY <1>1, OwnKindsAre DEF AllPrograms, Kinds
<1> QED
  BY <1>2, <1>3, <1>4, <1>5

\* A device or a claim; nobody is named NoDevice.
LEMMA NamesOf ==
  /\ GPUs = Devices["gpu"] /\ GPUs \subseteq AllNames /\ Claims \subseteq AllNames
  /\ NoDevice \notin GPUs /\ NoDevice \notin Claims /\ GPUs \cap Claims = {}
BY CdiAssumption DEF GPUs, AllNames, Kinds, NoDevice

LEMMA TypeOf == Types /\ GaudiInv => TypeOK
<1> SUFFICES ASSUME Types, GaudiInv PROVE TypeOK
  OBVIOUS
<1>1. /\ programs \in Hosts /\ dir \in Dirs /\ readable \subseteq Names /\ stale \subseteq programs
      /\ \A p \in AllPrograms : view[p] \in Dirs /\ held[p] \in Dirs
  BY DEF Types, FileTypes, CallTypes
<1>2. \A p \in AllPrograms : Range(todo[p]) \subseteq Kinds
  BY ListFacts DEF Types, StepTypes
<1>3. \A p \in AllPrograms : /\ todo[p] # <<>> <=> step[p] \in {"remove", "write"}
                             /\ device[p] # NoDevice <=> step[p] \in Serving \ {"idle"}
                             /\ p \in shared => Holding(p)
  BY DEF Types, StepTypes, CallTypes, Calling, Serving, Holding
<1>4. ASSUME step["gaudi"] = "drop" PROVE device["gaudi"] \in Blanks(held["gaudi"])
  <2>1. <<device["gaudi"], "blank">> \in held["gaudi"][GaudiFile] /\ device["gaudi"] \in Claims
    BY <1>4 DEF GaudiInv, GaudiCall, Serving, Types, CallTypes, Calling, AllPrograms
  <2>2. GaudiFile \in Names /\ Kind(GaudiFile) = "gaudi"
    BY FileNames DEF GaudiFile, Kinds
  <2> QED
    BY <2>1, <2>2 DEF Blanks, EditsIn, Edits
<1> QED
  BY <1>1, <1>2, <1>3, <1>4, Zenon
     DEF Types, StepTypes, FoundTypes, CallTypes, TypeOK, Dirs, FileSpec, AllNames, Steps

-----------------------------------------------------------------------------
(* What a step of one program leaves to the others                          *)

\* Program p writes files of its own kinds only, and when it does the others will read all.
Frame(p) ==
  /\ programs' = programs
  /\ \A q \in AllPrograms \ {p} : /\ step'[q] = step[q] /\ todo'[q] = todo[q]
                                  /\ view'[q] = view[q] /\ detected'[q] = detected[q]
                                  /\ device'[q] = device[q] /\ held'[q] = held[q]
                                  /\ q \in shared' <=> q \in shared
                                  /\ overtaken'[q] = overtaken[q]
  /\ p # "gaudi" => blank' = blank /\ index' = index /\ missed' = missed
  /\ p # "gpu" => driver' = driver /\ failed' = failed
  /\ \A n \in Names : Kind(n) \notin Owned(p) => dir'[n] = dir[n]
  /\ dir' = dir \/ stale' = programs
  /\ stale \ {p} \subseteq stale'

\* A file of a kind that is not p's stays as a program wrote it.
LEMMA WrittenKept ==
  ASSUME FileTypes, NEW p \in programs, Frame(p),
         NEW q \in programs, q # p, NEW k \in Owned(q), Written(q, k)
  PROVE  Written(q, k)'
<1>1. q \in AllPrograms \ {p} /\ k \in Kinds /\ k \notin Owned(p)
  BY ProgramsOf, Apart, OwnKindsAre DEF AllPrograms, Kinds
<1>2. dir'[Generated(k)] = dir[Generated(k)] /\ dir'[OldName(k)] = dir[OldName(k)]
  BY <1>1, FileNames DEF Frame
<1>3. k = "gpu" => driver' = driver
  BY <1>1, OwnKindsAre DEF Frame
<1>4. detected'[q][k] = detected[q][k]
  BY <1>1 DEF Frame
<1>5. Entries(q, k)' = Entries(q, k)
  BY <1>3, <1>4 DEF Entries, EditsOf
<1> QED
  BY <1>2, <1>5 DEF Written, SpecOf

LEMMA BootKept ==
  ASSUME Types, NEW p \in programs, Frame(p), NEW q \in programs, q # p, BootInv(q)
  PROVE  BootInv(q)'
<1> SUFFICES ASSUME step'[q] \in Booting
    PROVE  /\ q \notin stale' => view'[q] = dir'
           /\ \A n \in Names : Kind(n) \in Pending(q)' => view'[q][n] = dir'[n]
           /\ step'[q] = "write" /\ Head(todo'[q]) \in {"gpu", "mei"} =>
                dir'[Generated(Head(todo'[q]))] = Absent /\ dir'[OldName(Head(todo'[q]))] = Absent
           /\ \A k \in Mine(q)' \ Range(todo'[q]) : Written(q, k)'
  BY DEF BootInv, Booting
<1>1. q \in AllPrograms \ {p} /\ FileTypes
  BY ProgramsOf DEF Types
<1>2. /\ step'[q] = step[q] /\ todo'[q] = todo[q] /\ view'[q] = view[q]
      /\ detected'[q] = detected[q]
  BY <1>1 DEF Frame
<1>3. step[q] \in Booting
  BY <1>2
<1>4. Pending(q)' = Pending(q) /\ Mine(q)' = Mine(q)
  BY <1>2 DEF Pending, Mine
<1>5. /\ Range(todo[q]) \subseteq Owned(q) /\ Pending(q) \subseteq Range(todo[q])
      /\ Mine(q) \subseteq Owned(q) /\ Owned(q) \subseteq Kinds
  BY PendingOwned
<1>6. \A k \in Owned(q) : k \notin Owned(p)
  BY <1>1, Apart
<1>7. q \notin stale' => view'[q] = dir'
  <2> SUFFICES ASSUME q \notin stale' PROVE view[q] = dir'
    BY <1>2
  <2>1. dir' = dir /\ q \notin stale
    BY <1>1 DEF Frame
  <2> QED
    BY <2>1, <1>3 DEF BootInv
<1>8. ASSUME NEW n \in Names, Kind(n) \in Pending(q)' PROVE view'[q][n] = dir'[n]
  <2>1. dir'[n] = dir[n]
    BY <1>4, <1>5, <1>6, <1>8 DEF Frame
  <2> QED
    BY <2>1, <1>2, <1>3, <1>4, <1>8 DEF BootInv
<1>9. ASSUME step'[q] = "write", Head(todo'[q]) \in {"gpu", "mei"}
      PROVE  dir'[Generated(Head(todo'[q]))] = Absent /\ dir'[OldName(Head(todo'[q]))] = Absent
  <2> DEFINE k == Head(todo[q])
  <2>1. dir[Generated(k)] = Absent /\ dir[OldName(k)] = Absent
    BY <1>2, <1>3, <1>9 DEF BootInv
  <2>2. todo[q] \in Lists /\ todo[q] # <<>>
    BY <1>1, <1>2, <1>9 DEF Types, StepTypes
  <2>3. k \in Range(todo[q])
    BY <2>2, ListFacts
  <2>4. k \in Kinds /\ k \notin Owned(p)
    BY <2>3, <1>5, <1>6
  <2> QED
    BY <2>1, <2>4, <1>2, FileNames DEF Frame
<1>10. ASSUME NEW k \in Mine(q)' \ Range(todo'[q]) PROVE Written(q, k)'
  <2>1. k \in Mine(q) \ Range(todo[q]) /\ k \in Owned(q)
    BY <1>2, <1>4, <1>5
  <2>2. Written(q, k)
    BY <2>1, <1>3 DEF BootInv
  <2> QED
    BY <2>1, <2>2, <1>1, WrittenKept
<1> QED
  BY <1>7, <1>8, <1>9, <1>10

LEMMA QatKept ==
  ASSUME Types, NEW p \in programs, p # "qat", Frame(p), QatInv
  PROVE  QatInv'
<1> SUFFICES ASSUME step'["qat"] = "idle" PROVE Written("qat", "qat")'
  BY DEF QatInv
<1>1. "qat" \in AllPrograms \ {p} /\ FileTypes
  BY DEF Types, AllPrograms
<1>2. step["qat"] = "idle"
  BY <1>1 DEF Frame
<1>3. "qat" \in programs
  BY <1>1, <1>2 DEF Types, StepTypes
<1> QED
  BY <1>1, <1>2, <1>3, WrittenKept, OwnKindsAre DEF QatInv

\* A spec of Gaudi or of the GPUs is as right as it was while its plugin does nothing.
LEMMA GaudiRightSame ==
  ASSUME detected'["gaudi"] = detected["gaudi"], step'["gaudi"] = step["gaudi"],
         device'["gaudi"] = device["gaudi"], overtaken'["gaudi"] = overtaken["gaudi"],
         blank' = blank, missed' = missed
  PROVE  /\ \A spec : GaudiRight(spec) <=> GaudiRight(spec)'
         /\ GaudiDevices' = GaudiDevices
<1>1. GaudiDevices' = GaudiDevices
  BY DEF GaudiDevices, Entries, EditsOf
<1> QED
  BY <1>1 DEF GaudiRight, BlanksOf, Deleting

LEMMA GpuRightSame ==
  ASSUME detected'["gpu"] = detected["gpu"], device'["gpu"] = device["gpu"],
         overtaken'["gpu"] = overtaken["gpu"], driver' = driver, failed' = failed
  PROVE  \A spec : GpuRight(spec) <=> GpuRight(spec)'
BY DEF GpuRight, Settled, EditsOf

LEMMA GaudiKept ==
  ASSUME Types, NEW p \in programs, p # "gaudi", Frame(p), GaudiInv
  PROVE  GaudiInv'
<1> SUFFICES ASSUME step'["gaudi"] \in Serving PROVE GaudiInv'
  BY DEF GaudiInv, Serving
<1>1. "gaudi" \in AllPrograms \ {p} /\ FileTypes
  BY DEF Types, AllPrograms
<1>2. /\ step'["gaudi"] = step["gaudi"] /\ view'["gaudi"] = view["gaudi"]
      /\ detected'["gaudi"] = detected["gaudi"] /\ device'["gaudi"] = device["gaudi"]
      /\ held'["gaudi"] = held["gaudi"] /\ overtaken'["gaudi"] = overtaken["gaudi"]
      /\ "gaudi" \in shared' <=> "gaudi" \in shared
      /\ blank' = blank /\ index' = index /\ missed' = missed
  BY <1>1 DEF Frame
<1>3. "gaudi" \in programs
  BY <1>1, <1>2 DEF Types, StepTypes, Serving
<1>4. GaudiFile \in Names /\ Kind(GaudiFile) \notin Owned(p)
  BY <1>1, <1>3, Apart, OwnKindsAre, FileNames DEF Kinds, GaudiFile
<1>5. dir'[GaudiFile] = dir[GaudiFile]
  BY <1>4 DEF Frame
<1>6. \A spec : GaudiRight(spec) <=> GaudiRight(spec)'
  BY <1>2, GaudiRightSame
<1>7. GaudiFiles /\ GaudiIndex /\ GaudiHeld /\ GaudiCall
  BY <1>2 DEF GaudiInv
<1>8. GaudiFiles'
  <2>1. GaudiRight(dir[GaudiFile]) => GaudiRight(dir[GaudiFile])'
    BY <1>5, <1>6 DEF GaudiRight
  <2>2. GaudiRight(view["gaudi"][GaudiFile]) => GaudiRight(view["gaudi"][GaudiFile])'
    <3>1. ASSUME NEW x, x = view'["gaudi"][GaudiFile], GaudiRight(x)
          PROVE  GaudiRight(view["gaudi"][GaudiFile])'
      BY <3>1, <1>6 DEF GaudiRight
    <3> QED
      BY <3>1, <1>2
  <2> QED
    BY <2>1, <2>2, <1>2, <1>5, <1>7 DEF GaudiFiles
<1>9. GaudiHeld'
  <2>1. GaudiRight(held["gaudi"][GaudiFile]) => GaudiRight(held["gaudi"][GaudiFile])'
    <3>1. ASSUME NEW x, x = held'["gaudi"][GaudiFile], GaudiRight(x)
          PROVE  GaudiRight(held["gaudi"][GaudiFile])'
      BY <3>1, <1>6 DEF GaudiRight
    <3> QED
      BY <3>1, <1>2
  <2> QED
    BY <2>1, <1>2, <1>7 DEF GaudiHeld
<1>10. GaudiIndex' /\ GaudiCall'
  BY <1>2, <1>7 DEF GaudiIndex, GaudiCall
<1> QED
  BY <1>8, <1>9, <1>10 DEF GaudiInv

LEMMA GpuKept ==
  ASSUME Types, NEW p \in programs, p # "gpu", Frame(p), GpuInv
  PROVE  GpuInv'
<1> SUFFICES ASSUME step'["gpu"] \in Serving PROVE GpuInv'
  BY DEF GpuInv, Serving
<1>1. "gpu" \in AllPrograms \ {p} /\ FileTypes
  BY DEF Types, AllPrograms
<1>2. /\ step'["gpu"] = step["gpu"] /\ view'["gpu"] = view["gpu"]
      /\ detected'["gpu"] = detected["gpu"] /\ device'["gpu"] = device["gpu"]
      /\ held'["gpu"] = held["gpu"] /\ overtaken'["gpu"] = overtaken["gpu"]
      /\ "gpu" \in shared' <=> "gpu" \in shared
      /\ driver' = driver /\ failed' = failed
  BY <1>1 DEF Frame
<1>3. "gpu" \in programs
  BY <1>1, <1>2 DEF Types, StepTypes, Serving
<1>4. Owned("gpu") \cap Owned(p) = {} /\ {"gpu", "mei"} \subseteq Owned("gpu")
  BY <1>1, <1>3, Apart, OwnKindsAre
<1>5. dir'[GpuFile] = dir[GpuFile] /\ dir'[GpuOld] = dir[GpuOld]
  BY <1>4, FileNames DEF Frame, GpuFile, GpuOld, Kinds
<1>6. Written("gpu", "mei") => Written("gpu", "mei")'
  BY <1>1, <1>3, <1>4, WrittenKept
<1>7. \A spec : GpuRight(spec) <=> GpuRight(spec)'
  BY <1>2, GpuRightSame
<1>8. GpuFiles /\ GpuHeld /\ GpuCall
  BY <1>2 DEF GpuInv
<1>9. GpuFiles'
  <2>1. GpuRight(In(dir[GpuFile])) => GpuRight(In(dir[GpuFile]))'
    BY <1>5, <1>7 DEF GpuRight
  <2>2. GpuRight(In(view["gpu"][GpuFile])) => GpuRight(In(view["gpu"][GpuFile]))'
    BY <1>2, <1>7 DEF GpuRight
  <2> QED
    BY <2>1, <2>2, <1>2, <1>5, <1>6, <1>8 DEF GpuFiles
<1>10. GpuHeld'
  <2>1. GpuRight(In(held["gpu"][GpuFile])) => GpuRight(In(held["gpu"][GpuFile]))'
    BY <1>2, <1>7 DEF GpuRight
  <2> QED
    BY <2>1, <1>2, <1>8 DEF GpuHeld
<1>11. GpuCall'
  BY <1>2, <1>5, <1>8 DEF GpuCall
<1> QED
  BY <1>9, <1>10, <1>11 DEF GpuInv

\* What is left to show of a step of p: the types, and what holds of p itself.
LEMMA Combine ==
  ASSUME IInv, NEW p \in programs, Frame(p), Types', OldInv', BootInv(p)',
         p = "qat" => QatInv', p = "gaudi" => GaudiInv', p = "gpu" => GpuInv'
  PROVE  IInv'
<1>1. Types /\ programs' = programs
  BY DEF IInv, Frame
<1>2. ASSUME NEW q \in programs PROVE BootInv(q)'
  BY <1>1, BootKept DEF IInv
<1>3. QatInv' /\ GaudiInv' /\ GpuInv'
  BY <1>1, QatKept, GaudiKept, GpuKept DEF IInv
<1> QED
  BY <1>1, <1>2, <1>3 DEF IInv

-----------------------------------------------------------------------------
(* The steps of a program: reading the directory, starting and ending       *)

LEMMA StepInPrograms ==
  ASSUME Types, NEW p \in AllPrograms, step[p] # "stopped" PROVE p \in programs
  BY DEF Types, StepTypes

\* A claim is in a spec of Gaudi, if it is, with the edits of a blank device.
LEMMA BlanksOfSpec ==
  ASSUME Types, NEW s \in Dirs, s[OldName("gaudi")] = Absent, GaudiRight(s[GaudiFile]),
         NEW c \in Claims
  PROVE  /\ c \in Blanks(s) <=> <<c, "blank">> \in s[GaudiFile]
         /\ Describes(s, "gaudi", c) => <<c, "blank">> \in s[GaudiFile]
<1>1. /\ \A n \in Names : Kind(n) = "gaudi" => n = GaudiFile \/ n = OldName("gaudi")
      /\ GaudiFile \in Names /\ Kind(GaudiFile) = "gaudi"
  BY FileNames DEF GaudiFile, Kinds
<1>2. \A e \in Edits : <<c, e>> \notin Absent
  BY DEF Absent
<1>3. ASSUME NEW e \in Edits, <<c, e>> \in s[GaudiFile] PROVE e = "blank"
  <2>1. \A f \in GaudiDevices : f[1] \in Devices["gaudi"]
    BY DEF GaudiDevices, Entries, Types, FoundTypes, AllPrograms, Kinds
  <2>2. <<c, e>> \notin GaudiDevices
    BY <2>1, CdiAssumption DEF Kinds
  <2>3. <<c, e>> \in BlanksOf(blank \cup missed \cup Deleting)
    BY <1>3, <2>2 DEF GaudiRight
  <2> QED
    BY <2>3 DEF BlanksOf
<1>4. EditsIn(s, "gaudi", c) = {e \in Edits : <<c, e>> \in s[GaudiFile]}
  BY <1>1, <1>2 DEF EditsIn
<1>5. EditsOf("gaudi", c) = "blank" /\ "blank" \in Edits
  BY DEF EditsOf, Edits
<1> QED
  BY <1>3, <1>4, <1>5 DEF Blanks, Describes

\* A described GPU has the right entry and no other.
LEMMA GpuDescribed ==
  ASSUME NEW s \in Dirs, s[GpuOld] = Absent, NEW d, Describes(s, "gpu", d)
  PROVE  /\ \A e \in In(s[GpuFile]) : e[1] = d => e = <<d, EditsOf("gpu", d)>>
         /\ <<d, EditsOf("gpu", d)>> \in In(s[GpuFile])
<1>1. /\ \A n \in Names : Kind(n) = "gpu" => n = GpuFile \/ n = GpuOld
      /\ GpuFile \in Names /\ Kind(GpuFile) = "gpu"
  BY FileNames DEF GpuFile, GpuOld, Kinds
<1>2. \A e \in Edits : <<d, e>> \notin Absent
  BY DEF Absent
<1>3. EditsIn(s, "gpu", d) = {e \in Edits : <<d, e>> \in s[GpuFile]}
  BY <1>1, <1>2 DEF EditsIn
<1>4. {e \in Edits : <<d, e>> \in s[GpuFile]} = {EditsOf("gpu", d)}
  BY <1>3 DEF Describes
<1>5. s[GpuFile] # Absent /\ s[GpuFile] \in FileSpec
  BY <1>1, <1>2, <1>4 DEF Dirs
<1>6. In(s[GpuFile]) = s[GpuFile] /\ s[GpuFile] \in SUBSET (AllNames \X Edits)
  BY <1>5 DEF In, FileSpec
<1> QED
  BY <1>4, <1>6

LEMMA RefreshFacts ==
  ASSUME IInv, NEW p \in programs, Refresh(p)
  PROVE  /\ Types /\ OldInv /\ BootInv(p) /\ QatInv /\ GaudiInv /\ GpuInv /\ p \in AllPrograms
         /\ view' = [view EXCEPT ![p] = dir] /\ stale' = stale \ {p} /\ step' = step
         /\ dir' = dir /\ todo' = todo /\ detected' = detected /\ driver' = driver
         /\ device' = device /\ held' = held /\ failed' = failed /\ blank' = blank
         /\ programs' = programs /\ readable' = readable
         /\ shared' = shared \ {p} /\ p # "generator"
         /\ overtaken' = [overtaken EXCEPT ![p] = overtaken'[p]]
         /\ overtaken'[p] \subseteq overtaken[p]
         /\ \A d \in overtaken[p] \ overtaken'[p] :
              /\ Describes(dir, p, d)
              /\ step[p] \in {"drop", "add"} => Describes(held[p], p, d)
         /\ p = "gaudi" => /\ index' = Blanks(dir)
                           /\ missed' = missed \cap (Blanks(dir) \cup Blanks(held["gaudi"]))
         /\ p # "gaudi" => index' = index /\ missed' = missed
<1>1. Types /\ OldInv /\ BootInv(p) /\ QatInv /\ GaudiInv /\ GpuInv /\ p \in AllPrograms
  BY ProgramsOf DEF IInv, Types
<1>2. /\ view' = [view EXCEPT ![p] = dir] /\ stale' = stale \ {p} /\ step' = step
      /\ dir' = dir /\ todo' = todo /\ detected' = detected /\ driver' = driver
      /\ device' = device /\ held' = held /\ failed' = failed /\ blank' = blank
      /\ programs' = programs /\ readable' = readable
      /\ shared' = shared \ {p} /\ p # "generator"
      /\ p = "gaudi" => /\ index' = Blanks(dir)
                        /\ missed' = missed \cap (Blanks(dir) \cup Blanks(held["gaudi"]))
      /\ p # "gaudi" => index' = index /\ missed' = missed
  BY DEF Refresh, gpuVars
<1> DEFINE left == {d \in overtaken[p] : ~Describes(dir, p, d)
                      \/ (Holding(p) /\ ~Describes(held[p], p, d))}
<1>3. overtaken' = [overtaken EXCEPT ![p] = left]
  BY DEF Refresh
<1>4. /\ left \subseteq overtaken[p]
      /\ \A d \in overtaken[p] \ left :
           /\ Describes(dir, p, d)
           /\ step[p] \in {"drop", "add"} => Describes(held[p], p, d)
  BY DEF Holding
<1> HIDE DEF left
<1>5. overtaken'[p] = left
  BY <1>1, <1>3 DEF Types, CallTypes
<1> QED
  BY <1>1, <1>2, <1>3, <1>4, <1>5

LEMMA RefreshGaudi ==
  ASSUME IInv, "gaudi" \in programs, Refresh("gaudi") PROVE GaudiInv'
<1> DEFINE over == overtaken'["gaudi"]
<1>1. /\ Types /\ OldInv /\ view' = [view EXCEPT !["gaudi"] = dir]
      /\ step' = step /\ dir' = dir /\ detected' = detected
      /\ device' = device /\ held' = held /\ blank' = blank /\ shared' = shared \ {"gaudi"}
      /\ over \subseteq overtaken["gaudi"]
      /\ \A d \in overtaken["gaudi"] \ over :
           /\ Describes(dir, "gaudi", d)
           /\ step["gaudi"] \in {"drop", "add"} => Describes(held["gaudi"], "gaudi", d)
      /\ index' = Blanks(dir) /\ missed' = missed \cap (Blanks(dir) \cup Blanks(held["gaudi"]))
  BY RefreshFacts
<1> SUFFICES ASSUME step["gaudi"] \in Serving
    PROVE  GaudiFiles' /\ GaudiIndex' /\ GaudiHeld' /\ GaudiCall'
  BY <1>1 DEF GaudiInv
<1>2. GaudiFiles /\ GaudiIndex /\ GaudiHeld /\ GaudiCall
  BY DEF IInv, GaudiInv
<1>3. /\ view'["gaudi"] = dir /\ dir \in Dirs /\ held["gaudi"] \in Dirs
       /\ dir[OldName("gaudi")] = Absent
  BY <1>1 DEF Types, FileTypes, CallTypes, OldInv, AllPrograms
<1>4. GaudiDevices' = GaudiDevices /\ Deleting' = Deleting
  BY <1>1 DEF GaudiDevices, Entries, EditsOf, Deleting
<1>5. blank \subseteq Claims /\ missed \subseteq Claims /\ overtaken["gaudi"] \subseteq blank
  BY <1>1 DEF Types, FoundTypes, CallTypes
\* What is right stays right, also for those that are safe now.
<1>6. ASSUME NEW s \in {dir, held["gaudi"]}, GaudiRight(s[GaudiFile]), s[OldName("gaudi")] = Absent,
             \A d \in overtaken["gaudi"] \ over : Describes(s, "gaudi", d)
      PROVE  \A x : x = s[GaudiFile] => GaudiRight(x)'
  <2>1. \A c \in Claims : /\ c \in Blanks(s) <=> <<c, "blank">> \in s[GaudiFile]
                          /\ Describes(s, "gaudi", c) => <<c, "blank">> \in s[GaudiFile]
    BY <1>1, <1>3, <1>6, BlanksOfSpec
  <2>2. \A c \in blank \ over : <<c, "blank">> \in s[GaudiFile]
    BY <2>1, <1>5, <1>6 DEF GaudiRight, BlanksOf
  <2>3. ASSUME NEW e \in s[GaudiFile]
         PROVE  e \in GaudiDevices \cup BlanksOf(blank \cup missed' \cup Deleting)
    <3>1. CASE e \in GaudiDevices
      BY <3>1
    <3>2. CASE e \in BlanksOf(blank \cup missed \cup Deleting)
      <4>1. PICK c \in blank \cup missed \cup Deleting : e = <<c, "blank">>
        BY <3>2 DEF BlanksOf
      <4>2. c \in missed => c \in missed'
        BY <4>1, <2>1, <2>3, <1>1, <1>5
      <4> QED
        BY <4>1, <4>2 DEF BlanksOf
    <3> QED
      BY <3>1, <3>2, <1>6, <2>3 DEF GaudiRight
  <2>4. GaudiDevices \subseteq s[GaudiFile]
    BY <1>6 DEF GaudiRight
  <2>5. BlanksOf(blank \ over) \subseteq s[GaudiFile]
    BY <2>2 DEF BlanksOf
  <2>6. s[GaudiFile] \subseteq GaudiDevices \cup BlanksOf(blank \cup missed' \cup Deleting)
    BY <2>3
  <2> QED
    BY <2>4, <2>5, <2>6, <1>1, <1>4 DEF GaudiRight, BlanksOf
<1>7. GaudiFiles'
  <2>1. ASSUME NEW x, x = dir[GaudiFile], GaudiRight(x)
        PROVE  GaudiRight(dir[GaudiFile])' /\ GaudiRight(view["gaudi"][GaudiFile])'
    <3>1. GaudiRight(x)'
      BY <2>1, <1>1, <1>3, <1>6
    <3>2. x = dir'[GaudiFile] /\ x = view'["gaudi"][GaudiFile]
      BY <2>1, <1>1, <1>3
    <3> QED
      BY <3>1, <3>2 DEF GaudiRight
  <2> QED
    BY <2>1, <1>1, <1>2, <1>3 DEF GaudiFiles
<1>8. GaudiHeld'
  <2>1. SUFFICES ASSUME step["gaudi"] \in {"drop", "add"} PROVE GaudiHeld'
    BY <1>1 DEF GaudiHeld
  <2>2. held["gaudi"][OldName("gaudi")] = Absent
    BY <1>2, <2>1, FileNames DEF GaudiHeld, GaudiFile, Kinds
  <2>3. ASSUME NEW x, x = held["gaudi"][GaudiFile] PROVE GaudiRight(held["gaudi"][GaudiFile])'
    <3>1. GaudiRight(x)'
      BY <2>1, <2>2, <2>3, <1>1, <1>2, <1>6 DEF GaudiHeld
    <3> QED
      BY <3>1, <2>3, <1>1 DEF GaudiRight
  <2> QED
    BY <2>1, <2>3, <1>1, <1>2 DEF GaudiHeld
<1>9. ASSUME NEW c \in Claims, detected["gaudi"]["gaudi"] # {}
      PROVE  c \in Blanks(dir) <=> <<c, "blank">> \in dir[GaudiFile]
  BY <1>1, <1>2, <1>3, <1>9, BlanksOfSpec DEF GaudiFiles
<1>10. GaudiIndex'
  BY <1>1, <1>2, <1>3, <1>5, <1>9 DEF GaudiIndex, GaudiFiles
<1>11. GaudiCall'
  <2>1. ASSUME step["gaudi"] = "add" PROVE device["gaudi"] \notin Blanks(dir)
    <3>1. device["gaudi"] \in Claims /\ detected["gaudi"]["gaudi"] # {}
      BY <2>1, <1>1, <1>2 DEF Types, CallTypes, Calling, AllPrograms, GaudiFiles
    <3>2. device["gaudi"] \notin blank \cup missed /\ Deleting = {}
      BY <2>1, <1>2 DEF GaudiHeld, GaudiCall, Deleting
    <3>3. \A f \in GaudiDevices : f[1] \in Devices["gaudi"]
      BY <1>1 DEF GaudiDevices, Entries, Types, FoundTypes, AllPrograms, Kinds
    <3>4. <<device["gaudi"], "blank">> \notin GaudiDevices
      BY <3>1, <3>3, CdiAssumption DEF Kinds
    <3>5. <<device["gaudi"], "blank">> \notin dir[GaudiFile]
      BY <3>1, <3>2, <3>4, <1>2 DEF GaudiFiles, GaudiRight, BlanksOf
    <3> QED
      BY <3>1, <3>5, <1>9
  <2> QED
    BY <2>1, <1>1, <1>2 DEF GaudiCall
<1> QED
  BY <1>7, <1>8, <1>10, <1>11

LEMMA RefreshGpu ==
  ASSUME IInv, "gpu" \in programs, Refresh("gpu") PROVE GpuInv'
<1> DEFINE over == overtaken'["gpu"]
<1>1. /\ Types /\ view' = [view EXCEPT !["gpu"] = dir]
      /\ step' = step /\ dir' = dir /\ detected' = detected /\ driver' = driver
      /\ device' = device /\ held' = held /\ failed' = failed /\ shared' = shared \ {"gpu"}
      /\ over \subseteq overtaken["gpu"]
      /\ \A d \in overtaken["gpu"] \ over :
           /\ Describes(dir, "gpu", d)
           /\ step["gpu"] \in {"drop", "add"} => Describes(held["gpu"], "gpu", d)
  BY RefreshFacts
<1> SUFFICES ASSUME step["gpu"] \in Serving PROVE GpuFiles' /\ GpuHeld' /\ GpuCall'
  BY <1>1 DEF GpuInv
<1>2. GpuFiles /\ GpuHeld /\ GpuCall
  BY DEF IInv, GpuInv
<1>3. view'["gpu"] = dir /\ dir \in Dirs /\ held["gpu"] \in Dirs
  BY <1>1 DEF Types, FileTypes, CallTypes, AllPrograms
<1>4. ASSUME NEW s \in {dir, held["gpu"]}, GpuRight(In(s[GpuFile])), s[GpuOld] = Absent,
             \A d \in overtaken["gpu"] \ over : Describes(s, "gpu", d)
      PROVE  \A x : x = In(s[GpuFile]) => GpuRight(x)'
  <2>1. \A d \in Settled' \ Settled : d \in overtaken["gpu"] \ over
    BY <1>1 DEF Settled
  <2>2. ASSUME NEW d \in Settled'
        PROVE  /\ \A e \in In(s[GpuFile]) : e[1] = d => e = <<d, EditsOf("gpu", d)>>
               /\ driver[d] # "none" => <<d, EditsOf("gpu", d)>> \in In(s[GpuFile])
    <3>1. CASE d \in Settled
      BY <3>1, <1>4 DEF GpuRight
    <3>2. CASE d \notin Settled
      <4>1. Describes(s, "gpu", d)
        BY <3>2, <2>1, <1>4
      <4> QED
        BY <4>1, <1>3, <1>4, GpuDescribed
    <3> QED
      BY <3>1, <3>2
  <2>3. \A e \in In(s[GpuFile]) : e[1] \in detected["gpu"]["gpu"]
    BY <1>4 DEF GpuRight
  <2>4. \A d : EditsOf("gpu", d)' = EditsOf("gpu", d)
    BY <1>1 DEF EditsOf
  <2> HIDE DEF over
  <2>5. ASSUME NEW x, x = In(s[GpuFile]) PROVE GpuRight(x)'
    BY <2>2, <2>3, <2>4, <2>5, <1>1 DEF GpuRight
  <2> QED
    BY <2>5
<1>5. GpuFiles'
  <2>1. Written("gpu", "mei")'
    BY <1>1, <1>2 DEF GpuFiles, Written, SpecOf, Entries, EditsOf
  <2>2. ASSUME NEW x, x = In(dir[GpuFile])
        PROVE  GpuRight(In(dir[GpuFile]))' /\ GpuRight(In(view["gpu"][GpuFile]))'
    <3>1. GpuRight(x)'
      BY <2>2, <1>1, <1>2, <1>4 DEF GpuFiles
    <3>2. x = In(dir'[GpuFile]) /\ x = In(view'["gpu"][GpuFile])
      BY <2>2, <1>1, <1>3
    <3> QED
      BY <3>1, <3>2 DEF GpuRight
  <2> QED
    BY <2>1, <2>2, <1>1, <1>2, <1>3 DEF GpuFiles
<1>6. GpuHeld'
  <2>1. SUFFICES ASSUME step["gpu"] \in {"drop", "add"} PROVE GpuHeld'
    BY <1>1 DEF GpuHeld
  <2>2. ASSUME NEW x, x = In(held["gpu"][GpuFile]) PROVE GpuRight(In(held["gpu"][GpuFile]))'
    <3>1. GpuRight(x)'
      BY <2>1, <2>2, <1>1, <1>2, <1>4 DEF GpuHeld
    <3> QED
      BY <3>1, <2>2, <1>1 DEF GpuRight
  <2> QED
    BY <2>1, <2>2, <1>1, <1>2 DEF GpuHeld
<1>7. GpuCall'
  BY <1>1, <1>2, <1>3 DEF GpuCall
<1> QED
  BY <1>5, <1>6, <1>7

LEMMA RefreshStep ==
  ASSUME IInv, NEW p \in programs, Refresh(p) PROVE IInv'
<1>0. /\ Types /\ OldInv /\ BootInv(p) /\ QatInv /\ GaudiInv /\ GpuInv /\ p \in AllPrograms
      /\ view' = [view EXCEPT ![p] = dir] /\ stale' = stale \ {p} /\ step' = step
      /\ dir' = dir /\ todo' = todo /\ detected' = detected /\ driver' = driver
      /\ device' = device /\ held' = held /\ failed' = failed /\ blank' = blank
      /\ programs' = programs /\ readable' = readable
      /\ shared' = shared \ {p} /\ p # "generator"
      /\ overtaken' = [overtaken EXCEPT ![p] = overtaken'[p]]
      /\ overtaken'[p] \subseteq overtaken[p]
  BY RefreshFacts
<1>1. /\ p = "gaudi" => index' \subseteq Claims /\ missed' \subseteq missed
      /\ p # "gaudi" => index' = index /\ missed' = missed
  BY RefreshFacts DEF Blanks
<1>2. /\ view' \in [AllPrograms -> Dirs] /\ view'[p] = dir
      /\ \A q \in AllPrograms \ {p} : view'[q] = view[q] /\ overtaken'[q] = overtaken[q]
  BY <1>0 DEF Types, FileTypes, CallTypes
<1>3. Types'
  <2>1. FileTypes'
    BY <1>0, <1>2 DEF Types, FileTypes
  <2>2. StepTypes'
    BY <1>0 DEF Types, StepTypes
  <2>3. FoundTypes'
    BY <1>0, <1>1 DEF Types, FoundTypes
  <2>4. CallTypes'
    <3>1. overtaken' \in [AllPrograms -> SUBSET (GPUs \cup Claims)]
      BY <1>0 DEF Types, CallTypes
    <3>2. \A q \in AllPrograms : overtaken'[q] \subseteq overtaken[q]
      BY <1>0, <1>2
    <3> QED
      BY <3>1, <3>2, <1>0 DEF Types, CallTypes, AllPrograms
  <2> QED
    BY <2>1, <2>2, <2>3, <2>4 DEF Types
<1>4. Frame(p)
  BY <1>0, <1>1, <1>2 DEF Frame
<1>5. OldInv'
  BY <1>0, <1>2 DEF OldInv
<1>6. BootInv(p)'
  <2>1. \A k \in Kinds : Written(p, k) => Written(p, k)'
    BY <1>0 DEF Written, SpecOf, Entries, EditsOf
  <2>2. Pending(p)' = Pending(p) /\ Mine(p)' = Mine(p)
    BY <1>0 DEF Pending, Mine
  <2>3. Mine(p) \subseteq Kinds
    BY <1>0, PendingOwned
  <2> QED
    BY <1>0, <1>2, <2>1, <2>2, <2>3 DEF BootInv
<1>7. QatInv'
  BY <1>0 DEF QatInv, Written, SpecOf, Entries, EditsOf
<1> QED
  BY <1>3, <1>4, <1>5, <1>6, <1>7, RefreshGaudi, RefreshGpu, Combine

LEMMA ListsOf ==
  ASSUME NEW p \in AllPrograms, NEW ks \in KindLists(p)
  PROVE  /\ ks \in Lists /\ ks # <<>>
         /\ p # "generator" => Range(ks) = OwnKinds(p)
<1>1. CASE p = "generator"
  BY <1>1 DEF KindLists, Lists
<1>2. CASE p = "gpu"
  BY <1>2, ListRanges DEF KindLists, Lists, OwnKinds
<1>3. CASE p = "qat"
  BY <1>3, ListRanges DEF KindLists, Lists, OwnKinds
<1>4. CASE p = "gaudi"
  BY <1>4, ListRanges DEF KindLists, Lists, OwnKinds
<1> QED
  BY <1>1, <1>2, <1>3, <1>4 DEF AllPrograms

\* A program that is in no call before a step and after it.
LEMMA CallsKept ==
  ASSUME Types, NEW p \in AllPrograms, step[p] \notin Calling, step'[p] \notin Calling,
         \A q \in AllPrograms \ {p} : step'[q] = step[q],
         device' = device, held' = held, shared' = shared, overtaken' = overtaken,
         driver' = driver, failed' = failed, blank' = blank
  PROVE  CallTypes'
<1>1. CallTypes
  BY DEF Types
<1>2. \A q \in AllPrograms : step'[q] \in Calling <=> step[q] \in Calling
  OBVIOUS
<1>3. shared \subseteq {q \in AllPrograms : step'[q] \in {"drop", "add"}}
  BY <1>1 DEF CallTypes, Calling
<1> QED
  BY <1>1, <1>2, <1>3 DEF CallTypes

LEMMA FoundType ==
  ASSUME NEW f \in Found
  PROVE  /\ f \in [Kinds -> SUBSET UNION {Devices[k] : k \in Kinds}]
         /\ \A k \in Kinds : f[k] \subseteq Devices[k]
<1>1. /\ f = [k \in {"gpu", "mei", "qat", "gaudi"} |-> f[k]]
      /\ f["gpu"] \subseteq Devices["gpu"] /\ f["mei"] \subseteq Devices["mei"]
      /\ f["qat"] \subseteq Devices["qat"] /\ f["gaudi"] \subseteq Devices["gaudi"]
  BY DEF Found
<1>2. f = [k \in Kinds |-> f[k]] /\ \A k \in Kinds : f[k] \subseteq Devices[k]
  BY <1>1 DEF Kinds
<1>3. \A k \in Kinds : f[k] \in SUBSET UNION {Devices[j] : j \in Kinds}
  BY <1>2
<1> QED
  BY <1>2, <1>3

LEMMA StartStep ==
  ASSUME IInv, NEW p \in programs, Start(p) PROVE IInv'
<1>0. Types /\ OldInv /\ BootInv(p) /\ p \in AllPrograms
  BY ProgramsOf DEF IInv, Types
<1>1. PICK ks \in KindLists(p), f \in Found :
        /\ \A k \in Kinds \ Range(ks) : f[k] = {}
        /\ todo' = [todo EXCEPT ![p] = ks]
        /\ detected' = [detected EXCEPT ![p] = f]
  BY DEF Start
<1>2. /\ step[p] = "stopped"
      /\ step' = [step EXCEPT ![p] = "remove"] /\ view' = [view EXCEPT ![p] = dir]
      /\ stale' = stale \ {p} /\ dir' = dir /\ readable' = readable /\ blank' = blank
      /\ driver' = driver /\ device' = device /\ held' = held /\ shared' = shared
      /\ failed' = failed /\ overtaken' = overtaken /\ missed' = missed
      /\ index' = (IF p = "gaudi" THEN Blanks(dir) ELSE index) /\ programs' = programs
  BY DEF Start, callVars, gpuVars
<1>3. /\ step'[p] = "remove" /\ todo'[p] = ks /\ view'[p] = dir
      /\ detected'[p] = f /\ \A k \in Kinds : f[k] \subseteq Devices[k]
      /\ \A q \in AllPrograms \ {p} : /\ step'[q] = step[q] /\ todo'[q] = todo[q]
                                      /\ view'[q] = view[q] /\ detected'[q] = detected[q]
  BY <1>0, <1>1, <1>2, FoundType DEF Types, FileTypes, StepTypes, FoundTypes
<1>4. /\ ks \in Lists /\ ks # <<>>
      /\ p # "generator" => Range(ks) = OwnKinds(p)
  BY <1>0, ListsOf
<1>5. Types'
  <2>1. FileTypes'
    BY <1>0, <1>2 DEF Types, FileTypes
  <2>2. StepTypes'
    <3>1. step' \in [AllPrograms -> Steps] /\ todo' \in [AllPrograms -> Lists]
      BY <1>0, <1>1, <1>2, <1>4 DEF Types, StepTypes, Steps
    <3>2. \A q \in AllPrograms : todo'[q] # <<>> <=> step'[q] \in {"remove", "write"}
      BY <1>0, <1>3, <1>4 DEF Types, StepTypes
    <3>3. \A q \in programs \ {"generator"} : Range(todo'[q]) \subseteq OwnKinds(q)
      BY <1>0, <1>3, <1>4, ProgramsOf DEF Types, StepTypes
    <3> QED
      BY <3>1, <3>2, <3>3, <1>0, <1>2, <1>3 DEF Types, StepTypes, AllPrograms, Calling
  <2>3. FoundTypes'
    <3>1. \A k \in Kinds : detected'[p][k] \subseteq Devices[k]
      BY <1>3
    <3>2. detected'[p] \in [Kinds -> SUBSET UNION {Devices[k] : k \in Kinds}]
      BY <1>1, <1>3, FoundType
    <3>3. detected' \in [AllPrograms -> [Kinds -> SUBSET UNION {Devices[k] : k \in Kinds}]]
      BY <3>2, <1>0, <1>1, <1>3 DEF Types, FoundTypes
    <3> QED
      BY <3>1, <3>3, <1>0, <1>2, <1>3 DEF Types, FoundTypes, AllPrograms, Serving, Blanks
  <2>4. CallTypes'
    BY <1>0, <1>2, <1>3, CallsKept DEF Calling
  <2> QED
    BY <2>1, <2>2, <2>3, <2>4 DEF Types
<1>6. Frame(p)
  BY <1>2, <1>3 DEF Frame
<1>7. OldInv'
  BY <1>0, <1>2, <1>3 DEF OldInv
<1>8. BootInv(p)'
  <2>1. \A k \in Kinds : detected'[p][k] # {} => k \in Range(ks)
    BY <1>1, <1>3
  <2>2. Mine(p)' \subseteq Range(ks)
    BY <2>1, <1>4 DEF Mine
  <2> QED
    BY <2>2, <1>2, <1>3 DEF BootInv
<1>9. QatInv' \/ p # "qat"
  BY <1>3 DEF QatInv
<1>10. GaudiInv' \/ p # "gaudi"
  BY <1>3 DEF GaudiInv, Serving
<1>11. GpuInv' \/ p # "gpu"
  BY <1>3 DEF GpuInv, Serving
<1> QED
  BY <1>5, <1>6, <1>7, <1>8, <1>9, <1>10, <1>11, Combine

LEMMA StopStep ==
  ASSUME IInv, NEW p \in programs, Stop(p), dir' = dir, stale' = stale,
         readable' \subseteq Names
  PROVE  IInv'
<1>0. Types /\ OldInv /\ p \in AllPrograms
  BY ProgramsOf DEF IInv, Types
<1>1. /\ step' = [step EXCEPT ![p] = "stopped"] /\ todo' = [todo EXCEPT ![p] = <<>>]
      /\ view' = [view EXCEPT ![p] = NoSpecs]
      /\ detected' = [detected EXCEPT ![p] = [k \in Kinds |-> {}]]
      /\ device' = [device EXCEPT ![p] = NoDevice] /\ held' = [held EXCEPT ![p] = NoSpecs]
      /\ shared' = shared \ {p} /\ overtaken' = [overtaken EXCEPT ![p] = {}]
      /\ failed' = (IF p = "gpu" THEN {} ELSE failed)
      /\ p = "gaudi" => blank' = {} /\ index' = {} /\ missed' = {}
      /\ p # "gaudi" => blank' = blank /\ index' = index /\ missed' = missed
      /\ driver' = driver /\ programs' = programs
  BY DEF Stop, Release, gaudiVars
<1>2. NoSpecs \in Dirs /\ \A n \in Names : NoSpecs[n] = Absent
  <2>1. Absent \in FileSpec
    BY Zenon DEF FileSpec
  <2> QED
    BY <2>1 DEF NoSpecs, Dirs
<1>3. /\ step'[p] = "stopped" /\ todo'[p] = <<>> /\ view'[p] = NoSpecs
      /\ detected'[p] = [k \in Kinds |-> {}] /\ device'[p] = NoDevice /\ held'[p] = NoSpecs
      /\ overtaken'[p] = {} /\ p \notin shared'
      /\ \A q \in AllPrograms \ {p} : /\ step'[q] = step[q] /\ todo'[q] = todo[q]
                                      /\ view'[q] = view[q] /\ detected'[q] = detected[q]
  BY <1>0, <1>1 DEF Types, FileTypes, StepTypes, FoundTypes, CallTypes
<1>4. /\ \A q \in AllPrograms \ {p} : device'[q] = device[q] /\ held'[q] = held[q]
      /\ \A q \in AllPrograms \ {p} : overtaken'[q] = overtaken[q]
      /\ \A q \in AllPrograms \ {p} : q \in shared' <=> q \in shared
  BY <1>0, <1>1 DEF Types, CallTypes
<1>5. Types'
  <2>1. FileTypes'
    BY <1>0, <1>1, <1>2 DEF Types, FileTypes
  <2>2. StepTypes'
    <3>1. step' \in [AllPrograms -> Steps] /\ todo' \in [AllPrograms -> Lists]
      BY <1>0, <1>1 DEF Types, StepTypes, Steps, Lists
    <3>2. \A q \in AllPrograms : todo'[q] # <<>> <=> step'[q] \in {"remove", "write"}
      BY <1>0, <1>3 DEF Types, StepTypes
    <3>3. \A q \in programs \ {"generator"} : Range(todo'[q]) \subseteq OwnKinds(q)
      BY <1>0, <1>3, ListRanges, ProgramsOf DEF Types, StepTypes
    <3> QED
      BY <3>1, <3>2, <3>3, <1>0, <1>1, <1>3 DEF Types, StepTypes, AllPrograms, Calling
  <2>3. FoundTypes'
    <3>1. detected'[p] \in [Kinds -> SUBSET UNION {Devices[k] : k \in Kinds}]
      BY <1>3
    <3>2. detected' \in [AllPrograms -> [Kinds -> SUBSET UNION {Devices[k] : k \in Kinds}]]
      BY <3>1, <1>0, <1>1, <1>3 DEF Types, FoundTypes
    <3> QED
      BY <3>2, <1>0, <1>1, <1>3 DEF Types, FoundTypes, AllPrograms, Serving
  <2>4. CallTypes'
    <3>0. CallTypes
      BY <1>0 DEF Types
    <3>1. device' \in [AllPrograms -> GPUs \cup Claims \cup {NoDevice}]
      BY <3>0, <1>1 DEF CallTypes
    <3>2. /\ device'["gpu"] \in GPUs \cup {NoDevice} /\ device'["gaudi"] \in Claims \cup {NoDevice}
          /\ overtaken'["gpu"] \subseteq GPUs /\ overtaken'["gaudi"] \subseteq blank'
      BY <3>0, <1>1, <1>3, <1>4 DEF CallTypes, AllPrograms
    <3>3. \A q \in AllPrograms : device'[q] # NoDevice <=> step'[q] \in Calling
      <4>1. ASSUME NEW q \in AllPrograms \ {p} PROVE device'[q] # NoDevice <=> step'[q] \in Calling
        <5>1. device'[q] = device[q] /\ step'[q] = step[q]
          BY <1>3, <1>4
        <5>2. device[q] # NoDevice <=> step[q] \in Calling
          BY <3>0 DEF CallTypes
        <5> QED
          BY <5>1, <5>2
      <4>2. "stopped" \notin Calling
        BY DEF Calling
      <4> QED
        BY <4>1, <4>2, <1>3
    <3>4. /\ held' \in [AllPrograms -> Dirs]
           /\ overtaken' \in [AllPrograms -> SUBSET (GPUs \cup Claims)]
      BY <3>0, <1>1, <1>2 DEF CallTypes
    <3>5. shared' \subseteq {q \in AllPrograms : step'[q] \in {"drop", "add"}}
      BY <3>0, <1>1, <1>3 DEF CallTypes
    <3> QED
      BY <3>0, <3>1, <3>2, <3>3, <3>4, <3>5, <1>1 DEF CallTypes
  <2> QED
    BY <2>1, <2>2, <2>3, <2>4 DEF Types
<1>6. Frame(p)
  BY <1>1, <1>3, <1>4 DEF Frame
<1>7. OldInv'
  BY <1>0, <1>2, <1>3, FileNames DEF OldInv, Kinds
<1>8. BootInv(p)'
  BY <1>3 DEF BootInv, Booting
<1>9. QatInv' \/ p # "qat"
  BY <1>3 DEF QatInv
<1>10. GaudiInv' \/ p # "gaudi"
  BY <1>3 DEF GaudiInv, Serving
<1>11. GpuInv' \/ p # "gpu"
  BY <1>3 DEF GpuInv, Serving
<1> QED
  BY <1>5, <1>6, <1>7, <1>8, <1>9, <1>10, <1>11, Combine

-----------------------------------------------------------------------------
(* The steps of a program that starts: its files are replaced                *)

\* Entries for the devices a program detected are entries of a file.
LEMMA EntriesType ==
  ASSUME Types, NEW p \in AllPrograms, NEW k \in Kinds
  PROVE  /\ Entries(p, k) \in SUBSET (AllNames \X Edits) /\ SpecOf(p, k) \in FileSpec
         /\ \A e \in Entries(p, k) : e[1] \in detected[p][k]
<1>1. detected[p][k] \subseteq Devices[k] /\ Devices[k] \subseteq AllNames
  BY DEF Types, FoundTypes, AllNames
<1>2. ASSUME NEW d \in detected[p][k] PROVE EditsOf(k, d) \in Edits
  BY DEF EditsOf, Edits
<1>3. Entries(p, k) \in SUBSET (AllNames \X Edits)
  BY <1>1, <1>2 DEF Entries
<1>4. SpecOf(p, k) \in FileSpec
  BY <1>3 DEF SpecOf, FileSpec
<1>5. \A e \in Entries(p, k) : e[1] \in detected[p][k]
  BY DEF Entries
<1> QED
  BY <1>3, <1>4, <1>5

\* The entries a program has for a kind depend on what it detected and the drivers only.
LEMMA WrittenSame ==
  ASSUME NEW p, NEW k, Written(p, k), detected' = detected, driver' = driver,
         dir'[Generated(k)] = dir[Generated(k)], dir'[OldName(k)] = dir[OldName(k)]
  PROVE  Written(p, k)'
  BY DEF Written, SpecOf, Entries, EditsOf

LEMMA RemoveStep ==
  ASSUME IInv, NEW p \in programs, RemoveOld(p) PROVE IInv'
<1> DEFINE k == Head(todo[p])
           S == Removable(p, k)
<1>0. Types /\ OldInv /\ BootInv(p) /\ p \in AllPrograms
  BY ProgramsOf DEF IInv, Types
<1>1. /\ step[p] = "remove" /\ step' = [step EXCEPT ![p] = "write"]
      /\ dir' = [n \in Names |-> IF n \in S THEN Absent ELSE dir[n]]
      /\ readable' = readable \ S
      /\ stale' = IF \E n \in S : dir[n] # Absent THEN programs ELSE stale
      /\ todo' = todo /\ view' = view /\ detected' = detected /\ driver' = driver
      /\ device' = device /\ held' = held /\ shared' = shared /\ failed' = failed
      /\ overtaken' = overtaken /\ blank' = blank /\ index' = index /\ missed' = missed
      /\ programs' = programs
  BY DEF RemoveOld, Delete, callVars, gpuVars, gaudiVars
<1>2. todo[p] \in Lists /\ todo[p] # <<>>
  BY <1>0, <1>1 DEF Types, StepTypes
<1>3. /\ k \in Range(todo[p]) /\ Range(Tail(todo[p])) = Range(todo[p]) \ {k}
      /\ k \in Owned(p) /\ k \in Kinds /\ Mine(p) \subseteq Kinds
  BY <1>0, <1>2, ListFacts, PendingOwned
<1>4. \A n \in S : n \in Names /\ Kind(n) = k
  BY DEF Removable, Files
<1>5. \A n \in Names : Kind(n) # k => dir'[n] = dir[n]
  BY <1>1, <1>4
<1>6. step'[p] = "write" /\ \A q \in AllPrograms \ {p} : step'[q] = step[q]
  BY <1>0, <1>1 DEF Types, StepTypes
<1>7. dir' = dir \/ stale' = programs
  <2>1. CASE \E n \in S : dir[n] # Absent
    BY <1>1, <2>1
  <2>2. CASE \A n \in S : dir[n] = Absent
    <3>1. dir \in [Names -> FileSpec]
      BY <1>0 DEF Types, FileTypes, Dirs
    <3> QED
      BY <1>1, <2>2, <3>1
  <2> QED
    BY <2>1, <2>2
<1>8. stale \subseteq stale'
  BY <1>0, <1>1 DEF Types, FileTypes
<1>9. Types'
  <2>1. FileTypes'
    <3>1. Absent \in FileSpec
      BY Zenon DEF FileSpec
    <3>2. dir' \in Dirs
      BY <1>0, <1>1, <3>1 DEF Types, FileTypes, Dirs
    <3> QED
      BY <3>2, <1>0, <1>1 DEF Types, FileTypes
  <2>2. StepTypes'
    BY <1>0, <1>1, <1>6 DEF Types, StepTypes, Steps, Calling
  <2>3. FoundTypes'
    BY <1>0, <1>1, <1>6 DEF Types, FoundTypes, AllPrograms, Serving
  <2>4. CallTypes'
    BY <1>0, <1>1, <1>6, CallsKept DEF Calling
  <2> QED
    BY <2>1, <2>2, <2>3, <2>4 DEF Types
<1>10. Frame(p)
  BY <1>1, <1>3, <1>5, <1>6, <1>7, <1>8 DEF Frame
<1>11. OldInv'
  BY <1>0, <1>1, FileNames DEF OldInv, Kinds
<1>12. BootInv(p)'
  <2>1. p \notin stale' => view'[p] = dir'
    BY <1>0, <1>1, <1>7, <1>8 DEF BootInv, Booting
  <2>2. ASSUME NEW n \in Names, Kind(n) \in Pending(p)' PROVE view'[p][n] = dir'[n]
    <3>1. Kind(n) # k /\ Kind(n) \in Pending(p)
      BY <1>1, <1>3, <1>6, <2>2 DEF Pending
    <3> QED
      BY <3>1, <1>0, <1>1, <1>5 DEF BootInv, Booting
  <2>3. ASSUME k \in {"gpu", "mei"}, NEW n \in Names, Kind(n) = k PROVE dir'[n] = Absent
    <3>1. view[p][n] = dir[n]
      BY <1>0, <1>1, <1>3, <2>3 DEF BootInv, Booting, Pending
    <3>2. n \in S <=> view[p][n] # Absent
      BY <2>3 DEF Removable, Files
    <3> QED
      BY <3>1, <3>2, <1>1
  <2>4. k \in {"gpu", "mei"} => dir'[Generated(k)] = Absent /\ dir'[OldName(k)] = Absent
    BY <1>3, <2>3, FileNames
  <2>5. ASSUME NEW j \in Mine(p)' \ Range(todo'[p]) PROVE Written(p, j)'
    <3>1. j \in Mine(p) \ Range(todo[p]) /\ j \in Kinds /\ j # k
      BY <1>1, <1>3, <2>5 DEF Mine
    <3>2. Written(p, j)
      BY <3>1, <1>0, <1>1 DEF BootInv, Booting
    <3>3. dir'[Generated(j)] = dir[Generated(j)] /\ dir'[OldName(j)] = dir[OldName(j)]
      BY <3>1, <1>5, FileNames
    <3> QED
      BY <3>2, <3>3, <1>1, WrittenSame
  <2> QED
    BY <2>1, <2>2, <2>4, <2>5, <1>1 DEF BootInv
<1>13. (p = "qat" => QatInv') /\ (p = "gaudi" => GaudiInv') /\ (p = "gpu" => GpuInv')
  BY <1>6 DEF QatInv, GaudiInv, GpuInv, Serving
<1> QED
  BY <1>9, <1>10, <1>11, <1>12, <1>13, Combine

LEMMA WriteStep ==
  ASSUME IInv, NEW p \in programs, WriteNew(p) PROVE IInv'
<1> DEFINE k == Head(todo[p])
<1>0. Types /\ OldInv /\ BootInv(p) /\ p \in AllPrograms
  BY ProgramsOf DEF IInv, Types
<1>1. /\ step[p] = "write"
      /\ \/ Entries(p, k) # {} /\ Write(Generated(k), Entries(p, k))
         \/ Entries(p, k) = {} /\ k \in {"gpu", "mei"} /\ UNCHANGED dirVars
         \/ Entries(p, k) = {} /\ k \in {"qat", "gaudi"} /\ Delete({Generated(k)})
      /\ todo' = [todo EXCEPT ![p] = Tail(todo[p])]
      /\ step' = [step EXCEPT ![p] = IF Len(todo[p]) > 1 THEN "remove" ELSE "settle"]
      /\ view' = view /\ detected' = detected /\ driver' = driver
      /\ device' = device /\ held' = held /\ shared' = shared /\ failed' = failed
      /\ overtaken' = overtaken /\ blank' = blank /\ index' = index /\ missed' = missed
      /\ programs' = programs
  BY DEF WriteNew, NextKind, callVars, gpuVars, gaudiVars
<1>2. todo[p] \in Lists /\ todo[p] # <<>>
  BY <1>0, <1>1 DEF Types, StepTypes
<1>3. /\ k \in Range(todo[p]) /\ Range(Tail(todo[p])) = Range(todo[p]) \ {k}
      /\ Tail(todo[p]) \in Lists /\ (Len(todo[p]) > 1 <=> Tail(todo[p]) # <<>>)
      /\ k \in Owned(p) /\ k \in Kinds /\ Mine(p) \subseteq Kinds
  BY <1>0, <1>2, ListFacts, PendingOwned
<1>4. /\ todo'[p] = Tail(todo[p])
      /\ step'[p] = (IF Tail(todo[p]) # <<>> THEN "remove" ELSE "settle")
      /\ \A q \in AllPrograms \ {p} : step'[q] = step[q] /\ todo'[q] = todo[q]
  BY <1>0, <1>1, <1>3 DEF Types, StepTypes
<1>5. /\ Generated(k) \in Names /\ Kind(Generated(k)) = k /\ OldName(k) \in Names
      /\ Kind(OldName(k)) = k /\ OldName(k) # Generated(k)
  BY <1>3, FileNames
<1>6. dir \in [Names -> FileSpec] /\ dir[OldName(k)] = Absent
  <2>1. k \in {"gpu", "mei"} => dir[OldName(k)] = Absent
    BY <1>0, <1>1 DEF BootInv, Booting
  <2>2. k \notin {"gpu", "mei"} => dir[OldName(k)] = Absent
    BY <1>0, <1>3 DEF OldInv, Kinds
  <2> QED
    BY <2>1, <2>2, <1>0 DEF Types, FileTypes, Dirs
<1>7. /\ dir' = [dir EXCEPT ![Generated(k)] = SpecOf(p, k)]
      /\ readable' \subseteq readable /\ stale' \in {stale, programs}
      /\ dir' = dir \/ stale' = programs
  <2>1. CASE Entries(p, k) # {} /\ Write(Generated(k), Entries(p, k))
    BY <2>1 DEF Write, SpecOf
  <2>2. CASE Entries(p, k) = {} /\ k \in {"gpu", "mei"} /\ UNCHANGED dirVars
    <3>1. dir[Generated(k)] = Absent
      BY <2>2, <1>0, <1>1 DEF BootInv, Booting
    <3> QED
      BY <3>1, <2>2, <1>5, <1>6 DEF dirVars, SpecOf
  <2>3. CASE Entries(p, k) = {} /\ k \in {"qat", "gaudi"} /\ Delete({Generated(k)})
    <3>1. /\ dir' = [n \in Names |-> IF n = Generated(k) THEN Absent ELSE dir[n]]
          /\ readable' \subseteq readable
          /\ stale' = IF dir[Generated(k)] # Absent THEN programs ELSE stale
      BY <2>3 DEF Delete
    <3>2. dir' = [dir EXCEPT ![Generated(k)] = Absent]
      BY <3>1, <1>5, <1>6
    <3>3. dir[Generated(k)] = Absent => dir' = dir
      BY <3>2, <1>5, <1>6
    <3> QED
      BY <3>1, <3>2, <3>3, <2>3 DEF SpecOf
  <2> QED
    BY <1>1, <2>1, <2>2, <2>3
<1>8. /\ dir'[Generated(k)] = SpecOf(p, k) /\ dir'[OldName(k)] = Absent
      /\ \A n \in Names : Kind(n) # k => dir'[n] = dir[n]
  BY <1>5, <1>6, <1>7
<1>9. stale \subseteq stale' /\ stale' \subseteq programs
  BY <1>0, <1>7 DEF Types, FileTypes
<1>10. Types'
  <2>1. FileTypes'
    <3>1. dir' \in Dirs
      BY <1>0, <1>3, <1>6, <1>7, EntriesType DEF Dirs
    <3> QED
      BY <3>1, <1>0, <1>1, <1>7, <1>9 DEF Types, FileTypes
  <2>2. StepTypes'
    <3>1. step' \in [AllPrograms -> Steps] /\ todo' \in [AllPrograms -> Lists]
      BY <1>0, <1>1, <1>3 DEF Types, StepTypes, Steps
    <3>2. \A q \in AllPrograms : todo'[q] # <<>> <=> step'[q] \in {"remove", "write"}
      BY <1>0, <1>4 DEF Types, StepTypes
    <3>3. \A q \in programs \ {"generator"} : Range(todo'[q]) \subseteq OwnKinds(q)
      BY <1>0, <1>3, <1>4, ProgramsOf DEF Types, StepTypes
    <3> QED
      BY <3>1, <3>2, <3>3, <1>0, <1>1, <1>4 DEF Types, StepTypes, AllPrograms, Calling
  <2>3. FoundTypes'
    BY <1>0, <1>1, <1>4 DEF Types, FoundTypes, AllPrograms, Serving
  <2>4. CallTypes'
    BY <1>0, <1>1, <1>4, CallsKept DEF Calling
  <2> QED
    BY <2>1, <2>2, <2>3, <2>4 DEF Types
<1>11. Frame(p)
  BY <1>1, <1>3, <1>4, <1>7, <1>8, <1>9 DEF Frame
<1>12. OldInv'
  <2>1. ASSUME NEW j \in {"qat", "gaudi"} PROVE dir'[OldName(j)] = Absent
    <3>1. CASE j = k
      BY <3>1, <1>8
    <3>2. CASE j # k
      BY <3>2, <1>0, <1>8, FileNames DEF OldInv, Kinds
    <3> QED
      BY <3>1, <3>2
  <2> QED
    BY <2>1, <1>0, <1>1 DEF OldInv
<1>13. BootInv(p)'
  <2>1. p \notin stale' => view'[p] = dir'
    BY <1>0, <1>1, <1>7, <1>9 DEF BootInv, Booting
  <2>2. Pending(p)' = Range(Tail(todo[p])) /\ Pending(p) = Range(Tail(todo[p]))
    BY <1>1, <1>4 DEF Pending
  <2>3. ASSUME NEW n \in Names, Kind(n) \in Pending(p)' PROVE view'[p][n] = dir'[n]
    <3>1. Kind(n) # k /\ Kind(n) \in Pending(p)
      BY <1>3, <2>2, <2>3
    <3> QED
      BY <3>1, <1>0, <1>1, <1>8 DEF BootInv, Booting
  <2>4. step'[p] # "write"
    BY <1>4
  <2>5. ASSUME NEW j \in Mine(p)' \ Range(todo'[p]) PROVE Written(p, j)'
    <3>1. j \in Mine(p) /\ j \in Kinds /\ (j \notin Range(todo[p]) \/ j = k)
      BY <1>1, <1>3, <1>4, <2>5 DEF Mine
    <3>2. CASE j # k
      <4>1. Written(p, j)
        BY <3>1, <3>2, <1>0, <1>1 DEF BootInv, Booting
      <4>2. dir'[Generated(j)] = dir[Generated(j)] /\ dir'[OldName(j)] = dir[OldName(j)]
        BY <3>1, <3>2, <1>8, FileNames
      <4> QED
        BY <4>1, <4>2, <1>1, WrittenSame
    <3>3. CASE j = k
      <4>1. SpecOf(p, j)' = SpecOf(p, j)
        BY <1>1 DEF SpecOf, Entries, EditsOf
      <4>2. dir'[Generated(j)] = SpecOf(p, j) /\ dir'[OldName(j)] = Absent
        BY <3>3, <1>8
      <4> QED
        BY <4>1, <4>2 DEF Written
    <3> QED
      BY <3>2, <3>3
  <2> QED
    BY <2>1, <2>3, <2>4, <2>5 DEF BootInv
<1>14. (p = "qat" => QatInv') /\ (p = "gaudi" => GaudiInv') /\ (p = "gpu" => GpuInv')
  BY <1>4 DEF QatInv, GaudiInv, GpuInv, Serving
<1> QED
  BY <1>10, <1>11, <1>12, <1>13, <1>14, Combine

LEMMA ReadyStep ==
  ASSUME IInv, NEW p \in programs, Ready(p) PROVE IInv'
<1>0. Types /\ OldInv /\ BootInv(p) /\ QatInv /\ GaudiInv /\ GpuInv /\ p \in AllPrograms
  BY ProgramsOf DEF IInv, Types
<1>1. /\ step[p] = "settle" /\ p # "generator" /\ p \notin stale
      /\ step' = [step EXCEPT ![p] = "idle"]
      /\ dir' = dir /\ readable' = readable /\ stale' = stale
      /\ todo' = todo /\ view' = view /\ detected' = detected /\ driver' = driver
      /\ device' = device /\ held' = held /\ shared' = shared /\ failed' = failed
      /\ overtaken' = overtaken /\ blank' = blank /\ index' = index /\ missed' = missed
      /\ programs' = programs
  BY DEF Ready, dirVars, callVars, gpuVars, gaudiVars
<1>2. step'[p] = "idle" /\ \A q \in AllPrograms \ {p} : step'[q] = step[q]
  BY <1>0, <1>1 DEF Types, StepTypes
<1>3. todo[p] = <<>> /\ view[p] = dir
  BY <1>0, <1>1 DEF Types, StepTypes, BootInv, Booting
<1>4. \A k \in OwnKinds(p) : Written(p, k)
  BY <1>0, <1>1, <1>3, ListRanges DEF BootInv, Booting, Mine
<1>5. \A k \in OwnKinds(p) : Written(p, k)'
  BY <1>1, <1>4, WrittenSame
<1>6. Types'
  <2>1. FileTypes'
    BY <1>0, <1>1 DEF Types, FileTypes
  <2>2. StepTypes'
    BY <1>0, <1>1, <1>2 DEF Types, StepTypes, Steps, Calling, Serving
  <2>3. FoundTypes'
    BY <1>0, <1>1, <1>2 DEF Types, FoundTypes, AllPrograms, Serving
  <2>4. CallTypes'
    BY <1>0, <1>1, <1>2, CallsKept DEF Calling
  <2> QED
    BY <2>1, <2>2, <2>3, <2>4 DEF Types
<1>7. Frame(p)
  BY <1>1, <1>2 DEF Frame
<1>8. OldInv'
  BY <1>0, <1>1 DEF OldInv
<1>9. BootInv(p)'
  BY <1>2 DEF BootInv, Booting
<1>10. p = "qat" => QatInv'
  BY <1>5, OwnKindsAre DEF QatInv
<1>11. ASSUME p = "gaudi" PROVE GaudiInv'
  <2>1. /\ dir[GaudiFile] = SpecOf("gaudi", "gaudi") /\ view'["gaudi"] = dir
        /\ step'["gaudi"] = "idle"
    BY <1>1, <1>2, <1>3, <1>4, <1>11, OwnKindsAre DEF Written, GaudiFile
  <2>2. blank' = {} /\ missed' = {}
    BY <1>0, <1>1, <1>11 DEF Types, FoundTypes, Serving
  <2>3. /\ GaudiDevices' = Entries("gaudi", "gaudi")
        /\ Entries("gaudi", "gaudi") \in SUBSET (AllNames \X Edits)
    BY <1>0, <1>1, EntriesType DEF GaudiDevices, Entries, EditsOf, AllPrograms, Kinds
  <2>4. Entries("gaudi", "gaudi") = {} <=> detected["gaudi"]["gaudi"] = {}
    BY DEF Entries
  <2>5. ASSUME NEW x, x = Entries("gaudi", "gaudi") PROVE GaudiRight(x)'
    BY <2>2, <2>3, <2>5 DEF GaudiRight, BlanksOf
  <2>6. ASSUME NEW x, x = dir[GaudiFile], detected["gaudi"]["gaudi"] # {}
        PROVE  /\ x # Absent
               /\ GaudiRight(dir[GaudiFile])' /\ GaudiRight(view["gaudi"][GaudiFile])'
    <3>1. x = Entries("gaudi", "gaudi") /\ x # Absent
      BY <2>1, <2>3, <2>4, <2>6, NotAbsent DEF SpecOf
    <3>2. GaudiRight(x)'
      BY <2>5, <3>1
    <3>3. x = dir'[GaudiFile] /\ x = view'["gaudi"][GaudiFile]
      BY <2>1, <2>6, <1>1
    <3> QED
      BY <3>1, <3>2, <3>3 DEF GaudiRight
  <2>7. GaudiFiles'
    BY <2>1, <2>2, <2>4, <2>6, <1>1 DEF GaudiFiles, SpecOf
  <2>8. GaudiIndex' /\ GaudiHeld' /\ GaudiCall'
    BY <2>1, <2>2 DEF GaudiIndex, GaudiHeld, GaudiCall
  <2> QED
    BY <2>7, <2>8 DEF GaudiInv
<1>12. ASSUME p = "gpu" PROVE GpuInv'
  <2>1. dir[GpuFile] = SpecOf("gpu", "gpu") /\ dir[GpuOld] = Absent
    BY <1>4, <1>12, OwnKindsAre DEF Written, GpuFile, GpuOld
  <2>2. Written("gpu", "mei")'
    BY <1>5, <1>12, OwnKindsAre
  <2>3. /\ view'["gpu"] = dir /\ step'["gpu"] = "idle" /\ device'["gpu"] = NoDevice
    BY <1>0, <1>1, <1>2, <1>3, <1>12 DEF Types, CallTypes, Calling
  <2>4. Entries("gpu", "gpu") \in SUBSET (AllNames \X Edits)
    BY <1>0, EntriesType DEF AllPrograms, Kinds
  <2>5. In(dir[GpuFile]) = Entries("gpu", "gpu")
    BY <2>1, <2>4, NotAbsent DEF In, SpecOf
  <2>6. ASSUME NEW x, x = Entries("gpu", "gpu") PROVE GpuRight(x)'
    BY <2>6, <1>1 DEF GpuRight, Settled, Entries, EditsOf
  <2>7. ASSUME NEW x, x = In(dir[GpuFile])
        PROVE  GpuRight(In(dir[GpuFile]))' /\ GpuRight(In(view["gpu"][GpuFile]))'
    <3>1. GpuRight(x)'
      BY <2>5, <2>6, <2>7
    <3>2. x = In(dir'[GpuFile]) /\ x = In(view'["gpu"][GpuFile])
      BY <2>3, <2>7, <1>1
    <3> QED
      BY <3>1, <3>2 DEF GpuRight
  <2>8. GpuFiles'
    BY <2>1, <2>2, <2>3, <2>7, <1>1 DEF GpuFiles
  <2>9. GpuHeld' /\ GpuCall'
    BY <2>3 DEF GpuHeld, GpuCall
  <2> QED
    BY <2>8, <2>9 DEF GpuInv
<1> QED
  BY <1>6, <1>7, <1>8, <1>9, <1>10, <1>11, <1>12, Combine

-----------------------------------------------------------------------------
(* The steps of an update                                                   *)

LEMMA GpuRuns ==
  ASSUME Types, step["gpu"] \in Serving
  PROVE  "gpu" \in programs /\ "gpu" \in AllPrograms /\ Owned("gpu") = {"gpu", "mei"}
BY OwnKindsAre DEF Types, StepTypes, AllPrograms, Serving

\* What a step of an update changes: what is the plugin's own, and its file.
GpuOnly ==
  /\ step["gpu"] \in Serving /\ step'["gpu"] \in Serving
  /\ UNCHANGED <<todo, blank, index, missed, programs>>
  /\ step' = [step EXCEPT !["gpu"] = step'["gpu"]]
  /\ view' = [view EXCEPT !["gpu"] = view'["gpu"]]
  /\ held' = [held EXCEPT !["gpu"] = held'["gpu"]]
  /\ device' = [device EXCEPT !["gpu"] = device'["gpu"]]
  /\ overtaken' = [overtaken EXCEPT !["gpu"] = overtaken'["gpu"]]
  /\ shared' \in {shared, shared \cup {"gpu"}, shared \ {"gpu"}}
  /\ \E D \in SUBSET GPUs : detected' = [detected EXCEPT !["gpu"]["gpu"] = D]
  /\ dir' \in Dirs /\ view'["gpu"] \in Dirs /\ held'["gpu"] \in Dirs
  /\ \A n \in Names \ {GpuFile} : dir'[n] = dir[n] /\ view'["gpu"][n] = view["gpu"][n]
  /\ readable' \subseteq readable
  /\ (dir' = dir /\ stale' = stale) \/ stale' = programs
  /\ driver' \in [GPUs -> {"drm", "vfio", "none"}]
  /\ failed' \subseteq GPUs /\ overtaken'["gpu"] \subseteq GPUs
  /\ device'["gpu"] \in GPUs \cup {NoDevice}
  /\ device'["gpu"] # NoDevice <=> step'["gpu"] \in Calling
  /\ "gpu" \in shared' => step'["gpu"] \in {"drop", "add"}

LEMMA GpuStep ==
  ASSUME Types, OldInv, GpuOnly
  PROVE  /\ Types' /\ Frame("gpu") /\ OldInv' /\ BootInv("gpu")'
         /\ Written("gpu", "mei") => Written("gpu", "mei")'
<1>1. /\ "gpu" \in programs /\ "gpu" \in AllPrograms /\ Owned("gpu") = {"gpu", "mei"}
      /\ FileTypes /\ StepTypes /\ FoundTypes /\ CallTypes
  BY GpuRuns DEF GpuOnly, Types
<1>2. \A q \in AllPrograms \ {"gpu"} : step'[q] = step[q] /\ view'[q] = view[q]
  BY <1>1 DEF GpuOnly, FileTypes, StepTypes
<1>3. \A q \in AllPrograms \ {"gpu"} : device'[q] = device[q] /\ held'[q] = held[q]
  BY <1>1 DEF GpuOnly, CallTypes
<1>4. \A q \in AllPrograms \ {"gpu"} : overtaken'[q] = overtaken[q]
  BY <1>1 DEF GpuOnly, CallTypes
<1>5. \A q \in AllPrograms \ {"gpu"} : q \in shared' <=> q \in shared
  BY DEF GpuOnly
<1>6. PICK D \in SUBSET GPUs : detected' = [detected EXCEPT !["gpu"]["gpu"] = D]
  BY DEF GpuOnly
<1>7. /\ \A q \in AllPrograms \ {"gpu"} : detected'[q] = detected[q]
      /\ detected'["gpu"] = [detected["gpu"] EXCEPT !["gpu"] = D]
  BY <1>1, <1>6 DEF FoundTypes
<1>8. FileTypes'
  BY <1>1 DEF GpuOnly, FileTypes
<1>9. StepTypes'
  <2>1. step' \in [AllPrograms -> Steps]
    BY <1>1 DEF GpuOnly, StepTypes, Steps
  <2>2. \A q \in AllPrograms : todo'[q] # <<>> <=> step'[q] \in {"remove", "write"}
    BY <1>1, <1>2 DEF GpuOnly, StepTypes, Serving
  <2> QED
    BY <1>1, <1>2, <2>1, <2>2 DEF GpuOnly, StepTypes, AllPrograms
<1>10. FoundTypes'
  <2>1. /\ detected'["gpu"] \in [Kinds -> SUBSET UNION {Devices[k] : k \in Kinds}]
        /\ \A k \in Kinds : detected'["gpu"][k] \subseteq Devices[k]
    BY <1>1, <1>6, <1>7, NamesOf DEF FoundTypes, Kinds
  <2>2. detected' \in [AllPrograms -> [Kinds -> SUBSET UNION {Devices[k] : k \in Kinds}]]
    BY <1>1, <1>6, <1>7, <2>1 DEF FoundTypes
  <2>3. \A p \in AllPrograms, k \in Kinds : detected'[p][k] \subseteq Devices[k]
    BY <1>1, <1>7, <2>1 DEF FoundTypes
  <2> QED
    BY <1>1, <1>2, <2>2, <2>3 DEF GpuOnly, FoundTypes, AllPrograms
<1>11. CallTypes'
  <2>1. device' \in [AllPrograms -> GPUs \cup Claims \cup {NoDevice}]
    BY <1>1 DEF GpuOnly, CallTypes
  <2>2. \A q \in AllPrograms : device'[q] # NoDevice <=> step'[q] \in Calling
    <3>1. ASSUME NEW q \in AllPrograms \ {"gpu"}
          PROVE  device'[q] # NoDevice <=> step'[q] \in Calling
      <4>1. device'[q] = device[q] /\ step'[q] = step[q]
        BY <1>2, <1>3
      <4>2. device[q] # NoDevice <=> step[q] \in Calling
        BY <1>1 DEF CallTypes
      <4> QED
        BY <4>1, <4>2
    <3> QED
      BY <3>1 DEF GpuOnly
  <2>3. shared' \subseteq {q \in AllPrograms : step'[q] \in {"drop", "add"}}
    <3>1. ASSUME NEW q \in shared', q # "gpu"
           PROVE  q \in AllPrograms /\ step'[q] \in {"drop", "add"}
      <4>1. q \in shared
        BY <3>1 DEF GpuOnly
      <4>2. q \in AllPrograms /\ step[q] \in {"drop", "add"}
        BY <4>1, <1>1 DEF CallTypes
      <4> QED
        BY <3>1, <4>2, <1>2
    <3> QED
      BY <3>1, <1>1 DEF GpuOnly
  <2>4. /\ held' \in [AllPrograms -> Dirs]
        /\ overtaken' \in [AllPrograms -> SUBSET (GPUs \cup Claims)]
    BY <1>1 DEF GpuOnly, CallTypes
  <2>5. "gaudi" \in AllPrograms \ {"gpu"}
    BY DEF AllPrograms
  <2> QED
    BY <1>1, <1>3, <1>4, <2>1, <2>2, <2>3, <2>4, <2>5 DEF GpuOnly, CallTypes
<1>12. Frame("gpu")
  <2>1. \A n \in Names : Kind(n) \notin Owned("gpu") => dir'[n] = dir[n]
    BY <1>1, FileNames DEF GpuOnly, GpuFile, Kinds
  <2>2. (dir' = dir \/ stale' = programs) /\ stale \ {"gpu"} \subseteq stale'
    BY <1>1 DEF GpuOnly, FileTypes
  <2>3. programs' = programs /\ blank' = blank /\ index' = index /\ missed' = missed /\ todo' = todo
    BY DEF GpuOnly
  <2> QED
    BY <1>2, <1>3, <1>4, <1>5, <1>7, <2>1, <2>2, <2>3 DEF Frame
<1>13. OldInv'
  <2>1. \A k \in {"qat", "gaudi"} : OldName(k) \in Names \ {GpuFile}
    BY FileNames DEF GpuFile, Kinds
  <2> QED
    BY <1>2, <2>1 DEF GpuOnly, OldInv
<1>14. BootInv("gpu")'
  BY DEF GpuOnly, BootInv, Booting, Serving
<1>15. ASSUME Written("gpu", "mei") PROVE Written("gpu", "mei")'
  <2>1. Generated("mei") \in Names \ {GpuFile} /\ OldName("mei") \in Names \ {GpuFile}
    BY FileNames DEF GpuFile, Kinds
  <2>2. detected'["gpu"]["mei"] = detected["gpu"]["mei"]
    BY <1>1, <1>7 DEF FoundTypes, Kinds
  <2>3. Entries("gpu", "mei")' = Entries("gpu", "mei")
    BY <2>2 DEF Entries, EditsOf
  <2> QED
    BY <1>15, <2>1, <2>3 DEF GpuOnly, Written, SpecOf
<1> QED
  BY <1>8, <1>9, <1>10, <1>11, <1>12, <1>13, <1>14, <1>15 DEF Types

\* A spec t that says the same as a right one of all devices but d is right when what it
\* says of d is, if d is settled then.
LEMMA GpuRightMoves ==
  ASSUME NEW d, NEW s, NEW t, GpuRight(s),
         \A e \in s \cup t : e[1] # d => e \in s /\ e \in t,
         detected["gpu"]["gpu"] \subseteq detected'["gpu"]["gpu"],
         d \in detected'["gpu"]["gpu"],
         \A x \in Settled' : x # d => x \in Settled /\ driver'[x] = driver[x],
         d \in Settled' => /\ \A e \in t : e[1] = d => e = <<d, EditsOf("gpu", d)'>>
                           /\ driver'[d] # "none" => <<d, EditsOf("gpu", d)'>> \in t
  PROVE  GpuRight(t)'
<1>1. ASSUME NEW e \in t PROVE e[1] \in detected'["gpu"]["gpu"]
  <2>1. CASE e[1] = d
    BY <2>1
  <2>2. CASE e[1] # d
    BY <2>2, <1>1 DEF GpuRight
  <2> QED
    BY <2>1, <2>2
<1>2. ASSUME NEW x \in Settled', x # d
      PROVE  /\ \A e \in t : e[1] = x => e = <<x, EditsOf("gpu", x)'>>
             /\ driver'[x] # "none" => <<x, EditsOf("gpu", x)'>> \in t
  <2>1. x \in Settled /\ driver'[x] = driver[x] /\ EditsOf("gpu", x)' = EditsOf("gpu", x)
    BY <1>2 DEF EditsOf
  <2>2. /\ \A e \in s : e[1] = x => e = <<x, EditsOf("gpu", x)>>
        /\ driver[x] # "none" => <<x, EditsOf("gpu", x)>> \in s
    BY <2>1 DEF GpuRight
  <2>3. \A e \in t : e[1] = x => e = <<x, EditsOf("gpu", x)>>
    BY <2>2, <1>2
  <2>4. <<x, EditsOf("gpu", x)>>[1] # d
    BY <1>2
  <2> QED
    BY <2>1, <2>2, <2>3, <2>4
<1> QED
  BY <1>1, <1>2 DEF GpuRight

\* The parts of the invariant, after a step, from those of the specs.
LEMMA GpuInvFrom ==
  ASSUME NEW f, NEW v, NEW h, f = In(dir'[GpuFile]), v = In(view'["gpu"][GpuFile]),
         GpuRight(f)', GpuRight(v)', Written("gpu", "mei")',
         dir'[GpuOld] = Absent, view'["gpu"][GpuOld] = Absent, GpuCall',
         step'["gpu"] \in {"drop", "add"} =>
           /\ h = In(held'["gpu"][GpuFile]) /\ GpuRight(h)' /\ held'["gpu"][GpuOld] = Absent
           /\ "gpu" \in shared' => /\ held'["gpu"][GpuFile] # Absent
                                   /\ view'["gpu"][GpuFile] = held'["gpu"][GpuFile]
  PROVE  GpuInv'
<1>1. GpuFiles'
  BY DEF GpuFiles, GpuRight
<1>2. GpuHeld'
  BY DEF GpuHeld, GpuRight
<1> QED
  BY <1>1, <1>2 DEF GpuInv

\* What a call gets of the GPU specs.
LEMMA GpuGets ==
  ASSUME Types, view["gpu"][GpuOld] = Absent, Get("gpu", Files(view["gpu"], "gpu"))
  PROVE  /\ held' = [held EXCEPT !["gpu"] = held'["gpu"]] /\ held'["gpu"] \in Dirs
         /\ held'["gpu"][GpuFile] = view["gpu"][GpuFile] /\ held'["gpu"][GpuOld] = Absent
         /\ shared' \in {shared \cup {"gpu"}, shared \ {"gpu"}}
         /\ "gpu" \in shared' => view["gpu"][GpuFile] # Absent
<1> DEFINE S == Files(view["gpu"], "gpu")
           h == [n \in Names |-> IF n \in S THEN view["gpu"][n] ELSE Absent]
<1>1. held' = [held EXCEPT !["gpu"] = h]
      /\ shared' = IF S = {} THEN shared \ {"gpu"} ELSE shared \cup {"gpu"}
  BY DEF Get
<1>2. view["gpu"] \in Dirs /\ "gpu" \in AllPrograms
  BY DEF Types, FileTypes, AllPrograms
<1>3. h \in Dirs
  <2>1. Absent \in FileSpec
    BY Zenon DEF FileSpec
  <2> QED
    BY <2>1, <1>2 DEF Dirs
<1>4. /\ GpuFile \in Names /\ GpuOld \in Names
      /\ \A n \in Names : Kind(n) = "gpu" <=> n \in {GpuFile, GpuOld}
  BY FileNames DEF GpuFile, GpuOld, Kinds
<1>5. S \subseteq {GpuFile} /\ (GpuFile \in S <=> view["gpu"][GpuFile] # Absent)
  BY <1>4 DEF Files
<1>6. h[GpuFile] = view["gpu"][GpuFile] /\ h[GpuOld] = Absent
  BY <1>4, <1>5
<1>7. S # {} => view["gpu"][GpuFile] # Absent
  BY <1>5
<1> HIDE DEF S, h
<1>8. held'["gpu"] = h
  BY <1>1, <1>2 DEF Types, CallTypes
<1> QED
  BY <1>1, <1>3, <1>6, <1>7, <1>8

LEMMA BeginsStep ==
  ASSUME IInv, NEW d \in GPUs, UpdateBegins(d),
         driver' \in [GPUs -> {"drm", "vfio", "none"}],
         \A x \in GPUs \ {d} : driver'[x] = driver[x],
         NEW D \in SUBSET GPUs, detected' = [detected EXCEPT !["gpu"]["gpu"] = D],
         detected["gpu"]["gpu"] \cup {d} = D,
         d \notin detected["gpu"]["gpu"] \/ driver'[d] # "none"
  PROVE  IInv'
<1>1. /\ step["gpu"] = "idle" /\ Get("gpu", Files(view["gpu"], "gpu"))
      /\ device' = [device EXCEPT !["gpu"] = d] /\ step' = [step EXCEPT !["gpu"] = "drop"]
      /\ dir' = dir /\ readable' = readable /\ stale' = stale /\ view' = view
      /\ UNCHANGED <<todo, failed, blank, index, missed, overtaken, programs>>
  BY DEF UpdateBegins, dirVars, gaudiVars
<1>2. Types /\ OldInv /\ GpuFiles /\ step["gpu"] \in Serving /\ "gpu" \in AllPrograms
  BY <1>1 DEF IInv, GpuInv, Serving, AllPrograms
<1>3. /\ held' = [held EXCEPT !["gpu"] = held'["gpu"]] /\ held'["gpu"] \in Dirs
      /\ held'["gpu"][GpuFile] = view["gpu"][GpuFile] /\ held'["gpu"][GpuOld] = Absent
      /\ shared' \in {shared \cup {"gpu"}, shared \ {"gpu"}}
      /\ "gpu" \in shared' => view["gpu"][GpuFile] # Absent
  BY <1>1, <1>2, GpuGets DEF GpuFiles
<1>4. step'["gpu"] = "drop" /\ device'["gpu"] = d /\ device["gpu"] = NoDevice /\ d # NoDevice
  BY <1>1, <1>2, NamesOf DEF Types, StepTypes, CallTypes, Calling
<1>5. detected'["gpu"]["gpu"] = D
  BY <1>2 DEF Types, FoundTypes, Kinds
<1>6. GpuOnly
  <2>1. dir' \in Dirs /\ view'["gpu"] \in Dirs /\ view' = [view EXCEPT !["gpu"] = view'["gpu"]]
    BY <1>1, <1>2 DEF Types, FileTypes
  <2>2. /\ failed' \subseteq GPUs /\ overtaken'["gpu"] \subseteq GPUs
        /\ overtaken' = [overtaken EXCEPT !["gpu"] = overtaken'["gpu"]]
    BY <1>1, <1>2 DEF Types, CallTypes
  <2>3. {"drop", "idle"} \subseteq Serving /\ "drop" \in Calling
    BY DEF Serving, Calling
  <2>4. step' = [step EXCEPT !["gpu"] = step'["gpu"]]
    BY <1>1, <1>4
  <2>5. device' = [device EXCEPT !["gpu"] = device'["gpu"]]
    BY <1>1, <1>4
  <2> QED
    BY <1>1, <1>3, <1>4, <2>1, <2>2, <2>3, <2>4, <2>5 DEF GpuOnly
<1>7. /\ Types' /\ Frame("gpu") /\ OldInv' /\ BootInv("gpu")'
      /\ Written("gpu", "mei") => Written("gpu", "mei")'
  BY <1>2, <1>6, GpuStep
<1>8. ASSUME NEW s, GpuRight(s) PROVE GpuRight(s)'
  <2>1. \A x \in Settled' : x \in Settled /\ x # d
    BY <1>1, <1>4, <1>5, NamesOf DEF Settled
  <2>2. \A x \in Settled' : driver'[x] = driver[x]
    <3>1. detected["gpu"]["gpu"] \subseteq GPUs
      BY <1>5
    <3> QED
      BY <2>1, <3>1 DEF Settled
  <2> QED
    BY <2>1, <2>2, <1>5, <1>8, GpuRightMoves
<1>9. GpuCall'
  <2>1. ASSUME driver'[d] = "none"
        PROVE  \A e \in In(dir[GpuFile]) \cup In(view["gpu"][GpuFile]) : e[1] # d
    BY <2>1, <1>2 DEF GpuFiles, GpuRight
  <2> QED
    BY <2>1, <1>1, <1>4, <1>5 DEF GpuCall
<1>10. GpuInv'
  <2>1. ASSUME NEW f, NEW v, f = In(dir[GpuFile]), v = In(view["gpu"][GpuFile]) PROVE GpuInv'
    <3>1. GpuRight(f)' /\ GpuRight(v)'
      BY <2>1, <1>2, <1>8 DEF GpuFiles
    <3>2. f = In(dir'[GpuFile]) /\ v = In(view'["gpu"][GpuFile]) /\ v = In(held'["gpu"][GpuFile])
      BY <2>1, <1>1, <1>3
    <3> QED
      BY <3>1, <3>2, <1>1, <1>2, <1>3, <1>7, <1>9, GpuInvFrom DEF GpuFiles
  <2> QED
    BY <2>1
<1>11. "gpu" \in programs
  BY <1>2, GpuRuns
<1> QED
  BY <1>7, <1>10, <1>11, Combine

LEMMA UpdateStep ==
  ASSUME IInv, NEW d \in GPUs, Update(d) PROVE IInv'
<1> DEFINE D == detected["gpu"]["gpu"]
<1>1. /\ d \in D /\ UpdateBegins(d) /\ detected' = detected
      /\ \E to \in {"drm", "vfio"} \ {driver[d]} : driver' = [driver EXCEPT ![d] = to]
  BY DEF Update
<1>2. /\ driver \in [GPUs -> {"drm", "vfio", "none"}] /\ D \in SUBSET GPUs
      /\ detected \in [AllPrograms -> [Kinds -> SUBSET UNION {Devices[k] : k \in Kinds}]]
  BY NamesOf DEF IInv, Types, CallTypes, FoundTypes, Kinds, AllPrograms
<1>3. detected' = [detected EXCEPT !["gpu"]["gpu"] = D]
  BY <1>1, <1>2
<1>4. /\ driver' \in [GPUs -> {"drm", "vfio", "none"}] /\ driver'[d] # "none"
      /\ \A x \in GPUs \ {d} : driver'[x] = driver[x]
  BY <1>1, <1>2
<1>5. D \cup {d} = D
  BY <1>1
<1> HIDE DEF D
<1>6. \A X : X = D => IInv'
  BY <1>1, <1>2, <1>3, <1>4, <1>5, BeginsStep DEF D
<1> QED
  BY <1>6

LEMMA AppearStep ==
  ASSUME IInv, NEW d \in GPUs, Appear(d) PROVE IInv'
<1> DEFINE D == detected["gpu"]["gpu"] \cup {d}
<1>1. /\ d \notin detected["gpu"]["gpu"] /\ UpdateBegins(d)
      /\ detected' = [detected EXCEPT !["gpu"]["gpu"] = D]
      /\ \E to \in {"drm", "vfio", "none"} : driver' = [driver EXCEPT ![d] = to]
  BY DEF Appear
<1>2. driver \in [GPUs -> {"drm", "vfio", "none"}] /\ D \in SUBSET GPUs
  BY NamesOf DEF IInv, Types, CallTypes, FoundTypes, Kinds, AllPrograms
<1>3. /\ driver' \in [GPUs -> {"drm", "vfio", "none"}]
      /\ \A x \in GPUs \ {d} : driver'[x] = driver[x]
  BY <1>1, <1>2
<1>4. detected["gpu"]["gpu"] \cup {d} = D
  OBVIOUS
<1> HIDE DEF D
<1>5. \A X : X = D => IInv'
  BY <1>1, <1>2, <1>3, <1>4, BeginsStep
<1> QED
  BY <1>5

\* The specs of a kind that a call of the plugin holds, without a device or with it again.
LEMMA SpecWithout ==
  ASSUME NEW s \in SUBSET (AllNames \X Edits), NEW d
  PROVE  /\ Without(s, d) \in FileSpec /\ In(Without(s, d)) = Without(s, d)
         /\ Without(s, d) # Absent
<1>1. Without(s, d) \in SUBSET (AllNames \X Edits)
  BY DEF Without
<1> QED
  BY <1>1, NotAbsent DEF FileSpec, In

LEMMA SpecWith ==
  ASSUME NEW s \in SUBSET (AllNames \X Edits), NEW d \in AllNames, NEW e \in Edits
  PROVE  /\ With(s, d, e) \in FileSpec /\ In(With(s, d, e)) = With(s, d, e)
         /\ With(s, d, e) # Absent
<1>1. With(s, d, e) \in SUBSET (AllNames \X Edits)
  BY DEF With, Edits
<1> QED
  BY <1>1, NotAbsent DEF FileSpec, In

\* A spec that does not have the device twice did not have it before.
LEMMA SpecValid ==
  ASSUME NEW s, NEW d, NEW e, Valid(With(s, d, e))
  PROVE  With(s, d, e) = s \cup {<<d, e>>} /\ \A x \in s : x[1] # d
<1>1. With(s, d, e) = s \cup {<<d, IF Without(s, d) = s THEN e ELSE "twice">>}
  BY DEF With
<1>2. Without(s, d) = s
  <2>1. <<d, IF Without(s, d) = s THEN e ELSE "twice">> \in With(s, d, e)
    BY <1>1
  <2> QED
    BY <2>1 DEF Valid
<1> QED
  BY <1>1, <1>2 DEF Without

LEMMA InType ==
  ASSUME NEW x \in FileSpec
  PROVE  In(x) \in SUBSET (AllNames \X Edits) /\ (x # Absent => In(x) = x)
BY DEF In, FileSpec

\* What is so in a call of the GPU plugin.
LEMMA GpuCalls ==
  ASSUME IInv, step["gpu"] \in Calling
  PROVE  /\ Types /\ OldInv /\ GpuInv /\ GpuFiles /\ GpuHeld /\ GpuCall
         /\ step["gpu"] \in Serving /\ "gpu" \in AllPrograms /\ "gpu" \in programs
         /\ device["gpu"] \in GPUs /\ device["gpu"] \in detected["gpu"]["gpu"]
         /\ view["gpu"] \in Dirs /\ dir \in Dirs /\ held["gpu"] \in Dirs
         /\ detected["gpu"]["gpu"] \subseteq GPUs
         /\ detected = [detected EXCEPT !["gpu"]["gpu"] = detected["gpu"]["gpu"]]
<1>1. Types /\ OldInv /\ GpuInv /\ step["gpu"] \in Serving /\ "gpu" \in AllPrograms
  BY DEF IInv, Calling, Serving, AllPrograms
<1>2. GpuFiles /\ GpuHeld /\ GpuCall /\ "gpu" \in programs
  BY <1>1, GpuRuns DEF GpuInv
<1>3. device["gpu"] \in GPUs /\ device["gpu"] \in detected["gpu"]["gpu"]
  BY <1>1, <1>2 DEF Types, CallTypes, GpuCall
<1>4. view["gpu"] \in Dirs /\ dir \in Dirs /\ held["gpu"] \in Dirs
  BY <1>1 DEF Types, FileTypes, CallTypes
<1>5. /\ detected["gpu"]["gpu"] \subseteq GPUs
      /\ detected = [detected EXCEPT !["gpu"]["gpu"] = detected["gpu"]["gpu"]]
  BY <1>1, NamesOf DEF Types, FoundTypes, Kinds
<1> QED
  BY <1>1, <1>2, <1>3, <1>4, <1>5

\* A step of a call that ends it, or goes on to the next step, with a right spec in the file
\* and in the copy.
LEMMA CallEnds ==
  ASSUME IInv, step["gpu"] \in Calling,
         UNCHANGED <<todo, detected, driver, blank, index, missed, programs>>,
         NEW to \in {"idle", "fetch"}, step' = [step EXCEPT !["gpu"] = to],
         device' = [device EXCEPT !["gpu"] = IF to = "idle" THEN NoDevice ELSE device["gpu"]],
         Release("gpu"), failed' \subseteq GPUs,
         NEW O \in SUBSET GPUs, overtaken' = [overtaken EXCEPT !["gpu"] = O],
         dir' \in Dirs, view' = [view EXCEPT !["gpu"] = view'["gpu"]], view'["gpu"] \in Dirs,
         \A n \in Names \ {GpuFile} : dir'[n] = dir[n] /\ view'["gpu"][n] = view["gpu"][n],
         readable' \subseteq readable,
         (dir' = dir /\ stale' = stale) \/ stale' = programs,
         NEW f, NEW v, f = In(dir'[GpuFile]), v = In(view'["gpu"][GpuFile]),
         GpuRight(f)', GpuRight(v)'
  PROVE  IInv'
<1>1. /\ Types /\ OldInv /\ GpuFiles /\ step["gpu"] \in Serving
      /\ "gpu" \in AllPrograms /\ "gpu" \in programs
      /\ device["gpu"] \in GPUs /\ device["gpu"] \in detected["gpu"]["gpu"]
      /\ detected["gpu"]["gpu"] \subseteq GPUs
      /\ detected = [detected EXCEPT !["gpu"]["gpu"] = detected["gpu"]["gpu"]]
  BY GpuCalls
<1>2. held' = [held EXCEPT !["gpu"] = NoSpecs] /\ shared' = shared \ {"gpu"}
  BY DEF Release
<1>3. NoSpecs \in Dirs
  <2>1. Absent \in FileSpec
    BY Zenon DEF FileSpec
  <2> QED
    BY <2>1 DEF NoSpecs, Dirs
<1>4. /\ step'["gpu"] = to /\ held'["gpu"] = NoSpecs /\ overtaken'["gpu"] = O
      /\ device'["gpu"] = IF to = "idle" THEN NoDevice ELSE device["gpu"]
  BY <1>1, <1>2 DEF Types, StepTypes, CallTypes
<1>5. GpuOnly
  <2>1. to \in Serving /\ (to \in Calling <=> to = "fetch")
    BY DEF Serving, Calling
  <2>2. device'["gpu"] # NoDevice <=> to \in Calling
    BY <1>1, <1>4, <2>1, NamesOf
  <2>3. device'["gpu"] \in GPUs \cup {NoDevice}
    BY <1>1, <1>4
  <2>4. \E D \in SUBSET GPUs : detected' = [detected EXCEPT !["gpu"]["gpu"] = D]
    BY <1>1
  <2>5. driver' \in [GPUs -> {"drm", "vfio", "none"}]
    BY <1>1 DEF Types, CallTypes
  <2>6. "gpu" \notin shared' /\ shared' \in {shared, shared \cup {"gpu"}, shared \ {"gpu"}}
    BY <1>2
  <2>7. step' = [step EXCEPT !["gpu"] = step'["gpu"]]
    BY <1>4
  <2>8. /\ device' = [device EXCEPT !["gpu"] = device'["gpu"]]
        /\ overtaken' = [overtaken EXCEPT !["gpu"] = overtaken'["gpu"]]
        /\ held' = [held EXCEPT !["gpu"] = held'["gpu"]]
    BY <1>2, <1>4
  <2> QED
    BY <1>1, <1>3, <1>4, <2>1, <2>2, <2>3, <2>4, <2>5, <2>6, <2>7, <2>8 DEF GpuOnly
<1>6. /\ Types' /\ Frame("gpu") /\ OldInv' /\ BootInv("gpu")'
      /\ Written("gpu", "mei") => Written("gpu", "mei")'
  BY <1>1, <1>5, GpuStep
<1>7. GpuCall'
  BY <1>1, <1>4 DEF GpuCall
<1>8. dir'[GpuOld] = Absent /\ view'["gpu"][GpuOld] = Absent
  <2>1. GpuOld \in Names \ {GpuFile}
    BY FileNames DEF GpuFile, GpuOld, Kinds
  <2> QED
    BY <2>1, <1>1 DEF GpuFiles
<1>9. GpuInv'
  BY <1>1, <1>4, <1>6, <1>7, <1>8, GpuInvFrom DEF GpuFiles
<1> QED
  BY <1>1, <1>6, <1>9, Combine

\* A device whose update fails is not settled.
LEMMA FailsRight ==
  ASSUME IInv, step["gpu"] \in Calling, detected' = detected, driver' = driver,
         failed' = failed \cup {device["gpu"]}, overtaken' = overtaken,
         device'["gpu"] = NoDevice,
         NEW s, NEW t, GpuRight(s),
         \A e \in s \cup t : e[1] # device["gpu"] => e \in s /\ e \in t
  PROVE  GpuRight(t)'
<1>1. device["gpu"] \in detected["gpu"]["gpu"] /\ detected["gpu"]["gpu"] \subseteq GPUs
  BY GpuCalls
<1>2. device["gpu"] \notin Settled' /\ \A x \in Settled' : x # device["gpu"] => x \in Settled
  BY <1>1 DEF Settled
<1> QED
  BY <1>1, <1>2, GpuRightMoves

LEMMA DropStep == ASSUME IInv, Drop PROVE IInv'
<1> DEFINE specs == Files(held["gpu"], "gpu")
           d == device["gpu"]
           H == held["gpu"][GpuFile]
           R == Without(H, d)
           remaining == [n \in specs |-> Without(held["gpu"][n], d)]
           dropped(m) == [n \in Names |-> IF n \in specs THEN remaining[n] ELSE m[n]]
<1>1. /\ step["gpu"] = "drop"
      /\ UNCHANGED <<todo, detected, driver, blank, index, missed, programs>>
      /\ view' = ViewAfter("gpu", dropped(view["gpu"]))
      /\ \/ /\ dir' = dropped(dir) /\ readable' = readable \ specs
            /\ stale' = IF specs # {} THEN programs ELSE stale
            /\ IF driver[d] = "none"
                 THEN Leave("gpu")
                 ELSE /\ step' = [step EXCEPT !["gpu"] = "fetch"]
                      /\ Release("gpu")
                      /\ UNCHANGED device
            /\ failed' = failed /\ overtaken' = overtaken
         \/ UpdateFails
  BY DEF Drop, gaudiVars
<1>2. /\ Types /\ OldInv /\ GpuInv /\ GpuFiles /\ GpuHeld /\ GpuCall
      /\ step["gpu"] \in Calling
      /\ "gpu" \in AllPrograms /\ "gpu" \in programs /\ d \in GPUs
      /\ d \in detected["gpu"]["gpu"] /\ view["gpu"] \in Dirs /\ dir \in Dirs
      /\ held["gpu"] \in Dirs /\ detected["gpu"]["gpu"] \subseteq GPUs
  BY <1>1, GpuCalls DEF Calling
<1>3. /\ held["gpu"][GpuOld] = Absent /\ GpuRight(In(H))
      /\ "gpu" \in shared => H # Absent /\ view["gpu"][GpuFile] = H
  BY <1>1, <1>2 DEF GpuHeld
<1>4. /\ GpuFile \in Names /\ GpuOld \in Names
      /\ \A n \in Names : Kind(n) = "gpu" <=> n \in {GpuFile, GpuOld}
  BY FileNames DEF GpuFile, GpuOld, Kinds
<1>5. H \in FileSpec /\ specs = IF H = Absent THEN {} ELSE {GpuFile}
  BY <1>2, <1>3, <1>4 DEF Dirs, Files
\* A directory, or a copy, after the device was taken out of it.
<1>6. ASSUME NEW m \in Dirs
      PROVE  /\ dropped(m) \in Dirs
             /\ \A n \in Names \ {GpuFile} : dropped(m)[n] = m[n]
             /\ dropped(m)[GpuFile] = IF H = Absent THEN m[GpuFile] ELSE R
             /\ H = Absent => dropped(m) = m
  <2>1. H # Absent => R \in FileSpec
    BY <1>5, InType, SpecWithout DEF FileSpec
  <2> HIDE DEF R
  <2>2. \A n \in specs : n = GpuFile /\ remaining[n] = R
    BY <1>5 DEF R
  <2> QED
    BY <1>4, <1>5, <2>1, <2>2 DEF Dirs
<1>7. H # Absent => /\ In(R) = R
                    /\ \A e \in In(H) \cup R : e[1] # d => e \in In(H) /\ e \in R
                    /\ \A e \in R : e[1] # d
  BY <1>5, InType, SpecWithout DEF FileSpec, Without
<1> HIDE DEF dropped, R
<1>8. ASSUME NEW to \in {"idle", "fetch"}, step' = [step EXCEPT !["gpu"] = to],
             device' = [device EXCEPT !["gpu"] = IF to = "idle" THEN NoDevice ELSE d],
             Release("gpu"), failed' \subseteq GPUs, overtaken' = overtaken,
             dir' \in {dir, dropped(dir)}, readable' \subseteq readable,
             (dir' = dir /\ stale' = stale) \/ stale' = programs,
             \A s, t : GpuRight(s) /\ (\A e \in s \cup t : e[1] # d => e \in s /\ e \in t)
                         /\ \/ H # Absent /\ t = R
                            \/ t = In(dir[GpuFile]) \/ t = In(view["gpu"][GpuFile])
                         => GpuRight(t)'
      PROVE  IInv'
  <2>1. /\ dir' \in Dirs /\ \A n \in Names \ {GpuFile} : dir'[n] = dir[n]
        /\ dir'[GpuFile] = dir[GpuFile] \/ (H # Absent /\ dir'[GpuFile] = R)
    BY <1>2, <1>6, <1>8
  <2>2. /\ view'["gpu"] \in Dirs /\ view' = [view EXCEPT !["gpu"] = view'["gpu"]]
        /\ \A n \in Names \ {GpuFile} : view'["gpu"][n] = view["gpu"][n]
        /\ \/ view'["gpu"][GpuFile] = view["gpu"][GpuFile]
           \/ H # Absent /\ view'["gpu"][GpuFile] = R
    <3>1. CASE "gpu" \in shared
      <4>1. view' = [view EXCEPT !["gpu"] = dropped(view["gpu"])]
        BY <3>1, <1>1 DEF ViewAfter
      <4>2. view'["gpu"] = dropped(view["gpu"])
        BY <4>1, <1>2 DEF Types, FileTypes
      <4> QED
        BY <4>1, <4>2, <1>2, <1>6
    <3>2. CASE "gpu" \notin shared
      BY <3>2, <1>1, <1>2 DEF ViewAfter, Types, FileTypes
    <3> QED
      BY <3>1, <3>2
  <2>3. ASSUME NEW s, s = In(dir[GpuFile]) \/ s = In(view["gpu"][GpuFile]) PROVE GpuRight(s)'
    BY <2>3, <1>2, <1>8 DEF GpuFiles
  <2>4. ASSUME NEW f, f = In(dir'[GpuFile]) PROVE GpuRight(f)'
    <3>1. ASSUME H # Absent, NEW x, x = R PROVE GpuRight(x)'
      BY <3>1, <1>3, <1>7, <1>8
    <3> QED
      BY <3>1, <2>1, <2>3, <2>4, <1>7
  <2>5. ASSUME NEW v, v = In(view'["gpu"][GpuFile]) PROVE GpuRight(v)'
    <3>1. ASSUME H # Absent, NEW x, x = R PROVE GpuRight(x)'
      BY <3>1, <1>3, <1>7, <1>8
    <3> QED
      BY <3>1, <2>2, <2>3, <2>5, <1>7
  <2>6. PICK O \in SUBSET GPUs : overtaken' = [overtaken EXCEPT !["gpu"] = O]
    BY <1>2, <1>8 DEF Types, CallTypes
  <2>7. ASSUME NEW f, NEW v, f = In(dir'[GpuFile]), v = In(view'["gpu"][GpuFile]) PROVE IInv'
    <3>1. GpuRight(f)' /\ GpuRight(v)'
      BY <2>4, <2>5, <2>7
    <3> QED
      BY <3>1, <2>1, <2>2, <2>6, <2>7, <1>1, <1>2, <1>8, CallEnds
  <2> QED
    BY <2>7
<1>9. ASSUME dir' = dropped(dir), readable' = readable \ specs,
             stale' = IF specs # {} THEN programs ELSE stale,
             failed' = failed, overtaken' = overtaken,
             IF driver[d] = "none"
               THEN Leave("gpu")
               ELSE /\ step' = [step EXCEPT !["gpu"] = "fetch"]
                    /\ Release("gpu")
                    /\ UNCHANGED device
      PROVE  IInv'
  <2>1. failed' \subseteq GPUs /\ device \in [AllPrograms -> GPUs \cup Claims \cup {NoDevice}]
    BY <1>2, <1>9 DEF Types, CallTypes
  <2>2. (dir' = dir /\ stale' = stale) \/ stale' = programs
    BY <1>2, <1>5, <1>6, <1>9
  <2>3. CASE driver[d] # "none"
    <3>1. device' = [device EXCEPT !["gpu"] = d] /\ device'["gpu"] = d
      BY <2>1, <2>3, <1>2, <1>9
    <3>2. d \notin Settled' /\ \A x \in Settled' : x \in Settled
      BY <3>1, <1>1, <1>9 DEF Settled
    <3>3. \A s, t : GpuRight(s) /\ (\A e \in s \cup t : e[1] # d => e \in s /\ e \in t)
                      => GpuRight(t)'
      BY <3>2, <1>1, <1>2, GpuRightMoves
    <3> QED
      BY <3>1, <3>3, <2>1, <2>2, <2>3, <1>8, <1>9
  <2>4. CASE driver[d] = "none"
    <3>1. /\ device' = [device EXCEPT !["gpu"] = NoDevice] /\ device'["gpu"] = NoDevice
          /\ step' = [step EXCEPT !["gpu"] = "idle"] /\ Release("gpu")
      BY <2>1, <2>4, <1>2, <1>9 DEF Leave
    <3>2. \A x \in Settled' : x # d => x \in Settled
      BY <3>1, <1>1, <1>9 DEF Settled
    <3>3. \A e \in In(dir[GpuFile]) \cup In(view["gpu"][GpuFile]) : e[1] # d
      BY <2>4, <1>1, <1>2 DEF GpuCall
    <3>4. ASSUME NEW s, NEW t, GpuRight(s), \A e \in s \cup t : e[1] # d => e \in s /\ e \in t,
                 \/ H # Absent /\ t = R
                 \/ t = In(dir[GpuFile]) \/ t = In(view["gpu"][GpuFile])
          PROVE  GpuRight(t)'
      <4>1. \A e \in t : e[1] # d
        BY <3>3, <3>4, <1>7
      <4>2. driver'[d] = "none" /\ driver' = driver /\ detected' = detected
        BY <2>4, <1>1
      <4> QED
        BY <3>2, <3>4, <4>1, <4>2, <1>2, GpuRightMoves
    <3> QED
      BY <3>1, <3>4, <2>1, <2>2, <1>8, <1>9
  <2> QED
    BY <2>3, <2>4
<1>10. ASSUME UpdateFails PROVE IInv'
  <2>1. /\ step' = [step EXCEPT !["gpu"] = "idle"] /\ Release("gpu")
        /\ device' = [device EXCEPT !["gpu"] = NoDevice] /\ failed' = failed \cup {d}
        /\ dir' = dir /\ readable' = readable /\ stale' = stale /\ overtaken' = overtaken
    BY <1>10 DEF UpdateFails, Leave
  <2>2. failed' \subseteq GPUs /\ device'["gpu"] = NoDevice
    BY <2>1, <1>2 DEF Types, CallTypes
  <2>3. \A s, t : GpuRight(s) /\ (\A e \in s \cup t : e[1] # d => e \in s /\ e \in t)
                    => GpuRight(t)'
    BY <2>1, <2>2, <1>1, <1>2, FailsRight
  <2> QED
    BY <2>1, <2>2, <2>3, <1>8
<1> QED
  BY <1>1, <1>9, <1>10

LEMMA FetchStep == ASSUME IInv, Fetch PROVE IInv'
<1>1. /\ step["gpu"] = "fetch" /\ Get("gpu", Files(view["gpu"], "gpu"))
      /\ step' = [step EXCEPT !["gpu"] = "add"]
      /\ dir' = dir /\ readable' = readable /\ stale' = stale /\ view' = view
      /\ UNCHANGED <<todo, detected, device, driver, failed, blank, index, missed, overtaken,
                     programs>>
  BY DEF Fetch, dirVars, gaudiVars, gpuVars
<1>2. /\ Types /\ OldInv /\ GpuFiles /\ GpuCall /\ step["gpu"] \in Serving
      /\ "gpu" \in AllPrograms /\ "gpu" \in programs /\ device["gpu"] \in GPUs
      /\ device["gpu"] \in detected["gpu"]["gpu"] /\ view["gpu"] \in Dirs /\ dir \in Dirs
      /\ detected["gpu"]["gpu"] \subseteq GPUs
      /\ detected = [detected EXCEPT !["gpu"]["gpu"] = detected["gpu"]["gpu"]]
  BY <1>1, GpuCalls DEF Calling
<1>3. /\ held' = [held EXCEPT !["gpu"] = held'["gpu"]] /\ held'["gpu"] \in Dirs
      /\ held'["gpu"][GpuFile] = view["gpu"][GpuFile] /\ held'["gpu"][GpuOld] = Absent
      /\ shared' \in {shared \cup {"gpu"}, shared \ {"gpu"}}
      /\ "gpu" \in shared' => view["gpu"][GpuFile] # Absent
  BY <1>1, <1>2, GpuGets DEF GpuFiles
<1>4. step'["gpu"] = "add" /\ device["gpu"] # NoDevice
  BY <1>1, <1>2, NamesOf DEF Types, StepTypes
<1>5. GpuOnly
  <2>1. /\ view' = [view EXCEPT !["gpu"] = view'["gpu"]]
        /\ device' = [device EXCEPT !["gpu"] = device'["gpu"]]
        /\ overtaken' = [overtaken EXCEPT !["gpu"] = overtaken'["gpu"]]
        /\ failed' \subseteq GPUs /\ overtaken'["gpu"] \subseteq GPUs
        /\ driver' \in [GPUs -> {"drm", "vfio", "none"}]
    BY <1>1, <1>2 DEF Types, FileTypes, CallTypes
  <2>2. \E D \in SUBSET GPUs : detected' = [detected EXCEPT !["gpu"]["gpu"] = D]
    BY <1>1, <1>2
  <2>3. "add" \in Serving /\ "add" \in Calling
    BY DEF Serving, Calling
  <2>4. step' = [step EXCEPT !["gpu"] = step'["gpu"]]
    BY <1>1, <1>4
  <2> QED
    BY <1>1, <1>2, <1>3, <1>4, <2>1, <2>2, <2>3, <2>4 DEF GpuOnly
<1>6. /\ Types' /\ Frame("gpu") /\ OldInv' /\ BootInv("gpu")'
      /\ Written("gpu", "mei") => Written("gpu", "mei")'
  BY <1>2, <1>5, GpuStep
<1>7. \A s : GpuRight(s) <=> GpuRight(s)'
  BY <1>1, GpuRightSame
<1>8. GpuCall'
  BY <1>1, <1>2, <1>4 DEF GpuCall
<1>9. ASSUME NEW f, NEW v, f = In(dir[GpuFile]), v = In(view["gpu"][GpuFile]) PROVE GpuInv'
  <2>1. GpuRight(f)' /\ GpuRight(v)'
    BY <1>2, <1>7, <1>9 DEF GpuFiles
  <2>2. f = In(dir'[GpuFile]) /\ v = In(view'["gpu"][GpuFile]) /\ v = In(held'["gpu"][GpuFile])
    BY <1>1, <1>3, <1>9
  <2> QED
    BY <2>1, <2>2, <1>1, <1>2, <1>3, <1>6, <1>8, GpuInvFrom DEF GpuFiles
<1> QED
  BY <1>2, <1>6, <1>9, Combine

\* What Add does, with the names of the files.
LEMMA AddFacts ==
  ASSUME IInv, Add, NEW H, H = In(held["gpu"][GpuFile]),
         NEW d, d = device["gpu"], NEW new, new = With(H, d, EditsOf("gpu", d))
  PROVE  /\ step["gpu"] = "add"
         /\ UNCHANGED <<todo, detected, driver, blank, index, missed, programs>>
         /\ "gpu" \in shared => view' = [view EXCEPT !["gpu"] = [@ EXCEPT ![GpuFile] = new]]
         /\ "gpu" \notin shared => view' = view
         /\ \/ /\ Valid(new) /\ Write(GpuFile, new) /\ Leave("gpu")
               /\ failed' = failed \ {d}
               /\ overtaken' = [overtaken EXCEPT !["gpu"] =
                                  IF "gpu" \in shared THEN overtaken["gpu"] \ {d}
                                                      ELSE overtaken["gpu"] \cup {d}]
            \/ UpdateFails
<1> DEFINE n == FirstOf(held["gpu"], {x \in Names : Kind(x) = "gpu"})
           was == IF n = 0 THEN {} ELSE held["gpu"][ByName[n]]
           now == With(was, d, EditsOf("gpu", d))
<1>1. /\ step["gpu"] = "add"
      /\ UNCHANGED <<todo, detected, driver, blank, index, missed, programs>>
      /\ view' = ViewAfter("gpu", [view["gpu"] EXCEPT ![ByName[n]] = now])
      /\ \/ /\ Valid(now) /\ Write(GpuFile, now) /\ Leave("gpu")
            /\ failed' = failed \ {d}
            /\ overtaken' = [overtaken EXCEPT !["gpu"] =
                               IF "gpu" \in shared THEN overtaken["gpu"] \ {d}
                                                   ELSE overtaken["gpu"] \cup {d}]
         \/ UpdateFails
  BY DEF Add, gaudiVars, GpuFile
<1>2. /\ held["gpu"][GpuOld] = Absent
      /\ "gpu" \in shared => held["gpu"][GpuFile] # Absent
  BY <1>1, GpuCalls DEF Calling, GpuHeld
<1>3. held["gpu"][GpuFile] # Absent => n = 3 /\ ByName[3] = GpuFile
  BY <1>2, FirstGpu
<1>4. held["gpu"][GpuFile] = Absent => n = 0
  BY <1>2, FirstNone
<1> HIDE DEF n
<1>5. was = H
  BY <1>3, <1>4 DEF In
<1> HIDE DEF was
<1>6. now = new
  BY <1>5
<1> HIDE DEF now
<1>7. "gpu" \in shared => view' = [view EXCEPT !["gpu"] = [@ EXCEPT ![GpuFile] = new]]
  BY <1>1, <1>2, <1>3, <1>6 DEF ViewAfter
<1>8. "gpu" \notin shared => view' = view
  BY <1>1 DEF ViewAfter
<1> QED
  BY <1>1, <1>6, <1>7, <1>8

LEMMA AddStep == ASSUME IInv, Add PROVE IInv'
<1> SUFFICES ASSUME NEW H, H = In(held["gpu"][GpuFile]), NEW d, d = device["gpu"],
                    NEW new, new = With(H, d, EditsOf("gpu", d))
             PROVE  IInv'
  OBVIOUS
<1>1. /\ step["gpu"] = "add"
      /\ UNCHANGED <<todo, detected, driver, blank, index, missed, programs>>
      /\ "gpu" \in shared => view' = [view EXCEPT !["gpu"] = [@ EXCEPT ![GpuFile] = new]]
      /\ "gpu" \notin shared => view' = view
      /\ \/ /\ Valid(new) /\ Write(GpuFile, new) /\ Leave("gpu")
            /\ failed' = failed \ {d}
            /\ overtaken' = [overtaken EXCEPT !["gpu"] =
                               IF "gpu" \in shared THEN overtaken["gpu"] \ {d}
                                                   ELSE overtaken["gpu"] \cup {d}]
         \/ UpdateFails
  BY AddFacts
<1>2. /\ Types /\ GpuFiles /\ GpuHeld /\ step["gpu"] \in Calling
      /\ "gpu" \in AllPrograms /\ d \in GPUs
      /\ d \in detected["gpu"]["gpu"] /\ view["gpu"] \in Dirs /\ dir \in Dirs
      /\ held["gpu"] \in Dirs /\ detected["gpu"]["gpu"] \subseteq GPUs
  BY <1>1, GpuCalls DEF Calling
<1>3. /\ GpuRight(H)
      /\ "gpu" \in shared => In(view["gpu"][GpuFile]) = H
  BY <1>1, <1>2 DEF GpuHeld
<1>4. GpuFile \in Names
  BY FileNames DEF GpuFile, Kinds
<1>5. H \in SUBSET (AllNames \X Edits) /\ new \in FileSpec /\ In(new) = new
  <2>1. H \in SUBSET (AllNames \X Edits)
    BY <1>2, <1>4, InType DEF Dirs
  <2>2. d \in AllNames /\ EditsOf("gpu", d) \in Edits
    BY <1>2, NamesOf DEF EditsOf, Edits
  <2> QED
    BY <2>1, <2>2, SpecWith
<1>6. \A e \in H \cup new : e[1] # d => e \in H /\ e \in new
  BY DEF With
<1>7. /\ view'["gpu"] \in Dirs /\ view' = [view EXCEPT !["gpu"] = view'["gpu"]]
      /\ \A n \in Names \ {GpuFile} : view'["gpu"][n] = view["gpu"][n]
      /\ "gpu" \in shared => view'["gpu"][GpuFile] = new
      /\ "gpu" \notin shared => view'["gpu"] = view["gpu"]
  <2>1. CASE "gpu" \in shared
    <3>1. view' = [view EXCEPT !["gpu"] = [view["gpu"] EXCEPT ![GpuFile] = new]]
      BY <2>1, <1>1
    <3>2. view'["gpu"] = [view["gpu"] EXCEPT ![GpuFile] = new]
      BY <3>1, <1>2 DEF Types, FileTypes
    <3> QED
      <4>1. view["gpu"] \in [Names -> FileSpec]
        BY <1>2 DEF Dirs
      <4>2. /\ view'["gpu"] \in [Names -> FileSpec] /\ view'["gpu"][GpuFile] = new
            /\ \A n \in Names \ {GpuFile} : view'["gpu"][n] = view["gpu"][n]
        BY <3>2, <4>1, <1>4, <1>5
      <4>3. view' = [view EXCEPT !["gpu"] = view'["gpu"]]
        BY <3>1, <3>2
      <4> QED
        BY <2>1, <4>2, <4>3 DEF Dirs
  <2>2. CASE "gpu" \notin shared
    BY <2>2, <1>1, <1>2 DEF Types, FileTypes
  <2> QED
    BY <2>1, <2>2
<1>8. ASSUME UpdateFails PROVE IInv'
  <2>1. /\ step' = [step EXCEPT !["gpu"] = "idle"] /\ Release("gpu")
        /\ device' = [device EXCEPT !["gpu"] = NoDevice] /\ failed' = failed \cup {d}
        /\ dir' = dir /\ readable' = readable /\ stale' = stale /\ overtaken' = overtaken
    BY <1>8 DEF UpdateFails, Leave
  <2>2. /\ failed' \subseteq GPUs /\ device'["gpu"] = NoDevice
        /\ \E O \in SUBSET GPUs : overtaken' = [overtaken EXCEPT !["gpu"] = O]
    BY <2>1, <1>2 DEF Types, CallTypes
  <2>3. ASSUME NEW s, NEW t, GpuRight(s), \A e \in s \cup t : e[1] # d => e \in s /\ e \in t
        PROVE  GpuRight(t)'
    BY <2>1, <2>2, <2>3, <1>1, <1>2, FailsRight
  <2>4. GpuRight(new)'
    BY <2>3, <1>3, <1>6
  <2>5. ASSUME NEW f, NEW v, f = In(dir'[GpuFile]), v = In(view'["gpu"][GpuFile]) PROVE IInv'
    <3>1. GpuRight(f)'
      BY <2>1, <2>3, <2>5, <1>2 DEF GpuFiles
    <3>2. GpuRight(v)'
      <4>1. CASE "gpu" \in shared
        BY <4>1, <2>4, <2>5, <1>5, <1>7
      <4>2. CASE "gpu" \notin shared
        BY <4>2, <2>3, <2>5, <1>2, <1>7 DEF GpuFiles
      <4> QED
        BY <4>1, <4>2
    <3> QED
      BY <3>1, <3>2, <2>1, <2>2, <2>5, <1>1, <1>2, <1>7, CallEnds
  <2> QED
    BY <2>5
<1>9. ASSUME Valid(new), Write(GpuFile, new), Leave("gpu"), failed' = failed \ {d},
             overtaken' = [overtaken EXCEPT !["gpu"] =
                             IF "gpu" \in shared THEN overtaken["gpu"] \ {d}
                                                 ELSE overtaken["gpu"] \cup {d}]
      PROVE  IInv'
  <2>1. /\ step' = [step EXCEPT !["gpu"] = "idle"] /\ Release("gpu")
        /\ device' = [device EXCEPT !["gpu"] = NoDevice]
        /\ dir' = [dir EXCEPT ![GpuFile] = new] /\ readable' \subseteq readable
        /\ stale' = programs
    BY <1>9 DEF Leave, Write
  <2>2. PICK O \in SUBSET GPUs :
          /\ overtaken' = [overtaken EXCEPT !["gpu"] = O]
          /\ O = IF "gpu" \in shared THEN overtaken["gpu"] \ {d} ELSE overtaken["gpu"] \cup {d}
    BY <1>2, <1>9 DEF Types, CallTypes
  <2>3. /\ failed' \subseteq GPUs /\ device'["gpu"] = NoDevice /\ overtaken'["gpu"] = O
    BY <2>1, <2>2, <1>2, <1>9 DEF Types, CallTypes
  <2>4. /\ dir' \in Dirs /\ dir'[GpuFile] = new
        /\ \A n \in Names \ {GpuFile} : dir'[n] = dir[n]
    BY <2>1, <1>2, <1>4, <1>5 DEF Dirs
  <2>5. new = H \cup {<<d, EditsOf("gpu", d)>>} /\ \A x \in H : x[1] # d
    BY <1>9, SpecValid
  <2>6. EditsOf("gpu", d)' = EditsOf("gpu", d)
    BY <1>1 DEF EditsOf
  <2>7. /\ \A x \in Settled' : x # d => x \in Settled
        /\ "gpu" \notin shared => d \notin Settled'
    BY <2>2, <2>3, <1>1, <1>9 DEF Settled
  <2>8. GpuRight(new)'
    BY <2>5, <2>6, <2>7, <1>1, <1>2, <1>3, <1>6, GpuRightMoves
  <2>9. ASSUME NEW f, NEW v, f = In(dir'[GpuFile]), v = In(view'["gpu"][GpuFile]) PROVE IInv'
    <3>1. GpuRight(f)'
      BY <2>4, <2>8, <2>9, <1>5
    <3>2. GpuRight(v)'
      <4>1. CASE "gpu" \in shared
        BY <4>1, <2>8, <2>9, <1>5, <1>7
      <4>2. CASE "gpu" \notin shared
        <5>1. GpuRight(v)
          BY <4>2, <2>9, <1>2, <1>7 DEF GpuFiles
        <5> QED
          BY <4>2, <5>1, <2>7, <1>1, <1>2, GpuRightMoves
      <4> QED
        BY <4>1, <4>2
    <3> QED
      BY <3>1, <3>2, <2>1, <2>2, <2>3, <2>4, <2>9, <1>1, <1>2, <1>7, CallEnds
  <2> QED
    BY <2>9
<1> QED
  BY <1>1, <1>8, <1>9

-----------------------------------------------------------------------------
(* The steps of Gaudi's blank devices                                       *)

\* What a step of a claim changes: what is the plugin's own, and its file.
GaudiOnly ==
  /\ step["gaudi"] \in Serving /\ step'["gaudi"] \in Serving \ {"fetch"}
  /\ UNCHANGED <<todo, detected, driver, failed, index, programs>>
  /\ step' = [step EXCEPT !["gaudi"] = step'["gaudi"]]
  /\ view' = [view EXCEPT !["gaudi"] = view'["gaudi"]]
  /\ held' = [held EXCEPT !["gaudi"] = held'["gaudi"]]
  /\ device' = [device EXCEPT !["gaudi"] = device'["gaudi"]]
  /\ overtaken' = [overtaken EXCEPT !["gaudi"] = overtaken'["gaudi"]]
  /\ shared' \in {shared, shared \cup {"gaudi"}, shared \ {"gaudi"}}
  /\ dir' \in Dirs /\ view'["gaudi"] \in Dirs /\ held'["gaudi"] \in Dirs
  /\ \A n \in Names \ {GaudiFile} : dir'[n] = dir[n] /\ view'["gaudi"][n] = view["gaudi"][n]
  /\ readable' \subseteq readable
  /\ (dir' = dir /\ stale' = stale) \/ stale' = programs
  /\ blank' \subseteq Claims /\ missed' \subseteq Claims /\ overtaken'["gaudi"] \subseteq blank'
  /\ device'["gaudi"] \in Claims \cup {NoDevice}
  /\ device'["gaudi"] # NoDevice <=> step'["gaudi"] \in Calling
  /\ "gaudi" \in shared' => step'["gaudi"] \in {"drop", "add"}

LEMMA GaudiStep ==
  ASSUME Types, OldInv, GaudiOnly
  PROVE  Types' /\ Frame("gaudi") /\ OldInv' /\ BootInv("gaudi")'
<1>1. /\ "gaudi" \in programs /\ "gaudi" \in AllPrograms /\ Owned("gaudi") = {"gaudi"}
      /\ FileTypes /\ StepTypes /\ FoundTypes /\ CallTypes
  BY OwnKindsAre DEF GaudiOnly, Types, StepTypes, AllPrograms, Serving
<1>2. \A q \in AllPrograms \ {"gaudi"} : step'[q] = step[q] /\ view'[q] = view[q]
  BY <1>1 DEF GaudiOnly, FileTypes, StepTypes
<1>3. \A q \in AllPrograms \ {"gaudi"} : device'[q] = device[q] /\ held'[q] = held[q]
  BY <1>1 DEF GaudiOnly, CallTypes
<1>4. \A q \in AllPrograms \ {"gaudi"} : overtaken'[q] = overtaken[q]
  BY <1>1 DEF GaudiOnly, CallTypes
<1>5. \A q \in AllPrograms \ {"gaudi"} : q \in shared' <=> q \in shared
  BY DEF GaudiOnly
<1>6. FileTypes'
  BY <1>1 DEF GaudiOnly, FileTypes
<1>7. StepTypes'
  <2>1. step' \in [AllPrograms -> Steps]
    BY <1>1 DEF GaudiOnly, StepTypes, Steps
  <2>2. \A q \in AllPrograms : todo'[q] # <<>> <=> step'[q] \in {"remove", "write"}
    BY <1>1, <1>2 DEF GaudiOnly, StepTypes, Serving
  <2> QED
    BY <1>1, <1>2, <2>1, <2>2 DEF GaudiOnly, StepTypes, AllPrograms
<1>8. FoundTypes'
  BY <1>1 DEF GaudiOnly, FoundTypes
<1>9. CallTypes'
  <2>1. device' \in [AllPrograms -> GPUs \cup Claims \cup {NoDevice}]
    BY <1>1 DEF GaudiOnly, CallTypes
  <2>2. \A q \in AllPrograms : device'[q] # NoDevice <=> step'[q] \in Calling
    <3>1. ASSUME NEW q \in AllPrograms \ {"gaudi"}
          PROVE  device'[q] # NoDevice <=> step'[q] \in Calling
      <4>1. device'[q] = device[q] /\ step'[q] = step[q]
        BY <1>2, <1>3
      <4>2. device[q] # NoDevice <=> step[q] \in Calling
        BY <1>1 DEF CallTypes
      <4> QED
        BY <4>1, <4>2
    <3> QED
      BY <3>1 DEF GaudiOnly
  <2>3. shared' \subseteq {q \in AllPrograms : step'[q] \in {"drop", "add"}}
    <3>1. ASSUME NEW q \in shared', q # "gaudi"
          PROVE  q \in AllPrograms /\ step'[q] \in {"drop", "add"}
      <4>1. q \in shared
        BY <3>1 DEF GaudiOnly
      <4>2. q \in AllPrograms /\ step[q] \in {"drop", "add"}
        BY <4>1, <1>1 DEF CallTypes
      <4> QED
        BY <3>1, <4>2, <1>2
    <3> QED
      BY <3>1, <1>1 DEF GaudiOnly
  <2>4. held' \in [AllPrograms -> Dirs]
    BY <1>1 DEF GaudiOnly, CallTypes
  <2>5. overtaken' \in [AllPrograms -> SUBSET (GPUs \cup Claims)]
    BY <1>1 DEF GaudiOnly, CallTypes
  <2>6. "gpu" \in AllPrograms \ {"gaudi"}
    BY DEF AllPrograms
  <2> QED
    BY <1>1, <1>3, <1>4, <2>1, <2>2, <2>3, <2>4, <2>5, <2>6 DEF GaudiOnly, CallTypes
<1>10. Frame("gaudi")
  <2>1. \A n \in Names : Kind(n) \notin Owned("gaudi") => dir'[n] = dir[n]
    BY <1>1, FileNames DEF GaudiOnly, GaudiFile, Kinds
  <2>2. (dir' = dir \/ stale' = programs) /\ stale \ {"gaudi"} \subseteq stale'
    BY <1>1 DEF GaudiOnly, FileTypes
  <2>3. UNCHANGED <<programs, driver, failed, todo, detected>>
    BY DEF GaudiOnly
  <2> QED
    BY <1>2, <1>3, <1>4, <1>5, <2>1, <2>2, <2>3 DEF Frame
<1>11. OldInv'
  <2>1. \A k \in {"qat", "gaudi"} : OldName(k) \in Names \ {GaudiFile}
    BY FileNames DEF GaudiFile, Kinds
  <2> QED
    BY <1>2, <2>1 DEF GaudiOnly, OldInv
<1>12. BootInv("gaudi")'
  BY DEF GaudiOnly, BootInv, Booting, Serving
<1> QED
  BY <1>6, <1>7, <1>8, <1>9, <1>10, <1>11, <1>12 DEF Types

\* The parts of the invariant, after a step, from those of the specs.
LEMMA GaudiInvFrom ==
  ASSUME detected'["gaudi"]["gaudi"] # {},
         NEW f, NEW v, NEW h, f = dir'[GaudiFile], v = view'["gaudi"][GaudiFile],
         f # Absent, v # Absent, GaudiRight(f)', GaudiRight(v)', GaudiIndex', GaudiCall',
         step'["gaudi"] \in {"drop", "add"} =>
           /\ h = held'["gaudi"][GaudiFile] /\ h # Absent /\ GaudiRight(h)'
           /\ \A n \in Names \ {GaudiFile} : held'["gaudi"][n] = Absent
           /\ "gaudi" \in shared' => v = h
           /\ device'["gaudi"] \notin blank'
  PROVE  GaudiInv'
<1>1. GaudiFiles'
  BY DEF GaudiFiles, GaudiRight
<1>2. GaudiHeld'
  BY DEF GaudiHeld, GaudiRight
<1> QED
  BY <1>1, <1>2 DEF GaudiInv

\* What is so between two calls and in them, when there are devices.
LEMMA GaudiCalls ==
  ASSUME IInv, step["gaudi"] \in Serving, detected["gaudi"]["gaudi"] # {}
  PROVE  /\ Types /\ OldInv /\ GaudiIndex /\ GaudiHeld /\ GaudiCall
         /\ "gaudi" \in AllPrograms /\ "gaudi" \in programs
         /\ dir[GaudiFile] \in SUBSET (AllNames \X Edits)
         /\ view["gaudi"][GaudiFile] \in SUBSET (AllNames \X Edits)
         /\ dir[GaudiFile] # Absent /\ view["gaudi"][GaudiFile] # Absent
         /\ GaudiRight(dir[GaudiFile]) /\ GaudiRight(view["gaudi"][GaudiFile])
         /\ view["gaudi"] \in Dirs /\ dir \in Dirs /\ held["gaudi"] \in Dirs
         /\ dir[OldName("gaudi")] = Absent /\ view["gaudi"][OldName("gaudi")] = Absent
         /\ blank \subseteq Claims /\ missed \subseteq Claims /\ overtaken["gaudi"] \subseteq blank
         /\ \A e \in GaudiDevices : e[1] \notin Claims
<1>1. Types /\ OldInv /\ GaudiInv /\ "gaudi" \in AllPrograms /\ GaudiFile \in Names
  BY FileNames DEF IInv, AllPrograms, GaudiFile, Kinds
<1>2. GaudiFiles /\ GaudiIndex /\ GaudiHeld /\ GaudiCall /\ "gaudi" \in programs
  BY <1>1 DEF GaudiInv, Types, StepTypes, Serving
<1>3. view["gaudi"] \in Dirs /\ dir \in Dirs /\ held["gaudi"] \in Dirs
  BY <1>1 DEF Types, FileTypes, CallTypes
<1>4. /\ dir[GaudiFile] # Absent /\ view["gaudi"][GaudiFile] # Absent
      /\ GaudiRight(dir[GaudiFile]) /\ GaudiRight(view["gaudi"][GaudiFile])
  BY <1>2 DEF GaudiFiles
<1>5. /\ dir[GaudiFile] \in SUBSET (AllNames \X Edits)
      /\ view["gaudi"][GaudiFile] \in SUBSET (AllNames \X Edits)
  BY <1>1, <1>3, <1>4 DEF Dirs, FileSpec
<1>6. dir[OldName("gaudi")] = Absent /\ view["gaudi"][OldName("gaudi")] = Absent
  BY <1>1 DEF OldInv
<1>7. blank \subseteq Claims /\ missed \subseteq Claims /\ overtaken["gaudi"] \subseteq blank
  BY <1>1 DEF Types, FoundTypes, CallTypes
<1>8. \A e \in GaudiDevices : e[1] \notin Claims
  <2>1. \A e \in GaudiDevices : e[1] \in Devices["gaudi"]
    BY <1>1 DEF GaudiDevices, Entries, Types, FoundTypes, Kinds
  <2> QED
    BY <2>1, CdiAssumption DEF Kinds
<1> QED
  BY <1>1, <1>2, <1>3, <1>4, <1>5, <1>6, <1>7, <1>8

\* What a call gets: the plugin's file as the library knows it.
LEMMA GaudiGets ==
  ASSUME Types, view["gaudi"][GaudiFile] # Absent, Get("gaudi", {GaudiFile})
  PROVE  /\ held' = [held EXCEPT !["gaudi"] = held'["gaudi"]] /\ held'["gaudi"] \in Dirs
         /\ held'["gaudi"][GaudiFile] = view["gaudi"][GaudiFile]
         /\ \A n \in Names \ {GaudiFile} : held'["gaudi"][n] = Absent
         /\ shared' = shared \cup {"gaudi"}
<1> DEFINE h == [n \in Names |-> IF n \in {GaudiFile} THEN view["gaudi"][n] ELSE Absent]
<1>1. held' = [held EXCEPT !["gaudi"] = h] /\ shared' = shared \cup {"gaudi"}
  BY DEF Get
<1>2. view["gaudi"] \in Dirs /\ "gaudi" \in AllPrograms
  BY DEF Types, FileTypes, AllPrograms
<1>3. h \in Dirs
  <2>1. Absent \in FileSpec
    BY Zenon DEF FileSpec
  <2> QED
    BY <2>1, <1>2 DEF Dirs
<1>4. GaudiFile \in Names
  BY FileNames DEF GaudiFile, Kinds
<1>5. h[GaudiFile] = view["gaudi"][GaudiFile] /\ \A n \in Names \ {GaudiFile} : h[n] = Absent
  BY <1>4
<1> HIDE DEF h
<1>6. held'["gaudi"] = h
  BY <1>1, <1>2 DEF Types, CallTypes
<1> QED
  BY <1>1, <1>3, <1>5, <1>6

LEMMA NewBlankStep == ASSUME IInv, NEW c \in Claims, NewBlankDevice(c) PROVE IInv'
<1>1. /\ step["gaudi"] = "idle" /\ c \notin blank \cup missed /\ detected["gaudi"]["gaudi"] # {}
      /\ Get("gaudi", {ByName[FirstSpec(view["gaudi"])]})
      /\ device' = [device EXCEPT !["gaudi"] = c]
      /\ step' = [step EXCEPT !["gaudi"] = "add"]
      /\ UNCHANGED <<dir, readable, stale, todo, view, detected, driver, failed, blank, index,
                     missed, overtaken, programs>>
  BY DEF NewBlankDevice, dirVars, gpuVars, gaudiVars
<1>2. /\ Types /\ OldInv /\ GaudiIndex /\ GaudiCall
      /\ "gaudi" \in AllPrograms /\ "gaudi" \in programs
      /\ dir[GaudiFile] # Absent /\ view["gaudi"][GaudiFile] # Absent
      /\ GaudiRight(dir[GaudiFile]) /\ GaudiRight(view["gaudi"][GaudiFile])
      /\ view["gaudi"] \in Dirs /\ dir \in Dirs
      /\ blank \subseteq Claims /\ missed \subseteq Claims /\ overtaken["gaudi"] \subseteq blank
  BY <1>1, GaudiCalls DEF Serving
<1>3. Get("gaudi", {GaudiFile})
  BY <1>1, <1>2, FirstGaudi DEF GaudiFile
<1>4. /\ held' = [held EXCEPT !["gaudi"] = held'["gaudi"]] /\ held'["gaudi"] \in Dirs
      /\ held'["gaudi"][GaudiFile] = view["gaudi"][GaudiFile]
      /\ \A n \in Names \ {GaudiFile} : held'["gaudi"][n] = Absent
      /\ shared' = shared \cup {"gaudi"}
  BY <1>2, <1>3, GaudiGets
<1>5. step'["gaudi"] = "add" /\ device'["gaudi"] = c /\ c # NoDevice
  BY <1>1, <1>2, NamesOf DEF Types, StepTypes, CallTypes
<1>6. GaudiOnly
  <2>1. /\ view' = [view EXCEPT !["gaudi"] = view'["gaudi"]]
        /\ overtaken' = [overtaken EXCEPT !["gaudi"] = overtaken'["gaudi"]]
    BY <1>1, <1>2 DEF Types, FileTypes, CallTypes
  <2>2. step' = [step EXCEPT !["gaudi"] = step'["gaudi"]]
    BY <1>1, <1>5
  <2>3. device' = [device EXCEPT !["gaudi"] = device'["gaudi"]]
    BY <1>1, <1>5
  <2>4. {"add", "idle"} \subseteq Serving \ {"fetch"} /\ "add" \in Calling
    BY DEF Serving, Calling
  <2> QED
    BY <1>1, <1>2, <1>4, <1>5, <2>1, <2>2, <2>3, <2>4 DEF GaudiOnly
<1>7. \A s : GaudiRight(s) => GaudiRight(s)'
  <2>1. GaudiDevices' = GaudiDevices
    BY <1>1 DEF GaudiDevices, Entries, EditsOf
  <2>2. Deleting' = {} /\ Deleting = {}
    BY <1>1, <1>5 DEF Deleting
  <2> QED
    BY <1>1, <2>1, <2>2 DEF GaudiRight, BlanksOf
<1>8. GaudiIndex' /\ GaudiCall'
  BY <1>1, <1>2, <1>4, <1>5 DEF GaudiIndex, GaudiCall
<1>9. ASSUME NEW f, NEW v, f = dir[GaudiFile], v = view["gaudi"][GaudiFile] PROVE GaudiInv'
  <2>1. GaudiRight(f)' /\ GaudiRight(v)' /\ f # Absent /\ v # Absent
    BY <1>2, <1>7, <1>9
  <2>2. f = dir'[GaudiFile] /\ v = view'["gaudi"][GaudiFile] /\ v = held'["gaudi"][GaudiFile]
    BY <1>1, <1>4, <1>9
  <2>3. device'["gaudi"] \notin blank' /\ detected'["gaudi"]["gaudi"] # {}
    BY <1>1, <1>5
  <2> QED
    BY <2>1, <2>2, <2>3, <1>4, <1>8, GaudiInvFrom
<1> QED
  BY <1>2, <1>6, <1>9, GaudiStep, Combine

LEMMA DeleteBlankStep == ASSUME IInv, NEW c \in Claims, DeleteBlankDevices(c) PROVE IInv'
<1> DEFINE has == {n \in Names : Kind(n) = "gaudi" /\ <<c, "blank">> \in view["gaudi"][n]}
<1>1. /\ step["gaudi"] = "idle" /\ c \in blank /\ blank' = blank \ {c}
      /\ overtaken' = [overtaken EXCEPT !["gaudi"] = overtaken["gaudi"] \ {c}]
      /\ c \in index => /\ Get("gaudi", has)
                        /\ device' = [device EXCEPT !["gaudi"] = c]
                        /\ step' = [step EXCEPT !["gaudi"] = "drop"]
                        /\ missed' = missed
      /\ c \notin index =>
           /\ missed' = missed \cup ({c} \cap (Blanks(dir) \cup Blanks(view["gaudi"])))
           /\ device' = device /\ held' = held /\ shared' = shared /\ step' = step
      /\ UNCHANGED <<dir, readable, stale, todo, view, detected, driver, failed, index, programs>>
  BY DEF DeleteBlankDevices, dirVars, gpuVars, callVars
<1>2. /\ step["gaudi"] \in Serving /\ detected["gaudi"]["gaudi"] # {}
  BY <1>1 DEF IInv, GaudiInv, GaudiFiles, Serving
<1>3. /\ Types /\ OldInv /\ GaudiIndex /\ GaudiCall
      /\ "gaudi" \in AllPrograms /\ "gaudi" \in programs
      /\ dir[GaudiFile] # Absent /\ view["gaudi"][GaudiFile] # Absent
      /\ GaudiRight(dir[GaudiFile]) /\ GaudiRight(view["gaudi"][GaudiFile])
      /\ view["gaudi"] \in Dirs /\ dir \in Dirs /\ held["gaudi"] \in Dirs
      /\ dir[OldName("gaudi")] = Absent /\ view["gaudi"][OldName("gaudi")] = Absent
      /\ blank \subseteq Claims /\ missed \subseteq Claims /\ overtaken["gaudi"] \subseteq blank
  BY <1>2, GaudiCalls
<1>4. overtaken'["gaudi"] = overtaken["gaudi"] \ {c} /\ c # NoDevice
  BY <1>1, <1>3, NamesOf DEF Types, CallTypes
<1>5. /\ GaudiDevices' = GaudiDevices /\ Deleting = {}
      /\ \A s : GaudiRight(s) <=> /\ GaudiDevices \subseteq s
                                  /\ BlanksOf(blank \ overtaken["gaudi"]) \subseteq s
                                  /\ s \subseteq GaudiDevices \cup BlanksOf(blank \cup missed)
  BY <1>1 DEF GaudiDevices, Entries, EditsOf, Deleting, GaudiRight
<1>6. /\ view' = [view EXCEPT !["gaudi"] = view'["gaudi"]]
      /\ overtaken' = [overtaken EXCEPT !["gaudi"] = overtaken'["gaudi"]]
      /\ blank' \subseteq Claims /\ overtaken'["gaudi"] \subseteq blank'
  BY <1>1, <1>3, <1>4 DEF Types, FileTypes
<1>7. CASE c \in index
  <2>1. <<c, "blank">> \in view["gaudi"][GaudiFile]
    BY <1>1, <1>3, <1>7 DEF GaudiIndex
  <2>2. has = {GaudiFile}
    <3>1. /\ \A n \in Names : Kind(n) = "gaudi" <=> n \in {GaudiFile, OldName("gaudi")}
          /\ GaudiFile \in Names
      BY FileNames DEF GaudiFile, Kinds
    <3>2. <<c, "blank">> \notin Absent
      BY DEF Absent
    <3> QED
      BY <2>1, <3>1, <3>2, <1>3
  <2> HIDE DEF has
  <2>3. /\ held' = [held EXCEPT !["gaudi"] = held'["gaudi"]] /\ held'["gaudi"] \in Dirs
        /\ held'["gaudi"][GaudiFile] = view["gaudi"][GaudiFile]
        /\ \A n \in Names \ {GaudiFile} : held'["gaudi"][n] = Absent
        /\ shared' = shared \cup {"gaudi"}
    BY <2>2, <1>1, <1>3, <1>7, GaudiGets
  <2>4. step'["gaudi"] = "drop" /\ device'["gaudi"] = c /\ Deleting' = {c}
    BY <1>1, <1>3, <1>7 DEF Types, StepTypes, CallTypes, Deleting
  <2>5. GaudiOnly
    <3>1. step' = [step EXCEPT !["gaudi"] = step'["gaudi"]]
      BY <2>4, <1>1, <1>7
    <3>2. device' = [device EXCEPT !["gaudi"] = device'["gaudi"]]
      BY <2>4, <1>1, <1>7
    <3>3. {"drop", "idle"} \subseteq Serving \ {"fetch"} /\ "drop" \in Calling
      BY DEF Serving, Calling
    <3> QED
      BY <2>3, <2>4, <3>1, <3>2, <3>3, <1>1, <1>3, <1>4, <1>6, <1>7 DEF GaudiOnly
  <2>6. ASSUME NEW s, GaudiRight(s) PROVE GaudiRight(s)'
    <3>1. /\ GaudiDevices \subseteq s /\ BlanksOf(blank \ overtaken["gaudi"]) \subseteq s
          /\ s \subseteq GaudiDevices \cup BlanksOf(blank \cup missed)
      BY <2>6, <1>5
    <3>2. BlanksOf(blank' \ overtaken'["gaudi"]) \subseteq s
      BY <3>1, <1>1, <1>4 DEF BlanksOf
    <3>3. s \subseteq GaudiDevices \cup BlanksOf(blank' \cup missed' \cup {c})
      BY <3>1, <1>1, <1>7 DEF BlanksOf
    <3> QED
      BY <3>1, <3>2, <3>3, <2>4, <1>5 DEF GaudiRight, BlanksOf
  <2>7. GaudiIndex' /\ GaudiCall'
    BY <2>1, <2>3, <2>4, <1>1, <1>3 DEF GaudiIndex, GaudiCall
  <2>8. ASSUME NEW f, NEW v, f = dir[GaudiFile], v = view["gaudi"][GaudiFile] PROVE GaudiInv'
    <3>1. GaudiRight(f)' /\ GaudiRight(v)' /\ f # Absent /\ v # Absent
      BY <1>3, <2>6, <2>8
    <3>2. f = dir'[GaudiFile] /\ v = view'["gaudi"][GaudiFile] /\ v = held'["gaudi"][GaudiFile]
      BY <1>1, <2>3, <2>8
    <3>3. device'["gaudi"] \notin blank' /\ detected'["gaudi"]["gaudi"] # {}
      BY <1>1, <1>2, <2>4
    <3> QED
      BY <3>1, <3>2, <3>3, <2>3, <2>7, GaudiInvFrom
  <2> QED
    BY <1>3, <2>5, <2>8, GaudiStep, Combine
<1>8. CASE c \notin index
  <2>1. step'["gaudi"] = "idle" /\ device'["gaudi"] = device["gaudi"] /\ Deleting' = {}
    BY <1>1, <1>8 DEF Deleting
  <2>2. device["gaudi"] = NoDevice /\ "gaudi" \notin shared'
    BY <1>1, <1>3, <1>8 DEF Types, CallTypes, Calling
  <2>3. GaudiOnly
    <3>1. /\ step' = [step EXCEPT !["gaudi"] = step'["gaudi"]]
          /\ device' = [device EXCEPT !["gaudi"] = device'["gaudi"]]
          /\ held' = [held EXCEPT !["gaudi"] = held'["gaudi"]]
      BY <1>1, <1>3, <1>8 DEF Types, StepTypes, CallTypes
    <3>2. "idle" \in Serving \ {"fetch"} /\ "idle" \notin Calling
      BY DEF Serving, Calling
    <3> QED
      BY <2>1, <2>2, <3>1, <3>2, <1>1, <1>3, <1>6, <1>8 DEF GaudiOnly
  <2>4. ASSUME NEW m \in {dir, view["gaudi"]}, NEW s, s = m[GaudiFile] PROVE GaudiRight(s)'
    <3>1. /\ GaudiDevices \subseteq s /\ BlanksOf(blank \ overtaken["gaudi"]) \subseteq s
          /\ s \subseteq GaudiDevices \cup BlanksOf(blank \cup missed)
      BY <2>4, <1>3, <1>5
    <3>2. BlanksOf(blank' \ overtaken'["gaudi"]) \subseteq s
      BY <3>1, <1>1, <1>4 DEF BlanksOf
    <3>3. <<c, "blank">> \in s => c \in missed'
      <4>1. c \in Blanks(m) <=> <<c, "blank">> \in s
        BY <2>4, <1>3, BlanksOfSpec
      <4> QED
        BY <4>1, <2>4, <1>1, <1>8
    <3>4. s \subseteq GaudiDevices \cup BlanksOf(blank' \cup missed')
      BY <3>1, <3>3, <1>1, <1>8 DEF BlanksOf
    <3> QED
      BY <3>1, <3>2, <3>4, <2>1, <1>5 DEF GaudiRight, BlanksOf
  <2>5. GaudiIndex' /\ GaudiCall'
    BY <2>1, <1>1, <1>3 DEF GaudiIndex, GaudiCall
  <2>6. ASSUME NEW f, NEW v, f = dir[GaudiFile], v = view["gaudi"][GaudiFile] PROVE GaudiInv'
    <3>1. GaudiRight(f)' /\ GaudiRight(v)' /\ f # Absent /\ v # Absent
      BY <1>3, <2>4, <2>6
    <3>2. f = dir'[GaudiFile] /\ v = view'["gaudi"][GaudiFile] /\ detected'["gaudi"]["gaudi"] # {}
      BY <1>1, <1>2, <2>6
    <3> QED
      BY <3>1, <3>2, <2>1, <2>5, GaudiInvFrom
  <2> QED
    BY <1>3, <2>3, <2>6, GaudiStep, Combine
<1> QED
  BY <1>7, <1>8

\* A step that ends a call of a claim, when the spec it got is written with other entries.
LEMMA BlankEnds ==
  ASSUME IInv, step["gaudi"] \in {"add", "drop"},
         UNCHANGED <<todo, detected, driver, failed, index, programs>>, Leave("gaudi"),
         NEW new, new \in FileSpec, new # Absent, GaudiWrites(GaudiFile, new),
         blank' \subseteq Claims, missed' \subseteq Claims,
         overtaken' = [overtaken EXCEPT !["gaudi"] = overtaken'["gaudi"]],
         overtaken'["gaudi"] \subseteq blank', GaudiRight(new)',
         "gaudi" \in shared => \A c \in blank' \cap index : <<c, "blank">> \in new,
         "gaudi" \notin shared =>
           \A v : v = view["gaudi"][GaudiFile] =>
             GaudiRight(v)' /\ \A c \in blank' \cap index : <<c, "blank">> \in v
  PROVE  IInv'
<1>1. /\ step["gaudi"] \in Serving /\ detected["gaudi"]["gaudi"] # {}
  BY DEF IInv, GaudiInv, GaudiFiles, Serving
<1>2. /\ Types /\ OldInv /\ "gaudi" \in AllPrograms /\ "gaudi" \in programs
      /\ dir[GaudiFile] # Absent /\ view["gaudi"][GaudiFile] # Absent
      /\ view["gaudi"] \in Dirs /\ dir \in Dirs /\ held["gaudi"] \in Dirs
  BY <1>1, GaudiCalls
<1>3. /\ step' = [step EXCEPT !["gaudi"] = "idle"]
      /\ device' = [device EXCEPT !["gaudi"] = NoDevice]
      /\ held' = [held EXCEPT !["gaudi"] = NoSpecs] /\ shared' = shared \ {"gaudi"}
      /\ dir' = [dir EXCEPT ![GaudiFile] = new] /\ readable' = readable \ {GaudiFile}
      /\ stale' = programs
      /\ "gaudi" \in shared => view' = [view EXCEPT !["gaudi"] = [@ EXCEPT ![GaudiFile] = new]]
      /\ "gaudi" \notin shared => view' = view
  BY DEF Leave, Release, GaudiWrites, ViewAfter, Write
<1>4. /\ step'["gaudi"] = "idle" /\ device'["gaudi"] = NoDevice /\ held'["gaudi"] = NoSpecs
  BY <1>2, <1>3 DEF Types, StepTypes, CallTypes
<1>5. GaudiFile \in Names /\ NoSpecs \in Dirs
  <2>1. Absent \in FileSpec
    BY Zenon DEF FileSpec
  <2> QED
    BY <2>1, FileNames DEF NoSpecs, Dirs, GaudiFile, Kinds
<1>6. /\ dir' \in Dirs /\ dir'[GaudiFile] = new
      /\ \A n \in Names \ {GaudiFile} : dir'[n] = dir[n]
  BY <1>2, <1>3, <1>5 DEF Dirs
<1>7. /\ view'["gaudi"] \in Dirs /\ view' = [view EXCEPT !["gaudi"] = view'["gaudi"]]
      /\ \A n \in Names \ {GaudiFile} : view'["gaudi"][n] = view["gaudi"][n]
      /\ "gaudi" \in shared => view'["gaudi"][GaudiFile] = new
      /\ "gaudi" \notin shared => view'["gaudi"] = view["gaudi"]
  <2>1. CASE "gaudi" \in shared
    <3>1. view' = [view EXCEPT !["gaudi"] = [view["gaudi"] EXCEPT ![GaudiFile] = new]]
      BY <2>1, <1>3
    <3>2. view'["gaudi"] = [view["gaudi"] EXCEPT ![GaudiFile] = new]
      BY <3>1, <1>2 DEF Types, FileTypes
    <3>3. view["gaudi"] \in [Names -> FileSpec]
      BY <1>2 DEF Dirs
    <3>4. /\ view'["gaudi"] \in [Names -> FileSpec] /\ view'["gaudi"][GaudiFile] = new
          /\ \A n \in Names \ {GaudiFile} : view'["gaudi"][n] = view["gaudi"][n]
      BY <3>2, <3>3, <1>5
    <3>5. view' = [view EXCEPT !["gaudi"] = view'["gaudi"]]
      BY <3>1, <3>2
    <3> QED
      BY <2>1, <3>4, <3>5 DEF Dirs
  <2>2. CASE "gaudi" \notin shared
    BY <2>2, <1>2, <1>3 DEF Types, FileTypes
  <2> QED
    BY <2>1, <2>2
<1>8. GaudiOnly
  <2>1. step' = [step EXCEPT !["gaudi"] = step'["gaudi"]]
    BY <1>3, <1>4
  <2>2. /\ device' = [device EXCEPT !["gaudi"] = device'["gaudi"]]
        /\ held' = [held EXCEPT !["gaudi"] = held'["gaudi"]]
    BY <1>3, <1>4
  <2>3. "idle" \in Serving \ {"fetch"} /\ "idle" \notin Calling
    BY DEF Serving, Calling
  <2>4. "gaudi" \notin shared' /\ shared' \in {shared, shared \cup {"gaudi"}, shared \ {"gaudi"}}
    BY <1>3
  <2>5. readable' \subseteq readable
    BY <1>3
  <2> QED
    BY <1>1, <1>3, <1>4, <1>5, <1>6, <1>7, <2>1, <2>2, <2>3, <2>4, <2>5 DEF GaudiOnly
<1>9. ASSUME NEW f, NEW v, f = dir'[GaudiFile], v = view'["gaudi"][GaudiFile] PROVE GaudiInv'
  <2>1. GaudiRight(f)' /\ f # Absent
    BY <1>6, <1>9
  <2>2. /\ GaudiRight(v)' /\ v # Absent
        /\ \A c \in blank' \cap index : <<c, "blank">> \in v
    <3>1. CASE "gaudi" \in shared
      BY <3>1, <1>7, <1>9
    <3>2. CASE "gaudi" \notin shared
      BY <3>2, <1>2, <1>7, <1>9
    <3> QED
      BY <3>1, <3>2
  <2>3. GaudiIndex' /\ GaudiCall' /\ detected'["gaudi"]["gaudi"] # {}
    BY <2>2, <1>1, <1>4, <1>9 DEF GaudiIndex, GaudiCall
  <2> QED
    BY <2>1, <2>2, <2>3, <1>4, <1>9, GaudiInvFrom
<1> QED
  BY <1>2, <1>8, <1>9, GaudiStep, Combine

\* The spec a call holds.
LEMMA BlankHeld ==
  ASSUME IInv, step["gaudi"] \in {"add", "drop"}
  PROVE  /\ Types /\ GaudiIndex /\ GaudiCall
         /\ held["gaudi"][GaudiFile] \in SUBSET (AllNames \X Edits)
         /\ held["gaudi"][GaudiFile] # Absent /\ GaudiRight(held["gaudi"][GaudiFile])
         /\ \A n \in Names : held["gaudi"][n] # Absent <=> n = GaudiFile
         /\ "gaudi" \in shared => view["gaudi"][GaudiFile] = held["gaudi"][GaudiFile]
         /\ GaudiRight(view["gaudi"][GaudiFile])
         /\ device["gaudi"] \in Claims /\ device["gaudi"] \notin blank
         /\ blank \subseteq Claims /\ missed \subseteq Claims /\ overtaken["gaudi"] \subseteq blank
         /\ \A e \in GaudiDevices : e[1] \notin Claims
         /\ GaudiFile \in Names
<1>1. step["gaudi"] \in Serving /\ detected["gaudi"]["gaudi"] # {}
  BY DEF IInv, GaudiInv, GaudiFiles, Serving
<1>2. /\ Types /\ GaudiIndex /\ GaudiHeld /\ GaudiCall /\ held["gaudi"] \in Dirs
      /\ GaudiRight(view["gaudi"][GaudiFile])
      /\ blank \subseteq Claims /\ missed \subseteq Claims /\ overtaken["gaudi"] \subseteq blank
      /\ \A e \in GaudiDevices : e[1] \notin Claims
  BY <1>1, GaudiCalls
<1>3. /\ held["gaudi"][GaudiFile] # Absent /\ GaudiRight(held["gaudi"][GaudiFile])
      /\ \A n \in Names \ {GaudiFile} : held["gaudi"][n] = Absent
      /\ "gaudi" \in shared => view["gaudi"][GaudiFile] = held["gaudi"][GaudiFile]
      /\ device["gaudi"] \notin blank
  BY <1>2 DEF GaudiHeld
<1>4. GaudiFile \in Names
  BY FileNames DEF GaudiFile, Kinds
<1>5. held["gaudi"][GaudiFile] \in SUBSET (AllNames \X Edits)
  BY <1>2, <1>3, <1>4 DEF Dirs, FileSpec
<1>6. device["gaudi"] \in Claims
  BY <1>2 DEF Types, CallTypes, Calling, AllPrograms
<1> QED
  BY <1>2, <1>3, <1>4, <1>5, <1>6

LEMMA AddBlankStep == ASSUME IInv, AddBlank PROVE IInv'
<1> SUFFICES ASSUME NEW c, c = device["gaudi"], NEW H, H = held["gaudi"][GaudiFile],
                    NEW new, new = With(H, c, "blank")
             PROVE  IInv'
  OBVIOUS
<1>1. /\ step["gaudi"] = "add" /\ blank' = blank \cup {c} /\ Leave("gaudi")
      /\ "gaudi" \in shared => overtaken' = overtaken
      /\ "gaudi" \notin shared =>
           overtaken' = [overtaken EXCEPT !["gaudi"] = overtaken["gaudi"] \cup {c}]
      /\ \E n \in Names : GaudiWrites(n, With(held["gaudi"][n], c, "blank"))
      /\ UNCHANGED <<todo, detected, driver, failed, index, missed, programs>>
  BY DEF AddBlank, gpuVars
<1>2. /\ Types /\ GaudiIndex /\ GaudiCall
      /\ H \in SUBSET (AllNames \X Edits) /\ GaudiRight(H)
      /\ \A n \in Names : held["gaudi"][n] # Absent <=> n = GaudiFile
      /\ "gaudi" \in shared => view["gaudi"][GaudiFile] = H
      /\ GaudiRight(view["gaudi"][GaudiFile])
      /\ c \in Claims /\ c \notin blank
      /\ blank \subseteq Claims /\ missed \subseteq Claims /\ overtaken["gaudi"] \subseteq blank
      /\ \A e \in GaudiDevices : e[1] \notin Claims
  BY <1>1, BlankHeld
<1>3. GaudiWrites(GaudiFile, new)
  BY <1>1, <1>2 DEF GaudiWrites
<1>4. new \in FileSpec /\ new # Absent
  BY <1>2, SpecWith, NamesOf DEF Edits
<1>5. /\ \A s : GaudiRight(s) <=> /\ GaudiDevices \subseteq s
                                  /\ BlanksOf(blank \ overtaken["gaudi"]) \subseteq s
                                  /\ s \subseteq GaudiDevices \cup BlanksOf(blank \cup missed)
      /\ GaudiDevices' = GaudiDevices /\ Deleting' = {} /\ c \notin missed
  <2>1. step'["gaudi"] = "idle"
    BY <1>1, <1>2 DEF Leave, Types, StepTypes, AllPrograms
  <2> QED
    BY <2>1, <1>1, <1>2 DEF GaudiRight, GaudiDevices, Entries, EditsOf, Deleting, GaudiCall
<1>6. new = H \cup {<<c, "blank">>}
  <2>1. \A e \in H : e[1] # c
    BY <1>2, <1>5 DEF BlanksOf
  <2> QED
    BY <2>1 DEF With, Without
<1>7. /\ overtaken' = [overtaken EXCEPT !["gaudi"] = overtaken'["gaudi"]]
      /\ "gaudi" \in shared => overtaken'["gaudi"] = overtaken["gaudi"]
      /\ "gaudi" \notin shared => overtaken'["gaudi"] = overtaken["gaudi"] \cup {c}
  BY <1>1, <1>2 DEF Types, CallTypes, AllPrograms
<1>8. GaudiRight(new)'
  <2>1. /\ GaudiDevices \subseteq H /\ BlanksOf(blank \ overtaken["gaudi"]) \subseteq H
        /\ H \subseteq GaudiDevices \cup BlanksOf(blank \cup missed)
    BY <1>2, <1>5
  <2>2. BlanksOf(blank' \ overtaken'["gaudi"]) \subseteq new
    BY <2>1, <1>1, <1>6, <1>7 DEF BlanksOf
  <2>3. new \subseteq GaudiDevices \cup BlanksOf(blank' \cup missed')
    BY <2>1, <1>1, <1>6 DEF BlanksOf
  <2> QED
    BY <2>1, <2>2, <2>3, <1>5, <1>6 DEF GaudiRight, BlanksOf
<1>9. ASSUME "gaudi" \in shared PROVE \A x \in blank' \cap index : <<x, "blank">> \in new
  BY <1>1, <1>2, <1>6, <1>9 DEF GaudiIndex
<1>10. ASSUME "gaudi" \notin shared, NEW v, v = view["gaudi"][GaudiFile]
       PROVE  GaudiRight(v)' /\ \A x \in blank' \cap index : <<x, "blank">> \in v
  <2>1. c \notin index
    BY <1>1, <1>2, <1>10 DEF GaudiCall
  <2>2. \A x \in blank' \cap index : <<x, "blank">> \in v
    BY <2>1, <1>1, <1>2, <1>10 DEF GaudiIndex
  <2>3. /\ GaudiDevices \subseteq v /\ BlanksOf(blank \ overtaken["gaudi"]) \subseteq v
        /\ v \subseteq GaudiDevices \cup BlanksOf(blank \cup missed)
    BY <1>2, <1>5, <1>10
  <2>4. BlanksOf(blank' \ overtaken'["gaudi"]) \subseteq v
    BY <2>3, <1>1, <1>7, <1>10 DEF BlanksOf
  <2>5. v \subseteq GaudiDevices \cup BlanksOf(blank' \cup missed')
    BY <2>3, <1>1 DEF BlanksOf
  <2> QED
    BY <2>2, <2>3, <2>4, <2>5, <1>5 DEF GaudiRight, BlanksOf
<1>11. overtaken'["gaudi"] \subseteq blank' /\ blank' \subseteq Claims /\ missed' \subseteq Claims
  BY <1>1, <1>2, <1>7
<1> QED
  BY <1>1, <1>3, <1>4, <1>7, <1>8, <1>9, <1>10, <1>11, BlankEnds

LEMMA DropBlankStep == ASSUME IInv, DropBlank PROVE IInv'
<1> SUFFICES ASSUME NEW c, c = device["gaudi"], NEW H, H = held["gaudi"][GaudiFile],
                    NEW new, new = Without(H, c)
             PROVE  IInv'
  OBVIOUS
<1>1. /\ step["gaudi"] = "drop" /\ Leave("gaudi")
      /\ \E n \in Names : GaudiWrites(n, Without(held["gaudi"][n], c))
      /\ missed' = missed \cup ({c} \cap Blanks(view'["gaudi"]))
      /\ UNCHANGED <<todo, detected, driver, failed, blank, index, overtaken, programs>>
  BY DEF DropBlank, gpuVars
<1>2. /\ Types /\ GaudiIndex /\ GaudiCall
      /\ H \in SUBSET (AllNames \X Edits) /\ GaudiRight(H)
      /\ \A n \in Names : held["gaudi"][n] # Absent <=> n = GaudiFile
      /\ "gaudi" \in shared => view["gaudi"][GaudiFile] = H
      /\ GaudiRight(view["gaudi"][GaudiFile])
      /\ c \in Claims /\ c \notin blank
      /\ blank \subseteq Claims /\ missed \subseteq Claims /\ overtaken["gaudi"] \subseteq blank
      /\ \A e \in GaudiDevices : e[1] \notin Claims
  BY <1>1, BlankHeld
<1>3. GaudiWrites(GaudiFile, new)
  BY <1>1, <1>2 DEF GaudiWrites
<1>4. new \in FileSpec /\ new # Absent
  BY <1>2, SpecWithout
<1>5. /\ \A s : GaudiRight(s) <=>
           /\ GaudiDevices \subseteq s /\ BlanksOf(blank \ overtaken["gaudi"]) \subseteq s
           /\ s \subseteq GaudiDevices \cup BlanksOf(blank \cup missed \cup {c})
      /\ GaudiDevices' = GaudiDevices /\ Deleting' = {}
  <2>1. step'["gaudi"] = "idle"
    BY <1>1, <1>2 DEF Leave, Types, StepTypes, AllPrograms
  <2> QED
    BY <2>1, <1>1 DEF GaudiRight, GaudiDevices, Entries, EditsOf, Deleting
<1>6. missed \subseteq missed' /\ missed' \subseteq Claims
  BY <1>1, <1>2
<1>7. GaudiRight(new)'
  <2>1. /\ GaudiDevices \subseteq H /\ BlanksOf(blank \ overtaken["gaudi"]) \subseteq H
        /\ H \subseteq GaudiDevices \cup BlanksOf(blank \cup missed \cup {c})
    BY <1>2, <1>5
  <2>2. GaudiDevices \subseteq new
    BY <2>1, <1>2 DEF Without
  <2>3. BlanksOf(blank' \ overtaken'["gaudi"]) \subseteq new
    BY <2>1, <1>1, <1>2 DEF BlanksOf, Without
  <2>4. new \subseteq GaudiDevices \cup BlanksOf(blank' \cup missed')
    BY <2>1, <1>1, <1>6 DEF BlanksOf, Without
  <2> QED
    BY <2>2, <2>3, <2>4, <1>5 DEF GaudiRight, BlanksOf
<1>8. ASSUME "gaudi" \in shared PROVE \A x \in blank' \cap index : <<x, "blank">> \in new
  BY <1>1, <1>2, <1>8 DEF GaudiIndex, Without
<1>9. ASSUME "gaudi" \notin shared, NEW v, v = view["gaudi"][GaudiFile]
      PROVE  GaudiRight(v)' /\ \A x \in blank' \cap index : <<x, "blank">> \in v
  <2>1. \A x \in blank' \cap index : <<x, "blank">> \in v
    BY <1>1, <1>2, <1>9 DEF GaudiIndex
  <2>2. /\ GaudiDevices \subseteq v /\ BlanksOf(blank \ overtaken["gaudi"]) \subseteq v
        /\ v \subseteq GaudiDevices \cup BlanksOf(blank \cup missed \cup {c})
    BY <1>2, <1>5, <1>9
  <2>3. <<c, "blank">> \in v => c \in missed'
    <3>1. view["gaudi"] \in Dirs /\ view["gaudi"][OldName("gaudi")] = Absent
      BY <1>2 DEF IInv, OldInv, Types, FileTypes, AllPrograms
    <3>2. c \in Blanks(view["gaudi"]) <=> <<c, "blank">> \in v
      BY <3>1, <1>2, <1>9, BlanksOfSpec
    <3>3. view' = view
      BY <1>3, <1>9 DEF GaudiWrites, ViewAfter
    <3> QED
      BY <3>2, <3>3, <1>1
  <2>4. BlanksOf(blank' \ overtaken'["gaudi"]) \subseteq v
    BY <2>2, <1>1 DEF BlanksOf
  <2>5. v \subseteq GaudiDevices \cup BlanksOf(blank' \cup missed')
    BY <2>2, <2>3, <1>1, <1>6 DEF BlanksOf
  <2> QED
    BY <2>1, <2>2, <2>4, <2>5, <1>5 DEF GaudiRight, BlanksOf
<1>10. /\ overtaken' = [overtaken EXCEPT !["gaudi"] = overtaken'["gaudi"]]
       /\ overtaken'["gaudi"] \subseteq blank' /\ blank' \subseteq Claims
  BY <1>1, <1>2 DEF Types, CallTypes
<1> QED
  BY <1>1, <1>3, <1>4, <1>6, <1>7, <1>8, <1>9, <1>10, BlankEnds

-----------------------------------------------------------------------------
(* The invariant is inductive                                               *)

LEMMA Initially == ASSUME OldOfGpus PROVE Init => IInv
<1> SUFFICES ASSUME Init PROVE IInv
  OBVIOUS
<1>1. Absent \in FileSpec
  BY Zenon DEF FileSpec
<1>2. NoSpecs \in Dirs /\ \A n \in Names : NoSpecs[n] = Absent
  BY <1>1 DEF NoSpecs, Dirs
<1>3. PICK ks \in SUBSET Old :
        dir = [n \in Names |-> IF n = OldName(Kind(n)) /\ Kind(n) \in ks
                                 THEN LeftBy(Kind(n)) ELSE Absent]
  BY DEF Init
<1>4. /\ programs \in Hosts /\ readable = {} /\ stale = {}
      /\ step = [p \in AllPrograms |-> "stopped"] /\ todo = [p \in AllPrograms |-> <<>>]
      /\ view = [p \in AllPrograms |-> NoSpecs]
      /\ detected = [p \in AllPrograms |-> [k \in Kinds |-> {}]]
      /\ driver = [d \in GPUs |-> "drm"] /\ device = [p \in AllPrograms |-> NoDevice]
      /\ held = [p \in AllPrograms |-> NoSpecs] /\ shared = {}
      /\ overtaken = [p \in AllPrograms |-> {}]
      /\ failed = {} /\ blank = {} /\ index = {} /\ missed = {}
  BY DEF Init
<1>5. programs \subseteq AllPrograms
  BY <1>4, CdiAssumption
<1>6. \A k \in Kinds : LeftBy(k) \in FileSpec
  BY DEF LeftBy, FileSpec, AllNames, Edits
<1>7. dir \in Dirs
  BY <1>1, <1>3, <1>6, FileNames DEF Dirs
<1>8. FileTypes
  BY <1>2, <1>4, <1>7 DEF FileTypes
<1>9. StepTypes
  <2>1. step \in [AllPrograms -> Steps] /\ todo \in [AllPrograms -> Lists]
    BY <1>4 DEF Steps, Lists
  <2>2. \A p \in AllPrograms : step[p] = "stopped" /\ todo[p] = <<>>
    BY <1>4
  <2> QED
    BY <2>1, <2>2, <1>5, ListRanges DEF StepTypes, AllPrograms, Calling
<1>10. FoundTypes
  BY <1>4 DEF FoundTypes, AllPrograms
<1>11. CallTypes
  BY <1>2, <1>4 DEF CallTypes, AllPrograms, Calling
<1>12. OldInv
  <2>1. \A k \in {"qat", "gaudi"} : OldName(k) \in Names /\ Kind(OldName(k)) = k /\ k \notin ks
    BY FileNames DEF OldOfGpus, Kinds
  <2> QED
    BY <2>1, <1>2, <1>3, <1>4 DEF OldInv
<1>13. \A p \in programs : BootInv(p)
  BY <1>4, <1>5 DEF BootInv, Booting
<1>14. QatInv /\ GaudiInv /\ GpuInv
  BY <1>4 DEF QatInv, GaudiInv, GpuInv, Serving, AllPrograms
<1> QED
  BY <1>8, <1>9, <1>10, <1>11, <1>12, <1>13, <1>14 DEF IInv, Types

LEMMA StutterStep == ASSUME IInv, UNCHANGED vars PROVE IInv'
<1>1. /\ dir' = dir /\ readable' = readable /\ stale' = stale /\ step' = step /\ todo' = todo
      /\ view' = view /\ detected' = detected /\ driver' = driver /\ device' = device
      /\ held' = held /\ shared' = shared /\ failed' = failed /\ blank' = blank
      /\ index' = index /\ missed' = missed /\ overtaken' = overtaken /\ programs' = programs
  BY DEF vars, dirVars, callVars, gpuVars, gaudiVars
<1>2. Types /\ OldInv /\ QatInv /\ GaudiInv /\ GpuInv /\ \A p \in programs : BootInv(p)
  BY DEF IInv
<1>3. Types'
  BY <1>1, <1>2 DEF Types, FileTypes, StepTypes, FoundTypes, CallTypes
<1>4. OldInv'
  BY <1>1, <1>2 DEF OldInv
<1>5. \A p, k : Entries(p, k)' = Entries(p, k)
  BY <1>1 DEF Entries, EditsOf
<1>6. \A p, k : Written(p, k) => Written(p, k)'
  BY <1>1, <1>5 DEF Written, SpecOf
<1>7. ASSUME NEW p \in programs PROVE BootInv(p)'
  <2>1. Pending(p)' = Pending(p) /\ Mine(p)' = Mine(p)
    BY <1>1 DEF Pending, Mine
  <2> QED
    BY <2>1, <1>1, <1>2, <1>6 DEF BootInv
<1>8. QatInv'
  BY <1>1, <1>2, <1>6 DEF QatInv
<1>9. GaudiInv'
  <2>1. GaudiFiles' = GaudiFiles
    BY <1>1 DEF GaudiFiles, GaudiRight, GaudiDevices, Entries, EditsOf, BlanksOf, Deleting
  <2>2. GaudiHeld' = GaudiHeld
    BY <1>1 DEF GaudiHeld, GaudiRight, GaudiDevices, Entries, EditsOf, BlanksOf, Deleting
  <2> QED
    BY <2>1, <2>2, <1>1, <1>2 DEF GaudiInv, GaudiIndex, GaudiCall
<1>10. GpuInv'
  <2>1. Written("gpu", "mei") => Written("gpu", "mei")'
    BY <1>6
  <2>2. GpuFiles => GpuFiles'
    BY <2>1, <1>1 DEF GpuFiles, GpuRight, Settled, EditsOf, In
  <2>3. GpuHeld' = GpuHeld
    BY <1>1 DEF GpuHeld, GpuRight, Settled, EditsOf, In
  <2> QED
    BY <2>2, <2>3, <1>1, <1>2 DEF GpuInv, GpuCall, In
<1> QED
  BY <1>1, <1>3, <1>4, <1>7, <1>8, <1>9, <1>10 DEF IInv

LEMMA Inductive == IInv /\ [Next]_vars => IInv'
<1> SUFFICES ASSUME IInv, [Next]_vars PROVE IInv'
  OBVIOUS
<1>1. ASSUME NEW p \in programs, Crash(p) \/ StartFails(p) PROVE IInv'
  <2>1. Stop(p) /\ dir' = dir /\ stale' = stale /\ readable' = readable
    BY <1>1 DEF Crash, StartFails, dirVars
  <2>2. readable' \subseteq Names
    BY <2>1 DEF IInv, Types, FileTypes
  <2> QED
    BY <2>1, <2>2, StopStep
<1>2. ASSUME Finish PROVE IInv'
  <2>1. "generator" \in programs
    BY <1>2, StepInPrograms DEF Finish, IInv, AllPrograms
  <2>2. /\ Stop("generator") /\ dir' = dir /\ stale' = stale
        /\ readable' = readable \cup FilesFound
    BY <1>2 DEF Finish
  <2>3. readable' \subseteq Names
    BY <2>2 DEF FilesFound, IInv, Types, FileTypes
  <2> QED
    BY <2>1, <2>2, <2>3, StopStep
<1>3. ASSUME NEW p \in programs,
             Refresh(p) \/ Start(p) \/ RemoveOld(p) \/ WriteNew(p) \/ Ready(p)
      PROVE  IInv'
  BY <1>3, RefreshStep, StartStep, RemoveStep, WriteStep, ReadyStep
<1>4. ASSUME NEW d \in GPUs, Update(d) \/ Appear(d) PROVE IInv'
  BY <1>4, UpdateStep, AppearStep
<1>5. ASSUME Drop \/ Fetch \/ Add PROVE IInv'
  BY <1>5, DropStep, FetchStep, AddStep
<1>6. ASSUME NEW c \in Claims, NewBlankDevice(c) \/ DeleteBlankDevices(c) PROVE IInv'
  BY <1>6, NewBlankStep, DeleteBlankStep
<1>7. ASSUME AddBlank \/ DropBlank PROVE IInv'
  BY <1>7, AddBlankStep, DropBlankStep
<1>8. ASSUME UNCHANGED vars PROVE IInv'
  BY <1>8, StutterStep
<1> QED
  BY <1>1, <1>2, <1>3, <1>4, <1>5, <1>6, <1>7, <1>8 DEF Next

-----------------------------------------------------------------------------
(* What follows from it                                                     *)

\* When there is no file with the old name the entries of a kind are those of its file.
LEMMA EntriesOfFile ==
  ASSUME Types, NEW k \in Kinds, dir[OldName(k)] = Absent,
         NEW spec \in SUBSET ((Devices[k] \cup Claims) \X Edits),
         dir[Generated(k)] = spec \/ (spec = {} /\ dir[Generated(k)] = Absent)
  PROVE  /\ EntriesOf(k) = spec
         /\ \A m, n \in Files(dir, k) : m = n
<1>1. /\ \A n \in Names : Kind(n) = k => n = Generated(k) \/ n = OldName(k)
      /\ Generated(k) \in Names /\ Kind(Generated(k)) = k
  BY FileNames
<1>2. <<>> \notin (Devices[k] \cup Claims) \X Edits
  OBVIOUS
<1>3. EntriesOf(k) = spec
  BY <1>1, <1>2 DEF EntriesOf, Absent
<1>4. \A m, n \in Files(dir, k) : m = n
  BY <1>1 DEF Files
<1> QED
  BY <1>3, <1>4

\* The entries of a kind whose file has the entries of a program and no others.
LEMMA WrittenDescribed ==
  ASSUME Types, NEW p \in AllPrograms, NEW k \in Kinds, Written(p, k)
  PROVE  /\ EntriesOf(k) = Entries(p, k)
         /\ \A m, n \in Files(dir, k) : m = n
         /\ \A d \in detected[p][k] : <<d, EditsOf(k, d)>> \in Entries(p, k)
         /\ \A e \in Entries(p, k) : e[1] \in detected[p][k] /\ e = <<e[1], EditsOf(k, e[1])>>
<1>1. detected[p][k] \subseteq Devices[k] /\ Entries(p, k) \in SUBSET (AllNames \X Edits)
  BY EntriesType DEF Types, FoundTypes
<1>2. /\ \A d \in detected[p][k] : <<d, EditsOf(k, d)>> \in Entries(p, k)
      /\ \A e \in Entries(p, k) : e[1] \in detected[p][k] /\ e = <<e[1], EditsOf(k, e[1])>>
  BY DEF Entries
<1>3. Entries(p, k) \in SUBSET ((Devices[k] \cup Claims) \X Edits)
  BY <1>1, <1>2
<1>4. dir[Generated(k)] = Entries(p, k) \/ (Entries(p, k) = {} /\ dir[Generated(k)] = Absent)
  BY DEF Written, SpecOf
<1>5. dir[OldName(k)] = Absent
  BY DEF Written
<1> QED
  BY <1>2, <1>3, <1>4, <1>5, EntriesOfFile

\* The entries of the GPU kind are those of the plugin's file, ...
LEMMA GpuEntries ==
  ASSUME IInv, step["gpu"] \in Serving
  PROVE  /\ \A m, n \in Files(dir, "gpu") : m = n
         /\ GpuRight(EntriesOf("gpu"))
<1> DEFINE spec == In(dir[GpuFile])
<1>1. /\ Types /\ "gpu" \in Kinds /\ dir[OldName("gpu")] = Absent /\ GpuRight(spec)
      /\ detected["gpu"]["gpu"] \subseteq Devices["gpu"] /\ GpuFile \in Names /\ dir \in Dirs
  BY FileNames DEF IInv, GpuInv, GpuFiles, GpuOld, GpuFile, Types, FileTypes, FoundTypes, Kinds,
                   AllPrograms
<1>2. spec \in SUBSET (AllNames \X Edits)
  BY <1>1, InType DEF Dirs
<1>3. spec \in SUBSET ((Devices["gpu"] \cup Claims) \X Edits)
  BY <1>1, <1>2 DEF GpuRight
<1>4. dir[Generated("gpu")] = spec \/ (spec = {} /\ dir[Generated("gpu")] = Absent)
  BY DEF In, GpuFile
<1> HIDE DEF spec
<1>5. EntriesOf("gpu") = spec /\ \A m, n \in Files(dir, "gpu") : m = n
  BY <1>1, <1>3, <1>4, EntriesOfFile
<1> QED
  BY <1>1, <1>5

\* ... and those of the Gaudi kind are the devices and the blank ones.
LEMMA GaudiEntriesThere ==
  ASSUME IInv, step["gaudi"] \in Serving
  PROVE  /\ \A m, n \in Files(dir, "gaudi") : m = n
         /\ GaudiRight(EntriesOf("gaudi"))
<1> DEFINE spec == In(dir[GaudiFile])
<1>1. /\ Types /\ "gaudi" \in Kinds /\ dir[OldName("gaudi")] = Absent /\ GaudiFiles
      /\ detected["gaudi"]["gaudi"] \subseteq Devices["gaudi"] /\ GaudiFile \in Names
      /\ dir \in Dirs /\ blank \subseteq Claims /\ missed \subseteq Claims
      /\ device["gaudi"] \in Claims \cup {NoDevice} /\ "gaudi" \in AllPrograms
      /\ step["gaudi"] = "drop" => device["gaudi"] # NoDevice
  BY FileNames DEF IInv, OldInv, GaudiInv, GaudiFile, Types, FileTypes, FoundTypes, CallTypes,
                   Kinds, AllPrograms, Calling
<1>2. spec \in SUBSET (AllNames \X Edits)
  BY <1>1, InType DEF Dirs
<1>3. GaudiRight(spec)
  <2>1. CASE detected["gaudi"]["gaudi"] = {}
    <3>1. spec = {} /\ GaudiDevices = {} /\ blank = {}
      BY <2>1, <1>1 DEF GaudiFiles, In, GaudiDevices, Entries
    <3> QED
      BY <3>1 DEF GaudiRight, BlanksOf
  <2>2. CASE detected["gaudi"]["gaudi"] # {}
    BY <2>2, <1>1 DEF GaudiFiles, In
  <2> QED
    BY <2>1, <2>2
<1>4. spec \in SUBSET ((Devices["gaudi"] \cup Claims) \X Edits)
  <2>1. \A e \in GaudiDevices : e[1] \in Devices["gaudi"]
    BY <1>1 DEF GaudiDevices, Entries
  <2>2. \A e \in BlanksOf(blank \cup missed \cup Deleting) : e[1] \in Claims
    BY <1>1 DEF BlanksOf, Deleting
  <2>3. \A e \in spec : e[1] \in Devices["gaudi"] \cup Claims
    BY <2>1, <2>2, <1>3 DEF GaudiRight
  <2> QED
    BY <2>3, <1>2
<1>5. dir[Generated("gaudi")] = spec \/ (spec = {} /\ dir[Generated("gaudi")] = Absent)
  BY DEF In, GaudiFile
<1> HIDE DEF spec
<1>6. EntriesOf("gaudi") = spec /\ \A m, n \in Files(dir, "gaudi") : m = n
  BY <1>1, <1>4, <1>5, EntriesOfFile
<1> QED
  BY <1>3, <1>6

LEMMA Described == IInv => DevicesDescribed
<1> SUFFICES ASSUME IInv PROVE DevicesDescribed
  OBVIOUS
<1>1. Types /\ TypeOK
  BY TypeOf DEF IInv
<1>2. ASSUME NEW p \in programs \ {"generator"}, step[p] \in Serving, NEW k \in OwnKinds(p)
      PROVE  /\ \A d \in detected[p][k] \ Unsure(p, k) :
                  /\ {e \in EntriesOf(k) : e[1] = d} \subseteq {<<d, EditsOf(k, d)>>}
                  /\ ~(k = "gpu" /\ driver[d] = "none") => <<d, EditsOf(k, d)>> \in EntriesOf(k)
             /\ \A m, n \in Files(dir, k) : m = n
             /\ \A e \in EntriesOf(k) :
                  \/ e[1] \in detected[p][k]
                  \/ k = "gaudi" /\ e[1] \in blank \cup missed \cup {device["gaudi"]}
  <2>1. p \in {"gpu", "qat", "gaudi"} /\ p \in AllPrograms
    BY <1>1, ProgramsOf DEF Types, AllPrograms
  <2>2. CASE p = "qat" \/ (p = "gpu" /\ k = "mei")
    <3>1. Written(p, k) /\ k \in Kinds
      BY <1>1, <1>2, <2>2, OwnKindsAre
         DEF IInv, QatInv, GpuInv, GpuFiles, Serving, Kinds, Types, StepTypes, Calling, AllPrograms
    <3>2. /\ EntriesOf(k) = Entries(p, k)
          /\ \A m, n \in Files(dir, k) : m = n
          /\ \A d \in detected[p][k] : <<d, EditsOf(k, d)>> \in Entries(p, k)
          /\ \A e \in Entries(p, k) : e[1] \in detected[p][k] /\ e = <<e[1], EditsOf(k, e[1])>>
      BY <3>1, <1>1, <2>1, WrittenDescribed
    <3> QED
      BY <3>2
  <2>3. CASE p = "gpu" /\ k = "gpu"
    <3>1. detected["gpu"]["gpu"] \ Unsure(p, k) = Settled
      BY <2>3 DEF Unsure, Settled
    <3>2. GpuRight(EntriesOf("gpu")) /\ \A m, n \in Files(dir, "gpu") : m = n
      BY <1>2, <2>3, GpuEntries
    <3> QED
      BY <2>3, <3>1, <3>2 DEF GpuRight
  <2>4. CASE p = "gaudi"
    <3>1. k = "gaudi"
      BY <1>2, <2>4, OwnKindsAre
    <3>2. GaudiRight(EntriesOf("gaudi")) /\ \A m, n \in Files(dir, "gaudi") : m = n
      BY <1>2, <2>4, GaudiEntriesThere
    <3>3. /\ detected["gaudi"]["gaudi"] \subseteq Devices["gaudi"]
          /\ blank \subseteq Claims /\ missed \subseteq Claims
          /\ Deleting \subseteq {device["gaudi"]} /\ Deleting \subseteq Claims
          /\ Devices["gaudi"] \cap Claims = {}
      BY <1>1, CdiAssumption
         DEF Types, FoundTypes, CallTypes, Calling, Deleting, Kinds, AllPrograms
    <3>4. /\ \A d \in detected["gaudi"]["gaudi"] : <<d, EditsOf("gaudi", d)>> \in GaudiDevices
          /\ \A e \in GaudiDevices : /\ e[1] \in detected["gaudi"]["gaudi"]
                                     /\ e = <<e[1], EditsOf("gaudi", e[1])>>
      BY DEF GaudiDevices, Entries
    <3>5. \A e \in EntriesOf("gaudi") :
            e \in GaudiDevices \/ e[1] \in blank \cup missed \cup Deleting
      BY <3>2 DEF GaudiRight, BlanksOf
    <3>6. ASSUME NEW d \in detected["gaudi"]["gaudi"]
          PROVE  /\ {e \in EntriesOf("gaudi") : e[1] = d} \subseteq {<<d, EditsOf("gaudi", d)>>}
                 /\ <<d, EditsOf("gaudi", d)>> \in EntriesOf("gaudi")
      <4>1. d \notin blank \cup missed \cup Deleting
        BY <3>3, <3>6
      <4> QED
        BY <4>1, <3>2, <3>4, <3>5 DEF GaudiRight
    <3>7. \A e \in EntriesOf("gaudi") : \/ e[1] \in detected["gaudi"]["gaudi"]
                                        \/ e[1] \in blank \cup missed \cup {device["gaudi"]}
      BY <3>3, <3>4, <3>5
    <3> QED
      BY <2>4, <3>1, <3>2, <3>6, <3>7
  <2> QED
    BY <1>2, <2>1, <2>2, <2>3, <2>4, OwnKindsAre
<1> QED
  BY <1>1, <1>2 DEF DevicesDescribed

-----------------------------------------------------------------------------
(* Theorems                                                                 *)

\* In every state of every behavior, a plugin that serves has each device it detected, when
\* it started or later, in one file, once, with the edits of its driver, and no entries of
\* other devices: whatever the other plugins write, with any devices and claims and any
\* number of driver changes, new devices, failures and ends, and though the library may read
\* the directory between what a call gets and what it writes.  Not so for a device whose
\* update is going on, has failed or was overtaken by that reading, until the next one
\* (pkg/gpu/cdihelpers/cdihelpers.go:103, 260 and 285, gaudi cdihelpers.go:156).
THEOREM DevicesDescribedAlways == ASSUME OldOfGpus PROVE Spec => []DevicesDescribed
<1>1. Init => IInv
  BY Initially
<1> QED
  BY <1>1, Inductive, Described, PTL DEF Spec

\* In every state of every behavior, a prepared claim has its blank device in the files of
\* the Gaudi kind, whatever is done for any number of other claims and whatever the other
\* plugins write; but not while its device is one the library read past
\* (cmd/kubelet-gaudi-plugin/node_state.go:153, gaudi cdihelpers.go:157).
THEOREM BlankKeptAlways == ASSUME OldOfGpus PROVE Spec => []BlankKept
<1>1. Init => IInv
  BY Initially
<1>2. IInv => BlankKept
  BY GaudiEntriesThere DEF BlankKept, GaudiRight, BlanksOf
<1> QED
  BY <1>1, <1>2, Inductive, PTL DEF Spec

\* A generator that is done has made the entries of all devices it found readable, in the
\* files of their kinds, whichever kinds it wrote in whichever order
\* (cmd/cdi-specs-generator/main.go:98).
THEOREM GeneratedReadableAlways == ASSUME OldOfGpus PROVE Spec => GeneratedReadable
<1> DEFINE Reads ==
      \A k \in Kinds : \A d \in detected["generator"][k] :
        \E n \in readable' : Kind(n) = k /\ <<d, EditsOf(k, d)>> \in dir[n]
<1>1. Init => IInv
  BY Initially
<1>2. ASSUME IInv, Finish, NEW k \in Kinds, NEW d \in detected["generator"][k]
      PROVE  \E n \in readable' : Kind(n) = k /\ <<d, EditsOf(k, d)>> \in dir[n]
  <2>1. step["generator"] = "settle" /\ readable' = readable \cup FilesFound
    BY <1>2 DEF Finish
  <2>2. "generator" \in programs /\ todo["generator"] = <<>>
    BY <2>1, <1>2 DEF IInv, Types, StepTypes, AllPrograms
  <2>3. Written("generator", k)
    BY <2>1, <2>2, <1>2, ListRanges DEF IInv, BootInv, Booting, Mine
  <2>4. <<d, EditsOf(k, d)>> \in Entries("generator", k)
    BY DEF Entries
  <2>5. Entries("generator", k) # Absent
    BY <1>2, EntriesType, NotAbsent DEF IInv, AllPrograms
  <2>6. dir[Generated(k)] = Entries("generator", k)
    BY <2>3, <2>4 DEF Written, SpecOf
  <2>7. Generated(k) \in FilesFound /\ Kind(Generated(k)) = k
    BY <2>5, <2>6, FileNames DEF FilesFound
  <2> QED
    BY <2>1, <2>4, <2>6, <2>7
<1>3. IInv /\ [Next]_vars => [Finish => Reads]_vars
  BY <1>2
<1> QED
  BY <1>1, <1>3, Inductive, PTL DEF Spec, GeneratedReadable
=============================================================================
