---------------------------- MODULE CdiRegistry ----------------------------
(***************************************************************************)
(* The directory with the CDI specs (/etc/cdi), which the three plugins of  *)
(* a node and the CDI specs generator share: each writes the specs of its   *)
(* own kinds and finds those of all of them.  (src/pkg/gpu/cdihelpers,      *)
(* src/pkg/qat/cdihelpers, src/pkg/gaudi/cdihelpers,                        *)
(* src/cmd/cdi-specs-generator)                                            *)
(*                                                                         *)
(* The CDI library keeps a copy of the specs in each program.  A call gets  *)
(* specs of it, changes them in place and writes them; when any file of the *)
(* directory is written, the library reads them all again, a little later,  *)
(* and has other specs from then on, perhaps between getting and writing.   *)
(* Faults of Gaudi's writes, and claims that are prepared again while their *)
(* device is still there, are in GaudiNodeState.  A program here may end    *)
(* between any two steps.                                                   *)
(***************************************************************************)
EXTENDS Naturals, SequencesExt

CONSTANTS
  Hosts,        \* the sets of programs that run on a node
  Devices,      \* kind -> names of its devices that may be there
  Installed,    \* set of programs -> the devices such a node may have
  Claims,       \* claims for Gaudi devices
  Old,          \* kinds that may have a file with the name of an older version
  WriteFaults,  \* writing or removing a GPU spec may fail
  MaxUpdates,   \* bound, per set of programs: driver changes and new GPUs
  MaxStops      \* bound: programs that end

AllPrograms == {"gpu", "qat", "gaudi", "generator"}
Kinds == {"gpu", "mei", "qat", "gaudi"}

ASSUME CdiAssumption ==
  /\ Hosts \subseteq SUBSET AllPrograms
  /\ \A h \in Hosts : "generator" \in h => h = {"generator"}   \* used without the plugins
  /\ DOMAIN Devices = Kinds
  /\ "none" \notin Devices["gpu"] \cup Claims
  /\ \A k \in Kinds : Devices[k] \cap Claims = {}   \* names of devices, UIDs of claims
  /\ Old \subseteq Kinds
  /\ WriteFaults \in BOOLEAN
  /\ \A h \in Hosts : Installed[h] \subseteq UNION {Devices[k] : k \in Kinds}
  /\ MaxUpdates \in [Hosts -> Nat] /\ MaxStops \in Nat

\* A file has the generated name of a kind, or the old name of it.  The library lists the
\* specs in the order of the names: intel.com-gaudi, intel.com-gpu, intel.com_gaudi, ...
Generated(k) == <<k, "generated">>
OldName(k) == <<k, "old">>
ByName == <<Generated("gaudi"), Generated("mei"), Generated("gpu"), Generated("qat"),
            OldName("gaudi"), OldName("mei"), OldName("gpu"), OldName("qat")>>
Names == {ByName[i] : i \in DOMAIN ByName}
Kind(n) == n[1]

Edits == {"node", "drm", "vfio", "blank", "twice"}   \* "twice": the device is there again
Absent == {<<>>}      \* there is no such file; an empty one is never written

VARIABLES
  programs,  \* those of this node
  dir,       \* name -> <<device, edits>> of the file
  readable,  \* files that users may read
  step,      \* program -> what it does next
  todo,      \* program -> kinds it has still to write
  view,      \* program -> the specs in memory, as dir
  stale,     \* programs whose library has not yet read what was written
  detected,  \* program -> kind -> devices discovered, at the start or later
  driver,    \* GPU -> its kernel driver: "drm", "vfio" or "none"
  device,    \* program -> the GPU whose entry is updated, the claim whose device is
  held,      \* program -> the specs that call got from the library
  shared,    \* programs whose call holds the specs the library still has
  failed,    \* GPUs whose last update failed
  blank,     \* claims with a blank device
  index,     \* claims Gaudi's library finds the blank device of
  overtaken, \* program -> what it added to specs the library had no more, until it is safe
  missed,    \* claims unprepared before the library saw their device come or go
  updates, stops

dirVars == <<dir, readable, stale>>
callVars == <<device, held, shared>>
gpuVars == <<driver, failed, updates>>
gaudiVars == <<blank, index, missed>>
vars == <<dirVars, step, todo, view, detected, callVars, gpuVars, gaudiVars, overtaken, stops,
          programs>>

GPUs == Devices["gpu"]
NoDevice == "none"
NoSpecs == [n \in Names |-> Absent]
Files(d, k) == {n \in Names : Kind(n) = k /\ d[n] # Absent}
FirstOf(d, S) == SelectInSeq(ByName, LAMBDA n : n \in S /\ d[n] # Absent)

\* A change of the directory: every library that runs will read it again.
Write(n, entries) ==
  /\ dir' = [dir EXCEPT ![n] = entries]
  /\ readable' = readable \ {n}
  /\ stale' = programs

Delete(S) ==
  /\ dir' = [n \in Names |-> IF n \in S THEN Absent ELSE dir[n]]
  /\ readable' = readable \ S
  /\ stale' = IF \E n \in S : dir[n] # Absent THEN programs ELSE stale

\* addDRMEdits and addVFIOEdits: what an entry must have.
EditsOf(k, d) ==
  IF k = "gpu" THEN IF driver[d] = "vfio" THEN "vfio" ELSE "drm"
               ELSE IF d \in Claims THEN "blank" ELSE "node"

\* The edits that specs of a kind have for a device.
EditsIn(s, k, d) == {e \in Edits : \E n \in Names : Kind(n) = k /\ <<d, e>> \in s[n]}
Describes(s, k, d) == EditsIn(s, k, d) = {EditsOf(k, d)}
Blanks(s) == {c \in Claims : EditsIn(s, "gaudi", c) # {}}

\* A call gets specs from the library; when it ends it has none.
Get(p, S) ==
  /\ held' = [held EXCEPT ![p] = [n \in Names |-> IF n \in S THEN view[p][n] ELSE Absent]]
  /\ shared' = IF S = {} THEN shared \ {p} ELSE shared \cup {p}

Release(p) == held' = [held EXCEPT ![p] = NoSpecs] /\ shared' = shared \ {p}

Leave(p) ==
  /\ step' = [step EXCEPT ![p] = "idle"]
  /\ device' = [device EXCEPT ![p] = NoDevice]
  /\ Release(p)

Holding(p) == step[p] \in {"drop", "add"}

\* What a call writes is also in the library's copy when that is what it got.
ViewAfter(p, specs) == IF p \in shared THEN [view EXCEPT ![p] = specs] ELSE view

\* The library's watcher.  The generator's does not watch (WithAutoRefresh(false)).  An
\* entry is safe when the directory has it and no call holds specs without it.
Refresh(p) ==
  /\ p \in stale /\ p # "generator" /\ step[p] # "stopped"
  /\ view' = [view EXCEPT ![p] = dir]
  /\ stale' = stale \ {p}
  /\ shared' = shared \ {p}
  /\ overtaken' = [overtaken EXCEPT ![p] =
       {d \in @ : ~Describes(dir, p, d) \/ (Holding(p) /\ ~Describes(held[p], p, d))}]
  /\ IF p = "gaudi"
       THEN /\ index' = Blanks(dir)
            /\ missed' = missed \cap (Blanks(dir) \cup Blanks(held[p]))
       ELSE UNCHANGED <<index, missed>>
  /\ UNCHANGED <<dir, readable, step, todo, detected, device, held, gpuVars, blank, stops,
                 programs>>

-----------------------------------------------------------------------------
(* Start: discovery, then AddDetectedDevicesToCDIRegistry                   *)

\* The kinds a program replaces; the generator those of its arguments, in any order.
KindLists(p) ==
  CASE p = "gpu"   -> {<<"gpu", "mei">>}
    [] p = "qat"   -> {<<"qat">>}
    [] p = "gaudi" -> {<<"gaudi">>}
    [] OTHER       -> {<<"gpu", "mei">>, <<"gaudi">>, <<"gpu", "mei", "gaudi">>,
                       <<"gaudi", "gpu", "mei">>}

\* Not every device is there from the start; those with an MEI device are GPUs.
Found ==
  LET some(k) == SUBSET (Devices[k] \cap Installed[programs]) IN
  {f \in [gpu: some("gpu"), mei: some("mei"), qat: some("qat"), gaudi: some("gaudi")] :
     f["mei"] # {} => f["gpu"] # {}}

Start(p) ==
  /\ step[p] = "stopped"
  /\ \E ks \in KindLists(p), f \in Found :
       /\ \A k \in Kinds \ Range(ks) : f[k] = {}
       /\ todo' = [todo EXCEPT ![p] = ks]
       /\ detected' = [detected EXCEPT ![p] = f]
  /\ step' = [step EXCEPT ![p] = "remove"]
  /\ view' = [view EXCEPT ![p] = dir]
  /\ stale' = stale \ {p}
  /\ index' = IF p = "gaudi" THEN Blanks(dir) ELSE index
  /\ UNCHANGED <<dir, readable, callVars, gpuVars, blank, missed, overtaken, stops, programs>>

Stop(p) ==
  /\ step' = [step EXCEPT ![p] = "stopped"]
  /\ todo' = [todo EXCEPT ![p] = <<>>]
  /\ view' = [view EXCEPT ![p] = NoSpecs]
  /\ detected' = [detected EXCEPT ![p] = [k \in Kinds |-> {}]]
  /\ device' = [device EXCEPT ![p] = NoDevice]
  /\ Release(p)
  /\ overtaken' = [overtaken EXCEPT ![p] = {}]
  /\ failed' = IF p = "gpu" THEN {} ELSE failed
  /\ IF p = "gaudi" THEN blank' = {} /\ index' = {} /\ missed' = {} ELSE UNCHANGED gaudiVars
  /\ stops' = stops + 1
  /\ UNCHANGED <<driver, updates, programs>>

Crash(p) ==
  /\ step[p] # "stopped" /\ stops < MaxStops
  /\ Stop(p)
  /\ UNCHANGED dirVars

\* Mutant: a GPU spec is also removed by its path.
RemovableByPath(p, k) == {}

\* Mutant: the specs are not selected by their kind.
RemovableOfVendor(p, k) == {n \in Names : view[p][n] # Absent}

\* Every old spec of the kind is removed: for GPUs by its name; for QAT and Gaudi by the
\* whole path, where there is no file, and RemoveSpec ignores that.
Removable(p, k) == IF k \in {"gpu", "mei"} THEN Files(view[p], k) ELSE {}

RemoveOld(p) ==
  /\ step[p] = "remove"
  /\ Delete(Removable(p, Head(todo[p])))
  /\ step' = [step EXCEPT ![p] = "write"]
  /\ UNCHANGED <<todo, view, detected, callVars, gpuVars, gaudiVars, overtaken, stops, programs>>

Entries(p, k) == {<<d, EditsOf(k, d)>> : d \in detected[p][k]}

NextKind(p) ==
  /\ todo' = [todo EXCEPT ![p] = Tail(@)]
  /\ step' = [step EXCEPT ![p] = IF Len(todo[p]) > 1 THEN "remove" ELSE "settle"]

\* writeSpec: an empty spec is not written, that of QAT and Gaudi is removed instead.
WriteNew(p) ==
  LET k == Head(todo[p]) IN
  /\ step[p] = "write"
  /\ \/ Entries(p, k) # {} /\ Write(Generated(k), Entries(p, k))
     \/ Entries(p, k) = {} /\ k \in {"gpu", "mei"} /\ UNCHANGED dirVars
     \/ Entries(p, k) = {} /\ k \in {"qat", "gaudi"} /\ Delete({Generated(k)})
  /\ NextKind(p)
  /\ UNCHANGED <<view, detected, callVars, gpuVars, gaudiVars, overtaken, stops, programs>>

\* An error ends newNodeState and the process.
StartFails(p) ==
  /\ WriteFaults
  /\ step[p] \in {"remove", "write"}
  /\ stops < MaxStops
  /\ Stop(p)
  /\ UNCHANGED dirVars

\* The plugins sleep 250 ms for the library to read the new files, which is taken to be
\* long enough ...
Ready(p) ==
  /\ step[p] = "settle" /\ p # "generator"
  /\ p \notin stale
  /\ step' = [step EXCEPT ![p] = "idle"]
  /\ UNCHANGED <<dirVars, todo, view, detected, callVars, gpuVars, gaudiVars, overtaken, stops,
                 programs>>

\* Mutant: the specs are not read again.
FilesSeen == {n \in Names : view["generator"][n] # Absent}

\* ... and the generator reads them, and lets everybody read all files of the vendor.
FilesFound == {n \in Names : dir[n] # Absent}

Finish ==
  /\ step["generator"] = "settle"
  /\ stops < MaxStops
  /\ readable' = readable \cup FilesFound
  /\ Stop("generator")
  /\ UNCHANGED <<dir, stale>>

-----------------------------------------------------------------------------
(* UpdateGPUDevices                                                         *)

Without(entries, d) == {e \in entries : e[1] # d}

\* A device that is there already is then there twice; such a spec is not written.
With(entries, d, edits) ==
  entries \cup {<<d, IF Without(entries, d) = entries THEN edits ELSE "twice">>}

Valid(entries) == \A e \in entries : e[2] # "twice"

\* RemoveDevices gets the GPU specs.
UpdateBegins(d) ==
  /\ step["gpu"] = "idle" /\ updates < MaxUpdates[programs]
  /\ device' = [device EXCEPT !["gpu"] = d]
  /\ Get("gpu", Files(view["gpu"], "gpu"))
  /\ step' = [step EXCEPT !["gpu"] = "drop"]
  /\ updates' = updates + 1
  /\ UNCHANGED <<dirVars, todo, view, failed, gaudiVars, overtaken, stops, programs>>

\* Prepare has changed the driver of a GPU.
Update(d) ==
  /\ d \in detected["gpu"]["gpu"]
  /\ \E to \in {"drm", "vfio"} \ {driver[d]} : driver' = [driver EXCEPT ![d] = to]
  /\ UpdateBegins(d)
  /\ UNCHANGED detected

\* RefreshDeviceOnDriverEvent has found a new one, perhaps without a driver.
Appear(d) ==
  /\ d \in Installed[programs] \ detected["gpu"]["gpu"]
  /\ detected' = [detected EXCEPT !["gpu"]["gpu"] = @ \cup {d}]
  /\ \E to \in {"drm", "vfio", "none"} : driver' = [driver EXCEPT ![d] = to]
  /\ UpdateBegins(d)

UpdateFails ==
  /\ Leave("gpu")
  /\ failed' = failed \cup {device["gpu"]}
  /\ UNCHANGED <<dir, readable, stale, overtaken>>

\* It takes the device out of them and writes the files.  It is not known here whether the
\* library writes a spec without devices.  A device without a driver is not added again.
Drop ==
  LET specs == Files(held["gpu"], "gpu")
      remaining == [n \in specs |-> Without(held["gpu"][n], device["gpu"])]
      dropped(d) == [n \in Names |-> IF n \in specs THEN remaining[n] ELSE d[n]]
  IN
  /\ step["gpu"] = "drop"
  /\ view' = ViewAfter("gpu", dropped(view["gpu"]))
  /\ \/ /\ \A n \in specs : Valid(remaining[n])
        /\ dir' = dropped(dir)
        /\ readable' = readable \ specs
        /\ stale' = IF specs # {} THEN programs ELSE stale
        /\ IF driver[device["gpu"]] = "none"
             THEN Leave("gpu")
             ELSE /\ step' = [step EXCEPT !["gpu"] = "fetch"]
                  /\ Release("gpu")
                  /\ UNCHANGED device
        /\ UNCHANGED <<failed, overtaken>>
     \/ /\ WriteFaults \/ \E n \in specs : remaining[n] = {} \/ ~Valid(remaining[n])
        /\ specs # {}
        /\ UpdateFails
  /\ UNCHANGED <<todo, detected, driver, updates, gaudiVars, stops, programs>>

\* AddGPUDevice gets the specs again, by now perhaps read from the directory before the
\* device was dropped there, ...
Fetch ==
  /\ step["gpu"] = "fetch"
  /\ Get("gpu", Files(view["gpu"], "gpu"))
  /\ step' = [step EXCEPT !["gpu"] = "add"]
  /\ UNCHANGED <<dirVars, todo, view, detected, device, gpuVars, gaudiVars, overtaken, stops,
                 programs>>

\* ... appends the device to the first, or to a new one, and writes it.
Add ==
  LET d == device["gpu"]
      n == FirstOf(held["gpu"], {x \in Names : Kind(x) = "gpu"})
      new == With(IF n = 0 THEN {} ELSE held["gpu"][ByName[n]], d, EditsOf("gpu", d))
  IN
  /\ step["gpu"] = "add"
  /\ view' = ViewAfter("gpu", [view["gpu"] EXCEPT ![ByName[n]] = new])
  /\ \/ /\ Valid(new)
        /\ Write(Generated("gpu"), new)
        /\ Leave("gpu")
        /\ failed' = failed \ {d}
        /\ overtaken' = [overtaken EXCEPT !["gpu"] =
                           IF "gpu" \in shared THEN @ \ {d} ELSE @ \cup {d}]
     \/ /\ WriteFaults \/ ~Valid(new)
        /\ UpdateFails
  /\ UNCHANGED <<todo, detected, driver, updates, gaudiVars, stops, programs>>

-----------------------------------------------------------------------------
(* Gaudi's blank devices, one per prepared claim                            *)

\* Mutant: the last spec is taken.
LastSpec(d) == SelectLastInSeq(ByName, LAMBDA n : d[n] # Absent)

\* vendorSpecs[0], whatever kind it has.
FirstSpec(d) == FirstOf(d, Names)

\* NewBlankDevice gets it, ...
NewBlankDevice(c) ==
  /\ step["gaudi"] = "idle"
  /\ c \notin blank \cup missed /\ detected["gaudi"]["gaudi"] # {}
  /\ FirstSpec(view["gaudi"]) # 0
  /\ Get("gaudi", {ByName[FirstSpec(view["gaudi"])]})
  /\ device' = [device EXCEPT !["gaudi"] = c]
  /\ step' = [step EXCEPT !["gaudi"] = "add"]
  /\ UNCHANGED <<dirVars, todo, view, detected, gpuVars, gaudiVars, overtaken, stops, programs>>

\* The spec that the call got has other entries now, and is written.
GaudiWrites(n, entries) ==
  /\ held["gaudi"][n] # Absent
  /\ view' = ViewAfter("gaudi", [view["gaudi"] EXCEPT ![n] = entries])
  /\ Write(n, entries)

\* ... appends the device and writes it.
AddBlank ==
  LET c == device["gaudi"] IN
  /\ step["gaudi"] = "add"
  /\ \E n \in Names : GaudiWrites(n, With(held["gaudi"][n], c, "blank"))
  /\ blank' = blank \cup {c}
  /\ overtaken' = IF "gaudi" \in shared THEN overtaken
                  ELSE [overtaken EXCEPT !["gaudi"] = @ \cup {c}]
  /\ Leave("gaudi")
  /\ UNCHANGED <<todo, detected, gpuVars, index, missed, stops, programs>>

\* DeleteBlankDevices looks for the device as one of the Gaudi kind.  The library knows those
\* it read, and has nothing to say of one that was added since.
DeleteBlankDevices(c) ==
  LET has == {n \in Names : Kind(n) = "gaudi" /\ <<c, "blank">> \in view["gaudi"][n]} IN
  /\ step["gaudi"] = "idle"
  /\ c \in blank
  /\ blank' = blank \ {c}
  /\ overtaken' = [overtaken EXCEPT !["gaudi"] = @ \ {c}]
  /\ IF c \in index
       THEN /\ Get("gaudi", has)
            /\ device' = [device EXCEPT !["gaudi"] = c]
            /\ step' = [step EXCEPT !["gaudi"] = "drop"]
            /\ UNCHANGED missed
       ELSE /\ missed' = missed \cup ({c} \cap (Blanks(dir) \cup Blanks(view["gaudi"])))
            /\ UNCHANGED <<callVars, step>>
  /\ UNCHANGED <<dirVars, todo, view, detected, gpuVars, index, stops, programs>>

\* It writes the others.
DropBlank ==
  LET c == device["gaudi"] IN
  /\ step["gaudi"] = "drop"
  /\ \E n \in Names : GaudiWrites(n, Without(held["gaudi"][n], c))
  /\ missed' = missed \cup ({c} \cap Blanks(view'["gaudi"]))
  /\ Leave("gaudi")
  /\ UNCHANGED <<todo, detected, gpuVars, blank, index, overtaken, stops, programs>>

-----------------------------------------------------------------------------
\* A file that an older version left has the devices with the edits they had then.
LeftBy(k) == {<<d, IF k = "gpu" THEN "vfio" ELSE "node">> : d \in Devices[k]}

Init ==
  /\ programs \in Hosts
  /\ \E ks \in SUBSET Old :
       dir = [n \in Names |-> IF n = OldName(Kind(n)) /\ Kind(n) \in ks
                                THEN LeftBy(Kind(n)) ELSE Absent]
  /\ readable = {} /\ stale = {}
  /\ step = [p \in AllPrograms |-> "stopped"]
  /\ todo = [p \in AllPrograms |-> <<>>]
  /\ view = [p \in AllPrograms |-> NoSpecs]
  /\ detected = [p \in AllPrograms |-> [k \in Kinds |-> {}]]
  /\ driver = [d \in GPUs |-> "drm"]
  /\ device = [p \in AllPrograms |-> NoDevice]
  /\ held = [p \in AllPrograms |-> NoSpecs] /\ shared = {}
  /\ overtaken = [p \in AllPrograms |-> {}]
  /\ failed = {} /\ blank = {} /\ index = {} /\ missed = {}
  /\ updates = 0 /\ stops = 0

Next ==
  \/ \E p \in programs :
       \/ Refresh(p) \/ Start(p) \/ Crash(p)
       \/ RemoveOld(p) \/ WriteNew(p) \/ StartFails(p) \/ Ready(p)
  \/ Finish
  \/ \E d \in GPUs : Update(d) \/ Appear(d)
  \/ Drop \/ Fetch \/ Add
  \/ \E c \in Claims : NewBlankDevice(c) \/ DeleteBlankDevices(c)
  \/ AddBlank \/ DropBlank

Spec == Init /\ [][Next]_vars

-----------------------------------------------------------------------------
(* Properties                                                               *)

EntriesOf(k) == {e \in (Devices[k] \cup Claims) \X Edits :
                   \E n \in Names : Kind(n) = k /\ e \in dir[n]}

Serving == {"idle", "drop", "fetch", "add"}

\* Every variable has its type (the directory: pkg/gpu/cdihelpers/cdihelpers.go:112).  A claim
\* whose device is deleted has it in the spec that was got.
TypeOK ==
  LET names == (UNION {Devices[k] : k \in Kinds}) \cup Claims
      specs == [Names -> (SUBSET (names \X Edits)) \cup {Absent}]
  IN
  /\ programs \in Hosts /\ dir \in specs
  /\ \A p \in AllPrograms : view[p] \in specs /\ held[p] \in specs
  /\ readable \subseteq Names /\ stale \subseteq programs
  /\ step \in [AllPrograms -> {"stopped", "remove", "write", "settle"} \cup Serving]
  /\ \A p \in AllPrograms : /\ Range(todo[p]) \subseteq Kinds
                            /\ todo[p] # <<>> <=> step[p] \in {"remove", "write"}
                            /\ device[p] # NoDevice <=> step[p] \in Serving \ {"idle"}
                            /\ p \in shared => Holding(p)
  /\ \A p \in AllPrograms, k \in Kinds : detected[p][k] \subseteq Devices[k]
  /\ driver \in [GPUs -> {"drm", "vfio", "none"}] /\ failed \subseteq GPUs
  /\ device["gpu"] \in GPUs \cup {NoDevice} /\ device["gaudi"] \in Claims \cup {NoDevice}
  /\ shared \subseteq AllPrograms
  /\ overtaken["gpu"] \subseteq GPUs /\ overtaken["gaudi"] \subseteq blank
  /\ blank \subseteq Claims /\ index \subseteq Claims /\ missed \subseteq Claims
  /\ step["gaudi"] = "drop" => device["gaudi"] \in Blanks(held["gaudi"])

OwnKinds(p) == CASE p = "gpu" -> {"gpu", "mei"} [] p = "qat" -> {"qat"} [] OTHER -> {"gaudi"}

\* Devices of which a program does not know what is in the directory.
Unsure(p, k) ==
  IF k # p THEN {}
  ELSE overtaken[p] \cup {device[p]} \cup (IF k = "gpu" THEN failed ELSE {})

\* While a plugin serves, each device it detected, when it started or later, is in one file,
\* once, with the edits of the driver it has now, or in none when it has no driver; unless
\* its update is going on or has failed, or the library read the directory while the update
\* wrote, and has not read it since.  And no device is there that it did not detect but the
\* blank devices of Gaudi, though those go to the first spec of the vendor.  Whatever older
\* files were there, whatever the other plugins write, wherever it was killed before
\* (pkg/gpu/cdihelpers/cdihelpers.go:103, 260 and 285, gaudi cdihelpers.go:156).
DevicesDescribed ==
  /\ TypeOK
  /\ \A p \in programs \ {"generator"} : step[p] \in Serving => \A k \in OwnKinds(p) :
    /\ \A d \in detected[p][k] \ Unsure(p, k) :
         /\ {e \in EntriesOf(k) : e[1] = d} \subseteq {<<d, EditsOf(k, d)>>}
         /\ ~(k = "gpu" /\ driver[d] = "none") => <<d, EditsOf(k, d)>> \in EntriesOf(k)
         /\ \A m, n \in Files(dir, k) :
              (\E e \in dir[m], f \in dir[n] : e[1] = d /\ f[1] = d) => m = n
    /\ \A e \in EntriesOf(k) :
         \/ e[1] \in detected[p][k]
         \/ k = "gaudi" /\ e[1] \in blank \cup missed \cup {device["gaudi"]}

\* A claim that is prepared keeps its blank device, whatever the other plugins write and
\* whatever is done for other claims; but not when the library read the directory while the
\* device was added, and has not read it since, or only when the next call had got the spec
\* already (cmd/kubelet-gaudi-plugin/node_state.go:153, gaudi cdihelpers.go:157).
BlankKept ==
  step["gaudi"] \in Serving =>
    {<<c, "blank">> : c \in blank \ overtaken["gaudi"]} \subseteq EntriesOf("gaudi")

\* When the generator is done everybody can read the entries of all devices it detected
\* (cmd/cdi-specs-generator/main.go:98).
GeneratedReadable ==
  [][Finish => \A k \in Kinds : \A d \in detected["generator"][k] :
       \E n \in readable' : Kind(n) = k /\ <<d, EditsOf(k, d)>> \in dir[n]]_vars
=============================================================================
