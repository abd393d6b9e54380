---------------------------- MODULE QatNodeState ----------------------------
(***************************************************************************)
(* The QAT kubelet plugin: the virtual functions (VFs) of each physical     *)
(* function (PF), which claim each VF is allocated to, and the claims       *)
(* prepared on this node with their checkpoint file.                        *)
(* (src/pkg/qat/device, src/cmd/kubelet-qat-plugin, src/pkg/helpers)       *)
(*                                                                         *)
(* kubelet's calls come one at a time and nothing else runs in the plugin,  *)
(* so between the steps of a call only a crash can come.  The checkpoint    *)
(* has the claims; AvailableDevices and AllocatedDevices are in memory only *)
(* and the plugin sets every PF up again when it starts.                    *)
(***************************************************************************)
EXTENDS Naturals, Sequences

CONSTANTS
  PFs, VFs,
  PFOf,          \* PFOf[v]: the PF that v is a VF of
  Claims,        \* UIDs of ResourceClaims allocated on this node
  NoClaim,
  Allocation,    \* Allocation[c]: the allocation results of claim c
  Configured,    \* PFs that the default configuration file gives services
  SysfsFaults,   \* reading or writing a PF or VF in sysfs may fail
  WriteFaults    \* writing the checkpoint may fail

\* `local` says that the result names this driver and this node's pool.
Result == [device: VFs, local: BOOLEAN]

\* helpers.ClaimPreparations: claim UID -> the devices in its PrepareResult.
ClaimPreparations == UNION {[S -> SUBSET VFs] : S \in SUBSET Claims}
NoPreparations == [c \in {} |-> {}]

ASSUME PFAssumption == PFOf \in [VFs -> PFs]
ASSUME ClaimAssumption == NoClaim \notin Claims /\ Allocation \in [Claims -> Seq(Result)]
ASSUME ConfiguredAssumption == Configured \subseteq PFs
ASSUME FaultsAssumption == {SysfsFaults, WriteFaults} \subseteq BOOLEAN

VARIABLES
  pfState,      \* PFDevice.State, as in sysfs
  allocatable,  \* keys of NodeState.Allocatable
  available,    \* AvailableDevices of all PFs
  allocated,    \* AllocatedDevices of all PFs: claim -> VFs
  prepared,     \* NodeState.Prepared
  checkpoint,   \* content of the prepared claims file
  torn,         \* the file was truncated and its content not yet written
  phase,        \* where the process is
  pending,      \* PFs that newDriver has still to set up
  claim,        \* the claim of the call in progress
  pos,          \* its next allocation result
  acc,          \* preparedDevices so far
  granted,      \* claims kubelet got a PrepareResult for and still uses
  recovered,    \* claims that were read from the checkpoint at the last start
  unsaved       \* claims whose Unprepare could not write the checkpoint

vfVars     == <<allocatable, available, allocated>>
claimVars  == <<prepared, checkpoint, torn>>
callVars   == <<claim, pos, acc>>
outVars    == <<granted, recovered, unsaved>>
vars == <<pfState, vfVars, claimVars, phase, pending, callVars, outVars>>

Starting == {"enabling", "configuring"}
Serving == {"idle", "devices", "saving", "removing"}
Phases == Starting \cup Serving \cup {"stopped", "panic"}

NoneAllocated == [c \in Claims |-> {}]
VFsOf(P) == {v \in VFs : PFOf[v] \in P}

Put(p, c, s) == [x \in DOMAIN p \cup {c} |-> IF x = c THEN s ELSE p[x]]
Delete(p, c) == [x \in DOMAIN p \ {c} |-> p[x]]

\* The process is gone, and all it kept in memory with it.
Stop ==
  /\ phase' = "stopped"
  /\ allocatable' = {} /\ available' = {} /\ allocated' = NoneAllocated
  /\ prepared' = NoPreparations
  /\ pending' = {}
  /\ claim' = NoClaim /\ pos' = 1 /\ acc' = {}
  /\ recovered' = {} /\ unsaved' = {}
  /\ UNCHANGED <<checkpoint, torn, granted>>

Crash == phase # "stopped" /\ Stop /\ UNCHANGED pfState

-----------------------------------------------------------------------------
(* newDriver                                                                *)

\* device.New finds the PFs; one that cannot be read is left out.  No VF is allocated.
Discover ==
  \E found \in IF SysfsFaults THEN SUBSET PFs ELSE {PFs} :
    /\ phase = "stopped"
    /\ allocatable' = VFsOf(found)
    /\ available' = VFsOf(found)
    /\ pending' = found
    /\ phase' = "enabling"
    /\ UNCHANGED <<pfState, allocated, claimVars, callVars, outVars>>

\* EnableVFs: the VFs are created and bound to vfio-pci, and the PF is brought up.
EnableVFs(p) ==
  /\ phase = "enabling"
  /\ p \in pending
  /\ pfState' = [pfState EXCEPT ![p] = "up"]
  /\ pending' = pending \ {p}
  /\ UNCHANGED <<vfVars, claimVars, phase, callVars, outVars>>

\* newDriver fails with the PF as it was.
EnableVFsFails ==
  /\ SysfsFaults
  /\ phase = "enabling"
  /\ pending # {}
  /\ Stop
  /\ UNCHANGED pfState

\* getDefaultConfiguration goes through the PFs of the configuration file.
BeginConfiguration ==
  /\ phase = "enabling"
  /\ pending = {}
  /\ phase' = "configuring"
  /\ pending' = {p \in Configured : VFsOf({p}) \subseteq allocatable}
  /\ UNCHANGED <<pfState, vfVars, claimVars, callVars, outVars>>

\* The guard of SetServices and down: the PF has no allocated VF.
NoVFsAllocated(p) == \A c \in Claims : allocated[c] \cap VFsOf({p}) = {}

\* SetServices takes the PF down before it writes the services.  Any failure is only
\* logged, and the configuration goes on with the next PF.
SetServicesDown(p) ==
  /\ phase = "configuring"
  /\ p \in pending
  /\ \A q \in pending : pfState[q] = "up"
  /\ \/ /\ NoVFsAllocated(p)
        /\ pfState' = [pfState EXCEPT ![p] = "down"]
        /\ pending' = pending
     \/ /\ SysfsFaults
        /\ pending' = pending \ {p}
        /\ pfState' = pfState
  /\ UNCHANGED <<vfVars, claimVars, phase, callVars, outVars>>

\* The services are written and EnableVFs brings the PF up again.  When the services
\* cannot be written EnableVFs is tried all the same; when it fails the PF stays down.
SetServicesUp(p) ==
  /\ phase = "configuring"
  /\ p \in pending
  /\ pfState[p] = "down"
  /\ \E left \in IF SysfsFaults THEN {"up", "down"} ELSE {"up"} :
       pfState' = [pfState EXCEPT ![p] = left]
  /\ pending' = pending \ {p}
  /\ UNCHANGED <<vfVars, claimVars, phase, callVars, outVars>>

\* newNodeState reads the checkpoint, and kubelet's calls are served from then on.
Ready ==
  /\ phase = "configuring"
  /\ pending = {}
  /\ IF torn THEN Stop
     ELSE /\ phase' = "idle"
          /\ prepared' = checkpoint
          /\ recovered' = DOMAIN checkpoint
          /\ UNCHANGED <<vfVars, checkpoint, torn, pending, callVars, granted, unsaved>>
  /\ UNCHANGED pfState

-----------------------------------------------------------------------------
(* Prepare                                                                  *)

\* The claim was prepared before: kubelet gets the same PrepareResult again.
PrepareAgain(c) ==
  /\ phase = "idle"
  /\ c \in DOMAIN prepared
  /\ granted' = granted \cup {c}
  /\ UNCHANGED <<pfState, vfVars, claimVars, phase, pending, callVars, recovered, unsaved>>

Enter(c) == phase' = "devices" /\ claim' = c /\ pos' = 1 /\ acc' = {}

Leave == phase' = "idle" /\ claim' = NoClaim /\ pos' = 1 /\ acc' = {}

PrepareBegin(c) ==
  /\ phase = "idle"
  /\ c \notin DOMAIN prepared
  /\ Enter(c)
  /\ UNCHANGED <<pfState, vfVars, claimVars, pending, outVars>>

AtResult == phase = "devices" /\ pos <= Len(Allocation[claim])
Current == Allocation[claim][pos]

\* A result of another driver or pool is ignored.
PrepareSkip ==
  /\ AtResult
  /\ ~Current.local
  /\ pos' = pos + 1
  /\ UNCHANGED <<pfState, vfVars, claimVars, phase, pending, claim, acc, outVars>>

\* Prepare returns at once: what it has allocated so far stays allocated to the claim.
PrepareMissing ==
  /\ AtResult
  /\ Current.local
  /\ Current.device \notin allocatable
  /\ Leave
  /\ UNCHANGED <<pfState, vfVars, claimVars, pending, outVars>>

\* Mutant: the VF stays available.
TakeAndKeep(v, c) ==
  /\ allocated' = [allocated EXCEPT ![c] = @ \cup {v}]
  /\ available' = available

\* PFDevice.Allocate
Take(v, c) ==
  /\ allocated' = [allocated EXCEPT ![c] = @ \cup {v}]
  /\ available' = available \ {v}

\* Mutant: the error path frees nothing.
GiveNothingBack(S, c) == UNCHANGED <<available, allocated>>

\* Mutant: whatever is freed for one claim is freed for all.
GiveBackAll(S, c) ==
  /\ available' = allocatable
  /\ allocated' = NoneAllocated

\* Free, for those VFs of S that are allocated to c.
GiveBack(S, c) ==
  /\ available' = available \cup (S \cap allocated[c])
  /\ allocated' = [allocated EXCEPT ![c] = @ \ S]

\* The VF is allocated to the claim already (by a call that failed), or is available.
PrepareAllocate ==
  LET v == Current.device IN
  /\ AtResult
  /\ Current.local
  /\ v \in allocatable
  /\ \/ v \in allocated[claim] /\ UNCHANGED <<available, allocated>>
     \/ v \in available /\ Take(v, claim)
  /\ acc' = acc \cup {v}
  /\ pos' = pos + 1
  /\ UNCHANGED <<pfState, allocatable, claimVars, phase, pending, claim, outVars>>

\* The VF is another claim's.  AllocateWithReconfiguration cannot help: no PF of the
\* plugin has AllowReconfiguration.  All VFs of this claim are freed.
PrepareConflict ==
  /\ AtResult
  /\ Current.local
  /\ Current.device \in allocatable \ (available \cup allocated[claim])
  /\ GiveBack(allocatable, claim)
  /\ Leave
  /\ UNCHANGED <<pfState, allocatable, claimVars, pending, outVars>>

\* The map is changed, then the file is truncated and written (os.WriteFile).
PrepareStore ==
  /\ phase = "devices"
  /\ pos > Len(Allocation[claim])
  /\ prepared' = Put(prepared, claim, acc)
  /\ \/ /\ torn' = TRUE
        /\ phase' = "saving"
        /\ UNCHANGED callVars
     \/ /\ WriteFaults      \* the file cannot be opened
        /\ torn' = torn
        /\ Leave
  /\ recovered' = recovered \ {claim}
  /\ unsaved' = unsaved \ {claim}
  /\ UNCHANGED <<pfState, vfVars, checkpoint, pending, granted>>

PrepareWrite ==
  /\ phase = "saving"
  /\ \/ /\ checkpoint' = prepared
        /\ torn' = FALSE
        /\ granted' = granted \cup {claim}
     \/ /\ WriteFaults      \* the file stays truncated
        /\ UNCHANGED <<checkpoint, torn, granted>>
  /\ Leave
  /\ UNCHANGED <<pfState, vfVars, prepared, pending, recovered, unsaved>>

-----------------------------------------------------------------------------
(* Unprepare                                                                *)

\* Nothing was prepared for the claim, and nothing is freed.
UnprepareNothing(c) ==
  /\ phase = "idle"
  /\ c \in DOMAIN prepared => prepared[c] = {}
  /\ granted' = granted \ {c}
  /\ UNCHANGED <<pfState, vfVars, claimVars, phase, pending, callVars, recovered, unsaved>>

\* helpers.NodeState.Unprepare for the claim's first device; for the other devices the
\* claim is unknown to it already.  When it fails no VF is freed.
Unprepare(c) ==
  /\ phase = "idle"
  /\ c \in DOMAIN prepared
  /\ prepared[c] # {}
  /\ granted' = granted \ {c}
  /\ \/ /\ prepared' = Delete(prepared, c)
        /\ torn' = TRUE
        /\ phase' = "removing"
        /\ claim' = c
        /\ acc' = prepared[c]
        /\ UNCHANGED unsaved
     \/ /\ WriteFaults
        /\ prepared' = Delete(prepared, c)
        /\ unsaved' = unsaved \cup {c}
        /\ UNCHANGED <<torn, phase, claim, acc>>
  /\ UNCHANGED <<pfState, vfVars, checkpoint, pending, pos, recovered>>

\* Every device is freed; one that the claim does not hold (it was allocated before the
\* plugin started) is only logged.  A device that is not allocatable any more is a nil
\* pointer: the plugin panics.
UnprepareWrite ==
  /\ phase = "removing"
  /\ \/ /\ checkpoint' = prepared
        /\ torn' = FALSE
        /\ IF acc \subseteq allocatable
             THEN /\ GiveBack(acc, claim)
                  /\ Leave
                  /\ UNCHANGED <<pfState, allocatable, prepared, pending, outVars>>
             ELSE /\ phase' = "panic"
                  /\ UNCHANGED <<pfState, vfVars, prepared, pending, callVars, outVars>>
     \/ /\ WriteFaults
        /\ unsaved' = unsaved \cup {claim}
        /\ Leave
        /\ UNCHANGED <<pfState, vfVars, claimVars, pending, granted, recovered>>

-----------------------------------------------------------------------------
Init ==
  /\ pfState = [p \in PFs |-> "down"]
  /\ allocatable = {} /\ available = {} /\ allocated = NoneAllocated
  /\ prepared = NoPreparations /\ checkpoint = NoPreparations /\ torn = FALSE
  /\ phase = "stopped" /\ pending = {}
  /\ claim = NoClaim /\ pos = 1 /\ acc = {}
  /\ granted = {} /\ recovered = {} /\ unsaved = {}

Start ==
  \/ Discover \/ EnableVFsFails \/ BeginConfiguration \/ Ready
  \/ \E p \in PFs : EnableVFs(p) \/ SetServicesDown(p) \/ SetServicesUp(p)

Prepare ==
  \/ \E c \in Claims : PrepareAgain(c) \/ PrepareBegin(c)
  \/ PrepareSkip \/ PrepareMissing \/ PrepareAllocate \/ PrepareConflict
  \/ PrepareStore \/ PrepareWrite

Next ==
  \/ Crash
  \/ Start
  \/ Prepare
  \/ \E c \in Claims : UnprepareNothing(c) \/ Unprepare(c)
  \/ UnprepareWrite

Spec == Init /\ [][Next]_vars

-----------------------------------------------------------------------------
(* Properties                                                               *)

Named(c) == {Allocation[c][i].device : i \in {j \in 1..Len(Allocation[c]) : Allocation[c][j].local}}

\* Every variable has its type (PFDevice, device.go:154; NodeState,
\* pkg/helpers/node_state.go:33).
TypeOK ==
  /\ pfState \in [PFs -> {"up", "down"}]
  /\ allocatable \subseteq VFs /\ available \subseteq VFs
  /\ allocated \in [Claims -> SUBSET VFs]
  /\ prepared \in ClaimPreparations /\ checkpoint \in ClaimPreparations
  /\ torn \in BOOLEAN
  /\ phase \in Phases
  /\ pending \subseteq PFs
  /\ claim \in Claims \cup {NoClaim}
  /\ phase \in {"devices", "saving", "removing"} => claim \in Claims
  /\ pos \in Nat \ {0}
  /\ acc \subseteq VFs
  /\ granted \subseteq Claims /\ recovered \subseteq Claims /\ unsaved \subseteq Claims

Partition ==
  /\ available \cup UNION {allocated[c] : c \in Claims} = allocatable
  /\ \A c \in Claims : allocated[c] \cap available = {}
  /\ \A c1, c2 \in Claims : c1 # c2 => allocated[c1] \cap allocated[c2] = {}

\* A claim that this process prepared holds its VFs until it is unprepared, and all those
\* it names when kubelet was granted it: nobody else's failing Prepare or Unprepare frees
\* them (node_state.go:114, device.go:569).
HeldWhilePrepared ==
  phase \in Serving => \A c \in DOMAIN prepared \ recovered :
    /\ prepared[c] \subseteq allocated[c]
    /\ c \in granted => prepared[c] = Named(c)

\* Whatever failed, every VF the plugin knows is either available or allocated to one
\* claim (device.go:161), and between calls only prepared claims hold VFs.  A claim whose
\* Unprepare could not save the checkpoint (node_state.go:175) and one that names a device
\* the plugin does not have (node_state.go:110) keep theirs until the plugin restarts.
NoLeak ==
  /\ TypeOK /\ Partition
  /\ phase = "idle" =>
    \A c \in Claims : allocated[c] # {} =>
      c \in DOMAIN prepared \cup unsaved \/ ~(Named(c) \subseteq allocatable)

Holder == [v \in VFs |-> IF \E c \in Claims : v \in allocated[c]
                           THEN CHOOSE c \in Claims : v \in allocated[c]
                           ELSE NoClaim]

Pool == INSTANCE VfPool WITH
          Requesters <- Claims, Nobody <- NoClaim,
          serving <- phase # "stopped", holder <- Holder, config <- pfState

\* Claims, their roll-back and the configuration of the PFs at the start keep what VfPool
\* promises for the VFs of all PFs (node_state.go:75 and 167, config.go:56).
ImplementsPool == Pool!PoolSpec
=============================================================================
