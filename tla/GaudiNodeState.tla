--------------------------- MODULE GaudiNodeState ---------------------------
(***************************************************************************)
(* The Gaudi kubelet plugin: the claims prepared on this node, their        *)
(* checkpoint file, and the "blank" CDI device each of them needs: a device *)
(* named after the claim that has the environment for the Habana runtime.   *)
(* (src/cmd/kubelet-gaudi-plugin, src/pkg/gaudi/cdihelpers,                 *)
(* src/pkg/helpers)                                                        *)
(*                                                                         *)
(* The CDI library has the spec in memory.  The plugin gets it, changes it  *)
(* in place and writes it.  The library's watcher reads the file again when *)
(* any file of its directory was written, those of other programs included, *)
(* and has another spec from then on.  kubelet's calls come one at a time;  *)
(* between the steps of a call, also between getting the spec and writing   *)
(* it, the watcher or a crash may come.                                     *)
(***************************************************************************)
EXTENDS Naturals

CONSTANTS
  Claims,        \* UIDs of ResourceClaims allocated on this node
  NoClaim,
  OwnClaims,     \* claims with a device of this driver and node
  WriteFaults,   \* writing the checkpoint may fail
  CdiFaults      \* writing a CDI spec may fail

ASSUME ClaimAssumption == NoClaim \notin Claims /\ OwnClaims \subseteq Claims
ASSUME FaultsAssumption == {WriteFaults, CdiFaults} \subseteq BOOLEAN

VARIABLES
  file,        \* claims with a blank device in the CDI spec file
  spec,        \* the library's: how often it has each of them, 2 stands for more than once
  index,       \* claims the library finds the blank device of
  held,        \* the spec the call in progress got from the library
  shared,      \* that is still the one the library has
  prepared,    \* keys of NodeState.Prepared
  checkpoint,  \* keys in the prepared claims file
  torn,        \* the file was truncated and its content not yet written
  phase,       \* where the process is
  claim,       \* the claim of the call in progress
  granted,     \* claims kubelet got a PrepareResult for and still uses
  recovered,   \* claims that were read from the checkpoint at the last start
  failed,      \* claims whose last call returned an error
  unrecorded,  \* claims whose Prepare could not write the checkpoint
  overtaken,   \* prepared claims the library did not have when they were written
  missed       \* claims that were unprepared before the library saw their device come or go

cdiVars   == <<file, spec, index, held, shared>>
claimVars == <<prepared, checkpoint, torn>>
callVars  == <<phase, claim>>
outVars   == <<granted, recovered, failed, unrecorded, overtaken, missed>>
vars == <<cdiVars, claimVars, callVars, outVars>>

Holding == phase \in {"adding", "filtering"}
Phases == {"stopped", "idle", "adding", "storing", "saving", "removing", "deleting",
           "filtering", "panic"}

-----------------------------------------------------------------------------
(* The CDI library                                                          *)

\* A spec counts the devices of each claim; one without a name is a device of NoClaim.
Owners == Claims \cup {NoClaim}
NoSpec == [c \in Owners |-> 0]

Get     == held' = spec /\ shared' = TRUE
Release == held' = NoSpec /\ shared' = FALSE

\* Its watcher reads the files again: the library has a new spec, a call that got the old
\* one goes on with that.  A claim is safe again when both have it.
Refresh ==
  /\ phase \notin {"stopped", "panic"}
  /\ spec' = [c \in Owners |-> IF c \in file THEN 1 ELSE 0]
  /\ index' = file
  /\ shared' = FALSE
  /\ overtaken' = {c \in overtaken : c \notin file \/ (Holding /\ held[c] # 1)}
  /\ missed' = {c \in missed : c \in file \/ (Holding /\ held[c] > 0)}
  /\ UNCHANGED <<file, held, claimVars, callVars, granted, recovered, failed, unrecorded>>

\* A spec with two devices of one name, or one without a name, is not written.
Valid(s) == s[NoClaim] = 0 /\ \A c \in Claims : s[c] <= 1

\* writeSpec, after the spec that was got is changed to s.
WriteSpec(s, ok) ==
  /\ spec' = IF shared THEN s ELSE spec
  /\ ok => Valid(s)
  /\ ~ok => CdiFaults \/ ~Valid(s)
  /\ file' = IF ok THEN {c \in Claims : s[c] = 1} ELSE file
  /\ Release
  /\ UNCHANGED index

\* Mutant: the blank device goes to a new spec.
NewSpecForBlankDevice(c, ok) == WriteSpec([NoSpec EXCEPT ![c] = 1], ok)

\* NewBlankDevice appends to the spec.  cdiHabanaEnvVar looks first for a device it could
\* overwrite, but by a name that is not qualified: it never finds one.
NewBlankDevice(c, ok) == WriteSpec([held EXCEPT ![c] = IF @ = 0 THEN 1 ELSE 2], ok)

\* DeleteBlankDevices copies the other devices to a list that has one place less; when
\* the claim was there more than once a place is left over.
DeleteBlankDevice(c, ok) ==
  WriteSpec([held EXCEPT ![c] = 0, ![NoClaim] = IF held[c] = 2 THEN 1 ELSE @], ok)

-----------------------------------------------------------------------------
(* The process                                                              *)

Stop ==
  /\ phase' = "stopped" /\ claim' = NoClaim
  /\ spec' = NoSpec /\ index' = {} /\ Release
  /\ prepared' = {} /\ recovered' = {} /\ overtaken' = {}
  /\ UNCHANGED <<checkpoint, torn, granted>>

Crash ==
  /\ phase # "stopped"
  /\ Stop
  /\ UNCHANGED <<file, failed, unrecorded, missed>>

\* newNodeState overwrites the Gaudi spec with one of the devices it detected, waits for the
\* CDI library to read it, and reads the checkpoint.  Nothing changes when that write fails
\* (CdiRegistry has its steps, and the specs of the other plugins).
Start ==
  /\ phase = "stopped"
  /\ file' = {} /\ missed' = {}
  /\ IF torn THEN Stop
     ELSE /\ phase' = "idle"
          /\ prepared' = checkpoint /\ recovered' = checkpoint
          /\ UNCHANGED <<spec, index, held, shared, checkpoint, torn, claim, granted, overtaken>>
  /\ UNCHANGED <<failed, unrecorded>>

Leave == phase' = "idle" /\ claim' = NoClaim

-----------------------------------------------------------------------------
(* PrepareResourceClaims, for one claim                                     *)

\* The claim was prepared before: kubelet gets the same PrepareResult again.
PrepareAgain(c) ==
  /\ phase = "idle"
  /\ c \in prepared
  /\ granted' = granted \cup {c}
  /\ failed' = failed \ {c}
  /\ UNCHANGED <<cdiVars, claimVars, callVars, recovered, unrecorded, overtaken, missed>>

\* prepareAllocatedDevices: a claim with devices of this driver gets a blank device, ...
Prepare(c) ==
  /\ phase = "idle"
  /\ c \notin prepared
  /\ claim' = c
  /\ IF c \in OwnClaims THEN phase' = "adding" /\ Get
     ELSE phase' = "storing" /\ UNCHANGED <<held, shared>>
  /\ UNCHANGED <<file, spec, index, claimVars, outVars>>

\* ... in the spec that the library has, or had.
PrepareAdd ==
  /\ phase = "adding"
  /\ \E ok \in BOOLEAN :
       /\ NewBlankDevice(claim, ok)
       /\ IF ok THEN phase' = "storing" /\ UNCHANGED <<claim, failed>>
          ELSE Leave /\ failed' = failed \cup {claim}
       /\ overtaken' = IF ok /\ ~shared THEN overtaken \cup {claim} ELSE overtaken
  /\ UNCHANGED <<claimVars, granted, recovered, unrecorded, missed>>

\* Mutant: the map is written before the claim is put into it.
PreparedBefore == prepared \ {claim}

Encoded == prepared

\* The map is changed, and the file truncated ...
PrepareStore ==
  /\ phase = "storing"
  /\ prepared' = prepared \cup {claim}
  /\ missed' = missed \ {claim}
  /\ \/ /\ torn' = TRUE /\ phase' = "saving" /\ UNCHANGED <<claim, failed, unrecorded>>
     \/ /\ WriteFaults
        /\ torn' = torn
        /\ failed' = failed \cup {claim} /\ unrecorded' = unrecorded \cup {claim}
        /\ Leave
  /\ UNCHANGED <<cdiVars, checkpoint, granted, recovered, overtaken>>

\* ... and written.
PrepareWrite ==
  /\ phase = "saving"
  /\ \/ /\ checkpoint' = Encoded /\ torn' = FALSE
        /\ granted' = granted \cup {claim}
        /\ failed' = failed \ {claim} /\ unrecorded' = unrecorded \ Encoded
     \/ /\ WriteFaults
        /\ failed' = failed \cup {claim} /\ unrecorded' = unrecorded \cup {claim}
        /\ UNCHANGED <<checkpoint, torn, granted>>
  /\ Leave
  /\ UNCHANGED <<cdiVars, prepared, recovered, overtaken, missed>>

-----------------------------------------------------------------------------
(* UnprepareResourceClaims, for one claim                                   *)

Unprepare(c) ==
  /\ phase = "idle"
  /\ c \in prepared
  /\ granted' = granted \ {c}
  /\ prepared' = prepared \ {c}
  /\ recovered' = recovered \ {c} /\ overtaken' = overtaken \ {c}
  /\ \/ torn' = TRUE /\ phase' = "removing" /\ claim' = c /\ UNCHANGED failed
     \/ WriteFaults /\ failed' = failed \cup {c} /\ UNCHANGED <<torn, callVars>>
  /\ UNCHANGED <<cdiVars, checkpoint, unrecorded, missed>>

UnprepareWrite ==
  /\ phase = "removing"
  /\ \/ /\ checkpoint' = prepared /\ torn' = FALSE
        /\ unrecorded' = unrecorded \ (prepared \cup {claim})
        /\ phase' = "deleting"
        /\ UNCHANGED <<claim, failed>>
     \/ /\ WriteFaults
        /\ failed' = failed \cup {claim}
        /\ Leave
        /\ UNCHANGED <<checkpoint, torn, unrecorded>>
  /\ UNCHANGED <<cdiVars, prepared, granted, recovered, overtaken, missed>>

\* Mutant: nothing is cleaned up for a claim that is not prepared.
NothingToUnprepare(c) == phase' = "idle" /\ claim' = NoClaim

\* A claim that is not prepared has its blank device deleted all the same.
AlreadyUnprepared(c) == phase' = "deleting" /\ claim' = c

UnprepareUnknown(c) ==
  /\ phase = "idle"
  /\ c \notin prepared
  /\ granted' = granted \ {c}
  /\ failed' = failed \ {c}
  /\ AlreadyUnprepared(c)
  /\ UNCHANGED <<cdiVars, claimVars, recovered, unrecorded, overtaken, missed>>

\* DeleteBlankDevices: when the library does not find the device there is nothing to do.
UnprepareDelete ==
  /\ phase = "deleting"
  /\ IF claim \in index THEN phase' = "filtering" /\ Get /\ UNCHANGED <<claim, failed, missed>>
     ELSE /\ Leave
          /\ failed' = failed \ {claim}
          /\ missed' = IF claim \in file \/ spec[claim] > 0 THEN missed \cup {claim} ELSE missed
          /\ UNCHANGED <<held, shared>>
  /\ UNCHANGED <<file, spec, index, claimVars, granted, recovered, unrecorded, overtaken>>

\* When it does, but its spec has the device no more (it was deleted already, and the
\* library has not noticed or the write failed), the list of the others is one too short.
UnprepareFilter ==
  /\ phase = "filtering"
  /\ IF held[claim] = 0
       THEN /\ phase' = "panic"
            /\ failed' = failed \cup {claim}
            /\ Release
            /\ UNCHANGED <<file, spec, index, claim, missed>>
       ELSE \E ok \in BOOLEAN :
            /\ DeleteBlankDevice(claim, ok)
            /\ failed' = IF ok THEN failed \ {claim} ELSE failed \cup {claim}
            /\ missed' = IF ok /\ ~shared /\ spec[claim] > 0 THEN missed \cup {claim} ELSE missed
            /\ Leave
  /\ UNCHANGED <<claimVars, granted, recovered, unrecorded, overtaken>>

-----------------------------------------------------------------------------
Init ==
  /\ file = {} /\ spec = NoSpec /\ index = {} /\ held = NoSpec /\ shared = FALSE
  /\ prepared = {} /\ checkpoint = {} /\ torn = FALSE
  /\ phase = "stopped" /\ claim = NoClaim
  /\ granted = {} /\ recovered = {} /\ failed = {} /\ unrecorded = {}
  /\ overtaken = {} /\ missed = {}

Next ==
  \/ Refresh
  \/ Crash \/ Start
  \/ \E c \in Claims : PrepareAgain(c) \/ Prepare(c)
  \/ PrepareAdd \/ PrepareStore \/ PrepareWrite
  \/ \E c \in Claims : Unprepare(c) \/ UnprepareUnknown(c)
  \/ UnprepareWrite \/ UnprepareDelete \/ UnprepareFilter

Spec == Init /\ [][Next]_vars

-----------------------------------------------------------------------------
(* Properties                                                               *)

Running == phase \notin {"stopped", "panic"}

\* Every variable has its type (NodeState, pkg/helpers/node_state.go:33).
TypeOK ==
  /\ file \subseteq Claims /\ index \subseteq Claims
  /\ spec \in [Owners -> 0..2] /\ held \in [Owners -> 0..2] /\ shared \in BOOLEAN
  /\ prepared \subseteq Claims /\ checkpoint \subseteq Claims /\ torn \in BOOLEAN
  /\ phase \in Phases
  /\ claim \in IF phase \in {"stopped", "idle"} THEN {NoClaim} ELSE Claims
  /\ \A S \in {granted, recovered, failed, unrecorded, overtaken, missed} : S \subseteq Claims

\* A claim that this process prepared has its blank device in the spec file until it is
\* unprepared, whatever is done for other claims and whatever fails; but not when the
\* library read the file while its device was added, and has not read it since, or only
\* when the next call had got the spec already (node_state.go:153, cdihelpers.go:157).
BlankWhilePrepared ==
  Running => ((prepared \ recovered) \cap OwnClaims) \ overtaken \subseteq file

\* Between calls the spec file has blank devices only of claims that are prepared or whose
\* last call failed, so that kubelet calls again; also of claims that were unprepared
\* before the library saw their device, or while it read it (driver.go:188, cdihelpers.go:195).
NoBlankLeft ==
  phase = "idle" => file \subseteq prepared \cup failed \cup missed

\* Both together: the blank devices of the spec file are those of the prepared claims.
BlanksMatch == TypeOK /\ BlankWhilePrepared /\ NoBlankLeft

\* What kubelet was granted is in the checkpoint, unless writing it failed and kubelet was
\* answered from memory when it tried again (driver.go:163, node_state.go:203).
GrantedRecorded == granted \subseteq checkpoint \cup unrecorded
=============================================================================
