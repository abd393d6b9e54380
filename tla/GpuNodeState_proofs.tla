------------------------ MODULE GpuNodeState_proofs ------------------------
(***************************************************************************)
(* Proofs about GpuNodeState, for any devices, claims and allocations and  *)
(* any setting of the plugin's flags.                                      *)
(***************************************************************************)
EXTENDS GpuNodeState, TLAPS

-----------------------------------------------------------------------------
(* The maps of prepared claims                                              *)

LEMMA NoPreparationsType == NoPreparations \in ClaimPreparations
BY DEF NoPreparations, ClaimPreparations

LEMMA PreparationsType ==
  ASSUME NEW p \in ClaimPreparations
  PROVE  /\ DOMAIN p \subseteq Claims
         /\ \A c \in DOMAIN p : p[c] \subseteq PreparedDevice
BY DEF ClaimPreparations

LEMMA PutType ==
  ASSUME NEW p \in ClaimPreparations, NEW c \in Claims, NEW s \in SUBSET PreparedDevice
  PROVE  Put(p, c, s) \in ClaimPreparations
<1>1. DOMAIN p \cup {c} \in SUBSET Claims
  BY PreparationsType
<1>2. Put(p, c, s) \in [DOMAIN p \cup {c} -> SUBSET PreparedDevice]
  BY PreparationsType DEF Put
<1>3. QED
  BY <1>1, <1>2 DEF ClaimPreparations

LEMMA DeleteType ==
  ASSUME NEW p \in ClaimPreparations, NEW c
  PROVE  Delete(p, c) \in ClaimPreparations
<1>1. DOMAIN p \ {c} \in SUBSET Claims
  BY PreparationsType
<1>2. Delete(p, c) \in [DOMAIN p \ {c} -> SUBSET PreparedDevice]
  BY PreparationsType DEF Delete
<1>3. QED
  BY <1>1, <1>2 DEF ClaimPreparations

LEMMA AllocationType ==
  ASSUME NEW c \in Claims
  PROVE  /\ Len(Allocation[c]) \in Nat
         /\ \A i \in Nat \ {0} : i <= Len(Allocation[c]) => Allocation[c][i] \in Result
BY AllocationAssumption

-----------------------------------------------------------------------------
(* Type correctness                                                         *)

LEMMA InitType == Init => TypeOK
<1> SUFFICES ASSUME Init PROVE TypeOK
  OBVIOUS
<1>1. prepared \in ClaimPreparations /\ checkpoint \in ClaimPreparations
  BY NoPreparationsType DEF Init
<1>2. /\ currentDriver \in [Devices -> Drivers \cup {"unbound"}]
      /\ cdiEdits \in [Devices -> {"none", "fresh", "stale"}]
      /\ sysfsDriver \in [Devices -> SysfsStates]
  BY DEF Init, SysfsStates, Drivers
<1>3. events \in Seq(Event)
  BY DEF Init
<1>4. phase = "idle" /\ phase \in Phases /\ claim = NoClaim /\ pos \in Nat \ {0}
  BY DEF Init, Phases
<1>5. /\ running \in BOOLEAN /\ torn \in BOOLEAN
      /\ watching \in BOOLEAN /\ needPublish \in BOOLEAN
  BY DEF Init
<1>6. /\ allocatable = {} /\ absentTaint = {} /\ driverTaint = {} /\ unseen = {}
      /\ unpublished = {} /\ acc = {} /\ granted = {}
  BY DEF Init
<1>7. QED
  BY <1>1, <1>2, <1>3, <1>4, <1>5, <1>6 DEF TypeOK

\* The result Prepare's loop is at.
LEMMA CurrentType ==
  ASSUME TypeOK, phase # "idle", pos <= Len(Allocation[claim])
  PROVE  Current \in Result
BY AllocationType DEF TypeOK, Current

LEMMA SysfsChangeType ==
  ASSUME TypeOK, NEW d \in Devices, NEW drv \in SysfsStates, SysfsChange(d, drv)
  PROVE  /\ sysfsDriver' \in [Devices -> SysfsStates]
         /\ cdiEdits' \in [Devices -> {"none", "fresh", "stale"}]
         /\ events' \in Seq(Event)
<1>1. [device |-> d, driver |-> IF drv \in Drivers THEN drv ELSE "unbound"] \in Event
  BY DEF Event
<1>2. events' \in Seq(Event)
  BY <1>1 DEF TypeOK, SysfsChange
<1>3. QED
  BY <1>2 DEF TypeOK, SysfsChange

LEMMA CallType ==
  ASSUME TypeOK,
         \/ \E c \in Claims : PrepareAgain(c) \/ PrepareBegin(c) \/ UnprepareUnknown(c)
         \/ PrepareSkip \/ PrepareReject \/ PrepareUnbindFails \/ BindFails
         \/ Return
  PROVE  TypeOK'
<1> USE DEF TypeOK, Phases, Locked, claimVars, deviceVars, kernelVars, callVars, outVars
<1>1. ASSUME NEW c \in Claims, PrepareAgain(c) PROVE TypeOK'
  BY <1>1 DEF PrepareAgain
<1>2. ASSUME NEW c \in Claims, PrepareBegin(c) PROVE TypeOK'
  <2>1. needPublish' \in BOOLEAN
    BY <1>2 DEF PrepareBegin
  <2>2. pos' \in Nat \ {0} /\ acc' = {} /\ claim' = c /\ phase' = "devices"
    BY <1>2 DEF PrepareBegin, Enter
  <2>3. QED
    BY <1>2, <2>1, <2>2 DEF PrepareBegin
<1>3. ASSUME NEW c \in Claims, UnprepareUnknown(c) PROVE TypeOK'
  BY <1>3 DEF UnprepareUnknown
<1>4. CASE PrepareSkip
  BY <1>4 DEF PrepareSkip, AtResult
<1>5. CASE PrepareReject
  BY <1>5 DEF PrepareReject, AtResult
<1>6. CASE PrepareUnbindFails
  BY <1>6 DEF PrepareUnbindFails, AtOwnResult, AtResult
<1>7. CASE BindFails
  BY <1>7 DEF BindFails
<1>8. CASE Return
  <2>1. needPublish' \in BOOLEAN
    BY <1>8 DEF Return
  <2>2. pos' \in Nat \ {0} /\ acc' = {} /\ claim' = NoClaim /\ phase' = "idle"
    BY <1>8 DEF Return
  <2>3. unpublished' \subseteq Devices /\ granted' \subseteq Claims
    BY <1>8 DEF Return
  <2>4. UNCHANGED <<running, claimVars, deviceVars, kernelVars>>
    BY <1>8 DEF Return
  <2>5. QED
    BY <2>1, <2>2, <2>3, <2>4
<1>9. QED
  BY <1>1, <1>2, <1>3, <1>4, <1>5, <1>6, <1>7, <1>8

LEMMA PreparedType ==
  ASSUME TypeOK, NEW r \in Result, Prepared(r)
  PROVE  acc' \subseteq PreparedDevice /\ pos' \in Nat \ {0} /\ phase' = "devices"
BY DEF Prepared, TypeOK, Result, PreparedDevice

LEMMA RebindType ==
  ASSUME TypeOK, PrepareBound \/ Unbind \/ Bind
  PROVE  TypeOK'
<1> USE DEF Phases, Locked, claimVars, deviceVars, kernelVars, callVars, outVars
<1>1. Current \in Result /\ Current.device \in Devices
  BY CurrentType DEF PrepareBound, Unbind, Bind, AtOwnResult, AtResult, TypeOK, Result
<1>2. CASE PrepareBound
  <2>1. Prepared(Current)
    BY <1>2 DEF PrepareBound
  <2>2. acc' \subseteq PreparedDevice /\ pos' \in Nat \ {0} /\ phase' = "devices"
    BY <1>1, <2>1, PreparedType
  <2>3. QED
    BY <1>2, <2>2 DEF PrepareBound, AtOwnResult, AtResult, TypeOK
<1>3. CASE Unbind
  <2>1. /\ sysfsDriver' \in [Devices -> SysfsStates]
        /\ cdiEdits' \in [Devices -> {"none", "fresh", "stale"}]
        /\ events' \in Seq(Event)
        /\ unseen' \subseteq Devices
        /\ watching' \in BOOLEAN
    BY <1>1, <1>3, SysfsChangeType DEF Unbind, TypeOK, SysfsStates
  <2>2. QED
    BY <1>3, <2>1 DEF Unbind, TypeOK, AtOwnResult, AtResult
<1>4. CASE Bind
  <2>1. TargetDriver(Current) \in Drivers
    BY DEF TargetDriver, Drivers
  <2>2. /\ sysfsDriver' \in [Devices -> SysfsStates]
        /\ currentDriver' \in [Devices -> Drivers \cup {"unbound"}]
        /\ cdiEdits' \in [Devices -> {"none", "fresh", "stale"}]
    BY <1>1, <1>4, <2>1 DEF Bind, TypeOK, SysfsStates, SetCurrentDriver, UpdateGPUDevices
  <2>3. events' \in Seq(Event)
    <3>1. [device |-> Current.device, driver |-> TargetDriver(Current)] \in Event
      BY <1>1, <2>1 DEF Event
    <3>2. QED
      BY <1>4, <3>1 DEF Bind, TypeOK
  <2>4. /\ acc' \subseteq PreparedDevice
        /\ pos' \in Nat \ {0}
        /\ phase' \in {"devices", "returning"}
    BY <1>1, <1>4, PreparedType DEF Bind, TypeOK
  <2>5. unseen' \subseteq Devices /\ unpublished' \subseteq Devices
    BY <1>1, <1>4 DEF Bind, TypeOK
  <2>6. QED
    BY <1>4, <2>2, <2>3, <2>4, <2>5 DEF Bind, TypeOK
<1>5. QED
  BY <1>2, <1>3, <1>4

LEMMA StoreType ==
  ASSUME TypeOK, PrepareStore \/ (\E ok \in BOOLEAN : Write(ok))
                 \/ (\E c \in Claims : Unprepare(c))
  PROVE  TypeOK'
<1> USE DEF Phases, Locked, claimVars, deviceVars, kernelVars, callVars, outVars
<1>1. CASE PrepareStore
  <2>1. Put(prepared, claim, acc) \in ClaimPreparations
    BY <1>1, PutType DEF PrepareStore, TypeOK
  <2>2. QED
    BY <1>1, <2>1 DEF PrepareStore, StoreTruncate, TypeOK
<1>2. CASE \E ok \in BOOLEAN : Write(ok)
  BY <1>2 DEF Write, Encoded, TypeOK
<1>3. ASSUME NEW c \in Claims, Unprepare(c) PROVE TypeOK'
  <2>1. Delete(prepared, c) \in ClaimPreparations
    BY DeleteType DEF TypeOK
  <2>2. ClaimTaints(c) \subseteq Devices
    BY DEF ClaimTaints, TypeOK
  <2>3. prepared' \in ClaimPreparations /\ torn' \in BOOLEAN /\ checkpoint' = checkpoint
        /\ phase' \in {"freeing", "returning"}
    BY <1>3, <2>1 DEF Unprepare, StoreTruncate, TypeOK
  <2>4. QED
    BY <1>3, <2>2, <2>3 DEF Unprepare, PublishIfCleared, TypeOK
<1>4. QED
  BY <1>1, <1>2, <1>3

LEMMA KernelType ==
  ASSUME TypeOK, Refresh \/ (\E d \in Devices : ExternalChange(d)) \/ StartWatch
  PROVE  TypeOK'
<1> USE DEF claimVars, deviceVars, kernelVars, callVars, outVars
<1>1. CASE Refresh
  <2> DEFINE d == Head(events).device
  <2>1. events \in Seq(Event) /\ events # <<>>
    BY <1>1 DEF Refresh, TypeOK
  <2>2. Head(events) \in Event
    BY <2>1
  <2>3. d \in Devices
    BY <2>2 DEF Event
  <2>4. events' \in Seq(Event)
    BY <1>1, <2>1 DEF Refresh
  <2>5. /\ allocatable' \subseteq Devices
        /\ absentTaint' \subseteq Devices
        /\ driverTaint' \subseteq Devices
        /\ currentDriver' \in [Devices -> Drivers \cup {"unbound"}]
        /\ cdiEdits' \in [Devices -> {"none", "fresh", "stale"}]
        /\ unseen' \subseteq Devices
        /\ unpublished' \subseteq Devices
    <3>1. CASE sysfsDriver[d] # "absent" /\ RefreshKnown(d, Head(events).driver)
      BY <2>3, <3>1 DEF RefreshKnown, SetCurrentDriver, Publish, TypeOK, SysfsStates
    <3>2. CASE sysfsDriver[d] # "absent" /\ RefreshNew(d)
      BY <2>3, <3>2
         DEF RefreshNew, SetCurrentDriver, UpdateGPUDevices, Publish, TypeOK, SysfsStates
    <3>3. CASE RefreshAbsent(d)
      BY <2>3, <3>3 DEF RefreshAbsent, Publish, TypeOK
    <3>4. QED
      BY <1>1, <3>1, <3>2, <3>3 DEF Refresh
  <2>6. QED
    BY <1>1, <2>4, <2>5 DEF Refresh, TypeOK
<1>2. ASSUME NEW d \in Devices, ExternalChange(d) PROVE TypeOK'
  <2>1. PICK drv \in SysfsStates : SysfsChange(d, drv)
    BY <1>2 DEF ExternalChange
  <2>2. /\ sysfsDriver' \in [Devices -> SysfsStates]
        /\ cdiEdits' \in [Devices -> {"none", "fresh", "stale"}]
        /\ events' \in Seq(Event)
    BY <2>1, SysfsChangeType
  <2>3. QED
    BY <1>2, <2>2 DEF ExternalChange, TypeOK
<1>3. CASE StartWatch
  BY <1>3 DEF StartWatch, TypeOK
<1>4. QED
  BY <1>1, <1>2, <1>3

LEMMA ProcessType ==
  ASSUME TypeOK, Crash \/ Reboot \/ Restart
  PROVE  TypeOK'
<1> USE DEF claimVars, deviceVars, kernelVars, callVars, outVars, Phases, Locked
<1>1. ASSUME Stop, granted' \subseteq Claims,
             cdiEdits' \in [Devices -> {"none", "fresh", "stale"}],
             sysfsDriver' \in [Devices -> SysfsStates]
      PROVE  TypeOK'
  <2>1. /\ running' \in BOOLEAN /\ needPublish' \in BOOLEAN /\ watching' \in BOOLEAN
    BY <1>1 DEF Stop
  <2>2. prepared' \in ClaimPreparations /\ UNCHANGED <<checkpoint, torn>>
    BY <1>1, NoPreparationsType DEF Stop
  <2>3. currentDriver' \in [Devices -> Drivers \cup {"unbound"}]
    BY <1>1 DEF Stop
  <2>4. pos' \in Nat \ {0} /\ acc' = {} /\ claim' = NoClaim /\ phase' = "idle"
    BY <1>1 DEF Stop
  <2>5. /\ allocatable' = {} /\ absentTaint' = {} /\ driverTaint' = {} /\ events' \in Seq(Event)
        /\ unseen' = {} /\ unpublished' = {}
    BY <1>1 DEF Stop
  <2>6. QED
    BY <1>1, <2>1, <2>2, <2>3, <2>4, <2>5 DEF TypeOK
<1>2. CASE Crash
  BY <1>1, <1>2 DEF Crash, TypeOK
<1>3. CASE Reboot
  BY <1>1, <1>3 DEF Reboot, TypeOK, SysfsStates, Drivers
<1>4. CASE Restart
  <2>1. PICK found \in SUBSET Present :
          /\ running' = ~torn
          /\ cdiEdits' = [d \in Devices |-> IF d \notin found THEN "none"
                                      ELSE IF sysfsDriver[d] \in Drivers THEN "fresh" ELSE "stale"]
          /\ IF torn THEN UNCHANGED <<prepared, allocatable, currentDriver>>
             ELSE /\ prepared' = checkpoint
                  /\ allocatable' = found
                  /\ currentDriver' =
                       [d \in Devices |-> IF d \in found THEN sysfsDriver[d] ELSE "unbound"]
          /\ UNCHANGED <<checkpoint, torn, absentTaint, driverTaint, sysfsDriver, watching,
                         events, unseen, callVars, outVars>>
    BY <1>4 DEF Restart, AddDetectedDevicesToCDIRegistry, Recovered
  <2>2. prepared' \in ClaimPreparations /\ allocatable' \subseteq Devices
    BY <2>1 DEF TypeOK, Present
  <2>3. currentDriver' \in [Devices -> Drivers \cup {"unbound"}]
    BY <2>1 DEF TypeOK, Present, SysfsStates
  <2>4. QED
    BY <2>1, <2>2, <2>3 DEF TypeOK
<1>5. QED
  BY <1>2, <1>3, <1>4

LEMMA StepType == TypeOK /\ [Next]_vars => TypeOK'
<1>1. ASSUME TypeOK, UNCHANGED vars PROVE TypeOK'
  BY <1>1 DEF TypeOK, vars, claimVars, deviceVars, kernelVars, callVars, outVars
<1>2. ASSUME TypeOK, Next PROVE TypeOK'
  BY <1>2, CallType, RebindType, StoreType, KernelType, ProcessType DEF Next, PrepareStep
<1>3. QED
  BY <1>1, <1>2

\* Every variable of the plugin keeps its type (node_state.go:46).
THEOREM TypeCorrect == Spec => []TypeOK
BY InitType, StepType, PTL DEF Spec

-----------------------------------------------------------------------------
(* Exclusive use.  What makes it inductive: while Prepare holds the mutex   *)
(* its claim is not yet prepared, and what it has accepted so far is held   *)
(* by no other claim.                                                       *)

Preparing == {"devices", "rebind"}

Accepted ==
  phase \in Preparing =>
    /\ claim \notin DOMAIN prepared
    /\ \A x \in acc : ~x.admin => ~UsedExclusively(x.device, claim)
    /\ (phase = "rebind" /\ ~Current.admin) => ~UsedExclusively(Current.device, claim)

Stopped == ~running => phase = "idle" /\ prepared = NoPreparations

ExclusiveInv == TypeOK /\ ExclusiveUse /\ Accepted /\ Stopped

LEMMA ExclusiveNone == Exclusive(NoPreparations)
BY DEF Exclusive, NoPreparations

\* Adding the devices accepted for a claim keeps the map exclusive.
LEMMA ExclusivePut ==
  ASSUME TypeOK, Exclusive(prepared), claim \notin DOMAIN prepared,
         \A x \in acc : ~x.admin => ~UsedExclusively(x.device, claim)
  PROVE  Exclusive(Put(prepared, claim, acc))
<1> DEFINE p == Put(prepared, claim, acc)
<1>1. /\ DOMAIN p = DOMAIN prepared \cup {claim}
      /\ p[claim] = acc
      /\ \A c \in DOMAIN prepared : p[c] = prepared[c]
  BY DEF Put
<1>2. SUFFICES ASSUME NEW c1 \in DOMAIN p, NEW c2 \in DOMAIN p, c1 # c2,
                      NEW x \in p[c1], NEW y \in p[c2], x.device = y.device,
                      ~x.admin, ~y.admin
               PROVE  FALSE
  BY DEF Exclusive
<1>3. CASE c1 # claim /\ c2 # claim
  BY <1>1, <1>2, <1>3 DEF Exclusive
<1>4. CASE c1 = claim
  <2>1. c2 \in DOMAIN prepared \ {claim} /\ y \in prepared[c2] /\ x \in acc
    BY <1>1, <1>2, <1>4
  <2>2. UsedExclusively(x.device, claim)
    BY <1>2, <2>1 DEF UsedExclusively
  <2>3. QED
    BY <1>2, <2>1, <2>2
<1>5. CASE c2 = claim
  <2>1. c1 \in DOMAIN prepared \ {claim} /\ x \in prepared[c1] /\ y \in acc
    BY <1>1, <1>2, <1>5
  <2>2. UsedExclusively(y.device, claim)
    BY <1>2, <2>1 DEF UsedExclusively
  <2>3. QED
    BY <1>2, <2>1, <2>2
<1>6. QED
  BY <1>3, <1>4, <1>5

LEMMA ExclusiveDelete ==
  ASSUME NEW p, NEW c, Exclusive(p)
  PROVE  Exclusive(Delete(p, c))
BY DEF Exclusive, Delete

LEMMA ExclusiveInit == Init => ExclusiveInv
BY InitType, ExclusiveNone DEF Init, ExclusiveInv, ExclusiveUse, Accepted, Stopped, Preparing

\* Steps that change neither the prepared claims nor the checkpoint and leave the call
\* where it is, or outside Prepare.
LEMMA ExclusiveSame ==
  ASSUME ExclusiveInv, UNCHANGED <<running, prepared, checkpoint>>,
         \/ UNCHANGED <<phase, claim, pos, acc>>
         \/ running /\ phase' \notin Preparing
  PROVE  ExclusiveUse' /\ Accepted' /\ Stopped'
BY DEF ExclusiveInv, ExclusiveUse, Accepted, Stopped, Preparing, Exclusive, UsedExclusively,
       Current

LEMMA ExclusivePrepare ==
  ASSUME ExclusiveInv, (\E c \in Claims : PrepareBegin(c)) \/ PrepareSkip \/ PrepareBound
                       \/ Unbind \/ Bind
  PROVE  ExclusiveUse' /\ Accepted' /\ Stopped'
<1> USE DEF ExclusiveInv, ExclusiveUse, Accepted, Stopped, Preparing,
            claimVars, deviceVars, callVars, outVars
<1>1. UNCHANGED <<running, prepared, checkpoint>> /\ running
  BY DEF PrepareBegin, PrepareSkip, PrepareBound, Unbind, Bind, AtOwnResult, AtResult
<1>2. ExclusiveUse'
  BY <1>1 DEF Exclusive
<1>3. \A d \in Devices, c \in Claims : UsedExclusively(d, c)' = UsedExclusively(d, c)
  BY <1>1 DEF UsedExclusively
<1>4. ASSUME NEW c \in Claims, PrepareBegin(c) PROVE Accepted'
  BY <1>1, <1>4 DEF PrepareBegin, Enter
<1>5. ASSUME PrepareSkip PROVE Accepted'
  BY <1>1, <1>5 DEF PrepareSkip, AtResult, UsedExclusively
<1>6. ASSUME PrepareBound \/ Bind, Prepared(Current) PROVE Accepted'
  <2>1. ~Current.admin => ~UsedExclusively(Current.device, claim)
    BY <1>6 DEF PrepareBound, AtOwnResult, Bind
  <2>2. /\ claim' = claim
        /\ phase \in Preparing
        /\ phase' = "devices"
        /\ acc' = acc \cup {[device |-> Current.device, admin |-> Current.admin]}
    BY <1>6 DEF PrepareBound, AtOwnResult, AtResult, Bind, Prepared
  <2>3. \A x \in acc' : ~x.admin => ~UsedExclusively(x.device, claim)
    BY <2>1, <2>2
  <2>4. QED
    BY <1>1, <2>2, <2>3 DEF UsedExclusively
<1>7. ASSUME Unbind PROVE Accepted'
  <2>1. ~Current.admin => ~UsedExclusively(Current.device, claim)
    BY <1>7 DEF Unbind, AtOwnResult
  <2>2. UNCHANGED <<claim, pos, acc>> /\ phase = "devices" /\ phase' = "rebind"
    BY <1>7 DEF Unbind, AtOwnResult, AtResult
  <2>3. QED
    BY <1>1, <2>1, <2>2 DEF UsedExclusively, Current
<1>8. ASSUME Bind, phase' = "returning" PROVE Accepted'
  BY <1>8
<1>9. Accepted'
  BY <1>4, <1>5, <1>6, <1>7, <1>8 DEF PrepareBound, Bind
<1>10. QED
  BY <1>1, <1>2, <1>9

LEMMA ExclusiveStore ==
  ASSUME ExclusiveInv, PrepareStore \/ (\E ok \in BOOLEAN : Write(ok))
                       \/ (\E c \in Claims : Unprepare(c))
  PROVE  ExclusiveUse' /\ Accepted' /\ Stopped'
<1> USE DEF ExclusiveInv, ExclusiveUse, Accepted, Stopped, Preparing,
            claimVars, deviceVars, callVars, outVars
<1>1. CASE PrepareStore
  <2>1. /\ prepared' = Put(prepared, claim, acc)
        /\ checkpoint' = checkpoint
        /\ phase' \in {"saving", "returning"}
        /\ running' = running /\ running
    BY <1>1 DEF PrepareStore, StoreTruncate
  <2>2. Exclusive(prepared')
    BY <1>1, <2>1, ExclusivePut DEF PrepareStore
  <2>3. QED
    BY <2>1, <2>2
<1>2. CASE \E ok \in BOOLEAN : Write(ok)
  BY <1>2 DEF Write, Encoded
<1>3. ASSUME NEW c \in Claims, Unprepare(c) PROVE ExclusiveUse' /\ Accepted' /\ Stopped'
  <2>1. /\ prepared' \in {prepared, Delete(prepared, c)}
        /\ checkpoint' = checkpoint
        /\ phase' \in {"freeing", "returning"}
        /\ running' = running /\ running
    BY <1>3 DEF Unprepare, StoreTruncate
  <2>2. Exclusive(prepared')
    BY <2>1, ExclusiveDelete
  <2>3. QED
    BY <2>1, <2>2
<1>4. QED
  BY <1>1, <1>2, <1>3

LEMMA ExclusiveProcess ==
  ASSUME ExclusiveInv, Crash \/ Reboot \/ Restart
  PROVE  ExclusiveUse' /\ Accepted' /\ Stopped'
<1> USE DEF ExclusiveInv, ExclusiveUse, Accepted, Stopped, Preparing
<1>1. CASE Crash \/ Reboot
  <2>1. /\ running' = FALSE
        /\ prepared' = NoPreparations
        /\ checkpoint' = checkpoint
        /\ phase' = "idle"
    BY <1>1 DEF Crash, Reboot, Stop
  <2>2. QED
    BY <2>1, ExclusiveNone
<1>2. CASE Restart
  <2>1. /\ ~running
        /\ running' = ~torn
        /\ prepared' = IF torn THEN prepared ELSE checkpoint
        /\ checkpoint' = checkpoint
        /\ phase' = phase
    BY <1>2 DEF Restart, Recovered, callVars
  <2>2. QED
    BY <2>1
<1>3. QED
  BY <1>1, <1>2

LEMMA ExclusiveStep == ExclusiveInv /\ [Next]_vars => ExclusiveInv'
<1> SUFFICES ASSUME ExclusiveInv, [Next]_vars PROVE ExclusiveInv'
  OBVIOUS
<1>1. TypeOK'
  BY StepType DEF ExclusiveInv
<1>2. CASE UNCHANGED vars
  BY <1>1, <1>2, ExclusiveSame DEF vars, claimVars, callVars, ExclusiveInv
<1>3. CASE \E c \in Claims : PrepareAgain(c) \/ UnprepareUnknown(c)
  BY <1>1, <1>3, ExclusiveSame
     DEF PrepareAgain, UnprepareUnknown, claimVars, callVars, ExclusiveInv
<1>4. CASE PrepareReject \/ PrepareUnbindFails \/ BindFails \/ Return
  <2>1. UNCHANGED <<running, prepared, checkpoint>> /\ phase # "idle" /\ phase' \notin Preparing
    BY <1>4 DEF PrepareReject, PrepareUnbindFails, BindFails, Return, claimVars,
                AtOwnResult, AtResult, Preparing
  <2>2. QED
    BY <1>1, <2>1, ExclusiveSame DEF ExclusiveInv, Stopped
<1>5. CASE Refresh \/ (\E d \in Devices : ExternalChange(d)) \/ StartWatch
  BY <1>1, <1>5, ExclusiveSame
     DEF Refresh, ExternalChange, StartWatch, claimVars, callVars, ExclusiveInv
<1>6. QED
  BY <1>1, <1>2, <1>3, <1>4, <1>5, ExclusivePrepare, ExclusiveStore, ExclusiveProcess
     DEF Next, PrepareStep, ExclusiveInv

\* No device is prepared for two claims without adminAccess, in memory or on disk,
\* whatever fails (node_state.go:233).
THEOREM ExclusiveAlways == Spec => []ExclusiveUse
<1>1. ExclusiveInv => ExclusiveUse
  BY DEF ExclusiveInv
<1>2. QED
  BY ExclusiveInit, ExclusiveStep, <1>1, PTL DEF Spec
-----------------------------------------------------------------------------
(* Claims on record.  As long as the checkpoint can be written, memory and  *)
(* file agree outside the two writing phases, every recorded claim has all  *)
(* the devices it was allocated for itself, and so claims granted together  *)
(* share none.                                                              *)

Writing == {"saving", "freeing"}

Complete(p) == \A c \in DOMAIN p : \A d \in Holds(c) : [device |-> d, admin |-> FALSE] \in p[c]

CheckpointCurrent ==
  /\ running /\ phase \notin Writing => ~torn /\ checkpoint = prepared
  /\ running /\ phase \in Writing => torn
  /\ phase \in {"saving", "granting"} => claim \in DOMAIN prepared

AcceptedAll ==
  phase \in Preparing =>
    \A i \in 1..Len(Allocation[claim]) :
      i < pos /\ Allocation[claim][i].local /\ ~Allocation[claim][i].admin =>
        [device |-> Allocation[claim][i].device, admin |-> FALSE] \in acc

RecordInv ==
  /\ ExclusiveInv
  /\ Complete(prepared) /\ Complete(checkpoint)
  /\ CheckpointCurrent
  /\ AcceptedAll
  /\ GrantedRecorded
  /\ GrantedExclusive

\* Recorded claims hold no device together.
LEMMA RecordedDisjoint ==
  ASSUME NEW p \in ClaimPreparations, Exclusive(p), Complete(p),
         NEW c1 \in DOMAIN p, NEW c2 \in DOMAIN p, c1 # c2
  PROVE  Holds(c1) \cap Holds(c2) = {}
<1> SUFFICES ASSUME NEW d \in Holds(c1), d \in Holds(c2) PROVE FALSE
  OBVIOUS
<1> DEFINE x == [device |-> d, admin |-> FALSE]
<1>1. x \in p[c1] /\ x \in p[c2]
  BY DEF Complete
<1>2. x.device = x.device => x.admin \/ x.admin
  BY <1>1 DEF Exclusive
<1>3. QED
  BY <1>2

LEMMA CompleteNone == Complete(NoPreparations)
BY DEF Complete, NoPreparations

LEMMA CompleteDelete ==
  ASSUME NEW p, NEW c, Complete(p)
  PROVE  Complete(Delete(p, c))
BY DEF Complete, Delete

LEMMA CompletePut ==
  ASSUME TypeOK, Complete(prepared), AcceptedAll, PrepareStore
  PROVE  Complete(Put(prepared, claim, acc))
<1> DEFINE p == Put(prepared, claim, acc)
<1>1. /\ DOMAIN p = DOMAIN prepared \cup {claim}
      /\ p[claim] = acc
      /\ \A c \in DOMAIN prepared \ {claim} : p[c] = prepared[c]
  BY DEF Put
<1>2. \A d \in Holds(claim) : [device |-> d, admin |-> FALSE] \in acc
  <2>1. phase = "devices" /\ pos > Len(Allocation[claim]) /\ claim \in Claims /\ pos \in Nat
    BY DEF PrepareStore, TypeOK
  <2>2. \A i \in 1..Len(Allocation[claim]) : i < pos
    BY <2>1, AllocationType
  <2>3. QED
    BY <2>1, <2>2 DEF Holds, AcceptedAll, Preparing
<1>3. QED
  BY <1>1, <1>2 DEF Complete

LEMMA RecordInit == Init => RecordInv
<1> SUFFICES ASSUME Init PROVE RecordInv
  OBVIOUS
<1>1. /\ prepared = NoPreparations /\ checkpoint = NoPreparations
      /\ phase = "idle" /\ granted = {}
  BY DEF Init
<1>2. ~running
  BY DEF Init
<1>3. QED
  BY <1>1, <1>2, ExclusiveInit, CompleteNone
     DEF RecordInv, CheckpointCurrent, AcceptedAll, Preparing, GrantedRecorded, GrantedExclusive

\* Steps that leave the records alone.
LEMMA RecordSame ==
  ASSUME RecordInv, UNCHANGED <<running, prepared, checkpoint, torn>>,
         \/ UNCHANGED phase /\ UNCHANGED claim /\ UNCHANGED pos /\ UNCHANGED acc
         \/ running /\ phase \notin Writing /\ phase' \in {"idle", "returning"},
         granted' \subseteq granted
  PROVE  RecordInv' \/ ~ExclusiveInv'
BY DEF RecordInv, Complete, CheckpointCurrent, AcceptedAll, GrantedRecorded, GrantedExclusive,
       Preparing, Writing

\* Prepare goes on with its next result.
LEMMA RecordPrepare ==
  ASSUME RecordInv, ExclusiveInv',
         (\E c \in Claims : PrepareBegin(c)) \/ PrepareSkip \/ PrepareBound \/ Unbind \/ Bind
  PROVE  RecordInv'
<1> USE DEF claimVars, deviceVars, callVars, outVars
<1>1. /\ UNCHANGED <<running, prepared, checkpoint, torn, granted>>
      /\ running
      /\ phase \notin Writing /\ phase' \notin Writing
      /\ phase' \notin {"saving", "granting"}
  BY DEF PrepareBegin, Enter, PrepareSkip, PrepareBound, Unbind, Bind, AtOwnResult, AtResult,
         Prepared, Writing, RecordInv, ExclusiveInv, Stopped
<1>2. AcceptedAll'
  <2>1. TypeOK
    BY DEF RecordInv, ExclusiveInv
  <2>2. ASSUME NEW c \in Claims, PrepareBegin(c) PROVE AcceptedAll'
    BY <2>2, AllocationType DEF PrepareBegin, Enter, AcceptedAll
  <2>3. ASSUME PrepareSkip PROVE AcceptedAll'
    <3>1. claim \in Claims /\ pos \in Nat /\ ~Allocation[claim][pos].local
      BY <2>1, <2>3 DEF PrepareSkip, AtResult, Current, TypeOK
    <3>2. pos' = pos + 1 /\ UNCHANGED <<claim, acc, phase>> /\ phase = "devices"
      BY <2>3 DEF PrepareSkip, AtResult
    <3>3. \A i \in 1..Len(Allocation[claim]) : i < pos' => i < pos \/ i = pos
      BY <3>1, <3>2, AllocationType
    <3>4. QED
      BY <3>1, <3>2, <3>3 DEF AcceptedAll, RecordInv, Preparing
  <2>4. ASSUME PrepareBound \/ Bind, Prepared(Current) PROVE AcceptedAll'
    <3>1. claim \in Claims /\ pos \in Nat /\ phase \in Preparing
      BY <2>1, <2>4 DEF PrepareBound, Bind, AtOwnResult, AtResult, TypeOK, Preparing
    <3>2. /\ pos' = pos + 1 /\ claim' = claim
          /\ acc' = acc \cup {[device |-> Current.device, admin |-> Current.admin]}
      BY <2>4 DEF PrepareBound, Bind, Prepared
    <3>3. \A i \in 1..Len(Allocation[claim]) : i < pos' => i < pos \/ i = pos
      BY <3>1, <3>2, AllocationType
    <3>4. ASSUME NEW i \in 1..Len(Allocation[claim]), i = pos, ~Allocation[claim][i].admin
          PROVE  [device |-> Allocation[claim][i].device, admin |-> FALSE] \in acc'
      <4>1. Current = Allocation[claim][i] /\ Current \in Result
        BY <3>1, <3>4, AllocationType DEF Current
      <4>2. Current.admin = FALSE
        BY <3>4, <4>1 DEF Result
      <4>3. QED
        BY <3>2, <4>1, <4>2
    <3>5. QED
      BY <3>1, <3>2, <3>3, <3>4 DEF AcceptedAll, RecordInv
  <2>5. ASSUME Unbind PROVE AcceptedAll'
    BY <2>5 DEF Unbind, AtOwnResult, AtResult, AcceptedAll, RecordInv, Preparing
  <2>6. ASSUME Bind, phase' = "returning" PROVE AcceptedAll'
    BY <2>6 DEF AcceptedAll, Preparing
  <2>7. QED
    BY <2>2, <2>3, <2>4, <2>5, <2>6 DEF PrepareBound, Bind
<1>3. QED
  BY <1>1, <1>2 DEF RecordInv, Complete, CheckpointCurrent, GrantedRecorded, GrantedExclusive

\* A claim on record is granted.
LEMMA RecordGrant ==
  ASSUME RecordInv, ExclusiveInv', (\E c \in Claims : PrepareAgain(c)) \/ Return
  PROVE  RecordInv'
<1> USE DEF claimVars, deviceVars, callVars, outVars
<1>1. /\ UNCHANGED <<running, prepared, checkpoint, torn>>
      /\ running /\ ~torn
      /\ checkpoint = prepared
      /\ phase' = "idle"
  BY DEF PrepareAgain, Return, RecordInv, ExclusiveInv, Stopped, CheckpointCurrent, Writing
<1>2. granted' \subseteq DOMAIN prepared
  BY DEF PrepareAgain, Return, RecordInv, ExclusiveInv, Stopped, GrantedRecorded,
         CheckpointCurrent
<1>3. GrantedExclusive'
  BY <1>2, RecordedDisjoint
     DEF GrantedExclusive, RecordInv, ExclusiveInv, ExclusiveUse, TypeOK
<1>4. QED
  BY <1>1, <1>2, <1>3
     DEF RecordInv, Complete, CheckpointCurrent, AcceptedAll, Preparing, GrantedRecorded, Writing

LEMMA RecordStore ==
  ASSUME ~WriteFaults, RecordInv, ExclusiveInv',
         PrepareStore \/ (\E ok \in BOOLEAN : Write(ok)) \/ (\E c \in Claims : Unprepare(c))
  PROVE  RecordInv'
<1> USE DEF claimVars, deviceVars, callVars, outVars
<1>1. running
  BY DEF RecordInv, ExclusiveInv, Stopped, PrepareStore, Write, Unprepare
<1>2. CASE PrepareStore
  <2>1. /\ prepared' = Put(prepared, claim, acc)
        /\ checkpoint' = checkpoint
        /\ torn' = TRUE
        /\ phase' = "saving"
        /\ UNCHANGED <<running, claim, granted>>
    BY <1>2 DEF PrepareStore, StoreTruncate
  <2>2. Complete(prepared')
    BY <1>2, <2>1, CompletePut DEF RecordInv, ExclusiveInv
  <2>3. DOMAIN prepared' = DOMAIN prepared \cup {claim}
    BY <2>1 DEF Put
  <2>4. QED
    BY <1>1, <2>1, <2>2, <2>3
       DEF RecordInv, Complete, CheckpointCurrent, AcceptedAll, Preparing, GrantedRecorded,
           GrantedExclusive, Writing
<1>3. ASSUME NEW ok \in BOOLEAN, Write(ok) PROVE RecordInv'
  <2>1. /\ checkpoint' = prepared
        /\ UNCHANGED <<running, prepared, claim, granted>>
        /\ phase' = IF phase = "saving" THEN "granting" ELSE "returning"
    BY <1>3 DEF Write, Encoded
  <2>2. ~torn'
    BY <1>3 DEF Write
  <2>3. QED
    BY <1>1, <2>1, <2>2
       DEF RecordInv, Complete, CheckpointCurrent, AcceptedAll, Preparing, GrantedRecorded,
           GrantedExclusive, Writing
<1>4. ASSUME NEW c \in Claims, Unprepare(c) PROVE RecordInv'
  <2>1. /\ granted' = granted \ {c}
        /\ checkpoint' = checkpoint
        /\ running' = running
        /\ phase = "idle"
    BY <1>4 DEF Unprepare, StoreTruncate
  <2>2. CASE prepared' = Delete(prepared, c) /\ torn' = TRUE /\ phase' = "freeing"
    <3>1. DOMAIN prepared' = DOMAIN prepared \ {c} /\ Complete(prepared')
      BY <2>2, CompleteDelete DEF Delete, RecordInv
    <3>2. QED
      BY <1>1, <2>1, <2>2, <3>1
         DEF RecordInv, Complete, CheckpointCurrent, AcceptedAll, Preparing, GrantedRecorded,
             GrantedExclusive, Writing
  <2>3. CASE prepared' = prepared /\ torn' = torn /\ phase' = "returning"
    BY <1>1, <2>1, <2>3
       DEF RecordInv, Complete, CheckpointCurrent, AcceptedAll, Preparing, GrantedRecorded,
           GrantedExclusive, Writing
  <2>4. QED
    BY <1>4, <2>2, <2>3 DEF Unprepare, StoreTruncate
<1>5. QED
  BY <1>2, <1>3, <1>4

LEMMA RecordProcess ==
  ASSUME RecordInv, ExclusiveInv', Crash \/ Reboot \/ Restart
  PROVE  RecordInv'
<1>1. CASE Crash \/ Reboot
  <2>1. /\ prepared' = NoPreparations
        /\ UNCHANGED <<checkpoint, torn>>
        /\ phase' = "idle"
        /\ granted' \subseteq granted
    BY <1>1 DEF Crash, Reboot, Stop
  <2>2. ~running'
    BY <1>1 DEF Crash, Reboot, Stop
  <2>3. QED
    BY <2>1, <2>2, CompleteNone
       DEF RecordInv, Complete, CheckpointCurrent, AcceptedAll, Preparing, GrantedRecorded,
           GrantedExclusive, Writing
<1>2. CASE Restart
  <2>1. /\ ~running
        /\ running' = ~torn
        /\ prepared' = IF torn THEN prepared ELSE checkpoint
        /\ UNCHANGED <<checkpoint, torn, phase, claim, pos, acc, granted>>
    BY <1>2 DEF Restart, Recovered, callVars, outVars
  <2>2. phase = "idle"
    BY <2>1 DEF RecordInv, ExclusiveInv, Stopped
  <2>3. QED
    BY <2>1, <2>2
       DEF RecordInv, Complete, CheckpointCurrent, AcceptedAll, Preparing, GrantedRecorded,
           GrantedExclusive, Writing
<1>3. QED
  BY <1>1, <1>2

LEMMA RecordStep ==
  ASSUME ~WriteFaults
  PROVE  RecordInv /\ [Next]_vars => RecordInv'
<1> SUFFICES ASSUME RecordInv, [Next]_vars PROVE RecordInv'
  OBVIOUS
<1>1. ExclusiveInv'
  BY ExclusiveStep DEF RecordInv
<1>2. CASE UNCHANGED vars
  BY <1>1, <1>2, RecordSame DEF vars, claimVars, callVars, outVars
<1>3. CASE \E c \in Claims : UnprepareUnknown(c)
  BY <1>1, <1>3, RecordSame DEF UnprepareUnknown, claimVars, callVars
<1>4. CASE PrepareReject \/ PrepareUnbindFails \/ BindFails
  <2>1. /\ UNCHANGED <<running, prepared, checkpoint, torn, granted>>
        /\ phase \in {"devices", "rebind"} /\ phase' = "returning"
    BY <1>4 DEF PrepareReject, PrepareUnbindFails, BindFails, claimVars, outVars,
                AtOwnResult, AtResult
  <2>2. QED
    BY <1>1, <2>1, RecordSame DEF Writing, RecordInv, ExclusiveInv, Stopped
<1>5. CASE Refresh \/ (\E d \in Devices : ExternalChange(d)) \/ StartWatch
  BY <1>1, <1>5, RecordSame DEF Refresh, ExternalChange, StartWatch, claimVars, callVars, outVars
<1>6. QED
  BY <1>1, <1>2, <1>3, <1>4, <1>5, RecordPrepare, RecordGrant, RecordStore, RecordProcess
     DEF Next, PrepareStep

\* As long as the checkpoint can be written, a claim kubelet was answered for stays on
\* record through every crash and restart (node_state.go:291).
THEOREM GrantedRecordedAlways ==
  ASSUME ~WriteFaults
  PROVE  Spec => []GrantedRecorded
<1>1. RecordInv => GrantedRecorded
  BY DEF RecordInv
<1>2. QED
  BY RecordInit, RecordStep, <1>1, PTL DEF Spec

\* As long as the checkpoint can be written, claims kubelet runs containers with never
\* share a device one of them was allocated for itself (node_state.go:233).
THEOREM GrantedExclusiveAlways ==
  ASSUME ~WriteFaults
  PROVE  Spec => []GrantedExclusive
<1>1. RecordInv => GrantedExclusive
  BY DEF RecordInv
<1>2. QED
  BY RecordInit, RecordStep, <1>1, PTL DEF Spec

-----------------------------------------------------------------------------
(* The refinement of DeviceLedger.  While the plugin runs the claims on     *)
(* record are those in memory, and they survive a crash in the file.        *)

LEMMA LedgerInit == Init => Ledger!Init
<1> SUFFICES ASSUME Init PROVE Ledger!Init
  OBVIOUS
<1>1. ~running /\ ~torn
  BY DEF Init
<1>2. checkpoint = NoPreparations /\ granted = {}
  BY DEF Init
<1>3. QED
  BY <1>1, <1>2 DEF Ledger!Init, OnRecord, NoPreparations

\* A new claim is put on record only when none on record wants one of its devices.
LEMMA RecordIsFree ==
  ASSUME RecordInv, RecordInv', PrepareStore, prepared' = Put(prepared, claim, acc), running
  PROVE  Ledger!Free(claim)
<1>1. claim \in Claims
  BY DEF RecordInv, ExclusiveInv, TypeOK, PrepareStore
<1>2. DOMAIN prepared' = DOMAIN prepared \cup {claim} /\ DOMAIN prepared \subseteq Claims
  BY PreparationsType DEF Put, RecordInv, ExclusiveInv, TypeOK
<1>3. prepared' \in ClaimPreparations /\ Exclusive(prepared') /\ Complete(prepared')
  BY DEF RecordInv, ExclusiveInv, ExclusiveUse, TypeOK, Exclusive, Complete, Holds
<1>4. \A o \in DOMAIN prepared \ {claim} : Holds(o) \cap Holds(claim) = {}
  BY <1>2, <1>3, RecordedDisjoint
<1>5. QED
  BY <1>1, <1>2, <1>4 DEF Ledger!Free, OnRecord

LEMMA LedgerProcess ==
  ASSUME RecordInv, Crash \/ Reboot \/ Restart
  PROVE  [Ledger!Next]_(Ledger!ledgerVars)
<1>1. CASE Crash
  <2>1. /\ ~running' /\ running
        /\ UNCHANGED <<checkpoint, torn, granted>>
    BY <1>1 DEF Crash, Stop
  <2>2. OnRecord = DOMAIN prepared /\ granted \subseteq DOMAIN prepared
    BY <2>1 DEF OnRecord, RecordInv, GrantedRecorded
  <2>3. OnRecord' = IF torn THEN granted ELSE DOMAIN checkpoint
    BY <2>1 DEF OnRecord
  <2>4. ~torn => checkpoint = prepared
    BY <2>1 DEF RecordInv, CheckpointCurrent
  <2>5. Ledger!Lose
    BY <2>1, <2>2, <2>3, <2>4 DEF Ledger!Lose
  <2>6. QED
    BY <2>5 DEF Ledger!Next
<1>2. CASE Reboot
  <2>1. /\ ~running' /\ granted' = {}
        /\ UNCHANGED <<checkpoint, torn>>
    BY <1>2 DEF Reboot, Stop
  <2>2. OnRecord' = IF torn THEN {} ELSE DOMAIN checkpoint
    BY <2>1 DEF OnRecord
  <2>3. ~torn => OnRecord = DOMAIN checkpoint
    BY DEF OnRecord, RecordInv, CheckpointCurrent
  <2>4. Ledger!Reset
    BY <2>1, <2>2, <2>3 DEF Ledger!Reset
  <2>5. QED
    BY <2>4 DEF Ledger!Next
<1>3. CASE Restart
  <2>1. /\ ~running
        /\ running' = ~torn
        /\ prepared' = IF torn THEN prepared ELSE checkpoint
        /\ UNCHANGED <<checkpoint, torn, granted>>
    BY <1>3 DEF Restart, Recovered, outVars
  <2>2. OnRecord' = OnRecord
    BY <2>1 DEF OnRecord
  <2>3. QED
    BY <2>1, <2>2 DEF Ledger!ledgerVars
<1>4. QED
  BY <1>1, <1>2, <1>3

LEMMA LedgerStep ==
  ASSUME ~WriteFaults
  PROVE  RecordInv /\ RecordInv' /\ [Next]_vars => [Ledger!Next]_(Ledger!ledgerVars)
<1> SUFFICES ASSUME RecordInv, RecordInv', [Next]_vars
             PROVE  [Ledger!Next]_(Ledger!ledgerVars)
  OBVIOUS
<1> USE DEF claimVars, deviceVars, callVars, outVars
<1>1. ASSUME UNCHANGED <<running, prepared, checkpoint, torn, granted>>
      PROVE  UNCHANGED Ledger!ledgerVars
  BY <1>1 DEF Ledger!ledgerVars, OnRecord
<1>2. ASSUME running, UNCHANGED <<running, prepared>> PROVE OnRecord' = OnRecord
  BY <1>2 DEF OnRecord
<1>3. ASSUME NEW c \in Claims, PrepareAgain(c) PROVE Ledger!Next
  <2>1. OnRecord' = OnRecord /\ c \in OnRecord
    BY <1>2, <1>3 DEF PrepareAgain, OnRecord
  <2>2. Ledger!Grant(c)
    BY <1>3, <2>1 DEF PrepareAgain, Ledger!Grant
  <2>3. QED
    BY <2>2 DEF Ledger!Next
<1>4. ASSUME NEW c \in Claims, PrepareBegin(c) PROVE UNCHANGED Ledger!ledgerVars
  BY <1>1, <1>4 DEF PrepareBegin
<1>5. ASSUME NEW c \in Claims, UnprepareUnknown(c) PROVE Ledger!Next
  <2>1. OnRecord' = OnRecord
    BY <1>2, <1>5 DEF UnprepareUnknown
  <2>2. Ledger!Release(c)
    BY <1>5, <2>1 DEF UnprepareUnknown, Ledger!Release
  <2>3. QED
    BY <2>2 DEF Ledger!Next
<1>6. ASSUME NEW c \in Claims, Unprepare(c) PROVE Ledger!Next
  <2>1. /\ running /\ running' = running
        /\ granted' = granted \ {c}
        /\ prepared' \in {prepared, Delete(prepared, c)}
    BY <1>6 DEF Unprepare, StoreTruncate
  <2>2. OnRecord' \in {OnRecord, OnRecord \ {c}}
    BY <2>1 DEF OnRecord, Delete
  <2>3. Ledger!Release(c)
    BY <2>1, <2>2 DEF Ledger!Release
  <2>4. QED
    BY <2>3 DEF Ledger!Next
<1>7. CASE PrepareStore
  <2>1. /\ running /\ running' = running /\ granted' = granted
        /\ prepared' = Put(prepared, claim, acc)
        /\ claim \in Claims
    BY <1>7 DEF PrepareStore, StoreTruncate, RecordInv, ExclusiveInv, Stopped, TypeOK
  <2>2. OnRecord' = OnRecord \cup {claim}
    BY <2>1 DEF OnRecord, Put
  <2>3. Ledger!Record(claim)
    BY <1>7, <2>1, <2>2, RecordIsFree DEF Ledger!Record
  <2>4. QED
    BY <2>1, <2>3 DEF Ledger!Next
<1>8. CASE PrepareStep /\ ~PrepareStore
  BY <1>1, <1>8 DEF PrepareStep, PrepareSkip, PrepareReject, PrepareBound, PrepareUnbindFails,
                    Unbind, BindFails, Bind
<1>9. CASE \E ok \in BOOLEAN : Write(ok)
  <2>1. /\ running /\ UNCHANGED <<running, prepared, granted>>
    BY <1>9 DEF Write, RecordInv, ExclusiveInv, Stopped
  <2>2. QED
    BY <1>2, <2>1 DEF Ledger!ledgerVars
<1>10. CASE Return
  <2>1. running /\ UNCHANGED <<running, prepared, checkpoint, torn>>
    BY <1>10 DEF Return, RecordInv, ExclusiveInv, Stopped
  <2>2. CASE phase = "granting"
    <3>1. claim \in Claims /\ claim \in OnRecord /\ OnRecord' = OnRecord
      BY <1>2, <2>1, <2>2 DEF OnRecord, RecordInv, CheckpointCurrent, ExclusiveInv, TypeOK
    <3>2. Ledger!Grant(claim)
      BY <1>10, <2>2, <3>1 DEF Return, Ledger!Grant
    <3>3. QED
      BY <3>1, <3>2 DEF Ledger!Next
  <2>3. CASE phase # "granting"
    BY <1>1, <1>10, <2>1, <2>3 DEF Return
  <2>4. QED
    BY <2>2, <2>3
<1>11. CASE Refresh \/ (\E d \in Devices : ExternalChange(d)) \/ StartWatch
  BY <1>1, <1>11 DEF Refresh, ExternalChange, StartWatch
<1>12. CASE UNCHANGED vars
  BY <1>1, <1>12 DEF vars
<1>13. QED
  BY <1>3, <1>4, <1>5, <1>6, <1>7, <1>8, <1>9, <1>10, <1>11, <1>12, LedgerProcess DEF Next

\* As long as the checkpoint can be written, rebinding, partial failures, retries, crashes
\* and restarts keep what DeviceLedger promises (node_state.go:213, 405 and 57).
THEOREM ImplementsLedgerAlways ==
  ASSUME ~WriteFaults
  PROVE  Spec => ImplementsLedger
<1>1. Spec => []RecordInv
  BY RecordInit, RecordStep, PTL DEF Spec
<1>2. QED
  BY <1>1, LedgerInit, LedgerStep, PTL DEF Spec, ImplementsLedger, Ledger!Spec

-----------------------------------------------------------------------------
(* The taints of changed drivers: only devices the plugin knows carry one,  *)
(* and Unprepare clears those of its claim's devices.                       *)

TaintInv ==
  /\ ExclusiveInv
  /\ driverTaint \subseteq allocatable
  /\ ~running => driverTaint = {}
  /\ TaintOnlyInUse

LEMMA TaintSame ==
  ASSUME TaintInv, ExclusiveInv', UNCHANGED <<running, prepared, driverTaint>>,
         allocatable \subseteq allocatable'
  PROVE  TaintInv'
BY DEF TaintInv, TaintOnlyInUse, DevicesOf

LEMMA TaintStore ==
  ASSUME TaintInv, ExclusiveInv', PrepareStore
  PROVE  TaintInv'
<1>1. /\ prepared' = Put(prepared, claim, acc) /\ claim \notin DOMAIN prepared
      /\ UNCHANGED <<running, allocatable, driverTaint>>
  BY DEF PrepareStore, StoreTruncate, deviceVars, TaintInv, ExclusiveInv, Accepted, Preparing
<1>2. \A c \in DOMAIN prepared : c \in DOMAIN prepared' /\ prepared'[c] = prepared[c]
  BY <1>1 DEF Put
<1>3. QED
  BY <1>1, <1>2 DEF TaintInv, TaintOnlyInUse, DevicesOf

\* A taint that stays after Unprepare is on a device of another claim.
LEMMA TaintUnprepare ==
  ASSUME TaintInv, ExclusiveInv', NEW c \in Claims, Unprepare(c)
  PROVE  TaintInv'
<1>1. /\ running /\ running' = running /\ allocatable' = allocatable
      /\ driverTaint' = driverTaint \ ClaimTaints(c)
      /\ prepared' \in {prepared, Delete(prepared, c)}
  BY DEF Unprepare, StoreTruncate, claimVars
<1>2. ASSUME NEW d \in driverTaint'
      PROVE  \E o \in DOMAIN prepared' : d \in DevicesOf(o)'
  <2>1. d \in driverTaint /\ d \in allocatable /\ d \notin DevicesOf(c)
    BY <1>1, <1>2 DEF ClaimTaints, TaintInv
  <2>2. PICK o \in DOMAIN prepared : d \in DevicesOf(o)
    BY <2>1 DEF TaintInv, TaintOnlyInUse
  <2>3. o \in DOMAIN prepared' /\ prepared'[o] = prepared[o]
    BY <1>1, <2>1, <2>2 DEF Delete
  <2>4. QED
    BY <2>2, <2>3 DEF DevicesOf
<1>3. QED
  BY <1>1, <1>2 DEF TaintInv, TaintOnlyInUse

LEMMA TaintRefresh ==
  ASSUME TaintInv, ExclusiveInv', Refresh
  PROVE  TaintInv'
<1> DEFINE d == Head(events).device
<1>1. running /\ UNCHANGED <<running, prepared>> /\ TypeOK
  BY DEF Refresh, claimVars, TaintInv, ExclusiveInv
<1>2. CASE d \in allocatable /\ RefreshKnown(d, Head(events).driver)
  <2>1. allocatable' = allocatable
    BY <1>2 DEF RefreshKnown
  <2>2. driverTaint' = driverTaint \/ (driverTaint' = driverTaint \cup {d} /\ UsedExclusively(d, NoClaim))
    BY <1>2 DEF RefreshKnown
  <2>3. UsedExclusively(d, NoClaim) => \E c \in DOMAIN prepared : d \in DevicesOf(c)
    BY DEF UsedExclusively, DevicesOf
  <2>4. QED
    BY <1>1, <1>2, <2>1, <2>2, <2>3 DEF TaintInv, TaintOnlyInUse, DevicesOf
<1>3. CASE RefreshNew(d)
  BY <1>1, <1>3, TaintSame DEF RefreshNew
<1>4. CASE RefreshAbsent(d)
  BY <1>1, <1>4, TaintSame DEF RefreshAbsent
<1>5. QED
  BY <1>2, <1>3, <1>4 DEF Refresh

LEMMA TaintStep == TaintInv /\ [Next]_vars => TaintInv'
<1> SUFFICES ASSUME TaintInv, [Next]_vars PROVE TaintInv'
  OBVIOUS
<1> USE DEF claimVars, deviceVars
<1>1. ExclusiveInv'
  BY ExclusiveStep DEF TaintInv
<1>2. CASE \E c \in Claims : PrepareAgain(c) \/ PrepareBegin(c) \/ UnprepareUnknown(c)
  BY <1>1, <1>2, TaintSame DEF PrepareAgain, PrepareBegin, UnprepareUnknown
<1>3. CASE PrepareStep /\ ~PrepareStore
  BY <1>1, <1>3, TaintSame
     DEF PrepareStep, PrepareSkip, PrepareReject, PrepareBound, PrepareUnbindFails, Unbind,
         BindFails, Bind
<1>4. CASE (\E ok \in BOOLEAN : Write(ok)) \/ Return \/ (\E d \in Devices : ExternalChange(d))
           \/ StartWatch
  BY <1>1, <1>4, TaintSame DEF Write, Return, ExternalChange, StartWatch
<1>5. CASE Crash \/ Reboot
  BY <1>1, <1>5 DEF Crash, Reboot, Stop, TaintInv, TaintOnlyInUse
<1>6. CASE Restart
  <2>1. driverTaint' = {}
    BY <1>6 DEF Restart, TaintInv
  <2>2. QED
    BY <1>1, <2>1 DEF TaintInv, TaintOnlyInUse
<1>7. CASE UNCHANGED vars
  BY <1>1, <1>7, TaintSame DEF vars
<1>8. QED
  BY <1>1, <1>2, <1>3, <1>4, <1>5, <1>6, <1>7, TaintStore, TaintUnprepare, TaintRefresh
     DEF Next, PrepareStep

\* An UnexpectedDriver taint goes with the claims: no device keeps it that nobody has
\* prepared (node_state.go:389 and 635).
THEOREM TaintOnlyInUseAlways == Spec => []TaintOnlyInUse
<1>1. Init => TaintInv
  BY ExclusiveInit DEF Init, TaintInv, TaintOnlyInUse
<1>2. TaintInv => TaintOnlyInUse
  BY DEF TaintInv
<1>3. QED
  BY <1>1, TaintStep, <1>2, PTL DEF Spec

-----------------------------------------------------------------------------
(* The cached drivers: a device whose cached driver is not the kernel's     *)
(* will be looked at again, or its last event came when the device could    *)
(* not be discovered.                                                       *)

NoneOf(s, d) == \A i \in 1..Len(s) : s[i].device # d

\* The last event of s for d names drv.
LastIs(s, d, drv) ==
  \E i \in 1..Len(s) :
    /\ s[i].device = d /\ s[i].driver = drv
    /\ \A j \in 1..Len(s) : j > i => s[j].device # d

Followed(d) ==
  \/ currentDriver[d] = sysfsDriver[d]
  \/ LastIs(events, d, sysfsDriver[d])
  \/ d \in absentTaint /\ NoneOf(events, d)

CacheInv ==
  /\ TypeOK
  /\ \A d \in (allocatable \cap Present) \ unseen : Followed(d)

LEMMA AppendLast ==
  ASSUME NEW s \in Seq(Event), NEW e \in Event
  PROVE  LastIs(Append(s, e), e.device, e.driver)
<1>1. Len(Append(s, e)) = Len(s) + 1 /\ Append(s, e)[Len(s) + 1] = e /\ Len(s) \in Nat
  OBVIOUS
<1>2. \A j \in 1..Len(Append(s, e)) : ~(j > Len(s) + 1)
  BY <1>1
<1>3. QED
  BY <1>1, <1>2 DEF LastIs

LEMMA AppendOther ==
  ASSUME NEW s \in Seq(Event), NEW e \in Event, NEW d, NEW drv, e.device # d
  PROVE  /\ LastIs(s, d, drv) => LastIs(Append(s, e), d, drv)
         /\ NoneOf(s, d) => NoneOf(Append(s, e), d)
<1> DEFINE t == Append(s, e)
<1>1. /\ Len(t) = Len(s) + 1 /\ t[Len(s) + 1] = e /\ Len(s) \in Nat
      /\ \A i \in 1..Len(s) : t[i] = s[i]
  OBVIOUS
<1>2. \A i \in 1..Len(t) : i \in 1..Len(s) \/ i = Len(s) + 1
  BY <1>1
<1>3. ASSUME LastIs(s, d, drv) PROVE LastIs(t, d, drv)
  <2>1. PICK i \in 1..Len(s) : /\ s[i].device = d /\ s[i].driver = drv
                               /\ \A j \in 1..Len(s) : j > i => s[j].device # d
    BY <1>3 DEF LastIs
  <2>2. i \in 1..Len(t) /\ t[i] = s[i]
    BY <1>1
  <2>3. \A j \in 1..Len(t) : j > i => t[j].device # d
    BY <1>1, <1>2, <2>1
  <2>4. QED
    BY <2>1, <2>2, <2>3 DEF LastIs
<1>4. NoneOf(s, d) => NoneOf(t, d)
  BY <1>1, <1>2 DEF NoneOf
<1>5. QED
  BY <1>3, <1>4

\* Without its first element a sequence has the same last event for d, unless that was
\* the only one.
LEMMA TailLast ==
  ASSUME NEW s \in Seq(Event), s # <<>>, NEW d, NEW drv
  PROVE  /\ LastIs(s, d, drv) =>
              \/ LastIs(Tail(s), d, drv)
              \/ Head(s).device = d /\ Head(s).driver = drv /\ NoneOf(Tail(s), d)
         /\ NoneOf(s, d) => NoneOf(Tail(s), d) /\ Head(s).device # d
<1> DEFINE t == Tail(s)
<1>1. /\ Len(s) \in Nat \ {0} /\ Len(t) = Len(s) - 1 /\ Head(s) = s[1]
      /\ \A i \in 1..Len(t) : t[i] = s[i + 1]
  OBVIOUS
<1>2. ASSUME LastIs(s, d, drv)
      PROVE  LastIs(t, d, drv) \/ (s[1].device = d /\ s[1].driver = drv /\ NoneOf(t, d))
  <2>1. PICK i \in 1..Len(s) : /\ s[i].device = d /\ s[i].driver = drv
                               /\ \A j \in 1..Len(s) : j > i => s[j].device # d
    BY <1>2 DEF LastIs
  <2>2. CASE i = 1
    <3>1. \A j \in 1..Len(t) : j + 1 \in 1..Len(s) /\ j + 1 > i
      BY <1>1, <2>2
    <3>2. QED
      BY <1>1, <2>1, <2>2, <3>1 DEF NoneOf
  <2>3. CASE i # 1
    <3>1. i - 1 \in 1..Len(t) /\ t[i - 1] = s[i]
      BY <1>1, <2>3
    <3>2. \A j \in 1..Len(t) : j > i - 1 => j + 1 \in 1..Len(s) /\ j + 1 > i
      BY <1>1
    <3>3. \A j \in 1..Len(t) : j > i - 1 => t[j].device # d
      BY <1>1, <2>1, <3>2
    <3>4. QED
      BY <2>1, <3>1, <3>3 DEF LastIs
  <2>4. QED
    BY <2>2, <2>3
<1>3. ASSUME NoneOf(s, d) PROVE NoneOf(t, d) /\ s[1].device # d
  <2>1. \A j \in 1..Len(t) : j + 1 \in 1..Len(s)
    BY <1>1
  <2>2. QED
    BY <1>1, <1>3, <2>1 DEF NoneOf
<1>4. QED
  BY <1>1, <1>2, <1>3

LEMMA CacheSame ==
  ASSUME CacheInv, TypeOK',
         UNCHANGED <<allocatable, currentDriver, absentTaint, sysfsDriver, events, unseen>>
  PROVE  CacheInv'
BY DEF CacheInv, Followed, Present, LastIs, NoneOf

\* An event for d leaves the other devices as they were.
LEMMA FollowedAfterEvent ==
  ASSUME TypeOK, NEW e \in Event, events' = events \/ events' = Append(events, e),
         NEW x \in Devices, x # e.device, Followed(x),
         currentDriver'[x] = currentDriver[x], sysfsDriver'[x] = sysfsDriver[x],
         absentTaint' = absentTaint
  PROVE  Followed(x)'
<1>1. events \in Seq(Event)
  BY DEF TypeOK
<1>2. CASE events' = events
  BY <1>2 DEF Followed, LastIs, NoneOf
<1>3. CASE events' = Append(events, e)
  <2>1. /\ LastIs(events, x, sysfsDriver[x]) => LastIs(events', x, sysfsDriver[x])
        /\ NoneOf(events, x) => NoneOf(events', x)
    BY <1>1, <1>3, AppendOther
  <2>2. QED
    BY <2>1 DEF Followed
<1>4. QED
  BY <1>2, <1>3

\* The kernel changes the driver of d: an event follows, or nobody watches.
LEMMA CacheSysfsChange ==
  ASSUME CacheInv, TypeOK', NEW d \in Devices, NEW drv \in SysfsStates, SysfsChange(d, drv),
         unseen' = IF watching THEN unseen ELSE unseen \cup {d},
         UNCHANGED deviceVars
  PROVE  CacheInv'
<1> DEFINE e == [device |-> d, driver |-> IF drv \in Drivers THEN drv ELSE "unbound"]
<1>1. TypeOK /\ events \in Seq(Event) /\ sysfsDriver \in [Devices -> SysfsStates]
  BY DEF CacheInv, TypeOK
<1>2. e \in Event /\ e.device = d
  BY DEF Event
<1>3. events' = IF watching THEN Append(events, e) ELSE events
  BY DEF SysfsChange
<1>4. sysfsDriver'[d] = drv /\ \A x \in Devices \ {d} : sysfsDriver'[x] = sysfsDriver[x]
  BY <1>1 DEF SysfsChange
<1>5. UNCHANGED <<allocatable, currentDriver, absentTaint>>
  BY DEF deviceVars
<1>6. ASSUME NEW x \in (allocatable' \cap Present') \ unseen'
      PROVE  Followed(x)'
  <2>1. x \in Devices
    BY <1>6 DEF Present
  <2>2. CASE x = d
    <3>1. watching /\ drv # "absent"
      BY <1>4, <1>6, <2>2 DEF Present
    <3>2. e.driver = sysfsDriver'[d]
      BY <1>4, <3>1 DEF SysfsStates
    <3>3. LastIs(events', d, sysfsDriver'[d])
      BY <1>1, <1>2, <1>3, <3>1, <3>2, AppendLast
    <3>4. QED
      BY <2>2, <3>3 DEF Followed
  <2>3. CASE x # d
    <3>1. Followed(x)
      BY <1>4, <1>5, <1>6, <2>1, <2>3 DEF CacheInv, Present
    <3>2. events' = events \/ events' = Append(events, e)
      BY <1>3
    <3>3. QED
      BY <1>1, <1>2, <1>4, <1>5, <2>1, <2>3, <3>1, <3>2, FollowedAfterEvent
  <2>4. QED
    BY <2>2, <2>3
<1>7. QED
  BY <1>6 DEF CacheInv

\* The plugin binds a device and its cached driver follows.
LEMMA CacheBind ==
  ASSUME CacheInv, TypeOK', Bind
  PROVE  CacheInv'
<1> DEFINE d == Current.device
           target == TargetDriver(Current)
           e == [device |-> d, driver |-> target]
<1>1. TypeOK
  BY DEF CacheInv
<1>2. d \in Devices
  BY <1>1, CurrentType DEF Bind, TypeOK, Result
<1>3. e \in Event /\ e.device = d
  BY <1>2 DEF Event, TargetDriver, Drivers
<1>4. /\ sysfsDriver' = [sysfsDriver EXCEPT ![d] = target]
      /\ currentDriver' = [currentDriver EXCEPT ![d] = target]
      /\ unseen' = unseen \ {d}
      /\ events' = events \/ events' = Append(events, e)
      /\ UNCHANGED <<allocatable, absentTaint>>
  BY DEF Bind, SetCurrentDriver
<1>5. ASSUME NEW x \in (allocatable' \cap Present') \ unseen'
      PROVE  Followed(x)'
  <2>1. x \in Devices
    BY <1>5 DEF Present
  <2>2. CASE x = d
    BY <1>1, <1>2, <1>4, <2>2 DEF Followed, TypeOK
  <2>3. CASE x # d
    <3>1. sysfsDriver'[x] = sysfsDriver[x] /\ currentDriver'[x] = currentDriver[x]
      BY <1>1, <1>4, <2>1, <2>3 DEF TypeOK
    <3>2. Followed(x)
      BY <1>4, <1>5, <2>1, <2>3, <3>1 DEF CacheInv, Present
    <3>3. QED
      BY <1>1, <1>3, <1>4, <2>1, <2>3, <3>1, <3>2, FollowedAfterEvent
  <2>4. QED
    BY <2>2, <2>3
<1>6. QED
  BY <1>5 DEF CacheInv

\* The oldest event is handled: its device is looked at, the others keep theirs.
LEMMA CacheRefresh ==
  ASSUME CacheInv, TypeOK', Refresh
  PROVE  CacheInv'
<1>1. /\ TypeOK /\ events \in Seq(Event) /\ events # <<>>
      /\ events' = Tail(events) /\ sysfsDriver' = sysfsDriver
  BY DEF CacheInv, TypeOK, Refresh
<1>2. currentDriver \in [Devices -> Drivers \cup {"unbound"}] /\ Head(events) \in Event
  BY <1>1 DEF TypeOK
<1>d. PICK d \in Devices : d = Head(events).device
  BY <1>2 DEF Event
<1>3. ASSUME NEW x \in Devices, x # d, Followed(x), currentDriver'[x] = currentDriver[x],
             x \in absentTaint <=> x \in absentTaint'
      PROVE  Followed(x)'
  <2>1. /\ LastIs(events, x, sysfsDriver[x]) => LastIs(events', x, sysfsDriver[x])
        /\ NoneOf(events, x) => NoneOf(events', x)
    BY <1>1, <1>3, <1>d, TailLast
  <2>2. QED
    BY <1>1, <1>3, <2>1 DEF Followed
<1>4. CASE d \in allocatable /\ sysfsDriver[d] # "absent" /\ RefreshKnown(d, Head(events).driver)
  <2>1. /\ allocatable' = allocatable /\ absentTaint' = absentTaint \ {d}
        /\ unseen' = unseen \/ unseen' = unseen \ {d}
        /\ \A x \in Devices \ {d} : currentDriver'[x] = currentDriver[x]
    BY <1>2, <1>4 DEF RefreshKnown, SetCurrentDriver
  <2>2. CASE Ignored(d, Head(events).driver)
    <3>1. unseen' = unseen /\ currentDriver' = currentDriver
      BY <1>4, <2>2 DEF RefreshKnown
    <3>2. ASSUME Followed(d) PROVE Followed(d)'
      <4>1. sysfsDriver[d] # Head(events).driver
        BY <2>2 DEF Ignored
      <4>2. ~NoneOf(events, d)
        BY <1>1, <1>d, TailLast
      <4>3. LastIs(events, d, sysfsDriver[d]) => LastIs(events', d, sysfsDriver[d])
        BY <1>1, <1>d, <4>1, TailLast
      <4>4. QED
        BY <1>1, <3>1, <3>2, <4>2, <4>3 DEF Followed
    <3>3. ASSUME NEW x \in (allocatable' \cap Present') \ unseen' PROVE Followed(x)'
      <4>1. Followed(x) /\ x \in Devices
        BY <1>1, <2>1, <3>1, <3>3 DEF CacheInv, Present
      <4>2. QED
        BY <1>3, <2>1, <3>2, <4>1
    <3>4. QED
      BY <3>3 DEF CacheInv
  <2>3. CASE ~Ignored(d, Head(events).driver)
    <3>1. unseen' = unseen \ {d} /\ currentDriver'[d] = sysfsDriver[d]
      BY <1>2, <1>4, <2>3 DEF RefreshKnown, SetCurrentDriver
    <3>2. ASSUME NEW x \in (allocatable' \cap Present') \ unseen' PROVE Followed(x)'
      <4>1. CASE x = d
        BY <1>1, <3>1, <4>1 DEF Followed
      <4>2. CASE x # d
        <5>1. Followed(x) /\ x \in Devices
          BY <1>1, <2>1, <3>1, <3>2, <4>2 DEF CacheInv, Present
        <5>2. QED
          BY <1>3, <2>1, <4>2, <5>1
      <4>3. QED
        BY <4>1, <4>2
    <3>3. QED
      BY <3>2 DEF CacheInv
  <2>4. QED
    BY <2>2, <2>3
<1>5. CASE RefreshNew(d)
  <2>1. /\ allocatable' = allocatable \cup {d} /\ currentDriver'[d] = sysfsDriver[d]
        /\ unseen' = unseen \ {d} /\ absentTaint' = absentTaint
        /\ \A x \in Devices \ {d} : currentDriver'[x] = currentDriver[x]
    BY <1>2, <1>5 DEF RefreshNew, SetCurrentDriver
  <2>2. ASSUME NEW x \in (allocatable' \cap Present') \ unseen' PROVE Followed(x)'
    <3>1. CASE x = d
      BY <1>1, <2>1, <3>1 DEF Followed
    <3>2. CASE x # d
      <4>1. Followed(x) /\ x \in Devices
        BY <1>1, <2>1, <2>2, <3>2 DEF CacheInv, Present
      <4>2. QED
        BY <1>3, <2>1, <3>2, <4>1
    <3>3. QED
      BY <3>1, <3>2
  <2>3. QED
    BY <2>2 DEF CacheInv
<1>6. CASE RefreshAbsent(d)
  <2>1. /\ UNCHANGED <<allocatable, currentDriver, unseen>>
        /\ absentTaint' = absentTaint \cup ({d} \cap allocatable)
    BY <1>6 DEF RefreshAbsent
  <2>2. ASSUME NEW x \in (allocatable' \cap Present') \ unseen' PROVE Followed(x)'
    <3>1. Followed(x) /\ x \in Devices
      BY <1>1, <2>1, <2>2 DEF CacheInv, Present
    <3>2. CASE x = d
      <4>1. x \in absentTaint'
        BY <2>1, <2>2, <3>2
      <4>2. /\ LastIs(events, d, sysfsDriver[d]) =>
                 LastIs(events', d, sysfsDriver[d]) \/ NoneOf(events', d)
            /\ ~NoneOf(events, d)
        BY <1>1, <1>d, TailLast
      <4>3. QED
        BY <1>1, <2>1, <3>1, <3>2, <4>1, <4>2 DEF Followed
    <3>3. CASE x # d
      BY <1>3, <2>1, <3>1, <3>3
    <3>4. QED
      BY <3>2, <3>3
  <2>3. QED
    BY <2>2 DEF CacheInv
<1>7. QED
  BY <1>4, <1>5, <1>6, <1>d DEF Refresh

LEMMA CacheStep == CacheInv /\ [Next]_vars => CacheInv'
<1> SUFFICES ASSUME CacheInv, [Next]_vars PROVE CacheInv'
  OBVIOUS
<1> USE DEF deviceVars, kernelVars
<1>1. TypeOK' /\ TypeOK
  BY StepType DEF CacheInv
<1>2. CASE (\E c \in Claims : PrepareAgain(c) \/ PrepareBegin(c) \/ UnprepareUnknown(c) \/ Unprepare(c))
           \/ PrepareSkip \/ PrepareReject \/ PrepareBound \/ PrepareUnbindFails
           \/ BindFails \/ PrepareStore
  BY <1>1, <1>2, CacheSame
     DEF PrepareAgain, PrepareBegin, UnprepareUnknown, Unprepare, PrepareSkip, PrepareReject,
         PrepareBound, PrepareUnbindFails, BindFails, PrepareStore
<1>3. CASE (\E ok \in BOOLEAN : Write(ok)) \/ Return \/ StartWatch
  BY <1>1, <1>3, CacheSame DEF Write, Return, StartWatch
<1>4. CASE Unbind
  <2> DEFINE d == Current.device
  <2>1. d \in Devices
    BY <1>1, <1>4, CurrentType DEF Unbind, AtOwnResult, AtResult, Result
  <2>2. CASE UNCHANGED kernelVars
    BY <1>1, <1>4, <2>2, CacheSame DEF Unbind
  <2>3. CASE SysfsChange(d, "unbound") /\ unseen' = IF watching THEN unseen ELSE unseen \cup {d}
    BY <1>1, <1>4, <2>1, <2>3, CacheSysfsChange DEF Unbind, SysfsStates
  <2>4. QED
    BY <1>4, <2>2, <2>3 DEF Unbind
<1>5. ASSUME NEW d \in Devices, ExternalChange(d) PROVE CacheInv'
  BY <1>1, <1>5, CacheSysfsChange DEF ExternalChange
<1>6. CASE Crash \/ Reboot
  BY <1>1, <1>6 DEF Crash, Reboot, Stop, CacheInv
<1>7. CASE Restart
  <2>1. PICK found \in SUBSET Present :
          IF torn THEN UNCHANGED <<prepared, allocatable, currentDriver>>
          ELSE /\ allocatable' = found
               /\ currentDriver' = [x \in Devices |-> IF x \in found THEN sysfsDriver[x] ELSE "unbound"]
    BY <1>7 DEF Restart
  <2>2. UNCHANGED <<absentTaint, sysfsDriver, events, unseen>>
    BY <1>7 DEF Restart
  <2>3. CASE torn
    BY <1>1, <2>1, <2>2, <2>3, CacheSame
  <2>4. CASE ~torn
    BY <1>1, <2>1, <2>2, <2>4 DEF CacheInv, Followed, Present
  <2>5. QED
    BY <2>3, <2>4
<1>8. CASE UNCHANGED vars
  BY <1>1, <1>8, CacheSame DEF vars
<1>9. QED
  BY <1>1, <1>2, <1>3, <1>4, <1>5, <1>6, <1>7, <1>8, CacheBind, CacheRefresh DEF Next, PrepareStep

\* When every udev event was handled, the cached driver of each device is the kernel's,
\* whoever changed it and whatever crashed (node_state.go:330), unless the device was
\* changed before the monitor was started or is tainted for being absent.
THEOREM CacheFollowsKernelAlways == Spec => []CacheFollowsKernel
<1>1. Init => CacheInv
  BY InitType DEF Init, CacheInv
<1>2. CacheInv => CacheFollowsKernel
  <2>1. ASSUME events = <<>> PROVE \A d : ~LastIs(events, d, sysfsDriver[d])
    BY <2>1 DEF LastIs
  <2>2. QED
    BY <2>1 DEF CacheInv, CacheFollowsKernel, Followed
<1>3. QED
  BY <1>1, CacheStep, <1>2, PTL DEF Spec

-----------------------------------------------------------------------------
(* A node where nobody but the plugin changes drivers, and the kernel does  *)
(* what it is asked: the plugin knows every device, and outside a rebind    *)
(* its driver and its device nodes.                                         *)

Undisturbed == ~ExternalChanges /\ ~KernelFaults

Rebinding(d) == phase = "rebind" /\ d = Current.device

UpToDate(d) ==
  /\ currentDriver[d] = sysfsDriver[d]
  /\ sysfsDriver[d] \in Drivers => cdiEdits[d] = "fresh"

FollowInv ==
  /\ TypeOK
  /\ ~running => phase = "idle"
  /\ \A d \in Devices : sysfsDriver[d] # "absent"
  /\ \A d \in Devices : Rebinding(d) => sysfsDriver[d] = "unbound"
  /\ running => allocatable = Devices /\ \A d \in Devices : Rebinding(d) \/ UpToDate(d)
  /\ driverTaint = {}

LEMMA FollowSame ==
  ASSUME FollowInv, TypeOK', phase # "rebind", phase' # "rebind", running \/ UNCHANGED phase,
         UNCHANGED <<running, allocatable, currentDriver, sysfsDriver, cdiEdits>>,
         driverTaint' \subseteq driverTaint
  PROVE  FollowInv'
BY DEF FollowInv, Rebinding, UpToDate

\* A device is bound to no driver while it is being rebound.
LEMMA FollowUnbind ==
  ASSUME FollowInv, TypeOK', Unbind, running
  PROVE  FollowInv'
<1>1. TypeOK /\ phase = "devices" /\ phase' = "rebind"
  BY DEF FollowInv, Unbind, AtOwnResult, AtResult
<1>2. PICK d \in Devices : d = Current.device
  BY <1>1, CurrentType DEF Unbind, AtOwnResult, AtResult, Result
<1>3. Current' = Current /\ UNCHANGED <<running, allocatable, currentDriver, driverTaint>>
  BY DEF Current, Unbind, deviceVars
<1>4. sysfsDriver'[d] = "unbound"
  <2>1. CASE sysfsDriver[d] \in Drivers
    BY <1>1, <1>2, <2>1 DEF Unbind, SysfsChange, TypeOK
  <2>2. CASE sysfsDriver[d] \notin Drivers
    <3>1. sysfsDriver[d] = "unbound"
      BY <1>1, <2>2 DEF FollowInv, TypeOK, SysfsStates
    <3>2. QED
      BY <1>2, <2>2, <3>1 DEF Unbind, kernelVars
  <2>3. QED
    BY <2>1, <2>2
<1>5. \A x \in Devices \ {d} : sysfsDriver'[x] = sysfsDriver[x] /\ cdiEdits'[x] = cdiEdits[x]
  BY <1>1, <1>2 DEF Unbind, SysfsChange, kernelVars, TypeOK
<1>6. \A x \in Devices : Rebinding(x)' <=> x = d
  BY <1>1, <1>2, <1>3 DEF Rebinding
<1>7. \A x \in Devices \ {d} : UpToDate(x)'
  BY <1>1, <1>3, <1>5 DEF FollowInv, Rebinding, UpToDate
<1>8. QED
  BY <1>1, <1>3, <1>4, <1>5, <1>6, <1>7 DEF FollowInv

LEMMA FollowBind ==
  ASSUME FollowInv, TypeOK', ~KernelFaults, Bind, running
  PROVE  FollowInv'
<1>1. TypeOK /\ phase = "rebind" /\ phase' = "devices"
  BY DEF FollowInv, Bind, Prepared
<1>2. PICK d \in Devices : d = Current.device
  BY <1>1, CurrentType DEF Result, TypeOK
<1>3. TargetDriver(Current) \in Drivers
  BY DEF TargetDriver, Drivers
<1>4. /\ currentDriver' = [currentDriver EXCEPT ![d] = TargetDriver(Current)]
      /\ sysfsDriver' = [sysfsDriver EXCEPT ![d] = TargetDriver(Current)]
      /\ cdiEdits' = [cdiEdits EXCEPT ![d] = "fresh"]
      /\ UNCHANGED <<running, allocatable, driverTaint>>
  BY <1>2, <1>3 DEF Bind, SetCurrentDriver, UpdateGPUDevices
<1>5. UpToDate(d)'
  BY <1>1, <1>4 DEF UpToDate, TypeOK
<1>6. ASSUME NEW x \in Devices, x # d PROVE UpToDate(x)'
  BY <1>1, <1>2, <1>4, <1>6 DEF FollowInv, UpToDate, Rebinding, TypeOK
<1>7. \A x \in Devices : sysfsDriver'[x] # "absent" /\ ~Rebinding(x)'
  BY <1>1, <1>3, <1>4 DEF FollowInv, Rebinding, TypeOK, Drivers
<1>8. QED
  BY <1>1, <1>4, <1>5, <1>6, <1>7 DEF FollowInv

\* No event tells the plugin anything new.
LEMMA FollowRefresh ==
  ASSUME FollowInv, TypeOK', ~KernelFaults, Refresh
  PROVE  FollowInv'
<1>1. TypeOK /\ Head(events) \in Event
  BY DEF FollowInv, TypeOK, Refresh
<1>2. PICK d \in Devices : d = Head(events).device
  BY <1>1 DEF Event
<1>3. /\ running /\ phase \notin Locked /\ UNCHANGED <<running, phase, sysfsDriver>>
      /\ d \in allocatable /\ sysfsDriver[d] # "absent" /\ currentDriver[d] = sysfsDriver[d]
  BY <1>2 DEF Refresh, FollowInv, callVars, Rebinding, UpToDate, Locked
<1>4. RefreshKnown(d, Head(events).driver)
  BY <1>2, <1>3 DEF Refresh
<1>5. UNCHANGED <<allocatable, cdiEdits, currentDriver, driverTaint>>
  BY <1>3, <1>4 DEF RefreshKnown
<1>6. QED
  BY <1>3, <1>5, FollowSame DEF Locked

LEMMA FollowProcess ==
  ASSUME FollowInv, TypeOK', ~KernelFaults, Crash \/ Reboot \/ Restart
  PROVE  FollowInv'
<1>1. CASE Crash \/ Reboot
  <2>1. ~running' /\ phase' = "idle" /\ driverTaint' = {}
    BY <1>1 DEF Crash, Reboot, Stop
  <2>2. \A d \in Devices : sysfsDriver'[d] # "absent"
    BY <1>1 DEF Crash, Reboot, FollowInv
  <2>3. QED
    BY <2>1, <2>2 DEF FollowInv, Rebinding
<1>2. CASE Restart
  <2>1. /\ AddDetectedDevicesToCDIRegistry(Present)
        /\ running' = ~torn /\ ~running
        /\ IF torn THEN UNCHANGED <<prepared, allocatable, currentDriver>>
           ELSE /\ allocatable' = Present
                /\ currentDriver' = [d \in Devices |-> IF d \in Present THEN sysfsDriver[d] ELSE "unbound"]
        /\ UNCHANGED <<phase, sysfsDriver, driverTaint>>
    BY <1>2 DEF Restart, callVars
  <2>2. Present = Devices
    BY DEF Present, FollowInv
  <2>3. phase = "idle"
    BY <2>1 DEF FollowInv
  <2>4. CASE torn
    BY <2>1, <2>3, <2>4 DEF FollowInv, Rebinding
  <2>5. CASE ~torn
    <3>1. \A d \in Devices : UpToDate(d)'
      BY <2>1, <2>2, <2>5 DEF UpToDate, AddDetectedDevicesToCDIRegistry
    <3>2. QED
      BY <2>1, <2>2, <2>3, <2>5, <3>1 DEF FollowInv, Rebinding
  <2>6. QED
    BY <2>4, <2>5
<1>3. QED
  BY <1>1, <1>2

LEMMA FollowStep ==
  ASSUME Undisturbed
  PROVE  FollowInv /\ [Next]_vars => FollowInv'
<1> SUFFICES ASSUME FollowInv, [Next]_vars PROVE FollowInv'
  OBVIOUS
<1> USE DEF deviceVars, kernelVars, callVars, Undisturbed
<1>1. TypeOK' /\ TypeOK
  BY StepType DEF FollowInv
<1>2. CASE \E c \in Claims : PrepareAgain(c) \/ PrepareBegin(c) \/ UnprepareUnknown(c)
  BY <1>1, <1>2, FollowSame DEF PrepareAgain, PrepareBegin, Enter, UnprepareUnknown
<1>3. ASSUME NEW c \in Claims, Unprepare(c) PROVE FollowInv'
  BY <1>1, <1>3, FollowSame DEF Unprepare, StoreTruncate
<1>4. CASE PrepareSkip \/ PrepareReject \/ PrepareBound \/ PrepareUnbindFails \/ PrepareStore
  <2>1. /\ phase = "devices" /\ phase' \in {"devices", "returning", "saving"} /\ running
        /\ UNCHANGED <<running, allocatable, currentDriver, sysfsDriver, cdiEdits, driverTaint>>
    BY <1>4 DEF PrepareSkip, PrepareReject, PrepareBound, PrepareUnbindFails, PrepareStore,
                AtOwnResult, AtResult, Prepared, StoreTruncate, FollowInv
  <2>2. QED
    BY <1>1, <2>1, FollowSame
<1>5. CASE Unbind
  BY <1>1, <1>5, FollowUnbind DEF FollowInv, Unbind, AtOwnResult, AtResult
<1>6. CASE Bind
  BY <1>1, <1>6, FollowBind DEF FollowInv, Bind
<1>7. ~BindFails
  <2>1. SUFFICES ASSUME phase = "rebind" PROVE sysfsDriver[Current.device] = "unbound"
    BY DEF BindFails
  <2>2. Current.device \in Devices
    BY <1>1, <2>1, CurrentType DEF Result, TypeOK
  <2>3. QED
    BY <2>1, <2>2 DEF FollowInv, Rebinding
<1>8. CASE (\E ok \in BOOLEAN : Write(ok)) \/ Return
  <2>1. /\ phase \notin {"idle", "rebind"} /\ phase' # "rebind" /\ running
        /\ UNCHANGED <<running, allocatable, currentDriver, sysfsDriver, cdiEdits, driverTaint>>
    BY <1>8 DEF Write, Return, FollowInv
  <2>2. QED
    BY <1>1, <2>1, FollowSame
<1>9. CASE StartWatch
  BY <1>1, <1>9 DEF StartWatch, FollowInv, Rebinding, UpToDate, Current
<1>10. ~ \E d \in Devices : ExternalChange(d)
  BY DEF ExternalChange
<1>11. CASE UNCHANGED vars
  BY <1>1, <1>11 DEF vars, FollowInv, Rebinding, UpToDate, Current
<1>12. QED
  BY <1>1, <1>2, <1>3, <1>4, <1>5, <1>6, <1>7, <1>8, <1>9, <1>10, <1>11,
     FollowRefresh, FollowProcess
     DEF Next, PrepareStep

LEMMA FollowInit == Init => FollowInv
<1> SUFFICES ASSUME Init PROVE FollowInv
  OBVIOUS
<1>1. ~running /\ phase = "idle" /\ driverTaint = {}
  BY DEF Init
<1>2. \A d \in Devices : sysfsDriver[d] # "absent"
  BY DEF Init
<1>3. QED
  BY <1>1, <1>2, InitType DEF FollowInv, Rebinding

\* Without changes by others the plugin's own rebinding raises no taint: its udev events
\* name drivers the plugin has in its cache already (node_state.go:373).
THEOREM OwnChangesNeverTaintAlways ==
  ASSUME ~KernelFaults
  PROVE  Spec => []OwnChangesNeverTaint
<1>1. CASE ExternalChanges
  <2>1. TypeOK => OwnChangesNeverTaint
    BY <1>1 DEF OwnChangesNeverTaint
  <2>2. QED
    BY <2>1, InitType, StepType, PTL DEF Spec
<1>2. CASE ~ExternalChanges
  <2>1. FollowInv /\ [Next]_vars => FollowInv'
    BY <1>2, FollowStep DEF Undisturbed
  <2>2. FollowInv => OwnChangesNeverTaint
    BY DEF FollowInv, OwnChangesNeverTaint
  <2>3. QED
    BY FollowInit, <2>1, <2>2, PTL DEF Spec
<1>3. QED
  BY <1>1, <1>2

\* Where only the plugin rebinds devices and no binding fails, a device is prepared only
\* with a CDI entry that describes the device nodes of its present binding
\* (node_state.go:465 and 522).
THEOREM FreshEditsAlways ==
  ASSUME Undisturbed
  PROVE  Spec => PreparedWithFreshEdits
<1>1. FollowInv /\ FollowInv' /\ [Next]_vars =>
        [~ExternalChanges => \A x \in acc' \ acc : cdiEdits'[x.device] = "fresh"]_vars
  <2> SUFFICES ASSUME FollowInv, FollowInv', [Next]_vars, NEW x \in acc' \ acc
               PROVE  cdiEdits'[x.device] = "fresh"
    BY DEF vars, callVars
  <2>1. TypeOK /\ running
    BY DEF FollowInv, Next, PrepareStep, PrepareAgain, PrepareBegin, Enter, UnprepareUnknown,
           Unprepare, PrepareSkip, PrepareReject, PrepareBound, PrepareUnbindFails, Unbind,
           BindFails, Bind, PrepareStore, Write, Return, Refresh, ExternalChange, Crash, Reboot,
           Stop, Restart, StartWatch, vars, callVars, AtOwnResult, AtResult
  <2>2. (PrepareBound \/ Bind) /\ Prepared(Current) /\ running'
    BY <2>1 DEF Next, PrepareStep, PrepareAgain, PrepareBegin, Enter, UnprepareUnknown,
           Unprepare, PrepareSkip, PrepareReject, PrepareBound, PrepareUnbindFails, Unbind,
           BindFails, Bind, PrepareStore, Write, Return, Refresh, ExternalChange, Crash, Reboot,
           Stop, Restart, StartWatch, vars, callVars
  <2>3. x.device = Current.device /\ phase' = "devices"
    BY <2>2 DEF Prepared
  <2>4. PICK d \in Devices : d = Current.device
    BY <2>1, <2>2, CurrentType DEF PrepareBound, Bind, AtOwnResult, AtResult, Result, TypeOK
  <2>5. UpToDate(d)'
    BY <2>2, <2>3 DEF FollowInv, Rebinding
  <2>6. sysfsDriver'[d] \in Drivers
    <3>1. TargetDriver(Current) \in Drivers
      BY DEF TargetDriver, Drivers
    <3>2. CASE PrepareBound
      <4>1. currentDriver[d] \in Drivers /\ sysfsDriver' = sysfsDriver /\ phase = "devices"
        BY <2>4, <3>1, <3>2 DEF PrepareBound, NeedsRebind, AtOwnResult, AtResult, kernelVars
      <4>2. currentDriver[d] = sysfsDriver[d]
        BY <2>1, <4>1 DEF FollowInv, Rebinding, UpToDate
      <4>3. QED
        BY <4>1, <4>2
    <3>3. CASE Bind
      BY <2>1, <2>4, <3>1, <3>3 DEF Bind, TypeOK
    <3>4. QED
      BY <2>2, <3>2, <3>3
  <2>7. QED
    BY <2>3, <2>4, <2>5, <2>6 DEF UpToDate
<1>2. QED
  BY FollowInit, FollowStep, <1>1, PTL DEF Spec, PreparedWithFreshEdits

-----------------------------------------------------------------------------
(* The drivers Prepare leaves devices bound to.                             *)

\* No claim has one device by two classes.
OneClass ==
  \A c \in Claims : \A i, j \in 1..Len(Allocation[c]) :
    LET a == Allocation[c][i]
        b == Allocation[c][j] IN
    a.local /\ b.local /\ a.device = b.device => a.vfio = b.vfio

BoundTo(r) == sysfsDriver[r.device] = TargetDriver(r)

\* The devices of the results before pos are bound as they should be.
BoundSoFar ==
  /\ phase \in Preparing \cup {"saving"} =>
       \A i \in 1..Len(Allocation[claim]) :
         i < pos /\ Allocation[claim][i].local => BoundTo(Allocation[claim][i])
  /\ phase = "rebind" => Current.local /\ currentDriver[Current.device] # TargetDriver(Current)
  /\ phase = "saving" => pos > Len(Allocation[claim])

BoundInv == FollowInv /\ BoundSoFar

\* Steps outside Prepare's loop.
LEMMA BoundSame ==
  ASSUME BoundSoFar, phase' \notin Preparing \cup {"saving"}
         \/ UNCHANGED <<phase, claim, pos, sysfsDriver, currentDriver>>
  PROVE  BoundSoFar'
BY DEF BoundSoFar, BoundTo, Current, Preparing, TargetDriver

\* The result at pos is passed, its device bound if it is this node's.
LEMMA BoundNext ==
  ASSUME TypeOK, BoundSoFar, phase \in Preparing, pos <= Len(Allocation[claim]),
         phase' = "devices", claim' = claim, pos' = pos + 1,
         \A i \in 1..Len(Allocation[claim]) :
           i < pos /\ Allocation[claim][i].local /\ BoundTo(Allocation[claim][i])
             => BoundTo(Allocation[claim][i])',
         Current.local => sysfsDriver'[Current.device] = TargetDriver(Current)
  PROVE  BoundSoFar'
<1>1. claim \in Claims /\ pos \in Nat /\ Len(Allocation[claim]) \in Nat
  BY AllocationType DEF TypeOK, Preparing
<1>2. ASSUME NEW i \in 1..Len(Allocation[claim]), i < pos + 1, Allocation[claim][i].local
      PROVE  BoundTo(Allocation[claim][i])'
  <2>1. CASE i = pos
    BY <1>2, <2>1 DEF BoundTo, Current
  <2>2. CASE i < pos
    BY <1>2, <2>2 DEF BoundSoFar
  <2>3. QED
    BY <1>1, <1>2, <2>1, <2>2
<1>3. QED
  BY <1>2 DEF BoundSoFar, Preparing

LEMMA BoundStep ==
  ASSUME Undisturbed, OneClass
  PROVE  BoundInv /\ [Next]_vars => BoundInv'
<1> SUFFICES ASSUME BoundInv, [Next]_vars PROVE BoundSoFar'
  BY FollowStep DEF BoundInv
<1> USE DEF deviceVars, kernelVars, callVars, outVars, Undisturbed
<1>1. /\ TypeOK /\ FollowInv /\ BoundSoFar
      /\ ~running => phase = "idle"
  BY DEF BoundInv, FollowInv
<1>2. CASE \E c \in Claims : PrepareAgain(c) \/ UnprepareUnknown(c)
  BY <1>1, <1>2, BoundSame DEF PrepareAgain, UnprepareUnknown
<1>3. ASSUME NEW c \in Claims, PrepareBegin(c) PROVE BoundSoFar'
  <2>1. phase' = "devices" /\ claim' = c /\ pos' = 1
    BY <1>3 DEF PrepareBegin, Enter
  <2>2. QED
    BY <2>1, AllocationType DEF BoundSoFar, Preparing
<1>4. ASSUME NEW c \in Claims, Unprepare(c) PROVE BoundSoFar'
  BY <1>1, <1>4, BoundSame DEF Unprepare, StoreTruncate, Preparing
<1>5. CASE PrepareSkip \/ PrepareBound
  <2>1. /\ phase = "devices" /\ phase' = "devices" /\ claim' = claim /\ pos' = pos + 1
        /\ pos <= Len(Allocation[claim]) /\ sysfsDriver' = sysfsDriver
    BY <1>5 DEF PrepareSkip, PrepareBound, Prepared, AtOwnResult, AtResult
  <2>2. ASSUME Current.local PROVE sysfsDriver'[Current.device] = TargetDriver(Current)
    <3>1. PrepareBound /\ running
      BY <1>1, <1>5, <2>1, <2>2 DEF PrepareSkip
    <3>2. Current.device \in Devices
      BY <1>1, <2>1, CurrentType DEF Result
    <3>3. currentDriver[Current.device] = sysfsDriver[Current.device]
      BY <1>1, <2>1, <3>1, <3>2 DEF FollowInv, Rebinding, UpToDate
    <3>4. QED
      BY <2>1, <3>1, <3>3 DEF PrepareBound, NeedsRebind
  <2>3. \A i \in 1..Len(Allocation[claim]) :
          i < pos /\ Allocation[claim][i].local /\ BoundTo(Allocation[claim][i])
            => BoundTo(Allocation[claim][i])'
    BY <2>1 DEF BoundTo, TargetDriver
  <2>4. QED
    BY <1>1, <2>1, <2>2, <2>3, BoundNext DEF Preparing
<1>6. CASE PrepareReject \/ PrepareUnbindFails \/ BindFails
  BY <1>1, <1>6, BoundSame DEF PrepareReject, PrepareUnbindFails, BindFails, Preparing
<1>7. CASE Unbind
  <2>1. /\ phase = "devices" /\ phase' = "rebind" /\ running
        /\ UNCHANGED <<claim, pos, currentDriver>>
        /\ Current.local /\ currentDriver[Current.device] # TargetDriver(Current)
        /\ pos <= Len(Allocation[claim])
    BY <1>1, <1>7 DEF Unbind, AtOwnResult, AtResult, NeedsRebind
  <2>2. /\ claim \in Claims /\ pos \in 1..Len(Allocation[claim])
        /\ Current \in Result /\ Current = Allocation[claim][pos]
    BY <1>1, <2>1, AllocationType, CurrentType DEF TypeOK, Current
  <2>3. currentDriver[Current.device] = sysfsDriver[Current.device]
    BY <1>1, <2>1, <2>2 DEF FollowInv, Rebinding, UpToDate, Result
  <2>4. ASSUME NEW i \in 1..Len(Allocation[claim]), i < pos, Allocation[claim][i].local
        PROVE  BoundTo(Allocation[claim][i])'
    <3>1. Allocation[claim][i] \in Result /\ BoundTo(Allocation[claim][i])
      BY <1>1, <2>1, <2>2, <2>4, AllocationType DEF BoundSoFar, Preparing
    <3>2. Allocation[claim][i].device # Current.device
      <4>1. SUFFICES ASSUME Allocation[claim][i].device = Current.device PROVE FALSE
        OBVIOUS
      <4>2. Allocation[claim][i].vfio = Current.vfio
        BY <2>1, <2>2, <2>4, <4>1 DEF OneClass
      <4>3. QED
        BY <2>1, <2>3, <3>1, <4>1, <4>2 DEF BoundTo, TargetDriver
    <3>3. sysfsDriver'[Allocation[claim][i].device] = sysfsDriver[Allocation[claim][i].device]
      BY <1>1, <1>7, <2>2, <3>1, <3>2 DEF Unbind, SysfsChange, TypeOK, Result
    <3>4. QED
      BY <2>1, <3>1, <3>3 DEF BoundTo, TargetDriver
  <2>5. QED
    BY <2>1, <2>4 DEF BoundSoFar, Preparing, Current, TargetDriver
<1>8. CASE Bind
  <2>1. /\ phase = "rebind" /\ phase' = "devices" /\ claim' = claim /\ pos' = pos + 1
        /\ sysfsDriver' = [sysfsDriver EXCEPT ![Current.device] = TargetDriver(Current)]
    BY <1>8 DEF Bind, Prepared
  <2>2. /\ claim \in Claims /\ pos \in 1..Len(Allocation[claim])
        /\ Current \in Result /\ Current = Allocation[claim][pos] /\ Current.local
    BY <1>1, <2>1, AllocationType, CurrentType DEF TypeOK, Current, BoundSoFar
  <2>3. sysfsDriver'[Current.device] = TargetDriver(Current)
    BY <1>1, <2>1, <2>2 DEF TypeOK, Result
  <2>4. ASSUME NEW i \in 1..Len(Allocation[claim]), Allocation[claim][i].local,
               BoundTo(Allocation[claim][i])
        PROVE  BoundTo(Allocation[claim][i])'
    <3>1. CASE Allocation[claim][i].device = Current.device
      <4>1. Allocation[claim][i].vfio = Current.vfio
        BY <2>2, <2>4, <3>1 DEF OneClass
      <4>2. QED
        BY <2>1, <2>3, <3>1, <4>1 DEF BoundTo, TargetDriver
    <3>2. CASE Allocation[claim][i].device # Current.device
      <4>1. Allocation[claim][i] \in Result
        BY <2>2, AllocationType
      <4>2. sysfsDriver'[Allocation[claim][i].device] = sysfsDriver[Allocation[claim][i].device]
        BY <1>1, <2>1, <3>2, <4>1 DEF TypeOK, Result
      <4>3. QED
        BY <2>1, <2>4, <4>2 DEF BoundTo, TargetDriver
    <3>3. QED
      BY <3>1, <3>2
  <2>5. QED
    BY <1>1, <2>1, <2>2, <2>3, <2>4, BoundNext DEF Preparing
<1>9. CASE PrepareStore
  BY <1>1, <1>9 DEF PrepareStore, StoreTruncate, BoundSoFar, BoundTo, TargetDriver, Preparing
<1>10. CASE (\E ok \in BOOLEAN : Write(ok)) \/ Return
  BY <1>1, <1>10, BoundSame DEF Write, Return, Preparing
<1>11. CASE Refresh
  BY <1>1, <1>11, BoundSame DEF Refresh, Locked, Preparing
<1>12. ~ \E d \in Devices : ExternalChange(d)
  BY DEF ExternalChange
<1>13. CASE Crash \/ Reboot
  BY <1>1, <1>13, BoundSame DEF Crash, Reboot, Stop, Preparing
<1>14. CASE Restart
  BY <1>1, <1>14, BoundSame DEF Restart, Preparing
<1>15. CASE StartWatch \/ UNCHANGED vars
  BY <1>1, <1>15, BoundSame DEF StartWatch, vars
<1>16. QED
  BY <1>2, <1>3, <1>4, <1>5, <1>6, <1>7, <1>8, <1>9, <1>10, <1>11, <1>12, <1>13, <1>14, <1>15
     DEF Next, PrepareStep

\* A claim that is stored has each device of this node bound to the driver its class asks
\* for, however many devices were rebound before and whatever crashed (node_state.go:252),
\* unless somebody else changes drivers or the claim has a device by two classes.
THEOREM RequestedDriverAlways ==
  ASSUME Undisturbed, OneClass
  PROVE  Spec => []PreparedOnRequestedDriver
<1>1. Init => BoundInv
  <2>1. Init => phase = "idle"
    BY DEF Init
  <2>2. QED
    BY <2>1, FollowInit DEF BoundInv, BoundSoFar, Preparing
<1>2. BoundInv => PreparedOnRequestedDriver
  <2>1. SUFFICES ASSUME BoundInv, phase = "saving", NEW i \in 1..Len(Allocation[claim]),
                        Allocation[claim][i].local
                 PROVE  BoundTo(Allocation[claim][i])
    BY DEF PreparedOnRequestedDriver, BoundTo
  <2>2. pos > Len(Allocation[claim]) /\ claim \in Claims /\ pos \in Nat
    BY <2>1 DEF BoundInv, BoundSoFar, FollowInv, TypeOK
  <2>3. i < pos
    BY <2>2, AllocationType
  <2>4. QED
    BY <2>1, <2>3 DEF BoundInv, BoundSoFar
<1>3. QED
  BY <1>1, BoundStep, <1>2, PTL DEF Spec

-----------------------------------------------------------------------------
(* Rebinding and the ResourceSlice.                                         *)

NoAdminAccess == \A c \in Claims : \A i \in 1..Len(Allocation[c]) : ~Allocation[c][i].admin

\* Without adminAccess the plugin never rebinds a device under a claim that runs
\* containers with it, as long as the checkpoint can be written (node_state.go:233).
THEOREM NoRebindUnderGrantAlways ==
  ASSUME ~WriteFaults, NoAdminAccess
  PROVE  Spec => []NoRebindUnderGrant
<1>1. RecordInv => NoRebindUnderGrant
  <2>1. SUFFICES ASSUME RecordInv, phase = "rebind", NEW c \in granted,
                        Current.device \in Holds(c)
                 PROVE  FALSE
    BY DEF NoRebindUnderGrant
  <2>2. /\ TypeOK /\ running /\ claim \in Claims /\ claim \notin DOMAIN prepared
        /\ ~Current.admin => ~UsedExclusively(Current.device, claim)
    BY <2>1 DEF RecordInv, ExclusiveInv, Stopped, Accepted, Preparing, TypeOK
  <2>3. pos \in 1..Len(Allocation[claim])
    BY <2>1, <2>2, AllocationType DEF TypeOK
  <2>4. ~Current.admin
    BY <2>2, <2>3 DEF NoAdminAccess, Current
  <2>5. c \in DOMAIN prepared \ {claim}
    BY <2>1, <2>2 DEF RecordInv, GrantedRecorded
  <2>6. [device |-> Current.device, admin |-> FALSE] \in prepared[c]
    BY <2>1, <2>5 DEF RecordInv, Complete
  <2>7. UsedExclusively(Current.device, claim)
    BY <2>5, <2>6 DEF UsedExclusively
  <2>8. QED
    BY <2>2, <2>4, <2>7
<1>2. QED
  BY RecordInit, RecordStep, <1>1, PTL DEF Spec

\* Every claim has one device of this node at most.
OneResult ==
  \A c \in Claims : \A i, j \in 1..Len(Allocation[c]) :
    Allocation[c][i].local /\ Allocation[c][j].local => i = j

\* Prepare will not touch a device of this node any more.
NoneLeft ==
  /\ phase = "devices"
  /\ \A i \in 1..Len(Allocation[claim]) : i >= pos => ~Allocation[claim][i].local

\* What is not published yet will be when the call returns.
PublishInv ==
  /\ TypeOK
  /\ phase = "rebind" => Current.local
  /\ unpublished # {} =>
       /\ phase # "idle" /\ needPublish
       /\ phase \in Preparing => NoneLeft

LEMMA PublishPrepare ==
  ASSUME OneResult, PublishInv, TypeOK', PrepareStep
  PROVE  PublishInv'
<1> USE DEF callVars, outVars
<1>1. TypeOK
  BY DEF PublishInv
<1>2. phase \in Preparing /\ claim \in Claims /\ pos \in Nat
  BY <1>1 DEF PrepareStep, PrepareSkip, PrepareReject, PrepareBound, PrepareUnbindFails, Unbind,
              BindFails, Bind, PrepareStore, AtOwnResult, AtResult, Preparing, TypeOK
<1>3. ASSUME unpublished = {}, unpublished' = {} PROVE PublishInv'
  <2>1. (phase = "rebind" => Current.local)'
    BY DEF PrepareStep, PrepareSkip, PrepareReject, PrepareBound, PrepareUnbindFails, Unbind,
           BindFails, Bind, PrepareStore, StoreTruncate, AtOwnResult, AtResult, Current, Prepared
  <2>2. QED
    BY <1>3, <2>1 DEF PublishInv
<1>4. ASSUME unpublished # {} PROVE needPublish /\ phase = "devices" /\ NoneLeft
  BY <1>2, <1>4 DEF PublishInv, NoneLeft
<1>5. ASSUME pos <= Len(Allocation[claim]), Current.local, phase = "devices"
      PROVE  unpublished = {}
  <2>1. pos \in 1..Len(Allocation[claim])
    BY <1>1, <1>2, <1>5, AllocationType DEF TypeOK
  <2>2. QED
    BY <1>2, <1>4, <1>5, <2>1 DEF NoneLeft, Current
<1>6. CASE PrepareSkip
  <2>1. /\ pos' = pos + 1 /\ UNCHANGED <<phase, claim, needPublish, unpublished>>
    BY <1>6 DEF PrepareSkip
  <2>2. \A i \in 1..Len(Allocation[claim]) : i >= pos + 1 => i >= pos
    BY <1>2, AllocationType
  <2>3. QED
    BY <1>4, <1>6, <2>1, <2>2 DEF PublishInv, NoneLeft, PrepareSkip, AtResult
<1>7. CASE PrepareReject \/ PrepareBound \/ PrepareUnbindFails \/ Unbind
  <2>1. unpublished = {}
    BY <1>5, <1>7 DEF PrepareReject, PrepareBound, PrepareUnbindFails, Unbind, AtOwnResult, AtResult
  <2>2. unpublished' = unpublished
    BY <1>7 DEF PrepareReject, PrepareBound, PrepareUnbindFails, Unbind
  <2>3. QED
    BY <1>3, <2>1, <2>2
<1>8. CASE BindFails
  <2>1. unpublished = {} /\ unpublished' = unpublished
    BY <1>4, <1>8 DEF BindFails
  <2>2. QED
    BY <1>3, <2>1
<1>9. CASE Bind
  <2>1. needPublish' /\ phase' \in {"devices", "returning"} /\ claim' = claim
    BY <1>9 DEF Bind, Prepared
  <2>2. CASE phase' = "devices"
    <3>1. pos \in 1..Len(Allocation[claim]) /\ pos' = pos + 1
      BY <1>1, <1>2, <1>9, <2>2, AllocationType DEF Bind, Prepared, TypeOK
    <3>2. \A i \in 1..Len(Allocation[claim]) : i >= pos + 1 => i # pos
      BY <1>2
    <3>3. \A i \in 1..Len(Allocation[claim]) : i >= pos' => ~Allocation[claim][i].local
      BY <1>2, <1>9, <3>1, <3>2 DEF OneResult, Current, PublishInv, Bind
    <3>4. QED
      BY <2>1, <2>2, <3>3 DEF PublishInv, NoneLeft
  <2>3. CASE phase' = "returning"
    BY <2>1, <2>3 DEF PublishInv, Preparing
  <2>4. QED
    BY <2>1, <2>2, <2>3
<1>10. CASE PrepareStore
  <2>1. phase' \in {"saving", "returning"} /\ UNCHANGED <<unpublished, needPublish>>
    BY <1>10 DEF PrepareStore, StoreTruncate
  <2>2. QED
    BY <1>4, <2>1 DEF PublishInv, Preparing
<1>11. QED
  BY <1>6, <1>7, <1>8, <1>9, <1>10 DEF PrepareStep

LEMMA PublishSame ==
  ASSUME PublishInv, TypeOK',
         \/ UNCHANGED <<phase, claim, pos, needPublish>> /\ unpublished' \subseteq unpublished
         \/ phase' \notin Preparing /\ phase # "idle" /\ phase' # "idle"
              /\ UNCHANGED <<needPublish, unpublished>>
         \/ phase' # "rebind" /\ unpublished' = {}
  PROVE  PublishInv'
BY DEF PublishInv, NoneLeft, Current, Preparing

LEMMA PublishStep ==
  ASSUME OneResult
  PROVE  PublishInv /\ [Next]_vars => PublishInv'
<1> SUFFICES ASSUME PublishInv, [Next]_vars PROVE PublishInv'
  OBVIOUS
<1> USE DEF callVars, outVars
<1>1. TypeOK' /\ TypeOK
  BY StepType DEF PublishInv
<1>2. CASE \E c \in Claims : PrepareAgain(c) \/ UnprepareUnknown(c)
  BY <1>1, <1>2, PublishSame DEF PrepareAgain, UnprepareUnknown
<1>3. ASSUME NEW c \in Claims, PrepareBegin(c) PROVE PublishInv'
  BY <1>1, <1>3, PublishSame DEF PrepareBegin, Enter, PublishInv
<1>4. ASSUME NEW c \in Claims, Unprepare(c) PROVE PublishInv'
  <2>1. /\ phase = "idle" /\ phase' \in {"freeing", "returning"}
        /\ unpublished' = unpublished \cup ClaimTaints(c)
    BY <1>4 DEF Unprepare, StoreTruncate
  <2>2. needPublish' = (ClaimTaints(c) # {})
    BY <1>4 DEF Unprepare, PublishIfCleared
  <2>3. unpublished' # {} => needPublish'
    BY <2>1, <2>2 DEF PublishInv
  <2>4. QED
    BY <1>1, <2>1, <2>3 DEF PublishInv, Preparing
<1>5. CASE \E ok \in BOOLEAN : Write(ok)
  BY <1>1, <1>5, PublishSame DEF Write, Preparing
<1>6. CASE Return
  <2>1. unpublished' = {}
    BY <1>6 DEF Return, PublishInv
  <2>2. QED
    BY <1>1, <1>6, <2>1, PublishSame DEF Return
<1>7. CASE Refresh
  <2> DEFINE d == Head(events).device
  <2>1. ASSUME RefreshKnown(d, Head(events).driver) PROVE unpublished' \in {unpublished, {}}
    <3> DEFINE updated == ~Ignored(d, Head(events).driver) /\ currentDriver[d] # sysfsDriver[d]
    <3>1. ASSUME ~NeedToPublish(d, updated) PROVE shown' = shown
      BY <2>1, <3>1 DEF RefreshKnown, NeedToPublish, shown
    <3>2. QED
      BY <2>1, <3>1 DEF RefreshKnown, Publish
  <2>2. ASSUME RefreshAbsent(d) PROVE unpublished' \in {unpublished, {}}
    <3>1. ASSUME d \notin allocatable PROVE shown' = shown
      BY <2>2, <3>1 DEF RefreshAbsent, shown
    <3>2. QED
      BY <2>2, <3>1 DEF RefreshAbsent, Publish
  <2>3. ASSUME RefreshNew(d) PROVE unpublished' \in {unpublished, {}}
    BY <2>3 DEF RefreshNew, Publish
  <2>4. unpublished' \in {unpublished, {}}
    BY <1>7, <2>1, <2>2, <2>3 DEF Refresh
  <2>5. QED
    BY <1>1, <1>7, <2>4, PublishSame DEF Refresh
<1>8. CASE (\E d \in Devices : ExternalChange(d)) \/ Restart \/ StartWatch \/ UNCHANGED vars
  BY <1>1, <1>8, PublishSame DEF ExternalChange, Restart, StartWatch, vars
<1>9. CASE Crash \/ Reboot
  BY <1>1, <1>9, PublishSame DEF Crash, Reboot, Stop
<1>10. QED
  BY <1>1, <1>2, <1>3, <1>4, <1>5, <1>6, <1>7, <1>8, <1>9, PublishPrepare DEF Next

\* Between calls the published ResourceSlice shows what the plugin knows, if no claim has
\* two devices of this node: needToPublishSlice is the last one's (node_state.go:259).
THEOREM PublishedWhenIdleAlways ==
  ASSUME OneResult
  PROVE  Spec => []PublishedWhenIdle
<1>1. Init => PublishInv
  BY InitType DEF Init, PublishInv
<1>2. PublishInv => PublishedWhenIdle
  BY DEF PublishInv, PublishedWhenIdle
<1>3. QED
  BY <1>1, PublishStep, <1>2, PTL DEF Spec
=============================================================================
