------------------------ MODULE QatNodeState_proofs ------------------------
(***************************************************************************)
(* Proofs about QatNodeState, for any PFs, VFs, claims, allocations and     *)
(* configuration, with all failures and crashes.                           *)
(***************************************************************************)
EXTENDS QatNodeState, TLAPS

-----------------------------------------------------------------------------
(* The inductive invariant                                                  *)

\* The devices of c's local results before result n.
Before(c, n) ==
  {Allocation[c][i].device :
     i \in {j \in 1..Len(Allocation[c]) : j < n /\ Allocation[c][j].local}}

\* A claim is allocated only what its results name.
OnlyNamed == \A c \in Claims : allocated[c] \subseteq Named(c)

\* No VF is allocated before the plugin serves.
NoneBeforeServing == phase \in Starting \cup {"stopped"} => allocated = NoneAllocated

\* A claim prepared by this process has exactly the VFs its results name; one that comes
\* from the checkpoint has none as far as this process knows.
PreparedHold ==
  \A c \in DOMAIN prepared :
    IF c \in recovered THEN allocated[c] = {}
                       ELSE prepared[c] = Named(c) /\ allocated[c] = Named(c)

\* What the call in progress has collected, and what it has still to free.
InCall ==
  /\ phase \in {"devices", "removing"} => claim \notin DOMAIN prepared
  /\ phase = "devices" => acc = Before(claim, pos) /\ acc \subseteq allocated[claim]
  /\ phase = "removing" => allocated[claim] \subseteq acc

\* Every claim that holds a VF is prepared, or its call is in progress or went wrong.
Accounted ==
  phase \in Serving =>
    \A c \in Claims : allocated[c] # {} =>
      \/ c \in DOMAIN prepared \cup unsaved
      \/ ~(Named(c) \subseteq allocatable)
      \/ phase \in {"devices", "removing"} /\ c = claim

Parts == OnlyNamed /\ NoneBeforeServing /\ PreparedHold /\ InCall /\ Accounted

IInv == TypeOK /\ Partition /\ Parts

-----------------------------------------------------------------------------
(* The operators of the model                                               *)

LEMMA NoPreparationsType == NoPreparations \in ClaimPreparations
BY DEF NoPreparations, ClaimPreparations

LEMMA PreparationsType ==
  ASSUME NEW p \in ClaimPreparations
  PROVE  /\ DOMAIN p \subseteq Claims
         /\ \A c \in DOMAIN p : p[c] \subseteq VFs
BY DEF ClaimPreparations

LEMMA PutType ==
  ASSUME NEW p \in ClaimPreparations, NEW c \in Claims, NEW s \in SUBSET VFs
  PROVE  Put(p, c, s) \in ClaimPreparations
<1>1. DOMAIN p \cup {c} \in SUBSET Claims
  BY PreparationsType
<1>2. Put(p, c, s) \in [DOMAIN p \cup {c} -> SUBSET VFs]
  BY PreparationsType DEF Put
<1>3. QED
  BY <1>1, <1>2 DEF ClaimPreparations

LEMMA DeleteType ==
  ASSUME NEW p \in ClaimPreparations, NEW c
  PROVE  Delete(p, c) \in ClaimPreparations
<1>1. DOMAIN p \ {c} \in SUBSET Claims
  BY PreparationsType
<1>2. Delete(p, c) \in [DOMAIN p \ {c} -> SUBSET VFs]
  BY PreparationsType DEF Delete
<1>3. QED
  BY <1>1, <1>2 DEF ClaimPreparations

LEMMA AllocationType ==
  ASSUME NEW c \in Claims
  PROVE  /\ Len(Allocation[c]) \in Nat
         /\ \A i \in 1..Len(Allocation[c]) : Allocation[c][i] \in Result
BY ClaimAssumption

\* The result Prepare's loop is at.
LEMMA CurrentType ==
  ASSUME TypeOK, AtResult
  PROVE  /\ claim \in Claims
         /\ pos \in 1..Len(Allocation[claim])
         /\ Current \in Result
         /\ Current.local => Current.device \in Named(claim)
<1>1. claim \in Claims /\ pos \in Nat \ {0} /\ pos <= Len(Allocation[claim])
  BY DEF TypeOK, AtResult
<1>2. pos \in 1..Len(Allocation[claim])
  BY <1>1, AllocationType
<1>3. QED
  BY <1>1, <1>2, AllocationType DEF Current, Named

\* The first result is not yet read, and past the last one all have been.
LEMMA BeforeEnds ==
  ASSUME NEW c \in Claims
  PROVE  /\ Before(c, 1) = {}
         /\ \A n \in Nat : n > Len(Allocation[c]) => Before(c, n) = Named(c)
BY AllocationType DEF Before, Named

LEMMA BeforeNext ==
  ASSUME NEW c \in Claims, NEW n \in 1..Len(Allocation[c])
  PROVE  Before(c, n + 1) =
           IF Allocation[c][n].local THEN Before(c, n) \cup {Allocation[c][n].device}
                                     ELSE Before(c, n)
<1>1. \A j \in 1..Len(Allocation[c]) : j < n + 1 <=> (j < n \/ j = n)
  BY AllocationType
<1>2. CASE Allocation[c][n].local
  BY <1>1, <1>2 DEF Before
<1>3. CASE ~Allocation[c][n].local
  BY <1>1, <1>3 DEF Before
<1>4. QED
  BY <1>2, <1>3

LEMMA NoneAllocatedType ==
  /\ NoneAllocated \in [Claims -> SUBSET VFs]
  /\ \A c \in Claims : NoneAllocated[c] = {}
BY DEF NoneAllocated

-----------------------------------------------------------------------------
(* What allocating and freeing do                                           *)

LEMMA PartitionFacts ==
  ASSUME Partition
  PROVE  /\ available \subseteq allocatable
         /\ \A c \in Claims : allocated[c] \subseteq allocatable
BY DEF Partition

LEMMA TakeEffect ==
  ASSUME TypeOK, Partition, NEW c \in Claims, NEW v \in available,
         Take(v, c), UNCHANGED allocatable
  PROVE  /\ available' \subseteq VFs
         /\ allocated' \in [Claims -> SUBSET VFs]
         /\ allocated'[c] = allocated[c] \cup {v}
         /\ \A x \in Claims \ {c} : allocated'[x] = allocated[x]
         /\ Partition'
<1>1. v \in VFs /\ allocated[c] \in SUBSET VFs
  BY DEF TypeOK
<1>2. available' \subseteq VFs /\ allocated' \in [Claims -> SUBSET VFs]
  BY <1>1 DEF Take, TypeOK
<1>3. /\ allocated'[c] = allocated[c] \cup {v}
      /\ \A x \in Claims \ {c} : allocated'[x] = allocated[x]
  BY DEF Take, TypeOK
<1>4. available' = available \ {v}
  BY DEF Take
<1>5. \A x \in Claims : v \notin allocated[x]
  BY DEF Partition
<1>6. /\ \A x \in Claims : allocated'[x] \cap available' = {}
      /\ \A x, y \in Claims : x # y => allocated'[x] \cap allocated'[y] = {}
  BY <1>3, <1>4, <1>5 DEF Partition
<1>7. (available \cup UNION {allocated[x] : x \in Claims} = allocatable)'
  <2>1. available' \subseteq allocatable /\ \A x \in Claims : allocated'[x] \subseteq allocatable
    BY <1>3, <1>4, PartitionFacts
  <2>2. ASSUME NEW w \in allocatable
        PROVE  w \in available' \/ \E x \in Claims : w \in allocated'[x]
    <3>1. CASE w = v
      BY <1>3, <3>1
    <3>2. CASE w # v /\ w \in available
      BY <1>4, <3>2
    <3>3. CASE \E x \in Claims : w \in allocated[x]
      BY <1>3, <3>3
    <3>4. QED
      BY <3>1, <3>2, <3>3 DEF Partition
  <2>3. QED
    BY <2>1, <2>2
<1>8. QED
  BY <1>2, <1>3, <1>6, <1>7 DEF Partition

LEMMA GiveBackEffect ==
  ASSUME TypeOK, Partition, NEW c \in Claims, NEW S \in SUBSET VFs,
         GiveBack(S, c), UNCHANGED allocatable
  PROVE  /\ available' \subseteq VFs
         /\ allocated' \in [Claims -> SUBSET VFs]
         /\ allocated'[c] = allocated[c] \ S
         /\ \A x \in Claims \ {c} : allocated'[x] = allocated[x]
         /\ Partition'
<1>1. allocated[c] \in SUBSET VFs
  BY DEF TypeOK
<1>2. available' \subseteq VFs /\ allocated' \in [Claims -> SUBSET VFs]
  BY <1>1 DEF GiveBack, TypeOK
<1>3. /\ allocated'[c] = allocated[c] \ S
      /\ \A x \in Claims \ {c} : allocated'[x] = allocated[x]
  BY DEF GiveBack, TypeOK
<1>4. available' = available \cup (S \cap allocated[c])
  BY DEF GiveBack
<1>5. \A x, y \in Claims : x # y => allocated'[x] \cap allocated'[y] = {}
  BY <1>3 DEF Partition
<1>6. \A x \in Claims : allocated'[x] \cap available' = {}
  <2>1. TAKE x \in Claims
  <2>2. CASE x = c
    BY <2>2, <1>3, <1>4 DEF Partition
  <2>3. CASE x # c
    BY <2>3, <1>3, <1>4 DEF Partition
  <2>4. QED
    BY <2>2, <2>3
<1>7. (available \cup UNION {allocated[x] : x \in Claims} = allocatable)'
  <2>1. available' \subseteq allocatable /\ \A x \in Claims : allocated'[x] \subseteq allocatable
    BY <1>3, <1>4, PartitionFacts
  <2>2. ASSUME NEW w \in allocatable
        PROVE  w \in available' \/ \E x \in Claims : w \in allocated'[x]
    <3>1. CASE w \in available
      BY <1>4, <3>1
    <3>2. CASE w \in allocated[c]
      BY <1>3, <1>4, <3>2
    <3>3. CASE \E x \in Claims \ {c} : w \in allocated[x]
      BY <1>3, <3>3
    <3>4. QED
      BY <3>1, <3>2, <3>3 DEF Partition
  <2>3. QED
    BY <2>1, <2>2
<1>8. QED
  BY <1>2, <1>3, <1>5, <1>6, <1>7 DEF Partition

\* Before any VF is allocated they are all available.
LEMMA NoneAllocatedPartition ==
  ASSUME allocated = NoneAllocated, available = allocatable
  PROVE  Partition
<1>1. \A c \in Claims : allocated[c] = {}
  BY NoneAllocatedType
<1>2. UNION {allocated[c] : c \in Claims} = {}
  BY <1>1
<1>3. QED
  BY <1>1, <1>2 DEF Partition

-----------------------------------------------------------------------------
(* Type correctness                                                         *)

LEMMA InitType == Init => TypeOK
<1> SUFFICES ASSUME Init PROVE TypeOK
  OBVIOUS
<1>1. prepared \in ClaimPreparations /\ checkpoint \in ClaimPreparations
  BY NoPreparationsType DEF Init
<1>2. pfState \in [PFs -> {"up", "down"}] /\ allocated \in [Claims -> SUBSET VFs]
  BY NoneAllocatedType DEF Init
<1>3. torn \in BOOLEAN
  BY DEF Init
<1>4. phase = "stopped" /\ phase \in Phases /\ claim = NoClaim /\ pos \in Nat \ {0}
  BY DEF Init, Phases
<1>5. /\ allocatable = {} /\ available = {} /\ pending = {} /\ acc = {}
      /\ granted = {} /\ recovered = {} /\ unsaved = {}
  BY DEF Init
<1>6. QED
  BY <1>1, <1>2, <1>3, <1>4, <1>5 DEF TypeOK

LEMMA StopType ==
  ASSUME TypeOK, Stop, UNCHANGED pfState
  PROVE  TypeOK'
BY NoPreparationsType, NoneAllocatedType DEF Stop, TypeOK, Phases

LEMMA StartType ==
  ASSUME TypeOK, Start
  PROVE  TypeOK'
<1> USE DEF vfVars, claimVars, callVars, outVars
<1>1. CASE Discover
  <2>1. PICK found \in SUBSET PFs : allocatable' = VFsOf(found) /\ available' = VFsOf(found)
                                     /\ pending' = found
    BY <1>1 DEF Discover
  <2>2. VFsOf(found) \subseteq VFs
    BY DEF VFsOf
  <2>3. QED
    BY <1>1, <2>1, <2>2 DEF Discover, TypeOK, Phases, Starting
<1>2. CASE EnableVFsFails
  BY <1>2, StopType DEF EnableVFsFails
<1>3. CASE BeginConfiguration
  BY <1>3, ConfiguredAssumption DEF BeginConfiguration, TypeOK, Phases, Starting
<1>4. CASE Ready
  <2>1. CASE torn
    BY <1>4, <2>1, StopType DEF Ready
  <2>2. CASE ~torn
    <3>1. prepared' = checkpoint /\ recovered' = DOMAIN checkpoint /\ phase' = "idle"
          /\ UNCHANGED <<vfVars, checkpoint, torn, pending, callVars, granted, unsaved, pfState>>
      BY <1>4, <2>2 DEF Ready
    <3>2. recovered' \subseteq Claims
      BY <3>1, PreparationsType DEF TypeOK
    <3>3. QED
      BY <3>1, <3>2 DEF TypeOK, Phases, Serving
  <2>3. QED
    BY <2>1, <2>2
<1>5. ASSUME NEW p \in PFs, EnableVFs(p) \/ SetServicesDown(p) \/ SetServicesUp(p)
      PROVE  TypeOK'
  <2>1. pfState' \in [PFs -> {"up", "down"}] /\ pending' \subseteq PFs
    <3>1. CASE EnableVFs(p)
      BY <3>1 DEF EnableVFs, TypeOK
    <3>2. CASE SetServicesDown(p)
      BY <3>2 DEF SetServicesDown, TypeOK
    <3>3. CASE SetServicesUp(p)
      <4>1. PICK left \in {"up", "down"} : pfState' = [pfState EXCEPT ![p] = left]
        BY <3>3 DEF SetServicesUp
      <4>2. QED
        BY <3>3, <4>1 DEF SetServicesUp, TypeOK
    <3>4. QED
      BY <1>5, <3>1, <3>2, <3>3
  <2>2. UNCHANGED <<vfVars, claimVars, phase, callVars, outVars>>
    BY <1>5 DEF EnableVFs, SetServicesDown, SetServicesUp
  <2>3. QED
    BY <2>1, <2>2 DEF TypeOK
<1>6. QED
  BY <1>1, <1>2, <1>3, <1>4, <1>5 DEF Start

LEMMA LeaveType ==
  ASSUME Leave
  PROVE  /\ phase' = "idle" /\ phase' \in Phases
         /\ claim' = NoClaim /\ pos' \in Nat \ {0} /\ acc' = {}
BY DEF Leave, Phases, Serving

LEMMA PrepareType ==
  ASSUME TypeOK, Partition, Prepare
  PROVE  TypeOK'
<1> USE DEF vfVars, claimVars, callVars, outVars
<1>1. ASSUME NEW c \in Claims, PrepareAgain(c) PROVE TypeOK'
  BY <1>1 DEF PrepareAgain, TypeOK
<1>2. ASSUME NEW c \in Claims, PrepareBegin(c) PROVE TypeOK'
  BY <1>2 DEF PrepareBegin, Enter, TypeOK, Phases, Serving
<1>3. CASE PrepareSkip
  BY <1>3 DEF PrepareSkip, TypeOK
<1>4. CASE PrepareMissing
  BY <1>4, LeaveType DEF PrepareMissing, TypeOK
<1>5. CASE PrepareAllocate
  <2>1. claim \in Claims /\ Current.device \in VFs /\ phase = "devices"
    BY <1>5, CurrentType DEF PrepareAllocate, TypeOK, AtResult
  <2>2. available' \subseteq VFs /\ allocated' \in [Claims -> SUBSET VFs]
    <3>1. CASE UNCHANGED <<available, allocated>>
      BY <3>1 DEF TypeOK
    <3>2. CASE Current.device \in available /\ Take(Current.device, claim)
      BY <1>5, <2>1, <3>2, TakeEffect DEF PrepareAllocate
    <3>3. QED
      BY <1>5, <3>1, <3>2 DEF PrepareAllocate
  <2>3. acc' \subseteq VFs /\ pos' \in Nat \ {0}
    BY <1>5, <2>1 DEF PrepareAllocate, TypeOK
  <2>4. QED
    BY <1>5, <2>2, <2>3 DEF PrepareAllocate, TypeOK
<1>6. CASE PrepareConflict
  <2>1. claim \in Claims /\ allocatable \in SUBSET VFs
    BY <1>6, CurrentType DEF PrepareConflict, TypeOK
  <2>2. available' \subseteq VFs /\ allocated' \in [Claims -> SUBSET VFs]
    BY <1>6, <2>1, GiveBackEffect DEF PrepareConflict
  <2>3. QED
    BY <1>6, <2>2, LeaveType DEF PrepareConflict, TypeOK
<1>7. CASE PrepareStore
  <2>1. claim \in Claims /\ acc \in SUBSET VFs /\ prepared \in ClaimPreparations
    BY <1>7 DEF PrepareStore, TypeOK
  <2>2. prepared' \in ClaimPreparations
    BY <1>7, <2>1, PutType DEF PrepareStore
  <2>3. recovered' \subseteq Claims /\ unsaved' \subseteq Claims
    BY <1>7 DEF PrepareStore, TypeOK
  <2>4. CASE torn' = TRUE /\ phase' = "saving" /\ UNCHANGED callVars
    BY <1>7, <2>1, <2>2, <2>3, <2>4 DEF PrepareStore, TypeOK, Phases, Serving
  <2>5. CASE torn' = torn /\ Leave
    BY <1>7, <2>2, <2>3, <2>5, LeaveType DEF PrepareStore, TypeOK
  <2>6. QED
    BY <1>7, <2>4, <2>5 DEF PrepareStore
<1>8. CASE PrepareWrite
  <2>1. checkpoint' \in ClaimPreparations /\ torn' \in BOOLEAN /\ granted' \subseteq Claims
    BY <1>8 DEF PrepareWrite, TypeOK
  <2>2. QED
    BY <1>8, <2>1, LeaveType DEF PrepareWrite, TypeOK
<1>9. QED
  BY <1>1, <1>2, <1>3, <1>4, <1>5, <1>6, <1>7, <1>8 DEF Prepare

LEMMA UnprepareType ==
  ASSUME TypeOK, Partition,
         (\E c \in Claims : UnprepareNothing(c) \/ Unprepare(c)) \/ UnprepareWrite
  PROVE  TypeOK'
<1> USE DEF vfVars, claimVars, callVars, outVars
<1>1. ASSUME NEW c \in Claims, UnprepareNothing(c) PROVE TypeOK'
  BY <1>1 DEF UnprepareNothing, TypeOK
<1>2. ASSUME NEW c \in Claims, Unprepare(c) PROVE TypeOK'
  <2>1. c \in DOMAIN prepared /\ prepared[c] \in SUBSET VFs
    BY <1>2, PreparationsType DEF Unprepare, TypeOK
  <2>2. prepared' \in ClaimPreparations
    BY <1>2, DeleteType DEF Unprepare, TypeOK
  <2>3. granted' \subseteq Claims /\ unsaved' \subseteq Claims /\ torn' \in BOOLEAN
    BY <1>2 DEF Unprepare, TypeOK
  <2>4. QED
    BY <1>2, <2>1, <2>2, <2>3 DEF Unprepare, TypeOK, Phases, Serving
<1>3. CASE UnprepareWrite
  <2>1. claim \in Claims /\ acc \in SUBSET VFs
    BY <1>3 DEF UnprepareWrite, TypeOK
  <2>2. CASE GiveBack(acc, claim) /\ Leave /\ checkpoint' = prepared /\ torn' = FALSE
             /\ UNCHANGED <<pfState, allocatable, prepared, pending, outVars>>
    BY <2>1, <2>2, GiveBackEffect, LeaveType DEF TypeOK
  <2>3. CASE phase' = "panic" /\ checkpoint' = prepared /\ torn' = FALSE
             /\ UNCHANGED <<pfState, vfVars, prepared, pending, callVars, outVars>>
    BY <2>3 DEF TypeOK, Phases
  <2>4. CASE unsaved' = unsaved \cup {claim} /\ Leave
             /\ UNCHANGED <<pfState, vfVars, claimVars, pending, granted, recovered>>
    BY <2>1, <2>4, LeaveType DEF TypeOK
  <2>5. QED
    BY <1>3, <2>2, <2>3, <2>4 DEF UnprepareWrite
<1>4. QED
  BY <1>1, <1>2, <1>3

-----------------------------------------------------------------------------
(* The invariant is inductive                                               *)

LEMMA InitInv == Init => IInv
<1> SUFFICES ASSUME Init PROVE IInv
  OBVIOUS
<1>1. Partition
  BY NoneAllocatedPartition DEF Init
<1>2. DOMAIN prepared = {}
  BY DEF Init, NoPreparations
<1>3. Parts
  BY <1>2, NoneAllocatedType
     DEF Init, Parts, OnlyNamed, NoneBeforeServing, PreparedHold, InCall, Accounted, Serving
<1>4. QED
  BY <1>1, <1>3, InitType DEF IInv

LEMMA StopInv ==
  ASSUME Stop
  PROVE  Partition' /\ Parts'
<1>1. Partition'
  <2>1. allocated' = NoneAllocated /\ available' = allocatable'
    BY DEF Stop
  <2>2. \A c \in Claims : allocated'[c] = {}
    BY <2>1, NoneAllocatedType
  <2>3. UNION {allocated'[c] : c \in Claims} = {}
    BY <2>2
  <2>4. QED
    BY <2>1, <2>2, <2>3 DEF Partition
<1>2. DOMAIN prepared' = {} /\ phase' = "stopped" /\ allocated' = NoneAllocated
  BY DEF Stop, NoPreparations
<1>3. QED
  BY <1>1, <1>2, NoneAllocatedType
     DEF Parts, OnlyNamed, NoneBeforeServing, PreparedHold, InCall, Accounted, Serving

\* While the plugin starts nothing is allocated and no call is in progress.
LEMMA StartInv ==
  ASSUME IInv, Start
  PROVE  Partition' /\ Parts'
<1> USE DEF vfVars, claimVars, callVars, outVars
<1>1. phase \in Starting \cup {"stopped"} /\ allocated = NoneAllocated
  BY DEF IInv, Parts, NoneBeforeServing, Start, Discover, EnableVFsFails, BeginConfiguration,
         Ready, EnableVFs, SetServicesDown, SetServicesUp, Starting
<1>2. ASSUME phase' \in Starting, UNCHANGED <<allocated, prepared, recovered>>
      PROVE  Parts'
  BY <1>1, <1>2
     DEF IInv, Parts, OnlyNamed, NoneBeforeServing, PreparedHold, InCall, Accounted, Serving,
         Starting
<1>3. CASE Discover
  <2>1. /\ phase' \in Starting /\ available' = allocatable'
        /\ UNCHANGED <<allocated, prepared, recovered>>
    BY <1>3 DEF Discover, Starting
  <2>2. \A c \in Claims : allocated'[c] = {}
    BY <1>1, <2>1, NoneAllocatedType
  <2>3. UNION {allocated'[c] : c \in Claims} = {}
    BY <2>2
  <2>4. Partition'
    BY <2>1, <2>2, <2>3 DEF Partition
  <2>5. QED
    BY <1>2, <2>1, <2>4
<1>4. CASE EnableVFsFails \/ (Ready /\ torn)
  BY <1>4, StopInv DEF EnableVFsFails, Ready
<1>5. CASE BeginConfiguration \/ \E p \in PFs : EnableVFs(p) \/ SetServicesDown(p) \/ SetServicesUp(p)
  <2>1. /\ phase' \in Starting
        /\ UNCHANGED <<allocatable, available, allocated, prepared, recovered>>
    BY <1>5 DEF BeginConfiguration, EnableVFs, SetServicesDown, SetServicesUp, Starting
  <2>2. Partition'
    BY <2>1 DEF IInv, Partition
  <2>3. QED
    BY <1>2, <2>1, <2>2
<1>6. CASE Ready /\ ~torn
  <2>1. /\ prepared' = checkpoint /\ recovered' = DOMAIN checkpoint /\ phase' = "idle"
        /\ UNCHANGED <<allocatable, available, allocated>>
    BY <1>6 DEF Ready
  <2>2. Partition'
    BY <2>1 DEF IInv, Partition
  <2>3. DOMAIN checkpoint \subseteq Claims
    BY PreparationsType DEF IInv, TypeOK
  <2>4. \A c \in Claims : allocated'[c] = {}
    BY <1>1, <2>1, NoneAllocatedType
  <2>5. Parts'
    BY <2>1, <2>3, <2>4
       DEF Parts, OnlyNamed, NoneBeforeServing, PreparedHold, InCall, Accounted, Starting
  <2>6. QED
    BY <2>2, <2>5
<1>7. QED
  BY <1>3, <1>4, <1>5, <1>6 DEF Start

\* A step that changes no VF's holder and no prepared claim.
LEMMA QuietInv ==
  ASSUME IInv, phase \in Serving, phase' \in Serving,
         UNCHANGED <<allocatable, available, allocated, prepared, recovered, unsaved>>,
         InCall',
         phase \in {"devices", "removing"} =>
           \/ phase' \in {"devices", "removing"} /\ claim' = claim
           \/ allocated[claim] = {}
           \/ ~(Named(claim) \subseteq allocatable)
  PROVE  Partition' /\ Parts'
<1>1. Partition'
  BY DEF IInv, Partition
<1>2. OnlyNamed' /\ PreparedHold'
  BY DEF IInv, Parts, OnlyNamed, PreparedHold
<1>3. NoneBeforeServing'
  BY DEF NoneBeforeServing, Serving, Starting
<1>4. Accounted'
  BY DEF IInv, Parts, Accounted
<1>5. QED
  BY <1>1, <1>2, <1>3, <1>4 DEF Parts

LEMMA PrepareInv ==
  ASSUME IInv, Prepare
  PROVE  Partition' /\ Parts'
<1> USE DEF vfVars, claimVars, callVars, outVars
<1>a. TypeOK /\ Partition
  BY DEF IInv
<1>1. ASSUME NEW c \in Claims, PrepareAgain(c) PROVE Partition' /\ Parts'
  BY <1>1, QuietInv DEF PrepareAgain, Serving, InCall
<1>2. ASSUME NEW c \in Claims, PrepareBegin(c) PROVE Partition' /\ Parts'
  <2>1. /\ phase = "idle" /\ phase' = "devices" /\ claim' = c /\ pos' = 1 /\ acc' = {}
        /\ c \notin DOMAIN prepared
        /\ UNCHANGED <<vfVars, prepared, recovered, unsaved>>
    BY <1>2 DEF PrepareBegin, Enter
  <2>2. InCall'
    BY <2>1, BeforeEnds DEF InCall, Before
  <2>3. QED
    BY <2>1, <2>2, QuietInv DEF Serving
<1>3. CASE PrepareSkip
  <2>1. /\ phase = "devices" /\ phase' = "devices" /\ claim' = claim /\ pos' = pos + 1
        /\ UNCHANGED <<vfVars, prepared, recovered, unsaved, acc>>
    BY <1>3 DEF PrepareSkip, AtResult
  <2>2. Before(claim, pos + 1) = Before(claim, pos)
    BY <1>3, <1>a, CurrentType, BeforeNext DEF PrepareSkip, Current
  <2>3. InCall'
    BY <2>1, <2>2 DEF InCall, IInv, Parts, Before
  <2>4. QED
    BY <2>1, <2>3, QuietInv DEF Serving
<1>4. CASE PrepareMissing
  <2>1. /\ phase = "devices" /\ phase' = "idle"
        /\ UNCHANGED <<vfVars, prepared, recovered, unsaved>>
    BY <1>4 DEF PrepareMissing, AtResult, Leave
  <2>2. ~(Named(claim) \subseteq allocatable)
    BY <1>4, <1>a, CurrentType DEF PrepareMissing
  <2>3. QED
    BY <2>1, <2>2, QuietInv DEF Serving, InCall
<1>5. CASE PrepareAllocate
  <2> DEFINE v == Current.device
  <2>1. /\ phase = "devices" /\ phase' = "devices" /\ claim' = claim /\ pos' = pos + 1
        /\ acc' = acc \cup {v} /\ Current.local
        /\ UNCHANGED <<allocatable, prepared, recovered, unsaved>>
    BY <1>5 DEF PrepareAllocate, AtResult
  <2>2. claim \in Claims /\ v \in Named(claim) /\ claim \notin DOMAIN prepared
    BY <1>5, <1>a, <2>1, CurrentType DEF PrepareAllocate, IInv, Parts, InCall
  <2>3. /\ allocated'[claim] = allocated[claim] \cup {v}
        /\ \A x \in Claims \ {claim} : allocated'[x] = allocated[x]
        /\ Partition'
    <3>1. CASE v \in allocated[claim] /\ UNCHANGED <<available, allocated>>
      BY <1>a, <2>1, <3>1 DEF Partition
    <3>2. CASE v \in available /\ Take(v, claim)
      BY <1>a, <2>1, <2>2, <3>2, TakeEffect
    <3>3. QED
      BY <1>5, <3>1, <3>2 DEF PrepareAllocate
  <2>4. Before(claim, pos + 1) = Before(claim, pos) \cup {v}
    BY <1>5, <1>a, <2>1, CurrentType, BeforeNext DEF PrepareAllocate, Current
  <2>5. InCall'
    <3>1. acc = Before(claim, pos) /\ acc \subseteq allocated[claim]
      BY <2>1 DEF IInv, Parts, InCall
    <3>2. acc' = Before(claim', pos')
      BY <2>1, <2>4, <3>1
    <3>3. QED
      BY <2>1, <2>2, <2>3, <3>1, <3>2 DEF InCall, Before
  <2>6. OnlyNamed'
    BY <2>2, <2>3 DEF IInv, Parts, OnlyNamed
  <2>7. PreparedHold'
    <3>1. \A x \in DOMAIN prepared : x \in Claims \ {claim}
      BY <1>a, <2>2, PreparationsType DEF TypeOK
    <3>2. QED
      BY <2>1, <2>3, <3>1 DEF IInv, Parts, PreparedHold
  <2>8. NoneBeforeServing' /\ Accounted'
    BY <2>1, <2>3 DEF IInv, Parts, Accounted, NoneBeforeServing, Serving, Starting
  <2>9. QED
    BY <2>3, <2>5, <2>6, <2>7, <2>8 DEF Parts
<1>6. CASE PrepareConflict
  <2>1. /\ phase = "devices" /\ phase' = "idle" /\ claim \in Claims
        /\ UNCHANGED <<allocatable, prepared, recovered, unsaved>>
    BY <1>6, <1>a, CurrentType DEF PrepareConflict, AtResult, Leave
  <2>2. /\ allocated'[claim] = allocated[claim] \ allocatable
        /\ \A x \in Claims \ {claim} : allocated'[x] = allocated[x]
        /\ Partition'
    BY <1>6, <1>a, <2>1, GiveBackEffect DEF PrepareConflict, TypeOK
  <2>3. allocated'[claim] = {}
    BY <1>a, <2>1, <2>2, PartitionFacts
  <2>4. \A x \in DOMAIN prepared : x \in Claims \ {claim}
    BY <1>a, <2>1, PreparationsType DEF TypeOK, IInv, Parts, InCall
  <2>5. QED
    BY <2>1, <2>2, <2>3, <2>4
       DEF IInv, Parts, OnlyNamed, NoneBeforeServing, PreparedHold, InCall, Accounted,
           Serving, Starting
<1>7. CASE PrepareStore
  <2>1. /\ phase = "devices" /\ phase' \in {"saving", "idle"} /\ claim \in Claims
        /\ pos > Len(Allocation[claim])
        /\ prepared' = Put(prepared, claim, acc)
        /\ recovered' = recovered \ {claim} /\ unsaved' = unsaved \ {claim}
        /\ UNCHANGED vfVars
    BY <1>7, <1>a DEF PrepareStore, Leave, TypeOK
  <2>2. acc = Named(claim) /\ allocated[claim] = Named(claim)
    <3>1. acc = Before(claim, pos) /\ acc \subseteq allocated[claim]
      BY <2>1 DEF IInv, Parts, InCall
    <3>2. pos \in Nat
      BY <1>a DEF TypeOK
    <3>3. QED
      BY <2>1, <3>1, <3>2, BeforeEnds DEF IInv, Parts, OnlyNamed
  <2>3. /\ DOMAIN prepared' = DOMAIN prepared \cup {claim}
        /\ \A x \in DOMAIN prepared' :
             prepared'[x] = IF x = claim THEN acc ELSE prepared[x]
    BY <2>1 DEF Put
  <2>4. PreparedHold'
    <3>1. ASSUME NEW x \in DOMAIN prepared', x # claim
          PROVE  IF x \in recovered' THEN allocated'[x] = {}
                                      ELSE prepared'[x] = Named(x) /\ allocated'[x] = Named(x)
      BY <2>1, <2>3, <3>1 DEF IInv, Parts, PreparedHold
    <3>2. claim \notin recovered' /\ prepared'[claim] = Named(claim)
          /\ allocated'[claim] = Named(claim)
      BY <2>1, <2>2, <2>3
    <3>3. QED
      BY <3>1, <3>2 DEF PreparedHold, Named
  <2>5. Accounted'
    BY <2>1, <2>3 DEF IInv, Parts, Accounted, Serving, Named
  <2>6. Partition' /\ OnlyNamed' /\ NoneBeforeServing' /\ InCall'
    BY <2>1 DEF IInv, Partition, Parts, OnlyNamed, NoneBeforeServing, InCall, Starting, Named
  <2>7. QED
    BY <2>4, <2>5, <2>6 DEF Parts
<1>8. CASE PrepareWrite
  BY <1>8, QuietInv DEF PrepareWrite, Leave, Serving, InCall
<1>9. QED
  BY <1>1, <1>2, <1>3, <1>4, <1>5, <1>6, <1>7, <1>8 DEF Prepare

LEMMA UnprepareInv ==
  ASSUME IInv, (\E c \in Claims : UnprepareNothing(c) \/ Unprepare(c)) \/ UnprepareWrite
  PROVE  Partition' /\ Parts'
<1> USE DEF vfVars, claimVars, callVars, outVars
<1>a. TypeOK /\ Partition
  BY DEF IInv
<1>1. ASSUME NEW c \in Claims, UnprepareNothing(c) PROVE Partition' /\ Parts'
  BY <1>1, QuietInv DEF UnprepareNothing, Serving, InCall
<1>2. ASSUME NEW c \in Claims, Unprepare(c) PROVE Partition' /\ Parts'
  <2>1. /\ phase = "idle" /\ c \in DOMAIN prepared
        /\ prepared' = Delete(prepared, c)
        /\ UNCHANGED <<vfVars, recovered>>
        /\ \/ phase' = "removing" /\ claim' = c /\ acc' = prepared[c] /\ unsaved' = unsaved
           \/ phase' = "idle" /\ unsaved' = unsaved \cup {c}
    BY <1>2 DEF Unprepare
  <2>2. /\ DOMAIN prepared' = DOMAIN prepared \ {c}
        /\ \A x \in DOMAIN prepared' : prepared'[x] = prepared[x]
    BY <2>1 DEF Delete
  <2>3. allocated[c] \subseteq prepared[c]
    BY <2>1 DEF IInv, Parts, PreparedHold
  <2>4. InCall'
    BY <2>1, <2>2, <2>3 DEF InCall
  <2>5. PreparedHold' /\ Partition' /\ OnlyNamed' /\ NoneBeforeServing'
    BY <2>1, <2>2
       DEF IInv, Partition, Parts, PreparedHold, OnlyNamed, NoneBeforeServing, Starting, Named
  <2>6. Accounted'
    BY <2>1, <2>2 DEF IInv, Parts, Accounted, Serving
  <2>7. QED
    BY <2>4, <2>5, <2>6 DEF Parts
<1>3. CASE UnprepareWrite
  <2>1. phase = "removing" /\ claim \in Claims /\ acc \in SUBSET VFs
    BY <1>3, <1>a DEF UnprepareWrite, TypeOK
  <2>2. \A x \in DOMAIN prepared : x \in Claims \ {claim}
    BY <1>a, <2>1, PreparationsType DEF TypeOK, IInv, Parts, InCall
  <2>3. CASE GiveBack(acc, claim) /\ Leave /\ UNCHANGED <<allocatable, prepared, outVars>>
    <3>1. /\ allocated'[claim] = allocated[claim] \ acc
          /\ \A x \in Claims \ {claim} : allocated'[x] = allocated[x]
          /\ Partition'
      BY <1>a, <2>1, <2>3, GiveBackEffect
    <3>2. allocated'[claim] = {} /\ phase' = "idle"
      BY <2>1, <2>3, <3>1 DEF IInv, Parts, InCall, Leave
    <3>3. QED
      BY <2>1, <2>2, <2>3, <3>1, <3>2
         DEF IInv, Parts, OnlyNamed, NoneBeforeServing, PreparedHold, InCall, Accounted,
             Serving, Starting
  <2>4. CASE phase' = "panic" /\ UNCHANGED <<vfVars, prepared, outVars>>
    BY <2>4 DEF IInv, Partition, Parts, OnlyNamed, NoneBeforeServing, PreparedHold, InCall,
                Accounted, Serving, Starting
  <2>5. CASE unsaved' = unsaved \cup {claim} /\ Leave /\ UNCHANGED <<vfVars, prepared, recovered>>
    BY <2>1, <2>5
       DEF IInv, Partition, Parts, OnlyNamed, NoneBeforeServing, PreparedHold, InCall,
           Accounted, Serving, Starting, Leave
  <2>6. QED
    BY <1>3, <2>3, <2>4, <2>5 DEF UnprepareWrite
<1>4. QED
  BY <1>1, <1>2, <1>3

LEMMA InvStep == IInv /\ [Next]_vars => IInv'
<1> SUFFICES ASSUME IInv, [Next]_vars PROVE IInv'
  OBVIOUS
<1>a. TypeOK /\ Partition
  BY DEF IInv
<1>1. CASE Crash
  BY <1>a, <1>1, StopInv, StopType DEF Crash, IInv
<1>2. CASE Start
  BY <1>a, <1>2, StartInv, StartType DEF IInv
<1>3. CASE Prepare
  BY <1>a, <1>3, PrepareInv, PrepareType DEF IInv
<1>4. CASE (\E c \in Claims : UnprepareNothing(c) \/ Unprepare(c)) \/ UnprepareWrite
  BY <1>a, <1>4, UnprepareInv, UnprepareType DEF IInv
<1>5. CASE UNCHANGED vars
  <2>1. TypeOK'
    BY <1>a, <1>5 DEF vars, vfVars, claimVars, callVars, outVars, TypeOK
  <2>2. Partition'
    BY <1>a, <1>5 DEF vars, vfVars, Partition
  <2>3. OnlyNamed' /\ NoneBeforeServing' /\ PreparedHold' /\ Accounted'
    BY <1>5 DEF vars, vfVars, claimVars, callVars, outVars, IInv, Parts,
                OnlyNamed, NoneBeforeServing, PreparedHold, Accounted, Named
  <2>4. InCall'
    BY <1>5 DEF vars, vfVars, claimVars, callVars, IInv, Parts, InCall, Before
  <2>5. QED
    BY <2>1, <2>2, <2>3, <2>4 DEF IInv, Parts
<1>6. QED
  BY <1>1, <1>2, <1>3, <1>4, <1>5 DEF Next

\* A claim prepared by the running plugin holds its VFs until it is unprepared, and all
\* those its results name, whatever fails in the calls of other claims
\* (node_state.go:114, device.go:569).
THEOREM HeldAlways == Spec => []HeldWhilePrepared
<1>1. IInv => HeldWhilePrepared
  BY DEF IInv, Parts, PreparedHold, HeldWhilePrepared
<1>2. QED
  BY InitInv, InvStep, <1>1, PTL DEF Spec

\* Whatever failed, every VF is available or allocated to one claim, and between calls
\* only prepared claims hold VFs, save those the two known error paths strand
\* (device.go:161, node_state.go:110 and 175).
THEOREM NoLeakAlways == Spec => []NoLeak
<1>1. IInv => NoLeak
  BY DEF IInv, Parts, Accounted, NoLeak, Serving
<1>2. QED
  BY InitInv, InvStep, <1>1, PTL DEF Spec

-----------------------------------------------------------------------------
(* The refinement of VfPool                                                 *)

HolderIn(a) == [v \in VFs |-> IF \E c \in Claims : v \in a[c]
                                THEN CHOOSE c \in Claims : v \in a[c]
                                ELSE NoClaim]

\* A VF allocated to one claim at most has that claim for its holder.
LEMMA HolderIs ==
  ASSUME NEW a, \A c1, c2 \in Claims : c1 # c2 => a[c1] \cap a[c2] = {}, NEW v \in VFs
  PROVE  /\ \A c \in Claims : v \in a[c] <=> HolderIn(a)[v] = c
         /\ (\A c \in Claims : v \notin a[c]) <=> HolderIn(a)[v] = NoClaim
<1>1. CASE \E c \in Claims : v \in a[c]
  <2>1. PICK c \in Claims : v \in a[c]
    BY <1>1
  <2>2. \A x \in Claims : v \in a[x] => x = c
    BY <2>1
  <2>3. HolderIn(a)[v] = c
    BY <2>1, <2>2 DEF HolderIn
  <2>4. QED
    BY <2>1, <2>2, <2>3, ClaimAssumption
<1>2. CASE \A c \in Claims : v \notin a[c]
  <2>1. HolderIn(a)[v] = NoClaim
    BY <1>2 DEF HolderIn
  <2>2. QED
    BY <1>2, <2>1, ClaimAssumption
<1>3. QED
  BY <1>1, <1>2

LEMMA NoneHeld ==
  ASSUME NEW a, \A c \in Claims : a[c] = {}
  PROVE  HolderIn(a) = Pool!Free
<1>1. \A v \in VFs : ~ \E c \in Claims : v \in a[c]
  OBVIOUS
<1>2. QED
  BY <1>1 DEF HolderIn, Pool!Free

LEMMA HolderNow == Holder = HolderIn(allocated)
BY DEF Holder, HolderIn

LEMMA HolderNext == Holder' = HolderIn(allocated')
BY DEF Holder, HolderIn

\* Allocating to one claim: VfPool's Take.
LEMMA TakeIsTake ==
  ASSUME IInv, Partition', phase # "stopped", phase' # "stopped", UNCHANGED pfState,
         NEW c \in Claims, NEW v \in available, Take(v, c), UNCHANGED allocatable
  PROVE  Pool!Take(c, v)
<1>1. v \in VFs /\ TypeOK /\ Partition
  BY DEF IInv, TypeOK
<1>2. \A x \in Claims : v \notin allocated[x]
  BY <1>1 DEF Partition
<1>3. Holder[v] = NoClaim
  BY <1>1, <1>2, HolderNow, HolderIs DEF Partition
<1>4. /\ allocated'[c] = allocated[c] \cup {v}
      /\ \A x \in Claims \ {c} : allocated'[x] = allocated[x]
  BY <1>1, TakeEffect
<1>5. ASSUME NEW w \in VFs
      PROVE  Holder'[w] = IF w = v THEN c ELSE Holder[w]
  <2>1. CASE w = v
    BY <1>4, <2>1, HolderNext, HolderIs DEF Partition
  <2>2. CASE w # v /\ \E x \in Claims : w \in allocated[x]
    BY <1>1, <1>4, <2>2, HolderNow, HolderNext, HolderIs DEF Partition
  <2>3. CASE w # v /\ \A x \in Claims : w \notin allocated[x]
    BY <1>1, <1>4, <2>3, HolderNow, HolderNext, HolderIs DEF Partition
  <2>4. QED
    BY <2>1, <2>2, <2>3
<1>6. Holder' = [Holder EXCEPT ![v] = c]
  BY <1>1, <1>5, HolderNow, HolderNext DEF HolderIn
<1>7. QED
  BY <1>3, <1>6 DEF Pool!Take

\* Freeing VFs of one claim: VfPool's GiveBack.
LEMMA GiveBackIsGiveBack ==
  ASSUME IInv, Partition', phase # "stopped", phase' # "stopped", UNCHANGED pfState,
         NEW c \in Claims, NEW S \in SUBSET VFs, GiveBack(S, c), UNCHANGED allocatable
  PROVE  Pool!GiveBack(c, S \cap allocated[c])
<1>1. TypeOK /\ Partition
  BY DEF IInv
<1>2. \A w \in S \cap allocated[c] : Holder[w] = c
  BY <1>1, HolderNow, HolderIs DEF Partition
<1>3. /\ allocated'[c] = allocated[c] \ S
      /\ \A x \in Claims \ {c} : allocated'[x] = allocated[x]
  BY <1>1, GiveBackEffect
<1>4. ASSUME NEW w \in VFs
      PROVE  Holder'[w] = IF w \in S \cap allocated[c] THEN NoClaim ELSE Holder[w]
  <2>1. CASE w \in S \cap allocated[c]
    <3>1. \A x \in Claims : w \notin allocated'[x]
      BY <1>1, <1>3, <2>1 DEF Partition
    <3>2. QED
      BY <2>1, <3>1, HolderNext, HolderIs DEF Partition
  <2>2. CASE w \notin S \cap allocated[c] /\ \E x \in Claims : w \in allocated[x]
    BY <1>1, <1>3, <2>2, HolderNow, HolderNext, HolderIs DEF Partition
  <2>3. CASE \A x \in Claims : w \notin allocated[x]
    BY <1>1, <1>3, <2>3, HolderNow, HolderNext, HolderIs DEF Partition
  <2>4. QED
    BY <2>1, <2>2, <2>3
<1>5. Holder' = [w \in VFs |-> IF w \in S \cap allocated[c] THEN NoClaim ELSE Holder[w]]
  BY <1>4, HolderNext DEF HolderIn
<1>6. QED
  BY <1>2, <1>5 DEF Pool!GiveBack

LEMMA PoolInitHolds == Init => Pool!PoolInit
<1> SUFFICES ASSUME Init PROVE Pool!PoolInit
  OBVIOUS
<1>1. Holder = Pool!Free
  BY NoneAllocatedType, NoneHeld, HolderNow DEF Init
<1>2. phase = "stopped"
  BY DEF Init
<1>3. QED
  BY <1>1, <1>2 DEF Pool!PoolInit

LEMMA PoolStep == IInv /\ IInv' /\ [Next]_vars => [Pool!PoolNext]_(Pool!poolVars)
<1> SUFFICES ASSUME IInv, IInv', [Next]_vars
             PROVE  Pool!PoolNext \/ UNCHANGED Pool!poolVars
  OBVIOUS
<1> USE DEF vfVars, claimVars, callVars, outVars
<1>a. Partition' /\ TypeOK /\ Partition
  BY DEF IInv
<1>b. ASSUME UNCHANGED allocated PROVE Holder' = Holder
  BY <1>b DEF Holder
<1>1. ASSUME UNCHANGED <<allocated, pfState>>, phase # "stopped", phase' # "stopped"
      PROVE  UNCHANGED Pool!poolVars
  BY <1>1, <1>b DEF Pool!poolVars
<1>2. ASSUME Stop, phase # "stopped", UNCHANGED pfState PROVE Pool!PoolNext
  <2>1. Holder' = Pool!Free /\ phase' = "stopped"
    BY <1>2, NoneAllocatedType, NoneHeld, HolderNext DEF Stop
  <2>2. Pool!Stop
    BY <1>2, <2>1 DEF Pool!Stop
  <2>3. QED
    BY <2>2 DEF Pool!PoolNext
<1>3. ASSUME phase \in Starting, phase' \in Starting, UNCHANGED allocated PROVE Pool!PoolNext
  <2>1. allocated = NoneAllocated
    BY <1>3 DEF IInv, Parts, NoneBeforeServing
  <2>2. Holder = Pool!Free /\ Holder' = Holder
    BY <1>3, <1>b, <2>1, NoneAllocatedType, NoneHeld, HolderNow
  <2>3. Pool!Reconfigure
    BY <1>3, <2>2 DEF Pool!Reconfigure, Starting
  <2>4. QED
    BY <2>3 DEF Pool!PoolNext
<1>4. CASE Crash
  BY <1>2, <1>4 DEF Crash
<1>5. CASE Start
  <2>1. CASE Discover
    <3>1. phase = "stopped" /\ phase' = "enabling" /\ UNCHANGED <<pfState, allocated>>
      BY <2>1 DEF Discover
    <3>2. Pool!Start
      BY <1>b, <3>1 DEF Pool!Start
    <3>3. QED
      BY <3>2 DEF Pool!PoolNext
  <2>2. CASE EnableVFsFails \/ (Ready /\ torn)
    BY <1>2, <2>2 DEF EnableVFsFails, Ready
  <2>3. CASE BeginConfiguration \/ (Ready /\ ~torn)
    BY <1>1, <2>3 DEF BeginConfiguration, Ready
  <2>4. CASE \E p \in PFs : EnableVFs(p) \/ SetServicesDown(p) \/ SetServicesUp(p)
    BY <1>3, <2>4 DEF EnableVFs, SetServicesDown, SetServicesUp, Starting
  <2>5. QED
    BY <1>5, <2>1, <2>2, <2>3, <2>4 DEF Start
<1>6. CASE PrepareAllocate
  <2>1. /\ claim \in Claims /\ phase = "devices" /\ phase' = "devices"
        /\ UNCHANGED <<pfState, allocatable>>
    BY <1>6, <1>a, CurrentType DEF PrepareAllocate, AtResult
  <2>2. CASE UNCHANGED <<available, allocated>>
    BY <1>1, <2>1, <2>2
  <2>3. CASE Current.device \in available /\ Take(Current.device, claim)
    <3>1. Pool!Take(claim, Current.device) /\ Current.device \in VFs
      BY <1>a, <2>1, <2>3, TakeIsTake DEF TypeOK
    <3>2. QED
      BY <2>1, <3>1 DEF Pool!PoolNext
  <2>4. QED
    BY <1>6, <2>2, <2>3 DEF PrepareAllocate
<1>7. ASSUME NEW S \in SUBSET VFs, claim \in Claims, GiveBack(S, claim), phase # "stopped",
             phase' # "stopped", UNCHANGED <<pfState, allocatable>>
      PROVE  Pool!PoolNext
  <2>1. Pool!GiveBack(claim, S \cap allocated[claim])
    BY <1>a, <1>7, GiveBackIsGiveBack
  <2>2. S \cap allocated[claim] \in SUBSET VFs
    OBVIOUS
  <2>3. QED
    BY <1>7, <2>1, <2>2 DEF Pool!PoolNext
<1>8. CASE PrepareConflict
  <2>1. /\ claim \in Claims /\ allocatable \in SUBSET VFs
        /\ phase = "devices" /\ phase' = "idle"
    BY <1>8, <1>a, CurrentType DEF PrepareConflict, AtResult, Leave, TypeOK
  <2>2. QED
    BY <1>7, <1>8, <2>1 DEF PrepareConflict
<1>9. CASE UnprepareWrite
  <2>1. claim \in Claims /\ acc \in SUBSET VFs /\ phase = "removing" /\ phase' \in {"idle", "panic"}
    BY <1>9, <1>a DEF UnprepareWrite, TypeOK, Leave
  <2>2. CASE GiveBack(acc, claim) /\ UNCHANGED <<pfState, allocatable>>
    BY <1>7, <2>1, <2>2
  <2>3. CASE UNCHANGED <<pfState, allocated>>
    BY <1>1, <2>1, <2>3
  <2>4. QED
    BY <1>9, <2>2, <2>3 DEF UnprepareWrite
<1>10. CASE \/ \E c \in Claims : PrepareAgain(c) \/ PrepareBegin(c)
            \/ PrepareSkip \/ PrepareMissing \/ PrepareStore \/ PrepareWrite
            \/ \E c \in Claims : UnprepareNothing(c) \/ Unprepare(c)
  <2>1. UNCHANGED <<allocated, pfState>> /\ phase # "stopped" /\ phase' # "stopped"
    BY <1>10 DEF PrepareAgain, PrepareBegin, PrepareSkip, PrepareMissing, PrepareStore,
                 PrepareWrite, UnprepareNothing, Unprepare, Enter, Leave, AtResult
  <2>2. QED
    BY <1>1, <2>1
<1>11. CASE UNCHANGED vars
  BY <1>11, <1>b DEF vars, Pool!poolVars
<1>12. QED
  BY <1>4, <1>5, <1>6, <1>8, <1>9, <1>10, <1>11 DEF Next, Prepare

\* Claims, their roll-back and the configuration at the start keep what VfPool promises
\* (node_state.go:75 and 167, config.go:56).
THEOREM ImplementsPoolAlways == Spec => ImplementsPool
<1>1. Spec => []IInv
  BY InitInv, InvStep, PTL DEF Spec
<1>2. QED
  BY <1>1, PoolInitHolds, PoolStep, PTL DEF Spec, ImplementsPool, Pool!PoolSpec
=============================================================================
