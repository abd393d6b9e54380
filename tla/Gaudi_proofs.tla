---------------------------- MODULE Gaudi_proofs ----------------------------
(***************************************************************************)
(* Proofs about the Gaudi plugin: GaudiNodeState, for any claims, with all  *)
(* failures, crashes and delays of the CDI library's watcher, and           *)
(* GaudiHealth, for any devices, whether HLML and the API server fail or    *)
(* not.                                                                    *)
(***************************************************************************)
EXTENDS GaudiNodeState, GaudiHealth, TLAPS

-----------------------------------------------------------------------------
(* The inductive invariant                                                  *)

InCall == {"adding", "storing", "saving", "removing", "deleting", "filtering"}

\* A claim that has a call in progress is not prepared yet, or not any more.
CallInv ==
  /\ phase \in {"adding", "storing", "removing", "deleting", "filtering"} => claim \notin prepared
  /\ phase \in {"removing", "deleting", "filtering"} => claim \notin granted
  /\ phase = "saving" => claim \in prepared

\* The blank devices of prepared claims that the library has seen are in the file, and the
\* library's spec and the one that was got, which the file is written from, have each once.
Described(c) == c \in file /\ spec[c] = 1 /\ (Holding => held[c] = 1)

DescribedInv ==
  Running =>
    /\ \A c \in ((prepared \ recovered) \cap OwnClaims) \ overtaken : Described(c)
    /\ phase = "storing" /\ claim \in OwnClaims /\ claim \notin overtaken => Described(claim)

\* Each blank device, in the file or in one of these specs, is one of a claim that is
\* prepared, failed, missed or has a call in progress.
Somewhere(c) == c \in file \/ spec[c] # 0 \/ (Holding /\ held[c] # 0)

Accounted(c) == c \in prepared \cup failed \cup missed \/ (phase \in InCall /\ c = claim)

AccountedInv ==
  /\ Running => \A c \in Claims : Somewhere(c) => Accounted(c)
  /\ phase = "stopped" => \A c \in Claims : spec[c] = 0

\* While the plugin is up memory and file agree on the claims, up to those whose Prepare
\* could not be recorded.
RecordInv ==
  /\ granted \subseteq checkpoint \cup unrecorded
  /\ phase # "stopped" =>
       /\ granted \subseteq prepared \cup unrecorded
       /\ \A c \in prepared : c \in checkpoint \cup unrecorded \/ (phase = "saving" /\ c = claim)

IInv == TypeOK /\ CallInv /\ DescribedInv /\ AccountedInv /\ RecordInv

-----------------------------------------------------------------------------
(* Lemmas                                                                   *)

\* TypeOK, with the sets it quantifies over written out.
LEMMA Types ==
  ASSUME TypeOK
  PROVE  /\ file \subseteq Claims /\ index \subseteq Claims
         /\ spec \in [Owners -> 0..2] /\ held \in [Owners -> 0..2]
         /\ prepared \subseteq Claims /\ checkpoint \subseteq Claims
         /\ granted \subseteq Claims /\ recovered \subseteq Claims
         /\ failed \subseteq Claims /\ unrecorded \subseteq Claims
         /\ overtaken \subseteq Claims /\ missed \subseteq Claims
         /\ phase \in Phases
         /\ phase \in {"stopped", "idle"} => claim = NoClaim
         /\ phase \notin {"stopped", "idle"} => claim \in Claims
  BY DEF TypeOK

LEMMA NoSpecType == NoSpec \in [Owners -> 0..2] /\ \A c \in Claims : NoSpec[c] = 0
  BY DEF NoSpec, Owners

\* What is not written leaves the file; what is written becomes the library's spec, if the
\* library still has the one that was got.
LEMMA Written ==
  ASSUME NEW s \in [Owners -> 0..2], NEW ok, WriteSpec(s, ok), file \subseteq Claims
  PROVE  /\ spec' = (IF shared THEN s ELSE spec) /\ index' = index
         /\ held' = NoSpec /\ shared' = FALSE
         /\ file' \subseteq Claims
         /\ ok => \A c \in Claims : s[c] <= 1 /\ (c \in file' <=> s[c] = 1)
         /\ ~ok => file' = file
  BY DEF WriteSpec, Valid, Release

\* The blank device of another claim than the one that is changed is not touched.
Others(c) ==
  \A x \in Claims \ {c} :
    /\ Described(x) => x \in file' /\ spec'[x] = 1
    /\ x \in file' \/ spec'[x] # 0 => Somewhere(x)

LEMMA AddedBlank ==
  ASSUME TypeOK, Holding, NEW c \in Claims, NEW ok \in BOOLEAN, NewBlankDevice(c, ok)
  PROVE  /\ spec' \in [Owners -> 0..2] /\ held' = NoSpec /\ file' \subseteq Claims
         /\ shared' = FALSE /\ index' = index
         /\ Others(c)
         /\ ok /\ shared => c \in file' /\ spec'[c] = 1
  <1> DEFINE s == [held EXCEPT ![c] = IF @ = 0 THEN 1 ELSE 2]
  <1>1. /\ s \in [Owners -> 0..2] /\ s[c] # 0
        /\ \A x \in Claims \ {c} : s[x] = held[x]
    BY Types DEF Owners
  <1>2. /\ spec' = (IF shared THEN s ELSE spec) /\ index' = index
        /\ held' = NoSpec /\ shared' = FALSE
        /\ file' \subseteq Claims
        /\ ok => \A x \in Claims : s[x] <= 1 /\ (x \in file' <=> s[x] = 1)
        /\ ~ok => file' = file
    <2>1. WriteSpec(s, ok) /\ file \subseteq Claims
      BY Types DEF NewBlankDevice
    <2> HIDE DEF s
    <2> QED
      BY <1>1, <2>1, Written
  <1>3. spec \in [Owners -> 0..2] /\ held \in [Owners -> 0..2] /\ c \in Owners
    BY Types DEF Owners
  <1>4. \A x \in Claims : s[x] \in 0..2
    BY <1>1 DEF Owners
  <1> HIDE DEF s
  <1>5. Others(c)
    BY <1>1, <1>2, <1>3 DEF Others, Described, Somewhere
  <1>6. ok /\ shared => c \in file' /\ spec'[c] = 1
    BY <1>1, <1>2, <1>4
  <1> QED
    BY <1>1, <1>2, <1>3, <1>5, <1>6

LEMMA DeletedBlank ==
  ASSUME TypeOK, Holding, NEW c \in Claims, NEW ok \in BOOLEAN, DeleteBlankDevice(c, ok)
  PROVE  /\ spec' \in [Owners -> 0..2] /\ held' = NoSpec /\ file' \subseteq Claims
         /\ shared' = FALSE /\ index' = index
         /\ Others(c)
         /\ shared => spec'[c] = 0
         /\ ~shared => spec' = spec
         /\ ok => c \notin file'
  <1> DEFINE s == [held EXCEPT ![c] = 0, ![NoClaim] = IF held[c] = 2 THEN 1 ELSE @]
  <1>1. /\ s \in [Owners -> 0..2] /\ s[c] = 0
        /\ \A x \in Claims \ {c} : s[x] = held[x]
    BY Types, ClaimAssumption DEF Owners
  <1>2. /\ spec' = (IF shared THEN s ELSE spec) /\ index' = index
        /\ held' = NoSpec /\ shared' = FALSE
        /\ file' \subseteq Claims
        /\ ok => \A x \in Claims : s[x] <= 1 /\ (x \in file' <=> s[x] = 1)
        /\ ~ok => file' = file
    <2>1. WriteSpec(s, ok) /\ file \subseteq Claims
      BY Types DEF DeleteBlankDevice
    <2> HIDE DEF s
    <2> QED
      BY <1>1, <2>1, Written
  <1>3. spec \in [Owners -> 0..2] /\ held \in [Owners -> 0..2]
    BY Types
  <1> HIDE DEF s
  <1>4. Others(c)
    BY <1>1, <1>2, <1>3 DEF Others, Described, Somewhere
  <1> QED
    BY <1>1, <1>2, <1>3, <1>4

-----------------------------------------------------------------------------
(* The invariant is inductive                                               *)

LEMMA Initially == Init => IInv
  <1> SUFFICES ASSUME Init PROVE IInv
    OBVIOUS
  <1>1. TypeOK
    <2>1. shared \in BOOLEAN /\ torn \in BOOLEAN
      BY DEF Init
    <2>2. spec \in [Owners -> 0..2] /\ held \in [Owners -> 0..2]
      BY NoSpecType DEF Init
    <2>3. phase = "stopped" /\ phase \in Phases /\ claim = NoClaim
      BY DEF Init, Phases
    <2>4. /\ file \subseteq Claims /\ index \subseteq Claims
          /\ prepared \subseteq Claims /\ checkpoint \subseteq Claims
          /\ \A S \in {granted, recovered, failed, unrecorded, overtaken, missed} :
               S \subseteq Claims
      BY DEF Init
    <2> QED
      BY <2>1, <2>2, <2>3, <2>4 DEF TypeOK
  <1>2. CallInv /\ DescribedInv /\ AccountedInv /\ RecordInv
    BY NoSpecType DEF Init, CallInv, DescribedInv, AccountedInv, RecordInv, Running
  <1> QED
    BY <1>1, <1>2 DEF IInv

\* A step keeps the types, except of Booleans.
LEMMA StepTypes ==
  ASSUME TypeOK, [Next]_vars
  PROVE  /\ file' \subseteq Claims /\ index' \subseteq Claims
         /\ spec' \in [Owners -> 0..2] /\ held' \in [Owners -> 0..2]
         /\ prepared' \subseteq Claims /\ checkpoint' \subseteq Claims
         /\ granted' \subseteq Claims /\ recovered' \subseteq Claims
         /\ failed' \subseteq Claims /\ unrecorded' \subseteq Claims
         /\ overtaken' \subseteq Claims /\ missed' \subseteq Claims
         /\ phase' \in Phases
         /\ phase' \in {"stopped", "idle"} => claim' = NoClaim
         /\ phase' \notin {"stopped", "idle"} => claim' \in Claims
  <1> USE Types, NoSpecType DEF Phases
  <1>1. CASE Refresh
    BY <1>1 DEF Refresh, claimVars, callVars
  <1>2. CASE Crash
    BY <1>2 DEF Crash, Stop, Release
  <1>3. CASE Start
    BY <1>3 DEF Start, Stop, Release
  <1>4. CASE \E c \in Claims : PrepareAgain(c)
    BY <1>4 DEF PrepareAgain, cdiVars, claimVars, callVars
  <1>5. CASE \E c \in Claims : Prepare(c)
    BY <1>5 DEF Prepare, Get, claimVars, outVars
  <1>6. CASE PrepareAdd
    <2>1. claim \in Claims /\ Holding
      BY <1>6 DEF PrepareAdd, Holding
    <2>2. spec' \in [Owners -> 0..2] /\ held' = NoSpec /\ file' \subseteq Claims /\ index' = index
      BY <1>6, <2>1, AddedBlank DEF PrepareAdd
    <2> QED
      BY <1>6, <2>1, <2>2 DEF PrepareAdd, Leave, claimVars
  <1>7. CASE PrepareStore \/ PrepareWrite
    BY <1>7 DEF PrepareStore, PrepareWrite, Encoded, Leave, cdiVars
  <1>8. CASE \E c \in Claims : Unprepare(c) \/ UnprepareUnknown(c)
    BY <1>8 DEF Unprepare, UnprepareUnknown, AlreadyUnprepared, cdiVars, claimVars, callVars
  <1>9. CASE UnprepareWrite
    BY <1>9 DEF UnprepareWrite, Leave, cdiVars
  <1>10. CASE UnprepareDelete
    BY <1>10 DEF UnprepareDelete, Get, Leave, claimVars
  <1>11. CASE UnprepareFilter
    <2>1. claim \in Claims /\ Holding
      BY <1>11 DEF UnprepareFilter, Holding
    <2>2. spec' \in [Owners -> 0..2] /\ held' = NoSpec /\ file' \subseteq Claims /\ index' = index
      BY <1>11, <2>1, DeletedBlank DEF UnprepareFilter, Release
    <2> QED
      BY <1>11, <2>1, <2>2 DEF UnprepareFilter, Leave, claimVars
  <1>12. CASE UNCHANGED vars
    BY <1>12 DEF vars, cdiVars, claimVars, callVars, outVars
  <1> QED
    BY <1>1, <1>2, <1>3, <1>4, <1>5, <1>6, <1>7, <1>8, <1>9, <1>10, <1>11, <1>12 DEF Next

LEMMA StepBooleans ==
  ASSUME TypeOK, [Next]_vars
  PROVE  shared' \in BOOLEAN /\ torn' \in BOOLEAN
  <1>1. shared \in BOOLEAN /\ torn \in BOOLEAN
    BY DEF TypeOK
  <1>2. shared' \in BOOLEAN
    BY <1>1 DEF Next, Refresh, Crash, Start, Stop, PrepareAgain, Prepare, PrepareAdd,
         NewBlankDevice, DeleteBlankDevice, WriteSpec, PrepareStore, PrepareWrite, Unprepare,
         UnprepareUnknown, UnprepareWrite, UnprepareDelete, UnprepareFilter, Get, Release,
         vars, cdiVars
  <1>3. torn' \in BOOLEAN
    BY <1>1 DEF Next, Refresh, Crash, Start, Stop, PrepareAgain, Prepare, PrepareAdd,
         PrepareStore, PrepareWrite, Unprepare, UnprepareUnknown, UnprepareWrite,
         UnprepareDelete, UnprepareFilter, vars, claimVars
  <1> QED
    BY <1>2, <1>3

LEMMA StepTypeOK == TypeOK /\ [Next]_vars => TypeOK'
  <1> SUFFICES ASSUME TypeOK, [Next]_vars PROVE TypeOK'
    OBVIOUS
  <1>1. \A S \in {granted', recovered', failed', unrecorded', overtaken', missed'} :
          S \subseteq Claims
    BY StepTypes
  <1> QED
    BY <1>1, StepTypes, StepBooleans DEF TypeOK

LEMMA StepCallInv == IInv /\ [Next]_vars => CallInv'
  <1> SUFFICES ASSUME TypeOK, CallInv, [Next]_vars PROVE CallInv'
    BY DEF IInv
  <1> USE Types DEF CallInv
  <1>1. CASE Refresh
    BY <1>1 DEF Refresh, claimVars, callVars
  <1>2. CASE Crash \/ Start
    BY <1>2 DEF Crash, Start, Stop
  <1>3. CASE \E c \in Claims : PrepareAgain(c) \/ Prepare(c)
    BY <1>3 DEF PrepareAgain, Prepare, claimVars, callVars
  <1>4. CASE PrepareAdd \/ PrepareStore \/ PrepareWrite
    BY <1>4 DEF PrepareAdd, PrepareStore, PrepareWrite, Leave, claimVars
  <1>5. CASE \E c \in Claims : Unprepare(c) \/ UnprepareUnknown(c)
    BY <1>5 DEF Unprepare, UnprepareUnknown, AlreadyUnprepared, claimVars, callVars
  <1>6. CASE UnprepareWrite \/ UnprepareDelete \/ UnprepareFilter
    BY <1>6 DEF UnprepareWrite, UnprepareDelete, UnprepareFilter, Leave, claimVars
  <1>7. CASE UNCHANGED vars
    BY <1>7 DEF vars, claimVars, callVars, outVars
  <1> QED
    BY <1>1, <1>2, <1>3, <1>4, <1>5, <1>6, <1>7 DEF Next

LEMMA StepDescribed == IInv /\ [Next]_vars => DescribedInv'
  <1> SUFFICES ASSUME TypeOK, CallInv, DescribedInv, [Next]_vars PROVE DescribedInv'
    BY DEF IInv
  <1> USE Types DEF DescribedInv, Running, Described, Holding
  <1>1. CASE Refresh
    BY <1>1 DEF Refresh, claimVars, callVars, Owners
  <1>2. CASE Crash \/ Start
    BY <1>2 DEF Crash, Start, Stop
  <1>3. CASE \E c \in Claims : PrepareAgain(c)
    BY <1>3 DEF PrepareAgain, cdiVars, claimVars, callVars
  <1>4. CASE \E c \in Claims : Prepare(c)
    BY <1>4 DEF Prepare, Get, claimVars, outVars
  <1>5. CASE PrepareAdd
    <2>1. /\ claim \in Claims /\ claim \notin prepared /\ phase = "adding"
          /\ prepared' = prepared /\ recovered' = recovered
      BY <1>5 DEF PrepareAdd, CallInv, claimVars
    <2>2. PICK ok \in BOOLEAN :
            /\ NewBlankDevice(claim, ok)
            /\ IF ok THEN phase' = "storing" /\ claim' = claim ELSE Leave
            /\ overtaken' = IF ok /\ ~shared THEN overtaken \cup {claim} ELSE overtaken
      BY <1>5 DEF PrepareAdd
    <2>3. Others(claim) /\ (ok /\ shared => claim \in file' /\ spec'[claim] = 1)
      BY <2>1, <2>2, AddedBlank
    <2>4. phase' \in {"idle", "storing"} /\ (phase' = "storing" => ok /\ claim' = claim)
      BY <2>2 DEF Leave
    <2>5. overtaken \subseteq overtaken' /\ (ok /\ ~shared => claim \in overtaken')
      BY <2>2
    <2> QED
      BY <2>1, <2>3, <2>4, <2>5 DEF Others
  <1>6. CASE PrepareStore
    BY <1>6 DEF PrepareStore, Leave, cdiVars
  <1>7. CASE PrepareWrite
    BY <1>7 DEF PrepareWrite, Leave, cdiVars
  <1>8. CASE \E c \in Claims : Unprepare(c) \/ UnprepareUnknown(c)
    BY <1>8 DEF Unprepare, UnprepareUnknown, AlreadyUnprepared, cdiVars, claimVars, callVars
  <1>9. CASE UnprepareWrite
    BY <1>9 DEF UnprepareWrite, Leave, cdiVars
  <1>10. CASE UnprepareDelete
    BY <1>10 DEF UnprepareDelete, Get, Leave, claimVars
  <1>11. CASE UnprepareFilter
    <2>1. /\ claim \in Claims /\ claim \notin prepared /\ phase = "filtering"
          /\ prepared' = prepared /\ recovered' = recovered /\ overtaken' = overtaken
      BY <1>11 DEF UnprepareFilter, CallInv, claimVars
    <2>2. phase' \in {"idle", "panic"}
      BY <1>11 DEF UnprepareFilter, Leave
    <2>3. phase' = "idle" => Others(claim)
      BY <1>11, <2>1, DeletedBlank DEF UnprepareFilter
    <2> QED
      BY <2>1, <2>2, <2>3 DEF Others
  <1>12. CASE UNCHANGED vars
    BY <1>12 DEF vars, cdiVars, claimVars, callVars, outVars
  <1> QED
    BY <1>1, <1>2, <1>3, <1>4, <1>5, <1>6, <1>7, <1>8, <1>9, <1>10, <1>11, <1>12 DEF Next

LEMMA StepAccounted == IInv /\ [Next]_vars => AccountedInv'
  <1> SUFFICES ASSUME TypeOK, CallInv, AccountedInv, [Next]_vars PROVE AccountedInv'
    BY DEF IInv
  <1> USE Types, NoSpecType DEF AccountedInv, Running, Accounted, InCall, Somewhere, Holding
  <1>1. CASE Refresh
    <2>1. \A c \in Claims : c \in file' \/ spec'[c] # 0 => c \in file
      BY <1>1 DEF Refresh, Owners
    <2>2. \A c \in missed \ missed' : c \notin file /\ ~(Holding /\ held[c] # 0)
      BY <1>1 DEF Refresh, Owners
    <2>3. Running' /\ held' = held /\ phase' = phase
      BY <1>1 DEF Refresh, callVars
    <2>4. claim' = claim /\ prepared' = prepared /\ failed' = failed
      BY <1>1 DEF Refresh, callVars, claimVars
    <2> QED
      BY <2>1, <2>2, <2>3, <2>4
  <1>2. CASE Crash \/ Start
    BY <1>2 DEF Crash, Start, Stop
  <1>3. CASE \E c \in Claims : PrepareAgain(c)
    BY <1>3 DEF PrepareAgain, cdiVars, claimVars, callVars
  <1>4. CASE \E c \in Claims : Prepare(c)
    BY <1>4 DEF Prepare, Get, claimVars, outVars
  <1>5. CASE PrepareAdd
    <2>1. /\ claim \in Claims /\ phase = "adding"
          /\ prepared' = prepared /\ missed' = missed
      BY <1>5 DEF PrepareAdd, claimVars
    <2>2. PICK ok \in BOOLEAN :
            /\ NewBlankDevice(claim, ok)
            /\ IF ok THEN phase' = "storing" /\ UNCHANGED <<claim, failed>>
               ELSE Leave /\ failed' = failed \cup {claim}
      BY <1>5 DEF PrepareAdd
    <2>3. \A x \in Claims \ {claim} : x \in file' \/ spec'[x] # 0 => Somewhere(x)
      BY <2>1, <2>2, AddedBlank DEF Others
    <2>4. \/ phase' = "idle" /\ failed' = failed \cup {claim}
          \/ phase' = "storing" /\ claim' = claim /\ failed' = failed
      BY <2>2 DEF Leave
    <2> QED
      BY <2>1, <2>3, <2>4
  <1>6. CASE PrepareStore
    BY <1>6 DEF PrepareStore, Leave, cdiVars
  <1>7. CASE PrepareWrite
    BY <1>7 DEF PrepareWrite, Leave, cdiVars, CallInv
  <1>8. CASE \E c \in Claims : Unprepare(c) \/ UnprepareUnknown(c)
    BY <1>8 DEF Unprepare, UnprepareUnknown, AlreadyUnprepared, cdiVars, claimVars, callVars
  <1>9. CASE UnprepareWrite
    BY <1>9 DEF UnprepareWrite, Leave, cdiVars
  <1>10. CASE UnprepareDelete
    BY <1>10 DEF UnprepareDelete, Get, Leave, claimVars, Owners
  <1>11. CASE UnprepareFilter
    <2>1. /\ claim \in Claims /\ phase = "filtering" /\ prepared' = prepared
      BY <1>11 DEF UnprepareFilter, claimVars
    <2>2. CASE held[claim] = 0
      BY <1>11, <2>1, <2>2 DEF UnprepareFilter
    <2>3. CASE held[claim] # 0
      <3>1. PICK ok \in BOOLEAN :
              /\ DeleteBlankDevice(claim, ok)
              /\ failed' = IF ok THEN failed \ {claim} ELSE failed \cup {claim}
              /\ missed' = IF ok /\ ~shared /\ spec[claim] > 0 THEN missed \cup {claim}
                           ELSE missed
              /\ Leave
        BY <1>11, <2>3 DEF UnprepareFilter
      <3>2. /\ \A x \in Claims \ {claim} : x \in file' \/ spec'[x] # 0 => Somewhere(x)
            /\ shared => spec'[claim] = 0
            /\ ~shared => spec' = spec
            /\ ok => claim \notin file'
        BY <2>1, <3>1, DeletedBlank DEF Others
      <3>3. phase' = "idle"
        BY <3>1 DEF Leave
      <3>4. spec[claim] \in 0..2
        BY <2>1 DEF Owners
      <3>5. CASE ok
        <4>1. /\ \A x \in Claims \ {claim} :
                   Accounted(x) => x \in (prepared' \cup failed' \cup missed')
              /\ claim \in file' \/ spec'[claim] # 0 => claim \in missed'
          BY <2>1, <3>1, <3>2, <3>4, <3>5
        <4> QED
          BY <2>1, <3>2, <3>3, <4>1
      <3>6. CASE ~ok
        <4>1. \A x \in Claims :
                x = claim \/ Accounted(x) => x \in (prepared' \cup failed' \cup missed')
          BY <2>1, <3>1, <3>6
        <4> QED
          BY <2>1, <3>2, <3>3, <4>1
      <3> QED
        BY <3>5, <3>6
    <2> QED
      BY <2>2, <2>3
  <1>12. CASE UNCHANGED vars
    BY <1>12 DEF vars, cdiVars, claimVars, callVars, outVars
  <1> QED
    BY <1>1, <1>2, <1>3, <1>4, <1>5, <1>6, <1>7, <1>8, <1>9, <1>10, <1>11, <1>12 DEF Next

LEMMA StepRecord == IInv /\ [Next]_vars => RecordInv'
  <1> SUFFICES ASSUME TypeOK, CallInv, RecordInv, [Next]_vars PROVE RecordInv'
    BY DEF IInv
  <1> USE Types DEF RecordInv
  <1>1. CASE Refresh
    BY <1>1 DEF Refresh, claimVars, callVars
  <1>2. CASE Crash \/ Start
    BY <1>2 DEF Crash, Start, Stop
  <1>3. CASE (\E c \in Claims : PrepareAgain(c) \/ Prepare(c)) \/ PrepareAdd
    BY <1>3 DEF PrepareAgain, Prepare, PrepareAdd, Leave, claimVars, callVars, outVars
  <1>4. CASE PrepareStore
    BY <1>4 DEF PrepareStore, Leave
  <1>5. CASE PrepareWrite
    BY <1>5 DEF PrepareWrite, Leave, Encoded, CallInv
  <1>6. CASE \E c \in Claims : Unprepare(c) \/ UnprepareUnknown(c)
    BY <1>6 DEF Unprepare, UnprepareUnknown, AlreadyUnprepared, claimVars, callVars
  <1>7. CASE UnprepareWrite
    BY <1>7 DEF UnprepareWrite, Leave, CallInv
  <1>8. CASE UnprepareDelete \/ UnprepareFilter
    BY <1>8 DEF UnprepareDelete, UnprepareFilter, Leave, claimVars
  <1>9. CASE UNCHANGED vars
    BY <1>9 DEF vars, claimVars, callVars, outVars
  <1> QED
    BY <1>1, <1>2, <1>3, <1>4, <1>5, <1>6, <1>7, <1>8, <1>9 DEF Next

\* The invariant holds in every state of every behavior.
LEMMA Invariant == Spec => []IInv
  <1>1. IInv /\ [Next]_vars => IInv'
    BY StepTypeOK, StepCallInv, StepDescribed, StepAccounted, StepRecord DEF IInv
  <1> QED
    BY Initially, <1>1, PTL DEF Spec

-----------------------------------------------------------------------------
(* Theorems                                                                 *)

\* The blank devices of the spec file are those of the claims this process prepared, but for
\* failed calls, claims unprepared before the CDI library found their device, and those whose
\* device was added or deleted just when the library read the file and that it has not read
\* since: whatever fails and whenever the watcher comes (node_state.go:153, cdihelpers.go:157).
THEOREM BlanksMatchAlways == Spec => []BlanksMatch
  <1>1. IInv => BlanksMatch
    <2> SUFFICES ASSUME IInv PROVE BlanksMatch
      OBVIOUS
    <2>1. BlankWhilePrepared
      BY Types DEF IInv, DescribedInv, Described, BlankWhilePrepared
    <2>2. NoBlankLeft
      BY Types DEF IInv, AccountedInv, Accounted, Somewhere, InCall, Running, NoBlankLeft
    <2> QED
      BY <2>1, <2>2 DEF IInv, BlanksMatch
  <1> QED
    BY Invariant, <1>1, PTL

\* What kubelet was granted is in the checkpoint at every moment, crashes included, unless
\* its Prepare could not write it (driver.go:163, node_state.go:203).
THEOREM GrantedRecordedAlways == Spec => []GrantedRecorded
  <1>1. IInv => GrantedRecorded
    BY DEF IInv, RecordInv, GrantedRecorded
  <1> QED
    BY Invariant, <1>1, PTL

-----------------------------------------------------------------------------
(* Health monitoring: its inductive invariant                               *)

\* The devices that have a rule, or whose rule was refused.
Answered == rules \cup unruled

\* A device is not marked before its rule was asked for, and the ResourceSlice published
\* last is not newer than the marks.
TaintInv ==
  /\ unhealthy \subseteq Answered
  /\ process # "down" => slice \subseteq Answered
  /\ process = "down" => monitor = "none"

HealthInv == HealthTypeOK /\ TaintInv

-----------------------------------------------------------------------------
(* That invariant is inductive                                              *)

\* TypeOK, with the sets it quantifies over written out.
Sets ==
  /\ toRegister \subseteq Devices /\ registered \subseteq Devices /\ outbox \subseteq Devices
  /\ received \subseteq Devices /\ events \subseteq Devices /\ erred \subseteq Devices
  /\ unhealthy \subseteq Devices /\ slice \subseteq Devices
  /\ rules \subseteq Devices /\ unruled \subseteq Devices

Places ==
  /\ process \in {"down", "up", "shutdown", "closed"}
  /\ watcher \in Goroutine \cup {"registering", "ticking", "checking"}
  /\ monitor \in Goroutine \cup {"selecting", "updating", "publishing"}
  /\ received # {} <=> monitor \in {"updating", "publishing"}

LEMMA HealthTypes == HealthTypeOK <=> Sets /\ Places
  BY DEF HealthTypeOK, Sets, Places

\* The rule of the device received is created or refused: it is answered either way, and
\* so are those that were answered before.
LEMMA RuleAsked ==
  ASSUME NEW S, CreateTaintRuleMaybe(S)
  PROVE  Answered \cup S \subseteq Answered'
  BY DEF CreateTaintRuleMaybe, Answered

LEMMA HealthInitially == HealthInit => HealthInv
  <1> SUFFICES ASSUME HealthInit PROVE HealthInv
    OBVIOUS
  <1>1. Sets
    BY DEF HealthInit, Sets
  <1>2. Places
    BY DEF HealthInit, Places, Goroutine
  <1>3. TaintInv
    BY DEF HealthInit, TaintInv, Answered
  <1> QED
    BY <1>1, <1>2, <1>3, HealthTypes DEF HealthInv

LEMMA HealthSets == HealthInv /\ [HealthNext]_healthVars => Sets'
  <1> SUFFICES ASSUME Sets, [HealthNext]_healthVars PROVE Sets'
    BY HealthTypes DEF HealthInv
  <1> USE DEF Sets
  <1>1. CASE StartMonitoring \/ Shutdown \/ ShutdownHLML \/ Exit
    BY <1>1 DEF StartMonitoring, Shutdown, ShutdownHLML, Exit,
         watcherVars, monitorVars, hlmlVars, markVars
  <1>2. CASE \E d \in Devices : CriticalError(d)
    BY <1>2 DEF CriticalError, watcherVars, monitorVars, markVars
  <1>3. CASE Watcher
    BY <1>3 DEF Watcher, Register, CheckEvent, UnhealthyUIDs, Registered, Tick,
         WatcherStop, CheckNothing, monitorVars, hlmlVars, markVars
  <1>4. CASE (\E d \in Devices : Receive(d)) \/ MonitorStop \/ Publish
    BY <1>4 DEF Receive, AllSent, MonitorStop, Publish,
         watcherVars, hlmlVars, markVars
  <1>5. CASE UpdateHealth
    BY <1>5 DEF UpdateHealth, CreateTaintRuleMaybe, watcherVars, hlmlVars
  <1>6. CASE UNCHANGED healthVars
    BY <1>6 DEF healthVars, watcherVars, monitorVars, hlmlVars, markVars
  <1> QED
    BY <1>1, <1>2, <1>3, <1>4, <1>5, <1>6 DEF HealthNext, Monitor

LEMMA HealthPlaces == HealthInv /\ [HealthNext]_healthVars => Places'
  <1> SUFFICES ASSUME Places, TaintInv, [HealthNext]_healthVars PROVE Places'
    BY HealthTypes DEF HealthInv
  <1> USE DEF Places, Goroutine
  <1>1. CASE StartMonitoring
    BY <1>1 DEF StartMonitoring, TaintInv
  <1>2. CASE Shutdown \/ ShutdownHLML \/ Exit
    BY <1>2 DEF Shutdown, ShutdownHLML, Exit, watcherVars, monitorVars
  <1>3. CASE \E d \in Devices : CriticalError(d)
    BY <1>3 DEF CriticalError, watcherVars, monitorVars
  <1>4. CASE Watcher
    BY <1>4 DEF Watcher, Register, CheckEvent, Registered, Tick, WatcherStop,
         CheckNothing, monitorVars
  <1>5. CASE Monitor
    BY <1>5 DEF Monitor, Receive, MonitorStop, UpdateHealth, Publish,
         watcherVars
  <1>6. CASE UNCHANGED healthVars
    BY <1>6 DEF healthVars, watcherVars, monitorVars
  <1> QED
    BY <1>1, <1>2, <1>3, <1>4, <1>5, <1>6 DEF HealthNext

LEMMA HealthTaint == HealthInv /\ [HealthNext]_healthVars => TaintInv'
  <1> SUFFICES ASSUME Places, TaintInv, [HealthNext]_healthVars PROVE TaintInv'
    BY HealthTypes DEF HealthInv
  <1> USE DEF TaintInv
  <1>1. CASE StartMonitoring
    BY <1>1 DEF StartMonitoring
  <1>2. CASE Shutdown \/ ShutdownHLML \/ Exit
    BY <1>2 DEF Shutdown, ShutdownHLML, Exit, Answered, monitorVars,
         markVars
  <1>3. CASE \E d \in Devices : CriticalError(d)
    BY <1>3 DEF CriticalError, Answered, monitorVars, markVars
  <1>4. CASE Watcher
    BY <1>4 DEF Watcher, Register, CheckEvent, Registered, Tick, WatcherStop,
         CheckNothing, Answered, monitorVars, markVars
  <1>5. CASE (\E d \in Devices : Receive(d)) \/ MonitorStop
    BY <1>5 DEF Receive, MonitorStop, Answered, markVars
  <1>6. CASE UpdateHealth
    BY <1>6, RuleAsked DEF UpdateHealth
  <1>7. CASE Publish
    BY <1>7 DEF Publish, Answered
  <1>8. CASE UNCHANGED healthVars
    BY <1>8 DEF healthVars, Answered, monitorVars, markVars
  <1> QED
    BY <1>1, <1>2, <1>3, <1>4, <1>5, <1>6, <1>7, <1>8 DEF HealthNext, Monitor

-----------------------------------------------------------------------------
(* Theorem of the monitoring                                                *)

\* In every state of every behavior, a device published as unhealthy has a DeviceTaintRule
\* or one that was refused: also when the plugin is shut down, stopped or started again
\* between the rule, the mark and the ResourceSlice (healthcare.go:83 and 118).
THEOREM UnhealthyIsTaintedAlways == HealthSpec => []UnhealthyIsTainted
  <1>1. HealthInv /\ [HealthNext]_healthVars => HealthInv'
    BY HealthSets, HealthPlaces, HealthTaint DEF HealthInv, HealthTypeOK, Sets, Places
  <1>2. HealthInv => UnhealthyIsTainted
    BY DEF HealthInv, TaintInv, UnhealthyIsTainted, Answered
  <1> QED
    BY HealthInitially, <1>1, <1>2, PTL DEF HealthSpec
=============================================================================
