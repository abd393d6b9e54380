-------------------------- MODULE QatDevice_proofs --------------------------
(***************************************************************************)
(* Proofs about QatDevice, for any number of VFs, requesters and services,  *)
(* for PFs that may be reconfigured and those that may not, with any write  *)
(* to sysfs failing and the process ending at any point.                   *)
(***************************************************************************)
EXTENDS QatDevice, TLAPS

-----------------------------------------------------------------------------
(* The inductive invariant                                                  *)

Enabling == {"create", "unbind", "bind"}
Setting == {"down", "write"} \cup Enabling
Bookkeeping == {"configuring", "idle", "down", "allocate", "giveback"}

Match == Written(services) = sysServices

\* A PF that is up has the services in memory.  Services are written while the PF is down;
\* what EnableVFs is going to bring up has those of config, or still those in memory.
ServicesInv ==
  /\ phase # "stopped" => state = sysState
  /\ phase # "stopped" /\ sysState = "up" => Match
  /\ phase = "write" => state = "down" /\ (wasUp => Match)
  /\ phase \in Enabling =>
       IF caller = "start" \/ restoring THEN Match ELSE sysServices = Written(config)
  /\ phase \in Enabling /\ caller # "start" => state = "down"

\* Who called: a PF is configured before claims come, or for one.
CallerInv ==
  /\ phase \in {"down", "write", "allocate", "giveback"} => caller # "start"
  /\ phase \in {"allocate", "giveback"} => caller = "allocate"
  /\ caller = "allocate" /\ phase \in Setting \cup {"allocate", "giveback"} =>
       request.who \in Requesters
  /\ restoring => phase \in Enabling /\ caller # "start"

\* A VF is available or somebody has it, and only one; there are as many as the hardware can
\* have, but at the start.  Nobody has one while the PF is down or is changed.
Disjoint ==
  /\ \A r \in Requesters : allocated[r] \cap available = {}
  /\ \A q, r \in Requesters : q # r => allocated[q] \cap allocated[r] = {}

Complete == \A v \in VFs : v \in available \/ \E r \in Requesters : v \in allocated[r]

VFsInv ==
  /\ Disjoint
  /\ phase \in Bookkeeping => Complete
  /\ phase \in {"write", "unbind", "bind"} \/ (phase = "create" /\ caller # "start") => available = VFs
  /\ phase = "create" /\ caller = "start" => available = sysVFs
  /\ phase \in {"stopped", "write", "configuring"} \cup Enabling => ~InUse

\* A VF that is not bound has still to be bound before the PF comes up.
BoundInv ==
  /\ phase \in {"unbind", "bind"} => VFs \subseteq onVfio \cup todo
  /\ phase = "bind" => binding \in todo
  /\ phase \in Bookkeeping /\ state = "up" => VFs \subseteq onVfio

IInv == TypeOK /\ ServicesInv /\ CallerInv /\ VFsInv /\ BoundInv

-----------------------------------------------------------------------------
(* Types                                                                    *)

\* The parts of TypeOK.
KernelTypes ==
  /\ sysState \in {"up", "down"} /\ state \in {"up", "down"}
  /\ sysServices \subseteq Services
  /\ services \subseteq Services \cup {None} /\ config \subseteq Services \cup {None}

VFTypes ==
  /\ sysVFs \subseteq VFs /\ onVfio \subseteq VFs /\ todo \subseteq VFs /\ binding \in VFs
  /\ available \subseteq VFs /\ allocated \in [Requesters -> SUBSET VFs]

CallTypes ==
  /\ phase \in Phases
  /\ caller \in {"start", "config", "allocate", "free"}
  /\ request \in [who : Requesters \cup {Nobody}, vf : VFs]

BooleanTypes == wasUp \in BOOLEAN /\ restoring \in BOOLEAN /\ sysfsFaults \in BOOLEAN

CrashType == crashes \in 0..MaxCrashes

\* Who the VF of the call in progress is for.
RequestInv == phase \in {"allocate", "giveback"} => request.who \in Requesters

LEMMA Types ==
  TypeOK <=> /\ KernelTypes /\ VFTypes /\ CallTypes /\ BooleanTypes /\ CrashType
             /\ RequestInv
  <1>1. {sysState, state} \subseteq {"up", "down"} <=> sysState \in {"up", "down"} /\ state \in {"up", "down"}
    OBVIOUS
  <1>2. {wasUp, restoring} \subseteq BOOLEAN <=> wasUp \in BOOLEAN /\ restoring \in BOOLEAN
    OBVIOUS
  <1> QED
    BY <1>1, <1>2 DEF TypeOK, KernelTypes, VFTypes, CallTypes, BooleanTypes, CrashType, RequestInv

LEMMA Nothing ==
  /\ NoneAllocated \in [Requesters -> SUBSET VFs]
  /\ \A r \in Requesters : NoneAllocated[r] = {}
  /\ NoRequest \in [who : Requesters \cup {Nobody}, vf : VFs]
  <1>1. 1 \in VFs
    BY QatDeviceAssumption DEF VFs
  <1> QED
    BY <1>1 DEF NoneAllocated, NoRequest

\* Services survive being read and written.
LEMMA ParsedWritten ==
  ASSUME NEW s \in SUBSET Services
  PROVE  /\ Parse(s) \subseteq Services \cup {None} /\ Written(Parse(s)) = s
         /\ Parse(s) \cup {None} \subseteq Services \cup {None}
  BY QatDeviceAssumption DEF Parse, Written

\* getVFs finds every VF when it knows none, and no other ones when it knows all.
LEMMA Found ==
  ASSUME ~InUse, available = {} \/ available = VFs
  PROVE  Find(VFs) = VFs
  <1>1. \A r \in Requesters : allocated[r] = {}
    BY DEF InUse
  <1>2. CASE available = {}
    BY <1>1, <1>2 DEF Find
  <1>3. CASE available = VFs
    BY <1>3 DEF Find
  <1> QED
    BY <1>2, <1>3

-----------------------------------------------------------------------------
(* What allocating and freeing do                                           *)

LEMMA Taken ==
  ASSUME VFTypes, NEW r \in Requesters, NEW v \in VFs, Take(r, v)
  PROVE  /\ allocated' \in [Requesters -> SUBSET VFs] /\ available' \subseteq VFs
         /\ available' = available \ {v}
         /\ allocated'[r] = allocated[r] \cup {v}
         /\ \A q \in Requesters \ {r} : allocated'[q] = allocated[q]
         /\ Disjoint /\ v \in available => Disjoint'
         /\ Complete => Complete'
  <1>1. /\ available' = available \ {v}
        /\ allocated' = [allocated EXCEPT ![r] = allocated[r] \cup {v}]
        /\ allocated \in [Requesters -> SUBSET VFs] /\ available \subseteq VFs
    BY DEF Take, VFTypes
  <1>2. /\ allocated' \in [Requesters -> SUBSET VFs]
        /\ allocated'[r] = allocated[r] \cup {v}
        /\ \A q \in Requesters \ {r} : allocated'[q] = allocated[q]
    BY <1>1
  <1>3. Disjoint /\ v \in available => Disjoint'
    BY <1>1, <1>2 DEF Disjoint
  <1>4. Complete => Complete'
    BY <1>1, <1>2 DEF Complete
  <1> QED
    BY <1>1, <1>2, <1>3, <1>4

\* freePF for a VF of somebody else changes nothing; the rest of the call may be to configure
\* the PF again, when nobody has a VF any more.
Freed(r, v) ==
  /\ allocated' \in [Requesters -> SUBSET VFs] /\ available' \subseteq VFs
  /\ available' = available \cup {v}
  /\ allocated'[r] = allocated[r] \ {v}
  /\ \A q \in Requesters \ {r} : allocated'[q] = allocated[q]

LEMMA FreedPF ==
  ASSUME VFTypes, Disjoint, NEW r \in Requesters, NEW v \in VFs, FreePF(r, v)
  PROVE  /\ \/ v \in allocated[r] /\ Freed(r, v)
            \/ v \notin allocated[r] /\ UNCHANGED vfVars
         /\ \/ phase' = "idle" /\ UNCHANGED <<caller, config>> /\ request' = NoRequest
            \/ /\ phase' = "down" /\ caller' = "free" /\ config' = {None} /\ UNCHANGED request
         /\ Disjoint'
         /\ Complete => Complete'
  <1>0. allocated \in [Requesters -> SUBSET VFs] /\ available \subseteq VFs
    BY DEF VFTypes
  <1>1. CASE v \in allocated[r]
    <2>1. /\ available' = available \cup {v}
          /\ allocated' = [allocated EXCEPT ![r] = allocated[r] \ {v}]
      BY <1>1 DEF FreePF
    <2>2. /\ allocated' \in [Requesters -> SUBSET VFs] /\ available' \subseteq VFs
          /\ allocated'[r] = allocated[r] \ {v}
          /\ \A q \in Requesters \ {r} : allocated'[q] = allocated[q]
      BY <1>0, <2>1
    <2>3. Freed(r, v)
      BY <2>1, <2>2 DEF Freed
    <2>4. Disjoint'
      BY <1>1, <2>1, <2>2 DEF Disjoint
    <2>5. Complete => Complete'
      BY <2>1, <2>2 DEF Complete
    <2>6. \/ phase' = "idle" /\ UNCHANGED <<caller, config>> /\ request' = NoRequest
          \/ /\ phase' = "down" /\ caller' = "free" /\ config' = {None} /\ UNCHANGED request
      BY <1>1 DEF FreePF, Idle, SetServices
    <2> QED
      BY <1>1, <2>3, <2>4, <2>5, <2>6
  <1>2. CASE v \notin allocated[r]
    <2>1. UNCHANGED vfVars /\ phase' = "idle" /\ UNCHANGED <<caller, config>> /\ request' = NoRequest
      BY <1>2 DEF FreePF, Idle
    <2> QED
      BY <1>2, <2>1 DEF vfVars, Disjoint, Complete
  <1> QED
    BY <1>1, <1>2

\* A call that fails ends, or has its VF given back; at the start the process ends.
CallFails ==
  /\ restoring' = FALSE
  /\ \/ caller = "allocate" /\ phase' = "giveback" /\ request' = request
     \/ caller # "allocate" /\ phase' = "idle" /\ request' = NoRequest

LEMMA ServicesFailed == SetServicesError => CallFails
  BY DEF SetServicesError, CallFails, Idle

LEMMA EnableFailed ==
  ASSUME EnableVFsError
  PROVE  /\ UNCHANGED pfVars /\ todo' = {}
         /\ \/ caller = "start" /\ Stop
            \/ caller # "start" /\ CallFails /\ UNCHANGED <<vfVars, caller, config, wasUp>>
  BY ServicesFailed DEF EnableVFsError, Stop

-----------------------------------------------------------------------------
(* The invariant is inductive                                               *)

LEMMA Initially == Init => IInv
  <1> SUFFICES ASSUME Init PROVE IInv
    OBVIOUS
  <1> USE QatDeviceAssumption, Nothing
  <1>1. KernelTypes
    BY DEF Init, KernelTypes
  <1>2. VFTypes
    <2>1. 1 \in VFs /\ sysVFs \subseteq VFs
      BY DEF Init, VFs
    <2> QED
      BY <2>1 DEF Init, VFTypes
  <1>3. CallTypes /\ RequestInv
    BY DEF Init, CallTypes, Phases, RequestInv
  <1>4. BooleanTypes
    BY DEF Init, BooleanTypes
  <1>5. CrashType
    BY DEF Init, CrashType
  <1>6. ServicesInv /\ CallerInv /\ BoundInv
    BY DEF Init, ServicesInv, CallerInv, BoundInv, Enabling, Setting, Bookkeeping
  <1>7. VFsInv
    BY DEF Init, VFsInv, Disjoint, InUse, Bookkeeping, Enabling
  <1> QED
    BY <1>1, <1>2, <1>3, <1>4, <1>5, <1>6, <1>7, Types DEF IInv

LEMMA StepKernelTypes == IInv /\ [Next]_vars => KernelTypes'
  <1> SUFFICES ASSUME KernelTypes, VFTypes, CallTypes, RequestInv, VFsInv, [Next]_vars PROVE KernelTypes'
    BY Types DEF IInv
  <1> USE DEF KernelTypes
  <1>1. CASE Crash
    BY <1>1 DEF Crash, Stop, kernelVars, pfVars
  <1>2. CASE New
    BY <1>2, ParsedWritten DEF New, kernelVars
  <1>3. CASE Configure
    BY <1>3, ParsedWritten, QatDeviceAssumption DEF Configure, kernelVars, pfVars
  <1>4. CASE Down
    BY <1>4 DEF Down
  <1>5. CASE WriteServices
    <2>1. Written(config) \subseteq Services
      BY DEF Written
    <2> QED
      BY <1>5, <2>1 DEF WriteServices, pfVars
  <1>6. CASE CreateVFs \/ (\E v \in VFs : UnbindVF(v)) \/ BindVF
    <2>1. UNCHANGED <<sysState, sysServices, state, services>>
      BY <1>6, EnableFailed DEF CreateVFs, UnbindVF, BindVF, pfVars
    <2>2. config' = config \/ config' = {None}
      BY <1>6, EnableFailed DEF CreateVFs, UnbindVF, BindVF, setVars, Stop
    <2> QED
      BY <2>1, <2>2
  <1>7. CASE Up
    <2>1. /\ state' \in {"up", state} /\ sysState' \in {"up", sysState} /\ sysServices' = sysServices
          /\ config' \in {config, {None}}
      BY <1>7, EnableFailed DEF Up, pfVars, Stop
    <2>2. services' \in {services, config}
      BY <1>7, EnableFailed DEF Up, EnableVFsDone, pfVars
    <2> QED
      BY <2>1, <2>2
  <1>8. CASE AllocateReconfigured
    BY <1>8 DEF AllocateReconfigured, kernelVars, pfVars, setVars
  <1>9. CASE GiveBackFailed
    <2>1. config' \in {config, {None}}
      BY <1>9 DEF GiveBackFailed, FreePF, SetServices
    <2> QED
      BY <1>9, <2>1 DEF GiveBackFailed, kernelVars, pfVars
  <1>10. ASSUME NEW r \in Requesters, NEW v \in VFs,
                \/ Allocate(r, v) \/ Free(r, v)
                \/ \E s \in Default : AllocateWithReconfiguration(r, v, s)
         PROVE  KernelTypes'
    BY <1>10, QatDeviceAssumption
       DEF Allocate, Free, FreePF, AllocateWithReconfiguration, SetServices, kernelVars, pfVars
  <1>11. CASE \E v \in VFs : FreeUnnamed(v)
    BY <1>11 DEF FreeUnnamed, FreePF, SetServices, kernelVars, pfVars
  <1>12. CASE UNCHANGED vars
    BY <1>12 DEF vars, kernelVars, pfVars, setVars
  <1> QED
    BY <1>1, <1>2, <1>3, <1>4, <1>5, <1>6, <1>7, <1>8, <1>9, <1>10, <1>11, <1>12
       DEF Next, CallStep, EnableVFs

LEMMA StepVFTypes == IInv /\ [Next]_vars => VFTypes'
  <1> SUFFICES ASSUME VFTypes, CallTypes, RequestInv, VFsInv, [Next]_vars PROVE VFTypes'
    BY Types DEF IInv
  <1>0. VFTypes
    OBVIOUS
  <1> USE DEF VFTypes
  <1>1. CASE Crash
    BY <1>1, Nothing DEF Crash, Stop, kernelVars
  <1>2. CASE New
    BY <1>2 DEF New, kernelVars
  <1>3. CASE Configure \/ Down
    BY <1>3 DEF Configure, Down, kernelVars, vfVars
  <1>4. CASE WriteServices
    BY <1>4 DEF WriteServices, vfVars
  <1>5. CASE CreateVFs
    <2>1. Find(VFs) \subseteq VFs
      BY DEF Find
    <2>2. CASE available' = Find(VFs) /\ todo' = Find(VFs) /\ allocated' = allocated
      BY <1>5, <2>1, <2>2 DEF CreateVFs
    <2>3. CASE EnableVFsError
      BY <1>5, <2>3, EnableFailed, Nothing DEF CreateVFs, Stop, vfVars
    <2> QED
      BY <1>5, <2>2, <2>3 DEF CreateVFs
  <1>6. CASE \E v \in VFs : UnbindVF(v)
    <2>1. CASE EnableVFsError
      BY <1>6, <2>1, EnableFailed, Nothing DEF UnbindVF, Stop, vfVars
    <2>2. CASE UNCHANGED <<vfVars, todo>>
      BY <1>6, <2>2 DEF UnbindVF, vfVars
    <2> QED
      BY <1>6, <2>1, <2>2 DEF UnbindVF
  <1>7. CASE BindVF
    <2>1. CASE EnableVFsError
      BY <1>7, <2>1, EnableFailed, Nothing DEF BindVF, Stop, vfVars
    <2>2. CASE UNCHANGED vfVars /\ todo' = todo \ {binding}
      BY <1>7, <2>2 DEF BindVF, vfVars
    <2> QED
      BY <1>7, <2>1, <2>2 DEF BindVF
  <1>8. CASE Up
    <2>1. CASE EnableVFsError
      BY <1>8, <2>1, EnableFailed, Nothing DEF Up, Stop, vfVars
    <2>2. CASE UNCHANGED <<vfVars, todo>>
      BY <1>8, <2>2 DEF Up, vfVars
    <2> QED
      BY <1>8, <2>1, <2>2 DEF Up
  <1>9. UNCHANGED <<sysVFs, onVfio, todo, binding>> /\ UNCHANGED vfVars => VFTypes'
    BY DEF vfVars
  <1>10. ASSUME UNCHANGED <<sysVFs, onVfio, todo, binding>>,
                NEW r \in Requesters, NEW v \in VFs, Take(r, v) \/ FreePF(r, v)
         PROVE  VFTypes'
    <2>1. CASE Take(r, v)
      BY <1>0, <1>10, <2>1, Taken
    <2>2. CASE FreePF(r, v)
      <3>1. Freed(r, v) \/ UNCHANGED vfVars
        BY <1>0, <1>10, <2>2, FreedPF DEF VFsInv
      <3> QED
        BY <1>10, <3>1 DEF Freed, vfVars
    <2> QED
      BY <1>10, <2>1, <2>2
  <1>11. CASE AllocateReconfigured
    <2>1. request.who \in Requesters /\ request.vf \in VFs
      BY <1>11 DEF AllocateReconfigured, RequestInv, CallTypes
    <2>2. CASE Take(request.who, request.vf)
      BY <1>10, <1>11, <2>1, <2>2 DEF AllocateReconfigured, kernelVars
    <2> QED
      BY <1>9, <1>11, <2>2 DEF AllocateReconfigured, kernelVars
  <1>12. CASE GiveBackFailed
    <2>1. request.who \in Requesters /\ request.vf \in VFs
      BY <1>12 DEF GiveBackFailed, RequestInv, CallTypes
    <2> QED
      BY <1>10, <1>12, <2>1 DEF GiveBackFailed, kernelVars
  <1>13. ASSUME NEW r \in Requesters, NEW v \in VFs,
                \/ Allocate(r, v) \/ Free(r, v)
                \/ \E s \in Default : AllocateWithReconfiguration(r, v, s)
         PROVE  VFTypes'
    <2>1. UNCHANGED <<sysVFs, onVfio, todo, binding>>
      BY <1>13 DEF Allocate, Free, AllocateWithReconfiguration, kernelVars
    <2>2. UNCHANGED vfVars \/ Take(r, v) \/ FreePF(r, v)
      BY <1>13 DEF Allocate, Free, AllocateWithReconfiguration
    <2> QED
      BY <1>9, <1>10, <2>1, <2>2
  <1>14. CASE \E v \in VFs : FreeUnnamed(v)
    BY <1>10, <1>14 DEF FreeUnnamed, kernelVars
  <1>15. CASE UNCHANGED vars
    BY <1>15 DEF vars, kernelVars, vfVars
  <1> QED
    BY <1>1, <1>2, <1>3, <1>4, <1>5, <1>6, <1>7, <1>8, <1>11, <1>12, <1>13, <1>14, <1>15
       DEF Next, CallStep, EnableVFs

LEMMA StepCall == IInv /\ [Next]_vars => (CallTypes /\ RequestInv /\ CallerInv)'
  <1> SUFFICES ASSUME VFTypes, CallTypes, VFsInv, RequestInv, CallerInv, [Next]_vars
               PROVE  (CallTypes /\ RequestInv /\ CallerInv)'
    BY Types DEF IInv
  <1>0. VFTypes /\ Disjoint
    BY DEF VFsInv
  <1> USE Nothing DEF CallTypes, RequestInv, CallerInv, Phases, Setting, Enabling
  <1>1. CASE Stop
    BY <1>1 DEF Stop
  <1>2. CASE New
    BY <1>2 DEF New
  <1>3. CASE Configure
    BY <1>3 DEF Configure
  <1>4. CASE Down
    BY <1>4, ServicesFailed DEF Down, CallFails
  <1>5. CASE WriteServices
    BY <1>5, ServicesFailed DEF WriteServices, CallFails, Restore
  <1>6. ASSUME EnableVFsError, phase \in Enabling
        PROVE  (CallTypes /\ RequestInv /\ CallerInv)'
    BY <1>1, <1>6, EnableFailed DEF CallFails
  <1>7. CASE CreateVFs
    BY <1>6, <1>7 DEF CreateVFs, setVars
  <1>8. CASE \E v \in VFs : UnbindVF(v)
    BY <1>6, <1>8 DEF UnbindVF, setVars
  <1>9. CASE BindVF
    BY <1>6, <1>9 DEF BindVF, setVars
  <1>10. CASE Up
    <2>1. CASE EnableVFsError
      BY <1>6, <1>10, <2>1 DEF Up
    <2>2. CASE EnableVFsDone /\ UNCHANGED <<caller, config>>
      BY <1>10, <2>2, ServicesFailed DEF Up, EnableVFsDone, CallFails, Idle
    <2> QED
      BY <1>10, <2>1, <2>2 DEF Up
  <1>11. CASE AllocateReconfigured
    BY <1>11 DEF AllocateReconfigured, Idle, setVars
  <1>12. ASSUME NEW r \in Requesters, NEW v \in VFs, FreePF(r, v), ~restoring, UNCHANGED restoring
         PROVE  (CallTypes /\ RequestInv /\ CallerInv)'
    <2>1. \/ phase' = "idle" /\ UNCHANGED <<caller, config>> /\ request' = NoRequest
          \/ phase' = "down" /\ caller' = "free" /\ config' = {None} /\ UNCHANGED request
      BY <1>0, <1>12, FreedPF
    <2> QED
      BY <1>12, <2>1
  <1>13. CASE GiveBackFailed
    <2>1. request.who \in Requesters /\ request.vf \in VFs /\ ~restoring
      BY <1>13 DEF GiveBackFailed
    <2> QED
      BY <1>12, <1>13, <2>1 DEF GiveBackFailed
  <1>14. ASSUME NEW r \in Requesters, NEW v \in VFs,
                \/ Allocate(r, v)
                \/ \E s \in Default : AllocateWithReconfiguration(r, v, s)
         PROVE  (CallTypes /\ RequestInv /\ CallerInv)'
    BY <1>14 DEF Allocate, AllocateWithReconfiguration, SetServices
  <1>15. ASSUME NEW r \in Requesters, NEW v \in VFs, Free(r, v)
         PROVE  (CallTypes /\ RequestInv /\ CallerInv)'
    BY <1>12, <1>15 DEF Free
  <1>16. CASE \E v \in VFs : FreeUnnamed(v)
    BY <1>12, <1>16 DEF FreeUnnamed
  <1>17. CASE UNCHANGED vars
    BY <1>17 DEF vars, setVars
  <1> QED
    BY <1>1, <1>2, <1>3, <1>4, <1>5, <1>7, <1>8, <1>9, <1>10, <1>11, <1>13, <1>14, <1>15, <1>16, <1>17
       DEF Next, Crash, CallStep, EnableVFs

LEMMA StepBooleans == IInv /\ [Next]_vars => BooleanTypes' /\ CrashType'
  <1> SUFFICES ASSUME BooleanTypes, CrashType, [Next]_vars PROVE BooleanTypes' /\ CrashType'
    BY Types DEF IInv
  <1>1. restoring' \in BOOLEAN
    <2>1. CASE CallFails \/ Stop
      BY <2>1 DEF CallFails, Stop
    <2>2. CASE EnableVFsError
      BY <2>1, <2>2, EnableFailed
    <2>3. CASE Down \/ WriteServices
      BY <2>1, <2>3, ServicesFailed DEF Down, WriteServices, Restore, BooleanTypes
    <2>4. CASE EnableVFs
      BY <2>1, <2>2, <2>4, ServicesFailed
         DEF EnableVFs, CreateVFs, UnbindVF, BindVF, Up, EnableVFsDone, setVars, BooleanTypes
    <2>5. CASE New \/ Configure \/ AllocateReconfigured \/ GiveBackFailed
      BY <2>5 DEF New, Configure, AllocateReconfigured, GiveBackFailed, setVars, BooleanTypes
    <2>6. ASSUME NEW r \in Requesters, NEW v \in VFs,
                 \/ Allocate(r, v) \/ Free(r, v)
                 \/ \E s \in Default : AllocateWithReconfiguration(r, v, s)
          PROVE  restoring' \in BOOLEAN
      BY <2>6 DEF Allocate, Free, AllocateWithReconfiguration, BooleanTypes
    <2>7. CASE \E v \in VFs : FreeUnnamed(v)
      BY <2>7 DEF FreeUnnamed, BooleanTypes
    <2>8. CASE UNCHANGED vars
      BY <2>8 DEF vars, setVars, BooleanTypes
    <2> QED
      BY <2>1, <2>3, <2>4, <2>5, <2>6, <2>7, <2>8 DEF Next, Crash, CallStep
  <1>2. wasUp' \in BOOLEAN
    <2>1. CASE Stop
      BY <2>1 DEF Stop
    <2>2. CASE EnableVFsError
      BY <2>1, <2>2, EnableFailed DEF BooleanTypes
    <2>3. CASE Down
      BY <2>3 DEF Down, BooleanTypes
    <2>4. CASE EnableVFs
      BY <2>2, <2>4 DEF EnableVFs, CreateVFs, UnbindVF, BindVF, Up, setVars, BooleanTypes
    <2>5. CASE WriteServices \/ New \/ Configure \/ AllocateReconfigured \/ GiveBackFailed
      BY <2>5 DEF WriteServices, New, Configure, AllocateReconfigured, GiveBackFailed, setVars,
         BooleanTypes
    <2>6. ASSUME NEW r \in Requesters, NEW v \in VFs,
                 \/ Allocate(r, v) \/ Free(r, v)
                 \/ \E s \in Default : AllocateWithReconfiguration(r, v, s)
          PROVE  wasUp' \in BOOLEAN
      BY <2>6 DEF Allocate, Free, AllocateWithReconfiguration, BooleanTypes
    <2>7. CASE \E v \in VFs : FreeUnnamed(v)
      BY <2>7 DEF FreeUnnamed, BooleanTypes
    <2>8. CASE UNCHANGED vars
      BY <2>8 DEF vars, setVars, BooleanTypes
    <2> QED
      BY <2>1, <2>3, <2>4, <2>5, <2>6, <2>7, <2>8 DEF Next, Crash, CallStep
  <1>3. sysfsFaults' = sysfsFaults /\ (crashes' = crashes \/ Crash)
    BY DEF Next, Crash, New, Configure, CallStep, Down, WriteServices, EnableVFs, CreateVFs, UnbindVF,
       BindVF, Up, AllocateReconfigured, GiveBackFailed, Allocate, Free,
       AllocateWithReconfiguration, FreeUnnamed, vars
  <1>4. CrashType'
    BY <1>3, QatDeviceAssumption DEF CrashType, Crash
  <1> QED
    BY <1>1, <1>2, <1>3, <1>4 DEF BooleanTypes

\* What a step that writes no services and does not change the PF's state keeps.
LEMMA SameServices ==
  ASSUME ServicesInv, UNCHANGED <<sysState, sysServices, state, services>>,
         phase # "stopped", phase' \notin {"write"} \cup Enabling
  PROVE  ServicesInv'
  BY DEF ServicesInv, Match

LEMMA StepServices == IInv /\ [Next]_vars => ServicesInv'
  <1> SUFFICES ASSUME KernelTypes, CallTypes, BooleanTypes, VFTypes, RequestInv, CallerInv,
                      VFsInv, ServicesInv, [Next]_vars
               PROVE  ServicesInv'
    BY Types DEF IInv
  <1>0. VFTypes /\ Disjoint
    BY DEF VFsInv
  <1>1. ASSUME Stop PROVE ServicesInv'
    BY <1>1 DEF Stop, ServicesInv, Enabling
  <1>2. CASE New
    <2>1. /\ state' = sysState /\ services' = Parse(sysServices) /\ phase' = "create"
          /\ caller' = "start" /\ UNCHANGED <<sysState, sysServices>>
      BY <1>2 DEF New, kernelVars
    <2>2. Match'
      BY <2>1, ParsedWritten DEF KernelTypes, Match
    <2> QED
      BY <2>1, <2>2 DEF ServicesInv, Enabling
  <1>3. CASE Configure
    BY <1>3, SameServices DEF Configure, kernelVars, pfVars, Enabling
  <1>4. ASSUME CallFails, UNCHANGED <<sysState, sysServices, state, services>>, phase # "stopped"
        PROVE  ServicesInv'
    BY <1>4, SameServices DEF CallFails, Enabling
  <1>5. CASE Down
    <2>1. CASE CallFails /\ UNCHANGED <<state, sysState>>
      BY <1>4, <1>5, <2>1 DEF Down
    <2>2. CASE wasUp' = (state = "up") /\ state' = "down" /\ sysState' = "down" /\ phase' = "write"
      <3>1. UNCHANGED <<sysServices, services>> /\ phase = "down"
        BY <1>5 DEF Down
      <3>2. wasUp' => Match
        BY <2>2, <3>1 DEF ServicesInv
      <3> QED
        BY <2>2, <3>1, <3>2 DEF ServicesInv, Match, Enabling
    <2> QED
      BY <1>5, <2>1, <2>2, ServicesFailed DEF Down
  <1>6. CASE WriteServices
    <2>1. /\ phase = "write" /\ state = "down" /\ caller # "start" /\ ~restoring
          /\ UNCHANGED <<sysState, state, services, caller, config>>
      BY <1>6 DEF WriteServices, pfVars, ServicesInv, CallerInv, Enabling
    <2>2. CASE sysServices' = Written(config) /\ phase' = "create" /\ restoring' = restoring
      BY <2>1, <2>2 DEF ServicesInv, Enabling
    <2>3. CASE Restore /\ UNCHANGED sysServices
      <3>1. CASE wasUp
        BY <2>1, <2>3, <3>1 DEF Restore, ServicesInv, Enabling, Match
      <3>2. CASE ~wasUp
        BY <1>4, <2>1, <2>3, <3>2, ServicesFailed DEF Restore
      <3> QED
        BY <3>1, <3>2
    <2> QED
      BY <1>6, <2>2, <2>3 DEF WriteServices
  <1>7. ASSUME EnableVFsError, UNCHANGED <<sysState, sysServices>>, phase # "stopped"
        PROVE  ServicesInv'
    BY <1>1, <1>4, <1>7, EnableFailed DEF pfVars
  <1>8. ASSUME phase \in Enabling, phase' \in Enabling,
               UNCHANGED <<sysState, sysServices, pfVars, setVars>>
        PROVE  ServicesInv'
    BY <1>8 DEF ServicesInv, Match, Enabling, pfVars, setVars
  <1>9. CASE CreateVFs
    BY <1>7, <1>8, <1>9 DEF CreateVFs, Enabling
  <1>10. CASE \E v \in VFs : UnbindVF(v)
    BY <1>7, <1>8, <1>10 DEF UnbindVF, Enabling
  <1>11. CASE BindVF
    BY <1>7, <1>8, <1>11 DEF BindVF, Enabling
  <1>12. CASE Up
    <2>1. CASE EnableVFsError /\ UNCHANGED sysState
      BY <1>7, <1>12, <2>1 DEF Up
    <2>2. CASE state' = "up" /\ sysState' = "up" /\ EnableVFsDone /\ UNCHANGED <<caller, config>>
      <3>1. phase = "unbind" /\ sysServices' = sysServices
        BY <1>12 DEF Up
      <3>2. phase' \notin {"write"} \cup Enabling
        BY <2>2, ServicesFailed DEF EnableVFsDone, CallFails, Idle, Enabling
      <3>3. services' = IF caller = "start" \/ restoring THEN services ELSE config
        BY <2>2 DEF EnableVFsDone
      <3>4. Match'
        BY <3>1, <3>3 DEF Match, ServicesInv, Enabling
      <3> QED
        BY <2>2, <3>2, <3>4 DEF ServicesInv
    <2> QED
      BY <1>12, <2>1, <2>2 DEF Up
  <1>13. CASE AllocateReconfigured
    BY <1>13, SameServices DEF AllocateReconfigured, Idle, kernelVars, pfVars, Enabling
  <1>14. ASSUME NEW r \in Requesters, NEW v \in VFs, FreePF(r, v), phase # "stopped",
                UNCHANGED <<kernelVars, pfVars>>
         PROVE  ServicesInv'
    <2>1. phase' \in {"idle", "down"}
      BY <1>0, <1>14, FreedPF
    <2> QED
      BY <1>14, <2>1, SameServices DEF kernelVars, pfVars, Enabling
  <1>15. CASE GiveBackFailed
    <2>1. request.who \in Requesters /\ request.vf \in VFs
      BY <1>15 DEF GiveBackFailed, RequestInv, CallTypes
    <2> QED
      BY <1>14, <1>15, <2>1 DEF GiveBackFailed
  <1>16. ASSUME NEW r \in Requesters, NEW v \in VFs,
                \/ Allocate(r, v)
                \/ \E s \in Default : AllocateWithReconfiguration(r, v, s)
         PROVE  ServicesInv'
    <2>1. UNCHANGED <<kernelVars, pfVars>> /\ phase = "idle" /\ phase' \in {"idle", "down"}
      BY <1>16 DEF Allocate, AllocateWithReconfiguration, SetServices
    <2> QED
      BY <2>1, SameServices DEF kernelVars, pfVars, Enabling
  <1>17. ASSUME NEW r \in Requesters, NEW v \in VFs, Free(r, v) PROVE ServicesInv'
    BY <1>14, <1>17 DEF Free
  <1>18. CASE \E v \in VFs : FreeUnnamed(v)
    BY <1>14, <1>18 DEF FreeUnnamed
  <1>19. CASE UNCHANGED vars
    BY <1>19 DEF vars, kernelVars, pfVars, setVars, ServicesInv, Match
  <1> QED
    BY <1>1, <1>2, <1>3, <1>5, <1>6, <1>9, <1>10, <1>11, <1>12, <1>13, <1>15, <1>16, <1>17, <1>18, <1>19
       DEF Next, Crash, CallStep, EnableVFs

LEMMA AllAvailable == available = VFs => Complete
  BY DEF Complete

\* What a step keeps that does not touch the bookkeeping.
LEMMA SameVFs ==
  ASSUME VFsInv, UNCHANGED vfVars, Complete, phase' \in Bookkeeping,
         phase' = "configuring" => ~InUse
  PROVE  VFsInv'
  BY DEF VFsInv, vfVars, Disjoint, Complete, InUse, Bookkeeping, Enabling

LEMMA StepVFs == IInv /\ [Next]_vars => VFsInv'
  <1> SUFFICES ASSUME VFTypes, CallTypes, RequestInv, CallerInv, VFsInv, [Next]_vars
               PROVE  VFsInv'
    BY Types DEF IInv
  <1>0. VFTypes /\ Disjoint
    BY DEF VFsInv
  <1>1. ASSUME Stop PROVE VFsInv'
    BY <1>1, Nothing DEF Stop, VFsInv, Disjoint, InUse, Bookkeeping, Enabling
  <1>2. CASE New
    BY <1>2 DEF New, kernelVars, VFsInv, Disjoint, InUse, Bookkeeping, Enabling
  <1>3. ASSUME CallFails, UNCHANGED vfVars, Complete PROVE VFsInv'
    BY <1>3, SameVFs DEF CallFails, Bookkeeping
  <1>4. CASE Configure
    <2>1. UNCHANGED vfVars /\ phase = "configuring" /\ phase' \in {"down", "idle"}
      BY <1>4 DEF Configure
    <2> QED
      BY <2>1, SameVFs DEF VFsInv, Bookkeeping
  <1>5. CASE Down
    <2>1. UNCHANGED vfVars /\ phase = "down" /\ Complete
      BY <1>5 DEF Down, VFsInv, Bookkeeping
    <2>2. CASE CallFails
      BY <1>3, <2>1, <2>2
    <2>3. CASE ~InUse /\ phase' = "write"
      <3>1. available = VFs
        BY <2>1, <2>3 DEF Complete, InUse, VFTypes
      <3> QED
        BY <2>1, <2>3, <3>1 DEF vfVars, VFsInv, Disjoint, InUse, Bookkeeping, Enabling
    <2> QED
      BY <1>5, <2>2, <2>3, ServicesFailed DEF Down
  <1>6. CASE WriteServices
    <2>1. /\ UNCHANGED <<vfVars, caller>> /\ phase = "write" /\ available = VFs /\ ~InUse
          /\ caller # "start"
      BY <1>6 DEF WriteServices, VFsInv, CallerInv
    <2>2. CASE CallFails
      BY <1>3, <2>1, <2>2, AllAvailable
    <2>3. CASE phase' = "create"
      BY <2>1, <2>3 DEF vfVars, VFsInv, Disjoint, InUse, Bookkeeping, Enabling
    <2> QED
      BY <1>6, <2>2, <2>3, ServicesFailed DEF WriteServices, Restore
  <1>7. ASSUME EnableVFsError, phase \in Enabling PROVE VFsInv'
    <2>1. CASE caller # "start" /\ CallFails /\ UNCHANGED vfVars
      <3>1. available = VFs
        BY <1>7, <2>1 DEF VFsInv, Enabling
      <3> QED
        BY <1>3, <2>1, <3>1, AllAvailable
    <2> QED
      BY <1>1, <1>7, <2>1, EnableFailed
  <1>8. CASE CreateVFs
    <2>1. phase = "create" /\ ~InUse
      BY <1>8 DEF CreateVFs, VFsInv, Enabling
    <2>2. CASE EnableVFsError
      BY <1>7, <2>1, <2>2 DEF Enabling
    <2>3. CASE /\ sysVFs \in {{}, VFs} /\ available' = Find(VFs) /\ phase' = "unbind"
               /\ UNCHANGED <<allocated, setVars>>
      <3>1. available = {} \/ available = VFs
        BY <2>1, <2>3 DEF VFsInv
      <3>2. available' = VFs
        BY <2>1, <2>3, <3>1, Found
      <3> QED
        BY <2>1, <2>3, <3>2 DEF VFsInv, Disjoint, InUse, Bookkeeping, Enabling
    <2> QED
      BY <1>8, <2>2, <2>3 DEF CreateVFs
  <1>9. CASE (\E v \in VFs : UnbindVF(v)) \/ BindVF
    <2>1. phase \in {"unbind", "bind"}
      BY <1>9 DEF UnbindVF, BindVF
    <2>2. CASE EnableVFsError
      BY <1>7, <2>1, <2>2 DEF Enabling
    <2>3. CASE phase' \in {"unbind", "bind"} /\ UNCHANGED vfVars
      BY <2>1, <2>3 DEF vfVars, VFsInv, Disjoint, InUse, Bookkeeping, Enabling
    <2> QED
      BY <1>9, <2>2, <2>3 DEF UnbindVF, BindVF
  <1>10. CASE Up
    <2>1. phase = "unbind" /\ available = VFs /\ ~InUse
      BY <1>10 DEF Up, VFsInv, Enabling
    <2>2. CASE EnableVFsError
      BY <1>7, <2>1, <2>2 DEF Enabling
    <2>3. CASE EnableVFsDone /\ UNCHANGED vfVars
      <3>1. phase' \in Bookkeeping
        BY <2>3, ServicesFailed DEF EnableVFsDone, CallFails, Idle, Bookkeeping
      <3> QED
        BY <2>1, <2>3, <3>1, SameVFs, AllAvailable
    <2> QED
      BY <1>10, <2>2, <2>3 DEF Up
  <1>11. ASSUME Complete, phase' \in {"idle", "down"}, UNCHANGED vfVars PROVE VFsInv'
    BY <1>11, SameVFs DEF Bookkeeping
  <1>12. ASSUME Disjoint', Complete', phase' \in {"idle", "down"} PROVE VFsInv'
    BY <1>12 DEF VFsInv, Bookkeeping, Enabling
  <1>13. CASE AllocateReconfigured
    <2>1. /\ request.who \in Requesters /\ request.vf \in VFs /\ Complete /\ phase' = "idle"
      BY <1>13 DEF AllocateReconfigured, RequestInv, CallTypes, VFsInv, Bookkeeping, Idle
    <2>2. CASE request.vf \in available /\ Take(request.who, request.vf)
      BY <1>0, <1>12, <2>1, <2>2, Taken
    <2>3. CASE UNCHANGED vfVars
      BY <1>11, <2>1, <2>3
    <2> QED
      BY <1>13, <2>2, <2>3 DEF AllocateReconfigured
  <1>14. ASSUME NEW r \in Requesters, NEW v \in VFs, FreePF(r, v), phase \in {"idle", "giveback"}
         PROVE  VFsInv'
    <2>1. Complete
      BY <1>14 DEF VFsInv, Bookkeeping
    <2> QED
      BY <1>0, <1>12, <1>14, <2>1, FreedPF
  <1>15. CASE GiveBackFailed
    <2>1. request.who \in Requesters /\ request.vf \in VFs
      BY <1>15 DEF GiveBackFailed, RequestInv, CallTypes
    <2> QED
      BY <1>14, <1>15, <2>1 DEF GiveBackFailed
  <1>16. ASSUME NEW r \in Requesters, NEW v \in VFs,
                \/ Allocate(r, v)
                \/ \E s \in Default : AllocateWithReconfiguration(r, v, s)
         PROVE  VFsInv'
    <2>1. phase = "idle" /\ phase' \in {"idle", "down"}
      BY <1>16 DEF Allocate, AllocateWithReconfiguration, SetServices
    <2>2. Complete
      BY <2>1 DEF VFsInv, Bookkeeping
    <2>3. CASE v \in available /\ Take(r, v)
      BY <1>0, <1>12, <2>1, <2>2, <2>3, Taken
    <2>4. CASE UNCHANGED vfVars
      BY <1>11, <2>1, <2>2, <2>4
    <2> QED
      BY <1>16, <2>3, <2>4 DEF Allocate, AllocateWithReconfiguration
  <1>17. ASSUME NEW r \in Requesters, NEW v \in VFs, Free(r, v) PROVE VFsInv'
    BY <1>14, <1>17 DEF Free
  <1>18. CASE \E v \in VFs : FreeUnnamed(v)
    BY <1>14, <1>18 DEF FreeUnnamed
  <1>19. CASE UNCHANGED vars
    BY <1>19 DEF vars, kernelVars, vfVars, setVars, VFsInv, Disjoint, Complete, InUse
  <1> QED
    BY <1>1, <1>2, <1>4, <1>5, <1>6, <1>8, <1>9, <1>10, <1>13, <1>15, <1>16, <1>17, <1>18, <1>19
       DEF Next, Crash, CallStep, EnableVFs

LEMMA StepBound == IInv /\ [Next]_vars => BoundInv'
  <1> SUFFICES ASSUME VFTypes, CallTypes, RequestInv, CallerInv, ServicesInv, VFsInv, BoundInv,
                      [Next]_vars
               PROVE  BoundInv'
    BY Types DEF IInv
  <1>0. VFTypes /\ Disjoint
    BY DEF VFsInv
  <1>1. ASSUME phase' \in {"stopped", "write", "create"} PROVE BoundInv'
    BY <1>1 DEF BoundInv, Bookkeeping
  <1>2. ASSUME phase' \in Bookkeeping, state' = "up" => VFs \subseteq onVfio' PROVE BoundInv'
    BY <1>2 DEF BoundInv, Bookkeeping
  <1>3. ASSUME phase \in Bookkeeping, phase' \in Bookkeeping, UNCHANGED <<onVfio, state>>
        PROVE  BoundInv'
    BY <1>2, <1>3 DEF BoundInv
  <1>4. CASE Stop \/ New
    BY <1>1, <1>4 DEF Stop, New
  <1>5. CASE Configure
    BY <1>3, <1>5 DEF Configure, kernelVars, pfVars, Bookkeeping
  <1>6. CASE Down
    BY <1>1, <1>3, <1>6, ServicesFailed DEF Down, CallFails, Bookkeeping
  <1>7. CASE WriteServices
    <2>1. state' = "down"
      BY <1>7 DEF WriteServices, ServicesInv, pfVars
    <2> QED
      BY <1>1, <1>2, <1>7, <2>1, ServicesFailed DEF WriteServices, Restore, CallFails, Bookkeeping
  <1>8. ASSUME EnableVFsError, phase \in Enabling PROVE BoundInv'
    <2>1. CASE caller # "start" /\ CallFails /\ UNCHANGED pfVars
      <3>1. state' = "down" /\ phase' \in Bookkeeping
        BY <1>8, <2>1 DEF ServicesInv, pfVars, CallFails, Bookkeeping
      <3> QED
        BY <1>2, <3>1
    <2> QED
      BY <1>4, <1>8, <2>1, EnableFailed
  <1>9. CASE CreateVFs
    <2>1. CASE EnableVFsError
      BY <1>8, <1>9, <2>1 DEF CreateVFs, Enabling
    <2>2. CASE sysVFs \in {{}, VFs} /\ todo' = Find(VFs) /\ phase' = "unbind"
      <3>1. ~InUse /\ (available = {} \/ available = VFs)
        BY <1>9, <2>2 DEF CreateVFs, VFsInv, Enabling
      <3>2. todo' = VFs
        BY <2>2, <3>1, Found
      <3> QED
        BY <2>2, <3>2 DEF BoundInv, Bookkeeping
    <2> QED
      BY <1>9, <2>1, <2>2 DEF CreateVFs
  <1>10. CASE \E v \in VFs : UnbindVF(v)
    <2> PICK v \in VFs : UnbindVF(v)
      BY <1>10
    <2>1. CASE EnableVFsError
      BY <1>8, <2>1 DEF UnbindVF, Enabling
    <2>2. CASE onVfio' = onVfio \ {v} /\ phase' = "bind" /\ binding' = v /\ UNCHANGED todo
      BY <2>2 DEF UnbindVF, BoundInv, Bookkeeping
    <2> QED
      BY <2>1, <2>2 DEF UnbindVF
  <1>11. CASE BindVF
    <2>1. CASE EnableVFsError
      BY <1>8, <1>11, <2>1 DEF BindVF, Enabling
    <2>2. CASE onVfio' = onVfio \cup {binding} /\ phase' = "unbind" /\ todo' = todo \ {binding}
      BY <1>11, <2>2 DEF BindVF, BoundInv, Bookkeeping
    <2> QED
      BY <1>11, <2>1, <2>2 DEF BindVF
  <1>12. CASE Up
    <2>1. CASE EnableVFsError
      BY <1>8, <1>12, <2>1 DEF Up, Enabling
    <2>2. CASE EnableVFsDone
      <3>1. phase' \in Bookkeeping
        BY <2>2, ServicesFailed DEF EnableVFsDone, CallFails, Idle, Bookkeeping
      <3>2. VFs \subseteq onVfio'
        BY <1>12 DEF Up, BoundInv
      <3> QED
        BY <1>2, <3>1, <3>2
    <2> QED
      BY <1>12, <2>1, <2>2 DEF Up
  <1>13. CASE AllocateReconfigured
    BY <1>3, <1>13 DEF AllocateReconfigured, Idle, kernelVars, pfVars, Bookkeeping
  <1>14. ASSUME NEW r \in Requesters, NEW v \in VFs, FreePF(r, v), phase \in {"idle", "giveback"},
                UNCHANGED <<kernelVars, pfVars>>
         PROVE  BoundInv'
    <2>1. phase' \in {"idle", "down"}
      BY <1>0, <1>14, FreedPF
    <2> QED
      BY <1>3, <1>14, <2>1 DEF kernelVars, pfVars, Bookkeeping
  <1>15. CASE GiveBackFailed
    <2>1. request.who \in Requesters /\ request.vf \in VFs
      BY <1>15 DEF GiveBackFailed, RequestInv, CallTypes
    <2> QED
      BY <1>14, <1>15, <2>1 DEF GiveBackFailed
  <1>16. ASSUME NEW r \in Requesters, NEW v \in VFs,
                \/ Allocate(r, v)
                \/ \E s \in Default : AllocateWithReconfiguration(r, v, s)
         PROVE  BoundInv'
    <2>1. UNCHANGED <<kernelVars, pfVars>> /\ phase = "idle" /\ phase' \in {"idle", "down"}
      BY <1>16 DEF Allocate, AllocateWithReconfiguration, SetServices
    <2> QED
      BY <1>3, <2>1 DEF kernelVars, pfVars, Bookkeeping
  <1>17. ASSUME NEW r \in Requesters, NEW v \in VFs, Free(r, v) PROVE BoundInv'
    BY <1>14, <1>17 DEF Free
  <1>18. CASE \E v \in VFs : FreeUnnamed(v)
    BY <1>14, <1>18 DEF FreeUnnamed
  <1>19. CASE UNCHANGED vars
    BY <1>19 DEF vars, kernelVars, pfVars, BoundInv
  <1> QED
    BY <1>4, <1>5, <1>6, <1>7, <1>9, <1>10, <1>11, <1>12, <1>13, <1>15, <1>16, <1>17, <1>18, <1>19
       DEF Next, Crash, CallStep, EnableVFs

\* The invariant holds in every state of every behavior.
LEMMA InvStep == IInv /\ [Next]_vars => IInv'
  <1> SUFFICES ASSUME IInv, [Next]_vars PROVE IInv'
    OBVIOUS
  <1>1. (CallTypes /\ RequestInv /\ CallerInv)'
    BY StepCall
  <1>2. KernelTypes' /\ VFTypes' /\ BooleanTypes' /\ CrashType'
    BY StepKernelTypes, StepVFTypes, StepBooleans
  <1>3. TypeOK'
    BY <1>1, <1>2, Types, PTL
  <1>4. ServicesInv' /\ VFsInv' /\ BoundInv'
    BY StepServices, StepVFs, StepBound
  <1> QED
    BY <1>1, <1>3, <1>4 DEF IInv

LEMMA Invariant == Spec => []IInv
  BY Initially, InvStep, PTL DEF Spec

\* In every state of every behavior a PF that is up offers the services the plugin publishes,
\* and between calls it has every VF, bound to vfio-pci when it is up: whatever write failed
\* and wherever the process ended (device.go:353, 390 and 477, deviceresources.go:18).
THEOREM ReadyWhenUpAlways == Spec => []ReadyWhenUp
  <1>1. IInv => ReadyWhenUp
    <2> SUFFICES ASSUME IInv PROVE ReadyWhenUp
      OBVIOUS
    <2>1. phase \in {"configuring", "idle"} /\ sysState = "up" => Written(services) = sysServices
      BY DEF IInv, ServicesInv, Match
    <2>2. ASSUME phase = "idle"
          PROVE  /\ available \cup UNION {allocated[r] : r \in Requesters} = VFs
                 /\ state = "up" => VFs \subseteq onVfio
      <3>1. Complete
        BY <2>2 DEF IInv, VFsInv, Bookkeeping
      <3>2. VFTypes
        BY Types DEF IInv
      <3>3. available \cup UNION {allocated[r] : r \in Requesters} = VFs
        BY <3>1, <3>2 DEF Complete, VFTypes
      <3> QED
        BY <2>2, <3>3 DEF IInv, BoundInv, Bookkeeping
    <2> QED
      BY <2>1, <2>2 DEF ReadyWhenUp, IInv
  <1> QED
    BY Invariant, <1>1, PTL

-----------------------------------------------------------------------------
(* The refinement of VfPool                                                 *)

Alone(a) == \A q, r \in Requesters : q # r => a[q] \cap a[r] = {}

HolderIn(a) == [v \in VFs |-> IF \E r \in Requesters : v \in a[r]
                                THEN CHOOSE r \in Requesters : v \in a[r]
                                ELSE Nobody]

LEMMA Holders == Holder = HolderIn(allocated) /\ Holder' = HolderIn(allocated')
  BY DEF Holder, HolderIn

\* A VF that one requester at most has, is held by that one.
LEMMA HolderIs ==
  ASSUME NEW a, Alone(a), NEW v \in VFs
  PROVE  /\ \A r \in Requesters : v \in a[r] <=> HolderIn(a)[v] = r
         /\ (\A r \in Requesters : v \notin a[r]) <=> HolderIn(a)[v] = Nobody
  <1>1. CASE \E r \in Requesters : v \in a[r]
    <2>1. PICK r \in Requesters : v \in a[r]
      BY <1>1
    <2>2. \A q \in Requesters : v \in a[q] => q = r
      BY <2>1 DEF Alone
    <2>3. HolderIn(a)[v] = r
      BY <2>1, <2>2 DEF HolderIn
    <2> QED
      BY <2>1, <2>2, <2>3, QatDeviceAssumption
  <1>2. CASE \A r \in Requesters : v \notin a[r]
    BY <1>2, QatDeviceAssumption DEF HolderIn
  <1> QED
    BY <1>1, <1>2

LEMMA NoneHeld ==
  ASSUME NEW a, \A r \in Requesters : a[r] = {}
  PROVE  HolderIn(a) = Pool!Free
  BY DEF HolderIn, Pool!Free

\* Taking an available VF is VfPool's Take.
LEMMA TakeIsTake ==
  ASSUME VFTypes, Disjoint, NEW r \in Requesters, NEW v \in available, Take(r, v),
         phase # "stopped", phase' # "stopped", UNCHANGED kernelVars
  PROVE  Pool!Take(r, v)
  <1>1. v \in VFs
    BY DEF VFTypes
  <1>2. /\ allocated'[r] = allocated[r] \cup {v}
        /\ \A q \in Requesters \ {r} : allocated'[q] = allocated[q]
        /\ Disjoint'
    BY <1>1, Taken
  <1>3. Alone(allocated) /\ Alone(allocated')
    BY <1>2 DEF Disjoint, Alone
  <1>4. Holder[v] = Nobody
    BY <1>1, <1>3, HolderIs, Holders DEF Disjoint
  <1>5. ASSUME NEW w \in VFs PROVE Holder'[w] = IF w = v THEN r ELSE Holder[w]
    <2>1. CASE w = v
      BY <1>2, <1>3, <2>1, HolderIs, Holders
    <2>2. CASE w # v
      <3>1. \A q \in Requesters : w \in allocated'[q] <=> w \in allocated[q]
        BY <1>2, <2>2
      <3>2. CASE \E q \in Requesters : w \in allocated[q]
        BY <1>3, <2>2, <3>1, <3>2, HolderIs, Holders
      <3>3. CASE \A q \in Requesters : w \notin allocated[q]
        BY <1>3, <2>2, <3>1, <3>3, HolderIs, Holders
      <3> QED
        BY <3>2, <3>3
    <2> QED
      BY <2>1, <2>2
  <1>6. Holder' = [Holder EXCEPT ![v] = r]
    BY <1>1, <1>5, Holders DEF HolderIn
  <1> QED
    BY <1>4, <1>6 DEF Pool!Take, kernelVars

\* freePF is VfPool's GiveBack of a VF to nobody but its holder, or changes nothing.
LEMMA FreeIsGiveBack ==
  ASSUME VFTypes, Disjoint, NEW r \in Requesters, NEW v \in VFs, FreePF(r, v),
         phase # "stopped", phase' # "stopped", UNCHANGED kernelVars
  PROVE  Pool!GiveBack(r, {v}) \/ UNCHANGED Pool!poolVars
  <1>1. CASE UNCHANGED vfVars
    <2>1. Holder' = Holder
      BY <1>1, Holders DEF vfVars
    <2> QED
      BY <2>1 DEF Pool!poolVars, kernelVars
  <1>2. CASE v \in allocated[r] /\ Freed(r, v)
    <2>1. /\ allocated'[r] = allocated[r] \ {v}
          /\ \A q \in Requesters \ {r} : allocated'[q] = allocated[q]
      BY <1>2 DEF Freed
    <2>2. Alone(allocated) /\ Alone(allocated')
      BY FreedPF DEF Disjoint, Alone
    <2>3. Holder[v] = r
      BY <1>2, <2>2, HolderIs, Holders
    <2>4. ASSUME NEW w \in VFs PROVE Holder'[w] = IF w \in {v} THEN Nobody ELSE Holder[w]
      <3>1. CASE w = v
        <4>1. \A q \in Requesters : w \notin allocated'[q]
          BY <1>2, <2>1, <2>2, <3>1 DEF Alone
        <4> QED
          BY <2>2, <3>1, <4>1, HolderIs, Holders
      <3>2. CASE w # v
        <4>1. \A q \in Requesters : w \in allocated'[q] <=> w \in allocated[q]
          BY <2>1, <3>2
        <4>2. CASE \E q \in Requesters : w \in allocated[q]
          BY <2>2, <3>2, <4>1, <4>2, HolderIs, Holders
        <4>3. CASE \A q \in Requesters : w \notin allocated[q]
          BY <2>2, <3>2, <4>1, <4>3, HolderIs, Holders
        <4> QED
          BY <4>2, <4>3
      <3> QED
        BY <3>1, <3>2
    <2>5. Holder' = [w \in VFs |-> IF w \in {v} THEN Nobody ELSE Holder[w]]
      BY <2>4, Holders DEF HolderIn
    <2> QED
      BY <2>3, <2>5 DEF Pool!GiveBack, kernelVars
  <1> QED
    BY <1>1, <1>2, FreedPF

LEMMA PoolInitHolds == Init => Pool!PoolInit
  <1> SUFFICES ASSUME Init PROVE Pool!PoolInit
    OBVIOUS
  <1>1. Holder = Pool!Free
    BY Nothing, NoneHeld, Holders DEF Init
  <1> QED
    BY <1>1 DEF Init, Pool!PoolInit

LEMMA PoolStep == IInv /\ [Next]_vars => [Pool!PoolNext]_(Pool!poolVars)
  <1> SUFFICES ASSUME IInv, [Next]_vars
               PROVE  Pool!PoolNext \/ UNCHANGED Pool!poolVars
    OBVIOUS
  <1>0. /\ VFTypes /\ CallTypes /\ RequestInv /\ Disjoint
        /\ phase \in {"stopped", "write", "configuring"} \cup Enabling => ~InUse
    BY Types DEF IInv, VFsInv
  <1>1. ASSUME UNCHANGED <<kernelVars, allocated>>, phase # "stopped", phase' # "stopped"
        PROVE  UNCHANGED Pool!poolVars
    BY <1>1, Holders DEF Pool!poolVars, kernelVars
  \* The process ends: nobody holds a VF any more.
  <1>2. ASSUME Stop, UNCHANGED <<sysServices, sysState>>, phase # "stopped" PROVE Pool!PoolNext
    <2>1. Holder' = Pool!Free /\ phase' = "stopped"
      BY <1>2, Nothing, NoneHeld, Holders DEF Stop
    <2> QED
      BY <1>2, <2>1 DEF Pool!Stop, Pool!PoolNext
  \* The PF is reconfigured: nobody holds one meanwhile.
  <1>3. ASSUME ~InUse, UNCHANGED allocated, phase # "stopped", phase' # "stopped"
        PROVE  Pool!PoolNext
    <2>1. Holder = Pool!Free /\ Holder' = Holder
      BY <1>3, NoneHeld, Holders DEF InUse
    <2> QED
      BY <1>3, <2>1 DEF Pool!Reconfigure, Pool!PoolNext
  <1>4. CASE Crash
    BY <1>2, <1>4 DEF Crash, kernelVars
  <1>5. CASE New
    <2>1. UNCHANGED <<kernelVars, allocated>> /\ phase = "stopped" /\ phase' # "stopped"
      BY <1>5 DEF New
    <2>2. Holder' = Holder
      BY <2>1, Holders
    <2> QED
      BY <2>1, <2>2 DEF Pool!Start, Pool!PoolNext, kernelVars
  <1>6. CASE Configure
    BY <1>1, <1>6 DEF Configure, vfVars
  <1>7. CASE Down
    <2>1. phase # "stopped" /\ phase' # "stopped" /\ UNCHANGED allocated
      BY <1>7, ServicesFailed DEF Down, CallFails, vfVars
    <2> QED
      BY <1>1, <1>3, <1>7, <2>1 DEF Down, kernelVars
  <1>8. CASE WriteServices
    <2>1. phase = "write" /\ phase' # "stopped" /\ UNCHANGED allocated
      BY <1>8, ServicesFailed DEF WriteServices, Restore, CallFails, vfVars
    <2> QED
      BY <1>0, <1>3, <2>1
  <1>9. CASE EnableVFs
    <2>1. phase \in Enabling /\ ~InUse
      BY <1>0, <1>9 DEF EnableVFs, CreateVFs, UnbindVF, BindVF, Up, Enabling
    <2>2. CASE EnableVFsError
      <3>1. UNCHANGED <<sysServices, sysState>> \/ (UNCHANGED sysServices /\ EnableVFsDone)
        BY <1>9 DEF EnableVFs, CreateVFs, UnbindVF, BindVF, Up
      <3>2. CASE Stop /\ UNCHANGED <<sysServices, sysState>>
        BY <1>2, <2>1, <3>2 DEF Enabling
      <3>3. CASE CallFails /\ UNCHANGED vfVars
        BY <1>3, <2>1, <3>3 DEF CallFails, vfVars, Enabling
      <3>4. CASE EnableVFsDone
        <4>1. phase' # "stopped"
          BY <3>4, ServicesFailed DEF EnableVFsDone, CallFails, Idle
        <4> QED
          BY <2>2, <3>3, <4>1, EnableFailed DEF Stop
      <3> QED
        BY <2>2, <3>1, <3>2, <3>3, <3>4, EnableFailed
    <2>3. CASE UNCHANGED allocated /\ phase' # "stopped"
      BY <1>3, <2>1, <2>3 DEF Enabling
    <2>4. CASE EnableVFsDone /\ UNCHANGED vfVars
      <3>1. phase' # "stopped"
        BY <2>4, ServicesFailed DEF EnableVFsDone, CallFails, Idle
      <3> QED
        BY <2>3, <2>4, <3>1 DEF vfVars
    <2> QED
      BY <1>9, <2>2, <2>3, <2>4 DEF EnableVFs, CreateVFs, UnbindVF, BindVF, Up, vfVars
  <1>10. ASSUME NEW r \in Requesters, NEW v \in VFs, FreePF(r, v), phase # "stopped", UNCHANGED kernelVars
         PROVE  Pool!PoolNext \/ UNCHANGED Pool!poolVars
    <2>1. phase' # "stopped"
      BY <1>0, <1>10, FreedPF
    <2>2. {v} \in SUBSET VFs
      OBVIOUS
    <2> QED
      BY <1>0, <1>10, <2>1, <2>2, FreeIsGiveBack DEF Pool!PoolNext
  <1>11. ASSUME NEW r \in Requesters, NEW v \in available, Take(r, v),
                phase # "stopped", phase' # "stopped", UNCHANGED kernelVars
         PROVE  Pool!PoolNext
    <2>1. v \in VFs
      BY <1>0 DEF VFTypes
    <2> QED
      BY <1>0, <1>11, <2>1, TakeIsTake DEF Pool!PoolNext
  <1>12. CASE AllocateReconfigured
    <2>1. /\ request.who \in Requesters /\ phase # "stopped" /\ phase' # "stopped"
          /\ UNCHANGED kernelVars
      BY <1>0, <1>12 DEF AllocateReconfigured, RequestInv, Idle
    <2> QED
      BY <1>1, <1>11, <1>12, <2>1 DEF AllocateReconfigured, vfVars
  <1>13. CASE GiveBackFailed
    <2>1. request.who \in Requesters /\ request.vf \in VFs
      BY <1>0, <1>13 DEF GiveBackFailed, RequestInv, CallTypes
    <2> QED
      BY <1>10, <1>13, <2>1 DEF GiveBackFailed
  <1>14. ASSUME NEW r \in Requesters, NEW v \in VFs,
                \/ Allocate(r, v)
                \/ \E s \in Default : AllocateWithReconfiguration(r, v, s)
         PROVE  Pool!PoolNext \/ UNCHANGED Pool!poolVars
    <2>1. phase = "idle" /\ phase' \in {"idle", "down"} /\ UNCHANGED kernelVars
      BY <1>14 DEF Allocate, AllocateWithReconfiguration, SetServices
    <2>2. UNCHANGED vfVars \/ (v \in available /\ Take(r, v))
      BY <1>14 DEF Allocate, AllocateWithReconfiguration
    <2> QED
      BY <1>1, <1>11, <2>1, <2>2 DEF vfVars
  <1>15. ASSUME NEW r \in Requesters, NEW v \in VFs, Free(r, v)
         PROVE  Pool!PoolNext \/ UNCHANGED Pool!poolVars
    BY <1>10, <1>15 DEF Free
  <1>16. CASE \E v \in VFs : FreeUnnamed(v)
    BY <1>10, <1>16 DEF FreeUnnamed
  <1>17. CASE UNCHANGED vars
    BY <1>17, Holders DEF vars, kernelVars, vfVars, Pool!poolVars
  <1> QED
    BY <1>4, <1>5, <1>6, <1>7, <1>8, <1>9, <1>12, <1>13, <1>14, <1>15, <1>16, <1>17
       DEF Next, CallStep

\* The two maps of a PF, its services and its state keep what VfPool promises: a VF is taken
\* only from nobody and given back only by its holder, and no write to sysfs changes the PF
\* while somebody holds a VF of it (device.go:335 to 600).
THEOREM ImplementsPoolAlways == Spec => ImplementsPool
  BY Invariant, PoolInitHolds, PoolStep, PTL DEF Spec, ImplementsPool, Pool!PoolSpec
=============================================================================
