----------------------------- MODULE QatDevice -----------------------------
(***************************************************************************)
(* One QAT physical function (PF) as pkg/qat/device keeps it: the state and *)
(* services it has in sysfs, the copy of them in memory, its virtual        *)
(* functions (VFs), and who they are allocated to.                          *)
(*                                                                         *)
(* QatNodeState takes a change of services as one or two steps.  Here each  *)
(* write to sysfs is a step, every one may fail and the process may end     *)
(* between two of them, and PFs may allow to be reconfigured when a VF is   *)
(* allocated or freed (AllowReconfiguration, which the package's tests      *)
(* enable and the plugin does not).  Callers come one at a time: newDriver, *)
(* the default configuration, nodeState.Allocate and Free.                  *)
(***************************************************************************)
EXTENDS Naturals

CONSTANTS
  TotalVFs,          \* VFs the PF can have; they are numbered as virtfn<i> is
  Requesters,        \* claims
  Nobody,
  Services,          \* "sym", "asym", ...
  Default,           \* sets of services that a caller may ask for
  Supported,         \* sets of services the hardware accepts
  Reconfigurable,    \* AllowReconfiguration
  MaxCrashes         \* bound: how often the process ends unexpectedly

VFs == 1..TotalVFs
None == "none"       \* the bit of Services for "not configured"

ASSUME QatDeviceAssumption ==
  /\ TotalVFs \in Nat \ {0}
  /\ Nobody \notin Requesters
  /\ None \notin Services
  /\ Default \subseteq SUBSET Services
  /\ Supported \subseteq SUBSET Services
  /\ Reconfigurable \in BOOLEAN
  /\ MaxCrashes \in Nat

VARIABLES
  sysState,      \* qat/state
  sysServices,   \* qat/cfg_services
  sysVFs,        \* VFs created by writing sriov_numvfs
  onVfio,        \* VFs bound to vfio-pci
  state,         \* PFDevice.State
  services,      \* PFDevice.Services
  available,     \* keys of AvailableDevices
  allocated,     \* AllocatedDevices: requester -> VFs
  phase,         \* the step that comes next
  caller,        \* who called SetServices or EnableVFs
  config,        \* the services SetServices is to set
  wasUp,         \* deviceState == Up in SetServices
  restoring,     \* EnableVFs was called because the services were refused
  todo,          \* VFs that EnableVFs has still to bind
  binding,       \* the VF it has unbound and not bound yet
  request,       \* the requester and VF of the call in progress
  crashes,
  sysfsFaults    \* a write to sysfs may fail on this host, or never does

kernelVars == <<sysState, sysServices, sysVFs, onVfio>>
pfVars     == <<state, services>>
vfVars     == <<available, allocated>>
setVars    == <<caller, config, wasUp, restoring>>
vars == <<kernelVars, pfVars, vfVars, phase, setVars, todo, binding, request, crashes, sysfsFaults>>

NoneAllocated == [r \in Requesters |-> {}]
NoRequest == [who |-> Nobody, vf |-> 1]
Phases == {"stopped", "configuring", "idle", "down", "write", "create", "unbind",
           "bind", "up", "allocate", "giveback"}

\* getServices and StringToServices: an empty file means None.
Parse(s) == IF s = {} THEN {None} ELSE s

\* Services.String: what is written for a set of bits.
Written(s) == s \ {None}

\* The process is gone.
Stop ==
  /\ phase' = "stopped"
  /\ available' = {} /\ allocated' = NoneAllocated
  /\ caller' = "start" /\ config' = {None} /\ wasUp' = FALSE /\ restoring' = FALSE
  /\ todo' = {} /\ request' = NoRequest
  /\ UNCHANGED pfVars

Crash ==
  /\ crashes < MaxCrashes
  /\ phase # "stopped"
  /\ crashes' = crashes + 1
  /\ Stop
  /\ UNCHANGED <<kernelVars, binding, sysfsFaults>>

Idle == phase' = "idle" /\ request' = NoRequest

-----------------------------------------------------------------------------
(* Start                                                                    *)

\* New: syncConfig reads the PF's files, getVFs the VFs it has already.
New ==
  /\ phase = "stopped"
  /\ state' = sysState
  /\ services' = Parse(sysServices)
  /\ available' = sysVFs
  /\ phase' = "create"
  /\ caller' = "start"
  /\ UNCHANGED <<kernelVars, allocated, config, wasUp, restoring, todo, binding, request,
                 crashes, sysfsFaults>>

\* getDefaultConfiguration; the file may not name this PF.
Configure ==
  /\ phase = "configuring"
  /\ \/ \E s \in Default :
          /\ phase' = "down"
          /\ caller' = "config"
          /\ config' = Parse(s) \cup {None}
     \/ phase' = "idle" /\ UNCHANGED <<caller, config>>
  /\ UNCHANGED <<kernelVars, pfVars, vfVars, wasUp, restoring, todo, binding, request, crashes, sysfsFaults>>

-----------------------------------------------------------------------------
(* SetServices                                                              *)

\* SetServices ends with an error: Allocate gives the VF back, the others only log it.
SetServicesError ==
  /\ IF caller = "allocate" THEN phase' = "giveback" /\ UNCHANGED request ELSE Idle
  /\ restoring' = FALSE

\* Mutant: a VF that is still available is enough.
NothingLeft == available = {}

InUse == \E r \in Requesters : allocated[r] # {}

\* The PF is taken down, unless a VF is allocated or it is down already.
Down ==
  /\ phase = "down"
  /\ \/ /\ ~InUse
        /\ wasUp' = (state = "up")
        /\ state' = "down" /\ sysState' = "down"
        /\ phase' = "write"
        /\ UNCHANGED <<request, restoring>>
     \/ /\ InUse \/ (sysfsFaults /\ state = "up")
        /\ SetServicesError
        /\ UNCHANGED <<wasUp, state, sysState>>
  /\ UNCHANGED <<sysServices, sysVFs, onVfio, services, vfVars, caller, config, todo, binding,
                 crashes, sysfsFaults>>

\* Mutant: whatever the state was before, a refused configuration brings the PF up.
RestoreAlways == /\ phase' = "create" /\ restoring' = TRUE /\ UNCHANGED request

\* Mutant: the PF stays down.
RestoreNever == SetServicesError

\* Only a PF that was up is brought up again.
Restore ==
  IF wasUp THEN phase' = "create" /\ restoring' = TRUE /\ UNCHANGED request
           ELSE SetServicesError

\* The services are written, or refused.
WriteServices ==
  /\ phase = "write"
  /\ \/ /\ Written(config) \in Supported
        /\ sysServices' = Written(config)
        /\ phase' = "create"
        /\ UNCHANGED <<restoring, request>>
     \/ /\ sysfsFaults \/ Written(config) \notin Supported
        /\ Restore
        /\ UNCHANGED sysServices
  /\ UNCHANGED <<sysState, sysVFs, onVfio, pfVars, vfVars, caller, config, wasUp, todo, binding,
                 crashes, sysfsFaults>>

-----------------------------------------------------------------------------
(* EnableVFs                                                                *)

\* EnableVFs ends with an error: newDriver ends the plugin, SetServices returns.
EnableVFsError ==
  IF caller = "start" THEN Stop
  ELSE /\ SetServicesError
       /\ UNCHANGED <<pfVars, vfVars, caller, config, wasUp>>
       /\ todo' = {}

\* Mutant: getVFs goes on only after a VF it knows already.
FindAfterKnown(S) == available \cup {v \in S : \E u \in available : u < v}

\* getVFs goes through the VFs in their order and stops at the first one that is
\* available already.
Find(S) ==
  available \cup {v \in S : /\ \A u \in available : v < u
                            /\ \A r \in Requesters : v \notin allocated[r]}

\* sriov_numvfs is written; the kernel refuses a change of a number that is not zero.
\* The VFs it creates have no driver or another one.
CreateVFs ==
  /\ phase = "create"
  /\ \/ /\ sysVFs \in {{}, VFs}
        /\ sysVFs' = VFs
        /\ available' = Find(VFs)
        /\ todo' = Find(VFs)
        /\ phase' = "unbind"
        /\ UNCHANGED <<pfVars, allocated, setVars, request>>
     \/ /\ sysfsFaults \/ sysVFs \notin {{}, VFs}
        /\ EnableVFsError
        /\ UNCHANGED sysVFs
  /\ UNCHANGED <<sysState, sysServices, onVfio, binding, crashes, sysfsFaults>>

\* enableVFIO for one VF, in the order of a map: driver_override and unbind, ...
UnbindVF(v) ==
  /\ phase = "unbind"
  /\ v \in todo
  /\ \/ /\ onVfio' = onVfio \ {v}
        /\ phase' = "bind"
        /\ binding' = v
        /\ UNCHANGED <<pfVars, vfVars, setVars, todo, request>>
     \/ /\ sysfsFaults
        /\ EnableVFsError
        /\ UNCHANGED <<onVfio, binding>>
  /\ UNCHANGED <<sysState, sysServices, sysVFs, crashes, sysfsFaults>>

\* ... and bind.
BindVF ==
  /\ phase = "bind"
  /\ \/ /\ onVfio' = onVfio \cup {binding}
        /\ phase' = "unbind"
        /\ todo' = todo \ {binding}
        /\ UNCHANGED <<pfVars, vfVars, setVars, request>>
     \/ /\ sysfsFaults
        /\ EnableVFsError
        /\ UNCHANGED onVfio
  /\ UNCHANGED <<sysState, sysServices, sysVFs, binding, crashes, sysfsFaults>>

\* EnableVFs ends well.  SetServices remembers the services only when it was not
\* restoring, and its caller goes on.
EnableVFsDone ==
  IF caller = "start" THEN phase' = "configuring" /\ UNCHANGED <<services, restoring, request>>
  ELSE IF restoring THEN SetServicesError /\ UNCHANGED services
  ELSE /\ services' = config
       /\ UNCHANGED restoring
       /\ IF caller = "allocate" THEN phase' = "allocate" /\ UNCHANGED request ELSE Idle

\* The PF is brought up once every VF is bound.
Up ==
  /\ phase = "unbind"
  /\ todo = {}
  /\ \/ /\ state' = "up" /\ sysState' = "up"
        /\ EnableVFsDone
        /\ UNCHANGED <<vfVars, caller, config, wasUp, todo>>
     \/ /\ sysfsFaults /\ state = "down"
        /\ EnableVFsError
        /\ UNCHANGED <<pfVars, sysState>>
  /\ UNCHANGED <<sysServices, sysVFs, onVfio, binding, crashes, sysfsFaults>>

-----------------------------------------------------------------------------
(* Allocate and free                                                        *)

Take(r, v) ==
  /\ allocated' = [allocated EXCEPT ![r] = @ \cup {v}]
  /\ available' = available \ {v}

SetServices(from, s) == phase' = "down" /\ caller' = from /\ config' = s \cup {None}

\* nodeState.Allocate, which asks for no service (Unset): the VF is the requester's
\* already, or it is available, or the PF may be reconfigured for it.
Allocate(r, v) ==
  /\ phase = "idle"
  /\ v \in available \cup UNION {allocated[q] : q \in Requesters}
  /\ \/ v \in allocated[r] /\ UNCHANGED <<vfVars, phase, caller, config, request>>
     \/ v \in available /\ Take(r, v) /\ UNCHANGED <<phase, caller, config, request>>
     \/ /\ v \notin available \cup allocated[r]
        /\ services = {None}
        /\ Reconfigurable
        /\ SetServices("allocate", {})
        /\ request' = [who |-> r, vf |-> v]
        /\ UNCHANGED vfVars
  /\ UNCHANGED <<kernelVars, pfVars, wasUp, restoring, todo, binding, crashes, sysfsFaults>>

\* AllocateWithReconfiguration for an available VF, as the package's tests call it: the
\* plugin's order of calls above comes here only with a VF that somebody else has.
AllocateWithReconfiguration(r, v, s) ==
  /\ phase = "idle"
  /\ v \in available
  /\ services = {None}
  /\ Reconfigurable
  /\ SetServices("allocate", s)
  /\ request' = [who |-> r, vf |-> v]
  /\ UNCHANGED <<kernelVars, pfVars, vfVars, wasUp, restoring, todo, binding, crashes, sysfsFaults>>

\* The PF was reconfigured, and the VF is taken if it can be.
AllocateReconfigured ==
  /\ phase = "allocate"
  /\ IF request.vf \in available THEN Take(request.who, request.vf) ELSE UNCHANGED vfVars
  /\ Idle
  /\ UNCHANGED <<kernelVars, pfVars, setVars, todo, binding, crashes, sysfsFaults>>

\* freePF: the VF is available again, and when it was the last one allocated the
\* services are set back to None.
FreePF(r, v) ==
  IF v \in allocated[r]
    THEN /\ available' = available \cup {v}
         /\ allocated' = [allocated EXCEPT ![r] = @ \ {v}]
         /\ IF Reconfigurable /\ \A q \in Requesters : allocated[q] \subseteq IF q = r THEN {v} ELSE {}
              THEN SetServices("free", {}) /\ UNCHANGED request
              ELSE Idle /\ UNCHANGED <<caller, config>>
    ELSE Idle /\ UNCHANGED <<vfVars, caller, config>>

Free(r, v) ==
  /\ phase = "idle"
  /\ FreePF(r, v)
  /\ UNCHANGED <<kernelVars, pfVars, wasUp, restoring, todo, binding, crashes, sysfsFaults>>

\* Free without a requester frees the VF for whoever has it.
FreeUnnamed(v) ==
  /\ phase = "idle"
  /\ \E r \in Requesters : v \in allocated[r] /\ FreePF(r, v)
  /\ UNCHANGED <<kernelVars, pfVars, wasUp, restoring, todo, binding, crashes, sysfsFaults>>

\* AllocateWithReconfiguration gives back a VF it could not configure.
GiveBackFailed ==
  /\ phase = "giveback"
  /\ FreePF(request.who, request.vf)
  /\ UNCHANGED <<kernelVars, pfVars, wasUp, restoring, todo, binding, crashes, sysfsFaults>>

-----------------------------------------------------------------------------
\* A PF in whatever state the host booted with.
Init ==
  /\ sysState \in {"up", "down"}
  /\ sysServices \in Supported
  /\ sysVFs \in {1..n : n \in 0..TotalVFs}
  /\ onVfio = {}
  /\ state = "down" /\ services = {None}
  /\ available = {} /\ allocated = NoneAllocated
  /\ phase = "stopped" /\ caller = "start" /\ config = {None}
  /\ wasUp = FALSE /\ restoring = FALSE
  /\ todo = {} /\ binding = 1 /\ request = NoRequest /\ crashes = 0
  /\ sysfsFaults \in BOOLEAN

EnableVFs == CreateVFs \/ (\E v \in VFs : UnbindVF(v)) \/ BindVF \/ Up
CallStep == Down \/ WriteServices \/ EnableVFs \/ AllocateReconfigured \/ GiveBackFailed

Next ==
  \/ Crash
  \/ New \/ Configure
  \/ CallStep
  \/ \E r \in Requesters, v \in VFs :
       \/ Allocate(r, v) \/ Free(r, v)
       \/ \E s \in Default : AllocateWithReconfiguration(r, v, s)
  \/ \E v \in VFs : FreeUnnamed(v)

Spec == Init /\ [][Next]_vars

\* The kubelet starts the plugin again, and a call that has begun goes on.
FairSpec == Spec /\ WF_vars(New \/ Configure \/ CallStep)

-----------------------------------------------------------------------------
(* Properties                                                               *)

TypeOK ==
  /\ {sysState, state} \subseteq {"up", "down"}
  /\ sysServices \subseteq Services
  /\ services \subseteq Services \cup {None} /\ config \subseteq Services \cup {None}
  /\ sysVFs \subseteq VFs /\ onVfio \subseteq VFs /\ todo \subseteq VFs /\ binding \in VFs
  /\ available \subseteq VFs /\ allocated \in [Requesters -> SUBSET VFs]
  /\ phase \in Phases
  /\ caller \in {"start", "config", "allocate", "free"}
  /\ {wasUp, restoring} \subseteq BOOLEAN
  /\ request \in [who : Requesters \cup {Nobody}, vf : VFs]
  /\ phase \in {"allocate", "giveback"} => request.who \in Requesters
  /\ crashes \in 0..MaxCrashes /\ sysfsFaults \in BOOLEAN

\* Whatever write failed and wherever the process ended, a PF that is up offers the
\* services that the plugin publishes for it (device.go:353, deviceresources.go:18);
\* between calls every VF the hardware can have is known to the plugin, and when the PF
\* is up it is bound to vfio-pci (device.go:390 and 477).
ReadyWhenUp ==
  /\ TypeOK
  /\ phase \in {"configuring", "idle"} /\ sysState = "up" => Written(services) = sysServices
  /\ phase = "idle" =>
    /\ available \cup UNION {allocated[r] : r \in Requesters} = VFs
    /\ state = "up" => VFs \subseteq onVfio

Holder == [v \in VFs |-> IF \E r \in Requesters : v \in allocated[r]
                           THEN CHOOSE r \in Requesters : v \in allocated[r]
                           ELSE Nobody]

Pool == INSTANCE VfPool WITH
          serving <- phase # "stopped",
          holder <- Holder,
          config <- <<sysServices, sysState>>

\* The two maps of the PF, its services and its state keep what VfPool promises, though
\* each call is many steps and may fail in any of them (device.go:335 to 600).
ImplementsPool == Pool!PoolSpec

\* When no write fails, a PF that a call has taken down comes up again, also when the
\* hardware refuses the services (device.go:349).  A PF that the host booted with some of
\* its VFs is never set up.
UpAgain ==
  (~sysfsFaults /\ sysState = "down" /\ sysVFs \in {{}, VFs}) ~> sysState = "up"
=============================================================================
