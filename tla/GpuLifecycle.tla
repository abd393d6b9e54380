------------------------------ MODULE GpuLifecycle ------------------------------
(***************************************************************************)
(* A GPU kubelet plugin from its start to its end: StartPlugin             *)
(* (pkg/helpers/helpers.go), newDriver and Shutdown (driver.go) and the    *)
(* gRPC health endpoint (healthcheck.go), with the kubelet that probes it, *)
(* sends signals and starts the container again.                           *)
(*                                                                         *)
(* Check asks the plugin's own two servers: the registration server, and   *)
(* the DRA server with an empty NodePrepareResources, which waits its turn *)
(* behind a call that prepares claims. Shutdown stops the endpoint, which  *)
(* waits for the checks in flight, and then the servers.                   *)
(*                                                                         *)
(* The names that GpuHealth has, too, begin with "Lifecycle", so that a    *)
(* module can extend both.                                                 *)
(***************************************************************************)
EXTENDS Naturals

CONSTANTS
  Threshold,  \* failureThreshold of the kubelet's probes
  MaxFaults   \* bound on failing steps, dead servers, signals from outside

ASSUME LifecycleAssumption == Threshold \in Nat \ {0} /\ MaxFaults \in Nat

Servers == {"reg", "dra"}

VARIABLES
  main,       \* where the main goroutine is
  helperUp,   \* kubeletplugin.Start was done and helper.Stop was not
  dead,       \* servers that stopped serving by themselves: only logged
  hc,         \* the health endpoint: none, serving, stopping, stopped
  portTaken,  \* another process listens on the health port
  signalled,  \* sigc, a channel of one
  probe,      \* the check in flight: idle, or the server it asks
  answer,     \* the last answer of Check
  fails,      \* consecutive failed probes, counted by kubelet
  busy,       \* the DRA server prepares or unprepares claims
  faults      \* faults so far

lifecycleVars == <<main, helperUp, dead, hc, portTaken, signalled, probe, answer,
                   fails, busy, faults>>

Follows == [dirs |-> "state", state |-> "helper", helper |-> "publish",
            publish |-> "probes", probes |-> "wait"]

Up(s) == helperUp /\ s \notin dead

LifecycleInit ==
  /\ main = "down" /\ helperUp = FALSE /\ dead = {} /\ hc = "none"
  /\ portTaken = FALSE /\ signalled = FALSE /\ probe = "idle" /\ answer = "none"
  /\ fails = 0 /\ busy = FALSE /\ faults = 0

----------------------------------------------------------------------------
(* The main goroutine. *)

\* What the end of the process takes with it.
ProcessEnds ==
  /\ main' = "down" /\ helperUp' = FALSE /\ dead' = {} /\ hc' = "none"
  /\ signalled' = FALSE /\ probe' = "idle" /\ answer' = "none" /\ busy' = FALSE
  /\ UNCHANGED portTaken

Fault == faults < MaxFaults /\ faults' = faults + 1

\* kubelet starts the container; the directories are made.
Start ==
  /\ main = "down" /\ main' = "dirs" /\ fails' = 0
  /\ UNCHANGED <<helperUp, dead, hc, portTaken, signalled, probe, answer, busy, faults>>

\* One step of StartPlugin or newDriver: the plugin's directories, discovery
\* and newNodeState, kubeletplugin.Start, PublishResourceSlice.
Boot ==
  /\ main \in {"dirs", "state", "helper", "publish"}
  /\ main' = Follows[main]
  /\ helperUp' = (helperUp \/ main = "helper")
  /\ UNCHANGED <<dead, hc, portTaken, signalled, probe, answer, fails, busy, faults>>

\* Each of them ends the program with its error.
BootFails ==
  /\ main \in {"dirs", "state", "helper", "publish"} /\ Fault
  /\ ProcessEnds /\ UNCHANGED fails

\* startHealthcheck: a port that cannot be listened on is only logged. After
\* it StartPlugin listens to signals.
BootProbes ==
  /\ main = "probes" /\ main' = Follows[main]
  /\ hc' = IF portTaken THEN "none" ELSE "serving"
  /\ UNCHANGED <<helperUp, dead, portTaken, signalled, probe, answer, fails, busy, faults>>

TakeSignal ==
  /\ main = "wait" /\ signalled
  /\ main' = "stopProbes" /\ signalled' = FALSE
  /\ UNCHANGED <<helperUp, dead, hc, portTaken, probe, answer, fails, busy, faults>>

\* Shutdown: GracefulStop takes no more checks; there may be no endpoint.
\* Mutant: the servers are stopped meanwhile.
StopProbesAndHelper ==
  /\ main = "stopProbes" /\ hc # "stopping"
  /\ hc' = IF hc = "none" THEN "stopped" ELSE "stopping"
  /\ main' = IF hc = "none" THEN "stopHelper" ELSE "stopProbes"
  /\ helperUp' = FALSE
  /\ UNCHANGED <<dead, portTaken, signalled, probe, answer, fails, busy, faults>>
\* Mutant: nobody expects that there is none.
StopSomeProbes ==
  /\ main = "stopProbes" /\ hc = "serving"
  /\ hc' = "stopping"
  /\ UNCHANGED <<main, helperUp, dead, portTaken, signalled, probe, answer, fails, busy, faults>>
StopProbes ==
  /\ main = "stopProbes" /\ hc # "stopping"
  /\ hc' = IF hc = "none" THEN "stopped" ELSE "stopping"
  /\ main' = IF hc = "none" THEN "stopHelper" ELSE "stopProbes"
  /\ UNCHANGED <<helperUp, dead, portTaken, signalled, probe, answer, fails, busy, faults>>

\* ... and returns when those in flight are answered.
AllAnswered == probe = "idle"

ProbesStopped ==
  /\ main = "stopProbes" /\ hc = "stopping" /\ AllAnswered
  /\ hc' = "stopped" /\ main' = "stopHelper"
  /\ UNCHANGED <<helperUp, dead, portTaken, signalled, probe, answer, fails, busy, faults>>

\* helper.Stop, and StartPlugin returns.
StopHelper ==
  /\ main = "stopHelper"
  /\ ProcessEnds /\ UNCHANGED <<fails, faults>>

----------------------------------------------------------------------------
(* Check. *)

NotServing ==
  /\ answer' = "NOT_SERVING" /\ probe' = "idle"
  /\ fails' = IF fails < Threshold THEN fails + 1 ELSE fails

\* A probe reaches the endpoint, or is refused. Those refused during the
\* start do not count: the startup probe allows it ten minutes.
Ask ==
  /\ main \notin {"down"} \cup DOMAIN Follows /\ probe = "idle"
  /\ \/ /\ hc = "serving" /\ probe' = "reg"
        /\ UNCHANGED <<answer, fails>>
     \/ /\ hc # "serving"
        /\ fails' = IF fails < Threshold THEN fails + 1 ELSE fails
        /\ UNCHANGED <<probe, answer>>
  /\ UNCHANGED <<main, helperUp, dead, hc, portTaken, signalled, busy, faults>>

\* A service name that is neither empty nor "liveness" is answered at once,
\* and is not kubelet's.
AskUnknown ==
  /\ hc = "serving" /\ probe = "idle"
  /\ answer' = "SERVICE_UNKNOWN"
  /\ UNCHANGED <<main, helperUp, dead, hc, portTaken, signalled, probe, fails, busy, faults>>

\* GetInfo of the registration server.
CheckReg ==
  /\ probe = "reg"
  /\ \/ Up("reg") /\ probe' = "dra" /\ UNCHANGED <<answer, fails>>
     \/ ~Up("reg") /\ NotServing
  /\ UNCHANGED <<main, helperUp, dead, hc, portTaken, signalled, busy, faults>>

\* NodePrepareResources without claims, one call at a time.
\* Mutant: its error is not looked at.
CheckDraBlindly ==
  /\ probe = "dra" /\ ~busy
  /\ answer' = "SERVING" /\ probe' = "idle" /\ fails' = 0
  /\ UNCHANGED <<main, helperUp, dead, hc, portTaken, signalled, busy, faults>>
CheckDra ==
  /\ probe = "dra"
  /\ \/ Up("dra") /\ ~busy /\ answer' = "SERVING" /\ probe' = "idle" /\ fails' = 0
     \/ ~Up("dra") /\ NotServing
  /\ UNCHANGED <<main, helperUp, dead, hc, portTaken, signalled, busy, faults>>

\* The probe's deadline passes while claims are prepared.
ProbeTimeout ==
  /\ probe = "dra" /\ Up("dra") /\ busy
  /\ probe' = "idle" /\ fails' = IF fails < Threshold THEN fails + 1 ELSE fails
  /\ UNCHANGED <<main, helperUp, dead, hc, portTaken, signalled, answer, busy, faults>>

----------------------------------------------------------------------------
(* kubelet and the rest of the world. *)

ClaimCall ==
  /\ Up("dra") /\ ~busy /\ busy' = TRUE
  /\ UNCHANGED <<main, helperUp, dead, hc, portTaken, signalled, probe, answer, fails, faults>>

ClaimDone ==
  /\ busy /\ busy' = FALSE
  /\ UNCHANGED <<main, helperUp, dead, hc, portTaken, signalled, probe, answer, fails, faults>>

\* Before signal.Notify a signal ends the process at once; later ones than
\* the first are dropped.
Signal ==
  \/ main \in DOMAIN Follows /\ ProcessEnds
  \/ /\ main \notin {"down"} \cup DOMAIN Follows
     /\ signalled' = (main = "wait" \/ signalled)
     /\ UNCHANGED <<main, helperUp, dead, hc, portTaken, probe, answer, busy>>

\* The container is to be restarted once its probes failed too often.
KubeletStops ==
  /\ fails = Threshold /\ main # "down" /\ ~signalled /\ Signal /\ fails' = 0
  /\ UNCHANGED faults

PodDeleted == main # "down" /\ Fault /\ Signal /\ UNCHANGED fails

ServerDies(s) ==
  /\ Up(s) /\ Fault /\ dead' = dead \cup {s}
  /\ busy' = (busy /\ s # "dra")
  /\ UNCHANGED <<main, helperUp, hc, portTaken, signalled, probe, answer, fails>>

PortTaken ==
  /\ ~portTaken /\ hc = "none" /\ Fault /\ portTaken' = TRUE
  /\ UNCHANGED <<main, helperUp, dead, hc, signalled, probe, answer, fails, busy>>

PortFree ==
  /\ portTaken /\ portTaken' = FALSE
  /\ UNCHANGED <<main, helperUp, dead, hc, signalled, probe, answer, fails, busy, faults>>

----------------------------------------------------------------------------
Main  == Boot \/ BootProbes \/ TakeSignal \/ StopProbes \/ ProbesStopped \/ StopHelper
Check == CheckReg \/ CheckDra \/ ProbeTimeout

LifecycleNext ==
  \/ Start \/ Boot \/ BootFails \/ BootProbes
  \/ TakeSignal \/ StopProbes \/ ProbesStopped \/ StopHelper
  \/ Ask \/ AskUnknown \/ CheckReg \/ CheckDra \/ ProbeTimeout
  \/ ClaimCall \/ ClaimDone
  \/ KubeletStops \/ PodDeleted
  \/ \E s \in Servers : ServerDies(s)
  \/ PortTaken \/ PortFree

LifecycleSpec == LifecycleInit /\ [][LifecycleNext]_lifecycleVars

\* The plugin's goroutines run; a check ends or its deadline passes; kubelet
\* goes on probing and restarting; claims get prepared; the port is freed.
FairSpec ==
  /\ LifecycleSpec
  /\ WF_lifecycleVars(Main) /\ WF_lifecycleVars(Check)
  /\ WF_lifecycleVars(Ask) /\ WF_lifecycleVars(KubeletStops) /\ WF_lifecycleVars(Start)
  /\ WF_lifecycleVars(ClaimDone) /\ WF_lifecycleVars(PortFree)

----------------------------------------------------------------------------
(* Properties. *)

LifecycleTypeOK ==
  /\ main \in {"down", "stopProbes", "stopHelper", "wait"} \cup DOMAIN Follows
  /\ dead \subseteq Servers /\ hc \in {"none", "serving", "stopping", "stopped"}
  /\ hc # "none" => main \in {"wait", "stopProbes", "stopHelper"}
  /\ probe \in {"idle", "reg", "dra"}
  /\ probe # "idle" => hc \in {"serving", "stopping"}
  /\ answer \in {"none", "SERVING", "NOT_SERVING", "SERVICE_UNKNOWN"}
  /\ fails \in 0..Threshold /\ faults \in 0..MaxFaults
  /\ busy => Up("dra")

\* A probe is told NOT_SERVING only when one of the servers died, never
\* because it came while the plugin was starting or stopping (driver.go:233:
\* the endpoint is stopped before the servers; driver.go:111 to 140: it is
\* started after them).
NotServingOnlyWhenDead == LifecycleTypeOK /\ (answer = "NOT_SERVING" => dead # {})

\* A signal that is received ends the plugin, though its end waits for checks
\* and those for the claims that are prepared, and although there may be no
\* endpoint to stop (healthcheck.go:115).
SignalEnds == signalled ~> main = "down"

\* The plugin works and can be probed again and again, whatever died: neither
\* dead servers nor a missing endpoint are dealt with by the plugin, only by
\* the checks failing and kubelet restarting it (healthcheck.go:86).
Recovers == []<>(main = "wait" /\ hc = "serving" /\ dead = {})
=============================================================================
