---------------------------- MODULE GaudiHealth ----------------------------
(***************************************************************************)
(* Health monitoring in the Gaudi kubelet plugin                            *)
(* (src/cmd/kubelet-gaudi-plugin/healthcare.go): a goroutine watches for    *)
(* critical events of the HLML library and hands the UIDs of unhealthy      *)
(* devices over an unbuffered channel to a second one, which creates a      *)
(* DeviceTaintRule, marks the device and publishes the ResourceSlice.       *)
(*                                                                         *)
(* A send blocks until the monitor receives.  The monitor is gone as soon   *)
(* as it notices that the plugin shuts down.                                *)
(*                                                                         *)
(* The names that GaudiNodeState has, too, begin with "Health" or end in     *)
(* "Monitoring", so that a module can extend both.                         *)
(***************************************************************************)

CONSTANTS
  Devices,
  HlmlFaults,  \* calls to HLML may fail
  ApiFaults    \* a DeviceTaintRule may be refused

ASSUME HealthAssumption == {HlmlFaults, ApiFaults} \subseteq BOOLEAN

VARIABLES
  process,     \* "down", "up", "shutdown" (canceled), "closed" (HLML was shut down, too)
  watcher,     \* where watchCriticalHLMLEvents is
  toRegister,  \* devices its first loop has still to register
  registered,  \* devices registered in the HLML event set
  outbox,      \* UIDs it has still to send: it is blocked unless there are none
  monitor,     \* where startHealthMonitor is
  received,    \* the UID it has received, in a set
  events,      \* devices with a critical event in the event set
  erred,       \* devices that had one since the plugin was started
  unhealthy,   \* devices with Healthy = false
  slice,       \* the same, in the ResourceSlice published last
  rules,       \* devices with a DeviceTaintRule in the cluster
  unruled      \* devices that a DeviceTaintRule could not be created for

watcherVars == <<watcher, toRegister, registered, outbox>>
monitorVars == <<monitor, received>>
hlmlVars == <<events, erred>>
markVars == <<unhealthy, slice, rules, unruled>>
healthVars == <<process, watcherVars, monitorVars, hlmlVars, markVars>>

Goroutine == {"none", "stopped"}
Canceled == process \in {"shutdown", "closed"}

-----------------------------------------------------------------------------
(* The process                                                              *)

\* newDriver: every device is discovered as healthy, HLML knows all of them, the
\* ResourceSlice is published and the goroutines are started.
StartMonitoring ==
  /\ process = "down"
  /\ process' = "up"
  /\ unhealthy' = {} /\ slice' = {} /\ unruled' = {}
  /\ watcher' = "registering" /\ toRegister' = Devices
  /\ monitor' = "selecting"
  /\ UNCHANGED <<registered, outbox, received, hlmlVars, rules>>

\* Shutdown stops the helper and cancels the context of the goroutines ...
Shutdown ==
  /\ process = "up"
  /\ process' = "shutdown"
  /\ UNCHANGED <<watcherVars, monitorVars, hlmlVars, markVars>>

\* ... and shuts HLML down a second later, wherever the goroutines are by then.
ShutdownHLML ==
  /\ process = "shutdown"
  /\ process' = "closed"
  /\ UNCHANGED <<watcherVars, monitorVars, hlmlVars, markVars>>

\* The process ends, after Shutdown or in a crash.
Exit ==
  /\ process # "down"
  /\ process' = "down"
  /\ watcher' = "none" /\ toRegister' = {} /\ registered' = {} /\ outbox' = {}
  /\ monitor' = "none" /\ received' = {}
  /\ events' = {} /\ erred' = {}
  /\ unhealthy' = {} /\ unruled' = {}
  /\ UNCHANGED <<slice, rules>>

\* HLML sees a critical error of a device it was asked to watch.
CriticalError(d) ==
  /\ d \in registered \ erred
  /\ erred' = erred \cup {d}
  /\ events' = events \cup {d}
  /\ UNCHANGED <<process, watcherVars, monitorVars, markVars>>

-----------------------------------------------------------------------------
(* watchCriticalHLMLEvents                                                  *)

At(w) == watcher = w /\ outbox = {}

Unable == HlmlFaults \/ process = "closed"

\* A device that cannot be registered is sent before the next one is tried.
Register(d) ==
  /\ At("registering")
  /\ d \in toRegister
  /\ toRegister' = toRegister \ {d}
  /\ \/ registered' = registered \cup {d} /\ UNCHANGED <<outbox, erred>>
     \/ /\ Unable
        /\ outbox' = {d}
        /\ erred' = erred \cup {d}
        /\ UNCHANGED registered
  /\ UNCHANGED <<process, watcher, monitorVars, events, markVars>>

\* The watcher ends when no device could be registered.
Registered ==
  /\ At("registering")
  /\ toRegister = {}
  /\ watcher' = IF registered = {} THEN "stopped" ELSE "ticking"
  /\ UNCHANGED <<process, toRegister, registered, outbox, monitorVars, hlmlVars, markVars>>

Tick ==
  /\ At("ticking")
  /\ watcher' = "checking"
  /\ UNCHANGED <<process, toRegister, registered, outbox, monitorVars, hlmlVars, markVars>>

\* Mutant: only the monitor looks at the context.
OnlyMonitorStops == FALSE

WatcherSeesDone == Canceled

WatcherStop ==
  /\ At("ticking")
  /\ WatcherSeesDone
  /\ watcher' = "stopped"
  /\ UNCHANGED <<process, toRegister, registered, outbox, monitorVars, hlmlVars, markVars>>

\* The device of the event, or all of them when HLML cannot tell which it is.
UnhealthyUIDs(d, known) == IF known THEN {d} ELSE Devices

\* timedHLMLEventCheck has an event.
CheckEvent(d) ==
  \E known \in BOOLEAN :
    /\ At("checking")
    /\ d \in events
    /\ process # "closed"
    /\ ~known => HlmlFaults
    /\ events' = events \ {d}
    /\ outbox' = UnhealthyUIDs(d, known)
    /\ watcher' = "ticking"
    /\ UNCHANGED <<process, toRegister, registered, monitorVars, erred, markVars>>

\* It times out, gets an event of another type, or fails.  After a failure the first
\* device that HLML has no handle of, if any, is unhealthy.
CheckNothing ==
  /\ At("checking")
  /\ events = {} \/ Unable
  /\ \/ UNCHANGED <<outbox, erred>>
     \/ \E d \in Devices : Unable /\ outbox' = {d} /\ erred' = erred \cup {d}
  /\ watcher' = "ticking"
  /\ UNCHANGED <<process, toRegister, registered, monitorVars, events, markVars>>

-----------------------------------------------------------------------------
(* startHealthMonitor                                                       *)

\* Mutant: only the first UID of a list is sent.
FirstOnly(d) == {}

AllSent(d) == outbox \ {d}

\* The channel is not buffered: the watcher sends while the monitor receives.
Receive(d) ==
  /\ monitor = "selecting"
  /\ d \in outbox
  /\ outbox' = AllSent(d)
  /\ received' = {d}
  /\ monitor' = "updating"
  /\ UNCHANGED <<process, watcher, toRegister, registered, hlmlVars, markVars>>

MonitorStop ==
  /\ monitor = "selecting"
  /\ Canceled
  /\ monitor' = "stopped"
  /\ UNCHANGED <<process, watcherVars, received, hlmlVars, markVars>>

\* Mutant: the device is marked without a rule.
NoRule(S) == rules' = rules /\ unruled' = unruled

\* createTaintRuleMaybe: the rule is there already or is created; a failure is only
\* logged.  Its context is canceled when the plugin shuts down.
CreateTaintRuleMaybe(S) ==
  \/ rules' = rules \cup S /\ unruled' = unruled \ S
  \/ /\ ApiFaults \/ Canceled
     /\ rules' = rules
     /\ unruled' = unruled \cup (S \ rules)

\* updateHealth, under the state mutex.
UpdateHealth ==
  /\ monitor = "updating"
  /\ CreateTaintRuleMaybe(received)
  /\ unhealthy' = unhealthy \cup received
  /\ monitor' = "publishing"
  /\ UNCHANGED <<process, watcherVars, received, hlmlVars, slice>>

\* PublishResourceSlice, after the mutex was released.  It fails when the helper was
\* stopped.
Publish ==
  /\ monitor = "publishing"
  /\ slice' \in IF Canceled THEN {unhealthy, slice} ELSE {unhealthy}
  /\ monitor' = "selecting" /\ received' = {}
  /\ UNCHANGED <<process, watcherVars, hlmlVars, unhealthy, rules, unruled>>

-----------------------------------------------------------------------------
HealthInit ==
  /\ process = "down"
  /\ watcher = "none" /\ toRegister = {} /\ registered = {} /\ outbox = {}
  /\ monitor = "none" /\ received = {}
  /\ events = {} /\ erred = {}
  /\ unhealthy = {} /\ slice = {} /\ rules = {} /\ unruled = {}

Watcher ==
  \/ \E d \in Devices : Register(d) \/ CheckEvent(d)
  \/ Registered \/ Tick \/ WatcherStop \/ CheckNothing

Monitor == (\E d \in Devices : Receive(d)) \/ MonitorStop \/ UpdateHealth \/ Publish

HealthNext ==
  \/ StartMonitoring \/ Shutdown \/ ShutdownHLML \/ Exit
  \/ \E d \in Devices : CriticalError(d)
  \/ Watcher
  \/ Monitor

\* Both goroutines run.  HLML delivers an event sooner or later, and a select that is
\* entered again and again with its context canceled does not pass over it for ever.
Fairness ==
  /\ WF_healthVars(Watcher) /\ WF_healthVars(Monitor)
  /\ \A d \in Devices : SF_healthVars(CheckEvent(d))
  /\ SF_healthVars(WatcherStop)

HealthSpec == HealthInit /\ [][HealthNext]_healthVars /\ Fairness
-----------------------------------------------------------------------------
(* Properties                                                               *)

\* Every variable has its type (driver.go:42, healthcare.go:87).
HealthTypeOK ==
  /\ process \in {"down", "up", "shutdown", "closed"}
  /\ watcher \in Goroutine \cup {"registering", "ticking", "checking"}
  /\ monitor \in Goroutine \cup {"selecting", "updating", "publishing"}
  /\ \A S \in {toRegister, registered, outbox, received, events, erred, unhealthy, slice,
               rules, unruled} : S \subseteq Devices
  /\ received # {} <=> monitor \in {"updating", "publishing"}

\* While the plugin runs, a device that is published as unhealthy has a DeviceTaintRule,
\* so that its Pods are evicted, unless the rule could not be created
\* (healthcare.go:83 and 118).
UnhealthyIsTainted == HealthTypeOK /\ (process = "up" => slice \subseteq rules \cup unruled)

\* A device HLML gave up, or sent a critical event of, is published as unhealthy sooner or
\* later, unless the plugin stops before (healthcare.go:87).
ErrorPublished == \A d \in Devices : d \in erred ~> d \in slice \/ process # "up"

\* When the plugin shuts down the watcher stops, unless it has UIDs to send that nobody
\* receives any more (driver.go:237, healthcare.go:95).
WatcherStops == Canceled ~> watcher = "stopped" \/ outbox # {} \/ process = "down"
=============================================================================
