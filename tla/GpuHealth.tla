----------------------------- MODULE GpuHealth -----------------------------
(***************************************************************************)
(* Device health in the GPU kubelet plugin (src/cmd/kubelet-gpu-plugin):    *)
(* the goroutine that listens to xpumd, the goroutines that taint devices   *)
(* on their own (udev events, Unprepare), the ResourceSlice they publish    *)
(* and the health streams kubelet watches.                                 *)
(*                                                                         *)
(* The state mutex is held while health is changed and while a snapshot is  *)
(* taken of it, and not while the snapshot is published or sent.            *)
(***************************************************************************)
EXTENDS Naturals, Sequences

CONSTANTS
  Devices,
  Categories,          \* health categories xpumd reports
  Custom,              \* health categories of the plugin's own, HealthCustomList
  Publishers,          \* other goroutines that change health and publish it
  Streams,             \* health streams kubelet may open
  ChannelCapacity,     \* updates a stream's channel holds
  ConnectAttemptsMax,
  MaxErrors            \* errors Recv may return before the listener panics

Keys == Categories \cup Custom
Values == {"none", "ok", "bad"}
Overall == {"Unknown", "Healthy", "Unhealthy"}

ASSUME KeysAssumption == Categories \cap Custom = {}
ASSUME CapacityAssumption == ChannelCapacity \in Nat \ {0}
ASSUME ConnectAssumption == ConnectAttemptsMax \in Nat \ {0} /\ MaxErrors \in Nat

\* What a snapshot of the state says of each device.
Response == [Devices -> Overall]
SliceEntry == [health: Overall, taints: SUBSET Keys]
Slice == [Devices -> SliceEntry]
NoResponse == [d \in {} |-> {}]

VARIABLES
  status,      \* DeviceInfo.HealthStatus, "none" for a key it does not have
  slice,       \* the ResourceSlice that was published last
  snapshot,    \* the resources each goroutine is about to publish
  overlap,     \* the last snapshot was taken while another was to be published
  listener,    \* where the xpumd listener is
  connected,   \* its stream is not nil
  aborted,     \* its stream has failed: gRPC ends it, and Recv fails from then on
  attempt,     \* failed attempts to connect
  errorCount,  \* errCounter
  response,    \* the health response it is about to broadcast
  canceled,    \* the main context is canceled
  stopping,    \* stopXPUMDListener
  infiniteWait, \* health monitoring is optional: wait for xpumd for ever
  own,         \* where each of the other goroutines is
  registered,  \* keys of healthStreams
  watcher,     \* where the handler of each stream is
  channel,     \* its channel
  sending,     \* its initial status, not sent yet
  view,        \* what kubelet was sent last
  due,         \* the last update broadcast since the stream was opened
  skipped      \* an update was skipped because the channel was full

listenerVars == <<listener, connected, aborted, attempt, errorCount, response>>
streamVars == <<registered, watcher, channel, sending, view, due, skipped>>
sliceVars == <<slice, snapshot, overlap>>
flags == <<stopping, infiniteWait>>
vars == <<status, sliceVars, listenerVars, canceled, flags, own, streamVars>>

xpumd == "xpumd"   \* the listener, among those who publish

ASSUME PublishersAssumption == xpumd \notin Publishers

-----------------------------------------------------------------------------
(* Health of a device                                                       *)

BadKeys(s) == {k \in Keys : s[k] = "bad"}

\* DeviceInfo.Health
Health(s) == IF BadKeys(s) # {} THEN "Unhealthy"
             ELSE IF \E k \in Keys : s[k] = "ok" THEN "Healthy" ELSE "Unknown"

NoCustom(new) == [k \in Keys |-> IF k \in Categories THEN new[k] ELSE "none"]

\* Mutant: a bad category that is not reported any more is forgotten silently.
NeedsPublishReported(old, new) ==
  \/ Health(old) = "Unknown" /\ Health(NoCustom(new)) # "Healthy"
  \/ \E k \in Categories : new[k] # "none" /\ (IF old[k] = "none" THEN new[k] = "bad"
                                                                 ELSE new[k] # old[k])

\* applyHealthStatus wants a new ResourceSlice: a known category has changed, a new one
\* is bad, or a bad one (of the plugin's own, too) is not reported by xpumd.
NeedsPublish(old, new) ==
  \/ NeedsPublishReported(old, new)
  \/ \E k \in BadKeys(old) : k \in Custom \/ new[k] = "none"

\* The new status replaces the old one, but for the plugin's own categories.
Applied(old, new) == [k \in Keys |-> IF k \in Custom THEN old[k] ELSE new[k]]

-----------------------------------------------------------------------------
(* Publishing: GetResources takes a snapshot under the mutex, and the       *)
(* ResourceSlice is updated with it after the mutex is released.            *)

GetResources == [d \in Devices |-> [health |-> Health(status[d]), taints |-> BadKeys(status[d])]]

Waiting(g) == IF g = xpumd THEN listener = "publishing" ELSE own[g] = "publishing"
Holding(g) == IF g = xpumd THEN listener = "holding" ELSE own[g] = "holding"

TakeSnapshot(g) ==
  /\ snapshot' = [snapshot EXCEPT ![g] = GetResources]
  /\ overlap' = \E h \in (Publishers \cup {xpumd}) \ {g} : Holding(h)
  /\ UNCHANGED slice

PublishResources(g) == slice' = snapshot[g] /\ UNCHANGED <<snapshot, overlap>>

-----------------------------------------------------------------------------
(* xpumd listener                                                           *)

\* A stream is opened.
Connect ==
  /\ listener = "connecting"
  /\ ~canceled
  /\ listener' = "looping"
  /\ connected' = TRUE /\ aborted' = FALSE
  /\ attempt' = 0
  /\ UNCHANGED <<status, sliceVars, errorCount, response, canceled, flags, own, streamVars>>

\* WatchDeviceHealth fails: waitForXPUMDStream gives up without an error when the
\* listener is to stop, and with one after the last attempt.
ConnectFails ==
  /\ listener = "connecting"
  /\ IF stopping THEN listener' = "looping" /\ attempt' = 0
     ELSE IF infiniteWait THEN UNCHANGED <<listener, attempt>>
     ELSE /\ attempt' = attempt + 1
          /\ listener' = IF attempt' = ConnectAttemptsMax THEN "panicked" ELSE listener
  /\ UNCHANGED <<status, sliceVars, connected, aborted, errorCount, response, canceled, flags, own,
                 streamVars>>

\* Mutant: the flag is not looked at before Recv.
RunsOnAlways == TRUE

RunsOn == ~stopping

\* The listener's loop looks at the flag before it reads from the stream.
Loop ==
  /\ listener = "looping"
  /\ listener' = IF RunsOn THEN "receiving" ELSE "stopped"
  /\ UNCHANGED <<status, sliceVars, connected, aborted, attempt, errorCount, response, canceled, flags,
                 own, streamVars>>

\* A message has new health for some devices; a change of memory is published, too.
Receive ==
  \E D \in SUBSET Devices, memoryChanged \in BOOLEAN :
  \E new \in [D -> [Categories -> Values]] :
    /\ listener = "receiving" /\ ~aborted
    /\ status' = [d \in Devices |-> IF d \in D THEN Applied(status[d], new[d]) ELSE status[d]]
    /\ listener' = IF memoryChanged \/ \E d \in D : NeedsPublish(status[d], new[d])
                     THEN "publishing" ELSE "looping"
    /\ UNCHANGED <<sliceVars, connected, aborted, attempt, errorCount, response, canceled, flags, own,
                   streamVars>>

\* xpumd has closed the socket: the listener connects again.
ReceiveEOF ==
  /\ listener = "receiving" /\ ~aborted
  /\ listener' = "connecting"
  /\ connected' = FALSE
  /\ UNCHANGED <<status, sliceVars, aborted, attempt, errorCount, response, canceled, flags, own,
                 streamVars>>

\* Mutant: the errors are not counted.
NotCounted == errorCount

Counted == errorCount + 1

\* Any other error, and the same one again whenever the stream it has ended is read.
ReceiveFails ==
  /\ listener = "receiving"
  /\ aborted' = TRUE
  /\ IF infiniteWait THEN listener' = "looping" /\ UNCHANGED errorCount
     ELSE IF errorCount < MaxErrors THEN listener' = "looping" /\ errorCount' = Counted
     ELSE listener' = "panicked" /\ UNCHANGED errorCount
  /\ UNCHANGED <<status, sliceVars, connected, attempt, response, canceled, flags, own,
                 streamVars>>

ListenerSnapshot ==
  /\ listener = "publishing"
  /\ TakeSnapshot(xpumd)
  /\ listener' = "holding"
  /\ UNCHANGED <<status, connected, aborted, attempt, errorCount, response, canceled, flags, own,
                 streamVars>>

ListenerPublish ==
  /\ listener = "holding"
  /\ PublishResources(xpumd)
  /\ listener' = "responding"
  /\ UNCHANGED <<status, connected, aborted, attempt, errorCount, response, canceled, flags, own,
                 streamVars>>

BuildHealthResponse == [d \in Devices |-> Health(status[d])]

ListenerRespond ==
  /\ listener = "responding"
  /\ response' = BuildHealthResponse
  /\ listener' = "broadcasting"
  /\ UNCHANGED <<status, sliceVars, connected, aborted, attempt, errorCount, canceled, flags, own,
                 streamVars>>

Fits(s) == Len(channel[s]) < ChannelCapacity

\* broadcastHealthUpdateWithResponse: an update that does not fit a channel is skipped.
Broadcast ==
  LET fits == {s \in registered : Fits(s)} IN
  /\ listener = "broadcasting"
  /\ channel' = [s \in Streams |-> IF s \in fits THEN Append(channel[s], response) ELSE channel[s]]
  /\ skipped' = skipped \cup (registered \ fits)
  /\ due' = [s \in Streams |-> IF watcher[s] # "closed" THEN response ELSE due[s]]
  /\ response' = NoResponse
  /\ listener' = "looping"
  /\ UNCHANGED <<status, sliceVars, connected, aborted, attempt, errorCount, canceled, flags, own,
                 registered, watcher, sending, view>>

Cancel == ~canceled /\ canceled' = TRUE
          /\ UNCHANGED <<status, sliceVars, listenerVars, flags, own, streamVars>>

\* The goroutine that waits for the context tells the listener to stop.
NoticeCancel == canceled /\ stopping' = TRUE
                /\ UNCHANGED <<status, sliceVars, listenerVars, canceled, infiniteWait, own, streamVars>>

-----------------------------------------------------------------------------
(* Other goroutines: a udev event or Unprepare changes a custom category of *)
(* a device and publishes a new ResourceSlice.  No health stream is told.   *)

OwnChange(g) ==
  \E d \in Devices, k \in Custom :
    /\ own[g] = "idle"
    /\ status' = [status EXCEPT ![d][k] = IF @ = "bad" THEN "ok" ELSE "bad"]
    /\ own' = [own EXCEPT ![g] = "publishing"]
    /\ UNCHANGED <<sliceVars, listenerVars, canceled, flags, streamVars>>

OwnSnapshot(g) ==
  /\ own[g] = "publishing"
  /\ TakeSnapshot(g)
  /\ own' = [own EXCEPT ![g] = "holding"]
  /\ UNCHANGED <<status, listenerVars, canceled, flags, streamVars>>

OwnPublish(g) ==
  /\ own[g] = "holding"
  /\ PublishResources(g)
  /\ own' = [own EXCEPT ![g] = "idle"]
  /\ UNCHANGED <<status, listenerVars, canceled, flags, streamVars>>

-----------------------------------------------------------------------------
(* NodeWatchResources: one handler per stream.                              *)

\* Mutant: the stream is not in healthStreams yet.
RegisterLater(s) == registered' = registered

Register(s) == registered' = registered \cup {s}

OpenStream(s) ==
  /\ watcher[s] = "closed"
  /\ Register(s)
  /\ watcher' = [watcher EXCEPT ![s] = "opened"]
  /\ channel' = [channel EXCEPT ![s] = <<>>]
  /\ due' = [due EXCEPT ![s] = NoResponse]
  /\ skipped' = skipped \ {s}
  /\ UNCHANGED <<status, sliceVars, listenerVars, canceled, flags, own, sending, view>>

\* The initial status is built after the stream was registered ...
BuildInitial(s) ==
  /\ watcher[s] = "opened"
  /\ sending' = [sending EXCEPT ![s] = BuildHealthResponse]
  /\ watcher' = [watcher EXCEPT ![s] = "initial"]
  /\ UNCHANGED <<status, sliceVars, listenerVars, canceled, flags, own, registered, channel,
                 view, due, skipped>>

\* ... and sent before the updates of the channel.
SendInitial(s) ==
  /\ watcher[s] = "initial"
  /\ view' = [view EXCEPT ![s] = sending[s]]
  /\ sending' = [sending EXCEPT ![s] = NoResponse]
  /\ watcher' = [watcher EXCEPT ![s] = "serving"]
  /\ UNCHANGED <<status, sliceVars, listenerVars, canceled, flags, own, registered, channel,
                 due, skipped>>

SendUpdate(s) ==
  /\ watcher[s] = "serving"
  /\ channel[s] # <<>>
  /\ view' = [view EXCEPT ![s] = Head(channel[s])]
  /\ channel' = [channel EXCEPT ![s] = Tail(@)]
  /\ UNCHANGED <<status, sliceVars, listenerVars, canceled, flags, own, registered, watcher,
                 sending, due, skipped>>

\* kubelet closes the stream, or sending to it fails: unregisterHealthStream closes the
\* channel and removes it from healthStreams.
CloseStream(s) ==
  /\ watcher[s] \in {"initial", "serving"}
  /\ watcher' = [watcher EXCEPT ![s] = "closed"]
  /\ registered' = registered \ {s}
  /\ channel' = [channel EXCEPT ![s] = <<>>]
  /\ sending' = [sending EXCEPT ![s] = NoResponse]
  /\ view' = [view EXCEPT ![s] = NoResponse]
  /\ due' = [due EXCEPT ![s] = NoResponse]
  /\ skipped' = skipped \ {s}
  /\ UNCHANGED <<status, sliceVars, listenerVars, canceled, flags, own>>

-----------------------------------------------------------------------------
\* Discovery gives a device no health; newDriver publishes and starts the listener.
Init ==
  /\ status = [d \in Devices |-> [k \in Keys |-> "none"]]
  /\ slice = GetResources
  /\ snapshot = [g \in Publishers \cup {xpumd} |-> GetResources]
  /\ overlap = FALSE
  /\ listener = "connecting" /\ connected = FALSE /\ aborted = FALSE
  /\ attempt = 0 /\ errorCount = 0
  /\ response = NoResponse
  /\ canceled = FALSE /\ stopping = FALSE /\ infiniteWait \in BOOLEAN
  /\ own = [g \in Publishers |-> "idle"]
  /\ registered = {} /\ skipped = {}
  /\ watcher = [s \in Streams |-> "closed"]
  /\ channel = [s \in Streams |-> <<>>]
  /\ sending = [s \in Streams |-> NoResponse]
  /\ view = [s \in Streams |-> NoResponse]
  /\ due = [s \in Streams |-> NoResponse]

Listener ==
  \/ Connect \/ ConnectFails \/ Loop \/ Receive \/ ReceiveEOF \/ ReceiveFails
  \/ ListenerSnapshot \/ ListenerPublish \/ ListenerRespond \/ Broadcast

Stream(s) ==
  OpenStream(s) \/ BuildInitial(s) \/ SendInitial(s) \/ SendUpdate(s) \/ CloseStream(s)

Next ==
  \/ Listener
  \/ Cancel \/ NoticeCancel
  \/ \E g \in Publishers : OwnChange(g) \/ OwnSnapshot(g) \/ OwnPublish(g)
  \/ \E s \in Streams : Stream(s)

\* Goroutines run; Recv returns when the context is canceled or the stream has failed.
Fairness ==
  /\ WF_vars(Listener /\ (listener = "receiving" => canceled \/ aborted))
  /\ WF_vars(NoticeCancel)
  /\ \A g \in Publishers : WF_vars(OwnSnapshot(g) \/ OwnPublish(g))

Spec == Init /\ [][Next]_vars /\ Fairness
-----------------------------------------------------------------------------
(* Properties                                                               *)

\* Every variable has its type (driver.go:44).
TypeOK ==
  /\ status \in [Devices -> [Keys -> Values]]
  /\ slice \in Slice
  /\ snapshot \in [Publishers \cup {xpumd} -> Slice]
  /\ listener \in {"connecting", "looping", "receiving", "publishing", "holding", "responding",
                   "broadcasting", "stopped", "panicked"}
  /\ {overlap, connected, aborted, canceled, stopping, infiniteWait} \subseteq BOOLEAN
  /\ attempt \in 0..ConnectAttemptsMax /\ errorCount \in 0..MaxErrors
  /\ response \in Response \cup {NoResponse}
  /\ own \in [Publishers -> {"idle", "publishing", "holding"}]
  /\ registered \subseteq Streams /\ skipped \subseteq Streams
  /\ watcher \in [Streams -> {"closed", "opened", "initial", "serving"}]
  /\ \A s \in Streams : Len(channel[s]) <= ChannelCapacity
  /\ \A s \in Streams : \A r \in {sending[s], view[s], due[s]} : r \in Response \cup {NoResponse}

Quiet == \A g \in Publishers \cup {xpumd} : ~Waiting(g) /\ ~Holding(g)

SliceTaints == \A d \in Devices : slice[d].taints = BadKeys(status[d])

\* When nobody is about to publish, the published taints are those of the devices, unless
\* two goroutines had snapshots to publish at the same time: no change of health that
\* matters is taken for one that does not (xpumd.go:249).
TaintsPublishedAlone == Quiet /\ ~overlap => SliceTaints

\* A stream that has sent all of its channel has sent the last update of health that was
\* broadcast since it was opened, unless an update was skipped
\* (resourceHealthPodStatus.go:42 and 122).
StreamsFollow ==
  /\ TypeOK
  /\ \A s \in Streams :
    watcher[s] = "serving" /\ channel[s] = <<>> /\ s \notin skipped /\ due[s] # NoResponse
      => view[s] = due[s]

\* The listener never reads from the nil stream it is left with when it gave up
\* connecting (xpumd.go:53 and 97).
NilStreamNeverUsed == listener = "receiving" => connected

\* When the main context is canceled the listener stops (xpumd.go:79).
ListenerStops == canceled ~> listener \in {"stopped", "panicked"}

\* A listener whose stream has failed opens another one, or ends the plugin, which kubelet
\* starts again: health monitoring does not silently stop, unless it is optional
\* (xpumd.go:109).
StreamComesBack == aborted /\ ~infiniteWait ~> ~aborted \/ listener \in {"stopped", "panicked"}
=============================================================================
