-------------------------- MODULE GpuHealth_proofs --------------------------
(***************************************************************************)
(* Proofs about the health of GPUs and of their plugin: GpuHealth, for any  *)
(* devices, health categories, goroutines that publish, streams, capacity of *)
(* a channel and numbers of attempts, and GpuLifecycle, for any threshold of *)
(* the probes and any number of faults.                                     *)
(***************************************************************************)
EXTENDS GpuHealth, GpuLifecycle, TLAPS

-----------------------------------------------------------------------------
(* The inductive invariants                                                 *)

\* The listener has a stream from Connect on; it is left without one only when it was told
\* to stop, and then it does not read any more.  It has an attempt left to connect.
StreamInv ==
  /\ listener # "panicked" => attempt < ConnectAttemptsMax
  /\ listener \in {"receiving", "publishing", "holding", "responding", "broadcasting"} => connected
  /\ listener = "looping" => connected \/ stopping

\* A stream is in healthStreams while its handler runs; what it was not sent of the updates
\* broadcast since then is in its channel, the last of them at the end.
Newest(s) ==
  s \notin skipped /\ due[s] # NoResponse =>
    IF channel[s] = <<>> THEN watcher[s] = "serving" /\ view[s] = due[s]
    ELSE channel[s][Len(channel[s])] = due[s]

FollowInv ==
  /\ registered = {s \in Streams : watcher[s] # "closed"}
  /\ channel \in [Streams -> Seq(Response)]
  /\ sending \in [Streams -> Response \cup {NoResponse}]
  /\ view \in [Streams -> Response \cup {NoResponse}]
  /\ due \in [Streams -> Response \cup {NoResponse}]
  /\ listener = "broadcasting" => response \in Response
  /\ \A s \in Streams : watcher[s] = "closed" => due[s] = NoResponse
  /\ \A s \in Streams : Newest(s)

\* The devices' taints are those of the snapshot that is about to be published, and of the
\* slice when there is none, unless somebody has yet to take a snapshot or one was taken
\* while another was about to be published.
All == Publishers \cup {xpumd}

Shows(S) == \A d \in Devices : S[d].taints = BadKeys(status[d])

PublishInv ==
  ~overlap =>
    /\ \A g, h \in All : Holding(g) /\ Holding(h) => g = h
    /\ (\A g \in All : ~Waiting(g)) =>
         /\ \A g \in All : Holding(g) => Shows(snapshot[g])
         /\ (\A g \in All : ~Holding(g)) => Shows(slice)

IInv == TypeOK /\ StreamInv /\ FollowInv /\ PublishInv

-----------------------------------------------------------------------------
(* Lemmas                                                                   *)

\* TypeOK in groups of variables.
StatusTypes ==
  /\ status \in [Devices -> [Keys -> Values]]
  /\ slice \in Slice
  /\ snapshot \in [All -> Slice]

ListenerTypes ==
  /\ listener \in {"connecting", "looping", "receiving", "publishing", "holding", "responding",
                   "broadcasting", "stopped", "panicked"}
  /\ attempt \in 0..ConnectAttemptsMax /\ errorCount \in 0..MaxErrors
  /\ response \in Response \cup {NoResponse}

Flags ==
  /\ overlap \in BOOLEAN /\ connected \in BOOLEAN /\ aborted \in BOOLEAN
  /\ canceled \in BOOLEAN /\ stopping \in BOOLEAN /\ infiniteWait \in BOOLEAN

OwnTypes == own \in [Publishers -> {"idle", "publishing", "holding"}]

StreamTypes ==
  /\ registered \subseteq Streams /\ skipped \subseteq Streams
  /\ watcher \in [Streams -> {"closed", "opened", "initial", "serving"}]
  /\ \A s \in Streams : Len(channel[s]) <= ChannelCapacity

Views == \A s \in Streams : \A r \in {sending[s], view[s], due[s]} : r \in Response \cup {NoResponse}

LEMMA Types ==
  TypeOK <=> StatusTypes /\ ListenerTypes /\ Flags /\ OwnTypes /\ StreamTypes /\ Views
  <1>1. {overlap, connected, aborted, canceled, stopping, infiniteWait} \subseteq BOOLEAN <=> Flags
    BY DEF Flags
  <1> QED
    BY <1>1 DEF TypeOK, StatusTypes, ListenerTypes, OwnTypes, StreamTypes, Views, All

\* A change of health that is not worth a new ResourceSlice does not change the taints:
\* every taint of a category that xpumd reports has changed with it, and the plugin's own
\* categories are kept (xpumd.go:249).
LEMMA SmallChange ==
  ASSUME NEW old \in [Keys -> Values], NEW new \in [Categories -> Values],
         ~NeedsPublish(old, new)
  PROVE  BadKeys(Applied(old, new)) = BadKeys(old)
  <1>1. ASSUME NEW k \in Keys
        PROVE  Applied(old, new)[k] = "bad" <=> old[k] = "bad"
    <2>1. CASE k \in Custom
      BY <2>1 DEF Applied
    <2>2. CASE k \notin Custom
      <3>1. k \in Categories /\ Applied(old, new)[k] = new[k]
        BY <2>2 DEF Keys, Applied
      <3>2. new[k] # "none" => IF old[k] = "none" THEN new[k] # "bad" ELSE new[k] = old[k]
        BY <3>1 DEF NeedsPublish, NeedsPublishReported
      <3>3. old[k] = "bad" => new[k] # "none"
        BY DEF NeedsPublish, BadKeys
      <3> QED
        BY <3>1, <3>2, <3>3
    <2> QED
      BY <2>1, <2>2
  <1> QED
    BY <1>1 DEF BadKeys

LEMMA AppliedTypes ==
  ASSUME NEW old \in [Keys -> Values], NEW new \in [Categories -> Values]
  PROVE  Applied(old, new) \in [Keys -> Values]
  BY DEF Applied, Keys

LEMMA ResourcesTypes ==
  ASSUME status \in [Devices -> [Keys -> Values]]
  PROVE  /\ GetResources \in Slice
         /\ BuildHealthResponse \in Response
         /\ \A d \in Devices : GetResources[d].taints = BadKeys(status[d])
  <1>1. \A s : BadKeys(s) \subseteq Keys /\ Health(s) \in Overall
    BY DEF BadKeys, Health, Overall
  <1>2. GetResources \in Slice
    BY <1>1 DEF GetResources, Slice, SliceEntry
  <1>3. BuildHealthResponse \in Response
    BY <1>1 DEF BuildHealthResponse, Response
  <1> QED
    BY <1>2, <1>3 DEF GetResources

\* What is left of a channel ends as it did.
LEMMA TailLast ==
  ASSUME NEW S, NEW q \in Seq(S), q # <<>>
  PROVE  /\ Head(q) \in S /\ Tail(q) \in Seq(S)
         /\ Len(Tail(q)) = Len(q) - 1
         /\ Tail(q) = <<>> => Head(q) = q[Len(q)]
         /\ Tail(q) # <<>> => Tail(q)[Len(Tail(q))] = q[Len(q)]
  <1>1. Len(q) \in Nat /\ Len(q) # 0
    OBVIOUS
  <1>2. Head(q) = q[1] /\ Head(q) \in S /\ Tail(q) \in Seq(S) /\ Len(Tail(q)) = Len(q) - 1
    BY <1>1
  <1>3. Tail(q) = <<>> => Len(q) = 1
    BY <1>1, <1>2
  <1>4. Tail(q) # <<>> => Len(Tail(q)) # 0
    BY <1>2
  <1>5. \A i \in 1..Len(Tail(q)) : Tail(q)[i] = q[i + 1]
    BY <1>2
  <1> QED
    BY <1>1, <1>2, <1>3, <1>4, <1>5

LEMMA AppendLast ==
  ASSUME NEW S, NEW q \in Seq(S), NEW r \in S
  PROVE  /\ Append(q, r) \in Seq(S) /\ Append(q, r) # <<>>
         /\ Len(Append(q, r)) = Len(q) + 1
         /\ Append(q, r)[Len(Append(q, r))] = r
  OBVIOUS

-----------------------------------------------------------------------------
(* The invariants are inductive                                             *)

LEMMA Initially == Init => IInv
  <1> SUFFICES ASSUME Init PROVE IInv
    OBVIOUS
  <1>1. status \in [Devices -> [Keys -> Values]]
    BY DEF Init, Values
  <1>2. GetResources \in Slice
    BY <1>1, ResourcesTypes
  <1>3. StatusTypes
    BY <1>1, <1>2 DEF Init, StatusTypes, All
  <1>4. ListenerTypes
    BY ConnectAssumption DEF Init, ListenerTypes
  <1>5. Flags
    BY DEF Init, Flags
  <1>6. OwnTypes
    BY DEF Init, OwnTypes
  <1>7. StreamTypes /\ Views
    BY CapacityAssumption DEF Init, StreamTypes, Views
  <1>8. StreamInv
    BY ConnectAssumption DEF Init, StreamInv
  <1>9. FollowInv
    BY DEF Init, FollowInv, Newest
  <1>10. PublishInv
    <2>1. \A g \in All : ~Holding(g)
      BY PublishersAssumption DEF Init, Holding, All
    <2>2. Shows(slice)
      BY <1>1, ResourcesTypes DEF Init, Shows
    <2> QED
      BY <2>1, <2>2 DEF PublishInv
  <1> QED
    BY <1>3, <1>4, <1>5, <1>6, <1>7, <1>8, <1>9, <1>10, Types DEF IInv

LEMMA StepStatus == IInv /\ [Next]_vars => StatusTypes'
  <1> SUFFICES ASSUME StatusTypes, [Next]_vars PROVE StatusTypes'
    BY Types DEF IInv
  <1> USE DEF StatusTypes
  <1>1. CASE Receive
    <2> PICK D \in SUBSET Devices : \E new \in [D -> [Categories -> Values]] :
          status' = [d \in Devices |-> IF d \in D THEN Applied(status[d], new[d]) ELSE status[d]]
      BY <1>1 DEF Receive
    <2>1. PICK new \in [D -> [Categories -> Values]] :
            status' = [d \in Devices |-> IF d \in D THEN Applied(status[d], new[d]) ELSE status[d]]
      OBVIOUS
    <2>2. \A d \in D : Applied(status[d], new[d]) \in [Keys -> Values]
      BY AppliedTypes
    <2> QED
      BY <1>1, <2>1, <2>2 DEF Receive, sliceVars
  <1>2. CASE ListenerSnapshot
    BY <1>2, ResourcesTypes DEF ListenerSnapshot, TakeSnapshot
  <1>3. CASE ListenerPublish
    BY <1>3 DEF ListenerPublish, PublishResources, All
  <1>4. CASE Connect \/ ConnectFails \/ Loop \/ ReceiveEOF \/ ReceiveFails
    BY <1>4 DEF Connect, ConnectFails, Loop, ReceiveEOF, ReceiveFails, sliceVars
  <1>5. CASE ListenerRespond \/ Broadcast \/ Cancel \/ NoticeCancel
    BY <1>5 DEF ListenerRespond, Broadcast, Cancel, NoticeCancel, sliceVars
  <1>6. CASE \E g \in Publishers : OwnChange(g)
    <2>1. PICK d \in Devices, k \in Custom :
            status' = [status EXCEPT ![d][k] = IF @ = "bad" THEN "ok" ELSE "bad"]
      BY <1>6 DEF OwnChange
    <2>2. [status[d] EXCEPT ![k] = IF @ = "bad" THEN "ok" ELSE "bad"] \in [Keys -> Values]
      BY DEF Values
    <2>3. status' = [status EXCEPT ![d] = [status[d] EXCEPT ![k] = IF @ = "bad" THEN "ok" ELSE "bad"]]
      BY <2>1
    <2> QED
      BY <1>6, <2>2, <2>3 DEF OwnChange, sliceVars
  <1>7. CASE \E g \in Publishers : OwnSnapshot(g)
    BY <1>7, ResourcesTypes DEF OwnSnapshot, TakeSnapshot
  <1>8. CASE \E g \in Publishers : OwnPublish(g)
    BY <1>8 DEF OwnPublish, PublishResources, All
  <1>9. CASE \E s \in Streams : Stream(s)
    BY <1>9 DEF Stream, OpenStream, BuildInitial, SendInitial, SendUpdate, CloseStream, sliceVars
  <1>10. CASE UNCHANGED vars
    BY <1>10 DEF vars, sliceVars
  <1> QED
    BY <1>1, <1>2, <1>3, <1>4, <1>5, <1>6, <1>7, <1>8, <1>9, <1>10 DEF Next, Listener

LEMMA StepListener == IInv /\ [Next]_vars => ListenerTypes'
  <1> SUFFICES ASSUME StatusTypes, ListenerTypes, StreamInv, [Next]_vars PROVE ListenerTypes'
    BY Types DEF IInv
  <1> USE ConnectAssumption DEF ListenerTypes
  <1>1. CASE Connect \/ ConnectFails \/ Loop
    BY <1>1 DEF Connect, ConnectFails, Loop, StreamInv
  <1>2. CASE Receive \/ ReceiveEOF \/ ReceiveFails
    BY <1>2 DEF Receive, ReceiveEOF, ReceiveFails, Counted
  <1>3. CASE ListenerSnapshot \/ ListenerPublish
    BY <1>3 DEF ListenerSnapshot, ListenerPublish
  <1>4. CASE ListenerRespond
    BY <1>4, ResourcesTypes DEF ListenerRespond, StatusTypes
  <1>5. CASE Broadcast
    BY <1>5 DEF Broadcast
  <1>6. CASE Cancel \/ NoticeCancel
    BY <1>6 DEF Cancel, NoticeCancel, listenerVars
  <1>7. CASE \E g \in Publishers : OwnChange(g) \/ OwnSnapshot(g) \/ OwnPublish(g)
    BY <1>7 DEF OwnChange, OwnSnapshot, OwnPublish, listenerVars
  <1>8. CASE \E s \in Streams : Stream(s)
    BY <1>8 DEF Stream, OpenStream, BuildInitial, SendInitial, SendUpdate, CloseStream, listenerVars
  <1>9. CASE UNCHANGED vars
    BY <1>9 DEF vars, listenerVars
  <1> QED
    BY <1>1, <1>2, <1>3, <1>4, <1>5, <1>6, <1>7, <1>8, <1>9 DEF Next, Listener

LEMMA StepFlags == IInv /\ [Next]_vars => Flags'
  <1> SUFFICES ASSUME Flags, [Next]_vars PROVE Flags'
    BY Types DEF IInv
  <1> USE DEF Flags
  <1>1. CASE Connect \/ ConnectFails \/ Loop
    BY <1>1 DEF Connect, ConnectFails, Loop, sliceVars, flags
  <1>2. CASE Receive \/ ReceiveEOF \/ ReceiveFails
    BY <1>2 DEF Receive, ReceiveEOF, ReceiveFails, sliceVars, flags
  <1>3. CASE ListenerSnapshot
    BY <1>3 DEF ListenerSnapshot, TakeSnapshot, flags
  <1>4. CASE ListenerPublish
    BY <1>4 DEF ListenerPublish, PublishResources, flags
  <1>5. CASE ListenerRespond \/ Broadcast
    BY <1>5 DEF ListenerRespond, Broadcast, sliceVars, flags
  <1>6. CASE Cancel \/ NoticeCancel
    BY <1>6 DEF Cancel, NoticeCancel, sliceVars, listenerVars, flags
  <1>7. CASE \E g \in Publishers : OwnChange(g)
    BY <1>7 DEF OwnChange, sliceVars, listenerVars, flags
  <1>8. CASE \E g \in Publishers : OwnSnapshot(g)
    BY <1>8 DEF OwnSnapshot, TakeSnapshot, listenerVars, flags
  <1>9. CASE \E g \in Publishers : OwnPublish(g)
    BY <1>9 DEF OwnPublish, PublishResources, listenerVars, flags
  <1>10. CASE \E s \in Streams : Stream(s)
    BY <1>10 DEF Stream, OpenStream, BuildInitial, SendInitial, SendUpdate, CloseStream,
         sliceVars, listenerVars, flags
  <1>11. CASE UNCHANGED vars
    BY <1>11 DEF vars, sliceVars, listenerVars, flags
  <1> QED
    BY <1>1, <1>2, <1>3, <1>4, <1>5, <1>6, <1>7, <1>8, <1>9, <1>10, <1>11 DEF Next, Listener

LEMMA StepOwn == IInv /\ [Next]_vars => OwnTypes'
  <1> SUFFICES ASSUME OwnTypes, [Next]_vars PROVE OwnTypes'
    BY Types DEF IInv
  <1> USE DEF OwnTypes
  <1>1. CASE Listener
    BY <1>1 DEF Listener, Connect, ConnectFails, Loop, Receive, ReceiveEOF, ReceiveFails,
         ListenerSnapshot, ListenerPublish, ListenerRespond, Broadcast
  <1>2. CASE \E g \in Publishers : OwnChange(g) \/ OwnSnapshot(g) \/ OwnPublish(g)
    BY <1>2 DEF OwnChange, OwnSnapshot, OwnPublish
  <1>3. CASE Cancel \/ NoticeCancel \/ (\E s \in Streams : Stream(s)) \/ UNCHANGED vars
    BY <1>3 DEF Cancel, NoticeCancel, Stream, OpenStream, BuildInitial, SendInitial, SendUpdate,
         CloseStream, vars
  <1> QED
    BY <1>1, <1>2, <1>3 DEF Next

LEMMA StepStream == IInv /\ [Next]_vars => StreamInv'
  <1> SUFFICES ASSUME ListenerTypes, StreamInv, [Next]_vars PROVE StreamInv'
    BY Types DEF IInv
  <1> USE ConnectAssumption DEF StreamInv, ListenerTypes
  <1>1. CASE Connect \/ ConnectFails \/ Loop
    BY <1>1 DEF Connect, ConnectFails, Loop, RunsOn, flags
  <1>2. CASE Receive \/ ReceiveEOF \/ ReceiveFails
    BY <1>2 DEF Receive, ReceiveEOF, ReceiveFails, flags
  <1>3. CASE ListenerSnapshot \/ ListenerPublish \/ ListenerRespond \/ Broadcast
    BY <1>3 DEF ListenerSnapshot, ListenerPublish, ListenerRespond, Broadcast, flags
  <1>4. CASE Cancel \/ NoticeCancel
    BY <1>4 DEF Cancel, NoticeCancel, listenerVars, flags
  <1>5. CASE \E g \in Publishers : OwnChange(g) \/ OwnSnapshot(g) \/ OwnPublish(g)
    BY <1>5 DEF OwnChange, OwnSnapshot, OwnPublish, listenerVars, flags
  <1>6. CASE \E s \in Streams : Stream(s)
    BY <1>6 DEF Stream, OpenStream, BuildInitial, SendInitial, SendUpdate, CloseStream,
         listenerVars, flags
  <1>7. CASE UNCHANGED vars
    BY <1>7 DEF vars, listenerVars, flags
  <1> QED
    BY <1>1, <1>2, <1>3, <1>4, <1>5, <1>6, <1>7 DEF Next, Listener

\* The handlers' variables after a step of the handler of one stream.
Handlers(s) ==
  \A t \in Streams \ {s} :
    /\ watcher'[t] = watcher[t] /\ channel'[t] = channel[t] /\ sending'[t] = sending[t]
    /\ view'[t] = view[t] /\ due'[t] = due[t]
    /\ t \in registered' <=> t \in registered
    /\ t \in skipped' <=> t \in skipped

\* A step of the handler of one stream keeps what FollowInv and the types say when it keeps
\* it of that stream.
StreamOk(s) ==
  /\ s \in registered <=> watcher[s] # "closed"
  /\ channel[s] \in Seq(Response) /\ Len(channel[s]) <= ChannelCapacity
  /\ sending[s] \in Response \cup {NoResponse}
  /\ view[s] \in Response \cup {NoResponse}
  /\ due[s] \in Response \cup {NoResponse}
  /\ watcher[s] = "closed" => due[s] = NoResponse
  /\ Newest(s)

Functions ==
  /\ watcher \in [Streams -> {"closed", "opened", "initial", "serving"}]
  /\ channel \in [Streams -> Seq(Response)]
  /\ sending \in [Streams -> Response \cup {NoResponse}]
  /\ view \in [Streams -> Response \cup {NoResponse}]
  /\ due \in [Streams -> Response \cup {NoResponse}]
  /\ registered \subseteq Streams /\ skipped \subseteq Streams

Follow ==
  /\ Functions
  /\ \A s \in Streams : StreamOk(s)
  /\ listener = "broadcasting" => response \in Response

LEMMA FollowIs == Follow <=> StreamTypes /\ Views /\ FollowInv
  <1>1. ASSUME Follow PROVE StreamTypes /\ Views /\ FollowInv
    BY <1>1 DEF Follow, Functions, StreamOk, StreamTypes, Views, FollowInv
  <1>2. ASSUME StreamTypes, Views, FollowInv PROVE Follow
    <2>1. Functions
      BY <1>2 DEF Functions, StreamTypes, FollowInv
    <2>2. ASSUME NEW s \in Streams PROVE StreamOk(s)
      <3>1. channel[s] \in Seq(Response)
        BY <1>2 DEF FollowInv
      <3> QED
        BY <1>2, <3>1 DEF StreamOk, StreamTypes, FollowInv
    <2> QED
      BY <1>2, <2>1, <2>2 DEF Follow, FollowInv
  <1> QED
    BY <1>1, <1>2

LEMMA StepHandler ==
  ASSUME Follow, StatusTypes, NEW s \in Streams, Stream(s)
  PROVE  Follow'
  <1> USE DEF Functions
  <1>1. /\ watcher \in [Streams -> {"closed", "opened", "initial", "serving"}]
        /\ channel \in [Streams -> Seq(Response)]
        /\ sending \in [Streams -> Response \cup {NoResponse}]
        /\ view \in [Streams -> Response \cup {NoResponse}]
        /\ due \in [Streams -> Response \cup {NoResponse}]
        /\ registered \subseteq Streams /\ skipped \subseteq Streams
    BY DEF Follow
  <1>2. StreamOk(s)
    BY DEF Follow
  <1>3. listener' = listener /\ response' = response
    BY DEF Stream, OpenStream, BuildInitial, SendInitial, SendUpdate, CloseStream, listenerVars
  <1>4. Functions' /\ Handlers(s) /\ StreamOk(s)'
    <2>1. CASE OpenStream(s)
      <3>1. /\ watcher' = [watcher EXCEPT ![s] = "opened"] /\ channel' = [channel EXCEPT ![s] = <<>>]
            /\ due' = [due EXCEPT ![s] = NoResponse] /\ skipped' = skipped \ {s}
            /\ registered' = registered \cup {s} /\ sending' = sending /\ view' = view
        BY <2>1 DEF OpenStream, Register
      <3>2. Functions'
        BY <1>1, <3>1
      <3>3. Handlers(s)
        BY <1>1, <3>1 DEF Handlers
      <3>4. StreamOk(s)'
        BY <1>1, <1>2, <3>1, CapacityAssumption DEF StreamOk, Newest
      <3> QED
        BY <3>2, <3>3, <3>4
    <2>2. CASE BuildInitial(s)
      <3>1. /\ watcher[s] = "opened" /\ watcher' = [watcher EXCEPT ![s] = "initial"]
            /\ sending' = [sending EXCEPT ![s] = BuildHealthResponse]
            /\ BuildHealthResponse \in Response
            /\ UNCHANGED <<registered, channel, view, due, skipped>>
        BY <2>2, ResourcesTypes DEF BuildInitial, StatusTypes
      <3>2. Functions'
        BY <1>1, <3>1
      <3>3. Handlers(s)
        BY <1>1, <3>1 DEF Handlers
      <3>4. StreamOk(s)'
        BY <1>1, <1>2, <3>1 DEF StreamOk, Newest
      <3> QED
        BY <3>2, <3>3, <3>4
    <2>3. CASE SendInitial(s)
      <3>1. /\ watcher[s] = "initial" /\ watcher' = [watcher EXCEPT ![s] = "serving"]
            /\ view' = [view EXCEPT ![s] = sending[s]]
            /\ sending' = [sending EXCEPT ![s] = NoResponse]
            /\ UNCHANGED <<registered, channel, due, skipped>>
        BY <2>3 DEF SendInitial
      <3>2. Functions'
        BY <1>1, <3>1
      <3>3. Handlers(s)
        BY <1>1, <3>1 DEF Handlers
      <3>4. StreamOk(s)'
        BY <1>1, <1>2, <3>1 DEF StreamOk, Newest
      <3> QED
        BY <3>2, <3>3, <3>4
    <2>4. CASE SendUpdate(s)
      <3>1. /\ watcher[s] = "serving" /\ channel[s] # <<>>
            /\ view' = [view EXCEPT ![s] = Head(channel[s])]
            /\ channel' = [channel EXCEPT ![s] = Tail(channel[s])]
            /\ UNCHANGED <<registered, watcher, sending, due, skipped>>
        BY <2>4 DEF SendUpdate
      <3>2. channel[s] \in Seq(Response)
        BY <1>1
      <3>3. /\ Head(channel[s]) \in Response /\ Tail(channel[s]) \in Seq(Response)
            /\ Len(Tail(channel[s])) = Len(channel[s]) - 1
            /\ Tail(channel[s]) = <<>> => Head(channel[s]) = channel[s][Len(channel[s])]
            /\ Tail(channel[s]) # <<>> =>
                 Tail(channel[s])[Len(Tail(channel[s]))] = channel[s][Len(channel[s])]
        BY <3>1, <3>2, TailLast
      <3>4. Functions'
        BY <1>1, <3>1, <3>3
      <3>5. Handlers(s)
        BY <1>1, <3>1 DEF Handlers
      <3>6. channel'[s] = Tail(channel[s]) /\ view'[s] = Head(channel[s])
        BY <1>1, <3>1
      <3>7. Len(channel'[s]) <= ChannelCapacity
        BY <1>2, <3>2, <3>3, <3>6, CapacityAssumption DEF StreamOk
      <3>8. Newest(s)'
        BY <1>2, <3>1, <3>3, <3>6 DEF StreamOk, Newest
      <3> QED
        BY <1>2, <3>1, <3>3, <3>4, <3>5, <3>6, <3>7, <3>8 DEF StreamOk
    <2>5. CASE CloseStream(s)
      <3>1. /\ watcher' = [watcher EXCEPT ![s] = "closed"] /\ channel' = [channel EXCEPT ![s] = <<>>]
            /\ due' = [due EXCEPT ![s] = NoResponse] /\ skipped' = skipped \ {s}
            /\ registered' = registered \ {s} /\ sending' = [sending EXCEPT ![s] = NoResponse]
            /\ view' = [view EXCEPT ![s] = NoResponse]
        BY <2>5 DEF CloseStream
      <3>2. Functions'
        BY <1>1, <3>1
      <3>3. Handlers(s)
        BY <1>1, <3>1 DEF Handlers
      <3>4. StreamOk(s)'
        BY <1>1, <1>2, <3>1, CapacityAssumption DEF StreamOk, Newest
      <3> QED
        BY <3>2, <3>3, <3>4
    <2> QED
      BY <2>1, <2>2, <2>3, <2>4, <2>5 DEF Stream
  <1>5. ASSUME NEW t \in Streams \ {s} PROVE StreamOk(t)'
    BY <1>4, <1>5 DEF Handlers, Follow, StreamOk, Newest
  <1> QED
    BY <1>3, <1>4, <1>5 DEF Follow

\* An update goes to every channel it fits; a stream whose channel is full is told to have
\* skipped one.
LEMMA StepBroadcast ==
  ASSUME Follow, Broadcast
  PROVE  Follow'
  <1> DEFINE fits == {s \in registered : Fits(s)}
  <1>1. /\ listener = "broadcasting" /\ listener' = "looping"
        /\ channel' = [s \in Streams |-> IF s \in fits THEN Append(channel[s], response)
                                                        ELSE channel[s]]
        /\ skipped' = skipped \cup (registered \ fits)
        /\ due' = [s \in Streams |-> IF watcher[s] # "closed" THEN response ELSE due[s]]
        /\ UNCHANGED <<registered, watcher, sending, view>>
    BY DEF Broadcast
  <1>2. response \in Response
    BY <1>1 DEF Follow
  <1>3. Functions
    BY DEF Follow
  <1>4. ASSUME NEW s \in Streams
        PROVE  /\ channel'[s] \in Seq(Response) /\ due'[s] \in Response \cup {NoResponse}
               /\ StreamOk(s)'
    <2>1. StreamOk(s)
      BY DEF Follow
    <2>2. CASE s \in fits
      <3>1. /\ channel'[s] = Append(channel[s], response) /\ due'[s] = response
            /\ s \in registered /\ watcher[s] # "closed" /\ Len(channel[s]) < ChannelCapacity
        BY <1>1, <2>1, <2>2 DEF Fits, StreamOk
      <3>2. channel[s] \in Seq(Response)
        BY <1>3 DEF Functions
      <3>3. /\ Append(channel[s], response) \in Seq(Response)
            /\ Append(channel[s], response) # <<>>
            /\ Len(Append(channel[s], response)) = Len(channel[s]) + 1
            /\ Append(channel[s], response)[Len(Append(channel[s], response))] = response
        BY <1>2, <3>2, AppendLast
      <3>4. Newest(s)'
        BY <3>1, <3>3 DEF Newest
      <3>5. Len(channel'[s]) <= ChannelCapacity
        BY <3>1, <3>2, <3>3, CapacityAssumption
      <3> QED
        BY <1>1, <1>2, <2>1, <3>1, <3>3, <3>4, <3>5 DEF StreamOk
    <2>3. CASE s \in registered \ fits
      <3>1. channel'[s] = channel[s] /\ s \in skipped' /\ due'[s] = response /\ watcher[s] # "closed"
        BY <1>1, <2>1, <2>3 DEF StreamOk
      <3> QED
        BY <1>1, <1>2, <2>1, <3>1 DEF StreamOk, Newest
    <2>4. CASE s \notin registered
      <3>1. /\ channel'[s] = channel[s] /\ due'[s] = due[s] /\ watcher[s] = "closed"
            /\ s \in skipped' <=> s \in skipped
        BY <1>1, <2>1, <2>4 DEF StreamOk
      <3> QED
        BY <1>1, <2>1, <3>1 DEF StreamOk, Newest
    <2> QED
      BY <2>2, <2>3, <2>4
  <1>5. Functions'
    <2>1. channel' \in [Streams -> Seq(Response)] /\ due' \in [Streams -> Response \cup {NoResponse}]
      BY <1>1, <1>4
    <2> QED
      BY <1>1, <1>3, <2>1 DEF Functions
  <1> QED
    BY <1>1, <1>4, <1>5 DEF Follow

LEMMA StepFollow == IInv /\ [Next]_vars => Follow'
  <1> SUFFICES ASSUME Follow, StatusTypes, [Next]_vars PROVE Follow'
    BY Types, FollowIs DEF IInv
  <1>1. CASE Broadcast
    BY <1>1, StepBroadcast
  <1>2. CASE \E s \in Streams : Stream(s)
    BY <1>2, StepHandler
  <1>3. CASE ListenerRespond
    BY <1>3, ResourcesTypes DEF ListenerRespond, StatusTypes, streamVars, Follow, Functions,
       StreamOk, Newest
  <1>4. ASSUME UNCHANGED streamVars,
               listener' = "broadcasting" => listener = "broadcasting",
               response' = response
        PROVE  Follow'
    BY <1>4 DEF streamVars, Follow, Functions, StreamOk, Newest
  <1>5. CASE Connect \/ ConnectFails \/ Loop \/ Receive \/ ReceiveEOF \/ ReceiveFails
             \/ ListenerSnapshot \/ ListenerPublish
    <2>1. UNCHANGED streamVars
      BY <1>5 DEF Connect, ConnectFails, Loop, Receive, ReceiveEOF, ReceiveFails, ListenerSnapshot,
         ListenerPublish
    <2>2. listener' = "broadcasting" => listener = "broadcasting"
      BY <1>5 DEF Connect, ConnectFails, Loop, Receive, ReceiveEOF, ReceiveFails, ListenerSnapshot,
         ListenerPublish
    <2>3. response' = response
      BY <1>5 DEF Connect, ConnectFails, Loop, Receive, ReceiveEOF, ReceiveFails, ListenerSnapshot,
         ListenerPublish
    <2> QED
      BY <1>4, <2>1, <2>2, <2>3
  <1>6. CASE Cancel \/ NoticeCancel
             \/ \E g \in Publishers : OwnChange(g) \/ OwnSnapshot(g) \/ OwnPublish(g)
    BY <1>4, <1>6 DEF Cancel, NoticeCancel, OwnChange, OwnSnapshot, OwnPublish, listenerVars
  <1>7. CASE UNCHANGED vars
    BY <1>4, <1>7 DEF vars, listenerVars
  <1> QED
    BY <1>1, <1>2, <1>3, <1>5, <1>6, <1>7 DEF Next, Listener

-----------------------------------------------------------------------------
(* Publishing                                                               *)

\* Who publishes what, after the snapshot of g: nobody else holds one unless the overlap is
\* noticed.
LEMMA Snapshot ==
  ASSUME StatusTypes, NEW g \in All, TakeSnapshot(g), UNCHANGED status,
         Holding(g)', ~Waiting(g)',
         \A h \in All \ {g} : (Holding(h)' <=> Holding(h)) /\ (Waiting(h)' <=> Waiting(h))
  PROVE  PublishInv'
  <1>1. /\ snapshot' = [snapshot EXCEPT ![g] = GetResources]
        /\ ~overlap' => \A h \in All \ {g} : ~Holding(h)
    BY DEF TakeSnapshot, All
  <1>2. snapshot'[g] = GetResources
    BY <1>1 DEF StatusTypes
  <1>3. \A d \in Devices : GetResources[d].taints = BadKeys(status[d])
    BY ResourcesTypes DEF StatusTypes
  <1>4. Shows(snapshot[g])'
    BY <1>2, <1>3 DEF Shows
  <1>5. ASSUME ~overlap' PROVE \A h \in All : Holding(h)' => h = g
    BY <1>1, <1>5
  <1> QED
    BY <1>4, <1>5 DEF PublishInv

\* The snapshot published was the last one, or somebody has yet to take one.
LEMMA Published ==
  ASSUME PublishInv, NEW g \in All, PublishResources(g), UNCHANGED status,
         Holding(g), ~Waiting(g), ~Holding(g)', ~Waiting(g)',
         \A h \in All \ {g} : (Holding(h)' <=> Holding(h)) /\ (Waiting(h)' <=> Waiting(h))
  PROVE  PublishInv'
  <1>1. slice' = snapshot[g] /\ snapshot' = snapshot /\ overlap' = overlap
    BY DEF PublishResources
  <1> SUFFICES ASSUME ~overlap
      PROVE  /\ \A h, i \in All : Holding(h)' /\ Holding(i)' => h = i
             /\ (\A h \in All : ~Waiting(h)') =>
                  /\ \A h \in All : Holding(h)' => Shows(snapshot[h])'
                  /\ (\A h \in All : ~Holding(h)') => Shows(slice)'
    BY <1>1 DEF PublishInv
  <1>2. \A h \in All : ~Holding(h)'
    BY DEF PublishInv
  <1>3. ASSUME \A h \in All : ~Waiting(h)' PROVE Shows(slice)'
    <2>1. \A h \in All : ~Waiting(h)
      BY <1>3
    <2>2. Shows(snapshot[g])
      BY <2>1 DEF PublishInv
    <2> QED
      BY <1>1, <2>2 DEF Shows
  <1> QED
    BY <1>2, <1>3

\* Nothing that matters for the slice has happened: nobody took or published a snapshot, and
\* when nobody waits to take one nobody did before and the taints are the same.
LEMMA NothingPublished ==
  ASSUME PublishInv, UNCHANGED sliceVars,
         \A g \in All : Holding(g)' <=> Holding(g),
         (\A g \in All : ~Waiting(g)') =>
           /\ \A g \in All : ~Waiting(g)
           /\ \A d \in Devices : BadKeys(status'[d]) = BadKeys(status[d])
  PROVE  PublishInv'
  <1>1. UNCHANGED <<slice, snapshot, overlap>>
    BY DEF sliceVars
  <1> SUFFICES ASSUME ~overlap
      PROVE  /\ \A h, i \in All : Holding(h)' /\ Holding(i)' => h = i
             /\ (\A h \in All : ~Waiting(h)') =>
                  /\ \A h \in All : Holding(h)' => Shows(snapshot[h])'
                  /\ (\A h \in All : ~Holding(h)') => Shows(slice)'
    BY <1>1 DEF PublishInv
  <1>2. \A h, i \in All : Holding(h)' /\ Holding(i)' => h = i
    BY DEF PublishInv
  <1>3. ASSUME \A h \in All : ~Waiting(h)'
        PROVE  /\ \A h \in All : Holding(h)' => Shows(snapshot[h])'
               /\ (\A h \in All : ~Holding(h)') => Shows(slice)'
    <2>1. /\ \A h \in All : Holding(h) => Shows(snapshot[h])
          /\ (\A h \in All : ~Holding(h)) => Shows(slice)
      BY <1>3 DEF PublishInv
    <2>2. \A d \in Devices : BadKeys(status'[d]) = BadKeys(status[d])
      BY <1>3
    <2> QED
      BY <1>1, <2>1, <2>2 DEF Shows
  <1> QED
    BY <1>2, <1>3

\* Health that xpumd reports is published, or does not change a taint.
LEMMA ReceivedTaints ==
  ASSUME StatusTypes, Receive, ~Waiting(xpumd)'
  PROVE  \A d \in Devices : BadKeys(status'[d]) = BadKeys(status[d])
  <1> PICK D \in SUBSET Devices, memoryChanged \in BOOLEAN :
        \E new \in [D -> [Categories -> Values]] :
          /\ status' = [d \in Devices |-> IF d \in D THEN Applied(status[d], new[d]) ELSE status[d]]
          /\ listener' = IF memoryChanged \/ \E d \in D : NeedsPublish(status[d], new[d])
                           THEN "publishing" ELSE "looping"
    BY DEF Receive
  <1> PICK new \in [D -> [Categories -> Values]] :
        /\ status' = [d \in Devices |-> IF d \in D THEN Applied(status[d], new[d]) ELSE status[d]]
        /\ listener' = IF memoryChanged \/ \E d \in D : NeedsPublish(status[d], new[d])
                         THEN "publishing" ELSE "looping"
    OBVIOUS
  <1>1. \A d \in D : ~NeedsPublish(status[d], new[d])
    BY DEF Waiting
  <1>2. \A d \in D : status[d] \in [Keys -> Values] /\ new[d] \in [Categories -> Values]
    BY DEF StatusTypes
  <1>3. \A d \in D : BadKeys(Applied(status[d], new[d])) = BadKeys(status[d])
    BY <1>1, <1>2, SmallChange
  <1> QED
    BY <1>3

LEMMA StepPublish == IInv /\ [Next]_vars => PublishInv'
  <1> SUFFICES ASSUME StatusTypes, OwnTypes, PublishInv, [Next]_vars PROVE PublishInv'
    BY Types DEF IInv
  <1> USE PublishersAssumption
  <1>1. CASE ListenerSnapshot
    <2>1. /\ listener' = "holding" /\ listener = "publishing" /\ own' = own /\ status' = status
          /\ TakeSnapshot(xpumd) /\ xpumd \in All
      BY <1>1 DEF ListenerSnapshot, All
    <2>2. Holding(xpumd)' /\ ~Waiting(xpumd)'
      BY <2>1 DEF Holding, Waiting
    <2>3. \A h \in All \ {xpumd} : (Holding(h)' <=> Holding(h)) /\ (Waiting(h)' <=> Waiting(h))
      BY <2>1 DEF Holding, Waiting
    <2> QED
      BY <2>1, <2>2, <2>3, Snapshot
  <1>2. CASE ListenerPublish
    <2>1. /\ listener' = "responding" /\ listener = "holding" /\ own' = own /\ status' = status
          /\ PublishResources(xpumd) /\ xpumd \in All
      BY <1>2 DEF ListenerPublish, All
    <2>2. Holding(xpumd) /\ ~Waiting(xpumd) /\ ~Holding(xpumd)' /\ ~Waiting(xpumd)'
      BY <2>1 DEF Holding, Waiting
    <2>3. \A h \in All \ {xpumd} : (Holding(h)' <=> Holding(h)) /\ (Waiting(h)' <=> Waiting(h))
      BY <2>1 DEF Holding, Waiting
    <2> QED
      BY <2>1, <2>2, <2>3, Published
  <1>3. ASSUME NEW g \in Publishers, OwnSnapshot(g) PROVE PublishInv'
    <2>1. /\ own[g] = "publishing" /\ own' = [own EXCEPT ![g] = "holding"] /\ listener' = listener
          /\ status' = status /\ TakeSnapshot(g) /\ g \in All /\ g # xpumd
      BY <1>3 DEF OwnSnapshot, listenerVars, All
    <2>2. Holding(g)' /\ ~Waiting(g)'
      BY <2>1 DEF Holding, Waiting, OwnTypes
    <2>3. \A h \in All \ {g} : (Holding(h)' <=> Holding(h)) /\ (Waiting(h)' <=> Waiting(h))
      BY <2>1 DEF Holding, Waiting, OwnTypes, All
    <2> QED
      BY <2>1, <2>2, <2>3, Snapshot
  <1>4. ASSUME NEW g \in Publishers, OwnPublish(g) PROVE PublishInv'
    <2>1. /\ own[g] = "holding" /\ own' = [own EXCEPT ![g] = "idle"] /\ listener' = listener
          /\ status' = status /\ PublishResources(g) /\ g \in All /\ g # xpumd
      BY <1>4 DEF OwnPublish, listenerVars, All
    <2>2. Holding(g) /\ ~Waiting(g) /\ ~Holding(g)' /\ ~Waiting(g)'
      BY <2>1 DEF Holding, Waiting, OwnTypes
    <2>3. \A h \in All \ {g} : (Holding(h)' <=> Holding(h)) /\ (Waiting(h)' <=> Waiting(h))
      BY <2>1 DEF Holding, Waiting, OwnTypes, All
    <2> QED
      BY <2>1, <2>2, <2>3, Published
  <1>5. CASE Receive
    <2>1. listener = "receiving" /\ listener' \in {"publishing", "looping"} /\ UNCHANGED sliceVars
          /\ own' = own
      BY <1>5 DEF Receive
    <2>2. \A g \in All : Holding(g)' <=> Holding(g)
      BY <2>1 DEF Holding
    <2>3. ASSUME \A g \in All : ~Waiting(g)'
          PROVE  /\ \A g \in All : ~Waiting(g)
                 /\ \A d \in Devices : BadKeys(status'[d]) = BadKeys(status[d])
      <3>1. ~Waiting(xpumd)'
        BY <2>3 DEF All
      <3>2. \A g \in All : ~Waiting(g)
        BY <2>1, <2>3 DEF Waiting
      <3> QED
        BY <1>5, <3>1, <3>2, ReceivedTaints
    <2> QED
      BY <2>1, <2>2, <2>3, NothingPublished
  <1>6. ASSUME NEW g \in Publishers, OwnChange(g) PROVE PublishInv'
    <2>1. own[g] = "idle" /\ own' = [own EXCEPT ![g] = "publishing"] /\ listener' = listener
          /\ UNCHANGED sliceVars /\ g \in All /\ g # xpumd
      BY <1>6 DEF OwnChange, listenerVars, All
    <2>2. \A h \in All : Holding(h)' <=> Holding(h)
      BY <2>1 DEF Holding, OwnTypes, All
    <2>3. Waiting(g)'
      BY <2>1 DEF Waiting, OwnTypes
    <2> QED
      BY <2>1, <2>2, <2>3, NothingPublished
  <1>7. ASSUME UNCHANGED <<status, own>>, UNCHANGED sliceVars,
               listener' = "publishing" <=> listener = "publishing",
               listener' = "holding" <=> listener = "holding"
        PROVE  PublishInv'
    <2>1. \A g \in All : (Holding(g)' <=> Holding(g)) /\ (Waiting(g)' <=> Waiting(g))
      BY <1>7 DEF Holding, Waiting
    <2> QED
      BY <1>7, <2>1, NothingPublished
  <1>8. CASE Connect \/ ConnectFails \/ Loop \/ ReceiveEOF \/ ReceiveFails
    BY <1>7, <1>8 DEF Connect, ConnectFails, Loop, ReceiveEOF, ReceiveFails
  <1>9. CASE ListenerRespond \/ Broadcast
    BY <1>7, <1>9 DEF ListenerRespond, Broadcast
  <1>10. CASE Cancel \/ NoticeCancel \/ \E s \in Streams : Stream(s)
    BY <1>7, <1>10 DEF Cancel, NoticeCancel, Stream, OpenStream, BuildInitial, SendInitial,
       SendUpdate, CloseStream, listenerVars
  <1>11. CASE UNCHANGED vars
    BY <1>7, <1>11 DEF vars, listenerVars
  <1> QED
    BY <1>1, <1>2, <1>3, <1>4, <1>5, <1>6, <1>8, <1>9, <1>10, <1>11 DEF Next, Listener

LEMMA Invariant == Spec => []IInv
  <1>1. IInv /\ [Next]_vars => IInv'
    <2> SUFFICES ASSUME IInv, [Next]_vars PROVE IInv'
      OBVIOUS
    <2>1. StatusTypes' /\ ListenerTypes' /\ Flags' /\ OwnTypes'
      BY StepStatus, StepListener, StepFlags, StepOwn
    <2>2. (StreamTypes /\ Views /\ FollowInv)'
      BY StepFollow, FollowIs, PTL
    <2>3. TypeOK'
      BY <2>1, <2>2, Types, PTL
    <2>4. StreamInv' /\ PublishInv'
      BY StepStream, StepPublish
    <2> QED
      BY <2>2, <2>3, <2>4 DEF IInv
  <1> QED
    BY Initially, <1>1, PTL DEF Spec

-----------------------------------------------------------------------------
(* Theorems                                                                 *)

\* The published taints are those of the devices whenever nobody is about to publish, unless
\* two snapshots were about to be published at once: whatever xpumd reports and however the
\* goroutines interleave (xpumd.go:249).
THEOREM TaintsPublishedAloneAlways == Spec => []TaintsPublishedAlone
  <1>1. IInv => TaintsPublishedAlone
    BY DEF IInv, PublishInv, TaintsPublishedAlone, Quiet, SliceTaints, Shows, All
  <1> QED
    BY Invariant, <1>1, PTL

\* A stream that has sent all of its channel has sent the last update that was broadcast
\* since it was opened, unless one was skipped: an update that comes while the stream is
\* opened is not lost (resourceHealthPodStatus.go:42 and 122).
THEOREM StreamsFollowAlways == Spec => []StreamsFollow
  <1>1. IInv => StreamsFollow
    BY DEF IInv, FollowInv, Newest, StreamsFollow
  <1> QED
    BY Invariant, <1>1, PTL

\* The listener never reads from a nil stream, whenever the plugin is told to stop and
\* however often connecting fails (xpumd.go:53 and 97).
THEOREM NilStreamNeverUsedAlways == Spec => []NilStreamNeverUsed
  <1>1. IInv => NilStreamNeverUsed
    BY DEF IInv, StreamInv, NilStreamNeverUsed
  <1> QED
    BY Invariant, <1>1, PTL

-----------------------------------------------------------------------------
(* The life of the plugin: the inductive invariant                           *)

\* The servers were started before the endpoint that asks them, and run until it is gone.
HelperInv == main \in {"publish", "probes", "wait", "stopProbes", "stopHelper"} => helperUp

\* A check is told NOT_SERVING by a server that died.
AnswerInv == answer = "NOT_SERVING" => dead # {}

LifecycleInv == LifecycleTypeOK /\ HelperInv /\ AnswerInv

-----------------------------------------------------------------------------
(* That invariant is inductive                                              *)

Stages == {"dirs", "state", "helper", "publish", "probes"}

LEMMA Boots ==
  /\ DOMAIN Follows = Stages
  /\ Follows["dirs"] = "state" /\ Follows["state"] = "helper" /\ Follows["helper"] = "publish"
  /\ Follows["publish"] = "probes" /\ Follows["probes"] = "wait"
  BY DEF Follows, Stages

\* The parts of LifecycleTypeOK.
Places ==
  /\ main \in {"down", "stopProbes", "stopHelper", "wait"} \cup Stages
  /\ dead \subseteq Servers /\ hc \in {"none", "serving", "stopping", "stopped"}
  /\ hc # "none" => main \in {"wait", "stopProbes", "stopHelper"}
  /\ probe \in {"idle", "reg", "dra"}
  /\ probe # "idle" => hc \in {"serving", "stopping"}
  /\ answer \in {"none", "SERVING", "NOT_SERVING", "SERVICE_UNKNOWN"}

Counts == fails \in 0..Threshold /\ faults \in 0..MaxFaults

BusyInv == busy => Up("dra")

LEMMA LifecycleTypes == LifecycleTypeOK <=> Places /\ Counts /\ BusyInv
  BY Boots DEF LifecycleTypeOK, Places, Counts, BusyInv

LEMMA LifecycleInitially == LifecycleInit => LifecycleInv
  <1> SUFFICES ASSUME LifecycleInit PROVE LifecycleInv
    OBVIOUS
  <1>1. Places /\ HelperInv /\ AnswerInv
    BY DEF LifecycleInit, Places, HelperInv, AnswerInv
  <1>2. Counts
    BY LifecycleAssumption DEF LifecycleInit, Counts
  <1>3. BusyInv
    BY DEF LifecycleInit, BusyInv
  <1> QED
    BY <1>1, <1>2, <1>3, LifecycleTypes DEF LifecycleInv

LEMMA StepPlaces == LifecycleInv /\ [LifecycleNext]_lifecycleVars => Places'
  <1> SUFFICES ASSUME Places, [LifecycleNext]_lifecycleVars PROVE Places'
    BY LifecycleTypes DEF LifecycleInv
  <1> USE Boots DEF Places, Stages
  <1>1. CASE Start \/ Boot \/ BootProbes
    BY <1>1 DEF Start, Boot, BootProbes
  <1>2. CASE BootFails \/ StopHelper
    BY <1>2 DEF BootFails, StopHelper, ProcessEnds
  <1>3. CASE TakeSignal \/ StopProbes \/ ProbesStopped
    BY <1>3 DEF TakeSignal, StopProbes, ProbesStopped, AllAnswered
  <1>4. CASE Ask \/ AskUnknown
    BY <1>4 DEF Ask, AskUnknown
  <1>5. CASE CheckReg \/ CheckDra \/ ProbeTimeout
    BY <1>5 DEF CheckReg, CheckDra, ProbeTimeout, NotServing
  <1>6. CASE ClaimCall \/ ClaimDone \/ PortTaken \/ PortFree
    BY <1>6 DEF ClaimCall, ClaimDone, PortTaken, PortFree
  <1>7. CASE KubeletStops \/ PodDeleted
    BY <1>7 DEF KubeletStops, PodDeleted, Signal, ProcessEnds
  <1>8. CASE \E s \in Servers : ServerDies(s)
    BY <1>8 DEF ServerDies
  <1>9. CASE UNCHANGED lifecycleVars
    BY <1>9 DEF lifecycleVars
  <1> QED
    BY <1>1, <1>2, <1>3, <1>4, <1>5, <1>6, <1>7, <1>8, <1>9 DEF LifecycleNext

LEMMA StepCounts == LifecycleInv /\ [LifecycleNext]_lifecycleVars => Counts'
  <1> SUFFICES ASSUME Counts, [LifecycleNext]_lifecycleVars PROVE Counts'
    BY LifecycleTypes DEF LifecycleInv
  <1> USE LifecycleAssumption DEF Counts
  <1>1. CASE Start \/ Boot \/ BootFails \/ BootProbes
    BY <1>1 DEF Start, Boot, BootFails, BootProbes, Fault
  <1>2. CASE TakeSignal \/ StopProbes \/ ProbesStopped \/ StopHelper
    BY <1>2 DEF TakeSignal, StopProbes, ProbesStopped, StopHelper
  <1>3. CASE Ask \/ AskUnknown \/ CheckReg \/ CheckDra \/ ProbeTimeout
    BY <1>3 DEF Ask, AskUnknown, CheckReg, CheckDra, ProbeTimeout, NotServing
  <1>4. CASE ClaimCall \/ ClaimDone \/ PortTaken \/ PortFree
    BY <1>4 DEF ClaimCall, ClaimDone, PortTaken, PortFree, Fault
  <1>5. CASE KubeletStops \/ PodDeleted
    BY <1>5 DEF KubeletStops, PodDeleted, Fault
  <1>6. CASE \E s \in Servers : ServerDies(s)
    BY <1>6 DEF ServerDies, Fault
  <1>7. CASE UNCHANGED lifecycleVars
    BY <1>7 DEF lifecycleVars
  <1> QED
    BY <1>1, <1>2, <1>3, <1>4, <1>5, <1>6, <1>7 DEF LifecycleNext

\* A server that runs is gone only with the process, or by itself.
LEMMA StepBusy == LifecycleInv /\ [LifecycleNext]_lifecycleVars => BusyInv'
  <1> SUFFICES ASSUME BusyInv, [LifecycleNext]_lifecycleVars PROVE BusyInv'
    BY LifecycleTypes DEF LifecycleInv
  <1> USE DEF BusyInv, Up
  <1>1. CASE Start \/ Boot \/ BootProbes
    BY <1>1 DEF Start, Boot, BootProbes
  <1>2. CASE BootFails \/ StopHelper
    BY <1>2 DEF BootFails, StopHelper, ProcessEnds
  <1>3. CASE TakeSignal \/ StopProbes \/ ProbesStopped
    BY <1>3 DEF TakeSignal, StopProbes, ProbesStopped
  <1>4. CASE Ask \/ AskUnknown \/ CheckReg \/ CheckDra \/ ProbeTimeout
    BY <1>4 DEF Ask, AskUnknown, CheckReg, CheckDra, ProbeTimeout
  <1>5. CASE ClaimCall \/ ClaimDone \/ PortTaken \/ PortFree
    BY <1>5 DEF ClaimCall, ClaimDone, PortTaken, PortFree
  <1>6. CASE KubeletStops \/ PodDeleted
    BY <1>6 DEF KubeletStops, PodDeleted, Signal, ProcessEnds
  <1>7. CASE \E s \in Servers : ServerDies(s)
    <2>1. PICK s \in Servers : helperUp' = helperUp /\ dead' = dead \cup {s}
                               /\ busy' = (busy /\ s # "dra")
      BY <1>7 DEF ServerDies
    <2>2. CASE busy' = FALSE
      BY <2>2
    <2>3. CASE busy /\ s # "dra"
      BY <2>1, <2>3
    <2> QED
      BY <2>1, <2>2, <2>3
  <1>8. CASE UNCHANGED lifecycleVars
    BY <1>8 DEF lifecycleVars
  <1> QED
    BY <1>1, <1>2, <1>3, <1>4, <1>5, <1>6, <1>7, <1>8 DEF LifecycleNext

LEMMA StepHelper == LifecycleInv /\ [LifecycleNext]_lifecycleVars => HelperInv'
  <1> SUFFICES ASSUME Places, HelperInv, [LifecycleNext]_lifecycleVars PROVE HelperInv'
    BY LifecycleTypes DEF LifecycleInv
  <1> USE Boots DEF HelperInv, Places, Stages
  <1>1. CASE Start \/ Boot \/ BootProbes
    BY <1>1 DEF Start, Boot, BootProbes
  <1>2. CASE BootFails \/ StopHelper \/ KubeletStops \/ PodDeleted
    BY <1>2 DEF BootFails, StopHelper, KubeletStops, PodDeleted, Signal, ProcessEnds
  <1>3. CASE TakeSignal \/ StopProbes \/ ProbesStopped
    BY <1>3 DEF TakeSignal, StopProbes, ProbesStopped
  <1>4. CASE Ask \/ AskUnknown \/ CheckReg \/ CheckDra \/ ProbeTimeout
    BY <1>4 DEF Ask, AskUnknown, CheckReg, CheckDra, ProbeTimeout
  <1>5. CASE ClaimCall \/ ClaimDone \/ PortTaken \/ PortFree \/ \E s \in Servers : ServerDies(s)
    BY <1>5 DEF ClaimCall, ClaimDone, PortTaken, PortFree, ServerDies
  <1>6. CASE UNCHANGED lifecycleVars
    BY <1>6 DEF lifecycleVars
  <1> QED
    BY <1>1, <1>2, <1>3, <1>4, <1>5, <1>6 DEF LifecycleNext

LEMMA StepAnswer == LifecycleInv /\ [LifecycleNext]_lifecycleVars => AnswerInv'
  <1> SUFFICES ASSUME Places, HelperInv, AnswerInv, [LifecycleNext]_lifecycleVars PROVE AnswerInv'
    BY LifecycleTypes DEF LifecycleInv
  <1> USE DEF AnswerInv
  <1>1. CASE Start \/ Boot \/ BootProbes
    BY <1>1 DEF Start, Boot, BootProbes
  <1>2. CASE BootFails \/ StopHelper \/ KubeletStops \/ PodDeleted
    BY <1>2 DEF BootFails, StopHelper, KubeletStops, PodDeleted, Signal, ProcessEnds
  <1>3. CASE TakeSignal \/ StopProbes \/ ProbesStopped
    BY <1>3 DEF TakeSignal, StopProbes, ProbesStopped
  <1>4. CASE CheckReg \/ CheckDra
    <2>1. helperUp
      BY <1>4 DEF CheckReg, CheckDra, Places, HelperInv
    <2> QED
      BY <1>4, <2>1 DEF CheckReg, CheckDra, NotServing, Up
  <1>5. CASE Ask \/ AskUnknown \/ ProbeTimeout
    BY <1>5 DEF Ask, AskUnknown, ProbeTimeout
  <1>6. CASE ClaimCall \/ ClaimDone \/ PortTaken \/ PortFree \/ \E s \in Servers : ServerDies(s)
    BY <1>6 DEF ClaimCall, ClaimDone, PortTaken, PortFree, ServerDies
  <1>7. CASE UNCHANGED lifecycleVars
    BY <1>7 DEF lifecycleVars
  <1> QED
    BY <1>1, <1>2, <1>3, <1>4, <1>5, <1>6, <1>7 DEF LifecycleNext

-----------------------------------------------------------------------------
(* Theorem of the probes                                                    *)

\* However the start, the shutdown, the probes, signals and the calls that prepare claims
\* overlap, a probe is told NOT_SERVING only when a server of the plugin died (driver.go:111
\* to 140 and 233).
THEOREM NotServingOnlyWhenDeadAlways == LifecycleSpec => []NotServingOnlyWhenDead
  <1>1. LifecycleInv /\ [LifecycleNext]_lifecycleVars => LifecycleInv'
    BY StepPlaces, StepCounts, StepBusy, StepHelper, StepAnswer, Boots
       DEF LifecycleInv, LifecycleTypeOK, Places, Counts, BusyInv, Up
  <1>2. LifecycleInv => NotServingOnlyWhenDead
    BY DEF LifecycleInv, AnswerInv, NotServingOnlyWhenDead
  <1> QED
    BY LifecycleInitially, <1>1, <1>2, PTL DEF LifecycleSpec
=============================================================================
