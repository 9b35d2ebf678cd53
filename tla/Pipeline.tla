------------------------------ MODULE Pipeline ------------------------------
(***************************************************************************)
(* From the collectors to the hub and the disk: the collector's sends, the *)
(* fanout goroutine (cmd/agentscope/main.go), the SnapshotBuilder it shares*)
(* with the HTTP handlers (internal/agg), the Async store with its writer  *)
(* goroutine (internal/storage), and the end of runApp.                    *)
(*                                                                         *)
(* A snapshot is a pointer: the builder, the store's queue and the writer  *)
(* hold the same object, so objects are rows of the tables timeline and    *)
(* series.  An event is its serial number.  One rolling series stands for  *)
(* the three of the code, which Update treats alike; a point of it is the  *)
(* serial number of the snapshot that brought it.                          *)
(***************************************************************************)
EXTENDS Naturals, Sequences

CONSTANTS
    MaxSnaps, MaxEvents,  \* bounds on what the collector makes
    SnapCap, EventCap,    \* capacities of runApp's channels (32, 512)
    QueueCap,             \* capacity of each queue of Async (256)
    SeriesCap,            \* points the builder keeps (60)
    TimelineCap           \* events the builder keeps (300)

ASSUME BoundsAreNat == MaxSnaps \in Nat /\ MaxEvents \in Nat
ASSUME ChannelCaps == /\ SnapCap \in Nat \ {0} /\ EventCap \in Nat \ {0}
                      /\ QueueCap \in Nat \ {0}
ASSUME WindowCaps == SeriesCap \in Nat \ {0} /\ TimelineCap \in Nat \ {0}

Snap == 1..MaxSnaps
Event == 1..MaxEvents
Torn == <<0>>              \* a slice header read while it was being written

VARIABLES
    snaps, evts,        \* how many snapshots and events were made
    snapshots, events,  \* the two channels of runApp
    stage, item,        \* fanout: stage of Stages it is in (0: at select), item
    returned,           \* fanout has returned
    latest,             \* SnapshotBuilder.latest, 0 for the empty snapshot
    seriesBuf, evtBuf,  \* SnapshotBuilder's series and its events
    timeline, series,   \* fields Timeline and CPUSeries of every snapshot
    qSnaps, qEvts,      \* Async.snaps and Async.evts
    stop,               \* Async.stop is closed
    writer, job, copy,  \* Async.loop: where it is, its item, the copied Timeline
    rows, evtRows,      \* what the database holds
    dbClosed, lateWrite,\* the database is closed; it was written to after that
    ctxDone, main,      \* runCtx is cancelled; where runApp stands
    evtSent, snapSent   \* history: what was handed to Hub.Broadcast

producerVars == <<snaps, evts>>
chanVars == <<snapshots, events>>
fanVars == <<stage, item, returned>>
builderVars == <<latest, seriesBuf, evtBuf>>
objVars == <<timeline, series>>
queueVars == <<qSnaps, qEvts>>
writerVars == <<writer, job, copy, rows, evtRows, lateWrite>>
mainVars == <<ctxDone, main, stop, dbClosed>>
sentVars == <<evtSent, snapSent>>
vars == <<producerVars, chanVars, fanVars, builderVars, objVars, queueVars,
          writerVars, mainVars, sentVars>>

\* The last n elements of s.
Window(s, n) == IF Len(s) > n THEN SubSeq(s, Len(s) - n + 1, Len(s)) ELSE s

\* appendCapped and its two siblings: append, then keep the newest cap.
AppendCapped(s, cap, p) == Window(Append(s, p), cap)

Nothing == [kind |-> "none", n |-> 0]
TheSnap(n) == [kind |-> "snapshot", n |-> n]
TheEvent(n) == [kind |-> "event", n |-> n]

Init == /\ snaps = 0 /\ evts = 0
        /\ snapshots = <<>> /\ events = <<>>
        /\ stage = 0 /\ item = Nothing /\ returned = FALSE
        /\ latest = 0 /\ seriesBuf = <<>> /\ evtBuf = <<>>
        /\ timeline = [s \in 0..MaxSnaps |-> <<>>]
        /\ series = [s \in 0..MaxSnaps |-> <<>>]
        /\ qSnaps = <<>> /\ qEvts = <<>>
        /\ stop = FALSE
        /\ writer = "select" /\ job = Nothing /\ copy = <<>>
        /\ rows = <<>> /\ evtRows = <<>>
        /\ dbClosed = FALSE /\ lateWrite = FALSE
        /\ ctxDone = FALSE /\ main = "serving"
        /\ evtSent = <<>> /\ snapSent = <<>>

-----------------------------------------------------------------------------
(* The collector: sends that give up when the channel is full.  It may go  *)
(* on after the context is cancelled (the eBPF one stops at its cleanup).  *)

SendEvent == /\ evts < MaxEvents /\ main # "exit"
             /\ evts' = evts + 1
             /\ events' = IF Len(events) < EventCap
                          THEN Append(events, evts + 1) ELSE events
             /\ UNCHANGED <<snaps, snapshots, fanVars, builderVars, objVars>>
             /\ UNCHANGED <<queueVars, writerVars, mainVars, sentVars>>

\* The proc engine puts the events it made into Timeline; the others nothing.
SendSnapshot == /\ snaps < MaxSnaps /\ main # "exit"
                /\ snaps' = snaps + 1
                /\ \E own \in {<<>>, Window([i \in 1..evts |-> i], TimelineCap)} :
                       timeline' = [timeline EXCEPT ![snaps + 1] = own]
                /\ snapshots' = IF Len(snapshots) < SnapCap
                                THEN Append(snapshots, snaps + 1) ELSE snapshots
                /\ UNCHANGED <<evts, events, fanVars, builderVars, series>>
                /\ UNCHANGED <<queueVars, writerVars, mainVars, sentVars>>

-----------------------------------------------------------------------------
(* fanout                                                                  *)

\* Faulty variant: the frame leaves before the builder has the item.
StagesHubFirst == <<"hub", "builder", "store">>

\* What fanout does with an item, in order.
Stages == <<"builder", "store", "hub">>

AtSelect == stage = 0 /\ ~returned
In(s) == stage # 0 /\ Stages[stage] = s
Advance == /\ stage' = IF stage = Len(Stages) THEN 0 ELSE stage + 1
           /\ UNCHANGED <<item, returned>>

TakeSnapshot == /\ AtSelect /\ snapshots # <<>>
                /\ stage' = 1 /\ item' = TheSnap(Head(snapshots))
                /\ snapshots' = Tail(snapshots)
                /\ UNCHANGED <<events, returned, producerVars, builderVars>>
                /\ UNCHANGED <<objVars, queueVars, writerVars, mainVars, sentVars>>

TakeEvent == /\ AtSelect /\ events # <<>>
             /\ stage' = 1 /\ item' = TheEvent(Head(events))
             /\ events' = Tail(events)
             /\ UNCHANGED <<snapshots, returned, producerVars, builderVars>>
             /\ UNCHANGED <<objVars, queueVars, writerVars, mainVars, sentVars>>

FanoutReturns == /\ AtSelect /\ ctxDone
                 /\ returned' = TRUE
                 /\ UNCHANGED <<stage, item, producerVars, chanVars, builderVars>>
                 /\ UNCHANGED <<objVars, queueVars, writerVars, mainVars, sentVars>>

\* Faulty variant: Update keeps the Timeline the collector brought.
UpdateKeepsTimeline ==
    /\ In("builder") /\ item.kind = "snapshot"
    /\ seriesBuf' = AppendCapped(seriesBuf, SeriesCap, item.n)
    /\ latest' = item.n
    /\ series' = [series EXCEPT ![item.n] = seriesBuf']
    /\ Advance
    /\ UNCHANGED <<evtBuf, timeline, producerVars, chanVars, queueVars>>
    /\ UNCHANGED <<writerVars, mainVars, sentVars>>

\* SnapshotBuilder.Update, under the builder's lock.
Update == /\ In("builder") /\ item.kind = "snapshot"
          /\ seriesBuf' = AppendCapped(seriesBuf, SeriesCap, item.n)
          /\ latest' = item.n
          /\ series' = [series EXCEPT ![item.n] = seriesBuf']
          /\ timeline' = [timeline EXCEPT ![item.n] = evtBuf]
          /\ Advance
          /\ UNCHANGED <<evtBuf, producerVars, chanVars, queueVars>>
          /\ UNCHANGED <<writerVars, mainVars, sentVars>>

\* SnapshotBuilder.AddEvent, under the same lock: the latest snapshot, which
\* the store's queue and its writer may hold as well, gets a new Timeline.
AddEvent == /\ In("builder") /\ item.kind = "event"
            /\ evtBuf' = AppendCapped(evtBuf, TimelineCap, item.n)
            /\ timeline' = [timeline EXCEPT ![latest] = evtBuf']
            /\ Advance
            /\ UNCHANGED <<latest, seriesBuf, series, producerVars, chanVars>>
            /\ UNCHANGED <<queueVars, writerVars, mainVars, sentVars>>

\* Faulty variant: fanout waits for room in the store's queue.
RecordWaits ==
    /\ In("store")
    /\ \/ /\ item.kind = "snapshot" /\ Len(qSnaps) < QueueCap
          /\ qSnaps' = Append(qSnaps, item.n) /\ UNCHANGED qEvts
       \/ /\ item.kind = "event" /\ Len(qEvts) < QueueCap
          /\ qEvts' = Append(qEvts, item.n) /\ UNCHANGED qSnaps
    /\ Advance
    /\ UNCHANGED <<producerVars, chanVars, builderVars, objVars>>
    /\ UNCHANGED <<writerVars, mainVars, sentVars>>

\* Faulty variant: a snapshot the store has no room for is not broadcast.
RecordDropSkips ==
    /\ In("store")
    /\ LET lost == item.kind = "snapshot" /\ Len(qSnaps) = QueueCap IN
       /\ stage' = IF lost THEN 0 ELSE stage + 1
       /\ qSnaps' = IF lost \/ item.kind # "snapshot" THEN qSnaps
                    ELSE Append(qSnaps, item.n)
       /\ qEvts' = IF item.kind # "event" \/ Len(qEvts) = QueueCap THEN qEvts
                   ELSE Append(qEvts, item.n)
    /\ UNCHANGED <<item, returned, producerVars, chanVars, builderVars, objVars>>
    /\ UNCHANGED <<writerVars, mainVars, sentVars>>

\* Async.RecordSnapshot and Async.RecordEvent: queue the item, or drop it.
Record == /\ In("store")
          /\ IF item.kind = "snapshot"
             THEN /\ qSnaps' = IF Len(qSnaps) < QueueCap
                               THEN Append(qSnaps, item.n) ELSE qSnaps
                  /\ UNCHANGED qEvts
             ELSE /\ qEvts' = IF Len(qEvts) < QueueCap
                              THEN Append(qEvts, item.n) ELSE qEvts
                  /\ UNCHANGED qSnaps
          /\ Advance
          /\ UNCHANGED <<producerVars, chanVars, builderVars, objVars>>
          /\ UNCHANGED <<writerVars, mainVars, sentVars>>

\* Marshal and Hub.Broadcast: the frame is the snapshot as it is now.
Publish == /\ In("hub")
           /\ IF item.kind = "snapshot"
              THEN /\ snapSent' = Append(snapSent,
                                         [n |-> item.n,
                                          timeline |-> timeline[item.n],
                                          series |-> series[item.n],
                                          after |-> Len(evtSent)])
                   /\ UNCHANGED evtSent
              ELSE evtSent' = Append(evtSent, item.n) /\ UNCHANGED snapSent
           /\ Advance
           /\ UNCHANGED <<producerVars, chanVars, builderVars, objVars>>
           /\ UNCHANGED <<queueVars, writerVars, mainVars>>

-----------------------------------------------------------------------------
(* Async.loop and the database behind it                                   *)

writerRest == <<producerVars, chanVars, fanVars, builderVars, objVars, mainVars,
                sentVars>>

WriterStops == /\ writer = "select" /\ stop
               /\ writer' = "done"
               /\ UNCHANGED <<job, copy, rows, evtRows, lateWrite, queueVars>>
               /\ UNCHANGED writerRest

\* A snapshot is taken and, within 1.5 s of the last one, skipped;
\* otherwise *snap is being copied, without the builder's lock.
WriterTakesSnap == /\ writer = "select" /\ qSnaps # <<>>
                   /\ qSnaps' = Tail(qSnaps)
                   /\ \/ UNCHANGED <<writer, job, copy>>
                      \/ /\ writer' = "copy" /\ job' = TheSnap(Head(qSnaps))
                         /\ copy' = timeline[Head(qSnaps)]
                   /\ UNCHANGED <<qEvts, rows, evtRows, lateWrite, writerRest>>

WriterTakesEvent == /\ writer = "select" /\ qEvts # <<>>
                    /\ qEvts' = Tail(qEvts)
                    /\ writer' = "insert" /\ job' = TheEvent(Head(qEvts))
                    /\ UNCHANGED <<qSnaps, copy, rows, evtRows, lateWrite, writerRest>>

\* snapCopy.Timeline = nil.
Strip(t) == <<>>

\* The copy ends; had AddEvent written the field meanwhile, it is torn.
WriterCopied == /\ writer = "copy"
                /\ copy' = Strip(IF timeline[job.n] = copy THEN copy ELSE Torn)
                /\ writer' = "insert"
                /\ UNCHANGED <<job, rows, evtRows, lateWrite, queueVars, writerRest>>

\* The INSERT is executed; a failure is logged and the row is not there.
WriterInserts == /\ writer = "insert"
                 /\ \/ UNCHANGED <<rows, evtRows>>
                    \/ /\ job.kind = "snapshot"
                       /\ rows' = Append(rows, [n |-> job.n, timeline |-> copy])
                       /\ UNCHANGED evtRows
                    \/ /\ job.kind = "event"
                       /\ evtRows' = Append(evtRows, job.n) /\ UNCHANGED rows
                 /\ lateWrite' = (lateWrite \/ dbClosed)
                 /\ writer' = "select" /\ job' = Nothing /\ copy' = <<>>
                 /\ UNCHANGED <<queueVars, writerRest>>

-----------------------------------------------------------------------------
(* runApp                                                                  *)

mainRest == <<producerVars, chanVars, fanVars, builderVars, objVars, queueVars,
              writerVars, sentVars>>

\* SIGINT or SIGTERM.
Signal == /\ ~ctxDone /\ ctxDone' = TRUE
          /\ UNCHANGED <<main, stop, dbClosed, mainRest>>

\* Faulty variant: runApp waits for fanout without cancelling its context.
ServeEndsOnly == /\ main = "serving"
                 /\ main' = "wait"
                 /\ UNCHANGED <<ctxDone, stop, dbClosed, mainRest>>

\* Start returns: Shutdown has ended (it waits ShutdownTimeout at most), or
\* the listener failed; then runCancel.
ServeEnds == /\ main = "serving"
             /\ ctxDone' = TRUE
             /\ main' = "wait"
             /\ UNCHANGED <<stop, dbClosed, mainRest>>

\* wg.Wait returns; the deferred store.Close begins with close(a.stop).
StopStore == /\ main = "wait" /\ returned
             /\ stop' = TRUE
             /\ main' = "closing"
             /\ UNCHANGED <<ctxDone, dbClosed, mainRest>>

\* Faulty variant: Close does not wait for the writer.
CloseAtOnce == /\ main = "closing"
               /\ dbClosed' = TRUE
               /\ main' = "exit"
               /\ UNCHANGED <<ctxDone, stop, mainRest>>

\* The writer is done: the database is closed and runApp returns.
CloseStore == /\ main = "closing" /\ writer = "done"
              /\ dbClosed' = TRUE
              /\ main' = "exit"
              /\ UNCHANGED <<ctxDone, stop, mainRest>>

-----------------------------------------------------------------------------
FanoutStep == \/ TakeSnapshot \/ TakeEvent \/ FanoutReturns
              \/ Update \/ AddEvent \/ Record \/ Publish
WriterStep == \/ WriterStops \/ WriterTakesSnap \/ WriterTakesEvent
              \/ WriterCopied \/ WriterInserts
Ending == StopStore \/ CloseStore

Next == \/ SendEvent \/ SendSnapshot \/ FanoutStep \/ WriterStep
        \/ Signal \/ ServeEnds \/ Ending

Spec == Init /\ [][Next]_vars

\* fanout runs, and its select picks at random among the cases that are
\* ready; nothing is assumed of the disk or of runApp.
FanoutFair == /\ WF_vars(FanoutStep)
              /\ SF_vars(TakeSnapshot) /\ SF_vars(TakeEvent) /\ SF_vars(FanoutReturns)

\* What Terminates needs besides: the writer runs as well (a statement waits 5 s
\* at most for the database's lock), so does runApp, and Start returns once its
\* context is cancelled.
EndingFair == /\ WF_vars(WriterStep) /\ SF_vars(WriterStops)
              /\ WF_vars(Ending)
              /\ WF_vars(ctxDone /\ ServeEnds)

FairSpec == Spec /\ FanoutFair

-----------------------------------------------------------------------------
(* Properties                                                              *)

Item == [kind : {"none", "snapshot", "event"}, n : Nat]
Frame == [n : Snap, timeline : Seq(Event), series : Seq(Snap), after : Nat]
Row == [n : Snap, timeline : Seq(Event \cup {0})]

\* The types of the variables, with the capacities of the channels.
TypeOK == /\ snaps \in 0..MaxSnaps /\ evts \in 0..MaxEvents
          /\ snapshots \in Seq(Snap) /\ Len(snapshots) <= SnapCap
          /\ events \in Seq(Event) /\ Len(events) <= EventCap
          /\ stage \in 0..3 /\ item \in Item /\ returned \in BOOLEAN
          /\ latest \in 0..MaxSnaps
          /\ seriesBuf \in Seq(Snap) /\ evtBuf \in Seq(Event)
          /\ timeline \in [0..MaxSnaps -> Seq(Event)]
          /\ series \in [0..MaxSnaps -> Seq(Snap)]
          /\ qSnaps \in Seq(Snap) /\ Len(qSnaps) <= QueueCap
          /\ qEvts \in Seq(Event) /\ Len(qEvts) <= QueueCap
          /\ writer \in {"select", "copy", "insert", "done"}
          /\ job \in Item /\ copy \in Seq(Event \cup {0})
          /\ rows \in Seq(Row) /\ evtRows \in Seq(Event)
          /\ {stop, dbClosed, lateWrite, ctxDone} \subseteq BOOLEAN
          /\ main \in {"serving", "wait", "closing", "exit"}
          /\ evtSent \in Seq(Event) /\ snapSent \in Seq(Frame)

\* Every snapshot frame agrees with the frames before it in the stream: its
\* Timeline is the newest events sent so far and its series the newest
\* snapshots, this one included.  That is what lets a browser which missed
\* events (a greeting older than its registration) catch up on the next one.
FramesAgree ==
    \A i \in 1..Len(snapSent) :
        /\ snapSent[i].timeline = Window(SubSeq(evtSent, 1, snapSent[i].after), TimelineCap)
        /\ snapSent[i].series = Window([j \in 1..i |-> snapSent[j].n], SeriesCap)

\* A handler that calls Latest never gets less than was broadcast: the
\* snapshot's Timeline ends with the last event sent, or with the one that
\* fanout is about to send, and it is the last snapshot sent, or the next.
Under(kind) == IF stage > 1 /\ item.kind = kind THEN <<item.n>> ELSE <<>>
LatestCoversSent ==
    /\ timeline[latest] = Window(evtSent \o Under("event"), TimelineCap)
    /\ latest = IF Under("snapshot") # <<>> THEN item.n
                ELSE IF snapSent = <<>> THEN 0 ELSE snapSent[Len(snapSent)].n

\* AddEvent may write the Timeline of a snapshot while the writer copies it
\* without the lock; no row of the database has anything of that field.
RowsAreStripped == \A i \in 1..Len(rows) : rows[i].timeline = <<>>

\* The database is not written to after Close, whatever was still queued.
NoLateWrite == ~lateWrite

\* docs/FAQ.md (Asynchronous Ingestion): a disk that never finishes a write
\* does not keep fanout from broadcasting what it took.
DiskNeverBlocks == (stage # 0) ~> (stage = 0)

\* Everything that got into a channel is broadcast, unless the process ends:
\* neither channel starves the other at fanout's select, and no item is lost
\* between the channel and the hub, where the store drops it.
AllIsBroadcast ==
    /\ \A e \in Event : (\E i \in 1..Len(events) : events[i] = e)
                            ~> (ctxDone \/ \E i \in 1..Len(evtSent) : evtSent[i] = e)
    /\ \A n \in Snap : (\E i \in 1..Len(snapshots) : snapshots[i] = n)
                            ~> (ctxDone \/ \E i \in 1..Len(snapSent) : snapSent[i].n = n)

\* A signal, or the failure of the listener, ends the process, if the writer
\* and runApp go on.
Terminates == EndingFair => ((ctxDone \/ main # "serving") ~> (main = "exit"))
=============================================================================
