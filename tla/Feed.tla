-------------------------------- MODULE Feed --------------------------------
(***************************************************************************)
(* The way of the server's frames into the page (App.tsx and the live part *)
(* of store/useScopeStore.ts), on top of the WebSocket client: the fetch   *)
(* of each mount, the greeting and the frames of a connection, the rate at *)
(* which pushed snapshots are taken, the pause, and the setting that local *)
(* storage keeps.  A reload of the page is a new behavior that starts with *)
(* what is stored.                                                         *)
(*                                                                         *)
(* The server numbers its frames; those in EventFrames are events, the     *)
(* others snapshots; 0 is the empty snapshot that the builder starts with. *)
(* The last number stands for every later snapshot: it is sent again and   *)
(* again.                                                                  *)
(*                                                                         *)
(* A connection has two writers: its handler, which writes the greeting    *)
(* that it made before the upgrade, and the pump of the hub's frames.  So  *)
(* the greeting may come before or after any of the frames, and may be     *)
(* newer or older than they are: the builder is ahead of the hub.          *)
(***************************************************************************)
EXTENDS WsClient, Sequences

CONSTANTS
    MaxFrame, EventFrames,
    Interval,      \* the other rates: ticks between the snapshots that are taken
    MaxEvents      \* events the store keeps (300)

ASSUME FeedConstants == /\ MaxFrame \in Nat \ {0} /\ MaxEvents \in Nat \ {0}
                        /\ EventFrames \subseteq 1..(MaxFrame - 1)
                        /\ Interval \subseteq Nat \ {0} /\ Interval # {}

VARIABLES
    latest, sent,  \* last frame of the builder, and of the hub
    queue,         \* per socket: the hub's frames on their way to the browser
    greeting,      \* per socket: the snapshot in its greeting
    ungreeted,     \* the sockets whose greeting is made, but has not arrived
    pushed, bringer,    \* history: the last pushed snapshot that was taken, and the
                   \* socket it came by, 0 once that is not open
    fetch,         \* per mount: Null, Asked, or the snapshot in the answer
    snapshot, events,   \* in the store
    elapsed,       \* since lastUpdateRef, up to the longest interval
    isPaused, refreshRate,
    orphaned       \* history: has the timer of an unmounted client connected it again?

serverVars == <<latest, sent>>
wireVars == <<queue, greeting, ungreeted>>
storeVars == <<snapshot, events, elapsed, pushed>>
settingVars == <<isPaused, refreshRate>>
feedVars == <<serverVars, wireVars, fetch, storeVars, bringer, settingVars, orphaned>>
allVars == <<vars, feedVars>>

Asked == MaxFrame + 1   \* a fetch that the server has not answered
Null == MaxFrame + 2    \* no fetch, no snapshot

LongestInterval == CHOOSE n \in Interval : \A k \in Interval : k <= n
Manual == 0             \* the rate at which no pushed snapshot is taken
Rate == Interval \cup {Manual}

\* The newest snapshot among the first n frames, the empty one before the first.
Newest(n) == CHOOSE k \in 0..n : /\ k \notin EventFrames
                                 /\ \A j \in (k + 1)..n : j \in EventFrames

\* The initial store: local storage may hold any rate.
FeedInit == /\ Init
            /\ latest = 0 /\ sent = 0
            /\ queue = [s \in Socket |-> <<>>] /\ greeting = [s \in Socket |-> 0]
            /\ ungreeted = {}
            /\ fetch = [c \in Mounted |-> Null]
            /\ snapshot = Null /\ events = <<>> /\ elapsed = LongestInterval
            /\ pushed = 0 /\ bringer = 0
            /\ refreshRate \in Rate /\ isPaused = FALSE
            /\ orphaned = FALSE

-----------------------------------------------------------------------------
(* The server                                                              *)

\* The builder takes a frame in; the hub is behind.
Publish == /\ latest < MaxFrame
           /\ latest' = latest + 1
           /\ UNCHANGED <<vars, sent, wireVars, fetch, storeVars, bringer, settingVars,
                          orphaned>>

\* The hub sends it to every registered connection; the last snapshot again and again,
\* to those that have taken it.
Broadcast == \E n \in {sent + 1, MaxFrame} :
    /\ n <= latest /\ sent >= n - 1
    /\ sent' = n
    /\ queue' = [s \in Socket |-> IF socket[s] = "open" /\ (sent < n \/ queue[s] = <<>>)
                                  THEN Append(queue[s], n) ELSE queue[s]]
    /\ UNCHANGED <<vars, latest, greeting, ungreeted, fetch, storeVars, bringer,
                   settingVars, orphaned>>

\* The handler makes the greeting of the builder's latest snapshot, then upgrades.
Greets(s) == /\ socket[s] = "connecting" /\ up /\ s \notin ungreeted
             /\ greeting' = [greeting EXCEPT ![s] = Newest(latest)]
             /\ ungreeted' = ungreeted \cup {s}
             /\ UNCHANGED <<vars, serverVars, queue, fetch, storeVars, bringer,
                            settingVars, orphaned>>

-----------------------------------------------------------------------------
(* The store                                                               *)

\* setSnapshot.
SetSnapshot(n) == snapshot' = IF isPaused THEN snapshot ELSE n

\* addEvent: the oldest goes when there are too many.
AddEvent(n) == events' = IF isPaused THEN events
                         ELSE IF Len(events) < MaxEvents THEN Append(events, n)
                         ELSE Append(Tail(events), n)

-----------------------------------------------------------------------------
(* App                                                                     *)

\* Faulty variant: every push restarts the interval.
TakeRestarting(s, n) ==
    IF n \in EventFrames THEN AddEvent(n) /\ UNCHANGED <<snapshot, elapsed, pushed, bringer>>
    ELSE /\ UNCHANGED events
         /\ elapsed' = IF refreshRate = Manual THEN elapsed ELSE 0
         /\ IF refreshRate = Manual \/ elapsed < refreshRate
            THEN UNCHANGED <<snapshot, pushed, bringer>>
            ELSE SetSnapshot(n) /\ pushed' = n /\ bringer' = s

\* The message handler: a snapshot is taken when the interval has passed since
\* the last one, paused or not, and never in manual mode.
Take(s, n) ==
    IF n \in EventFrames THEN AddEvent(n) /\ UNCHANGED <<snapshot, elapsed, pushed, bringer>>
    ELSE /\ UNCHANGED events
         /\ IF refreshRate = Manual \/ elapsed < refreshRate
            THEN UNCHANGED <<snapshot, elapsed, pushed, bringer>>
            ELSE elapsed' = 0 /\ SetSnapshot(n) /\ pushed' = n /\ bringer' = s

\* A frame of the hub arrives.
Deliver(s) == /\ socket[s] = "open" /\ queue[s] # <<>>
              /\ queue' = [queue EXCEPT ![s] = Tail(@)]
              /\ Take(s, Head(queue[s]))
              /\ UNCHANGED <<vars, serverVars, greeting, ungreeted, fetch, settingVars,
                             orphaned>>

\* The greeting arrives: the handler writes it when the pump has started, after as many
\* of the frames as the pump has written by then.
Greeted(s) == /\ socket[s] = "open" /\ s \in ungreeted
              /\ ungreeted' = ungreeted \ {s}
              /\ Take(s, greeting[s])
              /\ UNCHANGED <<vars, serverVars, queue, greeting, fetch, settingVars, orphaned>>

\* The server answers a mount's fetch with the builder's latest.
Answer(c) == /\ fetch[c] = Asked /\ up
             /\ fetch' = [fetch EXCEPT ![c] = Newest(latest)]
             /\ UNCHANGED <<vars, serverVars, wireVars, storeVars, bringer, settingVars,
                            orphaned>>

\* The answer arrives; nothing cancels a fetch.
FetchArrives(c) == /\ fetch[c] \notin {Null, Asked}
                   /\ SetSnapshot(fetch[c])
                   /\ fetch' = [fetch EXCEPT ![c] = Null]
                   /\ UNCHANGED <<vars, serverVars, wireVars, events, elapsed, pushed, bringer,
                                  settingVars, orphaned>>

\* It is refused or lost: the catch does nothing.
FetchFails(c) == /\ fetch[c] # Null
                 /\ fetch' = [fetch EXCEPT ![c] = Null]
                 /\ UNCHANGED <<vars, serverVars, wireVars, storeVars, bringer,
                                settingVars, orphaned>>

\* A connection that is not open delivers nothing more; one that waits to open keeps
\* its greeting.
Undelivered ==
    /\ queue' = [s \in Socket |-> IF socket'[s] = "open" THEN queue[s] ELSE <<>>]
    /\ ungreeted' = {s \in ungreeted : socket'[s] \in {"connecting", "open"}}
    /\ greeting' = [s \in Socket |-> IF socket'[s] \in {"connecting", "open"}
                                     THEN greeting[s] ELSE 0]
    /\ bringer' = IF \E s \in Socket : s = bringer /\ socket'[s] = "open" THEN bringer ELSE 0

AppMounts == /\ Mount
             /\ fetch' = [fetch EXCEPT ![mounts'] = Asked]
             /\ Undelivered /\ UNCHANGED <<serverVars, storeVars, settingVars, orphaned>>

\* The connection is upgraded and registered with an empty queue: from now on it is
\* sent what the hub broadcasts.
Joins(s) == /\ Open(s) /\ s \in ungreeted
            /\ queue' = [queue EXCEPT ![s] = <<>>]
            /\ UNCHANGED <<serverVars, greeting, ungreeted, fetch, storeVars, bringer,
                           settingVars, orphaned>>

\* The other steps of the client and of the path.
Connection == /\ \/ Unmount \/ PathGoes \/ PathComes
                 \/ \E s \in Socket : SocketEnds(s)
                 \/ \E c \in Mounted : TimerFires(c)
              /\ Undelivered
              /\ orphaned' = (orphaned \/ \E s \in Socket :
                    /\ socket[s] = "closed" /\ socket'[s] = "connecting"
                    /\ ~mounted \/ owner'[s] # mounts)
              /\ UNCHANGED <<serverVars, fetch, storeVars, settingVars>>

-----------------------------------------------------------------------------
(* The user and the clock                                                  *)

\* The rate selector.
SetRefreshRate(r) == /\ r # refreshRate
                     /\ refreshRate' = r
                     /\ UNCHANGED <<vars, serverVars, wireVars, fetch, storeVars, bringer,
                                    isPaused, orphaned>>

\* The pause button.
TogglePause ==
               /\ isPaused' = ~isPaused
               /\ UNCHANGED <<vars, serverVars, wireVars, fetch, storeVars, bringer,
                              refreshRate, orphaned>>

Tick == /\ elapsed < LongestInterval /\ elapsed' = elapsed + 1
        /\ UNCHANGED <<vars, serverVars, wireVars, fetch, snapshot, events, pushed, bringer,
                       settingVars, orphaned>>

FeedNext == \/ Publish \/ Broadcast \/ Tick \/ TogglePause
            \/ AppMounts \/ Connection
            \/ \E s \in Socket : Greets(s) \/ Joins(s) \/ Deliver(s) \/ Greeted(s)
            \/ \E c \in Mounted : Answer(c) \/ FetchArrives(c) \/ FetchFails(c)
            \/ \E r \in Rate : SetRefreshRate(r)

\* The event loop and the clock go on, and the server keeps sending; a request need
\* not be answered.
FeedFairness == /\ \A s \in Socket : /\ WF_allVars(Greets(s)) /\ WF_allVars(Joins(s))
                                     /\ WF_allVars(Greeted(s)) /\ WF_allVars(Deliver(s))
                                     /\ WF_allVars(SocketEnds(s) /\ Connection)
                /\ \A c \in Mounted : WF_allVars(TimerFires(c) /\ Connection)
                /\ WF_allVars(AppMounts) /\ WF_allVars(Tick)
                /\ WF_allVars(Publish) /\ WF_allVars(Broadcast)

FeedSpec == FeedInit /\ [][FeedNext]_allVars /\ FeedFairness

-----------------------------------------------------------------------------
(* Properties                                                              *)

\* A push takes the page back behind an earlier push only where the two writers of one
\* connection explain it: by a frame of the hub that is older than the greeting of its
\* connection, or by the greeting that arrives after a newer frame of the same connection.
\* An event is listed after all older ones, and once.  Neither an old connection nor an
\* old client of App brings in anything, across reconnections, remounts and pauses.
NeverBackwards == [][~orphaned =>
    /\ pushed' < pushed => \E s \in Socket :
          \/ queue[s] # queue'[s] /\ pushed' < greeting[s]
          \/ s \in ungreeted \ ungreeted' /\ pushed' = greeting[s] /\ bringer = s
    /\ events' # events => \A i \in DOMAIN events : events[i] < events'[Len(events')]]_allVars

\* Once the path stays up and left no dead socket behind, the stream is not paused and
\* a rate is chosen, the page catches up with the server and stays with it, however
\* much faster the frames come than they are taken.
CatchesUp ==
    <>[](/\ up /\ mounted /\ ~isPaused /\ refreshRate # Manual
         /\ \A s \in Socket : socket[s] # "dead") => <>[](snapshot = MaxFrame)

\* App.tsx says of a first fetch that fails: WS reconnect will fill in.
FillsIn ==
    <>[](/\ up /\ mounted /\ ~isPaused
         /\ \A s \in Socket : socket[s] # "dead") => <>(snapshot # Null)
=============================================================================
