------------------------------ MODULE WsClient ------------------------------
(***************************************************************************)
(* The browser's WebSocket client (ws/client.ts) as App.tsx mounts it: a   *)
(* client object per mount, its sockets, its reconnect timers and the      *)
(* connection status in the store.  Every handler is one task.  The delay  *)
(* of a timer is left out, and of reconnectAttempts whether it is 0.       *)
(*                                                                         *)
(* The path to the server comes and goes.  When it goes, an open socket    *)
(* breaks, or it goes dead: no close reaches the browser.                  *)
(***************************************************************************)
EXTENDS Naturals, FiniteSets

CONSTANTS
    Socket,
    MaxMounts      \* mounts of App: one, more in development

ASSUME ClientConstants == MaxMounts \in Nat \ {0} /\ 0 \notin Socket

VARIABLES
    up,            \* does the path to the server work?
    socket, owner, \* the state of a socket, and its client
    mounts, mounted,    \* clients created so far; is the last one mounted?
    ws,            \* per client: its socket, 0 for null
    retrying,      \* reconnectAttempts # 0
    intentional,   \* intentionalDisconnect
    timers,        \* reconnect timers that are set
    connection     \* the status in the store

clientVars == <<ws, retrying, intentional, timers>>
vars == <<up, socket, owner, mounts, mounted, clientVars, connection>>

Mounted == 1..MaxMounts

Init == /\ up \in BOOLEAN
        /\ socket = [s \in Socket |-> "closed"] /\ owner = [s \in Socket |-> 1]
        /\ mounts = 0 /\ mounted = FALSE
        /\ ws = [c \in Mounted |-> 0] /\ retrying = [c \in Mounted |-> FALSE]
        /\ intentional = [c \in Mounted |-> FALSE] /\ timers = [c \in Mounted |-> 0]
        /\ connection = "connecting"

\* Faulty variant: connect does not report the status.
ConnectQuietly(c) ==
    \E s \in Socket :
        /\ socket[s] = "closed" /\ \A d \in Mounted : ws[d] # s
        /\ socket' = [socket EXCEPT ![s] = "connecting"] /\ owner' = [owner EXCEPT ![s] = c]
        /\ ws' = [ws EXCEPT ![c] = s]
        /\ intentional' = [intentional EXCEPT ![c] = FALSE]
        /\ UNCHANGED connection

\* connect: a new socket replaces the client's.
Connect(c) ==
    \E s \in Socket :
        /\ socket[s] = "closed" /\ \A d \in Mounted : ws[d] # s
        /\ socket' = [socket EXCEPT ![s] = "connecting"] /\ owner' = [owner EXCEPT ![s] = c]
        /\ ws' = [ws EXCEPT ![c] = s]
        /\ intentional' = [intentional EXCEPT ![c] = FALSE]
        /\ connection' = IF retrying[c] THEN "reconnecting" ELSE "connecting"

\* WebSocket.close.
Closing(s) == IF socket[s] \in {"connecting", "open", "dead"} THEN "closing" ELSE socket[s]

\* The effect of App: a new client connects.
Mount == /\ ~mounted /\ mounts < MaxMounts
         /\ mounts' = mounts + 1 /\ mounted' = TRUE
         /\ Connect(mounts')
         /\ UNCHANGED <<up, retrying, timers>>

\* Its cleanup: disconnect.
Unmount == /\ mounted /\ mounted' = FALSE
           /\ LET s == ws[mounts] IN
              /\ intentional' = [intentional EXCEPT ![mounts] = TRUE]
              /\ ws' = [ws EXCEPT ![mounts] = 0]
              /\ socket' = IF s = 0 THEN socket ELSE [socket EXCEPT ![s] = Closing(s)]
           /\ UNCHANGED <<up, owner, mounts, retrying, timers, connection>>

Open(s) == /\ socket[s] = "connecting" /\ up
           /\ socket' = [socket EXCEPT ![s] = "open"]
           /\ connection' = "connected"
           /\ retrying' = [retrying EXCEPT ![owner[s]] = FALSE]
           /\ UNCHANGED <<up, owner, mounts, mounted, ws, intentional, timers>>

\* Has s ended?  A socket that cannot connect fails, one that is closed ends
\* whether or not the server answers.
Ended(s) == \/ socket[s] = "connecting" /\ ~up
            \/ socket[s] \in {"broken", "closing"}

\* onerror closes the socket that the client has by now.
ErrorCloses(s) == LET t == ws[owner[s]] IN
                  [socket EXCEPT ![s] = "closed",
                                 ![IF t \in {0, s} THEN s ELSE t] =
                                     IF t \in {0, s} THEN "closed" ELSE Closing(t)]

\* Faulty variant: an error schedules a reconnect of its own.
SocketEndsTwice(s) ==
    /\ Ended(s)
    /\ \E error \in BOOLEAN :
         /\ socket' = IF error THEN ErrorCloses(s) ELSE [socket EXCEPT ![s] = "closed"]
         /\ IF intentional[owner[s]]
            THEN connection' = "offline" /\ UNCHANGED <<timers, retrying>>
            ELSE /\ timers' = [timers EXCEPT ![owner[s]] = @ + IF error THEN 2 ELSE 1]
                 /\ retrying' = [retrying EXCEPT ![owner[s]] = TRUE]
                 /\ UNCHANGED connection
    /\ UNCHANGED <<up, owner, mounts, mounted, ws, intentional>>

\* Faulty variant: no second attempt while reconnecting.
SocketEndsOnce(s) ==
    /\ Ended(s)
    /\ \E error \in BOOLEAN :
         socket' = IF error THEN ErrorCloses(s) ELSE [socket EXCEPT ![s] = "closed"]
    /\ IF intentional[owner[s]] \/ retrying[owner[s]]
       THEN connection' = "offline" /\ UNCHANGED <<timers, retrying>>
       ELSE /\ timers' = [timers EXCEPT ![owner[s]] = @ + 1]
            /\ retrying' = [retrying EXCEPT ![owner[s]] = TRUE]
            /\ UNCHANGED connection
    /\ UNCHANGED <<up, owner, mounts, mounted, ws, intentional>>

\* onclose, after onerror where the socket failed: scheduleReconnect, or offline.
SocketEnds(s) ==
    /\ Ended(s)
    /\ \E error \in BOOLEAN :
         socket' = IF error THEN ErrorCloses(s) ELSE [socket EXCEPT ![s] = "closed"]
    /\ IF intentional[owner[s]]
       THEN connection' = "offline" /\ UNCHANGED <<timers, retrying>>
       ELSE /\ timers' = [timers EXCEPT ![owner[s]] = @ + 1]
            /\ retrying' = [retrying EXCEPT ![owner[s]] = TRUE]
            /\ UNCHANGED connection
    /\ UNCHANGED <<up, owner, mounts, mounted, ws, intentional>>

\* The timer of scheduleReconnect; disconnect does not clear it.
TimerFires(c) == /\ timers[c] > 0 /\ timers' = [timers EXCEPT ![c] = @ - 1]
                 /\ Connect(c)
                 /\ UNCHANGED <<up, mounts, mounted, retrying>>

PathGoes == /\ up /\ up' = FALSE
            /\ \E end \in {"broken", "dead"} :
                 socket' = [s \in Socket |-> IF socket[s] = "open" THEN end ELSE socket[s]]
            /\ UNCHANGED <<owner, mounts, mounted, clientVars, connection>>

PathComes == /\ ~up /\ up' = TRUE
             /\ UNCHANGED <<socket, owner, mounts, mounted, clientVars, connection>>

Browser == Mount \/ \E s \in Socket : Open(s) \/ SocketEnds(s)
Timers == \E c \in Mounted : TimerFires(c)

Next == Browser \/ Timers \/ Unmount \/ PathGoes \/ PathComes

\* The event loop delivers what has happened and lets timers fire.
Fairness == /\ \A s \in Socket : WF_vars(Open(s)) /\ WF_vars(SocketEnds(s))
            /\ \A c \in Mounted : WF_vars(TimerFires(c))
            /\ WF_vars(Mount)

Spec == Init /\ [][Next]_vars /\ Fairness

-----------------------------------------------------------------------------
(* Properties                                                              *)

\* The types of the variables; a client has at most one timer set.
TypeOK == /\ up \in BOOLEAN /\ mounts \in 0..MaxMounts /\ mounted \in BOOLEAN
          /\ socket \in [Socket -> {"connecting", "open", "dead", "broken", "closing", "closed"}]
          /\ owner \in [Socket -> Mounted] /\ ws \in [Mounted -> Socket \cup {0}]
          /\ retrying \in [Mounted -> BOOLEAN] /\ intentional \in [Mounted -> BOOLEAN]
          /\ timers \in [Mounted -> {0, 1}]
          /\ connection \in {"connecting", "connected", "reconnecting", "offline"}

Live(c) == {s \in Socket : owner[s] = c /\ socket[s] \in {"connecting", "open", "dead"}}

\* A client never has two connections, nor one and a timer for another: no event
\* of the feed is taken twice.
OneConnection == \A c \in Mounted : Cardinality(Live(c)) + timers[c] <= 1

\* The client of a mounted App is connected, or about to hear of the end of its
\* socket, or about to try again.
NeverGivesUp == mounted =>
    \/ timers[mounts] > 0
    \/ \E s \in Socket : owner[s] = mounts /\ socket[s] # "closed"

\* The status says connected only of a socket that opened, or until the timer set
\* when that ended fires.
StatusTrue == (connection = "connected") =>
    \/ \E s \in Socket : socket[s] \in {"open", "dead", "broken", "closing"}
    \/ \E c \in Mounted : timers[c] > 0

\* Once the path to the server stays up, and unless it left a dead socket, the client
\* of a mounted App gets and stays connected; one that was never mounted before says so.
Reconnects ==
    <>[](up /\ mounted /\ \A s \in Socket : socket[s] # "dead") =>
        <>[]( /\ \E s \in Socket : owner[s] = mounts /\ socket[s] = "open"
              /\ (mounts = 1 => connection = "connected"))

\* frontend/README.md: the client monitors the heartbeat, so that it notices when
\* its connection is lost.
LossNoticed == \A s \in Socket : (socket[s] = "dead") ~> (socket[s] # "dead")
=============================================================================
