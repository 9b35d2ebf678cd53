--------------------------------- MODULE Hub ---------------------------------
(***************************************************************************)
(* The WebSocket hub (internal/hub): the Run goroutine, the ServeWS        *)
(* handler and the writePump goroutine of every connection, and the        *)
(* goroutines that call Broadcast (fanout and heartbeat).                  *)
(*                                                                         *)
(* A client is one connection: it arrives once and its Client value is     *)
(* never reused.  A frame is the serial number of the Broadcast call that  *)
(* made it.  Time is not modelled: a timeout may fire whenever the call it *)
(* guards has not completed (Starve says whether a live hub may be late).  *)
(***************************************************************************)
EXTENDS Naturals, Sequences, FiniteSets

CONSTANTS
    Client,        \* the connections
    Max,           \* Hub.max, after NewHub's default
    BroadcastCap,  \* capacity of Hub.broadcast (256 in the code)
    SendCap,       \* capacity of Client.send (64 in the code)
    MaxFrames,     \* bound on the number of Broadcast calls
    Starve         \* may a running hub keep a handler waiting for 2 s?

ASSUME ClientFinite == IsFiniteSet(Client)
ASSUME CapsPositive == /\ Max \in Nat \ {0}
                       /\ BroadcastCap \in Nat \ {0}
                       /\ SendCap \in Nat \ {0}
ASSUME BoundsOK == MaxFrames \in Nat /\ Starve \in BOOLEAN

VARIABLES
    broadcast,  \* Hub.broadcast, a buffered channel
    issued,     \* how many Broadcast calls were made
    clients,    \* Hub.clients
    count,      \* Hub.count, what ClientCount returns
    todo,       \* clients the broadcast loop of Run has still to visit
    ctxDone,    \* the context of Run is cancelled
    hubDone,    \* Run has returned (closeAll has run, Hub.done is closed)
    send,       \* send[c]: buffered content of Client.send
    closed,     \* closed[c]: Client.send is closed
    panicked,   \* a closed channel was closed again or sent to
    handler,    \* handler[c]: where handleWS/ServeWS of c stands
    pump,       \* pump[c]: where writePump of c stands
    held,       \* held[c]: the frame writePump has taken, <<>> or <<f>>
    connOpen,   \* connOpen[c]: the WebSocket is usable
    greeted,    \* greeted[c]: greet frames written (hello, then snapshot)
    got,        \* got[c]: broadcast frames written to the socket, in order
    log,        \* history: the frames Run has taken from broadcast
    from        \* history: Len(log) when Run received c from register

hubVars == <<broadcast, issued, clients, count, todo, ctxDone, hubDone>>
chanVars == <<send, closed, panicked>>
connVars == <<handler, pump, held, connOpen, greeted, got>>
histVars == <<log, from>>
vars == <<hubVars, chanVars, connVars, histVars>>

Init == /\ broadcast = <<>> /\ issued = 0
        /\ clients = {} /\ count = 0 /\ todo = {}
        /\ ctxDone = FALSE /\ hubDone = FALSE
        /\ send = [c \in Client |-> <<>>]
        /\ closed = [c \in Client |-> FALSE]
        /\ panicked = FALSE
        /\ handler = [c \in Client |-> "new"]
        /\ pump = [c \in Client |-> "none"]
        /\ held = [c \in Client |-> <<>>]
        /\ connOpen = [c \in Client |-> FALSE]
        /\ greeted = [c \in Client |-> 0]
        /\ got = [c \in Client |-> <<>>]
        /\ log = <<>> /\ from = [c \in Client |-> 0]

-----------------------------------------------------------------------------
(* The Run goroutine                                                       *)

AtSelect == ~hubDone /\ todo = {}

\* Go's close(ch) on the send channels of S: closing twice panics.
CloseSend(S) == /\ closed' = [c \in Client |-> closed[c] \/ c \in S]
                /\ panicked' = (panicked \/ \E c \in S : closed[c])

\* Faulty variant: drop without the membership test.
DropAlways(c) == /\ clients' = clients \ {c}
                 /\ CloseSend({c})
                 /\ count' = Cardinality(clients')

\* drop: a client that is not registered is left alone.
Drop(c) == IF c \in clients
           THEN /\ clients' = clients \ {c}
                /\ CloseSend({c})
                /\ count' = Cardinality(clients')
           ELSE UNCHANGED <<clients, closed, panicked, count>>

\* Faulty variant: the limit is off by one.
AdmitOneMore(c) == IF Cardinality(clients) > Max
                   THEN CloseSend({c}) /\ UNCHANGED <<clients, count>>
                   ELSE /\ clients' = clients \cup {c}
                        /\ count' = Cardinality(clients')
                        /\ UNCHANGED <<closed, panicked>>

\* The register case of Run's select: refuse by closing send, or add.
Admit(c) == IF Cardinality(clients) >= Max
            THEN CloseSend({c}) /\ UNCHANGED <<clients, count>>
            ELSE /\ clients' = clients \cup {c}
                 /\ count' = Cardinality(clients')
                 /\ UNCHANGED <<closed, panicked>>

\* The broadcast case: take one frame and start the loop over the clients.
HubTake == /\ AtSelect
           /\ broadcast # <<>>
           /\ log' = Append(log, Head(broadcast))
           /\ broadcast' = Tail(broadcast)
           /\ todo' = clients
           /\ UNCHANGED <<issued, clients, count, ctxDone, hubDone, from>>
           /\ UNCHANGED <<chanVars, connVars>>

\* Faulty variant: a slow client skips the frame instead of being dropped.
HubSendOrSkip(c) == /\ c \in todo
                    /\ todo' = todo \ {c}
                    /\ send' = IF Len(send[c]) < SendCap
                               THEN [send EXCEPT ![c] = Append(@, log[Len(log)])]
                               ELSE send
                    /\ UNCHANGED <<broadcast, issued, clients, count, ctxDone>>
                    /\ UNCHANGED <<hubDone, closed, panicked, connVars, histVars>>

\* One iteration of the loop: a non-blocking send, or drop the slow client.
HubSend(c) == /\ c \in todo
              /\ todo' = todo \ {c}
              /\ IF closed[c] \/ Len(send[c]) < SendCap
                 THEN /\ send' = [send EXCEPT ![c] = Append(@, log[Len(log)])]
                      /\ panicked' = (panicked \/ closed[c])
                      /\ UNCHANGED <<clients, count, closed>>
                 ELSE Drop(c) /\ UNCHANGED send
              /\ UNCHANGED <<broadcast, issued, ctxDone, hubDone>>
              /\ UNCHANGED <<connVars, histVars>>

\* ctx.Done is seen: closeAll runs and Run returns.
HubExit == /\ AtSelect /\ ctxDone
           /\ CloseSend(clients)
           /\ clients' = {} /\ count' = 0
           /\ hubDone' = TRUE
           /\ UNCHANGED <<broadcast, issued, todo, ctxDone, send>>
           /\ UNCHANGED <<connVars, histVars>>

Cancel == /\ ~ctxDone /\ ctxDone' = TRUE
          /\ UNCHANGED <<broadcast, issued, clients, count, todo, hubDone>>
          /\ UNCHANGED <<chanVars, connVars, histVars>>

\* Broadcast, from any goroutine: enqueue, or lose the frame when full.
Broadcast == /\ issued < MaxFrames
             /\ issued' = issued + 1
             /\ broadcast' = IF Len(broadcast) < BroadcastCap
                             THEN Append(broadcast, issued + 1) ELSE broadcast
             /\ UNCHANGED <<clients, count, todo, ctxDone, hubDone>>
             /\ UNCHANGED <<chanVars, connVars, histVars>>

-----------------------------------------------------------------------------
(* handleWS and ServeWS                                                    *)

Goto(c, label) == handler' = [handler EXCEPT ![c] = label]
Disconnect(c) == connOpen' = [connOpen EXCEPT ![c] = FALSE]

\* handleWS turns a connection away when ClientCount has reached the limit.
Refuse(c) == /\ handler[c] = "new"
             /\ count >= Max
             /\ Goto(c, "gone")
             /\ UNCHANGED <<hubVars, chanVars, histVars>>
             /\ UNCHANGED <<pump, held, connOpen, greeted, got>>

\* Otherwise the socket is upgraded and its Client value is made.
Accept(c) == /\ handler[c] = "new"
             /\ count < Max
             /\ Goto(c, "register")
             /\ connOpen' = [connOpen EXCEPT ![c] = TRUE]
             /\ UNCHANGED <<hubVars, chanVars, histVars>>
             /\ UNCHANGED <<pump, held, greeted, got>>

\* h.register <- client meets Run's select; the handler then starts writePump.
Register(c) == /\ handler[c] = "register" /\ AtSelect
               /\ Admit(c)
               /\ from' = [from EXCEPT ![c] = Len(log)]
               /\ Goto(c, "greet")
               /\ pump' = [pump EXCEPT ![c] = "recv"]
               /\ UNCHANGED <<broadcast, issued, todo, ctxDone, hubDone, send>>
               /\ UNCHANGED <<held, connOpen, greeted, got, log>>

Late == hubDone \/ Starve

\* No rendezvous in 2 s: the socket is closed and the handler returns.
RegisterTimeout(c) == /\ handler[c] = "register" /\ Late
                      /\ Goto(c, "gone")
                      /\ Disconnect(c)
                      /\ UNCHANGED <<hubVars, chanVars, histVars>>
                      /\ UNCHANGED <<pump, held, greeted, got>>

\* The next greet frame is written.
Greet(c) == /\ handler[c] = "greet" /\ greeted[c] < 2 /\ connOpen[c]
            /\ greeted' = [greeted EXCEPT ![c] = @ + 1]
            /\ UNCHANGED <<hubVars, chanVars, histVars>>
            /\ UNCHANGED <<handler, pump, held, connOpen, got>>

\* A greet write fails or passes 5 s, which breaks the socket; the error is
\* ignored, and the remaining writes fail as well.
GreetFail(c) == /\ handler[c] = "greet" /\ greeted[c] < 2
                /\ Goto(c, "read")
                /\ Disconnect(c)
                /\ UNCHANGED <<hubVars, chanVars, histVars>>
                /\ UNCHANGED <<pump, held, greeted, got>>

Greeted(c) == /\ handler[c] = "greet" /\ greeted[c] = 2
              /\ Goto(c, "read")
              /\ UNCHANGED <<hubVars, chanVars, histVars>>
              /\ UNCHANGED <<pump, held, connOpen, greeted, got>>

\* The read loop ends when the socket does.
ReadFails(c) == /\ handler[c] = "read" /\ ~connOpen[c]
                /\ Goto(c, "unregister")
                /\ UNCHANGED <<hubVars, chanVars, histVars>>
                /\ UNCHANGED <<pump, held, connOpen, greeted, got>>

\* h.unregister <- client meets Run's select, which drops the client.
Unregister(c) == /\ handler[c] = "unregister" /\ AtSelect
                 /\ Drop(c)
                 /\ Goto(c, "gone")
                 /\ UNCHANGED <<broadcast, issued, todo, ctxDone, hubDone, send>>
                 /\ UNCHANGED <<pump, held, connOpen, greeted, got, histVars>>

\* No rendezvous in 2 s: the handler returns and c may stay registered.
UnregisterTimeout(c) == /\ handler[c] = "unregister" /\ Late
                        /\ Goto(c, "gone")
                        /\ UNCHANGED <<hubVars, chanVars, histVars>>
                        /\ UNCHANGED <<pump, held, connOpen, greeted, got>>

\* The browser closes the socket, or the network breaks it.
PeerClose(c) == /\ connOpen[c]
                /\ Disconnect(c)
                /\ UNCHANGED <<hubVars, chanVars, histVars>>
                /\ UNCHANGED <<handler, pump, held, greeted, got>>

-----------------------------------------------------------------------------
(* writePump                                                               *)

PumpRecv(c) == /\ pump[c] = "recv" /\ send[c] # <<>>
               /\ held' = [held EXCEPT ![c] = <<Head(send[c])>>]
               /\ send' = [send EXCEPT ![c] = Tail(@)]
               /\ pump' = [pump EXCEPT ![c] = "write"]
               /\ UNCHANGED <<hubVars, closed, panicked, histVars>>
               /\ UNCHANGED <<handler, connOpen, greeted, got>>

\* Faulty variant: writePump ends without the deferred Close.
PumpEndOnly(c) == /\ pump[c] = "recv" /\ send[c] = <<>> /\ closed[c]
                  /\ pump' = [pump EXCEPT ![c] = "done"]
                  /\ UNCHANGED <<hubVars, chanVars, histVars>>
                  /\ UNCHANGED <<handler, held, connOpen, greeted, got>>

\* range ends on a closed, empty channel; the deferred Close ends the socket.
PumpEnd(c) == /\ pump[c] = "recv" /\ send[c] = <<>> /\ closed[c]
              /\ pump' = [pump EXCEPT ![c] = "done"]
              /\ Disconnect(c)
              /\ UNCHANGED <<hubVars, chanVars, histVars>>
              /\ UNCHANGED <<handler, held, greeted, got>>

\* Faulty variant: a frame may be taken and not written.
PumpWriteSkips(c) == /\ pump[c] = "write" /\ connOpen[c]
                     /\ \E kept \in {held[c], <<>>} : got' = [got EXCEPT ![c] = @ \o kept]
                     /\ held' = [held EXCEPT ![c] = <<>>]
                     /\ pump' = [pump EXCEPT ![c] = "recv"]
                     /\ UNCHANGED <<hubVars, chanVars, histVars>>
                     /\ UNCHANGED <<handler, connOpen, greeted>>

PumpWrite(c) == /\ pump[c] = "write" /\ connOpen[c]
                /\ got' = [got EXCEPT ![c] = @ \o held[c]]
                /\ held' = [held EXCEPT ![c] = <<>>]
                /\ pump' = [pump EXCEPT ![c] = "recv"]
                /\ UNCHANGED <<hubVars, chanVars, histVars>>
                /\ UNCHANGED <<handler, connOpen, greeted>>

\* Faulty variant: after a failed write the loop goes on with the next frame.
PumpFailAndContinue(c) == /\ pump[c] = "write"
                          /\ pump' = [pump EXCEPT ![c] = "recv"]
                          /\ held' = [held EXCEPT ![c] = <<>>]
                          /\ UNCHANGED <<hubVars, chanVars, histVars>>
                          /\ UNCHANGED <<handler, connOpen, greeted, got>>

\* The write fails or passes 8 s: writePump returns and closes the socket;
\* the frame it held is lost, and what is buffered will never be read.
PumpFail(c) == /\ pump[c] = "write"
               /\ pump' = [pump EXCEPT ![c] = "done"]
               /\ Disconnect(c)
               /\ UNCHANGED <<hubVars, chanVars, histVars>>
               /\ UNCHANGED <<handler, held, greeted, got>>

-----------------------------------------------------------------------------
HubStep == HubTake \/ HubExit \/ \E c \in Client : HubSend(c)

HandlerStep(c) == \/ Register(c) \/ RegisterTimeout(c)
                  \/ Greet(c) \/ GreetFail(c) \/ Greeted(c) \/ ReadFails(c)
                  \/ Unregister(c) \/ UnregisterTimeout(c)

PumpStep(c) == PumpRecv(c) \/ PumpEnd(c) \/ PumpWrite(c) \/ PumpFail(c)

Next == \/ HubStep \/ Cancel \/ Broadcast
        \/ \E c \in Client : \/ Refuse(c) \/ Accept(c) \/ PeerClose(c)
                             \/ HandlerStep(c) \/ PumpStep(c)

Spec == Init /\ [][Next]_vars

\* Goroutines that can run are eventually run; every write and every wait
\* for the hub has a timeout; select picks at random among ready cases, so a
\* handler that waits at Run's select again and again is received in the end.
\* Nothing makes a browser arrive or leave, or the producers broadcast.
Fairness == /\ WF_vars(HubStep)
            /\ \A c \in Client : /\ WF_vars(HandlerStep(c))
                                 /\ WF_vars(PumpStep(c))
                                 /\ SF_vars(Register(c))
                                 /\ SF_vars(Unregister(c))

FairSpec == Spec /\ Fairness

-----------------------------------------------------------------------------
(* Properties                                                              *)

HandlerLabels == {"new", "register", "greet", "read", "unregister", "gone"}
PumpLabels == {"none", "recv", "write", "done"}
Frames == 1..MaxFrames

\* The types of the variables: what every other property relies on.
TypeOK == /\ broadcast \in Seq(Frames) /\ Len(broadcast) <= BroadcastCap
          /\ issued \in 0..MaxFrames
          /\ clients \in SUBSET Client
          /\ count \in Nat
          /\ todo \in SUBSET Client
          /\ ctxDone \in BOOLEAN /\ hubDone \in BOOLEAN
          /\ send \in [Client -> Seq(Frames)]
          /\ closed \in [Client -> BOOLEAN]
          /\ panicked \in BOOLEAN
          /\ handler \in [Client -> HandlerLabels]
          /\ pump \in [Client -> PumpLabels]
          /\ held \in [Client -> Seq(Frames)]
          /\ connOpen \in [Client -> BOOLEAN]
          /\ greeted \in [Client -> 0..2]
          /\ got \in [Client -> Seq(Frames)]
          /\ log \in Seq(Frames)
          /\ from \in [Client -> Nat]

\* drop, closeAll, the refusal of a client, the handlers' unregister calls and
\* the broadcast loop never close a send channel twice and never send on a
\* closed one: either would panic on the Run goroutine and end the process.
NoPanic == ~panicked

\* However many handlers passed handleWS's check of ClientCount at the same
\* time, Run registers no more than Max; and ClientCount is what it registered,
\* also after drops, unregistrations and closeAll.
Admission == Cardinality(clients) <= Max /\ count = Cardinality(clients)

\* A registered client that the broadcast loop has served is at most a full
\* send buffer and one frame in writePump behind the hub: it is dropped
\* before it could fall further behind.
KeepsUp == \A c \in clients \ todo : Len(log) <= from[c] + Len(got[c]) + SendCap + 1

\* What the browser gets is what FanOut promises: from its registration on,
\* every frame the hub took, in order, none missing, until its stream ends.
Phase(c) == CASE pump[c] = "none" -> "out"
              [] pump[c] = "done" -> "ended"
              [] OTHER -> "in"

Stream == INSTANCE FanOut WITH Reader <- Client, Frame <- Frames,
                               phase <- [c \in Client |-> Phase(c)]

ImplementsFanOut == Stream!FSpec

\* A client whose send channel was closed, because it was slow, refused or
\* unregistered; one whose connection broke, whether or not another frame is ever
\* broadcast; and every one once the context is cancelled, those still on their
\* way to register included: it is wound up completely.  Its handler returns,
\* its writePump ends, its socket is closed and the hub has forgotten it (with
\* a hub that answers within 2 s).
Ends(c) == \/ closed[c]
           \/ c \in clients /\ ~connOpen[c]
           \/ ctxDone /\ handler[c] # "new"
Gone(c) == /\ handler[c] = "gone" /\ pump[c] \in {"none", "done"}
           /\ ~connOpen[c] /\ c \notin clients
WindsUp == \A c \in Client : Ends(c) ~> Gone(c)

\* A client that stays registered, however slow it is, has in the end every frame
\* that the hub took since it registered (MaxFrames ends the broadcasts).
FramesArrive ==
    \A c \in Client : <>[](c \in clients) => <>[](Len(log) = from[c] + Len(got[c]))

\* proto/schema.md and client_test.go: hello is the first message a client gets.
HelloFirst == \A c \in Client : got[c] # <<>> => greeted[c] >= 1
=============================================================================
