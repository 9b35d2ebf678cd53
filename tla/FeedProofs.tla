----------------------------- MODULE FeedProofs -----------------------------
(***************************************************************************)
(* Proofs about the browser's connection and the order in which the page   *)
(* takes the frames, for any number of sockets, mounts and frames: a       *)
(* client has one connection or one timer, the status is true, and no push *)
(* or event is taken out of order.                                         *)
(***************************************************************************)
EXTENDS Feed, FiniteSetTheorems, NaturalsInduction, WellFoundedInduction, TLAPS

-----------------------------------------------------------------------------
(* The newest snapshot                                                     *)

\* Every set of numbers has a least one.
LEMMA Least == \A T \in SUBSET Nat : T # {} => \E x \in T : \A y \in T : x <= y
<1> TAKE T \in SUBSET Nat
<1> HAVE T # {}
<1> DEFINE R == {ss \in Nat \X Nat : ss[1] < ss[2]}
<1>1. IsWellFoundedOn(R, Nat) BY NatLessThanWellFounded DEF OpToRel
<1>2. \E x \in T : \A y \in T : ~ (<<y, x>> \in R)
  <2> HIDE DEF R
  <2> QED BY <1>1, WFMin
<1>3. PICK x \in T : \A y \in T : ~ (<<y, x>> \in R) BY <1>2
<1>4. ASSUME NEW y \in T PROVE x <= y
  <2>1. ~ (<<y, x>> \in R) BY <1>3
  <2>2. <<y, x>> \in Nat \X Nat OBVIOUS
  <2> QED BY <2>1, <2>2
<1> QED BY <1>4

\* Among the first frames there is a newest snapshot, if only none at all, and no later one.
LEMMA NewestIs ==
    ASSUME NEW n \in Nat
    PROVE /\ Newest(n) \in 0..n /\ Newest(n) \notin EventFrames
          /\ \A k \in 0..n : k \notin EventFrames => k <= Newest(n)
<1> DEFINE Behind == {d \in 0..n : (n - d) \notin EventFrames}
<1>1. 0 \notin EventFrames BY FeedConstants
<1>2. Behind \in SUBSET Nat OBVIOUS
<1>3. n \in Behind BY <1>1
<1>4. PICK d \in Behind : \A e \in Behind : d <= e BY <1>2, <1>3, Least
<1>5. \A j \in (n - d + 1)..n : j \in EventFrames
  <2> SUFFICES ASSUME NEW j \in (n - d + 1)..n, j \notin EventFrames PROVE FALSE OBVIOUS
  <2>1. n - j \in 0..n /\ n - (n - j) = j BY <1>4
  <2>2. n - j \in Behind BY <2>1
  <2>3. d <= n - j BY <1>4, <2>2
  <2> QED BY <1>4, <2>3
<1>6. \E k \in 0..n : k \notin EventFrames /\ \A j \in (k + 1)..n : j \in EventFrames
  <2>1. n - d \in 0..n /\ n - d \notin EventFrames BY <1>4
  <2> QED BY <1>5, <2>1
<1>7. /\ Newest(n) \in 0..n /\ Newest(n) \notin EventFrames
      /\ \A j \in (Newest(n) + 1)..n : j \in EventFrames
  BY <1>6 DEF Newest
<1> HIDE DEF Behind
<1>8. ASSUME NEW k \in 0..n, k \notin EventFrames PROVE k <= Newest(n)
  BY <1>7, <1>8
<1> QED BY <1>7, <1>8

-----------------------------------------------------------------------------
(* The invariants                                                          *)

\* The sockets of a client that have not ended.
Held(c) == {s \in Socket : owner[s] = c /\ socket[s] # "closed"}
IsLive(s) == socket[s] \in {"connecting", "open", "dead"}

\* A client has one socket that has not ended, or one timer, or none; a socket of its
\* that it has not closed is the one it knows; a client to come has nothing.
ClientInv(c) ==
    /\ \A s, t \in Held(c) : s = t
    /\ timers[c] > 0 => Held(c) = {}
    /\ \A s \in Held(c) : ws[c] = s \/ (ws[c] = 0 /\ ~IsLive(s))
    /\ c > mounts => (Held(c) = {} /\ timers[c] = 0)

ConnInv == TypeOK /\ \A c \in Mounted : ClientInv(c)

\* What is live is of the client that is mounted.
Current == \A s \in Socket : IsLive(s) => mounted /\ owner[s] = mounts

FeedTypes == /\ latest \in 0..MaxFrame /\ sent \in 0..latest
             /\ pushed \in 0..latest /\ pushed \notin EventFrames
             /\ events \in Seq(Nat) /\ \A j \in 1..Len(events) : events[j] <= sent
             /\ queue \in [Socket -> Seq(Nat)] /\ greeting \in [Socket -> Nat]
             /\ ungreeted \subseteq Socket

\* A greeting that has not arrived is a snapshot that the builder has had; as long as its
\* connection waits to open it is as new as any the page has taken.
Greetings == \A s \in ungreeted :
    /\ greeting[s] <= latest /\ greeting[s] \notin EventFrames
    /\ socket[s] \in {"connecting", "open"}
    /\ socket[s] = "connecting" => pushed <= greeting[s]

\* A frame of the hub on its way has not been taken in: an event is newer than those in
\* the list, a snapshot as new as the last pushed, or one that the greeting is ahead of.
Fresh(s, n) == /\ n \in 1..sent
               /\ IF n \in EventFrames
                  THEN \A j \in 1..Len(events) : events[j] < n
                  ELSE pushed <= n \/ n < greeting[s]

\* The frame n, which comes after m, is not older, and not the same event.
Ordered(m, n) == m <= n /\ (n \in EventFrames => m < n)

InTurn(s) == /\ pushed <= sent \/ pushed <= greeting[s]
             /\ s \in ungreeted => pushed <= greeting[s] \/ bringer = s
             /\ \A i \in 1..Len(queue[s]) : Fresh(s, queue[s][i])
             /\ \A i, k \in 1..Len(queue[s]) : i < k => Ordered(queue[s][i], queue[s][k])

OpenInTurn == \A s \in Socket : socket[s] = "open" => InTurn(s)

InOrder == FeedTypes /\ Greetings /\ OpenInTurn

\* As long as no forgotten timer has connected an unmounted client again.
Orderly == Current /\ InOrder

FeedInv == ConnInv /\ (~orphaned => Orderly)

-----------------------------------------------------------------------------
(* The connection                                                          *)

\* A step that takes no socket of c up and sets no timer of it leaves c in order, if it
\* closes what c forgets.
LEMMA ClientStays ==
    ASSUME TypeOK, TypeOK', NEW c \in Mounted, ClientInv(c), mounts' >= mounts,
           \A s \in Held(c)' : /\ s \in Held(c) /\ (IsLive(s)' => IsLive(s))
                               /\ ws'[c] = ws[c] \/ (ws'[c] = 0 /\ ~IsLive(s)'),
           timers'[c] = timers[c]
    PROVE ClientInv(c)'
<1>1. mounts \in Nat /\ mounts' \in Nat /\ c \in Nat BY DEF TypeOK, Mounted
<1>2. Held(c)' \subseteq Held(c) OBVIOUS
<1>3. \A s, t \in Held(c)' : s = t BY <1>2 DEF ClientInv
<1>4. timers'[c] > 0 => Held(c)' = {} BY <1>2 DEF ClientInv
<1>5. \A s \in Held(c)' : ws'[c] = s \/ (ws'[c] = 0 /\ ~IsLive(s)') BY DEF ClientInv
<1>6. c > mounts' => Held(c)' = {} /\ timers'[c] = 0 BY <1>1, <1>2 DEF ClientInv
<1> QED BY <1>3, <1>4, <1>5, <1>6 DEF ClientInv

\* A client that holds nothing connects.
LEMMA ConnectKeeps ==
    ASSUME ConnInv, TypeOK', NEW c \in Mounted, Connect(c), Held(c) = {}, c <= mounts',
           mounts' >= mounts, timers'[c] = 0, \A d \in Mounted \ {c} : timers'[d] = timers[d]
    PROVE \A d \in Mounted : ClientInv(d)'
<1> TAKE d \in Mounted
<1>1. PICK s \in Socket :
        /\ socket[s] = "closed" /\ \A e \in Mounted : ws[e] # s
        /\ socket' = [socket EXCEPT ![s] = "connecting"] /\ owner' = [owner EXCEPT ![s] = c]
        /\ ws' = [ws EXCEPT ![c] = s]
  BY DEF Connect
<1>2. /\ socket \in [Socket -> {"connecting", "open", "dead", "broken", "closing", "closed"}]
      /\ owner \in [Socket -> Mounted] /\ ws \in [Mounted -> Socket \cup {0}]
  BY DEF ConnInv, TypeOK
<1>3. CASE d = c
  <2>1. \A x \in Held(c)' : x = s BY <1>1, <1>2 DEF Held
  <2>2. ws'[c] = s BY <1>1, <1>2
  <2>3. c \in Nat /\ mounts' \in Nat BY DEF TypeOK, Mounted
  <2> QED BY <1>3, <2>1, <2>2, <2>3 DEF ClientInv
<1>4. CASE d # c
  <2>1. \A x \in Held(d)' : x \in Held(d) /\ (IsLive(x)' => IsLive(x))
    BY <1>1, <1>2, <1>4 DEF Held, IsLive
  <2>2. ws'[d] = ws[d] /\ timers'[d] = timers[d] BY <1>1, <1>2, <1>4
  <2>3. ClientInv(d) BY DEF ConnInv
  <2> QED BY <2>1, <2>2, <2>3, ClientStays DEF ConnInv
<1> QED BY <1>3, <1>4

\* A client to come holds nothing, so that its first socket is its only one.
LEMMA MountKeeps == ASSUME ConnInv, Mount PROVE ConnInv'
<1>1. mounts' \in Mounted /\ mounts' > mounts /\ mounts \in Nat
  BY ClientConstants DEF ConnInv, TypeOK, Mount, Mounted
<1>2. Held(mounts') = {} /\ timers[mounts'] = 0 BY <1>1 DEF ConnInv, ClientInv
<1>3. TypeOK'
  <2>1. /\ up' = up /\ mounted' = TRUE /\ retrying' = retrying /\ timers' = timers
        /\ mounts' \in 0..MaxMounts
    BY <1>1, ClientConstants DEF Mount, Mounted
  <2>2. /\ socket' \in [Socket -> {"connecting", "open", "dead", "broken", "closing", "closed"}]
        /\ owner' \in [Socket -> Mounted] /\ ws' \in [Mounted -> Socket \cup {0}]
        /\ intentional' \in [Mounted -> BOOLEAN]
        /\ connection' \in {"connecting", "reconnecting"}
    BY <1>1 DEF ConnInv, TypeOK, Mount, Connect
  <2> QED BY <2>1, <2>2 DEF ConnInv, TypeOK
<1>4. Connect(mounts') /\ timers' = timers BY DEF Mount
<1>5. \A d \in Mounted : ClientInv(d)'
  <2>1. PICK m \in Mounted : m = mounts' BY <1>1
  <2>2. Connect(m) BY <1>4, <2>1 DEF Connect
  <2>3. Held(m) = {} /\ timers'[m] = 0 BY <1>2, <1>4, <2>1 DEF Held
  <2>4. m <= mounts' /\ mounts' >= mounts BY <1>1, <2>1 DEF Mounted
  <2> QED BY <1>3, <1>4, <2>2, <2>3, <2>4, ConnectKeeps
<1> QED BY <1>3, <1>5 DEF ConnInv

\* A timer fires for a client that holds nothing, and is its only one.
LEMMA TimerKeeps == ASSUME ConnInv, NEW c \in Mounted, TimerFires(c) PROVE ConnInv'
<1>1. timers[c] = 1 /\ timers' = [timers EXCEPT ![c] = 0]
  <2>1. timers[c] \in {0, 1} /\ timers[c] > 0 BY DEF ConnInv, TypeOK, TimerFires
  <2>2. timers[c] = 1 /\ timers[c] - 1 = 0 BY <2>1
  <2> QED BY <2>2 DEF TimerFires
<1>2. Held(c) = {} /\ c <= mounts
  <2>1. c \in Nat /\ mounts \in Nat BY DEF ConnInv, TypeOK, Mounted
  <2> QED BY <1>1, <2>1 DEF ConnInv, ClientInv
<1>3. TypeOK'
  <2>1. up' = up /\ mounts' = mounts /\ mounted' = mounted /\ retrying' = retrying
    BY DEF TimerFires
  <2>2. timers' \in [Mounted -> {0, 1}] BY <1>1 DEF ConnInv, TypeOK
  <2>3. /\ socket' \in [Socket -> {"connecting", "open", "dead", "broken", "closing", "closed"}]
        /\ owner' \in [Socket -> Mounted] /\ ws' \in [Mounted -> Socket \cup {0}]
        /\ intentional' \in [Mounted -> BOOLEAN]
        /\ connection' \in {"connecting", "reconnecting"}
    BY DEF ConnInv, TypeOK, TimerFires, Connect
  <2> QED BY <2>1, <2>2, <2>3 DEF ConnInv, TypeOK
<1>4. Connect(c) /\ mounts' = mounts /\ mounts \in Nat BY DEF TimerFires, ConnInv, TypeOK
<1>5. timers'[c] = 0 /\ \A d \in Mounted \ {c} : timers'[d] = timers[d]
  BY <1>1 DEF ConnInv, TypeOK
<1>6. \A d \in Mounted : ClientInv(d)' BY <1>2, <1>3, <1>4, <1>5, ConnectKeeps
<1> QED BY <1>3, <1>6 DEF ConnInv

\* disconnect closes the socket that the client knows, which is its only live one.
LEMMA UnmountKeeps == ASSUME ConnInv, Unmount PROVE ConnInv'
<1>1. mounts' = mounts /\ timers' = timers /\ owner' = owner /\ mounts \in Nat
  BY DEF Unmount, ConnInv, TypeOK
<1>2. PICK m \in Nat : m = mounts BY <1>1
<1>3. /\ ws' = [ws EXCEPT ![m] = 0]
      /\ socket' = IF ws[m] = 0 THEN socket ELSE [socket EXCEPT ![ws[m]] = Closing(ws[m])]
  BY <1>2 DEF Unmount
<1>4. /\ socket \in [Socket -> {"connecting", "open", "dead", "broken", "closing", "closed"}]
      /\ owner \in [Socket -> Mounted] /\ ws \in [Mounted -> Socket \cup {0}]
  BY DEF ConnInv, TypeOK
<1>5. TypeOK'
  <2>1. socket' \in [Socket -> {"connecting", "open", "dead", "broken", "closing", "closed"}]
    BY <1>3, <1>4 DEF Closing
  <2>2. ws' \in [Mounted -> Socket \cup {0}] BY <1>3, <1>4
  <2>3. intentional' \in [Mounted -> BOOLEAN] BY DEF ConnInv, TypeOK, Unmount
  <2> QED BY <2>1, <2>2, <2>3 DEF ConnInv, TypeOK, Unmount
<1>6. ASSUME NEW d \in Mounted PROVE ClientInv(d)'
  <2>1. ASSUME NEW s \in Held(d)'
        PROVE /\ s \in Held(d) /\ (IsLive(s)' => IsLive(s))
              /\ ws'[d] = ws[d] \/ (ws'[d] = 0 /\ ~IsLive(s)')
    <3>1. s \in Held(d) /\ (IsLive(s)' => IsLive(s))
      BY <1>1, <1>3, <1>4, <2>1 DEF Held, IsLive, Closing
    <3>2. CASE d # m BY <1>3, <1>4, <3>1, <3>2
    <3>3. CASE d = m
      <4>1. ws[d] = s \/ (ws[d] = 0 /\ ~IsLive(s)) BY <3>1 DEF ConnInv, ClientInv
      <4>2. ws'[d] = 0 BY <1>3, <1>4, <3>3
      <4>3. CASE ws[d] = s
        <5>1. s \in Socket /\ s # 0 BY <3>1, ClientConstants DEF Held
        <5>2. ws[m] = s BY <3>3, <4>3
        <5>3. socket'[s] = Closing(s) BY <1>3, <1>4, <5>1, <5>2 DEF Closing
        <5>4. ~IsLive(s)' BY <5>3 DEF IsLive, Closing
        <5> QED BY <3>1, <4>2, <5>4
      <4>4. CASE ws[d] = 0 BY <3>1, <4>2, <4>4
      <4> QED BY <4>1, <4>3, <4>4
    <3> QED BY <3>2, <3>3
  <2>2. ClientInv(d) /\ TypeOK BY DEF ConnInv
  <2> QED BY <1>1, <1>5, <2>1, <2>2, ClientStays
<1> QED BY <1>5, <1>6 DEF ConnInv

\* A step that keeps owners, timers and what clients know, and that ends or opens
\* sockets, but makes none live.
LEMMA SocketsMove ==
    ASSUME ConnInv, TypeOK', owner' = owner, ws' = ws, timers' = timers, mounts' = mounts,
           \A s \in Socket : /\ socket'[s] = "closed" \/ socket[s] # "closed"
                             /\ IsLive(s)' => IsLive(s)
    PROVE ConnInv'
<1>1. ASSUME NEW d \in Mounted PROVE ClientInv(d)'
  <2>1. \A s \in Held(d)' : s \in Held(d) /\ (IsLive(s)' => IsLive(s)) BY DEF Held
  <2>2. ClientInv(d) /\ TypeOK /\ mounts \in Nat BY DEF ConnInv, TypeOK
  <2> QED BY <2>1, <2>2, ClientStays
<1> QED BY <1>1 DEF ConnInv

\* What opens was connecting.
LEMMA OpenKeeps == ASSUME ConnInv, NEW s \in Socket, Open(s) PROVE ConnInv'
<1>1. /\ socket \in [Socket -> {"connecting", "open", "dead", "broken", "closing", "closed"}]
      /\ socket' = [socket EXCEPT ![s] = "open"] /\ socket[s] = "connecting"
  BY DEF ConnInv, TypeOK, Open
<1>2. TypeOK'
  <2>1. /\ retrying' \in [Mounted -> BOOLEAN]
        /\ socket' \in [Socket -> {"connecting", "open", "dead", "broken", "closing", "closed"}]
    BY DEF ConnInv, TypeOK, Open
  <2> QED BY <2>1 DEF ConnInv, TypeOK, Open
<1>3. \A x \in Socket : /\ socket'[x] = "closed" \/ socket[x] # "closed"
                        /\ IsLive(x)' => IsLive(x)
  BY <1>1 DEF IsLive
<1> QED BY <1>2, <1>3, SocketsMove DEF Open

\* The path takes up no socket.
LEMMA PathKeeps == ASSUME ConnInv, PathGoes \/ PathComes PROVE ConnInv'
<1>1. CASE PathGoes
  <2>1. PICK end \in {"broken", "dead"} :
          socket' = [s \in Socket |-> IF socket[s] = "open" THEN end ELSE socket[s]]
    BY <1>1 DEF PathGoes
  <2>2. socket' \in [Socket -> {"connecting", "open", "dead", "broken", "closing", "closed"}]
    BY <2>1 DEF ConnInv, TypeOK
  <2>3. TypeOK' BY <1>1, <2>2 DEF ConnInv, TypeOK, PathGoes, clientVars
  <2>4. \A x \in Socket : /\ socket'[x] = "closed" \/ socket[x] # "closed"
                          /\ IsLive(x)' => IsLive(x)
    BY <2>1 DEF IsLive
  <2> QED BY <1>1, <2>3, <2>4, SocketsMove DEF PathGoes, clientVars
<1>2. CASE PathComes
  <2>1. TypeOK' BY <1>2 DEF ConnInv, TypeOK, PathComes, clientVars
  <2>2. \A x \in Socket : /\ socket'[x] = "closed" \/ socket[x] # "closed"
                          /\ IsLive(x)' => IsLive(x)
    BY <1>2 DEF IsLive, PathComes
  <2> QED BY <1>2, <2>1, <2>2, SocketsMove DEF PathComes, clientVars
<1> QED BY <1>1, <1>2

\* A socket that ends ends alone, and its client has no timer yet.
LEMMA EndsAlone ==
    ASSUME ConnInv, NEW s \in Socket, SocketEnds(s)
    PROVE /\ socket' = [socket EXCEPT ![s] = "closed"] /\ socket[s] # "closed"
          /\ s \in Held(owner[s]) /\ timers[owner[s]] = 0
<1>1. socket[s] # "closed" BY DEF SocketEnds, Ended
<1>2. owner[s] \in Mounted BY DEF ConnInv, TypeOK
<1>3. s \in Held(owner[s]) BY <1>1 DEF Held
<1>4. ws[owner[s]] \in {0, s} BY <1>2, <1>3 DEF ConnInv, ClientInv
<1>5. ErrorCloses(s) = [socket EXCEPT ![s] = "closed"]
  <2>1. ErrorCloses(s) = [socket EXCEPT ![s] = "closed", ![s] = "closed"]
    BY <1>4 DEF ErrorCloses
  <2> QED BY <2>1 DEF ConnInv, TypeOK
<1>6. timers[owner[s]] \in {0, 1} BY <1>2 DEF ConnInv, TypeOK
<1>7. timers[owner[s]] = 0 BY <1>2, <1>3, <1>6 DEF ConnInv, ClientInv
<1> QED BY <1>1, <1>3, <1>5, <1>7 DEF SocketEnds

\* A socket that ends leaves its client with nothing, or with one timer.
LEMMA EndsKeeps == ASSUME ConnInv, NEW s \in Socket, SocketEnds(s) PROVE ConnInv'
<1>1. /\ socket' = [socket EXCEPT ![s] = "closed"] /\ socket[s] # "closed"
      /\ s \in Held(owner[s]) /\ timers[owner[s]] = 0
  BY EndsAlone
<1>2. owner[s] \in Mounted /\ owner' = owner /\ ws' = ws /\ mounts' = mounts /\ mounts \in Nat
  BY DEF ConnInv, TypeOK, SocketEnds
<1>3. /\ socket \in [Socket -> {"connecting", "open", "dead", "broken", "closing", "closed"}]
      /\ timers \in [Mounted -> {0, 1}]
  BY DEF ConnInv, TypeOK
<1>4. timers' = timers \/ timers' = [timers EXCEPT ![owner[s]] = 1]
  <2>1. timers[owner[s]] + 1 = 1 BY <1>1
  <2> QED BY <2>1 DEF SocketEnds
<1>5. TypeOK'
  <2>1. timers' \in [Mounted -> {0, 1}] BY <1>3, <1>4
  <2>2. socket' \in [Socket -> {"connecting", "open", "dead", "broken", "closing", "closed"}]
    BY <1>1, <1>3
  <2>3. retrying' \in [Mounted -> BOOLEAN] BY DEF ConnInv, TypeOK, SocketEnds
  <2>4. connection' \in {"connecting", "connected", "reconnecting", "offline"}
    BY DEF ConnInv, TypeOK, SocketEnds
  <2> QED BY <2>1, <2>2, <2>3, <2>4 DEF ConnInv, TypeOK, SocketEnds
<1>6. ASSUME NEW d \in Mounted PROVE ClientInv(d)'
  <2>1. \A x \in Held(d)' : x \in Held(d) /\ (IsLive(x)' => IsLive(x))
    BY <1>1, <1>2, <1>3 DEF Held, IsLive
  <2>2. ClientInv(d) BY DEF ConnInv
  <2>3. CASE d # owner[s]
    <3>1. timers'[d] = timers[d] BY <1>3, <1>4, <2>3
    <3> QED BY <1>2, <1>5, <2>1, <2>2, <3>1, ClientStays DEF ConnInv
  <2>4. CASE d = owner[s]
    <3>1. Held(d)' = {}
      <4>1. \A x \in Held(d) : x = s BY <1>1, <2>2, <2>4 DEF ClientInv
      <4>2. s \notin Held(d)' BY <1>1, <1>3 DEF Held
      <4> QED BY <2>1, <4>1, <4>2
    <3>2. d <= mounts
      <4>1. d \in Nat BY DEF Mounted
      <4> QED BY <1>1, <1>2, <2>2, <2>4, <4>1 DEF ClientInv
    <3>3. d \in Nat BY DEF Mounted
    <3> QED BY <1>2, <3>1, <3>2, <3>3 DEF ClientInv
  <2> QED BY <2>3, <2>4
<1> QED BY <1>5, <1>6 DEF ConnInv

\* One connection or one timer, after every step of the client and of the path.
LEMMA ConnStep == ASSUME ConnInv, [Next]_vars PROVE ConnInv'
<1>1. CASE Mount BY <1>1, MountKeeps
<1>2. ASSUME NEW s \in Socket, Open(s) PROVE ConnInv' BY <1>2, OpenKeeps
<1>3. ASSUME NEW s \in Socket, SocketEnds(s) PROVE ConnInv' BY <1>3, EndsKeeps
<1>4. ASSUME NEW c \in Mounted, TimerFires(c) PROVE ConnInv' BY <1>4, TimerKeeps
<1>5. CASE Unmount BY <1>5, UnmountKeeps
<1>6. CASE PathGoes \/ PathComes BY <1>6, PathKeeps
<1>7. CASE UNCHANGED vars
  BY <1>7 DEF vars, clientVars, ConnInv, TypeOK, ClientInv, Held, IsLive
<1> QED BY <1>1, <1>2, <1>3, <1>4, <1>5, <1>6, <1>7 DEF Next, Browser, Timers

\* At first nobody holds anything.
LEMMA ConnInit == ASSUME Init PROVE ConnInv
<1>1. 1 \in Mounted BY ClientConstants DEF Mounted
<1>2. TypeOK
  <2>1. up \in BOOLEAN /\ mounted \in BOOLEAN BY DEF Init
  <2>2. mounts \in 0..MaxMounts BY ClientConstants DEF Init
  <2>3. socket \in [Socket -> {"connecting", "open", "dead", "broken", "closing", "closed"}]
    BY DEF Init
  <2>4. owner \in [Socket -> Mounted] /\ ws \in [Mounted -> Socket \cup {0}]
    BY <1>1 DEF Init
  <2>5. /\ retrying \in [Mounted -> BOOLEAN] /\ intentional \in [Mounted -> BOOLEAN]
        /\ timers \in [Mounted -> {0, 1}]
    BY DEF Init
  <2>6. connection \in {"connecting", "connected", "reconnecting", "offline"} BY DEF Init
  <2> QED BY <2>1, <2>2, <2>3, <2>4, <2>5, <2>6 DEF TypeOK
<1>3. \A c \in Mounted : Held(c) = {} BY DEF Init, Held
<1>4. \A c \in Mounted : timers[c] = 0 BY DEF Init
<1> QED BY <1>2, <1>3, <1>4 DEF ConnInv, ClientInv

\* Every step of the page is one of the client, or leaves it alone.
LEMMA FeedSteps == ASSUME [FeedNext]_allVars PROVE [Next]_vars
<1>1. ASSUME NEW s \in Socket, Greets(s) \/ Joins(s) \/ Deliver(s) \/ Greeted(s)
      PROVE [Next]_vars
  BY <1>1 DEF Greets, Joins, Deliver, Greeted, Next, Browser
<1>2. ASSUME NEW c \in Mounted, Answer(c) \/ FetchArrives(c) \/ FetchFails(c) PROVE [Next]_vars
  BY <1>2 DEF Answer, FetchArrives, FetchFails
<1>3. CASE AppMounts BY <1>3 DEF AppMounts, Next, Browser
<1>4. CASE Connection BY <1>4 DEF Connection, Next, Browser, Timers
<1>5. CASE Publish \/ Broadcast \/ Tick \/ TogglePause
  BY <1>5 DEF Publish, Broadcast, Tick, TogglePause
<1>6. ASSUME NEW r \in Rate, SetRefreshRate(r) PROVE [Next]_vars BY <1>6 DEF SetRefreshRate
<1>7. CASE UNCHANGED allVars BY <1>7 DEF allVars
<1> QED BY <1>1, <1>2, <1>3, <1>4, <1>5, <1>6, <1>7 DEF FeedNext

\* One connection or one timer, always.
LEMMA ConnHolds == FeedSpec => []ConnInv
<1>1. FeedInit => ConnInv BY ConnInit DEF FeedInit
<1>2. ConnInv /\ [FeedNext]_allVars => ConnInv' BY FeedSteps, ConnStep
<1> QED BY <1>1, <1>2, PTL DEF FeedSpec

\* Every client has a socket or none, at most one timer, and flags that are set or not.
THEOREM ClientTypeCorrect == FeedSpec => []TypeOK
<1>1. ConnInv => TypeOK BY DEF ConnInv
<1> QED BY <1>1, ConnHolds, PTL

\* A client never has two connections, nor one and a timer for another, in App as the
\* page uses it.
THEOREM OneConnectionHolds == FeedSpec => []OneConnection
<1>1. ASSUME ConnInv PROVE OneConnection
  <2> SUFFICES ASSUME NEW c \in Mounted PROVE Cardinality(Live(c)) + timers[c] <= 1
    BY DEF OneConnection
  <2>1. Live(c) \subseteq Held(c) BY DEF Live, Held
  <2>2. timers[c] \in {0, 1} /\ ClientInv(c) BY <1>1 DEF ConnInv, TypeOK
  <2>3. CASE Live(c) = {}
    <3>1. Cardinality(Live(c)) = 0 BY <2>3, FS_EmptySet
    <3> QED BY <2>2, <3>1
  <2>4. ASSUME NEW s \in Live(c) PROVE Cardinality(Live(c)) + timers[c] <= 1
    <3>1. Live(c) = {s} BY <2>1, <2>2, <2>4 DEF ClientInv
    <3>2. Cardinality(Live(c)) = 1 BY <3>1, FS_Singleton
    <3>3. timers[c] = 0 BY <2>1, <2>2, <2>4 DEF ClientInv
    <3> QED BY <3>2, <3>3
  <2> QED BY <2>3, <2>4
<1> QED BY <1>1, ConnHolds, PTL

\* The status, after every step: only what ends a socket while its client sets no
\* timer could falsify it, and that says offline.
LEMMA StatusStep == ASSUME ConnInv, StatusTrue, [Next]_vars PROVE StatusTrue'
<1> DEFINE Was == {"open", "dead", "broken", "closing"}
<1>1. /\ socket \in [Socket -> {"connecting", "open", "dead", "broken", "closing", "closed"}]
      /\ timers \in [Mounted -> {0, 1}] /\ owner \in [Socket -> Mounted]
      /\ ws \in [Mounted -> Socket \cup {0}]
  BY DEF ConnInv, TypeOK
<1>2. ASSUME timers' = timers, connection' = connection,
             \A s \in Socket : socket[s] \in Was => socket'[s] \in Was
      PROVE StatusTrue'
  BY <1>2 DEF StatusTrue
<1>3. CASE Mount
  <2>1. connection' \in {"connecting", "reconnecting"} BY <1>3 DEF Mount, Connect
  <2> QED BY <2>1 DEF StatusTrue
<1>4. ASSUME NEW c \in Mounted, TimerFires(c) PROVE StatusTrue'
  <2>1. connection' \in {"connecting", "reconnecting"} BY <1>4 DEF TimerFires, Connect
  <2> QED BY <2>1 DEF StatusTrue
<1>5. ASSUME NEW s \in Socket, Open(s) PROVE StatusTrue'
  <2>1. socket'[s] = "open" BY <1>1, <1>5 DEF Open
  <2> QED BY <2>1 DEF StatusTrue
<1>6. ASSUME NEW s \in Socket, SocketEnds(s) PROVE StatusTrue'
  <2>1. CASE intentional[owner[s]]
    <3>1. connection' = "offline" BY <1>6, <2>1 DEF SocketEnds
    <3> QED BY <3>1 DEF StatusTrue
  <2>2. CASE ~intentional[owner[s]]
    <3>1. timers' = [timers EXCEPT ![owner[s]] = @ + 1] BY <1>6, <2>2 DEF SocketEnds
    <3>2. timers'[owner[s]] > 0 /\ owner[s] \in Mounted BY <1>1, <3>1
    <3> QED BY <3>2 DEF StatusTrue
  <2> QED BY <2>1, <2>2
<1>7. CASE Unmount
  <2>1. PICK t : t = ws[mounts] OBVIOUS
  <2>2. socket' = IF t = 0 THEN socket ELSE [socket EXCEPT ![t] = Closing(t)]
    BY <1>7, <2>1 DEF Unmount
  <2>3. \A s \in Socket : socket[s] \in Was => socket'[s] \in Was
    BY <1>1, <2>2 DEF Closing
  <2> QED BY <1>2, <1>7, <2>3 DEF Unmount
<1>8. CASE PathGoes \/ PathComes
  <2>1. \A s \in Socket : socket[s] \in Was => socket'[s] \in Was
    BY <1>1, <1>8 DEF PathGoes, PathComes
  <2> QED BY <1>2, <1>8, <2>1 DEF PathGoes, PathComes, clientVars
<1>9. CASE UNCHANGED vars BY <1>9 DEF vars, clientVars, StatusTrue
<1> QED BY <1>3, <1>4, <1>5, <1>6, <1>7, <1>8, <1>9 DEF Next, Browser, Timers

\* The status says connected of a socket that opened, or of a client about to connect
\* again.
THEOREM StatusTrueHolds == FeedSpec => []StatusTrue
<1>1. FeedInit => StatusTrue BY DEF FeedInit, Init, StatusTrue
<1>2. ConnInv /\ StatusTrue /\ [FeedNext]_allVars => StatusTrue' BY FeedSteps, StatusStep
<1> QED BY <1>1, <1>2, ConnHolds, PTL DEF FeedSpec

\* The mounted client has not been told to disconnect, and has a socket or a timer.
Trying == mounted => /\ mounts \in Mounted /\ ~intentional[mounts]
                     /\ timers[mounts] > 0 \/ Held(mounts) # {}

\* The mounted client goes on trying, after every step.
LEMMA TryingStep == ASSUME ConnInv, Trying, [Next]_vars PROVE Trying'
<1>1. /\ socket \in [Socket -> {"connecting", "open", "dead", "broken", "closing", "closed"}]
      /\ timers \in [Mounted -> {0, 1}] /\ owner \in [Socket -> Mounted]
      /\ intentional \in [Mounted -> BOOLEAN] /\ mounts \in Nat
  BY DEF ConnInv, TypeOK
<1>2. ASSUME timers' = timers, owner' = owner, mounts' = mounts, mounted' = mounted,
             intentional' = intentional,
             \A s \in Socket : socket[s] # "closed" => socket'[s] # "closed"
      PROVE Trying'
  BY <1>2 DEF Trying, Held
<1>3. CASE Mount
  <2>1. mounts' \in Mounted /\ mounts' = mounts + 1
    BY <1>1, <1>3, ClientConstants DEF Mount, Mounted, ConnInv, TypeOK
  <2>2. PICK m \in Mounted : m = mounts' BY <2>1
  <2>3. Connect(m) BY <1>3, <2>2 DEF Mount, Connect
  <2>4. PICK s \in Socket : /\ socket' = [socket EXCEPT ![s] = "connecting"]
                            /\ owner' = [owner EXCEPT ![s] = m]
                            /\ intentional' = [intentional EXCEPT ![m] = FALSE]
    BY <2>3 DEF Connect
  <2>5. socket'[s] = "connecting" /\ owner'[s] = m /\ ~intentional'[m] BY <1>1, <2>4
  <2>6. s \in Held(mounts)' BY <2>2, <2>5 DEF Held
  <2> QED BY <2>2, <2>5, <2>6 DEF Trying
<1>4. ASSUME NEW c \in Mounted, TimerFires(c), mounted PROVE Trying'
  <2>1. mounts' = mounts /\ Connect(c) /\ timers' = [timers EXCEPT ![c] = timers[c] - 1]
    BY <1>4 DEF TimerFires
  <2>2. PICK s \in Socket : /\ socket[s] = "closed"
                            /\ socket' = [socket EXCEPT ![s] = "connecting"]
                            /\ owner' = [owner EXCEPT ![s] = c]
                            /\ intentional' = [intentional EXCEPT ![c] = FALSE]
    BY <2>1 DEF Connect
  <2>3. mounts \in Mounted /\ ~intentional[mounts] BY <1>4 DEF Trying
  <2>4. ~intentional'[mounts] BY <1>1, <2>2, <2>3
  <2>5. CASE c = mounts
    <3>1. s \in Held(mounts)' BY <1>1, <2>1, <2>2, <2>5 DEF Held
    <3> QED BY <2>1, <2>3, <2>4, <3>1 DEF Trying
  <2>6. CASE c # mounts
    <3>1. timers'[mounts] = timers[mounts] BY <1>1, <2>1, <2>3, <2>6
    <3>2. Held(mounts) \subseteq Held(mounts)' BY <1>1, <2>1, <2>2 DEF Held
    <3> QED BY <1>4, <2>1, <2>3, <2>4, <3>1, <3>2 DEF Trying
  <2> QED BY <2>5, <2>6
<1>5. ASSUME NEW c \in Mounted, TimerFires(c), ~mounted PROVE Trying'
  BY <1>5 DEF TimerFires, Trying
<1>6. ASSUME NEW s \in Socket, Open(s) PROVE Trying'
  BY <1>1, <1>2, <1>6 DEF Open
<1>7. ASSUME NEW s \in Socket, SocketEnds(s), mounted PROVE Trying'
  <2>1. mounts' = mounts /\ owner' = owner /\ intentional' = intentional
    BY <1>7 DEF SocketEnds
  <2>2. mounts \in Mounted /\ ~intentional[mounts] BY <1>7 DEF Trying
  <2>3. CASE owner[s] = mounts
    <3>1. timers' = [timers EXCEPT ![mounts] = @ + 1] BY <1>7, <2>2, <2>3 DEF SocketEnds
    <3>2. timers'[mounts] > 0 BY <1>1, <2>2, <3>1
    <3> QED BY <2>1, <2>2, <3>2 DEF Trying
  <2>4. CASE owner[s] # mounts
    <3>1. socket' = [socket EXCEPT ![s] = "closed"] BY <1>7, EndsAlone
    <3>2. Held(mounts) \subseteq Held(mounts)' BY <1>1, <2>1, <2>4, <3>1 DEF Held
    <3>3. timers'[mounts] = timers[mounts]
      BY <1>1, <1>7, <2>2, <2>4 DEF SocketEnds
    <3> QED BY <1>7, <2>1, <2>2, <3>2, <3>3 DEF Trying
  <2> QED BY <2>3, <2>4
<1>8. ASSUME NEW s \in Socket, SocketEnds(s), ~mounted PROVE Trying'
  BY <1>8 DEF SocketEnds, Trying
<1>9. CASE Unmount BY <1>9 DEF Unmount, Trying
<1>10. CASE PathGoes \/ PathComes
  BY <1>1, <1>2, <1>10 DEF PathGoes, PathComes, clientVars
<1>11. CASE UNCHANGED vars BY <1>11 DEF vars, clientVars, Trying, Held
<1> QED BY <1>3, <1>4, <1>5, <1>6, <1>7, <1>8, <1>9, <1>10, <1>11 DEF Next, Browser, Timers

\* The client of a mounted App has a socket or a timer, whatever was left by earlier
\* mounts.
THEOREM NeverGivesUpHolds == FeedSpec => []NeverGivesUp
<1>1. FeedInit => Trying BY DEF FeedInit, Init, Trying
<1>2. ConnInv /\ Trying /\ [FeedNext]_allVars => Trying' BY FeedSteps, TryingStep
<1>3. Trying => NeverGivesUp BY DEF Trying, Held, NeverGivesUp
<1> QED BY <1>1, <1>2, <1>3, ConnHolds, PTL DEF FeedSpec

-----------------------------------------------------------------------------
(* The order of the frames                                                 *)

\* What is live stays of the mounted client, unless a forgotten timer fires.
LEMMA CurrentStep ==
    ASSUME ConnInv, Current, [FeedNext]_allVars, ~orphaned' PROVE Current'
<1>1. /\ socket \in [Socket -> {"connecting", "open", "dead", "broken", "closing", "closed"}]
      /\ owner \in [Socket -> Mounted] /\ ws \in [Mounted -> Socket \cup {0}] /\ mounts \in Nat
  BY DEF ConnInv, TypeOK
<1>2. ASSUME owner' = owner, mounts' = mounts, mounted' = mounted,
             \A s \in Socket : IsLive(s)' => IsLive(s)
      PROVE Current'
  BY <1>2 DEF Current
<1>3. CASE AppMounts
  <2>1. Mount /\ mounts' \in Nat BY <1>1, <1>3 DEF AppMounts, Mount
  <2>2. PICK m \in Nat : m = mounts' BY <2>1
  <2>3. PICK t \in Socket : /\ socket' = [socket EXCEPT ![t] = "connecting"]
                            /\ owner' = [owner EXCEPT ![t] = m]
    BY <2>1, <2>2 DEF Mount, Connect
  <2>4. ~mounted /\ mounted' BY <2>1 DEF Mount
  <2>5. \A s \in Socket : ~IsLive(s) BY <2>4 DEF Current
  <2>6. \A s \in Socket : IsLive(s)' => s = t BY <1>1, <2>3, <2>5 DEF IsLive
  <2>7. owner'[t] = mounts' BY <1>1, <2>2, <2>3
  <2> QED BY <2>4, <2>6, <2>7 DEF Current
<1>4. ASSUME NEW s \in Socket, Joins(s) PROVE Current'
  <2>1. \A x \in Socket : IsLive(x)' => IsLive(x) BY <1>1, <1>4 DEF Joins, Open, IsLive
  <2> QED BY <1>2, <1>4, <2>1 DEF Joins, Open
<1>5. ASSUME NEW s \in Socket, SocketEnds(s) PROVE Current'
  <2>1. socket' = [socket EXCEPT ![s] = "closed"] BY <1>5, EndsAlone
  <2>2. \A x \in Socket : IsLive(x)' => IsLive(x) BY <1>1, <2>1 DEF IsLive
  <2> QED BY <1>2, <1>5, <2>2 DEF SocketEnds
<1>6. ASSUME NEW c \in Mounted, TimerFires(c), Connection PROVE Current'
  <2>1. PICK t \in Socket : /\ socket[t] = "closed"
                            /\ socket' = [socket EXCEPT ![t] = "connecting"]
                            /\ owner' = [owner EXCEPT ![t] = c]
    BY <1>6 DEF TimerFires, Connect
  <2>2. mounts' = mounts /\ mounted' = mounted BY <1>6 DEF TimerFires
  <2>3. socket'[t] = "connecting" BY <1>1, <2>1
  <2>4. mounted /\ owner'[t] = mounts BY <1>6, <2>1, <2>3 DEF Connection
  <2>5. \A x \in Socket \ {t} : socket'[x] = socket[x] /\ owner'[x] = owner[x]
    BY <1>1, <2>1
  <2>6. ASSUME NEW x \in Socket, IsLive(x)' PROVE mounted' /\ owner'[x] = mounts'
    BY <2>2, <2>4, <2>5, <2>6 DEF Current, IsLive
  <2> QED BY <2>6 DEF Current
<1>7. CASE Unmount
  <2>1. PICK t : t = ws[mounts] OBVIOUS
  <2>2. socket' = IF t = 0 THEN socket ELSE [socket EXCEPT ![t] = Closing(t)]
    BY <1>7, <2>1 DEF Unmount
  <2>3. ASSUME NEW s \in Socket, IsLive(s)' PROVE FALSE
    <3>1. IsLive(s) BY <1>1, <2>2, <2>3 DEF IsLive, Closing
    <3>2. owner[s] = mounts /\ owner[s] \in Mounted BY <1>1, <3>1 DEF Current
    <3>3. s \in Held(owner[s]) BY <3>1 DEF Held, IsLive
    <3>4. t = s BY <2>1, <3>1, <3>2, <3>3 DEF ConnInv, ClientInv
    <3>5. s # 0 BY ClientConstants
    <3>6. socket'[s] = "closing" BY <1>1, <2>2, <3>1, <3>4, <3>5 DEF IsLive, Closing
    <3> QED BY <2>3, <3>6 DEF IsLive
  <2> QED BY <2>3 DEF Current
<1>8. CASE PathGoes \/ PathComes
  <2>1. \A x \in Socket : IsLive(x)' => IsLive(x)
    BY <1>1, <1>8 DEF PathGoes, PathComes, IsLive
  <2> QED BY <1>2, <1>8, <2>1 DEF PathGoes, PathComes
<1>9. CASE Connection
  BY <1>5, <1>6, <1>7, <1>8, <1>9 DEF Connection
<1>10. ASSUME socket' = socket, owner' = owner, mounts' = mounts, mounted' = mounted
       PROVE Current'
  BY <1>2, <1>10 DEF IsLive
<1>11. ASSUME UNCHANGED vars PROVE Current' BY <1>10, <1>11 DEF vars
<1>12. ASSUME NEW s \in Socket, Greets(s) \/ Deliver(s) \/ Greeted(s) PROVE Current'
  BY <1>11, <1>12 DEF Greets, Deliver, Greeted
<1>13. ASSUME NEW c \in Mounted, Answer(c) \/ FetchArrives(c) \/ FetchFails(c) PROVE Current'
  BY <1>11, <1>13 DEF Answer, FetchArrives, FetchFails
<1>14. CASE Publish \/ Broadcast \/ Tick \/ TogglePause
  BY <1>11, <1>14 DEF Publish, Broadcast, Tick, TogglePause
<1>15. ASSUME NEW r \in Rate, SetRefreshRate(r) PROVE Current' BY <1>11, <1>15 DEF SetRefreshRate
<1>16. CASE UNCHANGED allVars BY <1>11, <1>16 DEF allVars
<1> QED BY <1>3, <1>4, <1>9, <1>12, <1>13, <1>14, <1>15, <1>16 DEF FeedNext

\* The rest of a queue is what was behind its head.
LEMMA Rest ==
    ASSUME NEW q \in Seq(Nat), q # <<>>
    PROVE /\ Tail(q) \in Seq(Nat) /\ Len(Tail(q)) = Len(q) - 1 /\ Len(q) \in Nat \ {0}
          /\ Head(q) = q[1] /\ \A i \in 1..Len(Tail(q)) : Tail(q)[i] = q[i + 1]
OBVIOUS

\* The list of events keeps its order; what is added comes last.
LEMMA Listed ==
    ASSUME events \in Seq(Nat), NEW n \in Nat, AddEvent(n)
    PROVE \/ events' = events
          \/ /\ events' \in Seq(Nat) /\ Len(events') \in Nat \ {0}
             /\ events'[Len(events')] = n
             /\ \A j \in 1..Len(events') :
                   events'[j] = n \/ \E i \in 1..Len(events) : events'[j] = events[i]
<1>1. CASE events' = Append(events, n)
  <2>1. /\ events' \in Seq(Nat) /\ Len(events') = Len(events) + 1 /\ Len(events) \in Nat
        /\ events'[Len(events) + 1] = n
        /\ \A j \in 1..Len(events) : events'[j] = events[j]
    BY <1>1
  <2> QED BY <2>1
<1>2. CASE Len(events) >= MaxEvents /\ events' = Append(Tail(events), n)
  <2>1. events # <<>> BY <1>2, FeedConstants
  <2>2. PICK q \in Seq(Nat) : q = Tail(events) BY <2>1, Rest
  <2>3. Len(q) = Len(events) - 1 /\ \A j \in 1..Len(q) : q[j] = events[j + 1]
    BY <2>1, <2>2, Rest
  <2>4. /\ events' \in Seq(Nat) /\ Len(events') = Len(q) + 1 /\ Len(q) \in Nat
        /\ events'[Len(q) + 1] = n
        /\ \A j \in 1..Len(q) : events'[j] = q[j]
    BY <1>2, <2>2
  <2>5. ASSUME NEW j \in 1..Len(q) PROVE \E i \in 1..Len(events) : events'[j] = events[i]
    <3>1. j + 1 \in 1..Len(events) BY <2>3, <2>4
    <3>2. events'[j] = events[j + 1] BY <2>3, <2>4
    <3> QED BY <3>1, <3>2
  <2>6. ASSUME NEW j \in 1..Len(events')
        PROVE events'[j] = n \/ \E i \in 1..Len(events) : events'[j] = events[i]
    <3>1. j \in 1..Len(q) \/ j = Len(q) + 1 BY <2>4
    <3> QED BY <2>4, <2>5, <3>1
  <2>7. Len(events') \in Nat \ {0} /\ events'[Len(events')] = n BY <2>4
  <2> QED BY <2>4, <2>6, <2>7
<1>3. CASE events' = events BY <1>3
<1>4. Len(events) \in Nat /\ MaxEvents \in Nat BY FeedConstants
<1> QED BY <1>1, <1>2, <1>3, <1>4 DEF AddEvent

\* The builder gets ahead.
LEMMA PublishKeeps == ASSUME InOrder, Publish PROVE InOrder'
<1>1. /\ latest' = latest + 1 /\ latest < MaxFrame /\ sent' = sent /\ pushed' = pushed
      /\ events' = events /\ queue' = queue /\ greeting' = greeting /\ ungreeted' = ungreeted
      /\ socket' = socket /\ bringer' = bringer
  BY DEF Publish, storeVars, wireVars, vars
<1>2. MaxFrame \in Nat BY FeedConstants
<1>3. FeedTypes' BY <1>1, <1>2 DEF InOrder, FeedTypes
<1>4. Greetings' BY <1>1 DEF InOrder, FeedTypes, Greetings
<1>5. OpenInTurn' BY <1>1 DEF InOrder, OpenInTurn, InTurn, Fresh, Ordered
<1> QED BY <1>3, <1>4, <1>5 DEF InOrder

\* The hub sends the next frame, or the last again.
LEMMA BroadcastKeeps == ASSUME InOrder, Broadcast PROVE InOrder'
<1>1. PICK n \in {sent + 1, MaxFrame} :
        /\ n <= latest /\ sent >= n - 1 /\ sent' = n
        /\ queue' = [s \in Socket |-> IF socket[s] = "open" /\ (sent < n \/ queue[s] = <<>>)
                                      THEN Append(queue[s], n) ELSE queue[s]]
  BY DEF Broadcast
<1>2. /\ latest' = latest /\ pushed' = pushed /\ events' = events /\ greeting' = greeting
      /\ ungreeted' = ungreeted /\ socket' = socket /\ bringer' = bringer
  BY DEF Broadcast, storeVars, vars
<1>3. /\ MaxFrame \in Nat \ {0} /\ latest \in 0..MaxFrame /\ sent \in 0..latest
      /\ pushed \in 0..latest /\ queue \in [Socket -> Seq(Nat)] /\ greeting \in [Socket -> Nat]
      /\ \A j \in 1..Len(events) : events[j] \in Nat /\ events[j] <= sent
      /\ events \in Seq(Nat)
  BY FeedConstants DEF InOrder, FeedTypes
<1>4. n \in Nat /\ n >= sent /\ n >= 1 /\ n <= latest /\ (n \in EventFrames => n > sent)
  BY <1>1, <1>3, FeedConstants
<1>5. FeedTypes'
  <2>1. queue' \in [Socket -> Seq(Nat)] BY <1>1, <1>3, <1>4
  <2>2. sent' \in 0..latest BY <1>1, <1>3, <1>4
  <2>3. \A j \in 1..Len(events) : events[j] <= sent' BY <1>1, <1>3, <1>4
  <2> QED BY <1>2, <1>3, <2>1, <2>2, <2>3 DEF InOrder, FeedTypes
<1>6. Greetings' BY <1>2 DEF InOrder, Greetings
<1>7. ASSUME NEW s \in Socket, socket[s] = "open" PROVE InTurn(s)'
  <2>1. InTurn(s) /\ greeting[s] \in Nat /\ queue[s] \in Seq(Nat)
    BY <1>3, <1>7 DEF InOrder, OpenInTurn
  <2>2. PICK q \in Seq(Nat) : q = queue[s] BY <2>1
  <2>3. Len(q) \in Nat /\ \A i \in 1..Len(q) : q[i] \in Nat BY <2>2
  <2>4. /\ \A i \in 1..Len(q) : Fresh(s, q[i])
        /\ \A i, k \in 1..Len(q) : i < k => Ordered(q[i], q[k])
        /\ pushed <= sent \/ pushed <= greeting[s]
        /\ s \in ungreeted => pushed <= greeting[s] \/ bringer = s
    BY <2>1, <2>2 DEF InTurn
  <2>5. \A i \in 1..Len(q) : Fresh(s, q[i])' BY <1>1, <1>2, <1>3, <1>4, <2>3, <2>4 DEF Fresh
  <2>6. Fresh(s, n)' BY <1>1, <1>2, <1>3, <1>4, <2>1, <2>4 DEF Fresh
  <2>7. \A i \in 1..Len(q) : Ordered(q[i], n) BY <1>3, <1>4, <2>3, <2>4 DEF Fresh, Ordered
  <2>8. /\ pushed' <= sent' \/ pushed' <= greeting'[s]
        /\ s \in ungreeted' => pushed' <= greeting'[s] \/ bringer' = s
    BY <1>1, <1>2, <1>3, <1>4, <2>1, <2>4
  <2>9. CASE queue'[s] = q BY <2>4, <2>5, <2>8, <2>9 DEF InTurn, Ordered
  <2>10. CASE queue'[s] = Append(q, n)
    <3>1. PICK r \in Seq(Nat) : r = Append(q, n)
      <4>1. Append(q, n) \in Seq(Nat) BY <1>4
      <4> QED BY <4>1
    <3>2. Len(r) = Len(q) + 1 /\ r[Len(q) + 1] = n /\ \A i \in 1..Len(q) : r[i] = q[i]
      BY <1>4, <3>1
    <3>3. \A i \in 1..Len(r) : i \in 1..Len(q) \/ i = Len(q) + 1 BY <2>3, <3>2
    <3>4. \A i \in 1..Len(r) : Fresh(s, r[i])'
      <4> TAKE i \in 1..Len(r)
      <4>1. CASE i \in 1..Len(q)
        <5>1. r[i] = q[i] BY <3>2, <4>1
        <5> QED BY <2>5, <4>1, <5>1 DEF Fresh
      <4>2. CASE i = Len(q) + 1
        <5>1. r[i] = n BY <3>2, <4>2
        <5> QED BY <2>6, <5>1 DEF Fresh
      <4> QED BY <3>3, <4>1, <4>2
    <3>5. ASSUME NEW i \in 1..Len(r), NEW k \in 1..Len(r), i < k PROVE Ordered(r[i], r[k])
      <4>1. i \in 1..Len(q) BY <2>3, <3>2, <3>5
      <4>2. r[i] = q[i] BY <3>2, <4>1
      <4>3. CASE k \in 1..Len(q)
        <5>1. r[k] = q[k] BY <3>2, <4>3
        <5> QED BY <2>4, <3>5, <4>1, <4>2, <4>3, <5>1
      <4>4. CASE k = Len(q) + 1
        <5>1. r[k] = n BY <3>2, <4>4
        <5> QED BY <2>7, <4>1, <4>2, <5>1
      <4> QED BY <3>3, <4>3, <4>4
    <3> QED BY <2>8, <2>10, <3>1, <3>4, <3>5 DEF InTurn, Ordered
  <2> QED BY <1>1, <2>2, <2>9, <2>10
<1>8. OpenInTurn' BY <1>2, <1>7 DEF OpenInTurn
<1> QED BY <1>5, <1>6, <1>8 DEF InOrder

\* A greeting is made of a snapshot as new as any the page has taken.
LEMMA GreetsKeeps == ASSUME InOrder, NEW s \in Socket, Greets(s) PROVE InOrder'
<1>1. /\ latest' = latest /\ sent' = sent /\ pushed' = pushed /\ events' = events
      /\ queue' = queue /\ socket' = socket /\ bringer' = bringer
      /\ socket[s] = "connecting" /\ ungreeted' = ungreeted \cup {s}
      /\ greeting' = [greeting EXCEPT ![s] = Newest(latest)]
  BY DEF Greets, serverVars, storeVars, vars
<1>2. /\ MaxFrame \in Nat \ {0} /\ latest \in 0..MaxFrame /\ greeting \in [Socket -> Nat]
      /\ pushed \in 0..latest /\ pushed \notin EventFrames /\ ungreeted \subseteq Socket
  BY FeedConstants DEF InOrder, FeedTypes
<1>3. latest \in Nat BY <1>2
<1>4. PICK g \in Nat : /\ g = Newest(latest) /\ g <= latest /\ g \notin EventFrames
                       /\ pushed <= g
  BY <1>2, <1>3, NewestIs
<1>5. /\ greeting' \in [Socket -> Nat] /\ greeting'[s] = g
      /\ \A x \in Socket \ {s} : greeting'[x] = greeting[x]
  BY <1>1, <1>2, <1>4
<1>6. FeedTypes' BY <1>1, <1>5 DEF InOrder, FeedTypes
<1>7. Greetings'
  <2> SUFFICES ASSUME NEW x \in ungreeted'
               PROVE /\ greeting'[x] <= latest' /\ greeting'[x] \notin EventFrames
                     /\ socket'[x] \in {"connecting", "open"}
                     /\ socket'[x] = "connecting" => pushed' <= greeting'[x]
    BY DEF Greetings
  <2>1. CASE x = s BY <1>1, <1>4, <1>5, <2>1
  <2>2. CASE x # s BY <1>1, <1>2, <1>5, <2>2 DEF InOrder, Greetings
  <2> QED BY <2>1, <2>2
<1>8. ASSUME NEW x \in Socket, socket'[x] = "open" PROVE InTurn(x)'
  <2>1. x # s /\ InTurn(x) BY <1>1, <1>8 DEF InOrder, OpenInTurn
  <2> QED BY <1>1, <1>5, <2>1 DEF InTurn, Fresh, Ordered
<1> QED BY <1>6, <1>7, <1>8 DEF InOrder, OpenInTurn

\* A connection opens with nothing on its way but its greeting.
LEMMA JoinsKeeps == ASSUME ConnInv, InOrder, NEW s \in Socket, Joins(s) PROVE InOrder'
<1>1. /\ latest' = latest /\ sent' = sent /\ pushed' = pushed /\ events' = events
      /\ greeting' = greeting /\ ungreeted' = ungreeted /\ bringer' = bringer
      /\ queue' = [queue EXCEPT ![s] = <<>>] /\ s \in ungreeted /\ socket[s] = "connecting"
      /\ socket'[s] = "open" /\ \A x \in Socket \ {s} : socket'[x] = socket[x]
  BY DEF ConnInv, TypeOK, Joins, Open, serverVars, storeVars
<1>2. /\ queue \in [Socket -> Seq(Nat)] /\ greeting \in [Socket -> Nat]
      /\ ungreeted \subseteq Socket
  BY DEF InOrder, FeedTypes
<1>3. queue' \in [Socket -> Seq(Nat)]
  <2>1. <<>> \in Seq(Nat) OBVIOUS
  <2> QED BY <1>1, <1>2, <2>1
<1>4. FeedTypes' BY <1>1, <1>3 DEF InOrder, FeedTypes
<1>5. pushed <= greeting[s] BY <1>1 DEF InOrder, Greetings
<1>6. Greetings' BY <1>1, <1>2 DEF InOrder, Greetings
<1>7. InTurn(s)'
  <2>1. queue'[s] = <<>> BY <1>1, <1>2
  <2>2. \A i \in 1..Len(queue'[s]) : FALSE BY <2>1
  <2> QED BY <1>1, <1>5, <2>2 DEF InTurn
<1>8. ASSUME NEW x \in Socket \ {s}, socket'[x] = "open" PROVE InTurn(x)'
  <2>1. InTurn(x) BY <1>1, <1>8 DEF InOrder, OpenInTurn
  <2>2. queue'[x] = queue[x] BY <1>1, <1>2
  <2> QED BY <1>1, <2>1, <2>2 DEF InTurn, Fresh, Ordered
<1> QED BY <1>4, <1>6, <1>7, <1>8 DEF InOrder, OpenInTurn

\* The client of the page is the only one with a live socket.
LEMMA OneLive ==
    ASSUME ConnInv, Current, NEW s \in Socket, NEW t \in Socket, IsLive(s), IsLive(t)
    PROVE s = t
<1>1. owner[s] = mounts /\ owner[t] = mounts BY DEF Current
<1>2. owner[s] \in Mounted BY DEF ConnInv, TypeOK
<1>3. s \in Held(owner[s]) /\ t \in Held(owner[s]) BY <1>1 DEF Held, IsLive
<1> QED BY <1>2, <1>3 DEF ConnInv, ClientInv

\* What taking a snapshot or an event changes of the page.
LEMMA TakeDoes ==
    ASSUME NEW s, NEW n, Take(s, n)
    PROVE \/ n \in EventFrames /\ AddEvent(n) /\ pushed' = pushed /\ bringer' = bringer
          \/ /\ n \notin EventFrames /\ events' = events
             /\ \/ pushed' = pushed /\ bringer' = bringer
                \/ pushed' = n /\ bringer' = s
BY DEF Take

\* What a delivery does to the page: one frame, in turn, into one of the two.
LEMMA DeliverTakes ==
    ASSUME InOrder, NEW s \in Socket, Deliver(s)
    PROVE \E n \in Nat, q \in Seq(Nat) :
        /\ queue[s] = q /\ q # <<>> /\ n = q[1] /\ Fresh(s, n)
        /\ queue' = [queue EXCEPT ![s] = Tail(q)]
        /\ (pushed' = pushed /\ bringer' = bringer)
           \/ (pushed' = n /\ bringer' = s /\ n \notin EventFrames)
        /\ events' = events \/ (n \in EventFrames /\ AddEvent(n))
<1>1. queue \in [Socket -> Seq(Nat)] BY DEF InOrder, FeedTypes
<1>2. PICK q \in Seq(Nat) : q = queue[s] BY <1>1
<1>3. q # <<>> /\ socket[s] = "open" BY <1>2 DEF Deliver
<1>4. Head(q) = q[1] /\ 1 \in 1..Len(q) BY <1>3, Rest
<1>5. PICK n \in Nat : n = q[1] BY <1>2, <1>4
<1>6. InTurn(s) BY <1>3 DEF InOrder, OpenInTurn
<1>7. Fresh(s, n) BY <1>2, <1>4, <1>5, <1>6 DEF InTurn
<1>8. Take(s, n) BY <1>2, <1>4, <1>5 DEF Deliver
<1>9. queue' = [queue EXCEPT ![s] = Tail(q)] BY <1>2 DEF Deliver
<1>10. /\ (pushed' = pushed /\ bringer' = bringer)
          \/ (pushed' = n /\ bringer' = s /\ n \notin EventFrames)
       /\ events' = events \/ (n \in EventFrames /\ AddEvent(n))
  BY <1>8, TakeDoes
<1> QED BY <1>2, <1>3, <1>5, <1>7, <1>9, <1>10

\* What is behind a frame in its queue is still fresh when it has been taken.
LEMMA DeliverKeeps == ASSUME ConnInv, Orderly, NEW s \in Socket, Deliver(s) PROVE InOrder'
<1>1. PICK n \in Nat, q \in Seq(Nat) :
        /\ queue[s] = q /\ q # <<>> /\ n = q[1] /\ Fresh(s, n)
        /\ queue' = [queue EXCEPT ![s] = Tail(q)]
        /\ (pushed' = pushed /\ bringer' = bringer)
           \/ (pushed' = n /\ bringer' = s /\ n \notin EventFrames)
        /\ events' = events \/ (n \in EventFrames /\ AddEvent(n))
  BY DeliverTakes DEF Orderly
<1>2. /\ latest' = latest /\ sent' = sent /\ greeting' = greeting /\ socket' = socket
      /\ ungreeted' = ungreeted /\ socket[s] = "open"
  BY DEF Deliver, serverVars, vars
<1>3. /\ MaxFrame \in Nat /\ latest \in 0..MaxFrame /\ sent \in 0..latest
      /\ pushed \in 0..latest /\ pushed \notin EventFrames
      /\ events \in Seq(Nat) /\ \A j \in 1..Len(events) : events[j] <= sent
      /\ queue \in [Socket -> Seq(Nat)] /\ greeting \in [Socket -> Nat]
      /\ ungreeted \subseteq Socket
  BY FeedConstants DEF Orderly, InOrder, FeedTypes
<1>4. greeting[s] \in Nat /\ latest \in Nat /\ sent \in Nat /\ pushed \in Nat BY <1>3
<1>5. PICK r \in Seq(Nat) :
        /\ r = Tail(q) /\ Len(r) = Len(q) - 1 /\ Len(q) \in Nat \ {0}
        /\ \A i \in 1..Len(r) : r[i] = q[i + 1]
  BY <1>1, Rest
<1>6. queue'[s] = r BY <1>1, <1>3, <1>5
<1>7. /\ events' \in Seq(Nat)
      /\ \A j \in 1..Len(events') :
            \/ n \in EventFrames /\ events'[j] = n
            \/ \E i \in 1..Len(events) : events'[j] = events[i]
  <2>1. CASE events' = events BY <1>3, <2>1
  <2>2. CASE events' # events /\ n \in EventFrames /\ AddEvent(n) BY <1>3, <2>2, Listed
  <2> QED BY <1>1, <2>1, <2>2
<1>8. pushed' \in 0..latest /\ pushed' \notin EventFrames BY <1>1, <1>3, <1>4 DEF Fresh
<1>9. FeedTypes'
  <2>1. queue' \in [Socket -> Seq(Nat)]
    <3>1. queue' = [queue EXCEPT ![s] = r] BY <1>1, <1>5
    <3> QED BY <1>3, <3>1
  <2>2. ASSUME NEW j \in 1..Len(events') PROVE events'[j] <= sent'
    <3>1. CASE n \in EventFrames /\ events'[j] = n BY <1>1, <1>2, <3>1 DEF Fresh
    <3>2. CASE \E i \in 1..Len(events) : events'[j] = events[i] BY <1>2, <1>3, <3>2
    <3> QED BY <1>7, <3>1, <3>2
  <2> QED BY <1>2, <1>3, <1>7, <1>8, <2>1, <2>2 DEF FeedTypes
<1>10. \A x \in Socket : IsLive(x) => x = s BY <1>2, OneLive DEF Orderly, IsLive
<1>11. Greetings'
  <2>1. \A x \in ungreeted : socket[x] = "open"
    BY <1>2, <1>3, <1>10 DEF Orderly, InOrder, Greetings, IsLive
  <2> QED BY <1>2, <2>1 DEF Orderly, InOrder, Greetings
<1>12. InTurn(s)'
  <2>1. /\ pushed <= sent \/ pushed <= greeting[s]
        /\ s \in ungreeted => pushed <= greeting[s] \/ bringer = s
        /\ \A i \in 1..Len(q) : Fresh(s, q[i])
        /\ \A i, k \in 1..Len(q) : i < k => Ordered(q[i], q[k])
    BY <1>1, <1>2 DEF Orderly, InOrder, OpenInTurn, InTurn
  <2>2. /\ pushed' <= sent' \/ pushed' <= greeting'[s]
        /\ s \in ungreeted' => pushed' <= greeting'[s] \/ bringer' = s
    BY <1>1, <1>2, <1>4, <2>1 DEF Fresh
  <2>3. ASSUME NEW m \in Nat, Fresh(s, m), Ordered(n, m) PROVE Fresh(s, m)'
    <3>1. CASE m \in EventFrames
      <4>1. \A j \in 1..Len(events) : events[j] < m BY <2>3, <3>1 DEF Fresh
      <4>2. n < m BY <2>3, <3>1 DEF Ordered
      <4>3. \A j \in 1..Len(events') : events'[j] < m BY <1>7, <4>1, <4>2
      <4> QED BY <1>2, <2>3, <3>1, <4>3 DEF Fresh
    <3>2. CASE m \notin EventFrames
      <4>1. (pushed <= m \/ m < greeting[s]) /\ n <= m BY <2>3, <3>2 DEF Fresh, Ordered
      <4>2. pushed' <= m \/ m < greeting'[s] BY <1>1, <1>2, <4>1
      <4> QED BY <1>2, <2>3, <3>2, <4>2 DEF Fresh
    <3> QED BY <3>1, <3>2
  <2>4. ASSUME NEW i \in 1..Len(r)
        PROVE i + 1 \in 1..Len(q) /\ r[i] = q[i + 1] /\ q[i + 1] \in Nat
    BY <1>5, <2>4
  <2>5. \A i \in 1..Len(r) : Fresh(s, r[i])'
    <3> TAKE i \in 1..Len(r)
    <3>1. PICK m \in Nat : m = r[i] BY <2>4
    <3>2. Fresh(s, m) BY <2>1, <2>4, <3>1
    <3>3. 1 \in 1..Len(q) /\ 1 < i + 1 BY <1>5
    <3>4. Ordered(n, m) BY <1>1, <2>1, <2>4, <3>1, <3>3
    <3>5. Fresh(s, m)' BY <2>3, <3>2, <3>4
    <3> QED BY <3>1, <3>5 DEF Fresh
  <2>6. ASSUME NEW i \in 1..Len(r), NEW k \in 1..Len(r), i < k PROVE Ordered(r[i], r[k])
    <3>1. i + 1 < k + 1 /\ i + 1 \in 1..Len(q) /\ k + 1 \in 1..Len(q) BY <2>4, <2>6
    <3>2. Ordered(q[i + 1], q[k + 1]) BY <2>1, <3>1
    <3> QED BY <2>4, <3>2
  <2> QED BY <1>6, <2>2, <2>5, <2>6 DEF InTurn, Ordered
<1>13. OpenInTurn' BY <1>2, <1>10, <1>12 DEF OpenInTurn, IsLive
<1> QED BY <1>9, <1>11, <1>13 DEF InOrder

\* When the greeting has been taken, what it is ahead of is allowed for.
LEMMA GreetedKeeps == ASSUME ConnInv, Orderly, NEW s \in Socket, Greeted(s) PROVE InOrder'
<1>1. /\ latest' = latest /\ sent' = sent /\ greeting' = greeting /\ socket' = socket
      /\ queue' = queue /\ ungreeted' = ungreeted \ {s} /\ s \in ungreeted
      /\ socket[s] = "open"
  BY DEF Greeted, serverVars, vars
<1>2. greeting[s] <= latest /\ greeting[s] \notin EventFrames
  BY <1>1 DEF Orderly, InOrder, Greetings
<1>3. events' = events /\ ((pushed' = pushed /\ bringer' = bringer) \/ pushed' = greeting[s])
  <2>1. Take(s, greeting[s]) BY DEF Greeted
  <2> QED BY <1>2, <2>1, TakeDoes
<1>4. /\ MaxFrame \in Nat /\ latest \in 0..MaxFrame /\ sent \in 0..latest
      /\ pushed \in 0..latest /\ greeting \in [Socket -> Nat] /\ ungreeted \subseteq Socket
      /\ queue \in [Socket -> Seq(Nat)]
  BY FeedConstants DEF Orderly, InOrder, FeedTypes
<1>5. latest \in Nat /\ greeting[s] \in Nat BY <1>4
<1>6. FeedTypes' BY <1>1, <1>2, <1>3, <1>5 DEF Orderly, InOrder, FeedTypes
<1>7. \A x \in Socket : IsLive(x) => x = s BY <1>1, OneLive DEF Orderly, IsLive
<1>8. Greetings'
  <2>1. \A x \in ungreeted : socket[x] = "open"
    BY <1>1, <1>4, <1>7 DEF Orderly, InOrder, Greetings, IsLive
  <2> QED BY <1>1, <2>1 DEF Orderly, InOrder, Greetings
<1>9. InTurn(s)'
  <2>1. InTurn(s) BY <1>1 DEF Orderly, InOrder, OpenInTurn
  <2>2. PICK q \in Seq(Nat) : q = queue[s] BY <1>4
  <2>3. \A i \in 1..Len(q) : q[i] \in Nat BY <2>2
  <2>4. ASSUME NEW n \in Nat, Fresh(s, n) PROVE Fresh(s, n)'
    BY <1>1, <1>3, <1>5, <2>4 DEF Fresh
  <2>5. \A i \in 1..Len(q) : Fresh(s, q[i])'
    <3> TAKE i \in 1..Len(q)
    <3>1. PICK n \in Nat : n = q[i] BY <2>3
    <3>2. Fresh(s, n)' BY <2>1, <2>2, <2>4, <3>1 DEF InTurn
    <3> QED BY <3>1, <3>2 DEF Fresh
  <2>6. pushed' <= sent' \/ pushed' <= greeting'[s] BY <1>1, <1>3, <1>5, <2>1 DEF InTurn
  <2>7. s \notin ungreeted' BY <1>1
  <2>8. \A i, k \in 1..Len(q) : i < k => Ordered(q[i], q[k]) BY <2>1, <2>2 DEF InTurn
  <2> QED BY <1>1, <2>2, <2>5, <2>6, <2>7, <2>8 DEF InTurn, Ordered
<1>10. OpenInTurn' BY <1>1, <1>7, <1>9 DEF OpenInTurn, IsLive
<1> QED BY <1>6, <1>8, <1>10 DEF InOrder

\* A step that sends and takes no frame and opens no connection.
LEMMA OthersKeep ==
    ASSUME InOrder, UNCHANGED <<latest, sent, pushed, events>>,
           \A s \in Socket : /\ socket'[s] = "open" => socket[s] = "open"
                             /\ socket'[s] = "connecting" => socket[s] # "open",
           \/ UNCHANGED <<socket, queue, greeting, ungreeted, bringer>>
           \/ Undelivered
    PROVE InOrder'
<1>1. latest' = latest /\ sent' = sent /\ pushed' = pushed /\ events' = events OBVIOUS
<1>2. /\ queue \in [Socket -> Seq(Nat)] /\ greeting \in [Socket -> Nat]
      /\ ungreeted \subseteq Socket
  BY DEF InOrder, FeedTypes
<1>3. ASSUME NEW s \in Socket, socket'[s] = "open"
      PROVE /\ queue'[s] = queue[s] /\ greeting'[s] = greeting[s]
            /\ s \in ungreeted' => s \in ungreeted
            /\ bringer = s => bringer' = s
  BY <1>3 DEF Undelivered
<1>4. /\ queue' \in [Socket -> Seq(Nat)] /\ greeting' \in [Socket -> Nat]
      /\ ungreeted' \subseteq ungreeted
  <2>1. <<>> \in Seq(Nat) OBVIOUS
  <2>2. CASE Undelivered BY <1>2, <2>1, <2>2 DEF Undelivered
  <2> QED BY <1>2, <2>2
<1>5. FeedTypes' BY <1>1, <1>2, <1>4 DEF InOrder, FeedTypes
<1>6. ASSUME NEW s \in ungreeted'
      PROVE /\ s \in ungreeted /\ greeting'[s] = greeting[s]
            /\ socket'[s] \in {"connecting", "open"}
            /\ socket'[s] = "connecting" => socket[s] = "connecting"
  <2>1. s \in ungreeted /\ s \in Socket BY <1>2, <1>4
  <2>2. socket[s] \in {"connecting", "open"} BY <2>1 DEF InOrder, Greetings
  <2>3. CASE Undelivered BY <2>1, <2>2, <2>3 DEF Undelivered
  <2> QED BY <2>1, <2>2, <2>3
<1>7. Greetings' BY <1>1, <1>6 DEF InOrder, Greetings
<1>8. ASSUME NEW s \in Socket, socket'[s] = "open" PROVE InTurn(s)'
  <2>1. InTurn(s) BY <1>8 DEF InOrder, OpenInTurn
  <2> QED BY <1>1, <1>3, <1>8, <2>1 DEF InTurn, Fresh, Ordered
<1> QED BY <1>5, <1>7, <1>8 DEF InOrder, OpenInTurn

\* Frames are taken in their turn, after every step of the page and of the server.
LEMMA OrderlyStep ==
    ASSUME ConnInv, Orderly, [FeedNext]_allVars, ~orphaned' PROVE Orderly'
<1>1. Current' BY CurrentStep DEF Orderly
<1>2. socket \in [Socket -> {"connecting", "open", "dead", "broken", "closing", "closed"}]
  BY DEF ConnInv, TypeOK
<1>3. CASE Publish BY <1>1, <1>3, PublishKeeps DEF Orderly
<1>4. CASE Broadcast BY <1>1, <1>4, BroadcastKeeps DEF Orderly
<1>5. ASSUME NEW s \in Socket, Greets(s) \/ Joins(s) PROVE Orderly'
  BY <1>1, <1>5, GreetsKeeps, JoinsKeeps DEF Orderly
<1>6. ASSUME NEW s \in Socket, Deliver(s) \/ Greeted(s) PROVE Orderly'
  BY <1>1, <1>6, DeliverKeeps, GreetedKeeps DEF Orderly
<1> DEFINE NoneOpens == \A s \in Socket : /\ socket'[s] = "open" => socket[s] = "open"
                                          /\ socket'[s] = "connecting" => socket[s] # "open"
<1>7. CASE AppMounts
  <2>1. NoneOpens BY <1>2, <1>7 DEF AppMounts, Mount, Connect
  <2>2. Undelivered /\ UNCHANGED <<latest, sent, pushed, events>>
    BY <1>7 DEF AppMounts, serverVars, storeVars
  <2> QED BY <1>1, <2>1, <2>2, OthersKeep DEF Orderly
<1>8. CASE Connection
  <2>1. NoneOpens
    <3>1. ASSUME NEW s \in Socket, SocketEnds(s) PROVE NoneOpens
      <4>1. socket' = [socket EXCEPT ![s] = "closed"] BY <3>1, EndsAlone
      <4> QED BY <1>2, <4>1
    <3>2. ASSUME NEW c \in Mounted, TimerFires(c) PROVE NoneOpens
      BY <1>2, <3>2 DEF TimerFires, Connect
    <3>3. CASE Unmount BY <1>2, <3>3 DEF Unmount, Closing
    <3>4. CASE PathGoes \/ PathComes BY <1>2, <3>4 DEF PathGoes, PathComes
    <3> QED BY <1>8, <3>1, <3>2, <3>3, <3>4 DEF Connection
  <2>2. Undelivered /\ UNCHANGED <<latest, sent, pushed, events>>
    BY <1>8 DEF Connection, serverVars, storeVars
  <2> QED BY <1>1, <2>1, <2>2, OthersKeep DEF Orderly
<1>9. ASSUME UNCHANGED <<socket, latest, sent, pushed, events, queue, greeting, ungreeted,
                         bringer>>
      PROVE Orderly'
  BY <1>1, <1>9, OthersKeep DEF Orderly
<1>10. ASSUME NEW c \in Mounted, Answer(c) \/ FetchArrives(c) \/ FetchFails(c) PROVE Orderly'
  BY <1>9, <1>10 DEF Answer, FetchArrives, FetchFails, serverVars, storeVars, wireVars, vars
<1>11. CASE Tick \/ TogglePause
  BY <1>9, <1>11 DEF Tick, TogglePause, serverVars, storeVars, wireVars, vars
<1>12. ASSUME NEW r \in Rate, SetRefreshRate(r) PROVE Orderly'
  BY <1>9, <1>12 DEF SetRefreshRate, serverVars, storeVars, wireVars, vars
<1>13. CASE UNCHANGED allVars
  BY <1>9, <1>13 DEF allVars, feedVars, serverVars, storeVars, wireVars, vars
<1> QED BY <1>3, <1>4, <1>5, <1>6, <1>7, <1>8, <1>10, <1>11, <1>12, <1>13 DEF FeedNext

\* A forgotten timer that fired has fired.
LEMMA OrphanedStays == ASSUME orphaned, [FeedNext]_allVars PROVE orphaned'
<1>1. ASSUME NEW s \in Socket, Greets(s) \/ Joins(s) \/ Deliver(s) \/ Greeted(s)
      PROVE orphaned'
  BY <1>1 DEF Greets, Joins, Deliver, Greeted
<1>2. ASSUME NEW c \in Mounted, Answer(c) \/ FetchArrives(c) \/ FetchFails(c) PROVE orphaned'
  BY <1>2 DEF Answer, FetchArrives, FetchFails
<1>3. CASE AppMounts BY <1>3 DEF AppMounts
<1>4. CASE Connection BY <1>4 DEF Connection
<1>5. CASE Publish \/ Broadcast \/ Tick \/ TogglePause
  BY <1>5 DEF Publish, Broadcast, Tick, TogglePause
<1>6. ASSUME NEW r \in Rate, SetRefreshRate(r) PROVE orphaned' BY <1>6 DEF SetRefreshRate
<1>7. CASE UNCHANGED allVars BY <1>7 DEF allVars, feedVars
<1> QED BY <1>1, <1>2, <1>3, <1>4, <1>5, <1>6, <1>7 DEF FeedNext

\* The invariant of the whole page.
LEMMA FeedHolds == FeedSpec => []FeedInv
<1>1. ASSUME FeedInit PROVE FeedInv
  <2>1. ConnInv BY <1>1, ConnInit DEF FeedInit
  <2>2. Current /\ Greetings /\ OpenInTurn
    BY <1>1 DEF FeedInit, Init, Current, Greetings, OpenInTurn, IsLive
  <2>3. FeedTypes
    <3>1. MaxFrame \in Nat /\ 0 \notin EventFrames BY FeedConstants
    <3>2. <<>> \in Seq(Nat) OBVIOUS
    <3>3. latest = 0 /\ sent = 0 /\ pushed = 0 /\ events = <<>> /\ ungreeted = {}
      BY <1>1 DEF FeedInit
    <3>4. queue \in [Socket -> Seq(Nat)] /\ greeting \in [Socket -> Nat]
      BY <1>1, <3>2 DEF FeedInit
    <3> QED BY <3>1, <3>2, <3>3, <3>4 DEF FeedTypes
  <2> QED BY <2>1, <2>2, <2>3 DEF FeedInv, Orderly, InOrder
<1>2. ASSUME FeedInv, [FeedNext]_allVars PROVE FeedInv'
  <2>1. ConnInv' BY <1>2, FeedSteps, ConnStep DEF FeedInv
  <2>2. ASSUME ~orphaned' PROVE Orderly'
    <3>1. ~orphaned BY <1>2, <2>2, OrphanedStays
    <3> QED BY <1>2, <2>2, <3>1, OrderlyStep DEF FeedInv
  <2> QED BY <2>1, <2>2 DEF FeedInv
<1> QED BY <1>1, <1>2, PTL DEF FeedSpec

\* A push takes the page back behind an earlier one only by a frame older than the
\* greeting of its connection or by a greeting after a newer frame of its connection, and
\* no event is listed twice or before an older one: at any number of frames,
\* reconnections and mounts.
THEOREM NeverBackwardsHolds == FeedSpec => NeverBackwards
<1> DEFINE Forward ==
      ~orphaned =>
        /\ pushed' < pushed => \E s \in Socket :
              \/ queue[s] # queue'[s] /\ pushed' < greeting[s]
              \/ s \in ungreeted \ ungreeted' /\ pushed' = greeting[s] /\ bringer = s
        /\ events' # events => \A i \in DOMAIN events : events[i] < events'[Len(events')]
<1>1. ASSUME FeedInv, ~orphaned, NEW s \in Socket, Deliver(s) PROVE Forward
  <2>1. InOrder BY <1>1 DEF FeedInv, Orderly
  <2>2. PICK n \in Nat, q \in Seq(Nat) :
          /\ queue[s] = q /\ q # <<>> /\ n = q[1] /\ Fresh(s, n)
          /\ queue' = [queue EXCEPT ![s] = Tail(q)]
          /\ (pushed' = pushed /\ bringer' = bringer)
             \/ (pushed' = n /\ bringer' = s /\ n \notin EventFrames)
          /\ events' = events \/ (n \in EventFrames /\ AddEvent(n))
    BY <1>1, <2>1, DeliverTakes
  <2>3. /\ queue \in [Socket -> Seq(Nat)] /\ pushed \in Nat /\ events \in Seq(Nat)
        /\ greeting[s] \in Nat
    BY <2>1 DEF InOrder, FeedTypes
  <2>4. Len(q) \in Nat BY <2>2
  <2>5. Len(queue'[s]) # Len(queue[s])
    <3>1. PICK r \in Seq(Nat) : r = Tail(q) /\ Len(r) = Len(q) - 1 BY <2>2, Rest
    <3>2. queue'[s] = r BY <2>2, <2>3, <3>1
    <3>3. Len(r) # Len(q)
      <4> HIDE DEF Forward
      <4>1. PICK k \in Nat : k = Len(q) BY <2>4
      <4>2. k - 1 # k BY <4>1
      <4> QED BY <3>1, <4>1, <4>2
    <3> QED BY <2>2, <3>2, <3>3
  <2>6. ASSUME pushed' < pushed PROVE pushed' < greeting[s]
    BY <2>2, <2>3, <2>6 DEF Fresh
  <2>7. ASSUME events' # events PROVE \A i \in DOMAIN events : events[i] < events'[Len(events')]
    <3>1. events'[Len(events')] = n BY <2>2, <2>3, <2>7, Listed
    <3>2. \A i \in 1..Len(events) : events[i] < n BY <2>2, <2>7 DEF Fresh
    <3>3. DOMAIN events = 1..Len(events) BY <2>3
    <3> QED BY <3>1, <3>2, <3>3
  <2> QED BY <2>5, <2>6, <2>7
<1>2. ASSUME FeedInv, ~orphaned, NEW s \in Socket, Greeted(s) PROVE Forward
  <2>1. InOrder BY <1>2 DEF FeedInv, Orderly
  <2>2. /\ s \in ungreeted /\ ungreeted' = ungreeted \ {s} /\ socket[s] = "open"
        /\ Take(s, greeting[s])
    BY <1>2 DEF Greeted
  <2>3. greeting[s] \notin EventFrames BY <2>1, <2>2 DEF InOrder, Greetings
  <2>4. events' = events /\ (pushed' = pushed \/ pushed' = greeting[s])
    BY <2>2, <2>3, TakeDoes
  <2>5. pushed \in Nat /\ greeting[s] \in Nat BY <2>1 DEF InOrder, FeedTypes
  <2>6. pushed <= greeting[s] \/ bringer = s
    BY <2>1, <2>2 DEF InOrder, OpenInTurn, InTurn
  <2>7. pushed' < pushed => pushed' = greeting[s] /\ bringer = s BY <2>4, <2>5, <2>6
  <2> QED BY <2>2, <2>4, <2>7
<1>3. ASSUME pushed' = pushed, events' = events, FeedInv, ~orphaned PROVE Forward
  <2>1. pushed \in Nat BY <1>3 DEF FeedInv, Orderly, InOrder, FeedTypes
  <2> QED BY <1>3, <2>1
<1>4. ASSUME FeedInv, [FeedNext]_allVars PROVE [Forward]_allVars
  <2> SUFFICES ASSUME ~orphaned PROVE Forward OBVIOUS
  <2> HIDE DEF Forward
  <2>1. ASSUME NEW s \in Socket, Greets(s) \/ Joins(s) PROVE Forward
    BY <1>3, <1>4, <2>1 DEF Greets, Joins, storeVars
  <2>2. ASSUME NEW c \in Mounted, Answer(c) \/ FetchArrives(c) \/ FetchFails(c) PROVE Forward
    BY <1>3, <1>4, <2>2 DEF Answer, FetchArrives, FetchFails, storeVars
  <2>3. CASE AppMounts BY <1>3, <1>4, <2>3 DEF AppMounts, storeVars
  <2>4. CASE Connection BY <1>3, <1>4, <2>4 DEF Connection, storeVars
  <2>5. CASE Publish \/ Broadcast \/ Tick \/ TogglePause
    BY <1>3, <1>4, <2>5 DEF Publish, Broadcast, Tick, TogglePause, storeVars
  <2>6. ASSUME NEW r \in Rate, SetRefreshRate(r) PROVE Forward
    BY <1>3, <1>4, <2>6 DEF SetRefreshRate, storeVars
  <2>7. CASE UNCHANGED allVars BY <1>3, <1>4, <2>7 DEF allVars, feedVars, storeVars
  <2> QED BY <1>1, <1>2, <1>4, <2>1, <2>2, <2>3, <2>4, <2>5, <2>6, <2>7 DEF FeedNext
<1> QED BY <1>4, FeedHolds, PTL DEF FeedSpec, NeverBackwards
=============================================================================
