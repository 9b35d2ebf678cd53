------------------------- MODULE KernelEventsProofs -------------------------
(***************************************************************************)
(* Proofs about KernelEvents.  The truth of the events rests on the        *)
(* in-flight maps: the entries of a thread that never left the filter      *)
(* during a call are those of the call it is in.                           *)
(***************************************************************************)
EXTENDS KernelEvents, FiniteSetTheorems, FunctionTheorems, TLAPS

Submits(e) == \/ ring' = Append(ring, e) /\ Len(ring) < RingCap /\ UNCHANGED drops
              \/ drops' = drops + 1 /\ UNCHANGED ring

\* What Submit does to the ring buffer, as a disjunction.
LEMMA SubmitCases == ASSUME NEW e, Submit(e) PROVE Submits(e)
BY DEF Submit, Submits

\* A record appended to the ring buffer keeps its type and its size.
LEMMA SubmitTyped ==
    ASSUME TypeOK, NEW e \in Event, Submits(e)
    PROVE /\ ring' \in Seq(Event) /\ Len(ring') <= RingCap /\ drops' \in Nat
<1>1. CASE ring' = Append(ring, e) /\ Len(ring) < RingCap /\ UNCHANGED drops
  BY <1>1, RingCapIsNat DEF TypeOK
<1>2. CASE drops' = drops + 1 /\ UNCHANGED ring
  BY <1>2 DEF TypeOK
<1> QED BY <1>1, <1>2 DEF Submits

\* An event made of an argument of the model is an event.
LEMMA EvTyped ==
    ASSUME NEW ty \in {"open", "connect"}, NEW a \in Arg, NEW b \in BOOLEAN, NEW r \in Arg
    PROVE Ev(ty, a, b, r) \in Event
BY DEF Ev, Event

-----------------------------------------------------------------------------
\* Every variable has its type, whatever the filter does.
THEOREM TypeCorrect == Spec => []TypeOK
<1>1. Init => TypeOK
  <2> SUFFICES ASSUME Init PROVE TypeOK OBVIOUS
  <2> QED BY RingCapIsNat, NoneIsNoArg DEF Init, TypeOK
<1>2. TypeOK /\ [Next]_vars => TypeOK'
  <2> SUFFICES ASSUME TypeOK, [Next]_vars PROVE TypeOK' OBVIOUS
  <2>1. ASSUME NEW t \in Thread, NEW c \in Call, SysEnter(t, c) PROVE TypeOK'
    <3>1. c.kind \in Kind /\ c.arg \in Arg /\ c.marked \in BOOLEAN BY DEF Call
    <3>2. /\ ring' \in Seq(Event) /\ Len(ring') <= RingCap /\ drops' \in Nat
      <4>1. CASE t \in watched /\ c.kind = "open"
        <5>1. Submit(Ev("open", c.arg, c.marked, c.arg)) BY <2>1, <4>1 DEF SysEnter
        <5> QED BY <5>1, <3>1, SubmitCases, SubmitTyped, EvTyped
      <4>2. CASE ~(t \in watched /\ c.kind = "open")
        BY <2>1, <4>2 DEF SysEnter, SubmitNothing, TypeOK
      <4> QED BY <4>1, <4>2
    <3>3. /\ call' \in [Thread -> Call \cup {Idle}]
          /\ openIn' \in [Thread -> Arg \cup {None}]
          /\ connIn' \in [Thread -> Arg \cup {None}]
          /\ calls' \in 0..MaxCalls
      <4>1. c \in Call \cup {Idle} OBVIOUS
      <4>2. call' \in [Thread -> Call \cup {Idle}] BY <2>1, <4>1 DEF SysEnter, TypeOK
      <4>3. openIn' = [openIn EXCEPT ![t] = c.arg] \/ openIn' = openIn BY <2>1 DEF SysEnter
      <4>4. connIn' = [connIn EXCEPT ![t] = c.arg] \/ connIn' = connIn BY <2>1 DEF SysEnter
      <4>5. calls' = calls + 1 /\ calls < MaxCalls BY <2>1 DEF SysEnter
      <4>6. calls' \in 0..MaxCalls BY <4>5, RingCapIsNat DEF TypeOK
      <4>7. openIn' \in [Thread -> Arg \cup {None}] BY <4>3, <3>1 DEF TypeOK
      <4>8. connIn' \in [Thread -> Arg \cup {None}] BY <4>4, <3>1 DEF TypeOK
      <4> QED BY <4>2, <4>6, <4>7, <4>8
    <3>4. flagged' \in [Arg -> Nat]
      <4>1. flagged' = [flagged EXCEPT ![c.arg] = @ + 1] \/ flagged' = flagged
        BY <2>1 DEF SysEnter
      <4>2. flagged \in [Arg -> Nat] BY DEF TypeOK
      <4> QED BY <4>1, <4>2, <3>1
    <3> QED BY <2>1, <3>2, <3>3, <3>4 DEF SysEnter, TypeOK, agentVars
  <2>2. ASSUME NEW t \in Thread, NEW r \in Result, SysExit(t, r) PROVE TypeOK'
    <3>1. call' \in [Thread -> Call \cup {Idle}]
      BY <2>2 DEF SysExit, ExitUnwatched, ExitOther, ExitOpen, ExitConnect, Returns, TypeOK
    <3>4. ASSUME call[t].kind # "none" PROVE call[t] \in Call /\ call[t].arg \in Arg
      BY <3>4 DEF TypeOK, Idle, Call
    <3>7. connected' \subseteq Arg
      <4>1. CASE connected' = connected BY <4>1 DEF TypeOK
      <4>2. CASE connected' = connected \cup {call[t].arg}
                 /\ call[t].kind \in {"connect", "connect6"}
        BY <4>2, <3>4 DEF TypeOK
      <4> QED
        BY <2>2, <4>1, <4>2 DEF SysExit, ExitUnwatched, ExitOther, ExitOpen, ExitConnect, Returns
    <3>2. CASE ExitUnwatched(t, r)
      BY <3>1, <3>2, <3>7 DEF ExitUnwatched, TypeOK, agentVars
    <3>3. CASE ExitOther(t, r)
      BY <3>1, <3>3, <3>7 DEF ExitOther, TypeOK, agentVars
    <3>5. CASE ExitOpen(t, r)
      <4>1. call[t].arg \in Arg BY <3>4, <3>5 DEF ExitOpen
      <4>2. ring' \in Seq(Event) /\ Len(ring') <= RingCap /\ drops' \in Nat
        <5>1. CASE r = "error" /\ openIn[t] # None
          <6>1. openIn[t] \in Arg BY <5>1 DEF TypeOK
          <6>2. Submit(Ev("open", openIn[t], TRUE, call[t].arg)) BY <3>5, <5>1 DEF ExitOpen
          <6> QED BY <6>1, <6>2, <4>1, SubmitCases, SubmitTyped, EvTyped
        <5>2. CASE ~(r = "error" /\ openIn[t] # None)
          BY <3>5, <5>2 DEF ExitOpen, SubmitNothing, TypeOK
        <5> QED BY <5>1, <5>2
      <4>3. openIn' \in [Thread -> Arg \cup {None}] /\ failed' \in [Arg -> Nat]
        BY <3>5, <4>1 DEF ExitOpen, TypeOK
      <4> QED BY <3>1, <3>5, <3>7, <4>2, <4>3 DEF ExitOpen, TypeOK, agentVars
    <3>6. CASE ExitConnect(t, r)
      <4>1. call[t].arg \in Arg BY <3>4, <3>6 DEF ExitConnect
      <4>2. ring' \in Seq(Event) /\ Len(ring') <= RingCap /\ drops' \in Nat
        <5>1. CASE connIn[t] # None /\ r # "progress"
          <6>1. connIn[t] \in Arg BY <5>1 DEF TypeOK
          <6>2. Submit(Ev("connect", connIn[t], r = "error", call[t].arg))
            BY <3>6, <5>1 DEF ExitConnect
          <6>3. (r = "error") \in BOOLEAN OBVIOUS
          <6> QED BY <6>1, <6>2, <6>3, <4>1, SubmitCases, SubmitTyped, EvTyped
        <5>2. CASE ~(connIn[t] # None /\ r # "progress")
          BY <3>6, <5>2 DEF ExitConnect, SubmitNothing, TypeOK
        <5> QED BY <5>1, <5>2
      <4>3. connIn' \in [Thread -> Arg \cup {None}] BY <3>6 DEF ExitConnect, TypeOK
      <4> QED BY <3>1, <3>6, <3>7, <4>2, <4>3 DEF ExitConnect, TypeOK, agentVars
    <3> QED BY <2>2, <3>2, <3>3, <3>5, <3>6 DEF SysExit
  <2>3. CASE FilterChanges
    <3>1. watched' \subseteq Thread BY <2>3 DEF FilterChanges
    <3>2. left' \subseteq Thread BY <2>3 DEF FilterChanges, TypeOK
    <3> QED BY <2>3, <3>1, <3>2 DEF FilterChanges, TypeOK, agentVars
  <2>4. CASE Note
    <3>1. Head(ring) \in Event /\ ring' \in Seq(Event) /\ Len(ring') <= RingCap
      BY <2>4, RingCapIsNat DEF Note, TypeOK
    <3>2. /\ ops' \in [Arg -> Nat] /\ errors' \in [Arg -> Nat]
          /\ flows' \subseteq Arg /\ eventN' \in Nat
      <4> DEFINE e == Head(ring)
      <4>1. e.arg \in Arg BY <3>1 DEF Event
      <4> HIDE DEF e
      <4>2. ops' = [ops EXCEPT ![e.arg] = @ + 1] \/ ops' = ops BY <2>4 DEF Note, e
      <4>3. errors' = [errors EXCEPT ![e.arg] = @ + 1] \/ errors' = errors
        BY <2>4 DEF Note, e
      <4>4. flows' \subseteq flows \cup {e.arg} BY <2>4 DEF Note, e
      <4>5. eventN' = eventN + 1 BY <2>4 DEF Note
      <4>6. ops' \in [Arg -> Nat]
        <5>1. ops \in [Arg -> Nat] BY DEF TypeOK
        <5> QED BY <4>1, <4>2, <5>1
      <4>7. errors' \in [Arg -> Nat]
        <5>1. errors \in [Arg -> Nat] BY DEF TypeOK
        <5> QED BY <4>1, <4>3, <5>1
      <4>8. flows' \subseteq Arg /\ eventN' \in Nat BY <4>1, <4>4, <4>5 DEF TypeOK
      <4> QED BY <4>6, <4>7, <4>8
    <3> QED BY <2>4, <3>1, <3>2 DEF Note, TypeOK, historyVars
  <2>5. ASSUME NEW a \in Arg, Establishes(a) PROVE TypeOK'
    BY <2>5 DEF Establishes, TypeOK, kernelVars, agentVars
  <2>6. ASSUME NEW a \in Arg, ListSocket(a) PROVE TypeOK'
    BY <2>6 DEF ListSocket, TypeOK, kernelVars, historyVars
  <2>7. CASE UNCHANGED vars
    BY <2>7 DEF vars, kernelVars, agentVars, historyVars, TypeOK
  <2> QED BY <2>1, <2>2, <2>3, <2>4, <2>5, <2>6, <2>7 DEF Next
<1> QED BY <1>1, <1>2, PTL DEF Spec
-----------------------------------------------------------------------------
(* The entries and the events                                              *)

\* Threads that are not watched have no entry.
Unwatched ==
    \A t \in Thread \ left : t \notin watched => openIn[t] = None /\ connIn[t] = None

\* A successful connect in the ring buffer has reached its destination.
RingConnected == \A i \in 1..Len(ring) :
                     ring[i].type = "connect" /\ ~ring[i].bad => ring[i].arg \in connected

EntriesInv == EntriesAreCurrent /\ Unwatched
RingInv == EventsTrue /\ RingConnected /\ flows \cup sockets \subseteq connected
RingTold == left = {} => RingInv
IInv == TypeOK /\ EntriesInv /\ RingTold

\* A record may be added to the ring buffer if it tells the truth.
LEMMA SubmitKeeps ==
    ASSUME TypeOK, RingInv, NEW e \in Event, Submits(e), e.arg = e.real,
           e.type = "connect" /\ ~e.bad => e.arg \in connected',
           connected \subseteq connected', UNCHANGED <<flows, sockets>>
    PROVE RingInv'
<1>1. ring \in Seq(Event) BY DEF TypeOK
<1>2. CASE ring' = Append(ring, e)
  <2>1. Len(ring') = Len(ring) + 1 /\ Len(ring) \in Nat BY <1>1, <1>2
  <2>2. ASSUME NEW i \in 1..Len(ring') PROVE (i \in 1..Len(ring) /\ ring'[i] = ring[i])
                                             \/ ring'[i] = e
    BY <1>1, <1>2, <2>1, <2>2
  <2>3. EventsTrue' BY <2>2 DEF RingInv, EventsTrue
  <2>4. RingConnected' BY <2>2 DEF RingInv, RingConnected
  <2> QED BY <2>3, <2>4 DEF RingInv
<1>3. CASE ring' = ring
  BY <1>3 DEF RingInv, EventsTrue, RingConnected
<1> QED BY <1>2, <1>3 DEF Submits

\* The ring buffer unchanged.
LEMMA RingKept ==
    ASSUME RingInv, UNCHANGED <<ring, flows, sockets>>, connected \subseteq connected'
    PROVE RingInv'
BY DEF RingInv, EventsTrue, RingConnected

\* The call of a thread with an entry.
LEMMA EntryCall ==
    ASSUME EntriesAreCurrent, NEW t \in Thread \ left
    PROVE /\ openIn[t] # None => call[t].kind = "open" /\ call[t].arg = openIn[t]
          /\ connIn[t] # None => call[t].kind = "connect" /\ call[t].arg = connIn[t]
BY DEF EntriesAreCurrent

\* A call that begins finds no entry of its thread and leaves its own.
LEMMA EnterKeeps ==
    ASSUME IInv, NEW t \in Thread, NEW c \in Call, SysEnter(t, c)
    PROVE EntriesInv' /\ (left' = {} => RingInv')
<1>1. /\ TypeOK /\ EntriesAreCurrent /\ Unwatched /\ (left = {} => RingInv)
      /\ c.kind \in Kind /\ c.arg \in Arg /\ c.marked \in BOOLEAN
  BY DEF IInv, EntriesInv, RingTold, Call
<1>2. /\ call[t] = Idle /\ call' = [call EXCEPT ![t] = c]
      /\ openIn' = IF t \in watched /\ c.kind = "open"
                   THEN [openIn EXCEPT ![t] = c.arg] ELSE openIn
      /\ connIn' = IF t \in watched /\ c.kind = "connect"
                   THEN [connIn EXCEPT ![t] = c.arg] ELSE connIn
      /\ UNCHANGED <<watched, flows, sockets, connected, left>>
  BY DEF SysEnter, agentVars
<1>3. /\ call \in [Thread -> Call \cup {Idle}]
      /\ openIn \in [Thread -> Arg \cup {None}]
      /\ connIn \in [Thread -> Arg \cup {None}]
  BY <1>1 DEF TypeOK
<1>4. t \notin left => openIn[t] = None /\ connIn[t] = None
  BY <1>1, <1>2, EntryCall DEF Idle
<1>5. EntriesAreCurrent'
  <2> SUFFICES ASSUME NEW u \in Thread \ left
               PROVE /\ openIn'[u] # None => /\ call'[u].kind = "open"
                                             /\ call'[u].arg = openIn'[u]
                     /\ connIn'[u] # None => /\ call'[u].kind = "connect"
                                             /\ call'[u].arg = connIn'[u]
    BY <1>2 DEF EntriesAreCurrent
  <2>1. CASE u = t BY <1>1, <1>2, <1>3, <1>4, <2>1
  <2>2. CASE u # t
    <3>1. call'[u] = call[u] /\ openIn'[u] = openIn[u] /\ connIn'[u] = connIn[u]
      BY <1>2, <1>3, <2>2
    <3> QED BY <1>1, <3>1 DEF EntriesAreCurrent
  <2> QED BY <2>1, <2>2
<1>6. Unwatched'
  BY <1>1, <1>2, <1>3 DEF Unwatched
<1>7. ASSUME left' = {} PROVE RingInv'
  <2>1. RingInv BY <1>1, <1>2, <1>7
  <2>2. CASE t \in watched /\ c.kind = "open"
    <3> DEFINE e == Ev("open", c.arg, c.marked, c.arg)
    <3>1. Submits(e) BY <2>2, SubmitCases DEF SysEnter
    <3>2. e \in Event BY <1>1, EvTyped
    <3>3. e.arg = e.real /\ e.type # "connect" BY DEF Ev
    <3> HIDE DEF e
    <3> QED BY <1>1, <1>2, <2>1, <3>1, <3>2, <3>3, SubmitKeeps
  <2>3. CASE ~(t \in watched /\ c.kind = "open")
    BY <1>2, <2>1, <2>3, RingKept DEF SysEnter, SubmitNothing
  <2> QED BY <2>2, <2>3
<1> QED BY <1>5, <1>6, <1>7 DEF EntriesInv

\* A step of the kernel or the agent that leaves every thread its call with its
\* entries, or no entry.
LEMMA EntriesKept ==
    ASSUME EntriesInv, UNCHANGED <<watched, left>>,
           \A u \in Thread \ left :
               \/ openIn'[u] = None /\ connIn'[u] = None
               \/ call'[u] = call[u] /\ openIn'[u] = openIn[u] /\ connIn'[u] = connIn[u]
    PROVE EntriesInv'
<1>1. EntriesAreCurrent' BY DEF EntriesInv, EntriesAreCurrent
<1>2. Unwatched' BY DEF EntriesInv, Unwatched
<1> QED BY <1>1, <1>2 DEF EntriesInv

\* A call that ends removes its entry and reports what the entry says.
LEMMA ExitKeeps ==
    ASSUME IInv, NEW t \in Thread, NEW r \in Result, SysExit(t, r)
    PROVE EntriesInv' /\ (left' = {} => RingInv')
<1>1. TypeOK /\ EntriesInv /\ (left = {} => RingInv) BY DEF IInv, RingTold
<1>2. /\ openIn \in [Thread -> Arg \cup {None}]
      /\ connIn \in [Thread -> Arg \cup {None}]
      /\ call \in [Thread -> Call \cup {Idle}]
  BY <1>1 DEF TypeOK
<1>3. call' = [call EXCEPT ![t] = Idle] /\ UNCHANGED <<watched, left>>
  BY DEF SysExit, ExitUnwatched, ExitOther, ExitOpen, ExitConnect, Returns
<1>8. connected \subseteq connected'
  BY DEF SysExit, ExitUnwatched, ExitOther, ExitOpen, ExitConnect, Returns
<1>4. t \notin left =>
         /\ openIn[t] # None => call[t].kind = "open" /\ call[t].arg = openIn[t]
         /\ connIn[t] # None => call[t].kind = "connect" /\ call[t].arg = connIn[t]
  BY <1>1, EntryCall DEF EntriesInv
<1>5. CASE ExitUnwatched(t, r) \/ ExitOther(t, r)
  <2>1. t \notin left => openIn[t] = None /\ connIn[t] = None
    BY <1>1, <1>4, <1>5 DEF ExitUnwatched, ExitOther, EntriesInv, Unwatched
  <2>2. UNCHANGED <<openIn, connIn, ring, flows, sockets>>
    BY <1>5 DEF ExitUnwatched, ExitOther, agentVars
  <2>3. EntriesInv' BY <1>1, <1>2, <1>3, <2>1, <2>2, EntriesKept
  <2>4. left = {} => RingInv' BY <1>1, <1>8, <2>2, RingKept
  <2> QED BY <1>3, <2>3, <2>4
<1>6. CASE ExitOpen(t, r)
  <2>1. /\ call[t].kind = "open" /\ UNCHANGED <<connIn, flows, sockets>>
        /\ openIn' = [openIn EXCEPT ![t] = None]
    BY <1>6 DEF ExitOpen, agentVars
  <2>2. t \notin left => connIn[t] = None BY <1>4, <2>1
  <2>3. EntriesInv' BY <1>1, <1>2, <1>3, <2>1, <2>2, EntriesKept
  <2>4. ASSUME left = {} PROVE RingInv'
    <3>1. RingInv /\ t \notin left BY <1>1, <2>4
    <3>2. CASE r = "error" /\ openIn[t] # None
      <4>1. Submits(Ev("open", openIn[t], TRUE, call[t].arg))
        BY <1>6, <3>2, SubmitCases DEF ExitOpen
      <4>2. openIn[t] \in Arg /\ call[t].arg = openIn[t] BY <1>2, <1>4, <3>1, <3>2
      <4>3. Ev("open", openIn[t], TRUE, call[t].arg) \in Event BY <4>2, EvTyped
      <4>4. /\ Ev("open", openIn[t], TRUE, call[t].arg).arg
               = Ev("open", openIn[t], TRUE, call[t].arg).real
            /\ Ev("open", openIn[t], TRUE, call[t].arg).type # "connect"
        BY <4>2 DEF Ev
      <4> QED BY <1>1, <1>8, <2>1, <3>1, <4>1, <4>3, <4>4, SubmitKeeps
    <3>3. CASE ~(r = "error" /\ openIn[t] # None)
      <4>1. UNCHANGED ring BY <1>6, <3>3 DEF ExitOpen, SubmitNothing
      <4> QED BY <1>8, <2>1, <3>1, <4>1, RingKept
    <3> QED BY <3>2, <3>3
  <2> QED BY <1>3, <2>3, <2>4
<1>7. CASE ExitConnect(t, r)
  <2>1. /\ call[t].kind \in {"connect", "connect6"} /\ UNCHANGED <<openIn, flows, sockets>>
        /\ connIn' = [connIn EXCEPT ![t] = None]
    BY <1>7 DEF ExitConnect, agentVars
  <2>2. t \notin left => openIn[t] = None BY <1>4, <2>1
  <2>3. EntriesInv' BY <1>1, <1>2, <1>3, <2>1, <2>2, EntriesKept
  <2>4. ASSUME left = {} PROVE RingInv'
    <3>1. RingInv /\ t \notin left BY <1>1, <2>4
    <3>2. CASE connIn[t] # None /\ r # "progress"
      <4> DEFINE e == Ev("connect", connIn[t], r = "error", call[t].arg)
      <4>1. Submits(e) BY <1>7, <3>2, SubmitCases DEF ExitConnect
      <4>2. connIn[t] \in Arg /\ call[t].arg = connIn[t] BY <1>2, <1>4, <3>1, <3>2
      <4>3. (r = "error") \in BOOLEAN OBVIOUS
      <4>4. e \in Event BY <4>2, <4>3, EvTyped
      <4>5. e.arg = connIn[t] /\ e.real = call[t].arg /\ e.bad = (r = "error") BY DEF Ev
      <4>6. ~e.bad => r = "ok" BY <3>2, <4>5 DEF Result
      <4>7. r = "ok" => call[t].arg \in connected' BY <1>7, <2>1 DEF ExitConnect, Returns
      <4> HIDE DEF e
      <4> QED BY <1>1, <1>8, <2>1, <3>1, <4>1, <4>2, <4>4, <4>5, <4>6, <4>7, SubmitKeeps
    <3>3. CASE ~(connIn[t] # None /\ r # "progress")
      <4>1. UNCHANGED ring BY <1>7, <3>3 DEF ExitConnect, SubmitNothing
      <4> QED BY <1>8, <2>1, <3>1, <4>1, RingKept
    <3> QED BY <3>2, <3>3
  <2> QED BY <1>3, <2>3, <2>4
<1> QED BY <1>5, <1>6, <1>7 DEF SysExit

\* A change of the filter: a thread that leaves it between two calls has no
\* entry, and one that leaves it during a call is accounted for.
LEMMA FilterKeeps ==
    ASSUME IInv, FilterChanges PROVE EntriesInv' /\ (left' = {} => RingInv')
<1>1. TypeOK /\ EntriesAreCurrent /\ Unwatched /\ (left = {} => RingInv)
  BY DEF IInv, RingTold, EntriesInv
<1>2. /\ left' = left \cup {t \in watched \ watched' : call[t] # Idle}
      /\ UNCHANGED <<call, openIn, connIn, ring, flows, sockets, connected>>
  BY DEF FilterChanges, agentVars
<1>3. left \subseteq left' BY <1>2
<1>4. EntriesAreCurrent' BY <1>1, <1>2, <1>3 DEF EntriesAreCurrent
<1>5. Unwatched'
  <2> SUFFICES ASSUME NEW t \in Thread \ left', t \notin watched'
               PROVE openIn[t] = None /\ connIn[t] = None
    BY <1>2 DEF Unwatched
  <2>1. t \in Thread \ left BY <1>3
  <2>2. CASE t \notin watched BY <1>1, <2>1, <2>2 DEF Unwatched
  <2>3. CASE t \in watched
    <3>1. call[t] = Idle BY <1>2, <2>3
    <3> QED BY <1>1, <2>1, <3>1, EntryCall DEF Idle
  <2> QED BY <2>2, <2>3
<1>6. ASSUME left' = {} PROVE RingInv'
  <2>1. RingInv BY <1>1, <1>3, <1>6
  <2> QED BY <1>2, <2>1, RingKept
<1> QED BY <1>4, <1>5, <1>6 DEF EntriesInv

\* The reader takes the oldest record out.
LEMMA NoteKeeps == ASSUME IInv, Note PROVE EntriesInv' /\ (left' = {} => RingInv')
<1>1. TypeOK /\ EntriesInv /\ (left = {} => RingInv) /\ ring \in Seq(Event)
  BY DEF IInv, RingTold, TypeOK
<1>2. /\ ring # <<>> /\ ring' = Tail(ring)
      /\ UNCHANGED <<watched, call, openIn, connIn, sockets, connected, left>>
  BY DEF Note, historyVars
<1>3. EntriesInv' BY <1>1, <1>2, EntriesKept
<1>4. ASSUME NEW i \in 1..Len(ring') PROVE i + 1 \in 1..Len(ring) /\ ring'[i] = ring[i + 1]
  BY <1>1, <1>2, <1>4
<1>5. ASSUME RingInv PROVE RingInv'
  <2>1. EventsTrue' BY <1>4, <1>5 DEF RingInv, EventsTrue
  <2>2. RingConnected' BY <1>2, <1>4, <1>5 DEF RingInv, RingConnected
  <2>3. flows' = flows \/ (flows' = flows \cup {ring[1].arg} /\ ring[1].type = "connect"
                           /\ ~ring[1].bad)
    <3>1. Head(ring) = ring[1] BY <1>1, <1>2
    <3> QED BY <3>1 DEF Note
  <2>4. 1 \in 1..Len(ring) BY <1>1, <1>2
  <2>5. flows' \cup sockets' \subseteq connected' BY <1>2, <1>5, <2>3, <2>4 DEF RingInv, RingConnected
  <2> QED BY <2>1, <2>2, <2>5 DEF RingInv
<1> QED BY <1>1, <1>2, <1>3, <1>5

\* A connection made elsewhere, or a socket listed, leaves the programs alone.
LEMMA SocketsKeep ==
    ASSUME IInv, NEW a \in Arg, Establishes(a) \/ ListSocket(a)
    PROVE EntriesInv' /\ (left' = {} => RingInv')
<1>1. EntriesInv /\ (left = {} => RingInv) BY DEF IInv, RingTold
<1>2. /\ UNCHANGED <<watched, call, openIn, connIn, ring, flows, left>>
      /\ connected \subseteq connected' /\ sockets' \subseteq sockets \cup connected
  BY DEF Establishes, ListSocket, kernelVars, agentVars, historyVars
<1>3. EntriesInv' BY <1>1, <1>2, EntriesKept
<1>4. ASSUME RingInv PROVE RingInv'
  <2>1. EventsTrue' BY <1>2, <1>4 DEF RingInv, EventsTrue
  <2>2. RingConnected' BY <1>2, <1>4 DEF RingInv, RingConnected
  <2>3. flows' \cup sockets' \subseteq connected' BY <1>2, <1>4 DEF RingInv
  <2> QED BY <2>1, <2>2, <2>3 DEF RingInv
<1> QED BY <1>1, <1>2, <1>3, <1>4

\* The entries of a thread that never left the filter during a call are those
\* of the call it is in; without such threads the ring buffer tells the truth.
LEMMA Inductive == Spec => []IInv
<1>1. Init => EntriesInv /\ RingTold
  BY DEF Init, RingTold, EntriesInv, EntriesAreCurrent, Unwatched, RingInv, EventsTrue, RingConnected
<1>2. IInv /\ [Next]_vars => EntriesInv' /\ RingTold'
  <2> SUFFICES ASSUME IInv, [Next]_vars PROVE EntriesInv' /\ RingTold' OBVIOUS
  <2>1. CASE \E t \in Thread : \E c \in Call : SysEnter(t, c) BY <2>1, EnterKeeps DEF RingTold
  <2>2. CASE \E t \in Thread : \E r \in Result : SysExit(t, r) BY <2>2, ExitKeeps DEF RingTold
  <2>3. CASE FilterChanges BY <2>3, FilterKeeps DEF RingTold
  <2>4. CASE Note BY <2>4, NoteKeeps DEF RingTold
  <2>5. CASE \E a \in Arg : Establishes(a) \/ ListSocket(a)
    BY <2>5, SocketsKeep DEF RingTold
  <2>6. CASE UNCHANGED vars
    BY <2>6 DEF vars, kernelVars, agentVars, historyVars, IInv, EntriesInv, EntriesAreCurrent,
                RingTold, Unwatched, RingInv, EventsTrue, RingConnected
  <2> QED BY <2>1, <2>2, <2>3, <2>4, <2>5, <2>6 DEF Next
<1>3. EntriesInv /\ RingTold /\ TypeOK => IInv BY DEF IInv
<1> QED BY <1>1, <1>2, <1>3, TypeCorrect, PTL DEF Spec

\* As long as no thread left the filter during a call, every event of the ring
\* buffer names the argument of the call it is about.
THEOREM EventsTrueHolds == Spec => []EventsTrueUnlessLeft
<1>1. IInv => EventsTrueUnlessLeft BY DEF IInv, RingTold, RingInv, EventsTrueUnlessLeft
<1> QED BY <1>1, Inductive, PTL

\* No entry of the in-flight maps outlives its call, but those of the threads
\* that left the filter during one.
THEOREM EntriesAreCurrentHolds == Spec => []EntriesAreCurrent
<1>1. IInv => EntriesAreCurrent BY DEF IInv, EntriesInv
<1> QED BY <1>1, Inductive, PTL

\* With every destination that is listed as ESTABLISHED, from an event or from /proc, a
\* connection was made, under the same condition.
THEOREM FlowsAreRealHolds == Spec => []FlowsAreReal
<1>1. IInv => FlowsAreReal BY DEF IInv, RingTold, RingInv, FlowsAreReal
<1> QED BY <1>1, Inductive, PTL

-----------------------------------------------------------------------------
(* The errors of a path                                                    *)

\* A record that noteEvent takes for a failed openat of a.
Failure(e, a) == e.type = "open" /\ e.bad /\ e.arg = a

Unnoted(a) == Cardinality(FailuresOf(a))

\* The failures in the ring buffer are finitely many.
LEMMA FailuresFinite ==
    ASSUME TypeOK, NEW a PROVE IsFiniteSet(FailuresOf(a)) /\ Unnoted(a) \in Nat
<1>1. Len(ring) \in Nat BY DEF TypeOK
<1>2. IsFiniteSet(1..Len(ring)) BY <1>1, FS_Interval
<1>3. FailuresOf(a) \in SUBSET (1..Len(ring)) BY DEF FailuresOf
<1>4. IsFiniteSet(FailuresOf(a)) BY <1>2, <1>3, FS_Subset
<1> QED BY <1>4, FS_CardinalityType DEF Unnoted

\* A record that is submitted is one failure more, if it is one and is not dropped.
LEMMA SubmitCounts ==
    ASSUME TypeOK, NEW e \in Event, Submits(e), NEW a
    PROVE Unnoted(a)' <= Unnoted(a) + IF Failure(e, a) THEN 1 ELSE 0
<1>1. ring \in Seq(Event) /\ Len(ring) \in Nat BY DEF TypeOK
<1>2. CASE ring' = Append(ring, e)
  <2>1. Len(ring') = Len(ring) + 1 BY <1>1, <1>2
  <2>2. \A i \in 1..Len(ring) : ring'[i] = ring[i] BY <1>1, <1>2
  <2>3. ring'[Len(ring) + 1] = e BY <1>1, <1>2
  <2>4. CASE Failure(e, a)
    <3>1. FailuresOf(a)' \subseteq FailuresOf(a) \cup {Len(ring) + 1}
      <4>1. ASSUME NEW i \in FailuresOf(a)', i # Len(ring) + 1 PROVE i \in FailuresOf(a)
        <5>1. i \in 1..Len(ring) BY <1>1, <2>1, <4>1 DEF FailuresOf
        <5> QED BY <2>2, <5>1 DEF FailuresOf
      <4> QED BY <4>1
    <3>2. /\ IsFiniteSet(FailuresOf(a) \cup {Len(ring) + 1})
          /\ Cardinality(FailuresOf(a) \cup {Len(ring) + 1}) <= Unnoted(a) + 1
          /\ Cardinality(FailuresOf(a) \cup {Len(ring) + 1}) \in Nat
      <4>1. IsFiniteSet(FailuresOf(a)) /\ Unnoted(a) \in Nat BY FailuresFinite
      <4>2. PICK k : k = Len(ring) + 1 OBVIOUS
      <4>3. /\ IsFiniteSet(FailuresOf(a) \cup {k})
            /\ \/ Cardinality(FailuresOf(a) \cup {k}) = Unnoted(a)
               \/ Cardinality(FailuresOf(a) \cup {k}) = Unnoted(a) + 1
        BY <4>1, FS_AddElement DEF Unnoted
      <4> QED BY <4>1, <4>2, <4>3
    <3>3. FailuresOf(a)' \in SUBSET (FailuresOf(a) \cup {Len(ring) + 1}) BY <3>1
    <3>4. /\ IsFiniteSet(FailuresOf(a)')
          /\ Cardinality(FailuresOf(a)') <= Cardinality(FailuresOf(a) \cup {Len(ring) + 1})
      BY <3>2, <3>3, FS_Subset
    <3>5. Cardinality(FailuresOf(a)') \in Nat BY <3>4, FS_CardinalityType
    <3> QED BY <2>4, <3>2, <3>4, <3>5, FailuresFinite DEF Unnoted
  <2>5. CASE ~Failure(e, a)
    <3>1. FailuresOf(a)' = FailuresOf(a)
      <4>1. ASSUME NEW i \in FailuresOf(a)' PROVE i \in FailuresOf(a)
        <5>1. i \in 1..Len(ring') /\ Failure(ring'[i], a) BY DEF FailuresOf, Failure
        <5>2. i \in 1..Len(ring) BY <1>1, <2>1, <2>3, <2>5, <5>1
        <5> QED BY <2>2, <5>1, <5>2 DEF FailuresOf, Failure
      <4>2. ASSUME NEW i \in FailuresOf(a) PROVE i \in FailuresOf(a)'
        <5>1. i \in 1..Len(ring) /\ i \in 1..Len(ring') BY <1>1, <2>1 DEF FailuresOf
        <5> QED BY <2>2, <5>1 DEF FailuresOf
      <4> QED BY <4>1, <4>2
    <3> QED BY <2>5, <3>1, FailuresFinite DEF Unnoted
  <2> QED BY <2>4, <2>5
<1>3. CASE ring' = ring
  <2>1. Unnoted(a)' = Unnoted(a) BY <1>3 DEF Unnoted, FailuresOf
  <2> QED BY <2>1, FailuresFinite
<1> QED BY <1>2, <1>3 DEF Submits

\* The oldest record taken out is one failure less, if it is one: the others move
\* up by a place.
LEMMA TailCounts ==
    ASSUME TypeOK, ring # <<>>, ring' = Tail(ring), NEW a
    PROVE Unnoted(a)' = Unnoted(a) - IF Failure(ring[1], a) THEN 1 ELSE 0
<1> DEFINE S == FailuresOf(a)'
           T == FailuresOf(a) \ {1}
           up == [i \in S |-> i + 1]
<1>1. ring \in Seq(Event) /\ Len(ring) \in Nat /\ Len(ring) > 0 BY DEF TypeOK
<1>2. Len(ring') = Len(ring) - 1 /\ \A i \in 1..Len(ring') : ring'[i] = ring[i + 1]
  BY <1>1
<1>3. IsFiniteSet(T) /\ Cardinality(T) = Unnoted(a) - IF Failure(ring[1], a) THEN 1 ELSE 0
  <2>1. 1 \in FailuresOf(a) <=> Failure(ring[1], a) BY <1>1 DEF FailuresOf, Failure
  <2>2. /\ IsFiniteSet(T)
        /\ Cardinality(T) = IF 1 \in FailuresOf(a) THEN Unnoted(a) - 1 ELSE Unnoted(a)
    BY FailuresFinite, FS_RemoveElement DEF Unnoted
  <2> QED BY <2>1, <2>2, FailuresFinite
<1>4. \A i \in S : i \in 1..Len(ring') /\ i \in Nat /\ i + 1 \in T
  <2> SUFFICES ASSUME NEW i \in S PROVE i \in 1..Len(ring') /\ i \in Nat /\ i + 1 \in T OBVIOUS
  <2>1. i \in 1..Len(ring') /\ Failure(ring'[i], a) BY DEF FailuresOf, Failure
  <2>2. i \in Nat /\ i + 1 \in 1..Len(ring) /\ i + 1 # 1 BY <1>1, <1>2, <2>1
  <2>3. Failure(ring[i + 1], a) BY <1>2, <2>1
  <2> QED BY <2>1, <2>2, <2>3 DEF FailuresOf, Failure
<1>5. up \in [S -> T] BY <1>4
<1>6. \A i, j \in S : up[i] = up[j] => i = j BY <1>4
<1>7. \A k \in T : \E i \in S : up[i] = k
  <2> SUFFICES ASSUME NEW k \in T PROVE \E i \in S : up[i] = k OBVIOUS
  <2>1. k \in 1..Len(ring) /\ k # 1 /\ Failure(ring[k], a) BY DEF FailuresOf, Failure
  <2>2. PICK i \in Nat : k = i + 1 BY <1>1, <2>1
  <2>3. i \in 1..Len(ring') BY <1>1, <1>2, <2>1, <2>2
  <2>4. Failure(ring'[i], a) BY <1>2, <2>1, <2>2, <2>3
  <2>5. i \in S BY <2>3, <2>4 DEF FailuresOf, Failure
  <2> QED BY <2>2, <2>5
<1> HIDE DEF S, T, up
<1>8. up \in Injection(S, T) BY <1>5, <1>6, Fun_IsInj
<1>9. up \in Surjection(S, T) BY <1>5, <1>7, Fun_IsSurj
<1>10. Cardinality(S) = Cardinality(T) BY <1>3, <1>8, <1>9, FS_Injection
<1> QED BY <1>3, <1>10 DEF S, Unnoted

\* The errors of a path with those to be counted, while no thread left the filter.
Charged(a) == errors[a] + Unnoted(a) <= failed[a] + flagged[a]

\* A record that is no failure of an openat, or that comes with one, keeps the
\* balance of every path.
LEMMA ChargedSubmit ==
    ASSUME TypeOK, NEW e \in Event, Submits(e), NEW a \in Arg, Charged(a),
           errors' = errors, TypeOK',
           failed'[a] + flagged'[a] >= failed[a] + flagged[a] + IF Failure(e, a) THEN 1 ELSE 0
    PROVE Charged(a)'
<1>1. Unnoted(a)' <= Unnoted(a) + IF Failure(e, a) THEN 1 ELSE 0 BY SubmitCounts
<1>2. /\ errors[a] \in Nat /\ failed[a] \in Nat /\ failed'[a] \in Nat
      /\ flagged[a] \in Nat /\ flagged'[a] \in Nat
  BY DEF TypeOK
<1>3. Unnoted(a) \in Nat BY FailuresFinite
<1>4. Unnoted(a)' \in Nat
  <2>1. Len(ring') \in Nat BY DEF TypeOK
  <2>2. PICK n \in Nat : n = Len(ring') BY <2>1
  <2>3. IsFiniteSet(1..n) BY FS_Interval
  <2>4. FailuresOf(a)' \in SUBSET (1..n) BY <2>2 DEF FailuresOf
  <2>5. IsFiniteSet(FailuresOf(a)') BY <2>3, <2>4, FS_Subset
  <2> QED BY <2>5, FS_CardinalityType DEF Unnoted
<1> QED BY <1>1, <1>2, <1>3, <1>4 DEF Charged

\* The balance while the ring buffer does not change.
LEMMA ChargedSame ==
    ASSUME TypeOK, NEW a \in Arg, Charged(a), UNCHANGED <<errors, ring, flagged>>, TypeOK',
           failed'[a] >= failed[a]
    PROVE Charged(a)'
<1>1. Unnoted(a)' = Unnoted(a) BY DEF Unnoted, FailuresOf
<1>2. errors[a] \in Nat /\ failed[a] \in Nat /\ failed'[a] \in Nat /\ flagged[a] \in Nat
  BY DEF TypeOK
<1> QED BY <1>1, <1>2, FailuresFinite DEF Charged

\* A mark is charged to the path it came with, and once: the record that is submitted
\* names the argument of the call, and its counting takes it out.
LEMMA ErrorsStep ==
    ASSUME IInv, TypeOK', [Next]_vars, left = {}, NEW a \in Arg, Charged(a)
    PROVE Charged(a)'
<1>0. TypeOK /\ EntriesInv BY DEF IInv
<1>1. /\ failed \in [Arg -> Nat] /\ failed[a] \in Nat
      /\ flagged \in [Arg -> Nat] /\ flagged[a] \in Nat
  BY <1>0 DEF TypeOK
<1>2. ASSUME UNCHANGED <<errors, ring, failed, flagged>> PROVE Charged(a)'
  BY <1>0, <1>1, <1>2, ChargedSame
<1>3. ASSUME NEW t \in Thread, NEW c \in Call, SysEnter(t, c) PROVE Charged(a)'
  <2>1. UNCHANGED <<errors, failed>> BY <1>3 DEF SysEnter, agentVars
  <2>2. CASE t \in watched /\ c.kind = "open"
    <3> DEFINE e == Ev("open", c.arg, c.marked, c.arg)
    <3>1. Submits(e) BY <1>3, <2>2, SubmitCases DEF SysEnter
    <3>2. c.arg \in Arg /\ c.marked \in BOOLEAN BY DEF Call
    <3>3. e \in Event BY <3>2, EvTyped
    <3>4. Failure(e, a) => a = c.arg /\ c.marked BY DEF Failure, Ev
    <3> HIDE DEF e
    <3>5. flagged' = IF c.marked THEN [flagged EXCEPT ![c.arg] = @ + 1] ELSE flagged
      BY <1>3, <2>2 DEF SysEnter
    <3>6. flagged'[a] >= flagged[a] + IF Failure(e, a) THEN 1 ELSE 0
      BY <1>1, <3>2, <3>4, <3>5
    <3>7. flagged'[a] \in Nat BY <1>1, <3>5
    <3>8. failed'[a] + flagged'[a] >= failed[a] + flagged[a] + IF Failure(e, a) THEN 1 ELSE 0
      BY <1>1, <2>1, <3>6, <3>7
    <3> QED BY <1>0, <2>1, <3>1, <3>3, <3>8, ChargedSubmit
  <2>3. CASE ~(t \in watched /\ c.kind = "open")
    BY <1>2, <1>3, <2>1, <2>3 DEF SysEnter, SubmitNothing
  <2> QED BY <2>2, <2>3
<1>4. ASSUME NEW t \in Thread, NEW r \in Result, ExitUnwatched(t, r) \/ ExitOther(t, r)
      PROVE Charged(a)'
  BY <1>2, <1>4 DEF ExitUnwatched, ExitOther, agentVars
<1>5. ASSUME NEW t \in Thread, NEW r \in Result, ExitOpen(t, r) PROVE Charged(a)'
  <2>1. /\ UNCHANGED <<errors, flagged>>
        /\ failed' = IF r = "error" THEN [failed EXCEPT ![call[t].arg] = @ + 1] ELSE failed
    BY <1>5 DEF ExitOpen, agentVars
  <2>2. failed'[a] >= failed[a] BY <1>1, <2>1
  <2>3. CASE r = "error" /\ openIn[t] # None
    <3> DEFINE e == Ev("open", openIn[t], TRUE, call[t].arg)
    <3>1. Submits(e) BY <1>5, <2>3, SubmitCases DEF ExitOpen
    <3>2. openIn[t] \in Arg BY <1>0, <2>3 DEF TypeOK
    <3>3. call[t].arg = openIn[t] BY <1>0, <2>3, EntryCall DEF EntriesInv
    <3>4. e \in Event BY <3>2, <3>3, EvTyped
    <3>5. Failure(e, a) => a = call[t].arg BY <3>3 DEF Failure, Ev
    <3>6. failed' = [failed EXCEPT ![call[t].arg] = @ + 1] BY <2>1, <2>3
    <3> HIDE DEF e
    <3>7. failed'[a] + flagged'[a] >= failed[a] + flagged[a] + IF Failure(e, a) THEN 1 ELSE 0
      BY <1>1, <2>1, <2>2, <3>5, <3>6
    <3> QED BY <1>0, <2>1, <3>1, <3>4, <3>7, ChargedSubmit
  <2>4. CASE ~(r = "error" /\ openIn[t] # None)
    <3>1. UNCHANGED ring BY <1>5, <2>4 DEF ExitOpen, SubmitNothing
    <3> QED BY <1>0, <2>1, <2>2, <3>1, ChargedSame
  <2> QED BY <2>3, <2>4
<1>6. ASSUME NEW t \in Thread, NEW r \in Result, ExitConnect(t, r) PROVE Charged(a)'
  <2>1. UNCHANGED <<errors, failed, flagged>> BY <1>6 DEF ExitConnect, agentVars
  <2>2. CASE connIn[t] # None /\ r # "progress"
    <3> DEFINE e == Ev("connect", connIn[t], r = "error", call[t].arg)
    <3>1. Submits(e) BY <1>6, <2>2, SubmitCases DEF ExitConnect
    <3>2. connIn[t] \in Arg BY <1>0, <2>2 DEF TypeOK
    <3>3. call[t].arg = connIn[t] BY <1>0, <2>2, EntryCall DEF EntriesInv
    <3>4. (r = "error") \in BOOLEAN OBVIOUS
    <3>5. e \in Event BY <3>2, <3>3, <3>4, EvTyped
    <3>6. ~Failure(e, a) BY DEF Failure, Ev
    <3> HIDE DEF e
    <3>7. failed'[a] + flagged'[a] >= failed[a] + flagged[a] + IF Failure(e, a) THEN 1 ELSE 0
      BY <1>1, <2>1, <3>6
    <3> QED BY <1>0, <2>1, <3>1, <3>5, <3>7, ChargedSubmit
  <2>3. CASE ~(connIn[t] # None /\ r # "progress")
    BY <1>2, <1>6, <2>1, <2>3 DEF ExitConnect, SubmitNothing
  <2> QED BY <2>2, <2>3
<1>7. CASE FilterChanges BY <1>2, <1>7 DEF FilterChanges, agentVars
<1>8. CASE Note
  <2>1. ring \in Seq(Event) /\ ring # <<>> /\ ring' = Tail(ring) /\ UNCHANGED <<failed, flagged>>
    BY <1>0, <1>8 DEF Note, TypeOK, historyVars
  <2>2. ring[1] \in Event /\ Head(ring) = ring[1] BY <2>1
  <2>3. errors' = IF ring[1].type = "open" /\ ring[1].bad
                  THEN [errors EXCEPT ![ring[1].arg] = @ + 1] ELSE errors
    BY <1>8, <2>2 DEF Note
  <2>4. errors \in [Arg -> Nat] BY <1>0 DEF TypeOK
  <2>5. errors'[a] = errors[a] + IF Failure(ring[1], a) THEN 1 ELSE 0
    BY <2>3, <2>4 DEF Failure
  <2>6. Unnoted(a)' = Unnoted(a) - IF Failure(ring[1], a) THEN 1 ELSE 0
    BY <1>0, <2>1, TailCounts
  <2>7. Unnoted(a) \in Nat /\ errors[a] \in Nat BY <1>0, <2>4, FailuresFinite
  <2> QED BY <1>1, <2>1, <2>5, <2>6, <2>7 DEF Charged
<1>9. ASSUME NEW b \in Arg, Establishes(b) \/ ListSocket(b) PROVE Charged(a)'
  BY <1>2, <1>9 DEF Establishes, ListSocket, kernelVars, agentVars, historyVars
<1>10. CASE UNCHANGED vars
  BY <1>2, <1>10 DEF vars, kernelVars, agentVars, historyVars
<1> QED BY <1>3, <1>4, <1>5, <1>6, <1>7, <1>8, <1>9, <1>10 DEF Next, SysExit

\* Threads that left the filter are never forgotten.
LEMMA LeftLasts == [Next]_vars => left \subseteq left'
BY DEF Next, SysEnter, SysExit, ExitUnwatched, ExitOther, ExitOpen, ExitConnect, FilterChanges,
       Note, Establishes, ListSocket, vars, historyVars

\* The errors counted against a path, with those still in the ring buffer, are never
\* more than the openat calls of it that failed and those that its caller began with
\* bit 31 in the flags, whatever is dropped on the way.
THEOREM ErrorsAreRealHolds == Spec => []ErrorsAreReal
<1>1. Init => ErrorsAreReal
  <2> SUFFICES ASSUME Init, NEW a \in Arg
               PROVE errors[a] + Cardinality(FailuresOf(a)) <= failed[a] + flagged[a]
    BY DEF ErrorsAreReal
  <2>1. FailuresOf(a) = {} BY DEF Init, FailuresOf
  <2>2. Cardinality(FailuresOf(a)) = 0 BY <2>1, FS_EmptySet
  <2> QED BY <2>2 DEF Init
<1>2. ErrorsAreReal /\ IInv /\ TypeOK' /\ [Next]_vars => ErrorsAreReal'
  <2> SUFFICES ASSUME ErrorsAreReal, IInv, TypeOK', [Next]_vars, left' = {}, NEW a \in Arg
               PROVE Charged(a)'
    BY DEF ErrorsAreReal, Charged, Unnoted
  <2>1. left = {} BY LeftLasts
  <2>2. Charged(a) BY <2>1 DEF ErrorsAreReal, Charged, Unnoted
  <2> QED BY <2>1, <2>2, ErrorsStep
<1> QED BY <1>1, <1>2, Inductive, TypeCorrect, PTL DEF Spec
=============================================================================
