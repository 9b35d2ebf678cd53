--------------------------- MODULE PipelineProofs ---------------------------
(***************************************************************************)
(* Proofs about Pipeline, for any capacities and any number of items.      *)
(***************************************************************************)
EXTENDS Pipeline, SequenceTheorems, TLAPS

-----------------------------------------------------------------------------
(* Windows                                                                 *)

\* A window of a sequence is a sequence of the same elements.
LEMMA WindowType ==
    ASSUME NEW S, NEW s \in Seq(S), NEW n \in Nat
    PROVE  Window(s, n) \in Seq(S)
<1>1. CASE Len(s) > n
  <2> DEFINE m == Len(s) - n + 1
  <2>1. Len(s) \in Nat /\ m \in Int /\ m >= 1
    BY <1>1, LenProperties
  <2>2. ASSUME NEW i \in m..Len(s) PROVE s[i] \in S
    <3>1. i \in 1..Len(s) BY <2>1
    <3> QED BY <3>1, ElementOfSeq
  <2> HIDE DEF m
  <2>3. SubSeq(s, m, Len(s)) \in Seq(S)
    BY <2>1, <2>2, SubSeqProperties
  <2> QED BY <1>1, <2>3 DEF Window, m
<1>2. CASE ~(Len(s) > n)
  BY <1>2 DEF Window
<1> QED BY <1>1, <1>2

\* Its length, and its elements counted from the end of the sequence.
LEMMA WindowElements ==
    ASSUME NEW S, NEW s \in Seq(S), NEW n \in Nat
    PROVE  /\ Len(Window(s, n)) = IF Len(s) > n THEN n ELSE Len(s)
           /\ \A i \in 1..Len(Window(s, n)) :
                  Window(s, n)[i] = s[Len(s) - Len(Window(s, n)) + i]
<1>1. CASE Len(s) > n
  <2>1. Window(s, n) = [i \in 1..n |-> s[Len(s) - n + i]]
    BY <1>1 DEF Window
  <2> QED BY <1>1, <2>1
<1>2. CASE ~(Len(s) > n)
  BY <1>2 DEF Window
<1> QED BY <1>1, <1>2

\* What appendCapped keeps is the window of all that was ever appended.
LEMMA WindowOfAppend ==
    ASSUME NEW S, NEW s \in Seq(S), NEW x \in S, NEW n \in Nat \ {0}
    PROVE  AppendCapped(Window(s, n), n, x) = Window(Append(s, x), n)
<1> DEFINE w == Window(s, n)
           wx == Append(w, x)
           sx == Append(s, x)
           a == Window(wx, n)
           b == Window(sx, n)
<1>1. w \in Seq(S) BY WindowType
<1> HIDE DEF w
<1>a. /\ Len(w) \in Nat /\ Len(s) \in Nat
      /\ wx \in Seq(S) /\ sx \in Seq(S)
      /\ Len(wx) = Len(w) + 1 /\ Len(sx) = Len(s) + 1
      /\ wx[Len(w) + 1] = x /\ sx[Len(s) + 1] = x
      /\ \A i \in 1..Len(w) : wx[i] = w[i]
      /\ \A i \in 1..Len(s) : sx[i] = s[i]
  BY <1>1
<1> HIDE DEF wx, sx
<1>2. a \in Seq(S) /\ b \in Seq(S)
  BY <1>a, WindowType
<1>3. /\ Len(w) = IF Len(s) > n THEN n ELSE Len(s)
      /\ \A i \in 1..Len(w) : w[i] = s[Len(s) - Len(w) + i]
  BY WindowElements DEF w
<1>4. /\ Len(a) = IF Len(wx) > n THEN n ELSE Len(wx)
      /\ \A i \in 1..Len(a) : a[i] = wx[Len(wx) - Len(a) + i]
  BY <1>a, WindowElements
<1>5. /\ Len(b) = IF Len(sx) > n THEN n ELSE Len(sx)
      /\ \A i \in 1..Len(b) : b[i] = sx[Len(sx) - Len(b) + i]
  BY <1>a, WindowElements
<1> HIDE DEF a, b
<1> DEFINE W == Len(w)  L == Len(s)  A == Len(a)  B == Len(b)
           WX == Len(wx)  SX == Len(sx)
<1>n. /\ W \in Nat /\ L \in Nat /\ A \in Nat /\ B \in Nat
      /\ WX \in Nat /\ SX \in Nat
  BY <1>a, <1>2
<1>6. /\ W = IF L > n THEN n ELSE L
      /\ WX = W + 1 /\ SX = L + 1
      /\ A = IF WX > n THEN n ELSE WX
      /\ B = IF SX > n THEN n ELSE SX
  BY <1>a, <1>3, <1>4, <1>5
<1>w. \A i \in 1..W : w[i] = s[L - W + i] BY <1>3
<1>wa. \A i \in 1..A : a[i] = wx[WX - A + i] BY <1>4
<1>wb. \A i \in 1..B : b[i] = sx[SX - B + i] BY <1>5
<1>x. /\ wx[W + 1] = x /\ sx[L + 1] = x
      /\ \A i \in 1..W : wx[i] = w[i]
      /\ \A i \in 1..L : sx[i] = s[i]
  BY <1>a
<1>l. Len(a) = A /\ Len(b) = B OBVIOUS
<1> HIDE DEF W, L, A, B, WX, SX
<1>7. A = B BY <1>n, <1>6
<1>8. ASSUME NEW i \in 1..A
      PROVE  a[i] = b[i]
  <2>1. a[i] = wx[WX - A + i] /\ b[i] = sx[SX - A + i]
    BY <1>wa, <1>wb, <1>7
  <2>2. CASE i = A
    <3>1. WX - A + i = W + 1 /\ SX - A + i = L + 1
      BY <2>2, <1>n, <1>6
    <3> QED BY <2>1, <3>1, <1>x
  <2>3. CASE i # A
    <3> DEFINE j == WX - A + i
               k == SX - A + i
    <3>1. j \in 1..W /\ k \in 1..L /\ k = L - W + j
      BY <2>3, <1>n, <1>6
    <3> HIDE DEF j, k
    <3>2. wx[j] = w[j] /\ sx[k] = s[k] /\ w[j] = s[k]
      BY <3>1, <1>x, <1>w
    <3> QED BY <2>1, <3>2 DEF j, k
  <2> QED BY <2>2, <2>3
<1>9. a = b
  BY <1>2, <1>l, <1>7, <1>8, SeqEqual
<1> QED BY <1>9 DEF AppendCapped, a, b, wx, sx, w

-----------------------------------------------------------------------------
(* Types                                                                   *)

\* The item of fanout, and the job of the writer, are ones that were made.
ItemOK == /\ item.kind \in {"snapshot", "event"} \/ stage = 0
          /\ item.kind = "snapshot" => item.n \in Snap
          /\ item.kind = "event" => item.n \in Event
JobOK == /\ writer \in {"copy", "insert"} => job.kind \in {"snapshot", "event"}
         /\ writer = "copy" => job.kind = "snapshot"
         /\ job.kind = "snapshot" => job.n \in Snap
         /\ job.kind = "event" => job.n \in Event
Typed == TypeOK /\ ItemOK /\ JobOK

\* The elements of a channel, as the receiver sees them.
LEMMA QueueStep ==
    ASSUME NEW S, NEW q \in Seq(S), q # <<>>
    PROVE  Head(q) \in S /\ Tail(q) \in Seq(S) /\ Len(Tail(q)) < Len(q)
<1>1. Head(q) \in S /\ Tail(q) \in Seq(S) /\ Len(Tail(q)) = Len(q) - 1
  BY HeadTailProperties
<1>2. Len(q) \in Nat
  BY LenProperties
<1> QED BY <1>1, <1>2

\* A non-blocking send never fills a channel beyond its capacity.
LEMMA SendStep ==
    ASSUME NEW S, NEW q \in Seq(S), NEW cap \in Nat, Len(q) <= cap, NEW x \in S
    PROVE  LET r == IF Len(q) < cap THEN Append(q, x) ELSE q
           IN r \in Seq(S) /\ Len(r) <= cap
<1>1. Append(q, x) \in Seq(S) /\ Len(Append(q, x)) = Len(q) + 1 /\ Len(q) \in Nat
  OBVIOUS
<1> QED BY <1>1

LEMMA CappedType ==
    ASSUME NEW S, NEW s \in Seq(S), NEW n \in Nat, NEW x \in S
    PROVE  AppendCapped(s, n, x) \in Seq(S)
<1>1. Append(s, x) \in Seq(S)
  OBVIOUS
<1> QED BY <1>1, WindowType DEF AppendCapped

LEMMA TypeStep == Typed /\ [Next]_vars => Typed'
<1> SUFFICES ASSUME Typed, [Next]_vars
             PROVE  Typed'
  OBVIOUS
<1> USE BoundsAreNat, ChannelCaps, WindowCaps
<1>n. /\ snaps \in 0..MaxSnaps /\ evts \in 0..MaxEvents
      /\ stage \in 0..3 /\ latest \in 0..MaxSnaps
  BY DEF Typed, TypeOK
<1>q. /\ snapshots \in Seq(Snap) /\ events \in Seq(Event)
      /\ qSnaps \in Seq(Snap) /\ qEvts \in Seq(Event)
      /\ seriesBuf \in Seq(Snap) /\ evtBuf \in Seq(Event)
      /\ evtSent \in Seq(Event) /\ snapSent \in Seq(Frame)
  BY DEF Typed, TypeOK
<1>o. /\ timeline \in [0..MaxSnaps -> Seq(Event)]
      /\ series \in [0..MaxSnaps -> Seq(Snap)]
  BY DEF Typed, TypeOK
<1>k. /\ item \in Item
      /\ item.kind = "snapshot" => item.n \in Snap
      /\ item.kind = "event" => item.n \in Event
      /\ item.kind \in {"snapshot", "event"} \/ stage = 0
  BY DEF Typed, TypeOK, ItemOK
<1>s. \A n : n \in Snap => n \in Nat /\ n \in 0..MaxSnaps
  BY DEF Snap
<1>e. \A n : n \in Event => n \in Nat
  BY DEF Event
<1>i. \A n \in Nat : TheSnap(n) \in Item /\ TheEvent(n) \in Item
  BY DEF TheSnap, TheEvent, Item
<1>j. \A n : /\ TheSnap(n).kind = "snapshot" /\ TheSnap(n).n = n
             /\ TheEvent(n).kind = "event" /\ TheEvent(n).n = n
  BY DEF TheSnap, TheEvent
<1>1. CASE SendEvent
  <2>1. evts + 1 \in Event /\ evts' \in 0..MaxEvents
    BY <1>1, <1>n DEF SendEvent, Event
  <2>2. events' \in Seq(Event) /\ Len(events') <= EventCap
    BY <1>1, <2>1, SendStep DEF SendEvent, Typed, TypeOK
  <2> QED BY <1>1, <2>1, <2>2 DEF SendEvent, Typed, TypeOK, ItemOK, JobOK,
       producerVars, chanVars, fanVars, builderVars, objVars, queueVars, writerVars,
       mainVars, sentVars
<1>2. CASE SendSnapshot
  <2>1. snaps + 1 \in Snap /\ snaps' \in 0..MaxSnaps
    BY <1>2, <1>n DEF SendSnapshot, Snap
  <2>2. snapshots' \in Seq(Snap) /\ Len(snapshots') <= SnapCap
    BY <1>2, <2>1, SendStep DEF SendSnapshot, Typed, TypeOK
  <2>3. [i \in 1..evts |-> i] \in Seq(Event)
    BY <1>n DEF Event
  <2>4. Window([i \in 1..evts |-> i], TimelineCap) \in Seq(Event)
    BY <2>3, WindowType
  <2>5. <<>> \in Seq(Event)
    OBVIOUS
  <2>6. timeline' \in [0..MaxSnaps -> Seq(Event)]
    BY <1>2, <1>o, <2>4, <2>5 DEF SendSnapshot
  <2> QED BY <1>2, <2>1, <2>2, <2>6 DEF SendSnapshot, Typed, TypeOK, ItemOK, JobOK,
       producerVars, chanVars, fanVars, builderVars, objVars, queueVars, writerVars,
       mainVars, sentVars
<1>3. CASE TakeSnapshot
  <2>1. Head(snapshots) \in Snap /\ Tail(snapshots) \in Seq(Snap)
        /\ Len(Tail(snapshots)) < Len(snapshots)
    BY <1>3, <1>q, QueueStep DEF TakeSnapshot
  <2>2. item' \in Item /\ item'.kind = "snapshot" /\ item'.n \in Snap
    BY <1>3, <1>s, <1>i, <1>j, <2>1 DEF TakeSnapshot
  <2>3. Len(snapshots) \in Nat /\ Len(Tail(snapshots)) \in Nat
    BY <1>q, <2>1, LenProperties
  <2>4. stage' \in 0..3 /\ Len(snapshots') <= SnapCap
    BY <1>3, <2>1, <2>3 DEF TakeSnapshot, Typed, TypeOK
  <2> QED BY <1>3, <2>1, <2>2, <2>4 DEF TakeSnapshot, Typed, TypeOK, ItemOK, JobOK,
       producerVars, chanVars, fanVars, builderVars, objVars, queueVars, writerVars,
       mainVars, sentVars
<1>4. CASE TakeEvent
  <2>1. Head(events) \in Event /\ Tail(events) \in Seq(Event)
        /\ Len(Tail(events)) < Len(events)
    BY <1>4, <1>q, QueueStep DEF TakeEvent
  <2>2. item' \in Item /\ item'.kind = "event" /\ item'.n \in Event
    BY <1>4, <1>e, <1>i, <1>j, <2>1 DEF TakeEvent
  <2>3. Len(events) \in Nat /\ Len(Tail(events)) \in Nat
    BY <1>q, <2>1, LenProperties
  <2>4. stage' \in 0..3 /\ Len(events') <= EventCap
    BY <1>4, <2>1, <2>3 DEF TakeEvent, Typed, TypeOK
  <2> QED BY <1>4, <2>1, <2>2, <2>4 DEF TakeEvent, Typed, TypeOK, ItemOK, JobOK,
       producerVars, chanVars, fanVars, builderVars, objVars, queueVars, writerVars,
       mainVars, sentVars
<1>5. CASE FanoutReturns
  BY <1>5 DEF FanoutReturns, Typed, TypeOK, ItemOK, JobOK,
       producerVars, chanVars, fanVars, builderVars, objVars, queueVars, writerVars,
       mainVars, sentVars
<1>a. ASSUME Advance, stage # 0
      PROVE  stage' \in 0..3 /\ item' = item /\ returned' = returned /\ ItemOK'
  <2>1. stage' \in 0..3
    BY <1>a, <1>n DEF Advance, Stages
  <2> QED BY <1>a, <1>k, <2>1 DEF Advance, ItemOK
<1>6. CASE Update
  <2>1. item.n \in Snap /\ item.n \in 0..MaxSnaps
    BY <1>6, <1>k, <1>s DEF Update
  <2>2. seriesBuf' \in Seq(Snap)
    BY <1>6, <1>q, <2>1, CappedType DEF Update
  <2>3. /\ timeline' \in [0..MaxSnaps -> Seq(Event)]
        /\ series' \in [0..MaxSnaps -> Seq(Snap)]
    BY <1>6, <1>o, <1>q, <2>1, <2>2 DEF Update
  <2>4. Advance /\ stage # 0 BY <1>6 DEF Update, In
  <2> QED BY <1>6, <1>a, <2>1, <2>2, <2>3, <2>4 DEF Update, Typed, TypeOK, ItemOK, JobOK,
       producerVars, chanVars, fanVars, builderVars, objVars, queueVars, writerVars,
       mainVars, sentVars
<1>7. CASE AddEvent
  <2>1. evtBuf' \in Seq(Event)
    BY <1>7, <1>k, <1>q, CappedType DEF AddEvent
  <2>2. timeline' \in [0..MaxSnaps -> Seq(Event)]
    BY <1>7, <1>o, <2>1 DEF AddEvent
  <2>3. Advance /\ stage # 0 BY <1>7 DEF AddEvent, In
  <2> QED BY <1>7, <1>a, <2>1, <2>2, <2>3 DEF AddEvent, Typed, TypeOK, ItemOK, JobOK,
       producerVars, chanVars, fanVars, builderVars, objVars, queueVars, writerVars,
       mainVars, sentVars
<1>8. CASE Record
  <2>0. item.kind \in {"snapshot", "event"}
    BY <1>8, <1>k DEF Record, In
  <2>l. Len(qSnaps) <= QueueCap /\ Len(qEvts) <= QueueCap
    BY DEF Typed, TypeOK
  <2>1. qSnaps' \in Seq(Snap) /\ Len(qSnaps') <= QueueCap
    BY <1>8, <1>k, <1>q, <2>l, SendStep DEF Record
  <2>2. qEvts' \in Seq(Event) /\ Len(qEvts') <= QueueCap
    BY <1>8, <1>k, <1>q, <2>l, <2>0, SendStep DEF Record
  <2>3. Advance /\ stage # 0 BY <1>8 DEF Record, In
  <2> QED BY <1>8, <1>a, <2>1, <2>2, <2>3 DEF Record, Typed, TypeOK, ItemOK, JobOK,
       producerVars, chanVars, fanVars, builderVars, objVars, queueVars, writerVars,
       mainVars, sentVars
<1>9. CASE Publish
  <2>0. item.kind \in {"snapshot", "event"} /\ Advance /\ stage # 0
    BY <1>9, <1>k DEF Publish, In
  <2>1. CASE item.kind = "snapshot"
    <3> DEFINE f == [n |-> item.n, timeline |-> timeline[item.n],
                     series |-> series[item.n], after |-> Len(evtSent)]
    <3>1. item.n \in 0..MaxSnaps BY <2>1, <1>k, <1>s
    <3>2. Len(evtSent) \in Nat BY <1>q, LenProperties
    <3>3. f \in Frame
      BY <2>1, <3>1, <3>2, <1>k, <1>o DEF Frame
    <3> HIDE DEF f
    <3>4. snapSent' = Append(snapSent, f) BY <1>9, <2>1 DEF Publish, f
    <3>5. snapSent' \in Seq(Frame) BY <3>3, <3>4, <1>q
    <3> QED BY <1>9, <2>0, <2>1, <3>5, <1>a DEF Publish, Typed, TypeOK, ItemOK, JobOK,
       producerVars, chanVars, fanVars, builderVars, objVars, queueVars, writerVars,
       mainVars, sentVars
  <2>2. CASE item.kind = "event"
    <3>0. item.n \in Event /\ evtSent' = Append(evtSent, item.n)
      BY <1>9, <2>2, <1>k DEF Publish
    <3>1. evtSent' \in Seq(Event) BY <3>0, <1>q
    <3> QED BY <1>9, <2>0, <2>2, <3>1, <1>a DEF Publish, Typed, TypeOK, ItemOK, JobOK,
       producerVars, chanVars, fanVars, builderVars, objVars, queueVars, writerVars,
       mainVars, sentVars
  <2> QED BY <2>0, <2>1, <2>2
<1>10. CASE WriterStops
  BY <1>10 DEF WriterStops, writerRest, Typed, TypeOK, ItemOK, JobOK,
       producerVars, chanVars, fanVars, builderVars, objVars, queueVars, writerVars,
       mainVars, sentVars
<1>11. CASE WriterTakesSnap
  <2>1. Head(qSnaps) \in Snap /\ Tail(qSnaps) \in Seq(Snap)
        /\ Len(Tail(qSnaps)) < Len(qSnaps)
    BY <1>11, <1>q, QueueStep DEF WriterTakesSnap
  <2>2. timeline[Head(qSnaps)] \in Seq(Event)
    BY <2>1, <1>o, <1>s
  <2>3. timeline[Head(qSnaps)] \in Seq(Event \cup {0})
    BY <2>2, SeqMonotonic
  <2>4. Len(qSnaps) \in Nat /\ Len(Tail(qSnaps)) \in Nat
    BY <1>q, <2>1, LenProperties
  <2>5. Len(qSnaps') <= QueueCap /\ qSnaps' \in Seq(Snap)
    BY <1>11, <2>1, <2>4 DEF WriterTakesSnap, Typed, TypeOK
  <2>6. CASE UNCHANGED <<writer, job, copy>>
    BY <1>11, <2>5, <2>6 DEF WriterTakesSnap, writerRest, Typed, TypeOK, ItemOK, JobOK,
       producerVars, chanVars, fanVars, builderVars, objVars, queueVars, writerVars,
       mainVars, sentVars
  <2>7. CASE /\ writer' = "copy" /\ job' = TheSnap(Head(qSnaps))
             /\ copy' = timeline[Head(qSnaps)]
    <3>1. job' \in Item /\ job'.kind = "snapshot" /\ job'.n \in Snap
      BY <2>1, <2>7, <1>s, <1>i, <1>j
    <3> QED BY <1>11, <2>3, <2>5, <2>7, <3>1 DEF WriterTakesSnap, writerRest, Typed, TypeOK, ItemOK, JobOK,
       producerVars, chanVars, fanVars, builderVars, objVars, queueVars, writerVars,
       mainVars, sentVars
  <2> QED BY <1>11, <2>6, <2>7 DEF WriterTakesSnap
<1>12. CASE WriterTakesEvent
  <2>1. Head(qEvts) \in Event /\ Tail(qEvts) \in Seq(Event)
        /\ Len(Tail(qEvts)) < Len(qEvts)
    BY <1>12, <1>q, QueueStep DEF WriterTakesEvent
  <2>4. Len(qEvts) \in Nat /\ Len(Tail(qEvts)) \in Nat
    BY <1>q, <2>1, LenProperties
  <2>5. Len(qEvts') <= QueueCap /\ qEvts' \in Seq(Event)
    BY <1>12, <2>1, <2>4 DEF WriterTakesEvent, Typed, TypeOK
  <2>6. job' \in Item /\ job'.kind = "event" /\ job'.n \in Event
    BY <1>12, <2>1, <1>e, <1>i, <1>j DEF WriterTakesEvent
  <2> QED BY <1>12, <2>5, <2>6 DEF WriterTakesEvent, writerRest, Typed, TypeOK, ItemOK, JobOK,
       producerVars, chanVars, fanVars, builderVars, objVars, queueVars, writerVars,
       mainVars, sentVars
<1>13. CASE WriterCopied
  <2>1. copy' = <<>> /\ copy' \in Seq(Event \cup {0})
    BY <1>13 DEF WriterCopied, Strip
  <2> QED BY <1>13, <2>1 DEF WriterCopied, writerRest, Typed, TypeOK, ItemOK, JobOK,
       producerVars, chanVars, fanVars, builderVars, objVars, queueVars, writerVars,
       mainVars, sentVars
<1>14. CASE WriterInserts
  <2>1. job' = Nothing /\ job' \in Item /\ job'.kind = "none"
    BY <1>14 DEF WriterInserts, Nothing, Item
  <2>2. copy' = <<>> /\ copy' \in Seq(Event \cup {0})
    BY <1>14 DEF WriterInserts
  <2>r. /\ rows \in Seq(Row) /\ evtRows \in Seq(Event)
        /\ copy \in Seq(Event \cup {0})
        /\ job.kind = "snapshot" => job.n \in Snap
        /\ job.kind = "event" => job.n \in Event
    BY DEF Typed, TypeOK, JobOK
  <2>3. rows' \in Seq(Row)
    <3>1. CASE job.kind = "snapshot" /\ rows' = Append(rows, [n |-> job.n, timeline |-> copy])
      <4> DEFINE r == [n |-> job.n, timeline |-> copy]
      <4>1. r \in Row BY <2>r, <3>1 DEF Row
      <4> HIDE DEF r
      <4>2. rows' = Append(rows, r) BY <3>1 DEF r
      <4> QED BY <4>1, <4>2, <2>r
    <3> QED BY <1>14, <2>r, <3>1 DEF WriterInserts
  <2>4. evtRows' \in Seq(Event)
    <3>1. evtRows' = evtRows \/ \E e \in Event : evtRows' = Append(evtRows, e)
      BY <1>14, <2>r DEF WriterInserts
    <3>2. ASSUME NEW e \in Event PROVE Append(evtRows, e) \in Seq(Event)
      BY <2>r
    <3> QED BY <2>r, <3>1, <3>2
  <2>5. lateWrite' \in BOOLEAN
    BY <1>14 DEF WriterInserts
  <2> QED BY <1>14, <2>1, <2>2, <2>3, <2>4, <2>5 DEF WriterInserts, writerRest, Typed, TypeOK, ItemOK, JobOK,
       producerVars, chanVars, fanVars, builderVars, objVars, queueVars, writerVars,
       mainVars, sentVars
<1>15. CASE Signal
  BY <1>15 DEF Signal, mainRest, Typed, TypeOK, ItemOK, JobOK,
       producerVars, chanVars, fanVars, builderVars, objVars, queueVars, writerVars,
       mainVars, sentVars
<1>16. CASE ServeEnds
  BY <1>16 DEF ServeEnds, mainRest, Typed, TypeOK, ItemOK, JobOK,
       producerVars, chanVars, fanVars, builderVars, objVars, queueVars, writerVars,
       mainVars, sentVars
<1>17. CASE StopStore
  BY <1>17 DEF StopStore, mainRest, Typed, TypeOK, ItemOK, JobOK,
       producerVars, chanVars, fanVars, builderVars, objVars, queueVars, writerVars,
       mainVars, sentVars
<1>18. CASE CloseStore
  BY <1>18 DEF CloseStore, mainRest, Typed, TypeOK, ItemOK, JobOK,
       producerVars, chanVars, fanVars, builderVars, objVars, queueVars, writerVars,
       mainVars, sentVars
<1>19. CASE UNCHANGED vars
  BY <1>19 DEF vars, Typed, TypeOK, ItemOK, JobOK,
       producerVars, chanVars, fanVars, builderVars, objVars, queueVars, writerVars,
       mainVars, sentVars
<1> QED
  BY <1>1, <1>2, <1>3, <1>4, <1>5, <1>6, <1>7, <1>8, <1>9, <1>10, <1>11, <1>12,
     <1>13, <1>14, <1>15, <1>16, <1>17, <1>18, <1>19
  DEF Next, FanoutStep, WriterStep, Ending

LEMMA TypeInit == Init => Typed
<1> SUFFICES ASSUME Init PROVE Typed
  OBVIOUS
<1> USE BoundsAreNat, ChannelCaps, WindowCaps DEF Init
<1>1. \A S : <<>> \in Seq(S) /\ Len(<<>>) = 0
  OBVIOUS
<1>2. ItemOK /\ JobOK /\ item \in Item /\ job \in Item
  BY DEF ItemOK, JobOK, Item, Nothing
<1>3. TypeOK
  BY <1>1, <1>2 DEF TypeOK
<1> QED BY <1>2, <1>3 DEF Typed

\* Every variable keeps its type, and no channel or queue holds more than its
\* capacity.
THEOREM TypeCorrect == Spec => []TypeOK
<1>1. Typed => TypeOK
  BY DEF Typed
<1> QED BY <1>1, TypeInit, TypeStep, PTL DEF Spec

-----------------------------------------------------------------------------
(* Frames and the builder                                                  *)

SentSnaps == [j \in 1..Len(snapSent) |-> snapSent[j].n]

\* Snapshots in use were made: the collector never writes to one of them.
Made == /\ \A i \in 1..Len(snapshots) : snapshots[i] <= snaps
        /\ latest <= snaps
        /\ item.kind = "snapshot" => item.n <= snaps

\* What the builder holds: the windows of what was sent and of the item that
\* is on its way through fanout.
BuilderInv == /\ evtBuf = Window(evtSent \o Under("event"), TimelineCap)
              /\ seriesBuf = Window(SentSnaps \o Under("snapshot"), SeriesCap)
              /\ timeline[latest] = evtBuf
              /\ Under("snapshot") # <<>> => series[item.n] = seriesBuf
              /\ latest = IF Under("snapshot") # <<>> THEN item.n
                          ELSE IF snapSent = <<>> THEN 0 ELSE snapSent[Len(snapSent)].n

FramesInv == /\ \A i \in 1..Len(snapSent) : snapSent[i].after \in 0..Len(evtSent)
             /\ FramesAgree

StreamInv == Made /\ BuilderInv /\ FramesInv

LEMMA AppendConcat ==
    ASSUME NEW S, NEW s \in Seq(S), NEW x \in S
    PROVE  s \o <<x>> = Append(s, x)
<1>1. <<x>> \in Seq(S) /\ Len(<<x>>) = 1 /\ <<x>>[1] = x
  OBVIOUS
<1>2. s \o <<x>> \in Seq(S) /\ Append(s, x) \in Seq(S)
  BY <1>1, ConcatProperties
<1>3. /\ Len(s \o <<x>>) = Len(s) + 1
      /\ \A i \in 1..Len(s) + 1 :
            (s \o <<x>>)[i] = IF i <= Len(s) THEN s[i] ELSE <<x>>[i - Len(s)]
  BY <1>1, ConcatProperties
<1>4. Len(s) \in Nat /\ Len(Append(s, x)) = Len(s) + 1
  OBVIOUS
<1>5. ASSUME NEW i \in 1..Len(s) + 1
      PROVE  (s \o <<x>>)[i] = Append(s, x)[i]
  <2>1. CASE i <= Len(s) BY <2>1, <1>3, <1>4
  <2>2. CASE ~(i <= Len(s))
    <3>1. i = Len(s) + 1 /\ i - Len(s) = 1 BY <2>2, <1>4
    <3> QED BY <3>1, <2>2, <1>3, <1>1
  <2> QED BY <2>1, <2>2
<1> QED BY <1>2, <1>3, <1>4, <1>5, SeqEqual

LastOf(s) == s[Len(s)]

LEMMA AppendLast ==
    ASSUME NEW S, NEW s \in Seq(S), NEW x \in S
    PROVE  LastOf(Append(s, x)) = x /\ Append(s, x) # <<>>
<1>1. Len(Append(s, x)) = Len(s) + 1 /\ Len(s) \in Nat /\ Append(s, x)[Len(s) + 1] = x
  OBVIOUS
<1>2. Len(<<>>) = 0
  OBVIOUS
<1>3. Append(s, x) # <<>>
  BY <1>1, <1>2
<1> QED BY <1>1, <1>3 DEF LastOf

\* A prefix does not change when the sequence grows.
LEMMA PrefixKept ==
    ASSUME NEW S, NEW s \in Seq(S), NEW x \in S, NEW k \in 0..Len(s)
    PROVE  SubSeq(Append(s, x), 1, k) = SubSeq(s, 1, k)
<1>1. Len(s) \in Nat /\ k \in Nat OBVIOUS
<1>2. SubSeq(s, 1, k) = [i \in 1..k |-> s[i]]
  BY <1>1
<1>3. SubSeq(Append(s, x), 1, k) = [i \in 1..k |-> Append(s, x)[i]]
  BY <1>1
<1>4. \A i \in 1..k : Append(s, x)[i] = s[i]
  BY <1>1
<1> QED BY <1>2, <1>3, <1>4

\* The snapshots sent, as a sequence that grows with snapSent.
LEMMA SentSnapsType == Typed => SentSnaps \in Seq(Snap) /\ Len(SentSnaps) = Len(snapSent)
<1> SUFFICES ASSUME Typed PROVE SentSnaps \in Seq(Snap) /\ Len(SentSnaps) = Len(snapSent)
  OBVIOUS
<1>1. snapSent \in Seq(Frame) BY DEF Typed, TypeOK
<1>2. Len(snapSent) \in Nat /\ \A j \in 1..Len(snapSent) : snapSent[j] \in Frame
  BY <1>1
<1>3. \A j \in 1..Len(snapSent) : snapSent[j].n \in Snap
  BY <1>2 DEF Frame
<1> QED BY <1>2, <1>3 DEF SentSnaps

LEMMA SentSnapsGrows ==
    ASSUME Typed, NEW f \in Frame, snapSent' = Append(snapSent, f)
    PROVE  SentSnaps' = Append(SentSnaps, f.n)
<1>1. snapSent \in Seq(Frame) BY DEF Typed, TypeOK
<1>2. /\ Len(snapSent) \in Nat /\ Len(snapSent') = Len(snapSent) + 1
      /\ snapSent'[Len(snapSent) + 1] = f
      /\ \A j \in 1..Len(snapSent) : snapSent'[j] = snapSent[j]
  BY <1>1
<1> DEFINE n == Len(snapSent)
<1>3. SentSnaps' = [j \in 1..n + 1 |-> snapSent'[j].n]
  BY <1>2 DEF SentSnaps
<1>4. SentSnaps \in Seq(Snap) /\ Len(SentSnaps) = n
  BY SentSnapsType
<1>5. Append(SentSnaps, f.n) = [j \in 1..n + 1 |-> IF j = n + 1 THEN f.n ELSE SentSnaps[j]]
  BY <1>4
<1>6. \A j \in 1..n : SentSnaps[j] = snapSent[j].n
  BY DEF SentSnaps
<1> HIDE DEF n
<1>7. n \in Nat /\ snapSent'[n + 1] = f /\ \A j \in 1..n : snapSent'[j] = snapSent[j]
  BY <1>2 DEF n
<1>8. ASSUME NEW j \in 1..n + 1
      PROVE  snapSent'[j].n = IF j = n + 1 THEN f.n ELSE SentSnaps[j]
  <2>1. CASE j = n + 1
    BY <2>1, <1>7
  <2>2. CASE j # n + 1
    <3>1. j \in 1..n BY <2>2, <1>7
    <3>2. snapSent'[j] = snapSent[j] /\ SentSnaps[j] = snapSent[j].n BY <3>1, <1>6, <1>7
    <3> QED BY <2>2, <3>2
  <2> QED BY <2>1, <2>2
<1> QED BY <1>3, <1>5, <1>8

LEMMA StreamInit == Init => StreamInv
<1> SUFFICES ASSUME Init PROVE StreamInv
  OBVIOUS
<1>1. /\ snapshots = <<>> /\ snapSent = <<>> /\ evtSent = <<>> /\ evtBuf = <<>>
      /\ seriesBuf = <<>> /\ latest = 0 /\ snaps = 0 /\ stage = 0
      /\ item.kind = "none" /\ timeline[latest] = <<>>
  BY BoundsAreNat DEF Init, Nothing
<1>2. Len(<<>>) = 0 /\ <<>> \o <<>> = <<>>
  <2>1. <<>> \in Seq({}) OBVIOUS
  <2> QED BY <2>1, ConcatEmptySeq, EmptySeq
<1>3. Window(<<>>, TimelineCap) = <<>> /\ Window(<<>>, SeriesCap) = <<>>
  BY <1>2, WindowCaps DEF Window
<1>4. SentSnaps = <<>>
  BY <1>1, <1>2 DEF SentSnaps
<1>5. Under("event") = <<>> /\ Under("snapshot") = <<>>
  BY <1>1 DEF Under
<1>6. Made
  BY <1>1, <1>2 DEF Made
<1>7. BuilderInv
  BY <1>1, <1>2, <1>3, <1>4, <1>5 DEF BuilderInv
<1>8. FramesInv
  BY <1>1, <1>2 DEF FramesInv, FramesAgree
<1> QED BY <1>6, <1>7, <1>8 DEF StreamInv

LEMMA MadeStep == Typed /\ Typed' /\ Made /\ [Next]_vars => Made'
<1> SUFFICES ASSUME Typed, Typed', Made, [Next]_vars PROVE Made'
  OBVIOUS
<1> USE DEF Made
<1>q. snapshots \in Seq(Snap) /\ snaps \in Nat /\ latest \in Nat
  BY BoundsAreNat DEF Typed, TypeOK
<1>1. CASE SendSnapshot
  <2>1. snaps' = snaps + 1 /\ UNCHANGED <<latest, item>>
    BY <1>1 DEF SendSnapshot, builderVars, fanVars
  <2>2. snapshots' = snapshots \/ snapshots' = Append(snapshots, snaps + 1)
    BY <1>1 DEF SendSnapshot
  <2>3. item.kind = "snapshot" => item.n \in Nat
    BY DEF Typed, TypeOK, Item
  <2>4. \A i \in 1..Len(snapshots) : snapshots[i] \in Nat
    <3>1. \A i \in 1..Len(snapshots) : snapshots[i] \in Snap BY <1>q, ElementOfSeq
    <3> QED BY <3>1 DEF Snap
  <2>5. \A i \in 1..Len(snapshots') : snapshots'[i] <= snaps + 1
    BY <1>q, <2>2, <2>4
  <2> QED BY <1>q, <2>1, <2>3, <2>5
<1>2. CASE TakeSnapshot
  <2>1. /\ snapshots' = Tail(snapshots) /\ item'.n = Head(snapshots)
        /\ UNCHANGED <<snaps, latest>> /\ snapshots # <<>>
    BY <1>2 DEF TakeSnapshot, TheSnap, producerVars, builderVars
  <2>2. Head(snapshots) = snapshots[1] /\ 1 \in 1..Len(snapshots)
    BY <1>q, <2>1
  <2>3. \A i \in 1..Len(Tail(snapshots)) :
            Tail(snapshots)[i] = snapshots[i + 1] /\ i + 1 \in 1..Len(snapshots)
    BY <1>q, <2>1
  <2> QED BY <2>1, <2>2, <2>3
<1>3. CASE TakeEvent
  BY <1>3 DEF TakeEvent, TheEvent, producerVars, builderVars
<1>4. CASE Update
  BY <1>4 DEF Update, Advance, producerVars, chanVars
<1>5. CASE SendEvent \/ FanoutReturns \/ AddEvent \/ Record \/ Publish
  BY <1>5 DEF SendEvent, FanoutReturns, AddEvent, Record, Publish, Advance, producerVars,
     chanVars, fanVars, builderVars
<1>6. CASE WriterStep \/ Signal \/ ServeEnds \/ Ending \/ UNCHANGED vars
  BY <1>6 DEF WriterStep, WriterStops, WriterTakesSnap, WriterTakesEvent, WriterCopied,
     WriterInserts, Signal, ServeEnds, Ending, StopStore, CloseStore, vars, writerRest,
     mainRest, producerVars, chanVars, fanVars, builderVars
<1> QED
  BY <1>1, <1>2, <1>3, <1>4, <1>5, <1>6 DEF Next, FanoutStep

\* The builder's windows and its latest snapshot follow the stream.
LEMMA BuilderStep == Typed /\ Typed' /\ Made /\ BuilderInv /\ [Next]_vars => BuilderInv'
<1> SUFFICES ASSUME Typed, Typed', Made, BuilderInv, [Next]_vars PROVE BuilderInv'
  OBVIOUS
<1>q. /\ evtSent \in Seq(Event) /\ SentSnaps \in Seq(Snap)
      /\ SeriesCap \in Nat \ {0} /\ TimelineCap \in Nat \ {0}
      /\ timeline \in [0..MaxSnaps -> Seq(Event)]
      /\ series \in [0..MaxSnaps -> Seq(Snap)]
      /\ latest \in 0..MaxSnaps /\ stage \in 0..3 /\ snapSent \in Seq(Frame)
  BY SentSnapsType, WindowCaps DEF Typed, TypeOK
<1>k. /\ item.kind = "snapshot" => (item.n \in Snap /\ item.n \in 0..MaxSnaps)
      /\ item.kind = "event" => item.n \in Event
      /\ item.kind \in {"snapshot", "event"} \/ stage = 0
  <2>1. /\ item.kind = "snapshot" => item.n \in Snap
        /\ item.kind = "event" => item.n \in Event
        /\ item.kind \in {"snapshot", "event"} \/ stage = 0
    BY DEF Typed, ItemOK
  <2>2. \A n : n \in Snap => n \in 0..MaxSnaps
    BY DEF Snap
  <2> QED BY <2>1, <2>2
<1>e. evtSent \o <<>> = evtSent /\ SentSnaps \o <<>> = SentSnaps
  BY <1>q, ConcatEmptySeq
<1>u. ASSUME stage <= 1 PROVE Under("event") = <<>> /\ Under("snapshot") = <<>>
  BY <1>u, <1>q DEF Under
<1>v. ASSUME stage' <= 1, stage' \in 0..3
      PROVE  Under("event")' = <<>> /\ Under("snapshot")' = <<>>
  BY <1>v DEF Under
<1>1. CASE TakeSnapshot \/ TakeEvent
  <2>1. stage = 0 /\ stage' = 1
    BY <1>1 DEF TakeSnapshot, TakeEvent, AtSelect
  <2>2. UNCHANGED <<evtBuf, evtSent, seriesBuf, snapSent, timeline, series, latest>>
    BY <1>1 DEF TakeSnapshot, TakeEvent, builderVars, objVars, sentVars
  <2>3. Under("event")' = <<>> /\ Under("snapshot")' = <<>>
        /\ Under("event") = <<>> /\ Under("snapshot") = <<>>
    BY <2>1, <1>u, <1>v
  <2> QED BY <2>2, <2>3 DEF BuilderInv, SentSnaps
<1>2. CASE Update
  <2>0. item.kind = "snapshot" /\ In("builder") /\ Advance
    BY <1>2 DEF Update
  <2>1. stage = 1 /\ stage' = 2 /\ item' = item
    BY <2>0, <1>q DEF In, Stages, Advance
  <2>2. /\ Under("event") = <<>> /\ Under("snapshot") = <<>>
        /\ Under("event")' = <<>> /\ Under("snapshot")' = <<item.n>>
    BY <2>0, <2>1, <1>u DEF Under
  <2>3. UNCHANGED <<evtBuf, evtSent, snapSent, SentSnaps>>
    BY <1>2 DEF Update, sentVars, SentSnaps
  <2>4. /\ seriesBuf' = AppendCapped(seriesBuf, SeriesCap, item.n)
        /\ latest' = item.n
        /\ series' = [series EXCEPT ![item.n] = seriesBuf']
        /\ timeline' = [timeline EXCEPT ![item.n] = evtBuf]
    BY <1>2 DEF Update
  <2>5. item.n \in Snap /\ item.n \in 0..MaxSnaps
    BY <2>0, <1>k
  <2>6. seriesBuf' = Window(SentSnaps \o <<item.n>>, SeriesCap)
    <3>1. seriesBuf = Window(SentSnaps, SeriesCap)
      BY <2>2, <1>e DEF BuilderInv
    <3>2. seriesBuf' = Window(Append(SentSnaps, item.n), SeriesCap)
      BY <2>4, <2>5, <3>1, <1>q, WindowOfAppend
    <3>3. SentSnaps \o <<item.n>> = Append(SentSnaps, item.n)
      BY <2>5, <1>q, AppendConcat
    <3> QED BY <3>2, <3>3
  <2>7. timeline'[latest'] = evtBuf' /\ series'[item.n] = seriesBuf'
    BY <2>3, <2>4, <2>5, <1>q
  <2>8. <<item.n>> # <<>>
    OBVIOUS
  <2>9. evtBuf = Window(evtSent \o <<>>, TimelineCap)
    BY <2>2 DEF BuilderInv
  <2> QED BY <2>1, <2>2, <2>3, <2>4, <2>6, <2>7, <2>8, <2>9 DEF BuilderInv
<1>3. CASE AddEvent
  <2>0. item.kind = "event" /\ In("builder") /\ Advance
    BY <1>3 DEF AddEvent
  <2>1. stage = 1 /\ stage' = 2 /\ item' = item
    BY <2>0, <1>q DEF In, Stages, Advance
  <2>2. /\ Under("event") = <<>> /\ Under("snapshot") = <<>>
        /\ Under("event")' = <<item.n>> /\ Under("snapshot")' = <<>>
    BY <2>0, <2>1, <1>u DEF Under
  <2>3. UNCHANGED <<latest, seriesBuf, series, evtSent, snapSent, SentSnaps>>
    BY <1>3 DEF AddEvent, sentVars, SentSnaps
  <2>4. /\ evtBuf' = AppendCapped(evtBuf, TimelineCap, item.n)
        /\ timeline' = [timeline EXCEPT ![latest] = evtBuf']
    BY <1>3 DEF AddEvent
  <2>5. item.n \in Event
    BY <2>0, <1>k
  <2>6. evtBuf' = Window(evtSent \o <<item.n>>, TimelineCap)
    <3>1. evtBuf = Window(evtSent, TimelineCap)
      BY <2>2, <1>e DEF BuilderInv
    <3>2. evtBuf' = Window(Append(evtSent, item.n), TimelineCap)
      BY <2>4, <2>5, <3>1, <1>q, WindowOfAppend
    <3>3. evtSent \o <<item.n>> = Append(evtSent, item.n)
      BY <2>5, <1>q, AppendConcat
    <3> QED BY <3>2, <3>3
  <2>7. timeline'[latest'] = evtBuf'
    BY <2>3, <2>4, <1>q
  <2>8. /\ seriesBuf = Window(SentSnaps \o <<>>, SeriesCap)
        /\ latest = IF snapSent = <<>> THEN 0 ELSE snapSent[Len(snapSent)].n
    BY <2>2 DEF BuilderInv
  <2> QED BY <2>2, <2>3, <2>6, <2>7, <2>8 DEF BuilderInv
<1>4. CASE Record
  <2>0. In("store") /\ Advance
    BY <1>4 DEF Record
  <2>1. stage = 2 /\ stage' = 3 /\ item' = item
    BY <2>0, <1>q DEF In, Stages, Advance
  <2>2. UNCHANGED <<evtBuf, evtSent, seriesBuf, snapSent, timeline, series, latest>>
    BY <1>4 DEF Record, builderVars, objVars, sentVars
  <2>3. Under("event")' = Under("event") /\ Under("snapshot")' = Under("snapshot")
    BY <2>1 DEF Under
  <2> QED BY <2>1, <2>2, <2>3 DEF BuilderInv, SentSnaps
<1>5. CASE Publish
  <2>0. In("hub") /\ Advance /\ item.kind \in {"snapshot", "event"}
    BY <1>5, <1>k DEF Publish, In
  <2>1. stage = 3 /\ stage' = 0 /\ item' = item
    BY <2>0, <1>q DEF In, Stages, Advance
  <2>2. UNCHANGED <<evtBuf, seriesBuf, timeline, series, latest>>
    BY <1>5 DEF Publish, builderVars, objVars
  <2>3. Under("event")' = <<>> /\ Under("snapshot")' = <<>>
    BY <2>1, <1>v
  <2>4. CASE item.kind = "snapshot"
    <3>1. Under("event") = <<>> /\ Under("snapshot") = <<item.n>> /\ <<item.n>> # <<>>
      BY <2>1, <2>4 DEF Under
    <3> DEFINE f == [n |-> item.n, timeline |-> timeline[item.n],
                     series |-> series[item.n], after |-> Len(evtSent)]
    <3>2. item.n \in Snap /\ item.n \in 0..MaxSnaps /\ Len(evtSent) \in Nat
      BY <2>4, <1>k, <1>q, LenProperties
    <3>3. f \in Frame /\ f.n = item.n
      BY <3>2, <1>q DEF Frame
    <3>4. snapSent' = Append(snapSent, f) /\ evtSent' = evtSent
      BY <1>5, <2>4 DEF Publish
    <3> HIDE DEF f
    <3>5. SentSnaps' = Append(SentSnaps, item.n)
      BY <3>3, <3>4, SentSnapsGrows
    <3>6. SentSnaps' = SentSnaps \o <<item.n>> /\ SentSnaps' \in Seq(Snap)
      BY <3>2, <3>5, <1>q, AppendConcat
    <3>7. SentSnaps' \o <<>> = SentSnaps'
      BY <3>6, ConcatEmptySeq
    <3>8. snapSent' # <<>> /\ snapSent'[Len(snapSent')].n = item.n
      <4>1. LastOf(Append(snapSent, f)) = f /\ Append(snapSent, f) # <<>>
        BY <3>3, <1>q, AppendLast
      <4> QED BY <4>1, <3>3, <3>4 DEF LastOf
    <3>9. /\ evtBuf = Window(evtSent \o <<>>, TimelineCap)
          /\ seriesBuf = Window(SentSnaps \o <<item.n>>, SeriesCap)
          /\ timeline[latest] = evtBuf /\ latest = item.n
      BY <3>1 DEF BuilderInv
    <3> QED BY <2>2, <2>3, <3>4, <3>6, <3>7, <3>8, <3>9 DEF BuilderInv
  <2>5. CASE item.kind = "event"
    <3>1. Under("event") = <<item.n>> /\ Under("snapshot") = <<>>
      BY <2>1, <2>5 DEF Under
    <3>2. evtSent' = Append(evtSent, item.n) /\ snapSent' = snapSent /\ item.n \in Event
      BY <1>5, <2>5, <1>k DEF Publish
    <3>3. evtSent' = evtSent \o <<item.n>> /\ evtSent' \in Seq(Event)
      BY <3>2, <1>q, AppendConcat
    <3>4. evtSent' \o <<>> = evtSent'
      BY <3>3, ConcatEmptySeq
    <3>5. SentSnaps' = SentSnaps
      BY <3>2 DEF SentSnaps
    <3>6. /\ evtBuf = Window(evtSent \o <<item.n>>, TimelineCap)
          /\ seriesBuf = Window(SentSnaps \o <<>>, SeriesCap)
          /\ timeline[latest] = evtBuf
          /\ latest = IF snapSent = <<>> THEN 0 ELSE snapSent[Len(snapSent)].n
      BY <3>1 DEF BuilderInv
    <3> QED BY <2>2, <2>3, <3>2, <3>3, <3>4, <3>5, <3>6 DEF BuilderInv
  <2> QED BY <2>0, <2>4, <2>5
<1>6. CASE SendSnapshot
  <2>1. /\ snaps + 1 # latest
        /\ item.kind = "snapshot" => item.n # snaps + 1
    <3>1. latest <= snaps /\ snaps \in Nat /\ latest \in Nat
      BY <1>q, BoundsAreNat DEF Made, Typed, TypeOK
    <3>2. item.kind = "snapshot" => item.n <= snaps /\ item.n \in Nat
      BY <1>k, BoundsAreNat DEF Made
    <3> QED BY <3>1, <3>2
  <2>2. timeline'[latest] = timeline[latest]
    BY <1>6, <1>q, <2>1 DEF SendSnapshot
  <2>3. UNCHANGED <<evtBuf, evtSent, seriesBuf, snapSent, series, latest, stage, item>>
    BY <1>6 DEF SendSnapshot, builderVars, fanVars, sentVars
  <2> QED BY <2>2, <2>3 DEF BuilderInv, Under, SentSnaps
<1>7. CASE UNCHANGED <<evtBuf, evtSent, seriesBuf, snapSent, timeline, series, latest,
                       stage, item>>
  BY <1>7 DEF BuilderInv, Under, SentSnaps
<1>8. CASE SendEvent \/ FanoutReturns
  BY <1>7, <1>8 DEF SendEvent, FanoutReturns, builderVars, objVars, sentVars, fanVars
<1>9. CASE WriterStep \/ Signal \/ ServeEnds \/ Ending \/ UNCHANGED vars
  BY <1>7, <1>9 DEF WriterStep, WriterStops, WriterTakesSnap, WriterTakesEvent, WriterCopied,
     WriterInserts, Signal, ServeEnds, Ending, StopStore, CloseStore, vars, writerRest,
     mainRest, fanVars, builderVars, objVars, sentVars
<1> QED
  BY <1>1, <1>2, <1>3, <1>4, <1>5, <1>6, <1>8, <1>9 DEF Next, FanoutStep

LEMMA FramesStep ==
    Typed /\ Typed' /\ Made /\ BuilderInv /\ FramesInv /\ [Next]_vars => FramesInv'
<1> SUFFICES ASSUME Typed, Typed', Made, BuilderInv, FramesInv, [Next]_vars
             PROVE  FramesInv'
  OBVIOUS
<1>q. /\ evtSent \in Seq(Event) /\ snapSent \in Seq(Frame)
      /\ Len(evtSent) \in Nat /\ Len(snapSent) \in Nat
      /\ SentSnaps \in Seq(Snap) /\ Len(SentSnaps) = Len(snapSent)
      /\ timeline \in [0..MaxSnaps -> Seq(Event)]
      /\ series \in [0..MaxSnaps -> Seq(Snap)] /\ stage \in 0..3
  <2>1. /\ evtSent \in Seq(Event) /\ snapSent \in Seq(Frame) /\ stage \in 0..3
        /\ timeline \in [0..MaxSnaps -> Seq(Event)]
        /\ series \in [0..MaxSnaps -> Seq(Snap)]
    BY DEF Typed, TypeOK
  <2> QED BY <2>1, SentSnapsType, LenProperties
<1>k. /\ item.kind = "snapshot" => (item.n \in Snap /\ item.n \in 0..MaxSnaps)
      /\ item.kind = "event" => item.n \in Event
      /\ item.kind \in {"snapshot", "event"} \/ stage = 0
  <2>1. /\ item.kind = "snapshot" => item.n \in Snap
        /\ item.kind = "event" => item.n \in Event
        /\ item.kind \in {"snapshot", "event"} \/ stage = 0
    BY DEF Typed, ItemOK
  <2>2. \A n : n \in Snap => n \in 0..MaxSnaps
    BY DEF Snap
  <2> QED BY <2>1, <2>2
<1>1. CASE UNCHANGED sentVars
  BY <1>1 DEF FramesInv, FramesAgree, sentVars
<1>2. CASE Publish
  <2>0. In("hub") /\ item.kind \in {"snapshot", "event"}
    BY <1>2, <1>k DEF Publish, In
  <2>1. stage = 3
    BY <2>0, <1>q DEF In, Stages
  <2>2. CASE item.kind = "event"
    <3>1. evtSent' = Append(evtSent, item.n) /\ snapSent' = snapSent /\ item.n \in Event
      BY <1>2, <2>2, <1>k DEF Publish
    <3>2. Len(evtSent') = Len(evtSent) + 1
      BY <3>1, <1>q
    <3>3. ASSUME NEW i \in 1..Len(snapSent)
          PROVE  /\ snapSent[i].after \in 0..Len(evtSent')
                 /\ snapSent[i].timeline =
                       Window(SubSeq(evtSent', 1, snapSent[i].after), TimelineCap)
                 /\ snapSent[i].series = Window([j \in 1..i |-> snapSent[j].n], SeriesCap)
      <4>1. /\ snapSent[i].after \in 0..Len(evtSent)
            /\ snapSent[i].timeline =
                 Window(SubSeq(evtSent, 1, snapSent[i].after), TimelineCap)
            /\ snapSent[i].series = Window([j \in 1..i |-> snapSent[j].n], SeriesCap)
        BY DEF FramesInv, FramesAgree
      <4>2. SubSeq(evtSent', 1, snapSent[i].after) = SubSeq(evtSent, 1, snapSent[i].after)
        BY <3>1, <4>1, <1>q, PrefixKept
      <4>3. snapSent[i].after \in 0..Len(evtSent')
        BY <4>1, <3>2, <1>q
      <4> QED BY <4>1, <4>2, <4>3
    <3> QED BY <3>1, <3>3 DEF FramesInv, FramesAgree
  <2>3. CASE item.kind = "snapshot"
    <3> DEFINE f == [n |-> item.n, timeline |-> timeline[item.n],
                     series |-> series[item.n], after |-> Len(evtSent)]
               L == Len(snapSent)
    <3>1. Under("event") = <<>> /\ Under("snapshot") = <<item.n>> /\ <<item.n>> # <<>>
      BY <2>1, <2>3 DEF Under
    <3>2. item.n \in Snap /\ item.n \in 0..MaxSnaps
      BY <2>3, <1>k
    <3>3. snapSent' = Append(snapSent, f) /\ evtSent' = evtSent
      BY <1>2, <2>3 DEF Publish
    <3>4. f \in Frame
      BY <3>2, <1>q DEF Frame
    <3>5. /\ timeline[item.n] = Window(evtSent \o <<>>, TimelineCap)
          /\ series[item.n] = Window(SentSnaps \o <<item.n>>, SeriesCap)
      BY <3>1 DEF BuilderInv
    <3>6. evtSent \o <<>> = evtSent /\ SentSnaps \o <<item.n>> = Append(SentSnaps, item.n)
      BY <3>2, <1>q, ConcatEmptySeq, AppendConcat
    <3>7. SubSeq(evtSent, 1, Len(evtSent)) = evtSent
      BY <1>q, SubSeqFull
    <3>8. /\ f.timeline = Window(SubSeq(evtSent, 1, f.after), TimelineCap)
          /\ f.series = Window(Append(SentSnaps, f.n), SeriesCap)
          /\ f.after = Len(evtSent)
      BY <3>5, <3>6, <3>7
    <3> HIDE DEF f
    <3>9. SentSnaps' = Append(SentSnaps, f.n)
      BY <3>3, <3>4, SentSnapsGrows
    <3>10. /\ Len(snapSent') = L + 1 /\ snapSent'[L + 1] = f /\ L \in Nat
           /\ \A j \in 1..L : snapSent'[j] = snapSent[j]
      BY <3>3, <3>4, <1>q
    <3> HIDE DEF L
    <3>11. ASSUME NEW i \in 1..Len(snapSent')
           PROVE  /\ snapSent'[i].after \in 0..Len(evtSent)
                  /\ snapSent'[i].timeline =
                        Window(SubSeq(evtSent, 1, snapSent'[i].after), TimelineCap)
                  /\ snapSent'[i].series =
                        Window([j \in 1..i |-> snapSent'[j].n], SeriesCap)
      <4>1. CASE i = L + 1
        <5>1. SentSnaps' = [j \in 1..i |-> snapSent'[j].n]
          BY <4>1, <3>10 DEF SentSnaps
        <5>2. Len(evtSent) \in 0..Len(evtSent) BY <1>q
        <5> QED BY <4>1, <5>1, <5>2, <3>8, <3>9, <3>10
      <4>2. CASE i # L + 1
        <5>1. i \in 1..L /\ 1..i \subseteq 1..L BY <4>2, <3>10
        <5>2. snapSent'[i] = snapSent[i] BY <5>1, <3>10
        <5>3. [j \in 1..i |-> snapSent'[j].n] = [j \in 1..i |-> snapSent[j].n]
          BY <5>1, <3>10
        <5>4. /\ snapSent[i].after \in 0..Len(evtSent)
              /\ snapSent[i].timeline =
                   Window(SubSeq(evtSent, 1, snapSent[i].after), TimelineCap)
              /\ snapSent[i].series = Window([j \in 1..i |-> snapSent[j].n], SeriesCap)
          BY <5>1 DEF FramesInv, FramesAgree, L
        <5> QED BY <5>2, <5>3, <5>4
      <4> QED BY <4>1, <4>2
    <3> QED BY <3>3, <3>11 DEF FramesInv, FramesAgree
  <2> QED BY <2>0, <2>2, <2>3
<1>3. CASE SendEvent \/ SendSnapshot \/ TakeSnapshot \/ TakeEvent \/ FanoutReturns
           \/ Update \/ AddEvent \/ Record
  BY <1>1, <1>3 DEF SendEvent, SendSnapshot, TakeSnapshot, TakeEvent, FanoutReturns, Update,
     AddEvent, Record
<1>4. CASE WriterStep \/ Signal \/ ServeEnds \/ Ending \/ UNCHANGED vars
  BY <1>1, <1>4 DEF WriterStep, WriterStops, WriterTakesSnap, WriterTakesEvent, WriterCopied,
     WriterInserts, Signal, ServeEnds, Ending, StopStore, CloseStore, vars, writerRest,
     mainRest, sentVars
<1> QED
  BY <1>2, <1>3, <1>4 DEF Next, FanoutStep

LEMMA StreamStep == Typed /\ Typed' /\ StreamInv /\ [Next]_vars => StreamInv'
BY MadeStep, BuilderStep, FramesStep DEF StreamInv

\* Whatever the collector, the writer, the handlers and fanout do in between,
\* each snapshot frame carries exactly the newest events and points that the
\* stream has had before it.
THEOREM FramesAgreeHolds == Spec => []FramesAgree
<1>1. StreamInv => FramesAgree
  BY DEF StreamInv, FramesInv
<1> QED BY <1>1, TypeInit, TypeStep, StreamInit, StreamStep, PTL DEF Spec

\* Latest never lags behind what was handed to the hub.
THEOREM LatestCoversSentHolds == Spec => []LatestCoversSent
<1>1. StreamInv => LatestCoversSent
  BY DEF StreamInv, BuilderInv, LatestCoversSent
<1> QED BY <1>1, TypeInit, TypeStep, StreamInit, StreamStep, PTL DEF Spec

-----------------------------------------------------------------------------
(* The writer and the database                                             *)

\* The copy is stripped before it is inserted; the database is closed only
\* after the writer has ended.
WriterInv == /\ RowsAreStripped
             /\ writer = "insert" /\ job.kind = "snapshot" => copy = <<>>
             /\ dbClosed => writer = "done"
             /\ ~lateWrite

LEMMA WriterInvStep == Typed /\ WriterInv /\ [Next]_vars => WriterInv'
<1> SUFFICES ASSUME Typed, WriterInv, [Next]_vars PROVE WriterInv'
  OBVIOUS
<1>r. rows \in Seq(Row)
  BY DEF Typed, TypeOK
<1> USE DEF WriterInv
<1>1. CASE WriterInserts
  <2>1. /\ writer = "insert" /\ writer' = "select" /\ lateWrite' = (lateWrite \/ dbClosed)
        /\ dbClosed' = dbClosed
        /\ rows' = rows \/ (job.kind = "snapshot"
                              /\ rows' = Append(rows, [n |-> job.n, timeline |-> copy]))
    BY <1>1 DEF WriterInserts, writerRest, mainVars
  <2>2. RowsAreStripped'
    <3>1. CASE rows' = rows
      BY <3>1 DEF RowsAreStripped
    <3>2. CASE job.kind = "snapshot"
               /\ rows' = Append(rows, [n |-> job.n, timeline |-> copy])
      <4> DEFINE r == [n |-> job.n, timeline |-> copy]
      <4>1. r.timeline = <<>> BY <2>1, <3>2
      <4>2. rows' = Append(rows, r) BY <3>2
      <4> HIDE DEF r
      <4>3. /\ Len(rows') = Len(rows) + 1 /\ rows'[Len(rows) + 1] = r /\ Len(rows) \in Nat
            /\ \A i \in 1..Len(rows) : rows'[i] = rows[i]
        BY <4>2, <1>r
      <4> QED BY <4>1, <4>3 DEF RowsAreStripped
    <3> QED BY <2>1, <3>1, <3>2
  <2> QED BY <2>1, <2>2
<1>2. CASE WriterCopied
  BY <1>2 DEF WriterCopied, Strip, writerRest, mainVars, RowsAreStripped
<1>3. CASE WriterTakesSnap
  BY <1>3 DEF WriterTakesSnap, writerRest, mainVars, RowsAreStripped
<1>4. CASE WriterTakesEvent
  BY <1>4 DEF WriterTakesEvent, TheEvent, writerRest, mainVars, RowsAreStripped
<1>5. CASE WriterStops
  BY <1>5 DEF WriterStops, writerRest, mainVars, RowsAreStripped
<1>6. CASE CloseStore
  BY <1>6 DEF CloseStore, mainRest, writerVars, RowsAreStripped
<1>7. CASE Signal \/ ServeEnds \/ StopStore
  BY <1>7 DEF Signal, ServeEnds, StopStore, mainRest, writerVars, RowsAreStripped
<1>8. CASE SendEvent \/ SendSnapshot \/ FanoutStep \/ UNCHANGED vars
  BY <1>8 DEF SendEvent, SendSnapshot, FanoutStep, TakeSnapshot, TakeEvent, FanoutReturns,
     Update, AddEvent, Record, Publish, vars, writerVars, mainVars, RowsAreStripped
<1> QED
  BY <1>1, <1>2, <1>3, <1>4, <1>5, <1>6, <1>7, <1>8 DEF Next, WriterStep, Ending

LEMMA WriterInit == Init => WriterInv
<1>1. Len(<<>>) = 0 OBVIOUS
<1> QED BY <1>1 DEF Init, WriterInv, RowsAreStripped

\* The unlocked copy of a snapshot may be torn, and nothing of it is stored.
THEOREM RowsAreStrippedHolds == Spec => []RowsAreStripped
<1>1. WriterInv => RowsAreStripped
  BY DEF WriterInv
<1> QED BY <1>1, TypeInit, TypeStep, WriterInit, WriterInvStep, PTL DEF Spec

\* store.Close waits for the writer, so nothing is written afterwards.
THEOREM NoLateWriteHolds == Spec => []NoLateWrite
<1>1. WriterInv => NoLateWrite
  BY DEF WriterInv, NoLateWrite
<1> QED BY <1>1, TypeInit, TypeStep, WriterInit, WriterInvStep, PTL DEF Spec
=============================================================================
