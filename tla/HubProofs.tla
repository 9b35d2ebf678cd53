----------------------------- MODULE HubProofs -----------------------------
(***************************************************************************)
(* Theorems about Hub for every set of connections and every capacity.     *)
(***************************************************************************)
EXTENDS Hub, FiniteSetTheorems, SequenceTheorems, TLAPS

LEMMA SubsetFinite ==
    ASSUME NEW S \in SUBSET Client
    PROVE  IsFiniteSet(S) /\ Cardinality(S) \in Nat
BY ClientFinite, FS_Subset, FS_CardinalityType

\* Drop keeps the types of what it writes.
LEMMA DropType ==
    ASSUME TypeOK, NEW c \in Client, Drop(c)
    PROVE  /\ count' \in Nat /\ clients' \in SUBSET Client
           /\ closed' \in [Client -> BOOLEAN] /\ panicked' \in BOOLEAN
<1>1. clients \ {c} \in SUBSET Client /\ Cardinality(clients \ {c}) \in Nat
  BY SubsetFinite DEF TypeOK
<1>2. CASE c \in clients
  BY <1>1, <1>2 DEF TypeOK, Drop, CloseSend
<1>3. CASE c \notin clients
  BY <1>3 DEF TypeOK, Drop
<1> QED
  BY <1>2, <1>3

\* So does the admission of a client.
LEMMA AdmitType ==
    ASSUME TypeOK, NEW c \in Client, Admit(c)
    PROVE  /\ count' \in Nat /\ clients' \in SUBSET Client
           /\ closed' \in [Client -> BOOLEAN] /\ panicked' \in BOOLEAN
<1>1. /\ clients \cup {c} \in SUBSET Client
      /\ Cardinality(clients \cup {c}) \in Nat
  BY SubsetFinite DEF TypeOK
<1>2. CASE Cardinality(clients) >= Max
  BY <1>2 DEF TypeOK, Admit, CloseSend
<1>3. CASE ~(Cardinality(clients) >= Max)
  BY <1>1, <1>3 DEF TypeOK, Admit
<1> QED
  BY <1>2, <1>3

\* The broadcast loop serves a frame that was taken.
Serving == todo # {} => log # <<>>

\* Every step keeps the types.
LEMMA TypeStep == TypeOK /\ Serving /\ [Next]_vars => TypeOK'
<1> SUFFICES ASSUME TypeOK, Serving, [Next]_vars PROVE TypeOK'
  OBVIOUS
<1> USE CapsPositive, BoundsOK
    DEF TypeOK, hubVars, chanVars, connVars, histVars, Goto, Disconnect,
        HandlerLabels, PumpLabels
<1>1. CASE UNCHANGED vars
  BY <1>1 DEF vars
<1>2. CASE HubTake
  BY <1>2, HeadTailProperties, AppendProperties DEF HubTake
<1>3. CASE HubExit
  BY <1>3 DEF HubExit, CloseSend
<1>4. CASE Cancel
  BY <1>4 DEF Cancel
<1>5. CASE Broadcast
  <2>1. issued + 1 \in Frames
    BY <1>5 DEF Broadcast, Frames
  <2>2. Append(broadcast, issued + 1) \in Seq(Frames)
    BY <2>1, AppendProperties
  <2>3. Len(Append(broadcast, issued + 1)) = Len(broadcast) + 1
    BY <2>1, AppendProperties
  <2>4. /\ broadcast' \in Seq(Frames) /\ Len(broadcast') <= BroadcastCap
        /\ issued' \in 0..MaxFrames
    BY <1>5, <2>2, <2>3, LenProperties DEF Broadcast
  <2> QED
    BY <1>5, <2>4 DEF Broadcast
<1>6. ASSUME NEW c \in Client, HubSend(c) PROVE TypeOK'
  <2>1. CASE closed[c] \/ Len(send[c]) < SendCap
    <3>1. log[Len(log)] \in Frames
      BY <1>6, EmptySeq, ElementOfSeq DEF HubSend, Serving
    <3>2. Append(send[c], log[Len(log)]) \in Seq(Frames)
      BY <3>1, AppendProperties
    <3> QED
      BY <1>6, <2>1, <3>2 DEF HubSend
  <2>2. CASE ~(closed[c] \/ Len(send[c]) < SendCap)
    <3>1. Drop(c) /\ UNCHANGED send
      BY <1>6, <2>2 DEF HubSend
    <3> QED
      BY <1>6, <3>1, DropType DEF HubSend
  <2> QED
    BY <2>1, <2>2
<1>7. ASSUME NEW c \in Client, Refuse(c) PROVE TypeOK'
  BY <1>7 DEF Refuse
<1>8. ASSUME NEW c \in Client, Accept(c) PROVE TypeOK'
  BY <1>8 DEF Accept
<1>9. ASSUME NEW c \in Client, PeerClose(c) PROVE TypeOK'
  BY <1>9 DEF PeerClose
<1>10. ASSUME NEW c \in Client, Register(c) PROVE TypeOK'
  <2>1. /\ count' \in Nat /\ clients' \in SUBSET Client
        /\ closed' \in [Client -> BOOLEAN] /\ panicked' \in BOOLEAN
    BY <1>10, AdmitType DEF Register
  <2>2. /\ from' \in [Client -> Nat]
        /\ handler' \in [Client -> HandlerLabels]
        /\ pump' \in [Client -> PumpLabels]
    BY <1>10, LenProperties DEF Register
  <2>3. UNCHANGED <<broadcast, issued, todo, ctxDone, hubDone, send>>
    BY <1>10 DEF Register
  <2>4. UNCHANGED <<held, connOpen, greeted, got, log>>
    BY <1>10 DEF Register
  <2> QED
    BY <2>1, <2>2, <2>3, <2>4
<1>11. ASSUME NEW c \in Client, RegisterTimeout(c) PROVE TypeOK'
  BY <1>11 DEF RegisterTimeout
<1>12. ASSUME NEW c \in Client, Greet(c) PROVE TypeOK'
  <2>1. greeted' \in [Client -> 0..2]
    <3>1. greeted[c] + 1 \in 0..2
      <4>1. greeted[c] \in 0..2
        OBVIOUS
      <4>2. greeted[c] < 2
        BY <1>12 DEF Greet
      <4> HIDE DEF TypeOK
      <4> QED
        BY <4>1, <4>2
    <3> QED
      BY <1>12, <3>1 DEF Greet
  <2> QED
    BY <1>12, <2>1 DEF Greet
<1>13. ASSUME NEW c \in Client, GreetFail(c) PROVE TypeOK'
  BY <1>13 DEF GreetFail
<1>14. ASSUME NEW c \in Client, Greeted(c) PROVE TypeOK'
  BY <1>14 DEF Greeted
<1>15. ASSUME NEW c \in Client, ReadFails(c) PROVE TypeOK'
  BY <1>15 DEF ReadFails
<1>16. ASSUME NEW c \in Client, Unregister(c) PROVE TypeOK'
  <2>1. /\ count' \in Nat /\ clients' \in SUBSET Client
        /\ closed' \in [Client -> BOOLEAN] /\ panicked' \in BOOLEAN
    BY <1>16, DropType DEF Unregister
  <2> QED
    BY <1>16, <2>1 DEF Unregister
<1>17. ASSUME NEW c \in Client, UnregisterTimeout(c) PROVE TypeOK'
  BY <1>17 DEF UnregisterTimeout
<1>18. ASSUME NEW c \in Client, PumpRecv(c) PROVE TypeOK'
  <2>1. Head(send[c]) \in Frames /\ Tail(send[c]) \in Seq(Frames)
    BY <1>18, HeadTailProperties DEF PumpRecv
  <2> QED
    BY <1>18, <2>1 DEF PumpRecv
<1>19. ASSUME NEW c \in Client, PumpEnd(c) PROVE TypeOK'
  BY <1>19 DEF PumpEnd
<1>20. ASSUME NEW c \in Client, PumpWrite(c) PROVE TypeOK'
  <2>1. got[c] \o held[c] \in Seq(Frames)
    BY ConcatProperties
  <2> QED
    BY <1>20, <2>1 DEF PumpWrite
<1>21. ASSUME NEW c \in Client, PumpFail(c) PROVE TypeOK'
  BY <1>21 DEF PumpFail
<1> HIDE DEF TypeOK, hubVars, chanVars, connVars, histVars, Goto, Disconnect,
            HandlerLabels, PumpLabels
<1> QED
  BY <1>1, <1>2, <1>3, <1>4, <1>5, <1>6, <1>7, <1>8, <1>9, <1>10, <1>11, <1>12,
     <1>13, <1>14, <1>15, <1>16, <1>17, <1>18, <1>19, <1>20, <1>21
  DEF Next, HubStep, HandlerStep, PumpStep

LEMMA ServingStep == TypeOK /\ Serving /\ [Next]_vars => Serving'
<1> SUFFICES ASSUME TypeOK, Serving, [Next]_vars PROVE Serving'
  OBVIOUS
<1>1. CASE HubTake
  <2>1. Head(broadcast) \in Frames
    BY <1>1, HeadTailProperties DEF HubTake, TypeOK
  <2> QED
    BY <1>1, <2>1, AppendProperties DEF HubTake, TypeOK, Serving
<1>2. ASSUME NEW c \in Client, HubSend(c) PROVE Serving'
  BY <1>2 DEF HubSend, Serving, histVars
<1>3. CASE UNCHANGED vars \/ HubExit \/ Cancel \/ Broadcast
  BY <1>3 DEF HubExit, Cancel, Broadcast, vars, hubVars, histVars, Serving
<1>4. ASSUME NEW c \in Client, Refuse(c) \/ Accept(c) \/ PeerClose(c)
      PROVE  Serving'
  BY <1>4 DEF Refuse, Accept, PeerClose, hubVars, histVars, Serving
<1>5. ASSUME NEW c \in Client, HandlerStep(c) PROVE Serving'
  <2>1. UNCHANGED <<todo, log>>
    BY <1>5 DEF HandlerStep, Register, RegisterTimeout, Greet, GreetFail, Greeted,
       ReadFails, Unregister, UnregisterTimeout, hubVars, histVars
  <2> QED
    BY <2>1 DEF Serving
<1>6. ASSUME NEW c \in Client, PumpStep(c) PROVE Serving'
  BY <1>6 DEF PumpStep, PumpRecv, PumpEnd, PumpWrite, PumpFail, hubVars,
     histVars, Serving
<1> QED
  BY <1>1, <1>2, <1>3, <1>4, <1>5, <1>6 DEF Next, HubStep

LEMMA InitTypes == Init => TypeOK /\ Serving
<1> SUFFICES ASSUME Init PROVE TypeOK /\ Serving
  OBVIOUS
<1>1. <<>> \in Seq(Frames) /\ Len(<<>>) = 0
  BY EmptySeq
<1>2. Len(broadcast) <= BroadcastCap
  BY <1>1, CapsPositive DEF Init
<1>3. issued \in 0..MaxFrames
  BY BoundsOK DEF Init
<1>4. /\ handler \in [Client -> HandlerLabels] /\ pump \in [Client -> PumpLabels]
      /\ greeted \in [Client -> 0..2] /\ from \in [Client -> Nat]
      /\ closed \in [Client -> BOOLEAN] /\ connOpen \in [Client -> BOOLEAN]
  BY DEF Init, HandlerLabels, PumpLabels
<1>5. /\ send \in [Client -> Seq(Frames)] /\ held \in [Client -> Seq(Frames)]
      /\ got \in [Client -> Seq(Frames)]
      /\ log \in Seq(Frames) /\ broadcast \in Seq(Frames)
  BY <1>1 DEF Init
<1>6. /\ clients \in SUBSET Client /\ todo \in SUBSET Client /\ count \in Nat
      /\ ctxDone \in BOOLEAN /\ hubDone \in BOOLEAN /\ panicked \in BOOLEAN
      /\ todo = {}
  BY DEF Init
<1> QED
  BY <1>2, <1>3, <1>4, <1>5, <1>6 DEF TypeOK, Serving

\* The types hold in every state, whatever the connections and capacities.
THEOREM TypeCorrect == Spec => []TypeOK
<1>1. TypeOK /\ Serving /\ [Next]_vars => TypeOK' /\ Serving'
  BY TypeStep, ServingStep
<1> QED
  BY <1>1, InitTypes, PTL DEF Spec

-----------------------------------------------------------------------------
(* Channels and admission                                                  *)

\* Who may still close or use a send channel: a registered client's channel is
\* open, and a connection that has not been received by Run has never been
\* registered nor its channel closed.
ChannelInv == /\ ~panicked
              /\ todo \subseteq clients
              /\ \A c \in clients : ~closed[c] /\ pump[c] # "none"
              /\ \A c \in Client : /\ handler[c] \in {"new", "register"}
                                        => pump[c] = "none"
                                   /\ pump[c] = "none" => ~closed[c]

LEMMA ChannelStep == TypeOK /\ ChannelInv /\ [Next]_vars => ChannelInv'
<1> SUFFICES ASSUME TypeOK, ChannelInv, [Next]_vars PROVE ChannelInv'
  OBVIOUS
<1> USE DEF ChannelInv, hubVars, chanVars, connVars, histVars, Goto
<1>0. handler \in [Client -> HandlerLabels] /\ pump \in [Client -> PumpLabels]
      /\ closed \in [Client -> BOOLEAN]
      /\ clients \subseteq Client
  BY DEF TypeOK
<1>1. CASE UNCHANGED vars \/ HubTake \/ Cancel \/ Broadcast
  BY <1>1 DEF vars, HubTake, Cancel, Broadcast, AtSelect
<1>2. CASE HubExit
  BY <1>0, <1>2 DEF HubExit, CloseSend, AtSelect
<1>3. ASSUME NEW c \in Client, HubSend(c) PROVE ChannelInv'
  BY <1>0, <1>3 DEF HubSend, Drop, CloseSend
<1>4. ASSUME NEW c \in Client, Refuse(c) \/ Accept(c) \/ PeerClose(c)
      PROVE  ChannelInv'
  BY <1>0, <1>4 DEF Refuse, Accept, PeerClose
<1>5. ASSUME NEW c \in Client, Register(c) PROVE ChannelInv'
  BY <1>0, <1>5 DEF Register, Admit, CloseSend, AtSelect, PumpLabels
<1>6. ASSUME NEW c \in Client, Unregister(c) PROVE ChannelInv'
  BY <1>0, <1>6 DEF Unregister, Drop, CloseSend, AtSelect
<1>7. ASSUME NEW c \in Client,
             RegisterTimeout(c) \/ Greet(c) \/ GreetFail(c) \/ Greeted(c)
      PROVE  ChannelInv'
  BY <1>0, <1>7 DEF RegisterTimeout, Greet, GreetFail, Greeted
<1>8. ASSUME NEW c \in Client, ReadFails(c) \/ UnregisterTimeout(c)
      PROVE  ChannelInv'
  BY <1>0, <1>8 DEF ReadFails, UnregisterTimeout
<1>9. ASSUME NEW c \in Client, PumpStep(c) PROVE ChannelInv'
  <2>1. UNCHANGED <<panicked, todo, clients, closed, handler>>
    BY <1>9 DEF PumpStep, PumpRecv, PumpEnd, PumpWrite, PumpFail
  <2>2. pump[c] # "none" /\ \E l \in PumpLabels \ {"none"} :
                                pump' = [pump EXCEPT ![c] = l]
    BY <1>9 DEF PumpStep, PumpRecv, PumpEnd, PumpWrite, PumpFail, PumpLabels
  <2> QED
    BY <1>0, <2>1, <2>2
<1> HIDE DEF ChannelInv, hubVars, chanVars, connVars, histVars, Goto
<1> QED
  BY <1>1, <1>2, <1>3, <1>4, <1>5, <1>6, <1>7, <1>8, <1>9
  DEF Next, HubStep, HandlerStep

\* Run never closes a channel twice and never sends on a closed one.
THEOREM ChannelsSafe == Spec => []NoPanic
<1>1. Init => TypeOK /\ Serving /\ ChannelInv
  BY InitTypes DEF Init, ChannelInv
<1>2. TypeOK /\ Serving /\ ChannelInv /\ [Next]_vars
        => TypeOK' /\ Serving' /\ ChannelInv'
  BY TypeStep, ServingStep, ChannelStep
<1>3. ChannelInv => NoPanic
  BY DEF ChannelInv, NoPanic
<1> QED
  BY <1>1, <1>2, <1>3, PTL DEF Spec

LEMMA DropCount ==
    ASSUME TypeOK, Admission, NEW c \in Client, Drop(c)
    PROVE  Admission'
<1>1. IsFiniteSet(clients) /\ Cardinality(clients) \in Nat
  BY SubsetFinite DEF TypeOK
<1>2. Cardinality(clients \ {c}) <= Cardinality(clients)
  <2>1. Cardinality(clients \ {c}) =
          IF c \in clients THEN Cardinality(clients) - 1 ELSE Cardinality(clients)
    BY <1>1, FS_RemoveElement
  <2> QED
    BY <1>1, <2>1
<1>3. Cardinality(clients \ {c}) \in Nat
  BY <1>1, FS_RemoveElement, FS_CardinalityType
<1> QED
  BY <1>1, <1>2, <1>3, CapsPositive DEF Drop, Admission

LEMMA AdmitCount ==
    ASSUME TypeOK, Admission, NEW c \in Client, Admit(c)
    PROVE  Admission'
<1>1. IsFiniteSet(clients) /\ Cardinality(clients) \in Nat
  BY SubsetFinite DEF TypeOK
<1>2. /\ Cardinality(clients \cup {c}) <= Cardinality(clients) + 1
      /\ Cardinality(clients \cup {c}) \in Nat
  <2>1. Cardinality(clients \cup {c}) =
          IF c \in clients THEN Cardinality(clients) ELSE Cardinality(clients) + 1
    BY <1>1, FS_AddElement
  <2> QED
    BY <1>1, <2>1
<1>3. CASE Cardinality(clients) >= Max
  <2>1. clients' = clients /\ count' = count
    BY <1>3 DEF Admit
  <2> QED
    BY <2>1 DEF Admission
<1>4. CASE ~(Cardinality(clients) >= Max)
  <2>1. clients' = clients \cup {c} /\ count' = Cardinality(clients')
    BY <1>4 DEF Admit
  <2>2. Cardinality(clients \cup {c}) <= Max
    BY <1>1, <1>2, <1>4, CapsPositive
  <2> QED
    BY <2>1, <2>2 DEF Admission
<1> QED
  BY <1>3, <1>4

LEMMA AdmissionStep == TypeOK /\ Admission /\ [Next]_vars => Admission'
<1> SUFFICES ASSUME TypeOK, Admission, [Next]_vars PROVE Admission'
  OBVIOUS
<1> USE DEF hubVars
<1>1. CASE UNCHANGED vars \/ HubTake \/ Cancel \/ Broadcast
  BY <1>1 DEF vars, HubTake, Cancel, Broadcast, Admission
<1>2. CASE HubExit
  BY <1>2, FS_EmptySet, CapsPositive DEF HubExit, Admission
<1>3. ASSUME NEW c \in Client, HubSend(c) PROVE Admission'
  <2>1. Drop(c) \/ UNCHANGED <<clients, count>>
    BY <1>3 DEF HubSend
  <2> QED
    BY <2>1, DropCount DEF Admission
<1>4. ASSUME NEW c \in Client, Refuse(c) \/ Accept(c) \/ PeerClose(c)
      PROVE  Admission'
  BY <1>4 DEF Refuse, Accept, PeerClose, Admission
<1>5. ASSUME NEW c \in Client, Register(c) PROVE Admission'
  BY <1>5, AdmitCount DEF Register
<1>6. ASSUME NEW c \in Client, Unregister(c) PROVE Admission'
  BY <1>6, DropCount DEF Unregister
<1>7. ASSUME NEW c \in Client,
             \/ RegisterTimeout(c) \/ Greet(c) \/ GreetFail(c) \/ Greeted(c)
             \/ ReadFails(c) \/ UnregisterTimeout(c)
      PROVE  Admission'
  BY <1>7 DEF RegisterTimeout, Greet, GreetFail, Greeted, ReadFails,
              UnregisterTimeout, Admission
<1>8. ASSUME NEW c \in Client, PumpStep(c) PROVE Admission'
  BY <1>8 DEF PumpStep, PumpRecv, PumpEnd, PumpWrite, PumpFail, Admission
<1> HIDE DEF hubVars
<1> QED
  BY <1>1, <1>2, <1>3, <1>4, <1>5, <1>6, <1>7, <1>8 DEF Next, HubStep, HandlerStep

\* Run registers at most Max clients and ClientCount is their number.
THEOREM AdmissionHolds == Spec => []Admission
<1>1. Init => TypeOK /\ Serving /\ Admission
  BY InitTypes, FS_EmptySet, CapsPositive DEF Init, Admission
<1>2. TypeOK /\ Serving /\ Admission /\ [Next]_vars
        => TypeOK' /\ Serving' /\ Admission'
  BY TypeStep, ServingStep, AdmissionStep
<1> QED
  BY <1>1, <1>2, PTL DEF Spec

-----------------------------------------------------------------------------
(* The stream of a client                                                  *)

\* s is the stretch of l that follows the first f elements.
Stretch(l, f, s) == /\ f + Len(s) <= Len(l)
                    /\ \A i \in 1..Len(s) : s[i] = l[f + i]

LEMMA StretchLonger ==
    ASSUME NEW S, NEW l \in Seq(S), NEW f \in Nat, NEW s \in Seq(S), NEW e \in S,
           Stretch(l, f, s)
    PROVE  Stretch(Append(l, e), f, s) /\ Len(Append(l, e)) = Len(l) + 1
<1>1. Len(l) \in Nat /\ Len(s) \in Nat
  BY LenProperties
<1>2. /\ Len(Append(l, e)) = Len(l) + 1
      /\ \A i \in 1..Len(l) : Append(l, e)[i] = l[i]
  BY AppendProperties
<1>3. ASSUME NEW i \in 1..Len(s) PROVE s[i] = Append(l, e)[f + i]
  <2>1. f + i \in 1..Len(l)
    BY <1>1 DEF Stretch
  <2> QED
    BY <1>2, <2>1 DEF Stretch
<1> QED
  BY <1>1, <1>2, <1>3 DEF Stretch

LEMMA StretchNext ==
    ASSUME NEW S, NEW l \in Seq(S), NEW f \in Nat, NEW s \in Seq(S),
           Stretch(l, f, s), f + Len(s) < Len(l)
    PROVE  /\ Stretch(l, f, Append(s, l[f + Len(s) + 1]))
           /\ Append(s, l[f + Len(s) + 1]) \in Seq(S)
           /\ Len(Append(s, l[f + Len(s) + 1])) = Len(s) + 1
<1> DEFINE e == l[f + Len(s) + 1]
<1>1. Len(l) \in Nat /\ Len(s) \in Nat
  BY LenProperties
<1>2. f + Len(s) + 1 \in 1..Len(l)
  BY <1>1
<1>3. e \in S
  BY <1>2, ElementOfSeq
<1>4. /\ Append(s, e) \in Seq(S)
      /\ Len(Append(s, e)) = Len(s) + 1
      /\ \A i \in 1..Len(s) : Append(s, e)[i] = s[i]
      /\ Append(s, e)[Len(s) + 1] = e
  BY <1>3, AppendProperties
<1>5. ASSUME NEW i \in 1..(Len(s) + 1) PROVE Append(s, e)[i] = l[f + i]
  <2>1. CASE i \in 1..Len(s)
    BY <1>4, <2>1 DEF Stretch
  <2>2. CASE i = Len(s) + 1
    <3>1. f + i = f + Len(s) + 1
      BY <1>1, <2>2
    <3> QED
      BY <1>4, <2>2, <3>1
  <2> QED
    BY <1>1, <2>1, <2>2
<1> HIDE DEF e
<1>6. \A i \in 1..Len(Append(s, e)) : Append(s, e)[i] = l[f + i]
  BY <1>4, <1>5
<1>7. f + Len(Append(s, e)) <= Len(l)
  BY <1>1, <1>4
<1>8. Stretch(l, f, Append(s, e))
  BY <1>6, <1>7 DEF Stretch
<1> QED
  BY <1>4, <1>8 DEF e

\* The element after the first Len(g) of a stretch.
LEMMA StretchMiddle ==
    ASSUME NEW S, NEW l \in Seq(S), NEW f \in Nat,
           NEW g \in Seq(S), NEW h \in Seq(S), NEW s \in Seq(S), Len(h) = 1,
           Stretch(l, f, (g \o h) \o s)
    PROVE  /\ f + Len(g) < Len(l)
           /\ g \o h = Append(g, l[f + Len(g) + 1])
<1>1. Len(l) \in Nat /\ Len(g) \in Nat /\ Len(s) \in Nat
  BY LenProperties
<1>2. /\ g \o h \in Seq(S) /\ Len(g \o h) = Len(g) + 1
      /\ (g \o h)[Len(g) + 1] = h[1]
  <2>1. /\ g \o h \in Seq(S) /\ Len(g \o h) = Len(g) + Len(h)
        /\ \A i \in 1..(Len(g) + Len(h)) :
                (g \o h)[i] = IF i <= Len(g) THEN g[i] ELSE h[i - Len(g)]
    BY ConcatProperties
  <2>2. /\ Len(g) + 1 \in 1..(Len(g) + Len(h))
        /\ ~(Len(g) + 1 <= Len(g)) /\ (Len(g) + 1) - Len(g) = 1
    BY <1>1
  <2> QED
    BY <2>1, <2>2
<1>3. /\ Len((g \o h) \o s) = Len(g) + 1 + Len(s)
      /\ ((g \o h) \o s)[Len(g) + 1] = (g \o h)[Len(g) + 1]
  <2> DEFINE gh == g \o h
  <2>1. gh \in Seq(S) /\ Len(gh) = Len(g) + 1
    BY <1>2
  <2> HIDE DEF gh
  <2>2. /\ Len(gh \o s) = Len(gh) + Len(s)
        /\ \A i \in 1..(Len(gh) + Len(s)) :
                (gh \o s)[i] = IF i <= Len(gh) THEN gh[i] ELSE s[i - Len(gh)]
    BY <2>1, ConcatProperties
  <2>3. /\ Len(g) + 1 \in 1..(Len(gh) + Len(s)) /\ Len(g) + 1 <= Len(gh)
    BY <1>1, <2>1
  <2> QED
    BY <2>1, <2>2, <2>3 DEF gh
<1>4. f + Len(g) + 1 + Len(s) <= Len(l)
  BY <1>1, <1>3 DEF Stretch
<1>5. h[1] = l[f + Len(g) + 1]
  <2>1. ((g \o h) \o s)[Len(g) + 1] = l[f + (Len(g) + 1)]
    BY <1>1, <1>3 DEF Stretch
  <2>2. Len(g) + 1 - Len(g) = 1 /\ f + (Len(g) + 1) = f + Len(g) + 1
    BY <1>1
  <2> QED
    BY <1>2, <1>3, <2>1, <2>2
<1>6. h = <<h[1]>> /\ h[1] \in S
  <2>1. h[1] \in S
    <3>1. 1 \in 1..Len(h)
      OBVIOUS
    <3> QED
      BY <3>1, ElementOfSeq
  <2>2. <<h[1]>> \in Seq(S) /\ Len(<<h[1]>>) = 1
    BY <2>1
  <2>3. ASSUME NEW i \in 1..Len(h) PROVE h[i] = <<h[1]>>[i]
    <3>1. i = 1
      OBVIOUS
    <3>2. <<h[1]>>[1] = h[1]
      OBVIOUS
    <3> QED
      BY <3>1, <3>2
  <2> QED
    BY <2>1, <2>2, <2>3, SeqEqual
<1>7. Append(g, h[1]) = g \o <<h[1]>>
  BY <1>6, AppendIsConcat
<1>8. f + Len(g) < Len(l)
  BY <1>1, <1>4
<1> QED
  BY <1>5, <1>6, <1>7, <1>8

\* Moving the head of s over does not change the whole.
LEMMA MoveHead ==
    ASSUME NEW S, NEW g \in Seq(S), NEW s \in Seq(S), s # <<>>
    PROVE  (g \o <<Head(s)>>) \o Tail(s) = (g \o <<>>) \o s
<1>1. Head(s) \in S /\ Tail(s) \in Seq(S) /\ <<Head(s)>> \in Seq(S)
  BY HeadTailProperties
<1>2. <<Head(s)>> \o Tail(s) = s
  <2>1. /\ Len(Tail(s)) = Len(s) - 1 /\ Len(s) \in Nat \ {0}
        /\ \A i \in 1..Len(Tail(s)) : Tail(s)[i] = s[i + 1]
    BY HeadTailProperties, EmptySeq
  <2>2. /\ <<Head(s)>> \o Tail(s) \in Seq(S)
        /\ Len(<<Head(s)>> \o Tail(s)) = Len(s)
        /\ \A i \in 1..Len(s) : (<<Head(s)>> \o Tail(s))[i] =
                IF i <= 1 THEN <<Head(s)>>[i] ELSE Tail(s)[i - 1]
    BY <1>1, <2>1, ConcatProperties
  <2>3. ASSUME NEW i \in 1..Len(s) PROVE (<<Head(s)>> \o Tail(s))[i] = s[i]
    <3>1. CASE i = 1
      BY <2>1, <2>2, <3>1
    <3>2. CASE i # 1
      <4>1. i - 1 \in 1..Len(Tail(s)) /\ (i - 1) + 1 = i
        BY <2>1, <3>2
      <4> QED
        BY <2>1, <2>2, <3>2, <4>1
    <3> QED
      BY <3>1, <3>2
  <2> QED
    BY <2>2, <2>3, SeqEqual
<1>3. (g \o <<Head(s)>>) \o Tail(s) = g \o (<<Head(s)>> \o Tail(s))
  BY <1>1, ConcatAssociative
<1> QED
  BY <1>2, <1>3, ConcatEmptySeq

LEMMA AppendToConcat ==
    ASSUME NEW S, NEW g \in Seq(S), NEW s \in Seq(S), NEW e \in S
    PROVE  g \o Append(s, e) = Append(g \o s, e)
<1>1. Append(s, e) = s \o <<e>> /\ <<e>> \in Seq(S)
  BY AppendIsConcat
<1>2. g \o s \in Seq(S)
  BY ConcatProperties
<1>3. Append(g \o s, e) = (g \o s) \o <<e>>
  BY <1>2, AppendIsConcat
<1>4. (g \o s) \o <<e>> = g \o (s \o <<e>>)
  BY <1>1, ConcatAssociative
<1> QED
  BY <1>1, <1>3, <1>4

\* All that the hub sent to c: on the wire, in writePump, and in the channel.
Chain(c) == (got[c] \o held[c]) \o send[c]
Behind(c) == IF c \in todo THEN 1 ELSE 0

\* The strengthening that makes the order of frames inductive: what the hub
\* sent to c is the stretch of the log that starts where c registered, and for
\* a registered client it reaches the frame the broadcast loop is at.
StretchInv(c) ==
    /\ Len(send[c]) <= SendCap
    /\ Len(held[c]) <= 1
    /\ pump[c] = "write" => Len(held[c]) = 1
    /\ pump[c] = "none" => got[c] = <<>> /\ send[c] = <<>>
    /\ pump[c] \in {"none", "recv"} => held[c] = <<>>
    /\ Stretch(log, from[c], Chain(c))
    /\ c \in clients => from[c] + Len(Chain(c)) + Behind(c) = Len(log)

Before == TypeOK /\ Serving /\ ChannelInv

ChainOK(c) ==
    /\ got[c] \in Seq(Frames) /\ held[c] \in Seq(Frames)
    /\ send[c] \in Seq(Frames) /\ log \in Seq(Frames)
    /\ from[c] \in Nat /\ SendCap \in Nat
    /\ got[c] \o held[c] \in Seq(Frames) /\ Chain(c) \in Seq(Frames)
    /\ Len(Chain(c)) = Len(got[c]) + Len(held[c]) + Len(send[c])
    /\ Len(Chain(c)) \in Nat
    /\ Len(got[c]) \in Nat /\ Len(held[c]) \in Nat
    /\ Len(send[c]) \in Nat /\ Len(log) \in Nat

LEMMA ChainTypes ==
    ASSUME Before, NEW c \in Client
    PROVE  ChainOK(c)
<1>1. /\ got[c] \in Seq(Frames) /\ held[c] \in Seq(Frames)
      /\ send[c] \in Seq(Frames) /\ log \in Seq(Frames)
      /\ from[c] \in Nat /\ SendCap \in Nat
  BY CapsPositive DEF Before, TypeOK
<1>2. /\ got[c] \o held[c] \in Seq(Frames)
      /\ Len(got[c] \o held[c]) = Len(got[c]) + Len(held[c])
  BY <1>1, ConcatProperties
<1>3. /\ Chain(c) \in Seq(Frames)
      /\ Len(Chain(c)) = Len(got[c] \o held[c]) + Len(send[c])
  BY <1>1, <1>2, ConcatProperties DEF Chain
<1> QED
  BY <1>1, <1>2, <1>3, LenProperties DEF ChainOK

\* A step that leaves c's part of the stream alone, and neither registers nor
\* visits c, keeps StretchInv(c).
LEMMA StretchKept ==
    ASSUME NEW c \in Client, StretchInv(c), log' = log,
           got'[c] = got[c], held'[c] = held[c], send'[c] = send[c],
           from'[c] = from[c], pump'[c] \in {pump[c], "done"},
           c \in clients' => c \in clients, c \in todo' <=> c \in todo
    PROVE  StretchInv(c)'
<1>1. Chain(c)' = Chain(c) /\ Behind(c)' = Behind(c)
  BY DEF Chain, Behind
<1>2. Stretch(log, from[c], Chain(c))'
  BY <1>1 DEF StretchInv, Stretch
<1> QED
  BY <1>1, <1>2 DEF StretchInv

\* Run takes the next frame: every registered client is now one behind.
LEMMA StretchTake ==
    ASSUME Before, NEW c \in Client, StretchInv(c), HubTake
    PROVE  StretchInv(c)'
<1>0. ChainOK(c)
  BY ChainTypes
<1>1. Head(broadcast) \in Frames
  BY HeadTailProperties DEF HubTake, Before, TypeOK
<1>2. /\ UNCHANGED <<got, held, send, from, pump, clients>>
      /\ todo = {} /\ todo' = clients
      /\ log' = Append(log, Head(broadcast))
  BY DEF HubTake, AtSelect, chanVars, connVars
<1>3. Stretch(log', from[c], Chain(c)) /\ Len(log') = Len(log) + 1
  BY <1>1, <1>2, <1>0, StretchLonger DEF ChainOK, StretchInv
<1>4. Chain(c)' = Chain(c)
  BY <1>2 DEF Chain
<1>5. Stretch(log, from[c], Chain(c))'
  BY <1>2, <1>3, <1>4 DEF Stretch
<1>6. c \in clients' => (from[c] + Len(Chain(c)) + Behind(c) = Len(log))'
  <2> SUFFICES ASSUME c \in clients'
               PROVE  from'[c] + Len(Chain(c)') + Behind(c)' = Len(log')
    OBVIOUS
  <2>1. Behind(c) = 0 /\ Behind(c)' = 1
    BY <1>2 DEF Behind
  <2>2. from[c] + Len(Chain(c)) + 0 = Len(log)
    BY <1>2, <2>1 DEF StretchInv
  <2>3. Len(Chain(c)) \in Nat /\ from[c] \in Nat
    BY <1>0 DEF ChainOK
  <2>4. from'[c] = from[c] /\ Len(Chain(c)') = Len(Chain(c))
    BY <1>2, <1>4
  <2>5. Len(log') = Len(log) + 1
    BY <1>3
  <2> QED
    BY <2>1, <2>2, <2>3, <2>4, <2>5
<1> QED
  BY <1>2, <1>5, <1>6 DEF StretchInv

\* The frame goes to c's channel, behind what is there already.
LEMMA StretchSend ==
    ASSUME Before, NEW c \in Client, StretchInv(c), HubSend(c)
    PROVE  StretchInv(c)'
<1>0. ChainOK(c)
  BY ChainTypes
<1>1. /\ c \in clients /\ c \in todo /\ c \notin todo'
      /\ ~closed[c] /\ pump[c] # "none"
      /\ UNCHANGED <<got, held, from, pump, log>>
  BY DEF HubSend, Before, ChannelInv, connVars, histVars
<1>2. CASE Len(send[c]) < SendCap
  <2> DEFINE e == log[Len(log)]
  <2>1. send'[c] = Append(send[c], e) /\ clients' = clients
    BY <1>2 DEF HubSend, Before, TypeOK
  <2>2. /\ from[c] + Len(Chain(c)) + 1 = Len(log)
        /\ from[c] + Len(Chain(c)) < Len(log)
        /\ Len(log) \in Nat \ {0}
    <3>1. Behind(c) = 1
      BY <1>1 DEF Behind
    <3>2. from[c] + Len(Chain(c)) + 1 = Len(log)
      BY <1>1, <3>1 DEF StretchInv
    <3>3. Len(Chain(c)) \in Nat /\ from[c] \in Nat
      BY <1>0 DEF ChainOK
    <3> QED
      BY <3>2, <3>3
  <2>3. e \in Frames
    <3>1. Len(log) \in 1..Len(log)
      BY <2>2
    <3> QED
      BY <3>1, <1>0, ElementOfSeq DEF ChainOK
  <2> HIDE DEF e
  <2>4. /\ (got[c] \o held[c]) \o Append(send[c], e)
              = Append((got[c] \o held[c]) \o send[c], e)
    <3> DEFINE gh == got[c] \o held[c]
               sc == send[c]
    <3>1. gh \in Seq(Frames) /\ sc \in Seq(Frames)
      BY <1>0 DEF ChainOK
    <3> HIDE DEF gh, sc
    <3>2. gh \o Append(sc, e) = Append(gh \o sc, e)
      BY <2>3, <3>1, AppendToConcat
    <3> QED
      BY <3>2 DEF gh, sc
  <2>5. Chain(c)' = Append(Chain(c), log[from[c] + Len(Chain(c)) + 1])
    <3>1. e = log[from[c] + Len(Chain(c)) + 1]
      BY <2>2 DEF e
    <3>2. Chain(c)' = Append(Chain(c), e)
      BY <1>1, <2>1, <2>4 DEF Chain
    <3> QED
      BY <3>1, <3>2
  <2>8. Stretch(log, from[c], Chain(c)') /\ Len(Chain(c)') = Len(Chain(c)) + 1
    <3>1. /\ log \in Seq(Frames) /\ from[c] \in Nat
          /\ Chain(c) \in Seq(Frames)
      BY <1>0 DEF ChainOK
    <3>2. Stretch(log, from[c], Chain(c))
      BY DEF StretchInv
    <3> QED
      BY <2>2, <2>5, <3>1, <3>2, StretchNext
  <2>9. Stretch(log, from[c], Chain(c))'
    BY <1>1, <2>8 DEF Stretch
  <2>10. (from[c] + Len(Chain(c)) + Behind(c) = Len(log))'
    <3>1. Behind(c)' = 0
      BY <1>1 DEF Behind
    <3>2. Len(Chain(c)) \in Nat /\ from[c] \in Nat
      BY <1>0 DEF ChainOK
    <3>3. from'[c] = from[c] /\ log' = log
      BY <1>1
    <3> QED
      BY <2>2, <2>8, <3>1, <3>2, <3>3
  <2>11. Len(send'[c]) <= SendCap
    BY <1>2, <2>1, <2>3, <1>0, AppendProperties DEF ChainOK
  <2> QED
    BY <1>1, <2>9, <2>10, <2>11 DEF StretchInv
<1>3. CASE ~(Len(send[c]) < SendCap)
  <2>1. clients' = clients \ {c} /\ send' = send
    BY <1>1, <1>3 DEF HubSend, Drop
  <2>2. Chain(c)' = Chain(c)
    BY <1>1, <2>1 DEF Chain
  <2>3. Stretch(log, from[c], Chain(c))'
    BY <1>1, <2>2 DEF StretchInv, Stretch
  <2> QED
    BY <1>1, <2>1, <2>3 DEF StretchInv
<1> QED
  BY <1>2, <1>3

\* Run receives c from register: its stretch starts here and is empty.
LEMMA StretchRegister ==
    ASSUME Before, NEW c \in Client, StretchInv(c), Register(c)
    PROVE  StretchInv(c)'
<1>0. ChainOK(c)
  BY ChainTypes
<1>1. pump[c] = "none"
  BY DEF Register, Before, ChannelInv
<1>2. got[c] = <<>> /\ held[c] = <<>> /\ send[c] = <<>>
  BY <1>1 DEF StretchInv
<1>3. pump'[c] = "recv" /\ from'[c] = Len(log)
  BY DEF Register, Before, TypeOK
<1>4. UNCHANGED <<got, held, send, log, todo>> /\ todo = {}
  BY DEF Register, AtSelect
<1>5. Len(Chain(c)) = 0 /\ Chain(c)' = Chain(c) /\ Len(<<>>) = 0
  BY <1>2, <1>4, <1>0, EmptySeq DEF ChainOK, Chain
<1>6. Stretch(log, from[c], Chain(c))'
  BY <1>3, <1>4, <1>5, <1>0 DEF ChainOK, Stretch
<1>7. (from[c] + Len(Chain(c)) + Behind(c) = Len(log))'
  BY <1>3, <1>4, <1>5, <1>0 DEF ChainOK, Behind
<1> QED
  BY <1>2, <1>3, <1>4, <1>5, <1>6, <1>7, <1>0 DEF ChainOK, StretchInv

\* writePump takes the oldest frame of the channel.
LEMMA StretchRecv ==
    ASSUME Before, NEW c \in Client, StretchInv(c), PumpRecv(c)
    PROVE  StretchInv(c)'
<1>0. ChainOK(c)
  BY ChainTypes
<1>1. /\ pump[c] = "recv" /\ pump'[c] = "write" /\ send[c] # <<>>
      /\ held'[c] = <<Head(send[c])>> /\ send'[c] = Tail(send[c])
      /\ UNCHANGED <<got, from, log, clients, todo>>
  BY DEF PumpRecv, Before, TypeOK, hubVars, histVars
<1>2. held[c] = <<>>
  BY <1>1 DEF StretchInv
<1>3. Chain(c)' = Chain(c)
  BY <1>1, <1>2, <1>0, MoveHead DEF ChainOK, Chain
<1>4. Stretch(log, from[c], Chain(c))'
  BY <1>1, <1>3 DEF StretchInv, Stretch
<1>5. Len(held'[c]) = 1 /\ Len(send'[c]) <= SendCap
  <2>1. Len(Tail(send[c])) = Len(send[c]) - 1 /\ Len(<<Head(send[c])>>) = 1
    BY <1>1, <1>0, HeadTailProperties DEF ChainOK
  <2> QED
    BY <1>1, <2>1, <1>0 DEF ChainOK, StretchInv
<1> QED
  BY <1>1, <1>3, <1>4, <1>5 DEF StretchInv, Behind

\* writePump puts the frame it holds on the wire: it is the one that follows
\* what is there.
LEMMA StretchWrite ==
    ASSUME Before, NEW c \in Client, StretchInv(c), PumpWrite(c)
    PROVE  /\ StretchInv(c)'
           /\ from[c] + Len(got[c]) < Len(log)
           /\ got'[c] = Append(got[c], log[from[c] + Len(got[c]) + 1])
<1>0. ChainOK(c)
  BY ChainTypes
<1>1. /\ pump[c] = "write" /\ pump'[c] = "recv"
      /\ held'[c] = <<>> /\ got'[c] = got[c] \o held[c]
      /\ UNCHANGED <<send, from, log, clients, todo>>
  BY DEF PumpWrite, Before, TypeOK, hubVars, histVars, chanVars
<1>2. Len(held[c]) = 1
  BY <1>1 DEF StretchInv
<1>3. Chain(c)' = Chain(c)
  BY <1>1, <1>0, ConcatEmptySeq DEF ChainOK, Chain
<1>4. Stretch(log, from[c], Chain(c))'
  BY <1>1, <1>3 DEF StretchInv, Stretch
<1>5. /\ from[c] + Len(got[c]) < Len(log)
      /\ got[c] \o held[c] = Append(got[c], log[from[c] + Len(got[c]) + 1])
  <2>1. Stretch(log, from[c], (got[c] \o held[c]) \o send[c])
    BY DEF StretchInv, Chain
  <2>2. /\ log \in Seq(Frames) /\ from[c] \in Nat /\ got[c] \in Seq(Frames)
        /\ held[c] \in Seq(Frames) /\ send[c] \in Seq(Frames)
    BY <1>0 DEF ChainOK
  <2> QED
    BY <1>2, <2>1, <2>2, StretchMiddle
<1>6. Len(held'[c]) = 0
  BY <1>1, EmptySeq
<1> QED
  BY <1>1, <1>3, <1>4, <1>5, <1>6 DEF StretchInv, Behind

LEMMA StretchStep ==
    ASSUME Before, \A c \in Client : StretchInv(c), [Next]_vars, NEW c \in Client
    PROVE  StretchInv(c)'
<1>0. StretchInv(c) /\ pump \in [Client -> PumpLabels] /\ todo \subseteq clients
      /\ clients \subseteq Client
  BY DEF Before, TypeOK, ChannelInv
<1> DEFINE Kept == /\ log' = log /\ got'[c] = got[c] /\ held'[c] = held[c]
                   /\ send'[c] = send[c] /\ from'[c] = from[c]
                   /\ pump'[c] \in {pump[c], "done"}
                   /\ c \in clients' => c \in clients
                   /\ c \in todo' <=> c \in todo
<1>K. Kept => StretchInv(c)'
  BY <1>0, StretchKept
<1>1. CASE HubTake
  BY <1>0, <1>1, StretchTake
<1>2. CASE HubExit
  BY <1>2, <1>K DEF HubExit, connVars, histVars
<1>3. CASE UNCHANGED vars \/ Cancel \/ Broadcast
  BY <1>3, <1>K DEF Cancel, Broadcast, vars, hubVars, chanVars, connVars, histVars
<1>4. ASSUME NEW d \in Client, HubSend(d) PROVE StretchInv(c)'
  <2>1. CASE d = c
    BY <1>0, <1>4, <2>1, StretchSend
  <2>2. CASE d # c
    <3>1. send'[c] = send[c]
      BY <1>4, <2>2 DEF HubSend, Before, TypeOK
    <3>2. c \in clients' => c \in clients
      BY <1>4 DEF HubSend, Drop
    <3>3. c \in todo' <=> c \in todo
      BY <1>4, <2>2 DEF HubSend
    <3> QED
      BY <1>4, <1>K, <3>1, <3>2, <3>3 DEF HubSend, connVars, histVars
  <2> QED
    BY <2>1, <2>2
<1>5. ASSUME NEW d \in Client, Refuse(d) \/ Accept(d) \/ PeerClose(d)
      PROVE  StretchInv(c)'
  BY <1>5, <1>K DEF Refuse, Accept, PeerClose, hubVars, chanVars, histVars
<1>6. ASSUME NEW d \in Client, Register(d) PROVE StretchInv(c)'
  <2>1. CASE d = c
    BY <1>0, <1>6, <2>1, StretchRegister
  <2>2. CASE d # c
    <3>1. pump'[c] = pump[c] /\ from'[c] = from[c]
      BY <1>6, <2>2 DEF Register, Before, TypeOK
    <3>2. c \in clients' => c \in clients
      BY <1>6, <2>2 DEF Register, Admit
    <3> QED
      BY <1>6, <1>K, <3>1, <3>2 DEF Register
  <2> QED
    BY <2>1, <2>2
<1>7. ASSUME NEW d \in Client, Unregister(d) PROVE StretchInv(c)'
  BY <1>7, <1>K DEF Unregister, Drop, histVars
<1>8. ASSUME NEW d \in Client,
             \/ RegisterTimeout(d) \/ Greet(d) \/ GreetFail(d) \/ Greeted(d)
             \/ ReadFails(d) \/ UnregisterTimeout(d)
      PROVE  StretchInv(c)'
  BY <1>8, <1>K DEF RegisterTimeout, Greet, GreetFail, Greeted, ReadFails,
     UnregisterTimeout, hubVars, chanVars, histVars
<1>9. ASSUME NEW d \in Client, PumpRecv(d) PROVE StretchInv(c)'
  <2>1. CASE d = c
    BY <1>0, <1>9, <2>1, StretchRecv
  <2>2. CASE d # c
    <3>1. held'[c] = held[c] /\ send'[c] = send[c] /\ pump'[c] = pump[c]
      BY <1>9, <2>2 DEF PumpRecv, Before, TypeOK
    <3> QED
      BY <1>9, <1>K, <3>1 DEF PumpRecv, hubVars, histVars
  <2> QED
    BY <2>1, <2>2
<1>10. ASSUME NEW d \in Client, PumpWrite(d) PROVE StretchInv(c)'
  <2>1. CASE d = c
    BY <1>0, <1>10, <2>1, StretchWrite
  <2>2. CASE d # c
    <3>1. got'[c] = got[c] /\ held'[c] = held[c] /\ pump'[c] = pump[c]
      BY <1>10, <2>2 DEF PumpWrite, Before, TypeOK
    <3> QED
      BY <1>10, <1>K, <3>1 DEF PumpWrite, hubVars, chanVars, histVars
  <2> QED
    BY <2>1, <2>2
<1>11. ASSUME NEW d \in Client, PumpEnd(d) \/ PumpFail(d) PROVE StretchInv(c)'
  <2>1. pump'[c] \in {pump[c], "done"}
    BY <1>0, <1>11 DEF PumpEnd, PumpFail
  <2> QED
    BY <1>11, <1>K, <2>1 DEF PumpEnd, PumpFail, hubVars, chanVars, histVars
<1> HIDE DEF Kept
<1> QED
  BY <1>1, <1>2, <1>3, <1>4, <1>5, <1>6, <1>7, <1>8, <1>9, <1>10, <1>11
  DEF Next, HubStep, HandlerStep, PumpStep

-----------------------------------------------------------------------------
(* The inductive invariant and what follows from it                        *)

IInv == TypeOK /\ Serving /\ ChannelInv /\ Admission /\ \A c \in Client : StretchInv(c)

LEMMA InvInit == Init => IInv
<1> SUFFICES ASSUME Init PROVE IInv
  OBVIOUS
<1>1. TypeOK /\ Serving
  BY InitTypes
<1>2. ChannelInv
  BY DEF Init, ChannelInv
<1>3. Admission
  BY FS_EmptySet, CapsPositive DEF Init, Admission
<1>4. ASSUME NEW c \in Client PROVE StretchInv(c)
  <2>1. got[c] = <<>> /\ held[c] = <<>> /\ send[c] = <<>> /\ log = <<>>
        /\ from[c] = 0 /\ pump[c] = "none" /\ c \notin clients
    BY DEF Init
  <2>2. Len(<<>>) = 0 /\ SendCap \in Nat
    BY EmptySeq, CapsPositive
  <2>3. Chain(c) = <<>>
    BY <2>1, ConcatEmptySeq, EmptySeq DEF Chain
  <2>4. Stretch(log, from[c], Chain(c))
    BY <2>1, <2>2, <2>3 DEF Stretch
  <2> QED
    BY <2>1, <2>2, <2>4 DEF StretchInv
<1> QED
  BY <1>1, <1>2, <1>3, <1>4 DEF IInv

LEMMA InvNext == IInv /\ [Next]_vars => IInv'
BY TypeStep, ServingStep, ChannelStep, AdmissionStep, StretchStep DEF IInv, Before

\* The conjunction above is an invariant of the hub.
THEOREM Inductive == Spec => []IInv
BY InvInit, InvNext, PTL DEF Spec

\* A registered client is never further behind than its buffers allow.
THEOREM KeepsUpHolds == Spec => []KeepsUp
<1>1. IInv => KeepsUp
  <2> SUFFICES ASSUME IInv, NEW c \in Client, c \in clients, c \notin todo
               PROVE  Len(log) <= from[c] + Len(got[c]) + SendCap + 1
    BY DEF KeepsUp, IInv, TypeOK
  <2>1. StretchInv(c) /\ Before
    BY DEF IInv, Before
  <2>2. ChainOK(c)
    BY <2>1, ChainTypes
  <2>3. Behind(c) = 0
    BY DEF Behind
  <2>4. from[c] + Len(Chain(c)) + 0 = Len(log)
    BY <2>1, <2>3 DEF StretchInv
  <2>5. Len(send[c]) <= SendCap /\ Len(held[c]) <= 1
    BY <2>1 DEF StretchInv
  <2>6. Len(Chain(c)) = Len(got[c]) + Len(held[c]) + Len(send[c])
    BY <2>2 DEF ChainOK
  <2>7. /\ from[c] \in Nat /\ SendCap \in Nat /\ Len(got[c]) \in Nat
        /\ Len(held[c]) \in Nat /\ Len(send[c]) \in Nat /\ Len(log) \in Nat
        /\ Len(Chain(c)) \in Nat
    BY <2>2 DEF ChainOK
  <2>8. from[c] + Len(Chain(c)) = Len(log)
    BY <2>4, <2>7
  <2>9. Len(Chain(c)) <= Len(got[c]) + 1 + SendCap
    <3> DEFINE g == Len(got[c])
               h == Len(held[c])
               s == Len(send[c])
    <3>1. g \in Nat /\ h \in Nat /\ s \in Nat /\ h <= 1 /\ s <= SendCap
      BY <2>5, <2>7
    <3>2. Len(Chain(c)) = g + h + s
      BY <2>6
    <3> HIDE DEF g, h, s
    <3>3. g + h + s <= g + 1 + SendCap
      BY <2>7, <3>1
    <3> QED
      BY <3>2, <3>3 DEF g
  <2> QED
    BY <2>7, <2>8, <2>9
<1> QED
  BY <1>1, Inductive, PTL

-----------------------------------------------------------------------------
(* The hub implements FanOut                                               *)

Phases == [c \in Client |-> Phase(c)]

LEMMA PhaseKept == ASSUME pump' = pump PROVE Phases' = Phases
BY DEF Phases, Phase

\* Only the entry of the connection whose pump moved can change.
LEMMA PhaseMove ==
    ASSUME NEW c \in Client, NEW l \in PumpLabels, pump \in [Client -> PumpLabels],
           pump' = [pump EXCEPT ![c] = l]
    PROVE  /\ Phases[c] = Phase(c)
           /\ Phases' = [Phases EXCEPT ![c] = Phase(c)']
           /\ Phase(c) = Phase(c)' => Phases' = Phases
BY DEF Phases, Phase

\* What FanOut does in a step of the hub.
LEMMA FanOutStep ==
    ASSUME IInv, [Next]_vars
    PROVE  [Stream!FNext]_(Stream!fvars)
<1> DEFINE Same == UNCHANGED <<log, pump, from, got>>
<1>0. pump \in [Client -> PumpLabels] /\ got \in [Client -> Seq(Frames)]
  BY DEF IInv, TypeOK
<1>S. Same => UNCHANGED Stream!fvars
  BY PhaseKept DEF Stream!fvars, Phases
<1>1. CASE HubTake
  <2>1. Head(broadcast) \in Frames
    BY <1>1, HeadTailProperties DEF HubTake, IInv, TypeOK
  <2>2. UNCHANGED <<pump, from, got>> /\ log' = Append(log, Head(broadcast))
    BY <1>1 DEF HubTake, connVars
  <2>3. Phases' = Phases
    BY <2>2, PhaseKept
  <2>4. Stream!Publish
    BY <2>1, <2>2, <2>3 DEF Stream!Publish, Phases
  <2> QED
    BY <2>4 DEF Stream!FNext
<1>2. CASE UNCHANGED vars \/ HubExit \/ Cancel \/ Broadcast
  <2>1. Same
    BY <1>2 DEF HubExit, Cancel, Broadcast, vars, connVars, histVars
  <2> QED
    BY <1>S, <2>1
<1>3. ASSUME NEW c \in Client,
             HubSend(c) \/ Refuse(c) \/ Accept(c) \/ PeerClose(c)
      PROVE  [Stream!FNext]_(Stream!fvars)
  <2>1. Same
    BY <1>3 DEF HubSend, Refuse, Accept, PeerClose, connVars, histVars
  <2> QED
    BY <1>S, <2>1
<1>4. ASSUME NEW c \in Client, Register(c) PROVE [Stream!FNext]_(Stream!fvars)
  <2>1. pump[c] = "none"
    BY <1>4 DEF Register, IInv, ChannelInv
  <2>2. /\ pump' = [pump EXCEPT ![c] = "recv"]
        /\ from' = [from EXCEPT ![c] = Len(log)]
        /\ UNCHANGED <<log, got>>
    BY <1>4 DEF Register
  <2>3. Phase(c) = "out" /\ Phase(c)' = "in"
    BY <1>0, <2>1, <2>2 DEF Phase
  <2>4. Phases[c] = "out" /\ Phases' = [Phases EXCEPT ![c] = "in"]
    BY <1>0, <2>2, <2>3, PhaseMove DEF PumpLabels
  <2>5. Stream!Join(c)
    BY <2>2, <2>4 DEF Stream!Join, Phases
  <2> QED
    BY <2>5 DEF Stream!FNext
<1>5. ASSUME NEW c \in Client,
             \/ RegisterTimeout(c) \/ Greet(c) \/ GreetFail(c) \/ Greeted(c)
             \/ ReadFails(c) \/ Unregister(c) \/ UnregisterTimeout(c)
      PROVE  [Stream!FNext]_(Stream!fvars)
  <2>1. Same
    BY <1>5 DEF RegisterTimeout, Greet, GreetFail, Greeted, ReadFails, Unregister,
                UnregisterTimeout, histVars
  <2> QED
    BY <1>S, <2>1
<1>6. ASSUME NEW c \in Client, PumpRecv(c) PROVE [Stream!FNext]_(Stream!fvars)
  <2>1. /\ pump[c] = "recv" /\ pump' = [pump EXCEPT ![c] = "write"]
        /\ UNCHANGED <<log, from, got>>
    BY <1>6 DEF PumpRecv, histVars
  <2>2. Phase(c) = Phase(c)'
    BY <1>0, <2>1 DEF Phase
  <2>3. Phases' = Phases
    BY <1>0, <2>1, <2>2, PhaseMove DEF PumpLabels
  <2> QED
    BY <2>1, <2>3 DEF Stream!fvars, Phases
<1>7. ASSUME NEW c \in Client, PumpWrite(c) PROVE [Stream!FNext]_(Stream!fvars)
  <2>1. /\ pump[c] = "write" /\ pump' = [pump EXCEPT ![c] = "recv"]
        /\ got' = [got EXCEPT ![c] = got[c] \o held[c]]
        /\ UNCHANGED <<log, from>>
    BY <1>7 DEF PumpWrite, histVars
  <2>2. Phase(c) = "in" /\ Phase(c) = Phase(c)'
    BY <1>0, <2>1 DEF Phase
  <2>3. Phases[c] = "in" /\ Phases' = Phases
    BY <1>0, <2>1, <2>2, PhaseMove DEF PumpLabels
  <2>4. Before /\ StretchInv(c)
    BY DEF IInv, Before
  <2>5. /\ from[c] + Len(got[c]) < Len(log)
        /\ got'[c] = Append(got[c], log[from[c] + Len(got[c]) + 1])
    BY <1>7, <2>4, StretchWrite
  <2>6. got' = [got EXCEPT ![c] = Append(got[c], log[from[c] + Len(got[c]) + 1])]
    BY <1>0, <2>1, <2>5
  <2>7. Stream!Deliver(c)
    BY <2>1, <2>3, <2>5, <2>6 DEF Stream!Deliver, Phases
  <2> QED
    BY <2>7 DEF Stream!FNext
<1>8. ASSUME NEW c \in Client, PumpEnd(c) \/ PumpFail(c)
      PROVE  [Stream!FNext]_(Stream!fvars)
  <2>1. /\ pump[c] \in {"recv", "write"} /\ pump' = [pump EXCEPT ![c] = "done"]
        /\ UNCHANGED <<log, from, got>>
    BY <1>8 DEF PumpEnd, PumpFail, histVars
  <2>2. Phase(c) = "in" /\ Phase(c)' = "ended"
    BY <1>0, <2>1 DEF Phase
  <2>3. Phases[c] = "in" /\ Phases' = [Phases EXCEPT ![c] = "ended"]
    BY <1>0, <2>1, <2>2, PhaseMove DEF PumpLabels
  <2>4. Stream!End(c)
    BY <2>1, <2>3 DEF Stream!End, Phases
  <2> QED
    BY <2>4 DEF Stream!FNext
<1> HIDE DEF Same
<1> QED
  BY <1>1, <1>2, <1>3, <1>4, <1>5, <1>6, <1>7, <1>8
  DEF Next, HubStep, HandlerStep, PumpStep

\* Whatever the capacities, the number of clients and the interleaving, each
\* browser gets a gap-free stretch of the hub's frames that starts where it
\* registered, and then nothing more.
THEOREM HubImplementsFanOut == Spec => ImplementsFanOut
<1>1. Init => Stream!FInit
  BY DEF Init, Stream!FInit, Phase
<1>2. IInv /\ [Next]_vars => [Stream!FNext]_(Stream!fvars)
  BY FanOutStep
<1>3. Spec => []IInv
  BY Inductive
<1> QED
  BY <1>1, <1>2, <1>3, PTL DEF Spec, ImplementsFanOut, Stream!FSpec
=============================================================================
