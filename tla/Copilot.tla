------------------------------ MODULE Copilot ------------------------------
(***************************************************************************)
(* The chat of the dashboard (ChatDrawer.tsx) and the scratchpad of graphs *)
(* it may draw (GraphScratchpad.tsx, with the store's part of both).  The  *)
(* drawer keeps its messages for itself, and loses them when it goes from  *)
(* the page; the graphs and whether the drawer is open are in the store.   *)
(*                                                                         *)
(* A message is a role; a question is the set of its telling words, graph  *)
(* for any that asks for one.  A graph's id is its preset and a serial     *)
(* number, for Date.now(): 0 for the three that are there at first.  Where *)
(* on the scratchpad a graph stands is left out.                           *)
(***************************************************************************)
EXTENDS Integers, Sequences, SequencesExt

CONSTANTS
    Question,      \* the questions that are asked
    ChartType,     \* area, line, bar
    MaxHistory     \* messages that go with a question (10)

VARIABLES
    messages, loading,
    asked,         \* per question on its way: the roles that were sent
    unreadCount,
    isChatOpen, scratchGraphs,    \* in the store
    chartTypeOverrides,           \* pairs of the id of a graph and a type
    serial

drawerVars == <<messages, loading, asked, unreadCount>>
graphVars == <<scratchGraphs, chartTypeOverrides, serial>>
copilotVars == <<drawerVars, isChatOpen, graphVars>>

Graph(preset, n) == [id |-> <<preset, n>>, preset |-> preset]

DefaultGraphs == {Graph(preset, 0) : preset \in {"quantile_curve", "runqueue_switches", "net_bidi"}}

CopilotInit == /\ messages = <<>> /\ loading = FALSE /\ asked = <<>> /\ unreadCount = 0
               /\ isChatOpen = FALSE
               /\ scratchGraphs = DefaultGraphs /\ chartTypeOverrides = {} /\ serial = 0

-----------------------------------------------------------------------------
(* The scratchpad                                                          *)

\* addScratchGraph: never two of one id.
addScratchGraph(g) ==
    scratchGraphs' = {h \in scratchGraphs : h.id # g.id} \cup {g}

\* Two that are drawn in one millisecond have the same number.
Draw(preset) == /\ serial' \in {n \in {serial, serial + 1} : n > 0}
                /\ addScratchGraph(Graph(preset, serial'))

AddPreset == /\ \E preset \in {"thread_mem", "page_faults"} : Draw(preset)
             /\ UNCHANGED chartTypeOverrides

RemoveGraph == /\ \E g \in scratchGraphs :
                    scratchGraphs' = {h \in scratchGraphs : h.id # g.id}
               /\ UNCHANGED <<chartTypeOverrides, serial>>

\* The types that were chosen outlive the graphs.
ResetGraphs == /\ scratchGraphs' = DefaultGraphs
               /\ UNCHANGED <<chartTypeOverrides, serial>>

ChooseType == /\ \E g \in scratchGraphs, t \in ChartType :
                   chartTypeOverrides' = {o \in chartTypeOverrides : o[1] # g.id} \cup {<<g.id, t>>}
              /\ UNCHANGED <<scratchGraphs, serial>>

-----------------------------------------------------------------------------
(* The drawer                                                              *)

\* The effect that follows a change of the messages or of isChatOpen.
CountUnread ==
    unreadCount' = IF isChatOpen' THEN 0
                   ELSE IF /\ <<messages', isChatOpen'>> # <<messages, isChatOpen>>
                           /\ messages' # <<>> /\ Last(messages') = "assistant"
                   THEN unreadCount + 1 ELSE unreadCount

\* The button, and the three ways that only open or close it.
ShowChat(open) == /\ isChatOpen' = open /\ open # isChatOpen
                  /\ UNCHANGED <<messages, loading, asked, graphVars>>
                  /\ CountUnread

\* The graph that a question asks for, the first that fits; none without such a word.
GraphFor(words) ==
    IF "graph" \notin words THEN {}
    ELSE IF "memory" \in words THEN {"thread_mem"}
    ELSE IF "runqueue" \in words THEN {"runqueue_switches"}
    ELSE IF "net" \in words THEN {"net_bidi"}
    ELSE IF "fault" \in words THEN {"page_faults"} ELSE {"quantile_curve"}

\* sendMessage up to its await.
Ask(words) ==
    /\ IF GraphFor(words) = {} THEN UNCHANGED <<scratchGraphs, serial>>
       ELSE \E preset \in GraphFor(words) : Draw(preset)
    /\ messages' = Append(messages, "user")
    /\ loading' = TRUE
    /\ asked' = Append(asked, Append(
           SubSeq(messages, IF Len(messages) > MaxHistory THEN Len(messages) - MaxHistory + 1 ELSE 1,
                  Len(messages)), "user"))
    /\ UNCHANGED <<isChatOpen, chartTypeOverrides>>
    /\ CountUnread

\* Faulty variant: a question may be sent while another waits for its answer.
sendMessageAgain(words) == words # {} /\ Ask(words)

\* A question is sent, by the button, by Enter or as one of the prompts: by the keyboard
\* even when the drawer is closed.  Not without a text, and not while one is answered.
sendMessage(words) == words # {} /\ ~loading /\ Ask(words)

\* The answer, or what is said instead when there is none.
ReceiveAnswer(i) == /\ asked' = RemoveAt(asked, i)
                    /\ messages' = Append(messages, "assistant")
                    /\ loading' = FALSE
                    /\ UNCHANGED <<isChatOpen, graphVars>>
                    /\ CountUnread

Answers == \E i \in DOMAIN asked : ReceiveAnswer(i)

CopilotGesture == \/ \E words \in Question : sendMessage(words)
                  \/ ShowChat(TRUE) \/ ShowChat(FALSE)
                  \/ /\ AddPreset \/ RemoveGraph \/ ResetGraphs \/ ChooseType
                     /\ UNCHANGED <<drawerVars, isChatOpen>>

\* Drawer and scratchpad go from the page, with all that is not in the store; an answer
\* still to come is received by nobody.
DrawerGoes == /\ messages' = <<>> /\ loading' = FALSE /\ asked' = <<>> /\ unreadCount' = 0
              /\ chartTypeOverrides' = {}
              /\ UNCHANGED <<isChatOpen, scratchGraphs, serial>>

CopilotNext == CopilotGesture \/ Answers \/ DrawerGoes

CopilotSpec == CopilotInit /\ [][CopilotNext]_copilotVars

-----------------------------------------------------------------------------
(* Properties                                                              *)

\* Questions and answers take turns, whichever of the ways the questions are sent: each
\* question has one answer, and the drawer waits exactly while the last one has none.
Alternates ==
    /\ \A i \in DOMAIN messages : messages[i] = IF i % 2 = 1 THEN "user" ELSE "assistant"
    /\ loading <=> (Len(messages) % 2 = 1)
    /\ Len(asked) = Len(messages) % 2
=============================================================================
