---------------------------- MODULE KernelEvents ----------------------------
(***************************************************************************)
(* The events of the eBPF collector: tp_sys_enter and tp_sys_exit of       *)
(* bpf/agent.bpf.c remember the arguments of openat and connect by thread  *)
(* between entry and exit and submit events to the ring buffer; readRingbuf*)
(* of internal/ebpfagent takes them out, noteEvent counts them.  The filter*)
(* (config and targets maps) is written by the agent meanwhile, and        *)
(* buildSnapshot lists the sockets of the processes beside the events.     *)
(*                                                                         *)
(* Arg stands for paths and for destinations, address and port.  Both      *)
(* programs touch only keys of their own thread, so each is one action.    *)
(***************************************************************************)
EXTENDS Naturals, Sequences, FiniteSets

CONSTANTS
    Thread, Arg,
    None,          \* no entry, no argument
    RingCap,       \* records the ring buffer holds (16 MiB)
    MaxCalls       \* bound on the number of calls

ASSUME NoneIsNoArg == None \notin Arg
ASSUME RingCapIsNat == RingCap \in Nat /\ MaxCalls \in Nat

VARIABLES
    watched,          \* threads for which is_target answers 1
    call,             \* the system call a thread is in: its kind and argument
    openIn, connIn,   \* open_inflight and connect_inflight, by tid
    ring, drops,      \* the ring buffer, drop_count
    ops, errors,      \* liveState.files: ops and errors of a path
    eventN,           \* liveState.eventN
    flows,            \* liveState.flows, the entries of noteEvent, by destination:
                      \* each says ESTABLISHED
    sockets,          \* liveState.flows, the entries of buildSnapshot: those whose
                      \* state was ESTABLISHED when last read, by destination
    calls,            \* history: calls begun
    failed,           \* history: openat calls of a path that failed, watched
    flagged,          \* history: the same of those begun with bit 31 in their flags
    connected,        \* history: destinations a connection was made with
    left              \* history: threads that left the filter during a call

kernelVars == <<watched, call, openIn, connIn, ring, drops>>
agentVars == <<ops, errors, flows, sockets, eventN>>
historyVars == <<calls, failed, flagged, connected, left>>
vars == <<kernelVars, agentVars, historyVars>>

\* connect6 stands for a connect whose address is not IPv4 or not readable,
\* other for calls the programs only count.
Kind == {"open", "connect", "connect6", "other"}
Idle == [kind |-> "none", arg |-> None, marked |-> FALSE]

Init == /\ watched \in SUBSET Thread
        /\ call = [t \in Thread |-> Idle]
        /\ openIn = [t \in Thread |-> None] /\ connIn = [t \in Thread |-> None]
        /\ ring = <<>> /\ drops = 0
        /\ ops = [a \in Arg |-> 0] /\ errors = [a \in Arg |-> 0]
        /\ flows = {} /\ sockets = {} /\ eventN = 0
        /\ calls = 0 /\ failed = [a \in Arg |-> 0] /\ flagged = [a \in Arg |-> 0]
        /\ connected = {} /\ left = {}

\* An event, and beside it the argument of the call it is about.  bad is bit
\* 31 of its flags.
Ev(type, arg, bad, real) == [type |-> type, arg |-> arg, bad |-> bad, real |-> real]

\* alloc_event and submit: reserve a record, or count a drop.
Submit(e) == IF Len(ring) < RingCap
             THEN ring' = Append(ring, e) /\ UNCHANGED drops
             ELSE drops' = drops + 1 /\ UNCHANGED ring
SubmitNothing == UNCHANGED <<ring, drops>>

-----------------------------------------------------------------------------
(* The programs                                                            *)

\* An openat is reported as it begins, with the flags its caller gave.
SysEnter(t, c) ==
    /\ call[t] = Idle /\ calls < MaxCalls
    /\ call' = [call EXCEPT ![t] = c]
    /\ calls' = calls + 1
    /\ IF t \in watched /\ c.kind = "open"
       THEN /\ openIn' = [openIn EXCEPT ![t] = c.arg]
            /\ Submit(Ev("open", c.arg, c.marked, c.arg))
            /\ flagged' = IF c.marked THEN [flagged EXCEPT ![c.arg] = @ + 1] ELSE flagged
       ELSE UNCHANGED <<openIn, flagged>> /\ SubmitNothing
    /\ connIn' = IF t \in watched /\ c.kind = "connect"
                 THEN [connIn EXCEPT ![t] = c.arg] ELSE connIn
    /\ UNCHANGED <<watched, agentVars, failed, connected, left>>

\* The call of t returns; r is "ok", "error" or, for a connect, "progress".
Returns(t, r) == /\ call[t] # Idle
                 /\ r = "progress" => call[t].kind \in {"connect", "connect6"}
                 /\ call' = [call EXCEPT ![t] = Idle]
                 /\ connected' = IF r = "ok" /\ call[t].kind \in {"connect", "connect6"}
                                 THEN connected \cup {call[t].arg} ELSE connected

ExitUnwatched(t, r) == /\ Returns(t, r) /\ t \notin watched
                       /\ UNCHANGED <<watched, openIn, connIn, ring, drops>>
                       /\ UNCHANGED <<agentVars, calls, failed, flagged, left>>

ExitOther(t, r) == /\ Returns(t, r) /\ t \in watched /\ call[t].kind = "other"
                   /\ UNCHANGED <<watched, openIn, connIn, ring, drops>>
                   /\ UNCHANGED <<agentVars, calls, failed, flagged, left>>

\* Faulty variant: only a failure removes the entry.
ExitOpenKeeps(t, r) == /\ Returns(t, r) /\ t \in watched /\ call[t].kind = "open"
                       /\ IF r = "error" /\ openIn[t] # None
                          THEN /\ Submit(Ev("open", openIn[t], TRUE, call[t].arg))
                               /\ openIn' = [openIn EXCEPT ![t] = None]
                          ELSE SubmitNothing /\ UNCHANGED openIn
                       /\ failed' = IF r = "error"
                                    THEN [failed EXCEPT ![call[t].arg] = @ + 1] ELSE failed
                       /\ UNCHANGED <<watched, connIn, agentVars, calls, flagged, left>>

\* An openat that failed is reported again, with the path kept at its entry.
ExitOpen(t, r) == /\ Returns(t, r) /\ t \in watched /\ call[t].kind = "open"
                  /\ IF r = "error" /\ openIn[t] # None
                     THEN Submit(Ev("open", openIn[t], TRUE, call[t].arg))
                     ELSE SubmitNothing
                  /\ openIn' = [openIn EXCEPT ![t] = None]
                  /\ failed' = IF r = "error"
                               THEN [failed EXCEPT ![call[t].arg] = @ + 1] ELSE failed
                  /\ UNCHANGED <<watched, connIn, agentVars, calls, flagged, left>>

\* Faulty variant: a connect in progress keeps its entry.
ExitConnectKeeps(t, r) ==
    /\ Returns(t, r) /\ t \in watched /\ call[t].kind \in {"connect", "connect6"}
    /\ IF connIn[t] # None /\ r # "progress"
       THEN /\ Submit(Ev("connect", connIn[t], r = "error", call[t].arg))
            /\ connIn' = [connIn EXCEPT ![t] = None]
       ELSE SubmitNothing /\ UNCHANGED connIn
    /\ UNCHANGED <<watched, openIn, agentVars, calls, failed, flagged, left>>

\* Faulty variant: a failure is not marked.
ExitConnectUnmarked(t, r) ==
    /\ Returns(t, r) /\ t \in watched /\ call[t].kind \in {"connect", "connect6"}
    /\ IF connIn[t] # None /\ r # "progress"
       THEN Submit(Ev("connect", connIn[t], FALSE, call[t].arg))
       ELSE SubmitNothing
    /\ connIn' = [connIn EXCEPT ![t] = None]
    /\ UNCHANGED <<watched, openIn, agentVars, calls, failed, flagged, left>>

\* A connect is reported on its way out, unless it is in progress.
ExitConnect(t, r) ==
    /\ Returns(t, r) /\ t \in watched /\ call[t].kind \in {"connect", "connect6"}
    /\ IF connIn[t] # None /\ r # "progress"
       THEN Submit(Ev("connect", connIn[t], r = "error", call[t].arg))
       ELSE SubmitNothing
    /\ connIn' = [connIn EXCEPT ![t] = None]
    /\ UNCHANGED <<watched, openIn, agentVars, calls, failed, flagged, left>>

\* A connection made in another way than by a connect that returns 0: the
\* handshake of one in progress ends, or the process accepts a peer.
Establishes(a) == /\ connected' = connected \cup {a}
                  /\ UNCHANGED <<kernelVars, agentVars, calls, failed, flagged, left>>

SysExit(t, r) == ExitUnwatched(t, r) \/ ExitOther(t, r) \/ ExitOpen(t, r) \/ ExitConnect(t, r)

-----------------------------------------------------------------------------
(* The agent                                                               *)

\* buildSnapshot writes the filter anew (writeConfig, then key by key
\* syncTargets), for a target that was changed or processes that came and went.
FilterChanges == /\ \E s \in SUBSET Thread : watched' = s
                 /\ left' = left \cup {t \in watched \ watched' : call[t] # Idle}
                 /\ UNCHANGED <<call, openIn, connIn, ring, drops>>
                 /\ UNCHANGED <<agentVars, calls, failed, flagged, connected>>

\* Faulty variant: every event of a file counts as an error.
NoteAllBad == /\ ring # <<>>
              /\ ring' = Tail(ring) /\ eventN' = eventN + 1
              /\ LET e == Head(ring) IN
                 /\ ops' = IF e.type = "open" THEN [ops EXCEPT ![e.arg] = @ + 1] ELSE ops
                 /\ errors' = IF e.type = "open"
                              THEN [errors EXCEPT ![e.arg] = @ + 1] ELSE errors
                 /\ flows' = IF e.type = "connect" /\ ~e.bad
                             THEN flows \cup {e.arg} ELSE flows
              /\ UNCHANGED <<sockets, watched, call, openIn, connIn, drops, historyVars>>

\* readRingbuf and noteEvent.  handleEvent, which comes next, only sends the
\* event to the channel of Pipeline, or drops it, and keeps no state.
Note == /\ ring # <<>>
        /\ ring' = Tail(ring) /\ eventN' = eventN + 1
        /\ LET e == Head(ring) IN
           /\ ops' = IF e.type = "open" THEN [ops EXCEPT ![e.arg] = @ + 1] ELSE ops
           /\ errors' = IF e.type = "open" /\ e.bad
                        THEN [errors EXCEPT ![e.arg] = @ + 1] ELSE errors
           /\ flows' = IF e.type = "connect" /\ ~e.bad
                       THEN flows \cup {e.arg} ELSE flows
        /\ UNCHANGED <<sockets, watched, call, openIn, connIn, drops, historyVars>>

\* buildSnapshot lists the sockets of the processes as /proc/<pid>/net has them
\* (ReadNetConnections), each in the state it is in: ESTABLISHED only with a
\* connection.  The entries have keys of their own (noteEvent's have no source)
\* and are written anew, never removed; one step is that of one entry.
ListSocket(a) == /\ \/ a \in connected /\ sockets' = sockets \cup {a}
                    \/ sockets' = sockets \ {a}
                 /\ UNCHANGED <<kernelVars, ops, errors, flows, eventN, historyVars>>

-----------------------------------------------------------------------------
\* Only an openat carries flags.
Call == {c \in [kind : Kind, arg : Arg, marked : BOOLEAN] : c.marked => c.kind = "open"}
Result == {"ok", "error", "progress"}

Next == \/ \E t \in Thread : \E c \in Call : SysEnter(t, c)
        \/ \E t \in Thread : \E r \in Result : SysExit(t, r)
        \/ \E a \in Arg : Establishes(a) \/ ListSocket(a)
        \/ FilterChanges \/ Note

Spec == Init /\ [][Next]_vars

-----------------------------------------------------------------------------
(* Properties                                                              *)

Event == [type : {"open", "connect"}, arg : Arg, bad : BOOLEAN, real : Arg]

\* The types of the variables; the ring buffer within its size.
TypeOK == /\ watched \subseteq Thread
          /\ call \in [Thread -> Call \cup {Idle}]
          /\ openIn \in [Thread -> Arg \cup {None}]
          /\ connIn \in [Thread -> Arg \cup {None}]
          /\ ring \in Seq(Event) /\ Len(ring) <= RingCap
          /\ drops \in Nat /\ eventN \in Nat
          /\ ops \in [Arg -> Nat] /\ errors \in [Arg -> Nat]
          /\ flows \subseteq Arg /\ sockets \subseteq Arg
          /\ calls \in 0..MaxCalls
          /\ failed \in [Arg -> Nat] /\ flagged \in [Arg -> Nat]
          /\ connected \subseteq Arg
          /\ left \subseteq Thread

\* README.md: the collector reports the "target file path or IP" of a call that
\* failed.  An event carries the argument of the call it is about, never one
\* of an earlier call of the same thread.
EventsTrue == \A i \in 1..Len(ring) : ring[i].arg = ring[i].real

\* The filter may change at any time, and events stay true, as long as no
\* thread leaves it between the entry and the return of a call.
EventsTrueUnlessLeft == left = {} => EventsTrue

\* Of its two sources, the table of flows never makes a connection up: what it
\* lists as ESTABLISHED is a destination with which a connection was made, be
\* it an event of a connect or a socket of /proc, under the same condition.
FlowsAreReal == left = {} => flows \cup sockets \subseteq connected

\* Bit 31 marks the failure of an openat and is also a bit of the caller's
\* flags, which the record of its entry carries.  The errors of a path, with
\* those still in the ring buffer, are never more than the openat calls of it
\* that failed and those begun with that bit: each mark is charged once, and
\* against the path it came with.
FailuresOf(a) == {i \in 1..Len(ring) : /\ ring[i].type = "open" /\ ring[i].bad
                                       /\ ring[i].arg = a}
ErrorsAreReal ==
    left = {} =>
    \A a \in Arg : errors[a] + Cardinality(FailuresOf(a)) <= failed[a] + flagged[a]

\* Nothing is left behind in the two maps of 32768 entries, where it would
\* take room for ever: an entry belongs to the call its thread is in, unless
\* the thread left the filter during a call.
EntriesAreCurrent ==
    \A t \in Thread \ left :
        /\ openIn[t] # None => call[t].kind = "open" /\ call[t].arg = openIn[t]
        /\ connIn[t] # None => call[t].kind = "connect" /\ call[t].arg = connIn[t]
=============================================================================
