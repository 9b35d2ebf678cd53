---------------------------- MODULE KernelStats ----------------------------
(***************************************************************************)
(* The counters of the eBPF collector: the programs of bpf/agent.bpf.c that*)
(* count system calls into the maps process_stats and syscall_counts, run  *)
(* by the threads of the watched processes on several CPUs at once, and    *)
(* the goroutine of internal/ebpfagent that turns the counters into rates. *)
(*                                                                         *)
(* The five counters of an entry are treated alike; syscall_count stands   *)
(* for them.  Every process here passes is_target.  A rate is its          *)
(* numerator, the difference of two readings of an unsigned counter.       *)
(***************************************************************************)
EXTENDS Integers, FiniteSets

CONSTANTS
    Proc, Thread,    \* processes (tgids) and threads
    Owner,           \* the process of each thread
    MayExit,         \* threads that may exit
    PidReuse,        \* may a tgid be given to a new process?
    Nr,              \* system call numbers
    StatsCap,        \* max_entries of process_stats (1024)
    NrCap,           \* max_entries of syscall_counts (512)
    Modulus,         \* 2^64
    MaxCalls         \* bound on the calls each process makes

ASSUME ThreadsHaveOwners == Owner \in [Thread -> Proc] /\ MayExit \subseteq Thread
ASSUME SetsAreFinite == IsFiniteSet(Thread) /\ Thread # {} /\ IsFiniteSet(Proc)
ASSUME NumbersFit == IsFiniteSet(Nr) /\ NrCap \in Nat
ASSUME PidReuseIsBool == PidReuse \in BOOLEAN
ASSUME BoundsFit == /\ StatsCap \in Nat /\ MaxCalls \in Nat
                    /\ Modulus \in Nat /\ Modulus > MaxCalls

VARIABLES
    alive,        \* threads that have not exited
    at, nr,       \* where a thread is in tp_sys_enter ("out": not there), its call
    held, stats,  \* keys of process_stats, and their syscall_count
    nrHeld, nrs,  \* keys of syscall_counts, and their values
    sampling,     \* readProcessStats is iterating
    todo,         \* keys it has yet to visit
    prev,         \* liveState.statPrev, 0 for a missing key
    made, bumps,  \* history: calls begun by a process; calls of a number counted
    reported,     \* history: what all the samples together reported of a process
    announced,    \* history: processes of which an exit event was submitted
    orderly       \* history: so far processes end with their only thread, for good

kernelVars == <<alive, at, nr, held, stats, nrHeld, nrs>>
agentVars == <<sampling, todo, prev>>
historyVars == <<made, bumps, reported, announced, orderly>>
vars == <<kernelVars, agentVars, historyVars>>

ThreadsOf(p) == {t \in Thread : Owner[t] = p}

Init == /\ alive = Thread
        /\ at = [t \in Thread |-> "out"] /\ nr \in [Thread -> Nr]
        /\ held = {} /\ stats = [p \in Proc |-> 0]
        /\ nrHeld = {} /\ nrs = [n \in Nr |-> 0]
        /\ sampling = FALSE /\ todo = {} /\ prev = [p \in Proc |-> 0]
        /\ made = [p \in Proc |-> 0] /\ bumps = [n \in Nr |-> 0]
        /\ reported = [p \in Proc |-> 0] /\ announced = {} /\ orderly = TRUE

Goes(t, from, to) == at[t] = from /\ at' = [at EXCEPT ![t] = to]

-----------------------------------------------------------------------------
(* tp_sys_enter, by thread t                                               *)

SysEnter(t) == /\ t \in alive /\ made[Owner[t]] < MaxCalls
               /\ Goes(t, "out", "lookup")
               /\ \E n \in Nr : nr' = [nr EXCEPT ![t] = n]
               /\ made' = [made EXCEPT ![Owner[t]] = @ + 1]
               /\ UNCHANGED <<alive, held, stats, nrHeld, nrs, agentVars>>
               /\ UNCHANGED <<bumps, reported, announced, orderly>>

\* get_stats: the first lookup.
Lookup(t) == /\ Goes(t, "lookup", IF Owner[t] \in held THEN "found" ELSE "insert")
             /\ UNCHANGED <<alive, nr, held, stats, nrHeld, nrs>>
             /\ UNCHANGED <<agentVars, historyVars>>

\* A hash map refuses a new key when max_entries are in use.
HasRoom(p) == p \in held \/ Cardinality(held) < StatsCap

\* Faulty variant: BPF_ANY, the update replaces what is there.
InsertAny(t) == /\ Goes(t, "insert", "again")
                /\ IF HasRoom(Owner[t])
                   THEN /\ held' = held \cup {Owner[t]}
                        /\ stats' = [stats EXCEPT ![Owner[t]] = 0]
                   ELSE UNCHANGED <<held, stats>>
                /\ UNCHANGED <<alive, nr, nrHeld, nrs, agentVars, historyVars>>

\* get_stats: the update with BPF_NOEXIST, which a full map refuses.
Insert(t) == /\ Goes(t, "insert", "again")
             /\ IF Owner[t] \notin held /\ HasRoom(Owner[t])
                THEN /\ held' = held \cup {Owner[t]}
                     /\ stats' = [stats EXCEPT ![Owner[t]] = 0]
                ELSE UNCHANGED <<held, stats>>
             /\ UNCHANGED <<alive, nr, nrHeld, nrs, agentVars, historyVars>>

\* get_stats: the second lookup; without an entry the call is not counted.
LookupAgain(t) == /\ Goes(t, "again", IF Owner[t] \in held THEN "found" ELSE "bump")
                  /\ UNCHANGED <<alive, nr, held, stats, nrHeld, nrs>>
                  /\ UNCHANGED <<agentVars, historyVars>>

\* The atomic addition through the pointer.  Had tp_exit deleted the entry,
\* its memory is free, or by now an entry of another key.
Count(t) == /\ Goes(t, "found", "bump")
            /\ LET p == Owner[t] IN
               \/ p \in held /\ stats' = [stats EXCEPT ![p] = (@ + 1) % Modulus]
               \/ p \notin held /\ UNCHANGED stats
               \/ /\ p \notin held
                  /\ \E q \in held : stats' = [stats EXCEPT ![q] = (@ + 1) % Modulus]
            /\ UNCHANGED <<alive, nr, held, nrHeld, nrs, agentVars, historyVars>>

\* bump_syscall: the entry is there (it is never deleted), or must be made.
Bump(t) == /\ IF nr[t] \in nrHeld
              THEN /\ Goes(t, "bump", "out")
                   /\ nrs' = [nrs EXCEPT ![nr[t]] = @ + 1]
                   /\ bumps' = [bumps EXCEPT ![nr[t]] = @ + 1]
              ELSE Goes(t, "bump", "first") /\ UNCHANGED <<nrs, bumps>>
           /\ UNCHANGED <<alive, nr, held, stats, nrHeld, agentVars>>
           /\ UNCHANGED <<made, reported, announced, orderly>>

NrHasRoom(n) == n \in nrHeld \/ Cardinality(nrHeld) < NrCap

\* Faulty variant: BPF_ANY, which sets the count of others back to one.
BumpFirstAny(t) == /\ Goes(t, "first", "out")
                   /\ IF NrHasRoom(nr[t])
                      THEN /\ nrHeld' = nrHeld \cup {nr[t]}
                           /\ nrs' = [nrs EXCEPT ![nr[t]] = 1]
                      ELSE UNCHANGED <<nrHeld, nrs>>
                   /\ bumps' = [bumps EXCEPT ![nr[t]] = @ + 1]
                   /\ UNCHANGED <<alive, nr, held, stats, agentVars>>
                   /\ UNCHANGED <<made, reported, announced, orderly>>

\* bump_syscall: the update with BPF_NOEXIST.  When another thread was first,
\* or the map is full, it is refused and this call is not counted.
BumpFirst(t) == /\ Goes(t, "first", "out")
                /\ IF nr[t] \notin nrHeld /\ NrHasRoom(nr[t])
                   THEN /\ nrHeld' = nrHeld \cup {nr[t]}
                        /\ nrs' = [nrs EXCEPT ![nr[t]] = 1]
                   ELSE UNCHANGED <<nrHeld, nrs>>
                /\ bumps' = [bumps EXCEPT ![nr[t]] = @ + 1]
                /\ UNCHANGED <<alive, nr, held, stats, agentVars>>
                /\ UNCHANGED <<made, reported, announced, orderly>>

SysEnterStep(t) == \/ SysEnter(t) \/ Lookup(t) \/ Insert(t) \/ LookupAgain(t)
                   \/ Count(t) \/ Bump(t) \/ BumpFirst(t)

-----------------------------------------------------------------------------
(* The end of a thread                                                     *)

\* tp_exit runs for every thread.  With the ring buffer full it returns
\* before it deletes anything.
ThreadExit(t) == /\ t \in alive \cap MayExit /\ at[t] = "out"
                 /\ alive' = alive \ {t}
                 /\ \/ UNCHANGED <<held, announced>>
                    \/ /\ announced' = announced \cup {Owner[t]}
                       /\ held' = held \ {Owner[t]}
                 /\ orderly' = (orderly /\ ThreadsOf(Owner[t]) = {t})
                 /\ UNCHANGED <<at, nr, stats, nrHeld, nrs, agentVars>>
                 /\ UNCHANGED <<made, bumps, reported>>

\* All the threads are gone and the kernel gives the tgid to a new process.
ReusePid(p) == /\ PidReuse /\ ThreadsOf(p) # {}
               /\ ThreadsOf(p) \cap alive = {}
               /\ alive' = alive \cup ThreadsOf(p)
               /\ announced' = announced \ {p} /\ orderly' = FALSE
               /\ UNCHANGED <<at, nr, held, stats, nrHeld, nrs, agentVars>>
               /\ UNCHANGED <<made, bumps, reported>>

-----------------------------------------------------------------------------
(* readProcessStats                                                        *)

\* Subtraction of uint64.
Minus(a, b) == (Modulus + a - b) % Modulus

SampleStarts == /\ ~sampling
                /\ sampling' = TRUE /\ todo' = held
                /\ UNCHANGED <<prev, kernelVars, historyVars>>

\* Faulty variant: statPrev is not brought up to date.
SampleReadsKeepsPrev(p) ==
    /\ sampling /\ p \in held
    /\ todo' = todo \ {p}
    /\ reported' = [reported EXCEPT ![p] = @ + Minus(stats[p], prev[p])]
    /\ UNCHANGED <<sampling, prev, kernelVars, made, bumps, announced, orderly>>

\* The iterator visits a key: after a deletion it begins again, so a key may
\* be visited twice.
SampleReads(p) ==
    /\ sampling /\ p \in held
    /\ todo' = todo \ {p}
    /\ prev' = [prev EXCEPT ![p] = stats[p]]
    /\ reported' = [reported EXCEPT ![p] = @ + Minus(stats[p], prev[p])]
    /\ UNCHANGED <<sampling, kernelVars, made, bumps, announced, orderly>>

\* Every key that was there when it began has been visited, or has gone.
SampleEnds == /\ sampling /\ todo \cap held = {}
              /\ sampling' = FALSE /\ todo' = {}
              /\ UNCHANGED <<prev, kernelVars, historyVars>>

-----------------------------------------------------------------------------
Next == \/ \E t \in Thread : SysEnterStep(t) \/ ThreadExit(t)
        \/ \E p \in Proc : ReusePid(p) \/ SampleReads(p)
        \/ SampleStarts \/ SampleEnds

Spec == Init /\ [][Next]_vars

-----------------------------------------------------------------------------
(* Properties                                                              *)

Places == {"out", "lookup", "insert", "again", "found", "bump", "first"}

\* The types of the variables; both maps within their capacity.
TypeOK == /\ alive \subseteq Thread
          /\ at \in [Thread -> Places] /\ nr \in [Thread -> Nr]
          /\ held \subseteq Proc /\ Cardinality(held) <= StatsCap
          /\ stats \in [Proc -> 0..Modulus - 1]
          /\ nrHeld \subseteq Nr /\ Cardinality(nrHeld) <= NrCap
          /\ nrs \in [Nr -> Nat]
          /\ sampling \in BOOLEAN /\ todo \subseteq Proc
          /\ prev \in [Proc -> 0..Modulus - 1]
          /\ made \in [Proc -> 0..MaxCalls] /\ bumps \in [Nr -> Nat]
          /\ reported \in [Proc -> Nat]
          /\ announced \subseteq Proc /\ orderly \in BOOLEAN

\* frontend/src/data/metricDocs.ts, syscalls_per_sec: what the samples report
\* of a process is never more than the calls its threads made.
RatesTrue == \A p \in Proc : reported[p] <= made[p]

\* The rates are true as long as no process loses one thread of several and
\* no tgid is used again, whatever races with the iteration over the map.
RatesTrueIfOrderly == orderly => RatesTrue

\* Calls that have entered the program and are not yet counted.
Uncounted(p) == {t \in ThreadsOf(p) : at[t] \in {"lookup", "insert", "again", "found"}}

\* While a process lives and the map has room for those that made calls, no
\* call of it is lost, however its threads race to make its entry: each one is
\* reported, or in the entry and not yet reported, or about to be counted.
NothingLost ==
    \A p \in Proc :
        /\ orderly /\ ThreadsOf(p) \subseteq alive
        /\ Cardinality({q \in Proc : made[q] > 0}) <= StatsCap
        => LET inMap == IF p \in held THEN stats[p] - prev[p] ELSE 0
           IN made[p] = reported[p] + inMap + Cardinality(Uncounted(p))

\* Call numbers that went through bump_syscall, counted or not.
Called == {n \in Nr : bumps[n] > 0}

\* bump_syscall counts no call twice.  It does lose calls, where two threads
\* are the first to make one; but while syscall_counts has room for all the
\* numbers called, of each number at most one for every thread but one, ever.
\* (Once it is full, every call of a further number is lost.)
LossIsBounded ==
    \A n \in Nr : /\ nrs[n] <= bumps[n]
                  /\ Cardinality(Called) <= NrCap =>
                       bumps[n] <= nrs[n] + Cardinality(Thread) - 1

\* docs/ARCHITECTURE.md, "tracepoint/sched/sched_process_exit: Tracks process
\* termination": a process said to have exited has no thread left.
ExitsAreReal == \A p \in announced : ThreadsOf(p) \cap alive = {}
=============================================================================
