---------------------------- MODULE SampleAgent ----------------------------
(***************************************************************************)
(* The sampling of the eBPF collector: buildSnapshot resolves the target to*)
(* pids and then, pid by pid, reads /proc and computes CPU and disk rates  *)
(* against cpuPrev and ioPrev, in unsigned arithmetic.  Here the target has*)
(* all of Pid; cpuPrev and ioPrev are never pruned.                        *)
(***************************************************************************)
EXTENDS ProcTable, FiniteSets

VARIABLES
    todo,        \* resolved pids that the loop has not reached
    building,    \* is a snapshot under way?
    at,          \* its time
    cpuPrev,     \* ticks and time of the sample before, or None
    ioPrev,      \* bytes and time of the sample before, or None
    cpuDelta,    \* ticks that the row of a pid is computed from
    ioDelta,     \* bytes a pid adds to the disk rate
    cpuUsed, ioUsed,  \* history: counted under a pid since its sample before
    cpuThen, ioThen   \* history: those, when the sample was taken

agentVars == <<todo, building, at, cpuPrev, ioPrev, cpuDelta, ioDelta>>
historyVars == <<cpuUsed, ioUsed, cpuThen, ioThen>>
vars == <<procVars, agentVars, historyVars>>

Zero == [p \in Pid |-> 0]

Init == /\ ProcInit
        /\ todo = {} /\ building = FALSE /\ at = 0
        /\ cpuPrev = [p \in Pid |-> None] /\ ioPrev = [p \in Pid |-> None]
        /\ cpuDelta = Zero /\ ioDelta = Zero
        /\ cpuUsed = Zero /\ ioUsed = Zero /\ cpuThen = Zero /\ ioThen = Zero

\* The time is taken and the target resolved; a rate starts from nothing.
Begin == /\ ~building /\ building' = TRUE
         /\ at' = now /\ todo' = alive
         /\ cpuDelta' = Zero /\ ioDelta' = Zero
         /\ cpuThen' = Zero /\ ioThen' = Zero
         /\ UNCHANGED <<procVars, cpuPrev, ioPrev, cpuUsed, ioUsed>>

Minus(a, b) == (a - b) % Modulus

\* What a sample x is counted as, against the one before.
Delta(x, prev) == IF prev # None /\ at - prev.at > 0 THEN Minus(x, prev.count) ELSE 0

Entry(x) == [count |-> x, at |-> at]

\* Faulty variant: an I/O count that cannot be read is taken for zero.
ReadPidIoZero(p) ==
    /\ building /\ p \in todo /\ todo' = todo \ {p}
    /\ cpuDelta' = [cpuDelta EXCEPT ![p] = Delta(InfoOf(p), cpuPrev[p])]
    /\ cpuPrev' = [cpuPrev EXCEPT ![p] = Entry(InfoOf(p))]
    /\ cpuUsed' = [cpuUsed EXCEPT ![p] = 0] /\ cpuThen' = [cpuThen EXCEPT ![p] = cpuUsed[p]]
    /\ LET x == IF p \in alive THEN io[p] ELSE 0 IN
       /\ ioDelta' = [ioDelta EXCEPT ![p] = Delta(x, ioPrev[p])]
       /\ ioPrev' = [ioPrev EXCEPT ![p] = Entry(x)]
       /\ ioUsed' = [ioUsed EXCEPT ![p] = 0] /\ ioThen' = [ioThen EXCEPT ![p] = ioUsed[p]]
    /\ UNCHANGED <<procVars, building, at>>

\* One round of the loop: a process that is gone reads as zero ticks, and its
\* I/O not at all.
ReadPid(p) ==
    /\ building /\ p \in todo /\ todo' = todo \ {p}
    /\ cpuDelta' = [cpuDelta EXCEPT ![p] = Delta(InfoOf(p), cpuPrev[p])]
    /\ cpuPrev' = [cpuPrev EXCEPT ![p] = Entry(InfoOf(p))]
    /\ cpuUsed' = [cpuUsed EXCEPT ![p] = 0] /\ cpuThen' = [cpuThen EXCEPT ![p] = cpuUsed[p]]
    /\ IF p \in alive
       THEN /\ ioDelta' = [ioDelta EXCEPT ![p] = Delta(io[p], ioPrev[p])]
            /\ ioPrev' = [ioPrev EXCEPT ![p] = Entry(io[p])]
            /\ ioUsed' = [ioUsed EXCEPT ![p] = 0] /\ ioThen' = [ioThen EXCEPT ![p] = ioUsed[p]]
       ELSE UNCHANGED <<ioDelta, ioPrev, ioUsed, ioThen>>
    /\ UNCHANGED <<procVars, building, at>>

Finish == /\ building /\ todo = {} /\ building' = FALSE
          /\ UNCHANGED <<procVars, todo, at, cpuPrev, ioPrev, cpuDelta, ioDelta, historyVars>>

\* The processes go on; the history counts what they do.
Environment ==
    /\ \/ \E p \in Pid : /\ Runs(p)
                         /\ cpuUsed' = [cpuUsed EXCEPT ![p] = @ + (cpu'[p] - cpu[p])]
                         /\ ioUsed' = [ioUsed EXCEPT ![p] = @ + (io'[p] - io[p])]
       \/ (Passes \/ \E p \in Pid : Exits(p) \/ Reuses(p)) /\ UNCHANGED <<cpuUsed, ioUsed>>
    /\ UNCHANGED <<agentVars, cpuThen, ioThen>>

Next == Begin \/ Finish \/ Environment \/ \E p \in Pid : ReadPid(p)

Spec == Init /\ [][Next]_vars

-----------------------------------------------------------------------------
(* Properties                                                              *)

Sampled == [count : Nat, at : 0..MaxTime]

\* The types of the variables.
TypeOK == /\ ProcTypeOK
          /\ todo \subseteq Pid /\ building \in BOOLEAN /\ at \in 0..MaxTime
          /\ cpuPrev \in [Pid -> Sampled \cup {None}] /\ ioPrev \in [Pid -> Sampled \cup {None}]
          /\ cpuDelta \in [Pid -> Nat] /\ ioDelta \in [Pid -> Nat]
          /\ {cpuUsed, ioUsed, cpuThen, ioThen} \subseteq [Pid -> Nat]

\* As long as its pid is not used again, a process adds no more bytes to the disk
\* rate than it moved since the sample before, whatever exits under the loop.
IoNeverInvented == \A p \in Pid \ reused : ioDelta[p] <= ioThen[p]

\* metricDocs.ts: CPU is what the target consumed: the row of a pid is computed
\* from no more ticks than ran under it since the sample before.
CpuNeverInvented == \A p \in Pid : cpuDelta[p] <= cpuThen[p]
=============================================================================
