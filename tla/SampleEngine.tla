---------------------------- MODULE SampleEngine ----------------------------
(***************************************************************************)
(* The sampling of the /proc engine: collect runs scanAllProcesses, which  *)
(* computes CPU from procHistory and writes it anew process by process,    *)
(* then readProcIO for the target, which computes the I/O rates from the   *)
(* same entry.  A tick has one time for all its samples.                   *)
(***************************************************************************)
EXTENDS ProcTable, FiniteSets

CONSTANTS
    Target,      \* the pid of the target
    MinGap       \* time that must have passed since the sample before (50 ms)

ASSUME EngineConstants == /\ Target \in Pid /\ MinGap \in Nat
                          /\ None \notin [ticks : Nat, io : Nat, at : Int]

VARIABLES
    phase,       \* where collect is: between ticks, in the scan, before readProcIO
    todo,        \* pids listed that the scan has not reached
    at,          \* the time of the tick
    hist,        \* procHistory: ticks, io and time of the sample before, or None
    cpuDelta,    \* ticks that the row of a process is computed from
    ioDelta,     \* bytes the target's rate is computed from, 0 for no rate
    used,        \* history: ticks run under a pid since its sample before
    usedThen,    \* history: used, when the sample was taken
    moved,       \* history: bytes of the target since its sample before, as
                 \* the last readProcIO found them; None for a first sample
    lastIo       \* history: the target's bytes at the sample before, or None

engineVars == <<phase, todo, at, hist, cpuDelta, ioDelta>>
historyVars == <<used, usedThen, moved, lastIo>>
vars == <<procVars, engineVars, historyVars>>

Init == /\ ProcInit
        /\ phase = "idle" /\ todo = {} /\ at = 0
        /\ hist = [p \in Pid |-> None]
        /\ cpuDelta = [p \in Pid |-> 0] /\ ioDelta = 0
        /\ used = [p \in Pid |-> 0] /\ usedThen = [p \in Pid |-> 0]
        /\ moved = None /\ lastIo = None

\* The ticker fires; ReadDir lists the processes.
Tick == /\ phase = "idle" /\ now > at
        /\ phase' = "scan" /\ todo' = alive /\ at' = now
        /\ UNCHANGED <<procVars, hist, cpuDelta, ioDelta, historyVars>>

\* The sample time of an entry that scan has not written, the zero time.Time.
LongAgo == 0 - MinGap - 1

\* Enough time has passed since the sample before.
Apart(p) == hist[p] # None /\ at - hist[p].at > MinGap

Sample(p) == [ticks |-> InfoOf(p), io |-> 0, at |-> at]

\* Faulty variant: the entry is written only once.
ScanOnce(p) ==
    /\ phase = "scan" /\ p \in todo /\ todo' = todo \ {p}
    /\ cpuDelta' = [cpuDelta EXCEPT ![p] = IF Apart(p) /\ InfoOf(p) >= hist[p].ticks
                                           THEN InfoOf(p) - hist[p].ticks ELSE 0]
    /\ hist' = IF hist[p] = None THEN [hist EXCEPT ![p] = Sample(p)] ELSE hist
    /\ used' = [used EXCEPT ![p] = 0] /\ usedThen' = [usedThen EXCEPT ![p] = used[p]]
    /\ UNCHANGED <<procVars, phase, at, ioDelta, moved, lastIo>>

\* A process of the list whose comm can still be read is sampled.  The new
\* entry has only the ticks and the time.
Scan(p) ==
    /\ phase = "scan" /\ p \in todo /\ todo' = todo \ {p}
    /\ cpuDelta' = [cpuDelta EXCEPT ![p] = IF Apart(p) /\ InfoOf(p) >= hist[p].ticks
                                           THEN InfoOf(p) - hist[p].ticks ELSE 0]
    /\ hist' = [hist EXCEPT ![p] = Sample(p)]
    /\ used' = [used EXCEPT ![p] = 0] /\ usedThen' = [usedThen EXCEPT ![p] = used[p]]
    /\ UNCHANGED <<procVars, phase, at, ioDelta, moved, lastIo>>

\* Its comm cannot be read any more: the row is left out.
ScanSkips(p) == /\ phase = "scan" /\ p \in todo \ alive /\ todo' = todo \ {p}
                /\ cpuDelta' = [cpuDelta EXCEPT ![p] = 0]
                /\ UNCHANGED <<procVars, phase, at, hist, ioDelta, historyVars>>

ScanEnds == /\ phase = "scan" /\ todo = {} /\ phase' = "io"
            /\ UNCHANGED <<procVars, todo, at, hist, cpuDelta, ioDelta, historyVars>>

\* readProcIO of the target; an entry that is not there reads as zeros.
ReadIO ==
    /\ phase = "io" /\ phase' = "idle"
    /\ IF Target \in alive
       THEN /\ ioDelta' = IF Apart(Target) /\ io[Target] >= hist[Target].io
                          THEN io[Target] - hist[Target].io ELSE 0
            /\ hist' = [hist EXCEPT ![Target] = IF @ = None
                            THEN [ticks |-> 0, io |-> io[Target], at |-> LongAgo]
                            ELSE [ticks |-> @.ticks, io |-> io[Target], at |-> @.at]]
            /\ moved' = IF lastIo = None THEN None ELSE io[Target] - lastIo
            /\ lastIo' = io[Target]
       ELSE ioDelta' = 0 /\ moved' = None /\ UNCHANGED <<hist, lastIo>>
    /\ UNCHANGED <<procVars, todo, at, cpuDelta, used, usedThen>>

\* The processes go on; used counts their ticks.
Environment ==
    \/ \E p \in Pid : /\ Runs(p)
                      /\ used' = [used EXCEPT ![p] = @ + (cpu'[p] - cpu[p])]
                      /\ UNCHANGED <<engineVars, usedThen, moved, lastIo>>
    \/ Passes /\ UNCHANGED <<engineVars, historyVars>>
    \/ \E p \in Pid : Exits(p) /\ UNCHANGED <<engineVars, historyVars>>
    \/ \E p \in Pid : /\ Reuses(p)
                      /\ lastIo' = IF p = Target THEN None ELSE lastIo
                      /\ UNCHANGED <<engineVars, used, usedThen, moved>>

Next == \/ Tick \/ ScanEnds \/ ReadIO \/ Environment
        \/ \E p \in Pid : Scan(p) \/ ScanSkips(p)

Spec == Init /\ [][Next]_vars

-----------------------------------------------------------------------------
(* Properties                                                              *)

Entry == [ticks : Nat, io : Nat, at : LongAgo..MaxTime]

\* The types of the variables.
TypeOK == /\ ProcTypeOK
          /\ phase \in {"idle", "scan", "io"} /\ todo \subseteq Pid /\ at \in 0..MaxTime
          /\ hist \in [Pid -> Entry \cup {None}]
          /\ cpuDelta \in [Pid -> Nat] /\ ioDelta \in Nat
          /\ used \in [Pid -> Nat] /\ usedThen \in [Pid -> Nat]
          /\ moved \in Nat \cup {None} /\ lastIo \in Nat \cup {None}

\* The CPU of a row is never more than what ran under its pid since the sample
\* before, also when the process exits under the scan or the pid is used again.
CpuNeverInvented == \A p \in Pid : cpuDelta[p] <= usedThen[p]

\* docs/ARCHITECTURE.md: disk I/O and syscalls are read from /proc/pid/io.  After
\* a second sample of one process the rate is of what it moved in between.
IoIsMeasured == (phase = "idle" /\ moved # None) => ioDelta = moved
=============================================================================
