----------------------------- MODULE ProcTable -----------------------------
(***************************************************************************)
(* What /proc shows of the processes under observation, for the collectors *)
(* that sample it: SampleEngine and SampleAgent.  A process counts clock   *)
(* ticks (utime and stime stand as one) and bytes (of rchar, wchar, syscr  *)
(* and syscw one), it may exit at any moment and its pid may be used again.*)
(* Time only moves forward.                                                *)
(***************************************************************************)
EXTENDS Integers

CONSTANTS
    Pid,
    Modulus,     \* of the counters, 2^64 in the code
    None,        \* no sample
    MaxRun,      \* bound on the ticks and bytes all processes count
    MaxTime      \* bound on the time

ASSUME ProcBounds == MaxRun \in Nat /\ MaxTime \in Nat
ASSUME ModulusHolds == Modulus \in Nat /\ Modulus > MaxRun
ASSUME NoneIsNoCount == None \notin Int

VARIABLES
    alive,       \* the pids of living processes
    cpu, io,     \* ticks and bytes that /proc shows for a living process
    now,
    ran,         \* bound: ticks and bytes counted so far
    reused       \* history: pids that were used again

procVars == <<alive, cpu, io, now, ran, reused>>

ProcInit == /\ alive = Pid
            /\ cpu = [p \in Pid |-> 0] /\ io = [p \in Pid |-> 0]
            /\ now = 0 /\ ran = 0 /\ reused = {}

Runs(p) == /\ p \in alive /\ ran < MaxRun /\ ran' = ran + 1
           /\ \/ cpu' = [cpu EXCEPT ![p] = @ + 1] /\ UNCHANGED io
              \/ io' = [io EXCEPT ![p] = @ + 1] /\ UNCHANGED cpu
           /\ UNCHANGED <<alive, now, reused>>

Exits(p) == /\ p \in alive /\ alive' = alive \ {p}
            /\ UNCHANGED <<cpu, io, now, ran, reused>>

Reuses(p) == /\ p \notin alive /\ alive' = alive \cup {p} /\ reused' = reused \cup {p}
             /\ cpu' = [cpu EXCEPT ![p] = 0] /\ io' = [io EXCEPT ![p] = 0]
             /\ UNCHANGED <<now, ran>>

Passes == /\ now < MaxTime /\ now' = now + 1
          /\ UNCHANGED <<alive, cpu, io, ran, reused>>

ProcTypeOK == /\ alive \subseteq Pid /\ now \in 0..MaxTime /\ ran \in 0..MaxRun
              /\ reused \subseteq Pid
              /\ cpu \in [Pid -> Nat] /\ io \in [Pid -> Nat]

\* ReadProcessInfo reports no error for a process that is gone, but zeros;
\* ReadIOStats does report one.
InfoOf(p) == IF p \in alive THEN cpu[p] ELSE 0
=============================================================================
