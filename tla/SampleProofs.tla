---------------------------- MODULE SampleProofs ----------------------------
(***************************************************************************)
(* Proofs about the two collectors: however the sampling of /proc is       *)
(* interleaved with processes that run, exit and are replaced, no row of   *)
(* the engine reports CPU that was not used, and the agent's disk rate     *)
(* counts no byte that was not moved.  The invariants relate what a process*)
(* shows to the entry of its pid and to what it did since.                 *)
(***************************************************************************)
EXTENDS Sampling, TLAPS

-----------------------------------------------------------------------------
(* The engine                                                              *)

\* The ticks of the entry that the next sample is taken against.
Base(p) == IF hist[p] = None THEN 0 ELSE hist[p].ticks

CpuTyped == /\ cpu \in [Pid -> Nat] /\ used \in [Pid -> Nat]
            /\ hist \in [Pid -> [ticks : Nat, io : Nat, at : Int] \cup {None}]
            /\ alive \subseteq Pid /\ todo \subseteq Pid
            /\ io \in [Pid -> Nat]
            /\ usedThen \in [Pid -> Nat] /\ cpuDelta \in [Pid -> Nat]
            /\ at \in Nat /\ now \in Nat

\* A living process shows at most the entry of its pid and what ran since.
ShownBound == \A p \in alive : cpu[p] <= Base(p) + used[p]

IInv == CpuTyped /\ ShownBound /\ CpuNeverInvented

\* A process that runs shows as much more as is counted under its pid.
LEMMA RunsKeeps ==
    ASSUME IInv, NEW p \in Pid, Runs(p), used' = [used EXCEPT ![p] = @ + (cpu'[p] - cpu[p])],
           UNCHANGED <<engineVars, usedThen>>
    PROVE IInv'
<1>1. CpuTyped /\ ShownBound /\ CpuNeverInvented BY DEF IInv
<1>2. /\ UNCHANGED <<alive, hist, todo, at, cpuDelta, usedThen, now>>
  BY DEF Runs, engineVars
<1>3. /\ cpu \in [Pid -> Nat] /\ used \in [Pid -> Nat] /\ io \in [Pid -> Nat]
      /\ alive \subseteq Pid
  BY <1>1 DEF CpuTyped
<1>4. /\ \/ cpu' = [cpu EXCEPT ![p] = @ + 1] /\ io' = io
         \/ cpu' = cpu /\ io' = [io EXCEPT ![p] = @ + 1]
  BY DEF Runs
<1>5. cpu' \in [Pid -> Nat] /\ io' \in [Pid -> Nat] BY <1>3, <1>4
<1>6. cpu'[p] - cpu[p] \in {0, 1} BY <1>3, <1>4
<1>7. used' \in [Pid -> Nat] BY <1>3, <1>6
<1>8. CpuTyped' BY <1>1, <1>2, <1>5, <1>7 DEF CpuTyped
<1>9. ASSUME NEW q \in alive PROVE cpu'[q] <= Base(q) + used'[q]
  <2>1. cpu[q] <= Base(q) + used[q] BY <1>1 DEF ShownBound
  <2>2. Base(q) \in Nat BY <1>1, <1>3 DEF CpuTyped, Base
  <2>3. q \in Pid BY <1>3
  <2>4. CASE q = p
    <3>1. used'[p] = used[p] + (cpu'[p] - cpu[p]) BY <1>3
    <3> QED BY <1>3, <1>5, <2>1, <2>2, <2>4, <3>1
  <2>5. CASE q # p
    <3>1. used'[q] = used[q] /\ cpu'[q] = cpu[q] BY <1>3, <1>4, <2>3, <2>5
    <3> QED BY <2>1, <3>1
  <2> QED BY <2>4, <2>5
<1>10. \A q \in Pid : Base(q)' = Base(q) BY <1>2 DEF Base
<1>11. ShownBound' BY <1>2, <1>3, <1>9, <1>10 DEF ShownBound
<1>12. CpuNeverInvented' BY <1>1, <1>2 DEF CpuNeverInvented
<1> QED BY <1>8, <1>11, <1>12 DEF IInv

\* A sample takes the bound over into the row and starts it anew.
LEMMA ScanKeeps == ASSUME IInv, NEW p \in Pid, Scan(p) PROVE IInv'
<1>1. CpuTyped /\ ShownBound /\ CpuNeverInvented BY DEF IInv
<1>2. /\ cpuDelta' = [cpuDelta EXCEPT ![p] = IF Apart(p) /\ InfoOf(p) >= hist[p].ticks
                                             THEN InfoOf(p) - hist[p].ticks ELSE 0]
      /\ hist' = [hist EXCEPT ![p] = Sample(p)]
      /\ used' = [used EXCEPT ![p] = 0] /\ usedThen' = [usedThen EXCEPT ![p] = used[p]]
      /\ todo' \subseteq todo /\ UNCHANGED <<alive, cpu, io, at, now>>
  BY DEF Scan, procVars
<1>3. /\ cpu \in [Pid -> Nat] /\ used \in [Pid -> Nat] /\ usedThen \in [Pid -> Nat]
      /\ cpuDelta \in [Pid -> Nat] /\ at \in Nat
      /\ hist \in [Pid -> [ticks : Nat, io : Nat, at : Int] \cup {None}]
  BY <1>1 DEF CpuTyped
<1>4. InfoOf(p) \in Nat BY <1>3 DEF InfoOf
<1>5. Sample(p) \in [ticks : Nat, io : Nat, at : Int] BY <1>3, <1>4 DEF Sample
<1>6. hist' \in [Pid -> [ticks : Nat, io : Nat, at : Int] \cup {None}] BY <1>2, <1>3, <1>5
<1>7. ASSUME Apart(p), InfoOf(p) >= hist[p].ticks
      PROVE InfoOf(p) - hist[p].ticks \in Nat /\ InfoOf(p) - hist[p].ticks <= used[p]
  <2>1. hist[p] # None BY <1>7 DEF Apart
  <2>2. hist[p].ticks \in Nat BY <1>3, <2>1
  <2>3. InfoOf(p) - hist[p].ticks \in Nat BY <1>4, <1>7, <2>2
  <2>4. CASE p \in alive
    <3>1. cpu[p] <= hist[p].ticks + used[p] BY <1>1, <2>1, <2>4 DEF ShownBound, Base
    <3>2. InfoOf(p) = cpu[p] BY <2>4 DEF InfoOf
    <3> QED BY <1>3, <2>2, <2>3, <3>1, <3>2
  <2>5. CASE p \notin alive
    <3>1. InfoOf(p) = 0 BY <2>5 DEF InfoOf
    <3> QED BY <1>3, <1>7, <2>2, <2>3, <3>1
  <2> QED BY <2>4, <2>5
<1>8. cpuDelta'[p] \in Nat /\ cpuDelta'[p] <= usedThen'[p]
  <2>1. usedThen'[p] = used[p] /\ used[p] \in Nat BY <1>2, <1>3
  <2>2. CASE Apart(p) /\ InfoOf(p) >= hist[p].ticks
    <3>1. cpuDelta'[p] = InfoOf(p) - hist[p].ticks BY <1>2, <1>3, <2>2
    <3> QED BY <1>7, <2>1, <2>2, <3>1
  <2>3. CASE ~(Apart(p) /\ InfoOf(p) >= hist[p].ticks)
    <3>1. cpuDelta'[p] = 0 BY <1>2, <1>3, <2>3
    <3> QED BY <2>1, <3>1
  <2> QED BY <2>2, <2>3
<1>9. ASSUME NEW q \in Pid, q # p
      PROVE /\ cpuDelta'[q] = cpuDelta[q] /\ usedThen'[q] = usedThen[q]
            /\ used'[q] = used[q] /\ hist'[q] = hist[q]
  BY <1>2, <1>3, <1>9
<1>10. cpuDelta' \in [Pid -> Nat]
  <2>1. cpuDelta' = [cpuDelta EXCEPT ![p] = cpuDelta'[p]] BY <1>2, <1>3
  <2> QED BY <1>3, <1>8, <2>1
<1>11. used' \in [Pid -> Nat] /\ usedThen' \in [Pid -> Nat] BY <1>2, <1>3
<1>12. CpuTyped' BY <1>1, <1>2, <1>6, <1>10, <1>11 DEF CpuTyped
<1>13. CpuNeverInvented' BY <1>1, <1>8, <1>9 DEF CpuNeverInvented
<1>14. ASSUME NEW q \in alive' PROVE cpu'[q] <= Base(q)' + used'[q]
  <2>1. q \in alive /\ q \in Pid /\ cpu' = cpu BY <1>1, <1>2 DEF CpuTyped
  <2>2. CASE q = p
    <3>1. InfoOf(p) = cpu[p] BY <2>1, <2>2 DEF InfoOf
    <3>2. hist'[p] = Sample(p) BY <1>2, <1>3
    <3>3. Sample(p) # None BY <1>5, EngineConstants
    <3>4. Base(p)' = cpu[p] BY <3>1, <3>2, <3>3 DEF Base, Sample
    <3>5. used'[p] = 0 BY <1>2, <1>3
    <3> QED BY <1>3, <2>1, <2>2, <3>4, <3>5
  <2>3. CASE q # p
    <3>1. Base(q)' = Base(q) BY <1>9, <2>1, <2>3 DEF Base
    <3> QED BY <1>1, <1>9, <2>1, <2>3, <3>1 DEF ShownBound
  <2> QED BY <2>2, <2>3
<1> QED BY <1>12, <1>13, <1>14 DEF IInv, ShownBound

\* A process that starts under a pid shows nothing, one that exits is not bounded.
LEMMA OthersKeep ==
    ASSUME IInv, NEW p \in Pid, Exits(p) \/ Reuses(p) \/ Passes,
           UNCHANGED <<engineVars, used, usedThen>>
    PROVE IInv'
<1>1. CpuTyped /\ ShownBound /\ CpuNeverInvented BY DEF IInv
<1>2. UNCHANGED <<hist, todo, at, cpuDelta, used, usedThen>> BY DEF engineVars
<1>3. /\ cpu \in [Pid -> Nat] /\ used \in [Pid -> Nat] /\ io \in [Pid -> Nat]
      /\ alive \subseteq Pid /\ now \in Nat
      /\ hist \in [Pid -> [ticks : Nat, io : Nat, at : Int] \cup {None}]
  BY <1>1 DEF CpuTyped
<1>4. \A q \in Pid : Base(q)' = Base(q) BY <1>2 DEF Base
<1>5. /\ alive' \subseteq alive \cup {p} /\ cpu' \in [Pid -> Nat] /\ io' \in [Pid -> Nat]
      /\ now' \in Nat
      /\ \A q \in alive' : cpu'[q] = 0 \/ (q \in alive /\ cpu'[q] = cpu[q])
  <2>1. CASE Exits(p) BY <1>3, <2>1 DEF Exits
  <2>2. CASE Reuses(p)
    <3>1. /\ alive' = alive \cup {p} /\ cpu' = [cpu EXCEPT ![p] = 0]
          /\ io' = [io EXCEPT ![p] = 0] /\ now' = now
      BY <2>2 DEF Reuses
    <3> QED BY <1>3, <3>1
  <2>3. CASE Passes BY <1>3, <2>3 DEF Passes
  <2> QED BY <2>1, <2>2, <2>3
<1>6. ASSUME NEW q \in alive' PROVE cpu'[q] <= Base(q)' + used'[q]
  <2>1. q \in Pid BY <1>3, <1>5
  <2>2. Base(q) \in Nat /\ Base(q)' = Base(q) BY <1>3, <1>4, <2>1 DEF Base
  <2>3. used'[q] = used[q] /\ used[q] \in Nat BY <1>2, <1>3, <2>1
  <2>4. CASE cpu'[q] = 0 BY <2>2, <2>3, <2>4
  <2>5. CASE q \in alive /\ cpu'[q] = cpu[q]
    BY <1>1, <2>2, <2>3, <2>5 DEF ShownBound
  <2> QED BY <1>5, <2>4, <2>5
<1>7. CpuTyped' BY <1>1, <1>2, <1>3, <1>5 DEF CpuTyped
<1>8. ShownBound' BY <1>6 DEF ShownBound
<1>9. CpuNeverInvented' BY <1>1, <1>2 DEF CpuNeverInvented
<1> QED BY <1>7, <1>8, <1>9 DEF IInv

\* A tick, a process that is skipped and the end of a scan leave the entries alone.
LEMMA CollectKeeps ==
    ASSUME IInv, NEW p \in Pid, Tick \/ ScanSkips(p) \/ ScanEnds
    PROVE IInv'
<1>1. CpuTyped /\ ShownBound /\ CpuNeverInvented BY DEF IInv
<1>2. UNCHANGED <<alive, cpu, io, now, hist, used, usedThen>>
  BY DEF Tick, ScanSkips, ScanEnds, procVars, historyVars
<1>3. /\ cpuDelta \in [Pid -> Nat] /\ usedThen \in [Pid -> Nat]
      /\ alive \subseteq Pid /\ todo \subseteq Pid /\ at \in Nat /\ now \in Nat
  BY <1>1 DEF CpuTyped
<1>4. todo' \subseteq Pid /\ at' \in Nat BY <1>3 DEF Tick, ScanSkips, ScanEnds
<1>5. cpuDelta' = cpuDelta \/ cpuDelta' = [cpuDelta EXCEPT ![p] = 0]
  BY DEF Tick, ScanSkips, ScanEnds
<1>6. cpuDelta' \in [Pid -> Nat] BY <1>3, <1>5
<1>7. CpuTyped' BY <1>1, <1>2, <1>4, <1>6 DEF CpuTyped
<1>8. ShownBound' BY <1>1, <1>2 DEF ShownBound, Base
<1>9. ASSUME NEW q \in Pid PROVE cpuDelta'[q] <= usedThen'[q]
  <2>1. cpuDelta[q] <= usedThen[q] /\ usedThen'[q] = usedThen[q] /\ usedThen[q] \in Nat
    BY <1>1, <1>2, <1>3 DEF CpuNeverInvented
  <2>2. cpuDelta'[q] = cpuDelta[q] \/ cpuDelta'[q] = 0 BY <1>3, <1>5
  <2> QED BY <2>1, <2>2
<1> QED BY <1>7, <1>8, <1>9 DEF IInv, CpuNeverInvented

\* readProcIO creates an entry of zero ticks or leaves the ticks as they are.
LEMMA ReadIOKeeps == ASSUME IInv, ReadIO PROVE IInv'
<1>1. CpuTyped /\ ShownBound /\ CpuNeverInvented BY DEF IInv
<1>2. UNCHANGED <<alive, cpu, io, now, todo, at, cpuDelta, used, usedThen>>
  BY DEF ReadIO, procVars
<1>3. /\ hist \in [Pid -> [ticks : Nat, io : Nat, at : Int] \cup {None}]
      /\ io \in [Pid -> Nat] /\ Target \in Pid /\ LongAgo \in Int
  BY <1>1, EngineConstants DEF CpuTyped, LongAgo
<1>4. /\ hist' \in [Pid -> [ticks : Nat, io : Nat, at : Int] \cup {None}]
      /\ \A q \in Pid : Base(q)' = Base(q)
  <2>1. CASE Target \in alive
    <3> DEFINE E == IF hist[Target] = None
                    THEN [ticks |-> 0, io |-> io[Target], at |-> LongAgo]
                    ELSE [ticks |-> hist[Target].ticks, io |-> io[Target], at |-> hist[Target].at]
    <3>1. hist' = [hist EXCEPT ![Target] = E] BY <2>1 DEF ReadIO
    <3>2. E \in [ticks : Nat, io : Nat, at : Int] /\ E.ticks = Base(Target)
      BY <1>3 DEF Base
    <3> HIDE DEF E
    <3>3. hist' \in [Pid -> [ticks : Nat, io : Nat, at : Int] \cup {None}] BY <1>3, <3>1, <3>2
    <3>4. E # None BY <3>2, EngineConstants
    <3>5. ASSUME NEW q \in Pid PROVE Base(q)' = Base(q)
      <4>1. CASE q = Target
        <5>1. hist'[q] = E BY <1>3, <3>1, <4>1
        <5> QED BY <3>2, <3>4, <4>1, <5>1 DEF Base
      <4>2. CASE q # Target
        <5>1. hist'[q] = hist[q] BY <1>3, <3>1, <3>5, <4>2
        <5> QED BY <5>1 DEF Base
      <4> QED BY <4>1, <4>2
    <3> QED BY <3>3, <3>5
  <2>2. CASE Target \notin alive
    <3>1. hist' = hist BY <2>2 DEF ReadIO
    <3> QED BY <1>3, <3>1 DEF Base
  <2> QED BY <2>1, <2>2
<1>5. CpuTyped' BY <1>1, <1>2, <1>4 DEF CpuTyped
<1>6. ShownBound' BY <1>1, <1>2, <1>4 DEF ShownBound, CpuTyped
<1>7. CpuNeverInvented' BY <1>1, <1>2 DEF CpuNeverInvented
<1> QED BY <1>5, <1>6, <1>7 DEF IInv

\* At first nothing was sampled.
LEMMA EngineInit == ASSUME Init PROVE IInv
<1>1. CpuTyped BY DEF Init, ProcInit, CpuTyped
<1>2. ShownBound /\ CpuNeverInvented
  BY DEF Init, ProcInit, ShownBound, Base, CpuNeverInvented
<1> QED BY <1>1, <1>2 DEF IInv

\* Every step of the collector and of the processes keeps the bound.
LEMMA EngineStep == ASSUME IInv, [Next]_vars PROVE IInv'
<1>1. Target \in Pid BY EngineConstants
<1>2. CASE Tick \/ ScanEnds BY <1>1, <1>2, CollectKeeps
<1>3. CASE \E p \in Pid : ScanSkips(p) BY <1>3, CollectKeeps
<1>4. CASE \E p \in Pid : Scan(p) BY <1>4, ScanKeeps
<1>5. CASE ReadIO BY <1>5, ReadIOKeeps
<1>6. CASE Environment
  <2>1. ASSUME NEW p \in Pid, Runs(p), used' = [used EXCEPT ![p] = @ + (cpu'[p] - cpu[p])],
               UNCHANGED <<engineVars, usedThen>>
        PROVE IInv'
    BY <2>1, RunsKeeps
  <2>2. CASE Passes /\ UNCHANGED <<engineVars, historyVars>>
    BY <1>1, <2>2, OthersKeep DEF historyVars
  <2>3. ASSUME NEW p \in Pid, Exits(p) \/ Reuses(p), UNCHANGED <<engineVars, used, usedThen>>
        PROVE IInv'
    BY <2>3, OthersKeep
  <2> QED BY <1>6, <2>1, <2>2, <2>3 DEF Environment, historyVars
<1>7. CASE UNCHANGED vars
  BY <1>7 DEF IInv, vars, procVars, engineVars, historyVars, CpuTyped, ShownBound, Base,
             CpuNeverInvented
<1> QED BY <1>2, <1>3, <1>4, <1>5, <1>6, <1>7 DEF Next

\* The engine that main did not start has no rows.
EngineInv == /\ collector = "engine" => IInv
             /\ collector = "agent" => \A p \in Pid : cpuDelta[p] = 0 /\ usedThen[p] = 0
             /\ collector \in {"agent", "engine"}

\* Engine.scanAllProcesses: no row reports more CPU than ran under its pid since
\* its sample before, for every number of processes and however they exit and
\* are replaced under the scan.
THEOREM CpuNeverInventedHolds == SamplingSpec => []CpuNeverInvented
<1>1. ASSUME SamplingInit PROVE EngineInv
  <2>1. IInv BY <1>1, EngineInit DEF SamplingInit
  <2>2. \A p \in Pid : cpuDelta[p] = 0 /\ usedThen[p] = 0 BY <1>1 DEF SamplingInit, Init
  <2> QED BY <1>1, <2>1, <2>2 DEF EngineInv, SamplingInit
<1>2. ASSUME EngineInv, [SamplingNext]_allVars PROVE EngineInv'
  <2>1. collector' = collector BY <1>2 DEF SamplingNext, allVars
  <2>2. CASE collector = "engine"
    <3>1. [Next]_vars BY <1>2, <2>2 DEF SamplingNext, allVars
    <3>2. IInv' BY <1>2, <2>2, <3>1, EngineStep DEF EngineInv
    <3> QED BY <2>1, <2>2, <3>2 DEF EngineInv
  <2>3. CASE collector = "agent"
    <3>1. cpuDelta' = cpuDelta /\ usedThen' = usedThen
      BY <1>2, <2>3 DEF SamplingNext, allVars, vars, engineVars, historyVars
    <3> QED BY <1>2, <2>1, <2>3, <3>1 DEF EngineInv
  <2> QED BY <1>2, <2>2, <2>3 DEF EngineInv
<1>3. ASSUME EngineInv PROVE CpuNeverInvented
  <2>1. CASE collector = "engine" BY <1>3, <2>1 DEF EngineInv, IInv
  <2>2. CASE collector = "agent"
    <3>1. ASSUME NEW p \in Pid PROVE cpuDelta[p] <= usedThen[p]
      <4>1. cpuDelta[p] = 0 /\ usedThen[p] = 0 BY <1>3, <2>2 DEF EngineInv
      <4> QED BY <4>1
    <3> QED BY <3>1 DEF CpuNeverInvented
  <2> QED BY <1>3, <2>1, <2>2 DEF EngineInv
<1> QED BY <1>1, <1>2, <1>3, PTL DEF SamplingSpec

-----------------------------------------------------------------------------
(* The agent                                                               *)

\* The bytes of the agent; no process counts more than all are bound to.
IoTyped == /\ ran \in 0..MaxRun /\ sampledAt \in Nat /\ now \in Nat
           /\ io \in [Pid -> Nat] /\ \A p \in Pid : io[p] <= ran
           /\ ioPrev \in [Pid -> [count : Nat, at : Nat] \cup {None}]
           /\ rowIo \in [Pid -> Nat] /\ ioUsed \in [Pid -> Nat] /\ ioThen \in [Pid -> Nat]

\* The process that had its pid first shows the entry and what it moved since.
Moved == \A p \in Pid \ reused : ioPrev[p] # None => ioPrev[p].count + ioUsed[p] = io[p]

AgentSound == IoTyped /\ Moved /\ AgentIoNeverInvented

\* The collector that main did not start stays at its beginning.
AgentInv == /\ collector = "engine" => \A p \in Pid : rowIo[p] = 0 /\ ioThen[p] = 0
            /\ collector = "agent" => AgentSound
            /\ collector \in {"agent", "engine"}

\* The modulus is out of reach of what is counted.
LEMMA Unwrapped == ASSUME NEW m \in Nat, NEW x \in Nat, x < m PROVE x % m = x
OBVIOUS

\* A difference of counters is a counter.
LEMMA Wrapped == ASSUME NEW m \in Nat \ {0}, NEW x \in Int PROVE x % m \in Nat
OBVIOUS

\* What is added to the rate is what was moved since the entry.
LEMMA DeltaIs ==
    ASSUME AgentSound, NEW p \in Pid
    PROVE /\ Agent!Delta(io[p], ioPrev[p]) \in Nat
          /\ p \notin reused => Agent!Delta(io[p], ioPrev[p]) <= ioUsed[p]
<1>1. /\ io[p] \in Nat /\ ioUsed[p] \in Nat /\ ran \in 0..MaxRun /\ io[p] <= ran
      /\ ioPrev[p] = None \/ ioPrev[p] \in [count : Nat, at : Nat]
  BY DEF AgentSound, IoTyped
<1>2. Modulus \in Nat /\ Modulus > MaxRun /\ MaxRun \in Nat BY ModulusHolds, ProcBounds
<1>3. CASE Agent!Delta(io[p], ioPrev[p]) = 0 BY <1>1, <1>3
<1>4. CASE ioPrev[p] # None /\ Agent!Delta(io[p], ioPrev[p]) = (io[p] - ioPrev[p].count) % Modulus
  <2>1. PICK k \in Nat : k = ioPrev[p].count BY <1>1, <1>4
  <2>2. (io[p] - k) % Modulus \in Nat
    <3>1. io[p] - k \in Int /\ Modulus \in Nat \ {0} BY <1>1, <1>2, <2>1
    <3> QED BY <3>1, Wrapped
  <2>3. ASSUME p \notin reused PROVE (io[p] - k) % Modulus <= ioUsed[p]
    <3>1. k + ioUsed[p] = io[p] BY <1>4, <2>1, <2>3 DEF AgentSound, Moved
    <3>2. io[p] - k = ioUsed[p] /\ ioUsed[p] < Modulus BY <1>1, <1>2, <2>1, <3>1
    <3>3. ioUsed[p] % Modulus = ioUsed[p] BY <1>1, <1>2, <3>2, Unwrapped
    <3> QED BY <1>1, <3>2, <3>3
  <2> QED BY <1>4, <2>1, <2>2, <2>3
<1> QED BY <1>3, <1>4 DEF Agent!Delta, Agent!Minus

\* A round of the agent's loop takes what was moved over into the row and counts anew.
LEMMA ReadPidKeeps == ASSUME AgentSound, NEW p \in Pid, Agent!ReadPid(p) PROVE AgentSound'
<1>1. UNCHANGED <<io, ran, reused, now, sampledAt>> BY DEF Agent!ReadPid, procVars, Agent!procVars
<1>2. /\ io \in [Pid -> Nat] /\ sampledAt \in Nat
      /\ ioPrev \in [Pid -> [count : Nat, at : Nat] \cup {None}]
      /\ rowIo \in [Pid -> Nat] /\ ioUsed \in [Pid -> Nat] /\ ioThen \in [Pid -> Nat]
  BY DEF AgentSound, IoTyped
<1>3. CASE UNCHANGED <<rowIo, ioPrev, ioUsed, ioThen>>
  BY <1>1, <1>3 DEF AgentSound, IoTyped, Moved, AgentIoNeverInvented, Agent!IoNeverInvented
<1>4. CASE /\ rowIo' = [rowIo EXCEPT ![p] = Agent!Delta(io[p], ioPrev[p])]
           /\ ioPrev' = [ioPrev EXCEPT ![p] = Agent!Entry(io[p])]
           /\ ioUsed' = [ioUsed EXCEPT ![p] = 0] /\ ioThen' = [ioThen EXCEPT ![p] = ioUsed[p]]
  <2>1. PICK d \in Nat : /\ d = Agent!Delta(io[p], ioPrev[p])
                         /\ p \notin reused => d <= ioUsed[p]
    BY DeltaIs
  <2>2. PICK e \in [count : Nat, at : Nat] : e = Agent!Entry(io[p]) /\ e.count = io[p]
    <3>1. Agent!Entry(io[p]) \in [count : Nat, at : Nat] BY <1>2 DEF Agent!Entry
    <3>2. Agent!Entry(io[p]).count = io[p] BY DEF Agent!Entry
    <3> QED BY <3>1, <3>2
  <2>3. /\ rowIo' = [rowIo EXCEPT ![p] = d] /\ ioPrev' = [ioPrev EXCEPT ![p] = e]
    BY <1>4, <2>1, <2>2
  <2>4. /\ rowIo' \in [Pid -> Nat] /\ ioUsed' \in [Pid -> Nat] /\ ioThen' \in [Pid -> Nat]
        /\ ioPrev' \in [Pid -> [count : Nat, at : Nat] \cup {None}]
    BY <1>2, <1>4, <2>3
  <2>5. IoTyped' BY <1>1, <2>4 DEF AgentSound, IoTyped
  <2>6. ASSUME NEW q \in Pid \ reused
        PROVE /\ ioPrev'[q] # None => ioPrev'[q].count + ioUsed'[q] = io[q]
              /\ rowIo'[q] <= ioThen'[q]
    <3>1. CASE q = p
      <4>1. ioPrev'[q] = e /\ ioUsed'[q] = 0 /\ rowIo'[q] = d /\ ioThen'[q] = ioUsed[q]
        BY <1>2, <1>4, <2>3, <3>1
      <4> QED BY <1>2, <2>1, <2>2, <3>1, <4>1
    <3>2. CASE q # p
      <4>1. /\ ioPrev'[q] = ioPrev[q] /\ ioUsed'[q] = ioUsed[q] /\ rowIo'[q] = rowIo[q]
            /\ ioThen'[q] = ioThen[q]
        BY <1>2, <1>4, <2>3, <3>2
      <4> QED BY <4>1 DEF AgentSound, Moved, AgentIoNeverInvented, Agent!IoNeverInvented
    <3> QED BY <3>1, <3>2
  <2> QED BY <1>1, <2>5, <2>6
      DEF AgentSound, Moved, AgentIoNeverInvented, Agent!IoNeverInvented
<1> QED BY <1>3, <1>4 DEF Agent!ReadPid

\* A process that moves a byte shows one more, as is counted under its pid.
LEMMA MovesKeeps ==
    ASSUME AgentSound, NEW p \in Pid, Runs(p),
           ioUsed' = [ioUsed EXCEPT ![p] = @ + (io'[p] - io[p])],
           UNCHANGED <<sampledAt, ioPrev, rowIo, ioThen>>
    PROVE AgentSound'
<1>1. /\ io \in [Pid -> Nat] /\ ioUsed \in [Pid -> Nat] /\ ran \in 0..MaxRun /\ MaxRun \in Nat
      /\ ioPrev \in [Pid -> [count : Nat, at : Nat] \cup {None}]
      /\ \A q \in Pid : io[q] <= ran
  BY ProcBounds DEF AgentSound, IoTyped
<1>2. /\ ran < MaxRun /\ ran' = ran + 1 /\ reused' = reused /\ now' = now
      /\ io' = io \/ io' = [io EXCEPT ![p] = @ + 1]
  BY DEF Runs
<1>3. io' \in [Pid -> Nat] /\ io'[p] - io[p] \in {0, 1} BY <1>1, <1>2
<1>4. ioUsed' \in [Pid -> Nat] BY <1>1, <1>3
<1>5. \A q \in Pid : io'[q] <= ran' BY <1>1, <1>2
<1>6. ran' \in 0..MaxRun BY <1>1, <1>2
<1>7. IoTyped' BY <1>2, <1>3, <1>4, <1>5, <1>6 DEF AgentSound, IoTyped
<1>8. ASSUME NEW q \in Pid \ reused, ioPrev[q] # None
      PROVE ioPrev[q].count + ioUsed'[q] = io'[q]
  <2>1. PICK k \in Nat : k = ioPrev[q].count BY <1>1, <1>8
  <2>2. k + ioUsed[q] = io[q] BY <1>8, <2>1 DEF AgentSound, Moved
  <2>3. CASE q = p
    <3>1. ioUsed'[q] = ioUsed[q] + (io'[q] - io[q]) BY <1>1, <2>3
    <3>2. ioUsed[q] \in Nat /\ io[q] \in Nat /\ io'[q] \in Nat BY <1>1, <1>3
    <3> QED BY <2>1, <2>2, <3>1, <3>2
  <2>4. CASE q # p
    <3>1. ioUsed'[q] = ioUsed[q] /\ io'[q] = io[q] BY <1>1, <1>2, <2>4
    <3> QED BY <2>1, <2>2, <3>1
  <2> QED BY <2>3, <2>4
<1> QED BY <1>2, <1>7, <1>8
    DEF AgentSound, Moved, AgentIoNeverInvented, Agent!IoNeverInvented

\* What exits, is replaced or waits leaves the rows and the other entries alone.
LEMMA OthersStay ==
    ASSUME AgentSound, Passes \/ \E p \in Pid : Exits(p) \/ Reuses(p),
           UNCHANGED <<sampledAt, ioPrev, rowIo, ioUsed, ioThen>>
    PROVE AgentSound'
<1>1. /\ io \in [Pid -> Nat] /\ ran \in 0..MaxRun /\ now \in Nat
      /\ \A q \in Pid : io[q] <= ran
  BY DEF AgentSound, IoTyped
<1>2. ASSUME NEW p \in Pid, Reuses(p) PROVE AgentSound'
  <2>1. /\ io' = [io EXCEPT ![p] = 0] /\ reused' = reused \cup {p} /\ ran' = ran /\ now' = now
    BY <1>2 DEF Reuses
  <2>2. io' \in [Pid -> Nat] /\ \A q \in Pid : io'[q] <= ran BY <1>1, <2>1
  <2>3. IoTyped' BY <2>1, <2>2 DEF AgentSound, IoTyped
  <2>4. \A q \in Pid \ reused' : q \in Pid \ reused /\ io'[q] = io[q] BY <1>1, <2>1
  <2> QED BY <2>3, <2>4 DEF AgentSound, Moved, AgentIoNeverInvented, Agent!IoNeverInvented
<1>3. ASSUME UNCHANGED <<io, ran, reused>>, now' \in Nat PROVE AgentSound'
  BY <1>3 DEF AgentSound, IoTyped, Moved, AgentIoNeverInvented, Agent!IoNeverInvented
<1>4. CASE Passes BY <1>1, <1>3, <1>4 DEF Passes
<1>5. ASSUME NEW p \in Pid, Exits(p) PROVE AgentSound' BY <1>1, <1>3, <1>5 DEF Exits
<1> QED BY <1>2, <1>4, <1>5

\* A round of sampling that begins or ends moves nothing.
LEMMA RoundsKeep == ASSUME AgentSound, Agent!Begin \/ Agent!Finish PROVE AgentSound'
<1>1. UNCHANGED <<io, ran, reused, now, ioPrev, ioUsed>>
  BY DEF Agent!Begin, Agent!Finish, Agent!procVars, Agent!historyVars
<1>2. CASE Agent!Begin
  <2>1. sampledAt' = now /\ rowIo' = [p \in Pid |-> 0] /\ ioThen' = [p \in Pid |-> 0]
    BY <1>2 DEF Agent!Begin, Agent!Zero
  <2> QED BY <1>1, <2>1 DEF AgentSound, IoTyped, Moved, AgentIoNeverInvented, Agent!IoNeverInvented
<1>3. CASE Agent!Finish
  <2>1. UNCHANGED <<sampledAt, rowIo, ioThen>> BY <1>3 DEF Agent!Finish, Agent!historyVars
  <2> QED BY <1>1, <2>1 DEF AgentSound, IoTyped, Moved, AgentIoNeverInvented, Agent!IoNeverInvented
<1> QED BY <1>2, <1>3

\* Agent.buildSnapshot: no process adds more bytes to the disk rate than it moved
\* since its sample before, for every number of processes and however they exit under
\* the loop, as long as their pids are not used again.
THEOREM AgentIoNeverInventedHolds == SamplingSpec => []AgentIoNeverInvented
<1>1. ASSUME SamplingInit PROVE AgentInv
  <2>1. /\ ran = 0 /\ sampledAt = 0 /\ now = 0 /\ io = [p \in Pid |-> 0]
        /\ ioPrev = [p \in Pid |-> None] /\ rowIo = [p \in Pid |-> 0]
        /\ ioUsed = [p \in Pid |-> 0] /\ ioThen = [p \in Pid |-> 0]
    BY <1>1 DEF SamplingInit, Init, ProcInit, Agent!Init, Agent!Zero
  <2>2. IoTyped BY <2>1, ProcBounds DEF IoTyped
  <2>3. Moved /\ AgentIoNeverInvented
    BY <2>1 DEF Moved, AgentIoNeverInvented, Agent!IoNeverInvented
  <2>4. collector \in {"agent", "engine"} BY <1>1 DEF SamplingInit
  <2> QED BY <2>1, <2>2, <2>3, <2>4 DEF AgentInv, AgentSound
<1>2. ASSUME AgentInv, [SamplingNext]_allVars PROVE AgentInv'
  <2>1. collector' = collector BY <1>2 DEF SamplingNext, allVars
  <2>2. CASE collector = "engine"
    <3>1. rowIo' = rowIo /\ ioThen' = ioThen
      BY <1>2, <2>2 DEF SamplingNext, allVars, agentVars, agentHistory
    <3> QED BY <1>2, <2>1, <2>2, <3>1 DEF AgentInv
  <2>3. CASE collector = "agent"
    <3>1. AgentSound BY <1>2, <2>3 DEF AgentInv
    <3>2. ASSUME NEW p \in Pid, Agent!ReadPid(p) PROVE AgentSound' BY <3>1, <3>2, ReadPidKeeps
    <3>3. ASSUME Agent!Begin \/ Agent!Finish PROVE AgentSound' BY <3>1, <3>3, RoundsKeep
    <3>4. ASSUME Agent!Environment PROVE AgentSound'
      <4>1. UNCHANGED <<sampledAt, ioPrev, rowIo, ioThen>>
        BY <3>4 DEF Agent!Environment, Agent!agentVars
      <4>2. ASSUME NEW p \in Pid, Agent!Runs(p),
                   ioUsed' = [ioUsed EXCEPT ![p] = @ + (io'[p] - io[p])]
            PROVE AgentSound'
        BY <3>1, <4>1, <4>2, MovesKeeps DEF Agent!Runs, Runs
      <4>3. ASSUME Agent!Passes \/ \E p \in Pid : Agent!Exits(p) \/ Agent!Reuses(p),
                   ioUsed' = ioUsed
            PROVE AgentSound'
        <5>1. Passes \/ \E p \in Pid : Exits(p) \/ Reuses(p)
          BY <4>3 DEF Agent!Passes, Agent!Exits, Agent!Reuses, Passes, Exits, Reuses
        <5> QED BY <3>1, <4>1, <4>3, <5>1, OthersStay
      <4> QED BY <3>4, <4>2, <4>3 DEF Agent!Environment
    <3>5. ASSUME UNCHANGED allVars PROVE AgentSound'
      BY <3>1, <3>5 DEF allVars, vars, procVars, agentVars, agentHistory, AgentSound, IoTyped,
         Moved, AgentIoNeverInvented, Agent!IoNeverInvented
    <3>6. AgentSound'
      BY <1>2, <2>3, <3>2, <3>3, <3>4, <3>5 DEF SamplingNext, Agent!Next
    <3> QED BY <2>1, <2>3, <3>6 DEF AgentInv
  <2> QED BY <1>2, <2>2, <2>3 DEF AgentInv
<1>3. ASSUME AgentInv PROVE AgentIoNeverInvented
  <2>1. CASE collector = "agent" BY <1>3, <2>1 DEF AgentInv, AgentSound
  <2>2. CASE collector = "engine"
    <3>1. ASSUME NEW p \in Pid PROVE rowIo[p] <= ioThen[p]
      <4>1. rowIo[p] = 0 /\ ioThen[p] = 0 BY <1>3, <2>2 DEF AgentInv
      <4> QED BY <4>1
    <3> QED BY <3>1 DEF AgentIoNeverInvented, Agent!IoNeverInvented
  <2> QED BY <1>3, <2>1, <2>2 DEF AgentInv
<1> QED BY <1>1, <1>2, <1>3, PTL DEF SamplingSpec

-----------------------------------------------------------------------------
(* Types                                                                   *)

\* The target shows no less than at its sample before: when its pid is used again that
\* sample is forgotten.
LastShown == lastIo # None => lastIo <= io[Target]

\* What the two collectors' variables have in common; the one that main did not start
\* has taken no sample.
SamplingTypes == /\ TypeOK /\ Agent!TypeOK /\ LastShown
                 /\ collector = "agent" => lastIo = None
                 /\ collector \in {"agent", "engine"}

EnvStep == \/ \E p \in Pid : Runs(p) \/ Exits(p) \/ Reuses(p)
           \/ Passes

\* What the processes do keeps the types of /proc.
LEMMA ProcStep == ASSUME ProcTypeOK, EnvStep \/ UNCHANGED procVars PROVE ProcTypeOK'
<1>1. /\ alive \in SUBSET Pid /\ now \in 0..MaxTime /\ ran \in 0..MaxRun
      /\ reused \in SUBSET Pid /\ cpu \in [Pid -> Nat] /\ io \in [Pid -> Nat]
      /\ MaxRun \in Nat /\ MaxTime \in Nat
  BY ProcBounds DEF ProcTypeOK
<1>2. ASSUME NEW p \in Pid, Runs(p) PROVE ProcTypeOK'
  <2>1. cpu' \in [Pid -> Nat] /\ io' \in [Pid -> Nat] BY <1>1, <1>2 DEF Runs
  <2>2. ran' \in 0..MaxRun BY <1>1, <1>2 DEF Runs
  <2> QED BY <1>1, <1>2, <2>1, <2>2 DEF Runs, ProcTypeOK
<1>3. ASSUME NEW p \in Pid, Exits(p) PROVE ProcTypeOK' BY <1>1, <1>3 DEF Exits, ProcTypeOK
<1>4. ASSUME NEW p \in Pid, Reuses(p) PROVE ProcTypeOK'
  <2>1. cpu' \in [Pid -> Nat] /\ io' \in [Pid -> Nat] BY <1>1, <1>4 DEF Reuses
  <2> QED BY <1>1, <1>4, <2>1 DEF Reuses, ProcTypeOK
<1>5. CASE Passes BY <1>1, <1>5 DEF Passes, ProcTypeOK
<1>6. CASE UNCHANGED procVars BY <1>1, <1>6 DEF procVars, ProcTypeOK
<1> QED BY <1>2, <1>3, <1>4, <1>5, <1>6 DEF EnvStep

\* What the processes do keeps LastShown, if a new target has no sample before.
LEMMA LastStep ==
    ASSUME ProcTypeOK, lastIo \in Nat \cup {None}, LastShown, EnvStep \/ UNCHANGED procVars,
           lastIo' = lastIo \/ lastIo' = None, Reuses(Target) => lastIo' = None
    PROVE LastShown'
<1>1. /\ io \in [Pid -> Nat] /\ Target \in Pid /\ io[Target] \in Nat
  BY EngineConstants DEF ProcTypeOK
<1>2. ASSUME NEW p \in Pid, Runs(p) PROVE io'[Target] >= io[Target] BY <1>1, <1>2 DEF Runs
<1>3. ASSUME NEW p \in Pid, Reuses(p), p # Target PROVE io'[Target] = io[Target]
  BY <1>1, <1>3 DEF Reuses
<1>4. ASSUME io'[Target] >= io[Target], lastIo' = lastIo, lastIo # None PROVE LastShown'
  <2>1. PICK n \in Nat : n = lastIo BY <1>4
  <2>2. PICK m \in Nat : m = io[Target] BY <1>1
  <2>3. n <= m BY <1>4, <2>1, <2>2 DEF LastShown
  <2>4. io'[Target] \in Nat
    <3>1. ProcTypeOK' BY ProcStep
    <3> QED BY <1>1, <3>1 DEF ProcTypeOK
  <2>5. n <= io'[Target] BY <1>4, <2>2, <2>3, <2>4
  <2> QED BY <1>4, <2>1, <2>5 DEF LastShown
<1>5. CASE lastIo' = None BY <1>5 DEF LastShown
<1>6. ASSUME lastIo' # None PROVE io'[Target] >= io[Target]
  <2>1. ASSUME io' = io PROVE io'[Target] >= io[Target] BY <1>1, <2>1
  <2>2. CASE EnvStep
    <3>1. ASSUME Passes \/ \E p \in Pid : Exits(p) PROVE io' = io BY <3>1 DEF Passes, Exits
    <3>2. ASSUME NEW p \in Pid, Reuses(p) PROVE io'[Target] >= io[Target]
      BY <1>1, <1>3, <1>6, <3>2
    <3> QED BY <1>2, <2>1, <2>2, <3>1, <3>2 DEF EnvStep
  <2>3. CASE UNCHANGED procVars BY <2>1, <2>3 DEF procVars
  <2> QED BY <2>2, <2>3
<1> QED BY <1>4, <1>5, <1>6

\* A step of the engine.
LEMMA EngineTyped ==
    ASSUME TypeOK, LastShown, [Next]_vars PROVE TypeOK' /\ LastShown'
<1>0. ProcTypeOK /\ MaxTime \in Nat /\ MinGap \in Nat /\ Target \in Pid
  BY ProcBounds, EngineConstants DEF TypeOK
<1>1. /\ alive \in SUBSET Pid /\ now \in 0..MaxTime /\ cpu \in [Pid -> Nat] /\ io \in [Pid -> Nat]
      /\ phase \in {"idle", "scan", "io"} /\ todo \in SUBSET Pid /\ at \in 0..MaxTime
      /\ hist \in [Pid -> Entry \cup {None}]
      /\ cpuDelta \in [Pid -> Nat] /\ ioDelta \in Nat
      /\ used \in [Pid -> Nat] /\ usedThen \in [Pid -> Nat]
      /\ moved \in Nat \cup {None} /\ lastIo \in Nat \cup {None}
  BY DEF TypeOK, ProcTypeOK
<1>2. None \notin Nat /\ None \notin Entry
  BY NoneIsNoCount, EngineConstants, <1>0 DEF Entry, LongAgo
<1>3. CASE Tick
  <2>1. UNCHANGED procVars /\ lastIo' = lastIo /\ ~Reuses(Target)
    BY <1>0, <1>3 DEF Tick, historyVars, procVars, Reuses
  <2>2. ProcTypeOK' /\ LastShown' BY <1>0, <1>1, <2>1, ProcStep, LastStep
  <2> QED BY <1>1, <1>3, <2>2 DEF Tick, historyVars, TypeOK
<1>4. ASSUME NEW p \in Pid, Scan(p) PROVE TypeOK' /\ LastShown'
  <2>1. UNCHANGED procVars /\ lastIo' = lastIo /\ ~Reuses(Target)
    BY <1>0, <1>4 DEF Scan, historyVars, procVars, Reuses
  <2>2. ProcTypeOK' /\ LastShown' BY <1>0, <1>1, <2>1, ProcStep, LastStep
  <2>3. InfoOf(p) \in Nat BY <1>1 DEF InfoOf
  <2>4. Sample(p) \in Entry BY <1>0, <1>1, <2>3 DEF Sample, Entry, LongAgo
  <2>5. hist' \in [Pid -> Entry \cup {None}] BY <1>1, <1>4, <2>4 DEF Scan
  <2>6. cpuDelta' \in [Pid -> Nat]
    <3> DEFINE d == IF Apart(p) /\ InfoOf(p) >= hist[p].ticks THEN InfoOf(p) - hist[p].ticks ELSE 0
    <3>1. hist[p] # None => hist[p].ticks \in Nat BY <1>1 DEF Entry
    <3>2. d \in Nat BY <2>3, <3>1 DEF Apart
    <3>3. cpuDelta' = [cpuDelta EXCEPT ![p] = d] BY <1>4 DEF Scan
    <3> HIDE DEF d
    <3> QED BY <1>1, <3>2, <3>3
  <2>7. used' \in [Pid -> Nat] /\ usedThen' \in [Pid -> Nat] BY <1>1, <1>4 DEF Scan
  <2> QED BY <1>1, <1>4, <2>2, <2>5, <2>6, <2>7 DEF Scan, TypeOK
<1>5. ASSUME NEW p \in Pid, ScanSkips(p) PROVE TypeOK' /\ LastShown'
  <2>1. UNCHANGED procVars /\ lastIo' = lastIo /\ ~Reuses(Target)
    BY <1>0, <1>5 DEF ScanSkips, historyVars, procVars, Reuses
  <2>2. ProcTypeOK' /\ LastShown' BY <1>0, <1>1, <2>1, ProcStep, LastStep
  <2>3. cpuDelta' \in [Pid -> Nat] BY <1>1, <1>5 DEF ScanSkips
  <2> QED BY <1>1, <1>5, <2>2, <2>3 DEF ScanSkips, historyVars, TypeOK
<1>6. CASE ScanEnds
  <2>1. UNCHANGED procVars /\ lastIo' = lastIo /\ ~Reuses(Target)
    BY <1>0, <1>6 DEF ScanEnds, historyVars, procVars, Reuses
  <2>2. ProcTypeOK' /\ LastShown' BY <1>0, <1>1, <2>1, ProcStep, LastStep
  <2> QED BY <1>1, <1>6, <2>2 DEF ScanEnds, historyVars, TypeOK
<1>7. CASE ReadIO
  <2>1. ProcTypeOK' BY <1>0, <1>7, ProcStep DEF ReadIO
  <2>2. io' = io /\ io[Target] \in Nat BY <1>0, <1>1, <1>7 DEF ReadIO, procVars
  <2>3. CASE Target \notin alive
    <3>1. ioDelta' = 0 /\ moved' = None /\ hist' = hist /\ lastIo' = lastIo
      BY <1>7, <2>3 DEF ReadIO
    <3>2. LastShown' BY <2>2, <3>1 DEF LastShown
    <3> QED BY <1>1, <1>7, <2>1, <3>1, <3>2 DEF ReadIO, TypeOK
  <2>4. CASE Target \in alive
    <3>1. lastIo' = io[Target] /\ moved' = IF lastIo = None THEN None ELSE io[Target] - lastIo
      BY <1>7, <2>4 DEF ReadIO
    <3>2. moved' \in Nat \cup {None}
      <4>1. ASSUME lastIo # None PROVE io[Target] - lastIo \in Nat
        BY <1>1, <2>2, <4>1 DEF LastShown
      <4> QED BY <3>1, <4>1
    <3>3. LastShown' BY <2>2, <3>1 DEF LastShown
    <3>4. hist[Target] = None \/ hist[Target] \in Entry BY <1>0, <1>1
    <3>5. hist' \in [Pid -> Entry \cup {None}]
      <4> DEFINE e == IF hist[Target] = None
                      THEN [ticks |-> 0, io |-> io[Target], at |-> LongAgo]
                      ELSE [ticks |-> hist[Target].ticks, io |-> io[Target],
                            at |-> hist[Target].at]
      <4>1. hist' = [hist EXCEPT ![Target] = e] BY <1>0, <1>1, <1>7, <2>4 DEF ReadIO
      <4>2. LongAgo \in LongAgo..MaxTime BY <1>0 DEF LongAgo
      <4>3. e \in Entry BY <2>2, <3>4, <4>2 DEF Entry
      <4> HIDE DEF e
      <4> QED BY <1>1, <4>1, <4>3
    <3>6. ioDelta' \in Nat
      <4>1. hist[Target] # None => hist[Target].io \in Nat BY <3>4 DEF Entry
      <4>2. ioDelta' = IF Apart(Target) /\ io[Target] >= hist[Target].io
                       THEN io[Target] - hist[Target].io ELSE 0
        BY <1>7, <2>4 DEF ReadIO
      <4> QED BY <2>2, <4>1, <4>2 DEF Apart
    <3> QED BY <1>1, <1>7, <2>1, <2>2, <3>1, <3>2, <3>3, <3>5, <3>6 DEF ReadIO, TypeOK
  <2> QED BY <2>3, <2>4
<1>8. CASE Environment
  <2>1. EnvStep BY <1>8 DEF Environment, EnvStep
  <2>2. ProcTypeOK' BY <1>0, <2>1, ProcStep
  <2>3. UNCHANGED <<engineVars, usedThen, moved>> BY <1>8 DEF Environment, historyVars
  <2>4. used' \in [Pid -> Nat]
    <3>1. ASSUME NEW p \in Pid, Runs(p), used' = [used EXCEPT ![p] = @ + (cpu'[p] - cpu[p])]
          PROVE used' \in [Pid -> Nat]
      <4>1. cpu'[p] - cpu[p] \in {0, 1} BY <1>1, <3>1 DEF Runs
      <4> QED BY <1>1, <3>1, <4>1
    <3>2. CASE used' = used BY <1>1, <3>2
    <3> QED BY <1>8, <3>1, <3>2 DEF Environment, historyVars
  <2>5. lastIo' = lastIo \/ lastIo' = None BY <1>8 DEF Environment, historyVars
  <2>6. Reuses(Target) => lastIo' = None
    <3>1. ASSUME Reuses(Target) PROVE Target \in alive' /\ Target \notin alive BY <3>1 DEF Reuses
    <3>2. ASSUME NEW p \in Pid, Runs(p) \/ Exits(p) PROVE Target \in alive' => Target \in alive
      BY <3>2 DEF Runs, Exits
    <3>3. CASE Passes BY <3>1, <3>3 DEF Passes
    <3>4. ASSUME NEW p \in Pid, Reuses(p), Reuses(Target) PROVE p = Target
      BY <1>1, <3>4 DEF Reuses
    <3> QED BY <1>8, <3>1, <3>2, <3>3, <3>4 DEF Environment
  <2>7. LastShown' BY <1>0, <1>1, <2>1, <2>5, <2>6, LastStep
  <2> QED BY <1>1, <2>2, <2>3, <2>4, <2>5, <2>7 DEF engineVars, TypeOK
<1>9. CASE UNCHANGED vars
  <2>1. UNCHANGED procVars /\ lastIo' = lastIo /\ ~Reuses(Target)
    BY <1>0, <1>9 DEF vars, historyVars, procVars, Reuses
  <2>2. ProcTypeOK' /\ LastShown' BY <1>0, <1>1, <2>1, ProcStep, LastStep
  <2> QED BY <1>1, <1>9, <2>2 DEF vars, engineVars, historyVars, TypeOK
<1> QED BY <1>3, <1>4, <1>5, <1>6, <1>7, <1>8, <1>9 DEF Next

\* A step of the agent.
LEMMA AgentTyped == ASSUME Agent!TypeOK, [Agent!Next]_(Agent!vars) PROVE Agent!TypeOK'
<1>0. ProcTypeOK /\ MaxTime \in Nat /\ Modulus \in Nat \ {0}
  BY ProcBounds, ModulusHolds DEF Agent!TypeOK, Agent!ProcTypeOK, ProcTypeOK
<1>1. /\ alive \in SUBSET Pid /\ now \in 0..MaxTime /\ cpu \in [Pid -> Nat] /\ io \in [Pid -> Nat]
      /\ pidsLeft \in SUBSET Pid /\ building \in BOOLEAN /\ sampledAt \in 0..MaxTime
      /\ cpuPrev \in [Pid -> Agent!Sampled \cup {None}]
      /\ ioPrev \in [Pid -> Agent!Sampled \cup {None}]
      /\ rowCpu \in [Pid -> Nat] /\ rowIo \in [Pid -> Nat]
      /\ cpuUsed \in [Pid -> Nat] /\ ioUsed \in [Pid -> Nat]
      /\ cpuThen \in [Pid -> Nat] /\ ioThen \in [Pid -> Nat]
  BY DEF Agent!TypeOK, Agent!ProcTypeOK
<1>2. ASSUME NEW x \in Nat, NEW prev \in Agent!Sampled \cup {None}
      PROVE Agent!Delta(x, prev) \in Nat /\ Agent!Entry(x) \in Agent!Sampled
  <2>1. Agent!Entry(x) \in Agent!Sampled BY <1>1 DEF Agent!Entry, Agent!Sampled
  <2>2. prev # None => x - prev.count \in Int BY DEF Agent!Sampled
  <2>3. prev # None => (x - prev.count) % Modulus \in Nat BY <1>0, <2>2, Wrapped
  <2> QED BY <2>1, <2>3 DEF Agent!Delta, Agent!Minus
<1>3. ASSUME ProcTypeOK' PROVE Agent!ProcTypeOK' BY <1>3 DEF ProcTypeOK, Agent!ProcTypeOK
<1>4. CASE Agent!Begin
  <2>1. ProcTypeOK' BY <1>0, <1>4, ProcStep DEF Agent!Begin, Agent!procVars, procVars
  <2> QED BY <1>1, <1>3, <1>4, <2>1 DEF Agent!Begin, Agent!Zero, Agent!TypeOK
<1>5. CASE Agent!Finish
  <2>1. ProcTypeOK' BY <1>0, <1>5, ProcStep DEF Agent!Finish, Agent!procVars, procVars
  <2> QED BY <1>1, <1>3, <1>5, <2>1 DEF Agent!Finish, Agent!historyVars, Agent!TypeOK
<1>6. ASSUME NEW p \in Pid, Agent!ReadPid(p) PROVE Agent!TypeOK'
  <2>1. ProcTypeOK' BY <1>0, <1>6, ProcStep DEF Agent!ReadPid, Agent!procVars, procVars
  <2>2. PICK x : x = Agent!InfoOf(p) OBVIOUS
  <2>3. x \in Nat BY <1>1, <2>2 DEF Agent!InfoOf
  <2>4. PICK d \in Nat : d = Agent!Delta(x, cpuPrev[p]) BY <1>1, <1>2, <2>3
  <2>5. PICK e \in Agent!Sampled : e = Agent!Entry(x) BY <1>1, <1>2, <2>3
  <2>6. rowCpu' = [rowCpu EXCEPT ![p] = d] /\ cpuPrev' = [cpuPrev EXCEPT ![p] = e]
    BY <1>6, <2>2, <2>4, <2>5 DEF Agent!ReadPid
  <2>7. /\ rowCpu' \in [Pid -> Nat] /\ cpuPrev' \in [Pid -> Agent!Sampled \cup {None}]
        /\ cpuUsed' \in [Pid -> Nat] /\ cpuThen' \in [Pid -> Nat]
    BY <1>1, <1>6, <2>6 DEF Agent!ReadPid
  <2>8. /\ rowIo' \in [Pid -> Nat] /\ ioPrev' \in [Pid -> Agent!Sampled \cup {None}]
        /\ ioUsed' \in [Pid -> Nat] /\ ioThen' \in [Pid -> Nat]
    <3>1. PICK y \in Nat : y = io[p] BY <1>1
    <3>2. PICK f \in Nat : f = Agent!Delta(y, ioPrev[p]) BY <1>1, <1>2
    <3>3. PICK g \in Agent!Sampled : g = Agent!Entry(y) BY <1>1, <1>2
    <3>4. CASE UNCHANGED <<rowIo, ioPrev, ioUsed, ioThen>> BY <1>1, <3>4
    <3>5. CASE /\ rowIo' = [rowIo EXCEPT ![p] = f] /\ ioPrev' = [ioPrev EXCEPT ![p] = g]
               /\ ioUsed' = [ioUsed EXCEPT ![p] = 0] /\ ioThen' = [ioThen EXCEPT ![p] = ioUsed[p]]
      BY <1>1, <3>5
    <3> QED BY <1>6, <3>1, <3>2, <3>3, <3>4, <3>5 DEF Agent!ReadPid
  <2> QED BY <1>1, <1>3, <1>6, <2>1, <2>7, <2>8 DEF Agent!ReadPid, Agent!TypeOK
<1>7. CASE Agent!Environment
  <2>1. EnvStep
    BY <1>7 DEF Agent!Environment, EnvStep, Agent!Runs, Agent!Exits, Agent!Reuses, Agent!Passes,
                Runs, Exits, Reuses, Passes
  <2>2. ProcTypeOK' BY <1>0, <2>1, ProcStep
  <2>3. UNCHANGED <<Agent!agentVars, cpuThen, ioThen>> BY <1>7 DEF Agent!Environment
  <2>4. cpuUsed' \in [Pid -> Nat] /\ ioUsed' \in [Pid -> Nat]
    <3>1. ASSUME NEW p \in Pid, Agent!Runs(p),
                 cpuUsed' = [cpuUsed EXCEPT ![p] = @ + (cpu'[p] - cpu[p])],
                 ioUsed' = [ioUsed EXCEPT ![p] = @ + (io'[p] - io[p])]
          PROVE cpuUsed' \in [Pid -> Nat] /\ ioUsed' \in [Pid -> Nat]
      <4>1. cpu'[p] - cpu[p] \in {0, 1} /\ io'[p] - io[p] \in {0, 1}
        BY <1>1, <3>1 DEF Agent!Runs
      <4> QED BY <1>1, <3>1, <4>1
    <3>2. CASE UNCHANGED <<cpuUsed, ioUsed>> BY <1>1, <3>2
    <3> QED BY <1>7, <3>1, <3>2 DEF Agent!Environment
  <2> QED BY <1>1, <1>3, <2>2, <2>3, <2>4 DEF Agent!agentVars, Agent!TypeOK
<1>8. CASE UNCHANGED Agent!vars
  <2>1. UNCHANGED <<Agent!procVars, Agent!agentVars, Agent!historyVars>>
    BY <1>8 DEF Agent!vars
  <2>2. ProcTypeOK' BY <1>0, <2>1, ProcStep DEF Agent!procVars, procVars
  <2> QED BY <1>1, <1>3, <2>1, <2>2 DEF Agent!agentVars, Agent!historyVars, Agent!TypeOK
<1> QED BY <1>4, <1>5, <1>6, <1>7, <1>8 DEF Agent!Next

\* The variables of both collectors have their types, whichever of the two main started:
\* no counter that a row, a rate or an entry is made of is ever negative.
THEOREM SamplingTypeCorrect == SamplingSpec => []SamplingTypeOK
<1>1. ASSUME SamplingInit PROVE SamplingTypes
  <2>1. ProcTypeOK BY <1>1, ProcBounds DEF SamplingInit, Init, ProcInit, ProcTypeOK
  <2>2. 0 \in 0..MaxTime BY ProcBounds
  <2>3. TypeOK BY <1>1, <2>1, <2>2 DEF SamplingInit, Init, TypeOK
  <2>4. Agent!TypeOK
    <3>1. Agent!ProcTypeOK BY <2>1 DEF ProcTypeOK, Agent!ProcTypeOK
    <3>2. Agent!Zero \in [Pid -> Nat] BY DEF Agent!Zero
    <3> QED BY <1>1, <2>2, <3>1, <3>2 DEF SamplingInit, Agent!Init, Agent!TypeOK
  <2>5. lastIo = None /\ collector \in {"agent", "engine"} BY <1>1 DEF SamplingInit, Init
  <2> QED BY <2>3, <2>4, <2>5 DEF SamplingTypes, LastShown
<1>2. ASSUME SamplingTypes, [SamplingNext]_allVars PROVE SamplingTypes'
  <2>0. collector' = collector BY <1>2 DEF SamplingNext, allVars
  <2>1. ASSUME collector = "engine", Next, UNCHANGED <<agentVars, agentHistory>>
        PROVE SamplingTypes'
    <3>1. TypeOK' /\ LastShown' BY <1>2, <2>1, EngineTyped DEF SamplingTypes
    <3>2. Agent!TypeOK'
      BY <1>2, <2>1, <3>1
      DEF SamplingTypes, Agent!TypeOK, TypeOK, ProcTypeOK, Agent!ProcTypeOK, Agent!Sampled,
          agentVars, agentHistory
    <3> QED BY <2>0, <2>1, <3>1, <3>2 DEF SamplingTypes
  <2>2. ASSUME collector = "agent", Agent!Next, UNCHANGED <<engineVars, historyVars>>
        PROVE SamplingTypes'
    <3>1. Agent!TypeOK' BY <1>2, <2>2, AgentTyped DEF SamplingTypes
    <3>2. TypeOK'
      BY <1>2, <2>2, <3>1
      DEF SamplingTypes, TypeOK, Agent!TypeOK, ProcTypeOK, Agent!ProcTypeOK, Entry, LongAgo,
          engineVars, historyVars
    <3>3. lastIo' = None BY <1>2, <2>2 DEF SamplingTypes, historyVars
    <3>4. LastShown' BY <3>3 DEF LastShown
    <3> QED BY <1>2, <2>0, <3>1, <3>2, <3>3, <3>4 DEF SamplingTypes
  <2>3. CASE UNCHANGED allVars
    <3>1. TypeOK' /\ LastShown' BY <1>2, <2>3, EngineTyped DEF SamplingTypes, allVars
    <3>2. Agent!TypeOK'
      BY <1>2, <2>3, <3>1
      DEF SamplingTypes, Agent!TypeOK, TypeOK, ProcTypeOK, Agent!ProcTypeOK, Agent!Sampled,
          allVars, agentVars, agentHistory
    <3>3. lastIo' = lastIo BY <2>3 DEF allVars, vars, historyVars
    <3> QED BY <1>2, <2>0, <3>1, <3>2, <3>3 DEF SamplingTypes
  <2> QED BY <1>2, <2>1, <2>2, <2>3 DEF SamplingNext
<1>3. SamplingTypes => SamplingTypeOK BY DEF SamplingTypes, SamplingTypeOK
<1> QED BY <1>1, <1>2, <1>3, PTL DEF SamplingSpec
=============================================================================
