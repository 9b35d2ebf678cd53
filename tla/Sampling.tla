------------------------------ MODULE Sampling ------------------------------
(***************************************************************************)
(* The two collectors that sample /proc.  main starts one of them: the     *)
(* eBPF agent, or the /proc engine where eBPF cannot be used.              *)
(***************************************************************************)
EXTENDS SampleEngine

VARIABLES
    collector,   \* the collector that main started
    pidsLeft, building, sampledAt, cpuPrev, ioPrev, rowCpu, rowIo,  \* of the agent
    cpuUsed, ioUsed, cpuThen, ioThen                               \* its history

Agent == INSTANCE SampleAgent WITH
    todo <- pidsLeft, at <- sampledAt, cpuDelta <- rowCpu, ioDelta <- rowIo

agentVars == <<pidsLeft, building, sampledAt, cpuPrev, ioPrev, rowCpu, rowIo>>
agentHistory == <<cpuUsed, ioUsed, cpuThen, ioThen>>
allVars == <<vars, agentVars, agentHistory, collector>>

SamplingInit == /\ collector \in {"agent", "engine"}
                /\ Init /\ Agent!Init

SamplingNext ==
    /\ UNCHANGED collector
    /\ \/ collector = "engine" /\ Next /\ UNCHANGED <<agentVars, agentHistory>>
       \/ collector = "agent" /\ Agent!Next /\ UNCHANGED <<engineVars, historyVars>>

SamplingSpec == SamplingInit /\ [][SamplingNext]_allVars

-----------------------------------------------------------------------------
(* Properties                                                              *)

\* The types of the variables of both collectors.
SamplingTypeOK == TypeOK /\ Agent!TypeOK

\* Agent.buildSnapshot: see IoNeverInvented of SampleAgent.
AgentIoNeverInvented == Agent!IoNeverInvented

\* Agent.buildSnapshot: see CpuNeverInvented of SampleAgent.
AgentCpuNeverInvented == Agent!CpuNeverInvented
=============================================================================
