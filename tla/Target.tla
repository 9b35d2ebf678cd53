------------------------------- MODULE Target -------------------------------
(***************************************************************************)
(* The target of a running collector: config.Config keeps a pid and a comm *)
(* under its lock, POST /api/target (handleTarget) reads and sets them, and*)
(* the /proc engine reads them at the start of collect and, when it matched*)
(* a process by comm, sets them again after the scan.  Processes start and *)
(* exit meanwhile.                                                         *)
(*                                                                         *)
(* Names abstract comm and cmdline: a process matches a comm if its name is*)
(* that comm.  The order in which /proc is listed is arbitrary.            *)
(***************************************************************************)
EXTENDS Naturals, FiniteSets

CONSTANTS
    Pid, Name,
    Handler,       \* requests that may be under way at once
    None,          \* no process, or a field that the request leaves out
    Empty,         \* the comm ""
    BadPid, BadComm,  \* values that SetTarget refuses
    Default,       \* what collect takes for an empty comm
    MaxPosts, MaxStarts  \* bounds on requests and on new processes

ASSUME ZeroIsNoPid == {0, None, BadPid} \cap Pid = {} /\ 0 \notin {None, BadPid}
ASSUME NamesAreNames == Default \in Name /\ {None, Empty, BadComm} \cap Name = {}
ASSUME SentinelsDiffer == Cardinality({None, Empty, BadComm}) = 3 /\ None # BadPid
ASSUME BoundsAreNat == MaxPosts \in Nat /\ MaxStarts \in Nat

VARIABLES
    procs,           \* the process table: the name of a pid, or None
    pid, comm,       \* Config.targetPid and targetComm
    wanted,          \* per handler: the target it is about to set, or None
    engine,          \* where collect is
    target,          \* collect's targetPid and targetComm
    row,             \* the name of the process measured, None for a baseline row
    published,       \* target and row of the last snapshot
    asked,           \* history: the target as the last POST left it
    installed,       \* history: targets of the filter during this collect
    matched,         \* history: processes seen under a name
    posts, starts    \* bounds: requests and processes so far

configVars == <<pid, comm>>
engineVars == <<engine, target, row, published>>
vars == <<procs, configVars, wanted, engineVars, asked, installed, matched, posts, starts>>

Wanted == (Pid \cup {0, BadPid}) \X (Name \cup {Empty, BadComm})

\* The comm that collect takes a configured one for.
Shown(c) == IF c = Empty THEN Default ELSE c

Init == /\ procs \in [Pid -> Name \cup {None}]
        /\ pid \in Pid \cup {0} /\ comm \in Name \cup {Empty}
        /\ wanted = [h \in Handler |-> None]
        /\ engine = "tick" /\ target = <<0, Default>> /\ row = None
        /\ published = [target |-> None, row |-> None]
        /\ asked = <<pid, comm>> /\ installed = {}
        /\ matched = {<<p, procs[p]>> : p \in Pid}
        /\ posts = 0 /\ starts = 0

-----------------------------------------------------------------------------
(* config.SetTarget and the handler                                        *)

Accepted(p, c) == p # BadPid /\ c # BadComm

\* An accepted target is installed; an empty comm keeps the one before.
SetTarget(p, c) == /\ pid' = p
                   /\ comm' = IF c = Empty THEN comm ELSE c
                   /\ installed' = IF engine = "tick" THEN installed
                                   ELSE installed \cup {<<p, Shown(comm')>>}

\* A request for pid p and comm c, of which it holds at least one, over the
\* target as it is now; a comm alone means match by comm.
ReadTarget(h, p, c) ==
    /\ wanted[h] = None /\ posts < MaxPosts
    /\ p # None \/ c # None
    /\ wanted' = [wanted EXCEPT ![h] = <<IF p # None THEN p ELSE 0,
                                        IF c # None THEN c ELSE comm>>]
    /\ posts' = posts + 1
    /\ UNCHANGED <<procs, configVars, engineVars, asked, installed, matched, starts>>

Install(h) == /\ wanted[h] # None
              /\ wanted' = [wanted EXCEPT ![h] = None]
              /\ IF Accepted(wanted[h][1], wanted[h][2])
                 THEN /\ SetTarget(wanted[h][1], wanted[h][2])
                      /\ asked' = <<pid', comm'>>
                 ELSE UNCHANGED <<configVars, installed, asked>>
              /\ UNCHANGED <<procs, engineVars, matched, posts, starts>>

-----------------------------------------------------------------------------
(* realengine.collect                                                      *)

EngineReads == /\ engine = "tick"
               /\ engine' = "scan" /\ target' = <<pid, Shown(comm)>>
               /\ installed' = {target'}
               /\ UNCHANGED <<procs, configVars, wanted, row, published>>
               /\ UNCHANGED <<asked, matched, posts, starts>>

Matching(c) == {p \in Pid : procs[p] = c}

\* Faulty variant: the scan takes the comm from the configuration, not the
\* one read with the pid.
EngineScansTorn ==
    /\ engine = "scan"
    /\ IF target[1] = 0 /\ Matching(Shown(comm)) # {}
       THEN /\ \E p \in Matching(Shown(comm)) :
                  target' = <<p, Shown(comm)>> /\ row' = procs[p]
            /\ engine' = "pin"
       ELSE /\ target' = <<target[1], Shown(comm)>>
            /\ row' = IF target[1] = 0 THEN None ELSE procs[target[1]]
            /\ engine' = "publish"
    /\ UNCHANGED <<procs, configVars, wanted, published>>
    /\ UNCHANGED <<asked, installed, matched, posts, starts>>

\* Faulty variant: any process will do.
EngineScansAny ==
    /\ engine = "scan"
    /\ IF target[1] = 0
       THEN /\ \E p \in Pid : target' = <<p, target[2]>> /\ row' = procs[p]
            /\ engine' = "pin"
       ELSE /\ row' = procs[target[1]] /\ UNCHANGED target
            /\ engine' = "publish"
    /\ UNCHANGED <<procs, configVars, wanted, published>>
    /\ UNCHANGED <<asked, installed, matched, posts, starts>>

\* Faulty variant: the match is used, and not installed.
EngineScansOnly ==
    /\ engine = "scan" /\ engine' = "publish"
    /\ IF target[1] = 0 /\ Matching(target[2]) # {}
       THEN \E p \in Matching(target[2]) : target' = <<p, target[2]>> /\ row' = procs[p]
       ELSE /\ row' = IF target[1] = 0 THEN None ELSE procs[target[1]]
            /\ UNCHANGED target
    /\ UNCHANGED <<procs, configVars, wanted, published>>
    /\ UNCHANGED <<asked, installed, matched, posts, starts>>

\* A target by comm becomes the first match, which is measured; a target by
\* pid is measured whatever it is called.
EngineScans ==
    /\ engine = "scan"
    /\ IF target[1] = 0 /\ Matching(target[2]) # {}
       THEN /\ \E p \in Matching(target[2]) : target' = <<p, target[2]>> /\ row' = procs[p]
            /\ engine' = "pin"
       ELSE /\ row' = IF target[1] = 0 THEN None ELSE procs[target[1]]
            /\ engine' = "publish"
            /\ UNCHANGED target
    /\ UNCHANGED <<procs, configVars, wanted, published>>
    /\ UNCHANGED <<asked, installed, matched, posts, starts>>

EnginePins == /\ engine = "pin" /\ engine' = "publish"
              /\ SetTarget(target[1], target[2])
              /\ UNCHANGED <<procs, wanted, target, row, published>>
              /\ UNCHANGED <<asked, matched, posts, starts>>

\* Pipeline takes the snapshot from here.
EnginePublishes == /\ engine = "publish" /\ engine' = "tick"
                   /\ published' = [target |-> target, row |-> row]
                   /\ UNCHANGED <<procs, configVars, wanted, target, row>>
                   /\ UNCHANGED <<asked, installed, matched, posts, starts>>

Engine == EngineReads \/ EngineScans \/ EnginePins \/ EnginePublishes

-----------------------------------------------------------------------------
(* The system observed                                                     *)

ProcessStarts(p, n) == /\ procs[p] = None /\ starts < MaxStarts
                       /\ procs' = [procs EXCEPT ![p] = n]
                       /\ matched' = matched \cup {<<p, n>>}
                       /\ starts' = starts + 1
                       /\ UNCHANGED <<configVars, wanted, engineVars>>
                       /\ UNCHANGED <<asked, installed, posts>>

ProcessExits(p) == /\ procs[p] # None
                   /\ procs' = [procs EXCEPT ![p] = None]
                   /\ UNCHANGED <<configVars, wanted, engineVars>>
                   /\ UNCHANGED <<asked, installed, matched, posts, starts>>

Next == \/ \E h \in Handler : Install(h)
        \/ \E h \in Handler, p \in Pid \cup {0, BadPid, None}, c \in Name \cup {Empty, BadComm, None} :
              ReadTarget(h, p, c)
        \/ Engine
        \/ \E p \in Pid : ProcessExits(p) \/ \E n \in Name : ProcessStarts(p, n)

Spec == Init /\ [][Next]_vars

\* The ticker of the engine goes on, and a handler that has its request ends.
Fairness == WF_vars(Engine) /\ \A h \in Handler : WF_vars(Install(h))
FairSpec == Spec /\ Fairness

-----------------------------------------------------------------------------
(* Properties                                                              *)

Filter == (Pid \cup {0}) \X (Name \cup {Empty})

\* The types of the variables.
TypeOK == /\ procs \in [Pid -> Name \cup {None}]
          /\ <<pid, comm>> \in Filter
          /\ wanted \in [Handler -> Wanted \cup {None}]
          /\ engine \in {"tick", "scan", "pin", "publish"}
          /\ target \in (Pid \cup {0}) \X Name /\ row \in Name \cup {None}
          /\ published \in [target : ((Pid \cup {0}) \X Name) \cup {None}, row : Name \cup {None}]
          /\ asked \in Filter /\ installed \subseteq (Pid \cup {0}) \X Name
          /\ matched \subseteq Pid \X (Name \cup {None})
          /\ posts \in 0..MaxPosts /\ starts \in 0..MaxStarts

\* A snapshot names a target that the filter really was while it was collected,
\* never the pid of one request with the comm of another.
PublishedWasInstalled ==
    engine = "tick" /\ published.target # None => published.target \in installed

\* The filter is what the last POST made it, or a process that the engine saw
\* running under the name it looked for.
FilterIsJustified == <<pid, comm>> = asked \/ <<pid, comm>> \in matched

\* When requests and processes come to rest, the snapshots name the target that
\* GET /api/meta and the metrics report.
Settles == <>[](engine = "tick" => published.target = <<pid, Shown(comm)>>)

\* proto/schema.md: POST /api/target updates the filter.  Once it did, the filter
\* is that target, but for the pid the engine found for its comm.
PostSticks == Shown(comm) = Shown(asked[2]) /\ (asked[1] # 0 => pid = asked[1])

\* config.go: pid 0 matches by comm.  While a target was asked for by comm and
\* a process of that name runs, snapshots keep measuring one.
FollowsComm ==
    \A n \in Name : <>[](asked = <<0, n>> /\ Matching(n) # {}) => []<>(published.row = n)
=============================================================================
