---------------------------- MODULE ServerProofs ----------------------------
(***************************************************************************)
(* Proofs about the state that the server keeps between requests: the      *)
(* target filter (Target), the buckets of the rate limiter (RateLimiter)   *)
(* and the tables of the store (Store).  Each part is about one of the     *)
(* three modules, whose variables are disjoint.                            *)
(***************************************************************************)
EXTENDS Target, RateLimiter, Store, FiniteSetTheorems, FunctionTheorems, TLAPS

-----------------------------------------------------------------------------
(* The target filter.  The inductive invariant relates the engine's copy   *)
(* of the target to what the filter was and to the processes it saw.       *)

TargetStep == [Next]_vars

\* A configured comm that is shown is a name, and a name is shown as it is.
LEMMA ShownNames == /\ \A c \in Name \cup {Empty} : Shown(c) \in Name
                    /\ \A n \in Name : Shown(n) = n
BY NamesAreNames DEF Shown

\* SetTarget keeps the types of the filter.
LEMMA SetTargetTyped ==
    ASSUME TypeOK, NEW p, NEW c, Accepted(p, c), SetTarget(p, c),
           p \in Pid \cup {0, BadPid}, c \in Name \cup {Empty, BadComm}
    PROVE /\ <<pid', comm'>> \in Filter
          /\ installed' \subseteq (Pid \cup {0}) \X Name
<1>1. pid' = p /\ comm' = IF c = Empty THEN comm ELSE c BY DEF SetTarget
<1>2. p \in Pid \cup {0} /\ c \in Name \cup {Empty} BY DEF Accepted
<1>3. comm \in Name \cup {Empty} BY DEF TypeOK, Filter
<1>4. comm' \in Name \cup {Empty} BY <1>1, <1>2, <1>3
<1>5. Shown(comm') \in Name BY <1>4, ShownNames
<1>6. installed' \subseteq installed \cup {<<p, Shown(comm')>>} BY DEF SetTarget
<1>7. installed \subseteq (Pid \cup {0}) \X Name BY DEF TypeOK
<1> QED BY <1>1, <1>2, <1>4, <1>5, <1>6, <1>7 DEF Filter

\* What a handler asks for is of the right kind.
LEMMA WantedTyped ==
    ASSUME TypeOK, NEW h \in Handler, wanted[h] # None
    PROVE /\ wanted[h][1] \in Pid \cup {0, BadPid}
          /\ wanted[h][2] \in Name \cup {Empty, BadComm}
<1>1. wanted[h] \in Wanted BY DEF TypeOK
<1> QED BY <1>1 DEF Wanted

\* The types of the variables are preserved by every step.
LEMMA TargetTypeStep == TypeOK /\ TargetStep => TypeOK'
<1> SUFFICES ASSUME TypeOK, TargetStep PROVE TypeOK' OBVIOUS
<1>1. ASSUME NEW h \in Handler, NEW p \in Pid \cup {0, BadPid, None},
             NEW c \in Name \cup {Empty, BadComm, None}, ReadTarget(h, p, c)
      PROVE TypeOK'
  <2> DEFINE w == <<IF p # None THEN p ELSE 0, IF c # None THEN c ELSE comm>>
  <2>1. comm \in Name \cup {Empty} BY DEF TypeOK, Filter
  <2>2. w \in Wanted BY <2>1 DEF Wanted
  <2>3. wanted' = [wanted EXCEPT ![h] = w] BY <1>1 DEF ReadTarget
  <2>4. wanted \in [Handler -> Wanted \cup {None}] BY DEF TypeOK
  <2> HIDE DEF w
  <2>5. wanted' \in [Handler -> Wanted \cup {None}] BY <2>2, <2>3, <2>4
  <2>6. posts' \in 0..MaxPosts
    <3>1. posts' = posts + 1 /\ posts < MaxPosts BY <1>1 DEF ReadTarget
    <3>2. posts \in 0..MaxPosts BY DEF TypeOK
    <3> QED BY <3>1, <3>2, BoundsAreNat
  <2> QED BY <1>1, <2>5, <2>6 DEF ReadTarget, TypeOK, configVars, engineVars
<1>2. ASSUME NEW h \in Handler, Install(h) PROVE TypeOK'
  <2>1. wanted[h] # None /\ wanted' = [wanted EXCEPT ![h] = None] BY <1>2 DEF Install
  <2>2. wanted' \in [Handler -> Wanted \cup {None}] BY <2>1 DEF TypeOK
  <2>6. /\ <<pid', comm'>> \in Filter /\ asked' \in Filter
        /\ installed' \subseteq (Pid \cup {0}) \X Name
    <3>1. CASE Accepted(wanted[h][1], wanted[h][2])
      <4>1. SetTarget(wanted[h][1], wanted[h][2]) /\ asked' = <<pid', comm'>>
        BY <1>2, <3>1 DEF Install
      <4> QED BY <2>1, <3>1, <4>1, WantedTyped, SetTargetTyped
    <3>2. CASE ~Accepted(wanted[h][1], wanted[h][2])
      <4>1. UNCHANGED <<pid, comm, installed, asked>> BY <1>2, <3>2 DEF Install, configVars
      <4> QED BY <4>1 DEF TypeOK
    <3> QED BY <3>1, <3>2
  <2> QED BY <1>2, <2>2, <2>6 DEF Install, TypeOK, engineVars
<1>3. CASE EngineReads
  <2>1. target' = <<pid, Shown(comm)>> /\ installed' = {target'} /\ engine' = "scan"
    BY <1>3 DEF EngineReads
  <2>2. target' \in (Pid \cup {0}) \X Name BY <2>1, ShownNames DEF TypeOK, Filter
  <2> QED BY <1>3, <2>1, <2>2 DEF EngineReads, TypeOK, configVars
<1>4. CASE EngineScans
  <2>1. target \in (Pid \cup {0}) \X Name /\ procs \in [Pid -> Name \cup {None}] BY DEF TypeOK
  <2>2. /\ target' \in (Pid \cup {0}) \X Name /\ row' \in Name \cup {None}
        /\ engine' \in {"pin", "publish"}
    <3>1. CASE target[1] = 0 /\ Matching(target[2]) # {}
      <4>1. PICK p \in Matching(target[2]) : target' = <<p, target[2]>> /\ row' = procs[p]
        BY <1>4, <3>1 DEF EngineScans
      <4>2. engine' = "pin" BY <1>4, <3>1 DEF EngineScans
      <4> QED BY <2>1, <4>1, <4>2 DEF Matching
    <3>2. CASE ~(target[1] = 0 /\ Matching(target[2]) # {})
      <4>1. /\ target' = target /\ engine' = "publish"
            /\ row' = IF target[1] = 0 THEN None ELSE procs[target[1]]
        BY <1>4, <3>2 DEF EngineScans
      <4> QED BY <2>1, <4>1
    <3> QED BY <3>1, <3>2
  <2> QED BY <1>4, <2>2 DEF EngineScans, TypeOK, configVars
<1>5. CASE EnginePins
  <2>1. SetTarget(target[1], target[2]) BY <1>5 DEF EnginePins
  <2>2. target[1] \in Pid \cup {0} /\ target[2] \in Name BY DEF TypeOK
  <2>3. Accepted(target[1], target[2])
    BY <2>2, ZeroIsNoPid, NamesAreNames DEF Accepted
  <2>4. <<pid', comm'>> \in Filter /\ installed' \subseteq (Pid \cup {0}) \X Name
    BY <2>1, <2>2, <2>3, SetTargetTyped
  <2> QED BY <1>5, <2>4 DEF EnginePins, TypeOK
<1>6. CASE EnginePublishes
  <2>1. published' \in [target : ((Pid \cup {0}) \X Name) \cup {None}, row : Name \cup {None}]
    BY <1>6 DEF EnginePublishes, TypeOK
  <2> QED BY <1>6, <2>1 DEF EnginePublishes, TypeOK, configVars
<1>7. ASSUME NEW p \in Pid, ProcessExits(p) PROVE TypeOK'
  <2>1. procs' \in [Pid -> Name \cup {None}] BY <1>7 DEF ProcessExits, TypeOK
  <2> QED BY <1>7, <2>1 DEF ProcessExits, TypeOK, configVars, engineVars
<1>8. ASSUME NEW p \in Pid, NEW n \in Name, ProcessStarts(p, n) PROVE TypeOK'
  <2>1. procs' \in [Pid -> Name \cup {None}] BY <1>8 DEF ProcessStarts, TypeOK
  <2>2. matched' \subseteq Pid \X (Name \cup {None}) BY <1>8 DEF ProcessStarts, TypeOK
  <2>3. starts' \in 0..MaxStarts
    <3>1. starts' = starts + 1 /\ starts < MaxStarts BY <1>8 DEF ProcessStarts
    <3>2. starts \in 0..MaxStarts BY DEF TypeOK
    <3> QED BY <3>1, <3>2, BoundsAreNat
  <2> QED BY <1>8, <2>1, <2>2, <2>3 DEF ProcessStarts, TypeOK, configVars, engineVars
<1>9. CASE UNCHANGED vars
  BY <1>9 DEF vars, configVars, engineVars, TypeOK
<1> QED BY <1>1, <1>2, <1>3, <1>4, <1>5, <1>6, <1>7, <1>8, <1>9 DEF TargetStep, Next, Engine

\* Every variable has its type.
THEOREM TargetTypeCorrect == Spec => []TypeOK
<1>1. Init => TypeOK
  <2> SUFFICES ASSUME Init PROVE TypeOK OBVIOUS
  <2>2. <<pid, comm>> \in Filter BY DEF Init, Filter
  <2>3. <<0, Default>> \in (Pid \cup {0}) \X Name BY NamesAreNames
  <2>4. matched \subseteq Pid \X (Name \cup {None}) BY DEF Init
  <2> QED BY <2>2, <2>3, <2>4, BoundsAreNat DEF Init, TypeOK
<1> QED BY <1>1, TargetTypeStep, PTL DEF Spec, TargetStep

-----------------------------------------------------------------------------
\* Where the engine's copy of the target stands towards the filter's history:
\* it was the filter, or, before it is installed, it is a match for one.
CopyInv == /\ engine = "scan" \/ engine = "publish" => target \in installed
           /\ engine = "pin" => target \in matched
           /\ engine = "tick" /\ published.target # None => published.target \in installed

\* What was seen running includes what runs, and justifies the filter.
SeenInv == /\ \A p \in Pid : procs[p] # None => <<p, procs[p]>> \in matched
           /\ <<pid, comm>> = asked \/ <<pid, comm>> \in matched

TargetInv == TypeOK /\ CopyInv /\ SeenInv

\* During a collect the history of the filter only grows.
LEMMA SetTargetKeeps ==
    ASSUME NEW p, NEW c, SetTarget(p, c)
    PROVE /\ installed \subseteq installed'
          /\ engine # "tick" => <<p, Shown(comm')>> \in installed'
          /\ engine = "tick" => installed' = installed
BY DEF SetTarget

\* A request that is installed becomes what was asked for.
LEMMA InstallKeeps ==
    ASSUME TargetInv, NEW h \in Handler, Install(h) PROVE CopyInv' /\ SeenInv'
<1>1. /\ installed \subseteq installed'
      /\ <<pid', comm'>> = asked' \/ (<<pid', comm'>> = <<pid, comm>> /\ asked' = asked)
  <2>1. CASE Accepted(wanted[h][1], wanted[h][2])
    <3>1. SetTarget(wanted[h][1], wanted[h][2]) /\ asked' = <<pid', comm'>>
      BY <2>1 DEF Install
    <3> QED BY <3>1, SetTargetKeeps
  <2>2. CASE ~Accepted(wanted[h][1], wanted[h][2])
    BY <2>2 DEF Install, configVars
  <2> QED BY <2>1, <2>2
<1>2. UNCHANGED <<engine, target, published, matched, procs>> BY DEF Install, engineVars
<1>3. CopyInv' BY <1>1, <1>2 DEF TargetInv, CopyInv
<1>4. SeenInv' BY <1>1, <1>2 DEF TargetInv, SeenInv
<1> QED BY <1>3, <1>4

\* A match becomes the copy only if it was seen.
LEMMA ScanKeeps == ASSUME TargetInv, EngineScans PROVE CopyInv' /\ SeenInv'
<1>1. /\ engine = "scan" /\ target \in installed
      /\ UNCHANGED <<procs, pid, comm, published, asked, installed, matched>>
  BY DEF EngineScans, TargetInv, CopyInv, configVars
<1>2. SeenInv' BY <1>1 DEF TargetInv, SeenInv
<1>3. CASE target[1] = 0 /\ Matching(target[2]) # {}
  <2>1. PICK p \in Matching(target[2]) : target' = <<p, target[2]>>
    BY <1>3 DEF EngineScans
  <2>2. engine' = "pin" BY <1>3 DEF EngineScans
  <2>3. p \in Pid /\ procs[p] = target[2] BY <2>1 DEF Matching
  <2>4. procs[p] # None BY <2>3, NamesAreNames DEF TargetInv, TypeOK
  <2>5. target' \in matched BY <2>1, <2>3, <2>4 DEF TargetInv, SeenInv
  <2> QED BY <1>1, <1>2, <2>2, <2>5 DEF CopyInv
<1>4. CASE ~(target[1] = 0 /\ Matching(target[2]) # {})
  <2>1. target' = target /\ engine' = "publish" BY <1>4 DEF EngineScans
  <2> QED BY <1>1, <1>2, <2>1 DEF CopyInv
<1> QED BY <1>3, <1>4

\* The match is installed as it is.
LEMMA PinKeeps == ASSUME TargetInv, EnginePins PROVE CopyInv' /\ SeenInv'
<1>1. /\ engine = "pin" /\ engine' = "publish" /\ target \in matched
      /\ SetTarget(target[1], target[2])
      /\ UNCHANGED <<procs, target, published, asked, matched>>
  BY DEF EnginePins, TargetInv, CopyInv
<1>2. target = <<target[1], target[2]>> /\ target[2] \in Name BY DEF TargetInv, TypeOK
<1>3. pid' = target[1] /\ comm' = target[2]
  BY <1>1, <1>2, NamesAreNames DEF SetTarget
<1>4. target \in installed'
  BY <1>1, <1>2, <1>3, ShownNames, SetTargetKeeps
<1>5. CopyInv' BY <1>1, <1>4 DEF CopyInv
<1>6. SeenInv' BY <1>1, <1>2, <1>3 DEF TargetInv, SeenInv
<1> QED BY <1>5, <1>6

\* The invariant holds in every state: the other steps leave the filter alone.
LEMMA TargetInductive == Spec => []TargetInv
<1>1. Init => CopyInv /\ SeenInv
  <2> SUFFICES ASSUME Init PROVE CopyInv /\ SeenInv OBVIOUS
  <2>1. engine = "tick" /\ published.target = None BY DEF Init
  <2>2. CopyInv BY <2>1 DEF CopyInv
  <2> QED BY <2>2 DEF Init, SeenInv
<1>2. TargetInv /\ TargetStep => CopyInv' /\ SeenInv'
  <2> SUFFICES ASSUME TargetInv, TargetStep PROVE CopyInv' /\ SeenInv' OBVIOUS
  <2>1. ASSUME NEW h \in Handler, NEW p, NEW c, ReadTarget(h, p, c) PROVE CopyInv' /\ SeenInv'
    <3>1. UNCHANGED <<procs, pid, comm, engine, target, published, asked, installed, matched>>
      BY <2>1 DEF ReadTarget, configVars, engineVars
    <3> QED BY <3>1 DEF TargetInv, CopyInv, SeenInv
  <2>2. ASSUME NEW h \in Handler, Install(h) PROVE CopyInv' /\ SeenInv'
    BY <2>2, InstallKeeps
  <2>3. CASE EngineReads
    <3>1. /\ engine' = "scan" /\ installed' = {target'}
          /\ UNCHANGED <<procs, pid, comm, asked, matched>>
      BY <2>3 DEF EngineReads, configVars
    <3> QED BY <3>1 DEF TargetInv, CopyInv, SeenInv
  <2>4. CASE EngineScans BY <2>4, ScanKeeps
  <2>5. CASE EnginePins BY <2>5, PinKeeps
  <2>6. CASE EnginePublishes
    <3>1. /\ engine = "publish" /\ engine' = "tick"
          /\ published' = [target |-> target, row |-> row]
          /\ UNCHANGED <<procs, pid, comm, asked, installed, matched>>
      BY <2>6 DEF EnginePublishes, configVars
    <3>2. published'.target = target BY <3>1
    <3> QED BY <3>1, <3>2 DEF TargetInv, CopyInv, SeenInv
  <2>7. ASSUME NEW p \in Pid, NEW n \in Name \cup {None}, procs' = [procs EXCEPT ![p] = n],
               matched \subseteq matched', n # None => <<p, n>> \in matched',
               UNCHANGED <<configVars, engineVars, asked, installed>>
        PROVE CopyInv' /\ SeenInv'
    <3>1. \A q \in Pid : procs'[q] # None => <<q, procs'[q]>> \in matched'
      BY <2>7 DEF TargetInv, TypeOK, SeenInv
    <3>2. CopyInv' BY <2>7 DEF TargetInv, CopyInv, engineVars
    <3> QED BY <2>7, <3>1, <3>2 DEF TargetInv, SeenInv, configVars
  <2>8. ASSUME NEW p \in Pid, NEW n \in Name, ProcessStarts(p, n) PROVE CopyInv' /\ SeenInv'
    <3>1. /\ procs' = [procs EXCEPT ![p] = n] /\ matched' = matched \cup {<<p, n>>}
          /\ UNCHANGED <<configVars, engineVars, asked, installed>>
      BY <2>8 DEF ProcessStarts
    <3> QED BY <2>7, <3>1
  <2>9. ASSUME NEW p \in Pid, ProcessExits(p) PROVE CopyInv' /\ SeenInv'
    <3>1. UNCHANGED <<configVars, engineVars, asked, installed, matched>>
      BY <2>9 DEF ProcessExits
    <3>2. procs' = [procs EXCEPT ![p] = None] BY <2>9 DEF ProcessExits
    <3> QED BY <2>7, <3>1, <3>2
  <2>10. CASE UNCHANGED vars
    <3>1. UNCHANGED <<procs, pid, comm, engine, target, published, asked, installed, matched>>
      BY <2>10 DEF vars, configVars, engineVars
    <3> QED BY <3>1 DEF TargetInv, CopyInv, SeenInv
  <2> QED BY <2>1, <2>2, <2>3, <2>4, <2>5, <2>6, <2>8, <2>9, <2>10 DEF TargetStep, Next, Engine
<1>3. TypeOK /\ CopyInv /\ SeenInv <=> TargetInv BY DEF TargetInv
<1> QED BY <1>1, <1>2, <1>3, TargetTypeCorrect, PTL DEF Spec, TargetStep

\* Every snapshot names a target that the filter was while it was collected.
THEOREM PublishedWasInstalledHolds == Spec => []PublishedWasInstalled
<1>1. TargetInv => PublishedWasInstalled BY DEF TargetInv, CopyInv, PublishedWasInstalled
<1> QED BY <1>1, TargetInductive, PTL

\* The filter is what was asked for or what was seen.
THEOREM FilterIsJustifiedHolds == Spec => []FilterIsJustified
<1>1. TargetInv => FilterIsJustified BY DEF TargetInv, SeenInv, FilterIsJustified
<1> QED BY <1>1, TargetInductive, PTL

-----------------------------------------------------------------------------
(* The rate limiter: a request is admitted exactly when the burst and the  *)
(* refill of every window allow it, if a bucket must be idle for long      *)
(* enough to be full before it is collected.                               *)
(*                                                                         *)
(* tokens - last does not change while a bucket refills.  The invariant    *)
(* says that it is the least of what the windows opened by the requests    *)
(* admitted before leave over.                                             *)

\* What the window opened by a leaves over, counted from time 0.
Leaves(k, a) == Burst - Cost - a.at - (spent[k] - a.sum)

Balance(k) == items[k].tokens - items[k].last

\* The bucket of k is exact.
Exact(k) == /\ items[k].last <= now /\ 0 - now <= Balance(k)
            /\ \A a \in admitted[k] : Balance(k) <= Leaves(k, a)
            /\ \E a \in admitted[k] : Balance(k) = Leaves(k, a)

\* Without a bucket, every window has filled up again for any request under way.
Full(k) == \A a \in admitted[k] : Burst - (now - MaxLag) <= Leaves(k, a)

KeyInv(k) == /\ \A a \in admitted[k] : a.sum <= spent[k]
             /\ IF items[k] = Absent THEN Full(k) ELSE Exact(k)

\* Requests under way have read the clock within MaxLag.
LagInv == \A c \in Caller : call[c] # Absent => call[c].at <= now /\ now <= call[c].at + MaxLag

WindowOf(k) == \A a, b \in admitted[k] : a.sum <= b.sum => Fits(a, b.sum, b.at)
JustifiedOf(k) == denied[k] # Absent =>
                     \E a \in admitted[k] : /\ a.sum <= denied[k].sum
                                            /\ ~Fits(a, denied[k].sum + Cost, denied[k].at)

Promised(k) == WindowOf(k) /\ JustifiedOf(k)

LimiterInv == LimiterTypeOK /\ LagInv /\ \A k \in Key : KeyInv(k) /\ Promised(k)

\* The bucket of a key with its neighbours left out: types of what Allow uses.
LEMMA KeyTypes ==
    ASSUME LimiterTypeOK, NEW k \in Key
    PROVE /\ spent[k] \in Nat /\ admitted[k] \subseteq Request
          /\ items[k] # Absent => items[k].tokens \in Int /\ items[k].last \in Nat
                                /\ 0 - MaxLag <= items[k].tokens /\ items[k].tokens <= Burst
          /\ denied[k] # Absent => denied[k] \in Request
          /\ now \in Nat /\ lastGC \in Nat
<1>1. /\ items \in [Key -> [tokens : (0 - MaxLag)..Burst, last : Nat] \cup {Absent}]
      /\ spent \in [Key -> Nat] /\ admitted \in [Key -> SUBSET Request]
      /\ denied \in [Key -> Request \cup {Absent}]
      /\ now \in 0..MaxTime /\ lastGC \in Nat
  BY DEF LimiterTypeOK
<1>2. MaxLag \in Nat /\ Burst \in Nat /\ MaxTime \in Nat BY LimiterConstants
<1> QED BY <1>1, <1>2

\* What a request at t finds: as much as every window leaves over, and no more.
LEMMA LevelIsExact ==
    ASSUME LimiterTypeOK, NEW k \in Key, KeyInv(k), NEW t \in Nat, t <= now, now <= t + MaxLag,
           GcIdle >= Burst + 2 * MaxLag
    PROVE /\ Level(k, t) \in Int /\ Level(k, t) <= Burst /\ t - now <= Level(k, t)
          /\ \A a \in admitted[k] : Level(k, t) - t <= Leaves(k, a)
          /\ Level(k, t) # Burst =>
                \E a \in admitted[k] : Level(k, t) - t = Leaves(k, a)
<1>1. /\ spent[k] \in Nat /\ admitted[k] \subseteq Request /\ now \in Nat
      /\ items[k] # Absent => items[k].tokens \in Int /\ items[k].last \in Nat
                            /\ 0 - MaxLag <= items[k].tokens /\ items[k].tokens <= Burst
  BY KeyTypes
<1>2. /\ Cost \in Nat /\ Burst \in Nat /\ GcIdle \in Nat /\ MaxLag \in Nat
  BY LimiterConstants
<1>3. \A a \in admitted[k] : Leaves(k, a) \in Int BY <1>1, <1>2 DEF Leaves, Request
<1>4. CASE ~Survives(k, t)
  <2>1. Level(k, t) = Burst BY <1>4 DEF Level
  <2>2. ASSUME NEW a \in admitted[k] PROVE Burst - t <= Leaves(k, a)
    <3>1. CASE items[k] = Absent
      <4>1. Burst - (now - MaxLag) <= Leaves(k, a) BY <3>1 DEF KeyInv, Full
      <4> QED BY <1>1, <1>2, <1>3, <4>1
    <3>2. CASE items[k] # Absent
      <4>1. t - items[k].last > GcIdle BY <1>4, <3>2 DEF Survives
      <4>2. items[k].tokens - items[k].last <= Leaves(k, a) BY <3>2 DEF KeyInv, Exact, Balance
      <4>3. Leaves(k, a) \in Int BY <1>3
      <4> QED BY <1>1, <1>2, <3>2, <4>1, <4>2, <4>3
    <3> QED BY <3>1, <3>2
  <2> QED BY <1>1, <1>2, <2>1, <2>2
<1>5. CASE Survives(k, t)
  <2>1. items[k] # Absent BY <1>5 DEF Survives
  <2> DEFINE x == items[k].tokens   y == items[k].last
  <2>2. /\ x \in Int /\ y \in Nat /\ y <= now /\ 0 - now <= x - y
        /\ \A a \in admitted[k] : x - y <= Leaves(k, a)
        /\ \E a \in admitted[k] : x - y = Leaves(k, a)
    BY <1>1, <2>1 DEF KeyInv, Exact, Balance
  <2>3. Level(k, t) = IF x + (t - y) > Burst THEN Burst ELSE x + (t - y)
    BY <1>5 DEF Level
  <2> HIDE DEF x, y
  <2>4. CASE x + (t - y) > Burst
    <3>1. Level(k, t) = Burst BY <2>3, <2>4
    <3>2. Burst - t <= x - y BY <1>2, <2>2, <2>4
    <3>3. ASSUME NEW a \in admitted[k] PROVE Burst - t <= Leaves(k, a)
      <4>1. x - y <= Leaves(k, a) /\ Leaves(k, a) \in Int BY <1>3, <2>2
      <4> QED BY <1>2, <2>2, <3>2, <4>1
    <3> QED BY <1>1, <1>2, <3>1, <3>3
  <2>5. CASE ~(x + (t - y) > Burst)
    <3>1. Level(k, t) = x + (t - y) BY <2>3, <2>5
    <3>2. Level(k, t) - t = x - y BY <2>2, <3>1
    <3>3. Level(k, t) \in Int /\ Level(k, t) <= Burst BY <1>2, <2>2, <2>5, <3>1
    <3>4. t - now <= Level(k, t) BY <1>1, <2>2, <3>1
    <3> QED BY <2>2, <3>2, <3>3, <3>4
  <2> QED BY <2>4, <2>5
<1> QED BY <1>4, <1>5

\* A key that Allow was not called for keeps its bucket, or it was full.
LEMMA OtherKey ==
    ASSUME LimiterInv, NEW c \in Caller, Allow(c), NEW j \in Key, j # call[c].key,
           GcIdle >= Burst + 2 * MaxLag
    PROVE KeyInv(j)' /\ Promised(j)'
<1> DEFINE k == call[c].key   t == call[c].at   l == Level(k, t)
<1>1. LimiterTypeOK /\ KeyInv(j) /\ Promised(j) /\ LagInv BY DEF LimiterInv
<1>2. call[c] # Absent /\ now' = now BY DEF Allow
<1>3. k \in Key /\ t \in Nat /\ t <= now
  <2>1. call \in [Caller -> [key : Key, at : Nat] \cup {Absent}] BY <1>1 DEF LimiterTypeOK
  <2> QED BY <1>1, <1>2, <2>1 DEF LagInv
<1>4. items' = Buckets(k, t, l) BY DEF Allow
<1>5. items'[j] = IF Survives(j, t) THEN items[j] ELSE Absent BY <1>4 DEF Buckets
<1>6. /\ spent' = spent \/ spent' = [spent EXCEPT ![k] = @ + Cost]
      /\ admitted' = admitted
         \/ admitted' = [admitted EXCEPT ![k] = @ \cup {[at |-> t, sum |-> spent[k] + Cost]}]
      /\ denied' = denied \/ denied' = [denied EXCEPT ![k] = [at |-> t, sum |-> spent[k]]]
  BY DEF Allow
<1>7. /\ spent \in [Key -> Nat] /\ admitted \in [Key -> SUBSET Request]
      /\ denied \in [Key -> Request \cup {Absent}]
  BY <1>1 DEF LimiterTypeOK
<1>8. spent'[j] = spent[j] /\ admitted'[j] = admitted[j] /\ denied'[j] = denied[j]
  BY <1>3, <1>6, <1>7
<1>9. Promised(j)' BY <1>1, <1>8 DEF Promised, WindowOf, JustifiedOf, Fits
<1>10. \A a : Leaves(j, a)' = Leaves(j, a) BY <1>8 DEF Leaves
<1>11. CASE Survives(j, t) \/ items[j] = Absent
  <2>1. items'[j] = items[j] BY <1>5, <1>11 DEF Survives
  <2>2. KeyInv(j)' BY <1>1, <1>2, <1>8, <1>10, <2>1 DEF KeyInv, Full, Exact, Balance
  <2> QED BY <1>9, <2>2
<1>12. CASE ~Survives(j, t) /\ items[j] # Absent
  <2>1. t - items[j].last > GcIdle /\ items'[j] = Absent BY <1>5, <1>12 DEF Survives
  <2>2. /\ items[j].tokens \in Int /\ items[j].last \in Nat /\ 0 - MaxLag <= items[j].tokens
        /\ spent[j] \in Nat /\ admitted[j] \subseteq Request /\ now \in Nat
    BY <1>1, <1>12, KeyTypes
  <2>3. ASSUME NEW a \in admitted[j] PROVE Burst - (now - MaxLag) <= Leaves(j, a)
    <3>1. items[j].tokens - items[j].last <= Leaves(j, a)
      BY <1>1, <1>12 DEF KeyInv, Exact, Balance
    <3>2. Leaves(j, a) \in Int BY <2>2, LimiterConstants DEF Leaves, Request
    <3> QED BY <1>3, <2>1, <2>2, <3>1, <3>2, LimiterConstants
  <2>4. Full(j)' BY <1>2, <1>8, <1>10, <2>3 DEF Full
  <2>5. KeyInv(j)' BY <1>1, <1>8, <2>1, <2>4 DEF KeyInv
  <2> QED BY <1>9, <2>5
<1> QED BY <1>11, <1>12

\* The key that Allow was called for, when there is not enough for a request.
LEMMA DeniedKey ==
    ASSUME LimiterInv, NEW c \in Caller, Allow(c), GcIdle >= Burst + 2 * MaxLag,
           NEW k \in Key, k = call[c].key, NEW t \in Nat, t = call[c].at,
           NEW l, l = Level(k, t), l < Cost
    PROVE KeyInv(k)' /\ Promised(k)'
<1>1. LimiterTypeOK /\ LagInv BY DEF LimiterInv
<1>2. call[c] # Absent /\ now' = now BY DEF Allow
<1>3. t <= now /\ now <= t + MaxLag BY <1>1, <1>2 DEF LagInv
<1>4. KeyInv(k) /\ Promised(k) BY <1>3 DEF LimiterInv
<1>5. /\ l \in Int /\ l <= Burst /\ t - now <= l
      /\ \A a \in admitted[k] : l - t <= Leaves(k, a)
      /\ l # Burst => \E a \in admitted[k] : l - t = Leaves(k, a)
  BY <1>1, <1>3, <1>4, LevelIsExact
<1>6. /\ Cost \in Nat /\ Burst \in Nat /\ Cost <= Burst /\ MaxLag \in Nat BY LimiterConstants
<1>7. /\ items' = Buckets(k, t, l) /\ spent' = spent /\ admitted' = admitted
      /\ denied' = [denied EXCEPT ![k] = [at |-> t, sum |-> spent[k]]]
  BY DEF Allow
<1>9. items'[k] = [tokens |-> l, last |-> t] BY <1>3, <1>7 DEF Buckets
<1>10. items'[k] # Absent
  <2>1. items'[k] \in [tokens : Int, last : Nat] BY <1>3, <1>5, <1>9
  <2> QED BY <2>1, LimiterConstants
<1>11. Balance(k)' = l - t BY <1>9 DEF Balance
<1>12. /\ spent[k] \in Nat /\ admitted[k] \subseteq Request /\ now \in Nat
       /\ denied \in [Key -> Request \cup {Absent}]
  BY <1>1, <1>3, KeyTypes DEF LimiterTypeOK
<1>13. PICK a \in admitted[k] : l - t = Leaves(k, a) BY <1>5, <1>6
<1>14. \A b : Leaves(k, b)' = Leaves(k, b) BY <1>7 DEF Leaves
<1>15. Exact(k)'
  <2>1. items'[k].last <= now' BY <1>2, <1>3, <1>9
  <2>2. 0 - now' <= Balance(k)' BY <1>2, <1>3, <1>5, <1>11, <1>12
  <2> QED BY <1>5, <1>7, <1>11, <1>13, <1>14, <2>1, <2>2 DEF Exact
<1>16. KeyInv(k)' BY <1>4, <1>7, <1>10, <1>15 DEF KeyInv
<1>17. WindowOf(k)' BY <1>4, <1>7 DEF Promised, WindowOf, Fits
<1>18. denied'[k] = [at |-> t, sum |-> spent[k]] BY <1>3, <1>7, <1>12
<1>19. a.sum <= spent[k] BY <1>4, <1>13 DEF KeyInv
<1>20. ~Fits(a, spent[k] + Cost, t)
  <2>1. a.at \in Nat /\ a.sum \in Nat BY <1>12, <1>13 DEF Request
  <2>2. l - t = Burst - Cost - a.at - (spent[k] - a.sum) BY <1>13 DEF Leaves
  <2> QED BY <1>3, <1>5, <1>6, <1>12, <2>1, <2>2 DEF Fits
<1>21. JustifiedOf(k)'
  <2>1. denied'[k].at = t /\ denied'[k].sum = spent[k] BY <1>18
  <2> QED BY <1>7, <1>13, <1>19, <1>20, <2>1 DEF JustifiedOf, Fits
<1> QED BY <1>16, <1>17, <1>21 DEF Promised

\* The key that Allow was called for, when the request is admitted: its window is
\* the least if the bucket was full, else the one that was the least before.
LEMMA AdmittedKey ==
    ASSUME LimiterInv, NEW c \in Caller, Allow(c), GcIdle >= Burst + 2 * MaxLag,
           NEW k \in Key, k = call[c].key, NEW t \in Nat, t = call[c].at,
           NEW l, l = Level(k, t), ~(l < Cost)
    PROVE KeyInv(k)' /\ Promised(k)'
<1>1. LimiterTypeOK /\ LagInv BY DEF LimiterInv
<1>2. call[c] # Absent /\ now' = now BY DEF Allow
<1>3. t <= now /\ now <= t + MaxLag BY <1>1, <1>2 DEF LagInv
<1>4. KeyInv(k) /\ Promised(k) BY DEF LimiterInv
<1>5. /\ l \in Int /\ l <= Burst /\ t - now <= l
      /\ \A a \in admitted[k] : l - t <= Leaves(k, a)
      /\ l # Burst => \E a \in admitted[k] : l - t = Leaves(k, a)
  BY <1>1, <1>3, <1>4, LevelIsExact
<1>6. /\ Cost \in Nat /\ 0 < Cost /\ Burst \in Nat /\ Cost <= Burst /\ MaxLag \in Nat
  BY LimiterConstants
<1>n. PICK n : n = [at |-> t, sum |-> spent[k] + Cost] OBVIOUS
<1>7. /\ items' = Buckets(k, t, l) /\ spent' = [spent EXCEPT ![k] = @ + Cost]
      /\ admitted' = [admitted EXCEPT ![k] = @ \cup {n}] /\ denied' = denied
  BY <1>n DEF Allow
<1>8. /\ spent \in [Key -> Nat] /\ admitted \in [Key -> SUBSET Request] /\ now \in Nat
      /\ denied \in [Key -> Request \cup {Absent}]
  BY <1>1, KeyTypes, LimiterConstants DEF LimiterTypeOK
<1>9. /\ items'[k] = [tokens |-> l - Cost, last |-> t]
      /\ spent'[k] = spent[k] + Cost /\ admitted'[k] = admitted[k] \cup {n}
  BY <1>7, <1>8 DEF Buckets
<1>10. /\ n.at = t /\ n.sum = spent[k] + Cost /\ spent[k] \in Nat
       /\ \A a \in admitted[k] : a.at \in Nat /\ a.sum \in Nat /\ a.sum <= spent[k]
  BY <1>4, <1>8, <1>n DEF Request, KeyInv
<1>11. items'[k] # Absent
  <2>1. items'[k] \in [tokens : Int, last : Nat] BY <1>5, <1>6, <1>9
  <2> QED BY <2>1, LimiterConstants
<1>12. Balance(k)' = l - Cost - t BY <1>5, <1>6, <1>9 DEF Balance
<1>13. Leaves(k, n)' = Burst - Cost - t BY <1>6, <1>9, <1>10 DEF Leaves
<1>14. ASSUME NEW a \in admitted[k]
       PROVE Leaves(k, a)' = Leaves(k, a) - Cost /\ Leaves(k, a) \in Int
  BY <1>6, <1>9, <1>10 DEF Leaves
<1>15. Exact(k)'
  <2>1. items'[k].last <= now' BY <1>2, <1>3, <1>9
  <2>2. 0 - now' <= Balance(k)' BY <1>2, <1>3, <1>5, <1>6, <1>8, <1>12
  <2>3. ASSUME NEW a \in admitted'[k] PROVE Balance(k)' <= Leaves(k, a)'
    <3>1. CASE a = n BY <1>5, <1>6, <1>12, <1>13, <3>1
    <3>2. CASE a \in admitted[k]
      <4>1. l - t <= Leaves(k, a) BY <1>5, <3>2
      <4>2. Leaves(k, a)' = Leaves(k, a) - Cost /\ Leaves(k, a) \in Int BY <1>14, <3>2
      <4> QED BY <1>5, <1>6, <1>12, <4>1, <4>2
    <3> QED BY <1>9, <3>1, <3>2
  <2>4. \E a \in admitted'[k] : Balance(k)' = Leaves(k, a)'
    <3>1. CASE l = Burst
      <4>1. Balance(k)' = Leaves(k, n)' BY <1>5, <1>6, <1>12, <1>13, <3>1
      <4>2. n \in admitted'[k] BY <1>9
      <4> QED BY <4>1, <4>2
    <3>2. CASE l # Burst
      <4>1. PICK a \in admitted[k] : l - t = Leaves(k, a) BY <1>5, <3>2
      <4>2. Leaves(k, a)' = Leaves(k, a) - Cost BY <1>14
      <4>3. Balance(k)' = Leaves(k, a)' BY <1>5, <1>6, <1>12, <4>1, <4>2
      <4> QED BY <1>9, <4>3
    <3> QED BY <3>1, <3>2
  <2> QED BY <2>1, <2>2, <2>3, <2>4 DEF Exact
<1>16. KeyInv(k)'
  <2>1. \A a \in admitted'[k] : a.sum <= spent'[k] BY <1>6, <1>9, <1>10
  <2> QED BY <1>11, <1>15, <2>1 DEF KeyInv
<1>17. ASSUME NEW a \in admitted'[k], NEW b \in admitted'[k], a.sum <= b.sum
       PROVE Fits(a, b.sum, b.at)
  <2>1. CASE a \in admitted[k] /\ b \in admitted[k]
    BY <1>4, <1>17, <2>1 DEF Promised, WindowOf
  <2>2. CASE a = n /\ b = n BY <1>6, <1>10, <2>2 DEF Fits
  <2>3. CASE a = n /\ b \in admitted[k] BY <1>6, <1>10, <1>17, <2>3
  <2>4. CASE a \in admitted[k] /\ b = n
    <3>1. l - t <= Burst - Cost - a.at - (spent[k] - a.sum) BY <1>5, <2>4 DEF Leaves
    <3>2. a.at \in Nat /\ a.sum \in Nat BY <1>10, <2>4
    <3>3. (spent[k] + Cost - a.sum) + Cost <= Burst + (t - a.at)
      BY <1>5, <1>6, <1>10, <3>1, <3>2
    <3>4. b.sum = spent[k] + Cost /\ b.at = t BY <1>10, <2>4
    <3> QED BY <1>5, <1>6, <1>10, <3>2, <3>3, <3>4 DEF Fits
  <2> QED BY <1>9, <2>1, <2>2, <2>3, <2>4
<1>18. WindowOf(k)' BY <1>17 DEF WindowOf, Fits
<1>19. JustifiedOf(k)' BY <1>4, <1>7, <1>9 DEF Promised, JustifiedOf, Fits
<1> QED BY <1>16, <1>18, <1>19 DEF Promised

\* Allow keeps the types: a bucket is overdrawn by no more than the lag.
LEMMA AllowTypes ==
    ASSUME LimiterInv, NEW c \in Caller, Allow(c), GcIdle >= Burst + 2 * MaxLag
    PROVE LimiterTypeOK' /\ LagInv'
<1>1. LimiterTypeOK /\ LagInv BY DEF LimiterInv
<1>2. call[c] # Absent BY DEF Allow
<1>3. PICK k, t : k = call[c].key /\ t = call[c].at OBVIOUS
<1>4. /\ call \in [Caller -> [key : Key, at : Nat] \cup {Absent}] /\ now \in 0..MaxTime
      /\ items \in [Key -> [tokens : (0 - MaxLag)..Burst, last : Nat] \cup {Absent}]
      /\ spent \in [Key -> Nat] /\ admitted \in [Key -> SUBSET Request]
      /\ denied \in [Key -> Request \cup {Absent}] /\ calls \in 0..MaxCalls /\ lastGC \in Nat
  BY <1>1 DEF LimiterTypeOK
<1>5. k \in Key /\ t \in Nat /\ t <= now /\ now <= t + MaxLag
  BY <1>1, <1>2, <1>3, <1>4 DEF LagInv
<1>6. PICK l : l = Level(k, t) OBVIOUS
<1>7. KeyInv(k) BY <1>5 DEF LimiterInv
<1>8. l \in Int /\ l <= Burst /\ t - now <= l BY <1>1, <1>5, <1>6, <1>7, LevelIsExact
<1>9. /\ Cost \in Nat /\ 0 < Cost /\ Burst \in Nat /\ MaxLag \in Nat /\ MaxTime \in Nat
  BY LimiterConstants
<1>10. /\ items' = Buckets(k, t, l) /\ call' = [call EXCEPT ![c] = Absent]
       /\ lastGC' = IF GcDue(t) THEN t ELSE lastGC
       /\ spent' = spent \/ spent' = [spent EXCEPT ![k] = @ + Cost]
       /\ admitted' = admitted
          \/ admitted' = [admitted EXCEPT ![k] = @ \cup {[at |-> t, sum |-> spent[k] + Cost]}]
       /\ denied' = denied \/ denied' = [denied EXCEPT ![k] = [at |-> t, sum |-> spent[k]]]
       /\ now' = now /\ calls' = calls
  BY <1>3, <1>6 DEF Allow
<1>11. items' \in [Key -> [tokens : (0 - MaxLag)..Burst, last : Nat] \cup {Absent}]
  <2>1. (IF l < Cost THEN l ELSE l - Cost) \in (0 - MaxLag)..Burst
    <3>1. CASE l < Cost BY <1>4, <1>5, <1>8, <1>9, <3>1
    <3>2. CASE ~(l < Cost) BY <1>8, <1>9, <3>2
    <3> QED BY <3>1, <3>2
  <2> QED BY <1>4, <1>5, <1>10, <2>1 DEF Buckets
<1>12. call' \in [Caller -> [key : Key, at : Nat] \cup {Absent}] BY <1>4, <1>10
<1>13. spent' \in [Key -> Nat] BY <1>4, <1>9, <1>10
<1>14. admitted' \in [Key -> SUBSET Request]
  <2>1. [at |-> t, sum |-> spent[k] + Cost] \in Request BY <1>4, <1>5, <1>9 DEF Request
  <2> QED BY <1>4, <1>5, <1>10, <2>1
<1>15. denied' \in [Key -> Request \cup {Absent}]
  <2>1. [at |-> t, sum |-> spent[k]] \in Request BY <1>4, <1>5 DEF Request
  <2> QED BY <1>4, <1>5, <1>10, <2>1
<1>16. lastGC' \in Nat BY <1>4, <1>5, <1>10
<1>17. LimiterTypeOK' BY <1>4, <1>10, <1>11, <1>12, <1>13, <1>14, <1>15, <1>16 DEF LimiterTypeOK
<1>18. LagInv' BY <1>1, <1>4, <1>10 DEF LagInv
<1> QED BY <1>17, <1>18

\* Time that passes leaves exact buckets exact and full windows full.
LEMMA TickKeeps == ASSUME LimiterInv, Tick PROVE LimiterInv'
<1>1. LimiterTypeOK /\ LagInv BY DEF LimiterInv
<1>2. /\ now' = now + 1 /\ now \in 0..MaxTime /\ now < MaxTime
      /\ UNCHANGED <<items, lastGC, call, spent, admitted, denied, calls>>
  BY <1>1 DEF Tick, LimiterTypeOK
<1>3. MaxTime \in Nat /\ MaxLag \in Nat /\ Burst \in Nat /\ Cost \in Nat BY LimiterConstants
<1>4. LimiterTypeOK' BY <1>1, <1>2, <1>3 DEF LimiterTypeOK
<1>5. LagInv'
  <2>1. call \in [Caller -> [key : Key, at : Nat] \cup {Absent}] BY <1>1 DEF LimiterTypeOK
  <2>2. ASSUME NEW c \in Caller, call[c] # Absent
        PROVE call[c].at <= now + 1 /\ now + 1 <= call[c].at + MaxLag
    <3>1. now < call[c].at + MaxLag /\ call[c].at <= now BY <1>1, <2>2 DEF Tick, LagInv
    <3>2. call[c].at \in Nat BY <2>1, <2>2
    <3> QED BY <1>2, <1>3, <3>1, <3>2
  <2> QED BY <1>2, <2>2 DEF LagInv
<1>6. ASSUME NEW k \in Key PROVE KeyInv(k)' /\ Promised(k)'
  <2>1. KeyInv(k) /\ Promised(k) BY DEF LimiterInv
  <2>2. Promised(k)' BY <1>2, <2>1 DEF Promised, WindowOf, JustifiedOf, Fits
  <2>3. \A a : Leaves(k, a)' = Leaves(k, a) BY <1>2 DEF Leaves
  <2>4. /\ admitted[k] \subseteq Request /\ spent[k] \in Nat /\ now \in Nat
        /\ items[k] # Absent => items[k].tokens \in Int /\ items[k].last \in Nat
    BY <1>1, KeyTypes
  <2>5. \A a \in admitted[k] : Leaves(k, a) \in Int BY <1>3, <2>4 DEF Leaves, Request
  <2>6. CASE items[k] = Absent
    <3>1. ASSUME NEW a \in admitted[k] PROVE Burst - (now + 1 - MaxLag) <= Leaves(k, a)
      <4>1. Burst - (now - MaxLag) <= Leaves(k, a) BY <2>1, <2>6 DEF KeyInv, Full
      <4> QED BY <1>3, <2>4, <2>5, <4>1
    <3>2. Full(k)' BY <1>2, <1>3, <2>3, <2>4, <3>1 DEF Full
    <3> QED BY <1>2, <2>1, <2>2, <2>6, <3>2 DEF KeyInv
  <2>7. CASE items[k] # Absent
    <3>1. Exact(k) BY <2>1, <2>7 DEF KeyInv
    <3>2. Balance(k)' = Balance(k) /\ Balance(k) \in Int BY <1>2, <2>4, <2>7 DEF Balance
    <3>3. Exact(k)' BY <1>2, <2>3, <2>4, <2>7, <3>1, <3>2 DEF Exact
    <3> QED BY <1>2, <2>1, <2>2, <2>7, <3>3 DEF KeyInv
  <2> QED BY <2>6, <2>7
<1> QED BY <1>4, <1>5, <1>6 DEF LimiterInv

\* A request that reads the clock is not late.
LEMMA ReadClockKeeps ==
    ASSUME LimiterInv, NEW c \in Caller, NEW k \in Key, ReadClock(c, k) PROVE LimiterInv'
<1>1. LimiterTypeOK /\ LagInv BY DEF LimiterInv
<1>2. /\ call' = [call EXCEPT ![c] = [key |-> k, at |-> now]]
      /\ calls < MaxCalls /\ calls' = calls + 1
      /\ UNCHANGED <<now, items, lastGC, spent, admitted, denied>>
  BY DEF ReadClock
<1>3. /\ call \in [Caller -> [key : Key, at : Nat] \cup {Absent}] /\ now \in 0..MaxTime
      /\ calls \in 0..MaxCalls
  BY <1>1 DEF LimiterTypeOK
<1>4. MaxTime \in Nat /\ MaxLag \in Nat /\ MaxCalls \in Nat BY LimiterConstants
<1>5. [key |-> k, at |-> now] \in [key : Key, at : Nat] BY <1>3, <1>4
<1>6. call' \in [Caller -> [key : Key, at : Nat] \cup {Absent}] BY <1>2, <1>3, <1>5
<1>7. LimiterTypeOK' BY <1>1, <1>2, <1>3, <1>4, <1>6 DEF LimiterTypeOK
<1>8. ASSUME NEW d \in Caller, call'[d] # Absent
      PROVE call'[d].at <= now /\ now <= call'[d].at + MaxLag
  <2>1. CASE d = c
    <3>1. call'[d].at = now BY <1>2, <1>3, <2>1
    <3> QED BY <1>3, <1>4, <3>1
  <2>2. CASE d # c
    <3>1. call'[d] = call[d] BY <1>2, <1>3, <2>2
    <3> QED BY <1>1, <1>8, <3>1 DEF LagInv
  <2> QED BY <2>1, <2>2
<1>9. LagInv' BY <1>2, <1>8 DEF LagInv
<1>10. \A j \in Key : KeyInv(j)' /\ Promised(j)'
  BY <1>2 DEF LimiterInv, KeyInv, Full, Exact, Balance, Leaves, Promised, WindowOf, JustifiedOf,
              Fits
<1> QED BY <1>7, <1>9, <1>10 DEF LimiterInv

\* The invariant, for a limiter that collects no bucket before it is full again.
THEOREM LimiterInvariant == ASSUME GcIdle >= Burst + 2 * MaxLag PROVE LimiterSpec => []LimiterInv
<1>1. LimiterInit => LimiterInv
  <2> SUFFICES ASSUME LimiterInit PROVE LimiterInv OBVIOUS
  <2>1. LimiterTypeOK BY LimiterConstants DEF LimiterInit, LimiterTypeOK
  <2> QED BY <2>1 DEF LimiterInit, LimiterInv, LagInv, KeyInv, Full, Promised, WindowOf, JustifiedOf
<1>2. LimiterInv /\ [LimiterNext]_limiterVars => LimiterInv'
  <2> SUFFICES ASSUME LimiterInv, [LimiterNext]_limiterVars PROVE LimiterInv' OBVIOUS
  <2>1. CASE Tick BY <2>1, TickKeeps
  <2>2. ASSUME NEW c \in Caller, NEW k \in Key, ReadClock(c, k) PROVE LimiterInv'
    BY <2>2, ReadClockKeeps
  <2>3. ASSUME NEW c \in Caller, Allow(c) PROVE LimiterInv'
    <3>1. LimiterTypeOK' /\ LagInv' BY <2>3, AllowTypes
    <3>2. call[c].key \in Key /\ call[c].at \in Nat
      <4>1. call \in [Caller -> [key : Key, at : Nat] \cup {Absent}]
        BY DEF LimiterInv, LimiterTypeOK
      <4> QED BY <2>3, <4>1 DEF Allow
    <3>3. PICK k \in Key, t \in Nat : k = call[c].key /\ t = call[c].at BY <3>2
    <3>4. PICK l : l = Level(k, t) OBVIOUS
    <3>5. KeyInv(k)' /\ Promised(k)'
      <4>1. CASE l < Cost BY <2>3, <3>3, <3>4, <4>1, DeniedKey
      <4>2. CASE ~(l < Cost) BY <2>3, <3>3, <3>4, <4>2, AdmittedKey
      <4> QED BY <4>1, <4>2
    <3>6. ASSUME NEW j \in Key, j # k PROVE KeyInv(j)' /\ Promised(j)'
      BY <2>3, <3>3, <3>6, OtherKey
    <3> QED BY <3>1, <3>5, <3>6 DEF LimiterInv
  <2>4. CASE UNCHANGED limiterVars
    BY <2>4 DEF LimiterInv, limiterVars, LimiterTypeOK, LagInv, KeyInv, Full, Exact, Balance,
               Leaves, Promised, WindowOf, JustifiedOf, Fits
  <2> QED BY <2>1, <2>2, <2>3, <2>4 DEF LimiterNext
<1> QED BY <1>1, <1>2, PTL DEF LimiterSpec

\* limiter.Allow: the variables keep their types, and no bucket is overdrawn by
\* more than the time that a request may come late.
THEOREM LimiterTypeCorrect ==
    ASSUME GcIdle >= Burst + 2 * MaxLag PROVE LimiterSpec => []LimiterTypeOK
<1>1. LimiterInv => LimiterTypeOK BY DEF LimiterInv
<1> QED BY <1>1, LimiterInvariant, PTL

\* limiter.Allow: in any window, what is admitted costs no more than the burst and
\* what the window refills, whatever requests overtake each other and whatever
\* buckets are collected.
THEOREM WindowBoundHolds == ASSUME GcIdle >= Burst + 2 * MaxLag PROVE LimiterSpec => []WindowBound
<1>1. LimiterInv => WindowBound BY DEF LimiterInv, Promised, WindowOf, WindowBound
<1> QED BY <1>1, LimiterInvariant, PTL

\* limiter.Allow: no request is denied that some window would not have refused.
THEOREM DenialJustifiedHolds ==
    ASSUME GcIdle >= Burst + 2 * MaxLag PROVE LimiterSpec => []DenialJustified
<1>1. LimiterInv => DenialJustified BY DEF LimiterInv, Promised, JustifiedOf, DenialJustified
<1> QED BY <1>1, LimiterInvariant, PTL

-----------------------------------------------------------------------------
(* The store.  Snapshot rows are numbered without a gap, so that the rows  *)
(* newer than one are counted by its id; the table always holds a tail of  *)
(* the rows ever written, at least as long as a query may ask for.         *)

\* The id that AUTOINCREMENT gave last.
LastId == Cardinality(allSnapshots)

\* The ids of the snapshots ever written are 1, 2, ..., LastId.
Numbered == /\ IsFiniteSet(allSnapshots)
            /\ \A r \in allSnapshots : r.id \in 1..LastId
            /\ \A r, s \in allSnapshots : r.id = s.id => r = s
            /\ \A i \in 1..LastId : \E r \in allSnapshots : r.id = i

\* With a row, every newer one is in the table; one that is not is beyond the rows
\* to keep.
Newest == /\ \A r \in snapshots, s \in allSnapshots : s.id > r.id => s \in snapshots
          /\ \A r \in allSnapshots \ snapshots : LastId - r.id >= MaxStoredSnapshots

\* Rows written since the last prune began.
Pending == IF pruning = "snapshots" THEN PruneEvery ELSE writes

Growth == /\ pruning # "no" => writes = 0
          /\ Cardinality(snapshots) <= MaxStoredSnapshots + lapses * PruneEvery + Pending

\* The snapshots of this process are not later than the one it remembers.
LastIsLatest == \A r \in allSnapshots : run < r.id => lastSnapTime > 0 /\ lastSnapTime >= r.t

Tied(c) == {e \in allEvents : e.t = c}
TiesBounded == /\ IsFiniteSet(allEvents)
               /\ \A c \in 1..MaxClock : Cardinality(Tied(c)) <= MaxTies

StoreInv == /\ StoreTypeOK /\ Numbered /\ Newest /\ Growth /\ LastIsLatest /\ Spaced
            /\ TiesBounded /\ EventsComplete

\* The constants as numbers.
LEMMA StoreNumbers ==
    /\ MaxStoredSnapshots \in Nat /\ MaxStoredSnapshots > 0 /\ HistoryMax \in Nat
    /\ HistoryDefault \in Nat /\ PruneEvery \in Nat /\ PruneEvery > 0 /\ Gap \in Nat /\ Gap > 0
    /\ MaxClock \in Nat /\ MaxClock > 0 /\ MaxStoredEvents \in Nat /\ EventsMax \in Nat
    /\ MaxTies \in Nat /\ MaxRows \in Nat /\ MaxLapses \in Nat
    /\ HistoryDefault <= HistoryMax /\ HistoryMax <= MaxStoredSnapshots
    /\ EventsMax + MaxTies <= MaxStoredEvents
BY StoreConstants

\* The fields of a row that was written.
LEMMA RowTypes ==
    ASSUME StoreTypeOK, NEW r \in allSnapshots \cup allEvents
    PROVE r.id \in Nat /\ r.t \in 1..MaxClock /\ r.t \in Nat
BY StoreNumbers DEF StoreTypeOK, Row

\* The number of snapshots written is a number, and so is that of those in the table.
LEMMA LastIdTyped ==
    ASSUME StoreTypeOK, Numbered
    PROVE /\ LastId \in Nat
          /\ IsFiniteSet(snapshots) /\ Cardinality(snapshots) \in Nat
<1>1. snapshots \in SUBSET allSnapshots BY DEF StoreTypeOK
<1>2. IsFiniteSet(snapshots) BY <1>1, FS_Subset DEF Numbered
<1> QED BY <1>2, FS_CardinalityType DEF Numbered, LastId

\* The same in the next state.
LEMMA NextLastIdTyped ==
    ASSUME StoreTypeOK', Numbered' PROVE Cardinality(snapshots') \in Nat
<1>1. snapshots' \in SUBSET allSnapshots' BY DEF StoreTypeOK
<1>2. IsFiniteSet(snapshots') BY <1>1, FS_Subset DEF Numbered
<1> QED BY <1>2, FS_CardinalityType

\* The stored events are finitely many.
LEMMA EventsFinite ==
    ASSUME StoreTypeOK, TiesBounded, NEW S \in SUBSET allEvents
    PROVE IsFiniteSet(S) /\ Cardinality(S) \in Nat
<1>1. IsFiniteSet(S) BY FS_Subset DEF TiesBounded
<1> QED BY <1>1, FS_CardinalityType

\* A function that is one-to-one counts its domain by a finite range.
LEMMA CountsBy ==
    ASSUME NEW S, NEW T, IsFiniteSet(T), NEW f \in [S -> T],
           \A a, b \in S : f[a] = f[b] => a = b
    PROVE /\ IsFiniteSet(S) /\ Cardinality(S) <= Cardinality(T)
          /\ (\A y \in T : \E a \in S : f[a] = y) => Cardinality(S) = Cardinality(T)
<1>1. f \in Injection(S, T) BY Fun_IsInj
<1>2. /\ IsFiniteSet(S) /\ Cardinality(S) <= Cardinality(T)
      /\ Cardinality(S) = Cardinality(T) <=> f \in Surjection(S, T)
  BY <1>1, FS_Injection
<1>3. (\A y \in T : \E a \in S : f[a] = y) => f \in Surjection(S, T) BY Fun_IsSurj
<1> QED BY <1>2, <1>3

\* The snapshots newer than the id i are as many as the ids given after it.
LEMMA NewerThan ==
    ASSUME StoreTypeOK, Numbered, NEW i \in Nat, i <= LastId
    PROVE Cardinality({q \in allSnapshots : q.id > i}) = LastId - i
<1> DEFINE S == {q \in allSnapshots : q.id > i}
           T == (i + 1)..LastId
           f == [q \in S |-> q.id]
<1>1. LastId \in Nat BY LastIdTyped
<1>2. IsFiniteSet(T) /\ Cardinality(T) = LastId - i
  <2>1. i + 1 \in Int /\ LastId \in Int BY <1>1
  <2>2. IsFiniteSet((i + 1)..LastId) /\
        Cardinality((i + 1)..LastId) = IF i + 1 > LastId THEN 0 ELSE LastId - (i + 1) + 1
    BY <2>1, FS_Interval
  <2> QED BY <1>1, <2>2
<1>3. f \in [S -> T] BY <1>1 DEF Numbered
<1>4. \A a, b \in S : f[a] = f[b] => a = b BY DEF Numbered
<1>5. \A y \in T : \E a \in S : f[a] = y
  <2> SUFFICES ASSUME NEW y \in T PROVE \E a \in S : f[a] = y OBVIOUS
  <2>1. y \in 1..LastId /\ y > i BY <1>1
  <2>2. PICK a \in allSnapshots : a.id = y BY <2>1 DEF Numbered
  <2> QED BY <2>1, <2>2
<1> HIDE DEF S, T, f
<1>6. Cardinality(S) = Cardinality(T) BY <1>2, <1>3, <1>4, <1>5, CountsBy
<1> QED BY <1>2, <1>6 DEF S

\* What After takes of the snapshots ever written: the ids that are n or more behind.
LEMMA AfterAll ==
    ASSUME StoreTypeOK, Numbered, NEW n \in Nat
    PROVE After(allSnapshots, n) = {r \in allSnapshots : LastId - r.id >= n}
<1>1. ASSUME NEW r \in allSnapshots
      PROVE Cardinality({q \in allSnapshots : q.id > r.id}) = LastId - r.id
  <2>1. r.id \in Nat /\ r.id <= LastId BY LastIdTyped, RowTypes DEF Numbered
  <2> QED BY <2>1, NewerThan
<1> QED BY <1>1 DEF After

\* The same of the table, since it holds every row newer than one it holds.
LEMMA AfterStored ==
    ASSUME StoreTypeOK, Numbered, Newest, NEW n \in Nat
    PROVE After(snapshots, n) = {r \in snapshots : LastId - r.id >= n}
<1>1. ASSUME NEW r \in snapshots
      PROVE Cardinality({q \in snapshots : q.id > r.id}) = LastId - r.id
  <2>1. r \in allSnapshots BY DEF StoreTypeOK
  <2>2. r.id \in Nat /\ r.id <= LastId BY <2>1, LastIdTyped, RowTypes DEF Numbered
  <2>3. {q \in snapshots : q.id > r.id} = {q \in allSnapshots : q.id > r.id}
    BY DEF StoreTypeOK, Newest
  <2> QED BY <2>2, <2>3, NewerThan
<1> QED BY <1>1 DEF After

-----------------------------------------------------------------------------
\* What a row that was written does to the counter of maybePrune.
LEMMA CountKeeps ==
    ASSUME StoreTypeOK, pruning = "no", Count
    PROVE /\ writes' \in 0..PruneEvery - 1 /\ pruning' \in {"no", "snapshots"}
          /\ pruning' # "no" => writes' = 0
          /\ Pending' = Pending + 1
<1>1. writes \in Nat /\ writes < PruneEvery /\ PruneEvery \in Nat /\ PruneEvery > 0
  BY StoreNumbers DEF StoreTypeOK
<1>2. writes' = (writes + 1) % PruneEvery /\ pruning' = IF writes' = 0 THEN "snapshots" ELSE "no"
  BY DEF Count
<1>3. CASE writes + 1 < PruneEvery
  <2>1. writes' = writes + 1 BY <1>1, <1>2, <1>3
  <2> QED BY <1>1, <1>2, <1>3, <2>1 DEF Pending
<1>4. CASE writes + 1 = PruneEvery
  <2>1. writes' = 0 BY <1>1, <1>2, <1>4
  <2> QED BY <1>1, <1>2, <1>4, <2>1 DEF Pending
<1> QED BY <1>1, <1>3, <1>4

\* The bound on the table of snapshots as a number.
LEMMA BoundTyped ==
    ASSUME StoreTypeOK
    PROVE /\ lapses * PruneEvery \in Nat /\ Pending \in Nat /\ Pending <= PruneEvery
          /\ (lapses + 1) * PruneEvery = lapses * PruneEvery + PruneEvery
          /\ 0 * PruneEvery = 0
<1>1. writes \in Nat /\ writes < PruneEvery /\ PruneEvery \in Nat /\ lapses \in Nat
  BY StoreNumbers DEF StoreTypeOK
<1>2. lapses * PruneEvery \in Nat BY <1>1
<1>3. (lapses + 1) * PruneEvery = lapses * PruneEvery + PruneEvery BY <1>1
<1> QED BY <1>1, <1>2, <1>3 DEF Pending

\* A new snapshot takes the next id.
LEMMA RowNumbered ==
    ASSUME StoreTypeOK, Numbered, NEW added, added.id = LastId + 1,
           allSnapshots' = allSnapshots \cup {added}
    PROVE Numbered' /\ LastId' = LastId + 1
<1>1. LastId \in Nat BY LastIdTyped
<1>2. added \notin allSnapshots BY <1>1 DEF Numbered
<1>3. IsFiniteSet(allSnapshots') /\ Cardinality(allSnapshots') = LastId + 1
  BY <1>2, FS_AddElement DEF Numbered, LastId
<1>4. LastId' = LastId + 1 BY <1>3 DEF LastId
<1>5. \A r \in allSnapshots' : r.id \in 1..LastId'
  BY <1>1, <1>4 DEF Numbered
<1>6. \A r \in allSnapshots : r.id # added.id BY <1>1 DEF Numbered
<1>7. \A r, s \in allSnapshots' : r.id = s.id => r = s BY <1>6 DEF Numbered
<1>8. \A i \in 1..LastId' : \E r \in allSnapshots' : r.id = i
  <2> SUFFICES ASSUME NEW i \in 1..LastId' PROVE \E r \in allSnapshots' : r.id = i OBVIOUS
  <2>1. CASE i = LastId + 1 BY <2>1
  <2>2. CASE i # LastId + 1
    <3>1. i \in 1..LastId BY <1>1, <1>4, <2>2
    <3> QED BY <3>1 DEF Numbered
  <2> QED BY <2>1, <2>2
<1> QED BY <1>3, <1>4, <1>5, <1>7, <1>8 DEF Numbered

\* A snapshot that is written keeps the table a tail, and the times apart.
LEMMA SnapshotWritten ==
    ASSUME StoreInv, NEW added, added = [id |-> LastId + 1, t |-> clock], ~Throttled,
           snapshots' = snapshots \cup {added}, allSnapshots' = allSnapshots \cup {added},
           lastSnapTime' = clock, run' = run
    PROVE /\ Numbered' /\ Newest' /\ LastIsLatest' /\ Spaced'
          /\ allSnapshots' \subseteq Row /\ run' \in 0..Cardinality(allSnapshots')
          /\ Cardinality(snapshots') <= Cardinality(snapshots) + 1
<1>1. StoreTypeOK /\ Numbered /\ Newest /\ LastIsLatest /\ Spaced BY DEF StoreInv
<1>2. LastId \in Nat /\ run \in Nat /\ run <= LastId /\ clock \in Nat /\ clock > 0 /\ Gap \in Nat
      /\ lastSnapTime \in Nat
  BY <1>1, LastIdTyped, StoreNumbers DEF StoreTypeOK, LastId
<1>3. added.id = LastId + 1 /\ added.t = clock OBVIOUS
<1>4. Numbered' /\ LastId' = LastId + 1 BY <1>1, <1>3, RowNumbered
<1>5. \A r \in allSnapshots : r.id \in Nat /\ r.id <= LastId /\ r.t \in Nat
  BY <1>1, <1>2, RowTypes DEF Numbered
<1>6. Newest'
  <2>1. ASSUME NEW r \in snapshots', NEW q \in allSnapshots', q.id > r.id
        PROVE q \in snapshots'
    <3>1. r # added BY <1>2, <1>3, <1>5, <2>1
    <3>2. r \in snapshots BY <3>1
    <3> QED BY <1>1, <2>1, <3>2 DEF Newest
  <2>2. ASSUME NEW r \in allSnapshots' \ snapshots' PROVE LastId' - r.id >= MaxStoredSnapshots
    <3>1. r \in allSnapshots \ snapshots OBVIOUS
    <3>2. LastId - r.id >= MaxStoredSnapshots BY <1>1, <3>1 DEF Newest
    <3> QED BY <1>2, <1>4, <1>5, <3>1, <3>2, StoreNumbers
  <2> QED BY <2>1, <2>2 DEF Newest
<1>7. \A r \in allSnapshots : run < r.id => clock >= r.t + Gap
  <2> SUFFICES ASSUME NEW r \in allSnapshots, run < r.id PROVE clock >= r.t + Gap OBVIOUS
  <2>1. lastSnapTime > 0 /\ lastSnapTime >= r.t BY <1>1 DEF LastIsLatest
  <2>2. clock - lastSnapTime >= Gap BY <1>2, <2>1 DEF Throttled
  <2> QED BY <1>2, <1>5, <2>1, <2>2
<1>8. LastIsLatest'
  <2> SUFFICES ASSUME NEW r \in allSnapshots', run' < r.id
               PROVE lastSnapTime' > 0 /\ lastSnapTime' >= r.t
    BY DEF LastIsLatest
  <2>1. CASE r = added BY <1>2, <1>3, <2>1
  <2>2. CASE r \in allSnapshots BY <1>2, <1>5, <1>7, <2>2
  <2> QED BY <2>1, <2>2
<1>9. Spaced'
  <2> SUFFICES ASSUME NEW r \in allSnapshots', NEW q \in allSnapshots', run' < r.id, r.id < q.id
               PROVE q.t >= r.t + Gap
    BY DEF Spaced
  <2>1. r \in allSnapshots BY <1>2, <1>3, <1>5
  <2>2. CASE q = added BY <1>3, <1>7, <2>1, <2>2
  <2>3. CASE q \in allSnapshots BY <1>1, <2>1, <2>3 DEF Spaced
  <2> QED BY <2>2, <2>3
<1>10. allSnapshots' \subseteq Row BY <1>1, <1>2 DEF StoreTypeOK, Row
<1>11. run' \in 0..Cardinality(allSnapshots') BY <1>2, <1>4 DEF LastId
<1>12. IsFiniteSet(snapshots) /\ Cardinality(snapshots) \in Nat BY <1>1, LastIdTyped
<1>13. Cardinality(snapshots') <= Cardinality(snapshots) + 1
  <2>1. Cardinality(snapshots \cup {added})
            = IF added \in snapshots THEN Cardinality(snapshots) ELSE Cardinality(snapshots) + 1
    BY <1>12, FS_AddElement
  <2> QED BY <1>12, <2>1
<1> QED BY <1>4, <1>6, <1>8, <1>9, <1>10, <1>11, <1>13

\* RecordSnapshot, whether or not its insert fails.
LEMMA RecordSnapshotKeeps == ASSUME StoreInv, RecordSnapshot PROVE StoreInv'
<1>1. /\ StoreTypeOK /\ Numbered /\ Newest /\ Growth /\ LastIsLatest /\ Spaced /\ TiesBounded
      /\ EventsComplete
  BY DEF StoreInv
<1>2. /\ pruning = "no" /\ ~Throttled /\ lastSnapTime' = clock
      /\ UNCHANGED <<clock, events, allEvents, run, lapses>>
  BY DEF RecordSnapshot
<1>3. TiesBounded' /\ EventsComplete' BY <1>1, <1>2 DEF TiesBounded, Tied, EventsComplete
<1>4. clock \in 1..MaxClock /\ clock \in 0..MaxClock BY <1>1, StoreNumbers DEF StoreTypeOK
<1>5. ASSUME NEW added, added = [id |-> LastId + 1, t |-> clock],
             snapshots' = snapshots \cup {added}, allSnapshots' = allSnapshots \cup {added}, Count
      PROVE StoreInv'
  <2>1. /\ Numbered' /\ Newest' /\ LastIsLatest' /\ Spaced'
        /\ allSnapshots' \subseteq Row /\ run' \in 0..Cardinality(allSnapshots')
        /\ Cardinality(snapshots') <= Cardinality(snapshots) + 1
    BY <1>2, <1>5, SnapshotWritten
  <2>2. /\ writes' \in 0..PruneEvery - 1 /\ pruning' \in {"no", "snapshots"}
        /\ pruning' # "no" => writes' = 0
        /\ Pending' = Pending + 1
    BY <1>1, <1>2, <1>5, CountKeeps
  <2>3. StoreTypeOK' BY <1>1, <1>2, <1>4, <1>5, <2>1, <2>2 DEF StoreTypeOK
  <2>4. Growth'
    <3>1. Cardinality(snapshots) <= MaxStoredSnapshots + lapses * PruneEvery + Pending
      BY <1>1 DEF Growth
    <3>2. Cardinality(snapshots) \in Nat /\ Cardinality(snapshots') \in Nat
      BY <1>1, <2>1, <2>3, LastIdTyped, NextLastIdTyped
    <3>3. Cardinality(snapshots') <= MaxStoredSnapshots + lapses * PruneEvery + Pending'
      BY <1>1, <2>1, <2>2, <3>1, <3>2, BoundTyped, StoreNumbers
    <3> QED BY <1>2, <2>2, <3>3 DEF Growth
  <2> QED BY <1>3, <2>1, <2>3, <2>4 DEF StoreInv
<1>6. CASE UNCHANGED <<snapshots, allSnapshots, writes, pruning>>
  <2>1. StoreTypeOK' BY <1>1, <1>2, <1>4, <1>6 DEF StoreTypeOK
  <2>2. Numbered' /\ Newest' BY <1>1, <1>6 DEF Numbered, Newest, LastId
  <2>3. Spaced' BY <1>1, <1>2, <1>6 DEF Spaced
  <2>4. Growth' BY <1>1, <1>2, <1>6 DEF Growth, Pending
  <2>5. ASSUME NEW r \in allSnapshots, run < r.id PROVE clock > 0 /\ clock >= r.t
    <3>1. lastSnapTime > 0 /\ lastSnapTime >= r.t BY <1>1, <2>5 DEF LastIsLatest
    <3>2. /\ clock \in Nat /\ lastSnapTime \in Nat /\ r.t \in Nat /\ clock > 0
      BY <1>1, StoreNumbers, RowTypes DEF StoreTypeOK
    <3>3. clock - lastSnapTime >= Gap BY <1>2, <3>1, <3>2, StoreNumbers DEF Throttled
    <3> QED BY <3>1, <3>2, <3>3, StoreNumbers
  <2>6. LastIsLatest' BY <1>2, <1>6, <2>5 DEF LastIsLatest
  <2> QED BY <1>3, <2>1, <2>2, <2>3, <2>4, <2>6 DEF StoreInv
<1> QED BY <1>5, <1>6 DEF RecordSnapshot, LastId

\* RecordEvent: the events grow by one whose time not too many others carry.
LEMMA RecordEventKeeps == ASSUME StoreInv, RecordEvent PROVE StoreInv'
<1>1. /\ StoreTypeOK /\ Numbered /\ Newest /\ Growth /\ LastIsLatest /\ Spaced /\ TiesBounded
      /\ EventsComplete
  BY DEF StoreInv
<1> DEFINE added == [id |-> Cardinality(allEvents) + 1, t |-> clock]
<1>2. /\ pruning = "no" /\ Cardinality(Tied(clock)) < MaxTies
      /\ events' = events \cup {added} /\ allEvents' = allEvents \cup {added} /\ Count
      /\ UNCHANGED <<clock, snapshots, lastSnapTime, allSnapshots, run, lapses>>
  BY DEF RecordEvent, Tied
<1>3. /\ writes' \in 0..PruneEvery - 1 /\ pruning' \in {"no", "snapshots"}
      /\ pruning' # "no" => writes' = 0
      /\ Pending' = Pending + 1
  BY <1>1, <1>2, CountKeeps
<1>4. IsFiniteSet(allEvents) /\ Cardinality(allEvents) \in Nat BY <1>1, EventsFinite
<1>5. added \in Row /\ added.t = clock BY <1>1, <1>4 DEF StoreTypeOK, Row
<1> HIDE DEF added
<1>6. StoreTypeOK' BY <1>1, <1>2, <1>3, <1>5 DEF StoreTypeOK
<1>7. Numbered' /\ Newest' /\ LastIsLatest' /\ Spaced'
  BY <1>1, <1>2 DEF Numbered, Newest, LastIsLatest, Spaced, LastId
<1>8. Growth'
  <2>1. Cardinality(snapshots) <= MaxStoredSnapshots + lapses * PruneEvery + Pending
    BY <1>1 DEF Growth
  <2>2. Cardinality(snapshots) \in Nat BY <1>1, LastIdTyped
  <2>3. Cardinality(snapshots) <= MaxStoredSnapshots + lapses * PruneEvery + Pending'
    BY <1>1, <1>3, <2>1, <2>2, BoundTyped, StoreNumbers
  <2> QED BY <1>2, <1>3, <2>3 DEF Growth
<1>9. TiesBounded'
  <2>1. IsFiniteSet(allEvents') BY <1>2, <1>4, FS_AddElement
  <2>2. ASSUME NEW c \in 1..MaxClock PROVE Cardinality(Tied(c)') <= MaxTies
    <3>1. IsFiniteSet(Tied(c)) /\ Cardinality(Tied(c)) \in Nat BY <1>1, EventsFinite DEF Tied
    <3>2. CASE c = clock
      <4>1. Tied(c)' = Tied(c) \cup {added} BY <1>2, <1>5, <3>2 DEF Tied
      <4>2. Cardinality(Tied(c) \cup {added})
                = IF added \in Tied(c) THEN Cardinality(Tied(c)) ELSE Cardinality(Tied(c)) + 1
        BY <3>1, FS_AddElement
      <4> QED BY <1>2, <3>1, <3>2, <4>1, <4>2, StoreNumbers
    <3>3. CASE c # clock
      <4>1. Tied(c)' = Tied(c) BY <1>2, <1>5, <3>3 DEF Tied
      <4> QED BY <1>1, <4>1 DEF TiesBounded
    <3> QED BY <3>2, <3>3
  <2> QED BY <2>1, <2>2 DEF TiesBounded
<1>10. EventsComplete'
  <2> SUFFICES ASSUME NEW e \in allEvents' \ events'
               PROVE Cardinality({f \in events' : f.t > e.t}) >= EventsMax
    BY DEF EventsComplete
  <2>1. Cardinality({f \in events : f.t > e.t}) >= EventsMax BY <1>1, <1>2 DEF EventsComplete
  <2>2. {f \in events : f.t > e.t} \in SUBSET {f \in events' : f.t > e.t} BY <1>2
  <2>3. {f \in events' : f.t > e.t} \in SUBSET allEvents' BY <1>6 DEF StoreTypeOK
  <2>4. IsFiniteSet({f \in events' : f.t > e.t})
    BY <1>9, <2>3, FS_Subset DEF TiesBounded
  <2>5. /\ Cardinality({f \in events : f.t > e.t}) <= Cardinality({f \in events' : f.t > e.t})
        /\ IsFiniteSet({f \in events : f.t > e.t})
    BY <2>2, <2>4, FS_Subset
  <2>6. /\ Cardinality({f \in events : f.t > e.t}) \in Nat
        /\ Cardinality({f \in events' : f.t > e.t}) \in Nat
    BY <2>4, <2>5, FS_CardinalityType
  <2> QED BY <2>1, <2>5, <2>6, StoreNumbers
<1> QED BY <1>6, <1>7, <1>8, <1>9, <1>10 DEF StoreInv

\* The rows that a prune of the snapshots leaves are the newest, as many as are to be kept.
LEMMA PrunedShort ==
    ASSUME StoreTypeOK, Numbered, NEW S \in SUBSET allSnapshots,
           \A r \in S : LastId - r.id < MaxStoredSnapshots
    PROVE IsFiniteSet(S) /\ Cardinality(S) <= MaxStoredSnapshots
<1> DEFINE T == (LastId - MaxStoredSnapshots + 1)..LastId
           f == [r \in S |-> r.id]
<1>1. LastId \in Nat /\ MaxStoredSnapshots \in Nat /\ MaxStoredSnapshots > 0
  BY LastIdTyped, StoreNumbers
<1>2. IsFiniteSet(T) /\ Cardinality(T) = MaxStoredSnapshots
  <2>1. LastId - MaxStoredSnapshots + 1 \in Int BY <1>1
  <2>2. /\ IsFiniteSet((LastId - MaxStoredSnapshots + 1)..LastId)
        /\ Cardinality((LastId - MaxStoredSnapshots + 1)..LastId)
             = IF LastId - MaxStoredSnapshots + 1 > LastId THEN 0
               ELSE LastId - (LastId - MaxStoredSnapshots + 1) + 1
    BY <1>1, <2>1, FS_Interval
  <2> QED BY <1>1, <2>2
<1>3. f \in [S -> T]
  <2> SUFFICES ASSUME NEW r \in S PROVE r.id \in T OBVIOUS
  <2>1. r.id \in 1..LastId /\ LastId - r.id < MaxStoredSnapshots BY DEF Numbered
  <2> QED BY <1>1, <2>1
<1>4. \A a, b \in S : f[a] = f[b] => a = b BY DEF Numbered
<1> HIDE DEF T, f
<1> QED BY <1>2, <1>3, <1>4, CountsBy

\* PruneSnapshots leaves a tail of the rows, unless it fails.
LEMMA PruneSnapshotsKeeps == ASSUME StoreInv, PruneSnapshots PROVE StoreInv'
<1>1. /\ StoreTypeOK /\ Numbered /\ Newest /\ Growth /\ LastIsLatest /\ Spaced /\ TiesBounded
      /\ EventsComplete
  BY DEF StoreInv
<1>2. /\ pruning = "snapshots" /\ pruning' = "events" /\ writes = 0
      /\ UNCHANGED <<clock, events, lastSnapTime, writes, allSnapshots, allEvents, run>>
  BY <1>1 DEF PruneSnapshots, Growth
<1>3. LastIsLatest' /\ Spaced' /\ TiesBounded' /\ EventsComplete' /\ Numbered'
  BY <1>1, <1>2 DEF LastIsLatest, Spaced, TiesBounded, Tied, EventsComplete, Numbered, LastId
<1>4. Pending' = 0 BY <1>2 DEF Pending
<1>5. CASE snapshots' = snapshots \ After(snapshots, MaxStoredSnapshots) /\ lapses' = 0
  <2>1. snapshots' = {r \in snapshots : ~(LastId - r.id >= MaxStoredSnapshots)}
    BY <1>1, <1>5, AfterStored, StoreNumbers
  <2>2. \A r \in snapshots : r \in allSnapshots /\ r.id \in Nat
    BY <1>1, RowTypes DEF StoreTypeOK
  <2>3. LastId \in Nat BY <1>1, LastIdTyped
  <2>4. \A r \in snapshots' : LastId - r.id < MaxStoredSnapshots
    BY <2>1, <2>2, <2>3, StoreNumbers
  <2>5. snapshots' \in SUBSET allSnapshots BY <2>1, <2>2
  <2>6. Cardinality(snapshots') <= MaxStoredSnapshots BY <1>1, <2>4, <2>5, PrunedShort
  <2>7. StoreTypeOK' BY <1>1, <1>2, <1>5, <2>5, StoreNumbers DEF StoreTypeOK
  <2>8. Growth' BY <1>2, <1>4, <1>5, <2>6, BoundTyped, <1>1, StoreNumbers DEF Growth
  <2>9. Newest'
    <3>1. ASSUME NEW r \in snapshots', NEW q \in allSnapshots, q.id > r.id PROVE q \in snapshots'
      <4>1. r \in snapshots BY <2>1
      <4>2. q \in snapshots BY <1>1, <3>1, <4>1 DEF Newest
      <4>3. LastId - r.id < MaxStoredSnapshots /\ r.id \in Nat /\ q.id \in Nat
        BY <2>2, <2>4, <4>1, <4>2
      <4>4. LastId - q.id < MaxStoredSnapshots BY <2>3, <3>1, <4>3, StoreNumbers
      <4> QED BY <2>1, <2>3, <4>2, <4>3, <4>4, StoreNumbers
    <3>2. ASSUME NEW r \in allSnapshots \ snapshots' PROVE LastId - r.id >= MaxStoredSnapshots
      BY <1>1, <2>1, <3>2 DEF Newest
    <3> QED BY <1>2, <3>1, <3>2 DEF Newest, LastId
  <2> QED BY <1>3, <2>7, <2>8, <2>9 DEF StoreInv
<1>6. CASE lapses < MaxLapses /\ lapses' = lapses + 1 /\ UNCHANGED snapshots
  <2>1. StoreTypeOK' BY <1>1, <1>2, <1>6, StoreNumbers DEF StoreTypeOK
  <2>2. Newest' BY <1>1, <1>2, <1>6 DEF Newest, LastId
  <2>3. Growth'
    <3>1. Cardinality(snapshots) <= MaxStoredSnapshots + lapses * PruneEvery + PruneEvery
      BY <1>1, <1>2 DEF Growth, Pending
    <3>2. /\ lapses * PruneEvery \in Nat
          /\ (lapses + 1) * PruneEvery = lapses * PruneEvery + PruneEvery
      BY <1>1, BoundTyped
    <3>3. Cardinality(snapshots) <= MaxStoredSnapshots + (lapses + 1) * PruneEvery + 0
      BY <3>1, <3>2, StoreNumbers
    <3> QED BY <1>2, <1>4, <1>6, <3>3 DEF Growth
  <2> QED BY <1>3, <2>1, <2>2, <2>3 DEF StoreInv
<1> QED BY <1>5, <1>6 DEF PruneSnapshots

\* A restart forgets the count of rows, once more for each lapse.
LEMMA RestartKeeps == ASSUME StoreInv, Restart PROVE StoreInv'
<1>1. /\ StoreTypeOK /\ Numbered /\ Newest /\ Growth /\ LastIsLatest /\ Spaced /\ TiesBounded
      /\ EventsComplete
  BY DEF StoreInv
<1>2. /\ lapses < MaxLapses /\ lapses' = lapses + 1
      /\ lastSnapTime' = 0 /\ writes' = 0 /\ pruning' = "no" /\ run' = LastId
      /\ UNCHANGED <<clock, snapshots, events, allSnapshots, allEvents>>
  BY DEF Restart, LastId
<1>3. Newest' /\ TiesBounded' /\ EventsComplete' /\ Numbered'
  BY <1>1, <1>2 DEF Newest, TiesBounded, Tied, EventsComplete, Numbered, LastId
<1>4. LastId \in Nat BY <1>1, LastIdTyped
<1>5. StoreTypeOK' BY <1>1, <1>2, <1>4, StoreNumbers DEF StoreTypeOK, LastId
<1>6. \A r \in allSnapshots : ~(LastId < r.id) BY <1>1, <1>4 DEF Numbered
<1>7. LastIsLatest' /\ Spaced' BY <1>2, <1>6 DEF LastIsLatest, Spaced
<1>8. Growth'
  <2>1. Cardinality(snapshots) <= MaxStoredSnapshots + lapses * PruneEvery + Pending
    BY <1>1 DEF Growth
  <2>2. /\ lapses * PruneEvery \in Nat /\ Pending \in Nat /\ Pending <= PruneEvery
        /\ (lapses + 1) * PruneEvery = lapses * PruneEvery + PruneEvery
        /\ Cardinality(snapshots) \in Nat
    BY <1>1, BoundTyped, LastIdTyped
  <2>3. Cardinality(snapshots) <= MaxStoredSnapshots + (lapses + 1) * PruneEvery + 0
    BY <2>1, <2>2, StoreNumbers
  <2>4. Pending' = 0 BY <1>2 DEF Pending
  <2> QED BY <1>2, <2>3, <2>4 DEF Growth
<1> QED BY <1>3, <1>5, <1>7, <1>8 DEF StoreInv

\* Every non-empty set of naturals has a least element.
LEMMA LeastNat == ASSUME NEW T \in SUBSET Nat, T # {} PROVE \E x \in T : \A y \in T : x <= y
<1> DEFINE R == {ss \in Nat \X Nat : ss[1] < ss[2]}
<1>1. IsWellFoundedOn(R, Nat) BY NatLessThanWellFounded DEF OpToRel
<1>2. \E x \in T : \A y \in T : ~ (<<y, x>> \in R)
  <2> HIDE DEF R
  <2> QED BY <1>1, WFMin
<1>3. PICK x \in T : \A y \in T : ~ (<<y, x>> \in R) BY <1>2
<1>4. ASSUME NEW y \in T PROVE x <= y
  <2>1. ~ (<<y, x>> \in R) BY <1>3
  <2>2. <<y, x>> \in Nat \X Nat OBVIOUS
  <2> QED BY <2>1, <2>2
<1> QED BY <1>4

\* Among events that were written there is a latest one.
LEMMA LatestOf ==
    ASSUME StoreTypeOK, NEW B \in SUBSET allEvents, B # {}
    PROVE \E b \in B : \A c \in B : c.t <= b.t
<1> DEFINE T == {MaxClock - b.t : b \in B}
<1>1. \A b \in B : b.t \in Nat /\ b.t <= MaxClock BY RowTypes, StoreNumbers
<1>2. T \in SUBSET Nat /\ T # {} BY <1>1, StoreNumbers
<1>3. PICK x \in T : \A y \in T : x <= y
  <2> HIDE DEF T
  <2> QED BY <1>2, LeastNat
<1>4. PICK b \in B : x = MaxClock - b.t BY <1>3
<1>5. \A c \in B : MaxClock - b.t <= MaxClock - c.t BY <1>3, <1>4
<1>6. \A c \in B : c.t <= b.t BY <1>1, <1>5, StoreNumbers
<1> QED BY <1>6

\* A prune of the events leaves as many as a query returns that are later than every
\* row beyond: of those not beyond, only ties of a row beyond are not later.
LEMMA LaterThanBeyond ==
    ASSUME StoreTypeOK, TiesBounded, NEW B \in Beyond, NEW b \in B, \A c \in B : c.t <= b.t
    PROVE Cardinality({f \in events : f.t > b.t}) >= EventsMax
<1> DEFINE Kept == events \ B
           Later == {f \in events : f.t > b.t}
           Ties == Tied(b.t)
<1>1. B \subseteq events /\ events \subseteq allEvents BY DEF Beyond, StoreTypeOK
<1>2. b.t \in 1..MaxClock /\ \A f \in events : f.t \in Nat BY <1>1, RowTypes
<1>3. IsFiniteSet(events) /\ IsFiniteSet(B) /\ IsFiniteSet(Kept) /\ IsFiniteSet(Later)
      /\ IsFiniteSet(Ties)
  BY <1>1, EventsFinite DEF Tied
<1>4. Cardinality(Ties) <= MaxTies BY <1>2 DEF TiesBounded
<1>5. Cardinality(Kept) = MaxStoredEvents
  <2>1. Cardinality(events \ B) = Cardinality(events) - Cardinality(events \cap B)
    BY <1>3, FS_Difference
  <2>2. events \cap B = B BY <1>1
  <2>3. Cardinality(events) - Cardinality(B) = MaxStoredEvents BY DEF Beyond
  <2> QED BY <2>1, <2>2, <2>3
<1>6. Kept \in SUBSET (Later \cup Ties)
  <2> SUFFICES ASSUME NEW f \in Kept, ~(f.t > b.t) PROVE f \in Ties OBVIOUS
  <2>1. b.t <= f.t BY DEF Beyond
  <2>2. f.t = b.t BY <1>2, <2>1
  <2> QED BY <1>1, <2>2 DEF Tied
<1> HIDE DEF Kept, Later, Ties
<1>7. /\ IsFiniteSet(Later \cup Ties)
      /\ Cardinality(Later \cup Ties)
           = Cardinality(Later) + Cardinality(Ties) - Cardinality(Later \cap Ties)
  BY <1>3, FS_Union
<1>8. Cardinality(Kept) <= Cardinality(Later \cup Ties) BY <1>6, <1>7, FS_Subset
<1>9. /\ Cardinality(Later) \in Nat /\ Cardinality(Ties) \in Nat
      /\ Cardinality(Later \cap Ties) \in Nat
  <2>1. Later \cap Ties \in SUBSET Later OBVIOUS
  <2>2. IsFiniteSet(Later \cap Ties) BY <1>3, <2>1, FS_Subset
  <2> QED BY <1>3, <2>2, FS_CardinalityType
<1>10. Cardinality(Later) >= EventsMax BY <1>4, <1>5, <1>7, <1>8, <1>9, StoreNumbers
<1> QED BY <1>10 DEF Later

\* A prune that takes every row of the times of the rows beyond keeps the recent
\* events complete.
LEMMA PrunedComplete ==
    ASSUME StoreTypeOK, TiesBounded, EventsComplete, NEW B \in Beyond,
           events' = {e \in events : \A b \in B : e.t # b.t}, allEvents' = allEvents
    PROVE EventsComplete'
<1>1. B \subseteq events /\ events \subseteq allEvents BY DEF Beyond, StoreTypeOK
<1>2. CASE B = {}
  <2>1. events' = events BY <1>2
  <2> QED BY <2>1 DEF EventsComplete
<1>3. CASE B # {}
  <2>1. PICK b \in B : \A c \in B : c.t <= b.t BY <1>1, <1>3, LatestOf
  <2>2. b.t \in Nat /\ (\A f \in allEvents : f.t \in Nat) BY <1>1, RowTypes
  <2>3. Cardinality({f \in events : f.t > b.t}) >= EventsMax BY <2>1, LaterThanBeyond
  <2>4. ASSUME NEW f \in events, f.t > b.t PROVE f \in events'
    <3>1. \A c \in B : f.t # c.t BY <1>1, <2>1, <2>2, <2>4
    <3> QED BY <3>1
  <2> SUFFICES ASSUME NEW e \in allEvents \ events'
               PROVE Cardinality({f \in events' : f.t > e.t}) >= EventsMax
    BY DEF EventsComplete
  <2> DEFINE After_e == {f \in events' : f.t > e.t}
  <2>5. After_e \in SUBSET allEvents BY <1>1
  <2>6. IsFiniteSet(After_e) /\ Cardinality(After_e) \in Nat BY <2>5, EventsFinite
  <2>7. CASE e.t <= b.t
    <3>1. {f \in events : f.t > b.t} \in SUBSET After_e
      BY <1>1, <2>2, <2>4, <2>7
    <3>2. {f \in events : f.t > b.t} \in SUBSET allEvents BY <1>1
    <3>3. Cardinality({f \in events : f.t > b.t}) \in Nat BY <3>2, EventsFinite
    <3>4. Cardinality({f \in events : f.t > b.t}) <= Cardinality(After_e)
      BY <2>6, <3>1, FS_Subset
    <3> QED BY <2>3, <2>6, <3>3, <3>4, StoreNumbers
  <2>8. CASE ~(e.t <= b.t)
    <3>1. e.t > b.t BY <2>2, <2>8
    <3>2. e \notin events BY <2>4, <3>1
    <3>3. Cardinality({f \in events : f.t > e.t}) >= EventsMax BY <3>2 DEF EventsComplete
    <3>4. {f \in events : f.t > e.t} = After_e
      <4>1. \A f \in events : f.t > e.t => f.t > b.t BY <1>1, <2>2, <3>1
      <4> QED BY <2>4, <4>1
    <3> QED BY <3>3, <3>4
  <2> QED BY <2>7, <2>8
<1> QED BY <1>2, <1>3

\* PruneEvents leaves the snapshots alone.
LEMMA PruneEventsKeeps == ASSUME StoreInv, PruneEvents PROVE StoreInv'
<1>1. /\ StoreTypeOK /\ Numbered /\ Newest /\ Growth /\ LastIsLatest /\ Spaced /\ TiesBounded
      /\ EventsComplete
  BY DEF StoreInv
<1>2. /\ pruning = "events" /\ pruning' = "no"
      /\ UNCHANGED <<clock, snapshots, lastSnapTime, writes, allSnapshots, allEvents, run, lapses>>
  BY DEF PruneEvents, historyVars
<1>3. Newest' /\ TiesBounded' /\ Numbered' /\ LastIsLatest' /\ Spaced'
  BY <1>1, <1>2 DEF Newest, TiesBounded, Tied, Numbered, LastIsLatest, Spaced, LastId
<1>4. events' \subseteq events BY DEF PruneEvents
<1>5. StoreTypeOK' BY <1>1, <1>2, <1>4 DEF StoreTypeOK
<1>6. Growth' BY <1>1, <1>2 DEF Growth, Pending
<1>7. EventsComplete'
  <2>1. CASE events' = events BY <1>1, <1>2, <2>1 DEF EventsComplete
  <2>2. ASSUME NEW B \in Beyond, events' = {e \in events : \A b \in B : e.t # b.t}
        PROVE EventsComplete'
    BY <1>1, <1>2, <2>2, PrunedComplete
  <2> QED BY <2>1, <2>2 DEF PruneEvents
<1> QED BY <1>3, <1>5, <1>6, <1>7 DEF StoreInv

\* The inductive invariant of the store.
LEMMA StoreInductive == StoreSpec => []StoreInv
<1>1. StoreInit => StoreInv
  <2> SUFFICES ASSUME StoreInit PROVE StoreInv OBVIOUS
  <2>1. LastId = 0 /\ IsFiniteSet(allSnapshots) /\ IsFiniteSet(allEvents)
        /\ Cardinality(snapshots) = 0
    BY FS_EmptySet DEF StoreInit, LastId
  <2>2. StoreTypeOK BY <2>1, StoreNumbers DEF StoreInit, StoreTypeOK, LastId
  <2>3. Numbered /\ Newest /\ LastIsLatest /\ Spaced /\ EventsComplete
    BY <2>1 DEF StoreInit, Numbered, Newest, LastIsLatest, Spaced, EventsComplete
  <2>4. \A c : Tied(c) = {} BY DEF StoreInit, Tied
  <2>5. TiesBounded BY <2>1, <2>4, FS_EmptySet, StoreNumbers DEF TiesBounded
  <2>6. Growth BY <2>1, <2>2, BoundTyped, StoreNumbers DEF StoreInit, Growth
  <2> QED BY <2>2, <2>3, <2>5, <2>6 DEF StoreInv
<1>2. StoreInv /\ [StoreNext]_storeVars => StoreInv'
  <2> SUFFICES ASSUME StoreInv, [StoreNext]_storeVars PROVE StoreInv' OBVIOUS
  <2>1. CASE RecordSnapshot BY <2>1, RecordSnapshotKeeps
  <2>2. CASE RecordEvent BY <2>2, RecordEventKeeps
  <2>3. CASE PruneSnapshots BY <2>3, PruneSnapshotsKeeps
  <2>4. CASE PruneEvents BY <2>4, PruneEventsKeeps
  <2>5. CASE Restart BY <2>5, RestartKeeps
  <2>6. ASSUME clock' \in 1..MaxClock, UNCHANGED <<snapshots, events, memory, historyVars>>
        PROVE StoreInv'
    BY <2>6 DEF StoreInv, StoreTypeOK, Numbered, Newest, Growth, Pending, LastIsLatest, Spaced,
               TiesBounded, Tied, EventsComplete, LastId, memory, historyVars
  <2>7. CASE ClockMoves BY <2>6, <2>7 DEF ClockMoves
  <2>8. CASE UNCHANGED storeVars BY <2>6, <2>8 DEF storeVars, StoreInv, StoreTypeOK
  <2> QED BY <2>1, <2>2, <2>3, <2>4, <2>5, <2>7, <2>8 DEF StoreNext
<1> QED BY <1>1, <1>2, PTL DEF StoreSpec

\* The variables of the store have their types; the tables hold rows that were written.
THEOREM StoreTypeCorrect == StoreSpec => []StoreTypeOK
<1>1. StoreInv => StoreTypeOK BY DEF StoreInv
<1> QED BY <1>1, StoreInductive, PTL

\* The history answers with the newest snapshots ever stored, as many as it is asked
\* for, in the midst of a prune, after one that failed and after a restart.
THEOREM HistoryCompleteHolds == StoreSpec => []HistoryComplete
<1>1. StoreInv => HistoryComplete
  <2> SUFFICES ASSUME StoreInv, NEW limit \in 0..HistoryMax + 1
               PROVE LET n == ClampLimit(limit, HistoryDefault, HistoryMax)
                     IN QueryHistory(limit) = allSnapshots \ After(allSnapshots, n)
    BY DEF HistoryComplete
  <2> DEFINE n == ClampLimit(limit, HistoryDefault, HistoryMax)
  <2>1. StoreTypeOK /\ Numbered /\ Newest BY DEF StoreInv
  <2>2. n \in Nat /\ n <= MaxStoredSnapshots BY StoreNumbers DEF ClampLimit
  <2> HIDE DEF n
  <2>3. QueryHistory(limit) = snapshots \ {r \in snapshots : LastId - r.id >= n}
    BY <2>1, <2>2, AfterStored DEF QueryHistory, n
  <2>4. After(allSnapshots, n) = {r \in allSnapshots : LastId - r.id >= n}
    BY <2>1, <2>2, AfterAll
  <2>5. ASSUME NEW r \in allSnapshots, r \notin snapshots PROVE LastId - r.id >= n
    <3>1. LastId - r.id >= MaxStoredSnapshots BY <2>1, <2>5 DEF Newest
    <3>2. LastId \in Nat /\ r.id \in Nat BY <2>1, LastIdTyped, RowTypes
    <3> QED BY <2>2, <3>1, <3>2, StoreNumbers
  <2>6. snapshots \subseteq allSnapshots BY <2>1 DEF StoreTypeOK
  <2>7. QueryHistory(limit) = allSnapshots \ After(allSnapshots, n) BY <2>3, <2>4, <2>5, <2>6
  <2> QED BY <2>7 DEF n
<1> QED BY <1>1, StoreInductive, PTL

\* An event that is gone is older than as many stored ones as a query returns.
THEOREM EventsCompleteHolds == StoreSpec => []EventsComplete
<1>1. StoreInv => EventsComplete BY DEF StoreInv
<1> QED BY <1>1, StoreInductive, PTL

\* The times of the snapshots of one run rise by the gap, whatever the clock does.
THEOREM SpacedHolds == StoreSpec => []Spaced
<1>1. StoreInv => Spaced BY DEF StoreInv
<1> QED BY <1>1, StoreInductive, PTL

\* The table of snapshots is bounded by the rows to keep, those until the next prune,
\* and as many again for every lapse since snapshots were pruned last.
THEOREM GrowthIsBoundedHolds == StoreSpec => []GrowthIsBounded
<1>1. StoreInv => GrowthIsBounded
  <2> SUFFICES ASSUME StoreInv PROVE GrowthIsBounded OBVIOUS
  <2>1. StoreTypeOK /\ Numbered /\ Growth BY DEF StoreInv
  <2>2. Cardinality(snapshots) <= MaxStoredSnapshots + lapses * PruneEvery + Pending
    BY <2>1 DEF Growth
  <2>3. Cardinality(snapshots) <= MaxStoredSnapshots + (lapses + 1) * PruneEvery
    BY <2>1, <2>2, BoundTyped, LastIdTyped, StoreNumbers
  <2> QED BY <2>3 DEF GrowthIsBounded
<1> QED BY <1>1, StoreInductive, PTL

=============================================================================
