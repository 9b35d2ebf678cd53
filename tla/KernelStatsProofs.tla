------------------------- MODULE KernelStatsProofs -------------------------
(***************************************************************************)
(* Proofs about KernelStats: what the samples report is true while the     *)
(* processes end in order, no call is lost while the map has room, and the *)
(* calls that bump_syscall loses are bounded by the threads as long as     *)
(* syscall_counts has room for the numbers called.                         *)
(*                                                                         *)
(* The argument is a balance for each process: what was reported, what its *)
(* entry holds beyond that and the calls on their way to the entry never   *)
(* exceed the calls made, and equal them unless a full map refused one.    *)
(***************************************************************************)
EXTENDS KernelStats, FiniteSetTheorems, TLAPS

Living(p) == ThreadsOf(p) \subseteq alive

\* The processes that made a call, and whether the map has room for them all.
Callers == {q \in Proc : made[q] > 0}
Roomy == Cardinality(Callers) <= StatsCap

\* What readProcessStats would have seen of p if it read its entry now.
Seen(p) == IF p \in held THEN stats[p] ELSE prev[p]

\* The places of tp_sys_enter before the addition.
Pending == {"lookup", "insert", "again", "found"}

\* Only a living thread is in the program, and its process has made a call.
Placed == \A t \in Thread : at[t] # "out" => t \in alive /\ made[Owner[t]] > 0

EndsForGood == \A t \in Thread \ alive : ThreadsOf(Owner[t]) = {t}
FoundIsHeld == \A t \in Thread : at[t] = "found" => Owner[t] \in held

\* The balance of p.
Accounted(p) == /\ reported[p] = prev[p] /\ prev[p] <= Seen(p)
                /\ Seen(p) + Cardinality(Uncounted(p)) <= made[p]
                /\ (Living(p) /\ p \notin held) => prev[p] = 0

AgainIsHeld == \A t \in Thread : at[t] = "again" => Owner[t] \in held
Balanced(p) == Living(p) => Seen(p) + Cardinality(Uncounted(p)) = made[p]

Base == TypeOK /\ Placed /\ held \subseteq Callers
OrderlyInv == orderly => EndsForGood /\ FoundIsHeld /\ \A p \in Proc : Accounted(p)
RoomyInv == orderly /\ Roomy => AgainIsHeld /\ \A p \in Proc : Balanced(p)

\* Threads that found no counter of call n and are about to make it.
First(n) == {t \in Thread : at[t] = "first" /\ nr[t] = n}

\* Before the counter of n is made, no call of n was counted; after that, each
\* thread but the one that made it has lost a call, or may yet lose one.
Bumped(n) == /\ n \notin nrHeld => bumps[n] = 0
             /\ n \in nrHeld =>
                  bumps[n] - nrs[n] + Cardinality(First(n)) <= Cardinality(Thread) - 1

\* Only numbers called have a counter, and no counter is ahead of the calls;
\* the losses are bounded while the map has room for the numbers called.
Counters == nrHeld \subseteq Called /\ \A n \in Nr : nrs[n] <= bumps[n]
Fits == Cardinality(Called) <= NrCap
LossInv == Counters /\ (Fits => \A n \in Nr : Bumped(n))

-----------------------------------------------------------------------------
(* Types                                                                   *)

\* The sum of two naturals taken modulo m is below m.
LEMMA ModTyped == ASSUME NEW x \in Nat, NEW m \in Nat, m > 0 PROVE x % m \in 0..m - 1
OBVIOUS

\* A natural below m is its own remainder.
LEMMA ModSmall == ASSUME NEW x \in Nat, NEW m \in Nat, x < m PROVE x % m = x
OBVIOUS

\* Subtraction of uint64 that does not pass zero.
LEMMA MinusExact ==
    ASSUME NEW a \in Nat, NEW b \in Nat, b <= a, a < Modulus
    PROVE Minus(a, b) = a - b
<1>1. Modulus \in Nat BY BoundsFit
<1>2. (Modulus + (a - b)) % Modulus = a - b BY <1>1
<1>3. Modulus + a - b = Modulus + (a - b) BY <1>1
<1> QED BY <1>2, <1>3 DEF Minus

\* A difference of readings is a reading.
LEMMA MinusTyped ==
    ASSUME NEW a \in 0..Modulus - 1, NEW b \in 0..Modulus - 1
    PROVE Minus(a, b) \in Nat
<1>1. Modulus \in Nat /\ Modulus > 0 BY BoundsFit
<1>2. Modulus + a - b \in Nat BY <1>1
<1> QED BY <1>1, <1>2, ModTyped DEF Minus

\* What the variables hold of one process, as numbers.
LEMMA ProcTypes ==
    ASSUME TypeOK, NEW p \in Proc
    PROVE /\ stats[p] \in Nat /\ stats[p] < Modulus /\ prev[p] \in Nat /\ prev[p] < Modulus
          /\ made[p] \in Nat /\ made[p] <= MaxCalls /\ MaxCalls < Modulus
          /\ reported[p] \in Nat /\ Modulus \in Nat /\ MaxCalls \in Nat
          /\ Seen(p) \in Nat
<1>1. /\ stats \in [Proc -> 0..Modulus - 1] /\ prev \in [Proc -> 0..Modulus - 1]
      /\ made \in [Proc -> 0..MaxCalls] /\ reported \in [Proc -> Nat]
  BY DEF TypeOK
<1>2. Modulus \in Nat /\ MaxCalls \in Nat /\ Modulus > MaxCalls BY BoundsFit
<1>3. stats[p] \in 0..Modulus - 1 /\ prev[p] \in 0..Modulus - 1 /\ made[p] \in 0..MaxCalls
      /\ reported[p] \in Nat
  BY <1>1
<1> QED BY <1>2, <1>3 DEF Seen

\* The owner of a thread is a process.
LEMMA OwnerIsProc == ASSUME NEW t \in Thread PROVE Owner[t] \in Proc
BY ThreadsHaveOwners

\* process_stats is finite.
LEMMA HeldFinite ==
    ASSUME TypeOK PROVE IsFiniteSet(held) /\ Cardinality(held) \in Nat
<1>1. held \in SUBSET Proc BY DEF TypeOK
<1>2. IsFiniteSet(held) BY <1>1, SetsAreFinite, FS_Subset
<1> QED BY <1>2, FS_CardinalityType

\* A step keeps the types of the map process_stats: what Insert does to it.
LEMMA InsertTyped ==
    ASSUME TypeOK, NEW t \in Thread, Insert(t)
    PROVE /\ held' \subseteq Proc /\ Cardinality(held') <= StatsCap
          /\ stats' \in [Proc -> 0..Modulus - 1]
<1>1. Owner[t] \in Proc BY OwnerIsProc
<1>2. IsFiniteSet(held) /\ Cardinality(held) \in Nat BY HeldFinite
<1>3. CASE Owner[t] \notin held /\ HasRoom(Owner[t])
  <2>1. held' = held \cup {Owner[t]} /\ stats' = [stats EXCEPT ![Owner[t]] = 0]
    BY <1>3 DEF Insert
  <2>2. Cardinality(held) < StatsCap BY <1>3 DEF HasRoom
  <2>3. Cardinality(held \cup {Owner[t]}) = Cardinality(held) + 1 BY <1>2, <1>3, FS_AddElement
  <2>4. Cardinality(held') <= StatsCap BY <1>2, <2>1, <2>2, <2>3, BoundsFit
  <2>5. 0 \in 0..Modulus - 1 BY BoundsFit
  <2> QED BY <1>1, <2>1, <2>4, <2>5 DEF TypeOK
<1>4. CASE ~(Owner[t] \notin held /\ HasRoom(Owner[t]))
  BY <1>4 DEF Insert, TypeOK
<1> QED BY <1>3, <1>4

\* syscall_counts is finite.
LEMMA NrHeldFinite ==
    ASSUME TypeOK PROVE IsFiniteSet(nrHeld) /\ Cardinality(nrHeld) \in Nat
<1>1. nrHeld \in SUBSET Nr BY DEF TypeOK
<1>2. IsFiniteSet(nrHeld) BY <1>1, NumbersFit, FS_Subset
<1> QED BY <1>2, FS_CardinalityType

\* The same of the map syscall_counts: what BumpFirst does to it.
LEMMA BumpFirstTyped ==
    ASSUME TypeOK, NEW t \in Thread, BumpFirst(t)
    PROVE /\ nrHeld' \subseteq Nr /\ Cardinality(nrHeld') <= NrCap
          /\ nrs' \in [Nr -> Nat] /\ bumps' \in [Nr -> Nat]
<1>1. nr[t] \in Nr BY DEF TypeOK
<1>2. IsFiniteSet(nrHeld) /\ Cardinality(nrHeld) \in Nat BY NrHeldFinite
<1>3. bumps' \in [Nr -> Nat] BY <1>1 DEF BumpFirst, TypeOK
<1>4. CASE nr[t] \notin nrHeld /\ NrHasRoom(nr[t])
  <2>1. nrHeld' = nrHeld \cup {nr[t]} /\ nrs' = [nrs EXCEPT ![nr[t]] = 1]
    BY <1>4 DEF BumpFirst
  <2>2. Cardinality(nrHeld) < NrCap BY <1>4 DEF NrHasRoom
  <2>3. Cardinality(nrHeld \cup {nr[t]}) = Cardinality(nrHeld) + 1 BY <1>2, <1>4, FS_AddElement
  <2>4. Cardinality(nrHeld') <= NrCap BY <1>2, <2>1, <2>2, <2>3, NumbersFit
  <2> QED BY <1>1, <1>3, <2>1, <2>4 DEF TypeOK
<1>5. CASE ~(nr[t] \notin nrHeld /\ NrHasRoom(nr[t]))
  BY <1>3, <1>5 DEF BumpFirst, TypeOK
<1> QED BY <1>4, <1>5

\* What Count does to the counters.
LEMMA CountTyped ==
    ASSUME TypeOK, NEW t \in Thread, Count(t)
    PROVE stats' \in [Proc -> 0..Modulus - 1]
<1>1. CASE stats' = stats BY <1>1 DEF TypeOK
<1>2. ASSUME NEW q \in Proc, stats' = [stats EXCEPT ![q] = (@ + 1) % Modulus]
      PROVE stats' \in [Proc -> 0..Modulus - 1]
  <2>1. stats[q] + 1 \in Nat /\ Modulus \in Nat /\ Modulus > 0 BY ProcTypes
  <2>2. (stats[q] + 1) % Modulus \in 0..Modulus - 1 BY <2>1, ModTyped
  <2> QED BY <1>2, <2>2 DEF TypeOK
<1>3. Owner[t] \in Proc /\ held \subseteq Proc BY OwnerIsProc DEF TypeOK
<1> QED BY <1>1, <1>2, <1>3 DEF Count

\* The variables of the program keep their types; so does where threads are.
LEMMA GoesTyped ==
    ASSUME TypeOK, NEW t \in Thread, NEW f, NEW g \in Places, Goes(t, f, g)
    PROVE at' \in [Thread -> Places]
BY DEF Goes, TypeOK

\* Every step keeps the types.
LEMMA TypeStep == TypeOK /\ [Next]_vars => TypeOK'
<1> SUFFICES ASSUME TypeOK, [Next]_vars PROVE TypeOK' OBVIOUS
<1>1. ASSUME NEW t \in Thread, SysEnter(t) PROVE TypeOK'
  <2>1. Owner[t] \in Proc BY OwnerIsProc
  <2>2. at' \in [Thread -> Places] BY <1>1, GoesTyped DEF SysEnter, Places
  <2>3. made[Owner[t]] + 1 \in 0..MaxCalls BY <1>1, <2>1, ProcTypes DEF SysEnter
  <2>4. made' \in [Proc -> 0..MaxCalls] BY <1>1, <2>3 DEF SysEnter, TypeOK
  <2>5. nr' \in [Thread -> Nr] BY <1>1 DEF SysEnter, TypeOK
  <2> QED BY <1>1, <2>2, <2>4, <2>5 DEF SysEnter, TypeOK, agentVars
<1>2. ASSUME NEW t \in Thread, Lookup(t) PROVE TypeOK'
  <2>1. at' \in [Thread -> Places]
    BY <1>2 DEF Lookup, Goes, TypeOK, Places
  <2> QED BY <1>2, <2>1 DEF Lookup, TypeOK, agentVars, historyVars
<1>3. ASSUME NEW t \in Thread, Insert(t) PROVE TypeOK'
  <2>1. at' \in [Thread -> Places] BY <1>3, GoesTyped DEF Insert, Places
  <2>2. /\ held' \subseteq Proc /\ Cardinality(held') <= StatsCap
        /\ stats' \in [Proc -> 0..Modulus - 1]
    BY <1>3, InsertTyped
  <2> QED BY <1>3, <2>1, <2>2 DEF Insert, TypeOK, agentVars, historyVars
<1>4. ASSUME NEW t \in Thread, LookupAgain(t) PROVE TypeOK'
  <2>1. at' \in [Thread -> Places]
    BY <1>4 DEF LookupAgain, Goes, TypeOK, Places
  <2> QED BY <1>4, <2>1 DEF LookupAgain, TypeOK, agentVars, historyVars
<1>5. ASSUME NEW t \in Thread, Count(t) PROVE TypeOK'
  <2>1. at' \in [Thread -> Places] BY <1>5, GoesTyped DEF Count, Places
  <2>2. stats' \in [Proc -> 0..Modulus - 1] BY <1>5, CountTyped
  <2>3. UNCHANGED <<alive, nr, held, nrHeld, nrs, agentVars, historyVars>> BY <1>5 DEF Count
  <2> QED BY <2>1, <2>2, <2>3 DEF TypeOK, agentVars, historyVars
<1>6. ASSUME NEW t \in Thread, Bump(t) PROVE TypeOK'
  <2>1. at' \in [Thread -> Places] BY <1>6 DEF Bump, Goes, TypeOK, Places
  <2>2. nrs' \in [Nr -> Nat] /\ bumps' \in [Nr -> Nat] BY <1>6 DEF Bump, TypeOK
  <2> QED BY <1>6, <2>1, <2>2 DEF Bump, TypeOK, agentVars
<1>7. ASSUME NEW t \in Thread, BumpFirst(t) PROVE TypeOK'
  <2>1. at' \in [Thread -> Places] BY <1>7, GoesTyped DEF BumpFirst, Places
  <2>2. /\ nrHeld' \subseteq Nr /\ Cardinality(nrHeld') <= NrCap
        /\ nrs' \in [Nr -> Nat] /\ bumps' \in [Nr -> Nat]
    BY <1>7, BumpFirstTyped
  <2> QED BY <1>7, <2>1, <2>2 DEF BumpFirst, TypeOK, agentVars
<1>8. ASSUME NEW t \in Thread, ThreadExit(t) PROVE TypeOK'
  <2>1. Owner[t] \in Proc BY OwnerIsProc
  <2>2. held' \in SUBSET held BY <1>8 DEF ThreadExit
  <2>3. IsFiniteSet(held') /\ Cardinality(held') <= Cardinality(held)
    BY <2>2, HeldFinite, FS_Subset
  <2>4. Cardinality(held') \in Nat BY <2>3, FS_CardinalityType
  <2>5. Cardinality(held') <= StatsCap BY <2>3, <2>4, HeldFinite, BoundsFit DEF TypeOK
  <2>6. alive' \subseteq Thread /\ announced' \subseteq Proc /\ held' \subseteq Proc
    BY <1>8, <2>1, <2>2 DEF ThreadExit, TypeOK
  <2>7. orderly' \in BOOLEAN BY <1>8 DEF ThreadExit, TypeOK
  <2>8. UNCHANGED <<at, nr, stats, nrHeld, nrs, agentVars, made, bumps, reported>>
    BY <1>8 DEF ThreadExit
  <2> QED BY <2>5, <2>6, <2>7, <2>8 DEF TypeOK, agentVars
<1>9. ASSUME NEW p \in Proc, ReusePid(p) PROVE TypeOK'
  <2>1. alive' \subseteq Thread /\ announced' \subseteq Proc /\ orderly' \in BOOLEAN
    BY <1>9 DEF ReusePid, TypeOK, ThreadsOf
  <2>2. UNCHANGED <<at, nr, held, stats, nrHeld, nrs, agentVars, made, bumps, reported>>
    BY <1>9 DEF ReusePid
  <2> QED BY <2>1, <2>2 DEF TypeOK, agentVars
<1>10. ASSUME NEW p \in Proc, SampleReads(p) PROVE TypeOK'
  <2>1. stats[p] \in 0..Modulus - 1 /\ prev[p] \in 0..Modulus - 1 BY DEF TypeOK
  <2>2. Minus(stats[p], prev[p]) \in Nat BY <2>1, MinusTyped
  <2>3. reported[p] + Minus(stats[p], prev[p]) \in Nat BY <2>2, ProcTypes
  <2>4. reported' \in [Proc -> Nat] BY <1>10, <2>3 DEF SampleReads, TypeOK
  <2>5. prev' \in [Proc -> 0..Modulus - 1] BY <1>10, <2>1 DEF SampleReads, TypeOK
  <2>6. todo' \subseteq Proc BY <1>10 DEF SampleReads, TypeOK
  <2> QED BY <1>10, <2>4, <2>5, <2>6 DEF SampleReads, TypeOK, kernelVars
<1>11. CASE SampleStarts
  BY <1>11 DEF SampleStarts, TypeOK, kernelVars, historyVars
<1>12. CASE SampleEnds
  BY <1>12 DEF SampleEnds, TypeOK, kernelVars, historyVars
<1>13. CASE UNCHANGED vars
  BY <1>13 DEF vars, kernelVars, agentVars, historyVars, TypeOK
<1> QED BY <1>1, <1>2, <1>3, <1>4, <1>5, <1>6, <1>7, <1>8, <1>9, <1>10, <1>11, <1>12, <1>13
     DEF Next, SysEnterStep

\* The variables have their types at the start.
LEMMA InitTyped == Init => TypeOK
<1> SUFFICES ASSUME Init PROVE TypeOK OBVIOUS
<1>1. Cardinality(held) = 0 BY FS_EmptySet DEF Init
<1>2. 0 \in 0..Modulus - 1 /\ 0 \in 0..MaxCalls /\ 0 <= StatsCap /\ 0 <= NrCap
  BY BoundsFit, NumbersFit
<1>3. Cardinality(nrHeld) = 0 BY FS_EmptySet DEF Init
<1> QED BY <1>1, <1>2, <1>3 DEF Init, TypeOK, Places

\* Every variable has its type and process_stats stays within its capacity.
THEOREM TypeCorrect == Spec => []TypeOK
BY InitTyped, TypeStep, PTL DEF Spec


-----------------------------------------------------------------------------
(* The threads in the program                                              *)

\* A step of a thread that stays before the addition, or stays out of it,
\* changes the calls under way of no process.
LEMMA PendingSame ==
    ASSUME TypeOK, NEW t \in Thread, NEW f, NEW g, Goes(t, f, g),
           (f \in Pending) <=> (g \in Pending), NEW p
    PROVE Uncounted(p)' = Uncounted(p)
<1>1. at \in [Thread -> Places] BY DEF TypeOK
<1>2. \A u \in Thread : at'[u] = IF u = t THEN g ELSE at[u] BY <1>1 DEF Goes
<1>3. at[t] = f BY DEF Goes
<1>4. \A u \in Thread : (at'[u] \in Pending) <=> (at[u] \in Pending) BY <1>2, <1>3
<1> QED BY <1>4 DEF Uncounted, ThreadsOf, Pending

\* The calls of a process under way are finitely many.
LEMMA UncountedFinite ==
    ASSUME NEW p
    PROVE IsFiniteSet(Uncounted(p)) /\ Cardinality(Uncounted(p)) \in Nat
<1>1. Uncounted(p) \in SUBSET Thread BY DEF Uncounted, ThreadsOf
<1>2. IsFiniteSet(Uncounted(p)) BY <1>1, SetsAreFinite, FS_Subset
<1> QED BY <1>2, FS_CardinalityType

\* A thread that enters is one more call under way of its process.
LEMMA PendingGains ==
    ASSUME TypeOK, NEW t \in Thread, NEW f, NEW g, Goes(t, f, g),
           f \notin Pending, g \in Pending, NEW p
    PROVE Cardinality(Uncounted(p)') =
              Cardinality(Uncounted(p)) + IF p = Owner[t] THEN 1 ELSE 0
<1>1. at \in [Thread -> Places] /\ at[t] = f BY DEF TypeOK, Goes
<1>2. \A u \in Thread : at'[u] = IF u = t THEN g ELSE at[u] BY <1>1 DEF Goes
<1>3. CASE p = Owner[t]
  <2>1. Uncounted(p)' = Uncounted(p) \cup {t}
    BY <1>2, <1>3 DEF Uncounted, ThreadsOf, Pending
  <2>2. t \notin Uncounted(p) BY <1>1 DEF Uncounted, Pending
  <2>3. Cardinality(Uncounted(p) \cup {t}) = Cardinality(Uncounted(p)) + 1
    BY <2>2, UncountedFinite, FS_AddElement
  <2> QED BY <1>3, <2>1, <2>3
<1>4. CASE p # Owner[t]
  <2>1. Uncounted(p)' = Uncounted(p)
    BY <1>2, <1>4 DEF Uncounted, ThreadsOf
  <2> QED BY <1>4, <2>1, UncountedFinite
<1> QED BY <1>3, <1>4

\* A thread that is past the addition is one call under way less.
LEMMA PendingLoses ==
    ASSUME TypeOK, NEW t \in Thread, NEW f, NEW g, Goes(t, f, g),
           f \in Pending, g \notin Pending, NEW p
    PROVE Cardinality(Uncounted(p)') =
              Cardinality(Uncounted(p)) - IF p = Owner[t] THEN 1 ELSE 0
<1>1. at \in [Thread -> Places] /\ at[t] = f BY DEF TypeOK, Goes
<1>2. \A u \in Thread : at'[u] = IF u = t THEN g ELSE at[u] BY <1>1 DEF Goes
<1>3. CASE p = Owner[t]
  <2>1. Uncounted(p)' = Uncounted(p) \ {t}
    BY <1>2, <1>3 DEF Uncounted, ThreadsOf, Pending
  <2>2. t \in Uncounted(p) BY <1>1, <1>3 DEF Uncounted, ThreadsOf, Pending
  <2>3. Cardinality(Uncounted(p) \ {t}) = Cardinality(Uncounted(p)) - 1
    BY <2>2, UncountedFinite, FS_RemoveElement
  <2> QED BY <1>3, <2>1, <2>3
<1>4. CASE p # Owner[t]
  <2>1. Uncounted(p)' = Uncounted(p)
    BY <1>2, <1>4 DEF Uncounted, ThreadsOf
  <2> QED BY <1>4, <2>1, UncountedFinite
<1> QED BY <1>3, <1>4

\* A process with a call under way has at least one.
LEMMA PendingCounts ==
    ASSUME NEW t \in Thread, at[t] \in Pending
    PROVE Cardinality(Uncounted(Owner[t])) >= 1
<1>1. t \in Uncounted(Owner[t]) BY DEF Uncounted, ThreadsOf, Pending
<1>2. Cardinality(Uncounted(Owner[t])) # 0 BY <1>1, UncountedFinite, FS_EmptySet
<1> QED BY <1>2, UncountedFinite

\* Calls made are never taken back.
LEMMA MadeGrows ==
    ASSUME TypeOK, [Next]_vars
    PROVE \A p \in Proc : made'[p] >= made[p]
<1>1. ASSUME NEW t \in Thread, SysEnter(t) PROVE \A p \in Proc : made'[p] >= made[p]
  <2>1. made \in [Proc -> 0..MaxCalls] /\ MaxCalls \in Nat BY BoundsFit DEF TypeOK
  <2>2. made' = [made EXCEPT ![Owner[t]] = @ + 1] BY <1>1 DEF SysEnter
  <2> QED BY <2>1, <2>2
<1>2. CASE made' = made
  <2>1. \A p \in Proc : made[p] \in Nat BY ProcTypes
  <2> QED BY <1>2, <2>1
<1>3. (\E t \in Thread : SysEnter(t)) \/ made' = made
  BY DEF Next, SysEnterStep, Lookup, Insert, LookupAgain, Count, Bump, BumpFirst, ThreadExit,
         ReusePid, SampleReads, SampleStarts, SampleEnds, vars, historyVars
<1> QED BY <1>1, <1>2, <1>3

\* A process that made a call has made one for ever.
LEMMA CallersGrow == ASSUME TypeOK, [Next]_vars PROVE Callers \subseteq Callers'
<1>1. ASSUME NEW p \in Proc, made[p] > 0 PROVE made'[p] > 0
  <2>1. made'[p] >= made[p] /\ made[p] \in Nat BY MadeGrows, ProcTypes
  <2>2. TypeOK' BY TypeStep
  <2>3. made'[p] \in Nat BY <2>2, BoundsFit DEF TypeOK
  <2> QED BY <1>1, <2>1, <2>3
<1> QED BY <1>1 DEF Callers

\* A thread that moves on inside the program: it was there, and stays placed.
LEMMA MovesPlaced ==
    ASSUME TypeOK, Placed, [Next]_vars, NEW t \in Thread, NEW f, NEW g, Goes(t, f, g), f # "out",
           alive' = alive
    PROVE Placed'
<1>1. at \in [Thread -> Places] /\ at[t] = f BY DEF TypeOK, Goes
<1>2. \A u \in Thread : at'[u] # "out" => at[u] # "out" BY <1>1 DEF Goes
<1>3. \A u \in Thread : made[Owner[u]] > 0 => made'[Owner[u]] > 0
  BY CallersGrow, OwnerIsProc DEF Callers
<1> QED BY <1>2, <1>3 DEF Placed

\* Threads are in the program only while they live, for a process that made a
\* call; so only such a process has an entry.
LEMMA BaseStep == Base /\ [Next]_vars => Base'
<1> SUFFICES ASSUME Base, [Next]_vars PROVE Placed' /\ held' \subseteq Callers'
  BY TypeStep DEF Base
<1>0. TypeOK /\ TypeOK' /\ Placed /\ held \subseteq Callers BY TypeStep DEF Base
<1>1. Callers \subseteq Callers' BY <1>0, CallersGrow
<1>2. ASSUME held' = held PROVE held' \subseteq Callers' BY <1>0, <1>1, <1>2
<1>3. ASSUME at' = at, alive \subseteq alive' PROVE Placed'
  <2>1. ASSUME NEW t \in Thread, at[t] # "out" PROVE t \in alive' /\ made'[Owner[t]] > 0
    <3>1. Owner[t] \in Callers BY <1>0, <2>1, OwnerIsProc DEF Placed, Callers
    <3>2. Owner[t] \in Callers' BY <1>1, <3>1
    <3>3. t \in alive' BY <1>0, <1>3, <2>1 DEF Placed
    <3> QED BY <3>2, <3>3 DEF Callers
  <2> QED BY <1>3, <2>1 DEF Placed
<1>4. ASSUME NEW t \in Thread, SysEnter(t) PROVE Placed' /\ held' \subseteq Callers'
  <2>1. at \in [Thread -> Places] /\ made \in [Proc -> 0..MaxCalls] /\ MaxCalls \in Nat
    BY <1>0, BoundsFit DEF TypeOK
  <2>2. /\ t \in alive /\ alive' = alive /\ held' = held
        /\ at' = [at EXCEPT ![t] = "lookup"] /\ made' = [made EXCEPT ![Owner[t]] = @ + 1]
    BY <1>4 DEF SysEnter, Goes
  <2>3. Owner[t] \in Proc BY OwnerIsProc
  <2>4. made'[Owner[t]] > 0 BY <2>1, <2>2, <2>3
  <2>5. ASSUME NEW u \in Thread, at'[u] # "out" PROVE u \in alive' /\ made'[Owner[u]] > 0
    <3>1. CASE u = t BY <2>2, <2>4, <3>1
    <3>2. CASE u # t
      <4>1. at[u] # "out" BY <2>1, <2>2, <2>5, <3>2
      <4>2. Owner[u] \in Callers /\ u \in alive BY <1>0, <4>1, OwnerIsProc DEF Placed, Callers
      <4>3. Owner[u] \in Callers' BY <1>1, <4>2
      <4> QED BY <2>2, <4>2, <4>3 DEF Callers
    <3> QED BY <3>1, <3>2
  <2>6. Placed' BY <2>5 DEF Placed
  <2> QED BY <1>2, <2>2, <2>6
<1>5. ASSUME NEW t \in Thread, Lookup(t) PROVE Placed' /\ held' \subseteq Callers'
  <2>1. (Goes(t, "lookup", "found") \/ Goes(t, "lookup", "insert")) /\ alive' = alive
    BY <1>5 DEF Lookup
  <2>2. Placed' BY <1>0, <2>1, MovesPlaced
  <2> QED BY <1>2, <1>5, <2>2 DEF Lookup
<1>6. ASSUME NEW t \in Thread, Insert(t) PROVE Placed' /\ held' \subseteq Callers'
  <2>1. Goes(t, "insert", "again") /\ alive' = alive BY <1>6 DEF Insert
  <2>2. Placed' BY <1>0, <2>1, MovesPlaced
  <2>3. Owner[t] \in Callers BY <1>0, <2>1, OwnerIsProc DEF Goes, Placed, Callers
  <2>4. held' \subseteq held \cup {Owner[t]} BY <1>6 DEF Insert
  <2> QED BY <1>0, <1>1, <2>2, <2>3, <2>4
<1>7. ASSUME NEW t \in Thread, LookupAgain(t) PROVE Placed' /\ held' \subseteq Callers'
  <2>1. (Goes(t, "again", "found") \/ Goes(t, "again", "bump")) /\ alive' = alive
    BY <1>7 DEF LookupAgain
  <2>2. Placed' BY <1>0, <2>1, MovesPlaced
  <2> QED BY <1>2, <1>7, <2>2 DEF LookupAgain
<1>8. ASSUME NEW t \in Thread, Count(t) PROVE Placed' /\ held' \subseteq Callers'
  <2>1. Goes(t, "found", "bump") /\ alive' = alive /\ held' = held BY <1>8 DEF Count
  <2>2. Placed' BY <1>0, <2>1, MovesPlaced
  <2> QED BY <1>2, <2>1, <2>2
<1>9. ASSUME NEW t \in Thread, Bump(t) PROVE Placed' /\ held' \subseteq Callers'
  <2>1. /\ Goes(t, "bump", "out") \/ Goes(t, "bump", "first")
        /\ alive' = alive /\ held' = held
    BY <1>9 DEF Bump
  <2>2. Placed' BY <1>0, <2>1, MovesPlaced
  <2> QED BY <1>2, <2>1, <2>2
<1>10. ASSUME NEW t \in Thread, BumpFirst(t) PROVE Placed' /\ held' \subseteq Callers'
  <2>1. Goes(t, "first", "out") /\ alive' = alive /\ held' = held BY <1>10 DEF BumpFirst
  <2>2. Placed' BY <1>0, <2>1, MovesPlaced
  <2> QED BY <1>2, <2>1, <2>2
<1>11. ASSUME NEW t \in Thread, ThreadExit(t) PROVE Placed' /\ held' \subseteq Callers'
  <2>1. /\ at[t] = "out" /\ alive' = alive \ {t} /\ at' = at /\ made' = made
        /\ held' \subseteq held
    BY <1>11 DEF ThreadExit
  <2>2. Placed' BY <1>0, <2>1 DEF Placed
  <2> QED BY <1>0, <1>1, <2>1, <2>2
<1>12. ASSUME NEW p \in Proc, ReusePid(p) PROVE Placed' /\ held' \subseteq Callers'
  <2>1. at' = at /\ alive \subseteq alive' /\ held' = held BY <1>12 DEF ReusePid
  <2> QED BY <1>2, <1>3, <2>1
<1>13. ASSUME NEW p \in Proc, SampleReads(p) PROVE Placed' /\ held' \subseteq Callers'
  <2>1. at' = at /\ alive' = alive /\ held' = held BY <1>13 DEF SampleReads, kernelVars
  <2> QED BY <1>2, <1>3, <2>1
<1>14. ASSUME SampleStarts \/ SampleEnds \/ UNCHANGED vars
       PROVE Placed' /\ held' \subseteq Callers'
  <2>1. at' = at /\ alive' = alive /\ held' = held
    BY <1>14 DEF SampleStarts, SampleEnds, vars, kernelVars
  <2> QED BY <1>2, <1>3, <2>1
<1> QED BY <1>4, <1>5, <1>6, <1>7, <1>8, <1>9, <1>10, <1>11, <1>12, <1>13, <1>14
     DEF Next, SysEnterStep

-----------------------------------------------------------------------------
(* The rates of processes that end in order                                *)

\* While processes end in order, one with a living thread has lost none.
LEMMA LivesWhole ==
    ASSUME EndsForGood, NEW t \in Thread, t \in alive
    PROVE Living(Owner[t])
<1>1. ASSUME NEW u \in ThreadsOf(Owner[t]), u \notin alive PROVE FALSE
  <2>1. u \in Thread /\ Owner[u] = Owner[t] BY DEF ThreadsOf
  <2>2. ThreadsOf(Owner[u]) = {u} BY <1>1, <2>1 DEF EndsForGood
  <2>3. t \in ThreadsOf(Owner[u]) BY <2>1 DEF ThreadsOf
  <2> QED BY <1>1, <2>2, <2>3
<1> QED BY <1>1 DEF Living

\* The balance of a process whose entry, calls and samples did not change.
LEMMA AccountedKept ==
    ASSUME NEW p, Accounted(p), UNCHANGED <<reported, prev, stats, held, alive, made>>,
           Uncounted(p)' = Uncounted(p)
    PROVE Accounted(p)'
BY DEF Accounted, Seen, Living

\* A pointer found stays good while entries are only added.
LEMMA FoundKept ==
    ASSUME TypeOK, FoundIsHeld, NEW t \in Thread, NEW f, NEW g, Goes(t, f, g),
           g = "found" => Owner[t] \in held', held \subseteq held'
    PROVE FoundIsHeld'
<1>1. at \in [Thread -> Places] BY DEF TypeOK
<1>2. \A u \in Thread : at'[u] = IF u = t THEN g ELSE at[u] BY <1>1 DEF Goes
<1> QED BY <1>2 DEF FoundIsHeld

\* Once a process has ended out of order, it has for ever.
LEMMA OrderlyLasts == TypeOK /\ [Next]_vars /\ orderly' => orderly
BY DEF TypeOK, Next, SysEnterStep, SysEnter, Lookup, Insert, LookupAgain, Count, Bump, BumpFirst,
       ThreadExit, ReusePid, SampleReads, SampleStarts, SampleEnds, vars, historyVars

\* get_stats makes an entry only for a process that was never reported, so that
\* what there is to see of each does not change.
LEMMA InsertSees ==
    ASSUME Base, EndsForGood, \A q \in Proc : Accounted(q), NEW t \in Thread, Insert(t),
           NEW p \in Proc
    PROVE Seen(p)' = Seen(p)
<1>1. TypeOK /\ Placed BY DEF Base
<1>2. Goes(t, "insert", "again") /\ UNCHANGED prev BY DEF Insert, agentVars
<1>3. CASE held' = held /\ stats' = stats BY <1>2, <1>3 DEF Seen
<1>4. CASE /\ Owner[t] \notin held /\ held' = held \cup {Owner[t]}
           /\ stats' = [stats EXCEPT ![Owner[t]] = 0]
  <2>1. stats \in [Proc -> 0..Modulus - 1] BY <1>1 DEF TypeOK
  <2>2. CASE p = Owner[t]
    <3>1. t \in alive BY <1>1, <1>2 DEF Placed, Goes
    <3>2. Living(p) BY <2>2, <3>1, LivesWhole
    <3>3. prev[p] = 0 BY <1>4, <2>2, <3>2 DEF Accounted
    <3> QED BY <1>4, <2>1, <2>2, <3>3 DEF Seen
  <2>3. CASE p # Owner[t] BY <1>2, <1>4, <2>1, <2>3 DEF Seen
  <2> QED BY <2>2, <2>3
<1> QED BY <1>3, <1>4 DEF Insert

\* The balance of every process survives a new entry.
LEMMA InsertAccounted ==
    ASSUME Base, EndsForGood, \A q \in Proc : Accounted(q), NEW t \in Thread, Insert(t),
           NEW p \in Proc
    PROVE Accounted(p)'
<1>1. TypeOK BY DEF Base
<1>2. /\ Goes(t, "insert", "again") /\ held \subseteq held'
      /\ UNCHANGED <<alive, prev, reported, made>>
  BY DEF Insert, agentVars, historyVars
<1>3. Uncounted(p)' = Uncounted(p) BY <1>1, <1>2, PendingSame DEF Pending
<1>4. Seen(p)' = Seen(p) BY InsertSees
<1> QED BY <1>2, <1>3, <1>4 DEF Accounted, Living

\* The addition goes to the entry of the process and does not wrap.
LEMMA CountAdds ==
    ASSUME TypeOK, FoundIsHeld, NEW t \in Thread, Count(t), Accounted(Owner[t])
    PROVE stats' = [stats EXCEPT ![Owner[t]] = stats[Owner[t]] + 1] /\ Owner[t] \in held
<1>1. at[t] = "found" BY DEF Count, Goes
<1>2. Owner[t] \in held /\ Owner[t] \in Proc BY <1>1, OwnerIsProc DEF FoundIsHeld
<1>3. stats' = [stats EXCEPT ![Owner[t]] = (stats[Owner[t]] + 1) % Modulus] BY <1>2 DEF Count
<1>4. Cardinality(Uncounted(Owner[t])) >= 1 BY <1>1, PendingCounts DEF Pending
<1>5. Seen(Owner[t]) = stats[Owner[t]] BY <1>2 DEF Seen
<1>6. stats[Owner[t]] + 1 <= made[Owner[t]]
  BY <1>2, <1>4, <1>5, ProcTypes, UncountedFinite DEF Accounted
<1>7. stats[Owner[t]] + 1 \in Nat /\ stats[Owner[t]] + 1 < Modulus /\ Modulus \in Nat
  BY <1>2, <1>6, ProcTypes
<1>8. (stats[Owner[t]] + 1) % Modulus = stats[Owner[t]] + 1 BY <1>7, ModSmall
<1> QED BY <1>2, <1>3, <1>8

\* While processes end in order, the balance of each is kept.
LEMMA OrderlyStep == Base /\ OrderlyInv /\ [Next]_vars => OrderlyInv'
<1> SUFFICES ASSUME Base, OrderlyInv, [Next]_vars, orderly'
             PROVE EndsForGood' /\ FoundIsHeld' /\ \A p \in Proc : Accounted(p)'
  BY DEF OrderlyInv
<1>0. /\ TypeOK /\ Placed /\ EndsForGood /\ FoundIsHeld
      /\ \A p \in Proc : Accounted(p)
  BY OrderlyLasts DEF Base, OrderlyInv
<1>1. ASSUME alive' = alive PROVE EndsForGood' BY <1>0, <1>1 DEF EndsForGood
<1>2. ASSUME UNCHANGED <<at, held>> PROVE FoundIsHeld' BY <1>0, <1>2 DEF FoundIsHeld
<1>3. ASSUME UNCHANGED <<at, held, reported, prev, stats, alive, made>>
      PROVE EndsForGood' /\ FoundIsHeld' /\ \A p \in Proc : Accounted(p)'
  <2>1. \A p : Uncounted(p)' = Uncounted(p) BY <1>3 DEF Uncounted
  <2> QED BY <1>0, <1>1, <1>2, <1>3, <2>1, AccountedKept
<1>4. ASSUME NEW t \in Thread, SysEnter(t)
      PROVE EndsForGood' /\ FoundIsHeld' /\ \A p \in Proc : Accounted(p)'
  <2>1. /\ Goes(t, "out", "lookup") /\ made' = [made EXCEPT ![Owner[t]] = @ + 1]
        /\ UNCHANGED <<held, reported, prev, stats, alive>>
    BY <1>4 DEF SysEnter, agentVars
  <2>2. ASSUME NEW p \in Proc PROVE Accounted(p)'
    <3>1. Cardinality(Uncounted(p)') =
              Cardinality(Uncounted(p)) + IF p = Owner[t] THEN 1 ELSE 0
      BY <1>0, <2>1, PendingGains DEF Pending
    <3>2. made \in [Proc -> 0..MaxCalls] BY <1>0 DEF TypeOK
    <3>3. made'[p] = made[p] + IF p = Owner[t] THEN 1 ELSE 0 BY <1>0, <2>1, <3>2, ProcTypes
    <3>4. Seen(p)' = Seen(p) /\ Living(p)' = Living(p) BY <2>1 DEF Seen, Living
    <3>5. Accounted(p) /\ Seen(p) \in Nat /\ made[p] \in Nat BY <1>0, ProcTypes
    <3>6. Seen(p)' + Cardinality(Uncounted(p)') <= made'[p]
      BY <3>1, <3>3, <3>4, <3>5, UncountedFinite DEF Accounted
    <3> QED BY <2>1, <3>4, <3>5, <3>6 DEF Accounted
  <2>3. FoundIsHeld' BY <1>0, <2>1, FoundKept
  <2> QED BY <1>1, <2>1, <2>2, <2>3
<1>5. ASSUME NEW t \in Thread, Lookup(t)
      PROVE EndsForGood' /\ FoundIsHeld' /\ \A p \in Proc : Accounted(p)'
  <2>1. /\ Goes(t, "lookup", "insert") \/ (Goes(t, "lookup", "found") /\ Owner[t] \in held)
        /\ UNCHANGED <<held, reported, prev, stats, alive, made>>
    BY <1>5 DEF Lookup, agentVars, historyVars
  <2>2. FoundIsHeld' BY <1>0, <2>1, FoundKept
  <2>3. \A p : Uncounted(p)' = Uncounted(p) BY <1>0, <2>1, PendingSame DEF Pending
  <2> QED BY <1>0, <1>1, <2>1, <2>2, <2>3, AccountedKept
<1>6. ASSUME NEW t \in Thread, Insert(t)
      PROVE EndsForGood' /\ FoundIsHeld' /\ \A p \in Proc : Accounted(p)'
  <2>1. Goes(t, "insert", "again") /\ alive' = alive /\ held \subseteq held'
    BY <1>6 DEF Insert
  <2>2. FoundIsHeld' BY <1>0, <2>1, FoundKept
  <2> QED BY <1>0, <1>1, <1>6, <2>1, <2>2, InsertAccounted
<1>7. ASSUME NEW t \in Thread, LookupAgain(t)
      PROVE EndsForGood' /\ FoundIsHeld' /\ \A p \in Proc : Accounted(p)'
  <2>1. UNCHANGED <<held, reported, prev, stats, alive, made>>
    BY <1>7 DEF LookupAgain, agentVars, historyVars
  <2>2. CASE Owner[t] \in held
    <3>1. Goes(t, "again", "found") BY <1>7, <2>2 DEF LookupAgain
    <3>2. FoundIsHeld' BY <1>0, <2>1, <2>2, <3>1, FoundKept
    <3>3. \A p : Uncounted(p)' = Uncounted(p) BY <1>0, <3>1, PendingSame DEF Pending
    <3> QED BY <1>0, <1>1, <2>1, <3>2, <3>3, AccountedKept
  <2>3. CASE Owner[t] \notin held
    <3>1. Goes(t, "again", "bump") BY <1>7, <2>3 DEF LookupAgain
    <3>2. FoundIsHeld' BY <1>0, <2>1, <3>1, FoundKept
    <3>3. ASSUME NEW p \in Proc PROVE Accounted(p)'
      <4>1. Cardinality(Uncounted(p)') =
                Cardinality(Uncounted(p)) - IF p = Owner[t] THEN 1 ELSE 0
        BY <1>0, <3>1, PendingLoses DEF Pending
      <4>2. Seen(p)' = Seen(p) /\ Living(p)' = Living(p) BY <2>1 DEF Seen, Living
      <4>3. Accounted(p) /\ Seen(p) \in Nat /\ made[p] \in Nat BY <1>0, ProcTypes
      <4>4. Seen(p)' + Cardinality(Uncounted(p)') <= made'[p]
        BY <2>1, <4>1, <4>2, <4>3, UncountedFinite DEF Accounted
      <4> QED BY <2>1, <4>2, <4>3, <4>4 DEF Accounted
    <3> QED BY <1>1, <2>1, <3>2, <3>3
  <2> QED BY <2>2, <2>3
<1>8. ASSUME NEW t \in Thread, Count(t)
      PROVE EndsForGood' /\ FoundIsHeld' /\ \A p \in Proc : Accounted(p)'
  <2>1. Goes(t, "found", "bump") /\ UNCHANGED <<held, reported, prev, alive, made>>
    BY <1>8 DEF Count, agentVars, historyVars
  <2>2. FoundIsHeld' BY <1>0, <2>1, FoundKept
  <2>3. /\ stats' = [stats EXCEPT ![Owner[t]] = stats[Owner[t]] + 1]
        /\ Owner[t] \in held /\ Owner[t] \in Proc
    BY <1>0, <1>8, CountAdds, OwnerIsProc
  <2>4. ASSUME NEW p \in Proc PROVE Accounted(p)'
    <3>1. Cardinality(Uncounted(p)') =
              Cardinality(Uncounted(p)) - IF p = Owner[t] THEN 1 ELSE 0
      BY <1>0, <2>1, PendingLoses DEF Pending
    <3>2. stats \in [Proc -> 0..Modulus - 1] /\ stats[p] \in Nat BY <1>0, ProcTypes DEF TypeOK
    <3>3. stats'[p] = stats[p] + IF p = Owner[t] THEN 1 ELSE 0 BY <2>3, <3>2
    <3>4. Seen(p) \in Nat /\ prev[p] \in Nat BY <1>0, ProcTypes
    <3>5. Seen(p)' = Seen(p) + IF p = Owner[t] THEN 1 ELSE 0
      BY <2>1, <2>3, <3>2, <3>3, <3>4 DEF Seen
    <3>6. Accounted(p) /\ made[p] \in Nat BY <1>0, ProcTypes
    <3>7. Seen(p)' + Cardinality(Uncounted(p)') <= made'[p]
      BY <2>1, <3>1, <3>4, <3>5, <3>6, UncountedFinite DEF Accounted
    <3>8. prev'[p] <= Seen(p)' BY <2>1, <3>4, <3>5, <3>6 DEF Accounted
    <3> QED BY <2>1, <3>6, <3>7, <3>8 DEF Accounted, Living
  <2> QED BY <1>1, <2>1, <2>2, <2>4
<1>9. ASSUME NEW t \in Thread, Bump(t) \/ BumpFirst(t)
      PROVE EndsForGood' /\ FoundIsHeld' /\ \A p \in Proc : Accounted(p)'
  <2>1. /\ Goes(t, "bump", "out") \/ Goes(t, "bump", "first") \/ Goes(t, "first", "out")
        /\ UNCHANGED <<held, reported, prev, stats, alive, made>>
    BY <1>9 DEF Bump, BumpFirst, agentVars
  <2>2. FoundIsHeld' BY <1>0, <2>1, FoundKept
  <2>3. \A p : Uncounted(p)' = Uncounted(p) BY <1>0, <2>1, PendingSame DEF Pending
  <2> QED BY <1>0, <1>1, <2>1, <2>2, <2>3, AccountedKept
<1>10. ASSUME NEW t \in Thread, ThreadExit(t)
       PROVE EndsForGood' /\ FoundIsHeld' /\ \A p \in Proc : Accounted(p)'
  <2>1. /\ at[t] = "out" /\ alive' = alive \ {t} /\ ThreadsOf(Owner[t]) = {t}
        /\ held' = held \/ held' = held \ {Owner[t]}
        /\ UNCHANGED <<at, stats, prev, reported, made>>
    BY <1>10 DEF ThreadExit, agentVars
  <2>2. EndsForGood' BY <1>0, <2>1 DEF EndsForGood
  <2>3. FoundIsHeld'
    <3>1. ASSUME NEW u \in Thread, at[u] = "found" PROVE Owner[u] \in held'
      <4>1. Owner[u] \in held BY <1>0, <3>1 DEF FoundIsHeld
      <4>2. u # t BY <2>1, <3>1
      <4>3. Owner[u] # Owner[t] BY <2>1, <4>2 DEF ThreadsOf
      <4> QED BY <2>1, <4>1, <4>3
    <3> QED BY <2>1, <3>1 DEF FoundIsHeld
  <2>4. ASSUME NEW p \in Proc PROVE Accounted(p)'
    <3>1. Uncounted(p)' = Uncounted(p) BY <2>1 DEF Uncounted
    <3>2. Accounted(p) /\ Seen(p) \in Nat /\ prev[p] \in Nat /\ made[p] \in Nat
      BY <1>0, ProcTypes
    <3>3. Living(p)' => Living(p) BY <2>1 DEF Living
    <3>4. CASE p = Owner[t]
      <4>1. ~Living(p)' BY <2>1, <3>4 DEF Living
      <4>2. Seen(p)' = Seen(p) \/ Seen(p)' = prev[p] BY <2>1 DEF Seen
      <4>3. prev[p] <= Seen(p)' /\ Seen(p)' <= Seen(p) BY <3>2, <4>2 DEF Accounted
      <4>4. Seen(p)' + Cardinality(Uncounted(p)) <= made[p]
        BY <3>2, <4>2, <4>3, UncountedFinite DEF Accounted
      <4> QED BY <2>1, <3>1, <3>2, <4>1, <4>3, <4>4 DEF Accounted
    <3>5. CASE p # Owner[t]
      <4>1. Seen(p)' = Seen(p) /\ (p \in held' <=> p \in held) BY <2>1, <3>5 DEF Seen
      <4> QED BY <2>1, <3>1, <3>2, <3>3, <4>1 DEF Accounted
    <3> QED BY <3>4, <3>5
  <2> QED BY <2>2, <2>3, <2>4
<1>11. ASSUME NEW p \in Proc, ReusePid(p) PROVE FALSE
  BY <1>11 DEF ReusePid
<1>12. ASSUME NEW q \in Proc, SampleReads(q)
       PROVE EndsForGood' /\ FoundIsHeld' /\ \A p \in Proc : Accounted(p)'
  <2>1. /\ q \in held /\ prev' = [prev EXCEPT ![q] = stats[q]]
        /\ reported' = [reported EXCEPT ![q] = @ + Minus(stats[q], prev[q])]
        /\ UNCHANGED <<at, held, stats, alive, made>>
    BY <1>12 DEF SampleReads, kernelVars
  <2>2. ASSUME NEW p \in Proc PROVE Accounted(p)'
    <3>1. Uncounted(p)' = Uncounted(p) BY <2>1 DEF Uncounted
    <3>2. Accounted(p) /\ prev \in [Proc -> 0..Modulus - 1] /\ reported \in [Proc -> Nat]
      BY <1>0 DEF TypeOK
    <3>3. CASE p = q
      <4>1. Seen(p) = stats[p] BY <2>1, <3>3 DEF Seen
      <4>2. prev[p] <= stats[p] /\ reported[p] = prev[p] BY <3>2, <4>1 DEF Accounted
      <4>3. Minus(stats[p], prev[p]) = stats[p] - prev[p]
        BY <1>0, <4>2, ProcTypes, MinusExact
      <4>4. reported[p] + Minus(stats[p], prev[p]) = stats[p] BY <1>0, <4>2, <4>3, ProcTypes
      <4>5. prev'[p] = stats[p] BY <2>1, <3>2, <3>3
      <4>6. reported'[p] = reported[p] + Minus(stats[p], prev[p]) BY <2>1, <3>2, <3>3
      <4>7. Seen(p)' = stats[p] /\ p \in held' BY <2>1, <3>3 DEF Seen
      <4>8. stats[p] <= stats[p] BY <1>0, ProcTypes
      <4> QED BY <2>1, <3>1, <3>2, <4>1, <4>4, <4>5, <4>6, <4>7, <4>8 DEF Accounted
    <3>4. CASE p # q
      <4>1. prev'[p] = prev[p] /\ reported'[p] = reported[p] BY <2>1, <3>2, <3>4
      <4>2. Seen(p)' = Seen(p) BY <2>1, <4>1 DEF Seen
      <4> QED BY <2>1, <3>1, <3>2, <4>1, <4>2 DEF Accounted, Living
    <3> QED BY <3>3, <3>4
  <2> QED BY <1>1, <1>2, <2>1, <2>2
<1>13. ASSUME SampleStarts \/ SampleEnds \/ UNCHANGED vars
       PROVE EndsForGood' /\ FoundIsHeld' /\ \A p \in Proc : Accounted(p)'
  <2>1. UNCHANGED <<at, held, reported, prev, stats, alive, made>>
    BY <1>13 DEF SampleStarts, SampleEnds, vars, kernelVars, historyVars, agentVars
  <2> QED BY <1>3, <2>1
<1> QED BY <1>4, <1>5, <1>6, <1>7, <1>8, <1>9, <1>10, <1>11, <1>12, <1>13 DEF Next, SysEnterStep

-----------------------------------------------------------------------------
(* No call is lost while the map has room                                  *)

\* A map with room for the callers had it before.
LEMMA RoomyBefore == ASSUME TypeOK, [Next]_vars, Roomy' PROVE Roomy
<1>1. Callers \in SUBSET Callers' BY CallersGrow
<1>2. Callers' \in SUBSET Proc BY DEF Callers
<1>3. IsFiniteSet(Callers') BY <1>2, SetsAreFinite, FS_Subset
<1>4. IsFiniteSet(Callers) /\ Cardinality(Callers) <= Cardinality(Callers')
  BY <1>1, <1>3, FS_Subset
<1>5. Cardinality(Callers) \in Nat /\ Cardinality(Callers') \in Nat
  BY <1>3, <1>4, FS_CardinalityType
<1> QED BY <1>4, <1>5, BoundsFit DEF Roomy

\* A thread that is to make an entry finds room for it, since only callers have one.
LEMMA InsertHolds ==
    ASSUME Base, Roomy, NEW t \in Thread, Insert(t)
    PROVE Owner[t] \in held'
<1>1. TypeOK /\ Placed /\ held \subseteq Callers BY DEF Base
<1>2. CASE Owner[t] \in held BY <1>2 DEF Insert
<1>3. CASE Owner[t] \notin held
  <2>1. Owner[t] \in Callers BY <1>1, OwnerIsProc DEF Insert, Goes, Placed, Callers
  <2>2. Callers \in SUBSET Proc BY DEF Callers
  <2>3. IsFiniteSet(Callers) BY <2>2, SetsAreFinite, FS_Subset
  <2>4. held \cup {Owner[t]} \in SUBSET Callers BY <1>1, <2>1
  <2>5. Cardinality(held \cup {Owner[t]}) <= Cardinality(Callers) BY <2>3, <2>4, FS_Subset
  <2>6. Cardinality(held \cup {Owner[t]}) = Cardinality(held) + 1
    BY <1>1, <1>3, HeldFinite, FS_AddElement
  <2>7. Cardinality(Callers) \in Nat BY <2>3, FS_CardinalityType
  <2>8. Cardinality(held) < StatsCap
    BY <1>1, <2>5, <2>6, <2>7, HeldFinite, BoundsFit DEF Roomy
  <2> QED BY <1>3, <2>8 DEF Insert, HasRoom
<1> QED BY <1>2, <1>3

\* A thread that looks again finds the entry, as long as entries are only added.
LEMMA AgainKept ==
    ASSUME TypeOK, AgainIsHeld, NEW t \in Thread, NEW f, NEW g, Goes(t, f, g),
           g = "again" => Owner[t] \in held', held \subseteq held'
    PROVE AgainIsHeld'
<1>1. at \in [Thread -> Places] BY DEF TypeOK
<1>2. \A u \in Thread : at'[u] = IF u = t THEN g ELSE at[u] BY <1>1 DEF Goes
<1> QED BY <1>2 DEF AgainIsHeld

\* The balance of a process whose entry and calls did not change.
LEMMA BalancedKept ==
    ASSUME NEW p, Balanced(p), UNCHANGED <<alive, made>>, Seen(p)' = Seen(p),
           Uncounted(p)' = Uncounted(p)
    PROVE Balanced(p)'
BY DEF Balanced, Living

\* While the map has room and processes end in order, every call is accounted for.
LEMMA RoomyStep == Base /\ OrderlyInv /\ RoomyInv /\ [Next]_vars => RoomyInv'
<1> SUFFICES ASSUME Base, OrderlyInv, RoomyInv, [Next]_vars, orderly', Roomy'
             PROVE AgainIsHeld' /\ \A p \in Proc : Balanced(p)'
  BY DEF RoomyInv
<1>0. /\ TypeOK /\ Placed /\ EndsForGood /\ FoundIsHeld /\ Roomy
      /\ \A p \in Proc : Accounted(p)
      /\ AgainIsHeld /\ \A p \in Proc : Balanced(p)
  BY OrderlyLasts, RoomyBefore DEF Base, OrderlyInv, RoomyInv
<1>1. ASSUME UNCHANGED <<prev, stats, held, alive, made>>, AgainIsHeld',
             \A p : Uncounted(p)' = Uncounted(p)
      PROVE AgainIsHeld' /\ \A p \in Proc : Balanced(p)'
  <2>1. \A p \in Proc : Seen(p)' = Seen(p) BY <1>1 DEF Seen
  <2> QED BY <1>0, <1>1, <2>1, BalancedKept
<1>2. ASSUME NEW t \in Thread, SysEnter(t)
      PROVE AgainIsHeld' /\ \A p \in Proc : Balanced(p)'
  <2>1. /\ Goes(t, "out", "lookup") /\ made' = [made EXCEPT ![Owner[t]] = @ + 1]
        /\ UNCHANGED <<held, prev, stats, alive>>
    BY <1>2 DEF SysEnter, agentVars
  <2>2. ASSUME NEW p \in Proc PROVE Balanced(p)'
    <3>1. Cardinality(Uncounted(p)') =
              Cardinality(Uncounted(p)) + IF p = Owner[t] THEN 1 ELSE 0
      BY <1>0, <2>1, PendingGains DEF Pending
    <3>2. made \in [Proc -> 0..MaxCalls] BY <1>0 DEF TypeOK
    <3>3. made'[p] = made[p] + IF p = Owner[t] THEN 1 ELSE 0 BY <1>0, <2>1, <3>2, ProcTypes
    <3>4. Seen(p)' = Seen(p) /\ Living(p)' = Living(p) BY <2>1 DEF Seen, Living
    <3>5. Balanced(p) /\ Seen(p) \in Nat /\ made[p] \in Nat BY <1>0, ProcTypes
    <3> QED BY <3>1, <3>3, <3>4, <3>5, UncountedFinite DEF Balanced
  <2>3. AgainIsHeld' BY <1>0, <2>1, AgainKept
  <2> QED BY <2>2, <2>3
<1>3. ASSUME NEW t \in Thread, Lookup(t)
      PROVE AgainIsHeld' /\ \A p \in Proc : Balanced(p)'
  <2>1. /\ Goes(t, "lookup", "insert") \/ Goes(t, "lookup", "found")
        /\ UNCHANGED <<held, prev, stats, alive, made>>
    BY <1>3 DEF Lookup, agentVars, historyVars
  <2>2. AgainIsHeld' BY <1>0, <2>1, AgainKept
  <2>3. \A p : Uncounted(p)' = Uncounted(p) BY <1>0, <2>1, PendingSame DEF Pending
  <2> QED BY <1>1, <2>1, <2>2, <2>3
<1>4. ASSUME NEW t \in Thread, Insert(t)
      PROVE AgainIsHeld' /\ \A p \in Proc : Balanced(p)'
  <2>1. Goes(t, "insert", "again") /\ UNCHANGED <<alive, made>> /\ held \subseteq held'
    BY <1>4 DEF Insert, historyVars
  <2>2. AgainIsHeld' BY <1>0, <1>4, <2>1, InsertHolds, AgainKept
  <2>3. \A p : Uncounted(p)' = Uncounted(p) BY <1>0, <2>1, PendingSame DEF Pending
  <2>4. \A p \in Proc : Seen(p)' = Seen(p) BY <1>0, <1>4, InsertSees
  <2> QED BY <1>0, <2>1, <2>2, <2>3, <2>4, BalancedKept
<1>5. ASSUME NEW t \in Thread, LookupAgain(t)
      PROVE AgainIsHeld' /\ \A p \in Proc : Balanced(p)'
  <2>1. Owner[t] \in held BY <1>0, <1>5 DEF LookupAgain, Goes, AgainIsHeld
  <2>2. /\ Goes(t, "again", "found") /\ UNCHANGED <<held, prev, stats, alive, made>>
    BY <1>5, <2>1 DEF LookupAgain, agentVars, historyVars
  <2>3. AgainIsHeld' BY <1>0, <2>2, AgainKept
  <2>4. \A p : Uncounted(p)' = Uncounted(p) BY <1>0, <2>2, PendingSame DEF Pending
  <2> QED BY <1>1, <2>2, <2>3, <2>4
<1>6. ASSUME NEW t \in Thread, Count(t)
      PROVE AgainIsHeld' /\ \A p \in Proc : Balanced(p)'
  <2>1. Goes(t, "found", "bump") /\ UNCHANGED <<held, prev, alive, made>>
    BY <1>6 DEF Count, agentVars, historyVars
  <2>2. AgainIsHeld' BY <1>0, <2>1, AgainKept
  <2>3. /\ stats' = [stats EXCEPT ![Owner[t]] = stats[Owner[t]] + 1]
        /\ Owner[t] \in held /\ Owner[t] \in Proc
    BY <1>0, <1>6, CountAdds, OwnerIsProc
  <2>4. ASSUME NEW p \in Proc PROVE Balanced(p)'
    <3>1. Cardinality(Uncounted(p)') =
              Cardinality(Uncounted(p)) - IF p = Owner[t] THEN 1 ELSE 0
      BY <1>0, <2>1, PendingLoses DEF Pending
    <3>2. stats \in [Proc -> 0..Modulus - 1] /\ stats[p] \in Nat BY <1>0, ProcTypes DEF TypeOK
    <3>3. stats'[p] = stats[p] + IF p = Owner[t] THEN 1 ELSE 0 BY <2>3, <3>2
    <3>4. Seen(p) \in Nat BY <1>0, ProcTypes
    <3>5. Seen(p)' = Seen(p) + IF p = Owner[t] THEN 1 ELSE 0
      BY <2>1, <2>3, <3>2, <3>3, <3>4 DEF Seen
    <3>6. Balanced(p) /\ Living(p)' = Living(p) BY <1>0, <2>1 DEF Living
    <3> QED BY <2>1, <3>1, <3>4, <3>5, <3>6, UncountedFinite DEF Balanced
  <2> QED BY <2>2, <2>4
<1>7. ASSUME NEW t \in Thread, Bump(t) \/ BumpFirst(t)
      PROVE AgainIsHeld' /\ \A p \in Proc : Balanced(p)'
  <2>1. /\ Goes(t, "bump", "out") \/ Goes(t, "bump", "first") \/ Goes(t, "first", "out")
        /\ UNCHANGED <<held, prev, stats, alive, made>>
    BY <1>7 DEF Bump, BumpFirst, agentVars
  <2>2. AgainIsHeld' BY <1>0, <2>1, AgainKept
  <2>3. \A p : Uncounted(p)' = Uncounted(p) BY <1>0, <2>1, PendingSame DEF Pending
  <2> QED BY <1>1, <2>1, <2>2, <2>3
<1>8. ASSUME NEW t \in Thread, ThreadExit(t)
      PROVE AgainIsHeld' /\ \A p \in Proc : Balanced(p)'
  <2>1. /\ at[t] = "out" /\ alive' = alive \ {t} /\ ThreadsOf(Owner[t]) = {t}
        /\ held' = held \/ held' = held \ {Owner[t]}
        /\ UNCHANGED <<at, stats, prev, made>>
    BY <1>8 DEF ThreadExit, agentVars
  <2>2. AgainIsHeld'
    <3>1. ASSUME NEW u \in Thread, at[u] = "again" PROVE Owner[u] \in held'
      <4>1. Owner[u] \in held BY <1>0, <3>1 DEF AgainIsHeld
      <4>2. u # t BY <2>1, <3>1
      <4>3. Owner[u] # Owner[t] BY <2>1, <4>2 DEF ThreadsOf
      <4> QED BY <2>1, <4>1, <4>3
    <3> QED BY <2>1, <3>1 DEF AgainIsHeld
  <2>3. ASSUME NEW p \in Proc PROVE Balanced(p)'
    <3>1. Uncounted(p)' = Uncounted(p) BY <2>1 DEF Uncounted
    <3>2. Balanced(p) BY <1>0
    <3>3. CASE p = Owner[t]
      <4>1. ~Living(p)' BY <2>1, <3>3 DEF Living
      <4> QED BY <4>1 DEF Balanced
    <3>4. CASE p # Owner[t]
      <4>1. Seen(p)' = Seen(p) BY <2>1, <3>4 DEF Seen
      <4>2. Living(p)' => Living(p) BY <2>1 DEF Living
      <4> QED BY <2>1, <3>1, <3>2, <4>1, <4>2 DEF Balanced
    <3> QED BY <3>3, <3>4
  <2> QED BY <2>2, <2>3
<1>9. ASSUME NEW p \in Proc, ReusePid(p) PROVE FALSE
  BY <1>9 DEF ReusePid
<1>10. ASSUME NEW q \in Proc, SampleReads(q)
       PROVE AgainIsHeld' /\ \A p \in Proc : Balanced(p)'
  <2>1. /\ q \in held /\ prev' = [prev EXCEPT ![q] = stats[q]]
        /\ UNCHANGED <<at, held, stats, alive, made>>
    BY <1>10 DEF SampleReads, kernelVars
  <2>2. AgainIsHeld' BY <1>0, <2>1 DEF AgainIsHeld
  <2>3. ASSUME NEW p \in Proc PROVE Balanced(p)'
    <3>1. Uncounted(p)' = Uncounted(p) BY <2>1 DEF Uncounted
    <3>2. prev \in [Proc -> 0..Modulus - 1] BY <1>0 DEF TypeOK
    <3>3. Seen(p)' = Seen(p) BY <2>1, <3>2 DEF Seen
    <3> QED BY <1>0, <2>1, <3>1, <3>3, BalancedKept
  <2> QED BY <2>2, <2>3
<1>11. ASSUME SampleStarts \/ SampleEnds \/ UNCHANGED vars
       PROVE AgainIsHeld' /\ \A p \in Proc : Balanced(p)'
  <2>1. UNCHANGED <<at, held, prev, stats, alive, made>>
    BY <1>11 DEF SampleStarts, SampleEnds, vars, kernelVars, historyVars, agentVars
  <2>2. AgainIsHeld' BY <1>0, <2>1 DEF AgainIsHeld
  <2>3. \A p : Uncounted(p)' = Uncounted(p) BY <2>1 DEF Uncounted
  <2> QED BY <1>1, <2>1, <2>2, <2>3
<1> QED BY <1>2, <1>3, <1>4, <1>5, <1>6, <1>7, <1>8, <1>9, <1>10, <1>11 DEF Next, SysEnterStep

\* At the start nothing was called, counted or reported.
LEMMA InitBalanced == Init => Base /\ OrderlyInv /\ RoomyInv
<1> SUFFICES ASSUME Init PROVE Base /\ OrderlyInv /\ RoomyInv OBVIOUS
<1>1. TypeOK BY InitTyped
<1>2. \A t \in Thread : at[t] = "out" BY DEF Init
<1>3. Placed /\ held \subseteq Callers BY <1>2 DEF Init, Placed
<1>4. ASSUME NEW p \in Proc PROVE Accounted(p) /\ Balanced(p)
  <2>1. Uncounted(p) = {} BY <1>2 DEF Uncounted, ThreadsOf
  <2>2. Cardinality(Uncounted(p)) = 0 BY <2>1, FS_EmptySet
  <2>3. Seen(p) = 0 /\ reported[p] = 0 /\ prev[p] = 0 /\ made[p] = 0 BY DEF Init, Seen
  <2> QED BY <2>2, <2>3 DEF Accounted, Balanced
<1>5. EndsForGood BY DEF Init, EndsForGood
<1>6. FoundIsHeld /\ AgainIsHeld BY <1>2 DEF FoundIsHeld, AgainIsHeld
<1> QED BY <1>1, <1>3, <1>4, <1>5, <1>6 DEF Base, OrderlyInv, RoomyInv

\* The inductive invariant of the rates.
THEOREM BalanceHolds == Spec => [](Base /\ OrderlyInv /\ RoomyInv)
<1>1. Base /\ OrderlyInv /\ RoomyInv /\ [Next]_vars => (Base /\ OrderlyInv /\ RoomyInv)'
  BY BaseStep, OrderlyStep, RoomyStep
<1> QED BY <1>1, InitBalanced, PTL DEF Spec

\* What the samples report of a process is never more than the calls it made, however
\* its threads, the iteration over the map and the end of other processes interleave.
THEOREM RatesTrueHolds == Spec => []RatesTrueIfOrderly
<1>1. Base /\ OrderlyInv => RatesTrueIfOrderly
  <2> SUFFICES ASSUME Base, OrderlyInv, orderly, NEW p \in Proc PROVE reported[p] <= made[p]
    BY DEF RatesTrueIfOrderly, RatesTrue
  <2>1. TypeOK /\ Accounted(p) BY DEF Base, OrderlyInv
  <2>2. /\ reported[p] = prev[p] /\ prev[p] <= Seen(p)
        /\ Seen(p) + Cardinality(Uncounted(p)) <= made[p]
    BY <2>1 DEF Accounted
  <2> QED BY <2>1, <2>2, ProcTypes, UncountedFinite
<1> QED BY <1>1, BalanceHolds, PTL

\* While a process lives and the map has room for the callers, each call it made is
\* reported, in its entry, or about to be counted.
THEOREM NothingLostHolds == Spec => []NothingLost
<1>1. Base /\ OrderlyInv /\ RoomyInv => NothingLost
  <2> SUFFICES ASSUME Base, OrderlyInv, RoomyInv, NEW p \in Proc,
                      orderly, ThreadsOf(p) \subseteq alive,
                      Cardinality({q \in Proc : made[q] > 0}) <= StatsCap
               PROVE made[p] = reported[p] + (IF p \in held THEN stats[p] - prev[p] ELSE 0)
                                 + Cardinality(Uncounted(p))
    BY DEF NothingLost
  <2>1. TypeOK /\ Accounted(p) BY DEF Base, OrderlyInv
  <2>2. Balanced(p) BY DEF RoomyInv, Roomy, Callers
  <2>3. Seen(p) + Cardinality(Uncounted(p)) = made[p] BY <2>2 DEF Balanced, Living
  <2>4. reported[p] = prev[p] BY <2>1 DEF Accounted
  <2>5. Seen(p) = reported[p] + IF p \in held THEN stats[p] - prev[p] ELSE 0
    BY <2>1, <2>4, ProcTypes DEF Seen
  <2> QED BY <2>3, <2>5
<1> QED BY <1>1, BalanceHolds, PTL

-----------------------------------------------------------------------------
(* The calls that bump_syscall loses                                       *)

\* The threads about to make a counter are finitely many.
LEMMA FirstFinite ==
    ASSUME NEW n
    PROVE IsFiniteSet(First(n)) /\ Cardinality(First(n)) \in Nat
<1>1. First(n) \in SUBSET Thread BY DEF First
<1>2. IsFiniteSet(First(n)) BY <1>1, SetsAreFinite, FS_Subset
<1> QED BY <1>2, FS_CardinalityType

\* All the threads but one are one thread less.
LEMMA ButOne ==
    ASSUME NEW t \in Thread, NEW S \in SUBSET (Thread \ {t})
    PROVE /\ IsFiniteSet(S) /\ Cardinality(S) <= Cardinality(Thread) - 1
          /\ Cardinality(Thread) \in Nat
<1>1. IsFiniteSet(Thread \ {t}) /\ Cardinality(Thread \ {t}) = Cardinality(Thread) - 1
  BY SetsAreFinite, FS_RemoveElement
<1>2. IsFiniteSet(S) /\ Cardinality(S) <= Cardinality(Thread \ {t}) BY <1>1, FS_Subset
<1> QED BY <1>1, <1>2, SetsAreFinite, FS_CardinalityType

\* What the variables hold of one call number, as numbers.
LEMMA NrTypes ==
    ASSUME TypeOK, NEW n \in Nr
    PROVE nrs[n] \in Nat /\ bumps[n] \in Nat /\ Cardinality(Thread) \in Nat
BY SetsAreFinite, FS_CardinalityType DEF TypeOK

\* The losses of a number whose counter did not change, when no thread joins those
\* that found none.
LEMMA BumpedKept ==
    ASSUME TypeOK, NEW n \in Nr, Bumped(n), nrs'[n] = nrs[n], bumps'[n] = bumps[n],
           n \in nrHeld' <=> n \in nrHeld,
           n \in nrHeld => First(n)' \subseteq First(n)
    PROVE Bumped(n)'
<1>1. CASE n \notin nrHeld BY <1>1 DEF Bumped
<1>2. CASE n \in nrHeld
  <2>1. First(n)' \in SUBSET First(n) BY <1>2
  <2>2. /\ IsFiniteSet(First(n)') /\ Cardinality(First(n)') <= Cardinality(First(n))
        /\ Cardinality(First(n)') \in Nat /\ Cardinality(First(n)) \in Nat
    BY <2>1, FirstFinite, FS_Subset, FS_CardinalityType
  <2> QED BY <1>2, <2>2, NrTypes DEF Bumped
<1> QED BY <1>1, <1>2

\* Calls that went through bump_syscall are never taken back, so that what
\* fits after a step did fit before it.
LEMMA CalledGrows ==
    ASSUME TypeOK, [Next]_vars
    PROVE /\ Called \subseteq Called' /\ (Fits' => Fits)
          /\ IsFiniteSet(Called') /\ Cardinality(Called') \in Nat
<1>0. bumps \in [Nr -> Nat] BY DEF TypeOK
<1>1. ASSUME NEW t \in Thread, Bump(t) \/ BumpFirst(t) PROVE Called \subseteq Called'
  <2>1. bumps' = bumps \/ bumps' = [bumps EXCEPT ![nr[t]] = @ + 1]
    BY <1>1 DEF Bump, BumpFirst
  <2> QED BY <1>0, <2>1 DEF Called
<1>2. ASSUME UNCHANGED bumps PROVE Called \subseteq Called'
  BY <1>2 DEF Called
<1>3. Called \subseteq Called'
  BY <1>1, <1>2 DEF Next, SysEnterStep, SysEnter, Lookup, Insert, LookupAgain, Count,
     ThreadExit, ReusePid, SampleReads, SampleStarts, SampleEnds, historyVars, vars
<1>4. Called' \in SUBSET Nr BY DEF Called
<1>5. IsFiniteSet(Called') /\ Cardinality(Called') \in Nat
  BY <1>4, NumbersFit, FS_Subset, FS_CardinalityType
<1>6. Called \in SUBSET Called' BY <1>3
<1>7. Cardinality(Called) <= Cardinality(Called') /\ Cardinality(Called) \in Nat
  BY <1>5, <1>6, FS_Subset, FS_CardinalityType
<1> QED BY <1>3, <1>5, <1>7, NumbersFit DEF Fits

\* A number whose counter is to be made finds room, if the numbers called fit.
LEMMA FitsHasRoom ==
    ASSUME TypeOK, [Next]_vars, Counters, Fits', NEW t \in Thread, BumpFirst(t),
           nr[t] \notin nrHeld
    PROVE NrHasRoom(nr[t])
<1>1. nr[t] \in Nr /\ bumps \in [Nr -> Nat] BY DEF TypeOK
<1>2. bumps' = [bumps EXCEPT ![nr[t]] = @ + 1] BY DEF BumpFirst
<1>3. nr[t] \in Called' BY <1>1, <1>2 DEF Called
<1>4. nrHeld \cup {nr[t]} \in SUBSET Called' BY <1>3, CalledGrows DEF Counters
<1>5. Cardinality(nrHeld \cup {nr[t]}) <= Cardinality(Called')
  BY <1>4, CalledGrows, FS_Subset
<1>6. Cardinality(nrHeld \cup {nr[t]}) = Cardinality(nrHeld) + 1 BY NrHeldFinite, FS_AddElement
<1>7. Cardinality(Called') <= NrCap BY DEF Fits
<1> QED BY <1>5, <1>6, <1>7, CalledGrows, NrHeldFinite, NumbersFit DEF NrHasRoom

\* No counter is ahead of the calls, whatever is refused.
LEMMA CountersStep == ASSUME TypeOK, [Next]_vars, Counters PROVE Counters'
<1>0. nr \in [Thread -> Nr] /\ nrs \in [Nr -> Nat] /\ bumps \in [Nr -> Nat]
      /\ nrHeld \subseteq Nr
  BY DEF TypeOK
<1>1. ASSUME NEW t \in Thread, Bump(t) PROVE Counters'
  <2>1. nrHeld' = nrHeld BY <1>1 DEF Bump
  <2>2. nrHeld' \subseteq Called' BY <2>1, CalledGrows DEF Counters
  <2>3. \A n \in Nr : nrs'[n] <= bumps'[n] BY <1>0, <1>1 DEF Bump, Counters
  <2> QED BY <2>2, <2>3 DEF Counters
<1>2. ASSUME NEW t \in Thread, BumpFirst(t) PROVE Counters'
  <2>1. nr[t] \in Nr /\ bumps' = [bumps EXCEPT ![nr[t]] = @ + 1] BY <1>0, <1>2 DEF BumpFirst
  <2>2. nr[t] \in Called' BY <1>0, <2>1 DEF Called
  <2>3. nrHeld' \subseteq nrHeld \cup {nr[t]} BY <1>2 DEF BumpFirst
  <2>4. nrHeld' \subseteq Called' BY <2>2, <2>3, CalledGrows DEF Counters
  <2>5. nrs' = nrs \/ nrs' = [nrs EXCEPT ![nr[t]] = 1] BY <1>2 DEF BumpFirst
  <2>6. \A n \in Nr : nrs'[n] <= bumps'[n] BY <1>0, <2>1, <2>5 DEF Counters
  <2> QED BY <2>4, <2>6 DEF Counters
<1>3. ASSUME UNCHANGED <<nrHeld, nrs, bumps>> PROVE Counters'
  BY <1>3 DEF Counters, Called
<1> QED
  BY <1>1, <1>2, <1>3 DEF Next, SysEnterStep, SysEnter, Lookup, Insert, LookupAgain, Count,
     ThreadExit, ReusePid, SampleReads, SampleStarts, SampleEnds, kernelVars, historyVars, vars

\* The balance of bump_syscall is kept: each loss is that of a thread that found no
\* counter and was not the first to make it.
LEMMA BumpedStep ==
    ASSUME TypeOK, [Next]_vars, Counters, Fits', \A n \in Nr : Bumped(n), NEW n \in Nr
    PROVE Bumped(n)'
<1>0. /\ at \in [Thread -> Places] /\ nr \in [Thread -> Nr] /\ nrs \in [Nr -> Nat]
      /\ bumps \in [Nr -> Nat]
  BY DEF TypeOK
<1>1. ASSUME NEW t \in Thread, SysEnter(t) PROVE Bumped(n)'
  <2>1. /\ at[t] = "out" /\ at' = [at EXCEPT ![t] = "lookup"]
        /\ UNCHANGED <<nrHeld, nrs, bumps>> /\ \E m \in Nr : nr' = [nr EXCEPT ![t] = m]
    BY <1>1 DEF SysEnter, Goes
  <2>2. First(n)' \subseteq First(n) BY <1>0, <2>1 DEF First
  <2> QED BY <2>1, <2>2, BumpedKept
<1>2. ASSUME NEW t \in Thread, NEW f, NEW g, Goes(t, f, g), g # "first",
             UNCHANGED <<nr, nrHeld, nrs, bumps>>
      PROVE Bumped(n)'
  <2>1. First(n)' \subseteq First(n) BY <1>0, <1>2 DEF First, Goes
  <2> QED BY <1>2, <2>1, BumpedKept
<1>3. ASSUME NEW t \in Thread, Lookup(t) \/ Insert(t) \/ LookupAgain(t) \/ Count(t)
      PROVE Bumped(n)'
  <2>1. /\ \/ Goes(t, "lookup", "found") \/ Goes(t, "lookup", "insert")
           \/ Goes(t, "insert", "again") \/ Goes(t, "again", "found")
           \/ Goes(t, "again", "bump") \/ Goes(t, "found", "bump")
        /\ UNCHANGED <<nr, nrHeld, nrs, bumps>>
    BY <1>3 DEF Lookup, Insert, LookupAgain, Count, historyVars
  <2> QED BY <1>2, <2>1
<1>4. ASSUME NEW t \in Thread, Bump(t) PROVE Bumped(n)'
  <2>0. UNCHANGED <<nr, nrHeld>> BY <1>4 DEF Bump
  <2>1. CASE nr[t] \in nrHeld
    <3>1. /\ at' = [at EXCEPT ![t] = "out"] /\ nrs' = [nrs EXCEPT ![nr[t]] = @ + 1]
          /\ bumps' = [bumps EXCEPT ![nr[t]] = @ + 1]
      BY <1>4, <2>1 DEF Bump, Goes
    <3>2. First(n)' \subseteq First(n) BY <1>0, <2>0, <3>1 DEF First
    <3>3. CASE n = nr[t]
      <4>1. nrs'[n] = nrs[n] + 1 /\ bumps'[n] = bumps[n] + 1 BY <1>0, <3>1, <3>3
      <4>2. First(n)' \in SUBSET First(n) BY <3>2
      <4>3. /\ Cardinality(First(n)') <= Cardinality(First(n))
            /\ Cardinality(First(n)') \in Nat /\ Cardinality(First(n)) \in Nat
        BY <4>2, FirstFinite, FS_Subset, FS_CardinalityType
      <4>4. n \in nrHeld /\ Bumped(n) BY <2>1, <3>3
      <4> QED BY <2>0, <4>1, <4>3, <4>4, NrTypes DEF Bumped
    <3>4. CASE n # nr[t]
      <4>1. nrs'[n] = nrs[n] /\ bumps'[n] = bumps[n] BY <1>0, <3>1, <3>4
      <4> QED BY <2>0, <3>2, <4>1, BumpedKept
    <3> QED BY <3>3, <3>4
  <2>2. CASE nr[t] \notin nrHeld
    <3>1. at' = [at EXCEPT ![t] = "first"] /\ UNCHANGED <<nrs, bumps>>
      BY <1>4, <2>2 DEF Bump, Goes
    <3>2. n \in nrHeld => First(n)' \subseteq First(n) BY <1>0, <2>0, <2>2, <3>1 DEF First
    <3> QED BY <2>0, <3>1, <3>2, BumpedKept
  <2> QED BY <2>1, <2>2
<1>5. ASSUME NEW t \in Thread, BumpFirst(t) PROVE Bumped(n)'
  <2>0. nr[t] \notin nrHeld => NrHasRoom(nr[t]) BY <1>5, FitsHasRoom
  <2>1. /\ at[t] = "first" /\ at' = [at EXCEPT ![t] = "out"] /\ nr' = nr
        /\ nrHeld' = nrHeld \cup {nr[t]} /\ bumps' = [bumps EXCEPT ![nr[t]] = @ + 1]
        /\ nrs' = IF nr[t] \in nrHeld THEN nrs ELSE [nrs EXCEPT ![nr[t]] = 1]
    BY <1>5, <2>0 DEF BumpFirst, Goes
  <2>2. CASE n # nr[t]
    <3>1. nrs'[n] = nrs[n] /\ bumps'[n] = bumps[n] /\ (n \in nrHeld' <=> n \in nrHeld)
      BY <1>0, <2>1, <2>2
    <3>2. First(n)' \subseteq First(n) BY <1>0, <2>1 DEF First
    <3> QED BY <3>1, <3>2, BumpedKept
  <2>3. CASE n = nr[t]
    <3>1. First(n)' = First(n) \ {t} /\ t \in First(n)
      BY <1>0, <2>1, <2>3 DEF First
    <3>2. Cardinality(First(n) \ {t}) = Cardinality(First(n)) - 1
      BY <3>1, FirstFinite, FS_RemoveElement
    <3>3. bumps'[n] = bumps[n] + 1 /\ n \in nrHeld' BY <1>0, <2>1, <2>3
    <3>4. Bumped(n) OBVIOUS
    <3>5. CASE n \in nrHeld
      <4>1. nrs'[n] = nrs[n] BY <2>1, <2>3, <3>5
      <4> QED BY <3>1, <3>2, <3>3, <3>4, <3>5, <4>1, FirstFinite, NrTypes DEF Bumped
    <3>6. CASE n \notin nrHeld
      <4>1. nrs'[n] = 1 /\ bumps[n] = 0 BY <1>0, <2>1, <2>3, <3>4, <3>6 DEF Bumped
      <4>2. First(n) \ {t} \in SUBSET (Thread \ {t}) BY DEF First
      <4>3. Cardinality(First(n)') <= Cardinality(Thread) - 1 BY <3>1, <4>2, ButOne
      <4> QED BY <3>1, <3>2, <3>3, <4>1, <4>3, FirstFinite, NrTypes DEF Bumped
    <3> QED BY <3>5, <3>6
  <2> QED BY <2>2, <2>3
<1>6. ASSUME UNCHANGED <<at, nr, nrHeld, nrs, bumps>> PROVE Bumped(n)'
  BY <1>6 DEF Bumped, First
<1>7. ASSUME NEW t \in Thread, ThreadExit(t) PROVE Bumped(n)'
  <2>1. UNCHANGED <<at, nr, nrHeld, nrs, bumps>> BY <1>7 DEF ThreadExit
  <2> QED BY <1>6, <2>1
<1>8. ASSUME NEW p \in Proc, ReusePid(p) \/ SampleReads(p) PROVE Bumped(n)'
  <2>1. UNCHANGED <<at, nr, nrHeld, nrs, bumps>> BY <1>8 DEF ReusePid, SampleReads, kernelVars
  <2> QED BY <1>6, <2>1
<1>9. ASSUME SampleStarts \/ SampleEnds \/ UNCHANGED vars PROVE Bumped(n)'
  <2>1. UNCHANGED <<at, nr, nrHeld, nrs, bumps>>
    BY <1>9 DEF SampleStarts, SampleEnds, vars, kernelVars, historyVars
  <2> QED BY <1>6, <2>1
<1> QED BY <1>1, <1>3, <1>4, <1>5, <1>7, <1>8, <1>9 DEF Next, SysEnterStep

\* bump_syscall never counts a call that was not made; and as long as syscall_counts
\* has room for the numbers called, it loses of each number at most one call for every
\* thread but one, ever.
THEOREM LossIsBoundedHolds == Spec => []LossIsBounded
<1>1. Init => TypeOK /\ LossInv
  <2> SUFFICES ASSUME Init PROVE LossInv BY InitTyped
  <2>1. \A n \in Nr : Bumped(n) BY DEF Init, Bumped
  <2> QED BY <2>1 DEF Init, LossInv, Counters
<1>2. TypeOK /\ LossInv /\ [Next]_vars => (TypeOK /\ LossInv)'
  <2> SUFFICES ASSUME TypeOK, LossInv, [Next]_vars PROVE LossInv' BY TypeStep
  <2>1. Counters' BY CountersStep DEF LossInv
  <2>2. ASSUME Fits' PROVE \A n \in Nr : Bumped(n)'
    BY <2>2, CalledGrows, BumpedStep DEF LossInv
  <2> QED BY <2>1, <2>2 DEF LossInv
<1>3. TypeOK /\ LossInv => LossIsBounded
  <2> SUFFICES ASSUME TypeOK, LossInv, NEW n \in Nr
               PROVE /\ nrs[n] <= bumps[n]
                     /\ Fits => bumps[n] <= nrs[n] + Cardinality(Thread) - 1
    BY DEF LossIsBounded, Fits
  <2>1. nrs[n] <= bumps[n] BY DEF LossInv, Counters
  <2>2. Cardinality(Thread) >= 1 BY SetsAreFinite, FS_EmptySet, FS_CardinalityType
  <2>3. ASSUME Bumped(n) PROVE bumps[n] <= nrs[n] + Cardinality(Thread) - 1
    BY <2>2, <2>3, NrTypes, FirstFinite DEF Bumped
  <2> QED BY <2>1, <2>3 DEF LossInv
<1> QED BY <1>1, <1>2, <1>3, PTL DEF Spec

=============================================================================
