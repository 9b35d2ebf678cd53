---------------------------- MODULE RateLimiter ----------------------------
(***************************************************************************)
(* The limiter of the API (ratelimit.go): one token bucket per client      *)
(* address, garbage-collected when idle.  Allow reads the clock before it  *)
(* takes the lock, so that requests reach the buckets with times out of    *)
(* order.                                                                  *)
(*                                                                         *)
(* Tokens are counted in the unit that one tick of the clock refills, so   *)
(* that a request costs Cost = 1 / rate and a bucket holds burst * Cost.   *)
(* The rounding of floating point is left out.                             *)
(***************************************************************************)
EXTENDS Integers, FiniteSets

CONSTANTS
    Key,           \* client addresses
    Caller,        \* requests that may be under way at once
    Cost, Burst,   \* of one request, and what a bucket holds
    GcEvery,       \* time between two collections (1 min)
    GcIdle,        \* a bucket idle for longer is collected (5 min)
    MaxLag,        \* longest time between reading the clock and the lock
    MaxTime, MaxCalls,  \* bounds on the time and on the requests
    Absent

ASSUME LimiterConstants ==
    /\ Cost \in Nat \ {0} /\ Burst \in Nat /\ Cost <= Burst
    /\ GcEvery \in Nat /\ GcIdle \in Nat /\ MaxLag \in Nat
    /\ MaxTime \in Nat /\ MaxCalls \in Nat
    /\ Absent \notin [tokens : Int, last : Nat] /\ Absent \notin [key : Key, at : Nat]
    /\ Absent \notin [at : Nat, sum : Nat]

VARIABLES
    now,
    items, lastGC, \* the buckets, Absent where there is none; the last collection
    call,          \* per caller: its key and the time it read, or Absent
    spent,         \* history: what all admitted requests of a key cost so far
    admitted,      \* history: per key, the time of a request and spent after it
    denied,        \* history: per key, the last request denied: its time and
                   \* spent before it, or Absent
    calls          \* bound: requests so far

limiterVars == <<now, items, lastGC, call, spent, admitted, denied, calls>>

LimiterInit == /\ now = 0 /\ lastGC = 0
               /\ items = [k \in Key |-> Absent] /\ call = [c \in Caller |-> Absent]
               /\ spent = [k \in Key |-> 0]
               /\ admitted = [k \in Key |-> {}] /\ denied = [k \in Key |-> Absent]
               /\ calls = 0

\* A caller that has read the clock reaches the lock within MaxLag.
Tick == /\ now < MaxTime /\ now' = now + 1
        /\ \A c \in Caller : call[c] # Absent => now < call[c].at + MaxLag
        /\ UNCHANGED <<items, lastGC, call, spent, admitted, denied, calls>>

\* Allow(key), up to the lock.
ReadClock(c, k) == /\ call[c] = Absent /\ calls < MaxCalls /\ calls' = calls + 1
                   /\ call' = [call EXCEPT ![c] = [key |-> k, at |-> now]]
                   /\ UNCHANGED <<now, items, lastGC, spent, admitted, denied>>

GcDue(t) == t - lastGC >= GcEvery

\* Faulty variant: a bucket is collected however recently it was used.
SurvivesNone(k, t) == items[k] # Absent /\ ~GcDue(t)

\* Does the bucket of k outlive a collection at t?
Survives(k, t) == items[k] # Absent /\ ~(GcDue(t) /\ t - items[k].last > GcIdle)

\* Faulty variant: a new bucket has a single token.
LevelFromOne(k, t) ==
    IF ~Survives(k, t) THEN Cost
    ELSE LET b == items[k] IN IF b.tokens + (t - b.last) > Burst THEN Burst
                              ELSE b.tokens + (t - b.last)

\* What the bucket of k holds at t, a new one when there is none.
Level(k, t) ==
    IF ~Survives(k, t) THEN Burst
    ELSE LET b == items[k] IN IF b.tokens + (t - b.last) > Burst THEN Burst
                              ELSE b.tokens + (t - b.last)

\* The buckets after a call for k at t that found the level l.
Buckets(k, t, l) ==
    [j \in Key |-> IF j = k THEN [tokens |-> IF l < Cost THEN l ELSE l - Cost, last |-> t]
                   ELSE IF Survives(j, t) THEN items[j] ELSE Absent]

\* The rest of Allow, under the lock.
Allow(c) ==
    /\ call[c] # Absent /\ call' = [call EXCEPT ![c] = Absent]
    /\ LET k == call[c].key   t == call[c].at   l == Level(k, t) IN
       /\ items' = Buckets(k, t, l)
       /\ lastGC' = IF GcDue(t) THEN t ELSE lastGC
       /\ IF l < Cost
          THEN /\ denied' = [denied EXCEPT ![k] = [at |-> t, sum |-> spent[k]]]
               /\ UNCHANGED <<spent, admitted>>
          ELSE /\ spent' = [spent EXCEPT ![k] = @ + Cost]
               /\ admitted' = [admitted EXCEPT ![k] = @ \cup {[at |-> t, sum |-> spent[k] + Cost]}]
               /\ UNCHANGED denied
    /\ UNCHANGED <<now, calls>>

LimiterNext == Tick \/ \E c \in Caller : Allow(c) \/ \E k \in Key : ReadClock(c, k)

LimiterSpec == LimiterInit /\ [][LimiterNext]_limiterVars

-----------------------------------------------------------------------------
(* Properties                                                              *)

Request == [at : Nat, sum : Nat]

\* The types of the variables; a bucket is overdrawn by no more than the time that
\* a request may come late.
LimiterTypeOK == /\ now \in 0..MaxTime /\ lastGC \in Nat /\ calls \in 0..MaxCalls
                 /\ items \in [Key -> [tokens : (0 - MaxLag)..Burst, last : Nat] \cup {Absent}]
                 /\ call \in [Caller -> [key : Key, at : Nat] \cup {Absent}]
                 /\ spent \in [Key -> Nat]
                 /\ admitted \in [Key -> SUBSET Request]
                 /\ denied \in [Key -> Request \cup {Absent}]

\* What the requests after a, up to a total of sum, have used of the window that
\* a opens, when the last of them comes at the time t.
Fits(a, sum, t) == (sum - a.sum) + Cost <= Burst + (t - a.at)

\* However requests overtake each other on the way to the lock and whatever
\* buckets are collected, the requests of a key that are admitted in any window
\* cost no more than the burst and what the time between them refills.
WindowBound == \A k \in Key : \A a, b \in admitted[k] :
                   a.sum <= b.sum => Fits(a, b.sum, b.at)

\* No request is denied that could be admitted: with it, the requests since some
\* admitted one would exceed the bound of their window.
DenialJustified == \A k \in Key : denied[k] # Absent =>
                       \E a \in admitted[k] :
                           /\ a.sum <= denied[k].sum
                           /\ ~Fits(a, denied[k].sum + Cost, denied[k].at)
=============================================================================
