------------------------------- MODULE Store -------------------------------
(***************************************************************************)
(* The SQLite store as its one writer uses it (sqlite.go): throttled       *)
(* snapshots, events, and a prune after every PruneEvery rows, counted in  *)
(* memory.  The tables outlive the process; the wall clock may step back;  *)
(* a statement may fail.  Queries may come between any two statements: the *)
(* properties speak of what they answer then.                              *)
(*                                                                         *)
(* Snapshot rows are numbered by AUTOINCREMENT, events by the order they   *)
(* are written in (no two have the same id in the code).                   *)
(***************************************************************************)
EXTENDS Integers, FiniteSets

CONSTANTS
    MaxStoredSnapshots, MaxStoredEvents,   \* 1000 and 2000
    HistoryMax, EventsMax,                 \* most that a query returns: 1000, 500
    HistoryDefault,                        \* and for no limit: 100
    PruneEvery,                            \* 32
    Gap,                                   \* time between two snapshots, 1500 ms
    MaxTies,       \* most events that carry one time
    MaxClock, MaxRows, MaxLapses           \* bounds on time, rows and lapses

ASSUME StoreConstants ==
    /\ {MaxStoredSnapshots, HistoryMax, HistoryDefault, PruneEvery, Gap} \subseteq Nat \ {0}
    /\ MaxClock \in Nat \ {0}
    /\ {MaxStoredEvents, EventsMax, MaxTies, MaxRows, MaxLapses} \subseteq Nat
    /\ HistoryDefault <= HistoryMax /\ HistoryMax <= MaxStoredSnapshots
    /\ EventsMax + MaxTies <= MaxStoredEvents

VARIABLES
    clock,         \* UnixMilli
    snapshots, events,   \* the tables
    lastSnapTime, writes,  \* of the process; writes modulo PruneEvery
    pruning,       \* the statement of a prune that is next, or "no"
    allSnapshots, allEvents,  \* history: the rows ever written
    run,           \* history: the id after which this process writes
    lapses         \* history: restarts and failures to prune snapshots since
                   \* they were pruned last

memory == <<lastSnapTime, writes, pruning>>
historyVars == <<allSnapshots, allEvents, run, lapses>>
storeVars == <<clock, snapshots, events, memory, historyVars>>

StoreInit == /\ clock = 1 /\ snapshots = {} /\ events = {}
             /\ lastSnapTime = 0 /\ writes = 0 /\ pruning = "no"
             /\ allSnapshots = {} /\ allEvents = {} /\ run = 0 /\ lapses = 0

Rows == Cardinality(allSnapshots) + Cardinality(allEvents)

\* The bound of the model.
Room == Rows < MaxRows

\* A row was written: maybePrune counts it.
Count == /\ writes' = (writes + 1) % PruneEvery
         /\ pruning' = IF writes' = 0 THEN "snapshots" ELSE "no"

\* Faulty variant: no throttle while the clock is behind.
ThrottledForward == lastSnapTime > 0 /\ clock - lastSnapTime < Gap /\ clock >= lastSnapTime

\* Too soon after the snapshot before; also when the clock stepped back.
Throttled == lastSnapTime > 0 /\ clock - lastSnapTime < Gap

\* RecordSnapshot, whose insert may fail when the time is taken already.
RecordSnapshot ==
    /\ pruning = "no" /\ Room /\ ~Throttled
    /\ lastSnapTime' = clock
    /\ \/ LET row == [id |-> Cardinality(allSnapshots) + 1, t |-> clock] IN
          /\ snapshots' = snapshots \cup {row} /\ allSnapshots' = allSnapshots \cup {row}
          /\ Count
       \/ UNCHANGED <<snapshots, allSnapshots, writes, pruning>>
    /\ UNCHANGED <<clock, events, allEvents, run, lapses>>

RecordEvent ==
    /\ pruning = "no" /\ Room
    /\ Cardinality({e \in allEvents : e.t = clock}) < MaxTies
    /\ LET row == [id |-> Cardinality(allEvents) + 1, t |-> clock] IN
       events' = events \cup {row} /\ allEvents' = allEvents \cup {row}
    /\ Count
    /\ UNCHANGED <<clock, snapshots, lastSnapTime, allSnapshots, run, lapses>>

\* The rows of a table that come after n newer ones.
After(table, n) == {r \in table : Cardinality({q \in table : q.id > r.id}) >= n}

\* SQLite may order rows of one time either way.
Beyond == {B \in SUBSET events :
              /\ Cardinality(events) - Cardinality(B) = MaxStoredEvents
              /\ \A b \in B, e \in events \ B : b.t <= e.t}

\* Faulty variant: one row less is kept.
PruneSnapshotsShort ==
    /\ pruning = "snapshots" /\ pruning' = "events"
    /\ snapshots' = snapshots \ After(snapshots, MaxStoredSnapshots - 1)
    /\ lapses' = 0
    /\ UNCHANGED <<clock, events, lastSnapTime, writes, allSnapshots, allEvents, run>>

\* Faulty variant: a prune deletes as many rows as were written since the last,
\* so that those left by a lapse stay for ever.
PruneSnapshotsBatch ==
    /\ pruning = "snapshots" /\ pruning' = "events"
    /\ LET excess == After(snapshots, MaxStoredSnapshots)
           batch == {r \in excess : Cardinality({q \in excess : q.id < r.id}) < PruneEvery}
       IN \/ snapshots' = snapshots \ batch /\ lapses' = 0
          \/ lapses < MaxLapses /\ lapses' = lapses + 1 /\ UNCHANGED snapshots
    /\ UNCHANGED <<clock, events, lastSnapTime, writes, allSnapshots, allEvents, run>>

PruneSnapshots ==
    /\ pruning = "snapshots" /\ pruning' = "events"
    /\ \/ snapshots' = snapshots \ After(snapshots, MaxStoredSnapshots) /\ lapses' = 0
       \/ lapses < MaxLapses /\ lapses' = lapses + 1 /\ UNCHANGED snapshots
    /\ UNCHANGED <<clock, events, lastSnapTime, writes, allSnapshots, allEvents, run>>

\* Faulty variant: the rows are ordered by time the other way round.
PruneEventsOldest ==
    /\ pruning = "events" /\ pruning' = "no"
    /\ LET B == {e \in events :
                    Cardinality({f \in events : f.t < e.t}) >= MaxStoredEvents} IN
       events' = {e \in events : \A b \in B : e.t # b.t}
    /\ UNCHANGED <<clock, snapshots, lastSnapTime, writes, historyVars>>

\* Events go by their time: with a row that is beyond, every row of its time.
PruneEvents ==
    /\ pruning = "events" /\ pruning' = "no"
    /\ \/ UNCHANGED events
       \/ \E B \in Beyond : events' = {e \in events : \A b \in B : e.t # b.t}
    /\ UNCHANGED <<clock, snapshots, lastSnapTime, writes, historyVars>>

\* The process ends at any moment and a new one opens the database.
Restart == /\ lapses < MaxLapses /\ lapses' = lapses + 1
           /\ lastSnapTime' = 0 /\ writes' = 0 /\ pruning' = "no"
           /\ run' = Cardinality(allSnapshots)
           /\ UNCHANGED <<clock, snapshots, events, allSnapshots, allEvents>>

ClockMoves == /\ clock' \in 1..MaxClock /\ clock' <= clock + 1
              /\ UNCHANGED <<snapshots, events, memory, historyVars>>

StoreNext == RecordSnapshot \/ RecordEvent \/ PruneSnapshots \/ PruneEvents \/ Restart \/ ClockMoves

StoreSpec == StoreInit /\ [][StoreNext]_storeVars

-----------------------------------------------------------------------------
(* What the queries answer                                                 *)

ClampLimit(n, fallback, max) == IF n <= 0 THEN fallback ELSE IF n > max THEN max ELSE n

\* QueryHistory: the newest rows.
QueryHistory(limit) ==
    snapshots \ After(snapshots, ClampLimit(limit, HistoryDefault, HistoryMax))

-----------------------------------------------------------------------------
(* Properties                                                              *)

Row == [id : Nat, t : 1..MaxClock]

\* The types of the variables; the tables hold rows that were written.
StoreTypeOK == /\ clock \in 1..MaxClock /\ lastSnapTime \in 0..MaxClock
               /\ writes \in 0..PruneEvery - 1 /\ pruning \in {"no", "snapshots", "events"}
               /\ allSnapshots \subseteq Row /\ allEvents \subseteq Row
               /\ snapshots \subseteq allSnapshots /\ events \subseteq allEvents
               /\ run \in 0..Cardinality(allSnapshots) /\ lapses \in 0..MaxLapses

\* Whatever limit it is asked for, the history is made of the newest snapshots ever
\* stored, as many as the clamped limit, with no hole: in the midst of a prune,
\* after failures and after a restart.
HistoryComplete == \A limit \in 0..HistoryMax + 1 :
    QueryHistory(limit) =
        allSnapshots \ After(allSnapshots, ClampLimit(limit, HistoryDefault, HistoryMax))

\* An event that is gone is older than as many stored ones as a query returns: the
\* recent events are complete, although a prune takes more than the rows beyond.
EventsComplete == \A e \in allEvents \ events :
    Cardinality({f \in events : f.t > e.t}) >= EventsMax

\* In one run the times of the snapshots rise by the gap, whatever the clock does.
Spaced == \A r, s \in allSnapshots : (run < r.id /\ r.id < s.id) => s.t >= r.t + Gap

\* The table of snapshots holds no more than the rows to keep and those written until
\* the next prune, and as many again for every restart and every prune that failed.
GrowthIsBounded == Cardinality(snapshots) <= MaxStoredSnapshots + (lapses + 1) * PruneEvery

\* docs/FAQ.md: old snapshots are pruned automatically, so that the table never holds
\* more than the rows to keep and those written until the next prune.
Bounded == Cardinality(snapshots) <= MaxStoredSnapshots + PruneEvery
=============================================================================
