# DrishtiScope: a TLA+ development

DrishtiScope watches processes of a Linux host. A Go backend collects snapshots
and events (from eBPF programs, from `/proc`, or from a generator), keeps a short
history, stores rows in SQLite and pushes everything to browsers over a
WebSocket. This directory holds TLA+ models of the parts where concurrency,
ordering and loss matter, the TLC configurations that check them on small
instances, and proofs, checked with TLAPS, of what holds for every instance.
Paths below are relative to the repository unless they name a module.

## 1. Inventory

| Part | State | Operations | Talks to |
| --- | --- | --- | --- |
| Hub (`internal/hub`) | registered clients, count, a queue per client, the broadcast queue | register, unregister, broadcast, drop a slow client, closeAll | handlers (unbuffered channels), fanout and heartbeat (queue), one pump per client |
| Data path (`cmd/agentscope/main.go`, `internal/agg`, `storage/async.go`) | latest snapshot, series, timeline, two store queues | fanout, Update, AddEvent, Record, writer loop, shutdown | collectors (channels), hub, store, HTTP handlers (`Latest`) |
| Kernel programs (`bpf/agent.bpf.c`) | counters per process and syscall, arguments in flight, ring buffer, filter maps | tracepoints of entry, return, exec, exit | the agent, through maps and the ring buffer |
| eBPF agent (`internal/ebpfagent`) | last readings, files, flows, events | map iteration, ring reader, buildSnapshot, filter update | kernel maps, `/proc`, the data path |
| `/proc` engine (`internal/realengine`) | last samples, known files and flows | collect: scan, match by name, readProcIO | `/proc`, the target, the data path |
| Target (`internal/config`) | pid and comm under a lock | Target, SetTarget | POST /api/target, both collectors |
| Rate limiter (`api/ratelimit.go`) | a token bucket per address | allow, gc | every REST request |
| Store (`storage/sqlite.go`) | two tables; throttle and counter in memory | insert, prune, query | the writer goroutine, REST reads |
| Browser client (`frontend/src/ws`, `App.tsx`) | socket, timer, attempts, status | connect, callbacks, reconnect, disconnect | the hub, the browser store |
| Browser data path (`App.tsx`, `useScopeStore.ts`) | snapshot, events, pause, throttle mark | push, fetch, pause | the client, REST |
| Search box and table (`Header.tsx`, `ProcessTable.tsx`, `Dashboard.tsx`) | text, list, highlight, requests on their way | type, keys, click, choose a target | POST /api/target, the snapshot |
| Chat and scratchpad (`ChatDrawer.tsx`, `GraphScratchpad.tsx`) | messages, question on its way, unread count, graphs | ask, answer, fail, draw, remove, reset | POST /api/chat, the browser store |
| Tabs and page (`Dashboard.tsx`, `tabs/*.tsx`) | tab, selected row, status; loading screen | push, choose a tab, pick a row | the snapshot |
| Help (`metricDocs.ts`, `MetricHelpModal.tsx`) | the explanation shown | open, close | every tab, graph and bar |
| Mock generator, chat endpoint, rates, middleware, other REST reads | little or none | pure functions of a request or a tick | |

What makes it hard: a channel that several goroutines close and send on; queues
that drop rather than wait; a snapshot object shared by pointer between a locked
builder and an unlocked writer; kernel programs that race on one map entry and
run once per *thread* where the agent thinks of processes; a target that an
engine reads, searches for, and writes back; unsigned counters that restart;
clocks that are read before a lock or that step back; a process that ends
while all of it goes on; and a page that posts a choice twice, looks up the same
process in five places, and loses the state of what it takes off the screen.
`PROJECT.json` lists these hazards line by line with the properties that watch them.

## 2. Modules

Every component has a module with its state, one action per operation, and its
properties; `...MC` modules instantiate it for TLC; `...Proofs` modules hold its
theorems. Definitions called "Faulty variant" are plausible mistakes, kept next
to the code they would replace: every property of a run is violated under one.

### FanOut and Hub (`hub.go`, `client.go`, `handleWS`)

`FanOut` is the abstract promise: each reader joins, receives a contiguous
stretch of the frames from then on, in order and with no hole, and ends. `Hub`
has the code: `Run`'s select, its broadcast loop client by client (`todo`; Go
iterates a map in any order), `drop`, `closeAll`, and per connection the handler
(`handler`: admission by `ClientCount`, upgrade, register, greet, read loop,
unregister) and the writePump (`pump`, `held`). Register and Unregister are
rendezvous with `Run` at its select; the two-second timeouts are choices
(`Starve` says whether a live hub may be that late). `closed` and `panicked`
record what Go would do on a double close or a send on a closed channel.
`Stream == INSTANCE FanOut` maps a client's pump state to the reader's phase.

### Pipeline (`main.go`, `agg/snapshot.go`, `storage/async.go`)

The collector's non-blocking sends, `fanout` through its stages builder, store
and hub, `SnapshotBuilder`, the asynchronous queues and their writer, and
`runApp`'s shutdown. A snapshot is a pointer: `timeline` and `series` are tables
by serial number, so that `AddEvent`, which rewrites the latest snapshot's
timeline under the lock, is seen by everyone who holds it. The writer's unlocked
copy has a beginning and an end and is torn when the timeline changed between.
One rolling series stands for the three alike. A snapshot may be skipped by the
store's throttle and an insert may fail. Queued rows are lost at `Close`, as in
the code. The no-op store is not modelled.

### KernelStats, KernelEvents (`agent.bpf.c`, `agent.go`)

`KernelStats`: `get_stats` as lookup, insert, second lookup and atomic add, each
a step of its thread; `bump_syscall`; `tp_exit` of every thread; the agent's map
iteration (a key may come twice when others are deleted) and its unsigned
subtraction. One counter stands for five. A pointer that outlives its entry may
be lost or hit another entry. Both maps refuse a new key when they are full:
`StatsCap` is the size of `process_stats`, `NrCap` that of `syscall_counts`.
`SetsAreFinite` also says that there is a thread: what is watched runs.

`KernelEvents`: open and connect from entry to return through `open_inflight`
and `connect_inflight`, a bounded ring buffer, `noteEvent`, and a filter that
changes at any moment. `left` records the threads that left the filter during a
call. An open is reported as it begins with its caller's own flags, of which bit 31
(`marked`) is also the mark of a failure. The table of flows has two writers:
`noteEvent` (`flows`), whose entries all say ESTABLISHED, and `buildSnapshot`
(`sockets`), which lists the sockets of `/proc/<pid>/net` in whichever state they
are. Their keys differ, for an event has no source address, so that the two never
overwrite each other, and no entry is removed: a socket that has gone keeps the
state it was last read in. `sockets` has one socket for each destination and only
those last read as ESTABLISHED; other states claim no connection. `connected` is
where a connect returned 0, a handshake in progress ended or a peer was accepted; a
connect of UDP, which `noteEvent` lists as "tcp ESTABLISHED" too, is not told apart.
Accept and exec events only pass through the ring buffer and are left out, and so is
the second filter in `handleEvent`.

### Target (`config.go`, `handlers.go`, `engine.go`)

POST handlers read the target, apply the fields of the request and set it; the
engine reads it, scans `/proc`, and writes back a match by name. A name stands
for comm and command line. `asked`, `installed` and `matched` are history.

### ProcTable, SampleEngine, SampleAgent, Sampling

`ProcTable` is what `/proc` shows of processes that run, exit and are replaced.
`SampleEngine` is the scan of the `/proc` engine with its guarded differences,
`SampleAgent` the loop of `buildSnapshot` with unsigned ones. `Sampling` composes
them: `main` starts one of the two on one process table. One counter stands for
user and system ticks, one for the four of `/proc/pid/io`.

### RateLimiter, WsClient, Store

`RateLimiter`: the clock is read before the lock, so calls of one key come late
by up to `MaxLag`; tokens are counted in what one tick refills (`Cost` is one
over the rate); rounding is left out. Target, RateLimiter and Store are proved
about in one module, `ServerProofs`, so the latter two have names of their own for
initial states and steps (`LimiterInit`, `StoreNext`, ...). `WsClient`: clients of
successive mounts of `App`, their sockets and timers, a path to the server that comes
and goes; a socket that loses it breaks, or goes dead with no event. Lengths of delays
are left out. `Store`: statements of the one writer, a counter in memory, a clock
that may step back, statements that fail, restarts. `lapses` counts restarts and
failed prunes since the last prune. The comm filter of the queries and the WAL
checkpoint are left out.

### Feed (`App.tsx`, `useScopeStore.ts`, on WsClient)

`Feed` EXTENDS `WsClient`: to each socket it adds the frames on their way, and to
each mount the fetch of `App`'s effect. The server numbers its frames; a snapshot
is its number, the empty one that the builder starts with is 0, and the last number
stands for every later one. A connection has two writers. Its handler makes the
greeting from the builder before the upgrade (`Greets`), the client is registered
and its pump started (`Joins`), and only then does the handler write the greeting
(`Greeted`), beside the frames that the pump writes by now (`Deliver`): the greeting
may come first, last or in between, and be older or newer than its neighbours. Only
the snapshot of the greeting is modelled: `hello` and the mode are kept for themselves
and touch no snapshot and no event.
`Take` is the message handler with the interval and manual mode, `SetSnapshot` and
`AddEvent` are the store's with the pause. `pushed` and `bringer` are history: the
last push that was taken and the connection it came by. `NeverBackwards` allows what
the two writers of one connection do: a frame of the hub that is behind the greeting of
its own connection, and a greeting that arrives after a newer frame of its own; nothing
else takes the page back.
`orphaned` marks the behaviors in which the timer of an unmounted client connects it
again (section 5). A reload is a new behavior: `FeedInit` starts with any stored rate.

### Views, Help, Omnibox, Copilot, Dashboard (the page)

- `Views` has no state: for each tab and graph, the set of its figures, pairs of
  a metric and the number that is shown for it, with JavaScript's `||` (`Or`) and
  `??` (`OrNull`) and what stands in for a missing number (`MadeUp`, `Fixed`);
  which row a tab takes for the target's, and what the story concludes from it.
- `Help`: the explanations that exist and the buttons each part offers, as sets
  of ids, and the window that opens and closes.
- `Omnibox`: the list of processes, keys, mouse, and the requests. `Listed` sorts by
  places: a process stands where as many come `Before` it as its place takes, which is
  the stable sort of the code. Without a snapshot the list offers three agents that the
  page makes up (`Fallback`).
  `posts` are those on their way in the order they were sent; the server takes
  them in any order, refuses them or loses them. A choice in the box is posted
  again by `handleTargetChange` when the first request is answered.
- `Copilot`: the conversation, the one question that may be on its way, graphs
  with their serial numbers (`Date.now()`, two of which may be equal), chart
  types; the graphs are a set, for no two have the same number and kind. A message is
  a role, a question the set of its telling words.
- `Dashboard` EXTENDS the three and composes them: every gesture is done with the
  mouse, which closes the list of the box, or by the keyboard; `Push` is a tick
  of the `/proc` engine, whose `Collected` makes a snapshot of the target and the
  host: the net rates are the host's, and so are sockets where the process has fewer
  than two (`HostNet`); disk rates are always 0 and the rate of calls the 14.5 that
  stands for less than one, because the scan has just stamped the entry that the
  differences are taken from (section 5). The rows are those of the scan in one of the
  orders that `sort.Slice` may give them (`Sorted`), for the target as it was before the
  scan; `found` is history and marks the tick that found its pid. `World` is any set of
  hosts whose processes have pids of their own, and a tick may find another host than the
  last: processes come, go and change their load. `ConnectionChanges` brings the loading
  screen, which takes header and drawer away while their requests go on. What may happen
  to a snapshot on its way is in Feed; here it arrives at once.

## 3. Runs

Bounds are small because the interesting cases are: two clients and one place,
one queue slot, two threads of one process. Every constant named `Max...` that is
not a limit of the code is a bound of the model.

| Run | Shows | Bounds, and why they are enough |
| --- | --- | --- |
| `hub` | `NoPanic`; `KeepsUp`; `ImplementsFanOut` | 2 clients, queues of 1, 3 frames: a queue fills, a client is dropped while the other is served, shutdown meets every state of the handlers. `Starve` is TRUE |
| `hub_live` | `Admission`; `WindsUp`; `FramesArrive` | 2 clients for 1 place and 1 frame: both pass the early check, one is refused |
| `pipeline` | `FramesAgree`; `LatestCoversSent`; `NoLateWrite`; `DiskNeverBlocks`; `AllIsBroadcast`; `Terminates` | 2 snapshots and 2 events, all capacities 1: every queue overflows and every window slides |
| `kernel_stats` | `RatesTrueIfOrderly`; `NothingLost`; `LossIsBounded` | 2 processes (2 threads and 1), a map for 1, 2 call numbers in a map for 1, 2 calls each: races of the first call, full maps, exit, reuse. The bound of `LossIsBounded` is met with one number and has its premise false with two |
| `kernel_events` | `EventsTrueUnlessLeft`; `FlowsAreReal`; `ErrorsAreReal`; `EntriesAreCurrent` | 2 threads, 2 arguments, a ring of 2, 3 calls, so that a call follows one whose record was dropped; flags with and without bit 31, sockets that connect and go |
| `target` | `PublishedWasInstalled`; `FilterIsJustified`; `Settles` | 2 pids, 2 names, 2 requests one after the other against the engine, 1 new process. The theorems cover any number of handlers |
| `sample` | `CpuNeverInvented` of the engine, `AgentIoNeverInvented` of the agent | 2 pids, 3 ticks, 2 units of work: three samples, an exit and a reuse between any two |
| `limiter` | `WindowBound`; `DenialJustified` | 2 keys, 2 callers, 6 requests, 8 ticks, `GcIdle` at its least sound value 5 = 3 + 2 * 1; with 3 TLC finds the early refill |
| `browser` | `OneConnection`; `StatusTrue`; `NeverBackwards`; `Reconnects`; `CatchesUp` | 1 mount, 2 sockets, 3 frames of which 1 is an event, one interval of 2 ticks: a dead and a fresh socket, a greeting before and after its frames, newer and older than they are, frames inside the interval. By hand also, the safety alone, with 4 frames of which 2 are events and a list for 1, and with 3 sockets |
| `store` | `HistoryComplete`; `EventsComplete`; `Spaced`; `GrowthIsBounded` | keep 1 snapshot, prune every 2 rows, 6 rows, 4 instants, 1 lapse: prunes with and without ties, a step back, a restart in the midst of a prune. The bound of `GrowthIsBounded` is 3 without a lapse and 5 with one, both less than the rows written |
| `dashboard` | `ChoiceStands`; `ShowsTarget`; `Alternates`; `ChatKept`; `HelpOpens` | 3 gestures, a host with three processes or with two of them equally busy, two of one name, one pid inside another; 3 texts to type, 3 questions; a list that shows 2. Three gestures are enough to choose twice, to ask while an answer is due and to draw a graph on a tab; a fourth multiplies the states by twenty |
| `kernel_rates` | violation of `RatesTrue` | see section 5 |

No run spends a check on types: the type invariants of Hub, Pipeline, KernelStats,
KernelEvents, Target, Sampling, RateLimiter, WsClient and Store are theorems. Deadlock checking
is off where the modelled system may stop: every input is bounded, browsers and
processes may go away.

### Fairness

- `hub_live`: the goroutines of Go run, so `Run`, every handler and every pump
  have weak fairness for a step they can take; Register and Unregister have
  strong fairness because Go's select picks at random among ready cases. Nothing
  is assumed of browsers, of producers or of cancellation.
- `pipeline`: weak fairness of `fanout`, strong fairness of its choice in select.
  The disk has none, which is what `DiskNeverBlocks` and `AllIsBroadcast` are
  about. `Terminates` has `EndingFair` as its premise: the writer's statements
  end, and `http.Shutdown` returns within its timeout.
- `target`: the ticker goes on, and a handler with its request ends. `Settles`
  speaks of requests and processes that come to rest, as the bounds force them to.
- `browser`: the event loop delivers what has happened and lets timers fire, `App`
  is mounted, the clock goes on, and the server keeps publishing and sending. The
  path to the server has no fairness, nor has the answer to a fetch: `Reconnects`
  and `CatchesUp` are about paths that stay up and leave no dead socket.
- `dashboard` has none: its properties are about what may happen.

## 4. Theorems

All are of the form `Spec => []Inv` for every value of the constants that meets
the named assumptions, but for `HubImplementsFanOut`, which is a refinement, and
`ConversationKept` and `NeverBackwardsHolds`, which are action properties.

- **HubProofs**: `TypeCorrect`, `ChannelsSafe` (no double close, no send on a
  closed channel), `AdmissionHolds`, `KeepsUpHolds`, `HubImplementsFanOut`. None
  is inductive alone. The invariant adds `Serving` (who may be in the loop of a
  broadcast), `ChannelInv` (a registered client's channel is open, and who may
  still close it), and per client `StretchInv`: what it got, holds and has queued
  is, in order, the stretch of the log from its registration on, as far as the
  broadcast loop has come. The refinement maps each action to a step of FanOut or
  a stutter.
- **PipelineProofs**: `TypeCorrect`, `FramesAgreeHolds`, `LatestCoversSentHolds`,
  `RowsAreStrippedHolds`, `NoLateWriteHolds`. `StreamInv` relates the builder's
  windows to the frames sent plus the one item under way; it rests on
  `WindowOfAppend` (the window of an append is the window of the window with the
  element appended). `WriterInv` says that a copy was emptied before its insert
  and that the writer has ended before the database is closed.
- **KernelStatsProofs**: `TypeCorrect`, `RatesTrueHolds`, `NothingLostHolds`,
  `LossIsBoundedHolds`, and `BalanceHolds`, the invariant of the first two. It is a
  balance per process (`Accounted`): what was reported is what the agent read last,
  which is no more than what its entry holds, and that with the calls still on their way
  to the entry is no more than the calls made. While the map has room for all who called
  (`Roomy`) the two are equal (`Balanced`). It is inductive only as long as processes end
  in order, for it says that an entry that a thread has found is still there
  (`FoundIsHeld`); the run `kernel_rates` shows what happens otherwise. The balance with
  room rests on the one without. `LossInv` is about `bump_syscall`: that nothing is
  counted twice holds always (`Counters`); that each thread but the one that made the
  counter may lose one call (`Bumped`) holds while `syscall_counts` has room for all
  numbers that went through it (`Fits`), for until then no update is refused but by a
  counter that is there. Once it is full every call of a further number is lost, and
  the theorem claims nothing of it.
- **KernelEventsProofs**: types, `EventsTrueHolds`, `EntriesAreCurrentHolds`,
  `FlowsAreRealHolds`, `ErrorsAreRealHolds`. The entries are inductive for every thread
  that has not left the filter during a call; events and flows are true as long as none
  has, the flows of both sources. For the errors of a path, `Charged` adds those noted to
  the failures that are still in the ring, counted by their positions: a record that is
  read moves all others by one, which is a bijection between the two sets of positions
  (`TailCounts`). What is charged against is the failures and the calls begun with bit 31
  (`flagged`), because the record of an entry carries the caller's flags.
- **ServerProofs**, Target: types, `PublishedWasInstalledHolds`,
  `FilterIsJustifiedHolds`, from where the engine's copy stands towards the filter's
  history (`CopyInv`) and from what was seen running (`SeenInv`).
- **ServerProofs**, RateLimiter: types, `WindowBoundHolds`, `DenialJustifiedHolds`, if
  `GcIdle >= Burst + 2 * MaxLag`. The key lemma is that the level of a bucket is
  exactly the least that any window leaves over, or the full burst. With the
  default rates the code's five minutes meet the hypothesis; settings whose burst
  is more than 300 seconds of their rate do not (`config.go:108-112`).
- **ServerProofs**, Store: `StoreTypeCorrect`, `HistoryCompleteHolds`,
  `EventsCompleteHolds`, `SpacedHolds`, `GrowthIsBoundedHolds`, all from `StoreInv`.
  `Numbered` says that the ids have no gap, so that the rows newer than one are counted
  by its id; `Newest` that the table is a tail of all rows ever written, at least as long
  as a query may ask for, whatever was pruned; `Growth` bounds it by the writes since the
  last prune and by `lapses`; `LastIsLatest` that the throttle remembers the newest row of
  this run; `TiesBounded` that few enough events share a time for a prune, which removes
  whole instants, to leave what a query returns.
- **SampleProofs**: `CpuNeverInventedHolds` for the engine, from `ShownBound`: a
  living process shows at most the entry of its pid and what ran since.
  `AgentIoNeverInventedHolds` for the agent, from `Moved`: a process that had its
  pid first shows exactly the entry and what it moved since, and no counter reaches
  the modulus, so that the unsigned difference does not wrap. `SamplingTypeCorrect`
  needs `LastShown`: the engine never takes its target for one that has moved fewer
  bytes than at its sample before.
- **FeedProofs**: `ClientTypeCorrect`, `OneConnectionHolds`, `StatusTrueHolds`, `NeverGivesUpHolds`,
  `NeverBackwardsHolds`. `ClientInv` says that a client has one socket that has not
  ended, or one timer, and knows the socket; only then does `onerror` close nothing
  but the socket that failed (`EndsAlone`). For the order of the frames, `InOrder` says
  of an open connection that its frames follow each other, that none of them was taken
  in before, and how far the greeting and the frames may be apart: a snapshot that is
  older than what the page has is also older than the greeting of its connection, and a
  greeting that is older comes after a frame of its own connection. That holds as long as no
  timer of an unmounted client has fired (`orphaned`): before, all that is live is
  of one client (`Current`), so that only one connection is taken from (`OneLive`).
  `NewestIs`, from the least element of a set of numbers, says what a greeting is.
- **DashboardProofs**: `CopilotAlternates` is about the chat by itself: `Turns` says
  with it that a question is on its way exactly while `loading` is true, which is
  what `sendMessage` tests. `PageAlternates` and `ConversationKept` lift that to the
  page. `PageSteps` shows that a step of the page is one of the chat, leaves the
  chat alone, or takes it from a page without a snapshot. `LastChoiceStands`
  rests on `Followed`: the last choice has no request on its way and stands, or
  has one, which is for what was chosen, and stands once the server has taken
  one of the two. It needs that the engine's match is found once (`FoundOnce`) and
  that a tick leaves a choice standing (`TickStands`). `HelpOpensHolds`: every tab,
  graph and answer offers explanations that exist (`HelpInv`).

  `MeasuredShownHolds` and `ShowsTargetHolds` are about every host (`World`). `Sound` is what
  all snapshots of the engine have in common: their numbers are numbers, no two rows have
  one pid, and the target's row says what the kpis say and stands where the page looks
  for it. `CollectedIsSound` shows that every order of the rows that the sort may give
  keeps that; then there is a lemma for the panels of each tab, and `SoundIsShown` is
  their sum. `TotalAdds` is what a sum over a sequence split by categories comes to.
  `Faithful` says of a figure whose name is a metric of the snapshot that it is the number
  there, unless that is 0 or missing: then it may be 0 or a number of the tab's own, and
  tabs may well differ (section 5). What a tab prints without reading anything passes
  only under a name that the snapshot has no number for (`Printed`), with the one
  exception that the property names, `PrintedWait`.
  `MarkInv` carries names through the requests: one that has a name and a pid has
  the name of every process with this pid, from the list, whose places are all taken
  (`Places`), or from the table, to the target and to the snapshot. For the mark in the
  table `PidsStay` is assumed, that no pid passes to another process: `target.comm` is
  never read again once a pid is known, so that after a reuse the table marks the rows of
  the old name and not the one that is observed.

Only model-checked are the temporal properties, which are liveness under fairness and
out of the prover's reach: `WindsUp` and `FramesArrive` of Hub,
`DiskNeverBlocks`, `AllIsBroadcast` and `Terminates` of Pipeline, `Settles` of Target,
`Reconnects` and `CatchesUp` of Feed. Every invariant and every action property that a
run checks is a theorem.

## 5. Disagreements between code and documentation

One is a run that TLC ends with a counterexample:

- `kernel_rates`: `sched_process_exit` fires for every *thread* and `tp_exit`
  deletes the counters of the whole process (`agent.bpf.c:343`); the entry made
  next counts from 0, and `readProcessStats` subtracts the older, larger reading
  from it in `uint64` (`agent.go:568-573`). The rate becomes about 2^64.
  `metricDocs.ts:105` promises calls per second.

The others are not among the runs. Those that name a property are stated in a
module, and a configuration, where one is named, reproduces the counterexample.
The rest were met while reading the code for its model, which shows them too.

### Server

- A target posted while the engine scans is answered with ok and overwritten by
  the engine's match (`engine.go:123`); `proto/schema.md:145` says that the POST
  updates the filter (`PostSticks`, `TargetPost.cfg`).
- A broadcast can reach a browser before `hello`: `client.go:44-57` registers the
  client and starts its pump before it writes the greeting. `proto/schema.md:20`
  and `client_test.go:46-47` take hello for the first message (`HelloFirst`,
  `HubHello.cfg`).
- `tp_exit` announces the exit of a process when one of its threads ends
  (`agent.bpf.c:338`; `docs/ARCHITECTURE.md:84`; `ExitsAreReal`,
  `KernelStatsExit.cfg`).
- An entry that a thread left in flight when it left the filter is reported with
  a later call of it (`agent.bpf.c:421-422`, `444`; `README.md:50`; `EventsTrue`,
  `KernelEventsRetarget.cfg`).
- A target by name becomes the pid of the first match, and no successor of that
  process is followed (`engine.go:121-124`; `config.go:150`; `FollowsComm`,
  `TargetFollow.cfg`).
- In the tick that finds a target by its name the rows are sorted for the target as it
  was before, without a pid: every process whose comm equals the name comes first, in the
  order of their load, and none does if the name was found in a command line. The comment
  (`engine.go:363`) says "target first" (`TargetFirst`, `DashboardFirst.cfg`).
- `handleTarget` reads and sets the target in two critical sections, so that a
  request for a pid only can undo the comm of another (`handlers.go:93-103`;
  `config.go:181`). No property states it.
- `scanAllProcesses` stores its entry with this tick's time and zero bytes before
  `readProcIO` computes the I/O difference from it, so that the time difference
  is 0 and no disk rate is ever shown (`engine.go:326-329`, `401-402`;
  `docs/ARCHITECTURE.md:93`; `IoIsMeasured` of SampleEngine).
- A process that exits between `ResolveTargets` and its turn in the loop of
  `buildSnapshot` reads as zero ticks without an error (`proc.go:199-209`), and
  the unsigned difference wraps (`agent.go:422`; `metricDocs.ts:25`;
  `AgentCpuNeverInvented` of Sampling).
- Bit 31 of the flags is the mark of a failed open (`agent.bpf.c:449`, `agent.go:369`)
  and the record of an entry has the caller's own flags in the same field
  (`agent.bpf.c:370`, `379`): an open that succeeded is counted as an error of its path
  if its caller set the bit, and one that failed twice. `ErrorsAreReal` charges for it.
- `syscall_counts` has 512 keys that nothing removes (`agent.bpf.c:182-187`); calls of a
  further number are never counted (`agent.bpf.c:300`). `LossIsBounded` ends there.
- The counter that triggers a prune starts from 0 with every process
  (`sqlite.go:192`), so that short runs let the table grow; `docs/FAQ.md:167`
  says that old snapshots are pruned automatically (`Bounded`,
  `StoreRestart.cfg`). What does hold is `GrowthIsBounded`.
- `buildSnapshot` takes the processes of one reading of the target, the kernel's
  filter of a second and the name of the snapshot of a third
  (`agent.go:396`, `633`, `501`), and the kernel watches a process for its pid *or*
  a prefix of its name (`agent.bpf.c:243-246`), so that a target by pid and name is
  also charged for the calls of its namesakes.

### Browser

- Heartbeats are received and ignored (`App.tsx:64`), so that a connection lost
  without a close event stays "connected"; `frontend/README.md:42` speaks of
  heartbeat monitoring (`LossNoticed`, `WsClientSilent.cfg`).
- A first fetch that fails is not filled in by the stream in manual mode
  (`App.tsx:35` says that it is; `App.tsx:49`; `FillsIn` of Feed).
- `docs/FAQ.md:86` has manual mode freeze pushes "until explicitly refreshed", but
  `loadSnapshot` (`Header.tsx:89`), the only refresh, is called by nothing.
- `disconnect` leaves a pending timer, so that the client of an unmounted `App`
  connects again and writes into the store (`ws/client.ts:53`; `orphaned` of Feed).
- A choice in the box is posted twice, and nobody waits for the second request
  (`Header.tsx:122`); rows of list and table stay clickable meanwhile. The second
  request of an older choice can overwrite a newer one: `ChoiceStands` is about
  choices that no other crosses.
- The table sends the label of copilot without its pid, so that it is found again
  after a restart (`ProcessTable.tsx:40-42`); the box sends the same label with the
  pid (`Header.tsx:133`).
- `highlightedIndex` is a position: when a snapshot re-sorts the list, Enter takes
  another process than the one that was highlighted, and the arrows may go beyond
  the 25 rows that are shown (`Header.tsx:289-303`).
- The list marks every process whose pid or name occurs in the label of the target
  (`Header.tsx:262-268`): 12 in a target of 120. `POST` of a pid alone keeps the old
  name (`handlers.go:96`), and the table then marks the rows of that name
  (`TableMarks` is about targets that were named, and pids that stay).
- When the target does not run, a process of its name takes its place in the tabs
  (`Dashboard.tsx:61-67`; `NoDouble` is the premise of `MeasuredShown`). It may do so for
  one snapshot too when the target was only just found, see the next.
- A counted 0 is taken for a missing number. Of a target without an open file (or whose
  `/proc/<pid>/fd` cannot be read) the basic tab shows 42 (`BasicTab.tsx:465`) and 0
  (`BasicTab.tsx:293`), the complete picture 34 (`CompletePictureTab.tsx:309`). The help
  beside the 42 says that it is the count of entries in `/proc/[pid]/fd/`
  (`metricDocs.ts:97`; `FdsCounted`, `DashboardFds.cfg`). So tabs may contradict each
  other, and `ShowsTarget` says nothing of a 0.
- A disk rate or syscall rate of 0 is shown as 8192 or 1420
  (`CompletePictureTab.tsx:326`, `200`), other tabs show 0; many numbers of the
  advanced tab never change (`Fixed` in Views). One of them stands for a number that is
  measured: 1.42 µs for the wait in the run queue (`AdvancedTab.tsx:215`), which
  `metricDocs.ts:317` takes from the kernel and other tabs show as it is.
- The graph of page faults, of the scratchpad and of the chat, names an explanation
  that does not exist, `memory_subsystem` (`GraphScratchpad.tsx:186`,
  `ChatDrawer.tsx:250`): its button opens nothing, where `README.md:215` promises the
  window for every chart. `HelpOpens` excepts it.
- The story shows the first 15 events of a list whose newest is last
  (`StoryTab.tsx:240`), so that it stands still once there are 15.
- `/` moves the focus to the search from the chat's text area too, because only
  `INPUT` is excepted (`Dashboard.tsx:22`). The keys 1 to 5 of `README.md:95-131` are
  not in the code.
- Closing the drawer after an answer was read counts that answer as unread
  (`ChatDrawer.tsx:163-170`); an answer of status 429 or 500 is shown as a backend
  that cannot be reached (`ChatDrawer.tsx:321`); the types chosen for graphs outlive
  a reset (`GraphScratchpad.tsx:56`).

## 6. Not modelled

- Static tables, type declarations and stubs for other platforms; drawings,
  formatting, themes and the texts of answers and explanations; the chat endpoint's
  string matching; the stateless middleware: nothing in them depends on an order of
  steps. `FlowTable`, `FileTable` and `Timeline` are used by no tab. The in-memory
  store and the rate estimators are used by tests only.
- The watched set of the eBPF agent. `KernelEvents` lets the filter change to any
  set at any moment, which covers whatever `ResolveTargets` and `syncTargetsToMap`
  install, at the price that nothing is said about what the set converges to.
- `knownFDs`, `knownFlows` and `readNetDev` of the `/proc` engine, and the
  arithmetic of the generator: state of a single goroutine.
- Start and stop of the heartbeat, of the limiter's gc loop and of the ring reader.
- In the browser: two pages at once, and the React scheduler. A state update and
  the rendering it causes are one step, which is what the handlers rely on.

`PROJECT.json` names every component and how far it is modelled.

## 7. Plan

Done, in the order of what matters most to a viewer of the dashboard: Hub with
FanOut; Pipeline; KernelStats and KernelEvents; Target; the samplers;
RateLimiter, WsClient and Store; Feed on WsClient; the page with search box, chat,
tabs and help; proofs of every invariant and action property of all of them.

Left, models:

1. **Filter**, with Target: `ResolveTargets`, `writeConfigToMap`,
   `syncTargetsToMap`, `is_target`, `tp_exit`'s deletions and `handleEvent`'s own
   filter, as a refinement of the filter of KernelEvents. To state: under a steady
   target the watched set converges, and what is stale is at most one tick old.
2. **EngineEvents**, with Sampling: `knownFDs`, `knownFlows`, `readNetDev` and the
   list of recent events. To state: no file or flow is announced twice, and what is
   lost is bounded.
3. **Algorithms**: pure operators against reference definitions: the rate
   estimators, the generator's tick arithmetic, clamping and parsing.

Left, proofs: `WindowBound` without the hypothesis where gc is off; refinements of
Pipeline's queues; and safety lemmas that liveness rests on (that what the fairness
conditions name stays possible until it is taken).
