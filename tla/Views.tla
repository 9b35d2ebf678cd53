------------------------------- MODULE Views --------------------------------
(***************************************************************************)
(* What the tabs of the dashboard show of a snapshot: the row they take for*)
(* the target, and for every panel its figures, the number shown for a     *)
(* metric.  A figure is read from the target's row, from the kpis or from  *)
(* the sre block, with JavaScript's || and ?? between them and what the    *)
(* page shows when there is nothing.  Units, rounding and the wobble that  *)
(* charts add to a number are left out.                                    *)
(*                                                                         *)
(* A snapshot is None, for null, or a record of its target, rows, kpis,    *)
(* sre, syscalls_top and flows.  Texts are names; Inside says which of     *)
(* them occurs in which.                                                   *)
(***************************************************************************)
EXTENDS Integers, Sequences, FiniteSets, SequencesExt, TLC

CONSTANTS
    None,
    Inside         \* pairs of texts: the first occurs in the second

Absent == -1       \* undefined
MadeUp == -2       \* a number the page shows for want of one
Fixed == -3        \* a number the page shows whatever the snapshot says

\* x || y, and x ?? y.
Or(x, y) == IF x \in {Absent, 0} THEN y ELSE x
OrNull(x, y) == IF x = Absent THEN y ELSE x

Kpi(s, m) == IF s = None THEN Absent ELSE s.kpis[m]
Sre(s, m) == IF s = None THEN Absent ELSE s.sre[m]
Row(p, m) == IF p = None THEN Absent ELSE p[m]

\* Does text a occur in text b?
Occurs(a, b) == a = "" \/ a = b \/ <<a, b>> \in Inside

\* agentLabel: the name of a process, copilot where only its command line says so.
agentLabel(comm, cmdline) == IF Occurs("@github/copilot", cmdline) THEN "copilot" ELSE comm

\* Faulty variant: the first row is the target's.
FirstProcess(s) == IF s = None \/ s.rows = <<>> THEN None ELSE s.rows[1]

\* Does process p have the name of target t, or the name in its command line?
HasName(t, p) == t.comm # "" /\ (p.comm = t.comm \/ Occurs(t.comm, p.cmdline))

\* The first row with the target's pid or its name.
TargetProcess(s) ==
    IF s = None THEN None
    ELSE LET Answers(p) == (s.target.pid # 0 /\ p.pid = s.target.pid) \/ HasName(s.target, p)
             i == SelectInSeq(s.rows, Answers)
         IN IF i = 0 THEN None ELSE s.rows[i]

NetBps(s) == Or(Kpi(s, "net_bps_tx"), 0) + Or(Kpi(s, "net_bps_rx"), 0)
DiskBps(s) == Or(Kpi(s, "disk_bps_r"), 0) + Or(Kpi(s, "disk_bps_w"), 0)

-----------------------------------------------------------------------------
(* Overview: BasicTab                                                      *)

BasicBanner(s) ==
    {<<"pid", IF s = None THEN 0 ELSE s.target.pid>>,
     <<"error_budget_pct", OrNull(Sre(s, "error_budget_pct"), MadeUp)>>,
     <<"burn_rate", OrNull(Sre(s, "burn_rate"), MadeUp)>>,
     <<"slo met", Fixed>>}

BasicSignals(s) ==
    {<<m, OrNull(Sre(s, m), MadeUp)>> :
        m \in {"latency_p50_us", "latency_p90_us", "latency_p99_us", "slo_availability",
               "runqueue_latency_us"}}
    \cup {<<m, Or(Kpi(s, m), 0)>> :
        m \in {"syscalls_per_sec", "err_syscalls_per_sec", "cpu_pct", "open_fds"}}
    \cup {<<"net", NetBps(s)>>, <<"disk", DiskBps(s)>>, <<"headroom", Fixed>>}

\* The base of the two waves: 1200 system calls where none were measured.
BasicWaves(s) == {<<"syscalls_per_sec", Or(Kpi(s, "syscalls_per_sec"), MadeUp)>>,
                  <<"latency_p99_us", OrNull(Sre(s, "latency_p99_us"), MadeUp)>>}

BasicSpotlight(s, p) ==
    {<<"pid", Or(Or(Row(p, "pid"), IF s = None THEN Absent ELSE s.target.pid), 0)>>,
     <<"ppid", Or(Row(p, "ppid"), MadeUp)>>,
     <<"threads", Or(Or(Row(p, "threads"), Kpi(s, "threads")), MadeUp)>>,
     <<"rss_bytes", Or(Or(Row(p, "rss_bytes"), Kpi(s, "rss_bytes")), 0)>>,
     <<"vms_bytes", Or(Row(p, "vms_bytes"), IF Or(Kpi(s, "rss_bytes"), 0) = 0 THEN 0 ELSE MadeUp)>>,
     <<"ctx_switches", OrNull(Row(p, "ctx_switches"), MadeUp)>>,
     <<"open_fds", Or(Or(Row(p, "open_fds"), Kpi(s, "open_fds")), MadeUp)>>}

-----------------------------------------------------------------------------
(* Process Story: StoryTab                                                 *)

\* The story's name and the role it gives it: the first that fits.
StoryRole(s, p) ==
    LET comm == IF p # None THEN p.comm ELSE IF s = None THEN "unknown" ELSE s.target.comm
        cmdline == IF p = None THEN "" ELSE p.cmdline
        roles == <<"codex", "agy", "copilot", "node", "python">>
        Fits(r) == Occurs(r, comm) \/ Occurs(r, cmdline)
        i == SelectInSeq(roles, Fits)
    IN IF i = 0 THEN "agent" ELSE roles[i]

\* The verdict on what the process does.
StoryVerdict(s, p) ==
    IF OrNull(OrNull(Kpi(s, "cpu_pct"), Row(p, "cpu_pct")), 0) > 15 THEN "active"
    ELSE IF OrNull(OrNull(Kpi(s, "open_fds"), Row(p, "open_fds")), 0) > 50 THEN "high i/o"
    ELSE IF OrNull(Kpi(s, "syscalls_per_sec"), 0) > 1000 THEN "rapid" ELSE "idle"

\* The pid is also that of the commands that the story offers for a terminal.
StoryBanner(s, p) ==
    {<<"pid", Or(Or(Row(p, "pid"), IF s = None THEN Absent ELSE s.target.pid), 0)>>,
     <<"ppid", OrNull(Row(p, "ppid"), MadeUp)>>}

StoryRibbon(s, p) ==
    {<<"cpu_pct", OrNull(OrNull(Kpi(s, "cpu_pct"), Row(p, "cpu_pct")), 0)>>,
     <<"rss_bytes", Or(Or(Kpi(s, "rss_bytes"), Row(p, "rss_bytes")), 0)>>,
     <<"threads", OrNull(OrNull(Row(p, "threads"), Kpi(s, "threads")), MadeUp)>>,
     <<"open_fds", OrNull(OrNull(Row(p, "open_fds"), Kpi(s, "open_fds")), 0)>>,
     <<"disk", DiskBps(s)>>, <<"net", NetBps(s)>>}

-----------------------------------------------------------------------------
(* Execution & CPU: MediumTab, and the table of processes in it            *)

MediumTiles(s) ==
    {<<"cpu_pct", OrNull(Kpi(s, "cpu_pct"), 0)>>, <<"net", NetBps(s)>>, <<"disk", DiskBps(s)>>}
    \cup {<<m, Or(Kpi(s, m), 0)>> :
        m \in {"threads", "rss_bytes", "open_fds", "syscalls_per_sec", "err_syscalls_per_sec"}}

\* The flame graph has six frames, and always the same shares.
MediumFlame == {<<"flame", Fixed>>}

\* The rows the table marks as the target.
TableTargets(s) ==
    IF s = None THEN {}
    ELSE {p \in ToSet(s.rows) : \/ HasName(s.target, p)
                                \/ /\ s.target.comm # ""
                                   /\ s.target.comm = agentLabel(p.comm, p.cmdline)}

-----------------------------------------------------------------------------
(* System Metrics: AdvancedTab                                             *)

SyscallCategory(name) ==
    LET HasOneOf(parts) == \E x \in parts : Occurs(x, name) IN
    IF HasOneOf({"read", "write", "open", "close"}) THEN "io"
    ELSE IF HasOneOf({"futex", "wait", "sleep", "poll"}) THEN "sync"
    ELSE IF HasOneOf({"send", "recv", "connect", "accept", "sock"}) THEN "net"
    ELSE IF HasOneOf({"mmap", "brk", "madvise"}) THEN "mem" ELSE "proc"

\* The sum of a sequence of numbers: a function, where a fold takes an operator.
Total(f) == LET n == Len(f)
                sum[i \in 0..n] == IF i = 0 THEN 0 ELSE sum[i - 1] + f[i]
            IN sum[n]

\* The calls per category, and their sum: five invented numbers when it is 0.
AdvancedSyscalls(s) ==
    LET calls == IF s = None THEN <<>> ELSE s.syscalls_top
        bucket == {<<i, SyscallCategory(calls[i].name)>> : i \in DOMAIN calls}
        Count(c) == Total([i \in DOMAIN calls |-> IF <<i, c>> \in bucket
                                                  THEN calls[i].count_s ELSE 0])
        sum == Count("io") + Count("sync") + Count("net") + Count("proc") + Count("mem")
    IN {<<"syscalls_top", IF sum = 0 THEN MadeUp ELSE sum>>}

\* Page cache, shared and virtual memory are shares of the rss.
AdvancedMemory(s) == {<<"rss_bytes", Or(Kpi(s, "rss_bytes"), MadeUp)>>, <<"page cache", Fixed>>}

TcpState(state) ==
    IF Occurs("ESTABLISH", state) THEN "Established"
    ELSE IF Occurs("CLOSE", state) THEN "Close Wait"
    ELSE IF Occurs("TIME", state) THEN "Time Wait"
    ELSE IF Occurs("LISTEN", state) THEN "Listen" ELSE "Established"

\* The sockets per state, and their sum: seven when there are none.
AdvancedTcp(s) ==
    LET flows == IF s = None THEN <<>> ELSE s.flows
        In(state) == Cardinality({i \in DOMAIN flows : TcpState(flows[i]) = state})
        sum == In("Established") + In("Close Wait") + In("Time Wait") + In("Listen")
    IN {<<"flows", IF sum = 0 THEN MadeUp ELSE sum>>}

AdvancedConcurrency(s) == {<<"threads", Or(Kpi(s, "threads"), MadeUp)>>}

\* Scheduler latency, page faults and socket drops are printed, never read: the first is
\* 1.42 us whatever the snapshot measured of the run queue.
AdvancedDiagnosis == {<<"runqueue_latency_us", Fixed>>, <<"page faults", Fixed>>,
                      <<"socket drops", Fixed>>}

-----------------------------------------------------------------------------
(* Security & Logs: CompletePictureTab; the scratchpad; the status bar     *)

\* The radar has one profile for agy and one for all others.
CompleteRadar == {<<"radar", Fixed>>}

\* Of the five columns only the last is read: whether calls fail.
CompleteDenials(s) == {<<"denials", Fixed>>,
                       <<"fails", IF Or(Kpi(s, "err_syscalls_per_sec"), 0) = 0 THEN 0 ELSE 1>>}

\* The panels of the four roles.
CompleteRoles(s) ==
    {<<m, Or(Kpi(s, m), MadeUp)>> :
        m \in {"syscalls_per_sec", "threads", "rss_bytes", "open_fds", "disk_bps_w"}}
    \cup {<<"context switches", Fixed>>, <<"fork latency", Fixed>>, <<"rtt", Fixed>>}

\* The base numbers of a graph of the scratchpad.
GraphData(preset, s) ==
    CASE preset = "quantile_curve" ->
            {<<m, OrNull(Sre(s, m), MadeUp)>> :
                m \in {"latency_p50_us", "latency_p90_us", "latency_p99_us"}}
      [] preset = "runqueue_switches" ->
            {<<"runqueue_latency_us", OrNull(Sre(s, "runqueue_latency_us"), MadeUp)>>,
             <<"threads", Or(Kpi(s, "threads"), MadeUp)>>}
      [] preset = "thread_mem" -> {<<"threads", Or(Kpi(s, "threads"), MadeUp)>>,
                                   <<"rss_bytes", Or(Kpi(s, "rss_bytes"), MadeUp)>>}
      [] OTHER -> {<<"graph", Fixed>>}

-----------------------------------------------------------------------------
(* What a tab shows                                                        *)

Tab == {"story", "basic", "medium", "advanced", "complete"}

Figures(tab, s) ==
    LET p == TargetProcess(s) IN
    CASE tab = "story" -> StoryBanner(s, p) \cup StoryRibbon(s, p)
      [] tab = "basic" -> BasicBanner(s) \cup BasicSignals(s) \cup BasicWaves(s)
                          \cup BasicSpotlight(s, p)
      [] tab = "medium" -> MediumTiles(s) \cup MediumFlame
      [] tab = "advanced" -> AdvancedSyscalls(s) \cup AdvancedMemory(s) \cup AdvancedTcp(s)
                             \cup AdvancedConcurrency(s) \cup AdvancedDiagnosis
      [] tab = "complete" -> CompleteRadar \cup CompleteDenials(s) \cup CompleteRoles(s)

\* What the story says of a process.
Telling(s, p) == [role |-> StoryRole(s, p), verdict |-> StoryVerdict(s, p)]
=============================================================================
