----------------------------- MODULE Dashboard -----------------------------
(***************************************************************************)
(* The page (pages/Dashboard.tsx): the search box with its requests and    *)
(* the chat with its graphs side by side, the tabs, and the loading screen *)
(* that takes their place.  The server's /proc engine collects a snapshot  *)
(* of its target again and again; what becomes of a snapshot on its way to *)
(* the page is in Feed, here it arrives at once.                           *)
(***************************************************************************)
EXTENDS Omnibox, Copilot, Help

CONSTANTS
    World,         \* per state of the host, its processes in the order of /proc
    HostNet,       \* what is read of the host's network: two rates and a TCP table
    InitialTarget, \* comm and pid, and named
    MaxGestures    \* bound on what the user does

\* A process, with what is read of it; ioReadable: /proc/pid/io is, for the engine.
Process == [pid : Nat \ {0}, comm : STRING, cmdline : STRING, ppid : Nat, cpu_pct : Nat,
            rss_bytes : Nat, vms_bytes : Nat, threads : Nat, open_fds : Nat, ctx_switches : Nat,
            ioReadable : BOOLEAN, wait : Nat, flows : Seq(STRING)]

ASSUME HostsRunProcesses ==
    /\ World \subseteq Seq(Process)
    /\ \A w \in World : \A i, j \in DOMAIN w : w[i].pid = w[j].pid => i = j
    /\ None \notin Process
    /\ HostNet \subseteq [tx : Nat, rx : Nat, flows : Seq(STRING)]

\* TARGET_COMM and TARGET_PID are set one without the other.
ASSUME InitialIsTarget ==
    /\ InitialTarget \in [comm : STRING \ {""}, pid : Nat, named : BOOLEAN]
    /\ InitialTarget.named => InitialTarget.pid = 0

ASSUME TypedAreTexts == Query \subseteq STRING /\ TypedPid \subseteq Nat

VARIABLES
    snapshot, connection, activeTab, selectedPid,    \* in the store
    gestures       \* bound

pageVars == <<snapshot, connection, activeTab, selectedPid>>
dashVars == <<omniVars, copilotVars, pageVars, activeMetricHelpId, gestures>>

\* Faulty variant: the loading screen also comes over a snapshot.
LoadingAlways(s, status) == status \in {"connecting", "reconnecting"}

\* The loading screen takes the place of header, scratchpad and drawer.
Loading(s, status) == s = None /\ status \in {"connecting", "reconnecting"}

Mounted == ~Loading(snapshot, connection)

DashInit == /\ OmniInit(InitialTarget) /\ CopilotInit /\ HelpInit
            /\ snapshot = None /\ connection = "connecting" /\ activeTab = "basic"
            /\ selectedPid = 0 /\ gestures = 0

-----------------------------------------------------------------------------
(* The server                                                              *)

\* A target without a pid becomes the first process of its name.
Resolve(t, w) == LET Fits(p) == HasName(t, p)
                     i == SelectInSeq(w, Fits)
                 IN IF t.pid # 0 \/ i = 0 THEN t
                    ELSE [comm |-> t.comm, pid |-> w[i].pid, named |-> t.named]

\* Agents, tools of developers and daemons are rows whatever the target is.
Relevant(p) == \/ p.comm \in {"agy", "codex", "dockerd", "kubelet", "containerd", "python3", "go",
                               "bash"}
               \/ \E text \in {"agy", "codex", "copilot"} : Occurs(text, p.cmdline)
               \/ p.comm = "node" /\ \E text \in {"vite", "extensionhost"} : Occurs(text, p.cmdline)
               \/ \E text \in {"drishtiscope", "agentscope"} : Occurs(text, p.comm)

\* The rows of the scan for t.  While it has no pid, they are ordered by its name,
\* whichever process Resolve takes for it.
Rows(t, w) == {p \in ToSet(w) : Relevant(p) \/ IF t.pid # 0 THEN p.pid = t.pid ELSE HasName(t, p)}

Precedes(t, p, q) == LET IsTarget(r) == IF t.pid # 0 THEN r.pid = t.pid ELSE r.comm = t.comm
                     IN IF IsTarget(p) # IsTarget(q) THEN IsTarget(p)
                        ELSE IF p.cpu_pct # q.cpu_pct THEN p.cpu_pct > q.cpu_pct
                        ELSE p.rss_bytes > q.rss_bytes

\* sort.Slice: the target first, then the busiest; those that are alike in any order.
Sorted(t, w) ==
    LET shown == Rows(t, w)
    IN {rows \in [1..Cardinality(shown) -> shown] :
           /\ Range(rows) = shown
           /\ \A i, j \in DOMAIN rows : i < j => ~Precedes(t, rows[j], rows[i])}

\* The ten calls that the engine shows always in the same shares, per mille.
Calls == <<<<"epoll_pwait", 320>>, <<"futex", 240>>, <<"read", 160>>, <<"write", 110>>,
           <<"recvfrom", 50>>, <<"sendto", 40>>, <<"nanosleep", 30>>, <<"clock_gettime", 20>>,
           <<"openat", 15>>, <<"close", 15>>>>

KpiName == {"cpu_pct", "threads", "rss_bytes", "open_fds", "net_bps_tx", "net_bps_rx",
            "disk_bps_r", "disk_bps_w", "syscalls_per_sec", "err_syscalls_per_sec"}

SreName == {"latency_p50_us", "latency_p90_us", "latency_p99_us", "runqueue_latency_us",
            "slo_availability", "error_budget_pct", "burn_rate"}

\* The snapshot of target t, with one of the orders of its rows.  Without its process there
\* is nothing but one thread.  The net rates are the host's, and so are sockets where the
\* process has fewer than two.  The scan has stamped the entry that readProcIO subtracts
\* from (SampleEngine), so disk rates are 0 and the calls the 14.5 that stand for fewer
\* than one.  All latencies are multiples of the wait in the run queue.  found, history:
\* had the target no pid before?
Collected(t, w, net, rows) ==
    LET now == Resolve(t, w)
        IsTarget(p) == p.pid = now.pid
        i == SelectInSeq(w, IsTarget)
        Of(m) == IF i # 0 THEN w[i][m] ELSE IF m = "threads" THEN 1 ELSE 0
        calls == IF i # 0 /\ w[i].ioReadable THEN 14 ELSE 0
        Share(c) == IF calls * c[2] < 100 THEN 500 ELSE calls * c[2]
        read == IF i = 0 THEN 142 ELSE w[i].wait
        wait == IF read < 10 THEN 110 ELSE IF read > 9999 THEN 850 ELSE read
        own == IF i = 0 THEN <<>> ELSE w[i].flows
    IN [target |-> now, found |-> t.pid # now.pid, rows |-> rows,
        kpis |-> [cpu_pct |-> Of("cpu_pct"), threads |-> Of("threads"),
                  rss_bytes |-> Of("rss_bytes"), open_fds |-> Of("open_fds"),
                  net_bps_tx |-> net.tx, net_bps_rx |-> net.rx,
                  disk_bps_r |-> 0, disk_bps_w |-> 0,
                  syscalls_per_sec |-> calls, err_syscalls_per_sec |-> calls * 12],
        sre |-> [latency_p50_us |-> wait * 72, latency_p90_us |-> wait * 165,
                 latency_p99_us |-> wait * 340, runqueue_latency_us |-> wait * 100,
                 slo_availability |-> 9998, error_budget_pct |-> 942, burn_rate |-> 8],
        syscalls_top |->
            [c \in DOMAIN Calls |-> [name |-> Calls[c][1], count_s |-> Share(Calls[c])]],
        flows |-> IF Len(own) < 2 THEN own \o net.flows ELSE own]

\* A tick of the engine, which keeps the pid that it found, and its snapshot in the page.
Push == /\ \E w \in World : /\ target' = Resolve(target, w)
                            /\ \E rows \in Sorted(target, w), net \in HostNet :
                                   snapshot' = Collected(target, w, net, rows)
        /\ UNCHANGED <<boxVars, posts, chosen, copilotVars, connection, activeTab, selectedPid,
                       activeMetricHelpId, gestures>>

-----------------------------------------------------------------------------
(* The page                                                                *)

\* The client reports a status: the loading screen may come or go.
ConnectionChanges ==
    /\ connection' \in {"connecting", "connected", "reconnecting", "offline"} \ {connection}
    /\ IF Mounted /\ Loading(snapshot, connection') THEN HeaderGoes /\ DrawerGoes
       ELSE UNCHANGED <<boxVars, posts, copilotVars>>
    /\ UNCHANGED <<target, chosen, snapshot, activeTab, selectedPid, activeMetricHelpId, gestures>>

\* What the user does beside the box is done with the mouse, which closes its list, or
\* by the keyboard.
Elsewhere == Outside \/ UNCHANGED boxVars

ChooseTab == /\ activeTab' \in Tab \ {activeTab}
             /\ Elsewhere /\ UNCHANGED <<postVars, copilotVars, snapshot, connection, selectedPid>>

\* A click on a row of the table, or its button.
PickRow == /\ activeTab = "medium" /\ snapshot # None
           /\ \E p \in ToSet(snapshot.rows) : selectedPid' = p.pid /\ TableChoice(p)
           /\ Elsewhere /\ UNCHANGED <<copilotVars, snapshot, connection, activeTab>>

PageGesture == \/ BoxKeys(snapshot) /\ UNCHANGED <<copilotVars, pageVars>>
               \/ ~HelpShown /\ BoxMouse(snapshot) /\ UNCHANGED <<copilotVars, pageVars>>
               \/ isSearchOpen /\ Outside /\ UNCHANGED <<postVars, copilotVars, pageVars>>
               \/ CopilotGesture /\ Elsewhere /\ UNCHANGED <<postVars, pageVars>>
               \/ ChooseTab \/ PickRow

\* A button of the help is pressed, or the window is closed: by Escape also from the box,
\* whose list goes as well.
HelpGesture ==
    /\ \/ /\ \E id \in Offered(activeTab, {g.preset : g \in scratchGraphs}, snapshot) :
              openMetricHelp(id)
          /\ Elsewhere /\ UNCHANGED postVars
       \/ activeMetricHelpId # None /\ closeMetricHelp /\ Elsewhere /\ UNCHANGED postVars
       \/ Escape /\ closeMetricHelp
    /\ UNCHANGED <<copilotVars, pageVars>>

Gesture == /\ Mounted /\ gestures < MaxGestures /\ gestures' = gestures + 1
           /\ \/ PageGesture /\ UNCHANGED activeMetricHelpId
              \/ HelpGesture

Network == /\ \/ Requests /\ UNCHANGED copilotVars
              \/ Answers /\ UNCHANGED omniVars
           /\ UNCHANGED <<pageVars, activeMetricHelpId, gestures>>

DashNext == Push \/ ConnectionChanges \/ Gesture \/ Network

DashSpec == DashInit /\ [][DashNext]_dashVars

-----------------------------------------------------------------------------
(* Properties                                                              *)

\* The target that was chosen, and: the server observes it, or has found its pid.
Wanted == [comm |-> IF chosen.comm = "" THEN target.comm ELSE chosen.comm, pid |-> chosen.pid,
           named |-> chosen.comm # ""]
Stands == target \in {Wanted} \cup {Resolve(Wanted, w) : w \in World}

\* The last choice is what the server observes, once its requests are done and as long
\* as no other was on its way with it and none of them failed: the second request that
\* a choice in the box makes changes nothing, whatever the engine did between the two.
ChoiceStands == posts = <<>> /\ chosen # None => Stands

\* Once a snapshot has come, the conversation only grows: no loss of the connection takes
\* it from the page.
ChatKept == [][snapshot # None => IsPrefix(messages, messages')]_dashVars

\* Every button of the help that the page offers, whichever tab is chosen and whichever
\* graphs the user and the copilot have drawn, opens an explanation, and so does the one
\* that was pressed; but for the graph of page faults, whose help has no text.
HelpOpens ==
    (Offered(activeTab, {g.preset : g \in scratchGraphs}, snapshot) \cup {activeMetricHelpId})
        \subseteq Documented \cup {"memory_subsystem", None}

\* The row of the process that the target names.
TargetRow(s) == LET i == SelectInSeq(s.rows, LAMBDA p : p.pid = s.target.pid)
                IN IF i = 0 THEN None ELSE s.rows[i]

\* The number that the snapshot has for a figure.
Truth(s, m) ==
    CASE m \in DOMAIN s.kpis -> s.kpis[m]
      [] m \in DOMAIN s.sre -> s.sre[m]
      [] m = "net" -> s.kpis.net_bps_tx + s.kpis.net_bps_rx
      [] m = "disk" -> s.kpis.disk_bps_r + s.kpis.disk_bps_w
      [] m = "pid" -> s.target.pid
      [] m = "fails" -> IF s.kpis.err_syscalls_per_sec > 0 THEN 1 ELSE 0
      [] m = "syscalls_top" -> Total([i \in DOMAIN s.syscalls_top |-> s.syscalls_top[i].count_s])
      [] m = "flows" -> Len(s.flows)
      [] OTHER -> Row(TargetRow(s), m)

\* What the snapshot has a number for.
Metric == KpiName \cup SreName \cup {"net", "disk", "pid", "fails", "syscalls_top", "flows",
                                     "ppid", "vms_bytes", "ctx_switches"}

\* Everything the page shows, in whichever tab, and the graphs that are drawn.
ShownFigures(s) == (UNION {Figures(tab, s) : tab \in Tab})
                   \cup (UNION {GraphData(g.preset, s) : g \in scratchGraphs})

\* A number that was measured is shown as it is.  Only for nothing, or 0, may 0 or a number
\* that the page makes up stand in; and what it prints without reading is under a name that
\* the snapshot has no number for.
Faithful(s, f) == IF f[1] \notin Metric THEN f[2] = Fixed
                  ELSE LET truth == Truth(s, f[1])
                       IN f[2] = truth \/ (truth \in {0, Absent} /\ f[2] \in {0, MadeUp})

\* The one figure that is printed over a measured number: 1.42 us (AdvancedTab.tsx:215).
PrintedWait == <<"runqueue_latency_us", Fixed>>

\* No row can take the place of the target's: another of its name is listed only where
\* the target runs and was known by its pid.
NoDouble(s) == \/ TargetRow(s) # None /\ ~s.found
               \/ \A p \in Range(s.rows) : p = TargetRow(s) \/ ~HasName(s.target, p)

\* Wherever a tab or a graph takes a number from, the row it holds for the target's, the
\* kpis or the sre block: what was measured of the target and is not 0 is shown as it is,
\* in all tabs alike, but for PrintedWait; and the story is about the target.  Where 0 was
\* measured each tab may show a number of its own (FdsCounted).  A double may stand in for
\* a target that does not run, or that was only just found by its name.
MeasuredShown ==
    snapshot # None /\ NoDouble(snapshot) =>
        /\ \A f \in ShownFigures(snapshot) \ {PrintedWait} : Faithful(snapshot, f)
        /\ Telling(snapshot, TargetProcess(snapshot)) = Telling(snapshot, TargetRow(snapshot))

\* No pid passes from one process to another, nor do the agents that are offered without a
\* snapshot have the pid of another process.
Listable == (UNION {ToSet(w) : w \in World}) \cup ToSet(Fallback)
PidsStay == \A p, q \in Listable : p.pid = q.pid => p.comm = q.comm /\ p.cmdline = q.cmdline

\* The table marks the target's row, whichever of its names it was chosen by, unless it
\* was chosen by its pid alone, for then it keeps the old name, or the pid that was
\* chosen is by now that of another process.
TableMarks ==
    PidsStay /\ snapshot # None /\ TargetRow(snapshot) # None /\ snapshot.target.named =>
        TargetRow(snapshot) \in TableTargets(snapshot)

\* The process whose numbers the page shows, whose story it tells and whose row it marks is
\* the target.
ShowsTarget == MeasuredShown /\ TableMarks

\* metricDocs.ts:97, of open_fds: "Count of entries in directory /proc/[pid]/fd/".  Every
\* number that the page shows under this name of a target that runs is the one counted.
FdsCounted ==
    snapshot # None /\ TargetRow(snapshot) # None =>
        \A f \in ShownFigures(snapshot) :
            f[1] = "open_fds" => f[2] = Truth(snapshot, "open_fds")

\* engine.go, "Sort processes: target first": the first row is the target's, if it runs.
TargetFirst == snapshot # None /\ TargetRow(snapshot) # None =>
                   snapshot.rows[1] = TargetRow(snapshot)
=============================================================================
