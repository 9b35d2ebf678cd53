-------------------------------- MODULE Help --------------------------------
(***************************************************************************)
(* The help of the dashboard: the buttons with a question mark that tabs,  *)
(* panels, tables and graphs carry, each with the id of an explanation,    *)
(* and the window (MetricHelpModal.tsx) that shows the explanation of the  *)
(* id in the store.  It covers the page, and shows nothing for an id that  *)
(* data/metricDocs.ts does not explain.                                    *)
(***************************************************************************)
EXTENDS Views

VARIABLE activeMetricHelpId    \* in the store; None when the window is closed

-----------------------------------------------------------------------------
(* What is explained                                                       *)

\* Faulty variant: the id of the map of threads is spelt otherwise than graphs spell it.
MisspeltGraphDocs == {"latency_quantile_curve", "scheduler_runqueue", "net_stream_bidi",
                      "thread_memory", "scratchpad_sandbox"}

GraphDocs == {"latency_quantile_curve", "scheduler_runqueue", "net_stream_bidi",
              "thread_memory_density", "scratchpad_sandbox"}

\* The keys of METRIC_DOCS.
Documented ==
    GraphDocs \cup
    {"cpu_pct", "threads", "rss_bytes", "open_fds", "syscalls_per_sec", "err_syscalls_per_sec",
     "net_throughput", "disk_io", "p50_latency", "p90_latency", "p99_latency", "slo_availability",
     "error_budget", "burn_rate", "runqueue_latency", "saturation", "pid", "process_state",
     "tcp_state", "file_ops", "chronicle_security", "perfetto_trace", "mql_query", "event_rate",
     "dropped_events", "vms_bytes", "ctx_switches", "page_faults", "tcp_flows", "sqlite_tsdb",
     "ai_workload_radar", "flamegraph_cpu", "comm", "stream_live_pause", "time_window_range",
     "telemetry_modes"}

-----------------------------------------------------------------------------
(* What the page offers help with                                          *)

BannerHelp(tab) ==
    CASE tab = "story" -> "scratchpad_sandbox"
      [] tab = "basic" -> "slo_availability"
      [] tab = "medium" -> "flamegraph_cpu"
      [] tab = "advanced" -> "mql_query"
      [] tab = "complete" -> "ai_workload_radar"

BasicSignalsHelp == {"p50_latency", "p90_latency", "p99_latency", "syscalls_per_sec", "net_throughput",
                     "disk_io", "err_syscalls_per_sec", "slo_availability", "saturation", "cpu_pct",
                     "open_fds", "runqueue_latency"}

BasicWavesHelp == {"p99_latency"}

BasicHelp == {"slo_availability", "error_budget", "burn_rate"} \cup BasicSignalsHelp
             \cup BasicWavesHelp
             \cup {"pid", "process_state", "threads", "rss_bytes", "vms_bytes", "ctx_switches", "open_fds"}

ProcessTableHelp == {"pid", "comm", "cpu_pct", "rss_bytes", "threads", "open_fds", "process_state"}

SyscallBarHelp == {"syscalls_per_sec", "err_syscalls_per_sec"}

\* The tiles, the panels, and the table and the bars in two of them.
MediumHelp == {"cpu_pct", "threads", "rss_bytes", "open_fds", "syscalls_per_sec",
               "err_syscalls_per_sec", "net_throughput", "disk_io"}
              \cup {"flamegraph_cpu", "perfetto_trace", "cpu_pct", "syscalls_per_sec", "pid"}
              \cup SyscallBarHelp \cup ProcessTableHelp

AdvancedPanelsHelp == {"syscalls_per_sec", "rss_bytes", "disk_io", "ctx_switches", "tcp_state"}

AdvancedHelp == {"mql_query", "runqueue_latency", "page_faults", "dropped_events"}
                \cup AdvancedPanelsHelp

HistoryHelp == {"sqlite_tsdb", "pid", "cpu_pct", "threads", "rss_bytes", "syscalls_per_sec",
                "net_throughput", "disk_io"}

CompleteHelp == {"ai_workload_radar", "chronicle_security"} \cup HistoryHelp

\* The story has no help of its own.
TabHelp(tab) == CASE tab = "basic" -> BasicHelp
                  [] tab = "medium" -> MediumHelp
                  [] tab = "advanced" -> AdvancedHelp
                  [] tab = "complete" -> CompleteHelp
                  [] OTHER -> {}

GraphHelp(preset) == CASE preset = "quantile_curve" -> "latency_quantile_curve"
                       [] preset = "runqueue_switches" -> "scheduler_runqueue"
                       [] preset = "net_bidi" -> "net_stream_bidi"
                       [] preset = "thread_mem" -> "thread_memory_density"
                       [] preset = "page_faults" -> "memory_subsystem"

HeaderHelp == {"telemetry_modes", "stream_live_pause", "time_window_range"}

\* Nothing while there is no snapshot.
StatusBarHelp(s) == IF s = None THEN {} ELSE {"event_rate", "dropped_events"}

\* The ids of the buttons on the page.
Offered(tab, presets, s) ==
    HeaderHelp \cup StatusBarHelp(s) \cup {BannerHelp(tab), "scratchpad_sandbox"}
    \cup TabHelp(tab) \cup {GraphHelp(preset) : preset \in presets}

-----------------------------------------------------------------------------
(* The window                                                              *)

HelpInit == activeMetricHelpId = None

\* It covers the page: what lies behind it is out of the mouse's reach, not of the
\* keyboard's.
HelpShown == activeMetricHelpId \in Documented

openMetricHelp(id) == activeMetricHelpId' = id

\* Escape, a click beside the window, its cross or its Got It; with no explanation to
\* show only Escape.
closeMetricHelp == activeMetricHelpId' = None
=============================================================================
