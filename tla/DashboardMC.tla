---------------------------- MODULE DashboardMC ----------------------------
(***************************************************************************)
(* A host with two processes of one name, of which one is copilot and the  *)
(* other is listed only as the target, and a third whose pid contains the  *)
(* pid of the first; or with the first two, equally busy.  The names of    *)
(* the files of /proc are read in their order.                             *)
(***************************************************************************)
EXTENDS Dashboard

MCProcess(pid, comm, cmdline, load) ==
    [pid |-> pid, ppid |-> 7, comm |-> comm, cmdline |-> cmdline,
     cpu_pct |-> 20 * load + pid \div 12, rss_bytes |-> 40 + pid, vms_bytes |-> 80 + pid,
     threads |-> 2 + pid, open_fds |-> 60 * load, ctx_switches |-> pid * load,
     ioReadable |-> load = 1, wait |-> 8 + pid * load,
     flows |-> IF load = 0 THEN <<>> ELSE <<"ESTABLISHED", "TIME_WAIT">>]

MCWorld == {<<MCProcess(12, "node", "node server", 1), MCProcess(120, "python3", "python3 app", 2),
              MCProcess(13, "node", "node copilot", 0)>>,
            <<MCProcess(12, "node", "node server", 1), MCProcess(13, "node", "node copilot", 1)>>}

MCHostNet == {[tx |-> 3, rx |-> 4, flows |-> <<"LISTEN">>]}

MCInside == {<<"@github/copilot", "node copilot">>, <<"copilot", "node copilot">>,
             <<"node", "node copilot">>, <<"node", "node server">>, <<"node", "node_server.js">>,
             <<"python", "python3">>, <<"python", "python3 app">>, <<"python3", "python3 app">>,
             <<"12", "120">>, <<"wait", "epoll_pwait">>, <<"recv", "recvfrom">>,
             <<"send", "sendto">>, <<"sleep", "nanosleep">>, <<"open", "openat">>,
             <<"ESTABLISH", "ESTABLISHED">>, <<"TIME", "TIME_WAIT">>}

MCInitialTarget == [comm |-> "node", pid |-> 0, named |-> TRUE]

ASSUME PidsOfHostStay == PidsStay

MCQuestion == {{"cpu"}, {"graph", "memory"}, {"graph", "cpu"}}
=============================================================================
