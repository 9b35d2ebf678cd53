------------------------------ MODULE Omnibox ------------------------------
(***************************************************************************)
(* Choosing the target: the search box of Header.tsx with its list of      *)
(* processes, the table of processes, and the requests to /api/target that *)
(* a choice makes.  The box makes two, one after the other: its own, and   *)
(* when that is answered the one of Dashboard's handleTargetChange, which  *)
(* nobody waits for.  Each request may be refused or lost, before or after *)
(* the server has taken it, and requests overtake each other.              *)
(*                                                                         *)
(* Texts are names, in lower case and trimmed; ToString(pid) is the text   *)
(* of a pid.  The actions here leave open what belongs to the page.        *)
(***************************************************************************)
EXTENDS Views

CONSTANTS
    Query,         \* what may be typed
    TypedPid,      \* the numbers among it
    MaxShown       \* rows that the list shows (25)

ASSUME ListIsShown == MaxShown \in Nat

VARIABLES
    query, isSearchOpen,
    highlightedIndex,   \* a position in the list from 0, -1 for none
    busy, err,
    posts,         \* requests on their way
    target,        \* of the server; named, history: was its pid chosen or found by this name?
    chosen         \* history: the last choice; None once another was on its way, or it failed

boxVars == <<query, isSearchOpen, highlightedIndex, busy, err>>
postVars == <<posts, target, chosen>>
omniVars == <<boxVars, postVars>>

OmniInit(initial) == /\ query = "" /\ isSearchOpen = FALSE /\ highlightedIndex = -1
                     /\ busy = FALSE /\ err = FALSE
                     /\ posts = <<>> /\ target = initial /\ chosen = None

-----------------------------------------------------------------------------
(* The list                                                                *)

\* The agents that are offered when no process is listed; names for their command lines.
Agent(pid, comm, cmdline, cpu, rss) ==
    [pid |-> pid, comm |-> comm, cmdline |-> cmdline, cpu_pct |-> cpu, rss_bytes |-> rss]

Fallback == <<Agent(143399, "agy", "agy_conversation", 12, 604471296),
              Agent(1042, "python3", "python3_agentscope.runtime", 8, 314572800),
              Agent(2190, "node", "node_server.js", 5, 157286400)>>

\* Does the header's label of the target, "comm [pid]", contain the pid or the name of p?
Marked(s, p) == /\ s # None
                /\ \/ \E text \in {ToString(p.pid), p.comm} : Occurs(text, s.target.comm)
                   \/ s.target.pid # 0 /\ Occurs(ToString(p.pid), ToString(s.target.pid))

\* displayProcesses: the rows of the snapshot, if it has any.
Displayed(s) == IF s = None \/ s.rows = <<>> THEN Fallback ELSE s.rows

\* The positions of those that match the query.
Matching(s) ==
    {i \in DOMAIN Displayed(s) :
        LET p == Displayed(s)[i]
        IN \E text \in {agentLabel(p.comm, p.cmdline), ToString(p.pid), p.comm, p.cmdline} :
               Occurs(query, text)}

\* The marked first, then the busiest; those that are alike stay in their order.
Before(s, i, j) == LET p == Displayed(s)[i]
                       q == Displayed(s)[j]
                   IN IF Marked(s, p) # Marked(s, q) THEN Marked(s, p)
                      ELSE IF p.cpu_pct # q.cpu_pct THEN p.cpu_pct > q.cpu_pct
                      ELSE IF p.rss_bytes # q.rss_bytes THEN p.rss_bytes > q.rss_bytes
                      ELSE i < j

\* filteredProcesses: each at the place that as many come before as it takes.
Listed(s) ==
    LET all == Displayed(s)
        matching == Matching(s)
        place == [i \in matching |-> Cardinality({j \in matching : Before(s, j, i)}) + 1]
    IN [k \in 1..Cardinality(matching) |-> all[CHOOSE i \in matching : place[i] = k]]

-----------------------------------------------------------------------------
(* The requests                                                            *)

\* A request of the box, the one again that follows it, or one of the table; a pid that
\* is not positive is sent as none.  Only the box looks at what becomes of it, if the
\* header is still here.
Request(kind, comm, pid, here, status) ==
    [kind |-> kind, comm |-> comm, pid |-> pid, here |-> here, status |-> status]

Post(kind, comm, pid) == Request(kind, comm, IF pid > 0 THEN pid ELSE 0, kind = "box", "sent")

Choose(kind, comm, pid) ==
    /\ posts' = Append(posts, Post(kind, comm, pid))
    /\ chosen' = IF posts = <<>> THEN [comm |-> comm, pid |-> IF pid > 0 THEN pid ELSE 0] ELSE None
    /\ UNCHANGED target

\* applyTarget up to its await.
applyTarget(comm, pid) == /\ Choose("box", comm, pid)
                          /\ busy' = TRUE /\ err' = FALSE
                          /\ UNCHANGED <<query, isSearchOpen, highlightedIndex>>

selectProcess(p) == applyTarget(agentLabel(p.comm, p.cmdline), p.pid)

\* What was typed is a pid, or else a name.
TargetTyped == IF \E n \in TypedPid : query = ToString(n)
               THEN applyTarget("", CHOOSE n \in TypedPid : query = ToString(n))
               ELSE applyTarget(query, 0)

\* A row of the table: a name that only the command line gives goes without the pid, so
\* that the process is found again after a restart.
TableChoice(p) == LET label == agentLabel(p.comm, p.cmdline)
                  IN Choose("table", label, IF label # p.comm THEN 0 ELSE p.pid)

WithStatus(p, status) == Request(p.kind, p.comm, p.pid, p.here, status)

\* The server takes a request, where an empty name keeps the old one, or refuses it.
ServerTakes(i) ==
    /\ posts[i].status = "sent"
    /\ \/ /\ target' = [comm |-> IF posts[i].comm = "" THEN target.comm ELSE posts[i].comm,
                        pid |-> posts[i].pid, named |-> posts[i].comm # ""]
          /\ posts' = [posts EXCEPT ![i] = WithStatus(posts[i], "ok")]
       \/ /\ posts' = [posts EXCEPT ![i] = WithStatus(posts[i], "refused")]
          /\ UNCHANGED target
    /\ UNCHANGED <<boxVars, chosen>>

\* Faulty variant: the page passes the name on, and drops the pid.
handleTargetChangeByName(comm, pid) == Post("again", comm, 0)

\* Dashboard's second request for what the box has chosen.
handleTargetChange(comm, pid) == Post("again", comm, pid)

\* applyTarget is answered ok.
BoxAnswered(i) ==
    LET p == posts[i] IN
    /\ p.kind = "box" /\ p.status = "ok"
    /\ posts' = Append(RemoveAt(posts, i), handleTargetChange(p.comm, p.pid))
    /\ IF p.here
       THEN query' = "" /\ isSearchOpen' = FALSE /\ highlightedIndex' = -1 /\ busy' = FALSE
       ELSE UNCHANGED <<query, isSearchOpen, highlightedIndex, busy>>
    /\ UNCHANGED <<err, target, chosen>>

\* It is refused, or it or its answer is lost.
BoxFails(i) ==
    LET p == posts[i] IN
    /\ p.kind = "box"
    /\ posts' = RemoveAt(posts, i)
    /\ IF p.here THEN err' = TRUE /\ busy' = FALSE ELSE UNCHANGED <<err, busy>>
    /\ chosen' = None
    /\ UNCHANGED <<query, isSearchOpen, highlightedIndex, target>>

\* handleTargetChange ends; it looks at no answer.
PageAnswered(i) ==
    LET p == posts[i] IN
    /\ p.kind # "box"
    /\ posts' = RemoveAt(posts, i)
    /\ \E lost \in BOOLEAN :
         /\ p.status = "sent" => lost
         /\ chosen' = IF p.kind = "table" /\ (lost \/ p.status = "refused") THEN None ELSE chosen
    /\ UNCHANGED <<boxVars, target>>

Requests == \E i \in DOMAIN posts :
                ServerTakes(i) \/ BoxAnswered(i) \/ BoxFails(i) \/ PageAnswered(i)

-----------------------------------------------------------------------------
(* The box                                                                 *)

\* A press of the mouse elsewhere; Escape.
CloseList == isSearchOpen' = FALSE /\ highlightedIndex' = -1
Outside == CloseList /\ UNCHANGED <<query, busy, err>>

\* The box is disabled while a request is on its way.  A click, or the key / unless an
\* input has the focus.
FocusSearch == /\ ~busy
               /\ isSearchOpen' = TRUE /\ highlightedIndex' = -1
               /\ UNCHANGED <<query, busy, err, postVars>>

TypeQuery(q) == /\ ~busy /\ q # query
                /\ query' = q /\ isSearchOpen' = TRUE /\ highlightedIndex' = -1
                /\ UNCHANGED <<busy, err, postVars>>

\* The cross, which gives the box the focus.
ClearQuery == /\ ~busy /\ query # ""
              /\ query' = "" /\ highlightedIndex' = -1
              /\ isSearchOpen' \in {isSearchOpen, TRUE}
              /\ UNCHANGED <<busy, err, postVars>>

\* handleSearchKeyDown: with the list closed, the arrow down and Enter open it.
OpenList == /\ ~busy /\ ~isSearchOpen /\ isSearchOpen' = TRUE
            /\ UNCHANGED <<query, highlightedIndex, busy, err, postVars>>

Arrow(s) == /\ ~busy /\ isSearchOpen
            /\ LET last == Len(Listed(s)) - 1 IN
               \/ highlightedIndex' = IF highlightedIndex < last THEN highlightedIndex + 1 ELSE 0
               \/ highlightedIndex' = IF highlightedIndex > 0 THEN highlightedIndex - 1 ELSE last
            /\ UNCHANGED <<query, isSearchOpen, busy, err, postVars>>

\* Enter takes what stands at the highlighted position by now, shown or not.
Enter(s) == /\ ~busy /\ isSearchOpen
            /\ LET listed == Listed(s) IN
               \/ /\ highlightedIndex \in 0..(Len(listed) - 1)
                  /\ selectProcess(listed[highlightedIndex + 1])
               \/ /\ highlightedIndex \notin 0..(Len(listed) - 1)
                  /\ \/ Len(listed) = 1 /\ selectProcess(listed[1])
                     \/ Len(listed) # 1 /\ query # "" /\ TargetTyped

Escape == /\ ~busy /\ isSearchOpen /\ CloseList
          /\ UNCHANGED <<query, busy, err, postVars>>

\* The list takes the mouse even while a request is on its way.
Shown(s) == SubSeq(Listed(s), 1, IF Len(Listed(s)) < MaxShown THEN Len(Listed(s)) ELSE MaxShown)

Hover(s) == /\ isSearchOpen
            /\ \E i \in DOMAIN Shown(s) : highlightedIndex' = i - 1
            /\ UNCHANGED <<query, isSearchOpen, busy, err, postVars>>

ClickRow(s) == isSearchOpen /\ \E i \in DOMAIN Shown(s) : selectProcess(Shown(s)[i])

TargetDirectly(s) == isSearchOpen /\ Listed(s) = <<>> /\ query # "" /\ TargetTyped

\* What needs only the keys, and what needs the mouse; Escape is the page's.
BoxKeys(s) == \/ FocusSearch \/ \E q \in Query : TypeQuery(q)
              \/ ClearQuery \/ OpenList \/ Arrow(s) \/ Enter(s) \/ TargetDirectly(s)

BoxMouse(s) == Hover(s) \/ ClickRow(s)

\* The header goes from the page: what it holds is lost, its requests go on.
HeaderGoes == /\ query' = "" /\ isSearchOpen' = FALSE /\ highlightedIndex' = -1
              /\ busy' = FALSE /\ err' = FALSE
              /\ LET Left(p) == Request(p.kind, p.comm, p.pid, FALSE, p.status)
                 IN posts' = [i \in DOMAIN posts |-> Left(posts[i])]
=============================================================================
