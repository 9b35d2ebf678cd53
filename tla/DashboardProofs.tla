-------------------------- MODULE DashboardProofs ---------------------------
(***************************************************************************)
(* Proofs about the page, for every host, every query and question and     *)
(* every bound: the chat behaves as Copilot says, the page keeps what is   *)
(* said in it, the last choice of a target is what the server observes     *)
(* when its requests are done, the help that is offered opens, and what    *)
(* tabs and graphs show are the figures of the target.                     *)
(***************************************************************************)
EXTENDS Dashboard, FiniteSetTheorems, FunctionTheorems, TLAPS

-----------------------------------------------------------------------------
(* The chat by itself: the conversation alternates because a question needs
   loading to be false, loading is true exactly while a question has no
   answer, and a drawer that goes forgets all three together.            *)

Role == {"user", "assistant"}

\* The inductive invariant: the types of what Alternates speaks of, with it.
DrawerTypes == /\ messages \in Seq(Role)
               /\ loading \in BOOLEAN
               /\ asked = <<>> \/ \E roles : asked = <<roles>>

Turns == DrawerTypes /\ Alternates

\* Even and odd lengths.
LEMMA Parity == \A n \in Nat : /\ n % 2 \in {0, 1}
                               /\ n % 2 = 0 <=> (n + 1) % 2 = 1
                               /\ n % 2 = 1 <=> (n + 1) % 2 = 0
BY Z3

\* The conversation after one more message of the one whose turn it is.
LEMMA OneMore ==
    ASSUME DrawerTypes, Alternates, NEW r \in Role,
           messages' = Append(messages, r),
           r = IF Len(messages) % 2 = 0 THEN "user" ELSE "assistant"
    PROVE /\ messages' \in Seq(Role) /\ Len(messages') = Len(messages) + 1
          /\ \A i \in DOMAIN messages' : messages'[i] = IF i % 2 = 1 THEN "user" ELSE "assistant"
<1>1. messages \in Seq(Role) BY DEF DrawerTypes
<1>2. /\ messages' \in Seq(Role) /\ Len(messages') = Len(messages) + 1
      /\ DOMAIN messages' = 1..(Len(messages) + 1)
      /\ \A i \in 1..Len(messages) : messages'[i] = messages[i]
      /\ messages'[Len(messages) + 1] = r
  BY <1>1
<1>3. \A i \in 1..Len(messages) : messages[i] = IF i % 2 = 1 THEN "user" ELSE "assistant"
  BY <1>1 DEF Alternates
<1>4. Len(messages) \in Nat BY <1>1
<1>5. r = IF (Len(messages) + 1) % 2 = 1 THEN "user" ELSE "assistant" BY <1>4, Parity
<1> QED BY <1>2, <1>3, <1>4, <1>5

\* A question leaves the turn to the copilot.
LEMMA AskTurn == ASSUME Turns, NEW words, sendMessage(words) PROVE Turns'
<1> USE DEF Turns
<1>1. messages' = Append(messages, "user") /\ loading' = TRUE BY DEF sendMessage, Ask
<1>2. \E roles : asked' = Append(asked, roles) BY DEF sendMessage, Ask
<1>3. ~loading BY DEF sendMessage
<1>4. Len(messages) \in Nat BY DEF DrawerTypes
<1>5. Len(messages) % 2 = 0 BY <1>3, <1>4, Parity DEF Alternates
<1>6. asked = <<>>
  <2>1. Len(asked) = 0 BY <1>5 DEF Alternates
  <2> QED BY <2>1 DEF DrawerTypes
<1>7. \E roles : asked' = <<roles>> BY <1>2, <1>6
<1>8. Len(asked') = 1 BY <1>7
<1>9. /\ messages' \in Seq(Role) /\ Len(messages') = Len(messages) + 1
      /\ \A i \in DOMAIN messages' : messages'[i] = IF i % 2 = 1 THEN "user" ELSE "assistant"
  BY <1>1, <1>5, OneMore DEF Role
<1>10. Len(messages') % 2 = 1 BY <1>4, <1>5, <1>9, Parity
<1>11. DrawerTypes' BY <1>1, <1>7, <1>9 DEF DrawerTypes
<1> QED BY <1>1, <1>8, <1>9, <1>10, <1>11 DEF Alternates

\* An answer leaves it to the user.
LEMMA AnswerTurn == ASSUME Turns, NEW i \in DOMAIN asked, ReceiveAnswer(i) PROVE Turns'
<1> USE DEF Turns
<1>1. messages' = Append(messages, "assistant") /\ loading' = FALSE BY DEF ReceiveAnswer
<1>2. asked' = RemoveAt(asked, i) BY DEF ReceiveAnswer
<1>3. \E roles : asked = <<roles>> BY DEF DrawerTypes
<1>4. Len(messages) \in Nat BY DEF DrawerTypes
<1>5. Len(messages) % 2 = 1 BY <1>3, <1>4, Parity DEF Alternates
<1>6. asked' = <<>>
  <2>1. PICK roles : asked = <<roles>> BY <1>3
  <2>2. i = 1 BY <2>1
  <2>3. SubSeq(asked, 1, 0) = <<>> /\ SubSeq(asked, 2, 1) = <<>> /\ Len(asked) = 1 BY <2>1
  <2> QED BY <1>2, <2>2, <2>3 DEF RemoveAt
<1>7. Len(asked') = 0 BY <1>6
<1>9. /\ messages' \in Seq(Role) /\ Len(messages') = Len(messages) + 1
      /\ \A j \in DOMAIN messages' : messages'[j] = IF j % 2 = 1 THEN "user" ELSE "assistant"
  BY <1>1, <1>5, OneMore DEF Role
<1>10. Len(messages') % 2 = 0 BY <1>4, <1>5, <1>9, Parity
<1>11. DrawerTypes' BY <1>1, <1>6, <1>9 DEF DrawerTypes
<1> QED BY <1>1, <1>7, <1>9, <1>10, <1>11 DEF Alternates

\* The empty sequence has an even length, and nobody's turns to break.
LEMMA Silence == <<>> \in Seq(Role) /\ Len(<<>>) = 0 /\ DOMAIN <<>> = {} /\ Len(<<>>) % 2 = 0
<1>1. <<>> \in Seq(Role) /\ Len(<<>>) = 0 /\ DOMAIN <<>> = {} OBVIOUS
<1>2. 0 % 2 = 0 BY Z3
<1> QED BY <1>1, <1>2

\* A drawer that has just come keeps them.
LEMMA InitTurns == ASSUME CopilotInit PROVE Turns
<1>1. messages = <<>> /\ loading = FALSE /\ asked = <<>> BY DEF CopilotInit
<1>2. DrawerTypes BY <1>1, Silence DEF DrawerTypes
<1>3. ~loading /\ Len(messages) % 2 = 0 /\ Len(asked) = 0 /\ DOMAIN messages = {}
  BY <1>1, Silence
<1>4. Alternates BY <1>3 DEF Alternates
<1> QED BY <1>2, <1>4 DEF Turns

\* Every step keeps the turns.
LEMMA TurnsStep == ASSUME Turns, [CopilotNext]_copilotVars PROVE Turns'
<1>1. ASSUME NEW words \in Question, sendMessage(words) PROVE Turns' BY <1>1, AskTurn
<1>2. ASSUME NEW i \in DOMAIN asked, ReceiveAnswer(i) PROVE Turns' BY <1>2, AnswerTurn
<1>3. ASSUME UNCHANGED <<messages, loading, asked>> PROVE Turns'
  BY <1>3 DEF Turns, DrawerTypes, Alternates
<1>4. ASSUME NEW open \in BOOLEAN, ShowChat(open) PROVE Turns' BY <1>3, <1>4 DEF ShowChat
<1>5. CASE DrawerGoes
  <2>1. messages' = <<>> /\ loading' = FALSE /\ asked' = <<>> BY <1>5 DEF DrawerGoes
  <2>2. DrawerTypes' BY <2>1, Silence DEF DrawerTypes
  <2>3. ~loading' /\ Len(messages') % 2 = 0 /\ Len(asked') = 0 /\ DOMAIN messages' = {}
    BY <2>1, Silence
  <2>4. Alternates' BY <2>3 DEF Alternates
  <2> QED BY <2>2, <2>4 DEF Turns
<1>6. CASE UNCHANGED drawerVars BY <1>3, <1>6 DEF drawerVars
<1>7. CASE UNCHANGED copilotVars BY <1>6, <1>7 DEF copilotVars
<1> QED BY <1>1, <1>2, <1>4, <1>5, <1>6, <1>7 DEF CopilotNext, CopilotGesture, Answers

\* Questions and answers take turns, whatever the questions and however often the drawer
\* comes and goes.
THEOREM CopilotAlternates == CopilotSpec => []Alternates
<1>1. CopilotInit => Turns BY InitTurns
<1>2. Turns /\ [CopilotNext]_copilotVars => Turns' BY TurnsStep
<1>3. Turns => Alternates BY DEF Turns
<1> QED BY <1>1, <1>2, <1>3, PTL DEF CopilotSpec

-----------------------------------------------------------------------------
(* The chat on the page                                                    *)

Talk == CopilotGesture \/ Answers

\* Every step of the page is one of the chat and its graphs, or leaves them alone; they
\* go only from a page without a snapshot.
LEMMA PageSteps == ASSUME [DashNext]_dashVars
                   PROVE [Talk]_copilotVars \/ (DrawerGoes /\ snapshot = None)
<1>1. CASE Push BY <1>1 DEF Push
<1>2. CASE ConnectionChanges BY <1>2 DEF ConnectionChanges, Loading
<1>3. CASE Gesture
  <2>1. CASE PageGesture
    <3>1. CASE CopilotGesture BY <3>1 DEF Talk
    <3>2. CASE ChooseTab BY <3>2 DEF ChooseTab
    <3>3. CASE PickRow BY <3>3 DEF PickRow
    <3> QED BY <2>1, <3>1, <3>2, <3>3 DEF PageGesture
  <2>2. CASE HelpGesture BY <2>2 DEF HelpGesture
  <2> QED BY <1>3, <2>1, <2>2 DEF Gesture
<1>4. CASE Network BY <1>4 DEF Network, Talk
<1>5. CASE UNCHANGED dashVars BY <1>5 DEF dashVars
<1> QED BY <1>1, <1>2, <1>3, <1>4, <1>5 DEF DashNext

\* Each of them is a step of Copilot.
LEMMA PageStepsChat == ASSUME [DashNext]_dashVars PROVE [CopilotNext]_copilotVars
BY PageSteps DEF CopilotNext, Talk

\* On the page too, questions and answers take turns.
THEOREM PageAlternates == DashSpec => []Alternates
<1>1. ASSUME DashInit PROVE Turns
  <2>1. CopilotInit BY <1>1 DEF DashInit
  <2> QED BY <2>1, InitTurns
<1>2. ASSUME Turns, [DashNext]_dashVars PROVE Turns' BY <1>2, PageStepsChat, TurnsStep
<1>3. Turns => Alternates BY DEF Turns
<1> QED BY <1>1, <1>2, <1>3, PTL DEF DashSpec

\* A question or an answer is added to what was said.
LEMMA Said == ASSUME Turns, [Talk]_copilotVars PROVE IsPrefix(messages, messages')
<1>1. messages \in Seq(Role) BY DEF Turns, DrawerTypes
<1>2. messages' = messages \/ \E r : messages' = Append(messages, r)
  <2>1. ASSUME NEW words \in Question, sendMessage(words) PROVE messages' = Append(messages, "user")
    BY <2>1 DEF sendMessage, Ask
  <2>2. ASSUME NEW i \in DOMAIN asked, ReceiveAnswer(i)
        PROVE messages' = Append(messages, "assistant")
    BY <2>2 DEF ReceiveAnswer
  <2>3. ASSUME NEW open \in BOOLEAN, ShowChat(open) PROVE messages' = messages BY <2>3 DEF ShowChat
  <2>4. CASE UNCHANGED drawerVars BY <2>4 DEF drawerVars
  <2>5. CASE UNCHANGED copilotVars BY <2>4, <2>5 DEF copilotVars
  <2> QED BY <2>1, <2>2, <2>3, <2>4, <2>5 DEF Talk, CopilotGesture, Answers
<1>3. CASE messages' = messages BY <1>1, <1>3 DEF IsPrefix
<1>4. ASSUME NEW r, messages' = Append(messages, r) PROVE IsPrefix(messages, messages')
  <2>1. Len(messages') = Len(messages) + 1 /\ Len(messages) \in Nat BY <1>1, <1>4
  <2>2. \A i \in 1..Len(messages) : messages'[i] = messages[i] BY <1>1, <1>4
  <2>3. SubSeq(messages, 1, Len(messages)) = SubSeq(messages', 1, Len(messages))
    BY <1>1, <1>4, <2>1, <2>2
  <2> QED BY <2>1, <2>3 DEF IsPrefix
<1> QED BY <1>2, <1>3, <1>4

\* Once a snapshot has come, the conversation only grows.
THEOREM ConversationKept == DashSpec => ChatKept
<1>1. ASSUME DashInit PROVE Turns
  <2>1. CopilotInit BY <1>1 DEF DashInit
  <2> QED BY <2>1, InitTurns
<1>2. ASSUME Turns, [DashNext]_dashVars PROVE Turns' BY <1>2, PageStepsChat, TurnsStep
<1>3. ASSUME Turns, [DashNext]_dashVars
      PROVE [snapshot # None => IsPrefix(messages, messages')]_dashVars
  <2>1. CASE [Talk]_copilotVars BY <1>3, <2>1, Said
  <2>2. CASE snapshot = None BY <2>2
  <2> QED BY <1>3, <2>1, <2>2, PageSteps
<1> QED BY <1>1, <1>2, <1>3, PTL DEF DashSpec, ChatKept

-----------------------------------------------------------------------------
(* The choice of a target                                                  *)

\* The request on its way is for what was chosen, and once the server has taken the first
\* of them the choice stands.
OnItsWay(p) == /\ p = Request(p.kind, p.comm, p.pid, p.here, p.status)
               /\ p.kind \in {"box", "table", "again"} /\ p.status \in {"sent", "ok", "refused"}
               /\ p.comm = chosen.comm /\ p.pid = chosen.pid
               /\ p.kind = "again" \/ p.status = "ok" => Stands

\* The inductive invariant: the last choice has one request on its way or none.
Followed == /\ target = [comm |-> target.comm, pid |-> target.pid, named |-> target.named]
            /\ chosen # None =>
                  /\ chosen.pid = IF chosen.pid > 0 THEN chosen.pid ELSE 0
                  /\ \/ posts = <<>> /\ Stands
                     \/ \E p : posts = <<p>> /\ OnItsWay(p)

\* What the engine may make of a target.
LEMMA Resolved ==
    ASSUME NEW t, NEW w
    PROVE \/ Resolve(t, w) = t
          \/ /\ t.pid = 0
             /\ \E pid : Resolve(t, w) = [comm |-> t.comm, pid |-> pid, named |-> t.named]
BY DEF Resolve

\* A pid that was found is not looked for again.
LEMMA FoundOnce ==
    ASSUME NEW c, NEW n, NEW b, NEW t, t = [comm |-> c, pid |-> n, named |-> b], NEW v, NEW w
    PROVE Resolve(Resolve(t, v), w) \in {Resolve(t, v), Resolve(t, w)}
<1>1. CASE Resolve(t, v) = t BY <1>1
<1>2. ASSUME t.pid = 0, NEW pid, Resolve(t, v) = [comm |-> t.comm, pid |-> pid, named |-> t.named]
      PROVE Resolve(Resolve(t, v), w) \in {Resolve(t, v), Resolve(t, w)}
  <2>1. CASE pid = 0
    <3>1. Resolve(t, v) = t BY <1>2, <2>1
    <3> QED BY <3>1
  <2>2. CASE pid # 0
    <3>1. Resolve(t, v).pid # 0 BY <1>2, <2>2
    <3>2. Resolve(Resolve(t, v), w) = Resolve(t, v) BY <3>1 DEF Resolve
    <3> QED BY <3>2
  <2> QED BY <2>1, <2>2
<1> QED BY <1>1, <1>2, Resolved

\* A tick of the engine leaves a choice standing.
LEMMA TickStands ==
    ASSUME Followed, NEW w \in World, target' = Resolve(target, w), chosen' = chosen
    PROVE /\ target' = [comm |-> target.comm, pid |-> target'.pid, named |-> target.named]
          /\ Stands => Stands'
<1>1. target' = [comm |-> target.comm, pid |-> target'.pid, named |-> target.named]
  <2>1. CASE Resolve(target, w) = target BY <2>1 DEF Followed
  <2>2. ASSUME NEW pid,
               Resolve(target, w) = [comm |-> target.comm, pid |-> pid, named |-> target.named]
        PROVE target' = [comm |-> target.comm, pid |-> target'.pid, named |-> target.named]
    BY <2>2
  <2> QED BY <2>1, <2>2, Resolved
<1>2. Wanted' = Wanted
  <2>1. target'.comm = target.comm BY <1>1
  <2> QED BY <2>1 DEF Wanted
<1>3. ASSUME target = Wanted PROVE Stands' BY <1>2, <1>3 DEF Stands
<1>4. ASSUME NEW v \in World, target = Resolve(Wanted, v) PROVE Stands'
  <2>1. target' \in {target, Resolve(Wanted, w)} BY <1>4, FoundOnce DEF Wanted
  <2> QED BY <1>2, <1>4, <2>1 DEF Stands
<1>5. ASSUME Stands PROVE Stands'
  <2>1. target = Wanted \/ \E v \in World : target = Resolve(Wanted, v) BY <1>5 DEF Stands
  <2> QED BY <2>1, <1>3, <1>4
<1> QED BY <1>1, <1>5

\* Push keeps the invariant.
LEMMA PushFollowed == ASSUME Followed, Push PROVE Followed'
<1>1. PICK w \in World : target' = Resolve(target, w) BY DEF Push
<1>2. chosen' = chosen /\ posts' = posts BY DEF Push, omniVars, postVars
<1>3. target' = [comm |-> target'.comm, pid |-> target'.pid, named |-> target'.named]
  <2>1. target' = [comm |-> target.comm, pid |-> target'.pid, named |-> target.named]
    BY <1>1, <1>2, TickStands
  <2>2. target'.comm = target.comm /\ target'.named = target.named BY <2>1
  <2> QED BY <2>1, <2>2
<1>4. Stands => Stands' BY <1>1, <1>2, TickStands
<1>5. ASSUME NEW p, OnItsWay(p) PROVE OnItsWay(p)' BY <1>2, <1>4, <1>5 DEF OnItsWay
<1> QED BY <1>2, <1>3, <1>4, <1>5 DEF Followed

\* A choice begins to be followed, if nothing else is on its way.
LEMMA ChooseFollowed ==
    ASSUME Followed, NEW kind \in {"box", "table"}, NEW name, NEW pid, Choose(kind, name, pid)
    PROVE Followed'
<1>1. target' = target BY DEF Choose
<1>2. CASE posts # <<>> BY <1>1, <1>2 DEF Choose, Followed
<1>3. CASE posts = <<>>
  <2> DEFINE n == IF pid > 0 THEN pid ELSE 0
  <2>1. n = IF n > 0 THEN n ELSE 0 BY SMT
  <2>2. chosen' = [comm |-> name, pid |-> n] /\ posts' = <<Post(kind, name, pid)>>
    BY <1>3 DEF Choose
  <2>3. Post(kind, name, pid) = Request(kind, name, n, kind = "box", "sent") BY DEF Post
  <2> HIDE DEF n
  <2>4. OnItsWay(Post(kind, name, pid))' BY <2>2, <2>3 DEF OnItsWay, Request
  <2> QED BY <1>1, <2>1, <2>2, <2>4 DEF Followed
<1> QED BY <1>2, <1>3

\* With one request on its way, that is the one that goes on, and the only one to go.
LEMMA TheOne ==
    ASSUME NEW p, posts = <<p>>, NEW i \in DOMAIN posts
    PROVE /\ i = 1 /\ posts[i] = p /\ RemoveAt(posts, i) = <<>>
          /\ \A q : [posts EXCEPT ![i] = q] = <<q>> /\ Append(<<>>, q) = <<q>>
<1>1. i = 1 /\ posts[i] = p OBVIOUS
<1>2. SubSeq(posts, 1, 0) = <<>> /\ SubSeq(posts, 2, 1) = <<>> /\ Len(posts) = 1 OBVIOUS
<1>3. RemoveAt(posts, i) = <<>> BY <1>1, <1>2 DEF RemoveAt
<1>4. \A q : [posts EXCEPT ![i] = q] = <<q>> /\ Append(<<>>, q) = <<q>> BY <1>1
<1> QED BY <1>1, <1>3, <1>4

\* What the server does with a request.
LEMMA TakesFollowed == ASSUME Followed, NEW i \in DOMAIN posts, ServerTakes(i) PROVE Followed'
<1>1. chosen' = chosen BY DEF ServerTakes
<1>2. target' = [comm |-> target'.comm, pid |-> target'.pid, named |-> target'.named]
  BY DEF ServerTakes, Followed
<1>3. ASSUME chosen # None, NEW p, posts = <<p>>, OnItsWay(p)
      PROVE \E q : posts' = <<q>> /\ OnItsWay(q)'
  <2>1. i = 1 /\ posts[i] = p BY <1>3, TheOne
  <2>2. CASE /\ target' = [comm |-> IF p.comm = "" THEN target.comm ELSE p.comm,
                           pid |-> p.pid, named |-> p.comm # ""]
             /\ posts' = <<WithStatus(p, "ok")>>
    <3>1. Wanted' = target' BY <1>1, <1>3, <2>2 DEF Wanted, OnItsWay
    <3>2. Stands' BY <3>1 DEF Stands
    <3>3. OnItsWay(WithStatus(p, "ok"))'
      BY <1>1, <1>3, <3>2 DEF OnItsWay, WithStatus, Request
    <3> QED BY <2>2, <3>3
  <2>3. CASE target' = target /\ posts' = <<WithStatus(p, "refused")>>
    <3>1. Stands => Stands' BY <1>1, <2>3 DEF Stands, Wanted
    <3>2. OnItsWay(WithStatus(p, "refused"))'
      BY <1>1, <1>3, <3>1 DEF OnItsWay, WithStatus, Request
    <3> QED BY <2>3, <3>2
  <2> QED BY <1>3, <2>1, <2>2, <2>3, TheOne DEF ServerTakes
<1>4. posts # <<>> OBVIOUS
<1> QED BY <1>1, <1>2, <1>3, <1>4 DEF Followed

\* The first request of the box is answered, and the second is sent.
LEMMA BoxFollowed == ASSUME Followed, NEW i \in DOMAIN posts, BoxAnswered(i) PROVE Followed'
<1>1. chosen' = chosen /\ target' = target BY DEF BoxAnswered
<1>2. Stands => Stands' BY <1>1 DEF Stands, Wanted
<1>3. ASSUME chosen # None, NEW p, posts = <<p>>, OnItsWay(p)
      PROVE \E q : posts' = <<q>> /\ OnItsWay(q)'
  <2>1. posts[i] = p /\ RemoveAt(posts, i) = <<>> BY <1>3, TheOne
  <2>2. p.status = "ok" BY <2>1 DEF BoxAnswered
  <2>3. posts' = <<Post("again", p.comm, p.pid)>>
    BY <1>3, <2>1, TheOne DEF BoxAnswered, handleTargetChange
  <2>4. Post("again", p.comm, p.pid) = Request("again", p.comm, p.pid, FALSE, "sent")
    <3>1. p.pid = IF p.pid > 0 THEN p.pid ELSE 0 BY <1>3 DEF OnItsWay, Followed
    <3> QED BY <3>1 DEF Post
  <2>5. OnItsWay(Post("again", p.comm, p.pid))'
    BY <1>1, <1>2, <1>3, <2>2, <2>4 DEF OnItsWay, Request
  <2> QED BY <2>3, <2>5
<1>4. posts # <<>> OBVIOUS
<1> QED BY <1>1, <1>3, <1>4 DEF Followed

\* A request of the page ends.
LEMMA PageFollowed == ASSUME Followed, NEW i \in DOMAIN posts, PageAnswered(i) PROVE Followed'
<1>1. target' = target /\ (chosen' # None => chosen' = chosen) BY DEF PageAnswered
<1>2. ASSUME chosen' # None, NEW p, posts = <<p>>, OnItsWay(p) PROVE posts' = <<>> /\ Stands'
  <2>1. posts[i] = p /\ RemoveAt(posts, i) = <<>> BY <1>2, TheOne
  <2>2. posts' = <<>> BY <2>1 DEF PageAnswered
  <2>3. p.kind = "again" \/ p.status = "ok" BY <1>2, <2>1 DEF PageAnswered, OnItsWay
  <2>4. Stands BY <1>2, <2>3 DEF OnItsWay
  <2>5. Stands' BY <1>1, <1>2, <2>4 DEF Stands, Wanted
  <2> QED BY <2>2, <2>5
<1>3. posts # <<>> OBVIOUS
<1> QED BY <1>1, <1>2, <1>3 DEF Followed

\* The header goes, and the request goes on.
LEMMA HeaderFollowed ==
    ASSUME Followed, HeaderGoes, UNCHANGED <<target, chosen>> PROVE Followed'
<1> DEFINE Left(q) == Request(q.kind, q.comm, q.pid, FALSE, q.status)
<1>1. posts' = [i \in DOMAIN posts |-> Left(posts[i])] BY DEF HeaderGoes
<1>2. Stands => Stands' BY DEF Stands, Wanted
<1>3. CASE posts = <<>>
  <2>1. posts' = <<>> BY <1>1, <1>3
  <2> QED BY <1>2, <1>3, <2>1 DEF Followed
<1>4. ASSUME chosen # None, NEW p, posts = <<p>>, OnItsWay(p)
      PROVE \E q : posts' = <<q>> /\ OnItsWay(q)'
  <2>1. posts' = <<Left(p)>>
    <3>1. DOMAIN posts = 1..1 /\ posts[1] = p BY <1>4
    <3> HIDE DEF Left
    <3>2. posts' = [i \in 1..1 |-> Left(p)]
      <4>1. \A i \in 1..1 : posts[i] = p BY <3>1
      <4> QED BY <1>1, <3>1, <4>1
    <3>3. ASSUME NEW x PROVE [i \in 1..1 |-> x] = <<x>> OBVIOUS
    <3> QED BY <3>2, <3>3
  <2>2. OnItsWay(Left(p))' BY <1>2, <1>4 DEF OnItsWay, Request
  <2> QED BY <2>1, <2>2
<1> QED BY <1>2, <1>3, <1>4 DEF Followed

\* What leaves requests, target and choice alone keeps the invariant.
LEMMA OthersFollowed == ASSUME Followed, UNCHANGED postVars PROVE Followed'
BY DEF postVars, Followed, OnItsWay, Stands, Wanted

\* Enter and the button choose as the box does.
LEMMA TypedFollowed == ASSUME Followed, TargetTyped PROVE Followed'
<1>1. \E name, pid : applyTarget(name, pid) BY DEF TargetTyped
<1> QED BY <1>1, ChooseFollowed DEF applyTarget

LEMMA SelectedFollowed == ASSUME Followed, NEW p, selectProcess(p) PROVE Followed'
BY ChooseFollowed DEF selectProcess, applyTarget

\* Whatever the user does.
LEMMA GestureFollowed == ASSUME Followed, Gesture PROVE Followed'
<1>1. CASE BoxKeys(snapshot)
  <2>1. CASE Enter(snapshot) BY <2>1, TypedFollowed, SelectedFollowed DEF Enter
  <2>2. CASE TargetDirectly(snapshot) BY <2>2, TypedFollowed DEF TargetDirectly
  <2>3. CASE FocusSearch BY <2>3, OthersFollowed DEF FocusSearch
  <2>4. ASSUME NEW q \in Query, TypeQuery(q) PROVE Followed' BY <2>4, OthersFollowed DEF TypeQuery
  <2>5. CASE ClearQuery BY <2>5, OthersFollowed DEF ClearQuery
  <2>6. CASE OpenList BY <2>6, OthersFollowed DEF OpenList
  <2>7. CASE Arrow(snapshot) BY <2>7, OthersFollowed DEF Arrow
  <2> QED BY <1>1, <2>1, <2>2, <2>3, <2>4, <2>5, <2>6, <2>7 DEF BoxKeys
<1>2. CASE BoxMouse(snapshot)
  <2>1. CASE Hover(snapshot) BY <2>1, OthersFollowed DEF Hover
  <2>2. CASE ClickRow(snapshot) BY <2>2, SelectedFollowed DEF ClickRow
  <2> QED BY <1>2, <2>1, <2>2 DEF BoxMouse
<1>3. CASE UNCHANGED postVars BY <1>3, OthersFollowed
<1>4. CASE ChooseTab BY <1>3, <1>4 DEF ChooseTab
<1>5. CASE PickRow BY <1>5, ChooseFollowed DEF PickRow, TableChoice
<1>6. CASE HelpGesture BY <1>3, <1>6 DEF HelpGesture, Escape
<1> QED BY <1>1, <1>2, <1>3, <1>4, <1>5, <1>6 DEF Gesture, PageGesture

\* Every step keeps the invariant.
LEMMA FollowedStep == ASSUME Followed, [DashNext]_dashVars PROVE Followed'
<1>1. CASE Push BY <1>1, PushFollowed
<1>2. CASE ConnectionChanges
  <2>1. UNCHANGED <<target, chosen>> BY <1>2 DEF ConnectionChanges
  <2>2. CASE HeaderGoes BY <2>1, <2>2, HeaderFollowed
  <2>3. CASE UNCHANGED posts BY <2>1, <2>3, OthersFollowed DEF postVars
  <2> QED BY <1>2, <2>2, <2>3 DEF ConnectionChanges
<1>3. CASE Gesture BY <1>3, GestureFollowed
<1>4. CASE Network
  <2>1. ASSUME NEW i \in DOMAIN posts, BoxFails(i) PROVE Followed'
    BY <2>1 DEF BoxFails, Followed
  <2>2. CASE Requests BY <2>1, <2>2, TakesFollowed, BoxFollowed, PageFollowed DEF Requests
  <2>3. CASE UNCHANGED omniVars BY <2>3, OthersFollowed DEF omniVars
  <2> QED BY <1>4, <2>2, <2>3 DEF Network
<1>5. CASE UNCHANGED dashVars BY <1>5, OthersFollowed DEF dashVars, omniVars
<1> QED BY <1>1, <1>2, <1>3, <1>4, <1>5 DEF DashNext

\* The last choice is what the server observes, once its requests are done and as long
\* as no other was on its way with it and none of them failed, whatever the engine finds.
THEOREM LastChoiceStands == DashSpec => []ChoiceStands
<1>1. ASSUME DashInit PROVE Followed
  <2>1. target = InitialTarget /\ chosen = None BY <1>1 DEF DashInit, OmniInit
  <2> QED BY <2>1, InitialIsTarget DEF Followed
<1>2. ASSUME Followed, [DashNext]_dashVars PROVE Followed' BY <1>2, FollowedStep
<1>3. Followed => ChoiceStands BY DEF Followed, ChoiceStands
<1> QED BY <1>1, <1>2, <1>3, PTL DEF DashSpec

-----------------------------------------------------------------------------
(* The help                                                                *)

Preset == {"quantile_curve", "runqueue_switches", "net_bidi", "thread_mem", "page_faults"}

Explained == Documented \cup {"memory_subsystem"}

\* A tab is chosen, the graphs are of known kinds, and the window of the help shows what
\* a button named.
HelpInv == /\ activeTab \in Tab
           /\ \A g \in scratchGraphs : g.preset \in Preset
           /\ activeMetricHelpId \in Explained \cup {None}

\* The texts of a tab's buttons exist.
LEMMA TabExplained ==
    ASSUME NEW tab \in Tab PROVE TabHelp(tab) \cup {BannerHelp(tab)} \subseteq Explained
<1> USE DEF Explained, Documented
<1>1. BannerHelp(tab) \in Explained BY DEF Tab, BannerHelp, GraphDocs
<1>2. BasicHelp \subseteq Explained BY DEF BasicHelp, BasicSignalsHelp, BasicWavesHelp
<1>3. MediumHelp \subseteq Explained BY DEF MediumHelp, SyscallBarHelp, ProcessTableHelp
<1>4. AdvancedHelp \subseteq Explained BY DEF AdvancedHelp, AdvancedPanelsHelp
<1>5. CompleteHelp \subseteq Explained BY DEF CompleteHelp, HistoryHelp
<1> HIDE DEF Explained, Documented
<1>6. TabHelp(tab) \subseteq Explained BY <1>2, <1>3, <1>4, <1>5 DEF Tab, TabHelp
<1> QED BY <1>1, <1>6

\* And those of every button of the page.
LEMMA OfferedExplained ==
    ASSUME NEW tab \in Tab, NEW presets \in SUBSET Preset, NEW s
    PROVE Offered(tab, presets, s) \subseteq Explained
<1>1. HeaderHelp \subseteq Explained BY DEF HeaderHelp, Explained, Documented
<1>2. StatusBarHelp(s) \subseteq Explained BY DEF StatusBarHelp, Explained, Documented
<1>3. "scratchpad_sandbox" \in Explained BY DEF Explained, Documented, GraphDocs
<1>4. \A preset \in Preset : GraphHelp(preset) \in Explained
  BY DEF Preset, GraphHelp, Explained, Documented, GraphDocs
<1> QED BY <1>1, <1>2, <1>3, <1>4, TabExplained DEF Offered

\* A graph that is drawn is of a known kind.
LEMMA DrawKnown == ASSUME HelpInv, NEW preset \in Preset, Draw(preset)
                   PROVE \A g \in scratchGraphs' : g.preset \in Preset
BY DEF HelpInv, Draw, addScratchGraph, Graph

\* Whatever is done with the chat and its graphs.
LEMMA ChatKnown == ASSUME HelpInv, [Talk]_copilotVars
                   PROVE \A g \in scratchGraphs' : g.preset \in Preset
<1>1. CASE UNCHANGED scratchGraphs BY <1>1 DEF HelpInv
<1>2. ASSUME NEW words \in Question, sendMessage(words)
      PROVE \A g \in scratchGraphs' : g.preset \in Preset
  <2>1. GraphFor(words) \subseteq Preset BY DEF GraphFor, Preset
  <2>2. \/ UNCHANGED scratchGraphs
        \/ \E preset \in GraphFor(words) : Draw(preset)
    BY <1>2 DEF sendMessage, Ask
  <2> QED BY <1>1, <2>1, <2>2, DrawKnown
<1>3. CASE AddPreset BY <1>3, DrawKnown DEF AddPreset, Preset
<1>4. CASE RemoveGraph BY <1>4 DEF RemoveGraph, HelpInv
<1>5. CASE ResetGraphs BY <1>5 DEF ResetGraphs, DefaultGraphs, Graph, Preset
<1>6. CASE ChooseType BY <1>1, <1>6 DEF ChooseType
<1>7. ASSUME NEW open \in BOOLEAN, ShowChat(open) PROVE UNCHANGED scratchGraphs
  BY <1>7 DEF ShowChat, graphVars
<1>8. ASSUME NEW i \in DOMAIN asked, ReceiveAnswer(i) PROVE UNCHANGED scratchGraphs
  BY <1>8 DEF ReceiveAnswer, graphVars
<1>9. CASE UNCHANGED copilotVars BY <1>1, <1>9 DEF copilotVars, graphVars
<1> QED BY <1>1, <1>2, <1>3, <1>4, <1>5, <1>6, <1>7, <1>8, <1>9
        DEF Talk, CopilotGesture, Answers

\* Every step of the page.
LEMMA HelpStep == ASSUME HelpInv, [DashNext]_dashVars PROVE HelpInv'
<1>1. \A g \in scratchGraphs' : g.preset \in Preset
  <2>1. CASE [Talk]_copilotVars BY <2>1, ChatKnown
  <2>2. CASE DrawerGoes BY <2>2 DEF DrawerGoes, HelpInv
  <2> QED BY <2>1, <2>2, PageSteps
<1>2. activeTab' \in Tab
  <2>1. CASE UNCHANGED activeTab BY <2>1 DEF HelpInv
  <2>2. CASE ChooseTab BY <2>2 DEF ChooseTab
  <2>3. CASE PickRow BY <2>1, <2>3 DEF PickRow
  <2>4. CASE UNCHANGED pageVars BY <2>1, <2>4 DEF pageVars
  <2>5. CASE Gesture BY <2>2, <2>3, <2>4, <2>5 DEF Gesture, PageGesture, HelpGesture
  <2> QED BY <2>1, <2>4, <2>5 DEF DashNext, Push, ConnectionChanges, Network, dashVars
<1>3. activeMetricHelpId' \in Explained \cup {None}
  <2>1. CASE UNCHANGED activeMetricHelpId BY <2>1 DEF HelpInv
  <2>2. CASE HelpGesture
    <3> DEFINE presets == {g.preset : g \in scratchGraphs}
    <3>1. presets \in SUBSET Preset BY DEF HelpInv
    <3>2. ASSUME NEW id \in Offered(activeTab, presets, snapshot), openMetricHelp(id)
          PROVE activeMetricHelpId' \in Explained \cup {None}
      <4> HIDE DEF presets
      <4> QED BY <3>1, <3>2, OfferedExplained DEF HelpInv, openMetricHelp
    <3>3. CASE closeMetricHelp BY <3>3 DEF closeMetricHelp
    <3> QED BY <2>2, <3>2, <3>3 DEF HelpGesture
  <2>3. CASE Gesture BY <2>1, <2>2, <2>3 DEF Gesture
  <2> QED BY <2>1, <2>3 DEF DashNext, Push, ConnectionChanges, Network, dashVars
<1> QED BY <1>1, <1>2, <1>3 DEF HelpInv

\* It holds at first.
LEMMA HelpBegins == ASSUME DashInit PROVE HelpInv
<1>1. activeTab \in Tab BY DEF DashInit, Tab
<1>2. \A g \in scratchGraphs : g.preset \in Preset
  BY DEF DashInit, CopilotInit, DefaultGraphs, Graph, Preset
<1>3. activeMetricHelpId = None BY DEF DashInit, HelpInit
<1> QED BY <1>1, <1>2, <1>3 DEF HelpInv

\* Every button of the help opens an explanation, for any questions and graphs, but for
\* the graph of page faults.
THEOREM HelpOpensHolds == DashSpec => []HelpOpens
<1>1. ASSUME DashInit PROVE HelpInv BY <1>1, HelpBegins
<1>2. ASSUME HelpInv, [DashNext]_dashVars PROVE HelpInv' BY <1>2, HelpStep
<1>3. ASSUME HelpInv PROVE HelpOpens
  <2> DEFINE presets == {g.preset : g \in scratchGraphs}
  <2>1. presets \in SUBSET Preset BY <1>3 DEF HelpInv
  <2>2. Offered(activeTab, presets, snapshot) \subseteq Explained
    <3> HIDE DEF presets
    <3> QED BY <1>3, <2>1, OfferedExplained DEF HelpInv
  <2> QED BY <1>3, <2>2 DEF HelpInv, HelpOpens, Explained
<1> QED BY <1>1, <1>2, <1>3, PTL DEF DashSpec

-----------------------------------------------------------------------------
(* Sums and orders: what a sum over a sequence is, and that the places in a
   total order are all taken.                                              *)

\* A set of naturals below n that has 0, and with a number the next, has them all.
LEMMA Climb ==
    ASSUME NEW n \in Nat, NEW T \in SUBSET (0..n), 0 \in T,
           \A i \in 0..n - 1 : i \in T => i + 1 \in T
    PROVE T = 0..n
<1> DEFINE R == {ss \in Nat \X Nat : ss[1] < ss[2]}
           Rest == (0..n) \ T
<1>1. IsWellFoundedOn(R, Nat) BY NatLessThanWellFounded DEF OpToRel
<1>2. Rest \in SUBSET Nat OBVIOUS
<1>3. ASSUME Rest # {} PROVE FALSE
  <2>1. PICK x \in Rest : \A y \in Rest : ~ (<<y, x>> \in R)
    <3> HIDE DEF R, Rest
    <3> QED BY <1>1, <1>2, <1>3, WFMin
  <2>2. x \in 1..n BY <2>1
  <2>3. x - 1 \in 0..n - 1 /\ x - 1 \in Nat /\ x \in Nat /\ (x - 1) + 1 = x BY <2>2
  <2>4. x - 1 \notin T BY <2>1, <2>3
  <2>5. x - 1 \in Rest BY <2>3, <2>4
  <2>6. <<x - 1, x>> \in R BY <2>3
  <2> QED BY <2>1, <2>5, <2>6
<1> QED BY <1>3

\* The partial sums of a sequence of integers.
LEMMA PartialSums ==
    ASSUME NEW n \in Nat, NEW f \in [1..n -> Int]
    PROVE \E s \in [0..n -> Int] : /\ s[0] = 0 /\ Total(f) = s[n]
                                   /\ \A i \in 1..n : s[i] = s[i - 1] + f[i]
<1> DEFINE Sums(s, m) == s[0] = 0 /\ \A i \in 1..m : s[i] = s[i - 1] + f[i]
           T == {m \in 0..n : \E s \in [0..m -> Int] : Sums(s, m)}
           sum == CHOOSE g : g = [i \in 0..n |-> IF i = 0 THEN 0 ELSE g[i - 1] + f[i]]
<1>1. 0 \in T
  <2>1. [i \in 0..0 |-> 0] \in [0..0 -> Int] /\ Sums([i \in 0..0 |-> 0], 0) OBVIOUS
  <2>2. \E s \in [0..0 -> Int] : Sums(s, 0) BY <2>1
  <2>3. 0 \in 0..n OBVIOUS
  <2> HIDE DEF Sums
  <2> QED BY <2>2, <2>3
<1>2. ASSUME NEW m \in 0..n - 1, m \in T PROVE m + 1 \in T
  <2>1. PICK s \in [0..m -> Int] : Sums(s, m) BY <1>2
  <2> DEFINE r == [i \in 0..m + 1 |-> IF i <= m THEN s[i] ELSE s[m] + f[m + 1]]
  <2>2. m + 1 \in 1..n /\ f[m + 1] \in Int /\ s[m] \in Int OBVIOUS
  <2>3. r \in [0..m + 1 -> Int] BY <2>2
  <2>4. r[0] = 0 BY <2>1
  <2>5. ASSUME NEW i \in 1..m + 1 PROVE r[i] = r[i - 1] + f[i]
    <3>1. CASE i \in 1..m BY <2>1, <3>1
    <3>2. CASE i = m + 1 BY <2>2, <3>2
    <3> QED BY <3>1, <3>2
  <2> HIDE DEF r
  <2>6. Sums(r, m + 1) BY <2>4, <2>5
  <2>7. \E q \in [0..m + 1 -> Int] : Sums(q, m + 1) BY <2>3, <2>6
  <2>8. m + 1 \in 0..n OBVIOUS
  <2> HIDE DEF Sums
  <2> QED BY <2>7, <2>8
<1>3. n \in T
  <2>1. T \in SUBSET (0..n) OBVIOUS
  <2>2. T = 0..n
    <3> HIDE DEF T
    <3> QED BY <1>1, <1>2, <2>1, Climb
  <2>3. n \in 0..n OBVIOUS
  <2> HIDE DEF T
  <2> QED BY <2>2, <2>3
<1>4. PICK s \in [0..n -> Int] : Sums(s, n) BY <1>3
<1>5. s = [i \in 0..n |-> IF i = 0 THEN 0 ELSE s[i - 1] + f[i]] BY <1>4
<1>6. sum = [i \in 0..n |-> IF i = 0 THEN 0 ELSE sum[i - 1] + f[i]] BY <1>5
<1>7. Len(f) = n OBVIOUS
<1>8. Total(f) = sum[n] BY <1>7 DEF Total
<1>9. \A i \in 0..n : sum[i] = s[i]
  <2> DEFINE Same == {i \in 0..n : sum[i] = s[i]}
  <2> HIDE DEF sum
  <2>1. 0 \in Same BY <1>4, <1>6
  <2>2. ASSUME NEW i \in 0..n - 1, i \in Same PROVE i + 1 \in Same
    <3>1. i + 1 \in 1..n /\ i + 1 \in 0..n /\ i + 1 # 0 /\ (i + 1) - 1 = i OBVIOUS
    <3>2. sum[i + 1] = sum[i] + f[i + 1] BY <1>6, <3>1
    <3>3. s[i + 1] = s[i] + f[i + 1] BY <1>4, <3>1
    <3> QED BY <2>2, <3>1, <3>2, <3>3
  <2>3. Same \in SUBSET (0..n) OBVIOUS
  <2>4. Same = 0..n
    <3> HIDE DEF Same
    <3> QED BY <2>1, <2>2, <2>3, Climb
  <2> QED BY <2>4
<1> HIDE DEF sum, Sums
<1>10. n \in 0..n /\ sum[n] = s[n] BY <1>9
<1>11. s[0] = 0 /\ \A i \in 1..n : s[i] = s[i - 1] + f[i] BY <1>4 DEF Sums
<1> QED BY <1>8, <1>10, <1>11

\* The sum of the sums is the sum.
LEMMA TotalAdds ==
    ASSUME NEW n \in Nat, NEW f \in [1..n -> Int], NEW g \in [1..n -> Int]
    PROVE Total([i \in 1..n |-> f[i] + g[i]]) = Total(f) + Total(g)
<1> DEFINE h == [i \in 1..n |-> f[i] + g[i]]
<1>1. h \in [1..n -> Int] /\ \A i \in 1..n : h[i] = f[i] + g[i] OBVIOUS
<1> HIDE DEF h
<1>2. PICK a \in [0..n -> Int] : /\ a[0] = 0 /\ Total(f) = a[n]
                                 /\ \A i \in 1..n : a[i] = a[i - 1] + f[i]
  BY PartialSums
<1>3. PICK b \in [0..n -> Int] : /\ b[0] = 0 /\ Total(g) = b[n]
                                 /\ \A i \in 1..n : b[i] = b[i - 1] + g[i]
  BY PartialSums
<1>4. PICK c \in [0..n -> Int] : /\ c[0] = 0 /\ Total(h) = c[n]
                                 /\ \A i \in 1..n : c[i] = c[i - 1] + h[i]
  BY <1>1, PartialSums
<1> DEFINE Same == {i \in 0..n : c[i] = a[i] + b[i]}
<1>5. 0 \in Same BY <1>2, <1>3, <1>4
<1>6. ASSUME NEW i \in 0..n - 1, i \in Same PROVE i + 1 \in Same
  <2>1. i + 1 \in 1..n /\ i \in 0..n /\ i + 1 \in 0..n /\ (i + 1) - 1 = i OBVIOUS
  <2>2. a[i] \in Int /\ b[i] \in Int /\ c[i] = a[i] + b[i] BY <1>6, <2>1
  <2>3. f[i + 1] \in Int /\ g[i + 1] \in Int /\ h[i + 1] = f[i + 1] + g[i + 1] BY <1>1, <2>1
  <2>4. a[i + 1] = a[i] + f[i + 1] /\ b[i + 1] = b[i] + g[i + 1] /\ c[i + 1] = c[i] + h[i + 1]
    BY <1>2, <1>3, <1>4, <2>1
  <2> QED BY <2>1, <2>2, <2>3, <2>4
<1>7. Same \in SUBSET (0..n) OBVIOUS
<1>8. Same = 0..n
  <2> HIDE DEF Same
  <2> QED BY <1>5, <1>6, <1>7, Climb
<1>9. c[n] = a[n] + b[n]
  <2>1. n \in 0..n OBVIOUS
  <2> QED BY <1>8, <2>1
<1> QED BY <1>2, <1>3, <1>4, <1>9 DEF h

\* R orders the members of S one after the other.
Orders(R, S) == /\ \A i \in S : <<i, i>> \notin R
                /\ \A i, j, k \in S : <<i, j>> \in R /\ <<j, k>> \in R => <<i, k>> \in R
                /\ \A i, j \in S : i # j => <<i, j>> \in R \/ <<j, i>> \in R

\* As many come before a member as its place takes.
Place(R, S, i) == Cardinality({j \in S : <<j, i>> \in R}) + 1

\* In a total order of finitely many, every place is taken.
LEMMA Places ==
    ASSUME NEW S, IsFiniteSet(S), NEW R, Orders(R, S), NEW k \in 1..Cardinality(S)
    PROVE \E i \in S : Place(R, S, i) = k
<1> DEFINE Ahead(i) == {j \in S : <<j, i>> \in R}
           c == Cardinality(S)
           place == [i \in S |-> Cardinality(Ahead(i)) + 1]
<1> USE DEF Orders
<1>1. IsFiniteSet(S) /\ c \in Nat BY FS_CardinalityType
<1>2. ASSUME NEW i \in S
      PROVE IsFiniteSet(Ahead(i)) /\ Cardinality(Ahead(i)) \in 0..c - 1
  <2>1. Ahead(i) \in SUBSET S OBVIOUS
  <2>2. IsFiniteSet(Ahead(i)) /\ Cardinality(Ahead(i)) <= c BY <1>1, <2>1, FS_Subset
  <2>3. Cardinality(Ahead(i)) \in Nat BY <2>2, FS_CardinalityType
  <2>4. Ahead(i) # S OBVIOUS
  <2>5. Cardinality(Ahead(i)) # c BY <1>1, <2>1, <2>4, FS_Subset
  <2> HIDE DEF Ahead, c
  <2> QED BY <1>1, <2>2, <2>3, <2>5
<1>3. ASSUME NEW i \in S, NEW j \in S, <<i, j>> \in R
      PROVE Cardinality(Ahead(i)) # Cardinality(Ahead(j))
  <2>1. Ahead(i) \in SUBSET Ahead(j) BY <1>3
  <2>2. Ahead(i) # Ahead(j) BY <1>3
  <2>3. IsFiniteSet(Ahead(j)) BY <1>2
  <2> HIDE DEF Ahead
  <2> QED BY <2>1, <2>2, <2>3, FS_Subset
<1>4. place \in Injection(S, 1..c)
  <2>1. ASSUME NEW i \in S PROVE place[i] \in 1..c
    <3>1. Cardinality(Ahead(i)) \in 0..c - 1 BY <1>2
    <3> HIDE DEF Ahead, c
    <3> QED BY <1>1, <3>1
  <2>2. ASSUME NEW i \in S, NEW j \in S, place[i] = place[j] PROVE i = j
    <3>1. Cardinality(Ahead(i)) \in Int /\ Cardinality(Ahead(j)) \in Int
      <4>1. Cardinality(Ahead(i)) \in 0..c - 1 /\ Cardinality(Ahead(j)) \in 0..c - 1 BY <1>2
      <4> HIDE DEF Ahead, c
      <4> QED BY <4>1
    <3>2. Cardinality(Ahead(i)) + 1 = Cardinality(Ahead(j)) + 1 BY <2>2
    <3>3. Cardinality(Ahead(i)) = Cardinality(Ahead(j))
      <4> HIDE DEF Ahead
      <4> QED BY <3>1, <3>2
    <3>4. <<i, j>> \notin R /\ <<j, i>> \notin R BY <1>3, <3>3
    <3> QED BY <3>4
  <2>3. place \in [S -> 1..c]
    <3> HIDE DEF c
    <3> QED BY <2>1
  <2> HIDE DEF place, c
  <2> QED BY <2>2, <2>3 DEF Injection, IsInjective
<1>5. IsFiniteSet(1..c) /\ Cardinality(1..c) = c
  <2> HIDE DEF c
  <2> QED BY <1>1, FS_Interval
<1>6. place \in Surjection(S, 1..c)
  <2> HIDE DEF place
  <2>1. Cardinality(S) = Cardinality(1..c) BY <1>5
  <2> HIDE DEF c
  <2> QED BY <1>4, <1>5, <2>1, FS_Injection
<1>7. PICK i \in S : place[i] = k
  <2> HIDE DEF place
  <2> QED BY <1>6 DEF Surjection
<1> QED BY <1>7 DEF Place

\* What the list asks of a row.
Ranked(p) == p.pid \in Nat /\ p.cpu_pct \in Nat /\ p.rss_bytes \in Nat

\* The order of the list is total.
LEMMA BeforeOrders ==
    ASSUME NEW s, NEW n \in Nat, DOMAIN Displayed(s) = 1..n,
           \A i \in 1..n : Ranked(Displayed(s)[i])
    PROVE /\ \A i \in 1..n : ~Before(s, i, i)
          /\ \A i, j, k \in 1..n : Before(s, i, j) /\ Before(s, j, k) => Before(s, i, k)
          /\ \A i, j \in 1..n : i # j => Before(s, i, j) \/ Before(s, j, i)
<1> DEFINE m(i) == Marked(s, Displayed(s)[i])
           c(i) == Displayed(s)[i].cpu_pct
           r(i) == Displayed(s)[i].rss_bytes
<1>1. \A i \in 1..n : c(i) \in Nat /\ r(i) \in Nat BY DEF Ranked
<1>2. \A i, j \in 1..n :
          Before(s, i, j) <=> IF m(i) # m(j) THEN m(i) ELSE IF c(i) # c(j) THEN c(i) > c(j)
                              ELSE IF r(i) # r(j) THEN r(i) > r(j) ELSE i < j
  BY DEF Before
<1>3. \A i \in 1..n : m(i) \in BOOLEAN BY DEF Marked
<1> HIDE DEF m, c, r
<1>4. \A i \in 1..n : ~Before(s, i, i) BY <1>1, <1>2
<1>5. \A i, j \in 1..n : i # j => Before(s, i, j) \/ Before(s, j, i) BY <1>1, <1>2, <1>3
<1>6. ASSUME NEW i \in 1..n, NEW j \in 1..n, NEW k \in 1..n, Before(s, i, j), Before(s, j, k)
      PROVE Before(s, i, k)
  <2> DEFINE Comes(a, b) == IF m(a) # m(b) THEN m(a) ELSE IF c(a) # c(b) THEN c(a) > c(b)
                            ELSE IF r(a) # r(b) THEN r(a) > r(b) ELSE a < b
  <2>1. Comes(i, j) /\ Comes(j, k) BY <1>2, <1>6
  <2>2. Comes(i, k) BY <1>1, <1>3, <2>1
  <2> QED BY <1>2, <2>2
<1> QED BY <1>4, <1>5, <1>6

\* What the list holds are rows, of the snapshot or of those that are offered without it.
LEMMA ListedAreRows ==
    ASSUME NEW s, NEW n \in Nat, DOMAIN Displayed(s) = 1..n,
           \A i \in 1..n : Ranked(Displayed(s)[i]), NEW k \in DOMAIN Listed(s)
    PROVE \E i \in 1..n : Listed(s)[k] = Displayed(s)[i]
<1> DEFINE S == Matching(s)
           R == {o \in (1..n) \X (1..n) : Before(s, o[1], o[2])}
           place == [i \in S |-> Cardinality({j \in S : Before(s, j, i)}) + 1]
<1>1. S \in SUBSET (1..n) BY DEF Matching
<1>2. k \in 1..Cardinality(S) BY DEF Listed
<1>3. \A i, j \in 1..n : <<i, j>> \in R <=> Before(s, i, j) OBVIOUS
<1>4. \A i \in S : {j \in S : Before(s, j, i)} = {j \in S : <<j, i>> \in R} BY <1>1, <1>3
<1>5. Orders(R, S)
  <2> HIDE DEF S, R
  <2> QED BY <1>1, <1>3, BeforeOrders DEF Orders
<1>6. PICK i \in S : Place(R, S, i) = k
  <2> HIDE DEF S, R, place
  <2>1. IsFiniteSet(1..n) BY FS_Interval
  <2>2. IsFiniteSet(S) BY <1>1, <2>1, FS_Subset
  <2> QED BY <1>2, <1>5, <2>2, Places
<1>7. place[i] = k BY <1>4, <1>6 DEF Place
<1>8. Listed(s)[k] = Displayed(s)[CHOOSE j \in S : place[j] = k] BY <1>2 DEF Listed
<1>9. (CHOOSE j \in S : place[j] = k) \in S BY <1>7
<1> QED BY <1>1, <1>8, <1>9

-----------------------------------------------------------------------------
(* A sound snapshot: every panel of every tab, and every graph, then shows the
   target's figures.                                                       *)

CallName == {Calls[c][1] : c \in DOMAIN Calls}

\* What the page may rely on: the numbers are numbers, no two rows have one pid, and the
\* target's row, when there is one, says what the kpis say, and comes first unless the
\* target was only just found.
Sound(s) ==
    /\ s.kpis \in [KpiName -> Nat] /\ s.sre \in [SreName -> Nat]
    /\ s.flows \in Seq(STRING) /\ s.syscalls_top \in Seq([name : CallName, count_s : Nat])
    /\ s.rows \in Seq(Process)
    /\ \A i, j \in DOMAIN s.rows : s.rows[i].pid = s.rows[j].pid => i = j
    /\ TargetRow(s) # None =>
          /\ \A m \in {"cpu_pct", "threads", "rss_bytes", "open_fds"} : TargetRow(s)[m] = s.kpis[m]
          /\ ~s.found => TargetRow(s) = s.rows[1]

\* The least of some positions.
LEMMA LeastPosition ==
    ASSUME NEW I \in SUBSET Nat, I # {}
    PROVE Min(I) \in I /\ \A j \in I : Min(I) <= j
<1> DEFINE R == {ss \in Nat \X Nat : ss[1] < ss[2]}
<1>1. IsWellFoundedOn(R, Nat) BY NatLessThanWellFounded DEF OpToRel
<1>2. PICK x \in I : \A y \in I : ~ (<<y, x>> \in R)
  <2> HIDE DEF R
  <2> QED BY <1>1, WFMin
<1>3. \A y \in I : y \in Nat /\ x \in Nat /\ ~(y < x) BY <1>2
<1>4. \A y \in I : x <= y
  <2> HIDE DEF R
  <2> QED BY <1>3
<1> QED BY <1>4 DEF Min

\* The target's row is the one with its pid.
LEMMA TargetRowIs ==
    ASSUME NEW s, s.rows \in Seq(Process)
    PROVE \/ TargetRow(s) = None /\ \A i \in DOMAIN s.rows : s.rows[i].pid # s.target.pid
          \/ \E i \in DOMAIN s.rows : TargetRow(s) = s.rows[i] /\ s.rows[i].pid = s.target.pid
<1> DEFINE I == {i \in 1..Len(s.rows) : s.rows[i].pid = s.target.pid}
<1>1. TargetRow(s) = LET i == IF I # {} THEN Min(I) ELSE 0 IN IF i = 0 THEN None ELSE s.rows[i]
  BY DEF TargetRow, SelectInSeq
<1>2. I \in SUBSET Nat /\ DOMAIN s.rows = 1..Len(s.rows) /\ 0 \notin I OBVIOUS
<1>3. CASE I = {} BY <1>1, <1>2, <1>3
<1>4. CASE I # {}
  <2>1. Min(I) \in I
    <3> HIDE DEF I
    <3> QED BY <1>2, <1>4, LeastPosition
  <2>2. Min(I) # 0 BY <1>2, <2>1
  <2> QED BY <1>1, <1>2, <1>4, <2>1, <2>2
<1> QED BY <1>3, <1>4

\* Where no row can take its place, the row that the page takes for the target's is it.
LEMMA PageTakesTarget ==
    ASSUME NEW s, s # None, Sound(s), NoDouble(s)
    PROVE TargetProcess(s) = TargetRow(s)
<1> DEFINE Meets(p) == (s.target.pid # 0 /\ p.pid = s.target.pid) \/ HasName(s.target, p)
           I == {i \in 1..Len(s.rows) : Meets(s.rows[i])}
<1>1. TargetProcess(s) = LET i == IF I # {} THEN Min(I) ELSE 0
                         IN IF i = 0 THEN None ELSE s.rows[i]
  BY DEF TargetProcess, SelectInSeq
<1>2. /\ s.rows \in Seq(Process) /\ DOMAIN s.rows = 1..Len(s.rows) /\ Len(s.rows) \in Nat
      /\ I \in SUBSET Nat /\ 0 \notin I
      /\ \A i, j \in DOMAIN s.rows : s.rows[i].pid = s.rows[j].pid => i = j
  BY DEF Sound
<1>3. \A i \in DOMAIN s.rows : s.rows[i] \in Process /\ s.rows[i].pid # 0 /\ s.rows[i] # None
  <2>1. \A i \in DOMAIN s.rows : s.rows[i] \in Process BY <1>2
  <2>2. \A p \in Process : p.pid # 0 BY DEF Process
  <2> QED BY <2>1, <2>2, HostsRunProcesses
<1>4. ASSUME TargetRow(s) # None, ~s.found PROVE TargetProcess(s) = TargetRow(s)
  <2>1. TargetRow(s) = s.rows[1] BY <1>4 DEF Sound
  <2>2. PICK i \in DOMAIN s.rows : TargetRow(s) = s.rows[i] /\ s.rows[i].pid = s.target.pid
    BY <1>2, <1>4, TargetRowIs
  <2>3. 1 \in DOMAIN s.rows BY <1>2, <2>2
  <2>4. 1 \in I BY <1>2, <1>3, <2>1, <2>2, <2>3
  <2>5. Min(I) \in I /\ Min(I) <= 1
    <3> HIDE DEF I
    <3> QED BY <1>2, <2>4, LeastPosition
  <2>6. Min(I) = 1 /\ I # {} BY <1>2, <2>4, <2>5
  <2> HIDE DEF I
  <2> QED BY <1>1, <2>1, <2>6
<1>5. ASSUME \A p \in Range(s.rows) : p = TargetRow(s) \/ ~HasName(s.target, p)
      PROVE TargetProcess(s) = TargetRow(s)
  <2>1. \A i \in DOMAIN s.rows : s.rows[i] \in Range(s.rows) BY DEF Range
  <2>2. ASSUME NEW i \in I PROVE s.rows[i] = TargetRow(s)
    <3>1. i \in DOMAIN s.rows BY <1>2
    <3>2. CASE HasName(s.target, s.rows[i]) BY <1>5, <2>1, <3>1, <3>2
    <3>3. CASE s.rows[i].pid = s.target.pid BY <1>2, <3>1, <3>3, TargetRowIs
    <3> QED BY <3>2, <3>3
  <2>3. CASE I = {}
    <3>1. \A i \in DOMAIN s.rows : s.rows[i].pid # s.target.pid BY <1>2, <1>3, <2>3
    <3>2. TargetRow(s) = None BY <1>2, <3>1, TargetRowIs
    <3> QED BY <1>1, <2>3, <3>2
  <2>4. CASE I # {}
    <3>1. Min(I) \in I
      <4> HIDE DEF I
      <4> QED BY <1>2, <2>4, LeastPosition
    <3>2. Min(I) # 0 BY <1>2, <3>1
    <3> HIDE DEF I
    <3> QED BY <1>1, <2>2, <2>4, <3>1, <3>2
  <2> QED BY <2>3, <2>4
<1> QED BY <1>4, <1>5 DEF NoDouble

\* The figures that are neither a kpi nor a number of the sre block, nor of the row.
OtherName == {"net", "disk", "pid", "fails", "syscalls_top", "flows"}

AllFaithful(S, s) == \A f \in S \ {PrintedWait} : Faithful(s, f)

\* The figures that are read from the kpis and from the sre block.
LEMMA KpiFigures ==
    ASSUME NEW s, s # None, Sound(s), NEW m \in KpiName
    PROVE /\ s.kpis[m] \in Nat /\ Kpi(s, m) = s.kpis[m] /\ Truth(s, m) = s.kpis[m]
          /\ Faithful(s, <<m, Or(Kpi(s, m), 0)>>) /\ Faithful(s, <<m, Or(Kpi(s, m), MadeUp)>>)
          /\ Faithful(s, <<m, OrNull(Kpi(s, m), 0)>>)
<1>1. s.kpis[m] \in Nat /\ Kpi(s, m) = s.kpis[m] BY DEF Sound, Kpi
<1>2. Truth(s, m) = s.kpis[m]
  <2>1. m \in DOMAIN s.kpis /\ m \notin DOMAIN s.sre BY DEF Sound, KpiName, SreName
  <2>2. m \notin OtherName BY DEF KpiName, OtherName
  <2> QED BY <2>1, <2>2 DEF Truth, OtherName
<1> QED BY <1>1, <1>2 DEF Faithful, Metric, Or, OrNull, MadeUp, Absent

\* The figures of the sre block say what it says.
LEMMA SreFigures ==
    ASSUME NEW s, s # None, Sound(s), NEW m \in SreName
    PROVE Faithful(s, <<m, OrNull(Sre(s, m), MadeUp)>>)
<1>1. s.sre[m] \in Nat /\ Sre(s, m) = s.sre[m] BY DEF Sound, Sre
<1>2. Truth(s, m) = s.sre[m]
  <2>1. m \notin DOMAIN s.kpis /\ m \in DOMAIN s.sre BY DEF Sound, KpiName, SreName
  <2>2. m \notin OtherName BY DEF SreName, OtherName
  <2> QED BY <2>1, <2>2 DEF Truth, OtherName
<1> QED BY <1>1, <1>2 DEF Faithful, Metric, OrNull, MadeUp, Absent

\* What the page prints without reading is under a name of its own.
Printed == {"slo met", "headroom", "flame", "page cache", "page faults", "socket drops",
            "radar", "denials", "context switches", "fork latency", "rtt", "graph"}

LEMMA FixedFigures == ASSUME NEW s, NEW m \in Printed PROVE Faithful(s, <<m, Fixed>>)
BY DEF Faithful, Metric, KpiName, SreName, Printed

\* The other numbers of a snapshot.
LEMMA OtherTruths ==
    ASSUME NEW s, s # None, Sound(s)
    PROVE /\ Truth(s, "net") = s.kpis["net_bps_tx"] + s.kpis["net_bps_rx"]
          /\ Truth(s, "disk") = s.kpis["disk_bps_r"] + s.kpis["disk_bps_w"]
          /\ Truth(s, "pid") = s.target.pid
          /\ Truth(s, "fails") = IF s.kpis["err_syscalls_per_sec"] > 0 THEN 1 ELSE 0
          /\ Truth(s, "syscalls_top")
                = Total([i \in DOMAIN s.syscalls_top |-> s.syscalls_top[i].count_s])
          /\ Truth(s, "flows") = Len(s.flows)
          /\ \A m \in {"ppid", "vms_bytes", "ctx_switches"} : Truth(s, m) = Row(TargetRow(s), m)
<1>1. DOMAIN s.kpis = KpiName /\ DOMAIN s.sre = SreName BY DEF Sound
<1>2. \A m \in {"net", "disk", "pid", "fails", "syscalls_top", "flows", "ppid", "vms_bytes",
                "ctx_switches"} : m \notin DOMAIN s.kpis /\ m \notin DOMAIN s.sre
  BY <1>1 DEF KpiName, SreName
<1>3. Truth(s, "net") = s.kpis["net_bps_tx"] + s.kpis["net_bps_rx"] BY <1>2 DEF Truth
<1>4. Truth(s, "disk") = s.kpis["disk_bps_r"] + s.kpis["disk_bps_w"] BY <1>2 DEF Truth
<1>5. Truth(s, "pid") = s.target.pid BY <1>2 DEF Truth
<1>6. Truth(s, "fails") = IF s.kpis["err_syscalls_per_sec"] > 0 THEN 1 ELSE 0 BY <1>2 DEF Truth
<1>7. Truth(s, "syscalls_top") = Total([i \in DOMAIN s.syscalls_top |-> s.syscalls_top[i].count_s])
  BY <1>2 DEF Truth
<1>8. Truth(s, "flows") = Len(s.flows) BY <1>2 DEF Truth
<1>9. \A m \in {"ppid", "vms_bytes", "ctx_switches"} : Truth(s, m) = Row(TargetRow(s), m)
  BY <1>2 DEF Truth
<1> QED BY <1>3, <1>4, <1>5, <1>6, <1>7, <1>8, <1>9

\* The traffic and the disk figure of the banner are the sums of their two kpis.
LEMMA SumFigures ==
    ASSUME NEW s, s # None, Sound(s)
    PROVE Faithful(s, <<"net", NetBps(s)>>) /\ Faithful(s, <<"disk", DiskBps(s)>>)
<1>1. \A m \in KpiName : s.kpis[m] \in Nat /\ Kpi(s, m) = s.kpis[m] BY DEF Sound, Kpi
<1>2. {"net_bps_tx", "net_bps_rx", "disk_bps_r", "disk_bps_w"} \subseteq KpiName BY DEF KpiName
<1>3. NetBps(s) = Truth(s, "net") /\ DiskBps(s) = Truth(s, "disk")
  <2>1. NetBps(s) = s.kpis["net_bps_tx"] + s.kpis["net_bps_rx"]
    BY <1>1, <1>2 DEF NetBps, Or, Absent
  <2>2. DiskBps(s) = s.kpis["disk_bps_r"] + s.kpis["disk_bps_w"]
    BY <1>1, <1>2 DEF DiskBps, Or, Absent
  <2> QED BY <2>1, <2>2, OtherTruths
<1> QED BY <1>3 DEF Faithful, Metric

\* The figures that are read from the target's row, with the kpis to fall back on.
LEMMA RowFigures ==
    ASSUME NEW s, s # None, Sound(s), NEW p, p = TargetRow(s)
    PROVE /\ Faithful(s, <<"pid", Or(Or(Row(p, "pid"), s.target.pid), 0)>>)
          /\ Faithful(s, <<"ppid", Or(Row(p, "ppid"), MadeUp)>>)
          /\ Faithful(s, <<"ppid", OrNull(Row(p, "ppid"), MadeUp)>>)
          /\ Faithful(s, <<"threads", Or(Or(Row(p, "threads"), Kpi(s, "threads")), MadeUp)>>)
          /\ Faithful(s, <<"threads", OrNull(OrNull(Row(p, "threads"), Kpi(s, "threads")), MadeUp)>>)
          /\ Faithful(s, <<"rss_bytes", Or(Or(Row(p, "rss_bytes"), Kpi(s, "rss_bytes")), 0)>>)
          /\ Faithful(s, <<"rss_bytes", Or(Or(Kpi(s, "rss_bytes"), Row(p, "rss_bytes")), 0)>>)
          /\ Faithful(s, <<"vms_bytes", Or(Row(p, "vms_bytes"),
                                         IF Or(Kpi(s, "rss_bytes"), 0) = 0 THEN 0 ELSE MadeUp)>>)
          /\ Faithful(s, <<"ctx_switches", OrNull(Row(p, "ctx_switches"), MadeUp)>>)
          /\ Faithful(s, <<"open_fds", Or(Or(Row(p, "open_fds"), Kpi(s, "open_fds")), MadeUp)>>)
          /\ Faithful(s, <<"open_fds", OrNull(OrNull(Row(p, "open_fds"), Kpi(s, "open_fds")), 0)>>)
          /\ Faithful(s, <<"cpu_pct", OrNull(OrNull(Kpi(s, "cpu_pct"), Row(p, "cpu_pct")), 0)>>)
<1> USE DEF Or, OrNull, Row, MadeUp, Absent
<1> DEFINE M == {"pid", "ppid", "threads", "rss_bytes", "vms_bytes", "ctx_switches", "open_fds",
                 "cpu_pct"}
<1>1. \A m \in M : \A x : Faithful(s, <<m, x>>)
         <=> x = Truth(s, m) \/ (Truth(s, m) \in {0, Absent} /\ x \in {0, MadeUp})
  <2>1. M \subseteq Metric BY DEF Metric, KpiName
  <2> HIDE DEF M
  <2> QED BY <2>1 DEF Faithful
<1>2. \A m \in {"cpu_pct", "threads", "rss_bytes", "open_fds"} :
          s.kpis[m] \in Nat /\ Kpi(s, m) = s.kpis[m] /\ Truth(s, m) = s.kpis[m]
  BY KpiFigures DEF KpiName
<1>3. CASE p = None
  BY <1>1, <1>2, <1>3, OtherTruths
<1>4. CASE p # None
  <2>1. p \in Process /\ p.pid = s.target.pid BY <1>4, TargetRowIs DEF Sound
  <2>2. p.pid \in Nat /\ p.ppid \in Nat /\ p.vms_bytes \in Nat /\ p.ctx_switches \in Nat
    BY <2>1 DEF Process
  <2>3. \A m \in {"cpu_pct", "threads", "rss_bytes", "open_fds"} : p[m] = s.kpis[m]
    BY <1>4 DEF Sound
  <2>4. Truth(s, "pid") = p.pid BY <2>1, OtherTruths
  <2>5. \A m \in {"ppid", "vms_bytes", "ctx_switches"} : Truth(s, m) = p[m] /\ p[m] \in Nat
    BY <1>4, <2>2, OtherTruths
  <2>6. \A m \in M : Row(p, m) = p[m] BY <1>4
  <2>7. \A m \in M : Truth(s, m) = p[m] /\ p[m] \in Nat BY <1>2, <2>2, <2>3, <2>4, <2>5
  <2> HIDE DEF Row
  <2> QED BY <1>1, <1>2, <2>1, <2>3, <2>6, <2>7
<1> QED BY <1>3, <1>4

\* The members of a sequence.
LEMMA Element == ASSUME NEW S, NEW q \in Seq(S), NEW i \in 1..Len(q) PROVE q[i] \in S
OBVIOUS

\* Every system call is of one category, so the sums per category make the whole.
LEMMA SyscallFigures == ASSUME NEW s, s # None, Sound(s) PROVE AllFaithful(AdvancedSyscalls(s), s)
<1> DEFINE calls == s.syscalls_top
           n == Len(calls)
           cat(i) == SyscallCategory(calls[i].name)
           part(c) == [i \in 1..n |-> IF cat(i) = c THEN calls[i].count_s ELSE 0]
           parts(C) == [i \in 1..n |-> IF cat(i) \in C THEN calls[i].count_s ELSE 0]
           all == [i \in 1..n |-> calls[i].count_s]
           bucket == {<<i, cat(i)>> : i \in DOMAIN calls}
           sum == Total(part("io")) + Total(part("sync")) + Total(part("net"))
                  + Total(part("proc")) + Total(part("mem"))
<1>1. /\ DOMAIN calls = 1..n /\ n \in Nat
      /\ \A i \in 1..n : calls[i].count_s \in Nat
  <2>1. calls \in Seq([name : CallName, count_s : Nat]) BY DEF Sound
  <2>2. DOMAIN calls = 1..n /\ n \in Nat BY <2>1
  <2>3. \A i \in 1..n : calls[i] \in [name : CallName, count_s : Nat] BY <2>1, Element
  <2> HIDE DEF calls, n
  <2> QED BY <2>2, <2>3
<1>2. \A i \in 1..n : cat(i) \in {"io", "sync", "net", "mem", "proc"} BY DEF SyscallCategory
<1>3. \A c : part(c) \in [1..n -> Int] BY <1>1
<1>4. \A C : parts(C) \in [1..n -> Int] BY <1>1
<1>5. ASSUME NEW C, NEW c, c \notin C
      PROVE Total(parts(C \cup {c})) = Total(parts(C)) + Total(part(c))
  <2>1. parts(C \cup {c}) = [i \in 1..n |-> parts(C)[i] + part(c)[i]] BY <1>1, <1>5
  <2>2. parts(C) \in [1..n -> Int] /\ part(c) \in [1..n -> Int] BY <1>3, <1>4
  <2>3. PICK f, g : f = parts(C) /\ g = part(c) OBVIOUS
  <2> HIDE DEF parts, part, n
  <2>4. f \in [1..n -> Int] /\ g \in [1..n -> Int] /\ n \in Nat BY <1>1, <2>2, <2>3
  <2>5. Total([i \in 1..n |-> f[i] + g[i]]) = Total(f) + Total(g) BY <2>4, TotalAdds
  <2> QED BY <2>1, <2>3, <2>5
<1>6. parts({"io"}) = part("io") BY SMT
<1>7. parts({"io", "sync", "net", "proc", "mem"}) = all BY <1>2
<1>8. Total(all) = sum
  <2> HIDE DEF parts, part, all
  <2>1. Total(parts({"io", "sync"})) = Total(parts({"io"})) + Total(part("sync"))
    <3>1. {"io", "sync"} = {"io"} \cup {"sync"} /\ "sync" \notin {"io"} OBVIOUS
    <3> QED BY <1>5, <3>1
  <2>2. Total(parts({"io", "sync", "net"})) = Total(parts({"io", "sync"})) + Total(part("net"))
    <3>1. {"io", "sync", "net"} = {"io", "sync"} \cup {"net"} /\ "net" \notin {"io", "sync"}
      OBVIOUS
    <3> QED BY <1>5, <3>1
  <2>3. Total(parts({"io", "sync", "net", "proc"}))
           = Total(parts({"io", "sync", "net"})) + Total(part("proc"))
    <3>1. /\ {"io", "sync", "net", "proc"} = {"io", "sync", "net"} \cup {"proc"}
          /\ "proc" \notin {"io", "sync", "net"}
      OBVIOUS
    <3> QED BY <1>5, <3>1
  <2>4. Total(parts({"io", "sync", "net", "proc", "mem"}))
           = Total(parts({"io", "sync", "net", "proc"})) + Total(part("mem"))
    <3>1. /\ {"io", "sync", "net", "proc", "mem"} = {"io", "sync", "net", "proc"} \cup {"mem"}
          /\ "mem" \notin {"io", "sync", "net", "proc"}
      OBVIOUS
    <3> QED BY <1>5, <3>1
  <2> QED BY <1>6, <1>7, <2>1, <2>2, <2>3, <2>4
<1>9. AdvancedSyscalls(s) = {<<"syscalls_top", IF sum = 0 THEN MadeUp ELSE sum>>}
  <2> DEFINE count(c) == [i \in DOMAIN calls |-> IF <<i, c>> \in bucket
                                                 THEN calls[i].count_s ELSE 0]
             all_counts == Total(count("io")) + Total(count("sync")) + Total(count("net"))
                           + Total(count("proc")) + Total(count("mem"))
  <2>1. \A c : \A i \in 1..n : <<i, c>> \in bucket <=> cat(i) = c
    <3> HIDE DEF cat
    <3> QED BY <1>1
  <2>2. \A c : count(c) = part(c)
    <3> HIDE DEF bucket, cat
    <3> QED BY <1>1, <2>1
  <2>3. AdvancedSyscalls(s)
           = {<<"syscalls_top", IF all_counts = 0 THEN MadeUp ELSE all_counts>>}
    BY DEF AdvancedSyscalls
  <2> HIDE DEF count, part
  <2> QED BY <2>2, <2>3
<1>10. Truth(s, "syscalls_top") = sum
  <2>1. Truth(s, "syscalls_top") = Total(all) BY <1>1, OtherTruths
  <2> QED BY <1>8, <2>1
<1> HIDE DEF sum
<1> QED BY <1>9, <1>10 DEF AllFaithful, Faithful, Metric

\* Every socket is in one state, so the states hold them all.
LEMMA SocketFigures == ASSUME NEW s, s # None, Sound(s) PROVE AllFaithful(AdvancedTcp(s), s)
<1> DEFINE flows == s.flows
           n == Len(flows)
           In(state) == {i \in 1..n : TcpState(flows[i]) = state}
           sum == Cardinality(In("Established")) + Cardinality(In("Close Wait"))
                  + Cardinality(In("Time Wait")) + Cardinality(In("Listen"))
<1>1. DOMAIN flows = 1..n /\ n \in Nat BY DEF Sound
<1>2. IsFiniteSet(1..n) /\ Cardinality(1..n) = n BY <1>1, FS_Interval
<1>3. ASSUME NEW S \in SUBSET (1..n) PROVE IsFiniteSet(S) /\ Cardinality(S) \in Nat
  BY <1>2, <1>3, FS_Subset, FS_CardinalityType
<1>4. ASSUME NEW S \in SUBSET (1..n), NEW W \in SUBSET (1..n), S \cap W = {}
      PROVE Cardinality(S \cup W) = Cardinality(S) + Cardinality(W)
  <2>1. Cardinality(S \cup W) = Cardinality(S) + Cardinality(W) - Cardinality(S \cap W)
    BY <1>3, FS_Union
  <2>2. Cardinality(S \cap W) = 0 BY <1>4, FS_EmptySet
  <2> QED BY <1>3, <2>1, <2>2
<1> DEFINE e == In("Established")
           c == In("Close Wait")
           t == In("Time Wait")
           l == In("Listen")
<1>5. e \in SUBSET (1..n) /\ c \in SUBSET (1..n) /\ t \in SUBSET (1..n) /\ l \in SUBSET (1..n)
  OBVIOUS
<1>6. e \cap c = {} /\ (e \cup c) \cap t = {} /\ (e \cup c \cup t) \cap l = {} OBVIOUS
<1>7. e \cup c \cup t \cup l = 1..n BY DEF TcpState
<1>8. n = sum
  <2> HIDE DEF In
  <2>1. Cardinality(e \cup c) = Cardinality(e) + Cardinality(c) BY <1>4, <1>5, <1>6
  <2>2. Cardinality(e \cup c \cup t) = Cardinality(e \cup c) + Cardinality(t)
    BY <1>4, <1>5, <1>6
  <2>3. Cardinality(e \cup c \cup t \cup l) = Cardinality(e \cup c \cup t) + Cardinality(l)
    BY <1>4, <1>5, <1>6
  <2> QED BY <1>2, <1>7, <2>1, <2>2, <2>3
<1>9. AdvancedTcp(s) = {<<"flows", IF sum = 0 THEN MadeUp ELSE sum>>}
  BY <1>1 DEF AdvancedTcp
<1>10. Truth(s, "flows") = sum BY <1>8, OtherTruths
<1> HIDE DEF sum
<1> QED BY <1>9, <1>10 DEF AllFaithful, Faithful, Metric

\* The panels of the five tabs, and the graphs.
LEMMA StoryFigures ==
    ASSUME NEW s, s # None, Sound(s)
    PROVE AllFaithful(StoryBanner(s, TargetRow(s)) \cup StoryRibbon(s, TargetRow(s)), s)
<1> DEFINE p == TargetRow(s)
<1>1. AllFaithful(StoryBanner(s, p), s)
  <2>1. Faithful(s, <<"pid", Or(Or(Row(p, "pid"), s.target.pid), 0)>>) BY RowFigures
  <2>2. Faithful(s, <<"ppid", OrNull(Row(p, "ppid"), MadeUp)>>) BY RowFigures
  <2> HIDE DEF p
  <2> QED BY <2>1, <2>2 DEF StoryBanner, AllFaithful
<1>2. AllFaithful(StoryRibbon(s, p), s)
  <2>1. Faithful(s, <<"cpu_pct", OrNull(OrNull(Kpi(s, "cpu_pct"), Row(p, "cpu_pct")), 0)>>)
    BY RowFigures
  <2>2. Faithful(s, <<"rss_bytes", Or(Or(Kpi(s, "rss_bytes"), Row(p, "rss_bytes")), 0)>>)
    BY RowFigures
  <2>3. Faithful(s, <<"threads", OrNull(OrNull(Row(p, "threads"), Kpi(s, "threads")), MadeUp)>>)
    BY RowFigures
  <2>4. Faithful(s, <<"open_fds", OrNull(OrNull(Row(p, "open_fds"), Kpi(s, "open_fds")), 0)>>)
    BY RowFigures
  <2> HIDE DEF p
  <2> QED BY <2>1, <2>2, <2>3, <2>4, SumFigures DEF StoryRibbon, AllFaithful
<1> QED BY <1>1, <1>2 DEF AllFaithful

\* The panels of the Basic tab.
LEMMA BasicFigures ==
    ASSUME NEW s, s # None, Sound(s)
    PROVE AllFaithful(BasicBanner(s) \cup BasicSignals(s) \cup BasicWaves(s)
                  \cup BasicSpotlight(s, TargetRow(s)), s)
<1> DEFINE p == TargetRow(s)
<1>1. AllFaithful(BasicBanner(s), s)
  <2>1. Faithful(s, <<"pid", s.target.pid>>) BY OtherTruths DEF Faithful, Metric
  <2>2. \A m \in {"error_budget_pct", "burn_rate"} : Faithful(s, <<m, OrNull(Sre(s, m), MadeUp)>>)
    BY SreFigures DEF SreName
  <2> QED BY <2>1, <2>2, FixedFigures DEF BasicBanner, AllFaithful, Printed
<1>2. AllFaithful(BasicSignals(s), s)
  <2>1. \A m \in {"latency_p50_us", "latency_p90_us", "latency_p99_us", "slo_availability",
                  "runqueue_latency_us"} : Faithful(s, <<m, OrNull(Sre(s, m), MadeUp)>>)
    BY SreFigures DEF SreName
  <2>2. \A m \in {"syscalls_per_sec", "err_syscalls_per_sec", "cpu_pct", "open_fds"} :
            Faithful(s, <<m, Or(Kpi(s, m), 0)>>)
    BY KpiFigures DEF KpiName
  <2>3. Faithful(s, <<"headroom", Fixed>>) BY FixedFigures DEF Printed
  <2> QED BY <2>1, <2>2, <2>3, SumFigures DEF BasicSignals, AllFaithful
<1>3. AllFaithful(BasicWaves(s), s)
  <2>1. Faithful(s, <<"syscalls_per_sec", Or(Kpi(s, "syscalls_per_sec"), MadeUp)>>)
    BY KpiFigures DEF KpiName
  <2>2. Faithful(s, <<"latency_p99_us", OrNull(Sre(s, "latency_p99_us"), MadeUp)>>)
    BY SreFigures DEF SreName
  <2> QED BY <2>1, <2>2 DEF BasicWaves, AllFaithful
<1>4. AllFaithful(BasicSpotlight(s, p), s)
  <2>1. Faithful(s, <<"pid", Or(Or(Row(p, "pid"), s.target.pid), 0)>>) BY RowFigures
  <2>2. Faithful(s, <<"ppid", Or(Row(p, "ppid"), MadeUp)>>) BY RowFigures
  <2>3. Faithful(s, <<"threads", Or(Or(Row(p, "threads"), Kpi(s, "threads")), MadeUp)>>)
    BY RowFigures
  <2>4. Faithful(s, <<"rss_bytes", Or(Or(Row(p, "rss_bytes"), Kpi(s, "rss_bytes")), 0)>>)
    BY RowFigures
  <2>5. Faithful(s, <<"vms_bytes", Or(Row(p, "vms_bytes"),
                                    IF Or(Kpi(s, "rss_bytes"), 0) = 0 THEN 0 ELSE MadeUp)>>)
    BY RowFigures
  <2>6. Faithful(s, <<"ctx_switches", OrNull(Row(p, "ctx_switches"), MadeUp)>>) BY RowFigures
  <2>7. Faithful(s, <<"open_fds", Or(Or(Row(p, "open_fds"), Kpi(s, "open_fds")), MadeUp)>>)
    BY RowFigures
  <2> HIDE DEF p
  <2> QED BY <2>1, <2>2, <2>3, <2>4, <2>5, <2>6, <2>7 DEF BasicSpotlight, AllFaithful
<1> QED BY <1>1, <1>2, <1>3, <1>4 DEF AllFaithful

\* Those of the Medium tab.
LEMMA MediumFigures ==
    ASSUME NEW s, s # None, Sound(s) PROVE AllFaithful(MediumTiles(s) \cup MediumFlame, s)
<1>1. Faithful(s, <<"cpu_pct", OrNull(Kpi(s, "cpu_pct"), 0)>>) BY KpiFigures DEF KpiName
<1>2. \A m \in {"threads", "rss_bytes", "open_fds", "syscalls_per_sec", "err_syscalls_per_sec"} :
          Faithful(s, <<m, Or(Kpi(s, m), 0)>>)
  BY KpiFigures DEF KpiName
<1>3. AllFaithful(MediumTiles(s), s) BY <1>1, <1>2, SumFigures DEF MediumTiles, AllFaithful
<1>4. AllFaithful(MediumFlame, s) BY FixedFigures DEF MediumFlame, AllFaithful, Printed
<1> QED BY <1>3, <1>4 DEF AllFaithful

\* Those of the Advanced tab, the sums among them.
LEMMA AdvancedFigures ==
    ASSUME NEW s, s # None, Sound(s)
    PROVE AllFaithful(AdvancedSyscalls(s) \cup AdvancedMemory(s) \cup AdvancedTcp(s)
                  \cup AdvancedConcurrency(s) \cup AdvancedDiagnosis, s)
<1>1. \A m \in {"rss_bytes", "threads"} : Faithful(s, <<m, Or(Kpi(s, m), MadeUp)>>)
  BY KpiFigures DEF KpiName
<1>2. AllFaithful(AdvancedMemory(s), s) BY <1>1, FixedFigures DEF AdvancedMemory, AllFaithful, Printed
<1>3. AllFaithful(AdvancedConcurrency(s), s) BY <1>1 DEF AdvancedConcurrency, AllFaithful
<1>4. AllFaithful(AdvancedDiagnosis, s) BY FixedFigures DEF AdvancedDiagnosis, AllFaithful, PrintedWait, Printed
<1> QED BY <1>2, <1>3, <1>4, SyscallFigures, SocketFigures DEF AllFaithful

\* Those of the Complete Picture tab.
LEMMA CompleteFigures ==
    ASSUME NEW s, s # None, Sound(s)
    PROVE AllFaithful(CompleteRadar \cup CompleteDenials(s) \cup CompleteRoles(s), s)
<1>1. Faithful(s, <<"fails", IF Or(Kpi(s, "err_syscalls_per_sec"), 0) = 0 THEN 0 ELSE 1>>)
  <2>1. /\ s.kpis["err_syscalls_per_sec"] \in Nat
        /\ Kpi(s, "err_syscalls_per_sec") = s.kpis["err_syscalls_per_sec"]
    BY KpiFigures DEF KpiName
  <2>2. (IF Or(Kpi(s, "err_syscalls_per_sec"), 0) = 0 THEN 0 ELSE 1)
           = IF s.kpis["err_syscalls_per_sec"] > 0 THEN 1 ELSE 0
    BY <2>1 DEF Or, Absent
  <2> QED BY <2>2, OtherTruths DEF Faithful, Metric
<1>2. \A m \in {"syscalls_per_sec", "threads", "rss_bytes", "open_fds", "disk_bps_w"} :
          Faithful(s, <<m, Or(Kpi(s, m), MadeUp)>>)
  BY KpiFigures DEF KpiName
<1>3. AllFaithful(CompleteDenials(s), s) BY <1>1, FixedFigures DEF CompleteDenials, AllFaithful, Printed
<1>4. AllFaithful(CompleteRoles(s), s) BY <1>2, FixedFigures DEF CompleteRoles, AllFaithful, Printed
<1>5. AllFaithful(CompleteRadar, s) BY FixedFigures DEF CompleteRadar, AllFaithful, Printed
<1> QED BY <1>3, <1>4, <1>5 DEF AllFaithful

\* And the graphs of the scratchpad.
LEMMA GraphFigures ==
    ASSUME NEW s, s # None, Sound(s), NEW preset PROVE AllFaithful(GraphData(preset, s), s)
<1>1. \A m \in {"latency_p50_us", "latency_p90_us", "latency_p99_us", "runqueue_latency_us"} :
          Faithful(s, <<m, OrNull(Sre(s, m), MadeUp)>>)
  BY SreFigures DEF SreName
<1>2. \A m \in {"threads", "rss_bytes"} : Faithful(s, <<m, Or(Kpi(s, m), MadeUp)>>)
  BY KpiFigures DEF KpiName
<1>3. CASE preset = "quantile_curve" BY <1>1, <1>3 DEF GraphData, AllFaithful
<1>4. CASE preset = "runqueue_switches" BY <1>1, <1>2, <1>4 DEF GraphData, AllFaithful
<1>5. CASE preset = "thread_mem" BY <1>2, <1>5 DEF GraphData, AllFaithful
<1>6. CASE preset \notin {"quantile_curve", "runqueue_switches", "thread_mem"}
  <2>1. GraphData(preset, s) = {<<"graph", Fixed>>} BY <1>6 DEF GraphData
  <2> QED BY <2>1, FixedFigures DEF AllFaithful, Printed
<1> QED BY <1>3, <1>4, <1>5, <1>6

\* What the page shows of a sound snapshot is true.
LEMMA SoundIsShown ==
    ASSUME snapshot # None => Sound(snapshot)
    PROVE MeasuredShown
<1> SUFFICES ASSUME snapshot # None, NoDouble(snapshot)
             PROVE /\ AllFaithful(ShownFigures(snapshot), snapshot)
                   /\ TargetProcess(snapshot) = TargetRow(snapshot)
  BY DEF MeasuredShown, AllFaithful
<1>1. PICK s : s = snapshot OBVIOUS
<1>2. s # None /\ Sound(s) /\ NoDouble(s) BY <1>1
<1>3. TargetProcess(s) = TargetRow(s) BY <1>2, PageTakesTarget
<1>4. \A tab \in Tab : AllFaithful(Figures(tab, s), s)
  <2> TAKE tab \in Tab
  <2>1. CASE tab = "story" BY <1>2, <1>3, <2>1, StoryFigures DEF Figures
  <2>2. CASE tab = "basic" BY <1>2, <1>3, <2>2, BasicFigures DEF Figures
  <2>3. CASE tab = "medium" BY <1>2, <2>3, MediumFigures DEF Figures
  <2>4. CASE tab = "advanced" BY <1>2, <2>4, AdvancedFigures DEF Figures
  <2>5. CASE tab = "complete" BY <1>2, <2>5, CompleteFigures DEF Figures
  <2> QED BY <2>1, <2>2, <2>3, <2>4, <2>5 DEF Tab
<1>5. \A g \in scratchGraphs : AllFaithful(GraphData(g.preset, s), s) BY <1>2, GraphFigures
<1>6. AllFaithful(ShownFigures(s), s)
  <2> SUFFICES ASSUME NEW f \in ShownFigures(s), f # PrintedWait PROVE Faithful(s, f)
    BY DEF AllFaithful
  <2>1. CASE \E tab \in Tab : f \in Figures(tab, s) BY <1>4, <2>1 DEF AllFaithful
  <2>2. CASE \E g \in scratchGraphs : f \in GraphData(g.preset, s) BY <1>5, <2>2 DEF AllFaithful
  <2> QED BY <2>1, <2>2 DEF ShownFigures
<1> QED BY <1>1, <1>3, <1>6

-----------------------------------------------------------------------------
(* The engine collects nothing else, for any host.                          *)

\* A host's processes: so many, each with a pid of its own.
LEMMA HostIs ==
    ASSUME NEW w \in World
    PROVE /\ Len(w) \in Nat /\ DOMAIN w = 1..Len(w) /\ \A i \in DOMAIN w : w[i] \in Process
          /\ \A i, j \in DOMAIN w : w[i].pid = w[j].pid => i = j
          /\ IsFiniteSet(ToSet(w))
<1>1. w \in Seq(Process) BY HostsRunProcesses
<1>2. Len(w) \in Nat /\ DOMAIN w = 1..Len(w) BY <1>1
<1>3. \A i \in DOMAIN w : w[i] \in Process BY <1>1, <1>2, Element
<1>4. w \in Surjection(1..Len(w), ToSet(w))
  <2>1. w = [i \in 1..Len(w) |-> w[i]] BY <1>1
  <2>2. \A i \in 1..Len(w) : w[i] \in ToSet(w) BY <1>2 DEF ToSet
  <2>3. w \in [1..Len(w) -> ToSet(w)] BY <2>1, <2>2
  <2>4. \A p \in ToSet(w) : \E i \in 1..Len(w) : w[i] = p BY <1>2 DEF ToSet
  <2> QED BY <2>3, <2>4 DEF Surjection
<1>5. IsFiniteSet(1..Len(w)) BY <1>2, FS_Interval
<1> QED BY <1>2, <1>3, <1>4, <1>5, FS_Surjection, HostsRunProcesses

\* The rows of a snapshot: processes of the host, each once.
LEMMA RowsAre ==
    ASSUME NEW t, NEW w \in World, NEW rows \in Sorted(t, w)
    PROVE /\ rows \in Seq(Process)
          /\ \A i \in DOMAIN rows : \E a \in DOMAIN w : rows[i] = w[a]
          /\ \A i, j \in DOMAIN rows : rows[i].pid = rows[j].pid => i = j
<1> DEFINE shown == Rows(t, w)
           c == Cardinality(shown)
<1>1. shown \subseteq ToSet(w) BY DEF Rows
<1>2. IsFiniteSet(shown) /\ c \in Nat BY <1>1, HostIs, FS_Subset, FS_CardinalityType
<1>3. rows \in [1..c -> shown] /\ Range(rows) = shown BY DEF Sorted
<1> HIDE DEF shown, c
<1>4. \A p \in shown : \E a \in DOMAIN w : p = w[a] BY <1>1 DEF ToSet
<1>5. shown \subseteq Process BY <1>4, HostIs
<1>6. rows \in Seq(Process) /\ DOMAIN rows = 1..c BY <1>2, <1>3, <1>5
<1>7. \A i \in DOMAIN rows : \E a \in DOMAIN w : rows[i] = w[a] BY <1>3, <1>4
<1>8. rows \in Surjection(1..c, shown)
  <2>1. \A p \in shown : \E i \in 1..c : rows[i] = p BY <1>3 DEF Range
  <2> QED BY <1>3, <2>1 DEF Surjection
<1>9. IsFiniteSet(1..c) /\ Cardinality(1..c) = c BY <1>2, FS_Interval
<1>10. \A i, j \in 1..c : rows[i] = rows[j] => i = j
  <2>1. Cardinality(1..c) = Cardinality(shown) BY <1>9 DEF c
  <2>2. rows \in Injection(1..c, shown) BY <1>8, <1>9, <2>1, FS_SurjSameCardinalityImpliesInj
  <2> QED BY <1>3, <2>2 DEF Injection, IsInjective
<1>11. ASSUME NEW i \in DOMAIN rows, NEW j \in DOMAIN rows, rows[i].pid = rows[j].pid PROVE i = j
  <2>1. PICK a \in DOMAIN w : rows[i] = w[a] BY <1>7
  <2>2. PICK b \in DOMAIN w : rows[j] = w[b] BY <1>7
  <2>3. a = b BY <1>11, <2>1, <2>2, HostIs
  <2> QED BY <1>6, <1>10, <2>1, <2>2, <2>3
<1> QED BY <1>6, <1>7, <1>11

\* The position of the process that has a pid.
LEMMA PositionOf ==
    ASSUME NEW w \in World, NEW pid
    PROVE LET i == SelectInSeq(w, LAMBDA p : p.pid = pid)
          IN \/ i = 0 /\ \A a \in DOMAIN w : w[a].pid # pid
             \/ i # 0 /\ i \in DOMAIN w /\ w[i].pid = pid
<1> DEFINE I == {i \in 1..Len(w) : w[i].pid = pid}
<1>1. SelectInSeq(w, LAMBDA p : p.pid = pid) = IF I # {} THEN Min(I) ELSE 0 BY DEF SelectInSeq
<1>2. I \in SUBSET Nat /\ DOMAIN w = 1..Len(w) /\ 0 \notin I BY HostIs
<1>3. CASE I = {} BY <1>1, <1>2, <1>3
<1>4. CASE I # {}
  <2>1. Min(I) \in I
    <3> HIDE DEF I
    <3> QED BY <1>2, <1>4, LeastPosition
  <2> QED BY <1>1, <1>2, <1>4, <2>1
<1> QED BY <1>3, <1>4

\* A function on the first numbers is a sequence.
LEMMA FunctionIsSequence ==
    ASSUME NEW n \in Nat, NEW S, NEW q \in [1..n -> S] PROVE q \in Seq(S)
OBVIOUS

\* The calls and their shares.
LEMMA CallsAre == DOMAIN Calls = 1..10 /\ \A c \in 1..10 : Calls[c][2] \in Nat
<1>1. DOMAIN Calls = 1..10 BY DEF Calls
<1>2. Calls[1][2] = 320 BY DEF Calls
<1>3. Calls[2][2] = 240 BY DEF Calls
<1>4. Calls[3][2] = 160 BY DEF Calls
<1>5. Calls[4][2] = 110 BY DEF Calls
<1>6. Calls[5][2] = 50 BY DEF Calls
<1>7. Calls[6][2] = 40 BY DEF Calls
<1>8. Calls[7][2] = 30 BY DEF Calls
<1>9. Calls[8][2] = 20 BY DEF Calls
<1>10. Calls[9][2] = 15 BY DEF Calls
<1>11. Calls[10][2] = 15 BY DEF Calls
<1>12. \A c \in 1..10 : c \in {1, 2, 3, 4, 5, 6, 7, 8, 9, 10} OBVIOUS
<1> QED BY <1>1, <1>2, <1>3, <1>4, <1>5, <1>6, <1>7, <1>8, <1>9, <1>10, <1>11, <1>12

\* Every snapshot that the engine makes is sound, whatever its target is.
LEMMA CollectedIsSound ==
    ASSUME NEW t, NEW w \in World, NEW net \in HostNet, NEW rows \in Sorted(t, w)
    PROVE Sound(Collected(t, w, net, rows))
<1> DEFINE s == Collected(t, w, net, rows)
           now == Resolve(t, w)
           i == SelectInSeq(w, LAMBDA p : p.pid = now.pid)
           Of(m) == IF i # 0 THEN w[i][m] ELSE IF m = "threads" THEN 1 ELSE 0
           calls == IF i # 0 /\ w[i].ioReadable THEN 14 ELSE 0
           Share(c) == IF calls * c[2] < 100 THEN 500 ELSE calls * c[2]
           read == IF i = 0 THEN 142 ELSE w[i].wait
           wait == IF read < 10 THEN 110 ELSE IF read > 9999 THEN 850 ELSE read
           own == IF i = 0 THEN <<>> ELSE w[i].flows
<1>1. /\ s.target = now /\ s.found = (t.pid # now.pid) /\ s.rows = rows
      /\ s.kpis = [cpu_pct |-> Of("cpu_pct"), threads |-> Of("threads"),
                   rss_bytes |-> Of("rss_bytes"), open_fds |-> Of("open_fds"),
                   net_bps_tx |-> net.tx, net_bps_rx |-> net.rx,
                   disk_bps_r |-> 0, disk_bps_w |-> 0,
                   syscalls_per_sec |-> calls, err_syscalls_per_sec |-> calls * 12]
      /\ s.sre = [latency_p50_us |-> wait * 72, latency_p90_us |-> wait * 165,
                  latency_p99_us |-> wait * 340, runqueue_latency_us |-> wait * 100,
                  slo_availability |-> 9998, error_budget_pct |-> 942, burn_rate |-> 8]
      /\ s.syscalls_top =
           [c \in DOMAIN Calls |-> [name |-> Calls[c][1], count_s |-> Share(Calls[c])]]
      /\ s.flows = IF Len(own) < 2 THEN own \o net.flows ELSE own
  BY DEF Collected
<1>2. \/ i = 0 /\ \A a \in DOMAIN w : w[a].pid # now.pid
      \/ i # 0 /\ i \in DOMAIN w /\ w[i].pid = now.pid
  BY PositionOf
<1> HIDE DEF i, now, s
<1>3. i # 0 => w[i] \in Process BY <1>2, HostIs
<1>4. \A m \in {"cpu_pct", "threads", "rss_bytes", "open_fds"} : Of(m) \in Nat
  <2>1. \A p \in Process, m \in {"cpu_pct", "threads", "rss_bytes", "open_fds"} : p[m] \in Nat
    BY DEF Process
  <2> QED BY <1>3, <2>1
<1>5. s.kpis \in [KpiName -> Nat]
  <2>1. net.tx \in Nat /\ net.rx \in Nat BY HostsRunProcesses
  <2>2. calls \in Nat /\ calls * 12 \in Nat OBVIOUS
  <2>3. /\ Of("cpu_pct") \in Nat /\ Of("threads") \in Nat
        /\ Of("rss_bytes") \in Nat /\ Of("open_fds") \in Nat
    <3> HIDE DEF Of
    <3> QED BY <1>4
  <2> HIDE DEF Of, calls
  <2>4. s.kpis = [cpu_pct |-> Of("cpu_pct"), threads |-> Of("threads"),
                  rss_bytes |-> Of("rss_bytes"), open_fds |-> Of("open_fds"),
                  net_bps_tx |-> net.tx, net_bps_rx |-> net.rx,
                  disk_bps_r |-> 0, disk_bps_w |-> 0,
                  syscalls_per_sec |-> calls, err_syscalls_per_sec |-> calls * 12]
    BY <1>1
  <2> QED BY <2>1, <2>2, <2>3, <2>4, SMTT(30) DEF KpiName
<1>6. wait \in Nat
  <2>1. \A p \in Process : p.wait \in Nat BY DEF Process
  <2>2. read \in Nat BY <1>3, <2>1
  <2> HIDE DEF read
  <2> QED BY <2>2
<1>7. s.sre \in [SreName -> Nat]
  <2>1. wait * 72 \in Nat /\ wait * 165 \in Nat /\ wait * 340 \in Nat /\ wait * 100 \in Nat
    <3> HIDE DEF wait
    <3> QED BY <1>6
  <2> HIDE DEF wait
  <2> QED BY <1>1, <2>1 DEF SreName
<1>8. s.flows \in Seq(STRING)
  <2>1. \A p \in Process : p.flows \in Seq(STRING) BY DEF Process
  <2>2. own \in Seq(STRING)
    <3>1. CASE i = 0
      <4>1. <<>> \in Seq(STRING) OBVIOUS
      <4> QED BY <3>1, <4>1
    <3>2. CASE i # 0 BY <1>3, <2>1, <3>2
    <3> QED BY <3>1, <3>2
  <2>3. net.flows \in Seq(STRING) BY HostsRunProcesses
  <2>4. s.flows \in {own, own \o net.flows} BY <1>1
  <2>5. PICK q, h : q = own /\ h = net.flows OBVIOUS
  <2>6. q \in Seq(STRING) /\ h \in Seq(STRING) /\ s.flows \in {q, q \o h} BY <2>2, <2>3, <2>4, <2>5
  <2>7. q \o h \in Seq(STRING) BY <2>6
  <2> QED BY <2>6, <2>7
<1>9. s.syscalls_top \in Seq([name : CallName, count_s : Nat])
  <2>1. calls \in Nat OBVIOUS
  <2> HIDE DEF calls
  <2>2. \A c \in 1..10 : Share(Calls[c]) \in Nat BY <2>1, CallsAre
  <2> HIDE DEF Share
  <2>3. \A c \in 1..10 : [name |-> Calls[c][1], count_s |-> Share(Calls[c])]
                              \in [name : CallName, count_s : Nat]
    BY <2>2, CallsAre DEF CallName
  <2>4. PICK C : C = [name : CallName, count_s : Nat] OBVIOUS
  <2>5. s.syscalls_top \in [1..10 -> C] BY <1>1, <2>3, <2>4, CallsAre
  <2> QED BY <2>4, <2>5, FunctionIsSequence
<1>10. /\ rows \in Seq(Process) /\ \A j \in DOMAIN rows : \E a \in DOMAIN w : rows[j] = w[a]
       /\ \A j, k \in DOMAIN rows : rows[j].pid = rows[k].pid => j = k
  BY RowsAre
<1>11. ASSUME TargetRow(s) # None
       PROVE /\ \A m \in {"cpu_pct", "threads", "rss_bytes", "open_fds"} :
                    TargetRow(s)[m] = s.kpis[m]
             /\ ~s.found => TargetRow(s) = s.rows[1]
  <2>1. PICK k \in DOMAIN rows : TargetRow(s) = rows[k] /\ rows[k].pid = now.pid
    BY <1>1, <1>10, <1>11, TargetRowIs
  <2>2. PICK a \in DOMAIN w : rows[k] = w[a] BY <1>10
  <2>3. i # 0 /\ w[i] = rows[k] BY <1>2, <2>1, <2>2, HostIs
  <2>4. \A m \in {"cpu_pct", "threads", "rss_bytes", "open_fds"} : TargetRow(s)[m] = s.kpis[m]
    BY <1>1, <2>1, <2>3 DEF KpiName
  <2>5. ASSUME ~s.found PROVE TargetRow(s) = s.rows[1]
    <3>1. t.pid = now.pid
      <4>1. s.found = (t.pid # now.pid) BY <1>1
      <4> HIDE DEF now
      <4> QED BY <2>5, <4>1
    <3>2. t.pid # 0
      <4>1. \A p \in Process : p.pid # 0 BY DEF Process
      <4> QED BY <1>3, <2>1, <2>3, <3>1, <4>1
    <3>3. DOMAIN rows = 1..Len(rows) /\ Len(rows) \in Nat BY <1>10
    <3>4. ASSUME k # 1 PROVE FALSE
      <4>1. 1 \in DOMAIN rows /\ 1 < k BY <3>3, <3>4
      <4>2. ~Precedes(t, rows[k], rows[1]) BY <4>1 DEF Sorted
      <4>3. rows[1].pid # t.pid BY <1>10, <2>1, <3>1, <3>4, <4>1
      <4> QED BY <2>1, <3>1, <3>2, <4>2, <4>3 DEF Precedes
    <3> QED BY <1>1, <2>1, <3>4
  <2> QED BY <2>4, <2>5
<1>12. s.rows = rows BY <1>1
<1>13. Sound(s) BY <1>5, <1>7, <1>8, <1>9, <1>10, <1>11, <1>12 DEF Sound
<1> QED BY <1>13 DEF s

\* The rows are those of processes.
OfHost(s) == \A i \in DOMAIN s.rows : \E w \in World : \E a \in DOMAIN w : s.rows[i] = w[a]

\* The snapshot changes only with a tick of the engine.
LEMMA SnapshotSteps ==
    ASSUME [DashNext]_dashVars
    PROVE \/ Push
          \/ snapshot' = snapshot
<1>1. CASE ConnectionChanges BY <1>1 DEF ConnectionChanges
<1>2. CASE Gesture
  <2>1. CASE PageGesture
    <3>1. CASE UNCHANGED pageVars BY <3>1 DEF pageVars
    <3>2. CASE ChooseTab BY <3>2 DEF ChooseTab
    <3>3. CASE PickRow BY <3>3 DEF PickRow
    <3> QED BY <2>1, <3>1, <3>2, <3>3 DEF PageGesture
  <2>2. CASE HelpGesture BY <2>2 DEF HelpGesture, pageVars
  <2> QED BY <1>2, <2>1, <2>2 DEF Gesture
<1>3. CASE Network BY <1>3 DEF Network, pageVars
<1>4. CASE UNCHANGED dashVars BY <1>4 DEF dashVars, pageVars
<1> QED BY <1>1, <1>2, <1>3, <1>4 DEF DashNext

\* The inductive invariant of the figures: what has come is sound.
SoundInv == snapshot # None => Sound(snapshot) /\ OfHost(snapshot)

\* A tick brings what the engine has collected.
LEMMA PushIsSound ==
    ASSUME Push
    PROVE /\ Sound(snapshot') /\ OfHost(snapshot') /\ target' = snapshot'.target
          /\ \E w \in World : target' = Resolve(target, w)
<1> PICK t : t = target OBVIOUS
<1> PICK w \in World : /\ target' = Resolve(t, w)
                       /\ \E rows \in Sorted(t, w), net \in HostNet :
                              snapshot' = Collected(t, w, net, rows)
  BY DEF Push
<1>1. PICK rows \in Sorted(t, w), net \in HostNet : snapshot' = Collected(t, w, net, rows)
  OBVIOUS
<1>2. PICK s : s = snapshot' OBVIOUS
<1>3. s = Collected(t, w, net, rows) BY <1>1, <1>2
<1>4. Sound(s) BY <1>3, CollectedIsSound
<1>5. s.rows = rows /\ s.target = Resolve(t, w) BY <1>3 DEF Collected
<1>6. OfHost(s) BY <1>5, RowsAre DEF OfHost
<1> QED BY <1>2, <1>4, <1>5, <1>6

\* Every step keeps the snapshot sound.
LEMMA SoundStep == ASSUME SoundInv, [DashNext]_dashVars PROVE SoundInv'
<1>1. CASE Push BY <1>1, PushIsSound DEF SoundInv
<1>2. CASE snapshot' = snapshot BY <1>2 DEF SoundInv
<1> QED BY <1>1, <1>2, SnapshotSteps

\* What was measured of the target and is not 0 is shown as it is in every tab and graph, but
\* for the one number that the page prints, whatever the hosts, the target and the choices.
THEOREM MeasuredShownHolds == DashSpec => []MeasuredShown
<1>1. ASSUME DashInit PROVE SoundInv
  <2>1. snapshot = None BY <1>1 DEF DashInit
  <2> QED BY <2>1 DEF SoundInv
<1>2. ASSUME SoundInv, [DashNext]_dashVars PROVE SoundInv' BY <1>2, SoundStep
<1>3. SoundInv => MeasuredShown BY SoundIsShown DEF SoundInv
<1> QED BY <1>1, <1>2, <1>3, PTL DEF DashSpec

-----------------------------------------------------------------------------
(* The mark in the table: what was asked for by a name and a pid has both, and
   so has what the server observes.                                        *)

\* A name that the table finds in a process, and one that it finds in every process that
\* has the pid.
Marks(name, p) == \/ name = p.comm \/ Occurs(name, p.cmdline)
                  \/ name = agentLabel(p.comm, p.cmdline)
Names(name, pid) ==
    pid # 0 => \A w \in World : \A a \in DOMAIN w : w[a].pid = pid => Marks(name, w[a])

\* A request names what it asks for, and so does the target that was chosen by its name.
Fit(p) == p.comm # "" => Names(p.comm, p.pid)
NamedRight(t) == t.named => t.comm # "" /\ Names(t.comm, t.pid)

AllFit(q) == \E S : q \in Seq(S) /\ \A p \in S : Fit(p)

\* The inductive invariant of the table's marks.
MarkInv == AllFit(posts) /\ NamedRight(target) /\ (snapshot # None => NamedRight(snapshot.target))

\* What a sequence of requests becomes.
LEMMA OneMoreFits ==
    ASSUME NEW q, AllFit(q), NEW p, Fit(p) PROVE AllFit(Append(q, p))
<1>1. PICK S : q \in Seq(S) /\ \A r \in S : Fit(r) BY DEF AllFit
<1>2. Append(q, p) \in Seq(S \cup {p}) BY <1>1
<1>3. \A r \in S \cup {p} : Fit(r) BY <1>1
<1> QED BY <1>2, <1>3 DEF AllFit

\* Requests that fit still do when one is gone.
LEMMA OneLessFits ==
    ASSUME NEW q, AllFit(q), NEW i \in DOMAIN q PROVE AllFit(RemoveAt(q, i))
<1>1. PICK S : q \in Seq(S) /\ \A r \in S : Fit(r) BY DEF AllFit
<1>2. i \in 1..Len(q) /\ Len(q) \in Nat BY <1>1
<1>3. SubSeq(q, 1, i - 1) \in Seq(S) /\ SubSeq(q, i + 1, Len(q)) \in Seq(S) BY <1>1, <1>2
<1>4. RemoveAt(q, i) \in Seq(S) BY <1>3 DEF RemoveAt
<1> QED BY <1>1, <1>4 DEF AllFit

\* And when another takes the place of one.
LEMMA OtherFits ==
    ASSUME NEW q, AllFit(q), NEW i \in DOMAIN q, NEW p, Fit(p)
    PROVE AllFit([q EXCEPT ![i] = p])
<1>1. PICK S : q \in Seq(S) /\ \A r \in S : Fit(r) BY DEF AllFit
<1>2. [q EXCEPT ![i] = p] \in Seq(S \cup {p}) BY <1>1
<1>3. \A r \in S \cup {p} : Fit(r) BY <1>1
<1> QED BY <1>2, <1>3 DEF AllFit

\* Each of the requests fits.
LEMMA EachFits == ASSUME NEW q, AllFit(q), NEW i \in DOMAIN q PROVE Fit(q[i])
<1>1. PICK S : q \in Seq(S) /\ \A r \in S : Fit(r) BY DEF AllFit
<1>2. q[i] \in S BY <1>1
<1> QED BY <1>1, <1>2

\* A request is fit by its name and pid alone.
LEMMA FitRequest ==
    ASSUME NEW kind, NEW name, NEW pid, NEW here, NEW status, name # "" => Names(name, pid)
    PROVE Fit(Request(kind, name, pid, here, status))
BY DEF Fit, Request

\* A choice, whoever makes it, asks for what it names.
LEMMA ChooseFits ==
    ASSUME MarkInv, NEW kind, NEW name, NEW pid,
           name # "" => Names(name, IF pid > 0 THEN pid ELSE 0), Choose(kind, name, pid)
    PROVE AllFit(posts') /\ target' = target
<1> DEFINE n == IF pid > 0 THEN pid ELSE 0
<1>1. Fit(Post(kind, name, pid))
  <2>1. name # "" => Names(name, n) OBVIOUS
  <2> HIDE DEF n
  <2>2. Fit(Request(kind, name, n, kind = "box", "sent")) BY <2>1, FitRequest
  <2> QED BY <2>2 DEF Post, n
<1>2. posts' = Append(posts, Post(kind, name, pid)) /\ target' = target BY DEF Choose
<1>3. PICK q : q = posts OBVIOUS
<1>4. AllFit(q) BY <1>3 DEF MarkInv
<1>5. AllFit(Append(q, Post(kind, name, pid))) BY <1>1, <1>4, OneMoreFits
<1> QED BY <1>2, <1>3, <1>5

\* What may be listed are the processes of the hosts and those that are offered.
LEMMA ListableAre ==
    /\ \A w \in World : \A a \in DOMAIN w : w[a] \in Listable
    /\ \A k \in DOMAIN Fallback : Fallback[k] \in Listable
<1>1. ASSUME NEW w \in World, NEW a \in DOMAIN w PROVE w[a] \in Listable
  <2>1. w[a] \in ToSet(w) BY DEF ToSet
  <2> QED BY <2>1 DEF Listable
<1>2. ASSUME NEW k \in DOMAIN Fallback PROVE Fallback[k] \in Listable
  <2>1. PICK x : x = Fallback[k] OBVIOUS
  <2>2. x \in ToSet(Fallback) BY <2>1 DEF ToSet
  <2>3. x \in Listable BY <2>2 DEF Listable
  <2> QED BY <2>1, <2>3
<1> QED BY <1>1, <1>2

\* The label of one names whatever has its pid.
LEMMA LabelNames ==
    ASSUME PidsStay, NEW p \in Listable, p.pid \in Nat
    PROVE Names(agentLabel(p.comm, p.cmdline), IF p.pid > 0 THEN p.pid ELSE 0)
<1>1. ASSUME NEW w \in World, NEW a \in DOMAIN w, w[a].pid = p.pid
      PROVE Marks(agentLabel(p.comm, p.cmdline), w[a])
  <2>1. w[a].comm = p.comm /\ w[a].cmdline = p.cmdline BY <1>1, ListableAre DEF PidsStay
  <2> QED BY <2>1 DEF Marks
<1>2. (IF p.pid > 0 THEN p.pid ELSE 0) = p.pid OBVIOUS
<1> QED BY <1>1, <1>2 DEF Names

\* The rows that the list is made of.
LEMMA DisplayedAre ==
    ASSUME NEW s, s # None => Sound(s) /\ OfHost(s)
    PROVE \E n \in Nat : /\ DOMAIN Displayed(s) = 1..n
                         /\ \A i \in 1..n : Ranked(Displayed(s)[i]) /\ Displayed(s)[i] \in Listable
<1>1. CASE s = None \/ s.rows = <<>>
  <2>1. Displayed(s) = Fallback BY <1>1 DEF Displayed
  <2>2. DOMAIN Fallback = 1..3 BY DEF Fallback
  <2>3. \A i \in 1..3 : Ranked(Fallback[i])
    <3>1. Ranked(Fallback[1]) BY SMT DEF Fallback, Agent, Ranked
    <3>2. Ranked(Fallback[2]) BY SMT DEF Fallback, Agent, Ranked
    <3>3. Ranked(Fallback[3]) BY SMT DEF Fallback, Agent, Ranked
    <3>4. \A i \in 1..3 : i = 1 \/ i = 2 \/ i = 3 OBVIOUS
    <3> QED BY <3>1, <3>2, <3>3, <3>4
  <2>4. \A i \in 1..3 : Fallback[i] \in Listable BY <2>2, ListableAre
  <2> QED BY <2>1, <2>2, <2>3, <2>4
<1>2. CASE s # None /\ s.rows # <<>>
  <2>1. Displayed(s) = s.rows BY <1>2 DEF Displayed
  <2>2. s.rows \in Seq(Process) BY <1>2 DEF Sound
  <2>3. Len(s.rows) \in Nat /\ DOMAIN s.rows = 1..Len(s.rows) BY <2>2
  <2>4. \A i \in 1..Len(s.rows) : s.rows[i] \in Process BY <2>2, Element
  <2>5. \A p \in Process : Ranked(p) BY DEF Process, Ranked
  <2>6. \A i \in 1..Len(s.rows) : s.rows[i] \in Listable BY <1>2, <2>3, ListableAre DEF OfHost
  <2> QED BY <2>1, <2>3, <2>4, <2>5, <2>6
<1> QED BY <1>1, <1>2

\* What is listed is a process of some host, or one of the agents the page makes up.
LEMMA ListedAre ==
    ASSUME NEW s, s # None => Sound(s) /\ OfHost(s), NEW k \in DOMAIN Listed(s)
    PROVE Listed(s)[k] \in Listable /\ Listed(s)[k].pid \in Nat
<1>1. PICK n \in Nat : /\ DOMAIN Displayed(s) = 1..n
                       /\ \A i \in 1..n : Ranked(Displayed(s)[i]) /\ Displayed(s)[i] \in Listable
  BY DisplayedAre
<1>2. \E i \in 1..n : Listed(s)[k] = Displayed(s)[i] BY <1>1, ListedAreRows
<1> QED BY <1>1, <1>2 DEF Ranked

\* The pid that the engine finds is that of a process with the name.
LEMMA ResolveNames ==
    ASSUME PidsStay, NEW t, NamedRight(t), NEW w \in World PROVE NamedRight(Resolve(t, w))
<1> DEFINE I == {i \in 1..Len(w) : HasName(t, w[i])}
           i == IF I # {} THEN Min(I) ELSE 0
<1>1. Resolve(t, w) = IF t.pid # 0 \/ i = 0 THEN t
                      ELSE [comm |-> t.comm, pid |-> w[i].pid, named |-> t.named]
  BY DEF Resolve, SelectInSeq
<1>2. I \in SUBSET Nat /\ DOMAIN w = 1..Len(w) BY HostIs
<1>3. I # {} => Min(I) \in I
  <2> HIDE DEF I
  <2> QED BY <1>2, LeastPosition
<1>4. i # 0 => i \in DOMAIN w /\ HasName(t, w[i]) BY <1>2, <1>3
<1> HIDE DEF i
<1>5. CASE Resolve(t, w) = t BY <1>5
<1>6. ASSUME i # 0, Resolve(t, w) = [comm |-> t.comm, pid |-> w[i].pid, named |-> t.named], t.named
      PROVE NamedRight(Resolve(t, w))
  <2>1. ASSUME NEW v \in World, NEW a \in DOMAIN v, v[a].pid = w[i].pid PROVE Marks(t.comm, v[a])
    <3>1. v[a].comm = w[i].comm /\ v[a].cmdline = w[i].cmdline
      BY <1>4, <1>6, <2>1, ListableAre DEF PidsStay
    <3> QED BY <1>4, <1>6, <3>1 DEF HasName, Marks
  <2>2. Names(t.comm, w[i].pid) BY <2>1 DEF Names
  <2>3. t.comm # "" BY <1>6 DEF NamedRight
  <2>4. PICK r : r = Resolve(t, w) OBVIOUS
  <2>5. r.comm = t.comm /\ r.pid = w[i].pid BY <1>6, <2>4
  <2>6. NamedRight(r) BY <2>2, <2>3, <2>5 DEF NamedRight
  <2> QED BY <2>4, <2>6
<1>7. CASE Resolve(t, w) # t /\ ~t.named
  <2>1. ~Resolve(t, w).named BY <1>1, <1>7
  <2> QED BY <2>1 DEF NamedRight
<1> QED BY <1>1, <1>5, <1>6, <1>7

\* A tick of the engine: the pid it finds is of a process with the name.
LEMMA PushMarks == ASSUME PidsStay, MarkInv, Push PROVE MarkInv'
<1>1. PICK w \in World : target' = Resolve(target, w) BY DEF Push
<1>2. NamedRight(target')
  <2>1. PICK t : t = target OBVIOUS
  <2>2. NamedRight(Resolve(t, w)) BY <2>1, ResolveNames DEF MarkInv
  <2> QED BY <1>1, <2>1, <2>2
<1>3. snapshot'.target = target' BY PushIsSound
<1>4. posts' = posts BY DEF Push
<1> QED BY <1>2, <1>3, <1>4 DEF MarkInv

\* A choice, of whatever is listed or was typed.
LEMMA SelectFits ==
    ASSUME PidsStay, MarkInv, NEW p \in Listable, p.pid \in Nat, selectProcess(p)
    PROVE AllFit(posts') /\ target' = target
<1> DEFINE label == agentLabel(p.comm, p.cmdline)
<1>1. Choose("box", label, p.pid) BY DEF selectProcess, applyTarget
<1>2. Names(label, IF p.pid > 0 THEN p.pid ELSE 0) BY LabelNames
<1> HIDE DEF label
<1> QED BY <1>1, <1>2, ChooseFits

\* A name that was typed has no pid, and a pid that was typed no name.
LEMMA TypedFits == ASSUME MarkInv, TargetTyped PROVE AllFit(posts') /\ target' = target
<1>1. ASSUME NEW pid, Choose("box", "", pid) PROVE AllFit(posts') /\ target' = target
  BY <1>1, ChooseFits
<1>2. ASSUME Choose("box", query, 0) PROVE AllFit(posts') /\ target' = target
  <2>1. PICK q : q = query OBVIOUS
  <2>2. Names(q, IF 0 > 0 THEN 0 ELSE 0) BY DEF Names
  <2> QED BY <1>2, <2>1, <2>2, ChooseFits
<1> QED BY <1>1, <1>2 DEF TargetTyped, applyTarget

\* A row of the table.
LEMMA TableFits ==
    ASSUME PidsStay, MarkInv, NEW p \in Listable, p.pid \in Nat, TableChoice(p)
    PROVE AllFit(posts') /\ target' = target
<1> DEFINE label == agentLabel(p.comm, p.cmdline)
           pid == IF label # p.comm THEN 0 ELSE p.pid
<1>1. Choose("table", label, pid) BY DEF TableChoice
<1>2. Names(label, IF p.pid > 0 THEN p.pid ELSE 0) BY LabelNames
<1>3. Names(label, 0) BY DEF Names
<1>4. Names(label, IF pid > 0 THEN pid ELSE 0) BY <1>2, <1>3
<1> HIDE DEF label, pid
<1> QED BY <1>1, <1>4, ChooseFits

\* The list is as long as there are matches, and what is shown are the first of it.
LEMMA ListedLong ==
    ASSUME NEW s, s # None => Sound(s) /\ OfHost(s)
    PROVE Len(Listed(s)) \in Nat /\ DOMAIN Listed(s) = 1..Len(Listed(s))
<1>1. PICK n \in Nat : DOMAIN Displayed(s) = 1..n BY DisplayedAre
<1>2. Matching(s) \subseteq 1..n BY <1>1 DEF Matching
<1>3. IsFiniteSet(1..n) BY FS_Interval
<1>4. Cardinality(Matching(s)) \in Nat BY <1>2, <1>3, FS_Subset, FS_CardinalityType
<1>5. DOMAIN Listed(s) = 1..Cardinality(Matching(s)) BY DEF Listed
<1> QED BY <1>4, <1>5

\* The rows that are shown are rows of the list.
LEMMA ShownAre ==
    ASSUME NEW s, s # None => Sound(s) /\ OfHost(s), NEW k \in DOMAIN Shown(s)
    PROVE k \in DOMAIN Listed(s) /\ Shown(s)[k] = Listed(s)[k]
<1>1. Len(Listed(s)) \in Nat /\ DOMAIN Listed(s) = 1..Len(Listed(s)) BY ListedLong
<1> DEFINE n == IF Len(Listed(s)) < MaxShown THEN Len(Listed(s)) ELSE MaxShown
<1>2. Shown(s) = SubSeq(Listed(s), 1, n) BY DEF Shown
<1>3. n \in Int /\ n <= Len(Listed(s)) BY <1>1, ListIsShown
<1> HIDE DEF n
<1>4. k \in 1..n BY <1>1, <1>2, <1>3
<1>5. k \in 1..Len(Listed(s)) /\ SubSeq(Listed(s), 1, n)[k] = Listed(s)[k] BY <1>1, <1>3, <1>4
<1> QED BY <1>1, <1>2, <1>5

\* Every gesture leaves requests that name what they ask for.
LEMMA GestureMarks ==
    ASSUME PidsStay, SoundInv, MarkInv, Gesture PROVE AllFit(posts') /\ target' = target
<1> DEFINE Goal == AllFit(posts') /\ target' = target
<1>1. PICK s : s = snapshot OBVIOUS
<1>2. s # None => Sound(s) /\ OfHost(s) BY <1>1 DEF SoundInv
<1>3. ASSUME NEW k \in DOMAIN Listed(s), selectProcess(Listed(s)[k]) PROVE Goal
  <2>1. Listed(s)[k] \in Listable /\ Listed(s)[k].pid \in Nat BY <1>2, ListedAre
  <2>2. PICK p : p = Listed(s)[k] OBVIOUS
  <2> QED BY <1>3, <2>1, <2>2, SelectFits
<1>4. ASSUME UNCHANGED postVars PROVE Goal BY <1>4 DEF postVars, MarkInv
<1> SUFFICES Goal OBVIOUS
<1> HIDE DEF Goal
<1>5. CASE BoxKeys(s)
  <2>1. CASE Enter(s)
    <3>1. CASE TargetTyped BY <3>1, TypedFits DEF Goal
    <3>2. ASSUME highlightedIndex \in 0..(Len(Listed(s)) - 1),
                 selectProcess(Listed(s)[highlightedIndex + 1])
          PROVE Goal
      <4>1. highlightedIndex + 1 \in DOMAIN Listed(s) BY <3>2, ListedLong
      <4>2. PICK k : k = highlightedIndex + 1 OBVIOUS
      <4> QED BY <1>3, <3>2, <4>1, <4>2
    <3>3. ASSUME Len(Listed(s)) = 1, selectProcess(Listed(s)[1]) PROVE Goal
      <4>1. 1 \in DOMAIN Listed(s) BY <3>3, ListedLong
      <4> QED BY <1>3, <3>3, <4>1
    <3> QED BY <2>1, <3>1, <3>2, <3>3 DEF Enter
  <2>2. CASE TargetDirectly(s) BY <2>2, TypedFits DEF TargetDirectly, Goal
  <2>3. CASE FocusSearch BY <1>4, <2>3 DEF FocusSearch
  <2>4. ASSUME NEW q \in Query, TypeQuery(q) PROVE Goal BY <1>4, <2>4 DEF TypeQuery
  <2>5. CASE ClearQuery BY <1>4, <2>5 DEF ClearQuery
  <2>6. CASE OpenList BY <1>4, <2>6 DEF OpenList
  <2>7. CASE Arrow(s) BY <1>4, <2>7 DEF Arrow
  <2> QED BY <1>5, <2>1, <2>2, <2>3, <2>4, <2>5, <2>6, <2>7 DEF BoxKeys
<1>6. CASE BoxMouse(s)
  <2>1. CASE Hover(s) BY <1>4, <2>1 DEF Hover
  <2>2. CASE ClickRow(s)
    <3>1. PICK k \in DOMAIN Shown(s) : selectProcess(Shown(s)[k]) BY <2>2 DEF ClickRow
    <3>2. k \in DOMAIN Listed(s) /\ Shown(s)[k] = Listed(s)[k] BY <1>2, <3>1, ShownAre
    <3> QED BY <1>3, <3>1, <3>2
  <2> QED BY <1>6, <2>1, <2>2 DEF BoxMouse
<1>7. CASE ChooseTab BY <1>4, <1>7 DEF ChooseTab
<1>8. CASE PickRow
  <2>1. PICK p \in ToSet(s.rows) : TableChoice(p) BY <1>1, <1>8 DEF PickRow
  <2>2. s # None BY <1>1, <1>8 DEF PickRow
  <2>3. PICK k \in DOMAIN s.rows : p = s.rows[k] BY <2>1 DEF ToSet
  <2>4. p \in Listable BY <1>2, <2>2, <2>3, ListableAre DEF OfHost
  <2>5. p.pid \in Nat
    <3>1. s.rows \in Seq(Process) BY <1>2, <2>2 DEF Sound
    <3>2. p \in Process BY <2>3, <3>1
    <3> QED BY <3>2 DEF Process
  <2> QED BY <2>1, <2>4, <2>5, TableFits DEF Goal
<1>9. CASE HelpGesture BY <1>4, <1>9 DEF HelpGesture, Escape
<1> QED BY <1>1, <1>4, <1>5, <1>6, <1>7, <1>8, <1>9 DEF Gesture, PageGesture, Goal

\* What becomes of the requests keeps their names and pids.
LEMMA NetworkMarks ==
    ASSUME MarkInv, Network PROVE AllFit(posts') /\ NamedRight(target')
<1> PICK q : q = posts OBVIOUS
<1>1. AllFit(q) /\ NamedRight(target) BY DEF MarkInv
<1>2. ASSUME NEW i \in DOMAIN q PROVE Fit(q[i]) /\ AllFit(RemoveAt(q, i))
  BY <1>1, EachFits, OneLessFits
<1>3. ASSUME NEW i \in DOMAIN q, NEW status PROVE AllFit([q EXCEPT ![i] = WithStatus(q[i], status)])
  <2>1. Fit(WithStatus(q[i], status))
    <3>1. q[i].comm # "" => Names(q[i].comm, q[i].pid) BY <1>2 DEF Fit
    <3> QED BY <3>1, FitRequest DEF WithStatus
  <2> QED BY <1>1, <2>1, OtherFits
<1>4. ASSUME NEW i \in DOMAIN q, ServerTakes(i) PROVE AllFit(posts') /\ NamedRight(target')
  <2>1. AllFit(posts')
    <3>1. PICK status : posts' = [posts EXCEPT ![i] = WithStatus(posts[i], status)]
      BY <1>4 DEF ServerTakes
    <3>2. AllFit([q EXCEPT ![i] = WithStatus(q[i], status)]) BY <1>3
    <3> QED BY <3>1, <3>2
  <2>2. ASSUME target' = target PROVE NamedRight(target') BY <1>1, <2>2
  <2>3. ASSUME target' = [comm |-> IF q[i].comm = "" THEN target.comm ELSE q[i].comm,
                          pid |-> q[i].pid, named |-> q[i].comm # ""]
        PROVE NamedRight(target')
    <3>1. CASE q[i].comm = ""
      <4>1. ~target'.named BY <2>3, <3>1
      <4> QED BY <4>1 DEF NamedRight
    <3>2. CASE q[i].comm # ""
      <4>1. target'.comm = q[i].comm /\ target'.pid = q[i].pid BY <2>3, <3>2
      <4>2. Names(q[i].comm, q[i].pid) BY <1>2, <3>2 DEF Fit
      <4> QED BY <3>2, <4>1, <4>2 DEF NamedRight
    <3> QED BY <3>1, <3>2
  <2> QED BY <1>4, <2>1, <2>2, <2>3 DEF ServerTakes
<1>5. ASSUME NEW i \in DOMAIN q, BoxAnswered(i) PROVE AllFit(posts') /\ target' = target
  <2>1. posts' = Append(RemoveAt(q, i), handleTargetChange(q[i].comm, q[i].pid)) /\ target' = target
    BY <1>5 DEF BoxAnswered
  <2>2. Fit(handleTargetChange(q[i].comm, q[i].pid))
    <3> DEFINE n == IF q[i].pid > 0 THEN q[i].pid ELSE 0
    <3>1. q[i].comm # "" => Names(q[i].comm, q[i].pid) BY <1>2 DEF Fit
    <3>2. Names(q[i].comm, 0) BY DEF Names
    <3>3. q[i].comm # "" => Names(q[i].comm, n) BY <3>1, <3>2
    <3> HIDE DEF n
    <3>4. Fit(Request("again", q[i].comm, n, "again" = "box", "sent")) BY <3>3, FitRequest
    <3> QED BY <3>4 DEF handleTargetChange, Post, n
  <2> QED BY <1>2, <2>1, <2>2, OneMoreFits
<1>6. ASSUME NEW i \in DOMAIN q, BoxFails(i) \/ PageAnswered(i)
      PROVE AllFit(posts') /\ target' = target
  <2>1. posts' = RemoveAt(q, i) /\ target' = target BY <1>6 DEF BoxFails, PageAnswered
  <2> QED BY <1>2, <2>1
<1>7. CASE Requests BY <1>1, <1>4, <1>5, <1>6, <1>7 DEF Requests
<1>8. CASE UNCHANGED omniVars BY <1>1, <1>8 DEF omniVars, postVars
<1> QED BY <1>7, <1>8 DEF Network

\* The requests of a header that goes are still on their way.
LEMMA HeaderMarks == ASSUME MarkInv, HeaderGoes PROVE AllFit(posts')
<1> DEFINE Left(p) == Request(p.kind, p.comm, p.pid, FALSE, p.status)
<1>1. PICK S : posts \in Seq(S) /\ \A p \in S : Fit(p) BY DEF MarkInv, AllFit
<1>2. posts' = [i \in DOMAIN posts |-> Left(posts[i])] BY DEF HeaderGoes
<1> DEFINE T == {Left(p) : p \in S}
<1>3. posts' \in Seq(T)
  <2>1. PICK q : q = posts OBVIOUS
  <2>2. Len(q) \in Nat /\ DOMAIN q = 1..Len(q) BY <1>1, <2>1
  <2>3. \A i \in 1..Len(q) : q[i] \in S BY <1>1, <2>1, Element
  <2>4. \A i \in 1..Len(q) : Left(q[i]) \in T BY <2>3
  <2> HIDE DEF T, Left
  <2>5. posts' = [i \in 1..Len(q) |-> Left(q[i])] BY <1>2, <2>1, <2>2
  <2>6. posts' \in [1..Len(q) -> T] BY <2>4, <2>5
  <2> QED BY <2>2, <2>6, FunctionIsSequence
<1>4. ASSUME NEW p \in S PROVE Fit(Left(p))
  <2>1. p.comm # "" => Names(p.comm, p.pid) BY <1>1 DEF Fit
  <2> QED BY <2>1, FitRequest
<1>5. \A r \in T : Fit(r) BY <1>4
<1> QED BY <1>3, <1>5 DEF AllFit

\* Every step keeps it.
LEMMA MarkStep ==
    ASSUME PidsStay, SoundInv, MarkInv, [DashNext]_dashVars PROVE MarkInv'
<1>1. CASE Push BY <1>1, PushMarks
<1>2. ASSUME AllFit(posts'), NamedRight(target'), ~Push PROVE MarkInv'
  <2>1. snapshot' = snapshot BY <1>2, SnapshotSteps
  <2> QED BY <1>2, <2>1 DEF MarkInv
<1>3. CASE ConnectionChanges
  <2>1. target' = target BY <1>3 DEF ConnectionChanges
  <2>2. CASE HeaderGoes BY <1>1, <1>2, <2>1, <2>2, HeaderMarks DEF MarkInv
  <2>3. CASE UNCHANGED posts BY <1>1, <1>2, <2>1, <2>3 DEF MarkInv
  <2> QED BY <1>3, <2>2, <2>3 DEF ConnectionChanges
<1>4. CASE Gesture
  <2>1. AllFit(posts') /\ target' = target BY <1>4, GestureMarks
  <2> QED BY <1>1, <1>2, <2>1 DEF MarkInv
<1>5. CASE Network BY <1>1, <1>2, <1>5, NetworkMarks
<1>6. CASE UNCHANGED dashVars BY <1>1, <1>2, <1>6 DEF dashVars, omniVars, postVars, MarkInv
<1> QED BY <1>1, <1>3, <1>4, <1>5, <1>6 DEF DashNext

\* The table marks the target of a sound snapshot.
LEMMA MarksTarget == ASSUME SoundInv, PidsStay => MarkInv PROVE TableMarks
<1> SUFFICES ASSUME PidsStay, snapshot # None, TargetRow(snapshot) # None, snapshot.target.named
             PROVE TargetRow(snapshot) \in TableTargets(snapshot)
  BY DEF TableMarks
<1>1. PICK s : s = snapshot OBVIOUS
<1>2. Sound(s) /\ OfHost(s) /\ NamedRight(s.target) BY <1>1 DEF SoundInv, MarkInv
<1>3. PICK k \in DOMAIN s.rows : TargetRow(s) = s.rows[k] /\ s.rows[k].pid = s.target.pid
  BY <1>1, <1>2, TargetRowIs DEF Sound
<1>4. PICK w \in World : \E a \in DOMAIN w : s.rows[k] = w[a] BY <1>2 DEF OfHost
<1> PICK a \in DOMAIN w : s.rows[k] = w[a] BY <1>4
<1>5. w[a].pid # 0
  <2>1. w[a] \in Process BY HostIs
  <2> QED BY <2>1 DEF Process
<1>6. s.target.comm # "" /\ Marks(s.target.comm, w[a])
  BY <1>1, <1>2, <1>3, <1>4, <1>5 DEF NamedRight, Names
<1>7. s.rows[k] \in ToSet(s.rows) BY DEF ToSet
<1>8. s.rows[k] \in TableTargets(s) BY <1>1, <1>4, <1>6, <1>7 DEF TableTargets, Marks, HasName
<1> QED BY <1>1, <1>3, <1>8

\* Both together.
TargetInv == SoundInv /\ (PidsStay => MarkInv)

\* The process whose numbers the page shows, whose story it tells and whose row it marks is
\* the target; the mark for as long as no pid passes to another process.
THEOREM ShowsTargetHolds == DashSpec => []ShowsTarget
<1>1. ASSUME DashInit PROVE TargetInv
  <2>1. snapshot = None /\ target = InitialTarget /\ posts = <<>>
    BY <1>1 DEF DashInit, OmniInit
  <2>2. AllFit(<<>>)
    <3>1. PICK S : S = {} OBVIOUS
    <3>2. <<>> \in Seq(S) /\ \A p \in S : Fit(p) BY <3>1
    <3> QED BY <3>2 DEF AllFit
  <2>3. NamedRight(InitialTarget)
    <3>1. InitialTarget.comm # "" /\ (InitialTarget.named => InitialTarget.pid = 0)
      BY InitialIsTarget
    <3> QED BY <3>1 DEF NamedRight, Names
  <2>4. SoundInv /\ MarkInv BY <2>1, <2>2, <2>3 DEF SoundInv, MarkInv
  <2> QED BY <2>4 DEF TargetInv
<1>2. ASSUME TargetInv, [DashNext]_dashVars PROVE TargetInv'
  <2>1. SoundInv' BY <1>2, SoundStep DEF TargetInv
  <2>2. PidsStay => MarkInv' BY <1>2, MarkStep DEF TargetInv
  <2> QED BY <2>1, <2>2 DEF TargetInv
<1>3. TargetInv => ShowsTarget BY SoundIsShown, MarksTarget DEF TargetInv, SoundInv, ShowsTarget
<1> QED BY <1>1, <1>2, <1>3, PTL DEF DashSpec
=============================================================================
