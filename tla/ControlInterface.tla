-------------------------- MODULE ControlInterface --------------------------
(***************************************************************************)
(* The outside of the program: HttpController with its server, the agents  *)
(* Controller and StatsCollector that answer requests, HttpNotifier, and   *)
(* how all of them come to an end.  Controller, HttpController and         *)
(* HttpNotifier share the thread of the default dispatcher and its queue   *)
(* (main); StatsCollector has a thread of its own (mail).                  *)
(*                                                                         *)
(* Requests to IRCController and BotsEnvironment are those of              *)
(* ChatService.tla; to this module they would be like StatsCollector's.    *)
(* Storage, BotsEnvironment, MessageProcessor and IRCController with their *)
(* clients and engines are here one more agent, Chat: they count, they     *)
(* notify, they leave with Controller, and they may be in the database for *)
(* any time (PGConnection.cpp:130 retries for ever, and a connection may   *)
(* be waited for), which keeps them from leaving.                          *)
(*                                                                         *)
(* No agent sets an exception_reaction, so that an exception that leaves a *)
(* handler aborts the program.                                             *)
(*                                                                         *)
(* An agent that is deregistered gets no further message, handles those it *)
(* has, and then its so_evt_finish: the rules of the agent framework.      *)
(***************************************************************************)
EXTENDS Integers, Sequences, SequencesExt

CONSTANTS Connections, Requests, MaxRequests, NoAnswer,
          Nicks, SessionIds, Channels,
          Workers,
          MaxEvents    \* bound: what the IRC side counts or notifies of

VARIABLES ioc, accepting, conn, read, got, out,
          selector, book,
          client, jobs, running,
          terminated,  \* SysSignal::terminated
          agent,       \* each agent: up, leaving, finished, gone
          main, mail,  \* the queues of the two threads
          events,
          busy,        \* an agent of Chat that leaves is in the database
          crashed,     \* an exception has left a handler
          owed         \* by cell, what was counted and has not left the program

Http == INSTANCE HTTPServer
Stats == INSTANCE StatsCollector
Slack == INSTANCE HttpNotifier

\* What is written: the number of the request, whether its connection is kept,
\* and cells with their counts
Reports == UNION {[cells -> Int] : cells \in SUBSET Stats!Cells}
Answers == [n : Nat, keep : {r.keep : r \in Requests}, report : Reports]

ASSUME InterfaceAssumption ==
    /\ MaxRequests \in Nat /\ MaxEvents \in Nat
    /\ IsFiniteSet(Connections) /\ IsFiniteSet(Nicks) /\ IsFiniteSet(SessionIds)
    /\ NoAnswer \notin Answers

serverVars == <<ioc, accepting, conn, read, got, out>>
statsVars == <<selector, book>>
notifierVars == <<client, jobs, running>>
vars == <<serverVars, statsVars, notifierVars, terminated, agent, main, mail, events,
          busy, crashed, owed>>

\* The agents that look at the flag every second; the others are children of
\* Controller and leave with it.
AllButOne == {"Controller", "HttpController"}
Watchers == {"Controller", "HttpController", "HttpNotifier"}
Agents == {"Controller", "StatsCollector", "Chat", "HttpController", "HttpNotifier"}

Coop(a) == IF a = "Controller" THEN {"Controller", "StatsCollector", "Chat"} ELSE {a}

Init ==
    /\ Http!Init /\ Stats!Init /\ Slack!Init
    /\ terminated = FALSE
    /\ agent = [a \in Agents |-> "up"]
    /\ main = <<>> /\ mail = <<>>
    /\ events = 0
    /\ busy = FALSE /\ crashed = FALSE
    /\ owed = [cell \in Stats!Cells |-> 0]
-----------------------------------------------------------------------------
Up(a) == agent[a] = "up"

Request(a, c, n, r) == [what |-> "request", to |-> a, conn |-> c, n |-> n, req |-> r]
Reply(c, answer) == [what |-> "reply", to |-> "HttpController", conn |-> c,
                     answer |-> answer]
Notify == [what |-> "notify", to |-> "HttpNotifier"]
Finish(a) == [what |-> "finish", to |-> a]

Answer(n, r, report) == [n |-> n, keep |-> r.keep, report |-> report]
NoReport == << >>

\* How much of a cell a report or a metric holds
In(report, cell) == IF cell \in DOMAIN report THEN report[cell] ELSE 0
InMetric(m, cell) == IF cell \in m.cells THEN m.count ELSE 0

Leaves(amount(_)) == owed' = [cell \in Stats!Cells |-> owed[cell] - amount(cell)]

Accepted(q, c, answer) ==
    main' = Append(q, Reply(c, answer)) /\ UNCHANGED <<conn, owed>>

SessionLeaks(q, c, answer) ==
    \/ Up("HttpController") /\ Accepted(q, c, answer)
    \/ /\ ~ Up("HttpController")
       /\ main' = q /\ UNCHANGED conn
       /\ Leaves(LAMBDA cell : In(answer.report, cell))

\* send_http_resp: the reply goes to HttpController, or to nobody.  q is the
\* queue of the main thread without what is being handled.
SendReply(q, c, answer) ==
    \/ Up("HttpController") /\ Accepted(q, c, answer)
    \/ /\ ~ Up("HttpController")
       /\ main' = q /\ Http!Release(c)
       /\ Leaves(LAMBDA cell : In(answer.report, cell))
-----------------------------------------------------------------------------
\* A thread of the server reads a request and has it refused, or sends it on.
ReadRequest(c, r) ==
    LET n == read[c] + 1
        a == Http!Handler(r.path)
    IN  /\ Http!OnRead(c)
        /\ IF Http!Refused(r)
           THEN Http!Write(c, Answer(n, r, NoReport)) /\ UNCHANGED <<main, mail>>
           ELSE /\ UNCHANGED out
                /\ IF Up(a)
                   THEN /\ Http!Become(c, Http!WhileHandled)
                        /\ IF a = "Controller"
                           THEN main' = Append(main, Request(a, c, n, r)) /\ UNCHANGED mail
                           ELSE mail' = Append(mail, Request(a, c, n, r)) /\ UNCHANGED main
                   ELSE Http!Release(c) /\ UNCHANGED <<main, mail>>
        /\ UNCHANGED <<statsVars, notifierVars, terminated, agent, events, owed>>

\* A report leaves with the answer, whether the client gets that or not.
FinishWrite(c) ==
    /\ Http!OnWrite(c)
    /\ Leaves(LAMBDA cell : In(out[c].report, cell))
    /\ UNCHANGED <<statsVars, notifierVars, terminated, agent, main, mail, events>>

ServerStep ==
    \/ /\ Http!QuietStep
       /\ UNCHANGED <<statsVars, notifierVars, terminated, agent, main, mail, events, owed>>
    \/ \E c \in Connections : FinishWrite(c)
-----------------------------------------------------------------------------
\* The thread of Controller, HttpController and HttpNotifier
Received(what) == main # <<>> /\ Head(main).what = what

ControllerRequest ==
    /\ Received("request")
    /\ LET m == Head(main)
       IN  /\ SendReply(Tail(main), m.conn, Answer(m.n, m.req, NoReport))
           /\ terminated' = (terminated \/ m.req.path = "app/shutdown")
    /\ UNCHANGED <<ioc, accepting, read, got, out, statsVars,
                   notifierVars, agent, mail, events>>

HttpControllerReply ==
    /\ Received("reply")
    /\ Http!Write(Head(main).conn, Head(main).answer)
    /\ main' = Tail(main)
    /\ UNCHANGED <<ioc, accepting, read, got, statsVars,
                   notifierVars, terminated, agent, mail, events, owed>>

EvtSlackNotify ==
    /\ Received("notify")
    /\ Slack!Exec
    /\ main' = Tail(main)
    /\ UNCHANGED <<serverVars, statsVars, terminated, agent, mail, events, owed>>

\* so_evt_finish of the three agents
EvtFinish ==
    /\ Received("finish")
    /\ LET a == Head(main).to
       IN  /\ agent' = [agent EXCEPT ![a] = "finished"]
           /\ IF a = "HttpController" THEN Http!Stop ELSE UNCHANGED ioc
           /\ IF a = "HttpNotifier" THEN Slack!Exec ELSE UNCHANGED notifierVars
    /\ main' = Tail(main)
    /\ UNCHANGED <<accepting, conn, read, got, out, statsVars,
                   terminated, mail, events, owed>>

Leaving(a) == [b \in Agents |-> IF b \in Coop(a) THEN "leaving" ELSE agent[b]]

\* The server stopped by the check and not by so_evt_finish
StopsAtOnce(a) ==
    /\ terminated
    /\ a \in Watchers /\ Up(a)
    /\ agent' = Leaving(a)
    /\ IF a = "HttpController" THEN Http!Stop ELSE UNCHANGED ioc
    /\ main' = Append(main, Finish(a))
    /\ mail' = IF "StatsCollector" \in Coop(a) THEN Append(mail, Finish("StatsCollector")) ELSE mail
    /\ UNCHANGED <<accepting, conn, read, got, out, statsVars,
                   notifierVars, terminated, events, owed>>
\* The periodic ShutdownCheck, once the flag is set: the agent's coop leaves.
ShutdownCheck(a) ==
    /\ terminated
    /\ a \in Watchers /\ Up(a)
    /\ agent' = Leaving(a)
    /\ main' = Append(main, Finish(a))
    /\ mail' = IF "StatsCollector" \in Coop(a) THEN Append(mail, Finish("StatsCollector")) ELSE mail
    /\ UNCHANGED <<serverVars, statsVars, notifierVars, terminated, events, owed>>

MainStep == ControllerRequest \/ HttpControllerReply \/ EvtSlackNotify \/ EvtFinish
-----------------------------------------------------------------------------
\* The thread of StatsCollector
EvtMetric ==
    /\ Head(mail).what = "metric"
    /\ Stats!EvtMetric(Head(mail))
    /\ UNCHANGED <<serverVars, agent, main, owed>>

EvtHttpStats ==
    /\ Head(mail).what = "request" /\ ~ Stats!Throws(Head(mail).req)
    /\ LET m == Head(mail)
       IN  IF Stats!WellFormed(m.req)
           THEN /\ SendReply(main, m.conn, Answer(m.n, m.req, Stats!Report(m.req)))
                /\ Stats!EvtReport(m.req)
           ELSE /\ SendReply(main, m.conn, Answer(m.n, m.req, NoReport))
                /\ UNCHANGED book
    /\ UNCHANGED <<ioc, accepting, read, got, out, agent>>

StatsFinish ==
    /\ Head(mail).what = "finish"
    /\ agent' = [agent EXCEPT !["StatsCollector"] = "finished"]
    /\ UNCHANGED <<serverVars, book, main, owed>>

StatsStep ==
    /\ mail # <<>>
    /\ EvtMetric \/ EvtHttpStats \/ StatsFinish
    /\ mail' = Tail(mail)
    /\ UNCHANGED <<selector, notifierVars, terminated, events>>
-----------------------------------------------------------------------------
\* The IRC side: what is counted, and a session that is lost
Post(m) == mail' = IF Up("StatsCollector") THEN Append(mail, m) ELSE mail

\* One more in these cells; a metric that finds no StatsCollector leaves them.
Owe(cells, m) ==
    owed' = [cell \in Stats!Cells |->
                owed[cell] + (IF cell \in cells THEN 1 ELSE 0)
                           - (IF Up("StatsCollector") THEN 0 ELSE InMetric(m, cell))]

Command(s) ==
    /\ Stats!CountCommand(s)
    /\ Owe(Stats!SessionCells(s), Stats!Metric({}, 0))
    /\ UNCHANGED <<main, mail>>

Pong(s) ==
    LET m == Stats!SessionMetrics(s)
    IN  Stats!OnPong(s) /\ Post(m) /\ Owe(m.cells, m) /\ UNCHANGED main

ChatMessage(channel) ==
    LET m == Stats!MessageMetric(channel)
    IN  Post(m) /\ Owe(m.cells, m) /\ UNCHANGED <<selector, main>>

Disconnected ==
    /\ Up("HttpNotifier")
    /\ main' = Append(main, Notify)
    /\ UNCHANGED <<selector, mail, owed>>

IrcStep ==
    /\ agent["Chat"] # "gone"
    /\ events < MaxEvents
    /\ events' = events + 1
    /\ \/ \E s \in Stats!Sessions : Command(s) \/ Pong(s)
       \/ \E channel \in Channels : ChatMessage(channel)
       \/ Disconnected
    /\ UNCHANGED <<serverVars, book, notifierVars, terminated, agent>>
-----------------------------------------------------------------------------
\* The operator, or a signal
Signal ==
    /\ ~ terminated
    /\ terminated' = TRUE
    /\ UNCHANGED <<serverVars, statsVars, notifierVars, agent, main, mail, events, owed>>

\* The framework destroys the agents of a coop when all have finished.
CanGo(a) == /\ \A b \in Coop(a) : agent[b] = "finished"
            /\ agent' = [b \in Agents |-> IF b \in Coop(a) THEN "gone" ELSE agent[b]]

\* What the answers hold that are being written
SumOf(f) == FoldFunction(LAMBDA x, y : x + y, 0, f)

BeingWritten(cell) ==
    SumOf([c \in Connections |-> IF out[c] = NoAnswer THEN 0 ELSE In(out[c].report, cell)])

DestroyServer ==
    /\ CanGo("HttpController")
    /\ Http!Destroy
    /\ Leaves(BeingWritten)
    /\ UNCHANGED <<read, got, notifierVars>>

DestroyController ==
    /\ CanGo("Controller")
    /\ UNCHANGED <<serverVars, notifierVars, owed>>

StopNotifier ==
    /\ agent["HttpNotifier"] = "finished"
    /\ Slack!StopClient
    /\ UNCHANGED <<serverVars, agent, owed>>

DestroyNotifier ==
    /\ CanGo("HttpNotifier")
    /\ Slack!DestroyClient
    /\ UNCHANGED <<serverVars, owed>>

Teardown ==
    /\ DestroyServer \/ DestroyController \/ StopNotifier \/ DestroyNotifier
    /\ UNCHANGED <<statsVars, terminated, main, mail, events>>

ClientStep(w) ==
    /\ Slack!StartJob(w) \/ Slack!EndJob(w)
    /\ UNCHANGED <<serverVars, statsVars, terminated, agent, main, mail, events, owed>>

Step ==
    \/ ServerStep
    \/ \E c \in Connections, r \in Requests : ReadRequest(c, r)
    \/ MainStep \/ StatsStep \/ IrcStep
    \/ \E a \in Watchers : ShutdownCheck(a)
    \/ Signal \/ Teardown
    \/ \E w \in Workers : ClientStep(w)

Running(A) == ~ crashed /\ A /\ UNCHANGED <<busy, crashed>>

others == <<serverVars, statsVars, notifierVars, terminated, main, mail, owed>>

\* An agent of Chat runs a query or asks the pool for a connection, in a message
\* it has left when it is told to leave; that it does so at any time before is
\* of no effect here.
EnterDatabase ==
    /\ agent["Chat"] = "leaving" /\ ~ busy
    /\ events < MaxEvents
    /\ events' = events + 1
    /\ busy' = TRUE
    /\ UNCHANGED <<others, agent, crashed>>

LeaveDatabase ==
    /\ busy
    /\ busy' = FALSE
    /\ UNCHANGED <<others, agent, events, crashed>>

\* The last so_evt_finish of these agents
ChatFinish ==
    /\ agent["Chat"] = "leaving" /\ ~ busy
    /\ agent' = [agent EXCEPT !["Chat"] = "finished"]
    /\ UNCHANGED <<others, events, busy, crashed>>

\* nlohmann::json throws in the handler of a report.
EvtHttpThrows ==
    /\ mail # <<>> /\ Head(mail).what = "request" /\ Stats!Throws(Head(mail).req)
    /\ crashed' = TRUE
    /\ UNCHANGED <<others, agent, events, busy>>

ChatStep == EnterDatabase \/ LeaveDatabase \/ ChatFinish

Next ==
    \/ Running(Step)
    \/ ~ crashed /\ (ChatStep \/ EvtHttpThrows)

Spec == Init /\ [][Next]_vars

\* Threads run, timers fire, the framework destroys what has finished, and a
\* notification comes to an end; clients need not do anything, and neither need
\* the database answer.
FairSpec ==
    /\ Spec
    /\ WF_vars(Running(MainStep)) /\ WF_vars(Running(StatsStep)) /\ WF_vars(Running(Teardown))
    /\ WF_vars(~ crashed /\ ChatFinish) /\ WF_vars(~ crashed /\ EvtHttpThrows)
    /\ \A a \in Watchers : WF_vars(Running(ShutdownCheck(a)))
    /\ \A w \in Workers : WF_vars(Running(ClientStep(w)))
-----------------------------------------------------------------------------
\* A client gets the answers in the order of its requests (HTTPServer.tla),
\* whichever agent and thread answers each.
AnswersInOrder == Http!AnswersInOrder

\* No thread still sends a notification with a client that ~HTTPClient has
\* destroyed (HttpNotifier.tla).
NoJobOutlives == Slack!NoJobOutlives

\* HttpController stops its server only when it has had every reply written
\* that was sent to it, that to /app/shutdown among them.
RepliesBeforeStop ==
    (\E i \in DOMAIN main : main[i].what = "reply") => ioc = "running"

\* Whatever is counted is reported once or not yet: what has not left with an
\* answer is in a session's counters, on the way to StatsCollector, held there,
\* or in one answer that is under way.  (What is counted after StatsCollector
\* has gone leaves with it.)
Inside(cell) ==
      SumOf([s \in Stats!Sessions |->
                IF cell \in Stats!SessionCells(s) THEN selector[s] ELSE 0])
    + SumOf([i \in DOMAIN mail |->
                IF mail[i].what = "metric" THEN InMetric(mail[i], cell) ELSE 0])
    + Stats!Held(cell)
    + SumOf([i \in DOMAIN main |->
                IF main[i].what = "reply" THEN In(main[i].answer.report, cell) ELSE 0])
    + BeingWritten(cell)

Accounted == \A cell \in Stats!Cells : owed[cell] = Inside(cell)

\* No request waits for ever, nor is one answered twice: a session that waits
\* for its answer is owned by exactly one message, which some thread has yet to
\* handle, and no message is about another session.
Carries(m, c) == m.what \in {"request", "reply"} /\ m.conn = c

Owners(c) ==
    {<<"main", i>> : i \in {j \in DOMAIN main : Carries(main[j], c)}}
        \cup {<<"mail", i>> : i \in {j \in DOMAIN mail : Carries(mail[j], c)}}

OwnedByMessage ==
    \A c \in Connections :
        Cardinality(Owners(c)) = IF conn[c] = "handling" THEN 1 ELSE 0

\* Once asked to, the program ends: the three coops are destroyed, that of
\* Controller with all its children, or an exception has ended it before.
\* This takes a database that lets go of the agents again and again: without
\* it the retry of a query that never succeeds (PGConnection.cpp:130) keeps the
\* program from ending.
Ended == crashed \/ \A a \in Agents : agent[a] = "gone"

Terminates == []<>(~ busy) => (terminated ~> Ended)
=============================================================================
