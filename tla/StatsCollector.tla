--------------------------- MODULE StatsCollector ---------------------------
(***************************************************************************)
(* The counters of the program, from where they are counted to the HTTP    *)
(* request that reads and clears them.  An IRCSession counts what it       *)
(* receives in statsFromSelectorThread and swaps the counters out when a   *)
(* PONG comes; StatsCollector adds them up in several views, and a report  *)
(* of a view erases what it reports.                                       *)
(*                                                                         *)
(* Of the counters of a statistic one is kept; round trip times, which are  *)
(* replaced and not added, are left out, and so is statsFromSo5Thread,     *)
(* which is counted on two threads without a lock.  Sessions stay: one that *)
(* a reload or a removal destroys takes along what it has counted since its *)
(* last PONG.                                                              *)
(***************************************************************************)
EXTENDS Integers, FiniteSets, TLC

CONSTANTS Nicks,        \* nicknames of accounts
          SessionIds,   \* indices of the sessions of a client
          Channels

VARIABLES selector,     \* statsFromSelectorThread of each session
          book          \* allIrcStats, ircStats, channelsStats by view

statsVars == <<selector, book>>

Sessions == Nicks \X SessionIds

Views == {"irc", "account", "channel"}
Keys(view) == CASE view = "irc" -> {"all"}
                [] view = "account" -> Sessions
                [] view = "channel" -> Channels

\* Where one statistic is kept
Cells == UNION {{view} \X Keys(view) : view \in Views}

\* IRCStatistic::operator+= and the increments of ChannelStats
Plus(old, new) == old + new

Init ==
    /\ selector = [s \in Sessions |-> 0]
    /\ book = [view \in Views |-> << >>]

\* A metric: how much is added to which cells
Metric(cells, count) == [what |-> "metric", cells |-> cells, count |-> count]

SessionCells(s) == {<<"irc", "all">>, <<"account", s>>}

SessionMetrics(s) == Metric(SessionCells(s), selector[s] + 1)
MessageMetric(channel) == Metric({<<"channel", channel>>}, 1)

\* An IRCSession receives a command, on the selector's thread.
CountCommand(s) == selector' = [selector EXCEPT ![s] = @ + 1]

\* onPong: counted like any command, then sendStats swaps the counters out.
KeepsCounting(s) == [selector EXCEPT ![s] = @ + 1]
AfterPong(s) == [selector EXCEPT ![s] = 0]

OnPong(s) == selector' = AfterPong(s)

\* evtIRCMetrics, evtRecvMessageMetric, evtSendMessageMetric
Added(m) ==
    [view \in Views |->
        LET new == {k \in Keys(view) : <<view, k>> \in m.cells}
        IN  [k \in DOMAIN book[view] \cup new |->
                LET old == IF k \in DOMAIN book[view] THEN book[view][k] ELSE 0
                IN  IF k \in new THEN Plus(old, m.count) ELSE old]]

EvtMetric(m) == book' = Added(m)
-----------------------------------------------------------------------------
\* A body that is no JSON, or whose accounts or channels are no array, is
\* answered with 400 and no report ("bad"); one that is JSON but no object, or
\* whose array holds anything but strings, makes nlohmann::json throw
\* ("wrong"); /stats/irc has no use for a body.
WellFormed(r) == r.path = "stats/irc" \/ r.body # "bad"

Throws(r) == r.path # "stats/irc" /\ r.body = "wrong"

\* The view a request asks for, and which entries of it: all, unless the body
\* names an account or a channel.
View(r) == CASE r.path = "stats/irc" -> "irc"
             [] r.path = "stats/account" -> "account"
             [] r.path = "stats/channel" -> "channel"

Held(cell) ==
    IF cell[2] \in DOMAIN book[cell[1]] THEN book[cell[1]][cell[2]] ELSE 0

Names(view, k) == CASE view = "irc" -> ""
                    [] view = "account" -> k[1]
                    [] view = "channel" -> k

Reported(r) ==
    {k \in DOMAIN book[View(r)] :
        View(r) = "irc" \/ r.body \in {"", Names(View(r), k)}}

\* What is answered: cells with their counts
Report(r) ==
    [cell \in {View(r)} \X Reported(r) |-> book[View(r)][cell[2]]]

Rest(r) ==
    [k \in DOMAIN book[View(r)] \ Reported(r) |-> book[View(r)][k]]

\* evtHttpIrcStats, evtHttpAccountsStats, evtHttpChannelsStats
EvtReport(r) == book' = [book EXCEPT ![View(r)] = Rest(r)]
=============================================================================
