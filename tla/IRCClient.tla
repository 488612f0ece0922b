------------------------------ MODULE IRCClient ------------------------------
(***************************************************************************)
(* One IRC account: the agent IRCClient, its sessions and the selector     *)
(* threads that serve their sockets.                                       *)
(*                                                                         *)
(* The agent handles its mailbox on one thread (client).  The callbacks of *)
(* a session run on a selector thread (selector[s]); all sessions share it *)
(* when oneSelector holds, and each has its own when it does not, the most *)
(* concurrency config.threads can give.  Both kinds of thread run          *)
(* IRCSession::onDisconnected, so it is here in two steps, Close and       *)
(* Report, that either takes.  Outside the program are the                 *)
(* network, the chat server and libircclient, of which the sources rely    *)
(* on: irc_connect succeeds on a fresh or disconnected session only, a     *)
(* lost connection leads to one on_disconnected, and nothing is sent       *)
(* unless the socket is connected.                                         *)
(*                                                                         *)
(* Sessions are numbered in the order of their creation.  A run starts     *)
(* from a setup, which has the bounds too: how often the environment goes  *)
(* wrong, and the requests the controller sends, each at most once.        *)
(* Sessions bounds the reloads.                                            *)
(*                                                                         *)
(* A step whose effect is undefined sets ub, to what went wrong, and ends  *)
(* the run: a dereference of nothing or of a destroyed session or client,  *)
(* the end of a list erased, a division by zero, an index out of range,    *)
(* and a race of the two threads at what neither owns (Race).  Fields of   *)
(* one word that both use without a lock (the two ping times, session_     *)
(* count) are taken as atomic, and so is what libircclient itself shares:  *)
(* irc_disconnect beside the selector at the same socket does what one of  *)
(* the two orders does.                                                    *)
(***************************************************************************)
EXTENDS FiniteSets, Sequences, BagsExt, IRCChannelList

CONSTANTS Channels,       \* channel names
          Sessions,       \* sessions the account may ever create
          AttemptsLimit,  \* conConfig.connect_attemps_limit, which is not checked
          DbChannels,     \* the sets load() may read
          Requests,       \* what IRCController may send
          Setups          \* where a run may start

Setup == [sessions : Nat,           \* session_count at the start
          oneSelector : BOOLEAN,    \* is config.threads 1, its default
          faults : Nat,             \* bound
          commands : SUBSET Requests]

ASSUME ClientAssumption ==
    /\ NoSession \notin Sessions
    /\ Sessions \subseteq Nat /\ IsFiniteSet(Sessions)
    /\ IsFiniteSet(Channels)
    /\ AttemptsLimit \in Nat \ {0}
    /\ DbChannels \subseteq SUBSET Channels
    /\ Setups \subseteq Setup

VARIABLES sessionCount,  \* cliConfig.session_count
          oneSelector,   \* as in the setup
          agenda,        \* as in the setup: the requests that may come
          cursor,        \* curSessionRoundRobin
          life,      \* of each session: "unborn", "live", "removed" or "freed"
          conn,      \* what each session and its socket know
          channels,  \* the map of IRCChannelList
          server,    \* the server's view of each session's channels
          mailbox,   \* messages to the agent
          delayed,   \* messages on the timer thread, a bag
          client,    \* where the agent's thread is
          selector,  \* where each session's selector thread is
          commands,  \* requests sent so far
          twice,     \* history: has a login reserved for a session that held channels
          faults,    \* faults still to come
          ub         \* what ended the run, or "none"

account == <<sessionCount, oneSelector, agenda, cursor>>
history == <<commands, twice>>
vars == <<account, life, conn, channels, server, mailbox, delayed, client,
          selector, history, faults, ub>>
net == <<conn, server>>
-----------------------------------------------------------------------------
Connect(s, n)      == [type |-> "Connect", session |-> s, attempt |-> n]
LoggedInCheck(s)   == [type |-> "LoggedInCheck", session |-> s]
SendPING(s)        == [type |-> "SendPING", session |-> s]
CheckJoined(s, C)  == [type |-> "CheckJoined", session |-> s, channels |-> C]
ChannelJoined(c)   == [type |-> "ChannelJoined", channel |-> c]
JoinChannel(c)     == [type |-> "JoinChannel", channel |-> c]
LeaveChannel(c)    == [type |-> "LeaveChannel", channel |-> c]
SendMessage        == [type |-> "SendMessage"]   \* or SendIRC
Reload(n)          == [type |-> "Reload", count |-> n]   \* the new session_count
Shutdown           == [type |-> "Shutdown"]
Finish             == [type |-> "Finish"]   \* SObjectizer's last demand

\* The controller sends requests and nothing else.
ASSUME RequestsAssumption ==
    Requests \subseteq {JoinChannel(c) : c \in Channels}
                   \cup {LeaveChannel(c) : c \in Channels}
                   \cup [type : {"Reload"}, count : Nat] \cup {SendMessage, Shutdown}

Live == {s \in Sessions : life[s] = "live"}
Freed(s) == life[s] = "freed"

\* connected(), and whether libircclient lets a command out
Up(s) == conn[s].net \in {"connecting", "connected", "welcomed"}
Sendable(s) == conn[s].net \in {"connected", "welcomed"}

\* A coop being deregistered takes no more messages.
Open == /\ client.at # "stopped"
        /\ \A i \in DOMAIN mailbox : mailbox[i].type # "Finish"
Sent(q, m) == IF Open THEN Append(q, m) ELSE q
NoMessages == [m \in {} |-> 0]   \* the empty bag
Delay(m) == delayed' = IF Open THEN BagAdd(delayed, m) ELSE delayed

Fresh == [net |-> "init", quiet |-> FALSE, overdue |-> FALSE,
          logged |-> FALSE, ping |-> FALSE]
Outside == [c \in Channels |-> "out"]
Idle == [at |-> "idle", session |-> NoSession]

Fault == faults > 0 /\ faults' = faults - 1

\* What a JOIN and a PART sent now leave at the server, which ignores both
\* before it has welcomed the session.
AfterJoin(s, C) ==
    [c \in Channels |->
        IF c \in C /\ conn[s].net = "welcomed" /\ server[s][c] = "out"
        THEN "asked" ELSE server[s][c]]
\* PART after JOIN
JoinThenPart(s, C) ==
    [c \in Channels |->
        IF c \in C /\ conn[s].net = "welcomed" THEN "out" ELSE server[s][c]]
AfterRejoin(s, C) ==
    [c \in Channels |->
        IF c \in C /\ conn[s].net = "welcomed" THEN "asked" ELSE server[s][c]]
-----------------------------------------------------------------------------
\* The next sessions, n of them and at least MIN_SESS_COUNT
AtLeastOne(n) == IF n = 0 THEN 1 ELSE n
Before(S, s) == {u \in S : u < s}
FirstOf(unborn, n) ==
    {s \in unborn : Cardinality(Before(unborn, s)) < AtLeastOne(n)}
InOrder(S) ==
    [i \in 1 .. Cardinality(S) |-> CHOOSE s \in S : Cardinality(Before(S, s)) = i - 1]

\* so_evt_start: load the channels, open session_count sessions
SkipLast(order) == [i \in 1 .. Len(order) - 1 |-> Connect(order[i], 0)]
ConnectAll(order) == [i \in DOMAIN order |-> Connect(order[i], 0)]

Init == /\ \E names \in DbChannels : channels = Load(names)
        /\ \E u \in Setups : /\ sessionCount = u.sessions
                            /\ oneSelector = u.oneSelector
                            /\ faults = u.faults
                            /\ agenda = u.commands
        /\ cursor = 0
        /\ commands = {}
        /\ twice = FALSE
        /\ LET S == FirstOf(Sessions, sessionCount)
           IN /\ Cardinality(S) = AtLeastOne(sessionCount)
              /\ life = [s \in Sessions |-> IF s \in S THEN "live" ELSE "unborn"]
              /\ mailbox = ConnectAll(InOrder(S))
        /\ conn = [s \in Sessions |-> Fresh]
        /\ server = [s \in Sessions |-> Outside]
        /\ delayed = NoMessages
        /\ client = Idle
        /\ selector = [s \in Sessions |-> [at |-> "idle", list |-> {}]]
        /\ ub = "none"

\* Answers the server owes and nothing holds up: they are there long before the
\* timer that checks for them, unless the environment is slow, a fault.
LoggingIn(s) ==
    ~ conn[s].logged /\ \/ Up(s) /\ conn[s].net # "welcomed" /\ ~ conn[s].quiet
                        \/ selector[s].at = "welcomed"
Joining(s, C) == ~ conn[s].quiet /\ \E c \in C : server[s][c] = "asked"

\* The agent takes the head of its mailbox; the handler of most messages
\* with a session dereferences it.
At(step, type) == client.at = step /\ mailbox # <<>> /\ Head(mailbox).type = type
Take(type) == At("idle", type)
TakeFor(type) == Take(type) /\ ~ Freed(Head(mailbox).session)

\* The attempt a retry carries: back to 0 at the configured limit
NeverReset(n) == n + 1
NextAttempt(n) == IF n + 1 = AttemptsLimit THEN 0 ELSE n + 1

\* evtConnect: a session that is up is left alone; one whose connection the
\* selector thread has not cleared yet, or that cannot be reached, is retried.
EvtConnectUp ==
    /\ TakeFor("Connect")
    /\ Up(Head(mailbox).session)
    /\ mailbox' = Tail(mailbox)
    /\ UNCHANGED <<account, life, net, channels, delayed, client, selector, history, faults, ub>>

EvtConnect ==
    LET s == Head(mailbox).session
    IN /\ TakeFor("Connect")
       /\ conn[s].net = "init"
       /\ conn' = [conn EXCEPT ![s].net = "connecting"]
       /\ client' = [at |-> "connected", session |-> s]
       /\ mailbox' = Tail(mailbox)
       /\ UNCHANGED <<account, life, channels, server, delayed, selector, history, faults, ub>>

EvtConnectFails ==
    LET s == Head(mailbox).session
    IN /\ TakeFor("Connect")
       /\ ~ Up(s)
       /\ IF conn[s].net = "init" THEN Fault ELSE UNCHANGED faults
       /\ Delay(Connect(s, NextAttempt(Head(mailbox).attempt)))
       /\ mailbox' = Tail(mailbox)
       /\ UNCHANGED <<account, life, net, channels, client, selector, history, ub>>

\* What IRCSession::connect does once irc_connect has returned
StillLogged(k) == [k EXCEPT !.overdue = FALSE]
Renewed(k) == [k EXCEPT !.overdue = FALSE, !.logged = FALSE]

\* The rest of IRCSession::connect and of evtConnect: by now the selector
\* thread may have seen the socket connect, and even the login.
EvtConnected ==
    LET s == client.session
    IN /\ client.at = "connected" /\ ~ Freed(s)
       /\ conn' = [conn EXCEPT ![s] = Renewed(@)]
       /\ Delay(LoggedInCheck(s))
       /\ client' = Idle
       /\ UNCHANGED <<account, life, channels, server, mailbox, selector, history, faults, ub>>

EvtLoggedInCheck ==
    LET s == Head(mailbox).session
    IN /\ TakeFor("LoggedInCheck")
       /\ IF LoggingIn(s) THEN Fault ELSE UNCHANGED faults
       /\ client' = IF conn[s].logged THEN Idle ELSE [at |-> "closing", session |-> s]
       /\ mailbox' = Tail(mailbox)
       /\ UNCHANGED <<account, life, net, channels, delayed, selector, history, ub>>

\* sendPing: overdue stands for lastPingTime - lastPongTime >= the timeout,
\* which only a PING that went out and stays unanswered can bring about.
EvtSendPING ==
    LET s == Head(mailbox).session
    IN /\ TakeFor("SendPING")
       /\ client' = IF conn[s].overdue THEN [at |-> "closing", session |-> s] ELSE Idle
       /\ conn' = [conn EXCEPT ![s].overdue = @ \/ (conn[s].quiet /\ Sendable(s))]
       /\ mailbox' = Tail(mailbox)
       /\ UNCHANGED <<account, life, channels, server, delayed, selector, history, faults, ub>>

EvtChannelJoined ==
    /\ Take("ChannelJoined")
    /\ channels' = MarkJoined(channels, Head(mailbox).channel)
    /\ mailbox' = Tail(mailbox)
    /\ UNCHANGED <<account, life, net, delayed, client, selector, history, faults, ub>>

\* evtCheckJoinedChannels: PART and JOIN again what was not confirmed, and
\* look once more later; with everything confirmed the session is not used.
EvtAllJoined ==
    /\ Take("CheckJoined")
    /\ NotJoined(channels, Head(mailbox).channels) = {}
    /\ mailbox' = Tail(mailbox)
    /\ UNCHANGED <<account, life, net, channels, delayed, client, selector, history, faults, ub>>

EvtRejoin ==
    LET s == Head(mailbox).session
        rejoin == NotJoined(channels, Head(mailbox).channels)
    IN /\ TakeFor("CheckJoined")
       /\ rejoin # {}
       /\ server' = [server EXCEPT ![s] = AfterRejoin(s, rejoin)]
       /\ Delay(CheckJoined(s, rejoin))
       /\ mailbox' = Tail(mailbox)
       /\ UNCHANGED <<account, life, conn, channels, client, selector, history, faults, ub>>

\* getNextConnectedSessionRoundRobin over the sessions in their order: the
\* first from the cursor on that is up, or the last one tried if none is.  The
\* only session is taken without the cursor.
Index(s) == Cardinality(Before(Live, s))
Turns(s) == (Index(s) - cursor) % Cardinality(Live)
NextConnected(s) ==
    IF \E u \in Live : Up(u)
    THEN Up(s) /\ \A u \in Live : Up(u) => Turns(s) <= Turns(u)
    ELSE Turns(s) = Cardinality(Live) - 1
MoveCursor(s) ==
    cursor' = IF Cardinality(Live) = 1 THEN cursor
              ELSE (Index(s) + 1) % Cardinality(Live)

\* Nothing takes the cursor back when there are fewer sessions.
OutOfRange == Cardinality(Live) > 1 /\ cursor >= Cardinality(Live)

\* evtJoinChannel: the JOIN is sent, and the channel added only if it could be.
EvtJoinChannel ==
    LET c == Head(mailbox).channel
    IN /\ Take("JoinChannel") /\ ~ OutOfRange
       /\ \E s \in Live :
             /\ NextConnected(s)
             /\ MoveCursor(s)
             /\ IF c \in DOMAIN channels \/ ~ Sendable(s)
                THEN /\ mailbox' = Tail(mailbox)
                     /\ UNCHANGED <<client, server>>
                ELSE /\ client' = [at |-> "adding", session |-> s]
                     /\ server' = [server EXCEPT ![s] = AfterJoin(s, {c})]
                     /\ UNCHANGED mailbox
       /\ UNCHANGED <<sessionCount, oneSelector, agenda, life, conn, channels, delayed,
                      selector, history, faults, ub>>

\* addChannel, by when the session may have lost its connection: the message
\* is the head of the mailbox until its handler is done.
EvtAddChannel ==
    /\ At("adding", "JoinChannel")
    /\ channels' = AddChannel(channels, Head(mailbox).channel, client.session)
    /\ mailbox' = Tail(mailbox)
    /\ client' = Idle
    /\ UNCHANGED <<account, life, net, delayed, selector, history, faults, ub>>

\* evtSendMessage and evtSendIRC: of what they do only the round robin is here.
EvtSendMessage ==
    /\ Take("SendMessage") /\ ~ OutOfRange
    /\ \E s \in Live : NextConnected(s) /\ MoveCursor(s)
    /\ mailbox' = Tail(mailbox)
    /\ UNCHANGED <<sessionCount, oneSelector, agenda, life, net, channels, delayed, client,
                   selector, history, faults, ub>>

\* sessions[i] of a cursor that is left from more sessions
EvtOutOfRange ==
    /\ Take("JoinChannel") \/ Take("SendMessage")
    /\ OutOfRange
    /\ ub' = "range"
    /\ UNCHANGED <<account, life, net, channels, mailbox, delayed, client, selector, history, faults>>

\* evtLeaveChannel: PART through the session the entry names.
EvtLeaveUnknown ==
    /\ Take("LeaveChannel")
    /\ Head(mailbox).channel \notin DOMAIN channels
    /\ mailbox' = Tail(mailbox)
    /\ UNCHANGED <<account, life, net, channels, delayed, client, selector, history, faults, ub>>

EvtLeaveChannel ==
    LET c == Head(mailbox).channel
        s == channels[c].session
    IN /\ Take("LeaveChannel")
       /\ c \in DOMAIN channels
       /\ channels' = ExtractChannel(channels, c)
       /\ mailbox' = Tail(mailbox)
       /\ ub' = CASE s = NoSession -> "null"
                  [] s # NoSession /\ Freed(s) -> "freed"
                  [] OTHER -> "none"
       /\ server' = IF ub' = "none" /\ conn[s].net = "welcomed"
                    THEN [server EXCEPT ![s][c] = "out"] ELSE server
       /\ UNCHANGED <<account, life, conn, delayed, client, selector, history, faults>>

\* A socket closed by this side: the server drops the session's channels.
Disconnected(S) ==
    /\ conn' = [s \in Sessions |->
                  IF s \in S THEN [conn[s] EXCEPT !.net = "init", !.quiet = FALSE,
                                                  !.ping = FALSE]
                  ELSE conn[s]]
    /\ server' = [s \in Sessions |-> IF s \in S THEN Outside ELSE server[s]]

\* IRCSelectorPool::removeSession takes a session from every selector, and a
\* selector that does not have it erases the end of its list.
RemoveFromSelectors == ub' = IF oneSelector THEN ub ELSE "erase"

\* The sessions there are for another n
Unused == {s \in Sessions : life[s] = "unborn"}
Enough(n) == Cardinality(FirstOf(Unused, n)) = AtLeastOne(n)

\* evtReload, first half: the old sessions leave.  Messages for them stay where
\* they are, and the selector threads go on.
EvtReload ==
    /\ Take("Reload")
    /\ Enough(Head(mailbox).count)   \* bound
    /\ sessionCount' = Head(mailbox).count
    /\ life' = [s \in Sessions |-> IF s \in Live THEN "removed" ELSE life[s]]
    /\ Disconnected(Live)
    /\ RemoveFromSelectors
    /\ mailbox' = Tail(mailbox)
    /\ client' = [at |-> "reloading", session |-> NoSession]
    /\ UNCHANGED <<oneSelector, agenda, cursor, channels, delayed, selector, history, faults>>

\* Second half: the channels are read again and a new set of sessions starts.
EvtReloaded ==
    /\ client.at = "reloading"
    /\ LET S == FirstOf(Unused, sessionCount)
       IN /\ life' = [s \in Sessions |-> IF s \in S THEN "live" ELSE life[s]]
          /\ mailbox' = mailbox \o (IF Open THEN ConnectAll(InOrder(S)) ELSE <<>>)
    /\ \E names \in DbChannels : channels' = Load(names)
    /\ client' = Idle
    /\ UNCHANGED <<account, net, delayed, selector, history, faults, ub>>

\* evtShutdown asks SObjectizer to deregister the agent: what the mailbox
\* holds is still handled, then so_evt_finish, and the agent is gone.
EvtShutdown ==
    /\ Take("Shutdown")
    /\ mailbox' = Tail(mailbox) \o (IF Open THEN <<[type |-> "Finish"]>> ELSE <<>>)
    /\ UNCHANGED <<account, life, net, channels, delayed, client, selector, history, faults, ub>>

EvtFinish ==
    /\ Take("Finish")
    /\ life' = [s \in Sessions |-> IF s \in Live THEN "removed" ELSE life[s]]
    /\ Disconnected(Live)
    /\ client' = [at |-> "stopped", session |-> NoSession]
    /\ mailbox' = <<>>
    /\ delayed' = NoMessages
    /\ RemoveFromSelectors
    /\ UNCHANGED <<account, channels, selector, history, faults>>

\* A handler that uses a session the selector thread has destroyed; the last
\* is evtGatherStats, which asks every channel's session for its id.
EvtFreed ==
    /\ \/ \E type \in {"Connect", "LoggedInCheck", "SendPING"} :
             Take(type) /\ Freed(Head(mailbox).session)
       \/ /\ Take("CheckJoined") /\ Freed(Head(mailbox).session)
          /\ NotJoined(channels, Head(mailbox).channels) # {}
       \/ client.at \in {"connected", "closing", "closed"} /\ Freed(client.session)
       \/ /\ client.at = "idle"
          /\ \E c \in DOMAIN channels : Attached(channels, c) /\ Freed(channels[c].session)
    /\ ub' = "freed"
    /\ UNCHANGED <<account, life, net, channels, mailbox, delayed, client, selector, history, faults>>
-----------------------------------------------------------------------------
\* IRCSession::onDisconnected up to the listener, on whichever thread
KeepSocket(s) == conn' = [conn EXCEPT ![s].ping = FALSE] /\ UNCHANGED server
Close(s) == Disconnected({s})

\* The ping timer of a session is assigned without a lock, by onDisconnected on
\* either thread, by onLoggedIn and by evtReload; so are cliConfig and loggerTag
\* by evtReload, which the selector threads read in onLoggedIn, onDisconnected
\* and, at a PONG, onStatistics.  Two threads there at once leave what either
\* order does, as the other steps here have it, or something undefined.
AtPingTimer(s) == selector[s].at \in {"closing", "reserved"}
AtAccount(s) ==
    \/ selector[s].at \in {"logged", "reserved", "closed"}
    \/ conn[s].ping /\ ~ conn[s].quiet
Race(s) ==
    /\ \/ client.at = "closing" /\ client.session = s /\ AtPingTimer(s)
       \/ Take("Reload") /\ AtAccount(s)
       \/ Take("Reload") /\ life[s] = "live" /\ AtPingTimer(s)
    /\ ub' = "race"
    /\ UNCHANGED <<account, life, net, channels, mailbox, delayed, client, selector, history, faults>>

\* IRCClient::onDisconnected
Report(s) == /\ channels' = DetachFrom(channels, s)
             /\ mailbox' = Sent(mailbox, Connect(s, 0))

ClientClose ==
    /\ client.at = "closing" /\ ~ Freed(client.session)
    /\ Close(client.session)
    /\ client' = [client EXCEPT !.at = "closed"]
    /\ UNCHANGED <<account, life, channels, mailbox, delayed, selector, history, faults, ub>>

ClientReport ==
    /\ client.at = "closed" /\ ~ Freed(client.session)
    /\ Report(client.session)
    /\ client' = Idle
    /\ UNCHANGED <<account, life, net, delayed, selector, history, faults, ub>>
-----------------------------------------------------------------------------
SelectorAt(s, here) == selector[s].at = here
SelectorTo(s, there) == selector' = [selector EXCEPT ![s].at = there]

\* The thread that serves s is between two callbacks.
SelectorFree(s) ==
    \A u \in IF oneSelector THEN Sessions ELSE {s} : SelectorAt(u, "idle")

\* A callback into a listener that no longer exists
Listener == ub' = IF client.at = "stopped" THEN "client" ELSE ub

SelectorClose(s) ==
    /\ SelectorAt(s, "closing")
    /\ Close(s)
    /\ SelectorTo(s, "closed")
    /\ UNCHANGED <<account, life, channels, mailbox, delayed, client, history, faults, ub>>

SelectorReport(s) ==
    /\ SelectorAt(s, "closed")
    /\ Report(s)
    /\ SelectorTo(s, "idle")
    /\ Listener
    /\ UNCHANGED <<account, life, net, delayed, client, history, faults>>

\* IRCSession::onLoggedIn and IRCClient::onLoggedIn, step by step
SelectorLogged(s) ==
    /\ SelectorAt(s, "welcomed")
    /\ conn' = [conn EXCEPT ![s].logged = TRUE]
    /\ SelectorTo(s, "logged")
    /\ UNCHANGED <<account, life, channels, server, mailbox, delayed, client, history, faults, ub>>

SelectorReserve(s) ==
    /\ SelectorAt(s, "logged") /\ sessionCount # 0
    /\ \E R \in Reservations(channels, sessionCount) :
          /\ channels' = Attach(channels, R, s)
          /\ selector' = [selector EXCEPT ![s] = [at |-> "reserved", list |-> R]]
    /\ twice' = (twice \/ HeldBy(channels, s) # {})
    /\ Listener
    /\ UNCHANGED <<account, life, net, mailbox, delayed, client, commands, faults>>

\* The share is a division by session_count, which nothing keeps from 0.
SelectorDivides(s) ==
    /\ SelectorAt(s, "logged") /\ sessionCount = 0
    /\ ub' = "division"
    /\ UNCHANGED <<account, life, net, channels, mailbox, delayed, client,
                   selector, history, faults>>

SelectorJoin(s) ==
    /\ SelectorAt(s, "reserved")
    /\ server' = [server EXCEPT ![s] = AfterJoin(s, selector[s].list)]
    /\ conn' = [conn EXCEPT ![s].ping = TRUE]
    /\ Delay(CheckJoined(s, selector[s].list))
    /\ selector' = [selector EXCEPT ![s] = [at |-> "idle", list |-> {}]]
    /\ Listener
    /\ UNCHANGED <<account, life, channels, mailbox, client, history, faults>>

\* The selector's next copy of its sessions drops the last reference, if the
\* client has let go of its own.
NeverHeld(s) == life[s] \in {"live", "removed"}
LetGo(s) == life[s] = "removed"
SelectorSync(s) ==
    /\ SelectorFree(s)
    /\ LetGo(s)
    /\ life' = [life EXCEPT ![s] = "freed"]
    /\ conn' = [conn EXCEPT ![s] = Fresh]
    /\ server' = [server EXCEPT ![s] = Outside]
    /\ UNCHANGED <<account, channels, mailbox, delayed, client, selector, history, faults, ub>>
-----------------------------------------------------------------------------
\* The network and the server; what they do wrong counts as a fault.
NetConnected(s) ==
    /\ SelectorFree(s)
    /\ conn[s].net = "connecting"
    /\ conn' = [conn EXCEPT ![s].net = "connected"]
    /\ UNCHANGED <<account, life, channels, server, mailbox, delayed, client, selector, history, faults, ub>>

\* A login finished before the agent is back from irc_connect is a race a
\* whole exchange with the server has to win: it counts as a fault too.
Welcome(s) ==
    /\ SelectorFree(s)
    /\ conn[s].net = "connected" /\ ~ conn[s].quiet
    /\ IF client = [at |-> "connected", session |-> s] THEN Fault ELSE UNCHANGED faults
    /\ conn' = [conn EXCEPT ![s].net = "welcomed"]
    /\ SelectorTo(s, "welcomed")
    /\ UNCHANGED <<account, life, channels, server, mailbox, delayed, client, history, ub>>

\* The connection breaks or is refused; libircclient calls on_disconnected.
NetLost(s) ==
    /\ SelectorFree(s)
    /\ Up(s)
    /\ Fault
    /\ conn' = [conn EXCEPT ![s].net = "lost"]
    /\ server' = [server EXCEPT ![s] = Outside]
    /\ SelectorTo(s, "closing")
    /\ UNCHANGED <<account, life, channels, mailbox, delayed, client, history, ub>>

\* The server stops answering, and may come back late.
Silence(s) ==
    /\ Sendable(s) /\ ~ conn[s].quiet
    /\ Fault
    /\ conn' = [conn EXCEPT ![s].quiet = TRUE]
    /\ UNCHANGED <<account, life, channels, server, mailbox, delayed, client, selector, history, ub>>

Answer(s) ==
    /\ SelectorFree(s)
    /\ conn[s].quiet
    /\ conn' = [conn EXCEPT ![s].quiet = FALSE, ![s].overdue = FALSE]
    /\ UNCHANGED <<account, life, channels, server, mailbox, delayed, client, selector, history, faults, ub>>

\* The server confirms a JOIN: onJoin and IRCClient::onJoined
JoinAck(s, c) ==
    /\ SelectorFree(s)
    /\ server[s][c] = "asked" /\ ~ conn[s].quiet
    /\ server' = [server EXCEPT ![s][c] = "in"]
    /\ mailbox' = Sent(mailbox, ChannelJoined(c))
    /\ UNCHANGED <<account, life, conn, channels, delayed, client, selector, history, faults, ub>>

\* The server drops a JOIN.
JoinLost(s, c) ==
    /\ server[s][c] = "asked"
    /\ Fault
    /\ server' = [server EXCEPT ![s][c] = "out"]
    /\ UNCHANGED <<account, life, conn, channels, mailbox, delayed, client, selector, history, ub>>

\* A delayed message arrives.
TimerFires(type, s) ==
    \E m \in DOMAIN delayed :
        /\ m.type = type /\ m.session = s
        /\ Open
        /\ IF type = "CheckJoined" /\ Joining(s, m.channels)
           THEN Fault ELSE UNCHANGED faults
        /\ mailbox' = Append(mailbox, m)
        /\ delayed' = BagRemove(delayed, m)
        /\ UNCHANGED <<account, life, net, channels, client, selector, history, ub>>

\* The periodic SendPING.  A PING that will be answered changes nothing and is
\* left out, and so is a second one behind one not handled yet.
PingTick(s) ==
    /\ Open
    /\ conn[s].ping
    /\ conn[s].quiet \/ conn[s].overdue
    /\ \A i \in DOMAIN mailbox : mailbox[i] # SendPING(s)
    /\ mailbox' = Append(mailbox, SendPING(s))
    /\ UNCHANGED <<account, life, net, channels, delayed, client, selector, history, faults, ub>>

\* IRCController sends a request.
Command(m) ==
    /\ m \in agenda \ commands
    /\ Open
    /\ mailbox' = Append(mailbox, m)
    /\ commands' = commands \cup {m}
    /\ UNCHANGED <<account, life, net, channels, delayed, client, selector, twice, faults, ub>>
-----------------------------------------------------------------------------
ClientStep ==
    \/ EvtConnectUp \/ EvtConnect \/ EvtConnectFails \/ EvtConnected
    \/ EvtLoggedInCheck \/ EvtSendPING \/ EvtChannelJoined
    \/ EvtAllJoined \/ EvtRejoin
    \/ EvtJoinChannel \/ EvtAddChannel \/ EvtSendMessage \/ EvtOutOfRange
    \/ EvtLeaveUnknown \/ EvtLeaveChannel
    \/ EvtReload \/ EvtReloaded \/ EvtShutdown \/ EvtFinish \/ EvtFreed
    \/ ClientClose \/ ClientReport

SelectorStep(s) ==
    \/ SelectorClose(s) \/ SelectorReport(s)
    \/ SelectorLogged(s) \/ SelectorReserve(s) \/ SelectorDivides(s)
    \/ SelectorJoin(s)
    \/ SelectorSync(s)

NetStep(s) ==
    \/ NetConnected(s) \/ Welcome(s) \/ NetLost(s) \/ Silence(s) \/ Answer(s)
    \/ PingTick(s)
    \/ \E c \in Channels : JoinAck(s, c) \/ JoinLost(s, c)

Timers == {"Connect", "LoggedInCheck", "CheckJoined"}

Next == /\ ub = "none"
        /\ \/ ClientStep
           \/ \E s \in Sessions : SelectorStep(s) \/ NetStep(s) \/ Race(s)
           \/ \E s \in Sessions, type \in Timers : TimerFires(type, s)
           \/ \E m \in Requests : Command(m)

Spec == Init /\ [][Next]_vars
-----------------------------------------------------------------------------
Entry == [session : Sessions \cup {NoSession}, joined : BOOLEAN]

Message == [type : {"Connect"}, session : Sessions, attempt : 0 .. AttemptsLimit - 1]
    \cup [type : {"LoggedInCheck", "SendPING"}, session : Sessions]
    \cup [type : {"CheckJoined"}, session : Sessions, channels : SUBSET Channels]
    \cup [type : {"ChannelJoined", "JoinChannel", "LeaveChannel"}, channel : Channels]
    \cup [type : {"SendMessage", "Shutdown", "Finish"}]
    \cup [type : {"Reload"}, count : Nat]

\* Among the types, a reconnection attempt never reaches the limit, so that
\* the shift 1 << attempt that delays it stays within the configured range.
TypeOK ==
    /\ sessionCount \in Nat
    /\ oneSelector \in BOOLEAN
    /\ cursor \in Nat
    /\ life \in [Sessions -> {"unborn", "live", "removed", "freed"}]
    /\ conn \in [Sessions -> [net : {"init", "connecting", "connected", "welcomed", "lost"},
                              quiet : BOOLEAN, overdue : BOOLEAN,
                              logged : BOOLEAN, ping : BOOLEAN]]
    /\ DOMAIN channels \subseteq Channels
    /\ channels \in [DOMAIN channels -> Entry]
    /\ server \in [Sessions -> [Channels -> {"out", "asked", "in"}]]
    /\ mailbox \in Seq(Message)
    /\ DOMAIN delayed \subseteq Message
    /\ client \in [at : {"idle", "connected", "closing", "closed", "adding",
                          "reloading", "stopped"},
                   session : Sessions \cup {NoSession}]
    /\ selector \in [Sessions -> [at : {"idle", "welcomed", "logged", "reserved",
                                        "closing", "closed"},
                                  list : SUBSET Channels]]
    /\ agenda \subseteq Requests
    /\ commands \subseteq agenda
    /\ twice \in BOOLEAN
    /\ faults \in Nat
    /\ ub \in {"none", "freed", "null", "client", "erase", "division", "range", "race"}

Pending(m) == m \in DOMAIN delayed \/ \E i \in DOMAIN mailbox : mailbox[i] = m
PendingConnect(s) == \E n \in 0 .. AttemptsLimit - 1 : Pending(Connect(s, n))

InLogin(s) == selector[s].at \in {"logged", "reserved"}
Handled(s) == client.session = s /\ client.at # "adding"
InClose(s) == selector[s].at \in {"closing", "closed"}

\* No live session is ever given up: a Connect for it is on its way, a handler
\* that ends in one is running, or its connection is watched, by the login
\* check until it has logged in and by the ping timer from then on.
SessionDriven ==
    Open /\ ub = "none" => \A s \in Live :
        \/ PendingConnect(s)
        \/ Handled(s)
        \/ InClose(s)
        \/ Up(s) /\ \/ Pending(LoggedInCheck(s))
                    \/ conn[s].logged /\ (conn[s].ping \/ InLogin(s))

\* A channel attached to a session and not confirmed yet is on the list of a
\* join check that is still to come, unless evtJoinChannel attached it, which
\* sends one JOIN and has no check.
Watched ==
    Open /\ ub = "none" => \A c \in DOMAIN channels :
        Attached(channels, c) /\ ~ channels[c].joined
            /\ JoinChannel(c) \notin commands =>
            \/ \E s \in Sessions : selector[s].at = "reserved" /\ c \in selector[s].list
            \/ \E s \in Sessions, C \in SUBSET Channels :
                  c \in C /\ Pending(CheckJoined(s, C))

\* Every session is logged in, and no callback is under way.
Settled ==
    /\ client = Idle
    /\ \A s \in Live : /\ conn[s].net = "welcomed" /\ conn[s].logged
                       /\ selector[s].at = "idle"

\* The coverage of ChannelCoverage.tla survives two threads disconnecting the
\* same session, once all are settled, until a request changes the list or the
\* sessions, or a session reserves twice.
CoveredWhenSettled ==
    Settled /\ ~ twice /\ commands \subseteq {Shutdown} => Unattached(channels) = {}

\* "IRCSelector thread" of onDisconnected: were that its only thread, a session
\* could not reserve twice, and every channel would have a session whenever all
\* are settled (ChannelCoverage.tla).
CoveredForGood ==
    Settled /\ commands = {} => Unattached(channels) = {}

\* "clear current sessions" of evtReload: no handler meets a session that was
\* cleared and destroyed.
NoUseAfterFree == ub # "freed"

\* Faults and timers alone, in whatever order, leave the pointers, lists and
\* indices of the client whole: a destroyed or missing session, a missing
\* client, an erased end and an index out of range each have the request behind
\* them that destroys the sessions, leaves a channel or stops the agent, and the
\* division a session_count of 0.  The races are another matter: a login
\* time-out while the selector thread is in onLoggedIn is enough for one.
Asked(type) == \E m \in commands : m.type = type
Provoked ==
    /\ ub = "freed" => Asked("Reload")
    /\ ub = "null" => Asked("LeaveChannel")
    /\ ub = "client" => Asked("Shutdown")
    /\ ub = "erase" => ~ oneSelector /\ (Asked("Reload") \/ Asked("Shutdown"))
    /\ ub = "range" => Asked("Reload")
    /\ ub = "division" => sessionCount = 0

\* A JOIN goes out only for a channel on the list, or one that evtJoinChannel
\* is about to add: a join check that outlives a LeaveChannel does not bring the
\* channel back.  (A login whose reservation precedes the LeaveChannel still
\* does.)
JoinsListed ==
    [][\A s \in Sessions, c \in Channels :
          server[s][c] = "out" /\ server'[s][c] = "asked" =>
              \/ c \in DOMAIN channels'
              \/ client'.at = "adding" /\ Head(mailbox) = JoinChannel(c)
              \/ selector[s].at = "reserved"]_vars

\* A channel passes from one session to another only through being detached.
NeverStolen ==
    [][\A c \in DOMAIN channels \cap DOMAIN channels' :
          \/ channels'[c].session = channels[c].session
          \/ ~ Attached(channels, c)
          \/ channels'[c] = Detached]_vars
-----------------------------------------------------------------------------
\* Threads run, timers fire, and the network and a server that is up answer.
Running(A) == ub = "none" /\ A

Fairness ==
    /\ WF_vars(Running(ClientStep))
    /\ \A s \in Sessions :
          /\ WF_vars(Running(SelectorStep(s)))
          /\ WF_vars(Running(NetConnected(s)))
          /\ WF_vars(Running(Welcome(s)))
          /\ WF_vars(Running(PingTick(s)))
          /\ \A type \in Timers : WF_vars(Running(TimerFires(type, s)))
          /\ \A c \in Channels : WF_vars(Running(JoinAck(s, c)))

FairSpec == Spec /\ Fairness

\* When the faults are over every session ends up logged in, for good, if no
\* race of the threads ends the run.
AllLoggedIn ==
    [](ub = "none") => <>[](\A s \in Live : conn[s].net = "welcomed" /\ conn[s].logged)

\* Every reserved channel is confirmed in the end, or given back, again if no
\* race ends the run.
EventuallyJoined ==
    \A c \in Channels :
        (c \in DOMAIN channels /\ Attached(channels, c) /\ ~ channels[c].joined)
            ~> (c \in DOMAIN channels =>
                   channels[c].joined \/ ~ Attached(channels, c) \/ ~ Open \/ ub # "none")
=============================================================================
