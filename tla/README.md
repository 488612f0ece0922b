# Verification of the Twitch chat worker

TLA+ modules, TLC runs and TLAPS proofs for the program in `src/`: a service that
reads the chat of many Twitch channels over IRC with several accounts, stores it in
ClickHouse, lets bots answer, and is controlled over HTTP. It is written with
SObjectizer (agents with mailboxes and dispatchers), libircclient, Boost.Beast, libpq
and clickhouse-cpp. Every definition is translated from the source; `PROJECT.json`
("map") names its lines.

## 1. Inventory

### Components, state, operations

| Component | State it keeps | Operations | Module |
|---|---|---|---|
| `IRCChannelList` | channel -> (session, joined), one mutex | load, reserve for a session, detach a session, mark joined, select not joined, add, extract | `IRCChannelList`, `ChannelCoverage` |
| `IRCClient`, an agent per account, with its `IRCSession`s and `IRCSessionCallback` | sessions, config, mailbox, delayed messages, per session: socket, `logged`, ping timer | Connect (back-off), LoggedInCheck, SendPING, ChannelJoined, CheckJoinedChannels, Join/LeaveChannel, Reload, Shutdown; callbacks onLoggedIn, onDisconnected, onJoin, onPong | `IRCClient` |
| `IRCSelectorPool`, `IRCSelector` | per thread: session list, copy of it, `needSync`; round-robin cursor | addSession, removeSession, the loop's copy | `IRCSelectorPool` |
| `IRCController`, the agent that owns the accounts | `ircClientsById`, `ircClientsByName` (raw pointers) | HTTP: account add/remove/reload, reload, custom, channel join/leave/message; SendMessage from bots | `IRCController` |
| `BotsEnvironment`, `BotEngine`s, message handlers | `botsById`, message boxes by channel, `ignoreUsers`; per engine its configuration and subscription | HTTP: bot add/remove/reload/reloadall; chat message; per engine: message, reload, shutdown | `BotsEnvironment` |
| `MessageProcessor` | none | turns an `IRCMessage` into a `Chat::Message`, on two threads | `Storage` (Receive, TakeOldest, Publish), `ChatService` (its readers) |
| `Storage` | two batches | chat message, bot log record, two flush timers, finish | `Storage` |
| `DBConnectionPool`, `DBConnectionLock`, `PGConnection`, `DBController` | queue of connections, `active`, mutex and condition variable | lock, unlock, ping/retryGuard/reset, request | `DBConnectionPool`, `ConnectionLease` |
| `HTTPListener`, `HTTPServer`, `HTTPServerSession` | io_context, acceptor, per connection: the request, the response, the deadline | accept, read, authorize, route, write, close, stop | `HTTPServer` |
| `StatsCollector`, `IRCStatistic` | counters by view (all, account and session, channel) | metrics from sessions and messages; reports that clear | `StatsCollector` |
| `HttpNotifier`, `HTTPClient` | io_service, threads | notify, run a session, stop | `HttpNotifier` |
| `HTTPClientSession` | stream, deadline | resolve, connect, handshake, write, read, shutdown | `HTTPClientSession` |
| `URI`, `HTTPRequestFactory` | the parts of an address | parse, print, setters, normalize, resolve; make a request | `URI`, `RFC3986` |
| `BufferStatic` | array, size, head, tail | append, pop, peek, linear spaces, normilize, setHeadTail, clear | `BufferStatic`, `ByteQueue` |
| `ThreadPool` | queue of tasks, `stop`, mutex and condition variable | enqueue, the worker's loop, destruction | `ThreadPool` |
| `Controller`, `HttpController`, `main`, `SysSignal` | termination flag, the agents' coops | shutdown, version, periodic check of the flag, replies | `ControlInterface` |
| `common/network`, `common/Timer`, logger, configuration, options | | sockets, formatting, input | not modelled, section 8 |

### How they interact

```
 chat server <-> libircclient <-> IRCSession  (selector threads: IRCSelectorPool)
                                     |  callbacks and messages
                                  IRCClient  (a thread each) <-- IRCController (one thread)
                                     |  IRCMessage                   ^  Chat::SendMessage
                                MessageProcessor (two threads)       |
                                     |  Chat::Message          BotEngine (pool of threads)
                     +---------------+---------------+               ^  box of the channel
                  Storage      StatsCollector   BotsEnvironment -----+
              (a thread each)        ^  hreq::*
 HTTP client <-> HTTPServerSession (server threads) -> the agent of the path
                       ^                                   |  hreq::resp
                       +------- HttpController <-----------+
   Controller, HttpController, HttpNotifier: one thread, the default dispatcher
```

An agent handles one message at a time. Concurrency comes from five places: callbacks
of sessions on selector threads that change an `IRCClient`'s channel list and sessions
while its own thread does; the timer thread; the threads that share the database pool;
the threads of the HTTP server; and messages that are in flight between agents while
these are reconfigured, deregistered and destroyed.

### What is hard, and what makes a component correct

* **Accounts.** A session must never be given up, whatever fails when; every channel
  must have a session; no two sessions may hold the same channel; a JOIN the server
  ignores must be repeated. `onDisconnected` is run by two threads, timers carry raw
  session pointers, and `Reload` replaces sessions under all of that.
* **Selectors.** A session is served by exactly one thread, and no longer once removed,
  although each thread works on a copy of its list.
* **Registries.** The two maps of `IRCController` must agree; no agent may be left that
  nobody can remove; bots and accounts must not talk to each other for ever.
* **Storage.** A record is written once or is a known loss, also at shutdown, and the
  threads that process messages disturb their order no more than they must.
* **Database.** A connection is used by one thread; no wakeup is lost; requests end.
* **HTTP.** Requests on a connection are answered in order, by agents on different
  threads; at shutdown answers that were produced are written before the server stops.
* **Counters.** They are kept in three places and cleared by reading: each event is
  reported once.
* **Outgoing requests.** They go where the configured address points, and end however
  silent the other side is.
* **Helpers.** An address survives printing and parsing; a ring buffer is a queue at
  every combination of its positions; a thread pool runs all it accepted.
* **Shutdown.** Four coops on several threads find a flag; all must go.

`PROJECT.json` lists every such hazard at its line.

## 2. Modules

| Module | What it is |
|---|---|
| `IRCChannelList` | the methods of the class as operators on the map (each holds the mutex throughout) |
| `ChannelCoverage` | the list driven as comments in `IRCSession.cpp` describe its callers; the sequential promise |
| `ChannelCoverageProofs` | proofs about it |
| `IRCClient` | the agent, its sessions, the selector threads, timers, network and server |
| `IRCClientProofs` | proofs about it |
| `IRCSelectorPool` | pool and selectors |
| `IRCSelectorPoolProofs` | proofs about them |
| `ConnectionLease` | abstract specification: a connection is leased to one thread |
| `DBConnectionPool` | the pool with mutex, condition variable and retries |
| `DBConnectionPoolProofs` | proofs: it implements the lease, and loses no wakeup |
| `Storage` | from the threads of the message processor to the tables: batches, mailbox, inserts that fail |
| `RecordLog` | abstract specification: a record is pending, then a row or gone |
| `StorageProofs` | proofs about `Storage`, and that it implements `RecordLog` |
| `IRCController`, `BotsEnvironment` | the two registries |
| `ChatService` | composes them: the circle of a chat message |
| `ChatServiceProofs` | proofs about the registries, in that composition |
| `HTTPServer`, `StatsCollector`, `HttpNotifier` | the control interface's parts |
| `ControlInterface` | composes them with `Controller`, `HttpController`, and how all end |
| `ControlInterfaceProofs` | proofs about it |
| `URI` | the class as operators on a record, and the object with any sequence of calls |
| `RFC3986` | section 5.2 of the RFC, which `URI.h` refers to: what `resolve` promises |
| `ByteQueue` | abstract specification: a bounded queue of bytes |
| `BufferStatic` | the ring buffer with its array and positions |
| `ThreadPool` | workers, condition variable, enqueue, destruction |
| `HTTPClientSession` | the handlers of one outgoing request and its deadlines |
| `StandAlone` | puts `URI`, `BufferStatic`, `ThreadPool`, `HTTPClientSession`, `IRCSelectorPool` and `ChannelCoverage` side by side, for they share no state |
| `StandAloneProofs` | proofs: the buffer implements `ByteQueue`, the pool loses no task and no wakeup, a request is over in time, the theorems about the selectors hold here |
| `MC*` | model values, sets and symmetry for TLC |

In most modules a few small operators stand just above a definition they resemble
(`AcceptsQuietly` above `Accepts`, `RoundedDown` above `Share`, `ReadsOn` above
`WhileHandled`). No action uses them: each is the definition with a plausible bug in it,
and `PROJECT.json` ("mutants") says which property notices when it takes the
definition's place.

### State and actions

* An agent's mailbox is a sequence, its handler an action that takes the head. A handler
  is one action unless another thread can observe it half done; then it is several, and
  a variable (`client`, `selector`, `at`, `handling`, `removing`) says where the thread
  is: `onDisconnected` is Close then Report, `onLoggedIn` is Logged, Reserve, Join,
  `joinToChannel` sends, then adds, `evtReload` removes the old sessions, then loads and
  starts new ones, `unlockConnection` is Push then Notify, a removal visits the selectors
  one by one.
* Delayed and periodic messages form a bag: any of them may fire next.
* libircclient, the servers and the networks are actions without fairness, or with the
  fairness stated below. They are marked external in the map.
* Names, texts, passwords are model values; an HTTP request keeps its path, whether it is
  authorized, what its body names, and whether the connection is kept.
* A dereference of a null or destroyed object, an index out of range, a data race of the
  kinds the header of `IRCClient` names, and an exception that leaves a handler set a
  variable (`ub`, `broken`, `crashed`, status "aborted", connection state "undefined")
  and end the run: what comes after means nothing.

### Abstractions worth knowing

* `IRCClient`: the order of names in reservation is left open; the number of a session's
  faults is bounded, not their place. Sessions are numbered in the order they are
  created in, which is the order of their first Connects (`InOrder`). `twice` is a
  history variable, read by properties only: a login has reserved for a session that
  held channels. A behaviour starts from one of `Setups`: how many sessions, whether
  they share a selector, how many faults, and the requests the controller may make, each
  once and in any order (`agenda`). A Reload may find any number of sessions in the
  configuration, none included (`SelectorDivides`). Of `PRIVMSG` and raw commands only
  the round robin is there (`SendMessage`): its cursor outlives a Reload, and may then be
  out of range (`EvtOutOfRange`). Two threads at a session's ping timer, or at the
  account that `evtReload` replaces, do what one of the two orders does or end the run
  (`Race`); fields of one word, and what libircclient shares between `irc_disconnect` and
  the selector, are taken as atomic. The selector's list of the sessions is in
  `IRCSelectorPool`.
* `IRCController`/`BotsEnvironment`: of a client only its nick, mailbox and life. A bot
  answers a message at most once (it has one handler).
* `HTTPServer`: TLS handshake and shutdown are part of the first read and of the close;
  a deadline that expires and a reset by the client are the same: a read or a write that
  fails, at any time.
* `StatsCollector`: one counter instead of ten; what is replaced and not added (round
  trip time, channel lists) is left out, and so is `statsFromSo5Thread`. Sessions stay; one
  that a reload or a removal destroys takes along what it has counted since its last
  PONG, which is not in the model. A body of JSON of another type than expected makes
  nlohmann::json throw in the handler, which nothing catches (`EvtHttpThrows`): the
  program aborts.
* `HttpNotifier`: the start notification is over; contents are left out.
* `ControlInterface`: the framework's rule for a coop that leaves is taken from how the
  source relies on it: its agents get nothing new, handle what they have, run
  `so_evt_finish`, and are destroyed when all of the coop have finished. The coop of
  `Controller` also has Storage, BotsEnvironment, MessageProcessor and IRCController with
  their clients and engines: they are one agent here (`Chat`), which leaves with the
  others and may be in the database for any time while it does.
* `Storage`: the log line of a failed insert, which says it was done, is not modelled;
  that the records are gone is. What a processor's thread publishes after the coop was
  deregistered is discarded (`late`).
* `URI`: a text is a sequence of tokens: delimiters, escapes, and words that are opaque
  but for their lower case and the number they spell. Of the characters outside the
  delimiters one of each kind is a token too: `;` for those encode leaves, a blank for
  those it escapes; `decode` reads the escapes of all of them, in capitals or not.
* `IRCSelectorPool`: a selector loops until the program is told to end; from then on
  nobody is served any more.
* `HTTPClientSession`: time in units of five seconds, of which all deadlines of the code
  are multiples; the system's resolver has no deadline and is taken to answer.
* `StandAlone`: one component moves in a behaviour (`focus`); the others have no variable
  in common with it, so interleaving them would add nothing.

## 3. Runs

| Run | Question | Bounds |
|---|---|---|
| `IRCClient` | do the promises of the list survive the real threads; do faults, or the controller's requests in any order, leave a session undriven, a channel unwatched, or bring back a channel that was left? | 1 channel, 2 attempts; 2 sessions on a selector each with 1 fault, or 1 session with 2 faults, or 1 session with any three of join, leave, reload (to one session) and shutdown, or with join and a reload to none, or 3 sessions with join, message and a reload to two |
| `IRCClientLiveness` | does every session log in again, and every channel get confirmed, once faults are over? | 1 session, 1 channel, 2 faults |
| `IRCClientCovered` (violation) | with two threads in `onDisconnected`, is every channel still with a session once all are settled? | 3 channels, 2 sessions on one selector, 2 faults, a slow second session (`Slow`) |
| `IRCClientReload` (violation) | is a session cleared by Reload still used? | 1 session, 1 Reload |
| `DBConnectionPool` | exclusive leases, no lost wakeup, requests that end | 3 threads, up to 2 connections, 2 requests each, 2 outages |
| `Storage` | is every record stored once, or a known loss; is nothing left at the end; how far can messages overtake each other? | 3 chat messages, 1 log record, 2 threads, batches of 2, 1 failed insert |
| `IRCSelectorPoolThreads` (violation) | does removing one session leave the others? | 4 sessions, 2 threads |
| `ChatService` | do the registries agree under requests and edits of the tables; does the chat settle? | 2 accounts, of which one may be renamed and the other take its name, 2 bots, 1 channel, 1 edit, 2 requests, 1 post |
| `ChatServiceLoop` (violation) | does ignoring its own messages keep a bot from looping? | 1 bot, accounts renamed |
| `ControlInterface` | answers in order, none lost or owed at shutdown, counters reported once, an end | 1 connection with 2 requests, 2 events (what is counted, notified of, or asked of the database), 1 client thread |
| `StandAlone` | are addresses, buffer, pool and outgoing request what their users take them for; does every channel get a session if callbacks are as their comments say; is an IRC session served once, by a thread that knows, and does the load spread? | 4 sessions on 1 to 3 selectors; 4 channels, 3 sessions; every shape of authority, every path of up to 4 tokens without or after an authority, one call after the first; a buffer of 3 with any contents; 2 workers and 3 tasks of which 2 hand in another; requests of up to 100 seconds |
| `URIResolve` (violation) | does `resolve` follow section 5.2 of RFC 3986? | the addresses of `StandAlone`; relative paths of up to 3 tokens, and references with a query, a fragment or a scheme |

Why the bounds are enough: the interesting cases are collisions of two. Two sessions
compete for a channel; a third, and more channels than sessions, are needed only for the
counting argument of `ChannelCoverage`, which is also proved for every number. In
`IRCClient` one channel leaves that argument out and keeps the interleavings; both
together, `CoveredWhenSettled` for every number of sessions and channels, are proved.
`Slow` only says where `IRCClientCovered` looks: what it finds is a behaviour of the
client. Three threads and two
connections make a waiter, a notifier and one who barges in. Three messages with batches
of two fill a batch, meet a full one and leave one over. Four sessions on three
threads make the cursor wrap. `faults` counts what the environment does wrong; it may
happen at every point of the run. Setups of `IRCClient` with requests have no faults, to
allow every order of the requests. With three sessions (`Slowly`) the network is slower than
the requests and faster than the first timer. In `StandAlone` a buffer of three is the least
that holds a wrapped content with room on both sides and bytes to tell apart; two
workers make one that sleeps beside one that runs, and three tasks a queue in which one
waits while both are busy; two calls instead of one after an address was assigned, and a
buffer of four, gave the same answers. One connection is enough for `ControlInterface`
because connections share nothing but queues, in which the events of the IRC side and
the shutdown of the agents already interleave with its requests.

`TypeOK` is checked as one type invariant per module where its proof needs it
(`IRCClient`, where it also bounds the back-off's shift) and proved for every value of
the constants; the types of the other modules with proofs are part of their inductive
invariants.

### Fairness

`Spec` has none, but for `StandAlone`; `FairSpec` adds, per module:

* each thread that can take a step is scheduled (an agent's thread, a selector's loop, a
  user of the pool, a thread of the HTTP client, a worker of `ThreadPool`): weak
  fairness per thread, never per handler, since a thread does not choose among its
  messages;
* timers fire; the loop of a selector goes round until the program is told to end; the
  framework destroys what finished;
* in `IRCClient`, a connection that was opened connects or fails, and a server that is
  up welcomes and acknowledges. What it drops, and how connections break, is bounded by
  `faults` and has no fairness;
* `ThreadPool`: an owner that has begun to destroy the pool goes on; `HTTPClientSession`:
  the resolver answers, time passes and deadlines fire, while the other side need not
  answer at any stage;
* nothing makes the database recover (`RequestsEnd` assumes it does, or that it failed
  only once; `Terminates` that it lets go of an agent again and again), makes anybody
  write, send a request, or shut down.

`CHECK_DEADLOCK FALSE` appears where the program may really stop: shut down, aborted, or
with every bounded input used up.

## 4. What the runs show

The passing runs check the properties named in their configurations; each is stated in
its module in the words of the code. What they say together:

* A session that is live always has a Connect coming, a handler running that ends in
  one, or a timer watching it (`SessionDriven`): the three timers and two threads leave
  no gap. From it follows, under fairness, `AllLoggedIn`.
* Reserving by share (`count / session_count + 1`) covers all channels (`Covered`), also
  when a session is disconnected by both threads (`CoveredWhenSettled`), as long as no
  command resizes the list and no session reserves while it holds a share. Two threads
  can make one do that: finding 4.
* A channel a login reserved is confirmed or on the list of a check to come (`Watched`),
  and no check brings back one that was left (`JoinsListed`).
* Faults and timers alone leave pointers, lists and indices whole, however the threads
  interleave (`Provoked`): a destroyed session is used only after a Reload (never because
  of a shutdown), a null one only by a LeaveChannel, the destroyed agent only after a
  shutdown, the end of a list is erased only with several selectors, the cursor of the
  round robin is out of range only after a Reload. It does not say that faults lead to
  nothing undefined: a login time-out while the selector thread is in `onLoggedIn` makes
  two threads assign one ping timer (`Race`). `AllLoggedIn` and `EventuallyJoined` speak
  of the runs in which that did no harm.
* `notify_one` after the unlock loses no wakeup (`NoLostWakeup`).
* A storage record is in exactly one place on its way from a session to its table
  (`Conserved` counts its `Spots`), or lost for a reason the code knows; the price of a
  dropped one is a written batch (`DropsPaid`). To the senders all of it is a log
  (`ImplementsRecordLog`): a record is pending, and then once and for good a row or gone.
* Two threads process messages, so rows may be out of the chat's order; a message is
  overtaken only by those the other threads held meanwhile, `Threads - 1` at most
  (`FewOvertaken`).
* With several selector threads sessions stay served once only while none is removed
  (`ServedOnce`'s hypothesis); see the finding below.
* The maps of `IRCController` agree only as long as no nick changes and none is given to
  a second account (`MapsAgree`; `misnamed` has the clients this happened to).
* Once told to, the program ends (`Terminates`), provided the database lets go of the
  agents in it again and again: an agent in the retry without a limit
  (`PGConnection.cpp:130`) keeps its coop, and so the program, from ending.
* A session that waits for its answer is owned by one message in one queue, and no
  message is about another (`OwnedByMessage`), so no request waits for ever or is answered
  twice.
* Because an agent's `so_evt_finish` comes after its last message, an answer that was
  sent to `HttpController` is handed to the connection before the server stops, that of
  `/app/shutdown` included (`RepliesBeforeStop`); whether the client gets it is another
  matter, for the io threads are stopped right then.
* The counters are conserved (`Accounted`), and a report that cannot be delivered takes
  its counts with it.

* An address is read back as it was printed, whichever of the enumerated texts and calls
  made it (`RoundTrip`), but for the objects `Ambiguous` names: among them those with a
  user-info (finding 6), and those `setHost` gave a host with capitals or delimiters.
* A request goes to the server the text names, with its query and the path it decodes to
  (`RequestFollowsUrl`). Letter by letter the path comes back only if it has no illegal
  character and no escape but those `encode` would write (`Restored`): every other, such
  as `%2F`, `%3B` or `%40`, is sent as the character it stands for, and that of a slash
  makes two segments of one. An address without a path is left out: its request has an
  empty target, or a query alone.
* The ring buffer is a queue of bytes (`ImplementsByteQueue`) until one of two things
  happens, which end a run: `normilize` uses `memcpy` between areas that overlap, or a
  caller trusts the linear space that a full buffer announces when its tail is inside.
* The pool wakes a worker for every task (`WorkIsSeen`) and runs what it accepted also
  while it is destroyed (`PoolDrains`), unless a task
  hands in another after the destructor set `stop`: `enqueue` then waits, with the mutex
  held, for a task nobody will run, and destructor and workers wait for the mutex.
* An outgoing request ends within 35 seconds, over TLS 90, of the resolver's answer, if
  the other side stalls as long as it can at every stage (`SessionEnds`; both tight).
* Not a property of any run, but met on the way: `HTTPRequestFactory::Put` with headers
  and a body makes a POST (`HTTPRequestFactory.h:113`).

### Findings

1. **Reload frees sessions that are in use** (`IRCClientReload`, `NoUseAfterFree`).
   `evtReload` clears its sessions ("clear current sessions", `IRCClient.cpp:139`); the
   selector lets its copy go at its next loop; but messages with the raw pointer
   (`LoggedInCheck`, `CheckJoinedChannels`, `Connect`) are still to come, and their
   handlers use the freed session.
2. **Removing one session removes others** (`IRCSelectorPoolThreads`, `OthersKept`). The
   pool asks every selector to remove the session; one that does not have it erases
   `end()` (`IRCSelector.cpp:44`), with libstdc++ its last session. With the default of
   one thread it does not show.
3. **A renamed account's bot can loop** (`ChatServiceLoop`, `SelfIgnored`). The engine
   ignores messages written under the name in its configuration, but answers are sent by
   a client found under that name, which may by then write under another.
4. **A session can reserve twice, and a channel stays without one** (`IRCClientCovered`,
   `CoveredForGood`). `onDisconnected` is marked "IRCSelector thread"
   (`IRCSession.cpp:225`), but `evtLoggedInCheck` calls it on the agent's thread
   (`IRCClient.cpp:159`). While the selector thread is in `onLoggedIn` the agent may
   disconnect the session and connect it again; the reservation then goes to a session
   that is connecting, which reserves a second share when it logs in. The next time it
   loses its connection it gives back two shares and takes one. `ChannelCoverage` has the
   same list with the callers its comments describe, and no channel is left there.
5. **`resolve` is not that of the RFC** (`URIResolve`, `ResolvesAsRFC`; `URI.h:40`, 154
   and 158 refer to section 5.2). `mergePath` (`URI.cpp:630`) calls its parameter as the
   member it works on, so it looks for the final slash in the reference and not in the
   base: against `s://h/a/`, `b` gives `s://h/b` for `s://h/a/b`. A path that ends in a dot
   segment loses its last slash (`/.` gives `s://h`), and empty segments are dropped.
6. **A parsed address loses its user-info** (no run: the model does as the code does).
   `parseAuthority` "parses and sets the user-info" (`URI.h:224`, also 116); it does
   (`URI.cpp:555`), and then overwrites it with a variable nothing has assigned
   (`URI.cpp:563`).

## 5. What is proved

TLAPS checks these for every value of the constants that satisfies the modules'
assumptions (`CoverageAssumption`, `ClientAssumption`, `RequestsAssumption`,
`PoolAssumption`, `StorageAssumption`, `ServiceAssumption`,
`InterfaceAssumption`, `CapacityAssumption`, `BytesAssumption`, `WorkersAssumption`,
`TasksAssumption`). They ask for finite sets where something is counted (sessions,
connections, workers), for null not to be among the pointers nor "no answer" among the
answers, for positive divisors, threads and capacities, that each message arrives once,
and that each call of `enqueue` makes a task of its own. None of the bounds
of the runs is used: the faults, `MaxRequests`, `MaxEvents` and the like may be any
number. All proofs have the same shape: an inductive invariant, one lemma per action (or
per handler) that it is kept, and lemmas that the property follows from it.

**`ChannelCoverageProofs`.** `CoverageHolds`: with all sessions logged in no loaded
channel is without one. `Covered` is not inductive, for it says nothing of the sessions
still to come. `IInv` adds: a session not logged in holds nothing
(`NoChannelWithoutLogin`), so one login is one share (`FairShare`), so what a
disconnection gives back fits the place it leaves (`RoomForWaiting`); with nobody left to
log in nothing waits. The three are theorems of their own (`CoverageNoLogin`,
`CoverageShares`, `CoverageRoom`). The arithmetic is `SharesSuffice`: k shares of
n div k + 1 are enough for n. `CoverageTypes` and `CoverageNeverStolen` use the same
invariant.

**`IRCClientProofs`.** For every number of sessions, channels, faults and requests:

* `ClientNeverStolen`: whatever the threads do, no step attaches a channel that another
  session holds. One lemma per operator of the list, one case per action.
* `ClientTypeOK`. `TypeOK` is not inductive alone: a handler that closes a session must
  be at one. `TypesInv` adds `AtSession`, which says when the agent's thread is. The part
  about the mailbox needs what comes and goes in each step; the lemmas `Mail...` state
  that once (which messages leave, which are new), and the proofs below use no more of
  the queue and the bag of delayed messages than that.
* `ClientSessionDriven`. A session is given up if its last Connect is consumed while its
  connection is watched by nothing. `Tended` says, for each place either thread can be
  at, which reason the session has left (a Connect, the handler itself, a login check, a
  disconnection under way, the ping timer). `Unborn` says that a session a Reload has yet
  to create has no message, timer or thread: without it a new session could inherit a
  consumed Connect.
* `ClientWatched`, `ClientJoinsListed`. `Checked` is `Watched` without the condition on
  `ub`; it needs `Requested`, that a request in the mailbox is one that was made, for
  `Watched` excuses channels a JoinChannel added.
* `ClientProvoked`. `Leaving` says that a session is removed by a Reload or with the
  agent, and that the agent goes by a Shutdown; `Requested` takes that back to what the
  controller sent, SObjectizer's last demand included, and the cursor is in range as long
  as the sessions are those of the start. Races are not among what the theorem excludes.
* `ClientCovered` (`CoveredWhenSettled`). `IInv` of the sequential list does not survive:
  a session that is not logged in may hold channels, for its disconnection may be half
  done on either thread, or done by both. `Whole` counts otherwise. `Fair`: no set of
  sessions holds more than a share each; `Room`: what waits, and what is held by sessions
  that have yet to reserve (`Owing`), fits the shares of these. A login moves one session
  out of `Owing` with its share; a detachment moves channels within what `Room` counts;
  a connection that is lost adds a session and, by `Fair`, no more than its share.
  `Closed` (who reports a disconnection has closed the socket) keeps a session from
  logging in between. This holds as long as no request changes the list and no session
  reserves while it holds channels (`twice`): finding 4 shows it may, and that the
  condition is needed.

**`DBConnectionPoolProofs`.** `PoolExclusive`: a connection is in the queue or with one
thread, once. From the same invariant (`LeaseInv`) `PoolImplementsLease`: every step of
the pool is a step of `ConnectionLease` or none. `PoolWakes`: `NoLostWakeup`, by counting
threads per place: a connection is added by a thread that goes on to notify, and removed
by one that is awake; a step to `waiting` is taken only with the queue empty.

**`StorageProofs`.** `StorageInv` says where records are: the places have nothing in
common (`Apart`), hold all that came (`Accounted`), and no sequence holds a record twice
(`Once`); `so_evt_finish` is behind every message (`Leaving`). `StorageConserved` and
`StorageNothingLeft` follow. `StorageDropsPaid` is inductive with these.
`StorageFewOvertaken` speaks of rows only, so the invariant looks at the whole line from
the mailbox to the table (`FewBehind`): those sent earlier that come behind a message,
or may still, are fewer than the threads. When a message is published, they are among
what the other threads hold; afterwards messages keep their order.
`StorageImplementsLog` maps the places to those of `RecordLog`: a record is pending from
when it came until it is a row or lost. Of the steps only Receive, SendLog, a Publish
that is too late, a full batch and the two ends of an insert are steps of the log; the
invariant says that what they move was pending, and `Small` that a batch keeps within
its size.

**`IRCSelectorPoolProofs`.** `PoolServedOnce`: a session that is held is on one list,
once, and a removed one on none, while no list was damaged. The invariant also holds of
damaged lists (`OneHome`, `Once`: erasing the wrong session moves none), which gives
`PoolOneThread` without any condition: no two selector threads ever have one session in
their copies. `PoolSpread`: until a session is removed the cursor divides the selectors
into those with one turn more and the others (`Even`), so loads differ by at most one.
`SelectorServedOnce` and `SelectorSpread` of `StandAloneProofs` carry both over to the
instance of the module that the runs check.

**`ChatServiceProofs`.** `ChatOneEngine` and `ChatNoOrphan`: who runs is registered or
has a farewell in its mailbox; what a mailbox loses it loses to its agent, which then
goes. `ChatMapsAgree` needs more than the maps: a registered client lives and is not
about to leave (`ClientLives`, its own theorem `ChatRegisteredLive`), and a Reload on its
way brings the nick the client has (`NicksKept`).

**`ControlInterfaceProofs`.** `InterfaceInv`: a session that handles a request is claimed
by one message in one of the two queues (`Single`, `Owned`), the message is about the
last request read, which is one more than were answered (`Numbered`), and no reply is
behind `so_evt_finish` of `HttpController` (`Ordered`). From it `InterfaceOwned`,
`InterfaceAnswersInOrder` and `InterfaceRepliesBeforeStop`. `InterfaceNoJobOutlives`
depends on the HTTP client alone.

`InterfaceAccounted` is about sums: what a session reported in a channel, by view, is
found in five places (the tables, the mailboxes of agent and controller, the answers
being written, and what was lost or told). `AccountsInv` says what each place holds are
numbers, and that a connection has an answer just while it writes one. `Balance` is what
a step has to show: it adds to the debt of each cell what it adds to the five places
together. Each handler moves one summand, so each of its lemmas needs only how a sum
changes when one element comes, goes, or takes another value. Those facts about folds
over finite sets are proved without the induction theorems, which have an operator as a
parameter: of the sets that break such a fact take a `Smallest` one (strict inclusion is
well founded on the subsets of a finite set), and look at it without one element.

**`StandAloneProofs`.** `BufferIsQueue`: `BufferStatic` implements `ByteQueue` for any
capacity, bytes and lengths, until it is broken. The invariant is where the tail is:
`size` on from the head, around the end or not. That either position may be `Capacity`
itself, which is what the code's special cases are about, makes the cases of the proof.

Of the thread pool, for any number of workers and tasks: `PoolWorkIsSeen` by counting
who is awake or about to notify against what is queued, as for the database pool;
`PoolEachOnce` (no worker starts a task that has run or that another has in hand) and
`PoolRunsAll` (when the destructor returns all that was accepted has run) from `PoolInv`:
an accepted task is in the queue, in a worker's hands or done (`Kept`), in one of these
only (`OnePlace`), was handed in by the owner or by one task that runs no more (`Born`),
and a worker that left saw an empty queue of a stopped pool (`NobodyEarly`).

`SessionInTime`: at each stage what is left of the deadline and the age of the request
have a sum that the stages before bound; 7 units of five seconds without TLS, 18 with.

## 6. Only model-checked

* Liveness and everything under fairness, which the prover cannot reach, like `ENABLED`:
  `AllLoggedIn`, `EventuallyJoined`, `RequestsEnd`, `Flushed`, `HeldAreServed`,
  `RemovedAreLeft`, `Settles`, `Terminates`, `PoolDrains`, `SessionEnds`. Of some the
  safety core is proved: a session always has a reason to go on (`SessionDriven`), a
  wakeup is not lost (`NoLostWakeup`, `WorkIsSeen`), a request always has an owner
  (`OwnedByMessage`), a pool that is gone has run everything (`PoolRunsAll`), a request is
  not older than its deadlines allow (`SessionInTime`).
* Induction over the tokens of a text: `RoundTrip` and `RequestFollowsUrl` compare what
  folds over two texts yield, for every grammar of addresses. The sums of
  `ControlInterface` show how such facts can be had without induction theorems, but here
  every operator of `URI` would need its own. No module uses a RECURSIVE operator.

## 7. Plan

Done: the modules above, in this order: channel list and its coverage, the client, the
pool, storage, selectors, the registries and the circle of a message, the control
interface, message processing, and the parts that stand alone; the proofs of section 5,
which cover every safety property of the runs but the two of section 6.

What would come next, in order of weight:

1. The selector pool as a map from session to thread, an abstract specification to be
   refined like `ConnectionLease`, `ByteQueue` and `RecordLog`.
2. The reply path of `IRCController` and `BotsEnvironment` requests in
   `ControlInterface`, and its other agents one by one instead of `Chat`.
3. `RequestFollowsUrl` for every address of the grammar, by the shortest text that breaks
   it.
4. The race on `statsFromSo5Thread`, and the counters of a session that is destroyed.

## 8. Not modelled

* Formatting, logging, configuration, command line: no state that matters to others.
* `common/network`, `common/Timer`: used by nothing in the service, and pure I/O.
* SQL texts and result parsing in `DBController`: what rows they yield is an input
  (`Tables`, `Configs`, `DbChannels`), how they are fetched is `DBConnectionPool`.
* What Lua scripts and command patterns match: an answer or none.
* libircclient, Boost, SObjectizer, libpq, clickhouse-cpp: external, as their users rely
  on them.
