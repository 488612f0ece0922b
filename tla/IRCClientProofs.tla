-------------------------- MODULE IRCClientProofs --------------------------
(***************************************************************************)
(* What holds of one account for every number of sessions, channels,       *)
(* faults and requests, whatever the two kinds of thread interleave.       *)
(*                                                                         *)
(*  - The channel map: a channel changes hands only by way of being        *)
(*    detached (ClientNeverStolen), and a JOIN goes out for a channel of   *)
(*    the list, of a reservation, or about to be added (ClientJoinsListed).*)
(*  - Types (ClientTypeOK), with AtSession: the agent's thread is at a     *)
(*    session just when it is in the middle of a handler.                  *)
(*  - No session is given up (ClientSessionDriven).  Every step may take   *)
(*    one of the reasons for that away, so the invariant Tended says which *)
(*    reason is left at each place of either thread, and Unborn that a     *)
(*    session nobody created yet is nowhere.                               *)
(*  - Every reservation is checked (ClientWatched): Requested says that a  *)
(*    request handled is one that was sent, so that a channel without a    *)
(*    check is one evtJoinChannel attached.                                *)
(*  - An undefined end other than a race has its request (ClientProvoked): *)
(*    Leaving says that until one to reload or to stop no session goes     *)
(*    away, and that the round robin stays among them.                     *)
(*  - With all sessions settled every channel has one (ClientCovered), the *)
(*    promise of ChannelCoverage.tla with the threads as they are: Whole   *)
(*    counts the channels of the sessions still to reserve, Closed says    *)
(*    that whoever reports a disconnection has closed the connection.      *)
(*                                                                         *)
(* What a step does to the messages on their way is said once for all of   *)
(* them (Mail: which leave, which come), and used in each argument.        *)
(***************************************************************************)
EXTENDS Functions, IRCClient, FiniteSetTheorems, SequenceTheorems, TLAPS

\* The part of TypeOK that the operators need.
MapOK == channels \in [DOMAIN channels -> Entry]

\* What a step may do to the owners of the channels.
OwnersKept(old, new) ==
    \A x \in DOMAIN old \cap DOMAIN new :
        \/ new[x].session = old[x].session
        \/ ~ Attached(old, x)
        \/ new[x] = Detached

Map(ch) == ch \in [DOMAIN ch -> Entry]

-----------------------------------------------------------------------------
(* One lemma per operator. *)

\* A list that was just loaded has no owners.
LEMMA LoadKeeps ==
    ASSUME NEW ch, NEW names
    PROVE  Map(Load(names)) /\ OwnersKept(ch, Load(names))
  BY DEF Map, Load, Detached, Entry, OwnersKept

\* A reservation takes waiting channels only.
LEMMA AttachKeeps ==
    ASSUME NEW ch, Map(ch), NEW s \in Sessions,
           NEW n,
           NEW R \in Reservations(ch, n)
    PROVE  Map(Attach(ch, R, s)) /\ OwnersKept(ch, Attach(ch, R, s))
<1>1. R \subseteq Unattached(ch)
  BY DEF Reservations
<1>2. Map(Attach(ch, R, s))
  BY DEF Map, Attach, Entry
<1>3. OwnersKept(ch, Attach(ch, R, s))
  BY <1>1 DEF OwnersKept, Attach, Unattached, Map, Entry
<1> QED
  BY <1>2, <1>3

\* detachFromSession sets free what the session held, and nothing else.
LEMMA DetachKeeps ==
    ASSUME NEW ch, Map(ch), NEW s
    PROVE  Map(DetachFrom(ch, s)) /\ OwnersKept(ch, DetachFrom(ch, s))
  BY DEF Map, DetachFrom, Detached, Entry, OwnersKept

\* markJoined leaves the owners alone.
LEMMA MarkKeeps ==
    ASSUME NEW ch, Map(ch), NEW name
    PROVE  Map(MarkJoined(ch, name)) /\ OwnersKept(ch, MarkJoined(ch, name))
  BY DEF Map, MarkJoined, Entry, OwnersKept

\* addChannel does not take over a channel another session holds.
LEMMA AddKeeps ==
    ASSUME NEW ch, Map(ch), NEW name, NEW s \in Sessions
    PROVE  Map(AddChannel(ch, name, s)) /\ OwnersKept(ch, AddChannel(ch, name, s))
  BY DEF Map, AddChannel, Entry, OwnersKept

\* extractChannel takes a channel off the list and moves none.
LEMMA ExtractKeeps ==
    ASSUME NEW ch, Map(ch), NEW name
    PROVE  Map(ExtractChannel(ch, name)) /\ OwnersKept(ch, ExtractChannel(ch, name))
  BY DEF Map, ExtractChannel, Entry, OwnersKept

\* A step that does not touch the list keeps it.
LEMMA SameKeeps ==
    ASSUME NEW ch, Map(ch)
    PROVE  Map(ch) /\ OwnersKept(ch, ch)
  BY DEF OwnersKept

-----------------------------------------------------------------------------
(* Messages, the two places they wait in, and the sessions of a reload. *)

\* What kind a message is of tells what it carries.
LEMMA MessageFields ==
    ASSUME NEW m \in Message
    PROVE  /\ m.type = "Connect" =>
                  /\ m.session \in Sessions
                  /\ m.attempt \in 0 .. AttemptsLimit - 1
                  /\ m = Connect(m.session, m.attempt)
           /\ m.type = "LoggedInCheck" =>
                  m.session \in Sessions /\ m = LoggedInCheck(m.session)
           /\ m.type = "SendPING" =>
                  m.session \in Sessions /\ m = SendPING(m.session)
           /\ m.type = "CheckJoined" =>
                  /\ m.session \in Sessions /\ m.channels \subseteq Channels
                  /\ m = CheckJoined(m.session, m.channels)
           /\ m.type = "ChannelJoined" => m.channel \in Channels
           /\ m.type = "JoinChannel" => m.channel \in Channels /\ m = JoinChannel(m.channel)
           /\ m.type = "LeaveChannel" => m.channel \in Channels /\ m = LeaveChannel(m.channel)
           /\ m.type = "Reload" => m.count \in Nat
           /\ m.type = "Shutdown" => m = Shutdown
  BY DEF Message, Connect, LoggedInCheck, SendPING, CheckJoined, JoinChannel, LeaveChannel,
         Shutdown

\* What the handlers send is among the messages an account knows.
LEMMA MessageTypes ==
    /\ \A s \in Sessions, n \in 0 .. AttemptsLimit - 1 : Connect(s, n) \in Message
    /\ \A s \in Sessions : LoggedInCheck(s) \in Message /\ SendPING(s) \in Message
    /\ \A s \in Sessions, C \in SUBSET Channels : CheckJoined(s, C) \in Message
    /\ \A c \in Channels : /\ ChannelJoined(c) \in Message
                           /\ JoinChannel(c) \in Message
                           /\ LeaveChannel(c) \in Message
    /\ [type : {"Reload"}, count : Nat] \subseteq Message
    /\ SendMessage \in Message /\ Shutdown \in Message /\ [type |-> "Finish"] \in Message
    /\ Requests \subseteq Message
<1>1. /\ \A s \in Sessions, n \in 0 .. AttemptsLimit - 1 : Connect(s, n) \in Message
      /\ \A s \in Sessions : LoggedInCheck(s) \in Message /\ SendPING(s) \in Message
      /\ \A s \in Sessions, C \in SUBSET Channels : CheckJoined(s, C) \in Message
  BY DEF Message, Connect, LoggedInCheck, SendPING, CheckJoined
<1>2. /\ \A c \in Channels : /\ ChannelJoined(c) \in Message
                             /\ JoinChannel(c) \in Message
                             /\ LeaveChannel(c) \in Message
      /\ [type : {"Reload"}, count : Nat] \subseteq Message
      /\ SendMessage \in Message /\ Shutdown \in Message /\ [type |-> "Finish"] \in Message
  BY DEF Message, ChannelJoined, JoinChannel, LeaveChannel, SendMessage, Shutdown
<1>3. Requests \subseteq Message
  BY <1>2, RequestsAssumption
<1> QED
  BY <1>1, <1>2, <1>3

\* The timer thread holds what is given to it until it takes it back.
LEMMA BagFacts ==
    ASSUME NEW B, NEW m
    PROVE  /\ DOMAIN BagAdd(B, m) = DOMAIN B \cup {m}
           /\ DOMAIN BagRemove(B, m) \subseteq DOMAIN B
           /\ DOMAIN B \subseteq DOMAIN BagRemove(B, m) \cup {m}
           /\ DOMAIN NoMessages = {}
  BY DEF BagAdd, BagRemove, NoMessages

\* What a queue holds.
Has(q, m) == \E i \in DOMAIN q : q[i] = m

\* A message put behind a queue.
LEMMA AppendFacts ==
    ASSUME NEW q \in Seq(Message), NEW m \in Message
    PROVE  /\ Append(q, m) \in Seq(Message)
           /\ \A x : Has(Append(q, m), x) <=> Has(q, x) \/ x = m
<1>1. /\ Append(q, m) \in Seq(Message)
      /\ DOMAIN Append(q, m) = 1 .. Len(q) + 1
      /\ Append(q, m)[Len(q) + 1] = m
      /\ \A i \in 1 .. Len(q) : Append(q, m)[i] = q[i]
      /\ Len(q) \in Nat /\ DOMAIN q = 1 .. Len(q)
  OBVIOUS
<1> QED
  BY <1>1, SMT DEF Has

\* A message taken from the head of a queue.
LEMMA TailFacts ==
    ASSUME NEW q \in Seq(Message), q # <<>>
    PROVE  /\ Head(q) \in Message /\ Tail(q) \in Seq(Message)
           /\ Has(q, Head(q))
           /\ \A x : Has(Tail(q), x) => Has(q, x)
           /\ \A x : Has(q, x) => x = Head(q) \/ Has(Tail(q), x)
<1>1. /\ Head(q) = q[1] /\ Len(q) \in Nat \ {0} /\ DOMAIN q = 1 .. Len(q)
      /\ Tail(q) \in Seq(Message)
      /\ DOMAIN Tail(q) = 1 .. Len(q) - 1
      /\ \A i \in 1 .. Len(q) - 1 : Tail(q)[i] = q[i + 1]
  OBVIOUS
<1>2. Head(q) \in Message /\ Has(q, Head(q))
  BY <1>1 DEF Has
<1>3. ASSUME NEW x, Has(Tail(q), x)
      PROVE  Has(q, x)
  BY <1>1, <1>3, SMT DEF Has
<1>4. ASSUME NEW x, Has(q, x), x # Head(q)
      PROVE  Has(Tail(q), x)
  <2>1. PICK i \in 1 .. Len(q) : q[i] = x
    BY <1>1, <1>4 DEF Has
  <2>2. i - 1 \in 1 .. Len(q) - 1 /\ Tail(q)[i - 1] = x
    BY <1>1, <1>4, <2>1
  <2> QED
    BY <1>1, <2>2 DEF Has
<1> QED
  BY <1>1, <1>2, <1>3, <1>4

\* Two queues, one behind the other: evtReload sends several messages at once.
LEMMA ConcatFacts ==
    ASSUME NEW q \in Seq(Message), NEW r \in Seq(Message)
    PROVE  /\ q \o r \in Seq(Message)
           /\ \A x : Has(q \o r, x) <=> Has(q, x) \/ Has(r, x)
<1>1. /\ q \o r \in Seq(Message)
      /\ DOMAIN (q \o r) = 1 .. Len(q) + Len(r)
      /\ \A i \in 1 .. Len(q) + Len(r) :
             (q \o r)[i] = IF i <= Len(q) THEN q[i] ELSE r[i - Len(q)]
      /\ Len(q) \in Nat /\ DOMAIN q = 1 .. Len(q)
      /\ Len(r) \in Nat /\ DOMAIN r = 1 .. Len(r)
  OBVIOUS
<1>2. ASSUME NEW x, Has(q \o r, x)
      PROVE  Has(q, x) \/ Has(r, x)
  <2>1. PICK i \in 1 .. Len(q) + Len(r) : (q \o r)[i] = x
    BY <1>1, <1>2 DEF Has
  <2>2. CASE i <= Len(q)
    BY <1>1, <2>1, <2>2 DEF Has
  <2>3. CASE i > Len(q)
    <3>1. i - Len(q) \in 1 .. Len(r) /\ r[i - Len(q)] = x
      BY <1>1, <2>1, <2>3
    <3> QED
      BY <1>1, <3>1 DEF Has
  <2> QED
    BY <1>1, <2>2, <2>3
<1>3. ASSUME NEW x, Has(q, x)
      PROVE  Has(q \o r, x)
  <2>1. PICK i \in 1 .. Len(q) : q[i] = x
    BY <1>1, <1>3 DEF Has
  <2>2. i \in 1 .. Len(q) + Len(r) /\ (q \o r)[i] = x
    BY <1>1, <2>1
  <2> QED
    BY <1>1, <2>2 DEF Has
<1>4. ASSUME NEW x, Has(r, x)
      PROVE  Has(q \o r, x)
  <2>1. PICK i \in 1 .. Len(r) : r[i] = x
    BY <1>1, <1>4 DEF Has
  <2>2. i + Len(q) \in 1 .. Len(q) + Len(r) /\ (q \o r)[i + Len(q)] = x
    BY <1>1, <2>1
  <2> QED
    BY <1>1, <2>2 DEF Has
<1> QED
  BY <1>1, <1>2, <1>3, <1>4

\* Sessions are told apart by how many come before them, so InOrder names each
\* of its set: as many ranks as sessions.
LEMMA OrderFacts ==
    ASSUME NEW S \in SUBSET Sessions
    PROVE  /\ InOrder(S) \in Seq(S)
           /\ \A s \in S : Has(InOrder(S), s)
<1> DEFINE n == Cardinality(S)
           rank == [s \in S |-> Cardinality(Before(S, s)) + 1]
<1>1. IsFiniteSet(S) /\ n \in Nat
  BY ClientAssumption, FS_Subset, FS_CardinalityType
<1>2. ASSUME NEW s \in S
      PROVE  /\ IsFiniteSet(Before(S, s))
             /\ Cardinality(Before(S, s)) \in 0 .. n - 1
  <2>1. S \subseteq Nat
    BY ClientAssumption
  <2>2. Before(S, s) \subseteq S /\ s \notin Before(S, s)
    BY <2>1 DEF Before
  <2>3. IsFiniteSet(Before(S, s)) /\ Cardinality(Before(S, s)) <= n
        /\ Cardinality(Before(S, s)) # n
    BY <1>1, <2>2, FS_Subset
  <2> QED
    BY <1>1, <2>3, FS_CardinalityType
<1>3. ASSUME NEW s \in S, NEW t \in S, s < t
      PROVE  Cardinality(Before(S, s)) # Cardinality(Before(S, t))
  <2>1. S \subseteq Nat
    BY ClientAssumption
  <2>2. \A u \in S : u < s => u < t
    BY <1>3, <2>1
  <2>3. ~ s < s
    BY <2>1
  <2>4. /\ Before(S, s) \subseteq Before(S, t)
        /\ s \in Before(S, t) /\ s \notin Before(S, s)
    BY <1>3, <2>2, <2>3 DEF Before
  <2> QED
    BY <1>2, <2>4, FS_Subset
<1>4. ASSUME NEW s \in S, NEW t \in S,
             Cardinality(Before(S, s)) = Cardinality(Before(S, t))
      PROVE  s = t
  <2>1. s < t \/ t < s \/ s = t
    BY ClientAssumption
  <2> QED
    BY <1>3, <1>4, <2>1
<1>5. rank \in Injection(S, 1 .. n)
  <2>1. rank \in [S -> 1 .. n]
    BY <1>1, <1>2
  <2>2. \A s, t \in S : rank[s] = rank[t] => s = t
    BY <1>1, <1>2, <1>4
  <2> QED
    BY <2>1, <2>2 DEF Injection, IsInjective
<1>6. IsFiniteSet(1 .. n) /\ Cardinality(1 .. n) = n
  BY <1>1, FS_Interval
<1>7. rank \in Surjection(S, 1 .. n)
  <2> HIDE DEF rank
  <2> QED
    BY <1>1, <1>5, <1>6, FS_Injection
<1>8. ASSUME NEW i \in 1 .. n
      PROVE  /\ InOrder(S)[i] \in S
             /\ Cardinality(Before(S, InOrder(S)[i])) = i - 1
  <2>1. PICK s \in S : rank[s] = i
    BY <1>7 DEF Surjection
  <2>2. Cardinality(Before(S, s)) = i - 1
    BY <1>1, <1>2, <2>1
  <2> QED
    BY <2>2 DEF InOrder
<1>9. InOrder(S) \in Seq(S)
  BY <1>1, <1>8 DEF InOrder
<1>10. ASSUME NEW s \in S
       PROVE  Has(InOrder(S), s)
  <2>1. Cardinality(Before(S, s)) + 1 \in 1 .. n
    BY <1>1, <1>2
  <2>2. InOrder(S)[Cardinality(Before(S, s)) + 1] = s
    BY <1>1, <1>2, <1>4, <1>8, <2>1
  <2>3. DOMAIN InOrder(S) = 1 .. n
    BY DEF InOrder
  <2> QED
    BY <2>1, <2>2, <2>3 DEF Has
<1> QED
  BY <1>9, <1>10

\* So the mailbox of a start or a reload has one Connect for each new session.
LEMMA ConnectFacts ==
    ASSUME NEW S \in SUBSET Sessions
    PROVE  /\ ConnectAll(InOrder(S)) \in Seq(Message)
           /\ \A m : Has(ConnectAll(InOrder(S)), m) <=> \E s \in S : m = Connect(s, 0)
<1> DEFINE order == InOrder(S)
<1>1. order \in Seq(S) /\ \A s \in S : Has(order, s)
  BY OrderFacts
<1>2. /\ DOMAIN ConnectAll(order) = DOMAIN order
      /\ \A i \in DOMAIN order : ConnectAll(order)[i] = Connect(order[i], 0)
      /\ \A i \in DOMAIN order : order[i] \in S
      /\ Len(order) \in Nat /\ DOMAIN order = 1 .. Len(order)
  BY <1>1 DEF ConnectAll
<1>3. 0 \in 0 .. AttemptsLimit - 1
  BY ClientAssumption
<1>4. \A i \in DOMAIN order : ConnectAll(order)[i] \in Message
  BY <1>2, <1>3, MessageTypes
<1>5. ConnectAll(order) \in Seq(Message)
  <2>1. ConnectAll(order) = [i \in 1 .. Len(order) |-> ConnectAll(order)[i]]
    BY <1>2 DEF ConnectAll
  <2> QED
    BY <1>2, <1>4, <2>1
<1>6. ASSUME NEW s \in S
      PROVE  Has(ConnectAll(order), Connect(s, 0))
  BY <1>1, <1>2 DEF Has
<1>7. ASSUME NEW m, Has(ConnectAll(order), m)
      PROVE  \E s \in S : m = Connect(s, 0)
  BY <1>2, <1>7 DEF Has
<1> QED
  BY <1>5, <1>6, <1>7

-----------------------------------------------------------------------------
(* Types.  One lemma per thread, one step per action. *)

\* What a session knows, as TypeOK has it.
Known == [net : {"init", "connecting", "connected", "welcomed", "lost"},
          quiet : BOOLEAN, overdue : BOOLEAN, logged : BOOLEAN, ping : BOOLEAN]

\* The parts of TypeOK that change together.
SessionTypes == /\ life \in [Sessions -> {"unborn", "live", "removed", "freed"}]
                /\ conn \in [Sessions -> Known]
                /\ server \in [Sessions -> [Channels -> {"out", "asked", "in"}]]
MailTypes == mailbox \in Seq(Message) /\ DOMAIN delayed \subseteq Message
ThreadTypes ==
    /\ client \in [at : {"idle", "connected", "closing", "closed", "adding",
                          "reloading", "stopped"},
                   session : Sessions \cup {NoSession}]
    /\ selector \in [Sessions -> [at : {"idle", "welcomed", "logged", "reserved",
                                        "closing", "closed"},
                                  list : SUBSET Channels]]
MapTypes == DOMAIN channels \subseteq Channels /\ MapOK
ConfigTypes == /\ sessionCount \in Nat /\ oneSelector \in BOOLEAN /\ agenda \subseteq Requests
               /\ cursor \in Nat
               /\ commands \subseteq agenda /\ twice \in BOOLEAN /\ faults \in Nat
               /\ ub \in {"none", "freed", "null", "client", "erase", "division", "range", "race"}

\* TypeOK by the part of the state it speaks of.
LEMMA TypeParts ==
    TypeOK <=> SessionTypes /\ MailTypes /\ ThreadTypes /\ MapTypes /\ ConfigTypes
  BY DEF TypeOK, SessionTypes, MailTypes, ThreadTypes, MapTypes, ConfigTypes, MapOK, Known

\* A message that is sent, or delayed, is one of the agent's.
LEMMA SentTypes ==
    ASSUME MailTypes, NEW m \in Message
    PROVE  /\ Sent(mailbox, m) \in Seq(Message)
           /\ Delay(m) => DOMAIN delayed' \subseteq Message
<1>1. Sent(mailbox, m) \in Seq(Message)
  BY AppendFacts DEF Sent, MailTypes
<1>2. ASSUME Delay(m)
      PROVE  DOMAIN delayed' \subseteq Message
  <2>1. DOMAIN BagAdd(delayed, m) = DOMAIN delayed \cup {m}
    BY BagFacts
  <2>2. delayed' = BagAdd(delayed, m) \/ delayed' = delayed
    BY <1>2 DEF Delay
  <2> QED
    BY <2>1, <2>2 DEF MailTypes
<1> QED
  BY <1>1, <1>2

\* The head of the mailbox, when a handler takes it.
LEMMA TakenTypes ==
    ASSUME MailTypes, NEW type
    PROVE  /\ \A step : At(step, type) =>
                  /\ Head(mailbox) \in Message /\ Head(mailbox).type = type
                  /\ Tail(mailbox) \in Seq(Message)
                  /\ mailbox # <<>> /\ client.at = step
           /\ Take(type) =>
                  /\ Head(mailbox) \in Message /\ Head(mailbox).type = type
                  /\ Tail(mailbox) \in Seq(Message)
                  /\ mailbox # <<>> /\ client.at = "idle"
  BY TailFacts DEF Take, At, MailTypes

\* How the operators on sessions keep their types.
LEMMA ConnTypes ==
    ASSUME SessionTypes, NEW s \in Sessions
    PROVE  /\ \A v \in {"init", "connecting", "connected", "welcomed", "lost"} :
                  [conn EXCEPT ![s].net = v] \in [Sessions -> Known]
           /\ \A v \in BOOLEAN : /\ [conn EXCEPT ![s].logged = v] \in [Sessions -> Known]
                                 /\ [conn EXCEPT ![s].ping = v] \in [Sessions -> Known]
                                 /\ [conn EXCEPT ![s].quiet = v] \in [Sessions -> Known]
                                 /\ [conn EXCEPT ![s].overdue = v] \in [Sessions -> Known]
           /\ [conn EXCEPT ![s] = Renewed(@)] \in [Sessions -> Known]
           /\ [conn EXCEPT ![s] = Fresh] \in [Sessions -> Known]
<1>1. ASSUME NEW k \in Known
      PROVE  /\ \A v \in {"init", "connecting", "connected", "welcomed", "lost"} :
                    [k EXCEPT !.net = v] \in Known
             /\ \A v \in BOOLEAN : /\ [k EXCEPT !.logged = v] \in Known
                                   /\ [k EXCEPT !.ping = v] \in Known
                                   /\ [k EXCEPT !.quiet = v] \in Known
                                   /\ [k EXCEPT !.overdue = v] \in Known
             /\ Renewed(k) \in Known
  BY DEF Known, Renewed
<1>2. Fresh \in Known
  BY DEF Known, Fresh
<1>3. /\ conn[s] \in Known
      /\ \A k \in Known : [conn EXCEPT ![s] = k] \in [Sessions -> Known]
  BY DEF SessionTypes
<1> QED
  BY <1>1, <1>2, <1>3

\* What a server knows of a client's channels stays in its type.
LEMMA ServerTypes ==
    ASSUME SessionTypes, NEW s \in Sessions, NEW C
    PROVE  /\ Outside \in [Channels -> {"out", "asked", "in"}]
           /\ AfterJoin(s, C) \in [Channels -> {"out", "asked", "in"}]
           /\ AfterRejoin(s, C) \in [Channels -> {"out", "asked", "in"}]
  BY DEF SessionTypes, Outside, AfterJoin, AfterRejoin

\* So do the connections and the servers when sessions disconnect.
LEMMA DisconnectedTypes ==
    ASSUME SessionTypes, NEW S, Disconnected(S)
    PROVE  /\ conn' \in [Sessions -> Known]
           /\ server' \in [Sessions -> [Channels -> {"out", "asked", "in"}]]
  BY DEF SessionTypes, Disconnected, Known, Outside

\* What a disconnection leaves of a session.
LEMMA DisconnectedFacts ==
    ASSUME SessionTypes, NEW S, Disconnected(S), NEW s \in Sessions
    PROVE  /\ s \in S => /\ conn'[s].net = "init" /\ ~ conn'[s].ping
                         /\ conn'[s].logged = conn[s].logged
           /\ s \notin S => conn'[s] = conn[s]
<1>1. conn[s] \in Known
  BY DEF SessionTypes
<1>2. conn'[s] = IF s \in S THEN [conn[s] EXCEPT !.net = "init", !.quiet = FALSE, !.ping = FALSE]
                            ELSE conn[s]
  BY DEF Disconnected
<1> QED
  BY <1>1, <1>2 DEF Known

\* A Connect or a LoggedInCheck that is sent names a session.
LEMMA RetryTypes ==
    ASSUME NEW n \in 0 .. AttemptsLimit - 1
    PROVE  NextAttempt(n) \in 0 .. AttemptsLimit - 1
  BY ClientAssumption DEF NextAttempt

\* The agent is at a session exactly while it connects, closes or joins with one.
AtSession ==
    client.at \in {"connected", "closing", "closed", "adding"} <=> client.session \in Sessions

TypesInv == TypeOK /\ AtSession

\* The sessions of the account can be counted.
LEMMA LiveCount == Cardinality(Live) \in Nat
<1>1. IsFiniteSet(Live)
  BY FS_Subset, ClientAssumption DEF Live
<1> QED
  BY <1>1, FS_CardinalityType

\* The round robin goes on from the number of a session.
LEMMA CursorTypes ==
    ASSUME ConfigTypes, NEW s \in Live, MoveCursor(s)
    PROVE  cursor' \in Nat /\ (cursor' = cursor \/ cursor' < Cardinality(Live))
<1>1. IsFiniteSet(Live) /\ IsFiniteSet(Before(Live, s))
  BY FS_Subset, ClientAssumption DEF Live, Before
<1>2. Cardinality(Live) \in Nat \ {0} /\ Cardinality(Before(Live, s)) \in Nat
  BY <1>1, FS_CardinalityType, FS_EmptySet
<1> QED
  BY <1>2 DEF MoveCursor, Index, ConfigTypes

\* The handlers of the agent keep the types.
LEMMA ClientTypes ==
    ASSUME TypesInv, ClientStep
    PROVE  TypesInv'
<1> USE DEF account, net, history
<1>0. /\ SessionTypes /\ MailTypes /\ ThreadTypes /\ MapTypes /\ ConfigTypes
      /\ AtSession /\ NoSession \notin Sessions
  BY TypeParts, ClientAssumption DEF TypesInv
<1> SUFFICES /\ SessionTypes' /\ MailTypes' /\ ThreadTypes' /\ MapTypes' /\ ConfigTypes'
             /\ AtSession'
  BY DEF TypesInv, TypeOK, SessionTypes, MailTypes, ThreadTypes, MapTypes, ConfigTypes,
         MapOK, Known
<1>1. CASE EvtConnectUp
  <2>1. MailTypes'
    BY <1>0, <1>1, TakenTypes DEF EvtConnectUp, TakeFor, MailTypes
  <2> QED
    BY <1>0, <1>1, <2>1 DEF EvtConnectUp, SessionTypes, MapTypes, MapOK, ConfigTypes,
       ThreadTypes, AtSession
<1>2. CASE EvtConnect
  <2> DEFINE s == Head(mailbox).session
  <2>1. MailTypes' /\ s \in Sessions
    BY <1>0, <1>2, TakenTypes, MessageFields DEF EvtConnect, TakeFor, MailTypes
  <2>2. SessionTypes'
    BY <1>0, <1>2, <2>1, ConnTypes DEF EvtConnect, SessionTypes
  <2>3. ThreadTypes' /\ AtSession'
    BY <1>0, <1>2, <2>1 DEF EvtConnect, ThreadTypes, AtSession
  <2> QED
    BY <1>0, <1>2, <2>1, <2>2, <2>3 DEF EvtConnect, MapTypes, MapOK, ConfigTypes
<1>3. CASE EvtConnectFails
  <2> DEFINE s == Head(mailbox).session
             n == Head(mailbox).attempt
  <2>1. Tail(mailbox) \in Seq(Message) /\ s \in Sessions /\ n \in 0 .. AttemptsLimit - 1
    BY <1>0, <1>3, TakenTypes, MessageFields DEF EvtConnectFails, TakeFor
  <2>2. Connect(s, NextAttempt(n)) \in Message
    BY <2>1, RetryTypes, MessageTypes
  <2>3. MailTypes'
    BY <1>0, <1>3, <2>1, <2>2, SentTypes DEF EvtConnectFails, MailTypes
  <2>4. ConfigTypes'
    BY <1>0, <1>3 DEF EvtConnectFails, ConfigTypes, Fault
  <2> QED
    BY <1>0, <1>3, <2>3, <2>4
       DEF EvtConnectFails, SessionTypes, ThreadTypes, AtSession, MapTypes, MapOK
<1>4. CASE EvtConnected
  <2> DEFINE s == client.session
  <2>1. s \in Sessions
    BY <1>0, <1>4 DEF EvtConnected, AtSession
  <2>2. MailTypes'
    BY <1>0, <1>4, <2>1, MessageTypes, SentTypes DEF EvtConnected, MailTypes
  <2>3. SessionTypes'
    BY <1>0, <1>4, <2>1, ConnTypes DEF EvtConnected, SessionTypes
  <2>4. ThreadTypes' /\ AtSession'
    BY <1>0, <1>4 DEF EvtConnected, ThreadTypes, AtSession, Idle
  <2> QED
    BY <1>0, <1>4, <2>2, <2>3, <2>4 DEF EvtConnected, MapTypes, MapOK, ConfigTypes
<1>5. CASE EvtLoggedInCheck
  <2>1. MailTypes' /\ Head(mailbox).session \in Sessions
    BY <1>0, <1>5, TakenTypes, MessageFields DEF EvtLoggedInCheck, TakeFor, MailTypes
  <2>2. ThreadTypes' /\ AtSession'
    BY <1>0, <1>5, <2>1 DEF EvtLoggedInCheck, ThreadTypes, AtSession, Idle
  <2>3. ConfigTypes'
    BY <1>0, <1>5 DEF EvtLoggedInCheck, ConfigTypes, Fault
  <2> QED
    BY <1>0, <1>5, <2>1, <2>2, <2>3 DEF EvtLoggedInCheck, SessionTypes, MapTypes, MapOK
<1>6. CASE EvtSendPING
  <2> DEFINE s == Head(mailbox).session
  <2>1. MailTypes' /\ s \in Sessions
    BY <1>0, <1>6, TakenTypes, MessageFields DEF EvtSendPING, TakeFor, MailTypes
  <2>2. conn' = [conn EXCEPT ![s].overdue = conn[s].overdue \/ (conn[s].quiet /\ Sendable(s))]
    BY <1>0, <1>6, <2>1 DEF EvtSendPING, SessionTypes
  <2>3. (conn[s].overdue \/ (conn[s].quiet /\ Sendable(s))) \in BOOLEAN
    BY <1>0, <2>1 DEF SessionTypes, Known, Sendable
  <2>4. PICK v \in BOOLEAN : conn' = [conn EXCEPT ![s].overdue = v]
    BY <2>2, <2>3
  <2>5. SessionTypes'
    <3>1. conn' \in [Sessions -> Known]
      BY <1>0, <2>1, <2>4, ConnTypes
    <3> QED
      BY <1>0, <1>6, <3>1 DEF EvtSendPING, SessionTypes
  <2>6. ThreadTypes' /\ AtSession'
    BY <1>0, <1>6, <2>1 DEF EvtSendPING, ThreadTypes, AtSession, Idle
  <2> QED
    BY <1>0, <1>6, <2>1, <2>5, <2>6 DEF EvtSendPING, MapTypes, MapOK, ConfigTypes
<1>7. CASE EvtChannelJoined
  <2>1. MailTypes'
    BY <1>0, <1>7, TakenTypes DEF EvtChannelJoined, MailTypes
  <2>2. MapTypes'
    BY <1>0, <1>7, MarkKeeps DEF EvtChannelJoined, MapTypes, MapOK, Map, MarkJoined
  <2> QED
    BY <1>0, <1>7, <2>1, <2>2
       DEF EvtChannelJoined, SessionTypes, ThreadTypes, AtSession, ConfigTypes
<1>8. CASE EvtAllJoined \/ EvtLeaveUnknown
  <2>1. MailTypes'
    BY <1>0, <1>8, TakenTypes DEF EvtAllJoined, EvtLeaveUnknown, MailTypes
  <2> QED
    BY <1>0, <1>8, <2>1 DEF EvtAllJoined, EvtLeaveUnknown, SessionTypes, ThreadTypes,
       AtSession, MapTypes, MapOK, ConfigTypes
<1>9. CASE EvtRejoin
  <2> DEFINE s == Head(mailbox).session
             C == NotJoined(channels, Head(mailbox).channels)
  <2>1. /\ Tail(mailbox) \in Seq(Message) /\ s \in Sessions
        /\ Head(mailbox).channels \subseteq Channels
    BY <1>0, <1>9, TakenTypes, MessageFields DEF EvtRejoin, TakeFor
  <2>2. CheckJoined(s, C) \in Message
    BY <2>1, MessageTypes DEF NotJoined
  <2>3. MailTypes'
    BY <1>0, <1>9, <2>1, <2>2, SentTypes DEF EvtRejoin, MailTypes
  <2>4. SessionTypes'
    BY <1>0, <1>9, <2>1, ServerTypes DEF EvtRejoin, SessionTypes
  <2> QED
    BY <1>0, <1>9, <2>3, <2>4 DEF EvtRejoin, ThreadTypes, AtSession, MapTypes, MapOK, ConfigTypes
<1>10. CASE EvtJoinChannel
  <2> DEFINE c == Head(mailbox).channel
  <2>1. PICK s \in Live :
            /\ MoveCursor(s)
            /\ \/ /\ mailbox' = Tail(mailbox)
                  /\ UNCHANGED <<client, server>>
               \/ /\ client' = [at |-> "adding", session |-> s]
                  /\ server' = [server EXCEPT ![s] = AfterJoin(s, {c})]
                  /\ UNCHANGED mailbox
    BY <1>10 DEF EvtJoinChannel
  <2>0. s \in Sessions
    BY DEF Live
  <2>2. MailTypes'
    BY <1>0, <1>10, <2>1, TakenTypes DEF EvtJoinChannel, MailTypes
  <2>3. SessionTypes'
    <3>1. AfterJoin(s, {c}) \in [Channels -> {"out", "asked", "in"}]
      BY <1>0, <2>0, ServerTypes
    <3>2. server' \in [Sessions -> [Channels -> {"out", "asked", "in"}]]
      BY <1>0, <2>1, <3>1 DEF SessionTypes
    <3> QED
      BY <1>0, <1>10, <3>2 DEF EvtJoinChannel, SessionTypes
  <2>4. ConfigTypes'
    BY <1>0, <1>10, <2>1, CursorTypes DEF EvtJoinChannel, ConfigTypes
  <2>5. ThreadTypes' /\ AtSession'
    BY <1>0, <1>10, <2>0, <2>1 DEF EvtJoinChannel, ThreadTypes, AtSession
  <2> QED
    BY <1>0, <1>10, <2>2, <2>3, <2>4, <2>5 DEF EvtJoinChannel, MapTypes, MapOK
<1>18. CASE EvtAddChannel
  <2> DEFINE c == Head(mailbox).channel
             s == client.session
  <2>1. MailTypes' /\ c \in Channels /\ s \in Sessions
    BY <1>0, <1>18, TakenTypes, MessageFields DEF EvtAddChannel, MailTypes, AtSession
  <2>2. MapTypes'
    <3>1. /\ Map(AddChannel(channels, c, s))
          /\ DOMAIN AddChannel(channels, c, s) = DOMAIN channels \cup {c}
      BY <1>0, <2>1, AddKeeps DEF MapTypes, MapOK, Map, AddChannel
    <3> QED
      BY <1>0, <1>18, <2>1, <3>1 DEF EvtAddChannel, MapTypes, MapOK, Map
  <2>3. ThreadTypes' /\ AtSession'
    BY <1>0, <1>18 DEF EvtAddChannel, ThreadTypes, AtSession, Idle
  <2> QED
    BY <1>0, <1>18, <2>1, <2>2, <2>3 DEF EvtAddChannel, SessionTypes, ConfigTypes
<1>19. CASE EvtSendMessage
  <2>1. PICK s \in Live : MoveCursor(s)
    BY <1>19 DEF EvtSendMessage
  <2>2. MailTypes'
    BY <1>0, <1>19, TakenTypes DEF EvtSendMessage, MailTypes
  <2>3. ConfigTypes'
    BY <1>0, <1>19, <2>1, CursorTypes DEF EvtSendMessage, ConfigTypes
  <2> QED
    BY <1>0, <1>19, <2>2, <2>3 DEF EvtSendMessage, SessionTypes, ThreadTypes, AtSession,
       MapTypes, MapOK
<1>11. CASE EvtLeaveChannel
  <2> DEFINE c == Head(mailbox).channel
             s == channels[c].session
  <2>1. MailTypes' /\ c \in Channels /\ c \in DOMAIN channels
    BY <1>0, <1>11, TakenTypes, MessageFields DEF EvtLeaveChannel, MailTypes
  <2>2. MapTypes'
    BY <1>0, <1>11, ExtractKeeps DEF EvtLeaveChannel, MapTypes, MapOK, Map, ExtractChannel
  <2>3. server' = server \/ server' = [server EXCEPT ![s][c] = "out"]
    BY <1>11 DEF EvtLeaveChannel
  <2>4. SessionTypes'
    BY <1>0, <1>11, <2>1, <2>3 DEF EvtLeaveChannel, SessionTypes
  <2>5. ConfigTypes'
    BY <1>0, <1>11 DEF EvtLeaveChannel, ConfigTypes
  <2> QED
    BY <1>0, <1>11, <2>1, <2>2, <2>4, <2>5 DEF EvtLeaveChannel, ThreadTypes, AtSession
<1>12. CASE EvtReload
  <2>1. MailTypes' /\ Head(mailbox).count \in Nat
    BY <1>0, <1>12, TakenTypes, MessageFields DEF EvtReload, MailTypes
  <2>2. SessionTypes'
    <3>1. life' \in [Sessions -> {"unborn", "live", "removed", "freed"}]
      BY <1>0, <1>12 DEF EvtReload, SessionTypes
    <3> QED
      BY <1>0, <1>12, <3>1, DisconnectedTypes DEF EvtReload, SessionTypes
  <2>3. ThreadTypes' /\ AtSession'
    BY <1>0, <1>12, ClientAssumption DEF EvtReload, ThreadTypes, AtSession
  <2> QED
    BY <1>0, <1>12, <2>1, <2>2, <2>3
       DEF EvtReload, ConfigTypes, RemoveFromSelectors, MapTypes, MapOK
<1>20. CASE EvtReloaded
  <2>1. PICK S \in SUBSET Sessions :
            /\ life' = [s \in Sessions |-> IF s \in S THEN "live" ELSE life[s]]
            /\ mailbox' = mailbox \o (IF Open THEN ConnectAll(InOrder(S)) ELSE <<>>)
    BY <1>20 DEF EvtReloaded, FirstOf, Unused
  <2>2. MailTypes'
    <3>1. ConnectAll(InOrder(S)) \in Seq(Message) /\ <<>> \in Seq(Message)
      BY ConnectFacts
    <3>2. mailbox' \in Seq(Message)
      BY <1>0, <2>1, <3>1, ConcatFacts DEF MailTypes
    <3> QED
      BY <1>0, <1>20, <3>2 DEF EvtReloaded, MailTypes
  <2>3. SessionTypes'
    BY <1>0, <1>20, <2>1 DEF EvtReloaded, SessionTypes
  <2>4. MapTypes'
    <3>1. PICK names \in SUBSET Channels : channels' = Load(names)
      BY <1>20, ClientAssumption DEF EvtReloaded
    <3>2. Map(Load(names)) /\ DOMAIN Load(names) = names
      BY LoadKeeps DEF Load
    <3> QED
      BY <3>1, <3>2 DEF MapTypes, MapOK, Map
  <2>5. ThreadTypes' /\ AtSession'
    BY <1>0, <1>20, ClientAssumption DEF EvtReloaded, ThreadTypes, AtSession, Idle
  <2> QED
    BY <1>0, <1>20, <2>2, <2>3, <2>4, <2>5 DEF EvtReloaded, ConfigTypes
<1>13. CASE EvtShutdown
  <2>1. Tail(mailbox) \in Seq(Message)
    BY <1>0, <1>13, TakenTypes DEF EvtShutdown
  <2>2. <<[type |-> "Finish"]>> \in Seq(Message) /\ <<>> \in Seq(Message)
    BY MessageTypes
  <2>3. mailbox' \in Seq(Message)
    BY <1>13, <2>1, <2>2, ConcatFacts DEF EvtShutdown
  <2>4. MailTypes'
    BY <1>0, <1>13, <2>3 DEF EvtShutdown, MailTypes
  <2> QED
    BY <1>0, <1>13, <2>4 DEF EvtShutdown, SessionTypes, ThreadTypes, AtSession,
       MapTypes, MapOK, ConfigTypes
<1>14. CASE EvtFinish
  <2>1. MailTypes'
    <3>1. mailbox' \in Seq(Message)
      BY <1>14 DEF EvtFinish
    <3>2. DOMAIN delayed' = {}
      BY <1>14 DEF EvtFinish, NoMessages
    <3> QED
      BY <3>1, <3>2 DEF MailTypes
  <2>2. SessionTypes'
    <3>1. life' \in [Sessions -> {"unborn", "live", "removed", "freed"}]
      BY <1>0, <1>14 DEF SessionTypes, EvtFinish
    <3> QED
      BY <1>0, <1>14, <3>1, DisconnectedTypes DEF EvtFinish, SessionTypes
  <2>3. ThreadTypes' /\ AtSession'
    BY <1>0, <1>14 DEF EvtFinish, ThreadTypes, AtSession
  <2> QED
    BY <1>0, <1>14, <2>1, <2>2, <2>3
       DEF EvtFinish, MapTypes, MapOK, ConfigTypes, RemoveFromSelectors
<1>15. CASE EvtFreed \/ EvtOutOfRange
  BY <1>0, <1>15 DEF EvtFreed, EvtOutOfRange, SessionTypes, MailTypes, ThreadTypes, AtSession,
     MapTypes, MapOK, ConfigTypes
<1>16. CASE ClientClose
  <2>1. SessionTypes'
    BY <1>0, <1>16, DisconnectedTypes DEF ClientClose, Close, SessionTypes
  <2>2. ThreadTypes' /\ AtSession'
    BY <1>0, <1>16 DEF ClientClose, ThreadTypes, AtSession
  <2> QED
    BY <1>0, <1>16, <2>1, <2>2 DEF ClientClose, MailTypes, MapTypes, MapOK, ConfigTypes
<1>17. CASE ClientReport
  <2> DEFINE s == client.session
  <2>1. s \in Sessions /\ 0 \in 0 .. AttemptsLimit - 1
    BY <1>0, <1>17, ClientAssumption DEF ClientReport, AtSession
  <2>2. MailTypes'
    BY <1>0, <1>17, <2>1, MessageTypes, SentTypes DEF ClientReport, Report, MailTypes
  <2>3. MapTypes'
    BY <1>0, <1>17, DetachKeeps DEF ClientReport, Report, MapTypes, MapOK, Map, DetachFrom
  <2>4. ThreadTypes' /\ AtSession'
    BY <1>0, <1>17 DEF ClientReport, ThreadTypes, AtSession, Idle
  <2> QED
    BY <1>0, <1>17, <2>2, <2>3, <2>4 DEF ClientReport, SessionTypes, ConfigTypes
<1> QED
  BY <1>1, <1>2, <1>3, <1>4, <1>5, <1>6, <1>7, <1>8, <1>9, <1>10, <1>11, <1>12, <1>13, <1>14, <1>15, <1>16,
     <1>17, <1>18, <1>19, <1>20 DEF ClientStep

\* The callbacks on the selector threads keep the types.
LEMMA SelectorTypes ==
    ASSUME TypesInv, NEW s \in Sessions, SelectorStep(s)
    PROVE  TypesInv'
<1> USE DEF account, net, history
<1>0. /\ SessionTypes /\ MailTypes /\ ThreadTypes /\ MapTypes /\ ConfigTypes
      /\ AtSession
  BY TypeParts DEF TypesInv
<1> SUFFICES /\ SessionTypes' /\ MailTypes' /\ ThreadTypes' /\ MapTypes' /\ ConfigTypes'
             /\ AtSession'
  BY DEF TypesInv, TypeOK, SessionTypes, MailTypes, ThreadTypes, MapTypes, ConfigTypes,
         MapOK, Known
<1>1. CASE SelectorClose(s)
  <2>1. SessionTypes'
    BY <1>0, <1>1, DisconnectedTypes DEF SelectorClose, Close, SessionTypes
  <2>2. ThreadTypes'
    BY <1>0, <1>1 DEF SelectorClose, SelectorTo, ThreadTypes
  <2> QED
    BY <1>0, <1>1, <2>1, <2>2
       DEF SelectorClose, MailTypes, AtSession, MapTypes, MapOK, ConfigTypes
<1>2. CASE SelectorReport(s)
  <2>1. Connect(s, 0) \in Message
    BY MessageTypes, ClientAssumption
  <2>2. MailTypes'
    BY <1>0, <1>2, <2>1, SentTypes DEF SelectorReport, Report, MailTypes
  <2>3. MapTypes'
    BY <1>0, <1>2, DetachKeeps DEF SelectorReport, Report, MapTypes, MapOK, Map, DetachFrom
  <2>4. ThreadTypes'
    BY <1>0, <1>2 DEF SelectorReport, SelectorTo, ThreadTypes
  <2> QED
    BY <1>0, <1>2, <2>2, <2>3, <2>4
       DEF SelectorReport, SessionTypes, AtSession, ConfigTypes, Listener
<1>3. CASE SelectorLogged(s)
  <2>1. SessionTypes'
    BY <1>0, <1>3, ConnTypes DEF SelectorLogged, SessionTypes
  <2>2. ThreadTypes'
    BY <1>0, <1>3 DEF SelectorLogged, SelectorTo, ThreadTypes
  <2> QED
    BY <1>0, <1>3, <2>1, <2>2
       DEF SelectorLogged, MailTypes, AtSession, MapTypes, MapOK, ConfigTypes
<1>4. CASE SelectorReserve(s)
  <2>1. PICK R \in Reservations(channels, sessionCount) :
            /\ channels' = Attach(channels, R, s)
            /\ selector' = [selector EXCEPT ![s] = [at |-> "reserved", list |-> R]]
    BY <1>4 DEF SelectorReserve
  <2>2. R \in SUBSET Channels
    BY <1>0, <2>1 DEF Reservations, Unattached, MapTypes
  <2>3. ThreadTypes'
    BY <1>0, <1>4, <2>1, <2>2 DEF SelectorReserve, ThreadTypes
  <2>4. MapTypes'
    <3>1. Map(Attach(channels, R, s)) /\ DOMAIN Attach(channels, R, s) = DOMAIN channels
      BY <1>0, <2>1, AttachKeeps DEF MapTypes, MapOK, Map, Attach
    <3> QED
      BY <1>0, <2>1, <3>1 DEF MapTypes, MapOK, Map
  <2>5. ConfigTypes'
    BY <1>0, <1>4 DEF SelectorReserve, ConfigTypes, Listener
  <2> QED
    BY <1>0, <1>4, <2>3, <2>4, <2>5 DEF SelectorReserve, SessionTypes, MailTypes, AtSession
<1>5. CASE SelectorDivides(s)
  BY <1>0, <1>5 DEF SelectorDivides, SessionTypes, MailTypes, ThreadTypes, AtSession,
     MapTypes, MapOK, ConfigTypes
<1>6. CASE SelectorJoin(s)
  <2>1. selector[s].list \in SUBSET Channels
    BY <1>0 DEF ThreadTypes
  <2>2. MailTypes'
    BY <1>0, <1>6, <2>1, MessageTypes, SentTypes DEF SelectorJoin, MailTypes
  <2>3. SessionTypes'
    <3>1. conn' \in [Sessions -> Known]
      BY <1>0, <1>6, ConnTypes DEF SelectorJoin
    <3>2. server' \in [Sessions -> [Channels -> {"out", "asked", "in"}]]
      BY <1>0, <1>6, ServerTypes DEF SelectorJoin, SessionTypes
    <3> QED
      BY <1>0, <1>6, <3>1, <3>2 DEF SelectorJoin, SessionTypes
  <2>4. ThreadTypes'
    BY <1>0, <1>6 DEF SelectorJoin, ThreadTypes
  <2> QED
    BY <1>0, <1>6, <2>2, <2>3, <2>4
       DEF SelectorJoin, AtSession, MapTypes, MapOK, ConfigTypes, Listener
<1>7. CASE SelectorSync(s)
  <2>1. SessionTypes'
    <3>1. conn' \in [Sessions -> Known]
      BY <1>0, <1>7, ConnTypes DEF SelectorSync
    <3>2. server' \in [Sessions -> [Channels -> {"out", "asked", "in"}]]
      BY <1>0, <1>7, ServerTypes DEF SelectorSync, SessionTypes
    <3> QED
      BY <1>0, <1>7, <3>1, <3>2 DEF SelectorSync, SessionTypes
  <2> QED
    BY <1>0, <1>7, <2>1
       DEF SelectorSync, MailTypes, ThreadTypes, AtSession, MapTypes, MapOK, ConfigTypes
<1> QED
  BY <1>1, <1>2, <1>3, <1>4, <1>5, <1>6, <1>7 DEF SelectorStep

\* A server that falls silent, or answers again, leaves the connection as it is.
LEMMA SilenceFacts ==
    ASSUME SessionTypes, NEW s \in Sessions, Silence(s) \/ Answer(s)
    PROVE  /\ UNCHANGED <<selector, client>>
           /\ \A t \in Sessions : /\ conn'[t].net = conn[t].net
                                  /\ conn'[t].logged = conn[t].logged
                                  /\ conn'[t].ping = conn[t].ping
<1>1. conn[s] \in Known /\ conn = [t \in Sessions |-> conn[t]]
  BY DEF SessionTypes
<1>2. \/ conn' = [conn EXCEPT ![s].quiet = TRUE]
      \/ conn' = [conn EXCEPT ![s].quiet = FALSE, ![s].overdue = FALSE]
  BY DEF Silence, Answer
<1>3. /\ conn'[s].net = conn[s].net /\ conn'[s].logged = conn[s].logged
      /\ conn'[s].ping = conn[s].ping
  BY <1>1, <1>2 DEF Known
<1>4. \A t \in Sessions \ {s} : conn'[t] = conn[t]
  BY <1>1, <1>2
<1> QED
  BY <1>3, <1>4 DEF Silence, Answer

\* What the network and the servers do keeps the types.
LEMMA NetTypes ==
    ASSUME TypesInv, NEW s \in Sessions, NetStep(s)
    PROVE  TypesInv'
<1> USE DEF account, net, history
<1>0. /\ SessionTypes /\ MailTypes /\ ThreadTypes /\ MapTypes /\ ConfigTypes
      /\ AtSession
  BY TypeParts DEF TypesInv
<1> SUFFICES /\ SessionTypes' /\ MailTypes' /\ ThreadTypes' /\ MapTypes' /\ ConfigTypes'
             /\ AtSession'
  BY DEF TypesInv, TypeOK, SessionTypes, MailTypes, ThreadTypes, MapTypes, ConfigTypes,
         MapOK, Known
<1>1. CASE NetConnected(s) \/ Answer(s)
  <2>1. conn' \in [Sessions -> Known]
    <3>1. CASE NetConnected(s)
      BY <1>0, <3>1, ConnTypes DEF NetConnected
    <3>2. CASE Answer(s)
      <4>1. conn[s] \in Known /\ conn \in [Sessions -> Known]
        BY <1>0 DEF SessionTypes
      <4>2. [conn[s] EXCEPT !.quiet = FALSE, !.overdue = FALSE] \in Known
        BY <4>1 DEF Known
      <4>3. conn' = [conn EXCEPT ![s] = [conn[s] EXCEPT !.quiet = FALSE, !.overdue = FALSE]]
        BY <3>2, <4>1 DEF Answer
      <4> QED
        BY <4>1, <4>2, <4>3
    <3> QED
      BY <1>1, <3>1, <3>2
  <2> QED
    BY <1>0, <1>1, <2>1 DEF NetConnected, Answer, SessionTypes, MailTypes, ThreadTypes,
       AtSession, MapTypes, MapOK, ConfigTypes
<1>2. CASE Welcome(s)
  <2>1. SessionTypes'
    BY <1>0, <1>2, ConnTypes DEF Welcome, SessionTypes
  <2>2. ThreadTypes'
    BY <1>0, <1>2 DEF Welcome, SelectorTo, ThreadTypes
  <2>3. ConfigTypes'
    BY <1>0, <1>2 DEF Welcome, ConfigTypes, Fault
  <2> QED
    BY <1>0, <1>2, <2>1, <2>2, <2>3 DEF Welcome, MailTypes, AtSession, MapTypes, MapOK
<1>3. CASE NetLost(s)
  <2>1. SessionTypes'
    <3>1. conn' \in [Sessions -> Known]
      BY <1>0, <1>3, ConnTypes DEF NetLost
    <3>2. server' \in [Sessions -> [Channels -> {"out", "asked", "in"}]]
      BY <1>0, <1>3, ServerTypes DEF NetLost, SessionTypes
    <3> QED
      BY <1>0, <1>3, <3>1, <3>2 DEF NetLost, SessionTypes
  <2>2. ThreadTypes'
    BY <1>0, <1>3 DEF NetLost, SelectorTo, ThreadTypes
  <2>3. ConfigTypes'
    BY <1>0, <1>3 DEF NetLost, ConfigTypes, Fault
  <2> QED
    BY <1>0, <1>3, <2>1, <2>2, <2>3 DEF NetLost, MailTypes, AtSession, MapTypes, MapOK
<1>4. CASE Silence(s)
  <2>1. SessionTypes'
    BY <1>0, <1>4, ConnTypes DEF Silence, SessionTypes
  <2>2. ConfigTypes'
    BY <1>0, <1>4 DEF Silence, ConfigTypes, Fault
  <2> QED
    BY <1>0, <1>4, <2>1, <2>2
       DEF Silence, MailTypes, ThreadTypes, AtSession, MapTypes, MapOK
<1>5. CASE PingTick(s)
  <2>1. MailTypes'
    BY <1>0, <1>5, MessageTypes, AppendFacts DEF PingTick, MailTypes
  <2> QED
    BY <1>0, <1>5, <2>1
       DEF PingTick, SessionTypes, ThreadTypes, AtSession, MapTypes, MapOK, ConfigTypes
<1>6. ASSUME NEW c \in Channels, JoinAck(s, c)
      PROVE  /\ SessionTypes' /\ MailTypes' /\ ThreadTypes' /\ MapTypes' /\ ConfigTypes'
             /\ AtSession'
  <2>1. MailTypes'
    BY <1>0, <1>6, MessageTypes, SentTypes DEF JoinAck, MailTypes
  <2>2. SessionTypes'
    BY <1>0, <1>6 DEF JoinAck, SessionTypes
  <2> QED
    BY <1>0, <1>6, <2>1, <2>2
       DEF JoinAck, ThreadTypes, AtSession, MapTypes, MapOK, ConfigTypes
<1>7. ASSUME NEW c \in Channels, JoinLost(s, c)
      PROVE  /\ SessionTypes' /\ MailTypes' /\ ThreadTypes' /\ MapTypes' /\ ConfigTypes'
             /\ AtSession'
  <2>1. SessionTypes'
    BY <1>0, <1>7 DEF JoinLost, SessionTypes
  <2>2. ConfigTypes'
    BY <1>0, <1>7 DEF JoinLost, ConfigTypes, Fault
  <2> QED
    BY <1>0, <1>7, <2>1, <2>2 DEF JoinLost, MailTypes, ThreadTypes, AtSession, MapTypes, MapOK
<1> QED
  BY <1>1, <1>2, <1>3, <1>4, <1>5, <1>6, <1>7 DEF NetStep

\* A timer that fires puts a known message into the mailbox.
LEMMA TimerTypes ==
    ASSUME TypesInv, NEW s \in Sessions, NEW type \in Timers, TimerFires(type, s)
    PROVE  TypesInv'
<1> USE DEF account, net, history
<1>0. /\ SessionTypes /\ MailTypes /\ ThreadTypes /\ MapTypes /\ ConfigTypes
      /\ AtSession
  BY TypeParts DEF TypesInv
<1>1. PICK m \in DOMAIN delayed :
          /\ mailbox' = Append(mailbox, m)
          /\ delayed' = BagRemove(delayed, m)
          /\ UNCHANGED <<account, life, net, channels, client, selector, history, ub>>
          /\ faults' = faults \/ (faults > 0 /\ faults' = faults - 1)
  BY DEF TimerFires, Fault
<1>2. MailTypes'
  <2>1. m \in Message
    BY <1>0 DEF MailTypes
  <2>2. DOMAIN BagRemove(delayed, m) \subseteq DOMAIN delayed
    BY BagFacts
  <2> QED
    BY <1>0, <1>1, <2>1, <2>2, AppendFacts DEF MailTypes
<1>3. ConfigTypes'
  BY <1>0, <1>1 DEF ConfigTypes
<1>4. SessionTypes' /\ ThreadTypes' /\ MapTypes' /\ AtSession'
  BY <1>0, <1>1 DEF SessionTypes, ThreadTypes, MapTypes, MapOK, AtSession
<1> QED
  BY <1>2, <1>3, <1>4 DEF TypesInv, TypeOK, SessionTypes, MailTypes, ThreadTypes, MapTypes,
     ConfigTypes, MapOK, Known

\* A request that is put into the mailbox keeps the types.
LEMMA CommandTypes ==
    ASSUME TypesInv, NEW m \in Requests, Command(m)
    PROVE  TypesInv'
<1> USE DEF account, net, history
<1>0. /\ SessionTypes /\ MailTypes /\ ThreadTypes /\ MapTypes /\ ConfigTypes
      /\ AtSession
  BY TypeParts DEF TypesInv
<1>1. MailTypes'
  BY <1>0, MessageTypes, AppendFacts DEF Command, MailTypes
<1>2. ConfigTypes'
  BY <1>0 DEF Command, ConfigTypes
<1>3. SessionTypes' /\ ThreadTypes' /\ MapTypes' /\ AtSession'
  BY <1>0 DEF Command, SessionTypes, ThreadTypes, MapTypes, MapOK, AtSession
<1> QED
  BY <1>1, <1>2, <1>3 DEF TypesInv, TypeOK, SessionTypes, MailTypes, ThreadTypes, MapTypes,
     ConfigTypes, MapOK, Known

\* A race ends the run and changes nothing else that is modelled.
LEMMA RaceTypes ==
    ASSUME TypesInv, NEW s \in Sessions, Race(s)
    PROVE  TypesInv'
<1> USE DEF account, net, history
<1>0. /\ SessionTypes /\ MailTypes /\ ThreadTypes /\ MapTypes /\ ConfigTypes
      /\ AtSession
  BY TypeParts DEF TypesInv
<1>1. /\ SessionTypes' /\ MailTypes' /\ ThreadTypes' /\ MapTypes' /\ ConfigTypes'
      /\ AtSession'
  BY <1>0 DEF Race, SessionTypes, MailTypes, ThreadTypes, MapTypes, MapOK, ConfigTypes,
     AtSession
<1> QED
  BY <1>1 DEF TypesInv, TypeOK, SessionTypes, MailTypes, ThreadTypes, MapTypes,
     ConfigTypes, MapOK, Known

\* An account that was just registered has the types.
LEMMA InitTypes ==
    ASSUME Init
    PROVE  TypesInv
<1> DEFINE S == FirstOf(Sessions, sessionCount)
<1>1. MapTypes
  <2>1. PICK names \in SUBSET Channels : channels = Load(names)
    BY ClientAssumption DEF Init
  <2>2. Map(Load(names)) /\ DOMAIN Load(names) = names
    BY LoadKeeps DEF Load
  <2> QED
    BY <2>1, <2>2 DEF MapTypes, MapOK, Map
<1>2. ConfigTypes
  <2>1. PICK u \in Setup : /\ sessionCount = u.sessions
                           /\ oneSelector = u.oneSelector
                           /\ faults = u.faults
                           /\ agenda = u.commands
    BY ClientAssumption DEF Init
  <2> QED
    BY <2>1 DEF Init, Setup, ConfigTypes
<1>3. MailTypes
  <2>1. mailbox = ConnectAll(InOrder(S)) /\ S \in SUBSET Sessions
    BY DEF Init, FirstOf
  <2>2. mailbox \in Seq(Message)
    BY <2>1, ConnectFacts
  <2>3. DOMAIN delayed = {}
    BY DEF Init, NoMessages
  <2> QED
    BY <2>2, <2>3 DEF MailTypes
<1>4. SessionTypes
  BY DEF Init, SessionTypes, Fresh, Known, Outside
<1>5. ThreadTypes /\ AtSession
  BY ClientAssumption DEF Init, ThreadTypes, AtSession, Idle
<1> QED
  BY <1>1, <1>2, <1>3, <1>4, <1>5 DEF TypesInv, TypeOK, SessionTypes, MailTypes, ThreadTypes,
     MapTypes, ConfigTypes, MapOK, Known

\* TypesInv is inductive.
LEMMA StepTypes ==
    ASSUME TypesInv, [Next]_vars
    PROVE  TypesInv'
<1>1. CASE Next
  BY <1>1, ClientTypes, SelectorTypes, NetTypes, TimerTypes, CommandTypes, RaceTypes DEF Next
<1>2. CASE UNCHANGED vars
  BY <1>2 DEF vars, account, history, TypesInv, TypeOK, AtSession
<1> QED
  BY <1>1, <1>2

\* TypesInv holds in every reachable state: the types, and that a thread which
\* is inside a callback or a handler is there for a session of the account.
THEOREM TypesInvariant == Spec => []TypesInv
  BY InitTypes, StepTypes, PTL DEF Spec

\* The state of an account keeps its types, for every number of sessions and
\* channels and whatever is asked for; the attempt of a reconnection stays under
\* the configured limit, so the shift that computes its delay does not overflow.
THEOREM ClientTypeOK == Spec => []TypeOK
<1>1. TypesInv => TypeOK
  BY DEF TypesInv
<1> QED
  BY <1>1, TypesInvariant, PTL

-----------------------------------------------------------------------------
(* The owners of the channels: one lemma per thread. *)

\* What every step is shown to do.
Kept == OwnersKept(channels, channels')

\* Every handler of the agent keeps the list and its owners.
LEMMA ClientKeeps ==
    ASSUME MapOK, AtSession, ClientStep
    PROVE  Kept
<1> USE DEF MapOK, Map, Kept
<1>1. CASE EvtChannelJoined
  BY <1>1, MarkKeeps DEF EvtChannelJoined
<1>2. CASE EvtAddChannel
  <2>1. client.session \in Sessions
    BY <1>2 DEF EvtAddChannel, At, AtSession
  <2> QED
    BY <1>2, <2>1, AddKeeps DEF EvtAddChannel
<1>3. CASE EvtLeaveChannel
  BY <1>3, ExtractKeeps DEF EvtLeaveChannel
<1>4. CASE EvtReloaded
  BY <1>4, LoadKeeps DEF EvtReloaded
<1>5. CASE ClientReport
  BY <1>5, DetachKeeps DEF ClientReport, Report
<1>6. CASE EvtConnectUp \/ EvtConnect \/ EvtConnectFails \/ EvtConnected
  BY <1>6, SameKeeps DEF EvtConnectUp, EvtConnect, EvtConnectFails, EvtConnected
<1>7. CASE EvtLoggedInCheck \/ EvtSendPING \/ EvtAllJoined \/ EvtRejoin
  BY <1>7, SameKeeps DEF EvtLoggedInCheck, EvtSendPING, EvtAllJoined, EvtRejoin
<1>8. CASE EvtLeaveUnknown \/ EvtShutdown \/ EvtFinish \/ EvtFreed \/ ClientClose
  BY <1>8, SameKeeps DEF EvtLeaveUnknown, EvtShutdown, EvtFinish, EvtFreed, ClientClose
<1>9. CASE EvtJoinChannel \/ EvtSendMessage \/ EvtOutOfRange \/ EvtReload
  BY <1>9, SameKeeps DEF EvtJoinChannel, EvtSendMessage, EvtOutOfRange, EvtReload
<1> QED
  BY <1>1, <1>2, <1>3, <1>4, <1>5, <1>6, <1>7, <1>8, <1>9 DEF ClientStep

\* So does every callback on a selector thread.
LEMMA SelectorKeeps ==
    ASSUME MapOK, NEW s \in Sessions, SelectorStep(s)
    PROVE  Kept
<1> USE DEF MapOK, Map, Kept
<1>1. CASE SelectorReport(s)
  BY <1>1, DetachKeeps DEF SelectorReport, Report
<1>2. CASE SelectorReserve(s)
  BY <1>2, AttachKeeps DEF SelectorReserve
<1>3. CASE SelectorClose(s) \/ SelectorLogged(s) \/ SelectorDivides(s)
             \/ SelectorJoin(s) \/ SelectorSync(s)
  BY <1>3, SameKeeps DEF SelectorClose, SelectorLogged, SelectorDivides, SelectorJoin, SelectorSync
<1> QED
  BY <1>1, <1>2, <1>3 DEF SelectorStep

\* The network, the timers and the requests do not touch the list.
LEMMA OutsideKeeps ==
    ASSUME MapOK,
           \/ \E s \in Sessions : NetStep(s)
           \/ \E s \in Sessions, type \in Timers : TimerFires(type, s)
           \/ \E m \in Requests : Command(m)
           \/ \E s \in Sessions : Race(s)
    PROVE  Kept
<1>1. channels' = channels
  BY DEF Race, NetStep, NetConnected, Welcome, NetLost, Silence, Answer, PingTick,
         JoinAck, JoinLost, TimerFires, Command
<1> QED
  BY <1>1, SameKeeps DEF MapOK, Map, Kept

-----------------------------------------------------------------------------
(* The theorem. *)

\* Every step keeps the list and its owners.
LEMMA StepKeeps ==
    ASSUME TypesInv, [Next]_vars
    PROVE  Kept
<1>0. MapOK /\ AtSession
  BY TypeParts DEF TypesInv, MapTypes
<1>1. CASE Next
  BY <1>0, <1>1, ClientKeeps, SelectorKeeps, OutsideKeeps DEF Next
<1>2. CASE UNCHANGED vars
  BY <1>0, <1>2, SameKeeps DEF vars, account, MapOK, Map, Kept
<1> QED
  BY <1>1, <1>2

\* Neither the agent's thread nor a selector thread ever takes a channel from
\* the session that holds it: a login reserves detached channels only, and a
\* disconnection gives back the session's own.
THEOREM ClientNeverStolen == Spec => NeverStolen
<1>1. TypesInv /\ [Next]_vars =>
          [\A c \in DOMAIN channels \cap DOMAIN channels' :
              \/ channels'[c].session = channels[c].session
              \/ ~ Attached(channels, c)
              \/ channels'[c] = Detached]_vars
  BY StepKeeps DEF Kept, OwnersKept
<1> QED
  BY <1>1, TypesInvariant, PTL DEF Spec, NeverStolen

-----------------------------------------------------------------------------
(* What a step does to the messages on their way: which leave, which come. *)

Stays(gone) ==
    /\ \A m : Has(mailbox, m) => Has(mailbox', m) \/ m \in gone
    /\ \A m \in DOMAIN delayed : m \in DOMAIN delayed' \/ Has(mailbox', m)
Came(new) == \A m : Pending(m)' => Pending(m) \/ m \in new
Mail(gone, new) == Stays(gone) /\ Came(new) /\ \A m \in new : Pending(m)'

IfOpen(m) == IF Open THEN {m} ELSE {}

\* Pending in terms of Has, now and after the step.
LEMMA PendingIs ==
    /\ \A m : Pending(m) <=> m \in DOMAIN delayed \/ Has(mailbox, m)
    /\ \A m : Pending(m)' <=> m \in DOMAIN delayed' \/ Has(mailbox', m)
  BY DEF Pending, Has

\* No message comes or goes.
LEMMA MailSame ==
    ASSUME UNCHANGED <<mailbox, delayed>>
    PROVE  Mail({}, {})
  BY PendingIs DEF Mail, Stays, Came

\* The agent takes the message at the head.
LEMMA MailTaken ==
    ASSUME MailTypes, mailbox # <<>>, mailbox' = Tail(mailbox), delayed' = delayed
    PROVE  Mail({Head(mailbox)}, {})
<1>1. /\ \A x : Has(Tail(mailbox), x) => Has(mailbox, x)
      /\ \A x : Has(mailbox, x) => x = Head(mailbox) \/ Has(Tail(mailbox), x)
  BY TailFacts DEF MailTypes
<1> QED
  BY <1>1, PendingIs DEF Mail, Stays, Came

\* A delayed message is added while the mailbox is open.
LEMMA Delayed ==
    ASSUME NEW m, Delay(m)
    PROVE  DOMAIN delayed' = DOMAIN delayed \cup IfOpen(m)
<1>1. DOMAIN BagAdd(delayed, m) = DOMAIN delayed \cup {m}
  BY BagFacts
<1> QED
  BY <1>1 DEF Delay, IfOpen

\* The agent takes a message and delays another.
LEMMA MailTakenAgain ==
    ASSUME MailTypes, mailbox # <<>>, mailbox' = Tail(mailbox), NEW m, Delay(m)
    PROVE  Mail({Head(mailbox)}, IfOpen(m))
<1>1. /\ \A x : Has(Tail(mailbox), x) => Has(mailbox, x)
      /\ \A x : Has(mailbox, x) => x = Head(mailbox) \/ Has(Tail(mailbox), x)
  BY TailFacts DEF MailTypes
<1>2. DOMAIN delayed' = DOMAIN delayed \cup IfOpen(m)
  BY Delayed
<1> QED
  BY <1>1, <1>2, PendingIs DEF Mail, Stays, Came

\* A message is delayed by another thread.
LEMMA MailDelayed ==
    ASSUME mailbox' = mailbox, NEW m, Delay(m)
    PROVE  Mail({}, IfOpen(m))
<1>1. DOMAIN delayed' = DOMAIN delayed \cup IfOpen(m)
  BY Delayed
<1> QED
  BY <1>1, PendingIs DEF Mail, Stays, Came

\* A message is put into the mailbox.
LEMMA MailAppended ==
    ASSUME MailTypes, NEW m \in Message, mailbox' = Append(mailbox, m), delayed' = delayed
    PROVE  Mail({}, {m})
<1>1. \A x : Has(mailbox', x) <=> Has(mailbox, x) \/ x = m
  BY AppendFacts DEF MailTypes
<1> QED
  BY <1>1, PendingIs DEF Mail, Stays, Came

\* A message is sent, which a mailbox that was closed discards.
LEMMA MailSent ==
    ASSUME MailTypes, NEW m \in Message, mailbox' = Sent(mailbox, m), delayed' = delayed
    PROVE  Mail({}, IfOpen(m))
<1>1. CASE Open
  BY <1>1, MailAppended DEF Sent, IfOpen
<1>2. CASE ~ Open
  BY <1>2, MailSame DEF Sent, IfOpen
<1> QED
  BY <1>1, <1>2

\* A timer moves its message from the delayed ones to the mailbox.
LEMMA MailFired ==
    ASSUME MailTypes, NEW m \in DOMAIN delayed,
           mailbox' = Append(mailbox, m), delayed' = BagRemove(delayed, m)
    PROVE  Mail({}, {})
<1>1. \A x : Has(mailbox', x) <=> Has(mailbox, x) \/ x = m
  BY AppendFacts DEF MailTypes
<1>2. DOMAIN delayed' \subseteq DOMAIN delayed /\ DOMAIN delayed \subseteq DOMAIN delayed' \cup {m}
  BY BagFacts
<1> QED
  BY <1>1, <1>2, PendingIs DEF Mail, Stays, Came

\* The agent takes a message and sends several.
LEMMA MailReplaced ==
    ASSUME MailTypes, mailbox # <<>>, NEW r \in Seq(Message), NEW new,
           \A m : Has(r, m) <=> m \in new,
           mailbox' = Tail(mailbox) \o r, delayed' = delayed
    PROVE  Mail({Head(mailbox)}, new)
<1>1. /\ \A x : Has(Tail(mailbox), x) => Has(mailbox, x)
      /\ \A x : Has(mailbox, x) => x = Head(mailbox) \/ Has(Tail(mailbox), x)
      /\ Tail(mailbox) \in Seq(Message)
  BY TailFacts DEF MailTypes
<1>2. \A x : Has(mailbox', x) <=> Has(Tail(mailbox), x) \/ x \in new
  BY <1>1, ConcatFacts
<1> QED
  BY <1>1, <1>2, PendingIs DEF Mail, Stays, Came

\* Several messages are sent at once.
LEMMA MailExtended ==
    ASSUME MailTypes, NEW r \in Seq(Message), NEW new,
           \A m : Has(r, m) <=> m \in new,
           mailbox' = mailbox \o r, delayed' = delayed
    PROVE  Mail({}, new)
<1>1. \A x : Has(mailbox', x) <=> Has(mailbox, x) \/ x \in new
  BY ConcatFacts DEF MailTypes
<1> QED
  BY <1>1, PendingIs DEF Mail, Stays, Came

\* The handlers that take a message and send none
Takes == \/ EvtConnectUp \/ EvtConnect \/ EvtLoggedInCheck \/ EvtSendPING
         \/ EvtChannelJoined \/ EvtAllJoined \/ EvtAddChannel \/ EvtSendMessage
         \/ EvtLeaveUnknown \/ EvtLeaveChannel \/ EvtReload

\* What a message they take is, and when
TakenAt == \E step \in {"idle", "adding"} : \E type : type # "Finish" /\ At(step, type)

\* The agent's actions, one by one.
LEMMA ClientMail ==
    ASSUME TypesInv
    PROVE  /\ Takes => Mail({Head(mailbox)}, {})
           /\ EvtConnectFails =>
                  Mail({Head(mailbox)},
                       IfOpen(Connect(Head(mailbox).session, NextAttempt(Head(mailbox).attempt))))
           /\ EvtConnected => Mail({}, IfOpen(LoggedInCheck(client.session)))
           /\ EvtRejoin =>
                  Mail({Head(mailbox)},
                       IfOpen(CheckJoined(Head(mailbox).session,
                                          NotJoined(channels, Head(mailbox).channels))))
           /\ EvtShutdown => Mail({Head(mailbox)}, IfOpen([type |-> "Finish"]))
           /\ EvtJoinChannel => Mail({Head(mailbox)}, {}) \/ Mail({}, {})
           /\ (EvtFreed \/ EvtOutOfRange \/ ClientClose) => Mail({}, {})
           /\ ClientReport => Mail({}, IfOpen(Connect(client.session, 0)))
<1>0. MailTypes /\ AtSession
  BY TypeParts DEF TypesInv
<1>1. ASSUME NEW type, NEW step, At(step, type)
      PROVE  mailbox # <<>>
  BY <1>1 DEF At
<1>2. ASSUME Takes
      PROVE  Mail({Head(mailbox)}, {})
  <2>1. mailbox # <<>> /\ mailbox' = Tail(mailbox) /\ delayed' = delayed
    BY <1>2, <1>1 DEF Takes, EvtConnectUp, EvtConnect, EvtLoggedInCheck, EvtSendPING, EvtChannelJoined,
       EvtAllJoined, EvtAddChannel, EvtSendMessage, EvtLeaveUnknown, EvtLeaveChannel, EvtReload,
       TakeFor, Take
  <2> QED
    BY <1>0, <2>1, MailTaken
<1>3. EvtConnectFails =>
          Mail({Head(mailbox)},
               IfOpen(Connect(Head(mailbox).session, NextAttempt(Head(mailbox).attempt))))
  BY <1>0, <1>1, MailTakenAgain DEF EvtConnectFails, TakeFor, Take
<1>4. EvtConnected => Mail({}, IfOpen(LoggedInCheck(client.session)))
  BY MailDelayed DEF EvtConnected
<1>5. EvtRejoin =>
          Mail({Head(mailbox)},
               IfOpen(CheckJoined(Head(mailbox).session,
                                  NotJoined(channels, Head(mailbox).channels))))
  BY <1>0, <1>1, MailTakenAgain DEF EvtRejoin, TakeFor, Take
<1>6. ASSUME EvtShutdown
      PROVE  Mail({Head(mailbox)}, IfOpen([type |-> "Finish"]))
  <2> DEFINE finish == [type |-> "Finish"]
             r == IF Open THEN <<finish>> ELSE <<>>
  <2>1. finish \in Message
    BY MessageTypes
  <2>2. r \in Seq(Message) /\ \A m : Has(r, m) <=> m \in IfOpen(finish)
    <3> HIDE DEF finish
    <3>1. /\ <<finish>> \in Seq(Message) /\ <<>> \in Seq(Message)
          /\ DOMAIN <<finish>> = {1} /\ <<finish>>[1] = finish
          /\ DOMAIN <<>> = {}
      BY <2>1
    <3>2. CASE Open
      BY <3>1, <3>2 DEF Has, IfOpen
    <3>3. CASE ~ Open
      BY <3>1, <3>3 DEF Has, IfOpen
    <3> QED
      BY <3>2, <3>3
  <2>3. mailbox # <<>> /\ mailbox' = Tail(mailbox) \o r /\ delayed' = delayed
    BY <1>6, <1>1 DEF EvtShutdown, Take
  <2> HIDE DEF finish, r
  <2>4. Mail({Head(mailbox)}, IfOpen(finish))
    BY <1>0, <2>2, <2>3, MailReplaced
  <2> QED
    BY <2>4 DEF finish
<1>7. (EvtFreed \/ EvtOutOfRange \/ ClientClose) => Mail({}, {})
  BY MailSame DEF EvtFreed, EvtOutOfRange, ClientClose
<1>8. ASSUME ClientReport
      PROVE  Mail({}, IfOpen(Connect(client.session, 0)))
  <2>1. client.session \in Sessions /\ 0 \in 0 .. AttemptsLimit - 1
    BY <1>0, <1>8, ClientAssumption DEF ClientReport, AtSession
  <2>2. Connect(client.session, 0) \in Message
    BY <2>1, MessageTypes
  <2> QED
    BY <1>0, <1>8, <2>2, MailSent DEF ClientReport, Report
<1>9. ASSUME EvtJoinChannel
      PROVE  Mail({Head(mailbox)}, {}) \/ Mail({}, {})
  <2>1. mailbox # <<>> /\ mailbox' \in {mailbox, Tail(mailbox)} /\ delayed' = delayed
    BY <1>9, <1>1 DEF EvtJoinChannel, Take
  <2> QED
    BY <1>0, <2>1, MailTaken, MailSame
<1> QED
  BY <1>2, <1>3, <1>4, <1>5, <1>6, <1>7, <1>8, <1>9

\* The second half of a reload starts sessions that were unborn, and has a
\* Connect for each.
LEMMA ReloadMail ==
    ASSUME TypesInv, EvtReloaded
    PROVE  \E S \in SUBSET {s \in Sessions : life[s] = "unborn"} :
              /\ life' = [s \in Sessions |-> IF s \in S THEN "live" ELSE life[s]]
              /\ Mail({}, IF Open THEN {Connect(s, 0) : s \in S} ELSE {})
<1>0. MailTypes /\ delayed' = delayed
  BY TypeParts DEF TypesInv, EvtReloaded
<1>1. PICK S \in SUBSET {s \in Sessions : life[s] = "unborn"} :
          /\ life' = [s \in Sessions |-> IF s \in S THEN "live" ELSE life[s]]
          /\ mailbox' = mailbox \o (IF Open THEN ConnectAll(InOrder(S)) ELSE <<>>)
  BY DEF EvtReloaded, FirstOf, Unused
<1> DEFINE new == IF Open THEN {Connect(s, 0) : s \in S} ELSE {}
           r == IF Open THEN ConnectAll(InOrder(S)) ELSE <<>>
<1>2. r \in Seq(Message) /\ \A m : Has(r, m) <=> m \in new
  <2>1. /\ ConnectAll(InOrder(S)) \in Seq(Message)
        /\ \A m : Has(ConnectAll(InOrder(S)), m) <=> \E s \in S : m = Connect(s, 0)
    BY ConnectFacts
  <2>2. <<>> \in Seq(Message) /\ DOMAIN <<>> = {}
    OBVIOUS
  <2>3. CASE Open
    BY <2>1, <2>3
  <2>4. CASE ~ Open
    BY <2>2, <2>4 DEF Has
  <2> QED
    BY <2>3, <2>4
<1>3. mailbox' = mailbox \o r
  BY <1>1
<1>4. Mail({}, new)
  <2> HIDE DEF new, r
  <2> QED
    BY <1>0, <1>2, <1>3, MailExtended
<1> QED
  BY <1>1, <1>4

\* The other threads.
LEMMA SelectorMail ==
    ASSUME TypesInv, NEW s \in Sessions
    PROVE  /\ (SelectorClose(s) \/ SelectorLogged(s) \/ SelectorReserve(s)
               \/ SelectorDivides(s) \/ SelectorSync(s)) => Mail({}, {})
           /\ SelectorReport(s) => Mail({}, IfOpen(Connect(s, 0)))
           /\ SelectorJoin(s) => Mail({}, IfOpen(CheckJoined(s, selector[s].list)))
<1>0. MailTypes
  BY TypeParts DEF TypesInv
<1>1. (SelectorClose(s) \/ SelectorLogged(s) \/ SelectorReserve(s)
       \/ SelectorDivides(s) \/ SelectorSync(s)) => Mail({}, {})
  BY MailSame DEF SelectorClose, SelectorLogged, SelectorReserve, SelectorDivides, SelectorSync
<1>2. SelectorReport(s) => Mail({}, IfOpen(Connect(s, 0)))
  <2>1. Connect(s, 0) \in Message
    BY MessageTypes, ClientAssumption
  <2> QED
    BY <1>0, <2>1, MailSent DEF SelectorReport, Report
<1>3. SelectorJoin(s) => Mail({}, IfOpen(CheckJoined(s, selector[s].list)))
  BY MailDelayed DEF SelectorJoin
<1> QED
  BY <1>1, <1>2, <1>3

\* The mailbox gets the request, and which ones were made is remembered.
LEMMA CommandMail ==
    ASSUME TypesInv, NEW m \in Requests, Command(m)
    PROVE  Mail({}, {m}) /\ m \in commands' /\ commands \subseteq commands'
<1>1. MailTypes
  BY TypeParts DEF TypesInv
<1>2. m \in Message
  BY MessageTypes
<1> QED
  BY <1>1, <1>2, MailAppended DEF Command

\* The network sends only a confirmed JOIN, the ping timer only SendPING; a
\* timer that fires moves its message.
LEMMA OutsideMail ==
    ASSUME TypesInv, NEW s \in Sessions
    PROVE  /\ (NetConnected(s) \/ Welcome(s) \/ NetLost(s) \/ Silence(s) \/ Answer(s)
               \/ Race(s) \/ (\E c \in Channels : JoinLost(s, c))) => Mail({}, {})
           /\ PingTick(s) => Mail({}, {SendPING(s)})
           /\ \A c \in Channels : JoinAck(s, c) => Mail({}, IfOpen(ChannelJoined(c)))
           /\ \A type : TimerFires(type, s) => Mail({}, {})
<1>0. MailTypes
  BY TypeParts DEF TypesInv
<1>1. (NetConnected(s) \/ Welcome(s) \/ NetLost(s) \/ Silence(s) \/ Answer(s)
       \/ Race(s) \/ (\E c \in Channels : JoinLost(s, c))) => Mail({}, {})
  BY MailSame DEF NetConnected, Welcome, NetLost, Silence, Answer, Race, JoinLost
<1>2. PingTick(s) => Mail({}, {SendPING(s)})
  <2>1. SendPING(s) \in Message
    BY MessageTypes
  <2> QED
    BY <1>0, <2>1, MailAppended DEF PingTick
<1>3. ASSUME NEW c \in Channels, JoinAck(s, c)
      PROVE  Mail({}, IfOpen(ChannelJoined(c)))
  <2>1. ChannelJoined(c) \in Message
    BY MessageTypes
  <2> QED
    BY <1>0, <1>3, <2>1, MailSent DEF JoinAck
<1>4. ASSUME NEW type, TimerFires(type, s)
      PROVE  Mail({}, {})
  BY <1>0, <1>4, MailFired DEF TimerFires
<1> QED
  BY <1>1, <1>2, <1>3, <1>4

\* An agent that is being deregistered never takes messages again.
LEMMA OpenBefore ==
    ASSUME TypesInv, Next, Open'
    PROVE  Open
<1>0. MailTypes
  BY TypeParts DEF TypesInv
<1>1. /\ Open <=> client.at # "stopped" /\ \A m : Has(mailbox, m) => m.type # "Finish"
      /\ client'.at # "stopped" /\ \A m : Has(mailbox', m) => m.type # "Finish"
  BY DEF Open, Has
<1>2. ASSUME NEW gone, Stays(gone), \A m \in gone : m.type # "Finish",
             client.at # "stopped"
      PROVE  Open
  BY <1>1, <1>2 DEF Stays
<1>3. ASSUME TakenAt, NEW new, Mail({Head(mailbox)}, new)
      PROVE  Open
  BY <1>2, <1>3 DEF TakenAt, At, Mail
<1>4. ASSUME NEW new, Mail({}, new), client.at # "stopped"
      PROVE  Open
  BY <1>2, <1>4 DEF Mail
<1>5. ASSUME Takes
      PROVE  Open
  <2>1. TakenAt
    BY <1>5 DEF Takes, TakenAt, EvtConnectUp, EvtConnect, EvtLoggedInCheck, EvtSendPING, EvtChannelJoined,
       EvtAllJoined, EvtAddChannel, EvtSendMessage, EvtLeaveUnknown, EvtLeaveChannel, EvtReload,
       TakeFor, Take
  <2>2. Mail({Head(mailbox)}, {})
    BY <1>5, ClientMail
  <2> QED
    BY <1>3, <2>1, <2>2
<1>6. ASSUME EvtConnectFails \/ EvtRejoin \/ EvtJoinChannel \/ EvtShutdown
      PROVE  Open
  <2>1. TakenAt
    BY <1>6 DEF TakenAt, EvtConnectFails, EvtRejoin, EvtJoinChannel, EvtShutdown, TakeFor, Take
  <2>2. client.at # "stopped"
    BY <2>1 DEF TakenAt, At
  <2>3. PICK new : Mail({Head(mailbox)}, new) \/ Mail({}, new)
    BY <1>6, ClientMail
  <2> QED
    BY <1>3, <1>4, <2>1, <2>2, <2>3
<1>7. CASE EvtFinish
  BY <1>1, <1>7 DEF EvtFinish
<1>8. ASSUME EvtConnected \/ ClientClose \/ ClientReport \/ EvtReloaded \/ EvtOutOfRange \/ EvtFreed
      PROVE  Open
  <2>1. client.at # "stopped"
    BY <1>1, <1>8 DEF EvtConnected, ClientClose, ClientReport, EvtReloaded, EvtOutOfRange, EvtFreed
  <2>2. PICK new : Mail({}, new)
    BY <1>8, ClientMail, ReloadMail
  <2> QED
    BY <1>4, <2>1, <2>2
<1>9. ASSUME NEW s \in Sessions, SelectorStep(s)
      PROVE  Open
  <2>1. client' = client
    BY <1>9 DEF SelectorStep, SelectorClose, SelectorReport, SelectorLogged,
       SelectorReserve, SelectorDivides, SelectorJoin, SelectorSync
  <2>2. PICK new : Mail({}, new)
    BY <1>9, SelectorMail DEF SelectorStep
  <2> QED
    BY <1>1, <1>4, <2>1, <2>2
<1>10. ASSUME NEW s \in Sessions, NetStep(s) \/ Race(s)
       PROVE  Open
  <2>1. client' = client
    BY <1>10 DEF NetStep, NetConnected, Welcome, NetLost, Silence, Answer, PingTick,
       JoinAck, JoinLost, Race
  <2>2. PICK new : Mail({}, new)
    BY <1>10, OutsideMail DEF NetStep
  <2> QED
    BY <1>1, <1>4, <2>1, <2>2
<1>11. ASSUME NEW s \in Sessions, NEW type \in Timers, TimerFires(type, s)
       PROVE  Open
  BY <1>11 DEF TimerFires
<1>12. ASSUME NEW m \in Requests, Command(m)
       PROVE  Open
  BY <1>12 DEF Command
<1> QED
  BY <1>5, <1>6, <1>7, <1>8, <1>9, <1>10, <1>11, <1>12 DEF Next, ClientStep, Takes

-----------------------------------------------------------------------------
(* No live session is given up. *)

\* A session that was not created yet is nowhere.
Absent(s) ==
    /\ conn[s].net = "init" /\ ~ conn[s].ping
    /\ selector[s].at = "idle"
    /\ client.session # s
    /\ \A m : Pending(m) /\ m.type \in {"Connect", "LoggedInCheck", "SendPING"} =>
                  m.session # s

Unborn == \A s \in Sessions : life[s] = "unborn" => Absent(s)

\* A session is given up if its last Connect is taken while its connection is
\* watched by nothing: so Tended says which of the two it has, and what
\* remains of each while a step of either thread is half done.
Tended(s) ==
    /\ Up(s) => \/ Handled(s)
                \/ Pending(LoggedInCheck(s))
                \/ conn[s].logged /\ (conn[s].ping \/ InLogin(s))
    /\ ~ Up(s) => Handled(s) \/ PendingConnect(s) \/ InClose(s)
    /\ client.at = "connected" /\ client.session = s /\ ~ Up(s) =>
          PendingConnect(s) \/ InClose(s)
    /\ Up(s) /\ conn[s].logged /\ ~ Handled(s) => conn[s].ping \/ InLogin(s)
    /\ client.at = "closed" /\ client.session = s => ~ Up(s)

Driven == Open => \A s \in Live : Tended(s)

\* Some other session's step, or one that leaves s where it is
SameSession(s) ==
    /\ conn'[s].net = conn[s].net /\ conn'[s].logged = conn[s].logged
    /\ conn'[s].ping = conn[s].ping
    /\ selector'[s].at = selector[s].at
    /\ Handled(s) \/ Handled(s)' => client' = client

\* A session's Connect and its login check are not taken by another message.
LEMMA PendingKept ==
    ASSUME NEW gone, Stays(gone)
    PROVE  /\ \A m : Pending(m) /\ m \notin gone => Pending(m)'
           /\ \A s : (\A n : Connect(s, n) \notin gone) /\ PendingConnect(s) =>
                         PendingConnect(s)'
<1>1. \A m : Pending(m) /\ m \notin gone => Pending(m)'
  BY PendingIs DEF Stays
<1> QED
  BY <1>1 DEF PendingConnect

\* A session no step is about keeps its reason to go on, if its messages stay.
LEMMA SameTended ==
    ASSUME NEW s \in Sessions, Tended(s), SameSession(s), NEW gone, Stays(gone),
           \A n : Connect(s, n) \notin gone, LoggedInCheck(s) \notin gone
    PROVE  Tended(s)'
<1>1. /\ Pending(LoggedInCheck(s)) => Pending(LoggedInCheck(s))'
      /\ PendingConnect(s) => PendingConnect(s)'
  BY PendingKept
<1>2. /\ Up(s)' <=> Up(s)
      /\ InLogin(s)' <=> InLogin(s)
      /\ InClose(s)' <=> InClose(s)
  BY DEF SameSession, Up, InLogin, InClose
<1> QED
  BY <1>1, <1>2 DEF Tended, SameSession, Handled

\* A session that is not created yet appears nowhere, whatever the step.
LEMMA UnbornStep ==
    ASSUME TypesInv, Unborn, Next, NEW s \in Sessions, life'[s] = "unborn"
    PROVE  Absent(s)'
<1> USE DEF account, net, history
<1>0. /\ SessionTypes /\ MailTypes /\ ThreadTypes /\ AtSession
  BY TypeParts DEF TypesInv
<1> DEFINE Quiet(m) == m.type \in {"Connect", "LoggedInCheck", "SendPING"} => m.session # s
           NoMail == \A m : Pending(m) => Quiet(m)
           Still == /\ conn'[s].net = "init" /\ ~ conn'[s].ping
                    /\ selector'[s].at = "idle"
                    /\ client'.session # s
<1> SUFFICES Still /\ NoMail'
  BY DEF Absent
<1>1. ASSUME life[s] = "unborn", NEW new, Came(new), \A m \in new : Quiet(m)
      PROVE  NoMail'
  BY <1>1 DEF Unborn, Absent, Came
<1>2. ASSUME ClientStep
      PROVE  Still /\ NoMail'
  <2>1. life[s] = "unborn"
    BY <1>0, <1>2 DEF ClientStep, Takes, EvtConnectUp, EvtConnect, EvtLoggedInCheck,
       EvtSendPING, EvtChannelJoined, EvtAllJoined, EvtJoinChannel, EvtAddChannel, EvtSendMessage,
       EvtOutOfRange, EvtLeaveUnknown, EvtLeaveChannel, EvtConnectFails, EvtConnected, EvtRejoin,
       EvtReload, EvtReloaded, EvtShutdown, EvtFinish, EvtFreed, ClientClose, ClientReport,
       Live, SessionTypes
  <2>2. Absent(s)
    BY <2>1 DEF Unborn
  <2> DEFINE h == Head(mailbox)
  <2>3. ASSUME NEW type \in {"Connect", "LoggedInCheck", "SendPING"}, Take(type)
        PROVE  h.session # s /\ h.session \in Sessions
    <3>1. Has(mailbox, h) /\ h.type = type /\ h \in Message
      BY <1>0, <2>3, TailFacts DEF Take, At, MailTypes
    <3> QED
      BY <2>2, <3>1, PendingIs, MessageFields DEF Absent
  <2>4. CASE Takes
    <3>1. Came({})
      BY <2>4, ClientMail DEF Mail
    <3>2. NoMail'
      BY <1>1, <2>1, <3>1
    <3>3. CASE EvtConnect
      BY <1>0, <2>2, <2>3, <3>2, <3>3 DEF EvtConnect, TakeFor, Absent, SessionTypes
    <3>4. CASE EvtLoggedInCheck
      BY <1>0, <2>2, <2>3, <3>2, <3>4, ClientAssumption
         DEF EvtLoggedInCheck, TakeFor, Absent, SessionTypes, Idle
    <3>5. CASE EvtSendPING
      BY <1>0, <2>2, <2>3, <3>2, <3>5, ClientAssumption
         DEF EvtSendPING, TakeFor, Absent, SessionTypes, Known, Idle
    <3>6. CASE EvtConnectUp \/ EvtChannelJoined \/ EvtAllJoined \/ EvtSendMessage
               \/ EvtLeaveUnknown \/ EvtLeaveChannel
      BY <2>2, <3>2, <3>6 DEF EvtConnectUp, EvtChannelJoined, EvtAllJoined, EvtSendMessage,
         EvtLeaveUnknown, EvtLeaveChannel, Absent
    <3>7. CASE EvtAddChannel
      BY <1>0, <2>2, <3>2, <3>7, ClientAssumption DEF EvtAddChannel, Absent, Idle
    <3>8. CASE EvtReload
      BY <1>0, <2>1, <2>2, <3>2, <3>8, ClientAssumption
         DEF EvtReload, Disconnected, Live, Absent, SessionTypes
    <3> QED
      BY <2>4, <3>2, <3>3, <3>4, <3>5, <3>6, <3>7, <3>8 DEF Takes
  <2>5. CASE EvtConnectFails
    <3> DEFINE m == Connect(h.session, NextAttempt(h.attempt))
    <3>1. \A x \in IfOpen(m) : Quiet(x)
      BY <2>3, <2>5 DEF EvtConnectFails, TakeFor, Connect, IfOpen
    <3>2. Came(IfOpen(m))
      BY <2>5, ClientMail DEF Mail
    <3>3. Still
      BY <2>2, <2>5 DEF EvtConnectFails, Absent
    <3> HIDE DEF m
    <3> QED
      BY <1>1, <2>1, <3>1, <3>2, <3>3
  <2>6. CASE EvtConnected
    <3> DEFINE m == LoggedInCheck(client.session)
    <3>1. \A x \in IfOpen(m) : Quiet(x)
      BY <2>2, <2>6 DEF Absent, LoggedInCheck, IfOpen
    <3>2. Came(IfOpen(m))
      BY <2>6, ClientMail DEF Mail
    <3>3. Still
      BY <1>0, <2>2, <2>6, ClientAssumption DEF EvtConnected, Absent, Idle, SessionTypes
    <3> HIDE DEF m
    <3> QED
      BY <1>1, <2>1, <3>1, <3>2, <3>3
  <2>7. CASE EvtRejoin
    <3> DEFINE m == CheckJoined(h.session, NotJoined(channels, h.channels))
    <3>1. \A x \in IfOpen(m) : Quiet(x)
      BY DEF CheckJoined, IfOpen
    <3>2. Came(IfOpen(m))
      BY <2>7, ClientMail DEF Mail
    <3>3. Still
      BY <2>2, <2>7 DEF EvtRejoin, Absent
    <3> HIDE DEF m
    <3> QED
      BY <1>1, <2>1, <3>1, <3>2, <3>3
  <2>8. CASE EvtReloaded
    <3>1. PICK S \in SUBSET Sessions :
              /\ life' = [t \in Sessions |-> IF t \in S THEN "live" ELSE life[t]]
              /\ Came(IF Open THEN {Connect(t, 0) : t \in S} ELSE {})
      BY <2>8, ReloadMail DEF Mail
    <3>2. s \notin S
      BY <3>1
    <3>3. \A x \in IF Open THEN {Connect(t, 0) : t \in S} ELSE {} : Quiet(x)
      BY <3>2 DEF Connect
    <3>4. Still
      BY <2>2, <2>8, ClientAssumption DEF EvtReloaded, Absent, Idle
    <3> QED
      BY <1>1, <2>1, <3>1, <3>3, <3>4
  <2>9. CASE EvtShutdown
    <3> DEFINE m == [type |-> "Finish"]
    <3>1. \A x \in IfOpen(m) : Quiet(x)
      BY DEF IfOpen
    <3>2. Came(IfOpen(m))
      BY <2>9, ClientMail DEF Mail
    <3>3. Still
      BY <2>2, <2>9 DEF EvtShutdown, Absent
    <3> HIDE DEF m
    <3> QED
      BY <1>1, <2>1, <3>1, <3>2, <3>3
  <2>10. CASE EvtFinish
    <3>1. \A m : ~ Pending(m)'
      <4>1. DOMAIN mailbox' = {} /\ DOMAIN delayed' = {}
        BY <2>10 DEF EvtFinish, NoMessages
      <4> QED
        BY <4>1, PendingIs DEF Has
    <3>2. Still
      BY <1>0, <2>1, <2>2, <2>10, ClientAssumption
         DEF EvtFinish, Disconnected, Live, Absent, SessionTypes
    <3> QED
      BY <3>1, <3>2
  <2>11. CASE EvtFreed \/ EvtOutOfRange
    <3>1. Came({}) /\ Still
      BY <2>2, <2>11, ClientMail DEF Mail, EvtFreed, EvtOutOfRange, Absent
    <3> QED
      BY <1>1, <2>1, <3>1
  <2>12. CASE ClientClose
    <3>1. Came({})
      BY <2>12, ClientMail DEF Mail
    <3>2. Still
      BY <1>0, <2>2, <2>12 DEF ClientClose, Close, Disconnected, Absent, SessionTypes,
         ThreadTypes
    <3> QED
      BY <1>1, <2>1, <3>1, <3>2
  <2>13. CASE ClientReport
    <3> DEFINE m == Connect(client.session, 0)
    <3>1. \A x \in IfOpen(m) : Quiet(x)
      BY <2>2, <2>13 DEF Absent, Connect, IfOpen
    <3>2. Came(IfOpen(m))
      BY <2>13, ClientMail DEF Mail
    <3>3. Still
      BY <1>0, <2>2, <2>13, ClientAssumption DEF ClientReport, Absent, Idle
    <3> HIDE DEF m
    <3> QED
      BY <1>1, <2>1, <3>1, <3>2, <3>3
  <2>14. CASE EvtJoinChannel
    <3>1. Came({})
      BY <2>14, ClientMail DEF Mail
    <3>2. Still
      BY <2>1, <2>2, <2>14 DEF EvtJoinChannel, Live, Absent
    <3> QED
      BY <1>1, <2>1, <3>1, <3>2
  <2> QED
    BY <1>2, <2>4, <2>5, <2>6, <2>7, <2>8, <2>9, <2>10, <2>11, <2>12, <2>13, <2>14
       DEF ClientStep, Takes
<1>3. ASSUME NEW t \in Sessions, SelectorStep(t)
      PROVE  Still /\ NoMail'
  <2>1. life[s] = "unborn" /\ t # s
    <3>1. life[s] = "unborn"
      BY <1>0, <1>3 DEF SelectorStep, SelectorClose, SelectorReport, SelectorLogged,
         SelectorReserve, SelectorDivides, SelectorJoin, SelectorSync, SessionTypes
    <3>2. selector[s].at = "idle"
      BY <3>1 DEF Unborn, Absent
    <3> QED
      BY <1>3, <3>1, <3>2 DEF SelectorStep, SelectorClose, SelectorReport, SelectorLogged,
         SelectorReserve, SelectorDivides, SelectorJoin, SelectorSync, LetGo, SelectorAt
  <2>2. Absent(s)
    BY <2>1 DEF Unborn
  <2>3. /\ conn'[s] = conn[s] /\ selector'[s] = selector[s] /\ client' = client
    BY <1>0, <1>3, <2>1 DEF SelectorStep, SelectorClose, SelectorReport, SelectorLogged,
       SelectorReserve, SelectorDivides, SelectorJoin, SelectorSync, SelectorTo, Close,
       Disconnected, SessionTypes, ThreadTypes
  <2>4. NoMail'
    <3>1. \A m \in IfOpen(Connect(t, 0)) \cup IfOpen(CheckJoined(t, selector[t].list)) : Quiet(m)
      BY <2>1 DEF Connect, CheckJoined, IfOpen
    <3>2. \/ Came({}) \/ Came(IfOpen(Connect(t, 0)))
          \/ Came(IfOpen(CheckJoined(t, selector[t].list)))
      BY <1>3, SelectorMail DEF SelectorStep, Mail
    <3> HIDE DEF Quiet, NoMail
    <3> QED
      BY <1>1, <2>1, <3>1, <3>2
  <2> QED
    BY <2>2, <2>3, <2>4 DEF Absent
<1>4. ASSUME NEW t \in Sessions, NetStep(t) \/ Race(t)
      PROVE  Still /\ NoMail'
  <2>1. life[s] = "unborn"
    BY <1>4 DEF NetStep, NetConnected, Welcome, NetLost, Silence, Answer, PingTick,
       JoinAck, JoinLost, Race
  <2>2. Absent(s)
    BY <2>1 DEF Unborn
  <2>3. Still
    <3>1. CASE NetConnected(t) \/ Welcome(t) \/ NetLost(t)
      <4>1. t # s /\ client' = client
        BY <2>2, <3>1 DEF NetConnected, Welcome, NetLost, Up, Absent
      <4>2. conn'[s] = conn[s]
        BY <1>0, <3>1, <4>1 DEF NetConnected, Welcome, NetLost, SessionTypes
      <4>3. selector'[s] = selector[s]
        BY <1>0, <3>1, <4>1 DEF NetConnected, Welcome, NetLost, SelectorTo, ThreadTypes
      <4> QED
        BY <2>2, <4>1, <4>2, <4>3 DEF Absent
    <3>2. CASE Silence(t) \/ Answer(t)
      BY <1>0, <2>2, <3>2, SilenceFacts DEF Absent
    <3>3. CASE Race(t) \/ PingTick(t) \/ \E c \in Channels : JoinAck(t, c) \/ JoinLost(t, c)
      BY <2>2, <3>3 DEF Race, PingTick, JoinAck, JoinLost, Absent
    <3> QED
      BY <1>4, <3>1, <3>2, <3>3 DEF NetStep
  <2>4. NoMail'
    <3>1. CASE PingTick(t)
      <4>1. Quiet(SendPING(t))
        BY <2>2, <3>1 DEF SendPING, PingTick, Absent
      <4>2. Came({SendPING(t)})
        BY <3>1, OutsideMail DEF Mail
      <4> QED
        BY <1>1, <2>1, <4>1, <4>2
    <3>2. ASSUME NEW c \in Channels, JoinAck(t, c)
          PROVE  NoMail'
      <4>1. \A m \in IfOpen(ChannelJoined(c)) : Quiet(m)
        BY DEF ChannelJoined, IfOpen
      <4>2. Came(IfOpen(ChannelJoined(c)))
        BY <3>2, OutsideMail DEF Mail
      <4> QED
        BY <1>1, <2>1, <4>1, <4>2
    <3>3. CASE Came({})
      BY <1>1, <2>1, <3>3
    <3> QED
      BY <1>4, <3>1, <3>2, <3>3, OutsideMail DEF NetStep, Mail
  <2> QED
    BY <2>3, <2>4
<1>5. ASSUME NEW t \in Sessions, NEW type \in Timers, TimerFires(type, t)
      PROVE  Still /\ NoMail'
  <2>1. /\ UNCHANGED <<life, conn, selector, client>>
    BY <1>5 DEF TimerFires
  <2>2. Mail({}, {})
    BY <1>5, OutsideMail
  <2> QED
    BY <1>1, <2>1, <2>2 DEF Unborn, Absent, Mail
<1>6. ASSUME NEW m \in Requests, Command(m)
      PROVE  Still /\ NoMail'
  <2>1. /\ UNCHANGED <<life, conn, selector, client>>
    BY <1>6 DEF Command
  <2>2. Quiet(m)
    BY RequestsAssumption DEF JoinChannel, LeaveChannel, SendMessage, Shutdown
  <2>3. Mail({}, {m})
    BY <1>6, CommandMail
  <2> QED
    BY <1>1, <2>1, <2>2, <2>3 DEF Unborn, Absent, Mail
<1> QED
  BY <1>2, <1>3, <1>4, <1>5, <1>6 DEF Next

\* A step of the agent's thread, seen from a session that was live before.
LEMMA ClientTended ==
    ASSUME TypesInv, ClientStep, Open, Open', NEW s \in Sessions, life[s] = "live", Tended(s),
           life'[s] = "live", ~ EvtReloaded
    PROVE  Tended(s)'
<1> USE DEF account, net, history
<1>0. /\ SessionTypes /\ MailTypes /\ ThreadTypes /\ AtSession /\ NoSession \notin Sessions
  BY TypeParts, ClientAssumption DEF TypesInv
<1> DEFINE h == Head(mailbox)
<1>1. ASSUME NEW type, Take(type)
      PROVE  /\ h \in Message /\ h.type = type /\ client.at = "idle" /\ client.session # s
             /\ (\A n : Connect(s, n) \notin {h}) \/ (type = "Connect" /\ h.session = s)
             /\ LoggedInCheck(s) \notin {h} \/ (type = "LoggedInCheck" /\ h.session = s)
             /\ type \in {"Connect", "LoggedInCheck", "SendPING"} => h.session \in Sessions
  <2>1. h \in Message /\ h.type = type /\ client.at = "idle"
    BY <1>0, <1>1, TailFacts DEF Take, At, MailTypes
  <2>2. client.session # s
    BY <1>0, <2>1 DEF AtSession
  <2>3. type \in {"Connect", "LoggedInCheck", "SendPING"} => h.session \in Sessions
    BY <2>1, MessageFields
  <2> QED
    BY <2>1, <2>2, <2>3 DEF Connect, LoggedInCheck
<1>2. CASE Takes
  <2>1. Stays({h})
    BY <1>2, ClientMail DEF Mail
  <2>2. CASE EvtConnectUp
    <3>1. CASE h.session = s
      <4>1. Up(s) /\ client.session # s /\ UNCHANGED <<conn, client, selector>>
            /\ LoggedInCheck(s) \notin {h}
        BY <1>1, <2>2, <3>1 DEF EvtConnectUp, TakeFor
      <4>2. Pending(LoggedInCheck(s)) => Pending(LoggedInCheck(s))'
        BY <2>1, <4>1, PendingKept
      <4> QED
        BY <4>1, <4>2 DEF Tended, Handled, Up, InLogin
    <3>2. CASE h.session # s
      <4>1. SameSession(s) /\ (\A n : Connect(s, n) \notin {h}) /\ LoggedInCheck(s) \notin {h}
        BY <1>1, <2>2, <3>2 DEF EvtConnectUp, TakeFor, SameSession, Handled
      <4> QED
        BY <2>1, <4>1, SameTended
    <3> QED
      BY <3>1, <3>2
  <2>3. CASE EvtConnect
    <3>1. CASE h.session = s
      <4>1. conn'[s].net = "connecting" /\ client' = [at |-> "connected", session |-> s]
        BY <1>0, <2>3, <3>1 DEF EvtConnect, SessionTypes, Known
      <4> QED
        BY <4>1 DEF Tended, Handled, Up
    <3>2. CASE h.session # s
      <4>1. (\A n : Connect(s, n) \notin {h}) /\ LoggedInCheck(s) \notin {h}
        BY <1>1, <2>3, <3>2 DEF EvtConnect, TakeFor
      <4>2. client.session # s /\ h.session \in Sessions
        BY <1>1, <2>3 DEF EvtConnect, TakeFor
      <4>3. SameSession(s)
        BY <1>0, <2>3, <3>2, <4>2 DEF EvtConnect, SameSession, Handled, SessionTypes
      <4> QED
        BY <2>1, <4>1, <4>3, SameTended
    <3> QED
      BY <3>1, <3>2
  <2>4. CASE EvtLoggedInCheck
    <3>1. (\A n : Connect(s, n) \notin {h}) /\ client.session # s
          /\ UNCHANGED <<conn, selector>>
      BY <1>1, <2>4 DEF EvtLoggedInCheck, TakeFor
    <3>2. CASE h.session = s
      <4>1. PendingConnect(s) => PendingConnect(s)'
        BY <2>1, <3>1, PendingKept
      <4>2. client' = IF conn[s].logged THEN Idle ELSE [at |-> "closing", session |-> s]
        BY <2>4, <3>2 DEF EvtLoggedInCheck
      <4> QED
        BY <1>0, <3>1, <4>1, <4>2 DEF Tended, Handled, Up, InLogin, InClose, Idle
    <3>3. CASE h.session # s
      <4>1. LoggedInCheck(s) \notin {h}
        BY <1>1, <2>4, <3>3 DEF EvtLoggedInCheck, TakeFor
      <4>2. SameSession(s)
        BY <1>0, <2>4, <3>1, <3>3 DEF EvtLoggedInCheck, SameSession, Handled, Idle
      <4> QED
        BY <2>1, <3>1, <4>1, <4>2, SameTended
    <3> QED
      BY <3>2, <3>3
  <2>5. CASE EvtSendPING
    <3>1. /\ (\A n : Connect(s, n) \notin {h}) /\ LoggedInCheck(s) \notin {h}
          /\ client.session # s /\ selector' = selector
      BY <1>1, <2>5 DEF EvtSendPING, TakeFor
    <3>2. /\ conn'[s].net = conn[s].net /\ conn'[s].logged = conn[s].logged
          /\ conn'[s].ping = conn[s].ping
      BY <1>0, <2>5 DEF EvtSendPING, SessionTypes, Known
    <3>3. client'.session # s \/ client' = [at |-> "closing", session |-> s]
      BY <1>0, <2>5 DEF EvtSendPING, Idle
    <3>4. CASE client'.session # s
      BY <2>1, <3>1, <3>2, <3>4, SameTended DEF SameSession, Handled
    <3>5. CASE client' = [at |-> "closing", session |-> s]
      BY <3>5 DEF Tended, Handled
    <3> QED
      BY <3>3, <3>4, <3>5
  <2>6. CASE \/ EvtChannelJoined \/ EvtAllJoined \/ EvtSendMessage
             \/ EvtLeaveUnknown \/ EvtLeaveChannel
    <3>1. UNCHANGED <<conn, client, selector>>
      BY <2>6 DEF EvtChannelJoined, EvtAllJoined, EvtSendMessage, EvtLeaveUnknown,
         EvtLeaveChannel
    <3>2. PICK type \in {"ChannelJoined", "CheckJoined", "SendMessage", "LeaveChannel"} :
              Take(type)
      BY <2>6 DEF EvtChannelJoined, EvtAllJoined, EvtSendMessage, EvtLeaveUnknown,
         EvtLeaveChannel
    <3>3. (\A n : Connect(s, n) \notin {h}) /\ LoggedInCheck(s) \notin {h}
      BY <1>1, <3>2
    <3> QED
      BY <2>1, <3>1, <3>3, SameTended DEF SameSession, Handled
  <2>7. CASE EvtAddChannel
    <3>1. /\ UNCHANGED <<conn, selector>> /\ client' = Idle /\ client.at = "adding"
          /\ h \in Message /\ h.type = "JoinChannel"
      BY <1>0, <2>7, TailFacts DEF EvtAddChannel, At, MailTypes
    <3>2. (\A n : Connect(s, n) \notin {h}) /\ LoggedInCheck(s) \notin {h}
      BY <3>1 DEF Connect, LoggedInCheck
    <3>3. ~ Handled(s) /\ ~ Handled(s)'
      BY <1>0, <3>1 DEF Handled, Idle
    <3> QED
      BY <2>1, <3>1, <3>2, <3>3, SameTended DEF SameSession
  <2>8. CASE EvtReload
    BY <1>0, <2>8 DEF EvtReload, Live, SessionTypes
  <2> QED
    BY <1>2, <2>2, <2>3, <2>4, <2>5, <2>6, <2>7, <2>8 DEF Takes
<1>3. CASE EvtConnectFails
  <2>1. Stays({h}) /\ UNCHANGED <<conn, client, selector>>
    BY <1>3, ClientMail DEF Mail, EvtConnectFails
  <2>2. CASE h.session = s
    <3>1. ~ Up(s) /\ client.session # s
      BY <1>1, <1>3, <2>2 DEF EvtConnectFails, TakeFor
    <3>2. PendingConnect(s)'
      <4> DEFINE n == NextAttempt(h.attempt)
      <4>1. h.attempt \in 0 .. AttemptsLimit - 1
        BY <1>1, <1>3, MessageFields DEF EvtConnectFails, TakeFor
      <4>2. n \in 0 .. AttemptsLimit - 1
        BY <4>1, RetryTypes
      <4>3. Mail({h}, IfOpen(Connect(s, n)))
        BY <1>3, <2>2, ClientMail
      <4> HIDE DEF n
      <4> QED
        BY <4>2, <4>3 DEF Mail, IfOpen, PendingConnect
    <3> QED
      BY <2>1, <3>1, <3>2 DEF Tended, Handled, Up
  <2>3. CASE h.session # s
    <3>1. (\A n : Connect(s, n) \notin {h}) /\ LoggedInCheck(s) \notin {h}
      BY <1>1, <1>3, <2>3 DEF EvtConnectFails, TakeFor
    <3> QED
      BY <2>1, <3>1, SameTended DEF SameSession, Handled
  <2> QED
    BY <2>2, <2>3
<1>4. CASE EvtConnected
  <2>1. Stays({}) /\ selector' = selector /\ client' = Idle
    BY <1>4, ClientMail DEF Mail, EvtConnected
  <2>2. CASE client.session = s
    <3>1. /\ conn'[s].net = conn[s].net /\ conn'[s].ping = conn[s].ping
          /\ ~ conn'[s].logged
      BY <1>0, <1>4, <2>2 DEF EvtConnected, Renewed, SessionTypes, Known
    <3>2. Pending(LoggedInCheck(s))'
      <4>1. Mail({}, IfOpen(LoggedInCheck(s)))
        BY <1>4, <2>2, ClientMail
      <4> QED
        BY <4>1 DEF Mail, IfOpen
    <3>3. ~ Up(s) => PendingConnect(s) \/ InClose(s)
      BY <1>4, <2>2 DEF Tended, Handled, EvtConnected
    <3>4. PendingConnect(s) => PendingConnect(s)'
      BY <2>1, PendingKept
    <3> QED
      BY <1>0, <2>1, <3>1, <3>2, <3>3, <3>4 DEF Tended, Handled, Up, InClose, Idle
  <2>3. CASE client.session # s
    <3>1. SameSession(s)
      BY <1>0, <1>4, <2>1, <2>3 DEF EvtConnected, SameSession, Handled, Idle, SessionTypes
    <3> QED
      BY <2>1, <3>1, SameTended
  <2> QED
    BY <2>2, <2>3
<1>5. CASE EvtRejoin \/ EvtShutdown
  <2>1. Stays({h}) /\ UNCHANGED <<conn, client, selector>>
    BY <1>5, ClientMail DEF Mail, EvtRejoin, EvtShutdown
  <2>2. (\A n : Connect(s, n) \notin {h}) /\ LoggedInCheck(s) \notin {h}
    <3>1. Take("CheckJoined") \/ Take("Shutdown")
      BY <1>5 DEF EvtRejoin, EvtShutdown, TakeFor
    <3> QED
      BY <1>1, <3>1
  <2> QED
    BY <2>1, <2>2, SameTended DEF SameSession, Handled
<1>6. CASE EvtFinish
  BY <1>6 DEF EvtFinish, Open
<1>7. CASE EvtFreed \/ EvtOutOfRange
  <2>1. Stays({}) /\ UNCHANGED <<conn, client, selector>>
    BY <1>7, ClientMail DEF Mail, EvtFreed, EvtOutOfRange
  <2> QED
    BY <2>1, SameTended DEF SameSession, Handled
<1>8. CASE ClientClose
  <2>1. Stays({}) /\ selector' = selector
        /\ client' = [at |-> "closed", session |-> client.session]
    BY <1>0, <1>8, ClientMail DEF Mail, ClientClose, ThreadTypes
  <2>2. CASE client.session = s
    <3>1. conn'[s].net = "init"
      BY <1>0, <1>8, <2>2, DisconnectedFacts DEF ClientClose, Close
    <3> QED
      BY <2>1, <2>2, <3>1 DEF Tended, Handled, Up
  <2>3. CASE client.session # s
    <3>1. SameSession(s)
      BY <1>0, <1>8, <2>1, <2>3
         DEF ClientClose, Close, Disconnected, SameSession, Handled, SessionTypes
    <3> QED
      BY <2>1, <3>1, SameTended
  <2> QED
    BY <2>2, <2>3
<1>9. CASE ClientReport
  <2>1. Stays({}) /\ UNCHANGED <<conn, selector>> /\ client' = Idle /\ client.at = "closed"
    BY <1>9, ClientMail DEF Mail, ClientReport
  <2>2. CASE client.session = s
    <3>1. PendingConnect(s)'
      <4>1. Mail({}, IfOpen(Connect(s, 0)))
        BY <1>9, <2>2, ClientMail
      <4>2. 0 \in 0 .. AttemptsLimit - 1
        BY ClientAssumption
      <4> QED
        BY <4>1, <4>2 DEF Mail, IfOpen, PendingConnect
    <3>2. ~ Up(s)
      BY <2>1, <2>2 DEF Tended, Handled
    <3> QED
      BY <1>0, <2>1, <3>1, <3>2 DEF Tended, Handled, Up, Idle
  <2>3. CASE client.session # s
    <3>1. SameSession(s)
      BY <1>0, <2>1, <2>3 DEF SameSession, Handled, Idle
    <3> QED
      BY <2>1, <3>1, SameTended
  <2> QED
    BY <2>2, <2>3
<1>10. CASE EvtJoinChannel
  <2>1. Stays({h})
    BY <1>10, ClientMail DEF Mail, Stays
  <2>2. (\A n : Connect(s, n) \notin {h}) /\ LoggedInCheck(s) \notin {h}
    BY <1>1, <1>10 DEF EvtJoinChannel
  <2>3. UNCHANGED <<conn, selector>> /\ (client' = client \/ client'.at = "adding")
        /\ client.session # s
    BY <1>1, <1>10 DEF EvtJoinChannel
  <2> QED
    BY <2>1, <2>2, <2>3, SameTended DEF SameSession, Handled
<1> QED
  BY <1>2, <1>3, <1>4, <1>5, <1>6, <1>7, <1>8, <1>9, <1>10 DEF ClientStep, Takes

\* A reload has a Connect for each session it starts.
LEMMA ReloadTended ==
    ASSUME TypesInv, Unborn, EvtReloaded, Open, NEW s \in Sessions, life'[s] = "live",
           life[s] = "live" => Tended(s)
    PROVE  Tended(s)'
<1> USE DEF account, net, history
<1>0. /\ AtSession /\ NoSession \notin Sessions
  BY ClientAssumption DEF TypesInv
<1>1. PICK S \in SUBSET {t \in Sessions : life[t] = "unborn"} :
          /\ life' = [t \in Sessions |-> IF t \in S THEN "live" ELSE life[t]]
          /\ Mail({}, {Connect(t, 0) : t \in S})
  BY ReloadMail
<1>2. UNCHANGED <<conn, selector>> /\ client' = Idle /\ ~ Handled(s) /\ ~ Handled(s)'
  BY <1>0 DEF EvtReloaded, AtSession, Handled, Idle
<1>3. CASE s \in S
  <2>1. Pending(Connect(s, 0))' /\ 0 \in 0 .. AttemptsLimit - 1
    BY <1>1, <1>3, ClientAssumption DEF Mail
  <2>2. PendingConnect(s)'
    BY <2>1 DEF PendingConnect
  <2>3. ~ Up(s)'
    BY <1>2, <1>3 DEF Unborn, Absent, Up
  <2> QED
    BY <1>2, <2>2, <2>3 DEF Tended, Idle
<1>4. CASE s \notin S
  BY <1>1, <1>2, <1>4, SameTended DEF Mail, SameSession
<1> QED
  BY <1>3, <1>4

\* A callback leaves every live session a reason to go on: onDisconnected ends
\* in a Connect, onLoggedIn starts the ping timer.
LEMMA SelectorTended ==
    ASSUME TypesInv, NEW t \in Sessions, SelectorStep(t), Open,
           NEW s \in Sessions, life[s] = "live", Tended(s)
    PROVE  Tended(s)'
<1> USE DEF account, net, history
<1>0. /\ SessionTypes /\ MailTypes /\ ThreadTypes
  BY TypeParts DEF TypesInv
<1>1. Stays({}) /\ client' = client
  <2>1. client' = client
    BY DEF SelectorStep, SelectorClose, SelectorReport, SelectorLogged,
       SelectorReserve, SelectorDivides, SelectorJoin, SelectorSync
  <2>2. Stays({})
    BY SelectorMail DEF SelectorStep, Mail
  <2> QED
    BY <2>1, <2>2
<1>2. /\ Pending(LoggedInCheck(s)) => Pending(LoggedInCheck(s))'
      /\ PendingConnect(s) => PendingConnect(s)'
  BY <1>1, PendingKept
<1>3. CASE t # s
  <2>1. conn'[s] = conn[s] /\ selector'[s] = selector[s]
    BY <1>0, <1>3 DEF SelectorStep, SelectorClose, SelectorReport, SelectorLogged,
       SelectorReserve, SelectorDivides, SelectorJoin, SelectorSync, SelectorTo, Close,
       Disconnected, SessionTypes, ThreadTypes
  <2> QED
    BY <1>1, <2>1, SameTended DEF SameSession, Handled
<1>4. CASE SelectorClose(s)
  <2>1. conn'[s].net = "init" /\ selector'[s].at = "closed"
    BY <1>0, <1>4, DisconnectedFacts DEF SelectorClose, Close, SelectorTo, ThreadTypes
  <2> QED
    BY <2>1 DEF Tended, Handled, Up, InClose
<1>5. CASE SelectorReport(s)
  <2>1. Mail({}, IfOpen(Connect(s, 0))) /\ 0 \in 0 .. AttemptsLimit - 1
    BY <1>5, SelectorMail, ClientAssumption
  <2>2. PendingConnect(s)'
    BY <2>1 DEF Mail, IfOpen, PendingConnect
  <2>3. conn' = conn /\ selector[s].at = "closed" /\ selector'[s].at = "idle"
    BY <1>0, <1>5 DEF SelectorReport, SelectorAt, SelectorTo, ThreadTypes
  <2> QED
    BY <1>1, <1>2, <2>2, <2>3 DEF Tended, Handled, Up, InLogin
<1>6. CASE SelectorLogged(s)
  <2>1. /\ conn'[s].net = conn[s].net /\ conn'[s].logged
        /\ selector[s].at = "welcomed" /\ selector'[s].at = "logged"
    BY <1>0, <1>6
       DEF SelectorLogged, SelectorAt, SelectorTo, SessionTypes, Known, ThreadTypes
  <2> QED
    BY <1>1, <1>2, <2>1 DEF Tended, Handled, Up, InLogin, InClose
<1>7. CASE SelectorReserve(s)
  <2>1. /\ conn' = conn
        /\ selector[s].at = "logged" /\ selector'[s].at = "reserved"
    BY <1>0, <1>7 DEF SelectorReserve, SelectorAt, ThreadTypes
  <2> QED
    BY <1>1, <1>2, <2>1 DEF Tended, Handled, Up, InLogin, InClose
<1>8. CASE SelectorDivides(s)
  BY <1>1, <1>8, SameTended DEF SelectorDivides, SameSession, Handled
<1>9. CASE SelectorJoin(s)
  <2>1. /\ conn'[s].net = conn[s].net /\ conn'[s].logged = conn[s].logged /\ conn'[s].ping
        /\ selector[s].at = "reserved" /\ selector'[s].at = "idle"
    BY <1>0, <1>9
       DEF SelectorJoin, SelectorAt, SessionTypes, Known, ThreadTypes
  <2> QED
    BY <1>1, <1>2, <2>1 DEF Tended, Handled, Up, InLogin, InClose
<1>10. CASE SelectorSync(s)
  BY <1>10 DEF SelectorSync, LetGo
<1> QED
  BY <1>3, <1>4, <1>5, <1>6, <1>7, <1>8, <1>9, <1>10 DEF SelectorStep

\* The network changes no reason but the socket, which the login check watches.
LEMMA NetTended ==
    ASSUME TypesInv, NEW t \in Sessions, NetStep(t) \/ Race(t),
           NEW s \in Sessions, Tended(s)
    PROVE  Tended(s)'
<1> USE DEF account, net, history
<1>0. /\ SessionTypes /\ MailTypes /\ ThreadTypes
  BY TypeParts DEF TypesInv
<1>1. Stays({}) /\ client' = client
  <2>1. client' = client
    BY DEF NetStep, NetConnected, Welcome, NetLost, Silence, Answer, PingTick, JoinAck, JoinLost,
       Race
  <2>2. Stays({})
    BY OutsideMail DEF NetStep, Mail
  <2> QED
    BY <2>1, <2>2
<1>2. /\ Pending(LoggedInCheck(s)) => Pending(LoggedInCheck(s))'
      /\ PendingConnect(s) => PendingConnect(s)'
  BY <1>1, PendingKept
<1>3. CASE t # s
  <2>1. conn'[s] = conn[s] /\ selector'[s] = selector[s]
    BY <1>0, <1>3 DEF NetStep, NetConnected, Welcome, NetLost, Silence, Answer, PingTick,
       JoinAck, JoinLost, Race, SelectorTo, SessionTypes, ThreadTypes
  <2> QED
    BY <1>1, <2>1, SameTended DEF SameSession, Handled
<1>4. SelectorFree(s) => selector[s].at = "idle"
  BY DEF SelectorFree, SelectorAt
<1>5. CASE NetConnected(s)
  <2>1. /\ conn[s].net = "connecting" /\ conn'[s].net = "connected"
        /\ conn'[s].logged = conn[s].logged /\ conn'[s].ping = conn[s].ping
        /\ selector' = selector
    BY <1>0, <1>5 DEF NetConnected, SessionTypes, Known
  <2> QED
    BY <1>1, <1>2, <2>1 DEF Tended, Handled, Up, InLogin, InClose
<1>6. CASE Welcome(s)
  <2>1. /\ conn[s].net = "connected" /\ conn'[s].net = "welcomed"
        /\ conn'[s].logged = conn[s].logged /\ conn'[s].ping = conn[s].ping
        /\ selector[s].at = "idle"
    BY <1>0, <1>4, <1>6 DEF Welcome, SessionTypes, Known
  <2> QED
    BY <1>1, <1>2, <2>1 DEF Tended, Handled, Up, InLogin, InClose
<1>7. CASE NetLost(s)
  <2>1. conn'[s].net = "lost" /\ selector'[s].at = "closing"
    BY <1>0, <1>7 DEF NetLost, SelectorTo, SessionTypes, Known, ThreadTypes
  <2> QED
    BY <2>1 DEF Tended, Handled, Up, InClose
<1>8. CASE \/ Silence(s) \/ Answer(s) \/ PingTick(s) \/ Race(s)
           \/ \E c \in Channels : JoinAck(s, c) \/ JoinLost(s, c)
  <2>1. /\ conn'[s].net = conn[s].net
        /\ conn'[s].logged = conn[s].logged /\ conn'[s].ping = conn[s].ping
        /\ selector' = selector
    BY <1>0, <1>8 DEF Silence, Answer, PingTick, Race, JoinAck, JoinLost, SessionTypes, Known
  <2> QED
    BY <1>1, <2>1, SameTended DEF SameSession, Handled
<1> QED
  BY <1>3, <1>5, <1>6, <1>7, <1>8 DEF NetStep

\* Driven is inductive, given the types and Unborn.
LEMMA DrivenStep ==
    ASSUME TypesInv, Unborn, Driven, Next
    PROVE  Driven'
<1> SUFFICES ASSUME Open', NEW s \in Sessions, life'[s] = "live"
             PROVE  Tended(s)'
  BY DEF Driven, Live
<1>0. Open /\ SessionTypes
  BY OpenBefore, TypeParts DEF TypesInv
<1>1. CASE EvtReloaded
  BY <1>0, <1>1, ReloadTended DEF Driven, Live
<1>2. CASE ~ EvtReloaded
  <2>1. life[s] = "live"
    BY <1>0, <1>2 DEF Next, ClientStep, EvtConnectUp, EvtConnect, EvtLoggedInCheck,
       EvtSendPING, EvtChannelJoined, EvtAllJoined, EvtJoinChannel, EvtAddChannel, EvtSendMessage,
       EvtOutOfRange, EvtLeaveUnknown, EvtLeaveChannel, EvtConnectFails, EvtConnected, EvtRejoin,
       EvtReload, EvtShutdown, EvtFinish, EvtFreed, ClientClose, ClientReport, SelectorStep, SelectorClose,
       SelectorReport, SelectorLogged, SelectorReserve, SelectorDivides, SelectorJoin,
       SelectorSync, NetStep, NetConnected, Welcome, NetLost, Silence, Answer, PingTick,
       JoinAck, JoinLost, Race, TimerFires, Command, Live, SessionTypes
  <2>2. Tended(s)
    BY <1>0, <2>1 DEF Driven, Live
  <2>3. ASSUME ClientStep
        PROVE  Tended(s)'
    BY <1>0, <1>2, <2>1, <2>2, <2>3, ClientTended
  <2>4. ASSUME NEW t \in Sessions, SelectorStep(t)
        PROVE  Tended(s)'
    BY <1>0, <2>1, <2>2, <2>4, SelectorTended
  <2>5. ASSUME NEW t \in Sessions, NetStep(t) \/ Race(t)
        PROVE  Tended(s)'
    BY <2>2, <2>5, NetTended
  <2>6. ASSUME NEW t \in Sessions, NEW type \in Timers, TimerFires(type, t)
        PROVE  Tended(s)'
    <3>1. Stays({}) /\ UNCHANGED <<conn, client, selector>>
      BY <2>6, OutsideMail DEF Mail, TimerFires, net
    <3> QED
      BY <2>2, <3>1, SameTended DEF SameSession, Handled
  <2>7. ASSUME NEW m \in Requests, Command(m)
        PROVE  Tended(s)'
    <3>1. Stays({}) /\ UNCHANGED <<conn, client, selector>>
      BY <2>7, CommandMail DEF Mail, Command, net
    <3> QED
      BY <2>2, <3>1, SameTended DEF SameSession, Handled
  <2> QED
    BY <2>3, <2>4, <2>5, <2>6, <2>7 DEF Next
<1> QED
  BY <1>1, <1>2

\* At start each session has a Connect in the mailbox.
LEMMA InitDriven ==
    ASSUME Init
    PROVE  Unborn /\ Driven
<1> DEFINE S == FirstOf(Sessions, sessionCount)
<1>1. /\ S \in SUBSET Sessions
      /\ life = [s \in Sessions |-> IF s \in S THEN "live" ELSE "unborn"]
      /\ mailbox = ConnectAll(InOrder(S)) /\ DOMAIN delayed = {}
      /\ client = Idle /\ conn = [s \in Sessions |-> Fresh]
      /\ selector = [s \in Sessions |-> [at |-> "idle", list |-> {}]]
  BY DEF Init, FirstOf, NoMessages
<1>2. \A m : Pending(m) <=> \E s \in S : m = Connect(s, 0)
  <2> HIDE DEF S
  <2> QED
    BY <1>1, ConnectFacts, PendingIs
<1>3. Unborn
  <2> SUFFICES ASSUME NEW s \in Sessions, life[s] = "unborn"
               PROVE  Absent(s)
    BY DEF Unborn
  <2>1. s \notin S
    BY <1>1
  <2>2. \A m : Pending(m) => m.session # s
    BY <1>2, <2>1 DEF Connect
  <2> QED
    BY <1>1, <2>2, ClientAssumption DEF Absent, Fresh, Idle
<1>4. Driven
  <2> SUFFICES ASSUME NEW s \in Sessions, life[s] = "live"
               PROVE  Tended(s)
    BY DEF Driven, Live
  <2>1. s \in S
    BY <1>1
  <2>2. PendingConnect(s)
    BY <1>2, <2>1, ClientAssumption DEF PendingConnect
  <2> QED
    BY <1>1, <2>2, ClientAssumption DEF Tended, Handled, Fresh, Idle, Up
<1> QED
  BY <1>3, <1>4

DrivenInv == TypesInv /\ Unborn /\ Driven

\* The inductive invariant behind SessionDriven: as long as the mailbox is open
\* each live session has a Connect or a login check pending, a thread on its way
\* to send one, or the ping timer; sessions not created yet have no trace.
THEOREM DrivenInvariant == Spec => []DrivenInv
<1>1. Init => DrivenInv
  BY InitTypes, InitDriven DEF DrivenInv
<1>2. DrivenInv /\ [Next]_vars => DrivenInv'
  <2> SUFFICES ASSUME DrivenInv, [Next]_vars
               PROVE  DrivenInv'
    OBVIOUS
  <2>1. CASE Next
    BY <2>1, StepTypes, UnbornStep, DrivenStep DEF DrivenInv, Unborn
  <2>2. CASE UNCHANGED vars
    <3>1. /\ UNCHANGED <<life, conn, mailbox, delayed, client, selector>>
      BY <2>2 DEF vars
    <3>2. TypesInv' /\ Unborn'
      BY <2>2, <3>1, StepTypes DEF DrivenInv, Unborn, Absent, Pending
    <3>3. Driven'
      BY <3>1 DEF DrivenInv, Driven, Live, Open, Tended, Handled, Up, Pending, PendingConnect,
         InLogin, InClose
    <3> QED
      BY <3>2, <3>3 DEF DrivenInv
  <2> QED
    BY <2>1, <2>2
<1> QED
  BY <1>1, <1>2, PTL DEF Spec

\* No live session of an account that still takes messages is given up, however
\* the agent's timers and the callbacks of the selector threads interleave.
THEOREM ClientSessionDriven == Spec => []SessionDriven
<1>1. DrivenInv => SessionDriven
  <2> SUFFICES ASSUME DrivenInv, Open, NEW s \in Live
               PROVE  \/ PendingConnect(s)
                      \/ Handled(s)
                      \/ InClose(s)
                      \/ Up(s) /\ \/ Pending(LoggedInCheck(s))
                                  \/ conn[s].logged /\ (conn[s].ping \/ InLogin(s))
    BY DEF SessionDriven
  <2>1. Tended(s)
    BY DEF DrivenInv, Driven
  <2> QED
    BY <2>1 DEF Tended, Handled
<1> QED
  BY <1>1, DrivenInvariant, PTL

-----------------------------------------------------------------------------
(* Every reservation has a check of its JOINs to come. *)

\* The requests the agent still has to handle are requests that were sent, and
\* SObjectizer's last demand follows one to shut down.
Requested ==
    \A m : Pending(m) =>
        /\ m.type \in {"JoinChannel", "LeaveChannel", "Reload", "Shutdown"} => m \in commands
        /\ m.type = "Finish" => Shutdown \in commands

\* The two places a channel without a confirmation is remembered in
Reserved(c) == \E s \in Sessions : selector[s].at = "reserved" /\ c \in selector[s].list
ToCheck(c) == \E s \in Sessions, C \in SUBSET Channels : c \in C /\ Pending(CheckJoined(s, C))

Unconfirmed(c) == c \in DOMAIN channels /\ Attached(channels, c) /\ ~ channels[c].joined

Checked ==
    Open => \A c : Unconfirmed(c) /\ JoinChannel(c) \notin commands => Reserved(c) \/ ToCheck(c)

\* A request that changes the list is remembered before it is handled.
LEMMA RequestedStep ==
    ASSUME TypesInv, Requested, Next
    PROVE  Requested'
<1> DEFINE Other(m) == m.type \notin {"JoinChannel", "LeaveChannel", "Reload", "Shutdown",
                                      "Finish"}
<1> USE DEF account, net, history
<1>1. commands \subseteq commands'
  BY DEF Next, ClientStep, EvtConnectUp, EvtConnect, EvtLoggedInCheck,
     EvtSendPING, EvtChannelJoined, EvtAllJoined, EvtJoinChannel, EvtAddChannel, EvtSendMessage,
     EvtOutOfRange, EvtLeaveUnknown, EvtLeaveChannel, EvtConnectFails, EvtConnected, EvtRejoin,
     EvtReload, EvtReloaded, EvtShutdown, EvtFinish, EvtFreed, ClientClose, ClientReport, SelectorStep, SelectorClose,
     SelectorReport, SelectorLogged, SelectorReserve, SelectorDivides, SelectorJoin,
     SelectorSync, NetStep, NetConnected, Welcome, NetLost, Silence, Answer, PingTick,
     JoinAck, JoinLost, Race, TimerFires, Command
<1>2. ASSUME NEW new, Came(new),
             \A m \in new : \/ Other(m)
                            \/ m \in commands' /\ m.type # "Finish"
                            \/ m.type = "Finish" /\ Shutdown \in commands'
      PROVE  Requested'
  BY <1>1, <1>2 DEF Requested, Came
<1>3. /\ \A s, n : Other(Connect(s, n))
      /\ \A s : Other(LoggedInCheck(s)) /\ Other(SendPING(s))
      /\ \A s, C : Other(CheckJoined(s, C))
      /\ \A c : Other(ChannelJoined(c))
  BY DEF Connect, LoggedInCheck, SendPING, CheckJoined, ChannelJoined
<1> HIDE DEF Other
<1>4. ASSUME NEW m, Other(m), Came(IfOpen(m))
      PROVE  Requested'
  BY <1>2, <1>4 DEF IfOpen
<1>5. Came({}) => Requested'
  BY <1>2
<1>6. ASSUME ClientStep
      PROVE  Requested'
  <2>1. CASE Takes \/ EvtJoinChannel \/ EvtOutOfRange \/ EvtFreed \/ ClientClose
    BY <1>5, <2>1, ClientMail DEF Mail
  <2>2. CASE EvtConnectFails
    BY <1>3, <1>4, <2>2, ClientMail DEF Mail
  <2>3. CASE EvtConnected
    BY <1>3, <1>4, <2>3, ClientMail DEF Mail
  <2>4. CASE EvtRejoin
    BY <1>3, <1>4, <2>4, ClientMail DEF Mail
  <2>5. CASE EvtShutdown
    <3> DEFINE h == Head(mailbox)
    <3>1. Take("Shutdown") /\ Came(IfOpen([type |-> "Finish"]))
      BY <2>5, ClientMail DEF EvtShutdown, Mail
    <3>2. h.type = "Shutdown" /\ Pending(h)
      BY <3>1, TypeParts, TailFacts, PendingIs DEF TypesInv, Take, At, MailTypes
    <3>3. h = Shutdown
      <4>1. h \in Message
        BY <3>1, TypeParts, TailFacts DEF TypesInv, Take, At, MailTypes
      <4> QED
        BY <3>2, <4>1, MessageFields DEF Shutdown
    <3>4. Shutdown \in commands'
      BY <1>1, <3>2, <3>3 DEF Requested
    <3> QED
      BY <1>2, <3>1, <3>4 DEF IfOpen
  <2>6. CASE ClientReport
    BY <1>3, <1>4, <2>6, ClientMail DEF Mail
  <2>7. CASE EvtReloaded
    <3>1. PICK S : Came(IF Open THEN {Connect(s, 0) : s \in S} ELSE {})
      BY <2>7, ReloadMail DEF Mail
    <3> QED
      BY <1>2, <1>3, <3>1
  <2>8. CASE EvtFinish
    <3>1. DOMAIN mailbox' = {} /\ DOMAIN delayed' = {}
      BY <2>8 DEF EvtFinish, NoMessages
    <3> QED
      BY <3>1, PendingIs DEF Has, Requested
  <2> QED
    BY <1>6, <2>1, <2>2, <2>3, <2>4, <2>5, <2>6, <2>7, <2>8 DEF ClientStep, Takes
<1>7. ASSUME NEW s \in Sessions, SelectorStep(s)
      PROVE  Requested'
  <2>1. \/ Came({}) \/ Came(IfOpen(Connect(s, 0)))
        \/ Came(IfOpen(CheckJoined(s, selector[s].list)))
    BY <1>7, SelectorMail DEF SelectorStep, Mail
  <2> QED
    BY <1>3, <1>4, <1>5, <2>1
<1>8. ASSUME NEW s \in Sessions, NetStep(s) \/ Race(s)
      PROVE  Requested'
  <2>1. \/ Came({}) \/ Came({SendPING(s)})
        \/ \E c \in Channels : Came(IfOpen(ChannelJoined(c)))
    BY <1>8, OutsideMail DEF NetStep, Mail
  <2> QED
    BY <1>2, <1>3, <1>4, <1>5, <2>1
<1>9. ASSUME NEW s \in Sessions, NEW type \in Timers, TimerFires(type, s)
      PROVE  Requested'
  BY <1>5, <1>9, OutsideMail DEF Mail
<1>10. ASSUME NEW m \in Requests, Command(m)
       PROVE  Requested'
  <2>1. Came({m}) /\ m \in commands' /\ m.type # "Finish"
    BY <1>10, CommandMail, RequestsAssumption
       DEF Mail, JoinChannel, LeaveChannel, SendMessage, Shutdown
  <2> QED
    BY <1>2, <2>1
<1> QED
  BY <1>6, <1>7, <1>8, <1>9, <1>10 DEF Next

\* A step that leaves the reservations and the checks of c alone.
LEMMA SameChecked ==
    ASSUME NEW c, Reserved(c) \/ ToCheck(c),
           \A s \in Sessions : selector[s].at = "reserved" => selector'[s] = selector[s],
           NEW gone, Stays(gone), \A m \in gone : m.type = "CheckJoined" => c \notin m.channels
    PROVE  Reserved(c)' \/ ToCheck(c)'
<1>1. CASE Reserved(c)
  BY <1>1 DEF Reserved
<1>2. CASE ToCheck(c)
  <2>1. PICK s \in Sessions, C \in SUBSET Channels : c \in C /\ Pending(CheckJoined(s, C))
    BY <1>2 DEF ToCheck
  <2>2. CheckJoined(s, C) \notin gone
    BY <2>1 DEF CheckJoined
  <2>3. Pending(CheckJoined(s, C))'
    BY <2>1, <2>2, PendingKept
  <2> QED
    BY <2>1, <2>3 DEF ToCheck
<1> QED
  BY <1>1, <1>2

\* Checked is inductive: a channel loses its place on a check only when it is
\* confirmed, given back, or on the list of the next check.
LEMMA CheckedStep ==
    ASSUME TypesInv, Requested, Checked, Next
    PROVE  Checked'
<1> USE DEF account, net, history
<1> SUFFICES ASSUME Open', NEW c, Unconfirmed(c)', JoinChannel(c) \notin commands'
             PROVE  Reserved(c)' \/ ToCheck(c)'
  BY DEF Checked
<1>0. /\ Open /\ SessionTypes /\ MailTypes /\ ThreadTypes /\ MapTypes /\ NoSession \notin Sessions
  BY OpenBefore, TypeParts, ClientAssumption DEF TypesInv
<1> DEFINE h == Head(mailbox)
<1>1. ASSUME Unconfirmed(c), commands' = commands,
             \A s \in Sessions : selector[s].at = "reserved" => selector'[s] = selector[s],
             NEW gone, Stays(gone), \A m \in gone : m.type = "CheckJoined" => c \notin m.channels
      PROVE  Reserved(c)' \/ ToCheck(c)'
  BY <1>0, <1>1, SameChecked DEF Checked
<1>2. ASSUME ClientStep
      PROVE  Reserved(c)' \/ ToCheck(c)'
  <2>1. selector' = selector /\ commands' = commands
    BY <1>2 DEF ClientStep, EvtConnectUp, EvtConnect, EvtLoggedInCheck,
       EvtSendPING, EvtChannelJoined, EvtAllJoined, EvtJoinChannel, EvtAddChannel, EvtSendMessage,
       EvtOutOfRange, EvtLeaveUnknown, EvtLeaveChannel, EvtConnectFails, EvtConnected, EvtRejoin,
       EvtReload, EvtReloaded, EvtShutdown, EvtFinish, EvtFreed, ClientClose, ClientReport
  <2>2. ASSUME NEW step, NEW type, At(step, type), Unconfirmed(c),
               type = "CheckJoined" => c \notin h.channels, Stays({h})
        PROVE  Reserved(c)' \/ ToCheck(c)'
    <3>1. h.type = type
      BY <2>2 DEF At
    <3>2. \A m \in {h} : m.type = "CheckJoined" => c \notin m.channels
      BY <2>2, <3>1
    <3> QED
      BY <1>1, <2>1, <2>2, <3>2
  <2>3. CASE Takes
    <3>1. Stays({h})
      BY <2>3, ClientMail DEF Mail
    <3>2. CASE \/ EvtConnectUp \/ EvtConnect \/ EvtLoggedInCheck \/ EvtSendPING
               \/ EvtLeaveUnknown \/ EvtSendMessage \/ EvtReload
      <4>1. channels' = channels /\ \E type : type # "CheckJoined" /\ At("idle", type)
        BY <3>2 DEF EvtConnectUp, EvtConnect, EvtLoggedInCheck, EvtSendPING,
           EvtLeaveUnknown, EvtSendMessage, EvtReload, TakeFor, Take
      <4> QED
        BY <2>2, <3>1, <4>1 DEF Unconfirmed
    <3>3. CASE EvtChannelJoined
      <4>1. Unconfirmed(c) /\ At("idle", "ChannelJoined")
        BY <1>0, <3>3 DEF EvtChannelJoined, Take, Unconfirmed, MarkJoined, Attached, MapTypes,
           MapOK, Entry
      <4> QED
        BY <2>2, <3>1, <4>1
    <3>4. CASE EvtAllJoined
      <4>1. /\ Unconfirmed(c) /\ At("idle", "CheckJoined")
            /\ NotJoined(channels, h.channels) = {}
        BY <3>4 DEF EvtAllJoined, Take, Unconfirmed
      <4>2. c \notin h.channels
        BY <4>1 DEF Unconfirmed, NotJoined
      <4> QED
        BY <2>2, <3>1, <4>1, <4>2
    <3>5. CASE EvtAddChannel
      <4>1. h = JoinChannel(h.channel) /\ Has(mailbox, h) /\ At("adding", "JoinChannel")
        BY <1>0, <3>5, TailFacts, MessageFields DEF EvtAddChannel, At, MailTypes
      <4>2. h.channel # c
        BY <2>1, <4>1, PendingIs DEF Requested, JoinChannel
      <4>3. channels' = AddChannel(channels, h.channel, client.session)
        BY <3>5 DEF EvtAddChannel
      <4>4. Unconfirmed(c)
        BY <4>2, <4>3 DEF Unconfirmed, AddChannel, Attached
      <4> QED
        BY <2>2, <3>1, <4>1, <4>4
    <3>6. CASE EvtLeaveChannel
      <4>1. Unconfirmed(c) /\ At("idle", "LeaveChannel")
        BY <3>6 DEF EvtLeaveChannel, Take, Unconfirmed, ExtractChannel, Attached
      <4> QED
        BY <2>2, <3>1, <4>1
    <3> QED
      BY <2>3, <3>2, <3>3, <3>4, <3>5, <3>6 DEF Takes
  <2>4. CASE EvtConnectFails \/ EvtShutdown
    <3>1. channels' = channels /\ Stays({h}) /\ \E type : type # "CheckJoined" /\ At("idle", type)
      BY <2>4, ClientMail DEF EvtConnectFails, EvtShutdown, TakeFor, Take, Mail
    <3> QED
      BY <2>2, <3>1 DEF Unconfirmed
  <2>5. CASE EvtRejoin
    <3> DEFINE rejoin == NotJoined(channels, h.channels)
           m == CheckJoined(h.session, rejoin)
    <3>1. Unconfirmed(c) /\ Take("CheckJoined") /\ Mail({h}, IfOpen(m))
      BY <2>5, ClientMail DEF EvtRejoin, TakeFor, Unconfirmed
    <3>2. CASE c \in h.channels
      <4>1. h.session \in Sessions /\ h.channels \in SUBSET Channels
        BY <1>0, <3>1, TakenTypes, MessageFields
      <4>2. c \in rejoin /\ rejoin \in SUBSET Channels
        BY <3>1, <3>2, <4>1 DEF NotJoined, Unconfirmed
      <4>3. PICK s \in Sessions, C \in SUBSET Channels : c \in C /\ m = CheckJoined(s, C)
        BY <4>1, <4>2
      <4>4. Pending(CheckJoined(s, C))'
        <5> HIDE DEF m
        <5> QED
          BY <1>0, <3>1, <4>3 DEF Mail, IfOpen
      <4> QED
        BY <4>3, <4>4 DEF ToCheck
    <3>3. CASE c \notin h.channels
      BY <2>2, <3>1, <3>3 DEF Mail, Take
    <3> QED
      BY <3>2, <3>3
  <2>6. CASE EvtConnected \/ EvtFreed \/ EvtOutOfRange \/ ClientClose
    <3>1. Stays({}) /\ channels' = channels
      BY <2>6, ClientMail DEF EvtConnected, EvtFreed, EvtOutOfRange, ClientClose, Mail
    <3> QED
      BY <1>1, <2>1, <3>1 DEF Unconfirmed
  <2>7. CASE ClientReport
    <3>1. Stays({}) /\ channels' = DetachFrom(channels, client.session)
      BY <2>7, ClientMail DEF ClientReport, Report, Mail
    <3>2. Unconfirmed(c)
      BY <3>1 DEF Unconfirmed, DetachFrom, Detached, Attached
    <3> QED
      BY <1>1, <2>1, <3>1, <3>2
  <2>8. CASE EvtReloaded
    BY <2>8 DEF EvtReloaded, Load, Detached, Unconfirmed, Attached
  <2>9. CASE EvtFinish
    BY <2>9 DEF EvtFinish, Open
  <2>10. CASE EvtJoinChannel
    <3>1. /\ channels' = channels /\ At("idle", "JoinChannel")
          /\ Stays({h})
      BY <2>10, ClientMail DEF EvtJoinChannel, Take, Mail, Stays
    <3> QED
      BY <2>2, <3>1 DEF Unconfirmed
  <2> QED
    BY <1>2, <2>3, <2>4, <2>5, <2>6, <2>7, <2>8, <2>9, <2>10 DEF ClientStep, Takes
<1>3. ASSUME NEW s \in Sessions, SelectorStep(s)
      PROVE  Reserved(c)' \/ ToCheck(c)'
  <2>1. Stays({}) /\ commands' = commands
    BY <1>3, SelectorMail DEF SelectorStep, Mail, SelectorClose, SelectorReport, SelectorLogged,
       SelectorReserve, SelectorDivides, SelectorJoin, SelectorSync
  <2>2. CASE SelectorReport(s)
    <3>1. /\ channels' = DetachFrom(channels, s)
          /\ \A t \in Sessions : selector[t].at = "reserved" => selector'[t] = selector[t]
      BY <1>0, <2>2 DEF SelectorReport, Report, SelectorAt, SelectorTo, ThreadTypes
    <3>2. Unconfirmed(c)
      BY <3>1 DEF Unconfirmed, DetachFrom, Detached, Attached
    <3> QED
      BY <1>1, <2>1, <3>1, <3>2
  <2>3. CASE SelectorReserve(s)
    <3>1. PICK R \in Reservations(channels, sessionCount) :
              /\ channels' = Attach(channels, R, s)
              /\ selector' = [selector EXCEPT ![s] = [at |-> "reserved", list |-> R]]
      BY <2>3 DEF SelectorReserve
    <3>2. CASE c \in R
      <4>1. selector'[s].at = "reserved" /\ c \in selector'[s].list
        BY <1>0, <3>1, <3>2 DEF ThreadTypes
      <4> QED
        BY <4>1 DEF Reserved
    <3>3. CASE c \notin R
      <4>1. Unconfirmed(c)
        BY <3>1, <3>3 DEF Unconfirmed, Attach, Attached
      <4>2. \A t \in Sessions : selector[t].at = "reserved" => selector'[t] = selector[t]
        BY <1>0, <2>3, <3>1 DEF SelectorReserve, SelectorAt, ThreadTypes
      <4> QED
        BY <1>1, <2>1, <4>1, <4>2
    <3> QED
      BY <3>2, <3>3
  <2>4. CASE SelectorJoin(s)
    <3> DEFINE list == selector[s].list
           m == CheckJoined(s, list)
    <3>1. Unconfirmed(c) /\ Mail({}, IfOpen(m)) /\ list \in SUBSET Channels
      BY <1>0, <2>4, SelectorMail DEF SelectorJoin, Unconfirmed, ThreadTypes
    <3>2. CASE c \in list
      <4>1. PICK C \in SUBSET Channels : c \in C /\ m = CheckJoined(s, C)
        BY <3>1, <3>2
      <4>2. Pending(CheckJoined(s, C))'
        <5> HIDE DEF m
        <5> QED
          BY <1>0, <3>1, <4>1 DEF Mail, IfOpen
      <4> QED
        BY <4>1, <4>2 DEF ToCheck
    <3>3. CASE c \notin list
      <4>1. Reserved(c) \/ ToCheck(c)
        BY <1>0, <2>1, <3>1 DEF Checked
      <4>2. CASE Reserved(c)
        <5>1. PICK t \in Sessions : selector[t].at = "reserved" /\ c \in selector[t].list
          BY <4>2 DEF Reserved
        <5>2. selector'[t] = selector[t]
          BY <1>0, <2>4, <3>3, <5>1 DEF SelectorJoin, ThreadTypes
        <5> QED
          BY <5>1, <5>2 DEF Reserved
      <4>3. CASE ToCheck(c)
        BY <2>1, <4>3, PendingKept DEF ToCheck
      <4> QED
        BY <4>1, <4>2, <4>3
    <3> QED
      BY <3>2, <3>3
  <2>5. CASE SelectorClose(s) \/ SelectorLogged(s) \/ SelectorDivides(s) \/ SelectorSync(s)
    <3>1. /\ channels' = channels
          /\ \A t \in Sessions : selector[t].at = "reserved" => selector'[t] = selector[t]
      BY <1>0, <2>5 DEF SelectorClose, SelectorLogged, SelectorDivides, SelectorSync,
         SelectorAt, SelectorTo, ThreadTypes
    <3> QED
      BY <1>1, <2>1, <3>1 DEF Unconfirmed
  <2> QED
    BY <1>3, <2>2, <2>3, <2>4, <2>5 DEF SelectorStep
<1>4. ASSUME NEW s \in Sessions, NetStep(s) \/ Race(s)
      PROVE  Reserved(c)' \/ ToCheck(c)'
  <2>1. Stays({})
    BY <1>4, OutsideMail DEF NetStep, Mail
  <2>2. /\ channels' = channels /\ commands' = commands
        /\ \A t \in Sessions : selector[t].at = "reserved" => selector'[t] = selector[t]
    BY <1>0, <1>4 DEF NetStep, NetConnected, Welcome, NetLost, Silence, Answer, PingTick,
       JoinAck, JoinLost, Race, SelectorFree, SelectorAt, SelectorTo, ThreadTypes
  <2> QED
    BY <1>1, <2>1, <2>2 DEF Unconfirmed
<1>5. ASSUME NEW s \in Sessions, NEW type \in Timers, TimerFires(type, s)
      PROVE  Reserved(c)' \/ ToCheck(c)'
  <2>1. Stays({}) /\ UNCHANGED <<channels, commands, selector>>
    BY <1>5, OutsideMail DEF TimerFires, Mail
  <2> QED
    BY <1>1, <2>1 DEF Unconfirmed
<1>6. ASSUME NEW m \in Requests, Command(m)
      PROVE  Reserved(c)' \/ ToCheck(c)'
  <2>1. Stays({}) /\ commands \subseteq commands'
    BY <1>6, CommandMail DEF Mail
  <2>3. UNCHANGED <<channels, selector>>
    BY <1>6 DEF Command
  <2>2. Reserved(c) \/ ToCheck(c)
    BY <1>0, <2>1, <2>3 DEF Checked, Unconfirmed
  <2> QED
    BY <2>1, <2>2, <2>3, SameChecked
<1> QED
  BY <1>2, <1>3, <1>4, <1>5, <1>6 DEF Next

CheckedInv == TypesInv /\ Requested /\ Checked

\* The inductive invariant behind Watched: a channel that is attached and not
\* confirmed is in a reservation under way or on a check to come.
THEOREM CheckedInvariant == Spec => []CheckedInv
<1>1. Init => CheckedInv
  <2> SUFFICES ASSUME Init PROVE CheckedInv
    OBVIOUS
  <2>1. TypesInv
    BY InitTypes
  <2>2. Checked
    BY DEF Init, Load, Detached, Checked, Unconfirmed, Attached
  <2>3. Requested
    <3> DEFINE S == FirstOf(Sessions, sessionCount)
    <3>1. S \in SUBSET Sessions /\ mailbox = ConnectAll(InOrder(S)) /\ DOMAIN delayed = {}
      BY DEF Init, FirstOf, NoMessages
    <3>2. \A m : Pending(m) => \E s \in S : m = Connect(s, 0)
      <4> HIDE DEF S
      <4> QED
        BY <3>1, ConnectFacts, PendingIs
    <3> QED
      BY <3>2 DEF Requested, Connect
  <2> QED
    BY <2>1, <2>2, <2>3 DEF CheckedInv
<1>2. CheckedInv /\ [Next]_vars => CheckedInv'
  <2> SUFFICES ASSUME CheckedInv, [Next]_vars
               PROVE  CheckedInv'
    OBVIOUS
  <2>1. CASE Next
    BY <2>1, StepTypes, RequestedStep, CheckedStep DEF CheckedInv
  <2>2. CASE UNCHANGED vars
    <3>1. UNCHANGED <<channels, mailbox, delayed, client, selector, commands>>
      BY <2>2 DEF vars, history
    <3> QED
      BY <2>2, <3>1, StepTypes DEF CheckedInv, Requested, Checked, Unconfirmed, Reserved,
         ToCheck, Open, Pending, Attached
  <2> QED
    BY <2>1, <2>2
<1> QED
  BY <1>1, <1>2, PTL DEF Spec

\* A channel a login reserved is confirmed, or a check of its JOIN is to come,
\* whatever is lost, detached and reserved again meanwhile.
THEOREM ClientWatched == Spec => []Watched
<1>1. CheckedInv => Watched
  BY DEF CheckedInv, Checked, Unconfirmed, Reserved, ToCheck, Watched
<1> QED
  BY <1>1, CheckedInvariant, PTL

-----------------------------------------------------------------------------
(* The undefined ends, and the requests behind them. *)

\* Sessions go away by a reload, or with the agent, and that leaves by request;
\* the round robin's cursor is a session's until then.
Leaving ==
    /\ client.at = "stopped" => Shutdown \in commands
    /\ client.at = "reloading" => Asked("Reload")
    /\ client.at # "stopped" /\ ~ Asked("Reload") =>
          /\ \A s \in Sessions : life[s] \in {"unborn", "live"}
          /\ cursor = 0 \/ cursor < Cardinality(Live)

\* Leaving is inductive, given that what is in the mailbox was requested.
LEMMA LeavingStep ==
    ASSUME TypesInv, Requested, Leaving, Next
    PROVE  Leaving'
<1> USE DEF account, net, history
<1>0. SessionTypes /\ MailTypes
  BY TypeParts DEF TypesInv
<1> DEFINE h == Head(mailbox)
<1>1. ASSUME NEW type, Take(type)
      PROVE  h.type = type /\ h \in Message /\ Pending(h) /\ client.at = "idle"
  BY <1>0, <1>1, TailFacts, PendingIs DEF Take, At, MailTypes
<1>2. ASSUME life' = life, cursor' = cursor, commands \subseteq commands',
             client'.at = "stopped" <=> client.at = "stopped",
             client'.at = "reloading" => client.at = "reloading"
      PROVE  Leaving'
  BY <1>2 DEF Leaving, Live, Asked
<1>3. ASSUME ClientStep
      PROVE  Leaving'
  <2>1. CASE EvtReload
    <3>1. h.type = "Reload" /\ Pending(h)
      BY <1>1, <2>1 DEF EvtReload
    <3>2. Asked("Reload")'
      BY <2>1, <3>1 DEF Requested, Asked, EvtReload
    <3> QED
      BY <2>1, <3>2 DEF EvtReload, Leaving
  <2>2. CASE EvtFinish
    <3>1. Shutdown \in commands
      BY <1>1, <2>2 DEF EvtFinish, Requested
    <3> QED
      BY <2>2, <3>1 DEF EvtFinish, Leaving
  <2>3. CASE \/ EvtConnectUp \/ EvtConnectFails \/ EvtChannelJoined \/ EvtAllJoined \/ EvtRejoin
             \/ EvtOutOfRange \/ EvtLeaveUnknown \/ EvtLeaveChannel \/ EvtShutdown \/ EvtFreed
    <3>1. UNCHANGED <<life, cursor, client, commands>>
      BY <2>3 DEF EvtConnectUp, EvtConnectFails, EvtChannelJoined, EvtAllJoined, EvtRejoin,
         EvtOutOfRange, EvtLeaveUnknown, EvtLeaveChannel, EvtShutdown, EvtFreed
    <3> QED
      BY <1>2, <3>1
  <2>4. CASE EvtConnect \/ EvtLoggedInCheck \/ EvtSendPING
    <3>1. /\ UNCHANGED <<life, cursor, commands>> /\ client.at # "stopped"
          /\ client'.at \notin {"stopped", "reloading"}
      BY <1>1, <2>4 DEF EvtConnect, EvtLoggedInCheck, EvtSendPING, TakeFor, Idle
    <3> QED
      BY <1>2, <3>1
  <2>5. CASE EvtConnected \/ EvtAddChannel \/ ClientClose \/ ClientReport
    <3>1. client \in [at : {"idle", "connected", "closing", "closed", "adding", "reloading",
                            "stopped"},
                      session : Sessions \cup {NoSession}]
      BY TypeParts DEF TypesInv, ThreadTypes
    <3>2. /\ UNCHANGED <<life, cursor, commands>> /\ client.at # "stopped"
          /\ client'.at \notin {"stopped", "reloading"}
      BY <2>5, <3>1 DEF EvtConnected, EvtAddChannel, At, ClientClose, ClientReport, Idle
    <3> QED
      BY <1>2, <3>2
  <2>6. CASE EvtReloaded
    BY <2>6 DEF EvtReloaded, Leaving, Asked, Idle
  <2>7. CASE EvtJoinChannel \/ EvtSendMessage
    <3>1. /\ UNCHANGED <<life, commands>> /\ client.at = "idle"
          /\ client'.at \notin {"stopped", "reloading"}
          /\ \E s \in Live : MoveCursor(s)
      BY <1>1, <2>7 DEF EvtJoinChannel, EvtSendMessage
    <3>2. cursor' = cursor \/ cursor' < Cardinality(Live)
      BY <3>1, CursorTypes, TypeParts DEF TypesInv
    <3> QED
      BY <3>1, <3>2 DEF Leaving, Live, Asked
  <2> QED
    BY <1>3, <2>1, <2>2, <2>3, <2>4, <2>5, <2>6, <2>7 DEF ClientStep
<1>4. ASSUME NEW s \in Sessions, SelectorStep(s)
      PROVE  Leaving'
  <2>1. UNCHANGED <<client, cursor, commands>>
    BY <1>4 DEF SelectorStep, SelectorClose, SelectorReport, SelectorLogged, SelectorReserve,
       SelectorDivides, SelectorJoin, SelectorSync
  <2>2. CASE SelectorSync(s)
    BY <2>1, <2>2 DEF SelectorSync, LetGo, Leaving, Asked
  <2>3. CASE ~ SelectorSync(s)
    <3>1. life' = life
      BY <1>4, <2>3 DEF SelectorStep, SelectorClose, SelectorReport, SelectorLogged,
         SelectorReserve, SelectorDivides, SelectorJoin
    <3> QED
      BY <1>2, <2>1, <3>1
  <2> QED
    BY <2>2, <2>3
<1>5. ASSUME \/ \E s \in Sessions : NetStep(s) \/ Race(s)
             \/ \E s \in Sessions, type \in Timers : TimerFires(type, s)
             \/ \E m \in Requests : Command(m)
      PROVE  Leaving'
  <2>1. UNCHANGED <<life, cursor, client>> /\ commands \subseteq commands'
    BY <1>5 DEF NetStep, NetConnected, Welcome, NetLost, Silence, Answer, PingTick, JoinAck,
       JoinLost, Race, TimerFires, Command
  <2> QED
    BY <1>2, <2>1
<1> QED
  BY <1>3, <1>4, <1>5 DEF Next

\* Leaving holds throughout.
LEMMA LeavingInvariant == Spec => []Leaving
<1>1. Init => Leaving
  BY DEF Init, Leaving, Idle
<1>2. CheckedInv /\ Leaving /\ [Next]_vars => Leaving'
  <2> SUFFICES ASSUME CheckedInv, Leaving, [Next]_vars
               PROVE  Leaving'
    OBVIOUS
  <2>1. CASE Next
    BY <2>1, LeavingStep DEF CheckedInv
  <2>2. CASE UNCHANGED vars
    BY <2>2 DEF vars, account, history, Leaving, Asked, Live
  <2> QED
    BY <2>1, <2>2
<1> QED
  BY <1>1, <1>2, CheckedInvariant, PTL DEF Spec

\* The step that ends the run in something undefined has its request.
LEMMA ProvokedStep ==
    ASSUME TypesInv, Requested, Leaving, Next
    PROVE  Provoked'
<1> USE DEF account, net, history
<1>0. SessionTypes /\ MailTypes /\ ub = "none"
  BY TypeParts DEF TypesInv, Next
<1> DEFINE h == Head(mailbox)
<1>1. ASSUME NEW type, Take(type)
      PROVE  h.type = type /\ h \in Message /\ Pending(h) /\ client.at = "idle"
  BY <1>0, <1>1, TailFacts, PendingIs DEF Take, At, MailTypes
<1>2. ub' = "none" => Provoked'
  BY DEF Provoked
<1>3. ASSUME client.at # "stopped", NEW s, Freed(s), s \in Sessions
      PROVE  Asked("Reload")
  BY <1>3 DEF Leaving, Freed
<1>4. CASE ClientStep
  <2>1. CASE EvtLeaveChannel
    <3>1. h = LeaveChannel(h.channel) /\ h.channel \in Channels /\ Pending(h)
          /\ client.at = "idle" /\ commands' = commands
      BY <1>1, <2>1, MessageFields DEF EvtLeaveChannel
    <3>2. Asked("LeaveChannel")'
      BY <3>1 DEF Requested, Asked, LeaveChannel
    <3>3. CASE ub' = "freed"
      <4> DEFINE s == channels[h.channel].session
      <4>1. s # NoSession /\ Freed(s) /\ h.channel \in DOMAIN channels
        BY <2>1, <3>3 DEF EvtLeaveChannel
      <4>2. s \in Sessions
        BY <4>1, TypeParts DEF TypesInv, MapTypes, MapOK, Entry
      <4>3. Asked("Reload")'
        BY <1>3, <3>1, <4>1, <4>2 DEF Asked
      <4> QED
        BY <3>3, <4>3 DEF Provoked
    <3>4. ub' \in {"null", "freed", "none"}
      BY <2>1 DEF EvtLeaveChannel
    <3> QED
      BY <3>1, <3>2, <3>3, <3>4 DEF Provoked
  <2>2. CASE EvtReload
    <3>1. Asked("Reload")' /\ oneSelector' = oneSelector
      <4>1. h.type = "Reload" /\ Pending(h)
        BY <1>1, <2>2 DEF EvtReload
      <4> QED
        BY <2>2, <4>1 DEF Requested, Asked, EvtReload
    <3>2. ub' = IF oneSelector THEN "none" ELSE "erase"
      BY <1>0, <2>2 DEF EvtReload, RemoveFromSelectors
    <3> QED
      BY <3>1, <3>2 DEF Provoked
  <2>3. CASE EvtFinish
    <3>1. Shutdown \in commands' /\ oneSelector' = oneSelector
      BY <1>1, <2>3 DEF EvtFinish, Requested
    <3>2. ub' = IF oneSelector THEN "none" ELSE "erase"
      BY <1>0, <2>3 DEF EvtFinish, RemoveFromSelectors
    <3>3. Asked("Shutdown")'
      BY <3>1 DEF Asked, Shutdown
    <3> QED
      BY <3>1, <3>2, <3>3 DEF Provoked
  <2>4. CASE EvtFreed
    <3>1. PICK s \in Sessions : Freed(s) /\ client.at # "stopped"
      <4>1. CASE \E type \in {"Connect", "LoggedInCheck", "SendPING", "CheckJoined"} :
                     Take(type) /\ Freed(h.session)
        <5>1. PICK type \in {"Connect", "LoggedInCheck", "SendPING", "CheckJoined"} :
                  Take(type) /\ Freed(h.session)
          BY <4>1
        <5> QED
          BY <1>1, <5>1, MessageFields
      <4>2. CASE client.at \in {"connected", "closing", "closed"} /\ Freed(client.session)
        BY <4>2, TypeParts DEF TypesInv, AtSession
      <4>3. CASE /\ client.at = "idle"
                 /\ \E c \in DOMAIN channels : Attached(channels, c)
                                              /\ Freed(channels[c].session)
        BY <4>3, TypeParts DEF TypesInv, MapTypes, MapOK, Entry, Attached
      <4> QED
        BY <2>4, <4>1, <4>2, <4>3 DEF EvtFreed
    <3>2. Asked("Reload")' /\ ub' = "freed"
      BY <1>3, <2>4, <3>1 DEF EvtFreed, Asked
    <3> QED
      BY <3>2 DEF Provoked
  <2>5. CASE EvtOutOfRange
    <3>1. client.at = "idle" /\ OutOfRange /\ ub' = "range" /\ commands' = commands
      BY <1>1, <2>5 DEF EvtOutOfRange
    <3>2. cursor # 0 /\ ~ (cursor < Cardinality(Live))
      BY <3>1, LiveCount, TypeParts DEF TypesInv, ConfigTypes, OutOfRange
    <3>3. Asked("Reload")'
      BY <3>1, <3>2 DEF Leaving, Asked
    <3> QED
      BY <3>1, <3>3 DEF Provoked
  <2>6. CASE ~ (EvtLeaveChannel \/ EvtReload \/ EvtFinish \/ EvtFreed \/ EvtOutOfRange)
    <3>1. ub' = ub
      BY <1>4, <2>6 DEF ClientStep, EvtConnectUp, EvtConnect, EvtLoggedInCheck,
         EvtSendPING, EvtChannelJoined, EvtAllJoined, EvtJoinChannel, EvtAddChannel,
         EvtSendMessage, EvtLeaveUnknown, EvtConnectFails, EvtConnected, EvtRejoin,
         EvtReloaded, EvtShutdown, ClientClose, ClientReport
    <3> QED
      BY <1>0, <1>2, <3>1
  <2> QED
    BY <2>1, <2>2, <2>3, <2>4, <2>5, <2>6
<1>5. ASSUME NEW s \in Sessions, SelectorStep(s)
      PROVE  Provoked'
  <2>1. CASE SelectorDivides(s)
    BY <2>1 DEF SelectorDivides, Provoked
  <2>2. CASE ~ SelectorDivides(s)
    <3>1. commands' = commands /\ (ub' = ub \/ Listener)
      BY <1>5, <2>2 DEF SelectorStep, SelectorClose, SelectorReport, SelectorLogged,
         SelectorReserve, SelectorJoin, SelectorSync
    <3>2. ub' = "client" => Asked("Shutdown")'
      BY <1>0, <3>1 DEF Listener, Leaving, Asked, Shutdown
    <3> QED
      BY <1>0, <1>2, <3>1, <3>2 DEF Listener, Provoked
  <2> QED
    BY <2>1, <2>2
<1>7. CASE \E s \in Sessions : Race(s)
  BY <1>7 DEF Race, Provoked
<1>6. CASE \/ \E s \in Sessions : NetStep(s)
           \/ \E s \in Sessions, type \in Timers : TimerFires(type, s)
           \/ \E m \in Requests : Command(m)
  <2>1. ub' = ub
    BY <1>6 DEF NetStep, NetConnected, Welcome, NetLost, Silence, Answer, PingTick, JoinAck,
       JoinLost, TimerFires, Command
  <2> QED
    BY <1>0, <1>2, <2>1
<1> QED
  BY <1>4, <1>5, <1>6, <1>7 DEF Next

\* Whatever the network, the server and the timers do, in any order, they leave
\* the pointers, lists and indices of the client whole: a run that ends at one
\* of these ends by the request that makes it possible.  A race of the two
\* threads (Race) needs no request, and the theorem says nothing of it.
THEOREM ClientProvoked == Spec => []Provoked
<1>1. Init => Provoked
  BY DEF Init, Provoked
<1>2. CheckedInv /\ Leaving /\ Provoked /\ [Next]_vars => Provoked'
  <2> SUFFICES ASSUME CheckedInv, Leaving, Provoked, [Next]_vars
               PROVE  Provoked'
    OBVIOUS
  <2>1. CASE Next
    BY <2>1, ProvokedStep DEF CheckedInv
  <2>2. CASE UNCHANGED vars
    BY <2>2 DEF vars, account, history, Provoked, Asked
  <2> QED
    BY <2>1, <2>2
<1> QED
  BY <1>1, <1>2, CheckedInvariant, LeavingInvariant, PTL DEF Spec

-----------------------------------------------------------------------------
(* Coverage, counted.  One login's share, the channels of some sessions, and *)
(* the operators of the list as they change the counts.                      *)

Held(ch, E) == {c \in DOMAIN ch : ch[c].session \in E}

\* No set of sessions holds more than a share each.
Fair(ch, n, L) ==
    \A E \in SUBSET L : Cardinality(Held(ch, E)) <= Share(ch, n) * Cardinality(E)

\* The channels that wait, or are about to, fit the sessions still to reserve.
Room(ch, n, D) ==
    Cardinality(Held(ch, D \cup {NoSession})) <= Share(ch, n) * Cardinality(D)

SameOwners(old, new) ==
    DOMAIN new = DOMAIN old /\ \A c \in DOMAIN old : new[c].session = old[c].session

\* A share is positive, and shares for all sessions are enough for all channels
\* (reserveChannelsForSession: count / session_count + 1).
LEMMA ShareFacts ==
    ASSUME NEW ch, IsFiniteSet(DOMAIN ch), NEW n \in Nat \ {0}
    PROVE  /\ Share(ch, n) \in Nat \ {0}
           /\ Cardinality(DOMAIN ch) <= Share(ch, n) * n
<1> DEFINE size == Cardinality(DOMAIN ch)
           q == size \div n
<1>1. size \in Nat
  BY FS_CardinalityType
<1>4. Share(ch, n) = q + 1
  BY DEF Share
<1> HIDE DEF size
<1>2. q \in Nat /\ size < n * q + n
  BY <1>1, SMT
<1> HIDE DEF q
<1>3. (q + 1) * n = n * q + n
  <2>1. \A a, b \in Nat : (a + 1) * b = b * a + b
    BY SMT
  <2> QED
    BY <1>2, <2>1
<1> QED
  BY <1>1, <1>2, <1>3, <1>4 DEF size

\* The channels held by the sessions of a set are finitely many, and more
\* sessions hold more.
LEMMA HeldFacts ==
    ASSUME NEW ch, IsFiniteSet(DOMAIN ch), NEW E
    PROVE  /\ IsFiniteSet(Held(ch, E)) /\ Cardinality(Held(ch, E)) \in Nat
           /\ \A F : Held(ch, F) \subseteq Held(ch, E) =>
                  Cardinality(Held(ch, F)) <= Cardinality(Held(ch, E))
<1>1. IsFiniteSet(Held(ch, E))
  BY FS_Subset DEF Held
<1> QED
  BY <1>1, FS_Subset, FS_CardinalityType

\* A share for each of a finite set, and for one more or one less.
LEMMA SharesOf ==
    ASSUME NEW cap \in Nat, NEW E, IsFiniteSet(E), NEW s
    PROVE  /\ Cardinality(E) \in Nat /\ cap * Cardinality(E) \in Nat
           /\ s \notin E => cap * Cardinality(E \cup {s}) = cap * Cardinality(E) + cap
           /\ s \in E => cap * Cardinality(E) = cap * Cardinality(E \ {s}) + cap
<1>1. \A k \in Nat : cap * k \in Nat /\ cap * (k + 1) = cap * k + cap
  BY SMT
<1>2. Cardinality(E) \in Nat
  BY FS_CardinalityType
<1>3. s \notin E => Cardinality(E \cup {s}) = Cardinality(E) + 1
  BY FS_AddElement
<1>4. ASSUME s \in E
      PROVE  Cardinality(E \ {s}) \in Nat /\ Cardinality(E) = Cardinality(E \ {s}) + 1
  <2>1. IsFiniteSet(E \ {s}) /\ Cardinality(E \ {s}) = Cardinality(E) - 1
    BY <1>4, FS_RemoveElement
  <2> QED
    BY <1>2, <2>1, FS_CardinalityType
<1> QED
  BY <1>1, <1>2, <1>3, <1>4

\* Lists with the same owners have the same counts.
LEMMA SameCounts ==
    ASSUME NEW old, NEW new, SameOwners(old, new)
    PROVE  \A n, E : /\ Fair(old, n, E) => Fair(new, n, E)
                     /\ Room(old, n, E) => Room(new, n, E)
<1>1. \A E : Held(new, E) = Held(old, E)
  BY DEF SameOwners, Held
<1>2. \A n : Share(new, n) = Share(old, n)
  BY DEF SameOwners, Share
<1> QED
  BY <1>1, <1>2 DEF Fair, Room

\* A session that loses its login brings its channels, a share at most.
LEMMA OneMoreDue ==
    ASSUME NEW ch, IsFiniteSet(DOMAIN ch), NEW n \in Nat \ {0},
           NEW L, IsFiniteSet(L), Fair(ch, n, L),
           NEW D \in SUBSET L, Room(ch, n, D), NEW s \in L
    PROVE  Room(ch, n, D \cup {s})
<1> DEFINE cap == Share(ch, n)
           W == Held(ch, D \cup {NoSession})
           H == Held(ch, {s})
<1>1. CASE s \in D
  <2>1. D \cup {s} = D
    BY <1>1
  <2> QED
    BY <2>1
<1>2. CASE s \notin D
  <2>1. cap \in Nat
    BY ShareFacts
  <2>2. IsFiniteSet(D)
    BY FS_Subset
  <2>3. Cardinality(H) <= cap
    <3>1. Cardinality(H) <= cap * Cardinality({s})
      BY DEF Fair
    <3>2. Cardinality({s}) = 1
      BY FS_Singleton
    <3> QED
      BY <2>1, <3>1, <3>2
  <2>4. Held(ch, (D \cup {s}) \cup {NoSession}) = W \cup H
    BY DEF Held
  <2>5. /\ IsFiniteSet(W) /\ Cardinality(W) \in Nat
        /\ IsFiniteSet(H) /\ Cardinality(H) \in Nat
    BY HeldFacts
  <2>6. Cardinality(W \cup H) <= Cardinality(W) + Cardinality(H)
    <3>1. /\ Cardinality(W \cup H) = Cardinality(W) + Cardinality(H) - Cardinality(W \cap H)
          /\ IsFiniteSet(W \cap H)
      BY <2>5, FS_Union, FS_Intersection
    <3> QED
      BY <2>5, <3>1, FS_CardinalityType
  <2>7. Cardinality(W \cup H) \in Nat
    BY <2>5, FS_Union, FS_CardinalityType
  <2>8. /\ cap * Cardinality(D) \in Nat
        /\ cap * Cardinality(D \cup {s}) = cap * Cardinality(D) + cap
    BY <1>2, <2>1, <2>2, SharesOf
  <2>9. Cardinality(W) <= cap * Cardinality(D)
    BY DEF Room
  <2> HIDE DEF cap, W, H
  <2>10. Cardinality(W \cup H) <= cap * Cardinality(D \cup {s})
    BY <2>1, <2>3, <2>5, <2>6, <2>7, <2>8, <2>9
  <2> QED
    BY <2>4, <2>10 DEF Room, cap
<1> QED
  BY <1>1, <1>2

\* A session that is due already gives back what it holds.
LEMMA DetachCounts ==
    ASSUME NEW ch, IsFiniteSet(DOMAIN ch), NEW n \in Nat \ {0},
           NEW L, IsFiniteSet(L), NoSession \notin L, Fair(ch, n, L),
           NEW D \in SUBSET L, Room(ch, n, D), NEW s \in D
    PROVE  Fair(DetachFrom(ch, s), n, L) /\ Room(DetachFrom(ch, s), n, D)
<1> DEFINE new == DetachFrom(ch, s)
<1>1. /\ DOMAIN new = DOMAIN ch
      /\ \A c \in DOMAIN ch : new[c].session = IF ch[c].session = s THEN NoSession
                                                                    ELSE ch[c].session
  BY DEF DetachFrom, Detached
<1> HIDE DEF new
<1>2. Share(new, n) = Share(ch, n)
  BY <1>1 DEF Share
<1>3. Held(new, D \cup {NoSession}) = Held(ch, D \cup {NoSession})
  BY <1>1 DEF Held
<1>4. ASSUME NEW E \in SUBSET L
      PROVE  Cardinality(Held(new, E)) <= Share(ch, n) * Cardinality(E)
  <2>1. Held(new, E) = Held(ch, E \ {s})
    BY <1>1 DEF Held
  <2>2. Held(ch, E \ {s}) \subseteq Held(ch, E)
    BY DEF Held
  <2>3. Cardinality(Held(ch, E)) <= Share(ch, n) * Cardinality(E)
    BY DEF Fair
  <2>4. /\ Cardinality(Held(ch, E \ {s})) \in Nat /\ Cardinality(Held(ch, E)) \in Nat
        /\ Cardinality(Held(ch, E \ {s})) <= Cardinality(Held(ch, E))
    BY <2>2, HeldFacts
  <2>5. IsFiniteSet(E) /\ Share(ch, n) \in Nat
    BY FS_Subset, ShareFacts
  <2>6. Share(ch, n) * Cardinality(E) \in Nat
    BY <2>5, SharesOf
  <2> QED
    BY <2>1, <2>3, <2>4, <2>6
<1> QED
  BY <1>2, <1>3, <1>4 DEF Fair, Room, new

\* A login takes a share, or all that waits; either way the rest fits the
\* sessions that come after it.
LEMMA ReserveCounts ==
    ASSUME NEW ch, Map(ch), IsFiniteSet(DOMAIN ch), NEW n \in Nat \ {0},
           NEW L, IsFiniteSet(L), NoSession \notin L, Fair(ch, n, L),
           NEW D \in SUBSET L, Room(ch, n, D), NEW s \in D,
           HeldBy(ch, s) = {}, NEW R \in Reservations(ch, n)
    PROVE  /\ Fair(Attach(ch, R, s), n, L)
           /\ Room(Attach(ch, R, s), n, D)
           /\ Room(Attach(ch, R, s), n, D \ {s})
<1> DEFINE new == Attach(ch, R, s)
           cap == Share(ch, n)
           waiting == Held(ch, {NoSession})
<1>1. /\ DOMAIN new = DOMAIN ch
      /\ \A c \in DOMAIN ch : new[c].session = IF c \in R THEN s ELSE ch[c].session
  BY DEF Attach, Map, Entry
<1>2. Unattached(ch) = waiting
  BY DEF Unattached, Attached, Held
<1>3. /\ R \subseteq waiting /\ R \subseteq DOMAIN ch
      /\ IF Cardinality(waiting) <= cap THEN R = waiting ELSE Cardinality(R) = cap
  <2>1. /\ R \subseteq Unattached(ch)
        /\ IF Cardinality(Unattached(ch)) <= cap THEN R = Unattached(ch)
                                                 ELSE Cardinality(R) = cap
    BY DEF Reservations
  <2>2. Unattached(ch) \subseteq DOMAIN ch
    BY DEF Unattached
  <2> HIDE DEF waiting, cap
  <2> QED
    BY <1>2, <2>1, <2>2
<1>4. \A c \in DOMAIN ch : ch[c].session # s
  BY DEF HeldBy
<1>5. cap \in Nat /\ s # NoSession
  BY ShareFacts
<1>6. /\ IsFiniteSet(R) /\ Cardinality(R) \in Nat /\ Cardinality(R) <= cap
      /\ Cardinality(waiting) \in Nat
  BY <1>3, <1>5, HeldFacts, FS_Subset, FS_CardinalityType
<1> HIDE DEF new, cap
<1>7. Share(new, n) = cap
  BY <1>1 DEF Share, cap
<1>8. ASSUME NEW E \in SUBSET L
      PROVE  Cardinality(Held(new, E)) <= cap * Cardinality(E)
  <2> DEFINE K == Held(ch, E \ {s})
  <2>1. IsFiniteSet(E)
    BY FS_Subset
  <2>2. IsFiniteSet(K) /\ Cardinality(K) \in Nat
    BY HeldFacts
  <2>3. Cardinality(K) <= cap * Cardinality(E \ {s})
    BY DEF Fair, cap
  <2>4. CASE s \in E
    <3>1. Held(new, E) = K \cup R
      BY <1>1, <1>3, <1>4, <2>4 DEF Held
    <3>2. Cardinality(K \cup R) <= Cardinality(K) + Cardinality(R)
          /\ Cardinality(K \cup R) \in Nat
      <4>1. /\ Cardinality(K \cup R) = Cardinality(K) + Cardinality(R) - Cardinality(K \cap R)
            /\ IsFiniteSet(K \cap R) /\ IsFiniteSet(K \cup R)
        BY <1>6, <2>2, FS_Union, FS_Intersection
      <4> QED
        BY <1>6, <2>2, <4>1, FS_CardinalityType
    <3>3. /\ cap * Cardinality(E) = cap * Cardinality(E \ {s}) + cap
          /\ cap * Cardinality(E \ {s}) \in Nat
      BY <1>5, <2>1, <2>4, SharesOf, FS_RemoveElement
    <3> HIDE DEF K
    <3> QED
      BY <1>5, <1>6, <2>2, <2>3, <3>1, <3>2, <3>3
  <2>5. CASE s \notin E
    <3>1. Held(new, E) = K
      BY <1>1, <1>3, <1>4, <2>5 DEF Held
    <3>2. E \ {s} = E
      BY <2>5
    <3> QED
      BY <2>3, <3>1, <3>2
  <2> QED
    BY <2>4, <2>5
<1>9. Room(new, n, D)
  <2>1. Held(new, D \cup {NoSession}) = Held(ch, D \cup {NoSession})
    BY <1>1, <1>3 DEF Held
  <2> QED
    BY <1>7, <2>1 DEF Room, cap
<1>10. Room(new, n, D \ {s})
  <2> DEFINE W == Held(ch, D \cup {NoSession})
             rest == cap * Cardinality(D \ {s})
  <2>1. Held(new, (D \ {s}) \cup {NoSession}) = W \ R
    BY <1>1, <1>3, <1>4, <1>5 DEF Held
  <2>2. cap * Cardinality(D) = rest + cap /\ rest \in Nat
    <3>1. IsFiniteSet(D) /\ IsFiniteSet(D \ {s})
      BY FS_Subset
    <3> QED
      BY <1>5, <3>1, SharesOf
  <2>3. IsFiniteSet(W) /\ Cardinality(W) \in Nat /\ Cardinality(W) <= cap * Cardinality(D)
    BY HeldFacts DEF Room, cap
  <2>4. Cardinality(W \ R) <= rest
    <3>1. CASE Cardinality(waiting) <= cap
      <4>1. W \ R = Held(ch, D \ {s})
        BY <1>3, <1>4, <3>1 DEF Held
      <4> QED
        BY <4>1 DEF Fair, cap
    <3>2. CASE ~ (Cardinality(waiting) <= cap)
      <4>1. Cardinality(R) = cap
        BY <1>3, <3>2
      <4>2. W \cap R = R
        BY <1>3 DEF Held
      <4>3. Cardinality(W \ R) = Cardinality(W) - Cardinality(R)
        BY <2>3, <4>2, FS_Difference
      <4> HIDE DEF W, rest
      <4> QED
        BY <1>5, <2>2, <2>3, <4>1, <4>3
    <3> QED
      BY <3>1, <3>2
  <2> QED
    BY <1>7, <2>1, <2>4 DEF Room
<1> QED
  BY <1>7, <1>8, <1>9, <1>10 DEF Fair, new

-----------------------------------------------------------------------------
(* Coverage, while no request disturbs the list.                           *)

\* Who reports a disconnection has closed the connection.
Closed ==
    /\ client.at = "closed" => ~ Up(client.session)
    /\ \A s \in Sessions : InClose(s) => ~ Sendable(s)

\* Closed is inductive: a session whose disconnection was begun has its socket
\* closed and cannot log in meanwhile.
LEMMA ClosedStep ==
    ASSUME TypesInv, Closed, Next
    PROVE  Closed'
<1> USE DEF account, net, history
<1>0. SessionTypes /\ MailTypes /\ ThreadTypes /\ AtSession
  BY TypeParts DEF TypesInv
<1>1. CASE /\ \A s \in Sessions : conn'[s].net = conn[s].net /\ selector'[s].at = selector[s].at
           /\ client' = client
  BY <1>0, <1>1 DEF Closed, Up, Sendable, InClose, AtSession, ThreadTypes
<1>2. ASSUME ClientStep
      PROVE  Closed'
  <2>1. CASE EvtConnect
    BY <1>0, <2>1, TakenTypes, MessageFields
       DEF EvtConnect, TakeFor, Closed, Up, Sendable, InClose, SessionTypes, ThreadTypes, Known
  <2>2. CASE \/ EvtConnected \/ EvtLoggedInCheck \/ EvtSendPING \/ EvtAddChannel
             \/ EvtReloaded \/ ClientReport
    <3>1. selector' = selector /\ client'.at # "closed"
      BY <2>2 DEF EvtConnected, EvtLoggedInCheck, EvtSendPING, EvtAddChannel, EvtReloaded,
         ClientReport, Idle
    <3>2. CASE EvtConnected
      BY <1>0, <3>1, <3>2
         DEF EvtConnected, Renewed, SessionTypes, Known, Closed, Sendable, InClose
    <3>3. CASE EvtSendPING
      BY <1>0, <3>1, <3>3
         DEF EvtSendPING, SessionTypes, Known, Closed, Sendable, InClose
    <3>4. CASE EvtLoggedInCheck \/ EvtAddChannel \/ EvtReloaded \/ ClientReport
      BY <3>1, <3>4 DEF EvtLoggedInCheck, EvtAddChannel, EvtReloaded, ClientReport, Closed,
         Sendable, InClose
    <3> QED
      BY <2>2, <3>2, <3>3, <3>4
  <2>3. CASE EvtReload
    <3>1. /\ client'.at = "reloading" /\ selector' = selector
          /\ \A s \in Sessions : conn'[s].net = "init" \/ conn'[s] = conn[s]
      BY <1>0, <2>3, DisconnectedFacts DEF EvtReload
    <3> QED
      BY <3>1 DEF Closed, Sendable, InClose
  <2>4. CASE EvtFinish
    <3>1. /\ client'.at = "stopped" /\ selector' = selector
          /\ \A s \in Sessions : conn'[s].net = "init" \/ conn'[s] = conn[s]
      BY <1>0, <2>4, DisconnectedFacts DEF EvtFinish
    <3> QED
      BY <3>1 DEF Closed, Sendable, InClose
  <2>5. CASE ClientClose
    <3>1. client.session \in Sessions
      BY <1>0, <2>5 DEF ClientClose, AtSession, ThreadTypes
    <3>2. /\ client'.session = client.session /\ selector' = selector
          /\ \A s \in Sessions : conn'[s].net = "init" \/ conn'[s] = conn[s]
          /\ conn'[client.session].net = "init"
      BY <1>0, <2>5, <3>1, DisconnectedFacts DEF ClientClose, Close, ThreadTypes
    <3> QED
      BY <3>1, <3>2 DEF Closed, Up, Sendable, InClose
  <2>6. CASE \/ EvtConnectUp \/ EvtConnectFails \/ EvtChannelJoined \/ EvtAllJoined \/ EvtRejoin
             \/ EvtSendMessage \/ EvtOutOfRange
             \/ EvtLeaveUnknown \/ EvtLeaveChannel \/ EvtShutdown \/ EvtFreed
    BY <1>1, <2>6 DEF EvtConnectUp, EvtConnectFails, EvtChannelJoined, EvtAllJoined, EvtRejoin,
       EvtSendMessage, EvtOutOfRange, EvtLeaveUnknown, EvtLeaveChannel, EvtShutdown, EvtFreed
  <2>7. CASE EvtJoinChannel
    <3>1. /\ UNCHANGED <<conn, selector>> /\ client'.at # "closed"
      BY <2>7 DEF EvtJoinChannel, Take, At
    <3> QED
      BY <3>1 DEF Closed, Sendable, InClose
  <2> QED
    BY <1>2, <2>1, <2>2, <2>3, <2>4, <2>5, <2>6, <2>7 DEF ClientStep
<1>3. ASSUME NEW s \in Sessions, SelectorStep(s)
      PROVE  Closed'
  <2>1. client' = client
    BY <1>3 DEF SelectorStep, SelectorClose, SelectorReport, SelectorLogged,
       SelectorReserve, SelectorDivides, SelectorJoin, SelectorSync
  <2>2. \A t \in Sessions : conn'[t].net = "init" \/ conn'[t].net = conn[t].net
    BY <1>0, <1>3, DisconnectedFacts
       DEF SelectorStep, SelectorClose, SelectorReport, SelectorLogged, SelectorReserve,
       SelectorDivides, SelectorJoin, SelectorSync, Close, Fresh, SessionTypes, Known
  <2>3. \A t \in Sessions : selector'[t].at \in {"closing", "closed"} =>
                                selector[t].at \in {"closing", "closed"}
    BY <1>0, <1>3
       DEF SelectorStep, SelectorClose, SelectorReport, SelectorLogged, SelectorReserve,
       SelectorDivides, SelectorJoin, SelectorSync, SelectorAt, SelectorTo, ThreadTypes
  <2> QED
    BY <1>0, <2>1, <2>2, <2>3 DEF Closed, Up, Sendable, InClose, AtSession, ThreadTypes
<1>4. ASSUME NEW s \in Sessions, NetStep(s) \/ Race(s)
      PROVE  Closed'
  <2>1. client' = client
    BY <1>4 DEF NetStep, NetConnected, Welcome, NetLost, Silence, Answer, PingTick,
       JoinAck, JoinLost, Race
  <2>2. CASE NetConnected(s) \/ Welcome(s)
    <3>1. /\ Up(s) /\ selector[s].at = "idle" /\ ~ (selector'[s].at \in {"closing", "closed"})
          /\ \A t \in Sessions \ {s} : conn'[t] = conn[t] /\ selector'[t] = selector[t]
      BY <1>0, <2>2 DEF NetConnected, Welcome, Up, SelectorFree, SelectorAt, SelectorTo,
         ThreadTypes, SessionTypes
    <3> QED
      BY <1>0, <2>1, <3>1 DEF Closed, Up, Sendable, InClose, AtSession, ThreadTypes
  <2>3. CASE NetLost(s)
    <3>1. /\ conn'[s].net = "lost"
          /\ \A t \in Sessions \ {s} : conn'[t] = conn[t] /\ selector'[t] = selector[t]
      BY <1>0, <2>3 DEF NetLost, SelectorTo, ThreadTypes, SessionTypes, Known
    <3> QED
      BY <1>0, <2>1, <3>1 DEF Closed, Up, Sendable, InClose, AtSession, ThreadTypes
  <2>4. CASE Silence(s) \/ Answer(s) \/ PingTick(s) \/ Race(s)
             \/ \E c \in Channels : JoinAck(s, c) \/ JoinLost(s, c)
    <3>1. /\ selector' = selector
          /\ \A t \in Sessions : conn'[t].net = conn[t].net
      <4>1. CASE Silence(s) \/ Answer(s)
        BY <1>0, <4>1, SilenceFacts
      <4>2. CASE PingTick(s) \/ Race(s) \/ \E c \in Channels : JoinAck(s, c) \/ JoinLost(s, c)
        BY <4>2 DEF PingTick, Race, JoinAck, JoinLost
      <4> QED
        BY <2>4, <4>1, <4>2
    <3> QED
      BY <1>1, <2>1, <3>1
  <2> QED
    BY <1>4, <2>2, <2>3, <2>4 DEF NetStep
<1>5. ASSUME NEW s \in Sessions, NEW type \in Timers, TimerFires(type, s)
      PROVE  Closed'
  BY <1>1, <1>5 DEF TimerFires
<1>6. ASSUME NEW m \in Requests, Command(m)
      PROVE  Closed'
  BY <1>1, <1>6 DEF Command
<1> QED
  BY <1>2, <1>3, <1>4, <1>5, <1>6 DEF Next

\* A session that has yet to reserve, and the live ones of that kind
Due(s) == conn[s].net # "welcomed" \/ selector[s].at \in {"welcomed", "logged"}
Owing == {s \in Live : Due(s)}

\* Nothing resized the list or replaced the sessions.
Undisturbed == ~ twice /\ commands \subseteq {Shutdown} /\ client.at # "stopped"

Counted == sessionCount # 0 => /\ Fair(channels, sessionCount, Live)
                               /\ Room(channels, sessionCount, Owing)

Whole ==
    Undisturbed =>
        /\ Live # {} /\ \A s \in Sessions : life[s] \in {"live", "unborn"}
        /\ sessionCount = 0 => Owing = Live
        /\ Counted

\* What a step that reserves nothing and reports nothing does.
LEMMA SameWhole ==
    ASSUME Whole, Undisturbed, TypesInv, UNCHANGED <<sessionCount, life>>,
           SameOwners(channels, channels'),
           NEW s \in Live, Owing' \subseteq Owing \cup {s}, Owing \subseteq Owing'
    PROVE  Whole'
<1>1. /\ Live' = Live /\ Live \in SUBSET Sessions /\ Owing \in SUBSET Live
      /\ Owing' \in SUBSET Live
  BY DEF Live, Owing
<1>2. IsFiniteSet(Live) /\ IsFiniteSet(DOMAIN channels) /\ sessionCount \in Nat
  BY <1>1, FS_Subset, ClientAssumption, TypeParts DEF TypesInv, MapTypes, ConfigTypes
<1>3. CASE sessionCount = 0
  BY <1>1, <1>3 DEF Whole, Counted
<1>4. CASE sessionCount # 0
  <2>1. Owing' = Owing \/ Owing' = Owing \cup {s}
    OBVIOUS
  <2>2. /\ Fair(channels, sessionCount, Live) /\ Room(channels, sessionCount, Owing)
        /\ Room(channels, sessionCount, Owing \cup {s})
    BY <1>1, <1>2, <1>4, OneMoreDue DEF Whole, Counted
  <2>3. \A D : Room(channels, sessionCount, D) => Room(channels', sessionCount, D)
    BY SameCounts
  <2>4. Fair(channels', sessionCount, Live)
    BY <2>2, SameCounts
  <2>5. Room(channels', sessionCount', Owing')
    BY <2>1, <2>2, <2>3
  <2>6. Counted'
    BY <1>1, <2>4, <2>5 DEF Counted
  <2> QED
    BY <1>1, <1>4, <2>6 DEF Whole
<1> QED
  BY <1>3, <1>4

\* Whole is inductive: a login takes one share of what waits, and what a
\* disconnection gives back has room in the share of the session that lost it.
LEMMA WholeStep ==
    ASSUME TypesInv, Unborn, Requested, Leaving, Closed, Whole, Next
    PROVE  Whole'
<1> USE DEF account, net, history
<1> SUFFICES ASSUME Undisturbed'
             PROVE  Whole'
  BY DEF Whole
<1>0. /\ SessionTypes /\ MailTypes /\ ThreadTypes /\ MapTypes /\ ConfigTypes /\ AtSession
      /\ Map(channels) /\ IsFiniteSet(DOMAIN channels)
      /\ IsFiniteSet(Live) /\ NoSession \notin Live /\ Live \subseteq Sessions
      /\ IsFiniteSet(Owing) /\ Owing \subseteq Live
  BY TypeParts, FS_Subset, ClientAssumption
     DEF TypesInv, MapTypes, MapOK, Map, Live, Owing
<1>1. Undisturbed
  <2>2. ~ twice
    BY DEF Undisturbed, Next, ClientStep, EvtConnectUp, EvtConnect, EvtLoggedInCheck,
       EvtSendPING, EvtChannelJoined, EvtAllJoined, EvtJoinChannel, EvtAddChannel, EvtSendMessage,
       EvtOutOfRange, EvtLeaveUnknown, EvtLeaveChannel, EvtConnectFails, EvtConnected, EvtRejoin,
       EvtReload, EvtReloaded, EvtShutdown, EvtFinish, EvtFreed, ClientClose, ClientReport, SelectorStep, SelectorClose,
       SelectorReport, SelectorLogged, SelectorReserve, SelectorDivides, SelectorJoin,
       SelectorSync, NetStep, NetConnected, Welcome, NetLost, Silence, Answer, PingTick,
       JoinAck, JoinLost, Race, TimerFires, Command
  <2>3. commands \subseteq commands' /\ (client.at = "stopped" => client' = client)
    BY DEF Next, ClientStep, EvtConnectUp, EvtConnect, EvtLoggedInCheck, EvtSendPING,
       EvtChannelJoined, EvtAllJoined, EvtJoinChannel, EvtAddChannel, EvtSendMessage,
       EvtOutOfRange, EvtLeaveUnknown, EvtLeaveChannel, EvtConnectFails, EvtConnected, EvtRejoin,
       EvtReload, EvtReloaded, EvtShutdown, EvtFinish, EvtFreed,
       ClientClose, ClientReport, SelectorStep, SelectorClose, SelectorReport, SelectorLogged,
       SelectorReserve, SelectorDivides, SelectorJoin, SelectorSync, NetStep, NetConnected,
       Welcome, NetLost, Silence, Answer, PingTick, JoinAck, JoinLost, Race, TimerFires,
       Command, Take, TakeFor, At
  <2> QED
    BY <2>2, <2>3 DEF Undisturbed
<1>2. Live # {} /\ \A s \in Sessions : life[s] \in {"live", "unborn"}
  BY <1>1 DEF Whole
<1>3. ASSUME UNCHANGED <<sessionCount, life>>, SameOwners(channels, channels'),
             \A s \in Sessions :
                 /\ \/ conn'[s].net = conn[s].net
                    \/ conn[s].net # "welcomed" /\ conn'[s].net # "welcomed"
                 /\ selector'[s].at = selector[s].at
      PROVE  Whole'
  <2>1. Owing' = Owing
    BY <1>3 DEF Owing, Due, Live
  <2> QED
    BY <1>1, <1>2, <1>3, <2>1, SameWhole
<1>4. ASSUME UNCHANGED <<sessionCount, life>>, SameOwners(channels, channels'),
             NEW s \in Sessions, life[s] = "live", Due(s)',
             \A t \in Sessions \ {s} : conn'[t] = conn[t] /\ selector'[t] = selector[t]
      PROVE  Whole'
  <2>1. Live' = Live /\ s \in Live
    BY <1>4 DEF Live
  <2>2. Owing' = Owing \cup {s}
    BY <1>4, <2>1 DEF Owing, Due, Live
  <2> QED
    BY <1>1, <1>4, <2>1, <2>2, SameWhole
<1>5. SameOwners(channels, channels)
  BY DEF SameOwners
\* A disconnection is reported of a session that is due, before and after.
<1>6. ASSUME UNCHANGED <<sessionCount, life, conn>>, NEW s \in Sessions, life[s] = "live",
             conn[s].net # "welcomed", channels' = DetachFrom(channels, s),
             \A t \in Sessions \ {s} : selector'[t] = selector[t]
      PROVE  Whole'
  <2>1. Live' = Live /\ Owing' = Owing /\ s \in Owing
    BY <1>6 DEF Live, Owing, Due
  <2>2. ASSUME sessionCount # 0
        PROVE  Counted'
    <3>1. /\ sessionCount \in Nat \ {0} /\ Fair(channels, sessionCount, Live)
          /\ Room(channels, sessionCount, Owing)
      BY <1>0, <1>1, <2>2 DEF Whole, Counted, ConfigTypes
    <3>2. /\ Fair(DetachFrom(channels, s), sessionCount, Live)
          /\ Room(DetachFrom(channels, s), sessionCount, Owing)
      BY <1>0, <2>1, <3>1, DetachCounts
    <3> QED
      BY <1>6, <2>1, <3>2 DEF Counted
  <2> QED
    BY <1>1, <1>2, <1>6, <2>1, <2>2 DEF Whole, Counted
<1>7. ASSUME ClientStep
      PROVE  Whole'
  <2> DEFINE h == Head(mailbox)
  <2>1. CASE EvtAddChannel \/ EvtLeaveChannel \/ EvtReload
    <3>1. Has(mailbox, h) /\ h \in Message /\ h.type \in {"JoinChannel", "LeaveChannel", "Reload"}
      BY <1>0, <2>1, TailFacts DEF EvtAddChannel, EvtLeaveChannel, EvtReload, Take, At,
         MailTypes
    <3>2. h \in commands
      BY <3>1, PendingIs DEF Requested
    <3> QED
      BY <1>1, <3>1, <3>2 DEF Undisturbed, Shutdown
  <2>2. CASE EvtFinish
    BY <2>2 DEF EvtFinish, Undisturbed
  <2>3. CASE EvtConnect
    <3>1. UNCHANGED <<sessionCount, life, channels, selector>>
      BY <2>3 DEF EvtConnect
    <3>2. \A s \in Sessions : \/ conn'[s].net = conn[s].net
                              \/ conn[s].net # "welcomed" /\ conn'[s].net # "welcomed"
      BY <1>0, <2>3 DEF EvtConnect, SessionTypes, Known
    <3> QED
      BY <1>3, <1>5, <3>1, <3>2
  <2>4. CASE EvtConnected \/ EvtSendPING
    <3>1. UNCHANGED <<sessionCount, life, channels, selector>>
      BY <2>4 DEF EvtConnected, EvtSendPING
    <3>2. CASE EvtConnected
      <4>1. \A s \in Sessions : conn'[s].net = conn[s].net
        BY <1>0, <3>2 DEF EvtConnected, SessionTypes, Known, Renewed
      <4> QED
        BY <1>3, <1>5, <3>1, <4>1
    <3>3. CASE EvtSendPING
      <4>1. \A s \in Sessions : conn'[s].net = conn[s].net
        BY <1>0, <3>3 DEF EvtSendPING, SessionTypes, Known
      <4> QED
        BY <1>3, <1>5, <3>1, <4>1
    <3> QED
      BY <2>4, <3>2, <3>3
  <2>5. CASE EvtChannelJoined
    <3>1. UNCHANGED <<sessionCount, life, conn, selector>>
      BY <2>5 DEF EvtChannelJoined
    <3>2. SameOwners(channels, channels')
      BY <1>0, <2>5 DEF EvtChannelJoined, MarkJoined, SameOwners, Map, Entry
    <3> QED
      BY <1>3, <3>1, <3>2
  <2>6. CASE ClientClose
    <3> DEFINE s == client.session
    <3>1. s \in Sessions /\ life[s] = "live"
      BY <1>0, <1>2, <2>6 DEF ClientClose, AtSession, ThreadTypes, Unborn, Absent
    <3>2. /\ UNCHANGED <<sessionCount, life, channels, selector>>
          /\ conn'[s].net = "init"
          /\ \A t \in Sessions \ {s} : conn'[t] = conn[t]
      BY <1>0, <2>6, <3>1, DisconnectedFacts DEF ClientClose, Close
    <3>3. PICK t \in Sessions : t = s
      BY <3>1
    <3>4. Due(t)'
      BY <3>2, <3>3 DEF Due
    <3> QED
      BY <1>4, <1>5, <3>1, <3>2, <3>3, <3>4
  <2>7. CASE ClientReport
    <3> DEFINE s == client.session
    <3>1. s \in Sessions /\ life[s] = "live"
      BY <1>0, <1>2, <2>7 DEF ClientReport, AtSession, ThreadTypes, Unborn, Absent
    <3>2. /\ UNCHANGED <<sessionCount, life, conn, selector>>
          /\ channels' = DetachFrom(channels, s) /\ conn[s].net # "welcomed"
      BY <2>7 DEF ClientReport, Report, Closed, Up
    <3> QED
      BY <1>6, <3>1, <3>2
  <2>8. CASE \/ EvtConnectUp \/ EvtConnectFails \/ EvtLoggedInCheck \/ EvtAllJoined \/ EvtRejoin
             \/ EvtJoinChannel \/ EvtSendMessage \/ EvtOutOfRange
             \/ EvtLeaveUnknown \/ EvtShutdown \/ EvtFreed
    <3>1. UNCHANGED <<sessionCount, life, channels, conn, selector>>
      BY <2>8 DEF EvtConnectUp, EvtConnectFails, EvtLoggedInCheck, EvtAllJoined, EvtRejoin,
         EvtJoinChannel, EvtSendMessage, EvtOutOfRange, EvtLeaveUnknown, EvtShutdown, EvtFreed
    <3> QED
      BY <1>3, <1>5, <3>1
  <2>9. CASE EvtReloaded
    BY <1>1, <2>9 DEF EvtReloaded, Leaving, Asked, Undisturbed, Shutdown
  <2> QED
    BY <1>7, <2>1, <2>2, <2>3, <2>4, <2>5, <2>6, <2>7, <2>8, <2>9 DEF ClientStep
<1>8. ASSUME NEW s \in Sessions, SelectorStep(s)
      PROVE  Whole'
  <2>1. selector[s].at # "idle" => life[s] = "live"
    BY <1>2 DEF Unborn, Absent
  <2>2. CASE SelectorClose(s)
    <3>1. /\ UNCHANGED <<sessionCount, life, channels>>
          /\ conn'[s].net = "init" /\ life[s] = "live"
          /\ \A t \in Sessions \ {s} : conn'[t] = conn[t] /\ selector'[t] = selector[t]
      BY <1>0, <2>1, <2>2, DisconnectedFacts
         DEF SelectorClose, SelectorAt, SelectorTo, Close, ThreadTypes
    <3> QED
      BY <1>4, <1>5, <3>1 DEF Due
  <2>3. CASE SelectorReport(s)
    <3>1. /\ UNCHANGED <<sessionCount, life, conn>>
          /\ life[s] = "live" /\ conn[s].net # "welcomed"
          /\ channels' = DetachFrom(channels, s)
          /\ \A t \in Sessions \ {s} : selector'[t] = selector[t]
      BY <1>0, <2>1, <2>3 DEF SelectorReport, Report, SelectorAt, SelectorTo, ThreadTypes,
         Closed, InClose, Sendable
    <3> QED
      BY <1>6, <3>1
  <2>4. CASE SelectorLogged(s)
    <3>1. /\ UNCHANGED <<sessionCount, life, channels>> /\ life[s] = "live"
          /\ selector'[s].at = "logged"
          /\ \A t \in Sessions \ {s} : conn'[t] = conn[t] /\ selector'[t] = selector[t]
      BY <1>0, <2>1, <2>4 DEF SelectorLogged, SelectorAt, SelectorTo, ThreadTypes, SessionTypes
    <3> QED
      BY <1>4, <1>5, <3>1 DEF Due
  <2>5. CASE SelectorReserve(s)
    <3>1. PICK R \in Reservations(channels, sessionCount) :
              /\ channels' = Attach(channels, R, s)
              /\ selector' = [selector EXCEPT ![s] = [at |-> "reserved", list |-> R]]
      BY <2>5 DEF SelectorReserve
    <3>2. /\ UNCHANGED <<sessionCount, life, conn>> /\ sessionCount \in Nat \ {0}
          /\ life[s] = "live" /\ Due(s)
      BY <1>0, <2>1, <2>5 DEF SelectorReserve, SelectorAt, ConfigTypes, Due
    <3>3. HeldBy(channels, s) = {}
      BY <2>5 DEF SelectorReserve, Undisturbed
    <3>4. Live' = Live /\ s \in Owing
      BY <3>2 DEF Live, Owing
    <3>5. Owing' = Owing \/ Owing' = Owing \ {s}
      <4>1. \A t \in Sessions \ {s} : selector'[t] = selector[t]
        BY <1>0, <3>1 DEF ThreadTypes
      <4>2. \A t \in Sessions \ {s} : Due(t)' <=> Due(t)
        BY <3>2, <4>1 DEF Due
      <4> HIDE DEF Due
      <4> QED
        BY <1>0, <3>4, <4>2 DEF Owing
    <3>6. Fair(channels, sessionCount, Live) /\ Room(channels, sessionCount, Owing)
      BY <1>1, <3>2 DEF Whole, Counted
    <3>7. /\ Fair(channels', sessionCount, Live)
          /\ Room(channels', sessionCount, Owing)
          /\ Room(channels', sessionCount, Owing \ {s})
      BY <1>0, <3>1, <3>2, <3>3, <3>4, <3>6, ReserveCounts
    <3>8. Counted'
      BY <3>2, <3>4, <3>5, <3>7 DEF Counted
    <3> QED
      BY <1>2, <3>2, <3>4, <3>8 DEF Whole
  <2>6. CASE SelectorJoin(s)
    <3>1. UNCHANGED <<sessionCount, life, channels>>
      BY <2>6 DEF SelectorJoin
    <3>2. Live' = Live /\ Owing' = Owing
      <4>1. \A t \in Sessions : Due(t)' <=> Due(t)
        BY <1>0, <2>6 DEF SelectorJoin, SelectorAt, Due, ThreadTypes, SessionTypes, Known
      <4> HIDE DEF Due
      <4> QED
        BY <1>0, <3>1, <4>1 DEF Live, Owing
    <3> QED
      BY <1>1, <1>2, <1>5, <3>1, <3>2, SameWhole
  <2>7. CASE SelectorDivides(s)
    <3>1. UNCHANGED <<sessionCount, life, channels, conn, selector>>
      BY <2>7 DEF SelectorDivides
    <3> QED
      BY <1>3, <1>5, <3>1
  <2>8. CASE SelectorSync(s)
    BY <1>2, <2>8 DEF SelectorSync, LetGo
  <2> QED
    BY <1>8, <2>2, <2>3, <2>4, <2>5, <2>6, <2>7, <2>8 DEF SelectorStep
<1>9. ASSUME NEW s \in Sessions, NetStep(s) \/ Race(s)
      PROVE  Whole'
  <2>1. UNCHANGED <<sessionCount, life, channels>>
    BY <1>9 DEF NetStep, NetConnected, Welcome, NetLost, Silence, Answer, PingTick,
       JoinAck, JoinLost, Race
  <2>2. CASE NetConnected(s) \/ Welcome(s) \/ NetLost(s)
    <3>1. life[s] = "live"
      BY <1>2, <2>2 DEF NetConnected, Welcome, NetLost, Up, Unborn, Absent
    <3>2. /\ conn'[s].net # "welcomed" \/ selector'[s].at = "welcomed"
          /\ \A t \in Sessions \ {s} : conn'[t] = conn[t] /\ selector'[t] = selector[t]
      BY <1>0, <2>2 DEF NetConnected, Welcome, NetLost, SelectorTo, ThreadTypes, SessionTypes,
         Known
    <3> QED
      BY <1>4, <1>5, <2>1, <3>1, <3>2 DEF Due
  <2>3. CASE Silence(s) \/ Answer(s) \/ PingTick(s) \/ Race(s)
             \/ \E c \in Channels : JoinAck(s, c) \/ JoinLost(s, c)
    <3>1. /\ selector' = selector
          /\ \A t \in Sessions : conn'[t].net = conn[t].net
      <4>1. CASE Silence(s) \/ Answer(s)
        BY <1>0, <4>1, SilenceFacts
      <4>2. CASE PingTick(s) \/ Race(s) \/ \E c \in Channels : JoinAck(s, c) \/ JoinLost(s, c)
        BY <4>2 DEF PingTick, Race, JoinAck, JoinLost
      <4> QED
        BY <2>3, <4>1, <4>2
    <3> QED
      BY <1>3, <1>5, <2>1, <3>1
  <2> QED
    BY <1>9, <2>2, <2>3 DEF NetStep
<1>10. ASSUME NEW s \in Sessions, NEW type \in Timers, TimerFires(type, s)
       PROVE  Whole'
  BY <1>3, <1>5, <1>10 DEF TimerFires
<1>11. ASSUME NEW m \in Requests, Command(m)
       PROVE  Whole'
  BY <1>3, <1>5, <1>11 DEF Command
<1> QED
  BY <1>7, <1>8, <1>9, <1>10, <1>11 DEF Next

\* The inductive invariant behind CoveredWhenSettled: while no request disturbs
\* the list and no session reserved twice, no session holds more than a share and
\* the channels that wait fit the sessions still to reserve, also in the middle
\* of a disconnection by either thread.
THEOREM WholeInvariant == Spec => [](TypesInv /\ Closed /\ Whole)
<1>1. Init => Closed /\ Whole
  <2> SUFFICES ASSUME Init PROVE Closed /\ Whole
    OBVIOUS
  <2> DEFINE S == FirstOf(Sessions, sessionCount)
  <2>1. TypesInv
    BY InitTypes
  <2>2. Closed
    BY DEF Init, Closed, Idle, InClose
  <2>3. /\ S \in SUBSET Sessions /\ Live = S
        /\ Cardinality(S) = AtLeastOne(sessionCount)
        /\ \A s \in Sessions : life[s] \in {"live", "unborn"}
    BY DEF Init, Live, FirstOf
  <2>4. sessionCount \in Nat /\ IsFiniteSet(Live) /\ NoSession \notin Live
        /\ IsFiniteSet(DOMAIN channels)
    BY <2>1, <2>3, TypeParts, ClientAssumption, FS_Subset DEF TypesInv, ConfigTypes, MapTypes
  <2> HIDE DEF S
  <2>5. Live # {}
    BY <2>3, <2>4, FS_EmptySet DEF AtLeastOne
  <2>6. Owing = Live
    BY DEF Init, Owing, Due, Fresh, Live
  <2>7. \A c \in DOMAIN channels : channels[c].session = NoSession
    BY DEF Init, Load, Detached
  <2>8. Counted
    <3> SUFFICES ASSUME sessionCount # 0
                 PROVE  /\ Fair(channels, sessionCount, Live)
                        /\ Room(channels, sessionCount, Owing)
      BY DEF Counted
    <3>1. Cardinality(Live) = sessionCount
      BY <2>3 DEF AtLeastOne
    <3>2. Held(channels, Owing \cup {NoSession}) = DOMAIN channels
      BY <2>7 DEF Held
    <3>3. /\ Share(channels, sessionCount) \in Nat
          /\ Cardinality(DOMAIN channels) <= Share(channels, sessionCount) * sessionCount
      BY <2>4, ShareFacts
    <3>4. ASSUME NEW E \in SUBSET Live
          PROVE  Cardinality(Held(channels, E)) <= Share(channels, sessionCount) * Cardinality(E)
      <4>1. Held(channels, E) = {}
        BY <2>4, <2>7 DEF Held
      <4>2. IsFiniteSet(E)
        BY <2>4, FS_Subset
      <4>3. Share(channels, sessionCount) * Cardinality(E) \in Nat
        BY <3>3, <4>2, SharesOf
      <4> QED
        BY <4>1, <4>3, FS_EmptySet
    <3> QED
      BY <2>6, <3>1, <3>2, <3>3, <3>4 DEF Fair, Room
  <2> QED
    BY <2>2, <2>3, <2>5, <2>6, <2>8 DEF Whole
<1>2. DrivenInv /\ CheckedInv /\ Leaving /\ Closed /\ Whole /\ [Next]_vars => Closed' /\ Whole'
  <2> SUFFICES ASSUME DrivenInv, CheckedInv, Leaving, Closed, Whole, [Next]_vars
               PROVE  Closed' /\ Whole'
    OBVIOUS
  <2>1. CASE Next
    BY <2>1, ClosedStep, WholeStep DEF DrivenInv, CheckedInv
  <2>2. CASE UNCHANGED vars
    BY <2>2 DEF vars, account, net, history, Closed, Up, InClose, Sendable, Whole, Undisturbed,
       Counted, Owing, Live, Due
  <2> QED
    BY <2>1, <2>2
<1>3. DrivenInv => TypesInv
  BY DEF DrivenInv
<1> QED
  BY <1>1, <1>2, <1>3, DrivenInvariant, CheckedInvariant, LeavingInvariant, PTL DEF Spec

\* With every session logged in and no callback under way, every channel of the
\* loaded list has a session: the two threads may both disconnect a session, and
\* a login may come late, as long as none reserves for a session that still
\* holds channels.
THEOREM ClientCovered == Spec => []CoveredWhenSettled
<1>1. TypesInv /\ Closed /\ Whole => CoveredWhenSettled
  <2> SUFFICES ASSUME TypesInv, Whole, Settled, ~ twice, commands \subseteq {Shutdown}
               PROVE  Unattached(channels) = {}
    BY DEF CoveredWhenSettled
  <2>1. Undisturbed
    BY DEF Undisturbed, Settled, Idle
  <2>2. Owing = {}
    BY DEF Owing, Due, Settled
  <2>3. sessionCount # 0 /\ Counted
    BY <2>1, <2>2 DEF Whole
  <2>4. sessionCount \in Nat \ {0} /\ IsFiniteSet(DOMAIN channels)
    BY <2>3, TypeParts, ClientAssumption, FS_Subset
       DEF TypesInv, ConfigTypes, MapTypes
  <2>5. Cardinality(Held(channels, {NoSession})) <= Share(channels, sessionCount) * 0
    <3>1. Cardinality(Owing) = 0 /\ Owing \cup {NoSession} = {NoSession}
      BY <2>2, FS_EmptySet
    <3> QED
      BY <2>3, <3>1 DEF Counted, Room
  <2>6. Share(channels, sessionCount) * 0 = 0
    BY <2>4, ShareFacts
  <2>7. Held(channels, {NoSession}) = {}
    BY <2>4, <2>5, <2>6, HeldFacts, FS_EmptySet
  <2> QED
    BY <2>7 DEF Held, Unattached, Attached
<1> QED
  BY <1>1, WholeInvariant, PTL

-----------------------------------------------------------------------------
(* What the server is asked to join. *)

\* A JOIN that goes out names a channel of the list, one that evtJoinChannel is
\* about to add, or one the login that sends it had reserved before it left the
\* list.
THEOREM ClientJoinsListed == Spec => JoinsListed
<1> DEFINE Listed(s, c) == \/ c \in DOMAIN channels'
                           \/ client'.at = "adding" /\ Head(mailbox) = JoinChannel(c)
                           \/ selector[s].at = "reserved"
           Named == \A s \in Sessions, c \in Channels :
                       server[s][c] = "out" /\ server'[s][c] = "asked" => Listed(s, c)
<1>1. TypesInv /\ [Next]_vars => [Named]_vars
  <2> SUFFICES ASSUME TypesInv, Next, NEW s \in Sessions, NEW c \in Channels,
                      server[s][c] = "out", server'[s][c] = "asked"
               PROVE  Listed(s, c)
    OBVIOUS
  <2> USE DEF account, net, history
  <2>0. SessionTypes /\ MailTypes
    BY TypeParts DEF TypesInv
  <2>1. ASSUME NEW S, Disconnected(S)
        PROVE  FALSE
    BY <2>0, <2>1 DEF Disconnected, Outside, SessionTypes
  <2>2. CASE ClientStep
    <3>1. CASE EvtRejoin
      <4> DEFINE t == Head(mailbox).session
                 C == NotJoined(channels, Head(mailbox).channels)
      <4>1. server' = [server EXCEPT ![t] = AfterRejoin(t, C)] /\ channels' = channels
        BY <3>1 DEF EvtRejoin
      <4>2. C \subseteq DOMAIN channels
        BY DEF NotJoined
      <4> HIDE DEF C
      <4> QED
        BY <2>0, <4>1, <4>2 DEF AfterRejoin, SessionTypes
    <3>2. CASE EvtJoinChannel
      <4> DEFINE d == Head(mailbox).channel
      <4>1. PICK t \in Sessions :
                \/ server' = server
                \/ /\ server' = [server EXCEPT ![t] = AfterJoin(t, {d})]
                   /\ client'.at = "adding"
        BY <3>2 DEF EvtJoinChannel, Live
      <4>2. Head(mailbox) = JoinChannel(d)
        BY <2>0, <3>2, TakenTypes, MessageFields DEF EvtJoinChannel
      <4> HIDE DEF d
      <4>3. c = d /\ client'.at = "adding"
        BY <2>0, <4>1 DEF AfterJoin, SessionTypes
      <4> QED
        BY <4>2, <4>3
    <3>3. CASE EvtLeaveChannel
      BY <2>0, <3>3 DEF EvtLeaveChannel, SessionTypes
    <3>4. CASE EvtReload \/ EvtFinish \/ ClientClose
      BY <2>1, <3>4 DEF EvtReload, EvtFinish, ClientClose, Close
    <3>5. CASE \/ EvtConnectUp \/ EvtConnect \/ EvtConnectFails \/ EvtConnected
               \/ EvtLoggedInCheck \/ EvtSendPING \/ EvtChannelJoined \/ EvtAllJoined
               \/ EvtAddChannel \/ EvtSendMessage \/ EvtOutOfRange \/ EvtReloaded
               \/ EvtLeaveUnknown \/ EvtShutdown \/ EvtFreed \/ ClientReport
      BY <3>5 DEF EvtConnectUp, EvtConnect, EvtConnectFails, EvtConnected, EvtLoggedInCheck,
         EvtSendPING, EvtChannelJoined, EvtAllJoined, EvtAddChannel, EvtSendMessage,
         EvtOutOfRange, EvtReloaded, EvtLeaveUnknown, EvtShutdown, EvtFreed, ClientReport
    <3> QED
      BY <2>2, <3>1, <3>2, <3>3, <3>4, <3>5 DEF ClientStep
  <2>3. ASSUME NEW t \in Sessions, SelectorStep(t)
        PROVE  selector[s].at = "reserved"
    <3>1. CASE SelectorJoin(t)
      BY <2>0, <3>1 DEF SelectorJoin, SelectorAt, SessionTypes
    <3>2. CASE SelectorClose(t)
      BY <2>1, <3>2 DEF SelectorClose, Close
    <3>3. CASE SelectorSync(t)
      BY <2>0, <3>3 DEF SelectorSync, Outside, SessionTypes
    <3>4. CASE SelectorReport(t) \/ SelectorLogged(t) \/ SelectorReserve(t) \/ SelectorDivides(t)
      BY <3>4 DEF SelectorReport, SelectorLogged, SelectorReserve, SelectorDivides
    <3> QED
      BY <2>3, <3>1, <3>2, <3>3, <3>4 DEF SelectorStep
  <2>4. ASSUME NEW t \in Sessions, NetStep(t) \/ Race(t)
        PROVE  FALSE
    <3>1. CASE NetLost(t)
      BY <2>0, <3>1 DEF NetLost, Outside, SessionTypes
    <3>2. ASSUME NEW d \in Channels, JoinAck(t, d) \/ JoinLost(t, d)
          PROVE  FALSE
      BY <2>0, <3>2 DEF JoinAck, JoinLost, SessionTypes
    <3>3. CASE NetConnected(t) \/ Welcome(t) \/ Silence(t) \/ Answer(t) \/ PingTick(t) \/ Race(t)
      BY <3>3 DEF NetConnected, Welcome, Silence, Answer, PingTick, Race
    <3> QED
      BY <2>4, <3>1, <3>2, <3>3 DEF NetStep
  <2>5. ASSUME NEW t \in Sessions, NEW type \in Timers, TimerFires(type, t)
        PROVE  FALSE
    BY <2>5 DEF TimerFires
  <2>6. ASSUME NEW m \in Requests, Command(m)
        PROVE  FALSE
    BY <2>6 DEF Command
  <2> QED
    BY <2>2, <2>3, <2>4, <2>5, <2>6 DEF Next
<1> QED
  BY <1>1, TypesInvariant, PTL DEF Spec, JoinsListed
=============================================================================
