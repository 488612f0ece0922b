-------------------------- MODULE ChatServiceProofs --------------------------
(***************************************************************************)
(* For any number of accounts, bots and requests: the registries of        *)
(* IRCController and BotsEnvironment lose no agent, and the two maps of     *)
(* accounts agree while nicks are kept.                                     *)
(***************************************************************************)
EXTENDS ChatService, SequenceTheorems, TLAPS

-----------------------------------------------------------------------------
(* A mailbox: a sequence of whatever messages. *)

IsMailbox(q) == q \in Seq(Range(q))

\* A message put behind a mailbox.
LEMMA Sent ==
    ASSUME NEW q, IsMailbox(q), NEW m
    PROVE  /\ IsMailbox(Append(q, m))
           /\ Range(Append(q, m)) = Range(q) \cup {m}
<1> DEFINE S == Range(q) \cup {m}
<1>1. q \in Seq(S)
  BY SeqMonotonic DEF IsMailbox
<1>2. /\ Len(q) \in Nat /\ DOMAIN q = 1 .. Len(q)
      /\ Append(q, m) \in Seq(S)
      /\ DOMAIN Append(q, m) = 1 .. Len(q) + 1
      /\ \A i \in 1 .. Len(q) : Append(q, m)[i] = q[i]
      /\ Append(q, m)[Len(q) + 1] = m
  BY <1>1, AppendProperties, LenProperties
<1>3. Range(Append(q, m)) = S
  BY <1>2 DEF Range
<1> QED
  BY <1>2, <1>3 DEF IsMailbox

\* A message taken from the head of a mailbox.
LEMMA Taken ==
    ASSUME NEW q, IsMailbox(q), q # <<>>
    PROVE  /\ IsMailbox(Tail(q))
           /\ Head(q) \in Range(q)
           /\ Range(q) = Range(Tail(q)) \cup {Head(q)}
<1>1. q \in Seq(Range(q))
  BY DEF IsMailbox
<1>2. /\ Len(q) \in Nat /\ DOMAIN q = 1 .. Len(q) /\ Len(q) > 0
      /\ Tail(q) \in Seq(Range(q))
      /\ DOMAIN Tail(q) = 1 .. Len(q) - 1
      /\ \A i \in 1 .. Len(q) - 1 : Tail(q)[i] = q[i + 1]
      /\ Head(q) = q[1]
  BY <1>1, HeadTailProperties, LenProperties, EmptySeq
<1>3. Range(q) \subseteq Range(Tail(q)) \cup {Head(q)}
  <2> SUFFICES ASSUME NEW i \in DOMAIN q, q[i] # Head(q)
               PROVE  q[i] \in Range(Tail(q))
    BY DEF Range
  <2>1. i - 1 \in 1 .. Len(q) - 1 /\ Tail(q)[i - 1] = q[i]
    BY <1>2
  <2> QED
    BY <2>1, <1>2 DEF Range
<1>4. Range(Tail(q)) \subseteq Range(q) /\ Head(q) \in Range(q)
  BY <1>2 DEF Range
<1>5. Tail(q) \in Seq(Range(Tail(q)))
  <2>1. \A i \in 2 .. Len(q) : q[i] \in Range(Tail(q))
    <3> SUFFICES ASSUME NEW i \in 2 .. Len(q)
                 PROVE  q[i] \in Range(Tail(q))
      OBVIOUS
    <3>1. i - 1 \in 1 .. Len(q) - 1 /\ Tail(q)[i - 1] = q[i]
      BY <1>2
    <3> QED
      BY <3>1, <1>2 DEF Range
  <2>2. Tail(q) = SubSeq(q, 2, Len(q))
    BY <1>1, TailIsSubSeq
  <2>3. 2 \in Int /\ Len(q) \in Int
    BY <1>2
  <2>4. SubSeq(q, 2, Len(q)) \in Seq(Range(Tail(q)))
    BY <2>1, <2>3, SubSeqProperties
  <2> QED
    BY <2>2, <2>4
<1> QED
  BY <1>3, <1>4, <1>5 DEF IsMailbox

\* The empty mailbox.
LEMMA NoMail == IsMailbox(<<>>) /\ Range(<<>>) = {}
<1>1. DOMAIN <<>> = {}
  OBVIOUS
<1> QED
  BY <1>1 DEF IsMailbox, Range

-----------------------------------------------------------------------------
(* The bots. *)

EngineMail ==
    /\ queue = [e \in Bot!Engines |-> queue[e]]
    /\ \A e \in Bot!Engines : IsMailbox(queue[e])

EngineTypes ==
    /\ alive \in [Bot!Engines -> {"unborn", "running", "closing", "gone"}]
    /\ EngineMail
    /\ botsById = [b \in DOMAIN botsById |-> botsById[b]]

\* What OneEngine says, in terms of what a mailbox holds
EngineKnown ==
    \A e \in Bot!Engines :
        alive[e] = "running" =>
            e \in Bot!Agents(botsById) \/ Bot!BotShutdown \in Range(queue[e])

EngineInv == EngineTypes /\ EngineKnown

\* Engines that are not registered any more were told to go.
LEMMA OneEngineFollows == EngineInv => OneEngine
BY DEF EngineInv, EngineKnown, OneEngine, Bot!OneEngine, Range

\* A message is sent to some engines: what was in a mailbox stays there.
LEMMA EngineSend ==
    ASSUME EngineTypes, NEW E, NEW m, Bot!Send(E, m)
    PROVE  /\ EngineMail'
           /\ \A e \in Bot!Engines :
                 /\ Range(queue[e]) \subseteq Range(queue'[e])
                 /\ e \in E /\ alive[e] = "running" => m[e] \in Range(queue'[e])
<1>1. queue' = [e \in Bot!Engines |->
                   IF e \in E /\ alive[e] = "running" THEN Append(queue[e], m[e])
                   ELSE queue[e]]
  BY DEF Bot!Send
<1>2. ASSUME NEW e \in Bot!Engines
      PROVE  /\ IsMailbox(queue'[e])
             /\ Range(queue[e]) \subseteq Range(queue'[e])
             /\ e \in E /\ alive[e] = "running" => m[e] \in Range(queue'[e])
  <2>1. IsMailbox(queue[e])
    BY DEF EngineTypes, EngineMail
  <2>2. CASE e \in E /\ alive[e] = "running"
    <3>1. queue'[e] = Append(queue[e], m[e])
      BY <1>1, <2>2
    <3> QED
      BY <2>1, <3>1, Sent
  <2>3. CASE ~ (e \in E /\ alive[e] = "running")
    <3>1. queue'[e] = queue[e]
      BY <1>1, <2>3
    <3> QED
      BY <2>1, <3>1, <2>3
  <2> QED
    BY <2>2, <2>3
<1>3. queue' = [e \in Bot!Engines |-> queue'[e]]
  BY <1>1
<1> QED
  BY <1>2, <1>3 DEF EngineMail

\* An engine takes a message: the others stay.
LEMMA EngineTake ==
    ASSUME EngineTypes, NEW e \in Bot!Engines, NEW is, Bot!TakeFrom(e, is)
    PROVE  /\ EngineMail'
           /\ \A d \in Bot!Engines : \A x \in Range(queue[d]) :
                 x \in Range(queue'[d]) \/ (d = e /\ x.is = is)
<1>1. /\ queue[e] # <<>> /\ Head(queue[e]).is = is
      /\ queue' = [queue EXCEPT ![e] = Tail(queue[e])]
  BY DEF Bot!TakeFrom
<1>2. \A d \in Bot!Engines : queue'[d] = IF d = e THEN Tail(queue[e]) ELSE queue[d]
  BY <1>1 DEF EngineTypes, EngineMail
<1>3. queue' = [d \in Bot!Engines |-> queue'[d]]
  BY <1>1 DEF EngineTypes, EngineMail
<1>4. /\ IsMailbox(Tail(queue[e]))
      /\ Range(queue[e]) = Range(Tail(queue[e])) \cup {Head(queue[e])}
  BY <1>1, Taken DEF EngineTypes, EngineMail
<1>5. \A d \in Bot!Engines : IsMailbox(queue'[d])
  BY <1>2, <1>4 DEF EngineTypes, EngineMail
<1>6. ASSUME NEW d \in Bot!Engines, NEW x \in Range(queue[d])
      PROVE  x \in Range(queue'[d]) \/ (d = e /\ x.is = is)
  BY <1>1, <1>2, <1>4
<1> QED
  BY <1>3, <1>5, <1>6 DEF EngineMail

\* New bots get engines that are registered; the old ones stay so.
LEMMA EngineAdd ==
    ASSUME EngineTypes, NEW new, new \cap DOMAIN botsById = {}, Bot!AddBots(new)
    PROVE  /\ alive' \in [Bot!Engines -> {"unborn", "running", "closing", "gone"}]
           /\ botsById' = [b \in DOMAIN botsById' |-> botsById'[b]]
           /\ Bot!Agents(botsById) \subseteq Bot!Agents(botsById')
           /\ \A e \in Bot!Engines :
                 alive'[e] = "running" => alive[e] = "running" \/ e \in Bot!Agents(botsById')
<1> DEFINE made == [b \in new |-> Bot!NextEngine(b)]
           born == Bot!Agents(made)
<1>1. /\ botsById' = [b \in DOMAIN botsById \cup new |->
                         IF b \in DOMAIN botsById THEN botsById[b] ELSE made[b]]
      /\ alive' = [e \in Bot!Engines |-> IF e \in born THEN "running" ELSE alive[e]]
  BY DEF Bot!AddBots
<1> HIDE DEF made
<1>2. Bot!Agents(botsById) \subseteq Bot!Agents(botsById')
  BY <1>1 DEF Bot!Agents
<1>3. DOMAIN made = new
  BY DEF made
<1>4. born \subseteq Bot!Agents(botsById')
  BY <1>1, <1>3 DEF Bot!Agents
<1> QED
  BY <1>1, <1>2, <1>4 DEF EngineTypes

\* The engines made at start are those of the table.
LEMMA EngineInit == Init => EngineInv
<1> SUFFICES ASSUME Init
             PROVE  EngineInv
  OBVIOUS
<1>1. Bot!Init
  BY DEF Init
<1>2. EngineMail
  BY <1>1, NoMail DEF Bot!Init, EngineMail
<1> QED
  BY <1>1, <1>2 DEF Bot!Init, EngineInv, EngineTypes, EngineKnown

\* Requests about bots keep the register of engines.
LEMMA EngineRequest == EngineInv /\ Bot!BotRequest => EngineInv'
<1> SUFFICES ASSUME EngineInv, Bot!BotRequest
             PROVE  EngineInv'
  OBVIOUS
<1> USE DEF EngineInv
<1>1. ASSUME NEW b \in Bots, Bot!EvtHttpAdd(b)
      PROVE  EngineInv'
  <2>1. /\ {b} \cap DOMAIN botsById = {} /\ Bot!AddBots({b})
        /\ UNCHANGED queue
    BY <1>1 DEF Bot!EvtHttpAdd, Bot!NotAddedBot
  <2>2. EngineTypes'
    BY <2>1, EngineAdd DEF EngineTypes, EngineMail
  <2>3. EngineKnown'
    BY <2>1, EngineAdd DEF EngineKnown
  <2> QED
    BY <2>2, <2>3
<1>2. ASSUME NEW b \in Bots, Bot!EvtHttpRemove(b)
      PROVE  EngineInv'
  <2> DEFINE m == [e \in Bot!Engines |-> Bot!BotShutdown]
  <2>1. /\ b \in DOMAIN botsById /\ Bot!Send({botsById[b]}, m)
        /\ botsById' = [d \in DOMAIN botsById \ {b} |-> botsById[d]]
        /\ UNCHANGED alive
    BY <1>2 DEF Bot!EvtHttpRemove, Bot!engineVars
  <2>2. EngineTypes'
    BY <2>1, EngineSend DEF EngineTypes
  <2>3. \A e \in Bot!Agents(botsById) : e \in Bot!Agents(botsById') \/ e = botsById[b]
    BY <2>1 DEF Bot!Agents
  <2>4. \A e \in Bot!Engines : m[e] = Bot!BotShutdown
    OBVIOUS
  <2> HIDE DEF m
  <2>5. EngineKnown'
    BY <2>1, <2>3, <2>4, EngineSend DEF EngineKnown
  <2> QED
    BY <2>2, <2>5
<1>3. ASSUME NEW b \in Bots, Bot!EvtHttpReload(b)
      PROVE  EngineInv'
  <2>1. /\ Bot!Send({botsById[b]}, [e \in Bot!Engines |-> Bot!BotReload(Bot!Loaded[b])])
        /\ UNCHANGED <<botsById, alive>>
    BY <1>3 DEF Bot!EvtHttpReload
  <2> QED
    BY <2>1, EngineSend DEF EngineTypes, EngineKnown
<1>4. ASSUME Bot!EvtHttpReloadAll
      PROVE  EngineInv'
  <2> DEFINE old == {botsById[b] : b \in DOMAIN Bot!Loaded \cap DOMAIN botsById}
             new == DOMAIN Bot!Loaded \ DOMAIN botsById
  <2>1. /\ Bot!AddBots(new) /\ new \cap DOMAIN botsById = {}
        /\ Bot!Send(old, [e \in old |-> Bot!BotReload(Bot!Loaded[e[1]])])
    BY <1>4 DEF Bot!EvtHttpReloadAll
  <2> HIDE DEF old, new
  <2>2. EngineTypes'
    BY <2>1, EngineAdd, EngineSend DEF EngineTypes
  <2>3. EngineKnown'
    BY <2>1, EngineAdd, EngineSend DEF EngineKnown
  <2> QED
    BY <2>2, <2>3
<1> QED
  BY <1>1, <1>2, <1>3, <1>4 DEF Bot!BotRequest

\* What an engine does with a message keeps it.
LEMMA EngineHandles ==
    ASSUME EngineInv, NEW e \in Bot!Engines, Bot!EngineStep(e)
    PROVE  EngineInv'
<1> USE DEF EngineInv
<1>1. ASSUME NEW is, is \in {"message", "reload"}, Bot!TakeFrom(e, is),
             UNCHANGED <<alive, botsById>>
      PROVE  EngineInv'
  <2>1. Bot!BotShutdown.is = "shutdown"
    BY DEF Bot!BotShutdown
  <2> QED
    BY <1>1, <2>1, EngineTake DEF EngineTypes, EngineKnown
<1>2. CASE Bot!EvtBotMessage(e)
  BY <1>2, <1>1 DEF Bot!EvtBotMessage
<1>3. CASE Bot!EvtReload(e)
  BY <1>3, <1>1 DEF Bot!EvtReload
<1>4. CASE Bot!EvtShutdown(e)
  <2>1. /\ Bot!TakeFrom(e, "shutdown")
        /\ alive' = [alive EXCEPT ![e] = "closing"] /\ UNCHANGED botsById
    BY <1>4 DEF Bot!EvtShutdown
  <2>2. EngineTypes'
    BY <2>1, EngineTake DEF EngineTypes
  <2>3. \A d \in Bot!Engines : alive'[d] = "running" => d # e /\ alive[d] = "running"
    BY <2>1 DEF EngineTypes
  <2>4. EngineKnown'
    BY <2>1, <2>3, EngineTake DEF EngineKnown
  <2> QED
    BY <2>2, <2>4
<1>5. CASE Bot!Finished(e)
  BY <1>5 DEF Bot!Finished, EngineTypes, EngineMail, EngineKnown
<1> QED
  BY <1>2, <1>3, <1>4, <1>5 DEF Bot!EngineStep

\* EngineInv is inductive.
LEMMA EngineStep == EngineInv /\ [Next]_vars => EngineInv'
<1> SUFFICES ASSUME EngineInv, [Next]_vars
             PROVE  EngineInv'
  OBVIOUS
<1>1. ASSUME UNCHANGED <<alive, queue, botsById>>
      PROVE  EngineInv'
  BY <1>1 DEF EngineInv, EngineTypes, EngineMail, EngineKnown
<1>2. CASE UNCHANGED vars
  BY <1>1, <1>2 DEF vars, botVars
<1>3. ASSUME NEW channel \in Channels, Post(channel)
      PROVE  EngineInv'
  BY <1>1, <1>3 DEF Post, botVars
<1>4. CASE HttpRequest
  BY <1>1, <1>4, EngineRequest DEF HttpRequest, botVars
<1>5. CASE Edit
  BY <1>1, <1>5 DEF Edit, Bot!EditBots, Bot!engineVars, botVars
<1>6. CASE Answer
  BY <1>1, <1>6 DEF Answer, botVars
<1>7. CASE Deliver
  <2>1. PICK m : /\ UNCHANGED <<alive, botsById>>
                 /\ \/ UNCHANGED queue
                    \/ \E E : Bot!Send(E, [e \in E |-> Bot!BotMessage(m)])
    BY <1>7 DEF Deliver, Bot!EvtChatMessage
  <2>2. ASSUME NEW E, Bot!Send(E, [e \in E |-> Bot!BotMessage(m)])
        PROVE  EngineInv'
    BY <2>1, <2>2, EngineSend DEF EngineInv, EngineTypes, EngineKnown
  <2> QED
    BY <1>1, <2>1, <2>2
<1>8. ASSUME NEW c \in Accts!Clients, Client(c)
      PROVE  EngineInv'
  BY <1>1, <1>8 DEF Client, botVars
<1>9. ASSUME NEW e \in Bot!Engines, Engine(e)
      PROVE  EngineInv'
  BY <1>9, EngineHandles DEF Engine
<1> QED
  BY <1>2, <1>3, <1>4, <1>5, <1>6, <1>7, <1>8, <1>9 DEF Next, Working

\* No bot is ever run by two engines at once, but for one on its way out: whatever
\* is added, removed and reloaded, each engine that runs is the one its bot is
\* registered with, or its Shutdown is in its mailbox (BotsEnvironment.cpp).
THEOREM ChatOneEngine == Spec => []OneEngine
<1>1. Spec => []EngineInv
  BY EngineInit, EngineStep, PTL DEF Spec
<1> QED
  BY <1>1, OneEngineFollows, PTL

-----------------------------------------------------------------------------
(* The accounts. *)

ClientMail ==
    /\ box = [c \in Accts!Clients |-> box[c]]
    /\ \A c \in Accts!Clients : IsMailbox(box[c])

ClientTypes ==
    /\ life \in [Accts!Clients -> {"unborn", "running", "gone"}]
    /\ nick = [c \in Accts!Clients |-> nick[c]]
    /\ ClientMail
    /\ byId = [id \in DOMAIN byId |-> byId[id]]
    /\ byName = [n \in DOMAIN byName |-> byName[n]]
    /\ \A id \in DOMAIN byId : byId[id] \in Accts!Clients /\ byId[id][1] = id
    /\ \A n \in DOMAIN byName : byName[n] \in Accts!Clients

Farewells == {Accts!Shutdown, Accts!Finish}

\* What NoOrphan says, in terms of what a mailbox holds
ClientKnown ==
    \A c \in Accts!Clients :
        life[c] = "running" =>
            c \in Accts!Registered \/ Farewells \cap Range(box[c]) # {}

\* A registered client lives and is not about to leave; nothing is sent to one
\* that was not created yet.
ClientLives ==
    /\ \A c \in Accts!Registered :
          life[c] = "running" /\ Farewells \cap Range(box[c]) = {}
    /\ \A n \in DOMAIN byName : life[byName[n]] # "unborn"
    /\ \A c \in Accts!Clients : life[c] = "unborn" => Range(box[c]) = {}

\* While no client lost its name: the two maps are the same relation between
\* clients and nicks, and every Reload on its way brings the nick there is.
NicksKept ==
    misnamed = {} =>
        /\ \A n \in DOMAIN byName :
              nick[byName[n]] = n /\ byName[n] \in Accts!Registered
        /\ \A c \in Accts!Registered :
              nick[c] \in DOMAIN byName /\ byName[nick[c]] = c
        /\ \A c \in Accts!Clients : \A x \in Range(box[c]) :
              x.is = "reload" => x.nick = nick[c]

ClientInv == ClientTypes /\ ClientKnown /\ ClientLives /\ NicksKept

\* A client out of the register has a farewell in its mailbox.
LEMMA NoOrphanFollows == ClientInv => NoOrphan
BY DEF ClientInv, ClientKnown, NoOrphan, Accts!NoOrphan, Range, Farewells

\* While no nick is misnamed the two maps hold the same clients.
LEMMA MapsAgreeFollows == ClientInv => MapsAgree
<1> SUFFICES ASSUME ClientInv, misnamed = {}
             PROVE  /\ Accts!Agents(byName) = Accts!Registered
                    /\ \A n \in DOMAIN byName :
                          nick[byName[n]] = n /\ life[byName[n]] = "running"
  BY DEF MapsAgree, Accts!MapsAgree
<1>1. Accts!Agents(byName) \subseteq Accts!Registered
  BY DEF ClientInv, NicksKept, Accts!Agents
<1>2. Accts!Registered \subseteq Accts!Agents(byName)
  BY DEF ClientInv, NicksKept, Accts!Agents
<1> QED
  BY <1>1, <1>2 DEF ClientInv, NicksKept, ClientLives

\* The clients made at start are those of the table.
LEMMA ClientInit == Init => ClientInv
<1> SUFFICES ASSUME Init
             PROVE  ClientInv
  OBVIOUS
<1>1. Accts!Init
  BY DEF Init
<1>2. Accts!AtStart \subseteq Accounts /\ \A id \in Accts!AtStart : id \in DOMAIN rows
  BY <1>1, ServiceAssumption DEF Accts!Init, Accts!AtStart
<1>3. \A id \in Accts!AtStart : <<id, 1>> \in Accts!Clients
  BY <1>2, ServiceAssumption DEF Accts!Clients
<1>4. /\ DOMAIN byId = Accts!AtStart
      /\ \A id \in Accts!AtStart : byId[id] = <<id, 1>>
      /\ byId = [id \in DOMAIN byId |-> byId[id]]
  BY <1>1 DEF Accts!Init
<1>5. Accts!Registered = {<<id, 1>> : id \in Accts!AtStart}
  BY <1>4 DEF Accts!Registered, Accts!Agents
<1>6. /\ byName = [n \in DOMAIN byName |-> byName[n]]
      /\ \A n \in DOMAIN byName : \E id \in Accts!AtStart :
            rows[id] = n /\ byName[n] = <<id, 1>>
      /\ \A id \in Accts!AtStart : rows[id] \in DOMAIN byName
  <2> DEFINE first(n) == CHOOSE id \in Accts!AtStart : rows[id] = n
  <2>1. /\ byName = [n \in Accts!ActiveNames |-> <<first(n), 1>>]
        /\ Accts!ActiveNames = {rows[id] : id \in Accts!AtStart}
    BY <1>1 DEF Accts!Init, Accts!ActiveNames
  <2>2. \A n \in Accts!ActiveNames : first(n) \in Accts!AtStart /\ rows[first(n)] = n
    BY <2>1
  <2> HIDE DEF first
  <2> QED
    BY <2>1, <2>2
<1>7. \A c \in Accts!Clients :
         /\ life[c] = IF c \in Accts!Registered THEN "running" ELSE "unborn"
         /\ c \in Accts!Registered => nick[c] = rows[c[1]]
         /\ box[c] = <<>>
  BY <1>1 DEF Accts!Init, Accts!Registered
<1>8. ClientMail
  BY <1>1, NoMail DEF Accts!Init, ClientMail
<1>9. ClientTypes
  BY <1>1, <1>3, <1>4, <1>6, <1>8 DEF Accts!Init, ClientTypes
<1>10. ClientKnown /\ ClientLives
  BY <1>3, <1>5, <1>6, <1>7, NoMail DEF ClientKnown, ClientLives
<1>11. NicksKept
  <2> SUFFICES ASSUME misnamed = {}
               PROVE  /\ \A n \in DOMAIN byName :
                            nick[byName[n]] = n /\ byName[n] \in Accts!Registered
                      /\ \A c \in Accts!Registered :
                            nick[c] \in DOMAIN byName /\ byName[nick[c]] = c
    BY <1>7, NoMail DEF NicksKept
  <2>1. \A n \in DOMAIN byName : nick[byName[n]] = n /\ byName[n] \in Accts!Registered
    BY <1>3, <1>5, <1>6, <1>7
  <2>2. Accts!Registered \subseteq Accts!Agents(byName)
    BY <1>1 DEF Accts!Init, Accts!Registered
  <2> QED
    BY <2>1, <2>2 DEF Accts!Agents
<1> QED
  BY <1>9, <1>10, <1>11 DEF ClientInv

\* A message is sent to some clients: what was in a mailbox stays there, and
\* nothing else comes into it.
LEMMA ClientSend ==
    ASSUME ClientTypes, NEW C, NEW m, Accts!SendAll(C, m)
    PROVE  /\ ClientMail'
           /\ \A c \in Accts!Clients :
                 \/ Range(box'[c]) = Range(box[c])
                 \/ c \in C /\ life[c] # "gone" /\ Range(box'[c]) = Range(box[c]) \cup {m[c]}
           /\ \A c \in Accts!Clients :
                 /\ Range(box[c]) \subseteq Range(box'[c])
                 /\ (\A d \in C : life[d] # "gone") /\ c \in C => m[c] \in Range(box'[c])
<1>1. CASE \E c \in C : life[c] = "gone"
  BY <1>1 DEF Accts!SendAll, ClientTypes, ClientMail
<1>2. CASE ~ (\E c \in C : life[c] = "gone")
  <2>1. box' = [c \in Accts!Clients |->
                   IF c \in C THEN Append(box[c], m[c]) ELSE box[c]]
    BY <1>2 DEF Accts!SendAll
  <2>2. ASSUME NEW c \in Accts!Clients
        PROVE  /\ IsMailbox(box'[c])
               /\ IF c \in C THEN Range(box'[c]) = Range(box[c]) \cup {m[c]}
                  ELSE Range(box'[c]) = Range(box[c])
    <3>1. IsMailbox(box[c])
      BY DEF ClientTypes, ClientMail
    <3>2. CASE c \in C
      <4>1. box'[c] = Append(box[c], m[c])
        BY <2>1, <3>2
      <4> QED
        BY <3>1, <3>2, <4>1, Sent
    <3>3. CASE c \notin C
      <4>1. box'[c] = box[c]
        BY <2>1, <3>3
      <4> QED
        BY <3>1, <3>3, <4>1
    <3> QED
      BY <3>2, <3>3
  <2>3. box' = [c \in Accts!Clients |-> box'[c]]
    BY <2>1
  <2> QED
    BY <1>2, <2>2, <2>3 DEF ClientMail
<1> QED
  BY <1>1, <1>2

\* A client takes the message at the head of its mailbox.
LEMMA ClientTake ==
    ASSUME ClientTypes, NEW c \in Accts!Clients, box[c] # <<>>,
           box' = [box EXCEPT ![c] = Tail(box[c])]
    PROVE  /\ ClientMail'
           /\ Head(box[c]) \in Range(box[c])
           /\ \A d \in Accts!Clients :
                 /\ Range(box'[d]) \subseteq Range(box[d])
                 /\ d # c => Range(box'[d]) = Range(box[d])
           /\ Range(box[c]) = Range(box'[c]) \cup {Head(box[c])}
<1>1. \A d \in Accts!Clients : box'[d] = IF d = c THEN Tail(box[c]) ELSE box[d]
  BY DEF ClientTypes, ClientMail
<1>2. box' = [d \in Accts!Clients |-> box'[d]]
  BY DEF ClientTypes, ClientMail
<1>3. /\ IsMailbox(Tail(box[c]))
      /\ Head(box[c]) \in Range(box[c])
      /\ Range(box[c]) = Range(Tail(box[c])) \cup {Head(box[c])}
  BY Taken DEF ClientTypes, ClientMail
<1>4. \A d \in Accts!Clients : IsMailbox(box'[d])
  BY <1>1, <1>3 DEF ClientTypes, ClientMail
<1> QED
  BY <1>1, <1>2, <1>3, <1>4 DEF ClientMail

\* The messages of an account are told apart.
LEMMA Kinds ==
    /\ Accts!Shutdown.is = "shutdown" /\ Accts!Finish.is = "finish"
    /\ \A x \in Farewells : x.is \in {"shutdown", "finish"}
    /\ \A name : Accts!Reload(name).is = "reload" /\ Accts!Reload(name).nick = name
    /\ \A channel : Accts!Say(channel).is = "say"
BY DEF Accts!Shutdown, Accts!Finish, Accts!Reload, Accts!Say, Farewells

\* account add registers a new client by id and by nick.
LEMMA AccountAdd ==
    ASSUME ClientInv, NEW id, Accts!EvtHttpAccountAdd(id)
    PROVE  ClientInv'
<1> USE DEF ClientInv
<1>1. PICK c \in Accts!Clients :
         /\ c[1] = id /\ life[c] = "unborn"
         /\ byName' = [n \in DOMAIN byName \cup {rows[id]} |->
                          IF n \in DOMAIN byName THEN byName[n] ELSE c]
         /\ byId' = [j \in DOMAIN byId \cup {id} |-> IF j \in DOMAIN byId THEN byId[j] ELSE c]
         /\ misnamed' = IF rows[id] \in DOMAIN byName THEN misnamed \cup {c} ELSE misnamed
         /\ nick' = [nick EXCEPT ![c] = rows[id]]
         /\ life' = [life EXCEPT ![c] = "running"]
  BY DEF Accts!EvtHttpAccountAdd, Accts!AddNewIrcClient, Accts!NextClient, Accts!Emplaced
<1>2. id \notin DOMAIN byId /\ UNCHANGED box
  BY DEF Accts!EvtHttpAccountAdd, Accts!NotAdded
<1>3. Accts!Registered' = Accts!Registered \cup {c} /\ c \notin Accts!Registered
  BY <1>1, <1>2 DEF Accts!Registered, Accts!Agents, ClientLives
<1>4. ClientTypes'
  BY <1>1, <1>2 DEF ClientTypes, ClientMail
<1>5. /\ \A d \in Accts!Clients : life'[d] = IF d = c THEN "running" ELSE life[d]
      /\ \A d \in Accts!Clients : nick'[d] = IF d = c THEN rows[id] ELSE nick[d]
      /\ Range(box[c]) = {}
  BY <1>1 DEF ClientTypes, ClientLives
<1>6. Accts!Registered \subseteq Accts!Clients
  BY DEF ClientTypes, Accts!Registered, Accts!Agents
<1>7. ClientKnown'
  BY <1>2, <1>3, <1>5 DEF ClientKnown
<1>8. ClientLives'
  BY <1>1, <1>2, <1>3, <1>5, <1>6 DEF ClientLives, ClientTypes
<1>9. NicksKept'
  <2> SUFFICES ASSUME misnamed' = {}
               PROVE  /\ \A n \in DOMAIN byName' :
                            nick'[byName'[n]] = n /\ byName'[n] \in Accts!Registered'
                      /\ \A d \in Accts!Registered' :
                            nick'[d] \in DOMAIN byName' /\ byName'[nick'[d]] = d
                      /\ \A d \in Accts!Clients : \A x \in Range(box'[d]) :
                            x.is = "reload" => x.nick = nick'[d]
    BY DEF NicksKept
  <2>1. misnamed = {} /\ rows[id] \notin DOMAIN byName
    BY <1>1
  <2>2. \A n \in DOMAIN byName' : byName'[n] = IF n = rows[id] THEN c ELSE byName[n]
    BY <1>1, <2>1
  <2>3. DOMAIN byName' = DOMAIN byName \cup {rows[id]}
    BY <1>1
  <2> QED
    BY <1>2, <1>3, <1>5, <1>6, <2>1, <2>2, <2>3 DEF NicksKept
<1> QED
  BY <1>4, <1>7, <1>8, <1>9

\* account remove takes a client out of both maps and tells it to go.
LEMMA AccountRemove ==
    ASSUME ClientInv, NEW id, Accts!EvtHttpAccountRemove(id)
    PROVE  ClientInv'
<1> USE DEF ClientInv
<1> DEFINE c == byId[id]
           m == [d \in {c} |-> Accts!Shutdown]
<1>1. PICK name \in Accts!NickRead(c) :
         /\ byName' = [n \in DOMAIN byName \ {name} |-> byName[n]]
         /\ misnamed' = IF name = nick[c] THEN misnamed ELSE misnamed \cup {c}
  BY DEF Accts!EvtHttpAccountRemove, Accts!NameErased, Accts!Erased
<1>2. /\ id \in DOMAIN byId /\ Accts!SendAll({c}, m)
      /\ byId' = [j \in DOMAIN byId \ {id} |-> byId[j]]
      /\ UNCHANGED <<nick, life>>
  BY DEF Accts!EvtHttpAccountRemove, Accts!Erased
<1>3. c \in Accts!Registered /\ c \in Accts!Clients /\ life[c] = "running"
  BY <1>2 DEF Accts!Registered, Accts!Agents, ClientTypes, ClientLives
<1>4. Accts!Registered' = Accts!Registered \ {c}
  BY <1>2 DEF Accts!Registered, Accts!Agents, ClientTypes
<1>5. m[c] = Accts!Shutdown
  OBVIOUS
<1> HIDE DEF c, m
<1>6. ClientTypes'
  BY <1>1, <1>2, ClientSend DEF ClientTypes
<1>7. /\ \A d \in Accts!Clients : d # c => Range(box'[d]) = Range(box[d])
      /\ Range(box'[c]) = Range(box[c]) \cup {Accts!Shutdown}
  BY <1>2, <1>3, <1>5, ClientSend
<1>8. Accts!Registered \subseteq Accts!Clients
  BY DEF ClientTypes, Accts!Registered, Accts!Agents
<1>9. ClientKnown'
  BY <1>2, <1>4, <1>7 DEF ClientKnown, Farewells
<1>10. ClientLives'
  BY <1>1, <1>2, <1>3, <1>4, <1>7, <1>8 DEF ClientLives, ClientTypes
<1>11. NicksKept'
  <2> SUFFICES ASSUME misnamed' = {}
               PROVE  /\ \A n \in DOMAIN byName' :
                            nick'[byName'[n]] = n /\ byName'[n] \in Accts!Registered'
                      /\ \A d \in Accts!Registered' :
                            nick'[d] \in DOMAIN byName' /\ byName'[nick'[d]] = d
                      /\ \A d \in Accts!Clients : \A x \in Range(box'[d]) :
                            x.is = "reload" => x.nick = nick'[d]
    BY DEF NicksKept
  <2>1. misnamed = {} /\ name = nick[c]
    BY <1>1
  <2>2. /\ DOMAIN byName' = DOMAIN byName \ {nick[c]}
        /\ \A n \in DOMAIN byName' : byName'[n] = byName[n]
    BY <1>1, <2>1
  <2>3. byName[nick[c]] = c
    BY <1>3, <2>1 DEF NicksKept
  <2> QED
    BY <1>2, <1>4, <1>7, <1>8, <2>1, <2>2, <2>3, Kinds DEF NicksKept
<1> QED
  BY <1>6, <1>9, <1>10, <1>11

\* account reload and reload tell clients to look up their rows again.
LEMMA AccountsReload ==
    ASSUME ClientInv, NEW ids, ids \subseteq DOMAIN byId, NEW failed,
           Accts!ReloadClients(ids, failed)
    PROVE  ClientInv'
<1> USE DEF ClientInv
<1> DEFINE name == [c \in Accts!Clients |-> IF c[1] \in failed THEN NoName ELSE Accts!Row(c[1])]
           C == {byId[id] : id \in ids}
           m == [c \in C |-> Accts!Reload(name[c])]
<1>1. /\ Accts!SendAll(C, m)
      /\ misnamed' = misnamed \cup {c \in C : name[c] # nick[c]}
      /\ UNCHANGED <<byId, byName, nick, life>>
  BY DEF Accts!ReloadClients, Accts!maps
<1>2. C \subseteq Accts!Registered
  BY DEF Accts!Registered, Accts!Agents
<1>3. \A c \in C : m[c] = Accts!Reload(name[c])
  OBVIOUS
<1> HIDE DEF name, C, m
<1>4. UNCHANGED Accts!Registered
  BY <1>1 DEF Accts!Registered
<1>5. ClientTypes'
  BY <1>1, ClientSend DEF ClientTypes
<1>6. \A c \in Accts!Clients :
         \/ Range(box'[c]) = Range(box[c])
         \/ c \in C /\ Range(box'[c]) = Range(box[c]) \cup {Accts!Reload(name[c])}
  BY <1>1, <1>3, ClientSend
<1>7. ClientKnown'
  BY <1>1, <1>4, ClientSend DEF ClientKnown
<1>8. Accts!Registered \subseteq Accts!Clients
  BY DEF ClientTypes, Accts!Registered, Accts!Agents
<1>9. \A c : Accts!Reload(name[c]) \notin Farewells
  BY Kinds
<1>10. ClientLives'
  BY <1>1, <1>2, <1>4, <1>6, <1>8, <1>9 DEF ClientLives
<1>11. NicksKept'
  <2> SUFFICES ASSUME misnamed' = {}
               PROVE  \A c \in Accts!Clients : \A x \in Range(box'[c]) :
                         x.is = "reload" => x.nick = nick[c]
    BY <1>1, <1>4 DEF NicksKept
  <2>1. misnamed = {} /\ \A c \in C : name[c] = nick[c]
    BY <1>1
  <2> QED
    BY <1>6, <2>1, Kinds DEF NicksKept
<1> QED
  BY <1>5, <1>7, <1>10, <1>11

\* A step that touches no client keeps the register.
LEMMA ClientSame ==
    ASSUME ClientInv, UNCHANGED <<byId, byName, nick, life, box, misnamed>>
    PROVE  ClientInv'
<1> USE DEF ClientInv
<1>1. UNCHANGED Accts!Registered
  BY DEF Accts!Registered, Accts!Agents
<1>2. ClientTypes'
  BY DEF ClientTypes, ClientMail
<1>3. ClientKnown'
  BY <1>1 DEF ClientKnown
<1>4. ClientLives'
  BY <1>1 DEF ClientLives
<1>5. NicksKept'
  BY <1>1 DEF NicksKept
<1> QED
  BY <1>2, <1>3, <1>4, <1>5

\* Requests about accounts keep the register of clients.
LEMMA AccountRequest == ClientInv /\ Accts!Request => ClientInv'
<1> SUFFICES ASSUME ClientInv, Accts!Request
             PROVE  ClientInv'
  OBVIOUS
<1>1. ASSUME NEW id \in Accounts, Accts!EvtHttpAccountReload(id)
      PROVE  ClientInv'
  <2>1. {id} \subseteq DOMAIN byId /\ \E failed : Accts!ReloadClients({id}, failed)
    BY <1>1 DEF Accts!EvtHttpAccountReload
  <2> QED
    BY <2>1, AccountsReload
<1>2. ASSUME Accts!EvtHttpReload
      PROVE  ClientInv'
  <2>1. \E failed : Accts!ReloadClients(DOMAIN byId, failed)
    BY <1>2 DEF Accts!EvtHttpReload
  <2> QED
    BY <2>1, AccountsReload
<1>3. ASSUME Accts!EvtHttpCommand
      PROVE  ClientInv'
  <2>1. UNCHANGED <<byId, byName, nick, life, box, misnamed>>
    BY <1>3 DEF Accts!EvtHttpCommand, Accts!maps, Accts!agents
  <2> QED
    BY <2>1, ClientSame
<1> QED
  BY <1>1, <1>2, <1>3, AccountAdd, AccountRemove DEF Accts!Request

\* An answer of a bot is handed to the client found by nick.
LEMMA AccountAnswers == ClientInv /\ Accts!EvtSendMessage => ClientInv'
<1> SUFFICES ASSUME ClientInv, Accts!EvtSendMessage
             PROVE  ClientInv'
  OBVIOUS
<1> USE DEF ClientInv
<1> DEFINE name == Head(inbox).author
           m == [c \in {byName[name]} |-> Accts!Say(Head(inbox).channel)]
<1>1. /\ UNCHANGED <<byId, byName, nick, life, misnamed>>
      /\ UNCHANGED Accts!Registered
  BY DEF Accts!EvtSendMessage, Accts!maps, Accts!Registered, Accts!Agents
<1>2. CASE name \notin DOMAIN byName
  <2>1. UNCHANGED box
    BY <1>2 DEF Accts!EvtSendMessage
  <2> QED
    BY <1>1, <2>1, ClientSame
<1>3. CASE name \in DOMAIN byName
  <2>1. Accts!SendAll({byName[name]}, m)
    BY <1>3 DEF Accts!EvtSendMessage
  <2>2. m[byName[name]] = Accts!Say(Head(inbox).channel)
    OBVIOUS
  <2>3. life[byName[name]] # "unborn"
    BY <1>3 DEF ClientLives
  <2> HIDE DEF name, m
  <2>4. ClientTypes'
    BY <1>1, <2>1, ClientSend DEF ClientTypes
  <2>5. \A c \in Accts!Clients :
           \/ Range(box'[c]) = Range(box[c])
           \/ /\ life[c] # "unborn"
              /\ Range(box'[c]) = Range(box[c]) \cup {Accts!Say(Head(inbox).channel)}
    BY <2>1, <2>2, <2>3, ClientSend
  <2>6. ClientKnown'
    BY <1>1, <2>5 DEF ClientKnown
  <2>7. Accts!Registered \subseteq Accts!Clients
    BY DEF ClientTypes, Accts!Registered, Accts!Agents
  <2>8. ClientLives'
    BY <1>1, <2>5, <2>7, Kinds DEF ClientLives
  <2>9. NicksKept'
    BY <1>1, <2>5, Kinds DEF NicksKept
  <2> QED
    BY <2>4, <2>6, <2>8, <2>9
<1> QED
  BY <1>2, <1>3

\* What a client does with a message keeps the register.
LEMMA ClientHandles ==
    ASSUME ClientInv, NEW c \in Accts!Clients, Accts!ClientStep(c)
    PROVE  ClientInv'
<1> USE DEF ClientInv
<1>1. UNCHANGED <<byId, byName, misnamed>> /\ UNCHANGED Accts!Registered
  BY DEF Accts!ClientStep, Accts!ClientReload, Accts!ClientSay, Accts!ClientShutdown,
         Accts!ClientFinish, Accts!maps, Accts!Registered, Accts!Agents
<1>2. Accts!Registered \subseteq Accts!Clients
  BY DEF ClientTypes, Accts!Registered, Accts!Agents
<1>3. CASE Accts!ClientReload(c)
  <2>1. /\ box[c] # <<>> /\ Head(box[c]).is = "reload"
        /\ box' = [box EXCEPT ![c] = Tail(box[c])]
        /\ nick' = [nick EXCEPT ![c] = Head(box[c]).nick] /\ UNCHANGED life
    BY <1>3 DEF Accts!ClientReload, Accts!TakeFrom
  <2>2. Head(box[c]) \notin Farewells
    BY <2>1, Kinds
  <2>3. ClientTypes'
    BY <1>1, <2>1, ClientTake DEF ClientTypes
  <2>4. ClientKnown'
    BY <1>1, <2>1, <2>2, ClientTake DEF ClientKnown
  <2>5. ClientLives'
    BY <1>1, <1>2, <2>1, ClientTake DEF ClientLives
  <2>6. NicksKept'
    <3> SUFFICES ASSUME misnamed = {}
                 PROVE  NicksKept'
      BY <1>1 DEF NicksKept
    <3>1. Head(box[c]).nick = nick[c]
      BY <2>1, ClientTake DEF NicksKept
    <3>2. nick' = nick
      BY <2>1, <3>1 DEF ClientTypes
    <3>3. \A d \in Accts!Clients : Range(box'[d]) \subseteq Range(box[d])
      BY <2>1, ClientTake
    <3>4. \A d \in Accts!Clients : \A x \in Range(box'[d]) :
             x.is = "reload" => x.nick = nick[d]
      BY <3>3 DEF NicksKept
    <3> QED
      BY <1>1, <3>2, <3>4 DEF NicksKept
  <2> QED
    BY <2>3, <2>4, <2>5, <2>6
<1>4. CASE Accts!ClientSay(c)
  <2>1. /\ box[c] # <<>> /\ Head(box[c]).is = "say"
        /\ box' = [box EXCEPT ![c] = Tail(box[c])]
        /\ UNCHANGED <<nick, life>>
    BY <1>4 DEF Accts!ClientSay, Accts!TakeFrom
  <2>2. Head(box[c]) \notin Farewells
    BY <2>1, Kinds
  <2>3. ClientTypes'
    BY <1>1, <2>1, ClientTake DEF ClientTypes
  <2>4. ClientKnown'
    BY <1>1, <2>1, <2>2, ClientTake DEF ClientKnown
  <2>5. ClientLives'
    BY <1>1, <1>2, <2>1, ClientTake DEF ClientLives
  <2>6. NicksKept'
    BY <1>1, <2>1, ClientTake DEF NicksKept
  <2> QED
    BY <2>3, <2>4, <2>5, <2>6
<1>5. CASE Accts!ClientShutdown(c)
  <2> DEFINE left == Tail(box[c])
  <2>1. /\ life[c] = "running" /\ box[c] # <<>> /\ Head(box[c]) = Accts!Shutdown
        /\ box' = [box EXCEPT ![c] = Append(left, Accts!Finish)]
        /\ UNCHANGED <<nick, life>>
    BY <1>5 DEF Accts!ClientShutdown
  <2>2. /\ IsMailbox(left) /\ Head(box[c]) \in Range(box[c])
        /\ Range(box[c]) = Range(left) \cup {Head(box[c])}
    BY <2>1, Taken DEF ClientTypes, ClientMail
  <2> HIDE DEF left
  <2>3. /\ IsMailbox(Append(left, Accts!Finish))
        /\ Range(Append(left, Accts!Finish)) = Range(left) \cup {Accts!Finish}
    BY <2>2, Sent
  <2>4. \A d \in Accts!Clients :
           box'[d] = IF d = c THEN Append(left, Accts!Finish) ELSE box[d]
    BY <2>1 DEF ClientTypes, ClientMail
  <2>5. c \notin Accts!Registered
    BY <2>1, <2>2 DEF ClientLives, Farewells
  <2>6. ClientTypes'
    <3>1. box' = [d \in Accts!Clients |-> box'[d]]
      BY <2>1 DEF ClientTypes, ClientMail
    <3>2. \A d \in Accts!Clients : IsMailbox(box'[d])
      BY <2>3, <2>4 DEF ClientTypes, ClientMail
    <3> QED
      BY <1>1, <2>1, <3>1, <3>2 DEF ClientTypes, ClientMail
  <2>7. /\ \A d \in Accts!Clients : d # c => Range(box'[d]) = Range(box[d])
        /\ Range(box'[c]) = Range(left) \cup {Accts!Finish}
    BY <2>3, <2>4
  <2>8. ClientKnown'
    BY <1>1, <2>1, <2>7 DEF ClientKnown, Farewells
  <2>9. ClientLives'
    BY <1>1, <1>2, <2>1, <2>5, <2>7 DEF ClientLives
  <2>10. NicksKept'
    BY <1>1, <2>1, <2>2, <2>7, Kinds DEF NicksKept
  <2> QED
    BY <2>6, <2>8, <2>9, <2>10
<1>6. CASE Accts!ClientFinish(c)
  <2>1. /\ life[c] = "running" /\ box[c] # <<>> /\ Head(box[c]) = Accts!Finish
        /\ box' = [box EXCEPT ![c] = <<>>]
        /\ life' = [life EXCEPT ![c] = "gone"] /\ UNCHANGED nick
    BY <1>6 DEF Accts!ClientFinish
  <2>2. Accts!Finish \in Range(box[c])
    BY <2>1, Taken DEF ClientTypes, ClientMail
  <2>3. c \notin Accts!Registered
    BY <2>2 DEF ClientLives, Farewells
  <2>4. \A d \in Accts!Clients :
           /\ box'[d] = IF d = c THEN <<>> ELSE box[d]
           /\ life'[d] = IF d = c THEN "gone" ELSE life[d]
    BY <2>1 DEF ClientTypes, ClientMail
  <2>5. ClientTypes'
    BY <1>1, <2>1, <2>4, NoMail DEF ClientTypes, ClientMail
  <2>6. /\ \A d \in Accts!Clients : d # c => Range(box'[d]) = Range(box[d])
        /\ Range(box'[c]) = {}
    BY <2>4, NoMail
  <2>7. ClientKnown'
    BY <1>1, <2>4, <2>6 DEF ClientKnown
  <2>8. ClientLives'
    <3>1. \A n \in DOMAIN byName : byName[n] \in Accts!Clients
      BY DEF ClientTypes
    <3> QED
      BY <1>1, <1>2, <2>3, <2>4, <2>6, <3>1 DEF ClientLives
  <2>9. NicksKept'
    BY <1>1, <2>1, <2>6 DEF NicksKept
  <2> QED
    BY <2>5, <2>7, <2>8, <2>9
<1> QED
  BY <1>3, <1>4, <1>5, <1>6 DEF Accts!ClientStep

\* ClientInv is inductive.
LEMMA ClientStep == ClientInv /\ [Next]_vars => ClientInv'
<1> SUFFICES ASSUME ClientInv, [Next]_vars
             PROVE  ClientInv'
  OBVIOUS
<1>1. ASSUME UNCHANGED <<byId, byName, nick, life, box, misnamed>>
      PROVE  ClientInv'
  BY <1>1, ClientSame
<1>2. CASE UNCHANGED vars
  BY <1>1, <1>2 DEF vars, accountVars
<1>3. ASSUME NEW channel \in Channels, Post(channel)
      PROVE  ClientInv'
  BY <1>1, <1>3 DEF Post, accountVars
<1>4. CASE HttpRequest
  BY <1>1, <1>4, AccountRequest DEF HttpRequest, accountVars
<1>5. CASE Edit
  BY <1>1, <1>5 DEF Edit, Accts!EditAccounts, Accts!maps, Accts!agents, accountVars
<1>6. CASE Answer
  BY <1>6, AccountAnswers DEF Answer
<1>7. CASE Deliver
  BY <1>1, <1>7 DEF Deliver, accountVars
<1>8. ASSUME NEW c \in Accts!Clients, Client(c)
      PROVE  ClientInv'
  BY <1>8, ClientHandles DEF Client
<1>9. ASSUME NEW e \in Bot!Engines, Engine(e)
      PROVE  ClientInv'
  BY <1>1, <1>9 DEF Engine, accountVars
<1> QED
  BY <1>2, <1>3, <1>4, <1>5, <1>6, <1>7, <1>8, <1>9 DEF Next, Working

\* Requests may come in any order and find the table changed meanwhile: a client
\* that runs is registered by its id, so that it can be removed, or is leaving
\* (IRCController.cpp).
THEOREM ChatNoOrphan == Spec => []NoOrphan
<1>1. Spec => []ClientInv
  BY ClientInit, ClientStep, PTL DEF Spec
<1> QED
  BY <1>1, NoOrphanFollows, PTL

\* The map by nick, which emplace and erase keep by the nick a client has at that
\* moment, names the same clients as the map by id, until a nick changes or is
\* used twice.
THEOREM ChatMapsAgree == Spec => []MapsAgree
<1>1. Spec => []ClientInv
  BY ClientInit, ClientStep, PTL DEF Spec
<1> QED
  BY <1>1, MapsAgreeFollows, PTL

\* No request meets a destroyed client through the map by id: a registered client
\* runs and has not been told to go.
THEOREM ChatRegisteredLive ==
    Spec => [](\A c \in Accts!Registered : life[c] = "running")
<1>1. Spec => []ClientInv
  BY ClientInit, ClientStep, PTL DEF Spec
<1>2. ClientInv => \A c \in Accts!Registered : life[c] = "running"
  BY DEF ClientInv, ClientLives
<1> QED
  BY <1>1, <1>2, PTL
=============================================================================
