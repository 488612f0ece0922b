--------------------------- MODULE BotsEnvironment ---------------------------
(***************************************************************************)
(* The agent that owns the bots, and the BotEngine agents.  Every bot      *)
(* listens on the message box of its channel; BotsEnvironment hands the    *)
(* chat messages that are for bots to the box of their channel.  It        *)
(* handles one message at a time, and so does each engine, on the threads  *)
(* of a pool.                                                              *)
(*                                                                         *)
(* An engine is <<bot, k>>, the k-th agent created for the bot id.  Chat   *)
(* messages arrive in any order, for two threads of MessageProcessor hand  *)
(* them on (chat); inbox is the mailbox of IRCController.                  *)
(***************************************************************************)
EXTENDS Integers, Sequences, FiniteSets, SequencesExt, Bags, BagsExt

CONSTANTS Bots,          \* ids of the bot table
          Channels,
          NoChannel,     \* what an engine not created yet listens to
          Configs,       \* what the bot table may hold: account id and channel of each
          MaxEngines,    \* bound: engines created per bot
          MaxEdits       \* bound: changes of the tables

VARIABLES botRows,    \* the bot table
          rows,       \* the account table: the user name of each id in it
          botsById,   \* the engine of each bot
          botBoxes,   \* channels that have a message box
          ignoreUsers,  \* loadServiceAccountsNicknames() at the start
          listens,    \* the channel of the box each engine subscribed to
          config,     \* the configuration of each engine
          alive,      \* of each engine: "unborn", "running", "closing" or "gone"
          queue,      \* the mailbox of each engine
          edits,      \* changes of the tables so far
          inbox,      \* Chat::SendMessage to IRCController
          chat        \* chat messages that wait to be published, a bag

engineVars == <<listens, config, alive, queue>>
Engines == Bots \X (1 .. MaxEngines)

BotMessage(m) == [is |-> "message", of |-> m]
BotReload(cfg) == [is |-> "reload", of |-> cfg]
BotShutdown == [is |-> "shutdown", of |-> <<>>]

NoConfig == [account |-> NoChannel, channel |-> NoChannel]

\* The engines a map names
Agents(map) == {map[k] : k \in DOMAIN map}

\* loadBotConfigurations: the bot table joined with the account table, in which a
\* bot names its account by id and its configuration by user name.
Loaded ==
    LET joined == {b \in DOMAIN botRows : botRows[b].account \in DOMAIN rows}
    IN [b \in joined |-> [botRows[b] EXCEPT !.account = rows[@]]]
-----------------------------------------------------------------------------
\* so_evt_start: an engine for every bot; the service accounts were read before.
Init ==
    /\ botRows \in Configs
    /\ botsById = [b \in DOMAIN Loaded |-> <<b, 1>>]
    /\ botBoxes = {Loaded[b].channel : b \in DOMAIN Loaded}
    /\ alive = [e \in Engines |-> IF e \in Agents(botsById) THEN "running" ELSE "unborn"]
    /\ config = [e \in Engines |->
                    IF alive[e] = "running" THEN Loaded[e[1]] ELSE NoConfig]
    /\ listens = [e \in Engines |-> config[e].channel]
    /\ queue = [e \in Engines |-> <<>>]
    /\ edits = 0

\* addBot for each bot of new: the box is reused when the channel has one.
NextEngine(b) ==
    <<b, 1 + Cardinality({k \in 1 .. MaxEngines : alive[<<b, k>>] # "unborn"})>>

AddBots(new) ==
    LET made == [b \in new |-> NextEngine(b)]
        born == Agents(made)
    IN /\ born \subseteq Engines
       /\ botsById' = [b \in DOMAIN botsById \cup new |->
                          IF b \in DOMAIN botsById THEN botsById[b] ELSE made[b]]
       /\ botBoxes' = botBoxes \cup {Loaded[b].channel : b \in new}
       /\ alive' = [e \in Engines |-> IF e \in born THEN "running" ELSE alive[e]]
       /\ listens' = [e \in Engines |->
                         IF e \in born THEN Loaded[e[1]].channel ELSE listens[e]]
       /\ config' = [e \in Engines |-> IF e \in born THEN Loaded[e[1]] ELSE config[e]]

Send(E, m) ==
    queue' = [e \in Engines |->
                 IF e \in E /\ alive[e] = "running" THEN Append(queue[e], m[e])
                 ELSE queue[e]]

\* evtHttpAdd past its 403; a bot that is not in the table gets a 404.
AnyBot(b) == TRUE
NotAddedBot(b) == b \notin DOMAIN botsById

EvtHttpAdd(b) ==
    /\ NotAddedBot(b)
    /\ b \in DOMAIN Loaded
    /\ AddBots({b})
    /\ UNCHANGED <<botRows, rows, ignoreUsers, queue, edits, inbox, chat>>

EvtHttpRemove(b) ==
    /\ b \in DOMAIN botsById
    /\ Send({botsById[b]}, [e \in Engines |-> BotShutdown])
    /\ botsById' = [d \in DOMAIN botsById \ {b} |-> botsById[d]]
    /\ UNCHANGED <<botRows, rows, botBoxes, ignoreUsers, listens, config, alive, edits,
                   inbox, chat>>

EvtHttpReload(b) ==
    /\ b \in DOMAIN botsById \cap DOMAIN Loaded
    /\ Send({botsById[b]}, [e \in Engines |-> BotReload(Loaded[b])])
    /\ UNCHANGED <<botRows, rows, botsById, botBoxes, ignoreUsers, listens, config, alive,
                   edits, inbox, chat>>

\* evtHttpReloadAll adds the bots that are new and reloads the others; a bot
\* that left the table stays.
EvtHttpReloadAll ==
    /\ AddBots(DOMAIN Loaded \ DOMAIN botsById)
    /\ LET old == {botsById[b] : b \in DOMAIN Loaded \cap DOMAIN botsById}
       IN Send(old, [e \in old |-> BotReload(Loaded[e[1]])])
    /\ UNCHANGED <<botRows, rows, ignoreUsers, edits, inbox, chat>>

\* evtChatMessage: messages of service accounts, and of channels without a box,
\* are for no bot.
Everyone(m) == TRUE
NotIgnored(m) == m.author \notin ignoreUsers

EvtChatMessage ==
    \E m \in BagToSet(chat) :
        /\ chat' = BagRemove(chat, m)
        /\ IF NotIgnored(m) /\ m.channel \in botBoxes
           THEN LET E == {e \in Engines : listens[e] = m.channel}
                IN Send(E, [e \in E |-> BotMessage(m)])
           ELSE UNCHANGED queue
        /\ UNCHANGED <<botRows, rows, botsById, botBoxes, ignoreUsers, listens, config, alive,
                       edits, inbox>>
-----------------------------------------------------------------------------
(* BotEngine. *)

TakeFrom(e, is) ==
    /\ alive[e] \in {"running", "closing"}
    /\ queue[e] # <<>> /\ Head(queue[e]).is = is
    /\ queue' = [queue EXCEPT ![e] = Tail(@)]

\* evtBotMessage, for a message the bot wrote itself
NeverOwn(e, m) == FALSE
OwnMessage(e, m) == m.author = config[e].account

\* evtBotMessage: a handler of the bot may match the message and answer; its
\* answer goes to the channel of the configuration.  A bot has one handler here.
EvtBotMessage(e) ==
    /\ TakeFrom(e, "message")
    /\ \/ UNCHANGED inbox
       \/ /\ ~ OwnMessage(e, Head(queue[e]).of)
          /\ inbox' = Append(inbox, [author |-> config[e].account,
                                     channel |-> config[e].channel])
    /\ UNCHANGED <<botRows, rows, botsById, botBoxes, ignoreUsers, listens, config, alive,
                   edits, chat>>

\* BotEngine::evtReload: the subscription stays as it is.
EvtReload(e) ==
    /\ TakeFrom(e, "reload")
    /\ config' = [config EXCEPT ![e] = Head(queue[e]).of]
    /\ UNCHANGED <<botRows, rows, botsById, botBoxes, ignoreUsers, listens, alive, edits,
                   inbox, chat>>

\* BotEngine::evtShutdown: what is in the mailbox by then is still handled.
EvtShutdown(e) ==
    /\ TakeFrom(e, "shutdown")
    /\ alive' = [alive EXCEPT ![e] = "closing"]
    /\ UNCHANGED <<botRows, rows, botsById, botBoxes, ignoreUsers, listens, config, edits,
                   inbox, chat>>

Finished(e) ==
    /\ alive[e] = "closing" /\ queue[e] = <<>>
    /\ alive' = [alive EXCEPT ![e] = "gone"]
    /\ UNCHANGED <<botRows, rows, botsById, botBoxes, ignoreUsers, listens, config, queue,
                   edits, inbox, chat>>
-----------------------------------------------------------------------------
EditBots ==
    /\ edits < MaxEdits
    /\ botRows' \in Configs \ {botRows}
    /\ edits' = edits + 1
    /\ UNCHANGED <<rows, botsById, botBoxes, ignoreUsers, engineVars, inbox, chat>>

BotRequest == \/ \E b \in Bots : EvtHttpAdd(b) \/ EvtHttpRemove(b) \/ EvtHttpReload(b)
              \/ EvtHttpReloadAll

EngineStep(e) == EvtBotMessage(e) \/ EvtReload(e) \/ EvtShutdown(e) \/ Finished(e)
-----------------------------------------------------------------------------
\* A bot is never run by two engines but while an old one is on its way out:
\* each engine that runs is the bot's own or has its Shutdown in its mailbox.
OneEngine ==
    \A e \in Engines :
        alive[e] = "running" =>
            \/ e \in Agents(botsById)
            \/ \E i \in DOMAIN queue[e] : queue[e][i] = BotShutdown
=============================================================================
