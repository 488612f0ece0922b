----------------------------- MODULE ChatService -----------------------------
(***************************************************************************)
(* The circle of a chat message: a session of an account reads it, bots    *)
(* answer it, IRCController has a client say the answer, and another       *)
(* session of ours may read that answer again.  While messages go round,   *)
(* the HTTP interface changes accounts and bots, and so do the tables.     *)
(*                                                                         *)
(* MaxRequests bounds the HTTP requests, MaxPosts what other users write,  *)
(* and MaxInFlight the copies of messages and answers that go round.       *)
(***************************************************************************)
EXTENDS Integers, Sequences, FiniteSets, SequencesExt, Bags, BagsExt

CONSTANTS Accounts, Nicks, NoName, Tables, Active, MaxClients, MaxEdits,
          Bots, Channels, NoChannel, Configs, MaxEngines,
          MaxInFlight, MaxRequests, MaxPosts,
          User          \* somebody who is none of our accounts

ASSUME ServiceAssumption ==
    /\ NoName \notin Nicks /\ User \notin Nicks
    /\ \A table \in Tables :
          DOMAIN table \subseteq Accounts /\ table \in [DOMAIN table -> Nicks]
    /\ NoChannel \notin Channels
    /\ MaxClients \in Nat \ {0} /\ MaxEngines \in Nat \ {0} /\ MaxEdits \in Nat
    /\ MaxRequests \in Nat /\ MaxPosts \in Nat /\ MaxInFlight \in Nat

VARIABLES rows, byId, byName, nick, life, box, misnamed, edits, broken,
          botRows, botsById, botBoxes, ignoreUsers, listens, config, alive, queue,
          inbox, chat, requests, posts

Accts == INSTANCE IRCController
Bot == INSTANCE BotsEnvironment

accountVars == <<rows, byId, byName, nick, life, box, misnamed, broken>>
botVars == <<botRows, botsById, botBoxes, ignoreUsers, listens, config, alive, queue>>
vars == <<accountVars, botVars, edits, inbox, chat, requests, posts>>
-----------------------------------------------------------------------------
\* The service accounts are some of the accounts that are active at the start.
Init ==
    /\ Accts!Init
    /\ Bot!Init
    /\ ignoreUsers \in SUBSET Accts!ActiveNames
    /\ inbox = <<>>
    /\ chat = EmptyBag
    /\ requests = 0
    /\ posts = 0

\* Somebody writes to a channel; IRCClient, MessageProcessor and the mailbox of
\* BotsEnvironment pass it on.
Post(channel) ==
    /\ posts < MaxPosts
    /\ chat' = BagAdd(chat, [author |-> User, channel |-> channel])
    /\ posts' = posts + 1
    /\ UNCHANGED <<accountVars, botVars, edits, inbox, requests>>

HttpRequest ==
    /\ requests < MaxRequests
    /\ requests' = requests + 1
    /\ \/ Accts!Request /\ UNCHANGED botVars
       \/ Bot!BotRequest /\ UNCHANGED accountVars
    /\ UNCHANGED posts

Edit ==
    /\ \/ Accts!EditAccounts /\ UNCHANGED botVars
       \/ Bot!EditBots /\ UNCHANGED accountVars
    /\ UNCHANGED <<requests, posts>>

Answer == Accts!EvtSendMessage /\ UNCHANGED <<botVars, requests, posts>>
Deliver == Bot!EvtChatMessage /\ UNCHANGED <<accountVars, requests, posts>>

\* How many copies of chat messages and answers there are
Count(q, is) == Len(SelectSeq(q, LAMBDA m : m.is = is))
UnderWay == BagCardinality(chat) + Len(inbox)
    + FoldSet(LAMBDA c, n : n + Count(box[c], "say"), 0, Accts!Clients)
    + FoldSet(LAMBDA e, n : n + Count(queue[e], "message"), 0, Bot!Engines)

\* Of what a client says our sessions read no more than the bound allows.
Client(c) ==
    /\ Accts!ClientStep(c)
    /\ chat' # chat => UnderWay <= MaxInFlight
    /\ UNCHANGED <<botVars, requests, posts>>
Engine(e) == Bot!EngineStep(e) /\ UNCHANGED <<accountVars, requests, posts>>

Working == \/ Answer \/ Deliver
           \/ \E c \in Accts!Clients : Client(c)
           \/ \E e \in Bot!Engines : Engine(e)

Next == /\ ~ broken
        /\ \/ \E channel \in Channels : Post(channel)
           \/ HttpRequest
           \/ Edit
           \/ Working

Spec == Init /\ [][Next]_vars

\* Every agent's thread handles what is in its mailbox.
FairSpec ==
    /\ Spec
    /\ WF_vars(~ broken /\ Answer)
    /\ WF_vars(~ broken /\ Deliver)
    /\ \A c \in Accts!Clients : WF_vars(~ broken /\ Client(c))
    /\ \A e \in Bot!Engines : WF_vars(~ broken /\ Engine(e))
-----------------------------------------------------------------------------
\* Every account that runs can still be removed (IRCController.tla).
NoOrphan == Accts!NoOrphan

\* A message by name reaches the account of that name, unless accounts were
\* renamed (IRCController.tla).
MapsAgree == Accts!MapsAgree

\* No bot answers twice because two engines run it (BotsEnvironment.tla).
OneEngine == Bot!OneEngine

\* The names our bots may be seen to write under
Voices == Range(nick) \cup {config[e].account : e \in Bot!Engines}

Silent == /\ chat = EmptyBag /\ inbox = <<>>
          /\ \A c \in Accts!Clients : box[c] = <<>>
          /\ \A e \in Bot!Engines : queue[e] = <<>>

\* Bots do not answer each other, or themselves, for ever, as long as accounts
\* keep their names and at most one of these is not a service account.
Settles ==
    [](misnamed = {} /\ Cardinality((Voices \cap Nicks) \ ignoreUsers) <= 1)
        => <>[](Silent \/ broken)

\* The comment of BotEngine::evtBotMessage, "ignore self messages to avoid
\* looping": with the bots of one account there is no loop.
SelfIgnored ==
    [](Cardinality({config[e].account : e \in Bot!Engines} \cap Nicks) <= 1)
        => <>[](Silent \/ broken)
=============================================================================
