---------------------------- MODULE IRCController ----------------------------
(***************************************************************************)
(* The agent that owns the IRC accounts: two maps to its IRCClient agents, *)
(* by database id and by nick name, kept as raw pointers.  It handles one  *)
(* message at a time; each client handles its own mailbox on another       *)
(* thread.  Of a client only what the maps depend on is here: its nick,    *)
(* the messages on the way to it, and whether it still exists.             *)
(*                                                                         *)
(* A client is <<id, k>>, the k-th agent created for the account id.  A    *)
(* send through a pointer to a destroyed client ends the run (broken).     *)
(* The chat that clients write goes to chat, from where other sessions     *)
(* read it (BotsEnvironment.tla); inbox holds what bots ask to be sent.    *)
(***************************************************************************)
EXTENDS Integers, Sequences, FiniteSets, SequencesExt, Bags, BagsExt

CONSTANTS Accounts,      \* ids of the account table
          Nicks,         \* user names
          NoName,        \* the empty nick of a default IRCClientConfig
          Tables,        \* what the account table may hold
          Active,        \* ids whose row says active, as far as they are there
          MaxClients,    \* bound: clients created per account
          MaxEdits       \* bound: changes of the tables, and reads that fail

VARIABLES rows,      \* the account table: the user name of each id in it
          byId,      \* ircClientsById
          byName,    \* ircClientsByName
          nick,      \* cliConfig.nick of each client
          life,      \* of each client: "unborn", "running" or "gone"
          box,       \* the mailbox of each client
          misnamed,  \* clients sent another nick, whose nick was read half assigned, or
                     \* whose name another had when they were added
          edits,     \* what was done to the table so far
          broken,    \* a destroyed client was used
          inbox,     \* Chat::SendMessage from the bots
          chat       \* messages our sessions have yet to hand on, a bag

maps == <<byId, byName>>
agents == <<nick, life, box, misnamed>>
registryVars == <<rows, maps, agents, edits, broken>>

Clients == Accounts \X (1 .. MaxClients)

Message(author, channel) == [author |-> author, channel |-> channel]

Say(channel) == [is |-> "say", channel |-> channel]
Reload(name) == [is |-> "reload", nick |-> name]
Shutdown == [is |-> "shutdown"]
Finish == [is |-> "finish"]   \* SObjectizer's last demand

Row(id) == IF id \in DOMAIN rows THEN rows[id] ELSE NoName

\* The clients a map names
Agents(map) == {map[k] : k \in DOMAIN map}

\* The entry a map gets from emplace, which keeps the one it has
Emplaced(map, key, value) ==
    [k \in DOMAIN map \cup {key} |-> IF k \in DOMAIN map THEN map[k] ELSE value]
Erased(map, key) == [k \in DOMAIN map \ {key} |-> map[k]]
-----------------------------------------------------------------------------
\* so_evt_start: a client for every active account.  evtHttpAccountAdd and the
\* reloads do not ask whether the account is active.
AtStart == DOMAIN rows \cap Active
ActiveNames == {rows[id] : id \in AtStart}

Init ==
    /\ rows \in Tables
    /\ byId = [id \in AtStart |-> <<id, 1>>]
    /\ byName = [n \in ActiveNames |-> <<CHOOSE id \in AtStart : rows[id] = n, 1>>]
    /\ life = [c \in Clients |-> IF c \in Agents(byId) THEN "running" ELSE "unborn"]
    /\ nick = [c \in Clients |-> IF life[c] = "running" THEN rows[c[1]] ELSE NoName]
    /\ box = [c \in Clients |-> <<>>]
    /\ misnamed = Agents(byId) \ Agents(byName)
    /\ edits = 0
    /\ broken = FALSE

\* A request that sends each client of C its message m[c], and nothing else
SendAll(C, m) ==
    IF \E c \in C : life[c] = "gone"
    THEN broken' = TRUE /\ UNCHANGED box
    ELSE /\ box' = [c \in Clients |-> IF c \in C THEN Append(box[c], m[c]) ELSE box[c]]
         /\ UNCHANGED broken

\* addNewIrcClient, whose agent is the next one of the account
NextClient(id, c) ==
    /\ c[1] = id /\ life[c] = "unborn"
    /\ \A k \in 1 .. c[2] - 1 : life[<<id, k>>] # "unborn"

AddNewIrcClient(id, name) ==
    \E c \in Clients :
       /\ NextClient(id, c)
       /\ byName' = Emplaced(byName, name, c)
       /\ byId' = Emplaced(byId, id, c)
       /\ misnamed' = IF name \in DOMAIN byName THEN misnamed \cup {c} ELSE misnamed
       /\ nick' = [nick EXCEPT ![c] = name]
       /\ life' = [life EXCEPT ![c] = "running"]

\* evtHttpAccountAdd past its 403; an id that is not in the table gets a 404.
AnyId(id) == TRUE
NotAdded(id) == id \notin DOMAIN byId

EvtHttpAccountAdd(id) ==
    /\ NotAdded(id)
    /\ id \in DOMAIN rows
    /\ AddNewIrcClient(id, rows[id])
    /\ UNCHANGED <<rows, box, edits, broken, inbox, chat>>

\* nickname() is read while the client's own thread may be assigning it.
NickRead(c) ==
    {nick[c]} \cup (IF box[c] # <<>> /\ Head(box[c]).is = "reload" THEN {NoName} ELSE {})

\* evtHttpAccountRemove past its 404
NameKept(name) == byName
NameErased(name) == Erased(byName, name)

EvtHttpAccountRemove(id) ==
    /\ id \in DOMAIN byId
    /\ LET c == byId[id]
       IN /\ \E name \in NickRead(c) :
                /\ byName' = NameErased(name)
                /\ misnamed' = IF name = nick[c] THEN misnamed ELSE misnamed \cup {c}
          /\ SendAll({c}, [d \in {c} |-> Shutdown])
    /\ byId' = Erased(byId, id)
    /\ UNCHANGED <<rows, nick, life, edits, inbox, chat>>

\* evtHttpReload and evtHttpAccountReload: each account is read by itself, and a
\* read that fails, or a row that is gone, gives a default configuration, which
\* is sent like any other.  The reads of the accounts in failed fail.
ReloadClients(ids, failed) ==
    LET name == [c \in Clients |-> IF c[1] \in failed THEN NoName ELSE Row(c[1])]
        C == {byId[id] : id \in ids}
    IN /\ SendAll(C, [c \in C |-> Reload(name[c])])
       /\ misnamed' = misnamed \cup {c \in C : name[c] # nick[c]}
       /\ edits' = IF failed = {} THEN edits ELSE edits + 1
       /\ failed = {} \/ edits < MaxEdits
       /\ UNCHANGED <<rows, maps, nick, life, inbox, chat>>

EvtHttpReload ==
    \E failed \in SUBSET DOMAIN byId : ReloadClients(DOMAIN byId, failed)

EvtHttpAccountReload(id) ==
    /\ id \in DOMAIN byId
    /\ \E failed \in SUBSET {id} : ReloadClients({id}, failed)

\* evtHttpCustom, evtHttpChannelJoin and evtHttpChannelMessage send to the
\* clients they find by id or name, evtHttpChannelLeave to all it finds by name.
Addressees == {{c} : c \in Agents(byId) \cup Agents(byName)} \cup {Agents(byName)}

EvtHttpCommand ==
    \E C \in Addressees :
        /\ broken' = (\E c \in C : life[c] = "gone")
        /\ UNCHANGED <<rows, maps, agents, edits, inbox, chat>>

\* evtSendMessage, and evtHttpChannelMessage with an account name: an unknown
\* name is logged and forgotten.
EvtSendMessage ==
    /\ inbox # <<>>
    /\ inbox' = Tail(inbox)
    /\ LET name == Head(inbox).author
       IN IF name \in DOMAIN byName
          THEN SendAll({byName[name]}, [c \in {byName[name]} |-> Say(Head(inbox).channel)])
          ELSE UNCHANGED <<box, broken>>
    /\ UNCHANGED <<rows, maps, nick, life, misnamed, edits, chat>>
-----------------------------------------------------------------------------
(* The clients, as far as the maps and the chat depend on them. *)

TakeFrom(c, is) ==
    /\ life[c] = "running"
    /\ box[c] # <<>> /\ Head(box[c]).is = is
    /\ box' = [box EXCEPT ![c] = Tail(@)]

ClientReload(c) ==
    /\ TakeFrom(c, "reload")
    /\ nick' = [nick EXCEPT ![c] = Head(box[c]).nick]
    /\ UNCHANGED <<rows, maps, life, misnamed, edits, broken, inbox, chat>>

\* What the client says comes back through a session of ours that is in the
\* channel and did not say it, if there is one.  Without a nick the client is
\* not logged in and says nothing.
ClientSay(c) ==
    /\ TakeFrom(c, "say")
    /\ \/ UNCHANGED chat
       \/ /\ nick[c] # NoName
          /\ chat' = BagAdd(chat, Message(nick[c], Head(box[c]).channel))
    /\ UNCHANGED <<rows, maps, nick, life, misnamed, edits, broken, inbox>>

\* evtShutdown deregisters the agent: what is in its mailbox by then is still
\* handled, what comes later is not, and then the object is destroyed.
ClientShutdown(c) ==
    /\ life[c] = "running" /\ box[c] # <<>> /\ Head(box[c]) = Shutdown
    /\ box' = [box EXCEPT ![c] = Append(Tail(@), Finish)]
    /\ UNCHANGED <<rows, maps, nick, life, misnamed, edits, broken, inbox, chat>>

ClientFinish(c) ==
    /\ life[c] = "running" /\ box[c] # <<>> /\ Head(box[c]) = Finish
    /\ box' = [box EXCEPT ![c] = <<>>]
    /\ life' = [life EXCEPT ![c] = "gone"]
    /\ UNCHANGED <<rows, maps, nick, misnamed, edits, broken, inbox, chat>>
-----------------------------------------------------------------------------
\* Whoever keeps the table renames or deletes an account, or adds one.
EditAccounts ==
    /\ edits < MaxEdits
    /\ rows' \in Tables \ {rows}
    /\ edits' = edits + 1
    /\ UNCHANGED <<maps, agents, broken, inbox, chat>>

Request == \/ \E id \in Accounts : \/ EvtHttpAccountAdd(id)
                                   \/ EvtHttpAccountRemove(id)
                                   \/ EvtHttpAccountReload(id)
           \/ EvtHttpReload
           \/ EvtHttpCommand

ClientStep(c) ==
    ClientReload(c) \/ ClientSay(c) \/ ClientShutdown(c) \/ ClientFinish(c)
-----------------------------------------------------------------------------
Registered == Agents(byId)

\* Every client there is can still be removed: it is registered by its id, or its
\* Shutdown is on the way.
NoOrphan ==
    \A c \in Clients :
        life[c] = "running" =>
            \/ c \in Registered
            \/ \E i \in DOMAIN box[c] : box[c][i] \in {Shutdown, Finish}

\* As long as clients keep the nick they were added under, and none is added under
\* the nick of another, both maps name the same clients, each under its own nick,
\* and all of them exist: a message by name reaches the account of that name.
MapsAgree ==
    misnamed = {} =>
        /\ Agents(byName) = Registered
        /\ \A n \in DOMAIN byName : nick[byName[n]] = n /\ life[byName[n]] = "running"
=============================================================================
