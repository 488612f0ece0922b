--------------------------- MODULE ChannelCoverage ---------------------------
(***************************************************************************)
(* What the channel list promises its account: with every session logged   *)
(* in, every channel has a session.  The list is driven as the comments of *)
(* IRCSession.cpp describe its callers: login and disconnection of a       *)
(* session are both handled on the IRCSelector thread, so for one session  *)
(* they alternate.  (IRCClient.tla has the threads as they are.)           *)
(*                                                                         *)
(* JoinChannel and LeaveChannel change the number of channels after        *)
(* sessions have reserved their share; resized remembers that one did.     *)
(***************************************************************************)
EXTENDS IRCChannelList

CONSTANTS Channels,    \* the names the database may hold for the account
          Sessions     \* the sessions the client opened

ASSUME CoverageAssumption ==
    /\ IsFiniteSet(Channels)
    /\ IsFiniteSet(Sessions) /\ Sessions # {}
    /\ NoSession \notin Sessions

SessionCount == Cardinality(Sessions)

VARIABLES channels,    \* the map of IRCChannelList
          loggedIn,    \* sessions whose onLoggedIn was the last of their callbacks
          resized      \* has a command changed the list since load()

coverageVars == <<channels, loggedIn, resized>>
-----------------------------------------------------------------------------
CoverageInit ==
    /\ \E names \in SUBSET Channels : channels = Load(names)
    /\ loggedIn = {}
    /\ resized = FALSE

\* IRCClient::onLoggedIn
LogIn(s) ==
    /\ s \notin loggedIn
    /\ \E R \in Reservations(channels, SessionCount) :
          channels' = Attach(channels, R, s)
    /\ loggedIn' = loggedIn \cup {s}
    /\ UNCHANGED resized

\* IRCClient::onDisconnected; a session may lose its connection before login
Disconnect(s) ==
    /\ channels' = DetachFrom(channels, s)
    /\ loggedIn' = loggedIn \ {s}
    /\ UNCHANGED resized

\* IRCClient::evtChannelJoined, which may be late: any name is possible
ChannelJoined(c) ==
    /\ channels' = MarkJoined(channels, c)
    /\ UNCHANGED <<loggedIn, resized>>

\* IRCClient::evtJoinChannel on session s, connected but perhaps not logged in
JoinChannel(c, s) ==
    /\ c \notin DOMAIN channels
    /\ channels' = AddChannel(channels, c, s)
    /\ resized' = TRUE
    /\ UNCHANGED loggedIn

\* IRCClient::evtLeaveChannel
LeaveChannel(c) ==
    /\ c \in DOMAIN channels
    /\ channels' = ExtractChannel(channels, c)
    /\ resized' = TRUE
    /\ UNCHANGED loggedIn

CoverageNext ==
    \/ \E s \in Sessions : LogIn(s) \/ Disconnect(s)
    \/ \E c \in Channels : ChannelJoined(c) \/ LeaveChannel(c)
    \/ \E c \in Channels, s \in Sessions : JoinChannel(c, s)

CoverageSpec == CoverageInit /\ [][CoverageNext]_coverageVars
-----------------------------------------------------------------------------
Entry == [session : Sessions \cup {NoSession}, joined : BOOLEAN]

\* The map's keys are channel names and its values sessions of this client.
TypeOK == /\ DOMAIN channels \subseteq Channels
          /\ channels \in [DOMAIN channels -> Entry]
          /\ loggedIn \subseteq Sessions
          /\ resized \in BOOLEAN

\* A session that is not logged in holds no channel: onDisconnected gave back
\* everything its last login reserved.
NoChannelWithoutLogin ==
    resized \/ \A s \in Sessions \ loggedIn : HeldBy(channels, s) = {}

\* No session holds more than one login's share.
FairShare ==
    resized \/ \A s \in Sessions :
        Cardinality(HeldBy(channels, s)) <= Share(channels, SessionCount)

\* The channels still waiting fit the sessions still to log in.
RoomForWaiting ==
    resized \/ Cardinality(Unattached(channels))
        <= Share(channels, SessionCount) * Cardinality(Sessions \ loggedIn)

\* With every session logged in, every channel load() brought has a session.
Covered ==
    ~ resized /\ loggedIn = Sessions => Unattached(channels) = {}

\* A channel passes from one session to another only through being detached
\* (and so through the PART that forgets its confirmation).
NeverStolen ==
    [][\A c \in DOMAIN channels \cap DOMAIN channels' :
          \/ channels'[c].session = channels[c].session
          \/ ~ Attached(channels, c)
          \/ channels'[c] = Detached]_coverageVars
=============================================================================
