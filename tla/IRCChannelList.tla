--------------------------- MODULE IRCChannelList ---------------------------
(***************************************************************************)
(* The channel list of one IRC account: a map from channel name to the     *)
(* session the channel is attached to and to whether the server confirmed  *)
(* the JOIN.  Every method of the class IRCChannelList holds its mutex for *)
(* its whole body, so each is one operator on the map here and one atomic  *)
(* step in the modules that use it.                                        *)
(*                                                                         *)
(* The map is ordered by name and reservation walks it in that order; the  *)
(* names mean nothing else, so the order is left open (Reservations).      *)
(***************************************************************************)
EXTENDS Integers, FiniteSets

CONSTANT NoSession   \* the null session pointer of a detached channel

Detached == [session |-> NoSession, joined |-> FALSE]

\* load(): the map is replaced by one fresh, detached entry per loaded name.
Load(names) == [c \in names |-> Detached]

Attached(channels, c) == channels[c].session # NoSession

Unattached(channels) == {c \in DOMAIN channels : ~ Attached(channels, c)}

HeldBy(channels, s) == {c \in DOMAIN channels : channels[c].session = s}

\* How many channels one login may reserve.  count is session_count of the
\* account's row; it divides, so a row with session_count = 0 is outside.
RoundedDown(channels, count) == Cardinality(DOMAIN channels) \div count
Share(channels, count) == Cardinality(DOMAIN channels) \div count + 1

\* The sets reserveChannelsForSession may return: it stops at a share of
\* the channels or when no detached channel is left.
AnyChannel(channels, count) ==
    {R \in SUBSET (DOMAIN channels) : Cardinality(R) <= Share(channels, count)}
Reservations(channels, count) ==
    LET cap == Share(channels, count)
        all == Unattached(channels)
    IN {R \in SUBSET all :
           IF Cardinality(all) <= cap THEN R = all ELSE Cardinality(R) = cap}

\* attach() leaves the joined mark of the entry as it was.
Attach(channels, R, s) ==
    [c \in DOMAIN channels |->
        IF c \in R THEN [channels[c] EXCEPT !.session = s] ELSE channels[c]]

\* detachAndPartFromSession(): detach and forget the confirmation.
DetachFrom(channels, s) ==
    [c \in DOMAIN channels |->
        IF channels[c].session = s THEN Detached ELSE channels[c]]

\* markChannelJoined(): by name alone, whichever session holds the channel.
MarkJoined(channels, name) ==
    [c \in DOMAIN channels |->
        IF c = name THEN [channels[c] EXCEPT !.joined = TRUE] ELSE channels[c]]

\* selectNotJoinedChannels(): names no longer in the map are skipped.
OnlyJoined(channels, names) ==
    {c \in names \cap DOMAIN channels : channels[c].joined}
WithRemoved(channels, names) ==
    {c \in names : c \in DOMAIN channels => ~ channels[c].joined}
NotJoined(channels, names) ==
    {c \in names \cap DOMAIN channels : ~ channels[c].joined}

\* addChannel(): emplace, which keeps an entry already there.
AddChannel(channels, name, s) ==
    [c \in DOMAIN channels \cup {name} |->
        IF c \in DOMAIN channels
        THEN channels[c]
        ELSE [session |-> s, joined |-> FALSE]]

\* extractChannel(): the entry leaves the map.
ExtractChannel(channels, name) ==
    [c \in DOMAIN channels \ {name} |-> channels[c]]
=============================================================================
