---------------------------- MODULE MCIRCClient ----------------------------
(* Small accounts for TLC: one or two sessions, one channel; three         *)
(* sessions of which a reload leaves two; and three channels for two       *)
(* sessions, more than one login's share.                                  *)
EXTENDS IRCClient, TLC

CONSTANT a

MCChannels == {a}
MCLoads == {{a}}
MCSessions == {1, 2}
MCFive == 1 .. 5
MCRequests == {JoinChannel(a), LeaveChannel(a), SendMessage, Shutdown}
                  \cup {Reload(n) : n \in 0 .. 2}

\* Two sessions with a selector each, and a fault
Pair == [sessions |-> 2, oneSelector |-> FALSE, faults |-> 1, commands |-> {}]

\* One session, and two faults one after the other or together
Single == [sessions |-> 1, oneSelector |-> TRUE, faults |-> 2, commands |-> {}]

\* One session and what the controller asks for, any three of its requests
Bid(C) == [sessions |-> 1, oneSelector |-> TRUE, faults |-> 0, commands |-> C]
Three == {Bid(C) : C \in {D \in SUBSET {JoinChannel(a), LeaveChannel(a), Reload(1), Shutdown} :
                            Cardinality(D) = 3}}

\* Three sessions, of which a reload leaves two
Fewer == [sessions |-> 3, oneSelector |-> TRUE, faults |-> 1,
          commands |-> {JoinChannel(a), SendMessage, Reload(2)}]

MCAll == Three \cup {Pair, Single, Bid({JoinChannel(a), Reload(0)}), Fewer}
MCSingle == {Single}
MCReloaded == {Bid({Reload(1)})}

\* With three sessions the network is too slow for any to be connected before
\* the requests are handled, but they are long before the first timer fires.
Slowly ==
    SendMessage \in agenda =>
        /\ \A s \in Sessions : conn[s].net \in {"init", "connecting"}
        /\ \A i \in DOMAIN mailbox : mailbox[i].type # "LoggedInCheck"

\* Two sessions that share a selector, and two faults
MCShared == {[sessions |-> 2, oneSelector |-> TRUE, faults |-> 2, commands |-> {}]}
MCWhole == {Channels}
Symmetry == Permutations(Channels)

\* Where a session that reserves twice is to be looked for: the second session
\* is slow to connect until the first holds all, no JOIN is lost or confirmed,
\* and the server is never silent.
Slow ==
    /\ conn[2].net \in {"init", "connecting"} \/ faults = 0
          \/ Cardinality(HeldBy(channels, 1)) = Cardinality(Channels)
    /\ \A s \in Sessions : ~ conn[s].quiet /\ "in" \notin {server[s][c] : c \in Channels}
    /\ Cardinality(DOMAIN delayed) + Len(mailbox) <= 6
=============================================================================
