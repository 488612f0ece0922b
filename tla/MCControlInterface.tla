------------------------- MODULE MCControlInterface -------------------------
(* One connection and one session; every kind of answer.                  *)
EXTENDS ControlInterface, TLC

CONSTANTS k1, nk, x, w1

Ask(auth, path, body, keep) == [auth |-> auth, path |-> path, body |-> body, keep |-> keep]

MCConnections == {k1}
MCRequests == {Ask("none", "app/version", "", FALSE),
               Ask("password", "app/shutdown", "", TRUE),
               Ask("password", "stats/irc", "", FALSE),
               Ask("password", "stats/account", "bad", FALSE),
               Ask("password", "stats/account", "wrong", FALSE),
               Ask("password", "stats/account", nk, TRUE)}
MCNicks == {nk}
MCIds == {0}
MCChannels == {x}
MCWorkers == {w1}
=============================================================================
