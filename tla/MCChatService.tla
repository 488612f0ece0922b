--------------------------- MODULE MCChatService ---------------------------
(* Two accounts, of which one may be renamed and the other take its name,  *)
(* and two bots in one channel.                                            *)
EXTENDS ChatService, TLC

CONSTANTS alice, bob, carol, x

MCAccounts == {1, 2}
MCNicks == {alice, bob, carol}
MCTables == {(1 :> alice), (1 :> carol) @@ (2 :> bob), (1 :> carol) @@ (2 :> alice)}

MCBots == {1, 2}
MCChannels == {x}
MCConfigs == {(1 :> [account |-> 1, channel |-> x]) @@ (2 :> [account |-> 2, channel |-> x]),
              (1 :> [account |-> 2, channel |-> x])}

\* The account of the only bot is renamed.
MCRenamed == {(1 :> alice), (1 :> carol)}
MCOneBot == {(1 :> [account |-> 1, channel |-> x])}
=============================================================================
