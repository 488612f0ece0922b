---------------------------- MODULE MCStandAlone ----------------------------
(***************************************************************************)
(* Addresses of every shape the parser distinguishes, short enough to be   *)
(* enumerated; a buffer of three bytes; two workers and three tasks, two   *)
(* of which hand in another; up to four channels for three sessions, more  *)
(* than one login's share each; four IRC sessions over one to three        *)
(* selector threads.                                                       *)
(***************************************************************************)
EXTENDS StandAlone, TLC

CONSTANTS r1, r2, r3, r4

MCLower == ("HTTP" :> "http") @@ ("H" :> "h")
MCNumber == ("0" :> 0) @@ ("80" :> 80) @@ ("8080" :> 8080) @@ ("99999" :> 99999)
MCPort == (<<"http">> :> 80)

\* Texts of at most n tokens, no word next to another
MCSpelt(n, tokens) ==
    {text \in UNION {[1 .. k -> tokens] : k \in 0 .. n} :
        \A i \in 2 .. Len(text) :
            {text[i - 1], text[i]} \cap ({"/", ":"} \cup Range(Escapes)) # {}}

MCUrl(s, u, h, p, path, q, f) ==
    [scheme |-> s, user |-> u, host |-> h, port |-> p, path |-> path, query |-> q,
     fragment |-> f]
MCSchemes == {<<>>, <<"HTTP", ":">>, <<"s", ":">>, <<"file", ":">>}
MCTails == {<<>>, <<"?", "q">>}
MCUrlPaths == MCSpelt(4, {"a", "..", "/"})

\* Every authority; every path without one; every path after one; escapes
MCUrls ==
    {MCUrl(s, u, h, p, path, q, <<>>) :
        s \in MCSchemes, u \in {<<>>, <<"u", "@">>},
        h \in {<<>>, <<"H">>, <<"[", "x", ":", "b", "]">>},
        p \in {<<>>, <<":">>, <<":", "80">>, <<":", "8080">>, <<":", "99999">>},
        path \in {<<>>, <<"/", "a">>}, q \in MCTails}
    \cup {MCUrl(s, <<>>, <<>>, <<>>, path, q, f) :
        s \in MCSchemes, path \in MCUrlPaths, q \in MCTails,
        f \in {<<>>, <<"#", "f">>, <<"#", "%zz">>}}
    \cup {MCUrl(s, <<>>, <<"h">>, <<>>, path, q, <<>>) :
        s \in MCSchemes, q \in MCTails,
        path \in {text \in MCUrlPaths : text = <<>> \/ text[1] = "/"}}
    \cup {MCUrl(<<"s", ":">>, <<>>, h, <<>>, <<"/">> \o text, <<>>, <<>>) :
        h \in {<<>>, <<"h">>},
        text \in MCSpelt(3, {"a", "%2F", "%3F", "%zz"})
                    \cup {<<"a", t>> : t \in Range(Escapes) \cup {"%3f", ";", " ", "@", ":"}}}

MCReferences ==
    MCSpelt(3, {"b", ".", "..", "/"})
    \cup {path \o q : path \in {<<>>, <<"b">>, <<"/", "b">>},
                      q \in {<<"?", "r">>, <<"#", "g">>}}
    \cup {<<"b", "#", "%zz">>, <<"s", ":", "/", "b", "/", "..">>, <<"b", ":", "a">>}

MCWords == {<<"s">>, <<"HTTP">>, <<"x", ":", "b">>, <<"x", "%40", "b">>, <<"x", "/", "b">>, <<>>}
MCPorts == {0, 80, 8080}
MCPaths == {<<"a", "%2F", "b">>, <<"%3F">>, <<"a", ":", "b">>, <<"/", "%25", " ", "%3B">>}
MCQueries == {<<"q">>, <<"a", "#", "%">>}

MCServed == {r1, r2, r3, r4}

MCGiven == <<"t1", "t2", "t3">>
MCChild == [t \in {"t1", "t2", "t3", "c1", "c2"} |->
               CASE t = "t1" -> "c1" [] t = "t2" -> "c2" [] OTHER -> None]
=============================================================================
