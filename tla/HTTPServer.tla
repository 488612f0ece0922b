----------------------------- MODULE HTTPServer -----------------------------
(***************************************************************************)
(* The HTTP server of the control interface: HTTPListener accepts, one     *)
(* HTTPServerSession per connection reads a request, has it handled and    *)
(* writes the answer before it reads the next one.  Nothing but a pending  *)
(* operation of the io_context, or the message that carries the request,   *)
(* owns a session: it is closed when the last of these is gone.            *)
(*                                                                         *)
(* The deadline of 30 seconds is set when a request is to be read and not  *)
(* again before the next one.  When it passes while the request is being   *)
(* handled, no operation is pending, and the write of the answer fails.    *)
(* A reset by the client shows at the same places: any read and any write  *)
(* may fail.  The TLS handshake is part of the first read and the TLS      *)
(* shutdown of the close, after which nothing follows.                     *)
(***************************************************************************)
EXTENDS Integers, Sequences

CONSTANTS Connections,   \* what clients connect by, each used once
          MaxRequests,   \* bound: requests per connection
          NoAnswer

VARIABLES ioc,         \* the io_context: running, stopped, destroyed
          accepting,   \* an async_accept is pending
          conn,        \* state of each session
          read,        \* how many requests a session has read
          got,         \* how many answers its client has got
          out          \* the answer a session is writing

serverVars == <<ioc, accepting, conn, read, got, out>>

\* A listener that could not bind only logs it: the server runs without one.
Init ==
    /\ ioc = "running"
    /\ accepting \in BOOLEAN
    /\ conn = [c \in Connections |-> "none"]
    /\ read = [c \in Connections |-> 0]
    /\ got = read
    /\ out = [c \in Connections |-> NoAnswer]

\* Sessions of which the io_context has an operation pending
Pending == {"reading", "writing"}

Become(c, state) == conn' = [conn EXCEPT ![c] = state]
-----------------------------------------------------------------------------
Accept(c) ==
    /\ ioc = "running" /\ accepting
    /\ conn[c] = "none"
    /\ Become(c, "reading")
    /\ UNCHANGED <<ioc, accepting, read, got, out>>

\* onAccept with an error logs it and accepts no more.
AcceptFails ==
    /\ ioc = "running" /\ accepting
    /\ accepting' = FALSE
    /\ UNCHANGED <<ioc, conn, read, got, out>>

\* onRead, up to the call of the handler; the request is number read'[c].
OnRead(c) ==
    /\ ioc = "running"
    /\ conn[c] = "reading"
    /\ read[c] < MaxRequests
    /\ read' = [read EXCEPT ![c] = @ + 1]
    /\ UNCHANGED <<ioc, accepting, got>>

\* What the session does from there until the answer comes: nothing.
ReadsOn == "reading"
WhileHandled == "handling"

\* HTTPServer::handleRequest and HttpController::handleRequest: a request is
\* refused, or sent to the agent that subscribes to its path.  (A request
\* record has the fields auth, path, body and keep.)
Authorized(r) == r.auth = "password"

Handler(path) ==
    CASE path \in {"app/shutdown", "app/version"} -> "Controller"
      [] path \in {"stats/irc", "stats/account", "stats/channel"} -> "StatsCollector"
      [] OTHER -> "nobody"

Refused(r) == ~ Authorized(r) \/ Handler(r.path) = "nobody"

\* SendLambda: the answer is written by whatever thread has it.  An answer has
\* the number n of its request and keeps the connection or not.
Write(c, answer) ==
    /\ Become(c, "writing")
    /\ out' = [out EXCEPT ![c] = answer]

OnWrite(c) ==
    /\ ioc = "running"
    /\ conn[c] = "writing"
    /\ \/ Become(c, "closed") /\ UNCHANGED got    \* the write fails
       \/ /\ got' = [got EXCEPT ![c] = @ + 1]
          /\ Become(c, IF out[c].keep THEN "reading" ELSE "closed")
    /\ out' = [out EXCEPT ![c] = NoAnswer]
    /\ UNCHANGED <<ioc, accepting, read>>

\* The client has no further request, or the read fails.
EndOfStream(c) ==
    /\ ioc = "running"
    /\ conn[c] = "reading"
    /\ Become(c, "closed")
    /\ UNCHANGED <<ioc, accepting, read, got, out>>
-----------------------------------------------------------------------------
\* A request that nobody takes is destroyed, and with it its session; the
\* socket is then closed through the io_context, which may be gone: undefined.
Released(c) == IF ioc = "destroyed" THEN "undefined" ELSE "closed"

Release(c) == Become(c, Released(c))

Stop == ioc' = "stopped"

\* ~HTTPServer joins the threads; ~io_context destroys the pending operations.
Destroy ==
    /\ ioc' = "destroyed"
    /\ accepting' = FALSE
    /\ conn' = [c \in Connections |-> IF conn[c] \in Pending THEN "closed" ELSE conn[c]]
    /\ out' = [c \in Connections |-> NoAnswer]

QuietStep ==
    \/ AcceptFails
    \/ \E c \in Connections :
          Accept(c) \/ EndOfStream(c)
-----------------------------------------------------------------------------
\* A client gets the answers to its requests in the order it asked, although
\* agents on several threads answer: the answer a session writes is that to
\* the next request, and the last one it has read.
AnswersInOrder ==
    \A c \in Connections :
        conn[c] = "writing" => out[c].n = got[c] + 1 /\ out[c].n = read[c]
=============================================================================
