-------------------------- MODULE HTTPClientSession --------------------------
(***************************************************************************)
(* One outgoing request, src/http/client/HTTPClientSession.cpp: a chain of *)
(* asynchronous operations, each started by the handler of the one before. *)
(* The other side may answer, fail, or stay silent; the only thing that    *)
(* ends a silent operation is the deadline of the stream.                  *)
(*                                                                         *)
(* Time is counted in units of five seconds.  The name is looked up without *)
(* a deadline: the resolver of the system is taken to answer in the end.   *)
(***************************************************************************)
EXTENDS Integers

VARIABLES tls,       \* which of the two streams
          stage,     \* the operation that is under way, or "ended"
          left,      \* units left before the stream's deadline, or Unset
          age        \* units since the name was found, up to MaxAge

clientVars == <<tls, stage, left, age>>

Unset == -1
MaxAge == 20

ClientInit ==
    /\ tls \in BOOLEAN
    /\ stage = "new" /\ left = Unset /\ age = 0

Starts(next) == stage' = next
Expires(units) == left' = units
Ends == Starts("ended") /\ UNCHANGED <<tls, left, age>>

\* With TLS the name of the host is set first, and that may fail.
run ==
    /\ stage = "new"
    /\ \/ tls /\ Ends
       \/ Starts("resolve") /\ UNCHANGED <<tls, left, age>>

\* A slip: the deadline is not set.
NoDeadline == stage = "resolve" /\ Starts("connect") /\ UNCHANGED <<tls, left, age>>

onResolve ==
    /\ stage = "resolve"
    /\ Starts("connect") /\ Expires(6)
    /\ UNCHANGED <<tls, age>>

\* A handshake goes on under the deadline of the connection.
onConnect ==
    /\ stage = "connect"
    /\ IF tls THEN Starts("handshake") /\ UNCHANGED left
              ELSE Starts("write") /\ Expires(1)
    /\ UNCHANGED <<tls, age>>

onHandshake ==
    /\ stage = "handshake"
    /\ Starts("write") /\ Expires(6)
    /\ UNCHANGED <<tls, age>>

\* The answer is read under the deadline of the request.
onWrite ==
    /\ stage = "write"
    /\ Starts("read")
    /\ UNCHANGED <<tls, left, age>>

\* A plain socket is shut down at once, a TLS stream after a last exchange.
onRead ==
    /\ stage = "read"
    /\ IF tls THEN Starts("shutdown") /\ Expires(6) ELSE Starts("ended") /\ UNCHANGED left
    /\ UNCHANGED <<tls, age>>

onShutdown == stage = "shutdown" /\ Ends

\* Every handler that is called with an error only logs: the last reference
\* to the session goes with it.
Fails == stage \in {"resolve", "connect", "handshake", "write", "read", "shutdown"} /\ Ends

Underway == stage \in {"connect", "handshake", "write", "read", "shutdown"}

TimesOut == Underway /\ left = 0 /\ Ends

\* Time stands still only for a deadline that has come, and for the bound.
Tick ==
    /\ Underway /\ left # 0 /\ age < MaxAge
    /\ left' = IF left = Unset THEN Unset ELSE left - 1
    /\ age' = age + 1
    /\ UNCHANGED <<tls, stage>>

ResolverAnswers == onResolve \/ (stage = "resolve" /\ Fails)
PeerAnswers == onConnect \/ onHandshake \/ onWrite \/ onRead \/ onShutdown

ClientNext == run \/ ResolverAnswers \/ PeerAnswers \/ Fails \/ TimesOut \/ Tick

\* Time passes, timers fire, the resolver answers; the other side need not, and
\* is not waited for.
GoesOn == run \/ ResolverAnswers \/ TimesOut \/ Tick
-----------------------------------------------------------------------------
\* From the answer of the resolver on, a plain request takes at most 35 seconds
\* and one over TLS 90, however slow the other side is at every stage...
InTime == age <= IF tls THEN 18 ELSE 7

\* ... and every request that was started ends, and by then.  (Its age stands
\* still once it has ended.)
SessionEnds == stage = "resolve" ~> stage = "ended" /\ InTime
=============================================================================
