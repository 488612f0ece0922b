----------------------------- MODULE StandAlone -----------------------------
(***************************************************************************)
(* The parts of the program that share no state with any other: the        *)
(* addresses (URI), the ring buffer (BufferStatic), the thread pool        *)
(* (ThreadPool), an outgoing HTTP session (HTTPClientSession) and the      *)
(* selectors, whichever clients call them (IRCSelectorPool); and the       *)
(* channel list under the callers its comments describe, a world of its    *)
(* own (ChannelCoverage).  A behaviour is one of them at work (focus), the *)
(* others at rest: since they never touch each other, nothing is lost by   *)
(* not interleaving them.                                                  *)
(***************************************************************************)
EXTENDS BufferStatic, URI, ChannelCoverage

CONSTANTS Workers, Given, Child, None, Owner,
          Served, MaxThreads    \* the IRC sessions, and how many selectors at most

\* The pool is made for a number of threads, two at least unless it is told
\* otherwise; its owner is not among them.
ASSUME WorkersAssumption ==
    /\ IsFiniteSet(Workers) /\ Workers # {}
    /\ Owner \notin Workers

\* Each call of enqueue makes a task of its own.
ASSUME TasksAssumption ==
    /\ Given \in Seq(DOMAIN Child) /\ None \notin DOMAIN Child
    /\ \A task \in DOMAIN Child : Child[task] \in DOMAIN Child \cup {None}
    /\ \A i, j \in 1 .. Len(Given) : Given[i] = Given[j] => i = j
    /\ \A one, two \in DOMAIN Child : Child[one] = Child[two] /\ Child[one] # None => one = two
    /\ \A i \in 1 .. Len(Given) : \A task \in DOMAIN Child : Child[task] # Given[i]

VARIABLES focus
VARIABLES tasks, stop, thread, running, notifying, given, owner, stuck, accepted, done
VARIABLES tls, stage, left, age
VARIABLES threads, list, copy, needSync, cursor, fresh, held, removing, terminated, damaged

Pool == INSTANCE ThreadPool
Session == INSTANCE HTTPClientSession
Selector == INSTANCE IRCSelectorPool WITH Sessions <- Served, broken <- damaged

pool == <<tasks, stop, thread, running, notifying, given, owner, stuck, accepted, done>>
session == <<tls, stage, left, age>>
selectors == <<threads, list, copy, needSync, cursor, fresh, held, removing, terminated,
               damaged>>
vars == <<focus, uriVars, bufferVars, coverageVars, pool, session, selectors>>

Init ==
    /\ focus \in {"address", "buffer", "list", "pool", "session", "selectors"}
    /\ AddressInit /\ BufferInit /\ CoverageInit /\ Pool!PoolInit /\ Session!ClientInit
    /\ Selector!Init
    /\ focus # "list" => channels = Load({})
    /\ focus # "selectors" => threads = 1

AddressMoves ==
    /\ focus = "address" /\ AddressNext
    /\ UNCHANGED <<focus, bufferVars, coverageVars, pool, session, selectors>>
BufferMoves ==
    /\ focus = "buffer" /\ BufferNext
    /\ UNCHANGED <<focus, uriVars, coverageVars, pool, session, selectors>>
ListMoves ==
    /\ focus = "list" /\ CoverageNext
    /\ UNCHANGED <<focus, uriVars, bufferVars, pool, session, selectors>>
PoolMoves ==
    /\ focus = "pool" /\ Pool!PoolNext
    /\ UNCHANGED <<focus, uriVars, bufferVars, coverageVars, session, selectors>>
SessionMoves ==
    /\ focus = "session" /\ Session!ClientNext
    /\ UNCHANGED <<focus, uriVars, bufferVars, coverageVars, pool, selectors>>
SelectorMoves ==
    /\ focus = "selectors" /\ Selector!Next
    /\ UNCHANGED <<focus, uriVars, bufferVars, coverageVars, pool, session>>

Next ==
    \/ AddressMoves \/ BufferMoves \/ ListMoves
    \/ PoolMoves \/ SessionMoves \/ SelectorMoves

\* The system runs the threads of the pool and the selectors, and its timers and
\* its resolver answer a session; what the owner of the pool does, and whether
\* the other side of a session answers, is up to them.
Fairness ==
    /\ \A w \in Workers : WF_pool(focus = "pool" /\ Pool!WorkerStep(w))
    /\ WF_pool(focus = "pool" /\ Pool!OwnerGoesOn)
    /\ WF_session(focus = "session" /\ Session!GoesOn)
    /\ Selector!Fairness

Spec == Init /\ [][Next]_vars /\ Fairness
-----------------------------------------------------------------------------
(* What each is checked for; see the modules. *)

PoolDrains == Pool!PoolDrains
SessionEnds == Session!SessionEnds
ServedOnce == Selector!ServedOnce
Spread == Selector!Spread
HeldAreServed == Selector!HeldAreServed
RemovedAreLeft == Selector!RemovedAreLeft

\* No wakeup is lost: while a worker sleeps, each task in the queue has somebody
\* on the way to it, a worker that is awake or a thread that is about to notify
\* one; and nobody sleeps once the destructor joins, for nothing would wake him.
WorkIsSeen ==
    (\E w \in Workers : thread[w] = "asleep") =>
        /\ owner \in {"working", "stopping"}
        /\ Len(tasks) <= Cardinality(notifying)
                          + Cardinality({w \in Workers : thread[w] = "awake"})
=============================================================================
