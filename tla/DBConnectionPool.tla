-------------------------- MODULE DBConnectionPool --------------------------
(***************************************************************************)
(* The pool of database connections, used by threads the way every method  *)
(* of DBController uses the PostgreSQL pool: a DBConnectionLock takes a    *)
(* connection, ping() goes through retryGuard, the request is sent, and    *)
(* the lock's destructor gives the connection back.  No method takes a     *)
(* second connection while it holds one.                                   *)
(*                                                                         *)
(* lockConnection is one step up to its wait; unlockConnection is two, for *)
(* notify_one is called after the mutex is released.  The condition        *)
(* variable may also wake a thread spuriously.                             *)
(***************************************************************************)
EXTENDS Integers, Sequences, FiniteSets, SequencesExt

CONSTANTS Threads,       \* the threads that call DBController
          Connections,   \* the connections init() tries to create
          NoConnection,  \* the null pointer
          SendRetries,   \* send_retries of the configuration
          MaxRequests,   \* bound: requests a thread makes
          MaxOutages     \* bound: times the database goes away

ASSUME PoolAssumption ==
    /\ IsFiniteSet(Threads) /\ IsFiniteSet(Connections)
    /\ NoConnection \notin Connections
    /\ SendRetries \in Nat
    /\ MaxRequests \in Nat
    /\ MaxOutages \in Nat

VARIABLES queue,     \* the member pool: connections nobody holds, oldest first
          active,    \* the member active: did init() create any connection
          at,        \* where each thread is in its request
          held,      \* the connection of the thread's DBConnectionLock
          attempt,   \* i of the thread's retryGuard
          left,      \* requests the thread has yet to make
          linked,    \* the connections whose socket still works
          up,        \* does the database accept connections
          outages    \* times it went away

poolVars == <<queue, active, held>>
dbVars == <<linked, up, outages>>
vars == <<queue, active, at, held, attempt, left, linked, up, outages>>

Places == {"idle", "waiting", "woken", "null", "ping", "sleep", "request",
           "return", "notify"}

ThreadsAt(place) == {t \in Threads : at[t] = place}

Move(t, place) == at' = [at EXCEPT ![t] = place]
-----------------------------------------------------------------------------
\* init(): the connections that could be established, in the order of creation.
Init ==
    /\ \E S \in SUBSET Connections : queue \in SetToSeqs(S) /\ linked = S
    /\ active = (queue # <<>>)
    /\ at = [t \in Threads |-> "idle"]
    /\ held = [t \in Threads |-> NoConnection]
    /\ attempt = [t \in Threads |-> 0]
    /\ left = [t \in Threads |-> MaxRequests]
    /\ up = TRUE
    /\ outages = 0

\* The loop of lockConnection, entered with the mutex held.
Peek(t) ==
    /\ held' = [held EXCEPT ![t] = Head(queue)]
    /\ UNCHANGED <<queue, active>>
Pop(t) ==
    /\ held' = [held EXCEPT ![t] = Head(queue)]
    /\ queue' = Tail(queue)
    /\ UNCHANGED active

TakeOrWait(t) ==
    /\ \/ /\ queue # <<>>
          /\ Pop(t)
          /\ Move(t, "ping")
          /\ attempt' = [attempt EXCEPT ![t] = 0]
       \/ /\ queue = <<>>
          /\ Move(t, "waiting")
          /\ UNCHANGED <<poolVars, attempt>>
    /\ UNCHANGED <<left, dbVars>>

\* A thread starts a request: DBConnectionLock's constructor.
LockConnection(t) ==
    /\ at[t] = "idle" /\ left[t] > 0
    /\ active
    /\ TakeOrWait(t)

\* An inactive pool returns null, and the caller calls ping() on it.
LockInactive(t) ==
    /\ at[t] = "idle" /\ left[t] > 0
    /\ ~ active
    /\ Move(t, "null")
    /\ UNCHANGED <<poolVars, attempt, left, dbVars>>

\* condition.wait returns without a notification
SpuriousWakeup(t) ==
    /\ at[t] = "waiting"
    /\ Move(t, "woken")
    /\ UNCHANGED <<poolVars, attempt, left, dbVars>>

\* A woken thread has the mutex again; another may have been faster.
Recheck(t) ==
    /\ at[t] = "woken"
    /\ TakeOrWait(t)

\* retryGuard: func(), here request("SELECT 1;")
Ping(t) ==
    /\ at[t] = "ping"
    /\ Move(t, IF held[t] \in linked THEN "request" ELSE "sleep")
    /\ UNCHANGED <<poolVars, attempt, left, dbVars>>

\* retryGuard gives up only where a reset fails at exactly i == sendRetries.
NeverGivesUp(t) == FALSE
GivesUp(t) == ~ up /\ attempt[t] = SendRetries

\* retryGuard: the delay, resetConnect() and the test after it.  Past
\* sendRetries the counter no longer matters, so it stops there.
Reset(t) ==
    /\ at[t] = "sleep"
    /\ linked' = IF up THEN linked \cup {held[t]} ELSE linked \ {held[t]}
    /\ IF GivesUp(t)
       THEN Move(t, "return") /\ UNCHANGED attempt
       ELSE /\ Move(t, "ping")
            /\ attempt' = [attempt EXCEPT ![t] =
                             IF @ > SendRetries THEN @ ELSE @ + 1]
    /\ UNCHANGED <<poolVars, left, up, outages>>

\* The statement itself; its result does not matter here.
Request(t) ==
    /\ at[t] = "request"
    /\ Move(t, "return")
    /\ UNCHANGED <<poolVars, attempt, left, dbVars>>

\* unlockConnection: the push, under the mutex.
Push(t) ==
    /\ queue' = Append(queue, held[t])
    /\ held' = [held EXCEPT ![t] = NoConnection]
    /\ UNCHANGED active

Return(t) ==
    /\ at[t] = "return"
    /\ Push(t)
    /\ Move(t, "notify")
    /\ UNCHANGED <<attempt, left, dbVars>>

\* Where each thread is after t called notify_one.
NotifyNobody(t) == {[at EXCEPT ![t] = "idle"]}
Notified(t) ==
    IF ThreadsAt("waiting") = {}
    THEN {[at EXCEPT ![t] = "idle"]}
    ELSE {[at EXCEPT ![t] = "idle", ![w] = "woken"] : w \in ThreadsAt("waiting")}

\* unlockConnection: notify_one, without the mutex; then the request is over.
NotifyOne(t) ==
    /\ at[t] = "notify"
    /\ at' \in Notified(t)
    /\ left' = [left EXCEPT ![t] = @ - 1]
    /\ UNCHANGED <<poolVars, attempt, dbVars>>
-----------------------------------------------------------------------------
\* The database goes away, and every connection to it breaks.
Outage ==
    /\ up /\ outages < MaxOutages
    /\ up' = FALSE
    /\ linked' = {}
    /\ outages' = outages + 1
    /\ UNCHANGED <<poolVars, at, attempt, left>>

Recover ==
    /\ ~ up
    /\ up' = TRUE
    /\ UNCHANGED <<poolVars, at, attempt, left, linked, outages>>

\* A step the program takes when the scheduler runs thread t.
Run(t) == LockConnection(t) \/ LockInactive(t) \/ Recheck(t) \/ Ping(t)
          \/ Reset(t) \/ Request(t) \/ Return(t) \/ NotifyOne(t)

Next == \/ \E t \in Threads : Run(t) \/ SpuriousWakeup(t)
        \/ Outage
        \/ Recover

Spec == Init /\ [][Next]_vars

\* Every thread that can run is scheduled; nothing makes the database recover.
FairSpec == Spec /\ \A t \in Threads : WF_vars(Run(t))
-----------------------------------------------------------------------------
TypeOK ==
    /\ queue \in Seq(Connections)
    /\ active \in BOOLEAN
    /\ at \in [Threads -> Places]
    /\ held \in [Threads -> Connections \cup {NoConnection}]
    /\ attempt \in [Threads -> 0 .. SendRetries + 1]
    /\ left \in [Threads -> 0 .. MaxRequests]
    /\ linked \subseteq Connections
    /\ up \in BOOLEAN
    /\ outages \in 0 .. MaxOutages

\* No wakeup is lost although notify_one is called after the mutex is released:
\* while a thread sleeps on the condition variable, each connection in the pool
\* is matched by a thread that is awake and will look, or is about to notify.
NoLostWakeup ==
    ThreadsAt("waiting") # {} =>
        Len(queue) <= Cardinality(ThreadsAt("woken"))
                      + Cardinality(ThreadsAt("notify"))

\* The pool with its locks is the lease of ConnectionLease: a connection is
\* taken by one thread only and comes back to the pool once.
Lease == INSTANCE ConnectionLease WITH free <- Range(queue), holds <- held
ImplementsLease == Lease!Spec

\* Every request ends, and no thread sleeps on the condition variable for ever,
\* if the database comes back for good or goes away only once.  (retryGuard may
\* miss its only chance to give up when the database comes back and goes away
\* again while it retries.)
RequestsEnd ==
    (<>[]up \/ [](outages <= 1)) =>
        <>(\A t \in Threads : left[t] = 0 \/ at[t] = "null")
=============================================================================
