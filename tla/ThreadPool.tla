----------------------------- MODULE ThreadPool -----------------------------
(***************************************************************************)
(* The pool of src/common/ThreadPool.h and ThreadPool.cpp: workers that    *)
(* wait on a condition variable for the queue to fill, and an owner that   *)
(* hands tasks in and at last destroys the pool.  A task may hand in one   *)
(* task more.                                                              *)
(*                                                                         *)
(* A section under the mutex is one step: it never waits inside, but for   *)
(* enqueue on a pool that is being destroyed.  That asks the future of its *)
(* own task for a result, with the mutex held; nobody will run the task,   *)
(* so the caller stands there (stuck) and with it everyone who locks.      *)
(***************************************************************************)
EXTENDS Naturals, Sequences

CONSTANTS Workers,
          Given,      \* the tasks the owner hands in, a sequence
          Child,      \* a function: the task that a task hands in, or None
          None,
          Owner       \* the thread that creates and destroys the pool

VARIABLES tasks,      \* the queue
          stop,
          thread,     \* what each worker does
          running,    \* the task of each worker that runs one
          notifying,  \* threads between the unlock and notify_one of enqueue
          given,      \* how many tasks the owner has handed in
          owner,      \* "working", "stopping", "joining" or "gone"
          stuck,      \* threads that wait for a task nobody runs
          accepted, done

poolVars == <<tasks, stop, thread, running, notifying, given, owner, stuck, accepted, done>>

PoolInit ==
    /\ tasks = <<>> /\ stop = FALSE
    /\ thread = [w \in Workers |-> "awake"]
    /\ running = [w \in Workers |-> None]
    /\ notifying = {} /\ given = 0 /\ owner = "working" /\ stuck = {}
    /\ accepted = {} /\ done = {}

MutexFree == stuck = {}
-----------------------------------------------------------------------------
(* The workers: the predicate of condition.wait, under the mutex *)

Sleeps(w) ==
    /\ ~ stop /\ tasks = <<>>
    /\ thread' = [thread EXCEPT ![w] = "asleep"]
    /\ UNCHANGED <<tasks, running>>

\* A slip: the queue is not looked at.
LeavesAtOnce(w) == stop /\ thread' = [thread EXCEPT ![w] = "gone"] /\ UNCHANGED <<tasks, running>>

Leaves(w) ==
    /\ stop /\ tasks = <<>>
    /\ thread' = [thread EXCEPT ![w] = "gone"]
    /\ UNCHANGED <<tasks, running>>

Takes(w) ==
    /\ tasks # <<>>
    /\ running' = [running EXCEPT ![w] = Head(tasks)]
    /\ tasks' = Tail(tasks)
    /\ thread' = [thread EXCEPT ![w] = "runs"]

Looks(w) ==
    /\ thread[w] = "awake" /\ MutexFree
    /\ Sleeps(w) \/ Leaves(w) \/ Takes(w)
    /\ UNCHANGED <<stop, notifying, given, owner, stuck, accepted, done>>

\* condition_variable may wake a thread for no reason.
Spurious(w) ==
    /\ thread[w] = "asleep"
    /\ thread' = [thread EXCEPT ![w] = "awake"]
    /\ UNCHANGED <<tasks, stop, running, notifying, given, owner, stuck, accepted, done>>
-----------------------------------------------------------------------------
(* enqueue: the queue under the mutex, the notification after it *)

\* A slip: who handed a task in does not notify.
AcceptsQuietly(by, task) ==
    /\ MutexFree /\ ~ stop
    /\ tasks' = Append(tasks, task)
    /\ accepted' = accepted \cup {task}
    /\ UNCHANGED <<notifying, stuck>>

Accepts(by, task) ==
    /\ MutexFree /\ ~ stop
    /\ tasks' = Append(tasks, task)
    /\ accepted' = accepted \cup {task}
    /\ notifying' = notifying \cup {by}
    /\ UNCHANGED stuck

Hangs(by) ==
    /\ MutexFree /\ stop
    /\ stuck' = {by}
    /\ UNCHANGED <<tasks, accepted, notifying>>

notify_one(by) ==
    /\ by \in notifying
    /\ notifying' = notifying \ {by}
    /\ IF \E w \in Workers : thread[w] = "asleep"
       THEN \E w \in Workers : /\ thread[w] = "asleep"
                               /\ thread' = [thread EXCEPT ![w] = "awake"]
       ELSE UNCHANGED thread
    /\ UNCHANGED <<tasks, stop, running, given, owner, stuck, accepted, done>>

\* A task that hands in another does so once, and ends after the notification.
HandsIn(w) ==
    /\ thread[w] = "runs" /\ Child[running[w]] # None
    /\ Accepts(w, Child[running[w]]) \/ Hangs(w)
    /\ thread' = [thread EXCEPT ![w] = "ends"]
    /\ UNCHANGED <<stop, running, given, owner, done>>

Ends(w) ==
    /\ \/ thread[w] = "runs" /\ Child[running[w]] = None
       \/ thread[w] = "ends" /\ w \notin notifying \cup stuck
    /\ done' = done \cup {running[w]}
    /\ running' = [running EXCEPT ![w] = None]
    /\ thread' = [thread EXCEPT ![w] = "awake"]
    /\ UNCHANGED <<tasks, stop, notifying, given, owner, stuck, accepted>>

OwnerHandsIn ==
    /\ owner = "working" /\ given < Len(Given) /\ Owner \notin notifying
    /\ Accepts(Owner, Given[given + 1])
    /\ given' = given + 1
    /\ UNCHANGED <<stop, thread, running, owner, done>>
-----------------------------------------------------------------------------
(* ~ThreadPool, at any time *)

Stops ==
    /\ owner = "working" /\ Owner \notin notifying /\ MutexFree
    /\ stop' = TRUE
    /\ owner' = "stopping"
    /\ UNCHANGED <<tasks, thread, running, notifying, given, stuck, accepted, done>>

notify_all ==
    /\ owner = "stopping"
    /\ thread' = [w \in Workers |-> IF thread[w] = "asleep" THEN "awake" ELSE thread[w]]
    /\ owner' = "joining"
    /\ UNCHANGED <<tasks, stop, running, notifying, given, stuck, accepted, done>>

Joins ==
    /\ owner = "joining"
    /\ \A w \in Workers : thread[w] = "gone"
    /\ owner' = "gone"
    /\ UNCHANGED <<tasks, stop, thread, running, notifying, given, stuck, accepted, done>>
-----------------------------------------------------------------------------
\* The steps that the system takes without being asked: a thread that can go on
\* does.  That the owner hands in more or destroys the pool is its choice.
WorkerStep(w) == Looks(w) \/ HandsIn(w) \/ notify_one(w) \/ Ends(w)
OwnerGoesOn == notify_one(Owner) \/ notify_all \/ Joins

PoolNext ==
    \/ \E w \in Workers : WorkerStep(w) \/ Spurious(w)
    \/ OwnerHandsIn \/ Stops \/ OwnerGoesOn
-----------------------------------------------------------------------------
\* What was accepted is run, even when the pool is being destroyed meanwhile, and
\* the destructor returns with nothing left; unless a task handed in another too
\* late and everyone is stuck.  (The tasks are finitely many.)
PoolDrains ==
    /\ <>[](accepted = done \/ stuck # {})
    /\ owner = "stopping" ~> (owner = "gone" /\ accepted = done) \/ stuck # {}
=============================================================================
