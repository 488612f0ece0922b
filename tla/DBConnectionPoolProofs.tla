----------------------- MODULE DBConnectionPoolProofs -----------------------
(***************************************************************************)
(* For every number of threads, connections, requests and outages: the     *)
(* pool is a lease (ConnectionLease), and no wakeup of its condition       *)
(* variable is lost.  The two arguments share only the types.              *)
(***************************************************************************)
EXTENDS DBConnectionPool, FiniteSetTheorems, SequenceTheorems, TLAPS

Types ==
    /\ queue \in Seq(Connections)
    /\ at \in [Threads -> Places]
    /\ held \in [Threads -> Connections \cup {NoConnection}]

Using == {"ping", "sleep", "request", "return"}

\* A connection is in the queue once, or a thread holds it, never both.
Exclusive ==
    /\ \A i, j \in DOMAIN queue : queue[i] = queue[j] => i = j
    /\ \A t \in Threads : held[t] \notin Range(queue)
    /\ \A t, u \in Threads : held[t] = held[u] /\ held[t] # NoConnection => t = u
    /\ \A t \in Threads : held[t] # NoConnection <=> at[t] \in Using

LeaseInv == Types /\ Exclusive

-----------------------------------------------------------------------------
(* The two operations on the queue. *)

\* Tail: the connection at the head goes, and no other.
LEMMA PopRange ==
    ASSUME NEW S, NEW q \in Seq(S), q # <<>>,
           \A i, j \in DOMAIN q : q[i] = q[j] => i = j
    PROVE  /\ Head(q) \in Range(q)
           /\ Tail(q) \in Seq(S)
           /\ Range(Tail(q)) = Range(q) \ {Head(q)}
           /\ \A i, j \in DOMAIN Tail(q) : Tail(q)[i] = Tail(q)[j] => i = j
<1>1. /\ Len(q) \in Nat /\ DOMAIN q = 1 .. Len(q) /\ Len(q) > 0
      /\ Tail(q) \in Seq(S)
      /\ Len(Tail(q)) = Len(q) - 1
      /\ DOMAIN Tail(q) = 1 .. Len(q) - 1
      /\ \A i \in 1 .. Len(q) - 1 : Tail(q)[i] = q[i + 1]
      /\ Head(q) = q[1]
  BY HeadTailProperties, LenProperties, EmptySeq
<1>2. Range(Tail(q)) \subseteq Range(q) \ {Head(q)}
  BY <1>1 DEF Range
<1>3. Range(q) \ {Head(q)} \subseteq Range(Tail(q))
  <2> SUFFICES ASSUME NEW i \in DOMAIN q, q[i] # Head(q)
               PROVE  q[i] \in Range(Tail(q))
    BY DEF Range
  <2>1. i - 1 \in 1 .. Len(q) - 1 /\ Tail(q)[i - 1] = q[i]
    BY <1>1
  <2> QED
    BY <2>1, <1>1 DEF Range
<1>4. \A i, j \in DOMAIN Tail(q) : Tail(q)[i] = Tail(q)[j] => i = j
  BY <1>1
<1> QED
  BY <1>1, <1>2, <1>3, <1>4 DEF Range

\* Append: the connection comes in, and comes once.
LEMMA PushRange ==
    ASSUME NEW S, NEW q \in Seq(S), NEW c \in S, c \notin Range(q),
           \A i, j \in DOMAIN q : q[i] = q[j] => i = j
    PROVE  /\ Append(q, c) \in Seq(S)
           /\ Range(Append(q, c)) = Range(q) \cup {c}
           /\ \A i, j \in DOMAIN Append(q, c) :
                 Append(q, c)[i] = Append(q, c)[j] => i = j
<1>1. /\ Len(q) \in Nat /\ DOMAIN q = 1 .. Len(q)
      /\ Append(q, c) \in Seq(S)
      /\ DOMAIN Append(q, c) = 1 .. Len(q) + 1
      /\ \A i \in 1 .. Len(q) : Append(q, c)[i] = q[i]
      /\ Append(q, c)[Len(q) + 1] = c
  BY AppendProperties, LenProperties
<1>2. Range(Append(q, c)) = Range(q) \cup {c}
  BY <1>1 DEF Range
<1>3. \A i, j \in DOMAIN Append(q, c) :
          Append(q, c)[i] = Append(q, c)[j] => i = j
  BY <1>1 DEF Range
<1> QED
  BY <1>1, <1>2, <1>3

-----------------------------------------------------------------------------
(* The lease. *)

\* At start every connection is in the queue and free.
LEMMA LeaseInit == Init => LeaseInv /\ Lease!Init
<1> SUFFICES ASSUME Init PROVE LeaseInv /\ Lease!Init
  OBVIOUS
<1>1. PICK S \in SUBSET Connections : queue \in SetToSeqs(S)
  BY DEF Init
<1>2. Cardinality(S) \in Nat
  BY PoolAssumption, FS_Subset, FS_CardinalityType
<1>3. queue \in [1 .. Cardinality(S) -> S] /\ IsInjective(queue)
  BY <1>1 DEF SetToSeqs, IsInjective
<1>4. queue \in Seq(Connections) /\ Range(queue) \subseteq Connections
  BY <1>2, <1>3 DEF Range
<1>5. Types
  BY <1>4 DEF Init, Types, Places
<1>6. Exclusive
  BY <1>3, <1>4, PoolAssumption DEF Init, Exclusive, IsInjective, Using
<1>7. Lease!Init
  BY <1>4 DEF Init, Lease!Init
<1> QED
  BY <1>5, <1>6, <1>7 DEF LeaseInv

\* Steps that touch neither the queue nor a thread's connection.
LEMMA IdleStep ==
    ASSUME LeaseInv, UNCHANGED poolVars, Types',
           \A t \in Threads : at'[t] \in Using <=> at[t] \in Using
    PROVE  LeaseInv' /\ UNCHANGED <<Range(queue), held>>
  BY DEF LeaseInv, Exclusive, poolVars

\* Taking the head of the queue is an Acquire.
LEMMA PopStep ==
    ASSUME LeaseInv, NEW t \in Threads, at[t] \notin Using,
           queue # <<>>, Pop(t), Move(t, "ping")
    PROVE  LeaseInv' /\ \E c \in Connections : Lease!Acquire(t, c)
<1>1. /\ Head(queue) \in Range(queue)
      /\ queue' \in Seq(Connections)
      /\ Range(queue') = Range(queue) \ {Head(queue)}
      /\ \A i, j \in DOMAIN queue' : queue'[i] = queue'[j] => i = j
  BY PopRange DEF LeaseInv, Types, Exclusive, Pop
<1>2. Head(queue) \in Connections /\ Head(queue) # NoConnection
  BY HeadTailProperties, PoolAssumption DEF LeaseInv, Types
<1>3. Types'
  BY <1>1, <1>2 DEF LeaseInv, Types, Pop, Move, Places
<1>4. /\ held[t] = NoConnection
      /\ held' = [held EXCEPT ![t] = Head(queue)]
      /\ at' = [at EXCEPT ![t] = "ping"]
  BY DEF LeaseInv, Exclusive, Pop, Move
<1>5. Exclusive'
  <2>1. \A u \in Threads : held'[u] \notin Range(queue')
    BY <1>1, <1>4 DEF LeaseInv, Exclusive, Types
  <2>2. \A u, w \in Threads : held'[u] = held'[w] /\ held'[u] # NoConnection => u = w
    BY <1>1, <1>4 DEF LeaseInv, Exclusive, Types
  <2>3. \A u \in Threads : held'[u] # NoConnection <=> at'[u] \in Using
    BY <1>2, <1>4 DEF LeaseInv, Exclusive, Types, Using
  <2> QED
    BY <1>1, <2>1, <2>2, <2>3 DEF Exclusive
<1>6. Lease!Acquire(t, Head(queue))
  BY <1>1, <1>4 DEF Lease!Acquire
<1> QED
  BY <1>2, <1>3, <1>5, <1>6 DEF LeaseInv

\* Putting a connection back is a Release.
LEMMA PushStep ==
    ASSUME LeaseInv, NEW t \in Threads, at[t] = "return",
           Push(t), Move(t, "notify")
    PROVE  LeaseInv' /\ Lease!Release(t)
<1>1. held[t] \in Connections /\ held[t] # NoConnection /\ held[t] \notin Range(queue)
  BY DEF LeaseInv, Types, Exclusive, Using
<1>2. /\ queue' \in Seq(Connections)
      /\ Range(queue') = Range(queue) \cup {held[t]}
      /\ \A i, j \in DOMAIN queue' : queue'[i] = queue'[j] => i = j
  BY <1>1, PushRange DEF LeaseInv, Types, Exclusive, Push
<1>3. /\ held' = [held EXCEPT ![t] = NoConnection]
      /\ at' = [at EXCEPT ![t] = "notify"]
  BY DEF Push, Move
<1>4. Types'
  BY <1>2, <1>3 DEF LeaseInv, Types, Places
<1>5. Exclusive'
  <2>0. NoConnection \notin Range(queue')
    BY <1>2, <1>1, PoolAssumption, RangeOfSeq DEF LeaseInv, Types
  <2>1. \A u \in Threads : held'[u] \notin Range(queue')
    BY <2>0, <1>1, <1>2, <1>3 DEF LeaseInv, Exclusive, Types
  <2>2. \A u, w \in Threads : held'[u] = held'[w] /\ held'[u] # NoConnection => u = w
    BY <1>3 DEF LeaseInv, Exclusive, Types
  <2>3. \A u \in Threads : held'[u] # NoConnection <=> at'[u] \in Using
    BY <1>3 DEF LeaseInv, Exclusive, Types, Using
  <2> QED
    BY <1>2, <2>1, <2>2, <2>3 DEF Exclusive
<1>6. Lease!Release(t)
  BY <1>1, <1>2, <1>3 DEF Lease!Release
<1> QED
  BY <1>4, <1>5, <1>6 DEF LeaseInv
\* Every step keeps the invariant and is a step of the lease, or a stutter.
LEMMA LeaseStep ==
    LeaseInv /\ [Next]_vars =>
        LeaseInv' /\ (Lease!Next \/ UNCHANGED <<Range(queue), held>>)
<1> SUFFICES ASSUME LeaseInv, [Next]_vars
             PROVE  LeaseInv' /\ (Lease!Next \/ UNCHANGED <<Range(queue), held>>)
  OBVIOUS
<1>a. ASSUME NEW t \in Threads, at[t] \in {"idle", "woken"}, TakeOrWait(t)
      PROVE  LeaseInv' /\ (Lease!Next \/ UNCHANGED <<Range(queue), held>>)
  <2>1. CASE queue # <<>> /\ Pop(t) /\ Move(t, "ping")
    <3>1. LeaseInv' /\ \E c \in Connections : Lease!Acquire(t, c)
      BY <1>a, <2>1, PopStep DEF Using
    <3> QED
      BY <3>1 DEF Lease!Next
  <2>2. CASE Move(t, "waiting") /\ UNCHANGED poolVars
    BY <1>a, <2>2, IdleStep DEF LeaseInv, Types, Move, Places, Using, poolVars
  <2> QED
    BY <1>a, <2>1, <2>2 DEF TakeOrWait
<1>1. ASSUME NEW t \in Threads, LockConnection(t) \/ Recheck(t)
      PROVE  LeaseInv' /\ (Lease!Next \/ UNCHANGED <<Range(queue), held>>)
  BY <1>a, <1>1 DEF LockConnection, Recheck
<1>2. ASSUME NEW t \in Threads, LockInactive(t) \/ SpuriousWakeup(t)
      PROVE  LeaseInv' /\ UNCHANGED <<Range(queue), held>>
  BY <1>2, IdleStep DEF LockInactive, SpuriousWakeup, LeaseInv, Types, Move,
     Places, Using, poolVars
<1>3. ASSUME NEW t \in Threads, Ping(t) \/ Reset(t) \/ Request(t)
      PROVE  LeaseInv' /\ UNCHANGED <<Range(queue), held>>
  <2>1. UNCHANGED poolVars /\ Types'
    BY <1>3 DEF Ping, Reset, Request, LeaseInv, Types, Move, Places, poolVars
  <2>2. \A u \in Threads : at'[u] \in Using <=> at[u] \in Using
    BY <1>3 DEF Ping, Reset, Request, LeaseInv, Types, Move, Using
  <2> QED
    BY <2>1, <2>2, IdleStep
<1>4. ASSUME NEW t \in Threads, Return(t)
      PROVE  LeaseInv' /\ Lease!Next
  BY <1>4, PushStep DEF Return, Lease!Next
<1>5. ASSUME NEW t \in Threads, NotifyOne(t)
      PROVE  LeaseInv' /\ UNCHANGED <<Range(queue), held>>
  <2>1. UNCHANGED poolVars
    BY <1>5 DEF NotifyOne
  <2>2. PICK w \in Threads :
           \/ at' = [at EXCEPT ![t] = "idle"]
           \/ at[w] = "waiting" /\ at' = [at EXCEPT ![t] = "idle", ![w] = "woken"]
    BY <1>5 DEF NotifyOne, Notified, ThreadsAt
  <2>3. Types' /\ \A u \in Threads : at'[u] \in Using <=> at[u] \in Using
    BY <1>5, <2>1, <2>2 DEF NotifyOne, LeaseInv, Types, Places, Using, poolVars
  <2> QED
    BY <2>1, <2>3, IdleStep
<1>6. CASE Outage \/ Recover \/ UNCHANGED vars
  BY <1>6, IdleStep DEF Outage, Recover, vars, LeaseInv, Types, poolVars
<1> QED
  BY <1>1, <1>2, <1>3, <1>4, <1>5, <1>6 DEF Next, Run

\* A connection is never in two hands, or in a hand and the queue: lockConnection
\* removes the one it returns and unlockConnection pushes only that one back.
THEOREM PoolExclusive == Spec => []Exclusive
<1>1. Init => LeaseInv
  BY LeaseInit
<1>2. LeaseInv /\ [Next]_vars => LeaseInv'
  BY LeaseStep
<1>3. LeaseInv => Exclusive
  BY DEF LeaseInv
<1> QED
  BY <1>1, <1>2, <1>3, PTL DEF Spec

\* The pool implements ConnectionLease: every step of a thread in lockConnection
\* or unlockConnection acquires one free connection, releases its own, or changes
\* no lease at all.
THEOREM PoolImplementsLease == Spec => ImplementsLease
<1>1. Init => LeaseInv /\ Lease!Init
  BY LeaseInit
<1>2. LeaseInv /\ [Next]_vars =>
         LeaseInv' /\ [Lease!Next]_<<Range(queue), held>>
  BY LeaseStep
<1> QED
  BY <1>1, <1>2, PTL DEF Spec, ImplementsLease, Lease!Spec

-----------------------------------------------------------------------------
(* No lost wakeup. *)

WakeInv == Types /\ NoLostWakeup

\* Threads at a place are finitely many.
LEMMA Counts ==
    ASSUME Types, NEW place
    PROVE  /\ IsFiniteSet(ThreadsAt(place))
           /\ Cardinality(ThreadsAt(place)) \in Nat
  BY PoolAssumption, FS_Subset, FS_CardinalityType DEF ThreadsAt

\* What moving one thread does to the number of threads at a place.
LEMMA MoveCounts ==
    ASSUME Types, NEW t \in Threads, NEW to \in Places, Move(t, to),
           NEW place
    PROVE  /\ to = place /\ at[t] # place =>
                Cardinality(ThreadsAt(place)') = Cardinality(ThreadsAt(place)) + 1
           /\ to # place /\ at[t] = place =>
                Cardinality(ThreadsAt(place)') = Cardinality(ThreadsAt(place)) - 1
           /\ to # place /\ at[t] # place =>
                ThreadsAt(place)' = ThreadsAt(place)
<1>1. ThreadsAt(place)' = IF to = place THEN ThreadsAt(place) \cup {t}
                          ELSE ThreadsAt(place) \ {t}
  BY DEF ThreadsAt, Move, Types
<1>2. t \in ThreadsAt(place) <=> at[t] = place
  BY DEF ThreadsAt
<1>3. IsFiniteSet(ThreadsAt(place))
  BY Counts
<1>4. ASSUME to = place, at[t] # place
      PROVE  Cardinality(ThreadsAt(place)') = Cardinality(ThreadsAt(place)) + 1
  BY <1>1, <1>2, <1>3, <1>4, FS_AddElement
<1>5. ASSUME to # place, at[t] = place
      PROVE  Cardinality(ThreadsAt(place)') = Cardinality(ThreadsAt(place)) - 1
  BY <1>1, <1>2, <1>3, <1>5, FS_RemoveElement
<1>6. ASSUME to # place, at[t] # place
      PROVE  ThreadsAt(place)' = ThreadsAt(place)
  BY <1>1, <1>2, <1>6
<1> QED
  BY <1>4, <1>5, <1>6

\* A step that neither pushes a connection nor sends a thread to wait, and takes
\* nobody out of the threads that are awake or about to notify.
LEMMA QuietStep ==
    ASSUME WakeInv, NEW t \in Threads, NEW to \in Places \ {"waiting"},
           Move(t, to), queue' = queue, at[t] \notin {"woken", "notify"}
    PROVE  NoLostWakeup'
<1>1. /\ Cardinality(ThreadsAt("woken")) \in Nat
      /\ Cardinality(ThreadsAt("notify")) \in Nat
      /\ Len(queue) \in Nat
  BY Counts DEF WakeInv, Types
<1>2. ThreadsAt("waiting")' \subseteq ThreadsAt("waiting")
  BY DEF WakeInv, Types, ThreadsAt, Move
<1>3. /\ Cardinality(ThreadsAt("woken")') >= Cardinality(ThreadsAt("woken"))
      /\ Cardinality(ThreadsAt("notify")') >= Cardinality(ThreadsAt("notify"))
  BY <1>1, MoveCounts DEF WakeInv
<1>4. /\ Cardinality(ThreadsAt("woken")') \in Nat
      /\ Cardinality(ThreadsAt("notify")') \in Nat
  BY <1>1, MoveCounts DEF WakeInv
<1> QED
  BY <1>1, <1>2, <1>3, <1>4 DEF WakeInv, NoLostWakeup

\* No step loses a wakeup, given where the threads are.
LEMMA WakeStep ==
    LeaseInv /\ WakeInv /\ [Next]_vars => NoLostWakeup'
<1> SUFFICES ASSUME LeaseInv, WakeInv, [Next]_vars PROVE NoLostWakeup'
  OBVIOUS
<1>0. /\ Cardinality(ThreadsAt("woken")) \in Nat
      /\ Cardinality(ThreadsAt("notify")) \in Nat
      /\ Len(queue) \in Nat
  BY Counts DEF WakeInv, Types
<1>a. ASSUME NEW t \in Threads, at[t] \in {"idle", "woken"}, TakeOrWait(t)
      PROVE  NoLostWakeup'
  <2>1. CASE queue # <<>> /\ Pop(t) /\ Move(t, "ping")
    <3>1. Len(queue') = Len(queue) - 1
      BY <2>1, HeadTailProperties DEF Pop, WakeInv, Types
    <3>2. ThreadsAt("notify")' = ThreadsAt("notify")
      BY <1>a, <2>1, MoveCounts DEF WakeInv, Places
    <3>3. ThreadsAt("waiting")' = ThreadsAt("waiting")
      BY <1>a, <2>1, MoveCounts DEF WakeInv, Places
    <3>4. /\ Cardinality(ThreadsAt("woken")') \in Nat
          /\ Cardinality(ThreadsAt("woken")') >= Cardinality(ThreadsAt("woken")) - 1
      <4>1. Types'
        BY <1>a, <2>1, PopStep DEF Using, LeaseInv
      <4>2. Cardinality(ThreadsAt("woken")') \in Nat
        BY <4>1, PoolAssumption, FS_Subset, FS_CardinalityType DEF ThreadsAt
      <4>3. CASE at[t] = "idle"
        BY <1>0, <2>1, <4>2, <4>3, MoveCounts DEF WakeInv, Places
      <4>4. CASE at[t] = "woken"
        BY <1>0, <2>1, <4>2, <4>4, MoveCounts DEF WakeInv, Places
      <4> QED
        BY <1>a, <4>2, <4>3, <4>4
    <3> QED
      BY <1>0, <3>1, <3>2, <3>3, <3>4 DEF WakeInv, NoLostWakeup
  <2>2. CASE queue = <<>> /\ Move(t, "waiting") /\ UNCHANGED poolVars
    <3>1. Len(queue') = 0
      BY <2>2 DEF poolVars
    <3>2. Types'
      BY <2>2 DEF WakeInv, Types, Move, Places, poolVars
    <3>3. /\ Cardinality(ThreadsAt("woken")') \in Nat
          /\ Cardinality(ThreadsAt("notify")') \in Nat
      BY <3>2, PoolAssumption, FS_Subset, FS_CardinalityType DEF ThreadsAt
    <3> QED
      BY <3>1, <3>3 DEF NoLostWakeup
  <2> QED
    BY <1>a, <2>1, <2>2 DEF TakeOrWait
<1>1. ASSUME NEW t \in Threads, LockConnection(t) \/ Recheck(t)
      PROVE  NoLostWakeup'
  BY <1>a, <1>1 DEF LockConnection, Recheck
<1>2. ASSUME NEW t \in Threads, LockInactive(t) \/ SpuriousWakeup(t)
                                \/ Ping(t) \/ Reset(t) \/ Request(t)
      PROVE  NoLostWakeup'
  <2>1. /\ at[t] \notin {"woken", "notify"}
        /\ queue' = queue
        /\ \E to \in Places \ {"waiting"} : Move(t, to)
    BY <1>2 DEF LockInactive, SpuriousWakeup, Ping, Reset, Request, poolVars, Places
  <2> QED
    BY <2>1, QuietStep
<1>3. ASSUME NEW t \in Threads, Return(t)
      PROVE  NoLostWakeup'
  <2>1. Len(queue') = Len(queue) + 1
    <3>1. held[t] \in Connections
      BY <1>3 DEF Return, LeaseInv, Types, Exclusive, Using
    <3> QED
      BY <1>3, <3>1, AppendProperties DEF Return, Push, WakeInv, Types
  <2>2. /\ Cardinality(ThreadsAt("notify")') = Cardinality(ThreadsAt("notify")) + 1
        /\ ThreadsAt("woken")' = ThreadsAt("woken")
        /\ ThreadsAt("waiting")' = ThreadsAt("waiting")
    BY <1>3, MoveCounts DEF Return, WakeInv, Places
  <2> QED
    BY <1>0, <2>1, <2>2 DEF WakeInv, NoLostWakeup
<1>4. ASSUME NEW t \in Threads, NotifyOne(t)
      PROVE  NoLostWakeup'
  <2>0. queue' = queue /\ at[t] = "notify"
    BY <1>4 DEF NotifyOne, poolVars
  <2>1. CASE ThreadsAt("waiting") = {}
    <3>1. at' = [at EXCEPT ![t] = "idle"]
      BY <1>4, <2>1 DEF NotifyOne, Notified
    <3>2. ThreadsAt("waiting")' = {}
      BY <2>1, <3>1 DEF ThreadsAt, WakeInv, Types
    <3> QED
      BY <3>2 DEF NoLostWakeup
  <2>2. CASE ThreadsAt("waiting") # {}
    <3>1. PICK w \in ThreadsAt("waiting") :
              at' = [at EXCEPT ![t] = "idle", ![w] = "woken"]
      BY <1>4, <2>2 DEF NotifyOne, Notified
    <3>2. /\ ThreadsAt("woken")' = ThreadsAt("woken") \cup {w}
          /\ ThreadsAt("notify")' = ThreadsAt("notify") \ {t}
          /\ w \notin ThreadsAt("woken")
          /\ t \in ThreadsAt("notify")
      BY <2>0, <3>1 DEF ThreadsAt, WakeInv, Types
    <3>3. IsFiniteSet(ThreadsAt("woken")) /\ IsFiniteSet(ThreadsAt("notify"))
      BY Counts DEF WakeInv
    <3>4. /\ Cardinality(ThreadsAt("woken")') = Cardinality(ThreadsAt("woken")) + 1
          /\ Cardinality(ThreadsAt("notify")') = Cardinality(ThreadsAt("notify")) - 1
      BY <3>2, <3>3, FS_AddElement, FS_RemoveElement
    <3> QED
      BY <1>0, <2>0, <2>2, <3>4 DEF WakeInv, NoLostWakeup
  <2> QED
    BY <2>1, <2>2
<1>5. CASE Outage \/ Recover \/ UNCHANGED vars
  BY <1>5 DEF Outage, Recover, vars, poolVars, WakeInv, NoLostWakeup, ThreadsAt
<1> QED
  BY <1>1, <1>2, <1>3, <1>4, <1>5 DEF Next, Run

\* notify_one after the unlock loses no wakeup, however many threads wait, return
\* connections and overtake each other: connections of the pool never outnumber
\* the threads awake to take them while another thread sleeps.
THEOREM PoolWakes == Spec => []NoLostWakeup
<1>1. Init => LeaseInv /\ NoLostWakeup
  BY LeaseInit DEF Init, NoLostWakeup, ThreadsAt
<1>2. LeaseInv /\ NoLostWakeup /\ [Next]_vars => LeaseInv' /\ NoLostWakeup'
  BY LeaseStep, WakeStep DEF LeaseInv, WakeInv
<1> QED
  BY <1>1, <1>2, PTL DEF Spec
=============================================================================
