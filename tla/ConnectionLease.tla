--------------------------- MODULE ConnectionLease ---------------------------
(***************************************************************************)
(* What DBConnectionPool and DBConnectionLock promise the agents that talk *)
(* to a database: a connection that is not free is leased to one thread,   *)
(* and a thread holds at most one.  Nothing is said of who is served next. *)
(***************************************************************************)
CONSTANTS Threads, Connections, NoConnection

VARIABLES free,     \* the connections nobody holds
          holds     \* holds[t]: the connection leased to thread t, or NoConnection

Init == /\ free \in SUBSET Connections
        /\ holds = [t \in Threads |-> NoConnection]

Acquire(t, c) == /\ holds[t] = NoConnection
                 /\ c \in free
                 /\ free' = free \ {c}
                 /\ holds' = [holds EXCEPT ![t] = c]

Release(t) == /\ holds[t] # NoConnection
              /\ free' = free \cup {holds[t]}
              /\ holds' = [holds EXCEPT ![t] = NoConnection]

Next == \E t \in Threads : Release(t) \/ \E c \in Connections : Acquire(t, c)

Spec == Init /\ [][Next]_<<free, holds>>
=============================================================================
