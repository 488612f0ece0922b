--------------------------- MODULE IRCSelectorPool ---------------------------
(***************************************************************************)
(* Which selector thread serves which IRC session.  The clients add and    *)
(* remove sessions from their own threads, one at a time, for the pool has *)
(* a mutex; each selector has another one and works on a copy of its list, *)
(* renewed at the top of its loop.                                         *)
(*                                                                         *)
(* A session object is added once and removed at most once.  The list of a *)
(* selector is a std::vector: erasing its end() is undefined.  libstdc++   *)
(* drops the last element, and runs off the array when there is none,      *)
(* which ends the run (broken).                                            *)
(*                                                                         *)
(* The loop of a selector ends with the program: from then on its copy and *)
(* its list stay as they are, while clients may still add and remove.      *)
(***************************************************************************)
EXTENDS Integers, Sequences, FiniteSets, SequencesExt

CONSTANTS Sessions,     \* the sessions all clients may ever create
          MaxThreads    \* bound: config.threads is at most that

VARIABLES threads,    \* config.threads
          list,       \* sessions of each selector
          copy,       \* threadSafeCopy of each selector
          needSync,   \* of each selector
          cursor,     \* curSelectorRoundRobin
          fresh,      \* sessions not created yet
          held,       \* sessions a client has added and not begun to remove
          removing,   \* the removeSession under way: the session, selectors left
          terminated, \* SysSignal::terminated
          broken      \* an empty vector was erased

vars == <<threads, list, copy, needSync, cursor, fresh, held, removing, terminated, broken>>

Selectors == 0 .. threads - 1
NoRemoval == [left |-> {}]

Init ==
    /\ threads \in 1 .. MaxThreads
    /\ list = [k \in Selectors |-> <<>>]
    /\ copy = [k \in Selectors |-> <<>>]
    /\ needSync = [k \in Selectors |-> FALSE]
    /\ cursor = 0
    /\ fresh = Sessions
    /\ held = {}
    /\ removing = NoRemoval
    /\ terminated = FALSE
    /\ broken = FALSE

\* getNextSelectorRoundRobin moves the cursor only when there is a choice.
StuckCursor == cursor
NextCursor == IF threads = 1 THEN cursor ELSE (cursor + 1) % threads

\* IRCSelector::addSession and removeSession set needSync with the list.
Unmarked(k) == needSync
Marked(k) == [needSync EXCEPT ![k] = TRUE]

AddSession(s) ==
    LET k == cursor
    IN /\ removing = NoRemoval
       /\ s \in fresh
       /\ list' = [list EXCEPT ![k] = Append(@, s)]
       /\ needSync' = Marked(k)
       /\ cursor' = NextCursor
       /\ fresh' = fresh \ {s}
       /\ held' = held \cup {s}
       /\ UNCHANGED <<threads, copy, removing, terminated, broken>>

\* IRCSelectorPool::removeSession goes over every selector under its mutex.
RemoveSession(s) ==
    /\ removing = NoRemoval
    /\ s \in held
    /\ removing' = [session |-> s, left |-> Selectors]
    /\ held' = held \ {s}
    /\ UNCHANGED <<threads, list, copy, needSync, cursor, fresh, terminated, broken>>

\* What erase(find(s)) leaves of a vector that is not empty
NotErased(q, s) == q
EraseFirst(q, s) == Tail(q)
EraseFound(q, s) ==
    IF s \in Range(q) THEN RemoveFirst(q, s) ELSE Front(q)

\* IRCSelector::removeSession on the selectors in order
RemoveFrom(k) ==
    /\ k \in removing.left
    /\ \A j \in removing.left : k <= j
    /\ IF list[k] = <<>>
       THEN broken' = TRUE /\ UNCHANGED list
       ELSE /\ list' = [list EXCEPT ![k] = EraseFound(@, removing.session)]
            /\ UNCHANGED broken
    /\ needSync' = Marked(k)
    /\ removing' = IF removing.left = {k} THEN NoRemoval
                   ELSE [removing EXCEPT !.left = @ \ {k}]
    /\ UNCHANGED <<threads, copy, cursor, fresh, held, terminated>>

\* The top of the loop of IRCSelector::run; the rest of the pass serves the copy.
Sync(k) ==
    /\ ~ terminated
    /\ needSync[k]
    /\ copy' = [copy EXCEPT ![k] = list[k]]
    /\ needSync' = [needSync EXCEPT ![k] = FALSE]
    /\ UNCHANGED <<threads, list, cursor, fresh, held, removing, terminated, broken>>

\* The program is told to end.
SignalReceived ==
    /\ ~ terminated
    /\ terminated' = TRUE
    /\ UNCHANGED <<threads, list, copy, needSync, cursor, fresh, held, removing, broken>>

Next ==
    /\ ~ broken
    /\ \/ \E s \in Sessions : AddSession(s) \/ RemoveSession(s)
       \/ \E k \in Selectors : RemoveFrom(k) \/ Sync(k)
       \/ SignalReceived

Spec == Init /\ [][Next]_vars

Working(A) == ~ broken /\ A

\* Every selector thread loops until the program is told to end, and a removal
\* runs to its end.
Fairness ==
    \A k \in 0 .. MaxThreads - 1 :
        /\ WF_vars(Working(k \in Selectors /\ Sync(k)))
        /\ WF_vars(Working(k \in Selectors /\ RemoveFrom(k)))
-----------------------------------------------------------------------------
Copies(s, lists) ==
    Cardinality({p \in UNION {{k} \X DOMAIN lists[k] : k \in DOMAIN lists} :
                    lists[p[1]][p[2]] = s})

\* Nothing was removed while there was another selector to damage.
Undamaged == threads = 1 \/ held \cup fresh = Sessions

\* A session a client holds is on one selector's list, once, and one it has
\* removed is on none.
ServedOnce ==
    Undamaged /\ removing = NoRemoval =>
        \A s \in Sessions : Copies(s, list) = IF s \in held THEN 1 ELSE 0

\* No two threads work on one session, whatever else was damaged: the session
\* objects of libircclient have no lock of their own.
OneThread ==
    \A j, k \in Selectors : j # k => Range(copy[j]) \cap Range(copy[k]) = {}

\* The round robin spreads the sessions: no selector has two more than another.
Spread ==
    held \cup fresh = Sessions =>
        \A j, k \in Selectors : Len(list[j]) <= Len(list[k]) + 1

\* A session that was added comes to be served, by one thread, unless it is
\* removed or the program is told to end first.
HeldAreServed ==
    \A s \in Sessions :
        s \in held ~> s \notin held \/ Copies(s, copy) = 1 \/ ~ Undamaged \/ terminated

\* A session that was removed is served no longer once its thread comes round,
\* which is when its last reference goes, unless the program is told to end
\* first.
RemovedAreLeft ==
    \A s \in Sessions :
        s \notin held \cup fresh ~>
            broken \/ terminated \/ \A k \in Selectors : s \notin Range(copy[k])

\* The line IRCSelector::removeSession logs, "IRC selector remove session({})":
\* it is that session that leaves; a session its client still holds stays.
OthersKept == \A s \in held : \E k \in Selectors : s \in Range(list[k])
=============================================================================
