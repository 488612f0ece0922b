------------------------------ MODULE RecordLog ------------------------------
(***************************************************************************)
(* What the way into the database promises whoever sends a record: it is   *)
(* pending until it is in the table of its kind or gone.  It gets there    *)
(* once, among the few rows of one insert; a table only grows; and what is *)
(* gone does not come back.  Nothing is said of how long a record waits,   *)
(* or of what makes it get lost.                                           *)
(***************************************************************************)
EXTENDS Integers, Sequences

CONSTANTS Of,    \* the records each table is for, a function
          Size   \* rows of an insert, at most

VARIABLES pending, rows, gone

logVars == <<pending, rows, gone>>

Tables == DOMAIN Of
Members(q) == {q[i] : i \in DOMAIN q}

Known == pending \cup gone \cup UNION {Members(rows[k]) : k \in Tables}

LogInit ==
    /\ pending = {} /\ gone = {}
    /\ rows = [k \in Tables |-> <<>>]

Come(m) ==
    /\ m \notin Known
    /\ pending' = pending \cup {m}
    /\ UNCHANGED <<rows, gone>>

Lose(S) ==
    /\ S \subseteq pending
    /\ pending' = pending \ S
    /\ gone' = gone \cup S
    /\ UNCHANGED rows

\* An insert has no row twice.
Inserts(k) ==
    {q \in UNION {[1 .. n -> pending \cap Of[k]] : n \in 1 .. Size} :
        \A i, j \in DOMAIN q : q[i] = q[j] => i = j}

Write(k, q) ==
    /\ rows' = [rows EXCEPT ![k] = @ \o q]
    /\ pending' = pending \ Members(q)
    /\ UNCHANGED gone

LogNext ==
    \/ \E k \in Tables : \E m \in Of[k] : Come(m)
    \/ \E S \in SUBSET pending : Lose(S)
    \/ \E k \in Tables : \E q \in Inserts(k) : Write(k, q)

LogSpec == LogInit /\ [][LogNext]_logVars
=============================================================================
