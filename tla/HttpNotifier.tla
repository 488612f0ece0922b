---------------------------- MODULE HttpNotifier ----------------------------
(***************************************************************************)
(* The notifications to Slack: HttpNotifier posts each to an HTTPClient,   *)
(* whose threads run one HTTPClientSession at a time each, to its end.  A  *)
(* session resolves, connects, shakes hands, writes, reads and shuts down; *)
(* the first step that fails logs it and ends the session: of all this it  *)
(* only matters here that it ends.                                         *)
(*                                                                         *)
(* The client is stopped by its destructor, which drops what has not been  *)
(* started and waits for what has.                                         *)
(***************************************************************************)
EXTENDS Integers

CONSTANT Workers      \* the threads of the client

VARIABLES client,     \* running, stopped, destroyed
          jobs,       \* how many are posted to the io_service and not started
          running     \* the threads that are sending one

notifierVars == <<client, jobs, running>>

\* so_evt_start posts the first notification, which is over here.
Init ==
    /\ client = "running"
    /\ jobs = 0
    /\ running = {}

Exec ==
    /\ jobs' = jobs + 1
    /\ UNCHANGED <<client, running>>

StartJob(w) ==
    /\ client = "running"
    /\ w \notin running /\ jobs > 0
    /\ running' = running \cup {w}
    /\ jobs' = jobs - 1
    /\ UNCHANGED client

EndJob(w) ==
    /\ w \in running
    /\ running' = running \ {w}
    /\ UNCHANGED <<client, jobs>>

StopClient ==
    /\ client = "running"
    /\ client' = "stopped"
    /\ UNCHANGED <<jobs, running>>

Unjoined == TRUE
Joined == running = {}

DestroyClient ==
    /\ client = "stopped"
    /\ Joined
    /\ client' = "destroyed"
    /\ jobs' = 0
    /\ UNCHANGED <<running>>

\* A job uses the client it was posted to: none runs when that is destroyed.
NoJobOutlives == client = "destroyed" => running = {}
=============================================================================
