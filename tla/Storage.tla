------------------------------- MODULE Storage -------------------------------
(***************************************************************************)
(* The way of a chat message into ClickHouse.  MessageProcessor turns what *)
(* the IRC sessions send it into Chat::Messages; its one handler is marked *)
(* thread_safe and its dispatcher has Threads threads, so that each thread *)
(* takes the oldest message and nothing keeps their results in order.      *)
(* Storage writes them, and the bots' log records, in batches.  It runs on *)
(* an active_obj dispatcher: one thread, which handles its mailbox in      *)
(* order and blocks while a batch is inserted.  The two kinds of record    *)
(* have a batch, a table and a flush timer of their own and otherwise the  *)
(* same code.                                                              *)
(*                                                                         *)
(* The agents are in one coop, which is deregistered as a whole: each then *)
(* handles what its mailbox holds, and what they still send is discarded.  *)
(*                                                                         *)
(* The connection of the pool is free whenever this thread asks for it,    *)
(* for no other thread uses that pool; it may not exist (connected).       *)
(***************************************************************************)
EXTENDS Integers, Sequences, SequencesExt

CONSTANTS Arrivals,      \* the chat messages, in the order the server sends them
          Log,           \* the log records the bots will send
          Threads,       \* threads of MessageProcessor's dispatcher
          BatchSize,     \* batch_size of the configuration
          MaxFaults      \* bound: inserts that fail

Chat == Range(Arrivals)

ASSUME StorageAssumption ==
    /\ Arrivals \in Seq(Chat) /\ IsInjective(Arrivals)
    /\ Chat \cap Log = {}
    /\ Threads \in Nat \ {0}
    /\ BatchSize \in Nat
    /\ MaxFaults \in Nat

Kinds == {"chat", "log"}

Kind(m) == IF m \in Chat THEN "chat" ELSE "log"

VARIABLES received,   \* how many of Arrivals MessageProcessor has been sent
          taken,      \* how many of them a thread has taken
          inHand,     \* those its threads are at
          mailbox,    \* what Storage has yet to handle, oldest first
          sent,       \* the records published so far, and accepted
          late,       \* those published after the coop was deregistered
          batch,      \* msgBatch and logBatch
          writing,    \* the batch handed to process(), a local of the handler
          todo,       \* the kinds the handler has yet to flush
          table,      \* the rows of the two ClickHouse tables
          dropped,    \* records that met a full batch
          lost,       \* records of batches whose insert failed
          connected,  \* did the pool get its connection at start
          status,     \* running, finishing (so_evt_finish), finished, aborted
          faults

handling == <<batch, writing, todo, dropped>>
processor == <<received, taken, inHand, late>>
vars == <<processor, mailbox, sent, batch, writing, todo, table, dropped, lost, connected,
          status, faults>>

Record(m) == [is |-> "record", of |-> m]
Flush(k) == [is |-> "flush", of |-> k]
Finish == [is |-> "finish", of |-> "all"]

Init ==
    /\ received = 0
    /\ taken = 0
    /\ inHand = {}
    /\ late = {}
    /\ mailbox = <<>>
    /\ sent = {}
    /\ batch = [k \in Kinds |-> <<>>]
    /\ writing = <<>>
    /\ todo = <<>>
    /\ table = [k \in Kinds |-> <<>>]
    /\ dropped = {}
    /\ lost = {}
    /\ connected \in BOOLEAN
    /\ status = "running"
    /\ faults = 0

Idle == status = "running" /\ writing = <<>> /\ todo = <<>>

Open == status = "running" /\ Finish \notin Range(mailbox)
-----------------------------------------------------------------------------
(* The senders. *)

\* An IRC session sends MessageProcessor what the server sent.
Receive ==
    /\ Open
    /\ received < Len(Arrivals)
    /\ received' = received + 1
    /\ UNCHANGED <<taken, inHand, late, mailbox, sent, handling, table, lost,
                   connected, status, faults>>

\* A thread of MessageProcessor takes the oldest message there is.
TakeOldest ==
    /\ status # "aborted"
    /\ taken < received
    /\ Cardinality(inHand) < Threads
    /\ taken' = taken + 1
    /\ inHand' = inHand \cup {Arrivals[taken + 1]}
    /\ UNCHANGED <<received, late, mailbox, sent, handling, table, lost,
                   connected, status, faults>>

\* The end of evtIrcMessage: the message is published.
Publish(m) ==
    /\ status # "aborted"
    /\ m \in inHand
    /\ inHand' = inHand \ {m}
    /\ IF Open
       THEN /\ mailbox' = Append(mailbox, Record(m))
            /\ sent' = sent \cup {m}
            /\ UNCHANGED late
       ELSE late' = late \cup {m} /\ UNCHANGED <<mailbox, sent>>
    /\ UNCHANGED <<received, taken, handling, table, lost, connected, status,
                   faults>>

\* A bot sends a Bot::LogMessage.
SendLog(m) ==
    /\ Open
    /\ m \in Log \ sent
    /\ mailbox' = Append(mailbox, Record(m))
    /\ sent' = sent \cup {m}
    /\ UNCHANGED <<processor, handling, table, lost, connected, status, faults>>

\* A periodic timer fires.  While its last signal is unhandled another would
\* find the batch the handler of that one left: it is not modelled.
FlushTimer(k) ==
    /\ Open
    /\ Flush(k) \notin Range(mailbox)
    /\ mailbox' = Append(mailbox, Flush(k))
    /\ UNCHANGED <<processor, sent, handling, table, lost, connected, status, faults>>

\* The coop of the agent is deregistered: so_evt_finish is the last thing its
\* thread runs, after what was sent before; what is sent later is discarded.
Deregister ==
    /\ Open
    /\ mailbox' = Append(mailbox, Finish)
    /\ UNCHANGED <<processor, sent, handling, table, lost, connected, status, faults>>
-----------------------------------------------------------------------------
(* The handlers. *)

\* store(), as long as the batch has room.
KeepInFront(m) ==
    /\ Len(batch[Kind(m)]) < BatchSize
    /\ batch' = [batch EXCEPT ![Kind(m)] = <<m>> \o @]
    /\ UNCHANGED <<writing, todo, dropped>>
Keep(m) ==
    /\ Len(batch[Kind(m)]) < BatchSize
    /\ batch' = [batch EXCEPT ![Kind(m)] = Append(@, m)]
    /\ UNCHANGED <<writing, todo, dropped>>

\* store(), at a full batch: the batch is written, and m is in neither.
DropOnly(m) ==
    /\ Len(batch[Kind(m)]) >= BatchSize
    /\ dropped' = dropped \cup {m}
    /\ UNCHANGED <<writing, batch, todo>>
CopyBatch(m) ==
    /\ Len(batch[Kind(m)]) >= BatchSize
    /\ writing' = batch[Kind(m)]
    /\ dropped' = dropped \cup {m}
    /\ UNCHANGED <<batch, todo>>
WriteFull(m) ==
    /\ Len(batch[Kind(m)]) >= BatchSize
    /\ writing' = batch[Kind(m)]
    /\ batch' = [batch EXCEPT ![Kind(m)] = <<>>]
    /\ dropped' = dropped \cup {m}
    /\ UNCHANGED todo

Take(demand) ==
    /\ Idle
    /\ mailbox # <<>> /\ Head(mailbox) = demand
    /\ mailbox' = Tail(mailbox)

\* evtChatMessage, evtBotLogMessage
Store(m) ==
    /\ Take(Record(m))
    /\ Keep(m) \/ WriteFull(m)
    /\ UNCHANGED <<processor, sent, table, lost, connected, status, faults>>

\* evtFlushChatMessages, evtFlushBotLogMessages: each has its own batch.
ChatBatch(k) == <<"chat">>
OwnBatch(k) == <<k>>

FlushKind(k) ==
    /\ Take(Flush(k))
    /\ todo' = OwnBatch(k)
    /\ UNCHANGED <<processor, sent, batch, writing, dropped, table, lost, connected, status,
                   faults>>

\* so_evt_finish: flush(), chat messages first
OnlyChat == <<"chat">>
FlushOrder == <<"chat", "log">>

EvtFinish ==
    /\ Take(Finish)
    /\ status' = "finishing"
    /\ todo' = FlushOrder
    /\ UNCHANGED <<processor, sent, batch, writing, dropped, table, lost, connected, faults>>

\* A flushing handler swaps the next batch out.
Swap ==
    /\ status \in {"running", "finishing"}
    /\ writing = <<>> /\ todo # <<>>
    /\ writing' = batch[Head(todo)]
    /\ batch' = [batch EXCEPT ![Head(todo)] = <<>>]
    /\ todo' = Tail(todo)
    /\ UNCHANGED <<processor, mailbox, sent, dropped, table, lost, connected, status, faults>>

EndFinish ==
    /\ status = "finishing" /\ writing = <<>> /\ todo = <<>>
    /\ status' = "finished"
    /\ UNCHANGED <<processor, mailbox, sent, handling, table, lost, connected, faults>>
-----------------------------------------------------------------------------
(* process() on a batch that is not empty. *)

Processing == status \in {"running", "finishing"} /\ writing # <<>>

Insert ==
    /\ Processing /\ connected
    /\ table' = [table EXCEPT ![Kind(Head(writing))] = @ \o writing]
    /\ writing' = <<>>
    /\ UNCHANGED <<processor, mailbox, sent, batch, todo, dropped, lost, connected, status,
                   faults>>

\* CHConnection::insert catches whatever the ClickHouse client throws: the
\* handler goes on as if the rows were in, and they go with it.
InsertRefused ==
    /\ Processing /\ connected
    /\ faults < MaxFaults
    /\ faults' = faults + 1
    /\ lost' = lost \cup Range(writing)
    /\ writing' = <<>>
    /\ UNCHANGED <<processor, mailbox, sent, batch, todo, dropped, table, connected, status>>

\* A pool without a connection is inactive and hands out null, through which
\* insert is called: the program dies there.
InsertAborts ==
    /\ Processing /\ ~ connected
    /\ status' = "aborted"
    /\ UNCHANGED <<processor, mailbox, sent, handling, table, lost, connected, faults>>

Handle == (\E m \in Chat \cup Log : Store(m)) \/ (\E k \in Kinds : FlushKind(k))
          \/ EvtFinish \/ Swap \/ EndFinish
          \/ Insert \/ InsertRefused \/ InsertAborts

Processor == TakeOldest \/ \E m \in Chat : Publish(m)

Next == \/ Receive
        \/ Processor
        \/ \E m \in Log : SendLog(m)
        \/ \E k \in Kinds : FlushTimer(k)
        \/ Deregister
        \/ Handle

Spec == Init /\ [][Next]_vars

\* The threads run and the timers fire; no message has to come, no bot to send
\* and nobody to shut down.
FairSpec == Spec /\ WF_vars(TakeOldest) /\ (\A m \in Chat : WF_vars(Publish(m)))
                 /\ WF_vars(Handle) /\ \A k \in Kinds : WF_vars(FlushTimer(k))
-----------------------------------------------------------------------------
Rows(k) == Range(table[k])

\* The records that came, and the places where a record is
Came == {Arrivals[i] : i \in 1 .. received} \cup (Log \cap sent)

Spots(m) ==
    LET In(place, q, x) == {place} \X {i \in DOMAIN q : q[i] = x}
        Among(place, S) == {place} \X ({m} \cap S)
    IN UNION {{"waiting"} \X {i \in taken + 1 .. received : Arrivals[i] = m},
              Among("inHand", inHand),
              Among("late", late),
              In("mailbox", mailbox, Record(m)),
              In("batch", batch[Kind(m)], m),
              In("writing", writing, m),
              In("table", table[Kind(m)], m),
              Among("dropped", dropped),
              Among("lost", lost)}

\* A record never exists twice and never disappears unaccounted: it waits in a
\* mailbox, in a batch or in a running handler, or it is a row, or it is one of
\* the losses the code knows (a full batch, a failed insert, a shutdown).
Conserved == \A m \in Came : Cardinality(Spots(m)) = 1

\* A record is dropped only as the price of writing a full batch: each one that
\* met a full batch has BatchSize others of its kind that left memory with it.
DropsPaid ==
    \A k \in Kinds :
        LET of(S) == Cardinality({m \in S : Kind(m) = k})
        IN of(dropped) * BatchSize
              <= Len(table[k]) + of(lost) + of(Range(writing))

\* so_evt_finish leaves nothing in memory: what was published before the agent
\* was deregistered has been handled, and both batches have been written.
NothingLeft ==
    status = "finished" => sent \subseteq Rows("chat") \cup Rows("log") \cup dropped \cup lost

\* Of two chat messages, the server sent a before m.
Earlier(a, m) ==
    \E p, q \in DOMAIN Arrivals : p < q /\ Arrivals[p] = a /\ Arrivals[q] = m

\* The rows are in the order of the chat but for what the threads let happen: a
\* message can only overtake those that other threads hold, Threads - 1 at most.
FewOvertaken ==
    LET rows == table["chat"]
        overtaken(i) == {a \in Chat : /\ Earlier(a, rows[i])
                                      /\ \E j \in i + 1 .. Len(rows) : rows[j] = a}
    IN \A i \in DOMAIN rows : Cardinality(overtaken(i)) < Threads

\* Batches, mailbox, threads and inserts taken together are a log of records: one
\* is pending from when it came until it is a row, once and for good, or gone.
Journal ==
    INSTANCE RecordLog
    WITH Of <- [k \in Kinds |-> {m \in Chat \cup Log : Kind(m) = k}],
         Size <- BatchSize,
         pending <- Came \ (Rows("chat") \cup Rows("log") \cup dropped \cup lost \cup late),
         rows <- table,
         gone <- dropped \cup lost \cup late

ImplementsRecordLog == Journal!LogSpec

\* Every record that came leaves memory, unless there is no database: the timers
\* flush a batch that never fills up, whether or not anything else comes.
Flushed ==
    \A m \in Chat \cup Log :
        m \in Came ~> \/ m \in Rows(Kind(m)) \cup dropped \cup lost \cup late
                      \/ status = "aborted" /\ ~ connected
=============================================================================
