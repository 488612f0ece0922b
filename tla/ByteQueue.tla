------------------------------ MODULE ByteQueue ------------------------------
(***************************************************************************)
(* What BufferStatic promises: a queue of at most Capacity bytes, to which *)
(* data is appended as a whole or not at all, and from whose front bytes   *)
(* are read, with or without being taken out.  Where the queue lies in     *)
(* memory is not visible.                                                  *)
(***************************************************************************)
EXTENDS Integers, Sequences

CONSTANTS Capacity, Bytes

VARIABLES content,   \* the bytes held, oldest first
          result,    \* what the last call returned
          out        \* what was last copied out

Results == {"Ok", "NoData", "BufferFull", "InvalidLen"}

QueueInit ==
    /\ content = <<>>
    /\ result = "Ok"
    /\ out = <<>>

Refuse(why) == result' = why /\ UNCHANGED <<content, out>>

\* A full queue takes nothing, not even no bytes.
Offer(data) ==
    LET length == Len(data)
    IN \/ length > Capacity /\ Refuse("InvalidLen")
       \/ /\ length <= Capacity
          /\ Len(content) = Capacity \/ Len(content) + length > Capacity
          /\ Refuse("BufferFull")
       \/ /\ Len(content) < Capacity /\ Len(content) + length <= Capacity
          /\ content' = content \o data
          /\ result' = "Ok"
          /\ UNCHANGED out

\* The first length bytes are copied out, taken out, or both.
Read(length, copied, taken) ==
    \/ content = <<>> /\ Refuse("NoData")
    \/ content # <<>> /\ length > Len(content) /\ Refuse("InvalidLen")
    \/ /\ content # <<>> /\ length <= Len(content)
       /\ out' = IF copied THEN SubSeq(content, 1, length) ELSE out
       /\ content' = IF taken THEN SubSeq(content, length + 1, Len(content)) ELSE content
       /\ result' = "Ok"

Clear == content' = <<>> /\ UNCHANGED <<result, out>>

QueueNext ==
    \/ \E length \in 0 .. Capacity + 1 : \E data \in [1 .. length -> Bytes] : Offer(data)
    \/ \E length \in 0 .. Capacity + 1, copied, taken \in BOOLEAN :
          Read(length, copied, taken)
    \/ Clear

QueueSpec == QueueInit /\ [][QueueNext]_<<content, result, out>>
=============================================================================
