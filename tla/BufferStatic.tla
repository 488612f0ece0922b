---------------------------- MODULE BufferStatic ----------------------------
(***************************************************************************)
(* The ring buffer of src/common/BufferStatic.h: an array, a size and two  *)
(* positions, either of which may be Capacity.  Bytes are copied in and    *)
(* out, or written in place: the caller asks for the linear free space and *)
(* a pointer to it, writes, and announces how much it wrote.               *)
(*                                                                         *)
(* Two things end a run, and are named in broken: normilize may memcpy     *)
(* between areas that overlap, whose outcome C++ leaves open; and a buffer *)
(* that is full with its tail inside announces linear space all the same,  *)
(* so that who writes there destroys what is held.                         *)
(***************************************************************************)
EXTENDS Integers, Sequences

CONSTANTS Capacity, Bytes

ASSUME CapacityAssumption == Capacity \in Nat \ {0}
ASSUME BytesAssumption == 0 \in Bytes

VARIABLES buffer, size, head, tail,
          result,    \* what the last call returned
          out,       \* what the last call copied out
          broken     \* "no", "overlap" or "overwritten"

bufferVars == <<buffer, size, head, tail, result, out, broken>>

BufferInit ==
    /\ buffer = [i \in 0 .. Capacity - 1 |-> 0]
    /\ size = 0 /\ head = 0 /\ tail = 0
    /\ result = "Ok"
    /\ out = <<>>
    /\ broken = "no"

\* memcpy from and to the array
Held(from, length) == [i \in 1 .. length |-> buffer[from + i - 1]]
With(array, at, data) ==
    [i \in 0 .. Capacity - 1 |->
        IF i \in at .. at + Len(data) - 1 THEN data[i - at + 1] ELSE array[i]]

Return(what) == result' = what
Refuse(why) == Return(why) /\ UNCHANGED <<buffer, size, head, tail, out, broken>>
-----------------------------------------------------------------------------
(* append *)

AppendTooLong(data) == Len(data) > Capacity /\ Refuse("InvalidLen")

Appendable(data) == Len(data) <= Capacity /\ size # Capacity

Grows(array, data, at) ==
    /\ buffer' = array
    /\ tail' = at
    /\ size' = size + Len(data)
    /\ Return("Ok")
    /\ UNCHANGED <<head, out, broken>>

AppendAtTail(data) ==
    /\ Appendable(data)
    /\ tail >= head /\ tail + Len(data) <= Capacity
    /\ Grows(With(buffer, tail, data), data, tail + Len(data))

\* A slip: one byte too many
FitsAnyway(data) == tail > 0 /\ Len(data) - (Capacity - tail) <= head + 1

\* The part that does not fit goes to the beginning, as far as the head.
FitsInTwo(data) == tail > 0 /\ Len(data) - (Capacity - tail) <= head

AppendInTwo(data) ==
    LET first == Capacity - tail
    IN /\ Appendable(data)
       /\ tail >= head /\ tail + Len(data) > Capacity
       /\ FitsInTwo(data)
       /\ Grows(With(With(buffer, tail, SubSeq(data, 1, first)),
                     0, SubSeq(data, first + 1, Len(data))),
                data, Len(data) - first)

AppendBetween(data) ==
    /\ Appendable(data)
    /\ tail < head /\ head - tail >= Len(data)
    /\ Grows(With(buffer, tail, data), data, tail + Len(data))

AppendFull(data) ==
    /\ Len(data) <= Capacity
    /\ \/ size = Capacity
       \/ tail >= head /\ tail + Len(data) > Capacity /\ ~ FitsInTwo(data)
       \/ tail < head /\ head - tail < Len(data)
    /\ Refuse("BufferFull")

append(data) ==
    \/ AppendTooLong(data) \/ AppendAtTail(data) \/ AppendInTwo(data)
    \/ AppendBetween(data) \/ AppendFull(data)
-----------------------------------------------------------------------------
(* getData copies and takes, peekData copies, seekData takes. *)

Valid(length) == size # 0 /\ length <= size

ReadEmpty(length) == size = 0 /\ Refuse("NoData")
ReadTooLong(length) == size # 0 /\ length > size /\ Refuse("InvalidLen")

Take(length, copied, taken, data, at) ==
    /\ out' = IF copied THEN data ELSE out
    /\ head' = IF taken THEN at ELSE head
    /\ size' = IF taken THEN size - length ELSE size
    /\ Return("Ok")
    /\ UNCHANGED <<buffer, tail, broken>>

\* In one block: up to the tail, or to the end of the array
ReadLinear(length, copied, taken) ==
    /\ Valid(length)
    /\ IF tail > head THEN head + length <= tail ELSE head + length <= Capacity
    /\ Take(length, copied, taken, Held(head, length), head + length)

ReadInTwo(length, copied, taken) ==
    LET first == Capacity - head
    IN /\ Valid(length)
       /\ tail <= head /\ head + length > Capacity
       /\ tail > 0 /\ tail >= length - first
       /\ Take(length, copied, taken,
               Held(head, first) \o Held(0, length - first), length - first)

ReadRefused(length) ==
    /\ Valid(length)
    /\ IF tail > head THEN head + length > tail
       ELSE head + length > Capacity /\ ~ (tail > 0 /\ tail >= length - (Capacity - head))
    /\ Refuse("InvalidLen")

getData(length, copied, taken) ==
    \/ ReadEmpty(length) \/ ReadTooLong(length) \/ ReadRefused(length)
    \/ ReadLinear(length, copied, taken) \/ ReadInTwo(length, copied, taken)
-----------------------------------------------------------------------------
(* Writing in place: getLinearFreeSpace, getLinearAppendPtr, a write of    *)
(* no more than that, and expandSize.                                      *)

getLinearFreeSpace ==
    CASE tail = Capacity -> Capacity - size
      [] tail # Capacity /\ head > tail -> head - tail
      [] OTHER -> Capacity - tail

\* getLinearAppendPtr begins again at 0.
AppendAt == IF tail = Capacity /\ size # Capacity THEN 0 ELSE tail

\* (to announce no bytes to a full buffer changes nothing)
WriteInPlace(data) ==
    /\ size # Capacity
    /\ Len(data) <= getLinearFreeSpace
    /\ size + Len(data) <= Capacity
    /\ buffer' = With(buffer, AppendAt, data)
    /\ tail' = AppendAt + Len(data)
    /\ size' = size + Len(data)
    /\ Return("Ok")
    /\ UNCHANGED <<head, out, broken>>

\* expandSize refuses, when the bytes are already written.
WriteOverHeld(data) ==
    /\ Len(data) <= getLinearFreeSpace
    /\ size + Len(data) > Capacity
    /\ broken' = "overwritten"
    /\ UNCHANGED <<buffer, size, head, tail, result, out>>
-----------------------------------------------------------------------------
Linear == tail = 0 \/ tail > head

MoveToFront ==
    IF Linear THEN With(buffer, 0, Held(head, size))
    ELSE LET first == Capacity - head
         IN With(With(buffer, 0, Held(head, first)), first, Held(0, size - first))

Overlaps == IF Linear THEN size > head ELSE Capacity - head > head

normilize ==
    /\ head # 0
    /\ size = 0 \/ ~ Overlaps
    /\ buffer' = IF size = 0 THEN buffer ELSE MoveToFront
    /\ head' = 0
    /\ tail' = size
    /\ UNCHANGED <<size, result, out, broken>>

NormilizeOverlaps ==
    /\ head # 0 /\ size # 0 /\ Overlaps
    /\ broken' = "overlap"
    /\ UNCHANGED <<buffer, size, head, tail, result, out>>

clear ==
    /\ size' = 0 /\ head' = 0 /\ tail' = 0
    /\ UNCHANGED <<buffer, result, out, broken>>

BufferNext ==
    /\ broken = "no"
    /\ \/ \E length \in 0 .. Capacity + 1 : \E data \in [1 .. length -> Bytes] :
             append(data) \/ WriteInPlace(data) \/ WriteOverHeld(data)
       \/ \E length \in 0 .. Capacity + 1, copied, taken \in BOOLEAN :
             (copied \/ taken) /\ getData(length, copied, taken)
       \/ normilize \/ NormilizeOverlaps \/ clear

BufferSpec == BufferInit /\ [][BufferNext]_bufferVars
-----------------------------------------------------------------------------
\* The bytes held, from the head on and around the end
Place(i) == IF head + i <= Capacity THEN head + i - 1 ELSE head + i - 1 - Capacity
Content == [i \in 1 .. size |-> buffer[Place(i)]]

Queue == INSTANCE ByteQueue WITH content <- Content

\* Every call on the ring does what it would do on a queue, and no other: in
\* particular it refuses data or a read only when the queue has to.
ImplementsByteQueue == Queue!QueueSpec
=============================================================================
