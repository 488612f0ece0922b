-------------------------- MODULE StandAloneProofs --------------------------
(***************************************************************************)
(* The parts that share no state, each for any size: the ring buffer is a  *)
(* queue, the thread pool loses no task and no wakeup, an outgoing request *)
(* is over in time, the selectors serve each session once.                 *)
(***************************************************************************)
EXTENDS StandAlone, FiniteSetTheorems, SequenceTheorems, TLAPS

(***************************************************************************)
(* The ring buffer is a queue, whatever its capacity and whatever bytes go *)
(* through it.  The invariant is where the tail is: size bytes on from the *)
(* head, around the end or not; either position may be Capacity.           *)
(***************************************************************************)
Array == [0 .. Capacity - 1 -> Bytes]

RingInv ==
    /\ buffer \in Array
    /\ size \in 0 .. Capacity /\ head \in 0 .. Capacity /\ tail \in 0 .. Capacity
    /\ tail = head + size \/ tail = head + size - Capacity

\* The array has room, and what it holds at first are bytes.
LEMMA Caps == Capacity \in Nat \ {0} /\ 0 \in Bytes
BY CapacityAssumption, BytesAssumption

\* A block of n bytes is a sequence of that length.
LEMMA DataIsSeq ==
    ASSUME NEW S, NEW n \in Nat, NEW data \in [1 .. n -> S]
    PROVE  data \in Seq(S) /\ Len(data) = n
<1>1. data \in Seq(S)
  OBVIOUS
<1> QED
  BY <1>1, LenProperties

\* Every byte of the content lies inside the array.
LEMMA Places ==
    ASSUME RingInv
    PROVE  \A i \in 1 .. size : Place(i) \in 0 .. Capacity - 1
BY Caps DEF RingInv, Place

\* The content, byte by byte.
LEMMA Contents ==
    ASSUME RingInv
    PROVE  /\ Content \in Seq(Bytes) /\ Len(Content) = size /\ size \in Nat
           /\ \A i \in 1 .. size : Content[i] = buffer[Place(i)]
<1>1. size \in Nat
  BY Caps DEF RingInv
<1>2. Content \in [1 .. size -> Bytes]
  BY Places DEF Content, RingInv, Array
<1> QED
  BY <1>1, <1>2, DataIsSeq DEF Content

\* What memcpy puts into the array, and takes from it
LEMMA Written ==
    ASSUME NEW array \in Array, NEW data \in Seq(Bytes), NEW at \in Nat
    PROVE  /\ With(array, at, data) \in Array
           /\ \A i \in 0 .. Capacity - 1 :
                 With(array, at, data)[i] =
                    IF i \in at .. at + Len(data) - 1 THEN data[i - at + 1] ELSE array[i]
<1>1. Len(data) \in Nat /\ \A j \in 1 .. Len(data) : data[j] \in Bytes
  BY LenProperties
<1>2. ASSUME NEW i \in 0 .. Capacity - 1
      PROVE  (IF i \in at .. at + Len(data) - 1 THEN data[i - at + 1] ELSE array[i]) \in Bytes
  <2>1. i \in at .. at + Len(data) - 1 => i - at + 1 \in 1 .. Len(data)
    BY <1>1, Caps
  <2> QED
    BY <1>1, <2>1 DEF Array
<1> QED
  BY <1>2 DEF With, Array

\* What is copied out of a linear part of the array.
LEMMA Copied ==
    ASSUME RingInv, NEW from \in Nat, NEW length \in Nat, from + length <= Capacity
    PROVE  /\ Held(from, length) \in Seq(Bytes) /\ Len(Held(from, length)) = length
           /\ \A i \in 1 .. length : Held(from, length)[i] = buffer[from + i - 1]
<1>1. \A i \in 1 .. length : from + i - 1 \in 0 .. Capacity - 1
  BY Caps
<1>2. Held(from, length) \in [1 .. length -> Bytes]
  BY <1>1 DEF Held, RingInv, Array
<1> QED
  BY <1>2, DataIsSeq DEF Held

\* Bytes are added behind those held.
LEMMA Added ==
    ASSUME RingInv, NEW data \in Seq(Bytes), buffer' \in Array,
           size + Len(data) <= Capacity, size' = size + Len(data), head' = head,
           \A i \in 1 .. size : buffer'[Place(i)] = buffer[Place(i)],
           \A j \in 1 .. Len(data) : buffer'[Place(size + j)] = data[j]
    PROVE  Content' = Content \o data
<1> DEFINE joined == Content \o data
<1>1. /\ Len(data) \in Nat /\ size \in Nat
      /\ Content \in Seq(Bytes) /\ Len(Content) = size
      /\ \A i \in 1 .. size : Content[i] = buffer[Place(i)]
  BY Contents, LenProperties
<1>2. /\ joined \in Seq(Bytes) /\ Len(joined) = size'
      /\ \A i \in 1 .. size' : joined[i] = IF i <= size THEN Content[i] ELSE data[i - size]
  BY <1>1, ConcatProperties
<1> HIDE DEF joined
<1>3. \A i \in 1 .. size' : Place(i)' = Place(i)
  BY DEF Place
<1>4. ASSUME NEW i \in 1 .. size'
      PROVE  buffer'[Place(i)'] = joined[i]
  <2>1. CASE i <= size
    <3>1. i \in 1 .. size
      BY <1>1, <2>1
    <3> QED
      BY <1>1, <1>2, <1>3, <2>1, <3>1
  <2>2. CASE ~ (i <= size)
    <3>1. i - size \in 1 .. Len(data) /\ i = size + (i - size)
      BY <1>1, <2>2
    <3> QED
      BY <1>2, <1>3, <2>2, <3>1
  <2> QED
    BY <2>1, <2>2
<1>5. joined = [i \in 1 .. size' |-> joined[i]]
  BY <1>2, LenProperties
<1> QED
  BY <1>4, <1>5 DEF Content, joined

\* The first bytes, read out or taken out
LEMMA ReadOut ==
    ASSUME RingInv, NEW length \in Nat, length <= size, NEW bytes \in Seq(Bytes),
           Len(bytes) = length, \A i \in 1 .. length : bytes[i] = buffer[Place(i)]
    PROVE  bytes = SubSeq(Content, 1, length)
<1>1. /\ size \in Nat
      /\ \A i \in 1 .. size : Content[i] = buffer[Place(i)] /\ Content[i] \in Bytes
  BY Contents, LenProperties
<1>2. \A i \in 1 .. length : i \in 1 .. size
  BY <1>1
<1>3. /\ SubSeq(Content, 1, length) \in Seq(Bytes)
      /\ Len(SubSeq(Content, 1, length)) = length
      /\ \A i \in 1 .. length : SubSeq(Content, 1, length)[i] = Content[i]
  <2>1. /\ SubSeq(Content, 1, length) \in Seq(Bytes)
        /\ Len(SubSeq(Content, 1, length)) = IF 1 <= length THEN length - 1 + 1 ELSE 0
        /\ \A i \in 1 .. length - 1 + 1 : SubSeq(Content, 1, length)[i] = Content[1 + i - 1]
    BY <1>1, <1>2, SubSeqProperties
  <2> QED
    BY <2>1
<1>4. \A i \in 1 .. length : bytes[i] = SubSeq(Content, 1, length)[i]
  BY <1>1, <1>2, <1>3
<1> QED
  BY <1>3, <1>4, SeqEqual

\* Bytes taken from the head leave the rest of the content.
LEMMA TakenOut ==
    ASSUME RingInv, NEW length \in Nat, length <= size,
           buffer' = buffer, size' = size - length,
           \A i \in 1 .. size - length : Place(i)' = Place(i + length)
    PROVE  Content' = SubSeq(Content, length + 1, Len(Content))
<1> DEFINE rest == SubSeq(Content, length + 1, size)
<1>1. /\ size \in Nat /\ Len(Content) = size
      /\ \A i \in 1 .. size : Content[i] = buffer[Place(i)] /\ Content[i] \in Bytes
  BY Contents, LenProperties
<1>2. /\ rest \in Seq(Bytes)
      /\ Len(rest) = IF length + 1 <= size THEN size - (length + 1) + 1 ELSE 0
      /\ \A i \in 1 .. size - (length + 1) + 1 : rest[i] = Content[(length + 1) + i - 1]
  <2>1. \A i \in length + 1 .. size : Content[i] \in Bytes
    BY <1>1
  <2> QED
    BY <1>1, <2>1, SubSeqProperties
<1> HIDE DEF rest
<1>3. /\ Len(rest) = size' /\ size' \in Nat
      /\ \A i \in 1 .. size' : rest[i] = Content[i + length]
  BY <1>1, <1>2
<1>4. ASSUME NEW i \in 1 .. size'
      PROVE  rest[i] = buffer'[Place(i)']
  <2>1. i + length \in 1 .. size /\ i \in 1 .. size - length
    BY <1>1
  <2> QED
    BY <1>1, <1>3, <2>1
<1>5. rest = [i \in 1 .. size' |-> rest[i]]
  BY <1>2, <1>3, LenProperties
<1>6. Content' = rest
  BY <1>4, <1>5 DEF Content
<1> QED
  BY <1>1, <1>6 DEF rest
-----------------------------------------------------------------------------
(* Every call keeps the invariant and is a call on the queue. *)

\* A step that leaves array and positions alone leaves the content alone.
LEMMA SameContent ==
    ASSUME RingInv, UNCHANGED <<buffer, size, head, tail>>
    PROVE  RingInv' /\ Content' = Content
BY DEF RingInv, Content, Place

\* The two parts of a sequence
LEMMA Slice ==
    ASSUME NEW S, NEW s \in Seq(S), NEW n \in 0 .. Len(s)
    PROVE  /\ SubSeq(s, 1, n) \in Seq(S) /\ Len(SubSeq(s, 1, n)) = n
           /\ \A j \in 1 .. n : SubSeq(s, 1, n)[j] = s[j]
           /\ SubSeq(s, n + 1, Len(s)) \in Seq(S)
           /\ Len(SubSeq(s, n + 1, Len(s))) = Len(s) - n
           /\ \A j \in 1 .. Len(s) - n : SubSeq(s, n + 1, Len(s))[j] = s[n + j]
<1>1. Len(s) \in Nat /\ \A i \in 1 .. Len(s) : s[i] \in S
  BY LenProperties
<1>2. n \in Nat /\ n <= Len(s)
  BY <1>1
<1>3. /\ SubSeq(s, 1, n) \in Seq(S)
      /\ Len(SubSeq(s, 1, n)) = IF 1 <= n THEN n - 1 + 1 ELSE 0
      /\ \A j \in 1 .. n - 1 + 1 : SubSeq(s, 1, n)[j] = s[1 + j - 1]
  <2>1. \A i \in 1 .. n : s[i] \in S
    BY <1>1, <1>2
  <2> QED
    BY <1>2, <2>1, SubSeqProperties
<1> DEFINE rest == SubSeq(s, n + 1, Len(s))
<1>4. /\ rest \in Seq(S)
      /\ Len(rest) = IF n + 1 <= Len(s) THEN Len(s) - (n + 1) + 1 ELSE 0
      /\ \A j \in 1 .. Len(s) - (n + 1) + 1 : rest[j] = s[(n + 1) + j - 1]
  <2>1. \A i \in n + 1 .. Len(s) : s[i] \in S
    BY <1>1, <1>2
  <2> QED
    BY <1>1, <1>2, <2>1, SubSeqProperties
<1> HIDE DEF rest
<1>5. /\ Len(rest) = Len(s) - n
      /\ \A j \in 1 .. Len(s) - n : rest[j] = s[n + j]
  BY <1>1, <1>2, <1>4
<1>6. /\ Len(SubSeq(s, 1, n)) = n
      /\ \A j \in 1 .. n : SubSeq(s, 1, n)[j] = s[j]
  BY <1>2, <1>3
<1> QED
  BY <1>3, <1>4, <1>5, <1>6 DEF rest

\* Where a byte lies, in the two shapes of the ring
LEMMA PlaceCases ==
    ASSUME RingInv, NEW i \in Nat \ {0}
    PROVE  /\ head + i <= Capacity => Place(i) = head + i - 1
           /\ head + i > Capacity => Place(i) = head + i - 1 - Capacity
BY Caps DEF RingInv, Place

\* Data written to the free places that follow the tail
LEMMA GrowSteps ==
    ASSUME RingInv, NEW data \in Seq(Bytes), NEW array \in Array, NEW at \in 0 .. Capacity,
           size # Capacity, size + Len(data) <= Capacity, Grows(array, data, at),
           at = head + size + Len(data) \/ at = head + size + Len(data) - Capacity,
           \A i \in 1 .. size : array[Place(i)] = buffer[Place(i)],
           \A j \in 1 .. Len(data) : array[Place(size + j)] = data[j]
    PROVE  RingInv' /\ Queue!Offer(data)
<1>1. /\ Len(data) \in Nat /\ Len(Content) = size /\ size \in 0 .. Capacity
      /\ Capacity \in Nat \ {0}
  BY Contents, Caps, LenProperties DEF RingInv
<1>2. /\ buffer' = array /\ tail' = at /\ size' = size + Len(data) /\ result' = "Ok"
      /\ head' = head /\ out' = out
  BY DEF Grows, Return
<1>3. RingInv'
  BY <1>1, <1>2 DEF RingInv
<1>4. Content' = Content \o data
  BY <1>1, <1>2, Added
<1>5. /\ Len(Content) < Capacity /\ Len(Content) + Len(data) <= Capacity
      /\ Content' = Content \o data /\ result' = "Ok" /\ UNCHANGED out
  BY <1>1, <1>2, <1>4
<1> QED
  BY <1>3, <1>5 DEF Queue!Offer

\* Bytes written into one linear space behind the content lengthen it.
LEMMA OneBlock ==
    ASSUME RingInv, NEW data \in Seq(Bytes), NEW at \in 0 .. Capacity,
           size # Capacity, size + Len(data) <= Capacity, at + Len(data) <= Capacity,
           \/ at = head + size
           \/ at = head + size - Capacity /\ at + Len(data) <= head,
           Grows(With(buffer, at, data), data, at + Len(data))
    PROVE  RingInv' /\ Queue!Offer(data)
<1> DEFINE array == With(buffer, at, data)
<1>1. /\ Len(data) \in Nat /\ size \in Nat /\ head \in Nat /\ at \in Nat /\ Capacity \in Nat
      /\ size < Capacity /\ head <= Capacity
  BY Caps, LenProperties DEF RingInv
<1>2. /\ array \in Array
      /\ \A i \in 0 .. Capacity - 1 :
            array[i] = IF i \in at .. at + Len(data) - 1 THEN data[i - at + 1] ELSE buffer[i]
  BY <1>1, Written DEF RingInv
<1> HIDE DEF array
<1>3. ASSUME NEW i \in 1 .. size
      PROVE  array[Place(i)] = buffer[Place(i)]
  <2>1. Place(i) \in 0 .. Capacity - 1
    BY Places
  <2>2. /\ head + i <= Capacity => Place(i) = head + i - 1
        /\ head + i > Capacity => Place(i) = head + i - 1 - Capacity
    BY <1>1, PlaceCases
  <2>3. i \in Nat /\ i >= 1 /\ i <= size
    BY <1>1
  <2>4. CASE at = head + size
    <3>1. Place(i) < at
      BY <1>1, <2>2, <2>3, <2>4
    <3> QED
      BY <1>1, <1>2, <2>1, <3>1
  <2>5. CASE at = head + size - Capacity /\ at + Len(data) <= head
    <3>1. Place(i) < at \/ Place(i) >= at + Len(data)
      BY <1>1, <2>2, <2>3, <2>5
    <3> QED
      BY <1>1, <1>2, <2>1, <3>1
  <2> QED
    BY <2>4, <2>5
<1>4. ASSUME NEW j \in 1 .. Len(data)
      PROVE  array[Place(size + j)] = data[j]
  <2>1. j \in Nat /\ 1 <= j /\ j <= Len(data) /\ size + j \in Nat \ {0} /\ at + j <= Capacity
    BY <1>1
  <2>2. /\ head + (size + j) <= Capacity => Place(size + j) = head + (size + j) - 1
        /\ head + (size + j) > Capacity => Place(size + j) = head + (size + j) - 1 - Capacity
    BY <2>1, PlaceCases
  <2>3. Place(size + j) = at + j - 1
    BY <1>1, <2>1, <2>2
  <2>4. /\ at + j - 1 \in 0 .. Capacity - 1 /\ at + j - 1 \in at .. at + Len(data) - 1
        /\ (at + j - 1) - at + 1 = j
    BY <1>1, <2>1
  <2> QED
    BY <1>2, <2>3, <2>4
<1>5. /\ at + Len(data) \in 0 .. Capacity
      /\ \/ at + Len(data) = head + size + Len(data)
         \/ at + Len(data) = head + size + Len(data) - Capacity
  BY <1>1
<1> QED
  BY <1>2, <1>3, <1>4, <1>5, GrowSteps DEF array

\* append is an offer, whether or not the data wraps around.
LEMMA AppendSteps ==
    ASSUME RingInv, NEW data \in Seq(Bytes), append(data)
    PROVE  RingInv' /\ Queue!Offer(data)
<1>1. /\ Len(data) \in Nat /\ \A i \in 1 .. Len(data) : data[i] \in Bytes
      /\ Len(Content) = size /\ size \in 0 .. Capacity /\ Capacity \in Nat \ {0}
      /\ head \in 0 .. Capacity /\ tail \in 0 .. Capacity
      /\ tail = head + size \/ tail = head + size - Capacity
  BY Contents, Caps, LenProperties DEF RingInv
<1>2. CASE AppendTooLong(data)
  BY <1>1, <1>2, SameContent DEF AppendTooLong, Refuse, Return, Queue!Offer, Queue!Refuse
<1>3. CASE AppendFull(data)
  <2>1. size = Capacity \/ size + Len(data) > Capacity
    BY <1>1, <1>3 DEF AppendFull, FitsInTwo
  <2> QED
    BY <1>1, <1>3, <2>1, SameContent
       DEF AppendFull, Refuse, Return, Queue!Offer, Queue!Refuse
<1>4. CASE AppendAtTail(data)
  <2>1. /\ size # Capacity /\ tail + Len(data) <= Capacity /\ tail = head + size
        /\ size + Len(data) <= Capacity
    BY <1>1, <1>4 DEF AppendAtTail, Appendable
  <2> QED
    BY <1>1, <1>4, <2>1, OneBlock DEF AppendAtTail
<1>5. CASE AppendBetween(data)
  <2>1. /\ size # Capacity /\ tail + Len(data) <= Capacity /\ tail = head + size - Capacity
        /\ tail + Len(data) <= head /\ size + Len(data) <= Capacity
    BY <1>1, <1>5 DEF AppendBetween, Appendable
  <2> QED
    BY <1>1, <1>5, <2>1, OneBlock DEF AppendBetween
<1>6. CASE AppendInTwo(data)
  <2> DEFINE first == Capacity - tail
             front == SubSeq(data, 1, first)
             rest == SubSeq(data, first + 1, Len(data))
             half == With(buffer, tail, front)
             array == With(half, 0, rest)
  <2>1. /\ size # Capacity /\ Len(data) <= Capacity /\ tail >= head
        /\ tail + Len(data) > Capacity /\ tail > 0 /\ Len(data) - first <= head
        /\ Grows(array, data, Len(data) - first)
    BY <1>6 DEF AppendInTwo, Appendable, FitsInTwo
  <2>2. first \in 0 .. Len(data) /\ first \in Nat /\ tail + first = Capacity /\ tail = head + size
    BY <1>1, <2>1
  <2> HIDE DEF first
  <2>3. /\ front \in Seq(Bytes) /\ Len(front) = first
        /\ \A j \in 1 .. first : front[j] = data[j]
    BY <1>1, <2>2, Slice
  <2>4. /\ rest \in Seq(Bytes) /\ Len(rest) = Len(data) - first
        /\ \A j \in 1 .. Len(data) - first : rest[j] = data[first + j]
    BY <1>1, <2>2, Slice
  <2> HIDE DEF front, rest
  <2>5. /\ half \in Array
        /\ \A i \in 0 .. Capacity - 1 :
              half[i] = IF i \in tail .. tail + first - 1 THEN front[i - tail + 1]
                        ELSE buffer[i]
    <3>1. buffer \in Array /\ tail \in Nat
      BY <1>1 DEF RingInv
    <3>2. /\ half \in Array
          /\ \A i \in 0 .. Capacity - 1 :
                half[i] = IF i \in tail .. tail + Len(front) - 1 THEN front[i - tail + 1]
                          ELSE buffer[i]
      BY <2>3, <3>1, Written
    <3> QED
      BY <2>3, <3>2
  <2> HIDE DEF half
  <2>6. /\ array \in Array
        /\ \A i \in 0 .. Capacity - 1 :
              array[i] = IF i \in 0 .. 0 + Len(rest) - 1 THEN rest[i - 0 + 1] ELSE half[i]
    <3>1. 0 \in Nat
      OBVIOUS
    <3> QED
      BY <2>4, <2>5, <3>1, Written
  <2> HIDE DEF array
  <2>7. \A i \in 1 .. size : array[Place(i)] = buffer[Place(i)]
    <3>1. ASSUME NEW i \in 1 .. size
          PROVE  /\ Place(i) \in 0 .. Capacity - 1
                 /\ Place(i) \notin tail .. tail + first - 1
                 /\ Place(i) \notin 0 .. 0 + Len(rest) - 1
      BY <1>1, <2>1, <2>2, <2>4 DEF Place
    <3> QED
      BY <2>5, <2>6, <3>1
  <2>8. ASSUME NEW j \in 1 .. Len(data)
        PROVE  array[Place(size + j)] = data[j]
    <3>1. CASE j <= first
      <4>1. /\ Place(size + j) = tail + j - 1 /\ tail + j - 1 \in 0 .. Capacity - 1
            /\ tail + j - 1 \notin 0 .. 0 + Len(rest) - 1
            /\ tail + j - 1 \in tail .. tail + first - 1
            /\ j \in 1 .. first /\ (tail + j - 1) - tail + 1 = j
        BY <1>1, <2>1, <2>2, <2>4, <3>1 DEF Place
      <4> QED
        BY <2>3, <2>5, <2>6, <4>1
    <3>2. CASE ~ (j <= first)
      <4>1. /\ Place(size + j) = j - first - 1 /\ j - first - 1 \in 0 .. Capacity - 1
            /\ j - first - 1 \in 0 .. 0 + Len(rest) - 1
            /\ j - first \in 1 .. Len(data) - first
            /\ (j - first - 1) - 0 + 1 = j - first /\ first + (j - first) = j
        BY <1>1, <2>1, <2>2, <2>4, <3>2 DEF Place
      <4> QED
        BY <2>4, <2>6, <4>1
    <3> QED
      BY <3>1, <3>2
  <2>9. /\ Len(data) - first \in 0 .. Capacity /\ size + Len(data) <= Capacity
        /\ Len(data) - first = head + size + Len(data) - Capacity
    BY <1>1, <2>1, <2>2
  <2> QED
    BY <2>1, <2>6, <2>7, <2>8, <2>9, GrowSteps
<1> QED
  BY <1>2, <1>3, <1>4, <1>5, <1>6 DEF append

\* pop, peek and skip read the queue.
LEMMA GetDataSteps ==
    ASSUME RingInv, NEW length \in Nat, NEW copied \in BOOLEAN, NEW taken \in BOOLEAN,
           getData(length, copied, taken)
    PROVE  RingInv' /\ Queue!Read(length, copied, taken)
<1>1. /\ Content \in Seq(Bytes)
      /\ Len(Content) = size /\ size \in 0 .. Capacity /\ Capacity \in Nat \ {0}
      /\ head \in 0 .. Capacity /\ tail \in 0 .. Capacity
      /\ tail = head + size \/ tail = head + size - Capacity
  BY Contents, Caps DEF RingInv
<1>2. Content = <<>> <=> size = 0
  BY <1>1, EmptySeq
<1>3. CASE ReadEmpty(length)
  BY <1>2, <1>3, SameContent DEF ReadEmpty, Refuse, Return, Queue!Read, Queue!Refuse
<1>4. CASE ReadTooLong(length)
  BY <1>1, <1>2, <1>4, SameContent DEF ReadTooLong, Refuse, Return, Queue!Read, Queue!Refuse
<1>5. ~ ReadRefused(length)
  BY <1>1 DEF ReadRefused, Valid
<1>6. ASSUME NEW data \in Seq(Bytes), NEW at \in 0 .. Capacity, Valid(length),
             Take(length, copied, taken, data, at), Len(data) = length,
             \A i \in 1 .. length : data[i] = buffer[Place(i)],
             at = head + length \/ at = head + length - Capacity,
             \A i \in 1 .. size - length :
                Place(i + length) = IF at + i <= Capacity THEN at + i - 1
                                    ELSE at + i - 1 - Capacity,
             tail = at + (size - length) \/ tail = at + (size - length) - Capacity
      PROVE  RingInv' /\ Queue!Read(length, copied, taken)
  <2>1. /\ size # 0 /\ length <= size
        /\ out' = IF copied THEN data ELSE out
        /\ head' = IF taken THEN at ELSE head
        /\ size' = IF taken THEN size - length ELSE size
        /\ result' = "Ok" /\ UNCHANGED <<buffer, tail>>
    BY <1>6 DEF Valid, Take, Return
  <2>2. RingInv'
    BY <1>1, <1>6, <2>1 DEF RingInv
  <2>3. data = SubSeq(Content, 1, length)
    BY <1>6, <2>1, ReadOut
  <2>4. Content' = IF taken THEN SubSeq(Content, length + 1, Len(Content)) ELSE Content
    <3>1. CASE taken
      <4>1. \A i \in 1 .. size - length : Place(i)' = Place(i + length)
        BY <1>6, <2>1, <3>1 DEF Place
      <4> QED
        BY <2>1, <3>1, <4>1, TakenOut
    <3>2. CASE ~ taken
      BY <2>1, <3>2, SameContent
    <3> QED
      BY <3>1, <3>2
  <2> QED
    BY <1>1, <1>2, <2>1, <2>2, <2>3, <2>4 DEF Queue!Read
<1>7. CASE ReadLinear(length, copied, taken)
  <2> DEFINE data == Held(head, length)
  <2>1. /\ Valid(length) /\ size # 0 /\ length <= size /\ head + length <= Capacity
        /\ Take(length, copied, taken, data, head + length)
    BY <1>1, <1>7 DEF ReadLinear, Valid
  <2>2. /\ data \in Seq(Bytes) /\ Len(data) = length
        /\ \A i \in 1 .. length : data[i] = buffer[head + i - 1]
    <3>1. head \in Nat /\ length \in Nat
      BY <1>1, Caps DEF RingInv
    <3> QED
      BY <2>1, <3>1, Copied
  <2> HIDE DEF data
  <2>3. \A i \in 1 .. length : Place(i) = head + i - 1
    BY <1>1, <2>1 DEF Place
  <2>4. \A i \in 1 .. size - length :
           Place(i + length) = IF (head + length) + i <= Capacity THEN (head + length) + i - 1
                               ELSE (head + length) + i - 1 - Capacity
    BY <1>1 DEF Place
  <2>5. /\ head + length \in 0 .. Capacity
        /\ \/ tail = (head + length) + (size - length)
           \/ tail = (head + length) + (size - length) - Capacity
    BY <1>1, <2>1
  <2> QED
    BY <1>6, <2>1, <2>2, <2>3, <2>4, <2>5
<1>8. CASE ReadInTwo(length, copied, taken)
  <2> DEFINE first == Capacity - head
             at == length - first
             front == Held(head, first)
             rest == Held(0, at)
             data == front \o rest
  <2>1. /\ Valid(length) /\ size # 0 /\ length <= size
        /\ tail <= head /\ head + length > Capacity
        /\ Take(length, copied, taken, data, at)
    BY <1>8 DEF ReadInTwo, Valid
  <2>2. /\ first \in Nat /\ at \in Nat /\ first + at = length /\ head + first = Capacity
        /\ at <= tail /\ tail = head + size - Capacity
    BY <1>1, <2>1
  <2> HIDE DEF first, at
  <2>3. /\ front \in Seq(Bytes) /\ Len(front) = first
        /\ \A i \in 1 .. first : front[i] = buffer[head + i - 1]
    <3>1. head \in Nat /\ first \in Nat /\ head + first <= Capacity
      BY <1>1, <2>2
    <3> QED
      BY <3>1, Copied
  <2>4. /\ rest \in Seq(Bytes) /\ Len(rest) = at
        /\ \A i \in 1 .. at : rest[i] = buffer[0 + i - 1]
    <3>1. 0 \in Nat /\ 0 + at <= Capacity
      BY <1>1, <2>2
    <3> QED
      BY <2>2, <3>1, Copied
  <2> HIDE DEF front, rest
  <2>5. /\ data \in Seq(Bytes) /\ Len(data) = length
        /\ \A i \in 1 .. length : data[i] = IF i <= first THEN front[i] ELSE rest[i - first]
    BY <2>2, <2>3, <2>4, ConcatProperties
  <2> HIDE DEF data
  <2>6. ASSUME NEW i \in 1 .. length
        PROVE  data[i] = buffer[Place(i)]
    <3>1. CASE i <= first
      <4>1. i \in 1 .. first /\ Place(i) = head + i - 1
        BY <1>1, <2>2, <3>1 DEF Place
      <4> QED
        BY <2>3, <2>5, <3>1, <4>1
    <3>2. CASE ~ (i <= first)
      <4>1. i - first \in 1 .. at /\ Place(i) = 0 + (i - first) - 1
        BY <1>1, <2>2, <3>2 DEF Place
      <4> QED
        BY <2>4, <2>5, <3>2, <4>1
    <3> QED
      BY <3>1, <3>2
  <2>7. \A i \in 1 .. size - length :
           Place(i + length) = IF at + i <= Capacity THEN at + i - 1
                               ELSE at + i - 1 - Capacity
    BY <1>1, <2>1, <2>2 DEF Place
  <2>8. /\ at \in 0 .. Capacity /\ at = head + length - Capacity
        /\ tail = at + (size - length)
    BY <1>1, <2>1, <2>2
  <2> QED
    BY <1>6, <2>1, <2>5, <2>6, <2>7, <2>8
<1> QED
  BY <1>3, <1>4, <1>5, <1>7, <1>8 DEF getData

\* Writing into a linear space and moving the tail is an offer.
LEMMA WriteInPlaceSteps ==
    ASSUME RingInv, NEW data \in Seq(Bytes), WriteInPlace(data)
    PROVE  RingInv' /\ Queue!Offer(data)
<1>1. /\ Len(data) \in Nat /\ size \in 0 .. Capacity /\ Capacity \in Nat \ {0}
      /\ head \in 0 .. Capacity /\ tail \in 0 .. Capacity
      /\ tail = head + size \/ tail = head + size - Capacity
  BY Caps, LenProperties DEF RingInv
<1> DEFINE at == AppendAt
<1>2. /\ size # Capacity /\ Len(data) <= getLinearFreeSpace /\ size + Len(data) <= Capacity
      /\ Grows(With(buffer, at, data), data, at + Len(data))
  BY DEF WriteInPlace, Grows
<1>3. /\ at \in 0 .. Capacity /\ at + Len(data) <= Capacity
      /\ \/ at = head + size
         \/ at = head + size - Capacity /\ at + Len(data) <= head
  <2>1. CASE tail = Capacity
    BY <1>1, <1>2, <2>1 DEF AppendAt, getLinearFreeSpace
  <2>2. CASE tail # Capacity /\ head > tail
    BY <1>1, <1>2, <2>2 DEF AppendAt, getLinearFreeSpace
  <2>3. CASE tail # Capacity /\ ~ (head > tail)
    BY <1>1, <1>2, <2>3 DEF AppendAt, getLinearFreeSpace
  <2> QED
    BY <2>1, <2>2, <2>3
<1> HIDE DEF at
<1> QED
  BY <1>2, <1>3, OneBlock

\* normilize moves what is held to the front of the array; a reader does not
\* see it.
LEMMA NormilizeSteps ==
    ASSUME RingInv, normilize
    PROVE  RingInv' /\ UNCHANGED <<Content, result, out>>
<1>1. /\ size \in Nat /\ head \in Nat /\ tail \in Nat /\ Capacity \in Nat \ {0}
      /\ size <= Capacity /\ head <= Capacity /\ tail <= Capacity
      /\ tail = head + size \/ tail = head + size - Capacity
      /\ buffer \in Array
  BY Caps DEF RingInv
<1>2. /\ head # 0 /\ head' = 0 /\ tail' = size
      /\ size' = size /\ result' = result /\ out' = out
      /\ buffer' = IF size = 0 THEN buffer ELSE MoveToFront
  BY DEF normilize
<1>3. \A i \in 1 .. size : Place(i)' = i - 1
  BY <1>1, <1>2 DEF Place
<1>4. ASSUME buffer' \in Array, \A i \in 1 .. size : buffer'[i - 1] = buffer[Place(i)]
      PROVE  RingInv' /\ Content' = Content
  <2>1. RingInv'
    BY <1>1, <1>2, <1>4 DEF RingInv
  <2>2. \A i \in 1 .. size : buffer'[Place(i)'] = buffer[Place(i)]
    BY <1>3, <1>4
  <2> QED
    BY <1>2, <2>1, <2>2 DEF Content
<1>5. CASE size = 0
  BY <1>1, <1>2, <1>4, <1>5
<1>6. CASE size # 0 /\ Linear
  <2> DEFINE data == Held(head, size)
  <2>1. head + size <= Capacity
    BY <1>1, <1>6 DEF Linear
  <2>2. /\ data \in Seq(Bytes) /\ Len(data) = size
        /\ \A i \in 1 .. size : data[i] = buffer[head + i - 1]
    BY <1>1, <2>1, Copied
  <2>3. buffer' = With(buffer, 0, data)
    BY <1>2, <1>6 DEF MoveToFront
  <2> HIDE DEF data
  <2> DEFINE array == With(buffer, 0, data)
  <2>4. /\ buffer' \in Array
        /\ \A i \in 0 .. Capacity - 1 :
              buffer'[i] = IF i \in 0 .. 0 + Len(data) - 1 THEN data[i - 0 + 1] ELSE buffer[i]
    <3>1. 0 \in Nat
      OBVIOUS
    <3>2. /\ array \in Array
          /\ \A i \in 0 .. Capacity - 1 :
                array[i] = IF i \in 0 .. 0 + Len(data) - 1 THEN data[i - 0 + 1] ELSE buffer[i]
      BY <1>1, <2>2, <3>1, Written
    <3> HIDE DEF array
    <3> QED
      BY <2>3, <3>2 DEF array
  <2>5. ASSUME NEW i \in 1 .. size
        PROVE  buffer'[i - 1] = buffer[Place(i)]
    <3>1. /\ i \in Nat \ {0} /\ i - 1 \in 0 .. Capacity - 1 /\ i - 1 \in 0 .. 0 + Len(data) - 1
          /\ (i - 1) - 0 + 1 = i /\ head + i <= Capacity
      BY <1>1, <2>1, <2>2
    <3>2. Place(i) = head + i - 1
      BY <3>1, PlaceCases
    <3> QED
      BY <2>2, <2>4, <3>1, <3>2
  <2> QED
    BY <1>2, <1>4, <2>4, <2>5
<1>7. CASE size # 0 /\ ~ Linear
  <2> DEFINE first == Capacity - head
             front == Held(head, first)
             rest == Held(0, size - first)
             half == With(buffer, 0, front)
  <2>1. /\ first \in Nat /\ head + first = Capacity /\ size - first \in Nat
        /\ size - first = tail
    BY <1>1, <1>7 DEF Linear
  <2>2. buffer' = With(half, first, rest)
    BY <1>2, <1>7 DEF MoveToFront
  <2> HIDE DEF first
  <2>3. /\ front \in Seq(Bytes) /\ Len(front) = first
        /\ \A i \in 1 .. first : front[i] = buffer[head + i - 1]
    <3>1. head \in Nat /\ head + first <= Capacity
      BY <1>1, <2>1
    <3> QED
      BY <2>1, <3>1, Copied
  <2>4. /\ rest \in Seq(Bytes) /\ Len(rest) = size - first
        /\ \A i \in 1 .. size - first : rest[i] = buffer[0 + i - 1]
    <3>1. 0 \in Nat /\ 0 + (size - first) <= Capacity
      BY <1>1, <2>1
    <3> QED
      BY <2>1, <3>1, Copied
  <2> HIDE DEF front, rest
  <2>5. /\ half \in Array
        /\ \A i \in 0 .. Capacity - 1 :
              half[i] = IF i \in 0 .. 0 + Len(front) - 1 THEN front[i - 0 + 1] ELSE buffer[i]
    <3>1. 0 \in Nat
      OBVIOUS
    <3> QED
      BY <1>1, <2>3, <3>1, Written
  <2> HIDE DEF half
  <2>6. /\ buffer' \in Array
        /\ \A i \in 0 .. Capacity - 1 :
              buffer'[i] = IF i \in first .. first + Len(rest) - 1 THEN rest[i - first + 1]
                           ELSE half[i]
    <3> DEFINE array == With(half, first, rest)
    <3>1. /\ array \in Array
          /\ \A i \in 0 .. Capacity - 1 :
                array[i] = IF i \in first .. first + Len(rest) - 1 THEN rest[i - first + 1]
                           ELSE half[i]
      BY <2>1, <2>4, <2>5, Written
    <3> HIDE DEF array
    <3> QED
      BY <2>2, <3>1 DEF array
  <2>7. ASSUME NEW i \in 1 .. size
        PROVE  buffer'[i - 1] = buffer[Place(i)]
    <3>1. i \in Nat \ {0} /\ i - 1 \in 0 .. Capacity - 1 /\ i <= size
      BY <1>1
    <3>2. /\ head + i <= Capacity => Place(i) = head + i - 1
          /\ head + i > Capacity => Place(i) = head + i - 1 - Capacity
      BY <3>1, PlaceCases
    <3>3. CASE i <= first
      <4>1. /\ i - 1 \notin first .. first + Len(rest) - 1
            /\ i - 1 \in 0 .. 0 + Len(front) - 1 /\ (i - 1) - 0 + 1 = i /\ i \in 1 .. first
        BY <1>1, <2>1, <2>3, <2>4, <3>1, <3>3
      <4>2. Place(i) = head + i - 1
        BY <1>1, <2>1, <3>1, <3>2, <3>3
      <4> QED
        BY <2>3, <2>5, <2>6, <3>1, <4>1, <4>2
    <3>4. CASE ~ (i <= first)
      <4>1. /\ i - 1 \in first .. first + Len(rest) - 1
            /\ (i - 1) - first + 1 = i - first /\ i - first \in 1 .. size - first
        BY <1>1, <2>1, <2>3, <2>4, <3>1, <3>4
      <4>2. Place(i) = 0 + (i - first) - 1
        BY <1>1, <2>1, <3>1, <3>2, <3>4
      <4> QED
        BY <2>4, <2>6, <3>1, <4>1, <4>2
    <3> QED
      BY <3>3, <3>4
  <2> QED
    BY <1>2, <1>4, <2>6, <2>7
<1> QED
  BY <1>2, <1>4, <1>5, <1>6, <1>7

\* clear empties the queue.
LEMMA ClearSteps ==
    ASSUME RingInv, clear
    PROVE  RingInv' /\ Queue!Clear
<1>1. RingInv' /\ size' = 0 /\ UNCHANGED <<result, out>>
  BY Caps DEF RingInv, clear
<1>2. Content' = <<>>
  BY <1>1 DEF Content
<1> QED
  BY <1>1, <1>2 DEF Queue!Clear
-----------------------------------------------------------------------------

\* A new buffer is an empty queue.
LEMMA RingInit == BufferInit => RingInv /\ Queue!QueueInit
<1> SUFFICES ASSUME BufferInit PROVE RingInv /\ Queue!QueueInit
  OBVIOUS
<1>1. RingInv
  BY Caps DEF BufferInit, RingInv, Array
<1>2. Content = <<>>
  BY DEF BufferInit, Content
<1> QED
  BY <1>1, <1>2 DEF BufferInit, Queue!QueueInit

\* Every call keeps the positions sound and is a step of the queue or none.
LEMMA RingStep ==
    RingInv /\ [BufferNext]_bufferVars
        => RingInv' /\ [Queue!QueueNext]_<<Content, result, out>>
<1> SUFFICES ASSUME RingInv, [BufferNext]_bufferVars
             PROVE  RingInv' /\ [Queue!QueueNext]_<<Content, result, out>>
  OBVIOUS
<1>1. ASSUME UNCHANGED <<buffer, size, head, tail, result, out>>
      PROVE  RingInv' /\ UNCHANGED <<Content, result, out>>
  BY <1>1, SameContent
<1>2. ASSUME NEW length \in 0 .. Capacity + 1, NEW data \in [1 .. length -> Bytes],
             append(data) \/ WriteInPlace(data)
      PROVE  RingInv' /\ Queue!QueueNext
  <2>1. data \in Seq(Bytes)
    <3>1. length \in Nat
      BY Caps
    <3> QED
      BY <3>1, DataIsSeq
  <2>2. RingInv' /\ Queue!Offer(data)
    BY <1>2, <2>1, AppendSteps, WriteInPlaceSteps
  <2> QED
    BY <2>2 DEF Queue!QueueNext
<1>3. ASSUME NEW length \in 0 .. Capacity + 1, NEW copied \in BOOLEAN, NEW taken \in BOOLEAN,
             getData(length, copied, taken)
      PROVE  RingInv' /\ Queue!QueueNext
  <2>1. length \in Nat
    BY Caps
  <2>2. RingInv' /\ Queue!Read(length, copied, taken)
    BY <1>3, <2>1, GetDataSteps
  <2> QED
    BY <2>2 DEF Queue!QueueNext
<1>4. ASSUME NEW length \in 0 .. Capacity + 1, NEW data \in [1 .. length -> Bytes],
             WriteOverHeld(data)
      PROVE  RingInv' /\ UNCHANGED <<Content, result, out>>
  BY <1>1, <1>4 DEF WriteOverHeld
<1>5. CASE normilize
  BY <1>5, NormilizeSteps
<1>6. CASE NormilizeOverlaps
  BY <1>1, <1>6 DEF NormilizeOverlaps
<1>7. CASE clear
  BY <1>7, ClearSteps DEF Queue!QueueNext
<1>8. CASE UNCHANGED bufferVars
  BY <1>1, <1>8 DEF bufferVars
<1> QED
  BY <1>2, <1>3, <1>4, <1>5, <1>6, <1>7, <1>8 DEF BufferNext

\* Whatever the capacity, and whatever is appended, written in place, read,
\* peeked at, skipped, moved to the front or cleared, the ring answers as a
\* queue of at most Capacity bytes does: it keeps the order, loses nothing and
\* makes nothing up, and refuses only what the queue has to refuse
\* (BufferStatic.h).
THEOREM BufferIsQueue == BufferSpec => ImplementsByteQueue
<1>1. BufferInit => RingInv /\ Queue!QueueInit
  BY RingInit
<1>2. RingInv /\ [BufferNext]_bufferVars
        => RingInv' /\ [Queue!QueueNext]_<<Content, result, out>>
  BY RingStep
<1> QED
  BY <1>1, <1>2, PTL DEF BufferSpec, ImplementsByteQueue, Queue!QueueSpec

(***************************************************************************)
(* The thread pool.  What was accepted is in the queue, in the hands of a  *)
(* worker or done, and in one of these places; whoever sleeps is needed by *)
(* no task that nobody else will see; and no worker leaves before the      *)
(* queue is empty for good.                                                *)
(***************************************************************************)
Tasks == DOMAIN Child
Awake == {w \in Workers : thread[w] = "awake"}

\* The worker has a task in hand, which it runs or has run.
HasTask(w) == thread[w] \in {"runs", "ends"}

PoolTypes ==
    /\ tasks \in Seq(Tasks) /\ stop \in BOOLEAN
    /\ thread \in [Workers -> {"awake", "asleep", "runs", "ends", "gone"}]
    /\ running \in [Workers -> Tasks \cup {None}]
    /\ \A w \in Workers : HasTask(w) => running[w] \in Tasks
    /\ notifying \subseteq Workers \cup {Owner}
    /\ \A w \in Workers \cap notifying : thread[w] = "ends"
    /\ given \in 0 .. Len(Given)
    /\ owner \in {"working", "stopping", "joining", "gone"}
    /\ stop <=> owner # "working"

\* Nobody leaves early, and the destructor waits for everyone.
NobodyEarly ==
    /\ \A w \in Workers : thread[w] = "gone" => stop /\ tasks = <<>>
    /\ owner = "gone" => \A w \in Workers : thread[w] = "gone"

Kept ==
    \A task : task \in accepted <=>
        \/ task \in done
        \/ \E i \in 1 .. Len(tasks) : tasks[i] = task
        \/ \E w \in Workers : HasTask(w) /\ running[w] = task

\* A task is in one place, and a task that hands in another has not run before.
OnePlace ==
    /\ \A i, j \in 1 .. Len(tasks) : tasks[i] = tasks[j] => i = j
    /\ \A i \in 1 .. Len(tasks) : tasks[i] \notin done
    /\ \A w \in Workers : HasTask(w) =>
          /\ running[w] \notin done
          /\ \A i \in 1 .. Len(tasks) : tasks[i] # running[w]
          /\ \A v \in Workers \ {w} : HasTask(v) => running[v] # running[w]
Born ==
    \A task \in accepted :
        \/ \E i \in 1 .. given : task = Given[i]
        \/ \E one \in Tasks :
              /\ task = Child[one]
              /\ one \in done \/ \E w \in Workers : thread[w] = "ends" /\ running[w] = one

PoolInv == PoolTypes /\ NobodyEarly /\ Kept /\ OnePlace /\ Born /\ WorkIsSeen

\* What the three ways to use the queue do to it
LEMMA QueueFacts ==
    ASSUME NEW S, NEW q \in Seq(S), NEW e \in S
    PROVE  /\ Append(q, e) \in Seq(S) /\ Len(Append(q, e)) = Len(q) + 1
           /\ \A i \in 1 .. Len(q) : Append(q, e)[i] = q[i]
           /\ Append(q, e)[Len(q) + 1] = e
           /\ Len(q) \in Nat
           /\ q # <<>> => /\ Head(q) = q[1] /\ 1 \in 1 .. Len(q)
                          /\ Tail(q) \in Seq(S) /\ Len(Tail(q)) = Len(q) - 1
                          /\ \A i \in 1 .. Len(q) - 1 : Tail(q)[i] = q[i + 1]
OBVIOUS

\* Nobody has a task, and there are none, when the pool is made.
LEMMA PoolStarts == Pool!PoolInit => PoolInv
<1> SUFFICES ASSUME Pool!PoolInit PROVE PoolInv
  OBVIOUS
<1> USE DEF Pool!PoolInit
<1>1. PoolTypes
  <2>1. tasks \in Seq(Tasks) /\ given \in 0 .. Len(Given)
    BY TasksAssumption
  <2>2. /\ thread \in [Workers -> {"awake", "asleep", "runs", "ends", "gone"}]
        /\ running \in [Workers -> Tasks \cup {None}]
        /\ \A w \in Workers : ~ HasTask(w)
    BY DEF HasTask
  <2> QED
    BY <2>1, <2>2 DEF PoolTypes
<1>2. NobodyEarly /\ Kept /\ OnePlace /\ Born
  BY DEF NobodyEarly, Kept, OnePlace, Born, HasTask
<1>3. WorkIsSeen
  BY DEF WorkIsSeen
<1> QED
  BY <1>1, <1>2, <1>3 DEF PoolInv

\* Types, action by action
LEMMA PoolTyped == ASSUME PoolTypes, Pool!PoolNext PROVE PoolTypes'
<1> USE DEF PoolTypes, HasTask
<1>1. ASSUME NEW w \in Workers, Pool!Looks(w) PROVE PoolTypes'
  <2>1. CASE Pool!Sleeps(w)
    BY <1>1, <2>1 DEF Pool!Looks, Pool!Sleeps
  <2>2. CASE Pool!Leaves(w)
    BY <1>1, <2>2 DEF Pool!Looks, Pool!Leaves
  <2>3. CASE Pool!Takes(w)
    <3>1. Head(tasks) \in Tasks /\ Tail(tasks) \in Seq(Tasks)
      BY <2>3 DEF Pool!Takes
    <3> QED
      BY <1>1, <2>3, <3>1 DEF Pool!Looks, Pool!Takes
  <2> QED
    BY <1>1, <2>1, <2>2, <2>3 DEF Pool!Looks
<1>2. ASSUME NEW w \in Workers, Pool!Spurious(w) PROVE PoolTypes'
  BY <1>2 DEF Pool!Spurious
<1>3. ASSUME NEW w \in Workers, Pool!HandsIn(w) PROVE PoolTypes'
  <2>1. Child[running[w]] \in Tasks
    BY <1>3, TasksAssumption DEF Pool!HandsIn, Tasks
  <2>2. tasks' \in Seq(Tasks) /\ notifying' \subseteq notifying \cup {w}
    <3>1. CASE Pool!Accepts(w, Child[running[w]])
      BY <2>1, <3>1, QueueFacts DEF Pool!Accepts
    <3>2. CASE Pool!Hangs(w)
      BY <3>2 DEF Pool!Hangs
    <3> QED
      BY <1>3, <3>1, <3>2 DEF Pool!HandsIn
  <2> QED
    BY <1>3, <2>2 DEF Pool!HandsIn
<1>4. ASSUME NEW by, Pool!notify_one(by) PROVE PoolTypes'
  <2>1. \/ thread' = thread
        \/ \E w \in Workers : thread[w] = "asleep" /\ thread' = [thread EXCEPT ![w] = "awake"]
    BY <1>4 DEF Pool!notify_one
  <2> QED
    BY <1>4, <2>1 DEF Pool!notify_one
<1>5. ASSUME NEW w \in Workers, Pool!Ends(w) PROVE PoolTypes'
  BY <1>5 DEF Pool!Ends
<1>6. ASSUME Pool!OwnerHandsIn PROVE PoolTypes'
  <2>1. Given[given + 1] \in Tasks /\ given + 1 \in 0 .. Len(Given)
    BY <1>6, TasksAssumption DEF Pool!OwnerHandsIn, Tasks
  <2>2. tasks' \in Seq(Tasks) /\ notifying' = notifying \cup {Owner}
    BY <1>6, <2>1 DEF Pool!OwnerHandsIn, Pool!Accepts
  <2> QED
    BY <1>6, <2>1, <2>2, WorkersAssumption DEF Pool!OwnerHandsIn
<1>7. ASSUME Pool!Stops PROVE PoolTypes'
  BY <1>7 DEF Pool!Stops
<1>8. ASSUME Pool!notify_all PROVE PoolTypes'
  BY <1>8 DEF Pool!notify_all
<1>9. ASSUME Pool!Joins PROVE PoolTypes'
  BY <1>9 DEF Pool!Joins
<1> QED
  BY <1>1, <1>2, <1>3, <1>4, <1>5, <1>6, <1>7, <1>8, <1>9
     DEF Pool!PoolNext, Pool!WorkerStep, Pool!OwnerGoesOn

\* A worker leaves only an empty queue, and nothing comes into it afterwards.
LEMMA NobodyLeavesEarly ==
    ASSUME PoolTypes, NobodyEarly, Pool!PoolNext PROVE NobodyEarly'
<1> USE DEF NobodyEarly, PoolTypes
<1>1. ASSUME NEW w \in Workers, Pool!Looks(w) PROVE NobodyEarly'
  <2>1. CASE Pool!Sleeps(w)
    BY <1>1, <2>1 DEF Pool!Looks, Pool!Sleeps
  <2>2. CASE Pool!Leaves(w)
    BY <1>1, <2>2 DEF Pool!Looks, Pool!Leaves
  <2>3. CASE Pool!Takes(w)
    BY <1>1, <2>3 DEF Pool!Looks, Pool!Takes
  <2> QED
    BY <1>1, <2>1, <2>2, <2>3 DEF Pool!Looks
<1>2. ASSUME NEW w \in Workers, Pool!Spurious(w) PROVE NobodyEarly'
  BY <1>2 DEF Pool!Spurious
<1>3. ASSUME NEW w \in Workers, Pool!HandsIn(w) PROVE NobodyEarly'
  BY <1>3 DEF Pool!HandsIn, Pool!Accepts, Pool!Hangs
<1>4. ASSUME NEW by, Pool!notify_one(by) PROVE NobodyEarly'
  <2>1. \/ thread' = thread
        \/ \E w \in Workers : thread[w] = "asleep" /\ thread' = [thread EXCEPT ![w] = "awake"]
    BY <1>4 DEF Pool!notify_one
  <2> QED
    BY <1>4, <2>1 DEF Pool!notify_one
<1>5. ASSUME NEW w \in Workers, Pool!Ends(w) PROVE NobodyEarly'
  BY <1>5 DEF Pool!Ends
<1>6. ASSUME Pool!OwnerHandsIn PROVE NobodyEarly'
  BY <1>6 DEF Pool!OwnerHandsIn, Pool!Accepts
<1>7. ASSUME Pool!Stops PROVE NobodyEarly'
  BY <1>7 DEF Pool!Stops
<1>8. ASSUME Pool!notify_all PROVE NobodyEarly'
  BY <1>8 DEF Pool!notify_all
<1>9. ASSUME Pool!Joins PROVE NobodyEarly'
  BY <1>9 DEF Pool!Joins
<1> QED
  BY <1>1, <1>2, <1>3, <1>4, <1>5, <1>6, <1>7, <1>8, <1>9
     DEF Pool!PoolNext, Pool!WorkerStep, Pool!OwnerGoesOn

\* Nothing moves: no task enters or leaves the queue or a worker's hands.
Quiet ==
    /\ tasks' = tasks /\ running' = running /\ accepted' = accepted /\ done' = done
    /\ given' = given
    /\ \A w \in Workers : HasTask(w)' <=> HasTask(w)
    /\ \A w \in Workers : thread[w] = "ends" => thread'[w] = "ends"

LEMMA QuietKeeps ==
    ASSUME Kept, OnePlace, Born, Quiet PROVE Kept' /\ OnePlace' /\ Born'
<1>1. Kept'
  BY DEF Kept, Quiet
<1>2. OnePlace'
  BY DEF OnePlace, Quiet
<1>3. Born'
  BY DEF Born, Quiet
<1> QED
  BY <1>1, <1>2, <1>3

\* A worker takes the first task: out of the queue, into its hands.
LEMMA TakesOne ==
    ASSUME PoolTypes, Kept, OnePlace, Born,
           NEW w \in Workers, Pool!Looks(w), Pool!Takes(w)
    PROVE  Kept' /\ OnePlace' /\ Born' /\ running'[w] = tasks[1] /\ 1 \in 1 .. Len(tasks)
<1>1. /\ Len(tasks) \in Nat /\ 1 \in 1 .. Len(tasks)
      /\ Head(tasks) = tasks[1] /\ Len(tasks') = Len(tasks) - 1
      /\ \A i \in 1 .. Len(tasks) - 1 : tasks'[i] = tasks[i + 1]
  <2>1. tasks \in Seq(Tasks) /\ tasks # <<>> /\ tasks' = Tail(tasks)
    BY DEF PoolTypes, Pool!Takes
  <2>2. tasks[1] \in Tasks
    BY <2>1
  <2> QED
    BY <2>1, <2>2, QueueFacts
<1>2. /\ ~ HasTask(w) /\ HasTask(w)' /\ running'[w] = tasks[1]
      /\ \A v \in Workers \ {w} : running'[v] = running[v] /\ thread'[v] = thread[v]
      /\ \A v \in Workers \ {w} : HasTask(v)' <=> HasTask(v)
      /\ accepted' = accepted /\ done' = done /\ given' = given
  BY <1>1 DEF PoolTypes, Pool!Looks, Pool!Takes, HasTask
<1>3. ASSUME NEW task
      PROVE  (\E i \in 1 .. Len(tasks) : tasks[i] = task)
             <=> task = tasks[1] \/ \E i \in 1 .. Len(tasks') : tasks'[i] = task
  <2>1. ASSUME NEW i \in 1 .. Len(tasks), tasks[i] = task, task # tasks[1]
        PROVE  \E j \in 1 .. Len(tasks') : tasks'[j] = task
    <3>1. i - 1 \in 1 .. Len(tasks) - 1 /\ (i - 1) + 1 = i
      BY <1>1, <2>1
    <3> QED
      BY <1>1, <2>1, <3>1
  <2>2. ASSUME NEW i \in 1 .. Len(tasks'), tasks'[i] = task
        PROVE  \E j \in 1 .. Len(tasks) : tasks[j] = task
    <3>1. i \in 1 .. Len(tasks) - 1 /\ i + 1 \in 1 .. Len(tasks)
      BY <1>1
    <3> QED
      BY <1>1, <2>2, <3>1
  <2> QED
    BY <1>1, <2>1, <2>2
<1>4. Kept'
  <2> SUFFICES ASSUME NEW task
               PROVE  task \in accepted' <=>
                         \/ task \in done'
                         \/ \E i \in 1 .. Len(tasks') : tasks'[i] = task
                         \/ \E v \in Workers : HasTask(v)' /\ running'[v] = task
    BY DEF Kept
  <2>1. (\E v \in Workers : HasTask(v)' /\ running'[v] = task)
        <=> task = tasks[1] \/ \E v \in Workers : HasTask(v) /\ running[v] = task
    BY <1>2
  <2> QED
    BY <1>2, <1>3, <2>1 DEF Kept
<1>5. OnePlace'
  <2>1. \A i \in 1 .. Len(tasks') : /\ i + 1 \in 1 .. Len(tasks) /\ i + 1 # 1
                                    /\ tasks'[i] = tasks[i + 1]
    BY <1>1
  <2>2. \A i, j \in 1 .. Len(tasks') : tasks'[i] = tasks'[j] => i = j
    <3> SUFFICES ASSUME NEW i \in 1 .. Len(tasks'), NEW j \in 1 .. Len(tasks'),
                        tasks'[i] = tasks'[j]
                 PROVE  i = j
      OBVIOUS
    <3>1. i + 1 = j + 1
      BY <2>1 DEF OnePlace
    <3> QED
      BY <1>1, <3>1
  <2>3. \A i \in 1 .. Len(tasks') : tasks'[i] \notin done' /\ tasks'[i] # tasks[1]
    BY <1>1, <1>2, <2>1 DEF OnePlace
  <2>4. ASSUME NEW v \in Workers, HasTask(v)'
        PROVE  /\ running'[v] \notin done'
               /\ \A i \in 1 .. Len(tasks') : tasks'[i] # running'[v]
               /\ \A u \in Workers \ {v} : HasTask(u)' => running'[u] # running'[v]
    <3>1. CASE v = w
      BY <1>1, <1>2, <2>3, <3>1 DEF OnePlace
    <3>2. CASE v # w
      <4>1. HasTask(v) /\ running'[v] = running[v]
        BY <1>2, <2>4, <3>2
      <4>2. running'[v] \notin done' /\ \A i \in 1 .. Len(tasks') : tasks'[i] # running'[v]
        BY <1>2, <2>1, <4>1 DEF OnePlace
      <4>3. ASSUME NEW u \in Workers \ {v}, HasTask(u)' PROVE running'[u] # running'[v]
        BY <1>1, <1>2, <4>1, <4>3 DEF OnePlace
      <4> QED
        BY <4>2, <4>3
    <3> QED
      BY <3>1, <3>2
  <2> QED
    BY <2>2, <2>3, <2>4 DEF OnePlace
<1>6. Born'
  <2>1. thread[w] # "ends"
    BY <1>2 DEF HasTask
  <2> QED
    BY <1>2, <2>1 DEF Born
<1> QED
  BY <1>1, <1>2, <1>4, <1>5, <1>6

\* A new task goes to the end of the queue; the workers' hands stay as they are.
LEMMA AcceptsOne ==
    ASSUME PoolTypes, Kept, OnePlace, NEW new \in Tasks, new \notin accepted,
           tasks' = Append(tasks, new), accepted' = accepted \cup {new},
           running' = running, done' = done,
           \A w \in Workers : HasTask(w)' <=> HasTask(w)
    PROVE  Kept' /\ OnePlace'
<1>1. /\ Len(tasks) \in Nat /\ Len(tasks') = Len(tasks) + 1
      /\ \A i \in 1 .. Len(tasks) : tasks'[i] = tasks[i]
      /\ tasks'[Len(tasks) + 1] = new
  BY QueueFacts DEF PoolTypes
<1>2. \A i \in 1 .. Len(tasks') : i \in 1 .. Len(tasks) \/ i = Len(tasks) + 1
  BY <1>1
<1>3. /\ new \notin done /\ \A i \in 1 .. Len(tasks) : tasks[i] # new
      /\ \A w \in Workers : HasTask(w) => running[w] # new
  BY DEF Kept
<1>4. ASSUME NEW task
      PROVE  (\E i \in 1 .. Len(tasks') : tasks'[i] = task)
             <=> task = new \/ \E i \in 1 .. Len(tasks) : tasks[i] = task
  <2>1. Len(tasks) + 1 \in 1 .. Len(tasks') /\ \A i \in 1 .. Len(tasks) : i \in 1 .. Len(tasks')
    BY <1>1
  <2> QED
    BY <1>1, <1>2, <2>1
<1>5. Kept'
  BY <1>4 DEF Kept
<1>6. OnePlace'
  <2>1. \A i, j \in 1 .. Len(tasks') : tasks'[i] = tasks'[j] => i = j
    BY <1>1, <1>2, <1>3 DEF OnePlace
  <2>2. \A i \in 1 .. Len(tasks') : tasks'[i] \notin done'
    BY <1>1, <1>2, <1>3 DEF OnePlace
  <2>3. ASSUME NEW w \in Workers, HasTask(w)
        PROVE  \A i \in 1 .. Len(tasks') : tasks'[i] # running[w]
    BY <1>1, <1>2, <1>3, <2>3 DEF OnePlace
  <2> QED
    BY <2>1, <2>2, <2>3 DEF OnePlace
<1> QED
  BY <1>5, <1>6

\* A task hands in its child, which nobody else does.
LEMMA HandsInOne ==
    ASSUME PoolTypes, Kept, OnePlace, Born, NEW w \in Workers, Pool!HandsIn(w)
    PROVE  Kept' /\ OnePlace' /\ Born'
<1>1. /\ thread[w] = "runs" /\ thread' = [thread EXCEPT ![w] = "ends"]
      /\ running' = running /\ done' = done /\ given' = given
  BY DEF Pool!HandsIn
<1>2. /\ \A v \in Workers : HasTask(v)' <=> HasTask(v)
      /\ \A v \in Workers : thread[v] = "ends" => thread'[v] = "ends"
      /\ thread'[w] = "ends"
  BY <1>1 DEF PoolTypes, HasTask
<1>3. CASE Pool!Hangs(w)
  BY <1>1, <1>2, <1>3, QuietKeeps DEF Quiet, Pool!Hangs
<1>4. CASE Pool!Accepts(w, Child[running[w]])
  <2>1. running[w] \in Tasks /\ Child[running[w]] \in Tasks /\ Child[running[w]] # None
    BY <1>1, TasksAssumption DEF Pool!HandsIn, PoolTypes, HasTask, Tasks
  <2>2. Child[running[w]] \notin accepted
    <3> SUFFICES ASSUME Child[running[w]] \in accepted PROVE FALSE
      OBVIOUS
    <3>1. \A i \in 1 .. given : Child[running[w]] # Given[i]
      <4>1. \A i \in 1 .. given : i \in 1 .. Len(Given)
        BY TasksAssumption DEF PoolTypes
      <4> QED
        BY <2>1, <4>1, TasksAssumption DEF Tasks
    <3>2. PICK one \in Tasks :
                 /\ Child[running[w]] = Child[one]
                 /\ one \in done \/ \E v \in Workers : thread[v] = "ends" /\ running[v] = one
      BY <3>1 DEF Born
    <3>3. one = running[w]
      BY <2>1, <3>2, TasksAssumption DEF Tasks
    <3> QED
      BY <1>1, <3>2, <3>3 DEF OnePlace, HasTask
  <2>3. Kept' /\ OnePlace'
    BY <1>1, <1>2, <1>4, <2>1, <2>2, AcceptsOne DEF Pool!Accepts
  <2>4. Born'
    BY <1>1, <1>2, <1>4, <2>1 DEF Born, Pool!Accepts
  <2> QED
    BY <2>3, <2>4
<1> QED
  BY <1>3, <1>4 DEF Pool!HandsIn

\* The owner hands in its next task, which it has not handed in before.
LEMMA OwnerHandsInOne ==
    ASSUME PoolTypes, Kept, OnePlace, Born, Pool!OwnerHandsIn
    PROVE  Kept' /\ OnePlace' /\ Born'
<1>1. /\ given' = given + 1 /\ thread' = thread /\ running' = running /\ done' = done
      /\ tasks' = Append(tasks, Given[given + 1])
      /\ accepted' = accepted \cup {Given[given + 1]}
  BY DEF Pool!OwnerHandsIn, Pool!Accepts
<1>2. given \in Nat /\ Len(Given) \in Nat /\ given + 1 \in 1 .. Len(Given)
  BY TasksAssumption DEF Pool!OwnerHandsIn, PoolTypes
<1>3. Given[given + 1] \in Tasks
  BY <1>2, TasksAssumption DEF Tasks
<1>4. Given[given + 1] \notin accepted
  <2>1. \A i \in 1 .. given : i \in 1 .. Len(Given) /\ i # given + 1
    BY <1>2
  <2>2. \A i \in 1 .. given : Given[i] # Given[given + 1]
    BY <1>2, <2>1, TasksAssumption
  <2>3. \A one \in Tasks : Child[one] # Given[given + 1]
    BY <1>2, TasksAssumption DEF Tasks
  <2> QED
    BY <2>2, <2>3 DEF Born
<1>5. Kept' /\ OnePlace'
  <2>1. \A w \in Workers : HasTask(w)' <=> HasTask(w)
    BY <1>1 DEF HasTask
  <2> QED
    BY <1>1, <1>3, <1>4, <2>1, AcceptsOne
<1>6. Born'
  <2>1. given + 1 \in 1 .. given' /\ \A i \in 1 .. given : i \in 1 .. given'
    BY <1>1, <1>2
  <2> QED
    BY <1>1, <2>1 DEF Born
<1> QED
  BY <1>5, <1>6

\* A task that has ended is done, and in nobody's hands.
LEMMA EndsOne ==
    ASSUME PoolTypes, Kept, OnePlace, Born, NEW w \in Workers, Pool!Ends(w)
    PROVE  Kept' /\ OnePlace' /\ Born'
<1>1. /\ HasTask(w) /\ ~ HasTask(w)' /\ done' = done \cup {running[w]}
      /\ \A v \in Workers \ {w} : running'[v] = running[v] /\ thread'[v] = thread[v]
      /\ \A v \in Workers \ {w} : HasTask(v)' <=> HasTask(v)
      /\ tasks' = tasks /\ accepted' = accepted /\ given' = given
  BY DEF PoolTypes, Pool!Ends, HasTask
<1>2. Kept'
  BY <1>1 DEF Kept
<1>3. OnePlace'
  <2>1. \A i \in 1 .. Len(tasks') : tasks'[i] \notin done'
    BY <1>1 DEF OnePlace
  <2>2. ASSUME NEW v \in Workers, HasTask(v)'
        PROVE  /\ running'[v] \notin done'
               /\ \A i \in 1 .. Len(tasks') : tasks'[i] # running'[v]
               /\ \A u \in Workers \ {v} : HasTask(u)' => running'[u] # running'[v]
    <3>1. v # w /\ HasTask(v) /\ running'[v] = running[v]
      BY <1>1, <2>2
    <3>2. running'[v] \notin done'
      BY <1>1, <3>1 DEF OnePlace
    <3>3. \A i \in 1 .. Len(tasks') : tasks'[i] # running'[v]
      BY <1>1, <3>1 DEF OnePlace
    <3>4. \A u \in Workers \ {v} : HasTask(u)' => running'[u] # running'[v]
      BY <1>1, <3>1 DEF OnePlace
    <3> QED
      BY <3>2, <3>3, <3>4
  <2>3. \A i, j \in 1 .. Len(tasks') : tasks'[i] = tasks'[j] => i = j
    BY <1>1 DEF OnePlace
  <2> QED
    BY <2>1, <2>2, <2>3 DEF OnePlace
<1>4. Born'
  <2> SUFFICES ASSUME NEW task \in accepted
               PROVE  \/ \E i \in 1 .. given' : task = Given[i]
                      \/ \E one \in Tasks :
                            /\ task = Child[one]
                            /\ \/ one \in done'
                               \/ \E v \in Workers : thread'[v] = "ends" /\ running'[v] = one
    BY <1>1 DEF Born
  <2>1. CASE \E i \in 1 .. given : task = Given[i]
    BY <1>1, <2>1
  <2>2. ASSUME NEW one \in Tasks, task = Child[one],
               one \in done \/ \E v \in Workers : thread[v] = "ends" /\ running[v] = one
        PROVE  one \in done' \/ \E v \in Workers : thread'[v] = "ends" /\ running'[v] = one
    BY <1>1, <2>2
  <2> QED
    BY <2>1, <2>2 DEF Born
<1> QED
  BY <1>2, <1>3, <1>4

\* Every step keeps each task in one place.
LEMMA TasksKept ==
    ASSUME PoolTypes, Kept, OnePlace, Born, Pool!PoolNext PROVE Kept' /\ OnePlace' /\ Born'
<1> DEFINE Goal == Kept' /\ OnePlace' /\ Born'
<1>1. ASSUME NEW w \in Workers, Pool!Looks(w) PROVE Goal
  <2>1. CASE Pool!Sleeps(w) \/ Pool!Leaves(w)
    <3>1. Quiet
      BY <1>1, <2>1 DEF Quiet, HasTask, PoolTypes, Pool!Looks, Pool!Sleeps, Pool!Leaves
    <3> QED
      BY <3>1, QuietKeeps
  <2>2. CASE Pool!Takes(w)
    BY <1>1, <2>2, TakesOne
  <2> QED
    BY <1>1, <2>1, <2>2 DEF Pool!Looks
<1>2. ASSUME NEW w \in Workers, Pool!Spurious(w) PROVE Goal
  <2>1. Quiet
    BY <1>2 DEF Quiet, HasTask, PoolTypes, Pool!Spurious
  <2> QED
    BY <2>1, QuietKeeps
<1>3. ASSUME NEW w \in Workers, Pool!HandsIn(w) PROVE Goal
  BY <1>3, HandsInOne
<1>4. ASSUME NEW by, Pool!notify_one(by) PROVE Goal
  <2>1. \/ thread' = thread
        \/ \E w \in Workers : thread[w] = "asleep" /\ thread' = [thread EXCEPT ![w] = "awake"]
    BY <1>4 DEF Pool!notify_one
  <2>2. Quiet
    BY <1>4, <2>1 DEF Quiet, HasTask, PoolTypes, Pool!notify_one
  <2> QED
    BY <2>2, QuietKeeps
<1>5. ASSUME NEW w \in Workers, Pool!Ends(w) PROVE Goal
  BY <1>5, EndsOne
<1>6. ASSUME Pool!OwnerHandsIn PROVE Goal
  BY <1>6, OwnerHandsInOne
<1>7. ASSUME Pool!Stops \/ Pool!notify_all \/ Pool!Joins PROVE Goal
  <2>1. Quiet
    BY <1>7 DEF Quiet, HasTask, PoolTypes, Pool!Stops, Pool!notify_all, Pool!Joins
  <2> QED
    BY <2>1, QuietKeeps
<1> QED
  BY <1>1, <1>2, <1>3, <1>4, <1>5, <1>6, <1>7
     DEF Pool!PoolNext, Pool!WorkerStep, Pool!OwnerGoesOn

\* One more, one less, for the sets that are counted
LEMMA OneMore ==
    ASSUME NEW S, IsFiniteSet(S), NEW e, e \notin S
    PROVE  /\ IsFiniteSet(S \cup {e}) /\ Cardinality(S) \in Nat
           /\ Cardinality(S \cup {e}) = Cardinality(S) + 1
BY FS_AddElement, FS_CardinalityType

LEMMA OneLess ==
    ASSUME NEW S, IsFiniteSet(S), NEW e \in S
    PROVE  /\ IsFiniteSet(S \ {e}) /\ Cardinality(S) \in Nat
           /\ Cardinality(S \ {e}) = Cardinality(S) - 1
BY FS_RemoveElement, FS_CardinalityType

LEMMA FiniteHere ==
    ASSUME PoolTypes
    PROVE  /\ IsFiniteSet(notifying) /\ IsFiniteSet(Awake)
           /\ Cardinality(notifying) \in Nat /\ Cardinality(Awake) \in Nat
           /\ Len(tasks) \in Nat
<1>1. IsFiniteSet(Workers \cup {Owner})
  BY WorkersAssumption, FS_AddElement
<1>2. Awake \subseteq Workers /\ notifying \subseteq Workers \cup {Owner}
  BY DEF Awake, PoolTypes
<1>3. IsFiniteSet(notifying) /\ IsFiniteSet(Awake)
  BY <1>1, <1>2, WorkersAssumption, FS_Subset
<1> QED
  BY <1>3, FS_CardinalityType DEF PoolTypes

\* The balance of a wakeup: what is in the queue, who is about to notify, who is awake
LEMMA WorkStaysSeen ==
    ASSUME PoolTypes, WorkIsSeen, Pool!PoolNext PROVE WorkIsSeen'
<1> USE DEF PoolTypes
<1> DEFINE Sleeper == \E w \in Workers : thread[w] = "asleep"
<1>0. /\ IsFiniteSet(notifying) /\ IsFiniteSet(Awake)
      /\ Cardinality(notifying) \in Nat /\ Cardinality(Awake) \in Nat /\ Len(tasks) \in Nat
  BY FiniteHere
<1>a. WorkIsSeen <=> (Sleeper => /\ owner \in {"working", "stopping"}
                                 /\ Len(tasks) <= Cardinality(notifying) + Cardinality(Awake))
  BY DEF WorkIsSeen, Awake
<1>b. WorkIsSeen' <=> (Sleeper' => /\ owner' \in {"working", "stopping"}
                                   /\ Len(tasks') <= Cardinality(notifying') + Cardinality(Awake'))
  BY DEF WorkIsSeen, Awake
<1> HIDE DEF Sleeper
<1>1. ASSUME NEW w \in Workers, Pool!Looks(w) PROVE WorkIsSeen'
  <2>1. notifying' = notifying /\ owner' = owner /\ w \in Awake
    BY <1>1 DEF Pool!Looks, Awake
  <2>2. CASE Pool!Sleeps(w)
    <3>1. Len(tasks') = 0 /\ owner' \in {"working", "stopping"}
      BY <1>1, <2>1, <2>2 DEF Pool!Looks, Pool!Sleeps
    <3>2. Awake' = Awake \ {w}
      BY <1>1, <2>2 DEF Awake, Pool!Looks, Pool!Sleeps
    <3>3. Cardinality(Awake') \in Nat
      BY <1>0, <3>2, FS_Subset, FS_CardinalityType
    <3> QED
      BY <1>0, <1>b, <2>1, <3>1, <3>3
  <2>3. CASE Pool!Leaves(w)
    <3>1. Len(tasks') = 0 /\ (Sleeper' => Sleeper)
      BY <1>1, <2>3 DEF Sleeper, Pool!Looks, Pool!Leaves
    <3>2. Awake' = Awake \ {w}
      BY <1>1, <2>3 DEF Awake, Pool!Looks, Pool!Leaves
    <3>3. Cardinality(Awake') \in Nat
      BY <1>0, <3>2, FS_Subset, FS_CardinalityType
    <3> QED
      BY <1>0, <1>a, <1>b, <2>1, <3>1, <3>3
  <2>4. CASE Pool!Takes(w)
    <3>1. Len(tasks') = Len(tasks) - 1 /\ (Sleeper' => Sleeper)
      BY <1>1, <2>4, QueueFacts DEF Sleeper, Pool!Looks, Pool!Takes
    <3>2. Awake' = Awake \ {w}
      BY <1>1, <2>4 DEF Awake, Pool!Looks, Pool!Takes
    <3>3. Cardinality(Awake') = Cardinality(Awake) - 1
      BY <1>0, <2>1, <3>2, OneLess
    <3> QED
      BY <1>0, <1>a, <1>b, <2>1, <3>1, <3>3
  <2> QED
    BY <1>1, <2>2, <2>3, <2>4 DEF Pool!Looks
<1>2. ASSUME NEW w \in Workers, thread[w] = "asleep", thread' = [thread EXCEPT ![w] = "awake"],
             tasks' = tasks, owner' = owner
      PROVE  /\ Sleeper /\ Cardinality(Awake') = Cardinality(Awake) + 1
  <2>1. Awake' = Awake \cup {w} /\ w \notin Awake
    BY <1>2 DEF Awake
  <2> QED
    BY <1>0, <1>2, <2>1, OneMore DEF Sleeper
<1>3. ASSUME NEW w \in Workers, Pool!Spurious(w) PROVE WorkIsSeen'
  <2>1. Sleeper /\ Cardinality(Awake') = Cardinality(Awake) + 1
    BY <1>2, <1>3 DEF Pool!Spurious
  <2> QED
    BY <1>0, <1>3, <1>a, <1>b, <2>1 DEF Pool!Spurious
<1>4. ASSUME NEW w \in Workers, Pool!HandsIn(w) PROVE WorkIsSeen'
  <2>1. owner' = owner /\ (Sleeper' => Sleeper) /\ Awake' = Awake /\ w \notin notifying
    BY <1>4 DEF Pool!HandsIn, Sleeper, Awake
  <2>2. CASE Pool!Hangs(w)
    BY <1>a, <1>b, <2>1, <2>2 DEF Pool!Hangs
  <2>3. CASE Pool!Accepts(w, Child[running[w]])
    <3>1. Child[running[w]] \in Tasks
      BY <1>4, TasksAssumption DEF Pool!HandsIn, Tasks, HasTask
    <3>2. Len(tasks') = Len(tasks) + 1
      BY <2>3, <3>1, QueueFacts DEF Pool!Accepts
    <3>3. Cardinality(notifying') = Cardinality(notifying) + 1
      BY <1>0, <2>1, <2>3, OneMore DEF Pool!Accepts
    <3> QED
      BY <1>0, <1>a, <1>b, <2>1, <3>2, <3>3
  <2> QED
    BY <1>4, <2>2, <2>3 DEF Pool!HandsIn
<1>5. ASSUME NEW by, Pool!notify_one(by) PROVE WorkIsSeen'
  <2>1. /\ tasks' = tasks /\ owner' = owner
        /\ Cardinality(notifying') = Cardinality(notifying) - 1
    BY <1>0, <1>5, OneLess DEF Pool!notify_one
  <2>2. CASE Sleeper
    <3>1. PICK w \in Workers : thread[w] = "asleep" /\ thread' = [thread EXCEPT ![w] = "awake"]
      BY <1>5, <2>2 DEF Pool!notify_one, Sleeper
    <3>2. Cardinality(Awake') = Cardinality(Awake) + 1
      BY <1>2, <2>1, <3>1
    <3> QED
      BY <1>0, <1>a, <1>b, <2>1, <2>2, <3>2
  <2>3. CASE ~ Sleeper
    BY <1>5, <1>b, <2>3 DEF Pool!notify_one, Sleeper
  <2> QED
    BY <2>2, <2>3
<1>6. ASSUME NEW w \in Workers, Pool!Ends(w) PROVE WorkIsSeen'
  <2>1. /\ tasks' = tasks /\ owner' = owner /\ notifying' = notifying
        /\ Awake' = Awake \cup {w} /\ w \notin Awake /\ (Sleeper' => Sleeper)
    BY <1>6 DEF Pool!Ends, Awake, Sleeper
  <2>2. Cardinality(Awake') = Cardinality(Awake) + 1
    BY <1>0, <2>1, OneMore
  <2> QED
    BY <1>0, <1>a, <1>b, <2>1, <2>2
<1>7. ASSUME Pool!OwnerHandsIn PROVE WorkIsSeen'
  <2>1. /\ owner' = owner /\ thread' = thread /\ Owner \notin notifying
        /\ notifying' = notifying \cup {Owner} /\ tasks' = Append(tasks, Given[given + 1])
    BY <1>7 DEF Pool!OwnerHandsIn, Pool!Accepts
  <2>2. Given[given + 1] \in Tasks
    BY <1>7, TasksAssumption DEF Pool!OwnerHandsIn, Tasks
  <2>3. Len(tasks') = Len(tasks) + 1
    BY <2>1, <2>2, QueueFacts
  <2>4. Cardinality(notifying') = Cardinality(notifying) + 1
    BY <1>0, <2>1, OneMore
  <2>5. Awake' = Awake /\ (Sleeper' <=> Sleeper)
    BY <2>1 DEF Awake, Sleeper
  <2> QED
    BY <1>0, <1>a, <1>b, <2>1, <2>3, <2>4, <2>5
<1>8. ASSUME Pool!Stops PROVE WorkIsSeen'
  <2>1. Awake' = Awake /\ (Sleeper' <=> Sleeper)
    BY <1>8 DEF Pool!Stops, Awake, Sleeper
  <2> QED
    BY <1>8, <1>a, <1>b, <2>1 DEF Pool!Stops
<1>9. ASSUME Pool!notify_all PROVE WorkIsSeen'
  BY <1>9, <1>b DEF Pool!notify_all, Sleeper
<1>10. ASSUME Pool!Joins PROVE WorkIsSeen'
  BY <1>10, <1>b DEF Pool!Joins, Sleeper
<1> QED
  BY <1>1, <1>3, <1>4, <1>5, <1>6, <1>7, <1>8, <1>9, <1>10
     DEF Pool!PoolNext, Pool!WorkerStep, Pool!OwnerGoesOn

\* Nothing in the invariant changes while another part is at work.
LEMMA PoolAtRest == PoolInv /\ UNCHANGED pool => PoolInv'
<1> SUFFICES ASSUME PoolInv, UNCHANGED pool PROVE PoolInv'
  OBVIOUS
<1> USE DEF pool
<1>1. PoolTypes'
  BY DEF PoolInv, PoolTypes, HasTask
<1>2. NobodyEarly' /\ WorkIsSeen'
  BY DEF PoolInv, NobodyEarly, WorkIsSeen
<1>3. Kept' /\ OnePlace' /\ Born'
  BY QuietKeeps DEF PoolInv, Quiet, HasTask
<1> QED
  BY <1>1, <1>2, <1>3 DEF PoolInv

\* The invariant of the pool holds throughout.
LEMMA PoolAlways == Spec => []PoolInv
<1>1. Init => PoolInv
  BY PoolStarts DEF Init
<1>2. PoolInv /\ [Next]_vars => PoolInv'
  <2> SUFFICES ASSUME PoolInv, [Next]_vars PROVE PoolInv'
    OBVIOUS
  <2>1. Pool!PoolNext \/ UNCHANGED pool
    BY DEF Next, vars, AddressMoves, BufferMoves, ListMoves, PoolMoves, SessionMoves, SelectorMoves
  <2>2. CASE Pool!PoolNext
    BY <2>2, PoolTyped, NobodyLeavesEarly, TasksKept, WorkStaysSeen DEF PoolInv
  <2> QED
    BY <2>1, <2>2, PoolAtRest
<1> QED
  BY <1>1, <1>2, PTL DEF Spec

\* enqueue and the workers' wait (ThreadPool.h, ThreadPool.cpp): no wakeup is lost,
\* for any number of workers and tasks, whatever wakes up for no reason.
THEOREM PoolWorkIsSeen == Spec => []WorkIsSeen
<1>1. PoolInv => WorkIsSeen
  BY DEF PoolInv
<1> QED
  BY <1>1, PoolAlways, PTL

\* When the destructor of the pool returns, everything that was accepted has run, the
\* tasks that tasks handed in among it, and nothing is left in the queue.
PoolEmptied == owner = "gone" => tasks = <<>> /\ accepted = done

THEOREM PoolRunsAll == Spec => []PoolEmptied
<1>1. PoolInv => PoolEmptied
  <2> SUFFICES ASSUME PoolInv, owner = "gone" PROVE tasks = <<>> /\ accepted = done
    BY DEF PoolEmptied
  <2>1. \A w \in Workers : thread[w] = "gone" /\ ~ HasTask(w)
    BY DEF PoolInv, NobodyEarly, HasTask
  <2>2. tasks = <<>>
    BY <2>1, WorkersAssumption DEF PoolInv, NobodyEarly
  <2>3. \A task : task \in accepted <=> task \in done
    BY <2>1, <2>2 DEF PoolInv, Kept
  <2> QED
    BY <2>2, <2>3
<1> QED
  BY <1>1, PoolAlways, PTL

\* A worker starts no task that has run, or that another worker has in hand.
PoolRunsOnce ==
    [][\A w \in Workers :
          thread'[w] = "runs" /\ thread[w] # "runs" =>
             /\ running'[w] \in accepted \ done
             /\ \A v \in Workers : HasTask(v) => running[v] # running'[w]]_pool

THEOREM PoolEachOnce == Spec => PoolRunsOnce
<1> DEFINE Once == \A w \in Workers :
                      thread'[w] = "runs" /\ thread[w] # "runs" =>
                         /\ running'[w] \in accepted \ done
                         /\ \A v \in Workers : HasTask(v) => running[v] # running'[w]
<1>1. PoolInv /\ [Next]_vars => [Once]_pool
  <2> SUFFICES ASSUME PoolInv, [Next]_vars, pool' # pool PROVE Once
    OBVIOUS
  <2>1. Pool!PoolNext
    BY DEF Next, vars, AddressMoves, BufferMoves, ListMoves, PoolMoves, SessionMoves, SelectorMoves
  <2> SUFFICES ASSUME NEW w \in Workers, thread'[w] = "runs", thread[w] # "runs"
               PROVE  /\ running'[w] \in accepted \ done
                      /\ \A v \in Workers : HasTask(v) => running[v] # running'[w]
    OBVIOUS
  <2>2. Pool!Looks(w) /\ Pool!Takes(w)
    <3>1. thread \in [Workers -> {"awake", "asleep", "runs", "ends", "gone"}]
      BY DEF PoolInv, PoolTypes
    <3>2. ASSUME NEW v \in Workers, Pool!Looks(v) PROVE v = w /\ Pool!Takes(v)
      BY <3>1, <3>2 DEF Pool!Looks, Pool!Sleeps, Pool!Leaves, Pool!Takes
    <3>3. ASSUME NEW v \in Workers, Pool!HandsIn(v) \/ Pool!Ends(v) \/ Pool!Spurious(v)
          PROVE FALSE
      BY <3>1, <3>3 DEF Pool!HandsIn, Pool!Ends, Pool!Spurious
    <3>4. ASSUME NEW by, Pool!notify_one(by) PROVE FALSE
      <4>1. \/ thread' = thread
            \/ \E v \in Workers : thread' = [thread EXCEPT ![v] = "awake"]
        BY <3>4 DEF Pool!notify_one
      <4> QED
        BY <3>1, <4>1
    <3>5. ~ (Pool!OwnerHandsIn \/ Pool!Stops \/ Pool!notify_all \/ Pool!Joins)
      BY <3>1 DEF Pool!OwnerHandsIn, Pool!Stops, Pool!notify_all, Pool!Joins
    <3> QED
      BY <2>1, <3>2, <3>3, <3>4, <3>5 DEF Pool!PoolNext, Pool!WorkerStep, Pool!OwnerGoesOn
  <2>3. running'[w] = tasks[1] /\ 1 \in 1 .. Len(tasks)
    BY <2>2, TakesOne DEF PoolInv
  <2> QED
    BY <2>3 DEF PoolInv, Kept, OnePlace
<1>2. Spec => [][Once]_pool
  BY <1>1, PoolAlways, PTL DEF Spec
<1> QED
  BY <1>2 DEF PoolRunsOnce

(***************************************************************************)
(* An outgoing request.  What is left of the deadline and what has gone by *)
(* add up to a number that each stage bounds.                              *)
(***************************************************************************)
SessionInv ==
    /\ tls \in BOOLEAN /\ age \in Nat
    /\ stage \in {"new", "resolve"} => age = 0
    /\ Session!Underway => left \in Nat
    /\ stage = "connect" => age + left <= 6
    /\ stage = "handshake" => tls /\ age + left <= 6
    /\ stage \in {"write", "read"} => age + left <= IF tls THEN 12 ELSE 7
    /\ stage = "shutdown" => tls /\ age + left <= 18
    /\ Session!InTime

\* The handlers of HTTPClientSession, each with the deadline it sets: 90 seconds at most
\* over TLS, 35 without, from the answer of the resolver on.
LEMMA SessionStep == SessionInv /\ Session!ClientNext => SessionInv'
<1> SUFFICES ASSUME SessionInv, Session!ClientNext PROVE SessionInv'
  OBVIOUS
<1> USE DEF SessionInv, Session!Underway, Session!InTime, Session!Ends, Session!Starts,
            Session!Expires, Session!Unset
<1>1. CASE Session!run
  BY <1>1 DEF Session!run
<1>2. CASE Session!onResolve
  BY <1>2 DEF Session!onResolve
<1>3. CASE Session!onConnect
  BY <1>3 DEF Session!onConnect
<1>4. CASE Session!onHandshake
  BY <1>4 DEF Session!onHandshake
<1>5. CASE Session!onWrite
  BY <1>5 DEF Session!onWrite
<1>6. CASE Session!onRead
  BY <1>6 DEF Session!onRead
<1>7. CASE Session!onShutdown \/ Session!Fails \/ Session!TimesOut
  BY <1>7 DEF Session!onShutdown, Session!Fails, Session!TimesOut
<1>8. CASE Session!Tick
  BY <1>8 DEF Session!Tick
<1> QED
  BY <1>1, <1>2, <1>3, <1>4, <1>5, <1>6, <1>7, <1>8
     DEF Session!ClientNext, Session!ResolverAnswers, Session!PeerAnswers

\* HTTPClientSession: from the answer of the resolver on a plain request takes at most
\* 35 seconds and one over TLS at most 90, however slow the other side is.
THEOREM SessionInTime == Spec => []Session!InTime
<1>1. Init => SessionInv
  BY DEF Init, Session!ClientInit, SessionInv, Session!Underway, Session!InTime
<1>2. SessionInv /\ [Next]_vars => SessionInv'
  <2> SUFFICES ASSUME SessionInv, [Next]_vars PROVE SessionInv'
    OBVIOUS
  <2>1. Session!ClientNext \/ UNCHANGED session
    BY DEF Next, vars, AddressMoves, BufferMoves, ListMoves, PoolMoves, SessionMoves, SelectorMoves
  <2>2. CASE UNCHANGED session
    BY <2>2 DEF session, SessionInv, Session!Underway, Session!InTime
  <2> QED
    BY <2>1, <2>2, SessionStep
<1>3. SessionInv => Session!InTime
  BY DEF SessionInv
<1> QED
  BY <1>1, <1>2, <1>3, PTL DEF Spec
-----------------------------------------------------------------------------
(* The selectors: what IRCSelectorPoolProofs proves of the module holds of its   *)
(* instance in StandAlone.                                                       *)

Shown == INSTANCE IRCSelectorPoolProofs WITH Sessions <- Served, broken <- damaged

\* The two instances erase alike.
LEMMA SameErase == \A q, s : Selector!EraseFound(q, s) = Shown!EraseFound(q, s)
<1> SUFFICES ASSUME NEW q, NEW s
             PROVE  Selector!EraseFound(q, s) = Shown!EraseFound(q, s)
  OBVIOUS
<1>1. Selector!Range(q) = Shown!Range(q)
  BY DEF Selector!Range, Shown!Range
<1>2. Selector!Front(q) = Shown!Front(q)
  BY DEF Selector!Front, Shown!Front
<1>3. Selector!RemoveFirst(q, s) = Shown!RemoveFirst(q, s)
  <2>1. Selector!SelectInSeq(q, LAMBDA x : x = s) = Shown!SelectInSeq(q, LAMBDA x : x = s)
    BY DEF Selector!SelectInSeq, Shown!SelectInSeq, Selector!Min, Shown!Min
  <2> QED
    BY <2>1 DEF Selector!RemoveFirst, Shown!RemoveFirst, Selector!RemoveAt, Shown!RemoveAt
<1> QED
  BY <1>1, <1>2, <1>3 DEF Selector!EraseFound, Shown!EraseFound

\* A step of StandAlone is one of the selectors or leaves them alone.
LEMMA SelectorSteps == Spec => Shown!Init /\ [][Shown!Next]_(Shown!vars)
<1>1. Init => Shown!Init
  BY DEF Init, Selector!Init, Shown!Init, Selector!Selectors, Shown!Selectors,
         Selector!NoRemoval, Shown!NoRemoval
<1>2. [Next]_vars => [Shown!Next]_(Shown!vars)
  <2> SUFFICES ASSUME [Next]_vars
               PROVE  [Shown!Next]_(Shown!vars)
    OBVIOUS
  <2>1. Selector!Next \/ UNCHANGED selectors
    <3>1. CASE SelectorMoves
      BY <3>1 DEF SelectorMoves
    <3>2. CASE ~ SelectorMoves
      BY <3>2 DEF Next, vars, AddressMoves, BufferMoves, ListMoves, PoolMoves, SessionMoves
    <3> QED
      BY <3>1, <3>2
  <2>2. CASE UNCHANGED selectors
    BY <2>2 DEF selectors, Shown!vars
  <2>3. CASE Selector!Next
    <3>1. ~ damaged
      BY <2>3 DEF Selector!Next
    <3>2. Selector!Selectors = Shown!Selectors
      BY DEF Selector!Selectors, Shown!Selectors
    <3>3. ASSUME NEW s \in Served, Selector!AddSession(s)
          PROVE  Shown!AddSession(s)
      BY <3>3 DEF Selector!AddSession, Shown!AddSession, Selector!NoRemoval, Shown!NoRemoval,
                  Selector!NextCursor, Shown!NextCursor, Selector!Marked, Shown!Marked
    <3>4. ASSUME NEW s \in Served, Selector!RemoveSession(s)
          PROVE  Shown!RemoveSession(s)
      BY <3>2, <3>4 DEF Selector!RemoveSession, Shown!RemoveSession, Selector!NoRemoval,
                        Shown!NoRemoval
    <3>5. ASSUME NEW k, Selector!RemoveFrom(k)
          PROVE  Shown!RemoveFrom(k)
      BY <3>5, SameErase DEF Selector!RemoveFrom, Shown!RemoveFrom, Selector!NoRemoval,
                             Shown!NoRemoval, Selector!Marked, Shown!Marked
    <3>6. ASSUME NEW k, Selector!Sync(k)
          PROVE  Shown!Sync(k)
      BY <3>6 DEF Selector!Sync, Shown!Sync
    <3>7. ASSUME Selector!SignalReceived
          PROVE  Shown!SignalReceived
      BY <3>7 DEF Selector!SignalReceived, Shown!SignalReceived
    <3> QED
      BY <2>3, <3>1, <3>2, <3>3, <3>4, <3>5, <3>6, <3>7 DEF Selector!Next, Shown!Next
  <2> QED
    BY <2>1, <2>2, <2>3
<1> QED
  BY <1>1, <1>2, PTL DEF Spec

\* So the inductive invariant of the selectors is one of StandAlone.
LEMMA SelectorInvariant == Spec => []Shown!PoolInv
BY SelectorSteps, Shown!PoolInit, Shown!PoolStep, PTL

\* Whatever clients come and go, a session a client holds is on one selector's
\* list, once, and a removed one on none, as long as no list was damaged by the
\* erase of end() (IRCSelectorPool::addSession and removeSession).
THEOREM SelectorServedOnce == Spec => []ServedOnce
<1>1. Shown!PoolInv => ServedOnce
  <2>1. \A s : Selector!Copies(s, list) = Shown!Copies(s, list)
    BY DEF Selector!Copies, Shown!Copies, Selector!Cardinality, Shown!Cardinality,
           Selector!IsFiniteSet, Shown!IsFiniteSet
  <2> QED
    BY <2>1, Shown!ServedOnceFollows
       DEF ServedOnce, Shown!ServedOnce, Selector!ServedOnce, Selector!Undamaged,
           Shown!Undamaged, Selector!NoRemoval, Shown!NoRemoval
<1> QED
  BY <1>1, SelectorInvariant, PTL

\* Until a session is removed, no selector has two sessions more than another,
\* however many there are of either (getNextSelectorRoundRobin).
THEOREM SelectorSpread == Spec => []Spread
<1>1. Shown!PoolInv => Spread
  <2>1. Selector!Selectors = Shown!Selectors
    BY DEF Selector!Selectors, Shown!Selectors
  <2>2. ASSUME Shown!PoolInv, held \cup fresh = Served,
               NEW j \in Shown!Selectors, NEW k \in Shown!Selectors
        PROVE  Len(list[j]) <= Len(list[k]) + 1
    <3>1. PICK rounds \in Nat :
             \A i \in Shown!Selectors : Len(list[i]) = Shown!Turns(i, rounds)
      BY <2>2 DEF Shown!PoolInv, Shown!Even
    <3>2. \A i \in Shown!Selectors : Shown!Turns(i, rounds) \in {rounds, rounds + 1}
      BY DEF Shown!Turns
    <3> QED
      BY <3>1, <3>2
  <2> QED
    BY <2>1, <2>2 DEF Spread, Selector!Spread
<1> QED
  BY <1>1, SelectorInvariant, PTL
=============================================================================
