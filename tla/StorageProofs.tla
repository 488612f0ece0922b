---------------------------- MODULE StorageProofs ----------------------------
(***************************************************************************)
(* What holds of the way into the tables for any messages, any number of   *)
(* processor threads and any batch size.  All of it rests on one inductive *)
(* invariant: the places where a record can be share nothing (Apart), they *)
(* hold all that came (Accounted) and no sequence holds it twice (Once);   *)
(* so_evt_finish comes last (Leaving); and seen from the mailbox to the    *)
(* table the chat messages are one line, which only Publish extends        *)
(* (FewBehind).  With it, each step is one of the abstract RecordLog or none. *)
(***************************************************************************)
EXTENDS Storage, FiniteSetTheorems, SequenceTheorems, TLAPS

Messages == Chat \cup Log
Own(k) == {m \in Messages : Kind(m) = k}
Demands == {Record(m) : m \in Messages} \cup {Flush(k) : k \in Kinds} \cup {Finish}

Types ==
    /\ received \in 0 .. Len(Arrivals) /\ taken \in 0 .. received
    /\ inHand \subseteq Chat /\ late \subseteq Chat /\ sent \subseteq Messages
    /\ mailbox \in Seq(Demands)
    /\ batch \in [Kinds -> Seq(Messages)]
    /\ \A k \in Kinds : Range(batch[k]) \subseteq Own(k)
    /\ writing \in Seq(Messages)
    /\ \E k \in Kinds : Range(writing) \subseteq Own(k)
    /\ table \in [Kinds -> Seq(Messages)]
    /\ \A k \in Kinds : Range(table[k]) \subseteq Own(k)
    /\ todo \in {<<>>, <<"chat">>, <<"log">>, <<"chat", "log">>}
    /\ dropped \subseteq Messages /\ IsFiniteSet(dropped)
    /\ lost \subseteq Messages /\ IsFiniteSet(lost)

\* The places, as sets of messages
Waiting == {Arrivals[i] : i \in taken + 1 .. received}
Taken == {Arrivals[i] : i \in 1 .. taken}
Mailed == {m \in Messages : Record(m) \in Range(mailbox)}
Batched == Range(batch["chat"]) \cup Range(batch["log"])
Stored == Rows("chat") \cup Rows("log")

Apart ==
    /\ inHand \cap late = {}
    /\ sent \cap (inHand \cup late) = {}
    /\ Mailed \cap (Batched \cup Range(writing) \cup Stored \cup dropped \cup lost) = {}
    /\ Batched \cap (Range(writing) \cup Stored \cup dropped \cup lost) = {}
    /\ Range(writing) \cap (Stored \cup dropped \cup lost) = {}
    /\ Stored \cap (dropped \cup lost) = {}
    /\ dropped \cap lost = {}

Accounted ==
    /\ Taken = inHand \cup late \cup (sent \cap Chat)
    /\ sent = Mailed \cup Batched \cup Range(writing) \cup Stored \cup dropped \cup lost

Once ==
    /\ IsInjective(mailbox) /\ IsInjective(writing)
    /\ \A k \in Kinds : IsInjective(batch[k]) /\ IsInjective(table[k])

Leaving ==
    /\ \A i \in DOMAIN mailbox : mailbox[i] = Finish => i = Len(mailbox)
    /\ status \in {"finishing", "finished"} => mailbox = <<>>
    /\ status = "finishing" =>
          /\ todo \in {<<"chat", "log">>, <<"log">>, <<>>}
          /\ todo # <<"chat", "log">> => batch["chat"] = <<>>
          /\ todo = <<>> => batch["log"] = <<>>
    /\ status = "finished" => writing = <<>> /\ \A k \in Kinds : batch[k] = <<>>

\* a comes after m in a sequence, and in the line of the chat messages.
Follows(q, a, m) == \E i, j \in DOMAIN q : i < j /\ q[i] = m /\ q[j] = a

After(a, m) ==
    LET written == Range(writing)
        batched == Range(batch["chat"])
    IN \/ Follows(table["chat"], a, m)
       \/ m \in Rows("chat") /\ a \in written \cup batched \cup Mailed
       \/ Follows(writing, a, m)
       \/ m \in written /\ a \in batched \cup Mailed
       \/ Follows(batch["chat"], a, m)
       \/ m \in batched /\ a \in Mailed
       \/ Follows(mailbox, Record(a), Record(m))

InLine == Chat \cap (Rows("chat") \cup Range(writing) \cup Range(batch["chat"]) \cup Mailed)

\* The earlier messages that come after m, or still may
Behind(m) == {a \in Chat : Earlier(a, m) /\ (a \in inHand \/ After(a, m))}

FewBehind ==
    /\ Cardinality(inHand) <= Threads
    /\ \A m \in InLine : Cardinality(Behind(m)) < Threads

StorageInv ==
    Types /\ Apart /\ Accounted /\ Once /\ Leaving /\ FewBehind /\ DropsPaid
-----------------------------------------------------------------------------
(* Sequences. *)

\* A member put behind a queue: who follows whom.
LEMMA Appended ==
    ASSUME NEW S, NEW q \in Seq(S), NEW x \in S
    PROVE  /\ Append(q, x) \in Seq(S)
           /\ Range(Append(q, x)) = Range(q) \cup {x}
           /\ \A a, m : Follows(Append(q, x), a, m) =>
                           Follows(q, a, m) \/ (a = x /\ m \in Range(q))
           /\ IsInjective(q) /\ x \notin Range(q) => IsInjective(Append(q, x))
<1> DEFINE r == Append(q, x)
<1>1. /\ r \in Seq(S) /\ DOMAIN q = 1 .. Len(q) /\ DOMAIN r = 1 .. Len(q) + 1
      /\ Len(q) \in Nat
      /\ \A i \in 1 .. Len(q) : r[i] = q[i]
      /\ r[Len(q) + 1] = x
  BY AppendProperties, LenProperties
<1> HIDE DEF r
<1>2. Range(r) = Range(q) \cup {x}
  BY <1>1 DEF Range
<1>3. ASSUME NEW a, NEW m, Follows(r, a, m)
      PROVE  Follows(q, a, m) \/ (a = x /\ m \in Range(q))
  <2>1. PICK i, j \in DOMAIN r : i < j /\ r[i] = m /\ r[j] = a
    BY <1>3 DEF Follows
  <2>2. i \in DOMAIN q /\ q[i] = m
    BY <1>1, <2>1
  <2>3. (j \in DOMAIN q /\ q[j] = a) \/ a = x
    BY <1>1, <2>1
  <2> QED
    BY <2>1, <2>2, <2>3 DEF Follows, Range
<1>4. ASSUME IsInjective(q), x \notin Range(q)
      PROVE  IsInjective(r)
  BY <1>1, <1>4 DEF IsInjective, Range
<1> QED
  BY <1>1, <1>2, <1>3, <1>4 DEF r

\* What is left of a queue whose head was taken.
LEMMA Taking ==
    ASSUME NEW S, NEW q \in Seq(S), q # <<>>
    PROVE  /\ Tail(q) \in Seq(S) /\ Head(q) \in S
           /\ Range(q) = Range(Tail(q)) \cup {Head(q)}
           /\ \A a, m : Follows(Tail(q), a, m) => Follows(q, a, m)
           /\ \A a \in Range(Tail(q)) : Follows(q, a, Head(q))
           /\ IsInjective(q) => IsInjective(Tail(q)) /\ Head(q) \notin Range(Tail(q))
<1> DEFINE r == Tail(q)
<1>1. /\ r \in Seq(S) /\ Head(q) \in S /\ Len(q) \in Nat \ {0}
      /\ DOMAIN q = 1 .. Len(q) /\ DOMAIN r = 1 .. Len(q) - 1
      /\ \A i \in 1 .. Len(q) - 1 : r[i] = q[i + 1]
      /\ Head(q) = q[1]
  BY HeadTailProperties, LenProperties, EmptySeq
<1> HIDE DEF r
<1>2. Range(q) = Range(r) \cup {Head(q)}
  <2>1. ASSUME NEW i \in DOMAIN q
        PROVE  q[i] \in Range(r) \cup {Head(q)}
    <3>1. i = 1 \/ (i - 1 \in DOMAIN r /\ r[i - 1] = q[i])
      BY <1>1
    <3> QED
      BY <1>1, <3>1 DEF Range
  <2>2. ASSUME NEW i \in DOMAIN r
        PROVE  r[i] \in Range(q)
    <3>1. i + 1 \in DOMAIN q /\ r[i] = q[i + 1]
      BY <1>1
    <3> QED
      BY <3>1 DEF Range
  <2>3. Head(q) \in Range(q)
    BY <1>1 DEF Range
  <2> QED
    BY <2>1, <2>2, <2>3 DEF Range
<1>3. ASSUME NEW a, NEW m, Follows(r, a, m)
      PROVE  Follows(q, a, m)
  <2>1. PICK i, j \in DOMAIN r : i < j /\ r[i] = m /\ r[j] = a
    BY <1>3 DEF Follows
  <2>2. /\ i + 1 \in DOMAIN q /\ j + 1 \in DOMAIN q /\ i + 1 < j + 1
        /\ q[i + 1] = m /\ q[j + 1] = a
    BY <1>1, <2>1
  <2> QED
    BY <2>2 DEF Follows
<1>4. ASSUME NEW a \in Range(r)
      PROVE  Follows(q, a, Head(q))
  <2>1. PICK j \in DOMAIN r : r[j] = a
    BY DEF Range
  <2>2. 1 \in DOMAIN q /\ j + 1 \in DOMAIN q /\ 1 < j + 1 /\ q[j + 1] = a
    BY <1>1, <2>1
  <2> QED
    BY <1>1, <2>2 DEF Follows
<1>5. ASSUME IsInjective(q)
      PROVE  IsInjective(r) /\ Head(q) \notin Range(r)
  <2>1. \A i, j \in DOMAIN q : q[i] = q[j] => i = j
    BY <1>5 DEF IsInjective
  <2>2. ASSUME NEW i \in DOMAIN r, NEW j \in DOMAIN r, r[i] = r[j]
        PROVE  i = j
    <3>1. /\ i \in Nat /\ j \in Nat /\ i + 1 \in DOMAIN q /\ j + 1 \in DOMAIN q
          /\ r[i] = q[i + 1] /\ r[j] = q[j + 1]
      BY <1>1
    <3>2. i + 1 = j + 1
      BY <2>1, <2>2, <3>1
    <3> QED
      BY <3>1, <3>2
  <2>3. ASSUME NEW i \in DOMAIN r
        PROVE  r[i] # Head(q)
    <3>1. /\ i + 1 \in DOMAIN q /\ 1 \in DOMAIN q /\ i + 1 # 1
          /\ r[i] = q[i + 1] /\ Head(q) = q[1]
      BY <1>1
    <3> QED
      BY <2>1, <3>1
  <2> QED
    BY <2>2, <2>3 DEF IsInjective, Range
<1> QED
  BY <1>1, <1>2, <1>3, <1>4, <1>5 DEF r

\* One queue behind another.
LEMMA Joined ==
    ASSUME NEW S, NEW p \in Seq(S), NEW q \in Seq(S)
    PROVE  /\ p \o q \in Seq(S) /\ Len(p \o q) = Len(p) + Len(q)
           /\ Range(p \o q) = Range(p) \cup Range(q)
           /\ \A a, m : Follows(p \o q, a, m) =>
                           \/ Follows(p, a, m) \/ Follows(q, a, m)
                           \/ m \in Range(p) /\ a \in Range(q)
           /\ IsInjective(p) /\ IsInjective(q) /\ Range(p) \cap Range(q) = {}
                 => IsInjective(p \o q)
<1> DEFINE r == p \o q
<1>1. /\ r \in Seq(S) /\ Len(p) \in Nat /\ Len(q) \in Nat /\ Len(r) = Len(p) + Len(q)
      /\ DOMAIN p = 1 .. Len(p) /\ DOMAIN q = 1 .. Len(q)
      /\ DOMAIN r = 1 .. Len(p) + Len(q)
      /\ \A i \in 1 .. Len(p) : r[i] = p[i]
      /\ \A i \in Len(p) + 1 .. Len(p) + Len(q) : r[i] = q[i - Len(p)]
  BY ConcatProperties, LenProperties
<1> HIDE DEF r
<1>2. ASSUME NEW i \in DOMAIN r
      PROVE  \/ i \in DOMAIN p /\ r[i] = p[i]
             \/ i - Len(p) \in DOMAIN q /\ r[i] = q[i - Len(p)] /\ i > Len(p)
  BY <1>1
<1>3. Range(r) = Range(p) \cup Range(q)
  <2>1. ASSUME NEW i \in DOMAIN p
        PROVE  p[i] \in Range(r)
    <3>1. i \in DOMAIN r /\ r[i] = p[i]
      BY <1>1
    <3> QED
      BY <3>1 DEF Range
  <2>2. ASSUME NEW i \in DOMAIN q
        PROVE  q[i] \in Range(r)
    <3>1. Len(p) + i \in DOMAIN r /\ r[Len(p) + i] = q[i]
      BY <1>1
    <3> QED
      BY <3>1 DEF Range
  <2> QED
    BY <1>2, <2>1, <2>2 DEF Range
<1>4. ASSUME NEW a, NEW m, Follows(r, a, m)
      PROVE  \/ Follows(p, a, m) \/ Follows(q, a, m)
             \/ m \in Range(p) /\ a \in Range(q)
  <2>1. PICK i, j \in DOMAIN r : i < j /\ r[i] = m /\ r[j] = a
    BY <1>4 DEF Follows
  <2>2. CASE i > Len(p)
    <3>1. i - Len(p) \in DOMAIN q /\ q[i - Len(p)] = m
      BY <1>1, <2>1, <2>2
    <3>2. j - Len(p) \in DOMAIN q /\ q[j - Len(p)] = a /\ i - Len(p) < j - Len(p)
      BY <1>1, <2>1, <2>2
    <3> QED
      BY <3>1, <3>2 DEF Follows
  <2>3. CASE ~ (i > Len(p))
    <3>1. i \in DOMAIN p /\ p[i] = m
      BY <1>1, <2>1, <2>3
    <3>2. \/ j \in DOMAIN p /\ p[j] = a
          \/ j - Len(p) \in DOMAIN q /\ q[j - Len(p)] = a
      BY <1>2, <2>1
    <3> QED
      BY <2>1, <3>1, <3>2 DEF Follows, Range
  <2> QED
    BY <2>2, <2>3
<1>5. ASSUME IsInjective(p), IsInjective(q), Range(p) \cap Range(q) = {}
      PROVE  IsInjective(r)
  <2>1. /\ \A i, j \in DOMAIN p : p[i] = p[j] => i = j
        /\ \A i, j \in DOMAIN q : q[i] = q[j] => i = j
    BY <1>5 DEF IsInjective
  <2>2. \A i \in DOMAIN p, j \in DOMAIN q : p[i] # q[j]
    BY <1>5 DEF Range
  <2>3. ASSUME NEW i \in DOMAIN r, NEW j \in DOMAIN r, r[i] = r[j]
        PROVE  i = j
    <3>1. /\ Len(p) \in Nat /\ i \in Nat /\ j \in Nat
          /\ \/ i \in DOMAIN p /\ r[i] = p[i]
             \/ i - Len(p) \in DOMAIN q /\ r[i] = q[i - Len(p)]
          /\ \/ j \in DOMAIN p /\ r[j] = p[j]
             \/ j - Len(p) \in DOMAIN q /\ r[j] = q[j - Len(p)]
      BY <1>1, <1>2
    <3>2. i - Len(p) = j - Len(p) => i = j
      BY <3>1
    <3> QED
      BY <2>1, <2>2, <2>3, <3>1, <3>2
  <2> QED
    BY <2>3 DEF IsInjective
<1> QED
  BY <1>1, <1>3, <1>4, <1>5 DEF r

\* The empty queue.
LEMMA Empty == /\ Range(<<>>) = {} /\ IsInjective(<<>>)
               /\ \A a, m : ~ Follows(<<>>, a, m)
BY DEF Range, IsInjective, Follows

\* A queue without repetition has as many members as places.
LEMMA Counted ==
    ASSUME NEW S, NEW q \in Seq(S)
    PROVE  /\ IsFiniteSet(Range(q))
           /\ IsInjective(q) => Cardinality(Range(q)) = Len(q)
<1>1. Len(q) \in Nat /\ DOMAIN q = 1 .. Len(q)
  BY LenProperties
<1>2. IsFiniteSet(1 .. Len(q)) /\ Cardinality(1 .. Len(q)) = Len(q)
  BY <1>1, FS_Interval
<1>3. q \in Surjection(1 .. Len(q), Range(q))
  BY <1>1, LenProperties DEF Surjection, Range
<1>4. IsInjective(q) => q \in Injection(1 .. Len(q), Range(q))
  BY <1>1, <1>3 DEF Injection, IsInjective, Surjection
<1> QED
  BY <1>2, <1>3, <1>4, FS_Surjection
-----------------------------------------------------------------------------
(* Messages and demands. *)

\* Chat messages are finitely many, for they arrive in a finite sequence.
LEMMA ChatFacts ==
    /\ Chat \cap Log = {} /\ IsFiniteSet(Chat)
    /\ Len(Arrivals) \in Nat /\ DOMAIN Arrivals = 1 .. Len(Arrivals)
    /\ \A i \in 1 .. Len(Arrivals) : Arrivals[i] \in Chat
    /\ \A i, j \in 1 .. Len(Arrivals) : Arrivals[i] = Arrivals[j] => i = j
    /\ Threads \in Nat \ {0} /\ BatchSize \in Nat
<1>1. /\ Arrivals \in Seq(Chat) /\ Chat = Range(Arrivals)
      /\ \A i, j \in DOMAIN Arrivals : Arrivals[i] = Arrivals[j] => i = j
  BY StorageAssumption DEF IsInjective, Chat
<1>2. Len(Arrivals) \in Nat /\ DOMAIN Arrivals = 1 .. Len(Arrivals)
  BY <1>1, LenProperties
<1>3. IsFiniteSet(Chat)
  BY <1>1, Counted
<1> QED
  BY <1>1, <1>2, <1>3, StorageAssumption DEF Range

\* The two kinds of record, and that each record is of one.
LEMMA KindFacts ==
    /\ Kinds = {"chat", "log"}
    /\ Own("chat") = Chat /\ Own("log") = Log
    /\ \A m \in Messages : Kind(m) \in Kinds /\ m \in Own(Kind(m))
    /\ \A k \in Kinds : \A m \in Own(k) : m \in Messages /\ Kind(m) = k
BY ChatFacts DEF Kinds, Own, Kind, Messages

\* The demands of the mailbox are told apart.
LEMMA DemandFacts ==
    /\ \A m, n : Record(m) = Record(n) => m = n
    /\ \A m : Record(m) # Finish /\ \A k : Record(m) # Flush(k)
    /\ \A k : Flush(k) # Finish
    /\ \A m \in Messages : Record(m) \in Demands
    /\ \A k \in Kinds : Flush(k) \in Demands
    /\ Finish \in Demands
<1>1. \A m : Record(m).is = "record" /\ Record(m).of = m
  BY DEF Record
<1>2. \A k : Flush(k).is = "flush"
  BY DEF Flush
<1>3. Finish.is = "finish"
  BY DEF Finish
<1> QED
  BY <1>1, <1>2, <1>3 DEF Demands

\* A demand comes into the mailbox that is not in it.
LEMMA MailSent ==
    ASSUME Types, Once, NEW x \in Demands, x \notin Range(mailbox),
           Finish \notin Range(mailbox), mailbox' = Append(mailbox, x)
    PROVE  /\ mailbox' \in Seq(Demands) /\ IsInjective(mailbox')
           /\ Mailed' = Mailed \cup {m \in Messages : Record(m) = x}
           /\ \A a : \A m \in Messages :
                 Follows(mailbox', Record(a), Record(m)) =>
                    \/ Follows(mailbox, Record(a), Record(m))
                    \/ Record(a) = x /\ m \in Mailed
           /\ \A i \in DOMAIN mailbox' : mailbox'[i] = Finish => i = Len(mailbox')
<1>1. mailbox \in Seq(Demands) /\ IsInjective(mailbox)
  BY DEF Types, Once
<1>2. /\ mailbox' \in Seq(Demands) /\ IsInjective(mailbox')
      /\ Range(mailbox') = Range(mailbox) \cup {x}
      /\ \A a, m : Follows(mailbox', a, m) =>
                      Follows(mailbox, a, m) \/ (a = x /\ m \in Range(mailbox))
  BY <1>1, Appended
<1>3. Mailed' = Mailed \cup {m \in Messages : Record(m) = x}
  BY <1>2 DEF Mailed
<1>4. ASSUME NEW i \in DOMAIN mailbox', mailbox'[i] = Finish
      PROVE  i = Len(mailbox')
  <2>1. /\ Len(mailbox) \in Nat /\ DOMAIN mailbox = 1 .. Len(mailbox)
        /\ DOMAIN mailbox' = 1 .. Len(mailbox) + 1 /\ Len(mailbox') = Len(mailbox) + 1
        /\ \A j \in 1 .. Len(mailbox) : mailbox'[j] = mailbox[j]
    BY <1>1, <1>2, AppendProperties, LenProperties
  <2>2. \A j \in 1 .. Len(mailbox) : mailbox[j] # Finish
    BY <2>1 DEF Range
  <2> QED
    BY <1>4, <2>1, <2>2
<1> QED
  BY <1>2, <1>3, <1>4 DEF Mailed

\* The demand at the head of the mailbox is taken.
LEMMA MailTaken ==
    ASSUME Types, Once, NEW x, Take(x)
    PROVE  /\ x \in Demands /\ x \in Range(mailbox)
           /\ mailbox' \in Seq(Demands) /\ IsInjective(mailbox')
           /\ Range(mailbox') = Range(mailbox) \ {x}
           /\ Mailed' = Mailed \ {m \in Messages : Record(m) = x}
           /\ \A a, m : Follows(mailbox', a, m) => Follows(mailbox, a, m)
           /\ \A a \in Mailed' : Follows(mailbox, Record(a), x)
<1>1. /\ mailbox \in Seq(Demands) /\ IsInjective(mailbox)
      /\ mailbox # <<>> /\ Head(mailbox) = x /\ mailbox' = Tail(mailbox)
  BY DEF Types, Once, Take
<1>2. /\ x \in Demands /\ mailbox' \in Seq(Demands) /\ IsInjective(mailbox')
      /\ Range(mailbox) = Range(mailbox') \cup {x} /\ x \notin Range(mailbox')
      /\ \A a, m : Follows(mailbox', a, m) => Follows(mailbox, a, m)
      /\ \A a \in Range(mailbox') : Follows(mailbox, a, x)
  BY <1>1, Taking
<1>3. Mailed' = Mailed \ {m \in Messages : Record(m) = x}
  BY <1>2 DEF Mailed
<1>4. \A a \in Mailed' : Record(a) \in Range(mailbox')
  BY DEF Mailed
<1> QED
  BY <1>2, <1>3, <1>4

\* What is in line stays in line, and nothing more gets behind it.
LEMMA NoneFurther ==
    ASSUME Types, FewBehind, inHand' \subseteq inHand,
           \A m \in InLine' :
              /\ m \in InLine
              /\ \A a \in Chat : Earlier(a, m) /\ (a \in inHand' \/ After(a, m)')
                                    => a \in inHand \/ After(a, m)
    PROVE  FewBehind'
<1>1. IsFiniteSet(inHand)
  BY ChatFacts, FS_Subset DEF Types
<1>2. Cardinality(inHand) \in Nat /\ Cardinality(inHand') \in Nat
      /\ Cardinality(inHand') <= Cardinality(inHand)
  BY <1>1, FS_Subset, FS_CardinalityType
<1>3. Cardinality(inHand') <= Threads
  BY <1>2, ChatFacts DEF FewBehind
<1>4. ASSUME NEW m \in InLine'
      PROVE  Cardinality(Behind(m)') < Threads
  <2>1. Behind(m)' \subseteq Behind(m)
    BY DEF Behind
  <2>2. IsFiniteSet(Behind(m))
    BY ChatFacts, FS_Subset DEF Behind
  <2>3. /\ Cardinality(Behind(m)) \in Nat /\ Cardinality(Behind(m)') \in Nat
        /\ Cardinality(Behind(m)') <= Cardinality(Behind(m))
    BY <2>1, <2>2, FS_Subset, FS_CardinalityType
  <2>4. Cardinality(Behind(m)) < Threads
    BY DEF FewBehind
  <2> QED
    BY <2>3, <2>4, ChatFacts
<1> QED
  BY <1>3, <1>4 DEF FewBehind
-----------------------------------------------------------------------------
(* The senders. *)

\* A step that touches neither batches nor tables keeps what depends on them.
LEMMA SameHandling ==
    ASSUME Types, DropsPaid, UNCHANGED <<batch, writing, table, dropped, lost>>
    PROVE  Stored' = Stored /\ Batched' = Batched /\ DropsPaid'
BY DEF Stored, Batched, Rows, DropsPaid

\* A session hands a message to the processor.
LEMMA ReceiveKeeps == StorageInv /\ Receive => StorageInv'
<1> SUFFICES ASSUME StorageInv, Receive
             PROVE  StorageInv'
  OBVIOUS
<1> USE DEF StorageInv
<1>1. /\ received < Len(Arrivals) /\ received' = received + 1
      /\ UNCHANGED <<taken, inHand, late, mailbox, sent, batch, writing, todo, dropped, table,
                     lost, status>>
  BY DEF Receive, handling
<1>2. Types'
  <2>1. received' \in 0 .. Len(Arrivals) /\ taken' \in 0 .. received'
    BY <1>1, ChatFacts DEF Types
  <2> QED
    BY <1>1, <2>1 DEF Types
<1>3. Mailed' = Mailed /\ Taken' = Taken /\ Stored' = Stored /\ Batched' = Batched
  BY <1>1, SameHandling DEF Mailed, Taken
<1>4. Apart' /\ Accounted' /\ Once' /\ Leaving'
  BY <1>1, <1>3 DEF Apart, Accounted, Once, Leaving
<1>5. FewBehind'
  BY <1>1, <1>3, NoneFurther DEF InLine, After, Rows
<1> QED
  BY <1>1, <1>2, <1>4, <1>5, SameHandling

\* A thread of the processor takes the oldest message.
LEMMA TakeOldestKeeps == StorageInv /\ TakeOldest => StorageInv'
<1> SUFFICES ASSUME StorageInv, TakeOldest
             PROVE  StorageInv'
  OBVIOUS
<1> USE DEF StorageInv
<1> DEFINE new == Arrivals[taken + 1]
<1>1. /\ taken < received /\ Cardinality(inHand) < Threads
      /\ taken' = taken + 1 /\ inHand' = inHand \cup {new}
      /\ UNCHANGED <<received, late, mailbox, sent, batch, writing, todo, dropped, table,
                     lost, status>>
  BY DEF TakeOldest, handling
<1>2. /\ taken + 1 \in 1 .. Len(Arrivals) /\ taken \in Nat /\ taken' \in 0 .. received'
      /\ new \in Chat
  BY <1>1, ChatFacts DEF Types
<1>3. Types'
  BY <1>1, <1>2 DEF Types
<1>4. \A i \in 1 .. taken : Arrivals[i] # new
  BY <1>2, ChatFacts
<1>5. Taken' = Taken \cup {new} /\ new \notin Taken
  BY <1>1, <1>2, <1>4 DEF Taken
<1>6. Mailed' = Mailed /\ Stored' = Stored /\ Batched' = Batched
  BY <1>1, SameHandling DEF Mailed
<1>7. Apart' /\ Accounted'
  BY <1>1, <1>2, <1>5, <1>6 DEF Apart, Accounted
<1>8. Once' /\ Leaving'
  BY <1>1 DEF Once, Leaving
<1>9. FewBehind'
  <2>1. Cardinality(inHand') <= Threads
    <3>1. IsFiniteSet(inHand)
      BY ChatFacts, FS_Subset DEF Types
    <3>2. /\ Cardinality(inHand) \in Nat
          /\ Cardinality(inHand') \in {Cardinality(inHand), Cardinality(inHand) + 1}
      BY <1>1, <3>1, FS_AddElement, FS_CardinalityType
    <3> QED
      BY <1>1, <3>2, ChatFacts
  <2>2. ASSUME NEW m \in InLine'
        PROVE  m \in InLine /\ Behind(m)' = Behind(m)
    <3>1. m \in InLine
      BY <1>1, <1>6 DEF InLine, Rows
    <3>2. m \in Taken
      BY <3>1 DEF InLine, Accounted, Batched, Stored
    <3>3. PICK i \in 1 .. taken : m = Arrivals[i]
      BY <3>2 DEF Taken
    <3>4. ~ Earlier(new, m)
      <4>1. SUFFICES ASSUME NEW p \in 1 .. Len(Arrivals), NEW q \in 1 .. Len(Arrivals),
                            p < q, Arrivals[p] = new, Arrivals[q] = m
                     PROVE  FALSE
        BY ChatFacts DEF Earlier
      <4>2. i \in 1 .. Len(Arrivals) /\ i <= taken
        BY <1>2
      <4>3. p = taken + 1 /\ q = i
        BY <1>2, <3>3, <4>1, <4>2, ChatFacts
      <4> QED
        BY <1>2, <4>1, <4>2, <4>3
    <3>5. \A a : After(a, m)' <=> After(a, m)
      BY <1>1, <1>6 DEF After, Rows
    <3> QED
      BY <1>1, <3>1, <3>4, <3>5 DEF Behind
  <2> QED
    BY <2>1, <2>2 DEF FewBehind
<1> HIDE DEF new
<1> QED
  BY <1>1, <1>3, <1>7, <1>8, <1>9, SameHandling

\* Whatever is sent to the agent only adds to the mailbox.
LEMMA SendingKeeps ==
    ASSUME StorageInv, NEW x \in Demands, x \notin Range(mailbox), Open,
           mailbox' = Append(mailbox, x),
           UNCHANGED <<taken, batch, writing, todo, table, dropped, lost, status>>
    PROVE  /\ mailbox' \in Seq(Demands) /\ Once' /\ Leaving' /\ DropsPaid'
           /\ Stored' = Stored /\ Batched' = Batched /\ Taken' = Taken
           /\ Mailed' = Mailed \cup {m \in Messages : Record(m) = x}
           /\ \A a, m \in Chat :
                 After(a, m)' => \/ After(a, m)
                                 \/ Record(a) = x
<1> USE DEF StorageInv
<1>1. Finish \notin Range(mailbox) /\ status = "running"
  BY DEF Open
<1>2. /\ mailbox' \in Seq(Demands) /\ IsInjective(mailbox')
      /\ Mailed' = Mailed \cup {m \in Messages : Record(m) = x}
      /\ \A a : \A m \in Messages :
            Follows(mailbox', Record(a), Record(m)) =>
               \/ Follows(mailbox, Record(a), Record(m))
               \/ Record(a) = x /\ m \in Mailed
      /\ \A i \in DOMAIN mailbox' : mailbox'[i] = Finish => i = Len(mailbox')
  BY <1>1, MailSent
<1>3. Once' /\ Leaving'
  BY <1>1, <1>2 DEF Once, Leaving
<1>4. ASSUME NEW a \in Chat, NEW m \in Chat, After(a, m)', Record(a) # x
      PROVE  After(a, m)
  <2>1. m \in Messages /\ (a \in Mailed' => a \in Mailed)
    BY <1>2, <1>4 DEF Messages
  <2>2. Follows(mailbox', Record(a), Record(m)) => Follows(mailbox, Record(a), Record(m))
    BY <1>2, <1>4, <2>1
  <2> QED
    BY <1>4, <2>1, <2>2 DEF After, Rows
<1> QED
  BY <1>2, <1>3, <1>4, SameHandling DEF Taken

\* A thread publishes what it made of its message.
LEMMA PublishKeeps ==
    ASSUME StorageInv, NEW m \in Chat, Publish(m)
    PROVE  StorageInv'
<1> USE DEF StorageInv
<1>1. /\ m \in inHand /\ inHand' = inHand \ {m}
      /\ UNCHANGED <<received, taken, batch, writing, todo, dropped, table, lost, status>>
  BY DEF Publish, handling
<1>2. m \notin sent /\ m \notin late /\ m \in Taken
  BY <1>1 DEF Apart, Accounted
<1>3. CASE ~ Open
  <2>1. late' = late \cup {m} /\ UNCHANGED <<mailbox, sent>>
    BY <1>3 DEF Publish
  <2>2. Types'
    BY <1>1, <2>1 DEF Types
  <2>3. Mailed' = Mailed /\ Taken' = Taken /\ Stored' = Stored /\ Batched' = Batched
    BY <1>1, <2>1, SameHandling DEF Mailed, Taken
  <2>4. Apart' /\ Accounted'
    BY <1>1, <1>2, <2>1, <2>3 DEF Apart, Accounted
  <2>5. Once' /\ Leaving'
    BY <1>1, <2>1 DEF Once, Leaving
  <2>6. FewBehind'
    BY <1>1, <2>1, <2>3, NoneFurther DEF InLine, After, Rows
  <2> QED
    BY <1>1, <2>2, <2>4, <2>5, <2>6, SameHandling
<1>4. CASE Open
  <2>1. /\ mailbox' = Append(mailbox, Record(m)) /\ sent' = sent \cup {m}
        /\ UNCHANGED late
    BY <1>4 DEF Publish
  <2>2. m \in Messages /\ Record(m) \in Demands
    BY DemandFacts DEF Messages
  <2>3. Record(m) \notin Range(mailbox)
    BY <1>2, <2>2 DEF Accounted, Mailed
  <2>4. /\ mailbox' \in Seq(Demands) /\ Once' /\ Leaving' /\ DropsPaid'
        /\ Stored' = Stored /\ Batched' = Batched /\ Taken' = Taken
        /\ Mailed' = Mailed \cup {n \in Messages : Record(n) = Record(m)}
        /\ \A a, n \in Chat : After(a, n)' => After(a, n) \/ Record(a) = Record(m)
    BY <1>1, <1>4, <2>1, <2>2, <2>3, SendingKeeps
  <2>5. /\ Mailed' = Mailed \cup {m}
        /\ \A a, n \in Chat : After(a, n)' => After(a, n) \/ a = m
    BY <2>2, <2>4, DemandFacts
  <2>6. Types'
    BY <1>1, <2>1, <2>2, <2>4 DEF Types
  <2>7. Apart' /\ Accounted'
    BY <1>1, <1>2, <2>1, <2>4, <2>5 DEF Apart, Accounted
  <2>8. IsFiniteSet(inHand)
    BY ChatFacts, FS_Subset DEF Types
  <2>9. /\ Cardinality(inHand') <= Threads
        /\ \A S : S \subseteq inHand' => Cardinality(S) < Threads
    <3>1. /\ IsFiniteSet(inHand') /\ Cardinality(inHand) \in Nat
          /\ Cardinality(inHand') = Cardinality(inHand) - 1
      BY <1>1, <2>8, FS_RemoveElement, FS_CardinalityType
    <3>2. ASSUME NEW S, S \subseteq inHand'
          PROVE  Cardinality(S) \in Nat /\ Cardinality(S) <= Cardinality(inHand')
      BY <3>1, <3>2, FS_Subset, FS_CardinalityType
    <3> QED
      BY <3>1, <3>2, ChatFacts DEF FewBehind
  <2>10. \A a : ~ After(a, m)
    <3>1. m \notin Range(table["chat"]) /\ m \notin Range(writing)
          /\ m \notin Range(batch["chat"]) /\ Record(m) \notin Range(mailbox)
      BY <1>2, <2>3 DEF Accounted, Stored, Batched, Rows
    <3> QED
      BY <3>1 DEF After, Follows, Range, Rows
  <2>11. ASSUME NEW n \in InLine'
         PROVE  Cardinality(Behind(n)') < Threads
    <3>1. CASE n = m
      <4>1. Behind(m)' \subseteq inHand'
        <5>1. ASSUME NEW a \in Chat, Earlier(a, m), After(a, m)'
              PROVE  FALSE
          <6>1. a = m
            BY <2>5, <2>10, <5>1
          <6> QED
            BY <5>1, <6>1, ChatFacts DEF Earlier
        <5> QED
          BY <5>1 DEF Behind
      <4> QED
        BY <2>9, <3>1, <4>1
    <3>2. CASE n # m
      <4>1. n \in InLine
        BY <1>1, <2>5, <3>2 DEF InLine, Rows
      <4>2. Behind(n)' \subseteq Behind(n)
        BY <1>1, <2>5, <4>1 DEF Behind, InLine
      <4>3. /\ Cardinality(Behind(n)) \in Nat /\ Cardinality(Behind(n)') \in Nat
            /\ Cardinality(Behind(n)') <= Cardinality(Behind(n))
        <5>1. IsFiniteSet(Behind(n))
          BY ChatFacts, FS_Subset DEF Behind
        <5> QED
          BY <4>2, <5>1, FS_Subset, FS_CardinalityType
      <4> QED
        BY <4>1, <4>3, ChatFacts DEF FewBehind
    <3> QED
      BY <3>1, <3>2
  <2>12. FewBehind'
    BY <2>9, <2>11 DEF FewBehind
  <2> QED
    BY <2>4, <2>6, <2>7, <2>12
<1> QED
  BY <1>3, <1>4

\* A bot sends a record of its log.
LEMMA SendLogKeeps ==
    ASSUME StorageInv, NEW m \in Log, SendLog(m)
    PROVE  StorageInv'
<1> USE DEF StorageInv
<1>1. /\ Open /\ m \notin sent
      /\ mailbox' = Append(mailbox, Record(m)) /\ sent' = sent \cup {m}
      /\ UNCHANGED <<received, taken, inHand, late, batch, writing, todo, dropped, table, lost,
                     status>>
  BY DEF SendLog, handling, processor
<1>2. m \in Messages /\ Record(m) \in Demands /\ m \notin Chat
  BY DemandFacts, ChatFacts DEF Messages
<1>3. Record(m) \notin Range(mailbox)
  BY <1>1, <1>2 DEF Accounted, Mailed
<1>4. /\ mailbox' \in Seq(Demands) /\ Once' /\ Leaving' /\ DropsPaid'
      /\ Stored' = Stored /\ Batched' = Batched /\ Taken' = Taken
      /\ Mailed' = Mailed \cup {n \in Messages : Record(n) = Record(m)}
      /\ \A a, n \in Chat : After(a, n)' => After(a, n) \/ Record(a) = Record(m)
  BY <1>1, <1>2, <1>3, SendingKeeps
<1>5. /\ Mailed' = Mailed \cup {m}
      /\ \A a, n \in Chat : After(a, n)' => After(a, n)
  BY <1>2, <1>4, DemandFacts
<1>6. Types'
  BY <1>1, <1>2, <1>4 DEF Types
<1>7. Apart' /\ Accounted'
  BY <1>1, <1>2, <1>4, <1>5 DEF Apart, Accounted, Types
<1>8. FewBehind'
  BY <1>1, <1>2, <1>5, NoneFurther DEF InLine, Rows
<1> QED
  BY <1>4, <1>6, <1>7, <1>8

\* A timer fires, or the coop is deregistered.
LEMMA SignalKeeps ==
    ASSUME StorageInv, NEW x \in Demands, x \notin Range(mailbox), Open,
           \A m : Record(m) # x,
           mailbox' = Append(mailbox, x),
           UNCHANGED <<processor, sent, handling, table, lost, status>>
    PROVE  StorageInv'
<1> USE DEF StorageInv
<1>1. UNCHANGED <<received, taken, inHand, late, sent, batch, writing, todo, dropped, table,
                  lost, status>>
  BY DEF handling, processor
<1>2. /\ mailbox' \in Seq(Demands) /\ Once' /\ Leaving' /\ DropsPaid'
      /\ Stored' = Stored /\ Batched' = Batched /\ Taken' = Taken /\ Mailed' = Mailed
      /\ \A a, n \in Chat : After(a, n)' => After(a, n)
  BY <1>1, SendingKeeps
<1>3. Types'
  BY <1>1, <1>2 DEF Types
<1>4. Apart' /\ Accounted'
  BY <1>1, <1>2 DEF Apart, Accounted
<1>5. FewBehind'
  BY <1>1, <1>2, NoneFurther DEF InLine, Rows
<1> QED
  BY <1>2, <1>3, <1>4, <1>5
-----------------------------------------------------------------------------
(* The handlers. *)

\* so_evt_finish is the last demand of the mailbox.
LEMMA FinishLast ==
    ASSUME Types, Leaving, NEW x, Take(x)
    PROVE  /\ \A i \in DOMAIN mailbox' : mailbox'[i] = Finish => i = Len(mailbox')
           /\ x = Finish => mailbox' = <<>>
<1>1. /\ mailbox \in Seq(Demands) /\ mailbox # <<>>
      /\ Head(mailbox) = x /\ mailbox' = Tail(mailbox)
  BY DEF Types, Take
<1>2. /\ mailbox' \in Seq(Demands) /\ Len(mailbox) \in Nat \ {0}
      /\ DOMAIN mailbox = 1 .. Len(mailbox)
      /\ Len(mailbox') = Len(mailbox) - 1 /\ DOMAIN mailbox' = 1 .. Len(mailbox')
      /\ \A i \in 1 .. Len(mailbox') : mailbox'[i] = mailbox[i + 1]
      /\ mailbox[1] = x
  BY <1>1, HeadTailProperties, LenProperties, EmptySeq
<1>3. \A i \in DOMAIN mailbox : mailbox[i] = Finish => i = Len(mailbox)
  BY DEF Leaving
<1>4. ASSUME NEW i \in DOMAIN mailbox', mailbox'[i] = Finish
      PROVE  i = Len(mailbox')
  <2>1. i + 1 \in DOMAIN mailbox /\ mailbox[i + 1] = Finish
    BY <1>2, <1>4
  <2> QED
    BY <1>2, <1>3, <2>1
<1>5. ASSUME x = Finish
      PROVE  mailbox' = <<>>
  <2>1. Len(mailbox) = 1
    BY <1>2, <1>3, <1>5
  <2>2. Len(mailbox') = 0
    BY <1>2, <2>1
  <2> QED
    BY <1>2, <2>2, EmptySeq
<1> QED
  BY <1>4, <1>5

\* A signal, or the Finish, is taken: no record moves.
LEMMA SignalTaken ==
    ASSUME StorageInv, NEW x, Take(x), \A m : Record(m) # x,
           UNCHANGED <<processor, sent, batch, writing, dropped, table, lost>>
    PROVE  /\ mailbox' \in Seq(Demands)
           /\ Apart' /\ Accounted' /\ Once' /\ FewBehind' /\ DropsPaid'
<1> USE DEF StorageInv
<1>1. /\ mailbox' \in Seq(Demands) /\ IsInjective(mailbox') /\ Mailed' = Mailed
      /\ \A a, m : Follows(mailbox', a, m) => Follows(mailbox, a, m)
  BY MailTaken
<1>2. /\ UNCHANGED <<received, taken, inHand, late>>
      /\ Taken' = Taken /\ Stored' = Stored /\ Batched' = Batched
  BY SameHandling DEF processor, Taken
<1>3. Apart' /\ Accounted'
  BY <1>1, <1>2 DEF Apart, Accounted
<1>4. Once'
  BY <1>1 DEF Once
<1>5. FewBehind'
  <2>1. \A a, m : After(a, m)' => After(a, m)
    BY <1>1 DEF After, Rows
  <2> QED
    BY <1>1, <1>2, <2>1, NoneFurther DEF InLine, Rows
<1> QED
  BY <1>1, <1>3, <1>4, <1>5, SameHandling

\* A flush timer empties its batch.
LEMMA FlushKindKeeps ==
    ASSUME StorageInv, NEW k \in Kinds, FlushKind(k)
    PROVE  StorageInv'
<1> USE DEF StorageInv
<1>1. /\ Take(Flush(k)) /\ todo' = <<k>>
      /\ UNCHANGED <<processor, sent, batch, writing, dropped, table, lost, status>>
  BY DEF FlushKind, OwnBatch
<1>2. /\ mailbox' \in Seq(Demands)
      /\ Apart' /\ Accounted' /\ Once' /\ FewBehind' /\ DropsPaid'
  BY <1>1, SignalTaken, DemandFacts
<1>3. todo' \in {<<"chat">>, <<"log">>}
  BY <1>1 DEF Kinds
<1>4. Types'
  BY <1>1, <1>2, <1>3 DEF Types, processor
<1>5. status' = "running"
  BY <1>1 DEF Take, Idle
<1>6. Leaving'
  BY <1>1, <1>5, FinishLast DEF Leaving
<1> QED
  BY <1>2, <1>4, <1>6

\* so_evt_finish begins with the batches.
LEMMA EvtFinishKeeps == StorageInv /\ EvtFinish => StorageInv'
<1> SUFFICES ASSUME StorageInv, EvtFinish
             PROVE  StorageInv'
  OBVIOUS
<1> USE DEF StorageInv
<1>1. /\ Take(Finish) /\ todo' = <<"chat", "log">> /\ status' = "finishing"
      /\ UNCHANGED <<processor, sent, batch, writing, dropped, table, lost>>
  BY DEF EvtFinish, FlushOrder
<1>2. /\ mailbox' \in Seq(Demands)
      /\ Apart' /\ Accounted' /\ Once' /\ FewBehind' /\ DropsPaid'
  BY <1>1, SignalTaken, DemandFacts
<1>3. Types'
  BY <1>1, <1>2 DEF Types, processor
<1>4. mailbox' = <<>> /\ \A i \in DOMAIN mailbox' : mailbox'[i] = Finish => i = Len(mailbox')
  BY <1>1, FinishLast
<1>5. Leaving'
  BY <1>1, <1>4 DEF Leaving
<1> QED
  BY <1>2, <1>3, <1>5

\* Only the status changes.
LEMMA StatusKeeps ==
    ASSUME StorageInv, Leaving',
           UNCHANGED <<processor, mailbox, sent, handling, table, lost>>
    PROVE  StorageInv'
<1> USE DEF StorageInv
<1>1. /\ UNCHANGED <<received, taken, inHand, late, batch, writing, todo, dropped>>
      /\ Taken' = Taken /\ Mailed' = Mailed /\ Stored' = Stored /\ Batched' = Batched
  BY SameHandling DEF processor, handling, Taken, Mailed
<1>2. Types'
  BY <1>1 DEF Types
<1>3. Apart' /\ Accounted' /\ Once'
  BY <1>1 DEF Apart, Accounted, Once
<1>4. FewBehind'
  BY <1>1, NoneFurther DEF InLine, After, Rows
<1> QED
  BY <1>1, <1>2, <1>3, <1>4, SameHandling

\* so_evt_finish ends when both batches are written.
LEMMA EndFinishKeeps == StorageInv /\ EndFinish => StorageInv'
<1> SUFFICES ASSUME StorageInv, EndFinish
             PROVE  StorageInv'
  OBVIOUS
<1>1. /\ status = "finishing" /\ writing = <<>> /\ todo = <<>> /\ status' = "finished"
      /\ UNCHANGED <<processor, mailbox, sent, handling, table, lost>>
  BY DEF EndFinish
<1>2. Leaving'
  BY <1>1 DEF StorageInv, Leaving, handling, Kinds
<1> QED
  BY <1>1, <1>2, StatusKeeps

\* An insert without a connection ends the program.
LEMMA InsertAbortsKeeps == StorageInv /\ InsertAborts => StorageInv'
<1> SUFFICES ASSUME StorageInv, InsertAborts
             PROVE  StorageInv'
  OBVIOUS
<1>1. /\ status' = "aborted"
      /\ UNCHANGED <<processor, mailbox, sent, handling, table, lost>>
  BY DEF InsertAborts
<1>2. Leaving'
  BY <1>1 DEF StorageInv, Leaving
<1> QED
  BY <1>1, <1>2, StatusKeeps
OfKind(S, k) == {m \in S : Kind(m) = k}

\* How many records of a set are of one kind.
LEMMA KindCount ==
    ASSUME NEW k \in Kinds, NEW S, IsFiniteSet(S)
    PROVE  IsFiniteSet(OfKind(S, k)) /\ Cardinality(OfKind(S, k)) \in Nat
<1>1. OfKind(S, k) \subseteq S
  BY DEF OfKind
<1> QED
  BY <1>1, FS_Subset, FS_CardinalityType

\* DropsPaid, with its numbers in sight
Paid(k) ==
    Cardinality(OfKind(dropped, k)) * BatchSize
       <= Len(table[k]) + Cardinality(OfKind(lost, k)) + Cardinality(OfKind(Range(writing), k))

\* DropsPaid, kind by kind.
LEMMA PaidFacts ==
    /\ DropsPaid <=> \A k \in Kinds : Paid(k)
    /\ Types => \A k \in Kinds :
                   /\ Len(table[k]) \in Nat
                   /\ Cardinality(OfKind(dropped, k)) \in Nat
                   /\ Cardinality(OfKind(lost, k)) \in Nat
                   /\ Cardinality(OfKind(Range(writing), k)) \in Nat
<1>1. DropsPaid <=> \A k \in Kinds : Paid(k)
  BY DEF DropsPaid, Paid, OfKind
<1>2. ASSUME Types, NEW k \in Kinds
      PROVE  /\ Len(table[k]) \in Nat
             /\ Cardinality(OfKind(dropped, k)) \in Nat
             /\ Cardinality(OfKind(lost, k)) \in Nat
             /\ Cardinality(OfKind(Range(writing), k)) \in Nat
  <2>1. IsFiniteSet(Range(writing)) /\ IsFiniteSet(dropped) /\ IsFiniteSet(lost)
    BY <1>2, Counted DEF Types
  <2>2. table[k] \in Seq(Messages)
    BY <1>2 DEF Types
  <2> QED
    BY <2>1, <2>2, KindCount, LenProperties
<1> QED
  BY <1>1, <1>2

\* Of a sequence of one kind, all or nothing is of a kind.
LEMMA AllOrNothing ==
    ASSUME NEW k \in Kinds, NEW q \in Seq(Messages), IsInjective(q),
           NEW j \in Kinds, Range(q) \subseteq Own(j)
    PROVE  Cardinality(OfKind(Range(q), k)) = IF k = j THEN Len(q) ELSE 0
<1>1. OfKind(Range(q), k) = IF k = j THEN Range(q) ELSE {}
  BY KindFacts DEF OfKind
<1> QED
  BY <1>1, Counted, FS_EmptySet

\* The record at the head of the mailbox goes to the end of its batch.
LEMMA KeepKeeps ==
    ASSUME StorageInv, NEW m \in Messages, Take(Record(m)), Keep(m),
           UNCHANGED <<processor, sent, table, lost, status>>
    PROVE  StorageInv'
<1> USE DEF StorageInv
<1> DEFINE k == Kind(m)
<1>1. /\ batch' = [batch EXCEPT ![k] = Append(batch[k], m)]
      /\ UNCHANGED <<received, taken, inHand, late, writing, todo, dropped>>
      /\ status = "running" /\ k \in Kinds /\ m \in Own(k)
  BY KindFacts DEF Keep, Take, Idle, processor
<1> HIDE DEF k
<1>2. /\ mailbox' \in Seq(Demands) /\ IsInjective(mailbox')
      /\ Mailed' = Mailed \ {n \in Messages : Record(n) = Record(m)}
      /\ m \in Mailed
      /\ \A a, n : Follows(mailbox', a, n) => Follows(mailbox, a, n)
      /\ \A a \in Mailed' : Follows(mailbox, Record(a), Record(m))
  BY MailTaken DEF Mailed
<1>3. Mailed' = Mailed \ {m}
  BY <1>2, DemandFacts
<1>4. /\ batch[k] \in Seq(Messages) /\ IsInjective(batch[k]) /\ m \notin Range(batch[k])
  BY <1>1, <1>2 DEF Types, Once, Apart, Batched, Kinds
<1>5. /\ batch'[k] \in Seq(Messages) /\ IsInjective(batch'[k])
      /\ Range(batch'[k]) = Range(batch[k]) \cup {m}
      /\ \A a, n : Follows(batch'[k], a, n) =>
                      Follows(batch[k], a, n) \/ (a = m /\ n \in Range(batch[k]))
      /\ \A j \in Kinds : j # k => batch'[j] = batch[j]
      /\ batch' \in [Kinds -> Seq(Messages)]
  BY <1>1, <1>4, Appended DEF Types
<1>6. Batched' = Batched \cup {m} /\ Stored' = Stored /\ Taken' = Taken
  BY <1>1, <1>5 DEF Batched, Kinds, Stored, Rows, Taken
<1>7. Types'
  <2>1. \A j \in Kinds : Range(batch'[j]) \subseteq Own(j)
    BY <1>1, <1>5 DEF Types
  <2> QED
    BY <1>1, <1>2, <1>5, <2>1 DEF Types
<1>8. Apart' /\ Accounted'
  BY <1>1, <1>2, <1>3, <1>6 DEF Apart, Accounted
<1>9. Once'
  BY <1>1, <1>2, <1>5 DEF Once
<1>10. Leaving'
  BY <1>1, FinishLast DEF Leaving
<1>11. DropsPaid'
  BY <1>1 DEF DropsPaid
<1>12. FewBehind'
  <2>1. \/ k = "chat" /\ m \in Chat
        \/ k = "log" /\ m \notin Chat
    BY <1>1, KindFacts, ChatFacts
  <2>2. ASSUME NEW n \in InLine'
        PROVE  n \in InLine
    BY <1>1, <1>2, <1>3, <1>5, <2>1, <2>2 DEF InLine, Rows, Kinds
  <2>3. ASSUME NEW a \in Chat, NEW n \in Chat, After(a, n)'
        PROVE  After(a, n)
    <3>1. Range(batch'["chat"]) \subseteq Range(batch["chat"]) \cup (Chat \cap {m})
      BY <1>5, <2>1 DEF Kinds
    <3>2. Follows(batch'["chat"], a, n) =>
             Follows(batch["chat"], a, n) \/ (a = m /\ n \in Range(batch["chat"]))
      BY <1>5, <2>1 DEF Kinds
    <3>3. n = m /\ a \in Mailed' => Follows(mailbox, Record(a), Record(n))
      BY <1>2
    <3>4. Follows(mailbox', Record(a), Record(n)) => Follows(mailbox, Record(a), Record(n))
      BY <1>2
    <3> QED
      BY <1>1, <1>2, <1>3, <2>3, <3>1, <3>2, <3>3, <3>4 DEF After, Rows
  <2> QED
    BY <1>1, <2>2, <2>3, NoneFurther DEF InLine
<1> QED
  BY <1>7, <1>8, <1>9, <1>10, <1>11, <1>12

\* A batch is swapped out, while the mailbox at most loses something.
LEMMA SwappedOut ==
    ASSUME Types, Once, NEW k \in Kinds, writing = <<>>,
           writing' = batch[k], batch' = [batch EXCEPT ![k] = <<>>], UNCHANGED table,
           Mailed' \subseteq Mailed,
           \A a, m : Follows(mailbox', a, m) => Follows(mailbox, a, m)
    PROVE  /\ writing' \in Seq(Messages) /\ IsInjective(writing')
           /\ Range(writing') \subseteq Own(k)
           /\ batch' \in [Kinds -> Seq(Messages)]
           /\ \A j \in Kinds : /\ batch'[j] = IF j = k THEN <<>> ELSE batch[j]
                               /\ Range(batch'[j]) \subseteq Own(j)
                               /\ IsInjective(batch'[j])
           /\ Batched' = Batched \ Range(writing') /\ Range(writing') \subseteq Batched
           /\ Range(writing) = {} /\ Stored' = Stored
           /\ InLine' \subseteq InLine
           /\ \A a, m \in Chat : After(a, m)' => After(a, m)
<1>1. /\ writing' \in Seq(Messages) /\ IsInjective(writing')
      /\ Range(writing') \subseteq Own(k)
      /\ Range(writing') = Range(batch[k])
  BY DEF Types, Once
<1>2. /\ batch' \in [Kinds -> Seq(Messages)]
      /\ \A j \in Kinds : batch'[j] = IF j = k THEN <<>> ELSE batch[j]
  <2>1. <<>> \in Seq(Messages)
    BY EmptySeq
  <2> QED
    BY <2>1 DEF Types
<1>3. \A j \in Kinds : Range(batch'[j]) \subseteq Own(j) /\ IsInjective(batch'[j])
  BY <1>2, Empty DEF Types, Once
<1>4. /\ k = "chat" \/ k = "log"
      /\ Range(batch["chat"]) \subseteq Chat /\ Range(batch["log"]) \subseteq Log
  BY KindFacts DEF Types, Kinds
<1>5. Batched' = Batched \ Range(writing') /\ Range(writing') \subseteq Batched
  BY <1>1, <1>2, <1>4, Empty, ChatFacts DEF Batched, Kinds
<1>6. Range(writing) = {} /\ Stored' = Stored
  BY Empty DEF Stored, Rows
<1>7. InLine' \subseteq InLine
  BY <1>1, <1>2, <1>4, <1>6, Empty, ChatFacts DEF InLine, Rows, Kinds
<1>8. ASSUME NEW a \in Chat, NEW m \in Chat, After(a, m)'
      PROVE  After(a, m)
  <2>1. /\ ~ Follows(writing, a, m)
        /\ Follows(mailbox', Record(a), Record(m)) => Follows(mailbox, Record(a), Record(m))
        /\ a \in Mailed' => a \in Mailed
    BY Empty
  <2>2. CASE k = "chat"
    <3>1. /\ writing' = batch["chat"] /\ batch'["chat"] = <<>>
          /\ Range(batch'["chat"]) = {} /\ ~ Follows(batch'["chat"], a, m)
      BY <1>2, <2>2, Empty DEF Kinds
    <3> QED
      BY <1>8, <2>1, <3>1 DEF After, Rows
  <2>3. CASE k = "log"
    <3>1. batch'["chat"] = batch["chat"]
      BY <1>2, <2>3 DEF Kinds
    <3>2. a \notin Range(writing') /\ m \notin Range(writing')
      BY <1>1, <1>4, <2>3, ChatFacts
    <3>3. ~ Follows(writing', a, m)
      BY <3>2 DEF Follows, Range
    <3> QED
      BY <1>8, <2>1, <3>1, <3>2, <3>3 DEF After, Rows
  <2> QED
    BY <1>4, <2>2, <2>3
<1> QED
  BY <1>1, <1>2, <1>3, <1>5, <1>6, <1>7, <1>8

\* A record that meets a full batch, which is written.
LEMMA WriteFullKeeps ==
    ASSUME StorageInv, NEW m \in Messages, Take(Record(m)), WriteFull(m),
           UNCHANGED <<processor, sent, table, lost, status>>
    PROVE  StorageInv'
<1> USE DEF StorageInv
<1> DEFINE k == Kind(m)
<1>1. /\ Len(batch[k]) >= BatchSize
      /\ writing' = batch[k] /\ batch' = [batch EXCEPT ![k] = <<>>]
      /\ dropped' = dropped \cup {m}
      /\ UNCHANGED <<received, taken, inHand, late, todo>>
      /\ writing = <<>> /\ status = "running" /\ k \in Kinds /\ m \in Own(k)
  BY KindFacts DEF WriteFull, Take, Idle, processor
<1> HIDE DEF k
<1>2. /\ mailbox' \in Seq(Demands) /\ IsInjective(mailbox')
      /\ Mailed' = Mailed \ {n \in Messages : Record(n) = Record(m)}
      /\ m \in Mailed
      /\ \A a, n : Follows(mailbox', a, n) => Follows(mailbox, a, n)
  BY MailTaken DEF Mailed
<1>3. Mailed' = Mailed \ {m}
  BY <1>2, DemandFacts
<1>4. /\ writing' \in Seq(Messages) /\ IsInjective(writing')
      /\ Range(writing') \subseteq Own(k)
      /\ batch' \in [Kinds -> Seq(Messages)]
      /\ \A j \in Kinds : /\ batch'[j] = IF j = k THEN <<>> ELSE batch[j]
                          /\ Range(batch'[j]) \subseteq Own(j)
                          /\ IsInjective(batch'[j])
      /\ Batched' = Batched \ Range(writing') /\ Range(writing') \subseteq Batched
      /\ Range(writing) = {} /\ Stored' = Stored
      /\ InLine' \subseteq InLine
      /\ \A a, n \in Chat : After(a, n)' => After(a, n)
  BY <1>1, <1>2, <1>3, SwappedOut
<1>5. IsFiniteSet(dropped') /\ dropped' \subseteq Messages
  BY <1>1, FS_AddElement DEF Types
<1>6. Types'
  BY <1>1, <1>2, <1>4, <1>5 DEF Types
<1>7. Taken' = Taken
  BY <1>1 DEF Taken
<1>8. Apart'
  BY <1>1, <1>2, <1>3, <1>4 DEF Apart
<1>9. Accounted'
  BY <1>1, <1>2, <1>3, <1>4, <1>7 DEF Accounted
<1>10. Once'
  BY <1>2, <1>4 DEF Once
<1>11. Leaving'
  BY <1>1, FinishLast DEF Leaving
<1>12. FewBehind'
  BY <1>1, <1>4, NoneFurther DEF InLine
<1>13. DropsPaid'
  <2>1. SUFFICES ASSUME NEW j \in Kinds
                 PROVE  Paid(j)'
    BY DEF DropsPaid, Paid, OfKind
  <2>2. Paid(j)
    BY PaidFacts
  <2>3. Cardinality(OfKind(Range(writing), j)) = 0
    <3>1. OfKind(Range(writing), j) = {}
      BY <1>4 DEF OfKind
    <3> QED
      BY <3>1, FS_EmptySet
  <2>4. Cardinality(OfKind(Range(writing'), j)) = IF j = k THEN Len(batch[k]) ELSE 0
    BY <1>1, <1>4, AllOrNothing
  <2>5. /\ m \notin OfKind(dropped, j)
        /\ OfKind(dropped', j) = OfKind(dropped, j) \cup (IF j = k THEN {m} ELSE {})
    BY <1>1, <1>2, KindFacts DEF OfKind, Apart
  <2>6. IsFiniteSet(OfKind(dropped, j))
    BY KindCount DEF Types
  <2>7. Cardinality(OfKind(dropped', j)) =
           IF j = k THEN Cardinality(OfKind(dropped, j)) + 1
           ELSE Cardinality(OfKind(dropped, j))
    BY <2>5, <2>6, FS_AddElement
  <2>8. CASE j = k
    <3> DEFINE d == Cardinality(OfKind(dropped, j))
    <3>1. d \in Nat /\ Cardinality(OfKind(dropped', j)) = d + 1
      BY <2>7, <2>8, PaidFacts
    <3> HIDE DEF d
    <3>2. (d + 1) * BatchSize = d * BatchSize + BatchSize
      BY <3>1, ChatFacts
    <3>3. d * BatchSize \in Nat
      BY <3>1, ChatFacts
    <3>4. d * BatchSize <= Len(table[j]) + Cardinality(OfKind(lost, j))
      BY <2>2, <2>3, PaidFacts DEF Paid, d
    <3>5. Len(batch[k]) \in Nat /\ Cardinality(OfKind(Range(writing'), j)) = Len(batch[k])
      BY <1>4, <1>1, <2>4, <2>8, LenProperties
    <3>6. /\ Len(table[j]) \in Nat /\ Cardinality(OfKind(lost, j)) \in Nat
          /\ Len(batch[k]) >= BatchSize /\ BatchSize \in Nat
      BY <1>1, PaidFacts, ChatFacts
    <3>7. d * BatchSize + BatchSize
             <= Len(table[j]) + Cardinality(OfKind(lost, j)) + Len(batch[k])
      BY <3>3, <3>4, <3>5, <3>6
    <3>8. (d + 1) * BatchSize
             <= Len(table[j]) + Cardinality(OfKind(lost, j)) + Len(batch[k])
      BY <3>2, <3>7
    <3> QED
      BY <3>1, <3>5, <3>8 DEF Paid
  <2>9. CASE j # k
    BY <1>1, <2>2, <2>3, <2>4, <2>7, <2>9 DEF Paid
  <2> QED
    BY <2>8, <2>9
<1> QED
  BY <1>6, <1>8, <1>9, <1>10, <1>11, <1>12, <1>13

\* A full batch is taken over to be written.
LEMMA SwapKeeps == StorageInv /\ Swap => StorageInv'
<1> SUFFICES ASSUME StorageInv, Swap
             PROVE  StorageInv'
  OBVIOUS
<1> USE DEF StorageInv
<1> DEFINE k == Head(todo)
<1>1. /\ writing = <<>> /\ todo # <<>>
      /\ writing' = batch[k] /\ batch' = [batch EXCEPT ![k] = <<>>]
      /\ todo' = Tail(todo)
      /\ UNCHANGED <<received, taken, inHand, late, mailbox, sent, dropped, table, lost,
                     status>>
  BY DEF Swap, processor
<1>2. \/ todo = <<"chat">> /\ k = "chat" /\ todo' = <<>>
      \/ todo = <<"log">> /\ k = "log" /\ todo' = <<>>
      \/ todo = <<"chat", "log">> /\ k = "chat" /\ todo' = <<"log">>
  <2>1. Head(<<"chat">>) = "chat" /\ Tail(<<"chat">>) = <<>>
    OBVIOUS
  <2>2. Head(<<"log">>) = "log" /\ Tail(<<"log">>) = <<>>
    OBVIOUS
  <2>3. Head(<<"chat", "log">>) = "chat" /\ Tail(<<"chat", "log">>) = <<"log">>
    OBVIOUS
  <2>4. todo \in {<<"chat">>, <<"log">>, <<"chat", "log">>}
    BY <1>1 DEF Types
  <2> QED
    BY <1>1, <2>1, <2>2, <2>3, <2>4
<1>3. k \in Kinds
  BY <1>2 DEF Kinds
<1> HIDE DEF k
<1>4. /\ writing' \in Seq(Messages) /\ IsInjective(writing')
      /\ Range(writing') \subseteq Own(k)
      /\ batch' \in [Kinds -> Seq(Messages)]
      /\ \A j \in Kinds : /\ batch'[j] = IF j = k THEN <<>> ELSE batch[j]
                          /\ Range(batch'[j]) \subseteq Own(j)
                          /\ IsInjective(batch'[j])
      /\ Batched' = Batched \ Range(writing') /\ Range(writing') \subseteq Batched
      /\ Range(writing) = {} /\ Stored' = Stored
      /\ InLine' \subseteq InLine
      /\ \A a, n \in Chat : After(a, n)' => After(a, n)
  BY <1>1, <1>3, SwappedOut DEF Mailed
<1>5. Mailed' = Mailed /\ Taken' = Taken
  BY <1>1 DEF Mailed, Taken
<1>6. Types'
  <2>1. todo' \in {<<>>, <<"log">>}
    BY <1>2
  <2> QED
    BY <1>1, <1>3, <1>4, <2>1 DEF Types
<1>7. Apart'
  BY <1>1, <1>4, <1>5 DEF Apart
<1>8. Accounted'
  BY <1>1, <1>4, <1>5 DEF Accounted
<1>9. Once'
  BY <1>1, <1>4 DEF Once
<1>10. Leaving'
  <2>1. ASSUME status = "finishing"
        PROVE  /\ todo' \in {<<"log">>, <<>>}
               /\ batch'["chat"] = <<>>
               /\ todo' = <<>> => batch'["log"] = <<>>
    <3>1. <<"log">> # <<"chat", "log">> /\ <<"log">> # <<>>
      OBVIOUS
    <3>2. /\ todo \in {<<"chat", "log">>, <<"log">>}
          /\ todo = <<"log">> => batch["chat"] = <<>>
      BY <1>1, <2>1, <3>1 DEF Leaving
    <3>3. \/ k = "chat" /\ todo' = <<"log">>
          \/ todo = <<"log">> /\ k = "log" /\ todo' = <<>>
      BY <1>2, <3>2
    <3>4. /\ k = "chat" => batch'["chat"] = <<>>
          /\ k = "log" => batch'["log"] = <<>> /\ batch'["chat"] = batch["chat"]
      BY <1>4 DEF Kinds
    <3> QED
      BY <3>1, <3>2, <3>3, <3>4
  <2>2. status # "finished"
    BY <1>1 DEF Swap
  <2>3. <<"log">> # <<"chat", "log">> /\ <<>> # <<"chat", "log">>
    OBVIOUS
  <2> QED
    BY <1>1, <2>1, <2>2, <2>3 DEF Leaving
<1>11. FewBehind'
  BY <1>1, <1>4, NoneFurther DEF InLine
<1>12. DropsPaid'
  <2>1. SUFFICES ASSUME NEW j \in Kinds
                 PROVE  Paid(j)'
    BY DEF DropsPaid, Paid, OfKind
  <2>2. Paid(j) /\ Cardinality(OfKind(Range(writing), j)) = 0
    <3>1. OfKind(Range(writing), j) = {}
      BY <1>4 DEF OfKind
    <3> QED
      BY <3>1, FS_EmptySet, PaidFacts
  <2>3. Cardinality(OfKind(Range(writing'), j)) \in Nat
    BY <1>6, PaidFacts, KindCount, Counted DEF Types
  <2>4. Cardinality(OfKind(dropped, j)) * BatchSize \in Nat
    BY PaidFacts, ChatFacts
  <2> QED
    BY <1>1, <2>2, <2>3, <2>4, PaidFacts DEF Paid
<1> QED
  BY <1>6, <1>7, <1>8, <1>9, <1>10, <1>11, <1>12
\* What is being written is of one kind.
LEMMA OneKind ==
    ASSUME Types, writing # <<>>
    PROVE  /\ Head(writing) \in Messages /\ Kind(Head(writing)) \in Kinds
           /\ Range(writing) \subseteq Own(Kind(Head(writing)))
<1>1. writing \in Seq(Messages)
  BY DEF Types
<1>2. Head(writing) \in Range(writing) /\ Head(writing) \in Messages
  BY <1>1, Taking
<1>3. PICK k \in Kinds : Range(writing) \subseteq Own(k)
  BY DEF Types
<1>4. Kind(Head(writing)) = k
  BY <1>2, <1>3, KindFacts
<1> QED
  BY <1>2, <1>3, <1>4

\* The rows of a batch reach their table.
LEMMA InsertKeeps == StorageInv /\ Insert => StorageInv'
<1> SUFFICES ASSUME StorageInv, Insert
             PROVE  StorageInv'
  OBVIOUS
<1> USE DEF StorageInv
<1> DEFINE k == Kind(Head(writing))
<1>1. /\ writing # <<>> /\ writing' = <<>>
      /\ table' = [table EXCEPT ![k] = table[k] \o writing]
      /\ UNCHANGED <<received, taken, inHand, late, mailbox, sent, batch, todo, dropped, lost,
                     status>>
  BY DEF Insert, Processing, processor
<1>2. /\ k \in Kinds /\ Range(writing) \subseteq Own(k)
      /\ writing \in Seq(Messages) /\ IsInjective(writing)
      /\ table[k] \in Seq(Messages) /\ IsInjective(table[k])
      /\ Range(table[k]) \cap Range(writing) = {}
  <2>1. k \in Kinds /\ Range(writing) \subseteq Own(k)
    BY <1>1, OneKind
  <2> QED
    BY <2>1 DEF Types, Once, Apart, Stored, Rows, Kinds
<1> HIDE DEF k
<1>3. /\ table'[k] \in Seq(Messages) /\ Len(table'[k]) = Len(table[k]) + Len(writing)
      /\ Range(table'[k]) = Range(table[k]) \cup Range(writing)
      /\ IsInjective(table'[k])
      /\ \A a, m : Follows(table'[k], a, m) =>
                      \/ Follows(table[k], a, m) \/ Follows(writing, a, m)
                      \/ m \in Range(table[k]) /\ a \in Range(writing)
      /\ \A j \in Kinds : j # k => table'[j] = table[j]
      /\ table' \in [Kinds -> Seq(Messages)]
  <2>1. table'[k] = table[k] \o writing
    BY <1>1, <1>2 DEF Types
  <2> QED
    BY <1>1, <1>2, <2>1, Joined DEF Types
<1>4. /\ Range(writing') = {} /\ writing' \in Seq(Messages) /\ IsInjective(writing')
      /\ \A a, m : ~ Follows(writing', a, m)
  BY <1>1, Empty, EmptySeq
<1>5. /\ Stored' = Stored \cup Range(writing)
      /\ Mailed' = Mailed /\ Taken' = Taken /\ Batched' = Batched
  BY <1>1, <1>2, <1>3 DEF Stored, Rows, Kinds, Mailed, Taken, Batched
<1>6. Types'
  <2>1. \A j \in Kinds : Range(table'[j]) \subseteq Own(j)
    BY <1>2, <1>3 DEF Types
  <2> QED
    BY <1>1, <1>2, <1>3, <1>4, <2>1 DEF Types
<1>7. Apart' /\ Accounted'
  BY <1>1, <1>4, <1>5 DEF Apart, Accounted
<1>8. Once'
  BY <1>1, <1>3, <1>4 DEF Once
<1>9. Leaving'
  BY <1>1 DEF Leaving
<1>10. FewBehind'
  <2>1. \/ k = "chat"
        \/ k = "log" /\ \A m \in Chat : m \notin Range(writing)
    <3>1. k = "log" => Range(writing) \subseteq Log
      BY <1>2, KindFacts
    <3> QED
      BY <1>2, <3>1, ChatFacts DEF Kinds
  <2>2. /\ Rows("chat")' \subseteq Rows("chat") \cup Range(writing)
        /\ \A a, m \in Chat : Follows(table'["chat"], a, m) =>
              \/ Follows(table["chat"], a, m) \/ Follows(writing, a, m)
              \/ m \in Rows("chat") /\ a \in Range(writing)
    BY <1>3, <2>1 DEF Rows, Kinds
  <2>3. InLine' \subseteq InLine
    BY <1>1, <1>4, <1>5, <2>2 DEF InLine
  <2>4. ASSUME NEW a \in Chat, NEW m \in Chat, After(a, m)'
        PROVE  After(a, m)
    BY <1>1, <1>4, <1>5, <2>2, <2>4 DEF After
  <2> QED
    BY <1>1, <2>3, <2>4, NoneFurther DEF InLine
<1>11. DropsPaid'
  <2>1. SUFFICES ASSUME NEW j \in Kinds
                 PROVE  Paid(j)'
    BY DEF DropsPaid, Paid, OfKind
  <2>2. Paid(j)
    BY PaidFacts
  <2>3. Cardinality(OfKind(Range(writing), j)) = IF j = k THEN Len(writing) ELSE 0
    BY <1>2, AllOrNothing
  <2>4. Cardinality(OfKind(Range(writing'), j)) = 0
    <3>1. OfKind(Range(writing'), j) = {}
      BY <1>4 DEF OfKind
    <3> QED
      BY <3>1, FS_EmptySet
  <2>5. Len(table'[j]) = Len(table[j]) + (IF j = k THEN Len(writing) ELSE 0)
    <3>1. Len(table[j]) \in Nat
      BY PaidFacts
    <3>2. /\ j = k => Len(table'[j]) = Len(table[j]) + Len(writing)
          /\ j # k => table'[j] = table[j]
      BY <1>3
    <3>3. j # k => Len(table'[j]) = Len(table[j]) + 0
      BY <3>1, <3>2
    <3> QED
      BY <3>2, <3>3
  <2>6. /\ Cardinality(OfKind(dropped, j)) * BatchSize \in Nat
        /\ Len(writing) \in Nat
    BY <1>2, PaidFacts, ChatFacts, LenProperties
  <2> QED
    <3> DEFINE price == Cardinality(OfKind(dropped, j)) * BatchSize
               refused == Cardinality(OfKind(lost, j))
               more == IF j = k THEN Len(writing) ELSE 0
    <3>1. /\ price <= Len(table[j]) + refused + more
          /\ price \in Nat /\ Len(table[j]) \in Nat /\ refused \in Nat /\ more \in Nat
          /\ Len(table'[j]) = Len(table[j]) + more
      BY <2>2, <2>3, <2>5, <2>6, PaidFacts DEF Paid
    <3>2. Paid(j)' <=> price <= Len(table'[j]) + refused + 0
      BY <1>1, <2>4 DEF Paid
    <3> HIDE DEF price, refused, more
    <3> QED
      BY <3>1, <3>2
<1> QED
  BY <1>6, <1>7, <1>8, <1>9, <1>10, <1>11

\* The rows of a batch that is refused are lost, and known to be.
LEMMA InsertRefusedKeeps == StorageInv /\ InsertRefused => StorageInv'
<1> SUFFICES ASSUME StorageInv, InsertRefused
             PROVE  StorageInv'
  OBVIOUS
<1> USE DEF StorageInv
<1>1. /\ writing' = <<>> /\ lost' = lost \cup Range(writing)
      /\ UNCHANGED <<received, taken, inHand, late, mailbox, sent, batch, todo, dropped, table,
                     status>>
  BY DEF InsertRefused, processor
<1>2. /\ Range(writing') = {} /\ writing' \in Seq(Messages) /\ IsInjective(writing')
      /\ \A a, m : ~ Follows(writing', a, m)
  BY <1>1, Empty, EmptySeq
<1>3. /\ writing \in Seq(Messages) /\ Range(writing) \subseteq Messages
      /\ IsFiniteSet(Range(writing)) /\ IsFiniteSet(lost)
  BY KindFacts, Counted DEF Types
<1>4. Mailed' = Mailed /\ Taken' = Taken /\ Batched' = Batched /\ Stored' = Stored
  BY <1>1 DEF Stored, Rows, Mailed, Taken, Batched
<1>5. Types'
  <2>1. IsFiniteSet(lost') /\ lost' \subseteq Messages
    BY <1>1, <1>3, FS_Union DEF Types
  <2>2. \E k \in Kinds : Range(writing') \subseteq Own(k)
    BY <1>2, KindFacts
  <2> QED
    BY <1>1, <1>2, <2>1, <2>2 DEF Types
<1>6. Apart' /\ Accounted'
  BY <1>1, <1>2, <1>4 DEF Apart, Accounted
<1>7. Once'
  BY <1>1, <1>2 DEF Once
<1>8. Leaving'
  BY <1>1 DEF Leaving
<1>9. FewBehind'
  BY <1>1, <1>2, <1>4, NoneFurther DEF InLine, After, Rows
<1>10. DropsPaid'
  <2>1. SUFFICES ASSUME NEW j \in Kinds
                 PROVE  Paid(j)'
    BY DEF DropsPaid, Paid, OfKind
  <2>2. Paid(j)
    BY PaidFacts
  <2>3. Cardinality(OfKind(Range(writing'), j)) = 0
    <3>1. OfKind(Range(writing'), j) = {}
      BY <1>2 DEF OfKind
    <3> QED
      BY <3>1, FS_EmptySet
  <2>4. /\ OfKind(lost', j) = OfKind(lost, j) \cup OfKind(Range(writing), j)
        /\ OfKind(lost, j) \cap OfKind(Range(writing), j) = {}
    BY <1>1 DEF OfKind, Apart
  <2>5. IsFiniteSet(OfKind(lost, j)) /\ IsFiniteSet(OfKind(Range(writing), j))
    BY <1>3, KindCount
  <2>6. Cardinality(OfKind(lost', j)) =
           Cardinality(OfKind(lost, j)) + Cardinality(OfKind(Range(writing), j))
           - Cardinality({})
    BY <2>4, <2>5, FS_Union
  <2>7. Cardinality(OfKind(dropped, j)) * BatchSize \in Nat
    BY PaidFacts, ChatFacts
  <2> QED
    BY <1>1, <2>2, <2>3, <2>6, <2>7, PaidFacts, FS_EmptySet DEF Paid
<1> QED
  BY <1>5, <1>6, <1>7, <1>8, <1>9, <1>10
-----------------------------------------------------------------------------

\* At start there is no record anywhere.
LEMMA StorageInit == Init => StorageInv
<1> SUFFICES ASSUME Init
             PROVE  StorageInv
  OBVIOUS
<1>1. /\ received = 0 /\ taken = 0 /\ inHand = {} /\ late = {} /\ mailbox = <<>>
      /\ sent = {} /\ writing = <<>> /\ todo = <<>> /\ dropped = {} /\ lost = {}
      /\ \A k \in Kinds : batch[k] = <<>> /\ table[k] = <<>>
      /\ batch = [k \in Kinds |-> <<>>] /\ table = [k \in Kinds |-> <<>>]
      /\ status = "running"
  BY DEF Init
<1>2. /\ <<>> \in Seq(Demands) /\ <<>> \in Seq(Messages)
      /\ Range(<<>>) = {} /\ IsInjective(<<>>)
  BY Empty, EmptySeq
<1>3. Types
  BY <1>1, <1>2, ChatFacts, KindFacts, FS_EmptySet DEF Types
<1>4. Mailed = {} /\ Batched = {} /\ Stored = {} /\ Taken = {}
  BY <1>1, <1>2 DEF Mailed, Batched, Stored, Rows, Taken, Kinds
<1>5. Apart /\ Accounted
  BY <1>1, <1>2, <1>4 DEF Apart, Accounted
<1>6. Once
  BY <1>1, <1>2 DEF Once
<1>7. Leaving
  <2>1. DOMAIN mailbox = {}
    BY <1>1, LenProperties, EmptySeq
  <2> QED
    BY <1>1, <2>1 DEF Leaving
<1>8. FewBehind
  <2>1. InLine = {}
    BY <1>1, <1>2, <1>4 DEF InLine, Rows, Kinds
  <2>2. Cardinality(inHand) = 0
    BY <1>1, FS_EmptySet
  <2> QED
    BY <2>1, <2>2, ChatFacts DEF FewBehind
<1>9. DropsPaid
  <2>1. SUFFICES ASSUME NEW j \in Kinds
                 PROVE  Paid(j)
    BY PaidFacts
  <2>2. Cardinality(OfKind(dropped, j)) = 0
    <3>1. OfKind(dropped, j) = {}
      BY <1>1 DEF OfKind
    <3> QED
      BY <3>1, FS_EmptySet
  <2>3. 0 * BatchSize = 0
    BY ChatFacts
  <2> QED
    BY <1>3, <2>2, <2>3, PaidFacts DEF Paid
<1> QED
  BY <1>3, <1>5, <1>6, <1>7, <1>8, <1>9 DEF StorageInv

\* StorageInv is inductive.
LEMMA StorageStep == StorageInv /\ [Next]_vars => StorageInv'
<1> SUFFICES ASSUME StorageInv, [Next]_vars
             PROVE  StorageInv'
  OBVIOUS
<1>1. CASE UNCHANGED vars
  <2>1. UNCHANGED <<processor, mailbox, sent, handling, table, lost, status>>
    BY <1>1 DEF vars, handling
  <2>2. Leaving'
    BY <2>1 DEF StorageInv, Leaving, handling
  <2> QED
    BY <2>1, <2>2, StatusKeeps
<1>2. CASE Processor
  BY <1>2, TakeOldestKeeps, PublishKeeps DEF Processor
<1>3. ASSUME NEW k \in Kinds, FlushTimer(k)
      PROVE  StorageInv'
  BY <1>3, SignalKeeps, DemandFacts DEF FlushTimer
<1>4. CASE Deregister
  BY <1>4, SignalKeeps, DemandFacts DEF Deregister, Open
<1>5. ASSUME NEW m \in Chat \cup Log, Store(m)
      PROVE  StorageInv'
  <2>1. /\ m \in Messages /\ Take(Record(m))
        /\ Keep(m) \/ WriteFull(m)
        /\ UNCHANGED <<processor, sent, table, lost, status>>
    BY <1>5 DEF Store, Messages
  <2> QED
    BY <2>1, KeepKeeps, WriteFullKeeps
<1>6. CASE Handle
  BY <1>5, <1>6, FlushKindKeeps, EvtFinishKeeps, SwapKeeps, EndFinishKeeps, InsertKeeps,
     InsertRefusedKeeps, InsertAbortsKeeps DEF Handle
<1> QED
  BY <1>1, <1>2, <1>3, <1>4, <1>6, ReceiveKeeps, SendLogKeeps DEF Next

\* The inductive invariant: every record that came is in one place, the places
\* have no repetitions, drops are paid for by written batches, and a thread of the
\* processor is behind by no more than the others hold.
THEOREM StorageInvariant == Spec => []StorageInv
BY StorageInit, StorageStep, PTL DEF Spec

\* The places of StorageInv are the spots Conserved counts.
LEMMA ConservedFollows == StorageInv => Conserved
<1> SUFFICES ASSUME StorageInv, NEW m \in Came
             PROVE  Cardinality(Spots(m)) = 1
  BY DEF Conserved
<1> USE DEF StorageInv
<1> DEFINE In(place, q, x) == {place} \X {i \in DOMAIN q : q[i] = x}
           Among(place, S) == {place} \X ({m} \cap S)
           A == {"waiting"} \X {i \in taken + 1 .. received : Arrivals[i] = m}
           B == Among("inHand", inHand)
           C == Among("late", late)
           D == In("mailbox", mailbox, Record(m))
           E == In("batch", batch[Kind(m)], m)
           F == In("writing", writing, m)
           G == In("table", table[Kind(m)], m)
           H == Among("dropped", dropped)
           I == Among("lost", lost)
\* In a place there is at most one spot, and there is one if m is there.
<1>1. Spots(m) = A \cup B \cup C \cup D \cup E \cup F \cup G \cup H \cup I
  BY DEF Spots
<1>2. m \in Messages /\ Kind(m) \in Kinds
  <2>1. \A i \in 1 .. received : Arrivals[i] \in Chat
    BY ChatFacts DEF Types
  <2> QED
    BY <2>1, KindFacts DEF Came, Messages
<1>3. ASSUME NEW place, NEW q, NEW x, IsInjective(q)
      PROVE  IF x \in Range(q) THEN \E s : In(place, q, x) = {s} ELSE In(place, q, x) = {}
  <2>1. CASE x \in Range(q)
    <3>1. PICK i \in DOMAIN q : q[i] = x
      BY <2>1 DEF Range
    <3>2. {j \in DOMAIN q : q[j] = x} = {i}
      BY <1>3, <3>1 DEF IsInjective
    <3>3. In(place, q, x) = {<<place, i>>}
      BY <3>2
    <3> QED
      BY <2>1, <3>3
  <2>2. CASE x \notin Range(q)
    BY <2>2 DEF Range
  <2> QED
    BY <2>1, <2>2
<1>4. ASSUME NEW place, NEW S
      PROVE  IF m \in S THEN \E s : Among(place, S) = {s} ELSE Among(place, S) = {}
  <2>1. m \in S => Among(place, S) = {<<place, m>>}
    OBVIOUS
  <2> QED
    BY <2>1
<1>5. IF m \in Waiting THEN \E s : A = {s} ELSE A = {}
  <2>1. CASE m \in Waiting
    <3>1. PICK i \in taken + 1 .. received : Arrivals[i] = m
      BY <2>1 DEF Waiting
    <3>2. {j \in taken + 1 .. received : Arrivals[j] = m} = {i}
      BY <3>1, ChatFacts DEF Types
    <3>3. A = {<<"waiting", i>>}
      BY <3>2
    <3> QED
      BY <2>1, <3>3
  <2>2. CASE m \notin Waiting
    BY <2>2 DEF Waiting
  <2> QED
    BY <2>1, <2>2
<1> HIDE DEF In, Among
<1>6. /\ IF m \in inHand THEN \E s : B = {s} ELSE B = {}
      /\ IF m \in late THEN \E s : C = {s} ELSE C = {}
      /\ IF m \in dropped THEN \E s : H = {s} ELSE H = {}
      /\ IF m \in lost THEN \E s : I = {s} ELSE I = {}
  BY <1>4
<1>7. /\ IF m \in Mailed THEN \E s : D = {s} ELSE D = {}
      /\ IF m \in Range(writing) THEN \E s : F = {s} ELSE F = {}
  <2>1. m \in Mailed <=> Record(m) \in Range(mailbox)
    BY <1>2 DEF Mailed
  <2> QED
    BY <1>3, <2>1 DEF Once
<1>8. /\ IF m \in Batched THEN \E s : E = {s} ELSE E = {}
      /\ IF m \in Stored THEN \E s : G = {s} ELSE G = {}
  <2>1. /\ m \in Batched <=> m \in Range(batch[Kind(m)])
        /\ m \in Stored <=> m \in Range(table[Kind(m)])
    BY <1>2, KindFacts DEF Types, Batched, Stored, Rows
  <2>2. IsInjective(batch[Kind(m)]) /\ IsInjective(table[Kind(m)])
    BY <1>2 DEF Once
  <2> QED
    BY <1>3, <2>1, <2>2
<1> HIDE DEF A, B, C, D, E, F, G, H, I
\* It is in exactly one place.
<1>9. m \in Waiting => m \notin inHand /\ m \notin late /\ m \notin sent
  <2>1. Waiting \cap Taken = {}
    BY ChatFacts DEF Waiting, Taken, Types
  <2>2. Waiting \subseteq Chat
    BY ChatFacts DEF Waiting, Types
  <2> QED
    BY <2>1, <2>2 DEF Accounted
<1>10. m \in Waiting \/ m \in inHand \/ m \in late \/ m \in sent
  <2>1. \A i \in 1 .. received : i \in 1 .. taken \/ i \in taken + 1 .. received
    BY ChatFacts DEF Types
  <2>2. m \in Waiting \cup Taken \cup sent
    BY <2>1 DEF Came, Waiting, Taken
  <2> QED
    BY <2>2 DEF Accounted
<1>11. \E s : Spots(m) = {s}
  <2>1. CASE m \in Waiting
    BY <1>1, <1>5, <1>6, <1>7, <1>8, <1>9, <2>1 DEF Accounted
  <2>2. CASE m \in inHand \/ m \in late
    BY <1>1, <1>5, <1>6, <1>7, <1>8, <1>9, <2>2 DEF Accounted, Apart
  <2>3. CASE m \in sent
    <3>1. m \notin Waiting /\ m \notin inHand /\ m \notin late
      BY <1>9, <2>3 DEF Apart
    <3>2. A = {} /\ B = {} /\ C = {}
      BY <1>5, <1>6, <3>1
    <3>3. Spots(m) = D \cup E \cup F \cup G \cup H \cup I
      BY <1>1, <3>2
    <3>4. CASE m \in Mailed
      BY <1>6, <1>7, <1>8, <3>3, <3>4 DEF Apart
    <3>5. CASE m \in Batched
      BY <1>6, <1>7, <1>8, <3>3, <3>5 DEF Apart
    <3>6. CASE m \in Range(writing)
      BY <1>6, <1>7, <1>8, <3>3, <3>6 DEF Apart
    <3>7. CASE m \in Stored
      BY <1>6, <1>7, <1>8, <3>3, <3>7 DEF Apart
    <3>8. CASE m \in dropped \cup lost
      BY <1>6, <1>7, <1>8, <3>3, <3>8 DEF Apart
    <3> QED
      BY <2>3, <3>4, <3>5, <3>6, <3>7, <3>8 DEF Accounted
  <2> QED
    BY <1>10, <2>1, <2>2, <2>3
<1> QED
  BY <1>11, FS_Singleton

\* With queue and batches empty the accounts leave only tables and known losses.
LEMMA NothingLeftFollows == StorageInv => NothingLeft
<1> SUFFICES ASSUME StorageInv, status = "finished"
             PROVE  sent \subseteq Rows("chat") \cup Rows("log") \cup dropped \cup lost
  BY DEF NothingLeft
<1>1. mailbox = <<>> /\ writing = <<>> /\ batch["chat"] = <<>> /\ batch["log"] = <<>>
  BY DEF StorageInv, Leaving, Kinds
<1>2. Mailed = {} /\ Batched = {} /\ Range(writing) = {}
  BY <1>1, Empty DEF Mailed, Batched
<1> QED
  BY <1>2 DEF StorageInv, Accounted, Stored

\* Who overtook a message was in the hands of another thread.
LEMMA FewOvertakenFollows == StorageInv => FewOvertaken
<1> SUFFICES ASSUME StorageInv
             PROVE  FewOvertaken
  OBVIOUS
<1> DEFINE rows == table["chat"]
           overtaken(i) == {a \in Chat : /\ Earlier(a, rows[i])
                                         /\ \E j \in i + 1 .. Len(rows) : rows[j] = a}
<1>1. /\ rows \in Seq(Messages) /\ Len(rows) \in Nat /\ DOMAIN rows = 1 .. Len(rows)
      /\ Range(rows) \subseteq Chat
  <2>1. rows \in Seq(Messages) /\ Range(rows) \subseteq Chat
    BY KindFacts DEF StorageInv, Types
  <2> QED
    BY <2>1, LenProperties
<1>2. ASSUME NEW i \in DOMAIN rows
      PROVE  Cardinality(overtaken(i)) < Threads
  <2>1. rows[i] \in InLine
    BY <1>1 DEF InLine, Rows, Range
  <2>2. overtaken(i) \subseteq Behind(rows[i])
    <3>1. ASSUME NEW a \in Chat, NEW j \in i + 1 .. Len(rows), rows[j] = a
          PROVE  Follows(rows, a, rows[i])
      <4>1. j \in DOMAIN rows /\ i < j
        BY <1>1
      <4> QED
        BY <3>1, <4>1 DEF Follows
    <3> QED
      BY <3>1 DEF Behind, After
  <2>3. IsFiniteSet(Behind(rows[i]))
    BY ChatFacts, FS_Subset DEF Behind
  <2> HIDE DEF overtaken, rows
  <2>4. /\ Cardinality(Behind(rows[i])) \in Nat /\ Cardinality(overtaken(i)) \in Nat
        /\ Cardinality(overtaken(i)) <= Cardinality(Behind(rows[i]))
    BY <2>2, <2>3, FS_Subset, FS_CardinalityType
  <2> QED
    BY <2>1, <2>4, ChatFacts DEF StorageInv, FewBehind
<1> QED
  BY <1>2 DEF FewOvertaken

\* A record is in exactly one place, from the session that read it to the table it
\* ends in or the loss that is known of, however threads and batches interleave
\* (Storage.cpp, MessageProcessor.cpp).
THEOREM StorageConserved == Spec => []Conserved
BY StorageInvariant, ConservedFollows, PTL

\* The record that meets a full batch is lost, and each such loss has a full batch
\* of its kind written in return (Storage::store).
THEOREM StorageDropsPaid == Spec => []DropsPaid
<1>1. StorageInv => DropsPaid
  BY DEF StorageInv
<1> QED
  BY <1>1, StorageInvariant, PTL

\* so_evt_finish is the last the agent does and writes both batches: once it has
\* returned, nothing that was published while the coop was registered is in memory.
THEOREM StorageNothingLeft == Spec => []NothingLeft
BY StorageInvariant, NothingLeftFollows, PTL

\* The rows of the chat are in the order of the chat up to what the other threads of
\* MessageProcessor's dispatcher can hold while one overtakes them.
THEOREM StorageFewOvertaken == Spec => []FewOvertaken
BY StorageInvariant, FewOvertakenFollows, PTL
-----------------------------------------------------------------------------
(* The abstract log. *)

\* Batches keep within batch_size.
Small == (\A k \in Kinds : Len(batch[k]) <= BatchSize) /\ Len(writing) <= BatchSize

\* The conditions of store() keep a batch within batch_size, and an insert has the
\* rows of one batch.
LEMMA SmallStep == StorageInv /\ Small /\ [Next]_vars => Small'
<1> SUFFICES ASSUME StorageInv, Small, [Next]_vars PROVE Small'
  OBVIOUS
<1> USE DEF Small
<1>1. /\ batch \in [Kinds -> Seq(Messages)] /\ writing \in Seq(Messages)
      /\ BatchSize \in Nat /\ Len(<<>>) = 0
      /\ \A k \in Kinds : Len(batch[k]) \in Nat
  BY ChatFacts, LenProperties DEF StorageInv, Types
<1>2. CASE UNCHANGED <<batch, writing>>
  BY <1>2
<1>3. ASSUME NEW m \in Chat \cup Log, Store(m) PROVE Small'
  <2>1. Kind(m) \in Kinds /\ m \in Messages
    BY KindFacts DEF Messages
  <2>2. CASE Keep(m)
    <3>1. Len(Append(batch[Kind(m)], m)) = Len(batch[Kind(m)]) + 1
      BY <1>1, <2>1, AppendProperties
    <3> QED
      BY <1>1, <2>1, <2>2, <3>1 DEF Keep
  <2>3. CASE WriteFull(m)
    BY <1>1, <2>1, <2>3 DEF WriteFull
  <2> QED
    BY <1>3, <2>2, <2>3 DEF Store
<1>4. CASE Swap
  <2>1. Head(todo) \in Kinds
    BY <1>4 DEF Swap, StorageInv, Types, Kinds
  <2> QED
    BY <1>1, <1>4, <2>1 DEF Swap
<1>5. CASE Insert \/ InsertRefused
  BY <1>1, <1>5 DEF Insert, InsertRefused
<1>6. CASE FlushTimer("chat") \/ FlushTimer("log") \/ Receive \/ Processor \/ Deregister
           \/ (\E m \in Log : SendLog(m))
  BY <1>2, <1>6 DEF FlushTimer, Receive, Processor, TakeOldest, Publish, Deregister, SendLog,
                    handling
<1>7. CASE EvtFinish \/ EndFinish \/ InsertAborts \/ \E k \in Kinds : FlushKind(k)
  BY <1>2, <1>7 DEF EvtFinish, EndFinish, InsertAborts, FlushKind, handling
<1> QED
  BY <1>2, <1>3, <1>4, <1>5, <1>6, <1>7 DEF Next, Handle, Kinds, vars, handling

Gone == dropped \cup lost \cup late
Pending == Came \ (Stored \cup Gone)

\* The steps of the log, in the words of the program
LEMMA LogSteps ==
    ASSUME Types, Types'
    PROVE  /\ \A m \in Messages :
                 /\ m \notin Pending \cup Gone \cup Stored
                 /\ Pending' = Pending \cup {m} /\ Gone' = Gone /\ table' = table
                 => Journal!LogNext
           /\ \A S \in SUBSET Pending :
                 Pending' = Pending \ S /\ Gone' = Gone \cup S /\ table' = table
                 => Journal!LogNext
           /\ \A k \in Kinds :
                 /\ writing # <<>> /\ IsInjective(writing) /\ Small
                 /\ Range(writing) \subseteq Pending \cap Own(k)
                 /\ table' = [table EXCEPT ![k] = table[k] \o writing]
                 /\ Pending' = Pending \ Range(writing) /\ Gone' = Gone
                 => Journal!LogNext
<1> DEFINE Of == [k \in Kinds |-> {m \in Chat \cup Log : Kind(m) = k}]
<1>1. DOMAIN Of = Kinds /\ \A k \in Kinds : Of[k] = Own(k)
  BY DEF Own, Messages
<1>2. Journal!Known = Pending \cup Gone \cup Stored
  <2>1. Journal!Members(table["chat"]) = Rows("chat")
        /\ Journal!Members(table["log"]) = Rows("log")
    BY DEF Journal!Members, Rows, Range
  <2>2. UNION {Journal!Members(table[k]) : k \in Kinds} = Stored
    BY <2>1, KindFacts DEF Stored
  <2> QED
    BY <1>1, <2>2 DEF Journal!Known, Journal!Tables, Pending, Gone, Stored
<1> HIDE DEF Of
<1>3. ASSUME NEW m \in Messages, m \notin Pending \cup Gone \cup Stored,
             Pending' = Pending \cup {m}, Gone' = Gone, table' = table
      PROVE  Journal!LogNext
  <2>1. Journal!Come(m)
    BY <1>2, <1>3 DEF Journal!Come, Pending, Gone, Stored
  <2>2. Kind(m) \in DOMAIN Of /\ m \in Of[Kind(m)]
    BY <1>1, KindFacts
  <2> QED
    BY <2>1, <2>2 DEF Journal!LogNext, Journal!Tables, Of
<1>4. ASSUME NEW S \in SUBSET Pending,
             Pending' = Pending \ S, Gone' = Gone \cup S, table' = table
      PROVE  Journal!LogNext
  <2>1. Journal!Lose(S)
    BY <1>4 DEF Journal!Lose, Pending, Gone, Stored
  <2> QED
    BY <2>1 DEF Journal!LogNext, Pending, Gone, Stored
<1>5. ASSUME NEW k \in Kinds, writing # <<>>, IsInjective(writing), Small,
             Range(writing) \subseteq Pending \cap Own(k),
             table' = [table EXCEPT ![k] = table[k] \o writing],
             Pending' = Pending \ Range(writing), Gone' = Gone
      PROVE  Journal!LogNext
  <2>1. /\ Len(writing) \in Nat \ {0} /\ DOMAIN writing = 1 .. Len(writing)
        /\ writing = [i \in 1 .. Len(writing) |-> writing[i]]
    BY <1>5, LenProperties, EmptySeq DEF Types
  <2>2. Len(writing) \in 1 .. BatchSize
    BY <1>5, <2>1, ChatFacts DEF Small
  <2>3. writing \in [1 .. Len(writing) -> Pending \cap Own(k)]
    BY <1>5, <2>1 DEF Range
  <2>4. \A i, j \in DOMAIN writing : writing[i] = writing[j] => i = j
    BY <1>5 DEF IsInjective
  <2>5. writing \in Journal!Inserts(k)
    BY <1>1, <1>5, <2>2, <2>3, <2>4 DEF Journal!Inserts, Pending, Gone, Stored, Of
  <2>6. Journal!Members(writing) = Range(writing)
    BY DEF Journal!Members, Range
  <2>7. Journal!Write(k, writing)
    BY <1>5, <2>6 DEF Journal!Write, Pending, Gone, Stored
  <2> QED
    BY <1>1, <2>5, <2>7 DEF Journal!LogNext, Journal!Tables, Of
<1> QED
  BY <1>3, <1>4, <1>5

\* Where a record of the invariant's places is in the log
LEMMA LogFacts ==
    ASSUME Types, Apart, Accounted
    PROVE  /\ sent \cup late \cup inHand \subseteq Came /\ Came \subseteq Messages
           /\ Stored \cup dropped \cup lost \cup Mailed \cup Batched \cup Range(writing)
                \subseteq sent
           /\ (sent \cup late \cup inHand) \cap Chat \subseteq Taken
           /\ Taken \subseteq {Arrivals[i] : i \in 1 .. received}
<1>1. taken \in Nat /\ received \in Nat /\ taken <= received /\ received <= Len(Arrivals)
  BY ChatFacts DEF Types
<1>2. Taken \subseteq {Arrivals[i] : i \in 1 .. received}
  <2>1. \A i \in 1 .. taken : i \in 1 .. received
    BY <1>1
  <2> QED
    BY <2>1 DEF Taken
<1>3. {Arrivals[i] : i \in 1 .. received} \subseteq Chat
  <2>1. \A i \in 1 .. received : i \in 1 .. Len(Arrivals)
    BY <1>1, ChatFacts
  <2> QED
    BY <2>1, ChatFacts
<1>4. (sent \cup late \cup inHand) \cap Chat \subseteq Taken
  BY DEF Accounted
<1>5. sent \cup late \cup inHand \subseteq Came
  BY <1>2, <1>4 DEF Types, Came, Messages
<1>6. Came \subseteq Messages
  BY <1>3 DEF Came, Messages
<1> QED
  BY <1>2, <1>4, <1>5, <1>6 DEF Accounted

\* Every step of the program is one of the log, or none.
LEMMA LogStep ==
    StorageInv /\ Small /\ [Next]_vars => [Journal!LogNext]_<<Pending, table, Gone>>
<1> SUFFICES ASSUME StorageInv, Small, [Next]_vars
             PROVE  Journal!LogNext \/ UNCHANGED <<Pending, table, Gone>>
  OBVIOUS
<1> USE DEF StorageInv
<1>0. StorageInv'
  BY StorageStep
<1>1. /\ \A m \in Messages :
            /\ m \notin Pending \cup Gone \cup Stored
            /\ Pending' = Pending \cup {m} /\ Gone' = Gone /\ table' = table
            => Journal!LogNext
      /\ \A S \in SUBSET Pending :
            Pending' = Pending \ S /\ Gone' = Gone \cup S /\ table' = table
            => Journal!LogNext
      /\ \A k \in Kinds :
            /\ writing # <<>> /\ IsInjective(writing) /\ Small
            /\ Range(writing) \subseteq Pending \cap Own(k)
            /\ table' = [table EXCEPT ![k] = table[k] \o writing]
            /\ Pending' = Pending \ Range(writing) /\ Gone' = Gone
            => Journal!LogNext
  BY <1>0, LogSteps
<1>2. /\ sent \cup late \cup inHand \subseteq Came /\ Came \subseteq Messages
      /\ Stored \cup dropped \cup lost \cup Mailed \cup Batched \cup Range(writing) \subseteq sent
      /\ (sent \cup late \cup inHand) \cap Chat \subseteq Taken
      /\ Taken \subseteq {Arrivals[i] : i \in 1 .. received}
  BY LogFacts
<1>3. CASE UNCHANGED <<received, Log \cap sent, late, table, dropped, lost>>
  <2>1. Came' = Came
    BY <1>3 DEF Came
  <2>2. Stored' = Stored /\ Gone' = Gone
    BY <1>3 DEF Stored, Rows, Gone
  <2> QED
    BY <1>3, <2>1, <2>2 DEF Pending
<1>4. CASE Receive
  <2> DEFINE m == Arrivals[received + 1]
  <2>1. /\ UNCHANGED <<sent, late, table, dropped, lost>> /\ received' = received + 1
        /\ received \in Nat /\ received + 1 \in 1 .. Len(Arrivals)
    BY <1>4, ChatFacts DEF Receive, Types, handling
  <2>2. m \in Chat /\ m \in Messages
    BY <2>1, ChatFacts DEF Messages
  <2>3. {Arrivals[i] : i \in 1 .. received'} = {Arrivals[i] : i \in 1 .. received} \cup {m}
    <3>1. \A i : i \in 1 .. received' <=> i \in 1 .. received \/ i = received + 1
      BY <2>1
    <3> QED
      BY <3>1
  <2>4. m \notin {Arrivals[i] : i \in 1 .. received}
    <3>1. \A i \in 1 .. received : i \in 1 .. Len(Arrivals) /\ i # received + 1
      BY <2>1, ChatFacts
    <3> QED
      BY <2>1, <3>1, ChatFacts
  <2> HIDE DEF m
  <2>5. Came' = Came \cup {m} /\ m \notin Came
    BY <2>1, <2>2, <2>3, <2>4, ChatFacts DEF Came
  <2>6. Stored' = Stored /\ Gone' = Gone
    BY <2>1 DEF Stored, Rows, Gone
  <2>7. m \notin Pending \cup Gone \cup Stored /\ Pending' = Pending \cup {m}
    BY <1>2, <2>5, <2>6 DEF Pending, Gone
  <2> QED
    BY <1>1, <2>1, <2>2, <2>6, <2>7
<1>5. CASE TakeOldest
  BY <1>3, <1>5 DEF TakeOldest, handling
<1>6. ASSUME NEW m \in Chat, Publish(m)
      PROVE  Journal!LogNext \/ UNCHANGED <<Pending, table, Gone>>
  <2>1. m \in inHand /\ m \notin Log /\ UNCHANGED <<received, table, dropped, lost>>
    BY <1>6, ChatFacts DEF Publish, handling
  <2>2. CASE Open
    <3>1. sent' = sent \cup {m} /\ late' = late
      BY <1>6, <2>2 DEF Publish
    <3> QED
      BY <1>3, <2>1, <3>1
  <2>3. CASE ~ Open
    <3>1. sent' = sent /\ late' = late \cup {m}
      BY <1>6, <2>3 DEF Publish
    <3>2. m \in Pending
      BY <1>2, <2>1 DEF Pending, Gone, Apart
    <3>3. Came' = Came /\ Stored' = Stored /\ Gone' = Gone \cup {m}
      BY <2>1, <3>1 DEF Came, Stored, Rows, Gone
    <3>4. Pending' = Pending \ {m}
      BY <3>3 DEF Pending
    <3> QED
      BY <1>1, <2>1, <3>2, <3>3, <3>4
  <2> QED
    BY <2>2, <2>3
<1>7. ASSUME NEW m \in Log, SendLog(m)
      PROVE  Journal!LogNext \/ UNCHANGED <<Pending, table, Gone>>
  <2>1. /\ sent' = sent \cup {m} /\ m \notin sent
        /\ UNCHANGED <<received, late, table, dropped, lost>>
    BY <1>7 DEF SendLog, processor, handling
  <2>2. m \in Messages /\ m \notin Chat
    BY ChatFacts DEF Messages
  <2>3. {Arrivals[i] : i \in 1 .. received} \subseteq Chat
    <3>1. \A i \in 1 .. received : i \in 1 .. Len(Arrivals)
      BY ChatFacts DEF Types
    <3> QED
      BY <3>1, ChatFacts
  <2>4. Came' = Came \cup {m} /\ m \notin Came
    BY <2>1, <2>2, <2>3 DEF Came
  <2>5. Stored' = Stored /\ Gone' = Gone
    BY <2>1 DEF Stored, Rows, Gone
  <2>6. m \notin Pending \cup Gone \cup Stored /\ Pending' = Pending \cup {m}
    BY <1>2, <2>4, <2>5 DEF Pending, Gone
  <2> QED
    BY <1>1, <2>1, <2>2, <2>5, <2>6
<1>8. ASSUME NEW m \in Chat \cup Log, Store(m)
      PROVE  Journal!LogNext \/ UNCHANGED <<Pending, table, Gone>>
  <2>1. UNCHANGED <<received, sent, late, table, lost>> /\ (Keep(m) \/ WriteFull(m))
    BY <1>8 DEF Store, processor
  <2>2. CASE Keep(m)
    BY <1>3, <1>8, <2>2 DEF Store, processor, Keep
  <2>3. CASE WriteFull(m)
    <3>1. UNCHANGED <<received, sent, late, table, lost>> /\ dropped' = dropped \cup {m}
      BY <1>8, <2>3 DEF Store, processor, WriteFull
    <3>2. m \in Mailed
      BY <1>8 DEF Store, Take, Mailed, Messages, Types, Range
    <3>3. m \in Pending
      BY <1>2, <3>2 DEF Pending, Gone, Apart
    <3>4. Came' = Came /\ Stored' = Stored /\ Gone' = Gone \cup {m}
      BY <3>1 DEF Came, Stored, Rows, Gone
    <3>5. Pending' = Pending \ {m}
      BY <3>4 DEF Pending
    <3> QED
      BY <1>1, <3>1, <3>3, <3>4, <3>5
  <2> QED
    BY <1>8, <2>2, <2>3 DEF Store
<1>9. CASE Insert
  <2> DEFINE k == Kind(Head(writing))
  <2>1. /\ writing # <<>> /\ table' = [table EXCEPT ![k] = table[k] \o writing]
        /\ UNCHANGED <<received, sent, late, dropped, lost>>
    BY <1>9 DEF Insert, Processing, processor
  <2>2. k \in Kinds /\ Range(writing) \subseteq Own(k) /\ IsInjective(writing)
    BY <2>1, OneKind DEF Once
  <2> HIDE DEF k
  <2>3. Range(writing) \subseteq Pending
    BY <1>2 DEF Pending, Gone, Apart
  <2>4. Stored' = Stored \cup Range(writing)
    <3>1. table[k] \in Seq(Messages) /\ writing \in Seq(Messages)
      BY <2>2 DEF Types
    <3>2. Range(table[k] \o writing) = Range(table[k]) \cup Range(writing)
      BY <3>1, Joined
    <3> QED
      BY <2>1, <2>2, <3>2, KindFacts DEF Stored, Rows, Types
  <2>5. Came' = Came /\ Gone' = Gone
    BY <2>1 DEF Came, Gone
  <2>6. Pending' = Pending \ Range(writing)
    BY <2>4, <2>5 DEF Pending
  <2> QED
    BY <1>1, <2>1, <2>2, <2>3, <2>5, <2>6
<1>10. CASE InsertRefused
  <2>1. lost' = lost \cup Range(writing) /\ UNCHANGED <<received, sent, late, table, dropped>>
    BY <1>10 DEF InsertRefused, processor
  <2>2. Range(writing) \subseteq Pending
    BY <1>2 DEF Pending, Gone, Apart
  <2>3. Came' = Came /\ Stored' = Stored /\ Gone' = Gone \cup Range(writing)
    BY <2>1 DEF Came, Stored, Rows, Gone
  <2>4. Pending' = Pending \ Range(writing)
    BY <2>3 DEF Pending
  <2> QED
    BY <1>1, <2>1, <2>2, <2>3, <2>4
<1>11. CASE Deregister \/ EvtFinish \/ Swap \/ EndFinish \/ InsertAborts
            \/ (\E k \in Kinds : FlushTimer(k) \/ FlushKind(k)) \/ UNCHANGED vars
  <2>1. UNCHANGED <<received, sent, late, table, dropped, lost>>
    BY <1>11 DEF Deregister, EvtFinish, Swap, EndFinish, InsertAborts, FlushTimer, FlushKind,
                 processor, handling, vars
  <2> QED
    BY <1>3, <2>1
<1> QED
  BY <1>4, <1>5, <1>6, <1>7, <1>8, <1>9, <1>10, <1>11 DEF Next, Processor, Handle

\* Nothing is known to the log at first.
LEMMA LogStart == Init => Journal!LogInit /\ Small
<1> SUFFICES ASSUME Init PROVE Journal!LogInit /\ Small
  OBVIOUS
<1>1. Came = {}
  BY DEF Init, Came
<1>2. table = [k \in Kinds |-> <<>>]
  BY DEF Init
<1>3. Journal!LogInit
  <2>1. DOMAIN [k \in Kinds |-> {m \in Chat \cup Log : Kind(m) = k}] = Kinds
    OBVIOUS
  <2> QED
    BY <1>1, <1>2, <2>1 DEF Init, Journal!LogInit, Journal!Tables
<1>4. Small
  BY ChatFacts DEF Init, Small
<1> QED
  BY <1>3, <1>4

\* MessageProcessor and Storage (MessageProcessor.cpp, Storage.cpp) implement the log of
\* records, for any messages, threads and batch size: each that came is written at most
\* once, in an insert of at most batch_size rows, and what was lost is never written.
THEOREM StorageImplementsLog == Spec => ImplementsRecordLog
<1>1. Init => StorageInv /\ Small /\ Journal!LogInit
  BY StorageInit, LogStart
<1>2. StorageInv /\ Small /\ [Next]_vars => StorageInv' /\ Small'
  BY StorageStep, SmallStep
<1>3. StorageInv /\ Small /\ [Next]_vars => [Journal!LogNext]_(Journal!logVars)
  <2>1. Journal!logVars = <<Pending, table, Gone>>
    BY DEF Journal!logVars, Pending, Gone, Stored
  <2>2. (Journal!logVars)' = <<Pending, table, Gone>>'
    BY DEF Journal!logVars, Pending, Gone, Stored
  <2> QED
    BY <2>1, <2>2, LogStep
<1> QED
  BY <1>1, <1>2, <1>3, PTL DEF Spec, ImplementsRecordLog, Journal!LogSpec
=============================================================================
