----------------------- MODULE IRCSelectorPoolProofs -----------------------
(***************************************************************************)
(* For any number of sessions and of selector threads: a session is on one *)
(* list and in the hands of one thread, and the round robin is even.       *)
(***************************************************************************)
EXTENDS IRCSelectorPool, FiniteSetTheorems, SequenceTheorems, TLAPS

Types ==
    /\ threads \in Nat \ {0}
    /\ list \in [Selectors -> Seq(Sessions)] /\ copy \in [Selectors -> Seq(Sessions)]
    /\ cursor \in Selectors
    /\ fresh \subseteq Sessions /\ held \subseteq Sessions /\ held \cap fresh = {}

\* A removal is of a session that was created and is not held any more.
Removal ==
    \/ removing = NoRemoval
    \/ removing \in [session : Sessions \ (held \cup fresh), left : (SUBSET Selectors) \ {{}}]

\* What a selector has on its list or in its copy
Has(k) == Range(list[k]) \cup Range(copy[k])

Created == \A k \in Selectors : Has(k) \cap fresh = {}

\* Even a damaged list has no session twice, nor has another selector one of its
\* sessions.
OneHome == \A j, k \in Selectors : j # k => Has(j) \cap Has(k) = {}
Once == \A k \in Selectors : IsInjective(list[k])

OnList == UNION {Range(list[k]) : k \in Selectors}
Leaving == IF removing = NoRemoval THEN {} ELSE {removing.session}
Complete == Undamaged => OnList = held \cup Leaving

\* Those before the cursor have had one turn more.
Turns(k, rounds) == IF k < cursor THEN rounds + 1 ELSE rounds
Even ==
    held \cup fresh = Sessions =>
        \E rounds \in Nat : \A k \in Selectors : Len(list[k]) = Turns(k, rounds)

PoolInv == Types /\ Removal /\ Created /\ OneHome /\ Once /\ Complete /\ Even
-----------------------------------------------------------------------------
(* What becomes of a list. *)

\* A session put on a list that does not have it.
LEMMA Pushed ==
    ASSUME NEW q \in Seq(Sessions), NEW s \in Sessions
    PROVE  /\ Append(q, s) \in Seq(Sessions)
           /\ Len(Append(q, s)) = Len(q) + 1 /\ Len(q) \in Nat
           /\ Range(Append(q, s)) = Range(q) \cup {s}
           /\ IsInjective(q) /\ s \notin Range(q) => IsInjective(Append(q, s))
<1>1. /\ Append(q, s) \in Seq(Sessions)
      /\ Len(q) \in Nat /\ DOMAIN q = 1 .. Len(q)
      /\ Len(Append(q, s)) = Len(q) + 1 /\ DOMAIN Append(q, s) = 1 .. Len(q) + 1
      /\ \A i \in 1 .. Len(q) : Append(q, s)[i] = q[i]
      /\ Append(q, s)[Len(q) + 1] = s
  BY AppendProperties, LenProperties
<1> DEFINE longer == Append(q, s)
<1> HIDE DEF longer
<1>2. Range(longer) = Range(q) \cup {s}
  BY <1>1 DEF Range, longer
<1>3. ASSUME IsInjective(q), s \notin Range(q)
      PROVE  IsInjective(longer)
  BY <1>1, <1>3 DEF Range, IsInjective, longer
<1> QED
  BY <1>1, <1>2, <1>3 DEF longer

\* r is q without what was at place p.
Without(r, q, p) ==
    /\ r \in Seq(Sessions) /\ Len(r) = Len(q) - 1
    /\ \A i \in 1 .. Len(q) - 1 : r[i] = IF i < p THEN q[i] ELSE q[i + 1]

\* A session is on the list once, so std::find finds that place.
LEMMA Found ==
    ASSUME NEW q \in Seq(Sessions), NEW p \in 1 .. Len(q), IsInjective(q)
    PROVE  SelectInSeq(q, LAMBDA x : x = q[p]) = p
<1> DEFINE places == {i \in 1 .. Len(q) : q[i] = q[p]}
<1>1. DOMAIN q = 1 .. Len(q) /\ Len(q) \in Nat
  BY LenProperties
<1>2. places = {p}
  BY <1>1 DEF IsInjective
<1>3. Min({p}) = p
  BY DEF Min
<1> QED
  BY <1>2, <1>3 DEF SelectInSeq

\* removeSession takes out one place of a list: that of the session if it is
\* there, of another if it is not.
LEMMA Erased ==
    ASSUME NEW q \in Seq(Sessions), q # <<>>, IsInjective(q), NEW s
    PROVE  \E p \in 1 .. Len(q) :
              /\ s \in Range(q) => q[p] = s
              /\ Without(EraseFound(q, s), q, p)
<1>1. /\ Len(q) \in Nat /\ Len(q) # 0 /\ DOMAIN q = 1 .. Len(q)
      /\ \A i \in 1 .. Len(q) : q[i] \in Sessions
  BY EmptySeq, LenProperties
<1>2. ASSUME NEW m \in 0 .. Len(q)
      PROVE  /\ SubSeq(q, 1, m) \in Seq(Sessions) /\ Len(SubSeq(q, 1, m)) = m
             /\ \A i \in 1 .. m : SubSeq(q, 1, m)[i] = q[i]
  <2> DEFINE r == SubSeq(q, 1, m)
  <2>1. m \in Nat /\ \A i \in 1 .. m : q[i] \in Sessions
    BY <1>1
  <2>2. /\ r \in Seq(Sessions) /\ Len(r) = IF 1 <= m THEN m - 1 + 1 ELSE 0
        /\ \A i \in 1 .. m - 1 + 1 : r[i] = q[1 + i - 1]
    BY <2>1, SubSeqProperties
  <2> HIDE DEF r
  <2>3. Len(r) = m /\ \A i \in 1 .. m : r[i] = q[i]
    BY <2>1, <2>2
  <2> QED
    BY <2>2, <2>3 DEF r
<1>3. ASSUME NEW m \in 1 .. Len(q)
      PROVE  /\ SubSeq(q, m + 1, Len(q)) \in Seq(Sessions)
             /\ Len(SubSeq(q, m + 1, Len(q))) = Len(q) - m
             /\ \A i \in 1 .. Len(q) - m : SubSeq(q, m + 1, Len(q))[i] = q[m + i]
  <2> DEFINE r == SubSeq(q, m + 1, Len(q))
  <2>1. m \in Nat /\ m <= Len(q) /\ \A i \in m + 1 .. Len(q) : q[i] \in Sessions
    BY <1>1
  <2>2. /\ r \in Seq(Sessions)
        /\ Len(r) = IF m + 1 <= Len(q) THEN Len(q) - (m + 1) + 1 ELSE 0
        /\ \A i \in 1 .. Len(q) - (m + 1) + 1 : r[i] = q[(m + 1) + i - 1]
    BY <1>1, <2>1, SubSeqProperties
  <2> HIDE DEF r
  <2>3. Len(r) = Len(q) - m
    <3>1. m \in Nat /\ m <= Len(q) /\ Len(q) \in Nat
      BY <1>1
    <3>2. Len(r) = IF m + 1 <= Len(q) THEN Len(q) - (m + 1) + 1 ELSE 0
      BY <2>2
    <3> QED
      BY <3>1, <3>2
  <2>4. ASSUME NEW i \in 1 .. Len(q) - m
        PROVE  r[i] = q[m + i]
    <3>1. i \in 1 .. Len(q) - (m + 1) + 1 /\ (m + 1) + i - 1 = m + i
      BY <1>1, <2>1
    <3> QED
      BY <2>2, <3>1
  <2> QED
    BY <2>2, <2>3, <2>4 DEF r
<1>4. CASE s \notin Range(q)
  <2>1. EraseFound(q, s) = SubSeq(q, 1, Len(q) - 1)
    BY <1>4 DEF EraseFound, Front
  <2>2. Len(q) - 1 \in 0 .. Len(q)
    BY <1>1
  <2>3. Without(SubSeq(q, 1, Len(q) - 1), q, Len(q))
    BY <1>1, <1>2, <2>2 DEF Without
  <2> QED
    BY <1>1, <1>4, <2>1, <2>3
<1>5. CASE s \in Range(q)
  <2>1. PICK p \in 1 .. Len(q) : q[p] = s
    BY <1>1, <1>5 DEF Range
  <2>2. SelectInSeq(q, LAMBDA x : x = q[p]) = p
    BY Found
  <2>3. EraseFound(q, s) = RemoveAt(q, p)
    BY <1>5, <2>1, <2>2 DEF EraseFound, RemoveFirst
  <2> DEFINE front == SubSeq(q, 1, p - 1)
             rest == SubSeq(q, p + 1, Len(q))
  <2>4. p \in Nat /\ p <= Len(q) /\ p - 1 \in 0 .. Len(q)
    BY <1>1
  <2>5. /\ front \in Seq(Sessions) /\ Len(front) = p - 1
        /\ \A i \in 1 .. p - 1 : front[i] = q[i]
    BY <1>2, <2>4
  <2>6. /\ rest \in Seq(Sessions) /\ Len(rest) = Len(q) - p
        /\ \A i \in 1 .. Len(q) - p : rest[i] = q[p + i]
    BY <1>3
  <2>7. EraseFound(q, s) = front \o rest
    BY <2>3 DEF RemoveAt
  <2> HIDE DEF front, rest
  <2> DEFINE r == front \o rest
  <2>8. /\ r \in Seq(Sessions) /\ Len(r) = (p - 1) + (Len(q) - p)
        /\ \A i \in 1 .. (p - 1) + (Len(q) - p) :
              r[i] = IF i <= p - 1 THEN front[i] ELSE rest[i - (p - 1)]
    <3>1. /\ r \in Seq(Sessions) /\ Len(r) = Len(front) + Len(rest)
          /\ \A i \in 1 .. Len(front) + Len(rest) :
                r[i] = IF i <= Len(front) THEN front[i] ELSE rest[i - Len(front)]
      BY <2>5, <2>6, ConcatProperties
    <3> HIDE DEF r
    <3> QED
      BY <2>5, <2>6, <3>1
  <2> HIDE DEF r
  <2>9. ASSUME NEW i \in 1 .. Len(q) - 1
        PROVE  r[i] = IF i < p THEN q[i] ELSE q[i + 1]
    <3>1. i \in 1 .. (p - 1) + (Len(q) - p) /\ (i <= p - 1 <=> i < p)
      BY <1>1, <2>4
    <3>2. CASE i < p
      <4>1. i \in 1 .. p - 1
        BY <2>4, <3>2
      <4> QED
        BY <2>5, <2>8, <3>1, <3>2, <4>1
    <3>3. CASE ~ (i < p)
      <4>1. i - (p - 1) \in 1 .. Len(q) - p /\ p + (i - (p - 1)) = i + 1
        BY <1>1, <2>4, <3>3
      <4> QED
        BY <2>6, <2>8, <3>1, <3>3, <4>1
    <3> QED
      BY <3>2, <3>3
  <2>10. Len(r) = Len(q) - 1
    BY <1>1, <2>4, <2>8
  <2>11. Without(r, q, p)
    BY <2>8, <2>9, <2>10 DEF Without
  <2> QED
    BY <2>1, <2>7, <2>11 DEF r
<1> QED
  BY <1>4, <1>5

\* What a list keeps when the session at one place goes
LEMMA Kept ==
    ASSUME NEW q \in Seq(Sessions), NEW p \in 1 .. Len(q), NEW r, Without(r, q, p),
           IsInjective(q)
    PROVE  Range(r) = Range(q) \ {q[p]} /\ IsInjective(r)
<1>1. /\ Len(q) \in Nat /\ DOMAIN q = 1 .. Len(q) /\ p \in Nat /\ p <= Len(q)
      /\ DOMAIN r = 1 .. Len(q) - 1
      /\ \A i \in 1 .. Len(q) - 1 : r[i] = IF i < p THEN q[i] ELSE q[i + 1]
  BY LenProperties DEF Without
<1> DEFINE old(i) == IF i < p THEN i ELSE i + 1
<1>2. \A i \in 1 .. Len(q) - 1 : r[i] = q[old(i)] /\ old(i) \in 1 .. Len(q) /\ old(i) # p
  BY <1>1
<1>3. ASSUME NEW j \in 1 .. Len(q), j # p
      PROVE  \E i \in 1 .. Len(q) - 1 : old(i) = j
  <2>1. CASE j < p
    BY <1>1, <2>1
  <2>2. CASE ~ (j < p)
    <3>1. j - 1 \in 1 .. Len(q) - 1 /\ old(j - 1) = j
      BY <1>1, <1>3, <2>2
    <3> QED
      BY <3>1
  <2> QED
    BY <2>1, <2>2
<1>4. \A i, j \in 1 .. Len(q) - 1 : old(i) = old(j) => i = j
  BY <1>1
<1> HIDE DEF old
<1>5. IsInjective(r)
  BY <1>1, <1>2, <1>4 DEF IsInjective
<1>6. Range(r) \subseteq Range(q) \ {q[p]}
  <2>1. \A i \in 1 .. Len(q) - 1 : r[i] \in Range(q) /\ r[i] # q[p]
    BY <1>1, <1>2 DEF IsInjective, Range
  <2> QED
    BY <1>1, <2>1 DEF Range
<1>7. Range(q) \ {q[p]} \subseteq Range(r)
  <2> SUFFICES ASSUME NEW x \in Range(q), x # q[p]
               PROVE  x \in Range(r)
    OBVIOUS
  <2>1. PICK j \in 1 .. Len(q) : x = q[j]
    BY <1>1 DEF Range
  <2>2. PICK i \in 1 .. Len(q) - 1 : old(i) = j
    BY <1>3, <2>1
  <2>3. r[i] = x
    BY <1>2, <2>1, <2>2
  <2> QED
    BY <1>1, <2>3 DEF Range
<1> QED
  BY <1>5, <1>6, <1>7
-----------------------------------------------------------------------------
(* Every step keeps the invariant. *)

\* At start all lists are empty.
LEMMA PoolInit == Init => PoolInv
<1> SUFFICES ASSUME Init PROVE PoolInv
  OBVIOUS
<1>1. threads \in Nat \ {0} /\ 0 \in Selectors
  BY DEF Init, Selectors
<1>2. \A k \in Selectors : list[k] = <<>> /\ copy[k] = <<>>
  BY DEF Init
<1>3. Range(<<>>) = {} /\ IsInjective(<<>>) /\ Len(<<>>) = 0 /\ <<>> \in Seq(Sessions)
  BY EmptySeq DEF Range, IsInjective
<1>4. Types
  BY <1>1, <1>3 DEF Init, Types
<1>5. Created /\ OneHome /\ Once
  BY <1>2, <1>3 DEF Created, OneHome, Once, Has
<1>6. Removal
  BY DEF Init, Removal
<1>7. Complete
  <2>1. OnList = {}
    BY <1>2, <1>3 DEF OnList
  <2> QED
    BY <2>1 DEF Init, Complete, Leaving
<1>8. Even
  <2>1. \A k \in Selectors : Len(list[k]) = Turns(k, 0)
    BY <1>1, <1>2, <1>3 DEF Init, Turns, Selectors
  <2> QED
    BY <2>1 DEF Even
<1> QED
  BY <1>4, <1>5, <1>6, <1>7, <1>8 DEF PoolInv

\* The cursor goes around.
LEMMA CursorMoves ==
    ASSUME Types
    PROVE  /\ NextCursor \in Selectors
           /\ NextCursor = IF cursor = threads - 1 THEN 0 ELSE cursor + 1
<1>1. threads \in Nat \ {0} /\ cursor \in Nat /\ cursor <= threads - 1
  BY DEF Types, Selectors
<1>2. CASE threads = 1
  BY <1>1, <1>2 DEF NextCursor, Selectors
<1>3. CASE threads # 1 /\ cursor = threads - 1
  <2>1. (cursor + 1) % threads = 0
    BY <1>1, <1>3
  <2> QED
    BY <1>1, <1>3, <2>1 DEF NextCursor, Selectors
<1>4. CASE threads # 1 /\ cursor # threads - 1
  <2>1. (cursor + 1) % threads = cursor + 1
    BY <1>1, <1>4
  <2> QED
    BY <1>1, <1>4, <2>1 DEF NextCursor, Selectors
<1> QED
  BY <1>2, <1>3, <1>4

\* addSession puts a session that is on no list on one.
LEMMA AddKeeps ==
    ASSUME PoolInv, NEW s \in Sessions, AddSession(s)
    PROVE  PoolInv'
<1> DEFINE k == cursor
           longer == Append(list[k], s)
<1>1. /\ s \in fresh /\ removing = NoRemoval /\ k \in Selectors
      /\ list' = [list EXCEPT ![k] = longer]
      /\ cursor' = NextCursor /\ fresh' = fresh \ {s} /\ held' = held \cup {s}
      /\ threads' = threads /\ copy' = copy /\ removing' = removing
      /\ Selectors' = Selectors
  BY DEF AddSession, PoolInv, Types, Selectors
<1>2. /\ list \in [Selectors -> Seq(Sessions)] /\ list[k] \in Seq(Sessions)
      /\ fresh \subseteq Sessions /\ held \subseteq Sessions /\ held \cap fresh = {}
  BY <1>1 DEF PoolInv, Types
<1>3. /\ longer \in Seq(Sessions) /\ Len(longer) = Len(list[k]) + 1 /\ Len(list[k]) \in Nat
      /\ Range(longer) = Range(list[k]) \cup {s}
      /\ IsInjective(list[k]) /\ s \notin Range(list[k]) => IsInjective(longer)
  BY <1>2, Pushed
<1> HIDE DEF longer
<1>4. \A j \in Selectors : list'[j] = IF j = k THEN longer ELSE list[j]
  BY <1>1, <1>2
<1> HIDE DEF k
<1>5. \A j \in Selectors : s \notin Has(j)
  BY <1>1 DEF PoolInv, Created
<1>6. \A j \in Selectors : Has(j)' = Has(j) \cup (IF j = k THEN {s} ELSE {})
  BY <1>1, <1>3, <1>4 DEF Has
<1>7. Types'
  BY <1>1, <1>2, <1>3, CursorMoves DEF PoolInv, Types
<1>8. Removal'
  BY <1>1 DEF Removal, NoRemoval
<1>9. Created'
  BY <1>1, <1>6 DEF PoolInv, Created
<1>10. OneHome'
  BY <1>1, <1>5, <1>6 DEF PoolInv, OneHome
<1>11. Once'
  BY <1>1, <1>3, <1>4, <1>5 DEF PoolInv, Once, Has
<1>12. Complete'
  <2>1. OnList' = OnList \cup {s}
    BY <1>1, <1>3, <1>4 DEF OnList
  <2>2. Undamaged' => Undamaged
    BY <1>1, <1>2 DEF Undamaged
  <2> QED
    BY <1>1, <2>1, <2>2 DEF PoolInv, Complete, Leaving
<1>13. Even'
  <2> SUFFICES ASSUME held' \cup fresh' = Sessions
               PROVE  \E rounds \in Nat : \A j \in Selectors : Len(list'[j]) = Turns(j, rounds)'
    BY <1>1 DEF Even
  <2>1. PICK rounds \in Nat : \A j \in Selectors : Len(list[j]) = Turns(j, rounds)
    BY <1>1, <1>2 DEF PoolInv, Even
  <2>2. /\ threads \in Nat \ {0} /\ k \in 0 .. threads - 1 /\ cursor = k
        /\ cursor' = IF k = threads - 1 THEN 0 ELSE k + 1
    BY <1>1, CursorMoves DEF PoolInv, Types, Selectors, k
  <2>3. \A j \in Selectors : Len(list'[j]) = IF j = k THEN rounds + 1 ELSE Turns(j, rounds)
    BY <1>3, <1>4, <2>1, <2>2 DEF Turns
  <2>4. CASE k = threads - 1
    <3>1. \A j \in Selectors : Len(list'[j]) = Turns(j, rounds + 1)'
      BY <2>2, <2>3, <2>4 DEF Turns, Selectors
    <3> QED
      BY <3>1
  <2>5. CASE k # threads - 1
    <3>1. \A j \in Selectors : Len(list'[j]) = Turns(j, rounds)'
      BY <2>2, <2>3, <2>5 DEF Turns, Selectors
    <3> QED
      BY <3>1
  <2> QED
    BY <2>4, <2>5
<1> QED
  BY <1>7, <1>8, <1>9, <1>10, <1>11, <1>12, <1>13 DEF PoolInv

\* removeSession begins: all selectors are still to be asked.
LEMMA RemoveKeeps ==
    ASSUME PoolInv, NEW s \in Sessions, RemoveSession(s)
    PROVE  PoolInv'
<1>1. /\ removing = NoRemoval /\ s \in held
      /\ removing' = [session |-> s, left |-> Selectors] /\ held' = held \ {s}
      /\ threads' = threads /\ list' = list /\ copy' = copy /\ cursor' = cursor
      /\ fresh' = fresh /\ Selectors' = Selectors
  BY DEF RemoveSession, Selectors
<1>2. /\ threads \in Nat \ {0} /\ Selectors # {} /\ held \cap fresh = {} /\ held \subseteq Sessions
  BY DEF PoolInv, Types, Selectors
<1>3. Types' /\ Created' /\ OneHome' /\ Once'
  BY <1>1 DEF PoolInv, Types, Created, OneHome, Once, Has
<1>4. Removal'
  <2>1. /\ s \in Sessions \ (held' \cup fresh')
        /\ Selectors \in (SUBSET Selectors) \ {{}}
    BY <1>1, <1>2
  <2>2. [session |-> s, left |-> Selectors]
            \in [session : Sessions \ (held' \cup fresh'), left : (SUBSET Selectors) \ {{}}]
    BY <2>1
  <2> QED
    BY <1>1, <2>2 DEF Removal
<1>5. s \notin held' \cup fresh'
  BY <1>1, <1>2
<1>6. Even'
  BY <1>5 DEF Even
<1>7. Complete'
  <2>1. OnList' = OnList
    BY <1>1 DEF OnList
  <2>2. Leaving = {} /\ Leaving' = {s}
    BY <1>1, <1>2 DEF Leaving, NoRemoval
  <2>3. Undamaged' => Undamaged
    BY <1>1, <1>5 DEF Undamaged
  <2> QED
    BY <1>1, <2>1, <2>2, <2>3 DEF PoolInv, Complete
<1> QED
  BY <1>3, <1>4, <1>6, <1>7 DEF PoolInv

\* A selector is asked to remove the session.
LEMMA RemoveFromKeeps ==
    ASSUME PoolInv, NEW k \in Selectors, RemoveFrom(k)
    PROVE  PoolInv'
<1>1. /\ k \in removing.left
      /\ removing' = IF removing.left = {k} THEN NoRemoval
                     ELSE [removing EXCEPT !.left = @ \ {k}]
      /\ threads' = threads /\ copy' = copy /\ cursor' = cursor /\ fresh' = fresh
      /\ held' = held /\ Selectors' = Selectors
  BY DEF RemoveFrom, Selectors
<1>2. /\ list \in [Selectors -> Seq(Sessions)] /\ list[k] \in Seq(Sessions)
      /\ IsInjective(list[k])
  BY DEF PoolInv, Types, Once
<1>3. removing \in [session : Sessions \ (held \cup fresh), left : (SUBSET Selectors) \ {{}}]
  BY <1>1 DEF PoolInv, Removal, NoRemoval
<1>4. removing.session \in Sessions /\ removing.session \notin held \cup fresh
  BY <1>3
<1>5. Removal'
  <2>1. CASE removing.left = {k}
    BY <1>1, <2>1 DEF Removal, NoRemoval
  <2>2. CASE removing.left # {k}
    BY <1>1, <1>3, <2>2 DEF Removal
  <2> QED
    BY <2>1, <2>2
<1>6. Even'
  BY <1>1, <1>4 DEF Even
<1>7. CASE list[k] = <<>>
  <2>1. list' = list
    BY <1>7 DEF RemoveFrom
  <2>2. Types' /\ Created' /\ OneHome' /\ Once'
    BY <1>1, <2>1 DEF PoolInv, Types, Created, OneHome, Once, Has
  <2>3. ~ Undamaged'
    <3>1. CASE threads = 1
      <4>1. Selectors = {k}
        BY <3>1 DEF Selectors
      <4>2. OnList = {}
        BY <1>7, <4>1, EmptySeq DEF OnList, Range
      <4>3. Leaving # {} /\ Undamaged
        BY <1>1, <3>1 DEF Leaving, NoRemoval, Undamaged
      <4> QED
        BY <4>2, <4>3 DEF PoolInv, Complete
    <3>2. CASE threads # 1
      BY <1>1, <1>4, <3>2 DEF Undamaged
    <3> QED
      BY <3>1, <3>2
  <2> QED
    BY <1>5, <1>6, <2>2, <2>3 DEF PoolInv, Complete
<1>8. CASE list[k] # <<>>
  <2> DEFINE q == list[k]
             r == EraseFound(q, removing.session)
  <2>1. list' = [list EXCEPT ![k] = r]
    BY <1>8 DEF RemoveFrom
  <2>2. PICK p \in 1 .. Len(q) : (removing.session \in Range(q) => q[p] = removing.session)
                                 /\ Without(r, q, p)
    BY <1>2, <1>8, Erased
  <2> HIDE DEF r
  <2>3. r \in Seq(Sessions) /\ Range(r) = Range(q) \ {q[p]} /\ IsInjective(r)
    BY <1>2, <2>2, Kept DEF Without
  <2>4. \A j \in Selectors : list'[j] = IF j = k THEN r ELSE list[j]
    BY <1>2, <2>1
  <2>5. Types'
    BY <1>1, <1>2, <2>1, <2>3 DEF PoolInv, Types
  <2>6. \A j \in Selectors : Has(j)' \subseteq Has(j)
    BY <1>1, <2>3, <2>4 DEF Has
  <2>7. Created' /\ OneHome' /\ Once'
    BY <1>1, <2>3, <2>4, <2>6 DEF PoolInv, Created, OneHome, Once
  <2>8. Complete'
    <3> SUFFICES ASSUME threads = 1
                 PROVE  OnList' = held' \cup Leaving'
      BY <1>1, <1>4 DEF Complete, Undamaged
    <3>1. Selectors = {k}
      BY DEF Selectors
    <3>2. OnList = Range(q) /\ OnList' = Range(r)
      BY <1>1, <2>4, <3>1 DEF OnList
    <3>3. removing.left = {k} /\ Leaving = {removing.session} /\ Leaving' = {}
      BY <1>1, <1>3, <3>1 DEF Leaving, NoRemoval
    <3>4. Range(q) = held \cup {removing.session}
      BY <3>2, <3>3 DEF PoolInv, Complete, Undamaged
    <3> QED
      BY <1>1, <1>4, <2>2, <2>3, <3>2, <3>3, <3>4
  <2> QED
    BY <1>5, <1>6, <2>5, <2>7, <2>8 DEF PoolInv
<1> QED
  BY <1>7, <1>8

\* A selector thread takes its copy.
LEMMA SyncKeeps ==
    ASSUME PoolInv, NEW k \in Selectors, Sync(k)
    PROVE  PoolInv'
<1>1. /\ copy' = [copy EXCEPT ![k] = list[k]]
      /\ threads' = threads /\ list' = list /\ cursor' = cursor /\ fresh' = fresh
      /\ held' = held /\ removing' = removing /\ Selectors' = Selectors
  BY DEF Sync, Selectors
<1>2. copy \in [Selectors -> Seq(Sessions)] /\ list[k] \in Seq(Sessions)
  BY DEF PoolInv, Types
<1>3. \A j \in Selectors : Has(j)' \subseteq Has(j)
  BY <1>1, <1>2 DEF Has
<1>4. Types' /\ Once' /\ Removal'
  BY <1>1, <1>2 DEF PoolInv, Types, Once, Removal
<1>5. Created' /\ OneHome'
  BY <1>1, <1>3 DEF PoolInv, Created, OneHome
<1>6. Complete' /\ Even'
  BY <1>1 DEF PoolInv, Complete, Undamaged, OnList, Leaving, Even, Turns
<1> QED
  BY <1>4, <1>5, <1>6 DEF PoolInv

\* PoolInv is inductive.
LEMMA PoolStep == PoolInv /\ [Next]_vars => PoolInv'
<1> SUFFICES ASSUME PoolInv, [Next]_vars
             PROVE  PoolInv'
  OBVIOUS
<1>1. CASE UNCHANGED vars
  <2>1. Selectors' = Selectors
    BY <1>1 DEF vars, Selectors
  <2>2. Types' /\ Removal'
    BY <1>1, <2>1 DEF vars, PoolInv, Types, Removal
  <2>3. Created' /\ OneHome' /\ Once'
    BY <1>1, <2>1 DEF vars, PoolInv, Created, OneHome, Once, Has
  <2>4. Complete' /\ Even'
    BY <1>1, <2>1 DEF vars, PoolInv, Complete, Undamaged, OnList, Leaving, Even, Turns
  <2> QED
    BY <2>2, <2>3, <2>4 DEF PoolInv
<1>2. CASE SignalReceived
  <2>1. UNCHANGED <<threads, list, copy, needSync, cursor, fresh, held, removing>>
        /\ Selectors' = Selectors
    BY <1>2 DEF SignalReceived, Selectors
  <2>2. Types' /\ Removal'
    BY <2>1 DEF PoolInv, Types, Removal
  <2>3. Created' /\ OneHome' /\ Once'
    BY <2>1 DEF PoolInv, Created, OneHome, Once, Has
  <2>4. Complete' /\ Even'
    BY <2>1 DEF PoolInv, Complete, Undamaged, OnList, Leaving, Even, Turns
  <2> QED
    BY <2>2, <2>3, <2>4 DEF PoolInv
<1> QED
  BY <1>1, <1>2, AddKeeps, RemoveKeeps, RemoveFromKeeps, SyncKeeps DEF Next
-----------------------------------------------------------------------------

\* Lists that share nothing and repeat nothing serve each session once.
LEMMA ServedOnceFollows == PoolInv => ServedOnce
<1> SUFFICES ASSUME PoolInv, Undamaged, removing = NoRemoval, NEW s \in Sessions
             PROVE  Copies(s, list) = IF s \in held THEN 1 ELSE 0
  BY DEF ServedOnce
<1>1. /\ DOMAIN list = Selectors
      /\ \A k \in Selectors : IsInjective(list[k])
      /\ \A j, k \in Selectors : j # k => Range(list[j]) \cap Range(list[k]) = {}
      /\ UNION {Range(list[k]) : k \in Selectors} = held
  BY DEF PoolInv, Types, Once, OneHome, Has, Complete, OnList, Leaving
<1> DEFINE spots == {p \in UNION {{k} \X DOMAIN list[k] : k \in Selectors} :
                        list[p[1]][p[2]] = s}
<1>2. Copies(s, list) = Cardinality(spots)
  BY <1>1 DEF Copies
<1>3. CASE s \notin held
  <2>1. spots = {}
    BY <1>1, <1>3 DEF Range
  <2> QED
    BY <1>2, <1>3, <2>1, FS_EmptySet
<1>4. CASE s \in held
  <2>1. PICK k \in Selectors : s \in Range(list[k])
    BY <1>1, <1>4
  <2>2. PICK i \in DOMAIN list[k] : list[k][i] = s
    BY <2>1 DEF Range
  <2>3. <<k, i>> \in spots
    BY <2>1, <2>2
  <2>4. ASSUME NEW p \in spots
        PROVE  p = <<k, i>>
    <3>1. PICK j \in Selectors : p \in {j} \X DOMAIN list[j]
      OBVIOUS
    <3>2. p = <<j, p[2]>> /\ p[2] \in DOMAIN list[j] /\ list[j][p[2]] = s
      BY <3>1
    <3>3. s \in Range(list[j])
      BY <3>2 DEF Range
    <3>4. j = k
      BY <1>1, <2>1, <3>3
    <3> QED
      BY <1>1, <2>2, <3>2, <3>4 DEF IsInjective
  <2>5. spots = {<<k, i>>}
    BY <2>3, <2>4
  <2> QED
    BY <1>2, <1>4, <2>5, FS_Singleton
<1> QED
  BY <1>3, <1>4

\* Whatever clients come and go, a session a client holds is on one selector's
\* list, once, and a removed one on none, as long as no list was damaged by the
\* erase of end() (IRCSelectorPool::addSession and removeSession).
THEOREM PoolServedOnce == Spec => []ServedOnce
<1>1. Spec => []PoolInv
  BY PoolInit, PoolStep, PTL DEF Spec
<1> QED
  BY <1>1, ServedOnceFollows, PTL

\* Until a session is removed, no selector has two sessions more than another,
\* however many there are of either (getNextSelectorRoundRobin).
THEOREM PoolSpread == Spec => []Spread
<1>1. Spec => []PoolInv
  BY PoolInit, PoolStep, PTL DEF Spec
<1>2. PoolInv => Spread
  BY DEF PoolInv, Types, Even, Turns, Spread
<1> QED
  BY <1>1, <1>2, PTL

\* Even when removals have damaged the lists, no two selector threads have one
\* session in their copies at the same time (IRCSelector::run).
THEOREM PoolOneThread == Spec => []OneThread
<1>1. Spec => []PoolInv
  BY PoolInit, PoolStep, PTL DEF Spec
<1>2. PoolInv => OneThread
  BY DEF PoolInv, OneHome, Has, OneThread
<1> QED
  BY <1>1, <1>2, PTL
=============================================================================
