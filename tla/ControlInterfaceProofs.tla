----------------------- MODULE ControlInterfaceProofs -----------------------
(***************************************************************************)
(* For any number of connections, requests and events: every request that  *)
(* was read has one owner until it is answered, answers keep their order,  *)
(* the server is stopped behind its last reply, and what is counted is     *)
(* reported once or not yet.                                               *)
(***************************************************************************)
EXTENDS ControlInterface, FiniteSetTheorems, SequenceTheorems, TLAPS

IsQueue(q) == q \in Seq(Range(q))

\* The request a message is about
Number(m) == IF m.what = "request" THEN m.n ELSE m.answer.n

Types ==
    /\ IsQueue(main) /\ IsQueue(mail)
    /\ agent \in [Agents -> {"up", "leaving", "finished", "gone"}]
    /\ conn \in [Connections -> {"none", "reading", "handling", "writing", "closed", "undefined"}]
    /\ read \in [Connections -> Nat] /\ got \in [Connections -> Nat]
    /\ out = [c \in Connections |-> out[c]]

\* Some message of a queue is about a session.
Claims(q, c) == \E i \in DOMAIN q : Carries(q[i], c)

\* A message about a session is about the last request it has read, which is
\* being handled, and no queue has two of one session.
Single(q, cn, rd) ==
    /\ \A i \in DOMAIN q : q[i].what \in {"request", "reply"} => q[i].conn \in Connections
    /\ \A i \in DOMAIN q, c \in Connections :
           Carries(q[i], c) => cn[c] = "handling" /\ Number(q[i]) = rd[c]
    /\ \A i, j \in DOMAIN q, c \in Connections : Carries(q[i], c) /\ Carries(q[j], c) => i = j

\* A session that waits is in one of the two queues, and not in both.
Owned(p, q, cn) ==
    \A c \in Connections :
        /\ ~ (Claims(p, c) /\ Claims(q, c))
        /\ cn[c] = "handling" => Claims(p, c) \/ Claims(q, c)

Good(p, q, cn, rd) == Single(p, cn, rd) /\ Single(q, cn, rd) /\ Owned(p, q, cn)

\* A session has read one request more than its client has answers while it
\* handles or writes.
Numbered ==
    \A c \in Connections :
        /\ conn[c] \in {"none", "reading"} => got[c] = read[c]
        /\ conn[c] \in {"handling", "writing"} => read[c] = got[c] + 1
        /\ conn[c] = "writing" => out[c].n = read[c]

\* so_evt_finish of HttpController comes behind every reply.
Over == {"finished", "gone"}
IsReply(m) == m.what = "reply"
IsLast(m) == m.what = "finish" /\ m.to = "HttpController"

Ordered(q, state) ==
    /\ state \in Over => \A i \in DOMAIN q : ~ IsReply(q[i])
    /\ state = "up" => \A i \in DOMAIN q : ~ IsLast(q[i])
    /\ \A i, j \in DOMAIN q : i < j /\ IsLast(q[i]) => ~ IsReply(q[j])

InterfaceInv ==
    /\ Types /\ Numbered
    /\ Good(main, mail, conn, read)
    /\ Ordered(main, agent["HttpController"])
    /\ ioc # "running" => agent["HttpController"] \in Over
-----------------------------------------------------------------------------
(* The two queues *)

\* What is in a queue a message was put into.
LEMMA Pushed ==
    ASSUME NEW q, IsQueue(q), NEW m
    PROVE  /\ IsQueue(Append(q, m))
           /\ Len(q) \in Nat /\ DOMAIN q = 1 .. Len(q)
           /\ DOMAIN Append(q, m) = 1 .. Len(q) + 1
           /\ \A i \in 1 .. Len(q) : Append(q, m)[i] = q[i]
           /\ Append(q, m)[Len(q) + 1] = m
<1> DEFINE S == Range(q) \cup {m}
<1>1. q \in Seq(S)
  BY SeqMonotonic DEF IsQueue
<1>2. /\ Len(q) \in Nat /\ DOMAIN q = 1 .. Len(q)
      /\ Append(q, m) \in Seq(S)
      /\ DOMAIN Append(q, m) = 1 .. Len(q) + 1
      /\ \A i \in 1 .. Len(q) : Append(q, m)[i] = q[i]
      /\ Append(q, m)[Len(q) + 1] = m
  BY <1>1, AppendProperties, LenProperties
<1>3. Range(Append(q, m)) = S
  BY <1>2 DEF Range
<1> QED
  BY <1>2, <1>3 DEF IsQueue

\* What is left of a queue whose head was taken.
LEMMA Popped ==
    ASSUME NEW q, IsQueue(q), q # <<>>
    PROVE  /\ IsQueue(Tail(q)) /\ Head(q) = q[1]
           /\ Len(q) \in Nat /\ Len(q) >= 1 /\ DOMAIN q = 1 .. Len(q)
           /\ DOMAIN Tail(q) = 1 .. Len(q) - 1
           /\ \A i \in 1 .. Len(q) - 1 : Tail(q)[i] = q[i + 1]
<1> DEFINE S == Range(q)
<1>1. q \in Seq(S)
  BY DEF IsQueue
<1>2. /\ Len(q) \in Nat /\ DOMAIN q = 1 .. Len(q) /\ Len(q) # 0
  BY <1>1, LenProperties, EmptySeq
<1>3. /\ Tail(q) \in Seq(S) /\ Len(Tail(q)) = Len(q) - 1
      /\ \A i \in 1 .. Len(Tail(q)) : Tail(q)[i] = q[i + 1]
  BY <1>1, HeadTailProperties
<1>4. Head(q) = q[1]
  BY <1>1
<1> DEFINE r == Tail(q)
<1>5. r \in Seq(S) /\ DOMAIN r = 1 .. Len(q) - 1
  BY <1>3, LenProperties
<1> HIDE DEF r
<1>6. r \in Seq(Range(r))
  <2>1. \A i \in 1 .. Len(r) : r[i] \in Range(r)
    BY <1>5, LenProperties DEF Range
  <2>2. Len(r) \in Nat /\ r = [i \in 1 .. Len(r) |-> r[i]]
    BY <1>5, LenProperties
  <2>3. r \in [1 .. Len(r) -> Range(r)]
    BY <2>1, <2>2
  <2> QED
    BY <2>2, <2>3
<1> QED
  BY <1>2, <1>3, <1>4, <1>5, <1>6 DEF IsQueue, r

\* A message put into a queue takes over the claims it carries.
LEMMA PutIn ==
    ASSUME NEW q, IsQueue(q), NEW m, NEW cn, NEW rd, Single(q, cn, rd),
           m.what \in {"request", "reply"} => m.conn \in Connections,
           \A c \in Connections :
               Carries(m, c) => cn[c] = "handling" /\ Number(m) = rd[c] /\ ~ Claims(q, c)
    PROVE  /\ IsQueue(Append(q, m)) /\ Single(Append(q, m), cn, rd)
           /\ \A c \in Connections : Claims(Append(q, m), c) <=> Claims(q, c) \/ Carries(m, c)
<1> DEFINE longer == Append(q, m)
<1>1. /\ IsQueue(longer)
      /\ Len(q) \in Nat /\ DOMAIN q = 1 .. Len(q) /\ DOMAIN longer = 1 .. Len(q) + 1
      /\ \A i \in 1 .. Len(q) : longer[i] = q[i]
      /\ longer[Len(q) + 1] = m
  BY Pushed
<1> HIDE DEF longer
<1>2. ASSUME NEW i \in DOMAIN longer
      PROVE  (i \in DOMAIN q /\ longer[i] = q[i]) \/ (longer[i] = m /\ i = Len(q) + 1)
  <2>1. i \in 1 .. Len(q) \/ i = Len(q) + 1
    BY <1>1
  <2> QED
    BY <1>1, <2>1
<1>3. \A i \in DOMAIN q : i \in DOMAIN longer /\ longer[i] = q[i]
  BY <1>1
<1>4. Len(q) + 1 \in DOMAIN longer
  BY <1>1
<1>5. \A c \in Connections : Claims(longer, c) <=> Claims(q, c) \/ Carries(m, c)
  BY <1>1, <1>2, <1>3, <1>4 DEF Claims
<1>6. ASSUME NEW i \in DOMAIN longer, NEW j \in DOMAIN longer, NEW c \in Connections,
             Carries(longer[i], c), Carries(longer[j], c)
      PROVE  i = j
  BY <1>2, <1>6 DEF Claims, Single
<1>7. Single(longer, cn, rd)
  BY <1>2, <1>6 DEF Single
<1> QED
  BY <1>1, <1>5, <1>7 DEF longer

\* A message taken from a queue takes its claims along.
LEMMA TakeOut ==
    ASSUME NEW q, IsQueue(q), q # <<>>, NEW cn, NEW rd, Single(q, cn, rd)
    PROVE  /\ IsQueue(Tail(q)) /\ Single(Tail(q), cn, rd)
           /\ \A c \in Connections : Claims(q, c) <=> Claims(Tail(q), c) \/ Carries(Head(q), c)
           /\ Head(q).what \in {"request", "reply"} => Head(q).conn \in Connections
           /\ \A c \in Connections :
                  Carries(Head(q), c) =>
                      cn[c] = "handling" /\ Number(Head(q)) = rd[c] /\ ~ Claims(Tail(q), c)
<1> DEFINE shorter == Tail(q)
<1>1. /\ IsQueue(shorter) /\ Head(q) = q[1]
      /\ Len(q) \in Nat /\ Len(q) >= 1 /\ DOMAIN q = 1 .. Len(q)
      /\ DOMAIN shorter = 1 .. Len(q) - 1
      /\ \A i \in 1 .. Len(q) - 1 : shorter[i] = q[i + 1]
  BY Popped
<1> HIDE DEF shorter
<1>2. \A i \in DOMAIN shorter : i + 1 \in DOMAIN q /\ i + 1 # 1 /\ shorter[i] = q[i + 1]
  BY <1>1
<1>3. \A i \in DOMAIN q : i = 1 \/ \E j \in DOMAIN shorter : shorter[j] = q[i]
  <2> SUFFICES ASSUME NEW i \in DOMAIN q, i # 1
               PROVE  \E j \in DOMAIN shorter : shorter[j] = q[i]
    OBVIOUS
  <2>1. i - 1 \in DOMAIN shorter /\ (i - 1) + 1 = i
    BY <1>1
  <2> QED
    BY <1>2, <2>1
<1>4. 1 \in DOMAIN q
  BY <1>1
<1>5. \A c \in Connections : Claims(q, c) <=> Claims(shorter, c) \/ Carries(Head(q), c)
  BY <1>1, <1>2, <1>3, <1>4 DEF Claims
<1>6. ASSUME NEW i \in DOMAIN shorter, NEW j \in DOMAIN shorter, NEW c \in Connections,
             Carries(shorter[i], c), Carries(shorter[j], c)
      PROVE  i = j
  <2>1. i + 1 = j + 1
    BY <1>2, <1>6 DEF Single
  <2> QED
    BY <1>1, <2>1
<1>7. Single(shorter, cn, rd)
  BY <1>2, <1>6 DEF Single
<1>8. \A c \in Connections :
          Carries(Head(q), c) =>
              cn[c] = "handling" /\ Number(Head(q)) = rd[c] /\ ~ Claims(shorter, c)
  BY <1>1, <1>2, <1>4 DEF Single, Claims
<1> QED
  BY <1>1, <1>4, <1>5, <1>7, <1>8 DEF shorter, Single

\* Sessions that no message is about may change.
LEMMA Others ==
    ASSUME NEW q, NEW cn, NEW rd, NEW cn2, NEW rd2, Single(q, cn, rd),
           \A c \in Connections : Claims(q, c) => cn2[c] = cn[c] /\ rd2[c] = rd[c]
    PROVE  Single(q, cn2, rd2)
BY DEF Single, Claims

\* A reply may be put in while the agent is up, the last message when it leaves.
LEMMA OrderedPut ==
    ASSUME NEW q, IsQueue(q), NEW state, Ordered(q, state), NEW m,
           IsReply(m) => state = "up", IsLast(m) => state = "leaving"
    PROVE  Ordered(Append(q, m), state)
<1> DEFINE longer == Append(q, m)
<1>1. /\ Len(q) \in Nat /\ DOMAIN q = 1 .. Len(q) /\ DOMAIN longer = 1 .. Len(q) + 1
      /\ \A i \in 1 .. Len(q) : longer[i] = q[i]
      /\ longer[Len(q) + 1] = m
  BY Pushed
<1> HIDE DEF longer
<1>2. ASSUME NEW i \in DOMAIN longer
      PROVE  (i \in DOMAIN q /\ longer[i] = q[i]) \/ (longer[i] = m /\ i = Len(q) + 1)
  <2>1. i \in 1 .. Len(q) \/ i = Len(q) + 1
    BY <1>1
  <2> QED
    BY <1>1, <2>1
<1>3. ASSUME NEW i \in DOMAIN longer, NEW j \in DOMAIN longer, i < j, IsLast(longer[i])
      PROVE  ~ IsReply(longer[j])
  <2>1. i \in DOMAIN q /\ longer[i] = q[i]
    BY <1>1, <1>2, <1>3
  <2> QED
    BY <1>2, <1>3, <2>1 DEF Ordered
<1>4. Ordered(longer, state)
  BY <1>2, <1>3 DEF Ordered, Over
<1> QED
  BY <1>4 DEF longer

\* Taking a message keeps the order; behind the last comes no reply.
LEMMA OrderedTake ==
    ASSUME NEW q, IsQueue(q), q # <<>>, NEW state, Ordered(q, state)
    PROVE  /\ Ordered(Tail(q), state)
           /\ IsLast(Head(q)) => Ordered(Tail(q), "finished")
           /\ IsReply(Head(q)) => state \notin Over
<1> DEFINE shorter == Tail(q)
<1>1. /\ Head(q) = q[1] /\ Len(q) \in Nat /\ Len(q) >= 1 /\ DOMAIN q = 1 .. Len(q)
      /\ DOMAIN shorter = 1 .. Len(q) - 1
      /\ \A i \in 1 .. Len(q) - 1 : shorter[i] = q[i + 1]
  BY Popped
<1> HIDE DEF shorter
<1>2. \A i \in DOMAIN shorter : i + 1 \in DOMAIN q /\ 1 < i + 1 /\ shorter[i] = q[i + 1]
  BY <1>1
<1>3. 1 \in DOMAIN q /\ \A i, j \in DOMAIN shorter : i < j => i + 1 < j + 1
  BY <1>1
<1>4. Ordered(shorter, state)
  BY <1>2, <1>3 DEF Ordered
<1>5. IsLast(Head(q)) => Ordered(shorter, "finished")
  BY <1>1, <1>2, <1>3 DEF Ordered, Over
<1>6. IsReply(Head(q)) => state \notin Over
  BY <1>1, <1>3 DEF Ordered
<1> QED
  BY <1>4, <1>5, <1>6 DEF shorter
-----------------------------------------------------------------------------
(* Every step keeps the invariant. *)

\* At start there is no message and no connection.
LEMMA InterfaceInit == Init => InterfaceInv
<1> SUFFICES ASSUME Init PROVE InterfaceInv
  OBVIOUS
<1>1. /\ ioc = "running" /\ conn = [c \in Connections |-> "none"]
      /\ read = [c \in Connections |-> 0] /\ got = read
      /\ out = [c \in Connections |-> NoAnswer]
      /\ agent = [a \in Agents |-> "up"] /\ main = <<>> /\ mail = <<>>
  BY DEF Init, Http!Init
<1>2. IsQueue(<<>>) /\ DOMAIN <<>> = {}
  BY EmptySeq DEF IsQueue
<1>3. Types /\ Numbered
  BY <1>1, <1>2 DEF Types, Numbered
<1>4. Good(main, mail, conn, read)
  BY <1>1, <1>2 DEF Good, Single, Owned, Claims
<1>5. Ordered(main, agent["HttpController"])
  BY <1>1, <1>2 DEF Ordered
<1> QED
  BY <1>1, <1>3, <1>4, <1>5 DEF InterfaceInv

\* Steps that change the state of one session no message is about
LEMMA SessionKeeps ==
    ASSUME InterfaceInv, NEW c \in Connections, conn[c] # "handling",
           UNCHANGED <<main, mail, agent, read>>, ioc' = ioc,
           NEW state \in {"reading", "writing", "closed", "undefined"},
           conn' = [conn EXCEPT ![c] = state],
           got' \in [Connections -> Nat], \A d \in Connections : d # c => got'[d] = got[d],
           out' = [d \in Connections |-> out'[d]],
           \A d \in Connections : d # c => out'[d] = out[d],
           state = "reading" => got'[c] = read[c],
           state = "writing" => read[c] = got'[c] + 1 /\ out'[c].n = read[c]
    PROVE  InterfaceInv'
<1>1. Types' /\ Numbered'
  BY DEF InterfaceInv, Types, Numbered
<1>2. \A d \in Connections : Claims(main, d) \/ Claims(mail, d) => conn[d] = "handling"
  BY DEF InterfaceInv, Good, Single, Claims
<1>3. \A d \in Connections : conn'[d] = IF d = c THEN state ELSE conn[d]
  BY DEF InterfaceInv, Types
<1>4. Single(main, conn', read) /\ Single(mail, conn', read)
  <2>1. /\ \A d \in Connections : Claims(main, d) => conn'[d] = conn[d] /\ read[d] = read[d]
        /\ \A d \in Connections : Claims(mail, d) => conn'[d] = conn[d] /\ read[d] = read[d]
    BY <1>2, <1>3
  <2>2. Single(main, conn, read) /\ Single(mail, conn, read)
    BY DEF InterfaceInv, Good
  <2> QED
    BY <2>1, <2>2, Others
<1>5. Owned(main, mail, conn')
  BY <1>3 DEF InterfaceInv, Good, Owned
<1> QED
  BY <1>1, <1>4, <1>5 DEF InterfaceInv, Good

\* accept, write, break and close keep the invariant.
LEMMA ServerKeeps == InterfaceInv /\ ServerStep => InterfaceInv'
<1> SUFFICES ASSUME InterfaceInv, ServerStep
             PROVE  InterfaceInv'
  OBVIOUS
<1>1. /\ conn \in [Connections -> {"none", "reading", "handling", "writing", "closed", "undefined"}]
      /\ read \in [Connections -> Nat] /\ got \in [Connections -> Nat]
      /\ out = [c \in Connections |-> out[c]]
      /\ Numbered
  BY DEF InterfaceInv, Types
<1>2. ASSUME NEW c \in Connections, FinishWrite(c)
      PROVE  InterfaceInv'
  <2>1. /\ conn[c] = "writing" /\ UNCHANGED <<main, mail, agent, read>> /\ ioc' = ioc
        /\ out' = [out EXCEPT ![c] = NoAnswer]
        /\ \/ conn' = [conn EXCEPT ![c] = "closed"] /\ got' = got
           \/ /\ got' = [got EXCEPT ![c] = @ + 1]
              /\ \/ conn' = [conn EXCEPT ![c] = "reading"]
                 \/ conn' = [conn EXCEPT ![c] = "closed"]
    BY <1>2 DEF FinishWrite, Http!OnWrite, Http!Become
  <2>2. read[c] = got[c] + 1
    BY <1>1, <2>1 DEF Numbered
  <2>3. /\ got' \in [Connections -> Nat] /\ \A d \in Connections : d # c => got'[d] = got[d]
        /\ out' = [d \in Connections |-> out'[d]]
        /\ \A d \in Connections : d # c => out'[d] = out[d]
    <3>1. /\ out' = [d \in Connections |-> out'[d]]
          /\ \A d \in Connections : d # c => out'[d] = out[d]
      BY <1>1, <2>1
    <3>2. got[c] + 1 \in Nat
      BY <1>1
    <3>3. got' = got \/ got' = [got EXCEPT ![c] = @ + 1]
      BY <2>1
    <3>4. got' \in [Connections -> Nat] /\ \A d \in Connections : d # c => got'[d] = got[d]
      BY <1>1, <3>2, <3>3
    <3> QED
      BY <3>1, <3>4
  <2>4. CASE conn' = [conn EXCEPT ![c] = "closed"]
    BY <2>1, <2>3, <2>4, SessionKeeps
  <2>5. CASE conn' = [conn EXCEPT ![c] = "reading"] /\ got' = [got EXCEPT ![c] = @ + 1]
    <3>1. got'[c] = read[c]
      BY <1>1, <2>2, <2>5
    <3> QED
      BY <2>1, <2>3, <2>5, <3>1, SessionKeeps
  <2> QED
    BY <2>1, <2>4, <2>5
<1>3. ASSUME UNCHANGED <<main, mail, agent, conn, read, got, out, ioc>>
      PROVE  InterfaceInv'
  BY <1>3 DEF InterfaceInv, Types, Numbered
<1>4. ASSUME NEW c \in Connections, UNCHANGED <<main, mail, agent>>,
             Http!Accept(c) \/ Http!EndOfStream(c)
      PROVE  InterfaceInv'
  <2>1. /\ ioc' = ioc /\ UNCHANGED <<read, got, out>>
        /\ \/ conn' = conn
           \/ conn[c] = "none" /\ conn' = [conn EXCEPT ![c] = "reading"]
           \/ conn[c] = "reading" /\ conn' = [conn EXCEPT ![c] = "closed"]
    BY <1>4 DEF Http!Accept, Http!EndOfStream, Http!Become
  <2>2. CASE conn' = conn
    BY <1>3, <1>4, <2>1, <2>2
  <2>3. CASE conn[c] = "none" /\ conn' = [conn EXCEPT ![c] = "reading"]
    <3>1. got[c] = read[c]
      BY <1>1, <2>3 DEF Numbered
    <3>2. /\ got' \in [Connections -> Nat] /\ \A d \in Connections : d # c => got'[d] = got[d]
          /\ out' = [d \in Connections |-> out'[d]]
          /\ \A d \in Connections : d # c => out'[d] = out[d]
          /\ got'[c] = read[c] /\ read' = read
      BY <1>1, <2>1, <3>1
    <3> QED
      BY <1>4, <2>1, <2>3, <3>2, SessionKeeps
  <2>4. CASE conn[c] = "reading" /\ conn' = [conn EXCEPT ![c] = "closed"]
    BY <1>1, <1>4, <2>1, <2>4, SessionKeeps
  <2> QED
    BY <2>1, <2>2, <2>3, <2>4
<1>5. CASE Http!QuietStep /\ UNCHANGED <<main, mail, agent>>
  <2>1. CASE Http!AcceptFails
    BY <1>3, <1>5, <2>1 DEF Http!AcceptFails
  <2> QED
    BY <1>4, <1>5, <2>1 DEF Http!QuietStep
<1> QED
  BY <1>2, <1>5 DEF ServerStep

\* onRead hands the request to an agent or answers it.
LEMMA ReadKeeps ==
    ASSUME InterfaceInv, NEW c \in Connections, NEW r \in Requests, ReadRequest(c, r)
    PROVE  InterfaceInv'
<1> DEFINE n == read[c] + 1
<1>1. /\ conn \in [Connections -> {"none", "reading", "handling", "writing", "closed", "undefined"}]
      /\ read \in [Connections -> Nat] /\ got \in [Connections -> Nat]
      /\ out = [d \in Connections |-> out[d]]
      /\ IsQueue(main) /\ IsQueue(mail) /\ Numbered
      /\ agent \in [Agents -> {"up", "leaving", "finished", "gone"}]
  BY DEF InterfaceInv, Types
<1>2. /\ conn[c] = "reading" /\ ioc = "running" /\ ioc' = ioc
      /\ read' = [read EXCEPT ![c] = n] /\ got' = got /\ agent' = agent
      /\ \/ /\ conn' = [conn EXCEPT ![c] = "writing"]
            /\ out' = [out EXCEPT ![c] = Answer(n, r, NoReport)]
            /\ main' = main /\ mail' = mail
         \/ /\ conn' = [conn EXCEPT ![c] = "handling"] /\ out' = out
            /\ \/ main' = Append(main, Request("Controller", c, n, r)) /\ mail' = mail
               \/ mail' = Append(mail, Request(Http!Handler(r.path), c, n, r)) /\ main' = main
         \/ /\ conn' = [conn EXCEPT ![c] = "closed"] /\ out' = out
            /\ main' = main /\ mail' = mail
  BY DEF ReadRequest, Http!OnRead, Http!Write, Http!Become, Http!WhileHandled, Http!Release,
         Http!Released
<1>3. n \in Nat /\ got[c] = read[c] /\ read'[c] = n /\ read' \in [Connections -> Nat]
  BY <1>1, <1>2 DEF Numbered
<1> HIDE DEF n
<1>4. \A d \in Connections : d # c => conn'[d] = conn[d] /\ read'[d] = read[d] /\ out'[d] = out[d]
  BY <1>1, <1>2
<1>5. /\ Single(main, conn, read) /\ Single(mail, conn, read) /\ Owned(main, mail, conn)
      /\ ~ Claims(main, c) /\ ~ Claims(mail, c)
  BY <1>2 DEF InterfaceInv, Good, Single, Claims
<1>6. Single(main, conn', read') /\ Single(mail, conn', read')
  BY <1>4, <1>5, Others
<1>7. ASSUME conn'[c] \in {"handling", "writing", "closed"},
             conn'[c] = "writing" => out'[c].n = n
      PROVE  Numbered'
  <2> SUFFICES ASSUME NEW d \in Connections
               PROVE  /\ conn'[d] \in {"none", "reading"} => got'[d] = read'[d]
                      /\ conn'[d] \in {"handling", "writing"} => read'[d] = got'[d] + 1
                      /\ conn'[d] = "writing" => out'[d].n = read'[d]
    BY DEF Numbered
  <2>1. CASE d = c
    <3>1. got'[c] = read[c] /\ read'[c] = read[c] + 1
      BY <1>2, <1>3 DEF n
    <3> QED
      BY <1>7, <1>3, <2>1, <3>1
  <2>2. CASE d # c
    BY <1>1, <1>2, <1>4, <2>2 DEF Numbered
  <2> QED
    BY <2>1, <2>2
<1>8. ASSUME conn' = [conn EXCEPT ![c] = "handling"], out' = out,
             \/ main' = Append(main, Request("Controller", c, n, r)) /\ mail' = mail
             \/ mail' = Append(mail, Request(Http!Handler(r.path), c, n, r)) /\ main' = main
      PROVE  InterfaceInv'
  <2>1. conn'[c] = "handling" /\ conn' \in [Connections -> {"none", "reading", "handling", "writing", "closed", "undefined"}]
    BY <1>1, <1>8
  <2>2. Numbered'
    BY <1>7, <2>1
  <2>3. ASSUME NEW a
        PROVE  LET m == Request(a, c, n, r)
               IN  /\ m.conn \in Connections /\ m.what = "request"
                   /\ \A d \in Connections : Carries(m, d) <=> d = c
                   /\ Number(m) = read'[c] /\ ~ IsReply(m) /\ ~ IsLast(m)
    BY <1>3 DEF Request, Carries, Number, IsReply, IsLast
  <2>4. CASE main' = Append(main, Request("Controller", c, n, r)) /\ mail' = mail
    <3> DEFINE m == Request("Controller", c, n, r)
    <3>1. /\ m.conn \in Connections /\ m.what = "request"
          /\ \A d \in Connections : Carries(m, d) <=> d = c
          /\ Number(m) = read'[c] /\ ~ IsReply(m) /\ ~ IsLast(m)
      BY <2>3
    <3> HIDE DEF m
    <3>2. /\ IsQueue(Append(main, m)) /\ Single(Append(main, m), conn', read')
          /\ \A d \in Connections : Claims(Append(main, m), d) <=> Claims(main, d) \/ Carries(m, d)
      BY <1>1, <1>5, <1>6, <2>1, <3>1, PutIn
    <3>3. Owned(Append(main, m), mail, conn')
      BY <1>4, <1>5, <3>1, <3>2 DEF Owned
    <3>4. Ordered(Append(main, m), agent["HttpController"])
      BY <1>1, <3>1, OrderedPut DEF InterfaceInv
    <3>5. main' = Append(main, m)
      BY <2>4 DEF m
    <3>6. Types'
      BY <1>1, <1>2, <1>3, <1>8, <2>1, <2>4, <3>2, <3>5 DEF Types
    <3> QED
      BY <1>2, <1>6, <2>2, <2>4, <3>2, <3>3, <3>4, <3>5, <3>6 DEF InterfaceInv, Good
  <2>5. CASE mail' = Append(mail, Request(Http!Handler(r.path), c, n, r)) /\ main' = main
    <3> DEFINE m == Request(Http!Handler(r.path), c, n, r)
    <3>1. /\ m.conn \in Connections /\ m.what = "request"
          /\ \A d \in Connections : Carries(m, d) <=> d = c
          /\ Number(m) = read'[c] /\ ~ IsReply(m) /\ ~ IsLast(m)
      BY <2>3
    <3> HIDE DEF m
    <3>2. /\ IsQueue(Append(mail, m)) /\ Single(Append(mail, m), conn', read')
          /\ \A d \in Connections : Claims(Append(mail, m), d) <=> Claims(mail, d) \/ Carries(m, d)
      BY <1>1, <1>5, <1>6, <2>1, <3>1, PutIn
    <3>3. Owned(main, Append(mail, m), conn')
      BY <1>4, <1>5, <3>1, <3>2 DEF Owned
    <3>4. mail' = Append(mail, m)
      BY <2>5 DEF m
    <3>5. Types'
      BY <1>1, <1>2, <1>3, <1>8, <2>1, <2>5, <3>2, <3>4 DEF Types
    <3> QED
      BY <1>2, <1>6, <2>2, <2>5, <3>2, <3>3, <3>4, <3>5 DEF InterfaceInv, Good
  <2> QED
    BY <1>8, <2>4, <2>5
<1>9. ASSUME main' = main, mail' = mail,
             \/ conn' = [conn EXCEPT ![c] = "closed"] /\ out' = out
             \/ /\ conn' = [conn EXCEPT ![c] = "writing"]
                /\ out' = [out EXCEPT ![c] = Answer(n, r, NoReport)]
      PROVE  InterfaceInv'
  <2>1. /\ main' = main /\ mail' = mail
        /\ conn' \in [Connections -> {"none", "reading", "handling", "writing", "closed", "undefined"}]
        /\ \/ conn'[c] = "closed" /\ out' = out
           \/ conn'[c] = "writing" /\ out' = [out EXCEPT ![c] = Answer(n, r, NoReport)]
    BY <1>1, <1>9
  <2>2. Owned(main, mail, conn')
    BY <1>4, <1>5, <2>1 DEF Owned
  <2>3. conn'[c] = "writing" => out'[c].n = n
    BY <1>1, <2>1 DEF Answer
  <2>4. Types'
    BY <1>1, <1>2, <1>3, <2>1 DEF Types
  <2>5. Numbered'
    BY <1>7, <2>1, <2>3
  <2> QED
    BY <1>2, <1>6, <2>1, <2>2, <2>4, <2>5 DEF InterfaceInv, Good
<1> QED
  BY <1>2, <1>8, <1>9
\* SendReply, by the thread that has taken the request out of its queue: p is
\* what is left of the main queue, q of the other.
LEMMA ReplySent ==
    ASSUME InterfaceInv, NEW p, NEW q, IsQueue(p), IsQueue(q), NEW c \in Connections, NEW answer,
           Single(p, conn, read), Single(q, conn, read), Ordered(p, agent["HttpController"]),
           conn[c] = "handling", answer.n = read[c], ~ Claims(p, c), ~ Claims(q, c),
           \A d \in Connections : ~ (Claims(p, d) /\ Claims(q, d)),
           \A d \in Connections : d # c /\ conn[d] = "handling" => Claims(p, d) \/ Claims(q, d),
           SendReply(p, c, answer), mail' = q,
           UNCHANGED <<ioc, read, got, out, agent>>
    PROVE  InterfaceInv'
<1>1. Types /\ Numbered
  BY DEF InterfaceInv
<1>2. CASE Up("HttpController") /\ Accepted(p, c, answer)
  <2> DEFINE m == Reply(c, answer)
  <2>1. /\ m.what = "reply" /\ m.conn = c /\ Number(m) = read[c] /\ ~ IsLast(m) /\ IsReply(m)
        /\ \A d \in Connections : Carries(m, d) <=> d = c
    BY DEF Reply, Number, IsLast, IsReply, Carries
  <2> HIDE DEF m
  <2>2. main' = Append(p, m) /\ conn' = conn
    BY <1>2 DEF Accepted, m
  <2>3. /\ IsQueue(Append(p, m)) /\ Single(Append(p, m), conn, read)
        /\ \A d \in Connections : Claims(Append(p, m), d) <=> Claims(p, d) \/ Carries(m, d)
    BY <2>1, PutIn
  <2>4. Owned(Append(p, m), q, conn)
    BY <2>1, <2>3 DEF Owned
  <2>5. Ordered(Append(p, m), agent["HttpController"])
    BY <1>2, <2>1, OrderedPut DEF Up
  <2>6. Types' /\ Numbered'
    BY <1>1, <2>2, <2>3 DEF Types, Numbered
  <2> QED
    BY <2>2, <2>3, <2>4, <2>5, <2>6 DEF InterfaceInv, Good
<1>3. CASE main' = p /\ Http!Release(c)
  <2>1. conn' = [conn EXCEPT ![c] = Http!Released(c)] /\ Http!Released(c) \in {"undefined", "closed"}
    BY <1>3 DEF Http!Release, Http!Become, Http!Released
  <2>2. /\ conn' \in [Connections -> {"none", "reading", "handling", "writing", "closed", "undefined"}]
        /\ conn'[c] \in {"undefined", "closed"}
        /\ \A d \in Connections : d # c => conn'[d] = conn[d]
    BY <1>1, <2>1 DEF Types
  <2>3. Types' /\ Numbered'
    BY <1>1, <1>3, <2>2 DEF Types, Numbered
  <2>4. /\ \A d \in Connections : Claims(p, d) => conn'[d] = conn[d] /\ read[d] = read[d]
        /\ \A d \in Connections : Claims(q, d) => conn'[d] = conn[d] /\ read[d] = read[d]
    BY <2>2
  <2>5. Single(p, conn', read) /\ Single(q, conn', read)
    BY <2>4, Others
  <2>6. Owned(p, q, conn')
    BY <2>2 DEF Owned
  <2> QED
    BY <1>3, <2>3, <2>5, <2>6 DEF InterfaceInv, Good
<1> QED
  BY <1>2, <1>3 DEF SendReply

\* What the main thread finds when it takes a message out of its queue
LEMMA MainTakes ==
    ASSUME InterfaceInv, main # <<>>
    PROVE  /\ IsQueue(Tail(main)) /\ Single(Tail(main), conn, read)
           /\ Single(mail, conn, read) /\ IsQueue(mail)
           /\ Ordered(Tail(main), agent["HttpController"])
           /\ Head(main).what \in {"request", "reply"} => Head(main).conn \in Connections
           /\ \A c \in Connections : Claims(main, c) <=> Claims(Tail(main), c) \/ Carries(Head(main), c)
           /\ \A c \in Connections : ~ (Claims(Tail(main), c) /\ Claims(mail, c))
           /\ \A c \in Connections :
                  Carries(Head(main), c) =>
                      /\ conn[c] = "handling" /\ Number(Head(main)) = read[c]
                      /\ ~ Claims(Tail(main), c) /\ ~ Claims(mail, c)
<1>1. /\ IsQueue(main) /\ IsQueue(mail) /\ Single(main, conn, read) /\ Single(mail, conn, read)
      /\ Owned(main, mail, conn) /\ Ordered(main, agent["HttpController"])
  BY DEF InterfaceInv, Types, Good
<1>2. /\ IsQueue(Tail(main)) /\ Single(Tail(main), conn, read)
      /\ \A c \in Connections : Claims(main, c) <=> Claims(Tail(main), c) \/ Carries(Head(main), c)
      /\ Head(main).what \in {"request", "reply"} => Head(main).conn \in Connections
      /\ \A c \in Connections :
             Carries(Head(main), c) =>
                 conn[c] = "handling" /\ Number(Head(main)) = read[c] /\ ~ Claims(Tail(main), c)
  BY <1>1, TakeOut
<1>3. Ordered(Tail(main), agent["HttpController"])
  BY <1>1, OrderedTake
<1> QED
  BY <1>1, <1>2, <1>3 DEF Owned

\* So do the handlers of Controller and HttpController.
LEMMA MainKeeps == InterfaceInv /\ MainStep => InterfaceInv'
<1> SUFFICES ASSUME InterfaceInv, MainStep
             PROVE  InterfaceInv'
  OBVIOUS
<1>1. /\ Types /\ Numbered /\ Owned(main, mail, conn)
      /\ conn \in [Connections -> {"none", "reading", "handling", "writing", "closed", "undefined"}]
      /\ ioc # "running" => agent["HttpController"] \in Over
  BY DEF InterfaceInv, Types, Good
<1>2. CASE ControllerRequest
  <2> DEFINE m == Head(main)
  <2>1. /\ main # <<>> /\ m.what = "request"
        /\ SendReply(Tail(main), m.conn, Answer(m.n, m.req, NoReport))
        /\ mail' = mail /\ UNCHANGED <<ioc, read, got, out, agent>>
    BY <1>2 DEF ControllerRequest, Received
  <2>2. /\ m.conn \in Connections /\ Carries(m, m.conn) /\ m.n = Number(m)
        /\ \A c \in Connections : Carries(m, c) => c = m.conn
    BY <2>1, MainTakes DEF Carries, Number
  <2>3. Answer(m.n, m.req, NoReport).n = read[m.conn]
    BY <2>1, <2>2, MainTakes DEF Answer
  <2>4. \A d \in Connections :
            d # m.conn /\ conn[d] = "handling" => Claims(Tail(main), d) \/ Claims(mail, d)
    BY <1>1, <2>1, <2>2, MainTakes DEF Owned
  <2> DEFINE c == m.conn
             answer == Answer(m.n, m.req, NoReport)
  <2>5. /\ conn[c] = "handling" /\ ~ Claims(Tail(main), c) /\ ~ Claims(mail, c)
        /\ IsQueue(Tail(main)) /\ IsQueue(mail)
        /\ Single(Tail(main), conn, read) /\ Single(mail, conn, read)
        /\ Ordered(Tail(main), agent["HttpController"])
        /\ \A d \in Connections : ~ (Claims(Tail(main), d) /\ Claims(mail, d))
    BY <2>1, <2>2, MainTakes
  <2>6. c \in Connections /\ answer.n = read[c] /\ SendReply(Tail(main), c, answer)
    BY <2>1, <2>2, <2>3
  <2>7. \A d \in Connections :
            d # c /\ conn[d] = "handling" => Claims(Tail(main), d) \/ Claims(mail, d)
    BY <2>4
  <2> HIDE DEF c, answer
  <2> QED
    BY <2>1, <2>5, <2>6, <2>7, ReplySent
<1>3. CASE HttpControllerReply
  <2> DEFINE m == Head(main)
             c == m.conn
  <2>1. /\ main # <<>> /\ m.what = "reply"
        /\ conn' = [conn EXCEPT ![c] = "writing"] /\ out' = [out EXCEPT ![c] = m.answer]
        /\ main' = Tail(main) /\ mail' = mail /\ UNCHANGED <<ioc, read, got, agent>>
    BY <1>3 DEF HttpControllerReply, Received, Http!Write, Http!Become
  <2>2. /\ c \in Connections /\ Carries(m, c) /\ m.answer.n = Number(m)
        /\ \A d \in Connections : Carries(m, d) => d = c
    BY <2>1, MainTakes DEF Carries, Number
  <2>3. /\ conn[c] = "handling" /\ m.answer.n = read[c]
        /\ ~ Claims(Tail(main), c) /\ ~ Claims(mail, c)
        /\ IsQueue(Tail(main)) /\ IsQueue(mail)
        /\ Single(Tail(main), conn, read) /\ Single(mail, conn, read)
        /\ Ordered(Tail(main), agent["HttpController"])
        /\ \A d \in Connections : ~ (Claims(Tail(main), d) /\ Claims(mail, d))
        /\ \A d \in Connections : Claims(main, d) => Claims(Tail(main), d) \/ d = c
    BY <2>1, <2>2, MainTakes
  <2> HIDE DEF c, m
  <2>4. /\ conn' \in [Connections -> {"none", "reading", "handling", "writing", "closed", "undefined"}]
        /\ conn'[c] = "writing" /\ out'[c] = m.answer
        /\ \A d \in Connections : d # c => conn'[d] = conn[d] /\ out'[d] = out[d]
        /\ out' = [d \in Connections |-> out'[d]]
    BY <1>1, <2>1, <2>2 DEF Types
  <2>5. Types'
    BY <1>1, <2>1, <2>3, <2>4 DEF Types
  <2>6. Numbered'
    BY <1>1, <2>1, <2>3, <2>4 DEF Numbered
  <2>7. /\ \A d \in Connections : Claims(Tail(main), d) => conn'[d] = conn[d] /\ read[d] = read[d]
        /\ \A d \in Connections : Claims(mail, d) => conn'[d] = conn[d] /\ read[d] = read[d]
    BY <2>3, <2>4
  <2>8. Single(Tail(main), conn', read) /\ Single(mail, conn', read)
    BY <2>3, <2>7, Others
  <2>9. Owned(Tail(main), mail, conn')
    BY <1>1, <2>3, <2>4 DEF Owned
  <2> QED
    BY <1>1, <2>1, <2>3, <2>5, <2>6, <2>8, <2>9 DEF InterfaceInv, Good
<1>4. ASSUME main # <<>>, Head(main).what \notin {"request", "reply"}
      PROVE  /\ IsQueue(Tail(main)) /\ Good(Tail(main), mail, conn, read)
             /\ Ordered(Tail(main), agent["HttpController"])
  <2>1. \A c \in Connections : ~ Carries(Head(main), c)
    BY <1>4 DEF Carries
  <2>2. Owned(Tail(main), mail, conn)
    BY <1>1, <1>4, <2>1, MainTakes DEF Owned
  <2> QED
    BY <1>4, <2>2, MainTakes DEF Good
<1>5. CASE EvtSlackNotify
  <2>1. /\ main # <<>> /\ Head(main).what \notin {"request", "reply"} /\ main' = Tail(main)
        /\ UNCHANGED <<ioc, conn, read, got, out, agent, mail>>
    BY <1>5 DEF EvtSlackNotify, Received, serverVars
  <2>2. Types' /\ Numbered'
    BY <1>1, <1>4, <2>1 DEF Types, Numbered
  <2> QED
    BY <1>1, <1>4, <2>1, <2>2 DEF InterfaceInv
<1>6. CASE EvtFinish
  <2> DEFINE a == Head(main).to
  <2>1. /\ main # <<>> /\ Head(main).what = "finish" /\ main' = Tail(main)
        /\ agent' = [agent EXCEPT ![a] = "finished"]
        /\ ioc' = IF a = "HttpController" THEN "stopped" ELSE ioc
        /\ UNCHANGED <<conn, read, got, out, mail>>
    BY <1>6 DEF EvtFinish, Received, Http!Stop
  <2>2. "HttpController" \in Agents /\ agent \in [Agents -> {"up", "leaving", "finished", "gone"}]
    BY <1>1 DEF Agents, Types
  <2>3. Types' /\ Numbered'
    BY <1>1, <1>4, <2>1, <2>2 DEF Types, Numbered
  <2>4. CASE a = "HttpController"
    <3>1. Ordered(Tail(main), "finished")
      BY <1>1, <2>1, <2>4, OrderedTake DEF InterfaceInv, Types, IsLast
    <3>2. agent'["HttpController"] = "finished"
      BY <2>1, <2>2, <2>4
    <3> QED
      BY <1>4, <2>1, <2>3, <3>1, <3>2 DEF InterfaceInv, Over
  <2>5. CASE a # "HttpController"
    <3>1. agent'["HttpController"] = agent["HttpController"] /\ ioc' = ioc
      BY <2>1, <2>2, <2>5
    <3> QED
      BY <1>1, <1>4, <2>1, <2>3, <3>1 DEF InterfaceInv
  <2> QED
    BY <2>4, <2>5
<1> QED
  BY <1>2, <1>3, <1>5, <1>6 DEF MainStep

\* The periodic check of the termination flag deregisters a coop.
LEMMA ShutdownKeeps ==
    ASSUME InterfaceInv, NEW a \in Watchers, ShutdownCheck(a)
    PROVE  InterfaceInv'
<1>1. /\ Types /\ Numbered /\ Good(main, mail, conn, read) /\ IsQueue(main) /\ IsQueue(mail)
      /\ agent \in [Agents -> {"up", "leaving", "finished", "gone"}]
      /\ ioc # "running" => agent["HttpController"] \in Over
      /\ Ordered(main, agent["HttpController"])
  BY DEF InterfaceInv, Types
<1>2. /\ agent[a] = "up" /\ agent' = Leaving(a) /\ main' = Append(main, Finish(a))
      /\ mail' = mail \/ mail' = Append(mail, Finish("StatsCollector"))
      /\ UNCHANGED <<ioc, conn, read, got, out>>
  BY DEF ShutdownCheck, Up, serverVars
<1>3. \A b : /\ \A c \in Connections : ~ Carries(Finish(b), c)
             /\ Finish(b).what = "finish" /\ ~ IsReply(Finish(b))
             /\ IsLast(Finish(b)) <=> b = "HttpController"
  BY DEF Finish, Carries, IsReply, IsLast
<1>4. ASSUME NEW q, NEW b, IsQueue(q), Single(q, conn, read)
      PROVE  /\ IsQueue(Append(q, Finish(b))) /\ Single(Append(q, Finish(b)), conn, read)
             /\ \A c \in Connections : Claims(Append(q, Finish(b)), c) <=> Claims(q, c)
  <2> DEFINE m == Finish(b)
  <2>1. m.what = "finish" /\ \A c \in Connections : ~ Carries(m, c)
    BY <1>3
  <2> HIDE DEF m
  <2>2. /\ IsQueue(Append(q, m)) /\ Single(Append(q, m), conn, read)
        /\ \A c \in Connections : Claims(Append(q, m), c) <=> Claims(q, c) \/ Carries(m, c)
    BY <1>4, <2>1, PutIn
  <2> QED
    BY <2>1, <2>2 DEF m
<1>5. agent' \in [Agents -> {"up", "leaving", "finished", "gone"}]
  BY <1>1, <1>2 DEF Leaving
<1>6. /\ IsQueue(main') /\ Single(main', conn, read)
      /\ \A c \in Connections : Claims(main', c) <=> Claims(main, c)
  BY <1>1, <1>2, <1>4 DEF Good
<1>7. /\ IsQueue(mail') /\ Single(mail', conn, read)
      /\ \A c \in Connections : Claims(mail', c) <=> Claims(mail, c)
  BY <1>1, <1>2, <1>4 DEF Good
<1>8. Good(main', mail', conn, read)
  BY <1>1, <1>6, <1>7 DEF Good, Owned
<1>9. Types' /\ Numbered'
  BY <1>1, <1>2, <1>5, <1>6, <1>7 DEF Types, Numbered
<1>10. CASE a = "HttpController"
  <2>1. agent'["HttpController"] = "leaving" /\ ioc = "running"
    BY <1>1, <1>2, <1>10 DEF Leaving, Coop, Agents, Over
  <2>2. Ordered(main, "leaving")
    BY <1>1, <1>2, <1>10 DEF Ordered, Over
  <2>3. Ordered(Append(main, Finish(a)), "leaving")
    BY <1>1, <1>3, <2>2, OrderedPut
  <2> QED
    BY <1>2, <1>8, <1>9, <2>1, <2>3 DEF InterfaceInv
<1>11. CASE a # "HttpController"
  <2>1. agent'["HttpController"] = agent["HttpController"]
    BY <1>1, <1>2, <1>11 DEF Leaving, Coop, Agents
  <2>2. Ordered(Append(main, Finish(a)), agent["HttpController"])
    BY <1>1, <1>3, <1>11, OrderedPut
  <2> QED
    BY <1>1, <1>2, <1>8, <1>9, <2>1, <2>2 DEF InterfaceInv
<1> QED
  BY <1>10, <1>11

\* A message that no session waits on may join either queue.
LEMMA Joins ==
    ASSUME InterfaceInv, NEW m, m.what \in {"metric", "notify"},
           \/ main' = main /\ mail' = mail
           \/ main' = Append(main, m) /\ mail' = mail
           \/ mail' = Append(mail, m) /\ main' = main,
           UNCHANGED <<ioc, conn, read, got, out, agent>>
    PROVE  InterfaceInv'
<1>1. /\ Types /\ Numbered /\ Good(main, mail, conn, read) /\ IsQueue(main) /\ IsQueue(mail)
      /\ ioc # "running" => agent["HttpController"] \in Over
      /\ Ordered(main, agent["HttpController"])
  BY DEF InterfaceInv, Types
<1>2. /\ \A c \in Connections : ~ Carries(m, c)
      /\ ~ IsReply(m) /\ ~ IsLast(m) /\ m.what \notin {"request", "reply"}
  BY DEF Carries, IsReply, IsLast
<1>3. ASSUME NEW q, IsQueue(q), Single(q, conn, read)
      PROVE  /\ IsQueue(Append(q, m)) /\ Single(Append(q, m), conn, read)
             /\ \A c \in Connections : Claims(Append(q, m), c) <=> Claims(q, c)
  <2>1. /\ IsQueue(Append(q, m)) /\ Single(Append(q, m), conn, read)
        /\ \A c \in Connections : Claims(Append(q, m), c) <=> Claims(q, c) \/ Carries(m, c)
    BY <1>2, <1>3, PutIn
  <2> QED
    BY <1>2, <2>1
<1>4. /\ IsQueue(main') /\ Single(main', conn, read)
      /\ \A c \in Connections : Claims(main', c) <=> Claims(main, c)
      /\ IsQueue(mail') /\ Single(mail', conn, read)
      /\ \A c \in Connections : Claims(mail', c) <=> Claims(mail, c)
  BY <1>1, <1>3 DEF Good
<1>5. Good(main', mail', conn, read)
  BY <1>1, <1>4 DEF Good, Owned
<1>6. Ordered(main', agent["HttpController"])
  BY <1>1, <1>2, OrderedPut
<1>7. Types' /\ Numbered'
  BY <1>1, <1>4 DEF Types, Numbered
<1> QED
  BY <1>1, <1>5, <1>6, <1>7 DEF InterfaceInv

\* StatsCollector answers requests from its own thread.
LEMMA StatsKeeps == InterfaceInv /\ StatsStep => InterfaceInv'
<1> SUFFICES ASSUME InterfaceInv, StatsStep
             PROVE  InterfaceInv'
  OBVIOUS
<1> DEFINE m == Head(mail)
           rest == Tail(mail)
<1>1. mail # <<>> /\ mail' = rest
  BY DEF StatsStep
<1>2. /\ Types /\ Numbered /\ IsQueue(main) /\ IsQueue(mail) /\ Owned(main, mail, conn)
      /\ Single(main, conn, read) /\ Single(mail, conn, read)
      /\ ioc # "running" => agent["HttpController"] \in Over
      /\ Ordered(main, agent["HttpController"])
      /\ agent \in [Agents -> {"up", "leaving", "finished", "gone"}]
  BY DEF InterfaceInv, Types, Good
<1>3. /\ IsQueue(rest) /\ Single(rest, conn, read)
      /\ \A c \in Connections : Claims(mail, c) <=> Claims(rest, c) \/ Carries(m, c)
      /\ m.what \in {"request", "reply"} => m.conn \in Connections
      /\ \A c \in Connections :
             Carries(m, c) => conn[c] = "handling" /\ Number(m) = read[c] /\ ~ Claims(rest, c)
  BY <1>1, <1>2, TakeOut
<1> HIDE DEF rest, m
<1>4. ASSUME m.what \in {"metric", "finish"}, main' = main,
             UNCHANGED <<ioc, conn, read, got, out>>,
             agent' = agent \/ agent' = [agent EXCEPT !["StatsCollector"] = "finished"]
      PROVE  InterfaceInv'
  <2>1. \A c \in Connections : ~ Carries(m, c)
    BY <1>4 DEF Carries
  <2>2. Good(main, rest, conn, read)
    BY <1>2, <1>3, <2>1 DEF Good, Owned
  <2>3. /\ agent' \in [Agents -> {"up", "leaving", "finished", "gone"}]
        /\ agent'["HttpController"] = agent["HttpController"]
    BY <1>2, <1>4 DEF Agents
  <2>4. Types' /\ Numbered'
    BY <1>1, <1>2, <1>3, <1>4, <2>3 DEF Types, Numbered
  <2> QED
    BY <1>1, <1>2, <1>4, <2>2, <2>3, <2>4 DEF InterfaceInv
<1>5. CASE EvtMetric
  BY <1>4, <1>5 DEF EvtMetric, serverVars, m
<1>6. CASE StatsFinish
  BY <1>4, <1>6 DEF StatsFinish, serverVars, m
<1>7. CASE EvtHttpStats
  <2> DEFINE c == m.conn
  <2>1. PICK answer : /\ m.what = "request" /\ SendReply(main, c, answer) /\ answer.n = m.n
                      /\ UNCHANGED <<ioc, read, got, out, agent>>
    <3>1. CASE Stats!WellFormed(m.req)
      BY <1>7, <3>1 DEF EvtHttpStats, m, Answer
    <3>2. CASE ~ Stats!WellFormed(m.req)
      BY <1>7, <3>2 DEF EvtHttpStats, m, Answer
    <3> QED
      BY <3>1, <3>2
  <2>2. /\ c \in Connections /\ Carries(m, c) /\ m.n = Number(m)
        /\ \A d \in Connections : Carries(m, d) => d = c
    BY <1>3, <2>1 DEF Carries, Number
  <2>3. /\ conn[c] = "handling" /\ answer.n = read[c] /\ ~ Claims(rest, c)
        /\ Claims(mail, c)
    BY <1>3, <2>1, <2>2
  <2> HIDE DEF c
  <2>4. /\ ~ Claims(main, c)
        /\ \A d \in Connections : ~ (Claims(main, d) /\ Claims(rest, d))
        /\ \A d \in Connections : d # c /\ conn[d] = "handling" => Claims(main, d) \/ Claims(rest, d)
    BY <1>2, <1>3, <2>2, <2>3 DEF Owned
  <2> QED
    BY <1>1, <1>2, <1>3, <2>1, <2>2, <2>3, <2>4, ReplySent
<1> QED
  BY <1>5, <1>6, <1>7 DEF StatsStep

\* The events of the sessions touch neither queue nor connection.
LEMMA IrcKeeps == InterfaceInv /\ IrcStep => InterfaceInv'
<1> SUFFICES ASSUME InterfaceInv, IrcStep
             PROVE  InterfaceInv'
  OBVIOUS
<1>1. UNCHANGED <<ioc, conn, read, got, out, agent>>
  BY DEF IrcStep, serverVars
<1>2. ASSUME NEW s \in Stats!Sessions, Command(s)
      PROVE  InterfaceInv'
  <2>1. main' = main /\ mail' = mail
    BY <1>2 DEF Command
  <2>2. Notify.what = "notify"
    BY DEF Notify
  <2> QED
    BY <1>1, <2>1, <2>2, Joins
<1>3. ASSUME NEW s \in Stats!Sessions, Pong(s)
      PROVE  InterfaceInv'
  BY <1>1, <1>3, Joins DEF Pong, Post, Stats!SessionMetrics, Stats!Metric
<1>4. ASSUME NEW channel \in Channels, ChatMessage(channel)
      PROVE  InterfaceInv'
  BY <1>1, <1>4, Joins DEF ChatMessage, Post, Stats!MessageMetric, Stats!Metric
<1>5. CASE Disconnected
  BY <1>1, <1>5, Joins DEF Disconnected, Notify
<1> QED
  BY <1>2, <1>3, <1>4, <1>5 DEF IrcStep

\* The framework runs so_evt_finish behind the last message and destroys.
LEMMA TeardownKeeps == InterfaceInv /\ Teardown => InterfaceInv'
<1> SUFFICES ASSUME InterfaceInv, Teardown
             PROVE  InterfaceInv'
  OBVIOUS
<1>1. /\ Types /\ Numbered /\ Good(main, mail, conn, read)
      /\ ioc # "running" => agent["HttpController"] \in Over
      /\ Ordered(main, agent["HttpController"])
      /\ agent \in [Agents -> {"up", "leaving", "finished", "gone"}]
      /\ main' = main /\ mail' = mail
  BY DEF InterfaceInv, Types, Teardown
<1>2. ASSUME NEW a \in Watchers, CanGo(a)
      PROVE  /\ agent' \in [Agents -> {"up", "leaving", "finished", "gone"}]
             /\ a # "HttpController" => agent'["HttpController"] = agent["HttpController"]
             /\ a = "HttpController" => /\ agent["HttpController"] = "finished"
                                        /\ agent'["HttpController"] = "gone"
  BY <1>1, <1>2 DEF CanGo, Coop, Agents, Watchers
<1>3. ASSUME UNCHANGED <<ioc, conn, read, got, out>>,
             agent'["HttpController"] = agent["HttpController"],
             agent' \in [Agents -> {"up", "leaving", "finished", "gone"}]
      PROVE  InterfaceInv'
  <2>1. Types' /\ Numbered'
    BY <1>1, <1>3 DEF Types, Numbered
  <2> QED
    BY <1>1, <1>3, <2>1 DEF InterfaceInv
<1>4. CASE DestroyController
  BY <1>2, <1>3, <1>4 DEF DestroyController, serverVars, Watchers
<1>5. CASE DestroyNotifier
  BY <1>2, <1>3, <1>5 DEF DestroyNotifier, serverVars, Watchers
<1>6. CASE StopNotifier
  BY <1>1, <1>3, <1>6 DEF StopNotifier, serverVars
<1>7. CASE DestroyServer
  <2>1. /\ conn' = [c \in Connections |-> IF conn[c] \in Http!Pending THEN "closed" ELSE conn[c]]
        /\ out' = [c \in Connections |-> NoAnswer] /\ read' = read /\ got' = got
        /\ CanGo("HttpController")
    BY <1>7 DEF DestroyServer, Http!Destroy
  <2>2. /\ agent' \in [Agents -> {"up", "leaving", "finished", "gone"}]
        /\ agent["HttpController"] = "finished" /\ agent'["HttpController"] = "gone"
    BY <1>2, <2>1 DEF Watchers
  <2>3. \A c \in Connections : /\ conn[c] = "handling" <=> conn'[c] = "handling"
                               /\ conn'[c] # "writing" /\ conn'[c] # "reading"
                               /\ conn'[c] \in {conn[c], "closed"}
    BY <2>1 DEF Http!Pending
  <2>4. Types'
    BY <1>1, <2>1, <2>2 DEF Types
  <2>5. Numbered'
    BY <1>1, <2>1, <2>3 DEF Numbered
  <2>6. \A c \in Connections : Claims(main, c) \/ Claims(mail, c) => conn[c] = "handling"
    BY <1>1 DEF Good, Single, Claims
  <2>7. /\ \A c \in Connections : Claims(main, c) => conn'[c] = conn[c] /\ read[c] = read[c]
        /\ \A c \in Connections : Claims(mail, c) => conn'[c] = conn[c] /\ read[c] = read[c]
    BY <2>3, <2>6
  <2>8. Single(main, conn', read) /\ Single(mail, conn', read)
    BY <1>1, <2>7, Others DEF Good
  <2>9. Owned(main, mail, conn')
    BY <1>1, <2>3 DEF Good, Owned
  <2>10. Ordered(main, "gone")
    BY <1>1, <2>2 DEF Ordered, Over
  <2> QED
    BY <1>1, <2>1, <2>2, <2>4, <2>5, <2>8, <2>9, <2>10 DEF InterfaceInv, Good, Over
<1> QED
  BY <1>4, <1>5, <1>6, <1>7 DEF Teardown

\* InterfaceInv is inductive.
LEMMA InterfaceStep == InterfaceInv /\ [Next]_vars => InterfaceInv'
<1> SUFFICES ASSUME InterfaceInv, [Next]_vars
             PROVE  InterfaceInv'
  OBVIOUS
<1>1. ASSUME UNCHANGED <<serverVars, agent, main, mail>>
      PROVE  InterfaceInv'
  BY <1>1 DEF serverVars, InterfaceInv, Types, Numbered
<1>2. CASE UNCHANGED vars
  BY <1>1, <1>2 DEF vars
<1>3. CASE Signal
  BY <1>1, <1>3 DEF Signal
<1>4. ASSUME NEW w \in Workers, ClientStep(w)
      PROVE  InterfaceInv'
  BY <1>1, <1>4 DEF ClientStep
<1>5. CASE Step
  BY <1>3, <1>4, <1>5, ServerKeeps, ReadKeeps, MainKeeps, StatsKeeps, IrcKeeps, ShutdownKeeps,
     TeardownKeeps DEF Step
<1>6. CASE EnterDatabase \/ LeaveDatabase \/ EvtHttpThrows
  BY <1>1, <1>6 DEF EnterDatabase, LeaveDatabase, EvtHttpThrows, others
<1>7. CASE ChatFinish
  <2>1. /\ UNCHANGED <<serverVars, main, mail>>
        /\ agent' = [agent EXCEPT !["Chat"] = "finished"]
    BY <1>7 DEF ChatFinish, others
  <2>2. agent \in [Agents -> {"up", "leaving", "finished", "gone"}]
    BY DEF InterfaceInv, Types
  <2>3. /\ agent' \in [Agents -> {"up", "leaving", "finished", "gone"}]
        /\ agent'["HttpController"] = agent["HttpController"]
    BY <2>1, <2>2 DEF Agents
  <2> QED
    BY <2>1, <2>3 DEF serverVars, InterfaceInv, Types, Numbered
<1> QED
  BY <1>2, <1>5, <1>6, <1>7 DEF Next, Running, ChatStep
-----------------------------------------------------------------------------

\* A claim in one of two queues, once, is one owner.
LEMMA OwnedFollows == InterfaceInv => OwnedByMessage
<1> SUFFICES ASSUME InterfaceInv, NEW c \in Connections
             PROVE  Cardinality(Owners(c)) = IF conn[c] = "handling" THEN 1 ELSE 0
  BY DEF OwnedByMessage
<1>1. Single(main, conn, read) /\ Single(mail, conn, read) /\ Owned(main, mail, conn)
  BY DEF InterfaceInv, Good
<1>2. \A o : o \in Owners(c) <=>
          \/ \E i \in DOMAIN main : Carries(main[i], c) /\ o = <<"main", i>>
          \/ \E i \in DOMAIN mail : Carries(mail[i], c) /\ o = <<"mail", i>>
  BY DEF Owners
<1>3. CASE conn[c] # "handling"
  <2>1. Owners(c) = {}
    BY <1>1, <1>2, <1>3 DEF Single
  <2> QED
    BY <1>3, <2>1, FS_EmptySet
<1>4. CASE conn[c] = "handling"
  <2>1. CASE Claims(main, c)
    <3>1. PICK i \in DOMAIN main : Carries(main[i], c)
      BY <2>1 DEF Claims
    <3>2. \A j \in DOMAIN mail : ~ Carries(mail[j], c)
      BY <1>1, <2>1 DEF Owned, Claims
    <3>3. Owners(c) = {<<"main", i>>}
      BY <1>1, <1>2, <3>1, <3>2 DEF Single
    <3> QED
      BY <1>4, <3>3, FS_Singleton
  <2>2. CASE Claims(mail, c)
    <3>1. PICK i \in DOMAIN mail : Carries(mail[i], c)
      BY <2>2 DEF Claims
    <3>2. \A j \in DOMAIN main : ~ Carries(main[j], c)
      BY <1>1, <2>2 DEF Owned, Claims
    <3>3. Owners(c) = {<<"mail", i>>}
      BY <1>1, <1>2, <3>1, <3>2 DEF Single
    <3> QED
      BY <1>4, <3>3, FS_Singleton
  <2> QED
    BY <1>1, <1>4, <2>1, <2>2 DEF Owned
<1> QED
  BY <1>3, <1>4

\* InterfaceInv holds in every reachable state.
LEMMA InterfaceInvariant == Spec => []InterfaceInv
BY InterfaceInit, InterfaceStep, PTL DEF Spec

\* However many clients ask at a time, and whatever is shut down meanwhile, a
\* session whose request was read is owned by one message in one queue until its
\* answer is written or it is closed: no request waits for ever and none is
\* answered twice (HTTPServerSession::onRead, send_http_resp).
THEOREM InterfaceOwned == Spec => []OwnedByMessage
<1> QED
  BY InterfaceInvariant, OwnedFollows, PTL

\* The answer a session writes is that to the next request of its client, and to
\* the last one it has read, whichever of the threads answers
\* (HTTPServerSession::onWrite).
THEOREM InterfaceAnswersInOrder == Spec => []AnswersInOrder
<1>1. InterfaceInv => AnswersInOrder
  BY DEF InterfaceInv, Types, Numbered, AnswersInOrder, Http!AnswersInOrder
<1> QED
  BY <1>1, InterfaceInvariant, PTL

\* so_evt_finish of HttpController comes behind every reply that was sent to it,
\* so that the server is still running when each is written, that to
\* /app/shutdown among them (HttpController::evtShutdownCheck, so_evt_finish).
THEOREM InterfaceRepliesBeforeStop == Spec => []RepliesBeforeStop
<1>1. InterfaceInv => RepliesBeforeStop
  BY DEF InterfaceInv, Ordered, IsReply, RepliesBeforeStop
<1> QED
  BY <1>1, InterfaceInvariant, PTL

\* ~HTTPClient joins its threads before the client is gone: no thread sends a
\* notification with a destroyed client, however many threads it has
\* (HTTPClient::stop).
THEOREM InterfaceNoJobOutlives == Spec => []NoJobOutlives
<1> DEFINE Quiet == client = "destroyed" => running = {}
<1>1. Init => Quiet
  BY DEF Init, Slack!Init
<1>2. Quiet /\ [Next]_vars => Quiet'
  <2> SUFFICES ASSUME Quiet, [Next]_vars
               PROVE  Quiet'
    OBVIOUS
  <2>1. ASSUME UNCHANGED <<client, running>>
        PROVE  Quiet'
    BY <2>1
  <2>2. CASE UNCHANGED vars
    BY <2>1, <2>2 DEF vars, notifierVars
  <2>3. CASE ChatStep \/ EvtHttpThrows
    BY <2>1, <2>3 DEF ChatStep, EnterDatabase, LeaveDatabase, ChatFinish, EvtHttpThrows, others,
                       notifierVars
  <2>4. CASE ServerStep
    BY <2>1, <2>4 DEF ServerStep, FinishWrite, notifierVars
  <2>5. ASSUME NEW c \in Connections, NEW r \in Requests, ReadRequest(c, r)
        PROVE  Quiet'
    BY <2>1, <2>5 DEF ReadRequest, notifierVars
  <2>6. CASE MainStep
    BY <2>1, <2>6 DEF MainStep, ControllerRequest, HttpControllerReply, EvtSlackNotify, EvtFinish,
                      Slack!Exec, notifierVars
  <2>7. CASE StatsStep
    BY <2>1, <2>7 DEF StatsStep, notifierVars
  <2>8. CASE IrcStep
    BY <2>1, <2>8 DEF IrcStep, notifierVars
  <2>9. ASSUME NEW a \in Watchers, ShutdownCheck(a)
        PROVE  Quiet'
    BY <2>1, <2>9 DEF ShutdownCheck, notifierVars
  <2>10. CASE Signal
    BY <2>1, <2>10 DEF Signal, notifierVars
  <2>11. CASE Teardown
    BY <2>1, <2>11 DEF Teardown, DestroyServer, DestroyController, StopNotifier, DestroyNotifier,
                       Slack!StopClient, Slack!DestroyClient, Slack!Joined, notifierVars
  <2>12. ASSUME NEW w \in Workers, ClientStep(w)
         PROVE  Quiet'
    BY <2>12 DEF ClientStep, Slack!StartJob, Slack!EndJob
  <2> QED
    BY <2>2, <2>3, <2>4, <2>5, <2>6, <2>7, <2>8, <2>9, <2>10, <2>11, <2>12
    DEF Next, Running, Step
<1> QED
  BY <1>1, <1>2, PTL DEF Spec, NoJobOutlives, Slack!NoJobOutlives
-----------------------------------------------------------------------------
(* Sums of a function over its domain.  FoldFunction chooses the order; that *)
(* the order does not matter is shown of finite sets by looking at a smallest *)
(* part of which it were false. *)

Some(s) == CHOOSE x \in s : TRUE

\* g sums a function over every part of a set.
Sums(f, D, g) ==
    g = [s \in SUBSET D |-> IF s = {} THEN 0 ELSE f[Some(s)] + g[s \ {Some(s)}]]

Partial(f) == CHOOSE g : Sums(f, DOMAIN f, g)

\* Numbers, finitely many
Summable(f) == IsFiniteSet(DOMAIN f) /\ \A x \in DOMAIN f : f[x] \in Int

\* A sum is that of its parts up to the whole.
LEMMA SumIsPartial ==
    ASSUME NEW f
    PROVE  SumOf(f) = Partial(f)[DOMAIN f]
BY DEF SumOf, FoldFunction, FoldFunctionOnSet, MapThenFoldSet, Partial, Sums, Some

\* Among parts of a finite set there is one with none below it: what takes the
\* place of an induction.
LEMMA Smallest ==
    ASSUME NEW D, IsFiniteSet(D), NEW T, T \subseteq SUBSET D, T # {}
    PROVE  \E s \in T : \A t \in T : t \subseteq s => t = s
<1> DEFINE R == StrictSubsetOrdering(D)
<1>1. SUBSET D = FiniteSubsetsOf(D)
  BY FS_Subset DEF FiniteSubsetsOf
<1>2. IsWellFoundedOn(R, SUBSET D)
  BY <1>1, FS_StrictSubsetOrderingWellFounded
<1> HIDE DEF R
<1>3. PICK s \in T : \A t \in T : ~ (<<t, s>> \in R)
  BY <1>2, WFMin
<1>4. ASSUME NEW t \in T, t \subseteq s
      PROVE  t = s
  BY <1>3, <1>4 DEF R, StrictSubsetOrdering
<1> QED
  BY <1>3, <1>4

\* The sum over a set depends on nothing but the terms.
LEMMA SameSum ==
    ASSUME NEW f1, NEW f2, NEW D1, NEW D2, NEW g1, NEW g2,
           Sums(f1, D1, g1), Sums(f2, D2, g2), IsFiniteSet(D1),
           NEW s, s \subseteq D1, s \subseteq D2, \A x \in s : f1[x] = f2[x]
    PROVE  g1[s] = g2[s]
<1> DEFINE T == {t \in SUBSET s : g1[t] # g2[t]}
<1> SUFFICES ASSUME T # {} PROVE FALSE
  OBVIOUS
<1>1. T \subseteq SUBSET D1 /\ \A t \in T : t \subseteq s /\ g1[t] # g2[t]
  OBVIOUS
<1>a. \A t \in SUBSET s : g1[t] = g2[t] \/ t \in T
  OBVIOUS
<1> HIDE DEF T
<1>2. PICK t \in T : \A u \in T : u \subseteq t => u = t
  BY <1>1, Smallest
<1>3. /\ t \in SUBSET D1 /\ t \in SUBSET D2 /\ g1[t] # g2[t]
      /\ g1[t] = IF t = {} THEN 0 ELSE f1[Some(t)] + g1[t \ {Some(t)}]
      /\ g2[t] = IF t = {} THEN 0 ELSE f2[Some(t)] + g2[t \ {Some(t)}]
  BY <1>1, <1>2 DEF Sums
<1>4. t # {}
  BY <1>3
<1>5. Some(t) \in t
  BY <1>4 DEF Some
<1>6. g1[t \ {Some(t)}] = g2[t \ {Some(t)}]
  BY <1>1, <1>a, <1>2, <1>5
<1> QED
  BY <1>1, <1>2, <1>3, <1>4, <1>5, <1>6

\* Over a finite set there is such a function.
LEMMA SumsExist ==
    ASSUME NEW f, NEW D, IsFiniteSet(D)
    PROVE  \E g : Sums(f, D, g)
<1> DEFINE Has(s) == \E g : Sums(f, s, g)
           T == {s \in SUBSET D : ~ Has(s)}
<1> SUFFICES ASSUME T # {} PROVE FALSE
  OBVIOUS
<1>a. T \subseteq SUBSET D
  OBVIOUS
<1> HIDE DEF T
<1>b. PICK s \in T : \A u \in T : u \subseteq s => u = s
  BY <1>a, Smallest
<1>1. /\ s \in SUBSET D /\ ~ Has(s)
      /\ \A u \in SUBSET s : u # s => Has(u)
  BY <1>b DEF T
<1> DEFINE Of(t) == CHOOSE g : Sums(f, t, g)
           sum(t) == IF t = {} THEN 0 ELSE f[Some(t)] + Of(t \ {Some(t)})[t \ {Some(t)}]
           g == [t \in SUBSET s |-> sum(t)]
<1>2. ASSUME NEW t \in SUBSET s, t # s
      PROVE  Sums(f, t, Of(t))
  BY <1>1, <1>2
<1>3. ASSUME NEW t \in SUBSET s, t # {}
      PROVE  g[t \ {Some(t)}] = Of(t \ {Some(t)})[t \ {Some(t)}]
  <2> DEFINE u == t \ {Some(t)}
  <2>1. Some(t) \in t
    BY <1>3 DEF Some
  <2>2. u \in SUBSET s /\ u # s
    BY <2>1
  <2>3. Sums(f, u, Of(u))
    BY <1>2, <2>2
  <2>4. CASE u = {}
    <3>1. Of(u)[u] = 0
      BY <2>3, <2>4 DEF Sums
    <3> QED
      BY <2>2, <2>4, <3>1
  <2>5. CASE u # {}
    <3> DEFINE v == u \ {Some(u)}
    <3>1. Some(u) \in u
      BY <2>5 DEF Some
    <3>2. v \in SUBSET s /\ v # s /\ v \subseteq u
      BY <2>2, <3>1
    <3>3. Sums(f, v, Of(v))
      BY <1>2, <3>2
    <3>4. IsFiniteSet(u) /\ IsFiniteSet(v)
      BY <1>1, <2>2, <3>2, FS_Subset
    <3> HIDE DEF Of, u, v
    <3>5. Of(u)[v] = Of(v)[v]
      BY <2>3, <3>2, <3>3, <3>4, SameSum
    <3>6. Of(u)[u] = f[Some(u)] + Of(u)[v]
      BY <2>3, <2>5 DEF Sums, v
    <3>7. g[u] = f[Some(u)] + Of(v)[v]
      BY <2>2, <2>5 DEF v
    <3> QED
      BY <3>5, <3>6, <3>7 DEF u
  <2> QED
    BY <2>4, <2>5
<1> HIDE DEF Of
<1>4. g = [t \in SUBSET s |-> IF t = {} THEN 0 ELSE f[Some(t)] + g[t \ {Some(t)}]]
  BY <1>3
<1>5. Sums(f, s, g)
  BY <1>4 DEF Sums
<1> QED
  BY <1>1, <1>5

\* The sums over the parts of a function's domain
LEMMA PartialSums ==
    ASSUME NEW f, Summable(f)
    PROVE  Sums(f, DOMAIN f, Partial(f))
BY SumsExist DEF Summable, Partial

\* A sum of numbers is a number.
LEMMA PartialInt ==
    ASSUME NEW f, Summable(f), NEW s, s \subseteq DOMAIN f
    PROVE  Partial(f)[s] \in Int
<1> DEFINE g == Partial(f)
           T == {t \in SUBSET DOMAIN f : g[t] \notin Int}
<1> SUFFICES ASSUME T # {} PROVE FALSE
  OBVIOUS
<1>1. /\ T \subseteq SUBSET DOMAIN f
      /\ \A t \in SUBSET DOMAIN f : t \in T <=> g[t] \notin Int
  OBVIOUS
<1> HIDE DEF T
<1>2. PICK t \in T : \A u \in T : u \subseteq t => u = t
  BY <1>1, Smallest DEF Summable
<1>3. t \subseteq DOMAIN f /\ g[t] = IF t = {} THEN 0 ELSE f[Some(t)] + g[t \ {Some(t)}]
  BY <1>1, <1>2, PartialSums DEF Sums
<1>4. CASE t # {}
  <2>1. Some(t) \in t
    BY <1>4 DEF Some
  <2>2. g[t \ {Some(t)}] \in Int
    BY <1>1, <1>2, <1>3, <2>1
  <2>3. f[Some(t)] \in Int
    BY <1>3, <2>1 DEF Summable
  <2> QED
    BY <1>1, <1>2, <1>3, <1>4, <2>2, <2>3
<1> QED
  BY <1>1, <1>2, <1>3, <1>4

\* A sum may begin with any of its terms.
LEMMA AnyFirst ==
    ASSUME NEW f, Summable(f), NEW s, s \subseteq DOMAIN f, NEW x \in s
    PROVE  Partial(f)[s] = f[x] + Partial(f)[s \ {x}]
<1> DEFINE g == Partial(f)
           Bad(t) == \E y \in t : g[t] # f[y] + g[t \ {y}]
           T == {t \in SUBSET DOMAIN f : Bad(t)}
<1> SUFFICES ASSUME T # {} PROVE FALSE
  OBVIOUS
<1>1. /\ T \subseteq SUBSET DOMAIN f
      /\ \A t \in SUBSET DOMAIN f : t \in T <=> Bad(t)
  OBVIOUS
<1> HIDE DEF T
<1>2. PICK t \in T : \A u \in T : u \subseteq t => u = t
  BY <1>1, Smallest DEF Summable
<1>3. PICK y \in t : g[t] # f[y] + g[t \ {y}]
  BY <1>1, <1>2
<1> DEFINE z == Some(t)
<1>4. t \subseteq DOMAIN f /\ z \in t /\ g[t] = f[z] + g[t \ {z}]
  <2>1. t \in SUBSET DOMAIN f /\ t # {}
    BY <1>1, <1>2, <1>3
  <2>2. z \in t
    BY <2>1 DEF Some
  <2>3. Sums(f, DOMAIN f, g)
    BY PartialSums
  <2>4. g[t] = f[z] + g[t \ {z}]
    BY <2>1, <2>3 DEF Sums
  <2> QED
    BY <2>1, <2>2, <2>4
<1> HIDE DEF z
<1>5. y # z
  BY <1>3, <1>4
<1> DEFINE u == t \ {y}
           v == t \ {z}
           w == t \ {y, z}
<1>6. /\ u \subseteq DOMAIN f /\ v \subseteq DOMAIN f /\ w \subseteq DOMAIN f
      /\ u \subseteq t /\ u # t /\ v \subseteq t /\ v # t
      /\ z \in u /\ y \in v /\ w = u \ {z} /\ w = v \ {y}
  BY <1>4, <1>5
<1>7. ~ Bad(u) /\ ~ Bad(v)
  BY <1>1, <1>2, <1>6
<1>8. g[u] = f[z] + g[w] /\ g[v] = f[y] + g[w]
  BY <1>6, <1>7
<1>9. f[y] \in Int /\ f[z] \in Int
  BY <1>4 DEF Summable
<1> HIDE DEF g, u, v, w
<1>10. g[w] \in Int
  BY <1>6, PartialInt DEF g
<1> QED
  BY <1>3, <1>4, <1>8, <1>9, <1>10 DEF u, v

\* A sum without one of its terms
LEMMA SumWithout ==
    ASSUME NEW f, Summable(f), NEW g, Summable(g), NEW x, x \in DOMAIN f, x \notin DOMAIN g,
           DOMAIN f = DOMAIN g \cup {x}, \A y \in DOMAIN g : g[y] = f[y]
    PROVE  SumOf(f) = f[x] + SumOf(g)
<1>1. Partial(f)[DOMAIN f] = f[x] + Partial(f)[DOMAIN g]
  <2>1. DOMAIN f \ {x} = DOMAIN g
    OBVIOUS
  <2> QED
    BY <2>1, AnyFirst
<1>2. Partial(f)[DOMAIN g] = Partial(g)[DOMAIN g]
  <2>1. Sums(f, DOMAIN f, Partial(f)) /\ Sums(g, DOMAIN g, Partial(g)) /\ IsFiniteSet(DOMAIN f)
    BY PartialSums DEF Summable
  <2>2. DOMAIN g \subseteq DOMAIN f /\ \A y \in DOMAIN g : f[y] = g[y]
    OBVIOUS
  <2> QED
    BY <2>1, <2>2, SameSum
<1> QED
  BY <1>1, <1>2, SumIsPartial

\* The sum of a function
LEMMA SumInt ==
    ASSUME NEW f, Summable(f)
    PROVE  SumOf(f) \in Int
BY SumIsPartial, PartialInt

\* One term changes.
LEMMA SumChanged ==
    ASSUME NEW f, Summable(f), NEW g, Summable(g), NEW x, x \in DOMAIN f,
           DOMAIN g = DOMAIN f, \A y \in DOMAIN f : y # x => g[y] = f[y]
    PROVE  SumOf(g) = SumOf(f) - f[x] + g[x]
<1> DEFINE h == [y \in DOMAIN f \ {x} |-> f[y]]
<1>1. /\ DOMAIN h = DOMAIN f \ {x} /\ x \notin DOMAIN h /\ DOMAIN f = DOMAIN h \cup {x}
      /\ \A y \in DOMAIN h : h[y] = f[y] /\ h[y] = g[y] /\ h[y] \in Int
  BY DEF Summable
<1> HIDE DEF h
<1>2. Summable(h)
  BY <1>1, FS_Subset DEF Summable
<1>3. SumOf(f) = f[x] + SumOf(h) /\ SumOf(g) = g[x] + SumOf(h)
  BY <1>1, <1>2, SumWithout
<1>4. SumOf(h) \in Int /\ f[x] \in Int /\ g[x] \in Int
  BY <1>2, SumInt DEF Summable
<1> QED
  BY <1>3, <1>4

\* Nothing adds up to nothing.
LEMMA SumOfZeros ==
    ASSUME NEW f, Summable(f), \A x \in DOMAIN f : f[x] = 0
    PROVE  SumOf(f) = 0
<1> DEFINE g == Partial(f)
           T == {t \in SUBSET DOMAIN f : g[t] # 0}
<1> SUFFICES ASSUME T # {} PROVE FALSE
  BY SumIsPartial
<1>1. /\ T \subseteq SUBSET DOMAIN f
      /\ \A t \in SUBSET DOMAIN f : t \in T <=> g[t] # 0
  OBVIOUS
<1> HIDE DEF T
<1>2. PICK t \in T : \A u \in T : u \subseteq t => u = t
  BY <1>1, Smallest DEF Summable
<1>3. t \subseteq DOMAIN f /\ g[t] # 0 /\ g[t] = IF t = {} THEN 0 ELSE f[Some(t)] + g[t \ {Some(t)}]
  <2>1. t \in SUBSET DOMAIN f /\ g[t] # 0
    BY <1>1, <1>2
  <2>2. Sums(f, DOMAIN f, g)
    BY PartialSums
  <2> QED
    BY <2>1, <2>2 DEF Sums
<1>4. t # {} /\ Some(t) \in t
  BY <1>3 DEF Some
<1>5. g[t \ {Some(t)}] = 0
  BY <1>1, <1>2, <1>3, <1>4
<1> QED
  BY <1>3, <1>4, <1>5

\* The terms of f, one place to the front
Moved(n, f, g) ==
    /\ DOMAIN f = 2 .. n + 1 /\ DOMAIN g = 1 .. n
    /\ \A i \in 1 .. n : g[i] = f[i + 1]

Back(n, s) == {i \in 1 .. n : i + 1 \in s}

\* The sum of terms does not depend on where they stand.
LEMMA SumMoved ==
    ASSUME NEW n \in Nat, NEW f, NEW g, Summable(f), Summable(g), Moved(n, f, g)
    PROVE  SumOf(g) = SumOf(f)
<1> DEFINE T == {s \in SUBSET DOMAIN f : Partial(f)[s] # Partial(g)[Back(n, s)]}
<1>1. /\ T \subseteq SUBSET DOMAIN f
      /\ \A s \in SUBSET DOMAIN f : s \in T <=> Partial(f)[s] # Partial(g)[Back(n, s)]
  OBVIOUS
<1> HIDE DEF T
<1>2. CASE T # {}
  <2>1. PICK s \in T : \A u \in T : u \subseteq s => u = s
    BY <1>1, <1>2, Smallest DEF Summable
  <2>2. s \subseteq DOMAIN f /\ Partial(f)[s] # Partial(g)[Back(n, s)]
    BY <1>1, <2>1
  <2>3. CASE s = {}
    <3>1. Partial(f)[{}] = 0 /\ Partial(g)[{}] = 0
      BY PartialSums DEF Sums
    <3>2. Back(n, s) = {}
      BY <2>3 DEF Back
    <3> QED
      BY <2>2, <2>3, <3>1, <3>2
  <2>4. CASE s # {}
    <3>1. PICK x \in s : TRUE
      BY <2>4
    <3> DEFINE z == x - 1
               b == Back(n, s)
    <3>2. /\ z \in b /\ b \subseteq DOMAIN g /\ g[z] = f[x]
          /\ Back(n, s \ {x}) = b \ {z}
      BY <2>2, <3>1 DEF Moved, Back
    <3> HIDE DEF b, z
    <3>3. s \ {x} \subseteq DOMAIN f /\ s \ {x} \subseteq s /\ s \ {x} # s
      BY <2>2, <3>1
    <3>4. Partial(f)[s \ {x}] = Partial(g)[Back(n, s \ {x})]
      BY <1>1, <2>1, <3>3
    <3>5. Partial(f)[s] = f[x] + Partial(f)[s \ {x}]
      BY <2>2, AnyFirst
    <3>6. Partial(g)[b] = g[z] + Partial(g)[b \ {z}]
      BY <3>2, AnyFirst
    <3> QED
      BY <2>2, <3>2, <3>4, <3>5, <3>6 DEF b
  <2> QED
    BY <2>3, <2>4
<1>3. CASE T = {}
  <2>1. Partial(f)[DOMAIN f] = Partial(g)[Back(n, DOMAIN f)]
    BY <1>1, <1>3
  <2>2. Back(n, DOMAIN f) = DOMAIN g
    BY DEF Moved, Back
  <2> QED
    BY <2>1, <2>2, SumIsPartial
<1> QED
  BY <1>2, <1>3

\* A queue whose head was taken
LEMMA SumTail ==
    ASSUME NEW n \in Nat, NEW f, Summable(f), DOMAIN f = 1 .. n + 1,
           NEW g, Summable(g), DOMAIN g = 1 .. n, \A i \in 1 .. n : g[i] = f[i + 1]
    PROVE  SumOf(f) = f[1] + SumOf(g)
<1> DEFINE h == [i \in 2 .. n + 1 |-> f[i]]
<1>1. /\ DOMAIN h = 2 .. n + 1 /\ 1 \notin DOMAIN h /\ DOMAIN f = DOMAIN h \cup {1}
      /\ \A i \in DOMAIN h : h[i] = f[i] /\ h[i] \in Int
      /\ \A i \in 1 .. n : g[i] = h[i + 1]
  <2>1. DOMAIN h = 2 .. n + 1 /\ 1 \notin DOMAIN h /\ DOMAIN f = DOMAIN h \cup {1}
    OBVIOUS
  <2>2. \A i \in DOMAIN h : h[i] = f[i] /\ h[i] \in Int
    BY <2>1 DEF Summable
  <2>3. \A i \in 1 .. n : g[i] = h[i + 1]
    OBVIOUS
  <2> QED
    BY <2>1, <2>2, <2>3
<1> HIDE DEF h
<1>2. Summable(h)
  <2>1. DOMAIN h \subseteq DOMAIN f
    BY <1>1
  <2> QED
    BY <1>1, <2>1, FS_Subset DEF Summable
<1>3. SumOf(f) = f[1] + SumOf(h)
  BY <1>1, <1>2, SumWithout
<1>4. SumOf(g) = SumOf(h)
  BY <1>1, <1>2, SumMoved DEF Moved
<1> QED
  BY <1>3, <1>4
-----------------------------------------------------------------------------
(* What is counted: the inductive invariant *)

\* A view of the statistics, or a report: numbers by key
IsTable(t, keys) ==
    /\ t = [k \in DOMAIN t |-> t[k]] /\ DOMAIN t \subseteq keys
    /\ \A k \in DOMAIN t : t[k] \in Int

InMain(m) ==
    /\ m.what \in {"request", "reply", "notify", "finish"}
    /\ m.what = "request" => m.req \in Requests
    /\ m.what = "reply" => m.answer \in Answers

InMail(m) ==
    /\ m.what \in {"request", "metric", "finish"}
    /\ m.what = "request" => m.req \in Requests /\ Http!Handler(m.req.path) = "StatsCollector"
    /\ m.what = "metric" => m.count \in Int

Booked ==
    /\ book = [view \in Stats!Views |-> book[view]]
    /\ \A view \in Stats!Views : IsTable(book[view], Stats!Keys(view))

Writing ==
    /\ out = [c \in Connections |-> out[c]]
    /\ \A c \in Connections :
          /\ conn[c] = "writing" => out[c] \in Answers
          /\ conn[c] # "writing" => out[c] = NoAnswer

AccountsInv ==
    /\ owed \in [Stats!Cells -> Int] /\ selector \in [Stats!Sessions -> Int]
    /\ Booked /\ Writing
    /\ \A i \in DOMAIN main : InMain(main[i])
    /\ \A i \in DOMAIN mail : InMail(mail[i])
    /\ Accounted

Worth(m, cell) == CASE m.what = "metric" -> InMetric(m, cell)
                    [] m.what = "reply" -> In(m.answer.report, cell)
                    [] OTHER -> 0
Worths(q, cell) == [i \in DOMAIN q |-> Worth(q[i], cell)]

SessionTerms(counters, cell) ==
    [s \in Stats!Sessions |-> IF cell \in Stats!SessionCells(s) THEN counters[s] ELSE 0]
WriteTerms(answers, cell) ==
    [c \in Connections |-> IF answers[c] = NoAnswer THEN 0 ELSE In(answers[c].report, cell)]
HeldIn(tables, cell) ==
    IF cell[2] \in DOMAIN tables[cell[1]] THEN tables[cell[1]][cell[2]] ELSE 0

-----------------------------------------------------------------------------
\* What a view holds may be reported.
LEMMA Tables ==
    ASSUME NEW t, NEW S \in SUBSET Stats!Cells, IsTable(t, S)
    PROVE  t \in Reports
BY DEF IsTable, Reports

\* An answer holds a number in every cell, 0 where it has none.
LEMMA InReport ==
    ASSUME NEW answer \in Answers, NEW cell
    PROVE  In(answer.report, cell) \in Int
<1>1. answer.report \in Reports
  BY DEF Answers
<1> QED
  BY <1>1 DEF Reports, In

\* An answer without a report holds nothing.
LEMMA NothingReported ==
    /\ NoReport \in Reports
    /\ \A cell : In(NoReport, cell) = 0
<1>1. NoReport \in [{} -> Int] /\ DOMAIN NoReport = {}
  BY DEF NoReport
<1> QED
  BY <1>1 DEF Reports, In

\* An amount in a cell of a message
LEMMA WorthInt ==
    ASSUME NEW m, InMain(m) \/ InMail(m), NEW cell
    PROVE  Worth(m, cell) \in Int
BY InReport DEF InMain, InMail, Worth, InMetric

\* What a queue holds
LEMMA WorthsSum ==
    ASSUME NEW q, IsQueue(q), \A i \in DOMAIN q : InMain(q[i]) \/ InMail(q[i]), NEW cell
    PROVE  Summable(Worths(q, cell)) /\ SumOf(Worths(q, cell)) \in Int
<1>1. DOMAIN q = 1 .. Len(q) /\ Len(q) \in Nat
  BY LenProperties DEF IsQueue
<1>2. IsFiniteSet(DOMAIN q)
  BY <1>1, FS_Interval
<1>3. Summable(Worths(q, cell))
  BY <1>2, WorthInt DEF Summable, Worths
<1> QED
  BY <1>3, SumInt

\* A message put into a queue brings what it holds.
LEMMA WorthsPut ==
    ASSUME NEW q, IsQueue(q), \A i \in DOMAIN q : InMain(q[i]) \/ InMail(q[i]), NEW cell,
           NEW m, InMain(m) \/ InMail(m)
    PROVE  /\ SumOf(Worths(Append(q, m), cell)) = Worth(m, cell) + SumOf(Worths(q, cell))
           /\ \A i \in DOMAIN Append(q, m) :
                  Append(q, m)[i] = m \/ (i \in DOMAIN q /\ Append(q, m)[i] = q[i])
<1> DEFINE longer == Append(q, m)
           f == Worths(longer, cell)
           g == Worths(q, cell)
           x == Len(q) + 1
<1>1. /\ IsQueue(longer) /\ Len(q) \in Nat /\ DOMAIN q = 1 .. Len(q)
      /\ DOMAIN longer = 1 .. Len(q) + 1
      /\ \A i \in 1 .. Len(q) : longer[i] = q[i]
      /\ longer[Len(q) + 1] = m
  BY Pushed
<1> HIDE DEF longer
<1>2. \A i \in DOMAIN longer : longer[i] = m \/ (i \in DOMAIN q /\ longer[i] = q[i])
  <2> SUFFICES ASSUME NEW i \in DOMAIN longer
               PROVE  longer[i] = m \/ (i \in DOMAIN q /\ longer[i] = q[i])
    OBVIOUS
  <2>1. i \in 1 .. Len(q) \/ i = Len(q) + 1
    BY <1>1
  <2> QED
    BY <1>1, <2>1
<1>3. Summable(f)
  BY <1>1, <1>2, WorthsSum
<1>4. Summable(g)
  BY WorthsSum
<1>5. /\ x \in DOMAIN f /\ x \notin DOMAIN g /\ DOMAIN f = DOMAIN g \cup {x}
      /\ f[x] = Worth(m, cell)
      /\ \A y \in DOMAIN g : g[y] = f[y]
  BY <1>1 DEF Worths
<1> HIDE DEF f, g, x
<1>6. SumOf(f) = f[x] + SumOf(g)
  BY <1>3, <1>4, <1>5, SumWithout
<1> QED
  BY <1>2, <1>5, <1>6 DEF f, g, longer

\* The head of a queue takes away what it holds.
LEMMA WorthsTake ==
    ASSUME NEW q, IsQueue(q), q # <<>>, \A i \in DOMAIN q : InMain(q[i]) \/ InMail(q[i]), NEW cell
    PROVE  /\ SumOf(Worths(q, cell)) = Worth(Head(q), cell) + SumOf(Worths(Tail(q), cell))
           /\ \E i \in DOMAIN q : Head(q) = q[i]
           /\ \A i \in DOMAIN Tail(q) : i + 1 \in DOMAIN q /\ Tail(q)[i] = q[i + 1]
<1> DEFINE shorter == Tail(q)
           f == Worths(q, cell)
           g == Worths(shorter, cell)
           n == Len(q) - 1
<1>1. /\ IsQueue(shorter) /\ Head(q) = q[1] /\ Len(q) \in Nat /\ Len(q) >= 1
      /\ DOMAIN q = 1 .. Len(q) /\ DOMAIN shorter = 1 .. Len(q) - 1
      /\ \A i \in 1 .. Len(q) - 1 : shorter[i] = q[i + 1]
  BY Popped
<1> HIDE DEF shorter
<1>2. /\ n \in Nat /\ n + 1 = Len(q) /\ 1 \in DOMAIN q
      /\ \A i \in DOMAIN shorter : i + 1 \in DOMAIN q /\ shorter[i] = q[i + 1]
  BY <1>1
<1>3. Summable(f)
  BY WorthsSum
<1>4. Summable(g)
  BY <1>1, <1>2, WorthsSum
<1>5. /\ DOMAIN f = 1 .. n + 1 /\ DOMAIN g = 1 .. n /\ f[1] = Worth(Head(q), cell)
      /\ \A i \in 1 .. n : g[i] = f[i + 1]
  BY <1>1, <1>2 DEF Worths
<1> HIDE DEF f, g, n
<1>6. SumOf(f) = f[1] + SumOf(g)
  BY <1>2, <1>3, <1>4, <1>5, SumTail
<1> QED
  BY <1>1, <1>2, <1>5, <1>6 DEF f, g, shorter

\* The sums over sessions and over connections
LEMMA SessionsSum ==
    ASSUME NEW counters \in [Stats!Sessions -> Int], NEW cell
    PROVE  Summable(SessionTerms(counters, cell)) /\ SumOf(SessionTerms(counters, cell)) \in Int
<1>1. IsFiniteSet(Stats!Sessions)
  BY InterfaceAssumption, FS_Product DEF Stats!Sessions
<1>2. Summable(SessionTerms(counters, cell))
  BY <1>1 DEF SessionTerms, Summable
<1> QED
  BY <1>2, SumInt

\* What the answers hold that are being written
LEMMA WritesSum ==
    ASSUME NEW answers, \A c \in Connections : answers[c] \in Answers \cup {NoAnswer}, NEW cell
    PROVE  Summable(WriteTerms(answers, cell)) /\ SumOf(WriteTerms(answers, cell)) \in Int
<1>1. Summable(WriteTerms(answers, cell))
  BY InReport, InterfaceAssumption DEF WriteTerms, Summable
<1> QED
  BY <1>1, SumInt

\* A cell is a view and one of its keys.
LEMMA CellIs ==
    ASSUME NEW cell \in Stats!Cells
    PROVE  /\ cell[1] \in Stats!Views /\ cell[2] \in Stats!Keys(cell[1])
           /\ cell = <<cell[1], cell[2]>>
<1>1. PICK view \in Stats!Views : cell \in {view} \X Stats!Keys(view)
  BY DEF Stats!Cells
<1> QED
  BY <1>1

\* What StatsCollector holds
LEMMA HeldInt ==
    ASSUME NEW tables, \A view \in Stats!Views : IsTable(tables[view], Stats!Keys(view)),
           NEW cell \in Stats!Cells
    PROVE  HeldIn(tables, cell) \in Int
<1>1. IsTable(tables[cell[1]], Stats!Keys(cell[1]))
  BY CellIs
<1> QED
  BY <1>1 DEF IsTable, HeldIn

\* In the mail only metrics hold anything.
LEMMA MailWorths ==
    ASSUME NEW q, \A i \in DOMAIN q : InMail(q[i]), NEW cell
    PROVE  [i \in DOMAIN q |-> IF q[i].what = "metric" THEN InMetric(q[i], cell) ELSE 0]
             = Worths(q, cell)
BY DEF InMail, Worths, Worth

\* In the queue of the main thread only replies hold anything.
LEMMA MainWorths ==
    ASSUME NEW q, \A i \in DOMAIN q : InMain(q[i]), NEW cell
    PROVE  [i \in DOMAIN q |-> IF q[i].what = "reply" THEN In(q[i].answer.report, cell) ELSE 0]
             = Worths(q, cell)
BY DEF InMain, Worths, Worth

\* The five places of a cell, as the sums above
LEMMA Places ==
    ASSUME \A i \in DOMAIN main : InMain(main[i]), \A i \in DOMAIN mail : InMail(mail[i]), NEW cell
    PROVE  Inside(cell) = SumOf(SessionTerms(selector, cell)) + SumOf(Worths(mail, cell))
                            + HeldIn(book, cell) + SumOf(Worths(main, cell))
                            + SumOf(WriteTerms(out, cell))
<1>1. SumOf([i \in DOMAIN mail |-> IF mail[i].what = "metric" THEN InMetric(mail[i], cell) ELSE 0])
        = SumOf(Worths(mail, cell))
  BY MailWorths
<1>2. SumOf([i \in DOMAIN main |->
                IF main[i].what = "reply" THEN In(main[i].answer.report, cell) ELSE 0])
        = SumOf(Worths(main, cell))
  BY MainWorths
<1>3. Stats!Held(cell) = HeldIn(book, cell)
  BY DEF Stats!Held, HeldIn
<1>4. BeingWritten(cell) = SumOf(WriteTerms(out, cell))
  BY DEF BeingWritten, WriteTerms
<1>5. SumOf([s \in Stats!Sessions |-> IF cell \in Stats!SessionCells(s) THEN selector[s] ELSE 0])
        = SumOf(SessionTerms(selector, cell))
  BY DEF SessionTerms
<1> QED
  BY <1>1, <1>2, <1>3, <1>4, <1>5 DEF Inside

\* A step is sound if what it adds to a cell's debt is what it adds to the places.
LEMMA Balance ==
    ASSUME InterfaceInv, InterfaceInv', AccountsInv,
           owed' \in [Stats!Cells -> Int], selector' \in [Stats!Sessions -> Int],
           Booked', Writing',
           \A i \in DOMAIN main' : InMain(main'[i]),
           \A i \in DOMAIN mail' : InMail(mail'[i]),
           \A cell \in Stats!Cells :
               owed'[cell] - owed[cell] =
                   (SumOf(SessionTerms(selector', cell)) - SumOf(SessionTerms(selector, cell)))
                 + (SumOf(Worths(mail', cell)) - SumOf(Worths(mail, cell)))
                 + (HeldIn(book', cell) - HeldIn(book, cell))
                 + (SumOf(Worths(main', cell)) - SumOf(Worths(main, cell)))
                 + (SumOf(WriteTerms(out', cell)) - SumOf(WriteTerms(out, cell)))
    PROVE  AccountsInv'
<1> SUFFICES ASSUME NEW cell \in Stats!Cells
             PROVE  owed'[cell] = Inside(cell)'
  BY DEF AccountsInv, Accounted
<1> DEFINE S == SumOf(SessionTerms(selector, cell))
           M == SumOf(Worths(mail, cell))
           H == HeldIn(book, cell)
           R == SumOf(Worths(main, cell))
           W == SumOf(WriteTerms(out, cell))
           S2 == SumOf(SessionTerms(selector', cell))
           M2 == SumOf(Worths(mail', cell))
           H2 == HeldIn(book', cell)
           R2 == SumOf(Worths(main', cell))
           W2 == SumOf(WriteTerms(out', cell))
<1>1. Inside(cell) = S + M + H + R + W
  BY Places DEF AccountsInv
<1>2. Inside(cell)' = S2 + M2 + H2 + R2 + W2
  <2>1. SumOf([i \in DOMAIN mail' |-> IF mail'[i].what = "metric" THEN InMetric(mail'[i], cell) ELSE 0])
          = M2
    BY MailWorths
  <2>2. SumOf([i \in DOMAIN main' |->
                  IF main'[i].what = "reply" THEN In(main'[i].answer.report, cell) ELSE 0])
          = R2
    BY MainWorths
  <2>3. Stats!Held(cell)' = H2
    BY DEF Stats!Held, HeldIn
  <2>4. BeingWritten(cell)' = W2
    BY DEF BeingWritten, WriteTerms
  <2>5. SumOf([s \in Stats!Sessions |-> IF cell \in Stats!SessionCells(s) THEN selector'[s] ELSE 0])
          = S2
    BY DEF SessionTerms
  <2> HIDE DEF S2, M2, H2, R2, W2
  <2> QED
    BY <2>1, <2>2, <2>3, <2>4, <2>5 DEF Inside
<1>3. S \in Int /\ S2 \in Int
  BY SessionsSum DEF AccountsInv
<1>4. M \in Int /\ R \in Int
  BY WorthsSum DEF AccountsInv, InterfaceInv, Types
<1>5. M2 \in Int /\ R2 \in Int
  BY WorthsSum DEF InterfaceInv, Types
<1>6. H \in Int /\ H2 \in Int
  BY HeldInt DEF AccountsInv, Booked
<1>7. W \in Int /\ W2 \in Int
  BY WritesSum DEF AccountsInv, Writing
<1>8. owed[cell] = Inside(cell) /\ owed[cell] \in Int /\ owed'[cell] \in Int
  BY DEF AccountsInv, Accounted
<1>9. owed'[cell] - owed[cell] = (S2 - S) + (M2 - M) + (H2 - H) + (R2 - R) + (W2 - W)
  OBVIOUS
<1> HIDE DEF S, M, H, R, W, S2, M2, H2, R2, W2
<1> QED
  BY <1>1, <1>2, <1>3, <1>4, <1>5, <1>6, <1>7, <1>8, <1>9
-----------------------------------------------------------------------------
\* An answer that is sent: it takes what it holds to the main queue, or out of
\* the program.
LEMMA AnswerSent ==
    ASSUME InterfaceInv, AccountsInv, NEW p, IsQueue(p), \A i \in DOMAIN p : InMain(p[i]),
           NEW c \in Connections, conn[c] = "handling", NEW answer \in Answers,
           SendReply(p, c, answer), out' = out
    PROVE  /\ \A i \in DOMAIN main' : InMain(main'[i])
           /\ Writing' /\ owed' \in [Stats!Cells -> Int]
           /\ \A cell \in Stats!Cells :
                 owed'[cell] - owed[cell] =
                     (SumOf(Worths(main', cell)) - SumOf(Worths(p, cell))) - In(answer.report, cell)
<1>1. owed \in [Stats!Cells -> Int] /\ Writing
  BY DEF AccountsInv
<1>2. \A cell : SumOf(Worths(p, cell)) \in Int
  BY WorthsSum
<1>3. \A cell : In(answer.report, cell) \in Int
  BY InReport
<1>4. CASE Up("HttpController") /\ Accepted(p, c, answer)
  <2> DEFINE m == Reply(c, answer)
  <2>1. /\ main' = Append(p, m) /\ conn' = conn /\ owed' = owed
        /\ InMain(m) /\ \A cell : Worth(m, cell) = In(answer.report, cell)
    BY <1>4 DEF Accepted, Reply, InMain, Worth
  <2> HIDE DEF m
  <2>2. ASSUME NEW cell
        PROVE  /\ SumOf(Worths(Append(p, m), cell)) = Worth(m, cell) + SumOf(Worths(p, cell))
               /\ \A i \in DOMAIN Append(p, m) :
                     Append(p, m)[i] = m \/ (i \in DOMAIN p /\ Append(p, m)[i] = p[i])
    BY <2>1, WorthsPut
  <2>3. \A i \in DOMAIN main' : InMain(main'[i])
    BY <2>1, <2>2
  <2>4. ASSUME NEW cell \in Stats!Cells
        PROVE  owed'[cell] - owed[cell] =
                   (SumOf(Worths(main', cell)) - SumOf(Worths(p, cell))) - In(answer.report, cell)
    <3>1. SumOf(Worths(main', cell)) = In(answer.report, cell) + SumOf(Worths(p, cell))
      BY <2>1, <2>2
    <3> QED
      BY <1>1, <1>2, <1>3, <2>1, <3>1
  <2>5. Writing'
    BY <1>1, <2>1 DEF Writing
  <2> QED
    BY <1>1, <2>1, <2>3, <2>4, <2>5
<1>5. CASE /\ ~ Up("HttpController") /\ main' = p /\ Http!Release(c)
           /\ Leaves(LAMBDA cell : In(answer.report, cell))
  <2>1. owed' = [cell \in Stats!Cells |-> owed[cell] - In(answer.report, cell)]
    BY <1>5 DEF Leaves
  <2>2. conn' = [conn EXCEPT ![c] = Http!Released(c)] /\ Http!Released(c) # "writing"
    BY <1>5 DEF Http!Release, Http!Become, Http!Released
  <2>3. Writing'
    BY <1>1, <2>2 DEF Writing, InterfaceInv, Types
  <2>4. owed' \in [Stats!Cells -> Int]
    BY <1>1, <1>3, <2>1
  <2>5. ASSUME NEW cell \in Stats!Cells
        PROVE  owed'[cell] - owed[cell] =
                   (SumOf(Worths(main', cell)) - SumOf(Worths(p, cell))) - In(answer.report, cell)
    <3>1. owed'[cell] = owed[cell] - In(answer.report, cell) /\ main' = p
      BY <1>5, <2>1
    <3> QED
      BY <1>1, <1>2, <1>3, <3>1
  <2> QED
    BY <1>5, <2>3, <2>4, <2>5
<1> QED
  BY <1>4, <1>5 DEF SendReply

\* An answer is being written: its connection had none.
LEMMA AnswerWritten ==
    ASSUME AccountsInv, NEW c \in Connections, conn[c] # "writing", NEW answer \in Answers,
           conn \in [Connections -> {"none", "reading", "handling", "writing", "closed", "undefined"}],
           conn' = [conn EXCEPT ![c] = "writing"], out' = [out EXCEPT ![c] = answer]
    PROVE  /\ Writing'
           /\ \A cell : SumOf(WriteTerms(out', cell))
                          = SumOf(WriteTerms(out, cell)) + In(answer.report, cell)
<1>1. Writing /\ answer # NoAnswer
  BY InterfaceAssumption DEF AccountsInv
<1>2. /\ out'[c] = answer /\ out[c] = NoAnswer
      /\ \A d \in Connections : d # c => out'[d] = out[d] /\ conn'[d] = conn[d]
      /\ conn'[c] = "writing" /\ out' = [d \in Connections |-> out'[d]]
  BY <1>1 DEF Writing
<1>3. Writing'
  BY <1>1, <1>2 DEF Writing
<1>4. /\ \A d \in Connections : out[d] \in Answers \cup {NoAnswer}
      /\ \A d \in Connections : out'[d] \in Answers \cup {NoAnswer}
  BY <1>1, <1>3 DEF Writing
<1>5. ASSUME NEW cell
      PROVE  SumOf(WriteTerms(out', cell)) = SumOf(WriteTerms(out, cell)) + In(answer.report, cell)
  <2> DEFINE f == WriteTerms(out, cell)
             g == WriteTerms(out', cell)
  <2>1. Summable(f) /\ Summable(g) /\ SumOf(f) \in Int
    BY <1>4, WritesSum
  <2>2. /\ c \in DOMAIN f /\ DOMAIN g = DOMAIN f /\ \A d \in DOMAIN f : d # c => g[d] = f[d]
        /\ f[c] = 0 /\ g[c] = In(answer.report, cell)
    BY <1>1, <1>2 DEF WriteTerms
  <2> HIDE DEF f, g
  <2>3. SumOf(g) = SumOf(f) - f[c] + g[c]
    BY <2>1, <2>2, SumChanged
  <2>4. g[c] \in Int
    BY <2>2, InReport
  <2> QED
    BY <2>1, <2>2, <2>3, <2>4 DEF f, g
<1> QED
  BY <1>3, <1>5

\* What does not change
LEMMA Unmoved ==
    ASSUME AccountsInv, InterfaceInv
    PROVE  /\ selector' = selector =>
                 /\ selector' \in [Stats!Sessions -> Int]
                 /\ \A cell : SumOf(SessionTerms(selector', cell)) - SumOf(SessionTerms(selector, cell)) = 0
           /\ mail' = mail =>
                 /\ \A i \in DOMAIN mail' : InMail(mail'[i])
                 /\ \A cell : SumOf(Worths(mail', cell)) - SumOf(Worths(mail, cell)) = 0
           /\ main' = main =>
                 /\ \A i \in DOMAIN main' : InMain(main'[i])
                 /\ \A cell : SumOf(Worths(main', cell)) - SumOf(Worths(main, cell)) = 0
           /\ book' = book =>
                 /\ Booked'
                 /\ \A cell \in Stats!Cells : HeldIn(book', cell) - HeldIn(book, cell) = 0
           /\ out' = out =>
                 \A cell : SumOf(WriteTerms(out', cell)) - SumOf(WriteTerms(out, cell)) = 0
           /\ out' = out /\ conn' = conn => Writing'
           /\ owed' = owed =>
                 /\ owed' \in [Stats!Cells -> Int]
                 /\ \A cell \in Stats!Cells : owed'[cell] - owed[cell] = 0
<1>1. \A cell : /\ SumOf(SessionTerms(selector, cell)) \in Int
                /\ SumOf(Worths(mail, cell)) \in Int
                /\ SumOf(Worths(main, cell)) \in Int
                /\ SumOf(WriteTerms(out, cell)) \in Int
  BY SessionsSum, WorthsSum, WritesSum DEF AccountsInv, InterfaceInv, Types, Writing
<1>2. \A cell \in Stats!Cells : HeldIn(book, cell) \in Int
  BY HeldInt DEF AccountsInv, Booked
<1>3. selector' = selector =>
          /\ selector' \in [Stats!Sessions -> Int]
          /\ \A cell : SumOf(SessionTerms(selector', cell)) - SumOf(SessionTerms(selector, cell)) = 0
  BY <1>1 DEF AccountsInv
<1>4. mail' = mail =>
          /\ \A i \in DOMAIN mail' : InMail(mail'[i])
          /\ \A cell : SumOf(Worths(mail', cell)) - SumOf(Worths(mail, cell)) = 0
  BY <1>1 DEF AccountsInv
<1>5. main' = main =>
          /\ \A i \in DOMAIN main' : InMain(main'[i])
          /\ \A cell : SumOf(Worths(main', cell)) - SumOf(Worths(main, cell)) = 0
  BY <1>1 DEF AccountsInv
<1>6. book' = book =>
          /\ Booked'
          /\ \A cell \in Stats!Cells : HeldIn(book', cell) - HeldIn(book, cell) = 0
  <2> SUFFICES ASSUME book' = book
               PROVE  /\ Booked'
                      /\ \A cell \in Stats!Cells : HeldIn(book', cell) - HeldIn(book, cell) = 0
    OBVIOUS
  <2>1. Booked'
    BY DEF AccountsInv, Booked
  <2>2. ASSUME NEW cell \in Stats!Cells
        PROVE  HeldIn(book', cell) - HeldIn(book, cell) = 0
    <3>1. HeldIn(book', cell) = HeldIn(book, cell)
      OBVIOUS
    <3> QED
      BY <1>2, <3>1
  <2> QED
    BY <2>1, <2>2
<1>7. out' = out =>
          \A cell : SumOf(WriteTerms(out', cell)) - SumOf(WriteTerms(out, cell)) = 0
  BY <1>1
<1>8. out' = out /\ conn' = conn => Writing'
  BY DEF AccountsInv, Writing
<1>9. owed' = owed =>
          /\ owed' \in [Stats!Cells -> Int]
          /\ \A cell \in Stats!Cells : owed'[cell] - owed[cell] = 0
  BY DEF AccountsInv
<1> QED
  BY <1>3, <1>4, <1>5, <1>6, <1>7, <1>8, <1>9

\* The main thread takes a message out of its queue.
LEMMA MainHead ==
    ASSUME AccountsInv, InterfaceInv, main # <<>>
    PROVE  /\ IsQueue(Tail(main)) /\ InMain(Head(main))
           /\ \A i \in DOMAIN Tail(main) : InMain(Tail(main)[i])
           /\ \A cell : /\ SumOf(Worths(main, cell)) = Worth(Head(main), cell) + SumOf(Worths(Tail(main), cell))
                         /\ SumOf(Worths(main, cell)) \in Int /\ SumOf(Worths(Tail(main), cell)) \in Int
                         /\ Worth(Head(main), cell) \in Int
<1>1. IsQueue(main) /\ \A i \in DOMAIN main : InMain(main[i])
  BY DEF AccountsInv, InterfaceInv, Types
<1>2. IsQueue(Tail(main))
  BY <1>1, Popped
<1>3. ASSUME NEW cell
      PROVE  /\ SumOf(Worths(main, cell)) = Worth(Head(main), cell) + SumOf(Worths(Tail(main), cell))
             /\ \E i \in DOMAIN main : Head(main) = main[i]
             /\ \A i \in DOMAIN Tail(main) : i + 1 \in DOMAIN main /\ Tail(main)[i] = main[i + 1]
  BY <1>1, WorthsTake
<1>4. InMain(Head(main)) /\ \A i \in DOMAIN Tail(main) : InMain(Tail(main)[i])
  BY <1>1, <1>3
<1> QED
  BY <1>1, <1>2, <1>3, <1>4, WorthsSum, WorthInt

\* The main thread passes on what a message holds.
LEMMA MainAccounts == InterfaceInv /\ InterfaceInv' /\ AccountsInv /\ MainStep => AccountsInv'
<1> SUFFICES ASSUME InterfaceInv, InterfaceInv', AccountsInv, MainStep
             PROVE  AccountsInv'
  OBVIOUS
<1>1. /\ main # <<>> /\ selector' = selector /\ book' = book /\ mail' = mail
  BY DEF MainStep, ControllerRequest, HttpControllerReply, EvtSlackNotify, EvtFinish, Received, statsVars
<1>2. CASE ControllerRequest
  <2> DEFINE m == Head(main)
             c == m.conn
             answer == Answer(m.n, m.req, NoReport)
  <2>1. m.what = "request" /\ SendReply(Tail(main), c, answer) /\ out' = out
    BY <1>2 DEF ControllerRequest, Received
  <2>2. c \in Connections /\ conn[c] = "handling" /\ m.n \in Nat
    <3>1. m.conn \in Connections /\ Carries(m, m.conn) /\ m.n = Number(m)
      BY <1>1, <2>1, MainTakes DEF Carries, Number
    <3> QED
      BY <1>1, <3>1, MainTakes DEF InterfaceInv, Types
  <2>3. answer \in Answers /\ (\A cell : In(answer.report, cell) = 0 /\ Worth(m, cell) = 0)
    BY <1>1, <2>1, <2>2, MainHead, NothingReported DEF Answer, Answers, InMain, Worth
  <2> HIDE DEF answer, c, m
  <2>4. /\ IsQueue(Tail(main)) /\ \A i \in DOMAIN Tail(main) : InMain(Tail(main)[i])
    BY <1>1, MainHead
  <2>5. /\ \A i \in DOMAIN main' : InMain(main'[i])
        /\ Writing' /\ owed' \in [Stats!Cells -> Int]
        /\ \A cell \in Stats!Cells :
              owed'[cell] - owed[cell] =
                  (SumOf(Worths(main', cell)) - SumOf(Worths(Tail(main), cell))) - In(answer.report, cell)
    BY <2>1, <2>2, <2>3, <2>4, AnswerSent
  <2>6. \A cell : SumOf(Worths(main', cell)) \in Int
    BY <2>5, WorthsSum DEF InterfaceInv, Types
  <2>7. ASSUME NEW cell \in Stats!Cells
        PROVE  owed'[cell] - owed[cell] =
                   (SumOf(SessionTerms(selector', cell)) - SumOf(SessionTerms(selector, cell)))
                 + (SumOf(Worths(mail', cell)) - SumOf(Worths(mail, cell)))
                 + (HeldIn(book', cell) - HeldIn(book, cell))
                 + (SumOf(Worths(main', cell)) - SumOf(Worths(main, cell)))
                 + (SumOf(WriteTerms(out', cell)) - SumOf(WriteTerms(out, cell)))
    <3>1. /\ SumOf(Worths(main, cell)) = SumOf(Worths(Tail(main), cell))
          /\ SumOf(Worths(main, cell)) \in Int
      BY <1>1, <2>3, MainHead DEF m
    <3>2. /\ SumOf(SessionTerms(selector', cell)) - SumOf(SessionTerms(selector, cell)) = 0
          /\ SumOf(Worths(mail', cell)) - SumOf(Worths(mail, cell)) = 0
          /\ HeldIn(book', cell) - HeldIn(book, cell) = 0
          /\ SumOf(WriteTerms(out', cell)) - SumOf(WriteTerms(out, cell)) = 0
      BY <1>1, <2>1, Unmoved
    <3>3. owed'[cell] - owed[cell] = SumOf(Worths(main', cell)) - SumOf(Worths(main, cell))
      BY <2>3, <2>5, <2>6, <3>1
    <3> QED
      BY <2>6, <3>1, <3>2, <3>3
  <2> QED
    BY <1>1, <2>5, <2>7, Unmoved, Balance
<1>3. CASE HttpControllerReply
  <2> DEFINE m == Head(main)
             c == m.conn
             answer == m.answer
  <2>1. /\ m.what = "reply" /\ owed' = owed /\ main' = Tail(main)
        /\ conn' = [conn EXCEPT ![c] = "writing"] /\ out' = [out EXCEPT ![c] = answer]
    BY <1>3 DEF HttpControllerReply, Received, Http!Write, Http!Become
  <2>2. /\ c \in Connections /\ conn[c] = "handling"
        /\ conn \in [Connections -> {"none", "reading", "handling", "writing", "closed", "undefined"}]
    <3>1. m.conn \in Connections /\ Carries(m, m.conn)
      BY <1>1, <2>1, MainTakes DEF Carries
    <3> QED
      BY <1>1, <3>1, MainTakes DEF InterfaceInv, Types
  <2>3. answer \in Answers /\ \A cell : Worth(m, cell) = In(answer.report, cell)
    BY <1>1, <2>1, MainHead DEF InMain, Worth
  <2> HIDE DEF answer, c, m
  <2>4. /\ Writing'
        /\ \A cell : SumOf(WriteTerms(out', cell))
                       = SumOf(WriteTerms(out, cell)) + In(answer.report, cell)
    BY <2>1, <2>2, <2>3, AnswerWritten
  <2>5. ASSUME NEW cell \in Stats!Cells
        PROVE  owed'[cell] - owed[cell] =
                   (SumOf(SessionTerms(selector', cell)) - SumOf(SessionTerms(selector, cell)))
                 + (SumOf(Worths(mail', cell)) - SumOf(Worths(mail, cell)))
                 + (HeldIn(book', cell) - HeldIn(book, cell))
                 + (SumOf(Worths(main', cell)) - SumOf(Worths(main, cell)))
                 + (SumOf(WriteTerms(out', cell)) - SumOf(WriteTerms(out, cell)))
    <3>1. /\ SumOf(Worths(main, cell)) = In(answer.report, cell) + SumOf(Worths(main', cell))
          /\ SumOf(Worths(main, cell)) \in Int /\ SumOf(Worths(main', cell)) \in Int
          /\ In(answer.report, cell) \in Int
      BY <1>1, <2>1, <2>3, MainHead DEF m
    <3>2. /\ SumOf(SessionTerms(selector', cell)) - SumOf(SessionTerms(selector, cell)) = 0
          /\ SumOf(Worths(mail', cell)) - SumOf(Worths(mail, cell)) = 0
          /\ HeldIn(book', cell) - HeldIn(book, cell) = 0
          /\ owed'[cell] - owed[cell] = 0
      BY <1>1, <2>1, Unmoved
    <3>3. SumOf(WriteTerms(out, cell)) \in Int
      BY WritesSum DEF AccountsInv, Writing
    <3> QED
      BY <2>4, <3>1, <3>2, <3>3
  <2>6. \A i \in DOMAIN main' : InMain(main'[i])
    BY <1>1, <2>1, MainHead
  <2> QED
    BY <1>1, <2>1, <2>4, <2>5, <2>6, Unmoved, Balance
<1>4. CASE EvtSlackNotify \/ EvtFinish
  <2>1. /\ Head(main).what \in {"notify", "finish"} /\ main' = Tail(main)
        /\ out' = out /\ conn' = conn /\ owed' = owed
    BY <1>4 DEF EvtSlackNotify, EvtFinish, Received, serverVars
  <2>2. \A i \in DOMAIN main' : InMain(main'[i])
    BY <1>1, <2>1, MainHead
  <2>3. ASSUME NEW cell
        PROVE  SumOf(Worths(main', cell)) - SumOf(Worths(main, cell)) = 0
    BY <1>1, <2>1, MainHead DEF Worth
  <2> QED
    BY <1>1, <2>1, <2>2, <2>3, Unmoved, Balance
<1> QED
  BY <1>2, <1>3, <1>4 DEF MainStep

\* A step that changes no counter
LEMMA Steady ==
    ASSUME InterfaceInv, InterfaceInv', AccountsInv, UNCHANGED <<selector, book, owed>>,
           Writing',
           \A i \in DOMAIN main' : InMain(main'[i]),
           \A i \in DOMAIN mail' : InMail(mail'[i]),
           \A cell \in Stats!Cells :
               /\ SumOf(Worths(mail', cell)) - SumOf(Worths(mail, cell)) = 0
               /\ SumOf(Worths(main', cell)) - SumOf(Worths(main, cell)) = 0
               /\ SumOf(WriteTerms(out', cell)) - SumOf(WriteTerms(out, cell)) = 0
    PROVE  AccountsInv'
<1>1. ASSUME NEW cell \in Stats!Cells
      PROVE  /\ SumOf(SessionTerms(selector', cell)) - SumOf(SessionTerms(selector, cell)) = 0
             /\ HeldIn(book', cell) - HeldIn(book, cell) = 0
             /\ owed'[cell] - owed[cell] = 0
  BY Unmoved
<1>2. owed' \in [Stats!Cells -> Int] /\ selector' \in [Stats!Sessions -> Int] /\ Booked'
  BY Unmoved
<1> QED
  BY <1>1, <1>2, Balance

\* The server: an answer that is written leaves with what it holds.
LEMMA ServerAccounts == InterfaceInv /\ InterfaceInv' /\ AccountsInv /\ ServerStep => AccountsInv'
<1> SUFFICES ASSUME InterfaceInv, InterfaceInv', AccountsInv, ServerStep
             PROVE  AccountsInv'
  OBVIOUS
<1>1. /\ selector' = selector /\ book' = book /\ mail' = mail /\ main' = main
  BY DEF ServerStep, FinishWrite, statsVars
<1>2. /\ conn \in [Connections -> {"none", "reading", "handling", "writing", "closed", "undefined"}]
      /\ Writing /\ owed \in [Stats!Cells -> Int]
  BY DEF InterfaceInv, Types, AccountsInv
<1>3. CASE Http!QuietStep /\ owed' = owed
  <2>1. out' = out
    BY <1>3 DEF Http!QuietStep, Http!AcceptFails, Http!Accept, Http!EndOfStream
  <2>2. \/ conn' = conn
        \/ \E c \in Connections : /\ conn[c] # "writing"
                                  /\ \E state \in {"reading", "closed"} :
                                        conn' = [conn EXCEPT ![c] = state]
    BY <1>3 DEF Http!QuietStep, Http!AcceptFails, Http!Accept, Http!EndOfStream,
                Http!Become
  <2>3. Writing'
    BY <1>2, <2>1, <2>2 DEF Writing
  <2> QED
    BY <1>1, <1>3, <2>1, <2>3, Unmoved, Steady
<1>4. ASSUME NEW c \in Connections, FinishWrite(c)
      PROVE  AccountsInv'
  <2> DEFINE answer == out[c]
  <2>1. /\ conn[c] = "writing" /\ out' = [out EXCEPT ![c] = NoAnswer]
        /\ \E state \in {"reading", "closed"} : conn' = [conn EXCEPT ![c] = state]
        /\ owed' = [cell \in Stats!Cells |-> owed[cell] - In(answer.report, cell)]
    BY <1>4 DEF FinishWrite, Http!OnWrite, Http!Become, Leaves
  <2>2. answer \in Answers /\ answer # NoAnswer
    BY <1>2, <2>1, InterfaceAssumption DEF Writing
  <2>3. /\ out'[c] = NoAnswer /\ \A d \in Connections : d # c => out'[d] = out[d] /\ conn'[d] = conn[d]
        /\ conn'[c] # "writing" /\ out' = [d \in Connections |-> out'[d]]
    BY <1>2, <2>1 DEF Writing
  <2>4. Writing'
    BY <1>2, <2>3 DEF Writing
  <2>5. /\ \A d \in Connections : out[d] \in Answers \cup {NoAnswer}
        /\ \A d \in Connections : out'[d] \in Answers \cup {NoAnswer}
    BY <1>2, <2>4 DEF Writing
  <2>6. owed' \in [Stats!Cells -> Int]
    <3>1. \A cell : In(answer.report, cell) \in Int
      BY <2>2, InReport
    <3> QED
      BY <1>2, <2>1, <3>1
  <2> HIDE DEF answer
  <2>7. ASSUME NEW cell \in Stats!Cells
        PROVE  owed'[cell] - owed[cell] =
                   (SumOf(SessionTerms(selector', cell)) - SumOf(SessionTerms(selector, cell)))
                 + (SumOf(Worths(mail', cell)) - SumOf(Worths(mail, cell)))
                 + (HeldIn(book', cell) - HeldIn(book, cell))
                 + (SumOf(Worths(main', cell)) - SumOf(Worths(main, cell)))
                 + (SumOf(WriteTerms(out', cell)) - SumOf(WriteTerms(out, cell)))
    <3> DEFINE f == WriteTerms(out, cell)
               g == WriteTerms(out', cell)
    <3>1. Summable(f) /\ Summable(g) /\ SumOf(f) \in Int
      BY <2>5, WritesSum
    <3>2. /\ c \in DOMAIN f /\ DOMAIN g = DOMAIN f /\ \A d \in DOMAIN f : d # c => g[d] = f[d]
          /\ f[c] = In(answer.report, cell) /\ g[c] = 0
      BY <2>2, <2>3 DEF WriteTerms, answer
    <3> HIDE DEF f, g
    <3>3. SumOf(g) = SumOf(f) - f[c] + g[c]
      BY <3>1, <3>2, SumChanged
    <3>4. owed'[cell] - owed[cell] = SumOf(g) - SumOf(f)
      <4>1. owed'[cell] = owed[cell] - f[c] /\ owed[cell] \in Int
        BY <1>2, <2>1, <3>2
      <4>2. f[c] \in Int
        BY <2>2, <3>2, InReport
      <4> QED
        BY <3>1, <3>2, <3>3, <4>1, <4>2
    <3>5. /\ SumOf(SessionTerms(selector', cell)) - SumOf(SessionTerms(selector, cell)) = 0
          /\ SumOf(Worths(mail', cell)) - SumOf(Worths(mail, cell)) = 0
          /\ HeldIn(book', cell) - HeldIn(book, cell) = 0
          /\ SumOf(Worths(main', cell)) - SumOf(Worths(main, cell)) = 0
      BY <1>1, Unmoved
    <3>6. SumOf(g) \in Int
      BY <2>5, WritesSum DEF g
    <3> QED
      BY <3>1, <3>4, <3>5, <3>6 DEF f, g
  <2> QED
    BY <1>1, <2>4, <2>6, <2>7, Unmoved, Balance
<1> QED
  BY <1>3, <1>4 DEF ServerStep

\* A message that holds nothing, put into a queue
LEMMA PutNothing ==
    ASSUME NEW q, IsQueue(q), \A i \in DOMAIN q : InMain(q[i]) \/ InMail(q[i]),
           NEW m, InMain(m) \/ InMail(m), m.what \in {"request", "notify", "finish"}
    PROVE  /\ \A cell : SumOf(Worths(Append(q, m), cell)) - SumOf(Worths(q, cell)) = 0
           /\ \A i \in DOMAIN Append(q, m) :
                  Append(q, m)[i] = m \/ (i \in DOMAIN q /\ Append(q, m)[i] = q[i])
<1>1. \A cell : Worth(m, cell) = 0
  BY DEF Worth
<1>2. ASSUME NEW cell
      PROVE  /\ SumOf(Worths(Append(q, m), cell)) = Worth(m, cell) + SumOf(Worths(q, cell))
             /\ \A i \in DOMAIN Append(q, m) :
                    Append(q, m)[i] = m \/ (i \in DOMAIN q /\ Append(q, m)[i] = q[i])
  BY WorthsPut
<1>3. \A cell : SumOf(Worths(q, cell)) \in Int
  BY WorthsSum
<1>4. ASSUME NEW cell
      PROVE  SumOf(Worths(Append(q, m), cell)) - SumOf(Worths(q, cell)) = 0
  BY <1>1, <1>2, <1>3
<1> QED
  BY <1>2, <1>4

\* onRead, where a request is answered at once or sent on
LEMMA ReadAccounts ==
    ASSUME InterfaceInv, InterfaceInv', AccountsInv, NEW c \in Connections, NEW r \in Requests,
           ReadRequest(c, r)
    PROVE  AccountsInv'
<1> DEFINE n == read[c] + 1
           answer == Answer(n, r, NoReport)
<1>1. /\ conn[c] = "reading" /\ selector' = selector /\ book' = book /\ owed' = owed
      /\ \/ /\ conn' = [conn EXCEPT ![c] = "writing"]
            /\ out' = [out EXCEPT ![c] = answer]
            /\ main' = main /\ mail' = mail
         \/ /\ conn' = [conn EXCEPT ![c] = "handling"] /\ out' = out
            /\ \/ main' = Append(main, Request("Controller", c, n, r)) /\ mail' = mail
               \/ /\ mail' = Append(mail, Request("StatsCollector", c, n, r)) /\ main' = main
                  /\ Http!Handler(r.path) = "StatsCollector"
         \/ /\ conn' = [conn EXCEPT ![c] = Http!Released(c)] /\ out' = out
            /\ main' = main /\ mail' = mail
  BY DEF ReadRequest, Http!OnRead, Http!Write, Http!Become, Http!WhileHandled, Http!Release,
         Http!Refused, Http!Handler, statsVars
<1>2. /\ conn \in [Connections -> {"none", "reading", "handling", "writing", "closed", "undefined"}]
      /\ read \in [Connections -> Nat] /\ IsQueue(main) /\ IsQueue(mail)
      /\ Writing /\ (\A i \in DOMAIN main : InMain(main[i])) /\ \A i \in DOMAIN mail : InMail(mail[i])
  BY DEF InterfaceInv, Types, AccountsInv
<1>3. n \in Nat
  BY <1>2
<1>4. answer \in Answers /\ \A cell : In(answer.report, cell) = 0
  BY <1>3, NothingReported DEF Answer, Answers
<1> HIDE DEF answer, n
<1>5. /\ mail' = mail => /\ \A i \in DOMAIN mail' : InMail(mail'[i])
                        /\ \A cell : SumOf(Worths(mail', cell)) - SumOf(Worths(mail, cell)) = 0
      /\ main' = main => /\ \A i \in DOMAIN main' : InMain(main'[i])
                        /\ \A cell : SumOf(Worths(main', cell)) - SumOf(Worths(main, cell)) = 0
      /\ out' = out => \A cell : SumOf(WriteTerms(out', cell)) - SumOf(WriteTerms(out, cell)) = 0
  BY Unmoved
<1>11. UNCHANGED <<selector, book, owed>>
  BY <1>1
<1>6. CASE /\ conn' = [conn EXCEPT ![c] = "writing"]
           /\ out' = [out EXCEPT ![c] = answer]
           /\ main' = main /\ mail' = mail
  <2>1. /\ Writing'
        /\ \A cell : SumOf(WriteTerms(out', cell))
                       = SumOf(WriteTerms(out, cell)) + In(answer.report, cell)
    BY <1>1, <1>2, <1>4, <1>6, AnswerWritten
  <2>2. ASSUME NEW cell
        PROVE  SumOf(WriteTerms(out', cell)) - SumOf(WriteTerms(out, cell)) = 0
    <3>1. SumOf(WriteTerms(out, cell)) \in Int
      BY <1>2, WritesSum DEF Writing
    <3> QED
      BY <1>4, <2>1, <3>1
  <2> QED
    BY <1>11, <1>5, <1>6, <2>1, <2>2, Steady
<1>7. ASSUME out' = out, \E state : state # "writing" /\ conn' = [conn EXCEPT ![c] = state]
      PROVE  Writing'
  <2>1. PICK state : state # "writing" /\ conn' = [conn EXCEPT ![c] = state]
    BY <1>7
  <2>2. conn'[c] # "writing" /\ \A d \in Connections : d # c => conn'[d] = conn[d]
    BY <1>2, <2>1
  <2> QED
    BY <1>1, <1>2, <1>7, <2>2 DEF Writing
<1>8. CASE /\ conn' = [conn EXCEPT ![c] = "handling"] /\ out' = out
           /\ main' = Append(main, Request("Controller", c, n, r)) /\ mail' = mail
  <2> DEFINE m == Request("Controller", c, n, r)
  <2>1. InMain(m) /\ m.what = "request"
    BY DEF Request, InMain
  <2> HIDE DEF m
  <2>2. /\ \A cell : SumOf(Worths(Append(main, m), cell)) - SumOf(Worths(main, cell)) = 0
        /\ \A i \in DOMAIN Append(main, m) :
               Append(main, m)[i] = m \/ (i \in DOMAIN main /\ Append(main, m)[i] = main[i])
    BY <1>2, <2>1, PutNothing
  <2>3. main' = Append(main, m)
    BY <1>8 DEF m
  <2>4. \A i \in DOMAIN main' : InMain(main'[i])
    BY <1>2, <2>1, <2>2, <2>3
  <2>5. Writing'
    BY <1>7, <1>8
  <2>6. ASSUME NEW cell
        PROVE  SumOf(Worths(main', cell)) - SumOf(Worths(main, cell)) = 0
    BY <2>2, <2>3
  <2> QED
    BY <1>11, <1>5, <1>8, <2>4, <2>5, <2>6, Steady
<1>9. CASE /\ conn' = [conn EXCEPT ![c] = "handling"] /\ out' = out
           /\ mail' = Append(mail, Request("StatsCollector", c, n, r)) /\ main' = main
           /\ Http!Handler(r.path) = "StatsCollector"
  <2> DEFINE m == Request("StatsCollector", c, n, r)
  <2>1. InMail(m) /\ m.what = "request"
    BY <1>9 DEF Request, InMail
  <2> HIDE DEF m
  <2>2. /\ \A cell : SumOf(Worths(Append(mail, m), cell)) - SumOf(Worths(mail, cell)) = 0
        /\ \A i \in DOMAIN Append(mail, m) :
               Append(mail, m)[i] = m \/ (i \in DOMAIN mail /\ Append(mail, m)[i] = mail[i])
    BY <1>2, <2>1, PutNothing
  <2>3. mail' = Append(mail, m)
    BY <1>9 DEF m
  <2>4. \A i \in DOMAIN mail' : InMail(mail'[i])
    BY <1>2, <2>1, <2>2, <2>3
  <2>5. Writing'
    BY <1>7, <1>9
  <2>6. ASSUME NEW cell
        PROVE  SumOf(Worths(mail', cell)) - SumOf(Worths(mail, cell)) = 0
    BY <2>2, <2>3
  <2> QED
    BY <1>11, <1>5, <1>9, <2>4, <2>5, <2>6, Steady
<1>10. CASE /\ conn' = [conn EXCEPT ![c] = Http!Released(c)] /\ out' = out
            /\ main' = main /\ mail' = mail
  <2>1. Writing'
    <3>1. Http!Released(c) # "writing"
      BY DEF Http!Released
    <3> QED
      BY <1>7, <1>10, <3>1
  <2> QED
    BY <1>11, <1>5, <1>10, <2>1, Steady
<1> QED
  BY <1>1, <1>6, <1>8, <1>9, <1>10

\* so_evt_finish, of one agent or of two, is put into the queues.
LEMMA ShutdownAccounts ==
    ASSUME InterfaceInv, InterfaceInv', AccountsInv, NEW a \in Watchers, ShutdownCheck(a)
    PROVE  AccountsInv'
<1>1. /\ UNCHANGED <<selector, book, owed, conn, out>>
      /\ main' = Append(main, Finish(a))
      /\ mail' = mail \/ mail' = Append(mail, Finish("StatsCollector"))
  BY DEF ShutdownCheck, serverVars, statsVars
<1>2. /\ IsQueue(main) /\ IsQueue(mail)
      /\ (\A i \in DOMAIN main : InMain(main[i])) /\ \A i \in DOMAIN mail : InMail(mail[i])
  BY DEF InterfaceInv, Types, AccountsInv
<1>3. \A b : InMain(Finish(b)) /\ InMail(Finish(b)) /\ Finish(b).what = "finish"
  BY DEF Finish, InMain, InMail
<1>4. /\ \A cell : SumOf(Worths(main', cell)) - SumOf(Worths(main, cell)) = 0
      /\ \A i \in DOMAIN main' : InMain(main'[i])
  <2>1. /\ \A cell : SumOf(Worths(Append(main, Finish(a)), cell)) - SumOf(Worths(main, cell)) = 0
        /\ \A i \in DOMAIN Append(main, Finish(a)) :
               \/ Append(main, Finish(a))[i] = Finish(a)
               \/ i \in DOMAIN main /\ Append(main, Finish(a))[i] = main[i]
    BY <1>2, <1>3, PutNothing
  <2> QED
    BY <1>1, <1>2, <1>3, <2>1
<1>5. /\ \A cell : SumOf(Worths(mail', cell)) - SumOf(Worths(mail, cell)) = 0
      /\ \A i \in DOMAIN mail' : InMail(mail'[i])
  <2> DEFINE m == Finish("StatsCollector")
  <2>1. /\ \A cell : SumOf(Worths(Append(mail, m), cell)) - SumOf(Worths(mail, cell)) = 0
        /\ \A i \in DOMAIN Append(mail, m) :
               Append(mail, m)[i] = m \/ (i \in DOMAIN mail /\ Append(mail, m)[i] = mail[i])
    BY <1>2, <1>3, PutNothing
  <2>2. InMail(m)
    BY <1>3
  <2> HIDE DEF m
  <2>3. mail' = mail \/ mail' = Append(mail, m)
    BY <1>1 DEF m
  <2>4. CASE mail' = mail
    BY <2>4, Unmoved
  <2>5. CASE mail' = Append(mail, m)
    BY <1>2, <2>1, <2>2, <2>5
  <2> QED
    BY <2>3, <2>4, <2>5
<1>6. Writing' /\ \A cell : SumOf(WriteTerms(out', cell)) - SumOf(WriteTerms(out, cell)) = 0
  BY <1>1, Unmoved
<1> QED
  BY <1>1, <1>4, <1>5, <1>6, Steady

\* What a metric brings is held afterwards.
LEMMA MetricAdds ==
    ASSUME Booked, NEW m, m.count \in Int, Stats!EvtMetric(m)
    PROVE  /\ Booked'
           /\ \A cell \in Stats!Cells :
                  HeldIn(book', cell) = HeldIn(book, cell) + InMetric(m, cell)
<1> DEFINE New(view) == {k \in Stats!Keys(view) : <<view, k>> \in m.cells}
           Old(view, k) == IF k \in DOMAIN book[view] THEN book[view][k] ELSE 0
           Now(view) == [k \in DOMAIN book[view] \cup New(view) |->
                            IF k \in New(view) THEN Old(view, k) + m.count ELSE Old(view, k)]
<1>1. book' = [view \in Stats!Views |-> Now(view)]
  BY DEF Stats!EvtMetric, Stats!Added, Stats!Plus
<1>2. ASSUME NEW view \in Stats!Views
      PROVE  /\ DOMAIN book[view] \subseteq Stats!Keys(view)
             /\ \A k \in DOMAIN book[view] : book[view][k] \in Int
             /\ \A k : Old(view, k) \in Int
  BY DEF Booked, IsTable
<1>3. ASSUME NEW view \in Stats!Views
      PROVE  /\ book'[view] = Now(view)
             /\ IsTable(book'[view], Stats!Keys(view))
  <2>1. book'[view] = Now(view)
    BY <1>1
  <2>2. DOMAIN Now(view) = DOMAIN book[view] \cup New(view)
    OBVIOUS
  <2>3. ASSUME NEW k \in DOMAIN Now(view)
        PROVE  Now(view)[k] \in Int
    <3>1. Old(view, k) \in Int
      BY <1>2
    <3> HIDE DEF Old, New
    <3> QED
      BY <3>1
  <2>4. DOMAIN Now(view) \subseteq Stats!Keys(view)
    BY <1>2, <2>2
  <2> HIDE DEF Old, New
  <2> QED
    BY <2>1, <2>2, <2>3, <2>4 DEF IsTable
<1>4. Booked'
  BY <1>1, <1>3 DEF Booked
<1>5. ASSUME NEW cell \in Stats!Cells
      PROVE  HeldIn(book', cell) = HeldIn(book, cell) + InMetric(m, cell)
  <2> DEFINE view == cell[1]
             k == cell[2]
  <2>1. view \in Stats!Views /\ k \in Stats!Keys(view) /\ cell = <<view, k>>
    BY CellIs
  <2>2. HeldIn(book, cell) = Old(view, k) /\ Old(view, k) \in Int
    BY <1>2, <2>1 DEF HeldIn
  <2>3. k \in New(view) <=> cell \in m.cells
    BY <2>1
  <2>4. book'[view] = Now(view)
    BY <1>3, <2>1
  <2>5. k \notin DOMAIN book[view] => Old(view, k) = 0
    OBVIOUS
  <2>6. HeldIn(book', cell) = IF k \in DOMAIN book[view] \cup New(view) THEN Now(view)[k] ELSE 0
    BY <2>4 DEF HeldIn
  <2> HIDE DEF view, k, New, Old
  <2> QED
    BY <2>2, <2>3, <2>5, <2>6 DEF InMetric
<1> QED
  BY <1>4, <1>5

\* A report takes out of a view what it holds.
LEMMA ReportTakes ==
    ASSUME Booked, NEW r, Http!Handler(r.path) = "StatsCollector", Stats!EvtReport(r)
    PROVE  /\ Booked' /\ Stats!Report(r) \in Reports
           /\ \A cell \in Stats!Cells :
                  HeldIn(book', cell) = HeldIn(book, cell) - In(Stats!Report(r), cell)
<1> DEFINE view == Stats!View(r)
           ks == Stats!Reported(r)
           table == book[view]
<1>1. view \in Stats!Views
  BY DEF Http!Handler, Stats!View, Stats!Views
<1>2. ks \subseteq DOMAIN table
  BY DEF Stats!Reported
<1>3. /\ book = [v \in Stats!Views |-> book[v]] /\ IsTable(table, Stats!Keys(view))
  BY <1>1 DEF Booked
<1>4. Stats!Report(r) = [cell \in {view} \X ks |-> table[cell[2]]]
  BY DEF Stats!Report
<1>5. Stats!Rest(r) = [k \in DOMAIN table \ ks |-> table[k]]
  BY DEF Stats!Rest
<1>6. book' = [book EXCEPT ![view] = Stats!Rest(r)]
  BY DEF Stats!EvtReport
<1> HIDE DEF view, ks
<1>7. Stats!Report(r) \in Reports
  <2>1. {view} \X ks \in SUBSET Stats!Cells
    BY <1>1, <1>2, <1>3 DEF IsTable, Stats!Cells
  <2>2. \A cell \in {view} \X ks : table[cell[2]] \in Int
    BY <1>2, <1>3 DEF IsTable
  <2>3. Stats!Report(r) \in [{view} \X ks -> Int]
    BY <1>4, <2>2
  <2> QED
    BY <2>1, <2>3 DEF Reports
<1>8. IsTable(Stats!Rest(r), Stats!Keys(view))
  BY <1>3, <1>5 DEF IsTable
<1>9. /\ book'[view] = Stats!Rest(r) /\ \A v \in Stats!Views : v # view => book'[v] = book[v]
      /\ book' = [v \in Stats!Views |-> book'[v]]
  BY <1>1, <1>3, <1>6
<1>10. Booked'
  BY <1>8, <1>9 DEF Booked
<1>11. ASSUME NEW cell \in Stats!Cells
       PROVE  HeldIn(book', cell) = HeldIn(book, cell) - In(Stats!Report(r), cell)
  <2>1. /\ cell[1] \in Stats!Views /\ cell = <<cell[1], cell[2]>>
    BY CellIs
  <2>2. HeldIn(book, cell) \in Int
    BY HeldInt DEF Booked
  <2>3. CASE cell[1] # view
    <3>1. cell \notin {view} \X ks
      BY <2>3
    <3>2. In(Stats!Report(r), cell) = 0
      BY <1>4, <3>1 DEF In
    <3>3. HeldIn(book', cell) = HeldIn(book, cell)
      BY <1>9, <2>1, <2>3 DEF HeldIn
    <3> QED
      BY <2>2, <3>2, <3>3
  <2>4. CASE cell[1] = view /\ cell[2] \in ks
    <3>1. cell \in {view} \X ks
      BY <2>1, <2>4
    <3>2. In(Stats!Report(r), cell) = table[cell[2]]
      BY <1>4, <3>1 DEF In
    <3>3. HeldIn(book', cell) = 0
      BY <1>5, <1>9, <2>4 DEF HeldIn
    <3>4. HeldIn(book, cell) = table[cell[2]]
      BY <1>2, <2>4 DEF HeldIn
    <3> QED
      BY <2>2, <3>2, <3>3, <3>4
  <2>5. CASE cell[1] = view /\ cell[2] \notin ks
    <3>1. cell \notin {view} \X ks
      BY <2>1, <2>5
    <3>2. In(Stats!Report(r), cell) = 0
      BY <1>4, <3>1 DEF In
    <3>3. HeldIn(book', cell) = HeldIn(book, cell)
      BY <1>5, <1>9, <2>5 DEF HeldIn
    <3> QED
      BY <2>2, <3>2, <3>3
  <2> QED
    BY <2>3, <2>4, <2>5
<1> QED
  BY <1>7, <1>10, <1>11

\* StatsCollector takes a message out of its mail.
LEMMA MailHead ==
    ASSUME AccountsInv, InterfaceInv, mail # <<>>
    PROVE  /\ InMail(Head(mail)) /\ IsQueue(Tail(mail))
           /\ \A i \in DOMAIN Tail(mail) : InMail(Tail(mail)[i])
           /\ \A cell : /\ SumOf(Worths(mail, cell)) = Worth(Head(mail), cell) + SumOf(Worths(Tail(mail), cell))
                         /\ SumOf(Worths(mail, cell)) \in Int /\ SumOf(Worths(Tail(mail), cell)) \in Int
                         /\ Worth(Head(mail), cell) \in Int
           /\ \A c : Head(mail).what = "request" /\ Head(mail).conn = c =>
                         c \in Connections /\ conn[c] = "handling" /\ Head(mail).n \in Nat
<1>1. IsQueue(mail) /\ (\A i \in DOMAIN mail : InMail(mail[i])) /\ Single(mail, conn, read)
  BY DEF AccountsInv, InterfaceInv, Types, Good
<1>2. IsQueue(Tail(mail))
  BY <1>1, Popped
<1>3. ASSUME NEW cell
      PROVE  /\ SumOf(Worths(mail, cell)) = Worth(Head(mail), cell) + SumOf(Worths(Tail(mail), cell))
             /\ \E i \in DOMAIN mail : Head(mail) = mail[i]
             /\ \A i \in DOMAIN Tail(mail) : i + 1 \in DOMAIN mail /\ Tail(mail)[i] = mail[i + 1]
  BY <1>1, WorthsTake
<1>4. InMail(Head(mail)) /\ \A i \in DOMAIN Tail(mail) : InMail(Tail(mail)[i])
  BY <1>1, <1>3
<1>5. ASSUME NEW c, Head(mail).what = "request", Head(mail).conn = c
      PROVE  c \in Connections /\ conn[c] = "handling" /\ Head(mail).n \in Nat
  <2>1. /\ Head(mail).what \in {"request", "reply"} => Head(mail).conn \in Connections
        /\ \A d \in Connections :
               Carries(Head(mail), d) => conn[d] = "handling" /\ Number(Head(mail)) = read[d]
    BY <1>1, TakeOut
  <2>2. c \in Connections /\ Carries(Head(mail), c)
    BY <1>5, <2>1 DEF Carries
  <2> QED
    BY <1>5, <2>1, <2>2 DEF Number, InterfaceInv, Types
<1> QED
  BY <1>1, <1>2, <1>3, <1>4, <1>5, WorthsSum, WorthInt

\* StatsCollector: what a metric brings it holds, and what it holds leaves with
\* one answer.
LEMMA StatsAccounts == InterfaceInv /\ InterfaceInv' /\ AccountsInv /\ StatsStep => AccountsInv'
<1> SUFFICES ASSUME InterfaceInv, InterfaceInv', AccountsInv, StatsStep
             PROVE  AccountsInv'
  OBVIOUS
<1> DEFINE m == Head(mail)
<1>1. mail # <<>> /\ mail' = Tail(mail) /\ selector' = selector
  BY DEF StatsStep
<1>2. /\ Booked /\ IsQueue(main) /\ (\A i \in DOMAIN main : InMain(main[i]))
      /\ owed \in [Stats!Cells -> Int]
  BY DEF AccountsInv, InterfaceInv, Types
<1>3. /\ InMail(m)
      /\ \A i \in DOMAIN mail' : InMail(mail'[i])
      /\ \A cell : /\ SumOf(Worths(mail, cell)) = Worth(m, cell) + SumOf(Worths(mail', cell))
                    /\ SumOf(Worths(mail, cell)) \in Int /\ SumOf(Worths(mail', cell)) \in Int
                    /\ Worth(m, cell) \in Int
      /\ \A c : m.what = "request" /\ m.conn = c =>
                    c \in Connections /\ conn[c] = "handling" /\ m.n \in Nat
  BY <1>1, MailHead
<1> HIDE DEF m
<1>4. selector' \in [Stats!Sessions -> Int]
      /\ \A cell : SumOf(SessionTerms(selector', cell)) - SumOf(SessionTerms(selector, cell)) = 0
  BY <1>1, Unmoved
<1>5. \A cell \in Stats!Cells : HeldIn(book, cell) \in Int
  BY <1>2, HeldInt DEF Booked
<1>6. CASE EvtMetric
  <2>1. /\ m.what = "metric" /\ Stats!EvtMetric(m) /\ main' = main /\ owed' = owed /\ out' = out
        /\ conn' = conn
    BY <1>6 DEF EvtMetric, serverVars, m
  <2>2. m.count \in Int /\ \A cell : Worth(m, cell) = InMetric(m, cell)
    BY <1>3, <2>1 DEF InMail, Worth
  <2>3. /\ Booked'
        /\ \A cell \in Stats!Cells :
               HeldIn(book', cell) = HeldIn(book, cell) + InMetric(m, cell)
    BY <1>2, <2>1, <2>2, MetricAdds
  <2>4. /\ Writing' /\ owed' \in [Stats!Cells -> Int]
        /\ \A i \in DOMAIN main' : InMain(main'[i])
        /\ \A cell : SumOf(WriteTerms(out', cell)) - SumOf(WriteTerms(out, cell)) = 0
        /\ \A cell : SumOf(Worths(main', cell)) - SumOf(Worths(main, cell)) = 0
        /\ \A cell \in Stats!Cells : owed'[cell] - owed[cell] = 0
    BY <2>1, Unmoved
  <2>5. ASSUME NEW cell \in Stats!Cells
        PROVE  (SumOf(Worths(mail', cell)) - SumOf(Worths(mail, cell)))
                 + (HeldIn(book', cell) - HeldIn(book, cell)) = 0
    <3>1. /\ SumOf(Worths(mail, cell)) = Worth(m, cell) + SumOf(Worths(mail', cell))
          /\ SumOf(Worths(mail', cell)) \in Int /\ Worth(m, cell) \in Int
      BY <1>3
    <3>2. HeldIn(book', cell) = HeldIn(book, cell) + Worth(m, cell) /\ HeldIn(book, cell) \in Int
      BY <1>5, <2>2, <2>3
    <3> QED
      BY <3>1, <3>2
  <2>6. ASSUME NEW cell \in Stats!Cells
        PROVE  owed'[cell] - owed[cell] =
                   (SumOf(SessionTerms(selector', cell)) - SumOf(SessionTerms(selector, cell)))
                 + (SumOf(Worths(mail', cell)) - SumOf(Worths(mail, cell)))
                 + (HeldIn(book', cell) - HeldIn(book, cell))
                 + (SumOf(Worths(main', cell)) - SumOf(Worths(main, cell)))
                 + (SumOf(WriteTerms(out', cell)) - SumOf(WriteTerms(out, cell)))
    <3>1. HeldIn(book', cell) \in Int
      BY <2>3, HeldInt DEF Booked
    <3>2. /\ SumOf(Worths(mail', cell)) \in Int /\ SumOf(Worths(mail, cell)) \in Int
          /\ HeldIn(book, cell) \in Int
      BY <1>3, <1>5
    <3>3. /\ SumOf(SessionTerms(selector', cell)) - SumOf(SessionTerms(selector, cell)) = 0
          /\ SumOf(WriteTerms(out', cell)) - SumOf(WriteTerms(out, cell)) = 0
          /\ SumOf(Worths(main', cell)) - SumOf(Worths(main, cell)) = 0
          /\ owed'[cell] - owed[cell] = 0
      BY <1>4, <2>4
    <3> QED
      BY <2>5, <3>1, <3>2, <3>3
  <2> QED
    BY <1>3, <1>4, <2>3, <2>4, <2>6, Balance
<1>7. CASE StatsFinish
  <2>1. m.what = "finish" /\ UNCHANGED <<selector, book, main, owed, out, conn>>
    BY <1>1, <1>7 DEF StatsFinish, serverVars, m
  <2>2. ASSUME NEW cell
        PROVE  SumOf(Worths(mail', cell)) - SumOf(Worths(mail, cell)) = 0
    <3>1. Worth(m, cell) = 0
      BY <2>1 DEF Worth
    <3> QED
      BY <1>3, <3>1
  <2>3. /\ Writing'
        /\ \A i \in DOMAIN main' : InMain(main'[i])
        /\ \A cell : SumOf(WriteTerms(out', cell)) - SumOf(WriteTerms(out, cell)) = 0
        /\ \A cell : SumOf(Worths(main', cell)) - SumOf(Worths(main, cell)) = 0
    BY <2>1, Unmoved
  <2> QED
    BY <1>3, <2>1, <2>2, <2>3, Steady
<1>8. CASE EvtHttpStats
  <2> DEFINE c == m.conn
  <2>1. m.what = "request" /\ out' = out
    BY <1>8 DEF EvtHttpStats, m
  <2>2. /\ c \in Connections /\ conn[c] = "handling" /\ m.n \in Nat
        /\ m.req \in Requests /\ Http!Handler(m.req.path) = "StatsCollector"
        /\ \A cell : Worth(m, cell) = 0
    BY <1>3, <2>1 DEF InMail, Worth
  <2>3. PICK report \in Reports :
            /\ SendReply(main, c, Answer(m.n, m.req, report))
            /\ Booked'
            /\ \A cell \in Stats!Cells :
                   HeldIn(book', cell) = HeldIn(book, cell) - In(report, cell)
    <3>1. CASE Stats!WellFormed(m.req)
      <4>1. /\ SendReply(main, c, Answer(m.n, m.req, Stats!Report(m.req)))
            /\ Stats!EvtReport(m.req)
        BY <1>8, <3>1 DEF EvtHttpStats, m
      <4>2. /\ Booked' /\ Stats!Report(m.req) \in Reports
            /\ \A cell \in Stats!Cells :
                   HeldIn(book', cell) = HeldIn(book, cell) - In(Stats!Report(m.req), cell)
        BY <1>2, <2>2, <4>1, ReportTakes
      <4> QED
        BY <4>1, <4>2
    <3>2. CASE ~ Stats!WellFormed(m.req)
      <4>1. SendReply(main, c, Answer(m.n, m.req, NoReport)) /\ book' = book
        BY <1>8, <3>2 DEF EvtHttpStats, m
      <4>2. Booked' /\ \A cell \in Stats!Cells : HeldIn(book', cell) = HeldIn(book, cell)
        BY <1>2, <4>1 DEF Booked
      <4>3. NoReport \in Reports /\ \A cell : In(NoReport, cell) = 0
        BY NothingReported
      <4>4. \A cell \in Stats!Cells : HeldIn(book', cell) = HeldIn(book, cell) - In(NoReport, cell)
        BY <1>5, <4>2, <4>3
      <4> QED
        BY <4>1, <4>2, <4>3, <4>4
    <3> QED
      BY <3>1, <3>2
  <2> DEFINE answer == Answer(m.n, m.req, report)
  <2>4. answer \in Answers /\ answer.report = report
    BY <2>2, <2>3 DEF Answer, Answers
  <2>5. SendReply(main, c, answer)
    BY <2>3
  <2> HIDE DEF answer, c
  <2>6. /\ \A i \in DOMAIN main' : InMain(main'[i])
        /\ Writing' /\ owed' \in [Stats!Cells -> Int]
        /\ \A cell \in Stats!Cells :
              owed'[cell] - owed[cell] =
                  (SumOf(Worths(main', cell)) - SumOf(Worths(main, cell))) - In(answer.report, cell)
    BY <1>2, <2>1, <2>2, <2>4, <2>5, AnswerSent
  <2>7. ASSUME NEW cell \in Stats!Cells
        PROVE  owed'[cell] - owed[cell] =
                   (SumOf(SessionTerms(selector', cell)) - SumOf(SessionTerms(selector, cell)))
                 + (SumOf(Worths(mail', cell)) - SumOf(Worths(mail, cell)))
                 + (HeldIn(book', cell) - HeldIn(book, cell))
                 + (SumOf(Worths(main', cell)) - SumOf(Worths(main, cell)))
                 + (SumOf(WriteTerms(out', cell)) - SumOf(WriteTerms(out, cell)))
    <3>1. SumOf(Worths(main', cell)) \in Int /\ SumOf(Worths(main, cell)) \in Int
      BY <1>2, <2>6, WorthsSum DEF InterfaceInv, Types
    <3>2. SumOf(Worths(mail', cell)) - SumOf(Worths(mail, cell)) = 0
      BY <1>3, <2>2
    <3>3. SumOf(WriteTerms(out', cell)) - SumOf(WriteTerms(out, cell)) = 0
      BY <2>1, Unmoved
    <3>4. In(report, cell) \in Int
      BY <2>4, InReport
    <3>5. HeldIn(book', cell) - HeldIn(book, cell) = 0 - In(report, cell)
      BY <1>5, <2>3, <3>4
    <3>6. owed'[cell] - owed[cell] =
              (SumOf(Worths(main', cell)) - SumOf(Worths(main, cell))) - In(report, cell)
      BY <2>4, <2>6
    <3> QED
      BY <1>4, <3>1, <3>2, <3>3, <3>4, <3>5, <3>6
  <2> QED
    BY <1>3, <1>4, <2>3, <2>6, <2>7, Balance
<1> QED
  BY <1>6, <1>7, <1>8 DEF StatsStep

\* One session's counter changes.
LEMMA CounterSet ==
    ASSUME AccountsInv, NEW s \in Stats!Sessions, NEW x \in Int,
           selector' = [selector EXCEPT ![s] = x]
    PROVE  /\ selector' \in [Stats!Sessions -> Int] /\ selector[s] \in Int
           /\ \A cell : SumOf(SessionTerms(selector', cell)) - SumOf(SessionTerms(selector, cell))
                          = IF cell \in Stats!SessionCells(s) THEN x - selector[s] ELSE 0
<1>1. selector \in [Stats!Sessions -> Int]
  BY DEF AccountsInv
<1>2. /\ selector' \in [Stats!Sessions -> Int] /\ selector'[s] = x
      /\ \A t \in Stats!Sessions : t # s => selector'[t] = selector[t]
  BY <1>1
<1>3. ASSUME NEW cell
      PROVE  SumOf(SessionTerms(selector', cell)) - SumOf(SessionTerms(selector, cell))
               = IF cell \in Stats!SessionCells(s) THEN x - selector[s] ELSE 0
  <2> DEFINE f == SessionTerms(selector, cell)
             g == SessionTerms(selector', cell)
  <2>1. Summable(f) /\ Summable(g) /\ SumOf(f) \in Int
    BY <1>1, <1>2, SessionsSum
  <2>2. /\ s \in DOMAIN f /\ DOMAIN g = DOMAIN f /\ \A t \in DOMAIN f : t # s => g[t] = f[t]
        /\ f[s] = IF cell \in Stats!SessionCells(s) THEN selector[s] ELSE 0
        /\ g[s] = IF cell \in Stats!SessionCells(s) THEN x ELSE 0
    BY <1>2 DEF SessionTerms
  <2> HIDE DEF f, g
  <2>3. SumOf(g) = SumOf(f) - f[s] + g[s]
    BY <2>1, <2>2, SumChanged
  <2>4. SumOf(g) - SumOf(f) = IF cell \in Stats!SessionCells(s) THEN x - selector[s] ELSE 0
    BY <1>1, <2>1, <2>2, <2>3
  <2> QED
    BY <2>4 DEF f, g
<1> QED
  BY <1>1, <1>2, <1>3

\* A metric is posted, or finds nobody.
LEMMA Posted ==
    ASSUME AccountsInv, InterfaceInv, NEW m, m.what = "metric", m.count \in Int, Post(m)
    PROVE  /\ \A i \in DOMAIN mail' : InMail(mail'[i])
           /\ \A cell : SumOf(Worths(mail', cell)) - SumOf(Worths(mail, cell))
                          = IF Up("StatsCollector") THEN InMetric(m, cell) ELSE 0
<1>1. IsQueue(mail) /\ \A i \in DOMAIN mail : InMail(mail[i])
  BY DEF AccountsInv, InterfaceInv, Types
<1>2. InMail(m) /\ \A cell : Worth(m, cell) = InMetric(m, cell) /\ InMetric(m, cell) \in Int
  BY DEF InMail, Worth, InMetric
<1>3. CASE Up("StatsCollector")
  <2>1. mail' = Append(mail, m)
    BY <1>3 DEF Post
  <2>2. ASSUME NEW cell
        PROVE  /\ SumOf(Worths(Append(mail, m), cell)) = Worth(m, cell) + SumOf(Worths(mail, cell))
               /\ \A i \in DOMAIN Append(mail, m) :
                      Append(mail, m)[i] = m \/ (i \in DOMAIN mail /\ Append(mail, m)[i] = mail[i])
    BY <1>1, <1>2, WorthsPut
  <2>3. \A cell : SumOf(Worths(mail, cell)) \in Int
    BY <1>1, WorthsSum
  <2>4. \A cell : SumOf(Worths(mail', cell)) - SumOf(Worths(mail, cell)) = InMetric(m, cell)
    BY <1>2, <2>1, <2>2, <2>3
  <2>5. \A i \in DOMAIN mail' : InMail(mail'[i])
    BY <1>1, <1>2, <2>1, <2>2
  <2> QED
    BY <1>3, <2>4, <2>5
<1>4. CASE ~ Up("StatsCollector")
  <2>1. mail' = mail
    BY <1>4 DEF Post
  <2> QED
    BY <1>4, <2>1, Unmoved
<1> QED
  BY <1>3, <1>4

\* The IRC side: what is counted is owed.
LEMMA IrcAccounts == InterfaceInv /\ InterfaceInv' /\ AccountsInv /\ IrcStep => AccountsInv'
<1> SUFFICES ASSUME InterfaceInv, InterfaceInv', AccountsInv, IrcStep
             PROVE  AccountsInv'
  OBVIOUS
<1>1. out' = out /\ conn' = conn /\ book' = book
  BY DEF IrcStep, serverVars
<1>2. /\ Booked' /\ Writing'
      /\ \A cell \in Stats!Cells : HeldIn(book', cell) - HeldIn(book, cell) = 0
      /\ \A cell : SumOf(WriteTerms(out', cell)) - SumOf(WriteTerms(out, cell)) = 0
      /\ owed \in [Stats!Cells -> Int] /\ selector \in [Stats!Sessions -> Int]
  BY <1>1, Unmoved DEF AccountsInv
<1>3. ASSUME NEW s \in Stats!Sessions, Command(s)
      PROVE  AccountsInv'
  <2> DEFINE x == selector[s] + 1
  <2>1. /\ selector' = [selector EXCEPT ![s] = x] /\ main' = main /\ mail' = mail
        /\ Owe(Stats!SessionCells(s), Stats!Metric({}, 0))
    BY <1>3 DEF Command, Stats!CountCommand
  <2>2. selector[s] \in Int /\ x \in Int /\ x - selector[s] = 1
    BY <1>2
  <2> HIDE DEF x
  <2>3. /\ selector' \in [Stats!Sessions -> Int]
        /\ \A cell : SumOf(SessionTerms(selector', cell)) - SumOf(SessionTerms(selector, cell))
                       = IF cell \in Stats!SessionCells(s) THEN x - selector[s] ELSE 0
    BY <2>1, <2>2, CounterSet
  <2>4. owed' = [cell \in Stats!Cells |->
                    owed[cell] + IF cell \in Stats!SessionCells(s) THEN 1 ELSE 0]
    BY <1>2, <2>1 DEF Owe, Stats!Metric, InMetric
  <2>5. owed' \in [Stats!Cells -> Int]
    BY <1>2, <2>4
  <2>6. /\ \A i \in DOMAIN main' : InMain(main'[i])
        /\ \A i \in DOMAIN mail' : InMail(mail'[i])
        /\ \A cell : SumOf(Worths(main', cell)) - SumOf(Worths(main, cell)) = 0
        /\ \A cell : SumOf(Worths(mail', cell)) - SumOf(Worths(mail, cell)) = 0
    BY <2>1, Unmoved
  <2>7. ASSUME NEW cell \in Stats!Cells
        PROVE  owed'[cell] - owed[cell] =
                   (SumOf(SessionTerms(selector', cell)) - SumOf(SessionTerms(selector, cell)))
                 + (SumOf(Worths(mail', cell)) - SumOf(Worths(mail, cell)))
                 + (HeldIn(book', cell) - HeldIn(book, cell))
                 + (SumOf(Worths(main', cell)) - SumOf(Worths(main, cell)))
                 + (SumOf(WriteTerms(out', cell)) - SumOf(WriteTerms(out, cell)))
    <3>1. owed'[cell] - owed[cell] = IF cell \in Stats!SessionCells(s) THEN 1 ELSE 0
      BY <1>2, <2>4
    <3>2. SumOf(SessionTerms(selector', cell)) - SumOf(SessionTerms(selector, cell))
            = IF cell \in Stats!SessionCells(s) THEN 1 ELSE 0
      BY <2>2, <2>3
    <3> QED
      BY <1>2, <2>6, <3>1, <3>2
  <2> QED
    BY <1>2, <2>3, <2>5, <2>6, <2>7, Balance
<1>4. ASSUME NEW m, m.what = "metric", m.count \in Int, NEW cells, m.cells = cells,
             Post(m), Owe(cells, m), main' = main,
             selector' \in [Stats!Sessions -> Int],
             \A cell \in Stats!Cells :
                 SumOf(SessionTerms(selector', cell)) - SumOf(SessionTerms(selector, cell))
                   = IF cell \in cells THEN 1 - m.count ELSE 0
      PROVE  AccountsInv'
  <2>1. /\ \A i \in DOMAIN mail' : InMail(mail'[i])
        /\ \A cell : SumOf(Worths(mail', cell)) - SumOf(Worths(mail, cell))
                       = IF Up("StatsCollector") THEN InMetric(m, cell) ELSE 0
    BY <1>4, Posted
  <2>2. owed' = [cell \in Stats!Cells |->
                    owed[cell] + (IF cell \in cells THEN 1 ELSE 0)
                               - (IF Up("StatsCollector") THEN 0 ELSE InMetric(m, cell))]
    BY <1>4 DEF Owe
  <2>3. \A cell : InMetric(m, cell) = (IF cell \in cells THEN m.count ELSE 0)
    BY <1>4 DEF InMetric
  <2>4. owed' \in [Stats!Cells -> Int]
    <3>1. ASSUME NEW cell \in Stats!Cells
          PROVE  owed[cell] + (IF cell \in cells THEN 1 ELSE 0)
                            - (IF Up("StatsCollector") THEN 0 ELSE InMetric(m, cell)) \in Int
      BY <1>2, <1>4, <2>3
    <3> QED
      BY <2>2, <3>1
  <2>5. /\ \A i \in DOMAIN main' : InMain(main'[i])
        /\ \A cell : SumOf(Worths(main', cell)) - SumOf(Worths(main, cell)) = 0
    BY <1>4, Unmoved
  <2>6. ASSUME NEW cell \in Stats!Cells
        PROVE  owed'[cell] - owed[cell] =
                   (SumOf(SessionTerms(selector', cell)) - SumOf(SessionTerms(selector, cell)))
                 + (SumOf(Worths(mail', cell)) - SumOf(Worths(mail, cell)))
                 + (HeldIn(book', cell) - HeldIn(book, cell))
                 + (SumOf(Worths(main', cell)) - SumOf(Worths(main, cell)))
                 + (SumOf(WriteTerms(out', cell)) - SumOf(WriteTerms(out, cell)))
    <3>1. owed'[cell] - owed[cell] = (IF cell \in cells THEN 1 ELSE 0)
                                       - (IF Up("StatsCollector") THEN 0 ELSE InMetric(m, cell))
      BY <1>2, <1>4, <2>2, <2>3
    <3>2. SumOf(Worths(mail', cell)) - SumOf(Worths(mail, cell))
            = IF Up("StatsCollector") THEN InMetric(m, cell) ELSE 0
      BY <2>1
    <3>3. SumOf(SessionTerms(selector', cell)) - SumOf(SessionTerms(selector, cell))
            = IF cell \in cells THEN 1 - m.count ELSE 0
      BY <1>4
    <3>4. /\ HeldIn(book', cell) - HeldIn(book, cell) = 0
          /\ SumOf(Worths(main', cell)) - SumOf(Worths(main, cell)) = 0
          /\ SumOf(WriteTerms(out', cell)) - SumOf(WriteTerms(out, cell)) = 0
      BY <1>2, <2>5
    <3>5. InMetric(m, cell) = (IF cell \in cells THEN m.count ELSE 0) /\ m.count \in Int
      BY <1>4, <2>3
    <3> QED
      BY <3>1, <3>2, <3>3, <3>4, <3>5
  <2> QED
    BY <1>2, <1>4, <2>1, <2>4, <2>5, <2>6, Balance
<1>5. ASSUME NEW s \in Stats!Sessions, Pong(s)
      PROVE  AccountsInv'
  <2> DEFINE m == Stats!SessionMetrics(s)
  <2>1. /\ m.what = "metric" /\ m.count = selector[s] + 1 /\ m.cells = Stats!SessionCells(s)
        /\ selector[s] \in Int
    BY <1>2 DEF Stats!SessionMetrics, Stats!Metric
  <2>2. /\ selector' = [selector EXCEPT ![s] = 0] /\ Post(m) /\ Owe(m.cells, m) /\ main' = main
    BY <1>5 DEF Pong, Stats!OnPong, Stats!AfterPong
  <2> HIDE DEF m
  <2>3. /\ selector' \in [Stats!Sessions -> Int]
        /\ \A cell : SumOf(SessionTerms(selector', cell)) - SumOf(SessionTerms(selector, cell))
                       = IF cell \in Stats!SessionCells(s) THEN 0 - selector[s] ELSE 0
    <3> 0 \in Int
      OBVIOUS
    <3> QED
      BY <2>2, CounterSet
  <2>4. 0 - selector[s] = 1 - m.count /\ m.count \in Int
    BY <2>1
  <2> QED
    BY <1>4, <2>1, <2>2, <2>3, <2>4
<1>6. ASSUME NEW channel \in Channels, ChatMessage(channel)
      PROVE  AccountsInv'
  <2> DEFINE m == Stats!MessageMetric(channel)
  <2>1. m.what = "metric" /\ m.count = 1
    BY DEF Stats!MessageMetric, Stats!Metric
  <2>2. Post(m) /\ Owe(m.cells, m) /\ main' = main /\ selector' = selector
    BY <1>6 DEF ChatMessage
  <2> HIDE DEF m
  <2>3. /\ selector' \in [Stats!Sessions -> Int]
        /\ \A cell : SumOf(SessionTerms(selector', cell)) - SumOf(SessionTerms(selector, cell)) = 0
    BY <2>2, Unmoved
  <2>4. \A cell \in Stats!Cells :
            SumOf(SessionTerms(selector', cell)) - SumOf(SessionTerms(selector, cell))
              = IF cell \in m.cells THEN 1 - m.count ELSE 0
    BY <2>1, <2>3
  <2> QED
    BY <1>4, <2>1, <2>2, <2>3, <2>4
<1>7. CASE Disconnected
  <2>1. main' = Append(main, Notify) /\ UNCHANGED <<selector, mail, owed>>
    BY <1>7 DEF Disconnected
  <2>2. InMain(Notify) /\ Notify.what = "notify"
    BY DEF Notify, InMain
  <2>3. IsQueue(main) /\ \A i \in DOMAIN main : InMain(main[i])
    BY DEF AccountsInv, InterfaceInv, Types
  <2>4. /\ \A cell : SumOf(Worths(Append(main, Notify), cell)) - SumOf(Worths(main, cell)) = 0
        /\ \A i \in DOMAIN Append(main, Notify) :
               \/ Append(main, Notify)[i] = Notify
               \/ i \in DOMAIN main /\ Append(main, Notify)[i] = main[i]
    BY <2>2, <2>3, PutNothing
  <2>5. /\ \A cell : SumOf(Worths(main', cell)) - SumOf(Worths(main, cell)) = 0
        /\ \A i \in DOMAIN main' : InMain(main'[i])
    BY <2>1, <2>2, <2>3, <2>4
  <2>6. /\ \A i \in DOMAIN mail' : InMail(mail'[i])
        /\ \A cell : SumOf(Worths(mail', cell)) - SumOf(Worths(mail, cell)) = 0
    BY <2>1, Unmoved
  <2> QED
    BY <1>1, <1>2, <2>1, <2>5, <2>6, Steady
<1> QED
  BY <1>3, <1>5, <1>6, <1>7 DEF IrcStep

\* ~io_context destroys the answers that are being written.
LEMMA TeardownAccounts == InterfaceInv /\ InterfaceInv' /\ AccountsInv /\ Teardown => AccountsInv'
<1> SUFFICES ASSUME InterfaceInv, InterfaceInv', AccountsInv, Teardown
             PROVE  AccountsInv'
  OBVIOUS
<1>1. UNCHANGED <<selector, book, main, mail>>
  BY DEF Teardown, statsVars
<1>2. CASE UNCHANGED <<out, conn, owed>>
  <2>1. /\ Writing'
        /\ \A i \in DOMAIN main' : InMain(main'[i])
        /\ \A i \in DOMAIN mail' : InMail(mail'[i])
        /\ \A cell : SumOf(Worths(mail', cell)) - SumOf(Worths(mail, cell)) = 0
        /\ \A cell : SumOf(Worths(main', cell)) - SumOf(Worths(main, cell)) = 0
        /\ \A cell : SumOf(WriteTerms(out', cell)) - SumOf(WriteTerms(out, cell)) = 0
    BY <1>1, <1>2, Unmoved
  <2> QED
    BY <1>1, <1>2, <2>1, Steady
<1>3. CASE DestroyServer
  <2>1. /\ out' = [c \in Connections |-> NoAnswer]
        /\ conn' = [c \in Connections |-> IF conn[c] \in Http!Pending THEN "closed" ELSE conn[c]]
        /\ owed' = [cell \in Stats!Cells |-> owed[cell] - BeingWritten(cell)]
    BY <1>3 DEF DestroyServer, Http!Destroy, Leaves
  <2>2. Writing'
    BY <2>1 DEF Writing, Http!Pending
  <2>3. /\ \A c \in Connections : out[c] \in Answers \cup {NoAnswer}
        /\ \A c \in Connections : out'[c] \in Answers \cup {NoAnswer}
        /\ owed \in [Stats!Cells -> Int]
    BY <2>1 DEF AccountsInv, Writing
  <2>4. ASSUME NEW cell
        PROVE  /\ BeingWritten(cell) = SumOf(WriteTerms(out, cell))
               /\ SumOf(WriteTerms(out, cell)) \in Int
               /\ SumOf(WriteTerms(out', cell)) = 0
    <3>1. BeingWritten(cell) = SumOf(WriteTerms(out, cell)) /\ SumOf(WriteTerms(out, cell)) \in Int
      BY <2>3, WritesSum DEF BeingWritten, WriteTerms
    <3> DEFINE g == WriteTerms(out', cell)
    <3>2. Summable(g)
      BY <2>3, WritesSum
    <3>3. \A c \in DOMAIN g : g[c] = 0
      BY <2>1 DEF WriteTerms
    <3> HIDE DEF g
    <3>4. SumOf(g) = 0
      BY <3>2, <3>3, SumOfZeros
    <3> QED
      BY <3>1, <3>4 DEF g
  <2>5. owed' \in [Stats!Cells -> Int]
    <3>1. \A cell \in Stats!Cells : owed[cell] - BeingWritten(cell) \in Int
      BY <2>3, <2>4
    <3> QED
      BY <2>1, <3>1
  <2>6. ASSUME NEW cell \in Stats!Cells
        PROVE  owed'[cell] - owed[cell] =
                   (SumOf(SessionTerms(selector', cell)) - SumOf(SessionTerms(selector, cell)))
                 + (SumOf(Worths(mail', cell)) - SumOf(Worths(mail, cell)))
                 + (HeldIn(book', cell) - HeldIn(book, cell))
                 + (SumOf(Worths(main', cell)) - SumOf(Worths(main, cell)))
                 + (SumOf(WriteTerms(out', cell)) - SumOf(WriteTerms(out, cell)))
    <3>1. /\ SumOf(SessionTerms(selector', cell)) - SumOf(SessionTerms(selector, cell)) = 0
          /\ SumOf(Worths(mail', cell)) - SumOf(Worths(mail, cell)) = 0
          /\ HeldIn(book', cell) - HeldIn(book, cell) = 0
          /\ SumOf(Worths(main', cell)) - SumOf(Worths(main, cell)) = 0
      BY <1>1, Unmoved
    <3>2. owed'[cell] = owed[cell] - SumOf(WriteTerms(out, cell)) /\ owed[cell] \in Int
      BY <2>1, <2>3, <2>4
    <3>3. SumOf(WriteTerms(out, cell)) \in Int /\ SumOf(WriteTerms(out', cell)) = 0
      BY <2>4
    <3> QED
      BY <3>1, <3>2, <3>3
  <2>7. /\ selector' \in [Stats!Sessions -> Int] /\ Booked'
        /\ \A i \in DOMAIN main' : InMain(main'[i])
        /\ \A i \in DOMAIN mail' : InMail(mail'[i])
    BY <1>1, Unmoved
  <2> QED
    BY <2>2, <2>5, <2>6, <2>7, Balance
<1>4. CASE DestroyController \/ StopNotifier \/ DestroyNotifier
  BY <1>2, <1>4 DEF DestroyController, StopNotifier, DestroyNotifier, serverVars
<1> QED
  BY <1>3, <1>4 DEF Teardown

\* At start nothing is counted.
LEMMA AccountsInit == Init => AccountsInv
<1> SUFFICES ASSUME Init PROVE AccountsInv
  OBVIOUS
<1>1. /\ conn = [c \in Connections |-> "none"] /\ out = [c \in Connections |-> NoAnswer]
      /\ selector = [s \in Stats!Sessions |-> 0] /\ book = [view \in Stats!Views |-> << >>]
      /\ main = << >> /\ mail = << >> /\ owed = [cell \in Stats!Cells |-> 0]
  BY DEF Init, Http!Init, Stats!Init
<1>2. IsQueue(<< >>) /\ DOMAIN << >> = {}
  BY EmptySeq DEF IsQueue
<1>3. /\ owed \in [Stats!Cells -> Int] /\ selector \in [Stats!Sessions -> Int]
      /\ (\A i \in DOMAIN main : InMain(main[i])) /\ \A i \in DOMAIN mail : InMail(mail[i])
  BY <1>1, <1>2
<1>4. Booked
  <2>1. \A view \in Stats!Views : book[view] = << >>
    BY <1>1
  <2>2. \A keys : IsTable(<< >>, keys)
    BY <1>2 DEF IsTable
  <2> QED
    BY <1>1, <2>1, <2>2 DEF Booked
<1>5. Writing
  BY <1>1 DEF Writing
<1>6. ASSUME NEW cell \in Stats!Cells
      PROVE  owed[cell] = Inside(cell)
  <2>1. SumOf(SessionTerms(selector, cell)) = 0
    <3> DEFINE f == SessionTerms(selector, cell)
    <3>1. Summable(f)
      BY <1>3, SessionsSum
    <3>2. \A s \in DOMAIN f : f[s] = 0
      BY <1>1 DEF SessionTerms
    <3> HIDE DEF f
    <3>3. SumOf(f) = 0
      BY <3>1, <3>2, SumOfZeros
    <3> QED
      BY <3>3 DEF f
  <2>2. SumOf(WriteTerms(out, cell)) = 0
    <3> DEFINE f == WriteTerms(out, cell)
    <3>1. Summable(f)
      BY <1>1, WritesSum
    <3>2. \A c \in DOMAIN f : f[c] = 0
      BY <1>1 DEF WriteTerms
    <3> HIDE DEF f
    <3>3. SumOf(f) = 0
      BY <3>1, <3>2, SumOfZeros
    <3> QED
      BY <3>3 DEF f
  <2>3. SumOf(Worths(<< >>, cell)) = 0
    <3> DEFINE f == Worths(<< >>, cell)
    <3>1. Summable(f) /\ DOMAIN f = {}
      BY <1>2, WorthsSum DEF Worths
    <3> HIDE DEF f
    <3>2. SumOf(f) = 0
      BY <3>1, SumOfZeros
    <3> QED
      BY <3>2 DEF f
  <2>4. HeldIn(book, cell) = 0
    <3>1. book[cell[1]] = << >>
      BY <1>1, CellIs
    <3> QED
      BY <1>2, <3>1 DEF HeldIn
  <2>5. owed[cell] = 0
    BY <1>1
  <2>6. Inside(cell) = SumOf(SessionTerms(selector, cell)) + SumOf(Worths(mail, cell))
                         + HeldIn(book, cell) + SumOf(Worths(main, cell))
                         + SumOf(WriteTerms(out, cell))
    BY <1>3, Places
  <2> QED
    BY <1>1, <2>1, <2>2, <2>3, <2>4, <2>5, <2>6
<1> QED
  BY <1>3, <1>4, <1>5, <1>6 DEF AccountsInv, Accounted

\* Every step adds to a cell's debt what it adds to the places.
LEMMA AccountsStep == InterfaceInv /\ InterfaceInv' /\ AccountsInv /\ [Next]_vars => AccountsInv'
<1> SUFFICES ASSUME InterfaceInv, InterfaceInv', AccountsInv, [Next]_vars
             PROVE  AccountsInv'
  OBVIOUS
<1>1. ASSUME UNCHANGED <<serverVars, statsVars, main, mail, owed>>
      PROVE  AccountsInv'
  <2>1. UNCHANGED <<conn, out, selector, book, main, mail, owed>>
    BY <1>1 DEF serverVars, statsVars
  <2>2. /\ Writing'
        /\ \A i \in DOMAIN main' : InMain(main'[i])
        /\ \A i \in DOMAIN mail' : InMail(mail'[i])
        /\ \A cell : SumOf(Worths(mail', cell)) - SumOf(Worths(mail, cell)) = 0
        /\ \A cell : SumOf(Worths(main', cell)) - SumOf(Worths(main, cell)) = 0
        /\ \A cell : SumOf(WriteTerms(out', cell)) - SumOf(WriteTerms(out, cell)) = 0
    BY <2>1, Unmoved
  <2> QED
    BY <2>1, <2>2, Steady
<1>2. CASE UNCHANGED vars
  BY <1>1, <1>2 DEF vars
<1>3. CASE Signal
  BY <1>1, <1>3 DEF Signal
<1>4. ASSUME NEW w \in Workers, ClientStep(w)
      PROVE  AccountsInv'
  BY <1>1, <1>4 DEF ClientStep
<1>5. CASE Step
  BY <1>3, <1>4, <1>5, ServerAccounts, ReadAccounts, MainAccounts, StatsAccounts, IrcAccounts,
     ShutdownAccounts, TeardownAccounts DEF Step
<1>6. CASE ChatStep \/ EvtHttpThrows
  BY <1>1, <1>6 DEF ChatStep, EnterDatabase, LeaveDatabase, ChatFinish, EvtHttpThrows, others
<1> QED
  BY <1>2, <1>5, <1>6 DEF Next, Running

\* Whatever sessions count, and however many of them, accounts and channels
\* there are, is reported once or not yet: at any time it is in a session's
\* counters, on the way to StatsCollector, held there or in one answer that is
\* under way (IRCSession::sendStats, StatsCollector::evtIRCMetrics,
\* evtHttpAccountsStats).
THEOREM InterfaceAccounted == Spec => []Accounted
<1>1. AccountsInv => Accounted
  BY DEF AccountsInv
<1> QED
  BY <1>1, InterfaceInvariant, AccountsInit, AccountsStep, PTL DEF Spec
=============================================================================
