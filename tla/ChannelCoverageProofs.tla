----------------------- MODULE ChannelCoverageProofs -----------------------
(***************************************************************************)
(* For every finite set of channels and of sessions: with all sessions     *)
(* logged in, no channel of the loaded list is left without a session.     *)
(*                                                                         *)
(* Covered alone is not inductive.  What a login may leave behind is       *)
(* bounded by counting: a session gives back no more than one login's      *)
(* share when it disconnects (FairShare, which needs that it held nothing  *)
(* before that login), so the channels that wait always fit the sessions   *)
(* still to log in (RoomForWaiting); with none still to log in, none wait. *)
(***************************************************************************)
EXTENDS ChannelCoverage, FiniteSetTheorems, TLAPS

\* The inductive invariant.
IInv == TypeOK /\ NoChannelWithoutLogin /\ FairShare /\ RoomForWaiting

-----------------------------------------------------------------------------
(* Arithmetic of the share. *)

\* K shares of n \div K + 1 channels are enough for n channels.
LEMMA SharesSuffice ==
    ASSUME NEW n \in Nat, NEW k \in Nat \ {0}
    PROVE  /\ n \div k + 1 \in Nat \ {0}
           /\ n <= (n \div k + 1) * k
<1> DEFINE q == n \div k
<1>1. q \in Int /\ q >= 0
  BY SMT
<1>2. n < k * q + k
  BY SMT
<1>3. (q + 1) * k = k * q + k
  BY <1>1, SMT
<1> QED
  BY <1>1, <1>2, <1>3

\* One session more adds one share, one session less takes one away.
LEMMA OneShare ==
    ASSUME NEW cap \in Nat, NEW m \in Nat
    PROVE  /\ cap * m \in Nat
           /\ cap * (m + 1) = cap * m + cap
  BY SMT

-----------------------------------------------------------------------------
(* The operators of the channel list. *)

\* The counts used below are counts of finite sets.
LEMMA FiniteParts ==
    ASSUME TypeOK
    PROVE  /\ IsFiniteSet(DOMAIN channels)
           /\ IsFiniteSet(Unattached(channels))
           /\ Cardinality(Unattached(channels)) \in Nat
           /\ \A s : /\ IsFiniteSet(HeldBy(channels, s))
                     /\ Cardinality(HeldBy(channels, s)) \in Nat
           /\ IsFiniteSet(Sessions \ loggedIn)
           /\ Cardinality(Sessions \ loggedIn) \in Nat
<1>1. IsFiniteSet(DOMAIN channels)
  BY FS_Subset, CoverageAssumption DEF TypeOK
<1>2. IsFiniteSet(Unattached(channels))
  BY <1>1, FS_Subset DEF Unattached
<1>3. \A s : IsFiniteSet(HeldBy(channels, s))
  BY <1>1, FS_Subset DEF HeldBy
<1>4. IsFiniteSet(Sessions \ loggedIn)
  BY FS_Difference, CoverageAssumption
<1> QED
  BY <1>1, <1>2, <1>3, <1>4, FS_CardinalityType

\* One login's share is a positive number, whatever the list.
LEMMA ShareType ==
    ASSUME TypeOK
    PROVE  /\ Cardinality(DOMAIN channels) \in Nat
           /\ SessionCount \in Nat \ {0}
           /\ Share(channels, SessionCount) \in Nat \ {0}
<1>1. Cardinality(DOMAIN channels) \in Nat
  BY FiniteParts, FS_CardinalityType
<1>2. SessionCount \in Nat \ {0}
  BY CoverageAssumption, FS_CardinalityType, FS_EmptySet DEF SessionCount
<1> QED
  BY <1>1, <1>2, SharesSuffice DEF Share

-----------------------------------------------------------------------------

\* A list that was just loaded satisfies the invariant.
THEOREM InitIInv == CoverageInit => IInv
<1> SUFFICES ASSUME CoverageInit PROVE IInv
  OBVIOUS
<1>1. TypeOK
  <2>1. PICK names \in SUBSET Channels : channels = Load(names)
    BY DEF CoverageInit
  <2>2. DOMAIN channels = names
    BY <2>1 DEF Load
  <2>3. \A c \in DOMAIN channels : channels[c] \in Entry
    BY <2>1, <2>2 DEF Load, Detached, Entry
  <2>4. channels = [c \in DOMAIN channels |-> channels[c]]
    BY <2>1, <2>2 DEF Load
  <2>5. channels \in [DOMAIN channels -> Entry]
    BY <2>3, <2>4
  <2> QED
    BY <2>2, <2>5 DEF TypeOK, CoverageInit
<1>2. Unattached(channels) = DOMAIN channels
  BY DEF CoverageInit, Load, Detached, Unattached, Attached
<1>3. \A s \in Sessions : HeldBy(channels, s) = {}
  BY CoverageAssumption DEF CoverageInit, Load, Detached, HeldBy
<1>4. NoChannelWithoutLogin
  BY <1>3 DEF NoChannelWithoutLogin
<1>5. FairShare
  BY <1>1, <1>3, ShareType, FS_EmptySet DEF FairShare
<1>6. RoomForWaiting
  <2>1. Cardinality(Sessions \ loggedIn) = SessionCount
    <3>1. Sessions \ loggedIn = Sessions
      BY DEF CoverageInit
    <3> QED
      BY <3>1 DEF SessionCount
  <2>2. Cardinality(DOMAIN channels)
          <= Share(channels, SessionCount) * SessionCount
    BY <1>1, ShareType, SharesSuffice DEF Share
  <2> QED
    BY <1>2, <2>1, <2>2 DEF RoomForWaiting
<1> QED
  BY <1>1, <1>4, <1>5, <1>6 DEF IInv

\* A login takes a share, or everything that waits.
LEMMA LogInStep ==
    ASSUME IInv, NEW s \in Sessions, LogIn(s)
    PROVE  IInv'
<1> DEFINE cap == Share(channels, SessionCount)
           waiting == Unattached(channels)
           out == Sessions \ loggedIn
<1> USE DEF IInv
<1>0. PICK R \in Reservations(channels, SessionCount) :
         channels' = Attach(channels, R, s)
  BY DEF LogIn
<1>1. /\ R \subseteq waiting
      /\ IF Cardinality(waiting) <= cap THEN R = waiting
                                        ELSE Cardinality(R) = cap
  BY <1>0 DEF Reservations
<1>2. waiting \subseteq DOMAIN channels /\ DOMAIN channels' = DOMAIN channels
  BY <1>0 DEF Attach, Unattached
<1>3. Share(channels, SessionCount)' = cap
  BY <1>2 DEF Share, SessionCount
<1>4. TypeOK'
  <2>1. ASSUME NEW c \in DOMAIN channels
        PROVE  channels'[c] \in Entry
    BY <1>0, <2>1 DEF Attach, TypeOK, Entry
  <2> QED
    BY <1>0, <1>2, <2>1 DEF TypeOK, LogIn, Attach
<1>5. /\ s \in out
      /\ (Sessions \ loggedIn)' = out \ {s}
      /\ loggedIn' = loggedIn \cup {s}
      /\ resized' = resized
  BY DEF LogIn
<1>6. CASE resized
  BY <1>4, <1>5, <1>6 DEF NoChannelWithoutLogin, FairShare, RoomForWaiting
<1>7. CASE ~ resized
  <2>1. HeldBy(channels, s) = {}
    BY <1>5, <1>7 DEF NoChannelWithoutLogin
  <2>2. HeldBy(channels, s)' = R
    BY <1>0, <1>1, <1>2, <2>1, CoverageAssumption
       DEF HeldBy, Attach, Unattached, Attached, TypeOK, Entry
  <2>3. ASSUME NEW t \in Sessions, t # s
        PROVE  HeldBy(channels, t)' = HeldBy(channels, t)
    BY <1>0, <1>1, <1>2, <2>3, CoverageAssumption
       DEF HeldBy, Attach, Unattached, Attached, TypeOK, Entry
  <2>4. Unattached(channels)' = waiting \ R
    BY <1>0, <1>1, <1>2, CoverageAssumption
       DEF Attach, Unattached, Attached, TypeOK, Entry
  <2>5. NoChannelWithoutLogin'
    BY <1>5, <2>3 DEF NoChannelWithoutLogin
  <2>6. IsFiniteSet(waiting) /\ Cardinality(waiting) \in Nat
    BY FiniteParts
  <2>7. /\ cap \in Nat
        /\ IsFiniteSet(R) /\ Cardinality(R) \in Nat
        /\ Cardinality(R) <= cap
    BY <1>1, <2>6, ShareType, FS_Subset, FS_CardinalityType
  <2>8. FairShare'
    <3>1. ASSUME NEW t \in Sessions
          PROVE  Cardinality(HeldBy(channels, t)') <= cap
      <4>1. CASE t = s
        BY <2>2, <2>7, <4>1
      <4>2. CASE t # s
        BY <2>3, <4>2, <1>7 DEF FairShare
      <4> QED
        BY <4>1, <4>2
    <3> QED
      BY <1>3, <3>1 DEF FairShare
  <2>9. RoomForWaiting'
    <3>1. Cardinality(out) \in Nat /\ Cardinality(out \ {s}) \in Nat
          /\ Cardinality(out) = Cardinality(out \ {s}) + 1
      <4>1. IsFiniteSet(out) /\ Cardinality(out) \in Nat
        BY FiniteParts
      <4>2. /\ IsFiniteSet(out \ {s})
            /\ Cardinality(out \ {s}) = Cardinality(out) - 1
        BY <4>1, <1>5, FS_RemoveElement
      <4>3. Cardinality(out \ {s}) \in Nat
        BY <4>2, FS_CardinalityType
      <4> QED
        BY <4>1, <4>2, <4>3
    <3>2. Cardinality(waiting) <= cap * Cardinality(out)
      BY <1>7 DEF RoomForWaiting
    <3>3. cap * Cardinality(out) = cap * Cardinality(out \ {s}) + cap
          /\ cap * Cardinality(out \ {s}) \in Nat
      BY <3>1, <2>7, OneShare
    <3>4. Cardinality(waiting \ R) = Cardinality(waiting) - Cardinality(R)
      <4>1. waiting \cap R = R
        BY <1>1
      <4> QED
        BY <4>1, <2>6, FS_Difference
    <3>5. Cardinality(waiting \ R) <= cap * Cardinality(out \ {s})
      <4>1. CASE Cardinality(waiting) <= cap
        <5>1. waiting \ R = {}
          BY <1>1, <4>1
        <5>2. Cardinality(waiting \ R) = 0
          BY <5>1, FS_EmptySet
        <5> QED
          BY <5>2, <3>3
      <4>2. CASE ~ (Cardinality(waiting) <= cap)
        <5>1. Cardinality(R) = cap
          BY <1>1, <4>2
        <5> QED
          <6>1. Cardinality(waiting \ R) = Cardinality(waiting) - cap
            BY <5>1, <3>4
          <6>2. Cardinality(waiting) <= cap * Cardinality(out \ {s}) + cap
            BY <3>2, <3>3
          <6> QED
            BY <6>1, <6>2, <2>6, <2>7, <3>3
      <4> QED
        BY <4>1, <4>2
    <3> QED
      BY <1>3, <1>5, <2>4, <3>5 DEF RoomForWaiting
  <2> QED
    BY <1>4, <2>5, <2>8, <2>9
<1> QED
  BY <1>6, <1>7

\* A disconnection gives back at most the share of one login.
LEMMA DisconnectStep ==
    ASSUME IInv, NEW s \in Sessions, Disconnect(s)
    PROVE  IInv'
<1> DEFINE cap == Share(channels, SessionCount)
           waiting == Unattached(channels)
           out == Sessions \ loggedIn
<1> USE DEF IInv
<1>0. /\ channels' = DetachFrom(channels, s)
      /\ loggedIn' = loggedIn \ {s}
      /\ resized' = resized
  BY DEF Disconnect
<1>2. DOMAIN channels' = DOMAIN channels
  BY <1>0 DEF DetachFrom
<1>3. Share(channels, SessionCount)' = cap
  BY <1>2 DEF Share, SessionCount
<1>4. TypeOK'
  <2>1. ASSUME NEW c \in DOMAIN channels
        PROVE  channels'[c] \in Entry
    BY <1>0, <2>1 DEF DetachFrom, TypeOK, Entry, Detached
  <2> QED
    BY <1>0, <1>2, <2>1 DEF TypeOK, DetachFrom
<1>5. CASE resized
  BY <1>0, <1>4, <1>5 DEF NoChannelWithoutLogin, FairShare, RoomForWaiting
<1>6. CASE ~ resized
  <2>1. HeldBy(channels, s)' = {}
    BY <1>0, <1>2, CoverageAssumption DEF HeldBy, DetachFrom, Detached
  <2>2. ASSUME NEW t \in Sessions, t # s
        PROVE  HeldBy(channels, t)' = HeldBy(channels, t)
    BY <1>0, <1>2, <2>2, CoverageAssumption DEF HeldBy, DetachFrom, Detached
  <2>3. Unattached(channels)' = waiting \cup HeldBy(channels, s)
    BY <1>0, <1>2, CoverageAssumption
       DEF Unattached, Attached, HeldBy, DetachFrom, Detached
  <2>4. NoChannelWithoutLogin'
    BY <1>0, <1>6, <2>1, <2>2 DEF NoChannelWithoutLogin
  <2>5. cap \in Nat
    BY ShareType
  <2>6. FairShare'
    <3>1. ASSUME NEW t \in Sessions
          PROVE  Cardinality(HeldBy(channels, t)') <= cap
      <4>1. CASE t = s
        BY <2>1, <2>5, <4>1, FS_EmptySet
      <4>2. CASE t # s
        BY <2>2, <4>2, <1>6 DEF FairShare
      <4> QED
        BY <4>1, <4>2
    <3> QED
      BY <1>3, <3>1 DEF FairShare
  <2>7. /\ IsFiniteSet(waiting) /\ Cardinality(waiting) \in Nat
        /\ IsFiniteSet(HeldBy(channels, s))
        /\ Cardinality(HeldBy(channels, s)) \in Nat
    BY FiniteParts
  <2>8. waiting \cap HeldBy(channels, s) = {}
    BY CoverageAssumption DEF Unattached, Attached, HeldBy
  <2>9. Cardinality(Unattached(channels)')
          = Cardinality(waiting) + Cardinality(HeldBy(channels, s))
    <3>1. Cardinality(waiting \cup HeldBy(channels, s))
            = Cardinality(waiting) + Cardinality(HeldBy(channels, s))
                - Cardinality(waiting \cap HeldBy(channels, s))
      BY <2>7, FS_Union
    <3> QED
      BY <3>1, <2>3, <2>7, <2>8, FS_EmptySet
  <2>10. Cardinality(waiting) <= cap * Cardinality(out)
    BY <1>6 DEF RoomForWaiting
  <2>11. Cardinality(HeldBy(channels, s)) <= cap
    BY <1>6 DEF FairShare
  <2>12. Cardinality(out) \in Nat /\ cap * Cardinality(out) \in Nat
    BY FiniteParts, <2>5, OneShare
  <2>13. RoomForWaiting'
    <3>1. CASE s \in loggedIn
      <4>1. (Sessions \ loggedIn)' = out \cup {s} /\ s \notin out
        BY <1>0, <3>1
      <4>2. Cardinality(out \cup {s}) = Cardinality(out) + 1
        BY <4>1, FiniteParts, FS_AddElement
      <4>3. cap * Cardinality(out \cup {s}) = cap * Cardinality(out) + cap
        BY <4>2, <2>5, <2>12, OneShare
      <4>4. Cardinality(Unattached(channels)') <= cap * Cardinality(out) + cap
        BY <2>5, <2>7, <2>9, <2>10, <2>11, <2>12
      <4>5. Cardinality(Unattached(channels)') <= cap * Cardinality(out \cup {s})
        BY <4>3, <4>4
      <4> QED
        BY <1>3, <4>1, <4>5 DEF RoomForWaiting
    <3>2. CASE s \notin loggedIn
      <4>1. (Sessions \ loggedIn)' = out
        BY <1>0, <3>2
      <4>2. HeldBy(channels, s) = {}
        BY <1>6, <3>2 DEF NoChannelWithoutLogin
      <4>3. Unattached(channels)' = waiting
        BY <2>3, <4>2
      <4> QED
        BY <1>3, <4>1, <4>3, <2>10 DEF RoomForWaiting
    <3> QED
      BY <3>1, <3>2
  <2> QED
    BY <1>4, <2>4, <2>6, <2>13
<1> QED
  BY <1>5, <1>6

\* Confirming a JOIN moves no channel.
LEMMA ChannelJoinedStep ==
    ASSUME IInv, NEW c \in Channels, ChannelJoined(c)
    PROVE  IInv'
<1> USE DEF IInv
<1>0. /\ channels' = MarkJoined(channels, c)
      /\ loggedIn' = loggedIn
      /\ resized' = resized
  BY DEF ChannelJoined
<1>1. DOMAIN channels' = DOMAIN channels
  BY <1>0 DEF MarkJoined
<1>2. \A d \in DOMAIN channels : channels'[d].session = channels[d].session
  BY <1>0 DEF MarkJoined, TypeOK, Entry
<1>3. Unattached(channels)' = Unattached(channels)
  BY <1>1, <1>2 DEF Unattached, Attached
<1>4. \A s : HeldBy(channels, s)' = HeldBy(channels, s)
  BY <1>1, <1>2 DEF HeldBy
<1>5. Share(channels, SessionCount)' = Share(channels, SessionCount)
  BY <1>1 DEF Share, SessionCount
<1>6. TypeOK'
  <2>1. ASSUME NEW d \in DOMAIN channels
        PROVE  channels'[d] \in Entry
    BY <1>0, <2>1 DEF MarkJoined, TypeOK, Entry
  <2> QED
    BY <1>0, <1>1, <2>1 DEF TypeOK, MarkJoined
<1>7. NoChannelWithoutLogin' /\ FairShare' /\ RoomForWaiting'
  BY <1>0, <1>3, <1>4, <1>5 DEF NoChannelWithoutLogin, FairShare, RoomForWaiting
<1> QED
  BY <1>6, <1>7

\* After a command only the types are promised.
LEMMA CommandStep ==
    ASSUME IInv, NEW c \in Channels, NEW s \in Sessions,
           JoinChannel(c, s) \/ LeaveChannel(c)
    PROVE  IInv'
<1> USE DEF IInv
<1>1. CASE JoinChannel(c, s)
  <2>1. channels' = AddChannel(channels, c, s) /\ loggedIn' = loggedIn /\ resized'
    BY <1>1 DEF JoinChannel
  <2>2. DOMAIN channels' = DOMAIN channels \cup {c}
    BY <2>1 DEF AddChannel
  <2>3. ASSUME NEW d \in DOMAIN channels'
        PROVE  channels'[d] \in Entry
    BY <2>1, <2>2, <2>3 DEF AddChannel, TypeOK, Entry
  <2>4. TypeOK'
    BY <1>1, <2>1, <2>2, <2>3 DEF TypeOK, AddChannel, JoinChannel
  <2> QED
    BY <2>1, <2>4 DEF NoChannelWithoutLogin, FairShare, RoomForWaiting
<1>2. CASE LeaveChannel(c)
  <2>1. channels' = ExtractChannel(channels, c) /\ loggedIn' = loggedIn /\ resized'
    BY <1>2 DEF LeaveChannel
  <2>2. DOMAIN channels' = DOMAIN channels \ {c}
    BY <2>1 DEF ExtractChannel
  <2>3. ASSUME NEW d \in DOMAIN channels'
        PROVE  channels'[d] \in Entry
    BY <2>1, <2>2, <2>3 DEF ExtractChannel, TypeOK, Entry
  <2>4. TypeOK'
    BY <1>2, <2>1, <2>2, <2>3 DEF TypeOK, ExtractChannel, LeaveChannel
  <2> QED
    BY <2>1, <2>4 DEF NoChannelWithoutLogin, FairShare, RoomForWaiting
<1> QED
  BY <1>1, <1>2

\* Logins and disconnections keep it.
THEOREM NextIInv == IInv /\ [CoverageNext]_coverageVars => IInv'
<1> SUFFICES ASSUME IInv, [CoverageNext]_coverageVars PROVE IInv'
  OBVIOUS
<1>1. ASSUME NEW s \in Sessions, LogIn(s) PROVE IInv'
  BY <1>1, LogInStep
<1>2. ASSUME NEW s \in Sessions, Disconnect(s) PROVE IInv'
  BY <1>2, DisconnectStep
<1>3. ASSUME NEW c \in Channels, ChannelJoined(c) PROVE IInv'
  BY <1>3, ChannelJoinedStep
<1>4. ASSUME NEW c \in Channels, LeaveChannel(c) PROVE IInv'
  BY <1>4, CommandStep, CoverageAssumption
<1>5. ASSUME NEW c \in Channels, NEW s \in Sessions, JoinChannel(c, s)
      PROVE  IInv'
  BY <1>5, CommandStep
<1>6. CASE UNCHANGED coverageVars
  BY <1>6 DEF coverageVars, IInv, TypeOK, NoChannelWithoutLogin, FairShare,
     RoomForWaiting, Share, HeldBy, Unattached, Attached, SessionCount
<1> QED
  BY <1>1, <1>2, <1>3, <1>4, <1>5, <1>6 DEF CoverageNext

\* IInv holds in every reachable state.
THEOREM CoverageInvariant == CoverageSpec => []IInv
<1> QED
  BY InitIInv, NextIInv, PTL DEF CoverageSpec

\* TypeOK for every set of channels and sessions.
THEOREM CoverageTypes == CoverageSpec => []TypeOK
<1>1. IInv => TypeOK
  BY DEF IInv
<1> QED
  BY <1>1, CoverageInvariant, PTL

\* A session that is not logged in holds no channel.
THEOREM CoverageNoLogin == CoverageSpec => []NoChannelWithoutLogin
<1>1. IInv => NoChannelWithoutLogin
  BY DEF IInv
<1> QED
  BY <1>1, CoverageInvariant, PTL

\* One login reserves one share, however often sessions come and go.
THEOREM CoverageShares == CoverageSpec => []FairShare
<1>1. IInv => FairShare
  BY DEF IInv
<1> QED
  BY <1>1, CoverageInvariant, PTL

\* The sessions still to log in have room for every channel that waits.
THEOREM CoverageRoom == CoverageSpec => []RoomForWaiting
<1>1. IInv => RoomForWaiting
  BY DEF IInv
<1> QED
  BY <1>1, CoverageInvariant, PTL

\* With every session logged in, every loaded channel has a session.
THEOREM CoverageHolds == CoverageSpec => []Covered
<1>1. IInv => Covered
  <2> SUFFICES ASSUME IInv, ~ resized, loggedIn = Sessions
               PROVE  Unattached(channels) = {}
    BY DEF Covered
  <2>1. Cardinality(Sessions \ loggedIn) = 0
    <3>1. Sessions \ loggedIn = {}
      OBVIOUS
    <3> QED
      BY <3>1, FS_EmptySet
  <2>2. TypeOK
    BY DEF IInv
  <2>3. Share(channels, SessionCount) * 0 = 0
    BY <2>2, ShareType
  <2>4. Cardinality(Unattached(channels)) <= 0
    BY <2>1, <2>3 DEF IInv, RoomForWaiting
  <2> QED
    BY <2>2, <2>4, FiniteParts, FS_EmptySet
<1> QED
  BY <1>1, CoverageInvariant, PTL

\* A channel changes hands only by being detached in between.
THEOREM CoverageNeverStolen == CoverageSpec => NeverStolen
<1> DEFINE Moves == \A c \in DOMAIN channels \cap DOMAIN channels' :
                       \/ channels'[c].session = channels[c].session
                       \/ ~ Attached(channels, c)
                       \/ channels'[c] = Detached
<1>1. TypeOK /\ [CoverageNext]_coverageVars => [Moves]_coverageVars
  <2> SUFFICES ASSUME TypeOK, CoverageNext,
                      NEW c \in DOMAIN channels \cap DOMAIN channels'
               PROVE  \/ channels'[c].session = channels[c].session
                      \/ ~ Attached(channels, c)
                      \/ channels'[c] = Detached
    OBVIOUS
  <2>1. ASSUME NEW s \in Sessions, LogIn(s)
        PROVE  channels'[c].session = channels[c].session \/ ~ Attached(channels, c)
    BY <2>1 DEF LogIn, Reservations, Attach, Unattached, TypeOK, Entry
  <2>2. ASSUME NEW s \in Sessions, Disconnect(s)
        PROVE  channels'[c] = channels[c] \/ channels'[c] = Detached
    BY <2>2 DEF Disconnect, DetachFrom
  <2>3. ASSUME NEW d \in Channels, ChannelJoined(d)
        PROVE  channels'[c].session = channels[c].session
    BY <2>3 DEF ChannelJoined, MarkJoined, TypeOK, Entry
  <2>4. ASSUME NEW d \in Channels, LeaveChannel(d)
        PROVE  channels'[c] = channels[c]
    BY <2>4 DEF LeaveChannel, ExtractChannel
  <2>5. ASSUME NEW d \in Channels, NEW s \in Sessions, JoinChannel(d, s)
        PROVE  channels'[c] = channels[c]
    BY <2>5 DEF JoinChannel, AddChannel
  <2> QED
    BY <2>1, <2>2, <2>3, <2>4, <2>5 DEF CoverageNext
<1> QED
  BY <1>1, CoverageTypes, PTL DEF CoverageSpec, NeverStolen
=============================================================================
