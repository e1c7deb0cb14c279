--------------------------- MODULE RoomPresenceProofs ---------------------------
(***************************************************************************)
(* RoomPresence for every set of browsers and every number of sockets, of  *)
(* shares and of choices of the stage: its types, what becomes of the      *)
(* sessions that the server opened in MediaMTX, and what the browsers come *)
(* to believe of each other and of the stage.                              *)
(***************************************************************************)
EXTENDS RoomPresence, FiniteSetTheorems, TLAPS

\* The steps at which the offer that a goroutine handles may be pending.
OfferSteps == {"close", "mute", "muted", "publish", "target", "unmute", "unmuted"}

\* The goroutines that are about to publish.
Owed == {k \in Sockets : offering[k] /\ step[k] \in {"close", "mute", "muted", "publish"}}

\* A socket that nobody opened is nobody's, and every session was asked for.
Counted ==
  /\ \A k \in Sockets : step[k] = "none" => owner[k] = NoOne
  /\ \A k \in Sockets : step[k] = "publish" => offering[k]
  /\ shares + Cardinality(Owed) <= asked

TypeInv == TypeOK /\ Counted

-----------------------------------------------------------------------------
(* Types.                                                                    *)

LEMMA OwedIsFinite == IsFiniteSet(Owed) /\ Cardinality(Owed) \in Nat
<1>1. IsFiniteSet(Sockets)
  BY FS_Interval, PresenceAssumption DEF PresenceAssumption, Sockets
<1>2. IsFiniteSet(Owed)
  BY <1>1, FS_Subset DEF Owed
<1> QED BY <1>2, FS_CardinalityType

LEMMA StatusIsTyped == ASSUME NEW b PROVE Status(b) \in Statuses
BY DEF Status, Statuses

LEMMA InitIsTyped == Init => TypeInv
<1> SUFFICES ASSUME Init PROVE TypeInv
  OBVIOUS
<1> USE PresenceAssumption DEF PresenceAssumption, Init
<1>1. SocketsOK
  BY DEF SocketsOK, Steps, Statuses
<1>2. RoomOK
  BY DEF RoomOK
<1>3. OutOK
  BY DEF OutOK
<1>4. BrowsersOK
  BY DEF BrowsersOK, Statuses
<1>5. Counted
  <2>1. Owed = {}
    BY DEF Owed
  <2> QED BY <2>1, FS_EmptySet DEF Counted
<1> QED BY <1>1, <1>2, <1>3, <1>4, <1>5 DEF TypeInv, TypeOK

\* A goroutine moves from one step to the next.
LEMMA SocketMoves ==
  ASSUME SocketsOK, NEW k \in Sockets, step[k] # "none", owner' = owner,
         NEW s \in Steps \ {"none"}, step' = [step EXCEPT ![k] = s],
         offering' \in [Sockets -> BOOLEAN], \A j \in Sockets \ {k} : offering'[j] = offering[j],
         offering'[k] => s \in OfferSteps,
         held' \in [Sockets -> 0..MaxAsks], pin' \in [Sockets -> Browsers \cup {NoOne}],
         existing' \in [Sockets -> [Browsers -> Statuses]]
  PROVE  SocketsOK'
BY DEF SocketsOK, OfferSteps

\* The messages of a room have their type, and no queue outgrows its buffer.
LEMMA QueuedIsTyped ==
  ASSUME OutOK, NEW k \in Sockets, NEW msg \in Events \cup Welcomes
  PROVE  Queued(k, msg) \in Seq(Events \cup Welcomes) /\ Len(Queued(k, msg)) <= SendBuffer
<1> DEFINE Msgs == Events \cup Welcomes
<1>1. out[k] \in Seq(Msgs) /\ Len(out[k]) <= SendBuffer /\ SendBuffer \in Nat
  BY PresenceAssumption DEF OutOK, PresenceAssumption
<1> HIDE DEF Msgs
<1>2. msg \in Msgs
  BY DEF Msgs
<1>3. Queued(k, msg) \in Seq(Msgs) /\ Len(Queued(k, msg)) <= SendBuffer
  BY <1>1, <1>2 DEF Queued
<1> QED BY <1>3 DEF Msgs

LEMMA BroadcastIsTyped ==
  ASSUME OutOK, NEW type \in {"join", "leave", "start", "stop", "stage"},
         NEW who \in Browsers \cup {NoOne}, NEW excluded, Broadcast(type, who, excluded)
  PROVE  OutOK'
<1>1. [type |-> type, who |-> who] \in Events \cup Welcomes
  BY DEF Events
<1>2. ASSUME NEW k \in Sockets
      PROVE  out'[k] \in Seq(Events \cup Welcomes) /\ Len(out'[k]) <= SendBuffer
  <2>1. out'[k] = out[k] \/ out'[k] = Queued(k, [type |-> type, who |-> who])
    BY DEF Broadcast
  <2> QED BY <1>1, <2>1, QueuedIsTyped DEF OutOK
<1>3. out' = [k \in Sockets |-> out'[k]]
  BY DEF Broadcast
<1>4. out' \in [Sockets -> Seq(Events \cup Welcomes)]
  BY <1>2, <1>3
<1> QED BY <1>2, <1>4 DEF OutOK

\* A session that is opened was asked for.
LEMMA PublishesWhatItOwes ==
  ASSUME TypeInv, NEW k \in Sockets, Publish(k)
  PROVE  shares + 1 \in 0..MaxAsks
<1>1. k \in Owed
  BY DEF Publish, Go, TypeInv, Counted, Owed
<1>2. Cardinality(Owed) > 0
  BY <1>1, OwedIsFinite, FS_EmptySet
<1> QED BY <1>2, OwedIsFinite, PresenceAssumption
        DEF TypeInv, TypeOK, Counted, RoomOK, PresenceAssumption

\* What the goroutine of socket k does leaves every browser alone and moves
\* that goroutine only.
LEMMA GoroutineMoves ==
  ASSUME TypeInv, NEW k \in Sockets, Handler(k) \/ Asked(k)
  PROVE  /\ step[k] # "none" /\ owner' = owner /\ UNCHANGED browserVars
         /\ SocketsOK'
<1> USE DEF TypeInv, TypeOK
<1>0. SocketsOK
  OBVIOUS
<1>1. ASSUME step[k] # "none", owner' = owner,
             NEW s \in Steps \ {"none"}, step' = [step EXCEPT ![k] = s],
             UNCHANGED <<offering, held, pin, existing>>, s \in OfferSteps \/ ~offering[k]
      PROVE  SocketsOK'
  BY <1>0, <1>1, SocketMoves DEF SocketsOK
<1>2. CASE TakeOver(k)
  BY <1>0, <1>1, <1>2 DEF TakeOver, Go, SocketsOK, Steps
<1>3. CASE Join(k)
  <2>1. existing' \in [Sockets -> [Browsers -> Statuses]]
    BY <1>0, <1>3, StatusIsTyped DEF Join, SocketsOK
  <2> QED BY <1>0, <1>3, <2>1, SocketMoves DEF Join, Go, SocketsOK, Steps, OfferSteps
<1>4. CASE AnnounceJoin(k)
  BY <1>0, <1>1, <1>4 DEF AnnounceJoin, Go, SocketsOK, Steps
<1>5. CASE Welcome(k)
  <2>1. existing' \in [Sockets -> [Browsers -> Statuses]]
    BY <1>0, <1>5 DEF Welcome, Welcoming, SocketsOK, Statuses
  <2> QED BY <1>0, <1>5, <2>1, SocketMoves DEF Welcome, Welcoming, Go, SocketsOK, Steps, OfferSteps
<1>6. CASE CloseShare(k)
  <2>1. PICK s \in {"mute", "leave"} :
          /\ step' = [step EXCEPT ![k] = s] /\ (s = "leave" => step[k] = "byeclose")
          /\ step[k] # "none" /\ held' = [held EXCEPT ![k] = 0]
          /\ UNCHANGED <<owner, offering, pin, existing, browserVars>>
    BY <1>6 DEF CloseShare, AfterClose
  <2> QED BY <1>0, <2>1, SocketMoves, PresenceAssumption DEF SocketsOK, Steps, OfferSteps, PresenceAssumption
<1>7. CASE CloseFails(k)
  <2>1. PICK s \in {"mute", "leave"} :
          /\ step' = [step EXCEPT ![k] = s] /\ (s = "leave" => step[k] = "byeclose")
          /\ step[k] # "none" /\ held' = [held EXCEPT ![k] = 0]
          /\ UNCHANGED <<owner, offering, pin, existing, browserVars>>
    BY <1>7 DEF CloseFails, AfterClose
  <2> QED BY <1>0, <2>1, SocketMoves, PresenceAssumption DEF SocketsOK, Steps, OfferSteps, PresenceAssumption
<1>8. CASE Mute(k)
  BY <1>0, <1>1, <1>8 DEF Mute, SetPublishing, Go, SocketsOK, Steps, OfferSteps
<1>9. CASE AnnounceStop(k)
  BY <1>0, <1>1, <1>9 DEF AnnounceStop, Go, SocketsOK, Steps, OfferSteps
<1>10. CASE Publish(k)
  <2>1. shares + 1 \in 0..MaxAsks
    BY <1>10, PublishesWhatItOwes
  <2> QED BY <1>0, <1>10, <2>1, SocketMoves DEF Publish, Go, SocketsOK, Steps, OfferSteps
<1>11. CASE PublishFails(k)
  BY <1>0, <1>11, SocketMoves DEF PublishFails, Go, SocketsOK, Steps, OfferSteps
<1>12. CASE SetPublishTarget(k)
  BY <1>0, <1>12, SocketMoves, PresenceAssumption
  DEF SetPublishTarget, Go, SocketsOK, Steps, OfferSteps, PresenceAssumption
<1>13. CASE Unmute(k)
  BY <1>0, <1>1, <1>13 DEF Unmute, SetPublishing, Go, SocketsOK, Steps, OfferSteps
<1>14. CASE AnnounceStart(k)
  BY <1>0, <1>14, SocketMoves DEF AnnounceStart, Go, SocketsOK, Steps, OfferSteps
<1>15. CASE AnnounceSpotlight(k)
  BY <1>0, <1>15, SocketMoves DEF AnnounceSpotlight, Go, SocketsOK, Steps, OfferSteps
<1>16. ASSUME NEW ifAny \in Steps \ {"none"}, NEW ifNone \in Steps \ {"none"},
              step[k] # "none", ClearTarget(k, ifAny, ifNone)
       PROVE  /\ held' \in [Sockets -> 0..MaxAsks]
              /\ \E s \in {ifAny, ifNone} : step' = [step EXCEPT ![k] = s]
  <2>1. PICK p \in 0..MaxSockets : p = peers[owner[k]]
    BY <1>0, <1>16 DEF SocketsOK, RoomOK
  <2>2. p # 0 => target[p] \in 0..MaxAsks
    BY <2>1, PresenceAssumption DEF RoomOK, Sockets, PresenceAssumption
  <2>3. (IF p = 0 THEN 0 ELSE target[p]) \in 0..MaxAsks
    BY <2>2, PresenceAssumption DEF PresenceAssumption
  <2> QED BY <1>0, <1>16, <2>1, <2>3 DEF ClearTarget, SocketsOK
<1>17. CASE ReadFails(k)
  <2>1. held' \in [Sockets -> 0..MaxAsks]
        /\ \E s \in {"byeclose", "leave"} : step' = [step EXCEPT ![k] = s]
    BY <1>16, <1>17 DEF ReadFails, Steps
  <2> QED BY <1>0, <1>17, <2>1, SocketMoves DEF ReadFails, SocketsOK, Steps, OfferSteps
<1>18. CASE Leave(k)
  BY <1>0, <1>1, <1>18 DEF Leave, Go, SocketsOK, Steps
<1>19. CASE AnnounceLeave(k)
  BY <1>0, <1>1, <1>19 DEF AnnounceLeave, Go, SocketsOK, Steps
<1>20. ASSUME NEW offer \in BOOLEAN, ReadShare(k, offer)
       PROVE  step[k] # "none" /\ owner' = owner /\ UNCHANGED browserVars /\ SocketsOK'
  <2>1. held' \in [Sockets -> 0..MaxAsks]
        /\ \E s \in {"close", "mute"} : step' = [step EXCEPT ![k] = s]
    BY <1>16, <1>20 DEF ReadShare, Reading, Steps
  <2> QED BY <1>0, <1>20, <2>1, SocketMoves DEF ReadShare, Reading, SocketsOK, Steps, OfferSteps
<1>21. ASSUME NEW who \in Browsers \cup {NoOne}, SetSpotlight(k, who)
       PROVE  step[k] # "none" /\ owner' = owner /\ UNCHANGED browserVars /\ SocketsOK'
  BY <1>0, <1>21, SocketMoves DEF SetSpotlight, Reading, SocketsOK, Steps, OfferSteps
<1>22. SocketsOK'
  BY <1>2, <1>3, <1>4, <1>5, <1>6, <1>7, <1>8, <1>9, <1>10, <1>11, <1>12, <1>13, <1>14, <1>15,
     <1>17, <1>18, <1>19, <1>20, <1>21 DEF Handler, Share, Asked
<1>23. CASE Asked(k)
  BY <1>20, <1>21, <1>23 DEF Asked
<1>24. CASE Handler(k)
  BY <1>22, <1>24
  DEF Handler, Share, TakeOver, Join, AnnounceJoin, Welcome, Welcoming, CloseShare, CloseFails,
      AfterClose, Mute, AnnounceStop, Publish, PublishFails, SetPublishTarget, Unmute, AnnounceStart,
      AnnounceSpotlight, ReadFails, Leave, AnnounceLeave, SetPublishing, Go
<1> QED BY <1>23, <1>24

LEMMA RoomStaysTyped ==
  ASSUME TypeInv, NEW k \in Sockets, Handler(k) \/ Asked(k)
  PROVE  RoomOK'
<1> USE DEF TypeInv, TypeOK
<1>0. RoomOK /\ owner' = owner /\ owner[k] \in Browsers /\ k \in 1..MaxSockets
      /\ MaxSockets \in Nat /\ MaxAsks \in Nat
  BY GoroutineMoves, PresenceAssumption DEF SocketsOK, PresenceAssumption, Sockets
<1>1. ASSUME UNCHANGED <<peers, publishing, target, spotlight, live, shares, asked, pins>> PROVE RoomOK'
  BY <1>0, <1>1 DEF RoomOK
<1>2. ASSUME NEW j \in {0, k}, peers' = [peers EXCEPT ![owner[k]] = j],
             UNCHANGED <<publishing, target, spotlight, live, shares, asked, pins>>
      PROVE  RoomOK'
  BY <1>0, <1>2 DEF RoomOK
<1>3. ASSUME publishing' \in [Sockets -> BOOLEAN], target' \in [Sockets -> 0..MaxAsks],
             spotlight' \in Browsers \cup {NoOne}, asked' \in 0..MaxAsks, pins' \in 0..MaxPins,
             UNCHANGED <<peers, live, shares>>
      PROVE  RoomOK'
  BY <1>0, <1>3 DEF RoomOK
<1>4. ASSUME live' \in [Browsers -> 0..MaxAsks], shares' \in 0..MaxAsks,
             UNCHANGED <<peers, publishing, target, spotlight, asked, pins>>
      PROVE  RoomOK'
  BY <1>0, <1>4 DEF RoomOK
<1>5. PICK p \in 0..MaxSockets : p = peers[owner[k]]
  BY <1>0 DEF RoomOK
<1>6. CASE TakeOver(k)
  BY <1>2, <1>6 DEF TakeOver, mediaVars, countVars
<1>7. CASE Join(k)
  BY <1>2, <1>7 DEF Join, mediaVars, countVars
<1>8. CASE Leave(k)
  BY <1>2, <1>8 DEF Leave, mediaVars, countVars
<1>9. CASE AnnounceJoin(k) \/ Welcome(k) \/ CloseFails(k) \/ AnnounceStop(k) \/ PublishFails(k)
           \/ AnnounceStart(k) \/ AnnounceSpotlight(k) \/ AnnounceLeave(k)
  BY <1>1, <1>9
  DEF AnnounceJoin, Welcome, Welcoming, CloseFails, AnnounceStop, PublishFails, AnnounceStart,
      AnnounceSpotlight, AnnounceLeave, roomVars, mediaVars, countVars
<1>10. CASE CloseShare(k)
  <2>1. live' \in [Browsers -> 0..MaxAsks]
    BY <1>0, <1>10 DEF CloseShare, RoomOK
  <2> QED BY <1>0, <1>4, <1>10, <2>1 DEF CloseShare, roomVars, countVars, RoomOK
<1>11. CASE Publish(k)
  <2>1. shares + 1 \in 0..MaxAsks
    BY <1>11, PublishesWhatItOwes
  <2>2. live' \in [Browsers -> 0..MaxAsks] /\ shares' \in 0..MaxAsks
    BY <1>0, <1>11, <2>1 DEF Publish, RoomOK
  <2> QED BY <1>0, <1>4, <1>11, <2>2 DEF Publish, roomVars, countVars, RoomOK
<1>12. CASE Mute(k) \/ Unmute(k)
  <2>1. publishing' \in [Sockets -> BOOLEAN]
    BY <1>0, <1>5, <1>12 DEF Mute, Unmute, SetPublishing, RoomOK, Sockets
  <2> QED BY <1>0, <1>3, <1>12, <2>1
          DEF Mute, Unmute, SetPublishing, mediaVars, countVars, RoomOK
<1>13. CASE SetPublishTarget(k)
  <2>1. held[k] \in 0..MaxAsks
    BY DEF SocketsOK
  <2>2. target' \in [Sockets -> 0..MaxAsks]
    BY <1>0, <1>5, <1>13, <2>1 DEF SetPublishTarget, RoomOK, Sockets
  <2> QED BY <1>0, <1>3, <1>13, <2>2 DEF SetPublishTarget, mediaVars, countVars, RoomOK
<1>14. ASSUME NEW ifAny, NEW ifNone, ClearTarget(k, ifAny, ifNone)
       PROVE  target' \in [Sockets -> 0..MaxAsks]
  BY <1>0, <1>5, <1>14 DEF ClearTarget, RoomOK, Sockets
<1>15. CASE ReadFails(k)
  <2>1. target' \in [Sockets -> 0..MaxAsks]
    BY <1>14, <1>15 DEF ReadFails
  <2> QED BY <1>0, <1>3, <1>15, <2>1 DEF ReadFails, mediaVars, countVars, RoomOK
<1>16. ASSUME NEW offer \in BOOLEAN, ReadShare(k, offer) PROVE RoomOK'
  <2>1. target' \in [Sockets -> 0..MaxAsks]
    BY <1>14, <1>16 DEF ReadShare
  <2>2. asked' \in 0..MaxAsks
    BY <1>0, <1>16 DEF ReadShare, RoomOK
  <2> QED BY <1>0, <1>3, <1>16, <2>1, <2>2 DEF ReadShare, mediaVars, RoomOK
<1>17. ASSUME NEW who \in Browsers \cup {NoOne}, SetSpotlight(k, who) PROVE RoomOK'
  <2>1. asked' \in 0..MaxAsks /\ pins' \in 0..MaxPins
    BY <1>0, <1>17, PresenceAssumption DEF SetSpotlight, RoomOK, PresenceAssumption
  <2> QED BY <1>0, <1>3, <1>17, <2>1 DEF SetSpotlight, mediaVars, RoomOK
<1> QED BY <1>6, <1>7, <1>8, <1>9, <1>10, <1>11, <1>12, <1>13, <1>15, <1>16, <1>17
        DEF Handler, Share, Asked

LEMMA OutStaysTyped ==
  ASSUME TypeInv, NEW k \in Sockets, Handler(k) \/ Asked(k)
  PROVE  OutOK'
<1> USE DEF TypeInv, TypeOK
<1>0. OutOK /\ owner[k] \in Browsers
  BY GoroutineMoves DEF SocketsOK
<1>1. CASE AnnounceJoin(k)
  BY <1>0, <1>1, BroadcastIsTyped DEF AnnounceJoin
<1>2. CASE AnnounceStop(k)
  BY <1>0, <1>2, BroadcastIsTyped DEF AnnounceStop
<1>3. CASE AnnounceStart(k)
  BY <1>0, <1>3, BroadcastIsTyped DEF AnnounceStart
<1>4. CASE AnnounceLeave(k)
  BY <1>0, <1>4, BroadcastIsTyped DEF AnnounceLeave
<1>5. CASE AnnounceSpotlight(k)
  <2>1. pin[k] \in Browsers \cup {NoOne}
    BY DEF SocketsOK
  <2> QED BY <1>0, <1>5, <2>1, BroadcastIsTyped DEF AnnounceSpotlight
<1>6. CASE Welcome(k)
  <2>1. PICK msg \in Welcomes : msg = [type |-> "welcome", peers |-> existing[k], stage |-> spotlight]
    BY DEF Welcomes, SocketsOK, RoomOK
  <2>2. out' = [out EXCEPT ![k] = Queued(k, msg)]
    BY <1>6, <2>1 DEF Welcome, Welcoming
  <2>3. Queued(k, msg) \in Seq(Events \cup Welcomes) /\ Len(Queued(k, msg)) <= SendBuffer
    BY <1>0, QueuedIsTyped
  <2> QED BY <1>0, <2>2, <2>3 DEF OutOK
<1>7. CASE UNCHANGED out
  BY <1>0, <1>7 DEF OutOK
<1> QED BY <1>1, <1>2, <1>3, <1>4, <1>5, <1>6, <1>7
        DEF Handler, Share, Asked, TakeOver, Join, CloseShare, CloseFails, Mute, Unmute, SetPublishing,
            Publish, PublishFails, SetPublishTarget, ReadFails, Leave, ReadShare, SetSpotlight

\* What a step of one goroutine has to respect for the sessions to stay counted.
LEMMA CountsStay ==
  ASSUME TypeInv, NEW k \in Sockets, owner' = owner,
         \A j \in Sockets \ {k} : step'[j] = step[j] /\ offering'[j] = offering[j],
         step'[k] # "none", step'[k] = "publish" => offering'[k],
         \/ shares' = shares /\ asked' = asked /\ (k \in Owed' => k \in Owed)
         \/ shares' = shares /\ asked' = asked + 1
         \/ shares' = shares + 1 /\ asked' = asked /\ k \in Owed /\ k \notin Owed'
  PROVE  Counted'
<1>1. asked \in Nat /\ shares \in Nat /\ shares + Cardinality(Owed) <= asked
  BY DEF TypeInv, TypeOK, RoomOK, Counted
<1>2. Owed' \subseteq Owed \cup {k}
  BY DEF Owed
<1>3. Cardinality(Owed \ {k}) = Cardinality(Owed) - (IF k \in Owed THEN 1 ELSE 0)
      /\ IsFiniteSet(Owed \ {k})
  BY OwedIsFinite, FS_RemoveElement
<1>4. Cardinality(Owed \cup {k}) = Cardinality(Owed) + (IF k \in Owed THEN 0 ELSE 1)
      /\ IsFiniteSet(Owed \cup {k})
  BY OwedIsFinite, FS_AddElement
<1>5. shares' + Cardinality(Owed') <= asked'
  <2>1. CASE shares' = shares /\ asked' = asked /\ (k \in Owed' => k \in Owed)
    <3>1. Owed' \subseteq Owed
      BY <1>2, <2>1
    <3>2. Cardinality(Owed') <= Cardinality(Owed) /\ Cardinality(Owed') \in Nat
      BY <3>1, OwedIsFinite, FS_Subset, FS_CardinalityType
    <3> QED BY <1>1, <2>1, <3>2, OwedIsFinite
  <2>2. CASE shares' = shares /\ asked' = asked + 1
    <3>1. Cardinality(Owed') <= Cardinality(Owed \cup {k}) /\ Cardinality(Owed') \in Nat
      BY <1>2, <1>4, FS_Subset, FS_CardinalityType
    <3> QED BY <1>1, <1>4, <2>2, <3>1, OwedIsFinite
  <2>3. CASE shares' = shares + 1 /\ asked' = asked /\ k \in Owed /\ k \notin Owed'
    <3>1. Owed' \subseteq Owed \ {k}
      BY <1>2, <2>3
    <3>2. Cardinality(Owed') <= Cardinality(Owed \ {k}) /\ Cardinality(Owed') \in Nat
      BY <1>3, <3>1, FS_Subset, FS_CardinalityType
    <3> QED BY <1>1, <1>3, <2>3, <3>2, OwedIsFinite
  <2> QED BY <2>1, <2>2, <2>3
<1> QED BY <1>5 DEF Counted, TypeInv

LEMMA GoroutineStaysCounted ==
  ASSUME TypeInv, NEW k \in Sockets, Handler(k) \/ Asked(k)
  PROVE  Counted'
<1>0. /\ step \in [Sockets -> Steps] /\ offering \in [Sockets -> BOOLEAN] /\ owner' = owner
      /\ offering[k] => step[k] \in OfferSteps
  BY GoroutineMoves DEF TypeInv, TypeOK, SocketsOK, OfferSteps
<1>1. ASSUME NEW s \in Steps \ {"none", "publish"}, step' = [step EXCEPT ![k] = s],
             UNCHANGED <<offering, shares, asked>>,
             offering[k] /\ s \in {"close", "mute", "muted"} => step[k] \in {"close", "mute", "muted"}
      PROVE  Counted'
  <2>1. k \in Owed' => k \in Owed
    BY <1>0, <1>1 DEF Owed
  <2> QED BY <1>0, <1>1, <2>1, CountsStay
<1>2. CASE TakeOver(k) \/ Join(k) \/ AnnounceJoin(k) \/ Welcome(k) \/ AnnounceSpotlight(k)
           \/ Leave(k) \/ AnnounceLeave(k)
  BY <1>1, <1>2
  DEF TakeOver, Join, AnnounceJoin, Welcome, Welcoming, AnnounceSpotlight, Leave, AnnounceLeave, Go,
      Steps, mediaVars, countVars
<1>3. CASE CloseShare(k) \/ CloseFails(k)
  BY <1>1, <1>3 DEF CloseShare, CloseFails, AfterClose, Steps, mediaVars, countVars
<1>4. CASE Mute(k) \/ Unmute(k) \/ SetPublishTarget(k)
  BY <1>1, <1>4 DEF Mute, Unmute, SetPublishTarget, SetPublishing, Go, Steps, mediaVars, countVars
<1>5. CASE AnnounceStop(k)
  <2>1. /\ step[k] = "muted" /\ step' = [step EXCEPT ![k] = IF offering[k] THEN "publish" ELSE "read"]
        /\ UNCHANGED <<offering, shares, asked>>
    BY <1>5 DEF AnnounceStop, Go, mediaVars, countVars
  <2>2. k \in Owed' => k \in Owed
    BY <1>0, <2>1 DEF Owed
  <2> QED BY <1>0, <2>1, <2>2, CountsStay
<1>6. CASE Publish(k)
  <2>1. /\ step[k] = "publish" /\ step' = [step EXCEPT ![k] = "target"]
        /\ offering' = offering /\ shares' = shares + 1 /\ asked' = asked
    BY <1>6 DEF Publish, Go, countVars
  <2>2. k \in Owed /\ k \notin Owed'
    BY <1>0, <2>1 DEF Owed, TypeInv, Counted
  <2> QED BY <1>0, <2>1, <2>2, CountsStay
<1>7. CASE PublishFails(k) \/ AnnounceStart(k)
  <2>1. /\ step' = [step EXCEPT ![k] = "read"] /\ offering' = [offering EXCEPT ![k] = FALSE]
        /\ UNCHANGED <<shares, asked>>
    BY <1>7 DEF PublishFails, AnnounceStart, Go, mediaVars, countVars
  <2>2. k \notin Owed'
    BY <1>0, <2>1 DEF Owed
  <2> QED BY <1>0, <2>1, <2>2, CountsStay
<1>8. CASE ReadFails(k)
  <2>1. /\ step[k] = "read" /\ \E s \in {"byeclose", "leave"} : step' = [step EXCEPT ![k] = s]
        /\ UNCHANGED <<offering, shares, asked>>
    BY <1>8 DEF ReadFails, ClearTarget, mediaVars, countVars
  <2> QED BY <1>1, <2>1 DEF Steps
<1>9. ASSUME NEW offer \in BOOLEAN, ReadShare(k, offer) PROVE Counted'
  <2>1. /\ \E s \in {"close", "mute"} : step' = [step EXCEPT ![k] = s]
        /\ offering' = [offering EXCEPT ![k] = offer] /\ shares' = shares /\ asked' = asked + 1
    BY <1>9 DEF ReadShare, ClearTarget, mediaVars
  <2> QED BY <1>0, <2>1, CountsStay
<1>10. ASSUME NEW who \in Browsers \cup {NoOne}, SetSpotlight(k, who) PROVE Counted'
  <2>1. /\ step[k] = "read" /\ step' = [step EXCEPT ![k] = "pinned"]
        /\ offering' = offering /\ shares' = shares /\ asked' = asked + 1
    BY <1>10 DEF SetSpotlight, Reading, mediaVars
  <2> QED BY <1>0, <2>1, CountsStay
<1> QED BY <1>2, <1>3, <1>4, <1>5, <1>6, <1>7, <1>8, <1>9, <1>10 DEF Handler, Share, Asked

LEMMA GoroutineIsTyped ==
  ASSUME TypeInv, NEW k \in Sockets, Handler(k) \/ Asked(k)
  PROVE  TypeInv'
<1>1. BrowsersOK'
  BY GoroutineMoves DEF TypeInv, TypeOK, BrowsersOK, browserVars
<1> QED BY <1>1, GoroutineMoves, RoomStaysTyped, OutStaysTyped, GoroutineStaysCounted
        DEF TypeInv, TypeOK

LEMMA BrowserIsTyped ==
  ASSUME TypeInv, NEW b \in Browsers, Browser(b)
  PROVE  TypeInv'
<1> USE DEF TypeInv, TypeOK
<1>1. CASE Drop(b)
  <2>1. SocketsOK' /\ RoomOK' /\ Counted'
    BY <1>1 DEF Drop, localVars, roomVars, mediaVars, countVars, SocketsOK, RoomOK, Counted, Owed
  <2>2. OutOK'
    <3>1. PICK k \in Sockets : k = current[b]
      BY <1>1, PresenceAssumption DEF Drop, BrowsersOK, PresenceAssumption, Sockets
    <3>2. out' = [out EXCEPT ![k] = <<>>]
      BY <1>1, <3>1 DEF Drop
    <3>3. <<>> \in Seq(Events \cup Welcomes) /\ Len(<<>>) <= SendBuffer
      BY PresenceAssumption DEF PresenceAssumption
    <3> QED BY <3>2, <3>3 DEF OutOK
  <2>3. BrowsersOK'
    BY <1>1, PresenceAssumption DEF Drop, BrowsersOK, PresenceAssumption, Statuses, localVars
  <2> QED BY <2>1, <2>2, <2>3
<1>2. CASE Receive(b)
  <2>1. SocketsOK' /\ RoomOK' /\ Counted'
    BY <1>2 DEF Receive, localVars, roomVars, mediaVars, countVars, SocketsOK, RoomOK, Counted, Owed
  <2>2. PICK k \in Sockets : k = current[b]
    BY <1>2, PresenceAssumption DEF Receive, BrowsersOK, PresenceAssumption, Sockets
  <2>3. PICK queue \in Seq(Events \cup Welcomes) : queue = out[k]
    BY DEF OutOK
  <2>4. queue # <<>> /\ out' = [out EXCEPT ![k] = Tail(queue)] /\ Len(queue) <= SendBuffer
    BY <1>2, <2>2, <2>3 DEF Receive, OutOK
  <2>5. Head(queue) \in Events \cup Welcomes /\ Tail(queue) \in Seq(Events \cup Welcomes)
        /\ Len(Tail(queue)) = Len(queue) - 1 /\ Len(queue) \in Nat
    <3> DEFINE Msgs == Events \cup Welcomes
    <3>1. queue \in Seq(Msgs)
      BY <2>3
    <3> HIDE DEF Msgs
    <3>2. Head(queue) \in Msgs /\ Tail(queue) \in Seq(Msgs)
          /\ Len(Tail(queue)) = Len(queue) - 1 /\ Len(queue) \in Nat
      BY <2>4, <3>1
    <3> QED BY <3>2 DEF Msgs
  <2>6. OutOK'
    BY <2>4, <2>5, PresenceAssumption DEF OutOK, PresenceAssumption
  <2>7. PICK msg \in Events \cup Welcomes : msg = Head(queue)
    BY <2>5
  <2>8. /\ roster' = [roster EXCEPT ![b] = IF msg.type = "welcome" THEN msg.peers ELSE Heard(@, msg)]
        /\ stage' = [stage EXCEPT ![b] = IF msg.type = "welcome" THEN msg.stage
                                         ELSE IF msg.type = "stage" THEN msg.who ELSE @]
        /\ UNCHANGED <<current, owner>>
    BY <1>2, <2>2, <2>3, <2>7 DEF Receive, localVars
  <2>9. roster' \in [Browsers -> [Browsers -> Statuses]] /\ stage' \in [Browsers -> Browsers \cup {NoOne}]
    <3>1. CASE msg \in Welcomes
      <4>1. /\ msg.type = "welcome" /\ msg.peers \in [Browsers -> Statuses]
            /\ msg.stage \in Browsers \cup {NoOne}
        BY <3>1 DEF Welcomes
      <4> QED BY <2>8, <4>1 DEF BrowsersOK
    <3>2. CASE msg \in Events
      <4>1. msg.type # "welcome" /\ msg.who \in Browsers \cup {NoOne}
        BY <3>2 DEF Events
      <4>2. Heard(roster[b], msg) \in [Browsers -> Statuses]
        BY <4>1 DEF Heard, BrowsersOK, Statuses
      <4> QED BY <2>8, <4>1, <4>2 DEF BrowsersOK
    <3> QED BY <3>1, <3>2
  <2>10. welcomed' \in [Browsers -> BOOLEAN] /\ spoiled' \in [Browsers -> BOOLEAN]
    BY <1>2, <2>2, <2>3 DEF Receive, BrowsersOK
  <2>11. BrowsersOK'
    BY <2>8, <2>9, <2>10 DEF BrowsersOK
  <2> QED BY <2>1, <2>6, <2>11
<1>3. ASSUME NEW k \in Sockets, Connect(b, k) PROVE TypeInv'
  <2>1. /\ step[k] = "none" /\ owner[k] = NoOne /\ NoOne \notin Browsers
        /\ owner' = [owner EXCEPT ![k] = b] /\ ~offering[k]
        /\ UNCHANGED <<offering, held, pin, existing, roomVars, out, mediaVars, countVars, spoiled,
                       roster, stage>>
    BY <1>3, PresenceAssumption DEF Connect, SocketsOK, Counted, PresenceAssumption
  <2>2. PICK s \in {"join", "resume"} : step' = [step EXCEPT ![k] = s]
    BY <1>3 DEF Connect
  <2>3. SocketsOK'
    BY <2>1, <2>2 DEF SocketsOK, Steps
  <2>4. RoomOK'
    <3>1. ASSUME NEW x \in Browsers, peers'[x] # 0 PROVE owner'[peers'[x]] = x
      BY <2>1, <3>1 DEF RoomOK, SocketsOK, roomVars
    <3> QED BY <2>1, <3>1 DEF RoomOK, roomVars, mediaVars, countVars
  <2>5. OutOK'
    BY <2>1 DEF OutOK
  <2>6. BrowsersOK'
    <3>1. current' = [current EXCEPT ![b] = k] /\ welcomed' = [welcomed EXCEPT ![b] = FALSE]
      BY <1>3 DEF Connect
    <3>2. current' \in [Browsers -> 0..MaxSockets] /\ welcomed' \in [Browsers -> BOOLEAN]
      BY <3>1, PresenceAssumption DEF BrowsersOK, Sockets, PresenceAssumption
    <3>3. ASSUME NEW x \in Browsers, current'[x] # 0 PROVE owner'[current'[x]] = x
      BY <2>1, <3>1, <3>3 DEF BrowsersOK, SocketsOK
    <3> QED BY <2>1, <3>2, <3>3 DEF BrowsersOK
  <2>7. Counted'
    <3>1. Owed' = Owed
      BY <2>1, <2>2 DEF Owed, SocketsOK
    <3> QED BY <2>1, <2>2, <3>1 DEF Counted, SocketsOK, mediaVars, countVars
  <2> QED BY <2>3, <2>4, <2>5, <2>6, <2>7
<1> QED BY <1>1, <1>2, <1>3 DEF Browser

LEMMA TypesHold == TypeInv /\ [Next]_vars => TypeInv'
<1>1. TypeInv /\ UNCHANGED vars => TypeInv'
  BY DEF TypeInv, TypeOK, SocketsOK, RoomOK, OutOK, BrowsersOK, Counted, Owed, vars, localVars,
         roomVars, mediaVars, countVars, browserVars
<1> QED BY <1>1, GoroutineIsTyped, BrowserIsTyped DEF Next

\* The room, its goroutines, the queues of messages and what the browsers
\* believe have their types: nobody is registered under an id that is not
\* theirs, and no queue outgrows its buffer.
THEOREM PresenceTypeCorrect == Spec => []TypeOK
<1>1. Spec => []TypeInv
  BY InitIsTyped, TypesHold, PTL DEF Spec
<1>2. TypeInv => TypeOK
  BY DEF TypeInv
<1> QED BY <1>1, <1>2, PTL

-----------------------------------------------------------------------------
(* The sessions in MediaMTX.                                                 *)

\* The goroutines that have joined the room and not left it.
Seated == {"announce", "welcome", "read", "close", "mute", "muted", "publish", "target", "unmute",
           "unmuted", "pinned", "byeclose", "leave"}

\* A browser is back only after its old goroutine ended, so at most one is
\* about any browser, and it is the one the room knows.
SeatInv ==
  /\ \A j, k \in Sockets :
       /\ step[j] \notin {"none", "gone"} /\ step[k] \notin {"none", "gone"}
       /\ owner[j] = owner[k]
       => j = k
  /\ \A k \in Sockets : step[k] \in Seated => peers[owner[k]] = k
  /\ \A b \in Browsers : peers[b] # 0 => step[peers[b]] \in Seated

\* Where the session on the path of k's browser is, at each step of k: in
\* MediaMTX (live), in hand (held) or announced as what to tear down (target);
\* and whether the room shows the browser as sharing.
ShareAt(k, session) ==
  /\ step[k] \in {"resume", "join", "announce", "welcome"} => ~publishing[k]
  /\ step[k] \in {"resume", "join", "announce", "welcome", "mute", "muted", "publish", "leave"} =>
       session = 0 /\ target[k] = 0 /\ held[k] = 0
  /\ step[k] \in {"close", "byeclose"} => session = held[k] /\ target[k] = 0
  /\ step[k] \in {"read", "pinned"} =>
       session = target[k] /\ held[k] = 0 /\ (publishing[k] <=> target[k] # 0)
  /\ step[k] \in {"muted", "publish", "target", "unmute"} => ~publishing[k]
  /\ step[k] = "target" => session = held[k] /\ session # 0 /\ target[k] = 0
  /\ step[k] \in {"unmute", "unmuted"} => session = target[k] /\ session # 0 /\ held[k] = 0
  /\ step[k] = "unmuted" => publishing[k]

ShareInv ==
  /\ \A k \in Sockets : step[k] # "none" => ShareAt(k, live[owner[k]])
  /\ \A k \in Sockets : step[k] = "none" => ~publishing[k] /\ target[k] = 0 /\ held[k] = 0
  /\ \A b \in Browsers : live[b] # 0 => peers[b] # 0

LEMMA InitIsSeated == Init => SeatInv /\ ShareInv
BY DEF Init, SeatInv, ShareInv, Seated

\* A goroutine takes a step: its browser is registered under it as long as it
\* is seated, and every other goroutine is another browser's.
LEMMA SeatMoves ==
  ASSUME TypeInv, SeatInv, NEW k \in Sockets, step[k] \notin {"none", "gone"}, owner' = owner,
         NEW s \in Steps \ {"none"}, step' = [step EXCEPT ![k] = s],
         \/ peers' = peers /\ (s \in Seated <=> step[k] \in Seated)
         \/ peers' = [peers EXCEPT ![owner[k]] = k] /\ s \in Seated
         \/ peers' = [peers EXCEPT ![owner[k]] = 0] /\ s \notin Seated
  PROVE  SeatInv'
<1>0. /\ step \in [Sockets -> Steps] /\ peers \in [Browsers -> 0..MaxSockets] /\ owner[k] \in Browsers
      /\ \A j \in Sockets : step[j] # "none" => owner[j] \in Browsers
      /\ \A b \in Browsers : peers[b] # 0 => owner[peers[b]] = b /\ peers[b] \in Sockets
      /\ k # 0 /\ Seated \cap {"none", "gone", "left", "join", "resume"} = {}
  BY PresenceAssumption DEF TypeInv, TypeOK, SocketsOK, RoomOK, Sockets, Seated, PresenceAssumption
<1>1. ASSUME NEW i \in Sockets, NEW j \in Sockets, step'[i] \notin {"none", "gone"},
             step'[j] \notin {"none", "gone"}, owner[i] = owner[j]
      PROVE  i = j
  BY <1>0, <1>1 DEF SeatInv
<1>2. ASSUME NEW j \in Sockets, step'[j] \in Seated PROVE peers'[owner[j]] = j
  <2>1. CASE j = k
    BY <1>0, <1>2, <2>1 DEF SeatInv
  <2>2. CASE j # k
    <3>1. step[j] \in Seated /\ peers[owner[j]] = j /\ owner[j] # owner[k]
      BY <1>0, <1>2, <2>2 DEF SeatInv
    <3> QED BY <1>0, <3>1
  <2> QED BY <2>1, <2>2
<1>3. ASSUME NEW b \in Browsers, peers'[b] # 0 PROVE step'[peers'[b]] \in Seated
  <2>1. CASE b = owner[k]
    <3>1. CASE peers' = peers
      <4>1. step[peers[b]] \in Seated /\ owner[peers[b]] = owner[k]
        BY <1>0, <1>3, <2>1, <3>1 DEF SeatInv
      <4>2. peers[b] = k
        BY <1>0, <1>3, <3>1, <4>1 DEF SeatInv
      <4> QED BY <1>0, <3>1, <4>1, <4>2
    <3> QED BY <1>0, <1>3, <2>1, <3>1
  <2>2. CASE b # owner[k]
    BY <1>0, <1>3, <2>2 DEF SeatInv
  <2> QED BY <2>1, <2>2
<1> QED BY <1>1, <1>2, <1>3 DEF SeatInv

LEMMA GoroutineStaysSeated ==
  ASSUME TypeInv, SeatInv, NEW k \in Sockets, Handler(k) \/ Asked(k)
  PROVE  SeatInv'
<1>0. owner' = owner
  BY GoroutineMoves
<1>1. ASSUME step[k] \in Seated, NEW s \in Seated, step' = [step EXCEPT ![k] = s], peers' = peers
      PROVE  SeatInv'
  BY <1>0, <1>1, SeatMoves DEF Seated, Steps
<1>2. CASE TakeOver(k)
  BY <1>0, <1>2, SeatMoves DEF TakeOver, Go, Seated, Steps
<1>3. CASE Join(k)
  BY <1>0, <1>3, SeatMoves DEF Join, Go, Seated, Steps
<1>4. CASE Leave(k)
  BY <1>0, <1>4, SeatMoves DEF Leave, Go, Seated, Steps
<1>5. CASE AnnounceLeave(k)
  BY <1>0, <1>5, SeatMoves DEF AnnounceLeave, Go, Seated, Steps, roomVars
<1>6. CASE AnnounceJoin(k) \/ Welcome(k) \/ AnnounceSpotlight(k)
  BY <1>1, <1>6 DEF AnnounceJoin, Welcome, Welcoming, AnnounceSpotlight, Go, Seated, roomVars
<1>7. CASE CloseShare(k) \/ CloseFails(k)
  BY <1>1, <1>7 DEF CloseShare, CloseFails, AfterClose, Seated, roomVars
<1>8. CASE Mute(k) \/ Unmute(k) \/ SetPublishTarget(k)
  BY <1>1, <1>8 DEF Mute, Unmute, SetPublishing, SetPublishTarget, Go, Seated
<1>9. CASE AnnounceStop(k) \/ Publish(k) \/ PublishFails(k) \/ AnnounceStart(k)
  BY <1>1, <1>9 DEF AnnounceStop, Publish, PublishFails, AnnounceStart, Go, Seated, roomVars
<1>10. CASE ReadFails(k)
  BY <1>1, <1>10 DEF ReadFails, ClearTarget, Seated
<1>11. ASSUME NEW offer \in BOOLEAN, ReadShare(k, offer) PROVE SeatInv'
  BY <1>1, <1>11 DEF ReadShare, Reading, ClearTarget, Seated
<1>12. ASSUME NEW who \in Browsers \cup {NoOne}, SetSpotlight(k, who) PROVE SeatInv'
  BY <1>1, <1>12 DEF SetSpotlight, Reading, Seated
<1> QED BY <1>2, <1>3, <1>4, <1>5, <1>6, <1>7, <1>8, <1>9, <1>10, <1>11, <1>12
        DEF Handler, Share, Asked

\* A browser is back only after its old goroutine ended.
LEMMA BrowsersStaySeated ==
  ASSUME ~StaleSockets, TypeInv, SeatInv, NEW b \in Browsers, Browser(b)
  PROVE  SeatInv'
<1>1. CASE Drop(b) \/ Receive(b)
  BY <1>1 DEF Drop, Receive, localVars, roomVars, SeatInv
<1>2. ASSUME NEW k \in Sockets, Connect(b, k) PROVE SeatInv'
  <2>1. /\ step[k] = "none" /\ owner' = [owner EXCEPT ![k] = b] /\ peers' = peers
        /\ \A j \in Sockets : owner[j] = b => step[j] = "gone"
    BY <1>2 DEF Connect, roomVars
  <2>2. PICK s \in {"join", "resume"} : step' = [step EXCEPT ![k] = s]
    BY <1>2 DEF Connect
  <2>3. /\ owner \in [Sockets -> Browsers \cup {NoOne}] /\ step \in [Sockets -> Steps]
        /\ \A x \in Browsers : peers[x] # 0 => peers[x] \in Sockets /\ owner[peers[x]] = x
    BY PresenceAssumption DEF TypeInv, TypeOK, SocketsOK, RoomOK, Sockets, PresenceAssumption
  <2>4. ASSUME NEW i \in Sockets, NEW j \in Sockets, step'[i] \notin {"none", "gone"},
               step'[j] \notin {"none", "gone"}, owner'[i] = owner'[j]
        PROVE  i = j
    BY <2>1, <2>2, <2>3, <2>4 DEF SeatInv
  <2>5. ASSUME NEW j \in Sockets, step'[j] \in Seated PROVE peers'[owner'[j]] = j
    BY <2>1, <2>2, <2>3, <2>5 DEF SeatInv, Seated
  <2>6. ASSUME NEW x \in Browsers, peers'[x] # 0 PROVE step'[peers'[x]] \in Seated
    BY <2>1, <2>2, <2>3, <2>6 DEF SeatInv, Seated
  <2> QED BY <2>4, <2>5, <2>6 DEF SeatInv
<1> QED BY <1>1, <1>2 DEF Browser

\* A goroutine's step leaves alone what the others have in MediaMTX.
LEMMA OthersKeepShares ==
  ASSUME TypeInv, SeatInv, ShareInv, NEW k \in Sockets, step[k] \notin {"none", "gone"},
         owner' = owner, step'[k] # "none",
         \A j \in Sockets \ {k} : /\ step'[j] = step[j] /\ held'[j] = held[j]
                                  /\ publishing'[j] = publishing[j] /\ target'[j] = target[j],
         \A b \in Browsers \ {owner[k]} : live'[b] = live[b] /\ peers'[b] = peers[b],
         ShareAt(k, live[owner[k]])', live'[owner[k]] # 0 => peers'[owner[k]] # 0
  PROVE  ShareInv'
<1>0. owner \in [Sockets -> Browsers \cup {NoOne}]
      /\ \A j \in Sockets : step[j] # "none" => owner[j] \in Browsers
  BY DEF TypeInv, TypeOK, SocketsOK
<1>1. ASSUME NEW j \in Sockets, j # k, step'[j] # "none" PROVE ShareAt(j, live[owner[j]])'
  <2>1. step[j] # "none" /\ ShareAt(j, live[owner[j]])
    BY <1>1 DEF ShareInv
  <2>2. CASE step[j] = "gone"
    BY <1>1, <2>1, <2>2 DEF ShareAt
  <2>3. CASE step[j] # "gone"
    <3>1. owner[j] # owner[k] /\ owner[j] \in Browsers
      BY <1>0, <1>1, <2>1, <2>3 DEF SeatInv
    <3>2. live'[owner[j]] = live[owner[j]]
      BY <3>1
    <3> QED BY <1>1, <2>1, <3>2 DEF ShareAt
  <2> QED BY <2>2, <2>3
<1>2. ASSUME NEW j \in Sockets, step'[j] = "none"
      PROVE  ~publishing'[j] /\ target'[j] = 0 /\ held'[j] = 0
  BY <1>2 DEF ShareInv
<1>3. ASSUME NEW b \in Browsers, live'[b] # 0 PROVE peers'[b] # 0
  BY <1>3 DEF ShareInv
<1> QED BY <1>1, <1>2, <1>3 DEF ShareInv

LEMMA GoroutineKeepsShares ==
  ASSUME ~CloseMayFail, TypeInv, SeatInv, ShareInv, NEW k \in Sockets, Handler(k) \/ Asked(k)
  PROVE  ShareInv'
<1>0. /\ owner' = owner /\ owner[k] \in Browsers /\ step[k] # "none"
      /\ step \in [Sockets -> Steps] /\ held \in [Sockets -> 0..MaxAsks]
      /\ publishing \in [Sockets -> BOOLEAN] /\ target \in [Sockets -> 0..MaxAsks]
      /\ peers \in [Browsers -> 0..MaxSockets] /\ live \in [Browsers -> 0..MaxAsks]
      /\ shares \in Nat /\ k # 0
  <2>1. owner' = owner /\ step[k] # "none"
    BY GoroutineMoves
  <2>2. SocketsOK /\ RoomOK
    BY DEF TypeInv, TypeOK
  <2>3. owner[k] \in Browsers /\ k # 0 /\ shares \in Nat
    BY <2>1, <2>2, PresenceAssumption DEF SocketsOK, RoomOK, Sockets, PresenceAssumption
  <2> QED BY <2>1, <2>2, <2>3 DEF SocketsOK, RoomOK
<1>1. ShareAt(k, live[owner[k]]) /\ (step[k] \in Seated => peers[owner[k]] = k)
  BY <1>0 DEF ShareInv, SeatInv
<1>2. ASSUME step[k] # "gone", NEW s \in Steps \ {"none"}, step' = [step EXCEPT ![k] = s],
             NEW h, held' = [held EXCEPT ![k] = h],
             NEW t, target' = [target EXCEPT ![k] = t],
             NEW u, publishing' = [publishing EXCEPT ![k] = u],
             NEW l, live' = [live EXCEPT ![owner[k]] = l],
             \A b \in Browsers \ {owner[k]} : peers'[b] = peers[b],
             l # 0 => peers'[owner[k]] # 0,
             ShareAt(k, live[owner[k]])'
      PROVE  ShareInv'
  BY <1>0, <1>2, OthersKeepShares
<1>3. CASE TakeOver(k)
  <2>1. /\ step[k] = "resume" /\ step' = [step EXCEPT ![k] = "join"]
        /\ peers' = [peers EXCEPT ![owner[k]] = 0]
        /\ UNCHANGED <<held, target, publishing, live>>
    BY <1>3 DEF TakeOver, Go, mediaVars
  <2>2. ShareAt(k, live[owner[k]])' /\ live[owner[k]] = 0
    BY <1>0, <1>1, <2>1 DEF ShareAt
  <2> QED BY <1>0, <2>1, <2>2, OthersKeepShares
<1>4. CASE Join(k)
  <2>1. /\ step[k] = "join" /\ step' = [step EXCEPT ![k] = "announce"]
        /\ peers' = [peers EXCEPT ![owner[k]] = k]
        /\ UNCHANGED <<held, target, publishing, live>>
    BY <1>4 DEF Join, Go, mediaVars
  <2>2. ShareAt(k, live[owner[k]])' /\ live[owner[k]] = 0
    BY <1>0, <1>1, <2>1 DEF ShareAt
  <2> QED BY <1>0, <2>1, <2>2, OthersKeepShares
<1>5. CASE Leave(k)
  <2>1. /\ step[k] = "leave" /\ step' = [step EXCEPT ![k] = "left"]
        /\ peers' = [peers EXCEPT ![owner[k]] = 0]
        /\ UNCHANGED <<held, target, publishing, live>>
    BY <1>5 DEF Leave, Go, mediaVars
  <2>2. ShareAt(k, live[owner[k]])' /\ live[owner[k]] = 0
    BY <1>0, <1>1, <2>1 DEF ShareAt
  <2> QED BY <1>0, <2>1, <2>2, OthersKeepShares
<1>6. ASSUME step[k] # "gone", NEW s \in Steps \ {"none"}, step' = [step EXCEPT ![k] = s],
             UNCHANGED <<peers, held, target, publishing, live>>, ShareAt(k, live[owner[k]])'
      PROVE  ShareInv'
  BY <1>0, <1>6, OthersKeepShares DEF ShareInv
<1>7. CASE AnnounceLeave(k)
  <2>1. /\ step[k] = "left" /\ step' = [step EXCEPT ![k] = "gone"]
        /\ UNCHANGED <<peers, held, target, publishing, live>>
    BY <1>7 DEF AnnounceLeave, Go, mediaVars, roomVars
  <2>2. ShareAt(k, live[owner[k]])'
    BY <1>0, <2>1 DEF ShareAt
  <2> QED BY <1>6, <2>1, <2>2 DEF Steps
<1>8. CASE AnnounceJoin(k)
  <2>1. /\ step[k] = "announce" /\ step' = [step EXCEPT ![k] = "welcome"]
        /\ UNCHANGED <<peers, held, target, publishing, live>>
    BY <1>8 DEF AnnounceJoin, Go, mediaVars, roomVars
  <2>2. ShareAt(k, live[owner[k]])'
    BY <1>0, <1>1, <2>1 DEF ShareAt
  <2> QED BY <1>6, <2>1, <2>2 DEF Steps
<1>9. CASE Welcome(k)
  <2>1. /\ step[k] = "welcome" /\ step' = [step EXCEPT ![k] = "read"]
        /\ UNCHANGED <<peers, held, target, publishing, live>>
    BY <1>9 DEF Welcome, Welcoming, Go, mediaVars, roomVars
  <2>2. ShareAt(k, live[owner[k]])'
    BY <1>0, <1>1, <2>1 DEF ShareAt
  <2> QED BY <1>6, <2>1, <2>2 DEF Steps
<1>10. CASE AnnounceSpotlight(k)
  <2>1. /\ step[k] = "pinned" /\ step' = [step EXCEPT ![k] = "read"]
        /\ UNCHANGED <<peers, held, target, publishing, live>>
    BY <1>10 DEF AnnounceSpotlight, Go, mediaVars, roomVars
  <2>2. ShareAt(k, live[owner[k]])'
    BY <1>0, <1>1, <2>1 DEF ShareAt
  <2> QED BY <1>6, <2>1, <2>2 DEF Steps
<1>11. ASSUME NEW who \in Browsers \cup {NoOne}, SetSpotlight(k, who) PROVE ShareInv'
  <2>1. /\ step[k] = "read" /\ step' = [step EXCEPT ![k] = "pinned"]
        /\ UNCHANGED <<peers, held, target, publishing, live>>
    BY <1>11 DEF SetSpotlight, Reading, mediaVars
  <2>2. ShareAt(k, live[owner[k]])'
    BY <1>0, <1>1, <2>1 DEF ShareAt
  <2> QED BY <1>6, <2>1, <2>2 DEF Steps
<1>12. CASE AnnounceStop(k)
  <2>1. PICK s \in {"publish", "read"} :
          step[k] = "muted" /\ step' = [step EXCEPT ![k] = s]
          /\ UNCHANGED <<peers, held, target, publishing, live>>
    BY <1>12 DEF AnnounceStop, Go, mediaVars, roomVars
  <2>2. ShareAt(k, live[owner[k]])'
    BY <1>0, <1>1, <2>1 DEF ShareAt
  <2> QED BY <1>6, <2>1, <2>2 DEF Steps
<1>13. CASE PublishFails(k)
  <2>1. /\ step[k] = "publish" /\ step' = [step EXCEPT ![k] = "read"]
        /\ UNCHANGED <<peers, held, target, publishing, live>>
    BY <1>13 DEF PublishFails, Go, mediaVars, roomVars
  <2>2. ShareAt(k, live[owner[k]])'
    BY <1>0, <1>1, <2>1 DEF ShareAt
  <2> QED BY <1>6, <2>1, <2>2 DEF Steps
<1>14. CASE AnnounceStart(k)
  <2>1. /\ step[k] = "unmuted" /\ step' = [step EXCEPT ![k] = "read"]
        /\ UNCHANGED <<peers, held, target, publishing, live>>
    BY <1>14 DEF AnnounceStart, Go, mediaVars, roomVars
  <2>2. ShareAt(k, live[owner[k]])'
    BY <1>0, <1>1, <2>1 DEF ShareAt
  <2> QED BY <1>6, <2>1, <2>2 DEF Steps
<1>15. CASE CloseShare(k) \/ CloseFails(k)
  <2>1. PICK s \in {"mute", "leave"} :
          /\ step[k] \in {"close", "byeclose"} /\ step' = [step EXCEPT ![k] = s]
          /\ live' = [live EXCEPT ![owner[k]] = IF @ = held[k] THEN 0 ELSE @]
          /\ held' = [held EXCEPT ![k] = 0]
          /\ UNCHANGED <<peers, target, publishing>>
    BY <1>15 DEF CloseShare, CloseFails, AfterClose, roomVars
  <2>2. live[owner[k]] = held[k] /\ target[k] = 0
    BY <1>1, <2>1 DEF ShareAt
  <2>3. live'[owner[k]] = 0 /\ ShareAt(k, live[owner[k]])'
    BY <1>0, <2>1, <2>2 DEF ShareAt
  <2> QED BY <1>0, <2>1, <2>3, OthersKeepShares DEF Steps
<1>16. ASSUME NEW value \in BOOLEAN, NEW from \in Seated, NEW to \in Seated,
              SetPublishing(k, from, to, value)
       PROVE  /\ step[k] = from /\ step' = [step EXCEPT ![k] = to]
              /\ publishing' = [publishing EXCEPT ![k] = value]
              /\ UNCHANGED <<peers, held, target, live>>
  BY <1>0, <1>1, <1>16 DEF SetPublishing, Go, mediaVars
<1>17. CASE Mute(k)
  <2>1. /\ step[k] = "mute" /\ step' = [step EXCEPT ![k] = "muted"]
        /\ publishing' = [publishing EXCEPT ![k] = FALSE]
        /\ UNCHANGED <<peers, held, target, live>>
    BY <1>16, <1>17 DEF Mute, Seated
  <2>2. ShareAt(k, live[owner[k]])'
    BY <1>0, <1>1, <2>1 DEF ShareAt
  <2> QED BY <1>0, <2>1, <2>2, OthersKeepShares DEF ShareInv
<1>18. CASE Unmute(k)
  <2>1. /\ step[k] = "unmute" /\ step' = [step EXCEPT ![k] = "unmuted"]
        /\ publishing' = [publishing EXCEPT ![k] = TRUE]
        /\ UNCHANGED <<peers, held, target, live>>
    BY <1>16, <1>18 DEF Unmute, Seated
  <2>2. ShareAt(k, live[owner[k]])'
    BY <1>0, <1>1, <2>1 DEF ShareAt
  <2> QED BY <1>0, <2>1, <2>2, OthersKeepShares DEF ShareInv
<1>19. CASE Publish(k)
  <2>1. /\ step[k] = "publish" /\ step' = [step EXCEPT ![k] = "target"]
        /\ live' = [live EXCEPT ![owner[k]] = shares + 1] /\ held' = [held EXCEPT ![k] = shares + 1]
        /\ UNCHANGED <<peers, target, publishing>>
    BY <1>19 DEF Publish, Go, roomVars
  <2>2. ShareAt(k, live[owner[k]])' /\ peers'[owner[k]] # 0
    BY <1>0, <1>1, <2>1 DEF ShareAt, Seated
  <2> QED BY <1>0, <2>1, <2>2, OthersKeepShares
<1>20. CASE SetPublishTarget(k)
  <2>1. /\ step[k] = "target" /\ step' = [step EXCEPT ![k] = "unmute"]
        /\ target' = [target EXCEPT ![k] = held[k]] /\ held' = [held EXCEPT ![k] = 0]
        /\ UNCHANGED <<peers, publishing, live>>
    BY <1>0, <1>1, <1>20 DEF SetPublishTarget, Go, mediaVars, Seated
  <2>2. ShareAt(k, live[owner[k]])'
    BY <1>0, <1>1, <2>1 DEF ShareAt
  <2> QED BY <1>0, <2>1, <2>2, OthersKeepShares DEF ShareInv
<1>21. ASSUME step[k] = "read", NEW ifAny \in {"close", "byeclose"}, NEW ifNone \in {"mute", "leave"},
              ClearTarget(k, ifAny, ifNone), UNCHANGED <<peers, publishing, live>>
       PROVE  ShareInv'
  <2>1. /\ held' = [held EXCEPT ![k] = target[k]] /\ target' = [target EXCEPT ![k] = 0]
        /\ step' = [step EXCEPT ![k] = IF target[k] = 0 THEN ifNone ELSE ifAny]
    BY <1>0, <1>1, <1>21 DEF ClearTarget, Seated
  <2>2. live[owner[k]] = target[k]
    BY <1>1, <1>21 DEF ShareAt
  <2>3. ShareAt(k, live[owner[k]])'
    BY <1>0, <1>21, <2>1, <2>2 DEF ShareAt
  <2> QED BY <1>0, <1>21, <2>1, <2>3, OthersKeepShares DEF ShareInv
<1>22. CASE ReadFails(k)
  BY <1>21, <1>22 DEF ReadFails, mediaVars
<1>23. ASSUME NEW offer \in BOOLEAN, ReadShare(k, offer) PROVE ShareInv'
  BY <1>21, <1>23 DEF ReadShare, Reading, mediaVars
<1> QED BY <1>3, <1>4, <1>5, <1>7, <1>8, <1>9, <1>10, <1>11, <1>12, <1>13, <1>14, <1>15, <1>17,
           <1>18, <1>19, <1>20, <1>22, <1>23 DEF Handler, Share, Asked

LEMMA BrowsersKeepShares ==
  ASSUME ~StaleSockets, TypeInv, SeatInv, ShareInv, NEW b \in Browsers, Browser(b)
  PROVE  SeatInv' /\ ShareInv'
<1>1. CASE UNCHANGED <<step, owner, peers, publishing, target, held, live>>
  BY <1>1 DEF SeatInv, ShareInv, ShareAt
<1>2. CASE Drop(b) \/ Receive(b)
  BY <1>1, <1>2 DEF Drop, Receive, localVars, roomVars, mediaVars
<1>3. ASSUME NEW k \in Sockets, Connect(b, k) PROVE SeatInv' /\ ShareInv'
  <2>1. /\ step[k] = "none" /\ owner' = [owner EXCEPT ![k] = b]
        /\ \A j \in Sockets : owner[j] = b => step[j] = "gone"
        /\ UNCHANGED <<held, peers, publishing, target, live>>
    BY <1>3 DEF Connect, roomVars, mediaVars
  <2>2. PICK s \in {"join", "resume"} : step' = [step EXCEPT ![k] = s]
    BY <1>3 DEF Connect
  <2>3. /\ owner \in [Sockets -> Browsers \cup {NoOne}] /\ step \in [Sockets -> Steps]
        /\ \A x \in Browsers : peers[x] # 0 => peers[x] \in Sockets /\ owner[peers[x]] = x
    BY PresenceAssumption DEF TypeInv, TypeOK, SocketsOK, RoomOK, Sockets, PresenceAssumption
  <2>4. peers[b] = 0
    BY <2>1, <2>3 DEF SeatInv, Seated
  <2>5. live[b] = 0
    BY <2>4 DEF ShareInv
  <2>6. SeatInv'
    BY BrowsersStaySeated
  <2>7. ShareInv'
    <3>1. ASSUME NEW j \in Sockets, step'[j] # "none" PROVE ShareAt(j, live[owner[j]])'
      <4>1. CASE j = k
        BY <2>1, <2>2, <2>3, <2>5, <4>1 DEF ShareInv, ShareAt
      <4>2. CASE j # k
        BY <2>1, <2>2, <2>3, <3>1, <4>2 DEF ShareInv, ShareAt
      <4> QED BY <4>1, <4>2
    <3>2. ASSUME NEW j \in Sockets, step'[j] = "none"
          PROVE  ~publishing'[j] /\ target'[j] = 0 /\ held'[j] = 0
      BY <2>1, <2>2, <2>3, <3>2 DEF ShareInv
    <3>3. ASSUME NEW x \in Browsers, live'[x] # 0 PROVE peers'[x] # 0
      BY <2>1, <3>3 DEF ShareInv
    <3> QED BY <3>1, <3>2, <3>3 DEF ShareInv
  <2> QED BY <2>6, <2>7
<1> QED BY <1>2, <1>3 DEF Browser

LEMMA SharesHold ==
  ASSUME ~StaleSockets, ~CloseMayFail
  PROVE  TypeInv /\ SeatInv /\ ShareInv /\ [Next]_vars => SeatInv' /\ ShareInv'
<1>1. SeatInv /\ ShareInv /\ UNCHANGED vars => SeatInv' /\ ShareInv'
  BY DEF SeatInv, ShareInv, ShareAt, vars, localVars, roomVars, mediaVars
<1> QED BY <1>1, GoroutineStaysSeated, GoroutineKeepsShares, BrowsersKeepShares DEF Next

LEMMA SharesAlwaysHold ==
  ASSUME ~StaleSockets, ~CloseMayFail
  PROVE  Spec => [](TypeInv /\ SeatInv /\ ShareInv)
BY InitIsTyped, InitIsSeated, TypesHold, SharesHold, PTL DEF Spec

\* When browsers are back only after their old goroutines ended, and teardowns
\* reach MediaMTX, every session that the server opened is the target of someone
\* in the room or in the hand of the goroutine that will close it: publish, its
\* replacement, publish:stop and the end of the socket never lose one.
THEOREM NoShareIsOrphaned ==
  ASSUME ~StaleSockets, ~CloseMayFail
  PROVE  Spec => []NoOrphanShare
<1>1. ASSUME TypeInv, SeatInv, ShareInv PROVE NoOrphanShare
  <2> SUFFICES ASSUME NEW b \in Browsers, live[b] # 0
               PROVE  \/ peers[b] # 0 /\ target[peers[b]] = live[b]
                      \/ \E k \in Sockets : owner[k] = b /\ held[k] = live[b]
    BY DEF NoOrphanShare
  <2>1. PICK k \in Sockets : k = peers[b] /\ owner[k] = b /\ k # 0
    BY <1>1, PresenceAssumption DEF TypeInv, TypeOK, RoomOK, ShareInv, Sockets, PresenceAssumption
  <2>2. step[k] \in Seated
    BY <1>1, <2>1 DEF SeatInv
  <2>3. ShareAt(k, live[b])
    BY <1>1, <2>1, <2>2 DEF ShareInv, Seated
  <2>4. target[k] = live[b] \/ held[k] = live[b]
    BY <2>2, <2>3 DEF ShareAt, Seated
  <2> QED BY <2>1, <2>4
<1> QED BY <1>1, SharesAlwaysHold, PTL

\* Under the same conditions, once things have come to rest, exactly those who
\* are shown as sharing have a session in MediaMTX, and it is the one that the
\* room will tear down.
THEOREM SharingMeansMedia ==
  ASSUME ~StaleSockets, ~CloseMayFail
  PROVE  Spec => []SharingHasMedia
<1>1. ASSUME TypeInv, SeatInv, ShareInv PROVE SharingHasMedia
  <2> SUFFICES ASSUME AtRest, NEW b \in Browsers
               PROVE  IF Status(b) = "sharing" THEN live[b] # 0 /\ target[peers[b]] = live[b]
                                               ELSE live[b] = 0
    BY DEF SharingHasMedia
  <2>1. CASE peers[b] = 0
    BY <1>1, <2>1 DEF Status, ShareInv
  <2>2. CASE peers[b] # 0
    <3>1. PICK k \in Sockets : k = peers[b] /\ owner[k] = b /\ k # 0
      BY <1>1, <2>2, PresenceAssumption
      DEF TypeInv, TypeOK, RoomOK, Sockets, PresenceAssumption
    <3>2. step[k] = "read"
      BY <1>1, <3>1 DEF SeatInv, Seated, AtRest
    <3>3. live[b] = target[k] /\ (publishing[k] <=> target[k] # 0)
      BY <1>1, <3>1, <3>2 DEF ShareInv, ShareAt
    <3> QED BY <3>1, <3>3 DEF Status
  <2> QED BY <2>1, <2>2
<1> QED BY <1>1, SharesAlwaysHold, PTL

-----------------------------------------------------------------------------
(* What a browser will believe once it has read its queue.                   *)

\* change[m][v] is what reading message m makes of belief v.  Reading queue in
\* order leads from belief old to belief new.
Leads(queue, change, old, new) ==
  \E belief : /\ belief[0] = old /\ belief[Len(queue)] = new
              /\ \A i \in 1..Len(queue) : belief[i] = change[queue[i]][belief[i - 1]]

\* With nothing to read, what is believed stays.
LEMMA EmptyLeads ==
  ASSUME NEW change, NEW old, NEW new
  PROVE  Leads(<<>>, change, old, new) <=> old = new
<1>1. ASSUME old = new PROVE Leads(<<>>, change, old, new)
  <2> DEFINE belief == [i \in {0} |-> old]
  <2>1. belief[0] = old /\ belief[Len(<<>>)] = new /\ 1..Len(<<>>) = {}
    BY <1>1
  <2> QED BY <2>1 DEF Leads
<1>2. ASSUME Leads(<<>>, change, old, new) PROVE old = new
  BY <1>2 DEF Leads
<1> QED BY <1>1, <1>2

\* One more message at the end.
LEMMA AppendLeads ==
  ASSUME NEW Msg, NEW queue \in Seq(Msg), NEW msg \in Msg, NEW change, NEW old, NEW mid,
         Leads(queue, change, old, mid)
  PROVE  Leads(Append(queue, msg), change, old, change[msg][mid])
<1>1. PICK belief : /\ belief[0] = old /\ belief[Len(queue)] = mid
                    /\ \A i \in 1..Len(queue) : belief[i] = change[queue[i]][belief[i - 1]]
  BY DEF Leads
<1> DEFINE longer == Append(queue, msg)
           more == [i \in 0..Len(queue) + 1 |-> IF i <= Len(queue) THEN belief[i] ELSE change[msg][mid]]
<1>2. /\ Len(queue) \in Nat /\ Len(longer) = Len(queue) + 1
      /\ \A i \in 1..Len(queue) : longer[i] = queue[i]
      /\ longer[Len(queue) + 1] = msg
  OBVIOUS
<1>3. more[0] = old /\ more[Len(longer)] = change[msg][mid]
  BY <1>1, <1>2
<1>4. ASSUME NEW i \in 1..Len(longer) PROVE more[i] = change[longer[i]][more[i - 1]]
  <2>1. i \in Nat /\ i - 1 \in 0..Len(queue)
    BY <1>2
  <2>2. CASE i <= Len(queue)
    BY <1>1, <1>2, <2>1, <2>2
  <2>3. CASE i = Len(queue) + 1
    BY <1>1, <1>2, <2>1, <2>3
  <2> QED BY <1>2, <2>1, <2>2, <2>3
<1> HIDE DEF longer, more
<1>5. Leads(longer, change, old, change[msg][mid])
  BY <1>3, <1>4 DEF Leads
<1> QED BY <1>5 DEF longer

\* The first message is read.
LEMMA TailLeads ==
  ASSUME NEW Msg, NEW queue \in Seq(Msg), queue # <<>>, NEW change, NEW old, NEW new,
         Leads(queue, change, old, new)
  PROVE  Leads(Tail(queue), change, change[Head(queue)][old], new)
<1>1. PICK belief : /\ belief[0] = old /\ belief[Len(queue)] = new
                    /\ \A i \in 1..Len(queue) : belief[i] = change[queue[i]][belief[i - 1]]
  BY DEF Leads
<1> DEFINE rest == Tail(queue)
           less == [i \in 0..Len(queue) - 1 |-> belief[i + 1]]
<1>2. /\ Len(queue) \in Nat \ {0} /\ Len(rest) = Len(queue) - 1 /\ Head(queue) = queue[1]
      /\ \A i \in 1..Len(rest) : rest[i] = queue[i + 1]
  OBVIOUS
<1>3. less[0] = change[Head(queue)][old] /\ less[Len(rest)] = new
  <2>1. less[0] = belief[1] /\ less[Len(rest)] = belief[Len(queue)]
    BY <1>2
  <2>2. belief[1] = change[queue[1]][belief[0]]
    BY <1>1, <1>2
  <2> QED BY <1>1, <1>2, <2>1, <2>2
<1>4. ASSUME NEW i \in 1..Len(rest) PROVE less[i] = change[rest[i]][less[i - 1]]
  <2>1. /\ i + 1 \in 1..Len(queue) /\ less[i] = belief[i + 1] /\ less[i - 1] = belief[i]
        /\ rest[i] = queue[i + 1] /\ (i + 1) - 1 = i
    BY <1>2
  <2> QED BY <1>1, <2>1
<1> HIDE DEF rest, less
<1>5. Leads(rest, change, change[Head(queue)][old], new)
  BY <1>3, <1>4 DEF Leads
<1> QED BY <1>5 DEF rest

-----------------------------------------------------------------------------
(* Who hears what.                                                           *)

\* A goroutine that has not sent its welcome, and one that is on its way out.
Unwelcomed == {"resume", "join", "announce", "welcome"}
Departed == {"byeclose", "leave", "left", "gone"}

Messages == Events \cup Welcomes
Stages == Browsers \cup {NoOne}

\* No buffer is full, so Send drops nothing.
Roomy == \A k \in Sockets : Len(out[k]) < SendBuffer

\* A socket that nobody listens to has nothing on its way, the one that a browser
\* listens to is being served, and a browser that waits for its welcome can only
\* hear events before it.
InTouch ==
  /\ \A k \in Sockets : ~Listening(k) => out[k] = <<>>
  /\ \A b \in Browsers : current[b] # 0 => step[current[b]] \notin Departed \cup {"none"}
  /\ \A k \in Sockets : Listening(k) /\ step[k] \in Unwelcomed =>
       ~welcomed[owner[k]] /\ \A i \in 1..Len(out[k]) : out[k][i].type # "welcome"

\* A goroutine shows its browser as sharing between Unmute and Mute only.
ShowInv ==
  \A k \in Sockets :
    /\ step[k] \in {"none", "resume", "join", "announce", "welcome", "muted", "publish", "target",
                    "unmute"} => ~publishing[k]
    /\ step[k] = "unmuted" => publishing[k]

\* Believing v of x is right but for what x's goroutine is about to announce.
Agrees(x, v) ==
  \/ v = Status(x)
  \/ \E j \in Sockets : /\ owner[j] = x
                        /\ \/ step[j] \in {"announce", "left"}
                           \/ step[j] \in {"muted", "unmuted"} /\ v # "absent"

\* What a message makes of a belief about x.
RosterChange(x) ==
  [msg \in Messages |-> [v \in Statuses |->
     CASE msg.type = "welcome" -> msg.peers[x]
       [] msg.type = "join" /\ msg.who = x -> "watching"
       [] msg.type = "leave" /\ msg.who = x -> "absent"
       [] msg.type = "start" /\ msg.who = x /\ v # "absent" -> "sharing"
       [] msg.type = "stop" /\ msg.who = x /\ v # "absent" -> "watching"
       [] OTHER -> v]]

\* b heard something before its welcome, or will.
Spoils(b) ==
  \/ spoiled[b]
  \/ ~welcomed[b] /\ out[current[b]] # <<>> /\ Head(out[current[b]]).type # "welcome"

\* What b was told of x when it joined, or what it will believe of x when it has
\* read the queue of its socket k.
RosterAt(b, k, x) ==
  /\ step[k] \in {"announce", "welcome"} => Agrees(x, existing[k][x])
  /\ step[k] \notin Unwelcomed =>
       \E v \in Statuses : Agrees(x, v) /\ Leads(out[k], RosterChange(x), roster[b][x], v)

\* Whoever hears its welcome first is told what is right of everyone else.
RosterInv ==
  \A b \in Browsers : current[b] # 0 /\ ~Spoils(b) =>
    \A x \in Browsers \ {b} : RosterAt(b, current[b], x)

\* Reading a message makes a belief of a belief.
LEMMA ChangeIsTyped ==
  ASSUME NEW x \in Browsers
  PROVE  RosterChange(x) \in [Messages -> [Statuses -> Statuses]]
<1>1. ASSUME NEW msg \in Messages, NEW v \in Statuses PROVE RosterChange(x)[msg][v] \in Statuses
  <2>1. msg.type = "welcome" => msg.peers[x] \in Statuses
    BY DEF Messages, Events, Welcomes
  <2> QED BY <2>1 DEF RosterChange, Statuses
<1> QED BY <1>1 DEF RosterChange

\* onmessage does to the roster what RosterChange does to each entry.
LEMMA HeardIsChange ==
  ASSUME NEW old \in [Browsers -> Statuses], NEW msg \in Messages, NEW x \in Browsers
  PROVE  (IF msg.type = "welcome" THEN msg.peers ELSE Heard(old, msg))[x] = RosterChange(x)[msg][old[x]]
<1>1. CASE msg \in Welcomes
  <2>1. msg.type = "welcome"
    BY <1>1 DEF Welcomes
  <2> QED BY <2>1 DEF RosterChange
<1>2. CASE msg \in Events
  <2>1. msg.type \in {"join", "leave", "start", "stop", "stage"}
    BY <1>2 DEF Events
  <2>2. CASE msg.type = "join"
    BY <2>2 DEF Heard, RosterChange
  <2>3. CASE msg.type = "leave"
    BY <2>3 DEF Heard, RosterChange
  <2>4. CASE msg.type = "start"
    BY <2>4 DEF Heard, RosterChange
  <2>5. CASE msg.type = "stop"
    BY <2>5 DEF Heard, RosterChange
  <2>6. CASE msg.type = "stage"
    BY <2>6 DEF Heard, RosterChange
  <2> QED BY <2>1, <2>2, <2>3, <2>4, <2>5, <2>6
<1> QED BY <1>1, <1>2 DEF Messages

\* Nobody listens to anything yet.
LEMMA InitInTouch == Init => InTouch /\ ShowInv /\ RosterInv
<1> SUFFICES ASSUME Init PROVE InTouch /\ ShowInv /\ RosterInv
  OBVIOUS
<1>1. InTouch
  BY DEF Init, InTouch, Listening
<1>2. ShowInv
  BY DEF Init, ShowInv
<1>3. RosterInv
  BY DEF Init, RosterInv
<1> QED BY <1>1, <1>2, <1>3

\* Who listens to what, for a browser and the socket it listens to.
LEMMA Heeds ==
  ASSUME TypeInv, InTouch, NEW b \in Browsers, current[b] # 0
  PROVE  /\ current[b] \in Sockets /\ owner[current[b]] = b /\ Listening(current[b])
         /\ step[current[b]] \notin Departed \cup {"none"}
         /\ out[current[b]] \in Seq(Messages)
<1>1. current[b] \in Sockets /\ owner[current[b]] = b
  BY PresenceAssumption DEF TypeInv, TypeOK, BrowsersOK, Sockets, PresenceAssumption
<1>2. step[current[b]] \notin Departed \cup {"none"}
  BY DEF InTouch
<1>3. out[current[b]] \in Seq(Messages)
  BY <1>1 DEF TypeInv, TypeOK, OutOK, Messages
<1> QED BY <1>1, <1>2, <1>3 DEF Listening

\* A message is queued for exactly the sockets that are registered.
LEMMA BroadcastReaches ==
  ASSUME TypeInv, SeatInv, InTouch, Roomy, NEW type, NEW who, NEW excluded,
         Broadcast(type, who, excluded), NEW b \in Browsers, current[b] # 0
  PROVE  out'[current[b]] = IF step[current[b]] \in Seated /\ b # excluded
                            THEN Append(out[current[b]], [type |-> type, who |-> who])
                            ELSE out[current[b]]
<1> DEFINE k == current[b]
<1>1. k \in Sockets /\ owner[k] = b /\ Listening(k) /\ k # 0
  BY Heeds, PresenceAssumption DEF Sockets, PresenceAssumption
<1>2. Len(out[k]) < SendBuffer
  BY <1>1 DEF Roomy
<1>3. (\E x \in Browsers \ {excluded} : peers[x] = k) <=> (step[k] \in Seated /\ b # excluded)
  <2>1. ASSUME NEW x \in Browsers, peers[x] = k PROVE x = b /\ step[k] \in Seated
    BY <1>1, <2>1 DEF TypeInv, TypeOK, RoomOK, SeatInv
  <2>2. step[k] \in Seated => peers[b] = k
    BY <1>1 DEF SeatInv
  <2> QED BY <2>1, <2>2
<1> HIDE DEF k
<1>4. out'[k] = IF step[k] \in Seated /\ b # excluded
                THEN Queued(k, [type |-> type, who |-> who]) ELSE out[k]
  BY <1>1, <1>3 DEF Broadcast
<1>5. out'[k] = IF step[k] \in Seated /\ b # excluded
                THEN Append(out[k], [type |-> type, who |-> who]) ELSE out[k]
  BY <1>1, <1>2, <1>4 DEF Queued
<1> QED BY <1>5 DEF k

\* A goroutine takes a step, and sends nothing, or a message that it may send now.
LEMMA TouchStays ==
  ASSUME TypeInv, InTouch, NEW k \in Sockets, step[k] # "none", owner' = owner,
         UNCHANGED browserVars, NEW s \in Steps \ {"none"}, step' = [step EXCEPT ![k] = s],
         s \in Departed => step[k] \in Departed \/ current[owner[k]] # k,
         s \in Unwelcomed => step[k] \in Unwelcomed,
         \A j \in Sockets :
           \/ out'[j] = out[j]
           \/ /\ Listening(j)
              /\ \E msg \in Messages : /\ out'[j] = Append(out[j], msg)
                                       /\ msg.type # "welcome" \/ (j = k /\ s \notin Unwelcomed)
  PROVE  InTouch'
<1>0. /\ step \in [Sockets -> Steps] /\ \A j \in Sockets : out[j] \in Seq(Messages)
      /\ \A j \in Sockets : (step'[j] = "none") <=> (step[j] = "none")
      /\ \A j \in Sockets : Listening(j)' <=> Listening(j)
  BY DEF TypeInv, TypeOK, SocketsOK, OutOK, Messages, Listening, browserVars
<1>1. ASSUME NEW j \in Sockets, ~Listening(j)' PROVE out'[j] = <<>>
  BY <1>0, <1>1 DEF InTouch
<1>2. ASSUME NEW b \in Browsers, current'[b] # 0 PROVE step'[current'[b]] \notin Departed \cup {"none"}
  <2>1. /\ current[b] = current'[b] /\ current[b] \in Sockets /\ owner[current[b]] = b
        /\ step[current[b]] \notin Departed \cup {"none"}
    BY <1>2, Heeds DEF browserVars
  <2> QED BY <1>0, <2>1
<1>3. ASSUME NEW j \in Sockets, Listening(j)', step'[j] \in Unwelcomed
      PROVE  ~welcomed'[owner'[j]] /\ \A i \in 1..Len(out'[j]) : out'[j][i].type # "welcome"
  <2>1. step[j] \in Unwelcomed /\ Listening(j)
    BY <1>0, <1>3
  <2>2. ~welcomed[owner[j]] /\ \A i \in 1..Len(out[j]) : out[j][i].type # "welcome"
    BY <2>1 DEF InTouch
  <2>3. CASE out'[j] = out[j]
    BY <2>2, <2>3 DEF browserVars
  <2>4. ASSUME NEW msg \in Messages, out'[j] = Append(out[j], msg), msg.type # "welcome"
        PROVE  \A i \in 1..Len(out'[j]) : out'[j][i].type # "welcome"
    <3>1. out[j] \in Seq(Messages)
      BY <1>0
    <3>2. \A i \in 1..Len(out'[j]) : out'[j][i] = IF i <= Len(out[j]) THEN out[j][i] ELSE msg
      BY <3>1, <2>4
    <3>3. \A i \in 1..Len(out'[j]) : i <= Len(out[j]) => i \in 1..Len(out[j])
      BY <3>1, <2>4
    <3> QED BY <2>2, <2>4, <3>2, <3>3
  <2>5. j = k => s \in Unwelcomed
    BY <1>0, <1>3
  <2> QED BY <2>2, <2>3, <2>4, <2>5 DEF browserVars
<1> QED BY <1>1, <1>2, <1>3 DEF InTouch

\* A message is queued only for a browser that listens.
LEMMA QueuedOrNot ==
  ASSUME NEW j, NEW msg
  PROVE  Queued(j, msg) = out[j] \/ (Listening(j) /\ Queued(j, msg) = Append(out[j], msg))
<1>1. CASE Listening(j) /\ Len(out[j]) < SendBuffer
  BY <1>1 DEF Queued
<1>2. CASE ~(Listening(j) /\ Len(out[j]) < SendBuffer)
  BY <1>2 DEF Queued
<1> QED BY <1>1, <1>2

\* An announcement adds an event to some queues, and no welcome to any.
LEMMA BroadcastAppends ==
  ASSUME NEW type \in {"join", "leave", "start", "stop", "stage"}, NEW who \in Browsers \cup {NoOne},
         NEW excluded, Broadcast(type, who, excluded), NEW j \in Sockets
  PROVE  \/ out'[j] = out[j]
         \/ /\ Listening(j)
            /\ \E msg \in Messages : out'[j] = Append(out[j], msg) /\ msg.type # "welcome"
<1>1. PICK msg \in Messages : msg = [type |-> type, who |-> who]
  BY DEF Messages, Events
<1>2. out'[j] = out[j] \/ out'[j] = Queued(j, msg)
  BY <1>1 DEF Broadcast
<1>3. msg.type # "welcome"
  BY <1>1
<1>4. Queued(j, msg) = out[j] \/ (Listening(j) /\ Queued(j, msg) = Append(out[j], msg))
  BY QueuedOrNot
<1> QED BY <1>1, <1>2, <1>3, <1>4

\* A goroutine sends its welcome last, and leaves only when nobody listens.
LEMMA GoroutineStaysInTouch ==
  ASSUME TypeInv, InTouch, NEW k \in Sockets, Handler(k) \/ Asked(k)
  PROVE  InTouch'
<1>0. /\ step[k] # "none" /\ owner' = owner /\ UNCHANGED browserVars
      /\ owner[k] \in Browsers /\ pin[k] \in Browsers \cup {NoOne} /\ out \in [Sockets -> Seq(Messages)]
  BY GoroutineMoves DEF TypeInv, TypeOK, SocketsOK, OutOK, Messages
<1>1. ASSUME NEW s \in Steps \ {"none"}, step' = [step EXCEPT ![k] = s], UNCHANGED out,
             s \in Departed => step[k] \in Departed \/ current[owner[k]] # k,
             s \in Unwelcomed => step[k] \in Unwelcomed
      PROVE  InTouch'
  BY <1>0, <1>1, TouchStays
<1> DEFINE Sends(kept) ==
      \A j \in Sockets :
        \/ out'[j] = out[j]
        \/ /\ Listening(j)
           /\ \E msg \in Messages : /\ out'[j] = Append(out[j], msg)
                                    /\ msg.type # "welcome" \/ (j = k /\ ~kept)
<1>2. ASSUME NEW s \in Steps \ {"none"}, step' = [step EXCEPT ![k] = s], Sends(s \in Unwelcomed),
             s \in Departed => step[k] \in Departed, s \in Unwelcomed => step[k] \in Unwelcomed
      PROVE  InTouch'
  BY <1>0, <1>2, TouchStays
<1>3. ASSUME NEW type \in {"join", "leave", "start", "stop", "stage"},
             NEW who \in Browsers \cup {NoOne}, NEW excluded, Broadcast(type, who, excluded), NEW kept
      PROVE  Sends(kept)
  BY <1>3, BroadcastAppends
<1> HIDE DEF Sends
<1>4. CASE TakeOver(k) \/ Join(k) \/ Leave(k)
  BY <1>1, <1>4 DEF TakeOver, Join, Leave, Go, Steps, Departed, Unwelcomed
<1>5. CASE CloseShare(k) \/ CloseFails(k)
  BY <1>1, <1>5 DEF CloseShare, CloseFails, AfterClose, Steps, Departed, Unwelcomed
<1>6. CASE Mute(k) \/ Unmute(k) \/ SetPublishTarget(k)
  BY <1>1, <1>6 DEF Mute, Unmute, SetPublishing, SetPublishTarget, Go, Steps, Departed, Unwelcomed
<1>7. CASE Publish(k) \/ PublishFails(k)
  BY <1>1, <1>7 DEF Publish, PublishFails, Go, Steps, Departed, Unwelcomed
<1>8. CASE ReadFails(k)
  BY <1>1, <1>8 DEF ReadFails, ClearTarget, Steps, Departed, Unwelcomed
<1>9. ASSUME NEW offer \in BOOLEAN, ReadShare(k, offer) PROVE InTouch'
  <2>1. PICK s \in {"close", "mute"} : step' = [step EXCEPT ![k] = s]
    BY <1>9 DEF ReadShare, ClearTarget
  <2> QED BY <1>1, <1>9, <2>1 DEF ReadShare, Steps, Departed, Unwelcomed
<1>10. ASSUME NEW who \in Browsers \cup {NoOne}, SetSpotlight(k, who) PROVE InTouch'
  BY <1>1, <1>10 DEF SetSpotlight, Steps, Departed, Unwelcomed
<1>11. CASE AnnounceJoin(k)
  <2>1. step[k] = "announce" /\ step' = [step EXCEPT ![k] = "welcome"]
    BY <1>11 DEF AnnounceJoin, Go
  <2>2. Sends("welcome" \in Unwelcomed)
    BY <1>0, <1>3, <1>11 DEF AnnounceJoin
  <2> QED BY <1>2, <2>1, <2>2 DEF Steps, Departed, Unwelcomed
<1>12. CASE AnnounceStop(k)
  <2>1. PICK s \in {"publish", "read"} : step' = [step EXCEPT ![k] = s]
    BY <1>12 DEF AnnounceStop, Go
  <2>2. Sends(s \in Unwelcomed)
    BY <1>0, <1>3, <1>12 DEF AnnounceStop
  <2> QED BY <1>2, <2>1, <2>2 DEF Steps, Departed, Unwelcomed
<1>13. CASE AnnounceStart(k)
  <2>1. step' = [step EXCEPT ![k] = "read"]
    BY <1>13 DEF AnnounceStart, Go
  <2>2. Sends("read" \in Unwelcomed)
    BY <1>0, <1>3, <1>13 DEF AnnounceStart
  <2> QED BY <1>2, <2>1, <2>2 DEF Steps, Departed, Unwelcomed
<1>14. CASE AnnounceLeave(k)
  <2>1. step[k] = "left" /\ step' = [step EXCEPT ![k] = "gone"]
    BY <1>14 DEF AnnounceLeave, Go
  <2>2. Sends("gone" \in Unwelcomed)
    BY <1>0, <1>3, <1>14 DEF AnnounceLeave
  <2> QED BY <1>2, <2>1, <2>2 DEF Steps, Departed, Unwelcomed
<1>15. CASE AnnounceSpotlight(k)
  <2>1. step' = [step EXCEPT ![k] = "read"]
    BY <1>15 DEF AnnounceSpotlight, Go
  <2>2. Sends("read" \in Unwelcomed)
    BY <1>0, <1>3, <1>15 DEF AnnounceSpotlight
  <2> QED BY <1>2, <2>1, <2>2 DEF Steps, Departed, Unwelcomed
<1>16. CASE Welcome(k)
  <2>1. PICK msg \in Messages : msg = [type |-> "welcome", peers |-> existing[k], stage |-> spotlight]
    BY DEF Messages, Welcomes, TypeInv, TypeOK, SocketsOK, RoomOK
  <2>2. out' = [out EXCEPT ![k] = Queued(k, msg)] /\ step' = [step EXCEPT ![k] = "read"]
    BY <1>16, <2>1 DEF Welcome, Welcoming, Go
  <2>3. Sends("read" \in Unwelcomed)
    BY <1>0, <2>2, QueuedOrNot DEF Sends, Unwelcomed
  <2> QED BY <1>2, <2>2, <2>3 DEF Steps, Departed, Unwelcomed
<1> QED BY <1>4, <1>5, <1>6, <1>7, <1>8, <1>9, <1>10, <1>11, <1>12, <1>13, <1>14, <1>15, <1>16
        DEF Handler, Share, Asked

\* publishing is written for the peer that is registered, which is k itself.
LEMMA GoroutineShows ==
  ASSUME TypeInv, SeatInv, ShowInv, NEW k \in Sockets, Handler(k) \/ Asked(k)
  PROVE  ShowInv'
<1>0. /\ step \in [Sockets -> Steps] /\ publishing \in [Sockets -> BOOLEAN] /\ k # 0
      /\ step[k] \in Seated => peers[owner[k]] = k
  BY PresenceAssumption DEF TypeInv, TypeOK, SocketsOK, RoomOK, SeatInv, Sockets, PresenceAssumption
<1>1. ASSUME NEW s \in Steps \ {"none"}, step' = [step EXCEPT ![k] = s],
             NEW v \in BOOLEAN, publishing' = [publishing EXCEPT ![k] = v],
             s \in {"resume", "join", "announce", "welcome", "muted", "publish", "target", "unmute"} => ~v,
             s = "unmuted" => v
      PROVE  ShowInv'
  BY <1>0, <1>1 DEF ShowInv
<1>2. ASSUME NEW s \in Steps \ {"none", "muted", "unmuted"}, step' = [step EXCEPT ![k] = s],
             UNCHANGED publishing,
             s \in {"resume", "join", "announce", "welcome", "publish", "target", "unmute"} => ~publishing[k]
      PROVE  ShowInv'
  BY <1>0, <1>2 DEF ShowInv
<1> USE DEF Go, Steps
<1>3. CASE TakeOver(k) \/ Join(k) \/ AnnounceJoin(k) \/ Welcome(k) \/ Leave(k) \/ AnnounceLeave(k)
  BY <1>2, <1>3
  DEF TakeOver, Join, AnnounceJoin, Welcome, Welcoming, Leave, AnnounceLeave, roomVars, ShowInv
<1>4. CASE CloseShare(k) \/ CloseFails(k)
  BY <1>2, <1>4 DEF CloseShare, CloseFails, AfterClose, roomVars
<1>5. CASE Mute(k)
  <2>1. step[k] = "mute" /\ step' = [step EXCEPT ![k] = "muted"] /\ peers[owner[k]] = k
    BY <1>0, <1>5 DEF Mute, SetPublishing, Seated
  <2>2. publishing' = [publishing EXCEPT ![k] = FALSE]
    BY <1>0, <1>5, <2>1 DEF Mute, SetPublishing
  <2>3. "muted" \in Steps \ {"none"} /\ "unmuted" \in Steps \ {"none"}
    OBVIOUS
  <2> QED BY <1>0, <2>1, <2>2, <2>3 DEF ShowInv
<1>6. CASE Unmute(k)
  <2>1. step[k] = "unmute" /\ step' = [step EXCEPT ![k] = "unmuted"] /\ peers[owner[k]] = k
    BY <1>0, <1>6 DEF Unmute, SetPublishing, Seated
  <2>2. publishing' = [publishing EXCEPT ![k] = TRUE]
    BY <1>0, <1>6, <2>1 DEF Unmute, SetPublishing
  <2>3. "muted" \in Steps \ {"none"} /\ "unmuted" \in Steps \ {"none"}
    OBVIOUS
  <2> QED BY <1>0, <2>1, <2>2, <2>3 DEF ShowInv
<1>7. CASE AnnounceStop(k) \/ AnnounceStart(k) \/ AnnounceSpotlight(k)
  BY <1>2, <1>7 DEF AnnounceStop, AnnounceStart, AnnounceSpotlight, roomVars, ShowInv
<1>8. CASE Publish(k) \/ PublishFails(k) \/ SetPublishTarget(k)
  BY <1>2, <1>8 DEF Publish, PublishFails, SetPublishTarget, roomVars, ShowInv
<1>9. CASE ReadFails(k)
  BY <1>2, <1>9 DEF ReadFails, ClearTarget
<1>10. ASSUME NEW offer \in BOOLEAN, ReadShare(k, offer) PROVE ShowInv'
  <2>1. PICK s \in {"close", "mute"} : step' = [step EXCEPT ![k] = s]
    BY <1>10 DEF ReadShare, ClearTarget
  <2> QED BY <1>2, <1>10, <2>1 DEF ReadShare
<1>11. ASSUME NEW who \in Browsers \cup {NoOne}, SetSpotlight(k, who) PROVE ShowInv'
  BY <1>2, <1>11 DEF SetSpotlight
<1> QED BY <1>3, <1>4, <1>5, <1>6, <1>7, <1>8, <1>9, <1>10, <1>11 DEF Handler, Share, Asked

\* What was on its way to a socket is lost with it.
LEMMA DropStaysInTouch ==
  ASSUME TypeInv, InTouch, NEW b \in Browsers, Drop(b)
  PROVE  InTouch'
<1>1. /\ current' = [current EXCEPT ![b] = 0] /\ out' = [out EXCEPT ![current[b]] = <<>>]
      /\ UNCHANGED <<step, owner, welcomed>> /\ current[b] # 0
  BY DEF Drop, localVars
<1>2. /\ current \in [Browsers -> 0..MaxSockets] /\ out \in [Sockets -> Seq(Messages)]
      /\ \A k \in Sockets : (step[k] # "none" => owner[k] \in Browsers) /\ k # 0
  BY PresenceAssumption
  DEF TypeInv, TypeOK, SocketsOK, BrowsersOK, OutOK, Messages, Sockets, PresenceAssumption
<1>3. ASSUME NEW k \in Sockets, Listening(k)' PROVE Listening(k) /\ k # current[b] /\ out'[k] = out[k]
  <2>1. step[k] # "none" /\ owner[k] # b /\ current[owner[k]] = k
    BY <1>1, <1>2, <1>3 DEF Listening
  <2>2. k # current[b]
    BY <1>1, <2>1, Heeds
  <2> QED BY <1>1, <1>2, <2>1, <2>2 DEF Listening
<1>4. ASSUME NEW k \in Sockets, ~Listening(k)' PROVE out'[k] = <<>>
  <2>1. CASE k = current[b]
    BY <1>1, <1>2, <2>1
  <2>2. CASE k # current[b]
    <3>1. ~Listening(k)
      BY <1>1, <1>2, <1>4, <2>2 DEF Listening
    <3> QED BY <1>1, <1>2, <2>2, <3>1 DEF InTouch
  <2> QED BY <2>1, <2>2
<1>5. ASSUME NEW x \in Browsers, current'[x] # 0 PROVE step'[current'[x]] \notin Departed \cup {"none"}
  BY <1>1, <1>2, <1>5 DEF InTouch
<1>6. ASSUME NEW k \in Sockets, Listening(k)', step'[k] \in Unwelcomed
      PROVE  ~welcomed'[owner'[k]] /\ \A i \in 1..Len(out'[k]) : out'[k][i].type # "welcome"
  BY <1>1, <1>3, <1>6 DEF InTouch
<1> QED BY <1>4, <1>5, <1>6 DEF InTouch

\* A new socket has nothing on its way, and waits for its welcome.
LEMMA ConnectStaysInTouch ==
  ASSUME TypeInv, InTouch, NEW b \in Browsers, NEW g \in Sockets, Connect(b, g)
  PROVE  InTouch'
<1>1. /\ current' = [current EXCEPT ![b] = g] /\ owner' = [owner EXCEPT ![g] = b] /\ out' = out
      /\ welcomed' = [welcomed EXCEPT ![b] = FALSE] /\ current[b] = 0 /\ step[g] = "none"
  BY DEF Connect
<1>2. PICK s \in {"join", "resume"} : step' = [step EXCEPT ![g] = s]
  BY DEF Connect
<1>3. /\ current \in [Browsers -> 0..MaxSockets] /\ welcomed \in [Browsers -> BOOLEAN]
      /\ step \in [Sockets -> Steps] /\ owner \in [Sockets -> Browsers \cup {NoOne}]
      /\ \A k \in Sockets : (step[k] # "none" => owner[k] \in Browsers) /\ k # 0
  BY PresenceAssumption
  DEF TypeInv, TypeOK, SocketsOK, BrowsersOK, Sockets, PresenceAssumption
<1>4. out[g] = <<>> /\ Len(out[g]) = 0
  BY <1>1 DEF InTouch, Listening
<1>5. ASSUME NEW k \in Sockets, k # g PROVE Listening(k)' <=> Listening(k)
  <2>1. step'[k] = step[k] /\ owner'[k] = owner[k]
    BY <1>1, <1>2, <1>3, <1>5
  <2>2. step[k] # "none" => (current'[owner[k]] = k <=> current[owner[k]] = k)
    BY <1>1, <1>3, <1>5
  <2> QED BY <2>1, <2>2 DEF Listening
<1>6. ASSUME NEW k \in Sockets, ~Listening(k)' PROVE out'[k] = <<>>
  BY <1>1, <1>4, <1>5, <1>6 DEF InTouch
<1>7. ASSUME NEW x \in Browsers, current'[x] # 0 PROVE step'[current'[x]] \notin Departed \cup {"none"}
  <2>1. CASE x = b
    BY <1>1, <1>2, <1>3, <2>1 DEF Departed
  <2>2. CASE x # b
    <3>1. current'[x] = current[x] /\ current[x] # g /\ step[current[x]] \notin Departed \cup {"none"}
      BY <1>1, <1>3, <1>7, <2>2, Heeds
    <3> QED BY <1>2, <1>3, <3>1
  <2> QED BY <2>1, <2>2
<1>8. ASSUME NEW k \in Sockets, Listening(k)', step'[k] \in Unwelcomed
      PROVE  ~welcomed'[owner'[k]] /\ \A i \in 1..Len(out'[k]) : out'[k][i].type # "welcome"
  <2>1. CASE k = g
    BY <1>1, <1>3, <1>4, <2>1
  <2>2. CASE k # g
    <3>1. /\ Listening(k) /\ step[k] \in Unwelcomed /\ owner'[k] = owner[k]
          /\ owner[k] \in Browsers /\ owner[k] # b
      BY <1>1, <1>2, <1>3, <1>5, <1>8, <2>2 DEF Listening
    <3> QED BY <1>1, <1>3, <3>1 DEF InTouch
  <2> QED BY <2>1, <2>2
<1> QED BY <1>6, <1>7, <1>8 DEF InTouch

\* Only a welcome makes a browser welcome.
LEMMA ReceiveStaysInTouch ==
  ASSUME TypeInv, InTouch, NEW b \in Browsers, Receive(b)
  PROVE  InTouch'
<1> DEFINE c == current[b]
<1>1. /\ c # 0 /\ out[c] # <<>> /\ UNCHANGED <<step, owner, current>>
      /\ out' = [out EXCEPT ![c] = Tail(out[c])]
      /\ welcomed' = [welcomed EXCEPT ![b] = @ \/ Head(out[c]).type = "welcome"]
  BY DEF Receive, localVars
<1>2. c \in Sockets /\ owner[c] = b /\ Listening(c) /\ out[c] \in Seq(Messages)
  BY <1>1, Heeds
<1>3. out \in [Sockets -> Seq(Messages)] /\ welcomed \in [Browsers -> BOOLEAN]
  BY DEF TypeInv, TypeOK, OutOK, BrowsersOK, Messages
<1> HIDE DEF c
<1>4. \A k \in Sockets : Listening(k)' <=> Listening(k)
  BY <1>1 DEF Listening
<1>5. /\ Head(out[c]) = out[c][1] /\ 1 \in 1..Len(out[c])
      /\ \A i \in 1..Len(Tail(out[c])) : i + 1 \in 1..Len(out[c]) /\ Tail(out[c])[i] = out[c][i + 1]
  BY <1>1, <1>2
<1>6. ASSUME NEW k \in Sockets, ~Listening(k)' PROVE out'[k] = <<>>
  BY <1>1, <1>2, <1>3, <1>4, <1>6 DEF InTouch
<1>7. ASSUME NEW x \in Browsers, current'[x] # 0 PROVE step'[current'[x]] \notin Departed \cup {"none"}
  BY <1>1, <1>7 DEF InTouch
<1>8. ASSUME NEW k \in Sockets, Listening(k)', step'[k] \in Unwelcomed
      PROVE  ~welcomed'[owner'[k]] /\ \A i \in 1..Len(out'[k]) : out'[k][i].type # "welcome"
  <2>1. Listening(k) /\ step[k] \in Unwelcomed
    BY <1>1, <1>4, <1>8
  <2>2. ~welcomed[owner[k]] /\ \A i \in 1..Len(out[k]) : out[k][i].type # "welcome"
    BY <2>1 DEF InTouch
  <2>3. CASE k = c
    BY <1>1, <1>2, <1>3, <1>5, <2>2, <2>3
  <2>4. CASE k # c
    <3>1. owner[k] # b
      BY <2>1, <2>4 DEF Listening, c
    <3> QED BY <1>1, <1>3, <2>2, <2>4, <3>1
  <2> QED BY <2>3, <2>4
<1> QED BY <1>6, <1>7, <1>8 DEF InTouch

\* Browsers keep what InTouch and ShowInv say, whatever they do.
LEMMA BrowserStaysInTouch ==
  ASSUME TypeInv, InTouch, ShowInv, NEW b \in Browsers, Browser(b)
  PROVE  InTouch' /\ ShowInv'
<1>1. InTouch'
  BY DropStaysInTouch, ConnectStaysInTouch, ReceiveStaysInTouch DEF Browser
<1>2. CASE Drop(b) \/ Receive(b)
  BY <1>1, <1>2 DEF Drop, Receive, localVars, roomVars, ShowInv
<1>3. ASSUME NEW k \in Sockets, Connect(b, k) PROVE ShowInv'
  <2>1. step[k] = "none" /\ publishing' = publishing
    BY <1>3 DEF Connect, roomVars
  <2>2. PICK s \in {"join", "resume"} : step' = [step EXCEPT ![k] = s]
    BY <1>3 DEF Connect
  <2>3. step \in [Sockets -> Steps]
    BY DEF TypeInv, TypeOK, SocketsOK
  <2> QED BY <2>1, <2>2, <2>3 DEF ShowInv
<1> QED BY <1>1, <1>2, <1>3 DEF Browser

-----------------------------------------------------------------------------
(* The roster.                                                               *)

\* What a step of one goroutine leaves alone.
LEMMA GoroutineIsLocal ==
  ASSUME TypeInv, SeatInv, NEW k \in Sockets, Handler(k) \/ Asked(k)
  PROVE  /\ owner' = owner /\ UNCHANGED browserVars /\ owner[k] \in Browsers
         /\ \E s \in Steps \ {"none"} : step' = [step EXCEPT ![k] = s]
         /\ \A j \in Sockets \ {k} : existing'[j] = existing[j] /\ publishing'[j] = publishing[j]
         /\ \A x \in Browsers \ {owner[k]} : peers'[x] = peers[x]
<1>1. /\ owner' = owner /\ UNCHANGED browserVars /\ owner[k] \in Browsers
      /\ existing \in [Sockets -> [Browsers -> Statuses]] /\ publishing \in [Sockets -> BOOLEAN]
      /\ peers \in [Browsers -> 0..MaxSockets] /\ (step[k] \in Seated => peers[owner[k]] = k)
  BY GoroutineMoves DEF TypeInv, TypeOK, SocketsOK, RoomOK, SeatInv
<1>2. \E s \in Steps \ {"none"} : step' = [step EXCEPT ![k] = s]
  BY DEF Handler, Share, Asked, TakeOver, Join, AnnounceJoin, Welcome, Welcoming, CloseShare, CloseFails,
         AfterClose, Mute, AnnounceStop, Publish, PublishFails, SetPublishTarget, Unmute, AnnounceStart,
         AnnounceSpotlight, ReadFails, ReadShare, ClearTarget, SetSpotlight, Leave, AnnounceLeave,
         SetPublishing, Go, Steps
<1>3. ASSUME NEW j \in Sockets \ {k} PROVE existing'[j] = existing[j]
  BY <1>1
  DEF Handler, Share, Asked, TakeOver, Join, AnnounceJoin, Welcome, Welcoming, CloseShare, CloseFails,
      Mute, AnnounceStop, Publish, PublishFails, SetPublishTarget, Unmute, AnnounceStart,
      AnnounceSpotlight, ReadFails, ReadShare, SetSpotlight, Leave, AnnounceLeave, SetPublishing
<1>4. ASSUME NEW j \in Sockets \ {k} PROVE publishing'[j] = publishing[j]
  <2>1. CASE Mute(k) \/ Unmute(k)
    BY <1>1, <2>1 DEF Mute, Unmute, SetPublishing, Go, Seated
  <2>2. CASE publishing' = publishing
    BY <2>2
  <2> QED BY <2>1, <2>2
          DEF Handler, Share, Asked, TakeOver, Join, AnnounceJoin, Welcome, Welcoming, CloseShare,
              CloseFails, AnnounceStop, Publish, PublishFails, SetPublishTarget, AnnounceStart,
              AnnounceSpotlight, ReadFails, ReadShare, SetSpotlight, Leave, AnnounceLeave, roomVars
<1>5. ASSUME NEW x \in Browsers \ {owner[k]} PROVE peers'[x] = peers[x]
  <2>1. CASE TakeOver(k) \/ Join(k) \/ Leave(k)
    BY <1>1, <2>1 DEF TakeOver, Join, Leave
  <2>2. CASE peers' = peers
    BY <2>2
  <2> QED BY <2>1, <2>2
          DEF Handler, Share, Asked, AnnounceJoin, Welcome, Welcoming, CloseShare, CloseFails, Mute, Unmute,
              SetPublishing, AnnounceStop, Publish, PublishFails, SetPublishTarget, AnnounceStart,
              AnnounceSpotlight, ReadFails, ReadShare, SetSpotlight, AnnounceLeave, roomVars
<1> QED BY <1>1, <1>2, <1>3, <1>4, <1>5

\* Nothing changes about the browsers of other goroutines.
LEMMA OthersAgree ==
  ASSUME TypeInv, SeatInv, NEW k \in Sockets, Handler(k) \/ Asked(k),
         NEW x \in Browsers \ {owner[k]}
  PROVE  Status(x)' = Status(x) /\ \A v : Agrees(x, v) => Agrees(x, v)'
<1>1. /\ owner' = owner /\ peers'[x] = peers[x]
      /\ \A j \in Sockets \ {k} : step'[j] = step[j] /\ publishing'[j] = publishing[j]
  <2>1. PICK s \in Steps : step' = [step EXCEPT ![k] = s]
    BY GoroutineIsLocal
  <2>2. step \in [Sockets -> Steps]
    BY DEF TypeInv, TypeOK, SocketsOK
  <2> QED BY <2>1, <2>2, GoroutineIsLocal
<1>2. peers[x] # 0 => peers[x] \in Sockets \ {k}
  BY PresenceAssumption DEF TypeInv, TypeOK, RoomOK, Sockets, PresenceAssumption
<1>3. Status(x)' = Status(x)
  BY <1>1, <1>2 DEF Status
<1>4. ASSUME NEW v, Agrees(x, v) PROVE Agrees(x, v)'
  BY <1>1, <1>3, <1>4 DEF Agrees
<1> QED BY <1>3, <1>4

\* While its goroutine has nothing to announce, x is what one believes of it.
LEMMA NothingToAnnounce ==
  ASSUME TypeInv, SeatInv, NEW k \in Sockets,
         step[k] \notin {"none", "gone", "announce", "left", "muted", "unmuted"},
         NEW v, Agrees(owner[k], v)
  PROVE  v = Status(owner[k])
BY DEF Agrees, SeatInv

\* A goroutine's browser is in the room while the goroutine is seated.
LEMMA SeatShows ==
  ASSUME TypeInv, SeatInv, NEW k \in Sockets, step[k] \notin {"none", "gone"}
  PROVE  /\ step[k] \in Seated =>
              peers[owner[k]] = k /\ Status(owner[k]) = IF publishing[k] THEN "sharing" ELSE "watching"
         /\ step[k] \notin Seated => Status(owner[k]) = "absent"
<1>1. /\ owner[k] \in Browsers /\ k # 0
      /\ peers[owner[k]] # 0 => peers[owner[k]] \in Sockets /\ owner[peers[owner[k]]] = owner[k]
  BY PresenceAssumption DEF TypeInv, TypeOK, SocketsOK, RoomOK, Sockets, PresenceAssumption
<1>2. CASE step[k] \in Seated
  BY <1>1, <1>2 DEF SeatInv, Status
<1>3. CASE step[k] \notin Seated
  <2>1. peers[owner[k]] = 0
    BY <1>1, <1>3 DEF SeatInv, Seated
  <2> QED BY <1>3, <2>1 DEF Status
<1> QED BY <1>2, <1>3

\* A goroutine that announces nothing.
Silent(k) ==
  \/ TakeOver(k) \/ Join(k) \/ Welcome(k) \/ CloseShare(k) \/ CloseFails(k) \/ Mute(k) \/ Unmute(k)
  \/ Publish(k) \/ PublishFails(k) \/ SetPublishTarget(k) \/ ReadFails(k) \/ Leave(k) \/ Asked(k)

\* What its browser was believed to be is still so, or about to be announced.
LEMMA SilentAgrees ==
  ASSUME TypeInv, SeatInv, NEW k \in Sockets, Silent(k), NEW v, Agrees(owner[k], v)
  PROVE  Agrees(owner[k], v)'
<1> DEFINE x == owner[k]
<1>0. /\ Handler(k) \/ Asked(k)
      /\ step[k] \notin {"none", "gone", "announce", "left", "muted", "unmuted"}
  BY DEF Silent, Handler, Share, Asked, TakeOver, Join, Welcome, Welcoming, CloseShare, CloseFails,
         AfterClose, Mute, Publish, PublishFails, SetPublishTarget, Unmute, ReadFails, ReadShare,
         Reading, SetSpotlight, Leave, SetPublishing, Go
<1>1. v = Status(x) /\ owner' = owner /\ x \in Browsers /\ step \in [Sockets -> Steps]
      /\ peers \in [Browsers -> 0..MaxSockets]
  BY <1>0, NothingToAnnounce, GoroutineIsLocal DEF TypeInv, TypeOK, SocketsOK, RoomOK
<1>2. CASE TakeOver(k)
  <2>1. step[k] = "resume" /\ peers'[x] = 0
    BY <1>1, <1>2 DEF TakeOver, Go
  <2>2. v = "absent"
    BY <1>1, <2>1, SeatShows DEF Seated
  <2> QED BY <1>1, <2>1, <2>2 DEF Agrees, Status
<1>3. CASE Join(k) \/ Leave(k)
  <2>1. step'[k] \in {"announce", "left"}
    BY <1>1, <1>3 DEF Join, Leave, Go
  <2> QED BY <1>1, <2>1 DEF Agrees
<1>4. CASE Mute(k) \/ Unmute(k)
  <2>1. step[k] \in Seated /\ step'[k] \in {"muted", "unmuted"}
    BY <1>1, <1>4 DEF Mute, Unmute, SetPublishing, Go, Seated
  <2>2. v # "absent"
    BY <1>0, <1>1, <2>1, SeatShows
  <2> QED BY <1>1, <2>1, <2>2 DEF Agrees
<1>5. CASE UNCHANGED <<peers, publishing>>
  BY <1>1, <1>5 DEF Agrees, Status
<1> QED BY <1>2, <1>3, <1>4, <1>5
        DEF Silent, Asked, Welcome, Welcoming, CloseShare, CloseFails, Publish, PublishFails,
            SetPublishTarget, ReadFails, ReadShare, SetSpotlight, roomVars

\* Who hears the announcement of k's browser believes what is so.
LEMMA AnnouncedAgrees ==
  ASSUME TypeInv, SeatInv, ShowInv, NEW k \in Sockets, NEW v \in Statuses, Agrees(owner[k], v)
  PROVE  /\ AnnounceJoin(k) => Status(owner[k])' = "watching"
         /\ AnnounceLeave(k) => Status(owner[k])' = "absent"
         /\ AnnounceStop(k) => v # "absent" /\ Status(owner[k])' = "watching"
         /\ AnnounceStart(k) => v # "absent" /\ Status(owner[k])' = "sharing"
<1>1. ASSUME AnnounceJoin(k) \/ AnnounceLeave(k) \/ AnnounceStop(k) \/ AnnounceStart(k)
      PROVE  Status(owner[k])' = Status(owner[k])
  BY <1>1 DEF AnnounceJoin, AnnounceLeave, AnnounceStop, AnnounceStart, roomVars, Status
<1>2. CASE AnnounceJoin(k)
  <2>1. step[k] = "announce"
    BY <1>2 DEF AnnounceJoin, Go
  <2> QED BY <1>1, <1>2, <2>1, SeatShows DEF ShowInv, Seated, AnnounceLeave, AnnounceStop, AnnounceStart, Go
<1>3. CASE AnnounceLeave(k)
  <2>1. step[k] = "left"
    BY <1>3 DEF AnnounceLeave, Go
  <2> QED BY <1>1, <1>3, <2>1, SeatShows DEF Seated, AnnounceJoin, AnnounceStop, AnnounceStart, Go
<1>4. CASE AnnounceStop(k) \/ AnnounceStart(k)
  <2>1. step[k] \in {"muted", "unmuted"} /\ step[k] \in Seated
    BY <1>4 DEF AnnounceStop, AnnounceStart, Go, Seated
  <2>2. Status(owner[k]) = IF publishing[k] THEN "sharing" ELSE "watching"
    BY <2>1, SeatShows
  <2>3. v # "absent"
    BY <2>1, <2>2 DEF Agrees, SeatInv
  <2> QED BY <1>1, <1>4, <2>1, <2>2, <2>3
          DEF ShowInv, AnnounceJoin, AnnounceLeave, AnnounceStop, AnnounceStart, Go
<1> QED BY <1>2, <1>3, <1>4

\* What b was told or will believe of x is kept when no message reaches it.
LEMMA RosterKept ==
  ASSUME NEW b \in Browsers, NEW k, NEW x \in Browsers, RosterAt(b, k, x),
         out'[k] = out[k], existing'[k] = existing[k], roster'[b] = roster[b], k' = k,
         step'[k] \in {"announce", "welcome"} => step[k] \in {"announce", "welcome"},
         step'[k] \notin Unwelcomed => step[k] \notin Unwelcomed,
         \A v \in Statuses : Agrees(x, v) => Agrees(x, v)',
         existing[k][x] \in Statuses
  PROVE  RosterAt(b, k, x)'
<1>1. ASSUME step'[k] \in {"announce", "welcome"} PROVE Agrees(x, existing[k][x])'
  <2>1. PICK v \in Statuses : v = existing[k][x]
    OBVIOUS
  <2>2. Agrees(x, v)'
    BY <1>1, <2>1 DEF RosterAt
  <2>3. existing'[k][x] = v
    BY <2>1
  <2> QED BY <2>2, <2>3 DEF Agrees
<1>2. ASSUME step'[k] \notin Unwelcomed
      PROVE  \E v \in Statuses : Agrees(x, v)' /\ Leads(out'[k], RosterChange(x), roster'[b][x], v)
  BY <1>2 DEF RosterAt
<1>3. RosterChange(x)' = RosterChange(x)
  BY DEF RosterChange
<1> QED BY <1>1, <1>2, <1>3 DEF RosterAt, Leads

\* What RosterInv is about, for a browser and the socket it listens to.
LEMMA Hears ==
  ASSUME TypeInv, InTouch, NEW b \in Browsers, current[b] # 0, NEW x \in Browsers
  PROVE  /\ roster[b][x] \in Statuses /\ existing[current[b]][x] \in Statuses
         /\ step[current[b]] \in Unwelcomed =>
              ~welcomed[b] /\ \A i \in 1..Len(out[current[b]]) : out[current[b]][i].type # "welcome"
<1>1. current[b] \in Sockets /\ owner[current[b]] = b /\ Listening(current[b])
  BY Heeds
<1> QED BY <1>1 DEF TypeInv, TypeOK, SocketsOK, BrowsersOK, InTouch

\* A step that sends nothing and tells nobody anything of the others.
LEMMA QuietStep ==
  ASSUME TypeInv, InTouch, RosterInv, NEW b \in Browsers, current[b] # 0, NEW x \in Browsers \ {b},
         ~Spoils(b)', UNCHANGED browserVars,
         out'[current[b]] = out[current[b]], existing'[current[b]] = existing[current[b]],
         step'[current[b]] \in {"announce", "welcome"} => step[current[b]] \in {"announce", "welcome"},
         step'[current[b]] \notin Unwelcomed => step[current[b]] \notin Unwelcomed,
         \A v \in Statuses : Agrees(x, v) => Agrees(x, v)'
  PROVE  RosterAt(b, current[b], x)'
<1>1. ~Spoils(b) /\ roster'[b] = roster[b] /\ current' = current
  BY DEF Spoils, browserVars
<1>2. RosterAt(b, current[b], x)
  BY <1>1 DEF RosterInv
<1>3. PICK k : k = current[b]
  OBVIOUS
<1>4. existing[k][x] \in Statuses
  BY <1>3, Hears
<1>5. RosterAt(b, k, x)'
  BY <1>1, <1>2, <1>3, <1>4, RosterKept
<1> QED BY <1>1, <1>3, <1>5 DEF RosterAt

\* One more message reaches a browser that was welcomed.
LEMMA OneMoreMessage ==
  ASSUME TypeInv, InTouch, RosterInv, NEW b \in Browsers, current[b] # 0, NEW x \in Browsers \ {b},
         ~Spoils(b)', UNCHANGED browserVars, NEW msg \in Messages,
         out'[current[b]] = Append(out[current[b]], msg),
         step[current[b]] \notin Unwelcomed, step'[current[b]] \notin Unwelcomed,
         \A v \in Statuses : Agrees(x, v) => Agrees(x, RosterChange(x)[msg][v])'
  PROVE  RosterAt(b, current[b], x)'
<1>1. PICK k : k = current[b]
  OBVIOUS
<1>2. out[k] \in Seq(Messages)
  BY <1>1, Heeds
<1>3. out[k] # <<>> => Append(out[k], msg) # <<>> /\ Head(Append(out[k], msg)) = Head(out[k])
  BY <1>2
<1>4. ~Spoils(b)
  BY <1>1, <1>3 DEF Spoils, browserVars
<1>5. PICK v \in Statuses : Agrees(x, v) /\ Leads(out[k], RosterChange(x), roster[b][x], v)
  BY <1>1, <1>4 DEF RosterInv, RosterAt
<1>6. PICK u \in Statuses : u = RosterChange(x)[msg][v]
  BY ChangeIsTyped
<1>7. Agrees(x, u)'
  BY <1>5, <1>6
<1>8. Leads(out'[k], RosterChange(x), roster[b][x], u)
  BY <1>1, <1>2, <1>5, <1>6, AppendLeads
<1>9. RosterChange(x)' = RosterChange(x) /\ roster' = roster /\ current' = current
  BY DEF RosterChange, browserVars
<1>10. RosterAt(b, k, x)'
  BY <1>1, <1>7, <1>8, <1>9 DEF RosterAt, Leads, Unwelcomed
<1> QED BY <1>1, <1>9, <1>10 DEF RosterAt

\* An event leaves the belief about anyone else alone.
LEMMA EventIsAboutOne ==
  ASSUME NEW type \in {"join", "leave", "start", "stop", "stage"}, NEW who \in Browsers \cup {NoOne},
         NEW x, x # who \/ type = "stage", NEW v \in Statuses
  PROVE  /\ [type |-> type, who |-> who] \in Messages
         /\ RosterChange(x)[[type |-> type, who |-> who]][v] = v
<1>1. PICK msg : msg = [type |-> type, who |-> who]
  OBVIOUS
<1>2. msg \in Messages /\ msg.type = type /\ msg.who = who
  BY <1>1 DEF Messages, Events
<1>3. RosterChange(x)[msg][v] = v
  BY <1>2 DEF RosterChange
<1> QED BY <1>1, <1>2, <1>3

\* An announcement reaches everyone in the room but the one it is about.
LEMMA AnnouncementKeepsRoster ==
  ASSUME TypeInv, SeatInv, InTouch, Roomy, RosterInv, UNCHANGED browserVars, existing' = existing,
         NEW type \in {"join", "leave", "start", "stop", "stage"}, NEW who \in Browsers \cup {NoOne},
         NEW excluded, excluded \in Browsers => excluded = who,
         Broadcast(type, who, excluded),
         \A j \in Sockets : /\ step'[j] \in {"announce", "welcome"} <=> step[j] \in {"announce", "welcome"}
                            /\ step'[j] \in Unwelcomed <=> step[j] \in Unwelcomed,
         \A x \in Browsers, v \in Statuses :
           Agrees(x, v) => Agrees(x, RosterChange(x)[[type |-> type, who |-> who]][v])'
  PROVE  RosterInv'
<1> SUFFICES ASSUME NEW b \in Browsers, current'[b] # 0, ~Spoils(b)', NEW x \in Browsers \ {b}
             PROVE  RosterAt(b, current[b], x)'
  BY DEF RosterInv
<1>0. current' = current /\ welcomed' = welcomed /\ spoiled' = spoiled
  BY DEF browserVars
<1>1. PICK k \in Sockets : k = current[b] /\ owner[k] = b /\ step[k] \notin Departed \cup {"none"}
                           /\ out[k] \in Seq(Messages)
  BY <1>0, Heeds
<1>2. PICK msg \in Messages : msg = [type |-> type, who |-> who] /\ msg.type # "welcome"
  BY DEF Messages, Events
<1>3. out'[k] = IF step[k] \in Seated /\ b # excluded THEN Append(out[k], msg) ELSE out[k]
  BY <1>0, <1>1, <1>2, BroadcastReaches
<1>4. step[k] \in Steps
  BY <1>1 DEF TypeInv, TypeOK, SocketsOK
<1>5. CASE b = excluded
  <2>1. \A v \in Statuses : RosterChange(x)[msg][v] = v
    BY <1>2, <1>5, EventIsAboutOne
  <2>2. \A v \in Statuses : Agrees(x, v) => Agrees(x, v)'
    <3> SUFFICES ASSUME NEW v \in Statuses, Agrees(x, v) PROVE Agrees(x, v)'
      OBVIOUS
    <3>1. PICK u : u = RosterChange(x)[msg][v]
      OBVIOUS
    <3>2. Agrees(x, u)'
      BY <1>2, <3>1
    <3> QED BY <2>1, <3>1, <3>2
  <2> QED BY <1>0, <1>1, <1>3, <1>5, <2>2, QuietStep
<1>6. CASE b # excluded /\ step[k] \in Seated \cap Unwelcomed
  <2>1. ~welcomed[b] /\ \A i \in 1..Len(out[k]) : out[k][i].type # "welcome"
    BY <1>0, <1>1, <1>6, Hears
  <2>2. out'[k] # <<>> /\ Head(out'[k]).type # "welcome"
    <3>1. out'[k] = Append(out[k], msg)
      BY <1>3, <1>6
    <3>2. CASE out[k] = <<>>
      BY <1>2, <3>1, <3>2
    <3>3. CASE out[k] # <<>>
      <4>1. 1 \in 1..Len(out[k]) /\ Head(out'[k]) = out[k][1] /\ out'[k] # <<>>
        BY <1>1, <3>1, <3>3
      <4> QED BY <2>1, <4>1
    <3> QED BY <3>2, <3>3
  <2> QED BY <1>0, <1>1, <2>1, <2>2 DEF Spoils
<1>7. CASE b # excluded /\ step[k] \in Seated \ Unwelcomed
  BY <1>0, <1>1, <1>2, <1>3, <1>7, OneMoreMessage
<1>8. CASE step[k] \notin Seated
  <2>1. step[k] \in {"resume", "join"}
    BY <1>1, <1>4, <1>8 DEF Steps, Seated, Departed
  <2>2. step'[k] \in Unwelcomed \ {"announce", "welcome"}
    BY <1>1, <2>1 DEF Unwelcomed
  <2> QED BY <1>0, <1>1, <2>2 DEF RosterAt
<1> QED BY <1>5, <1>6, <1>7, <1>8

\* The five announcements: each tells everyone else what is so of its goroutine's
\* browser, or says nothing of who is here.
LEMMA AnnouncerKeepsRoster ==
  ASSUME TypeInv, SeatInv, InTouch, ShowInv, Roomy, RosterInv, NEW k \in Sockets,
         \/ AnnounceJoin(k) \/ AnnounceLeave(k) \/ AnnounceStop(k) \/ AnnounceStart(k)
         \/ AnnounceSpotlight(k)
  PROVE  RosterInv'
<1>0. /\ UNCHANGED browserVars /\ existing' = existing /\ Handler(k) /\ owner' = owner
      /\ owner[k] \in Browsers /\ pin[k] \in Browsers \cup {NoOne} /\ NoOne \notin Browsers
      /\ step \in [Sockets -> Steps]
  BY GoroutineMoves, PresenceAssumption
  DEF AnnounceJoin, AnnounceLeave, AnnounceStop, AnnounceStart, AnnounceSpotlight, Handler, Share,
      TypeInv, TypeOK, SocketsOK, PresenceAssumption
<1>1. \A j \in Sockets : /\ step'[j] \in {"announce", "welcome"} <=> step[j] \in {"announce", "welcome"}
                         /\ step'[j] \in Unwelcomed <=> step[j] \in Unwelcomed
  BY <1>0 DEF AnnounceJoin, AnnounceLeave, AnnounceStop, AnnounceStart, AnnounceSpotlight, Go, Unwelcomed
<1>2. PICK who \in Browsers : who = owner[k]
  BY <1>0
<1>3. ASSUME NEW type \in {"join", "leave", "start", "stop"}, Broadcast(type, who, who),
             \A v \in Statuses : Agrees(who, v) =>
               RosterChange(who)[[type |-> type, who |-> who]][v] = Status(who)'
      PROVE  RosterInv'
  <2>1. ASSUME NEW x \in Browsers, NEW v \in Statuses, Agrees(x, v)
        PROVE  Agrees(x, RosterChange(x)[[type |-> type, who |-> who]][v])'
    <3>1. PICK u : u = RosterChange(x)[[type |-> type, who |-> who]][v]
      OBVIOUS
    <3>2. CASE x = who
      <4>1. u = Status(x)'
        BY <1>3, <2>1, <3>1, <3>2 DEF Status
      <4>2. Agrees(x, u)'
        BY <4>1 DEF Agrees
      <4> QED BY <3>1, <4>2 DEF Agrees, RosterChange
    <3>3. CASE x # who
      <4>1. u = v
        BY <3>1, <3>3, EventIsAboutOne
      <4>2. Agrees(x, u)'
        BY <1>0, <1>2, <2>1, <3>3, <4>1, OthersAgree
      <4> QED BY <3>1, <4>2 DEF Agrees, RosterChange
    <3> QED BY <3>2, <3>3
  <2> QED BY <1>0, <1>1, <1>3, <2>1, AnnouncementKeepsRoster
<1>4. ASSUME NEW v \in Statuses
      PROVE  /\ RosterChange(who)[[type |-> "join", who |-> who]][v] = "watching"
             /\ RosterChange(who)[[type |-> "leave", who |-> who]][v] = "absent"
             /\ v # "absent" => RosterChange(who)[[type |-> "stop", who |-> who]][v] = "watching"
             /\ v # "absent" => RosterChange(who)[[type |-> "start", who |-> who]][v] = "sharing"
  <2>1. ASSUME NEW type \in {"join", "leave", "start", "stop"} PROVE [type |-> type, who |-> who] \in Messages
    BY DEF Messages, Events
  <2> QED BY <2>1 DEF RosterChange
<1>5. ASSUME NEW v \in Statuses, Agrees(who, v)
      PROVE  /\ AnnounceJoin(k) => Status(who)' = "watching"
             /\ AnnounceLeave(k) => Status(who)' = "absent"
             /\ AnnounceStop(k) => v # "absent" /\ Status(who)' = "watching"
             /\ AnnounceStart(k) => v # "absent" /\ Status(who)' = "sharing"
  BY <1>0, <1>2, <1>5, AnnouncedAgrees DEF Status
<1>6. CASE AnnounceJoin(k)
  BY <1>2, <1>3, <1>4, <1>5, <1>6 DEF AnnounceJoin
<1>7. CASE AnnounceLeave(k)
  BY <1>2, <1>3, <1>4, <1>5, <1>7 DEF AnnounceLeave
<1>8. CASE AnnounceStop(k)
  BY <1>2, <1>3, <1>4, <1>5, <1>8 DEF AnnounceStop
<1>9. CASE AnnounceStart(k)
  BY <1>2, <1>3, <1>4, <1>5, <1>9 DEF AnnounceStart
<1>10. CASE AnnounceSpotlight(k)
  <2>1. PICK chosen \in Browsers \cup {NoOne} : chosen = pin[k]
    BY <1>0
  <2>2. Broadcast("stage", chosen, NoOne)
    BY <1>10, <2>1 DEF AnnounceSpotlight
  <2>3. ASSUME NEW x \in Browsers, NEW v \in Statuses, Agrees(x, v)
        PROVE  Agrees(x, RosterChange(x)[[type |-> "stage", who |-> chosen]][v])'
    <3>1. PICK u : u = RosterChange(x)[[type |-> "stage", who |-> chosen]][v]
      OBVIOUS
    <3>2. u = v
      BY <3>1, EventIsAboutOne
    <3>3. Status(x)' = Status(x)
      BY <1>10 DEF AnnounceSpotlight, Status, roomVars
    <3>4. \A j \in Sockets :
             step[j] \in {"announce", "left", "muted", "unmuted"} => step'[j] = step[j]
      BY <1>0, <1>10 DEF AnnounceSpotlight, Go
    <3>5. Agrees(x, u)'
      BY <1>0, <2>3, <3>2, <3>3, <3>4 DEF Agrees
    <3> QED BY <3>1, <3>5 DEF Agrees, RosterChange
  <2> QED BY <1>0, <1>1, <2>2, <2>3, AnnouncementKeepsRoster
<1> QED BY <1>6, <1>7, <1>8, <1>9, <1>10

\* The other steps of a goroutine: the newcomer is told what is so in Join, and
\* hears it in Welcome, before anything else unless that spoils it.
LEMMA SilenceKeepsRoster ==
  ASSUME TypeInv, SeatInv, InTouch, ShowInv, Roomy, RosterInv, NEW k \in Sockets, Silent(k)
  PROVE  RosterInv'
<1> SUFFICES ASSUME NEW b \in Browsers, current'[b] # 0, ~Spoils(b)', NEW x \in Browsers \ {b}
             PROVE  RosterAt(b, current[b], x)'
  BY DEF RosterInv
<1>0. Handler(k) \/ Asked(k)
  BY DEF Silent, Handler, Share
<1>1. /\ UNCHANGED browserVars /\ owner' = owner /\ owner[k] \in Browsers
      /\ step \in [Sockets -> Steps] /\ existing \in [Sockets -> [Browsers -> Statuses]]
  BY <1>0, GoroutineIsLocal DEF TypeInv, TypeOK, SocketsOK
<1>2. PICK c \in Sockets : /\ c = current[b] /\ owner[c] = b /\ Listening(c)
                           /\ step[c] \notin Departed \cup {"none"} /\ out[c] \in Seq(Messages)
  BY <1>1, Heeds DEF browserVars
<1>3. current' = current /\ current[b] = c /\ current[b] # 0
  BY <1>1, <1>2 DEF browserVars
<1>4. ASSUME NEW v \in Statuses, Agrees(x, v) PROVE Agrees(x, v)'
  <2>1. CASE x = owner[k]
    <3>1. Agrees(owner[k], v)'
      BY <1>4, <2>1, SilentAgrees
    <3>2. owner'[k] = x
      BY <1>1, <2>1
    <3> QED BY <3>1, <3>2 DEF Agrees, Status
  <2>2. CASE x # owner[k]
    BY <1>0, <1>4, <2>2, OthersAgree
  <2> QED BY <2>1, <2>2
<1>5. ASSUME UNCHANGED <<out[c], existing[c]>>,
             step'[c] \in {"announce", "welcome"} => step[c] \in {"announce", "welcome"},
             step'[c] \notin Unwelcomed => step[c] \notin Unwelcomed
      PROVE  RosterAt(b, current[b], x)'
  BY <1>1, <1>3, <1>4, <1>5, QuietStep
<1>6. CASE Join(k) /\ c = k
  <2>1. step'[k] = "announce" /\ existing'[k] = [y \in Browsers |-> Status(y)]
    BY <1>1, <1>6 DEF Join, Go
  <2>2. Status(x)' = Status(x) /\ existing'[k][x] = Status(x)
    BY <1>0, <1>2, <1>6, <2>1, OthersAgree
  <2> QED BY <1>1, <1>3, <1>6, <2>1, <2>2 DEF RosterAt, Agrees, Unwelcomed
<1>7. CASE Welcome(k) /\ c = k
  <2>1. /\ step[k] = "welcome" /\ step'[k] = "read"
        /\ out' = [out EXCEPT ![k] =
                     Queued(k, [type |-> "welcome", peers |-> existing[k], stage |-> spotlight])]
    BY <1>1, <1>7 DEF Welcome, Welcoming, Go
  <2>2. PICK msg \in Messages : msg = [type |-> "welcome", peers |-> existing[k], stage |-> spotlight]
    BY <1>1 DEF Messages, Welcomes, TypeInv, TypeOK, RoomOK
  <2>3. out'[k] = Append(out[k], msg) /\ Len(out[k]) < SendBuffer
    <3>1. Len(out[k]) < SendBuffer
      BY DEF Roomy
    <3> QED BY <1>2, <1>7, <2>1, <2>2, <3>1 DEF Queued, TypeInv, TypeOK, OutOK
  <2>4. ~welcomed[b] /\ \A i \in 1..Len(out[k]) : out[k][i].type # "welcome"
    BY <1>2, <1>3, <1>7, <2>1, Hears DEF Unwelcomed
  <2>5. out[k] = <<>>
    <3>1. ASSUME out[k] # <<>> PROVE FALSE
      <4>1. 1 \in 1..Len(out[k]) /\ Head(out'[k]) = out[k][1] /\ out'[k] # <<>>
        BY <1>2, <1>7, <2>3, <3>1
      <4> QED BY <1>1, <1>3, <1>7, <2>4, <4>1 DEF Spoils, browserVars
    <3> QED BY <3>1
  <2>6. ~Spoils(b)
    BY <1>1, <1>3, <1>7, <2>5 DEF Spoils, browserVars
  <2>7. PICK v \in Statuses : v = existing[k][x] /\ Agrees(x, v)
    BY <1>1, <1>3, <1>7, <2>1, <2>6 DEF RosterInv, RosterAt
  <2>8. Leads(out'[k], RosterChange(x), roster[b][x], v)
    <3>1. Leads(<<>>, RosterChange(x), roster[b][x], roster[b][x])
      BY EmptyLeads
    <3>2. roster[b][x] \in Statuses
      BY <1>3, Hears
    <3>3. RosterChange(x)[msg][roster[b][x]] = v
      BY <2>2, <2>7, <3>2 DEF RosterChange
    <3>4. <<>> \in Seq(Messages)
      OBVIOUS
    <3> QED BY <2>3, <2>5, <3>1, <3>3, <3>4, AppendLeads
  <2>9. Agrees(x, v)'
    BY <1>4, <2>7
  <2>10. RosterChange(x)' = RosterChange(x) /\ roster' = roster
    BY <1>1 DEF RosterChange, browserVars
  <2> QED BY <1>3, <1>7, <2>1, <2>8, <2>9, <2>10 DEF RosterAt, Leads, Unwelcomed
<1>8. CASE c # k
  <2>1. step'[c] = step[c] /\ existing'[c] = existing[c]
    BY <1>0, <1>1, <1>8, GoroutineIsLocal
  <2>2. out'[c] = out[c]
    <3>1. CASE Welcome(k)
      BY <1>8, <3>1 DEF Welcome, Welcoming, TypeInv, TypeOK, OutOK
    <3>2. CASE out' = out
      BY <3>2
    <3> QED BY <3>1, <3>2
            DEF Silent, Asked, TakeOver, Join, CloseShare, CloseFails, Mute, Unmute, SetPublishing, Publish,
                PublishFails, SetPublishTarget, ReadFails, ReadShare, SetSpotlight, Leave
  <2> QED BY <1>5, <2>1, <2>2
<1>9. CASE c = k /\ ~Join(k) /\ ~Welcome(k)
  <2>1. existing' = existing /\ out' = out
    BY <1>9
    DEF Silent, Asked, TakeOver, CloseShare, CloseFails, Mute, Unmute, SetPublishing, Publish,
        PublishFails, SetPublishTarget, ReadFails, ReadShare, SetSpotlight, Leave
  <2>2. /\ step'[k] \in {"announce", "welcome"} => step[k] \in {"announce", "welcome"}
        /\ step'[k] \notin Unwelcomed => step[k] \notin Unwelcomed
    BY <1>1, <1>9
    DEF Silent, Asked, TakeOver, CloseShare, CloseFails, AfterClose, Mute, Unmute, SetPublishing,
        Publish, PublishFails, SetPublishTarget, ReadFails, ReadShare, Reading, ClearTarget,
        SetSpotlight, Leave, Go, Unwelcomed
  <2> QED BY <1>5, <1>9, <2>1, <2>2
<1> QED BY <1>6, <1>7, <1>8, <1>9

\* A goroutine announces, or it is silent.
LEMMA GoroutineKeepsRoster ==
  ASSUME TypeInv, SeatInv, InTouch, ShowInv, Roomy, RosterInv, NEW k \in Sockets, Handler(k) \/ Asked(k)
  PROVE  RosterInv'
BY AnnouncerKeepsRoster, SilenceKeepsRoster DEF Handler, Share, Silent

\* A browser that connects, goes, or reads a message.
LEMMA BrowserKeepsRoster ==
  ASSUME TypeInv, SeatInv, InTouch, RosterInv, NEW a \in Browsers, Browser(a)
  PROVE  RosterInv'
<1> SUFFICES ASSUME NEW b \in Browsers, current'[b] # 0, ~Spoils(b)', NEW x \in Browsers \ {b}
             PROVE  RosterAt(b, current[b], x)'
  BY DEF RosterInv
<1>0. /\ current \in [Browsers -> 0..MaxSockets] /\ welcomed \in [Browsers -> BOOLEAN]
      /\ spoiled \in [Browsers -> BOOLEAN] /\ roster \in [Browsers -> [Browsers -> Statuses]]
      /\ step \in [Sockets -> Steps] /\ out \in [Sockets -> Seq(Messages)]
      /\ owner \in [Sockets -> Browsers \cup {NoOne}]
  BY DEF TypeInv, TypeOK, SocketsOK, OutOK, BrowsersOK, Messages
<1>1. /\ peers' = peers /\ publishing' = publishing /\ existing' = existing
      /\ RosterChange(x)' = RosterChange(x)
  BY DEF Browser, Drop, Receive, Connect, localVars, roomVars, RosterChange
<1>2. Status(x)' = Status(x)
  BY <1>1 DEF Status
<1>3. ASSUME b # a, \A v \in Statuses : Agrees(x, v) => Agrees(x, v)' PROVE RosterAt(b, current[b], x)'
  <2>1. /\ current'[b] = current[b] /\ welcomed'[b] = welcomed[b]
        /\ spoiled'[b] = spoiled[b] /\ roster'[b] = roster[b]
    BY <1>0, <1>3 DEF Browser, Drop, Receive, Connect
  <2>2. PICK c \in Sockets : c = current[b] /\ owner[c] = b /\ step[c] # "none"
    BY <2>1, Heeds
  <2>3. (current[a] # 0 => current[a] # c) /\ NoOne # b
    BY <1>3, <2>2, Heeds, PresenceAssumption DEF PresenceAssumption
  <2>4. out'[c] = out[c] /\ step'[c] = step[c]
    <3>1. CASE Drop(a) \/ Receive(a)
      BY <1>0, <2>3, <3>1 DEF Drop, Receive, localVars
    <3>2. ASSUME NEW g \in Sockets, Connect(a, g) PROVE out'[c] = out[c] /\ step'[c] = step[c]
      BY <1>0, <2>2, <3>2 DEF Connect
    <3> QED BY <3>1, <3>2 DEF Browser
  <2>5. ~Spoils(b)
    BY <2>1, <2>2, <2>4 DEF Spoils
  <2>6. RosterAt(b, c, x)
    BY <2>1, <2>2, <2>5 DEF RosterInv
  <2>7. existing[c][x] \in Statuses
    BY <2>1, <2>2, Hears
  <2>8. RosterAt(b, c, x)'
    BY <1>1, <1>3, <2>1, <2>4, <2>6, <2>7, RosterKept
  <2> QED BY <2>1, <2>2, <2>8 DEF RosterAt
<1>4. CASE Drop(a)
  <2>1. b # a
    BY <1>0, <1>4 DEF Drop
  <2>2. \A v \in Statuses : Agrees(x, v) => Agrees(x, v)'
    BY <1>2, <1>4 DEF Drop, localVars, Agrees
  <2> QED BY <1>3, <2>1, <2>2
<1>5. ASSUME NEW g \in Sockets, Connect(a, g) PROVE RosterAt(b, current[b], x)'
  <2>1. /\ step[g] = "none" /\ owner' = [owner EXCEPT ![g] = a] /\ current' = [current EXCEPT ![a] = g]
        /\ \E s \in {"join", "resume"} : step' = [step EXCEPT ![g] = s]
    BY <1>5 DEF Connect
  <2>2. CASE b = a
    <3>1. current'[b] = g /\ step'[g] \in {"join", "resume"}
      BY <1>0, <2>1, <2>2
    <3> QED BY <3>1 DEF RosterAt, Unwelcomed
  <2>3. CASE b # a
    <3>1. \A j \in Sockets \ {g} : step'[j] = step[j] /\ owner'[j] = owner[j]
      BY <1>0, <2>1
    <3>2. \A v \in Statuses : Agrees(x, v) => Agrees(x, v)'
      BY <1>2, <2>1, <3>1 DEF Agrees
    <3> QED BY <1>3, <2>3, <3>2
  <2> QED BY <2>2, <2>3
<1>6. CASE Receive(a)
  <2>1. UNCHANGED <<step, owner, current>>
    BY <1>6 DEF Receive, localVars
  <2>2. \A v \in Statuses : Agrees(x, v) => Agrees(x, v)'
    BY <1>2, <2>1 DEF Agrees
  <2>3. CASE b = a
    <3>1. PICK c \in Sockets : c = current[b] /\ owner[c] = b /\ Listening(c) /\ out[c] \in Seq(Messages)
      BY <2>1, Heeds
    <3>2. PICK msg : msg = Head(out[c])
      OBVIOUS
    <3>3. /\ out[c] # <<>> /\ out' = [out EXCEPT ![c] = Tail(out[c])]
          /\ roster' = [roster EXCEPT ![b] = IF msg.type = "welcome" THEN msg.peers ELSE Heard(@, msg)]
          /\ spoiled' = [spoiled EXCEPT ![b] = @ \/ (~(msg.type = "welcome") /\ ~welcomed[b])]
      BY <1>6, <2>3, <3>1, <3>2 DEF Receive
    <3>4. msg = out[c][1] /\ 1 \in 1..Len(out[c]) /\ msg \in Messages
      BY <3>1, <3>2, <3>3
    <3>5. ~spoiled[b] /\ (msg.type = "welcome" \/ welcomed[b])
      BY <1>0, <3>3 DEF Spoils
    <3>6. ~Spoils(b)
      BY <3>1, <3>2, <3>5 DEF Spoils
    <3>7. step[c] \notin Unwelcomed
      BY <2>1, <3>1, <3>4, <3>5, Hears
    <3>8. PICK v \in Statuses : Agrees(x, v) /\ Leads(out[c], RosterChange(x), roster[b][x], v)
      BY <2>1, <3>1, <3>6, <3>7 DEF RosterInv, RosterAt
    <3>9. roster'[b][x] = RosterChange(x)[msg][roster[b][x]]
      BY <1>0, <3>3, <3>4, HeardIsChange
    <3>10. Leads(out'[c], RosterChange(x), roster'[b][x], v)
      <4>1. Leads(Tail(out[c]), RosterChange(x), RosterChange(x)[msg][roster[b][x]], v)
        BY <3>1, <3>2, <3>3, <3>8, TailLeads
      <4> QED BY <1>0, <3>3, <3>9, <4>1
    <3>11. Agrees(x, v)'
      BY <2>2, <3>8
    <3> QED BY <1>1, <2>1, <3>1, <3>7, <3>10, <3>11 DEF RosterAt, Leads, Unwelcomed
  <2>4. CASE b # a
    BY <1>3, <2>2, <2>4
  <2> QED BY <2>3, <2>4
<1> QED BY <1>4, <1>5, <1>6 DEF Browser

\* What the proofs about beliefs need of the room; it holds of full buffers too.
RoomInv == TypeInv /\ SeatInv /\ InTouch /\ ShowInv

\* No step of a goroutine or a browser breaks it.
LEMMA RoomStaysInTouch ==
  ASSUME ~StaleSockets
  PROVE  RoomInv /\ [Next]_vars => RoomInv'
<1>1. RoomInv /\ UNCHANGED vars => SeatInv' /\ InTouch' /\ ShowInv'
  BY DEF RoomInv, SeatInv, InTouch, ShowInv, Listening, vars, localVars, roomVars, browserVars
<1> QED BY <1>1, TypesHold, GoroutineStaysSeated, GoroutineStaysInTouch, GoroutineShows, BrowsersStaySeated,
           BrowserStaysInTouch DEF RoomInv, Next

\* A step that starts with room in every buffer keeps every roster right.
LEMMA RosterHolds == RoomInv /\ Roomy /\ RosterInv /\ [Next]_vars => RosterInv'
<1>1. ASSUME RoomInv, RosterInv, UNCHANGED vars PROVE RosterInv'
  <2> SUFFICES ASSUME NEW b \in Browsers, current'[b] # 0, ~Spoils(b)', NEW x \in Browsers \ {b}
               PROVE  RosterAt(b, current[b], x)'
    BY DEF RosterInv
  <2>1. UNCHANGED <<owner, step, existing, peers, publishing, out>> /\ UNCHANGED browserVars
    BY <1>1 DEF vars, localVars, roomVars
  <2>2. \A v \in Statuses : Agrees(x, v) => Agrees(x, v)'
    BY <2>1 DEF Agrees, Status
  <2>3. current[b] # 0
    BY <2>1 DEF browserVars
  <2> QED BY <1>1, <2>1, <2>2, <2>3, QuietStep DEF RoomInv
<1> QED BY <1>1, GoroutineKeepsRoster, BrowserKeepsRoster DEF RoomInv, Next

\* When browsers are back only after their old goroutines ended, and no buffer is
\* ever full, a browser that was welcomed before it heard anything else believes
\* what is so of every other one once things have come to rest: although Join
\* unlocks before its announcement, and every change is announced after the lock
\* was released, nothing that happens in between gets lost.
THEOREM RosterComesRight ==
  ASSUME ~StaleSockets
  PROVE  Spec /\ []Roomy => []RosterIsRight
<1>1. Init => RoomInv /\ RosterInv
  BY InitIsTyped, InitIsSeated, InitInTouch DEF RoomInv
<1>2. ASSUME RoomInv, RosterInv PROVE RosterIsRight
  <2> SUFFICES ASSUME AtRest, NEW b \in Browsers, current[b] # 0, ~spoiled[b], NEW x \in Browsers \ {b}
               PROVE  roster[b][x] = Status(x)
    BY DEF RosterIsRight
  <2>1. PICK c \in Sockets : c = current[b] /\ owner[c] = b /\ step[c] \notin Departed \cup {"none"}
    BY <1>2, Heeds DEF RoomInv
  <2>2. step[c] = "read" /\ out[c] = <<>>
    BY <2>1 DEF AtRest, Departed
  <2>3. PICK v \in Statuses : Agrees(x, v) /\ Leads(out[c], RosterChange(x), roster[b][x], v)
    BY <1>2, <2>1, <2>2 DEF RosterInv, RosterAt, Spoils, Unwelcomed
  <2>4. roster[b][x] = v
    BY <2>2, <2>3, EmptyLeads
  <2>5. v = Status(x)
    BY <2>3 DEF Agrees, AtRest
  <2> QED BY <2>4, <2>5
<1> QED BY <1>1, <1>2, RoomStaysInTouch, RosterHolds, PTL DEF Spec

-----------------------------------------------------------------------------
(* The stage.                                                                *)

\* Nobody chooses the stage while another choice is not yet announced.
OneChooser == \A j, k \in Sockets : step[j] = "pinned" /\ step[k] = "pinned" => j = k

\* What a message makes of a belief about the stage.
StageChange ==
  [msg \in Messages |-> [v \in Stages |->
     CASE msg.type = "welcome" -> msg.stage
       [] msg.type = "stage" -> msg.who
       [] OTHER -> v]]

\* What b will believe of the stage when it has read the queue of its socket k is
\* right, if it was welcomed, but for a choice that is about to be announced.
StageAt(b, k) ==
  \E v \in Stages :
    /\ Leads(out[k], StageChange, stage[b], v)
    /\ step[k] \notin Unwelcomed => v = spotlight \/ \E j \in Sockets : step[j] = "pinned"

\* The choice that is being announced is the last one, and every browser that
\* listens will know of it.
StageInv ==
  /\ \A k \in Sockets : step[k] = "pinned" => pin[k] = spotlight
  /\ \A b \in Browsers : current[b] # 0 => StageAt(b, current[b])

\* Reading a message makes a stage of a stage.
LEMMA StageChangeIsTyped == StageChange \in [Messages -> [Stages -> Stages]]
<1>1. ASSUME NEW msg \in Messages, NEW v \in Stages PROVE StageChange[msg][v] \in Stages
  <2>1. /\ msg.type = "welcome" => msg.stage \in Stages
        /\ msg.type = "stage" => msg.who \in Stages
    BY DEF Messages, Events, Welcomes, Stages
  <2> QED BY <2>1 DEF StageChange
<1> QED BY <1>1 DEF StageChange

\* Nobody listens and nobody chooses yet.
LEMMA InitStage == Init => StageInv
BY DEF Init, StageInv

\* Nothing of it changes for b, but for news of something else.
LEMMA StageKept ==
  ASSUME NEW b \in Browsers, NEW k \in Sockets, out[k] \in Seq(Messages), StageAt(b, k),
         stage'[b] = stage[b], spotlight' = spotlight,
         \A j \in Sockets : step[j] = "pinned" => step'[j] = "pinned",
         step'[k] \notin Unwelcomed => step[k] \notin Unwelcomed,
         \/ out'[k] = out[k]
         \/ \E msg \in Messages : /\ out'[k] = Append(out[k], msg)
                                  /\ msg.type \notin {"welcome", "stage"}
  PROVE  StageAt(b, k)'
<1>1. PICK v \in Stages :
        /\ Leads(out[k], StageChange, stage[b], v)
        /\ step[k] \notin Unwelcomed => v = spotlight \/ \E j \in Sockets : step[j] = "pinned"
  BY DEF StageAt
<1>2. Leads(out'[k], StageChange, stage[b], v)
  <2>1. CASE out'[k] = out[k]
    BY <1>1, <2>1
  <2>2. ASSUME NEW msg \in Messages, out'[k] = Append(out[k], msg), msg.type \notin {"welcome", "stage"}
        PROVE  Leads(out'[k], StageChange, stage[b], v)
    <3>1. StageChange[msg][v] = v
      BY <2>2 DEF StageChange
    <3>2. Leads(Append(out[k], msg), StageChange, stage[b], StageChange[msg][v])
      BY <1>1, AppendLeads
    <3> QED BY <2>2, <3>1, <3>2
  <2> QED BY <2>1, <2>2
<1>3. StageChange' = StageChange
  BY DEF StageChange
<1> QED BY <1>1, <1>2, <1>3 DEF StageAt, Leads

\* A message that says who is on stage.
LEMMA StageHeard ==
  ASSUME NEW b \in Browsers, NEW k \in Sockets, out[k] \in Seq(Messages), StageAt(b, k),
         stage'[b] = stage[b], NEW msg \in Messages, out'[k] = Append(out[k], msg),
         \/ msg.type = "welcome" /\ msg.stage = spotlight'
         \/ msg.type = "stage" /\ msg.who = spotlight'
  PROVE  StageAt(b, k)'
<1>1. PICK v \in Stages : Leads(out[k], StageChange, stage[b], v)
  BY DEF StageAt
<1>2. PICK u \in Stages : u = StageChange[msg][v]
  BY StageChangeIsTyped
<1>3. u = spotlight'
  BY <1>2 DEF StageChange
<1>4. Leads(out'[k], StageChange, stage'[b], u)
  BY <1>1, <1>2, AppendLeads
<1>5. StageChange' = StageChange
  BY DEF StageChange
<1> QED BY <1>3, <1>4, <1>5 DEF StageAt, Leads

\* A choice is announced to everyone in the room, its author too, and a welcome
\* says what the choice is when it is sent, not what it was in Join.
LEMMA GoroutineKeepsStage ==
  ASSUME TypeInv, SeatInv, InTouch, Roomy, StageInv, OneChooser, OneChooser',
         NEW k \in Sockets, Handler(k) \/ Asked(k)
  PROVE  StageInv'
<1>0. /\ UNCHANGED browserVars /\ owner[k] \in Browsers
      /\ step \in [Sockets -> Steps] /\ pin \in [Sockets -> Stages] /\ out \in [Sockets -> Seq(Messages)]
      /\ existing \in [Sockets -> [Browsers -> Statuses]] /\ spotlight \in Stages
  BY GoroutineMoves DEF TypeInv, TypeOK, SocketsOK, RoomOK, OutOK, Messages, Stages
<1>1. ASSUME NEW b \in Browsers, current'[b] # 0
      PROVE  /\ current[b] \in Sockets /\ out[current[b]] \in Seq(Messages) /\ StageAt(b, current[b])
             /\ step[current[b]] \notin Departed \cup {"none"} /\ owner[current[b]] = b
             /\ Listening(current[b]) /\ current'[b] = current[b] /\ stage'[b] = stage[b]
  BY <1>0, <1>1, Heeds DEF StageInv, browserVars
<1>2. ASSUME \A b \in Browsers, c \in Sockets : current[b] = c /\ current[b] # 0 => StageAt(b, c)'
      PROVE  \A b \in Browsers : current'[b] # 0 => StageAt(b, current[b])'
  <2> SUFFICES ASSUME NEW b \in Browsers, current'[b] # 0 PROVE StageAt(b, current[b])'
    OBVIOUS
  <2>1. PICK c \in Sockets : c = current[b] /\ current'[b] = c /\ current[b] # 0
    BY <1>1
  <2>2. StageAt(b, c)'
    BY <1>2, <2>1
  <2> QED BY <2>1, <2>2 DEF StageAt
<1>3. ASSUME UNCHANGED <<spotlight, pin>>, \A j \in Sockets : step'[j] = "pinned" <=> step[j] = "pinned",
             \A j \in Sockets : step'[j] \notin Unwelcomed => step[j] \notin Unwelcomed,
             \A j \in Sockets : \/ out'[j] = out[j]
                                \/ \E msg \in Messages : /\ out'[j] = Append(out[j], msg)
                                                         /\ msg.type \notin {"welcome", "stage"}
      PROVE  StageInv'
  <2>1. ASSUME NEW b \in Browsers, NEW c \in Sockets, current[b] = c, current[b] # 0 PROVE StageAt(b, c)'
    BY <1>0, <1>1, <1>3, <2>1, StageKept DEF browserVars
  <2>2. \A b \in Browsers : current'[b] # 0 => StageAt(b, current[b])'
    BY <1>2, <2>1
  <2> QED BY <1>3, <2>2 DEF StageInv
<1>4. ASSUME NEW who \in Browsers \cup {NoOne}, SetSpotlight(k, who) PROVE StageInv'
  <2>1. /\ spotlight' = who /\ pin' = [pin EXCEPT ![k] = who] /\ out' = out
        /\ step' = [step EXCEPT ![k] = "pinned"]
    BY <1>4 DEF SetSpotlight
  <2>2. \A j \in Sockets : step'[j] = "pinned" => j = k
    BY <1>0, <2>1 DEF OneChooser
  <2>3. ASSUME NEW b \in Browsers, NEW c \in Sockets, current[b] = c, current[b] # 0 PROVE StageAt(b, c)'
    <3>1. PICK v \in Stages : Leads(out[c], StageChange, stage[b], v)
      BY <2>3 DEF StageInv, StageAt
    <3>2. StageChange' = StageChange /\ out'[c] = out[c] /\ stage'[b] = stage[b]
      BY <1>0, <2>1 DEF StageChange, browserVars
    <3>3. \E j \in Sockets : step'[j] = "pinned"
      BY <1>0, <2>1
    <3> QED BY <3>1, <3>2, <3>3 DEF StageAt, Leads
  <2>4. \A b \in Browsers : current'[b] # 0 => StageAt(b, current[b])'
    BY <1>2, <2>3
  <2> QED BY <1>0, <2>1, <2>2, <2>4 DEF StageInv
<1>5. CASE AnnounceSpotlight(k)
  <2>1. PICK chosen \in Stages : chosen = pin[k]
    BY <1>0
  <2>2. /\ step[k] = "pinned" /\ step' = [step EXCEPT ![k] = "read"] /\ spotlight' = chosen
        /\ Broadcast("stage", chosen, NoOne) /\ spotlight' = spotlight
    BY <1>5, <2>1 DEF AnnounceSpotlight, Go, StageInv, roomVars
  <2>3. \A j \in Sockets : step'[j] # "pinned"
    BY <1>0, <2>2 DEF OneChooser
  <2>4. PICK msg \in Messages : msg = [type |-> "stage", who |-> chosen]
    BY DEF Messages, Events, Stages
  <2>5. ASSUME NEW b \in Browsers, NEW c \in Sockets, current[b] = c, current[b] # 0 PROVE StageAt(b, c)'
    <3>1. out'[c] = IF step[c] \in Seated THEN Append(out[c], msg) ELSE out[c]
      <4>1. b # NoOne
        BY PresenceAssumption DEF PresenceAssumption
      <4>2. out'[current[b]] = IF step[current[b]] \in Seated /\ b # NoOne
                               THEN Append(out[current[b]], [type |-> "stage", who |-> chosen])
                               ELSE out[current[b]]
        BY <2>2, <2>5, BroadcastReaches
      <4> QED BY <2>4, <2>5, <4>1, <4>2
    <3>2. /\ StageAt(b, c) /\ out[c] \in Seq(Messages) /\ stage'[b] = stage[b]
          /\ step[c] \notin Departed \cup {"none"}
      BY <1>0, <1>1, <2>5 DEF browserVars
    <3>3. CASE step[c] \in Seated
      BY <2>2, <2>4, <3>1, <3>2, <3>3, StageHeard
    <3>4. CASE step[c] \notin Seated
      <4>1. step[c] \in Unwelcomed /\ step'[c] \in Unwelcomed
        BY <1>0, <2>2, <3>2, <3>4 DEF Steps, Seated, Departed, Unwelcomed
      <4>2. PICK v \in Stages : Leads(out[c], StageChange, stage[b], v)
        BY <3>2 DEF StageAt
      <4>3. StageChange' = StageChange /\ out'[c] = out[c]
        BY <3>1, <3>4 DEF StageChange
      <4> QED BY <3>2, <4>1, <4>2, <4>3 DEF StageAt, Leads
    <3> QED BY <3>3, <3>4
  <2>6. \A b \in Browsers : current'[b] # 0 => StageAt(b, current[b])'
    BY <1>2, <2>5
  <2> QED BY <2>3, <2>6 DEF StageInv
<1>6. CASE Welcome(k)
  <2>1. /\ step[k] = "welcome" /\ step' = [step EXCEPT ![k] = "read"] /\ UNCHANGED <<spotlight, pin>>
        /\ out' = [out EXCEPT ![k] =
                     Queued(k, [type |-> "welcome", peers |-> existing[k], stage |-> spotlight])]
    BY <1>6 DEF Welcome, Welcoming, Go, roomVars
  <2>2. PICK msg \in Messages : msg = [type |-> "welcome", peers |-> existing[k], stage |-> spotlight]
    BY <1>0 DEF Messages, Welcomes, Stages
  <2>3. ASSUME NEW b \in Browsers, NEW c \in Sockets, current[b] = c, current[b] # 0 PROVE StageAt(b, c)'
    <3>1. StageAt(b, c) /\ out[c] \in Seq(Messages) /\ stage'[b] = stage[b] /\ Listening(c)
      BY <1>0, <1>1, <2>3 DEF browserVars
    <3>2. CASE c = k
      <4>1. Len(out[k]) < SendBuffer
        BY DEF Roomy
      <4>2. out'[c] = Append(out[c], msg)
        BY <1>0, <2>1, <2>2, <3>1, <3>2, <4>1 DEF Queued
      <4> QED BY <2>1, <2>2, <3>1, <4>2, StageHeard
    <3>3. CASE c # k
      <4>1. out'[c] = out[c] /\ step'[c] = step[c]
        BY <1>0, <2>1, <3>3
      <4> QED BY <1>0, <2>1, <3>1, <4>1, StageKept
    <3> QED BY <3>2, <3>3
  <2>4. \A b \in Browsers : current'[b] # 0 => StageAt(b, current[b])'
    BY <1>2, <2>3
  <2> QED BY <1>0, <2>1, <2>4 DEF StageInv
<1>7. ASSUME NEW type \in {"join", "leave", "start", "stop"}, Broadcast(type, owner[k], owner[k]),
             NEW j \in Sockets
      PROVE  \/ out'[j] = out[j]
             \/ \E msg \in Messages : /\ out'[j] = Append(out[j], msg)
                                      /\ msg.type \notin {"welcome", "stage"}
  <2>1. PICK msg \in Messages : msg = [type |-> type, who |-> owner[k]]
    BY <1>0 DEF Messages, Events
  <2>2. out'[j] = out[j] \/ out'[j] = Append(out[j], msg)
    BY <1>7, <2>1, QueuedOrNot DEF Broadcast
  <2> QED BY <2>1, <2>2
<1>8. CASE AnnounceJoin(k) \/ AnnounceLeave(k) \/ AnnounceStop(k) \/ AnnounceStart(k)
  <2>1. /\ UNCHANGED <<spotlight, pin>> /\ \A j \in Sockets : step'[j] = "pinned" <=> step[j] = "pinned"
        /\ \A j \in Sockets : step'[j] \notin Unwelcomed => step[j] \notin Unwelcomed
    BY <1>0, <1>8 DEF AnnounceJoin, AnnounceLeave, AnnounceStop, AnnounceStart, Go, roomVars, Unwelcomed
  <2>2. \E type \in {"join", "leave", "start", "stop"} : Broadcast(type, owner[k], owner[k])
    BY <1>8 DEF AnnounceJoin, AnnounceLeave, AnnounceStop, AnnounceStart
  <2> QED BY <1>3, <1>7, <2>1, <2>2
<1>9. CASE Silent(k) /\ ~Welcome(k) /\ ~\E who \in Browsers \cup {NoOne} : SetSpotlight(k, who)
  <2>1. UNCHANGED <<spotlight, pin, out>>
    BY <1>9
    DEF Silent, Asked, TakeOver, Join, CloseShare, CloseFails, Mute, Unmute, SetPublishing, Publish,
        PublishFails, SetPublishTarget, ReadFails, ReadShare, Leave, roomVars
  <2>2. /\ \A j \in Sockets : step'[j] = "pinned" <=> step[j] = "pinned"
        /\ \A j \in Sockets : step'[j] \notin Unwelcomed => step[j] \notin Unwelcomed
    BY <1>0, <1>9
    DEF Silent, Asked, TakeOver, Join, CloseShare, CloseFails, AfterClose, Mute, Unmute, SetPublishing,
        Publish, PublishFails, SetPublishTarget, ReadFails, ReadShare, Reading, ClearTarget, Leave, Go,
        Unwelcomed
  <2> QED BY <1>3, <2>1, <2>2
<1> QED BY <1>4, <1>5, <1>6, <1>8, <1>9 DEF Handler, Share, Asked, Silent

\* A browser that connects, goes, or reads a message.
LEMMA BrowserKeepsStage ==
  ASSUME TypeInv, InTouch, StageInv, NEW a \in Browsers, Browser(a)
  PROVE  StageInv'
<1>0. /\ current \in [Browsers -> 0..MaxSockets] /\ stage \in [Browsers -> Stages]
      /\ step \in [Sockets -> Steps] /\ out \in [Sockets -> Seq(Messages)]
      /\ owner \in [Sockets -> Browsers \cup {NoOne}]
  BY DEF TypeInv, TypeOK, SocketsOK, OutOK, BrowsersOK, Messages, Stages
<1>1. /\ spotlight' = spotlight /\ pin' = pin
      /\ \A j \in Sockets : step'[j] = "pinned" <=> step[j] = "pinned"
  <2>1. ASSUME NEW g \in Sockets, Connect(a, g)
        PROVE  \A j \in Sockets : step'[j] = "pinned" <=> step[j] = "pinned"
    BY <1>0, <2>1 DEF Connect
  <2> QED BY <2>1 DEF Browser, Drop, Receive, Connect, localVars, roomVars
<1>2. ASSUME NEW b \in Browsers, current'[b] # 0 PROVE StageAt(b, current[b])'
  <2>1. CASE b # a
    <3>1. current'[b] = current[b] /\ stage'[b] = stage[b]
      BY <1>0, <2>1 DEF Browser, Drop, Receive, Connect
    <3>2. PICK c \in Sockets : c = current[b] /\ owner[c] = b /\ step[c] # "none" /\ out[c] \in Seq(Messages)
      BY <1>2, <3>1, Heeds
    <3>3. (current[a] # 0 => current[a] # c) /\ NoOne # b
      BY <2>1, <3>2, Heeds, PresenceAssumption DEF PresenceAssumption
    <3>4. out'[c] = out[c] /\ step'[c] = step[c]
      <4>1. CASE Drop(a) \/ Receive(a)
        BY <1>0, <3>3, <4>1 DEF Drop, Receive, localVars
      <4>2. ASSUME NEW g \in Sockets, Connect(a, g) PROVE out'[c] = out[c] /\ step'[c] = step[c]
        BY <1>0, <3>2, <4>2 DEF Connect
      <4> QED BY <4>1, <4>2 DEF Browser
    <3>5. StageAt(b, c)
      BY <1>2, <3>1, <3>2 DEF StageInv
    <3>6. StageAt(b, c)'
      BY <1>1, <3>1, <3>2, <3>4, <3>5, StageKept
    <3> QED BY <3>1, <3>2, <3>6 DEF StageAt
  <2>2. CASE b = a /\ Drop(a)
    BY <1>0, <1>2, <2>2 DEF Drop
  <2>3. ASSUME NEW g \in Sockets, b = a, Connect(a, g) PROVE StageAt(b, current[b])'
    <3>1. /\ current'[b] = g /\ step'[g] \in {"join", "resume"}
          /\ out' = out /\ step[g] = "none" /\ stage' = stage
      BY <1>0, <2>3 DEF Connect
    <3>2. out[g] = <<>>
      BY <3>1 DEF InTouch, Listening
    <3>3. PICK v \in Stages : v = stage[b]
      BY <1>0
    <3>4. Leads(out'[g], StageChange, stage'[b], v)
      BY <3>1, <3>2, <3>3, EmptyLeads
    <3> QED BY <3>1, <3>4 DEF StageAt, Leads, StageChange, Unwelcomed
  <2>4. CASE b = a /\ Receive(a)
    <3>1. UNCHANGED <<step, owner, current>>
      BY <2>4 DEF Receive, localVars
    <3>2. PICK c \in Sockets : c = current[b] /\ owner[c] = b /\ out[c] \in Seq(Messages)
      BY <1>2, <3>1, Heeds
    <3>3. PICK msg : msg = Head(out[c])
      OBVIOUS
    <3>4. /\ out[c] # <<>> /\ out' = [out EXCEPT ![c] = Tail(out[c])]
          /\ stage' = [stage EXCEPT ![b] = IF msg.type = "welcome" THEN msg.stage
                                           ELSE IF msg.type = "stage" THEN msg.who ELSE @]
      BY <2>4, <3>2, <3>3 DEF Receive
    <3>5. msg \in Messages
      BY <3>2, <3>3, <3>4
    <3>6. PICK v \in Stages :
            /\ Leads(out[c], StageChange, stage[b], v)
            /\ step[c] \notin Unwelcomed => v = spotlight \/ \E j \in Sockets : step[j] = "pinned"
      BY <1>2, <3>1, <3>2 DEF StageInv, StageAt
    <3>7. stage'[b] = StageChange[msg][stage[b]]
      BY <1>0, <3>4, <3>5 DEF StageChange
    <3>8. Leads(Tail(out[c]), StageChange, StageChange[msg][stage[b]], v)
      BY <3>2, <3>3, <3>4, <3>6, TailLeads
    <3>9. Leads(out'[c], StageChange, stage'[b], v)
      BY <1>0, <3>4, <3>7, <3>8
    <3>10. StageChange' = StageChange
      BY DEF StageChange
    <3> QED BY <1>1, <3>1, <3>2, <3>6, <3>9, <3>10 DEF StageAt, Leads
  <2> QED BY <2>1, <2>2, <2>3, <2>4 DEF Browser
<1>3. \A j \in Sockets : step'[j] = "pinned" => pin'[j] = spotlight'
  BY <1>1 DEF StageInv
<1> QED BY <1>2, <1>3 DEF StageInv

\* A step that starts with room in every buffer, between states with at most one
\* choice to announce, keeps what everyone will believe of the stage right.
LEMMA StageHolds ==
  RoomInv /\ Roomy /\ StageInv /\ OneChooser /\ OneChooser' /\ [Next]_vars => StageInv'
<1>1. ASSUME RoomInv, StageInv, UNCHANGED vars PROVE StageInv'
  BY <1>1 DEF StageInv, StageAt, Leads, StageChange, vars, localVars, roomVars, browserVars
<1> QED BY <1>1, GoroutineKeepsStage, BrowserKeepsStage DEF RoomInv, Next

\* When browsers are back only after their old goroutines ended, no buffer is ever
\* full and nobody chooses while another choice is unannounced, every browser in
\* the room, a newcomer too, believes the stage to be what the room says it is once
\* things have come to rest.
THEOREM StageComesToAgree ==
  ASSUME ~StaleSockets
  PROVE  Spec /\ []Roomy /\ []OneChooser => []StageAgrees
<1>1. Init => RoomInv /\ StageInv
  BY InitIsTyped, InitIsSeated, InitInTouch, InitStage DEF RoomInv
<1>2. ASSUME RoomInv, StageInv PROVE StageAgrees
  <2> SUFFICES ASSUME AtRest, NEW b \in Browsers, current[b] # 0 PROVE stage[b] = spotlight
    BY DEF StageAgrees
  <2>1. PICK c \in Sockets : c = current[b] /\ owner[c] = b /\ step[c] \notin Departed \cup {"none"}
    BY <1>2, Heeds DEF RoomInv
  <2>2. step[c] = "read" /\ out[c] = <<>>
    BY <2>1 DEF AtRest, Departed
  <2>3. PICK v \in Stages :
          /\ Leads(out[c], StageChange, stage[b], v)
          /\ step[c] \notin Unwelcomed => v = spotlight \/ \E j \in Sockets : step[j] = "pinned"
    BY <1>2, <2>1 DEF StageInv, StageAt
  <2>4. stage[b] = v
    BY <2>2, <2>3, EmptyLeads
  <2>5. v = spotlight
    BY <2>2, <2>3 DEF Unwelcomed, AtRest
  <2> QED BY <2>4, <2>5
<1> QED BY <1>1, <1>2, RoomStaysInTouch, StageHolds, PTL DEF Spec
=============================================================================
