---------------------------- MODULE RoomClientProofs ----------------------------
(***************************************************************************)
(* The three sides of a room's page.  The door, for every set of people,   *)
(* every number of requests, every life of a request and of a token: what  *)
(* makes an answer final is Records, which ties the state of a request to  *)
(* the first answer it was given, and AtTheDoor, which says that only a    *)
(* page in the room has a socket, so that a page never changes its         *)
(* credential under an open one.  The tab that shares (Held) and the tab   *)
(* that watches (WatchInv), for any numbers of captures, publishers,       *)
(* viewers, attempts and lost sockets.                                     *)
(***************************************************************************)
EXTENDS RoomClient, TLAPS

\* What the state of a request says of the first answer.
Records ==
  \A r \in Requests :
    /\ r > made => status[r] = "none"
    /\ status[r] \in {"none", "pending"} => first[r] = "none"
    /\ status[r] \in Answers => first[r] = status[r]

\* Only a page in the room has a socket.
AtTheDoor == \A p \in People : page[p] # "room" => conn[p] = "out"

\* Only a lobby waits for the answer to a poll.
InTheLobby == \A p \in People : reply[p] # "none" => page[p] = "lobby"

Inv == TypeOK /\ Records /\ AtTheDoor /\ InTheLobby /\ RefusedStaysOut

-----------------------------------------------------------------------------
(* Types.                                                                    *)

LEMMA OlderIsBounded == \A n \in 0..(AdmitTTL + 1) : Older(n) \in 0..(AdmitTTL + 1)
BY KnockAssumption DEF KnockAssumption, Older

LEMMA SweptIsTyped ==
  ASSUME status \in [Requests -> Statuses]
  PROVE  Swept \in [Requests -> Statuses]
BY DEF Swept, Statuses

\* What is sent to everyone is a message.
LEMMA BroadcastIsTyped ==
  ASSUME TypeOK, NEW type \in {"request", "resolved"}, NEW r \in Requests, Broadcast(type, r)
  PROVE  /\ box' \in [People -> Seq(Messages \cup Welcomes)]
         /\ spoiled' \in [People -> BOOLEAN]
<1>1. [type |-> type, req |-> r] \in Messages \cup Welcomes
  BY DEF Messages
<1>2. \A p \in People : Append(box[p], [type |-> type, req |-> r]) \in Seq(Messages \cup Welcomes)
  BY <1>1 DEF TypeOK
<1> QED BY <1>2 DEF Broadcast, TypeOK

\* The banners after a message are requests.
LEMMA HeardIsTyped ==
  ASSUME NEW old \in SUBSET Requests, NEW msg \in Messages \cup Welcomes
  PROVE  Heard(old, msg) \in SUBSET Requests
BY DEF Heard, Messages, Welcomes

LEMMA RefusedIsTyped == \A was \in Refusals, how \in {"told", "guessed"} : Refused(was, how) \in Refusals
BY DEF Refused, Refusals

LEMMA TypesHold == TypeOK /\ InTheLobby /\ [Next]_vars => TypeOK'
<1> SUFFICES ASSUME TypeOK, InTheLobby, [Next]_vars PROVE TypeOK'
  OBVIOUS
<1> USE KnockAssumption DEF KnockAssumption
<1>1. ASSUME NEW p \in People, Running(p) PROVE TypeOK'
  <2>1. CASE AnnounceAsk(p)
    <3>1. ticket[p] \in Requests
      BY <2>1 DEF AnnounceAsk, TypeOK
    <3> QED BY <2>1, <3>1, BroadcastIsTyped DEF AnnounceAsk, TypeOK, roomVars
  <2>2. CASE AnnounceAnswer(p)
    <3>1. telling[p] \in Requests
      BY <2>2 DEF AnnounceAnswer, TypeOK
    <3> QED BY <2>2, <3>1, BroadcastIsTyped
            DEF AnnounceAnswer, TypeOK, roomVars, lobbyVars, Nothing
  <2>3. CASE Connect(p)
    BY <2>3 DEF Connect, TypeOK, roomVars, lobbyVars
  <2>4. CASE PendingKnocks(p)
    BY <2>4, SweptIsTyped DEF PendingKnocks, TypeOK, lobbyVars
  <2>5. CASE Welcome(p)
    <3>1. [type |-> "welcome", reqs |-> snap[p]] \in Messages \cup Welcomes
      BY DEF Welcomes, TypeOK
    <3>2. Append(box[p], [type |-> "welcome", reqs |-> snap[p]]) \in Seq(Messages \cup Welcomes)
      BY <3>1 DEF TypeOK
    <3> QED BY <2>5, <3>2 DEF Welcome, TypeOK, roomVars, lobbyVars
  <2>6. CASE Receive(p)
    <3>1. Head(box[p]) \in Messages \cup Welcomes /\ Tail(box[p]) \in Seq(Messages \cup Welcomes)
      BY <2>6 DEF Receive, TypeOK
    <3>2. Heard(shown[p], Head(box[p])) \in SUBSET Requests
      BY <3>1, HeardIsTyped DEF TypeOK
    <3> QED BY <2>6, <3>1, <3>2 DEF Receive, TypeOK, roomVars, lobbyVars
  <2>7. CASE Poll(p)
    <3>1. Swept \in [Requests -> Statuses]
      BY SweptIsTyped DEF TypeOK
    <3>2. ticket[p] \in Requests
      BY <2>7 DEF Poll, TypeOK
    <3> QED BY <2>7, <3>1, <3>2 DEF Poll, TypeOK, socketVars
  <2>8. CASE Answered(p)
    <3>1. ticket[p] # Nothing
      BY <2>8 DEF Answered, InTheLobby, TypeOK
    <3>2. denied[p] \in Refusals /\ Refused(denied[p], "told") \in Refusals /\ "no" \in Refusals
      BY RefusedIsTyped DEF TypeOK, Refusals
    <3>3. denied' \in [People -> Refusals]
      BY <2>8, <3>2 DEF Answered, TypeOK
    <3> QED BY <2>8, <3>1, <3>3 DEF Answered, TypeOK, roomVars, socketVars, Statuses
  <2> QED BY <1>1, <2>1, <2>2, <2>3, <2>4, <2>5, <2>6, <2>7, <2>8 DEF Running
<1>2. ASSUME NEW p \in People, Person(p) PROVE TypeOK'
  <2>1. CASE Ask(p)
    <3>1. made + 1 \in Requests /\ made + 1 # Nothing
      BY <2>1 DEF Ask, TypeOK, Requests, Nothing
    <3>2. [Swept EXCEPT ![made + 1] = "pending"] \in [Requests -> Statuses]
      BY <3>1, SweptIsTyped DEF TypeOK, Statuses
    <3>3. ticket' \in [People -> Requests \cup {Nothing}]
      BY <2>1, <3>1 DEF Ask, TypeOK
    <3>4. page' \in [People -> {"gate", "asking", "lobby", "room"}]
      BY <2>1 DEF Ask, TypeOK
    <3>5. \A q \in People : ticket'[q] = Nothing => page'[q] = "gate" \/ (page'[q] = "room" /\ q \in Hosts)
      BY <2>1, <3>1 DEF Ask, TypeOK
    <3>6. made' \in 0..MaxKnocks
      BY <2>1 DEF Ask, TypeOK
    <3> QED BY <2>1, <3>2, <3>3, <3>4, <3>5, <3>6 DEF Ask, TypeOK, socketVars
  <2>2. CASE Enter(p)
    BY <2>2 DEF Enter, TypeOK, roomVars, socketVars, Password, Nothing
  <2>3. CASE LeavePage(p)
    BY <2>3 DEF LeavePage, TypeOK, roomVars
  <2>4. CASE GiveUp(p)
    BY <2>4 DEF GiveUp, TypeOK, roomVars, socketVars, Statuses, Refusals
  <2>5. CASE Drop(p)
    BY <2>5 DEF Drop, TypeOK, roomVars, lobbyVars
  <2>6. CASE PollFails(p)
    <3>1. Refused(denied[p], "guessed") \in Refusals
      BY RefusedIsTyped DEF TypeOK
    <3>2. denied' \in [People -> Refusals]
      BY <2>6, <3>1 DEF PollFails, TypeOK
    <3> QED BY <2>6, <3>2 DEF PollFails, TypeOK, roomVars, socketVars
  <2>7. ASSUME NEW r \in Requests, NEW answer \in Answers, ResolveKnock(p, r, answer)
        PROVE  TypeOK'
    BY <2>7 DEF ResolveKnock, TypeOK, lobbyVars, Statuses, Answers
  <2> QED BY <1>2, <2>1, <2>2, <2>3, <2>4, <2>5, <2>6, <2>7 DEF Person
<1>3. CASE Sweep
  BY <1>3, SweptIsTyped DEF Sweep, TypeOK, socketVars, lobbyVars
<1>4. CASE Tick
  <2>1. \A r \in Requests : /\ Older(age[r]) \in 0..(AdmitTTL + 1)
                            /\ Older(since[r]) \in 0..(AdmitTTL + 1)
    BY OlderIsBounded DEF TypeOK
  <2>2. age' \in [Requests -> 0..(AdmitTTL + 1)]
    BY <1>4, <2>1 DEF Tick
  <2>3. since' \in [Requests -> 0..(AdmitTTL + 1)]
    BY <1>4, <2>1 DEF Tick
  <2> QED BY <1>4, <2>2, <2>3 DEF Tick, TypeOK, socketVars
<1>5. CASE Restart
  BY <1>5 DEF Restart, TypeOK, Statuses
<1>6. CASE UNCHANGED vars
  BY <1>6 DEF vars, roomVars, socketVars, lobbyVars, TypeOK
<1> QED BY <1>1, <1>2, <1>3, <1>4, <1>5, <1>6 DEF Next

-----------------------------------------------------------------------------
(* Answers.                                                                  *)

\* A sweep takes requests off the map and changes no answer.
LEMMA SweptIsRecorded ==
  ASSUME TypeOK, Records, status' = Swept, UNCHANGED <<made, first>>
  PROVE  Records'
BY DEF Swept, Stale, Waiting, Decided, Records, Answers

LEMMA RecordsHold == TypeOK /\ Records /\ [Next]_vars => Records'
<1> SUFFICES ASSUME TypeOK, Records, [Next]_vars PROVE Records'
  OBVIOUS
<1>1. CASE UNCHANGED <<status, made, first>>
  BY <1>1 DEF Records
<1>2. CASE status' = Swept /\ UNCHANGED <<made, first>>
  BY <1>2, SweptIsRecorded
<1>3. ASSUME NEW p \in People, Ask(p) PROVE Records'
  <2>1. made + 1 \in Requests /\ status[made + 1] = "none" /\ first[made + 1] = "none"
    BY <1>3, KnockAssumption DEF KnockAssumption, Ask, TypeOK, Records, Requests
  <2>2. \A r \in Requests : status'[r] \in {status[r], "gone"} \/ (r = made + 1 /\ status'[r] = "pending")
    BY <1>3, <2>1 DEF Ask, Swept
  <2>3. \A r \in Requests : r > made + 1 => status'[r] = "none"
    <3>1. \A r \in Requests : r > made + 1 => r # made + 1 /\ status[r] = "none"
      BY DEF Records, TypeOK, Requests
    <3>2. \A r \in Requests : status[r] = "none" => Swept[r] = "none"
      BY DEF Swept, Stale, Waiting, Decided, Answers
    <3> QED BY <1>3, <3>1, <3>2 DEF Ask, Swept
  <2> QED BY <1>3, <2>1, <2>2, <2>3 DEF Ask, Records, Answers
<1>4. ASSUME NEW p \in People, NEW r \in Requests, NEW answer \in Answers, ResolveKnock(p, r, answer)
      PROVE  Records'
  BY <1>4 DEF ResolveKnock, Records, TypeOK, Answers
<1>5. CASE Restart
  BY <1>5 DEF Restart, Records, Answers
<1>6. ASSUME NEW p \in People, Running(p)
      PROVE  UNCHANGED <<status, made, first>> \/ (status' = Swept /\ UNCHANGED <<made, first>>)
  BY <1>6 DEF Running, AnnounceAsk, AnnounceAnswer, Connect, PendingKnocks, Welcome, Receive, Poll,
              Answered, roomVars
<1>7. ASSUME NEW p \in People, Person(p)
      PROVE  \/ UNCHANGED <<status, made, first>> \/ Ask(p)
             \/ \E r \in Requests, answer \in Answers : ResolveKnock(p, r, answer)
  BY <1>7 DEF Person, Enter, LeavePage, GiveUp, Drop, PollFails, roomVars
<1> QED BY <1>1, <1>2, <1>3, <1>4, <1>5, <1>6, <1>7 DEF Next, Sweep, Tick, vars, roomVars

-----------------------------------------------------------------------------
(* The door.                                                                 *)

LEMMA DoorHolds == TypeOK /\ AtTheDoor /\ InTheLobby /\ [Next]_vars => AtTheDoor' /\ InTheLobby'
<1> SUFFICES ASSUME TypeOK, AtTheDoor, InTheLobby, [Next]_vars PROVE AtTheDoor' /\ InTheLobby'
  OBVIOUS
<1> USE DEF AtTheDoor, InTheLobby, TypeOK
<1>1. ASSUME NEW p \in People, Running(p) PROVE AtTheDoor' /\ InTheLobby'
  BY <1>1 DEF Running, AnnounceAsk, AnnounceAnswer, Connect, PendingKnocks, Welcome, Receive, Poll,
              Answered, roomVars, socketVars, lobbyVars
<1>2. ASSUME NEW p \in People, Person(p) PROVE AtTheDoor' /\ InTheLobby'
  BY <1>2 DEF Person, Ask, Enter, LeavePage, GiveUp, Drop, PollFails, ResolveKnock,
              roomVars, socketVars, lobbyVars
<1>3. CASE Sweep \/ Tick \/ Restart \/ UNCHANGED vars
  BY <1>3 DEF Sweep, Tick, Restart, vars, socketVars, lobbyVars
<1> QED BY <1>1, <1>2, <1>3 DEF Next

\* A socket opens only with the password or with a token of an approved
\* request; the answer stands, and the page keeps its ticket while it is open.
LEMMA DoorIsKept == Inv /\ [Next]_vars => RefusedStaysOut'
<1> SUFFICES ASSUME Inv, [Next]_vars,
                    NEW p \in People, conn'[p] # "out", ticket'[p] # Password
             PROVE  first'[ticket'[p]] = "approved"
  BY DEF RefusedStaysOut
<1> USE DEF Inv
<1>1. CASE conn[p] # "out" /\ ticket'[p] = ticket[p] /\ first' = first
  BY <1>1 DEF RefusedStaysOut
<1>2. ASSUME NEW q \in People, Connect(q) PROVE first'[ticket'[p]] = "approved"
  <2>1. CASE q = p
    <3>1. ticket[p] \in Requests /\ status[ticket[p]] = "approved"
      BY <1>2, <2>1 DEF Connect, Admitted, TypeOK, lobbyVars, Password, Nothing
    <3> QED BY <1>2, <2>1, <3>1 DEF Connect, Records, Answers, lobbyVars
  <2>2. CASE q # p
    BY <1>2, <2>2 DEF Connect, TypeOK, RefusedStaysOut, lobbyVars
  <2> QED BY <2>1, <2>2
<1>3. ASSUME NEW q \in People, NEW r \in Requests, NEW answer \in Answers,
             ResolveKnock(q, r, answer)
      PROVE  first'[ticket'[p]] = "approved"
  <2>1. first[ticket[p]] = "approved" /\ ticket[p] \in Requests /\ first[r] = "none"
    BY <1>3 DEF ResolveKnock, TypeOK, Records, RefusedStaysOut, lobbyVars, Password, Nothing
  <2> QED BY <1>3, <2>1 DEF ResolveKnock, TypeOK, lobbyVars
<1>4. ASSUME NEW q \in People, Running(q), ~Connect(q)
      PROVE  conn[p] # "out" /\ ticket'[p] = ticket[p] /\ first' = first
  BY <1>4 DEF Running, AnnounceAsk, AnnounceAnswer, PendingKnocks, Welcome, Receive, Poll, Answered,
              TypeOK, socketVars, lobbyVars
<1>5. ASSUME NEW q \in People, Person(q),
             \A r \in Requests, answer \in Answers : ~ResolveKnock(q, r, answer)
      PROVE  conn[p] # "out" /\ ticket'[p] = ticket[p] /\ first' = first
  <2>1. conn[p] # "out" => page[p] = "room"
    BY DEF AtTheDoor
  <2>2. first' = first /\ conn[p] # "out"
    BY <1>5 DEF Person, Ask, Enter, LeavePage, GiveUp, Drop, PollFails, TypeOK, socketVars
  <2> QED BY <1>5, <2>1, <2>2 DEF Person, Ask, Enter, LeavePage, GiveUp, Drop, PollFails, TypeOK,
                                  socketVars, lobbyVars
<1>6. CASE Sweep \/ Tick \/ Restart \/ UNCHANGED vars
  BY <1>1, <1>6 DEF Sweep, Tick, Restart, vars, socketVars, lobbyVars
<1> QED BY <1>1, <1>2, <1>3, <1>4, <1>5, <1>6 DEF Next

-----------------------------------------------------------------------------
(* The theorems.                                                             *)

LEMMA InvHolds == Spec => []Inv
<1>1. Init => Inv
  BY KnockAssumption DEF KnockAssumption, Init, Inv, TypeOK, Refusals, Records, AtTheDoor, InTheLobby,
     RefusedStaysOut, Statuses, Answers, Requests, Nothing
<1>2. Inv /\ [Next]_vars => Inv'
  BY TypesHold, RecordsHold, DoorHolds, DoorIsKept DEF Inv
<1> QED BY <1>1, <1>2, PTL DEF Spec

\* However many ask, answer, poll, connect and leave, in any order and through
\* any number of restarts, the state is typed; in particular whoever is in the
\* room without knowing the password is there on some request's ticket.
THEOREM KnockTypeCorrect == Spec => []TypeOK
<1>1. Inv => TypeOK
  BY DEF Inv
<1> QED BY <1>1, InvHolds, PTL

\* The first answer counts, for any number of people who answer at once: nobody
\* has a socket by a request that was refused or never answered.
THEOREM FirstAnswerCounts == Spec => []RefusedStaysOut
<1>1. Inv => RefusedStaysOut
  BY DEF Inv
<1> QED BY <1>1, InvHolds, PTL

-----------------------------------------------------------------------------
(* Banners.  A message puts a banner up or takes it down, and the last one   *)
(* in a box counts.                                                          *)

Puts(msg, r) == (msg.type = "request" /\ msg.req = r) \/ (msg.type = "welcome" /\ r \in msg.reqs)

Clears(msg, r) == (msg.type = "resolved" /\ msg.req = r) \/ (msg.type = "welcome" /\ r \notin msg.reqs)

\* r is off the screen once the box has been read: after whatever puts it there
\* comes something that takes it down.
Clear(box_p, shown_p, r) ==
  /\ r \in shown_p => \E j \in 1..Len(box_p) : Clears(box_p[j], r)
  /\ \A i \in 1..Len(box_p) : Puts(box_p[i], r) =>
       \E j \in 1..Len(box_p) : i < j /\ Clears(box_p[j], r)

\* Answered, and everyone has been told.
Settled(r) == first[r] # "none" /\ \A q \in People : telling[q] # r

\* A request is not answered before it was announced.
Unanswered == \A p \in People : page[p] = "asking" => first[ticket[p]] = "none"

Banners ==
  \A r \in Requests, p \in People : Settled(r) /\ ~spoiled[p] =>
    /\ conn[p] = "in" => Clear(box[p], shown[p], r)
    /\ conn[p] = "greeting" => r \notin snap[p]

Envelopes == Messages \cup Welcomes

\* A message that does not put r up leaves r off the screen, and one that takes
\* it down settles the matter.
LEMMA AppendIsClear ==
  ASSUME NEW old \in Seq(Envelopes), NEW shown_p, NEW r, NEW msg \in Envelopes, ~Puts(msg, r),
         Clear(old, shown_p, r) \/ Clears(msg, r)
  PROVE  Clear(Append(old, msg), shown_p, r)
<1> DEFINE new == Append(old, msg)
<1>1. /\ new \in Seq(Envelopes) /\ Len(new) = Len(old) + 1 /\ Len(old) \in Nat
      /\ new[Len(old) + 1] = msg /\ \A i \in 1..Len(old) : new[i] = old[i]
  OBVIOUS
<1> HIDE DEF new
<1>2. CASE Clears(msg, r)
  BY <1>1, <1>2 DEF Clear
<1>3. CASE Clear(old, shown_p, r)
  BY <1>1, <1>3 DEF Clear
<1> QED BY <1>2, <1>3 DEF new

\* Reading a message does what the message says.
LEMMA TailIsClear ==
  ASSUME NEW old \in Seq(Envelopes), old # <<>>, NEW shown_p \in SUBSET Requests, NEW r \in Requests,
         Clear(old, shown_p, r)
  PROVE  Clear(Tail(old), Heard(shown_p, Head(old)), r)
<1> DEFINE new == Tail(old)
<1>1. /\ Len(new) = Len(old) - 1 /\ Len(old) \in Nat /\ Len(old) > 0
      /\ Head(old) = old[1] /\ old[1] \in Envelopes
      /\ \A i \in 1..Len(new) : new[i] = old[i + 1]
  OBVIOUS
<1>2. \A j \in 2..Len(old) : j - 1 \in 1..Len(new) /\ new[j - 1] = old[j]
  BY <1>1
<1> HIDE DEF new
<1>3. ASSUME NEW i \in 1..Len(new), Puts(new[i], r)
      PROVE  \E j \in 1..Len(new) : i < j /\ Clears(new[j], r)
  <2>1. PICK j \in 1..Len(old) : i + 1 < j /\ Clears(old[j], r)
    BY <1>1, <1>3 DEF Clear
  <2> QED BY <1>1, <1>2, <2>1
<1>4. ASSUME r \in Heard(shown_p, Head(old)) PROVE \E j \in 1..Len(new) : Clears(new[j], r)
  <2>1. Puts(old[1], r) \/ (r \in shown_p /\ ~Clears(old[1], r))
    BY <1>1, <1>4 DEF Heard, Puts, Clears, Envelopes, Messages, Welcomes
  <2>2. PICK j \in 1..Len(old) : j # 1 /\ Clears(old[j], r)
    BY <1>1, <2>1 DEF Clear
  <2> QED BY <1>1, <1>2, <2>2
<1> QED BY <1>3, <1>4 DEF Clear, new

LEMMA UnansweredHolds ==
  ASSUME ~InstantClicks
  PROVE  TypeOK /\ Records /\ Unanswered /\ [Next]_vars => Unanswered'
<1> SUFFICES ASSUME TypeOK, Records, Unanswered, [Next]_vars,
                    NEW p \in People, page'[p] = "asking"
             PROVE  first'[ticket'[p]] = "none"
  BY DEF Unanswered
<1> USE DEF Unanswered, TypeOK
<1>1. ASSUME NEW q \in People, Running(q) PROVE first'[ticket'[p]] = "none"
  BY <1>1 DEF Running, AnnounceAsk, AnnounceAnswer, Connect, PendingKnocks, Welcome, Receive, Poll,
              Answered, roomVars, socketVars, lobbyVars
<1>2. ASSUME NEW q \in People, Ask(q) PROVE first'[ticket'[p]] = "none"
  <2>1. first[made + 1] = "none"
    BY <1>2, KnockAssumption DEF KnockAssumption, Ask, Records, Requests
  <2> QED BY <1>2, <2>1 DEF Ask
<1>3. ASSUME NEW q \in People, NEW r \in Requests, NEW answer \in Answers,
             ResolveKnock(q, r, answer)
      PROVE  first'[ticket'[p]] = "none"
  BY <1>3 DEF ResolveKnock, Announced, lobbyVars
<1>4. ASSUME NEW q \in People, Person(q), ~Ask(q),
             \A r \in Requests, answer \in Answers : ~ResolveKnock(q, r, answer)
      PROVE  first'[ticket'[p]] = "none"
  BY <1>4 DEF Person, Enter, LeavePage, GiveUp, Drop, PollFails, socketVars, lobbyVars
<1>5. CASE Sweep \/ Tick \/ Restart \/ UNCHANGED vars
  BY <1>5 DEF Sweep, Tick, Restart, vars, lobbyVars
<1> QED BY <1>1, <1>2, <1>3, <1>4, <1>5 DEF Next

\* A broadcast that does not ask for r leaves r off the screens, and a
\* resolution of r takes it off; one being greeted is spoiled by either.
LEMMA BroadcastIsClear ==
  ASSUME TypeOK, NEW type \in {"request", "resolved"}, NEW q \in Requests, Broadcast(type, q),
         NEW p \in People, NEW r \in Requests, ~spoiled'[p], type = "request" => q # r,
         conn[p] = "in" => Clear(box[p], shown[p], r) \/ (type = "resolved" /\ q = r)
  PROVE  /\ ~spoiled[p] /\ conn[p] # "greeting"
         /\ conn[p] = "in" => Clear(box'[p], shown[p], r)
<1> DEFINE msg == [type |-> type, req |-> q]
<1>1. ~spoiled[p] /\ conn[p] # "greeting"
  BY DEF Broadcast, TypeOK
<1>2. msg \in Envelopes /\ ~Puts(msg, r) /\ (type = "resolved" /\ q = r => Clears(msg, r))
  BY DEF Envelopes, Messages, Puts, Clears
<1>3. box[p] \in Seq(Envelopes)
  BY DEF TypeOK, Envelopes
<1>4. conn[p] = "in" => box'[p] = Append(box[p], msg)
  BY DEF Broadcast
<1> HIDE DEF msg
<1> QED BY <1>1, <1>2, <1>3, <1>4, AppendIsClear

LEMMA BannersHold ==
  TypeOK /\ Records /\ Unanswered /\ Banners /\ [Next]_vars => Banners'
<1> SUFFICES ASSUME TypeOK, Records, Unanswered, Banners, [Next]_vars,
                    NEW r \in Requests, NEW p \in People, Settled(r)', ~spoiled'[p]
             PROVE  /\ conn'[p] = "in" => Clear(box'[p], shown'[p], r)
                    /\ conn'[p] = "greeting" => r \notin snap'[p]
  BY DEF Banners
<1> DEFINE Goal == /\ conn'[p] = "in" => Clear(box'[p], shown'[p], r)
                   /\ conn'[p] = "greeting" => r \notin snap'[p]
<1>0. Settled(r) /\ ~spoiled[p] => /\ conn[p] = "in" => Clear(box[p], shown[p], r)
                                   /\ conn[p] = "greeting" => r \notin snap[p]
  BY DEF Banners
<1>1. ASSUME UNCHANGED <<telling, first>>,
             UNCHANGED <<conn[p], box[p], shown[p], snap[p], spoiled[p]>> \/ conn'[p] = "out"
      PROVE  Goal
  BY <1>0, <1>1 DEF Settled
<1>2. ASSUME NEW q \in People, AnnounceAsk(q) PROVE Goal
  <2>1. Settled(r) /\ ticket[q] # r /\ ticket[q] \in Requests
    BY <1>2 DEF AnnounceAsk, Settled, Unanswered, TypeOK
  <2>2. ~spoiled[p] /\ conn' = conn /\ shown' = shown
    BY <1>2 DEF AnnounceAsk, Broadcast, TypeOK
  <2> QED BY <1>0, <1>2, <2>1, <2>2, BroadcastIsClear DEF AnnounceAsk
<1>3. ASSUME NEW q \in People, AnnounceAnswer(q) PROVE Goal
  <2>1. telling[q] \in Requests /\ (Settled(r) \/ telling[q] = r)
    BY <1>3 DEF AnnounceAnswer, Settled, TypeOK, Nothing
  <2>2. ~spoiled[p] /\ conn' = conn /\ shown' = shown
    BY <1>3 DEF AnnounceAnswer, Broadcast, TypeOK
  <2> QED BY <1>0, <1>3, <2>1, <2>2, BroadcastIsClear DEF AnnounceAnswer
<1>4. ASSUME NEW q \in People, Connect(q) PROVE Goal
  BY <1>1, <1>4 DEF Connect, TypeOK, socketVars
<1>5. ASSUME NEW q \in People, PendingKnocks(q) PROVE Goal
  <2>1. Swept[r] # "pending"
    BY <1>5 DEF PendingKnocks, Settled, Records, Swept
  <2>2. CASE q = p
    <3>1. conn'[p] = "greeting" /\ snap'[p] = {s \in Requests : Swept[s] = "pending"}
      BY <1>5, <2>2 DEF PendingKnocks, TypeOK
    <3> QED BY <2>1, <3>1
  <2>3. CASE q # p
    BY <1>1, <1>5, <2>3 DEF PendingKnocks, TypeOK
  <2> QED BY <2>2, <2>3
<1>6. ASSUME NEW q \in People, Welcome(q) PROVE Goal
  <2>1. CASE q = p
    <3> DEFINE msg == [type |-> "welcome", reqs |-> snap[p]]
    <3>1. r \notin snap[p]
      BY <1>0, <1>6, <2>1 DEF Welcome, Settled
    <3>2. msg \in Envelopes /\ ~Puts(msg, r) /\ Clears(msg, r) /\ box[p] \in Seq(Envelopes)
      BY <3>1 DEF Envelopes, Welcomes, Puts, Clears, TypeOK
    <3>3. box'[p] = Append(box[p], msg) /\ shown' = shown /\ conn'[p] = "in"
      BY <1>6, <2>1 DEF Welcome, TypeOK
    <3> HIDE DEF msg
    <3> QED BY <3>2, <3>3, AppendIsClear
  <2>2. CASE q # p
    BY <1>1, <1>6, <2>2 DEF Welcome, TypeOK
  <2> QED BY <2>1, <2>2
<1>7. ASSUME NEW q \in People, Receive(q) PROVE Goal
  <2>1. CASE q = p
    <3>1. /\ box[p] \in Seq(Envelopes) /\ box[p] # <<>> /\ shown[p] \in SUBSET Requests
          /\ box'[p] = Tail(box[p]) /\ shown'[p] = Heard(shown[p], Head(box[p]))
      BY <1>7, <2>1 DEF Receive, TypeOK, Envelopes
    <3>2. Settled(r) /\ ~spoiled[p] /\ conn'[p] = conn[p] /\ snap'[p] = snap[p]
      BY <1>7 DEF Receive, Settled
    <3> QED BY <1>0, <3>1, <3>2, TailIsClear
  <2>2. CASE q # p
    BY <1>1, <1>7, <2>2 DEF Receive, TypeOK
  <2> QED BY <2>1, <2>2
<1>8. ASSUME NEW q \in People, Poll(q) \/ Answered(q) PROVE Goal
  BY <1>1, <1>8 DEF Poll, Answered, socketVars
<1>9. ASSUME NEW q \in People, Ask(q) \/ Enter(q) \/ GiveUp(q) \/ PollFails(q) PROVE Goal
  BY <1>1, <1>9 DEF Ask, Enter, GiveUp, PollFails, socketVars
<1>10. ASSUME NEW q \in People, LeavePage(q) \/ Drop(q) PROVE Goal
  BY <1>1, <1>10 DEF LeavePage, Drop, TypeOK
<1>11. ASSUME NEW q \in People, NEW s \in Requests, NEW answer \in Answers,
              ResolveKnock(q, s, answer)
       PROVE  Goal
  <2>1. Settled(r)
    BY <1>11 DEF ResolveKnock, Settled, TypeOK, Requests, Nothing
  <2> QED BY <1>0, <1>11, <2>1 DEF ResolveKnock
<1>12. CASE Sweep \/ Tick \/ UNCHANGED vars
  BY <1>1, <1>12 DEF Sweep, Tick, vars, socketVars
<1>13. CASE Restart
  BY <1>13 DEF Restart
<1> QED BY <1>2, <1>3, <1>4, <1>5, <1>6, <1>7, <1>8, <1>9, <1>10, <1>11, <1>12, <1>13
        DEF Next, Running, Person

\* However the broadcasts of requests and answers cross with one another, with
\* the welcomes of those who come in and with what each browser has read: once
\* an answer has been announced, no browser that has caught up shows its banner.
THEOREM BannersGoAway == ~InstantClicks => (Spec => []AnsweredAreGone)
<1> SUFFICES ASSUME ~InstantClicks PROVE Spec => []AnsweredAreGone
  OBVIOUS
<1>1. Init => Unanswered /\ Banners
  BY DEF Init, Unanswered, Banners, Settled
<1>2. Inv /\ Unanswered /\ Banners /\ [Next]_vars => (Unanswered /\ Banners)'
  BY UnansweredHolds, BannersHold DEF Inv
<1>3. Inv /\ Banners => AnsweredAreGone
  <2> SUFFICES ASSUME Inv, Banners, NEW r \in Requests, NEW p \in People,
                      Settled(r), UpToDate(p), r \in shown[p]
               PROVE  FALSE
    BY DEF AnsweredAreGone, Settled
  <2>1. Clear(box[p], shown[p], r) /\ Len(box[p]) = 0
    BY DEF UpToDate, Banners
  <2> QED BY <2>1 DEF Clear
<1> QED BY <1>1, <1>2, <1>3, InvHolds, PTL DEF Spec

-----------------------------------------------------------------------------
(* Waiters: the same the other way round.                                    *)

\* r is on the screen once the box has been read: after whatever takes it down
\* comes something that puts it up.
Up(box_p, shown_p, r) ==
  /\ r \notin shown_p => \E j \in 1..Len(box_p) : Puts(box_p[j], r)
  /\ \A i \in 1..Len(box_p) : Clears(box_p[i], r) =>
       \E j \in 1..Len(box_p) : i < j /\ Puts(box_p[j], r)

\* What is about to be announced as answered was answered.
ToldOfAnswers == \A q \in People : telling[q] # Nothing => first[telling[q]] # "none"

Waiters ==
  \A r \in Requests, p \in People : status[r] = "pending" /\ Announced(r) /\ ~spoiled[p] =>
    /\ conn[p] = "in" => Up(box[p], shown[p], r)
    /\ conn[p] = "greeting" => r \in snap[p]

LEMMA AppendIsUp ==
  ASSUME NEW old \in Seq(Envelopes), NEW shown_p, NEW r, NEW msg \in Envelopes, ~Clears(msg, r),
         Up(old, shown_p, r) \/ Puts(msg, r)
  PROVE  Up(Append(old, msg), shown_p, r)
<1> DEFINE new == Append(old, msg)
<1>1. /\ new \in Seq(Envelopes) /\ Len(new) = Len(old) + 1 /\ Len(old) \in Nat
      /\ new[Len(old) + 1] = msg /\ \A i \in 1..Len(old) : new[i] = old[i]
  OBVIOUS
<1> HIDE DEF new
<1>2. CASE Puts(msg, r)
  BY <1>1, <1>2 DEF Up
<1>3. CASE Up(old, shown_p, r)
  BY <1>1, <1>3 DEF Up
<1> QED BY <1>2, <1>3 DEF new

LEMMA TailIsUp ==
  ASSUME NEW old \in Seq(Envelopes), old # <<>>, NEW shown_p \in SUBSET Requests, NEW r \in Requests,
         Up(old, shown_p, r)
  PROVE  Up(Tail(old), Heard(shown_p, Head(old)), r)
<1> DEFINE new == Tail(old)
<1>1. /\ Len(new) = Len(old) - 1 /\ Len(old) \in Nat /\ Len(old) > 0
      /\ Head(old) = old[1] /\ old[1] \in Envelopes
      /\ \A i \in 1..Len(new) : new[i] = old[i + 1]
  OBVIOUS
<1>2. \A j \in 2..Len(old) : j - 1 \in 1..Len(new) /\ new[j - 1] = old[j]
  BY <1>1
<1> HIDE DEF new
<1>3. ASSUME NEW i \in 1..Len(new), Clears(new[i], r)
      PROVE  \E j \in 1..Len(new) : i < j /\ Puts(new[j], r)
  <2>1. PICK j \in 1..Len(old) : i + 1 < j /\ Puts(old[j], r)
    BY <1>1, <1>3 DEF Up
  <2> QED BY <1>1, <1>2, <2>1
<1>4. ASSUME r \notin Heard(shown_p, Head(old)) PROVE \E j \in 1..Len(new) : Puts(new[j], r)
  <2>1. Clears(old[1], r) \/ (r \notin shown_p /\ ~Puts(old[1], r))
    BY <1>1, <1>4 DEF Heard, Puts, Clears, Envelopes, Messages, Welcomes
  <2>2. PICK j \in 1..Len(old) : j # 1 /\ Puts(old[j], r)
    BY <1>1, <2>1 DEF Up
  <2> QED BY <1>1, <1>2, <2>2
<1> QED BY <1>3, <1>4 DEF Up, new

LEMMA ToldOfAnswersHolds == TypeOK /\ ToldOfAnswers /\ [Next]_vars => ToldOfAnswers'
<1> SUFFICES ASSUME TypeOK, ToldOfAnswers, [Next]_vars, NEW p \in People, telling'[p] # Nothing
             PROVE  first'[telling'[p]] # "none"
  BY DEF ToldOfAnswers
<1> USE DEF ToldOfAnswers, TypeOK
<1>1. ASSUME NEW q \in People, Running(q) PROVE first'[telling'[p]] # "none"
  BY <1>1 DEF Running, AnnounceAsk, AnnounceAnswer, Broadcast, Connect, PendingKnocks, Welcome,
              Receive, Poll, Answered, roomVars, socketVars, lobbyVars
<1>2. ASSUME NEW q \in People, NEW r \in Requests, NEW answer \in Answers,
             ResolveKnock(q, r, answer)
      PROVE  first'[telling'[p]] # "none"
  BY <1>2 DEF ResolveKnock, Answers
<1>3. ASSUME NEW q \in People, Person(q),
             \A r \in Requests, answer \in Answers : ~ResolveKnock(q, r, answer)
      PROVE  first'[telling'[p]] # "none"
  BY <1>3 DEF Person, Ask, Enter, LeavePage, GiveUp, Drop, PollFails, socketVars
<1>4. CASE Sweep \/ Tick \/ Restart \/ UNCHANGED vars
  BY <1>4 DEF Sweep, Tick, Restart, vars, socketVars
<1> QED BY <1>1, <1>2, <1>3, <1>4 DEF Next

\* A broadcast about another request leaves r on the screens, and the request
\* itself puts it there; one being greeted is spoiled by either.
LEMMA BroadcastIsUp ==
  ASSUME TypeOK, NEW type \in {"request", "resolved"}, NEW q \in Requests, Broadcast(type, q),
         NEW p \in People, NEW r \in Requests, ~spoiled'[p], type = "resolved" => q # r,
         conn[p] = "in" => Up(box[p], shown[p], r) \/ (type = "request" /\ q = r)
  PROVE  /\ ~spoiled[p] /\ conn[p] # "greeting"
         /\ conn[p] = "in" => Up(box'[p], shown[p], r)
<1> DEFINE msg == [type |-> type, req |-> q]
<1>1. ~spoiled[p] /\ conn[p] # "greeting"
  BY DEF Broadcast, TypeOK
<1>2. msg \in Envelopes /\ ~Clears(msg, r) /\ (type = "request" /\ q = r => Puts(msg, r))
  BY DEF Envelopes, Messages, Puts, Clears
<1>3. box[p] \in Seq(Envelopes)
  BY DEF TypeOK, Envelopes
<1>4. conn[p] = "in" => box'[p] = Append(box[p], msg)
  BY DEF Broadcast
<1> HIDE DEF msg
<1> QED BY <1>1, <1>2, <1>3, <1>4, AppendIsUp

LEMMA WaitersHold ==
  TypeOK /\ Records /\ InTheLobby /\ ToldOfAnswers /\ Waiters /\ [Next]_vars => Waiters'
<1> SUFFICES ASSUME TypeOK, Records, InTheLobby, ToldOfAnswers, Waiters, [Next]_vars,
                    NEW r \in Requests, NEW p \in People,
                    status'[r] = "pending", Announced(r)', ~spoiled'[p]
             PROVE  /\ conn'[p] = "in" => Up(box'[p], shown'[p], r)
                    /\ conn'[p] = "greeting" => r \in snap'[p]
  BY DEF Waiters
<1> DEFINE Goal == /\ conn'[p] = "in" => Up(box'[p], shown'[p], r)
                   /\ conn'[p] = "greeting" => r \in snap'[p]
<1>0. status[r] = "pending" /\ Announced(r) /\ ~spoiled[p] =>
         /\ conn[p] = "in" => Up(box[p], shown[p], r)
         /\ conn[p] = "greeting" => r \in snap[p]
  BY DEF Waiters
<1>1. ASSUME status[r] = "pending" /\ Announced(r),
             UNCHANGED <<conn[p], box[p], shown[p], snap[p], spoiled[p]>> \/ conn'[p] = "out"
      PROVE  Goal
  BY <1>0, <1>1
<1>2. ASSUME status' \in {status, Swept}, \A q \in People : page[q] = "asking" =>
               page'[q] = "asking" /\ ticket'[q] = ticket[q]
      PROVE  status[r] = "pending" /\ Announced(r)
  <2>1. status[r] = "pending"
    BY <1>2 DEF Swept
  <2>2. Announced(r)
    BY <1>2 DEF Announced
  <2> QED BY <2>1, <2>2
<1>3. ASSUME NEW q \in People, AnnounceAsk(q) PROVE Goal
  <2>1. status[r] = "pending" /\ ticket[q] \in Requests /\ (Announced(r) \/ ticket[q] = r)
    <3>1. status[r] = "pending" /\ ticket[q] \in Requests
      BY <1>3 DEF AnnounceAsk, roomVars, TypeOK
    <3>2. ASSUME ticket[q] # r PROVE Announced(r)
      BY <1>3, <3>2 DEF AnnounceAsk, Announced, TypeOK
    <3> QED BY <3>1, <3>2
  <2>2. ~spoiled[p] /\ conn' = conn /\ shown' = shown
    BY <1>3 DEF AnnounceAsk, Broadcast, TypeOK
  <2> QED BY <1>0, <1>3, <2>1, <2>2, BroadcastIsUp DEF AnnounceAsk
<1>4. ASSUME NEW q \in People, AnnounceAnswer(q) PROVE Goal
  <2>1. status[r] = "pending" /\ Announced(r)
    BY <1>2, <1>4 DEF AnnounceAnswer, roomVars, lobbyVars
  <2>2. telling[q] \in Requests /\ telling[q] # r
    BY <1>4, <2>1 DEF AnnounceAnswer, ToldOfAnswers, Records, TypeOK, Nothing
  <2>3. ~spoiled[p] /\ conn' = conn /\ shown' = shown
    BY <1>4 DEF AnnounceAnswer, Broadcast, TypeOK
  <2> QED BY <1>0, <1>4, <2>1, <2>2, <2>3, BroadcastIsUp DEF AnnounceAnswer
<1>5. ASSUME NEW q \in People, Connect(q) PROVE Goal
  <2>1. status[r] = "pending" /\ Announced(r)
    BY <1>2, <1>5 DEF Connect, roomVars, lobbyVars
  <2> QED BY <1>0, <1>5, <2>1 DEF Connect, TypeOK
<1>6. ASSUME NEW q \in People, PendingKnocks(q) PROVE Goal
  <2>1. status[r] = "pending" /\ Announced(r) /\ Swept[r] = "pending"
    BY <1>2, <1>6 DEF PendingKnocks, lobbyVars
  <2>2. CASE q = p
    <3>1. conn'[p] = "greeting" /\ snap'[p] = {s \in Requests : Swept[s] = "pending"}
      BY <1>6, <2>2 DEF PendingKnocks, TypeOK
    <3> QED BY <2>1, <3>1
  <2>3. CASE q # p
    BY <1>1, <1>6, <2>1, <2>3 DEF PendingKnocks, TypeOK
  <2> QED BY <2>2, <2>3
<1>7. ASSUME NEW q \in People, Welcome(q) PROVE Goal
  <2>1. status[r] = "pending" /\ Announced(r)
    BY <1>2, <1>7 DEF Welcome, roomVars, lobbyVars
  <2>2. CASE q = p
    <3> DEFINE msg == [type |-> "welcome", reqs |-> snap[p]]
    <3>1. r \in snap[p]
      BY <1>0, <1>7, <2>1, <2>2 DEF Welcome
    <3>2. msg \in Envelopes /\ Puts(msg, r) /\ ~Clears(msg, r) /\ box[p] \in Seq(Envelopes)
      BY <3>1 DEF Envelopes, Welcomes, Puts, Clears, TypeOK
    <3>3. box'[p] = Append(box[p], msg) /\ shown' = shown /\ conn'[p] = "in"
      BY <1>7, <2>2 DEF Welcome, TypeOK
    <3> HIDE DEF msg
    <3> QED BY <3>2, <3>3, AppendIsUp
  <2>3. CASE q # p
    BY <1>1, <1>7, <2>1, <2>3 DEF Welcome, TypeOK
  <2> QED BY <2>2, <2>3
<1>8. ASSUME NEW q \in People, Receive(q) PROVE Goal
  <2>1. status[r] = "pending" /\ Announced(r)
    BY <1>2, <1>8 DEF Receive, roomVars, lobbyVars
  <2>2. CASE q = p
    <3>1. /\ box[p] \in Seq(Envelopes) /\ box[p] # <<>> /\ shown[p] \in SUBSET Requests
          /\ box'[p] = Tail(box[p]) /\ shown'[p] = Heard(shown[p], Head(box[p]))
      BY <1>8, <2>2 DEF Receive, TypeOK, Envelopes
    <3>2. ~spoiled[p] /\ conn'[p] = conn[p] /\ snap'[p] = snap[p]
      BY <1>8 DEF Receive
    <3> QED BY <1>0, <2>1, <3>1, <3>2, TailIsUp
  <2>3. CASE q # p
    BY <1>1, <1>8, <2>1, <2>3 DEF Receive, TypeOK
  <2> QED BY <2>2, <2>3
<1>9. ASSUME NEW q \in People, Poll(q) \/ Answered(q) PROVE Goal
  <2>1. status[r] = "pending" /\ Announced(r)
    <3>1. page[q] # "asking" \/ Poll(q)
      BY <1>9 DEF Answered, InTheLobby
    <3> QED BY <1>2, <1>9, <3>1 DEF Poll, Answered, roomVars, TypeOK
  <2> QED BY <1>1, <1>9, <2>1 DEF Poll, Answered, socketVars
<1>10. ASSUME NEW q \in People, Ask(q) PROVE Goal
  <2>1. status[r] = "pending" /\ Announced(r)
    <3>1. r # made + 1 /\ ticket' = [ticket EXCEPT ![q] = made + 1] /\ page[q] = "gate"
          /\ page' = [page EXCEPT ![q] = "asking"]
      BY <1>10 DEF Ask, Announced, TypeOK
    <3>2. status[r] = "pending"
      BY <1>10, <3>1 DEF Ask, Swept, TypeOK
    <3>3. Announced(r)
      BY <3>1 DEF Announced, TypeOK
    <3> QED BY <3>2, <3>3
  <2> QED BY <1>1, <1>10, <2>1 DEF Ask, socketVars
<1>11. ASSUME NEW q \in People, Enter(q) \/ GiveUp(q) \/ PollFails(q) PROVE Goal
  <2>1. status[r] = "pending" /\ Announced(r)
    BY <1>2, <1>11 DEF Enter, GiveUp, PollFails, roomVars, TypeOK
  <2> QED BY <1>1, <1>11, <2>1 DEF Enter, GiveUp, PollFails, socketVars
<1>12. ASSUME NEW q \in People, LeavePage(q) \/ Drop(q) PROVE Goal
  <2>1. status[r] = "pending" /\ Announced(r)
    BY <1>2, <1>12 DEF LeavePage, Drop, roomVars, lobbyVars, TypeOK
  <2> QED BY <1>1, <1>12, <2>1 DEF LeavePage, Drop, TypeOK
<1>13. ASSUME NEW q \in People, NEW s \in Requests, NEW answer \in Answers,
              ResolveKnock(q, s, answer)
       PROVE  Goal
  <2>1. status[r] = "pending" /\ Announced(r)
    <3>1. r # s
      BY <1>13 DEF ResolveKnock, Answers, TypeOK
    <3> QED BY <1>13, <3>1 DEF ResolveKnock, Announced, lobbyVars, TypeOK
  <2> QED BY <1>0, <1>13, <2>1 DEF ResolveKnock
<1>14. CASE Sweep \/ Tick \/ UNCHANGED vars
  <2>1. status[r] = "pending" /\ Announced(r)
    BY <1>2, <1>14 DEF Sweep, Tick, vars, roomVars, lobbyVars
  <2> QED BY <1>1, <1>14, <2>1 DEF Sweep, Tick, vars, socketVars
<1>15. CASE Restart
  BY <1>15 DEF Restart
<1> QED BY <1>3, <1>4, <1>5, <1>6, <1>7, <1>8, <1>9, <1>10, <1>11, <1>12, <1>13, <1>14, <1>15
        DEF Next, Running, Person

\* Nobody waits behind a door that no one is shown: however requests, answers,
\* welcomes and sweeps cross, a request that was announced and still waits is on
\* the screen of everyone inside whose browser has caught up.
THEOREM WaitersGetThrough == Spec => []WaitersAreShown
<1>1. Init => ToldOfAnswers /\ Waiters
  BY DEF Init, ToldOfAnswers, Waiters
<1>2. Inv /\ ToldOfAnswers /\ Waiters /\ [Next]_vars => (ToldOfAnswers /\ Waiters)'
  BY ToldOfAnswersHolds, WaitersHold DEF Inv
<1>3. Inv /\ Waiters => WaitersAreShown
  <2> SUFFICES ASSUME Inv, Waiters, NEW r \in Requests, NEW p \in People,
                      status[r] = "pending", Announced(r), UpToDate(p), r \notin shown[p]
               PROVE  FALSE
    BY DEF WaitersAreShown, Waiting
  <2>1. Up(box[p], shown[p], r) /\ Len(box[p]) = 0
    BY DEF UpToDate, Waiters
  <2> QED BY <2>1 DEF Up
<1> QED BY <1>1, <1>2, <1>3, InvHolds, PTL DEF Spec

-----------------------------------------------------------------------------
(* Lobbies.  A lobby asks at least once in a unit of time, and an approval   *)
(* outlives the request by two of them.                                      *)

\* Refused, and not by mistake.
Over(r) == status[r] \in {"denied", "gone"} /\ (first[r] = "approved" => restarts > 0)

\* A request that waits has not been swept for longer than one unit of time.
Clocks ==
  \A r \in Requests :
    /\ status[r] = "none" => age[r] = 0
    /\ status[r] = "pending" => age[r] <= KnockTTL + 1
    /\ r <= made => status[r] # "none"

\* The request of an open lobby where no poll failed: what it was told is so, an approval is not
\* swept before the lobby has heard of it, and an answer under way is at most
\* one unit of time old.
Hearing(p, r) == denied[p] # "guessed" =>
  /\ denied[p] = "told" \/ reply[p] \in {"denied", "gone"} => Over(r)
  /\ reply[p] # "approved" /\ status[r] = "gone" /\ first[r] = "approved" => restarts > 0
  /\ reply[p] # "approved" /\ status[r] = "approved" =>
       \/ age[r] <= KnockTTL + 1
       \/ age[r] <= KnockTTL + 2 /\ ~polled[p] /\ reply[p] = "none"
  /\ reply[p] = "pending" =>
       \/ age[r] <= KnockTTL
       \/ age[r] <= KnockTTL + 1 /\ ~polled[p]

Lobbies ==
  \A p \in People :
    /\ ticket[p] <= made
    /\ page[p] = "asking" => age[ticket[p]] = 0 /\ status[ticket[p]] \in {"pending"} \cup Answers
    /\ page[p] # "lobby" => denied[p] = "no"
    /\ page[p] = "lobby" => Hearing(p, ticket[p])

Knows == Clocks /\ Lobbies

LEMMA TicketIsARequest ==
  ASSUME TypeOK, NEW p \in People, page[p] \in {"asking", "lobby"}
  PROVE  ticket[p] \in Requests
BY DEF TypeOK

\* A sweep does not take what a lobby has yet to hear.
LEMMA SweptIsHeard ==
  ASSUME TypeOK, Records, NEW p \in People, NEW r \in Requests, Hearing(p, r),
         status'[r] = Swept[r], first'[r] = first[r], age'[r] = age[r], restarts' = restarts,
         denied'[p] = denied[p], reply'[p] = reply[p], polled'[p] = polled[p]
  PROVE  Hearing(p, r)'
<1>1. CASE r \notin Stale
  <2>1. status'[r] = status[r]
    BY <1>1 DEF Swept
  <2> QED BY <2>1 DEF Hearing, Over
<1>2. CASE r \in Stale
  <2>1. status'[r] = "gone" /\ (status[r] = "approved" => age[r] > KnockTTL + 2)
    BY <1>2, KnockAssumption DEF KnockAssumption, Swept, Stale, Waiting, Decided, TypeOK
  <2>2. status[r] = "approved" => (reply[p] = "approved" \/ denied[p] = "guessed")
    BY <2>1, KnockAssumption DEF KnockAssumption, Hearing, Over, TypeOK, Requests
  <2>3. status[r] \in {"pending", "denied"} => first[r] # "approved"
    BY DEF Records, Answers
  <2>4. status[r] \in {"pending", "approved", "denied"}
    BY <1>2 DEF Stale, Waiting, Decided, Answers
  <2> QED BY <2>1, <2>2, <2>3, <2>4 DEF Hearing, Over
<1> QED BY <1>1, <1>2

LEMMA SweptIsTimely ==
  ASSUME TypeOK, Clocks, status' = Swept, UNCHANGED <<age, made>>
  PROVE  Clocks'
BY DEF Clocks, Swept, Stale, Waiting, Decided, Answers

\* What a sweep does to every lobby at once.
LEMMA SweptIsKnown ==
  ASSUME TypeOK, Records, Lobbies, status' = Swept,
         UNCHANGED <<age, made, first, restarts, page, ticket, denied, reply, polled>>
  PROVE  Lobbies'
<1> SUFFICES ASSUME NEW p \in People
    PROVE  /\ ticket'[p] <= made'
           /\ page'[p] = "asking" => /\ age'[ticket'[p]] = 0
                                     /\ status'[ticket'[p]] \in {"pending"} \cup Answers
           /\ page'[p] # "lobby" => denied'[p] = "no"
           /\ page'[p] = "lobby" => Hearing(p, ticket[p])'
  BY DEF Lobbies
<1>1. page[p] = "asking" => ticket[p] \notin Stale /\ status'[ticket[p]] = status[ticket[p]]
  BY TicketIsARequest, KnockAssumption DEF KnockAssumption, Lobbies, Swept, Stale, Waiting, Decided
<1>2. page[p] = "lobby" => Hearing(p, ticket[p])'
  BY TicketIsARequest, SweptIsHeard DEF Lobbies
<1> QED BY <1>1, <1>2 DEF Lobbies

LEMMA ClocksHold == TypeOK /\ Records /\ Clocks /\ [Next]_vars => Clocks'
<1> SUFFICES ASSUME TypeOK, Records, Clocks, [Next]_vars PROVE Clocks'
  OBVIOUS
<1> USE KnockAssumption DEF KnockAssumption
<1>1. CASE UNCHANGED <<status, age, made>>
  BY <1>1 DEF Clocks
<1>2. CASE status' = Swept /\ UNCHANGED <<age, made>>
  BY <1>2, SweptIsTimely
<1>3. ASSUME NEW p \in People, Ask(p) PROVE Clocks'
  <2>1. made + 1 \in Requests /\ made' = made + 1 /\ age' = age /\ made \in Nat
    BY <1>3 DEF Ask, TypeOK, Requests
  <2>2. \A r \in Requests : IF r = made + 1 THEN status'[r] = "pending" ELSE status'[r] = Swept[r]
    BY <1>3, <2>1 DEF Ask, Swept
  <2>3. \A r \in Requests : (Swept[r] = "none" => status[r] = "none") /\ (Swept[r] = "pending" => status[r] = "pending")
                            /\ (status[r] # "none" => Swept[r] # "none")
    BY DEF Swept, Stale, Waiting, Decided, Answers
  <2>4. age[made + 1] = 0
    BY <2>1 DEF Records, Clocks
  <2>5. \A r \in Requests : r <= made' => r = made + 1 \/ r <= made
    BY <2>1 DEF Requests
  <2> SUFFICES ASSUME NEW r \in Requests
               PROVE  /\ status'[r] = "none" => age'[r] = 0
                      /\ status'[r] = "pending" => age'[r] <= KnockTTL + 1
                      /\ r <= made' => status'[r] # "none"
    BY DEF Clocks
  <2>6. CASE r = made + 1
    BY <2>1, <2>2, <2>4, <2>6
  <2>7. CASE r # made + 1
    BY <2>1, <2>2, <2>3, <2>5, <2>7 DEF Clocks
  <2> QED BY <2>6, <2>7
<1>4. ASSUME NEW p \in People, NEW r \in Requests, NEW answer \in Answers, ResolveKnock(p, r, answer)
      PROVE  Clocks'
  BY <1>4 DEF ResolveKnock, Clocks, TypeOK, Answers
<1>5. CASE Tick
  <2>1. \A r \in Requests : /\ status[r] = "none" => age'[r] = 0
                            /\ status[r] = "pending" => age'[r] <= KnockTTL + 1
    <3> TAKE r \in Requests
    <3>1. r \in Waiting => age[r] <= KnockTTL
      BY <1>5 DEF Tick, Stale, TypeOK
    <3> QED BY <1>5, <3>1 DEF Tick, Waiting, Decided, Answers, Older, TypeOK
  <2>2. status' = status /\ made' = made
    BY <1>5 DEF Tick
  <2> QED BY <2>1, <2>2 DEF Clocks
<1>6. CASE Restart
  BY <1>6 DEF Restart, Clocks
<1>7. ASSUME NEW p \in People, Running(p)
      PROVE  UNCHANGED <<status, age, made>> \/ (status' = Swept /\ UNCHANGED <<age, made>>)
  BY <1>7 DEF Running, AnnounceAsk, AnnounceAnswer, Connect, PendingKnocks, Welcome, Receive, Poll,
              Answered, roomVars
<1>8. ASSUME NEW p \in People, Person(p)
      PROVE  \/ UNCHANGED <<status, age, made>> \/ Ask(p)
             \/ \E r \in Requests, answer \in Answers : ResolveKnock(p, r, answer)
  BY <1>8 DEF Person, Enter, LeavePage, GiveUp, Drop, PollFails, roomVars
<1> QED BY <1>1, <1>2, <1>3, <1>4, <1>5, <1>6, <1>7, <1>8 DEF Next, Sweep, vars, roomVars

LEMMA LobbiesHold ==
  TypeOK /\ Records /\ InTheLobby /\ Knows /\ [Next]_vars => Lobbies'
<1> SUFFICES ASSUME TypeOK, Records, InTheLobby, Clocks, Lobbies, [Next]_vars PROVE Lobbies'
  BY DEF Knows
<1> USE KnockAssumption DEF KnockAssumption
<1> DEFINE Door(p) == /\ ticket[p] <= made
                      /\ page[p] = "asking" => /\ age[ticket[p]] = 0
                                               /\ status[ticket[p]] \in {"pending"} \cup Answers
                      /\ page[p] # "lobby" => denied[p] = "no"
                      /\ page[p] = "lobby" => Hearing(p, ticket[p])
<1>1. CASE UNCHANGED <<status, age, made, restarts, first, lobbyVars>>
  BY <1>1 DEF Lobbies, Hearing, Over, lobbyVars
<1>2. CASE status' = Swept /\ UNCHANGED <<age, made, restarts, first, lobbyVars>>
  BY <1>2, SweptIsKnown DEF lobbyVars
<1>3. ASSUME NEW q \in People, Ask(q) PROVE Lobbies'
  <2> SUFFICES ASSUME NEW p \in People PROVE Door(p)'
    BY DEF Lobbies
  <2>1. /\ made' = made + 1 /\ made \in Nat /\ made + 1 \in Requests
        /\ status'[made + 1] = "pending" /\ \A r \in Requests : r # made + 1 => status'[r] = Swept[r]
        /\ UNCHANGED <<age, restarts, first, denied, reply, polled>>
    BY <1>3 DEF Ask, TypeOK, Requests, Swept
  <2>2. CASE p = q
    <3>1. page'[p] = "asking" /\ ticket'[p] = made + 1 /\ denied[p] = "no"
      BY <1>3, <2>2 DEF Ask, TypeOK, Lobbies
    <3>2. status[made + 1] = "none" /\ age[made + 1] = 0
      BY <2>1 DEF Records, Clocks
    <3> QED BY <2>1, <3>1, <3>2
  <2>3. CASE p # q
    <3>0. page'[p] = page[p] /\ ticket'[p] = ticket[p]
      BY <1>3, <2>3 DEF Ask, TypeOK
    <3>1. page'[p] = page[p] /\ ticket'[p] = ticket[p] /\ ticket[p] <= made /\ ticket'[p] <= made'
      <4>1. ticket[p] \in Nat
        BY DEF TypeOK, Requests, Nothing
      <4>2. ticket[p] <= made
        BY DEF Lobbies
      <4> QED BY <2>1, <3>0, <4>1, <4>2
    <3>2. CASE page[p] = "asking"
      <4>1. ticket[p] \in Requests /\ ticket[p] # made + 1 /\ ticket[p] \notin Stale
        BY <2>1, <3>1, <3>2, TicketIsARequest DEF Lobbies, Stale, Waiting, Decided, Requests
      <4> QED BY <2>1, <3>1, <3>2, <4>1 DEF Lobbies, Swept
    <3>3. CASE page[p] = "lobby"
      <4>1. ticket[p] \in Requests /\ ticket[p] # made + 1 /\ Hearing(p, ticket[p])
        BY <2>1, <3>1, <3>3, TicketIsARequest DEF Lobbies, Requests
      <4>2. Hearing(p, ticket[p])'
        BY <2>1, <3>1, <4>1, SweptIsHeard
      <4> QED BY <2>1, <3>1, <3>3, <4>2
    <3>4. CASE page[p] \notin {"asking", "lobby"}
      BY <2>1, <3>1, <3>4 DEF Lobbies
    <3> QED BY <3>2, <3>3, <3>4
  <2> QED BY <2>2, <2>3
<1>4. ASSUME NEW q \in People, AnnounceAsk(q) PROVE Lobbies'
  <2> SUFFICES ASSUME NEW p \in People PROVE Door(p)'
    BY DEF Lobbies
  <2>1. UNCHANGED <<status, age, made, restarts, first, ticket, denied, reply, polled>>
    BY <1>4 DEF AnnounceAsk, roomVars
  <2>2. CASE p = q
    <3>1. page[p] = "asking" /\ page'[p] = "lobby" /\ reply[p] = "none" /\ denied[p] = "no"
      BY <1>4, <2>2 DEF AnnounceAsk, TypeOK, InTheLobby, Lobbies
    <3> QED BY <2>1, <3>1 DEF Lobbies, Hearing, Over, Answers
  <2>3. CASE p # q
    <3>1. page'[p] = page[p]
      BY <1>4, <2>3 DEF AnnounceAsk, TypeOK
    <3> QED BY <2>1, <3>1 DEF Lobbies, Hearing, Over
  <2> QED BY <2>2, <2>3
<1>5. ASSUME NEW q \in People, NEW s \in Requests, NEW answer \in Answers, ResolveKnock(q, s, answer)
      PROVE  Lobbies'
  <2> SUFFICES ASSUME NEW p \in People PROVE Door(p)'
    BY DEF Lobbies
  <2>1. /\ UNCHANGED <<age, made, restarts, lobbyVars>>
        /\ status[s] = "pending" /\ status'[s] = answer /\ age[s] <= KnockTTL + 1
        /\ \A r \in Requests : r # s => status'[r] = status[r] /\ first'[r] = first[r]
    BY <1>5 DEF ResolveKnock, TypeOK, Clocks
  <2>2. CASE ticket[p] = s /\ page[p] = "lobby"
    <3>1. status'[s] \in Answers /\ status[s] = "pending"
      BY <2>1
    <3>2. Hearing(p, s)
      BY <2>2 DEF Lobbies
    <3>3. denied[p] = "guessed" \/ (denied[p] # "told" /\ reply[p] \notin {"denied", "gone"})
      BY <3>1, <3>2 DEF Hearing, Over
    <3> QED BY <2>1, <2>2, <3>1, <3>2, <3>3 DEF Lobbies, Hearing, Over, lobbyVars, Answers
  <2>3. CASE ticket[p] # s \/ page[p] # "lobby"
    BY <2>1, <2>3, TicketIsARequest DEF Lobbies, Hearing, Over, lobbyVars
  <2> QED BY <2>2, <2>3
<1>6. ASSUME NEW q \in People, Poll(q) PROVE Lobbies'
  <2> SUFFICES ASSUME NEW p \in People PROVE Door(p)'
    BY DEF Lobbies
  <2>1. status' = Swept /\ UNCHANGED <<age, made, restarts, first, page, ticket, denied, polled>>
    BY <1>6 DEF Poll
  <2>2. CASE p = q /\ denied[p] # "guessed"
    <3> DEFINE r == ticket[p]
    <3>1. page[p] = "lobby" /\ reply[p] = "none" /\ reply'[p] = Swept[r] /\ r \in Requests
      BY <1>6, <2>2, TicketIsARequest DEF Poll, TypeOK
    <3>2. Hearing(p, r) /\ r <= made /\ status[r] # "none"
      BY <3>1 DEF Lobbies, Clocks
    <3>3. status[r] \in {"pending", "denied"} => first[r] # "approved"
      BY <3>1 DEF Records, Answers
    <3>4. CASE r \in Stale
      <4>1. status[r] = "approved" => age[r] > KnockTTL + 2
        BY <3>1, <3>4 DEF Stale, Waiting, Decided, TypeOK
      <4>2. status[r] \in {"pending", "denied"} /\ Swept[r] = "gone"
        BY <2>2, <3>1, <3>2, <3>4, <4>1 DEF Hearing, Swept, Stale, Waiting, Decided, Answers, TypeOK
      <4> QED BY <2>1, <3>1, <3>2, <3>3, <4>2 DEF Hearing, Over
    <3>5. CASE r \notin Stale
      <4>1. Swept[r] = status[r] /\ (status[r] = "pending" => age[r] <= KnockTTL)
        BY <3>1, <3>5 DEF Swept, Stale, Waiting, TypeOK
      <4> QED BY <2>1, <3>1, <3>2, <3>3, <4>1 DEF Hearing, Over, TypeOK, Statuses
    <3> QED BY <3>4, <3>5
  <2>3. CASE p # q
    <3>1. reply'[p] = reply[p]
      BY <1>6, <2>3 DEF Poll, TypeOK
    <3>2. page[p] = "asking" => ticket[p] \notin Stale
      BY TicketIsARequest DEF Lobbies, Stale, Waiting, Decided
    <3>3. page[p] = "lobby" => Hearing(p, ticket[p])'
      BY <2>1, <3>1, TicketIsARequest, SweptIsHeard DEF Lobbies
    <3> QED BY <2>1, <3>1, <3>2, <3>3, TicketIsARequest DEF Lobbies, Swept
  <2>4. CASE p = q /\ denied[p] = "guessed"
    BY <1>6, <2>1, <2>4 DEF Poll, Lobbies, Hearing
  <2> QED BY <2>2, <2>3, <2>4
<1>7. ASSUME NEW q \in People, Answered(q) PROVE Lobbies'
  <2> SUFFICES ASSUME NEW p \in People PROVE Door(p)'
    BY DEF Lobbies
  <2>1. UNCHANGED <<status, age, made, restarts, first, ticket>>
    BY <1>7 DEF Answered, roomVars
  <2>2. CASE p = q
    <3>1. page[p] = "lobby" /\ Hearing(p, ticket[p]) /\ reply'[p] = "none"
      BY <1>7, <2>2 DEF Answered, TypeOK, InTheLobby, Lobbies
    <3>2. CASE reply[p] = "approved"
      <4>1. page'[p] = "room" /\ denied'[p] = "no"
        BY <1>7, <2>2, <3>2 DEF Answered, TypeOK
      <4> QED BY <2>1, <4>1 DEF Lobbies
    <3>3. CASE reply[p] \in {"pending", "denied", "gone"}
      <4>1. page'[p] = "lobby" /\ polled'[p] = TRUE
            /\ denied'[p] = IF reply[p] = "pending" THEN denied[p] ELSE Refused(denied[p], "told")
        BY <1>7, <2>2, <3>1, <3>3 DEF Answered, TypeOK
      <4>2. denied[p] \in {"no", "told", "guessed"}
        BY DEF TypeOK, Refusals
      <4> QED BY <2>1, <3>1, <3>3, <4>1, <4>2 DEF Lobbies, Hearing, Over, Refused
    <3> QED BY <1>7, <2>2, <3>2, <3>3 DEF Answered, TypeOK, Statuses
  <2>3. CASE p # q
    <3>1. page'[p] = page[p] /\ denied'[p] = denied[p] /\ reply'[p] = reply[p] /\ polled'[p] = polled[p]
      BY <1>7, <2>3 DEF Answered, TypeOK
    <3> QED BY <2>1, <3>1 DEF Lobbies, Hearing, Over
  <2> QED BY <2>2, <2>3
<1>8. ASSUME NEW q \in People, Enter(q) \/ LeavePage(q) \/ GiveUp(q) PROVE Lobbies'
  <2> SUFFICES ASSUME NEW p \in People PROVE Door(p)'
    BY DEF Lobbies
  <2>1. UNCHANGED <<status, age, made, restarts, first>> /\ made \in Nat
    BY <1>8 DEF Enter, LeavePage, GiveUp, roomVars, TypeOK
  <2>2. CASE p = q
    <3>1. page'[p] \in {"gate", "room"} /\ ticket'[p] = 0 /\ denied'[p] = "no"
      BY <1>8, <2>2 DEF Enter, LeavePage, GiveUp, TypeOK, Lobbies, Password, Nothing
    <3> QED BY <2>1, <3>1
  <2>3. CASE p # q
    <3>1. /\ page'[p] = page[p] /\ ticket'[p] = ticket[p] /\ denied'[p] = denied[p]
          /\ reply'[p] = reply[p] /\ polled'[p] = polled[p]
      BY <1>8, <2>3 DEF Enter, LeavePage, GiveUp, TypeOK
    <3> QED BY <2>1, <3>1 DEF Lobbies, Hearing, Over
  <2> QED BY <2>2, <2>3
<1>9. CASE Tick
  <2> SUFFICES ASSUME NEW p \in People PROVE Door(p)'
    BY DEF Lobbies
  <2>1. /\ UNCHANGED <<status, made, restarts, first, page, ticket, denied, reply>>
        /\ page[p] # "asking" /\ (page[p] = "lobby" => polled[p]) /\ polled'[p] = FALSE
    BY <1>9 DEF Tick
  <2>2. CASE page[p] = "lobby" /\ denied[p] # "guessed"
    <3>1. PICK r \in Requests : r = ticket[p] /\ Hearing(p, r) /\ polled[p]
      BY <2>1, <2>2, TicketIsARequest DEF Lobbies
    <3>2. age[r] \in Nat /\ (age'[r] = 0 \/ age'[r] <= age[r] + 1)
      BY <1>9, <3>1 DEF Tick, Older, TypeOK
    <3>3. /\ reply[p] # "approved" /\ status[r] = "approved" =>
               age[r] <= KnockTTL + 1 /\ (reply[p] = "pending" => age[r] <= KnockTTL)
                 /\ reply[p] \notin {"denied", "gone"}
          /\ reply[p] = "pending" => age[r] <= KnockTTL
      BY <2>2, <3>1 DEF Hearing, Over
    <3>4. age'[r] \in Nat
      BY <1>9, <3>1, OlderIsBounded DEF Tick, TypeOK
    <3>5. Hearing(p, r)'
      <4>1. /\ status'[r] = status[r] /\ first'[r] = first[r] /\ restarts' = restarts
            /\ denied'[p] = denied[p] /\ reply'[p] = reply[p] /\ ~polled'[p]
        BY <2>1
      <4>2. reply[p] # "approved" /\ status[r] = "approved" =>
              age'[r] <= KnockTTL + 1 \/ (age'[r] <= KnockTTL + 2 /\ reply[p] = "none")
        BY <3>2, <3>3, <3>4 DEF TypeOK, Statuses
      <4>3. reply[p] = "pending" => age'[r] <= KnockTTL + 1
        BY <3>2, <3>3, <3>4
      <4> QED BY <3>1, <4>1, <4>2, <4>3 DEF Hearing, Over
    <3> QED BY <2>1, <2>2, <3>1, <3>5 DEF Lobbies
  <2>3. CASE page[p] # "lobby"
    BY <2>1, <2>3 DEF Lobbies
  <2>4. CASE page[p] = "lobby" /\ denied[p] = "guessed"
    BY <2>1, <2>4 DEF Lobbies, Hearing
  <2> QED BY <2>2, <2>3, <2>4
<1>10. CASE Restart
  <2> SUFFICES ASSUME NEW p \in People PROVE Door(p)'
    BY DEF Lobbies
  <2>1. /\ UNCHANGED <<age, made, first, denied, reply, polled>> /\ restarts' > 0
        /\ \A r \in Requests : status[r] # "none" => status'[r] = "gone"
    BY <1>10 DEF Restart, TypeOK
  <2>2. CASE page[p] = "lobby"
    <3>1. /\ page'[p] = "lobby" /\ ticket'[p] = ticket[p] /\ ticket[p] \in Requests
          /\ ticket[p] <= made /\ status'[ticket[p]] = "gone"
      BY <1>10, <2>1, <2>2, TicketIsARequest DEF Restart, Lobbies, Clocks
    <3> QED BY <2>1, <2>2, <3>1 DEF Lobbies, Hearing, Over
  <2>3. CASE page[p] # "lobby"
    BY <1>10, <2>1, <2>3 DEF Restart, Lobbies, TypeOK, Nothing
  <2> QED BY <2>2, <2>3
<1>11. ASSUME NEW q \in People, Running(q)
       PROVE  \/ UNCHANGED <<status, age, made, restarts, first, lobbyVars>>
              \/ status' = Swept /\ UNCHANGED <<age, made, restarts, first, lobbyVars>>
              \/ AnnounceAsk(q) \/ Poll(q) \/ Answered(q)
  BY <1>11 DEF Running, AnnounceAnswer, Connect, PendingKnocks, Welcome, Receive, roomVars
<1>12. ASSUME NEW q \in People, Person(q)
       PROVE  \/ UNCHANGED <<status, age, made, restarts, first, lobbyVars>>
              \/ Ask(q) \/ Enter(q) \/ LeavePage(q) \/ GiveUp(q) \/ PollFails(q)
              \/ \E r \in Requests, answer \in Answers : ResolveKnock(q, r, answer)
  BY <1>12 DEF Person, Drop, roomVars
<1>13. ASSUME NEW q \in People, PollFails(q) PROVE Lobbies'
  <2> SUFFICES ASSUME NEW p \in People PROVE Door(p)'
    BY DEF Lobbies
  <2>1. UNCHANGED <<status, age, made, restarts, first, page, ticket, reply>>
    BY <1>13 DEF PollFails, roomVars
  <2>2. CASE p = q
    <3>1. page[p] = "lobby" /\ denied'[p] \in {"guessed", "told"} /\ reply[p] = "none"
          /\ (denied'[p] = "told" => denied[p] = "told")
      BY <1>13, <2>2 DEF PollFails, Refused, TypeOK, Refusals
    <3> QED BY <2>1, <3>1 DEF Lobbies, Hearing, Over
  <2>3. CASE p # q
    <3>1. denied'[p] = denied[p] /\ polled'[p] = polled[p]
      BY <1>13, <2>3 DEF PollFails, TypeOK
    <3> QED BY <2>1, <3>1 DEF Lobbies, Hearing, Over
  <2> QED BY <2>2, <2>3
<1> QED BY <1>1, <1>2, <1>3, <1>4, <1>5, <1>6, <1>7, <1>8, <1>9, <1>10, <1>11, <1>12, <1>13
        DEF Next, Sweep, vars, roomVars, lobbyVars

\* A refusal can be believed whatever the two lives are, as long as a token's is
\* two units longer than a request's: when a lobby was told no, before any of its
\* polls failed, the request waits no more, and nobody had said yes before a restart.
THEOREM RefusalIsTrue == Spec => []DeniedMeansOver
<1>1. Init => Knows
  BY KnockAssumption DEF KnockAssumption, Init, Knows, Clocks, Lobbies, Requests, Nothing
<1>2. Inv /\ Knows /\ [Next]_vars => Knows'
  BY ClocksHold, LobbiesHold DEF Inv, Knows
<1>3. Inv /\ Knows => DeniedMeansOver
  BY DEF Knows, Lobbies, Hearing, Over, DeniedMeansOver
<1> QED BY <1>1, <1>2, <1>3, InvHolds, PTL DEF Spec


-----------------------------------------------------------------------------
(* The tab that shares.  A capture begins only while the picker is in front  *)
(* of the person, and it comes to be there only once nothing is captured:    *)
(* handshakes, retries and recoveries touch neither.                         *)

TabFields == {"starting", "source", "local", "next", "live", "pubs", "publisher", "pending", "new",
              "retried", "left"}

\* In the room, what is captured is what the person can stop, and nothing is
\* captured behind the picker.
Held(t) ==
  /\ DOMAIN t = TabFields /\ P!None \notin t.live /\ t.next \in Nat \ {P!None}
  /\ ~t.left => t.live \subseteq {t.local}
  /\ ~t.left /\ t.starting = "picker" => t.local = P!None

\* What a handshake leaves alone.
SameCapture(t, u) ==
  /\ DOMAIN u = DOMAIN t
  /\ u.live = t.live /\ u.local = t.local /\ u.next = t.next /\ u.left = t.left
  /\ u.starting = "picker" => t.starting = "picker"

LEMMA SameCaptureIsHeld == ASSUME NEW t, NEW u, Held(t), SameCapture(t, u) PROVE Held(u)
BY DEF Held, SameCapture

LEMMA SameCaptureTwice ==
  ASSUME NEW s, NEW t, NEW u, SameCapture(s, t), SameCapture(t, u) PROVE SameCapture(s, u)
BY DEF SameCapture

LEMMA PublisherCloses == ASSUME NEW t, DOMAIN t = TabFields, NEW v PROVE SameCapture(t, P!Closed(t, v))
BY DEF P!Closed, SameCapture, TabFields

LEMMA PublisherBegins ==
  ASSUME NEW t, DOMAIN t = TabFields, NEW c, NEW attempt, NEW by
  PROVE  SameCapture(t, P!AttemptPublish(t, c, attempt, by))
BY DEF P!AttemptPublish, SameCapture, TabFields

LEMMA PublishStreamKeeps ==
  ASSUME NEW t, DOMAIN t = TabFields, NEW by PROVE SameCapture(t, P!PublishStream(t, by))
<1>1. SameCapture(t, P!Closed(t, t.publisher)) /\ DOMAIN P!Closed(t, t.publisher) = TabFields
  BY PublisherCloses DEF SameCapture
<1>2. SameCapture(P!Closed(t, t.publisher), P!PublishStream(t, by))
  BY <1>1, PublisherBegins DEF P!PublishStream
<1> QED BY <1>1, <1>2, SameCaptureTwice

LEMMA FailureKeeps ==
  ASSUME NEW t, DOMAIN t = TabFields, NEW v, NEW retryable
  PROVE  SameCapture(t, P!Failed(t, v, retryable))
<1> DEFINE u == P!Closed(t, v)
<1>1. SameCapture(t, u) /\ DOMAIN u = TabFields
  BY PublisherCloses DEF SameCapture
<1> HIDE DEF u
<1>2. \A s : SameCapture(u, [u EXCEPT !.pubs[v].step = s])
  BY <1>1 DEF SameCapture, TabFields
<1>3. \A w : SameCapture(u, w) => SameCapture(u, [w EXCEPT !.starting = "idle"])
  BY <1>1 DEF SameCapture, TabFields
<1>4. SameCapture(u, P!Failed(t, v, retryable))
  BY <1>2, <1>3 DEF P!Failed, u
<1> QED BY <1>1, <1>4, SameCaptureTwice

LEMMA AnswerKeeps ==
  ASSUME NEW t, DOMAIN t = TabFields, NEW seq PROVE SameCapture(t, P!Answered(t, seq))
<1> DEFINE taken == [t EXCEPT !.pending = P!None]
<1>1. SameCapture(t, taken) /\ DOMAIN taken = TabFields
  BY DEF SameCapture, TabFields
<1> HIDE DEF taken
<1>2. SameCapture(taken, P!Failed(taken, t.pending, FALSE))
  BY <1>1, FailureKeeps
<1>3. \A s : s # "picker" \/ s = taken.starting =>
        SameCapture(taken, [taken EXCEPT !.pubs[t.pending].step = "up", !.starting = s])
  BY <1>1 DEF SameCapture, TabFields
<1>4. SameCapture(taken, [taken EXCEPT !.pubs[t.pending].step = "up",
                                       !.starting = IF t.pubs[t.pending].by = "start" THEN "idle" ELSE @])
  BY <1>1 DEF SameCapture, TabFields
<1>5. P!Answered(t, seq) = t \/ SameCapture(taken, P!Answered(t, seq))
  BY <1>2, <1>4 DEF P!Answered, taken
<1>6. SameCapture(t, t)
  BY DEF SameCapture
<1> QED BY <1>1, <1>5, <1>6, SameCaptureTwice

\* stopSharing ends the one capture there may be.
LEMMA StopEndsCapture ==
  ASSUME NEW t, DOMAIN t = TabFields
  PROVE  LET u == P!StopSharing(t) IN
         /\ DOMAIN u = TabFields /\ u.live = t.live \ {t.local} /\ u.local = P!None
         /\ u.next = t.next /\ u.left = t.left /\ u.starting = t.starting
<1> DEFINE c == P!Closed(t, t.publisher)
<1>1. DOMAIN c = TabFields /\ c.live = t.live /\ c.next = t.next /\ c.left = t.left
      /\ c.starting = t.starting
  BY DEF P!Closed, TabFields
<1> HIDE DEF c
<1> QED BY <1>1 DEF P!StopSharing, c, TabFields

LEMMA SharingIsHeld == Held(tab) /\ [P!Next]_(P!vars) => Held(tab)'
<1> SUFFICES ASSUME Held(tab), [P!Next]_(P!vars) PROVE Held(tab')
  BY DEF Held
<1>1. DOMAIN tab = TabFields
  BY DEF Held
<1>2. CASE UNCHANGED tab
  BY <1>2
<1>3. CASE P!ReadLoop \/ P!Disconnect \/ P!Reconnect
  BY <1>2, <1>3 DEF P!ReadLoop, P!Disconnect, P!Reconnect
<1>4. ASSUME NEW key \in Keys, P!ConfirmShare(key) PROVE Held(tab')
  <2>1. \A t : DOMAIN t = TabFields /\ P!None \notin t.live /\ t.next \in Nat \ {P!None} /\ t.local = P!None
               /\ (~t.left => t.live \subseteq {P!None}) => Held(P!StartSharing(t, key))
    BY DEF P!StartSharing, Held, TabFields
  <2>2. CASE tab.local = P!None /\ tab' = P!StartSharing(tab, key)
    BY <2>1, <2>2 DEF Held
  <2>3. CASE ~tab.left /\ tab' = P!StartSharing(P!StopSharing(tab), key)
    BY <1>1, <2>1, <2>3, StopEndsCapture DEF Held
  <2> QED BY <1>4, <2>2, <2>3 DEF P!ConfirmShare
<1>5. CASE P!PickerDismissed
  BY <1>1, <1>5 DEF P!PickerDismissed, Held, TabFields
<1>6. CASE P!Captured
  <2> DEFINE c == tab.next
             t == [tab EXCEPT !.starting = "handshake", !.local = c, !.next = c + 1,
                              !.live = @ \cup {c}]
  <2>1. Held(t)
    BY <1>1, <1>6 DEF P!Captured, Held, TabFields, P!None
  <2>2. tab' = P!PublishStream(t, "start")
    BY <1>6 DEF P!Captured
  <2> HIDE DEF t
  <2> QED BY <2>1, <2>2, PublishStreamKeeps, SameCaptureIsHeld DEF Held
<1>7. CASE P!ClickStop
  BY <1>1, <1>7, StopEndsCapture DEF P!ClickStop, Held
<1>8. CASE P!Leave
  BY <1>1, <1>8, PublisherCloses DEF P!Leave, Held, TabFields, SameCapture
<1>9. CASE P!Message
  <2>1. SameCapture(tab, tab)
    BY DEF SameCapture
  <2>2. SameCapture(tab, P!Welcomed(tab))
    BY <1>1, <2>1, PublishStreamKeeps DEF P!Welcomed
  <2>3. SameCapture(tab, P!Refused(tab))
    <3> DEFINE t == [tab EXCEPT !.pending = P!None]
    <3>1. SameCapture(tab, t) /\ DOMAIN t = TabFields
      BY <1>1 DEF SameCapture, TabFields
    <3> HIDE DEF t
    <3>2. SameCapture(t, P!Failed(t, tab.pending, TRUE))
      BY <3>1, FailureKeeps
    <3> QED BY <2>1, <3>1, <3>2, SameCaptureTwice DEF P!Refused, t
  <2> QED BY <1>1, <1>9, <2>2, <2>3, AnswerKeeps, SameCaptureIsHeld DEF P!Message
<1>10. ASSUME NEW v \in P!Publishers, P!GetsConfig(v) \/ P!Offers(v) PROVE Held(tab')
  BY <1>1, <1>10, SameCaptureIsHeld DEF P!GetsConfig, P!Offers, SameCapture, TabFields
<1>11. ASSUME NEW v \in P!Publishers, P!CannotOffer(v) PROVE Held(tab')
  BY <1>1, <1>11, FailureKeeps, SameCaptureIsHeld DEF P!CannotOffer
<1>12. ASSUME NEW v \in P!Publishers, P!TriesAgain(v) PROVE Held(tab')
  <2> DEFINE t == [tab EXCEPT !.pubs[v].step = "over"]
  <2>1. Held(t) /\ DOMAIN t = TabFields
    BY <1>1, SameCaptureIsHeld DEF SameCapture, TabFields
  <2> HIDE DEF t
  <2> QED BY <1>12, <2>1, PublisherBegins, SameCaptureIsHeld DEF P!TriesAgain, t
<1>13. ASSUME NEW v \in P!Publishers, P!Breaks(v) PROVE Held(tab')
  <2> DEFINE t == [tab EXCEPT !.pubs[v].step = "broken"]
             u == [t EXCEPT !.retried = TRUE]
  <2>1. Held(t) /\ DOMAIN t = TabFields
    BY <1>1, SameCaptureIsHeld DEF SameCapture, TabFields
  <2> HIDE DEF t
  <2>2. Held(u) /\ DOMAIN u = TabFields
    BY <2>1, SameCaptureIsHeld DEF SameCapture, TabFields
  <2>3. tab' = P!Republish(t)
    BY <1>13 DEF P!Breaks, t
  <2> QED BY <2>1, <2>2, <2>3, PublishStreamKeeps, SameCaptureIsHeld DEF P!Republish
<1>14. ASSUME NEW c \in P!Captures, P!TrackEnds(c) PROVE Held(tab')
  <2> DEFINE t == [tab EXCEPT !.live = @ \ {c}]
  <2>1. Held(t) /\ DOMAIN t = TabFields
    BY <1>1 DEF Held, TabFields
  <2> HIDE DEF t
  <2>2. tab' = t \/ tab' = P!StopSharing(t)
    BY <1>14 DEF P!TrackEnds, t
  <2> QED BY <2>1, <2>2, StopEndsCapture DEF Held
<1> QED BY <1>2, <1>3, <1>4, <1>5, <1>6, <1>7, <1>8, <1>9, <1>10, <1>11, <1>12, <1>13, <1>14
        DEF P!Next, P!vars

\* However often sources are changed, publishers retried, recovered and replaced
\* and sockets lost, for any numbers of each: whoever is in the room is captured
\* only by the share that the button stops.
THEOREM NothingElseIsCaptured == P!Spec => []CaptureIsHeld
<1>1. P!Init => Held(tab)
  BY DEF P!Init, Held, TabFields, P!None
<1>2. Held(tab) => CaptureIsHeld
  BY DEF Held, CaptureIsHeld, P!CaptureIsHeld
<1> QED BY <1>1, <1>2, SharingIsHeld, PTL DEF P!Spec

-----------------------------------------------------------------------------
(* The tab that watches.  Whoever makes an offer is not shown yet, so that   *)
(* the failure of an offer never closes what the tile plays; and the entry   *)
(* of a person is dropped by whatever closes the viewer it names.            *)

WatchFields == {"viewers", "map", "pending", "next", "stream"}

Steps == {"none", "config", "offer", "exchange", "media", "shown", "wait", "over"}

Viewer == [step : Steps, attempt : Nat, open : BOOLEAN]

\* What the refs name: a viewer numbered already; the pending one awaits its
\* answer, the one that plays is open, the one with the entry is or will be.
Entries(t) ==
  /\ t.pending # V!None => t.viewers[t.pending].step = "exchange"
  /\ t.stream # V!None => t.viewers[t.stream].step = "shown" /\ t.viewers[t.stream].open
  /\ t.map # V!None => \/ t.viewers[t.map].step = "config"
                       \/ t.viewers[t.map].step \notin {"none", "wait", "over"} /\ t.viewers[t.map].open

WatchOK(t) ==
  /\ DOMAIN t = WatchFields /\ t.viewers \in [V!Viewers -> Viewer] /\ t.next \in Nat \ {0}
  /\ t.map \in V!Viewers \cup {V!None} /\ t.pending \in V!Viewers \cup {V!None}
  /\ t.stream \in V!Viewers \cup {V!None}
  /\ \A v \in V!Viewers : v >= t.next => t.viewers[v].step = "none"
  /\ Entries(t)

RoomMessages ==
  [type : {"publish:start", "publish:stop"}] \cup [type : {"welcome"}, publishing : BOOLEAN]
    \cup [type : {"subscribe:answer"}, seq : V!Viewers]
    \cup [type : {"subscribe:error"}, terminal : BOOLEAN]

WatchInv == WatchOK(watch) /\ share \in BOOLEAN /\ inbox \in Seq(RoomMessages) /\ offers \in Seq(V!Viewers)

WithStep(vs, v, s) == [vs EXCEPT ![v].step = s]
WithOpen(vs, v) == [vs EXCEPT ![v].open = TRUE]
WithClosed(vs, v) == [vs EXCEPT ![v].open = FALSE]

\* Tab t has these viewers and these refs.
Refs(t, vs, map, pending, next, stream) ==
  /\ DOMAIN t = WatchFields
  /\ t.viewers = vs /\ t.map = map /\ t.pending = pending /\ t.next = next /\ t.stream = stream

LEMMA StepChanges ==
  ASSUME NEW vs, vs \in [V!Viewers -> Viewer], NEW v \in V!Viewers, NEW s, s \in Steps
  PROVE  /\ WithStep(vs, v, s) \in [V!Viewers -> Viewer]
         /\ WithStep(vs, v, s)[v].step = s /\ WithStep(vs, v, s)[v].open = vs[v].open
         /\ \A w \in V!Viewers : w # v => WithStep(vs, v, s)[w] = vs[w]
<1>1. vs[v] \in Viewer /\ [vs[v] EXCEPT !.step = s] \in Viewer
  BY DEF Viewer
<1>2. [vs[v] EXCEPT !.step = s].step = s /\ [vs[v] EXCEPT !.step = s].open = vs[v].open
  BY <1>1 DEF Viewer
<1> QED BY <1>1, <1>2 DEF WithStep

LEMMA OpenChanges ==
  ASSUME NEW vs, vs \in [V!Viewers -> Viewer], NEW v \in V!Viewers
  PROVE  /\ WithOpen(vs, v) \in [V!Viewers -> Viewer]
         /\ WithOpen(vs, v)[v].step = vs[v].step /\ WithOpen(vs, v)[v].open = TRUE
         /\ \A w \in V!Viewers : w # v => WithOpen(vs, v)[w] = vs[w]
<1>1. vs[v] \in Viewer /\ [vs[v] EXCEPT !.open = TRUE] \in Viewer
  BY DEF Viewer
<1>2. [vs[v] EXCEPT !.open = TRUE].step = vs[v].step /\ [vs[v] EXCEPT !.open = TRUE].open = TRUE
  BY <1>1 DEF Viewer
<1> QED BY <1>1, <1>2 DEF WithOpen

LEMMA CloseChanges ==
  ASSUME NEW vs, vs \in [V!Viewers -> Viewer], NEW v \in V!Viewers
  PROVE  /\ WithClosed(vs, v) \in [V!Viewers -> Viewer]
         /\ WithClosed(vs, v)[v].step = vs[v].step /\ WithClosed(vs, v)[v].open = FALSE
         /\ \A w \in V!Viewers : w # v => WithClosed(vs, v)[w] = vs[w]
<1>1. vs[v] \in Viewer /\ [vs[v] EXCEPT !.open = FALSE] \in Viewer
  BY DEF Viewer
<1>2. [vs[v] EXCEPT !.open = FALSE].step = vs[v].step /\ [vs[v] EXCEPT !.open = FALSE].open = FALSE
  BY <1>1 DEF Viewer
<1> QED BY <1>1, <1>2 DEF WithClosed

LEMMA RefsAreOK ==
  ASSUME NEW t, NEW vs \in [V!Viewers -> Viewer], NEW map \in V!Viewers \cup {V!None},
         NEW pending \in V!Viewers \cup {V!None}, NEW next \in Nat \ {0},
         NEW stream \in V!Viewers \cup {V!None},
         \A v \in V!Viewers : v >= next => vs[v].step = "none",
         pending # V!None => vs[pending].step = "exchange",
         stream # V!None => vs[stream].step = "shown" /\ vs[stream].open,
         map # V!None => \/ vs[map].step = "config"
                         \/ vs[map].step \notin {"none", "wait", "over"} /\ vs[map].open,
         Refs(t, vs, map, pending, next, stream)
  PROVE  WatchOK(t)
BY DEF WatchOK, Entries, Refs

LEMMA OKAreRefs ==
  ASSUME NEW t, WatchOK(t)
  PROVE  /\ Refs(t, t.viewers, t.map, t.pending, t.next, t.stream)
         /\ t.viewers \in [V!Viewers -> Viewer] /\ t.map \in V!Viewers \cup {V!None}
         /\ t.pending \in V!Viewers \cup {V!None} /\ t.next \in Nat \ {0}
         /\ t.stream \in V!Viewers \cup {V!None}
         /\ \A v \in V!Viewers : v >= t.next => t.viewers[v].step = "none"
         /\ Entries(t)
BY DEF WatchOK, Refs

\* A viewer that is not shown fails.
LEMMA CaughtIsOK ==
  ASSUME NEW t, WatchOK(t), NEW v \in V!Viewers, t.viewers[v].step \notin {"none", "shown"},
         NEW terminal \in BOOLEAN
  PROVE  WatchOK(V!Caught(t, v, terminal)) /\ V!Caught(t, v, terminal).next = t.next
<1> DEFINE closed == WithClosed(t.viewers, v)
<1>1. PICK s \in {"wait", "over"} :
        Refs(V!Caught(t, v, terminal), WithStep(closed, v, s), V!None, V!None, t.next, t.stream)
  <2>1. PICK s \in {"wait", "over"} :
          V!Caught(t, v, terminal)
            = [t EXCEPT !.viewers[v].open = FALSE, !.viewers[v].step = s, !.map = V!None, !.pending = V!None]
    BY DEF V!Caught
  <2>2. Refs([t EXCEPT !.viewers[v].open = FALSE, !.viewers[v].step = s, !.map = V!None,
                       !.pending = V!None],
             WithStep(closed, v, s), V!None, V!None, t.next, t.stream)
    BY DEF WatchOK, Refs, WithClosed, WithStep
  <2> QED BY <2>1, <2>2
<1>2. closed \in [V!Viewers -> Viewer] /\ \A w \in V!Viewers : w # v => closed[w] = t.viewers[w]
  BY CloseChanges, OKAreRefs
<1> HIDE DEF closed
<1> DEFINE vs == WithStep(closed, v, s)
<1>3. /\ vs \in [V!Viewers -> Viewer] /\ vs[v].step = s
      /\ \A w \in V!Viewers : w # v => vs[w] = t.viewers[w]
  BY <1>2, StepChanges DEF Steps
<1> HIDE DEF vs
<1>4. t.stream # V!None => t.stream \in V!Viewers \ {v}
  BY OKAreRefs DEF Entries
<1>5. ASSUME NEW u, Refs(u, vs, V!None, V!None, t.next, t.stream) PROVE WatchOK(u)
  <2>1. t.stream # V!None => vs[t.stream].step = "shown" /\ vs[t.stream].open
    BY <1>3, <1>4, OKAreRefs DEF Entries
  <2>2. \A w \in V!Viewers : w >= t.next => vs[w].step = "none"
    BY <1>3, OKAreRefs
  <2> QED BY <1>5, <1>3, <2>1, <2>2, OKAreRefs DEF WatchOK, Refs, Entries
<1> QED BY <1>1, <1>5 DEF vs, Refs

\* A person's viewer is stopped: its refs are empty, and viewers stay where they are.
LEMMA StopIsOK ==
  ASSUME NEW t, WatchOK(t)
  PROVE  LET u == V!StopViewer(t) IN
         /\ WatchOK(u) /\ u.next = t.next /\ u.map = V!None /\ u.pending = V!None
         /\ \A v \in V!Viewers : u.viewers[v].step = t.viewers[v].step
<1>1. PICK vs \in [V!Viewers -> Viewer] :
        /\ Refs(V!StopViewer(t), vs, V!None, V!None, t.next, V!None)
        /\ \A v \in V!Viewers : vs[v].step = t.viewers[v].step
  <2>1. CASE t.map = V!None
    <3>1. V!StopViewer(t) = [t EXCEPT !.map = V!None, !.pending = V!None, !.stream = V!None]
      BY <2>1 DEF V!StopViewer
    <3>2. Refs([t EXCEPT !.map = V!None, !.pending = V!None, !.stream = V!None], t.viewers, V!None, V!None, t.next, V!None)
      BY DEF WatchOK, Refs
    <3> QED BY <3>1, <3>2, OKAreRefs
  <2>2. CASE t.map # V!None
    <3> DEFINE vs == WithClosed(t.viewers, t.map)
               closed == [t EXCEPT !.viewers[t.map].open = FALSE]
    <3>1. V!StopViewer(t) = [closed EXCEPT !.map = V!None, !.pending = V!None, !.stream = V!None]
      BY <2>2 DEF V!StopViewer
    <3>2. Refs(closed, vs, t.map, t.pending, t.next, t.stream)
      BY DEF WatchOK, Refs, WithClosed
    <3> HIDE DEF closed, vs
    <3>3. Refs(V!StopViewer(t), vs, V!None, V!None, t.next, V!None)
      BY <3>1, <3>2 DEF Refs
    <3>4. vs \in [V!Viewers -> Viewer] /\ \A v \in V!Viewers : vs[v].step = t.viewers[v].step
      <4>1. t.map \in V!Viewers /\ t.viewers \in [V!Viewers -> Viewer]
        BY <2>2, OKAreRefs
      <4>2. /\ vs \in [V!Viewers -> Viewer] /\ vs[t.map].step = t.viewers[t.map].step
            /\ \A w \in V!Viewers : w # t.map => vs[w] = t.viewers[w]
        BY <4>1, CloseChanges DEF vs
      <4>3. ASSUME NEW v \in V!Viewers PROVE vs[v].step = t.viewers[v].step
        BY <4>2, <4>3
      <4> QED BY <4>2, <4>3
    <3> QED BY <3>3, <3>4
  <2> QED BY <2>1, <2>2
<1>2. WatchOK(V!StopViewer(t))
  BY <1>1, OKAreRefs DEF WatchOK, Refs, Entries
<1> QED BY <1>1, <1>2 DEF Refs

\* A new viewer takes the entry.
LEMMA ConnectIsOK ==
  ASSUME NEW t, WatchOK(t), t.next \in V!Viewers, NEW attempt \in Nat
  PROVE  LET u == V!Connect(t, attempt) IN
         /\ WatchOK(u) /\ u.next = t.next + 1
         /\ \A v \in V!Viewers : t.viewers[v].step # "none" => u.viewers[v] = t.viewers[v]
<1> DEFINE begun == [step |-> "config", attempt |-> attempt, open |-> FALSE]
           vs == [t.viewers EXCEPT ![t.next] = begun]
<1>1. Refs(V!Connect(t, attempt), vs, t.next, t.pending, t.next + 1, t.stream)
  BY DEF V!Connect, WatchOK, Refs
<1>2. begun \in Viewer /\ begun.step = "config"
  BY DEF Viewer, Steps
<1> HIDE DEF begun
<1>3. t.viewers[t.next].step = "none"
  BY OKAreRefs DEF V!Viewers
<1>4. /\ vs \in [V!Viewers -> Viewer] /\ vs[t.next] = begun
      /\ \A v \in V!Viewers : v # t.next => vs[v] = t.viewers[v]
  BY <1>2, OKAreRefs
<1> HIDE DEF vs
<1>5. \A v \in V!Viewers : v >= t.next + 1 => vs[v].step = "none"
  <2>1. \A v \in V!Viewers : v >= t.next + 1 => v >= t.next /\ v # t.next
    BY OKAreRefs DEF V!Viewers
  <2> QED BY <1>4, <2>1, OKAreRefs
<1>6. WatchOK(V!Connect(t, attempt))
  <2>1. /\ t.pending # V!None => vs[t.pending].step = "exchange"
        /\ t.stream # V!None => vs[t.stream].step = "shown" /\ vs[t.stream].open
    BY <1>3, <1>4, OKAreRefs DEF Entries
  <2>2. t.next + 1 \in Nat \ {0} /\ vs[t.next].step = "config"
    BY <1>2, <1>4, OKAreRefs
  <2>3. t.next \in V!Viewers /\ t.pending \in V!Viewers \cup {V!None} /\ t.stream \in V!Viewers \cup {V!None}
    BY OKAreRefs
  <2> QED BY <1>1, <1>4, <1>5, <2>1, <2>2, <2>3, RefsAreOK
<1> QED BY <1>1, <1>3, <1>4, <1>6 DEF Refs

\* A viewer moves on to its next await, and a ref may be set to it.
LEMMA MoveIsOK ==
  ASSUME NEW t, WatchOK(t), NEW v \in V!Viewers, t.viewers[v].step # "none",
         NEW vs \in [V!Viewers -> Viewer], \A w \in V!Viewers : w # v => vs[w] = t.viewers[w],
         t.map = v => vs[v].step \notin {"none", "wait", "over"} /\ vs[v].open,
         NEW p, \/ p = V!None
                \/ p = v /\ vs[v].step = "exchange"
                \/ p = t.pending /\ p # v,
         NEW st, \/ st = v /\ vs[v].step = "shown" /\ vs[v].open
                 \/ st = t.stream /\ st # v,
         NEW u, Refs(u, vs, t.map, p, t.next, st)
  PROVE  WatchOK(u)
<1>1. p \in V!Viewers \cup {V!None} /\ st \in V!Viewers \cup {V!None}
  BY OKAreRefs
<1>2. \A w \in V!Viewers : w >= t.next => vs[w].step = "none"
  BY OKAreRefs
<1>3. /\ p # V!None => vs[p].step = "exchange"
      /\ st # V!None => vs[st].step = "shown" /\ vs[st].open
  BY <1>1, OKAreRefs DEF Entries
<1>4. t.map # V!None => \/ vs[t.map].step = "config"
                        \/ vs[t.map].step \notin {"none", "wait", "over"} /\ vs[t.map].open
  BY OKAreRefs DEF Entries
<1> QED BY <1>1, <1>2, <1>3, <1>4, OKAreRefs DEF WatchOK, Refs, Entries

\* The rejection of the offer that was pending when a handler began.
LEMMA SettledIsOK ==
  ASSUME NEW t, WatchOK(t), NEW v \in V!Viewers \cup {V!None},
         v # V!None => t.viewers[v].step = "exchange"
  PROVE  WatchOK(V!Settled(t, v)) /\ V!Settled(t, v).next = t.next
BY CaughtIsOK DEF V!Settled, V!Viewers, V!None

LEMMA StoppedIsOK == ASSUME NEW t, WatchOK(t) PROVE WatchOK(V!Stopped(t))
<1>1. t.pending \in V!Viewers \cup {V!None} /\ (t.pending # V!None => t.viewers[t.pending].step = "exchange")
  BY DEF WatchOK, Entries
<1>2. t.pending # V!None => V!StopViewer(t).viewers[t.pending].step = "exchange"
  BY <1>1, StopIsOK
<1> QED BY <1>1, <1>2, StopIsOK, SettledIsOK DEF V!Stopped

LEMMA RebuiltIsOK ==
  ASSUME NEW t, WatchOK(t), NEW publishing \in BOOLEAN, V!Rebuilt(t, publishing).next <= MaxViewers
  PROVE  WatchOK(V!Rebuilt(t, publishing))
<1>1. t.pending \in V!Viewers \cup {V!None} /\ (t.pending # V!None => t.viewers[t.pending].step = "exchange")
  BY DEF WatchOK, Entries
<1> DEFINE u == V!StopViewer(t)
<1>2. /\ WatchOK(u) /\ u.next = t.next /\ u.map = V!None
      /\ t.pending # V!None => u.viewers[t.pending].step = "exchange"
  BY <1>1, StopIsOK
<1> HIDE DEF u
<1>3. CASE ~publishing
  BY <1>1, <1>2, <1>3, SettledIsOK DEF V!Rebuilt, u
<1>4. CASE publishing
  <2>1. V!Rebuilt(t, publishing) = V!Settled(V!Connect(u, 1), t.pending)
    BY <1>2, <1>4 DEF V!Rebuilt, V!StartViewer, u
  <2>2. V!Settled(V!Connect(u, 1), t.pending).next = u.next + 1
    BY <1>2 DEF V!Settled, V!Caught, V!Connect, WatchOK
  <2>3. u.next \in V!Viewers
    BY <1>2, <2>1, <2>2, ClientAssumption DEF ClientAssumption, V!Viewers, WatchOK
  <2>4. /\ WatchOK(V!Connect(u, 1))
        /\ t.pending # V!None => V!Connect(u, 1).viewers[t.pending].step = "exchange"
    BY <1>1, <1>2, <2>3, ConnectIsOK
  <2> QED BY <1>1, <2>1, <2>4, SettledIsOK
<1> QED BY <1>3, <1>4

LEMMA MessagesAreOK == WatchInv /\ V!Message => WatchInv'
<1> SUFFICES ASSUME WatchInv, V!Message PROVE WatchInv'
  OBVIOUS
<1>1. inbox' \in Seq(RoomMessages) /\ offers' \in Seq(V!Viewers) /\ share' \in BOOLEAN
  BY DEF V!Message, WatchInv
<1>2. PICK m \in RoomMessages : m = Head(inbox)
  BY DEF V!Message, WatchInv
<1>3. watch'.next <= MaxViewers
  BY DEF V!Message
<1>4. CASE m.type = "publish:start" /\ watch' = V!StartViewer(watch)
  <2>1. CASE watch.map # V!None
    BY <1>1, <1>4, <2>1 DEF V!StartViewer, WatchInv
  <2>2. CASE watch.map = V!None
    <3>1. watch' = V!Connect(watch, 1)
      BY <1>4, <2>2 DEF V!StartViewer
    <3>2. watch.next \in V!Viewers
      <4>1. watch.next \in Nat \ {0} /\ DOMAIN watch = WatchFields
        BY DEF WatchInv, WatchOK
      <4>2. watch'.next = watch.next + 1
        BY <3>1, <4>1 DEF V!Connect, WatchFields
      <4> QED BY <1>3, <4>1, <4>2, ClientAssumption DEF ClientAssumption, V!Viewers
    <3> QED BY <3>1, <3>2, <1>1, ConnectIsOK DEF WatchInv
  <2> QED BY <1>1, <2>1, <2>2 DEF WatchInv
<1>5. CASE m.type = "publish:stop" /\ watch' = V!Stopped(watch)
  BY <1>1, <1>5, StoppedIsOK DEF WatchInv
<1>6. CASE m.type = "welcome" /\ watch' = V!Rebuilt(watch, m.publishing)
  <2>1. m.publishing \in BOOLEAN
    BY <1>6 DEF RoomMessages
  <2> QED BY <1>1, <1>3, <1>6, <2>1, RebuiltIsOK DEF WatchInv
<1>7. CASE m.type = "subscribe:answer" /\ watch' = V!Answered(watch, m.seq)
  <2>1. m.seq \in V!Viewers /\ m.seq # V!None
    BY <1>7 DEF RoomMessages, V!Viewers, V!None
  <2> DEFINE v == m.seq
  <2>2. CASE watch.pending # v
    BY <1>1, <1>7, <2>2 DEF V!Answered, WatchInv
  <2>3. CASE watch.pending = v /\ ~watch.viewers[v].open
    <3>1. watch' = V!Caught(watch, v, FALSE) /\ watch.viewers[v].step = "exchange"
      BY <1>7, <2>1, <2>3 DEF V!Answered, WatchInv, WatchOK, Entries
    <3> QED BY <1>1, <2>1, <3>1, CaughtIsOK DEF WatchInv
  <2>4. CASE watch.pending = v /\ watch.viewers[v].open
    <3>1. watch' = [watch EXCEPT !.pending = V!None, !.viewers[v].step = "media"]
      BY <1>7, <2>4 DEF V!Answered
    <3> DEFINE vs == WithStep(watch.viewers, v, "media")
    <3>2. Refs(watch', vs, watch.map, V!None, watch.next, watch.stream)
      BY <3>1 DEF WatchInv, WatchOK, Refs, WithStep
    <3>3. /\ vs \in [V!Viewers -> Viewer] /\ vs[v].step = "media" /\ vs[v].open
          /\ \A w \in V!Viewers : w # v => vs[w] = watch.viewers[w]
          /\ watch.viewers[v].step = "exchange" /\ watch.stream # v
      BY <2>1, <2>4, StepChanges DEF WatchInv, WatchOK, Entries, Steps
    <3> HIDE DEF vs
    <3>4. WatchOK(watch')
      BY <2>1, <3>2, <3>3, MoveIsOK DEF WatchInv
    <3> QED BY <1>1, <3>4 DEF WatchInv
  <2> QED BY <2>2, <2>3, <2>4
<1>8. CASE m.type = "subscribe:error" /\ watch' = V!Refused(watch, m.terminal)
  <2>1. m.terminal \in BOOLEAN
    BY <1>8 DEF RoomMessages
  <2>2. CASE watch.pending = V!None
    BY <1>1, <1>8, <2>2 DEF V!Refused, WatchInv
  <2>3. CASE watch.pending # V!None
    <3>1. /\ watch' = V!Caught(watch, watch.pending, m.terminal)
          /\ watch.pending \in V!Viewers /\ watch.viewers[watch.pending].step = "exchange"
      BY <1>8, <2>3 DEF V!Refused, WatchInv, WatchOK, Entries
    <3> QED BY <1>1, <2>1, <3>1, CaughtIsOK DEF WatchInv
  <2> QED BY <2>2, <2>3
<1> QED BY <1>2, <1>4, <1>5, <1>6, <1>7, <1>8 DEF V!Message

LEMMA WatchingIsOK == WatchInv /\ [V!Next]_(V!vars) => WatchInv'
<1> SUFFICES ASSUME WatchInv, [V!Next]_(V!vars) PROVE WatchInv'
  OBVIOUS
<1>1. CASE V!Publish \/ V!Unpublish
  <2>1. PICK m \in RoomMessages : inbox' = Append(inbox, m)
    BY <1>1 DEF V!Publish, V!Unpublish, RoomMessages
  <2>2. watch' = watch /\ offers' = offers /\ share' \in BOOLEAN
    BY <1>1 DEF V!Publish, V!Unpublish
  <2> QED BY <2>1, <2>2 DEF WatchInv
<1>2. CASE V!HandleSubscribeOffer
  <2>1. Head(offers) \in V!Viewers /\ offers' \in Seq(V!Viewers)
    BY <1>2 DEF V!HandleSubscribeOffer, WatchInv
  <2>2. PICK said \in RoomMessages : inbox' = Append(inbox, said)
    BY <1>2, <2>1 DEF V!HandleSubscribeOffer, RoomMessages
  <2> QED BY <1>2, <2>1, <2>2 DEF V!HandleSubscribeOffer, WatchInv, WatchOK, Entries
<1>3. CASE V!Reconnect
  <2>1. PICK m : m = [type |-> "welcome", publishing |-> share] /\ inbox' = <<m>>
    BY <1>3 DEF V!Reconnect
  <2>2. m \in RoomMessages
    BY <2>1 DEF RoomMessages, WatchInv
  <2>3. offers' = <<>> /\ watch' = watch /\ share' = share
    BY <1>3 DEF V!Reconnect
  <2> QED BY <2>1, <2>2, <2>3 DEF WatchInv
<1>4. CASE V!Message
  BY <1>4, MessagesAreOK
<1>5. ASSUME NEW v \in V!Viewers, V!GetsConfig(v) PROVE WatchInv'
  <2> DEFINE gone == WithStep(watch.viewers, v, "offer")
             vs == WithOpen(gone, v)
  <2>1. Refs(watch', vs, watch.map, watch.pending, watch.next, watch.stream)
    BY <1>5 DEF V!GetsConfig, WatchInv, WatchOK, Refs, WithStep, WithOpen
  <2>2. /\ gone \in [V!Viewers -> Viewer] /\ gone[v].step = "offer"
        /\ \A w \in V!Viewers : w # v => gone[w] = watch.viewers[w]
    BY StepChanges DEF WatchInv, WatchOK, Steps
  <2> HIDE DEF gone
  <2>3. /\ vs \in [V!Viewers -> Viewer] /\ vs[v].step = "offer" /\ vs[v].open
        /\ \A w \in V!Viewers : w # v => vs[w] = watch.viewers[w]
    BY <2>2, OpenChanges
  <2> HIDE DEF vs
  <2>4. watch.viewers[v].step = "config" /\ watch.pending # v /\ watch.stream # v
    BY <1>5 DEF V!GetsConfig, V!At, WatchInv, WatchOK, Entries, V!Viewers, V!None
  <2>5. WatchOK(watch')
    BY <2>1, <2>3, <2>4, MoveIsOK DEF WatchInv
  <2> QED BY <1>5, <2>5 DEF V!GetsConfig, WatchInv
<1>6. ASSUME NEW v \in V!Viewers, V!Offers(v) PROVE WatchInv'
  <2>1. offers' \in Seq(V!Viewers)
    BY <1>6 DEF V!Offers, WatchInv
  <2> DEFINE vs == WithStep(watch.viewers, v, "exchange")
  <2>2. Refs(watch', vs, watch.map, v, watch.next, watch.stream)
    BY <1>6 DEF V!Offers, WatchInv, WatchOK, Refs, WithStep
  <2>3. /\ vs \in [V!Viewers -> Viewer] /\ vs[v].step = "exchange"
        /\ vs[v].open = watch.viewers[v].open
        /\ \A w \in V!Viewers : w # v => vs[w] = watch.viewers[w]
    BY StepChanges DEF WatchInv, WatchOK, Steps
  <2> HIDE DEF vs
  <2>4. /\ watch.viewers[v].step = "offer" /\ watch.stream # v
        /\ watch.map = v => watch.viewers[v].open
    BY <1>6 DEF V!Offers, V!At, WatchInv, WatchOK, Entries, V!Viewers, V!None
  <2>5. WatchOK(watch')
    BY <2>2, <2>3, <2>4, MoveIsOK DEF WatchInv
  <2> QED BY <1>6, <2>1, <2>5 DEF V!Offers, WatchInv
<1>7. ASSUME NEW v \in V!Viewers, V!CannotOffer(v) \/ V!NoTrack(v) PROVE WatchInv'
  BY <1>7, CaughtIsOK DEF V!CannotOffer, V!NoTrack, V!At, WatchInv
<1>8. ASSUME NEW v \in V!Viewers, V!FirstTrack(v) PROVE WatchInv'
  <2> DEFINE vs == WithStep(watch.viewers, v, "shown")
  <2>1. Refs(watch', vs, watch.map, watch.pending, watch.next, v)
    BY <1>8 DEF V!FirstTrack, WatchInv, WatchOK, Refs, WithStep
  <2>2. /\ vs \in [V!Viewers -> Viewer] /\ vs[v].step = "shown"
        /\ vs[v].open = watch.viewers[v].open
        /\ \A w \in V!Viewers : w # v => vs[w] = watch.viewers[w]
    BY StepChanges DEF WatchInv, WatchOK, Steps
  <2> HIDE DEF vs
  <2>3. watch.viewers[v].step = "media" /\ watch.viewers[v].open /\ watch.pending # v
    BY <1>8 DEF V!FirstTrack, V!At, WatchInv, WatchOK, Entries, V!Viewers, V!None
  <2>4. WatchOK(watch')
    BY <2>1, <2>2, <2>3, MoveIsOK DEF WatchInv
  <2> QED BY <1>8, <2>4 DEF V!FirstTrack, WatchInv
<1>9. ASSUME NEW v \in V!Viewers, V!TriesAgain(v) PROVE WatchInv'
  <2> DEFINE t == [watch EXCEPT !.viewers[v].step = "over"]
             vs == WithStep(watch.viewers, v, "over")
  <2>1. WatchOK(t) /\ t.next = watch.next
    <3>1. Refs(t, vs, watch.map, watch.pending, watch.next, watch.stream)
      BY DEF WatchInv, WatchOK, Refs, WithStep
    <3>2. /\ vs \in [V!Viewers -> Viewer]
          /\ \A w \in V!Viewers : w # v => vs[w] = watch.viewers[w]
      BY StepChanges DEF WatchInv, WatchOK, Steps
    <3> HIDE DEF t, vs
    <3>3. /\ watch.viewers[v].step = "wait"
          /\ watch.pending # v /\ watch.stream # v /\ watch.map # v
      BY <1>9 DEF V!TriesAgain, V!At, WatchInv, WatchOK, Entries, V!Viewers, V!None
    <3>4. WatchOK(t)
      BY <3>1, <3>2, <3>3, MoveIsOK DEF WatchInv
    <3> QED BY <3>1, <3>4 DEF Refs
  <2>2. t.next \in V!Viewers /\ watch.viewers[v].attempt + 1 \in Nat
    <3>1. watch.next < MaxViewers /\ watch.next \in Nat \ {0} /\ watch.viewers[v] \in Viewer
      BY <1>9 DEF V!TriesAgain, WatchInv, WatchOK
    <3>2. watch.next \in V!Viewers
      BY <3>1, ClientAssumption DEF ClientAssumption, V!Viewers
    <3> QED BY <2>1, <3>1, <3>2 DEF Viewer
  <2> HIDE DEF t
  <2>3. watch' = V!Connect(t, watch.viewers[v].attempt + 1)
    BY <1>9 DEF V!TriesAgain, t
  <2> QED BY <1>9, <2>1, <2>2, <2>3, ConnectIsOK DEF V!TriesAgain, WatchInv
<1>10. ASSUME NEW v \in V!Viewers, V!Breaks(v) PROVE WatchInv'
  BY <1>10, StoppedIsOK DEF V!Breaks, WatchInv
<1>11. CASE UNCHANGED V!vars
  BY <1>11 DEF V!vars, WatchInv, WatchOK, Entries
<1> QED BY <1>1, <1>2, <1>3, <1>4, <1>5, <1>6, <1>7, <1>8, <1>9, <1>10, <1>11 DEF V!Next

\* However shares, retries, lost sockets and late answers cross, for any numbers
\* of each: a tile plays an open connection, and at rest nothing closed keeps the
\* person's next share from being shown.
THEOREM TilesPlayOpenViewers == V!Spec => []HeldIsOpen
<1>1. V!Init => WatchInv
  <2> SUFFICES ASSUME V!Init PROVE WatchInv
    OBVIOUS
  <2>1. V!NoViewer \in Viewer /\ V!NoViewer.step = "none"
    BY DEF V!NoViewer, Viewer, Steps
  <2>2. watch.viewers \in [V!Viewers -> Viewer] /\ \A v \in V!Viewers : watch.viewers[v].step = "none"
    BY <2>1 DEF V!Init
  <2>3. /\ DOMAIN watch = WatchFields /\ watch.next = 1
        /\ watch.map = V!None /\ watch.pending = V!None /\ watch.stream = V!None
    BY DEF V!Init, WatchFields
  <2>4. share \in BOOLEAN /\ inbox = <<>> /\ offers = <<>>
    BY DEF V!Init
  <2> QED BY <2>2, <2>3, <2>4 DEF WatchInv, WatchOK, Entries
<1>2. WatchInv => HeldIsOpen
  BY DEF WatchInv, WatchOK, Entries, HeldIsOpen, V!HeldIsOpen, V!Rest
<1> QED BY <1>1, <1>2, WatchingIsOK, PTL DEF V!Spec
=============================================================================
