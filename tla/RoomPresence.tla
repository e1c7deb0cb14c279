------------------------------ MODULE RoomPresence ------------------------------
(***************************************************************************)
(* tela-api: who is in one room, who is sharing, and what every browser    *)
(* believes about it.  Each WebSocket is served by a goroutine of its own  *)
(* (handleWS); they meet in the room's maps, which room.mu guards, and in  *)
(* MediaMTX, which they call without any lock.                             *)
(*                                                                         *)
(* A critical section of room.mu is one action and so is an HTTP call to   *)
(* MediaMTX.  A broadcast is one action, apart from the change that it     *)
(* announces: the code announces after it has unlocked.                    *)
(***************************************************************************)
EXTENDS Naturals, Sequences

CONSTANTS
  Browsers,      \* peer ids; a browser keeps its id when it resumes
  MaxSockets,    \* bound: WebSockets opened
  MaxAsks,       \* bound: offers, stops and choices of the stage
  MaxPins,       \* bound: choices of the stage among them
  SendBuffer,    \* sendBuffer: messages queued for one peer
  StaleSockets,  \* whether a browser may be back before its old socket ended
  CloseMayFail   \* whether a teardown in MediaMTX may fail

NoOne == "none"

ASSUME PresenceAssumption ==
  /\ MaxSockets \in Nat /\ MaxAsks \in Nat /\ MaxPins \in Nat
  /\ SendBuffer \in Nat \ {0} /\ NoOne \notin Browsers
  /\ StaleSockets \in BOOLEAN /\ CloseMayFail \in BOOLEAN

Sockets == 1..MaxSockets

VARIABLES
  (* the goroutine of each socket: where it is, and its locals *)
  owner,      \* owner[k]: the peer id the socket was opened with
  step,
  offering,   \* a stop that makes room for an offer
  held,       \* the MediaMTX session in hand, 0 for none
  pin,        \* the stage it is about to announce
  existing,   \* what Join returned: the status of every peer
  (* the room *)
  peers,      \* peers[b]: the socket registered under b, 0 for none
  publishing, \* publishing[k], target[k]: fields of the Peer of socket k
  target,
  spotlight,
  out,        \* out[k]: messages on their way to the browser of k
  (* MediaMTX *)
  live,       \* live[b]: the session on the path of b, 0 for none
  shares,     \* sessions accepted so far
  asked, pins,\* offers, stops and choices of the stage, and the latter, so far
  (* browsers *)
  current,    \* current[b]: the socket b listens to, 0 while it has none
  welcomed,   \* welcomed[b]: it got the welcome on that socket
  spoiled,    \* spoiled[b]: something else came before; read by properties only
  roster,     \* roster[b][x]: what b believes of x
  stage       \* stage[b]: whom b believes to be on stage

localVars   == <<owner, step, offering, held, pin, existing>>
roomVars    == <<peers, publishing, target, spotlight>>
mediaVars   == <<live, shares>>
browserVars == <<current, welcomed, spoiled, roster, stage>>
countVars   == <<asked, pins>>
vars == <<localVars, roomVars, out, mediaVars, countVars, browserVars>>

Statuses == {"absent", "watching", "sharing"}

\* peerInfosLocked: what a newcomer is told of b.
Status(b) ==
  IF peers[b] = 0 THEN "absent"
  ELSE IF publishing[peers[b]] THEN "sharing" ELSE "watching"

Steps == {"none", "resume", "join", "announce", "welcome", "read",
          "close", "mute", "muted", "publish", "target", "unmute", "unmuted",
          "pinned", "byeclose", "leave", "left", "gone"}

Events == [type: {"join", "leave", "start", "stop", "stage"}, who: Browsers \cup {NoOne}]
Welcomes == [type: {"welcome"}, peers: [Browsers -> Statuses], stage: Browsers \cup {NoOne}]

SocketsOK ==
  /\ owner \in [Sockets -> Browsers \cup {NoOne}] /\ step \in [Sockets -> Steps]
  /\ \A k \in Sockets : step[k] # "none" => owner[k] \in Browsers
  /\ offering \in [Sockets -> BOOLEAN]
  /\ \A k \in Sockets : offering[k] =>
       step[k] \in {"close", "mute", "muted", "publish", "target", "unmute", "unmuted"}
  /\ held \in [Sockets -> 0..MaxAsks]
  /\ pin \in [Sockets -> Browsers \cup {NoOne}]
  /\ existing \in [Sockets -> [Browsers -> Statuses]]

RoomOK ==
  /\ peers \in [Browsers -> 0..MaxSockets]
  /\ \A b \in Browsers : peers[b] # 0 => owner[peers[b]] = b
  /\ publishing \in [Sockets -> BOOLEAN] /\ target \in [Sockets -> 0..MaxAsks]
  /\ spotlight \in Browsers \cup {NoOne}
  /\ live \in [Browsers -> 0..MaxAsks] /\ shares \in 0..MaxAsks
  /\ asked \in 0..MaxAsks /\ pins \in 0..MaxPins

OutOK ==
  /\ out \in [Sockets -> Seq(Events \cup Welcomes)]
  /\ \A k \in Sockets : Len(out[k]) <= SendBuffer

BrowsersOK ==
  /\ current \in [Browsers -> 0..MaxSockets]
  /\ \A b \in Browsers : current[b] # 0 => owner[current[b]] = b
  /\ welcomed \in [Browsers -> BOOLEAN] /\ spoiled \in [Browsers -> BOOLEAN]
  /\ roster \in [Browsers -> [Browsers -> Statuses]]
  /\ stage \in [Browsers -> Browsers \cup {NoOne}]

TypeOK == SocketsOK /\ RoomOK /\ OutOK /\ BrowsersOK

Init ==
  /\ owner = [k \in Sockets |-> NoOne] /\ step = [k \in Sockets |-> "none"]
  /\ offering = [k \in Sockets |-> FALSE] /\ held = [k \in Sockets |-> 0]
  /\ pin = [k \in Sockets |-> NoOne]
  /\ existing = [k \in Sockets |-> [b \in Browsers |-> "absent"]]
  /\ peers = [b \in Browsers |-> 0]
  /\ publishing = [k \in Sockets |-> FALSE] /\ target = [k \in Sockets |-> 0]
  /\ spotlight = NoOne
  /\ out = [k \in Sockets |-> <<>>]
  /\ live = [b \in Browsers |-> 0] /\ shares = 0 /\ asked = 0 /\ pins = 0
  /\ current = [b \in Browsers |-> 0]
  /\ welcomed = [b \in Browsers |-> FALSE] /\ spoiled = [b \in Browsers |-> FALSE]
  /\ roster = [b \in Browsers |-> [x \in Browsers |-> "absent"]]
  /\ stage = [b \in Browsers |-> NoOne]

-----------------------------------------------------------------------------
(* Messages.                                                               *)

Listening(k) == step[k] # "none" /\ current[owner[k]] = k

\* Send: a full buffer drops the message.  What is sent to a browser that no
\* longer listens is never seen.
Queued(k, msg) ==
  IF Listening(k) /\ Len(out[k]) < SendBuffer THEN Append(out[k], msg) ELSE out[k]

\* Broadcast: to every registered peer but one.
Broadcast(type, who, excluded) ==
  out' = [k \in Sockets |->
            IF \E b \in Browsers \ {excluded} : peers[b] = k
            THEN Queued(k, [type |-> type, who |-> who]) ELSE out[k]]

Go(k, from, to) == step[k] = from /\ step' = [step EXCEPT ![k] = to]

-----------------------------------------------------------------------------
(* Browsers (useRoom).                                                     *)

\* A browser opens a socket.  Once welcomed it has an identity to resume; one
\* that lost its socket before that comes back as a stranger, that is, as
\* another member of Browsers.
Connect(b, k) ==
  /\ current[b] = 0 /\ step[k] = "none" /\ \A j \in 1..(k - 1) : step[j] # "none"
  /\ LET before == {j \in Sockets : owner[j] = b} IN
       /\ before # {} => welcomed[b]
       /\ StaleSockets \/ \A j \in before : step[j] = "gone"
       /\ step' = [step EXCEPT ![k] = IF before = {} THEN "join" ELSE "resume"]
  /\ owner' = [owner EXCEPT ![k] = b]
  /\ current' = [current EXCEPT ![b] = k]
  /\ welcomed' = [welcomed EXCEPT ![b] = FALSE]
  /\ UNCHANGED <<offering, held, pin, existing, roomVars, out, mediaVars, countVars, spoiled,
                 roster, stage>>

\* The connection breaks, or the page is closed.  The server finds out later.
\* What the browser believed is nothing to it until the next welcome.
Drop(b) ==
  /\ current[b] # 0
  /\ current' = [current EXCEPT ![b] = 0]
  /\ out' = [out EXCEPT ![current[b]] = <<>>]
  /\ spoiled' = [spoiled EXCEPT ![b] = FALSE]
  /\ roster' = [roster EXCEPT ![b] = [x \in Browsers |-> "absent"]]
  /\ stage' = [stage EXCEPT ![b] = NoOne]
  /\ UNCHANGED <<localVars, roomVars, mediaVars, countVars, welcomed>>

\* onmessage.  A welcome replaces the roster, an event amends it.
Heard(old, msg) ==
  CASE msg.type = "join"  -> [old EXCEPT ![msg.who] = "watching"]
    [] msg.type = "leave" -> [old EXCEPT ![msg.who] = "absent"]
    [] msg.type = "start" /\ old[msg.who] # "absent" -> [old EXCEPT ![msg.who] = "sharing"]
    [] msg.type = "stop" /\ old[msg.who] # "absent"  -> [old EXCEPT ![msg.who] = "watching"]
    [] OTHER -> old

Receive(b) ==
  /\ current[b] # 0 /\ out[current[b]] # <<>>
  /\ LET msg == Head(out[current[b]])
         greeting == msg.type = "welcome" IN
       /\ roster' = [roster EXCEPT ![b] = IF greeting THEN msg.peers ELSE Heard(@, msg)]
       /\ stage' = [stage EXCEPT ![b] = IF greeting THEN msg.stage
                                        ELSE IF msg.type = "stage" THEN msg.who ELSE @]
       /\ welcomed' = [welcomed EXCEPT ![b] = @ \/ greeting]
       /\ spoiled' = [spoiled EXCEPT ![b] = @ \/ (~greeting /\ ~welcomed[b])]
  /\ out' = [out EXCEPT ![current[b]] = Tail(@)]
  /\ UNCHANGED <<localVars, roomVars, mediaVars, countVars, current>>

-----------------------------------------------------------------------------
(* handleWS, up to its read loop.                                          *)

\* TakeOver: whatever is registered under the id is taken off the map.  The
\* closed Peer loses its write loop, its read loop goes on.
TakeOver(k) ==
  /\ Go(k, "resume", "join")
  /\ peers' = [peers EXCEPT ![owner[k]] = 0]
  /\ UNCHANGED <<owner, offering, held, pin, existing, publishing, target, spotlight, out,
                 mediaVars, countVars, browserVars>>

\* Fault variant: who is sharing is left out of what a newcomer is told.
Join_ForgetsSharing(k) ==
  /\ Go(k, "join", "announce")
  /\ existing' = [existing EXCEPT ![k] =
                    [b \in Browsers |-> IF peers[b] = 0 THEN "absent" ELSE "watching"]]
  /\ peers' = [peers EXCEPT ![owner[k]] = k]
  /\ UNCHANGED <<owner, offering, held, pin, publishing, target, spotlight, out,
                 mediaVars, countVars, browserVars>>

\* Join, its critical section: who is here, and then the newcomer.
Join(k) ==
  /\ Go(k, "join", "announce")
  /\ existing' = [existing EXCEPT ![k] = [b \in Browsers |-> Status(b)]]
  /\ peers' = [peers EXCEPT ![owner[k]] = k]
  /\ UNCHANGED <<owner, offering, held, pin, publishing, target, spotlight, out,
                 mediaVars, countVars, browserVars>>

AnnounceJoin(k) ==
  /\ Go(k, "announce", "welcome")
  /\ Broadcast("join", owner[k], owner[k])
  /\ UNCHANGED <<owner, offering, held, pin, existing, roomVars, mediaVars, countVars, browserVars>>

Welcoming(k, pinned) ==
  /\ Go(k, "welcome", "read")
  /\ out' = [out EXCEPT ![k] =
               Queued(k, [type |-> "welcome", peers |-> existing[k], stage |-> pinned])]
  /\ existing' = [existing EXCEPT ![k] = [b \in Browsers |-> "absent"]]
  /\ UNCHANGED <<owner, offering, held, pin, roomVars, mediaVars, countVars, browserVars>>

\* Fault variant: the welcome says nothing of the stage.
Welcome_NoStage(k) == Welcoming(k, NoOne)

\* The welcome: the peers as Join saw them, the stage as it is now.
Welcome(k) == Welcoming(k, spotlight)

-----------------------------------------------------------------------------
(* The read loop: sharing.                                                 *)

\* The goroutine takes a message.  A stale socket may still hold some.
Reading(k) == step[k] = "read" /\ (current[owner[k]] = k \/ StaleSockets)

\* ClearPublishTarget: the target of whoever is registered under the id of
\* this socket is forgotten, and its session is in hand for the teardown.
ClearTarget(k, ifAny, ifNone) ==
  LET p == peers[owner[k]]
      location == IF p = 0 THEN 0 ELSE target[p] IN
    /\ held' = [held EXCEPT ![k] = location]
    /\ target' = IF p = 0 THEN target ELSE [target EXCEPT ![p] = 0]
    /\ step' = [step EXCEPT ![k] = IF location = 0 THEN ifNone ELSE ifAny]

\* publish:stop, or publish:offer, which stops the share it replaces first.
ReadShare(k, offer) ==
  /\ Reading(k) /\ asked < MaxAsks
  /\ asked' = asked + 1
  /\ ClearTarget(k, "close", "mute")
  /\ offering' = [offering EXCEPT ![k] = offer]
  /\ UNCHANGED <<owner, pin, existing, peers, publishing, spotlight, out, mediaVars, pins,
                 browserVars>>

\* media.Close: the session ends if it is still the one on its path.
AfterClose(k) ==
  \/ step[k] = "close" /\ step' = [step EXCEPT ![k] = "mute"]
  \/ step[k] = "byeclose" /\ step' = [step EXCEPT ![k] = "leave"]

CloseShare(k) ==
  /\ AfterClose(k)
  /\ live' = [live EXCEPT ![owner[k]] = IF @ = held[k] THEN 0 ELSE @]
  /\ held' = [held EXCEPT ![k] = 0]
  /\ UNCHANGED <<owner, offering, pin, existing, roomVars, out, shares, countVars, browserVars>>

\* The teardown fails: logged.
CloseFails(k) ==
  /\ CloseMayFail /\ AfterClose(k)
  /\ held' = [held EXCEPT ![k] = 0]
  /\ UNCHANGED <<owner, offering, pin, existing, roomVars, out, mediaVars, countVars, browserVars>>

\* SetPublishing, its critical section.
SetPublishing(k, from, to, value) ==
  LET p == peers[owner[k]] IN
    /\ Go(k, from, to)
    /\ publishing' = IF p = 0 THEN publishing ELSE [publishing EXCEPT ![p] = value]
    /\ UNCHANGED <<owner, offering, held, pin, existing, peers, target, spotlight, out,
                   mediaVars, countVars, browserVars>>

Mute(k) == SetPublishing(k, "mute", "muted", FALSE)

\* The stop is announced, also by a browser that was not sharing.
AnnounceStop(k) ==
  /\ Go(k, "muted", IF offering[k] THEN "publish" ELSE "read")
  /\ Broadcast("stop", owner[k], owner[k])
  /\ UNCHANGED <<owner, offering, held, pin, existing, roomVars, mediaVars, countVars, browserVars>>

\* media.Publish: MediaMTX accepts the offer; on its path it replaces what
\* was there.
Publish(k) ==
  /\ Go(k, "publish", "target")
  /\ shares' = shares + 1
  /\ live' = [live EXCEPT ![owner[k]] = shares + 1]
  /\ held' = [held EXCEPT ![k] = shares + 1]
  /\ UNCHANGED <<owner, offering, pin, existing, roomVars, out, countVars, browserVars>>

\* Fault variant: a failed publish is announced like one that worked.
PublishFails_Announces(k) ==
  /\ Go(k, "publish", "unmute")
  /\ UNCHANGED <<owner, offering, held, pin, existing, roomVars, out, mediaVars, countVars,
                 browserVars>>

\* Fault variant: the failed offer is still pending when the next message is
\* read.
PublishFails_StaysPending(k) ==
  /\ Go(k, "publish", "read")
  /\ UNCHANGED <<owner, offering, held, pin, existing, roomVars, out, mediaVars, countVars,
                 browserVars>>

\* MediaMTX refuses or does not answer: the browser is told to retry.
PublishFails(k) ==
  /\ Go(k, "publish", "read")
  /\ offering' = [offering EXCEPT ![k] = FALSE]
  /\ UNCHANGED <<owner, held, pin, existing, roomVars, out, mediaVars, countVars, browserVars>>

\* SetPublishTarget, on whoever is registered under the id.
SetPublishTarget(k) ==
  LET p == peers[owner[k]] IN
    /\ Go(k, "target", "unmute")
    /\ target' = IF p = 0 THEN target ELSE [target EXCEPT ![p] = held[k]]
    /\ held' = [held EXCEPT ![k] = 0]
    /\ UNCHANGED <<owner, offering, pin, existing, peers, publishing, spotlight, out,
                   mediaVars, countVars, browserVars>>

Unmute(k) == SetPublishing(k, "unmute", "unmuted", TRUE)

AnnounceStart(k) ==
  /\ Go(k, "unmuted", "read")
  /\ offering' = [offering EXCEPT ![k] = FALSE]
  /\ Broadcast("start", owner[k], owner[k])
  /\ UNCHANGED <<owner, held, pin, existing, roomVars, mediaVars, countVars, browserVars>>

Share(k) ==
  \/ CloseShare(k) \/ CloseFails(k) \/ Mute(k) \/ AnnounceStop(k)
  \/ Publish(k) \/ PublishFails(k) \/ SetPublishTarget(k) \/ Unmute(k) \/ AnnounceStart(k)

-----------------------------------------------------------------------------
(* The read loop: the stage.                                               *)

\* SetSpotlight, its critical section: someone in the room, or no one.
SetSpotlight(k, who) ==
  /\ Reading(k) /\ asked < MaxAsks /\ pins < MaxPins
  /\ who \in Browsers => peers[who] # 0
  /\ asked' = asked + 1 /\ pins' = pins + 1
  /\ spotlight' = who
  /\ pin' = [pin EXCEPT ![k] = who]
  /\ step' = [step EXCEPT ![k] = "pinned"]
  /\ UNCHANGED <<owner, offering, held, existing, peers, publishing, target, out, mediaVars,
                 browserVars>>

AnnounceSpotlight(k) ==
  /\ Go(k, "pinned", "read")
  /\ Broadcast("stage", pin[k], NoOne)
  /\ pin' = [pin EXCEPT ![k] = NoOne]
  /\ UNCHANGED <<owner, offering, held, existing, roomVars, mediaVars, countVars, browserVars>>

-----------------------------------------------------------------------------
(* The end of handleWS.                                                    *)

\* Fault variant: the session is not closed.
ReadFails_KeepsShare(k) ==
  /\ Go(k, "read", "leave") /\ current[owner[k]] # k
  /\ UNCHANGED <<owner, offering, held, pin, existing, roomVars, out, mediaVars, countVars,
                 browserVars>>

\* conn.Read fails, and session.close forgets the target first.
ReadFails(k) ==
  /\ step[k] = "read" /\ current[owner[k]] # k
  /\ ClearTarget(k, "byeclose", "leave")
  /\ UNCHANGED <<owner, offering, pin, existing, peers, publishing, spotlight, out, mediaVars,
                 countVars, browserVars>>

\* Fault variant: a Peer leaves only if another took its place.
Leave_WrongWay(k) ==
  /\ Go(k, "leave", "left")
  /\ peers' = IF peers[owner[k]] = k THEN peers ELSE [peers EXCEPT ![owner[k]] = 0]
  /\ UNCHANGED <<owner, offering, held, pin, existing, publishing, target, spotlight, out,
                 mediaVars, countVars, browserVars>>

\* Leave, its critical section: the id is deleted, whoever holds it.
Leave(k) ==
  /\ Go(k, "leave", "left")
  /\ peers' = [peers EXCEPT ![owner[k]] = 0]
  /\ UNCHANGED <<owner, offering, held, pin, existing, publishing, target, spotlight, out,
                 mediaVars, countVars, browserVars>>

AnnounceLeave(k) ==
  /\ Go(k, "left", "gone")
  /\ Broadcast("leave", owner[k], owner[k])
  /\ UNCHANGED <<owner, offering, held, pin, existing, roomVars, mediaVars, countVars, browserVars>>

-----------------------------------------------------------------------------
\* What the goroutine of a socket does without waiting for its browser.
Handler(k) ==
  \/ TakeOver(k) \/ Join(k) \/ AnnounceJoin(k) \/ Welcome(k)
  \/ Share(k) \/ AnnounceSpotlight(k)
  \/ ReadFails(k) \/ Leave(k) \/ AnnounceLeave(k)

Asked(k) ==
  \/ \E offer \in BOOLEAN : ReadShare(k, offer)
  \/ \E who \in Browsers \cup {NoOne} : SetSpotlight(k, who)

Browser(b) == Drop(b) \/ Receive(b) \/ \E k \in Sockets : Connect(b, k)

Next ==
  \/ \E k \in Sockets : Handler(k) \/ Asked(k)
  \/ \E b \in Browsers : Browser(b)

Spec == Init /\ [][Next]_vars

\* Every goroutine is scheduled, the calls to MediaMTX have a deadline, and
\* TCP keep-alive ends a read from a peer that is gone.  Browsers read what
\* they are sent; they owe nothing else.
Fairness ==
  /\ \A k \in Sockets : WF_vars(Handler(k))
  /\ \A b \in Browsers : WF_vars(Receive(b))

FairSpec == Spec /\ Fairness

-----------------------------------------------------------------------------
(* Safety.                                                                 *)

\* No goroutine is in the middle of anything, and everything sent was read.
AtRest ==
  \A k \in Sockets :
    /\ step[k] \in {"none", "read", "gone"}
    /\ step[k] = "read" => current[owner[k]] = k /\ out[k] = <<>>

\* A session that the server opened in MediaMTX is always some goroutine's to
\* close, or the target of someone in the room.
NoOrphanShare ==
  \A b \in Browsers : live[b] # 0 =>
    \/ peers[b] # 0 /\ target[peers[b]] = live[b]
    \/ \E k \in Sockets : owner[k] = b /\ held[k] = live[b]

\* When things have come to rest, exactly the peers shown as sharing have a
\* session in MediaMTX, and it is the one that will be torn down.
SharingHasMedia ==
  AtRest => \A b \in Browsers :
    IF Status(b) = "sharing" THEN live[b] # 0 /\ target[peers[b]] = live[b]
                             ELSE live[b] = 0

\* A browser that was welcomed before it heard anything else believes what is
\* so of every other one, once things have come to rest.
RosterIsRight ==
  AtRest => \A b \in Browsers : current[b] # 0 /\ ~spoiled[b] =>
    \A x \in Browsers \ {b} : roster[b][x] = Status(x)

\* Everyone believes the same of the stage, newcomers included.
StageAgrees ==
  AtRest => \A b \in Browsers : current[b] # 0 => stage[b] = spotlight

(* Liveness.                                                               *)

\* The server catches up with every browser: one that is gone is taken off the
\* room, unless it comes back, and one that connects is welcomed, unless the
\* connection ends.
PresenceCatchesUp ==
  \A b \in Browsers :
    /\ current[b] = 0 ~> (peers[b] = 0 \/ current[b] # 0)
    /\ current[b] # 0 ~> (welcomed[b] \/ current[b] = 0)

(* What the comments say and the code does not do.                         *)

\* "a client that reconnects with its old identity slots back into the room".
ResumedIsIn == AtRest => \A b \in Browsers : current[b] # 0 => peers[b] = current[b]

\* "the newcomer immediately knows who is here and who is currently
\* publishing".
NewcomerKnows ==
  AtRest => \A b \in Browsers : current[b] # 0 =>
    \A x \in Browsers \ {b} : roster[b][x] = Status(x)

\* "a peer shown as sharing always has a path to pull".
SharingHasPath == \A b \in Browsers : Status(b) = "sharing" => target[peers[b]] # 0

\* "stale ids would otherwise survive the person leaving and keep the room
\* pinned to a ghost".
NoGhostOnStage == spotlight # NoOne => peers[spotlight] # 0
=============================================================================
