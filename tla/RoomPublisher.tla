------------------------------ MODULE RoomPublisher ------------------------------
(***************************************************************************)
(* tela-frontend: how one browser sends its own share.  The panel of       *)
(* Room.tsx asks for a capture (`confirmShare'), useRoom.ts publishes it   *)
(* through a publisher (screenPublisher.ts: a peer connection that works   *)
(* its way to MediaMTX's answer through several awaits), tries again, and  *)
(* publishes it once more when the connection fails or the socket was      *)
(* replaced; ws.go relays offers and stops to MediaMTX.                    *)
(*                                                                         *)
(* What runs between two awaits is one action.  Offers are numbered, one   *)
(* for each publisher, so a publisher's number is its offer's `seq'.       *)
(***************************************************************************)
EXTENDS Naturals, Sequences, FiniteSets

CONSTANTS
  Keys, NoKey,   \* what can be shared: a screen surface or the camera
  MaxCaptures,   \* bound: captures the browser grants
  MaxPublishers, \* bound: publishers this tab creates
  MaxAttempts,   \* VIEWER_MAX_ATTEMPTS
  MaxDrops,      \* bound: times the socket is lost, or the room is reset
  MaxFailures    \* bound: connections that fail after they were up

Captures == 1..MaxCaptures
Publishers == 1..MaxPublishers
None == 0

VARIABLES
  ws,        \* whether the socket is open
  toServer,  \* what the tab has sent, oldest first
  toTab,     \* what the server has sent, oldest first
  air,       \* the publisher whose offer the server shows as this peer's share
  tab,       \* the tab's refs, captures and publishers
  spent      \* what is used up of the bounds

vars == <<ws, toServer, toTab, air, tab, spent>>

\* A publisher: the await it stands at, its capture and attempt, who called
\* publishStream, and whether its peer connection is open.
NoPublisher == [step |-> "none", capture |-> None, attempt |-> 0, by |-> "start",
                open |-> FALSE]

\* starting stands for startingRef and for the panel's own flag, which are set
\* and cleared together; source for what was asked for; local for localStreamRef
\* and the state beside it.
Init ==
  /\ ws = TRUE /\ toServer = <<>> /\ toTab = <<>> /\ air = None
  /\ tab = [starting |-> "idle", source |-> NoKey, local |-> None, next |-> 1,
            live |-> {}, pubs |-> [v \in Publishers |-> NoPublisher],
            publisher |-> None, pending |-> None, new |-> 1, retried |-> FALSE, left |-> FALSE]
  /\ spent = [drops |-> 0, failures |-> 0]

-----------------------------------------------------------------------------
(* The pieces the handlers are made of; each takes the tab and returns it.   *)

\* ScreenPublisher.stop: nothing to a publisher without a peer connection yet.
Closed(t, v) == IF v = None THEN t ELSE [t EXCEPT !.pubs[v].open = FALSE]

\* attemptPublish.
AttemptPublish(t, c, attempt, by) ==
  [t EXCEPT !.pubs[t.new] = [NoPublisher EXCEPT !.step = "config", !.capture = c,
                                               !.attempt = attempt, !.by = by],
            !.publisher = t.new, !.new = t.new + 1]

PublishStream(t, by) == AttemptPublish(Closed(t, t.publisher), t.local, 1, by)

\* start threw: the loop of publishStream tries again after a transient miss;
\* else its caller gives up, and only startSharing says so.
Failed(t, v, retryable) ==
  LET p == t.pubs[v]
      again == retryable /\ p.attempt < MaxAttempts
      closed == [Closed(t, v) EXCEPT !.pubs[v].step = IF again THEN "wait" ELSE "over"]
  IN IF again \/ p.by # "start" THEN closed
     ELSE [closed EXCEPT !.starting = "idle"]

\* publish:answer is for the offer it names, and dropped if that one is not
\* pending.  A publisher that was closed meanwhile cannot take it.
Answered(t, seq) ==
  LET v == t.pending
      taken == [t EXCEPT !.pending = None]
  IN IF v = None \/ seq # v THEN t
     ELSE IF ~t.pubs[v].open THEN Failed(taken, v, FALSE)
     ELSE [taken EXCEPT !.pubs[v].step = "up",
                        !.starting = IF t.pubs[v].by = "start" THEN "idle" ELSE @]

\* publish:error names no offer: it rejects whichever is pending.
Refused(t) ==
  IF t.pending = None THEN t
  ELSE Failed([t EXCEPT !.pending = None], t.pending, TRUE)

\* The capture survived the disconnect: it is offered again.
Welcomed(t) == IF t.local = None THEN t ELSE PublishStream(t, "welcome")

\* stopSharing and stopPublishingTransport.  Who waits for the pending answer
\* is not told.
StopSharing(t) ==
  [Closed(t, t.publisher) EXCEPT !.publisher = None, !.pending = None, !.retried = FALSE,
                                 !.live = @ \ {t.local}, !.local = None, !.source = NoKey]

\* startSharing up to the browser's picker.
StartSharing(t, key) ==
  [t EXCEPT !.starting = "picker", !.source = key, !.retried = FALSE]

\* One capture, one recovery.
Republish(t) ==
  IF t.local = None \/ t.retried THEN t
  ELSE PublishStream([t EXCEPT !.retried = TRUE], "recovery")

\* send drops what it is given while the socket is not open.
Send(m) == toServer' = IF ws THEN Append(toServer, m) ELSE toServer

Offer(v) == [type |-> "publish:offer", seq |-> v]
Stop == [type |-> "publish:stop", seq |-> None]

-----------------------------------------------------------------------------
(* The server.                                                               *)

\* stopPublishing; handlePublishOffer, which replaces the share there was, and
\* whose call to MediaMTX may fail.
ReadLoop ==
  /\ toServer # <<>>
  /\ toServer' = Tail(toServer)
  /\ LET m == Head(toServer) IN
       \/ m.type = "publish:stop" /\ air' = None /\ UNCHANGED toTab
       \/ /\ m.type = "publish:offer" /\ air' = m.seq
          /\ toTab' = Append(toTab, [type |-> "publish:answer", seq |-> m.seq])
       \/ /\ m.type = "publish:offer" /\ air' = None
          /\ toTab' = Append(toTab, [type |-> "publish:error", seq |-> None])
  /\ UNCHANGED <<ws, tab, spent>>

\* The socket is lost, or closed because someone reset the room: what was on the
\* way is gone, and the server drops the peer with its share.
Disconnect ==
  /\ ws /\ ~tab.left /\ spent.drops < MaxDrops
  /\ ws' = FALSE /\ toServer' = <<>> /\ toTab' = <<>> /\ air' = None
  /\ spent' = [spent EXCEPT !.drops = @ + 1]
  /\ UNCHANGED tab

Reconnect ==
  /\ ~ws /\ ~tab.left
  /\ ws' = TRUE /\ toTab' = <<[type |-> "welcome", seq |-> None]>>
  /\ UNCHANGED <<toServer, air, tab, spent>>

(* The person.                                                               *)

\* Fault variant: a change of source leaves the share there is to startSharing.
ConfirmShare_Swaps(key) ==
  /\ ~tab.left /\ tab.starting = "idle"
  /\ tab.local = None \/ tab.source # key
  /\ tab' = StartSharing(tab, key)
  /\ UNCHANGED <<ws, toServer, toTab, air, spent>>

\* confirmShare: a change of source stops the share there is; a change of
\* quality alone retunes the encoder, which changes nothing here.
ConfirmShare(key) ==
  /\ ~tab.left /\ tab.starting = "idle"
  /\ \/ /\ tab.local = None
        /\ tab' = StartSharing(tab, key) /\ UNCHANGED toServer
     \/ /\ tab.local # None /\ tab.source # key
        /\ tab' = StartSharing(StopSharing(tab), key) /\ Send(Stop)
  /\ UNCHANGED <<ws, toTab, air, spent>>

\* The picker is dismissed, or the capture refused.
PickerDismissed ==
  /\ tab.starting = "picker"
  /\ tab' = [tab EXCEPT !.starting = "idle", !.source = NoKey]
  /\ UNCHANGED <<ws, toServer, toTab, air, spent>>

\* The capture is granted, whatever has happened to the page meanwhile.
Captured ==
  /\ tab.starting = "picker" /\ tab.next <= MaxCaptures /\ tab.new <= MaxPublishers
  /\ LET c == tab.next IN
       tab' = PublishStream(
                [tab EXCEPT !.starting = "handshake", !.local = c, !.next = c + 1,
                            !.live = @ \cup {c}], "start")
  /\ UNCHANGED <<ws, toServer, toTab, air, spent>>

\* The button Parar, there as soon as there is a capture.
ClickStop ==
  /\ ~tab.left /\ tab.local # None
  /\ tab' = StopSharing(tab) /\ Send(Stop)
  /\ UNCHANGED <<ws, toTab, air, spent>>

\* The page is left: the effect's cleanup.
Leave ==
  /\ ~tab.left
  /\ ws' = FALSE /\ toServer' = <<>> /\ toTab' = <<>> /\ air' = None
  /\ tab' = [Closed(tab, tab.publisher) EXCEPT !.publisher = None, !.left = TRUE,
                                               !.live = @ \ {tab.local}, !.local = None,
                                               !.source = NoKey]
  /\ UNCHANGED spent

(* The browser.                                                              *)

\* onmessage.
Message ==
  /\ toTab # <<>>
  /\ toTab' = Tail(toTab)
  /\ LET m == Head(toTab) IN
       \/ m.type = "welcome" /\ tab.new <= MaxPublishers /\ tab' = Welcomed(tab)
       \/ m.type = "publish:answer" /\ tab' = Answered(tab, m.seq)
       \/ m.type = "publish:error" /\ tab' = Refused(tab)
  /\ UNCHANGED <<ws, toServer, air, spent>>

At(v, step) == tab.pubs[v].step = step

\* The ICE servers are known: the peer connection is made.
GetsConfig(v) ==
  /\ At(v, "config")
  /\ tab' = [tab EXCEPT !.pubs[v].step = "offer", !.pubs[v].open = TRUE]
  /\ UNCHANGED <<ws, toServer, toTab, air, spent>>

\* The candidates are gathered and `exchange' sends the offer.  This may happen
\* to a publisher that was closed while it gathered.
Offers(v) ==
  /\ At(v, "offer")
  /\ tab' = [tab EXCEPT !.pubs[v].step = "exchange", !.pending = v]
  /\ Send(Offer(v))
  /\ UNCHANGED <<ws, toTab, air, spent>>

\* createOffer or setLocalDescription of a closed peer connection rejects.
CannotOffer(v) ==
  /\ At(v, "offer") /\ ~tab.pubs[v].open
  /\ tab' = Failed(tab, v, FALSE)
  /\ UNCHANGED <<ws, toServer, toTab, air, spent>>

\* VIEWER_RETRY_MS later, whatever has become of the capture.
TriesAgain(v) ==
  /\ At(v, "wait") /\ tab.new <= MaxPublishers
  /\ LET p == tab.pubs[v] IN
       tab' = AttemptPublish([tab EXCEPT !.pubs[v].step = "over"], p.capture, p.attempt + 1, p.by)
  /\ UNCHANGED <<ws, toServer, toTab, air, spent>>

\* The connection of a publisher fails: onBroken.
Breaks(v) ==
  /\ At(v, "up") /\ tab.pubs[v].open
  /\ tab.new <= MaxPublishers /\ spent.failures < MaxFailures
  /\ spent' = [spent EXCEPT !.failures = @ + 1]
  /\ tab' = Republish([tab EXCEPT !.pubs[v].step = "broken"])
  /\ UNCHANGED <<ws, toServer, toTab, air>>

\* The person ends the capture from the browser's own bar.  Publishers listen to
\* the track from the moment they have a peer connection.
TrackEnds(c) ==
  /\ c \in tab.live
  /\ LET ended == [tab EXCEPT !.live = @ \ {c}] IN
     IF \E v \in Publishers : tab.pubs[v].capture = c /\ ~At(v, "config")
     THEN tab' = StopSharing(ended) /\ Send(Stop)
     ELSE tab' = ended /\ UNCHANGED toServer
  /\ UNCHANGED <<ws, toTab, air, spent>>

-----------------------------------------------------------------------------
Next ==
  \/ ReadLoop \/ Disconnect \/ Reconnect
  \/ \E key \in Keys : ConfirmShare(key)
  \/ PickerDismissed \/ Captured \/ ClickStop \/ Leave \/ Message
  \/ \E v \in Publishers :
       GetsConfig(v) \/ Offers(v) \/ CannotOffer(v) \/ TriesAgain(v) \/ Breaks(v)
  \/ \E c \in Captures : TrackEnds(c)

Spec == Init /\ [][Next]_vars

-----------------------------------------------------------------------------
(* Properties.                                                               *)

\* "leaving a hot camera or screen grab with nothing holding it" (Room.tsx:
\* 686-688): in the room, whatever is being captured is the share one can stop,
\* over any change of source, failed handshake, retry or new socket.
CaptureIsHeld == ~tab.left => tab.live \subseteq {tab.local}

(* What the comments say and the code does not do.                           *)

\* Nothing is on the way, at work or in front of the person.
Rest ==
  /\ ws /\ toServer = <<>> /\ toTab = <<>> /\ tab.starting # "picker"
  /\ \A v \in Publishers : ~(At(v, "config") \/ At(v, "offer") \/ At(v, "wait"))

\* startingRef is "dismissed the moment sharing starts"; `starting' lasts "until
\* the capture settles": once everything has come to rest one can share again.
StartIsDismissed == Rest => tab.starting = "idle"

\* After a stop the room does not show this person as sharing.
StoppedIsOff == Rest /\ tab.local = None => air = None

\* "one WHIP publisher for the room".
OnePublisher == Cardinality({v \in Publishers : tab.pubs[v].open}) <= 1

\* Whoever has left the room is no longer captured.
LeavingEndsCapture == tab.left => tab.live = {}
=============================================================================
