------------------------------- MODULE RoomViewers -------------------------------
(***************************************************************************)
(* tela-frontend, useRoom.ts: how one browser receives the share of one    *)
(* other person.  Messages of the room start and stop viewers; a viewer    *)
(* (screenViewer.ts) is a peer connection that works its way to its first  *)
(* track through several awaits, and `startViewer' tries again when one    *)
(* fails.  The refs viewersRef and pendingSubscribeRef hold at most one    *)
(* entry per person, which is how the code means to have one viewer each.  *)
(*                                                                         *)
(* What runs between two awaits is one action.  Offers are numbered, one   *)
(* for each viewer, so a viewer's number is its offer's `seq'.             *)
(***************************************************************************)
EXTENDS Naturals, Sequences, FiniteSets

CONSTANTS
  MaxViewers,   \* bound: viewers this browser creates
  MaxAttempts,  \* VIEWER_MAX_ATTEMPTS
  MaxShares,    \* bound: times the other person starts to share
  MaxReconnects \* bound: times this browser's socket is replaced

Viewers == 1..MaxViewers
None == 0

VARIABLES
  air,     \* whether the other person's share is live at the server
  inbox,   \* messages on the way to this browser, oldest first
  offers,  \* offers on the way to the server, oldest first
  tab,     \* what the refs of the tab hold, and its viewers
  shares, reconnects

vars == <<air, inbox, offers, tab, shares, reconnects>>

\* A viewer: the await it stands at, its attempt, and whether it holds an
\* open peer connection.
NoViewer == [step |-> "none", attempt |-> 0, open |-> FALSE]

Init ==
  /\ air = FALSE /\ inbox = <<>> /\ offers = <<>>
  /\ tab = [viewers |-> [v \in Viewers |-> NoViewer],
            map |-> None, pending |-> None, next |-> 1, stream |-> None]
  /\ shares = 0 /\ reconnects = 0

-----------------------------------------------------------------------------
(* The pieces the handlers are made of; each takes the tab and returns it.   *)

\* connect: a new viewer takes the entry and asks for the ICE servers.
Connect(t, attempt) ==
  [t EXCEPT !.viewers[t.next] = [step |-> "config", attempt |-> attempt, open |-> FALSE],
            !.map = t.next, !.next = t.next + 1]

\* startViewer: nothing when there is a viewer already.
StartViewer(t) == IF t.map = None THEN Connect(t, 1) ELSE t

\* The catch of connect.  The entries it deletes are found by the person, so
\* they may be those of a later viewer.
Caught(t, v, terminal) ==
  LET again == ~terminal /\ t.viewers[v].attempt < MaxAttempts
  IN [t EXCEPT !.viewers[v].open = FALSE,
               !.viewers[v].step = IF again THEN "wait" ELSE "over",
               !.map = None, !.pending = None]

\* Fault variant: the tile is left to the caller.
StopViewer_KeepsTile(t) ==
  LET closed == IF t.map = None THEN t ELSE [t EXCEPT !.viewers[t.map].open = FALSE]
  IN [closed EXCEPT !.map = None, !.pending = None]

\* stopViewer, without what its rejection sets off: closing a viewer that has
\* no peer connection yet does nothing to it.
StopViewer(t) ==
  LET closed == IF t.map = None THEN t ELSE [t EXCEPT !.viewers[t.map].open = FALSE]
  IN [closed EXCEPT !.map = None, !.pending = None, !.stream = None]

\* The offer that was pending when the handler began is rejected for good; its
\* viewer notices once the handler has returned.
Settled(t, pending) == IF pending = None THEN t ELSE Caught(t, pending, TRUE)

Stopped(t) == Settled(StopViewer(t), t.pending)

\* `welcome' stops every viewer and starts one for whoever publishes, before
\* the rejected offer is noticed.
Rebuilt(t, publishing) ==
  Settled(IF publishing THEN StartViewer(StopViewer(t)) ELSE StopViewer(t), t.pending)

\* subscribe:answer is for the offer it names and dropped if that one is not
\* pending; a viewer that was closed meanwhile cannot take it.
Answered(t, v) ==
  IF t.pending # v THEN t
  ELSE IF t.viewers[v].open
  THEN [t EXCEPT !.pending = None, !.viewers[v].step = "media"]
  ELSE Caught(t, v, FALSE)

\* subscribe:error names no offer: it rejects whichever is pending.
Refused(t, terminal) == IF t.pending = None THEN t ELSE Caught(t, t.pending, terminal)

-----------------------------------------------------------------------------
(* The other person and the server.                                          *)

Publish ==
  /\ ~air /\ shares < MaxShares
  /\ air' = TRUE /\ shares' = shares + 1
  /\ inbox' = Append(inbox, [type |-> "publish:start"])
  /\ UNCHANGED <<offers, tab, reconnects>>

\* publish:stop, or peer:leave: both stop the viewer.
Unpublish ==
  /\ air
  /\ air' = FALSE
  /\ inbox' = Append(inbox, [type |-> "publish:stop"])
  /\ UNCHANGED <<offers, tab, shares, reconnects>>

\* handleSubscribeOffer: refused for good when the share is not live; else
\* MediaMTX answers, or fails to and the browser may try again.
HandleSubscribeOffer ==
  /\ offers # <<>>
  /\ offers' = Tail(offers)
  /\ \E reply \in IF air THEN {[type |-> "subscribe:answer", seq |-> Head(offers)],
                              [type |-> "subscribe:error", terminal |-> FALSE]}
                        ELSE {[type |-> "subscribe:error", terminal |-> TRUE]} :
       inbox' = Append(inbox, reply)
  /\ UNCHANGED <<air, tab, shares, reconnects>>

\* The socket breaks and the next one is welcomed: what was on the way on the
\* old one, either way, is gone.
Reconnect ==
  /\ reconnects < MaxReconnects
  /\ reconnects' = reconnects + 1
  /\ inbox' = <<[type |-> "welcome", publishing |-> air]>>
  /\ offers' = <<>>
  /\ UNCHANGED <<air, tab, shares>>

(* The browser.                                                              *)

\* onmessage.
Message ==
  /\ inbox # <<>>
  /\ inbox' = Tail(inbox)
  /\ LET m == Head(inbox) IN
       \/ m.type = "publish:start" /\ tab' = StartViewer(tab)
       \/ m.type = "publish:stop" /\ tab' = Stopped(tab)
       \/ m.type = "welcome" /\ tab' = Rebuilt(tab, m.publishing)
       \/ m.type = "subscribe:answer" /\ tab' = Answered(tab, m.seq)
       \/ m.type = "subscribe:error" /\ tab' = Refused(tab, m.terminal)
  /\ tab'.next <= MaxViewers
  /\ UNCHANGED <<air, offers, shares, reconnects>>

At(v, step) == tab.viewers[v].step = step

\* The ICE servers are known: the peer connection is made.
GetsConfig(v) ==
  /\ At(v, "config")
  /\ tab' = [tab EXCEPT !.viewers[v].step = "offer", !.viewers[v].open = TRUE]
  /\ UNCHANGED <<air, inbox, offers, shares, reconnects>>

\* The offer has its candidates and is sent: `exchange' takes the entry of
\* pendingSubscribeRef.  This may happen to a viewer closed while it gathered.
Offers(v) ==
  /\ At(v, "offer")
  /\ tab' = [tab EXCEPT !.viewers[v].step = "exchange", !.pending = v]
  /\ offers' = Append(offers, v)
  /\ UNCHANGED <<air, inbox, shares, reconnects>>

\* createOffer or setLocalDescription of a closed peer connection rejects.
CannotOffer(v) ==
  /\ At(v, "offer") /\ ~tab.viewers[v].open
  /\ tab' = Caught(tab, v, FALSE)
  /\ UNCHANGED <<air, inbox, offers, shares, reconnects>>

\* The first track: the person's tile gets this viewer's stream.
FirstTrack(v) ==
  /\ At(v, "media") /\ tab.viewers[v].open
  /\ tab' = [tab EXCEPT !.viewers[v].step = "shown", !.stream = v]
  /\ UNCHANGED <<air, inbox, offers, shares, reconnects>>

\* Ten seconds without a track.
NoTrack(v) ==
  /\ At(v, "media")
  /\ tab' = Caught(tab, v, FALSE)
  /\ UNCHANGED <<air, inbox, offers, shares, reconnects>>

\* VIEWER_RETRY_MS later the next attempt begins, whatever has happened since.
TriesAgain(v) ==
  /\ At(v, "wait") /\ tab.next < MaxViewers
  /\ tab' = Connect([tab EXCEPT !.viewers[v].step = "over"], tab.viewers[v].attempt + 1)
  /\ UNCHANGED <<air, inbox, offers, shares, reconnects>>

\* The connection of a viewer breaks, or its track ends.
Breaks(v) ==
  /\ At(v, "shown") /\ tab.viewers[v].open
  /\ tab' = Stopped(tab)
  /\ UNCHANGED <<air, inbox, offers, shares, reconnects>>

Next ==
  \/ Publish \/ Unpublish \/ HandleSubscribeOffer \/ Reconnect
  \/ Message
  \/ \E v \in Viewers :
       \/ GetsConfig(v) \/ Offers(v) \/ CannotOffer(v)
       \/ FirstTrack(v) \/ NoTrack(v) \/ TriesAgain(v) \/ Breaks(v)

Spec == Init /\ [][Next]_vars

-----------------------------------------------------------------------------
(* Properties.                                                               *)

\* Nothing is on the way and no viewer is at work.
Rest ==
  /\ inbox = <<>> /\ offers = <<>>
  /\ \A v \in Viewers : tab.viewers[v].step \in {"none", "exchange", "shown", "over"}

\* A tile never plays the stream of a viewer that was closed, whatever shares,
\* retries and sockets came between (stopViewer drops the stream it made); and
\* once all has come to rest, the entry that keeps startViewer from starting
\* another viewer is of one that is open, or the person's next share would never
\* be seen.
HeldIsOpen ==
  /\ tab.stream # None => tab.viewers[tab.stream].open
  /\ Rest /\ tab.map # None => tab.viewers[tab.map].open

(* What a comment says and the code does not do.                             *)

\* "One WHEP viewer per remote publishing peer, by peer id": the browser never
\* holds two open connections for the share of one person.
OneViewerPerPublisher == Cardinality({v \in Viewers : tab.viewers[v].open}) <= 1
=============================================================================
