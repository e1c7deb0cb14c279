------------------------------- MODULE RoomKnock -------------------------------
(***************************************************************************)
(* tela-api and tela-frontend: entering a room without its password.  A    *)
(* visitor asks (POST .../knock) and polls for the answer from the lobby;  *)
(* whoever is inside sees a banner and answers over the WebSocket; an      *)
(* approval carries a token that stands in for the password for a while.   *)
(*                                                                         *)
(* A critical section of room.mu is one action, and the broadcast that     *)
(* follows it another.  Time passes in units of about a minute: every      *)
(* clock is the age of its stamp, which stops growing once it has passed   *)
(* every limit.                                                            *)
(***************************************************************************)
EXTENDS Naturals, Sequences, FiniteSets

CONSTANTS
  People,        \* browsers with the room's page open
  Hosts,         \* those among them who know the password
  MaxKnocks,     \* bound: requests made
  MaxQueue,      \* maxKnocksPerRoom
  KnockTTL,      \* knockTTL
  AdmitTTL,      \* admitTokenTTL
  MaxRestarts,   \* bound: restarts of tela-api
  InstantClicks  \* whether a request may be answered before it was announced

ASSUME KnockAssumption ==
  /\ Hosts \subseteq People
  /\ MaxKnocks \in Nat /\ MaxQueue \in Nat /\ MaxRestarts \in Nat
  /\ KnockTTL \in Nat /\ AdmitTTL \in Nat /\ KnockTTL + 2 <= AdmitTTL
  /\ InstantClicks \in BOOLEAN

Requests == 1..MaxKnocks
Password == 0        \* the credential that is not a token
Nothing  == 0

VARIABLES
  (* the room *)
  status,   \* status[r]: of a request; "gone" once it is off the map
  age,      \* age[r]: since CreatedAt
  since,    \* since[r]: since ApprovedAt
  made,     \* requests made so far
  restarts, \* restarts so far
  (* the goroutine of each person's socket *)
  conn,     \* how far the handshake is
  snap,     \* PendingKnocks, in hand until the welcome is sent
  telling,  \* the request whose answer it is about to announce
  box,      \* box[p]: messages on their way to p
  spoiled,  \* spoiled[p]: one slipped in before the welcome; properties only
  (* browsers *)
  page,     \* where each person is
  ticket,   \* ticket[p]: the request asked for, or whose token p enters with
  denied,   \* denied[p]: whether the lobby shows a refusal: "told", or "guessed" from an error
  reply,    \* the answer to a poll, on its way
  polled,   \* polled[p]: polled in this unit of time
  shown,    \* shown[p]: the banners on p's screen
  (* history *)
  first     \* first[r]: the first answer somebody gave

roomVars    == <<status, age, since, made, restarts>>
socketVars  == <<conn, snap, telling, box, spoiled>>
lobbyVars   == <<page, ticket, denied, reply, polled>>
vars == <<roomVars, socketVars, lobbyVars, shown, first>>

Statuses == {"none", "pending", "approved", "denied", "gone"}
Answers  == {"approved", "denied"}
Refusals == {"no", "told", "guessed"}
Messages == [type: {"request", "resolved"}, req: Requests]
Welcomes == [type: {"welcome"}, reqs: SUBSET Requests]

TypeOK ==
  /\ status \in [Requests -> Statuses]
  /\ age \in [Requests -> 0..(AdmitTTL + 1)] /\ since \in [Requests -> 0..(AdmitTTL + 1)]
  /\ made \in 0..MaxKnocks /\ restarts \in 0..MaxRestarts
  /\ conn \in [People -> {"out", "joined", "greeting", "in"}]
  /\ snap \in [People -> SUBSET Requests]
  /\ telling \in [People -> Requests \cup {Nothing}]
  /\ box \in [People -> Seq(Messages \cup Welcomes)]
  /\ spoiled \in [People -> BOOLEAN]
  /\ page \in [People -> {"gate", "asking", "lobby", "room"}]
  /\ ticket \in [People -> Requests \cup {Nothing}]
  /\ \A p \in People : ticket[p] = Nothing =>
       page[p] = "gate" \/ (page[p] = "room" /\ p \in Hosts)
  /\ denied \in [People -> Refusals]
  /\ reply \in [People -> Statuses] /\ polled \in [People -> BOOLEAN]
  /\ shown \in [People -> SUBSET Requests]
  /\ first \in [Requests -> Answers \cup {"none"}]

Init ==
  /\ status = [r \in Requests |-> "none"]
  /\ age = [r \in Requests |-> 0] /\ since = [r \in Requests |-> 0]
  /\ made = 0 /\ restarts = 0
  /\ conn = [p \in People |-> "out"] /\ snap = [p \in People |-> {}]
  /\ telling = [p \in People |-> Nothing]
  /\ box = [p \in People |-> <<>>] /\ spoiled = [p \in People |-> FALSE]
  /\ page = [p \in People |-> "gate"] /\ ticket = [p \in People |-> Nothing]
  /\ denied = [p \in People |-> "no"]
  /\ reply = [p \in People |-> "none"] /\ polled = [p \in People |-> FALSE]
  /\ shown = [p \in People |-> {}]
  /\ first = [r \in Requests |-> "none"]

-----------------------------------------------------------------------------
(* The room's requests.                                                    *)

Waiting == {r \in Requests : status[r] = "pending"}
Decided == {r \in Requests : status[r] \in Answers}

\* sweepKnocksLocked: a request nobody answered is dropped soon, a decided one
\* when a token made at the same time would have expired.
Stale == {r \in Waiting : age[r] > KnockTTL} \cup {r \in Decided : age[r] > AdmitTTL}

Swept == [r \in Requests |-> IF r \in Stale THEN "gone" ELSE status[r]]

\* Broadcast, to everyone registered.  One whose welcome is being put together
\* finds the message in its buffer before the welcome.
Broadcast(type, r) ==
  /\ box' = [p \in People |-> IF conn[p] = "out" THEN box[p]
                              ELSE Append(box[p], [type |-> type, req |-> r])]
  /\ spoiled' = [p \in People |-> spoiled[p] \/ conn[p] = "greeting"]

\* Knock, its critical section: the queue is swept, and may still be full.
Ask(p) ==
  /\ page[p] = "gate" /\ p \notin Hosts /\ made < MaxKnocks
  /\ Cardinality({r \in Requests : Swept[r] \in {"pending", "approved", "denied"}}) < MaxQueue
  /\ made' = made + 1
  /\ status' = [Swept EXCEPT ![made + 1] = "pending"]
  /\ page' = [page EXCEPT ![p] = "asking"]
  /\ ticket' = [ticket EXCEPT ![p] = made + 1]
  /\ UNCHANGED <<age, since, restarts, socketVars, denied, reply, polled, shown, first>>

\* Knock's broadcast, and then the answer to the POST: the lobby opens.
AnnounceAsk(p) ==
  /\ page[p] = "asking"
  /\ Broadcast("request", ticket[p])
  /\ page' = [page EXCEPT ![p] = "lobby"]
  /\ UNCHANGED <<roomVars, conn, snap, telling, ticket, denied, reply, polled, shown, first>>

Announced(r) == \A p \in People : page[p] = "asking" => ticket[p] # r

\* Fault variant: a second answer overrides the first.
ResolveKnock_Again(p, r, answer) ==
  /\ conn[p] = "in" /\ telling[p] = Nothing /\ r \in shown[p]
  /\ InstantClicks \/ Announced(r)
  /\ status[r] \in {"pending"} \cup Answers
  /\ status' = [status EXCEPT ![r] = answer]
  /\ since' = [since EXCEPT ![r] = 0]
  /\ first' = [first EXCEPT ![r] = IF @ = "none" THEN answer ELSE @]
  /\ telling' = [telling EXCEPT ![p] = r]
  /\ UNCHANGED <<age, made, restarts, conn, snap, box, spoiled, lobbyVars, shown>>

\* Someone inside clicks on a banner: ResolveKnock, its critical section.  A
\* request that was answered or dropped is left alone, and nobody is told.
ResolveKnock(p, r, answer) ==
  /\ conn[p] = "in" /\ telling[p] = Nothing /\ r \in shown[p]
  /\ InstantClicks \/ Announced(r)
  /\ status[r] = "pending"
  /\ status' = [status EXCEPT ![r] = answer]
  /\ since' = [since EXCEPT ![r] = 0]
  /\ first' = [first EXCEPT ![r] = IF @ = "none" THEN answer ELSE @]
  /\ telling' = [telling EXCEPT ![p] = r]
  /\ UNCHANGED <<age, made, restarts, conn, snap, box, spoiled, lobbyVars, shown>>

\* ResolveKnock's broadcast.
AnnounceAnswer(p) ==
  /\ telling[p] # Nothing
  /\ Broadcast("resolved", telling[p])
  /\ telling' = [telling EXCEPT ![p] = Nothing]
  /\ UNCHANGED <<roomVars, conn, snap, lobbyVars, shown, first>>

\* The janitor's pass over the room.
Sweep ==
  /\ Stale # {}
  /\ status' = Swept
  /\ UNCHANGED <<age, since, made, restarts, socketVars, lobbyVars, shown, first>>

-----------------------------------------------------------------------------
(* The way in.                                                             *)

\* CheckAdmitToken, or the password.
Admitted(p) ==
  \/ ticket[p] = Password
  \/ ticket[p] # Password /\ status[ticket[p]] = "approved" /\ since[ticket[p]] <= AdmitTTL

\* The page opens its WebSocket, and goes on trying while it is refused: the
\* credential is checked, and Join registers the socket.
Connect(p) ==
  /\ page[p] = "room" /\ conn[p] = "out" /\ Admitted(p)
  /\ conn' = [conn EXCEPT ![p] = "joined"]
  /\ UNCHANGED <<roomVars, snap, telling, box, spoiled, lobbyVars, shown, first>>

\* Fault variant: the welcome says nothing of the requests waiting.
PendingKnocks_Empty(p) ==
  /\ conn[p] = "joined"
  /\ status' = Swept
  /\ conn' = [conn EXCEPT ![p] = "greeting"]
  /\ UNCHANGED <<age, since, made, restarts, snap, telling, box, spoiled, lobbyVars, shown, first>>

\* PendingKnocks: the requests still waiting, for the welcome.
PendingKnocks(p) ==
  /\ conn[p] = "joined"
  /\ status' = Swept
  /\ snap' = [snap EXCEPT ![p] = {r \in Requests : Swept[r] = "pending"}]
  /\ conn' = [conn EXCEPT ![p] = "greeting"]
  /\ UNCHANGED <<age, since, made, restarts, telling, box, spoiled, lobbyVars, shown, first>>

Welcome(p) ==
  /\ conn[p] = "greeting"
  /\ box' = [box EXCEPT ![p] = Append(@, [type |-> "welcome", reqs |-> snap[p]])]
  /\ snap' = [snap EXCEPT ![p] = {}]
  /\ conn' = [conn EXCEPT ![p] = "in"]
  /\ UNCHANGED <<roomVars, telling, spoiled, lobbyVars, shown, first>>

\* The connection breaks.  A goroutine with an answer to announce still does.
Drop(p) ==
  /\ conn[p] # "out"
  /\ conn' = [conn EXCEPT ![p] = "out"]
  /\ box' = [box EXCEPT ![p] = <<>>]
  /\ snap' = [snap EXCEPT ![p] = {}]
  /\ spoiled' = [spoiled EXCEPT ![p] = FALSE]
  /\ UNCHANGED <<roomVars, telling, lobbyVars, shown, first>>

-----------------------------------------------------------------------------
(* Browsers.                                                               *)

\* Fault variant: the banner stays until its own tab answers.
Heard_KeepsBanner(old, msg) ==
  CASE msg.type = "welcome" -> msg.reqs
    [] msg.type = "request" -> old \cup {msg.req}
    [] OTHER -> old

\* onmessage: the banners after a message.
Heard(old, msg) ==
  CASE msg.type = "welcome"  -> msg.reqs
    [] msg.type = "request"  -> old \cup {msg.req}
    [] msg.type = "resolved" -> old \ {msg.req}

Receive(p) ==
  /\ box[p] # <<>>
  /\ shown' = [shown EXCEPT ![p] = Heard(@, Head(box[p]))]
  /\ box' = [box EXCEPT ![p] = Tail(@)]
  /\ UNCHANGED <<roomVars, conn, snap, telling, spoiled, lobbyVars, first>>

\* Someone who knows the password goes in with it.
Enter(p) ==
  /\ p \in Hosts /\ page[p] = "gate"
  /\ page' = [page EXCEPT ![p] = "room"]
  /\ ticket' = [ticket EXCEPT ![p] = Password]
  /\ UNCHANGED <<roomVars, socketVars, denied, reply, polled, shown, first>>

\* The page is closed or reloaded.  A token was only in its memory.
LeavePage(p) ==
  /\ page[p] = "room"
  /\ page' = [page EXCEPT ![p] = "gate"] /\ ticket' = [ticket EXCEPT ![p] = Nothing]
  /\ conn' = [conn EXCEPT ![p] = "out"] /\ box' = [box EXCEPT ![p] = <<>>]
  /\ snap' = [snap EXCEPT ![p] = {}] /\ shown' = [shown EXCEPT ![p] = {}]
  /\ spoiled' = [spoiled EXCEPT ![p] = FALSE]
  /\ UNCHANGED <<roomVars, telling, denied, reply, polled, first>>

\* The lobby polls: KnockLookup sweeps first, so an old request is not found.
Poll(p) ==
  /\ page[p] = "lobby" /\ reply[p] = "none"
  /\ status' = Swept
  /\ reply' = [reply EXCEPT ![p] = Swept[ticket[p]]]
  /\ UNCHANGED <<age, since, made, restarts, socketVars, page, ticket, denied, polled, shown, first>>

\* setDenied: the refusal, once shown, stays.
Refused(was, how) == IF was = "no" THEN how ELSE was

\* Fault variant: an approval is not told from other answers.
Answered_IgnoresApproval(p) ==
  /\ reply[p] # "none"
  /\ denied' = [denied EXCEPT ![p] = IF reply[p] = "pending" THEN @ ELSE Refused(@, "told")]
  /\ reply' = [reply EXCEPT ![p] = "none"] /\ polled' = [polled EXCEPT ![p] = TRUE]
  /\ UNCHANGED <<roomVars, socketVars, page, ticket, shown, first>>

\* The answer: in with the token, or refused; not found counts as refused.
Answered(p) ==
  /\ reply[p] # "none"
  /\ page' = [page EXCEPT ![p] = IF reply[p] = "approved" THEN "room" ELSE @]
  /\ denied' = [denied EXCEPT ![p] = CASE reply[p] = "approved" -> "no"
                                       [] reply[p] = "pending"  -> @
                                       [] OTHER                 -> Refused(@, "told")]
  /\ reply' = [reply EXCEPT ![p] = "none"]
  /\ polled' = [polled EXCEPT ![p] = reply[p] # "approved"]
  /\ UNCHANGED <<roomVars, socketVars, ticket, shown, first>>

\* Any error counts as refused.
PollFails(p) ==
  /\ page[p] = "lobby" /\ reply[p] = "none"
  /\ denied' = [denied EXCEPT ![p] = Refused(@, "guessed")] /\ polled' = [polled EXCEPT ![p] = TRUE]
  /\ UNCHANGED <<roomVars, socketVars, page, ticket, reply, shown, first>>

\* Cancelar or Voltar.  The request stays in the room.
GiveUp(p) ==
  /\ page[p] = "lobby"
  /\ page' = [page EXCEPT ![p] = "gate"] /\ ticket' = [ticket EXCEPT ![p] = Nothing]
  /\ denied' = [denied EXCEPT ![p] = "no"]
  /\ reply' = [reply EXCEPT ![p] = "none"] /\ polled' = [polled EXCEPT ![p] = FALSE]
  /\ UNCHANGED <<roomVars, socketVars, shown, first>>

-----------------------------------------------------------------------------
(* Time and restarts.                                                      *)

Older(n) == IF n > AdmitTTL THEN n ELSE n + 1

\* A unit of time is long beside a handler and the interval between two polls,
\* and the janitor passes once in each.
Tick ==
  /\ \A p \in People : page[p] # "asking" /\ conn[p] \in {"out", "in"}
                       /\ telling[p] = Nothing /\ (page[p] = "lobby" => polled[p])
  /\ Stale = {}
  /\ age' = [r \in Requests |-> IF r \in Waiting \cup Decided THEN Older(age[r]) ELSE 0]
  /\ since' = [r \in Requests |-> IF status[r] = "approved" THEN Older(since[r]) ELSE 0]
  /\ polled' = [p \in People |-> FALSE]
  /\ UNCHANGED <<status, made, restarts, socketVars, page, ticket, denied, reply, shown, first>>

\* tela-api restarts: requests and sockets are gone, the room is loaded again.
\* A POST that waited for its answer fails; polls and sockets are tried again.
Restart ==
  /\ restarts < MaxRestarts
  /\ restarts' = restarts + 1
  /\ status' = [r \in Requests |-> IF status[r] = "none" THEN "none" ELSE "gone"]
  /\ conn' = [p \in People |-> "out"] /\ snap' = [p \in People |-> {}]
  /\ telling' = [p \in People |-> Nothing]
  /\ box' = [p \in People |-> <<>>] /\ spoiled' = [p \in People |-> FALSE]
  /\ page' = [p \in People |-> IF page[p] = "asking" THEN "gate" ELSE page[p]]
  /\ ticket' = [p \in People |-> IF page[p] = "asking" THEN Nothing ELSE ticket[p]]
  /\ UNCHANGED <<age, since, made, denied, reply, polled, shown, first>>

\* What goes on by itself, as long as the program runs.
Running(p) ==
  \/ AnnounceAsk(p) \/ AnnounceAnswer(p) \/ Connect(p) \/ PendingKnocks(p) \/ Welcome(p)
  \/ Receive(p) \/ Poll(p) \/ Answered(p)

Person(p) ==
  \/ Ask(p) \/ Enter(p) \/ LeavePage(p) \/ GiveUp(p) \/ Drop(p) \/ PollFails(p)
  \/ \E r \in Requests, answer \in Answers : ResolveKnock(p, r, answer)

Next == (\E p \in People : Running(p) \/ Person(p)) \/ Sweep \/ Tick \/ Restart

Spec == Init /\ [][Next]_vars

-----------------------------------------------------------------------------
(* Properties.                                                             *)

\* Someone whose browser has caught up with the room.
UpToDate(p) == conn[p] = "in" /\ box[p] = <<>> /\ ~spoiled[p]

\* Nobody waits behind a door that no one is shown: once announced, a request
\* that waits is on the screen of everyone inside who has caught up, also of
\* those who came later (PendingKnocks, in the welcome).
WaitersAreShown ==
  \A r \in Waiting, p \in People : Announced(r) /\ UpToDate(p) => r \in shown[p]

\* A request that someone answered leaves every screen, "instead of staying
\* stuck for anyone who didn't click first" (ResolveKnock).
AnsweredAreGone ==
  \A r \in Requests, p \in People :
    /\ first[r] # "none" /\ (\A q \in People : telling[q] # r)
    /\ UpToDate(p)
    => r \notin shown[p]

\* Two people inside may answer at once.  The first answer counts: nobody is in
\* the room by a request that was refused or never answered.
RefusedStaysOut ==
  \A p \in People : conn[p] # "out" /\ ticket[p] # Password => first[ticket[p]] = "approved"

\* The refusal a lobby was told can be believed: the request waits no more, and
\* nobody had said yes, unless a restart forgot it.
DeniedMeansOver ==
  \A p \in People : page[p] = "lobby" /\ denied[p] = "told" =>
    /\ status[ticket[p]] # "pending"
    /\ first[ticket[p]] = "approved" => restarts > 0

(* What the comments say and the code does not do.                         *)

\* "A 404 here means the request expired -- treated the same as a denial": a
\* request whose lobby shows a refusal waits no more.
ErrorMeansExpired ==
  \A p \in People : page[p] = "lobby" /\ denied[p] # "no" => status[ticket[p]] # "pending"

\* "the banner disappears everywhere at once instead of staying stuck": a banner
\* is about a request that still waits, unless its answer is being announced.
BannersWait ==
  \A p \in People : UpToDate(p) =>
    \A r \in shown[p] : status[r] = "pending" \/ \E q \in People : telling[q] = r

\* The approved person's browser can reconnect "for its whole TTL".
ApprovalLasts ==
  [][\A r \in Requests : status[r] = "approved" /\ since[r] <= AdmitTTL /\ restarts' = restarts =>
       status'[r] = "approved"]_vars

\* "(a network blip, a reload) without a second knock".
ReloadNeedsNoKnock ==
  [][\A p \in People : page[p] = "room" /\ Admitted(p) /\ page'[p] # "room" =>
       ticket'[p] = ticket[p]]_vars

\* "someone joining mid-wait sees requests that were broadcast before they
\* connected, not just new ones".
NewcomersCatchUp ==
  \A r \in Waiting, p \in People :
    Announced(r) /\ conn[p] = "in" /\ box[p] = <<>> => r \in shown[p]

================================================================================
