------------------------------ MODULE RoomRegistry ------------------------------
(***************************************************************************)
(* tela-api: the life of rooms.  Handlers create and delete them, a        *)
(* janitor drops the empty and the old ones, a reaper warns the idle ones  *)
(* and then closes them, and every change of the set is written to a file  *)
(* that the next process loads.                                            *)
(*                                                                         *)
(* A critical section of the registry's mutex is one action, and so are    *)
(* each broadcast and each call to the file system.  Every time is the age *)
(* of its stamp, which stops growing once it has passed every limit.  Who  *)
(* is in a room is kept as a set: sockets, names and shares are            *)
(* RoomPresence's, requests to enter RoomKnock's.                          *)
(***************************************************************************)
EXTENDS Naturals, FiniteSets

CONSTANTS
  People,
  MaxMade,     \* bound: rooms created
  MaxRooms,    \* maxRooms
  EmptyGrace,  \* emptyRoomGrace
  MaxAge,      \* maxRoomAge
  Idle,        \* TELA_ROOM_IDLE_TIMEOUT
  Grace,       \* TELA_ROOM_IDLE_GRACE
  Handlers,    \* HTTP requests that can be served at the same time
  MaxRestarts, \* bound: restarts of tela-api
  Overlap      \* whether the set may change while it is being written

Janitor == "janitor"
Reaper  == "reaper"
Writers == Handlers \cup {Janitor, Reaper}

ASSUME RegistryAssumption ==
  /\ MaxMade \in Nat /\ MaxRooms \in Nat /\ MaxRestarts \in Nat
  /\ EmptyGrace \in Nat /\ MaxAge \in Nat /\ Idle \in Nat /\ Grace \in Nat
  /\ Janitor \notin Handlers /\ Reaper \notin Handlers
  /\ Overlap \in BOOLEAN

Rooms   == 1..MaxMade
NoRoom  == 0
Unset   == EmptyGrace + 2   \* emptyAt while anyone is connected
NoAlarm == Grace + 1        \* closingAt while the room is not closing
Torn    == {NoRoom}         \* a file that does not parse
Missing == {MaxMade + 1}    \* no file

VARIABLES
  (* the registry *)
  listed,   \* the rooms in the map
  made,     \* rooms created so far
  created,  \* created[r]: age of CreatedAt
  emptyFor, \* emptyFor[r]: age of emptyAt
  quiet,    \* quiet[r]: age of lastPublishChange
  closing,  \* closing[r]: time left until closingAt
  here,     \* here[r]: who is registered in the room
  sharing,  \* who is publishing
  todo,     \* what the reaper has left to tell
  (* the file *)
  wstep,    \* how far each writer is
  job,      \* the room a handler creates or deletes, and which of the two
  image,    \* the set a writer took
  opened,   \* where the file that a writer opened is now
  tmp, file,
  (* people *)
  step,     \* step[p]: how far p's socket is
  at,       \* at[p]: the room whose page p has open
  popup,    \* popup[p]: the countdown is on p's screen
  snap,     \* ClosingAtMillis, in hand until the welcome is sent
  keeping,  \* keeping[p]: p's keep-alive has a countdown to withdraw
  expelled, \* expelled[p]: room:closed has reached p
  spoiled,  \* spoiled[p]: a warning slipped in before the welcome; properties only
  (* history *)
  restarts,
  answered, \* rooms whose POST was answered
  deleted,  \* rooms whose DELETE was answered
  removed   \* rooms that were taken off the map

roomVars   == <<listed, made, created, emptyFor, quiet, closing>>
hereVars   == <<here, sharing>>
fileVars   == <<wstep, job, image, opened, tmp, file>>
peopleVars == <<step, at, popup, snap, keeping, expelled, spoiled>>
history    == <<restarts, answered, deleted, removed>>
vars == <<roomVars, hereVars, todo, fileVars, peopleVars, history>>

NoJob == [kind |-> "none", room |-> NoRoom]
Jobs == [kind: {"create", "delete"}, room: Rooms] \cup {NoJob}
Told == [room: Rooms, kind: {"cancel", "warn", "expired"}]
Connected == {p \in People : step[p] \in {"joined", "greeting", "in"}}

RoomsOK ==
  /\ listed \subseteq Rooms /\ made \in 0..MaxMade
  /\ created \in [Rooms -> 0..(MaxAge + 1)]
  /\ emptyFor \in [Rooms -> 0..Unset] /\ quiet \in [Rooms -> 0..(Idle + 1)]
  /\ closing \in [Rooms -> 0..NoAlarm]
  /\ todo \subseteq Told
  /\ restarts \in 0..MaxRestarts
  /\ answered \subseteq Rooms /\ deleted \subseteq Rooms /\ removed \subseteq Rooms

FileOK ==
  /\ wstep \in [Writers -> {"idle", "snapshot", "open", "write", "rename", "answer"}]
  /\ job \in [Handlers -> Jobs] /\ image \in [Writers -> SUBSET Rooms]
  /\ opened \in [Writers -> {"none", "tmp", "file", "lost"}]
  /\ {tmp, file} \subseteq (SUBSET Rooms) \cup {Torn, Missing}
  /\ \A h \in Handlers : wstep[h] # "idle" <=> job[h] # NoJob

\* Each is in the room whose page shows it and in no other, and a room is
\* empty exactly while its clock runs.
PresenceOK ==
  /\ here \in [Rooms -> SUBSET People] /\ sharing \subseteq Connected
  /\ step \in [People -> {"home", "out", "allowed", "joined", "greeting", "in"}]
  /\ at \in [People -> Rooms \cup {NoRoom}] /\ \A p \in People : at[p] = NoRoom <=> step[p] = "home"
  /\ \A p \in People, r \in Rooms : p \in here[r] <=> p \in Connected /\ at[p] = r
  /\ \A r \in Rooms : here[r] = {} <=> emptyFor[r] # Unset

FlagsOK ==
  /\ popup \in [People -> BOOLEAN] /\ snap \in [People -> BOOLEAN]
  /\ keeping \in [People -> BOOLEAN] /\ expelled \in [People -> BOOLEAN]
  /\ spoiled \in [People -> BOOLEAN]

TypeOK == RoomsOK /\ FileOK /\ PresenceOK /\ FlagsOK

Init ==
  /\ listed = {} /\ made = 0
  /\ created = [r \in Rooms |-> 0] /\ emptyFor = [r \in Rooms |-> 0]
  /\ quiet = [r \in Rooms |-> 0] /\ closing = [r \in Rooms |-> NoAlarm]
  /\ here = [r \in Rooms |-> {}] /\ sharing = {} /\ todo = {}
  /\ wstep = [w \in Writers |-> "idle"] /\ job = [h \in Handlers |-> NoJob]
  /\ image = [w \in Writers |-> {}] /\ opened = [w \in Writers |-> "none"]
  /\ tmp = Missing /\ file = Missing
  /\ step = [p \in People |-> "home"] /\ at = [p \in People |-> NoRoom]
  /\ popup = [p \in People |-> FALSE] /\ snap = [p \in People |-> FALSE]
  /\ keeping = [p \in People |-> FALSE] /\ expelled = [p \in People |-> FALSE]
  /\ spoiled = [p \in People |-> FALSE]
  /\ restarts = 0 /\ answered = {} /\ deleted = {} /\ removed = {}

-----------------------------------------------------------------------------
(* persist: the set is read under the lock, written to a temporary file    *)
(* and renamed.  No lock covers the three.                                 *)

MayWrite(w) == wstep[w] = "idle" /\ (Overlap \/ \A v \in Writers : wstep[v] = "idle")

Begins(w) == wstep' = [wstep EXCEPT ![w] = "snapshot"]

Snapshot(w) ==
  /\ wstep[w] = "snapshot" /\ (w = Reaper => todo = {})
  /\ image' = [image EXCEPT ![w] = listed]
  /\ wstep' = [wstep EXCEPT ![w] = "open"]
  /\ UNCHANGED <<roomVars, hereVars, todo, job, opened, tmp, file, peopleVars, history>>

\* Fault variant: the file itself is opened, and cut to nothing.
OpenTmp_InPlace(w) ==
  /\ wstep[w] = "open"
  /\ file' = Torn
  /\ opened' = [opened EXCEPT ![w] = "file"]
  /\ wstep' = [wstep EXCEPT ![w] = "write"]
  /\ UNCHANGED <<roomVars, hereVars, todo, job, image, tmp, peopleVars, history>>

\* os.WriteFile opens the temporary file and cuts it to nothing.
OpenTmp(w) ==
  /\ wstep[w] = "open"
  /\ tmp' = Torn
  /\ opened' = [opened EXCEPT ![w] = "tmp"]
  /\ wstep' = [wstep EXCEPT ![w] = "write"]
  /\ UNCHANGED <<roomVars, hereVars, todo, job, image, file, peopleVars, history>>

\* ... and writes it, wherever another writer has renamed it to since.
WriteTmp(w) ==
  /\ wstep[w] = "write"
  /\ tmp' = IF opened[w] = "tmp" THEN image[w] ELSE tmp
  /\ file' = IF opened[w] = "file" THEN image[w] ELSE file
  /\ opened' = [opened EXCEPT ![w] = "none"]
  /\ image' = [image EXCEPT ![w] = {}]
  /\ wstep' = [wstep EXCEPT ![w] = "rename"]
  /\ UNCHANGED <<roomVars, hereVars, todo, job, peopleVars, history>>

AfterRename(w) == wstep' = [wstep EXCEPT ![w] = IF w \in Handlers THEN "answer" ELSE "idle"]

\* The temporary file becomes the file, if there is one: otherwise the error
\* is dropped.
Rename(w) ==
  /\ wstep[w] = "rename" /\ AfterRename(w)
  /\ file' = IF tmp = Missing THEN file ELSE tmp
  /\ tmp' = Missing
  /\ opened' = IF tmp = Missing THEN opened
               ELSE [v \in Writers |-> CASE opened[v] = "tmp" -> "file"
                                         [] opened[v] = "file" -> "lost"
                                         [] OTHER -> opened[v]]
  /\ UNCHANGED <<roomVars, hereVars, todo, job, image, peopleVars, history>>

\* The handler answers.
Answer(h) ==
  /\ wstep[h] = "answer"
  /\ answered' = IF job[h].kind = "create" THEN answered \cup {job[h].room} ELSE answered
  /\ deleted' = IF job[h].kind = "delete" THEN deleted \cup {job[h].room} ELSE deleted
  /\ job' = [job EXCEPT ![h] = NoJob]
  /\ wstep' = [wstep EXCEPT ![h] = "idle"]
  /\ UNCHANGED <<roomVars, hereVars, todo, image, opened, tmp, file, peopleVars, restarts, removed>>

Persist(w) == Snapshot(w) \/ OpenTmp(w) \/ WriteTmp(w) \/ Rename(w)

-----------------------------------------------------------------------------
(* Create and delete.                                                      *)

\* Create: a new code, unless there are too many rooms.
Create(h) ==
  /\ MayWrite(h) /\ made < MaxMade /\ Cardinality(listed) < MaxRooms
  /\ made' = made + 1
  /\ listed' = listed \cup {made + 1}
  /\ Begins(h)
  /\ job' = [job EXCEPT ![h] = [kind |-> "create", room |-> made + 1]]
  /\ UNCHANGED <<created, emptyFor, quiet, closing, hereVars, todo, image, opened, tmp, file,
                 peopleVars, history>>

\* Fault variant: a deleted room is not written off.
Delete_NoPersist(h, r) ==
  /\ MayWrite(h) /\ r \in listed
  /\ listed' = listed \ {r} /\ removed' = removed \cup {r}
  /\ wstep' = [wstep EXCEPT ![h] = "answer"]
  /\ job' = [job EXCEPT ![h] = [kind |-> "delete", room |-> r]]
  /\ UNCHANGED <<made, created, emptyFor, quiet, closing, hereVars, todo, image, opened, tmp, file,
                 peopleVars, restarts, answered, deleted>>

\* Delete: the room is off the map, whoever is in it.
Delete(h, r) ==
  /\ MayWrite(h) /\ r \in listed
  /\ listed' = listed \ {r} /\ removed' = removed \cup {r}
  /\ Begins(h)
  /\ job' = [job EXCEPT ![h] = [kind |-> "delete", room |-> r]]
  /\ UNCHANGED <<made, created, emptyFor, quiet, closing, hereVars, todo, image, opened, tmp, file,
                 peopleVars, restarts, answered, deleted>>

-----------------------------------------------------------------------------
(* The janitor.                                                            *)

\* Fault variant: a room lasts as long as someone is in it.
Expired_OnlyEmpty ==
  {r \in listed : here[r] = {} /\ emptyFor[r] # Unset /\ emptyFor[r] > EmptyGrace}

\* Empty for too long, or too old.
Expired ==
  {r \in listed : \/ here[r] = {} /\ emptyFor[r] # Unset /\ emptyFor[r] > EmptyGrace
                  \/ created[r] > MaxAge}

Sweep ==
  /\ Expired # {} /\ MayWrite(Janitor)
  /\ listed' = listed \ Expired /\ removed' = removed \cup Expired
  /\ Begins(Janitor)
  /\ UNCHANGED <<made, created, emptyFor, quiet, closing, hereVars, todo, job, image, opened, tmp,
                 file, peopleVars, restarts, answered, deleted>>

-----------------------------------------------------------------------------
(* The reaper.                                                             *)

\* idleTick: what one pass does with a room.
Verdict(r) ==
  IF here[r] \cap sharing # {} \/ quiet[r] <= Idle
  THEN IF closing[r] = NoAlarm THEN "none" ELSE "cancel"
  ELSE CASE closing[r] = NoAlarm -> "warn"
         [] closing[r] \in 1..Grace -> "none"
         [] closing[r] = 0 -> "expired"

\* SweepIdle, its critical section, over every room.
SweepIdle ==
  LET acted == {r \in listed : Verdict(r) # "none"}
      closed == {r \in acted : Verdict(r) = "expired"} IN
    /\ todo = {} /\ acted # {}
    /\ IF closed = {} THEN wstep[Reaper] = "idle" /\ wstep' = wstep
                      ELSE MayWrite(Reaper) /\ Begins(Reaper)
    /\ todo' = {[room |-> r, kind |-> Verdict(r)] : r \in acted}
    /\ closing' = [r \in Rooms |-> CASE r \in acted /\ Verdict(r) = "warn" -> Grace
                                     [] r \in acted /\ Verdict(r) = "cancel" -> NoAlarm
                                     [] OTHER -> closing[r]]
    /\ listed' = listed \ closed /\ removed' = removed \cup closed
    /\ UNCHANGED <<made, created, emptyFor, quiet, hereVars, job, image, opened, tmp, file,
                   peopleVars, restarts, answered, deleted>>

\* Broadcast room:closing, the countdown or its withdrawal.  One whose welcome
\* is being put together gets it before the welcome.
ShowClosing(r, on) ==
  /\ popup' = [p \in People |-> IF p \in here[r] THEN on ELSE popup[p]]
  /\ spoiled' = [p \in People |-> spoiled[p] \/ (p \in here[r] /\ step[p] = "greeting")]

\* The reaper tells a room, after the lock.
ReaperTells(t) ==
  /\ t \in todo /\ todo' = todo \ {t}
  /\ IF t.kind = "expired"
     THEN /\ expelled' = [p \in People |-> expelled[p] \/ p \in here[t.room]]
          /\ UNCHANGED <<popup, spoiled>>
     ELSE ShowClosing(t.room, t.kind = "warn") /\ UNCHANGED expelled
  /\ UNCHANGED <<roomVars, hereVars, fileVars, step, at, snap, keeping, history>>

-----------------------------------------------------------------------------
(* People.                                                                 *)

\* The page of a room is opened, from the home page or by its link.
Open(p, r) ==
  /\ step[p] = "home" /\ r \in answered
  /\ step' = [step EXCEPT ![p] = "out"] /\ at' = [at EXCEPT ![p] = r]
  /\ UNCHANGED <<roomVars, hereVars, todo, fileVars, popup, snap, keeping, expelled, spoiled, history>>

\* handleWS finds the room and checks the credential.  A room that is not
\* found is tried again.
Authorise(p) ==
  /\ step[p] = "out" /\ at[p] \in listed
  /\ step' = [step EXCEPT ![p] = "allowed"]
  /\ UNCHANGED <<roomVars, hereVars, todo, fileVars, at, popup, snap, keeping, expelled, spoiled,
                 history>>

\* Join, in the room that was found, listed or not.
Join(p) ==
  /\ step[p] = "allowed"
  /\ step' = [step EXCEPT ![p] = "joined"]
  /\ here' = [here EXCEPT ![at[p]] = @ \cup {p}]
  /\ emptyFor' = [emptyFor EXCEPT ![at[p]] = Unset]
  /\ UNCHANGED <<listed, made, created, quiet, closing, sharing, todo, fileVars, at, popup, snap,
                 keeping, expelled, spoiled, history>>

\* Fault variant: the welcome says nothing of a countdown.
LookClosing_Never(p) ==
  /\ step[p] = "joined"
  /\ step' = [step EXCEPT ![p] = "greeting"]
  /\ UNCHANGED <<roomVars, hereVars, todo, fileVars, at, popup, snap, keeping, expelled, spoiled,
                 history>>

\* ClosingAtMillis, for the welcome.
LookClosing(p) ==
  /\ step[p] = "joined"
  /\ step' = [step EXCEPT ![p] = "greeting"]
  /\ snap' = [snap EXCEPT ![p] = closing[at[p]] # NoAlarm]
  /\ UNCHANGED <<roomVars, hereVars, todo, fileVars, at, popup, keeping, expelled, spoiled, history>>

Welcome(p) ==
  /\ step[p] = "greeting"
  /\ step' = [step EXCEPT ![p] = "in"]
  /\ popup' = [popup EXCEPT ![p] = snap[p]] /\ snap' = [snap EXCEPT ![p] = FALSE]
  /\ UNCHANGED <<roomVars, hereVars, todo, fileVars, at, keeping, expelled, spoiled, history>>

\* SetPublishing: either way the idle clock starts again.
SetPublishing(p, on) ==
  /\ step[p] = "in" /\ ~keeping[p] /\ (p \in sharing) # on
  /\ sharing' = IF on THEN sharing \cup {p} ELSE sharing \ {p}
  /\ quiet' = [quiet EXCEPT ![at[p]] = 0]
  /\ UNCHANGED <<listed, made, created, emptyFor, closing, here, todo, fileVars, peopleVars, history>>

\* The button on the countdown: KeepAlive, its critical section.
KeepAlive(p) ==
  /\ step[p] = "in" /\ popup[p] /\ ~keeping[p]
  /\ quiet' = [quiet EXCEPT ![at[p]] = 0]
  /\ keeping' = [keeping EXCEPT ![p] = closing[at[p]] # NoAlarm]
  /\ closing' = [closing EXCEPT ![at[p]] = NoAlarm]
  /\ UNCHANGED <<listed, made, created, emptyFor, hereVars, todo, fileVars, step, at, popup, snap,
                 expelled, spoiled, history>>

\* KeepAlive's broadcast, if there was an alarm.
KeepTells(p) ==
  /\ keeping[p]
  /\ keeping' = [keeping EXCEPT ![p] = FALSE]
  /\ ShowClosing(at[p], FALSE)
  /\ UNCHANGED <<roomVars, hereVars, todo, fileVars, step, at, snap, expelled, history>>

\* Leave: the last one out starts the clock of the empty room.
Leave(p) ==
  /\ here' = [here EXCEPT ![at[p]] = @ \ {p}] /\ sharing' = sharing \ {p}
  /\ emptyFor' = IF here[at[p]] = {p} THEN [emptyFor EXCEPT ![at[p]] = 0] ELSE emptyFor

Forgets(p) ==
  /\ popup' = [popup EXCEPT ![p] = FALSE] /\ snap' = [snap EXCEPT ![p] = FALSE]
  /\ expelled' = [expelled EXCEPT ![p] = FALSE] /\ spoiled' = [spoiled EXCEPT ![p] = FALSE]

\* The socket ends: the page tries again, or it goes home, as it does at once
\* when it reads room:closed.
Drop(p, to) ==
  /\ p \in Connected /\ ~keeping[p]
  /\ to \in {"out", "home"} /\ (expelled[p] => to = "home")
  /\ Leave(p) /\ Forgets(p)
  /\ step' = [step EXCEPT ![p] = to]
  /\ at' = [at EXCEPT ![p] = IF to = "home" THEN NoRoom ELSE @]
  /\ UNCHANGED <<listed, made, created, quiet, closing, todo, fileVars, keeping, history>>

GoHome(p) ==
  /\ step[p] = "out"
  /\ step' = [step EXCEPT ![p] = "home"] /\ at' = [at EXCEPT ![p] = NoRoom]
  /\ UNCHANGED <<roomVars, hereVars, todo, fileVars, popup, snap, keeping, expelled, spoiled, history>>

-----------------------------------------------------------------------------
(* Time and restarts.                                                      *)

Older(n, limit) == IF n > limit THEN n ELSE n + 1

\* A unit of time is long beside broadcasts and writes, not beside a handshake.
Tick ==
  /\ todo = {} /\ \A w \in Writers : wstep[w] = "idle"
  /\ \A p \in People : ~keeping[p] /\ ~expelled[p]
  /\ created' = [r \in Rooms |-> IF r <= made THEN Older(created[r], MaxAge) ELSE 0]
  /\ emptyFor' = [r \in Rooms |-> IF r \in listed THEN Older(emptyFor[r], EmptyGrace) ELSE emptyFor[r]]
  /\ quiet' = [r \in Rooms |-> IF r \in listed THEN Older(quiet[r], Idle) ELSE quiet[r]]
  /\ closing' = [r \in Rooms |-> IF closing[r] \in 1..Grace THEN closing[r] - 1 ELSE closing[r]]
  /\ UNCHANGED <<listed, made, hereVars, todo, fileVars, peopleVars, history>>

\* The process ends and the next one loads the file: the rooms that are not
\* too old, empty; nothing, if it does not parse.
Restart ==
  /\ restarts < MaxRestarts /\ restarts' = restarts + 1
  /\ listed' = {r \in file \cap Rooms : created[r] <= MaxAge}
  /\ removed' = removed \cup {r \in Rooms : created[r] > MaxAge}
  /\ emptyFor' = [r \in Rooms |-> 0] /\ closing' = [r \in Rooms |-> NoAlarm]
  /\ quiet' = [r \in Rooms |-> IF created[r] > Idle THEN Idle + 1 ELSE created[r]]
  /\ here' = [r \in Rooms |-> {}] /\ sharing' = {} /\ todo' = {}
  /\ wstep' = [w \in Writers |-> "idle"] /\ job' = [h \in Handlers |-> NoJob]
  /\ image' = [w \in Writers |-> {}] /\ opened' = [w \in Writers |-> "none"]
  /\ step' = [p \in People |-> IF step[p] = "home" \/ expelled[p] THEN "home" ELSE "out"]
  /\ at' = [p \in People |-> IF expelled[p] THEN NoRoom ELSE at[p]]
  /\ popup' = [p \in People |-> FALSE] /\ snap' = [p \in People |-> FALSE]
  /\ keeping' = [p \in People |-> FALSE] /\ expelled' = [p \in People |-> FALSE]
  /\ spoiled' = [p \in People |-> FALSE]
  /\ UNCHANGED <<made, created, tmp, file, answered, deleted>>

Handler(h) == Create(h) \/ Answer(h) \/ \E r \in Rooms : Delete(h, r)

Person(p) ==
  \/ \E r \in Rooms : Open(p, r)
  \/ \E on \in BOOLEAN : SetPublishing(p, on)
  \/ KeepAlive(p) \/ GoHome(p)
  \/ \E to \in {"out", "home"} : Drop(p, to)

Socket(p) == Authorise(p) \/ Join(p) \/ LookClosing(p) \/ Welcome(p) \/ KeepTells(p)

Next ==
  \/ \E w \in Writers : Persist(w)
  \/ \E h \in Handlers : Handler(h)
  \/ \E p \in People : Person(p) \/ Socket(p)
  \/ Sweep \/ SweepIdle \/ (\E t \in Told : ReaperTells(t))
  \/ Tick \/ Restart

Spec == Init /\ [][Next]_vars

\* Goroutines are scheduled, writes end and tickers fire; a page that read
\* room:closed leaves.  Time passes however often people come and go.
Fairness ==
  /\ \A w \in Writers : WF_vars(Persist(w))
  /\ \A h \in Handlers : WF_vars(Answer(h))
  /\ \A p \in People : /\ WF_vars(Join(p) \/ LookClosing(p) \/ Welcome(p) \/ KeepTells(p))
                       /\ WF_vars(expelled[p] /\ Drop(p, "home"))
  /\ SF_vars(Sweep) /\ SF_vars(SweepIdle) /\ WF_vars(\E t \in Told : ReaperTells(t))
  /\ SF_vars(Tick)

FairSpec == Spec /\ Fairness

-----------------------------------------------------------------------------
(* Properties.                                                             *)

\* "A redeploy doesn't end sessions in progress": a room whose creation was
\* answered is there, through every restart, until it is taken off.
AnsweredRoomsSurvive == answered \ removed \subseteq listed

\* A room whose deletion was answered does not come back with a restart.
DeletedStaysDeleted == deleted \cap listed = {}

\* The reaper closes a room only on people who see the countdown, whenever they
\* came in and whoever withdrew an earlier one.
ClosedOnlyWarned ==
  [][\A r \in Rooms : [room |-> r, kind |-> "expired"] \in todo' \ todo =>
       \A p \in here[r] : step[p] = "in" /\ ~spoiled[p] => popup[p]]_vars

\* No room lasts forever, however busy ("hard ceiling regardless of activity").
EveryRoomEnds == \A r \in Rooms : (r \in listed) ~> (r \notin listed)

(* What the comments say and the code does not do.                         *)

\* "The room was closed for real (idle reaper, or deleted) -- everyone goes
\* home": nobody stays in a room that is off the map, untold.
NobodyInAGhost ==
  todo = {} => \A p \in Connected : at[p] \in listed \/ expelled[p]

\* "after which reconnects fail with a 404, which is how a client learns the
\* room is really gone".
GoneIsKnown == \A p \in People : (step[p] = "out" /\ at[p] \in removed \ listed) ~> step[p] # "out"

\* "reconnecting mid-warning must not hide the countdown".
CountdownIsShown ==
  todo = {} => \A p \in Connected :
    step[p] = "in" /\ at[p] \in listed /\ closing[at[p]] # NoAlarm => popup[p]

\* "Any publish starting or stopping resets the clock".
StopStartsTheClock ==
  [][\A r \in Rooms : here[r] \cap sharing # {} /\ here'[r] \cap sharing' = {} /\ restarts' = restarts
       => quiet'[r] = 0]_vars

================================================================================
