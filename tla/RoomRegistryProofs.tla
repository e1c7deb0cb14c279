--------------------------- MODULE RoomRegistryProofs ---------------------------
(***************************************************************************)
(* The file of RoomRegistry, for every number of rooms, handlers, people   *)
(* and restarts.  What makes it right is Writing: as long as one writer is *)
(* at work at a time, whatever it has in hand is the set of rooms itself,  *)
(* so that each crash leaves either the old set or the new one.            *)
(***************************************************************************)
EXTENDS RoomRegistry, TLAPS

Typed ==
  /\ wstep \in [Writers -> {"idle", "snapshot", "open", "write", "rename", "answer"}]
  /\ job \in [Handlers -> Jobs] /\ image \in [Writers -> SUBSET Rooms]
  /\ opened \in [Writers -> {"none", "tmp", "file", "lost"}]
  /\ made \in Nat /\ made <= MaxMade

\* One writer at a time.
Alone == \A v, w \in Writers : wstep[v] # "idle" /\ wstep[w] # "idle" => v = w

\* What the writer at work has in hand.
Writing ==
  \A w \in Writers :
    /\ wstep[w] \in {"open", "write"} => image[w] = listed
    /\ wstep[w] = "write" => opened[w] = "tmp"
    /\ wstep[w] = "rename" => tmp = listed
    /\ wstep[w] = "answer" => file = listed

\* What the handler at work is about to say.
Promises ==
  \A h \in Handlers : wstep[h] # "idle" =>
    /\ job[h].kind = "create" => job[h].room \in listed
    /\ job[h].kind = "delete" => job[h].room \in 1..made /\ job[h].room \notin listed

\* The file agrees with what was said, as the registry does.
Books ==
  /\ listed \subseteq 1..made /\ answered \subseteq 1..made /\ deleted \subseteq 1..made
  /\ file \cap Rooms \subseteq 1..made
  /\ answered \ removed \subseteq listed /\ answered \ removed \subseteq file
  /\ deleted \cap listed = {} /\ deleted \cap file = {}

\* A room has an age.
Aged == created \in [Rooms -> Nat]

FileInv == Typed /\ Alone /\ Writing /\ Promises /\ Books

\* While nobody writes, nothing that concerns the file happens but a new writer.
Untouched == <<made, listed, wstep, job, image, opened, tmp, file, answered, deleted, removed>>

LEMMA SetsAreFiles == ASSUME listed \subseteq 1..made, made \in Nat, made <= MaxMade
                      PROVE  listed \subseteq Rooms /\ listed # Missing
BY RegistryAssumption DEF RegistryAssumption, Rooms, Missing

LEMMA StaysWhenUntouched == FileInv /\ UNCHANGED Untouched => FileInv'
BY DEF Untouched, FileInv, Typed, Alone, Writing, Promises, Books

LEMMA PersistKeeps == ASSUME FileInv, NEW w \in Writers, Persist(w) PROVE FileInv'
<1> USE DEF FileInv
<1>0. \A v \in Writers : v # w => wstep[v] = "idle"
  BY DEF Persist, Snapshot, OpenTmp, WriteTmp, Rename, Alone
<1>1. CASE Snapshot(w)
  BY <1>0, <1>1, SetsAreFiles DEF Snapshot, Typed, Alone, Writing, Promises, Books, roomVars, history
<1>2. CASE OpenTmp(w)
  BY <1>0, <1>2 DEF OpenTmp, Typed, Alone, Writing, Promises, Books, roomVars, history
<1>3. CASE WriteTmp(w)
  BY <1>0, <1>3 DEF WriteTmp, Typed, Alone, Writing, Promises, Books, roomVars, history
<1>4. CASE Rename(w)
  <2>1. tmp = listed /\ tmp # Missing
    BY <1>4, SetsAreFiles DEF Rename, Typed, Writing, Books
  <2>2. file' = listed /\ UNCHANGED <<made, listed, job, image, answered, deleted, removed>>
    BY <1>4, <2>1 DEF Rename, roomVars, history
  <2>3. opened' \in [Writers -> {"none", "tmp", "file", "lost"}]
    BY <1>4, <2>1 DEF Rename, Typed
  <2>4. /\ wstep' \in [Writers -> {"idle", "snapshot", "open", "write", "rename", "answer"}]
        /\ wstep'[w] \in {"idle", "answer"} /\ \A v \in Writers : v # w => wstep'[v] = "idle"
    BY <1>0, <1>4 DEF Rename, AfterRename, Typed
  <2>5. wstep[w] # "idle"
    BY <1>4 DEF Rename
  <2>6. Typed' /\ Alone' /\ Writing'
    BY <2>2, <2>3, <2>4 DEF Typed, Alone, Writing
  <2>7. Promises'
    BY <2>2, <2>4, <2>5 DEF Promises, Writers
  <2>8. Books'
    BY <2>2 DEF Books
  <2> QED BY <2>6, <2>7, <2>8
<1> QED BY <1>1, <1>2, <1>3, <1>4 DEF Persist

LEMMA HandlersKeep ==
  ASSUME ~Overlap, FileInv, NEW h \in Handlers, Handler(h)
  PROVE  FileInv'
<1> USE DEF FileInv
<1>1. CASE Create(h)
  <2>1. /\ made \in Nat /\ made' = made + 1 /\ made' <= MaxMade /\ made + 1 \in Rooms
        /\ listed' = listed \cup {made + 1} /\ 1..made \subseteq 1..made' /\ made + 1 \notin 1..made
    BY <1>1, RegistryAssumption DEF RegistryAssumption, Create, Typed, Rooms
  <2>2. \A v \in Writers : wstep[v] = "idle" /\ wstep'[v] = IF v = h THEN "snapshot" ELSE "idle"
    BY <1>1 DEF Create, MayWrite, Begins, Typed, Writers
  <2>3. job' = [job EXCEPT ![h] = [kind |-> "create", room |-> made + 1]]
        /\ UNCHANGED <<image, opened, tmp, file, answered, deleted, removed>>
        /\ wstep' = [wstep EXCEPT ![h] = "snapshot"]
    BY <1>1 DEF Create, Begins, history
  <2>4. Typed'
    BY <2>1, <2>3 DEF Typed, Jobs, Writers
  <2>5. Alone' /\ Writing' /\ Promises'
    BY <2>1, <2>2, <2>3 DEF Alone, Writing, Promises, Typed, Writers
  <2>6. Books'
    BY <2>1, <2>3 DEF Books
  <2> QED BY <2>4, <2>5, <2>6
<1>2. ASSUME NEW r \in Rooms, Delete(h, r) PROVE FileInv'
  <2>1. \A v \in Writers : wstep[v] = "idle" /\ wstep'[v] = IF v = h THEN "snapshot" ELSE "idle"
    BY <1>2 DEF Delete, MayWrite, Begins, Typed, Writers
  <2>2. /\ r \in listed /\ listed' = listed \ {r} /\ removed' = removed \cup {r}
        /\ job' = [job EXCEPT ![h] = [kind |-> "delete", room |-> r]]
        /\ UNCHANGED <<made, image, opened, tmp, file, answered, deleted>>
        /\ wstep' = [wstep EXCEPT ![h] = "snapshot"]
    BY <1>2 DEF Delete, Begins
  <2>3. Typed'
    BY <2>2 DEF Typed, Jobs, Writers
  <2>4. Alone' /\ Writing' /\ Promises'
    BY <2>1, <2>2 DEF Alone, Writing, Promises, Typed, Writers, Books
  <2>5. Books'
    BY <2>2 DEF Books
  <2> QED BY <2>3, <2>4, <2>5
<1>3. CASE Answer(h)
  <2>1. h \in Writers /\ file = listed /\ \A v \in Writers : v # h => wstep[v] = "idle"
    BY <1>3 DEF Answer, Writing, Alone, Writers
  <2>2. /\ job' = [job EXCEPT ![h] = NoJob] /\ wstep' = [wstep EXCEPT ![h] = "idle"]
        /\ UNCHANGED <<made, listed, image, opened, tmp, file, removed>>
    BY <1>3 DEF Answer, roomVars
  <2>3. Typed' /\ Alone' /\ Writing' /\ Promises'
    BY <2>1, <2>2 DEF Typed, Alone, Writing, Promises, Jobs, NoJob, Writers
  <2>4. /\ job[h].kind = "create" => job[h].room \in listed
        /\ job[h].kind = "delete" => job[h].room \in 1..made /\ job[h].room \notin listed
    BY <1>3 DEF Answer, Promises
  <2>5. Books'
    BY <1>3, <2>1, <2>2, <2>4 DEF Answer, Books
  <2> QED BY <2>3, <2>5
<1> QED BY <1>1, <1>2, <1>3 DEF Handler

\* The janitor and the reaper take rooms off and begin to write; a reaper that
\* closes none leaves the set alone.
LEMMA CleanersKeep ==
  ASSUME ~Overlap, FileInv, Sweep \/ SweepIdle
  PROVE  FileInv'
<1> USE DEF FileInv
<1>1. ASSUME NEW w \in {Janitor, Reaper}, NEW off \in SUBSET listed, MayWrite(w), Begins(w),
             listed' = listed \ off, removed' = removed \cup off,
             UNCHANGED <<made, job, image, opened, tmp, file, answered, deleted>>
      PROVE  FileInv'
  <2>1. w \in Writers /\ w \notin Handlers
    BY RegistryAssumption DEF RegistryAssumption, Writers
  <2>2. wstep' = [wstep EXCEPT ![w] = "snapshot"] /\ \A v \in Writers : wstep[v] = "idle"
    BY <1>1 DEF MayWrite, Begins
  <2>3. \A v \in Writers : wstep'[v] = IF v = w THEN "snapshot" ELSE "idle"
    BY <2>1, <2>2 DEF Typed
  <2>4. Typed'
    BY <1>1, <2>1, <2>2 DEF Typed
  <2>5. Alone' /\ Writing' /\ Promises'
    BY <1>1, <2>1, <2>3 DEF Alone, Writing, Promises, Writers
  <2>6. Books'
    BY <1>1 DEF Books
  <2> QED BY <2>4, <2>5, <2>6
<1>2. CASE Sweep
  <2>1. Expired \subseteq listed
    BY DEF Expired
  <2> QED BY <1>1, <1>2, <2>1 DEF Sweep
<1>3. CASE SweepIdle
  <2> DEFINE acted == {r \in listed : Verdict(r) # "none"}
             closed == {r \in acted : Verdict(r) = "expired"}
  <2>1. /\ closed \subseteq listed /\ listed' = listed \ closed /\ removed' = removed \cup closed
        /\ UNCHANGED <<made, job, image, opened, tmp, file, answered, deleted>>
        /\ IF closed = {} THEN wstep' = wstep ELSE MayWrite(Reaper) /\ Begins(Reaper)
    BY <1>3 DEF SweepIdle
  <2> HIDE DEF closed
  <2>2. CASE closed = {}
    BY <2>1, <2>2, StaysWhenUntouched DEF Untouched
  <2>3. CASE closed # {}
    BY <1>1, <2>1, <2>3
  <2> QED BY <2>2, <2>3
<1> QED BY <1>2, <1>3

\* The next process has the rooms of the file that are not too old.
LEMMA RestartKeeps == ASSUME FileInv, Aged, Restart PROVE FileInv'
<1> USE DEF FileInv
<1>1. /\ \A w \in Writers : wstep'[w] = "idle"
      /\ UNCHANGED <<made, tmp, file, answered, deleted>>
      /\ listed' = {r \in file \cap Rooms : created[r] <= MaxAge}
      /\ removed' = removed \cup {r \in Rooms : created[r] > MaxAge}
  BY DEF Restart
<1>2. Typed'
  BY <1>1 DEF Restart, Typed, Jobs, NoJob
<1>3. Alone' /\ Writing' /\ Promises'
  BY <1>1 DEF Alone, Writing, Promises, Writers
<1>4. \A r \in Rooms : created[r] <= MaxAge \/ created[r] > MaxAge
  BY RegistryAssumption DEF RegistryAssumption, Aged
<1>5. Books'
  <2>1. listed' \subseteq file /\ listed' \subseteq 1..made
    BY <1>1 DEF Books
  <2>2. answered \ removed' \subseteq listed'
    <3> SUFFICES ASSUME NEW r \in answered \ removed' PROVE r \in listed'
      OBVIOUS
    <3>1. r \in answered \ removed /\ r \in file /\ r \in Rooms
      BY <1>1, RegistryAssumption DEF RegistryAssumption, Books, Typed, Rooms
    <3> QED BY <1>1, <1>4, <3>1
  <2>3. answered \ removed' \subseteq file
    BY <1>1 DEF Books
  <2> QED BY <1>1, <2>1, <2>2, <2>3 DEF Books
<1> QED BY <1>2, <1>3, <1>5

LEMMA AgeHolds == Aged /\ [Next]_vars => Aged'
<1> SUFFICES ASSUME Aged, [Next]_vars PROVE Aged'
  OBVIOUS
<1>1. CASE Tick
  <2>1. \A n \in Nat : Older(n, MaxAge) \in Nat
    BY RegistryAssumption DEF RegistryAssumption, Older
  <2> QED BY <1>1, <2>1 DEF Tick, Aged
<1>2. CASE created' = created
  BY <1>2 DEF Aged
<1>3. ASSUME ~Tick PROVE created' = created
  BY <1>3 DEF Next, Persist, Snapshot, OpenTmp, WriteTmp, Rename, Handler, Create, Answer, Delete,
     Person, Open, SetPublishing, KeepAlive, GoHome, Drop, Socket, Authorise, Join, LookClosing,
     Welcome, KeepTells, Sweep, SweepIdle, ReaperTells, Restart, vars, roomVars
<1> QED BY <1>1, <1>2, <1>3

LEMMA FileInvHolds == ~Overlap => (Spec => [](FileInv /\ Aged))
<1> SUFFICES ASSUME ~Overlap PROVE Spec => [](FileInv /\ Aged)
  OBVIOUS
<1>1. Init => FileInv /\ Aged
  BY RegistryAssumption DEF RegistryAssumption, Init, FileInv, Aged, Typed, Alone, Writing, Promises,
     Books, Rooms, Writers, Jobs, NoJob, Missing
<1>2. FileInv /\ Aged /\ [Next]_vars => FileInv'
  <2> SUFFICES ASSUME FileInv, Aged, [Next]_vars PROVE FileInv'
    OBVIOUS
  <2>1. ASSUME NEW p \in People, Person(p) \/ Socket(p) PROVE UNCHANGED Untouched
    BY <2>1 DEF Person, Open, SetPublishing, KeepAlive, GoHome, Drop, Socket, Authorise, Join,
       LookClosing, Welcome, KeepTells, Untouched, roomVars, fileVars, history
  <2>2. ASSUME (\E t \in Told : ReaperTells(t)) \/ Tick \/ UNCHANGED vars PROVE UNCHANGED Untouched
    BY <2>2 DEF ReaperTells, Tick, Untouched, vars, roomVars, fileVars, history
  <2> QED BY <2>1, <2>2, StaysWhenUntouched, PersistKeeps, HandlersKeep, CleanersKeep, RestartKeeps
          DEF Next
<1> QED BY <1>1, <1>2, AgeHolds, PTL DEF Spec

-----------------------------------------------------------------------------
(* Types.  Every action changes one or two of the four parts of TypeOK.      *)

\* The limits that times are capped with are limits.
LEMMA AgesAreCapped ==
  ASSUME NEW limit \in Nat, NEW n \in 0..(limit + 1)
  PROVE  Older(n, limit) \in 0..(limit + 1)
BY DEF Older

LEMMA FilesTyped == TypeOK /\ [Next]_vars => FileOK'
<1> SUFFICES ASSUME TypeOK, [Next]_vars PROVE FileOK'
  OBVIOUS
<1> USE DEF TypeOK, FileOK, RoomsOK
<1>0. Janitor \notin Handlers /\ Reaper \notin Handlers /\ Handlers \subseteq Writers
      /\ Janitor \in Writers /\ Reaper \in Writers
  BY RegistryAssumption DEF RegistryAssumption, Writers
<1>1. ASSUME NEW w \in Writers, Persist(w) PROVE FileOK'
  <2>1. CASE Snapshot(w)
    BY <2>1 DEF Snapshot
  <2>2. CASE OpenTmp(w)
    BY <2>2 DEF OpenTmp
  <2>3. CASE WriteTmp(w)
    BY <2>3 DEF WriteTmp
  <2>4. CASE Rename(w)
    BY <1>0, <2>4 DEF Rename, AfterRename, Writers
  <2> QED BY <1>1, <2>1, <2>2, <2>3, <2>4 DEF Persist
<1>2. ASSUME NEW h \in Handlers, Handler(h) PROVE FileOK'
  <2>1. CASE Create(h)
    <3>1. [kind |-> "create", room |-> made + 1] \in Jobs \ {NoJob}
      BY <2>1, RegistryAssumption DEF RegistryAssumption, Create, Jobs, NoJob, Rooms, NoRoom
    <3> QED BY <1>0, <2>1, <3>1 DEF Create, Begins, history
  <2>2. ASSUME NEW r \in Rooms, Delete(h, r) PROVE FileOK'
    <3>1. [kind |-> "delete", room |-> r] \in Jobs \ {NoJob}
      BY DEF Jobs, NoJob, Rooms, NoRoom
    <3> QED BY <1>0, <2>2, <3>1 DEF Delete, Begins
  <2>3. CASE Answer(h)
    BY <1>0, <2>3 DEF Answer, Jobs
  <2> QED BY <1>2, <2>1, <2>2, <2>3 DEF Handler
<1>3. CASE Sweep
  BY <1>0, <1>3 DEF Sweep, Begins
<1>4. CASE SweepIdle
  <2>1. /\ UNCHANGED <<job, image, opened, tmp, file>>
        /\ wstep' = wstep \/ wstep' = [wstep EXCEPT ![Reaper] = "snapshot"]
    BY <1>4 DEF SweepIdle, Begins
  <2> QED BY <1>0, <2>1
<1>5. CASE Restart
  BY <1>0, <1>5 DEF Restart, Jobs
<1>6. CASE UNCHANGED fileVars
  BY <1>6 DEF fileVars
<1>7. ASSUME NEW p \in People, Person(p) \/ Socket(p) PROVE UNCHANGED fileVars
  BY <1>7 DEF Person, Open, SetPublishing, KeepAlive, GoHome, Drop, Socket, Authorise, Join,
     LookClosing, Welcome, KeepTells
<1>8. ASSUME (\E t \in Told : ReaperTells(t)) \/ Tick \/ UNCHANGED vars PROVE UNCHANGED fileVars
  BY <1>8 DEF ReaperTells, Tick, vars
<1> QED BY <1>1, <1>2, <1>3, <1>4, <1>5, <1>6, <1>7, <1>8 DEF Next

LEMMA RoomsTyped == TypeOK /\ [Next]_vars => RoomsOK'
<1> SUFFICES ASSUME TypeOK, [Next]_vars PROVE RoomsOK'
  OBVIOUS
<1> USE DEF TypeOK, RoomsOK
<1>0. /\ MaxMade \in Nat /\ MaxRestarts \in Nat /\ EmptyGrace \in Nat /\ MaxAge \in Nat
      /\ Idle \in Nat /\ Grace \in Nat /\ Unset = EmptyGrace + 2 /\ NoAlarm = Grace + 1
  BY RegistryAssumption DEF RegistryAssumption, Unset, NoAlarm
<1>1. CASE UNCHANGED <<roomVars, todo, history>>
  BY <1>1 DEF roomVars, history
<1>2. ASSUME NEW w \in Writers, Persist(w) PROVE UNCHANGED <<roomVars, todo, history>>
  BY <1>2 DEF Persist, Snapshot, OpenTmp, WriteTmp, Rename
<1>3. ASSUME NEW h \in Handlers, Handler(h) PROVE RoomsOK'
  <2>1. CASE Create(h)
    <3>1. made + 1 \in Rooms /\ made + 1 \in 0..MaxMade
      BY <1>0, <2>1 DEF Create, Rooms
    <3>2. /\ made' = made + 1 /\ listed' = listed \cup {made + 1}
          /\ UNCHANGED <<created, emptyFor, quiet, closing, todo, restarts, answered, deleted, removed>>
      BY <2>1 DEF Create, history
    <3> QED BY <3>1, <3>2
  <2>2. ASSUME NEW r \in Rooms, Delete(h, r) PROVE RoomsOK'
    BY <2>2 DEF Delete
  <2>3. CASE Answer(h)
    <3>1. job[h].kind # "none" => job[h].room \in Rooms
      BY DEF FileOK, Jobs, NoJob
    <3> QED BY <2>3, <3>1 DEF Answer, roomVars
  <2> QED BY <1>3, <2>1, <2>2, <2>3 DEF Handler
<1>4. ASSUME NEW p \in People, Person(p) \/ Socket(p) PROVE RoomsOK'
  <2>1. CASE KeepAlive(p) \/ \E on \in BOOLEAN : SetPublishing(p, on)
    BY <1>0, <2>1 DEF KeepAlive, SetPublishing, history
  <2>2. CASE Join(p) \/ \E to \in {"out", "home"} : Drop(p, to)
    BY <1>0, <2>2 DEF Join, Drop, Leave, history
  <2>3. CASE GoHome(p) \/ Authorise(p) \/ LookClosing(p) \/ Welcome(p) \/ KeepTells(p)
             \/ \E r \in Rooms : Open(p, r)
    BY <1>1, <2>3 DEF GoHome, Authorise, LookClosing, Welcome, KeepTells, Open
  <2> QED BY <1>4, <2>1, <2>2, <2>3 DEF Person, Socket
<1>5. CASE Sweep
  BY <1>5 DEF Sweep, Expired
<1>6. CASE SweepIdle
  <2> DEFINE acted == {r \in listed : Verdict(r) # "none"}
             closed == {r \in acted : Verdict(r) = "expired"}
  <2>1. /\ listed' = listed \ closed /\ removed' = removed \cup closed
        /\ UNCHANGED <<made, created, emptyFor, quiet, restarts, answered, deleted>>
    BY <1>6 DEF SweepIdle
  <2>2. closing' \in [Rooms -> 0..NoAlarm]
    <3>1. closing' = [r \in Rooms |-> CASE r \in acted /\ Verdict(r) = "warn" -> Grace
                                        [] r \in acted /\ Verdict(r) = "cancel" -> NoAlarm
                                        [] OTHER -> closing[r]]
      BY <1>6 DEF SweepIdle
    <3> HIDE DEF acted
    <3> QED BY <1>0, <3>1
  <2>3. todo' \subseteq Told
    <3>1. \A r \in listed : Verdict(r) \in {"none", "cancel", "warn", "expired"}
      BY <1>0 DEF Verdict
    <3>2. todo' = {[room |-> r, kind |-> Verdict(r)] : r \in acted}
      BY <1>6 DEF SweepIdle
    <3> QED BY <3>1, <3>2 DEF Told
  <2> QED BY <2>1, <2>2, <2>3
<1>7. ASSUME NEW t \in Told, ReaperTells(t) PROVE RoomsOK'
  BY <1>7 DEF ReaperTells, roomVars, history
<1>8. CASE Tick
  <2>1. created' \in [Rooms -> 0..(MaxAge + 1)]
    <3>1. \A r \in Rooms : Older(created[r], MaxAge) \in 0..(MaxAge + 1)
      BY <1>0, AgesAreCapped
    <3> QED BY <1>0, <1>8, <3>1 DEF Tick
  <2>2. quiet' \in [Rooms -> 0..(Idle + 1)]
    BY <1>0, <1>8, AgesAreCapped DEF Tick
  <2>3. emptyFor' \in [Rooms -> 0..Unset]
    BY <1>0, <1>8 DEF Tick, Older
  <2>4. closing' \in [Rooms -> 0..NoAlarm]
    BY <1>0, <1>8 DEF Tick
  <2> QED BY <1>8, <2>1, <2>2, <2>3, <2>4 DEF Tick, history
<1>9. CASE Restart
  BY <1>0, <1>9 DEF Restart
<1>10. CASE UNCHANGED vars
  BY <1>1, <1>10 DEF vars
<1> QED BY <1>1, <1>2, <1>3, <1>4, <1>5, <1>6, <1>7, <1>8, <1>9, <1>10 DEF Next

LEMMA PresenceTyped == TypeOK /\ [Next]_vars => PresenceOK'
<1> SUFFICES ASSUME TypeOK, [Next]_vars PROVE PresenceOK'
  OBVIOUS
<1> USE DEF TypeOK, PresenceOK, Connected
<1>0. EmptyGrace \in Nat /\ Unset = EmptyGrace + 2 /\ NoRoom \notin Rooms
  BY RegistryAssumption DEF RegistryAssumption, Unset, NoRoom, Rooms
<1>1. CASE UNCHANGED <<hereVars, emptyFor, step, at>>
  BY <1>1 DEF hereVars
<1>2. ASSUME NEW w \in Writers, Persist(w) PROVE UNCHANGED <<hereVars, emptyFor, step, at>>
  BY <1>2 DEF Persist, Snapshot, OpenTmp, WriteTmp, Rename, roomVars, peopleVars
<1>3. ASSUME NEW h \in Handlers, Handler(h) PROVE UNCHANGED <<hereVars, emptyFor, step, at>>
  BY <1>3 DEF Handler, Create, Answer, Delete, roomVars, peopleVars
<1>4. ASSUME NEW p \in People, Person(p) \/ Socket(p) PROVE PresenceOK'
  <2>1. ASSUME NEW r \in Rooms, Open(p, r) PROVE PresenceOK'
    BY <1>0, <2>1 DEF Open, hereVars, roomVars
  <2>2. CASE GoHome(p) \/ Authorise(p)
    BY <1>0, <2>2 DEF GoHome, Authorise, hereVars, roomVars
  <2>3. CASE Join(p)
    <3>1. at[p] \in Rooms /\ \A r \in Rooms : p \notin here[r]
      BY <2>3 DEF Join
    <3>2. /\ here' = [here EXCEPT ![at[p]] = @ \cup {p}] /\ UNCHANGED <<sharing, at>>
          /\ emptyFor' = [emptyFor EXCEPT ![at[p]] = Unset] /\ step' = [step EXCEPT ![p] = "joined"]
      BY <2>3 DEF Join
    <3>3. \A r \in Rooms : here'[r] = {} <=> emptyFor'[r] # Unset
      BY <3>1, <3>2 DEF RoomsOK
    <3>4. \A q \in People, r \in Rooms : q \in here'[r] <=> q \in Connected' /\ at'[q] = r
      BY <3>1, <3>2
    <3>5. sharing' \subseteq Connected'
      BY <3>2
    <3> QED BY <2>3, <3>1, <3>2, <3>3, <3>4, <3>5 DEF Join
  <2>4. CASE LookClosing(p) \/ Welcome(p)
    BY <2>4 DEF LookClosing, Welcome, hereVars, roomVars
  <2>5. CASE \E on \in BOOLEAN : SetPublishing(p, on)
    BY <2>5 DEF SetPublishing, peopleVars
  <2>6. CASE KeepAlive(p) \/ KeepTells(p)
    BY <1>1, <2>6 DEF KeepAlive, KeepTells, roomVars
  <2>7. ASSUME NEW to \in {"out", "home"}, Drop(p, to) PROVE PresenceOK'
    <3>1. at[p] \in Rooms /\ p \in here[at[p]] /\ \A r \in Rooms : p \in here[r] => r = at[p]
      BY <2>7 DEF Drop
    <3>2. /\ here' = [here EXCEPT ![at[p]] = @ \ {p}] /\ sharing' = sharing \ {p}
          /\ emptyFor' = IF here[at[p]] = {p} THEN [emptyFor EXCEPT ![at[p]] = 0] ELSE emptyFor
          /\ step' = [step EXCEPT ![p] = to]
          /\ at' = [at EXCEPT ![p] = IF to = "home" THEN NoRoom ELSE @]
      BY <2>7 DEF Drop, Leave
    <3>3. \A r \in Rooms : here'[r] = {} <=> emptyFor'[r] # Unset
      BY <1>0, <3>1, <3>2 DEF RoomsOK
    <3>4. \A q \in People, r \in Rooms : q \in here'[r] <=> q \in Connected' /\ at'[q] = r
      BY <1>0, <3>1, <3>2
    <3>5. sharing' \subseteq Connected'
      BY <3>2
    <3>6. /\ here' \in [Rooms -> SUBSET People]
          /\ step' \in [People -> {"home", "out", "allowed", "joined", "greeting", "in"}]
          /\ at' \in [People -> Rooms \cup {NoRoom}]
          /\ \A q \in People : at'[q] = NoRoom <=> step'[q] = "home"
      BY <1>0, <3>1, <3>2
    <3> QED BY <3>3, <3>4, <3>5, <3>6
  <2> QED BY <1>4, <2>1, <2>2, <2>3, <2>4, <2>5, <2>6, <2>7 DEF Person, Socket
<1>5. CASE Sweep \/ SweepIdle \/ \E t \in Told : ReaperTells(t)
  BY <1>1, <1>5 DEF Sweep, SweepIdle, ReaperTells, roomVars, peopleVars
<1>6. CASE Tick
  <2>1. \A r \in Rooms : emptyFor'[r] # Unset <=> emptyFor[r] # Unset
    BY <1>0, <1>6 DEF Tick, Older, RoomsOK
  <2> QED BY <1>6, <2>1 DEF Tick, hereVars, peopleVars
<1>7. CASE Restart
  BY <1>0, <1>7 DEF Restart
<1>8. CASE UNCHANGED vars
  BY <1>1, <1>8 DEF vars, roomVars, peopleVars
<1> QED BY <1>1, <1>2, <1>3, <1>4, <1>5, <1>6, <1>7, <1>8 DEF Next

LEMMA FlagsTyped == TypeOK /\ [Next]_vars => FlagsOK'
<1> SUFFICES ASSUME TypeOK, [Next]_vars PROVE FlagsOK'
  OBVIOUS
<1> USE DEF TypeOK, FlagsOK
<1>1. ASSUME NEW p \in People, Person(p) \/ Socket(p) PROVE FlagsOK'
  BY <1>1 DEF Person, Open, SetPublishing, KeepAlive, GoHome, Drop, Forgets, Socket, Authorise, Join,
     LookClosing, Welcome, KeepTells, ShowClosing, peopleVars
<1>2. ASSUME NEW t \in Told, ReaperTells(t) PROVE FlagsOK'
  BY <1>2 DEF ReaperTells, ShowClosing
<1>3. CASE Restart
  BY <1>3 DEF Restart
<1>4. CASE UNCHANGED peopleVars
  BY <1>4 DEF peopleVars
<1>5. ASSUME NEW w \in Writers, Persist(w) PROVE UNCHANGED peopleVars
  BY <1>5 DEF Persist, Snapshot, OpenTmp, WriteTmp, Rename
<1>6. ASSUME NEW h \in Handlers, Handler(h) PROVE UNCHANGED peopleVars
  BY <1>6 DEF Handler, Create, Answer, Delete
<1>7. ASSUME Sweep \/ SweepIdle \/ Tick \/ UNCHANGED vars PROVE UNCHANGED peopleVars
  BY <1>7 DEF Sweep, SweepIdle, Tick, vars
<1> QED BY <1>1, <1>2, <1>3, <1>4, <1>5, <1>6, <1>7 DEF Next

\* However many rooms, people and handlers there are: each person is in the
\* one room whose page is open, and a room's clock runs exactly while it is
\* empty.
THEOREM RegistryTypeCorrect == Spec => []TypeOK
<1>1. Init => TypeOK
  BY RegistryAssumption DEF RegistryAssumption, Init, TypeOK, RoomsOK, FileOK, PresenceOK, FlagsOK,
     Rooms, Writers, Jobs, NoJob, Unset, NoAlarm, NoRoom, Connected
<1> QED BY <1>1, FilesTyped, RoomsTyped, PresenceTyped, FlagsTyped, PTL DEF Spec, TypeOK

-----------------------------------------------------------------------------
(* The file.                                                                 *)

\* A room whose creation was answered is in the registry through every crash
\* and restart until it is taken off, however many handlers, rooms and people
\* there are: as long as no two writers are at work at once.
THEOREM RoomsSurvive == ~Overlap => (Spec => []AnsweredRoomsSurvive)
<1>1. FileInv => AnsweredRoomsSurvive
  BY DEF FileInv, Books, AnsweredRoomsSurvive
<1> QED BY <1>1, FileInvHolds, PTL

\* A room whose deletion was answered is in no file that a restart may load.
THEOREM DeletedRoomsStayAway == ~Overlap => (Spec => [](DeletedStaysDeleted /\ deleted \cap file = {}))
<1>1. FileInv => DeletedStaysDeleted /\ deleted \cap file = {}
  BY DEF FileInv, Books, DeletedStaysDeleted
<1> QED BY <1>1, FileInvHolds, PTL

-----------------------------------------------------------------------------
(* The countdown.                                                            *)

\* While someone withdraws a countdown the idle clock has just started again, so
\* that no new one begins; a cancelled alarm is off until the reaper has said
\* so; and who has caught up sees the countdown, or will in the welcome, unless
\* the reaper is about to tell.
WarnInv ==
  /\ \A p \in People : keeping[p] =>
       step[p] = "in" /\ quiet[at[p]] = 0 /\ closing[at[p]] = NoAlarm
  /\ \A r \in Rooms : [room |-> r, kind |-> "cancel"] \in todo => closing[r] = NoAlarm
  /\ \A r \in Rooms, p \in People :
       /\ closing[r] # NoAlarm /\ [room |-> r, kind |-> "warn"] \notin todo
       /\ p \in here[r] /\ ~spoiled[p]
       => (step[p] = "in" => popup[p]) /\ (step[p] = "greeting" => snap[p])

\* Who has caught up with room r sees its countdown, or will in the welcome.
Sees(r, p) == (step[p] = "in" => popup[p]) /\ (step[p] = "greeting" => snap[p])

LEMMA SeesWhenAlarmed ==
  ASSUME WarnInv, NEW r \in Rooms, NEW p \in People, closing[r] # NoAlarm,
         [room |-> r, kind |-> "warn"] \notin todo, p \in here[r], ~spoiled[p]
  PROVE  Sees(r, p)
BY DEF WarnInv, Sees

LEMMA WarnStaysWhenUntouched ==
  ASSUME WarnInv, UNCHANGED <<closing, quiet, here, todo, step, at, popup, snap, keeping, spoiled>>
  PROVE  WarnInv'
BY DEF WarnInv

\* A step of somebody's socket or page that tells nobody anything.
LEMMA QuietStepsWarn ==
  ASSUME TypeOK, WarnInv, closing' = closing, todo' = todo,
         \A p \in People : keeping'[p] => /\ keeping[p] /\ step'[p] = "in" /\ at'[p] = at[p]
                                          /\ quiet'[at[p]] = 0,
         \A r \in Rooms, p \in People :
           p \in here'[r] /\ ~spoiled'[p] =>
             \/ p \in here[r] /\ ~spoiled[p] /\ (Sees(r, p) => Sees(r, p)')
             \/ closing[r] # NoAlarm => Sees(r, p)'
  PROVE  WarnInv'
<1>1. ASSUME NEW r \in Rooms, NEW p \in People, closing[r] # NoAlarm,
             [room |-> r, kind |-> "warn"] \notin todo, p \in here'[r], ~spoiled'[p]
      PROVE  Sees(r, p)'
  BY <1>1, SeesWhenAlarmed
<1>2. \A r \in Rooms, p \in People :
        /\ closing'[r] # NoAlarm /\ [room |-> r, kind |-> "warn"] \notin todo'
        /\ p \in here'[r] /\ ~spoiled'[p]
        => (step'[p] = "in" => popup'[p]) /\ (step'[p] = "greeting" => snap'[p])
  BY <1>1 DEF Sees
<1> QED BY <1>2 DEF WarnInv

LEMMA PeopleWarn ==
  ASSUME TypeOK, WarnInv, NEW p \in People, Person(p) \/ Socket(p)
  PROVE  WarnInv'
<1> USE DEF TypeOK, PresenceOK, Connected
<1>0. /\ step \in [People -> {"home", "out", "allowed", "joined", "greeting", "in"}]
      /\ popup \in [People -> BOOLEAN] /\ snap \in [People -> BOOLEAN]
      /\ keeping \in [People -> BOOLEAN] /\ spoiled \in [People -> BOOLEAN]
      /\ closing \in [Rooms -> 0..NoAlarm] /\ quiet \in [Rooms -> 0..(Idle + 1)]
      /\ \A q \in People : keeping[q] => step[q] = "in" /\ quiet[at[q]] = 0 /\ closing[at[q]] = NoAlarm
  BY DEF FlagsOK, RoomsOK, WarnInv
<1>1. ASSUME NEW r \in Rooms, Open(p, r) PROVE WarnInv'
  BY <1>0, <1>1, QuietStepsWarn DEF Open, Sees, hereVars, roomVars
<1>2. CASE GoHome(p) \/ Authorise(p)
  BY <1>0, <1>2, QuietStepsWarn DEF GoHome, Authorise, Sees, hereVars, roomVars
<1>3. CASE Join(p)
  <2>1. /\ step[p] = "allowed" /\ step' = [step EXCEPT ![p] = "joined"] /\ at[p] \in Rooms
        /\ here' = [here EXCEPT ![at[p]] = @ \cup {p}]
        /\ UNCHANGED <<quiet, closing, todo, at, popup, snap, keeping, spoiled>>
    BY <1>3 DEF Join
  <2>2. ASSUME NEW r \in Rooms, NEW q \in People, q \in here'[r], ~spoiled'[q]
        PROVE  \/ q \in here[r] /\ ~spoiled[q] /\ (Sees(r, q) => Sees(r, q)')
               \/ Sees(r, q)'
    <3>1. CASE q = p
      BY <1>0, <2>1, <3>1 DEF Sees
    <3>2. CASE q # p
      BY <1>0, <2>1, <2>2, <3>2 DEF Sees
    <3> QED BY <3>1, <3>2
  <2>3. \A q \in People : keeping'[q] => /\ keeping[q] /\ step'[q] = "in" /\ at'[q] = at[q]
                                         /\ quiet'[at[q]] = 0
    BY <1>0, <2>1
  <2> QED BY <2>1, <2>2, <2>3, QuietStepsWarn
<1>4. CASE LookClosing(p)
  <2>1. /\ step[p] = "joined" /\ step' = [step EXCEPT ![p] = "greeting"] /\ at[p] \in Rooms
        /\ snap' = [snap EXCEPT ![p] = closing[at[p]] # NoAlarm]
        /\ UNCHANGED <<here, quiet, closing, todo, at, popup, keeping, spoiled>>
    BY <1>4 DEF LookClosing, roomVars, hereVars
  <2>2. ASSUME NEW r \in Rooms, NEW q \in People, q \in here'[r], ~spoiled'[q]
        PROVE  \/ q \in here[r] /\ ~spoiled[q] /\ (Sees(r, q) => Sees(r, q)')
               \/ closing[r] # NoAlarm => Sees(r, q)'
    <3>1. CASE q = p
      <4>1. r = at[p] /\ step'[p] = "greeting"
        BY <1>0, <2>1, <2>2, <3>1
      <4>2. snap'[p] = (closing[at[p]] # NoAlarm)
        BY <1>0, <2>1, Zenon
      <4> QED BY <3>1, <4>1, <4>2 DEF Sees
    <3>2. CASE q # p
      BY <1>0, <2>1, <2>2, <3>2 DEF Sees
    <3> QED BY <3>1, <3>2
  <2>3. \A q \in People : keeping'[q] => /\ keeping[q] /\ step'[q] = "in" /\ at'[q] = at[q]
                                         /\ quiet'[at[q]] = 0
    BY <1>0, <2>1
  <2> QED BY <2>1, <2>2, <2>3, QuietStepsWarn
<1>5. CASE Welcome(p)
  <2>1. /\ step[p] = "greeting" /\ step' = [step EXCEPT ![p] = "in"]
        /\ popup' = [popup EXCEPT ![p] = snap[p]] /\ snap' = [snap EXCEPT ![p] = FALSE]
        /\ UNCHANGED <<here, quiet, closing, todo, at, keeping, spoiled>>
    BY <1>5 DEF Welcome, roomVars, hereVars
  <2>2. ASSUME NEW r \in Rooms, NEW q \in People, q \in here'[r], ~spoiled'[q]
        PROVE  q \in here[r] /\ ~spoiled[q] /\ (Sees(r, q) => Sees(r, q)')
    BY <1>0, <2>1, <2>2 DEF Sees
  <2>3. \A q \in People : keeping'[q] => /\ keeping[q] /\ step'[q] = "in" /\ at'[q] = at[q]
                                         /\ quiet'[at[q]] = 0
    BY <1>0, <2>1
  <2> QED BY <2>1, <2>2, <2>3, QuietStepsWarn
<1>6. ASSUME NEW on \in BOOLEAN, SetPublishing(p, on) PROVE WarnInv'
  <2>1. /\ quiet' = [quiet EXCEPT ![at[p]] = 0]
        /\ UNCHANGED <<here, closing, todo, step, at, popup, snap, keeping, spoiled>>
    BY <1>6 DEF SetPublishing, peopleVars
  <2>2. \A q \in People : keeping'[q] => quiet'[at[q]] = 0
    BY <1>0, <2>1
  <2> QED BY <1>0, <2>1, <2>2, QuietStepsWarn DEF Sees
<1>7. CASE KeepAlive(p)
  <2>1. /\ step[p] = "in" /\ at[p] \in Rooms
        /\ quiet' = [quiet EXCEPT ![at[p]] = 0] /\ closing' = [closing EXCEPT ![at[p]] = NoAlarm]
        /\ \A q \in People \ {p} : keeping'[q] = keeping[q]
        /\ UNCHANGED <<here, todo, step, at, popup, snap, spoiled>>
    BY <1>7 DEF KeepAlive, hereVars
  <2>2. \A q \in People : keeping'[q] =>
          step'[q] = "in" /\ quiet'[at'[q]] = 0 /\ closing'[at'[q]] = NoAlarm
    BY <1>0, <2>1
  <2>3. \A r \in Rooms : closing'[r] # NoAlarm => closing'[r] = closing[r]
    BY <1>0, <2>1
  <2>4. \A r \in Rooms : [room |-> r, kind |-> "cancel"] \in todo' => closing'[r] = NoAlarm
    BY <2>1, <2>3 DEF WarnInv
  <2>5. \A r \in Rooms, q \in People :
          /\ closing'[r] # NoAlarm /\ [room |-> r, kind |-> "warn"] \notin todo'
          /\ q \in here'[r] /\ ~spoiled'[q]
          => (step'[q] = "in" => popup'[q]) /\ (step'[q] = "greeting" => snap'[q])
    BY <2>1, <2>3 DEF WarnInv
  <2> QED BY <2>2, <2>4, <2>5 DEF WarnInv
<1>8. CASE KeepTells(p)
  <2>1. /\ at[p] \in Rooms /\ closing[at[p]] = NoAlarm
        /\ keeping' = [keeping EXCEPT ![p] = FALSE]
        /\ popup' = [q \in People |-> IF q \in here[at[p]] THEN FALSE ELSE popup[q]]
        /\ \A q \in People : ~spoiled'[q] => ~spoiled[q]
        /\ UNCHANGED <<here, quiet, closing, todo, step, at, snap>>
    BY <1>0, <1>8 DEF KeepTells, ShowClosing, roomVars, hereVars
  <2>2. ASSUME NEW r \in Rooms, NEW q \in People, q \in here'[r], ~spoiled'[q]
        PROVE  \/ q \in here[r] /\ ~spoiled[q] /\ (Sees(r, q) => Sees(r, q)')
               \/ closing[r] # NoAlarm => Sees(r, q)'
    <3>1. CASE r = at[p]
      BY <2>1, <3>1
    <3>2. CASE r # at[p]
      <4>1. q \notin here[at[p]]
        BY <2>1, <2>2, <3>2
      <4> QED BY <2>1, <2>2, <4>1 DEF Sees
    <3> QED BY <3>1, <3>2
  <2>3. \A q \in People : keeping'[q] => /\ keeping[q] /\ step'[q] = "in" /\ at'[q] = at[q]
                                         /\ quiet'[at[q]] = 0
    BY <1>0, <2>1
  <2> QED BY <2>1, <2>2, <2>3, QuietStepsWarn
<1>9. ASSUME NEW to \in {"out", "home"}, Drop(p, to) PROVE WarnInv'
  <2>1. /\ p \in here[at[p]] /\ at[p] \in Rooms /\ ~keeping[p]
        /\ here' = [here EXCEPT ![at[p]] = @ \ {p}]
        /\ step' = [step EXCEPT ![p] = to]
        /\ at' = [at EXCEPT ![p] = IF to = "home" THEN NoRoom ELSE @]
        /\ popup' = [popup EXCEPT ![p] = FALSE] /\ snap' = [snap EXCEPT ![p] = FALSE]
        /\ spoiled' = [spoiled EXCEPT ![p] = FALSE]
        /\ UNCHANGED <<quiet, closing, todo, keeping>>
    BY <1>9 DEF Drop, Leave, Forgets
  <2>2. ASSUME NEW r \in Rooms, NEW q \in People, q \in here'[r], ~spoiled'[q]
        PROVE  q \in here[r] /\ ~spoiled[q] /\ (Sees(r, q) => Sees(r, q)')
    <3>1. q # p /\ q \in here[r]
      BY <2>1, <2>2
    <3> QED BY <1>0, <2>1, <2>2, <3>1 DEF Sees
  <2>3. \A q \in People : keeping'[q] => /\ keeping[q] /\ step'[q] = "in" /\ at'[q] = at[q]
                                         /\ quiet'[at[q]] = 0
    BY <1>0, <2>1
  <2> QED BY <2>1, <2>2, <2>3, QuietStepsWarn
<1> QED BY <1>1, <1>2, <1>3, <1>4, <1>5, <1>6, <1>7, <1>8, <1>9 DEF Person, Socket

LEMMA ReaperTellsWarn ==
  ASSUME TypeOK, WarnInv, NEW t \in Told, ReaperTells(t)
  PROVE  WarnInv'
<1>0. /\ t \in todo /\ todo' = todo \ {t}
      /\ UNCHANGED <<closing, quiet, here, step, at, snap, keeping>>
  BY DEF ReaperTells, roomVars, hereVars
<1>1. CASE t.kind = "expired"
  <2>1. /\ UNCHANGED <<popup, spoiled>>
        /\ \A r \in Rooms : [room |-> r, kind |-> "warn"] \in todo => [room |-> r, kind |-> "warn"] \in todo'
        /\ todo' \subseteq todo
    BY <1>0, <1>1 DEF ReaperTells
  <2> QED BY <1>0, <2>1 DEF WarnInv
<1>2. CASE t.kind # "expired"
  <2>1. PICK q \in Rooms : t.room = q /\ t = [room |-> q, kind |-> t.kind] /\ t.kind \in {"warn", "cancel"}
    BY <1>2 DEF Told
  <2>2. /\ popup' = [p \in People |-> IF p \in here[q] THEN t.kind = "warn" ELSE popup[p]]
        /\ spoiled' = [p \in People |-> spoiled[p] \/ (p \in here[q] /\ step[p] = "greeting")]
    BY <1>2, <2>1 DEF ReaperTells, ShowClosing
  <2>3. ASSUME NEW r \in Rooms, NEW p \in People, closing[r] # NoAlarm,
               [room |-> r, kind |-> "warn"] \notin todo', p \in here[r], ~spoiled'[p]
        PROVE  (step[p] = "in" => popup'[p]) /\ (step[p] = "greeting" => snap[p])
    <3>1. CASE r = q
      <4>1. t.kind = "warn"
        BY <1>0, <2>1, <2>3, <3>1 DEF WarnInv
      <4> QED BY <2>2, <2>3, <3>1, <4>1
    <3>2. CASE r # q
      <4>1. [room |-> r, kind |-> "warn"] \notin todo
        BY <1>0, <2>1, <2>3, <3>2
      <4>2. p \notin here[q]
        BY <2>3, <3>2 DEF TypeOK, PresenceOK
      <4>3. ~spoiled[p] /\ popup'[p] = popup[p]
        BY <2>2, <2>3, <4>2
      <4> QED BY <2>3, <4>1, <4>3 DEF WarnInv
    <3> QED BY <3>1, <3>2
  <2>4. \A r \in Rooms : [room |-> r, kind |-> "cancel"] \in todo' => closing'[r] = NoAlarm
    BY <1>0 DEF WarnInv
  <2>5. \A r \in Rooms, p \in People :
          /\ closing'[r] # NoAlarm /\ [room |-> r, kind |-> "warn"] \notin todo'
          /\ p \in here'[r] /\ ~spoiled'[p]
          => (step'[p] = "in" => popup'[p]) /\ (step'[p] = "greeting" => snap'[p])
    BY <1>0, <2>3
  <2> QED BY <1>0, <2>4, <2>5 DEF WarnInv
<1> QED BY <1>1, <1>2

LEMMA SweepWarns ==
  ASSUME TypeOK, WarnInv, SweepIdle
  PROVE  WarnInv'
<1>0. /\ todo = {} /\ UNCHANGED <<quiet, here, step, at, popup, snap, keeping, spoiled>>
      /\ todo' = {[room |-> r, kind |-> Verdict(r)] : r \in {x \in listed : Verdict(x) # "none"}}
      /\ closing' = [r \in Rooms |->
           CASE r \in {x \in listed : Verdict(x) # "none"} /\ Verdict(r) = "warn" -> Grace
             [] r \in {x \in listed : Verdict(x) # "none"} /\ Verdict(r) = "cancel" -> NoAlarm
             [] OTHER -> closing[r]]
  BY DEF SweepIdle, hereVars, peopleVars
<1>1. ASSUME NEW r \in Rooms, [room |-> r, kind |-> "cancel"] \in todo' PROVE closing'[r] = NoAlarm
  BY <1>0, <1>1
<1>2. ASSUME NEW r \in Rooms, quiet[r] = 0, closing[r] = NoAlarm PROVE closing'[r] = NoAlarm
  <2>1. Verdict(r) = "none"
    BY <1>2, RegistryAssumption DEF Verdict, RegistryAssumption
  <2> QED BY <1>0, <1>2, <2>1
<1>3. ASSUME NEW r \in Rooms, closing'[r] # NoAlarm, [room |-> r, kind |-> "warn"] \notin todo'
      PROVE  closing[r] # NoAlarm
  <2>1. ~(r \in listed /\ Verdict(r) = "warn")
    BY <1>0, <1>3
  <2> QED BY <1>0, <1>3, <2>1
<1>4. \A p \in People : keeping'[p] =>
        step'[p] = "in" /\ quiet'[at'[p]] = 0 /\ closing'[at'[p]] = NoAlarm
  BY <1>0, <1>2 DEF WarnInv, TypeOK, PresenceOK
<1>5. \A r \in Rooms, p \in People :
        /\ closing'[r] # NoAlarm /\ [room |-> r, kind |-> "warn"] \notin todo'
        /\ p \in here'[r] /\ ~spoiled'[p]
        => (step'[p] = "in" => popup'[p]) /\ (step'[p] = "greeting" => snap'[p])
  BY <1>0, <1>3 DEF WarnInv
<1> QED BY <1>1, <1>4, <1>5 DEF WarnInv

LEMMA WarnHolds == TypeOK /\ WarnInv /\ [Next]_vars => WarnInv'
<1> SUFFICES ASSUME TypeOK, WarnInv, [Next]_vars PROVE WarnInv'
  OBVIOUS
<1>1. ASSUME NEW w \in Writers, Persist(w) PROVE WarnInv'
  BY <1>1, WarnStaysWhenUntouched
  DEF Persist, Snapshot, OpenTmp, WriteTmp, Rename, roomVars, hereVars, peopleVars
<1>2. ASSUME NEW h \in Handlers, Handler(h) PROVE WarnInv'
  BY <1>2, WarnStaysWhenUntouched DEF Handler, Create, Answer, Delete, roomVars, hereVars, peopleVars
<1>3. CASE Sweep \/ UNCHANGED vars
  BY <1>3, WarnStaysWhenUntouched DEF Sweep, vars, roomVars, hereVars, peopleVars
<1>4. CASE Tick
  <2>1. /\ todo = {} /\ todo' = todo /\ \A p \in People : ~keeping[p]
        /\ UNCHANGED <<here, step, at, popup, snap, keeping, spoiled>>
    BY <1>4 DEF Tick, hereVars, peopleVars
  <2>2. ASSUME NEW r \in Rooms, closing'[r] # NoAlarm PROVE closing[r] # NoAlarm
    BY <1>4, <2>2, RegistryAssumption
    DEF Tick, TypeOK, RoomsOK, NoAlarm, RegistryAssumption
  <2> QED BY <2>1, <2>2 DEF WarnInv
<1>5. CASE Restart
  BY <1>5 DEF Restart, WarnInv
<1> QED BY <1>1, <1>2, <1>3, <1>4, <1>5, PeopleWarn, ReaperTellsWarn, SweepWarns DEF Next

\* However people come and go, keep the room alive and are told of alarms and of
\* their withdrawal: in the step in which the reaper closes a room, everyone in
\* it who was welcomed before they heard anything else sees the countdown.
THEOREM OnlyTheWarnedAreClosed == Spec => ClosedOnlyWarned
<1>1. Init => WarnInv
  BY DEF Init, WarnInv
<1>2. TypeOK /\ WarnInv /\ [Next]_vars =>
        [\A r \in Rooms : [room |-> r, kind |-> "expired"] \in todo' \ todo =>
           \A p \in here[r] : step[p] = "in" /\ ~spoiled[p] => popup[p]]_vars
  <2> SUFFICES ASSUME TypeOK, WarnInv, Next, NEW r \in Rooms,
                      [room |-> r, kind |-> "expired"] \in todo', [room |-> r, kind |-> "expired"] \notin todo,
                      NEW p \in here[r], step[p] = "in", ~spoiled[p]
               PROVE  popup[p]
    OBVIOUS
  <2>1. SweepIdle
    <3>1. ASSUME NEW w \in Writers, Persist(w) PROVE todo' = todo
      BY <3>1 DEF Persist, Snapshot, OpenTmp, WriteTmp, Rename
    <3>2. ASSUME NEW h \in Handlers, Handler(h) PROVE todo' = todo
      BY <3>2 DEF Handler, Create, Answer, Delete
    <3>3. ASSUME NEW q \in People, Person(q) \/ Socket(q) PROVE todo' = todo
      BY <3>3 DEF Person, Open, SetPublishing, KeepAlive, GoHome, Drop, Socket, Authorise, Join,
                  LookClosing, Welcome, KeepTells
    <3>4. ASSUME Sweep \/ (\E t \in Told : ReaperTells(t)) \/ Tick \/ Restart PROVE todo' \subseteq todo
      BY <3>4 DEF Sweep, ReaperTells, Tick, Restart
    <3> QED BY <3>1, <3>2, <3>3, <3>4 DEF Next
  <2>2. todo = {} /\ Verdict(r) = "expired"
    BY <2>1 DEF SweepIdle
  <2>3. closing[r] # NoAlarm
    BY <2>2, RegistryAssumption DEF Verdict, NoAlarm, RegistryAssumption, TypeOK, RoomsOK
  <2> QED BY <2>2, <2>3 DEF WarnInv, TypeOK, PresenceOK
<1> QED BY <1>1, <1>2, WarnHolds, RegistryTypeCorrect, PTL DEF Spec, ClosedOnlyWarned

================================================================================
