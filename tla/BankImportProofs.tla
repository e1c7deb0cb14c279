---------------------------- MODULE BankImportProofs ----------------------------
(***************************************************************************)
(* BankImport for every set of transactions, every set of corrections and  *)
(* every bound.  The inductive invariant is Inv: what is typed, what the   *)
(* two marks of the connector say of the passes that run, what each        *)
(* command in the queue may still do, and the books themselves.            *)
(***************************************************************************)
EXTENDS BankImport, TLAPS

Steps == {"idle", "submitting", "marked"}
Pass == [step : Steps, first : BOOLEAN, batch : SUBSET Tx, todo : SUBSET Tx]
Row == [type : Types, amount : Int, category : {"bank", "owner"}, active : BOOLEAN]

Typed ==
  /\ Old \subseteq born /\ born \subseteq Tx
  /\ seen \in BOOLEAN /\ cursored \in BOOLEAN /\ gap \in BOOLEAN
  /\ fresh \subseteq born \ Old
  /\ pass \in [Passes -> Pass]
  /\ ledger \in [Tx -> Row \cup {NoRow}]
  /\ wanted \in [Tx -> [type : Types, size : Nat]]
  /\ imported \subseteq born /\ announced \subseteq imported /\ missed \subseteq born

\* What the marks say.
Marks ==
  /\ ~cursored => fresh = {}
  /\ cursored => seen
  /\ \A p \in Passes :
       /\ pass[p].todo \subseteq pass[p].batch /\ pass[p].batch \subseteq born
       /\ pass[p].step # "submitting" => pass[p].todo = {}
       /\ pass[p].step = "idle" => pass[p] = Idle
       /\ pass[p].step = "marked" => seen

\* A command that registers is about something the bank has, and does not
\* announce what is old.
Sound ==
  {c \in Commands :
     c.do = "register" =>
       c.tx \in born /\ (gap \/ c.tx \notin Old \/ c.historical)}

\* Outside the gap, a pass that is not a first one has nothing old to submit.
NothingOld ==
  \/ gap
  \/ /\ HistoryIsSilent
     /\ \A p \in Passes : ~pass[p].first => Old \cap pass[p].todo = {}

Books ==
  /\ \A t \in Tx : ledger[t] = NoRow \/ t \in imported
  /\ CorrectionsStand

Inv == Typed /\ Marks /\ queue \in Seq(Sound) /\ NothingOld /\ Books

-----------------------------------------------------------------------------
(* The rows.                                                                 *)

\* A row that matches the type and size wanted of it still does after a
\* correction is applied to both.
LEMMA UpdatedIsSigned ==
  ASSUME NEW row \in Row, NEW want \in [type : Types, size : Nat], NEW p \in Patch,
         row.type = want.type, row.amount = Signed(want.type, want.size)
  PROVE  LET now == [type |-> IF p.type = Blank THEN want.type ELSE p.type,
                     size |-> IF p.size = 0 THEN want.size ELSE p.size]
         IN /\ now \in [type : Types, size : Nat]
            /\ Updated(row, p) \in Row
            /\ Updated(row, p).type = now.type
            /\ Updated(row, p).amount = Signed(now.type, now.size)
<1> DEFINE type == IF p.type = Blank THEN row.type ELSE p.type
           now == [type |-> IF p.type = Blank THEN want.type ELSE p.type,
                   size |-> IF p.size = 0 THEN want.size ELSE p.size]
           amount == IF p.size > 0 THEN Signed(type, p.size)
                     ELSE IF type = row.type THEN row.amount
                     ELSE Signed(type, Size(row.amount))
<1>1. type \in Types /\ now \in [type : Types, size : Nat] /\ now.type = type
  BY DEF Patch, Row, Types, Blank
<1>2. amount \in Int /\ amount = Signed(now.type, now.size)
  <2>1. CASE p.size > 0
    BY <2>1, <1>1 DEF Patch, Signed
  <2>2. CASE p.size = 0 /\ type = row.type
    BY <2>2, <1>1 DEF Patch, Signed, Row
  <2>3. CASE p.size = 0 /\ type # row.type
    BY <2>3, <1>1 DEF Patch, Signed, Size, Row
  <2> QED BY <2>1, <2>2, <2>3 DEF Patch
<1>3. Updated(row, p) = [row EXCEPT !.type = type, !.amount = amount,
                           !.category = IF p.category = Blank THEN @ ELSE p.category]
  BY DEF Updated
<1>4. (IF p.category = Blank THEN row.category ELSE p.category) \in {"bank", "owner"}
  BY DEF Patch, Row, Blank
<1> QED BY <1>1, <1>2, <1>3, <1>4 DEF Row

\* An import gives a row of the bank's type and size, or leaves both alone.
LEMMA RegisteredIsSigned ==
  ASSUME NEW row \in Row \cup {NoRow}
  PROVE  /\ Registered(row) \in Row
         /\ row = NoRow => /\ Registered(row).type = Statement.type
                           /\ Registered(row).amount = Signed(Statement.type, Statement.size)
         /\ row # NoRow => /\ Registered(row).type = row.type
                           /\ Registered(row).amount = row.amount
BY DEF Registered, Row, Types, Statement, Signed, NoRow

\* Nothing else is in the ledger than rows, and NoRow is none.
LEMMA NoRowIsNoRow == NoRow \notin Row
BY DEF NoRow, Row, Types

(* The commands.                                                             *)

LEMMA KindOf ==
  ASSUME NEW c \in Commands
  PROVE  /\ c.tx \in Tx
         /\ c.do = "register" => c.historical \in BOOLEAN
         /\ c.do = "update" => c.patch \in Patch
         /\ c.do = "setActive" => c.active \in BOOLEAN
         /\ c.do \in {"register", "update", "remove", "setActive"}
BY ImportAssumption DEF Commands, ImportAssumption

\* The queue stays sound when the bank has more and the gap was hit.
LEMMA SoundGrows ==
  ASSUME queue \in Seq(Sound), born \subseteq born', gap => gap'
  PROVE  queue \in Seq(Sound')
<1>1. Sound \subseteq Sound' BY DEF Sound, Commands
<1> QED BY <1>1

-----------------------------------------------------------------------------
LEMMA InitInv == Init => Inv
<1> SUFFICES ASSUME Init PROVE Inv
  OBVIOUS
<1>1. Typed BY ImportAssumption DEF ImportAssumption, Init, Typed, Pass, Steps, Idle, Statement, Types
<1>2. Marks BY DEF Init, Marks, Idle
<1>3. queue \in Seq(Sound) BY DEF Init
<1>4. NothingOld BY DEF Init, NothingOld, HistoryIsSilent, Idle
<1>5. Books BY DEF Init, Books, CorrectionsStand
<1> QED BY <1>1, <1>2, <1>3, <1>4, <1>5 DEF Inv

\* The bank: a transaction that is new is not old.
LEMMA CreateStep == ASSUME Inv, NEW t \in Tx, Create(t) PROVE Inv'
<1> USE DEF Inv
<1>1. Typed' BY DEF Typed, Create, bookVars
<1>2. Marks' BY DEF Marks, Typed, Create
<1>3. queue' \in Seq(Sound') BY SoundGrows DEF Create
<1>4. NothingOld' BY DEF NothingOld, HistoryIsSilent, Create, bookVars
<1>5. Books' BY DEF Books, CorrectionsStand, Create, bookVars
<1> QED BY <1>1, <1>2, <1>3, <1>4, <1>5

\* The steps of the connector that send nothing and leave the books alone.
LEMMA BeginStep == ASSUME Inv, NEW p \in Passes, Begin(p) PROVE Inv'
<1> USE DEF Inv
<1> DEFINE begun == [step |-> "submitting", first |-> ~seen,
                     batch |-> Window(~seen), todo |-> Window(~seen)]
<1>0. /\ pass' = [pass EXCEPT ![p] = begun]
      /\ Window(~seen) \subseteq born
      /\ begun \in Pass
  BY DEF Begin, Window, Typed, Pass, Steps
<1>1. Typed' BY <1>0 DEF Typed, Begin, bookVars
<1>2. Marks' BY <1>0 DEF Marks, Typed, Begin
<1>3. queue' \in Seq(Sound') BY SoundGrows DEF Begin
<1>4. NothingOld'
  <2>1. CASE gap' BY <2>1 DEF NothingOld
  <2>2. CASE ~gap'
    <3>1. ~gap /\ (~seen \/ cursored) BY <2>2 DEF Begin, Typed
    <3>2. ~begun.first => Old \cap begun.todo = {} BY <3>1 DEF Window, Typed
    <3>3. \A q \in Passes : ~pass'[q].first => Old \cap pass'[q].todo = {}
      BY <1>0, <3>1, <3>2 DEF NothingOld, Typed
    <3> QED BY <3>1, <3>3 DEF NothingOld, HistoryIsSilent, Begin, bookVars
  <2> QED BY <2>1, <2>2
<1>5. Books' BY DEF Books, CorrectionsStand, Begin, bookVars
<1> QED BY <1>1, <1>2, <1>3, <1>4, <1>5

LEMMA SubmitStep == ASSUME Inv, NEW p \in Passes, NEW t \in Tx, Submit(p, t) PROVE Inv'
<1> USE DEF Inv
<1> DEFINE c == [do |-> "register", tx |-> t, historical |-> pass[p].first]
<1>1. Typed' BY DEF Typed, Submit, bookVars, Pass
<1>2. Marks'
  <2>1. \A q \in Passes \ {p} : pass'[q] = pass[q] BY DEF Submit, Typed
  <2>2. /\ pass'[p].step = "submitting" /\ pass'[p].batch = pass[p].batch
        /\ pass'[p].todo \subseteq pass[p].todo
    BY DEF Submit, Typed, Pass
  <2>3. UNCHANGED <<born, seen, cursored, fresh>> BY DEF Submit
  <2> QED BY <2>1, <2>2, <2>3 DEF Marks
<1>3. queue' \in Seq(Sound')
  <2>1. c \in Sound
    <3>1. pass[p].first \in BOOLEAN /\ t \in pass[p].todo /\ t \in born
      BY DEF Submit, Marks, Typed, Pass
    <3>2. gap \/ t \notin Old \/ pass[p].first BY <3>1 DEF NothingOld
    <3> QED BY <3>1, <3>2 DEF Sound, Commands
  <2>2. Append(queue, c) \in Seq(Sound) BY <2>1
  <2>3. Sound' = Sound BY DEF Sound, Commands, Submit
  <2> QED BY <2>2, <2>3 DEF Submit
<1>4. NothingOld' BY DEF NothingOld, HistoryIsSilent, Submit, bookVars, Typed, Pass
<1>5. Books' BY DEF Books, CorrectionsStand, Submit, bookVars
<1> QED BY <1>1, <1>2, <1>3, <1>4, <1>5

LEMMA SubmitFailsStep ==
  ASSUME Inv, NEW p \in Passes, NEW t \in Tx, SubmitFails(p, t) PROVE Inv'
<1> USE DEF Inv
<1>1. Typed'
  <2>1. t \in born BY DEF SubmitFails, Marks
  <2> QED BY <2>1 DEF Typed, SubmitFails, bookVars, Pass
<1>2. Marks'
  <2>1. \A q \in Passes \ {p} : pass'[q] = pass[q] BY DEF SubmitFails, Typed
  <2>2. /\ pass'[p].step = "submitting" /\ pass'[p].batch = pass[p].batch
        /\ pass'[p].todo \subseteq pass[p].todo
    BY DEF SubmitFails, Typed, Pass
  <2>3. UNCHANGED <<born, seen, cursored, fresh>> BY DEF SubmitFails
  <2> QED BY <2>1, <2>2, <2>3 DEF Marks
<1>3. queue' \in Seq(Sound') BY SoundGrows DEF SubmitFails
<1>4. NothingOld' BY DEF NothingOld, HistoryIsSilent, SubmitFails, bookVars, Typed, Pass
<1>5. Books' BY DEF Books, CorrectionsStand, SubmitFails, bookVars
<1> QED BY <1>1, <1>2, <1>3, <1>4, <1>5

LEMMA MarkSeenStep == ASSUME Inv, NEW p \in Passes, MarkSeen(p) PROVE Inv'
<1> USE DEF Inv
<1>1. Typed'
  <2>1. [pass[p] EXCEPT !.step = "marked"] \in Pass BY DEF Typed, Pass, Steps
  <2>2. pass' \in [Passes -> Pass] BY <2>1 DEF Typed, MarkSeen
  <2> QED BY <2>2 DEF Typed, MarkSeen, bookVars
<1>2. Marks' BY DEF Marks, Typed, MarkSeen, Pass, Idle
<1>3. queue' \in Seq(Sound') BY SoundGrows DEF MarkSeen
<1>4. NothingOld' BY DEF NothingOld, HistoryIsSilent, MarkSeen, bookVars, Typed, Pass
<1>5. Books' BY DEF Books, CorrectionsStand, MarkSeen, bookVars
<1> QED BY <1>1, <1>2, <1>3, <1>4, <1>5

LEMMA MoveCursorStep == ASSUME Inv, NEW p \in Passes, MoveCursor(p) PROVE Inv'
<1> USE DEF Inv
<1>0. Idle \in Pass BY DEF Idle, Pass, Steps
<1>1. Typed'
  <2>1. Window(FALSE) \subseteq born BY DEF Window, Typed
  <2> QED BY <1>0, <2>1 DEF Typed, MoveCursor, bookVars
<1>2. Marks' BY <1>0 DEF Marks, Typed, MoveCursor, Idle
<1>3. queue' \in Seq(Sound') BY SoundGrows DEF MoveCursor
<1>4. NothingOld' BY DEF NothingOld, HistoryIsSilent, MoveCursor, bookVars, Typed, Idle
<1>5. Books' BY DEF Books, CorrectionsStand, MoveCursor, bookVars
<1> QED BY <1>1, <1>2, <1>3, <1>4, <1>5

LEMMA AbortStep == ASSUME Inv, NEW p \in Passes, Abort(p) PROVE Inv'
<1> USE DEF Inv
<1>0. Idle \in Pass BY DEF Idle, Pass, Steps
<1>1. Typed' BY <1>0 DEF Typed, Abort, bookVars
<1>2. Marks' BY DEF Marks, Typed, Abort, Idle
<1>3. queue' \in Seq(Sound') BY SoundGrows DEF Abort
<1>4. NothingOld' BY DEF NothingOld, HistoryIsSilent, Abort, bookVars, Typed, Idle
<1>5. Books' BY DEF Books, CorrectionsStand, Abort, bookVars
<1> QED BY <1>1, <1>2, <1>3, <1>4, <1>5

LEMMA RestartStep == ASSUME Inv, Restart PROVE Inv'
<1> USE DEF Inv
<1>0. Idle \in Pass BY DEF Idle, Pass, Steps
<1>1. Typed' BY <1>0 DEF Typed, Restart, bookVars
<1>2. Marks' BY DEF Marks, Restart, Idle
<1>3. queue' \in Seq(Sound') BY SoundGrows DEF Restart
<1>4. NothingOld' BY DEF NothingOld, HistoryIsSilent, Restart, bookVars, Idle
<1>5. Books' BY DEF Books, CorrectionsStand, Restart, bookVars
<1> QED BY <1>1, <1>2, <1>3, <1>4, <1>5

\* The owner sends a command: it is not one that registers.
LEMMA AskStep ==
  ASSUME Inv, NEW c \in Commands, c.do # "register", Ask(c) PROVE Inv'
<1> USE DEF Inv
<1>1. Typed' BY DEF Typed, Ask, bookVars, syncVars
<1>2. Marks' BY DEF Marks, Ask, syncVars
<1>3. queue' \in Seq(Sound')
  <2>1. c \in Sound BY DEF Sound
  <2>2. Append(queue, c) \in Seq(Sound) BY <2>1
  <2>3. Sound' = Sound BY DEF Sound, Commands, Ask
  <2> QED BY <2>2, <2>3 DEF Ask
<1>4. NothingOld' BY DEF NothingOld, HistoryIsSilent, Ask, bookVars, syncVars
<1>5. Books' BY DEF Books, CorrectionsStand, Ask, bookVars
<1> QED BY <1>1, <1>2, <1>3, <1>4, <1>5

\* The oldest command is applied: the queue keeps what is sound, and each kind
\* of command keeps the books.
LEMMA ApplyStep == ASSUME Inv, Apply PROVE Inv'
<1> USE DEF Inv
<1> DEFINE c == Head(queue)
<1>0. c \in Sound /\ c \in Commands /\ c.tx \in Tx /\ queue' \in Seq(Sound)
  <2>1. c \in Sound /\ Tail(queue) \in Seq(Sound) BY DEF Apply
  <2> QED BY <2>1, KindOf DEF Apply, Sound
<1>3. queue' \in Seq(Sound')
  <2>1. Sound' = Sound BY DEF Sound, Commands, Apply
  <2> QED BY <1>0, <2>1
<1>2. Marks' BY DEF Marks, Apply, syncVars
<1>a. UNCHANGED <<born, syncVars, missed, gap>> BY DEF Apply
<1>b. CASE Register(c)
  <2>1. c.tx \in born /\ (gap \/ c.tx \notin Old \/ c.historical) BY <1>0, <1>b DEF Sound, Register
  <2>2. /\ Registered(ledger[c.tx]) \in Row
        /\ ledger' = [ledger EXCEPT ![c.tx] = Registered(ledger[c.tx])]
        /\ wanted' = [wanted EXCEPT ![c.tx] = IF ledger[c.tx] = NoRow THEN Statement ELSE wanted[c.tx]]
    BY <1>0, <1>b, RegisteredIsSigned DEF Register, Typed
  <2>3. Typed' BY <1>a, <1>b, <1>0, <2>1, <2>2 DEF Typed, Register, syncVars, Statement, Types
  <2>4. NothingOld' BY <1>a, <1>b, <2>1 DEF NothingOld, HistoryIsSilent, Register, syncVars
  <2>5. \A t \in Tx : ledger'[t] = NoRow \/ t \in imported'
    BY <1>b, <1>0, <2>2 DEF Register, Books, Typed
  <2>6. CorrectionsStand'
    <3> SUFFICES ASSUME NEW t \in Tx, ledger'[t] # NoRow
                 PROVE  ledger'[t].type = wanted'[t].type
                        /\ ledger'[t].amount = Signed(wanted'[t].type, wanted'[t].size)
      BY DEF CorrectionsStand
    <3>1. CASE t # c.tx BY <3>1, <1>0, <2>2 DEF Books, CorrectionsStand, Typed
    <3>2. CASE t = c.tx BY <3>2, <1>0, <2>2, RegisteredIsSigned DEF Books, CorrectionsStand, Typed
    <3> QED BY <3>1, <3>2
  <2> QED BY <1>2, <1>3, <2>3, <2>4, <2>5, <2>6 DEF Books
<1>c. CASE Update(c)
  <2> DEFINE want == [type |-> IF c.patch.type = Blank THEN wanted[c.tx].type ELSE c.patch.type,
                      size |-> IF c.patch.size = 0 THEN wanted[c.tx].size ELSE c.patch.size]
  <2>1. c.patch \in Patch /\ ledger[c.tx] \in Row /\ wanted[c.tx] \in [type : Types, size : Nat]
    BY <1>0, <1>c, KindOf DEF Update, Typed
  <2>2. /\ ledger' = [ledger EXCEPT ![c.tx] = Updated(ledger[c.tx], c.patch)]
        /\ wanted' = [wanted EXCEPT ![c.tx] = want]
    BY <1>c, <1>0 DEF Update, Typed
  <2>3. /\ ledger[c.tx].type = wanted[c.tx].type
        /\ ledger[c.tx].amount = Signed(wanted[c.tx].type, wanted[c.tx].size)
    BY <1>0, <1>c DEF Update, Books, CorrectionsStand
  <2>4. /\ want \in [type : Types, size : Nat]
        /\ Updated(ledger[c.tx], c.patch) \in Row
        /\ Updated(ledger[c.tx], c.patch).type = want.type
        /\ Updated(ledger[c.tx], c.patch).amount = Signed(want.type, want.size)
    BY <2>1, <2>3, UpdatedIsSigned
  <2>5. Typed' BY <1>a, <1>c, <1>0, <2>2, <2>4 DEF Typed, Update, syncVars
  <2>6. NothingOld' BY <1>a, <1>c DEF NothingOld, HistoryIsSilent, Update, syncVars
  <2>7. \A t \in Tx : ledger'[t] = NoRow \/ t \in imported'
    BY <1>c, <1>0, <2>2 DEF Update, Books, Typed
  <2>8. CorrectionsStand'
    <3> SUFFICES ASSUME NEW t \in Tx, ledger'[t] # NoRow
                 PROVE  ledger'[t].type = wanted'[t].type
                        /\ ledger'[t].amount = Signed(wanted'[t].type, wanted'[t].size)
      BY DEF CorrectionsStand
    <3>1. CASE t # c.tx BY <3>1, <1>0, <2>2 DEF Books, CorrectionsStand, Typed
    <3>2. CASE t = c.tx
      <4>1. ledger'[t] = Updated(ledger[c.tx], c.patch) /\ wanted'[t] = want
        BY <3>2, <1>0, <2>2 DEF Typed
      <4> QED BY <4>1, <2>4
    <3> QED BY <3>1, <3>2
  <2> QED BY <1>2, <1>3, <2>5, <2>6, <2>7, <2>8 DEF Books
<1>d. CASE Delete(c)
  <2>1. Typed' BY <1>a, <1>d, <1>0 DEF Typed, Delete, syncVars
  <2>2. NothingOld' BY <1>a, <1>d DEF NothingOld, HistoryIsSilent, Delete, syncVars
  <2>3. Books' BY <1>d, <1>0 DEF Books, CorrectionsStand, Delete, Typed
  <2> QED BY <1>2, <1>3, <2>1, <2>2, <2>3
<1>e. CASE SwitchActive(c)
  <2>1. c.active \in BOOLEAN /\ ledger[c.tx] \in Row
    BY <1>0, <1>e, KindOf DEF SwitchActive, Typed
  <2>2. ledger' = [ledger EXCEPT ![c.tx] = [ledger[c.tx] EXCEPT !.active = c.active]]
    BY <1>e DEF SwitchActive
  <2>a. [ledger[c.tx] EXCEPT !.active = c.active] \in Row BY <2>1 DEF Row
  <2>3. Typed' BY <1>a, <1>e, <1>0, <2>a, <2>2 DEF Typed, SwitchActive, syncVars
  <2>4. NothingOld' BY <1>a, <1>e DEF NothingOld, HistoryIsSilent, SwitchActive, syncVars
  <2>5. Books'
    BY <1>e, <1>0, <2>1, <2>2, NoRowIsNoRow DEF Books, CorrectionsStand, SwitchActive, Typed, Row
  <2> QED BY <1>2, <1>3, <2>3, <2>4, <2>5
<1>f. CASE Refused(c)
  <2>1. Typed' BY <1>a, <1>f DEF Typed, Refused, bookVars, syncVars
  <2>2. NothingOld' BY <1>a, <1>f DEF NothingOld, HistoryIsSilent, Refused, bookVars, syncVars
  <2>3. Books' BY <1>f DEF Books, CorrectionsStand, Refused, bookVars
  <2> QED BY <1>2, <1>3, <2>1, <2>2, <2>3
<1> QED BY <1>b, <1>c, <1>d, <1>e, <1>f DEF Apply

LEMMA LoseStep == ASSUME Inv, Lose PROVE Inv'
<1> USE DEF Inv
<1>0. Head(queue) \in Sound /\ Tail(queue) \in Seq(Sound) BY DEF Lose
<1>1. Typed' BY <1>0 DEF Typed, Lose, bookVars, syncVars, Sound
<1>2. Marks' BY DEF Marks, Lose, syncVars
<1>3. queue' \in Seq(Sound')
  <2>1. Sound' = Sound BY DEF Sound, Commands, Lose
  <2> QED BY <1>0, <2>1 DEF Lose
<1>4. NothingOld' BY DEF NothingOld, HistoryIsSilent, Lose, bookVars, syncVars
<1>5. Books' BY DEF Books, CorrectionsStand, Lose, bookVars
<1> QED BY <1>1, <1>2, <1>3, <1>4, <1>5

LEMMA StepInv == Inv /\ [Next]_vars => Inv'
<1> SUFFICES ASSUME Inv, [Next]_vars PROVE Inv'
  OBVIOUS
<1>1. ASSUME NEW t \in Tx, Create(t) PROVE Inv' BY <1>1, CreateStep
<1>2. ASSUME NEW p \in Passes, Begin(p) PROVE Inv' BY <1>2, BeginStep
<1>3. ASSUME NEW p \in Passes, NEW t \in Tx, Submit(p, t) PROVE Inv' BY <1>3, SubmitStep
<1>4. ASSUME NEW p \in Passes, MarkSeen(p) PROVE Inv' BY <1>4, MarkSeenStep
<1>5. ASSUME NEW p \in Passes, MoveCursor(p) PROVE Inv' BY <1>5, MoveCursorStep
<1>6. ASSUME NEW p \in Passes, Abort(p) PROVE Inv' BY <1>6, AbortStep
<1>7. ASSUME NEW p \in Passes, NEW t \in Tx, SubmitFails(p, t) PROVE Inv' BY <1>7, SubmitFailsStep
<1>8. CASE Restart BY <1>8, RestartStep
<1>9. ASSUME NEW t \in Tx, Remove(t) \/ SetActive(t) \/ \E p \in Patches : Correct(t, p) PROVE Inv'
  <2>1. CASE Remove(t)
    <3>1. [do |-> "remove", tx |-> t] \in Commands BY DEF Commands
    <3> QED BY <2>1, <3>1, AskStep DEF Remove
  <2>2. CASE SetActive(t)
    <3>1. ledger[t].active \in BOOLEAN
      BY <2>2 DEF SetActive, Inv, Typed, Row
    <3>2. [do |-> "setActive", tx |-> t, active |-> ~ledger[t].active] \in Commands
      BY <3>1 DEF Commands
    <3> QED BY <2>2, <3>2, AskStep DEF SetActive
  <2>3. ASSUME NEW p \in Patches, Correct(t, p) PROVE Inv'
    <3>1. [do |-> "update", tx |-> t, patch |-> p] \in Commands BY DEF Commands
    <3> QED BY <2>3, <3>1, AskStep DEF Correct
  <2> QED BY <1>9, <2>1, <2>2, <2>3
<1>10. CASE Apply BY <1>10, ApplyStep
<1>11. CASE Lose BY <1>11, LoseStep
<1>12. CASE UNCHANGED vars
  <2>1. Sound' = Sound BY <1>12 DEF Sound, Commands, vars
  <2> QED BY <1>12, <2>1 DEF Inv, Typed, Marks, NothingOld, HistoryIsSilent, Books, CorrectionsStand,
             vars, syncVars, bookVars
<1> QED BY <1>1, <1>2, <1>3, <1>4, <1>5, <1>6, <1>7, <1>8, <1>9, <1>10, <1>11, <1>12 DEF Next, Step

LEMMA InvHolds == Spec => []Inv
BY InitInv, StepInv, PTL DEF Spec

\* The marks of the connector, its passes, the queue and the ledger keep
\* their shape whatever the two threads, the faults and the owner do.
THEOREM ImportTypeCorrect == Spec => []TypeOK
<1>1. Inv => TypeOK
  <2> SUFFICES ASSUME Inv PROVE TypeOK OBVIOUS
  <2>1. \A i \in DOMAIN queue : queue[i] \in Commands BY DEF Inv, Sound
  <2>2. \A p \in Passes : pass[p].step \in {"idle", "submitting", "marked"}
    BY DEF Inv, Typed, Pass, Steps
  <2> QED BY <2>1, <2>2 DEF Inv, Typed, Marks, Books, TypeOK
<1> QED BY <1>1, InvHolds, PTL

\* The history of an account is announced only when a pass begins between the
\* two marks of another, for any number of transactions, faults and pushes.
THEOREM HistoryStaysSilent == Spec => []OnlyTheGapTells
<1>1. Inv => OnlyTheGapTells BY DEF Inv, NothingOld, OnlyTheGapTells
<1> QED BY <1>1, InvHolds, PTL

\* However imports, corrections and removals follow one another, every row has
\* the owner's type and size and the sign that goes with them.
THEOREM CorrectionsAlwaysStand == Spec => []CorrectionsStand
<1>1. Inv => CorrectionsStand BY DEF Inv, Books
<1> QED BY <1>1, InvHolds, PTL
=============================================================================
