------------------------------- MODULE BankImport -------------------------------
(***************************************************************************)
(* One bank account of a user, from the bank to the ledger.  The Open      *)
(* Finance connector reads the account again and again (`Syncer' in        *)
(* sync/runner.py) and sends what it reads as register commands;           *)
(* domain-worker applies them, and the corrections the owner asks for on   *)
(* the transaction's screen, to finance_transactions.                      *)
(*                                                                         *)
(* The connector has two threads that read: the poll loop of main.py and   *)
(* the thread a webhook starts in tick_server.py.  The webhook's lock      *)
(* keeps two ticks apart and nothing else: the poll loop never takes it,   *)
(* so both threads share the sets of `Syncer', which live in memory only.  *)
(*                                                                         *)
(* The command pipeline between them is the one of CommandPipeline, seen   *)
(* from outside: commands apply one at a time in the order they were       *)
(* accepted, and one may be lost with the process that took it.            *)
(***************************************************************************)
EXTENDS Integers, Sequences, FiniteSets

CONSTANTS
  Tx,          \* the transactions the bank may have, by their external_id
  Old,         \* the ones it has when the account is connected
  Patches,     \* the corrections the owner may send
  MaxEvents    \* bound: webhooks that start a pass, commands of the owner and
               \* faults (restarts, failed pages and submits, lost commands),
               \* all told

Types == {"EXPENSE", "INCOME", "TRANSFER"}

\* What a form sends: a blank field means "keep".  Amounts are absolute.
Blank == "blank"
Patch == [type : Types \cup {Blank}, size : Nat, category : {"owner", Blank}]

ASSUME ImportAssumption ==
  /\ IsFiniteSet(Tx) /\ Old \subseteq Tx
  /\ Patches \subseteq Patch
  /\ MaxEvents \in Nat

Passes == {"poll", "tick"}

VARIABLES
  (* the bank *)
  born,      \* transactions the bank has
  (* the connector's memory *)
  seen,      \* account \in _seen_accounts
  cursored,  \* account \in _cursor
  fresh,     \* transactions created since the cursor
  pass,      \* pass[p]: step of _sync_transactions, and what it has read
  (* domain-worker *)
  queue,     \* accepted commands, oldest first
  ledger,    \* finance_transactions: the row of each transaction, or NoRow
  (* history, read by properties only *)
  wanted,    \* wanted[t]: type and size, by the bank and then by the owner
  imported,  \* transactions that were registered at some time
  announced, \* transactions registered by an event that is not historical
  missed,    \* transactions whose reading failed, or that a pass ran past
  gap,       \* whether a pass began between the two marks of another
  events     \* webhooks, commands of the owner and faults so far

syncVars == <<seen, cursored, fresh, pass>>
bookVars == <<ledger, wanted, imported, announced>>
vars == <<born, syncVars, queue, bookVars, missed, gap, events>>

NoRow == [type |-> "none", amount |-> 0, category |-> "none", active |-> FALSE]

\* A statement line: a debit of one unit.  A credit is its mirror image.
Statement == [type |-> "EXPENSE", size |-> 1]

Idle == [step |-> "idle", first |-> FALSE, batch |-> {}, todo |-> {}]

-----------------------------------------------------------------------------
(* The rows of the ledger.                                                   *)

Size(n) == IF n < 0 THEN -n ELSE n

\* The sign of an amount is its direction; whoever applies decides it.
Signed(type, size) == IF type = "EXPENSE" THEN -size ELSE size

\* Fault variant: the second import of a line writes its amount and type too.
Registered_Overwrites(row) ==
  [type |-> Statement.type, amount |-> Signed(Statement.type, Statement.size),
   category |-> "bank", active |-> TRUE]

\* RegisterTransaction and the upsert it ends in: the id comes from the line's
\* external_id, and on a conflict only what the bank knows better is written.
Registered(row) ==
  IF row = NoRow
  THEN [type |-> Statement.type, amount |-> Signed(Statement.type, Statement.size),
        category |-> "bank", active |-> TRUE]
  ELSE [row EXCEPT !.category = "bank"]

\* Fault variant: a change of type alone leaves the sign behind.
Updated_KeepsSign(row, p) ==
  LET type == IF p.type = Blank THEN row.type ELSE p.type
  IN [row EXCEPT !.type = type,
        !.amount = IF p.size = 0 THEN @ ELSE Signed(type, p.size),
        !.category = IF p.category = Blank THEN @ ELSE p.category]

\* UpdateTransaction: what the patch leaves blank stays, and the sign follows
\* the type the row ends with.
Updated(row, p) ==
  LET type == IF p.type = Blank THEN row.type ELSE p.type
      amount == IF p.size > 0 THEN Signed(type, p.size)
                ELSE IF type = row.type THEN row.amount
                ELSE Signed(type, Size(row.amount))
  IN [row EXCEPT !.type = type, !.amount = amount,
        !.category = IF p.category = Blank THEN @ ELSE p.category]

-----------------------------------------------------------------------------
Init ==
  /\ born = Old
  /\ seen = FALSE /\ cursored = FALSE /\ fresh = {}
  /\ pass = [p \in Passes |-> Idle]
  /\ queue = <<>>
  /\ ledger = [t \in Tx |-> NoRow]
  /\ wanted = [t \in Tx |-> Statement]
  /\ imported = {} /\ announced = {} /\ missed = {} /\ gap = FALSE
  /\ events = 0

(* The bank: somebody buys something.                                        *)
Create(t) ==
  /\ t \notin born
  /\ born' = born \cup {t}
  /\ fresh' = IF cursored THEN fresh \cup {t} ELSE {}
  /\ UNCHANGED <<seen, cursored, pass, queue, bookVars, missed, gap, events>>

(* The connector.                                                            *)

\* _window: everything within the backfill on the first pass, what was
\* created since the cursor on the others.  A cursor that is not there is
\* replaced by the start of the backfill.
Window(first) == IF first \/ ~cursored THEN born ELSE fresh

\* Fault variant: the account is marked as seen when its first pass begins.
Begin_MarksSeen(p) ==
  /\ pass[p].step = "idle"
  /\ events' = IF p = "tick" THEN events + 1 ELSE events
  /\ events' <= MaxEvents
  /\ pass' = [pass EXCEPT ![p] =
       [step |-> "submitting", first |-> ~seen, batch |-> Window(~seen), todo |-> Window(~seen)]]
  /\ seen' = TRUE
  /\ gap' = (gap \/ (seen /\ ~cursored /\ \E q \in Passes : pass[q].step = "marked"))
  /\ UNCHANGED <<born, cursored, fresh, queue, bookVars, missed>>

\* _sync_transactions up to the provider's answer.
Begin(p) ==
  /\ pass[p].step = "idle"
  /\ events' = IF p = "tick" THEN events + 1 ELSE events
  /\ events' <= MaxEvents
  /\ pass' = [pass EXCEPT ![p] =
       [step |-> "submitting", first |-> ~seen, batch |-> Window(~seen), todo |-> Window(~seen)]]
  /\ gap' = (gap \/ (seen /\ ~cursored))
  /\ UNCHANGED <<born, seen, cursored, fresh, queue, bookVars, missed>>

\* One line of the batch becomes a command.  A submit that raised after
\* finance-api accepted it looks the same: nothing is sent again.
Submit(p, t) ==
  /\ pass[p].step = "submitting" /\ t \in pass[p].todo
  /\ queue' = Append(queue, [do |-> "register", tx |-> t, historical |-> pass[p].first])
  /\ pass' = [pass EXCEPT ![p].todo = @ \ {t}]
  /\ UNCHANGED <<born, seen, cursored, fresh, bookVars, missed, gap, events>>

\* The submit raised and the command did not get there: the pass logs it and
\* goes on with the next line.
SubmitFails(p, t) ==
  /\ pass[p].step = "submitting" /\ t \in pass[p].todo /\ events < MaxEvents
  /\ pass' = [pass EXCEPT ![p].todo = @ \ {t}]
  /\ missed' = missed \cup {t}
  /\ events' = events + 1
  /\ UNCHANGED <<born, seen, cursored, fresh, queue, bookVars, gap>>

\* The batch is through: _seen_accounts.add ...
MarkSeen(p) ==
  /\ pass[p].step = "submitting" /\ pass[p].todo = {}
  /\ seen' = TRUE
  /\ pass' = [pass EXCEPT ![p].step = "marked"]
  /\ UNCHANGED <<born, cursored, fresh, queue, bookVars, missed, gap, events>>

\* ... and then _cursor = now.  What the bank created after it answered this
\* pass is before the new cursor.
MoveCursor(p) ==
  /\ pass[p].step = "marked"
  /\ cursored' = TRUE
  /\ missed' = missed \cup (Window(FALSE) \ pass[p].batch)
  /\ fresh' = {}
  /\ pass' = [pass EXCEPT ![p] = Idle]
  /\ UNCHANGED <<born, seen, queue, bookVars, gap, events>>

\* Fault variant: a pass that fails moves the cursor all the same.
Abort_MovesCursor(p) ==
  /\ pass[p].step = "submitting" /\ events < MaxEvents
  /\ pass' = [pass EXCEPT ![p] = Idle]
  /\ seen' = TRUE /\ cursored' = TRUE /\ fresh' = {}
  /\ events' = events + 1
  /\ UNCHANGED <<born, queue, bookVars, missed, gap>>

\* A page of the provider raises: the exception leaves run_once, and neither
\* mark is moved.
Abort(p) ==
  /\ pass[p].step = "submitting" /\ events < MaxEvents
  /\ pass' = [pass EXCEPT ![p] = Idle]
  /\ events' = events + 1
  /\ UNCHANGED <<born, seen, cursored, fresh, queue, bookVars, missed, gap>>

\* The process starts again: every account is new to it.
Restart ==
  /\ events < MaxEvents
  /\ events' = events + 1
  /\ seen' = FALSE /\ cursored' = FALSE /\ fresh' = {}
  /\ pass' = [p \in Passes |-> Idle]
  /\ UNCHANGED <<born, queue, bookVars, missed, gap>>

(* The owner, on the screen of a transaction.                                *)
Ask(command) ==
  /\ events < MaxEvents
  /\ events' = events + 1
  /\ queue' = Append(queue, command)
  /\ UNCHANGED <<born, syncVars, bookVars, missed, gap>>

Correct(t, p) ==
  /\ ledger[t] # NoRow
  /\ Ask([do |-> "update", tx |-> t, patch |-> p])

Remove(t) ==
  /\ ledger[t] # NoRow
  /\ Ask([do |-> "remove", tx |-> t])

SetActive(t) ==
  /\ ledger[t] # NoRow
  /\ Ask([do |-> "setActive", tx |-> t, active |-> ~ledger[t].active])

(* domain-worker: the oldest command is applied.                             *)
Register(c) ==
  /\ c.do = "register"
  /\ ledger' = [ledger EXCEPT ![c.tx] = Registered(@)]
  /\ wanted' = [wanted EXCEPT ![c.tx] = IF ledger[c.tx] = NoRow THEN Statement ELSE @]
  /\ imported' = imported \cup {c.tx}
  /\ announced' = IF c.historical THEN announced ELSE announced \cup {c.tx}

\* The owner's commands fail when the row is gone.
Update(c) ==
  /\ c.do = "update"
  /\ ledger[c.tx] # NoRow
  /\ ledger' = [ledger EXCEPT ![c.tx] = Updated(@, c.patch)]
  /\ wanted' = [wanted EXCEPT ![c.tx] =
       [type |-> IF c.patch.type = Blank THEN @.type ELSE c.patch.type,
        size |-> IF c.patch.size = 0 THEN @.size ELSE c.patch.size]]
  /\ UNCHANGED <<imported, announced>>

Delete(c) ==
  /\ c.do = "remove"
  /\ ledger' = [ledger EXCEPT ![c.tx] = NoRow]
  /\ UNCHANGED <<wanted, imported, announced>>

SwitchActive(c) ==
  /\ c.do = "setActive"
  /\ ledger[c.tx] # NoRow
  /\ ledger' = [ledger EXCEPT ![c.tx].active = c.active]
  /\ UNCHANGED <<wanted, imported, announced>>

Refused(c) ==
  /\ c.do \in {"update", "setActive"}
  /\ ledger[c.tx] = NoRow
  /\ UNCHANGED bookVars

Apply ==
  /\ queue # <<>>
  /\ queue' = Tail(queue)
  /\ LET c == Head(queue)
     IN Register(c) \/ Update(c) \/ Delete(c) \/ SwitchActive(c) \/ Refused(c)
  /\ UNCHANGED <<born, syncVars, missed, gap, events>>

\* domain-worker ends with the command it took: autoAck had it off the queue.
Lose ==
  /\ queue # <<>> /\ events < MaxEvents
  /\ queue' = Tail(queue)
  /\ missed' = IF Head(queue).do = "register" THEN missed \cup {Head(queue).tx} ELSE missed
  /\ events' = events + 1
  /\ UNCHANGED <<born, syncVars, bookVars, gap>>

-----------------------------------------------------------------------------
Step(p) ==
  \/ Begin(p)
  \/ \E t \in Tx : Submit(p, t)
  \/ MarkSeen(p)
  \/ MoveCursor(p)

Next ==
  \/ \E t \in Tx : Create(t)
  \/ \E p \in Passes : Step(p) \/ Abort(p) \/ (\E t \in Tx : SubmitFails(p, t))
  \/ Restart
  \/ \E t \in Tx : Remove(t) \/ SetActive(t) \/ (\E p \in Patches : Correct(t, p))
  \/ Apply
  \/ Lose

Spec == Init /\ [][Next]_vars

\* The poll loop runs for ever and its exceptions are caught; domain-worker
\* consumes its queue.  Nothing is assumed of webhooks.
FairSpec == Spec /\ WF_vars(Step("poll")) /\ WF_vars(Apply)

-----------------------------------------------------------------------------
Commands ==
  [do : {"register"}, tx : Tx, historical : BOOLEAN]
    \cup [do : {"update"}, tx : Tx, patch : Patches]
    \cup [do : {"remove"}, tx : Tx]
    \cup [do : {"setActive"}, tx : Tx, active : BOOLEAN]

\* The shape of the state: a window is only held open by a pass that runs,
\* and nothing is fresh before there is a cursor to compare it with.
TypeOK ==
  /\ Old \subseteq born /\ born \subseteq Tx
  /\ seen \in BOOLEAN /\ cursored \in BOOLEAN /\ gap \in BOOLEAN
  /\ fresh \subseteq born \ Old
  /\ ~cursored => fresh = {}
  /\ cursored => seen
  /\ \A p \in Passes :
       /\ pass[p].step \in {"idle", "submitting", "marked"}
       /\ pass[p].todo \subseteq pass[p].batch /\ pass[p].batch \subseteq born
       /\ pass[p].step # "submitting" => pass[p].todo = {}
       /\ pass[p].step = "idle" => pass[p] = Idle
       /\ pass[p].step = "marked" => seen
  /\ \A i \in DOMAIN queue : queue[i] \in Commands
  /\ \A t \in Tx : ledger[t] = NoRow \/ t \in imported
  /\ imported \subseteq born /\ announced \subseteq imported /\ missed \subseteq born

\* Connecting an account is silent: nothing the bank already had is announced
\* to the user, whatever the two threads and the restarts do (the comment on
\* _seen_accounts) ...
HistoryIsSilent == Old \cap announced = {}

\* ... except when a pass begins after another has marked the account as seen
\* and before it has set the cursor: that pass is not a first one and has no
\* cursor, so it reads the whole backfill as news.
OnlyTheGapTells == gap \/ HistoryIsSilent

\* Whatever the bank imports again, and in whichever order corrections,
\* removals and imports are applied, a row has the type and the size of the
\* owner's last correction, and the sign its type asks for.
CorrectionsStand ==
  \A t \in Tx : ledger[t] # NoRow =>
    /\ ledger[t].type = wanted[t].type
    /\ ledger[t].amount = Signed(wanted[t].type, wanted[t].size)

\* What the bank has reaches the ledger, unless the reading of it failed or a
\* pass was under way when it was created: those two wait for a restart.
ImportedOrMissed ==
  \A t \in Tx : t \in born ~> t \in imported \cup missed
=============================================================================
