---------------------------- MODULE CommandPipeline ----------------------------
(***************************************************************************)
(* The write path of the finance system: domain-api publishes a command,   *)
(* the broker queues it, domain-worker (the only writer) applies it, keeps *)
(* its events in the outbox, publishes them and records the audit row that *)
(* POST /sync polls for.  Two goroutines of the worker publish events: the *)
(* processing loop, right after it enqueued them, and the relay, from the  *)
(* rows that are still pending.                                            *)
(*                                                                         *)
(* Every step that talks to Postgres or RabbitMQ is an action of its own,  *)
(* so a crash, an outage or another goroutine can come between any two.    *)
(* What a command does to the finance tables is abstracted to how many     *)
(* events its handler returns.                                             *)
(***************************************************************************)
EXTENDS Naturals, FiniteSets

CONSTANTS
  Commands,       \* command ids: each one is a fresh uuid of domain-api
  SyncCommands,   \* the ones that came through POST /sync
  MaxEvents,      \* most events one handler returns
  BatchLimit,     \* rows the relay reads at a time (100 in the code)
  MaxOutages,     \* bound: broker restarts
  MaxCrashes,     \* bound: worker crashes or redeploys
  MaxDbFaults     \* bound: database calls of the worker that return an error

ASSUME PipelineAssumption ==
  /\ SyncCommands \subseteq Commands
  /\ MaxEvents \in Nat \ {0}
  /\ BatchLimit \in Nat \ {0}
  /\ MaxOutages \in Nat /\ MaxCrashes \in Nat /\ MaxDbFaults \in Nat

\* An event is named by its command and its index: the outbox id is a hash
\* of the command id, the event name and the index, stable across retries.
Events == Commands \X (1..MaxEvents)

\* No event, in the slot of the relay.
None == <<>>

VARIABLES
  (* domain-api *)
  api,        \* api[c]: where the HTTP handler of c is, or what it answered
  apiConn,    \* domain-api's connection: "live", or "stale" since an outage
  (* RabbitMQ *)
  up,         \* the broker answers
  cmdWire,    \* commands written to domain-api's socket, not yet in the queue
  cmdQueue,   \* domain.commands.queue (durable)
  wire,       \* events written to the worker's socket, not yet in the exchange
  delivered,  \* events the domain.events exchange took
  (* domain-worker, in memory *)
  conn,       \* its connection: "none" before start-up, "live" or "stale"
  consuming,  \* the command consumer is registered
  inbox,      \* commands handed to the consumer (autoAck) and not yet taken
  work,       \* the processing loop: program counter, command, events, success
  batch,      \* rows the relay read and has still to publish
  mark,       \* the event the relay published and has still to mark, or None
  (* Postgres *)
  applied,    \* applied[c]: how many times the write of c was committed
  outbox,     \* outbox[e]: "absent", "pending" or "published"
  createdAt,  \* createdAt[e]: the row's place in created_at order
  rows,       \* how many rows the outbox has
  audit,      \* audit_log as <<command, success>>
  (* history, read by properties only *)
  emitted,    \* emitted[c]: events the handler of c returned
  sent,       \* events some publish reported as sent
  (* budgets *)
  faults      \* outages, crashes and database errors so far

apiVars    == <<api, apiConn>>
brokerVars == <<up, cmdWire, cmdQueue, wire, delivered>>
procVars   == <<conn, consuming, inbox, work, batch, mark>>
dbVars     == <<applied, outbox, createdAt, rows, audit>>
histVars   == <<emitted, sent>>
vars == <<apiVars, brokerVars, procVars, dbVars, histVars, faults>>

Answers == {"accepted", "written", "failed", "queued", "error", "gone"}

Steps == {"next", "handle", "enqueue", "publish", "mark", "audit"}

\* The processing loop: where it is, the command in hand, how many events its
\* handler returned, the one it is at, and whether the audit entry says success.
Work == [pc: Steps, cmd: Commands, n: 0..MaxEvents, i: 1..MaxEvents, ok: BOOLEAN]

\* The loop at a step of command c, at the first of its n events.
At(step, c, n) == [pc |-> step, cmd |-> c, n |-> n, i |-> 1, ok |-> FALSE]

Idle(c) == At("next", c, 0)

Faults == [outages: 0..MaxOutages, crashes: 0..MaxCrashes, db: 0..MaxDbFaults]

\* The event the processing loop is at.
Current == <<work.cmd, work.i>>

\* The sets every variable stays in.
TypeOK ==
  /\ api \in [Commands -> {"new", "retry", "polling"} \cup Answers]
  /\ apiConn \in {"live", "stale"} /\ conn \in {"none", "live", "stale"}
  /\ up \in BOOLEAN /\ consuming \in BOOLEAN
  /\ cmdWire \subseteq Commands /\ cmdQueue \subseteq Commands
  /\ inbox \subseteq Commands
  /\ wire \subseteq Events /\ delivered \subseteq Events
  /\ work \in Work
  /\ work.pc \in {"enqueue", "publish", "mark"} => work.i <= work.n
  /\ batch \subseteq Events /\ mark \in Events \cup {None}
  /\ applied \in [Commands -> Nat]
  /\ outbox \in [Events -> {"absent", "pending", "published"}]
  /\ createdAt \in [Events -> Nat] /\ rows \in Nat
  /\ audit \subseteq Commands \X BOOLEAN
  /\ emitted \in [Commands -> 0..MaxEvents] /\ sent \subseteq Events
  /\ faults \in Faults

Init ==
  /\ api = [c \in Commands |-> "new"] /\ apiConn = "live"
  /\ up = TRUE /\ cmdWire = {} /\ cmdQueue = {} /\ wire = {} /\ delivered = {}
  /\ conn = "none" /\ consuming = FALSE /\ inbox = {}
  /\ \E c \in Commands : work = Idle(c)
  /\ batch = {} /\ mark = None
  /\ applied = [c \in Commands |-> 0]
  /\ outbox = [e \in Events |-> "absent"] /\ createdAt = [e \in Events |-> 0] /\ rows = 0
  /\ audit = {}
  /\ emitted = [c \in Commands |-> 0] /\ sent = {}
  /\ faults = [outages |-> 0, crashes |-> 0, db |-> 0]

-----------------------------------------------------------------------------
(* domain-api: POST /commands and POST /sync.                              *)

\* What the handler does once the publish returned nil: /sync polls the
\* audit log, /commands answers 202.
AfterPublish(c) == IF c \in SyncCommands THEN "polling" ELSE "accepted"

\* The publish on the channel the handler holds.  On a connection that died
\* unnoticed the bytes go nowhere and the client still returns nil: there
\* are no publisher confirms.
ApiPublish(c) ==
  /\ api[c] = "new"
  /\ \/ /\ apiConn = "live"
        /\ cmdWire' = cmdWire \cup {c}
        /\ api' = [api EXCEPT ![c] = AfterPublish(c)]
     \/ /\ apiConn = "stale"
        /\ api' = [api EXCEPT ![c] = AfterPublish(c)]
        /\ UNCHANGED cmdWire
     \/ /\ apiConn = "stale"
        /\ api' = [api EXCEPT ![c] = "retry"]
        /\ UNCHANGED cmdWire
  /\ UNCHANGED <<apiConn, up, cmdQueue, wire, delivered, procVars, dbVars, histVars, faults>>

\* After a publish error: redial, rebuild the channel and publish once more;
\* if the redial fails the handler answers 500.
ApiRetry(c) ==
  /\ api[c] = "retry"
  /\ \/ /\ up
        /\ apiConn' = "live"
        /\ cmdWire' = cmdWire \cup {c}
        /\ api' = [api EXCEPT ![c] = AfterPublish(c)]
     \/ /\ ~up
        /\ api' = [api EXCEPT ![c] = "error"]
        /\ UNCHANGED <<apiConn, cmdWire>>
  /\ UNCHANGED <<up, cmdQueue, wire, delivered, procVars, dbVars, histVars, faults>>

\* POST /sync finds the audit row of its command.
SyncFound(c) ==
  /\ api[c] = "polling"
  /\ \E success \in BOOLEAN :
       /\ <<c, success>> \in audit
       /\ api' = [api EXCEPT ![c] = IF success THEN "written" ELSE "failed"]
  /\ UNCHANGED <<apiConn, brokerVars, procVars, dbVars, histVars, faults>>

\* The poll did not find the row (or could not read) and the deadline has
\* passed: 504 "queued".  The row may land right after the read.
SyncTimeout(c) ==
  /\ api[c] = "polling"
  /\ api' = [api EXCEPT ![c] = "queued"]
  /\ UNCHANGED <<apiConn, brokerVars, procVars, dbVars, histVars, faults>>

\* The client hangs up, or domain-api restarts, while the handler waits.
ApiGone(c) ==
  /\ api[c] \in {"retry", "polling"}
  /\ api' = [api EXCEPT ![c] = "gone"]
  /\ UNCHANGED <<apiConn, brokerVars, procVars, dbVars, histVars, faults>>

-----------------------------------------------------------------------------
(* RabbitMQ.                                                               *)

\* The broker reads a command off the socket into the durable queue.
BrokerTakesCommand(c) ==
  /\ up /\ c \in cmdWire
  /\ cmdWire' = cmdWire \ {c}
  /\ cmdQueue' = cmdQueue \cup {c}
  /\ UNCHANGED <<apiVars, up, wire, delivered, procVars, dbVars, histVars, faults>>

\* The broker reads an event off the socket into the fanout exchange.
BrokerTakesEvent(e) ==
  /\ up /\ e \in wire
  /\ wire' = wire \ {e}
  /\ delivered' = delivered \cup {e}
  /\ UNCHANGED <<apiVars, up, cmdWire, cmdQueue, procVars, dbVars, histVars, faults>>

\* The broker hands a command to the consumer; with autoAck it leaves the
\* queue at that moment.  There is no prefetch limit.
DeliverCommand(c) ==
  /\ up /\ consuming /\ c \in cmdQueue
  /\ cmdQueue' = cmdQueue \ {c}
  /\ inbox' = inbox \cup {c}
  /\ UNCHANGED <<apiVars, up, cmdWire, wire, delivered, conn, consuming, work, batch, mark,
                 dbVars, histVars, faults>>

\* The broker goes away.  What was on the sockets is lost, both ends are
\* left with a dead connection, and the client library drops some of the
\* deliveries it had buffered.
BrokerDown ==
  /\ up /\ faults.outages < MaxOutages
  /\ up' = FALSE
  /\ faults' = [faults EXCEPT !.outages = @ + 1]
  /\ apiConn' = "stale"
  /\ conn' = IF conn = "none" THEN "none" ELSE "stale"
  /\ cmdWire' = {} /\ wire' = {}
  /\ consuming' = FALSE
  /\ \E kept \in SUBSET inbox : inbox' = kept
  /\ UNCHANGED <<api, cmdQueue, delivered, work, batch, mark, dbVars, histVars>>

BrokerUp ==
  /\ ~up
  /\ up' = TRUE
  /\ UNCHANGED <<apiVars, cmdWire, cmdQueue, wire, delivered, procVars, dbVars, histVars, faults>>

-----------------------------------------------------------------------------
(* domain-worker: start-up and crash.                                      *)

\* main dials, opens the event bus and registers the command consumer.
WorkerStart ==
  /\ conn = "none" /\ up
  /\ conn' = "live" /\ consuming' = TRUE
  /\ UNCHANGED <<apiVars, brokerVars, inbox, work, batch, mark, dbVars, histVars, faults>>

\* The process dies, or a redeploy cancels its context: main returns without
\* waiting for the command in hand.  Its memory is lost; what it had written
\* to the socket may or may not reach the broker.
WorkerCrash ==
  /\ conn # "none" /\ faults.crashes < MaxCrashes
  /\ faults' = [faults EXCEPT !.crashes = @ + 1]
  /\ conn' = "none" /\ consuming' = FALSE
  /\ inbox' = {} /\ work' = Idle(work.cmd) /\ batch' = {} /\ mark' = None
  /\ \E flushed \in SUBSET wire : wire' = flushed
  /\ UNCHANGED <<apiVars, up, cmdWire, cmdQueue, delivered, dbVars, histVars>>

\* Next found the delivery channel closed: redial and consume again.
Resubscribe ==
  /\ conn # "none" /\ up /\ ~consuming /\ inbox = {} /\ work.pc = "next"
  /\ conn' = "live" /\ consuming' = TRUE
  /\ UNCHANGED <<apiVars, brokerVars, inbox, work, batch, mark, dbVars, histVars, faults>>

-----------------------------------------------------------------------------
(* domain-worker: the processing loop, one command at a time.              *)

TakeCommand(c) ==
  /\ conn # "none" /\ work.pc = "next" /\ c \in inbox
  /\ inbox' = inbox \ {c}
  /\ work' = At("handle", c, 0)
  /\ UNCHANGED <<apiVars, brokerVars, conn, consuming, batch, mark, dbVars, histVars, faults>>

\* Fault variant: the events are published before they are kept.
HandleApplies_PublishesFirst ==
  /\ work.pc = "handle"
  /\ applied' = [applied EXCEPT ![work.cmd] = @ + 1]
  /\ \E n \in 0..MaxEvents :
       /\ emitted' = [emitted EXCEPT ![work.cmd] = n]
       /\ work' = IF n = 0 THEN [work EXCEPT !.pc = "audit", !.ok = TRUE]
                           ELSE At("publish", work.cmd, n)
  /\ UNCHANGED <<apiVars, brokerVars, conn, consuming, inbox, batch, mark,
                 outbox, createdAt, rows, audit, sent, faults>>

\* The handler commits the write and returns its events; a command that
\* changes nothing returns none.
HandleApplies ==
  /\ work.pc = "handle"
  /\ applied' = [applied EXCEPT ![work.cmd] = @ + 1]
  /\ \E n \in 0..MaxEvents :
       /\ emitted' = [emitted EXCEPT ![work.cmd] = n]
       /\ work' = IF n = 0 THEN [work EXCEPT !.pc = "audit", !.ok = TRUE]
                           ELSE At("enqueue", work.cmd, n)
  /\ UNCHANGED <<apiVars, brokerVars, conn, consuming, inbox, batch, mark,
                 outbox, createdAt, rows, audit, sent, faults>>

\* The handler refuses: validation, unknown action, a record not found.
HandleRejects ==
  /\ work.pc = "handle"
  /\ work' = [work EXCEPT !.pc = "audit", !.ok = FALSE]
  /\ UNCHANGED <<apiVars, brokerVars, conn, consuming, inbox, batch, mark, dbVars, histVars, faults>>

\* A database call may fail before it takes effect, or take effect and lose
\* its reply; either way the worker sees an error.
DbFault ==
  /\ faults.db < MaxDbFaults
  /\ faults' = [faults EXCEPT !.db = @ + 1]

\* The handler's write returns an error.
HandleFails ==
  /\ work.pc = "handle" /\ DbFault
  /\ \E committed \in BOOLEAN :
       applied' = [applied EXCEPT ![work.cmd] = IF committed THEN @ + 1 ELSE @]
  /\ work' = [work EXCEPT !.pc = "audit", !.ok = FALSE]
  /\ UNCHANGED <<apiVars, brokerVars, conn, consuming, inbox, batch, mark,
                 outbox, createdAt, rows, audit, histVars>>

\* INSERT ... ON CONFLICT (id) DO NOTHING.
InsertRow(e) ==
  IF outbox[e] = "absent"
  THEN /\ outbox' = [outbox EXCEPT ![e] = "pending"]
       /\ createdAt' = [createdAt EXCEPT ![e] = rows + 1]
       /\ rows' = rows + 1
  ELSE UNCHANGED <<outbox, createdAt, rows>>

\* Enqueue keeps one row per event, in order, each in its own statement.
EnqueueRow ==
  /\ work.pc = "enqueue"
  /\ InsertRow(Current)
  /\ work' = IF work.i < work.n THEN [work EXCEPT !.i = @ + 1]
                                ELSE [work EXCEPT !.pc = "publish", !.i = 1]
  /\ UNCHANGED <<apiVars, brokerVars, conn, consuming, inbox, batch, mark,
                 applied, audit, histVars, faults>>

\* Fault variant: the enqueue error does not reach the audit entry.
EnqueueFails_KeepsSuccess ==
  /\ work.pc = "enqueue" /\ DbFault
  /\ InsertRow(Current) \/ UNCHANGED <<outbox, createdAt, rows>>
  /\ work' = [work EXCEPT !.pc = "audit", !.ok = TRUE]
  /\ UNCHANGED <<apiVars, brokerVars, conn, consuming, inbox, batch, mark,
                 applied, audit, histVars>>

\* An insert fails: Publish returns the error, the rest of the events are
\* never kept, and the audit entry turns into a failure.
EnqueueFails ==
  /\ work.pc = "enqueue" /\ DbFault
  /\ InsertRow(Current) \/ UNCHANGED <<outbox, createdAt, rows>>
  /\ work' = [work EXCEPT !.pc = "audit", !.ok = FALSE]
  /\ UNCHANGED <<apiVars, brokerVars, conn, consuming, inbox, batch, mark,
                 applied, audit, histVars>>

\* PublishRaw returned nil: on a live connection the event is on its way, on
\* a dead one that nobody noticed it is lost; an error noticed in time makes
\* it redial and publish again.
PublishRawOk(e) ==
  /\ sent' = sent \cup {e}
  /\ \/ conn = "live" /\ wire' = wire \cup {e} /\ UNCHANGED conn
     \/ conn = "stale" /\ UNCHANGED <<wire, conn>>
     \/ conn = "stale" /\ up /\ wire' = wire \cup {e} /\ conn' = "live"

\* PublishRaw returned an error: the connection is dead and so is the redial.
PublishRawFails == conn = "stale" /\ ~up

\* The rest of Publish: on to the next event, or to the audit entry.
Advance(w) ==
  IF w.i < w.n THEN [w EXCEPT !.pc = "publish", !.i = @ + 1]
               ELSE [w EXCEPT !.pc = "audit", !.ok = TRUE]

PublishNow ==
  /\ work.pc = "publish"
  /\ PublishRawOk(Current)
  /\ work' = [work EXCEPT !.pc = "mark"]
  /\ UNCHANGED <<apiVars, up, cmdWire, cmdQueue, delivered, consuming, inbox, batch, mark,
                 dbVars, emitted, faults>>

\* The row stays pending (MarkFailed only counts attempts) and the loop goes
\* on with the next event.
PublishNowFails ==
  /\ work.pc = "publish"
  /\ PublishRawFails
  /\ work' = Advance(work)
  /\ UNCHANGED <<apiVars, brokerVars, conn, consuming, inbox, batch, mark, dbVars, histVars, faults>>

\* UPDATE ... SET published_at: touches nothing if the row is not there.
SetPublished(e) ==
  outbox' = [outbox EXCEPT ![e] = IF @ = "absent" THEN @ ELSE "published"]

MarkNow ==
  /\ work.pc = "mark"
  /\ SetPublished(Current)
  /\ work' = Advance(work)
  /\ UNCHANGED <<apiVars, brokerVars, conn, consuming, inbox, batch, mark,
                 applied, createdAt, rows, audit, histVars, faults>>

\* The error of MarkPublished is only logged.
MarkNowFails ==
  /\ work.pc = "mark" /\ DbFault
  /\ SetPublished(Current) \/ UNCHANGED outbox
  /\ work' = Advance(work)
  /\ UNCHANGED <<apiVars, brokerVars, conn, consuming, inbox, batch, mark,
                 applied, createdAt, rows, audit, histVars>>

RecordAudit ==
  /\ work.pc = "audit"
  /\ audit' = audit \cup {<<work.cmd, work.ok>>}
  /\ work' = Idle(work.cmd)
  /\ UNCHANGED <<apiVars, brokerVars, conn, consuming, inbox, batch, mark,
                 applied, outbox, createdAt, rows, histVars, faults>>

\* The error of the audit write is only logged.
RecordAuditFails ==
  /\ work.pc = "audit" /\ DbFault
  /\ \E inserted \in BOOLEAN :
       audit' = IF inserted THEN audit \cup {<<work.cmd, work.ok>>} ELSE audit
  /\ work' = Idle(work.cmd)
  /\ UNCHANGED <<apiVars, brokerVars, conn, consuming, inbox, batch, mark,
                 applied, outbox, createdAt, rows, histVars>>

-----------------------------------------------------------------------------
(* domain-worker: the relay goroutine.                                     *)

\* Fault variant: the limit is exclusive.
OldestPending_OffByOne ==
  LET pending == {e \in Events : outbox[e] = "pending"}
  IN  {e \in pending :
         Cardinality({f \in pending : createdAt[f] < createdAt[e]}) + 1 < BatchLimit}

\* SELECT ... WHERE published_at IS NULL ORDER BY created_at LIMIT n.
OldestPending ==
  LET pending == {e \in Events : outbox[e] = "pending"}
  IN  {e \in pending :
         Cardinality({f \in pending : createdAt[f] < createdAt[e]}) < BatchLimit}

\* A tick reads the pending rows, among them the ones the processing loop is
\* publishing at this moment.
RelayReads ==
  /\ conn # "none" /\ batch = {} /\ mark = None
  /\ OldestPending # {}
  /\ batch' = OldestPending
  /\ UNCHANGED <<apiVars, brokerVars, conn, consuming, inbox, work, mark, dbVars, histVars, faults>>

RelayPublishes(e) ==
  /\ conn # "none" /\ mark = None /\ e \in batch
  /\ PublishRawOk(e)
  /\ batch' = batch \ {e} /\ mark' = e
  /\ UNCHANGED <<apiVars, up, cmdWire, cmdQueue, delivered, consuming, inbox, work,
                 dbVars, emitted, faults>>

\* Fault variant: the row is marked whatever the publish returned.
RelayFails_MarksAnyway(e) ==
  /\ conn # "none" /\ mark = None /\ e \in batch
  /\ PublishRawFails
  /\ batch' = batch \ {e} /\ mark' = e
  /\ UNCHANGED <<apiVars, brokerVars, conn, consuming, inbox, work, dbVars, histVars, faults>>

RelayFails(e) ==
  /\ conn # "none" /\ mark = None /\ e \in batch
  /\ PublishRawFails
  /\ batch' = batch \ {e}
  /\ UNCHANGED <<apiVars, brokerVars, conn, consuming, inbox, work, mark, dbVars, histVars, faults>>

RelayMarks ==
  /\ mark # None
  /\ SetPublished(mark)
  /\ mark' = None
  /\ UNCHANGED <<apiVars, brokerVars, conn, consuming, inbox, work, batch,
                 applied, createdAt, rows, audit, histVars, faults>>

RelayMarkFails ==
  /\ mark # None /\ DbFault
  /\ SetPublished(mark) \/ UNCHANGED outbox
  /\ mark' = None
  /\ UNCHANGED <<apiVars, brokerVars, conn, consuming, inbox, work, batch,
                 applied, createdAt, rows, audit, histVars>>

-----------------------------------------------------------------------------
Api(c) ==
  \/ ApiPublish(c) \/ ApiRetry(c)
  \/ SyncFound(c) \/ SyncTimeout(c) \/ ApiGone(c)

Broker ==
  \/ \E c \in Commands : BrokerTakesCommand(c) \/ DeliverCommand(c)
  \/ \E e \in Events : BrokerTakesEvent(e)
  \/ BrokerDown \/ BrokerUp

Process ==
  \/ \E c \in Commands : TakeCommand(c)
  \/ HandleApplies \/ HandleRejects \/ HandleFails
  \/ EnqueueRow \/ EnqueueFails
  \/ PublishNow \/ PublishNowFails \/ MarkNow \/ MarkNowFails
  \/ RecordAudit \/ RecordAuditFails

Relay ==
  \/ RelayReads
  \/ \E e \in Events : RelayPublishes(e) \/ RelayFails(e)
  \/ RelayMarks \/ RelayMarkFails

Next ==
  \/ \E c \in Commands : Api(c)
  \/ Broker
  \/ WorkerStart \/ WorkerCrash \/ Resubscribe
  \/ Process
  \/ Relay

Spec == Init /\ [][Next]_vars

\* The goroutines keep running, a dead worker or broker is restarted by its
\* supervisor, sockets drain while the broker is up, and a handler's deadline
\* passes.  Faults, outages and hang-ups are never required to happen.
Fairness ==
  /\ \A c \in Commands : WF_vars(ApiPublish(c)) /\ WF_vars(ApiRetry(c)) /\ WF_vars(SyncTimeout(c))
  /\ WF_vars(BrokerUp)
  /\ \A c \in Commands : WF_vars(BrokerTakesCommand(c)) /\ WF_vars(DeliverCommand(c))
  /\ \A e \in Events : WF_vars(BrokerTakesEvent(e))
  /\ WF_vars(WorkerStart) /\ WF_vars(Resubscribe)
  /\ WF_vars(Process)
  /\ WF_vars(Relay)

FairSpec == Spec /\ Fairness

-----------------------------------------------------------------------------
(* Safety.                                                                 *)

\* The handler of c returned n events: every one of them is in the outbox.
AllRecorded(c) == \A i \in 1..emitted[c] : outbox[<<c, i>>] # "absent"

\* A command takes effect at most once, although publishers retry, events
\* are sent again and processes restart: autoAck and the single retry of the
\* publisher together never deliver one command twice.
AppliedAtMostOnce == \A c \in Commands : applied[c] <= 1

\* No consumer ever sees an event that is not in the outbox, nor one whose
\* command was not applied: durable before visible (spec section 4.3).
DurableBeforeVisible ==
  \A e \in Events :
    /\ e \in wire \cup delivered => outbox[e] # "absent"
    /\ outbox[e] # "absent" => applied[e[1]] = 1 /\ e[2] <= emitted[e[1]]

\* The answer "written" is a confirmation: the write is committed and every
\* event of it is kept, whatever crashed in the meantime.
WrittenIsComplete ==
  \A c \in Commands : api[c] = "written" => applied[c] = 1 /\ AllRecorded(c)

\* The answer 500 means nothing was accepted: the command is not in any
\* queue and never takes effect.
ErrorNeverLands ==
  \A c \in Commands : api[c] = "error" =>
    applied[c] = 0 /\ c \notin cmdWire \cup cmdQueue \cup inbox

\* A row leaves the pending set only after some publish of it was reported
\* as sent, whichever goroutine marks it.
PublishedWasSent == \A e \in Events : outbox[e] = "published" => e \in sent

(* The promise this pipeline keeps, with everything in transit hidden.     *)

Delivery == INSTANCE ReliableDelivery WITH
  kept      <- {e \in Events : outbox[e] # "absent"},
  visible   <- delivered,
  confirmed <- {c \in Commands : api[c] = "written"},
  refused   <- {c \in Commands : api[c] = "error"}

\* Every behaviour of the pipeline, faults included, is one of
\* ReliableDelivery: a confirmation, a refusal, an effect or a delivery never
\* comes at a moment when the promise does not allow it.
ImplementsDelivery == Delivery!Spec

(* Liveness.                                                               *)

\* Every event in the outbox is eventually published: outages, crashes and
\* failed marks only delay it, and a full batch never starves a later row.
OutboxDrains == \A e \in Events : outbox[e] = "pending" ~> outbox[e] = "published"

\* A request to POST /sync never stays open for ever, even if its command
\* was lost.
SyncAnswers == \A c \in Commands : api[c] = "polling" ~> api[c] # "polling"

(* What the code's comments and docs say and the code does not do.         *)

\* "The worker writes one audit row per command unconditionally".
AlwaysAudited ==
  \A c \in Commands :
    (work.pc = "handle" /\ work.cmd = c) ~> (\E ok \in BOOLEAN : <<c, ok>> \in audit)

\* "422: the worker rejected it; retrying unchanged will fail the same way".
FailedWasRejected == \A c \in Commands : api[c] = "failed" => applied[c] = 0

\* "504: the command stays queued": it is still on its way, or has an outcome.
QueuedIsUnderway ==
  \A c \in Commands : api[c] = "queued" =>
    \/ c \in cmdWire \cup cmdQueue \cup inbox
    \/ work.pc # "next" /\ work.cmd = c
    \/ \E ok \in BOOLEAN : <<c, ok>> \in audit

\* "A background loop retries the pending rows until they land": a row that
\* is no longer retried has reached the exchange, or is about to.
PublishedHasLanded ==
  \A e \in Events : outbox[e] = "published" => e \in wire \cup delivered
=============================================================================
