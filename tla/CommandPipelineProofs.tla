------------------------- MODULE CommandPipelineProofs -------------------------
(***************************************************************************)
(* The safety of CommandPipeline for any set of commands, any number of    *)
(* events, outages, crashes and database errors, and that it implements    *)
(* ReliableDelivery.                                                       *)
(*                                                                         *)
(* The argument: a command is a token.  As long as it may still be applied *)
(* it is in exactly one place (a socket, the queue, the consumer's buffer  *)
(* or the handler's hands), it has not been applied, and its HTTP handler  *)
(* is past the publish.  Taking effect spends the token, and what follows  *)
(* (rows, sends, marks, audit, answer) happens in that order.              *)
(***************************************************************************)
EXTENDS CommandPipeline, TLAPS

\* c has been accepted and may still take effect.
Handling(c) == work.pc = "handle" /\ work.cmd = c
Pending(c) == c \in cmdWire \cup cmdQueue \cup inbox \/ Handling(c)

Recorded(e) == outbox[e] # "absent"
Complete(c) == applied[c] = 1 /\ AllRecorded(c)

\* A command is in one place at a time, not yet applied while it is, and
\* nowhere before its publish succeeds or after it failed.
TokenInv ==
  /\ cmdWire \cap cmdQueue = {} /\ cmdWire \cap inbox = {} /\ cmdQueue \cap inbox = {}
  /\ \A c \in Commands : Handling(c) => c \notin cmdWire \cup cmdQueue \cup inbox
  /\ \A c \in Commands : Pending(c) => applied[c] = 0
  /\ \A c \in Commands : api[c] \in {"new", "retry", "error"} => ~Pending(c) /\ applied[c] = 0
  /\ \A c \in Commands : applied[c] <= 1

\* Rows belong to applied commands, and only kept events travel.
RowsInv ==
  /\ \A e \in Events : Recorded(e) => applied[e[1]] = 1 /\ e[2] <= emitted[e[1]]
  /\ \A e \in wire \cup delivered \cup batch : Recorded(e)
  /\ mark # None => Recorded(mark)

\* How far the processing loop has got with its command.
WorkInv ==
  /\ work.pc \in {"enqueue", "publish", "mark"} =>
       applied[work.cmd] = 1 /\ work.n = emitted[work.cmd]
  /\ work.pc = "enqueue" => \A j \in 1..(work.i - 1) : Recorded(<<work.cmd, j>>)
  /\ work.pc \in {"publish", "mark"} => AllRecorded(work.cmd)
  /\ work.pc = "audit" /\ work.ok => Complete(work.cmd)

\* A positive audit row, and the answer read from it, tell the truth.
AuditInv ==
  /\ \A c \in Commands : <<c, TRUE>> \in audit => Complete(c)
  /\ \A c \in Commands : api[c] = "written" => Complete(c)

\* Only what was sent is marked.
SentInv ==
  /\ \A e \in Events : outbox[e] = "published" => e \in sent
  /\ mark # None => mark \in sent
  /\ work.pc = "mark" => Current \in sent

\* The inductive invariant.
IInv == TypeOK /\ TokenInv /\ RowsInv /\ WorkInv /\ AuditInv /\ SentInv

-----------------------------------------------------------------------------
(* The two records.                                                        *)

\* What each way the processing loop moves does to its record.
LEMMA WorkAtStep ==
  ASSUME NEW c \in Commands, NEW p \in Steps, NEW k \in 0..MaxEvents
  PROVE  /\ At(p, c, k) \in Work
         /\ At(p, c, k).pc = p /\ At(p, c, k).cmd = c
         /\ At(p, c, k).n = k /\ At(p, c, k).i = 1
BY PipelineAssumption DEF Work, At

LEMMA WorkIdle ==
  ASSUME NEW c \in Commands
  PROVE  Idle(c) \in Work /\ Idle(c).pc = "next" /\ Idle(c).cmd = c
<1>1. "next" \in Steps /\ 0 \in 0..MaxEvents
  BY PipelineAssumption DEF Steps
<1>2. QED
  BY <1>1, WorkAtStep DEF Idle

LEMMA WorkAudit ==
  ASSUME NEW w \in Work, NEW b \in BOOLEAN
  PROVE  LET v == [w EXCEPT !.pc = "audit", !.ok = b]
         IN  v \in Work /\ v.pc = "audit" /\ v.ok = b /\ v.cmd = w.cmd
BY DEF Work, Steps

LEMMA WorkNextRow ==
  ASSUME NEW w \in Work, w.i < w.n
  PROVE  LET v == [w EXCEPT !.i = @ + 1]
         IN  v \in Work /\ v.pc = w.pc /\ v.i = w.i + 1 /\ v.n = w.n /\ v.cmd = w.cmd
BY PipelineAssumption DEF Work

LEMMA WorkMark ==
  ASSUME NEW w \in Work
  PROVE  LET v == [w EXCEPT !.pc = "mark"]
         IN  v \in Work /\ v.pc = "mark" /\ v.i = w.i /\ v.n = w.n /\ v.cmd = w.cmd
BY DEF Work, Steps

LEMMA WorkAdvance ==
  ASSUME NEW w \in Work, w.i <= w.n
  PROVE  /\ Advance(w) \in Work /\ Advance(w).cmd = w.cmd /\ Advance(w).n = w.n
         /\ \/ Advance(w).pc = "audit"
            \/ Advance(w).pc = "publish" /\ Advance(w).i <= w.n
<1>1. CASE w.i < w.n
  <2>1. w.i + 1 \in 1..MaxEvents /\ w.i + 1 <= w.n
    BY <1>1, PipelineAssumption DEF Work
  <2>2. Advance(w) = [w EXCEPT !.pc = "publish", !.i = w.i + 1]
    BY <1>1 DEF Advance, Work
  <2>3. QED
    BY <2>1, <2>2 DEF Work, Steps
<1>2. CASE ~(w.i < w.n)
  <2>1. Advance(w) = [w EXCEPT !.pc = "audit", !.ok = TRUE]
    BY <1>2 DEF Advance
  <2>2. QED
    BY <2>1 DEF Work, Steps
<1>3. QED
  BY <1>1, <1>2

\* The budgets only grow up to their bounds.
LEMMA FaultsGrow ==
  ASSUME faults \in Faults,
         \/ DbFault
         \/ /\ faults.outages < MaxOutages
            /\ faults' = [faults EXCEPT !.outages = @ + 1]
         \/ /\ faults.crashes < MaxCrashes
            /\ faults' = [faults EXCEPT !.crashes = @ + 1]
  PROVE  faults' \in Faults
BY PipelineAssumption DEF Faults, DbFault

-----------------------------------------------------------------------------
(* Types.                                                                  *)

LEMMA TypeInit == Init => TypeOK
<1> SUFFICES ASSUME Init PROVE TypeOK
  OBVIOUS
<1>1. work \in Work /\ work.pc = "next"
  BY WorkIdle DEF Init
<1>2. faults \in Faults
  BY PipelineAssumption DEF Init, Faults
<1>3. /\ applied \in [Commands -> Nat] /\ createdAt \in [Events -> Nat] /\ rows \in Nat
      /\ emitted \in [Commands -> 0..MaxEvents]
  BY PipelineAssumption DEF Init
<1>4. /\ api \in [Commands -> {"new", "retry", "polling"} \cup Answers]
      /\ outbox \in [Events -> {"absent", "pending", "published"}]
  BY DEF Init
<1>5. QED
  BY <1>1, <1>2, <1>3, <1>4 DEF Init, TypeOK

LEMMA TypeNext == TypeOK /\ [Next]_vars => TypeOK'
<1> USE DEF TypeOK, apiVars, brokerVars, procVars, dbVars, histVars
<1> SUFFICES ASSUME TypeOK, [Next]_vars
             PROVE  TypeOK'
  OBVIOUS
<1>1. CASE UNCHANGED vars
  BY <1>1 DEF vars
<1>2. ASSUME NEW c \in Commands, Api(c)
      PROVE  TypeOK'
  <2>1. CASE ApiPublish(c)
    BY <2>1 DEF ApiPublish, AfterPublish, Answers
  <2>2. CASE ApiRetry(c)
    BY <2>2 DEF ApiRetry, AfterPublish, Answers
  <2>3. CASE SyncFound(c)
    BY <2>3 DEF SyncFound, Answers
  <2>4. CASE SyncTimeout(c) \/ ApiGone(c)
    BY <2>4 DEF SyncTimeout, ApiGone, Answers
  <2>5. QED
    BY <1>2, <2>1, <2>2, <2>3, <2>4 DEF Api
<1>3. CASE Broker
  <2>1. CASE BrokerDown
    <3>1. faults' \in Faults
      BY <2>1, FaultsGrow DEF BrokerDown
    <3>2. QED
      BY <2>1, <3>1 DEF BrokerDown
  <2>2. CASE ~BrokerDown
    BY <1>3, <2>2 DEF Broker, BrokerTakesCommand, BrokerTakesEvent, DeliverCommand, BrokerUp
  <2>3. QED
    BY <2>1, <2>2
<1>4. CASE WorkerStart \/ WorkerCrash \/ Resubscribe
  <2>1. CASE WorkerCrash
    <3>1. faults' \in Faults
      BY <2>1, FaultsGrow DEF WorkerCrash
    <3>2. work.cmd \in Commands
      BY DEF Work
    <3>3. work' \in Work /\ work'.pc = "next"
      BY <2>1, <3>2, WorkIdle DEF WorkerCrash
    <3>4. QED
      BY <2>1, <3>1, <3>3 DEF WorkerCrash
  <2>2. CASE WorkerStart \/ Resubscribe
    BY <2>2 DEF WorkerStart, Resubscribe
  <2>3. QED
    BY <1>4, <2>1, <2>2
<1>5. CASE Process
  <2>0. work.cmd \in Commands /\ work.n \in 0..MaxEvents /\ work.i \in 1..MaxEvents /\ work.ok \in BOOLEAN
    BY DEF Work
  <2>1. ASSUME NEW c \in Commands, TakeCommand(c)
        PROVE  TypeOK'
    <3>1. work' \in Work /\ work'.pc = "handle"
      <4>1. "handle" \in Steps /\ 0 \in 0..MaxEvents
        BY PipelineAssumption DEF Steps
      <4>2. QED
        BY <2>1, <4>1, WorkAtStep DEF TakeCommand
    <3>2. QED
      BY <2>1, <3>1 DEF TakeCommand
  <2>2. CASE HandleApplies
    <3>1. PICK k \in 0..MaxEvents :
            /\ emitted' = [emitted EXCEPT ![work.cmd] = k]
            /\ work' = IF k = 0 THEN [work EXCEPT !.pc = "audit", !.ok = TRUE]
                                ELSE At("enqueue", work.cmd, k)
      BY <2>2 DEF HandleApplies
    <3>2. work' \in Work /\ (work'.pc \in {"enqueue", "publish", "mark"} => work'.i <= work'.n)
      <4>1. CASE k = 0
        BY <3>1, <4>1, WorkAudit
      <4>2. CASE k # 0
        <5>1. k \in 0..MaxEvents /\ 1 <= k /\ "enqueue" \in Steps
          BY <4>2 DEF Steps
        <5>2. QED
          BY <2>0, <3>1, <4>2, <5>1, WorkAtStep
      <4>3. QED
        BY <4>1, <4>2
    <3>3. QED
      BY <2>0, <2>2, <3>1, <3>2 DEF HandleApplies
  <2>3. CASE HandleRejects \/ HandleFails
    <3>1. work' \in Work /\ work'.pc = "audit"
      BY <2>3, WorkAudit DEF HandleRejects, HandleFails
    <3>2. faults' \in Faults
      BY <2>3, FaultsGrow DEF HandleRejects, HandleFails
    <3>3. QED
      BY <2>0, <2>3, <3>1, <3>2 DEF HandleRejects, HandleFails
  <2>4. CASE EnqueueRow \/ EnqueueFails
    <3>1. work' \in Work /\ (work'.pc \in {"enqueue", "publish", "mark"} => work'.i <= work'.n)
      <4>1. CASE EnqueueRow /\ work.i < work.n
        BY <2>0, <4>1, WorkNextRow DEF EnqueueRow
      <4>2. CASE EnqueueRow /\ ~(work.i < work.n)
        <5>1. work' = [work EXCEPT !.pc = "publish", !.i = 1] /\ work.i <= work.n
          BY <4>2 DEF EnqueueRow
        <5>2. 1 \in 1..MaxEvents /\ 1 <= work.n
          BY <2>0, <5>1, PipelineAssumption
        <5>3. QED
          BY <5>1, <5>2 DEF Work, Steps
      <4>3. CASE EnqueueFails
        BY <4>3, WorkAudit DEF EnqueueFails
      <4>4. QED
        BY <2>4, <4>1, <4>2, <4>3
    <3>2. faults' \in Faults
      BY <2>4, FaultsGrow DEF EnqueueRow, EnqueueFails
    <3>3. outbox' \in [Events -> {"absent", "pending", "published"}] /\ createdAt' \in [Events -> Nat]
          /\ rows' \in Nat
      BY <2>4 DEF EnqueueRow, EnqueueFails, InsertRow
    <3>4. QED
      BY <2>4, <3>1, <3>2, <3>3 DEF EnqueueRow, EnqueueFails
  <2>5. CASE PublishNow \/ PublishNowFails
    <3>1. work' \in Work /\ (work'.pc \in {"enqueue", "publish", "mark"} => work'.i <= work'.n)
      BY <2>0, <2>5, WorkMark, WorkAdvance DEF PublishNow, PublishNowFails
    <3>2. Current \in Events
      BY <2>0, <2>5 DEF PublishNow, PublishNowFails, Current, Events
    <3>3. QED
      BY <2>5, <3>1, <3>2 DEF PublishNow, PublishNowFails, PublishRawOk
  <2>6. CASE MarkNow \/ MarkNowFails
    <3>1. work' \in Work /\ (work'.pc \in {"enqueue", "publish", "mark"} => work'.i <= work'.n)
      BY <2>6, WorkAdvance DEF MarkNow, MarkNowFails
    <3>2. outbox' \in [Events -> {"absent", "pending", "published"}]
      BY <2>6 DEF MarkNow, MarkNowFails, SetPublished
    <3>3. faults' \in Faults
      BY <2>6, FaultsGrow DEF MarkNow, MarkNowFails
    <3>4. QED
      BY <2>6, <3>1, <3>2, <3>3 DEF MarkNow, MarkNowFails
  <2>7. CASE RecordAudit \/ RecordAuditFails
    <3>1. work' \in Work /\ work'.pc = "next"
      BY <2>0, <2>7, WorkIdle DEF RecordAudit, RecordAuditFails
    <3>2. faults' \in Faults
      BY <2>7, FaultsGrow DEF RecordAudit, RecordAuditFails
    <3>3. QED
      BY <2>0, <2>7, <3>1, <3>2 DEF RecordAudit, RecordAuditFails
  <2>8. QED
    BY <1>5, <2>1, <2>2, <2>3, <2>4, <2>5, <2>6, <2>7 DEF Process
<1>6. CASE Relay
  <2>1. CASE RelayReads
    BY <2>1 DEF RelayReads, OldestPending
  <2>2. ASSUME NEW e \in Events, RelayPublishes(e) \/ RelayFails(e)
        PROVE  TypeOK'
    BY <2>2 DEF RelayPublishes, RelayFails, PublishRawOk
  <2>3. CASE RelayMarks \/ RelayMarkFails
    <3>1. faults' \in Faults
      BY <2>3, FaultsGrow DEF RelayMarks, RelayMarkFails
    <3>2. outbox' \in [Events -> {"absent", "pending", "published"}]
      BY <2>3 DEF RelayMarks, RelayMarkFails, SetPublished
    <3>3. QED
      BY <2>3, <3>1, <3>2 DEF RelayMarks, RelayMarkFails
  <2>4. QED
    BY <1>6, <2>1, <2>2, <2>3 DEF Relay
<1>7. QED
  BY <1>1, <1>2, <1>3, <1>4, <1>5, <1>6 DEF Next

\* Every variable stays in its set, whatever fails.
THEOREM TypeCorrect == Spec => []TypeOK
BY TypeInit, TypeNext, PTL DEF Spec

-----------------------------------------------------------------------------
(* Nothing durable is undone.                                              *)

\* Only the worker's two goroutines write to the database.
LEMMA OthersDoNotWrite ==
  ASSUME [Next]_vars, ~Process, ~Relay
  PROVE  UNCHANGED <<dbVars, histVars>>
<1> USE DEF apiVars, brokerVars, procVars, dbVars, histVars
<1>1. CASE UNCHANGED vars
  BY <1>1 DEF vars
<1>2. CASE \E c \in Commands : Api(c)
  BY <1>2 DEF Api, ApiPublish, ApiRetry, SyncFound, SyncTimeout, ApiGone
<1>3. CASE Broker
  BY <1>3 DEF Broker, BrokerTakesCommand, BrokerTakesEvent, DeliverCommand, BrokerDown, BrokerUp
<1>4. CASE WorkerStart \/ WorkerCrash \/ Resubscribe
  BY <1>4 DEF WorkerStart, WorkerCrash, Resubscribe
<1>5. QED
  BY <1>1, <1>2, <1>3, <1>4 DEF Next

\* A row never disappears.
LEMMA RowsStay ==
  ASSUME TypeOK, [Next]_vars, NEW e \in Events, Recorded(e)
  PROVE  Recorded(e)'
<1> USE DEF Recorded, apiVars, brokerVars, procVars, dbVars, histVars
<1>0. outbox \in [Events -> {"absent", "pending", "published"}]
  BY DEF TypeOK
<1>1. CASE Process
  <2>1. CASE EnqueueRow \/ EnqueueFails
    BY <1>0, <2>1 DEF EnqueueRow, EnqueueFails, InsertRow
  <2>2. CASE MarkNow \/ MarkNowFails
    BY <1>0, <2>2 DEF MarkNow, MarkNowFails, SetPublished
  <2>3. CASE ~(EnqueueRow \/ EnqueueFails \/ MarkNow \/ MarkNowFails)
    BY <1>1, <2>3 DEF Process, TakeCommand, HandleApplies, HandleRejects, HandleFails,
                      PublishNow, PublishNowFails, RecordAudit, RecordAuditFails
  <2>4. QED
    BY <2>1, <2>2, <2>3
<1>2. CASE Relay
  <2>1. CASE RelayMarks \/ RelayMarkFails
    BY <1>0, <2>1 DEF RelayMarks, RelayMarkFails, SetPublished
  <2>2. CASE ~(RelayMarks \/ RelayMarkFails)
    BY <1>2, <2>2 DEF Relay, RelayReads, RelayPublishes, RelayFails
  <2>3. QED
    BY <2>1, <2>2
<1>3. CASE ~Process /\ ~Relay
  BY <1>3, OthersDoNotWrite
<1>4. QED
  BY <1>1, <1>2, <1>3

\* What took effect is not applied again, nor is the number of its events
\* changed: only the command in the handler's hands is, and it is a token
\* not spent yet.
LEMMA EffectsStay ==
  ASSUME TypeOK, TokenInv, [Next]_vars, NEW c \in Commands, applied[c] # 0
  PROVE  applied'[c] = applied[c] /\ emitted'[c] = emitted[c]
<1> USE DEF apiVars, brokerVars, procVars, dbVars, histVars
<1>0. applied \in [Commands -> Nat] /\ emitted \in [Commands -> 0..MaxEvents]
  BY DEF TypeOK
<1>1. CASE HandleApplies \/ HandleFails
  <2>1. work.cmd # c
    BY <1>1 DEF HandleApplies, HandleFails, TokenInv, Pending, Handling
  <2>2. QED
    BY <1>0, <1>1, <2>1 DEF HandleApplies, HandleFails
<1>2. CASE Process /\ ~(HandleApplies \/ HandleFails)
  BY <1>2 DEF Process, TakeCommand, HandleRejects, EnqueueRow, EnqueueFails, PublishNow,
              PublishNowFails, MarkNow, MarkNowFails, RecordAudit, RecordAuditFails
<1>3. CASE Relay
  BY <1>3 DEF Relay, RelayReads, RelayPublishes, RelayFails, RelayMarks, RelayMarkFails
<1>4. CASE ~Process /\ ~Relay
  BY <1>4, OthersDoNotWrite
<1>5. QED
  BY <1>1, <1>2, <1>3, <1>4

\* A command that is complete stays so.
LEMMA CompleteStays ==
  ASSUME TypeOK, TokenInv, [Next]_vars, NEW c \in Commands, Complete(c)
  PROVE  Complete(c)'
<1>1. applied'[c] = 1 /\ emitted'[c] = emitted[c]
  BY EffectsStay DEF Complete
<1>2. \A i \in 1..emitted[c] : <<c, i>> \in Events
  <2>1. emitted[c] \in 0..MaxEvents
    BY DEF TypeOK
  <2>2. QED
    BY <2>1, PipelineAssumption DEF Events
<1>3. \A i \in 1..emitted[c] : outbox'[<<c, i>>] # "absent"
  BY <1>2, RowsStay DEF Complete, AllRecorded, Recorded
<1>4. QED
  BY <1>1, <1>3 DEF Complete, AllRecorded

-----------------------------------------------------------------------------
(* The token.                                                              *)

\* A step that moves no command and starts no handler keeps the token.
LEMMA TokenFrame ==
  ASSUME TokenInv, UNCHANGED <<api, cmdWire, cmdQueue, inbox, applied>>,
         work'.pc = "handle" => work' = work
  PROVE  TokenInv'
BY DEF TokenInv, Pending, Handling

LEMMA TokenNext ==
  ASSUME TypeOK, TokenInv, [Next]_vars
  PROVE  TokenInv'
<1> USE DEF apiVars, brokerVars, procVars, dbVars, histVars
<1>0. /\ api \in [Commands -> {"new", "retry", "polling"} \cup Answers]
      /\ applied \in [Commands -> Nat] /\ work \in Work /\ work.cmd \in Commands
      /\ cmdWire \subseteq Commands /\ cmdQueue \subseteq Commands /\ inbox \subseteq Commands
  BY DEF TypeOK, Work
<1>1. CASE UNCHANGED vars
  BY <1>1, TokenFrame DEF vars
<1>2. ASSUME NEW c \in Commands, Api(c)
      PROVE  TokenInv'
  <2>1. CASE ApiPublish(c)
    BY <1>0, <2>1 DEF ApiPublish, AfterPublish, TokenInv, Pending, Handling
  <2>2. CASE ApiRetry(c)
    BY <1>0, <2>2 DEF ApiRetry, AfterPublish, TokenInv, Pending, Handling
  <2>3. CASE SyncFound(c)
    BY <1>0, <2>3 DEF SyncFound, TokenInv, Pending, Handling
  <2>4. CASE SyncTimeout(c) \/ ApiGone(c)
    BY <1>0, <2>4 DEF SyncTimeout, ApiGone, TokenInv, Pending, Handling
  <2>5. QED
    BY <1>2, <2>1, <2>2, <2>3, <2>4 DEF Api
<1>3. CASE Broker
  <2>1. ASSUME NEW c \in Commands, BrokerTakesCommand(c)
        PROVE  TokenInv'
    BY <2>1 DEF BrokerTakesCommand, TokenInv, Pending, Handling
  <2>2. ASSUME NEW c \in Commands, DeliverCommand(c)
        PROVE  TokenInv'
    BY <2>2 DEF DeliverCommand, TokenInv, Pending, Handling
  <2>3. CASE BrokerDown
    <3>1. PICK left \in SUBSET inbox : inbox' = left
      BY <2>3 DEF BrokerDown
    <3>2. QED
      BY <2>3, <3>1 DEF BrokerDown, TokenInv, Pending, Handling
  <2>4. CASE BrokerUp \/ \E e \in Events : BrokerTakesEvent(e)
    BY <2>4, TokenFrame DEF BrokerUp, BrokerTakesEvent
  <2>5. QED
    BY <1>3, <2>1, <2>2, <2>3, <2>4 DEF Broker
<1>4. CASE WorkerStart \/ WorkerCrash \/ Resubscribe
  <2>1. CASE WorkerCrash
    <3>1. work'.pc = "next"
      BY <1>0, <2>1, WorkIdle DEF WorkerCrash
    <3>2. QED
      BY <2>1, <3>1 DEF WorkerCrash, TokenInv, Pending, Handling
  <2>2. CASE WorkerStart \/ Resubscribe
    BY <2>2, TokenFrame DEF WorkerStart, Resubscribe
  <2>3. QED
    BY <1>4, <2>1, <2>2
<1>5. CASE Process
  <2>1. ASSUME NEW c \in Commands, TakeCommand(c)
        PROVE  TokenInv'
    <3>1. work'.pc = "handle" /\ work'.cmd = c
      <4>1. "handle" \in Steps /\ 0 \in 0..MaxEvents
        BY PipelineAssumption DEF Steps
      <4>2. QED
        BY <2>1, <4>1, WorkAtStep DEF TakeCommand
    <3>2. QED
      BY <2>1, <3>1 DEF TakeCommand, TokenInv, Pending, Handling
  <2>2. CASE HandleApplies \/ HandleRejects \/ HandleFails
    <3>1. work'.pc # "handle"
      <4>1. CASE HandleRejects \/ HandleFails
        BY <1>0, <4>1, WorkAudit DEF HandleRejects, HandleFails
      <4>2. CASE HandleApplies
        <5>1. PICK k \in 0..MaxEvents :
                work' = IF k = 0 THEN [work EXCEPT !.pc = "audit", !.ok = TRUE]
                                 ELSE At("enqueue", work.cmd, k)
          BY <4>2 DEF HandleApplies
        <5>2. At("enqueue", work.cmd, k).pc = "enqueue"
          BY DEF At
        <5>3. [work EXCEPT !.pc = "audit", !.ok = TRUE].pc = "audit"
          BY <1>0, WorkAudit
        <5>4. QED
          BY <5>1, <5>2, <5>3
      <4>3. QED
        BY <2>2, <4>1, <4>2
    <3>2. /\ Handling(work.cmd) /\ applied[work.cmd] = 0
          /\ applied' = applied \/ applied' = [applied EXCEPT ![work.cmd] = @ + 1]
      BY <1>0, <2>2 DEF HandleApplies, HandleRejects, HandleFails, TokenInv, Pending, Handling
    <3>3. UNCHANGED <<api, cmdWire, cmdQueue, inbox>>
      BY <2>2 DEF HandleApplies, HandleRejects, HandleFails
    <3>4. QED
      BY <1>0, <3>1, <3>2, <3>3 DEF TokenInv, Pending, Handling
  <2>3. CASE EnqueueRow \/ EnqueueFails \/ PublishNow \/ PublishNowFails
             \/ MarkNow \/ MarkNowFails \/ RecordAudit \/ RecordAuditFails
    <3>1. work'.pc # "handle"
      <4>1. CASE EnqueueRow
        BY <1>0, <4>1 DEF EnqueueRow, Work
      <4>2. CASE EnqueueFails
        BY <1>0, <4>2, WorkAudit DEF EnqueueFails
      <4>3. CASE PublishNow
        BY <1>0, <4>3, WorkMark DEF PublishNow
      <4>4. CASE PublishNowFails \/ MarkNow \/ MarkNowFails
        <5>1. work.i <= work.n
          BY <4>4 DEF PublishNowFails, MarkNow, MarkNowFails, TypeOK
        <5>2. QED
          BY <1>0, <4>4, <5>1, WorkAdvance DEF PublishNowFails, MarkNow, MarkNowFails
      <4>5. CASE RecordAudit \/ RecordAuditFails
        BY <1>0, <4>5, WorkIdle DEF RecordAudit, RecordAuditFails
      <4>6. QED
        BY <2>3, <4>1, <4>2, <4>3, <4>4, <4>5
    <3>2. UNCHANGED <<api, cmdWire, cmdQueue, inbox, applied>>
      BY <2>3 DEF EnqueueRow, EnqueueFails, PublishNow, PublishNowFails, MarkNow, MarkNowFails,
                  RecordAudit, RecordAuditFails
    <3>3. QED
      BY <3>1, <3>2, TokenFrame
  <2>4. QED
    BY <1>5, <2>1, <2>2, <2>3 DEF Process
<1>6. CASE Relay
  <2>1. UNCHANGED <<api, cmdWire, cmdQueue, inbox, applied, work>>
    BY <1>6 DEF Relay, RelayReads, RelayPublishes, RelayFails, RelayMarks, RelayMarkFails
  <2>2. QED
    BY <2>1, TokenFrame
<1>7. QED
  BY <1>1, <1>2, <1>3, <1>4, <1>5, <1>6 DEF Next

-----------------------------------------------------------------------------
(* The rows.                                                               *)

\* A step that writes nothing and puts nothing new on the way keeps RowsInv.
LEMMA RowsFrame ==
  ASSUME RowsInv, UNCHANGED <<outbox, applied, emitted, batch, mark>>,
         wire' \cup delivered' \subseteq wire \cup delivered
  PROVE  RowsInv'
BY DEF RowsInv, Recorded

LEMMA RowsNext ==
  ASSUME TypeOK, TokenInv, RowsInv, WorkInv, [Next]_vars
  PROVE  RowsInv'
<1> USE DEF apiVars, brokerVars, procVars, dbVars, histVars
<1>0. /\ applied \in [Commands -> Nat] /\ emitted \in [Commands -> 0..MaxEvents]
      /\ outbox \in [Events -> {"absent", "pending", "published"}]
      /\ work.cmd \in Commands /\ work.i \in 1..MaxEvents
  BY DEF TypeOK, Work
<1>a. \A e \in Events : e[1] \in Commands /\ e[2] \in 1..MaxEvents
  BY DEF Events
<1>b. Current \in Events /\ Current[1] = work.cmd /\ Current[2] = work.i
  BY <1>0 DEF Current, Events
\* What was recorded still is, and still belongs to an applied command.
<1>c. \A e \in Events : Recorded(e) =>
        Recorded(e)' /\ applied'[e[1]] = 1 /\ e[2] <= emitted'[e[1]]
  <2>1. SUFFICES ASSUME NEW e \in Events, Recorded(e)
                 PROVE  Recorded(e)' /\ applied'[e[1]] = 1 /\ e[2] <= emitted'[e[1]]
    OBVIOUS
  <2>2. applied[e[1]] = 1 /\ e[2] <= emitted[e[1]] /\ e[1] \in Commands
    BY <1>a, <2>1 DEF RowsInv
  <2>3. applied'[e[1]] = applied[e[1]] /\ emitted'[e[1]] = emitted[e[1]]
    BY <2>2, EffectsStay
  <2>4. QED
    BY <2>1, <2>2, <2>3, RowsStay
<1>d. /\ wire \cup delivered \cup batch \subseteq Events
      /\ mark # None => mark \in Events
      /\ \A e \in wire \cup delivered \cup batch : Recorded(e)
      /\ mark # None => Recorded(mark)
  BY DEF TypeOK, RowsInv
\* A step that keeps no new row keeps RowsInv if all it sends was kept.
<1>e. ASSUME UNCHANGED outbox \/ \E e \in Events : SetPublished(e),
             wire' \cup delivered' \cup batch' \subseteq
               wire \cup delivered \cup batch \cup {e \in Events : Recorded(e)},
             mark' = None \/ mark' = mark \/ mark' \in batch
      PROVE  RowsInv'
  <2>1. \A e \in Events : Recorded(e)' => Recorded(e)
    BY <1>0, <1>e DEF SetPublished, Recorded
  <2>2. \A e \in Events : Recorded(e)' => applied'[e[1]] = 1 /\ e[2] <= emitted'[e[1]]
    BY <1>c, <2>1
  <2>3. (\A e \in wire \cup delivered \cup batch : Recorded(e))'
    BY <1>c, <1>d, <1>e
  <2>4. (mark # None => Recorded(mark))'
    BY <1>c, <1>d, <1>e DEF Recorded
  <2>5. QED
    BY <2>2, <2>3, <2>4 DEF RowsInv, Recorded
<1>1. CASE Process
  <2>1. CASE EnqueueRow \/ EnqueueFails
    <3>1. applied[work.cmd] = 1 /\ work.i <= emitted[work.cmd]
      BY <2>1 DEF EnqueueRow, EnqueueFails, WorkInv, TypeOK
    <3>2. \A e \in Events : Recorded(e)' => Recorded(e) \/ e = Current
      BY <1>0, <2>1 DEF EnqueueRow, EnqueueFails, InsertRow, Recorded
    <3>3. UNCHANGED <<applied, emitted, wire, delivered, batch, mark>>
      BY <2>1 DEF EnqueueRow, EnqueueFails
    <3>4. QED
      BY <1>b, <1>c, <1>d, <3>1, <3>2, <3>3 DEF RowsInv, Recorded
  <2>2. CASE MarkNow \/ MarkNowFails
    BY <1>b, <1>e, <2>2 DEF MarkNow, MarkNowFails
  <2>3. CASE PublishNow
    <3>1. Recorded(Current)
      <4>1. work.i \in 1..emitted[work.cmd]
        BY <1>0, <2>3 DEF PublishNow, WorkInv, TypeOK
      <4>2. QED
        BY <2>3, <4>1 DEF PublishNow, WorkInv, AllRecorded, Recorded, Current
    <3>2. UNCHANGED <<outbox, delivered, batch, mark>> /\ wire' \subseteq wire \cup {Current}
      BY <2>3 DEF PublishNow, PublishRawOk
    <3>3. QED
      BY <1>b, <1>e, <3>1, <3>2
  <2>4. CASE HandleApplies \/ HandleFails
    <3>1. UNCHANGED <<outbox, wire, delivered, batch, mark>>
      BY <2>4 DEF HandleApplies, HandleFails
    <3>2. QED
      BY <1>e, <3>1
  <2>5. CASE (\E c \in Commands : TakeCommand(c)) \/ HandleRejects \/ PublishNowFails
             \/ RecordAudit \/ RecordAuditFails
    BY <2>5, RowsFrame DEF TakeCommand, HandleRejects, PublishNowFails, RecordAudit, RecordAuditFails
  <2>6. QED
    BY <1>1, <2>1, <2>2, <2>3, <2>4, <2>5 DEF Process
<1>2. CASE Relay
  <2>1. CASE RelayReads
    <3>1. batch' \subseteq {e \in Events : Recorded(e)}
      BY <2>1 DEF RelayReads, OldestPending, Recorded
    <3>2. QED
      BY <1>e, <2>1, <3>1 DEF RelayReads
  <2>2. ASSUME NEW e \in Events, RelayPublishes(e) \/ RelayFails(e)
        PROVE  RowsInv'
    <3>1. e \in batch /\ Recorded(e)
      BY <1>d, <2>2 DEF RelayPublishes, RelayFails
    <3>2. /\ UNCHANGED <<outbox, delivered>> /\ batch' \subseteq batch
          /\ wire' \subseteq wire \cup {e} /\ mark' \in {mark, e}
      BY <2>2 DEF RelayPublishes, RelayFails, PublishRawOk
    <3>3. QED
      BY <1>e, <3>1, <3>2
  <2>3. CASE RelayMarks \/ RelayMarkFails
    <3>1. mark \in Events
      BY <1>d, <2>3 DEF RelayMarks, RelayMarkFails
    <3>2. QED
      BY <1>e, <2>3, <3>1 DEF RelayMarks, RelayMarkFails
  <2>4. QED
    BY <1>2, <2>1, <2>2, <2>3 DEF Relay
<1>3. CASE ~Process /\ ~Relay
  <2>1. UNCHANGED outbox
    BY <1>3, OthersDoNotWrite
  <2>2. /\ wire' \cup delivered' \subseteq wire \cup delivered /\ batch' \subseteq batch
        /\ mark' \in {None, mark}
    <3>1. CASE UNCHANGED vars
      BY <3>1 DEF vars
    <3>2. CASE \E c \in Commands : Api(c)
      BY <3>2 DEF Api, ApiPublish, ApiRetry, SyncFound, SyncTimeout, ApiGone
    <3>3. CASE Broker
      BY <3>3 DEF Broker, BrokerTakesCommand, BrokerTakesEvent, DeliverCommand, BrokerDown, BrokerUp
    <3>4. CASE WorkerStart \/ WorkerCrash \/ Resubscribe
      BY <3>4 DEF WorkerStart, WorkerCrash, Resubscribe
    <3>5. QED
      BY <1>3, <3>1, <3>2, <3>3, <3>4 DEF Next
  <2>3. QED
    BY <1>e, <2>1, <2>2
<1>4. QED
  BY <1>1, <1>2, <1>3

-----------------------------------------------------------------------------
(* The processing loop.                                                    *)

\* A step that leaves the loop where it is keeps WorkInv: what it relies on
\* only grows.
LEMMA WorkFrame ==
  ASSUME TypeOK, TokenInv, WorkInv, [Next]_vars, work' = work
  PROVE  WorkInv'
<1>0. work.cmd \in Commands /\ work.i \in 1..MaxEvents
  BY DEF TypeOK, Work
<1>1. applied[work.cmd] = 1 =>
        applied'[work.cmd] = 1 /\ emitted'[work.cmd] = emitted[work.cmd]
  BY <1>0, EffectsStay
<1>2. \A j \in 1..(work.i - 1) : Recorded(<<work.cmd, j>>) => Recorded(<<work.cmd, j>>)'
  <2>1. \A j \in 1..(work.i - 1) : <<work.cmd, j>> \in Events
    BY <1>0, PipelineAssumption DEF Events
  <2>2. QED
    BY <2>1, RowsStay
<1>3. Complete(work.cmd) => Complete(work.cmd)'
  BY <1>0, CompleteStays
<1>4. AllRecorded(work.cmd) /\ applied[work.cmd] = 1 => AllRecorded(work.cmd)'
  BY <1>3 DEF Complete
<1>5. QED
  BY <1>1, <1>2, <1>3, <1>4 DEF WorkInv, Recorded, Complete, AllRecorded

LEMMA WorkNext ==
  ASSUME TypeOK, TokenInv, WorkInv, [Next]_vars
  PROVE  WorkInv'
<1> USE DEF apiVars, brokerVars, procVars, dbVars, histVars
<1>0. /\ work \in Work /\ work.cmd \in Commands /\ work.n \in 0..MaxEvents
      /\ work.i \in 1..MaxEvents
      /\ applied \in [Commands -> Nat] /\ emitted \in [Commands -> 0..MaxEvents]
      /\ outbox \in [Events -> {"absent", "pending", "published"}]
  BY DEF TypeOK, Work
<1>1. CASE Process
  <2>1. ASSUME NEW c \in Commands, TakeCommand(c)
        PROVE  WorkInv'
    <3>1. "handle" \in Steps /\ 0 \in 0..MaxEvents
      BY PipelineAssumption DEF Steps
    <3>2. work'.pc = "handle"
      BY <2>1, <3>1, WorkAtStep DEF TakeCommand
    <3>3. QED
      BY <3>2 DEF WorkInv
  <2>2. CASE HandleApplies
    <3>1. PICK k \in 0..MaxEvents :
            /\ emitted' = [emitted EXCEPT ![work.cmd] = k]
            /\ work' = IF k = 0 THEN [work EXCEPT !.pc = "audit", !.ok = TRUE]
                                ELSE At("enqueue", work.cmd, k)
      BY <2>2 DEF HandleApplies
    <3>2. applied[work.cmd] = 0
      BY <1>0, <2>2 DEF HandleApplies, TokenInv, Pending, Handling
    <3>3. applied'[work.cmd] = 1 /\ emitted'[work.cmd] = k
      BY <1>0, <2>2, <3>1, <3>2 DEF HandleApplies
    <3>4. CASE k = 0
      <4>1. work'.pc = "audit" /\ work'.cmd = work.cmd
        BY <1>0, <3>1, <3>4, WorkAudit
      <4>2. QED
        BY <3>3, <3>4, <4>1 DEF WorkInv, Complete, AllRecorded
    <3>5. CASE k # 0
      <4>1. work'.pc = "enqueue" /\ work'.cmd = work.cmd /\ work'.n = k /\ work'.i = 1
        BY <3>1, <3>5 DEF At
      <4>2. QED
        BY <3>3, <4>1 DEF WorkInv
    <3>6. QED
      BY <3>4, <3>5
  <2>3. CASE HandleRejects \/ HandleFails \/ EnqueueFails
    <3>1. work'.pc = "audit" /\ work'.ok = FALSE
      BY <1>0, <2>3, WorkAudit DEF HandleRejects, HandleFails, EnqueueFails
    <3>2. QED
      BY <3>1 DEF WorkInv
  <2>4. CASE EnqueueRow
    <3>1. applied'[work.cmd] = 1 /\ emitted'[work.cmd] = work.n /\ work.i <= work.n
      BY <2>4 DEF EnqueueRow, WorkInv, TypeOK
    <3>2. \A j \in 1..work.i : outbox'[<<work.cmd, j>>] # "absent"
      <4>1. Current \in Events /\ outbox'[Current] # "absent"
        BY <1>0, <2>4 DEF EnqueueRow, InsertRow, Current, Events
      <4>2. \A j \in 1..(work.i - 1) : <<work.cmd, j>> \in Events /\ Recorded(<<work.cmd, j>>)
        BY <1>0, <2>4, PipelineAssumption DEF EnqueueRow, WorkInv, Events
      <4>3. \A j \in 1..(work.i - 1) : outbox'[<<work.cmd, j>>] # "absent"
        BY <4>2, RowsStay DEF Recorded
      <4>4. QED
        BY <1>0, <4>1, <4>3 DEF Current
    <3>3. CASE work.i < work.n
      <4>1. /\ work'.pc = "enqueue" /\ work'.cmd = work.cmd /\ work'.n = work.n
            /\ work'.i = work.i + 1
        BY <1>0, <2>4, <3>3, WorkNextRow DEF EnqueueRow
      <4>2. QED
        BY <1>0, <3>1, <3>2, <4>1 DEF WorkInv, Recorded
    <3>4. CASE ~(work.i < work.n)
      <4>1. work'.pc = "publish" /\ work'.cmd = work.cmd /\ work'.n = work.n
        BY <1>0, <2>4, <3>4 DEF EnqueueRow, Work
      <4>2. work.i = work.n
        BY <1>0, <3>1, <3>4
      <4>3. QED
        BY <3>1, <3>2, <4>1, <4>2 DEF WorkInv, AllRecorded
    <3>5. QED
      BY <3>3, <3>4
  <2>5. CASE PublishNow \/ PublishNowFails \/ MarkNow \/ MarkNowFails
    <3>1. /\ applied[work.cmd] = 1 /\ work.n = emitted[work.cmd] /\ AllRecorded(work.cmd)
          /\ work.i <= work.n
      BY <2>5 DEF PublishNow, PublishNowFails, MarkNow, MarkNowFails, WorkInv, TypeOK
    <3>2. /\ applied'[work.cmd] = 1 /\ work.n = emitted'[work.cmd]
          /\ \A i \in 1..work.n : outbox'[<<work.cmd, i>>] # "absent"
      <4>1. applied'[work.cmd] = applied[work.cmd] /\ emitted'[work.cmd] = emitted[work.cmd]
        BY <1>0, <3>1, EffectsStay
      <4>2. \A i \in 1..emitted[work.cmd] : <<work.cmd, i>> \in Events
        BY <1>0, PipelineAssumption DEF Events
      <4>3. \A i \in 1..emitted[work.cmd] : outbox'[<<work.cmd, i>>] # "absent"
        BY <3>1, <4>2, RowsStay DEF AllRecorded, Recorded
      <4>4. QED
        BY <3>1, <4>1, <4>3
    <3>3. /\ work'.pc \in {"publish", "mark", "audit"}
          /\ work'.cmd = work.cmd /\ work'.n = work.n
      <4>1. CASE PublishNow
        BY <1>0, <4>1, WorkMark DEF PublishNow
      <4>2. CASE PublishNowFails \/ MarkNow \/ MarkNowFails
        BY <1>0, <3>1, <4>2, WorkAdvance DEF PublishNowFails, MarkNow, MarkNowFails
      <4>3. QED
        BY <2>5, <4>1, <4>2
    <3>4. QED
      BY <3>2, <3>3 DEF WorkInv, Complete, AllRecorded
  <2>6. CASE RecordAudit \/ RecordAuditFails
    <3>1. work'.pc = "next"
      BY <1>0, <2>6, WorkIdle DEF RecordAudit, RecordAuditFails
    <3>2. QED
      BY <3>1 DEF WorkInv
  <2>7. QED
    BY <1>1, <2>1, <2>2, <2>3, <2>4, <2>5, <2>6 DEF Process
<1>2. CASE WorkerCrash
  <2>1. work'.pc = "next"
    BY <1>0, <1>2, WorkIdle DEF WorkerCrash
  <2>2. QED
    BY <2>1 DEF WorkInv
<1>3. CASE ~Process /\ ~WorkerCrash
  <2>1. work' = work
    <3>1. CASE UNCHANGED vars
      BY <3>1 DEF vars
    <3>2. CASE \E c \in Commands : Api(c)
      BY <3>2 DEF Api, ApiPublish, ApiRetry, SyncFound, SyncTimeout, ApiGone
    <3>3. CASE Broker
      BY <3>3 DEF Broker, BrokerTakesCommand, BrokerTakesEvent, DeliverCommand, BrokerDown, BrokerUp
    <3>4. CASE WorkerStart \/ Resubscribe
      BY <3>4 DEF WorkerStart, Resubscribe
    <3>5. CASE Relay
      BY <3>5 DEF Relay, RelayReads, RelayPublishes, RelayFails, RelayMarks, RelayMarkFails
    <3>6. QED
      BY <1>3, <3>1, <3>2, <3>3, <3>4, <3>5 DEF Next
  <2>2. QED
    BY <2>1, WorkFrame
<1>4. QED
  BY <1>1, <1>2, <1>3

-----------------------------------------------------------------------------
(* The audit log and the answer.                                           *)

LEMMA AuditNext ==
  ASSUME TypeOK, TokenInv, WorkInv, AuditInv, [Next]_vars
  PROVE  AuditInv'
<1> USE DEF apiVars, brokerVars, procVars, dbVars, histVars
<1>0. work.cmd \in Commands /\ api \in [Commands -> {"new", "retry", "polling"} \cup Answers]
  BY DEF TypeOK, Work
<1>1. ASSUME NEW c \in Commands, <<c, TRUE>> \in audit'
      PROVE  Complete(c)
  <2>1. CASE RecordAudit \/ RecordAuditFails
    <3>1. <<c, TRUE>> \in audit \/ <<c, TRUE>> = <<work.cmd, work.ok>>
      <4>1. audit' \subseteq audit \cup {<<work.cmd, work.ok>>}
        BY <2>1 DEF RecordAudit, RecordAuditFails
      <4>2. QED
        BY <1>1, <4>1
    <3>2. work.pc = "audit"
      BY <2>1 DEF RecordAudit, RecordAuditFails
    <3>3. QED
      BY <3>1, <3>2 DEF AuditInv, WorkInv
  <2>2. CASE Process /\ ~(RecordAudit \/ RecordAuditFails)
    BY <1>1, <2>2 DEF Process, TakeCommand, HandleApplies, HandleRejects, HandleFails, EnqueueRow,
                      EnqueueFails, PublishNow, PublishNowFails, MarkNow, MarkNowFails, AuditInv
  <2>3. CASE Relay
    BY <1>1, <2>3 DEF Relay, RelayReads, RelayPublishes, RelayFails, RelayMarks, RelayMarkFails,
                      AuditInv
  <2>4. CASE ~Process /\ ~Relay
    BY <1>1, <2>4, OthersDoNotWrite DEF AuditInv
  <2>5. QED
    BY <2>1, <2>2, <2>3, <2>4
<1>2. ASSUME NEW c \in Commands, api'[c] = "written"
      PROVE  Complete(c)
  <2>1. api[c] = "written" \/ <<c, TRUE>> \in audit
    <3>1. ASSUME NEW d \in Commands, Api(d)
          PROVE  api[c] = "written" \/ <<c, TRUE>> \in audit
      <4>1. CASE SyncFound(d)
        <5>1. PICK success \in BOOLEAN :
                /\ <<d, success>> \in audit
                /\ api' = [api EXCEPT ![d] = IF success THEN "written" ELSE "failed"]
          BY <4>1 DEF SyncFound
        <5>2. QED
          BY <1>0, <1>2, <5>1
      <4>2. CASE ~SyncFound(d)
        BY <1>0, <1>2, <3>1, <4>2 DEF Api, ApiPublish, ApiRetry, SyncTimeout, ApiGone, AfterPublish
      <4>3. QED
        BY <4>1, <4>2
    <3>2. CASE UNCHANGED api
      BY <1>2, <3>2
    <3>3. CASE Broker \/ WorkerStart \/ WorkerCrash \/ Resubscribe
      BY <1>2, <3>3 DEF Broker, BrokerTakesCommand, BrokerTakesEvent, DeliverCommand, BrokerDown,
                        BrokerUp, WorkerStart, WorkerCrash, Resubscribe
    <3>4. CASE Process
      BY <1>2, <3>4 DEF Process, TakeCommand, HandleApplies, HandleRejects, HandleFails, EnqueueRow,
                        EnqueueFails, PublishNow, PublishNowFails, MarkNow, MarkNowFails,
                        RecordAudit, RecordAuditFails
    <3>5. CASE Relay
      BY <1>2, <3>5 DEF Relay, RelayReads, RelayPublishes, RelayFails, RelayMarks, RelayMarkFails
    <3>6. QED
      BY <3>1, <3>2, <3>3, <3>4, <3>5 DEF Next, vars
  <2>2. QED
    BY <2>1 DEF AuditInv
<1>3. \A c \in Commands : Complete(c) => Complete(c)'
  BY CompleteStays
<1>4. QED
  BY <1>1, <1>2, <1>3 DEF AuditInv

-----------------------------------------------------------------------------
(* What was sent.                                                          *)

LEMMA SentNext ==
  ASSUME TypeOK, SentInv, [Next]_vars
  PROVE  SentInv'
<1> USE DEF apiVars, brokerVars, procVars, dbVars, histVars
<1>0. /\ work \in Work /\ work.cmd \in Commands /\ work.i \in 1..MaxEvents
      /\ outbox \in [Events -> {"absent", "pending", "published"}]
  BY DEF TypeOK, Work
<1>1. Current \in Events
  BY <1>0 DEF Current, Events
\* A step that marks nothing new, and has sent what it is about to mark.
<1>2. ASSUME sent \subseteq sent',
             \A e \in Events : outbox'[e] = "published" => e \in sent,
             mark' \in {None, mark} \/ mark' \in sent',
             work'.pc # "mark"
      PROVE  SentInv'
  BY <1>2 DEF SentInv
<1>3. CASE Process
  <2>1. CASE PublishNow
    <3>1. work'.pc = "mark" /\ work'.cmd = work.cmd /\ work'.i = work.i
      BY <1>0, <2>1, WorkMark DEF PublishNow
    <3>2. sent' = sent \cup {Current} /\ UNCHANGED <<outbox, mark>>
      BY <2>1 DEF PublishNow, PublishRawOk
    <3>3. QED
      BY <3>1, <3>2 DEF SentInv, Current
  <2>2. CASE MarkNow \/ MarkNowFails
    <3>1. work.i <= work.n
      BY <2>2 DEF MarkNow, MarkNowFails, TypeOK
    <3>2. work'.pc # "mark"
      BY <1>0, <2>2, <3>1, WorkAdvance DEF MarkNow, MarkNowFails
    <3>3. \A e \in Events : outbox'[e] = "published" => e \in sent
      BY <1>0, <1>1, <2>2 DEF MarkNow, MarkNowFails, SetPublished, SentInv
    <3>4. QED
      BY <1>2, <2>2, <3>2, <3>3 DEF MarkNow, MarkNowFails
  <2>3. CASE EnqueueRow \/ EnqueueFails
    <3>1. \A e \in Events : outbox'[e] = "published" => e \in sent
      BY <1>0, <1>1, <2>3 DEF EnqueueRow, EnqueueFails, InsertRow, SentInv
    <3>2. work'.pc # "mark"
      <4>1. CASE EnqueueFails
        BY <1>0, <4>1, WorkAudit DEF EnqueueFails
      <4>2. CASE EnqueueRow
        BY <1>0, <4>2 DEF EnqueueRow, Work
      <4>3. QED
        BY <2>3, <4>1, <4>2
    <3>3. QED
      BY <1>2, <2>3, <3>1, <3>2 DEF EnqueueRow, EnqueueFails
  <2>4. CASE HandleApplies \/ HandleRejects \/ HandleFails
    <3>1. work'.pc # "mark"
      <4>1. CASE HandleRejects \/ HandleFails
        BY <1>0, <4>1, WorkAudit DEF HandleRejects, HandleFails
      <4>2. CASE HandleApplies
        <5>1. PICK k \in 0..MaxEvents :
                work' = IF k = 0 THEN [work EXCEPT !.pc = "audit", !.ok = TRUE]
                                 ELSE At("enqueue", work.cmd, k)
          BY <4>2 DEF HandleApplies
        <5>2. At("enqueue", work.cmd, k).pc = "enqueue"
          BY DEF At
        <5>3. [work EXCEPT !.pc = "audit", !.ok = TRUE].pc = "audit"
          BY <1>0, WorkAudit
        <5>4. QED
          BY <5>1, <5>2, <5>3
      <4>3. QED
        BY <2>4, <4>1, <4>2
    <3>2. QED
      BY <1>2, <2>4, <3>1 DEF HandleApplies, HandleRejects, HandleFails, SentInv
  <2>5. ASSUME NEW c \in Commands, TakeCommand(c)
        PROVE  SentInv'
    <3>1. "handle" \in Steps /\ 0 \in 0..MaxEvents
      BY PipelineAssumption DEF Steps
    <3>2. work'.pc = "handle"
      BY <2>5, <3>1, WorkAtStep DEF TakeCommand
    <3>3. QED
      BY <1>2, <2>5, <3>2 DEF TakeCommand, SentInv
  <2>6. CASE PublishNowFails \/ RecordAudit \/ RecordAuditFails
    <3>1. work'.pc # "mark"
      <4>1. CASE PublishNowFails
        BY <1>0, <4>1, WorkAdvance DEF PublishNowFails, TypeOK
      <4>2. CASE RecordAudit \/ RecordAuditFails
        BY <1>0, <4>2, WorkIdle DEF RecordAudit, RecordAuditFails
      <4>3. QED
        BY <2>6, <4>1, <4>2
    <3>2. QED
      BY <1>2, <2>6, <3>1 DEF PublishNowFails, RecordAudit, RecordAuditFails, SentInv
  <2>7. QED
    BY <1>3, <2>1, <2>2, <2>3, <2>4, <2>5, <2>6 DEF Process
<1>4. CASE Relay
  <2>1. ASSUME NEW e \in Events, RelayPublishes(e)
        PROVE  SentInv'
    BY <2>1 DEF RelayPublishes, PublishRawOk, SentInv, Current
  <2>2. CASE RelayMarks \/ RelayMarkFails
    <3>1. \A e \in Events : outbox'[e] = "published" => e \in sent
      BY <1>0, <2>2 DEF RelayMarks, RelayMarkFails, SetPublished, SentInv
    <3>2. mark' = None /\ UNCHANGED <<work, sent>>
      BY <2>2 DEF RelayMarks, RelayMarkFails
    <3>3. QED
      BY <3>1, <3>2 DEF SentInv, Current
  <2>3. CASE RelayReads \/ \E e \in Events : RelayFails(e)
    BY <2>3 DEF RelayReads, RelayFails, SentInv, Current
  <2>4. QED
    BY <1>4, <2>1, <2>2, <2>3 DEF Relay
<1>5. CASE WorkerCrash
  <2>1. work'.pc = "next"
    BY <1>0, <1>5, WorkIdle DEF WorkerCrash
  <2>2. QED
    BY <1>2, <1>5, <2>1 DEF WorkerCrash, SentInv
<1>6. CASE ~Process /\ ~Relay /\ ~WorkerCrash
  <2>1. UNCHANGED <<outbox, sent>>
    BY <1>6, OthersDoNotWrite
  <2>2. UNCHANGED <<mark, work>>
    <3>1. CASE UNCHANGED vars
      BY <3>1 DEF vars
    <3>2. CASE \E c \in Commands : Api(c)
      BY <3>2 DEF Api, ApiPublish, ApiRetry, SyncFound, SyncTimeout, ApiGone
    <3>3. CASE Broker
      BY <3>3 DEF Broker, BrokerTakesCommand, BrokerTakesEvent, DeliverCommand, BrokerDown, BrokerUp
    <3>4. CASE WorkerStart \/ Resubscribe
      BY <3>4 DEF WorkerStart, Resubscribe
    <3>5. QED
      BY <1>6, <3>1, <3>2, <3>3, <3>4 DEF Next
  <2>3. QED
    BY <2>1, <2>2 DEF SentInv, Current
<1>7. QED
  BY <1>3, <1>4, <1>5, <1>6

-----------------------------------------------------------------------------
(* The theorems.                                                           *)

LEMMA InvInit == Init => IInv
<1> SUFFICES ASSUME Init PROVE IInv
  OBVIOUS
<1>1. TypeOK /\ work.pc = "next"
  BY TypeInit, WorkIdle DEF Init
<1>2. \A e \in Events : outbox[e] = "absent"
  BY DEF Init
<1>3. \A c \in Commands : applied[c] = 0 /\ api[c] = "new"
  BY DEF Init
<1>4. TokenInv
  BY <1>1, <1>3 DEF Init, TokenInv, Pending, Handling
<1>5. RowsInv /\ WorkInv /\ AuditInv /\ SentInv
  BY <1>1, <1>2, <1>3 DEF Init, RowsInv, WorkInv, AuditInv, SentInv, Recorded
<1>6. QED
  BY <1>1, <1>4, <1>5 DEF IInv

LEMMA InvNext == IInv /\ [Next]_vars => IInv'
BY TypeNext, TokenNext, RowsNext, WorkNext, AuditNext, SentNext DEF IInv

\* The inductive invariant holds in every reachable state.
THEOREM Invariance == Spec => []IInv
BY InvInit, InvNext, PTL DEF Spec

\* No command takes effect twice, whatever the retries of the publisher, the
\* restarts of the worker and the outages of the broker.
THEOREM AtMostOnce == Spec => []AppliedAtMostOnce
<1>1. IInv => AppliedAtMostOnce
  BY DEF IInv, TokenInv, AppliedAtMostOnce
<1>2. QED
  BY <1>1, Invariance, PTL

\* An event a consumer can see is in the outbox, and belongs to a command
\* that took effect.
THEOREM Durability == Spec => []DurableBeforeVisible
<1>1. IInv => DurableBeforeVisible
  BY DEF IInv, RowsInv, DurableBeforeVisible, Recorded
<1>2. QED
  BY <1>1, Invariance, PTL

\* "written" is a confirmation: the write and all its events are durable.
THEOREM Confirmation == Spec => []WrittenIsComplete
<1>1. IInv => WrittenIsComplete
  BY DEF IInv, AuditInv, Complete, WrittenIsComplete
<1>2. QED
  BY <1>1, Invariance, PTL

\* A command answered with 500 never takes effect.
THEOREM Refusal == Spec => []ErrorNeverLands
<1>1. IInv => ErrorNeverLands
  BY DEF IInv, TokenInv, Pending, ErrorNeverLands
<1>2. QED
  BY <1>1, Invariance, PTL

\* A row is marked published only after a publish of it was reported sent.
THEOREM NothingMarkedUnsent == Spec => []PublishedWasSent
<1>1. IInv => PublishedWasSent
  BY DEF IInv, SentInv, PublishedWasSent
<1>2. QED
  BY <1>1, Invariance, PTL

-----------------------------------------------------------------------------
(* The pipeline implements ReliableDelivery.                               *)

kept == {e \in Events : outbox[e] # "absent"}
confirmed == {c \in Commands : api[c] = "written"}
refused == {c \in Commands : api[c] = "error"}

\* What a step of the promise is, over the pipeline's variables.
LEMMA PromiseStep ==
  ASSUME \/ UNCHANGED <<applied, emitted, kept, delivered, confirmed, refused>>
         \/ \E c \in Commands :
              /\ applied[c] = 0 /\ c \notin refused
              /\ applied' = [applied EXCEPT ![c] = 1]
              /\ \E n \in 0..MaxEvents : emitted' = [emitted EXCEPT ![c] = n]
              /\ UNCHANGED <<kept, delivered, confirmed, refused>>
         \/ \E c \in Commands, i \in 1..MaxEvents :
              /\ applied[c] = 1 /\ i \in 1..emitted[c]
              /\ kept' = kept \cup {<<c, i>>}
              /\ UNCHANGED <<applied, emitted, delivered, confirmed, refused>>
         \/ \E e \in kept :
              /\ delivered' = delivered \cup {e}
              /\ UNCHANGED <<applied, emitted, kept, confirmed, refused>>
         \/ \E c \in Commands :
              /\ applied[c] = 1 /\ \A i \in 1..emitted[c] : <<c, i>> \in kept
              /\ confirmed' = confirmed \cup {c}
              /\ UNCHANGED <<applied, emitted, kept, delivered, refused>>
         \/ \E c \in Commands :
              /\ applied[c] = 0
              /\ refused' = refused \cup {c}
              /\ UNCHANGED <<applied, emitted, kept, delivered, confirmed>>
  PROVE  [Delivery!Next]_(Delivery!vars)
BY DEF Delivery!Next, Delivery!vars, Delivery!Apply, Delivery!Keep, Delivery!Show,
       Delivery!Confirm, Delivery!Refuse, kept, confirmed, refused

LEMMA RefinementStep == IInv /\ [Next]_vars => [Delivery!Next]_(Delivery!vars)
<1> USE DEF apiVars, brokerVars, procVars, dbVars, histVars
<1> SUFFICES ASSUME IInv, [Next]_vars
             PROVE  [Delivery!Next]_(Delivery!vars)
  OBVIOUS
<1>0. /\ TypeOK /\ TokenInv /\ RowsInv /\ WorkInv /\ AuditInv
      /\ work.cmd \in Commands /\ work.i \in 1..MaxEvents
      /\ api \in [Commands -> {"new", "retry", "polling"} \cup Answers]
      /\ outbox \in [Events -> {"absent", "pending", "published"}]
      /\ applied \in [Commands -> Nat] /\ emitted \in [Commands -> 0..MaxEvents]
      /\ delivered \subseteq Events
  BY DEF IInv, TypeOK, Work
<1>1. CASE UNCHANGED vars
  BY <1>1, PromiseStep DEF vars, kept, confirmed, refused
<1>2. ASSUME NEW c \in Commands, Api(c)
      PROVE  [Delivery!Next]_(Delivery!vars)
  <2>0. UNCHANGED <<applied, emitted, kept, delivered>>
    BY <1>2 DEF Api, ApiPublish, ApiRetry, SyncFound, SyncTimeout, ApiGone, kept
  <2>1. CASE ApiRetry(c) /\ api'[c] = "error"
    <3>1. api' = [api EXCEPT ![c] = "error"] /\ api[c] = "retry" /\ applied[c] = 0
      BY <1>0, <2>1 DEF ApiRetry, AfterPublish, TokenInv
    <3>2. refused' = refused \cup {c} /\ UNCHANGED confirmed
      BY <1>0, <3>1 DEF refused, confirmed
    <3>3. QED
      BY <2>0, <3>1, <3>2, PromiseStep
  <2>2. CASE SyncFound(c)
    <3>1. PICK success \in BOOLEAN :
            /\ <<c, success>> \in audit
            /\ api' = [api EXCEPT ![c] = IF success THEN "written" ELSE "failed"]
      BY <2>2 DEF SyncFound
    <3>2. api[c] = "polling"
      BY <2>2 DEF SyncFound
    <3>3. CASE success
      <4>1. Complete(c)
        BY <1>0, <3>1, <3>3 DEF AuditInv
      <4>2. \A i \in 1..emitted[c] : <<c, i>> \in Events
        BY <1>0, PipelineAssumption DEF Events
      <4>3. applied[c] = 1 /\ \A i \in 1..emitted[c] : <<c, i>> \in kept
        BY <4>1, <4>2 DEF Complete, AllRecorded, kept
      <4>4. confirmed' = confirmed \cup {c} /\ UNCHANGED refused
        BY <1>0, <3>1, <3>2, <3>3 DEF confirmed, refused
      <4>5. QED
        BY <2>0, <4>3, <4>4, PromiseStep
    <3>4. CASE ~success
      <4>1. UNCHANGED <<confirmed, refused>>
        BY <1>0, <3>1, <3>2, <3>4 DEF confirmed, refused
      <4>2. QED
        BY <2>0, <4>1, PromiseStep
    <3>5. QED
      BY <3>3, <3>4
  <2>3. CASE ~SyncFound(c) /\ ~(ApiRetry(c) /\ api'[c] = "error")
    <3>1. UNCHANGED <<confirmed, refused>>
      BY <1>0, <1>2, <2>3 DEF Api, ApiPublish, ApiRetry, SyncTimeout, ApiGone, AfterPublish,
                              confirmed, refused
    <3>2. QED
      BY <2>0, <3>1, PromiseStep
  <2>4. QED
    BY <2>1, <2>2, <2>3
<1>3. CASE Broker
  <2>1. ASSUME NEW e \in Events, BrokerTakesEvent(e)
        PROVE  [Delivery!Next]_(Delivery!vars)
    <3>1. e \in kept
      BY <1>0, <2>1 DEF BrokerTakesEvent, RowsInv, Recorded, kept
    <3>2. delivered' = delivered \cup {e} /\ UNCHANGED <<applied, emitted, kept, confirmed, refused>>
      BY <2>1 DEF BrokerTakesEvent, kept, confirmed, refused
    <3>3. QED
      BY <3>1, <3>2, PromiseStep
  <2>2. CASE (\E c \in Commands : BrokerTakesCommand(c) \/ DeliverCommand(c)) \/ BrokerDown \/ BrokerUp
    <3>1. UNCHANGED <<applied, emitted, kept, delivered, confirmed, refused>>
      BY <2>2 DEF BrokerTakesCommand, DeliverCommand, BrokerDown, BrokerUp, kept, confirmed, refused
    <3>2. QED
      BY <3>1, PromiseStep
  <2>3. QED
    BY <1>3, <2>1, <2>2 DEF Broker
<1>4. CASE WorkerStart \/ WorkerCrash \/ Resubscribe
  <2>1. UNCHANGED <<applied, emitted, kept, delivered, confirmed, refused>>
    BY <1>4 DEF WorkerStart, WorkerCrash, Resubscribe, kept, confirmed, refused
  <2>2. QED
    BY <2>1, PromiseStep
<1>5. CASE Process
  <2>1. CASE HandleApplies \/ HandleFails
    <3>1. applied[work.cmd] = 0 /\ work.cmd \notin refused
      BY <1>0, <2>1 DEF HandleApplies, HandleFails, TokenInv, Pending, Handling, refused
    <3>2. UNCHANGED <<kept, delivered, confirmed, refused>>
      BY <2>1 DEF HandleApplies, HandleFails, kept, confirmed, refused
    <3>3. \E n \in 0..MaxEvents : emitted' = [emitted EXCEPT ![work.cmd] = n]
      <4>1. CASE HandleApplies
        BY <4>1 DEF HandleApplies
      <4>2. CASE HandleFails
        <5>1. emitted' = [emitted EXCEPT ![work.cmd] = emitted[work.cmd]]
          BY <1>0, <4>2 DEF HandleFails
        <5>2. QED
          BY <1>0, <5>1
      <4>3. QED
        BY <2>1, <4>1, <4>2
    <3>4. \/ applied' = [applied EXCEPT ![work.cmd] = 1]
          \/ UNCHANGED <<applied, emitted>>
      BY <1>0, <2>1, <3>1 DEF HandleApplies, HandleFails
    <3>5. QED
      BY <1>0, <3>1, <3>2, <3>3, <3>4, PromiseStep
  <2>2. CASE EnqueueRow \/ EnqueueFails
    <3>1. applied[work.cmd] = 1 /\ work.i \in 1..emitted[work.cmd]
      BY <1>0, <2>2 DEF EnqueueRow, EnqueueFails, WorkInv, TypeOK
    <3>2. Current \in Events /\ Current = <<work.cmd, work.i>>
      BY <1>0 DEF Current, Events
    <3>3. kept' = kept \cup {Current} \/ UNCHANGED kept
      BY <1>0, <2>2, <3>2 DEF EnqueueRow, EnqueueFails, InsertRow, kept
    <3>4. UNCHANGED <<applied, emitted, delivered, confirmed, refused>>
      BY <2>2 DEF EnqueueRow, EnqueueFails, confirmed, refused
    <3>5. QED
      BY <1>0, <3>1, <3>2, <3>3, <3>4, PromiseStep
  <2>3. CASE MarkNow \/ MarkNowFails
    <3>1. UNCHANGED kept
      BY <1>0, <2>3 DEF MarkNow, MarkNowFails, SetPublished, kept
    <3>2. UNCHANGED <<applied, emitted, delivered, confirmed, refused>>
      BY <2>3 DEF MarkNow, MarkNowFails, confirmed, refused
    <3>3. QED
      BY <3>1, <3>2, PromiseStep
  <2>4. CASE (\E c \in Commands : TakeCommand(c)) \/ HandleRejects \/ PublishNow \/ PublishNowFails
             \/ RecordAudit \/ RecordAuditFails
    <3>1. UNCHANGED <<applied, emitted, kept, delivered, confirmed, refused>>
      BY <2>4 DEF TakeCommand, HandleRejects, PublishNow, PublishNowFails, RecordAudit,
                  RecordAuditFails, kept, confirmed, refused
    <3>2. QED
      BY <3>1, PromiseStep
  <2>5. QED
    BY <1>5, <2>1, <2>2, <2>3, <2>4 DEF Process
<1>6. CASE Relay
  <2>1. UNCHANGED kept
    <3>1. CASE RelayMarks \/ RelayMarkFails
      BY <1>0, <3>1 DEF RelayMarks, RelayMarkFails, SetPublished, kept
    <3>2. CASE ~(RelayMarks \/ RelayMarkFails)
      BY <1>6, <3>2 DEF Relay, RelayReads, RelayPublishes, RelayFails, kept
    <3>3. QED
      BY <3>1, <3>2
  <2>2. UNCHANGED <<applied, emitted, delivered, confirmed, refused>>
    BY <1>6 DEF Relay, RelayReads, RelayPublishes, RelayFails, RelayMarks, RelayMarkFails,
                confirmed, refused
  <2>3. QED
    BY <2>1, <2>2, PromiseStep
<1>7. QED
  BY <1>1, <1>2, <1>3, <1>4, <1>5, <1>6 DEF Next

\* Every behaviour of the pipeline is one of ReliableDelivery.
THEOREM Refinement == Spec => ImplementsDelivery
<1>1. Init => Delivery!Init
  BY DEF Init, Delivery!Init, Delivery!vars
<1>2. QED
  BY <1>1, RefinementStep, Invariance, PTL DEF Spec, ImplementsDelivery, Delivery!Spec
=============================================================================
