---------------------------- MODULE CampaignDispatch ----------------------------
(***************************************************************************)
(* uhumarketing-api: the dispatch of WhatsApp campaigns of one workspace.  *)
(* The operator's requests, the worker's tick and Meta's webhooks run on   *)
(* goroutines of their own and meet in the tables campaigns, sends and     *)
(* contacts.  Each statement or transaction is one action, and so is a     *)
(* call to Meta.                                                           *)
(***************************************************************************)
EXTENDS Naturals, FiniteSetsExt

CONSTANTS
  NumCampaigns,  \* campaigns, numbered in the order they were created
  Contacts,
  Reviewed,      \* campaigns with requires_approval
  Workers,       \* instances of the worker, or Run and /dev/worker-tick
  BatchSize,     \* messages that the throttle lets through in one tick
  TestBatch,     \* messages that ClaimTestQueued takes at most
  MaxRequests,   \* bound: launches and tests the operator asks for
  MaxSaves,      \* bound: times the operator saves a campaign's status
  MaxHooks,      \* bound: message statuses that Meta delivers
  MaxReplies,    \* bound: replies other than opt-outs
  MaxClosings,   \* bound: times a window closes
  MaxFaults,     \* bound: database errors and crashes
  OneLaunch,     \* whether the operator launches or tests a campaign only once,
                 \* and resumes it only when no request is in flight
  HooksOverlap   \* whether Meta delivers a status before the last was answered

Campaigns == 1..NumCampaigns
Nothing == <<>>

ASSUME DispatchAssumption ==
  /\ NumCampaigns \in Nat /\ Reviewed \subseteq Campaigns
  /\ BatchSize \in Nat \ {0} /\ TestBatch \in Nat \ {0}
  /\ MaxRequests \in Nat /\ MaxSaves \in Nat /\ MaxHooks \in Nat
  /\ MaxReplies \in Nat /\ MaxClosings \in Nat /\ MaxFaults \in Nat
  /\ OneLaunch \in BOOLEAN /\ HooksOverlap \in BOOLEAN

\* UNIQUE (campaign_id, contact_id).
Sends == Campaigns \X Contacts
Requests == 1..MaxRequests
Hooks == 1..MaxHooks

VARIABLES
  (* tables *)
  status,     \* campaigns.status
  row,        \* sends.status, "none" where there is no row
  isTest,     \* sends.is_test
  external,   \* sends.external_id, 0 for ''
  newest,     \* the campaign of the newest row of a contact, 0 for none
  optIn,      \* contacts.opt_in and not opt_out_at
  (* the worker *)
  at,         \* at[w]: what comes next
  jobs,       \* jobs[w]: claimed and not delivered yet
  sending,    \* sending[w]: the job whose outcome is not marked yet
  message,    \* message[w]: the id Meta gave it, 0 when it failed
  drained,    \* drained[w]: campaigns it is about to finish
  (* requests and webhooks in flight *)
  request, hook,
  (* the world *)
  open,       \* open[c]: now is in the window of c
  messages,   \* messages Meta accepted
  budget,     \* what the bounds have left
  (* read by properties only *)
  accepted,   \* accepted[s]: messages Meta accepted for s
  tests,      \* tests[s]: tests of s that were answered as queued
  approved    \* campaigns whose flow was published

tables    == <<status, row, isTest, external, newest, optIn>>
worker    == <<at, jobs, sending, message, drained>>
history   == <<accepted, tests, approved>>
vars == <<tables, worker, request, hook, open, messages, budget, history>>

CampaignStatuses == {"draft", "running", "paused", "finished"}
SendStatuses == {"queued", "sent", "delivered", "read", "replied", "failed"}

\* StatusRank.
StatusRank(s) ==
  CASE s = "queued" -> 0 [] s = "sent" -> 1 [] s = "delivered" -> 2
    [] s = "read" -> 3 [] s = "replied" -> 4 [] s = "failed" -> 5

\* Fault variant: any status is news.
Advances_Always(current, next) == TRUE

Advances(current, next) ==
  current # "failed" /\ StatusRank(next) > StatusRank(current)

NoRequest == [step |-> "none"]
RequestsInFlight ==
  [step: {"enqueue"}, test: BOOLEAN, campaign: Campaigns, who: SUBSET Contacts]
    \cup [step: {"run"}, campaign: Campaigns]
NoHook == [step |-> "none"]
\* The statuses that Meta reports.
Reported == {"sent", "delivered", "read", "failed"}
HooksInFlight == [step: {"write"}, send: Sends, status: Reported]
Done == [step |-> "done"]

Budget == [saves: 0..MaxSaves, replies: 0..MaxReplies, closings: 0..MaxClosings,
           faults: 0..MaxFaults]

TablesOK ==
  /\ status \in [Campaigns -> CampaignStatuses]
  /\ row \in [Sends -> SendStatuses \cup {"none"}]
  /\ isTest \in [Sends -> BOOLEAN]
  /\ external \in [Sends -> 0..messages]
  /\ \A s \in Sends : row[s] = "none" => ~isTest[s] /\ external[s] = 0
  /\ newest \in [Contacts -> Campaigns \cup {0}]
  /\ \A k \in Contacts : newest[k] # 0 => row[<<newest[k], k>>] # "none"
  /\ optIn \in [Contacts -> BOOLEAN]

WorkersOK ==
  /\ at \in [Workers -> {"idle", "tests", "testing", "claim", "batch", "drain", "finish"}]
  /\ jobs \in [Workers -> SUBSET Sends]
  /\ \A w \in Workers : jobs[w] # {} => at[w] \in {"testing", "batch"}
  /\ sending \in [Workers -> Sends \cup {Nothing}]
  /\ message \in [Workers -> 0..messages]
  /\ drained \in [Workers -> SUBSET Campaigns]
  /\ \A w \in Workers : drained[w] # {} => at[w] = "finish"

FlightOK ==
  /\ request \in [Requests -> RequestsInFlight \cup {NoRequest, Done}]
  /\ hook \in [Hooks -> HooksInFlight \cup {NoHook, Done}]

WorldOK ==
  /\ open \in [Campaigns -> BOOLEAN]
  /\ messages \in Nat /\ budget \in Budget
  /\ accepted \in [Sends -> Nat] /\ tests \in [Sends -> 0..MaxRequests]
  /\ approved \in SUBSET Campaigns

TypeOK == TablesOK /\ WorkersOK /\ FlightOK /\ WorldOK

\* A workspace whose campaigns are drafts, and whose contacts all opted in.
Fresh ==
  /\ status = [c \in Campaigns |-> "draft"]
  /\ row = [s \in Sends |-> "none"] /\ isTest = [s \in Sends |-> FALSE]
  /\ external = [s \in Sends |-> 0]
  /\ newest = [k \in Contacts |-> 0] /\ optIn = [k \in Contacts |-> TRUE]
  /\ at = [w \in Workers |-> "idle"] /\ jobs = [w \in Workers |-> {}]
  /\ sending = [w \in Workers |-> Nothing] /\ message = [w \in Workers |-> 0]
  /\ drained = [w \in Workers |-> {}]
  /\ open \in [Campaigns -> BOOLEAN]
  /\ messages = 0
  /\ accepted = [s \in Sends |-> 0] /\ tests = [s \in Sends |-> 0] /\ approved = {}

Init ==
  /\ Fresh
  /\ request = [r \in Requests |-> NoRequest] /\ hook = [h \in Hooks |-> NoHook]
  /\ budget = [saves |-> MaxSaves, replies |-> MaxReplies, closings |-> MaxClosings,
               faults |-> MaxFaults]

Spend(what) == budget[what] > 0 /\ budget' = [budget EXCEPT ![what] = @ - 1]

-----------------------------------------------------------------------------
(* The operator.                                                           *)

\* CanReceiveMarketing.
Eligible == {k \in Contacts : optIn[k]}

NoneInFlight == \A r \in Requests : request[r].step \in {"none", "done"}

\* Fault variant: the campaign is set running before its rows are inserted.
Ask_RunsFirst(r, c, test, who) ==
  /\ request[r] = NoRequest
  /\ OneLaunch => status[c] = "draft" /\ NoneInFlight
  /\ status' = [status EXCEPT ![c] = "running"]
  /\ request' = [request EXCEPT ![r] =
                   [step |-> "enqueue", test |-> test, campaign |-> c, who |-> who]]
  /\ UNCHANGED <<row, isTest, external, newest, optIn, worker, hook, open, messages, budget,
                 history>>

\* Launch and TestSend up to their insert: the campaign, its approval and the
\* audience are read.  The template is approved and the channel active.
Ask(r, c, test, who) ==
  /\ request[r] = NoRequest
  /\ OneLaunch => status[c] = "draft" /\ NoneInFlight
  /\ request' = [request EXCEPT ![r] =
                   [step |-> "enqueue", test |-> test, campaign |-> c, who |-> who]]
  /\ UNCHANGED <<tables, worker, hook, open, messages, budget, history>>

\* Launch: everyone who may receive marketing.
Launch(r, c) ==
  /\ c \in Reviewed => status[c] # "draft"
  /\ Ask(r, c, FALSE, Eligible)

\* TestSend: the newest opt-in; which contact that is, is left open.
TestSend(r, c) == \E k \in Eligible : Ask(r, c, TRUE, {k})

Inserted(c, who, test) ==
  LET new == {s \in {c} \X who : row[s] = "none"} IN
    /\ row' = [s \in Sends |-> IF s \in new THEN "queued" ELSE row[s]]
    /\ isTest' = [s \in Sends |-> IF s \in new THEN test ELSE isTest[s]]
    /\ newest' = [k \in Contacts |-> IF <<c, k>> \in new THEN c ELSE newest[k]]

\* EnqueueSends: ON CONFLICT DO NOTHING.
EnqueueSends(r) ==
  /\ request[r].step = "enqueue" /\ ~request[r].test
  /\ Inserted(request[r].campaign, request[r].who, FALSE)
  /\ request' = [request EXCEPT ![r] = [step |-> "run", campaign |-> @.campaign]]
  /\ UNCHANGED <<status, external, optIn, worker, hook, open, messages, budget, history>>

\* Fault variant: a row is reused whatever it is.
Reusable_Any(s) == TRUE

\* The rows a test may put back in the queue: tests that ended.
Reusable(s) == isTest[s] /\ row[s] # "queued"

\* EnqueueTestSend: one row, new or reused, or a refusal.
EnqueueTestSend(r) ==
  /\ request[r].step = "enqueue" /\ request[r].test
  /\ \E k \in request[r].who : LET c == request[r].campaign s == <<c, k>> IN
       \/ /\ row[s] = "none"
          /\ Inserted(c, {k}, TRUE)
          /\ tests' = [tests EXCEPT ![s] = @ + 1]
          /\ request' = [request EXCEPT ![r] = [step |-> "run", campaign |-> c]]
          /\ UNCHANGED external
       \/ /\ row[s] # "none" /\ Reusable(s)
          /\ row' = [row EXCEPT ![s] = "queued"]
          /\ isTest' = [isTest EXCEPT ![s] = TRUE]
          /\ external' = [external EXCEPT ![s] = 0]
          /\ tests' = [tests EXCEPT ![s] = @ + 1]
          /\ request' = [request EXCEPT ![r] = [step |-> "run", campaign |-> c]]
          /\ UNCHANGED newest
       \/ /\ row[s] # "none" /\ ~Reusable(s)
          /\ request' = [request EXCEPT ![r] = Done]
          /\ UNCHANGED <<row, isTest, external, newest, tests>>
  /\ UNCHANGED <<status, optIn, worker, hook, open, messages, budget, accepted, approved>>

\* SetCampaignStatus, after the insert.
SetRunning(r) ==
  /\ request[r].step = "run"
  /\ status' = [status EXCEPT ![request[r].campaign] = "running"]
  /\ request' = [request EXCEPT ![r] = Done]
  /\ UNCHANGED <<row, isTest, external, newest, optIn, worker, hook, open, messages, budget,
                 history>>

\* An error of the database: 500, whatever was written before stays.
RequestFails(r) ==
  /\ request[r].step \in {"enqueue", "run"} /\ Spend("faults")
  /\ request' = [request EXCEPT ![r] = Done]
  /\ UNCHANGED <<tables, worker, hook, open, messages, history>>

\* PauseCampaign, ResumeCampaign, and UpdateCampaign, which writes the status
\* that the page had: the page of a flow that is published writes "running".
SaveCampaign(c, s) ==
  /\ Spend("saves")
  /\ OneLaunch /\ s = "running" => status[c] = "paused" /\ NoneInFlight
  /\ status' = [status EXCEPT ![c] = s]
  /\ approved' = IF s = "running" THEN approved \cup {c} ELSE approved
  /\ UNCHANGED <<row, isTest, external, newest, optIn, worker, request, hook, open, messages,
                 accepted, tests>>

Operator ==
  \/ \E r \in Requests, c \in Campaigns : Launch(r, c) \/ TestSend(r, c)
  \/ \E r \in Requests : EnqueueSends(r) \/ EnqueueTestSend(r) \/ SetRunning(r) \/ RequestFails(r)
  \/ \E c \in Campaigns, s \in {"running", "paused"} : SaveCampaign(c, s)

-----------------------------------------------------------------------------
(* The worker.                                                             *)

Goto(w, from, to) == at[w] = from /\ at' = [at EXCEPT ![w] = to]

Queued(c) == \E k \in Contacts : row[<<c, k>>] = "queued"

\* Tick: activeWorkspaces has this one, and it has a channel.
Tick(w) ==
  /\ \E c \in Campaigns : status[c] = "running"
  /\ Goto(w, "idle", "tests")
  /\ UNCHANGED <<tables, jobs, sending, message, drained, request, hook, open, messages, budget,
                 history>>

\* claim: as many queued rows of the workspace as the limit allows, oldest
\* first; the rows of one launch are equally old, and which go first is left
\* open.  They stay queued.
Claimable(test) == {s \in Sends : row[s] = "queued" /\ isTest[s] = test}

Claim(w, test, limit, batch) ==
  /\ batch \in kSubset(Min({limit, Cardinality(Claimable(test))}), Claimable(test))
  /\ jobs' = [jobs EXCEPT ![w] = batch]
  /\ UNCHANGED <<tables, sending, message, drained, request, hook, open, messages, budget, history>>

\* Fault variant: tests wait for the window too.
ClaimTestQueued_InWindow(w) ==
  /\ Goto(w, "tests", "testing")
  /\ jobs' = [jobs EXCEPT ![w] = {s \in Claimable(TRUE) : open[s[1]]}]
  /\ UNCHANGED <<tables, sending, message, drained, request, hook, open, messages, budget, history>>

ClaimTestQueued(w) ==
  /\ Goto(w, "tests", "testing")
  /\ \E batch \in SUBSET Sends : Claim(w, TRUE, TestBatch, batch)

\* Fault variant: when no campaign has a queue there is nothing to do.
NextCampaign_NoDrain(w) ==
  /\ jobs[w] = {} /\ sending[w] = Nothing
  /\ LET busy == {c \in Campaigns : status[c] = "running" /\ Queued(c)} IN
       Goto(w, "testing", IF busy # {} /\ open[Min(busy)] THEN "claim" ELSE "idle")
  /\ UNCHANGED <<tables, jobs, sending, message, drained, request, hook, open, messages, budget,
                 history>>

\* nextCampaign, and the window of the campaign it returns.
NextCampaign(w) ==
  /\ jobs[w] = {} /\ sending[w] = Nothing
  /\ LET busy == {c \in Campaigns : status[c] = "running" /\ Queued(c)} IN
       Goto(w, "testing", IF busy = {} THEN "drain" ELSE IF open[Min(busy)] THEN "claim" ELSE "idle")
  /\ UNCHANGED <<tables, jobs, sending, message, drained, request, hook, open, messages, budget,
                 history>>

\* ClaimQueued: rows of any campaign of the workspace.
ClaimQueued(w) ==
  \E batch \in SUBSET Sends :
    /\ Goto(w, "claim", IF batch = {} THEN "drain" ELSE "batch")
    /\ Claim(w, FALSE, BatchSize, batch)

\* deliver, the call: Meta takes the message.
SendTemplate(w, s) ==
  /\ s \in jobs[w] /\ sending[w] = Nothing
  /\ sending' = [sending EXCEPT ![w] = s]
  /\ jobs' = [jobs EXCEPT ![w] = @ \ {s}]
  /\ messages' = messages + 1
  /\ accepted' = [accepted EXCEPT ![s] = @ + 1]
  /\ message' = [message EXCEPT ![w] = messages + 1]
  /\ UNCHANGED <<tables, at, drained, request, hook, open, budget, tests, approved>>

\* deliver, the call: Meta takes the message, and the answer is lost or late.
SendUnanswered(w, s) ==
  /\ s \in jobs[w] /\ sending[w] = Nothing
  /\ sending' = [sending EXCEPT ![w] = s]
  /\ jobs' = [jobs EXCEPT ![w] = @ \ {s}]
  /\ messages' = messages + 1
  /\ accepted' = [accepted EXCEPT ![s] = @ + 1]
  /\ UNCHANGED <<tables, at, message, drained, request, hook, open, budget, tests, approved>>

\* deliver, the call: Meta refuses it.
SendRefused(w, s) ==
  /\ s \in jobs[w] /\ sending[w] = Nothing
  /\ sending' = [sending EXCEPT ![w] = s]
  /\ jobs' = [jobs EXCEPT ![w] = @ \ {s}]
  /\ UNCHANGED <<tables, at, message, drained, request, hook, open, messages, budget, history>>

Marked(w, value, id) ==
  /\ sending[w] # Nothing
  /\ row' = [row EXCEPT ![sending[w]] = value]
  /\ external' = [external EXCEPT ![sending[w]] = id]
  /\ sending' = [sending EXCEPT ![w] = Nothing]
  /\ message' = [message EXCEPT ![w] = 0]
  /\ UNCHANGED <<status, isTest, newest, optIn, at, jobs, drained, request, hook, open, messages,
                 budget, history>>

MarkSent(w) == message[w] # 0 /\ Marked(w, "sent", message[w])

\* The failure of one message is never the worker's.
MarkFailed(w) ==
  message[w] = 0 /\ sending[w] # Nothing /\ Marked(w, "failed", external[sending[w]])

\* An error of the database while marking: logged.
MarkError(w) ==
  /\ sending[w] # Nothing /\ Spend("faults")
  /\ sending' = [sending EXCEPT ![w] = Nothing]
  /\ message' = [message EXCEPT ![w] = 0]
  /\ UNCHANGED <<tables, at, jobs, drained, request, hook, open, messages, history>>

BatchDone(w) ==
  /\ jobs[w] = {} /\ sending[w] = Nothing
  /\ Goto(w, "batch", "idle")
  /\ UNCHANGED <<tables, jobs, sending, message, drained, request, hook, open, messages, budget,
                 history>>

Drained(c) == ~Queued(c)

\* finishDrained, the query.
FindDrained(w) ==
  /\ Goto(w, "drain", "finish")
  /\ drained' = [drained EXCEPT ![w] = {c \in Campaigns : status[c] = "running" /\ Drained(c)}]
  /\ UNCHANGED <<tables, jobs, sending, message, request, hook, open, messages, budget, history>>

\* finishDrained: one of them is finished.
Finish(w, c) ==
  /\ c \in drained[w]
  /\ drained' = [drained EXCEPT ![w] = @ \ {c}]
  /\ status' = [status EXCEPT ![c] = "finished"]
  /\ UNCHANGED <<row, isTest, external, newest, optIn, at, jobs, sending, message, request, hook,
                 open, messages, budget, history>>

\* finishDrained: an error is logged, and the next one is tried.
FinishError(w, c) ==
  /\ c \in drained[w] /\ Spend("faults")
  /\ drained' = [drained EXCEPT ![w] = @ \ {c}]
  /\ UNCHANGED <<tables, at, jobs, sending, message, request, hook, open, messages, history>>

\* Fault variant: the tick is over with campaigns left to finish.
FinishDone_Early(w) ==
  /\ Goto(w, "finish", "idle")
  /\ UNCHANGED <<tables, jobs, sending, message, drained, request, hook, open, messages, budget,
                 history>>

FinishDone(w) ==
  /\ drained[w] = {}
  /\ Goto(w, "finish", "idle")
  /\ UNCHANGED <<tables, jobs, sending, message, drained, request, hook, open, messages, budget,
                 history>>

\* A query or claim fails: the tick is over.
TickError(w) ==
  /\ \/ at[w] \in {"tests", "claim", "drain"}
     \/ at[w] = "testing" /\ jobs[w] = {} /\ sending[w] = Nothing
  /\ Spend("faults")
  /\ at' = [at EXCEPT ![w] = "idle"]
  /\ UNCHANGED <<tables, jobs, sending, message, drained, request, hook, open, messages, history>>

Work(w) ==
  \/ Tick(w) \/ ClaimTestQueued(w) \/ NextCampaign(w) \/ ClaimQueued(w)
  \/ \E s \in Sends : SendTemplate(w, s) \/ SendUnanswered(w, s) \/ SendRefused(w, s)
  \/ MarkSent(w) \/ MarkFailed(w) \/ BatchDone(w)
  \/ FindDrained(w) \/ (\E c \in Campaigns : Finish(w, c)) \/ FinishDone(w)

Fault(w) == MarkError(w) \/ TickError(w) \/ \E c \in Campaigns : FinishError(w, c)

\* The process ends with everything in flight, and is started again.
Crash ==
  /\ Spend("faults")
  /\ at' = [w \in Workers |-> "idle"] /\ jobs' = [w \in Workers |-> {}]
  /\ sending' = [w \in Workers |-> Nothing] /\ message' = [w \in Workers |-> 0]
  /\ drained' = [w \in Workers |-> {}]
  /\ request' = [r \in Requests |-> IF request[r] = NoRequest THEN NoRequest ELSE Done]
  /\ hook' = [h \in Hooks |-> IF hook[h] = NoHook THEN NoHook ELSE Done]
  /\ UNCHANGED <<tables, open, messages, history>>

-----------------------------------------------------------------------------
(* Meta's webhooks.                                                        *)

\* ApplyMessageStatus, its query: a status of a message that some row has,
\* and that is news to it.
ReadStatus(h, s, news) ==
  /\ hook[h] = NoHook /\ external[s] # 0
  /\ HooksOverlap \/ \A g \in Hooks : hook[g].step # "write"
  /\ hook' = [hook EXCEPT ![h] = IF Advances(row[s], news)
                                 THEN [step |-> "write", send |-> s, status |-> news] ELSE Done]
  /\ UNCHANGED <<tables, worker, request, open, messages, budget, history>>

\* ApplyMessageStatus, its update: by the id of the row.
WriteStatus(h) ==
  /\ hook[h].step = "write"
  /\ row' = [row EXCEPT ![hook[h].send] = hook[h].status]
  /\ hook' = [hook EXCEPT ![h] = Done]
  /\ UNCHANGED <<status, isTest, external, newest, optIn, worker, request, open, messages, budget,
                 history>>

\* applyInbound: the contact asks for no more.
OptOut(k) ==
  /\ optIn[k]
  /\ optIn' = [optIn EXCEPT ![k] = FALSE]
  /\ UNCHANGED <<status, row, isTest, external, newest, worker, request, hook, open, messages,
                 budget, history>>

\* applyInbound: MarkRepliedByPhone, the newest row of the contact.
Reply(k) ==
  /\ newest[k] # 0 /\ Spend("replies")
  /\ row' = [row EXCEPT ![<<newest[k], k>>] = "replied"]
  /\ UNCHANGED <<status, isTest, external, newest, optIn, worker, request, hook, open, messages,
                 history>>

Webhook ==
  \/ \E h \in Hooks, s \in Sends, news \in Reported : ReadStatus(h, s, news)
  \/ \E h \in Hooks : WriteStatus(h)
  \/ \E k \in Contacts : OptOut(k) \/ Reply(k)

-----------------------------------------------------------------------------
(* The clock, against the window of each campaign.                         *)

Opens(c) ==
  /\ ~open[c] /\ open' = [open EXCEPT ![c] = TRUE]
  /\ UNCHANGED <<tables, worker, request, hook, messages, budget, history>>

Closes(c) ==
  /\ open[c] /\ Spend("closings")
  /\ open' = [open EXCEPT ![c] = FALSE]
  /\ UNCHANGED <<tables, worker, request, hook, messages, history>>

Next ==
  \/ Operator \/ Webhook \/ Crash
  \/ \E w \in Workers : Work(w) \/ Fault(w)
  \/ \E c \in Campaigns : Opens(c) \/ Closes(c)

Spec == Init /\ [][Next]_vars

\* The worker's goroutine ticks for ever, and its calls have deadlines.
Fairness == \A w \in Workers : WF_vars(Work(w))

FairSpec == Spec /\ Fairness

-----------------------------------------------------------------------------
(* Safety.                                                                 *)

Ordered(s) == IF isTest[s] THEN tests[s] ELSE 1
FaultsSeen == MaxFaults - budget.faults

\* A contact gets one message of a campaign, or as many tests of it as were
\* asked for, and one more for each crash and each error that hid a message
\* that was sent.
SentAsOrdered == \A s \in Sends : accepted[s] <= Ordered(s) + FaultsSeen

\* A finished campaign has an empty queue.
FinishedIsDrained == \A c \in Campaigns : status[c] = "finished" => ~Queued(c)

\* What is known of a message never goes back: row s only moves forward, in a
\* step that asks for nothing new of it.
MovesForward(s) ==
  row[s] # "none" /\ row'[s] # row[s] /\ tests'[s] = tests[s]
    => StatusRank(row'[s]) > StatusRank(row[s])

NeverRegresses == [][\A s \in Sends : MovesForward(s)]_vars

\* A row that was used once, and that no reply has overtaken, only moves
\* forward, when Meta delivers its statuses one at a time.
OnceNeverRegresses ==
  [][\A s \in Sends :
       tests'[s] <= 1 /\ "replied" \notin {row[s], row'[s]} => MovesForward(s)]_vars

(* Liveness.                                                               *)

Waits(s) == row[s] = "queued" /\ status[s[1]] = "running"

\* A queued message of a running campaign is processed, unless the campaign
\* stops: a test whatever the windows, and every other once they stay open.
QueuedIsSent ==
  /\ \A s \in Sends : Waits(s) /\ isTest[s] ~> ~Waits(s)
  /\ (\A c \in Campaigns : <>[]open[c]) => \A s \in Sends : Waits(s) ~> ~Waits(s)

\* A running campaign whose queue is empty is finished, once no window keeps
\* another one waiting.
DrainedIsFinished ==
  (\A c \in Campaigns : <>[]open[c]) => \A c \in Campaigns :
    status[c] = "running" /\ ~Queued(c) ~> status[c] # "running" \/ Queued(c)

(* What the comments say and the code does not do.                         *)

\* What worker w claims of campaign messages, in a step.
NewJobs(w) == {s \in jobs'[w] \ jobs[w] : ~isTest[s]}

\* "A fila para de sair até ser retomada."
PausedIsNotClaimed == [][\A w \in Workers : \A s \in NewJobs(w) : status[s[1]] # "paused"]_vars

\* "O worker não manda fora da janela da campanha".
WindowIsHeeded == [][\A w \in Workers : \A s \in NewJobs(w) : open[s[1]]]_vars

\* "é a única porta de entrada para um disparo".
OptedOutIsNotClaimed == [][\A w \in Workers : \A s \in NewJobs(w) : optIn[s[2]]]_vars

\* "esta campanha exige aprovação humana".
LaunchedWasApproved ==
  \A s \in Sends : row[s] # "none" /\ ~isTest[s] /\ s[1] \in Reviewed => s[1] \in approved
=============================================================================
