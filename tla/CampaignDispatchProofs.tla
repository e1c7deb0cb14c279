------------------------ MODULE CampaignDispatchProofs ------------------------
(***************************************************************************)
(* CampaignDispatch for every number of campaigns, contacts, requests and  *)
(* webhooks.                                                               *)
(***************************************************************************)
EXTENDS CampaignDispatch, FiniteSetTheorems, TLAPS

\* The requests whose rows are in the table, or that were refused.
Inserting == {r \in Requests : request[r].step \in {"run", "done"}}

\* A row has at most one test for each of them.
TestsAreCounted == \A s \in Sends : tests[s] <= Cardinality(Inserting)

TypeInv == TypeOK /\ TestsAreCounted

-----------------------------------------------------------------------------
(* Types.                                                                    *)

LEMMA RequestFields ==
  ASSUME FlightOK, NEW r \in Requests
  PROVE  /\ request[r].step = "enqueue" => /\ request[r].test \in BOOLEAN
                                           /\ request[r].campaign \in Campaigns
                                           /\ request[r].who \in SUBSET Contacts
         /\ request[r].step = "run" => request[r].campaign \in Campaigns
BY DEF FlightOK, RequestsInFlight, NoRequest, Done

LEMMA HookFields ==
  ASSUME FlightOK, NEW h \in Hooks, hook[h].step = "write"
  PROVE  hook[h].send \in Sends /\ hook[h].status \in Reported
BY DEF FlightOK, HooksInFlight, NoHook, Done

LEMMA RequestsAreTyped ==
  /\ \A c \in Campaigns, who \in SUBSET Contacts, test \in BOOLEAN :
       [step |-> "enqueue", test |-> test, campaign |-> c, who |-> who] \in RequestsInFlight
  /\ \A c \in Campaigns : [step |-> "run", campaign |-> c] \in RequestsInFlight
BY DEF RequestsInFlight

LEMMA SpendIsTyped ==
  ASSUME budget \in Budget, NEW what \in {"saves", "replies", "closings", "faults"}, Spend(what)
  PROVE  budget' \in Budget
BY DispatchAssumption DEF DispatchAssumption, Budget, Spend

\* A claim takes queued rows.
LEMMA ClaimTakesQueued ==
  ASSUME NEW w \in Workers, NEW test, NEW limit, NEW batch, Claim(w, test, limit, batch)
  PROVE  /\ batch \subseteq Claimable(test)
         /\ jobs' = [jobs EXCEPT ![w] = batch]
         /\ UNCHANGED <<tables, sending, message, drained, request, hook, open, messages, budget,
                        history>>
BY DEF Claim, kSubset

LEMMA InsertedRows ==
  ASSUME TablesOK, NEW c \in Campaigns, NEW who \in SUBSET Contacts, NEW test \in BOOLEAN,
         Inserted(c, who, test)
  PROVE  /\ row' \in [Sends -> SendStatuses \cup {"none"}]
         /\ isTest' \in [Sends -> BOOLEAN]
         /\ newest' \in [Contacts -> Campaigns \cup {0}]
         /\ \A k \in Contacts : \/ newest'[k] = newest[k]
                                \/ newest'[k] = c /\ row'[<<c, k>>] = "queued"
<1> DEFINE new == {s \in {c} \X who : row[s] = "none"}
<1>1. new \subseteq Sends
  BY DEF Sends
<1>2. /\ row' = [s \in Sends |-> IF s \in new THEN "queued" ELSE row[s]]
      /\ isTest' = [s \in Sends |-> IF s \in new THEN test ELSE isTest[s]]
      /\ newest' = [k \in Contacts |-> IF <<c, k>> \in new THEN c ELSE newest[k]]
  BY DEF Inserted
<1> HIDE DEF new
<1> QED BY <1>1, <1>2 DEF TablesOK, SendStatuses

\* What an insert does to a row.
LEMMA InsertedSends ==
  ASSUME TablesOK, NEW c \in Campaigns, NEW who \in SUBSET Contacts, NEW test \in BOOLEAN,
         Inserted(c, who, test), NEW s \in Sends
  PROVE  \/ row'[s] = row[s] /\ isTest'[s] = isTest[s]
         \/ /\ row[s] = "none" /\ row'[s] = "queued" /\ isTest'[s] = test
            /\ s[1] = c /\ s[2] \in who
<1> DEFINE new == {q \in {c} \X who : row[q] = "none"}
<1>1. /\ row' = [q \in Sends |-> IF q \in new THEN "queued" ELSE row[q]]
      /\ isTest' = [q \in Sends |-> IF q \in new THEN test ELSE isTest[q]]
  BY DEF Inserted
<1>2. \A q \in new : row[q] = "none" /\ q[1] = c /\ q[2] \in who
  OBVIOUS
<1> HIDE DEF new
<1> QED BY <1>1, <1>2

\* The rows of another campaign stay.
LEMMA OthersKeepRows ==
  ASSUME TablesOK, NEW c \in Campaigns, NEW who \in SUBSET Contacts, NEW test \in BOOLEAN,
         Inserted(c, who, test)
  PROVE  \A s \in Sends : s[1] # c => row'[s] = row[s]
BY InsertedSends

LEMMA InsertedIsTyped ==
  ASSUME TablesOK, NEW c \in Campaigns, NEW who \in SUBSET Contacts, NEW test \in BOOLEAN,
         Inserted(c, who, test), UNCHANGED <<status, external, optIn, messages>>
  PROVE  TablesOK'
<1>1. /\ row' \in [Sends -> SendStatuses \cup {"none"}]
      /\ isTest' \in [Sends -> BOOLEAN]
      /\ newest' \in [Contacts -> Campaigns \cup {0}]
  BY InsertedRows
<1>2. \A s \in Sends : row'[s] = "none" => ~isTest'[s] /\ external'[s] = 0
  <2> TAKE s \in Sends
  <2>1. \/ row'[s] = row[s] /\ isTest'[s] = isTest[s]
        \/ row[s] = "none" /\ row'[s] = "queued"
    BY InsertedSends
  <2> QED BY <2>1 DEF TablesOK
<1>3. \A k \in Contacts : newest'[k] # 0 => row'[<<newest'[k], k>>] # "none"
  <2> SUFFICES ASSUME NEW k \in Contacts, newest'[k] # 0 PROVE row'[<<newest'[k], k>>] # "none"
    OBVIOUS
  <2>1. CASE newest'[k] = newest[k]
    <3>1. <<newest[k], k>> \in Sends /\ row[<<newest[k], k>>] # "none"
      BY <2>1 DEF TablesOK, Sends
    <3>2. \A s \in Sends : row'[s] \in {row[s], "queued"}
      BY InsertedSends
    <3> QED BY <2>1, <3>1, <3>2
  <2>2. CASE newest'[k] = c /\ row'[<<c, k>>] = "queued"
    BY <2>2
  <2> QED BY <2>1, <2>2, InsertedRows
<1> QED BY <1>1, <1>2, <1>3 DEF TablesOK

LEMMA InitIsTyped == Init => TypeInv
<1> SUFFICES ASSUME Init PROVE TypeInv
  OBVIOUS
<1> USE DispatchAssumption DEF DispatchAssumption, Init, Fresh
<1>1. TablesOK
  BY DEF TablesOK, CampaignStatuses, SendStatuses
<1>2. WorkersOK
  BY DEF WorkersOK
<1>3. FlightOK
  BY DEF FlightOK
<1>4. WorldOK
  BY DEF WorldOK, Budget
<1>5. Inserting = {}
  BY DEF Inserting, NoRequest
<1>6. TestsAreCounted
  BY <1>5, FS_EmptySet DEF TestsAreCounted
<1> QED BY <1>1, <1>2, <1>3, <1>4, <1>6 DEF TypeInv, TypeOK

\* The operator's steps, up to the count of the tests.
LEMMA OperatorIsTyped ==
  ASSUME TypeOK, Operator,
         \A s \in Sends : tests'[s] # tests[s] => tests[s] < MaxRequests
  PROVE  TypeOK'
<1> USE DispatchAssumption DEF DispatchAssumption
<1>1. ASSUME NEW r \in Requests, NEW c \in Campaigns, Launch(r, c) \/ TestSend(r, c) PROVE TypeOK'
  <2>1. PICK test \in BOOLEAN, who \in SUBSET Contacts : Ask(r, c, test, who)
    BY <1>1 DEF Launch, TestSend, Eligible
  <2>2. request' \in [Requests -> RequestsInFlight \cup {NoRequest, Done}]
    BY <2>1, RequestsAreTyped DEF Ask, TypeOK, FlightOK
  <2> QED BY <2>1, <2>2
          DEF Ask, TypeOK, TablesOK, WorkersOK, FlightOK, WorldOK, tables, worker, history
<1>2. ASSUME NEW r \in Requests, EnqueueSends(r) PROVE TypeOK'
  <2> DEFINE c == request[r].campaign
  <2>1. /\ c \in Campaigns /\ request[r].who \in SUBSET Contacts
        /\ Inserted(c, request[r].who, FALSE)
    BY <1>2, RequestFields DEF EnqueueSends, TypeOK
  <2>2. request' \in [Requests -> RequestsInFlight \cup {NoRequest, Done}]
    BY <1>2, <2>1, RequestsAreTyped DEF EnqueueSends, TypeOK, FlightOK
  <2>3. TablesOK'
    BY <1>2, <2>1, InsertedIsTyped DEF EnqueueSends, TypeOK
  <2> QED BY <1>2, <2>2, <2>3
          DEF EnqueueSends, TypeOK, WorkersOK, FlightOK, WorldOK, worker, history
<1>3. ASSUME NEW r \in Requests, EnqueueTestSend(r) PROVE TypeOK'
  <2>1. PICK k \in request[r].who : LET c == request[r].campaign s == <<c, k>> IN
       \/ /\ row[s] = "none"
          /\ Inserted(c, {k}, TRUE)
          /\ tests' = [tests EXCEPT ![s] = @ + 1]
          /\ request' = [request EXCEPT ![r] = [step |-> "run", campaign |-> c]]
          /\ UNCHANGED external
       \/ /\ row[s] # "none" /\ Reusable(s)
          /\ row' = [row EXCEPT ![s] = "queued"]
          /\ isTest' = [isTest EXCEPT ![s] = TRUE]
          /\ external' = [external EXCEPT ![s] = 0]
          /\ tests' = [tests EXCEPT ![s] = @ + 1]
          /\ request' = [request EXCEPT ![r] = [step |-> "run", campaign |-> c]]
          /\ UNCHANGED newest
       \/ /\ row[s] # "none" /\ ~Reusable(s)
          /\ request' = [request EXCEPT ![r] = Done]
          /\ UNCHANGED <<row, isTest, external, newest, tests>>
    BY <1>3 DEF EnqueueTestSend
  <2> DEFINE c == request[r].campaign
             s == <<c, k>>
  <2>2. c \in Campaigns /\ k \in Contacts /\ s \in Sends /\ {k} \in SUBSET Contacts
    BY <1>3, <2>1, RequestFields DEF EnqueueTestSend, TypeOK, Sends
  <2>3. request' \in [Requests -> RequestsInFlight \cup {NoRequest, Done}]
    BY <2>1, <2>2, RequestsAreTyped DEF TypeOK, FlightOK
  <2>4. UNCHANGED <<status, optIn, worker, hook, open, messages, budget, accepted, approved>>
    BY <1>3 DEF EnqueueTestSend
  <2> HIDE DEF c
  <2>5. WorkersOK' /\ FlightOK'
    BY <2>3, <2>4 DEF TypeOK, WorkersOK, FlightOK, worker
  <2>6. tests' \in [Sends -> 0..MaxRequests]
    <3>1. CASE UNCHANGED tests
      BY <3>1 DEF TypeOK, WorldOK
    <3>2. CASE tests' = [tests EXCEPT ![s] = @ + 1]
      <4>1. tests[s] \in 0..MaxRequests /\ tests'[s] = tests[s] + 1
        BY <2>2, <3>2 DEF TypeOK, WorldOK
      <4>2. tests[s] + 1 \in 0..MaxRequests
        BY <2>2, <4>1
      <4> QED BY <2>2, <3>2, <4>2 DEF TypeOK, WorldOK
    <3> QED BY <2>1, <3>1, <3>2 DEF c
  <2>7. WorldOK'
    BY <2>4, <2>6 DEF TypeOK, WorldOK
  <2>8. TablesOK'
    <3>1. CASE row[s] = "none" /\ Inserted(c, {k}, TRUE) /\ UNCHANGED external
      BY <2>2, <2>4, <3>1, InsertedIsTyped DEF TypeOK
    <3>2. CASE /\ row' = [row EXCEPT ![s] = "queued"]
               /\ isTest' = [isTest EXCEPT ![s] = TRUE]
               /\ external' = [external EXCEPT ![s] = 0]
               /\ UNCHANGED newest
      BY <2>2, <2>4, <3>2 DEF TypeOK, WorldOK, TablesOK, SendStatuses
    <3>3. CASE UNCHANGED <<row, isTest, external, newest>>
      BY <2>4, <3>3 DEF TypeOK, TablesOK
    <3> QED BY <2>1, <3>1, <3>2, <3>3 DEF c
  <2> QED BY <2>5, <2>7, <2>8 DEF TypeOK
<1>4. ASSUME NEW r \in Requests, SetRunning(r) PROVE TypeOK'
  BY <1>4, RequestFields
  DEF SetRunning, TypeOK, TablesOK, WorkersOK, FlightOK, WorldOK, worker, history, CampaignStatuses
<1>5. ASSUME NEW r \in Requests, RequestFails(r) PROVE TypeOK'
  BY <1>5, SpendIsTyped
  DEF RequestFails, TypeOK, TablesOK, WorkersOK, FlightOK, WorldOK, tables, worker, history
<1>6. ASSUME NEW c \in Campaigns, NEW s \in {"running", "paused"}, SaveCampaign(c, s) PROVE TypeOK'
  BY <1>6, SpendIsTyped
  DEF SaveCampaign, TypeOK, TablesOK, WorkersOK, FlightOK, WorldOK, worker, CampaignStatuses
<1> QED BY <1>1, <1>2, <1>3, <1>4, <1>5, <1>6 DEF Operator

\* Where a worker is, and what it holds there.
LEMMA WorkIsTyped ==
  ASSUME TypeOK, NEW w \in Workers, Work(w)
  PROVE  TypeOK'
<1> USE DEF TypeOK, WorkersOK, Goto
<1>1. CASE \/ Tick(w) \/ ClaimTestQueued(w) \/ NextCampaign(w) \/ ClaimQueued(w) \/ BatchDone(w)
           \/ FindDrained(w) \/ FinishDone(w)
  <2>1. UNCHANGED <<tables, sending, message, request, hook, open, messages, budget, history>>
    BY <1>1, ClaimTakesQueued
    DEF Tick, ClaimTestQueued, NextCampaign, ClaimQueued, Claim, BatchDone, FindDrained, FinishDone
  <2>2. TablesOK' /\ FlightOK' /\ WorldOK'
    BY <2>1 DEF TablesOK, FlightOK, WorldOK, tables, history
  <2>3. WorkersOK'
    <3>1. CASE Tick(w) \/ NextCampaign(w) \/ BatchDone(w) \/ FinishDone(w)
      BY <3>1 DEF Tick, NextCampaign, BatchDone, FinishDone
    <3>2. CASE ClaimTestQueued(w)
      <4>1. PICK batch : Claim(w, TRUE, TestBatch, batch)
        BY <3>2 DEF ClaimTestQueued
      <4>2. batch \subseteq Sends
        BY <4>1, ClaimTakesQueued DEF Claimable
      <4> QED BY <3>2, <4>1, <4>2 DEF ClaimTestQueued, Claim
    <3>3. CASE ClaimQueued(w)
      <4>1. PICK batch : /\ Goto(w, "claim", IF batch = {} THEN "drain" ELSE "batch")
                         /\ Claim(w, FALSE, BatchSize, batch)
        BY <3>3 DEF ClaimQueued
      <4>2. batch \subseteq Sends
        BY <4>1, ClaimTakesQueued DEF Claimable
      <4> QED BY <4>1, <4>2 DEF Claim
    <3>4. CASE FindDrained(w)
      BY <3>4 DEF FindDrained
    <3> QED BY <1>1, <3>1, <3>2, <3>3, <3>4
  <2> QED BY <2>2, <2>3
<1>2. ASSUME NEW s \in Sends, SendTemplate(w, s) \/ SendUnanswered(w, s) PROVE TypeOK'
  <2>1. /\ messages' = messages + 1 /\ messages \in Nat
        /\ UNCHANGED <<tables, request, hook, open, budget, tests, approved>>
        /\ accepted' = [accepted EXCEPT ![s] = @ + 1]
    BY <1>2 DEF SendTemplate, SendUnanswered, WorldOK
  <2>2. \A n \in 0..messages : n \in 0..messages'
    BY <2>1
  <2>3. messages + 1 \in 0..messages'
    BY <2>1
  <2>4. TablesOK'
    BY <2>1, <2>2 DEF TablesOK, tables
  <2>5. FlightOK' /\ WorldOK'
    BY <2>1 DEF FlightOK, WorldOK
  <2>6. message' \in [Workers -> 0..messages']
    BY <1>2, <2>2, <2>3 DEF SendTemplate, SendUnanswered
  <2>7. WorkersOK'
    BY <1>2, <2>6 DEF SendTemplate, SendUnanswered
  <2> QED BY <2>4, <2>5, <2>7
<1>3. ASSUME NEW s \in Sends, SendRefused(w, s) PROVE TypeOK'
  BY <1>3 DEF SendRefused, TablesOK, FlightOK, WorldOK, tables, history
<1>4. ASSUME NEW value \in {"sent", "failed"}, NEW id \in 0..messages, Marked(w, value, id)
      PROVE  TypeOK'
  <2>1. sending[w] \in Sends
    BY <1>4 DEF Marked
  <2>2. TablesOK'
    BY <1>4, <2>1 DEF Marked, TablesOK, SendStatuses
  <2>3. WorkersOK' /\ FlightOK' /\ WorldOK'
    BY <1>4 DEF Marked, FlightOK, WorldOK, history
  <2> QED BY <2>2, <2>3
<1>5. CASE MarkSent(w) \/ MarkFailed(w)
  <2>1. CASE MarkSent(w)
    BY <2>1, <1>4 DEF MarkSent
  <2>2. CASE MarkFailed(w)
    <3>1. sending[w] \in Sends /\ external[sending[w]] \in 0..messages
      BY <2>2 DEF MarkFailed, TablesOK
    <3> QED BY <2>2, <3>1, <1>4 DEF MarkFailed
  <2> QED BY <1>5, <2>1, <2>2
<1>6. ASSUME NEW c \in Campaigns, Finish(w, c) PROVE TypeOK'
  BY <1>6 DEF Finish, TablesOK, FlightOK, WorldOK, history, CampaignStatuses
<1> QED BY <1>1, <1>2, <1>3, <1>5, <1>6 DEF Work

LEMMA FaultIsTyped ==
  ASSUME TypeOK, NEW w \in Workers, Fault(w)
  PROVE  TypeOK'
<1> USE SpendIsTyped DEF TypeOK, WorkersOK, FlightOK, WorldOK, TablesOK, tables, history
<1>1. budget' \in Budget
  BY DEF Fault, MarkError, TickError, FinishError
<1>2. CASE MarkError(w)
  BY <1>1, <1>2 DEF MarkError
<1>3. CASE TickError(w)
  BY <1>1, <1>3 DEF TickError
<1>4. ASSUME NEW c \in Campaigns, FinishError(w, c) PROVE TypeOK'
  BY <1>1, <1>4 DEF FinishError
<1> QED BY <1>2, <1>3, <1>4 DEF Fault

LEMMA WebhookIsTyped == TypeOK /\ Webhook => TypeOK'
<1> SUFFICES ASSUME TypeOK, Webhook PROVE TypeOK'
  OBVIOUS
<1> USE DEF TypeOK, WorkersOK, worker, history
<1>1. ASSUME NEW h \in Hooks, NEW s \in Sends, NEW news \in Reported, ReadStatus(h, s, news)
      PROVE  TypeOK'
  <2>1. [step |-> "write", send |-> s, status |-> news] \in HooksInFlight
    BY DEF HooksInFlight
  <2>2. FlightOK'
    BY <1>1, <2>1 DEF ReadStatus, FlightOK
  <2> QED BY <1>1, <2>2 DEF ReadStatus, TablesOK, WorldOK, tables
<1>2. ASSUME NEW h \in Hooks, WriteStatus(h) PROVE TypeOK'
  <2>1. hook[h].send \in Sends /\ hook[h].status \in Reported
    BY <1>2, HookFields DEF WriteStatus
  <2>2. TablesOK'
    BY <1>2, <2>1 DEF WriteStatus, TablesOK, SendStatuses, Reported
  <2>3. FlightOK'
    BY <1>2 DEF WriteStatus, FlightOK
  <2> QED BY <1>2, <2>2, <2>3 DEF WriteStatus, WorldOK
<1>3. ASSUME NEW k \in Contacts, OptOut(k) PROVE TypeOK'
  BY <1>3 DEF OptOut, TablesOK, FlightOK, WorldOK
<1>4. ASSUME NEW k \in Contacts, Reply(k) PROVE TypeOK'
  <2>1. newest[k] \in Campaigns /\ <<newest[k], k>> \in Sends
    BY <1>4 DEF Reply, TablesOK, Sends
  <2>2. row' \in [Sends -> SendStatuses \cup {"none"}]
        /\ \A s \in Sends : row'[s] = "none" => row[s] = "none"
    BY <1>4 DEF Reply, TablesOK, SendStatuses
  <2>3. \A j \in Contacts : newest[j] # 0 => <<newest[j], j>> \in Sends
    BY DEF TablesOK, Sends
  <2>4. TablesOK'
    BY <1>4, <2>2, <2>3 DEF Reply, TablesOK
  <2> QED BY <1>4, <2>4, SpendIsTyped DEF Reply, FlightOK, WorldOK
<1> QED BY <1>1, <1>2, <1>3, <1>4 DEF Webhook

LEMMA OthersAreTyped ==
  ASSUME TypeOK, Crash \/ \E c \in Campaigns : Opens(c) \/ Closes(c)
  PROVE  TypeOK'
<1> USE SpendIsTyped DEF TypeOK, TablesOK, WorkersOK, FlightOK, WorldOK, tables, worker, history
<1>1. CASE Crash
  BY <1>1 DEF Crash
<1>2. ASSUME NEW c \in Campaigns, Opens(c) \/ Closes(c) PROVE TypeOK'
  <2>1. CASE Opens(c)
    BY <2>1 DEF Opens
  <2>2. CASE Closes(c)
    BY <2>2 DEF Closes
  <2> QED BY <1>2, <2>1, <2>2
<1> QED BY <1>1, <1>2

\* A request is never taken back, and each one asks for one test.
LEMMA TestsStayCounted ==
  ASSUME TypeInv, [Next]_vars
  PROVE  /\ \A s \in Sends : tests'[s] <= Cardinality(Inserting')
         /\ \A s \in Sends : tests'[s] # tests[s] => tests[s] < MaxRequests
<1> USE DEF TypeInv, TypeOK
<1>1. /\ IsFiniteSet(Requests) /\ Cardinality(Requests) = MaxRequests
      /\ Inserting \subseteq Requests /\ Inserting' \subseteq Requests
  BY DispatchAssumption, FS_Interval DEF DispatchAssumption, Requests, Inserting
<1>2. /\ IsFiniteSet(Inserting) /\ IsFiniteSet(Inserting')
      /\ Cardinality(Inserting) \in Nat /\ Cardinality(Inserting') \in Nat
  BY <1>1, FS_Subset, FS_CardinalityType
<1>3. ASSUME Inserting \subseteq Inserting', UNCHANGED tests
      PROVE  \A s \in Sends : tests'[s] <= Cardinality(Inserting')
  <2>1. Cardinality(Inserting) <= Cardinality(Inserting')
    BY <1>2, <1>3, FS_Subset
  <2> QED BY <1>2, <1>3, <2>1 DEF TestsAreCounted, WorldOK
<1>a. ASSUME NEW r \in Requests, NEW c,
             \/ request' = [request EXCEPT ![r] = [step |-> "run", campaign |-> c]]
             \/ request' = [request EXCEPT ![r] = Done]
      PROVE  Inserting \cup {r} \subseteq Inserting'
  <2>1. CASE request' = [request EXCEPT ![r] = [step |-> "run", campaign |-> c]]
    BY <2>1 DEF FlightOK, Inserting
  <2>2. CASE request' = [request EXCEPT ![r] = Done]
    BY <2>2 DEF FlightOK, Inserting, Done
  <2> QED BY <1>a, <2>1, <2>2
<1>4. ASSUME NEW r \in Requests, EnqueueTestSend(r)
      PROVE  /\ \A s \in Sends : tests'[s] <= Cardinality(Inserting')
             /\ \A s \in Sends : tests[s] < MaxRequests
  <2>1. r \notin Inserting
    BY <1>4 DEF EnqueueTestSend, Inserting
  <2>2. Inserting \cup {r} \subseteq Inserting'
    <3>1. \/ request' = [request EXCEPT ![r] = [step |-> "run", campaign |-> request[r].campaign]]
          \/ request' = [request EXCEPT ![r] = Done]
      BY <1>4 DEF EnqueueTestSend
    <3> QED BY <3>1, <1>a
  <2>3. /\ Cardinality(Inserting \cup {r}) = Cardinality(Inserting) + 1
        /\ IsFiniteSet(Inserting \cup {r})
    BY <1>2, <2>1, FS_AddElement
  <2>4. /\ Cardinality(Inserting) + 1 <= Cardinality(Inserting')
        /\ Cardinality(Inserting) + 1 <= MaxRequests
    BY <1>1, <1>2, <2>2, <2>3, FS_Subset
  <2>5. \A s \in Sends : tests'[s] <= tests[s] + 1
    <3>1. PICK k \in request[r].who :
             LET s == <<request[r].campaign, k>>
             IN  UNCHANGED tests \/ tests' = [tests EXCEPT ![s] = @ + 1]
      BY <1>4 DEF EnqueueTestSend
    <3> QED BY <3>1 DEF WorldOK
  <2>6. \A s \in Sends : tests[s] \in Nat /\ tests'[s] \in Nat
    <3>1. PICK k \in request[r].who :
             LET s == <<request[r].campaign, k>>
             IN  UNCHANGED tests \/ tests' = [tests EXCEPT ![s] = @ + 1]
      BY <1>4 DEF EnqueueTestSend
    <3> QED BY <3>1 DEF WorldOK
  <2> QED BY <1>2, <2>4, <2>5, <2>6, DispatchAssumption DEF TestsAreCounted, DispatchAssumption
<1>5. CASE \E r \in Requests, c \in Campaigns : Launch(r, c) \/ TestSend(r, c)
  <2>1. PICK r \in Requests, c \in Campaigns, test \in BOOLEAN, who \in SUBSET Contacts :
          Ask(r, c, test, who)
    BY <1>5 DEF Launch, TestSend, Eligible
  <2>2. Inserting \subseteq Inserting' /\ UNCHANGED tests
    BY <2>1 DEF Ask, Inserting, NoRequest, FlightOK, history
  <2> QED BY <1>3, <2>2
<1>6. CASE \E r \in Requests : EnqueueSends(r) \/ SetRunning(r) \/ RequestFails(r)
  <2>1. Inserting \subseteq Inserting' /\ UNCHANGED tests
    <3>1. PICK r \in Requests : EnqueueSends(r) \/ SetRunning(r) \/ RequestFails(r)
      BY <1>6
    <3>2. \/ request' = [request EXCEPT ![r] = [step |-> "run", campaign |-> request[r].campaign]]
          \/ request' = [request EXCEPT ![r] = Done]
      BY <3>1 DEF EnqueueSends, SetRunning, RequestFails
    <3> QED BY <3>1, <3>2, <1>a DEF EnqueueSends, SetRunning, RequestFails, history
  <2> QED BY <1>3, <2>1
<1>7. CASE Crash
  <2>1. Inserting \subseteq Inserting' /\ UNCHANGED tests
    BY <1>7 DEF Crash, Inserting, Done, NoRequest, FlightOK, history
  <2> QED BY <1>3, <2>1
<1>8. CASE UNCHANGED <<request, tests>>
  BY <1>3, <1>8 DEF Inserting
<1>9. ASSUME NEW w \in Workers, Work(w) \/ Fault(w) PROVE UNCHANGED <<request, tests>>
  BY <1>9, ClaimTakesQueued
  DEF Work, Tick, ClaimTestQueued, NextCampaign, ClaimQueued, Claim, SendTemplate, SendUnanswered,
      SendRefused, MarkSent, MarkFailed, Marked, BatchDone, FindDrained, Finish, FinishDone, Fault,
      MarkError, TickError, FinishError, history
<1>10. ASSUME Webhook PROVE UNCHANGED <<request, tests>>
  BY <1>10 DEF Webhook, ReadStatus, WriteStatus, OptOut, Reply, history
<1>11. ASSUME NEW c \in Campaigns, Opens(c) \/ Closes(c) PROVE UNCHANGED <<request, tests>>
  BY <1>11 DEF Opens, Closes, history
<1>12. ASSUME NEW c \in Campaigns, NEW s, SaveCampaign(c, s) PROVE UNCHANGED <<request, tests>>
  BY <1>12 DEF SaveCampaign
<1>13. CASE UNCHANGED vars
  BY <1>8, <1>13 DEF vars, history
<1> QED BY <1>4, <1>5, <1>6, <1>7, <1>8, <1>9, <1>10, <1>11, <1>12, <1>13 DEF Next, Operator

LEMMA TypesHold == TypeInv /\ [Next]_vars => TypeInv'
<1> SUFFICES ASSUME TypeInv, [Next]_vars PROVE TypeInv'
  OBVIOUS
<1>1. TestsAreCounted'
  BY TestsStayCounted DEF TestsAreCounted
<1>2. TypeOK'
  <2>1. CASE UNCHANGED vars
    BY <2>1 DEF TypeInv, TypeOK, TablesOK, WorkersOK, FlightOK, WorldOK, vars, tables, worker, history
  <2> QED BY <2>1, TestsStayCounted, OperatorIsTyped, WorkIsTyped, FaultIsTyped, WebhookIsTyped,
             OthersAreTyped DEF Next, TypeInv
<1> QED BY <1>1, <1>2 DEF TypeInv

\* Every table, every worker and every request and webhook in flight has its
\* type: no worker holds a batch it has left, none finishes campaigns after its
\* tick, and a row has no more tests than requests were made.
THEOREM DispatchTypeCorrect == Spec => []TypeOK
<1>1. Spec => []TypeInv
  BY InitIsTyped, TypesHold, PTL DEF Spec
<1>2. TypeInv => TypeOK
  BY DEF TypeInv
<1> QED BY <1>1, <1>2, PTL

-----------------------------------------------------------------------------
(* One worker sends what was ordered.                                        *)

\* A message that goes out if nothing fails any more: a row in the batch, or
\* a queued row that is not the one whose outcome is awaited.
Due(s) ==
  IF (\E w \in Workers : s \in jobs[w]) \/ (row[s] = "queued" /\ \A w \in Workers : sending[w] # s)
  THEN 1 ELSE 0

\* The message whose outcome is awaited has left the batch.
Busy ==
  \A w \in Workers : sending[w] # Nothing => at[w] \in {"testing", "batch"} /\ sending[w] \notin jobs[w]

\* What has no row was never sent.
Unsent ==
  \A s \in Sends : row[s] = "none" =>
    accepted[s] = 0 /\ \A w \in Workers : s \notin jobs[w] /\ sending[w] # s

Accounts == \A s \in Sends : accepted[s] + Due(s) <= Ordered(s) + FaultsSeen

SentInv == Busy /\ Unsent /\ Accounts

\* With one worker.
LEMMA DueOfOne ==
  ASSUME NEW w, Workers = {w}, NEW s \in Sends
  PROVE  /\ Due(s) = IF s \in jobs[w] \/ (row[s] = "queued" /\ sending[w] # s) THEN 1 ELSE 0
         /\ Due(s)' = IF s \in jobs'[w] \/ (row'[s] = "queued" /\ sending'[w] # s) THEN 1 ELSE 0
BY DEF Due

LEMMA Numbers ==
  ASSUME TypeInv
  PROVE  /\ FaultsSeen \in Nat /\ budget.faults \in Nat /\ MaxFaults \in Nat
         /\ \A s \in Sends : accepted[s] \in Nat /\ tests[s] \in Nat /\ Ordered(s) \in Nat
BY DispatchAssumption
DEF DispatchAssumption, TypeInv, TypeOK, TablesOK, WorldOK, Budget, FaultsSeen, Ordered

LEMMA NothingIsNoSend == Nothing \notin Sends
BY DEF Nothing, Sends

LEMMA SentInvInit == Init => SentInv
<1> SUFFICES ASSUME Init PROVE SentInv
  OBVIOUS
<1>1. FaultsSeen = 0
  BY DispatchAssumption DEF DispatchAssumption, Init, FaultsSeen
<1>2. Busy /\ Unsent
  BY NothingIsNoSend DEF Init, Fresh, Busy, Unsent
<1>3. \A s \in Sends : accepted[s] = 0 /\ Ordered(s) = 1 /\ Due(s) = 0
  BY DEF Init, Fresh, Ordered, Due
<1> QED BY <1>1, <1>2, <1>3 DEF SentInv, Accounts

\* A step that touches none of it.
LEMMA SentIdle ==
  ASSUME TypeInv, TypeInv', SentInv, UNCHANGED <<row, isTest, tests, accepted, jobs, sending>>,
         budget'.faults <= budget.faults,
         \A w \in Workers : at'[w] = at[w] \/ sending[w] = Nothing
  PROVE  SentInv'
<1>1. FaultsSeen <= FaultsSeen'
  BY Numbers, DispatchAssumption
  DEF DispatchAssumption, FaultsSeen, TypeInv, TypeOK, WorldOK, Budget
<1>2. \A s \in Sends : UNCHANGED <<Due(s), Ordered(s)>>
  BY DEF Due, Ordered
<1>3. Busy' /\ Unsent'
  BY DEF SentInv, Busy, Unsent
<1>4. \A s \in Sends : Due(s) \in Nat
  BY DEF Due
<1>5. FaultsSeen \in Nat /\ FaultsSeen' \in Nat
  BY Numbers, DispatchAssumption
  DEF DispatchAssumption, FaultsSeen, TypeInv, TypeOK, WorldOK, Budget
<1>6. Accounts'
  BY Numbers, <1>1, <1>2, <1>4, <1>5 DEF SentInv, Accounts
<1> QED BY <1>3, <1>6 DEF SentInv

LEMMA SpendIsLess ==
  ASSUME TypeInv, NEW what \in {"saves", "replies", "closings", "faults"}, Spend(what)
  PROVE  budget'.faults <= budget.faults
BY DispatchAssumption DEF DispatchAssumption, TypeInv, TypeOK, WorldOK, Budget, Spend

LEMMA FaultIsSeen ==
  ASSUME TypeInv, Spend("faults")
  PROVE  FaultsSeen' = FaultsSeen + 1
BY DispatchAssumption DEF DispatchAssumption, TypeInv, TypeOK, WorldOK, Budget, Spend, FaultsSeen

\* The rows that a request adds or puts back are due once more, and were
\* ordered once more.
LEMMA SentInsert ==
  ASSUME NEW w, Workers = {w}, TypeInv, TypeInv', SentInv, NEW c \in Campaigns,
         NEW who \in SUBSET Contacts, NEW test \in BOOLEAN, Inserted(c, who, test),
         \A s \in Sends : tests'[s] = tests[s] \/ tests'[s] = tests[s] + 1,
         test = TRUE => \A s \in Sends : s[1] = c /\ s[2] \in who => tests'[s] = tests[s] + 1,
         UNCHANGED <<worker, budget, accepted>>
  PROVE  SentInv'
<1>1. ASSUME NEW s \in Sends
      PROVE  \/ row'[s] = row[s] /\ isTest'[s] = isTest[s]
             \/ /\ row[s] = "none" /\ row'[s] = "queued" /\ isTest'[s] = test
                /\ s[1] = c /\ s[2] \in who
  <2>1. TablesOK
    BY DEF TypeInv, TypeOK
  <2> QED BY <2>1, InsertedSends
<1>2. Busy' /\ Unsent'
  BY <1>1 DEF SentInv, Busy, Unsent, worker
<1>3. Accounts'
  <2> SUFFICES ASSUME NEW s \in Sends PROVE accepted'[s] + Due(s)' <= Ordered(s)' + FaultsSeen'
    BY DEF Accounts
  <2>1. CASE row'[s] = row[s] /\ isTest'[s] = isTest[s]
    <3>1. Due(s)' = Due(s) /\ FaultsSeen' = FaultsSeen
      BY <2>1, DueOfOne DEF worker, FaultsSeen
    <3>2. Ordered(s) <= Ordered(s)'
      BY <2>1, Numbers DEF Ordered
    <3>3. Due(s) \in Nat /\ Ordered(s)' \in Nat
      BY <2>1, Numbers DEF Due, Ordered
    <3> QED BY <3>1, <3>2, <3>3, Numbers DEF SentInv, Accounts
  <2>2. CASE row[s] = "none" /\ row'[s] = "queued" /\ isTest'[s] = test /\ s[1] = c /\ s[2] \in who
    <3>1. accepted'[s] = 0 /\ Due(s)' \in {0, 1} /\ FaultsSeen' = FaultsSeen
      BY <2>2 DEF SentInv, Unsent, Due, FaultsSeen
    <3>2. Ordered(s)' \in Nat \ {0}
      BY <2>2, Numbers DEF Ordered
    <3> QED BY <3>1, <3>2, Numbers
  <2> QED BY <1>1, <2>1, <2>2
<1> QED BY <1>2, <1>3 DEF SentInv

\* The worker's steps: a claim, a call to Meta, and its outcome.
LEMMA SentWork ==
  ASSUME NEW w, Workers = {w}, TypeInv, TypeInv', SentInv, Work(w)
  PROVE  SentInv'
<1> USE DEF Goto
<1>1. CASE Tick(w) \/ FindDrained(w) \/ FinishDone(w)
  <2>1. sending[w] = Nothing
    BY <1>1 DEF Tick, FindDrained, FinishDone, SentInv, Busy
  <2> QED BY <1>1, <2>1, SentIdle
          DEF Tick, FindDrained, FinishDone, tables, history, TypeInv, TypeOK, WorldOK, Budget
<1>2. CASE NextCampaign(w) \/ BatchDone(w) \/ \E c \in Campaigns : Finish(w, c)
  BY <1>2, SentIdle, Numbers
  DEF NextCampaign, BatchDone, Finish, tables, history
<1>3. ASSUME NEW test, NEW limit, NEW batch, Claim(w, test, limit, batch),
             at[w] \in {"tests", "claim"}
      PROVE  SentInv'
  <2>1. sending[w] = Nothing
    BY <1>3 DEF SentInv, Busy
  <2>2. /\ jobs' = [jobs EXCEPT ![w] = batch] /\ batch \subseteq Claimable(test)
        /\ UNCHANGED <<tables, sending, message, drained, request, hook, open, messages, budget,
                       history>>
    BY <1>3, ClaimTakesQueued
  <2>3. jobs'[w] = batch /\ \A s \in batch : row[s] = "queued"
    BY <2>2 DEF TypeInv, TypeOK, WorkersOK, Claimable
  <2>4. Busy' /\ Unsent'
    BY <2>1, <2>2, <2>3 DEF SentInv, Busy, Unsent, tables, history
  <2>5. \A s \in Sends : Due(s)' <= Due(s) /\ Due(s) \in Nat /\ Due(s)' \in Nat
    <3> TAKE s \in Sends
    <3>1. sending[w] # s
      BY <2>1, NothingIsNoSend
    <3> QED BY <2>2, <2>3, <3>1, DueOfOne DEF tables
  <2>6. \A s \in Sends : Ordered(s)' = Ordered(s) /\ accepted'[s] = accepted[s]
    BY <2>2 DEF Ordered, tables, history
  <2>7. FaultsSeen' = FaultsSeen
    BY <2>2 DEF FaultsSeen
  <2>8. Accounts'
    BY <2>5, <2>6, <2>7, Numbers DEF SentInv, Accounts
  <2> QED BY <2>4, <2>8 DEF SentInv
<1>4. CASE ClaimTestQueued(w) \/ ClaimQueued(w)
  BY <1>3, <1>4 DEF ClaimTestQueued, ClaimQueued
<1>5. ASSUME NEW s \in Sends, SendTemplate(w, s) \/ SendUnanswered(w, s) \/ SendRefused(w, s)
      PROVE  SentInv'
  <2>1. /\ s \in jobs[w] /\ sending[w] = Nothing
        /\ sending'[w] = s /\ jobs'[w] = jobs[w] \ {s}
        /\ UNCHANGED <<tables, at, budget, tests>>
        /\ accepted' = accepted \/ accepted' = [accepted EXCEPT ![s] = @ + 1]
    BY <1>5 DEF SendTemplate, SendUnanswered, SendRefused, TypeInv, TypeOK, WorkersOK, history
  <2>2. Busy'
    BY <2>1 DEF Busy, TypeInv, TypeOK, WorkersOK
  <2>3. row[s] # "none"
    BY <2>1 DEF SentInv, Unsent
  <2>4. Unsent'
    BY <2>1, <2>3 DEF SentInv, Unsent, tables, TypeInv, TypeOK, WorldOK
  <2>5. Due(s) = 1 /\ Due(s)' = 0
    BY <2>1, DueOfOne
  <2>6. \A q \in Sends \ {s} : Due(q)' = Due(q) /\ Due(q) \in Nat
    <3> TAKE q \in Sends \ {s}
    <3>1. sending[w] # q
      BY <2>1, NothingIsNoSend
    <3> QED BY <2>1, <3>1, DueOfOne DEF tables
  <2>7. \A q \in Sends : Ordered(q)' = Ordered(q)
    BY <2>1 DEF Ordered, tables
  <2>8. FaultsSeen' = FaultsSeen
    BY <2>1 DEF FaultsSeen
  <2>9. /\ accepted'[s] \in {accepted[s], accepted[s] + 1}
        /\ \A q \in Sends \ {s} : accepted'[q] = accepted[q]
    BY <2>1 DEF TypeInv, TypeOK, WorldOK
  <2>10. Accounts'
    BY <2>5, <2>6, <2>7, <2>8, <2>9, Numbers DEF SentInv, Accounts
  <2> QED BY <2>2, <2>4, <2>10 DEF SentInv
<1>6. ASSUME NEW value \in {"sent", "failed"}, NEW id, Marked(w, value, id)
      PROVE  SentInv'
  <2> DEFINE s == sending[w]
  <2>1. /\ s \in Sends /\ s \notin jobs[w]
        /\ row'[s] = value /\ \A q \in Sends \ {s} : row'[q] = row[q]
        /\ sending'[w] = Nothing
        /\ UNCHANGED <<isTest, at, jobs, budget, history>>
    BY <1>6 DEF Marked, TypeInv, TypeOK, WorkersOK, TablesOK, SentInv, Busy
  <2>2. Busy'
    BY <2>1 DEF SentInv, Busy
  <2>3. Unsent'
    BY <2>1, NothingIsNoSend DEF SentInv, Unsent, history
  <2>4. \A q \in Sends : Due(q)' <= Due(q) /\ Due(q) \in Nat /\ Due(q)' \in Nat
    <3> TAKE q \in Sends
    <3>1. CASE q = s
      BY <2>1, <3>1, DueOfOne
    <3>2. CASE q # s
      BY <2>1, <3>2, DueOfOne, NothingIsNoSend
    <3> QED BY <3>1, <3>2
  <2>5. \A q \in Sends : Ordered(q)' = Ordered(q) /\ accepted'[q] = accepted[q]
    BY <2>1 DEF Ordered, history
  <2>6. FaultsSeen' = FaultsSeen
    BY <2>1 DEF FaultsSeen
  <2>7. Accounts'
    BY <2>4, <2>5, <2>6, Numbers DEF SentInv, Accounts
  <2> QED BY <2>2, <2>3, <2>7 DEF SentInv
<1>7. CASE MarkSent(w) \/ MarkFailed(w)
  BY <1>6, <1>7 DEF MarkSent, MarkFailed
<1> QED BY <1>1, <1>2, <1>4, <1>5, <1>7 DEF Work

LEMMA SentStep ==
  ASSUME NEW w, Workers = {w}, TypeInv, TypeInv', SentInv, [Next]_vars
  PROVE  SentInv'
<1>1. ASSUME NEW r \in Requests, NEW c \in Campaigns, Launch(r, c) \/ TestSend(r, c) PROVE SentInv'
  <2>1. PICK test, who : Ask(r, c, test, who)
    BY <1>1 DEF Launch, TestSend
  <2> QED BY <2>1, SentIdle, Numbers DEF Ask, tables, worker, history
<1>2. ASSUME NEW r \in Requests, EnqueueSends(r) PROVE SentInv'
  <2>1. /\ request[r].campaign \in Campaigns /\ request[r].who \in SUBSET Contacts
        /\ Inserted(request[r].campaign, request[r].who, FALSE)
        /\ UNCHANGED <<worker, budget, accepted, tests>>
    BY <1>2, RequestFields DEF EnqueueSends, TypeInv, TypeOK, history
  <2> QED BY <2>1, SentInsert
<1>3. ASSUME NEW r \in Requests, EnqueueTestSend(r) PROVE SentInv'
  <2>a. PICK c : c = request[r].campaign
    OBVIOUS
  <2>1. PICK k \in request[r].who : LET s == <<c, k>> IN
       \/ /\ row[s] = "none"
          /\ Inserted(c, {k}, TRUE)
          /\ tests' = [tests EXCEPT ![s] = @ + 1]
       \/ /\ row[s] # "none" /\ Reusable(s)
          /\ row' = [row EXCEPT ![s] = "queued"]
          /\ isTest' = [isTest EXCEPT ![s] = TRUE]
          /\ tests' = [tests EXCEPT ![s] = @ + 1]
       \/ UNCHANGED <<row, isTest, tests>>
    BY <1>3, <2>a DEF EnqueueTestSend
  <2> DEFINE s == <<c, k>>
  <2>2. c \in Campaigns /\ k \in Contacts /\ s \in Sends /\ {k} \in SUBSET Contacts
    BY <1>3, <2>a, <2>1, RequestFields DEF EnqueueTestSend, TypeInv, TypeOK, Sends
  <2>3. UNCHANGED <<worker, budget, accepted>>
    BY <1>3 DEF EnqueueTestSend
  <2>4. CASE Inserted(c, {k}, TRUE) /\ tests' = [tests EXCEPT ![s] = @ + 1]
    <3>1. \A q \in Sends : tests'[q] = tests[q] \/ tests'[q] = tests[q] + 1
      BY <2>2, <2>4 DEF TypeInv, TypeOK, WorldOK
    <3>2. \A q \in Sends : q[1] = c /\ q[2] \in {k} => tests'[q] = tests[q] + 1
      BY <2>2, <2>4 DEF TypeInv, TypeOK, WorldOK, Sends
    <3> QED BY <2>2, <2>3, <2>4, <3>1, <3>2, SentInsert
  <2>5. CASE /\ row[s] # "none" /\ Reusable(s)
             /\ row' = [row EXCEPT ![s] = "queued"]
             /\ isTest' = [isTest EXCEPT ![s] = TRUE]
             /\ tests' = [tests EXCEPT ![s] = @ + 1]
    <3>1. /\ isTest[s] /\ isTest' = isTest /\ tests'[s] = tests[s] + 1
          /\ \A q \in Sends \ {s} : tests'[q] = tests[q] /\ row'[q] = row[q]
      BY <2>2, <2>5 DEF Reusable, TypeInv, TypeOK, TablesOK, WorldOK
    <3>2. Busy' /\ Unsent'
      BY <2>2, <2>3, <2>5 DEF SentInv, Busy, Unsent, worker, TypeInv, TypeOK, TablesOK
    <3>3. FaultsSeen' = FaultsSeen
      BY <2>3 DEF FaultsSeen
    <3>4. \A q \in Sends \ {s} : Due(q)' = Due(q) /\ Ordered(q)' = Ordered(q)
      BY <2>3, <3>1 DEF Due, Ordered, worker
    <3>5. Ordered(s)' = Ordered(s) + 1
      <4>1. Ordered(s) = tests[s] /\ Ordered(s)' = tests'[s]
        BY <3>1 DEF Ordered
      <4> QED BY <3>1, <4>1
    <3>6. \A q \in Sends : Due(q) \in {0, 1} /\ Due(q)' \in {0, 1}
      BY DEF Due
    <3>7. Accounts'
      <4> SUFFICES ASSUME NEW q \in Sends PROVE accepted'[q] + Due(q)' <= Ordered(q)' + FaultsSeen'
        BY DEF Accounts
      <4>1. accepted[q] + Due(q) <= Ordered(q) + FaultsSeen /\ accepted'[q] = accepted[q]
        BY <2>3 DEF SentInv, Accounts
      <4>2. CASE q = s
        BY <2>2, <3>3, <3>5, <3>6, <4>1, <4>2, Numbers
      <4>3. CASE q # s
        BY <3>3, <3>4, <4>1, <4>3, Numbers
      <4> QED BY <4>2, <4>3
    <3> QED BY <3>2, <3>7 DEF SentInv
  <2>6. CASE UNCHANGED <<row, isTest, tests>>
    BY <2>3, <2>6, SentIdle, Numbers DEF worker
  <2> QED BY <2>1, <2>4, <2>5, <2>6
<1>4. CASE \/ \E r \in Requests : SetRunning(r) \/ RequestFails(r)
           \/ \E c \in Campaigns, s \in {"running", "paused"} : SaveCampaign(c, s)
  <2>1. budget'.faults <= budget.faults
    BY <1>4, SpendIsLess, Numbers DEF SetRunning, RequestFails, SaveCampaign
  <2> QED BY <1>4, <2>1, SentIdle DEF SetRunning, RequestFails, SaveCampaign, tables, worker, history
<1>5. CASE Fault(w)
  <2>1. CASE MarkError(w)
    <3>1. FaultsSeen' = FaultsSeen + 1 /\ UNCHANGED <<tables, at, jobs, history>>
          /\ sending'[w] = Nothing
      BY <2>1, FaultIsSeen DEF MarkError, TypeInv, TypeOK, WorkersOK
    <3>2. Busy' /\ Unsent'
      BY <3>1, NothingIsNoSend DEF SentInv, Busy, Unsent, tables, history
    <3>3. \A q \in Sends : /\ Due(q) \in {0, 1} /\ Due(q)' \in {0, 1}
                           /\ Ordered(q)' = Ordered(q) /\ accepted'[q] = accepted[q]
      BY <3>1 DEF Due, Ordered, tables, history
    <3>4. Accounts'
      BY <3>1, <3>3, Numbers DEF SentInv, Accounts
    <3> QED BY <3>2, <3>4 DEF SentInv
  <2>2. CASE TickError(w)
    <3>1. sending[w] = Nothing
      BY <2>2 DEF TickError, SentInv, Busy
    <3> QED BY <2>2, <3>1, SpendIsLess, SentIdle DEF TickError, tables, history
  <2>3. ASSUME NEW c \in Campaigns, FinishError(w, c) PROVE SentInv'
    BY <2>3, SpendIsLess, SentIdle DEF FinishError, tables, history
  <2> QED BY <1>5, <2>1, <2>2, <2>3 DEF Fault
<1>6. CASE Crash
  <2>1. FaultsSeen' = FaultsSeen + 1 /\ UNCHANGED <<tables, history>>
        /\ sending'[w] = Nothing /\ jobs'[w] = {}
    BY <1>6, FaultIsSeen DEF Crash
  <2>2. Busy' /\ Unsent'
    BY <2>1, NothingIsNoSend DEF SentInv, Busy, Unsent, tables, history
  <2>3. \A q \in Sends : /\ Due(q) \in {0, 1} /\ Due(q)' \in {0, 1}
                         /\ Ordered(q)' = Ordered(q) /\ accepted'[q] = accepted[q]
    BY <2>1 DEF Due, Ordered, tables, history
  <2>4. Accounts'
    BY <2>1, <2>3, Numbers DEF SentInv, Accounts
  <2> QED BY <2>2, <2>4 DEF SentInv
<1>7. ASSUME NEW s \in Sends, NEW value \in SendStatuses \ {"queued"},
             row' = [row EXCEPT ![s] = value], budget'.faults = budget.faults,
             UNCHANGED <<isTest, worker, history>>
      PROVE  SentInv'
  <2>1. \A q \in Sends : row'[q] = row[q] \/ row'[q] \notin {"none", "queued"}
    BY <1>7 DEF TypeInv, TypeOK, TablesOK, SendStatuses
  <2>2. Busy' /\ Unsent'
    BY <1>7, <2>1 DEF SentInv, Busy, Unsent, worker, history
  <2>3. \A q \in Sends : Due(q)' <= Due(q) /\ Due(q) \in Nat /\ Due(q)' \in Nat
    BY <1>7, <2>1 DEF Due, worker
  <2>4. \A q \in Sends : Ordered(q)' = Ordered(q) /\ accepted'[q] = accepted[q]
    BY <1>7 DEF Ordered, history
  <2>5. FaultsSeen' = FaultsSeen
    BY <1>7 DEF FaultsSeen
  <2>6. Accounts'
    BY <2>3, <2>4, <2>5, Numbers DEF SentInv, Accounts
  <2> QED BY <2>2, <2>6 DEF SentInv
<1>8. CASE Webhook
  <2>1. ASSUME NEW h \in Hooks, NEW s \in Sends, NEW news, ReadStatus(h, s, news) PROVE SentInv'
    BY <2>1, SentIdle, Numbers DEF ReadStatus, tables, worker, history
  <2>2. ASSUME NEW h \in Hooks, WriteStatus(h) PROVE SentInv'
    <3>1. hook[h].send \in Sends /\ hook[h].status \in SendStatuses \ {"queued"}
      BY <2>2, HookFields DEF WriteStatus, TypeInv, TypeOK, Reported, SendStatuses
    <3> QED BY <2>2, <3>1, <1>7 DEF WriteStatus
  <2>3. ASSUME NEW k \in Contacts, OptOut(k) PROVE SentInv'
    BY <2>3, SentIdle, Numbers DEF OptOut, worker, history
  <2>4. ASSUME NEW k \in Contacts, Reply(k) PROVE SentInv'
    <3>1. <<newest[k], k>> \in Sends
      BY <2>4 DEF Reply, TypeInv, TypeOK, TablesOK, Sends
    <3>2. budget'.faults = budget.faults
      BY <2>4 DEF Reply, Spend, TypeInv, TypeOK, WorldOK, Budget
    <3> QED BY <2>4, <3>1, <3>2, <1>7 DEF Reply, SendStatuses
  <2> QED BY <1>8, <2>1, <2>2, <2>3, <2>4 DEF Webhook
<1>9. ASSUME NEW c \in Campaigns, Opens(c) \/ Closes(c) PROVE SentInv'
  <2>1. budget'.faults <= budget.faults
    BY <1>9, SpendIsLess, Numbers DEF Opens, Closes
  <2> QED BY <1>9, <2>1, SentIdle DEF Opens, Closes, tables, worker, history
<1>10. CASE UNCHANGED vars
  BY <1>10, SentIdle, Numbers DEF vars, tables, worker, history
<1> QED BY <1>1, <1>2, <1>3, <1>4, <1>5, <1>6, <1>8, <1>9, <1>10, SentWork DEF Next, Operator

\* With one worker a contact gets one message of a campaign, or as many tests
\* as were asked for, and one more for each crash and each error that hid a
\* message that was sent, however often launches are repeated.
THEOREM OneWorkerSendsAsOrdered ==
  ASSUME NEW w, Workers = {w}
  PROVE  Spec => []SentAsOrdered
<1>1. TypeInv /\ SentInv /\ [Next]_vars => TypeInv' /\ SentInv'
  BY TypesHold, SentStep
<1>2. TypeInv /\ SentInv => SentAsOrdered
  <2> SUFFICES ASSUME TypeInv, SentInv, NEW s \in Sends
               PROVE  accepted[s] <= Ordered(s) + FaultsSeen
    BY DEF SentAsOrdered
  <2>1. Due(s) \in Nat
    BY DEF Due
  <2> QED BY <2>1, Numbers DEF SentInv, Accounts
<1> QED BY InitIsTyped, SentInvInit, <1>1, <1>2, PTL DEF Spec

-----------------------------------------------------------------------------
(* What is finished has an empty queue.                                      *)

InFlight(r) == request[r].step \in {"enqueue", "run"}

\* The operator waits for an answer before he asks again.
OneRequest == \A q, r \in Requests : InFlight(q) /\ InFlight(r) => q = r

\* A campaign runs only after its request was answered.
NotYetRunning ==
  \A r \in Requests : InFlight(r) => status[request[r].campaign] \in {"draft", "paused"}

\* Finished, or about to be.
Over(c) == status[c] = "finished" \/ \E w \in Workers : c \in drained[w]

\* Nothing fills the queue of such a campaign again.
OverIsDrained ==
  \A c \in Campaigns : Over(c) =>
    /\ ~Queued(c) /\ status[c] # "draft"
    /\ \A r \in Requests : InFlight(r) => request[r].campaign # c

FinishInv == OneRequest /\ NotYetRunning /\ OverIsDrained

LEMMA FinishInvInit == Init => FinishInv
BY DEF Init, Fresh, FinishInv, OneRequest, NotYetRunning, OverIsDrained, Over, InFlight, NoRequest

\* A step that asks for nothing, queues nothing and finishes nothing.
LEMMA FinishIdle ==
  ASSUME TypeInv, FinishInv, UNCHANGED status,
         \A r \in Requests : InFlight(r)' => InFlight(r) /\ request'[r].campaign = request[r].campaign,
         \A c \in Campaigns : Queued(c)' => Queued(c),
         \A w \in Workers : drained'[w] \subseteq drained[w]
  PROVE  FinishInv'
BY DEF FinishInv, OneRequest, NotYetRunning, OverIsDrained, Over, TypeInv, TypeOK, FlightOK

LEMMA FinishOperator ==
  ASSUME OneLaunch, TypeInv, FinishInv, Operator
  PROVE  FinishInv'
<1> USE DEF FinishInv
<1>1. ASSUME NEW r \in Requests, NEW c \in Campaigns, Launch(r, c) \/ TestSend(r, c) PROVE FinishInv'
  <2>1. PICK test, who : Ask(r, c, test, who)
    BY <1>1 DEF Launch, TestSend
  <2>2. /\ status[c] = "draft" /\ \A q \in Requests : ~InFlight(q)
        /\ UNCHANGED <<tables, worker>>
    BY <2>1 DEF Ask, NoneInFlight, InFlight
  <2>3. /\ \A q \in Requests \ {r} : request'[q] = request[q]
        /\ request'[r].step = "enqueue" /\ request'[r].campaign = c
    BY <2>1 DEF Ask, TypeInv, TypeOK, FlightOK
  <2>4. OneRequest' /\ NotYetRunning'
    BY <2>2, <2>3 DEF OneRequest, NotYetRunning, InFlight, tables
  <2>5. ~Over(c)
    BY <2>2 DEF OverIsDrained
  <2>6. \A q \in Requests : InFlight(q)' => q = r
    BY <2>2, <2>3 DEF InFlight
  <2>7. \A d \in Campaigns : UNCHANGED <<Over(d), Queued(d), status[d]>>
    BY <2>2 DEF Over, Queued, tables, worker
  <2>8. OverIsDrained'
    BY <2>3, <2>5, <2>6, <2>7 DEF OverIsDrained
  <2> QED BY <2>4, <2>8
<1>2. ASSUME NEW r \in Requests, EnqueueSends(r) \/ EnqueueTestSend(r)
      PROVE  FinishInv'
  <2>1. PICK c : c = request[r].campaign
    OBVIOUS
  <2>2. c \in Campaigns /\ InFlight(r) /\ UNCHANGED <<status, worker>>
    BY <1>2, <2>1, RequestFields DEF EnqueueSends, EnqueueTestSend, InFlight, TypeInv, TypeOK
  <2>3. \/ request' = [request EXCEPT ![r] = [step |-> "run", campaign |-> c]]
        \/ request' = [request EXCEPT ![r] = Done]
    BY <1>2, <2>1 DEF EnqueueSends, EnqueueTestSend
  <2>4. \A q \in Requests : InFlight(q)' => InFlight(q) /\ request'[q].campaign = request[q].campaign
    <3>1. CASE request' = [request EXCEPT ![r] = [step |-> "run", campaign |-> c]]
      BY <2>1, <2>2, <3>1 DEF InFlight, TypeInv, TypeOK, FlightOK
    <3>2. CASE request' = [request EXCEPT ![r] = Done]
      BY <2>2, <3>2 DEF InFlight, Done, TypeInv, TypeOK, FlightOK
    <3> QED BY <2>3, <3>1, <3>2
  <2>5. \A s \in Sends : s[1] # c => row'[s] = row[s]
    <3> TAKE s \in Sends
    <3>1. TablesOK
      BY DEF TypeInv, TypeOK
    <3>2. CASE EnqueueSends(r)
      <4>1. PICK who \in SUBSET Contacts : Inserted(c, who, FALSE)
        BY <2>1, <3>2, RequestFields DEF EnqueueSends, TypeInv, TypeOK
      <4> QED BY <2>2, <3>1, <4>1, OthersKeepRows
    <3>3. CASE EnqueueTestSend(r)
      <4>1. PICK k \in request[r].who : \/ Inserted(c, {k}, TRUE)
                                        \/ row' = [row EXCEPT ![<<c, k>>] = "queued"]
                                        \/ row' = row
        BY <2>1, <3>3 DEF EnqueueTestSend
      <4>2. k \in Contacts /\ {k} \in SUBSET Contacts
        BY <3>3, <4>1, RequestFields DEF EnqueueTestSend, TypeInv, TypeOK
      <4>3. CASE Inserted(c, {k}, TRUE)
        BY <2>2, <3>1, <4>2, <4>3, OthersKeepRows
      <4>4. CASE row' = [row EXCEPT ![<<c, k>>] = "queued"] \/ row' = row
        BY <3>1, <4>4 DEF TablesOK
      <4> QED BY <4>1, <4>3, <4>4
    <3> QED BY <1>2, <3>2, <3>3
  <2>6. \A d \in Campaigns \ {c} : Queued(d)' = Queued(d)
    BY <2>5 DEF Queued, Sends
  <2>7. ~Over(c)
    BY <2>1, <2>2 DEF OverIsDrained
  <2>8. \A d \in Campaigns : Over(d)' = Over(d) /\ status'[d] = status[d]
    BY <2>2 DEF Over, worker
  <2>9. OneRequest' /\ NotYetRunning'
    BY <2>2, <2>4 DEF OneRequest, NotYetRunning
  <2>10. OverIsDrained'
    BY <2>4, <2>6, <2>7, <2>8 DEF OverIsDrained
  <2> QED BY <2>9, <2>10
<1>3. ASSUME NEW r \in Requests, SetRunning(r) PROVE FinishInv'
  <2>1. PICK c : c = request[r].campaign
    OBVIOUS
  <2>2. /\ c \in Campaigns /\ InFlight(r) /\ status' = [status EXCEPT ![c] = "running"]
        /\ request' = [request EXCEPT ![r] = Done] /\ UNCHANGED <<row, worker>>
    BY <1>3, <2>1, RequestFields DEF SetRunning, InFlight, TypeInv, TypeOK
  <2>3. \A q \in Requests : ~InFlight(q)'
    BY <2>2 DEF OneRequest, InFlight, Done, TypeInv, TypeOK, FlightOK
  <2>4. ~Over(c)
    BY <2>1, <2>2 DEF OverIsDrained
  <2>6. ASSUME NEW d \in Campaigns, Over(d)'
        PROVE  ~Queued(d)' /\ status'[d] # "draft"
    <3>1. Over(d) /\ d # c
      BY <2>2, <2>4, <2>6 DEF Over, worker, TypeInv, TypeOK, TablesOK
    <3>2. Queued(d)' = Queued(d) /\ status'[d] = status[d]
      BY <2>2, <3>1 DEF Queued, TypeInv, TypeOK, TablesOK
    <3> QED BY <3>1, <3>2 DEF OverIsDrained
  <2>7. OverIsDrained'
    BY <2>3, <2>6 DEF OverIsDrained
  <2> QED BY <2>3, <2>7 DEF OneRequest, NotYetRunning
<1>4. ASSUME NEW r \in Requests, RequestFails(r) PROVE FinishInv'
  <2>1. \A q \in Requests : InFlight(q)' => InFlight(q) /\ request'[q].campaign = request[q].campaign
    BY <1>4 DEF RequestFails, InFlight, Done, TypeInv, TypeOK, FlightOK
  <2> QED BY <1>4, <2>1, FinishIdle DEF RequestFails, Queued, tables, worker
<1>5. ASSUME NEW c \in Campaigns, NEW s \in {"running", "paused"}, SaveCampaign(c, s) PROVE FinishInv'
  <2>1. /\ s = "running" => status[c] = "paused" /\ \A q \in Requests : ~InFlight(q)
        /\ UNCHANGED <<row, worker, request>>
        /\ status'[c] = s /\ \A d \in Campaigns \ {c} : status'[d] = status[d]
    BY <1>5 DEF SaveCampaign, NoneInFlight, InFlight, TypeInv, TypeOK, TablesOK
  <2>2. \A q \in Requests : InFlight(q)' = InFlight(q)
    BY <2>1 DEF InFlight
  <2>3. OneRequest' /\ NotYetRunning'
    BY <2>1, <2>2, RequestFields DEF OneRequest, NotYetRunning, InFlight, TypeInv, TypeOK
  <2>5. ASSUME NEW d \in Campaigns, Over(d)'
        PROVE  /\ ~Queued(d)' /\ status'[d] # "draft"
               /\ \A q \in Requests : InFlight(q)' => request'[q].campaign # d
    <3>1. Over(d)
      BY <2>1, <2>5 DEF Over, worker
    <3>2. /\ ~Queued(d) /\ status[d] # "draft"
          /\ \A q \in Requests : InFlight(q) => request[q].campaign # d
      BY <3>1 DEF OverIsDrained
    <3> QED BY <2>1, <3>2 DEF Queued, InFlight
  <2>6. OverIsDrained'
    BY <2>5 DEF OverIsDrained
  <2> QED BY <2>3, <2>6
<1> QED BY <1>1, <1>2, <1>3, <1>4, <1>5 DEF Operator

LEMMA FinishWork ==
  ASSUME TypeInv, FinishInv, NEW w \in Workers, Work(w) \/ Fault(w)
  PROVE  FinishInv'
<1> USE DEF Goto
<1>1. UNCHANGED request
  BY ClaimTakesQueued
  DEF Work, Tick, ClaimTestQueued, NextCampaign, ClaimQueued, Claim, SendTemplate, SendUnanswered,
      SendRefused, MarkSent, MarkFailed, Marked, BatchDone, FindDrained, Finish, FinishDone, Fault,
      MarkError, TickError, FinishError
<1>2. \A r \in Requests : InFlight(r)' => InFlight(r) /\ request'[r].campaign = request[r].campaign
  BY <1>1 DEF InFlight
<1>3. CASE UNCHANGED <<status, row, drained>>
  BY <1>2, <1>3, FinishIdle DEF Queued
<1>4. CASE MarkSent(w) \/ MarkFailed(w)
  <2>1. PICK value \in {"sent", "failed"}, id \in {message[w], external[sending[w]]} :
          Marked(w, value, id)
    BY <1>4 DEF MarkSent, MarkFailed
  <2>2. \A s \in Sends : row'[s] = "queued" => row[s] = "queued"
    BY <2>1 DEF Marked, TypeInv, TypeOK, TablesOK
  <2>3. \A c \in Campaigns : Queued(c)' => Queued(c)
    BY <2>2 DEF Queued, Sends
  <2> QED BY <1>2, <2>1, <2>3, FinishIdle DEF Marked
<1>5. CASE FindDrained(w)
  <2>1. /\ UNCHANGED <<status, row>>
        /\ drained'[w] = {c \in Campaigns : status[c] = "running" /\ ~Queued(c)}
        /\ \A v \in Workers \ {w} : drained'[v] = drained[v]
    BY <1>5 DEF FindDrained, Drained, tables, TypeInv, TypeOK, WorkersOK
  <2>2. ASSUME NEW c \in Campaigns, Over(c)'
        PROVE  /\ ~Queued(c)' /\ status'[c] # "draft"
               /\ \A r \in Requests : InFlight(r)' => request'[r].campaign # c
    <3>1. Queued(c)' = Queued(c) /\ status'[c] = status[c]
      BY <2>1 DEF Queued
    <3>2. Over(c) \/ (status[c] = "running" /\ ~Queued(c))
      BY <2>1, <2>2 DEF Over
    <3>3. CASE Over(c)
      BY <1>1, <3>1, <3>3 DEF FinishInv, OverIsDrained, InFlight
    <3>4. CASE status[c] = "running" /\ ~Queued(c)
      BY <1>1, <3>1, <3>4 DEF FinishInv, NotYetRunning, InFlight
    <3> QED BY <3>2, <3>3, <3>4
  <2>3. OneRequest' /\ NotYetRunning'
    BY <1>1, <2>1 DEF FinishInv, OneRequest, NotYetRunning, InFlight
  <2> QED BY <2>2, <2>3 DEF FinishInv, OverIsDrained
<1>6. ASSUME NEW c \in Campaigns, Finish(w, c) PROVE FinishInv'
  <2>1. /\ UNCHANGED row /\ Over(c)
        /\ status'[c] = "finished" /\ \A d \in Campaigns \ {c} : status'[d] = status[d]
        /\ \A v \in Workers : drained'[v] \subseteq drained[v]
    BY <1>6 DEF Finish, Over, TypeInv, TypeOK, TablesOK, WorkersOK
  <2>2. ASSUME NEW d \in Campaigns, Over(d)'
        PROVE  /\ ~Queued(d)' /\ status'[d] # "draft"
               /\ \A r \in Requests : InFlight(r)' => request'[r].campaign # d
    <3>1. Over(d)
      BY <2>1, <2>2 DEF Over
    <3>2. Queued(d)' = Queued(d) /\ (status'[d] = "draft" => status[d] = "draft")
      BY <2>1 DEF Queued
    <3> QED BY <1>1, <3>1, <3>2 DEF FinishInv, OverIsDrained, InFlight
  <2>3. NotYetRunning'
    <3>1. \A r \in Requests : InFlight(r) => request[r].campaign # c
      BY <2>1 DEF FinishInv, OverIsDrained
    <3>2. \A r \in Requests : InFlight(r) => request[r].campaign \in Campaigns
      BY RequestFields DEF InFlight, TypeInv, TypeOK
    <3> QED BY <1>1, <2>1, <3>1, <3>2 DEF FinishInv, NotYetRunning, InFlight
  <2>4. OneRequest'
    BY <1>1 DEF FinishInv, OneRequest, InFlight
  <2> QED BY <2>2, <2>3, <2>4 DEF FinishInv, OverIsDrained
<1>7. ASSUME NEW c \in Campaigns, FinishError(w, c) PROVE FinishInv'
  <2>1. \A v \in Workers : drained'[v] \subseteq drained[v]
    BY <1>7 DEF FinishError, TypeInv, TypeOK, WorkersOK
  <2> QED BY <1>2, <1>7, <2>1, FinishIdle DEF FinishError, Queued, tables
<1>8. CASE \/ Tick(w) \/ ClaimTestQueued(w) \/ NextCampaign(w) \/ ClaimQueued(w) \/ BatchDone(w)
           \/ FinishDone(w) \/ MarkError(w) \/ TickError(w)
           \/ \E s \in Sends : SendTemplate(w, s) \/ SendUnanswered(w, s) \/ SendRefused(w, s)
  BY <1>3, <1>8, ClaimTakesQueued
  DEF Tick, ClaimTestQueued, NextCampaign, ClaimQueued, Claim, BatchDone, FinishDone, MarkError,
      TickError, SendTemplate, SendUnanswered, SendRefused, tables
<1> QED BY <1>4, <1>5, <1>6, <1>7, <1>8 DEF Work, Fault

LEMMA FinishStep ==
  ASSUME OneLaunch, TypeInv, FinishInv, [Next]_vars
  PROVE  FinishInv'
<1>1. CASE UNCHANGED <<request, status, row, drained>>
  BY <1>1, FinishIdle DEF Queued, InFlight
<1>2. CASE Crash
  <2>1. \A r \in Requests : ~InFlight(r)'
    BY <1>2 DEF Crash, InFlight, NoRequest, Done
  <2>2. \A w \in Workers : drained'[w] \subseteq drained[w]
    BY <1>2 DEF Crash
  <2> QED BY <1>2, <2>1, <2>2, FinishIdle DEF Crash, Queued, tables
<1>3. ASSUME NEW s \in Sends, NEW value \in SendStatuses \ {"queued"},
             row' = [row EXCEPT ![s] = value], UNCHANGED <<status, request, worker>>
      PROVE  FinishInv'
  <2>1. \A q \in Sends : row'[q] = "queued" => row[q] = "queued"
    BY <1>3 DEF TypeInv, TypeOK, TablesOK
  <2>2. \A c \in Campaigns : Queued(c)' => Queued(c)
    BY <2>1 DEF Queued, Sends
  <2> QED BY <1>3, <2>2, FinishIdle DEF worker, InFlight
<1>4. CASE Webhook
  <2>1. ASSUME NEW h \in Hooks, WriteStatus(h) PROVE FinishInv'
    <3>1. hook[h].send \in Sends /\ hook[h].status \in SendStatuses \ {"queued"}
      BY <2>1, HookFields DEF WriteStatus, TypeInv, TypeOK, Reported, SendStatuses
    <3> QED BY <2>1, <3>1, <1>3 DEF WriteStatus
  <2>2. ASSUME NEW k \in Contacts, Reply(k) PROVE FinishInv'
    <3>1. <<newest[k], k>> \in Sends
      BY <2>2 DEF Reply, TypeInv, TypeOK, TablesOK, Sends
    <3> QED BY <2>2, <3>1, <1>3 DEF Reply, SendStatuses
  <2>3. CASE \/ \E h \in Hooks, s \in Sends, news \in Reported : ReadStatus(h, s, news)
             \/ \E k \in Contacts : OptOut(k)
    BY <1>1, <2>3 DEF ReadStatus, OptOut, tables, worker
  <2> QED BY <1>4, <2>1, <2>2, <2>3 DEF Webhook
<1>5. CASE (\E c \in Campaigns : Opens(c) \/ Closes(c)) \/ UNCHANGED vars
  BY <1>1, <1>5 DEF Opens, Closes, vars, tables, worker
<1> QED BY <1>2, <1>4, <1>5, FinishOperator, FinishWork DEF Next

\* A campaign that was launched once, and resumed only between requests, has an
\* empty queue when it is finished, however many workers finish it.
THEOREM OnceLaunchedFinishesDrained ==
  ASSUME OneLaunch
  PROVE  Spec => []FinishedIsDrained
<1>1. TypeInv /\ FinishInv /\ [Next]_vars => TypeInv' /\ FinishInv'
  BY TypesHold, FinishStep
<1>2. FinishInv => FinishedIsDrained
  BY DEF FinishInv, OverIsDrained, Over, FinishedIsDrained
<1> QED BY InitIsTyped, FinishInvInit, <1>1, <1>2, PTL DEF Spec

-----------------------------------------------------------------------------
(* What is known of a message.                                               *)

\* A message that Meta numbered is in no worker's hands until its row is used
\* again, and the row of a message in a worker's hands is queued, or a reply
\* overtook it.
InHands ==
  \A w \in Workers, s \in Sends : tests[s] <= 1 =>
    /\ external[s] # 0 => s \notin jobs[w] /\ sending[w] # s /\ row[s] # "queued"
    /\ s \in jobs[w] \/ sending[w] = s => row[s] \in {"queued", "replied"}

\* The row of a test was asked for.
TestsWereAsked == \A s \in Sends : isTest[s] => tests[s] >= 1

\* One status at a time, and it is still news to the row it was read for.
StillNews ==
  /\ \A g, h \in Hooks : hook[g].step = "write" /\ hook[h].step = "write" => g = h
  /\ \A h \in Hooks : hook[h].step = "write" /\ tests[hook[h].send] <= 1 =>
       /\ external[hook[h].send] # 0
       /\ row[hook[h].send] = "replied" \/ Advances(row[hook[h].send], hook[h].status)

NewsInv == InHands /\ TestsWereAsked /\ StillNews

LEMMA NewsInvInit == Init => NewsInv
BY NothingIsNoSend DEF Init, Fresh, NewsInv, InHands, TestsWereAsked, StillNews, NoHook

\* A row that is not replied to, and that a step changes, moves forward.
RowForward(s) == tests'[s] <= 1 /\ "replied" \notin {row[s], row'[s]} => MovesForward(s)

\* A step that moves no row, and takes nothing into a worker's hands.
LEMMA NewsIdle ==
  ASSUME TypeInv, NewsInv, UNCHANGED <<row, isTest, external, tests>>,
         \A w \in Workers : jobs'[w] \subseteq jobs[w] /\ sending'[w] \in {sending[w], Nothing},
         \A h \in Hooks : hook'[h].step = "write" => hook'[h] = hook[h]
  PROVE  NewsInv' /\ \A s \in Sends : RowForward(s)
<1>1. InHands'
  BY NothingIsNoSend DEF NewsInv, InHands
<1>2. TestsWereAsked' /\ StillNews'
  BY DEF NewsInv, TestsWereAsked, StillNews, Advances
<1>3. \A s \in Sends : RowForward(s)
  BY DEF RowForward, MovesForward
<1> QED BY <1>1, <1>2, <1>3 DEF NewsInv

\* What is inserted was never sent, and a test is asked for.
LEMMA NewsInsert ==
  ASSUME TypeInv, NewsInv, NEW c \in Campaigns,
         NEW who \in SUBSET Contacts, NEW test \in BOOLEAN, Inserted(c, who, test),
         \A s \in Sends : tests'[s] \in {tests[s], tests[s] + 1},
         test = TRUE => \A s \in Sends : s[1] = c /\ s[2] \in who => tests'[s] = tests[s] + 1,
         UNCHANGED <<worker, external, hook>>
  PROVE  NewsInv' /\ \A s \in Sends : RowForward(s)
<1>1. TablesOK /\ \A s \in Sends : tests[s] \in Nat
  BY DEF TypeInv, TypeOK, WorldOK
<1>2. ASSUME NEW s \in Sends
      PROVE  \/ row'[s] = row[s] /\ isTest'[s] = isTest[s]
             \/ /\ row[s] = "none" /\ row'[s] = "queued" /\ isTest'[s] = test
                /\ s[1] = c /\ s[2] \in who
  BY <1>1, InsertedSends
<1>3. \A s \in Sends : row[s] = "none" => external[s] = 0
  BY <1>1 DEF TablesOK
<1>4. \A s \in Sends : tests'[s] <= 1 => tests[s] <= 1
  BY <1>1
<1>5. InHands'
  BY <1>2, <1>3, <1>4 DEF NewsInv, InHands, worker
<1>6. TestsWereAsked'
  <2> SUFFICES ASSUME NEW s \in Sends, isTest'[s] PROVE tests'[s] >= 1
    BY DEF TestsWereAsked
  <2>1. CASE isTest[s]
    BY <1>1, <2>1 DEF NewsInv, TestsWereAsked
  <2>2. CASE ~isTest[s]
    <3>1. isTest'[s] = test /\ s[1] = c /\ s[2] \in who
      BY <1>2, <2>2
    <3>2. test = TRUE
      BY <3>1
    <3> QED BY <1>1, <3>1, <3>2
  <2> QED BY <2>1, <2>2
<1>7. StillNews'
  <2>1. ASSUME NEW h \in Hooks, hook[h].step = "write", tests'[hook[h].send] <= 1
        PROVE  /\ external[hook[h].send] # 0
               /\ \/ row'[hook[h].send] = "replied"
                  \/ Advances(row'[hook[h].send], hook[h].status)
    <3>1. hook[h].send \in Sends
      BY <2>1, HookFields DEF TypeInv, TypeOK
    <3>2. /\ external[hook[h].send] # 0
          /\ row[hook[h].send] = "replied" \/ Advances(row[hook[h].send], hook[h].status)
      BY <1>4, <2>1, <3>1 DEF NewsInv, StillNews
    <3>3. row'[hook[h].send] = row[hook[h].send]
      BY <1>2, <1>3, <3>1, <3>2
    <3> QED BY <3>2, <3>3
  <2> QED BY <2>1 DEF NewsInv, StillNews, Advances
<1>8. \A s \in Sends : RowForward(s)
  BY <1>2 DEF RowForward, MovesForward
<1> QED BY <1>5, <1>6, <1>7, <1>8 DEF NewsInv

LEMMA NewsOperator ==
  ASSUME TypeInv, NewsInv, Operator
  PROVE  NewsInv' /\ \A s \in Sends : RowForward(s)
<1>1. CASE \/ \E r \in Requests, c \in Campaigns : Launch(r, c) \/ TestSend(r, c)
           \/ \E r \in Requests : SetRunning(r) \/ RequestFails(r)
           \/ \E c \in Campaigns, s \in {"running", "paused"} : SaveCampaign(c, s)
  <2>1. UNCHANGED <<row, isTest, external, tests, jobs, sending, hook>>
    BY <1>1 DEF Launch, TestSend, Ask, SetRunning, RequestFails, SaveCampaign, tables, worker, history
  <2> QED BY <2>1, NewsIdle
<1>2. ASSUME NEW r \in Requests, EnqueueSends(r) PROVE NewsInv' /\ \A s \in Sends : RowForward(s)
  <2>1. PICK c \in Campaigns, who \in SUBSET Contacts : Inserted(c, who, FALSE)
    BY <1>2, RequestFields DEF EnqueueSends, TypeInv, TypeOK
  <2>2. UNCHANGED <<worker, external, hook, tests>>
    BY <1>2 DEF EnqueueSends, history
  <2> QED BY <2>1, <2>2, NewsInsert
<1>3. ASSUME NEW r \in Requests, EnqueueTestSend(r) PROVE NewsInv' /\ \A s \in Sends : RowForward(s)
  <2>1. PICK c \in Campaigns : c = request[r].campaign
    BY <1>3, RequestFields DEF EnqueueTestSend, TypeInv, TypeOK
  <2>2. PICK k \in Contacts : LET s == <<c, k>> IN
       \/ /\ Inserted(c, {k}, TRUE)
          /\ tests' = [tests EXCEPT ![s] = @ + 1]
          /\ UNCHANGED external
       \/ /\ Reusable(s)
          /\ row' = [row EXCEPT ![s] = "queued"]
          /\ isTest' = [isTest EXCEPT ![s] = TRUE]
          /\ external' = [external EXCEPT ![s] = 0]
          /\ tests' = [tests EXCEPT ![s] = @ + 1]
       \/ UNCHANGED <<row, isTest, external, tests>>
    BY <1>3, <2>1, RequestFields DEF EnqueueTestSend, TypeInv, TypeOK
  <2>3. UNCHANGED <<worker, hook>>
    BY <1>3 DEF EnqueueTestSend
  <2> DEFINE s == <<c, k>>
  <2>4. s \in Sends /\ \A q \in Sends : tests[q] \in Nat
    BY DEF Sends, TypeInv, TypeOK, WorldOK
  <2>5. CASE Inserted(c, {k}, TRUE) /\ tests' = [tests EXCEPT ![s] = @ + 1] /\ UNCHANGED external
    <3>1. \A q \in Sends : tests'[q] \in {tests[q], tests[q] + 1}
      BY <2>5 DEF TypeInv, TypeOK, WorldOK
    <3>2. \A q \in Sends : q[1] = c /\ q[2] \in {k} => tests'[q] = tests[q] + 1
      BY <2>5 DEF TypeInv, TypeOK, WorldOK, Sends
    <3> QED BY <2>3, <2>5, <3>1, <3>2, NewsInsert
  <2>6. CASE /\ Reusable(s)
             /\ row' = [row EXCEPT ![s] = "queued"]
             /\ isTest' = [isTest EXCEPT ![s] = TRUE]
             /\ external' = [external EXCEPT ![s] = 0]
             /\ tests' = [tests EXCEPT ![s] = @ + 1]
    <3>1. /\ tests'[s] = tests[s] + 1 /\ tests[s] >= 1 /\ ~(tests'[s] <= 1)
          /\ isTest' = isTest
          /\ \A q \in Sends \ {s} : /\ tests'[q] = tests[q] /\ row'[q] = row[q]
                                    /\ external'[q] = external[q]
      BY <2>4, <2>6 DEF Reusable, NewsInv, TestsWereAsked, TypeInv, TypeOK, WorldOK, TablesOK
    <3>2. InHands'
      BY <2>3, <3>1 DEF NewsInv, InHands, worker
    <3>3. TestsWereAsked'
      BY <2>4, <3>1 DEF NewsInv, TestsWereAsked
    <3>4. StillNews'
      <4>1. ASSUME NEW h \in Hooks, hook[h].step = "write", tests'[hook[h].send] <= 1
            PROVE  /\ external'[hook[h].send] # 0
                   /\ \/ row'[hook[h].send] = "replied"
                      \/ Advances(row'[hook[h].send], hook[h].status)
        <5>1. hook[h].send \in Sends \ {s}
          BY <3>1, <4>1, HookFields DEF TypeInv, TypeOK
        <5> QED BY <3>1, <4>1, <5>1 DEF NewsInv, StillNews
      <4> QED BY <2>3, <4>1 DEF NewsInv, StillNews, Advances
    <3>5. \A q \in Sends : RowForward(q)
      BY <3>1 DEF RowForward, MovesForward
    <3> QED BY <3>2, <3>3, <3>4, <3>5 DEF NewsInv
  <2>7. CASE UNCHANGED <<row, isTest, external, tests>>
    BY <2>3, <2>7, NewsIdle DEF worker
  <2> QED BY <2>2, <2>5, <2>6, <2>7
<1> QED BY <1>1, <1>2, <1>3 DEF Operator

\* The worker's steps; with two workers one may mark what the other one sent.
LEMMA NewsWork ==
  ASSUME NEW w, Workers = {w}, TypeInv, SentInv, NewsInv, Work(w) \/ Fault(w)
  PROVE  NewsInv' /\ \A s \in Sends : RowForward(s)
<1>1. CASE \/ Tick(w) \/ NextCampaign(w) \/ BatchDone(w) \/ FindDrained(w) \/ FinishDone(w)
           \/ (\E c \in Campaigns : Finish(w, c)) \/ Fault(w)
  <2>1. /\ UNCHANGED <<row, isTest, external, tests, jobs, hook>>
        /\ sending' = sending \/ sending' = [sending EXCEPT ![w] = Nothing]
    BY <1>1
    DEF Tick, NextCampaign, BatchDone, FindDrained, FinishDone, Finish, Fault, MarkError, TickError,
        FinishError, tables, history
  <2>2. sending'[w] \in {sending[w], Nothing}
    BY <2>1 DEF TypeInv, TypeOK, WorkersOK
  <2> QED BY <2>1, <2>2, NewsIdle
<1>2. ASSUME NEW test, NEW limit, NEW batch, Claim(w, test, limit, batch),
             at[w] \in {"tests", "claim"}
      PROVE  NewsInv' /\ \A s \in Sends : RowForward(s)
  <2>1. /\ sending[w] = Nothing /\ jobs'[w] = batch
        /\ \A s \in batch : s \in Sends /\ row[s] = "queued"
        /\ UNCHANGED <<row, isTest, external, tests, sending, hook>>
    BY <1>2, ClaimTakesQueued
    DEF Claimable, SentInv, Busy, TypeInv, TypeOK, WorkersOK, tables, history
  <2>2. InHands'
    BY <2>1, NothingIsNoSend DEF NewsInv, InHands
  <2>3. TestsWereAsked' /\ StillNews'
    BY <2>1 DEF NewsInv, TestsWereAsked, StillNews, Advances
  <2> QED BY <2>1, <2>2, <2>3 DEF NewsInv, RowForward, MovesForward
<1>3. CASE ClaimTestQueued(w) \/ ClaimQueued(w)
  BY <1>2, <1>3 DEF ClaimTestQueued, ClaimQueued, Goto
<1>4. ASSUME NEW s \in Sends, SendTemplate(w, s) \/ SendUnanswered(w, s) \/ SendRefused(w, s)
      PROVE  NewsInv' /\ \A q \in Sends : RowForward(q)
  <2>1. /\ s \in jobs[w] /\ sending'[w] = s /\ jobs'[w] = jobs[w] \ {s}
        /\ UNCHANGED <<row, isTest, external, tests, hook>>
    BY <1>4 DEF SendTemplate, SendUnanswered, SendRefused, TypeInv, TypeOK, WorkersOK, tables, history
  <2>2. InHands'
    BY <2>1 DEF NewsInv, InHands
  <2>3. TestsWereAsked' /\ StillNews'
    BY <2>1 DEF NewsInv, TestsWereAsked, StillNews, Advances
  <2> QED BY <2>1, <2>2, <2>3 DEF NewsInv, RowForward, MovesForward
<1>5. ASSUME NEW value \in {"sent", "failed"}, NEW id, Marked(w, value, id)
      PROVE  NewsInv' /\ \A q \in Sends : RowForward(q)
  <2>1. PICK s \in Sends : s = sending[w]
    BY <1>5 DEF Marked, TypeInv, TypeOK, WorkersOK
  <2>2. /\ s \notin jobs[w] /\ sending'[w] = Nothing
        /\ row'[s] = value /\ \A q \in Sends \ {s} : row'[q] = row[q] /\ external'[q] = external[q]
        /\ UNCHANGED <<isTest, jobs, tests, hook>>
    BY <1>5, <2>1 DEF Marked, TypeInv, TypeOK, WorkersOK, TablesOK, SentInv, Busy, history
  <2>3. tests[s] <= 1 => external[s] = 0 /\ row[s] \in {"queued", "replied"}
    BY <2>1 DEF NewsInv, InHands
  <2>4. InHands'
    BY <2>2, NothingIsNoSend DEF NewsInv, InHands
  <2>5. TestsWereAsked'
    BY <2>2 DEF NewsInv, TestsWereAsked
  <2>6. StillNews'
    <3>1. ASSUME NEW h \in Hooks, hook[h].step = "write", tests[hook[h].send] <= 1
          PROVE  /\ external'[hook[h].send] # 0
                 /\ \/ row'[hook[h].send] = "replied"
                    \/ Advances(row'[hook[h].send], hook[h].status)
      <4>1. hook[h].send \in Sends
        BY <3>1, HookFields DEF TypeInv, TypeOK
      <4>2. /\ external[hook[h].send] # 0
            /\ row[hook[h].send] = "replied" \/ Advances(row[hook[h].send], hook[h].status)
        BY <3>1 DEF NewsInv, StillNews
      <4>3. hook[h].send # s
        BY <2>3, <3>1, <4>2
      <4> QED BY <2>2, <4>1, <4>2, <4>3
    <3> QED BY <2>2, <3>1 DEF NewsInv, StillNews, Advances
  <2>7. \A q \in Sends : RowForward(q)
    BY <2>2, <2>3 DEF RowForward, MovesForward, StatusRank
  <2> QED BY <2>4, <2>5, <2>6, <2>7 DEF NewsInv
<1>6. CASE MarkSent(w) \/ MarkFailed(w)
  BY <1>5, <1>6 DEF MarkSent, MarkFailed
<1> QED BY <1>1, <1>3, <1>4, <1>6 DEF Work

LEMMA NewsWebhook ==
  ASSUME HooksOverlap = FALSE, TypeInv, NewsInv, Webhook
  PROVE  NewsInv' /\ \A s \in Sends : RowForward(s)
<1>1. ASSUME NEW h \in Hooks, NEW s \in Sends, NEW news \in Reported, ReadStatus(h, s, news)
      PROVE  NewsInv' /\ \A q \in Sends : RowForward(q)
  <2>1. /\ external[s] # 0 /\ \A g \in Hooks : hook[g].step # "write"
        /\ UNCHANGED <<row, isTest, external, tests, jobs, sending>>
        /\ \A g \in Hooks \ {h} : hook'[g] = hook[g]
    BY <1>1 DEF ReadStatus, tables, worker, history, TypeInv, TypeOK, FlightOK
  <2>2. hook'[h].step = "write" =>
          Advances(row[s], news) /\ hook'[h].send = s /\ hook'[h].status = news
    BY <1>1 DEF ReadStatus, Done, TypeInv, TypeOK, FlightOK
  <2>3. InHands' /\ TestsWereAsked'
    BY <2>1 DEF NewsInv, InHands, TestsWereAsked
  <2>4. StillNews'
    BY <2>1, <2>2 DEF NewsInv, StillNews, Advances
  <2> QED BY <2>1, <2>3, <2>4 DEF NewsInv, RowForward, MovesForward
<1>2. ASSUME NEW h \in Hooks, WriteStatus(h)
      PROVE  NewsInv' /\ \A q \in Sends : RowForward(q)
  <2>1. PICK s \in Sends, news \in Reported :
          hook[h].step = "write" /\ hook[h].send = s /\ hook[h].status = news
    BY <1>2, HookFields DEF WriteStatus, TypeInv, TypeOK
  <2>2. /\ row'[s] = news /\ \A q \in Sends \ {s} : row'[q] = row[q]
        /\ UNCHANGED <<isTest, external, tests, jobs, sending>>
        /\ \A g \in Hooks : hook'[g].step # "write"
    BY <1>2, <2>1
    DEF WriteStatus, NewsInv, StillNews, Done, worker, history, TypeInv, TypeOK, TablesOK, FlightOK
  <2>3. tests[s] <= 1 => /\ external[s] # 0
                         /\ row[s] = "replied" \/ Advances(row[s], news)
    BY <2>1 DEF NewsInv, StillNews
  <2>4. InHands'
    BY <2>2, <2>3 DEF NewsInv, InHands, Reported
  <2>5. TestsWereAsked' /\ StillNews'
    BY <2>2 DEF NewsInv, TestsWereAsked, StillNews
  <2>6. \A q \in Sends : RowForward(q)
    BY <2>2, <2>3 DEF RowForward, MovesForward, Advances
  <2> QED BY <2>4, <2>5, <2>6 DEF NewsInv
<1>3. ASSUME NEW k \in Contacts, OptOut(k) PROVE NewsInv' /\ \A q \in Sends : RowForward(q)
  BY <1>3, NewsIdle DEF OptOut, worker, history
<1>4. ASSUME NEW k \in Contacts, Reply(k) PROVE NewsInv' /\ \A q \in Sends : RowForward(q)
  <2>1. PICK s \in Sends : s = <<newest[k], k>>
    BY <1>4 DEF Reply, TypeInv, TypeOK, TablesOK, Sends
  <2>2. /\ row'[s] = "replied" /\ \A q \in Sends \ {s} : row'[q] = row[q]
        /\ UNCHANGED <<isTest, external, tests, jobs, sending, hook>>
    BY <1>4, <2>1 DEF Reply, worker, history, TypeInv, TypeOK, TablesOK
  <2>3. InHands' /\ TestsWereAsked'
    BY <2>2 DEF NewsInv, InHands, TestsWereAsked
  <2>4. \A h \in Hooks : hook[h].step = "write" => hook[h].send \in Sends
    BY HookFields DEF TypeInv, TypeOK
  <2>5. StillNews'
    BY <2>2, <2>4 DEF NewsInv, StillNews, Advances
  <2>6. \A q \in Sends : RowForward(q)
    BY <2>2 DEF RowForward, MovesForward
  <2> QED BY <2>3, <2>5, <2>6 DEF NewsInv
<1> QED BY <1>1, <1>2, <1>3, <1>4 DEF Webhook

LEMMA NewsStep ==
  ASSUME NEW w, Workers = {w}, HooksOverlap = FALSE, TypeInv, SentInv, NewsInv, [Next]_vars
  PROVE  NewsInv' /\ \A s \in Sends : RowForward(s)
<1>1. CASE Crash
  BY <1>1, NewsIdle DEF Crash, tables, history, NoHook, Done
<1>2. CASE (\E c \in Campaigns : Opens(c) \/ Closes(c)) \/ UNCHANGED vars
  BY <1>2, NewsIdle DEF Opens, Closes, vars, tables, worker, history
<1> QED BY <1>1, <1>2, NewsOperator, NewsWork, NewsWebhook DEF Next

\* With one worker, and statuses delivered one at a time, the row of a message
\* that was asked for once and not replied to only moves forward.
THEOREM OneUseMovesForward ==
  ASSUME NEW w, Workers = {w}, HooksOverlap = FALSE
  PROVE  Spec => OnceNeverRegresses
<1> DEFINE Inv == TypeInv /\ SentInv /\ NewsInv
           Forward == \A s \in Sends : RowForward(s)
<1>1. Init => Inv
  BY InitIsTyped, SentInvInit, NewsInvInit
<1>2. Inv /\ [Next]_vars => Inv' /\ Forward
  BY TypesHold, SentStep, NewsStep
<1>3. Spec => [][Forward]_vars
  BY <1>1, <1>2, PTL DEF Spec
<1> QED BY <1>3 DEF OnceNeverRegresses, RowForward
=============================================================================
