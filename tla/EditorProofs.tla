---------------------------- MODULE EditorProofs ----------------------------
(***************************************************************************)
(* The campaign editor: the document in any number of tabs (EditorSync),   *)
(* and one flow on the canvas (FlowEditor), each with its inductive        *)
(* invariant and its theorems; what the preview of a flow computes         *)
(* (FlowRules, FlowPreview); and the editor, the two side by side.         *)
(***************************************************************************)
EXTENDS Editor, Sequences, FiniteSetTheorems, TLAPS

-----------------------------------------------------------------------------
(* Types.                                                                    *)

LEMMA OverwritesFields ==
  ASSUME NEW kind \in Kinds PROVE Overwrites(kind) \subseteq Fields
BY DEF Kinds, Overwrites, Fields, Texts

LEMMA RunsIntoFields ==
  ASSUME NEW t \in Tabs, NEW fields \in SUBSET Fields PROVE RunsInto(t, fields) \subseteq Fields
BY DEF RunsInto

LEMMA RequestIsTyped ==
  ASSUME NEW t \in Tabs, NEW kind \in Kinds
  PROVE  Request(t, kind) \in Requests
BY SyncAssumption
   DEF SyncAssumption, Request, Requests, NewAccount, Docs, Versions, TemplateStatus,
       CampaignStatus, Thens, Stages

LEMMA PutIsTyped ==
  ASSUME NEW t \in Tabs, NEW doc \in Docs, NEW then \in Thens
  PROVE  /\ Put(t, doc, then) \in Requests
         /\ Put(t, doc, then).tab = t /\ Put(t, doc, then).kind = "put"
         /\ Put(t, doc, then).stage = "sent" /\ Put(t, doc, then).doc = doc
         /\ Put(t, doc, then).then = then
BY DEF Put, Request, Requests, Kinds, Stages

\* What a request becomes.
LEMMA BecomesTyped ==
  ASSUME NEW r \in Requests, NEW stage \in Stages, NEW doc \in Docs
  PROVE  LET n == [r EXCEPT !.stage = stage, !.doc = doc] IN
         /\ n \in Requests
         /\ n.tab = r.tab /\ n.kind = r.kind /\ n.then = r.then
         /\ n.stage = stage /\ n.doc = doc
BY DEF Requests

LEMMA MergeIsTyped ==
  ASSUME NEW local \in Docs, NEW answer \in Docs PROVE Merge(local, answer) \in Docs
BY DEF Merge, TemplateStatusOf, Docs

LEMMA ShownIsTyped ==
  ASSUME TypeOK, NEW r \in net, r.kind # "put" PROVE Shown(r) \in Docs
<1>1. r \in Requests /\ r.tab \in Tabs /\ r.doc \in Docs /\ r.kind \in Kinds
  BY DEF TypeOK, Requests
<1>2. view[r.tab] \in Docs
  BY <1>1 DEF TypeOK
<1>3. [view[r.tab] EXCEPT !.st = "running"] \in Docs
  BY <1>2 DEF Docs, CampaignStatus
<1>4. [view[r.tab] EXCEPT !.ts = TemplateStatusOf(view[r.tab], r.doc)] \in Docs
  BY <1>1, <1>2 DEF Docs, TemplateStatusOf
<1> QED BY <1>1, <1>2, <1>3, <1>4, MergeIsTyped DEF Shown, Kinds

\* What goes on after a PUT.
LEMMA ContinueIsTyped ==
  ASSUME TypeOK, NEW r \in net, NEW then \in Thens, Continue(r, then) PROVE net' \subseteq Requests
<1>1. r \in Requests /\ r.tab \in Tabs /\ r.then \in Thens
  BY DEF TypeOK, Requests
<1>2. Request(r.tab, "launch") \in Requests /\ Request(r.tab, "submit") \in Requests
  BY <1>1, RequestIsTyped DEF Kinds
<1>3. /\ [Request(r.tab, "launch") EXCEPT !.then = then] \in Requests
      /\ [Request(r.tab, "submit") EXCEPT !.then = r.then] \in Requests
  BY <1>1, <1>2 DEF Requests
<1> QED BY <1>3 DEF Continue, TypeOK

\* A document with one part written.
LEMMA WrittenIsTyped ==
  ASSUME NEW d \in Docs
  PROVE  /\ \A n \in Versions : [d EXCEPT !.seg = n] \in Docs /\ [d EXCEPT !.rest = n] \in Docs
         /\ \A s \in CampaignStatus : [d EXCEPT !.st = s] \in Docs
         /\ \A s \in TemplateStatus : [d EXCEPT !.ts = s] \in Docs
BY DEF Docs

LEMMA InitTypes == Init => TypeOK
<1> SUFFICES ASSUME Init PROVE TypeOK
  OBVIOUS
<1>1. PICK t \in {"none", "draft", "approved"}, c \in {"draft", "running"} :
        srv = [NewAccount EXCEPT !.ts = t, !.st = c] /\ known = (t = "approved")
        /\ verdict = IF known THEN t ELSE "none"
  BY DEF Init
<1>2. srv \in Docs
  <2>1. srv = [ts |-> t, seg |-> 0, rest |-> 0, st |-> c]
    BY <1>1 DEF NewAccount
  <2>2. 0 \in Versions /\ t \in TemplateStatus /\ c \in CampaignStatus
    BY SyncAssumption DEF SyncAssumption, Versions, TemplateStatus, CampaignStatus
  <2> QED BY <2>1, <2>2 DEF Docs
<1>3. known \in BOOLEAN /\ verdict \in {"none", "pending"} \cup Verdicts
  BY <1>1 DEF Verdicts
<1> QED BY <1>2, <1>3, SyncAssumption DEF SyncAssumption, Init, TypeOK, Versions, Thens

LEMMA TypesHold == TypeOK /\ [Next]_vars => TypeOK'
<1> SUFFICES ASSUME TypeOK, [Next]_vars PROVE TypeOK'
  OBVIOUS
<1> USE SyncAssumption DEF SyncAssumption
<1>1. ASSUME NEW t \in Tabs, EditSegments(t) PROVE TypeOK'
  <2>1. edits' \in Versions
    BY <1>1 DEF EditSegments, Edit, TypeOK, Versions
  <2>2. [view[t] EXCEPT !["seg"] = edits'] \in Docs
    BY <2>1, WrittenIsTyped DEF TypeOK
  <2> QED BY <1>1, <2>1, <2>2, RunsIntoFields
       DEF EditSegments, Edit, Shows, Schedule, TypeOK, Fields, Texts, Versions, server
<1>2. ASSUME NEW t \in Tabs, EditRest(t) PROVE TypeOK'
  <2>1. edits' \in Versions
    BY <1>2 DEF EditRest, Edit, TypeOK, Versions
  <2>2. [view[t] EXCEPT !["rest"] = edits'] \in Docs
    BY <2>1, WrittenIsTyped DEF TypeOK
  <2> QED BY <1>2, <2>1, <2>2, RunsIntoFields
       DEF EditRest, Edit, Shows, Schedule, TypeOK, Fields, Texts, Versions, server
<1>3. ASSUME NEW t \in Tabs, CreateDraft(t) PROVE TypeOK'
  <2>1. [view[t] EXCEPT !.ts = "draft"] \in Docs
    BY WrittenIsTyped DEF TypeOK, TemplateStatus
  <2> QED BY <1>3, <2>1, RunsIntoFields
       DEF CreateDraft, Click, Shows, Schedule, TypeOK, Fields, Texts, server
<1>4. ASSUME NEW t \in Tabs, CreateAndSubmit(t) PROVE TypeOK'
  <2>1. [view[t] EXCEPT !.ts = "pending"] \in Docs
    BY WrittenIsTyped DEF TypeOK, TemplateStatus
  <2> QED BY <1>4, <2>1, RunsIntoFields
       DEF CreateAndSubmit, Click, Shows, TypeOK, Fields, Texts, server, Thens
<1>5. ASSUME NEW t \in Tabs, Submit(t) PROVE TypeOK'
  BY <1>5 DEF Submit, Click, TypeOK, server, history, Thens
<1>6. ASSUME NEW t \in Tabs, Sync(t) PROVE TypeOK'
  BY <1>6, RequestIsTyped DEF Sync, Send, TypeOK, server, tabs, bounds, history, Kinds
<1>7. ASSUME NEW t \in Tabs, Pause(t) PROVE TypeOK'
  <2>1. [view[t] EXCEPT !.st = "paused"] \in Docs
    BY WrittenIsTyped DEF TypeOK, CampaignStatus
  <2> QED BY <1>7, <2>1, RunsIntoFields
       DEF Pause, Click, Shows, Schedule, TypeOK, Fields, Texts, server
<1>8. ASSUME NEW t \in Tabs, Launch(t) PROVE TypeOK'
  BY <1>8, RequestIsTyped DEF Launch, Click, Send, TypeOK, server, tabs, Kinds
<1>9. ASSUME NEW t \in Tabs, Publish(t) PROVE TypeOK'
  <2>1. edits' \in Versions /\ "running" \in CampaignStatus
    BY <1>9 DEF Publish, TypeOK, Versions, CampaignStatus
  <2>2. [view[t] EXCEPT !.rest = edits', !.st = "running"] \in Docs
    BY <2>1 DEF TypeOK, Docs
  <2> QED BY <1>9, <2>1, <2>2, RunsIntoFields
       DEF Publish, Shows, TypeOK, Fields, Texts, Versions, server, Thens
<1>10. ASSUME NEW t \in Tabs, Reload(t) PROVE TypeOK'
  BY <1>10, RequestIsTyped, OverwritesFields
  DEF Reload, Click, AskAfterEdits, TypeOK, server, tabs, Kinds
<1>11. ASSUME NEW t \in Tabs, ChangeChannel(t) PROVE TypeOK'
  BY <1>11, RequestIsTyped, OverwritesFields
  DEF ChangeChannel, Click, Send, AskAfterEdits, TypeOK, server, tabs, Kinds
<1>12. ASSUME NEW t \in Tabs, SaveSettings(t) PROVE TypeOK'
  <2>0. edits' \in Versions
    BY <1>12 DEF SaveSettings, TypeOK, Versions
  <2>1. [view[t] EXCEPT !.rest = edits'] \in Docs /\ [ref[t] EXCEPT !.rest = edits'] \in Docs
    BY <2>0, WrittenIsTyped DEF TypeOK
  <2>2. ref' \in [Tabs -> Docs] /\ view' \in [Tabs -> Docs]
    BY <1>12, <2>1 DEF SaveSettings, TypeOK
  <2>3. net' \subseteq Requests
    BY <1>12, <2>2, PutIsTyped DEF SaveSettings, Send, TypeOK, Thens
  <2> QED BY <1>12, <2>0, <2>2, <2>3, RunsIntoFields
       DEF SaveSettings, TypeOK, Fields, Texts, server
<1>13. ASSUME NEW t \in Tabs, Render(t) PROVE TypeOK'
  BY <1>13 DEF Render, TypeOK, server, bounds, history
<1>14. ASSUME NEW t \in Tabs, TimerFires(t) PROVE TypeOK'
  BY <1>14, PutIsTyped DEF TimerFires, Flush, Send, TypeOK, server, bounds, Thens
<1>15. ASSUME NEW t \in Tabs, AsapFires(t) PROVE TypeOK'
  <2>1. asap[t] \in Thens /\ ref[t] \in Docs /\ "nothing" \in Thens
    BY DEF TypeOK, Thens
  <2> QED BY <1>15, <2>1, PutIsTyped DEF AsapFires, Flush, Send, TypeOK, server, bounds
<1>16. ASSUME NEW t \in Tabs, Poll(t) PROVE TypeOK'
  BY <1>16, RequestIsTyped, OverwritesFields
  DEF Poll, Send, TypeOK, server, tabs, bounds, Kinds
<1>17. ASSUME NEW r \in net, Handles(r) PROVE TypeOK'
  <2> USE DEF server, tabs, bounds, history
  <2>1. r \in Requests /\ r.tab \in Tabs /\ r.doc \in Docs
    BY DEF TypeOK, Requests
  <2>2. NewAccount \in Docs
    BY DEF NewAccount, Docs, Versions, TemplateStatus, CampaignStatus
  <2>3. srv \in Docs /\ srv.ts \in TemplateStatus /\ verdict \in TemplateStatus
    BY DEF TypeOK, Docs, TemplateStatus, Verdicts
  <2>4. \A s \in Stages, d \in Docs : Becomes(r, s, d) => net' \subseteq Requests
    <3>1. \A s \in Stages, d \in Docs : [r EXCEPT !.stage = s, !.doc = d] \in Requests
      BY <2>1 DEF Requests
    <3> QED BY <3>1 DEF Becomes, TypeOK
  <2>5. CASE PutRead(r)
    <3>1. [r.doc EXCEPT !.ts = IF @ = "none" THEN "none"
                               ELSE IF srv.ts = "none" THEN "draft" ELSE srv.ts] \in Docs
      BY <2>1, <2>3 DEF Docs, TemplateStatus
    <3> QED BY <2>5, <2>4, <3>1 DEF PutRead, TypeOK, Stages
  <2>6. CASE PutWrite(r)
    BY <2>6, <2>1, <2>4 DEF PutWrite, TypeOK, Stages
  <2>7. CASE Bootstrap(r)
    BY <2>7, <2>3, <2>4 DEF Bootstrap, TypeOK, Stages
  <2>8. CASE HandleLaunch(r)
    <3>1. [srv EXCEPT !.st = "running"] \in Docs
      BY WrittenIsTyped DEF TypeOK, CampaignStatus
    <3>2. net' \subseteq Requests
      BY <2>8, <2>1, <2>2, <2>4 DEF HandleLaunch, Refuse, TypeOK, Stages
    <3>3. srv' \in Docs
      BY <2>8, <3>1 DEF HandleLaunch, TypeOK
    <3>4. raced' \in [Tabs -> SUBSET Fields]
      BY <2>8 DEF HandleLaunch, TypeOK, Fields
    <3> QED BY <2>8, <3>2, <3>3, <3>4 DEF HandleLaunch, TypeOK
  <2>9. CASE SubmitToMeta(r)
    BY <2>9, <2>2, <2>3, <2>4 DEF SubmitToMeta, Refuse, TypeOK, Stages, Verdicts
  <2>10. CASE HandleSync(r)
    BY <2>10, <2>2, <2>3, <2>4, WrittenIsTyped DEF HandleSync, Refuse, TypeOK, Stages
  <2>11. ASSUME NEW s \in {"pending", "approved"}, MarkSubmitted(r, s) PROVE TypeOK'
    <3>1. [srv EXCEPT !.ts = s] \in Docs
      BY <2>3, WrittenIsTyped DEF TemplateStatus
    <3>2. net' \subseteq Requests
      BY <2>11, <2>2, <2>4, <3>1 DEF MarkSubmitted, Refuse, Stages
    <3> QED BY <2>11, <3>1, <3>2 DEF MarkSubmitted, TypeOK, Verdicts
  <2> QED BY <1>17, <2>5, <2>6, <2>7, <2>8, <2>9, <2>10, <2>11 DEF Handles
<1>18. ASSUME NEW r \in net, Returns(r) \/ Fails(r) PROVE TypeOK'
  <2> USE DEF server, bounds, history
  <2>1. r \in Requests /\ r.tab \in Tabs /\ r.doc \in Docs
    BY DEF TypeOK, Requests
  <2>2. \A e \in BOOLEAN : AskedWhileUnsaved(r, e) \subseteq Fields
    BY OverwritesFields DEF AskedWhileUnsaved, Kinds
  <2>3. CASE PutAnswered(r)
    BY <2>3, <2>1, <2>2, MergeIsTyped, ContinueIsTyped DEF PutAnswered, TypeOK, Thens
  <2>4. CASE Answered(r)
    BY <2>4, <2>1, ShownIsTyped DEF Answered, TypeOK, Fields
  <2>5. CASE Refused(r)
    BY <2>5, <2>1 DEF Refused, TellsError, TypeOK
  <2>6. CASE PutFailed(r)
    <3>1. net' \subseteq Requests
      BY <2>6, ContinueIsTyped DEF PutFailed, Thens
    <3>2. raced' \in [Tabs -> SUBSET Fields]
      BY <2>6, <2>2 DEF PutFailed, TypeOK
    <3>3. faults' \in 0..MaxFaults
      BY <2>6 DEF PutFailed, TypeOK
    <3>4. status' \in [Tabs -> {"saving", "saved", "error"}]
      BY <2>6 DEF PutFailed, TypeOK
    <3> QED BY <2>6, <3>1, <3>2, <3>3, <3>4 DEF PutFailed, TypeOK
  <2>7. CASE Failed(r)
    BY <2>7, <2>1 DEF Failed, TellsError, TypeOK
  <2> QED BY <1>18, <2>3, <2>4, <2>5, <2>6, <2>7 DEF Returns, Fails
<1>19. ASSUME NEW d \in Verdicts, Review(d) \/ Webhook(d) PROVE TypeOK'
  <2>1. d \in TemplateStatus /\ srv \in Docs
    BY DEF Verdicts, TemplateStatus, TypeOK
  <2> QED BY <1>19, <2>1, WrittenIsTyped
       DEF Review, Webhook, TypeOK, tabs, bounds, history
<1>20. ASSUME Finish PROVE TypeOK'
  <2>1. [srv EXCEPT !.st = "finished"] \in Docs
    BY WrittenIsTyped DEF TypeOK, CampaignStatus
  <2> QED BY <1>20, <2>1 DEF Finish, TypeOK, tabs, history
<1>21. CASE UNCHANGED vars
  BY <1>21 DEF TypeOK, vars, server, tabs, bounds, history
<1> QED BY <1>1, <1>2, <1>3, <1>4, <1>5, <1>6, <1>7, <1>8, <1>9, <1>10, <1>11, <1>12, <1>13,
          <1>14, <1>15, <1>16, <1>17, <1>18, <1>19, <1>20, <1>21 DEF Next, Uses, Runs

\* Every variable of the tabs, of the requests and of the server stays in its
\* set, for any tabs, buttons and bounds.
THEOREM SyncTypeCorrect == Spec => []TypeOK
<1> QED BY InitTypes, TypesHold, PTL DEF Spec

-----------------------------------------------------------------------------
(* Whose status a template has.                                              *)

Backed(s) ==
  /\ s \in {"pending"} \cup Verdicts => verdict # "none"
  /\ s = "approved" => verdict = "approved"

\* The status of the row, and every status on its way to it (a webhook, a PUT
\* that has read the rows, a submission at Meta), is one that Meta has given.
MetaInv ==
  /\ known => verdict # "none" /\ srv.ts # "none"
  /\ \A d \in hooks : Backed(d)
  /\ \A r \in net : r.stage = "atMeta" => verdict # "none"
  /\ \A r \in net : r.kind = "put" /\ r.stage = "read" => Backed(r.doc.ts)
  /\ Backed(srv.ts)

LEMMA InitMeta == Init => MetaInv
BY DEF Init, MetaInv, Backed, NewAccount, Verdicts

\* What a tab does changes nothing on the server and asks for something at most.
LEMMA TabsOnlyAsk ==
  ASSUME TypeOK, NEW t \in Tabs, Uses(t) \/ Runs(t)
  PROVE  /\ UNCHANGED server
         /\ \A r \in net' : r \in net \/ (r.tab = t /\ r.stage = "sent")
         /\ \A r \in net : r \in net' \/ r.tab = t
<1>1. \A k \in Kinds : Request(t, k).tab = t /\ Request(t, k).stage = "sent"
  BY DEF Request
<1>2. \A d \in Docs, then \in Thens : Put(t, d, then).tab = t /\ Put(t, d, then).stage = "sent"
  BY PutIsTyped
<1>3. asap[t] \in Thens /\ "nothing" \in Thens /\ ref[t] \in Docs
  BY DEF TypeOK, Thens
<1>4. CASE Uses(t)
  <2>1. CASE \/ EditSegments(t) \/ EditRest(t) \/ CreateDraft(t) \/ CreateAndSubmit(t)
             \/ Submit(t) \/ Pause(t) \/ Publish(t)
    BY <2>1 DEF EditSegments, EditRest, Edit, CreateDraft, CreateAndSubmit, Submit, Pause, Publish
  <2>2. CASE Sync(t) \/ Launch(t) \/ ChangeChannel(t)
    BY <2>2, <1>1 DEF Sync, Launch, ChangeChannel, Send, Kinds
  <2>3. CASE Reload(t)
    BY <2>3, <1>1 DEF Reload, InFlight, Kinds
  <2>4. CASE SaveSettings(t)
    BY <2>4 DEF SaveSettings, Send, Put, Request
  <2> QED BY <1>4, <2>1, <2>2, <2>3, <2>4 DEF Uses
<1>5. CASE Runs(t)
  BY <1>5, <1>1, <1>2, <1>3 DEF Runs, Render, TimerFires, AsapFires, Poll, Flush, Send, Kinds
<1> QED BY <1>4, <1>5

\* The end of a request changes nothing on the server either.
LEMMA AnswersOnlyAsk ==
  ASSUME TypeOK, NEW r \in net, Returns(r) \/ Fails(r)
  PROVE  /\ UNCHANGED server
         /\ net \ {r} \subseteq net'
         /\ \A q \in net' : q \in net \ {r} \/
              (q.tab = r.tab /\ q.kind \in {"launch", "submit"} /\ q.stage = "sent")
<1>1. UNCHANGED server
  BY DEF Returns, Fails, PutAnswered, Answered, Refused, PutFailed, Failed, TellsError
<1>2. ASSUME NEW then, Continue(r, then)
      PROVE  /\ net \ {r} \subseteq net'
             /\ \A q \in net' : q \in net \ {r} \/
                  (q.tab = r.tab /\ q.kind \in {"launch", "submit"} /\ q.stage = "sent")
  BY <1>2 DEF Continue, Request
<1>3. ASSUME net' = net \ {r}
      PROVE  /\ net \ {r} \subseteq net'
             /\ \A q \in net' : q \in net \ {r}
  BY <1>3
<1> QED BY <1>1, <1>2, <1>3
        DEF Returns, Fails, PutAnswered, Answered, Refused, PutFailed, Failed, TellsError

\* How the server changes one request.
LEMMA ServerAnswers ==
  ASSUME TypeOK, NEW r \in net, Handles(r)
  PROVE  /\ UNCHANGED tabs
         /\ net \ {r} \subseteq net'
         /\ \E n : /\ net' \subseteq (net \ {r}) \cup {n}
                  /\ n.tab = r.tab /\ n.kind = r.kind /\ n.then = r.then
<1>1. r \in Requests
  BY DEF TypeOK
<1>2. UNCHANGED tabs
  BY DEF Handles, PutRead, PutWrite, Bootstrap, HandleLaunch, SubmitToMeta, MarkSubmitted, HandleSync
<1>3. ASSUME NEW stage, NEW doc, Becomes(r, stage, doc)
      PROVE  /\ net \ {r} \subseteq net'
             /\ \E n : /\ net' \subseteq (net \ {r}) \cup {n}
                      /\ n.tab = r.tab /\ n.kind = r.kind /\ n.then = r.then
  <2> DEFINE n == [r EXCEPT !.stage = stage, !.doc = doc]
  <2>1. n.tab = r.tab /\ n.kind = r.kind /\ n.then = r.then
    BY <1>1 DEF Requests
  <2>2. net' = (net \ {r}) \cup {n}
    BY <1>3 DEF Becomes
  <2> HIDE DEF n
  <2> QED BY <2>1, <2>2
<1>4. net' = net \ {r} \/ \E stage, doc : Becomes(r, stage, doc)
  BY DEF Handles, PutRead, PutWrite, Bootstrap, HandleLaunch, SubmitToMeta, MarkSubmitted,
         HandleSync, Refuse
<1> QED BY <1>2, <1>3, <1>4

LEMMA StepMeta == TypeOK /\ MetaInv /\ [Next]_vars => MetaInv'
<1> SUFFICES ASSUME TypeOK, MetaInv, [Next]_vars PROVE MetaInv'
  OBVIOUS
<1>1. ASSUME UNCHANGED server, \A r \in net' : r \in net \/ r.stage = "sent" PROVE MetaInv'
  BY <1>1 DEF MetaInv, Backed, server
<1>2. ASSUME NEW t \in Tabs, Uses(t) \/ Runs(t) PROVE MetaInv'
  BY <1>2, <1>1, TabsOnlyAsk
<1>3. ASSUME NEW r \in net, Returns(r) \/ Fails(r) PROVE MetaInv'
  BY <1>3, <1>1, AnswersOnlyAsk
<1>4. ASSUME NEW r \in net, Handles(r) PROVE MetaInv'
  <2> USE DEF server, tabs, bounds, history
  <2>1. r \in Requests /\ srv \in Docs /\ r.doc \in Docs
    BY DEF TypeOK, Requests
  <2>2. ASSUME NEW s, NEW d, Becomes(r, s, d)
        PROVE  \A q \in net' : q \in net \/ (q.stage = s /\ q.doc = d /\ q.kind = r.kind)
    BY <2>1, <2>2 DEF Becomes, Requests
  <2>3. CASE PutRead(r)
    BY <2>3, <2>1, <2>2 DEF PutRead, MetaInv, Backed, Docs, Verdicts
  <2>4. CASE PutWrite(r)
    <3>1. \A q \in net' : q \in net \/ q.stage = "answered"
      BY <2>4, <2>2 DEF PutWrite
    <3>2. Backed(r.doc.ts) /\ UNCHANGED <<verdict, hooks>> /\ srv' = r.doc
      BY <2>4 DEF PutWrite, MetaInv
    <3>3. known' => known /\ srv'.ts # "none"
      BY <2>4 DEF PutWrite
    <3> QED BY <3>1, <3>2, <3>3 DEF MetaInv, Backed
  <2>5. CASE Bootstrap(r)
    BY <2>5, <2>2 DEF Bootstrap, MetaInv, Backed
  <2>6. CASE HandleLaunch(r)
    <3>1. srv'.ts = srv.ts
      BY <2>6, <2>1 DEF HandleLaunch, Docs
    <3>2. \A q \in net' : q \in net \/ q.stage \in {"answered", "refused"}
      BY <2>6, <2>2 DEF HandleLaunch, Refuse
    <3> QED BY <2>6, <3>1, <3>2 DEF HandleLaunch, MetaInv, Backed
  <2>7. CASE SubmitToMeta(r)
    <3>1. \A q \in net' : q \in net \/ q.stage = "refused" \/ (q.stage = "atMeta" /\ verdict' # "none")
      BY <2>7, <2>2 DEF SubmitToMeta, Refuse
    <3>2. /\ verdict # "none" => verdict' # "none"
          /\ verdict = "approved" => verdict' = "approved"
      BY <2>7 DEF SubmitToMeta
    <3> QED BY <2>7, <3>1, <3>2 DEF SubmitToMeta, MetaInv, Backed
  <2>8. CASE HandleSync(r)
    <3>1. \A q \in net' : q \in net \/ q.stage \in {"answered", "refused"}
      BY <2>8, <2>2 DEF HandleSync, Refuse
    <3>2. srv' = srv \/ (known /\ srv'.ts = verdict)
      BY <2>8, <2>1 DEF HandleSync, Docs
    <3> QED BY <2>8, <3>1, <3>2 DEF HandleSync, MetaInv, Backed
  <2>9. ASSUME NEW s \in {"pending", "approved"}, MarkSubmitted(r, s) PROVE MetaInv'
    <3>1. \A q \in net' : q \in net \/ q.stage \in {"answered", "refused"}
      BY <2>9, <2>2 DEF MarkSubmitted, Refuse
    <3>2. verdict # "none"
      BY <2>9 DEF MarkSubmitted, MetaInv
    <3>3. \/ UNCHANGED <<srv, known, verdict>>
          \/ srv'.ts = s /\ verdict' = (IF s = "approved" THEN s ELSE verdict)
      BY <2>9, <2>1 DEF MarkSubmitted, Docs
    <3> QED BY <2>9, <3>1, <3>2, <3>3 DEF MarkSubmitted, MetaInv, Backed
  <2> QED BY <1>4, <2>3, <2>4, <2>5, <2>6, <2>7, <2>8, <2>9 DEF Handles
<1>5. ASSUME NEW d \in Verdicts, Review(d) PROVE MetaInv'
  BY <1>5 DEF Review, MetaInv, Backed, Verdicts
<1>6. ASSUME NEW d \in Verdicts, Webhook(d) PROVE MetaInv'
  <2>1. srv' = srv \/ srv'.ts = d
    BY <1>6 DEF Webhook, TypeOK, Docs
  <2> QED BY <1>6, <2>1 DEF Webhook, MetaInv, Backed, Verdicts
<1>7. ASSUME Finish PROVE MetaInv'
  <2>1. srv'.ts = srv.ts
    BY <1>7 DEF Finish, TypeOK, Docs
  <2> QED BY <1>7, <2>1 DEF Finish, MetaInv, Backed
<1>8. CASE UNCHANGED vars
  BY <1>8, <1>1 DEF vars
<1> QED BY <1>2, <1>3, <1>4, <1>5, <1>6, <1>7, <1>8 DEF Next

\* Whatever the tabs send and in whatever order the server, Meta and its
\* webhooks answer, a template is under review or decided only if it went to
\* Meta, and approved only if Meta approved it.
THEOREM StatusComesFromMeta == Spec => []StatusIsMetas
<1>1. MetaInv => StatusIsMetas
  BY DEF MetaInv, Backed, StatusIsMetas
<1> QED BY <1>1, InitTypes, TypesHold, InitMeta, StepMeta, PTL DEF Spec

-----------------------------------------------------------------------------
(* What a tab has and the server has not.                                    *)

IsPut(r, t) == r.tab = t /\ r.kind = "put"
Late(t) == timer[t] \/ asap[t] # "nothing"

\* Whose answer replaces field f in the tab, other than a PUT's.
Replaces(r, t, f) ==
  r.tab = t /\ r.kind \in {"poll", "boot", "channel"} /\ f \in Overwrites(r.kind)
Asked(t, f) == \E r \in net : Replaces(r, t, f)

\* The server is still to be told, or the screen says that it was not.
Coming(t) ==
  Late(t) \/ status[t] = "error" \/ \E p \in net : IsPut(p, t) /\ p.stage # "answered"

\* Unless they raced, a tab has one PUT under way.
OnePut(t) == \A p, q \in net : IsPut(p, t) /\ IsPut(q, t) => p = q
PutsInv == \A t \in Tabs : raced[t] = Fields \/ OnePut(t)

\* Nothing happens to a tab: its state and its requests stay as they are.
Still(t) ==
  /\ view'[t] = view[t] /\ ref'[t] = ref[t] /\ dirty'[t] = dirty[t] /\ timer'[t] = timer[t]
  /\ status'[t] = status[t] /\ asap'[t] = asap[t]
  /\ \A r \in Requests : r.tab = t => (r \in net' <=> r \in net)

\* A step of one tab leaves the others alone.
LEMMA OthersAreStill ==
  ASSUME TypeOK, TypeOK', NEW t \in Tabs, NEW u \in Tabs, u # t,
         \/ Uses(t) \/ Runs(t)
         \/ \E r \in net : r.tab = t /\ (Returns(r) \/ Fails(r) \/ Handles(r))
  PROVE  Still(u)
<1>1. ASSUME Uses(t) \/ Runs(t) PROVE Still(u)
  <2>1. \A r \in Requests : r.tab = u => (r \in net' <=> r \in net)
    BY <1>1, TabsOnlyAsk
  <2>2. CASE Uses(t)
    <3>1. CASE EditSegments(t) \/ EditRest(t)
      BY <3>1, <2>1 DEF Still, TypeOK, EditSegments, EditRest, Edit, Shows, Schedule
    <3>2. CASE CreateDraft(t) \/ CreateAndSubmit(t) \/ Submit(t)
      BY <3>2, <2>1 DEF Still, TypeOK, CreateDraft, CreateAndSubmit, Submit, Shows, Schedule
    <3>3. CASE Sync(t) \/ Launch(t) \/ Reload(t) \/ ChangeChannel(t)
      BY <3>3, <2>1 DEF Still, Sync, Launch, Reload, ChangeChannel, tabs
    <3>4. CASE Pause(t) \/ Publish(t) \/ SaveSettings(t)
      BY <3>4, <2>1 DEF Still, TypeOK, Pause, Publish, SaveSettings, Shows, Schedule
    <3> QED BY <2>2, <3>1, <3>2, <3>3, <3>4 DEF Uses
  <2>3. CASE Runs(t)
    BY <2>1, <2>3 DEF Still, TypeOK, Runs, Render, TimerFires, AsapFires, Poll, Flush, tabs
  <2> QED BY <1>1, <2>2, <2>3
<1>2. ASSUME NEW r \in net, r.tab = t, Returns(r) \/ Fails(r) PROVE Still(u)
  <2>1. \A q \in Requests : q.tab = u => (q \in net' <=> q \in net)
    BY <1>2, AnswersOnlyAsk
  <2> QED BY <1>2, <2>1
       DEF Still, TypeOK, Returns, Fails, PutAnswered, Answered, Refused, PutFailed, Failed,
           TellsError
<1>3. ASSUME NEW r \in net, r.tab = t, Handles(r) PROVE Still(u)
  BY <1>3, ServerAnswers DEF Still, tabs
<1> QED BY <1>1, <1>2, <1>3

\* What the history knows is never forgotten, and a PUT beside another one is
\* known at once.
LEMMA RacedGrows ==
  ASSUME TypeOK, TypeOK', [Next]_vars, NEW t \in Tabs PROVE raced[t] \subseteq raced'[t]
<1>1. ASSUME NEW u \in Tabs, Uses(u) \/ Runs(u) PROVE raced[t] \subseteq raced'[t]
  <2>1. CASE Uses(u)
    <3>1. CASE EditSegments(u) \/ EditRest(u) \/ CreateDraft(u) \/ CreateAndSubmit(u) \/ Pause(u)
      BY <3>1 DEF TypeOK, EditSegments, EditRest, Edit, CreateDraft, CreateAndSubmit, Pause
    <3>2. CASE Submit(u) \/ Sync(u) \/ Launch(u)
      BY <3>2 DEF Submit, Sync, Launch, history
    <3>3. CASE Publish(u) \/ Reload(u) \/ ChangeChannel(u) \/ SaveSettings(u)
      BY <3>3 DEF TypeOK, Publish, Reload, ChangeChannel, SaveSettings, AskAfterEdits
    <3> QED BY <2>1, <3>1, <3>2, <3>3 DEF Uses
  <2>2. CASE Runs(u)
    BY <2>2 DEF TypeOK, Runs, Render, TimerFires, AsapFires, Poll, Flush, history
  <2> QED BY <1>1, <2>1, <2>2
<1>2. ASSUME NEW r \in net, Returns(r) \/ Fails(r) PROVE raced[t] \subseteq raced'[t]
  <2>1. CASE PutAnswered(r)
    BY <2>1 DEF TypeOK, PutAnswered
  <2>4. CASE Answered(r)
    BY <2>4 DEF TypeOK, Answered
  <2>2. CASE PutFailed(r)
    BY <2>2 DEF TypeOK, PutFailed
  <2>3. CASE Refused(r) \/ Failed(r)
    BY <2>3 DEF Refused, Failed, TellsError, history
  <2> QED BY <1>2, <2>1, <2>2, <2>3, <2>4 DEF Returns, Fails
<1>3. ASSUME NEW r \in net, Handles(r) PROVE raced[t] \subseteq raced'[t]
  BY <1>3 DEF TypeOK, Handles, PutRead, PutWrite, Bootstrap, HandleLaunch, SubmitToMeta,
     MarkSubmitted, HandleSync, history
<1>4. ASSUME Finish \/ (\E d \in Verdicts : Review(d) \/ Webhook(d)) \/ UNCHANGED vars
      PROVE  raced[t] \subseteq raced'[t]
  BY <1>4 DEF Finish, Review, Webhook, vars, history
<1> QED BY <1>1, <1>2, <1>3, <1>4 DEF Next

LEMMA InitPuts == Init => PutsInv
BY DEF Init, PutsInv, OnePut

LEMMA StepPuts == TypeOK /\ TypeOK' /\ PutsInv /\ [Next]_vars => PutsInv'
<1> SUFFICES ASSUME TypeOK, TypeOK', PutsInv, [Next]_vars, NEW t \in Tabs
             PROVE  (raced[t] = Fields \/ OnePut(t))'
  BY DEF PutsInv
<1> USE DEF IsPut
<1>1. raced[t] = Fields => raced'[t] = Fields
  BY RacedGrows DEF TypeOK
<1>2. OnePut(t) \/ raced[t] = Fields
  BY DEF PutsInv
<1>3. net \subseteq Requests /\ net' \subseteq Requests
  BY DEF TypeOK
<1>4. ASSUME \A p \in net' : IsPut(p, t) => p \in net PROVE (raced[t] = Fields \/ OnePut(t))'
  BY <1>1, <1>2, <1>4 DEF OnePut
<1>5. ASSUME NEW u \in Tabs, u # t, Uses(u) \/ Runs(u) PROVE (raced[t] = Fields \/ OnePut(t))'
  BY <1>3, <1>4, <1>5, OthersAreStill DEF Still
<1>6. ASSUME NEW d, NEW then, Flush(t, d, then) PROVE (raced[t] = Fields \/ OnePut(t))'
  <2>1. CASE InFlight(t, {"put"}) = {}
    BY <2>1, <1>6 DEF Flush, Send, OnePut, InFlight
  <2>2. CASE InFlight(t, {"put"}) # {}
    BY <2>2, <1>6 DEF Flush, TypeOK
  <2> QED BY <2>1, <2>2
<1>7. ASSUME Uses(t) \/ Runs(t) PROVE (raced[t] = Fields \/ OnePut(t))'
  <2>1. CASE TimerFires(t) \/ AsapFires(t)
    BY <2>1, <1>6 DEF TimerFires, AsapFires
  <2>2. CASE SaveSettings(t)
    <3>1. CASE InFlight(t, {"put"}) = {}
      BY <2>2, <3>1 DEF SaveSettings, Send, OnePut, InFlight
    <3>2. CASE InFlight(t, {"put"}) # {}
      BY <2>2, <3>2, <1>3 DEF SaveSettings, TypeOK
    <3> QED BY <3>1, <3>2
  <2>3. CASE \/ EditSegments(t) \/ EditRest(t) \/ CreateDraft(t) \/ CreateAndSubmit(t)
             \/ Submit(t) \/ Pause(t) \/ Publish(t) \/ Render(t)
    BY <2>3, <1>4 DEF EditSegments, EditRest, Edit, CreateDraft, CreateAndSubmit, Submit, Pause,
       Publish, Render
  <2>4. CASE Sync(t) \/ Launch(t) \/ Reload(t) \/ ChangeChannel(t) \/ Poll(t)
    <3>1. \A p \in net' : p \in net \/ \E k \in Kinds \ {"put"} : p = Request(t, k)
      BY <2>4 DEF Sync, Launch, Reload, ChangeChannel, Poll, Send, Kinds
    <3> QED BY <3>1, <1>4 DEF Request
  <2> QED BY <1>7, <2>1, <2>2, <2>3, <2>4 DEF Uses, Runs
<1>8. ASSUME NEW r \in net, Returns(r) \/ Fails(r) PROVE (raced[t] = Fields \/ OnePut(t))'
  BY <1>4, <1>8, AnswersOnlyAsk
<1>9. ASSUME NEW r \in net, Handles(r) PROVE (raced[t] = Fields \/ OnePut(t))'
  <2>1. PICK n : /\ net' \subseteq (net \ {r}) \cup {n}
                 /\ n.tab = r.tab /\ n.kind = r.kind /\ n.then = r.then
    BY <1>9, ServerAnswers
  <2> QED BY <1>1, <1>2, <2>1 DEF OnePut
<1>10. ASSUME Finish \/ (\E d \in Verdicts : Review(d) \/ Webhook(d)) \/ UNCHANGED vars
       PROVE  (raced[t] = Fields \/ OnePut(t))'
  BY <1>4, <1>10 DEF Finish, Review, Webhook, vars
<1> QED BY <1>5, <1>7, <1>8, <1>9, <1>10 DEF Next

-----------------------------------------------------------------------------
(* A tab that rests has been saved.                                          *)

\* Field f of tab t, while nothing ran into it: docRef has it as the screen; so
\* has a PUT, unless the operator has gone on writing and no answer is to
\* replace what was written; once the PUT was written the server has it from
\* there; the server agrees with the screen, unless it is still to be told and
\* no answer is to replace it; and an answer brings what the screen shows.
SavedAt(t, f) ==
  LET Same(d) == Content(d, f) = Content(view[t], f) IN
  /\ Same(ref[t])
  /\ \A p \in net : IsPut(p, t) =>
       /\ Same(p.doc) \/ (Late(t) /\ f # "seg" /\ ~Asked(t, f))
       /\ p.stage = "answered" => Content(srv, f) = Content(p.doc, f)
  /\ Same(srv) \/ (Coming(t) /\ ~Asked(t, f))
  /\ \A r \in net : Replaces(r, t, f) /\ r.stage = "answered" => Same(r.doc)
SavedInv == \A t \in Tabs : \A f \in Texts \ raced[t] : SavedAt(t, f)

LEMMA ContentIs ==
  ASSUME NEW d \in Docs
  PROVE  /\ Content(d, "tpl") = (d.ts # "none") /\ Content(d, "seg") = d.seg
         /\ Content(d, "rest") = d.rest
BY DEF Content

\* What the merge rules keep of the operator's text.
LEMMA MergeKeeps ==
  ASSUME NEW local \in Docs, NEW answer \in Docs
  PROVE  /\ Merge(local, answer) \in Docs
         /\ \A f \in {"tpl", "rest"} : Content(Merge(local, answer), f) = Content(local, f)
         /\ Content(Merge(local, answer), "seg") = Content(answer, "seg")
<1> DEFINE m == Merge(local, answer)
<1>1. m \in Docs
  BY MergeIsTyped
<1>2. m.ts = TemplateStatusOf(local, answer) /\ m.rest = local.rest /\ m.seg = answer.seg
  BY DEF Merge, Docs
<1>3. (m.ts # "none") = (local.ts # "none")
  BY <1>2 DEF TemplateStatusOf
<1> QED BY <1>1, <1>2, <1>3, ContentIs

\* A step that writes nothing, and of whose requests none is new to the tab.
LEMMA SavedFrame ==
  ASSUME NEW t \in Tabs, NEW f \in Texts, SavedAt(t, f),
         Content(view'[t], f) = Content(view[t], f), Content(ref'[t], f) = Content(view'[t], f),
         Content(srv', f) = Content(srv, f),
         Late(t) => Late(t)', status[t] = "error" => status'[t] = "error",
         \A p : IsPut(p, t) => (p \in net' <=> p \in net),
         \A r \in net' : Replaces(r, t, f) => r \in net
  PROVE  SavedAt(t, f)'
<1>1. Asked(t, f)' => Asked(t, f)
  BY DEF Asked, Replaces
<1>2. Coming(t) => Coming(t)'
  BY DEF Coming, IsPut
<1> QED BY <1>1, <1>2 DEF SavedAt, IsPut, Replaces

\* Writing field f in the tab, when no request is to overwrite it.
LEMMA SavedAfterEdit ==
  ASSUME TypeOK, NEW t \in Tabs, NEW f \in Texts, SavedAt(t, f),
         Content(ref'[t], f) = Content(view'[t], f), Late(t)', UNCHANGED <<srv, net>>,
         RunsInto(t, {f}) = {}
  PROVE  SavedAt(t, f)'
<1>1. \A r \in net : r.tab = t => f \notin Overwrites(r.kind)
  BY DEF RunsInto, InFlight, TypeOK, Requests
<1>2. ~Asked(t, f)'
  BY <1>1 DEF Asked, Replaces
<1>3. \A p \in net : IsPut(p, t) => f # "seg"
  BY <1>1 DEF IsPut, Overwrites
<1>4. Coming(t)'
  BY DEF Coming
<1> QED BY <1>2, <1>3, <1>4 DEF SavedAt, IsPut, Replaces, Asked

\* A tab that rests agrees with the server.
LEMMA RestingIsSaved ==
  ASSUME NEW t \in Tabs, NEW f \in Texts, SavedAt(t, f), ~Unsaved(t)
  PROVE  /\ Content(srv, f) = Content(view[t], f)
         /\ \A p \in net : ~IsPut(p, t)
BY DEF SavedAt, Unsaved, Coming, Late, InFlight, IsPut

\* Asking for an answer that replaces field f, in a tab that rests.
LEMMA SavedAfterAsk ==
  ASSUME NEW t \in Tabs, NEW f \in Texts, SavedAt(t, f), ~Unsaved(t),
         UNCHANGED <<view, ref, srv>>, NEW k, k # "put",
         \A r \in net' : r \in net \/ r = Request(t, k)
  PROVE  SavedAt(t, f)'
<1>1. Request(t, k).kind = k /\ Request(t, k).stage = "sent"
  BY DEF Request
<1> QED BY <1>1, RestingIsSaved DEF SavedAt, IsPut, Replaces

\* A PUT leaves with what docRef has, and no other one is under way.
LEMMA SavedAfterFlush ==
  ASSUME NEW t \in Tabs, NEW f \in Texts,
         Content(ref'[t], f) = Content(view'[t], f),
         Content(srv, f) = Content(view'[t], f) \/ ~Asked(t, f),
         \A r \in net : Replaces(r, t, f) /\ r.stage = "answered" =>
           Content(r.doc, f) = Content(view'[t], f),
         UNCHANGED srv, InFlight(t, {"put"}) = {},
         NEW p, net' = net \cup {p}, p.tab = t, p.kind = "put", p.stage = "sent",
         p.doc = ref'[t]
  PROVE  SavedAt(t, f)'
<1>1. \A q \in net' : IsPut(q, t) => q = p
  BY DEF InFlight, IsPut
<1>2. Coming(t)'
  BY DEF Coming, IsPut
<1>3. Asked(t, f)' => Asked(t, f)
  BY DEF Asked, Replaces
<1>4. \A r \in net' : Replaces(r, t, f) => r \in net
  BY DEF Replaces
<1> QED BY <1>1, <1>2, <1>3, <1>4 DEF SavedAt, Replaces

\* The clicks of the operator in the tab itself.
LEMMA SavedUses ==
  ASSUME TypeOK, TypeOK', NEW t \in Tabs, NEW f \in Texts, f \notin raced'[t],
         SavedAt(t, f), Uses(t)
  PROVE  SavedAt(t, f)'
<1>1. view[t] \in Docs /\ ref[t] \in Docs /\ view'[t] \in Docs /\ ref'[t] \in Docs
  BY DEF TypeOK
<1>2. Content(ref[t], f) = Content(view[t], f)
  BY DEF SavedAt
<1>3. CASE EditSegments(t)
  <2>1. /\ ref'[t] = view'[t] /\ Late(t)' /\ UNCHANGED <<srv, net, status>>
        /\ raced'[t] = raced[t] \cup RunsInto(t, {"seg"})
    BY <1>3 DEF EditSegments, Edit, Shows, Schedule, TypeOK, Late, server
  <2>2. view'[t].rest = view[t].rest /\ view'[t].ts = view[t].ts
    BY <1>1, <1>3 DEF EditSegments, Edit, Shows, TypeOK, Docs
  <2>3. CASE f = "seg"
    BY <2>1, <2>3, SavedAfterEdit DEF RunsInto
  <2>4. CASE f # "seg"
    BY <1>1, <2>1, <2>2, <2>4, ContentIs, SavedFrame DEF Texts
  <2> QED BY <2>3, <2>4
<1>4. CASE EditRest(t)
  <2>1. /\ ref'[t] = view'[t] /\ Late(t)' /\ UNCHANGED <<srv, net, status>>
        /\ raced'[t] = raced[t] \cup RunsInto(t, {"rest"})
    BY <1>4 DEF EditRest, Edit, Shows, Schedule, TypeOK, Late, server
  <2>2. view'[t].seg = view[t].seg /\ view'[t].ts = view[t].ts
    BY <1>1, <1>4 DEF EditRest, Edit, Shows, TypeOK, Docs
  <2>3. CASE f = "rest"
    BY <2>1, <2>3, SavedAfterEdit DEF RunsInto
  <2>4. CASE f # "rest"
    BY <1>1, <2>1, <2>2, <2>4, ContentIs, SavedFrame DEF Texts
  <2> QED BY <2>3, <2>4
<1>5. CASE CreateDraft(t) \/ CreateAndSubmit(t)
  <2>1. /\ ref'[t] = view'[t] /\ Late(t)' /\ UNCHANGED <<srv, net, status>>
        /\ raced'[t] = raced[t] \cup RunsInto(t, {"tpl"})
    BY <1>5 DEF CreateDraft, CreateAndSubmit, Shows, Schedule, TypeOK, Late, server
  <2>2. view'[t].seg = view[t].seg /\ view'[t].rest = view[t].rest
    BY <1>1, <1>5 DEF CreateDraft, CreateAndSubmit, Shows, TypeOK, Docs
  <2>3. CASE f = "tpl"
    BY <2>1, <2>3, SavedAfterEdit DEF RunsInto
  <2>4. CASE f # "tpl"
    BY <1>1, <2>1, <2>2, <2>4, ContentIs, SavedFrame DEF Texts
  <2> QED BY <2>3, <2>4
<1>6. CASE Publish(t)
  <2>1. /\ ref'[t] = view'[t] /\ Late(t)' /\ UNCHANGED <<srv, net, status>>
        /\ raced'[t] = raced[t] \cup RunsInto(t, {"rest", "st"})
    BY <1>6 DEF Publish, Shows, TypeOK, Late, server
  <2>2. view'[t].seg = view[t].seg /\ view'[t].ts = view[t].ts
    BY <1>1, <1>6 DEF Publish, Shows, TypeOK, Docs
  <2>3. CASE f = "rest"
    <3>1. RunsInto(t, {"rest"}) = {}
      BY <2>1, <2>3 DEF RunsInto
    <3> QED BY <2>1, <2>3, <3>1, SavedAfterEdit
  <2>4. CASE f # "rest"
    BY <1>1, <2>1, <2>2, <2>4, ContentIs, SavedFrame DEF Texts
  <2> QED BY <2>3, <2>4
<1>7. CASE Pause(t)
  <2>1. ref'[t] = view'[t] /\ Late(t)' /\ UNCHANGED <<srv, net, status>>
    BY <1>7 DEF Pause, Shows, Schedule, TypeOK, Late, server
  <2>2. view'[t].seg = view[t].seg /\ view'[t].ts = view[t].ts /\ view'[t].rest = view[t].rest
    BY <1>1, <1>7 DEF Pause, Shows, TypeOK, Docs
  <2> QED BY <1>1, <2>1, <2>2, ContentIs, SavedFrame DEF Texts
<1>8. CASE Submit(t)
  <2>1. Late(t)' /\ UNCHANGED <<view, ref, srv, net, status>>
    BY <1>8 DEF Submit, TypeOK, Late, server
  <2> QED BY <1>2, <2>1, SavedFrame
<1>9. CASE Sync(t) \/ Launch(t)
  <2>1. UNCHANGED <<srv, tabs>>
    BY <1>9 DEF Sync, Launch, server
  <2>2. \A r \in net' : r \in net \/ r.kind \in {"sync", "launch"}
    BY <1>9 DEF Sync, Launch, Send, Request
  <2>3. net \subseteq net'
    BY <1>9 DEF Sync, Launch, Send
  <2> QED BY <1>2, <2>1, <2>2, <2>3, SavedFrame DEF tabs, Late, IsPut, Replaces
<1>10. CASE Reload(t) \/ ChangeChannel(t)
  <2>1. UNCHANGED <<srv, tabs>>
    BY <1>10 DEF Reload, ChangeChannel, server
  <2>2. PICK k \in {"boot", "channel"} : \A r \in net' : r \in net \/ r = Request(t, k)
    BY <1>10 DEF Reload, ChangeChannel, Send
  <2>3. ~Unsaved(t)
    BY <1>10 DEF Reload, ChangeChannel, AskAfterEdits, TypeOK, Overwrites, Fields
  <2> QED BY <2>1, <2>2, <2>3, SavedAfterAsk DEF tabs
<1>11. CASE SaveSettings(t)
  <2>1. /\ view'[t].seg = view[t].seg /\ view'[t].ts = view[t].ts
        /\ ref'[t].seg = ref[t].seg /\ ref'[t].ts = ref[t].ts
        /\ view'[t].rest = edits' /\ ref'[t].rest = edits'
    BY <1>1, <1>11 DEF SaveSettings, TypeOK, Docs
  <2>2. Content(ref'[t], f) = Content(view'[t], f)
    BY <1>1, <1>2, <2>1, ContentIs DEF Texts
  <2>3. f # "rest" => Content(view'[t], f) = Content(view[t], f)
    BY <1>1, <2>1, ContentIs DEF Texts
  <2>4. InFlight(t, {"put"}) = {}
    BY <1>11 DEF SaveSettings, TypeOK, Fields
  <2>5. f = "rest" => ~Asked(t, f)
    <3>1. f = "rest" => "rest" \notin RunsInto(t, {"rest"})
      BY <1>11 DEF SaveSettings, TypeOK
    <3> QED BY <3>1 DEF RunsInto, InFlight, Asked, Replaces, TypeOK, Requests
  <2>6. Content(srv, f) = Content(view'[t], f) \/ ~Asked(t, f)
    BY <2>3, <2>5 DEF SavedAt
  <2>7. \A r \in net : Replaces(r, t, f) /\ r.stage = "answered" =>
          Content(r.doc, f) = Content(view'[t], f)
    BY <2>3, <2>5 DEF SavedAt, Asked
  <2>8. PICK p : /\ net' = net \cup {p} /\ p = Put(t, ref'[t], "nothing")
    BY <1>11 DEF SaveSettings, Send
  <2>9. p.tab = t /\ p.kind = "put" /\ p.stage = "sent" /\ p.doc = ref'[t]
    BY <1>1, <2>8, PutIsTyped DEF Thens
  <2>10. UNCHANGED srv
    BY <1>11 DEF SaveSettings, server
  <2> QED BY <2>2, <2>4, <2>6, <2>7, <2>8, <2>9, <2>10, SavedAfterFlush
<1> QED BY <1>3, <1>4, <1>5, <1>6, <1>7, <1>8, <1>9, <1>10, <1>11 DEF Uses

\* The tab's own tasks.
LEMMA SavedRuns ==
  ASSUME TypeOK, TypeOK', NEW t \in Tabs, NEW f \in Texts, f \notin raced'[t],
         SavedAt(t, f), Runs(t)
  PROVE  SavedAt(t, f)'
<1>1. ref[t] \in Docs /\ asap[t] \in Thens /\ "nothing" \in Thens
  BY DEF TypeOK, Thens
<1>2. Content(ref[t], f) = Content(view[t], f)
  BY DEF SavedAt
<1>3. CASE Render(t)
  <2>1. ref'[t] = view[t] /\ UNCHANGED <<view, srv, net, timer, asap, status>>
    BY <1>3 DEF Render, TypeOK, server
  <2> QED BY <2>1, SavedFrame DEF Late
<1>4. CASE TimerFires(t) \/ AsapFires(t)
  <2>1. UNCHANGED <<view, ref, srv>> /\ \E then \in Thens : Flush(t, ref[t], then)
    BY <1>1, <1>4 DEF TimerFires, AsapFires, server
  <2>2. PICK then \in Thens : Flush(t, ref[t], then)
    BY <2>1
  <2>3. InFlight(t, {"put"}) = {}
    BY <2>2 DEF Flush, TypeOK, Fields
  <2>4. PICK p : net' = net \cup {p} /\ p = Put(t, ref[t], then)
    BY <2>2 DEF Flush, Send
  <2>5. p.tab = t /\ p.kind = "put" /\ p.stage = "sent" /\ p.doc = ref'[t]
    BY <1>1, <2>1, <2>4, PutIsTyped
  <2>6. /\ Content(ref'[t], f) = Content(view'[t], f)
        /\ Content(srv, f) = Content(view'[t], f) \/ ~Asked(t, f)
        /\ \A r \in net : Replaces(r, t, f) /\ r.stage = "answered" =>
             Content(r.doc, f) = Content(view'[t], f)
    BY <2>1 DEF SavedAt
  <2> QED BY <2>1, <2>3, <2>4, <2>5, <2>6, SavedAfterFlush
<1>5. CASE Poll(t)
  <2>1. UNCHANGED <<srv, tabs>>
    BY <1>5 DEF Poll, server
  <2>2. net' = net \cup {Request(t, "poll")}
    BY <1>5 DEF Poll, Send
  <2>3. CASE ~Unsaved(t)
    BY <2>1, <2>2, <2>3, SavedAfterAsk DEF tabs
  <2>4. CASE Unsaved(t)
    <3>1. f \notin Overwrites("poll")
      BY <1>5, <2>4 DEF Poll, TypeOK
    <3>2. \A r \in net' : r \in net \/ (r.kind = "poll" /\ ~Replaces(r, t, f))
      BY <2>2, <3>1 DEF Request, Replaces
    <3> QED BY <1>2, <2>1, <2>2, <3>2, SavedFrame DEF tabs, Late, IsPut
  <2> QED BY <2>3, <2>4
<1> QED BY <1>3, <1>4, <1>5 DEF Runs

\* No PUT is refused: it is answered or it fails.
Refusals == \A r \in net : r.stage = "refused" => r.kind # "put"

LEMMA StepRefusals == TypeOK /\ Refusals /\ [Next]_vars => Refusals'
<1> SUFFICES ASSUME TypeOK, Refusals, [Next]_vars PROVE Refusals'
  OBVIOUS
<1>1. ASSUME \A r \in net' : r \in net \/ r.stage = "sent" PROVE Refusals'
  BY <1>1 DEF Refusals
<1>2. ASSUME NEW t \in Tabs, Uses(t) \/ Runs(t) PROVE Refusals'
  BY <1>1, <1>2, TabsOnlyAsk
<1>3. ASSUME NEW r \in net, Returns(r) \/ Fails(r) PROVE Refusals'
  BY <1>1, <1>3, AnswersOnlyAsk
<1>4. ASSUME NEW r \in net, Handles(r) PROVE Refusals'
  <2>1. r \in Requests
    BY DEF TypeOK
  <2>2. ASSUME NEW s, NEW d, Becomes(r, s, d), s # "refused" \/ r.kind # "put" PROVE Refusals'
    BY <2>1, <2>2 DEF Becomes, Requests, Refusals
  <2>3. CASE PutRead(r) \/ PutWrite(r) \/ Bootstrap(r)
    BY <2>3, <2>2 DEF PutRead, PutWrite, Bootstrap
  <2>4. CASE HandleLaunch(r) \/ SubmitToMeta(r) \/ HandleSync(r)
    BY <2>4, <2>2 DEF HandleLaunch, SubmitToMeta, HandleSync, Refuse, Refusals
  <2>5. ASSUME NEW s \in {"pending", "approved"}, MarkSubmitted(r, s) PROVE Refusals'
    BY <2>5, <2>2 DEF MarkSubmitted, Refuse
  <2> QED BY <1>4, <2>3, <2>4, <2>5 DEF Handles
<1>5. ASSUME Finish \/ (\E d \in Verdicts : Review(d) \/ Webhook(d)) \/ UNCHANGED vars
      PROVE  Refusals'
  BY <1>1, <1>5 DEF Finish, Review, Webhook, vars
<1> QED BY <1>2, <1>3, <1>4, <1>5 DEF Next

\* Only a PUT writes the operator's text.
LEMMA OnlyPutsWriteText ==
  ASSUME TypeOK, TypeOK', MetaInv, NEW f \in Texts,
         \/ \E r \in net : Handles(r) /\ ~PutWrite(r)
         \/ Finish \/ \E d \in Verdicts : Review(d) \/ Webhook(d)
  PROVE  Content(srv', f) = Content(srv, f)
<1>1. srv \in Docs /\ srv' \in Docs
  BY DEF TypeOK
<1>2. ASSUME srv'.seg = srv.seg, srv'.rest = srv.rest, (srv'.ts # "none") = (srv.ts # "none")
      PROVE  Content(srv', f) = Content(srv, f)
  BY <1>1, <1>2, ContentIs DEF Texts
<1>3. ASSUME NEW r \in net, Handles(r), ~PutWrite(r) PROVE Content(srv', f) = Content(srv, f)
  <2>1. CASE PutRead(r) \/ Bootstrap(r) \/ SubmitToMeta(r)
    BY <2>1 DEF PutRead, Bootstrap, SubmitToMeta, server
  <2>2. CASE HandleLaunch(r)
    BY <1>1, <1>2, <2>2 DEF HandleLaunch, Docs
  <2>3. CASE HandleSync(r)
    <3>1. CASE known
      <4>1. srv' = [srv EXCEPT !.ts = verdict]
        BY <2>3, <3>1 DEF HandleSync
      <4>2. srv.ts # "none" /\ verdict # "none"
        BY <3>1 DEF MetaInv
      <4> QED BY <1>1, <1>2, <4>1, <4>2 DEF Docs
    <3>2. CASE ~known
      BY <2>3, <3>2 DEF HandleSync
    <3> QED BY <3>1, <3>2
  <2>4. ASSUME NEW s \in {"pending", "approved"}, MarkSubmitted(r, s)
        PROVE  Content(srv', f) = Content(srv, f)
    BY <1>1, <1>2, <2>4 DEF MarkSubmitted, Docs
  <2> QED BY <1>3, <2>1, <2>2, <2>3, <2>4 DEF Handles
<1>4. ASSUME Finish PROVE Content(srv', f) = Content(srv, f)
  BY <1>1, <1>2, <1>4 DEF Finish, Docs
<1>5. ASSUME NEW d \in Verdicts, Review(d) \/ Webhook(d) PROVE Content(srv', f) = Content(srv, f)
  <2>1. d # "none" /\ (known => srv.ts # "none")
    BY DEF Verdicts, MetaInv
  <2> QED BY <1>1, <1>2, <1>5, <2>1 DEF Review, Webhook, Docs
<1> QED BY <1>3, <1>4, <1>5

\* What the server does with a request of the tab itself.
LEMMA SavedHandles ==
  ASSUME TypeOK, TypeOK', MetaInv, NEW t \in Tabs, NEW f \in Texts, f \notin raced'[t],
         OnePut(t), SavedAt(t, f), NEW r \in net, r.tab = t, Handles(r)
  PROVE  SavedAt(t, f)'
<1>1. r \in Requests /\ r.doc \in Docs /\ srv \in Docs
  BY DEF TypeOK, Requests
<1>2. UNCHANGED tabs /\ net \ {r} \subseteq net'
  BY ServerAnswers
<1>3. UNCHANGED <<view, ref>> /\ Late(t)' = Late(t) /\ UNCHANGED status
  BY <1>2 DEF tabs, Late
<1>4. ASSUME NEW s, NEW d, Becomes(r, s, d)
      PROVE  \E n : /\ net' = (net \ {r}) \cup {n} /\ n.tab = t /\ n.kind = r.kind
                    /\ n.stage = s /\ n.doc = d
  <2> DEFINE n == [r EXCEPT !.stage = s, !.doc = d]
  <2>1. n.tab = t /\ n.kind = r.kind /\ n.stage = s /\ n.doc = d
    BY <1>1 DEF Requests
  <2>2. net' = (net \ {r}) \cup {n}
    BY <1>4 DEF Becomes
  <2> HIDE DEF n
  <2> QED BY <2>1, <2>2
<1>5. CASE PutRead(r)
  <2> DEFINE d == [r.doc EXCEPT !.ts =
       IF @ = "none" THEN "none" ELSE IF srv.ts = "none" THEN "draft" ELSE srv.ts]
  <2>1. PICK n : /\ net' = (net \ {r}) \cup {n} /\ n.tab = t /\ n.kind = r.kind
                 /\ n.stage = "read" /\ n.doc = d
    BY <1>4, <1>5 DEF PutRead
  <2>2. Content(d, f) = Content(r.doc, f)
    <3>1. /\ d.seg = r.doc.seg /\ d.rest = r.doc.rest
          /\ (d.ts # "none") = (r.doc.ts # "none")
      BY <1>1 DEF Docs
    <3>2. d \in Docs
      BY <1>1 DEF Docs, TemplateStatus
    <3> HIDE DEF d
    <3> QED BY <1>1, <3>1, <3>2, ContentIs DEF Texts
  <2> HIDE DEF d
  <2>3. r.kind = "put" /\ r.stage = "sent" /\ UNCHANGED srv
    BY <1>5 DEF PutRead, server
  <2>4. IsPut(r, t) /\ IsPut(n, t) /\ Coming(t)'
    BY <2>1, <2>3 DEF IsPut, Coming
  <2>5. Asked(t, f)' => Asked(t, f)
    BY <2>1, <2>3 DEF Asked, Replaces
  <2>6. \A q \in net' : IsPut(q, t) => q = n
    BY <2>1, <2>4 DEF OnePut
  <2>7. \A q \in net' : Replaces(q, t, f) => q \in net
    BY <2>1, <2>3 DEF Replaces
  <2> QED BY <1>3, <2>1, <2>2, <2>3, <2>4, <2>5, <2>6, <2>7 DEF SavedAt, Replaces
<1>6. CASE PutWrite(r)
  <2>1. PICK n : /\ net' = (net \ {r}) \cup {n} /\ n.tab = t /\ n.kind = r.kind
                 /\ n.stage = "answered" /\ n.doc = r.doc
    BY <1>4, <1>6 DEF PutWrite
  <2>2. r.kind = "put" /\ srv' = r.doc
    BY <1>6 DEF PutWrite
  <2>3. IsPut(r, t) /\ IsPut(n, t)
    BY <2>1, <2>2 DEF IsPut
  <2>4. Asked(t, f)' => Asked(t, f)
    BY <2>1, <2>2 DEF Asked, Replaces
  <2>5. \A q \in net' : IsPut(q, t) => q = n
    BY <2>1, <2>3 DEF OnePut
  <2>6. \A q \in net' : Replaces(q, t, f) => q \in net
    BY <2>1, <2>2 DEF Replaces
  <2>7. Late(t) => Coming(t)'
    BY <1>3 DEF Coming
  <2> QED BY <1>3, <2>1, <2>2, <2>3, <2>4, <2>5, <2>6, <2>7 DEF SavedAt, Replaces
<1>7. CASE Bootstrap(r)
  <2>1. PICK n : /\ net' = (net \ {r}) \cup {n} /\ n.tab = t /\ n.kind = r.kind
                 /\ n.stage = "answered" /\ n.doc = srv
    BY <1>4, <1>7 DEF Bootstrap
  <2>2. r.kind # "put" /\ UNCHANGED srv
    BY <1>7 DEF Bootstrap, server
  <2>3. Asked(t, f)' => Asked(t, f)
    BY <2>1 DEF Asked, Replaces
  <2>4. \A q : IsPut(q, t) => (q \in net' <=> q \in net)
    BY <2>1, <2>2 DEF IsPut
  <2>5. Coming(t) => Coming(t)'
    BY <1>3, <2>4 DEF Coming, IsPut
  <2>6. Replaces(n, t, f) => Asked(t, f)
    BY <2>1 DEF Asked, Replaces
  <2> QED BY <1>3, <2>1, <2>2, <2>3, <2>4, <2>5, <2>6 DEF SavedAt, Replaces, IsPut
<1>8. CASE ~(PutRead(r) \/ PutWrite(r) \/ Bootstrap(r))
  <2>1. r.kind \in {"launch", "submit", "sync"}
    BY <1>8 DEF Handles, HandleLaunch, SubmitToMeta, HandleSync, MarkSubmitted
  <2>2. PICK n : net' \subseteq (net \ {r}) \cup {n} /\ n.tab = t /\ n.kind = r.kind
    BY ServerAnswers
  <2>3. \A q : IsPut(q, t) => (q \in net' <=> q \in net)
    BY <1>2, <2>1, <2>2 DEF IsPut
  <2>4. \A q \in net' : Replaces(q, t, f) => q \in net
    BY <2>1, <2>2 DEF Replaces
  <2>5. Content(srv', f) = Content(srv, f)
    BY <1>8, OnlyPutsWriteText
  <2>6. Content(ref[t], f) = Content(view[t], f)
    BY DEF SavedAt
  <2> QED BY <1>3, <2>3, <2>4, <2>5, <2>6, SavedFrame
<1> QED BY <1>5, <1>6, <1>7, <1>8

\* The end of a request of the tab itself.
LEMMA SavedEnds ==
  ASSUME TypeOK, TypeOK', Refusals, NEW t \in Tabs, NEW f \in Texts, f \notin raced'[t],
         OnePut(t), SavedAt(t, f), NEW r \in net, r.tab = t, Returns(r) \/ Fails(r)
  PROVE  SavedAt(t, f)'
<1>1. r \in Requests /\ r.doc \in Docs /\ view[t] \in Docs
  BY DEF TypeOK, Requests
<1>2. /\ UNCHANGED server /\ net \ {r} \subseteq net'
      /\ \A q \in net' : q \in net \ {r} \/ (q.kind \in {"launch", "submit"})
  BY AnswersOnlyAsk
<1>3. UNCHANGED srv
  BY <1>2 DEF server
<1>4. /\ \A q \in net' : Replaces(q, t, f) => q \in net
      /\ \A q \in net' : IsPut(q, t) => q \in net \ {r}
      /\ Asked(t, f)' => Asked(t, f)
  BY <1>2 DEF Replaces, IsPut, Asked
<1>5. CASE PutAnswered(r)
  <2>1. /\ view'[t] = Merge(view[t], r.doc) /\ UNCHANGED <<ref, timer, asap>>
        /\ IsPut(r, t) /\ r.stage = "answered"
    BY <1>5 DEF PutAnswered, TypeOK, IsPut
  <2>2. Content(view'[t], f) = Content(view[t], f)
    BY <1>1, <2>1, MergeKeeps DEF SavedAt, Texts
  <2>3. \A q \in net' : ~IsPut(q, t)
    BY <1>4, <2>1 DEF OnePut
  <2>4. Late(t)' = Late(t)
    BY <2>1 DEF Late
  <2>5. Content(srv, f) = Content(view[t], f) \/ (Late(t) /\ ~Asked(t, f))
    BY <2>1 DEF SavedAt
  <2> QED BY <1>3, <1>4, <2>1, <2>2, <2>3, <2>4, <2>5 DEF SavedAt, Coming, Replaces
<1>6. CASE PutFailed(r)
  <2>1. UNCHANGED <<view, ref, timer, asap>> /\ Coming(t)'
    BY <1>6 DEF PutFailed, TypeOK, Coming
  <2>2. Late(t)' = Late(t)
    BY <2>1 DEF Late
  <2> QED BY <1>3, <1>4, <2>1, <2>2 DEF SavedAt, Replaces, IsPut
<1>7. CASE Refused(r) \/ Failed(r)
  <2>1. r.kind # "put" /\ TellsError(r)
    BY <1>7 DEF Refused, Failed, Refusals
  <2>2. /\ UNCHANGED <<view, ref, timer, asap>>
        /\ status[t] = "error" => status'[t] = "error"
    BY <2>1 DEF TellsError, TypeOK
  <2>3. \A p : IsPut(p, t) => (p \in net' <=> p \in net)
    BY <1>2, <1>4, <2>1 DEF IsPut
  <2>4. Content(ref[t], f) = Content(view[t], f)
    BY DEF SavedAt
  <2> QED BY <1>3, <1>4, <2>2, <2>3, <2>4, SavedFrame DEF Late
<1>8. CASE Answered(r)
  <2>1. /\ r.kind # "put" /\ r.stage = "answered" /\ view'[t] = Shown(r)
        /\ UNCHANGED <<ref, timer, asap>>
    BY <1>8 DEF Answered, TypeOK
  <2>2. Content(Shown(r), f) = Content(view[t], f)
    <3>1. CASE r.kind = "poll"
      <4>1. f = "seg" => Replaces(r, t, f)
        BY <3>1 DEF Replaces, Overwrites
      <4> QED BY <1>1, <2>1, <3>1, <4>1, MergeKeeps DEF SavedAt, Shown, Texts
    <3>2. CASE r.kind \in {"boot", "channel"}
      <4>1. Replaces(r, t, f)
        BY <3>2 DEF Replaces, Overwrites, Fields
      <4> QED BY <2>1, <3>2, <4>1 DEF SavedAt, Shown
    <3>3. CASE r.kind = "launch"
      <4>1. Shown(r) \in Docs
        BY <2>1, ShownIsTyped
      <4>2. Shown(r) = [view[t] EXCEPT !.st = "running"]
        BY <3>3 DEF Shown
      <4>3. Shown(r).seg = view[t].seg /\ Shown(r).rest = view[t].rest /\ Shown(r).ts = view[t].ts
        BY <1>1, <4>2 DEF Docs
      <4> QED BY <1>1, <4>1, <4>3, ContentIs DEF Texts
    <3>4. CASE r.kind \in {"submit", "sync"}
      <4>1. Shown(r) \in Docs
        BY <2>1, ShownIsTyped
      <4>2. Shown(r) = [view[t] EXCEPT !.ts = TemplateStatusOf(view[t], r.doc)]
        BY <3>4 DEF Shown
      <4>3. /\ Shown(r).seg = view[t].seg /\ Shown(r).rest = view[t].rest
            /\ (Shown(r).ts # "none") = (view[t].ts # "none")
        BY <1>1, <4>2 DEF Docs, TemplateStatusOf
      <4> QED BY <1>1, <4>1, <4>3, ContentIs DEF Texts
    <3> QED BY <1>1, <2>1, <3>1, <3>2, <3>3, <3>4 DEF Requests, Kinds
  <2>3. \A p : IsPut(p, t) => (p \in net' <=> p \in net)
    BY <1>2, <1>4, <2>1 DEF IsPut
  <2>4. Content(ref'[t], f) = Content(view'[t], f)
    BY <2>1, <2>2 DEF SavedAt
  <2>5. CASE status[t] = "error" => status'[t] = "error"
    BY <1>3, <1>4, <2>1, <2>2, <2>3, <2>4, <2>5, SavedFrame DEF Late
  <2>6. CASE status[t] = "error" /\ r.kind = "boot"
    <3>1. Content(srv, f) = Content(view[t], f)
      <4>1. Replaces(r, t, f)
        BY <2>6 DEF Replaces, Overwrites, Fields
      <4> QED BY <4>1 DEF SavedAt, Asked
    <3>2. Late(t)' = Late(t)
      BY <2>1 DEF Late
    <3> QED BY <1>3, <1>4, <2>1, <2>2, <2>4, <3>1, <3>2 DEF SavedAt, Replaces, IsPut
  <2>7. status[t] = "error" => r.then # "create"
    BY <1>8 DEF Answered, TypeOK, Fields
  <2> QED BY <1>8, <2>5, <2>6, <2>7 DEF Answered, TypeOK
<1> QED BY <1>5, <1>6, <1>7, <1>8 DEF Returns, Fails

LEMMA InitSaved == Init => SavedInv /\ Refusals
BY DEF Init, SavedInv, SavedAt, Refusals

LEMMA StepSaved ==
  TypeOK /\ TypeOK' /\ MetaInv /\ PutsInv /\ Refusals /\ SavedInv /\ [Next]_vars => SavedInv'
<1> SUFFICES ASSUME TypeOK, TypeOK', MetaInv, PutsInv, Refusals, SavedInv, [Next]_vars,
                    NEW t \in Tabs, NEW f \in Texts, f \notin raced'[t]
             PROVE  SavedAt(t, f)'
  BY DEF SavedInv
<1>1. f \notin raced[t] /\ f \in Fields
  BY RacedGrows DEF Fields
<1>2. SavedAt(t, f) /\ OnePut(t)
  BY <1>1 DEF SavedInv, PutsInv
<1>3. Content(ref[t], f) = Content(view[t], f)
  BY <1>2 DEF SavedAt
<1>4. ASSUME Still(t), Content(srv', f) = Content(srv, f) PROVE SavedAt(t, f)'
  <2>1. \A p : p.tab = t => (p \in net' <=> p \in net)
    BY <1>4 DEF Still, TypeOK
  <2> QED BY <1>2, <1>3, <1>4, <2>1, SavedFrame DEF Still, Late, IsPut, Replaces
<1>5. ASSUME NEW u \in Tabs, Uses(u) \/ Runs(u) PROVE SavedAt(t, f)'
  <2>1. CASE u = t
    BY <1>2, <1>5, <2>1, SavedUses, SavedRuns
  <2>2. CASE u # t
    BY <1>4, <1>5, <2>2, OthersAreStill, TabsOnlyAsk DEF server
  <2> QED BY <2>1, <2>2
<1>6. ASSUME NEW r \in net, Returns(r) \/ Fails(r) PROVE SavedAt(t, f)'
  <2>0. r.tab \in Tabs
    BY DEF TypeOK, Requests
  <2>1. CASE r.tab = t
    BY <1>2, <1>6, <2>1, SavedEnds
  <2>2. CASE r.tab # t
    BY <1>4, <1>6, <2>0, <2>2, OthersAreStill, AnswersOnlyAsk DEF server
  <2> QED BY <2>1, <2>2
<1>7. ASSUME NEW r \in net, Handles(r) PROVE SavedAt(t, f)'
  <2>0. r.tab \in Tabs
    BY DEF TypeOK, Requests
  <2>1. CASE r.tab = t
    BY <1>2, <1>7, <2>1, SavedHandles
  <2>2. CASE r.tab # t
    <3>1. ~PutWrite(r)
      BY <1>1, <2>2 DEF PutWrite
    <3> QED BY <1>4, <1>7, <2>0, <2>2, <3>1, OthersAreStill, OnlyPutsWriteText
  <2> QED BY <2>1, <2>2
<1>8. ASSUME Finish \/ \E d \in Verdicts : Review(d) \/ Webhook(d) PROVE SavedAt(t, f)'
  <2>1. Still(t)
    BY <1>8 DEF Still, Finish, Review, Webhook, tabs
  <2> QED BY <1>4, <1>8, <2>1, OnlyPutsWriteText
<1>9. CASE UNCHANGED vars
  BY <1>4, <1>9 DEF Still, vars, server, tabs
<1> QED BY <1>5, <1>6, <1>7, <1>8, <1>9 DEF Next

\* What was written in a tab is on the server once the tab rests, for any
\* number of tabs, requests and failures, but for the races that are named.
THEOREM QuietTabsAreSaved == Spec => []QuietMeansSaved
<1>1. TypeOK /\ SavedInv => QuietMeansSaved
  <2> SUFFICES ASSUME SavedInv, NEW t \in Tabs, ~Unsaved(t), NEW f \in Texts \ raced[t]
               PROVE  Content(view[t], f) = Content(srv, f)
    BY DEF QuietMeansSaved
  <2> QED BY RestingIsSaved DEF SavedInv
<1>2. Init => TypeOK /\ MetaInv /\ PutsInv /\ Refusals /\ SavedInv
  BY InitTypes, InitMeta, InitPuts, InitSaved
<1>3. TypeOK /\ MetaInv /\ PutsInv /\ Refusals /\ SavedInv /\ [Next]_vars
        => (TypeOK /\ MetaInv /\ PutsInv /\ Refusals /\ SavedInv)'
  BY TypesHold, StepMeta, StepPuts, StepRefusals, StepSaved
<1> QED BY <1>1, <1>2, <1>3, PTL DEF Spec

-----------------------------------------------------------------------------
(* What becomes of the campaign's status.                                    *)

\* Since a click, and while nothing ran into it, the status stays in S on the
\* screen, in docRef, in the PUTs and in the answers that replace it; on the
\* server as well, once a PUT was written or nothing more is to be told.
StAt(t, S) ==
  /\ view[t].st \in S /\ ref[t].st \in S
  /\ \A p \in net : IsPut(p, t) => p.doc.st \in S /\ (p.stage = "answered" => srv.st \in S)
  /\ srv.st \in S \/ (Coming(t) /\ ~Asked(t, "st"))
  /\ \A r \in net : Replaces(r, t, "st") /\ r.stage = "answered" => r.doc.st \in S

\* The click itself: no request under way is to overwrite the status.
LEMMA StAfterClick ==
  ASSUME TypeOK, NEW t \in Tabs, NEW S, ref'[t] = view'[t], view'[t].st \in S, Late(t)',
         UNCHANGED <<srv, net>>, RunsInto(t, {"st"}) = {}
  PROVE  StAt(t, S)' /\ \A r \in net : r.tab = t => r.kind \notin {"launch", "put"}
<1>1. \A r \in net : r.tab = t => "st" \notin Overwrites(r.kind)
  BY DEF RunsInto, InFlight, TypeOK, Requests
<1>2. \A r \in net : r.tab = t => r.kind \notin {"launch", "put"}
  BY <1>1 DEF Overwrites
<1>3. ~Asked(t, "st")' /\ Coming(t)'
  BY <1>1 DEF Asked, Replaces, Coming
<1> QED BY <1>1, <1>2, <1>3 DEF StAt, IsPut, Replaces

LEMMA StFrame ==
  ASSUME NEW t \in Tabs, NEW S, StAt(t, S), view'[t].st \in S, ref'[t].st \in S,
         srv.st \in S => srv'.st \in S,
         Late(t) => Late(t)', status[t] = "error" => status'[t] = "error",
         \A p : IsPut(p, t) => (p \in net' <=> p \in net),
         \A r \in net' : Replaces(r, t, "st") => r \in net
  PROVE  StAt(t, S)'
<1>1. Asked(t, "st")' => Asked(t, "st")
  BY DEF Asked, Replaces
<1>2. Coming(t) => Coming(t)'
  BY DEF Coming, IsPut
<1> QED BY <1>1, <1>2 DEF StAt, IsPut, Replaces

LEMMA StResting ==
  ASSUME NEW t \in Tabs, NEW S, StAt(t, S), ~Unsaved(t)
  PROVE  srv.st \in S /\ \A p \in net : ~IsPut(p, t)
BY DEF StAt, Unsaved, Coming, Late, InFlight, IsPut

LEMMA StAfterAsk ==
  ASSUME NEW t \in Tabs, NEW S, StAt(t, S), ~Unsaved(t),
         UNCHANGED <<view, ref, srv>>, NEW k, k # "put",
         \A r \in net' : r \in net \/ r = Request(t, k)
  PROVE  StAt(t, S)'
<1>1. Request(t, k).kind = k /\ Request(t, k).stage = "sent"
  BY DEF Request
<1> QED BY <1>1, StResting DEF StAt, IsPut, Replaces

LEMMA StAfterFlush ==
  ASSUME NEW t \in Tabs, NEW S, StAt(t, S), view'[t].st \in S, ref'[t].st \in S,
         UNCHANGED srv, InFlight(t, {"put"}) = {},
         NEW p, net' = net \cup {p}, p.tab = t, p.kind = "put", p.stage = "sent", p.doc = ref'[t]
  PROVE  StAt(t, S)'
<1>1. \A q \in net' : IsPut(q, t) => q = p
  BY DEF InFlight, IsPut
<1>2. Coming(t)'
  BY DEF Coming, IsPut
<1>3. Asked(t, "st")' => Asked(t, "st")
  BY DEF Asked, Replaces
<1>4. \A r \in net' : Replaces(r, t, "st") => r \in net
  BY DEF Replaces
<1> QED BY <1>1, <1>2, <1>3, <1>4 DEF StAt, Replaces

LEMMA StUses ==
  ASSUME TypeOK, TypeOK', NEW t \in Tabs, NEW S, "paused" \in S, "st" \notin raced'[t],
         StAt(t, S), Uses(t), "running" \in S \/ ~Publish(t)
  PROVE  StAt(t, S)'
<1>1. view[t] \in Docs /\ ref[t] \in Docs /\ view'[t] \in Docs /\ ref'[t] \in Docs
  BY DEF TypeOK
<1>2. view[t].st \in S /\ ref[t].st \in S
  BY DEF StAt
<1>3. CASE EditSegments(t) \/ EditRest(t) \/ CreateDraft(t) \/ CreateAndSubmit(t)
  <2>1. /\ ref'[t] = view'[t] /\ Late(t)' /\ UNCHANGED <<srv, net, status>>
        /\ view'[t].st = view[t].st
    <3>1. CASE EditSegments(t)
      BY <1>1, <3>1 DEF EditSegments, Edit, Shows, Schedule, TypeOK, Late, server, Docs
    <3>2. CASE EditRest(t)
      BY <1>1, <3>2 DEF EditRest, Edit, Shows, Schedule, TypeOK, Late, server, Docs
    <3>3. CASE CreateDraft(t)
      BY <1>1, <3>3 DEF CreateDraft, Shows, Schedule, TypeOK, Late, server, Docs
    <3>4. CASE CreateAndSubmit(t)
      BY <1>1, <3>4 DEF CreateAndSubmit, Shows, TypeOK, Late, server, Docs
    <3> QED BY <1>3, <3>1, <3>2, <3>3, <3>4
  <2> QED BY <1>2, <2>1, StFrame
<1>4. CASE Publish(t)
  <2>1. /\ ref'[t] = view'[t] /\ Late(t)' /\ UNCHANGED <<srv, net, status>>
        /\ view'[t].st = "running"
    BY <1>1, <1>4 DEF Publish, Shows, TypeOK, Late, server, Docs
  <2> QED BY <1>4, <2>1, StFrame
<1>5. CASE Pause(t)
  <2>1. /\ ref'[t] = view'[t] /\ Late(t)' /\ UNCHANGED <<srv, net, status>>
        /\ view'[t].st = "paused"
    BY <1>1, <1>5 DEF Pause, Shows, Schedule, TypeOK, Late, server, Docs
  <2> QED BY <2>1, StFrame
<1>6. CASE Submit(t)
  <2>1. Late(t)' /\ UNCHANGED <<view, ref, srv, net, status>>
    BY <1>6 DEF Submit, TypeOK, Late, server
  <2> QED BY <1>2, <2>1, StFrame
<1>7. CASE Sync(t) \/ Launch(t)
  <2>1. UNCHANGED <<srv, tabs>>
    BY <1>7 DEF Sync, Launch, server
  <2>2. \A r \in net' : r \in net \/ r.kind \in {"sync", "launch"}
    BY <1>7 DEF Sync, Launch, Send, Request
  <2>3. net \subseteq net'
    BY <1>7 DEF Sync, Launch, Send
  <2> QED BY <1>2, <2>1, <2>2, <2>3, StFrame DEF tabs, Late, IsPut, Replaces
<1>8. CASE Reload(t) \/ ChangeChannel(t)
  <2>1. UNCHANGED <<srv, tabs>>
    BY <1>8 DEF Reload, ChangeChannel, server
  <2>2. PICK k \in {"boot", "channel"} : \A r \in net' : r \in net \/ r = Request(t, k)
    BY <1>8 DEF Reload, ChangeChannel, Send
  <2>3. ~Unsaved(t)
    BY <1>8 DEF Reload, ChangeChannel, AskAfterEdits, TypeOK, Overwrites, Fields
  <2> QED BY <2>1, <2>2, <2>3, StAfterAsk DEF tabs
<1>9. CASE SaveSettings(t)
  <2>1. view'[t].st = view[t].st /\ ref'[t].st = ref[t].st
    BY <1>1, <1>9 DEF SaveSettings, TypeOK, Docs
  <2>2. InFlight(t, {"put"}) = {}
    BY <1>9 DEF SaveSettings, TypeOK, Fields
  <2>3. PICK p : net' = net \cup {p} /\ p = Put(t, ref'[t], "nothing")
    BY <1>9 DEF SaveSettings, Send
  <2>4. p.tab = t /\ p.kind = "put" /\ p.stage = "sent" /\ p.doc = ref'[t]
    BY <1>1, <2>3, PutIsTyped DEF Thens
  <2>5. UNCHANGED srv
    BY <1>9 DEF SaveSettings, server
  <2> QED BY <1>2, <2>1, <2>2, <2>3, <2>4, <2>5, StAfterFlush
<1> QED BY <1>3, <1>4, <1>5, <1>6, <1>7, <1>8, <1>9 DEF Uses

LEMMA StRuns ==
  ASSUME TypeOK, TypeOK', NEW t \in Tabs, NEW S, "st" \notin raced'[t], StAt(t, S), Runs(t)
  PROVE  StAt(t, S)'
<1>1. ref[t] \in Docs /\ asap[t] \in Thens /\ "nothing" \in Thens
  BY DEF TypeOK, Thens
<1>2. view[t].st \in S /\ ref[t].st \in S
  BY DEF StAt
<1>3. CASE Render(t)
  <2>1. ref'[t] = view[t] /\ UNCHANGED <<view, srv, net, timer, asap, status>>
    BY <1>3 DEF Render, TypeOK, server
  <2> QED BY <1>2, <2>1, StFrame DEF Late
<1>4. CASE TimerFires(t) \/ AsapFires(t)
  <2>1. UNCHANGED <<view, ref, srv>> /\ \E then \in Thens : Flush(t, ref[t], then)
    BY <1>1, <1>4 DEF TimerFires, AsapFires, server
  <2>2. PICK then \in Thens : Flush(t, ref[t], then)
    BY <2>1
  <2>3. InFlight(t, {"put"}) = {}
    BY <2>2 DEF Flush, TypeOK, Fields
  <2>4. PICK p : net' = net \cup {p} /\ p = Put(t, ref[t], then)
    BY <2>2 DEF Flush, Send
  <2>5. p.tab = t /\ p.kind = "put" /\ p.stage = "sent" /\ p.doc = ref'[t]
    BY <1>1, <2>1, <2>4, PutIsTyped
  <2> QED BY <1>2, <2>1, <2>3, <2>4, <2>5, StAfterFlush
<1>5. CASE Poll(t)
  <2>1. UNCHANGED <<srv, tabs>>
    BY <1>5 DEF Poll, server
  <2>2. net' = net \cup {Request(t, "poll")}
    BY <1>5 DEF Poll, Send
  <2>3. ~Unsaved(t)
    BY <1>5 DEF Poll, TypeOK, Overwrites
  <2> QED BY <2>1, <2>2, <2>3, StAfterAsk DEF tabs
<1> QED BY <1>3, <1>4, <1>5 DEF Runs

LEMMA StHandles ==
  ASSUME TypeOK, TypeOK', NEW t \in Tabs, NEW S, "st" \notin raced'[t],
         OnePut(t), StAt(t, S), NEW r \in net, r.tab = t, Handles(r),
         "running" \in S \/ r.kind # "launch"
  PROVE  StAt(t, S)'
<1>1. r \in Requests /\ r.doc \in Docs /\ srv \in Docs
  BY DEF TypeOK, Requests
<1>2. UNCHANGED tabs /\ net \ {r} \subseteq net'
  BY ServerAnswers
<1>3. UNCHANGED <<view, ref>> /\ Late(t)' = Late(t) /\ UNCHANGED status
  BY <1>2 DEF tabs, Late
<1>4. ASSUME NEW s, NEW d, Becomes(r, s, d)
      PROVE  \E n : /\ net' = (net \ {r}) \cup {n} /\ n.tab = t /\ n.kind = r.kind
                    /\ n.stage = s /\ n.doc = d
  <2> DEFINE n == [r EXCEPT !.stage = s, !.doc = d]
  <2>1. n.tab = t /\ n.kind = r.kind /\ n.stage = s /\ n.doc = d
    BY <1>1 DEF Requests
  <2>2. net' = (net \ {r}) \cup {n}
    BY <1>4 DEF Becomes
  <2> HIDE DEF n
  <2> QED BY <2>1, <2>2
<1>5. CASE PutRead(r)
  <2> DEFINE d == [r.doc EXCEPT !.ts =
       IF @ = "none" THEN "none" ELSE IF srv.ts = "none" THEN "draft" ELSE srv.ts]
  <2>1. PICK n : /\ net' = (net \ {r}) \cup {n} /\ n.tab = t /\ n.kind = r.kind
                 /\ n.stage = "read" /\ n.doc = d
    BY <1>4, <1>5 DEF PutRead
  <2>2. d.st = r.doc.st
    BY <1>1 DEF Docs
  <2> HIDE DEF d
  <2>3. r.kind = "put" /\ r.stage = "sent" /\ UNCHANGED srv
    BY <1>5 DEF PutRead, server
  <2>4. IsPut(r, t) /\ IsPut(n, t) /\ Coming(t)'
    BY <2>1, <2>3 DEF IsPut, Coming
  <2>5. Asked(t, "st")' => Asked(t, "st")
    BY <2>1, <2>3 DEF Asked, Replaces
  <2>6. \A q \in net' : IsPut(q, t) => q = n
    BY <2>1, <2>4 DEF OnePut
  <2>7. \A q \in net' : Replaces(q, t, "st") => q \in net
    BY <2>1, <2>3 DEF Replaces
  <2> QED BY <1>3, <2>1, <2>2, <2>3, <2>4, <2>5, <2>6, <2>7 DEF StAt, Replaces
<1>6. CASE PutWrite(r)
  <2>1. PICK n : /\ net' = (net \ {r}) \cup {n} /\ n.tab = t /\ n.kind = r.kind
                 /\ n.stage = "answered" /\ n.doc = r.doc
    BY <1>4, <1>6 DEF PutWrite
  <2>2. r.kind = "put" /\ srv' = r.doc
    BY <1>6 DEF PutWrite
  <2>3. IsPut(r, t) /\ IsPut(n, t)
    BY <2>1, <2>2 DEF IsPut
  <2>4. \A q \in net' : IsPut(q, t) => q = n
    BY <2>1, <2>3 DEF OnePut
  <2>5. \A q \in net' : Replaces(q, t, "st") => q \in net
    BY <2>1, <2>2 DEF Replaces
  <2> QED BY <1>3, <2>1, <2>2, <2>3, <2>4, <2>5 DEF StAt, Replaces
<1>7. CASE Bootstrap(r)
  <2>1. PICK n : /\ net' = (net \ {r}) \cup {n} /\ n.tab = t /\ n.kind = r.kind
                 /\ n.stage = "answered" /\ n.doc = srv
    BY <1>4, <1>7 DEF Bootstrap
  <2>2. r.kind # "put" /\ UNCHANGED srv
    BY <1>7 DEF Bootstrap, server
  <2>3. Asked(t, "st")' => Asked(t, "st")
    BY <2>1 DEF Asked, Replaces
  <2>4. \A q : IsPut(q, t) => (q \in net' <=> q \in net)
    BY <2>1, <2>2 DEF IsPut
  <2>5. Coming(t) => Coming(t)'
    BY <1>3, <2>4 DEF Coming, IsPut
  <2>6. Replaces(n, t, "st") => Asked(t, "st")
    BY <2>1 DEF Asked, Replaces
  <2> QED BY <1>3, <2>1, <2>2, <2>3, <2>4, <2>5, <2>6 DEF StAt, Replaces, IsPut
<1>8. CASE ~(PutRead(r) \/ PutWrite(r) \/ Bootstrap(r))
  <2>1. r.kind \in {"launch", "submit", "sync"}
    BY <1>8 DEF Handles, HandleLaunch, SubmitToMeta, HandleSync, MarkSubmitted
  <2>2. PICK n : net' \subseteq (net \ {r}) \cup {n} /\ n.tab = t /\ n.kind = r.kind
    BY ServerAnswers
  <2>3. \A q : IsPut(q, t) => (q \in net' <=> q \in net)
    BY <1>2, <2>1, <2>2 DEF IsPut
  <2>4. \A q \in net' : Replaces(q, t, "st") => q \in net
    BY <2>1, <2>2 DEF Replaces
  <2>5. srv.st \in S => srv'.st \in S
    <3>1. CASE HandleLaunch(r)
      BY <1>1, <3>1 DEF HandleLaunch, Docs
    <3>2. CASE SubmitToMeta(r) \/ HandleSync(r)
      BY <1>1, <3>2 DEF SubmitToMeta, HandleSync, Docs
    <3>3. ASSUME NEW s \in {"pending", "approved"}, MarkSubmitted(r, s)
          PROVE  srv.st \in S => srv'.st \in S
      BY <1>1, <3>3 DEF MarkSubmitted, Docs
    <3> QED BY <1>8, <3>1, <3>2, <3>3 DEF Handles
  <2> QED BY <1>3, <2>3, <2>4, <2>5, StFrame DEF StAt
<1> QED BY <1>5, <1>6, <1>7, <1>8

LEMMA StEnds ==
  ASSUME TypeOK, TypeOK', Refusals, NEW t \in Tabs, NEW S, "st" \notin raced'[t],
         OnePut(t), StAt(t, S), NEW r \in net, r.tab = t, Returns(r) \/ Fails(r),
         "running" \in S \/ r.kind # "launch"
  PROVE  StAt(t, S)'
<1>1. r \in Requests /\ r.doc \in Docs /\ view[t] \in Docs
  BY DEF TypeOK, Requests
<1>2. /\ UNCHANGED server /\ net \ {r} \subseteq net'
      /\ \A q \in net' : q \in net \ {r} \/ (q.kind \in {"launch", "submit"})
  BY AnswersOnlyAsk
<1>3. UNCHANGED srv
  BY <1>2 DEF server
<1>4. /\ \A q \in net' : Replaces(q, t, "st") => q \in net
      /\ \A q \in net' : IsPut(q, t) => q \in net \ {r}
      /\ Asked(t, "st")' => Asked(t, "st")
  BY <1>2 DEF Replaces, IsPut, Asked
<1>5. CASE PutAnswered(r)
  <2>1. /\ view'[t] = Merge(view[t], r.doc) /\ UNCHANGED <<ref, timer, asap>>
        /\ IsPut(r, t) /\ r.stage = "answered"
    BY <1>5 DEF PutAnswered, TypeOK, IsPut
  <2>2. view'[t].st = r.doc.st
    BY <1>1, <2>1 DEF Merge, Docs
  <2>3. \A q \in net' : ~IsPut(q, t)
    BY <1>4, <2>1 DEF OnePut
  <2>4. srv.st \in S /\ r.doc.st \in S
    BY <2>1 DEF StAt
  <2> QED BY <1>3, <1>4, <2>1, <2>2, <2>3, <2>4 DEF StAt, Replaces
<1>6. CASE PutFailed(r)
  <2>1. UNCHANGED <<view, ref>> /\ Coming(t)'
    BY <1>6 DEF PutFailed, TypeOK, Coming
  <2> QED BY <1>3, <1>4, <2>1 DEF StAt, Replaces, IsPut
<1>7. CASE Refused(r) \/ Failed(r)
  <2>1. r.kind # "put" /\ TellsError(r)
    BY <1>7 DEF Refused, Failed, Refusals
  <2>2. /\ UNCHANGED <<view, ref, timer, asap>>
        /\ status[t] = "error" => status'[t] = "error"
    BY <2>1 DEF TellsError, TypeOK
  <2>3. \A p : IsPut(p, t) => (p \in net' <=> p \in net)
    BY <1>2, <1>4, <2>1 DEF IsPut
  <2> QED BY <1>3, <1>4, <2>2, <2>3, StFrame DEF Late, StAt
<1>8. CASE Answered(r)
  <2>1. /\ r.kind # "put" /\ r.stage = "answered" /\ view'[t] = Shown(r)
        /\ UNCHANGED <<ref, timer, asap>>
    BY <1>8 DEF Answered, TypeOK
  <2>2. Shown(r).st \in S
    <3>1. CASE r.kind \in {"poll", "boot", "channel"}
      <4>1. Replaces(r, t, "st")
        BY <3>1 DEF Replaces, Overwrites, Fields
      <4>2. r.doc.st \in S
        BY <2>1, <4>1 DEF StAt
      <4>3. Shown(r).st = r.doc.st
        BY <1>1, <3>1 DEF Shown, Merge, Docs
      <4> QED BY <4>2, <4>3
    <3>2. CASE r.kind = "launch"
      <4>1. Shown(r).st = "running"
        BY <1>1, <3>2 DEF Shown, Docs
      <4> QED BY <3>2, <4>1
    <3>3. CASE r.kind \in {"submit", "sync"}
      <4>1. Shown(r).st = view[t].st
        BY <1>1, <3>3 DEF Shown, Docs
      <4> QED BY <4>1 DEF StAt
    <3> QED BY <1>1, <2>1, <3>1, <3>2, <3>3 DEF Requests, Kinds
  <2>3. \A p : IsPut(p, t) => (p \in net' <=> p \in net)
    BY <1>2, <1>4, <2>1 DEF IsPut
  <2>4. view'[t].st \in S /\ ref'[t].st \in S
    BY <2>1, <2>2 DEF StAt
  <2>5. CASE status[t] = "error" => status'[t] = "error"
    BY <1>3, <1>4, <2>1, <2>3, <2>4, <2>5, StFrame DEF Late
  <2>6. CASE status[t] = "error" /\ r.kind = "boot"
    <3>1. Replaces(r, t, "st")
      BY <2>6 DEF Replaces, Overwrites, Fields
    <3>2. srv.st \in S
      BY <3>1 DEF StAt, Asked
    <3> QED BY <1>3, <1>4, <2>4, <3>2 DEF StAt, Replaces, IsPut
  <2>7. status[t] = "error" => r.then # "create"
    BY <1>8 DEF Answered, TypeOK, Fields
  <2> QED BY <1>8, <2>5, <2>6, <2>7 DEF Answered, TypeOK
<1> QED BY <1>5, <1>6, <1>7, <1>8 DEF Returns, Fails

\* Any step keeps the status in S; one that launches takes "running" in S.
LEMMA StepSt ==
  ASSUME TypeOK, TypeOK', PutsInv, Refusals, [Next]_vars, NEW t \in Tabs, NEW S,
         "paused" \in S, "finished" \in S, "st" \notin raced'[t], StAt(t, S),
         "running" \in S \/ (~Publish(t) /\ \A r \in net : r.tab = t => r.kind # "launch")
  PROVE  StAt(t, S)'
<1>1. OnePut(t)
  BY RacedGrows DEF PutsInv, Fields
<1>2. ASSUME Still(t), srv.st \in S => srv'.st \in S PROVE StAt(t, S)'
  <2>1. \A p : p.tab = t => (p \in net' <=> p \in net)
    BY <1>2 DEF Still, TypeOK
  <2>2. view[t].st \in S /\ ref[t].st \in S
    BY DEF StAt
  <2> QED BY <1>2, <2>1, <2>2, StFrame DEF Still, Late, IsPut, Replaces
<1>3. ASSUME NEW u \in Tabs, Uses(u) \/ Runs(u) PROVE StAt(t, S)'
  <2>1. CASE u = t
    BY <1>3, <2>1, StUses, StRuns
  <2>2. CASE u # t
    BY <1>2, <1>3, <2>2, OthersAreStill, TabsOnlyAsk DEF server
  <2> QED BY <2>1, <2>2
<1>4. ASSUME NEW r \in net, Returns(r) \/ Fails(r) PROVE StAt(t, S)'
  <2>0. r.tab \in Tabs
    BY DEF TypeOK, Requests
  <2>1. CASE r.tab = t
    BY <1>1, <1>4, <2>1, StEnds
  <2>2. CASE r.tab # t
    BY <1>2, <1>4, <2>0, <2>2, OthersAreStill, AnswersOnlyAsk DEF server
  <2> QED BY <2>1, <2>2
<1>5. ASSUME NEW r \in net, Handles(r) PROVE StAt(t, S)'
  <2>0. r.tab \in Tabs /\ srv \in Docs
    BY DEF TypeOK, Requests
  <2>1. CASE r.tab = t
    BY <1>1, <1>5, <2>1, StHandles
  <2>2. CASE r.tab # t
    <3>1. srv.st \in S => srv'.st \in S
      <4>1. ~PutWrite(r)
        BY <2>2 DEF PutWrite, Fields
      <4>2. CASE HandleLaunch(r)
        BY <2>2, <4>2 DEF HandleLaunch
      <4>3. CASE PutRead(r) \/ Bootstrap(r) \/ SubmitToMeta(r) \/ HandleSync(r)
        BY <2>0, <4>3 DEF PutRead, Bootstrap, SubmitToMeta, HandleSync, server, Docs
      <4>4. ASSUME NEW s \in {"pending", "approved"}, MarkSubmitted(r, s)
            PROVE  srv.st \in S => srv'.st \in S
        BY <2>0, <4>4 DEF MarkSubmitted, Docs
      <4> QED BY <1>5, <4>1, <4>2, <4>3, <4>4 DEF Handles
    <3> QED BY <1>2, <1>5, <2>0, <2>2, <3>1, OthersAreStill
  <2> QED BY <2>1, <2>2
<1>6. ASSUME Finish \/ \E d \in Verdicts : Review(d) \/ Webhook(d) PROVE StAt(t, S)'
  <2>1. Still(t)
    BY <1>6 DEF Still, Finish, Review, Webhook, tabs
  <2>2. srv.st \in S => srv'.st \in S
    <3>1. srv' = srv \/ srv'.st = "finished" \/ srv'.st = srv.st
      BY <1>6 DEF Finish, Review, Webhook, TypeOK, Docs
    <3> QED BY <3>1
  <2> QED BY <1>2, <2>1, <2>2
<1>7. CASE UNCHANGED vars
  BY <1>2, <1>7 DEF Still, vars, server, tabs
<1> QED BY <1>3, <1>4, <1>5, <1>6, <1>7 DEF Next

\* Where a launch comes from: a click, or a PUT that was to be followed by one.
Follows(r) == r.kind = "put" /\ r.then = "launch"
Follower(r) == r.kind = "launch" /\ r.then = "saved"

LEMMA WhoLaunches ==
  ASSUME TypeOK, [Next]_vars, NEW t \in Tabs
  PROVE  /\ asap'[t] = "launch" => asap[t] = "launch" \/ Publish(t)
         /\ \A q \in net' : q.tab = t =>
              /\ Follows(q) => asap[t] = "launch" \/ \E r \in net : r.tab = t /\ Follows(r)
              /\ q.kind = "launch" => \/ Launch(t)
                                     \/ \E r \in net : r.tab = t /\ (r.kind = "launch" \/ Follows(r))
              /\ Follower(q) => \E r \in net : r.tab = t /\
                   \/ Follower(r) /\ (q = r \/ Handles(r))
                   \/ Follows(r) /\ r.stage = "answered" /\ q.stage = "sent"
<1> DEFINE Wanted(q) ==
             /\ Follows(q) => asap[t] = "launch" \/ \E r \in net : r.tab = t /\ Follows(r)
             /\ q.kind = "launch" => \/ Launch(t)
                                    \/ \E r \in net : r.tab = t /\ (r.kind = "launch" \/ Follows(r))
             /\ Follower(q) => \E r \in net : r.tab = t /\
                  \/ Follower(r) /\ (q = r \/ Handles(r))
                  \/ Follows(r) /\ r.stage = "answered" /\ q.stage = "sent"
<1> DEFINE Goal == /\ asap'[t] = "launch" => asap[t] = "launch" \/ Publish(t)
                   /\ \A q \in net' : q.tab = t => Wanted(q)
<1> SUFFICES Goal
  OBVIOUS
<1>1. \A q \in net : q.tab = t => Wanted(q)
  OBVIOUS
<1> HIDE DEF Wanted
<1>2. ASSUME NEW u \in Tabs, Uses(u) PROVE Goal
  <2>1. asap'[t] = "launch" => asap[t] = "launch" \/ Publish(t)
    <3>1. CASE u # t
      <4>1. CASE \/ EditSegments(u) \/ EditRest(u) \/ CreateDraft(u) \/ CreateAndSubmit(u)
                 \/ Submit(u) \/ Pause(u) \/ Publish(u) \/ SaveSettings(u)
        BY <3>1, <4>1 DEF EditSegments, EditRest, Edit, CreateDraft, CreateAndSubmit, Submit, Pause,
           Publish, SaveSettings, TypeOK
      <4>2. CASE Sync(u) \/ Launch(u) \/ Reload(u) \/ ChangeChannel(u)
        BY <4>2 DEF Sync, Launch, Reload, ChangeChannel, tabs
      <4> QED BY <1>2, <4>1, <4>2 DEF Uses
    <3>2. CASE u = t
      <4>1. CASE EditSegments(t) \/ EditRest(t) \/ CreateDraft(t) \/ Pause(t) \/ SaveSettings(t)
        BY <4>1 DEF EditSegments, EditRest, Edit, CreateDraft, Pause, SaveSettings
      <4>2. CASE CreateAndSubmit(t) \/ Submit(t)
        BY <4>2 DEF CreateAndSubmit, Submit, TypeOK
      <4>3. CASE Sync(t) \/ Launch(t) \/ Reload(t) \/ ChangeChannel(t)
        BY <4>3 DEF Sync, Launch, Reload, ChangeChannel, tabs
      <4> QED BY <1>2, <3>2, <4>1, <4>2, <4>3 DEF Uses
    <3> QED BY <3>1, <3>2
  <2>2. \A q \in net' : q.tab = t => Wanted(q)
    <3>1. CASE \/ EditSegments(u) \/ EditRest(u) \/ CreateDraft(u) \/ CreateAndSubmit(u)
               \/ Submit(u) \/ Pause(u) \/ Publish(u)
      BY <1>1, <3>1 DEF EditSegments, EditRest, Edit, CreateDraft, CreateAndSubmit, Submit, Pause,
         Publish
    <3>2. CASE Launch(u)
      <4>1. /\ Request(u, "launch").tab = u /\ Request(u, "launch").then = "nothing"
            /\ Request(u, "launch").kind = "launch"
        BY DEF Request
      <4>2. \A q \in net' : q \in net \/ q = Request(u, "launch")
        BY <3>2 DEF Launch, Send
      <4>3. u = t => Wanted(Request(u, "launch"))
        BY <3>2, <4>1 DEF Wanted, Follows, Follower
      <4> QED BY <1>1, <4>1, <4>2, <4>3
    <3>3. CASE Sync(u) \/ Reload(u) \/ ChangeChannel(u)
      <4>1. \A q \in net' : q \in net \/ q.kind \in {"sync", "boot", "channel"}
        BY <3>3 DEF Sync, Reload, ChangeChannel, Send, Request
      <4> QED BY <1>1, <4>1 DEF Wanted, Follows, Follower
    <3>4. CASE SaveSettings(u)
      <4>1. \A q \in net' : q \in net \/ (q.kind = "put" /\ q.then = "nothing")
        BY <3>4 DEF SaveSettings, Send, Put, Request
      <4> QED BY <1>1, <4>1 DEF Wanted, Follows, Follower
    <3> QED BY <1>2, <3>1, <3>2, <3>3, <3>4 DEF Uses
  <2> QED BY <2>1, <2>2
<1>3. ASSUME NEW u \in Tabs, Runs(u) PROVE Goal
  <2>1. asap'[t] = "launch" => asap[t] = "launch"
    BY <1>3 DEF Runs, Render, TimerFires, AsapFires, Poll, tabs, TypeOK
  <2>2. \A q \in net' : q.tab = t => Wanted(q)
    <3>1. CASE Render(u) \/ Poll(u)
      <4>1. \A q \in net' : q \in net \/ q.kind = "poll"
        BY <3>1 DEF Render, Poll, Send, Request
      <4> QED BY <1>1, <4>1 DEF Wanted, Follows, Follower
    <3>2. CASE TimerFires(u) \/ AsapFires(u)
      <4>0. ref[u] \in Docs /\ asap[u] \in Thens /\ "nothing" \in Thens
        BY <1>3 DEF TypeOK, Thens
      <4>1. CASE TimerFires(u)
        <5>1. \A q \in net' : q \in net \/ q = Put(u, ref[u], "nothing")
          BY <4>1 DEF TimerFires, Flush, Send
        <5>2. /\ Put(u, ref[u], "nothing").kind = "put"
              /\ Put(u, ref[u], "nothing").then = "nothing"
          BY <1>3, <4>0, PutIsTyped
        <5> QED BY <1>1, <5>1, <5>2 DEF Wanted, Follows, Follower
      <4>2. CASE AsapFires(u)
        <5>1. \A q \in net' : q \in net \/ q = Put(u, ref[u], asap[u])
          BY <4>2 DEF AsapFires, Flush, Send
        <5>2. /\ Put(u, ref[u], asap[u]).kind = "put"
              /\ Put(u, ref[u], asap[u]).tab = u
              /\ Put(u, ref[u], asap[u]).then = asap[u]
          BY <1>3, <4>0, PutIsTyped
        <5> QED BY <1>1, <5>1, <5>2 DEF Wanted, Follows, Follower
      <4> QED BY <3>2, <4>1, <4>2
    <3> QED BY <1>3, <3>1, <3>2 DEF Runs
  <2> QED BY <2>1, <2>2
<1>4. ASSUME NEW r \in net, Returns(r) \/ Fails(r) PROVE Goal
  <2>0. r \in Requests
    BY DEF TypeOK
  <2>1. UNCHANGED asap
    BY <1>4 DEF Returns, Fails, PutAnswered, Answered, Refused, PutFailed, Failed, TellsError
  <2>2. ASSUME NEW q \in net', q.tab = t PROVE Wanted(q)
    <3>1. CASE q \in net
      BY <1>1, <2>2, <3>1
    <3>2. CASE q \notin net
      <4>1. /\ q.tab = r.tab /\ q.stage = "sent" /\ r.kind = "put"
            /\ q.kind = "launch" => r.then = "launch"
            /\ q.kind # "launch" => q.kind = "submit"
            /\ q.kind = "launch" /\ q.then = "saved" => r.stage = "answered"
        <5>1. CASE PutAnswered(r)
          BY <3>2, <5>1 DEF PutAnswered, Continue, Request
        <5>2. CASE PutFailed(r)
          BY <3>2, <5>2 DEF PutFailed, Continue, Request
        <5>3. CASE Answered(r) \/ Refused(r) \/ Failed(r)
          BY <3>2, <5>3 DEF Answered, Refused, Failed, TellsError
        <5> QED BY <1>4, <5>1, <5>2, <5>3 DEF Returns, Fails
      <4> QED BY <2>2, <4>1 DEF Wanted, Follows, Follower
    <3> QED BY <3>1, <3>2
  <2> QED BY <2>1, <2>2
<1>5. ASSUME NEW r \in net, Handles(r) PROVE Goal
  <2>1. PICK n : /\ net' \subseteq (net \ {r}) \cup {n}
                 /\ n.tab = r.tab /\ n.kind = r.kind /\ n.then = r.then
    BY <1>5, ServerAnswers
  <2>2. UNCHANGED asap
    BY <1>5, ServerAnswers DEF tabs
  <2>3. n.tab = t => Wanted(n)
    BY <1>5, <2>1 DEF Wanted, Follows, Follower
  <2> QED BY <1>1, <2>1, <2>2, <2>3
<1>6. ASSUME Finish \/ (\E d \in Verdicts : Review(d) \/ Webhook(d)) \/ UNCHANGED vars PROVE Goal
  BY <1>1, <1>6 DEF Finish, Review, Webhook, vars, tabs
<1> QED BY <1>2, <1>3, <1>4, <1>5, <1>6 DEF Next

-----------------------------------------------------------------------------
(* A pause holds.                                                            *)

Off == {"paused", "finished"}
NoLaunch(t) ==
  /\ asap[t] # "launch"
  /\ \A r \in net : r.tab = t => r.kind # "launch" /\ ~Follows(r)
PauseInv == \A t \in pauser : "st" \in raced[t] \/ (StAt(t, Off) /\ NoLaunch(t))

\* Only a pause makes a tab the one that paused.
LEMMA WhoPauses ==
  ASSUME TypeOK, [Next]_vars
  PROVE  pauser' \subseteq pauser \/ \E t \in Tabs : Pause(t) /\ pauser' = {t}
<1>1. ASSUME NEW t \in Tabs, Uses(t), ~Pause(t) PROVE pauser' \subseteq pauser
  BY <1>1 DEF Uses, EditSegments, EditRest, Edit, CreateDraft, CreateAndSubmit, Submit, Sync,
     Launch, Publish, Reload, ChangeChannel, SaveSettings, history
<1>2. ASSUME NEW t \in Tabs, Runs(t) PROVE pauser' \subseteq pauser
  BY <1>2 DEF Runs, Render, TimerFires, AsapFires, Poll, history
<1>3. ASSUME NEW r \in net, Returns(r) \/ Fails(r) PROVE pauser' \subseteq pauser
  BY <1>3 DEF Returns, Fails, PutAnswered, Answered, Refused, PutFailed, Failed, TellsError, history
<1>4. ASSUME NEW r \in net, Handles(r) PROVE pauser' \subseteq pauser
  BY <1>4 DEF Handles, PutRead, PutWrite, Bootstrap, HandleLaunch, SubmitToMeta, MarkSubmitted,
     HandleSync, history
<1>5. ASSUME Finish \/ (\E d \in Verdicts : Review(d) \/ Webhook(d)) \/ UNCHANGED vars
      PROVE  pauser' \subseteq pauser
  BY <1>5 DEF Finish, Review, Webhook, vars, history
<1>6. \A t \in Tabs : Pause(t) => pauser' = {t}
  BY DEF Pause
<1> QED BY <1>1, <1>2, <1>3, <1>4, <1>5, <1>6 DEF Next

LEMMA InitPause == Init => PauseInv
BY DEF Init, PauseInv

LEMMA StepPause == TypeOK /\ TypeOK' /\ PutsInv /\ Refusals /\ PauseInv /\ [Next]_vars => PauseInv'
<1> SUFFICES ASSUME TypeOK, TypeOK', PutsInv, Refusals, PauseInv, [Next]_vars,
                    NEW t \in pauser', "st" \notin raced'[t]
             PROVE  StAt(t, Off)' /\ NoLaunch(t)'
  BY DEF PauseInv
<1>0. t \in Tabs
  BY DEF TypeOK
<1>1. CASE Pause(t)
  <2>1. /\ ref'[t] = view'[t] /\ Late(t)' /\ UNCHANGED <<srv, net, asap>>
        /\ view'[t].st = "paused" /\ asap[t] = "nothing"
    BY <1>0, <1>1 DEF Pause, Click, Shows, Schedule, TypeOK, Late, server, Docs
  <2>2. RunsInto(t, {"st"}) = {}
    BY <1>0, <1>1 DEF Pause, TypeOK, RunsInto
  <2>3. StAt(t, Off)' /\ \A r \in net : r.tab = t => r.kind \notin {"launch", "put"}
    BY <1>0, <2>1, <2>2, StAfterClick DEF Off
  <2> QED BY <2>1, <2>3 DEF NoLaunch, Follows
<1>2. CASE ~Pause(t)
  <2>1. t \in pauser
    BY <1>2, WhoPauses
  <2>2. ~Publish(t) /\ ~Launch(t)
    BY DEF Publish, Launch
  <2>3. "st" \notin raced[t]
    BY <1>0, RacedGrows
  <2>4. StAt(t, Off) /\ NoLaunch(t)
    BY <2>1, <2>3 DEF PauseInv
  <2>5. StAt(t, Off)'
    BY <1>0, <2>2, <2>4, StepSt DEF Off, NoLaunch
  <2>6. NoLaunch(t)'
    BY <1>0, <2>2, <2>4, WhoLaunches DEF NoLaunch
  <2> QED BY <2>5, <2>6
<1> QED BY <1>1, <1>2

\* A campaign that was paused in a tab stays paused once the tab rests, whatever
\* the polls, saves and reloads of that tab and of the others, but for the
\* races that are named.
THEOREM PausesHold == Spec => []PauseHolds
<1>1. TypeOK /\ PauseInv => PauseHolds
  <2> SUFFICES ASSUME TypeOK, PauseInv, NEW t \in pauser, ~Unsaved(t), "st" \notin raced[t]
               PROVE  srv.st \in {"paused", "finished"}
    BY DEF PauseHolds
  <2> QED BY StResting DEF PauseInv, TypeOK, Off
<1>2. Init => TypeOK /\ PutsInv /\ Refusals /\ PauseInv
  BY InitTypes, InitPuts, InitSaved, InitPause
<1>3. TypeOK /\ PutsInv /\ Refusals /\ PauseInv /\ [Next]_vars
        => (TypeOK /\ PutsInv /\ Refusals /\ PauseInv)'
  BY TypesHold, StepPuts, StepRefusals, StepPause
<1> QED BY <1>1, <1>2, <1>3, PTL DEF Spec

-----------------------------------------------------------------------------
(* Publishing.                                                               *)

Begun == {"running", "paused", "finished"}

\* A publication is under way from its click to the answer of its launch.
Publishing(t) ==
  asap[t] = "launch" \/ \E r \in net : r.tab = t /\ (Follows(r) \/ Follower(r))
PublishInv ==
  \A t \in Tabs : "st" \in raced[t] \/ ~Publishing(t) \/
    /\ StAt(t, Begun)
    /\ \A r \in net : r.tab = t /\ Follower(r) => srv.st \in Begun /\ r.stage # "refused"

LEMMA InitPublish == Init => PublishInv
BY DEF Init, PublishInv, Publishing

LEMMA StepPublish ==
  TypeOK /\ TypeOK' /\ PutsInv /\ Refusals /\ PublishInv /\ [Next]_vars => PublishInv'
<1> SUFFICES ASSUME TypeOK, TypeOK', PutsInv, Refusals, PublishInv, [Next]_vars,
                    NEW t \in Tabs, "st" \notin raced'[t], Publishing(t)'
             PROVE  /\ StAt(t, Begun)'
                    /\ \A q \in net' : q.tab = t /\ Follower(q) =>
                         srv'.st \in Begun /\ q.stage # "refused"
  BY DEF PublishInv, Follower
<1>1. CASE Publish(t)
  <2>1. /\ ref'[t] = view'[t] /\ Late(t)' /\ UNCHANGED <<srv, net>>
        /\ view'[t].st = "running"
    BY <1>1 DEF Publish, Shows, TypeOK, Late, server, Docs
  <2>2. RunsInto(t, {"st"}) = {}
    BY <1>1 DEF Publish, TypeOK, RunsInto
  <2>3. StAt(t, Begun)' /\ \A r \in net : r.tab = t => r.kind \notin {"launch", "put"}
    BY <2>1, <2>2, StAfterClick DEF Begun
  <2> QED BY <2>1, <2>3 DEF Follower
<1>2. CASE ~Publish(t)
  <2>1. Publishing(t)
    <3>1. CASE asap'[t] = "launch"
      BY <1>2, <3>1, WhoLaunches DEF Publishing
    <3>2. ASSUME NEW q \in net', q.tab = t, Follows(q) \/ Follower(q) PROVE Publishing(t)
      <4>1. Follows(q) => asap[t] = "launch" \/ \E r \in net : r.tab = t /\ Follows(r)
        BY <3>2, WhoLaunches
      <4>2. Follower(q) => \E r \in net : r.tab = t /\ (Follower(r) \/ Follows(r))
        BY <3>2, WhoLaunches
      <4> QED BY <3>2, <4>1, <4>2 DEF Publishing
    <3> QED BY <3>1, <3>2 DEF Publishing, Follows, Follower
  <2>2. "st" \notin raced[t]
    BY RacedGrows
  <2>3. /\ StAt(t, Begun)
        /\ \A r \in net : r.tab = t /\ Follower(r) => srv.st \in Begun /\ r.stage # "refused"
    BY <2>1, <2>2 DEF PublishInv
  <2>4. StAt(t, Begun)'
    BY <2>3, StepSt DEF Begun
  <2>5. srv.st \in Begun => srv'.st \in Begun
    <3>0. srv \in Docs
      BY DEF TypeOK
    <3>1. ASSUME NEW r \in net, Handles(r) PROVE srv.st \in Begun => srv'.st \in Begun
      <4>1. CASE PutWrite(r)
        <5>1. r.tab = t
          BY <4>1 DEF PutWrite, Fields
        <5>2. srv' = r.doc /\ IsPut(r, t)
          BY <4>1, <5>1 DEF PutWrite, IsPut
        <5> QED BY <2>3, <5>2 DEF StAt
      <4>2. CASE HandleLaunch(r)
        BY <3>0, <4>2 DEF HandleLaunch, Docs, Begun
      <4>3. CASE PutRead(r) \/ Bootstrap(r) \/ SubmitToMeta(r) \/ HandleSync(r)
        BY <3>0, <4>3 DEF PutRead, Bootstrap, SubmitToMeta, HandleSync, server, Docs
      <4>4. ASSUME NEW s \in {"pending", "approved"}, MarkSubmitted(r, s)
            PROVE  srv.st \in Begun => srv'.st \in Begun
        BY <3>0, <4>4 DEF MarkSubmitted, Docs
      <4> QED BY <3>1, <4>1, <4>2, <4>3, <4>4 DEF Handles
    <3>2. ASSUME Finish \/ \E d \in Verdicts : Review(d) \/ Webhook(d)
          PROVE  srv.st \in Begun => srv'.st \in Begun
      BY <3>0, <3>2 DEF Finish, Review, Webhook, Docs, Begun
    <3>3. ASSUME UNCHANGED srv PROVE srv.st \in Begun => srv'.st \in Begun
      BY <3>3
    <3> QED BY <3>1, <3>2, <3>3, TabsOnlyAsk, AnswersOnlyAsk DEF Next, vars, server
  <2>6. ASSUME NEW q \in net', q.tab = t, Follower(q)
        PROVE  srv'.st \in Begun /\ q.stage # "refused"
    <3>1. PICK r \in net : r.tab = t /\
             \/ Follower(r) /\ (q = r \/ Handles(r))
             \/ Follows(r) /\ r.stage = "answered" /\ q.stage = "sent"
      BY <2>6, WhoLaunches
    <3>2. CASE Follower(r) /\ q = r
      BY <2>3, <2>5, <3>1, <3>2
    <3>3. CASE Follower(r) /\ Handles(r)
      <4>1. HandleLaunch(r) /\ srv.st \in Begun
        BY <2>3, <3>1, <3>3
        DEF Follower, Handles, PutRead, PutWrite, Bootstrap, SubmitToMeta, HandleSync, MarkSubmitted
      <4>2. srv.st # "draft"
        BY <4>1 DEF Begun
      <4>3. \A p \in net' : p \in net \/ p.stage = "answered"
        <5>1. net' = net \ {r} \/ Becomes(r, "answered", r.doc)
          BY <4>1, <4>2 DEF HandleLaunch, TypeOK
        <5>2. r \in Requests
          BY DEF TypeOK
        <5> QED BY <5>1, <5>2 DEF Becomes, Requests
      <4> QED BY <2>3, <2>5, <2>6, <4>1, <4>3
    <3>4. CASE Follows(r) /\ r.stage = "answered" /\ q.stage = "sent"
      <4>1. srv.st \in Begun
        BY <2>3, <3>1, <3>4 DEF StAt, IsPut, Follows
      <4> QED BY <2>5, <3>4, <4>1
    <3> QED BY <3>1, <3>2, <3>3, <3>4
  <2> QED BY <2>4, <2>6
<1> QED BY <1>1, <1>2

\* When a publication's PUT succeeded, its launch is not refused for the
\* campaign being a draft, for any number of tabs, edits, pauses and failures,
\* but for the races that are named.
THEOREM PublicationsGoThrough == Spec => []PublishIsNotRefused
<1>1. TypeOK /\ PublishInv => PublishIsNotRefused
  <2> SUFFICES ASSUME TypeOK, PublishInv, NEW r \in net, r.kind = "launch", r.then = "saved",
                      "st" \notin raced[r.tab]
               PROVE  r.stage # "refused"
    BY DEF PublishIsNotRefused
  <2>1. r.tab \in Tabs /\ Follower(r)
    BY DEF TypeOK, Requests, Follower
  <2>2. Publishing(r.tab)
    BY <2>1 DEF Publishing
  <2> QED BY <2>1, <2>2 DEF PublishInv
<1>2. Init => TypeOK /\ PutsInv /\ Refusals /\ PublishInv
  BY InitTypes, InitPuts, InitSaved, InitPublish
<1>3. TypeOK /\ PutsInv /\ Refusals /\ PublishInv /\ [Next]_vars
        => (TypeOK /\ PutsInv /\ Refusals /\ PublishInv)'
  BY TypesHold, StepPuts, StepRefusals, StepPublish
<1> QED BY <1>1, <1>2, <1>3, PTL DEF Spec

-----------------------------------------------------------------------------
(* The canvas.  It keeps its graph sound for any number of blocks,         *)
(* connections and changes, from any flow the screens create.  The         *)
(* argument: the store's flow and the server's copy have, each, no loop    *)
(* and no twins; every connection in either was numbered before the next   *)
(* one; the server's copy joins blocks it has, the store's may begin at a  *)
(* block that went away, but only if connect held it at that moment, which *)
(* is what torn records.  Without the part about saved a reload could      *)
(* bring anything back; without the one about connect a connection could   *)
(* begin anywhere.                                                         *)

\* Neither loop nor twins, and numbered up to joined.
Sound(f) ==
  /\ \A e \in f.edges : e.from # e.to /\ e.id <= joined
  /\ \A e, g \in f.edges : (e.id = g.id \/ <<e.from, e.to>> = <<g.from, g.to>>) => e = g

\* The inductive invariant.
CanvasInv ==
  /\ F!TypeOK
  /\ Sound(flow) /\ Sound(saved)
  /\ F!EdgesJoinBlocks
  /\ \A e \in saved.edges : {e.from, e.to} \subseteq saved.blocks
  /\ connect # 0 => connect \in flow.blocks \cup torn

-----------------------------------------------------------------------------
(* The flows the screens create.                                           *)

\* A chain of connections counts as many as it has links.
LEMMA ChainLength ==
  ASSUME NEW links \in Nat
  PROVE  Cardinality({F!Edge(i, i, i + 1) : i \in 1..links}) = links
<1> DEFINE E == {F!Edge(i, i, i + 1) : i \in 1..links}
           f == [i \in 1..links |-> F!Edge(i, i, i + 1)]
<1>1. f \in Bijection(1..links, E)
  <2>1. f \in [1..links -> E]  OBVIOUS
  <2>2. \A i, j \in 1..links : f[i] = f[j] => i = j  BY DEF F!Edge
  <2>3. \A e \in E : \E i \in 1..links : f[i] = e  OBVIOUS
  <2> QED  BY <2>1, <2>2, <2>3 DEF Bijection, Injection, Surjection, IsInjective
<1>2. IsFiniteSet(1..links) /\ Cardinality(1..links) = links
  BY FS_Interval
<1> QED  BY <1>1, <1>2, FS_Bijection DEF ExistsBijection

\* A chain that fits the bounds is a flow whose connections are sound and join
\* its blocks.
LEMMA ChainIsSound ==
  ASSUME NEW n \in 1..MaxBlocks, NEW links \in 0..MaxEdges, links < n,
         NEW kinds, \A b \in 1..n : kinds[b] \in F!Kinds,
         NEW segment \in F!Configs, NEW template \in F!Configs
  PROVE  LET f == F!Chain(kinds, n, links, segment, template) IN
         /\ f \in F!Flows
         /\ Cardinality(f.blocks) = n /\ Cardinality(f.edges) = links
         /\ \A e \in f.edges : /\ e.from # e.to /\ e.id <= links
                               /\ {e.from, e.to} \subseteq f.blocks
         /\ \A e, g \in f.edges :
              (e.id = g.id \/ <<e.from, e.to>> = <<g.from, g.to>>) => e = g
<1> DEFINE f == F!Chain(kinds, n, links, segment, template)
<1> USE CanvasAssumption DEF CanvasAssumption
<1>0. n \in Nat /\ links \in Nat /\ MaxBlocks \in Nat /\ MaxEdges \in Nat  OBVIOUS
<1>1. f.edges = {F!Edge(i, i, i + 1) : i \in 1..links} /\ f.blocks = 1..n
  BY DEF F!Chain
<1>2. \A i \in 1..links : i \in 1..n /\ i + 1 \in 1..n /\ i \in 1..MaxEdges /\ i # i + 1
  BY <1>0
<1>3. \A e \in f.edges : \E i \in 1..links : e.id = i /\ e.from = i /\ e.to = i + 1
  BY <1>1 DEF F!Edge
<1>4. f.edges \subseteq F!Edges
  BY <1>0, <1>1, <1>2 DEF F!Edge, F!Edges, F!Blocks
<1>5. f \in F!Flows
  <2>1. f.kind \in [F!Blocks -> F!Kinds]  BY DEF F!Chain, F!Kinds
  <2>2. f.config \in [F!Blocks -> F!Configs]  BY DEF F!Chain, F!Configs
  <2>3. f.blocks \subseteq F!Blocks /\ f.off = {}  BY <1>0 DEF F!Chain, F!Blocks
  <2> HIDE DEF f
  <2>4. f = [blocks |-> f.blocks, off |-> f.off, kind |-> f.kind,
             config |-> f.config, edges |-> f.edges]
    BY DEF f, F!Chain
  <2> QED  BY <1>4, <2>1, <2>2, <2>3, <2>4 DEF F!Flows
<1>6. Cardinality(f.blocks) = n
  BY <1>0, <1>1, FS_Interval
<1>7. Cardinality(f.edges) = links
  BY <1>0, <1>1, ChainLength
<1>8. \A e \in f.edges : e.from # e.to /\ e.id <= links /\ {e.from, e.to} \subseteq f.blocks
  <2> TAKE e \in f.edges
  <2>1. PICK i \in 1..links : e.id = i /\ e.from = i /\ e.to = i + 1
    BY <1>3
  <2> QED BY <1>0, <1>1, <1>2, <2>1
<1>9. \A e, g \in f.edges : (e.id = g.id \/ <<e.from, e.to>> = <<g.from, g.to>>) => e = g
  BY <1>0, <1>1 DEF F!Edge
<1> QED  BY <1>5, <1>6, <1>7, <1>8, <1>9

\* FlowEditor's Cardinality is the library's.
LEMMA SameCardinality ==
  ASSUME NEW S PROVE F!Cardinality(S) = Cardinality(S)
BY DEF F!Cardinality, Cardinality

LEMMA InitCanvas == F!Init => CanvasInv
<1> SUFFICES ASSUME F!Init PROVE CanvasInv  OBVIOUS
<1> USE CanvasAssumption DEF CanvasAssumption
<1> DEFINE Good(f, n, links) ==
      /\ f \in F!Flows
      /\ Cardinality(f.blocks) = n /\ Cardinality(f.edges) = links
      /\ \A e \in f.edges : /\ e.from # e.to /\ e.id <= links
                            /\ {e.from, e.to} \subseteq f.blocks
      /\ \A e, g \in f.edges :
           (e.id = g.id \/ <<e.from, e.to>> = <<g.from, g.to>>) => e = g
<1>1. \E n \in 1..MaxBlocks, links \in 0..MaxEdges : Good(flow, n, links)
  <2>1. CASE \E s \in {"empty", "set"} : flow = F!NewFlow(s)
    <3>1. PICK s \in {"empty", "set"} : flow = F!NewFlow(s)  BY <2>1
    <3>2. Good(F!NewFlow(s), 2, 1)
      BY ChainIsSound DEF F!NewFlow, F!Kinds, F!Configs
    <3> QED  BY <3>1, <3>2
  <2>2. CASE flow = F!FromAudience
    <3>1. Good(F!FromAudience, 2, 0)
      BY ChainIsSound DEF F!FromAudience, F!Kinds, F!Configs
    <3> QED  BY <2>2, <3>1
  <2>3. CASE /\ MaxBlocks >= 5 /\ MaxEdges >= 4
             /\ \E s \in {"empty", "set"}, t \in {"empty", "pending", "set"} :
                  flow = F!ForCampaign(s, t)
    <3>1. PICK s \in {"empty", "set"}, t \in {"empty", "pending", "set"} :
            flow = F!ForCampaign(s, t)  BY <2>3
    <3>2. Good(F!ForCampaign(s, t), 5, 4)
      BY <2>3, ChainIsSound DEF F!ForCampaign, F!Kinds, F!Configs
    <3> QED  BY <2>3, <3>1, <3>2
  <2> QED  BY <2>1, <2>2, <2>3 DEF F!Init, F!Starts
<1>2. PICK n \in 1..MaxBlocks, links \in 0..MaxEdges : Good(flow, n, links)
  BY <1>1
<1>3. added = Cardinality(flow.blocks) /\ joined = Cardinality(flow.edges)
  BY SameCardinality DEF F!Init
<1>4. F!TypeOK
  BY <1>2, <1>3 DEF F!Init, F!TypeOK, F!Blocks
<1>5. Sound(flow) /\ Sound(saved)
  BY <1>2, <1>3 DEF F!Init, Sound
<1> QED  BY <1>2, <1>4, <1>5 DEF F!Init, CanvasInv, F!EdgesJoinBlocks

-----------------------------------------------------------------------------
(* The steps.                                                              *)

\* Blocks and configurations may change freely, connections only go: what a
\* block's buttons and a removed connection do.
LEMMA FewerEdges ==
  ASSUME CanvasInv, flow' \in F!Flows,
         flow'.edges \subseteq flow.edges, UNCHANGED <<saved, connect, joined>>,
         flowStatus' \in {"draft", "active", "paused"}, added' \in 0..MaxBlocks,
         changes' \in 0..MaxChanges, torn' \subseteq F!Blocks, torn \subseteq torn',
         flow.blocks \ flow'.blocks \subseteq
           {b \in F!Blocks : \A e \in flow'.edges : b \notin {e.from, e.to}},
         connect \in flow.blocks \ flow'.blocks => connect \in torn'
  PROVE  CanvasInv'
<1>1. F!TypeOK'  BY DEF CanvasInv, F!TypeOK
<1>2. Sound(flow)' /\ Sound(saved)'  BY DEF CanvasInv, Sound
<1>3. F!EdgesJoinBlocks'  BY DEF CanvasInv, F!EdgesJoinBlocks
<1>4. (\A e \in saved.edges : {e.from, e.to} \subseteq saved.blocks)'
  BY DEF CanvasInv
<1>5. (connect # 0 => connect \in flow.blocks \cup torn)'
  BY DEF CanvasInv
<1> QED  BY <1>1, <1>2, <1>3, <1>4, <1>5 DEF CanvasInv

LEMMA StepCanvas == CanvasInv /\ [F!Next]_(F!vars) => CanvasInv'
<1> SUFFICES ASSUME CanvasInv, [F!Next]_(F!vars) PROVE CanvasInv'
  OBVIOUS
<1> USE CanvasAssumption DEF CanvasAssumption
<1>0. F!TypeOK  BY DEF CanvasInv
<1>1. ASSUME NEW kind \in Palette, F!AddNode(kind) PROVE CanvasInv'
  <2>1. flow' \in F!Flows
    <3>1. added' \in F!Blocks /\ kind \in F!Kinds /\ F!Default(kind) \in F!Configs
      BY <1>0, <1>1 DEF F!AddNode, F!TypeOK, F!Blocks, F!Default, F!Configs
    <3> QED  BY <1>0, <1>1, <3>1 DEF F!AddNode, F!TypeOK, F!Flows
  <2>2. flow'.edges = flow.edges /\ flow.blocks \subseteq flow'.blocks
    BY <1>0, <1>1 DEF F!AddNode, F!TypeOK, F!Flows
  <2> QED  BY <1>0, <1>1, <2>1, <2>2, FewerEdges DEF F!AddNode, F!Change, F!TypeOK
<1>2. ASSUME NEW b \in F!Blocks, NEW c \in F!Configs, F!Configure(b, c) PROVE CanvasInv'
  <2>1. flow' \in F!Flows /\ flow'.edges = flow.edges /\ flow'.blocks = flow.blocks
    BY <1>0, <1>2 DEF F!Configure, F!TypeOK, F!Flows
  <2> QED  BY <1>0, <1>2, <2>1, FewerEdges DEF F!Configure, F!Change, F!TypeOK
<1>3. ASSUME NEW b \in F!Blocks, F!ToggleNode(b) PROVE CanvasInv'
  <2>1. flow' \in F!Flows /\ flow'.edges = flow.edges /\ flow'.blocks = flow.blocks
    BY <1>0, <1>3 DEF F!ToggleNode, F!TypeOK, F!Flows
  <2> QED  BY <1>0, <1>3, <2>1, FewerEdges DEF F!ToggleNode, F!Change, F!TypeOK
<1>4. ASSUME NEW b \in F!Blocks, F!RemoveNode(b) PROVE CanvasInv'
  <2>1. flow' \in F!Flows
    <3>1. "other" \in F!Kinds /\ "default" \in F!Configs  BY DEF F!Kinds, F!Configs
    <3> QED  BY <1>0, <1>4, <3>1 DEF F!RemoveNode, F!TypeOK, F!Flows
  <2>2. /\ flow'.blocks = flow.blocks \ {b}
        /\ flow'.edges = {e \in flow.edges : b \notin {e.from, e.to}}
    BY <1>0, <1>4 DEF F!RemoveNode, F!TypeOK, F!Flows
  <2>3. /\ UNCHANGED <<flowStatus, saved, connect, joined, added>>
        /\ changes' \in 0..MaxChanges
        /\ torn' = torn \cup ({b} \cap {connect})
    BY <1>0, <1>4 DEF F!RemoveNode, F!Change, F!TypeOK
  <2>4. torn' \subseteq F!Blocks /\ torn \subseteq torn'
    BY <1>0, <2>3 DEF F!TypeOK
  <2>5. flow.blocks \ flow'.blocks \subseteq
          {c \in F!Blocks : \A e \in flow'.edges : c \notin {e.from, e.to}}
    BY <2>2
  <2>6. connect \in flow.blocks \ flow'.blocks => connect \in torn'
    BY <2>2, <2>3
  <2> QED  BY <1>0, <2>1, <2>2, <2>3, <2>4, <2>5, <2>6, FewerEdges DEF F!TypeOK
<1>5. ASSUME NEW e \in flow.edges, F!RemoveEdge(e) PROVE CanvasInv'
  <2>1. flow' \in F!Flows /\ flow'.edges = flow.edges \ {e} /\ flow'.blocks = flow.blocks
    BY <1>0, <1>5 DEF F!RemoveEdge, F!TypeOK, F!Flows
  <2> QED  BY <1>0, <1>5, <2>1, FewerEdges DEF F!RemoveEdge, F!Change, F!TypeOK
<1>6. ASSUME NEW b \in F!Blocks, F!StartEdge(b) PROVE CanvasInv'
  BY <1>6 DEF F!StartEdge, CanvasInv, F!TypeOK, F!Blocks, Sound, F!EdgesJoinBlocks
<1>7. ASSUME NEW b \in F!Blocks, F!EndEdge(b) PROVE CanvasInv'
  <2>1. CASE ~F!Joins(connect, b)
    BY <1>7, <2>1 DEF F!EndEdge, CanvasInv, F!TypeOK, Sound, F!EdgesJoinBlocks
  <2>2. CASE F!Joins(connect, b)
    <3> DEFINE new == F!Edge(joined', connect, b)
    <3>1. /\ joined' \in 1..MaxEdges /\ joined' = joined + 1
          /\ connect \in F!Blocks /\ b \in flow.blocks
          /\ connect \in flow.blocks \cup torn
          /\ changes' \in 0..MaxChanges /\ connect' = 0
          /\ flow' = [flow EXCEPT !.edges = @ \cup {new}]
          /\ UNCHANGED <<flowStatus, saved, added, torn>>
      BY <1>7, <2>2 DEF F!EndEdge, F!Change, CanvasInv, F!TypeOK, F!Blocks
    <3>2. new \in F!Edges  BY <3>1 DEF F!Edge, F!Edges
    <3>3. /\ flow' \in F!Flows
          /\ flow'.edges = flow.edges \cup {new} /\ flow'.blocks = flow.blocks
      BY <1>0, <3>1, <3>2 DEF F!TypeOK, F!Flows
    <3>4. F!TypeOK'  BY <1>0, <3>1, <3>3 DEF F!TypeOK
    <3>5. new.id = joined' /\ new.from = connect /\ new.to = b  BY DEF F!Edge
    <3> HIDE DEF new
    <3>6. \A e \in flow.edges : e.id < new.id /\ <<e.from, e.to>> # <<new.from, new.to>>
      <4>1. \A e \in flow.edges : e.id \in Nat  BY <1>0 DEF F!TypeOK, F!Flows, F!Edges
      <4> QED  BY <1>0, <2>2, <3>1, <3>5, <4>1 DEF CanvasInv, Sound, F!TypeOK, F!Joins
    <3>7. Sound(flow)'
      BY <1>0, <2>2, <3>1, <3>3, <3>5, <3>6 DEF CanvasInv, Sound, F!Joins, F!TypeOK, F!Flows, F!Edges
    <3>8. Sound(saved)'
      BY <1>0, <3>1 DEF CanvasInv, Sound, F!TypeOK, F!Flows, F!Edges
    <3>9. F!EdgesJoinBlocks'
      BY <3>1, <3>3, <3>5 DEF CanvasInv, F!EdgesJoinBlocks
    <3> QED  BY <3>1, <3>4, <3>7, <3>8, <3>9 DEF CanvasInv
  <2> QED  BY <2>1, <2>2
<1>8. ASSUME F!DropEdge PROVE CanvasInv'
  BY <1>8 DEF F!DropEdge, CanvasInv, F!TypeOK, Sound, F!EdgesJoinBlocks
<1>9. ASSUME F!Publish PROVE CanvasInv'
  BY <1>9 DEF F!Publish, F!Change, CanvasInv, F!TypeOK, Sound, F!EdgesJoinBlocks
<1>10. ASSUME F!ToggleFlow PROVE CanvasInv'
  BY <1>10 DEF F!ToggleFlow, F!Change, CanvasInv, F!TypeOK, Sound, F!EdgesJoinBlocks
<1>11. ASSUME F!Save PROVE CanvasInv'
  BY <1>11 DEF F!Save, F!Accepted, CanvasInv, F!TypeOK, Sound, F!EdgesJoinBlocks
<1>12. ASSUME F!Reload PROVE CanvasInv'
  <2>1. F!TypeOK'  BY <1>12 DEF F!Reload, CanvasInv, F!TypeOK, F!Flows
  <2> QED  BY <1>12, <2>1 DEF F!Reload, CanvasInv, F!TypeOK, Sound, F!EdgesJoinBlocks
<1>13. CASE UNCHANGED F!vars
  BY <1>13 DEF F!vars, CanvasInv, F!TypeOK, Sound, F!EdgesJoinBlocks
<1> QED
  BY <1>1, <1>2, <1>3, <1>4, <1>5, <1>6, <1>7, <1>8, <1>9, <1>10, <1>11, <1>12, <1>13
  DEF F!Next

-----------------------------------------------------------------------------
(* The results.                                                            *)

\* The conjuncts that the runs check follow.
LEMMA CanvasInvIsEnough == CanvasInv => F!TypeOK /\ RefusedOnlyWhenTorn
<1> SUFFICES ASSUME CanvasInv PROVE F!TypeOK /\ RefusedOnlyWhenTorn
  OBVIOUS
<1>1. F!NoLoop /\ F!NoTwins /\ F!EdgesJoinBlocks
  BY DEF CanvasInv, Sound, F!NoLoop, F!NoTwins
<1>2. F!Accepted(flow) \/ flow.blocks = {} \/ \E e \in flow.edges : e.from \in torn
  BY <1>1 DEF F!Accepted, F!EdgesJoinBlocks
<1> QED  BY <1>1, <1>2 DEF CanvasInv, RefusedOnlyWhenTorn, F!RefusedOnlyWhenTorn

\* Every variable of the canvas stays in its set.
THEOREM CanvasTypeCorrect == F!Spec => []F!TypeOK
<1> QED  BY InitCanvas, StepCanvas, CanvasInvIsEnough, PTL DEF F!Spec

\* The graph stays sound, and the server refuses it only when it is empty or
\* was torn while a connection was drawn, however many blocks and connections
\* and whatever the order of edits, saves and reloads.
THEOREM GraphStaysSound == F!Spec => []RefusedOnlyWhenTorn
<1> QED  BY InitCanvas, StepCanvas, CanvasInvIsEnough, PTL DEF F!Spec

-----------------------------------------------------------------------------
(* Induction.  The library's theorems about it take an operator, which the   *)
(* provers cannot instantiate; these take sets and functions: the numbers    *)
(* that satisfy a fact, the steps of a run.  They rest on the well-founded   *)
(* order of the finite sets, and with them a recursive function of FlowRules *)
(* or FlowPreview is shown to exist and to satisfy its equation.             *)

\* Some set of a family of subsets of a finite set has no other within it.
LEMMA SmallestSet ==
  ASSUME NEW S, IsFiniteSet(S), NEW T \in SUBSET (SUBSET S), T # {}
  PROVE  \E x \in T : \A y \in T : y \subseteq x => y = x
<1>1. IsWellFoundedOn(StrictSubsetOrdering(S), SUBSET S)
  BY FS_StrictSubsetOrderingWellFounded, FS_FiniteSubsetsOfFinite
<1>2. PICK x \in T : \A y \in T : ~(<<y, x>> \in StrictSubsetOrdering(S))
  BY <1>1, WFMin
<1> QED BY <1>2 DEF StrictSubsetOrdering

\* What holds of zero, and of the next number up to n, holds up to n.
LEMMA CountUp ==
  ASSUME NEW n \in Nat, NEW P \in SUBSET (0..n), 0 \in P,
         \A i \in 0..(n - 1) : i \in P => i + 1 \in P
  PROVE  P = 0..n
<1> SUFFICES ASSUME NEW i \in 0..n, i \notin P PROVE FALSE
  OBVIOUS
<1> DEFINE T == {0..j : j \in (0..n) \ P}
<1>1. IsFiniteSet(0..n)
  BY FS_Interval
<1>2. T # {} /\ T \in SUBSET (SUBSET (0..n))
  OBVIOUS
<1>3. PICK x \in T : \A y \in T : y \subseteq x => y = x
  <2> DEFINE S == 0..n
  <2>1. IsFiniteSet(S) /\ T # {} /\ T \in SUBSET (SUBSET S)
    BY <1>1, <1>2
  <2> HIDE DEF T, S
  <2> QED BY <2>1, SmallestSet
<1>4. PICK j \in (0..n) \ P : x = 0..j
  OBVIOUS
<1>5. j # 0 /\ j - 1 \in 0..(n - 1)
  OBVIOUS
<1>6. 0..(j - 1) \subseteq x /\ 0..(j - 1) # x
  BY <1>4, <1>5
<1>7. 0..(j - 1) \notin T
  BY <1>3, <1>6
<1>8. j - 1 \in P
  BY <1>5, <1>7
<1> QED BY <1>4, <1>5, <1>8

\* What n steps make of start; all of it in T.
Courses(n, T, start, next) ==
  {r \in [0..n -> T] : r[0] = start /\ \A i \in 1..n : r[i] = next[i][r[i - 1]]}
Steps(n, T) == [0..n -> [T -> T]]

\* A function may be defined by its value at zero and its steps.
LEMMA RunExists ==
  ASSUME NEW n \in Nat, NEW T, NEW start \in T, NEW next \in Steps(n, T)
  PROVE  Courses(n, T, start, next) # {}
<1> DEFINE P == {k \in 0..n : Courses(k, T, start, next) # {}}
<1>1. 0 \in P
  <2>1. [i \in 0..0 |-> start] \in Courses(0, T, start, next)
    BY DEF Courses
  <2> QED BY <2>1
<1>2. ASSUME NEW k \in 0..(n - 1), k \in P PROVE k + 1 \in P
  <2>1. PICK r \in [0..k -> T] : r[0] = start /\ \A i \in 1..k : r[i] = next[i][r[i - 1]]
    BY <1>2 DEF Courses
  <2> DEFINE q == [i \in 0..(k + 1) |-> IF i <= k THEN r[i] ELSE next[k + 1][r[k]]]
  <2>2. q \in [0..(k + 1) -> T]
    BY <2>1 DEF Steps
  <2>3. q[0] = start /\ \A i \in 1..(k + 1) : q[i] = next[i][q[i - 1]]
    BY <2>1
  <2> HIDE DEF q
  <2>4. k + 1 \in 0..n /\ q \in Courses(k + 1, T, start, next)
    BY <2>2, <2>3 DEF Courses
  <2> QED BY <2>4
<1>3. P \in SUBSET (0..n)
  OBVIOUS
<1>4. P = 0..n
  <2> HIDE DEF P
  <2> QED BY <1>1, <1>2, <1>3, CountUp
<1>5. n \in P
  <2> HIDE DEF P
  <2> QED BY <1>4
<1> QED BY <1>5

-----------------------------------------------------------------------------
(* Sums over a finite set, as FoldSet takes them: one element after another, in*)
(* the order of CHOOSE.  The order is of no matter to a sum.                 *)

\* The element that a fold takes out of a set.
Pick(s) == CHOOSE x \in s : TRUE

\* sum is the fold of the weights over the subsets of S.
FoldsTo(sum, S, weight) ==
  sum = [s \in SUBSET S |-> IF s = {} THEN 0 ELSE sum[s \ {Pick(s)}] + weight[Pick(s)]]

\* It is one of them.
LEMMA PickIsIn ==
  ASSUME NEW s, s # {} PROVE Pick(s) \in s
BY DEF Pick

\* There is such a fold.
LEMMA FoldExists ==
  ASSUME NEW S, IsFiniteSet(S), NEW weight PROVE \E sum : FoldsTo(sum, S, weight)
<1> DEFINE n == Cardinality(S)
           Upto(k) == {u \in SUBSET S : Cardinality(u) <= k}
           Part(sum, k) == sum = [s \in Upto(k) |-> IF s = {} THEN 0
                                    ELSE sum[s \ {Pick(s)}] + weight[Pick(s)]]
           P == {k \in 0..n : \E sum : Part(sum, k)}
<1>1. n \in Nat
  BY FS_CardinalityType
<1>2. \A u \in SUBSET S : /\ IsFiniteSet(u) /\ Cardinality(u) \in Nat /\ Cardinality(u) <= n
                          /\ Cardinality(u) = 0 <=> u = {}
  BY FS_Subset, FS_CardinalityType, FS_EmptySet
<1>3. \A u \in SUBSET S : u # {} =>
        /\ Pick(u) \in u /\ u \ {Pick(u)} \in SUBSET S
        /\ Cardinality(u \ {Pick(u)}) = Cardinality(u) - 1
  BY <1>2, PickIsIn, FS_RemoveElement
<1>4. 0 \in P
  <2> DEFINE g == [s \in Upto(0) |-> 0]
  <2>1. \A s \in Upto(0) : s = {}
    BY <1>2
  <2>2. Part(g, 0)
    BY <2>1
  <2> HIDE DEF Part
  <2> QED BY <1>1, <2>2
<1>5. ASSUME NEW k \in 0..(n - 1), k \in P PROVE k + 1 \in P
  <2>1. PICK g : Part(g, k)
    BY <1>5
  <2> DEFINE h == [s \in Upto(k + 1) |-> IF s \in Upto(k) THEN g[s]
                     ELSE g[s \ {Pick(s)}] + weight[Pick(s)]]
  <2>2. k \in Nat /\ k + 1 \in 0..n /\ \A s : s \in Upto(k) => s \in Upto(k + 1)
    BY <1>1, <1>2
  <2>3. \A s \in Upto(k + 1) : s # {} => s \ {Pick(s)} \in Upto(k)
    BY <1>2, <1>3, <2>2
  <2>4. \A s \in Upto(k) : s # {} => s \ {Pick(s)} \in Upto(k)
    BY <2>2, <2>3
  <2>5. \A s \in Upto(k) : g[s] = IF s = {} THEN 0 ELSE g[s \ {Pick(s)}] + weight[Pick(s)]
    <3> HIDE DEF Upto
    <3> QED BY <2>1
  <2>6. {} \in Upto(k)
    BY <1>2, <2>2
  <2>7. ASSUME NEW s \in Upto(k + 1)
        PROVE h[s] = IF s = {} THEN 0 ELSE h[s \ {Pick(s)}] + weight[Pick(s)]
    <3> HIDE DEF Upto
    <3>1. CASE s \in Upto(k)
      <4>1. h[s] = g[s]
        BY <3>1
      <4>2. s # {} => h[s \ {Pick(s)}] = g[s \ {Pick(s)}]
        BY <2>2, <2>4, <3>1
      <4> HIDE DEF h
      <4> QED BY <2>5, <3>1, <4>1, <4>2
    <3>2. CASE s \notin Upto(k)
      <4>1. s # {} /\ h[s] = g[s \ {Pick(s)}] + weight[Pick(s)]
        BY <2>6, <3>2
      <4>2. s \ {Pick(s)} \in Upto(k)
        BY <2>3, <4>1
      <4>3. h[s \ {Pick(s)}] = g[s \ {Pick(s)}]
        BY <2>2, <4>2
      <4> HIDE DEF h
      <4> QED BY <4>1, <4>3
    <3> QED BY <3>1, <3>2
  <2>8. Part(h, k + 1)
    <3>1. h = [s \in Upto(k + 1) |-> h[s]]
      <4> HIDE DEF Upto
      <4> QED OBVIOUS
    <3> HIDE DEF Upto, h
    <3> QED BY <2>7, <3>1
  <2> HIDE DEF Part
  <2> QED BY <2>2, <2>8
<1>6. P \in SUBSET (0..n)
  OBVIOUS
<1>7. P = 0..n
  <2> HIDE DEF P, n
  <2> QED BY <1>1, <1>4, <1>5, <1>6, CountUp
<1>8. n \in P
  <2> HIDE DEF P, n
  <2> QED BY <1>1, <1>7
<1>9. PICK g : Part(g, n)
  BY <1>8
<1>10. Upto(n) = SUBSET S
  BY <1>2
<1> QED
  <2> HIDE DEF Upto, n
  <2> QED BY <1>9, <1>10 DEF FoldsTo

\* The sum of a set with one more is the sum of the set and the weight of the one:
\* the order in which the fold takes them is of no matter.
LEMMA SumGrows ==
  ASSUME NEW S, IsFiniteSet(S), NEW weight \in [S -> Nat], NEW sum, FoldsTo(sum, S, weight)
  PROVE  /\ sum[{}] = 0
         /\ \A u \in SUBSET S : sum[u] \in Nat
         /\ \A u \in SUBSET S : \A b \in S \ u : sum[u \cup {b}] = sum[u] + weight[b]
<1> DEFINE n == Cardinality(S)
           Fine(u) == /\ sum[u] \in Nat
                      /\ \A b \in S \ u : sum[u \cup {b}] = sum[u] + weight[b]
           P == {k \in 0..n : \A u \in SUBSET S : Cardinality(u) = k => Fine(u)}
<1>1. n \in Nat
  BY FS_CardinalityType
<1>2. \A u \in SUBSET S : /\ IsFiniteSet(u) /\ Cardinality(u) \in Nat /\ Cardinality(u) <= n
                          /\ Cardinality(u) = 0 <=> u = {}
  BY FS_Subset, FS_CardinalityType, FS_EmptySet
<1>3. \A u \in SUBSET S : \A c \in u : Cardinality(u \ {c}) = Cardinality(u) - 1
  BY <1>2, FS_RemoveElement
<1>4. /\ sum[{}] = 0
      /\ \A u \in SUBSET S : u # {} => /\ Pick(u) \in u
                                       /\ sum[u] = sum[u \ {Pick(u)}] + weight[Pick(u)]
  BY PickIsIn DEF FoldsTo
<1>5. 0 \in P
  <2>1. Fine({})
    <3> SUFFICES ASSUME NEW b \in S PROVE sum[{b}] = weight[b]
      BY <1>4
    <3>1. Pick({b}) = b
      BY PickIsIn
    <3>2. {b} \ {b} = {}
      OBVIOUS
    <3>3. sum[{b}] = sum[{b} \ {b}] + weight[b]
      BY <1>4, <3>1
    <3>4. weight[b] \in Nat
      OBVIOUS
    <3>5. sum[{b}] = 0 + weight[b]
      BY <1>4, <3>2, <3>3
    <3> QED BY <3>4, <3>5
  <2> HIDE DEF Fine
  <2> QED BY <1>1, <1>2, <2>1
<1>6. ASSUME NEW k \in 0..(n - 1), k \in P PROVE k + 1 \in P
  <2>1. ASSUME NEW u \in SUBSET S, Cardinality(u) = k + 1 PROVE Fine(u)
    <3>1. \A c \in u : Fine(u \ {c})
      <4> SUFFICES ASSUME NEW c \in u PROVE Fine(u \ {c})
        OBVIOUS
      <4>1. Cardinality(u \ {c}) = k /\ u \ {c} \in SUBSET S
        BY <1>3, <2>1
      <4> HIDE DEF Fine
      <4> QED BY <1>6, <4>1
    <3>2. \A c \in u : sum[u] = sum[u \ {c}] + weight[c] /\ sum[u \ {c}] \in Nat
      <4> SUFFICES ASSUME NEW c \in u
                   PROVE sum[u] = sum[u \ {c}] + weight[c] /\ sum[u \ {c}] \in Nat
        OBVIOUS
      <4>1. c \in S \ (u \ {c}) /\ (u \ {c}) \cup {c} = u
        OBVIOUS
      <4> QED BY <3>1, <4>1
    <3>3. u # {}
      BY <1>2, <2>1
    <3>4. sum[u] \in Nat
      <4>1. Pick(u) \in u /\ weight[Pick(u)] \in Nat
        BY <1>4, <3>3
      <4> DEFINE c == Pick(u)
      <4>2. sum[u] = sum[u \ {c}] + weight[c] /\ sum[u \ {c}] \in Nat
        BY <3>2, <4>1
      <4> HIDE DEF c
      <4> QED BY <4>1, <4>2 DEF c
    <3>5. ASSUME NEW b \in S \ u PROVE sum[u \cup {b}] = sum[u] + weight[b]
      <4> DEFINE v == u \cup {b}
                 d == Pick(v)
      <4>1. v \in SUBSET S /\ d \in v /\ sum[v] = sum[v \ {d}] + weight[d]
        BY <1>4
      <4>2. CASE d = b
        <5>1. v \ {d} = u
          BY <4>2
        <5> QED BY <4>1, <4>2, <5>1
      <4>3. CASE d # b
        <5>1. d \in u /\ v \ {d} = (u \ {d}) \cup {b} /\ b \in S \ (u \ {d})
          BY <4>1, <4>3
        <5>2. sum[v \ {d}] = sum[u \ {d}] + weight[b]
          BY <3>1, <5>1
        <5>3. sum[u] = sum[u \ {d}] + weight[d] /\ sum[u \ {d}] \in Nat
          BY <3>2, <5>1
        <5>4. weight[b] \in Nat /\ weight[d] \in Nat
          BY <5>1
        <5> HIDE DEF v, d
        <5>5. sum[v] = sum[u] + weight[b]
          BY <4>1, <5>2, <5>3, <5>4
        <5> QED BY <5>5 DEF v
      <4> QED BY <4>2, <4>3
    <3> QED BY <3>4, <3>5
  <2> HIDE DEF Fine
  <2> QED BY <1>1, <2>1
<1>7. P \in SUBSET (0..n)
  OBVIOUS
<1>8. P = 0..n
  <2> HIDE DEF P, n
  <2> QED BY <1>1, <1>5, <1>6, <1>7, CountUp
<1>9. \A u \in SUBSET S : Fine(u)
  <2> HIDE DEF Fine
  <2>1. \A u \in SUBSET S : Cardinality(u) \in P
    <3> HIDE DEF P, n
    <3> QED BY <1>1, <1>2, <1>8
  <2> QED BY <2>1
<1> QED BY <1>4, <1>9

-----------------------------------------------------------------------------
(* The order of the visit.                                                   *)

\* Listed in order, every number of a finite set comes once.
LEMMA InOrderLists ==
  ASSUME NEW S \in SUBSET Nat, IsFiniteSet(S)
  PROVE  /\ F!InOrder(S) \in [1..Cardinality(S) -> S]
         /\ \A i, j \in 1..Cardinality(S) : F!InOrder(S)[i] = F!InOrder(S)[j] => i = j
         /\ \A n \in S : \E i \in 1..Cardinality(S) : F!InOrder(S)[i] = n
<1> DEFINE c == Cardinality(S)
           below(n) == {m \in S : m < n}
           rank == [n \in S |-> Cardinality(below(n))]
           list == F!InOrder(S)
<1>1. c \in Nat
  BY FS_CardinalityType
<1>2. \A n \in S : /\ below(n) \in SUBSET S /\ n \notin below(n)
                   /\ IsFiniteSet(below(n)) /\ Cardinality(below(n)) \in 0..(c - 1)
  <2> SUFFICES ASSUME NEW n \in S
               PROVE /\ below(n) \in SUBSET S /\ n \notin below(n)
                     /\ IsFiniteSet(below(n)) /\ Cardinality(below(n)) \in 0..(c - 1)
    OBVIOUS
  <2>1. below(n) \in SUBSET S /\ n \notin below(n)
    OBVIOUS
  <2>2. /\ IsFiniteSet(below(n)) /\ Cardinality(below(n)) <= c
        /\ c = Cardinality(below(n)) => S = below(n)
    <3> HIDE DEF below
    <3> QED BY <2>1, FS_Subset
  <2>3. Cardinality(below(n)) \in Nat
    <3> HIDE DEF below
    <3> QED BY <2>2, FS_CardinalityType
  <2> HIDE DEF below, c
  <2> QED BY <1>1, <2>1, <2>2, <2>3
<1>3. ASSUME NEW m \in S, NEW n \in S, m < n PROVE rank[m] < rank[n]
  <2>0. m \in Nat /\ n \in Nat /\ \A k \in S : k \in Nat
    OBVIOUS
  <2>1. /\ below(m) \in SUBSET below(n) /\ m \in below(n) /\ m \notin below(m)
    <3>1. \A k \in S : k < m => k < n
      BY <1>3, <2>0
    <3>2. m \in below(n)
      BY <1>3
    <3>3. m \notin below(m)
      BY <2>0
    <3>4. below(m) \in SUBSET below(n)
      BY <3>1
    <3> QED BY <3>2, <3>3, <3>4
  <2>2. /\ Cardinality(below(m)) <= Cardinality(below(n))
        /\ Cardinality(below(m)) # Cardinality(below(n))
    <3> HIDE DEF below
    <3> QED BY <1>2, <2>1, FS_Subset
  <2>3. Cardinality(below(m)) \in Nat /\ Cardinality(below(n)) \in Nat
    <3> HIDE DEF below, c
    <3> QED BY <1>1, <1>2
  <2> HIDE DEF below
  <2> QED BY <2>2, <2>3
<1>4. rank \in [S -> 0..(c - 1)]
  <2> HIDE DEF below, c
  <2> QED BY <1>2
<1>5. \A m, n \in S : rank[m] = rank[n] => m = n
  <2> HIDE DEF rank, c
  <2>1. \A n \in S : rank[n] \in Nat
    BY <1>1, <1>4
  <2>2. \A m, n \in S : m # n => m < n \/ n < m
    OBVIOUS
  <2> QED BY <1>3, <2>1, <2>2
<1>6. \A k \in 0..(c - 1) : \E n \in S : rank[n] = k
  <2>1. rank \in Injection(S, 0..(c - 1))
    <3> HIDE DEF rank, c
    <3> QED BY <1>4, <1>5 DEF Injection, IsInjective
  <2>2. IsFiniteSet(0..(c - 1)) /\ Cardinality(0..(c - 1)) = c
    <3> HIDE DEF c
    <3> QED BY <1>1, FS_Interval
  <2>3. rank \in Surjection(S, 0..(c - 1))
    <3> HIDE DEF rank
    <3> QED BY <2>1, <2>2, FS_Injection
  <2> QED BY <2>3 DEF Surjection
<1>7. /\ list = [i \in 1..F!Cardinality(S) |->
                  CHOOSE n \in S : F!Cardinality({m \in S : m < n}) = i - 1]
      /\ F!Cardinality(S) = c
  BY SameCardinality DEF F!InOrder
<1>8. \A i \in 1..c : list[i] \in S /\ rank[list[i]] = i - 1
  <2> SUFFICES ASSUME NEW i \in 1..c PROVE list[i] \in S /\ rank[list[i]] = i - 1
    OBVIOUS
  <2> DEFINE count(n) == F!Cardinality({m \in S : m < n})
  <2>1. \A n \in S : rank[n] = count(n)
    BY SameCardinality
  <2>2. list[i] = CHOOSE n \in S : count(n) = i - 1
    <3> HIDE DEF list, c
    <3> QED BY <1>7
  <2> HIDE DEF rank, c, list, count
  <2>3. i - 1 \in 0..(c - 1)
    BY <1>1
  <2>4. \E n \in S : count(n) = i - 1
    BY <1>6, <2>1, <2>3
  <2> QED BY <2>1, <2>2, <2>4
<1> HIDE DEF rank, c, list
<1>9. list \in [1..c -> S]
  <2> DEFINE nth(i) == CHOOSE n \in S : F!Cardinality({m \in S : m < n}) = i - 1
  <2>1. list = [i \in 1..c |-> list[i]]
    <3>1. list = [i \in 1..c |-> nth(i)]
      BY <1>7
    <3> HIDE DEF nth
    <3> QED BY <3>1
  <2> QED BY <1>8, <2>1
<1>10. \A i, j \in 1..c : list[i] = list[j] => i = j
  BY <1>1, <1>8
<1>11. ASSUME NEW n \in S PROVE \E i \in 1..c : list[i] = n
  <2>1. rank[n] \in 0..(c - 1)
    BY <1>4
  <2>2. rank[n] + 1 \in 1..c /\ rank[list[rank[n] + 1]] = rank[n]
    BY <1>1, <1>8, <2>1
  <2> QED BY <1>5, <1>8, <2>2
<1> QED BY <1>9, <1>10, <1>11 DEF list, c

\* There are MaxBlocks blocks.
LEMMA BlocksAreFinite ==
  /\ MaxBlocks \in Nat /\ MaxBlocks # 0
  /\ IsFiniteSet(F!Blocks) /\ Cardinality(F!Blocks) = MaxBlocks /\ F!Blocks \in SUBSET Nat
<1> DEFINE N == MaxBlocks
<1>1. N \in Nat /\ N >= 1 /\ 1 \in Int /\ N \in Int
  BY CanvasAssumption DEF CanvasAssumption
<1>2. IsFiniteSet(1..N) /\ Cardinality(1..N) = N /\ 1..N \in SUBSET Nat
  <2> HIDE DEF N
  <2> QED BY <1>1, FS_Interval
<1> QED BY <1>1, <1>2 DEF F!Blocks

\* The connections of a flow are told apart by their numbers.
Numbered(f) == f \in F!Flows /\ \A e, g \in f.edges : e.id = g.id => e = g

\* Those that leave a block.
From(f, b) == {e \in f.edges : e.from = b}

\* So any connections of a flow are finite in number and have as many numbers.
LEMMA EdgesAreFinite ==
  ASSUME NEW f, Numbered(f)
  PROVE  /\ IsFiniteSet(f.edges)
         /\ \A E \in SUBSET f.edges :
              /\ IsFiniteSet(E) /\ Cardinality(E) \in Nat
              /\ {e.id : e \in E} \in SUBSET Nat
              /\ IsFiniteSet({e.id : e \in E}) /\ Cardinality({e.id : e \in E}) = Cardinality(E)
<1> DEFINE ids(E) == {e.id : e \in E}
<1>1. MaxEdges \in Nat /\ IsFiniteSet(1..MaxEdges)
  BY CanvasAssumption, FS_Interval DEF CanvasAssumption
<1>2. \A e \in f.edges : e.id \in 1..MaxEdges
  BY DEF Numbered, F!Flows, F!Edges
<1>3. ASSUME NEW E \in SUBSET f.edges
      PROVE /\ IsFiniteSet(E) /\ Cardinality(E) \in Nat /\ ids(E) \in SUBSET Nat
            /\ IsFiniteSet(ids(E)) /\ Cardinality(ids(E)) = Cardinality(E)
  <2> DEFINE id == [e \in E |-> e.id]
  <2>1. ids(E) \in SUBSET (1..MaxEdges)
    BY <1>2
  <2>2. IsFiniteSet(ids(E))
    <3> HIDE DEF ids
    <3> QED BY <1>1, <2>1, FS_Subset
  <2>3. id \in Bijection(E, ids(E))
    <3>1. id \in [E -> ids(E)] /\ \A n \in ids(E) : \E e \in E : id[e] = n
      OBVIOUS
    <3>2. \A e, g \in E : id[e] = id[g] => e = g
      BY DEF Numbered
    <3> HIDE DEF id, ids
    <3> QED BY <3>1, <3>2 DEF Bijection, Injection, Surjection, IsInjective
  <2> HIDE DEF id, ids
  <2>4. IsFiniteSet(E)
    BY <2>2, <2>3, FS_Injection DEF Bijection
  <2>5. Cardinality(ids(E)) = Cardinality(E)
    BY <2>3, <2>4, FS_Bijection DEF ExistsBijection
  <2>6. Cardinality(E) \in Nat /\ ids(E) \in SUBSET Nat
    BY <1>1, <2>1, <2>4, FS_CardinalityType
  <2> QED BY <2>2, <2>4, <2>5, <2>6
<1>4. f.edges \in SUBSET f.edges
  OBVIOUS
<1> QED BY <1>3, <1>4

\* What a block is connected to, one entry for each connection.
LEMMA TargetsList ==
  ASSUME NEW f, Numbered(f), NEW b
  PROVE  LET list == F!Targets(f, b) IN
         /\ list \in Seq(F!Blocks) /\ Len(list) = Cardinality(From(f, b))
         /\ \A i \in 1..Len(list) : \E e \in From(f, b) : list[i] = e.to
         /\ \A e \in From(f, b) : \E i \in 1..Len(list) : list[i] = e.to
<1> DEFINE E == From(f, b)
           ids == {e.id : e \in {x \in f.edges : x.from = b}}
           order == F!InOrder(ids)
           n == Cardinality(E)
           list == F!Targets(f, b)
           edge(i) == CHOOSE e \in f.edges : e.id = order[i]
<1>1. E \in SUBSET f.edges
  BY DEF From
<1>2. /\ IsFiniteSet(E) /\ n \in Nat /\ ids \in SUBSET Nat
      /\ IsFiniteSet(ids) /\ Cardinality(ids) = n
  <2>1. ids = {e.id : e \in E}
    BY DEF From
  <2> HIDE DEF E, ids
  <2> QED BY <1>1, <2>1, EdgesAreFinite
<1>3. /\ order \in [1..n -> ids]
      /\ \A k \in ids : \E i \in 1..n : order[i] = k
  <2> HIDE DEF ids, n
  <2> QED BY <1>2, InOrderLists
<1>4. list = [i \in 1..n |-> edge(i).to]
  <2>2. DOMAIN order = 1..n
    <3> HIDE DEF ids, n, order
    <3> QED BY <1>3
  <2>3. list = [i \in DOMAIN order |-> edge(i).to]
    BY DEF F!Targets
  <2> HIDE DEF list, n, edge, order
  <2> QED BY <2>2, <2>3
<1>5. \A i \in 1..n : edge(i) \in E /\ edge(i).id = order[i]
  <2> SUFFICES ASSUME NEW i \in 1..n PROVE edge(i) \in E /\ edge(i).id = order[i]
    OBVIOUS
  <2>1. order[i] \in ids
    <3> HIDE DEF order, ids, n
    <3> QED BY <1>3
  <2>2. PICK e \in E : e.id = order[i]
    <3> HIDE DEF order
    <3> QED BY <2>1 DEF From
  <2>3. edge(i) \in f.edges /\ edge(i).id = order[i]
    BY <1>1, <2>2
  <2>4. edge(i) = e
    <3> HIDE DEF edge, order
    <3> QED BY <1>1, <2>2, <2>3 DEF Numbered
  <2> HIDE DEF edge, order
  <2> QED BY <2>2, <2>3, <2>4
<1>6. \A e \in E : e.to \in F!Blocks
  BY <1>1 DEF Numbered, F!Flows, F!Edges
<1>7. list \in [1..n -> F!Blocks]
  <2> HIDE DEF edge, list, n, E
  <2> QED BY <1>4, <1>5, <1>6
<1>8. list \in Seq(F!Blocks) /\ Len(list) = n
  <2> HIDE DEF list, n, E
  <2> QED BY <1>2, <1>7
<1>9. \A i \in 1..n : \E e \in E : list[i] = e.to
  <2> HIDE DEF list, n, E, edge
  <2> QED BY <1>4, <1>5
<1>10. ASSUME NEW e \in E PROVE \E i \in 1..n : list[i] = e.to
  <2>1. e.id \in ids
    BY DEF From
  <2>2. PICK i \in 1..n : order[i] = e.id
    <3> HIDE DEF ids, order, n
    <3> QED BY <1>3, <2>1
  <2>3. edge(i) = e
    <3> HIDE DEF edge, order, n, E
    <3> QED BY <1>1, <1>5, <2>2 DEF Numbered
  <2> HIDE DEF list, edge, n
  <2> QED BY <1>4, <2>3
<1> HIDE DEF list, E, n
<1> QED BY <1>8, <1>9, <1>10 DEF list, E, n

-----------------------------------------------------------------------------
(* The walk of the editor's check.                                           *)

\* Connections that leave S stay in it.
Closed(f, S) == \A e \in f.edges : e.from \in S => e.to \in S

\* Reach finds the smallest closed set around start: each of its rounds meets
\* one block more until nothing is left to meet.
LEMMA ReachIsTheClosure ==
  ASSUME NEW f, f \in F!Flows, NEW start \in SUBSET F!Blocks, start # {}
  PROVE  LET R == F!Reach(f, start, F!Blocks) IN
         /\ start \subseteq R /\ R \subseteq F!Blocks /\ Closed(f, R)
         /\ \A S : start \subseteq S /\ Closed(f, S) => R \subseteq S
<1> DEFINE N == MaxBlocks
           B == F!Blocks
           More(m) == m \cup {e.to : e \in {x \in f.edges : x.from \in m \cap B}}
           Rounds(r) == r = [n \in 0..N |-> IF n = 0 THEN start ELSE More(r[n - 1])]
           met == CHOOSE r : Rounds(r)
           Found(m, n) == /\ m \in SUBSET B /\ start \subseteq m
                          /\ \A S : start \subseteq S /\ Closed(f, S) => m \subseteq S
                          /\ Closed(f, m) \/ n + 1 <= Cardinality(m)
           P == {n \in 0..N : Found(met[n], n)}
<1>1. N \in Nat /\ N # 0 /\ IsFiniteSet(B) /\ Cardinality(B) = N
  BY BlocksAreFinite
<1>0. start \in SUBSET B
  OBVIOUS
<1>2. \A m \in SUBSET B : IsFiniteSet(m) /\ Cardinality(m) \in Nat /\ Cardinality(m) <= N
  <2> HIDE DEF B
  <2> QED BY <1>1, FS_Subset, FS_CardinalityType
<1>3. \A e \in f.edges : e.to \in B /\ e.from \in B
  BY DEF F!Flows, F!Edges
<1>4. \A m \in SUBSET B : More(m) \in SUBSET B
  <2> HIDE DEF B
  <2> QED BY <1>3
<1>5. \E r : Rounds(r)
  <2> DEFINE T == SUBSET B
             step == [m \in T |-> More(m)]
             next == [n \in 0..N |-> step]
  <2>1. next \in Steps(N, T)
    <3> HIDE DEF More, B, N
    <3> QED BY <1>4 DEF Steps
  <2>2. PICK r \in [0..N -> T] : r[0] = start /\ \A n \in 1..N : r[n] = next[n][r[n - 1]]
    <3> HIDE DEF next, T, N
    <3>1. start \in T
      BY DEF T
    <3>2. Courses(N, T, start, next) # {}
      BY <1>1, <2>1, <3>1, RunExists
    <3> QED BY <3>2 DEF Courses
  <2>3. \A n \in 1..N : r[n] = More(r[n - 1])
    <3> SUFFICES ASSUME NEW n \in 1..N PROVE r[n] = More(r[n - 1])
      OBVIOUS
    <3>1. n - 1 \in 0..N
      BY <1>1
    <3>2. r[n - 1] \in T
      <4> HIDE DEF T, N
      <4> QED BY <2>2, <3>1
    <3>3. next[n][r[n - 1]] = More(r[n - 1])
      <4> HIDE DEF More, T, N
      <4> QED BY <1>1, <3>2
    <3> HIDE DEF More, T, N, next
    <3> QED BY <2>2, <3>3
  <2>4. Rounds(r)
    <3> HIDE DEF next, T, More, N
    <3>1. ASSUME NEW n \in 0..N PROVE r[n] = IF n = 0 THEN start ELSE More(r[n - 1])
      <4>1. CASE n = 0
        BY <2>2, <4>1
      <4>2. CASE n # 0
        <5>1. n \in 1..N
          BY <1>1, <4>2
        <5> QED BY <2>3, <4>2, <5>1
      <4> QED BY <4>1, <4>2
    <3> QED BY <2>2, <3>1
  <2> HIDE DEF Rounds
  <2> QED BY <2>4
<1>6. Rounds(met)
  <2> HIDE DEF Rounds
  <2> QED BY <1>5
<1>7. met[0] = start /\ \A n \in 0..(N - 1) : met[n + 1] = More(met[n])
  <2> HIDE DEF met, More
  <2> QED BY <1>1, <1>6
<1>8. 0 \in P
  <2>1. Cardinality(start) # 0
    <3> HIDE DEF B
    <3> QED BY <1>0, <1>2, FS_EmptySet
  <2>2. Found(start, 0)
    <3> HIDE DEF B
    <3> QED BY <1>0, <1>2, <2>1
  <2> HIDE DEF Found, met
  <2> QED BY <1>1, <1>7, <2>2
<1>9. ASSUME NEW n \in 0..(N - 1), n \in P PROVE n + 1 \in P
  <2> DEFINE m == met[n]
  <2>1. Found(m, n)
    BY <1>9
  <2>2. met[n + 1] = More(m)
    <3> HIDE DEF met, More
    <3> QED BY <1>7
  <2> HIDE DEF met, m, B
  <2>3. More(m) \in SUBSET B /\ start \subseteq More(m)
    BY <1>4, <2>1
  <2>4. ASSUME NEW S, start \subseteq S, Closed(f, S) PROVE More(m) \subseteq S
    BY <2>1, <2>4 DEF Closed
  <2>5. CASE Closed(f, m)
    <3>1. More(m) = m
      BY <2>1, <2>5 DEF Closed
    <3>2. Found(More(m), n + 1)
      BY <2>1, <2>5, <3>1
    <3> HIDE DEF Found, More
    <3> QED BY <1>1, <2>2, <3>2
  <2>6. CASE ~Closed(f, m)
    <3>1. PICK e \in f.edges : e.from \in m /\ e.to \notin m
      BY <2>6 DEF Closed
    <3>2. e.to \in More(m) /\ m \subseteq More(m)
      BY <1>3, <3>1
    <3>3. m \cup {e.to} \subseteq More(m) /\ m \in SUBSET B
      BY <2>1, <3>2
    <3>4. IsFiniteSet(m) /\ IsFiniteSet(More(m)) /\ Cardinality(m) \in Nat
      <4> HIDE DEF More
      <4> QED BY <1>2, <2>3, <3>3
    <3>5. Cardinality(m \cup {e.to}) = Cardinality(m) + 1
      BY <3>1, <3>4, FS_AddElement
    <3>6. Cardinality(m \cup {e.to}) <= Cardinality(More(m)) /\ Cardinality(More(m)) \in Nat
      <4> HIDE DEF More
      <4> QED BY <3>3, <3>4, FS_Subset, FS_CardinalityType
    <3>7. n + 1 <= Cardinality(m)
      BY <2>1, <2>6
    <3>8. n + 2 <= Cardinality(More(m))
      <4> HIDE DEF More
      <4> QED BY <3>4, <3>5, <3>6, <3>7
    <3>9. Found(More(m), n + 1)
      <4> HIDE DEF More
      <4> QED BY <2>3, <2>4, <3>8
    <3> HIDE DEF Found, More
    <3> QED BY <1>1, <2>2, <3>9
  <2> QED BY <2>5, <2>6
<1>10. P \in SUBSET (0..N)
  OBVIOUS
<1>11. N \in P
  <2> HIDE DEF P, N
  <2> QED BY <1>1, <1>8, <1>9, <1>10, CountUp
<1>12. Found(met[N], N)
  BY <1>11
<1>13. F!Reach(f, start, B) = met[N]
  BY DEF F!Reach
<1>14. Closed(f, met[N])
  <2> HIDE DEF met, B, N
  <2> QED BY <1>1, <1>2, <1>12
<1> QED
  <2> HIDE DEF met
  <2> QED BY <1>12, <1>13, <1>14

-----------------------------------------------------------------------------
(* The walk of the simulation.                                               *)

\* What a sequence lists.
Listed(s) == {s[i] : i \in 1..Len(s)}

\* The head and the tail of a sequence, one entry more, and two in a row.
LEMMA ListedParts ==
  ASSUME NEW T, NEW s \in Seq(T)
  PROVE  /\ Listed(s) \in SUBSET T
         /\ s # <<>> => /\ Head(s) \in T /\ Tail(s) \in Seq(T) /\ Len(Tail(s)) = Len(s) - 1
                        /\ Listed(s) = {Head(s)} \cup Listed(Tail(s))
         /\ \A x \in T : /\ Append(s, x) \in Seq(T)
                         /\ Listed(Append(s, x)) = Listed(s) \cup {x}
         /\ \A u \in Seq(T) : /\ s \o u \in Seq(T) /\ Len(s \o u) = Len(s) + Len(u)
                              /\ Listed(s \o u) = Listed(s) \cup Listed(u)
<1>1. Listed(s) \in SUBSET T
  BY DEF Listed
<1>2. ASSUME s # <<>>
      PROVE /\ Head(s) \in T /\ Tail(s) \in Seq(T) /\ Len(Tail(s)) = Len(s) - 1
            /\ Listed(s) = {Head(s)} \cup Listed(Tail(s))
  <2>1. Head(s) \in T /\ Tail(s) \in Seq(T) /\ Len(Tail(s)) = Len(s) - 1 /\ Len(s) \in Nat
        /\ Len(s) >= 1 /\ Head(s) = s[1]
    BY <1>2
  <2>2. \A i \in 1..Len(Tail(s)) : Tail(s)[i] = s[i + 1]
    BY <1>2
  <2>3. \A x \in Listed(s) : x \in {Head(s)} \cup Listed(Tail(s))
    <3> SUFFICES ASSUME NEW i \in 1..Len(s) PROVE s[i] \in {Head(s)} \cup Listed(Tail(s))
      BY DEF Listed
    <3>1. CASE i = 1
      BY <2>1, <3>1
    <3>2. CASE i # 1
      <4>1. i - 1 \in 1..Len(Tail(s)) /\ (i - 1) + 1 = i
        BY <2>1, <3>2
      <4>2. Tail(s)[i - 1] = s[i]
        BY <2>2, <4>1
      <4> QED BY <4>1, <4>2 DEF Listed
    <3> QED BY <3>1, <3>2
  <2>4. \A x \in Listed(Tail(s)) : x \in Listed(s)
    <3> SUFFICES ASSUME NEW i \in 1..Len(Tail(s)) PROVE Tail(s)[i] \in Listed(s)
      BY DEF Listed
    <3>1. i + 1 \in 1..Len(s)
      BY <2>1
    <3> QED BY <2>2, <3>1 DEF Listed
  <2>5. Head(s) \in Listed(s)
    BY <2>1 DEF Listed
  <2> QED BY <2>1, <2>3, <2>4, <2>5
<1>3. ASSUME NEW x \in T
      PROVE Append(s, x) \in Seq(T) /\ Listed(Append(s, x)) = Listed(s) \cup {x}
  <2> DEFINE a == Append(s, x)
  <2>1. a \in Seq(T) /\ Len(a) = Len(s) + 1 /\ Len(s) \in Nat /\ a[Len(s) + 1] = x
        /\ \A i \in 1..Len(s) : a[i] = s[i]
    OBVIOUS
  <2> HIDE DEF a
  <2>2. 1..Len(a) = 1..Len(s) \cup {Len(s) + 1}
    BY <2>1
  <2>3. Listed(a) = Listed(s) \cup {x}
    BY <2>1, <2>2 DEF Listed
  <2> QED BY <2>1, <2>3 DEF a
<1>4. ASSUME NEW u \in Seq(T)
      PROVE /\ s \o u \in Seq(T) /\ Len(s \o u) = Len(s) + Len(u)
            /\ Listed(s \o u) = Listed(s) \cup Listed(u)
  <2> DEFINE a == s \o u
  <2>1. /\ a \in Seq(T) /\ Len(a) = Len(s) + Len(u) /\ Len(s) \in Nat /\ Len(u) \in Nat
        /\ \A i \in 1..Len(s) : a[i] = s[i]
        /\ \A i \in 1..Len(u) : a[i + Len(s)] = u[i]
    OBVIOUS
  <2> HIDE DEF a
  <2>2. \A x \in Listed(a) : x \in Listed(s) \cup Listed(u)
    <3> SUFFICES ASSUME NEW i \in 1..Len(a) PROVE a[i] \in Listed(s) \cup Listed(u)
      BY DEF Listed
    <3>1. CASE i <= Len(s)
      BY <2>1, <3>1 DEF Listed
    <3>2. CASE i > Len(s)
      <4>1. i - Len(s) \in 1..Len(u) /\ (i - Len(s)) + Len(s) = i
        BY <2>1, <3>2
      <4>2. a[i] = u[i - Len(s)]
        BY <2>1, <4>1
      <4> QED BY <4>1, <4>2 DEF Listed
    <3> QED BY <2>1, <3>1, <3>2
  <2>3. \A x \in Listed(s) : x \in Listed(a)
    BY <2>1 DEF Listed
  <2>4. \A x \in Listed(u) : x \in Listed(a)
    <3> SUFFICES ASSUME NEW i \in 1..Len(u) PROVE u[i] \in Listed(a)
      BY DEF Listed
    <3>1. i + Len(s) \in 1..Len(a)
      BY <2>1
    <3> QED BY <2>1, <3>1 DEF Listed
  <2>5. Listed(a) = Listed(s) \cup Listed(u)
    BY <2>2, <2>3, <2>4
  <2> QED BY <2>1, <2>5 DEF a
<1> QED BY <1>1, <1>2, <1>3, <1>4

\* A turn's queue, what was visited, and what has come out.
Walks == [queue : Seq(F!Blocks), visited : SUBSET F!Blocks, out : Seq(F!Blocks)]

\* The connections not looked at yet.
Ahead(f, at) == {e \in f.edges : e.from \notin at.visited}

\* The blocks visited or about to be.
Met(at) == at.visited \cup Listed(at.queue)

\* The walk from t: t is met and only what cannot be left out; what has come out
\* are the enabled blocks visited, once each, with all they lead to met; and the
\* queue is empty within n turns, as each takes an entry or a connection.
WalkInv(f, t, at, n) ==
  /\ at \in Walks
  /\ t \in Met(at)
  /\ \A S : t \in S /\ Closed(f, S) => Met(at) \subseteq S
  /\ Listed(at.out) = at.visited \cap F!Enabled(f)
  /\ \A i, j \in 1..Len(at.out) : at.out[i] = at.out[j] => i = j
  /\ \A e \in f.edges : e.from \in Listed(at.out) => e.to \in Met(at)
  /\ at.queue = <<>> \/ Len(at.queue) + Cardinality(Ahead(f, at)) <= n

\* A turn does what the code's does.
LEMMA TurnIs ==
  ASSUME NEW f, NEW at \in Walks
  PROVE  LET b == Head(at.queue)  old == b \in at.visited \/ b \notin F!Enabled(f) IN
         F!Turn(f, at) =
           [queue |-> IF old THEN Tail(at.queue) ELSE Tail(at.queue) \o F!Targets(f, b),
            visited |-> at.visited \cup {b},
            out |-> IF old THEN at.out ELSE Append(at.out, b)]
BY DEF F!Turn, Walks

\* It keeps the invariant.
LEMMA TurnKeepsWalk ==
  ASSUME NEW f, Numbered(f), NEW t, NEW at, NEW n \in Nat, WalkInv(f, t, at, n), at.queue # <<>>
  PROVE  n # 0 /\ WalkInv(f, t, F!Turn(f, at), n - 1)
<1> DEFINE b == Head(at.queue)
           rest == Tail(at.queue)
           new == F!Turn(f, at)
           targets == F!Targets(f, b)
           open == b \in F!Enabled(f) /\ b \notin at.visited
<1>1. /\ at \in Walks /\ at.queue \in Seq(F!Blocks) /\ at.visited \in SUBSET F!Blocks
      /\ at.out \in Seq(F!Blocks)
  BY DEF WalkInv, Walks
<1>2. /\ b \in F!Blocks /\ rest \in Seq(F!Blocks) /\ Len(rest) = Len(at.queue) - 1
      /\ Listed(at.queue) = {b} \cup Listed(rest) /\ Len(at.queue) \in Nat /\ Len(at.queue) # 0
      /\ Len(rest) \in Nat
  BY <1>1, ListedParts
<1>3. /\ targets \in Seq(F!Blocks) /\ Len(targets) = Cardinality(From(f, b))
      /\ Listed(targets) = {e.to : e \in From(f, b)}
  <2>1. /\ \A i \in 1..Len(targets) : \E e \in From(f, b) : targets[i] = e.to
        /\ \A e \in From(f, b) : \E i \in 1..Len(targets) : targets[i] = e.to
        /\ targets \in Seq(F!Blocks) /\ Len(targets) = Cardinality(From(f, b))
    BY TargetsList
  <2> HIDE DEF targets
  <2> QED BY <2>1 DEF Listed
<1>4. /\ IsFiniteSet(f.edges)
      /\ \A E \in SUBSET f.edges : IsFiniteSet(E) /\ Cardinality(E) \in Nat
  BY EdgesAreFinite
<1>5. new = [queue |-> IF open THEN rest \o targets ELSE rest,
             visited |-> at.visited \cup {b},
             out |-> IF open THEN Append(at.out, b) ELSE at.out]
  <2> DEFINE old == b \in at.visited \/ b \notin F!Enabled(f)
  <2>1. new = [queue |-> IF old THEN rest ELSE rest \o targets,
               visited |-> at.visited \cup {b},
               out |-> IF old THEN at.out ELSE Append(at.out, b)]
    BY <1>1, TurnIs
  <2>2. old <=> ~open
    OBVIOUS
  <2> HIDE DEF old, open, new, rest, targets, b
  <2> QED BY <2>1, <2>2
<1>6. /\ new.visited = at.visited \cup {b}
      /\ new.queue = IF open THEN rest \o targets ELSE rest
      /\ new.out = IF open THEN Append(at.out, b) ELSE at.out
  <2> HIDE DEF open, rest, targets, b, new
  <2> QED BY <1>5
<1> HIDE DEF b, rest, new, targets
<1>7. /\ new.queue \in Seq(F!Blocks)
      /\ Listed(new.queue) = Listed(rest) \cup (IF open THEN Listed(targets) ELSE {})
      /\ Len(new.queue) = Len(rest) + (IF open THEN Len(targets) ELSE 0)
  <2>1. CASE open
    <3>1. new.queue = rest \o targets
      BY <1>6, <2>1
    <3>2. /\ rest \o targets \in Seq(F!Blocks) /\ Len(rest \o targets) = Len(rest) + Len(targets)
          /\ Listed(rest \o targets) = Listed(rest) \cup Listed(targets)
      BY <1>2, <1>3, ListedParts
    <3> QED BY <2>1, <3>1, <3>2
  <2>2. CASE ~open
    <3> HIDE DEF open
    <3> QED BY <1>2, <1>6, <2>2
  <2> QED BY <2>1, <2>2
<1>8. /\ new.out \in Seq(F!Blocks)
      /\ Listed(new.out) = Listed(at.out) \cup (IF open THEN {b} ELSE {})
  <2>1. CASE open
    BY <1>1, <1>2, <1>6, <2>1, ListedParts
  <2>2. CASE ~open
    <3> HIDE DEF open
    <3> QED BY <1>1, <1>6, <2>2
  <2> QED BY <2>1, <2>2
<1>9. new \in Walks
  BY <1>1, <1>2, <1>5, <1>6, <1>7, <1>8 DEF Walks
<1>10. Met(new) = Met(at) \cup (IF open THEN {e.to : e \in From(f, b)} ELSE {})
  BY <1>2, <1>3, <1>6, <1>7 DEF Met
<1>11. t \in Met(new)
  BY <1>10 DEF WalkInv
<1>12. ASSUME NEW S, t \in S, Closed(f, S) PROVE Met(new) \subseteq S
  <2>1. Met(at) \subseteq S
    BY <1>12 DEF WalkInv
  <2>2. b \in S
    BY <1>2, <2>1 DEF Met
  <2> QED BY <1>10, <1>12, <2>1, <2>2 DEF Closed, From
<1>13. Listed(new.out) = new.visited \cap F!Enabled(f)
  BY <1>6, <1>8 DEF WalkInv
<1>14. \A i, j \in 1..Len(new.out) : new.out[i] = new.out[j] => i = j
  <2>1. CASE ~open
    BY <1>6, <2>1 DEF WalkInv
  <2>2. CASE open
    <3>1. /\ Len(new.out) = Len(at.out) + 1 /\ Len(at.out) \in Nat
          /\ new.out[Len(at.out) + 1] = b
          /\ \A i \in 1..Len(at.out) : new.out[i] = at.out[i]
      BY <1>1, <1>2, <1>6, <2>2
    <3>2. \A i \in 1..Len(at.out) : at.out[i] # b
      BY <2>2 DEF WalkInv, Listed
    <3>3. \A i, j \in 1..Len(at.out) : at.out[i] = at.out[j] => i = j
      BY DEF WalkInv
    <3>4. \A i \in 1..Len(new.out) : i \in 1..Len(at.out) \/ i = Len(at.out) + 1
      BY <3>1
    <3> HIDE DEF open
    <3> QED BY <3>1, <3>2, <3>3, <3>4
  <2> QED BY <2>1, <2>2
<1>15. ASSUME NEW e \in f.edges, e.from \in Listed(new.out) PROVE e.to \in Met(new)
  <2>1. CASE e.from \in Listed(at.out)
    BY <1>10, <2>1 DEF WalkInv
  <2>2. CASE open /\ e.from = b
    BY <1>10, <2>2 DEF From
  <2> QED BY <1>8, <1>15, <2>1, <2>2
<1>16. Len(at.queue) + Cardinality(Ahead(f, at)) <= n
  BY DEF WalkInv
<1>17. /\ Ahead(f, at) \in SUBSET f.edges /\ Ahead(f, new) \in SUBSET Ahead(f, at)
       /\ Ahead(f, new) = Ahead(f, at) \ From(f, b)
  BY <1>6 DEF Ahead, From
<1>18. /\ IsFiniteSet(Ahead(f, at)) /\ Cardinality(Ahead(f, at)) \in Nat
       /\ IsFiniteSet(Ahead(f, new)) /\ Cardinality(Ahead(f, new)) \in Nat
       /\ Cardinality(Ahead(f, new)) <= Cardinality(Ahead(f, at))
  BY <1>4, <1>17, FS_Subset
<1>19. open => Cardinality(Ahead(f, new)) + Len(targets) = Cardinality(Ahead(f, at))
  <2> SUFFICES ASSUME open
               PROVE Cardinality(Ahead(f, new)) + Len(targets) = Cardinality(Ahead(f, at))
    OBVIOUS
  <2>1. Ahead(f, at) \cap From(f, b) = From(f, b)
    BY DEF Ahead, From
  <2>2. From(f, b) \in SUBSET f.edges
    BY DEF From
  <2>3. Cardinality(Ahead(f, new)) = Cardinality(Ahead(f, at)) - Cardinality(From(f, b))
    BY <1>17, <1>18, <2>1, FS_Difference
  <2>4. Cardinality(From(f, b)) \in Nat
    BY <1>4, <2>2
  <2> QED BY <1>3, <1>18, <2>3, <2>4
<1>20. n # 0 /\ Len(new.queue) + Cardinality(Ahead(f, new)) <= n - 1
  <2>1. Len(targets) \in Nat
    BY <1>3
  <2> HIDE DEF open
  <2>2. CASE open
    <3>1. Len(new.queue) = Len(rest) + Len(targets)
      BY <1>7, <2>2
    <3> QED BY <1>2, <1>16, <1>18, <1>19, <2>1, <2>2, <3>1
  <2>3. CASE ~open
    <3>1. Len(new.queue) = Len(rest)
      BY <1>2, <1>7, <2>3
    <3> QED BY <1>2, <1>16, <1>18, <3>1
  <2> QED BY <2>2, <2>3
<1> QED BY <1>9, <1>11, <1>12, <1>13, <1>14, <1>15, <1>20 DEF WalkInv, new

-----------------------------------------------------------------------------
(* What the two walks find.                                                  *)

\* The first of some blocks is one of them.
LEMMA FirstIsIn ==
  ASSUME NEW S, S \in SUBSET F!Blocks, S # {} PROVE F!First(S) \in S /\ F!First(S) \in F!Blocks
<1> DEFINE T == {0..c : c \in S}
           A == 0..MaxBlocks
<1>1. IsFiniteSet(A) /\ MaxBlocks \in Nat
  BY BlocksAreFinite, FS_Interval
<1>2. \A c \in S : c \in 1..MaxBlocks /\ c \in Nat
  BY <1>1 DEF F!Blocks
<1>3. T # {} /\ T \in SUBSET (SUBSET A)
  BY <1>1, <1>2
<1>4. PICK x \in T : \A y \in T : y \subseteq x => y = x
  <2> HIDE DEF A, T
  <2> QED BY <1>1, <1>3, SmallestSet
<1>5. PICK b \in S : x = 0..b
  OBVIOUS
<1>6. ASSUME NEW c \in S, c < b PROVE FALSE
  <2>1. 0..c \in T /\ 0..c \subseteq 0..b /\ 0..c # 0..b
    BY <1>2, <1>6
  <2> HIDE DEF T
  <2> QED BY <1>4, <1>5, <2>1
<1>7. \A c \in S : b <= c
  BY <1>2, <1>6
<1> QED BY <1>7 DEF F!First

\* The order of the visit, when there is a trigger: the enabled blocks that some
\* walk visited, each once, with all that they lead to.
LEMMA OrderIsTheWalk ==
  ASSUME NEW f, Numbered(f), ~F!NoTrigger(f)
  PROVE  \E at : /\ WalkInv(f, F!First(F!Of(f, "trigger")), at, 0)
                 /\ at.queue = <<>> /\ F!Order(f) = at.out
<1> DEFINE t == F!First(F!Of(f, "trigger"))
           start == [queue |-> <<t>>, visited |-> {}, out |-> <<>>]
           turns == 1 + F!Cardinality(f.edges)
           Turned(at) == IF at.queue = <<>> THEN at ELSE F!Turn(f, at)
           Walk(w) == w = [n \in 0..turns |-> IF n = 0 THEN start ELSE Turned(w[n - 1])]
           walk == CHOOSE w : Walk(w)
           P == {n \in 0..turns : WalkInv(f, t, walk[n], turns - n)}
<1>1. turns \in Nat /\ turns = 1 + Cardinality(f.edges)
  <2>1. f.edges \in SUBSET f.edges
    OBVIOUS
  <2>2. Cardinality(f.edges) \in Nat
    BY <2>1, EdgesAreFinite
  <2> QED BY <2>2, SameCardinality
<1>2. t \in F!Blocks
  <2>1. /\ F!Of(f, "trigger") # {} /\ F!Of(f, "trigger") \in SUBSET F!Blocks
    BY DEF F!NoTrigger, F!Of, F!Enabled, Numbered, F!Flows
  <2> QED BY <2>1, FirstIsIn
<1>3. WalkInv(f, t, start, turns)
  <2>1. start \in Walks /\ Len(start.queue) = 1 /\ Listed(start.queue) = {t} /\ Listed(start.out) = {}
        /\ Len(start.out) = 0 /\ start.visited = {}
    <3> HIDE DEF t
    <3> QED BY <1>2 DEF Walks, Listed
  <2>2. Met(start) = {t} /\ Ahead(f, start) = f.edges
    <3> HIDE DEF start
    <3> QED BY <2>1 DEF Met, Ahead
  <2> HIDE DEF start, t
  <2>3. Len(start.queue) + Cardinality(Ahead(f, start)) <= turns
    BY <1>1, <2>1, <2>2, EdgesAreFinite
  <2> HIDE DEF turns
  <2> QED BY <2>1, <2>2, <2>3 DEF WalkInv
<1>4. ASSUME NEW at, NEW n \in Nat, n # 0, WalkInv(f, t, at, n)
      PROVE  WalkInv(f, t, Turned(at), n - 1)
  <2> HIDE DEF t
  <2>1. CASE at.queue = <<>>
    BY <1>4, <2>1 DEF WalkInv
  <2>2. CASE at.queue # <<>>
    BY <1>4, <2>2, TurnKeepsWalk
  <2> QED BY <2>1, <2>2
<1>5. \A at \in Walks : Turned(at) \in Walks
  <2> SUFFICES ASSUME NEW at \in Walks, at.queue # <<>> PROVE F!Turn(f, at) \in Walks
    OBVIOUS
  <2> DEFINE b == Head(at.queue)
             targets == F!Targets(f, b)
  <2>1. /\ at.queue \in Seq(F!Blocks) /\ at.visited \in SUBSET F!Blocks /\ at.out \in Seq(F!Blocks)
    BY DEF Walks
  <2>2. b \in F!Blocks /\ Tail(at.queue) \in Seq(F!Blocks) /\ Append(at.out, b) \in Seq(F!Blocks)
    BY <2>1, ListedParts
  <2>3. targets \in Seq(F!Blocks)
    BY TargetsList
  <2>4. Tail(at.queue) \o targets \in Seq(F!Blocks)
    <3> HIDE DEF targets
    <3> QED BY <2>2, <2>3
  <2>5. at.visited \cup {b} \in SUBSET F!Blocks
    BY <2>1, <2>2
  <2> DEFINE old == b \in at.visited \/ b \notin F!Enabled(f)
             queue == IF old THEN Tail(at.queue) ELSE Tail(at.queue) \o targets
             out == IF old THEN at.out ELSE Append(at.out, b)
  <2>6. F!Turn(f, at) = [queue |-> queue, visited |-> at.visited \cup {b}, out |-> out]
    BY TurnIs
  <2>7. queue \in Seq(F!Blocks) /\ out \in Seq(F!Blocks)
    <3> HIDE DEF targets, b, old
    <3> QED BY <2>1, <2>2, <2>4
  <2> HIDE DEF queue, out, b
  <2> QED BY <2>5, <2>6, <2>7 DEF Walks
<1>6. start \in Walks
  BY <1>2 DEF Walks
<1> HIDE DEF t, start, turns, Turned
<1>7. \E w : Walk(w)
  <2> DEFINE step == [at \in Walks |-> Turned(at)]
             next == [n \in 0..turns |-> step]
  <2>1. next \in Steps(turns, Walks)
    BY <1>5 DEF Steps
  <2>2. PICK r \in [0..turns -> Walks] :
          r[0] = start /\ \A n \in 1..turns : r[n] = next[n][r[n - 1]]
    <3> HIDE DEF next
    <3>1. Courses(turns, Walks, start, next) # {}
      BY <1>1, <1>6, <2>1, RunExists
    <3> QED BY <3>1 DEF Courses
  <2>3. \A n \in 1..turns : r[n] = Turned(r[n - 1])
    <3> SUFFICES ASSUME NEW n \in 1..turns PROVE r[n] = Turned(r[n - 1])
      OBVIOUS
    <3>1. n - 1 \in 0..turns
      BY <1>1
    <3>2. r[n - 1] \in Walks
      BY <2>2, <3>1
    <3>3. next[n][r[n - 1]] = Turned(r[n - 1])
      BY <1>1, <3>2
    <3> HIDE DEF next
    <3> QED BY <2>2, <3>3
  <2>4. Walk(r)
    <3> HIDE DEF next
    <3>1. ASSUME NEW n \in 0..turns PROVE r[n] = IF n = 0 THEN start ELSE Turned(r[n - 1])
      <4>1. CASE n = 0
        BY <2>2, <4>1
      <4>2. CASE n # 0
        <5>1. n \in 1..turns
          BY <1>1, <4>2
        <5> QED BY <2>3, <4>2, <5>1
      <4> QED BY <4>1, <4>2
    <3> QED BY <2>2, <3>1
  <2> HIDE DEF Walk
  <2> QED BY <2>4
<1>8. Walk(walk)
  <2> HIDE DEF Walk
  <2> QED BY <1>7
<1>9. walk[0] = start /\ \A n \in 0..(turns - 1) : walk[n + 1] = Turned(walk[n])
  <2> HIDE DEF walk
  <2> QED BY <1>1, <1>8
<1>10. 0 \in P
  <2> HIDE DEF walk
  <2> QED BY <1>1, <1>3, <1>9
<1>11. ASSUME NEW n \in 0..(turns - 1), n \in P PROVE n + 1 \in P
  <2> HIDE DEF walk
  <2>1. WalkInv(f, t, walk[n], turns - n) /\ turns - n \in Nat /\ turns - n # 0
    BY <1>1, <1>11
  <2>2. (turns - n) - 1 = turns - (n + 1) /\ n + 1 \in 0..turns
    BY <1>1
  <2>3. WalkInv(f, t, Turned(walk[n]), (turns - n) - 1)
    BY <1>4, <2>1
  <2> QED BY <1>9, <2>2, <2>3
<1>12. P \in SUBSET (0..turns)
  OBVIOUS
<1>13. turns \in P
  <2> HIDE DEF P
  <2> QED BY <1>1, <1>10, <1>11, <1>12, CountUp
<1>14. WalkInv(f, t, walk[turns], 0)
  <2> HIDE DEF walk
  <2>1. turns - turns = 0
    BY <1>1
  <2> QED BY <1>13, <2>1
<1>15. walk[turns].queue = <<>>
  <2> DEFINE at == walk[turns]
  <2>1. at.queue \in Seq(F!Blocks) /\ (at.queue = <<>> \/ Len(at.queue) + Cardinality(Ahead(f, at)) <= 0)
    <3> HIDE DEF walk
    <3> QED BY <1>14 DEF WalkInv, Walks
  <2>2. Cardinality(Ahead(f, at)) \in Nat
    <3> HIDE DEF at
    <3> QED BY EdgesAreFinite DEF Ahead
  <2> HIDE DEF at
  <2>3. at.queue = <<>>
    BY <2>1, <2>2
  <2> QED BY <2>3 DEF at
<1>16. F!Order(f) = walk[turns].out
  BY DEF F!Order, start, turns, t, Turned
<1> HIDE DEF walk
<1> QED BY <1>14, <1>15, <1>16 DEF t

\* In a sound flow with one trigger and no block off, both walks find the smallest
\* closed set around the trigger.
LEMMA WalksDoAgree == CanvasInv => WalksAgree
<1> SUFFICES ASSUME CanvasInv, Cardinality(F!Of(flow, "trigger")) = 1, flow.off = {}
             PROVE  F!Loose(flow) = F!NotRun(flow)
  BY SameCardinality DEF WalksAgree, F!WalksAgree
<1> DEFINE triggers == F!Of(flow, "trigger")
           R == F!Reach(flow, triggers, F!Blocks)
<1>1. Numbered(flow) /\ flow \in F!Flows /\ flow.blocks \in SUBSET F!Blocks
  BY DEF CanvasInv, F!TypeOK, Sound, Numbered, F!Flows
<1>2. F!Enabled(flow) = flow.blocks
  BY DEF F!Enabled
<1>3. triggers \in SUBSET flow.blocks /\ triggers \in SUBSET F!Blocks
  BY <1>1, <1>2 DEF F!Of
<1>4. PICK t : triggers = {t}
  <2>1. IsFiniteSet(F!Blocks)
    BY BlocksAreFinite
  <2>2. IsFiniteSet(triggers)
    <3> HIDE DEF triggers
    <3> QED BY <1>3, <2>1, FS_Subset
  <2>3. Cardinality(triggers) = 1
    OBVIOUS
  <2> HIDE DEF triggers
  <2> QED BY <2>2, <2>3, FS_Singleton
<1>5. t \in flow.blocks /\ F!First(triggers) = t /\ ~F!NoTrigger(flow)
  <2>1. t \in flow.blocks /\ t \in Nat
    BY <1>1, <1>3, <1>4, CanvasAssumption DEF CanvasAssumption, F!Blocks
  <2>2. F!First({t}) = t
    BY <2>1 DEF F!First
  <2> QED BY <1>4, <2>1, <2>2 DEF F!NoTrigger
<1>6. /\ triggers \subseteq R /\ Closed(flow, R)
      /\ \A S : triggers \subseteq S /\ Closed(flow, S) => R \subseteq S
  <2>1. triggers \in SUBSET F!Blocks /\ triggers # {}
    BY <1>3, <1>4
  <2> HIDE DEF triggers
  <2> QED BY <1>1, <2>1, ReachIsTheClosure
<1>7. PICK at : WalkInv(flow, t, at, 0) /\ at.queue = <<>> /\ F!Order(flow) = at.out
  <2> HIDE DEF triggers
  <2> QED BY <1>1, <1>5, OrderIsTheWalk DEF triggers
<1>8. /\ Met(at) = at.visited
      /\ Listed(at.out) = at.visited \cap flow.blocks /\ at.visited \in SUBSET F!Blocks
  <2>1. Listed(<<>>) = {}
    BY DEF Listed
  <2> QED BY <1>2, <1>7, <2>1 DEF Met, WalkInv, Walks
<1>9. F!Visited(flow) = Listed(at.out)
  <2>1. at.out \in Seq(F!Blocks)
    BY <1>7 DEF WalkInv, Walks
  <2>2. DOMAIN at.out = 1..Len(at.out)
    BY <2>1
  <2> QED BY <1>7, <2>2 DEF F!Visited, Listed
<1>10. Closed(flow, flow.blocks)
  BY DEF Closed, CanvasInv, F!EdgesJoinBlocks
<1>11. Listed(at.out) \subseteq R
  <2>1. t \in R
    BY <1>4, <1>6
  <2> HIDE DEF R
  <2> QED BY <1>6, <1>7, <1>8, <2>1 DEF WalkInv
<1>12. R \subseteq Listed(at.out)
  <2>1. t \in at.visited
    BY <1>7, <1>8 DEF WalkInv
  <2>2. Closed(flow, Listed(at.out))
    BY <1>7, <1>8, <1>10 DEF WalkInv, Closed
  <2>3. triggers \subseteq Listed(at.out)
    BY <1>4, <1>5, <1>8, <2>1
  <2> HIDE DEF R, triggers
  <2> QED BY <1>6, <2>2, <2>3
<1>13. F!Loose(flow) = F!Enabled(flow) \ R
  BY <1>5 DEF F!Loose
<1> HIDE DEF R
<1> QED BY <1>9, <1>11, <1>12, <1>13 DEF F!NotRun

\* With one trigger and no block switched off, the blocks that validate.ts calls
\* loose are those that simulate.ts does not visit, in any flow the editor can hold:
\* of any size, whatever was added, removed, connected and reloaded.
THEOREM LooseBlocksDoNotRun == F!Spec => []WalksAgree
<1> QED  BY InitCanvas, StepCanvas, WalksDoAgree, PTL DEF F!Spec

-----------------------------------------------------------------------------
(* The simulation's counts.                                                  *)

\* A block is visited once.
LEMMA OrderIsOnce ==
  ASSUME NEW f, Numbered(f)
  PROVE  /\ F!Order(f) \in Seq(F!Blocks)
         /\ \A i, j \in 1..Len(F!Order(f)) : F!Order(f)[i] = F!Order(f)[j] => i = j
<1>1. CASE ~F!NoTrigger(f)
  <2>1. PICK at : WalkInv(f, F!First(F!Of(f, "trigger")), at, 0) /\ F!Order(f) = at.out
    BY <1>1, OrderIsTheWalk
  <2> QED BY <2>1 DEF WalkInv, Walks
<1>2. CASE F!NoTrigger(f)
  <2> DEFINE S == F!Enabled(f)
             n == Cardinality(S)
             list == F!InOrder(S)
  <2>1. S \in SUBSET F!Blocks /\ S \in SUBSET Nat /\ IsFiniteSet(F!Blocks)
    <3>1. S \in SUBSET F!Blocks
      BY DEF F!Enabled, Numbered, F!Flows
    <3> HIDE DEF S
    <3> QED BY <3>1, BlocksAreFinite
  <2>2. IsFiniteSet(S) /\ n \in Nat
    <3> HIDE DEF S
    <3> QED BY <2>1, FS_Subset, FS_CardinalityType
  <2>3. list \in [1..n -> S] /\ \A i, j \in 1..n : list[i] = list[j] => i = j
    <3> HIDE DEF S
    <3> QED BY <2>1, <2>2, InOrderLists
  <2> HIDE DEF S, n, list
  <2>4. list \in Seq(F!Blocks) /\ Len(list) = n
    <3>1. list \in [1..n -> F!Blocks]
      BY <2>1, <2>3
    <3> QED BY <2>2, <3>1
  <2>5. F!Order(f) = list
    BY <1>2 DEF F!Order, list, S
  <2> QED BY <2>3, <2>4, <2>5
<1> QED BY <1>1, <1>2

\* What the simulation counts, and the people that are inside.
Counts == [audience : Nat, filtered : Nat, universe : Nat, skips : BOOLEAN]
Inside(at) == at.audience + at.filtered

\* What is kept of a count is no more than the count.
LEMMA RoundKeeps ==
  ASSUME NEW n \in Nat
  PROVE  /\ F!Round(n * 92, 100) \in 0..n /\ F!Round(n * 96, 100) \in 0..n
         /\ F!Round(n * 60, 100) \in 0..n /\ F!Round(n * 12, 1000) \in 0..n
         /\ F!Round(n * 972, 1000) \in 0..n /\ F!Round(n * 79, 100) \in 0..n
         /\ F!Round(n * 14, 100) \in 0..n /\ F!Round(n * 85, 1000) \in 0..n
BY DEF F!Round

\* A block brings a number of people.
LEMMA PeopleAreCounted ==
  ASSUME NEW f, NEW b PROVE F!People(f, b) \in Nat
BY CanvasAssumption DEF CanvasAssumption, F!People

\* The counts may shrink, and move past a filter.
Within(a, at) == a \in Counts /\ Inside(a) <= Inside(at)

\* So do those that empty the audience, or leave it and keep fewer of the rest.
LEMMA MovesWithin ==
  ASSUME NEW at \in Counts, NEW aud \in {0, at.audience}, NEW fil \in 0..Inside(at),
         aud = 0 \/ fil <= at.filtered, NEW skips \in BOOLEAN
  PROVE  Within([audience |-> aud, filtered |-> fil, universe |-> at.universe,
                 skips |-> skips], at)
BY DEF Within, Counts, Inside

\* A block adds nobody but the people of a source.
LEMMA VisitAddsSources ==
  ASSUME NEW f, NEW b, NEW at \in Counts
  PROVE  /\ F!Visit(f, b, at) \in Counts
         /\ Inside(F!Visit(f, b, at))
              <= Inside(at) + (IF b \in F!Sources(f) THEN F!People(f, b) ELSE 0)
<1> DEFINE after == F!Apply(f, b, at)
           all == at.audience + at.filtered
           brought == IF b \in F!Sources(f) THEN F!People(f, b) ELSE 0
<1>0. /\ at.audience \in Nat /\ at.filtered \in Nat /\ at.universe \in Nat /\ at.skips \in BOOLEAN
      /\ all \in Nat /\ F!People(f, b) \in Nat /\ Limit \in Nat
      /\ at = [audience |-> at.audience, filtered |-> at.filtered,
               universe |-> at.universe, skips |-> at.skips]
  BY PeopleAreCounted, CanvasAssumption DEF Counts, CanvasAssumption
<1>1. after \in Counts /\ Inside(after) <= Inside(at) + brought
  <2>1. CASE b \in F!Sources(f)
    <3>1. after = [at EXCEPT !.audience = at.audience + F!People(f, b)]
      BY <2>1 DEF F!Apply, F!Sources, F!Of
    <3> HIDE DEF after
    <3> QED BY <1>0, <2>1, <3>1 DEF Counts, Inside
  <2>3. ASSUME b \notin F!Sources(f), f.kind[b] = "filter" PROVE Within(after, at)
    <3> DEFINE fil == IF f.config[b] = "set" THEN F!Round(all * 92, 100) ELSE all
    <3>1. after = [at EXCEPT !.audience = 0, !.filtered = fil]
      BY <2>3 DEF F!Apply
    <3>2. fil \in 0..all
      <4>1. F!Round(all * 92, 100) \in 0..all
        BY <1>0, RoundKeeps
      <4> QED BY <1>0, <4>1
    <3>3. after = [audience |-> 0, filtered |-> fil, universe |-> at.universe, skips |-> at.skips]
      <4> HIDE DEF fil, after
      <4> QED BY <1>0, <3>1
    <3> HIDE DEF fil, after
    <3> QED BY <1>0, <3>2, <3>3, MovesWithin DEF Inside
  <2>4. ASSUME b \notin F!Sources(f), f.kind[b] = "dedupe" PROVE Within(after, at)
    <3> DEFINE fil == F!Round(at.filtered * 96, 100)
    <3>1. after = [at EXCEPT !.audience = 0, !.filtered = fil]
      BY <2>4 DEF F!Apply
    <3>2. fil \in 0..all
      <4>1. fil \in 0..at.filtered
        BY <1>0, RoundKeeps
      <4> HIDE DEF fil
      <4> QED BY <1>0, <4>1
    <3>3. after = [audience |-> 0, filtered |-> fil, universe |-> at.universe, skips |-> at.skips]
      <4> HIDE DEF fil, after
      <4> QED BY <1>0, <3>1
    <3> HIDE DEF fil, after
    <3> QED BY <1>0, <3>2, <3>3, MovesWithin DEF Inside
  <2>5. ASSUME b \notin F!Sources(f), f.kind[b] = "limit" PROVE Within(after, at)
    <3> DEFINE fil == F!Smaller(F!OrElse(at.filtered, at.audience), Limit)
    <3>1. after = [at EXCEPT !.audience = 0, !.filtered = fil]
      BY <2>5 DEF F!Apply
    <3>2. fil \in 0..all
      BY <1>0 DEF F!Smaller, F!OrElse
    <3>3. after = [audience |-> 0, filtered |-> fil, universe |-> at.universe, skips |-> at.skips]
      <4> HIDE DEF fil, after
      <4> QED BY <1>0, <3>1
    <3> HIDE DEF fil, after
    <3> QED BY <1>0, <3>2, <3>3, MovesWithin DEF Inside
  <2>6. ASSUME b \notin F!Sources(f), f.kind[b] = "branch" PROVE Within(after, at)
    <3> DEFINE fil == F!Round(at.filtered * 60, 100)
    <3>1. after = [at EXCEPT !.filtered = fil]
      BY <2>6 DEF F!Apply
    <3>2. fil \in 0..all /\ fil <= at.filtered
      <4>1. fil \in 0..at.filtered
        BY <1>0, RoundKeeps
      <4> HIDE DEF fil
      <4> QED BY <1>0, <4>1
    <3>3. after = [audience |-> at.audience, filtered |-> fil,
                   universe |-> at.universe, skips |-> at.skips]
      <4> HIDE DEF fil, after
      <4> QED BY <1>0, <3>1
    <3> HIDE DEF fil, after
    <3> QED BY <1>0, <3>2, <3>3, MovesWithin DEF Inside
  <2>7. ASSUME b \notin F!Sources(f), f.kind[b] = "channel" PROVE Within(after, at)
    <3> DEFINE fil == F!OrElse(at.filtered, at.audience)
    <3>1. after = [at EXCEPT !.audience = 0, !.skips = TRUE, !.filtered = fil]
      BY <2>7 DEF F!Apply
    <3>2. fil \in 0..all
      BY <1>0 DEF F!OrElse
    <3>3. after = [audience |-> 0, filtered |-> fil, universe |-> at.universe, skips |-> TRUE]
      <4> HIDE DEF fil, after
      <4> QED BY <1>0, <3>1
    <3> HIDE DEF fil, after
    <3> QED BY <1>0, <3>2, <3>3, MovesWithin DEF Inside
  <2>8. ASSUME b \notin F!Sources(f),
               f.kind[b] \notin {"filter", "dedupe", "limit", "branch", "channel"}
        PROVE  Within(after, at)
    <3>1. after = at
      BY <2>8 DEF F!Apply
    <3> HIDE DEF after
    <3> QED BY <1>0, <3>1 DEF Inside, Within
  <2> HIDE DEF after
  <2>9. CASE Within(after, at)
    <3>1. brought \in Nat
      BY <1>0
    <3> HIDE DEF brought
    <3> QED BY <1>0, <2>9, <3>1 DEF Within, Inside, Counts
  <2> QED BY <2>1, <2>3, <2>4, <2>5, <2>6, <2>7, <2>8, <2>9
<1>2. F!Visit(f, b, at) = [after EXCEPT !.universe = F!Larger(after.universe, after.audience)]
  BY DEF F!Visit
<1> HIDE DEF after, brought
<1>3. /\ F!Larger(after.universe, after.audience) \in Nat
  BY <1>1 DEF F!Larger, Counts
<1>4. F!Visit(f, b, at) \in Counts /\ Inside(F!Visit(f, b, at)) = Inside(after)
  BY <1>1, <1>2, <1>3 DEF Counts, Inside
<1> QED BY <1>1, <1>4 DEF brought

\* After the visit, those inside are at most the people of the visited sources: each
\* block is visited once, and the sum grows by its people.
LEMMA SimulationIsBounded ==
  ASSUME NEW f, Numbered(f)
  PROVE  F!Simulate(f).reached \in Nat /\ F!Simulate(f).reached <= F!Supplied(f)
<1> DEFINE order == F!Order(f)
           n == Len(order)
           nobody == [audience |-> 0, filtered |-> 0, universe |-> 0, skips |-> FALSE]
           Visits(r) == r = [i \in 0..n |-> IF i = 0 THEN nobody ELSE F!Visit(f, order[i], r[i - 1])]
           run == CHOOSE r : Visits(r)
           S == F!Visited(f) \cap F!Sources(f)
           weight == [b \in S |-> F!People(f, b)]
           Sums(r) == r = [s \in SUBSET S |-> IF s = {} THEN 0
                             ELSE r[s \ {CHOOSE x \in s : TRUE}] + F!People(f, CHOOSE x \in s : TRUE)]
           sum == CHOOSE r : Sums(r)
           Before(i) == {order[j] : j \in 1..i} \cap S
           P == {i \in 0..n : run[i] \in Counts /\ Inside(run[i]) <= sum[Before(i)]}
<1>1. /\ order \in Seq(F!Blocks) /\ n \in Nat
      /\ \A i, j \in 1..n : order[i] = order[j] => i = j
  BY OrderIsOnce
<1>2. F!Visited(f) = {order[j] : j \in 1..n}
  <2>1. DOMAIN order = 1..n
    <3> HIDE DEF order
    <3> QED BY <1>1
  <2> QED BY <2>1 DEF F!Visited
<1>3. IsFiniteSet(S)
  <2>1. IsFiniteSet(F!Blocks)
    BY BlocksAreFinite
  <2>2. S \in SUBSET F!Blocks
    <3> HIDE DEF order
    <3> QED BY <1>1, <1>2
  <2> HIDE DEF S
  <2> QED BY <2>1, <2>2, FS_Subset
<1>4. weight \in [S -> Nat]
  <2> HIDE DEF S
  <2> QED BY PeopleAreCounted
<1>5. /\ sum[{}] = 0 /\ F!Supplied(f) = sum[S]
      /\ \A u \in SUBSET S : sum[u] \in Nat
      /\ \A u \in SUBSET S : \A b \in S \ u : sum[u \cup {b}] = sum[u] + weight[b]
  <2>1. F!Supplied(f) = sum[S]
    BY DEF F!Supplied, F!FoldSet, F!MapThenFoldSet
  <2> HIDE DEF S
  <2>2. \A s \in SUBSET S : s # {} =>
          F!People(f, CHOOSE x \in s : TRUE) = weight[CHOOSE x \in s : TRUE]
    <3> SUFFICES ASSUME NEW s \in SUBSET S, s # {}
                 PROVE F!People(f, CHOOSE x \in s : TRUE) = weight[CHOOSE x \in s : TRUE]
      OBVIOUS
    <3>1. (CHOOSE x \in s : TRUE) \in S
      BY PickIsIn DEF Pick
    <3> QED BY <3>1
  <2>3. ASSUME NEW r PROVE Sums(r) <=> FoldsTo(r, S, weight)
    <3> HIDE DEF weight
    <3>1. \A s \in SUBSET S :
            (IF s = {} THEN 0 ELSE r[s \ {CHOOSE x \in s : TRUE}] + F!People(f, CHOOSE x \in s : TRUE))
            = (IF s = {} THEN 0 ELSE r[s \ {Pick(s)}] + weight[Pick(s)])
      BY <2>2 DEF Pick
    <3> QED BY <3>1 DEF FoldsTo
  <2>4. Sums(sum)
    <3>1. \E r : FoldsTo(r, S, weight)
      <4> HIDE DEF weight
      <4> QED BY <1>3, FoldExists
    <3> HIDE DEF Sums, weight
    <3> QED BY <2>3, <3>1
  <2>5. FoldsTo(sum, S, weight)
    <3> HIDE DEF Sums, weight, sum
    <3> QED BY <2>3, <2>4
  <2> HIDE DEF sum, weight
  <2> QED BY <1>3, <1>4, <2>1, <2>5, SumGrows
<1>6. \A b, at : at \in Counts => F!Visit(f, b, at) \in Counts
  BY VisitAddsSources
<1>7. nobody \in Counts /\ Inside(nobody) = 0
  BY DEF Counts, Inside
<1> HIDE DEF nobody, order, n, sum, S
<1>8. \E r : Visits(r)
  <2> DEFINE next == [i \in 0..n |-> [at \in Counts |-> F!Visit(f, order[i], at)]]
  <2>1. next \in Steps(n, Counts)
    BY <1>6 DEF Steps
  <2>2. PICK r \in [0..n -> Counts] :
          r[0] = nobody /\ \A i \in 1..n : r[i] = next[i][r[i - 1]]
    <3> HIDE DEF next
    <3>1. Courses(n, Counts, nobody, next) # {}
      BY <1>1, <1>7, <2>1, RunExists
    <3> QED BY <3>1 DEF Courses
  <2>3. \A i \in 1..n : r[i] = F!Visit(f, order[i], r[i - 1])
    <3> SUFFICES ASSUME NEW i \in 1..n PROVE r[i] = F!Visit(f, order[i], r[i - 1])
      OBVIOUS
    <3>1. i - 1 \in 0..n
      BY <1>1
    <3>2. r[i - 1] \in Counts
      BY <2>2, <3>1
    <3>3. next[i][r[i - 1]] = F!Visit(f, order[i], r[i - 1])
      BY <1>1, <3>2
    <3> HIDE DEF next
    <3> QED BY <2>2, <3>3
  <2>4. Visits(r)
    <3> HIDE DEF next
    <3>1. ASSUME NEW i \in 0..n PROVE r[i] = IF i = 0 THEN nobody ELSE F!Visit(f, order[i], r[i - 1])
      <4>1. CASE i = 0
        BY <2>2, <4>1
      <4>2. CASE i # 0
        <5>1. i \in 1..n
          BY <1>1, <4>2
        <5> QED BY <2>3, <4>2, <5>1
      <4> QED BY <4>1, <4>2
    <3> QED BY <2>2, <3>1
  <2> HIDE DEF Visits
  <2> QED BY <2>4
<1>9. Visits(run)
  <2> HIDE DEF Visits
  <2> QED BY <1>8
<1>10. run[0] = nobody /\ \A i \in 0..(n - 1) : run[i + 1] = F!Visit(f, order[i + 1], run[i])
  <2> HIDE DEF run
  <2> QED BY <1>1, <1>9
<1>11. F!Simulate(f).reached = run[n].filtered
  BY DEF F!Simulate, nobody, n, order
<1> HIDE DEF run
<1>12. 0 \in P
  <2>1. Before(0) = {}
    OBVIOUS
  <2> HIDE DEF Before
  <2> QED BY <1>1, <1>5, <1>7, <1>10, <2>1
<1>13. ASSUME NEW i \in 0..(n - 1), i \in P PROVE i + 1 \in P
  <2> DEFINE b == order[i + 1]
  <2>1. /\ run[i] \in Counts /\ Inside(run[i]) <= sum[Before(i)]
        /\ i \in Nat /\ i + 1 \in 1..n /\ i + 1 \in 0..n
    BY <1>1, <1>13
  <2>2. /\ run[i + 1] \in Counts
        /\ Inside(run[i + 1]) <= Inside(run[i]) + (IF b \in F!Sources(f) THEN F!People(f, b) ELSE 0)
    BY <1>10, <2>1, VisitAddsSources
  <2>3. b \notin Before(i) /\ b \in F!Visited(f)
    BY <1>1, <1>2, <2>1
  <2>4. Before(i + 1) = Before(i) \cup ({b} \cap S)
    BY <2>1
  <2>5. Before(i) \in SUBSET S /\ Before(i + 1) \in SUBSET S
    OBVIOUS
  <2>6. Inside(run[i]) \in Nat /\ Inside(run[i + 1]) \in Nat
    BY <2>1, <2>2 DEF Inside, Counts
  <2> HIDE DEF Before, b, weight
  <2>7. sum[Before(i)] \in Nat /\ sum[Before(i + 1)] \in Nat
    BY <1>5, <2>5
  <2>8. Inside(run[i + 1]) <= sum[Before(i + 1)]
    <3>1. CASE b \in F!Sources(f)
      <4>1. b \in S \ Before(i)
        BY <2>3, <3>1 DEF S
      <4>2. weight[b] = F!People(f, b) /\ F!People(f, b) \in Nat
        BY <4>1, PeopleAreCounted DEF weight
      <4>3. Before(i + 1) = Before(i) \cup {b}
        BY <2>4, <4>1
      <4>4. sum[Before(i + 1)] = sum[Before(i)] + weight[b]
        BY <1>5, <2>5, <4>1, <4>3
      <4> QED BY <2>1, <2>2, <2>6, <2>7, <3>1, <4>2, <4>4
    <3>2. CASE b \notin F!Sources(f)
      <4>1. Before(i + 1) = Before(i)
        BY <2>4, <3>2 DEF S
      <4> QED BY <2>1, <2>2, <2>6, <2>7, <3>2, <4>1
    <3> QED BY <3>1, <3>2
  <2> QED BY <2>1, <2>2, <2>8
<1>14. P \in SUBSET (0..n)
  OBVIOUS
<1>15. n \in P
  <2> HIDE DEF P
  <2> QED BY <1>1, <1>12, <1>13, <1>14, CountUp
<1>16. Before(n) = S
  BY <1>2 DEF S
<1>17. /\ run[n].filtered \in Nat /\ run[n].filtered <= Inside(run[n])
       /\ Inside(run[n]) <= sum[S] /\ sum[S] \in Nat /\ Inside(run[n]) \in Nat
  <2>1. S \in SUBSET S
    OBVIOUS
  <2> HIDE DEF Before
  <2> QED BY <1>5, <1>15, <1>16, <2>1 DEF Counts, Inside
<1> QED BY <1>5, <1>11, <1>17

\* What is shown of a sound flow: no message without a person, no stage of the
\* funnel beyond the one before it.
LEMMA NobodyComesFromNowhere == CanvasInv => NobodyIsInvented
<1> SUFFICES ASSUME CanvasInv PROVE F!NobodyIsInvented
  BY DEF NobodyIsInvented
<1> DEFINE s == F!Simulate(flow)
<1>1. Numbered(flow)
  BY DEF CanvasInv, F!TypeOK, Sound, Numbered
<1>2. s.reached \in Nat /\ s.reached <= F!Supplied(flow)
  BY <1>1, SimulationIsBounded
<1>3. /\ s.skipped = F!Round(s.reached * 12, 1000) \/ s.skipped = 0
      /\ s.sent = s.reached - s.skipped
      /\ s.delivered = F!Round(s.sent * 972, 1000) /\ s.failed = s.sent - s.delivered
      /\ s.read = F!Round(s.delivered * 79, 100)
      /\ s.replied = F!Round(s.read * 14, 100) /\ s.converted = F!Round(s.read * 85, 1000)
  <2> DEFINE order == F!Order(flow)
             nobody == [audience |-> 0, filtered |-> 0, universe |-> 0, skips |-> FALSE]
             run == CHOOSE r : r = [i \in 0..Len(order) |->
                      IF i = 0 THEN nobody ELSE F!Visit(flow, order[i], r[i - 1])]
             end == run[Len(order)]
             universe == F!OrElse(end.universe, end.audience + end.filtered)
             skipped == IF end.skips THEN F!Round(end.filtered * 12, 1000) ELSE 0
             sent == end.filtered - skipped
             delivered == F!Round(sent * 972, 1000)
             read == F!Round(delivered * 79, 100)
  <2>1. s = [universe |-> universe, reached |-> end.filtered, skipped |-> skipped, sent |-> sent,
             delivered |-> delivered, failed |-> sent - delivered, read |-> read,
             replied |-> F!Round(read * 14, 100), converted |-> F!Round(read * 85, 1000)]
    BY DEF F!Simulate
  <2> HIDE DEF s, end, universe
  <2>2. skipped = F!Round(end.filtered * 12, 1000) \/ skipped = 0
    OBVIOUS
  <2> HIDE DEF skipped
  <2>3. sent = end.filtered - skipped
    OBVIOUS
  <2> HIDE DEF sent
  <2>4. delivered = F!Round(sent * 972, 1000)
    OBVIOUS
  <2> HIDE DEF delivered
  <2>5. read = F!Round(delivered * 79, 100)
    OBVIOUS
  <2> HIDE DEF read
  <2> QED BY <2>1, <2>2, <2>3, <2>4, <2>5
<1> HIDE DEF s
<1>4. s.skipped \in 0..s.reached /\ s.sent \in Nat
  <2>1. \A n \in Nat : F!Round(n * 12, 1000) \in 0..n
    BY RoundKeeps
  <2>2. s.skipped \in 0..s.reached
    BY <1>2, <1>3, <2>1
  <2> QED BY <1>2, <1>3, <2>2
<1>5. s.delivered \in 0..s.sent
  BY <1>3, <1>4, RoundKeeps
<1>6. s.read \in 0..s.delivered
  BY <1>3, <1>4, <1>5, RoundKeeps
<1>7. s.replied \in 0..s.read /\ s.converted \in 0..s.read
  BY <1>3, <1>4, <1>5, <1>6, RoundKeeps
<1>8. s.skipped + s.sent = s.reached /\ s.delivered + s.failed = s.sent
  BY <1>2, <1>3, <1>4, <1>5
<1> QED BY <1>2, <1>5, <1>6, <1>7, <1>8 DEF F!NobodyIsInvented, s

\* The preview announces no more messages than people its visited sources bring in,
\* and no stage of its funnel is beyond the one before, for any number of blocks,
\* connections, contacts and any limit.
THEOREM PreviewInventsNobody == F!Spec => []NobodyIsInvented
<1> QED  BY InitCanvas, StepCanvas, NobodyComesFromNowhere, PTL DEF F!Spec

-----------------------------------------------------------------------------
(* The editor itself.  A step of EditorNext is one of its document or one of *)
(* its canvas, and leaves the other alone: what holds of each alone holds of *)
(* the two.                                                                  *)

\* Every step of the editor is a step or a stutter of the document, and one of
\* the canvas.
LEMMA EditorSteps ==
  [EditorNext]_<<vars, canvasVars, side>> => [Next]_vars /\ [F!Next]_(F!vars)
BY DEF EditorNext, Document, Canvas, canvasVars, F!vars

\* The editor's document is EditorSync's.
THEOREM EditorHasTheDocument == EditorSpec => Spec
<1>1. EditorInit => Init
  BY DEF EditorInit
<1> QED BY <1>1, EditorSteps, PTL DEF EditorSpec, Spec

\* The editor's canvas is FlowPreview's.
THEOREM EditorHasTheCanvas == EditorSpec => F!Spec
<1>1. EditorInit => F!Init
  BY DEF EditorInit
<1> QED BY <1>1, EditorSteps, PTL DEF EditorSpec, F!Spec

\* What the runs check of the document and of the canvas holds of the editor, and
\* so do the types of both.
THEOREM EditorIsSafe ==
  EditorSpec => [](/\ TypeOK /\ F!TypeOK
                   /\ StatusIsMetas /\ QuietMeansSaved /\ PauseHolds /\ PublishIsNotRefused
                   /\ RefusedOnlyWhenTorn /\ WalksAgree /\ NobodyIsInvented)
<1> QED
  BY EditorHasTheDocument, EditorHasTheCanvas, SyncTypeCorrect, StatusComesFromMeta,
     QuietTabsAreSaved, PausesHold, PublicationsGoThrough, CanvasTypeCorrect, GraphStaysSound,
     LooseBlocksDoNotRun, PreviewInventsNobody, PTL
=============================================================================
