------------------------------ MODULE EditorSync ------------------------------
(***************************************************************************)
(* uhumarketing-frontend: the browser's copy of an account's document and  *)
(* how it reaches uhumarketing-api (lib/storeRemote.tsx, PUT /state).      *)
(* The operator edits a copy; a timer sends the whole document; answers of *)
(* PUTs, polls and commands are merged into a copy that has moved on since *)
(* they were asked.  The server, Meta and the worker change it as well.    *)
(*                                                                         *)
(* A document is what the merge rules tell apart: one template, which the   *)
(* screens create and submit but never rewrite, the segments, the status   *)
(* of the campaign that uses the template, and all the rest.  A version is *)
(* the number of the edit that wrote it, 0 before any.                     *)
(***************************************************************************)
EXTENDS Naturals, FiniteSets

CONSTANTS
  Tabs,
  MaxEdits,     \* bound: edits of the operator, in all tabs
  MaxClicks,    \* bound: pauses, launches, submissions and reloads
  MaxNet,       \* bound: requests in flight
  MaxFaults,    \* bound: requests that fail
  MaxFinishes,  \* bound: times the worker finishes the campaign
  Clicks        \* the buttons the operator may use

Buttons == {"pause", "launch", "publish", "create", "submit", "reload", "channel",
            "settings"}
ASSUME SyncAssumption ==
  /\ MaxEdits \in Nat /\ MaxClicks \in Nat /\ MaxNet \in Nat \ {0}
  /\ MaxFaults \in Nat /\ MaxFinishes \in Nat
  /\ Clicks \subseteq Buttons

Versions == 0..MaxEdits
Texts == {"tpl", "seg", "rest"}     \* what only the operator writes
Fields == Texts \cup {"st"}
CampaignStatus == {"draft", "running", "paused", "finished"}
TemplateStatus == {"none", "draft", "pending", "approved", "rejected"}
Verdicts == {"approved", "rejected"}
Docs == [ts : TemplateStatus, seg : Versions, rest : Versions, st : CampaignStatus]
Kinds == {"put", "poll", "boot", "channel", "launch", "submit", "sync"}
Thens == {"nothing", "launch", "create", "submit", "saved"}
Stages == {"sent", "read", "atMeta", "answered", "refused"}
Requests == [tab : Tabs, kind : Kinds, doc : Docs,
             then : Thens, stage : Stages]
Content(doc, f) == IF f = "tpl" THEN doc.ts # "none" ELSE doc[f]

VARIABLES
  (* uhumarketing-api and Meta *)
  srv,       \* the rows of the account
  known,     \* the template's row carries Meta's id (templates.external_id)
  verdict,   \* what Meta decided about the template
  hooks,     \* decisions whose webhook is still to come
  (* each browser tab *)
  view,      \* the React state
  ref,       \* docRef: the last rendered state, what flush sends
  dirty, timer, status,
  asap,      \* flushNow's setTimeout(0): what is done after its flush
  (* requests in flight; doc is what was sent, then what is answered *)
  net,
  (* bounds and history *)
  edits, clicks, faults, finishes,
  raced,     \* raced[t]: fields that an answer, a PUT in flight or another tab ran
             \* into, or whose failed save an answer declared saved
  pauser     \* the tab that paused the campaign last, unless it was launched since

server == <<srv, known, verdict, hooks>>
tabs == <<view, ref, dirty, timer, status, asap>>
bounds == <<edits, clicks, faults, finishes>>
history == <<raced, pauser>>
vars == <<server, tabs, net, bounds, history>>

NewAccount == [ts |-> "none", seg |-> 0, rest |-> 0, st |-> "draft"]
TypeOK ==
  /\ srv \in Docs /\ known \in BOOLEAN /\ hooks \subseteq Verdicts
  /\ verdict \in {"none", "pending"} \cup Verdicts
  /\ view \in [Tabs -> Docs] /\ ref \in [Tabs -> Docs]
  /\ dirty \in [Tabs -> BOOLEAN] /\ timer \in [Tabs -> BOOLEAN]
  /\ status \in [Tabs -> {"saving", "saved", "error"}]
  /\ asap \in [Tabs -> Thens]
  /\ net \subseteq Requests
  /\ edits \in Versions /\ clicks \in 0..MaxClicks
  /\ faults \in 0..MaxFaults /\ finishes \in 0..MaxFinishes
  /\ raced \in [Tabs -> SUBSET Fields] /\ pauser \subseteq Tabs

\* Bootstrap answered: an account without the template, with its draft, or with
\* it approved long ago; the campaign may run only in the last case.
Init ==
  /\ \E t \in {"none", "draft", "approved"}, c \in {"draft", "running"} :
       /\ c = "running" => t = "approved"
       /\ srv = [NewAccount EXCEPT !.ts = t, !.st = c]
       /\ known = (t = "approved")
       /\ verdict = IF known THEN t ELSE "none"
  /\ hooks = {}
  /\ view = [t \in Tabs |-> srv] /\ ref = [t \in Tabs |-> srv]
  /\ dirty = [t \in Tabs |-> FALSE] /\ timer = [t \in Tabs |-> FALSE]
  /\ status = [t \in Tabs |-> "saved"] /\ asap = [t \in Tabs |-> "nothing"]
  /\ net = {}
  /\ edits = 0 /\ clicks = 0 /\ faults = 0 /\ finishes = 0
  /\ raced = [t \in Tabs |-> {}] /\ pauser = {}
-------------------------------------------------------------------------------
(* Requests.                                                               *)

\* Only a PUT carries anything; two PUTs alike count as one.
Request(t, kind) ==
  [tab |-> t, kind |-> kind, doc |-> NewAccount, then |-> "nothing", stage |-> "sent"]
Put(t, doc, then) == [Request(t, "put") EXCEPT !.doc = doc, !.then = then]
Send(r) == Cardinality(net) < MaxNet /\ net' = net \cup {r}
Becomes(r, stage, doc) ==
  net' = (net \ {r}) \cup {[r EXCEPT !.stage = stage, !.doc = doc]}
InFlight(t, kinds) == {r \in net : r.tab = t /\ r.kind \in kinds}

\* History: what the answer to a request overwrites in the view.
Overwrites(kind) ==
  CASE kind \in {"put", "poll"}    -> {"seg", "st"}
    [] kind \in {"boot", "channel"} -> Fields
    [] kind \in {"submit", "sync"} -> {}
    [] kind = "launch"             -> {"st"}
RunsInto(t, fields) ==
  {f \in fields : \E r \in InFlight(t, Kinds) : f \in Overwrites(r.kind)}

\* What has not reached the server as far as the tab knows.
Unsaved(t) ==
  \/ dirty[t] \/ timer[t] \/ asap[t] # "nothing" \/ status[t] = "error"
  \/ InFlight(t, {"put"}) # {}

-------------------------------------------------------------------------------
(* The operator.  A click's state is rendered, and docRef follows it,      *)
(* before any later task of the tab, so the handler is one action.  No     *)
(* click fits in between a handler and its setTimeout(0).                  *)

Shows(t, doc) == /\ view' = [view EXCEPT ![t] = doc]
                 /\ ref' = [ref EXCEPT ![t] = doc]

\* schedule(): every setter of the store ends here.
Schedule(t) == /\ dirty' = [dirty EXCEPT ![t] = TRUE]
               /\ timer' = [timer EXCEPT ![t] = TRUE]

\* One field of the document.
Edit(t, f) ==
  /\ asap[t] = "nothing"
  /\ edits' = edits + 1
  /\ Shows(t, [view[t] EXCEPT ![f] = edits'])
  /\ Schedule(t)
  /\ raced' = [raced EXCEPT ![t] = @ \cup RunsInto(t, {f})]
  /\ UNCHANGED <<server, status, asap, net, clicks, faults, finishes, pauser>>

\* createSegment, updateSegment.
EditSegments(t) == edits < MaxEdits /\ Edit(t, "seg")

\* The campaigns' other fields, the flows, their blocks and connections.
EditRest(t) == edits < MaxEdits /\ Edit(t, "rest")

Click(t, b) ==
  /\ b \in Clicks /\ asap[t] = "nothing"
  /\ clicks < MaxClicks /\ clicks' = clicks + 1

\* Fault variant: a status the server does not know.
Pause_UnknownStatus(t) ==
  /\ Click(t, "pause")
  /\ view[t].st = "running"
  /\ Shows(t, [view[t] EXCEPT !.st = "stopped"])
  /\ Schedule(t)
  /\ raced' = [raced EXCEPT ![t] = @ \cup RunsInto(t, {"st"})]
  /\ pauser' = {t}
  /\ UNCHANGED <<server, status, asap, net, edits, faults, finishes>>

\* "Pausar" in the campaign's drawer.
Pause(t) ==
  /\ Click(t, "pause")
  /\ view[t].st = "running"
  /\ Shows(t, [view[t] EXCEPT !.st = "paused"])
  /\ Schedule(t)
  /\ raced' = [raced EXCEPT ![t] = @ \cup RunsInto(t, {"st"})]
  /\ pauser' = {t}
  /\ UNCHANGED <<server, status, asap, net, edits, faults, finishes>>

\* "Disparar": the request goes out without a save before it.
Launch(t) ==
  /\ Click(t, "launch")
  /\ view[t].st # "running"
  /\ Send(Request(t, "launch"))
  /\ pauser' = {}
  /\ UNCHANGED <<server, tabs, edits, faults, finishes, raced>>

\* Fault variant: what the click sets is rendered only later, as when flushNow
\* had no setTimeout(0).
Publish_NotRendered(t) ==
  /\ "publish" \in Clicks /\ asap[t] = "nothing" /\ view[t].ts = "approved"
  /\ edits < MaxEdits /\ edits' = edits + 1
  /\ view' = [view EXCEPT ![t].rest = edits', ![t].st = "running"]
  /\ dirty' = [dirty EXCEPT ![t] = TRUE]
  /\ timer' = [timer EXCEPT ![t] = FALSE]
  /\ asap' = [asap EXCEPT ![t] = "launch"]
  /\ raced' = [raced EXCEPT ![t] = @ \cup RunsInto(t, {"rest", "st"})]
  /\ pauser' = {}
  /\ UNCHANGED <<server, ref, status, net, clicks, faults, finishes>>

\* publish() of the flow editor, when validateFlow finds the template approved:
\* both setters, then saveNow(), whose clearTimeout takes back their timer.
Publish(t) ==
  /\ "publish" \in Clicks /\ asap[t] = "nothing" /\ view[t].ts = "approved"
  /\ edits < MaxEdits /\ edits' = edits + 1
  /\ Shows(t, [view[t] EXCEPT !.rest = edits', !.st = "running"])
  /\ dirty' = [dirty EXCEPT ![t] = TRUE]
  /\ timer' = [timer EXCEPT ![t] = FALSE]
  /\ asap' = [asap EXCEPT ![t] = "launch"]
  /\ raced' = [raced EXCEPT ![t] = @ \cup RunsInto(t, {"rest", "st"})]
  /\ pauser' = {}
  /\ UNCHANGED <<server, status, net, clicks, faults, finishes>>

\* "Salvar rascunho" of the template editor.
CreateDraft(t) ==
  /\ Click(t, "create")
  /\ view[t].ts = "none"
  /\ Shows(t, [view[t] EXCEPT !.ts = "draft"])
  /\ Schedule(t)
  /\ raced' = [raced EXCEPT ![t] = @ \cup RunsInto(t, {"tpl"})]
  /\ UNCHANGED <<server, status, asap, net, edits, faults, finishes, pauser>>

\* "Enviar para analise": createTemplate with the status pending schedules a
\* save, whose timer flushNow takes back, and submits after it.
CreateAndSubmit(t) ==
  /\ Click(t, "create")
  /\ view[t].ts = "none"
  /\ Shows(t, [view[t] EXCEPT !.ts = "pending"])
  /\ dirty' = [dirty EXCEPT ![t] = TRUE]
  /\ timer' = [timer EXCEPT ![t] = FALSE]
  /\ asap' = [asap EXCEPT ![t] = "create"]
  /\ raced' = [raced EXCEPT ![t] = @ \cup RunsInto(t, {"tpl"})]
  /\ UNCHANGED <<server, status, net, edits, faults, finishes, pauser>>

OffersSubmit(t) == view[t].ts \in {"draft", "rejected"}

\* submitTemplate: saveNow() and then the POST.  The button is disabled until
\* the answer, but the drawer may be closed and opened again.
Submit(t) ==
  /\ Click(t, "submit")
  /\ OffersSubmit(t)
  /\ timer' = [timer EXCEPT ![t] = FALSE]
  /\ asap' = [asap EXCEPT ![t] = "submit"]
  /\ UNCHANGED <<server, view, ref, dirty, status, net, edits, faults, finishes, history>>

\* Asking for something whose answer replaces fields of the view.
AskAfterEdits(t, kind) ==
  raced' = [raced EXCEPT ![t] = @ \cup (IF Unsaved(t) THEN Overwrites(kind) ELSE {})]

OffersSync(t) == view[t].ts = "pending"

\* syncTemplate, for a template under review: Meta answers the same until it
\* decides, so the operator may ask as often as they like.
Sync(t) ==
  /\ asap[t] = "nothing"
  /\ OffersSync(t)
  /\ Send(Request(t, "sync"))
  /\ UNCHANGED <<server, tabs, bounds, history>>

\* A new bootstrap: retry, and the end of an import or of a test send.  The one
\* before it is no longer listened to.
Reload(t) ==
  /\ Click(t, "reload")
  /\ Cardinality(net \ InFlight(t, {"boot"})) < MaxNet
  /\ net' = (net \ InFlight(t, {"boot"})) \cup {Request(t, "boot")}
  /\ AskAfterEdits(t, "boot")
  /\ UNCHANGED <<server, tabs, edits, faults, finishes, pauser>>

\* activateChannel, deactivateChannel: when the server has done it, a bootstrap
\* that is applied without a word on the status.
ChangeChannel(t) ==
  /\ Click(t, "channel")
  /\ Send(Request(t, "channel"))
  /\ AskAfterEdits(t, "channel")
  /\ UNCHANGED <<server, tabs, edits, faults, finishes, pauser>>

-------------------------------------------------------------------------------
(* The tab's own tasks.                                                    *)

\* The effect that keeps docRef, when what rendered was an answer.
Render(t) ==
  /\ ref[t] # view[t]
  /\ ref' = [ref EXCEPT ![t] = view[t]]
  /\ UNCHANGED <<server, view, dirty, timer, status, asap, net, bounds, history>>

\* flush() up to its await.
Flush(t, doc, then) ==
  /\ Send(Put(t, doc, then))
  /\ status' = [status EXCEPT ![t] = "saving"]
  /\ raced' = [raced EXCEPT ![t] = IF InFlight(t, {"put"}) = {} THEN @ ELSE Fields]

\* updateWorkspace: no timer; the PUT leaves from the handler itself.
SaveSettings(t) ==
  /\ "settings" \in Clicks /\ asap[t] = "nothing"
  /\ edits < MaxEdits /\ edits' = edits + 1
  /\ view' = [view EXCEPT ![t].rest = edits']
  /\ ref' = [ref EXCEPT ![t].rest = edits']
  /\ Send(Put(t, ref'[t], "nothing"))
  /\ status' = [status EXCEPT ![t] = "saving"]
  /\ raced' = [raced EXCEPT ![t] =
                 @ \cup RunsInto(t, {"rest"})
                   \cup (IF InFlight(t, {"put"}) = {} THEN {} ELSE Fields)]
  /\ UNCHANGED <<server, dirty, timer, asap, clicks, faults, finishes, pauser>>

TimerFires(t) ==
  /\ timer[t]
  /\ timer' = [timer EXCEPT ![t] = FALSE]
  /\ Flush(t, ref[t], "nothing")
  /\ UNCHANGED <<server, view, ref, dirty, asap, bounds, pauser>>

AsapFires(t) ==
  /\ asap[t] # "nothing"
  /\ asap' = [asap EXCEPT ![t] = "nothing"]
  /\ Flush(t, ref[t], asap[t])
  /\ UNCHANGED <<server, view, ref, dirty, timer, bounds, pauser>>

\* Fault variant: the interval asks while something is unsaved.
Poll_WhileDirty(t) ==
  /\ Send(Request(t, "poll"))
  /\ raced' = [raced EXCEPT ![t] =
       @ \cup (IF ~dirty[t] /\ Unsaved(t) THEN Overwrites("poll") ELSE {})]
  /\ UNCHANGED <<server, tabs, bounds, pauser>>

\* The interval of 5 s; it does not ask while something is unsaved.
Poll(t) ==
  /\ ~dirty[t]
  /\ Send(Request(t, "poll"))
  /\ raced' = [raced EXCEPT ![t] =
       @ \cup (IF ~dirty[t] /\ Unsaved(t) THEN Overwrites("poll") ELSE {})]
  /\ UNCHANGED <<server, tabs, bounds, pauser>>

-------------------------------------------------------------------------------
(* uhumarketing-api.                                                       *)

\* Fault variant: the operator's document decides the template's status.
PutRead_TakesStatus(r) ==
  /\ r.kind = "put" /\ r.stage = "sent"
  /\ Becomes(r, "read", r.doc)
  /\ UNCHANGED <<server, tabs, bounds, history>>

\* replaceTemplates reads the rows, without a lock, before it writes them: the
\* status to write is decided here, whatever status the document carries.
PutRead(r) ==
  /\ r.kind = "put" /\ r.stage = "sent"
  /\ Becomes(r, "read", [r.doc EXCEPT !.ts =
       IF @ = "none" THEN "none" ELSE IF srv.ts = "none" THEN "draft" ELSE srv.ts])
  /\ UNCHANGED <<server, tabs, bounds, history>>

\* The upserts, the removal of what the document lacks and the commit; the
\* answer is a new bootstrap.
PutWrite(r) ==
  /\ r.kind = "put" /\ r.stage = "read"
  /\ srv' = r.doc
  /\ known' = (known /\ r.doc.ts # "none")
  /\ Becomes(r, "answered", srv')
  /\ raced' = [t \in Tabs |-> IF t = r.tab THEN raced[t] ELSE Fields]
  /\ UNCHANGED <<verdict, hooks, tabs, bounds, pauser>>

\* GET /bootstrap.
Bootstrap(r) ==
  /\ r.kind \in {"poll", "boot", "channel"} /\ r.stage = "sent"
  /\ Becomes(r, "answered", srv)
  /\ UNCHANGED <<server, tabs, bounds, history>>

Refuse(r) == Becomes(r, "refused", NewAccount)

\* Service.Launch: the template first, then the human approval.
HandleLaunch(r) ==
  /\ r.kind = "launch" /\ r.stage = "sent"
  /\ IF srv.ts # "approved"
       THEN net' = net \ {r} /\ UNCHANGED <<srv, raced>>
       ELSE IF srv.st = "draft"
              THEN Refuse(r) /\ UNCHANGED <<srv, raced>>
              ELSE /\ Becomes(r, "answered", r.doc)
                   /\ srv' = [srv EXCEPT !.st = "running"]
                   /\ raced' = [t \in Tabs |->
                                  IF t = r.tab THEN raced[t] ELSE raced[t] \cup {"st"}]
  /\ UNCHANGED <<known, verdict, hooks, tabs, bounds, pauser>>

\* POST /templates/{id}/submit reads the template and sends it to Meta, which
\* does not take back an approval.
SubmitToMeta(r) ==
  /\ r.kind = "submit" /\ r.stage = "sent"
  /\ IF srv.ts = "none"
       THEN Refuse(r) /\ UNCHANGED verdict
       ELSE /\ verdict' = IF verdict = "approved" THEN verdict ELSE "pending"
            /\ Becomes(r, "atMeta", srv)
  /\ UNCHANGED <<srv, known, hooks, tabs, bounds, history>>

\* MarkTemplateSubmitted, with the status Meta answered: under review, or at
\* once approved (the provider's dry run).
MarkSubmitted(r, s) ==
  /\ r.kind = "submit" /\ r.stage = "atMeta"
  /\ s \in {"pending", "approved"}
  /\ s = "approved" => verdict # "rejected"
  /\ IF srv.ts = "none"
       THEN Refuse(r) /\ UNCHANGED <<srv, known, verdict>>
       ELSE /\ srv' = [srv EXCEPT !.ts = s]
            /\ known' = TRUE
            /\ verdict' = IF s = "approved" THEN s ELSE verdict
            /\ Becomes(r, "answered", srv')
  /\ UNCHANGED <<hooks, tabs, bounds, history>>

\* SyncTemplateStatus asks Meta about the external id.
HandleSync(r) ==
  /\ r.kind = "sync" /\ r.stage = "sent"
  /\ IF known
       THEN srv' = [srv EXCEPT !.ts = verdict] /\ Becomes(r, "answered", srv')
       ELSE Refuse(r) /\ UNCHANGED srv
  /\ UNCHANGED <<known, verdict, hooks, tabs, bounds, history>>

\* Meta decides; its webhook comes some time later, once.
Review(d) ==
  /\ verdict = "pending"
  /\ verdict' = d
  /\ hooks' = hooks \cup {d}
  /\ UNCHANGED <<srv, known, tabs, net, bounds, history>>

\* applyTemplateStatus: the row that carries the external id, if there is one.
Webhook(d) ==
  /\ d \in hooks
  /\ hooks' = hooks \ {d}
  /\ srv' = IF known THEN [srv EXCEPT !.ts = d] ELSE srv
  /\ UNCHANGED <<known, verdict, tabs, net, bounds, history>>

\* The worker: the queue of the campaign is empty.
Finish ==
  /\ srv.st = "running" /\ finishes < MaxFinishes
  /\ srv' = [srv EXCEPT !.st = "finished"] /\ finishes' = finishes + 1
  /\ UNCHANGED <<known, verdict, hooks, tabs, net, edits, clicks, faults, history>>

-------------------------------------------------------------------------------
(* The answers, back in the tab.                                           *)

\* mergeServerFields: the status, for the templates both sides have.
TemplateStatusOf(local, answer) ==
  IF local.ts = "none" \/ answer.ts = "none" THEN local.ts ELSE answer.ts

\* Fault variant: the campaigns and flows of the answer are adopted as well.
Merge_AdoptsAll(local, answer) == [answer EXCEPT !.ts = TemplateStatusOf(local, answer)]

\* What the answer of a PUT or a poll changes: mergeServerFields,
\* mergeCampaignMetrics and setSegments.
Merge(local, answer) == [local EXCEPT !.ts = TemplateStatusOf(local, answer),
                                      !.st = answer.st, !.seg = answer.seg]

\* flush() never throws: what awaited it goes on after a failed PUT as well.
Continue(r, then) ==
  net' = (net \ {r}) \cup
    CASE r.then = "launch" -> {[Request(r.tab, "launch") EXCEPT !.then = then]}
      [] r.then \in {"create", "submit"} -> {[Request(r.tab, "submit") EXCEPT !.then = r.then]}
      [] OTHER -> {}
AskedWhileUnsaved(r, error) ==
  IF r.then = "launch" /\ (error \/ timer[r.tab] \/ asap[r.tab] # "nothing")
    THEN Overwrites("launch") ELSE {}

PutAnswered(r) ==
  /\ r.kind = "put" /\ r.stage = "answered"
  /\ view' = [view EXCEPT ![r.tab] = Merge(@, r.doc)]
  /\ status' = [status EXCEPT ![r.tab] = "saved"]
  /\ dirty' = [dirty EXCEPT ![r.tab] = FALSE]
  /\ Continue(r, "saved")
  /\ raced' = [raced EXCEPT ![r.tab] = @ \cup AskedWhileUnsaved(r, FALSE)]
  /\ UNCHANGED <<server, ref, timer, asap, bounds, pauser>>

\* The request is lost or refused, or its answer is lost.
PutFailed(r) ==
  /\ r.kind = "put" /\ faults < MaxFaults /\ faults' = faults + 1
  /\ status' = [status EXCEPT ![r.tab] = "error"]
  /\ Continue(r, "nothing")
  /\ raced' = [raced EXCEPT ![r.tab] = @ \cup AskedWhileUnsaved(r, TRUE)]
  /\ UNCHANGED <<server, view, ref, dirty, timer, asap, edits, clicks, finishes, pauser>>

\* What the answer to any other request does to the view.
Shown(r) ==
  LET local == view[r.tab] IN
  CASE r.kind = "poll"                -> Merge(local, r.doc)
    [] r.kind \in {"boot", "channel"} -> r.doc
    [] r.kind = "launch"              -> [local EXCEPT !.st = "running"]
    [] r.kind \in {"submit", "sync"}  -> [local EXCEPT !.ts = TemplateStatusOf(local, r.doc)]

Answered(r) ==
  /\ r.kind # "put" /\ r.stage = "answered"
  /\ view' = [view EXCEPT ![r.tab] = Shown(r)]
  /\ status' = [status EXCEPT ![r.tab] =
                   IF r.kind = "boot" \/ r.then = "create" THEN "saved" ELSE @]
  /\ net' = net \ {r}
  /\ raced' = [raced EXCEPT ![r.tab] =
                 @ \cup (IF r.then = "create" /\ status[r.tab] = "error" THEN Fields ELSE {})]
  /\ UNCHANGED <<server, ref, dirty, timer, asap, bounds, pauser>>

\* A message on the screen, or nothing at all; createTemplate tells the store.
TellsError(r) ==
  /\ status' = [status EXCEPT ![r.tab] = IF r.then = "create" THEN "error" ELSE @]
  /\ net' = net \ {r}
  /\ UNCHANGED <<server, view, ref, dirty, timer, asap, edits, clicks, finishes, history>>

Refused(r) == r.stage = "refused" /\ TellsError(r) /\ UNCHANGED faults

Failed(r) ==
  /\ r.kind # "put" /\ r.stage # "refused"
  /\ faults < MaxFaults /\ faults' = faults + 1
  /\ TellsError(r)

-------------------------------------------------------------------------------
Uses(t) ==
  \/ EditSegments(t) \/ EditRest(t) \/ CreateDraft(t) \/ CreateAndSubmit(t)
  \/ Submit(t) \/ Sync(t) \/ Pause(t) \/ Launch(t) \/ Publish(t)
  \/ Reload(t) \/ ChangeChannel(t) \/ SaveSettings(t)
Runs(t) == Render(t) \/ TimerFires(t) \/ AsapFires(t) \/ Poll(t)
Handles(r) ==
  \/ PutRead(r) \/ PutWrite(r) \/ Bootstrap(r) \/ HandleLaunch(r)
  \/ SubmitToMeta(r) \/ HandleSync(r)
  \/ \E s \in {"pending", "approved"} : MarkSubmitted(r, s)
Returns(r) == PutAnswered(r) \/ Answered(r) \/ Refused(r)
Fails(r) == PutFailed(r) \/ Failed(r)

Next ==
  \/ \E t \in Tabs : Uses(t) \/ Runs(t)
  \/ \E r \in net : Handles(r) \/ Returns(r) \/ Fails(r)
  \/ \E d \in Verdicts : Review(d) \/ Webhook(d)
  \/ Finish

Spec == Init /\ [][Next]_vars

-------------------------------------------------------------------------------
(* Properties.                                                             *)

\* When a tab rests (no timer, no PUT under way, no error on the screen), what
\* the operator wrote in it is what the server has -- unless an answer asked for
\* before the edit overwrote it, two PUTs overlapped, or an answer hid the
\* error. The docRef and the merge of flush() are there for this: adopting an
\* answer must not swallow an edit made while the PUT was under way.
QuietMeansSaved ==
  \A t \in Tabs : Unsaved(t) \/
    \A f \in Texts \ raced[t] : Content(view[t], f) = Content(srv, f)

\* A campaign that the operator paused does not go back to running by itself:
\* once the tab rests, the server has it paused (or the worker had finished it),
\* unless an answer asked for before the click came in after it, or another tab
\* wrote the campaign meanwhile.  The interval's test of dirty is there for this.
PauseHolds ==
  \A t \in pauser : Unsaved(t) \/ "st" \in raced[t] \/ srv.st \in {"paused", "finished"}

\* Publishing saves first and launches after: when its PUT succeeded, the launch
\* is not refused for the campaign being a draft.  The setTimeout(0) of flushNow
\* is there for this.
PublishIsNotRefused ==
  \A r \in net : (r.kind = "launch" /\ r.then = "saved" /\ "st" \notin raced[r.tab]) =>
    r.stage # "refused"

\* The status of a template belongs to the server (state.go:18): whatever the
\* browsers send, a template is under review or decided only after it went to
\* Meta, and approved only when Meta approved it.
StatusIsMetas ==
  /\ srv.ts \in {"pending"} \cup Verdicts => verdict # "none"
  /\ srv.ts = "approved" => verdict = "approved"

\* "template cujo conteudo nao mudou mantem status ... senao um salvamento de
\* outra tela apagaria a aprovacao da Meta" (state.go:34): saving the document
\* does not take a template back from approved to under review.
ApprovalIsKept == [][srv.ts = "approved" => srv'.ts # "pending"]_vars
=============================================================================
