# Formal models of gio-random-projects

TLA+ models of the concurrent and failure-prone parts of this monorepo, checked
with TLC; the safety that the runs check is also proved with TLAPS. Paths are relative
to the root of the repository (`src/` in `PROJECT.json`). Every model definition
has the lines it stands for in the `map` of `PROJECT.json`.

1. [Inventory](#1-inventory)
2. [How the parts interact](#2-how-the-parts-interact)
3. [Modules and the code they model](#3-modules-and-the-code-they-model)
4. [Runs, bounds and what they show](#4-runs-bounds-and-what-they-show)
5. [Fairness](#5-fairness)
6. [Proofs](#6-proofs)
7. [What the code says of itself and does not do](#7-what-the-code-says-of-itself-and-does-not-do)
8. [What is not modelled](#8-what-is-not-modelled)
9. [Plan](#9-plan)
10. [Running it](#10-running-it)

## 1. Inventory

The repository holds three products that share nothing but their infrastructure:
a finance system (event-driven, Go and Python), shared meeting rooms (`tela`, Go
and React over MediaMTX), and WhatsApp marketing campaigns (`uhumarketing`, Go and
React).

### Finance: the command write path
`apps/domain-api` (commands), RabbitMQ, `apps/domain-worker`
(`main.go`, `application/outbox`, `infrastructure/amqp`).

- **State**: the queue `domain.commands`; the client library's buffer of
  deliveries (autoAck); the tables `outbox` and `audit_log`; the exchange
  `domain.events`; in domain-api, the open HTTP requests.
- **Operations**: `POST /commands` publishes and answers 202; `POST /sync`
  publishes and polls `audit_log` until 200, 422 or 504; `Publisher.Publish`
  retries once on a new channel; the worker's loop takes a command, handles it,
  enqueues its events as pending rows, publishes and marks each, writes one audit
  row; `Relay.Run` drains the pending rows, oldest first.
- **Hard**: broker outages and reconnection, a restart at any point (`main`
  returns on a signal without waiting for the loop), the loop and the relay
  publishing the same rows, database errors in each of the four writes, no
  publisher confirms.
- **Correct if**: a command takes effect at most once; an event is durable before
  anyone sees it; 200 means that write and events are durable; 500 means that
  nothing will happen; the outbox drains.

### Finance: the ledger
`domain-worker/internal/application/finance`, `.../domain/finance`,
`.../postgres/finance_repository.go`.

- **State**: transactions, transfers, accounts, budgets with their fired
  thresholds, category rules, in Postgres.
- **Operations**: register, edit, remove, categorise, transfer, set a budget,
  re-evaluate thresholds after each write (`RecordThreshold` fires each of them
  once).
- **Hard**: the upsert of a redelivered or re-synced transaction against the
  user's own edits; a threshold recorded as fired before its alert is durable;
  `ParseMoney` and the rounding of thresholds near the limits of int64.
- **Correct if**: a transaction counts once whatever is redelivered; a user's edit
  survives a re-sync; each threshold alerts exactly once.

### Finance: reads, rate limiter, finance-api, contracts
domain-api's queries, its token bucket (`ratelimiter.go`); `apps/finance-api`
validates and relays; `packages/finance-contracts` is shapes of messages.
State: the buckets; sessions. Correct if a bucket never exceeds its burst and
refills.

### Finance: the WhatsApp worker
`apps/finance-customersupport-worker`.

- **State**: three in-memory sets (messages seen, events seen, own commands);
  copies of messages and events in two RabbitMQ queues.
- **Operations**: take a message, submit a command or query, reply, acknowledge;
  take an event, drop it as an echo or a repetition, notify, acknowledge.
- **Hard**: two consumers interleave at every `await`; redelivery after a kill
  loses the memory; the HTTP timeout fires on a command that was accepted; sends
  that fail; either loop's exception ends both.
- **Correct if**: at most one command and one notice per lifetime of the process;
  every message is answered; an alert is never mistaken for an echo.

### Finance: the Open Finance connector
`apps/finance-openfinance-worker`: a poll loop and a webhook thread over one
`Syncer`.

- **State**: cursor and accounts already seen, in memory only; what a pass has read
  and not yet submitted.
- **Operations**: a pass over an account (fetch from the cursor or the whole
  backfill, submit each transaction, mark the account as seen, move the cursor).
- **Hard**: the cursor moves whether or not the submits worked (`runner.py:164`); the
  poll loop does not take the lock of the webhook's thread (`main.py:85`); a restart
  makes everything "historical" (`runner.py:143`); the user corrects the rows that the
  next statement registers again.
- **Correct if**: every transaction is imported or known to be missed; what the bank
  already had is not announced; a correction survives the next import.

### Meeting rooms: presence, shares, stage
`apps/tela-api/internal/rooms/peer.go`, `httpapi/ws.go`, `mediamtx`, and
`tela-frontend/src/lib/useRoom.ts`.

- **State**: the peers of a room, each with its flag `publishing`, its target in
  MediaMTX and its buffer of messages; the stage (`spotlight`); MediaMTX's
  sessions; in each browser, the roster and the stage it shows.
- **Operations**: connect, resume under the old identity, offer, stop, choose the
  stage, disconnect; each announces itself to the others.
- **Hard**: one goroutine per socket, and the mutex is released between every
  change, the call to MediaMTX that goes with it and the announcement; an old
  socket ends after its browser came back; buffers fill.
- **Correct if**: flag, target and session agree at rest; no session is left
  behind; every browser ends up with the right roster and stage.

### Meeting rooms: the browser's own and other people's shares
`tela-frontend/src/lib/useRoom.ts`, `screenPublisher.ts`, `screenViewer.ts`,
`pages/Room.tsx`.

- **State**: the capture and its publisher (`localStreamRef`, `publisherRef`,
  `pendingPublishRef`, `startingRef`, `retriedRef`); per person, a viewer and a pending
  offer (`viewersRef`, `pendingSubscribeRef`) and the stream of the tile.
- **Operations**: share, change source, stop, leave; publish and retry; republish after
  a broken connection or a new socket; subscribe, retry, drop.
- **Hard**: publishers and viewers stand at one of four awaits (the picker, the ICE
  servers, the candidates, the answer) while clicks and messages go on; refs are
  found by person and may belong to a successor; errors name no offer.
- **Correct if**: nothing is captured that cannot be stopped; a tile plays an open
  connection; one publisher, and one viewer for each person; what ended can start again.

### Meeting rooms: the registry and its reaper
`apps/tela-api/internal/rooms/rooms.go`, `idle.go`, `store.go`, `httpapi/server.go`.

- **State**: the rooms, each with the stamps of its creation, of its last departure and
  of its last change of shares, and the deadline once it is closing; the file that the
  next process loads, and its temporary copy; the countdown on each screen.
- **Operations**: create, delete, connect and leave, share and stop, keep alive; the
  janitor drops empty and old rooms, the reaper warns idle ones and then closes them;
  `persist` copies the set, writes it and renames the file; `Load`.
- **Hard**: nothing covers the three steps of a write, which two handlers may make at
  once on one temporary file (`store.go:81-115`); warnings are told after the lock, beside
  welcomes and keep-alives; a deleted room still has its peers (`rooms.go:199`); a
  departure does not stamp the idle clock (`peer.go:159`).
- **Correct if**: a room whose creation was answered survives every restart; a deleted one
  does not come back; no room closes on people who did not see the countdown; every
  room ends.

### Meeting rooms: knocking
`rooms/knock.go`, `httpapi/server.go`, `ws.go`; `pages/Room.tsx` (`EntryGate`, `KnockLobby`,
the banners) and `lib/useRoom.ts`.

- **State**: the requests of a room, each with its status, its token and two stamps; the
  banners on each screen; the lobby with what its polls were told.
- **Operations**: ask, poll, give up; answer from inside; enter with a password or a token.
- **Hard**: two people answer at once; requests are announced beside welcomes that carry
  older lists; unanswered and answered requests expire by different clocks; a poll fails,
  or finds nothing.
- **Correct if**: who waits is on every screen and who was answered on none; the first
  answer counts; a refusal is true.

### Meeting rooms: federation, TURN, clips
`cluster`, `turn`, `clips`. State: cached owners of rooms, relayed sockets, stored clips.

### Campaigns: dispatch
`apps/uhumarketing-api/internal/dispatch`, `store/store.go`,
`httpapi/service.go`, `handlers.go`.

- **State**: tables `campaigns` (status), `sends` (one row per campaign and
  contact: status, attempts, is_test, external_id), `contacts` (opt-in).
- **Operations**: launch, test, pause, resume, save; the worker's tick (claim
  tests, choose a campaign, claim a batch, send, mark, finish the drained ones);
  Meta's webhooks (status, reply, opt-out).
- **Hard**: each statement commits alone, so every pair of them interleaves; the
  call to Meta has no memory of what it was asked; statuses arrive out of order,
  repeated and at once; the process ends between a send and its mark.
- **Correct if**: a contact gets a campaign once; a status never goes back; a
  finished campaign has no queue; the queue drains whatever fails.

### Campaigns: the editorial document, templates, accounts
`uhumarketing-frontend/src/lib/storeRemote.tsx` and `api.ts`;
`uhumarketing-api/internal/store/state.go`, `httpapi/service.go`, `handlers.go`.

- **State**: in each tab, the view, `docRef`, the dirty flag, the timer, the status
  shown; on the server, the account's rows; at Meta, the review of a template.
- **Operations**: every edit schedules a PUT of the whole document; some buttons save
  at once and then ask for something (publish, submit); a poll and reloads bring the
  server's copy; `ReplaceState`, webhooks, submissions and status syncs write the rows.
- **Hard**: answers are merged into a view that has moved on; two requests overlap;
  a PUT fails; the server's transactions overlap; the worker and Meta write as well.
- **Correct if**: a tab that says "saved" has saved; a pause is not undone; a template's
  status is Meta's; what is published is what is on the screen.

### Campaigns: flow editor, validation, simulation
`components/FlowCanvas.tsx`, `lib/validate.ts`, `lib/simulate.ts`, `pages/FlowsPage.tsx`
and the flow setters of the store; `FlowInput.Validate` of the server.

- **State**: a flow's blocks and connections, its status, the connection being drawn.
- **Operations**: add, configure, switch off and remove a block; draw and remove a
  connection; publish, activate, save; two walks over the graph, written apart.
- **Hard**: the graph changes (and a reload replaces it) while a connection is drawn;
  the two walks disagree on triggers and on blocks switched off; counts are rounded,
  cut and defaulted block after block.
- **Correct if**: the server never refuses what the canvas made; the two walks agree;
  the preview's funnel narrows and counts no one twice.

### The rest
`finance-frontend` (its correction of a transaction is part of `BankImport`),
`hub-frontend`, the landing, login and dashboard pages, `images/`, `infra/`, `k8s/`,
CI: pages, configuration, build files.

## 2. How the parts interact

```
 POST /sync, /commands                      WhatsApp <-> Evolution
        |                                        |
   domain-api --domain.commands--> domain-worker |
        ^   \                        |   |       |
        |    `<--- audit_log --------'   | domain.events
   finance-api <----- commands ----------+--> customersupport-worker
        ^                                |        (CustomerSupport)
        '---------- openfinance-worker <-- bank, webhooks
   [CommandPipeline implements ReliableDelivery]        [BankImport]

 tab --WebSocket--> tela-api --WHIP, WHEP--> MediaMTX
 [RoomPublisher, RoomViewers]  [RoomPresence]
  |                   |   \--> rooms.json   [RoomRegistry]
  '--POST, polls------'   [RoomKnock]

 tabs --PUT /state, poll--> uhumarketing-api <--> Postgres, Meta
 [EditorSync, FlowEditor]   [CampaignDispatch]
```

`CommandPipeline` keeps a promise to the outside, `ReliableDelivery`.
`CustomerSupport` sits behind it and observes exactly what that promise leaves
open: an accepted command may produce events, each of them any number of times
and at any moment, even before the answer to its own request. `BankImport` sees the
pipeline from outside as well: an accepted command is applied in order, once, or lost
with the process that took it. `RoomPublisher` and `RoomViewers` are the two halves of a
tab that `RoomPresence` has as a browser with offers and a roster; they share the
socket and nothing else. `RoomKnock` is how a tab gets the credential with which that
socket opens, and `RoomRegistry` whether there is a room behind it: both reduce presence to
who is connected. `FlowEditor` saves in one step what `EditorSync` saves through
timers and requests.

## 3. Modules and the code they model

| module | about |
|---|---|
| `ReliableDelivery` | abstract promise of the write path |
| `CommandPipeline` | the write path in detail |
| `CommandPipelineProofs` | inductive invariant, theorems, refinement |
| `CustomerSupport` | the WhatsApp worker |
| `CustomerSupportProofs` | inductive invariants and theorems of the worker's two sets |
| `RoomPresence` | one room of tela-api with its browsers |
| `RoomPresenceProofs` | inductive invariants and theorems of the sessions in MediaMTX |
| `CampaignDispatch` | one workspace of uhumarketing-api |
| `CampaignDispatchProofs` | inductive invariants and theorems of the queue and of the statuses |
| `EditorSync` | tabs of the campaign editor and the account's document |
| `FlowRules` | a flow's graph and what validate.ts and the server say of it |
| `FlowEditor` | one flow on the canvas |
| `FlowPreview` | the simulation's walk and numbers |
| `Editor` | the document and the canvas, one moving at a time |
| `EditorProofs` | inductive invariants and theorems of the document and of the canvas |
| `BankImport` | one bank account, from the connector to the ledger |
| `BankImportProofs` | inductive invariant and theorems of the import |
| `RoomPublisher` | one tab that sends its share |
| `RoomViewers` | one tab that receives the share of one person |
| `RoomKnock` | one room's door: requests, answers, tokens, lobby and banners |
| `RoomClient` | the door and the two halves of a tab, one moving at a time |
| `RoomClientProofs` | inductive invariants and theorems of the three |
| `RoomRegistry` | the rooms of one process, their file, janitor and reaper |
| `RoomRegistryProofs` | inductive invariants and theorems of the file and of the countdown |
| `MC*` | instances for TLC; `MCDispatchOrder` has initial states of its own, `MCRoomRegistry` two scenes |

A definition called `X_Something` under the words "Fault variant" is not the
code: it is a plausible bug in `X`, kept to see that the properties notice it.

### CommandPipeline
An action is one call that another process can observe the effect of: a publish,
a statement of SQL, a delivery. `api[c]` is the HTTP handler of command `c`;
`cmdWire`, `cmdQueue`, `inbox` are the socket, the queue and the buffer of the
AMQP client; `work` is the processing loop (`pc`, command, number of events, index,
outcome); `batch` and `mark` are the relay's loop; `outbox` and `audit` the tables;
`wire` and `delivered` the events on the way and on the exchange.

- `ApiPublish`, `ApiRetry`: `Publisher.Publish`, whose first attempt, on a
  connection that has died, fails or reports success and is lost; `SyncFound`, `SyncTimeout`: the poll of `audit_log`.
- `TakeCommand`, `HandleApplies/Rejects/Fails`, `EnqueueRow`, `PublishNow`,
  `MarkNow`, `RecordAudit` and their failures: `process` of `main.go` and
  `Relay.Publish`, in the order of the code. `HandleFails` is an infrastructure
  error after which the command may have been applied.
- `RelayReads`, `RelayPublishes`, `RelayMarks`: one pass of `Relay.Run`, which
  publishes and marks row by row and leaves what failed to the next pass.
- `BrokerDown`/`Up`, `WorkerCrash`/`Start`, `Resubscribe`: outages lose what is on
  a socket, and part of what is buffered; queues and exchange are durable.

Assumed of the AMQP library: a publish that returns an error was not
delivered. There are no publisher confirms, so one that returns nil may be lost.

### CustomerSupport
The code between two awaits is one action. `chat` and `proactive` are the two
consumers; `seen`, `seenEvents`, `selfCommands` are the worker's sets;
`SubmitAccepted/Rejected/Queued/Fails` are finance-api's four answers, and
`FinanceAccepts` is the moment the command is accepted, which precedes all but the
second of them. `Crash` is a kill; `ChatLoopFails` and `EventLoopFails` an
exception in an acknowledgement, which ends both loops. Other clients, and the
connector that re-reads a transaction, are `OthersSubmit`.

### RoomPresence
A critical section of `room.mu` is one action and so is a call to MediaMTX. A
broadcast is one action, apart from the change it announces, as in the code.
`step[k]` is where the goroutine of socket `k` is. `TakeOver`, `Join`,
`AnnounceJoin`, `Welcome` are `handleWS` up to its loop; `ReadShare`, `CloseShare`,
`Mute`, `AnnounceStop`, `Publish`, `SetPublishTarget`, `Unmute`, `AnnounceStart` are
an offer or a stop; `SetSpotlight`, `AnnounceSpotlight` the stage; `ReadFails`,
`Leave`, `AnnounceLeave` the end. `Receive` is `onmessage` of `useRoom.ts`. A page
that loses its socket before it was welcomed comes back as a stranger, another
member of `Browsers`.

MediaMTX is modelled from how the code uses it: a publish on a path replaces what
was there, a close ends the session only if it is still the one on the path.
A publish that MediaMTX accepted but whose answer was lost never connects and
MediaMTX drops it by itself; it is not a session here.

### CampaignDispatch
Each statement or transaction is one action and so is each call to Meta. `at[w]`
is where worker `w` is in its tick; `request` and `hook` are launches, tests and
webhooks in flight. A claim leaves its rows `queued` as the code does (only
`attempts` changes). Which rows a batch takes first, and which contact has the
newest opt-in, are left open. `open[c]` is what the window of campaign `c` says of
the present. Templates are approved and the channel is active. `Fresh` is an account
of which nothing was sent, `Init` the same with every budget whole. `Crash` ends the
process: workers, requests and webhooks. A message whose answer was lost
(`SendUnanswered`) was delivered and is marked failed.

### EditorSync
A document is reduced to what the merge rules tell apart: a template's status, the
segments, the campaign's status and the rest. A field's version is the number of the
edit that wrote it. `view` is the React state, `ref` is `docRef` (what a PUT sends, one
render behind the view), `dirty`, `timer`, `asap` and `status` the flags of
`BackendStoreProvider`; `net` the requests in flight, each with what it carries and how
far it is. A handler up to its first await is one action, with the render after it:
`EditSegments`, `EditRest`, `CreateDraft`, `CreateAndSubmit`, `Submit`, `Sync`, `Pause`,
`Launch`, `Publish`, `Reload`, `ChangeChannel`, `SaveSettings`, and the timers
`TimerFires`, `AsapFires`, `Poll`. `PutRead` and `PutWrite` are the two steps of
`ReplaceState` (the statuses are read, then everything is written); `HandleLaunch`,
`SubmitToMeta`, `MarkSubmitted`, `HandleSync`, `Webhook` the server's other writers;
`PutAnswered`, `Answered`, `PutFailed` the ends of a request, with the merge rules of
`flush` and `applyBootstrap`. `Uses` are the operator's actions, `Runs` the tab's own. Two
variables are history: `raced` records which fields of a tab an answer asked for earlier,
a PUT that overlaps or another tab ran into, which is what the code does not protect;
`pauser` is the tab that paused the campaign last, until it is launched or published.

### FlowRules, FlowEditor, FlowPreview
`FlowRules` is a graph with what validate.ts finds in it (`Loose`, `HasErrors`) and what
the server accepts (`Accepted`). `FlowEditor` starts from every flow that the screens
create and makes any change of the canvas; `connect` is the block a connection is being
drawn from, and `saved` the server's copy, which `Reload` brings back. `FlowPreview`
translates `simulate`: `Order` is the walk (a queue, connections in the order of their
making), `Apply` what each kind of block does to the two counts.

### BankImport
`seen`, `cursored` and `fresh` are the memory of `Syncer`; `pass[p]` is where the poll
loop or the webhook's thread is in `_sync_transactions`; `queue` the accepted commands;
`ledger` the rows. `Begin`, `Submit`, `MarkSeen`, `MoveCursor` are the pass in the order
of the code; `SubmitFails` and `Abort` its failures. `Correct`, `SetActive`, `Remove` are
what the transaction's screen sends; `Apply` is domain-worker, with the conflict rule
of the upsert (`Registered`) and the rule of signs (`Updated`, `Signed`).

### RoomPublisher, RoomViewers
What runs between two awaits is one action, and `step` is the await at which a
publisher or a viewer stands. Each makes one offer, so its number is the offer's `seq`.
The refs are fields of `tab`; handlers are operators from a tab to a tab
(`StopSharing`, `PublishStream`, `Answered`, `Welcomed`; `StartViewer`, `StopViewer`,
`Caught`), as one handler calls another. A connection that is closed rejects what is
asked of it next; one that was closed before it existed is not closed at all. The
server is reduced to the order of its answers and the share it shows.

### RoomKnock
`status`, `age` and `since` are a request and the ages of its two stamps; a request is a
number, which also stands for its token. `conn` is how far a socket's handshake is, with
`snap` the list of `PendingKnocks` in hand, `box` what is on its way to the browser, and
`telling` the answer a goroutine has yet to announce. `page`, `ticket`, `denied`, `reply`
are `EntryGate` and `KnockLobby`; `shown` the banners. `Ask` and `AnnounceAsk` are the two
halves of `Knock`, `ResolveKnock` and `AnnounceAnswer` those of its answer; every pass that
sweeps (`Ask`, `PendingKnocks`, `Poll`, `Sweep`) uses `Swept`. `Connect`, `PendingKnocks`,
`Welcome` are `handleWS`. An approval whose token could not be made (no entropy), which
leaves the lobby waiting, is left out.

### RoomRegistry
A room is the number of its creation. `created`, `emptyFor`, `quiet` are the ages of its
stamps, `closing` the time left before its deadline. `wstep[w]` is how far writer `w` (a
handler, the janitor, the reaper) is in `persist`, `image` the set it took and `opened`
where the file is that it opened: `OpenTmp` cuts the temporary file to nothing, `WriteTmp`
writes to wherever it has been renamed since, `Rename` takes what is there. `SweepIdle` is
the reaper's pass under the lock, `ReaperTells` each broadcast after it, with `idleTick` as
`Verdict`. `Authorise`, `Join`, `LookClosing`, `Welcome` are the handshake; `expelled[p]`
says that `room:closed` reached `p`, whose page then leaves.

## 4. Runs, bounds and what they show

`CHECK_DEADLOCK FALSE` is set in all runs but the last: those systems may come to rest, when
their bounds are spent or no one asks anything of them. In the registry time goes on,
and TLC finds no state without a successor.

| run | instance | distinct states |
|---|---|---|
| `pipeline` | one `/sync` command, up to two events; two outages, two crashes, one database error; `FairSpec` | 128k |
| `support_safety` | one write published twice, two commands, one more copy of events; one end of the process, of any kind; one failed send | 1.5M |
| `support_live` | a write and a read; one command, one kill, one failed HTTP call; `FairSpec` | 29k |
| `room_safety` | two browsers, three sockets, two offers or stops; symmetry over browsers | 861k |
| `room_live` | two browsers, two sockets, one offer, stop or choice of the stage; teardowns may fail; `FairSpec` | 43k |
| `room_client` | a tab that shares (two sources, two captures, four publishers, one lost socket, one broken connection), one that watches (two shares of one person, five viewers, one new socket), or a door with two people inside and a visitor with one request, failed polls and a restart; two attempts each; symmetry over sources and over the two inside | 1.14M |
| `dispatch_order` | one campaign, one contact, a fault; either three launches or tests, a status webhook and a reply, or one launch or test, two statuses, a save and a closing window | 724k |
| `dispatch_live` | two campaigns with windows of their own, one contact, two requests, a fault; `FairSpec` | 119k |
| `editor` | one tab; an edit, a click of any button, two requests in flight, one of them failing, the worker finishing the campaign, Meta deciding; or any two changes to any flow the screens create, up to six blocks and five connections, six kinds to add, saves and reloads at any point | 724k |
| `bank_import` | two transactions, one older than the connection; two among webhooks, corrections, restarts, failed pages and submits, lost commands; `FairSpec` | 61k |
| `registry_life` | one handler, a restart; either two rooms with nobody in them and the restart at any point of a write, or one room with two people and no restart; `FairSpec` | 175k |

What they show:

- **pipeline**: that every behaviour is one of `ReliableDelivery` (`ImplementsDelivery`): a
  command is applied at most once and never after a 500, what is visible is durable, and
  what is confirmed is done; and under fairness `OutboxDrains`. Two events with a relay that
  reads one row at a time (`BatchLimit = 1`, 100 in the code) show the oldest row failing in
  front of another; two outages and two crashes let the recovery fail once. One command is
  enough here: commands meet only in the queues, and the proofs of section 6 cover any
  number of them.
- **support_safety**: `OneCommandPerLife` and `NotifiedOncePerLife` ("life": each
  end of the process forgets, so one more is allowed). A message
  twice, an event twice, and two commands of which either may be another client's
  are the least that exercises each set.
- **support_live**: `MessagesAreAnswered` and `AlertsGetThrough` over a kill.
- **room_safety**: `NoOrphanShare`, `SharingHasMedia`, `RosterIsRight`. Three sockets
  for two browsers let one of them leave and resume while the other joins; two
  requests are an offer and its stop, two offers in a row, or one of each browser.
  `StaleSockets = FALSE`: a browser is back only after the server noticed the end of
  its old socket. With `TRUE` the code fails (section 7).
  `SendBuffer = 12` is more than these bounds can fill (32 in the code).
- **room_live**: `StageAgrees` and `PresenceCatchesUp`, with teardowns that may fail.
  `StageAgrees` holds for one choice of the stage at a time; two at once are in
  section 7.
- **room_client**: `CaptureIsHeld`: in the room, whatever is being captured is the share
  that the person can stop, over any change of source, failed handshake, retry, new
  socket and end of a track. `HeldIsOpen`: a tile never plays a closed viewer, and at
  rest no closed viewer keeps the entry that stops the next share from being shown.
  Two attempts are enough for one that is retried and one that gives up (four in the
  code), four publishers for a retry beside a recovery and a new share; with a second
  lost socket `CaptureIsHeld` holds in 1.6M states.
  At the door, `WaitersAreShown`, `AnsweredAreGone`, `RefusedStaysOut`, `DeniedMeansOver`.
  Two people inside are what two answers to one request take, and one of them may be coming
  in meanwhile. `KnockTTL = 0` and `AdmitTTL = 2` (2 and 30 minutes) keep the order of the two
  limits, with time to come back before the second. `InstantClicks = FALSE`: nobody answers a
  request in the moment between its registration and its announcement, which a newcomer's
  welcome shows already; with `TRUE` the code fails (section 7).
  The two halves of a tab and the door are checked apart (`side`), as they share only the
  socket.
- **dispatch_order**: `SentAsOrdered`: launches and tests in any number and order do
  not send a contact a message twice, except for a fault each. `OnceNeverRegresses` is
  `NeverRegresses` where the campaign is launched or tested once and webhooks do not
  overlap. The two initial states keep the bounds of one run apart: `Repeated` leaves the
  operator every request and one webhook, `Once` a single request with saves, closing windows
  and every webhook. One worker: with two the code fails, and so does `NeverRegresses`
  without its two conditions (section 7).
- **dispatch_live**: `FinishedIsDrained`, `QueuedIsSent`, `DrainedIsFinished`. Two campaigns
  are what it takes for one's closed window to stand before the other's queue.
  `FinishedIsDrained` takes one launch or test of each campaign (`OneLaunch = TRUE`); without
  that the code fails (section 7). The other two assume that windows eventually stay open,
  except for tests, which wait for none; a drained campaign does remain `running` while
  another one's closed window keeps its queue waiting (`worker.go:90-104`).
- **editor**, the document: `QuietMeansSaved` (a tab that rests has saved what was written in
  it), `PauseHolds`, `PublishIsNotRefused`, `StatusIsMetas`. Each of the first three
  names the race that the code leaves open, through `raced`: an answer asked for
  before the edit, two PUTs at once, an answer that hides an error (section 7). Two
  requests in flight are a PUT beside any other; every button has its click, and each
  starts from an account with no template, a draft, or an approved one with the
  campaign running or not. One tab is enough here, as the proofs of section 6 cover any
  number; `MCEditor` has two as well (`TwoTabs`).
- **editor**, the canvas: `RefusedOnlyWhenTorn`, `WalksAgree`, `NobodyIsInvented`. Every flow the
  screens create is an initial state, among them a whole campaign's chain of five, so
  that two changes reach graphs with a branch, a gap, a source after a filter, a
  second trigger, or a connection finished from a block that is gone. The proof of
  section 6 covers any number of changes. The sizes of audience, CRM and limit (7, 5, 3) are
  chosen so that every minimum, maximum and rounding goes either way.
- **bank_import**: `OnlyTheGapTells` (what the bank already had is announced only when a
  pass began between another's two marks), `CorrectionsStand`, `ImportedOrMissed`. One
  old transaction and one of any age; two passes at once are all there can be. Three
  events instead of two were checked as well (1,008,271 states).
- **registry_life**, in the scene "file": `AnsweredRoomsSurvive`, `DeletedStaysDeleted`. The
  janitor and the reaper write as well, and nobody needs to be connected for that.
  `Overlap = FALSE`: the set changes only when nobody is writing it; with `TRUE` the code
  fails (section 7). In the scene "people": `ClosedOnlyWarned`: whoever is there when a room
  is closed, and was welcomed, sees the countdown, except the one whose welcome hid it
  (section 7). `Idle = 0` and `Grace = 1` let shares, keep-alives and arrivals fall before,
  between and after the two limits. In both, `EveryRoomEnds`, though somebody may come back
  and share for ever. Three rooms, two handlers and two restarts were checked for the file as
  well (1.8M states).

Bounds are guards on the environment (requests, faults, copies, sockets, clicks) and
on how many publishers and viewers a tab may create, never on what the program does
in answer.

## 5. Fairness

| module | assumed | because |
|---|---|---|
| `CommandPipeline` | WF of the API's publish, retry and timeout; of the broker's moves and its return; of `WorkerStart`, `Resubscribe`, the processing loop and the relay's ticker | goroutines are scheduled, `/sync` has a deadline (`synchandlers.go:111-136`), Kubernetes restarts the worker, the consumer redials until it is registered again (`command_queue.go:60-98`), the relay has a ticker (`relay.go:108-122`) |
| `CustomerSupport` | WF of the chat and event loops and of the HTTP call; SF of taking each message and each event | one event loop; the HTTP client has a timeout; RabbitMQ redelivers what was not acknowledged and serves a queue in order |
| `RoomPresence` | WF of each socket's handler, and of each browser reading its messages | goroutines are scheduled, calls to MediaMTX have a deadline, TCP keep-alive ends the read from a peer that is gone |
| `CampaignDispatch` | WF of each worker's next step | `Run` ticks for ever, its calls have deadlines |
| `BankImport` | WF of the poll loop's next step and of `Apply` | the loop runs for ever and catches its exceptions (`main.py:85-95`); domain-worker consumes its queue |
| `RoomRegistry` | WF of `persist`, of the answers, of the handshake, of the broadcasts and of a page that read `room:closed`; SF of the janitor, the reaper and time | goroutines are scheduled; writes of a few hundred bytes end; both tickers run while the process does (`main.go:90-140`) |

In `RoomKnock` and `RoomRegistry` time is an action. A unit is about a minute, so it passes only
when no handler, broadcast or write is under way (in `RoomKnock` also when every lobby has
polled and the janitor has passed). SF is needed because people may come and go between any
two units: they cannot hold time back by that.

Faults, user requests, webhooks and windows have no fairness. `SyncFound` has none
either: a request ends by its deadline even if the row never comes. `EditorSync`, the
flow modules, the two room clients and the door are about safety only and assume none.

## 6. Proofs

`CommandPipelineProofs` proves, for any set of commands and any `MaxEvents`,
`BatchLimit` and number of faults (`PipelineAssumption` only):

| theorem | says |
|---|---|
| `TypeCorrect` | `Spec => []TypeOK` |
| `Invariance` | `Spec => []IInv`, the inductive invariant |
| `AtMostOnce` | a command takes effect at most once |
| `Durability` | what is visible is durable and belongs to an applied command |
| `Confirmation` | "written" means applied, with every event durable |
| `Refusal` | a command answered 500 is nowhere and never takes effect |
| `NothingMarkedUnsent` | a row is marked only after a publish reported success |
| `Refinement` | `Spec => Delivery!Spec`: the pipeline implements `ReliableDelivery` |

`CustomerSupportProofs` proves, for any messages, any number of commands, copies, kills and
faults, and whether or not the loops may fail (`SupportAssumption`: `Other` and `"none"`,
which stand for other clients and for nobody, are no messages):

| theorem | says |
|---|---|
| `SupportTypeCorrect` | `Spec => []TypeOK` |
| `OneCommandInEachLife` | `Spec => []OneCommandPerLife` |
| `OneNotificationInEachLife` | `Spec => []NotifiedOncePerLife` |

`RoomPresenceProofs` proves, for any browsers, sockets, offers, stops and choices of the
stage and a send buffer of any size (`PresenceAssumption`):

| theorem | says |
|---|---|
| `PresenceTypeCorrect` | `Spec => []TypeOK` |
| `NoShareIsOrphaned` | `Spec => []NoOrphanShare`, if `~StaleSockets` and `~CloseMayFail` |
| `SharingMeansMedia` | `Spec => []SharingHasMedia`, under the same two |
| `RosterComesRight` | `Spec /\ []Roomy => []RosterIsRight`, if `~StaleSockets` |
| `StageComesToAgree` | `Spec /\ []Roomy /\ []OneChooser => []StageAgrees`, if `~StaleSockets` |

`Roomy` says that no peer's buffer is full, `OneChooser` that at most one choice of the stage
is not yet announced. A message to a peer whose buffer is full is dropped (`Peer.Send`,
`peer.go:76-86`) and no later one makes up for it, so without `Roomy` neither property is
true; in the runs every state is `Roomy`, as `SendBuffer` takes whatever the bounds can send.
Two choices at once are in section 7.
With a stale socket the code orphans a share (section 7), and a teardown that fails
leaves its session: the code logs the error and goes on (`stopPublishing`, `ws.go:215-222`).

`CampaignDispatchProofs` proves, for any number of campaigns, contacts, requests, webhooks
and batches of any size (`DispatchAssumption`):

| theorem | says |
|---|---|
| `DispatchTypeCorrect` | `Spec => []TypeOK`, for any workers |
| `OneWorkerSendsAsOrdered` | `Spec => []SentAsOrdered`, for one worker |
| `OnceLaunchedFinishesDrained` | `Spec => []FinishedIsDrained`, if `OneLaunch`, for any workers |
| `OneUseMovesForward` | `Spec => OnceNeverRegresses`, for one worker and `~HooksOverlap` |

Section 7 has what the code does without each of these conditions. One worker is what
`compose.yaml` starts: one `api` on a fixed host port, and one worker in each process
(`main.go`).

`EditorProofs` proves, of the document, for any tabs, any of the buttons and any number of
edits, clicks, requests in flight and failures (`SyncAssumption`), and of the canvas, for
any number of blocks, connections and changes and any palette (`CanvasAssumption`):

| theorem | says |
|---|---|
| `SyncTypeCorrect` | `Spec => []TypeOK` |
| `StatusComesFromMeta` | `Spec => []StatusIsMetas` |
| `QuietTabsAreSaved` | `Spec => []QuietMeansSaved` |
| `PausesHold` | `Spec => []PauseHolds` |
| `PublicationsGoThrough` | `Spec => []PublishIsNotRefused` |
| `CanvasTypeCorrect` | `F!Spec => []F!TypeOK` |
| `GraphStaysSound` | `F!Spec => []RefusedOnlyWhenTorn` |
| `LooseBlocksDoNotRun` | `F!Spec => []WalksAgree` |
| `PreviewInventsNobody` | `F!Spec => []NobodyIsInvented` |
| `EditorHasTheDocument` | `EditorSpec => Spec`, the document of the editor is `EditorSync`'s |
| `EditorHasTheCanvas` | `EditorSpec => F!Spec`, its canvas is `FlowPreview`'s |
| `EditorIsSafe` | `EditorSpec => []` of every invariant above at once |

`BankImportProofs` proves, for any finite set of transactions, any part of it old, any
corrections and any number of events (`ImportAssumption`):

| theorem | says |
|---|---|
| `ImportTypeCorrect` | `Spec => []TypeOK`, the order of a pass's marks included |
| `HistoryStaysSilent` | `Spec => []OnlyTheGapTells` |
| `CorrectionsAlwaysStand` | `Spec => []CorrectionsStand` |

`RoomClientProofs` proves, of the door, for any people, any hosts among them, any number of
requests and restarts and any limits with `KnockTTL + 2 <= AdmitTTL` (`KnockAssumption`; the
code has 2 and 30 minutes), and of the two halves of a tab (`P` and `V`), for any number of
captures, publishers, viewers, shares, attempts and lost sockets (`ClientAssumption`):

| theorem | says |
|---|---|
| `KnockTypeCorrect` | `Spec => []TypeOK` |
| `FirstAnswerCounts` | `Spec => []RefusedStaysOut` |
| `BannersGoAway` | `~InstantClicks => (Spec => []AnsweredAreGone)` |
| `WaitersGetThrough` | `Spec => []WaitersAreShown` |
| `RefusalIsTrue` | `Spec => []DeniedMeansOver` |
| `NothingElseIsCaptured` | `P!Spec => []CaptureIsHeld` |
| `TilesPlayOpenViewers` | `V!Spec => []HeldIsOpen` |

`RoomRegistryProofs` proves, for any number of handlers, rooms and restarts and any limits
(`RegistryAssumption`):

| theorem | says |
|---|---|
| `RegistryTypeCorrect` | `Spec => []TypeOK`: each person is in one room at most, and a room's clock runs exactly while it is empty |
| `RoomsSurvive` | `~Overlap => (Spec => []AnsweredRoomsSurvive)` |
| `DeletedRoomsStayAway` | `~Overlap => (Spec => [](DeletedStaysDeleted /\ deleted \cap file = {}))` |
| `OnlyTheWarnedAreClosed` | `Spec => ClosedOnlyWarned` |

**The pipeline.** None of the properties is inductive. That a command is applied at
most once depends on where it is: a command is a *token*, in at most one of the
socket, the queue, the buffer and the handler's hands, and while it is in any of
them it has not been applied (`TokenInv`); applying it spends the token. What comes
afterwards is ordered by the program: rows belong to applied commands and only
rows travel (`RowsInv`); the loop has enqueued all it returned before it publishes
(`WorkInv`); an audit row that says success, and the answer read from it, were
written after that (`AuditInv`); a mark follows a send (`SentInv`). `IInv` is their
conjunction with `TypeOK`. Each part has a lemma of its own with one step per
action, and frame lemmas (`OthersDoNotWrite`, `RowsStay`, `EffectsStay`,
`CompleteStays`) dispose of the actions that do not touch it.

**Refinement.** `kept` is what is in the outbox, `visible` what is on the exchange,
`confirmed` and `refused` the answers 200 and 500. `RefinementStep` shows that a step
is one of the promise or a stutter; `IInv` supplies the guards of the promise:
`Apply` needs that the command was neither applied nor refused (`TokenInv`), `Keep`
that the row is one of its events (`WorkInv`), `Show` that the event is kept
(`RowsInv`), `Confirm` that all are (`AuditInv`), `Refuse` that it was not applied
(`TokenInv`).

**The WhatsApp worker.** Both properties count what happened against the lives of the
process so far, and a step that counts one up must not have been taken before in the
same life. So the invariants say where the chance of a life is: a message whose id is not
in `seen`, or whose submission is in flight, may still become a command
(`MayStillSubmit`), and until it does its commands are at most the lives before this one
(`CommandInv`); the same for the key of an event, `seenEvents` and the message being sent
(`NotifyInv`). An id is remembered before the await, or a second copy would have a chance
of its own. A key is the origin of a command, which must not change while the message is
sent: events exist only of accepted commands (`Accepted`). `Copies` ties what is in hand to
the queue it stays in.

**Presence.** Whose session is on a path is known from where its goroutine is: in the
target while it reads, in hand between reading and closing, nowhere before it publishes
(`ShareAt`), which is why nothing about it can be said at rest only. A path belongs to one
goroutine because a browser has one that is not gone, and the room has it under that
name (`SeatInv`): this is what a stale socket breaks. Types need a count: sessions are
numbered, and every goroutine about to publish has an offer of its own (`Owed`).

**What browsers believe.** At rest every buffer is empty, but to get there the invariant must say
what a browser will believe once it has read the messages on their way to it: there is a
sequence of beliefs, one more than there are messages, each what its message makes of the one
before (`Leads`; no recursion, and one lemma each for a message sent and one read). For
the roster that last belief must be right but for what the other's goroutine is about to
announce (`Agrees`, `RosterInv`), because every change is made under the lock and told after it;
a goroutine that is yet to send its welcome holds the roster of its `Join`, to which the same
applies. `ShowInv` ties `publishing` to where the goroutine is, so the next announcement is the
one that makes the belief right, and `InTouch` that nothing is on its way to a socket nobody
listens to. `StageInv` says the same of the stage, with a choice that is pinned and not yet
announced as the exception. With two of those the last announcement need not be the last
choice, which is why it takes `OneChooser`. With a stale socket two goroutines announce one
browser, hence `~StaleSockets`.

**The queue.** A message that is due (queued, or in a batch) will be accepted once more, so
`accepted` and what is due together stay within what was ordered and what failed
(`Accounts`). A claim leaves its rows queued, so two workers would count one row
twice; with one, a row in the batch and a row in the table are the same message (`DueOfOne`),
and the one whose answer is awaited is in neither (`Busy`).

**Finished campaigns.** With one launch each, a campaign whose request is under way has
not been run (`NotYetRunning`), and one found drained, or finished, has no request under
way and nothing queued (`OverIsDrained`). A request comes from a draft, a finished campaign
never becomes one, so nothing fills its queue again.

**Statuses.** A row used once has Meta's number only after it left the worker's hands
(`InHands`), so neither of the worker's marks overwrites a webhook's; and a webhook that
read its row is the only one under way and still has something newer to say
(`StillNews`), unless a reply, which outranks all, came in between.

**The document.** What a resting tab shows is compared with the server, which it reaches
through `docRef`, a PUT and its write, while answers to older questions are on their way
back. `SavedAt` follows one field along all of these: where the screen's version is, and
where it need not be yet, because the tab is still to tell (`Coming`) and nobody was asked
in between (`Asked`). It holds field by field while nothing ran into the field, so that
the races of a segment do not weaken what is said of the flows. One PUT is under way
unless two raced (`PutsInv`). `StAt` is the same for the campaign's status and a set `S` it has
to stay in since a click: `{"paused", "finished"}` for a pause (`PauseInv`, which adds that no
launch of the tab is under way), and anything but a draft for a publication (`PublishInv`, up
to the launch that follows its PUT). `MetaInv` says that a status in a row, in
a PUT that has read the rows, in a webhook or in a submission at Meta is one that Meta gave.
Nothing is said of how many tabs there are: another tab's write is recorded in `raced`, and
`OthersAreStill` shows that a step of one tab leaves the others as they are.

**The canvas.** `RefusedOnlyWhenTorn` says nothing of the server's copy, which a reload
may bring back at any moment, nor of the block that a connection is drawn from.
`CanvasInv` adds both: `saved` is as sound as the store's flow and joins blocks of its
own; `connect` is a block of the flow or one recorded as torn; and every connection was
numbered before the next one (`joined`), so that a new one is nobody's twin.
`ChainIsSound` establishes it for the flows the screens create, `FewerEdges` for what
removes blocks and connections, and `StepCanvas` has one step for each action.

**Induction.** What a recursive function or a fold computes is proved by induction, for which
the library's theorems take an operator that the provers cannot instantiate. `SmallestSet`,
`CountUp` and `RunExists` take sets and functions instead, and rest on the library's
well-founded order of finite sets: a recursive function of `FlowRules` or `FlowPreview` is shown
to exist, to satisfy its equation, and to do at each `n` what it does at `n - 1`.

**The two walks.** `validate.ts` takes successors until nothing is new, `simulate.ts` works
through a queue, and both find the smallest set of blocks that holds the trigger and is closed
under the connections (`ReachIsTheClosure`, `OrderIsTheWalk`). For the first, as many rounds as
there are blocks are enough, since a round that adds nothing ends it. For the second, what was
met and not visited is in the queue (`WalkInv`), and each turn uses up an entry or a
connection, so the turns that `FlowPreview` allows are enough. What is enabled and outside that
set is what one calls loose and the other never visits, given one trigger and no block switched
off (`WalksDoAgree`).

**The counts.** Each block is visited at most once (`OrderIsOnce`), and a visit adds to those
inside at most the people its source brings in (`VisitAddsSources`), so at the end there are no
more than the sum over the sources (`SimulationIsBounded`). The shares of a filter, the sent and
the delivered are rounded, and a rounded share of a number is no more than it (`RoundKeeps`).

**The editor.** A step of `Editor` is one of its document or one of its canvas and leaves the
other alone, so it is a step or a stutter of each (`EditorSteps`).

**The import.** A row keeps the type and sign of the last correction only if every
command still in the queue respects it, so `Inv` speaks of the queue: a command that
registers is about something the bank has and, outside the gap, does not announce what
is old (`Sound`). That in turn needs what a pass holds: outside the gap, one that is not a
first pass has nothing old left to submit (`NothingOld`), because a pass is a first one
unless the account is marked as seen, and without a cursor nothing else is read
(`Marks`). `UpdatedIsSigned` and `RegisteredIsSigned` are the rule of signs for
a correction and for the upsert.

**The door.** A request's status agrees with its first answer while it is on the map
(`Records`), and only a page in the room has a socket, so that nobody changes credential
under an open one (`AtTheDoor`): that gives `RefusedStaysOut`. Banners need the order of the
messages in each buffer: once an answer has been told to everyone (`Settled`), whatever puts
its banner up is followed by something that takes it down (`Clear`, `Banners`), for which
no request may be answered before it was announced (`Unanswered`). A refusal is true because
an open lobby polls in every unit of time: an approval is heard before it can be swept,
which is what `KnockTTL + 2 <= AdmitTTL` buys (`Clocks`, `Lobbies`). A request that waits is
shown because the last message about it in each buffer puts its banner up (`Up`), or the
welcome being prepared has it (`Waiters`).

**The two halves of a tab.** A capture begins only behind the picker, and the picker is in
front only once nothing is captured; handshakes, retries and recoveries touch
neither (`Held`, `SameCapture`). A tile plays a closed viewer only if a viewer closes that
the refs still name: the one that awaits an answer is not shown yet, so the failure of an
offer never closes what plays, and whatever closes a viewer drops its entry (`Entries`,
`WatchInv`).

**The file.** Without overlap at most one writer is under way (`Alone`), and at every step
of its write it holds the set itself (`Writing`). So each crash leaves the old set or the
new one, the handler at work has kept its promise before it answers (`Promises`), and
the file agrees with what was answered as the registry does (`Books`).

**The countdown.** Whoever is in a room whose alarm is on, and whom the reaper has told,
sees it or is about to be welcomed with it, except the one whose welcome hid it; a
keep-alive that withdraws the alarm has just started the clock again, so the reaper cannot
set a new one before the withdrawal is told (`WarnInv`).

The runs do not repeat everything that is proved: some leave out a module's `TypeOK`, and
`AppliedAtMostOnce`, `ErrorNeverLands` and `DurableBeforeVisible` are consequences of
`ImplementsDelivery`, which the run does check.

**Only model-checked**: the eight liveness properties, `OutboxDrains`, `MessagesAreAnswered`,
`AlertsGetThrough`, `PresenceCatchesUp`, `QueuedIsSent`, `DrainedIsFinished`, `ImportedOrMissed`
and `EveryRoomEnds`: fairness and ENABLED are outside the reach of the prover used here. Every
invariant and every action property that a run checks is stated by a theorem above.

## 7. What the code says of itself and does not do

Each of these is stated in its module (most under that heading, at the end) and TLC
finds its counterexample. To see one, copy the named cfg, change the constants as
given, replace its properties by the one named (an INVARIANT unless it says temporal
or action, which are PROPERTYs) and drop its SYMMETRY, if any.

| property | start from | constants | what happens | what is said |
|---|---|---|---|---|
| `AlwaysAudited` (temporal) | `CommandPipeline_command` | `MaxEvents = 1`, `MaxOutages = 0`, `MaxCrashes = 0` | the command is applied, its event published, and `RecordAuditFails`: logged (`main.go:234`), no row ever | `domain-api/README.md:15-17` "writes the audit row (success or failure, always)"; `synchandlers.go:26-28` "unconditionally" |
| `FailedWasRejected` | `CommandPipeline_command` | `MaxEvents = 1`, `MaxOutages = 0`, `MaxCrashes = 0` | `HandleFails` after the commit, or the enqueue fails after the command was applied (`main.go:226-229`): the row says failure, the client gets 422 | `synchandlers.go:87-89` "the worker rejected it"; "retrying unchanged will fail the same way" |
| `QueuedIsUnderway` | `CommandPipeline_command` | `MaxEvents = 1`, `MaxOutages = 0`, `MaxCrashes = 1`, `MaxDbFaults = 0` | 504, the command is delivered with autoAck (`command_queue.go:44-46`), the worker is restarted: the command is nowhere | `synchandlers.go:90-91` "the command stays queued" |
| `PublishedHasLanded` | `CommandPipeline_command` | `MaxEvents = 1`, `MaxOutages = 1`, `MaxCrashes = 0`, `MaxDbFaults = 0` | the connection is dead and the client does not know: the publish returns nil (`event_bus.go:138-147`), the row is marked (`relay.go:93-103`), the event is lost | `relay.go:24-28` "retries the pending rows until they land" |
| `ConfirmedOnce` | `CustomerSupport_safety` | `MaxCrashes = 0`, `LoopsMayFail = FALSE`, `MaxSendFaults = 0` | the command id is remembered when the submit returns (`worker.py:128`); its event can be handled while that await is pending: the user is notified, and then gets the reply | `test_worker_dedup.py:1` "o worker não confirma duas vezes o mesmo comando" |
| `UniqueEffect` | `CustomerSupport_safety` | `MaxSendFaults = 0` | command accepted, process killed before the acknowledgement, the message comes back and becomes a second command with an id of its own | `worker.py:4-6` "efeito único"; `worker.py:68-69` relies on a rejection by command id that cannot happen |
| `FailureIsFinal` | `CustomerSupport_safety` | `MaxHttpFaults = 1`, `MaxSendFaults = 0` | the call times out after the command was accepted: caught by `except Exception`, the user is told it failed (`worker.py:134-136`) | `clients/finance_api.py:6-7` "timeout não é falha" |
| `EchoWasTold` | `CustomerSupport_safety` | as it is | the reply fails to send and is swallowed (`worker.py:229-233`); the event is then dropped as an echo: the user hears nothing | `worker.py:42-43` "o usuário já recebeu a resposta na hora" |
| `HistoryIsSilent` | `BankImport_passes` | as it is | one thread marks the account as seen, the other begins before the cursor is set (`runner.py:161-164`): it is no first pass and has no cursor, and announces the whole backfill | `runner.py:54-58`: the first pass over an account is historical, so that connecting a bank does not notify |
| `ResumedIsIn` | `RoomPresence_safety` | `StaleSockets = TRUE`, `MaxAsks = 1` | `Leave` deletes the id whoever holds it (`peer.go:161`): when a browser resumes before its old socket ended, the old goroutine deletes the new peer | `peer.go:107-109` "a client that reconnects with its old identity slots back into the room" |
| `NoOrphanShare` | `RoomPresence_safety` | `StaleSockets = TRUE`, `MaxAsks = 1` | a sharing browser resumes: `TakeOver` drops the peer that remembers the session (`peer.go:133-135`), which no one closes | `ws.go:203-204` "so a disconnect doesn't leave a path publishing off-roster" |
| `NewcomerKnows` | `RoomPresence_safety` | `MaxSockets = 2`, `MaxAsks = 1` | a newcomer is registered (`peer.go:148-156`) before its welcome is queued (`ws.go:151-160`); what is announced in between comes first, and the welcome, older, replaces it (`useRoom.ts:585-586`) | `peer.go:144-146` "the newcomer immediately knows who is here and who is currently publishing" |
| `SharingHasPath` | `RoomPresence_safety` | `Browsers <- One`, `MaxSockets = 1` | a stop clears the target, then calls MediaMTX, then lowers the flag (`ws.go:216-221`) | `peer.go:176-178` "a peer shown as sharing always has a path to pull" |
| `NoGhostOnStage` | `RoomPresence_safety` | `MaxSockets = 2`, `MaxAsks = 1`, `MaxPins = 1` | the peer on stage leaves; `Leave` does not touch the stage (`peer.go:159-171`), and newcomers are welcomed with it (`ws.go:174`) | `peer.go:272-274` "keep the room pinned to a ghost" |
| `StageAgrees` | `RoomPresence_safety` | `MaxSockets = 2`, `MaxPins = 2` | two peers choose, and announce in the other order (`peer.go:285-289`): everyone shows the stage that lost | `peer.go:268-270` "keeping ONE authoritative answer" |
| `OneViewerPerPublisher` | `RoomClient_pages` | as it is | the catch of `connect` deletes the entries of its person (`useRoom.ts:501-510`), by then those of the viewer that replaced it: another one is opened beside it, and nothing closes both | `useRoom.ts:182` "One WHEP viewer per remote publishing peer, by peer id"; `:830` |
| `StartIsDismissed` | `RoomClient_pages` | as it is | a stop, or a lost socket, while the offer awaits its answer: the pending entry is dropped without a rejection (`useRoom.ts:268`), or overwritten, so `startSharing` never returns and neither flag is lowered: no sharing again until the page is reloaded | `useRoom.ts:206` "Dismissed the moment sharing starts"; `Room.tsx:386` "until the capture settles" |
| `StoppedIsOff` | `RoomClient_pages` | as it is | a stop while the candidates are gathered: the publisher goes on to send its `publish:offer` after the `publish:stop`, and the room shows a share nobody makes | `useRoom.ts:263-270`, the stop that tells the server so |
| `OnePublisher` | `RoomClient_pages` | as it is | a publisher replaced or stopped before its ICE servers arrive has no connection to close yet (`screenPublisher.ts:110-113`) and opens one afterwards | `useRoom.ts:179` "one WHIP publisher for the room" |
| `LeavingEndsCapture` | `RoomClient_pages` | as it is | the page is left while the picker is open; the capture granted then is published and kept by nobody (`useRoom.ts:398`) | `Room.tsx:689-694` on a capture "with nothing holding it" |
| `SentAsOrdered` | `CampaignDispatch_order` | `Workers <- TwoWorkers`, `MaxRequests = 1` | the claim commits with its rows still queued (`store.go:970-979`): the lock of SKIP LOCKED is gone before the message is sent, and a second worker claims it again | `worker.go:15-17` "subir duas instâncias não duplica mensagem" |
| `PausedIsNotClaimed` (action) | `CampaignDispatch_order` | `MaxSaves = 1`, `MaxRequests = 1` | the pause comes between the choice of the campaign and the claim, which does not look at its status (`store.go:935-946`) | `handlers.go:449` "A fila para de sair até ser retomada." |
| `WindowIsHeeded` (action) | `CampaignDispatch_order` | `NumCampaigns = 2`, `MaxRequests = 2` | the window that is checked is that of one campaign; the claim takes rows of any (`worker.go:90-107`) | `uhumarketing-api/README.md:189` "O worker não manda fora da janela da campanha" |
| `OptedOutIsNotClaimed` (action) | `CampaignDispatch_order` | `MaxRequests = 1` | the contact opts out after the launch: neither claim nor delivery (`worker.go:192-222`) looks again | `model.go:311-313` "a única porta de entrada para um disparo" |
| `NeverRegresses` (action) | `CampaignDispatch_order` | `HooksOverlap = TRUE`, `MaxReplies = 0`, `MaxSaves = 0`, `MaxFaults = 0` | two webhooks read the same status and write theirs in the other order (`store.go:1089-1110`) | `store.go:1100` "\"lido\" depois de \"entregue\" não regride" |
| `FinishedIsDrained` | `CampaignDispatch_order` | `MaxHooks = 0`, `MaxReplies = 0`, `MaxRequests = 2`, `MaxSaves = 0`, `MaxFaults = 0` | a launch adds rows between the reading of the drained campaigns and the update that finishes them (`worker.go:256-258`): the rows stay queued | `worker.go:229-230` "sem nenhum envio na fila está concluída"; `uhumarketing-api/README.md:194` "Campanha em execução sempre tem fila" |
| `LaunchedWasApproved` | `CampaignDispatch_order` | `MaxRequests = 2`, `MaxSaves = 0`, `Contacts <- TwoContacts`, `Reviewed <- FirstCampaign` | a test sets a draft to running (`service.go:241-307`), and the launch asks for approval only of drafts (`service.go:173`) | `service.go:174-175` "esta campanha exige aprovação humana" |
| `ApprovalIsKept` (action) | `Editor_edits` | as it is | a PUT reads the template as a draft under review, Meta approves by webhook, and the PUT writes what it read (`state.go:83-145`) | `state.go:34-35` "senão um salvamento de outra tela apagaria a aprovação da Meta" |
| `BannersWait` | `RoomClient_pages` | as it is | an unanswered request expires: it is swept without a broadcast (`knock.go:173-176`), and a click on its banner is ignored and told to nobody (`knock.go:120-123`); the banner stays until the page is reloaded or its socket replaced | `knock.go:113-116` "the banner disappears everywhere at once instead of staying stuck" |
| `ApprovalLasts` (action) | `RoomClient_pages` | as it is | an approval is swept by the age of the request (`knock.go:178`), though its token is valid from the approval on (`knock.go:158`) | `knock.go:141-144` "for its whole TTL" |
| `ReloadNeedsNoKnock` (action) | `RoomClient_pages` | as it is | the token is in React's state only (`Room.tsx:60`): a reload is back at the gate | `knock.go:28-33` "can reconnect (a network blip, a reload) without a second knock" |
| `NewcomersCatchUp` | `RoomClient_pages` | as it is | a request falls between the reading of the list and the sending of the welcome (`ws.go:160-180`): its message comes first and the welcome replaces it (`useRoom.ts:587-592`) | `knock.go:95-97` "sees requests that were broadcast before they connected, not just new ones" |
| `AnsweredAreGone` | `RoomClient_pages` | `InstantClicks = TRUE` | a request is answered from a welcome's list before it was announced (`knock.go:74-76`): the announcement comes last, and its banner stays | `knock.go:113-116`, as above |
| `ErrorMeansExpired` | `RoomClient_pages` | as it is | any error of a poll is shown as a refusal (`Room.tsx:280-284`), while the request waits, and may be approved | `Room.tsx:281-282` "A 404 here means the request expired" |
| `AnsweredRoomsSurvive` | `RoomRegistry_life` | `Overlap = TRUE` | one handler cuts the temporary file that another is about to rename (`store.go:110-114`): the file does not parse, and a restart has no room at all | `store.go:104-105` "a crash mid-write leaves the previous file intact" |
| `DeletedStaysDeleted` | `RoomRegistry_life` | `Overlap = TRUE` | the set taken before the deletion is written last: the room is back after a restart | `server.go:199-200` "destroy a room immediately" |
| `NobodyInAGhost` | `RoomRegistry_life` | as it is | `Delete` tells nobody (`rooms.go:199-203`), nor does the janitor: who is inside stays, and one whose handshake had found the room joins it | `Room.tsx:521-522` "(idle reaper, or deleted) -- everyone goes home" |
| `GoneIsKnown` (temporal) | `RoomRegistry_life` | as it is | a page whose room is gone gets a 404 that a WebSocket does not show; `onclose` tries again, for ever (`useRoom.ts:555-563`) | `idle.go:27-28` "reconnects fail with a 404, which is how a client learns the room is really gone" |
| `CountdownIsShown` | `RoomRegistry_life` | as it is | the warning falls between `ClosingAtMillis` and the welcome (`ws.go:160-180`), which hides it again (`useRoom.ts:593-595`) | `ws.go:168-170` "must not hide the countdown" |
| `StopStartsTheClock` (action) | `RoomRegistry_life` | as it is | the one who shares leaves or loses the socket: `Leave` stamps no `lastPublishChange` (`peer.go:159-166`), so the room may be warned at once | `idle.go:14-16` "Any publish starting or stopping resets the clock" |

Met on the way, in the code's own terms and without a property:

- **Saving the document** (`storeRemote.tsx`). A segment created while a PUT is under way
  is replaced by the server's list, though lines 156-161 say that the local text
  remains. A pause is undone by the answer to a poll or PUT asked for before the click,
  and the next PUT sends "running" again. A failed PUT followed by a successful reload, or
  by the answer of `createTemplate`'s submission, shows "saved" while the poll stays off.
  `flush` never throws, so the settings page says "salvos" after a failure, and a publish
  or submission goes on. Overlapping PUTs may land in the other order, a second tab's
  document undoes the first one's, and a webhook that comes before
  `MarkTemplateSubmitted` finds no template. The token is read when a request is made: a
  tab of one account writes into the workspace of the account logged in elsewhere
  (`App.tsx:85-87`), and a late 401 clears a new session's token.
- **Flows.** "Ativar" in the list activates a flow with errors (`validate.ts:4-5`: an
  error prevents it). Removing the last block, or finishing a torn connection, makes
  the server refuse every later PUT, and the screen has no way to remove such a
  connection. A name of one or two letters is accepted by the form and refused by
  the server. With a block switched off, the validation walks on and the
  simulation stops; with several triggers the first reports each and the second takes
  one. A dedupe before any filter empties the audience; a source after a filter makes
  the messages exceed the universe.
- **Finance.** A re-import undoes the owner's category and, after a restart, brings a
  removed row back. What the bank enriches later is not read again before a
  restart, though `finance_repository.go:64-68` counts on it. A transaction whose
  submit failed, or which was created during a pass, waits for a restart and is then
  historical. Budgets' thresholds are evaluated only by `SetCategoryBudget`.
  `tick_server.py:52-53` says that the lock covers the poll loop. The edit form turns
  "1.234,56" into "1.234.56", which `ParseMoney` refuses while the screen says that it was
  corrected, and an open form is closed by the reload after a toggle.
- **Room clients.** `subscribe:error` and `publish:error` carry no `seq`, so a stale error
  rejects a newer offer. A timed retry starts a viewer whatever happened since. A
  publication that fails after a new socket or in the recovery is swallowed
  (`useRoom.ts:330`, `:622`): the person's own tile goes on and nobody receives it. A
  track that ends before its publisher listens is not noticed.
- **Knocks.** `onerror` sets the status "error" only for the moment until `onclose`
  sets "reconnecting" (`useRoom.ts:555-565`): the offer to type the password again
  (`Room.tsx:966-976`) is hardly seen, and a page whose token or password is refused tries
  for ever. Denied requests count against the queue's limit for thirty minutes.

## 8. What is not modelled

- **Inside the modelled parts.** CommandPipeline: malformed JSON, the length cap of
  the events queue (`amqp.go:124-145`), what `Handle` does to the ledger.
  CustomerSupport: what a text means and how an answer reads. RoomPresence: rename,
  chat relay, subscriptions, keep-alive messages, the reset of a room beyond
  the new socket. RoomPublisher: the microphone, the quality, the clip recorder.
  RoomViewers: hiding a video locally, the grace of a leaving tile.
  CampaignDispatch: several workspaces, the throttle beyond a batch's size, renewed
  consent, the hours of the window; SKIP LOCKED between two claims at the very same time
  (a claim is one action). EditorSync: contacts and their import, sessions and
  tokens, more than one template and campaign. FlowEditor: positions, titles, copies
  of a flow, negative limits and halves in Math.round (`Limit \in Nat`). BankImport:
  accounts, cards and investments, which are registered the same way, the provider's
  paging, signatures, transfers. RoomKnock: two polls of one lobby at once, a full buffer,
  the rate limiter, an approval without a token. RoomRegistry: errors of the disk, a code
  used again, an old socket beside its successor (RoomPresence has it), messages under way
  (a broadcast is read at once).
- **Planned** (section 9): the rest of the ledger, the token bucket, the send window.
- **Not worth a model**: domain-api's queries, finance-api, which relays, federation,
  TURN, clips, telemetry, contracts, infrastructure, manifests and CI keep no protocol
  state that others read. The same goes for most of the TypeScript: pages, layout,
  charts, styling, catalogues, types and the landing page, which read the stores and
  hooks that are modelled. So the map reaches about an eighth of the TypeScript: the
  store, the hooks and the handlers that change state, and the pure rules of flows.

## 9. Plan

Done: every module of section 3, with proofs of the safety of all of them.

Next, in this order:

1. `Ledger`: transfers and budgets under redelivery. Properties: a threshold fires once
   and its alert is not lost (expected to fail, `service.go:348`); a transfer has both
   legs or none.
2. The clip recorder and the microphone, on top of `RoomPublisher`.
3. `MoneyArithmetic`, `SendWindow`, `TokenBucket`: pure, against reference definitions.
4. Compositions: one room of `RoomPresence` within `RoomRegistry`; `CustomerSupport` and
   `BankImport` over `ReliableDelivery` in place of their own environments; `Ledger` as what
   `HandleApplies` does.

## 10. Running it

```
tlasany EditorSync.tla
tlc -workers 2 -config RoomClient_pages.cfg MCRoomClient.tla
tlapm BankImportProofs.tla
```

Every run ends within a few minutes on two workers, and so do the proofs.
`PROJECT.json` lists the runs with their properties, the hazards the properties are
aimed at, and for each property a fault variant that breaks it.
