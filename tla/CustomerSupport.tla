---------------------------- MODULE CustomerSupport ----------------------------
(***************************************************************************)
(* finance-customersupport-worker: one process with two consumers on one   *)
(* event loop.  The chat consumer turns a WhatsApp message into a command  *)
(* for finance-api and answers the user; the event consumer tells users    *)
(* what domain-worker did.  Both deliveries are at-least-once and what the *)
(* worker remembers of them is in memory only, so the model is about what  *)
(* is done twice, told twice, or not told.                                 *)
(*                                                                         *)
(* The code between two awaits is one action.  finance-api and everything  *)
(* behind it (see CommandPipeline) are reduced to what the worker can      *)
(* observe: a command is accepted, and events of it arrive, some of them   *)
(* more than once.                                                         *)
(***************************************************************************)
EXTENDS Naturals, FiniteSets

CONSTANTS
  Messages,       \* ids of the messages users send
  Writes,         \* the ones that ask for a write; the others ask for a read
  MaxCommands,    \* bound: commands accepted, of this worker and of others
  MaxCopies,      \* bound: times a message is published
  MaxEventCopies, \* bound: times an event is published
  MaxCrashes,     \* bound: restarts of the worker
  LoopsMayFail,   \* whether an acknowledgement may raise and end the process
  MaxHttpFaults,  \* bound: failed calls to finance-api
  MaxSendFaults   \* bound: failed sends to WhatsApp

\* The origin of a command no message of this worker asked for: another
\* client, or the Open Finance connector reading a transaction again.
Other == "other"

ASSUME SupportAssumption ==
  /\ Writes \subseteq Messages /\ Other \notin Messages /\ "none" \notin Messages
  /\ LoopsMayFail \in BOOLEAN
  /\ MaxCommands \in Nat /\ MaxCopies \in Nat \ {0} /\ MaxEventCopies \in Nat
  /\ MaxCrashes \in Nat /\ MaxHttpFaults \in Nat /\ MaxSendFaults \in Nat

\* Command ids are fresh for every accepted submission.
Commands == 1..MaxCommands

\* The two families of events: the confirmation of a command and a budget
\* alert, which is new information.
Events == {"confirmation", "alert"} \X Commands

VARIABLES
  msgCopies,   \* msgCopies[m]: copies of m waiting in evolution.messages.upsert
  msgPublished,\* msgPublished[m]: times Evolution published m
  evCopies,    \* evCopies[e]: copies of e waiting in finance.customersupport.events
  evPublished, \* evPublished[e]: times domain-worker published e
  origin,      \* origin[c]: the message c was submitted for, Other, or "none"
  (* memory of the process *)
  seen, seenEvents, selfCommands,
  chat,        \* the chat consumer: step, message, command it got, outcome
  proactive,   \* the event consumer: step and event
  (* what users saw, read by properties only *)
  answered,    \* messages that got an answer
  told,        \* told[c]: messages that confirmed c to the user
  notified,    \* notified[k]: proactive messages sent about k
  denied,      \* commands whose user was told that they failed
  echoes,      \* commands whose confirmation was dropped as an echo
  faults

queueVars  == <<msgCopies, msgPublished, evCopies, evPublished, origin>>
memVars    == <<seen, seenEvents, selfCommands>>
userVars   == <<answered, told, notified, denied, echoes>>
vars == <<queueVars, memVars, chat, proactive, userVars, faults>>

\* What an event tells its user.  The connector reads one transaction again
\* and again, each time in a command of its own.
Subject(e) ==
  IF e[1] = "confirmation" /\ origin[e[2]] = Other THEN <<"confirmation", 0>> ELSE e

\* Fault variant: every notification is keyed by its event id.
Key_EventId(e) == e

\* The dedup key of a notification: the transaction for a confirmation, the
\* event id otherwise.
Key(e) == Subject(e)

Keys == Events \cup {<<"confirmation", 0>>}

ChatIdle == [step |-> "idle", msg |-> "none", cmd |-> 0, outcome |-> "none"]
EventIdle == [step |-> "idle", event |-> <<"none", 0>>]

TypeOK ==
  /\ msgCopies \in [Messages -> 0..MaxCopies] /\ msgPublished \in [Messages -> 0..MaxCopies]
  /\ evCopies \in [Events -> 0..MaxEventCopies] /\ evPublished \in [Events -> 0..MaxEventCopies]
  /\ origin \in [Commands -> Messages \cup {Other, "none"}]
  /\ seen \subseteq Messages /\ seenEvents \subseteq Keys /\ selfCommands \subseteq Commands
  /\ chat \in [step: {"idle", "submit", "response", "reply", "ack"},
               msg: Messages \cup {"none"}, cmd: Commands \cup {0},
               outcome: {"none", "accepted", "rejected", "queued", "failed", "shown"}]
  /\ chat.step # "idle" => chat.msg \in Messages
  /\ proactive \in [step: {"idle", "send", "ack"}, event: Events \cup {<<"none", 0>>}]
  /\ proactive.step # "idle" => proactive.event \in Events
  /\ answered \subseteq Messages /\ told \in [Commands -> Nat] /\ notified \in [Keys -> Nat]
  /\ denied \subseteq Commands /\ echoes \subseteq Commands
  /\ faults \in [crashes: 0..MaxCrashes, http: 0..MaxHttpFaults, send: 0..MaxSendFaults]

Init ==
  /\ msgCopies = [m \in Messages |-> 0] /\ msgPublished = [m \in Messages |-> 0]
  /\ evCopies = [e \in Events |-> 0] /\ evPublished = [e \in Events |-> 0]
  /\ origin = [c \in Commands |-> "none"]
  /\ seen = {} /\ seenEvents = {} /\ selfCommands = {}
  /\ chat = ChatIdle /\ proactive = EventIdle
  /\ answered = {} /\ told = [c \in Commands |-> 0] /\ notified = [k \in Keys |-> 0]
  /\ denied = {} /\ echoes = {}
  /\ faults = [crashes |-> 0, http |-> 0, send |-> 0]

-----------------------------------------------------------------------------
(* Evolution, finance-api and domain-worker, as the worker sees them.      *)

\* Evolution publishes a message; at-least-once, so perhaps again.
EvolutionPublishes(m) ==
  /\ msgPublished[m] < MaxCopies
  /\ msgPublished' = [msgPublished EXCEPT ![m] = @ + 1]
  /\ msgCopies' = [msgCopies EXCEPT ![m] = @ + 1]
  /\ UNCHANGED <<evCopies, evPublished, origin, memVars, chat, proactive, userVars, faults>>

\* The ids are given in order.
Fresh(c) == origin[c] = "none" /\ \A d \in 1..(c - 1) : origin[d] # "none"

\* A command that this worker did not submit is accepted.
OthersSubmit(c) ==
  /\ Fresh(c)
  /\ origin' = [origin EXCEPT ![c] = Other]
  /\ UNCHANGED <<msgCopies, msgPublished, evCopies, evPublished, memVars, chat, proactive,
                 userVars, faults>>

\* domain-worker publishes an event of an accepted command, or its relay
\* publishes it again.
EventPublished(e) ==
  /\ origin[e[2]] # "none" /\ evPublished[e] < MaxEventCopies
  /\ evPublished' = [evPublished EXCEPT ![e] = @ + 1]
  /\ evCopies' = [evCopies EXCEPT ![e] = @ + 1]
  /\ UNCHANGED <<msgCopies, msgPublished, origin, memVars, chat, proactive, userVars, faults>>

\* finance-api accepts the command of the request in flight.  An acceptance
\* after the client gave up counts as one before it: the worker cannot tell.
FinanceAccepts(c) ==
  /\ chat.step = "submit" /\ Fresh(c)
  /\ origin' = [origin EXCEPT ![c] = chat.msg]
  /\ chat' = [chat EXCEPT !.step = "response", !.cmd = c]
  /\ UNCHANGED <<msgCopies, msgPublished, evCopies, evPublished, memVars, proactive,
                 userVars, faults>>

-----------------------------------------------------------------------------
(* The chat consumer.                                                      *)

\* Fault variant: the message is acknowledged when it is taken.
ChatTakes_AcksFirst(m) ==
  /\ chat.step = "idle" /\ msgCopies[m] > 0
  /\ msgCopies' = [msgCopies EXCEPT ![m] = 0]
  /\ seen' = seen \cup {m}
  /\ \/ m \in seen /\ UNCHANGED chat
     \/ m \notin seen /\ chat' = [ChatIdle EXCEPT !.step = "reply", !.msg = m, !.outcome = "shown"]
  /\ UNCHANGED <<msgPublished, evCopies, evPublished, origin, seenEvents, selfCommands,
                 proactive, userVars, faults>>

\* Fault variant: the id of the message is not remembered.
ChatTakes_Forgets(m) ==
  /\ chat.step = "idle" /\ msgCopies[m] > 0
  /\ chat' = [ChatIdle EXCEPT !.step = IF m \in Writes THEN "submit" ELSE "reply", !.msg = m]
  /\ UNCHANGED <<queueVars, memVars, proactive, userVars, faults>>

\* handle, up to its first await: a message seen before is only acknowledged;
\* a new one is remembered before anything is done about it.  A read awaits
\* finance-api as well, but whatever comes of that the user gets a reply.
ChatTakes(m) ==
  /\ chat.step = "idle" /\ msgCopies[m] > 0
  /\ seen' = seen \cup {m}
  /\ \/ /\ m \in seen
        /\ chat' = [ChatIdle EXCEPT !.step = "ack", !.msg = m]
     \/ /\ m \in Writes \ seen
        /\ chat' = [ChatIdle EXCEPT !.step = "submit", !.msg = m]
     \/ /\ m \notin Writes \cup seen
        /\ chat' = [ChatIdle EXCEPT !.step = "reply", !.msg = m, !.outcome = "shown"]
  /\ UNCHANGED <<queueVars, seenEvents, selfCommands, proactive, userVars, faults>>

\* The answer arrives: 202, and the command id is remembered as ours.
SubmitAccepted ==
  /\ chat.step = "response"
  /\ selfCommands' = selfCommands \cup {chat.cmd}
  /\ chat' = [chat EXCEPT !.step = "reply", !.outcome = "accepted"]
  /\ UNCHANGED <<queueVars, seen, seenEvents, proactive, userVars, faults>>

\* 422: finance-api refused the payload, nothing was published.
SubmitRejected ==
  /\ chat.step = "submit"
  /\ chat' = [chat EXCEPT !.step = "reply", !.outcome = "rejected"]
  /\ UNCHANGED <<queueVars, memVars, proactive, userVars, faults>>

HttpFault ==
  /\ faults.http < MaxHttpFaults
  /\ faults' = [faults EXCEPT !.http = @ + 1]

\* finance-api answers 504 because domain-api was slow: the user is told
\* that the command is queued.
SubmitQueued ==
  /\ chat.step \in {"submit", "response"} /\ HttpFault
  /\ chat' = [chat EXCEPT !.step = "reply", !.outcome = "queued"]
  /\ UNCHANGED <<queueVars, memVars, proactive, userVars>>

\* Any other error, a timeout of the worker's own client among them: the
\* user is told that the command failed.
SubmitFails ==
  /\ chat.step \in {"submit", "response"} /\ HttpFault
  /\ chat' = [chat EXCEPT !.step = "reply", !.outcome = "failed"]
  /\ UNCHANGED <<queueVars, memVars, proactive, userVars>>

\* The reply is sent.
ChatReplies ==
  /\ chat.step = "reply"
  /\ chat' = [chat EXCEPT !.step = "ack"]
  /\ answered' = answered \cup {chat.msg}
  /\ told' = IF chat.outcome = "accepted" THEN [told EXCEPT ![chat.cmd] = @ + 1] ELSE told
  /\ denied' = IF chat.outcome = "failed" THEN denied \cup ({chat.cmd} \ {0}) ELSE denied
  /\ UNCHANGED <<queueVars, memVars, proactive, notified, echoes, faults>>

SendFault ==
  /\ faults.send < MaxSendFaults
  /\ faults' = [faults EXCEPT !.send = @ + 1]

\* Evolution refuses the reply: logged, and the message counts as handled.
ChatReplyFails ==
  /\ chat.step = "reply" /\ SendFault
  /\ chat' = [chat EXCEPT !.step = "ack"]
  /\ UNCHANGED <<queueVars, memVars, proactive, userVars>>

\* process() leaves its block: the copy is acknowledged.
ChatAcks ==
  /\ chat.step = "ack"
  /\ msgCopies' = [msgCopies EXCEPT ![chat.msg] = @ - 1]
  /\ chat' = ChatIdle
  /\ UNCHANGED <<msgPublished, evCopies, evPublished, origin, memVars, proactive, userVars, faults>>

-----------------------------------------------------------------------------
(* The event consumer.                                                     *)

\* Fault variant: every event of an own command is an echo.
IsEcho_AnyFamily(e) == e[2] \in selfCommands

\* The confirmation of a command of ours, which the user was answered about.
IsEcho(e) == e[1] = "confirmation" /\ e[2] \in selfCommands

\* handle_domain_event, up to its await: drop an echo, drop what was notified
\* already, remember the key of the rest.
EventTakes(e) ==
  /\ proactive.step = "idle" /\ evCopies[e] > 0
  /\ \/ /\ IsEcho(e) /\ echoes' = echoes \cup {e[2]}
        /\ proactive' = [step |-> "ack", event |-> e]
        /\ UNCHANGED seenEvents
     \/ /\ ~IsEcho(e) /\ Key(e) \in seenEvents
        /\ proactive' = [step |-> "ack", event |-> e]
        /\ UNCHANGED <<seenEvents, echoes>>
     \/ /\ ~IsEcho(e) /\ Key(e) \notin seenEvents
        /\ seenEvents' = seenEvents \cup {Key(e)}
        /\ proactive' = [step |-> "send", event |-> e]
        /\ UNCHANGED echoes
  /\ UNCHANGED <<queueVars, seen, selfCommands, chat, answered, told, notified, denied, faults>>

EventSends ==
  /\ proactive.step = "send"
  /\ LET e == proactive.event IN
       /\ notified' = [notified EXCEPT ![Subject(e)] = @ + 1]
       /\ told' = IF e[1] = "confirmation" THEN [told EXCEPT ![e[2]] = @ + 1] ELSE told
  /\ proactive' = [proactive EXCEPT !.step = "ack"]
  /\ UNCHANGED <<queueVars, memVars, chat, answered, denied, echoes, faults>>

\* The send fails: logged, and the event counts as handled.
EventSendFails ==
  /\ proactive.step = "send" /\ SendFault
  /\ proactive' = [proactive EXCEPT !.step = "ack"]
  /\ UNCHANGED <<queueVars, memVars, chat, userVars>>

\* Fault variant: the copy is acknowledged and kept in hand.
EventAcks_KeepsIt ==
  /\ proactive.step = "ack"
  /\ evCopies' = [evCopies EXCEPT ![proactive.event] = @ - 1]
  /\ UNCHANGED <<msgCopies, msgPublished, evPublished, origin, memVars, chat, proactive,
                 userVars, faults>>

EventAcks ==
  /\ proactive.step = "ack"
  /\ evCopies' = [evCopies EXCEPT ![proactive.event] = @ - 1]
  /\ proactive' = EventIdle
  /\ UNCHANGED <<msgCopies, msgPublished, evPublished, origin, memVars, chat, userVars, faults>>

-----------------------------------------------------------------------------
\* What the process remembered is gone.
Restart ==
  /\ faults.crashes < MaxCrashes
  /\ faults' = [faults EXCEPT !.crashes = @ + 1]
  /\ seen' = {} /\ seenEvents' = {} /\ selfCommands' = {}
  /\ chat' = ChatIdle /\ proactive' = EventIdle
  /\ UNCHANGED <<msgPublished, evPublished, origin, userVars>>

\* The process is killed, by a redeploy for example.  What it had not
\* acknowledged is delivered again: a copy counts as queued until then.
Crash == Restart /\ UNCHANGED <<msgCopies, evCopies>>

\* The connection of one loop is gone when it acknowledges: that raises, the
\* loops are gathered, and the other loop is cancelled.  Its process() block
\* ends with an exception and rejects the copy it has in hand, not to be
\* delivered again.
ChatLoopFails ==
  /\ LoopsMayFail /\ chat.step = "ack"
  /\ Restart
  /\ evCopies' = IF proactive.step = "send" THEN [evCopies EXCEPT ![proactive.event] = @ - 1]
                                            ELSE evCopies
  /\ UNCHANGED msgCopies

EventLoopFails ==
  /\ LoopsMayFail /\ proactive.step = "ack"
  /\ Restart
  /\ msgCopies' = IF chat.step \in {"submit", "response", "reply"}
                  THEN [msgCopies EXCEPT ![chat.msg] = @ - 1] ELSE msgCopies
  /\ UNCHANGED evCopies

Outside ==
  \/ \E m \in Messages : EvolutionPublishes(m)
  \/ \E c \in Commands : OthersSubmit(c)
  \/ \E e \in Events : EventPublished(e)
  \/ Crash \/ ChatLoopFails \/ EventLoopFails

Submit ==
  \/ \E c \in Commands : FinanceAccepts(c)
  \/ SubmitAccepted \/ SubmitRejected \/ SubmitQueued \/ SubmitFails

Chat ==
  \/ \E m \in Messages : ChatTakes(m)
  \/ ChatReplies \/ ChatReplyFails \/ ChatAcks

Proactive ==
  \/ \E e \in Events : EventTakes(e)
  \/ EventSends \/ EventSendFails \/ EventAcks

Next == Outside \/ Submit \/ Chat \/ Proactive

Spec == Init /\ [][Next]_vars

\* Both loops keep running, the HTTP client has a timeout, and each queue is
\* served in order, so no copy waits for ever.  Nothing outside is required
\* to happen.
Fairness ==
  /\ WF_vars(Submit)
  /\ WF_vars(Chat) /\ \A m \in Messages : SF_vars(ChatTakes(m))
  /\ WF_vars(Proactive) /\ \A e \in Events : SF_vars(EventTakes(e))

FairSpec == Spec /\ Fairness

-----------------------------------------------------------------------------
(* Safety.                                                                 *)

CommandsOf(m) == {c \in Commands : origin[c] = m}

\* A message, however often it is delivered, becomes at most one command in
\* each lifetime of the process: the id is remembered before the first await.
OneCommandPerLife == \A m \in Messages : Cardinality(CommandsOf(m)) <= 1 + faults.crashes

\* A transaction, however many commands and copies carry it, is notified at
\* most once in each lifetime of the process; and so is an alert.
NotifiedOncePerLife == \A k \in Keys : notified[k] <= 1 + faults.crashes

(* Liveness.                                                               *)

\* Every message is answered in the end, however often the process is killed,
\* if WhatsApp takes the replies.
MessagesAreAnswered == \A m \in Messages : msgCopies[m] > 0 ~> m \in answered

\* An alert always gets through, even when its command is ours.
AlertsGetThrough ==
  \A c \in Commands : evCopies[<<"alert", c>>] > 0 ~> notified[<<"alert", c>>] > 0

(* What the comments say and the code does not do.                         *)

\* "a mesma mensagem entregue duas vezes tem efeito único".
UniqueEffect == \A m \in Messages : Cardinality(CommandsOf(m)) <= 1

\* "o worker não confirma duas vezes o mesmo comando".
ConfirmedOnce == \A c \in Commands : told[c] <= 1

\* "Timeout não é falha": who is told that it failed has no accepted command.
FailureIsFinal == denied = {}

\* "se o command_id bate, o usuário já recebeu a resposta na hora": an echo is
\* dropped only if its user was told, or the reply is on its way.
EchoWasTold ==
  \A c \in echoes : told[c] > 0 \/ (chat.cmd = c /\ chat.step = "reply")
=============================================================================
