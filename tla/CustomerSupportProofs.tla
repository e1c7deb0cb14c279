------------------------- MODULE CustomerSupportProofs -------------------------
(***************************************************************************)
(* CustomerSupport for every set of messages, every number of commands and *)
(* of copies of each message and event, and every number of restarts and   *)
(* of faults.                                                              *)
(***************************************************************************)
EXTENDS CustomerSupport, FiniteSetTheorems, TLAPS

\* No queue holds more copies than were published, and the copy in hand stays
\* in its queue until it is acknowledged.
Copies ==
  /\ \A m \in Messages : msgCopies[m] <= msgPublished[m]
  /\ \A e \in Events : evCopies[e] <= evPublished[e]
  /\ chat.step # "idle" => msgCopies[chat.msg] > 0
  /\ proactive.step # "idle" => evCopies[proactive.event] > 0
  /\ chat.step = "response" => chat.cmd \in Commands

\* Events are published of accepted commands only.
Accepted == \A e \in Events : evPublished[e] > 0 => origin[e[2]] # "none"

TypeInv == TypeOK /\ Copies

-----------------------------------------------------------------------------
(* Types.                                                                    *)

Chats == [step: {"idle", "submit", "response", "reply", "ack"},
          msg: Messages \cup {"none"}, cmd: Commands \cup {0},
          outcome: {"none", "accepted", "rejected", "queued", "failed", "shown"}]
EventsInHand == [step: {"idle", "send", "ack"}, event: Events \cup {<<"none", 0>>}]

LEMMA IdleIsTyped == ChatIdle \in Chats /\ EventIdle \in EventsInHand
BY DEF ChatIdle, EventIdle, Chats, EventsInHand

LEMMA InitIsTyped == Init => TypeInv
<1> SUFFICES ASSUME Init PROVE TypeInv
  OBVIOUS
<1> USE SupportAssumption DEF SupportAssumption, Init
<1>1. TypeOK
  BY IdleIsTyped DEF TypeOK, Chats, EventsInHand, ChatIdle, EventIdle
<1>2. Copies
  BY DEF Copies, ChatIdle, EventIdle
<1> QED BY <1>1, <1>2 DEF TypeInv

LEMMA KeyIsTyped ==
  ASSUME NEW e \in Events
  PROVE  Subject(e) \in Keys /\ Key(e) \in Keys
BY DEF Subject, Key, Keys

LEMMA OutsideIsTyped ==
  ASSUME TypeInv, Outside
  PROVE  TypeInv'
<1> USE SupportAssumption DEF SupportAssumption, TypeInv
<1>1. ASSUME NEW m \in Messages, EvolutionPublishes(m) PROVE TypeInv'
  <2>1. TypeOK'
    <3>1. /\ msgPublished[m] + 1 \in 0..MaxCopies /\ msgCopies[m] + 1 \in 0..MaxCopies
      BY <1>1 DEF EvolutionPublishes, TypeOK, Copies
    <3> QED BY <1>1, <3>1 DEF EvolutionPublishes, TypeOK, memVars, userVars
  <2>2. Copies'
    BY <1>1 DEF EvolutionPublishes, TypeOK, Copies
  <2> QED BY <2>1, <2>2
<1>2. ASSUME NEW c \in Commands, OthersSubmit(c) PROVE TypeInv'
  BY <1>2 DEF OthersSubmit, TypeOK, Copies, memVars, userVars
<1>3. ASSUME NEW e \in Events, EventPublished(e) PROVE TypeInv'
  <2>1. TypeOK'
    <3>1. /\ evPublished[e] + 1 \in 0..MaxEventCopies /\ evCopies[e] + 1 \in 0..MaxEventCopies
      BY <1>3 DEF EventPublished, TypeOK, Copies
    <3> QED BY <1>3, <3>1 DEF EventPublished, TypeOK, memVars, userVars
  <2>2. Copies'
    BY <1>3 DEF EventPublished, TypeOK, Copies
  <2> QED BY <2>1, <2>2
<1>4. ASSUME Restart, msgCopies' \in [Messages -> 0..MaxCopies],
             evCopies' \in [Events -> 0..MaxEventCopies],
             \A m \in Messages : msgCopies'[m] <= msgCopies[m],
             \A e \in Events : evCopies'[e] <= evCopies[e]
      PROVE  TypeInv'
  <2>1. faults' \in [crashes: 0..MaxCrashes, http: 0..MaxHttpFaults, send: 0..MaxSendFaults]
    BY <1>4 DEF Restart, TypeOK
  <2>2. TypeOK'
    BY <1>4, <2>1, IdleIsTyped
    DEF Restart, TypeOK, userVars, Chats, EventsInHand, ChatIdle, EventIdle
  <2>3. Copies'
    BY <1>4 DEF Restart, TypeOK, Copies, ChatIdle, EventIdle
  <2> QED BY <2>2, <2>3
<1>5. CASE Crash
  BY <1>4, <1>5 DEF Crash, TypeOK
<1>6. CASE ChatLoopFails
  BY <1>4, <1>6 DEF ChatLoopFails, TypeOK, Copies
<1>7. CASE EventLoopFails
  BY <1>4, <1>7 DEF EventLoopFails, TypeOK, Copies
<1> QED BY <1>1, <1>2, <1>3, <1>5, <1>6, <1>7 DEF Outside

LEMMA LoopsAreTyped ==
  ASSUME TypeInv, Submit \/ Chat \/ Proactive
  PROVE  TypeInv'
<1> USE SupportAssumption DEF SupportAssumption, TypeInv
<1>1. ASSUME UNCHANGED <<msgCopies, msgPublished, evCopies, evPublished>>,
             chat'.step # "idle" => msgCopies[chat'.msg] > 0,
             proactive'.step # "idle" => evCopies[proactive'.event] > 0,
             chat'.step = "response" => chat'.cmd \in Commands
      PROVE  Copies'
  BY <1>1 DEF Copies
<1>2. CASE Submit
  <2>1. ASSUME chat.step \in {"submit", "response"}, chat'.msg = chat.msg, chat' \in Chats,
               chat'.step = "response" => chat'.cmd \in Commands,
               UNCHANGED <<msgCopies, msgPublished, evCopies, evPublished, seen, seenEvents,
                           proactive, userVars>>,
               origin' \in [Commands -> Messages \cup {Other, "none"}],
               selfCommands' \subseteq Commands,
               faults' \in [crashes: 0..MaxCrashes, http: 0..MaxHttpFaults, send: 0..MaxSendFaults]
        PROVE  TypeInv'
    <3>1. TypeOK'
      BY <2>1 DEF TypeOK, Chats, userVars
    <3> QED BY <1>1, <2>1, <3>1 DEF Copies
  <2>2. ASSUME NEW c \in Commands, FinanceAccepts(c) PROVE TypeInv'
    <3>1. chat.msg \in Messages /\ chat' \in Chats /\ chat'.msg = chat.msg /\ chat'.cmd = c
      BY <2>2 DEF FinanceAccepts, TypeOK, Chats
    <3> QED BY <2>1, <2>2, <3>1 DEF FinanceAccepts, TypeOK, memVars
  <2>3. CASE SubmitAccepted
    <3>1. chat' \in Chats /\ chat'.msg = chat.msg /\ chat'.step = "reply"
          /\ selfCommands' = selfCommands \cup {chat.cmd}
      BY <2>3 DEF SubmitAccepted, TypeOK, Chats
    <3>2. chat.cmd \in Commands
      BY <2>3 DEF SubmitAccepted, TypeInv, Copies
    <3> QED BY <2>1, <2>3, <3>1, <3>2 DEF SubmitAccepted, TypeOK, queueVars
  <2>4. CASE SubmitRejected \/ SubmitQueued \/ SubmitFails
    <3>1. chat' \in Chats /\ chat'.msg = chat.msg /\ chat'.step = "reply"
      <4> USE DEF TypeOK, Chats
      <4>1. CASE SubmitRejected
        BY <4>1 DEF SubmitRejected
      <4>2. CASE SubmitQueued
        BY <4>2 DEF SubmitQueued
      <4>3. CASE SubmitFails
        BY <4>3 DEF SubmitFails
      <4> QED BY <2>4, <4>1, <4>2, <4>3
    <3>2. faults' \in [crashes: 0..MaxCrashes, http: 0..MaxHttpFaults, send: 0..MaxSendFaults]
      BY <2>4 DEF SubmitRejected, SubmitQueued, SubmitFails, HttpFault, TypeOK
    <3> QED BY <2>1, <2>4, <3>1, <3>2
            DEF SubmitRejected, SubmitQueued, SubmitFails, TypeOK, queueVars, memVars
  <2> QED BY <1>2, <2>2, <2>3, <2>4 DEF Submit
<1>3. CASE Chat
  <2>1. ASSUME NEW m \in Messages, ChatTakes(m) PROVE TypeInv'
    <3>1. /\ chat' \in Chats /\ chat'.msg = m /\ chat'.step # "response" /\ seen' = seen \cup {m} /\ msgCopies[m] > 0
          /\ UNCHANGED <<queueVars, seenEvents, selfCommands, proactive, userVars, faults>>
      BY <2>1 DEF ChatTakes, Chats, ChatIdle
    <3>2. TypeOK'
      BY <3>1 DEF TypeOK, Chats, queueVars, userVars
    <3> QED BY <1>1, <3>1, <3>2 DEF Copies, queueVars
  <2>2. CASE ChatReplies \/ ChatReplyFails
    <3>1. /\ chat.step = "reply" /\ chat'.step = "ack" /\ chat' \in Chats /\ chat'.msg = chat.msg
          /\ UNCHANGED <<queueVars, memVars, proactive>>
      BY <2>2 DEF ChatReplies, ChatReplyFails, TypeOK, Chats
    <3>2. /\ answered' \subseteq Messages /\ told' \in [Commands -> Nat] /\ notified' = notified
          /\ denied' \subseteq Commands /\ echoes' = echoes
          /\ faults' \in [crashes: 0..MaxCrashes, http: 0..MaxHttpFaults, send: 0..MaxSendFaults]
      BY <2>2 DEF ChatReplies, ChatReplyFails, SendFault, TypeOK, userVars
    <3>3. TypeOK'
      BY <3>1, <3>2 DEF TypeOK, Chats, queueVars, memVars
    <3> QED BY <1>1, <3>1, <3>3 DEF Copies, queueVars
  <2>3. CASE ChatAcks
    <3>1. msgCopies[chat.msg] - 1 \in 0..MaxCopies /\ chat.msg \in Messages
      BY <2>3 DEF ChatAcks, TypeOK, Copies
    <3>2. TypeOK'
      BY <2>3, <3>1, IdleIsTyped DEF ChatAcks, TypeOK, Chats, ChatIdle, memVars, userVars
    <3>3. Copies'
      BY <2>3, <3>1 DEF ChatAcks, Copies, ChatIdle, TypeOK
    <3> QED BY <3>2, <3>3
  <2> QED BY <1>3, <2>1, <2>2, <2>3 DEF Chat
<1>4. CASE Proactive
  <2>1. ASSUME NEW e \in Events, EventTakes(e) PROVE TypeInv'
    <3>1. /\ proactive' \in EventsInHand /\ proactive'.event = e /\ evCopies[e] > 0
          /\ UNCHANGED <<queueVars, seen, selfCommands, chat, answered, told, notified, denied, faults>>
      BY <2>1 DEF EventTakes, EventsInHand
    <3>2. seenEvents' \subseteq Keys /\ echoes' \subseteq Commands
      BY <2>1, KeyIsTyped DEF EventTakes, TypeOK, Events
    <3>3. TypeOK'
      BY <3>1, <3>2 DEF TypeOK, EventsInHand, queueVars
    <3> QED BY <1>1, <3>1, <3>3 DEF Copies, queueVars
  <2>2. CASE EventSends \/ EventSendFails
    <3>1. /\ proactive.step = "send" /\ proactive' = [proactive EXCEPT !.step = "ack"]
          /\ UNCHANGED <<queueVars, memVars, chat>>
      BY <2>2 DEF EventSends, EventSendFails
    <3>2. proactive' \in EventsInHand /\ proactive'.event = proactive.event
      BY <3>1 DEF TypeOK, EventsInHand
    <3>3. /\ told' \in [Commands -> Nat] /\ notified' \in [Keys -> Nat]
          /\ UNCHANGED <<answered, denied, echoes>>
          /\ faults' \in [crashes: 0..MaxCrashes, http: 0..MaxHttpFaults, send: 0..MaxSendFaults]
      BY <2>2 DEF EventSends, EventSendFails, SendFault, TypeOK, userVars
    <3>4. TypeOK'
      BY <3>1, <3>2, <3>3 DEF TypeOK, EventsInHand, queueVars, memVars
    <3> QED BY <1>1, <3>1, <3>2, <3>4 DEF Copies, queueVars
  <2>3. CASE EventAcks
    <3>1. evCopies[proactive.event] - 1 \in 0..MaxEventCopies /\ proactive.event \in Events
      BY <2>3 DEF EventAcks, TypeOK, Copies
    <3>2. TypeOK'
      BY <2>3, <3>1, IdleIsTyped DEF EventAcks, TypeOK, EventsInHand, EventIdle, memVars, userVars
    <3>3. Copies'
      BY <2>3, <3>1 DEF EventAcks, Copies, EventIdle, TypeOK
    <3> QED BY <3>2, <3>3
  <2> QED BY <1>4, <2>1, <2>2, <2>3 DEF Proactive
<1> QED BY <1>2, <1>3, <1>4

LEMMA TypesHold == TypeInv /\ [Next]_vars => TypeInv'
<1>1. TypeInv /\ UNCHANGED vars => TypeInv'
  BY DEF TypeInv, TypeOK, Copies, vars, queueVars, memVars, userVars
<1> QED BY <1>1, OutsideIsTyped, LoopsAreTyped DEF Next

\* Every queue, both consumers and what users saw have their types: no queue
\* loses more copies than it held, and no consumer works on nothing.
THEOREM SupportTypeCorrect == Spec => []TypeOK
<1>1. Spec => []TypeInv
  BY InitIsTyped, TypesHold, PTL DEF Spec
<1>2. TypeInv => TypeOK
  BY DEF TypeInv
<1> QED BY <1>1, <1>2, PTL

-----------------------------------------------------------------------------
(* One command per life.                                                     *)

\* m may still become a command in this life of the process: nothing has read
\* it, or its submission is in flight.
MayStillSubmit(m) == m \notin seen \/ (chat.step = "submit" /\ chat.msg = m)

\* An id is remembered before its submission starts, and the chance of this
\* life, once taken, is gone: what remains is what earlier lives have used up.
CommandInv ==
  /\ chat.step = "submit" => chat.msg \in seen
  /\ \A m \in Messages :
       Cardinality(CommandsOf(m)) <= faults.crashes + (IF MayStillSubmit(m) THEN 0 ELSE 1)

LEMMA CommandsAreFinite ==
  ASSUME NEW m
  PROVE  IsFiniteSet(CommandsOf(m)) /\ Cardinality(CommandsOf(m)) \in Nat
<1>1. IsFiniteSet(Commands)
  BY FS_Interval, SupportAssumption DEF SupportAssumption, Commands
<1>2. IsFiniteSet(CommandsOf(m))
  BY <1>1, FS_Subset DEF CommandsOf
<1> QED BY <1>2, FS_CardinalityType

\* Accepting a command of m adds one to the commands of m and to no other's.
LEMMA AcceptingAddsOne ==
  ASSUME TypeInv, NEW c \in Commands, FinanceAccepts(c), NEW m \in Messages
  PROVE  Cardinality(CommandsOf(m))' = Cardinality(CommandsOf(m)) + (IF m = chat.msg THEN 1 ELSE 0)
<1>1. origin \in [Commands -> Messages \cup {Other, "none"}] /\ origin[c] = "none"
      /\ origin' = [origin EXCEPT ![c] = chat.msg]
  BY DEF TypeInv, TypeOK, FinanceAccepts, Fresh
<1>2. m # "none"
  BY SupportAssumption DEF SupportAssumption
<1>3. CommandsOf(m)' = IF m = chat.msg THEN CommandsOf(m) \cup {c} ELSE CommandsOf(m)
  BY <1>1, <1>2 DEF CommandsOf
<1>4. c \notin CommandsOf(m)
  BY <1>1, <1>2 DEF CommandsOf
<1>5. Cardinality(CommandsOf(m) \cup {c}) = Cardinality(CommandsOf(m)) + 1
  BY <1>4, CommandsAreFinite, FS_AddElement
<1> QED BY <1>3, <1>5, CommandsAreFinite

LEMMA InitIsWithoutCommands == Init => CommandInv
<1> SUFFICES ASSUME Init PROVE CommandInv
  OBVIOUS
<1>1. ASSUME NEW m \in Messages PROVE Cardinality(CommandsOf(m)) = 0
  <2>1. CommandsOf(m) = {}
    BY SupportAssumption DEF Init, CommandsOf, SupportAssumption
  <2> QED BY <2>1, FS_EmptySet
<1> QED BY <1>1 DEF Init, CommandInv, MayStillSubmit, ChatIdle

\* What a step has to respect when no command of a message is accepted.
LEMMA CommandsStayCounted ==
  ASSUME TypeInv, TypeInv', CommandInv,
         \A m \in Messages : CommandsOf(m)' = CommandsOf(m),
         chat'.step = "submit" => chat'.msg \in seen',
         \/ /\ faults'.crashes = faults.crashes
            /\ \A m \in Messages : MayStillSubmit(m)' => MayStillSubmit(m)
         \/ faults'.crashes = faults.crashes + 1 /\ seen' = {}
  PROVE  CommandInv'
<1>1. faults.crashes \in Nat /\ faults'.crashes \in Nat
  BY SupportAssumption DEF TypeInv, TypeOK, SupportAssumption
<1>2. ASSUME NEW m \in Messages
      PROVE  Cardinality(CommandsOf(m))' <= faults'.crashes + (IF MayStillSubmit(m)' THEN 0 ELSE 1)
  <2>1. Cardinality(CommandsOf(m))' = Cardinality(CommandsOf(m)) /\ Cardinality(CommandsOf(m)) \in Nat
    BY CommandsAreFinite
  <2>2. Cardinality(CommandsOf(m)) <= faults.crashes + (IF MayStillSubmit(m) THEN 0 ELSE 1)
    BY DEF CommandInv
  <2>3. CASE faults'.crashes = faults.crashes /\ (MayStillSubmit(m)' => MayStillSubmit(m))
    BY <1>1, <2>1, <2>2, <2>3
  <2>4. CASE faults'.crashes = faults.crashes + 1
    BY <1>1, <2>1, <2>2, <2>4
  <2> QED BY <2>3, <2>4
<1> QED BY <1>2 DEF CommandInv

LEMMA CommandsStepHolds == TypeInv /\ TypeInv' /\ CommandInv /\ [Next]_vars => CommandInv'
<1> SUFFICES ASSUME TypeInv, TypeInv', CommandInv, [Next]_vars PROVE CommandInv'
  OBVIOUS
<1>1. ASSUME UNCHANGED <<origin, seen, chat>>, faults'.crashes = faults.crashes PROVE CommandInv'
  BY <1>1, CommandsStayCounted DEF CommandsOf, MayStillSubmit, CommandInv
<1>2. ASSUME UNCHANGED <<origin, seen>>, chat'.step # "submit", faults'.crashes = faults.crashes
      PROVE  CommandInv'
  BY <1>2, CommandsStayCounted DEF CommandsOf, MayStillSubmit
<1>3. ASSUME Restart PROVE CommandInv'
  <2>1. faults'.crashes = faults.crashes + 1
    BY <1>3 DEF Restart, TypeInv, TypeOK
  <2> QED BY <1>3, <2>1, CommandsStayCounted DEF Restart, CommandsOf, ChatIdle
<1>4. CASE Outside
  <2>1. ASSUME NEW c \in Commands, OthersSubmit(c) PROVE CommandInv'
    <3>1. ASSUME NEW m \in Messages PROVE CommandsOf(m)' = CommandsOf(m)
      BY <2>1, SupportAssumption DEF OthersSubmit, Fresh, CommandsOf, TypeInv, TypeOK, SupportAssumption
    <3> QED BY <2>1, <3>1, CommandsStayCounted DEF OthersSubmit, memVars, MayStillSubmit, CommandInv
  <2> QED BY <1>1, <1>3, <1>4, <2>1
          DEF Outside, EvolutionPublishes, EventPublished, Crash, ChatLoopFails, EventLoopFails, memVars
<1>5. CASE Submit
  <2>1. ASSUME NEW c \in Commands, FinanceAccepts(c) PROVE CommandInv'
    <3>1. /\ chat.step = "submit" /\ chat.msg \in seen /\ chat'.step = "response"
          /\ seen' = seen /\ faults' = faults /\ faults.crashes \in Nat
      BY <2>1, SupportAssumption
      DEF FinanceAccepts, memVars, CommandInv, TypeInv, TypeOK, SupportAssumption
    <3>2. ASSUME NEW m \in Messages
          PROVE  Cardinality(CommandsOf(m))' <= faults'.crashes + (IF MayStillSubmit(m)' THEN 0 ELSE 1)
      <4>1. Cardinality(CommandsOf(m)) <= faults.crashes + (IF MayStillSubmit(m) THEN 0 ELSE 1)
        BY DEF CommandInv
      <4>2. Cardinality(CommandsOf(m))' = Cardinality(CommandsOf(m)) + (IF m = chat.msg THEN 1 ELSE 0)
        BY <2>1, AcceptingAddsOne
      <4>3. MayStillSubmit(m)' <=> (m \notin seen)
        BY <3>1 DEF MayStillSubmit
      <4>4. CASE m = chat.msg
        BY <3>1, <4>1, <4>2, <4>3, <4>4, CommandsAreFinite DEF MayStillSubmit
      <4>5. CASE m # chat.msg
        BY <3>1, <4>1, <4>2, <4>3, <4>5, CommandsAreFinite DEF MayStillSubmit
      <4> QED BY <4>4, <4>5
    <3> QED BY <3>1, <3>2 DEF CommandInv
  <2>2. CASE SubmitAccepted
    BY <1>2, <2>2 DEF SubmitAccepted, queueVars, TypeInv, TypeOK
  <2>3. CASE SubmitRejected
    BY <1>2, <2>3 DEF SubmitRejected, queueVars, memVars, TypeInv, TypeOK
  <2>4. CASE SubmitQueued
    BY <1>2, <2>4 DEF SubmitQueued, HttpFault, queueVars, memVars, TypeInv, TypeOK
  <2>5. CASE SubmitFails
    BY <1>2, <2>5 DEF SubmitFails, HttpFault, queueVars, memVars, TypeInv, TypeOK
  <2> QED BY <1>5, <2>1, <2>2, <2>3, <2>4, <2>5 DEF Submit
<1>6. CASE Chat
  <2>1. ASSUME NEW m \in Messages, ChatTakes(m) PROVE CommandInv'
    <3>1. /\ chat.step = "idle" /\ seen' = seen \cup {m} /\ origin' = origin /\ faults' = faults
          /\ chat'.step = "submit" => chat'.msg = m /\ m \notin seen
      BY <2>1 DEF ChatTakes, ChatIdle, queueVars
    <3> QED BY <3>1, CommandsStayCounted DEF CommandsOf, MayStillSubmit
  <2>2. CASE ChatReplies \/ ChatReplyFails
    <3>1. chat'.step = "ack" /\ faults'.crashes = faults.crashes /\ UNCHANGED <<origin, seen>>
      BY <2>2 DEF ChatReplies, ChatReplyFails, SendFault, queueVars, memVars, TypeInv, TypeOK
    <3> QED BY <1>2, <3>1
  <2>3. CASE ChatAcks
    BY <1>2, <2>3 DEF ChatAcks, ChatIdle, memVars
  <2> QED BY <1>6, <2>1, <2>2, <2>3 DEF Chat
<1>7. CASE Proactive
  <2>1. faults'.crashes = faults.crashes /\ UNCHANGED <<origin, seen, chat>>
    BY <1>7 DEF Proactive, EventTakes, EventSends, EventSendFails, EventAcks, SendFault, queueVars,
                memVars, TypeInv, TypeOK
  <2> QED BY <1>1, <2>1
<1>8. CASE UNCHANGED vars
  BY <1>1, <1>8 DEF vars, queueVars, memVars
<1> QED BY <1>4, <1>5, <1>6, <1>7, <1>8 DEF Next

\* However often a message is delivered, it becomes at most one command more
\* than the process was restarted: its id is remembered before the first await.
THEOREM OneCommandInEachLife == Spec => []OneCommandPerLife
<1>1. Spec => []TypeInv
  BY InitIsTyped, TypesHold, PTL DEF Spec
<1>2. Spec => []CommandInv
  BY <1>1, InitIsWithoutCommands, CommandsStepHolds, PTL DEF Spec
<1>3. TypeInv /\ CommandInv => OneCommandPerLife
  <2> SUFFICES ASSUME TypeInv, CommandInv, NEW m \in Messages
               PROVE  Cardinality(CommandsOf(m)) <= 1 + faults.crashes
    BY DEF OneCommandPerLife
  <2>1. faults.crashes \in Nat
    BY SupportAssumption DEF TypeInv, TypeOK, SupportAssumption
  <2> QED BY <2>1, CommandsAreFinite DEF CommandInv
<1> QED BY <1>1, <1>2, <1>3, PTL

-----------------------------------------------------------------------------
(* One notification per life.                                                *)

\* k may still be notified in this life of the process: nothing has claimed
\* it, or the message that did is being sent.
MayStillNotify(k) ==
  k \notin seenEvents \/ (proactive.step = "send" /\ Key(proactive.event) = k)

\* A key is claimed before its message is sent, and it cannot change in
\* between, since the command of a published event has its origin already.
NotifyInv ==
  /\ Accepted
  /\ proactive.step = "send" => Key(proactive.event) \in seenEvents
  /\ \A k \in Keys : notified[k] <= faults.crashes + (IF MayStillNotify(k) THEN 0 ELSE 1)

\* Accepting a command changes the key of no event in hand.
LEMMA AcceptingKeepsKeys ==
  ASSUME TypeInv, Accepted, NEW c \in Commands, Fresh(c), NEW o, o # "none",
         origin' = [origin EXCEPT ![c] = o], UNCHANGED <<evPublished, proactive>>,
         proactive.step = "send"
  PROVE  Key(proactive.event)' = Key(proactive.event)
<1>1. proactive.event \in Events /\ evCopies[proactive.event] > 0
  BY DEF TypeInv, TypeOK, Copies
<1>2. evPublished[proactive.event] > 0
  BY <1>1, SupportAssumption DEF TypeInv, TypeOK, Copies, SupportAssumption
<1>3. origin[proactive.event[2]] # "none" /\ proactive.event[2] \in Commands
  BY <1>1, <1>2 DEF Accepted, Events
<1>4. proactive.event[2] # c
  BY <1>3 DEF Fresh
<1>5. origin'[proactive.event[2]] = origin[proactive.event[2]]
  BY <1>3, <1>4 DEF TypeInv, TypeOK
<1> QED BY <1>5 DEF Key, Subject

LEMMA AcceptingKeepsAccepted ==
  ASSUME TypeInv, Accepted, NEW c \in Commands, NEW o, o # "none",
         origin' = [origin EXCEPT ![c] = o], evPublished' = evPublished
  PROVE  Accepted'
<1>1. ASSUME NEW e \in Events, evPublished[e] > 0 PROVE origin'[e[2]] # "none"
  BY <1>1 DEF Accepted, TypeInv, TypeOK, Events
<1> QED BY <1>1 DEF Accepted

LEMMA InitIsWithoutNews == Init => NotifyInv
<1> SUFFICES ASSUME Init PROVE NotifyInv
  OBVIOUS
<1>1. Accepted
  BY DEF Init, Accepted
<1>2. ASSUME NEW k \in Keys PROVE notified[k] <= faults.crashes + (IF MayStillNotify(k) THEN 0 ELSE 1)
  BY DEF Init, MayStillNotify
<1> QED BY <1>1, <1>2 DEF Init, NotifyInv, EventIdle

\* What a step has to respect when it notifies nobody.
LEMMA NotificationsStayCounted ==
  ASSUME TypeInv, TypeInv', NotifyInv, Accepted', notified' = notified,
         proactive'.step = "send" => Key(proactive.event)' \in seenEvents',
         \/ /\ faults'.crashes = faults.crashes
            /\ \A k \in Keys : MayStillNotify(k)' => MayStillNotify(k)
         \/ faults'.crashes = faults.crashes + 1
  PROVE  NotifyInv'
<1>1. faults.crashes \in Nat /\ faults'.crashes \in Nat /\ notified \in [Keys -> Nat]
  BY SupportAssumption DEF TypeInv, TypeOK, SupportAssumption
<1>2. ASSUME NEW k \in Keys
      PROVE  notified'[k] <= faults'.crashes + (IF MayStillNotify(k)' THEN 0 ELSE 1)
  <2>1. notified'[k] = notified[k] /\ notified[k] \in Nat
    BY <1>1
  <2>2. notified[k] <= faults.crashes + (IF MayStillNotify(k) THEN 0 ELSE 1)
    BY DEF NotifyInv
  <2>3. CASE faults'.crashes = faults.crashes /\ (MayStillNotify(k)' => MayStillNotify(k))
    BY <1>1, <2>1, <2>2, <2>3
  <2>4. CASE faults'.crashes = faults.crashes + 1
    BY <1>1, <2>1, <2>2, <2>4
  <2> QED BY <2>3, <2>4
<1> QED BY <1>2 DEF NotifyInv

LEMMA NotifyStepHolds == TypeInv /\ TypeInv' /\ NotifyInv /\ [Next]_vars => NotifyInv'
<1> SUFFICES ASSUME TypeInv, TypeInv', NotifyInv, [Next]_vars PROVE NotifyInv'
  OBVIOUS
<1>1. ASSUME UNCHANGED <<origin, evPublished, proactive, seenEvents, notified>>,
             faults'.crashes = faults.crashes
      PROVE  NotifyInv'
  <2>1. Accepted'
    BY <1>1 DEF NotifyInv, Accepted
  <2>2. Key(proactive.event)' = Key(proactive.event)
    BY <1>1 DEF Key, Subject
  <2> QED BY <1>1, <2>1, <2>2, NotificationsStayCounted DEF MayStillNotify, NotifyInv
<1>2. ASSUME NEW c \in Commands, Fresh(c), NEW o, o # "none",
             origin' = [origin EXCEPT ![c] = o],
             UNCHANGED <<evPublished, proactive, seenEvents, notified, faults>>
      PROVE  NotifyInv'
  <2>1. Accepted'
    BY <1>2, AcceptingKeepsAccepted DEF NotifyInv
  <2>2. proactive.step = "send" => Key(proactive.event)' = Key(proactive.event)
    BY <1>2, AcceptingKeepsKeys DEF NotifyInv
  <2> QED BY <1>2, <2>1, <2>2, NotificationsStayCounted DEF MayStillNotify, NotifyInv
<1>3. ASSUME UNCHANGED <<origin, evPublished, seenEvents, notified>>, proactive'.step # "send",
             faults'.crashes = faults.crashes
      PROVE  NotifyInv'
  <2>1. Accepted'
    BY <1>3 DEF NotifyInv, Accepted
  <2> QED BY <1>3, <2>1, NotificationsStayCounted DEF MayStillNotify
<1>4. ASSUME Restart PROVE NotifyInv'
  <2>1. faults'.crashes = faults.crashes + 1
    BY <1>4 DEF Restart, TypeInv, TypeOK
  <2>2. Accepted'
    BY <1>4 DEF Restart, NotifyInv, Accepted
  <2> QED BY <1>4, <2>1, <2>2, NotificationsStayCounted DEF Restart, EventIdle, userVars
<1>5. CASE Outside
  <2>1. ASSUME NEW c \in Commands, OthersSubmit(c) PROVE NotifyInv'
    BY <1>2, <2>1 DEF OthersSubmit, Other, memVars, userVars
  <2>2. ASSUME NEW e \in Events, EventPublished(e) PROVE NotifyInv'
    <3>1. Accepted'
      BY <2>2 DEF EventPublished, NotifyInv, Accepted, TypeInv, TypeOK
    <3>2. Key(proactive.event)' = Key(proactive.event)
      BY <2>2 DEF EventPublished, Key, Subject
    <3> QED BY <2>2, <3>1, <3>2, NotificationsStayCounted
            DEF EventPublished, MayStillNotify, NotifyInv, memVars, userVars
  <2>3. ASSUME NEW m \in Messages, EvolutionPublishes(m) PROVE NotifyInv'
    BY <1>1, <2>3 DEF EvolutionPublishes, memVars, userVars
  <2> QED BY <1>4, <1>5, <2>1, <2>2, <2>3 DEF Outside, Crash, ChatLoopFails, EventLoopFails
<1>6. CASE Submit
  <2>1. ASSUME NEW c \in Commands, FinanceAccepts(c) PROVE NotifyInv'
    <3>1. chat.msg # "none"
      BY <2>1, SupportAssumption DEF FinanceAccepts, TypeInv, TypeOK, SupportAssumption
    <3> QED BY <1>2, <2>1, <3>1 DEF FinanceAccepts, memVars, userVars
  <2>2. CASE SubmitAccepted
    BY <1>1, <2>2 DEF SubmitAccepted, queueVars, userVars
  <2>3. CASE SubmitRejected
    BY <1>1, <2>3 DEF SubmitRejected, queueVars, memVars, userVars
  <2>4. CASE SubmitQueued
    BY <1>1, <2>4 DEF SubmitQueued, HttpFault, queueVars, memVars, userVars, TypeInv, TypeOK
  <2>5. CASE SubmitFails
    BY <1>1, <2>5 DEF SubmitFails, HttpFault, queueVars, memVars, userVars, TypeInv, TypeOK
  <2> QED BY <1>6, <2>1, <2>2, <2>3, <2>4, <2>5 DEF Submit
<1>7. CASE Chat
  <2>1. ASSUME NEW m \in Messages, ChatTakes(m) PROVE NotifyInv'
    BY <1>1, <2>1 DEF ChatTakes, queueVars, userVars
  <2>2. CASE ChatReplies
    BY <1>1, <2>2 DEF ChatReplies, queueVars, memVars
  <2>3. CASE ChatReplyFails
    BY <1>1, <2>3 DEF ChatReplyFails, SendFault, queueVars, memVars, userVars, TypeInv, TypeOK
  <2>4. CASE ChatAcks
    BY <1>1, <2>4 DEF ChatAcks, memVars, userVars
  <2> QED BY <1>7, <2>1, <2>2, <2>3, <2>4 DEF Chat
<1>8. CASE Proactive
  <2>1. ASSUME NEW e \in Events, EventTakes(e) PROVE NotifyInv'
    <3>1. UNCHANGED <<origin, evPublished, notified, faults>> /\ proactive'.event = e
      BY <2>1 DEF EventTakes, queueVars
    <3>2. Accepted' /\ Key(proactive.event)' = Key(e)
      BY <3>1 DEF NotifyInv, Accepted, Key, Subject
    <3>3. CASE proactive'.step = "send"
      <4>1. proactive.step = "idle" /\ Key(e) \notin seenEvents /\ seenEvents' = seenEvents \cup {Key(e)}
        BY <2>1, <3>3 DEF EventTakes
      <4>2. ASSUME NEW k, MayStillNotify(k)' PROVE MayStillNotify(k)
        BY <3>2, <4>1, <4>2 DEF MayStillNotify
      <4> QED BY <3>1, <3>2, <4>1, <4>2, NotificationsStayCounted
    <3>4. CASE proactive'.step # "send"
      <4>1. seenEvents' = seenEvents
        BY <2>1, <3>4 DEF EventTakes
      <4> QED BY <1>3, <3>1, <3>4, <4>1
    <3> QED BY <3>3, <3>4
  <2>2. CASE EventSends
    <3>1. PICK k \in Keys : k = Key(proactive.event)
      BY <2>2, KeyIsTyped DEF EventSends, TypeInv, TypeOK
    <3>2. /\ proactive.step = "send" /\ k \in seenEvents
          /\ notified' = [notified EXCEPT ![k] = @ + 1] /\ notified \in [Keys -> Nat]
          /\ proactive'.step = "ack" /\ faults.crashes \in Nat
          /\ UNCHANGED <<origin, evPublished, seenEvents, faults>>
      BY <2>2, <3>1, SupportAssumption
      DEF EventSends, NotifyInv, Key, TypeInv, TypeOK, SupportAssumption, queueVars, memVars
    <3>3. ASSUME NEW j \in Keys
          PROVE  notified'[j] <= faults'.crashes + (IF MayStillNotify(j)' THEN 0 ELSE 1)
      <4>1. notified[j] <= faults.crashes + (IF MayStillNotify(j) THEN 0 ELSE 1) /\ notified[j] \in Nat
        BY <3>2 DEF NotifyInv
      <4>2. MayStillNotify(j)' <=> j \notin seenEvents
        BY <3>2 DEF MayStillNotify
      <4>3. CASE j = k
        <5>1. MayStillNotify(k)
          BY <3>1, <3>2 DEF MayStillNotify
        <5> QED BY <3>2, <4>1, <4>2, <4>3, <5>1
      <4>4. CASE j # k
        <5>1. MayStillNotify(j) <=> j \notin seenEvents
          BY <3>1, <4>4 DEF MayStillNotify
        <5> QED BY <3>2, <4>1, <4>2, <4>4, <5>1
      <4> QED BY <4>3, <4>4
    <3> QED BY <3>2, <3>3 DEF NotifyInv, Accepted
  <2>3. CASE EventSendFails
    BY <1>3, <2>3 DEF EventSendFails, SendFault, queueVars, memVars, userVars, TypeInv, TypeOK
  <2>4. CASE EventAcks
    BY <1>3, <2>4 DEF EventAcks, EventIdle, memVars, userVars
  <2> QED BY <1>8, <2>1, <2>2, <2>3, <2>4 DEF Proactive
<1>9. CASE UNCHANGED vars
  BY <1>1, <1>9 DEF vars, queueVars, memVars, userVars
<1> QED BY <1>5, <1>6, <1>7, <1>8, <1>9 DEF Next

\* However many commands and copies carry a transaction, its user is notified
\* of it at most once more than the process was restarted; and of an alert.
THEOREM OneNotificationInEachLife == Spec => []NotifiedOncePerLife
<1>1. Spec => []TypeInv
  BY InitIsTyped, TypesHold, PTL DEF Spec
<1>2. Spec => []NotifyInv
  BY <1>1, InitIsWithoutNews, NotifyStepHolds, PTL DEF Spec
<1>3. TypeInv /\ NotifyInv => NotifiedOncePerLife
  <2> SUFFICES ASSUME TypeInv, NotifyInv, NEW k \in Keys PROVE notified[k] <= 1 + faults.crashes
    BY DEF NotifiedOncePerLife
  <2>1. faults.crashes \in Nat /\ notified[k] \in Nat
    BY SupportAssumption DEF TypeInv, TypeOK, SupportAssumption
  <2> QED BY <2>1 DEF NotifyInv
<1> QED BY <1>1, <1>2, <1>3, PTL
=============================================================================
