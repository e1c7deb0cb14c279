---------------------------- MODULE ReliableDelivery ----------------------------
(***************************************************************************)
(* What the write path promises to its clients and to the consumers of     *)
(* domain.events, without queues, connections, processes or retries: a     *)
(* command takes effect at most once, an event is kept before anybody sees *)
(* it, a command is confirmed only when it took effect and all its events  *)
(* are kept, and a refused one never takes effect.  How the code achieves  *)
(* this is CommandPipeline, which implements this module.                  *)
(***************************************************************************)
EXTENDS Naturals

CONSTANTS
  Commands,
  MaxEvents    \* most events one command produces

VARIABLES
  applied,     \* applied[c]: how many times c took effect
  emitted,     \* emitted[c]: how many events it produced
  kept,        \* events in durable storage
  visible,     \* events a consumer may have seen
  confirmed,   \* commands whose client was told that the write succeeded
  refused      \* commands whose client was told that nothing was accepted

vars == <<applied, emitted, kept, visible, confirmed, refused>>

Init ==
  /\ applied = [c \in Commands |-> 0] /\ emitted = [c \in Commands |-> 0]
  /\ kept = {} /\ visible = {} /\ confirmed = {} /\ refused = {}

\* A command takes effect: once, and never after it was refused.
Apply(c) ==
  /\ applied[c] = 0 /\ c \notin refused
  /\ applied' = [applied EXCEPT ![c] = 1]
  /\ \E n \in 0..MaxEvents : emitted' = [emitted EXCEPT ![c] = n]
  /\ UNCHANGED <<kept, visible, confirmed, refused>>

\* Its i-th event becomes durable.
Keep(c, i) ==
  /\ applied[c] = 1 /\ i \in 1..emitted[c]
  /\ kept' = kept \cup {<<c, i>>}
  /\ UNCHANGED <<applied, emitted, visible, confirmed, refused>>

\* A durable event reaches the consumers.
Show(e) ==
  /\ e \in kept
  /\ visible' = visible \cup {e}
  /\ UNCHANGED <<applied, emitted, kept, confirmed, refused>>

\* The client is told that the write succeeded.
Confirm(c) ==
  /\ applied[c] = 1 /\ \A i \in 1..emitted[c] : <<c, i>> \in kept
  /\ confirmed' = confirmed \cup {c}
  /\ UNCHANGED <<applied, emitted, kept, visible, refused>>

\* The client is told that the command was not accepted.
Refuse(c) ==
  /\ applied[c] = 0
  /\ refused' = refused \cup {c}
  /\ UNCHANGED <<applied, emitted, kept, visible, confirmed>>

Next ==
  \/ \E c \in Commands : Apply(c) \/ Confirm(c) \/ Refuse(c)
  \/ \E c \in Commands, i \in 1..MaxEvents : Keep(c, i)
  \/ \E e \in kept : Show(e)

Spec == Init /\ [][Next]_vars
=============================================================================
