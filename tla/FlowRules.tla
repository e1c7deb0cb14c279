------------------------------ MODULE FlowRules ------------------------------
(***************************************************************************)
(* uhumarketing: what a flow is and what is said of one.  The browser's    *)
(* list of errors and warnings (lib/validate.ts), the walk of its          *)
(* simulation (lib/simulate.ts) and what uhumarketing-api accepts          *)
(* (FlowInput.Validate).                                                   *)
(*                                                                         *)
(* A flow is a record: its blocks, numbered in the order in which they     *)
(* were added (the order of flow.nodes), the kind and the configuration of *)
(* each, those switched off, and its edges, numbered the same way.         *)
(***************************************************************************)
EXTENDS Naturals, FiniteSets

CONSTANTS
  MaxBlocks,    \* bound: blocks ever added
  MaxEdges      \* bound: connections ever made

Blocks == 1..MaxBlocks
Edges == [id : 1..MaxEdges, from : Blocks, to : Blocks]

\* The node types, those that no rule and no count tells apart under "other".
Kinds == {"trigger", "segment", "contacts", "filter", "dedupe", "limit", "branch",
          "template", "channel", "other", "end"}

\* What a block is configured with, as far as the rules look at it: a segment's
\* audience, a filter's rules, a template that is missing, not approved or
\* approved, a channel's sender.
Configs == {"default", "empty", "pending", "set"}
Default(kind) == IF kind \in {"segment", "filter", "template"} THEN "empty" ELSE "default"
FormConfigs(kind) ==
  CASE kind \in {"segment", "filter"} -> {"empty", "set"}
    [] kind = "template"              -> {"empty", "pending", "set"}
    [] kind = "channel"               -> {"empty", "default"}
    [] OTHER                          -> {"default"}

Flows == [blocks : SUBSET Blocks, kind : [Blocks -> Kinds],
          config : [Blocks -> Configs], off : SUBSET Blocks, edges : SUBSET Edges]

Enabled(flow) == flow.blocks \ flow.off
Of(flow, kind) == {b \in Enabled(flow) : flow.kind[b] = kind}
Sources(flow) == Of(flow, "segment") \cup Of(flow, "contacts")
First(S) == CHOOSE b \in S : \A c \in S : b <= c

\* The ids met from start along edges that leave the blocks in open.
Reach(flow, start, open) ==
  LET met[n \in 0..MaxBlocks] ==
        IF n = 0 THEN start
        ELSE LET before == met[n - 1] IN
             before \cup {e.to : e \in {x \in flow.edges : x.from \in before \cap open}}
  IN met[MaxBlocks]

-------------------------------------------------------------------------------
(* validateFlow.                                                           *)

NoTrigger(flow) == Of(flow, "trigger") = {}
NoSource(flow) == Sources(flow) = {}

\* Only the first template counts.
TemplateMissing(flow) ==
  LET templates == Of(flow, "template") IN
  templates = {} \/ flow.config[First(templates)] # "set"

ChannelMissing(flow) ==
  \/ Of(flow, "channel") = {}
  \/ \E b \in Of(flow, "channel") : flow.config[b] = "empty"

HasErrors(flow) ==
  NoTrigger(flow) \/ NoSource(flow) \/ TemplateMissing(flow) \/ ChannelMissing(flow)

\* "esta solto": from any trigger, through blocks that are off as well.
Loose(flow) ==
  IF NoTrigger(flow) THEN {}
  ELSE Enabled(flow) \ Reach(flow, Of(flow, "trigger"), Blocks)

\* "nao aponta para nenhum proximo no".
DeadEnds(flow) ==
  {b \in Enabled(flow) : flow.kind[b] # "end" /\ \A e \in flow.edges : e.from # b}

-------------------------------------------------------------------------------
(* FlowInput.Validate: one flow that fails it fails the whole PUT.         *)

Accepted(flow) ==
  /\ flow.blocks # {}
  /\ \A e \in flow.edges : {e.from, e.to} \subseteq flow.blocks
=============================================================================
