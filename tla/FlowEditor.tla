----------------------------- MODULE FlowEditor -----------------------------
(***************************************************************************)
(* uhumarketing-frontend: one flow on the canvas (components/FlowCanvas,   *)
(* pages/FlowEditorPage, the flow setters of lib/storeRemote).  Every      *)
(* change goes to the store at once; the store saves the whole document    *)
(* (EditorSync has the timing; here a save takes one step), and a reload   *)
(* brings back what the server has in the middle of whatever the operator  *)
(* is doing.  Positions, titles and drags are left out.                    *)
(***************************************************************************)
EXTENDS FlowRules

CONSTANTS
  MaxChanges,   \* bound: changes the operator makes
  Palette       \* the kinds the operator adds

VARIABLES
  flow,       \* the flow in the store
  status,     \* flow.status
  connect,    \* the block a connection is being drawn from, 0 for none
  saved,      \* the flow as the server has it
  added, joined, changes,   \* blocks and connections ever made, and changes
  torn        \* history: blocks that went away while connect held them

vars == <<flow, status, connect, saved, added, joined, changes, torn>>

TypeOK ==
  /\ flow \in Flows /\ saved \in Flows
  /\ status \in {"draft", "active", "paused"}
  /\ connect \in 0..MaxBlocks
  /\ added \in 0..MaxBlocks /\ joined \in 0..MaxEdges /\ changes \in 0..MaxChanges
  /\ torn \subseteq Blocks

-------------------------------------------------------------------------------
(* The flows the screens create.                                           *)

Edge(id, from, to) == [id |-> id, from |-> from, to |-> to]
Chain(kinds, n, links, segment, template) ==
  [blocks |-> 1..n, off |-> {},
   kind   |-> [b \in Blocks |-> IF b \in 1..n THEN kinds[b] ELSE "other"],
   config |-> [b \in Blocks |->
                 CASE b \in 1..n /\ kinds[b] = "segment"   -> segment
                   [] b \in 1..n /\ kinds[b] = "filter"   -> "set"
                   [] b \in 1..n /\ kinds[b] = "template" -> template
                   [] OTHER                               -> "default"],
   edges  |-> {Edge(i, i, i + 1) : i \in 1..links}]

\* "Novo fluxo": a trigger and a source, connected.
NewFlow(segment) == Chain(<<"trigger", "segment">>, 2, 1, segment, "empty")
\* "Usar em fluxo" of an audience: the same two, not connected.
FromAudience == Chain(<<"trigger", "segment">>, 2, 0, "set", "empty")
\* A new campaign's flow: a whole chain.
ForCampaign(segment, template) ==
  Chain(<<"trigger", "segment", "filter", "template", "channel">>, 5, 4, segment, template)

Starts ==
  {NewFlow(s) : s \in {"empty", "set"}} \cup {FromAudience} \cup
  (IF MaxBlocks >= 5 /\ MaxEdges >= 4
     THEN {ForCampaign(s, t) : s \in {"empty", "set"}, t \in {"empty", "pending", "set"}}
     ELSE {})

\* The flow was created and saved.
Init ==
  /\ flow \in Starts /\ saved = flow
  /\ status = "draft" /\ connect = 0
  /\ added = Cardinality(flow.blocks) /\ joined = Cardinality(flow.edges)
  /\ changes = 0 /\ torn = {}

-------------------------------------------------------------------------------
(* The canvas.                                                             *)

Change == changes < MaxChanges /\ changes' = changes + 1

\* addNode, from the palette or dropped on the canvas; the id is new.
AddNode(kind) ==
  /\ Change
  /\ added < MaxBlocks /\ added' = added + 1
  /\ flow' = [flow EXCEPT !.blocks = @ \cup {added'}, !.kind[added'] = kind,
                          !.config[added'] = Default(kind)]
  /\ UNCHANGED <<status, connect, saved, joined, torn>>

\* The buttons of the block and the inspector are there once it is selected: a
\* press selects any block that is drawn.
Shown(b) == b \in flow.blocks

\* ConfigForm.
Configure(b, config) ==
  /\ Change /\ Shown(b)
  /\ config \in FormConfigs(flow.kind[b]) \ {flow.config[b]}
  /\ flow' = [flow EXCEPT !.config[b] = config]
  /\ UNCHANGED <<status, connect, saved, added, joined, torn>>

\* "Desativar no" / "Bloco ativo".
ToggleNode(b) ==
  /\ Change /\ Shown(b)
  /\ flow' = [flow EXCEPT !.off = IF b \in @ THEN @ \ {b} ELSE @ \cup {b}]
  /\ UNCHANGED <<status, connect, saved, added, joined, torn>>

\* Fault variant: the connections of the block stay.
RemoveNode_KeepsEdges(b) ==
  /\ Change /\ Shown(b)
  /\ flow' = [flow EXCEPT !.blocks = @ \ {b}, !.off = @ \ {b}]
  /\ torn' = torn \cup ({b} \cap {connect})
  /\ UNCHANGED <<status, connect, saved, added, joined>>

\* removeNode takes its connections along; a connection being drawn stays.
RemoveNode(b) ==
  /\ Change /\ Shown(b)
  /\ flow' = [flow EXCEPT !.blocks = @ \ {b}, !.off = @ \ {b},
                          !.kind[b] = "other", !.config[b] = "default",
                          !.edges = {e \in @ : b \notin {e.from, e.to}}]
  /\ torn' = torn \cup ({b} \cap {connect})
  /\ UNCHANGED <<status, connect, saved, added, joined>>

\* A press on the output of a block.
StartEdge(b) ==
  /\ b \in flow.blocks /\ connect # b
  /\ connect' = b
  /\ UNCHANGED <<flow, status, saved, added, joined, changes, torn>>

\* addEdge: neither a loop nor a second connection between the same two.
Joins(from, to) ==
  from # to /\ \A e \in flow.edges : <<e.from, e.to>> # <<from, to>>

\* The pointer is released, on the input of a block.
EndEdge(b) ==
  /\ connect # 0 /\ b \in flow.blocks
  /\ connect' = 0
  /\ IF Joins(connect, b)
       THEN /\ Change
            /\ joined < MaxEdges /\ joined' = joined + 1
            /\ flow' = [flow EXCEPT !.edges = @ \cup {Edge(joined', connect, b)}]
       ELSE UNCHANGED <<flow, joined, changes>>
  /\ UNCHANGED <<status, saved, added, torn>>

\* ... or anywhere else.
DropEdge ==
  /\ connect # 0
  /\ connect' = 0
  /\ UNCHANGED <<flow, status, saved, added, joined, changes, torn>>

\* The cross on the connection, or the one in the inspector of the block it leaves.
RemoveEdge(e) ==
  /\ Change
  /\ e \in flow.edges /\ Shown(e.from)
  /\ flow' = [flow EXCEPT !.edges = @ \ {e}]
  /\ UNCHANGED <<status, connect, saved, added, joined, torn>>

-------------------------------------------------------------------------------
(* The status, and the server.                                             *)

\* "Publicar" of the editor.
Publish ==
  /\ Change /\ ~HasErrors(flow)
  /\ status' = "active"
  /\ UNCHANGED <<flow, connect, saved, added, joined, torn>>

\* "Ativar" / "Pausar" of the list of flows, which leaves the canvas.
ToggleFlow ==
  /\ Change
  /\ status' = IF status = "active" THEN "paused" ELSE "active"
  /\ connect' = 0
  /\ UNCHANGED <<flow, saved, added, joined, torn>>

\* The PUT: the server takes the flow as it is, or refuses the document.
Save ==
  /\ Accepted(flow) /\ saved # flow
  /\ saved' = flow
  /\ UNCHANGED <<flow, status, connect, added, joined, changes, torn>>

\* A bootstrap is applied.
Reload ==
  /\ flow # saved
  /\ flow' = saved
  /\ torn' = torn \cup ({connect} \cap (flow.blocks \ saved.blocks))
  /\ UNCHANGED <<status, connect, saved, added, joined, changes>>

Next ==
  \/ \E b \in Blocks :
       \/ ToggleNode(b) \/ RemoveNode(b) \/ StartEdge(b) \/ EndEdge(b)
       \/ \E c \in Configs : Configure(b, c)
  \/ \E k \in Palette : AddNode(k)
  \/ \E e \in flow.edges : RemoveEdge(e)
  \/ DropEdge \/ Publish \/ ToggleFlow \/ Save \/ Reload

Spec == Init /\ [][Next]_vars

-------------------------------------------------------------------------------
(* Properties.                                                             *)

NoLoop == \A e \in flow.edges : e.from # e.to
NoTwins ==
  \A e, f \in flow.edges : (e.id = f.id \/ <<e.from, e.to>> = <<f.from, f.to>>) => e = f
\* A connection may only lead from a block that went away while it was drawn.
EdgesJoinBlocks ==
  \A e \in flow.edges : e.to \in flow.blocks /\ e.from \in flow.blocks \cup torn

\* "Aresta orfa e o erro silencioso do editor: o no sumiu e a conexao ficou"
\* (model.go:561): whatever the operator does, in whatever order, and whenever
\* the server's copy comes in, the graph has no loop, no double connection and
\* no connection to a block that is gone, and the server refuses the document
\* only when no block is left, or when a connection was finished from a block
\* that went away while it was being drawn.
RefusedOnlyWhenTorn ==
  /\ NoLoop /\ NoTwins /\ EdgesJoinBlocks
  /\ Accepted(flow) \/ flow.blocks = {} \/ \E e \in flow.edges : e.from \in torn
=============================================================================
