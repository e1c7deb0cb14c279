--------------------------------- MODULE Editor ---------------------------------
(* The campaign editor, told apart by `side': the document in its tabs           *)
(* (EditorSync) and one flow on the canvas with its preview (FlowPreview), which *)
(* has a save and a reload of its own, so that each moves with the other at rest.*)
EXTENDS EditorSync

CONSTANTS
  MaxBlocks, MaxEdges,            \* FlowRules
  MaxChanges, Palette,            \* FlowEditor
  SegmentSize, CrmSize, Limit     \* FlowPreview

VARIABLES
  side,
  flow, flowStatus, connect, saved, added, joined, changes, torn   \* FlowEditor

canvasVars == <<flow, flowStatus, connect, saved, added, joined, changes, torn>>

F == INSTANCE FlowPreview WITH status <- flowStatus

\* The smallest flow has a trigger, a source and a connection.
ASSUME CanvasAssumption ==
  /\ MaxBlocks \in Nat \ {0, 1} /\ MaxEdges \in Nat \ {0}
  /\ MaxChanges \in Nat /\ Palette \subseteq F!Kinds
  /\ {SegmentSize, CrmSize, Limit} \subseteq Nat

\* Only what moves begins in more than one state.
EditorInit ==
  /\ side \in {"document", "canvas"} /\ Init /\ F!Init
  /\ side = "document" => flow = F!FromAudience
  /\ side = "canvas" => srv = NewAccount

Document == side = "document" /\ Next /\ UNCHANGED <<canvasVars, side>>
Canvas   == side = "canvas" /\ F!Next /\ UNCHANGED <<vars, side>>

EditorNext == Document \/ Canvas

EditorSpec == EditorInit /\ [][EditorNext]_<<vars, canvasVars, side>>

\* FlowEditor!RefusedOnlyWhenTorn: the graph is sound, and the server refuses it
\* only when no block is left or one went away while it was being connected.
RefusedOnlyWhenTorn == F!RefusedOnlyWhenTorn

\* FlowPreview!WalksAgree: the loose blocks are those that the simulation skips.
WalksAgree == F!WalksAgree

\* FlowPreview!NobodyIsInvented: no more messages than people were brought in.
NobodyIsInvented == F!NobodyIsInvented
=================================================================================
