---------------------------- MODULE MCRoomRegistry ----------------------------
(* RoomRegistry on two instances, told apart by `scene': two rooms with nobody   *)
(* in them and a restart, for the file; and one room with people, for the        *)
(* reaper.                                                                       *)
EXTENDS RoomRegistry, TLC

CONSTANTS p1, p2, h1, h2

TwoPeople == {p1, p2}
OneHandler  == {h1}
TwoHandlers == {h1, h2}

VARIABLE scene

SceneInit == Init /\ scene \in {"file", "people"}

SceneNext ==
  /\ Next
  /\ scene = "file" => step' = step
  /\ scene = "people" => made' <= 1 /\ restarts' = 0
  /\ UNCHANGED scene

\* Fairness asks for no step that a scene leaves out: people come, rooms are
\* made and the process ends only if they do.
SceneSpec == SceneInit /\ [][SceneNext]_<<vars, scene>> /\ Fairness
=============================================================================
