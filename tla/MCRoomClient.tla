------------------------------ MODULE MCRoomClient ------------------------------
(* Two people inside and one who asks, a screen and a camera.                    *)
EXTENDS RoomClient, TLC

CONSTANTS h1, h2, v1   \* two inside, one who asks

TwoHosts == {h1, h2}
TwoHostsOneVisitor == {h1, h2, v1}

\* The two who are inside are interchangeable, and so are the surfaces.
Symmetry == Permutations(TwoHosts) \cup Permutations(Keys)
=============================================================================
