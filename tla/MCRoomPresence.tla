---------------------------- MODULE MCRoomPresence ----------------------------
(* RoomPresence with one, two or three browsers.                             *)
EXTENDS RoomPresence, TLC

CONSTANTS ana, bia, caio

One == {ana}
Two == {ana, bia}
Three == {ana, bia, caio}

\* Browsers are interchangeable.
Renamings == Permutations(Browsers)
=============================================================================
