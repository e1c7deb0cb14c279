-------------------------------- MODULE RoomClient --------------------------------
(* The pages of a room, told apart by `side': the two halves of useRoom.ts that  *)
(* share and watch have no state in common but the socket, and the way in is     *)
(* over before either begins, so each moves with the others at rest.             *)
EXTENDS RoomKnock

CONSTANTS
  Keys, NoKey, MaxCaptures, MaxPublishers, MaxDrops, MaxFailures,  \* RoomPublisher
  MaxAttempts,                                                     \* both
  MaxViewers, MaxShares, MaxReconnects                             \* RoomViewers

\* A tab makes at least one viewer; all other bounds may be 0.
ASSUME ClientAssumption ==
  /\ MaxCaptures \in Nat /\ MaxPublishers \in Nat /\ MaxDrops \in Nat /\ MaxFailures \in Nat
  /\ MaxAttempts \in Nat
  /\ MaxViewers \in Nat \ {0} /\ MaxShares \in Nat /\ MaxReconnects \in Nat

VARIABLES
  side,
  ws, toServer, toTab, air, tab, spent,                   \* RoomPublisher
  share, inbox, offers, watch, shares, reconnects         \* RoomViewers

publishVars == <<ws, toServer, toTab, air, tab, spent>>
watchVars   == <<share, inbox, offers, watch, shares, reconnects>>

P == INSTANCE RoomPublisher
V == INSTANCE RoomViewers WITH air <- share, tab <- watch

ClientInit == Init /\ P!Init /\ V!Init /\ side \in {"knocks", "shares", "watches"}

Knocks  == side = "knocks"  /\ Next   /\ UNCHANGED <<publishVars, watchVars, side>>
Shares  == side = "shares"  /\ P!Next /\ UNCHANGED <<vars, watchVars, side>>
Watches == side = "watches" /\ V!Next /\ UNCHANGED <<vars, publishVars, side>>

ClientNext == Knocks \/ Shares \/ Watches

ClientSpec == ClientInit /\ [][ClientNext]_<<vars, publishVars, watchVars, side>>

\* RoomPublisher!CaptureIsHeld: what is captured is the share one can stop.
CaptureIsHeld == P!CaptureIsHeld

\* RoomViewers!HeldIsOpen: no tile plays a closed viewer, and no entry of one
\* stands in the way of the next share.
HeldIsOpen == V!HeldIsOpen

(* What the comments say and the code does not do, of RoomPublisher and of     *)
(* RoomViewers.                                                                *)

\* RoomPublisher!StartIsDismissed.
StartIsDismissed == P!StartIsDismissed

\* RoomPublisher!StoppedIsOff.
StoppedIsOff == P!StoppedIsOff

\* RoomPublisher!OnePublisher.
OnePublisher == P!OnePublisher

\* RoomPublisher!LeavingEndsCapture.
LeavingEndsCapture == P!LeavingEndsCapture

\* RoomViewers!OneViewerPerPublisher.
OneViewerPerPublisher == V!OneViewerPerPublisher
=================================================================================
