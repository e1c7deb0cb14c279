---------------------------- MODULE MCDispatchOrder ----------------------------
(* CampaignDispatch from two initial states, which keep the bounds of one run  *)
(* apart.                                                                      *)
EXTENDS MCCampaignDispatch

\* The operator asks for launches and tests as often as he likes; one status
\* and one reply come.
Repeated ==
  /\ request = [r \in Requests |-> NoRequest]
  /\ hook = [h \in Hooks |-> IF h = 1 THEN NoHook ELSE Done]
  /\ budget = [saves |-> 0, replies |-> MaxReplies, closings |-> 0, faults |-> MaxFaults]

\* The operator asks once, and pauses, saves and resumes; windows close, and
\* Meta delivers its statuses.
Once ==
  /\ request = [r \in Requests |-> IF r = 1 THEN NoRequest ELSE Done]
  /\ hook = [h \in Hooks |-> NoHook]
  /\ budget = [saves |-> MaxSaves, replies |-> 0, closings |-> MaxClosings, faults |-> MaxFaults]

OrderInit == Fresh /\ (Repeated \/ Once)

OrderSpec == OrderInit /\ [][Next]_vars
================================================================================
