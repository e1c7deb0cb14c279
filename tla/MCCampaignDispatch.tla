-------------------------- MODULE MCCampaignDispatch --------------------------
(* CampaignDispatch with one or two contacts and one or two workers.         *)
EXTENDS CampaignDispatch, TLC

CONSTANTS ana, bia, w1, w2

OneContact == {ana}
TwoContacts == {ana, bia}
OneWorker == {w1}
TwoWorkers == {w1, w2}
NoCampaigns == {}
FirstCampaign == {1}

\* Contacts and workers are interchangeable.
Renamings == Permutations(Contacts) \cup Permutations(Workers)
=============================================================================
