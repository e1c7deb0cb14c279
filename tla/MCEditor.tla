-------------------------------- MODULE MCEditor --------------------------------
(* One tab or two, every button, and what may be added to a flow.                *)
EXTENDS Editor

CONSTANTS t1, t2

OneTab == {t1}
TwoTabs == {t1, t2}
EveryButton == Buttons
Added == {"trigger", "contacts", "filter", "dedupe", "limit", "branch"}
=================================================================================
