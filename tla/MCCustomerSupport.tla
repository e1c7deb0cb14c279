--------------------------- MODULE MCCustomerSupport ---------------------------
(* CustomerSupport on small instances: a message that asks for a write and, *)
(* in some runs, one that asks for a read.                                 *)
EXTENDS CustomerSupport

CONSTANTS w, r

OneWrite == {w}
WriteAndRead == {w, r}
=============================================================================
