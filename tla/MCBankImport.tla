------------------------------ MODULE MCBankImport ------------------------------
(* BankImport with two transactions, one of them older than the account's    *)
(* connection.                                                                *)
EXTENDS BankImport

CONSTANTS t1, t2

Older == {t1}
Two == {t1, t2}

\* One field at a time, and the form's whole patch.
SomePatches ==
  {[type |-> "INCOME", size |-> 0, category |-> Blank],
   [type |-> Blank, size |-> 2, category |-> "owner"],
   [type |-> "EXPENSE", size |-> 2, category |-> Blank]}
=============================================================================
