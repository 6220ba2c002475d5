----------------------------- MODULE MCLocalStore -----------------------------
(* Small instances of LocalStore: a message of ours and one of theirs with  *)
(* one backfill, and one of theirs alone with two backfills.               *)
EXTENDS LocalStore

OursThenTheirs == {1}
BothMessages == {1, 2}
OneMessage == {1}
None == {}
Reconciliation == {<<"reconcile", 0>>}
ReconciliationAndChat == {<<"reconcile", 0>>, <<"chat", 0>>}
=============================================================================
