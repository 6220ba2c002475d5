------------------------------- MODULE MCLock -------------------------------
(* A small instance of Lock: two tabs, the policy chosen in one of them,   *)
(* leases of two and three units.                                          *)
EXTENDS Lock

CONSTANTS left, right

TwoTabs == {left, right}
Leases == [twoHours |-> 2, week |-> 3]
=============================================================================
