------------------------------ MODULE MCAccount ------------------------------
(* A small instance of Account: two tabs, two phrases to be made and one   *)
(* account of another device.                                              *)
EXTENDS Account, TLC

CONSTANTS left, right, a1, a2, b

TwoTabs == {left, right}
ThreeAccounts == {a1, a2, b}
Other == {b}
Symmetric == Permutations({left, right}) \cup Permutations({a1, a2})

(* A device that was erased, or whose vault was overwritten, is not        *)
(* followed any further.                                                   *)
InUse == ~erased /\ ~mistaken
=============================================================================
