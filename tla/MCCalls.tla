------------------------------- MODULE MCCalls -------------------------------
(* Small instances of Calls: Ada and Tobi, one call of each or one of Ada's. *)
EXTENDS Calls, TLC

CONSTANTS ada, tobi, a, t

AdaAndTobi == {ada, tobi}
Friends == ada :> tobi @@ tobi :> ada
NoCandidates == {}
OnlyTheCaller == {Placed(a)}
BothWays == {Placed(a), Placed(t)}
OneCall == {a}
BothCall == {a, t}
WhoCalls == [c \in Calls |-> IF c = t THEN tobi ELSE ada]

Losing == [k \in OutsideKinds |-> IF k = "lost" THEN 1 ELSE 0]

Anything == [k \in OutsideKinds |-> 1]

=============================================================================
