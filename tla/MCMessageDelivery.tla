-------------------------- MODULE MCMessageDelivery --------------------------
(***************************************************************************)
(* Small instances of MessageDelivery: Ada and Tobi, what they type, and   *)
(* how often each kind of outside step is taken.                           *)
(***************************************************************************)
EXTENDS MessageDelivery, TLC

CONSTANTS ada, tobi, a1, a2, t1

MCUsers == {ada, tobi}
MCPeer == ada :> tobi @@ tobi :> ada
MCAuthor == [d \in Drafts |-> IF d = t1 THEN tobi ELSE ada]

AdaTypesOne == {a1}
AdaTypesTwo == {a1, a2}

(* Values of MaxTimes. *)
Never == [k \in OutsideKinds |-> 0]
Anything == [k \in OutsideKinds |-> IF k = "look" THEN 2 ELSE 1]
LookOnce == [Never EXCEPT !["look"] = 1]
TimerOnce == [Never EXCEPT !["timer"] = 1]
Ticking == [Never EXCEPT !["timer"] = Unbounded]
TickingReject == [Ticking EXCEPT !["reject"] = 1]
TickingDrop == [Ticking EXCEPT !["drop"] = 1]
TickingLosses == [TickingReject EXCEPT !["lag"] = 1]

-----------------------------------------------------------------------------
(* Other states to start from, each one that a run from Init passes through. *)

InitWith(stored, linkOf, rowsOf) ==
    /\ log = stored /\ delivered = {} /\ read = {}
    /\ link = linkOf
    /\ up = [u \in Users |-> <<>>]
    /\ down = [u \in Users |-> <<>>]
    /\ rows = rowsOf
    /\ cursor = [u \in Users |-> 0]
    /\ parked = [u \in Users |-> NothingParked]
    /\ pc = [u \in Users |-> IdleTasks]
    /\ fetch = [u \in Users |-> [t \in Tasks |-> NoFetch]]
    /\ puts = [u \in Users |-> {}]
    /\ receipts = [u \in Users |-> NothingParked]
    /\ latch = [u \in Users |-> FALSE]
    /\ handlers = [u \in Users |-> {}]
    /\ viewing = [u \in Users |-> FALSE]
    /\ composed = {log[i] : i \in Ids}
    /\ opened = [u \in Users |-> rowsOf[u].seen]
    /\ raced = [u \in Users |-> {}]
    /\ spent = [k \in OutsideKinds |-> 0]

(* Both are connected and nothing has been typed yet. *)
ConnectedSpec ==
    /\ InitWith(<<>>, [u \in Users |-> "live"], [u \in Users |-> NoRows])
    /\ [][Next]_vars

(* Ada is connected and has sent a1, which came back to her; Tobi has been *)
(* away all along.                                                         *)
TobiAwaySpec ==
    /\ InitWith(<<a1>>, ada :> "live" @@ tobi :> "closed",
                ada :> [NoRows EXCEPT !.held = {1}, !.seen = {1}] @@ tobi :> NoRows)
    /\ [][Next]_vars
FairTobiAwaySpec == TobiAwaySpec /\ Fairness
=============================================================================
