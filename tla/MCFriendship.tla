----------------------------- MODULE MCFriendship -----------------------------
(* Small instances of Friendship: Ada and Tobi, and two handlers at once.  *)
EXTENDS Friendship

CONSTANTS ada, tobi, c1, c2

AdaAndTobi == {ada, tobi}
TwoCalls == {c1, c2}
=============================================================================
