------------------------------ MODULE TickLadder ------------------------------
(***************************************************************************)
(* What the ticks under a message promise its sender.  A message is stored *)
(* on the relay, arrives on the recipient's device, and is opened there;   *)
(* the sender's device shows one, two or three ticks for it.  The relay's  *)
(* schema names these three observable states of a message.                *)
(*                                                                         *)
(* What happens to a message is never undone, the first tick stays, and no *)
(* tick runs ahead of what it stands for.  The second and the third stay   *)
(* as well, but for messages that are unsettled: the sender's device wrote *)
(* one of these twice at once.                                             *)
(***************************************************************************)
EXTENDS Naturals

VARIABLES
    stored, arrived, openedThere,   \* messages for which it has happened
    oneTick, twoTicks, threeTicks,  \* messages for which the sender's device says so
    unsettled                       \* messages whose ticks may come down

vars == <<stored, arrived, openedThere, oneTick, twoTicks, threeTicks, unsettled>>

Init ==
    /\ stored = {} /\ arrived = {} /\ openedThere = {}
    /\ oneTick = {} /\ twoTicks = {} /\ threeTicks = {}
    /\ unsettled = {}

(* A set that grows, and only within the bound. *)
Grow(old, new, bound) == old \subseteq new /\ new \subseteq bound

(* The same, but for what may come out of it. *)
Climb(old, new, bound, loose) == old \ new \subseteq loose /\ new \subseteq bound

(* A message happens to exist before it can arrive; it may be opened the   *)
(* moment it arrives.                                                      *)
Happen ==
    /\ Grow(stored, stored', Nat)
    /\ Grow(arrived, arrived', stored)
    /\ Grow(openedThere, openedThere', arrived')

(* A tick shows what had already happened. *)
Show ==
    /\ Grow(oneTick, oneTick', stored)
    /\ Climb(twoTicks, twoTicks', arrived, unsettled)
    /\ Climb(threeTicks, threeTicks', openedThere, unsettled)
    /\ Grow(unsettled, unsettled', stored')

Next == Happen /\ Show

Spec == Init /\ [][Next]_vars
=============================================================================
