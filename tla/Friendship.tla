------------------------------ MODULE Friendship ------------------------------
(***************************************************************************)
(* Who may write to whom: friend requests (routes/friends.rs), invitations *)
(* redeemed at registration (routes/users.rs) and mutual likes in Explore  *)
(* (routes/explore.rs), which all end in the same two tables,              *)
(* friend_requests and conversations.                                      *)
(*                                                                         *)
(* A statement is atomic, and so is a run of writes at the end of a        *)
(* transaction, whose locks keep others away until it commits.  What a     *)
(* handler reads in one statement and uses in another is two steps, and    *)
(* other handlers run in between.  Metro areas, interests and signed keys  *)
(* only take cards away, and everybody has them here.  Rate limits, growth *)
(* and notifications are left out: they change no row here.                *)
(***************************************************************************)
EXTENDS Naturals, FiniteSets

CONSTANTS
    Users,        \* people
    Calls,        \* bound: handlers that may be running at once
    MaxRemovals,  \* bound: how often a friendship is removed
    MaxActs       \* bound: how many operations are begun in all

ASSUME BoundsAssumption == MaxRemovals \in Nat /\ MaxActs \in Nat

VARIABLES
    members,       \* profiles
    request,       \* friend_requests: the row from one user to another
    conversations, \* conversations, each a set of two users
    visible,       \* explore_profiles that are visible
    likes,         \* explore_likes: the decision of one user about another
    blocks,        \* explore_blocks
    matches,       \* explore_matches, each a set of two users
    calls,         \* what each running handler has read
    wanted,        \* history: <<u, v>> once u has done what it takes to befriend v
    declined,      \* history: how often v has declined u's requests
    crossed,       \* history: likes that ran while likes between the two were erased
    removals, acts \* bounds

graph == <<request, conversations>>
explore == <<visible, likes, blocks, matches>>
history == <<wanted, declined, crossed>>
vars == <<members, graph, explore, calls, history, removals, acts>>

-----------------------------------------------------------------------------
(* Rows and handlers *)

Pairs == {p \in Users \X Users : p[1] # p[2]}
Back(p) == <<p[2], p[1]>>
Both(p) == {p[1], p[2]}

NoRow == [status |-> "none", attempts |-> 1]
Row(status, attempts) == [status |-> status, attempts |-> attempts]
Exists(p) == request[p].status # "none"

Idle == [op |-> "idle"]
Doing(op, p) == \E c \in Calls : calls[c].op = op /\ calls[c].pair = p

(* remove_friend has deleted this row and not committed: readers still see *)
(* it, and a writer waits.                                                 *)
Locked(p) == \E c \in Calls : calls[c].op = "remove" /\ p \in calls[c].rows

(* The pair's advisory lock, which like_card takes.                        *)
PairLocked(p) == Doing("like", p) \/ Doing("like", Back(p))

(* like_card has written this like and not committed; who would change a   *)
(* row that was there before has to wait.                                  *)
LikeWritten(p) == \E c \in Calls : calls[c].op = "like" /\ calls[c].stored /\ calls[c].pair = p
LikeHeld(p) == LikeWritten(p) /\ likes[p] # "none"

(* block_card and put_profile have deleted this like and not committed;    *)
(* who would write it waits.                                               *)
Erased(p) == \E c \in Calls : calls[c].op = "erase" /\ p \in calls[c].rows

(* Somebody acts only once their registration has been answered.           *)
Active(u) == u \in members /\ \A c \in Calls : calls[c].op = "redeem" => calls[c].pair[2] # u

Begin(c, call) ==
    /\ calls[c] = Idle /\ acts < MaxActs
    /\ calls' = [calls EXCEPT ![c] = call]
    /\ acts' = acts + 1
Goto(c, call) == calls' = [calls EXCEPT ![c] = call] /\ UNCHANGED acts
End(c) == Goto(c, Idle)
AtOnce == acts < MaxActs /\ acts' = acts + 1 /\ UNCHANGED calls

Befriend(p, attempts) ==
    /\ request' = [request EXCEPT ![p] = Row("accepted", attempts)]
    /\ conversations' = conversations \cup {Both(p)}

Init ==
    /\ members = {}
    /\ request = [p \in Pairs |-> NoRow]
    /\ conversations = {}
    /\ visible = {}
    /\ likes = [p \in Pairs |-> "none"]
    /\ blocks = {}
    /\ matches = {}
    /\ calls = [c \in Calls |-> Idle]
    /\ wanted = {}
    /\ declined = [p \in Pairs |-> 0]
    /\ crossed = {}
    /\ removals = 0
    /\ acts = 0

-----------------------------------------------------------------------------
(* Registration, with or without an invitation *)

Join(u) ==
    /\ u \notin members
    /\ members' = members \cup {u}
    /\ UNCHANGED <<graph, explore, calls, history, removals, acts>>

(* register_account stores the profile; redeem_invite has found the        *)
(* referrer and credited it.                                               *)
JoinInvited(c, p) ==
    /\ p[1] \in members /\ p[2] \notin members
    /\ members' = members \cup {p[2]}
    /\ wanted' = wanted \cup {p, Back(p)}
    /\ Begin(c, [op |-> "redeem", pair |-> p, blocked |-> FALSE, checked |-> FALSE])
    /\ UNCHANGED <<graph, explore, declined, crossed, removals>>

(* The award fails, and with it the registration's answer; the account     *)
(* stays.                                                                  *)
RedeemFails(c) ==
    /\ calls[c].op = "redeem" /\ ~calls[c].checked
    /\ End(c)
    /\ UNCHANGED <<members, graph, explore, history, removals>>

RedeemCheck(c) ==
    /\ calls[c].op = "redeem" /\ ~calls[c].checked
    /\ LET p == calls[c].pair
       IN  Goto(c, [calls[c] EXCEPT !.checked = TRUE,
                      !.blocked = "blocked" \in {request[p].status, request[Back(p)].status}])
    /\ UNCHANGED <<members, graph, explore, history, removals>>

RedeemCommit(c) ==
    /\ calls[c].op = "redeem" /\ calls[c].checked
    /\ LET p == calls[c].pair
       IN  IF calls[c].blocked THEN UNCHANGED graph
           ELSE ~Locked(p) /\ Befriend(p, request[p].attempts)
    /\ End(c)
    /\ UNCHANGED <<members, explore, history, removals>>

-----------------------------------------------------------------------------
(* Requests *)

(* send_friend_request: the receiver exists and has not asked first.       *)
Ask(c, p) ==
    /\ Active(p[1]) /\ p[2] \in members
    /\ request[Back(p)].status # "pending"
    /\ wanted' = wanted \cup {p}
    /\ Begin(c, [op |-> "ask", pair |-> p, attempts |-> 0])
    /\ UNCHANGED <<members, graph, explore, declined, crossed, removals>>

(* Mutant: a row that was removed or never there counts as a first refusal. *)
attemptsForgotten(row) == IF row.status \in {"none", "rejected"} THEN {2} ELSE {}

(* Mutant: a request that is still pending may be repeated. *)
attemptsCounted(row) ==
    CASE row.status = "none" -> {1}
      [] row.status \in {"pending", "rejected"} -> {row.attempts + 1}
      [] OTHER -> {}

(* The number of the attempt that a sender with this row may make, if any. *)
attemptsAllowed(row) ==
    CASE row.status = "none" -> {1}
      [] row.status = "rejected" /\ row.attempts = 1 -> {2}
      [] OTHER -> {}

(* ... its own row allows it ... *)
AskAllowed(c) ==
    /\ calls[c].op = "ask" /\ calls[c].attempts = 0
    /\ IF attemptsAllowed(request[calls[c].pair]) = {} THEN End(c)
       ELSE \E n \in attemptsAllowed(request[calls[c].pair]) :
                Goto(c, [calls[c] EXCEPT !.attempts = n])
    /\ UNCHANGED <<members, graph, explore, history, removals>>

(* ... and it is pending, whatever the row has become. *)
AskUpsert(c) ==
    /\ calls[c].op = "ask" /\ calls[c].attempts # 0
    /\ ~Locked(calls[c].pair)
    /\ request' = [request EXCEPT ![calls[c].pair] = Row("pending", calls[c].attempts)]
    /\ End(c)
    /\ UNCHANGED <<members, conversations, explore, history, removals>>

(* respond_friend_request: one transaction that locks the pending row.     *)
Approve(p) ==
    /\ Active(p[2]) /\ request[p].status = "pending"
    /\ Befriend(p, request[p].attempts)
    /\ wanted' = wanted \cup {Back(p)}
    /\ AtOnce
    /\ UNCHANGED <<members, explore, declined, crossed, removals>>

Decline(p) ==
    /\ Active(p[2]) /\ request[p].status = "pending"
    /\ request' = [request EXCEPT ![p].status =
                     IF request[p].attempts >= 2 THEN "blocked" ELSE "rejected"]
    /\ declined' = [declined EXCEPT ![p] = @ + 1]
    /\ AtOnce
    /\ UNCHANGED <<members, conversations, explore, wanted, crossed, removals>>

(* remove_friend: the accepted rows are deleted ... *)
Remove(c, p) ==
    /\ Active(p[1]) /\ ~Locked(p) /\ ~Locked(Back(p))
    /\ removals < MaxRemovals /\ removals' = removals + 1
    /\ Begin(c, [op |-> "remove", pair |-> p,
                 rows |-> {q \in {p, Back(p)} : request[q].status = "accepted"}])
    /\ UNCHANGED <<members, graph, explore, history>>

(* ... then the conversation, and the transaction commits. *)
RemoveCommit(c) ==
    /\ calls[c].op = "remove"
    /\ request' = [q \in Pairs |-> IF q \in calls[c].rows THEN NoRow ELSE request[q]]
    /\ conversations' = conversations \ {Both(calls[c].pair)}
    /\ End(c)
    /\ UNCHANGED <<members, explore, history, removals>>

-----------------------------------------------------------------------------
(* Explore *)

BlockedPair(p) == p \in blocks \/ Back(p) \in blocks

(* require_actionable_target *)
Eligible(p) ==
    /\ Both(p) \subseteq visible /\ ~BlockedPair(p)
    /\ ~Exists(p) /\ ~Exists(Back(p))

(* put_profile, with the card shown                                        *)
OptIn(u) ==
    /\ Active(u) /\ u \notin visible
    /\ ~\E c \in Calls : calls[c].op = "erase" /\ u \in calls[c].leavers
    /\ visible' = visible \cup {u}
    /\ AtOnce
    /\ UNCHANGED <<members, graph, likes, blocks, matches, history, removals>>

(* The end of put_profile and block_card: what they have written is seen   *)
(* by nobody yet, and of the likes in its scope the DELETE takes those     *)
(* that are committed.                                                     *)
Erase(c, blocking, leaving, scope) ==
    LET rows == {q \in scope : likes[q] # "none"}
    IN  /\ \A q \in rows : ~Erased(q) /\ ~LikeHeld(q)
        /\ Begin(c, [op |-> "erase", blocks |-> blocking, leavers |-> leaving,
                     scope |-> scope, rows |-> rows])
        /\ crossed' = crossed \cup {q \in scope : Doing("like", q)}
        /\ UNCHANGED <<members, graph, explore, wanted, declined, removals>>

(* put_profile, with the card hidden: likes of and for the user go ...     *)
OptOut(c, u) ==
    /\ Active(u)
    /\ ~\E d \in Calls : calls[d].op = "erase" /\ u \in calls[d].leavers
    /\ Erase(c, {}, {u}, {q \in Pairs : u \in Both(q)})

(* Mutant: only the blocker's own like is erased. *)
BlockOneWay(c, p) ==
    /\ Active(p[1]) /\ p[2] \in members
    /\ ~\E d \in Calls : calls[d].op = "erase" /\ p \in calls[d].blocks
    /\ Erase(c, {p}, {}, {p})

(* block_card: likes between the two go ...                                *)
Block(c, p) ==
    /\ Active(p[1]) /\ p[2] \in members
    /\ ~\E d \in Calls : calls[d].op = "erase" /\ p \in calls[d].blocks
    /\ Erase(c, {p}, {}, {p, Back(p)})

(* ... and the transaction commits.                                        *)
EraseCommit(c) ==
    /\ calls[c].op = "erase"
    /\ blocks' = blocks \cup calls[c].blocks
    /\ visible' = visible \ calls[c].leavers
    /\ likes' = [q \in Pairs |-> IF q \in calls[c].rows THEN "none" ELSE likes[q]]
    /\ End(c)
    /\ UNCHANGED <<members, graph, matches, history, removals>>

(* A like that starts while likes between the two are erased is crossed.   *)
Cross(p) ==
    crossed' = IF \E c \in Calls : calls[c].op = "erase" /\ p \in calls[c].scope
               THEN crossed \cup {p} ELSE crossed \ {p}

NewLike(p) == [op |-> "like", pair |-> p, stored |-> FALSE, answered |-> FALSE]

(* Mutant: the pair is not locked. *)
LikeUnlocked(c, p) ==
    /\ Active(p[1]) /\ Eligible(p)
    /\ wanted' = wanted \cup {p}
    /\ Cross(p)
    /\ Begin(c, NewLike(p))
    /\ UNCHANGED <<members, graph, explore, declined, removals>>

(* like_card: under the pair's lock the target is eligible ... *)
Like(c, p) ==
    /\ Active(p[1]) /\ ~PairLocked(p) /\ Eligible(p)
    /\ wanted' = wanted \cup {p}
    /\ Cross(p)
    /\ Begin(c, NewLike(p))
    /\ UNCHANGED <<members, graph, explore, declined, removals>>

(* ... the like is written, and the other's is looked for ... *)
LikeStore(c) ==
    /\ calls[c].op = "like" /\ ~calls[c].stored /\ ~Erased(calls[c].pair)
    /\ Goto(c, [calls[c] EXCEPT !.stored = TRUE,
                                !.answered = likes[Back(calls[c].pair)] = "liked"])
    /\ UNCHANGED <<members, graph, explore, history, removals>>

(* Mutant: a like is taken for a match. *)
matchesAtOnce(c) == Both(calls[c].pair) \notin matches

(* A like that is answered makes a match, once for each pair.              *)
makesMatch(c) == calls[c].answered /\ Both(calls[c].pair) \notin matches

(* ... and committed, with the match and the friendship if it is answered. *)
(* A row that came up meanwhile breaks the unique key and the transaction. *)
LikeCommit(c) ==
    LET p == calls[c].pair
    IN  /\ calls[c].op = "like" /\ calls[c].stored
        /\ CASE ~makesMatch(c) ->
                    /\ likes' = [likes EXCEPT ![p] = "liked"]
                    /\ UNCHANGED <<graph, matches>>
             [] makesMatch(c) /\ Exists(p) ->
                    ~Locked(p) /\ UNCHANGED <<graph, likes, matches>>
             [] makesMatch(c) /\ ~Exists(p) ->
                    /\ likes' = [likes EXCEPT ![p] = "liked"]
                    /\ matches' = matches \cup {Both(p)}
                    /\ Befriend(p, 1)
        /\ End(c)
        /\ UNCHANGED <<members, visible, blocks, history, removals>>

(* pass_card and report_card: the target is eligible ... *)
Judge(c, p) ==
    /\ Active(p[1]) /\ Eligible(p)
    /\ \E op \in {"pass", "report"} : Begin(c, [op |-> op, pair |-> p])
    /\ UNCHANGED <<members, graph, explore, history, removals>>

(* ... and a pass takes the place of a like ... *)
PassCommit(c) ==
    /\ calls[c].op = "pass" /\ ~LikeWritten(calls[c].pair) /\ ~Erased(calls[c].pair)
    /\ likes' = [likes EXCEPT ![calls[c].pair] = "passed"]
    /\ End(c)
    /\ UNCHANGED <<members, graph, visible, blocks, matches, history, removals>>

(* ... or a report erases it; the report itself is read by no code here.   *)
ReportCommit(c) ==
    /\ calls[c].op = "report" /\ ~LikeHeld(calls[c].pair) /\ ~Erased(calls[c].pair)
    /\ likes' = [likes EXCEPT ![calls[c].pair] = "none"]
    /\ End(c)
    /\ UNCHANGED <<members, graph, visible, blocks, matches, history, removals>>

-----------------------------------------------------------------------------

Next ==
    \/ \E u \in Users : Join(u) \/ OptIn(u)
    \/ \E p \in Pairs : Approve(p) \/ Decline(p)
    \/ \E c \in Calls, p \in Pairs :
          JoinInvited(c, p) \/ Ask(c, p) \/ Remove(c, p) \/ Like(c, p) \/ Judge(c, p)
    \/ \E c \in Calls : (\E u \in Users : OptOut(c, u)) \/ (\E p \in Pairs : Block(c, p))
    \/ \E c \in Calls :
          \/ RedeemFails(c) \/ RedeemCheck(c) \/ RedeemCommit(c)
          \/ AskAllowed(c) \/ AskUpsert(c) \/ RemoveCommit(c)
          \/ LikeStore(c) \/ LikeCommit(c) \/ PassCommit(c) \/ ReportCommit(c)
          \/ EraseCommit(c)

Spec == Init /\ [][Next]_vars

-----------------------------------------------------------------------------
(* Correctness *)

Statuses == {"none", "pending", "accepted", "rejected", "blocked"}
Rows == [status : Statuses, attempts : 1 .. 2]
CallStates ==
    {Idle} \cup [op : {"redeem"}, pair : Pairs, blocked : BOOLEAN, checked : BOOLEAN]
    \cup [op : {"ask"}, pair : Pairs, attempts : 0 .. 2]
    \cup [op : {"remove"}, pair : Pairs, rows : SUBSET Pairs]
    \cup [op : {"like"}, pair : Pairs, stored : BOOLEAN, answered : BOOLEAN]
    \cup [op : {"pass", "report"}, pair : Pairs]
    \cup [op : {"erase"}, blocks : SUBSET Pairs, leavers : SUBSET Users,
          scope : SUBSET Pairs, rows : SUBSET Pairs]

(* Every variable stays in its type; nobody is about to ask a third time   *)
(* (migrations/0002: attempts BETWEEN 1 AND 2).                            *)
TypeOK ==
    /\ members \subseteq Users /\ visible \subseteq Users
    /\ request \in [Pairs -> Rows]
    /\ conversations \subseteq {Both(p) : p \in Pairs}
    /\ matches \subseteq {Both(p) : p \in Pairs}
    /\ likes \in [Pairs -> {"none", "liked", "passed"}]
    /\ blocks \subseteq Pairs /\ wanted \subseteq Pairs /\ crossed \subseteq Pairs
    /\ calls \in [Calls -> CallStates]
    /\ declined \in [Pairs -> Nat]
    /\ removals \in Nat /\ acts \in Nat

(* Nobody is made anybody's friend alone: a friendship or a conversation   *)
(* exists only between two people who each asked, approved, liked, invited *)
(* or came by the invitation, in whatever order and however the handlers   *)
(* race (friends.rs, users.rs redeem_invite, explore.rs like_card).        *)
ConsentOnBothSides ==
    \A p \in Pairs :
        Both(p) \in conversations \/ request[p].status = "accepted"
        => {p, Back(p)} \subseteq wanted

(* Nobody is shut out by a single no: a blocked sender was declined twice, *)
(* whatever happened to the row in between (friends.rs, two-strike rule).  *)
BlockedAfterTwoRefusals ==
    \A p \in Pairs : request[p].status = "blocked" => declined[p] >= 2

(* What migrations/0002 and friends.rs call terminal: a blocked row stays  *)
(* blocked.                                                                *)
BlockedIsTerminal ==
    [][\A p \in Pairs : request[p].status = "blocked" => request'[p].status = "blocked"]_vars

(* Two people whose likes both stand have been matched: neither is left    *)
(* waiting for the other, however their likes, passes, blocks, reports and *)
(* departures interleave (explore.rs like_card).                           *)
MutualLikesMatch ==
    \A p \in Pairs : likes[p] = "liked" /\ likes[Back(p)] = "liked" => Both(p) \in matches

(* A like is found answered only while neither of the two has blocked the  *)
(* other or left Explore, whatever they did since the target was found     *)
(* eligible, unless the answer itself ran while a block or a departure     *)
(* erased the likes between the two, which passes over what is not         *)
(* committed (explore.rs like_card, block_card, put_profile).              *)
MatchIsWelcome ==
    [][\A c \in Calls :
         LET p == calls[c].pair
         IN  calls[c].op = "like" /\ ~calls[c].stored /\ calls'[c].op = "like" /\ calls'[c].answered =>
                \/ ~BlockedPair(p) /\ Both(p) \subseteq visible
                \/ Back(p) \in crossed]_vars

(* What explore.rs 211-212 says of a departure, and 460 means of a block:  *)
(* the likes are gone with it.                                             *)
ErasedAtOnce ==
    \A p \in Pairs :
        likes[p] = "liked" => ~BlockedPair(p) /\ Both(p) \subseteq visible

=============================================================================
