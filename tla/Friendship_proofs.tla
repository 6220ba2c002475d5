-------------------------- MODULE Friendship_proofs --------------------------
(***************************************************************************)
(* Proofs about Friendship, for any set of people and any number of        *)
(* handlers at once.  Each theorem rests on an invariant of its own about  *)
(* what a handler has read and not yet used; TypeOK is under all of them.  *)
(***************************************************************************)
EXTENDS Friendship, TLAPS

(* Two pairs of the same two people are the same pair or each other's      *)
(* back.                                                                   *)
LEMMA SamePeople ==
    \A p, q \in Pairs : Both(p) = Both(q) => q = p \/ q = Back(p)
BY DEF Pairs, Both, Back

(* Back is an involution on Pairs, and keeps the people.                   *)
LEMMA BackPair ==
    \A p \in Pairs : Back(p) \in Pairs /\ Back(Back(p)) = p /\ Both(Back(p)) = Both(p)
BY DEF Pairs, Both, Back

(* The fields of a running handler have their types.                       *)
LEMMA CallType ==
    ASSUME TypeOK, NEW c \in Calls
    PROVE  /\ calls[c].op \notin {"idle", "erase"} => calls[c].pair \in Pairs
           /\ calls[c].op = "erase" =>
                 /\ calls[c].blocks \subseteq Pairs /\ calls[c].leavers \subseteq Users
                 /\ calls[c].scope \subseteq Pairs /\ calls[c].rows \subseteq Pairs
           /\ calls[c].op = "ask" => calls[c].attempts \in 0 .. 2
           /\ calls[c].op = "remove" => calls[c].rows \subseteq Pairs
           /\ calls[c].op \in {"idle", "redeem", "ask", "remove", "like", "pass", "report", "erase"}
BY DEF TypeOK, CallStates, Idle

(* Befriend writes a row and a conversation of the right types.            *)
LEMMA BefriendType ==
    ASSUME TypeOK, NEW p \in Pairs, NEW n \in 1 .. 2, Befriend(p, n)
    PROVE  /\ request' \in [Pairs -> Rows]
           /\ conversations' \subseteq {Both(q) : q \in Pairs}
BY DEF TypeOK, Befriend, Row, Rows, Statuses

LEMMA TypeInit == Init => TypeOK
BY DEF Init, TypeOK, NoRow, Rows, Statuses, Idle, CallStates

LEMMA TypeCalls ==
    ASSUME TypeOK, NEW c \in Calls, NEW call \in CallStates,
           Begin(c, call) \/ Goto(c, call)
    PROVE  calls' \in [Calls -> CallStates] /\ acts' \in Nat
BY DEF TypeOK, Begin, Goto

(* The operations of one person, of a pair in one statement, those that    *)
(* begin a handler, and the later steps of a handler.                      *)
LEMMA TypeUser ==
    ASSUME TypeOK, NEW u \in Users, Join(u) \/ OptIn(u)
    PROVE  TypeOK'
<1>1. CASE Join(u)
  BY <1>1 DEF Join, TypeOK, graph, explore, history
<1>2. CASE OptIn(u)
  BY <1>2 DEF OptIn, AtOnce, TypeOK, graph, history
<1> QED BY <1>1, <1>2

LEMMA TypePair ==
    ASSUME TypeOK, NEW p \in Pairs,
           Approve(p) \/ Decline(p)
    PROVE  TypeOK'
<1>1. CASE Approve(p)
  <2>1. request[p].attempts \in 1 .. 2
    BY DEF TypeOK, Rows
  <2>2. request' \in [Pairs -> Rows] /\ conversations' \subseteq {Both(q) : q \in Pairs}
    BY <1>1, <2>1, BefriendType DEF Approve
  <2>3. wanted' \subseteq Pairs
    BY <1>1, BackPair DEF Approve, TypeOK
  <2> QED BY <1>1, <2>2, <2>3 DEF Approve, AtOnce, TypeOK, explore
<1>2. CASE Decline(p)
  <2>1. request' \in [Pairs -> Rows]
    BY <1>2 DEF Decline, TypeOK, Rows, Statuses
  <2> QED BY <1>2, <2>1 DEF Decline, AtOnce, TypeOK, explore
<1> QED BY <1>1, <1>2

LEMMA TypeBegin ==
    ASSUME TypeOK, NEW c \in Calls, NEW p \in Pairs,
           JoinInvited(c, p) \/ Ask(c, p) \/ Remove(c, p) \/ Like(c, p) \/ Judge(c, p)
    PROVE  TypeOK'
<1>1. CASE JoinInvited(c, p)
  <2>1. [op |-> "redeem", pair |-> p, blocked |-> FALSE, checked |-> FALSE] \in CallStates
    BY DEF CallStates
  <2>2. calls' \in [Calls -> CallStates] /\ acts' \in Nat
    BY <1>1, <2>1, TypeCalls DEF JoinInvited
  <2>3. wanted' \subseteq Pairs /\ members' \subseteq Users
    BY <1>1, BackPair DEF JoinInvited, TypeOK, Pairs
  <2> QED BY <1>1, <2>2, <2>3 DEF JoinInvited, TypeOK, graph, explore
<1>2. CASE Ask(c, p)
  <2>1. [op |-> "ask", pair |-> p, attempts |-> 0] \in CallStates
    BY DEF CallStates
  <2>2. calls' \in [Calls -> CallStates] /\ acts' \in Nat
    BY <1>2, <2>1, TypeCalls DEF Ask
  <2> QED BY <1>2, <2>2 DEF Ask, TypeOK, graph, explore
<1>3. CASE Remove(c, p)
  <2>1. [op |-> "remove", pair |-> p,
         rows |-> {q \in {p, Back(p)} : request[q].status = "accepted"}] \in CallStates
    BY BackPair DEF CallStates
  <2>2. calls' \in [Calls -> CallStates] /\ acts' \in Nat
    BY <1>3, <2>1, TypeCalls DEF Remove
  <2> QED BY <1>3, <2>2 DEF Remove, TypeOK, graph, explore, history
<1>4. CASE Like(c, p)
  <2>1. NewLike(p) \in CallStates
    BY DEF CallStates, NewLike
  <2>2. calls' \in [Calls -> CallStates] /\ acts' \in Nat
    BY <1>4, <2>1, TypeCalls DEF Like
  <2>3. crossed' \subseteq Pairs
    BY <1>4 DEF Like, Cross, TypeOK
  <2> QED BY <1>4, <2>2, <2>3 DEF Like, TypeOK, graph, explore
<1>5. CASE Judge(c, p)
  <2>1. \A op \in {"pass", "report"} : [op |-> op, pair |-> p] \in CallStates
    BY DEF CallStates
  <2>2. calls' \in [Calls -> CallStates] /\ acts' \in Nat
    BY <1>5, <2>1, TypeCalls DEF Judge
  <2> QED BY <1>5, <2>2 DEF Judge, TypeOK, graph, explore, history
<1> QED BY <1>1, <1>2, <1>3, <1>4, <1>5

(* A block or a departure begins as any handler does, and the likes it is  *)
(* to erase are pairs.                                                     *)
LEMMA EraseBegins ==
    ASSUME TypeOK, NEW c \in Calls,
           (\E u \in Users : OptOut(c, u)) \/ (\E p \in Pairs : Block(c, p))
    PROVE  \E blocking \in SUBSET Pairs, leaving \in SUBSET Users, scope \in SUBSET Pairs :
              /\ Erase(c, blocking, leaving, scope)
              /\ \A q \in Pairs :
                    {q, Back(q)} \cap blocking # {} \/ Both(q) \cap leaving # {} => q \in scope
<1>1. ASSUME NEW u \in Users, OptOut(c, u)
      PROVE  Erase(c, {}, {u}, {q \in Pairs : u \in Both(q)})
  BY <1>1 DEF OptOut
<1>2. ASSUME NEW p \in Pairs, Block(c, p)
      PROVE  /\ Erase(c, {p}, {}, {p, Back(p)}) /\ {p, Back(p)} \in SUBSET Pairs
             /\ \A q \in Pairs : {q, Back(q)} \cap {p} # {} => q \in {p, Back(p)}
  BY <1>2, BackPair DEF Block
<1>3. CASE \E u \in Users : OptOut(c, u)
  <2>1. PICK u \in Users : Erase(c, {}, {u}, {q \in Pairs : u \in Both(q)})
    BY <1>1, <1>3
  <2> DEFINE scope == {q \in Pairs : u \in Both(q)}
  <2>2. /\ scope \in SUBSET Pairs /\ {u} \in SUBSET Users
        /\ \A q \in Pairs : {q, Back(q)} \cap {} # {} \/ Both(q) \cap {u} # {} => q \in scope
    OBVIOUS
  <2>3. Erase(c, {}, {u}, scope)
    BY <2>1
  <2> HIDE DEF scope
  <2> QED BY <2>2, <2>3
<1>4. CASE \E p \in Pairs : Block(c, p)
  <2>1. PICK p \in Pairs : Block(c, p)
    BY <1>4
  <2> DEFINE scope == {p, Back(p)}
  <2>2. /\ Erase(c, {p}, {}, scope) /\ scope \in SUBSET Pairs
        /\ {p} \in SUBSET Pairs /\ {} \in SUBSET Users
    BY <1>2, <2>1
  <2>3. \A q \in Pairs : {q, Back(q)} \cap {p} # {} \/ Both(q) \cap {} # {} => q \in scope
    BY <1>2, <2>1
  <2> HIDE DEF scope
  <2> QED BY <2>2, <2>3
<1> QED BY <1>3, <1>4

LEMMA EraseType ==
    ASSUME TypeOK, NEW c \in Calls, NEW blocking \in SUBSET Pairs,
           NEW leaving \in SUBSET Users, NEW scope \in SUBSET Pairs,
           Erase(c, blocking, leaving, scope)
    PROVE  /\ calls[c] = Idle
           /\ UNCHANGED <<members, graph, explore, wanted, declined, removals>>
           /\ crossed \subseteq crossed' /\ crossed' \subseteq Pairs
           /\ \A q \in scope : Doing("like", q) => q \in crossed'
           /\ calls'[c].op = "erase" /\ calls'[c].scope = scope
           /\ calls'[c].blocks = blocking /\ calls'[c].leavers = leaving
           /\ \A q \in scope : likes[q] # "none" => q \in calls'[c].rows
           /\ \A d \in Calls : d # c => calls'[d] = calls[d]
           /\ calls' \in [Calls -> CallStates] /\ acts' \in Nat
<1> DEFINE call == [op |-> "erase", blocks |-> blocking, leavers |-> leaving,
                    scope |-> scope, rows |-> {q \in scope : likes[q] # "none"}]
<1>1. call \in CallStates
  BY DEF CallStates
<1>2. /\ call.op = "erase" /\ call.scope = scope /\ call.blocks = blocking
      /\ call.leavers = leaving
      /\ \A q \in scope : likes[q] # "none" => q \in call.rows
  OBVIOUS
<1>3. Begin(c, call)
  BY DEF Erase
<1>4. /\ calls[c] = Idle /\ calls'[c] = call
      /\ \A d \in Calls : d # c => calls'[d] = calls[d]
      /\ calls' \in [Calls -> CallStates] /\ acts' \in Nat
  <2> HIDE DEF call
  <2> QED BY <1>1, <1>3 DEF Begin, TypeOK
<1>5. /\ UNCHANGED <<members, graph, explore, wanted, declined, removals>>
      /\ crossed' = crossed \cup {q \in scope : Doing("like", q)}
  BY DEF Erase
<1>6. crossed \subseteq Pairs
  BY DEF TypeOK
<1> HIDE DEF call
<1> QED BY <1>1, <1>2, <1>3, <1>4, <1>5, <1>6

LEMMA TypeErase ==
    ASSUME TypeOK, NEW c \in Calls,
           (\E u \in Users : OptOut(c, u)) \/ (\E p \in Pairs : Block(c, p))
    PROVE  TypeOK'
<1>1. PICK blocking \in SUBSET Pairs, leaving \in SUBSET Users, scope \in SUBSET Pairs :
         Erase(c, blocking, leaving, scope)
  BY EraseBegins
<1>2. /\ UNCHANGED <<members, graph, explore, wanted, declined, removals>>
      /\ crossed' \subseteq Pairs
      /\ calls' \in [Calls -> CallStates] /\ acts' \in Nat
  BY <1>1, EraseType
<1> QED BY <1>2 DEF TypeOK, graph, explore

LEMMA TypeGoOn ==
    ASSUME TypeOK, NEW c \in Calls,
           \/ RedeemFails(c) \/ RedeemCheck(c) \/ RedeemCommit(c)
           \/ AskAllowed(c) \/ AskUpsert(c) \/ RemoveCommit(c)
           \/ LikeStore(c) \/ LikeCommit(c) \/ PassCommit(c) \/ ReportCommit(c)
           \/ EraseCommit(c)
    PROVE  TypeOK'
<1>1. CASE RedeemFails(c)
  BY <1>1, TypeCalls DEF RedeemFails, End, CallStates, TypeOK, graph, explore, history
<1>2. CASE RedeemCommit(c)
  <2>1. calls' \in [Calls -> CallStates] /\ acts' \in Nat
    BY <1>2, TypeCalls DEF RedeemCommit, End, CallStates
  <2>2. calls[c].pair \in Pairs
    BY <1>2, CallType DEF RedeemCommit
  <2>3. request[calls[c].pair].attempts \in 1 .. 2
    BY <2>2 DEF TypeOK, Rows
  <2>4. request' \in [Pairs -> Rows] /\ conversations' \subseteq {Both(q) : q \in Pairs}
    BY <1>2, <2>2, <2>3, BefriendType DEF RedeemCommit, TypeOK, graph
  <2> QED BY <1>2, <2>1, <2>4 DEF RedeemCommit, TypeOK, explore, history
<1>3. CASE RedeemCheck(c)
  <2> DEFINE q == calls[c].pair
             b == "blocked" \in {request[q].status, request[Back(q)].status}
             call == [calls[c] EXCEPT !.checked = TRUE, !.blocked = b]
  <2>1. calls[c] \in [op : {"redeem"}, pair : Pairs, blocked : BOOLEAN, checked : BOOLEAN]
    BY <1>3 DEF RedeemCheck, TypeOK, CallStates, Idle
  <2>2. b \in BOOLEAN
    OBVIOUS
  <2>3. Goto(c, call)
    BY <1>3 DEF RedeemCheck
  <2>4. call \in CallStates
    <3> HIDE DEF b
    <3> QED BY <2>1, <2>2 DEF CallStates
  <2>5. calls' \in [Calls -> CallStates] /\ acts' \in Nat
    <3> HIDE DEF call
    <3> QED BY <2>3, <2>4, TypeCalls
  <2> QED BY <1>3, <2>5 DEF RedeemCheck, TypeOK, graph, explore, history
<1>4. CASE AskAllowed(c)
  <2>1. calls[c] \in [op : {"ask"}, pair : Pairs, attempts : 0 .. 2]
    BY <1>4 DEF AskAllowed, TypeOK, CallStates, Idle
  <2>2. \A n \in attemptsAllowed(request[calls[c].pair]) :
           [calls[c] EXCEPT !.attempts = n] \in CallStates
    BY <2>1 DEF CallStates, attemptsAllowed
  <2>3. Idle \in CallStates
    BY DEF CallStates
  <2>4. calls' \in [Calls -> CallStates] /\ acts' \in Nat
    BY <1>4, <2>2, <2>3, TypeCalls DEF AskAllowed, End
  <2> QED BY <1>4, <2>4 DEF AskAllowed, TypeOK, graph, explore, history
<1>5. CASE AskUpsert(c)
  <2>1. calls' \in [Calls -> CallStates] /\ acts' \in Nat
    BY <1>5, TypeCalls DEF AskUpsert, End, CallStates
  <2>2. calls[c].attempts \in 1 .. 2
    BY <1>5, CallType DEF AskUpsert
  <2>3. request' \in [Pairs -> Rows]
    BY <1>5, <2>2 DEF AskUpsert, TypeOK, Row, Rows, Statuses
  <2> QED BY <1>5, <2>1, <2>3 DEF AskUpsert, TypeOK, explore, history
<1>6. CASE RemoveCommit(c)
  <2>1. calls' \in [Calls -> CallStates] /\ acts' \in Nat
    BY <1>6, TypeCalls DEF RemoveCommit, End, CallStates
  <2>2. request' \in [Pairs -> Rows]
    BY <1>6 DEF RemoveCommit, TypeOK, NoRow, Rows, Statuses
  <2> QED BY <1>6, <2>1, <2>2 DEF RemoveCommit, TypeOK, explore, history
<1>7. CASE LikeCommit(c)
  <2> DEFINE q == calls[c].pair
  <2>1. calls' \in [Calls -> CallStates] /\ acts' \in Nat
    BY <1>7, TypeCalls DEF LikeCommit, End, CallStates
  <2>2. q \in Pairs
    BY <1>7, CallType DEF LikeCommit
  <2>3. /\ UNCHANGED graph \/ Befriend(q, 1)
        /\ likes' = likes \/ likes' = [likes EXCEPT ![q] = "liked"]
        /\ matches' = matches \/ matches' = matches \cup {Both(q)}
    BY <1>7 DEF LikeCommit
  <2>4. request' \in [Pairs -> Rows] /\ conversations' \subseteq {Both(r) : r \in Pairs}
    BY <2>2, <2>3, BefriendType DEF TypeOK, graph
  <2>5. /\ likes' \in [Pairs -> {"none", "liked", "passed"}]
        /\ matches' \subseteq {Both(r) : r \in Pairs}
    BY <2>2, <2>3 DEF TypeOK
  <2> QED BY <1>7, <2>1, <2>4, <2>5 DEF LikeCommit, TypeOK, history
<1>8. CASE LikeStore(c)
  <2> DEFINE b == likes[Back(calls[c].pair)] = "liked"
             call == [calls[c] EXCEPT !.stored = TRUE, !.answered = b]
  <2>1. calls[c] \in [op : {"like"}, pair : Pairs, stored : BOOLEAN, answered : BOOLEAN]
    BY <1>8 DEF LikeStore, TypeOK, CallStates, Idle
  <2>2. b \in BOOLEAN
    OBVIOUS
  <2>3. Goto(c, call)
    BY <1>8 DEF LikeStore
  <2>4. call \in CallStates
    <3> HIDE DEF b
    <3> QED BY <2>1, <2>2 DEF CallStates
  <2>5. calls' \in [Calls -> CallStates] /\ acts' \in Nat
    <3> HIDE DEF call
    <3> QED BY <2>3, <2>4, TypeCalls
  <2> QED BY <1>8, <2>5 DEF LikeStore, TypeOK, graph, explore, history
<1>9. CASE PassCommit(c) \/ ReportCommit(c)
  <2>1. calls' \in [Calls -> CallStates] /\ acts' \in Nat
    BY <1>9, TypeCalls DEF PassCommit, ReportCommit, End, CallStates
  <2> QED BY <1>9, <2>1 DEF PassCommit, ReportCommit, TypeOK, graph, history
<1>10. CASE EraseCommit(c)
  <2>1. calls' \in [Calls -> CallStates] /\ acts' \in Nat
    BY <1>10, TypeCalls DEF EraseCommit, End, CallStates
  <2>2. calls[c].blocks \subseteq Pairs
    BY <1>10, CallType DEF EraseCommit
  <2> QED BY <1>10, <2>1, <2>2 DEF EraseCommit, TypeOK, graph, history
<1> QED BY <1>1, <1>2, <1>3, <1>4, <1>5, <1>6, <1>7, <1>8, <1>9, <1>10

LEMMA TypeNext == TypeOK /\ [Next]_vars => TypeOK'
<1> SUFFICES ASSUME TypeOK, [Next]_vars PROVE TypeOK'
  OBVIOUS
<1>1. CASE UNCHANGED vars
  BY <1>1 DEF TypeOK, vars, graph, explore, history
<1>2. CASE Next
  BY <1>2, TypeUser, TypePair, TypeBegin, TypeErase, TypeGoOn DEF Next
<1> QED BY <1>1, <1>2

(* The tables, the handlers and the histories keep their types, and no     *)
(* handler is about to send a third request (friends.rs,                   *)
(* migrations/0002: attempts BETWEEN 1 AND 2).                             *)
THEOREM TypeCorrect == Spec => []TypeOK
BY TypeInit, TypeNext, PTL DEF Spec

-----------------------------------------------------------------------------
(* Refusals.  A blocked row was declined twice because a row at its second *)
(* attempt, and a handler about to write one, has been declined once: the  *)
(* row may be accepted, removed or asked for again meanwhile.              *)

RefusalInv ==
    /\ BlockedAfterTwoRefusals
    /\ \A p \in Pairs :
          request[p].status = "rejected" \/ request[p].attempts = 2 => declined[p] >= 1
    /\ \A c \in Calls :
          calls[c].op = "ask" /\ calls[c].attempts = 2 => declined[calls[c].pair] >= 1

LEMMA RefusalInit == Init => RefusalInv
BY DEF Init, RefusalInv, BlockedAfterTwoRefusals, NoRow, Idle

(* What befriends a pair keeps the number of its attempts.                 *)
LEMMA RefusalBefriend ==
    ASSUME TypeOK, RefusalInv, NEW p \in Pairs, NEW n \in 1 .. 2,
           Befriend(p, n), n \in {1, request[p].attempts}, declined' = declined
    PROVE  \A q \in Pairs :
              /\ request'[q].status = "blocked" => declined'[q] >= 2
              /\ request'[q].status = "rejected" \/ request'[q].attempts = 2
                 => declined'[q] >= 1
BY DEF Befriend, Row, TypeOK, RefusalInv, BlockedAfterTwoRefusals

LEMMA RefusalUser ==
    ASSUME TypeOK, RefusalInv, NEW u \in Users, Join(u) \/ OptIn(u)
    PROVE  RefusalInv'
BY DEF Join, OptIn, AtOnce, RefusalInv, BlockedAfterTwoRefusals, graph, history

LEMMA RefusalPair ==
    ASSUME TypeOK, RefusalInv, NEW p \in Pairs,
           Approve(p) \/ Decline(p)
    PROVE  RefusalInv'
<1>1. CASE Approve(p)
  <2>1. request[p].attempts \in 1 .. 2
    BY DEF TypeOK, Rows
  <2>2. \A q \in Pairs :
              /\ request'[q].status = "blocked" => declined'[q] >= 2
              /\ request'[q].status = "rejected" \/ request'[q].attempts = 2
                 => declined'[q] >= 1
    BY <1>1, <2>1, RefusalBefriend DEF Approve
  <2> QED BY <1>1, <2>2 DEF Approve, AtOnce, RefusalInv, BlockedAfterTwoRefusals
<1>2. CASE Decline(p)
  <2>1. /\ declined \in [Pairs -> Nat] /\ request \in [Pairs -> Rows]
        /\ request[p].attempts \in 1 .. 2
    BY DEF TypeOK, Rows
  <2>2. \A q \in Pairs : declined'[q] >= declined[q] /\ declined'[q] \in Nat
    BY <1>2, <2>1 DEF Decline
  <2>3. declined'[p] = declined[p] + 1
    BY <1>2, <2>1 DEF Decline
  <2>4. /\ request'[p].status =
              IF request[p].attempts >= 2 THEN "blocked" ELSE "rejected"
        /\ request'[p].attempts = request[p].attempts
    BY <1>2, <2>1 DEF Decline, Rows
  <2>5. \A q \in Pairs : q # p => request'[q] = request[q]
    BY <1>2, <2>1 DEF Decline
  <2>6. BlockedAfterTwoRefusals'
    BY <2>1, <2>2, <2>3, <2>4, <2>5 DEF BlockedAfterTwoRefusals, RefusalInv
  <2>7. \A q \in Pairs :
          request'[q].status = "rejected" \/ request'[q].attempts = 2 => declined'[q] >= 1
    BY <2>1, <2>2, <2>3, <2>4, <2>5 DEF RefusalInv
  <2>8. \A c \in Calls :
          calls'[c].op = "ask" /\ calls'[c].attempts = 2 => declined'[calls'[c].pair] >= 1
    <3> SUFFICES ASSUME NEW c \in Calls, calls[c].op = "ask", calls[c].attempts = 2
                 PROVE  declined'[calls[c].pair] >= 1
      BY <1>2 DEF Decline, AtOnce
    <3>1. calls[c].pair \in Pairs
      BY CallType
    <3> QED BY <2>1, <2>2, <3>1 DEF RefusalInv
  <2> QED BY <2>6, <2>7, <2>8 DEF RefusalInv
<1> QED BY <1>1, <1>2

LEMMA RefusalBegin ==
    ASSUME TypeOK, RefusalInv, NEW c \in Calls, NEW p \in Pairs,
           JoinInvited(c, p) \/ Ask(c, p) \/ Remove(c, p) \/ Like(c, p) \/ Judge(c, p)
    PROVE  RefusalInv'
<1>1. calls \in [Calls -> CallStates]
  BY DEF TypeOK
<1>2. request' = request /\ declined' = declined
  BY DEF JoinInvited, Ask, Remove, Like, Judge, graph, history
<1>3. \E call \in CallStates : /\ calls' = [calls EXCEPT ![c] = call]
                               /\ call.op = "ask" => call.attempts = 0
  <2>1. CASE JoinInvited(c, p)
    <3> DEFINE call == [op |-> "redeem", pair |-> p, blocked |-> FALSE, checked |-> FALSE]
    <3>1. call \in CallStates
      BY DEF CallStates
    <3> QED BY <2>1, <3>1 DEF JoinInvited, Begin
  <2>2. CASE Ask(c, p)
    <3> DEFINE call == [op |-> "ask", pair |-> p, attempts |-> 0]
    <3>1. call \in CallStates
      BY DEF CallStates
    <3> QED BY <2>2, <3>1 DEF Ask, Begin
  <2>3. CASE Remove(c, p)
    <3> DEFINE call == [op |-> "remove", pair |-> p,
                        rows |-> {q \in {p, Back(p)} : request[q].status = "accepted"}]
    <3>1. call \in CallStates
      BY BackPair DEF CallStates
    <3> QED BY <2>3, <3>1 DEF Remove, Begin
  <2>4. CASE Like(c, p)
    <3>1. NewLike(p) \in CallStates /\ NewLike(p).op # "ask"
      BY DEF CallStates, NewLike
    <3> QED BY <2>4, <3>1 DEF Like, Begin
  <2>5. CASE Judge(c, p)
    <3>1. \A op \in {"pass", "report"} : [op |-> op, pair |-> p] \in CallStates
      BY DEF CallStates
    <3> QED BY <2>5, <3>1 DEF Judge, Begin
  <2> QED BY <2>1, <2>2, <2>3, <2>4, <2>5
<1>4. ASSUME NEW d \in Calls, calls'[d].op = "ask", calls'[d].attempts = 2
      PROVE  declined'[calls'[d].pair] >= 1
  <2>1. d # c /\ calls'[d] = calls[d]
    BY <1>1, <1>3, <1>4
  <2> QED BY <1>2, <1>4, <2>1 DEF RefusalInv
<1> QED BY <1>2, <1>4 DEF RefusalInv, BlockedAfterTwoRefusals

LEMMA RefusalErase ==
    ASSUME TypeOK, RefusalInv, NEW c \in Calls,
           \/ \E u \in Users : OptOut(c, u)
           \/ \E p \in Pairs : Block(c, p)
           \/ EraseCommit(c)
    PROVE  RefusalInv'
<1>1. /\ UNCHANGED <<request, conversations, wanted, declined>>
      /\ \A d \in Calls : calls'[d] \in {calls[d], Idle} \/ calls'[d].op = "erase"
      /\ \A q \in Pairs : likes'[q] = "liked" => likes[q] = "liked"
  <2>1. CASE EraseCommit(c)
    BY <2>1 DEF EraseCommit, End, Goto, TypeOK, graph, history
  <2>2. CASE ~EraseCommit(c)
    <3>1. PICK blocking \in SUBSET Pairs, leaving \in SUBSET Users, scope \in SUBSET Pairs :
             Erase(c, blocking, leaving, scope)
      BY <2>2, EraseBegins
    <3>2. /\ UNCHANGED <<members, graph, explore, wanted, declined, removals>>
          /\ calls'[c].op = "erase" /\ \A d \in Calls : d # c => calls'[d] = calls[d]
      BY <3>1, EraseType
    <3> QED BY <3>2 DEF TypeOK, graph, explore
  <2> QED BY <2>1, <2>2
<1> QED BY <1>1 DEF RefusalInv, BlockedAfterTwoRefusals, Idle

LEMMA RefusalGoOn ==
    ASSUME TypeOK, RefusalInv, NEW c \in Calls,
           \/ RedeemFails(c) \/ RedeemCheck(c) \/ RedeemCommit(c)
           \/ AskAllowed(c) \/ AskUpsert(c) \/ RemoveCommit(c)
           \/ LikeStore(c) \/ LikeCommit(c) \/ PassCommit(c) \/ ReportCommit(c)
    PROVE  RefusalInv'
<1> DEFINE p == calls[c].pair
           Fits(q) == /\ request'[q].status = "blocked" => declined'[q] >= 2
                      /\ request'[q].status = "rejected" \/ request'[q].attempts = 2
                         => declined'[q] >= 1
<1>1. calls \in [Calls -> CallStates] /\ request \in [Pairs -> Rows] /\ declined' = declined
  BY DEF TypeOK, RedeemFails, RedeemCheck, RedeemCommit, AskAllowed, AskUpsert,
         RemoveCommit, LikeStore, LikeCommit, PassCommit, ReportCommit, history
<1>2. p \in Pairs /\ request[p].attempts \in 1 .. 2
  <2>1. p \in Pairs
    BY CallType DEF RedeemFails, RedeemCheck, RedeemCommit, AskAllowed, AskUpsert,
                    RemoveCommit, LikeStore, LikeCommit, PassCommit, ReportCommit
  <2> QED BY <1>1, <2>1 DEF Rows
<1>3. \A q \in Pairs : Fits(q)
  <2>1. CASE UNCHANGED graph
    BY <2>1, <1>1 DEF graph, RefusalInv, BlockedAfterTwoRefusals
  <2>2. CASE RedeemCommit(c)
    BY <2>2, <1>1, <1>2, RefusalBefriend DEF RedeemCommit, graph, RefusalInv,
                      BlockedAfterTwoRefusals
  <2>3. CASE LikeCommit(c)
    <3>1. UNCHANGED graph \/ Befriend(p, 1)
      BY <2>3 DEF LikeCommit
    <3> QED BY <3>1, <1>1, <1>2, RefusalBefriend DEF graph, RefusalInv,
                      BlockedAfterTwoRefusals
  <2>4. CASE AskUpsert(c)
    BY <2>4, <1>1, <1>2 DEF AskUpsert, Row, RefusalInv, BlockedAfterTwoRefusals
  <2>5. CASE RemoveCommit(c)
    BY <2>5, <1>1 DEF RemoveCommit, NoRow, RefusalInv, BlockedAfterTwoRefusals
  <2> QED BY <2>1, <2>2, <2>3, <2>4, <2>5 DEF RedeemFails, RedeemCheck, AskAllowed,
                                              LikeStore, PassCommit, ReportCommit
<1>4. \A d \in Calls :
        calls'[d].op = "ask" /\ calls'[d].attempts = 2 => declined'[calls'[d].pair] >= 1
  <2>1. CASE AskAllowed(c)
    <3>1. calls[c] \in [op : {"ask"}, pair : Pairs, attempts : 0 .. 2]
      BY <2>1 DEF AskAllowed, TypeOK, CallStates, Idle
    <3>2. \/ calls' = [calls EXCEPT ![c] = Idle]
          \/ \E n \in attemptsAllowed(request[p]) :
                calls' = [calls EXCEPT ![c] = [calls[c] EXCEPT !.attempts = n]]
      BY <2>1 DEF AskAllowed, End, Goto
    <3>3. 2 \in attemptsAllowed(request[p]) => declined[p] >= 1
      BY <1>2 DEF attemptsAllowed, RefusalInv
    <3> QED BY <1>1, <3>1, <3>2, <3>3 DEF Idle, RefusalInv
  <2>2. CASE RedeemCheck(c)
    <3>1. calls[c] \in [op : {"redeem"}, pair : Pairs, blocked : BOOLEAN, checked : BOOLEAN]
      BY <2>2 DEF RedeemCheck, TypeOK, CallStates, Idle
    <3>2. \E call : call.op = "redeem" /\ calls' = [calls EXCEPT ![c] = call]
      BY <2>2, <3>1 DEF RedeemCheck, Goto
    <3> QED BY <1>1, <3>2 DEF RefusalInv
  <2>3. CASE calls' = [calls EXCEPT ![c] = Idle]
    BY <2>3, <1>1 DEF Idle, RefusalInv
  <2>4. CASE LikeStore(c)
    <3>1. calls[c] \in [op : {"like"}, pair : Pairs, stored : BOOLEAN, answered : BOOLEAN]
      BY <2>4 DEF LikeStore, TypeOK, CallStates, Idle
    <3>2. \E call : call.op = "like" /\ calls' = [calls EXCEPT ![c] = call]
      BY <2>4, <3>1 DEF LikeStore, Goto
    <3> QED BY <1>1, <3>2 DEF RefusalInv
  <2> QED BY <2>1, <2>2, <2>3, <2>4 DEF RedeemFails, RedeemCommit, AskUpsert, RemoveCommit,
                                        LikeCommit, PassCommit, ReportCommit, End, Goto
<1> QED BY <1>3, <1>4 DEF RefusalInv, BlockedAfterTwoRefusals

(* Whoever is blocked was declined twice, however requests, approvals,     *)
(* removals, matches and invitations interleave (friends.rs, the           *)
(* two-strike rule).                                                       *)
THEOREM BlockedSendersWereDeclinedTwice == Spec => []BlockedAfterTwoRefusals
<1>1. Init => TypeOK /\ RefusalInv
  BY TypeInit, RefusalInit
<1>2. TypeOK /\ RefusalInv /\ [Next]_vars => (TypeOK /\ RefusalInv)'
  <2> SUFFICES ASSUME TypeOK, RefusalInv, [Next]_vars PROVE RefusalInv'
    BY TypeNext
  <2>1. CASE UNCHANGED vars
    BY <2>1 DEF RefusalInv, BlockedAfterTwoRefusals, vars, graph, history
  <2>2. CASE Next
    BY <2>2, RefusalUser, RefusalPair, RefusalBegin, RefusalErase, RefusalGoOn DEF Next
  <2> QED BY <2>1, <2>2
<1>3. RefusalInv => BlockedAfterTwoRefusals
  BY DEF RefusalInv
<1> QED BY <1>1, <1>2, <1>3, PTL DEF Spec

-----------------------------------------------------------------------------
(* Consent.  What a handler is about to write has been wanted by the one   *)
(* it acts for, and a pending request or a like by its author.             *)

ConsentInv ==
    /\ ConsentOnBothSides
    /\ \A p \in Pairs : request[p].status = "pending" \/ likes[p] = "liked" => p \in wanted
    /\ \A c \in Calls :
          /\ calls[c].op \in {"ask", "like"} => calls[c].pair \in wanted
          /\ calls[c].op = "redeem" => {calls[c].pair, Back(calls[c].pair)} \subseteq wanted
          /\ calls[c].op = "like" /\ calls[c].answered => Back(calls[c].pair) \in wanted

LEMMA ConsentInit == Init => ConsentInv
BY DEF Init, ConsentInv, ConsentOnBothSides, NoRow, Idle

(* Befriending a pair that both sides want keeps everything consented.     *)
LEMMA ConsentBefriend ==
    ASSUME TypeOK, ConsentInv, NEW p \in Pairs, NEW n, Befriend(p, n),
           wanted \subseteq wanted', {p, Back(p)} \subseteq wanted'
    PROVE  /\ ConsentOnBothSides'
           /\ \A q \in Pairs : request'[q].status = "pending" => q \in wanted'
<1>1. ASSUME NEW q \in Pairs, Both(q) \in conversations' \/ request'[q].status = "accepted"
      PROVE  {q, Back(q)} \subseteq wanted'
  <2>1. CASE Both(q) = Both(p)
    BY <2>1, SamePeople, BackPair
  <2>2. CASE Both(q) # Both(p)
    <3>1. Both(q) \in conversations \/ request[q].status = "accepted"
      BY <1>1, <2>2 DEF Befriend, TypeOK
    <3> QED BY <3>1 DEF ConsentInv, ConsentOnBothSides
  <2> QED BY <2>1, <2>2
<1>2. \A q \in Pairs : request'[q].status = "pending" => q \in wanted'
  BY DEF Befriend, Row, TypeOK, ConsentInv
<1> QED BY <1>1, <1>2 DEF ConsentOnBothSides

LEMMA ConsentUser ==
    ASSUME TypeOK, ConsentInv, NEW u \in Users, Join(u) \/ OptIn(u)
    PROVE  ConsentInv'
<1>1. CASE Join(u)
  BY <1>1 DEF Join, ConsentInv, ConsentOnBothSides, graph, explore, history
<1>2. CASE OptIn(u)
  BY <1>2 DEF OptIn, AtOnce, ConsentInv, ConsentOnBothSides, graph, history
<1> QED BY <1>1, <1>2

LEMMA ConsentPair ==
    ASSUME TypeOK, ConsentInv, NEW p \in Pairs,
           Approve(p) \/ Decline(p)
    PROVE  ConsentInv'
<1>1. CASE Approve(p)
  <2>1. wanted \subseteq wanted' /\ {p, Back(p)} \subseteq wanted'
    BY <1>1 DEF Approve, ConsentInv
  <2>2. /\ ConsentOnBothSides'
        /\ \A q \in Pairs : request'[q].status = "pending" => q \in wanted'
    BY <1>1, <2>1, ConsentBefriend DEF Approve
  <2> QED BY <1>1, <2>1, <2>2 DEF Approve, AtOnce, ConsentInv, explore
<1>2. CASE Decline(p)
  <2>1. \A q \in Pairs : request'[q].status \in {request[q].status, "blocked", "rejected"}
    BY <1>2 DEF Decline, TypeOK, Rows
  <2>2. ConsentOnBothSides'
    BY <1>2, <2>1 DEF Decline, ConsentInv, ConsentOnBothSides
  <2>3. \A q \in Pairs : request'[q].status = "pending" => q \in wanted
    BY <2>1 DEF ConsentInv
  <2> QED BY <1>2, <2>2, <2>3 DEF Decline, AtOnce, ConsentInv, explore
<1> QED BY <1>1, <1>2

LEMMA ConsentBegin ==
    ASSUME TypeOK, ConsentInv, NEW c \in Calls, NEW p \in Pairs,
           JoinInvited(c, p) \/ Ask(c, p) \/ Remove(c, p) \/ Like(c, p) \/ Judge(c, p)
    PROVE  ConsentInv'
<1>1. calls \in [Calls -> CallStates]
  BY DEF TypeOK
<1>2. UNCHANGED <<request, conversations, likes>> /\ wanted \subseteq wanted'
  BY DEF JoinInvited, Ask, Remove, Like, Judge, graph, explore, history
<1>3. /\ calls'[c].op \in {"ask", "like"} => calls'[c].pair \in wanted'
      /\ calls'[c].op = "redeem" => {calls'[c].pair, Back(calls'[c].pair)} \subseteq wanted'
      /\ calls'[c].op = "like" => ~calls'[c].answered
      /\ \A d \in Calls : d # c => calls'[d] = calls[d]
  <2>1. CASE JoinInvited(c, p)
    BY <1>1, <2>1 DEF JoinInvited, Begin
  <2>2. CASE Ask(c, p)
    BY <1>1, <2>2 DEF Ask, Begin
  <2>3. CASE Remove(c, p)
    BY <1>1, <2>3 DEF Remove, Begin
  <2>4. CASE Like(c, p)
    BY <1>1, <2>4 DEF Like, NewLike, Begin
  <2>5. CASE Judge(c, p)
    BY <1>1, <2>5 DEF Judge, Begin
  <2> QED BY <2>1, <2>2, <2>3, <2>4, <2>5
<1>4. ASSUME NEW d \in Calls
      PROVE  /\ calls'[d].op \in {"ask", "like"} => calls'[d].pair \in wanted'
             /\ calls'[d].op = "redeem"
                => {calls'[d].pair, Back(calls'[d].pair)} \subseteq wanted'
             /\ calls'[d].op = "like" /\ calls'[d].answered
                => Back(calls'[d].pair) \in wanted'
  <2>1. CASE d = c
    BY <1>3, <2>1
  <2>2. CASE d # c
    BY <1>2, <1>3, <2>2 DEF ConsentInv
  <2> QED BY <2>1, <2>2
<1> QED BY <1>2, <1>4 DEF ConsentInv, ConsentOnBothSides

LEMMA ConsentErase ==
    ASSUME TypeOK, ConsentInv, NEW c \in Calls,
           \/ \E u \in Users : OptOut(c, u)
           \/ \E p \in Pairs : Block(c, p)
           \/ EraseCommit(c)
    PROVE  ConsentInv'
<1>1. /\ UNCHANGED <<request, conversations, wanted, declined>>
      /\ \A d \in Calls : calls'[d] \in {calls[d], Idle} \/ calls'[d].op = "erase"
      /\ \A q \in Pairs : likes'[q] = "liked" => likes[q] = "liked"
  <2>1. CASE EraseCommit(c)
    BY <2>1 DEF EraseCommit, End, Goto, TypeOK, graph, history
  <2>2. CASE ~EraseCommit(c)
    <3>1. PICK blocking \in SUBSET Pairs, leaving \in SUBSET Users, scope \in SUBSET Pairs :
             Erase(c, blocking, leaving, scope)
      BY <2>2, EraseBegins
    <3>2. /\ UNCHANGED <<members, graph, explore, wanted, declined, removals>>
          /\ calls'[c].op = "erase" /\ \A d \in Calls : d # c => calls'[d] = calls[d]
      BY <3>1, EraseType
    <3> QED BY <3>2 DEF TypeOK, graph, explore
  <2> QED BY <2>1, <2>2
<1> QED BY <1>1 DEF ConsentInv, ConsentOnBothSides, Idle

LEMMA ConsentGoOn ==
    ASSUME TypeOK, ConsentInv, NEW c \in Calls,
           \/ RedeemFails(c) \/ RedeemCheck(c) \/ RedeemCommit(c)
           \/ AskAllowed(c) \/ AskUpsert(c) \/ RemoveCommit(c)
           \/ LikeStore(c) \/ LikeCommit(c) \/ PassCommit(c) \/ ReportCommit(c)
    PROVE  ConsentInv'
<1> DEFINE p == calls[c].pair
<1>1. wanted' = wanted
  BY DEF RedeemFails, RedeemCheck, RedeemCommit, AskAllowed, AskUpsert, RemoveCommit,
         LikeStore, LikeCommit, PassCommit, ReportCommit, history
<1>2. p \in Pairs
  BY CallType DEF RedeemFails, RedeemCheck, RedeemCommit, AskAllowed, AskUpsert,
                  RemoveCommit, LikeStore, LikeCommit, PassCommit, ReportCommit
<1>3. \A d \in Calls :
        \/ calls'[d] = Idle
        \/ calls'[d] = calls[d]
        \/ /\ calls'[d].op = calls[d].op /\ calls'[d].pair = calls[d].pair
           /\ calls[d].op = "like" /\ calls'[d].answered
              => calls[d].pair \in Pairs /\ likes[Back(calls[d].pair)] = "liked"
  <2>1. CASE AskAllowed(c)
    <3>1. calls[c] \in [op : {"ask"}, pair : Pairs, attempts : 0 .. 2]
      BY <2>1 DEF AskAllowed, TypeOK, CallStates, Idle
    <3> QED BY <2>1, <3>1 DEF AskAllowed, End, Goto, TypeOK
  <2>2. CASE RedeemCheck(c)
    <3>1. calls[c] \in [op : {"redeem"}, pair : Pairs, blocked : BOOLEAN, checked : BOOLEAN]
      BY <2>2 DEF RedeemCheck, TypeOK, CallStates, Idle
    <3> QED BY <2>2, <3>1 DEF RedeemCheck, Goto, TypeOK
  <2>3. CASE calls' = [calls EXCEPT ![c] = Idle]
    BY <2>3 DEF TypeOK
  <2>4. CASE LikeStore(c)
    <3>1. calls[c] \in [op : {"like"}, pair : Pairs, stored : BOOLEAN, answered : BOOLEAN]
      BY <2>4 DEF LikeStore, TypeOK, CallStates, Idle
    <3> QED BY <2>4, <3>1 DEF LikeStore, Goto, TypeOK
  <2> QED BY <2>1, <2>2, <2>3, <2>4 DEF RedeemFails, RedeemCommit, AskUpsert, RemoveCommit,
                                        LikeCommit, PassCommit, ReportCommit, End, Goto
<1>4. /\ ConsentOnBothSides'
      /\ \A q \in Pairs : request'[q].status = "pending" => q \in wanted'
  <2>1. CASE RedeemCommit(c)
    <3>1. {p, Back(p)} \subseteq wanted
      BY <2>1 DEF RedeemCommit, ConsentInv
    <3>2. CASE Befriend(p, request[p].attempts)
      BY <1>1, <1>2, <3>1, <3>2, ConsentBefriend
    <3>3. CASE UNCHANGED graph
      BY <1>1, <3>3 DEF graph, ConsentInv, ConsentOnBothSides
    <3> QED BY <2>1, <3>2, <3>3 DEF RedeemCommit
  <2>2. CASE LikeCommit(c)
    <3>1. CASE Befriend(p, 1) /\ makesMatch(c)
      <4>1. {p, Back(p)} \subseteq wanted
        BY <2>2, <3>1 DEF LikeCommit, makesMatch, ConsentInv
      <4> QED BY <1>1, <1>2, <3>1, <4>1, ConsentBefriend
    <3>2. CASE UNCHANGED graph
      BY <1>1, <3>2 DEF graph, ConsentInv, ConsentOnBothSides
    <3> QED BY <2>2, <3>1, <3>2 DEF LikeCommit
  <2>3. CASE AskUpsert(c)
    <3>1. p \in wanted
      BY <2>3 DEF AskUpsert, ConsentInv
    <3>2. request'[p].status = "pending" /\ \A q \in Pairs : q # p => request'[q] = request[q]
      BY <1>2, <2>3 DEF AskUpsert, Row, TypeOK
    <3> QED BY <1>1, <2>3, <3>1, <3>2 DEF AskUpsert, ConsentInv, ConsentOnBothSides
  <2>4. CASE RemoveCommit(c)
    BY <1>1, <2>4 DEF RemoveCommit, NoRow, ConsentInv, ConsentOnBothSides
  <2>5. CASE UNCHANGED graph
    BY <1>1, <2>5 DEF graph, ConsentInv, ConsentOnBothSides
  <2> QED BY <2>1, <2>2, <2>3, <2>4, <2>5 DEF RedeemFails, RedeemCheck, AskAllowed,
                                              LikeStore, PassCommit, ReportCommit
<1>5. \A q \in Pairs : likes'[q] = "liked" => q \in wanted
  <2>1. CASE LikeCommit(c)
    <3>1. p \in wanted
      BY <2>1 DEF LikeCommit, ConsentInv
    <3>2. likes' = likes \/ likes' = [likes EXCEPT ![p] = "liked"]
      BY <2>1 DEF LikeCommit
    <3> QED BY <3>1, <3>2 DEF ConsentInv, TypeOK
  <2>2. CASE PassCommit(c) \/ ReportCommit(c)
    BY <1>2, <2>2 DEF PassCommit, ReportCommit, ConsentInv, TypeOK
  <2>3. CASE UNCHANGED explore
    BY <2>3 DEF explore, ConsentInv
  <2> QED BY <2>1, <2>2, <2>3 DEF RedeemFails, RedeemCheck, RedeemCommit, AskAllowed,
                                  AskUpsert, RemoveCommit, LikeStore
<1>6. ASSUME NEW d \in Calls
      PROVE  /\ calls'[d].op \in {"ask", "like"} => calls'[d].pair \in wanted
             /\ calls'[d].op = "redeem"
                => {calls'[d].pair, Back(calls'[d].pair)} \subseteq wanted
             /\ calls'[d].op = "like" /\ calls'[d].answered
                => Back(calls'[d].pair) \in wanted
  <2>1. CASE calls'[d] \in {Idle, calls[d]}
    BY <2>1 DEF ConsentInv, Idle
  <2>2. CASE calls'[d] \notin {Idle, calls[d]}
    BY <1>3, <2>2, BackPair DEF ConsentInv
  <2> QED BY <2>1, <2>2
<1> QED BY <1>1, <1>4, <1>5, <1>6 DEF ConsentInv

(* Friends and conversations are wanted on both sides, however requests,   *)
(* answers, likes, invitations and removals interleave (friends.rs,        *)
(* users.rs redeem_invite, explore.rs like_card).                          *)
THEOREM FriendshipIsWanted == Spec => []ConsentOnBothSides
<1>1. Init => TypeOK /\ ConsentInv
  BY TypeInit, ConsentInit
<1>2. TypeOK /\ ConsentInv /\ [Next]_vars => (TypeOK /\ ConsentInv)'
  <2> SUFFICES ASSUME TypeOK, ConsentInv, [Next]_vars PROVE ConsentInv'
    BY TypeNext
  <2>1. CASE UNCHANGED vars
    BY <2>1 DEF ConsentInv, ConsentOnBothSides, vars, graph, explore, history
  <2>2. CASE Next
    BY <2>2, ConsentUser, ConsentPair, ConsentBegin, ConsentErase, ConsentGoOn DEF Next
  <2> QED BY <2>1, <2>2
<1>3. ConsentInv => ConsentOnBothSides
  BY DEF ConsentInv
<1> QED BY <1>1, <1>2, <1>3, PTL DEF Spec

-----------------------------------------------------------------------------
(* Matches.  The lock keeps likes between the same two people apart, so    *)
(* that a like that found no answer finds none until it is committed.      *)

LikesApart ==
    \A c, d \in Calls :
        c # d /\ calls[c].op = "like" /\ calls[d].op = "like"
        => Both(calls[c].pair) # Both(calls[d].pair)

MatchInv ==
    /\ MutualLikesMatch
    /\ LikesApart
    /\ \A c \in Calls :
          calls[c].op = "like" /\ calls[c].stored /\ ~calls[c].answered
          => likes[Back(calls[c].pair)] # "liked"

LEMMA MatchInit == Init => MatchInv
BY BackPair DEF Init, MatchInv, MutualLikesMatch, LikesApart, Idle

(* The handlers, one by one, when one of them moves.                       *)
LEMMA OneMoves ==
    ASSUME TypeOK, NEW c \in Calls, NEW call, Begin(c, call) \/ Goto(c, call)
    PROVE  calls'[c] = call /\ \A d \in Calls : d # c => calls'[d] = calls[d]
BY DEF TypeOK, Begin, Goto

(* What a running like becomes: it goes on or ends.                        *)
LEMMA LikesGoOn ==
    ASSUME TypeOK, [Next]_vars
    PROVE  \A d \in Calls : calls'[d].op = "like" =>
              \/ calls'[d] = calls[d]
              \/ /\ LikeStore(d)
                 /\ calls[d].op = "like" /\ ~calls[d].stored
                 /\ calls'[d].pair = calls[d].pair /\ calls'[d].stored
                 /\ calls'[d].answered <=> likes[Back(calls[d].pair)] = "liked"
              \/ \E p \in Pairs : /\ Like(d, p) /\ calls[d] = Idle /\ calls'[d].pair = p
                                  /\ ~calls'[d].stored /\ ~calls'[d].answered
<1> DEFINE Fine(d) ==
              \/ calls'[d] = calls[d]
              \/ /\ LikeStore(d)
                 /\ calls[d].op = "like" /\ ~calls[d].stored
                 /\ calls'[d].pair = calls[d].pair /\ calls'[d].stored
                 /\ calls'[d].answered <=> likes[Back(calls[d].pair)] = "liked"
              \/ \E p \in Pairs : /\ Like(d, p) /\ calls[d] = Idle /\ calls'[d].pair = p
                                  /\ ~calls'[d].stored /\ ~calls'[d].answered
<1> SUFFICES ASSUME NEW d \in Calls, calls'[d].op = "like" PROVE Fine(d)
  OBVIOUS
<1>1. CASE UNCHANGED vars
  BY <1>1 DEF vars
<1>2. ASSUME NEW u \in Users, Join(u) \/ OptIn(u)
      PROVE  Fine(d)
  BY <1>2 DEF Join, OptIn, AtOnce
<1>3. ASSUME NEW p \in Pairs, Approve(p) \/ Decline(p)
      PROVE  Fine(d)
  BY <1>3 DEF Approve, Decline, AtOnce
<1>4. ASSUME NEW c \in Calls, NEW call, Begin(c, call) \/ Goto(c, call), call.op # "like"
      PROVE  Fine(d)
  BY <1>4, OneMoves
<1>5. ASSUME NEW c \in Calls, NEW p \in Pairs,
             JoinInvited(c, p) \/ Ask(c, p) \/ Remove(c, p) \/ Like(c, p) \/ Judge(c, p)
      PROVE  Fine(d)
  <2>1. CASE JoinInvited(c, p)
    BY <2>1, <1>4 DEF JoinInvited
  <2>2. CASE Ask(c, p)
    BY <2>2, <1>4 DEF Ask
  <2>3. CASE Remove(c, p)
    <3> DEFINE rows == {q \in {p, Back(p)} : request[q].status = "accepted"}
    <3>1. Begin(c, [op |-> "remove", pair |-> p, rows |-> rows])
      BY <2>3 DEF Remove
    <3> HIDE DEF rows
    <3> QED BY <3>1, <1>4
  <2>4. CASE Like(c, p)
    <3>1. calls[c] = Idle /\ calls'[c] = NewLike(p) /\ \A e \in Calls : e # c => calls'[e] = calls[e]
      BY <2>4, OneMoves DEF Like, Begin
    <3>2. NewLike(p).pair = p /\ ~NewLike(p).stored /\ ~NewLike(p).answered
      BY DEF NewLike
    <3> QED BY <2>4, <3>1, <3>2
  <2>5. CASE Judge(c, p)
    BY <2>5, <1>4 DEF Judge
  <2> QED BY <1>5, <2>1, <2>2, <2>3, <2>4, <2>5
<1>6. ASSUME NEW c \in Calls,
             (\E u \in Users : OptOut(c, u)) \/ (\E p \in Pairs : Block(c, p))
      PROVE  Fine(d)
  <2>1. PICK blocking \in SUBSET Pairs, leaving \in SUBSET Users, scope \in SUBSET Pairs :
           Erase(c, blocking, leaving, scope)
    BY <1>6, EraseBegins
  <2>2. calls'[c].op = "erase" /\ \A e \in Calls : e # c => calls'[e] = calls[e]
    BY <2>1, EraseType
  <2> QED BY <2>2
<1>7. ASSUME NEW c \in Calls,
             \/ RedeemFails(c) \/ RedeemCheck(c) \/ RedeemCommit(c)
             \/ AskAllowed(c) \/ AskUpsert(c) \/ RemoveCommit(c)
             \/ LikeStore(c) \/ LikeCommit(c) \/ PassCommit(c) \/ ReportCommit(c)
             \/ EraseCommit(c)
      PROVE  Fine(d)
  <2>1. CASE End(c)
    BY <2>1, <1>4 DEF End, Idle
  <2>2. CASE RedeemCheck(c)
    <3>1. calls[c] \in [op : {"redeem"}, pair : Pairs, blocked : BOOLEAN, checked : BOOLEAN]
      BY <2>2 DEF RedeemCheck, TypeOK, CallStates, Idle
    <3>2. \E call : call.op = "redeem" /\ Goto(c, call)
      BY <2>2, <3>1 DEF RedeemCheck
    <3> QED BY <3>2, <1>4
  <2>3. CASE AskAllowed(c)
    <3>1. calls[c] \in [op : {"ask"}, pair : Pairs, attempts : 0 .. 2]
      BY <2>3 DEF AskAllowed, TypeOK, CallStates, Idle
    <3>2. End(c) \/ \E call : call.op = "ask" /\ Goto(c, call)
      BY <2>3, <3>1 DEF AskAllowed
    <3> QED BY <2>1, <3>2, <1>4
  <2>4. CASE LikeStore(c)
    <3> DEFINE b == likes[Back(calls[c].pair)] = "liked"
               call == [calls[c] EXCEPT !.stored = TRUE, !.answered = b]
    <3>1. calls[c] \in [op : {"like"}, pair : Pairs, stored : BOOLEAN, answered : BOOLEAN]
      BY <2>4 DEF LikeStore, TypeOK, CallStates, Idle
    <3>2. b \in BOOLEAN
      OBVIOUS
    <3>3. Goto(c, call)
      BY <2>4 DEF LikeStore
    <3>4. call.pair = calls[c].pair /\ call.stored /\ call.answered = b
      <4> HIDE DEF b
      <4> QED BY <3>1, <3>2
    <3>5. calls'[c] = call /\ \A e \in Calls : e # c => calls'[e] = calls[e]
      <4> HIDE DEF call
      <4> QED BY <3>3, OneMoves
    <3> HIDE DEF call
    <3> QED BY <2>4, <3>4, <3>5 DEF LikeStore
  <2> QED BY <1>7, <2>1, <2>2, <2>3, <2>4
        DEF RedeemFails, RedeemCommit, AskUpsert, RemoveCommit, LikeCommit, PassCommit,
            ReportCommit, EraseCommit
<1> QED BY <1>1, <1>2, <1>3, <1>5, <1>6, <1>7 DEF Next

(* Only the commit of a like makes one stand.                              *)
LEMMA OnlyLikesAreLiked ==
    ASSUME TypeOK, [Next]_vars, NEW q \in Pairs, likes'[q] = "liked"
    PROVE  \/ likes[q] = "liked"
           \/ \E c \in Calls : LikeCommit(c) /\ calls[c].pair = q
<1> DEFINE Fine == \/ likes[q] = "liked"
                   \/ \E c \in Calls : LikeCommit(c) /\ calls[c].pair = q
<1>1. CASE UNCHANGED likes
  BY <1>1
<1>2. ASSUME NEW c \in Calls, LikeCommit(c)
      PROVE  Fine
  <2>1. likes' = likes \/ likes' = [likes EXCEPT ![calls[c].pair] = "liked"]
    BY <1>2 DEF LikeCommit
  <2> QED BY <1>2, <2>1 DEF TypeOK
<1>3. ASSUME NEW c \in Calls, PassCommit(c) \/ ReportCommit(c) \/ EraseCommit(c)
      PROVE  Fine
  BY <1>3 DEF PassCommit, ReportCommit, EraseCommit, TypeOK
<1> QED
  BY <1>1, <1>2, <1>3 DEF Next, vars, Join, OptIn, Approve, Decline, JoinInvited, Ask, Remove,
      Like, Judge, OptOut, Block, Erase, RedeemFails, RedeemCheck, RedeemCommit, AskAllowed,
      AskUpsert, RemoveCommit, LikeStore, explore

LEMMA MatchesStay ==
    ASSUME [Next]_vars
    PROVE  matches \subseteq matches'
BY DEF Next, vars, Join, OptIn, Approve, Decline, JoinInvited, Ask, Remove,
    Like, Judge, OptOut, Block, Erase, RedeemFails, RedeemCheck, RedeemCommit, AskAllowed,
    AskUpsert, RemoveCommit, LikeStore, LikeCommit, PassCommit, ReportCommit, EraseCommit, explore

LEMMA MatchNext == TypeOK /\ MatchInv /\ [Next]_vars => MatchInv'
<1> SUFFICES ASSUME TypeOK, MatchInv, [Next]_vars PROVE MatchInv'
  OBVIOUS
<1>1. LikesApart'
  <2> SUFFICES ASSUME NEW c \in Calls, NEW d \in Calls, c # d,
                      calls'[c].op = "like", calls'[d].op = "like",
                      Both(calls'[c].pair) = Both(calls'[d].pair)
               PROVE  FALSE
    BY DEF LikesApart
  <2>1. ASSUME NEW e \in Calls, NEW f \in Calls, e # f, NEW p \in Pairs, Like(e, p),
               calls[f].op = "like"
        PROVE  Both(calls[f].pair) # Both(p)
    <3>1. calls[f].pair # p /\ calls[f].pair # Back(p)
      BY <2>1 DEF Like, PairLocked, Doing
    <3> QED BY <3>1, <2>1, CallType, SamePeople
  <2>2. ASSUME NEW e \in Calls, calls'[e].op = "like"
        PROVE  \/ calls[e].op = "like" /\ calls'[e].pair = calls[e].pair
               \/ \E p \in Pairs : Like(e, p) /\ calls'[e].pair = p /\ calls[e] = Idle
    BY <2>2, LikesGoOn
  <2>3. ASSUME NEW e \in Calls, NEW f \in Calls, e # f, NEW p \in Pairs, Like(e, p)
        PROVE  calls'[f] = calls[f]
    BY <2>3, OneMoves DEF Like
  <2>4. CASE calls[c].op = "like" /\ calls[d].op = "like"
    BY <2>2, <2>4 DEF MatchInv, LikesApart, Idle
  <2>5. CASE \E p \in Pairs : Like(c, p) /\ calls'[c].pair = p
    BY <2>1, <2>3, <2>5
  <2>6. CASE \E p \in Pairs : Like(d, p) /\ calls'[d].pair = p
    BY <2>1, <2>3, <2>6
  <2> QED BY <2>2, <2>4, <2>5, <2>6
<1>2. ASSUME NEW c \in Calls, calls'[c].op = "like", calls'[c].stored, ~calls'[c].answered
      PROVE  likes'[Back(calls'[c].pair)] # "liked"
  <2>1. /\ calls[c].op = "like" /\ calls'[c].pair = calls[c].pair
        /\ likes[Back(calls[c].pair)] # "liked"
    BY <1>2, LikesGoOn DEF MatchInv
  <2>2. calls[c].pair \in Pairs /\ Back(calls[c].pair) \in Pairs
    BY <2>1, CallType, BackPair
  <2>3. ASSUME NEW d \in Calls, LikeCommit(d), calls[d].pair = Back(calls[c].pair)
        PROVE  FALSE
    <3>1. Both(calls[d].pair) = Both(calls[c].pair)
      BY <2>2, <2>3, BackPair
    <3>2. d = c
      BY <2>1, <2>3, <3>1 DEF LikeCommit, MatchInv, LikesApart
    <3>3. calls'[c] = Idle
      BY <2>3, <3>2 DEF LikeCommit, End, Goto, TypeOK
    <3> QED BY <1>2, <3>3 DEF Idle
  <2> QED BY <2>1, <2>2, <2>3, OnlyLikesAreLiked
<1>3. MutualLikesMatch'
  <2> SUFFICES ASSUME NEW p \in Pairs, likes'[p] = "liked", likes'[Back(p)] = "liked"
               PROVE  Both(p) \in matches'
    BY DEF MutualLikesMatch
  <2>1. Back(p) \in Pairs /\ Back(Back(p)) = p /\ Both(Back(p)) = Both(p)
    BY BackPair
  <2>2. CASE likes[p] = "liked" /\ likes[Back(p)] = "liked"
    BY <2>2, MatchesStay DEF MatchInv, MutualLikesMatch
  <2>3. ASSUME NEW q \in Pairs, q = p \/ q = Back(p), NEW c \in Calls, LikeCommit(c),
               calls[c].pair = q
        PROVE  Both(p) \in matches'
    <3>1. Both(q) = Both(p) /\ Back(q) \in {p, Back(p)} /\ Back(q) \in Pairs /\ Back(q) # q
      BY <2>1, <2>3 DEF Pairs, Back
    <3>2. likes' \in {likes, [likes EXCEPT ![q] = "liked"]}
      BY <2>3 DEF LikeCommit
    <3>3. likes[Back(q)] = "liked"
      BY <3>1, <3>2 DEF TypeOK
    <3>4. calls[c].answered
      BY <2>3, <3>3 DEF MatchInv, LikeCommit
    <3>5. CASE Both(q) \in matches
      BY <3>1, <3>5, MatchesStay
    <3>6. CASE makesMatch(c) /\ Exists(q)
      <4>1. likes' = likes
        BY <2>3, <3>6 DEF LikeCommit
      <4>2. likes[p] = "liked" /\ likes[Back(p)] = "liked"
        BY <4>1
      <4> QED BY <2>2, <4>2
    <3>7. CASE makesMatch(c) /\ ~Exists(q)
      BY <2>3, <3>1, <3>7 DEF LikeCommit
    <3> QED BY <2>3, <3>4, <3>5, <3>6, <3>7 DEF makesMatch
  <2> QED BY <2>1, <2>2, <2>3, OnlyLikesAreLiked
<1> QED BY <1>1, <1>2, <1>3 DEF MatchInv

(* Of two likes that both stand a match was made, whoever came first and   *)
(* whatever else was done in Explore meanwhile (explore.rs like_card).     *)
THEOREM MutualLikesAreMatched == Spec => []MutualLikesMatch
<1>1. Init => TypeOK /\ MatchInv
  BY TypeInit, MatchInit
<1>2. TypeOK /\ MatchInv /\ [Next]_vars => (TypeOK /\ MatchInv)'
  BY TypeNext, MatchNext
<1>3. MatchInv => MutualLikesMatch
  BY DEF MatchInv
<1> QED BY <1>1, <1>2, <1>3, PTL DEF Spec

-----------------------------------------------------------------------------
(* Welcome matches.  A like that runs or stands is between people who are  *)
(* both in Explore and have not blocked each other, unless an erasure ran  *)
(* beside it: one that was not there to be deleted was running.            *)

Welcome(p) == ~BlockedPair(p) /\ Both(p) \subseteq visible

WelcomeInv ==
    /\ \A p \in Pairs :
          Doing("like", p) \/ likes[p] = "liked" => Welcome(p) \/ p \in crossed
    /\ \A c \in Calls : calls[c].op = "erase" =>
          \A q \in Pairs :
             /\ q \in calls[c].scope =>
                   /\ Doing("like", q) => q \in crossed
                   /\ likes[q] = "liked" => q \in calls[c].rows \/ q \in crossed
             /\ {q, Back(q)} \cap calls[c].blocks # {} \/ Both(q) \cap calls[c].leavers # {}
                => q \in calls[c].scope
    /\ \A c \in Calls :
          calls[c].op = "like" /\ ~calls[c].stored => ~calls[c].answered

LEMMA WelcomeInit == Init => WelcomeInv
BY DEF Init, WelcomeInv, Doing, Idle

(* A step that begins no like and no erasure and commits no erasure keeps  *)
(* the invariant.                                                          *)
LEMMA WelcomeKept ==
    ASSUME TypeOK, WelcomeInv,
           \A d \in Calls :
              /\ calls'[d].op = "like" =>
                    /\ calls[d].op = "like" /\ calls'[d].pair = calls[d].pair
                    /\ ~calls'[d].stored =>
                          ~calls[d].stored /\ calls'[d].answered = calls[d].answered
              /\ calls'[d].op = "erase" => calls'[d] = calls[d],
           \A q \in Pairs : likes'[q] = "liked" => likes[q] = "liked" \/ Doing("like", q),
           crossed' = crossed, blocks' = blocks, visible \subseteq visible'
    PROVE  WelcomeInv'
<1>1. \A q \in Pairs : Doing("like", q)' => Doing("like", q)
  BY DEF Doing
<1>2. \A q \in Pairs : Welcome(q) => Welcome(q)'
  BY DEF Welcome, BlockedPair
<1>3. \A q \in Pairs : (Doing("like", q) \/ likes[q] = "liked")' => (Welcome(q) \/ q \in crossed)'
  BY <1>1, <1>2 DEF WelcomeInv
<1>4. ASSUME NEW c \in Calls, calls'[c].op = "erase", NEW q \in Pairs
      PROVE  /\ q \in calls'[c].scope =>
                   /\ Doing("like", q)' => q \in crossed'
                   /\ likes'[q] = "liked" => q \in calls'[c].rows \/ q \in crossed'
             /\ {q, Back(q)} \cap calls'[c].blocks # {} \/ Both(q) \cap calls'[c].leavers # {}
                => q \in calls'[c].scope
  BY <1>1, <1>4 DEF WelcomeInv
<1>5. \A c \in Calls : calls'[c].op = "like" /\ ~calls'[c].stored => ~calls'[c].answered
  BY DEF WelcomeInv
<1> QED BY <1>3, <1>4, <1>5 DEF WelcomeInv

LEMMA WelcomeLike ==
    ASSUME TypeOK, WelcomeInv, NEW c \in Calls, NEW p \in Pairs, Like(c, p)
    PROVE  WelcomeInv'
<1>1. /\ calls'[c] = NewLike(p) /\ calls[c] = Idle
      /\ \A d \in Calls : d # c => calls'[d] = calls[d]
  BY OneMoves DEF Like, Begin
<1>2. UNCHANGED <<likes, blocks, visible>> /\ Welcome(p) /\ Cross(p)
  BY DEF Like, explore, Eligible, Welcome
<1>3. \A q \in Pairs : Doing("like", q)' => q = p \/ Doing("like", q)
  BY <1>1 DEF Doing, NewLike
<1>4. \A q \in Pairs : q # p => (q \in crossed' <=> q \in crossed)
  BY <1>2 DEF Cross
<1>5. \A q \in Pairs : Welcome(q)' <=> Welcome(q)
  BY <1>2 DEF Welcome, BlockedPair
<1>6. \A q \in Pairs : (Doing("like", q) \/ likes[q] = "liked")' => (Welcome(q) \/ q \in crossed)'
  BY <1>2, <1>3, <1>4, <1>5 DEF WelcomeInv
<1>7. ASSUME NEW d \in Calls, calls'[d].op = "erase", NEW q \in Pairs
      PROVE  /\ q \in calls'[d].scope =>
                   /\ Doing("like", q)' => q \in crossed'
                   /\ likes'[q] = "liked" => q \in calls'[d].rows \/ q \in crossed'
             /\ {q, Back(q)} \cap calls'[d].blocks # {} \/ Both(q) \cap calls'[d].leavers # {}
                => q \in calls'[d].scope
  <2>1. calls'[d] = calls[d]
    BY <1>1, <1>7 DEF NewLike
  <2>2. CASE q = p
    BY <1>2, <1>7, <2>1, <2>2 DEF Cross, WelcomeInv
  <2>3. CASE q # p
    BY <1>2, <1>3, <1>4, <1>7, <2>1, <2>3 DEF WelcomeInv
  <2> QED BY <2>2, <2>3
<1>8. \A d \in Calls : calls'[d].op = "like" /\ ~calls'[d].stored => ~calls'[d].answered
  BY <1>1 DEF WelcomeInv, NewLike
<1> QED BY <1>6, <1>7, <1>8 DEF WelcomeInv

LEMMA WelcomeErase ==
    ASSUME TypeOK, WelcomeInv, NEW c \in Calls,
           (\E u \in Users : OptOut(c, u)) \/ (\E p \in Pairs : Block(c, p))
    PROVE  WelcomeInv'
<1>1. PICK blocking \in SUBSET Pairs, leaving \in SUBSET Users, scope \in SUBSET Pairs :
         /\ Erase(c, blocking, leaving, scope)
         /\ \A q \in Pairs :
               {q, Back(q)} \cap blocking # {} \/ Both(q) \cap leaving # {} => q \in scope
  BY EraseBegins
<1>2. /\ calls[c] = Idle /\ UNCHANGED explore /\ crossed \subseteq crossed'
      /\ \A q \in scope : Doing("like", q) => q \in crossed'
  BY <1>1, EraseType
<1>3. /\ calls'[c].op = "erase" /\ calls'[c].scope = scope
      /\ calls'[c].blocks = blocking /\ calls'[c].leavers = leaving
      /\ \A q \in scope : likes[q] # "none" => q \in calls'[c].rows
  <2>1. Erase(c, blocking, leaving, scope)
    BY <1>1
  <2> QED BY <2>1, EraseType, TypeOK, blocking \in SUBSET Pairs,
              leaving \in SUBSET Users, scope \in SUBSET Pairs, c \in Calls
<1>4. \A d \in Calls : d # c => calls'[d] = calls[d]
  BY <1>1, EraseType
<1>5. UNCHANGED <<likes, blocks, visible>>
  BY <1>2 DEF explore
<1>6. \A q \in Pairs : Doing("like", q)' => Doing("like", q)
  BY <1>3, <1>4 DEF Doing
<1>7. \A q \in Pairs : Welcome(q)' <=> Welcome(q)
  BY <1>5 DEF Welcome, BlockedPair
<1>8. \A q \in Pairs : (Doing("like", q) \/ likes[q] = "liked")' => (Welcome(q) \/ q \in crossed)'
  BY <1>2, <1>5, <1>6, <1>7 DEF WelcomeInv
<1>9. ASSUME NEW d \in Calls, calls'[d].op = "erase", NEW q \in Pairs
      PROVE  /\ q \in calls'[d].scope =>
                   /\ Doing("like", q)' => q \in crossed'
                   /\ likes'[q] = "liked" => q \in calls'[d].rows \/ q \in crossed'
             /\ {q, Back(q)} \cap calls'[d].blocks # {} \/ Both(q) \cap calls'[d].leavers # {}
                => q \in calls'[d].scope
  <2>1. CASE d = c
    BY <1>1, <1>2, <1>3, <1>5, <1>6, <2>1
  <2>2. CASE d # c
    BY <1>2, <1>4, <1>5, <1>6, <1>9, <2>2 DEF WelcomeInv
  <2> QED BY <2>1, <2>2
<1>10. \A d \in Calls : calls'[d].op = "like" /\ ~calls'[d].stored => ~calls'[d].answered
  BY <1>3, <1>4 DEF WelcomeInv
<1> QED BY <1>8, <1>9, <1>10 DEF WelcomeInv

LEMMA WelcomeEraseCommit ==
    ASSUME TypeOK, WelcomeInv, NEW c \in Calls, EraseCommit(c)
    PROVE  WelcomeInv'
<1>1. calls'[c] = Idle /\ \A d \in Calls : d # c => calls'[d] = calls[d]
  BY OneMoves DEF EraseCommit, End
<1>2. /\ blocks' = blocks \cup calls[c].blocks /\ visible' = visible \ calls[c].leavers
      /\ crossed' = crossed /\ calls[c].op = "erase"
      /\ \A q \in Pairs : likes'[q] = "liked" => likes[q] = "liked" /\ q \notin calls[c].rows
  BY DEF EraseCommit, history
<1>3. \A q \in Pairs : Doing("like", q)' => Doing("like", q)
  BY <1>1 DEF Doing, Idle
<1>4. ASSUME NEW q \in Pairs, Doing("like", q)' \/ likes'[q] = "liked"
      PROVE  Welcome(q)' \/ q \in crossed'
  <2>1. CASE q \in calls[c].scope
    BY <1>2, <1>3, <1>4, <2>1 DEF WelcomeInv
  <2>2. CASE q \notin calls[c].scope
    <3>1. {q, Back(q)} \cap calls[c].blocks = {} /\ Both(q) \cap calls[c].leavers = {}
      BY <1>2, <2>2 DEF WelcomeInv
    <3>2. Welcome(q) => Welcome(q)'
      BY <1>2, <3>1 DEF Welcome, BlockedPair
    <3> QED BY <1>2, <1>3, <1>4, <3>2 DEF WelcomeInv
  <2> QED BY <2>1, <2>2
<1>5. ASSUME NEW d \in Calls, calls'[d].op = "erase", NEW q \in Pairs
      PROVE  /\ q \in calls'[d].scope =>
                   /\ Doing("like", q)' => q \in crossed'
                   /\ likes'[q] = "liked" => q \in calls'[d].rows \/ q \in crossed'
             /\ {q, Back(q)} \cap calls'[d].blocks # {} \/ Both(q) \cap calls'[d].leavers # {}
                => q \in calls'[d].scope
  <2>1. calls'[d] = calls[d]
    BY <1>1, <1>5 DEF Idle
  <2> QED BY <1>2, <1>3, <1>5, <2>1 DEF WelcomeInv
<1>6. \A d \in Calls : calls'[d].op = "like" /\ ~calls'[d].stored => ~calls'[d].answered
  BY <1>1 DEF WelcomeInv, Idle
<1> QED BY <1>4, <1>5, <1>6 DEF WelcomeInv

(* Of the rest, only registering, approving, declining and removing speak  *)
(* of anything else than the handlers and the likes.                       *)
LEMMA WelcomeRest ==
    ASSUME TypeOK, WelcomeInv, Next,
           \A c \in Calls, p \in Pairs : ~Like(c, p) /\ ~Block(c, p),
           \A c \in Calls, u \in Users : ~OptOut(c, u),
           \A c \in Calls : ~EraseCommit(c)
    PROVE  WelcomeInv'
<1>1. crossed' = crossed /\ blocks' = blocks /\ visible \subseteq visible'
  BY DEF Next, Join, OptIn, Approve, Decline, JoinInvited, Ask, Remove, Judge, RedeemFails,
      RedeemCheck, RedeemCommit, AskAllowed, AskUpsert, RemoveCommit, LikeStore, LikeCommit,
      PassCommit, ReportCommit, explore, history
<1>2. \A q \in Pairs : likes'[q] = "liked" => likes[q] = "liked" \/ Doing("like", q)
  BY OnlyLikesAreLiked DEF LikeCommit, Doing
<1>3. ASSUME NEW d \in Calls, calls'[d].op = "like"
      PROVE  /\ calls[d].op = "like" /\ calls'[d].pair = calls[d].pair
             /\ ~calls'[d].stored => ~calls[d].stored /\ calls'[d].answered = calls[d].answered
  BY <1>3, LikesGoOn
<1>4. ASSUME NEW d \in Calls, calls'[d].op = "erase"
      PROVE  calls'[d] = calls[d]
  <2>1. CASE calls' = calls
    BY <2>1
  <2>2. ASSUME NEW c \in Calls, NEW call, Begin(c, call) \/ Goto(c, call), call.op # "erase"
        PROVE  calls'[d] = calls[d]
    BY <1>4, <2>2, OneMoves
  <2>3. ASSUME NEW c \in Calls, NEW p \in Pairs,
               JoinInvited(c, p) \/ Ask(c, p) \/ Remove(c, p) \/ Judge(c, p)
        PROVE  calls'[d] = calls[d]
    <3>1. CASE JoinInvited(c, p)
      BY <3>1, <2>2 DEF JoinInvited
    <3>2. CASE Ask(c, p)
      BY <3>2, <2>2 DEF Ask
    <3>3. CASE Remove(c, p)
      <4> DEFINE rows == {q \in {p, Back(p)} : request[q].status = "accepted"}
      <4>1. Begin(c, [op |-> "remove", pair |-> p, rows |-> rows])
        BY <3>3 DEF Remove
      <4> HIDE DEF rows
      <4> QED BY <4>1, <2>2
    <3>4. CASE Judge(c, p)
      BY <3>4, <2>2 DEF Judge
    <3> QED BY <2>3, <3>1, <3>2, <3>3, <3>4
  <2>4. ASSUME NEW c \in Calls, RedeemCheck(c) \/ AskAllowed(c) \/ LikeStore(c)
        PROVE  calls'[d] = calls[d]
    <3>1. CASE RedeemCheck(c)
      <4>1. calls[c] \in [op : {"redeem"}, pair : Pairs, blocked : BOOLEAN, checked : BOOLEAN]
        BY <3>1 DEF RedeemCheck, TypeOK, CallStates, Idle
      <4>2. \E call : call.op = "redeem" /\ Goto(c, call)
        BY <3>1, <4>1 DEF RedeemCheck
      <4> QED BY <4>2, <2>2
    <3>2. CASE AskAllowed(c)
      <4>1. calls[c] \in [op : {"ask"}, pair : Pairs, attempts : 0 .. 2]
        BY <3>2 DEF AskAllowed, TypeOK, CallStates, Idle
      <4>2. \E call : call.op # "erase" /\ Goto(c, call)
        BY <3>2, <4>1 DEF AskAllowed, End, Idle
      <4> QED BY <4>2, <2>2
    <3>3. CASE LikeStore(c)
      <4>1. calls[c] \in [op : {"like"}, pair : Pairs, stored : BOOLEAN, answered : BOOLEAN]
        BY <3>3 DEF LikeStore, TypeOK, CallStates, Idle
      <4>2. \E call : call.op = "like" /\ Goto(c, call)
        BY <3>3, <4>1 DEF LikeStore
      <4> QED BY <4>2, <2>2
    <3> QED BY <2>4, <3>1, <3>2, <3>3
  <2>5. ASSUME NEW c \in Calls, End(c)
        PROVE  calls'[d] = calls[d]
    BY <2>5, <2>2 DEF End, Idle
  <2> QED
    BY <2>1, <2>3, <2>4, <2>5 DEF Next, Join, OptIn, Approve, Decline, AtOnce, RedeemFails,
        RedeemCommit, AskUpsert, RemoveCommit, LikeCommit, PassCommit, ReportCommit
<1> QED BY <1>1, <1>2, <1>3, <1>4, WelcomeKept

LEMMA WelcomeNext == TypeOK /\ WelcomeInv /\ [Next]_vars => WelcomeInv'
<1> SUFFICES ASSUME TypeOK, WelcomeInv, [Next]_vars PROVE WelcomeInv'
  OBVIOUS
<1>1. CASE UNCHANGED vars
  BY <1>1 DEF WelcomeInv, Welcome, BlockedPair, Doing, vars, explore, history
<1>2. CASE Next
  BY <1>2, WelcomeLike, WelcomeErase, WelcomeEraseCommit, WelcomeRest
<1> QED BY <1>1, <1>2

(* A like finds an answer only among people who have neither blocked each  *)
(* other nor left Explore, but for an answer that ran while likes were     *)
(* erased (explore.rs like_card, block_card, put_profile).                 *)
THEOREM MatchesAreWelcome == Spec => MatchIsWelcome
<1> DEFINE Fine ==
      \A c \in Calls :
         LET p == calls[c].pair
         IN  calls[c].op = "like" /\ ~calls[c].stored /\ calls'[c].op = "like" /\ calls'[c].answered =>
                \/ ~BlockedPair(p) /\ Both(p) \subseteq visible
                \/ Back(p) \in crossed
<1>1. Init => TypeOK /\ WelcomeInv
  BY TypeInit, WelcomeInit
<1>2. TypeOK /\ WelcomeInv /\ [Next]_vars => (TypeOK /\ WelcomeInv)'
  BY TypeNext, WelcomeNext
<1>3. TypeOK /\ WelcomeInv /\ [Next]_vars => [Fine]_vars
  <2> SUFFICES ASSUME TypeOK, WelcomeInv, Next, NEW c \in Calls,
                      calls[c].op = "like", ~calls[c].stored,
                      calls'[c].op = "like", calls'[c].answered
               PROVE  \/ ~BlockedPair(calls[c].pair) /\ Both(calls[c].pair) \subseteq visible
                      \/ Back(calls[c].pair) \in crossed
    OBVIOUS
  <2>1. likes[Back(calls[c].pair)] = "liked"
    BY LikesGoOn DEF WelcomeInv, Idle
  <2>2. Back(calls[c].pair) \in Pairs /\ Back(Back(calls[c].pair)) = calls[c].pair
        /\ Both(Back(calls[c].pair)) = Both(calls[c].pair)
    BY CallType, BackPair
  <2>3. Welcome(Back(calls[c].pair)) \/ Back(calls[c].pair) \in crossed
    BY <2>1, <2>2 DEF WelcomeInv
  <2> QED BY <2>2, <2>3 DEF Welcome, BlockedPair
<1> QED BY <1>1, <1>2, <1>3, PTL DEF Spec, MatchIsWelcome
=============================================================================
