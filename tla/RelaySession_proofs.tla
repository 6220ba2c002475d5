------------------------- MODULE RelaySession_proofs -------------------------
(***************************************************************************)
(* Proofs about RelaySession, for any number of requests, expiries and     *)
(* unlocks.  A step puts requests into new stages; what matters of them is *)
(* which wait for a refresh, and that no step takes a place that is in use.*)
(***************************************************************************)
EXTENDS RelaySession, FiniteSetTheorems, WellFoundedInduction, TLAPS

Asks ==
    [stage : Stages, purpose : {"none", "plain", "socket"}, stale : BOOLEAN, retried : BOOLEAN,
     second : BOOLEAN]

Loops == [running : BOOLEAN, timer : BOOLEAN, trying : Nat]

Types ==
    /\ unlocked \in BOOLEAN
    /\ token \in {"none", "good", "expired"}
    /\ request \in [Requests -> Asks]
    /\ loop \in Loops
    /\ late \in Nat /\ entering \in Nat /\ sockets \in Nat
    /\ socketRef \in BOOLEAN /\ refreshing \in BOOLEAN

(* Of a state of the requests: who waits for the refresh.                  *)
WaitingIn(requests) == {r \in Requests : requests[r].stage = "refresh"}

Inv ==
    /\ Types
    /\ Waiting # {} <=> refreshing
    /\ socketRef => sockets > 0
    /\ TimerOnlyWhileRunning

-----------------------------------------------------------------------------
(* Requests *)

LEMMA IdleFacts == Idle \in Asks /\ Idle.stage = "none"
BY DEF Idle, Asks, Stages

LEMMA MinIsFree ==
    ASSUME NEW requests \in [Requests -> Asks], Free(requests) # {}
    PROVE  Min(Free(requests)) \in Requests /\ requests[Min(Free(requests))] = Idle
<1>1. Free(requests) \in SUBSET Nat
  BY BoundsAssumption DEF Free, Requests
<1>2. \E n \in Free(requests) : \A m \in Free(requests) : n <= m
  <2>1. PICK n \in Free(requests) : \A m \in Free(requests) : <<m, n>> \notin OpToRel(<, Nat)
    BY <1>1, WFMin, NatLessThanWellFounded, Zenon
  <2>2. \A m \in Free(requests) : ~(m < n)
    BY <1>1, <2>1, Zenon DEF OpToRel
  <2> QED BY <1>1, <2>2
<1>3. Min(Free(requests)) \in Free(requests)
  BY <1>2 DEF Min
<1> QED BY <1>3 DEF Free

LEMMA AskedFacts ==
    ASSUME NEW purpose \in {"plain", "socket"}, NEW held
    PROVE  Asked(purpose, held) \in Asks /\ Asked(purpose, held).stage = "asked"
BY DEF Asked, Idle, Asks, Stages

(* A new request takes nobody's place.                                     *)
LEMMA WithRequestOK ==
    ASSUME NEW requests \in [Requests -> Asks], Free(requests) # {},
           NEW purpose \in {"plain", "socket"}, NEW held
    PROVE  /\ WithRequest(requests, purpose, held) \in [Requests -> Asks]
           /\ WaitingIn(WithRequest(requests, purpose, held)) = WaitingIn(requests)
<1> DEFINE r == Min(Free(requests))
           e == Asked(purpose, held)
           new == WithRequest(requests, purpose, held)
<1>1. r \in Requests /\ requests[r].stage = "none"
  BY MinIsFree, IdleFacts
<1>2. e \in Asks /\ e.stage = "asked"
  BY AskedFacts
<1>3. new = [requests EXCEPT ![r] = e]
  BY DEF WithRequest
<1> HIDE DEF r, e, new
<1>4. new \in [Requests -> Asks] /\ WaitingIn(new) = WaitingIn(requests)
  BY <1>1, <1>2, <1>3 DEF WaitingIn
<1> QED BY <1>4 DEF new

LEMMA ConnectOK ==
    ASSUME NEW requests \in [Requests -> Asks], Free(requests) # {}, NEW held
    PROVE  /\ connect(requests, held) \in [Requests -> Asks]
           /\ WaitingIn(connect(requests, held)) = WaitingIn(requests)
BY WithRequestOK DEF connect

LEMMA HeardOK ==
    ASSUME NEW requests \in [Requests -> Asks], Hears => Free(requests) # {}
    PROVE  /\ heard(requests) \in [Requests -> Asks]
           /\ WaitingIn(heard(requests)) = WaitingIn(requests)
BY ConnectOK DEF heard

LEMMA SetTokenOK ==
    ASSUME NEW requests \in [Requests -> Asks], NEW later, setToken(requests, later)
    PROVE  /\ token' \in {"none", "good", "expired"}
           /\ request' \in [Requests -> Asks] /\ WaitingIn(request') = WaitingIn(requests)
BY HeardOK DEF setToken

LEMMA SignInFailsOK ==
    ASSUME Inv, SignInFails
    PROVE  /\ token' \in {"none", "good", "expired"}
           /\ request' \in [Requests -> Asks] /\ WaitingIn(request') = WaitingIn(request)
<1>1. request \in [Requests -> Asks] /\ token \in {"none", "good", "expired"}
  BY DEF Inv, Types
<1>2. CASE setToken(request, FALSE)
  BY <1>1, <1>2, SetTokenOK
<1>3. CASE UNCHANGED <<token, request, reconnect>>
  BY <1>1, <1>3
<1> QED BY <1>2, <1>3 DEF SignInFails

LEMMA RejectedFacts ==
    ASSUME NEW r, NEW unauthorized
    PROVE  rejected(r, unauthorized) \in Asks /\ rejected(r, unauthorized).stage \in {"none", "signIn"}
BY DEF rejected, Idle, Asks, Stages

LEMMA RejectOK ==
    ASSUME Inv, NEW r \in Requests, request[r].stage = "asked", NEW unauthorized,
           Reject(r, unauthorized)
    PROVE  request' \in [Requests -> Asks] /\ WaitingIn(request') = WaitingIn(request)
<1> DEFINE e == rejected(r, unauthorized)
<1>1. e \in Asks /\ e.stage # "refresh"
  BY RejectedFacts
<1>2. request \in [Requests -> Asks] /\ request' = [request EXCEPT ![r] = e]
  BY DEF Inv, Types, Reject
<1> HIDE DEF e
<1> QED BY <1>1, <1>2 DEF WaitingIn

(* A loop arms its timer only while it runs.                               *)
Disciplined(l) == l \in Loops /\ (l.timer => l.running)

(* What a step owes when nobody comes or ceases to wait.                   *)
LEMMA NobodyWaits ==
    ASSUME Inv, UNCHANGED refreshing,
           request' \in [Requests -> Asks], WaitingIn(request') = WaitingIn(request),
           token' \in {"none", "good", "expired"}, unlocked' \in BOOLEAN,
           Disciplined(loop'),
           late' \in Nat, entering' \in Nat, sockets' \in Nat, socketRef' \in BOOLEAN,
           socketRef' => sockets' > 0
    PROVE  Inv'
<1>1. Waiting' = Waiting
  BY DEF Waiting, WaitingIn
<1> QED BY <1>1 DEF Inv, Types, TimerOnlyWhileRunning, Disciplined

(* What of the page a step leaves alone.                                   *)
LEMMA Now ==
    ASSUME Inv
    PROVE  /\ request \in [Requests -> Asks] /\ token \in {"none", "good", "expired"}
           /\ unlocked \in BOOLEAN /\ loop \in Loops /\ Disciplined(loop)
           /\ late \in Nat /\ entering \in Nat /\ sockets \in Nat /\ socketRef \in BOOLEAN
           /\ (socketRef => sockets > 0)
BY DEF Inv, Types, TimerOnlyWhileRunning, Disciplined

-----------------------------------------------------------------------------
(* Requests, one by one *)

LEMMA RequestInv == ASSUME Inv, Request PROVE Inv'
<1>1. request' \in [Requests -> Asks] /\ WaitingIn(request') = WaitingIn(request)
  BY Now, WithRequestOK DEF Request
<1> QED BY <1>1, Now, NobodyWaits DEF Request, socket

LEMMA AnsweredInv == ASSUME Inv, NEW r \in Requests, Answered(r) PROVE Inv'
<1>1. request' \in [Requests -> Asks] /\ WaitingIn(request') = WaitingIn(request)
  BY Now, IdleFacts DEF Answered, WaitingIn
<1>2. sockets' \in Nat /\ socketRef' \in BOOLEAN /\ (socketRef' => sockets' > 0)
  <2>1. CASE sockets' = sockets + 1 /\ socketRef' = TRUE
    BY <2>1, Now
  <2>2. CASE UNCHANGED <<sockets, socketRef>>
    BY <2>2, Now
  <2> QED BY <2>1, <2>2 DEF Answered
<1> QED BY <1>1, <1>2, Now, NobodyWaits DEF Answered

LEMMA FailsInv == ASSUME Inv, NEW r \in Requests, Fails(r) PROVE Inv'
<1>1. request' \in [Requests -> Asks] /\ WaitingIn(request') = WaitingIn(request)
  BY RejectOK DEF Fails
<1> QED BY <1>1, Now, NobodyWaits DEF Fails

LEMMA UnauthorizedInv == ASSUME Inv, NEW r \in Requests, Unauthorized(r) PROVE Inv'
<1>1. /\ request[r].stage = "asked"
      /\ UNCHANGED <<unlocked, entering, loop, late, sockets, socketRef>>
  BY DEF Unauthorized
<1>2. CASE Reject(r, TRUE) /\ UNCHANGED refreshing /\ token' \in {token, "none"}
  <2>1. request' \in [Requests -> Asks] /\ WaitingIn(request') = WaitingIn(request)
    BY <1>1, <1>2, RejectOK
  <2>2. token' \in {"none", "good", "expired"}
    BY <1>2, Now
  <2> QED BY <1>1, <1>2, <2>1, <2>2, Now, NobodyWaits
<1>3. CASE /\ refreshing' = TRUE /\ request' = [request EXCEPT ![r].stage = "refresh"]
           /\ UNCHANGED token
  <2>1. request' \in [Requests -> Asks]
    BY <1>3, Now DEF Asks, Stages
  <2>2. request'[r].stage = "refresh"
    BY <1>3, Now DEF Asks
  <2>3. Waiting' # {}
    BY <2>2 DEF Waiting
  <2> QED BY <1>1, <1>3, <2>1, <2>3, Now DEF Inv, Types, TimerOnlyWhileRunning
<1> QED BY <1>2, <1>3 DEF Unauthorized

-----------------------------------------------------------------------------
(* The recovery loop *)

LEMMA StopOK == ASSUME NEW l \in Loops PROVE Disciplined(stopSessionRecovery(l))
BY DEF Disciplined, stopSessionRecovery, Loops

LEMMA ScheduleOK ==
    ASSUME NEW l, Disciplined(l)
    PROVE  Disciplined(schedule(l)) /\ Disciplined(again(l))
BY DEF Disciplined, schedule, again, Loops

LEMMA StartOK ==
    ASSUME NEW l, Disciplined(l), NEW held
    PROVE  Disciplined(startSessionRecovery(l, held))
<1>1. Disciplined([l EXCEPT !.running = TRUE])
  BY DEF Disciplined, Loops
<1> QED BY <1>1, ScheduleOK DEF startSessionRecovery

LEMMA TryOnceInv == ASSUME Inv, TimerFires \/ ComesOnline PROVE Inv'
<1>1. tryOnce
  BY DEF TimerFires, ComesOnline
<1>2. Disciplined(loop')
  <2>1. CASE loop' = stopSessionRecovery(loop)
    BY <2>1, Now, StopOK, StartOK
  <2>2. CASE loop' = [loop EXCEPT !.timer = FALSE, !.trying = @ + 1]
    <3> DEFINE n == loop.trying + 1
    <3>1. loop \in Loops /\ n \in Nat
      BY Now DEF Loops
    <3>2. loop' = [loop EXCEPT !.timer = FALSE, !.trying = n]
      BY <2>2
    <3> HIDE DEF n
    <3> QED BY <3>1, <3>2 DEF Loops, Disciplined
  <2> QED BY <1>1, <2>1, <2>2 DEF tryOnce
<1> QED BY <1>1, <1>2, Now, NobodyWaits DEF tryOnce, socket

-----------------------------------------------------------------------------
(* How a sign-in ends *)

LEMMA EnterInv == ASSUME Inv, EnterSignsIn \/ EnterFails PROVE Inv'
<1>1. /\ token' \in {"none", "good", "expired"}
      /\ request' \in [Requests -> Asks] /\ WaitingIn(request') = WaitingIn(request)
  BY Now, SetTokenOK, SignInFailsOK DEF EnterSignsIn, EnterFails
<1>2. entering' \in Nat
  <2>1. entering > 0 /\ entering' = entering - 1
    BY DEF EnterSignsIn, EnterFails
  <2> QED BY <2>1, Now
<1>3. Disciplined(loop')
  <2>1. Disciplined(loop) /\ (loop' = loop \/ loop' = startSessionRecovery(loop, token'))
    <3>1. loop' = loop \/ loop' = startSessionRecovery(loop, token')
      BY DEF EnterSignsIn, EnterFails
    <3> QED BY <3>1, Now
  <2> QED BY <2>1, StartOK
<1>4. UNCHANGED <<refreshing, late, unlocked, sockets, socketRef>>
  BY DEF EnterSignsIn, EnterFails, rest
<1> QED BY <1>1, <1>2, <1>3, <1>4, Now, NobodyWaits

LEMMA RecoveryInv == ASSUME Inv, RecoverySignsIn \/ RecoveryFails PROVE Inv'
<1>1. /\ token' \in {"none", "good", "expired"}
      /\ request' \in [Requests -> Asks] /\ WaitingIn(request') = WaitingIn(request)
  BY Now, SetTokenOK, SignInFailsOK DEF RecoverySignsIn, RecoveryFails
<1>2. Disciplined(loop')
  <2> DEFINE l == [loop EXCEPT !.trying = @ - 1]
  <2>1. loop.trying > 0
    BY DEF RecoverySignsIn, RecoveryFails
  <2>2. l \in Loops /\ Disciplined(l)
    BY <2>1, Now DEF Loops, Disciplined
  <2>3. loop' = stopSessionRecovery(l) \/ loop' = again(l)
    BY DEF RecoverySignsIn, RecoveryFails
  <2> HIDE DEF l
  <2> QED BY <2>2, <2>3, StopOK, ScheduleOK
<1>3. UNCHANGED <<refreshing, late, entering, unlocked, sockets, socketRef>>
  BY DEF RecoverySignsIn, RecoveryFails, rest
<1> QED BY <1>1, <1>2, <1>3, Now, NobodyWaits

(* A refresh that ends leaves nobody waiting for it.                       *)
LEMMA RefreshEnds ==
    ASSUME Inv, refreshing' = FALSE, request' \in [Requests -> Asks],
           WaitingIn(request') = {}, token' \in {"none", "good", "expired"},
           UNCHANGED <<entering, loop, late, rest>>
    PROVE  Inv'
<1>1. Waiting' = {}
  BY DEF Waiting, WaitingIn
<1> QED BY <1>1, Now DEF Inv, Types, TimerOnlyWhileRunning, rest

LEMMA RefreshSignsInInv == ASSUME Inv, RefreshSignsIn PROVE Inv'
<1> DEFINE told == [r \in Requests |->
              IF r \in Waiting THEN [request[r] EXCEPT !.stage = "asked", !.stale = FALSE, !.retried = TRUE]
              ELSE request[r]]
<1>1. refreshing' = FALSE /\ setToken(told, FALSE) /\ UNCHANGED <<entering, loop, late, rest>>
  BY DEF RefreshSignsIn
<1>2. told \in [Requests -> Asks] /\ WaitingIn(told) = {}
  <2>1. ASSUME NEW r \in Requests PROVE told[r] \in Asks /\ told[r].stage # "refresh"
    BY Now DEF Asks, Stages, Waiting
  <2>2. \A r \in Requests : told[r].stage # "refresh"
    BY <2>1
  <2>3. told \in [Requests -> Asks]
    BY <2>1
  <2> HIDE DEF told
  <2> QED BY <2>2, <2>3 DEF WaitingIn
<1> HIDE DEF told
<1>3. /\ token' \in {"none", "good", "expired"}
      /\ request' \in [Requests -> Asks] /\ WaitingIn(request') = {}
  BY <1>1, <1>2, SetTokenOK
<1> QED BY <1>1, <1>3, RefreshEnds

LEMMA RefreshFailsInv == ASSUME Inv, RefreshFails PROVE Inv'
<1> DEFINE told == [r \in Requests |-> IF r \in Waiting THEN rejected(r, TRUE) ELSE request[r]]
<1>1. /\ refreshing' = FALSE /\ token' = "none" /\ UNCHANGED <<entering, loop, late, rest>>
      /\ request' = told \/ (Free(told) # {} /\ request' = heard(told))
  BY DEF RefreshFails
<1>2. told \in [Requests -> Asks] /\ WaitingIn(told) = {}
  <2>1. ASSUME NEW r \in Requests PROVE told[r] \in Asks /\ told[r].stage # "refresh"
    BY Now, RejectedFacts DEF Waiting
  <2>2. \A r \in Requests : told[r].stage # "refresh"
    BY <2>1
  <2>3. told \in [Requests -> Asks]
    BY <2>1
  <2> HIDE DEF told
  <2> QED BY <2>2, <2>3 DEF WaitingIn
<1> HIDE DEF told
<1>3. request' \in [Requests -> Asks] /\ WaitingIn(request') = {}
  BY <1>1, <1>2, HeardOK
<1> QED BY <1>1, <1>3, RefreshEnds

LEMMA SocketSignsInInv == ASSUME Inv, NEW r \in Requests, SocketSignsIn(r) PROVE Inv'
<1> DEFINE e == [Asked("socket", "good") EXCEPT !.second = TRUE]
           new == [request EXCEPT ![r] = e]
<1>1. request[r].stage = "signIn" /\ setToken(new, FALSE)
      /\ UNCHANGED <<entering, loop, refreshing, late, rest>>
  BY DEF SocketSignsIn
<1>2. e \in Asks /\ e.stage = "asked"
  BY DEF Asked, Idle, Asks, Stages
<1> HIDE DEF e
<1>3. new \in [Requests -> Asks] /\ WaitingIn(new) = WaitingIn(request)
  BY <1>1, <1>2, Now DEF WaitingIn
<1> HIDE DEF new
<1>4. /\ token' \in {"none", "good", "expired"}
      /\ request' \in [Requests -> Asks] /\ WaitingIn(request') = WaitingIn(request)
  BY <1>1, <1>3, SetTokenOK
<1> QED BY <1>1, <1>4, Now, NobodyWaits DEF rest

LEMMA SocketSignInFailsInv == ASSUME Inv, NEW r \in Requests, SocketSignInFails(r) PROVE Inv'
<1> DEFINE without == [request EXCEPT ![r] = Idle]
<1>1. /\ request[r].stage = "signIn" /\ UNCHANGED <<entering, loop, refreshing, late, rest>>
      /\ setToken(without, TRUE) \/ (request' = without /\ UNCHANGED token)
  BY DEF SocketSignInFails
<1>2. without \in [Requests -> Asks] /\ WaitingIn(without) = WaitingIn(request)
  BY <1>1, IdleFacts, Now DEF WaitingIn
<1> HIDE DEF without
<1>3. /\ token' \in {"none", "good", "expired"}
      /\ request' \in [Requests -> Asks] /\ WaitingIn(request') = WaitingIn(request)
  BY <1>1, <1>2, Now, SetTokenOK
<1> QED BY <1>1, <1>3, Now, NobodyWaits DEF rest

LEMMA LateSignInInv == ASSUME Inv, LateSignIn PROVE Inv'
<1>1. /\ token' \in {"none", "good", "expired"}
      /\ request' \in [Requests -> Asks] /\ WaitingIn(request') = WaitingIn(request)
  BY SignInFailsOK DEF LateSignIn
<1>2. late' \in Nat
  BY Now DEF LateSignIn
<1> QED BY <1>1, <1>2, Now, NobodyWaits DEF LateSignIn, rest

-----------------------------------------------------------------------------
(* The socket and the session *)

LEMMA ReconnectInv == ASSUME Inv, Reconnect PROVE Inv'
<1>1. request' \in [Requests -> Asks] /\ WaitingIn(request') = WaitingIn(request)
  BY Now, ConnectOK DEF Reconnect
<1> QED BY <1>1, Now, NobodyWaits DEF Reconnect

LEMMA SocketClosesInv == ASSUME Inv, SocketCloses PROVE Inv'
<1>1. sockets' \in Nat
  BY Now DEF SocketCloses
<1> QED BY <1>1, Now, NobodyWaits DEF SocketCloses, signIns

LEMMA UnlockInv == ASSUME Inv, Unlock PROVE Inv'
<1>1. request' \in [Requests -> Asks] /\ WaitingIn(request') = WaitingIn(request)
  BY Now, ConnectOK DEF Unlock
<1>2. entering' \in Nat
  BY Now DEF Unlock
<1> QED BY <1>1, <1>2, Now, NobodyWaits DEF Unlock, socket

LEMMA UnmountInv == ASSUME Inv, Lock \/ Wiped PROVE Inv'
<1>1. Unmount
  BY DEF Lock, Wiped
<1>2. /\ request' \in [Requests -> Asks]
      /\ \A r \in Requests : request'[r].stage = "refresh" <=> request[r].stage = "refresh"
  <2>1. ASSUME NEW r \in Requests
        PROVE  LET e == IF request[r].stage = "signIn" THEN Idle
                        ELSE IF request[r].purpose = "socket" THEN [request[r] EXCEPT !.purpose = "plain"]
                        ELSE request[r]
               IN e \in Asks /\ (e.stage = "refresh" <=> request[r].stage = "refresh")
    <3>1. request[r] \in Asks
      BY Now
    <3>2. /\ [request[r] EXCEPT !.purpose = "plain"] \in Asks
          /\ [request[r] EXCEPT !.purpose = "plain"].stage = request[r].stage
      BY <3>1 DEF Asks
    <3> QED BY <3>1, <3>2, IdleFacts
  <2> QED BY <1>1, <2>1 DEF Unmount
<1>3. WaitingIn(request') = WaitingIn(request)
  BY <1>2 DEF WaitingIn
<1>4. late' \in Nat
  <2> DEFINE gone == {r \in Requests : request[r].stage = "signIn"}
  <2>1. IsFiniteSet(Requests)
    BY FS_Interval, BoundsAssumption DEF Requests
  <2>2. gone \in SUBSET Requests
    OBVIOUS
  <2>3. late' = late + Cardinality(gone)
    BY <1>1 DEF Unmount
  <2> HIDE DEF gone
  <2>4. Cardinality(gone) \in Nat
    BY <2>1, <2>2, FS_Subset, FS_CardinalityType
  <2> QED BY <2>3, <2>4, Now
<1>5. sockets' \in Nat /\ socketRef' = FALSE
  BY <1>1, Now DEF Unmount
<1>6. Disciplined(loop')
  BY Now, StopOK, StartOK DEF Lock, Wiped
<1>7. unlocked' \in BOOLEAN /\ token' = "none" /\ UNCHANGED <<entering, refreshing>>
  BY <1>1 DEF Unmount
<1> QED BY <1>2, <1>3, <1>4, <1>5, <1>6, <1>7, Now, NobodyWaits

LEMMA ExpireInv == ASSUME Inv, Expire PROVE Inv'
BY Now, NobodyWaits DEF Expire, signIns, socket

-----------------------------------------------------------------------------
(* The specification *)

LEMMA InitInv == Init => Inv
<1> SUFFICES ASSUME Init PROVE Inv
  OBVIOUS
<1>1. Stopped \in Loops /\ ~Stopped.timer
  BY DEF Stopped, Loops
<1>2. request \in [Requests -> Asks] /\ \A r \in Requests : request[r].stage = "none"
  BY IdleFacts DEF Init
<1>3. Waiting = {}
  BY <1>2 DEF Waiting
<1> QED BY <1>1, <1>2, <1>3 DEF Init, Inv, Types, TimerOnlyWhileRunning

LEMMA NextInv == Inv /\ [Next]_vars => Inv'
<1> SUFFICES ASSUME Inv, [Next]_vars PROVE Inv'
  OBVIOUS
<1>1. CASE UNCHANGED vars
  BY <1>1, Now, NobodyWaits DEF vars, signIns, socket
<1>2. ASSUME NEW r \in Requests, RequestNext(r) PROVE Inv'
  BY <1>2, AnsweredInv, FailsInv, UnauthorizedInv, SocketSignsInInv, SocketSignInFailsInv
     DEF RequestNext
<1> QED BY <1>1, <1>2, UnlockInv, UnmountInv, ExpireInv, RequestInv, TryOnceInv, EnterInv,
           RecoveryInv, RefreshSignsInInv, RefreshFailsInv, LateSignInInv, ReconnectInv,
           SocketClosesInv DEF Next

LEMMA Invariant == Spec => []Inv
BY InitInv, NextInv, PTL DEF Spec

(* Requests wait for a refresh exactly while one is under way, and every   *)
(* variable stays in its type.                                             *)
THEOREM TypeCorrect == Spec => []TypeOK
<1>1. Inv => TypeOK
  BY Now DEF Inv, TypeOK, Asks
<1> QED BY <1>1, Invariant, PTL

(* A recovery loop that was stopped has no timer armed.                    *)
THEOREM StoppedLoopsStay == Spec => []TimerOnlyWhileRunning
<1>1. Inv => TimerOnlyWhileRunning
  BY DEF Inv
<1> QED BY <1>1, Invariant, PTL

===============================================================================
