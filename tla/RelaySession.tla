----------------------------- MODULE RelaySession -----------------------------
(***************************************************************************)
(* One page of the app and its session at the relay: the token, the        *)
(* sign-ins that fetch one, the recovery loop of an app that was opened    *)
(* without, the refresh of an expired one, and the socket that needs it    *)
(* (lib/auth.js, lib/api.js, lib/sessionRecovery.ts,                       *)
(* hooks/useWebSocket.js, App.jsx).                                        *)
(*                                                                         *)
(* A sign-in is one request that succeeds, fails, or fails after it has    *)
(* set its token (the key attestation comes last); it goes on whatever     *)
(* becomes of who asked for it.  The relay takes a token that it has just  *)
(* issued: were the attestation answered 401, a refresh would wait for     *)
(* itself (api.js refreshInFlight).                                        *)
(***************************************************************************)
EXTENDS Naturals, FiniteSets, FiniteSetsExt

CONSTANTS
    MaxRequests,  \* bound: requests under way at once
    MaxExpiries,  \* bound: how often a token expires
    MaxOpenings   \* bound: how often the app is unlocked

ASSUME BoundsAssumption ==
    MaxRequests \in Nat \ {0} /\ MaxExpiries \in Nat /\ MaxOpenings \in Nat \ {0}

Requests == 1..MaxRequests

VARIABLES
    unlocked,   \* there is a session, and the shell with its socket hook is shown
    token,      \* "none", "good" or "expired"
    entering,   \* sign-ins behind an unlock that are under way
    loop,       \* the recovery loop: running, its timer, its sign-ins under way
    refreshing, \* refreshInFlight
    request,    \* requests under way
    late,       \* sign-ins of a socket hook that is gone
    sockets,    \* open sockets
    socketRef,  \* socketRef.current is set
    reconnect,  \* the reconnect timer
    expiries, openings

signIns == <<entering, loop, refreshing, request, late>>
socket == <<sockets, socketRef, reconnect>>
vars == <<unlocked, token, signIns, socket, expiries, openings>>

Idle == [stage |-> "none", purpose |-> "none", stale |-> FALSE, retried |-> FALSE, second |-> FALSE]
Stopped == [running |-> FALSE, timer |-> FALSE, trying |-> 0]

Init ==
    /\ unlocked = FALSE /\ token = "none" /\ entering = 0 /\ refreshing = FALSE
    /\ loop = Stopped
    /\ request = [r \in Requests |-> Idle]
    /\ late = 0 /\ sockets = 0 /\ socketRef = FALSE /\ reconnect = FALSE
    /\ expiries = 0 /\ openings = 0

-----------------------------------------------------------------------------
(* Requests, and the socket's ticket *)

Free(requests) == {r \in Requests : requests[r] = Idle}

Asked(purpose, held) ==
    [Idle EXCEPT !.stage = "asked", !.purpose = purpose, !.stale = (held = "expired")]

(* A request with the token that is held is added to those under way.      *)
WithRequest(requests, purpose, held) ==
    [requests EXCEPT ![Min(Free(requests))] = Asked(purpose, held)]

(* connect: without a token nothing, and nobody tries again.               *)
connect(requests, held) ==
    IF held = "none" THEN requests ELSE WithRequest(requests, "socket", held)

Hears == unlocked /\ ~socketRef

(* Mutant: nobody hears of a new token.                                    *)
heardByNobody(requests) == requests

(* The socket hook hears of a new token and connects, if it has no socket. *)
heard(requests) == IF Hears THEN connect(requests, "good") ELSE requests

(* Who has failed with a new token in hand may still reconnect later.      *)
setToken(requests, later) ==
    /\ Hears => Free(requests) # {}
    /\ token' = "good"
    /\ request' = heard(requests)
    /\ reconnect' = (later \/ (reconnect /\ ~Hears))

(* A sign-in that has failed, before its token or at the attestation.      *)
SignInFails ==
    \/ setToken(request, FALSE)
    \/ UNCHANGED <<token, request, reconnect>>

(* Mutant: who waited for the refresh is not told that it has failed.      *)
leftWaiting(r, unauthorized) == request[r]

(* The caller of request r is told that it has failed; the socket hook     *)
(* signs in by itself after a 401, once, and else reconnects later.        *)
rejected(r, unauthorized) ==
    IF request[r].purpose = "socket" /\ unauthorized /\ ~request[r].second /\ unlocked
    THEN [Idle EXCEPT !.stage = "signIn", !.purpose = "socket"] ELSE Idle

retries(r, unauthorized) ==
    request[r].purpose = "socket" /\ rejected(r, unauthorized) = Idle

Reject(r, unauthorized) ==
    /\ request' = [request EXCEPT ![r] = rejected(r, unauthorized)]
    /\ reconnect' = (reconnect \/ retries(r, unauthorized))

Request ==
    /\ unlocked /\ token # "none" /\ Free(request) # {}
    /\ request' = WithRequest(request, "plain", token)
    /\ UNCHANGED <<unlocked, token, entering, loop, refreshing, late, socket, expiries, openings>>

(* It is answered: the socket opens with its ticket.                       *)
Answered(r) ==
    /\ request[r].stage = "asked" /\ ~request[r].stale
    /\ request' = [request EXCEPT ![r] = Idle]
    /\ IF request[r].purpose = "socket"
       THEN sockets' = sockets + 1 /\ socketRef' = TRUE
       ELSE UNCHANGED <<sockets, socketRef>>
    /\ UNCHANGED <<unlocked, token, entering, loop, refreshing, late, reconnect, expiries, openings>>

(* Or the network fails it.                                                *)
Fails(r) ==
    /\ request[r].stage = "asked"
    /\ Reject(r, FALSE)
    /\ UNCHANGED <<unlocked, token, entering, loop, refreshing, late, sockets, socketRef,
                   expiries, openings>>

(* Or its token has expired: all such requests wait for one refresh, which *)
(* a locked app refuses.                                                   *)
Unauthorized(r) ==
    /\ request[r].stage = "asked" /\ request[r].stale
    /\ IF token = "none" \/ request[r].retried
       THEN Reject(r, TRUE) /\ UNCHANGED <<token, refreshing>>
       ELSE IF refreshing \/ unlocked
            THEN /\ refreshing' = TRUE
                 /\ request' = [request EXCEPT ![r].stage = "refresh"]
                 /\ UNCHANGED <<token, reconnect>>
            ELSE token' = "none" /\ Reject(r, TRUE) /\ UNCHANGED refreshing
    /\ UNCHANGED <<unlocked, entering, loop, late, sockets, socketRef, expiries, openings>>

-----------------------------------------------------------------------------
(* The recovery loop *)

stopSessionRecovery(l) == [l EXCEPT !.running = FALSE, !.timer = FALSE]

(* Mutant: a loop that was stopped goes on.                                *)
scheduleAnyway(l) == [l EXCEPT !.timer = TRUE]

schedule(l) == IF l.running THEN [l EXCEPT !.timer = TRUE] ELSE l

startSessionRecovery(l, held) ==
    IF l.running \/ ~unlocked \/ held # "none" THEN l ELSE schedule([l EXCEPT !.running = TRUE])

(* Mutant: a failure is the end of it.                                     *)
againNever(l) == l

again(l) == schedule(l)

tryOnce ==
    /\ loop' = IF ~unlocked \/ token # "none" THEN stopSessionRecovery(loop)
               ELSE [loop EXCEPT !.timer = FALSE, !.trying = @ + 1]
    /\ UNCHANGED <<unlocked, token, entering, refreshing, request, late, socket, expiries, openings>>

TimerFires == loop.timer /\ tryOnce

(* onOnline does not wait for the timer, nor for a sign-in under way.      *)
ComesOnline == loop.running /\ loop.trying < 2 /\ tryOnce

-----------------------------------------------------------------------------
(* How a sign-in ends *)

rest == <<unlocked, sockets, socketRef, expiries, openings>>

EnterSignsIn ==
    /\ entering > 0 /\ entering' = entering - 1
    /\ setToken(request, FALSE)
    /\ UNCHANGED <<loop, refreshing, late, rest>>

EnterFails ==
    /\ entering > 0 /\ entering' = entering - 1
    /\ SignInFails
    /\ loop' = startSessionRecovery(loop, token')
    /\ UNCHANGED <<refreshing, late, rest>>

RecoverySignsIn ==
    /\ loop.trying > 0
    /\ setToken(request, FALSE)
    /\ loop' = stopSessionRecovery([loop EXCEPT !.trying = @ - 1])
    /\ UNCHANGED <<entering, refreshing, late, rest>>

RecoveryFails ==
    /\ loop.trying > 0
    /\ SignInFails
    /\ loop' = again([loop EXCEPT !.trying = @ - 1])
    /\ UNCHANGED <<entering, refreshing, late, rest>>

Waiting == {r \in Requests : request[r].stage = "refresh"}

RefreshSignsIn ==
    /\ refreshing /\ refreshing' = FALSE
    /\ setToken([r \in Requests |->
          IF r \in Waiting THEN [request[r] EXCEPT !.stage = "asked", !.stale = FALSE, !.retried = TRUE]
          ELSE request[r]], FALSE)
    /\ UNCHANGED <<entering, loop, late, rest>>

(* The token goes, and with it whatever another sign-in has set meanwhile. *)
RefreshFails ==
    /\ refreshing /\ refreshing' = FALSE
    /\ token' = "none"
    /\ LET told == [r \in Requests |-> IF r \in Waiting THEN rejected(r, TRUE) ELSE request[r]]
           later == \E r \in Waiting : retries(r, TRUE)
       IN \/ request' = told /\ reconnect' = (reconnect \/ later)
          \/ /\ Hears /\ Free(told) # {}
             /\ request' = heard(told) /\ reconnect' = later
    /\ UNCHANGED <<entering, loop, late, rest>>

SocketSignsIn(r) ==
    /\ request[r].stage = "signIn"
    /\ setToken([request EXCEPT ![r] = [Asked("socket", "good") EXCEPT !.second = TRUE]], FALSE)
    /\ UNCHANGED <<entering, loop, refreshing, late, rest>>

SocketSignInFails(r) ==
    /\ request[r].stage = "signIn"
    /\ LET without == [request EXCEPT ![r] = Idle]
       IN \/ setToken(without, TRUE)
          \/ request' = without /\ reconnect' = TRUE /\ UNCHANGED token
    /\ UNCHANGED <<entering, loop, refreshing, late, rest>>

(* It succeeds or fails for nobody.                                        *)
LateSignIn ==
    /\ late > 0 /\ late' = late - 1
    /\ SignInFails
    /\ UNCHANGED <<entering, loop, refreshing, rest>>

-----------------------------------------------------------------------------
(* The socket *)

Reconnect ==
    /\ reconnect /\ reconnect' = FALSE
    /\ Free(request) # {}
    /\ request' = connect(request, token)
    /\ UNCHANGED <<unlocked, token, entering, loop, refreshing, late, sockets, socketRef,
                   expiries, openings>>

(* Whichever socket closes, the reference is dropped.                      *)
SocketCloses ==
    /\ sockets > 0 /\ sockets' = sockets - 1
    /\ socketRef' = FALSE
    /\ reconnect' = (reconnect \/ unlocked)
    /\ UNCHANGED <<unlocked, token, signIns, expiries, openings>>

-----------------------------------------------------------------------------
(* The session *)

(* Unlock's enter: the shell connects with whatever token there is, and    *)
(* the sign-in goes on behind it.                                          *)
Unlock ==
    /\ ~unlocked /\ openings < MaxOpenings
    /\ unlocked' = TRUE /\ openings' = openings + 1
    /\ entering' = entering + 1
    /\ Free(request) # {} /\ request' = connect(request, token)
    /\ UNCHANGED <<token, loop, refreshing, late, socket, expiries>>

(* The shell goes: its timer, the socket it knows of, its listeners.  Its  *)
(* requests and sign-ins go on for nobody.                                 *)
Unmount ==
    /\ unlocked' = FALSE
    /\ token' = "none"
    /\ request' = [r \in Requests |->
          IF request[r].stage = "signIn" THEN Idle
          ELSE IF request[r].purpose = "socket" THEN [request[r] EXCEPT !.purpose = "plain"]
          ELSE request[r]]
    /\ late' = late + Cardinality({r \in Requests : request[r].stage = "signIn"})
    /\ sockets' = IF socketRef THEN sockets - 1 ELSE sockets
    /\ socketRef' = FALSE /\ reconnect' = FALSE
    /\ UNCHANGED <<entering, refreshing, expiries, openings>>

Lock == unlocked /\ Unmount /\ loop' = stopSessionRecovery(loop)

(* App.wiped closes the session and leaves the loop to find out.           *)
Wiped == unlocked /\ Unmount /\ UNCHANGED loop

Expire ==
    /\ token = "good" /\ expiries < MaxExpiries
    /\ token' = "expired" /\ expiries' = expiries + 1
    /\ UNCHANGED <<unlocked, signIns, socket, openings>>

-----------------------------------------------------------------------------

RequestNext(r) ==
    Answered(r) \/ Fails(r) \/ Unauthorized(r) \/ SocketSignsIn(r) \/ SocketSignInFails(r)

Next ==
    \/ Unlock \/ Lock \/ Wiped \/ Expire \/ Request
    \/ \E r \in Requests : RequestNext(r)
    \/ TimerFires \/ ComesOnline \/ EnterSignsIn \/ EnterFails \/ RecoverySignsIn \/ RecoveryFails
    \/ RefreshSignsIn \/ RefreshFails \/ LateSignIn
    \/ Reconnect \/ SocketCloses

Spec == Init /\ [][Next]_vars

(* Timers fire, requests and sign-ins end, and a relay that is asked the   *)
(* same again and again is awake for one of them.  Reconnect is strong     *)
(* because MaxRequests, which is not the code's, can hold it up.           *)
SomeSocket(A(_)) == \E r \in Requests : request[r].purpose = "socket" /\ A(r)

Fairness ==
    /\ WF_vars(TimerFires) /\ SF_vars(Reconnect)
    /\ WF_vars(EnterSignsIn \/ EnterFails)
    /\ WF_vars(RecoverySignsIn \/ RecoveryFails) /\ SF_vars(RecoverySignsIn)
    /\ WF_vars(RefreshSignsIn \/ RefreshFails) /\ SF_vars(RefreshSignsIn)
    /\ \A r \in Requests : WF_vars(RequestNext(r))
    /\ SF_vars(SomeSocket(Answered)) /\ SF_vars(SomeSocket(Unauthorized))
    /\ SF_vars(SomeSocket(SocketSignsIn))

FairSpec == Spec /\ Fairness

-----------------------------------------------------------------------------
(* Correctness *)

Stages == {"none", "asked", "refresh", "signIn"}

(* Every variable stays in its type, and who waits for a refresh waits for *)
(* one that is under way (api.js refreshInFlight).                         *)
TypeOK ==
    /\ token \in {"none", "good", "expired"}
    /\ \A r \in Requests : request[r].stage \in Stages
    /\ Waiting # {} <=> refreshing
    /\ late \in Nat /\ entering \in Nat /\ sockets \in Nat
    /\ socketRef => sockets > 0

(* No timer is armed by a loop that was stopped, however many of its       *)
(* sign-ins were under way when it stopped or another one was started      *)
(* (sessionRecovery.ts stopSessionRecovery).                               *)
TimerOnlyWhileRunning == loop.timer => loop.running

(* An app that opened without the relay gets its session once the relay is *)
(* awake, or is locked: the loop does not run for ever and does not forget *)
(* to try (sessionRecovery.ts: never "offline until the page is reloaded"). *)
RecoverySucceeds == loop.running ~> ~loop.running

(* A session with a token gets its socket, whatever failed in between      *)
(* (useWebSocket.js: "the arrival of a token is the signal to try again"). *)
SocketComesBack == (unlocked /\ token # "none") ~> (socketRef \/ token = "none" \/ ~unlocked)

-----------------------------------------------------------------------------
(* What comments say and the code does not do *)

(* The app reconnects on its own (api.js OFFLINE_MESSAGE).                 *)
ReconnectsOnItsOwn == (unlocked /\ token = "none") ~> (token # "none" \/ ~unlocked)

(* One page has one socket.                                                *)
OneSocket == sockets <= 1
===============================================================================
