-------------------------------- MODULE Calls --------------------------------
(***************************************************************************)
(* Voice and video calls between two people: the controller of each device *)
(* (hooks/useCall.js) and the relay, which passes signals on and keeps     *)
(* those of a call that has not ended (ws.rs relay_call_*,                 *)
(* routes/calls.rs).                                                       *)
(*                                                                         *)
(* The controller keeps one context in callRef and runs handlers that wait *)
(* for the camera, for WebRTC and for the sealing and opening of signals.  *)
(* Each wait is a boundary between two actions.  An event is taken by the  *)
(* relay when it is sent, or lost with its socket or to the rate limit.    *)
(* Media, descriptions and candidates are reduced to whose they are; a     *)
(* connection comes up when both ends are described.  The call's card and  *)
(* the statuses recorded on it are messages of the conversation, which     *)
(* other modules follow: here they are sent, or fail to be.                *)
(***************************************************************************)
EXTENDS Naturals, Sequences, FiniteSetsExt

CONSTANTS
    Users,      \* two friends
    Peer,       \* Peer[u] is the other one
    Calls,      \* the calls that may be placed
    Caller,     \* Caller[c] places call c
    None,       \* no context
    Trickling,  \* bound: the contexts that send a candidate
    MaxTimes,   \* bound: how often each kind of outside step is taken
    MaxOutside  \* bound: how many of those are taken in all

(* A socket "drop"s, a sent event is "lost", a "step" of a handler fails, a *)
(* page is "reload"ed, a stored call "expire"s, a device "resume"s calls.   *)
OutsideKinds == {"drop", "lost", "step", "reload", "expire", "resume"}

ASSUME UsersAssumption ==
    /\ Peer \in [Users -> Users]
    /\ \A u \in Users : Peer[u] # u /\ Peer[Peer[u]] = u
ASSUME CallsAssumption == Caller \in [Calls -> Users]
ASSUME BoundsAssumption == MaxTimes \in [OutsideKinds -> Nat] /\ MaxOutside \in Nat

(* A context: of a call placed here, of an offer pushed to this device, or *)
(* of an offer that this device fetched when it was opened.                *)
Contexts == [call : Calls, made : {"placed", "pushed", "resumed"}]
ASSUME NoneAssumption == None \notin Contexts /\ None \notin Calls /\ Trickling \subseteq Contexts

Placed(c) == [call |-> c, made |-> "placed"]
Owner(x) == IF x.made = "placed" THEN Caller[x.call] ELSE Peer[Caller[x.call]]

VARIABLES
    ref,      \* per user: callRef
    ctx,      \* every context
    screen,   \* per user: the phase and call on screen
    orphans,  \* per user: orphanSignals, candidates by the context that gathered them
    link,     \* per user: the socket is up
    inbox,    \* per user: events published to the socket, not yet handled
    pending,  \* relay: the signals of each pending call, {} when there is no row
    replaced, \* history: contexts that resumePendingCalls took the place of
    spent     \* how often each kind of outside step was taken

device == <<ref, ctx, screen, orphans>>
vars == <<device, link, inbox, pending, replaced, spent>>

-----------------------------------------------------------------------------
(* Contexts, screens, the relay *)

(* `task' is where the context's handler is; `answering' where the handler *)
(* of the answer is; `early' the candidates that came before the offer.    *)
Fresh == [task |-> "none", pc |-> "none", capture |-> FALSE, described |-> FALSE,
          early |-> {}, parked |-> {}, applied |-> {}, candidate |-> "none",
          timer |-> FALSE, active |-> FALSE, answering |-> "none"]
IdleScreen == [phase |-> "idle", call |-> None]

Init ==
    /\ ref = [u \in Users |-> None]
    /\ ctx = [x \in Contexts |-> Fresh]
    /\ screen = [u \in Users |-> IdleScreen]
    /\ orphans = [u \in Users |-> {}]
    /\ link = [u \in Users |-> TRUE]
    /\ inbox = [u \in Users |-> <<>>]
    /\ pending = [c \in Calls |-> {}]
    /\ replaced = {}
    /\ spent = [k \in OutsideKinds |-> 0]

Spend(kind) ==
    /\ spent[kind] < MaxTimes[kind]
    /\ MapThenSumSet(LAMBDA k : spent[k], OutsideKinds) < MaxOutside
    /\ spent' = [spent EXCEPT ![kind] = @ + 1]

Current(x) == ref[Owner(x)] = x
Update(x, s) == ctx' = [ctx EXCEPT ![x] = s]

(* Mutant: the screen is set whatever it shows.                            *)
ShowAnyway(x, phase) == screen' = [screen EXCEPT ![Owner(x)] = [phase |-> phase, call |-> x.call]]

(* setCall for a context changes the screen only while it shows that call. *)
Show(x, phase) ==
    screen' = IF screen[Owner(x)].call = x.call
              THEN [screen EXCEPT ![Owner(x)].phase = phase] ELSE screen
Present(x, phase) == screen' = [screen EXCEPT ![Owner(x)] = [phase |-> phase, call |-> x.call]]

publish(u, e) ==
    inbox' = IF link[u] THEN [inbox EXCEPT ![u] = Append(@, e)] ELSE inbox

(* An offer starts a pending call; a push notification that was accepted   *)
(* for an offline peer rings back at once.                                 *)
relay_call_offer(u, e) ==
    /\ pending' = [pending EXCEPT ![e.call] = @ \cup {e.from}]
    /\ \/ publish(Peer[u], e)
       \/ ~link[Peer[u]] /\ publish(u, [kind |-> "ringing", call |-> e.call, from |-> e.from])

(* Answers and candidates are stored with their call, if it is there.      *)
relay_call_signal(u, e) ==
    IF pending[e.call] = {} THEN UNCHANGED <<pending, inbox>>
    ELSE /\ pending' = [pending EXCEPT ![e.call] = @ \cup {s \in {e.from} : e.kind = "candidate"}]
         /\ publish(Peer[u], e)

relay_call_ringing(u, e) ==
    /\ IF pending[e.call] # {} /\ u = Peer[Caller[e.call]]
       THEN publish(Peer[u], e) ELSE UNCHANGED inbox
    /\ UNCHANGED pending

relay_call_end(u, e) ==
    /\ publish(Peer[u], e)
    /\ pending' = [pending EXCEPT ![e.call] = {}]

Taken(u, e) ==
    /\ e.kind = "offer" => relay_call_offer(u, e)
    /\ e.kind \in {"answer", "candidate"} => relay_call_signal(u, e)
    /\ e.kind = "ringing" => relay_call_ringing(u, e)
    /\ e.kind = "end" => relay_call_end(u, e)

(* send: FALSE without a socket, and the caller may not care.              *)
Send(x, kind) ==
    LET u == Owner(x)
    IN  \/ link[u] /\ Taken(u, [kind |-> kind, call |-> x.call, from |-> x]) /\ UNCHANGED spent
        \/ link[u] /\ Spend("lost") /\ UNCHANGED <<pending, inbox>>
        \/ ~link[u] /\ UNCHANGED <<pending, inbox, spent>>

(* The same, of an event that has been taken off the inbox of u.           *)
Rest(u) == inbox' = [inbox EXCEPT ![u] = Tail(@)]
SendEndAndTake(u, x) ==
    \/ /\ pending' = [pending EXCEPT ![x.call] = {}]
       /\ inbox' = [inbox EXCEPT
             ![u] = Tail(@),
             ![Peer[u]] = IF link[Peer[u]] THEN Append(@, [kind |-> "end", call |-> x.call, from |-> x])
                          ELSE @]
       /\ UNCHANGED spent
    \/ Spend("lost") /\ Rest(u) /\ UNCHANGED pending

closed(s) ==
    [s EXCEPT !.pc = IF @ = "open" THEN "closed" ELSE @, !.timer = FALSE, !.active = FALSE,
              !.capture = FALSE, !.described = FALSE, !.parked = {}, !.applied = {}]

(* stopContext of x in state s; nothing if another call has taken its place. *)
stopContext(x, s) ==
    IF Current(x)
    THEN /\ Update(x, closed(s))
         /\ ref' = [ref EXCEPT ![Owner(x)] = None]
         /\ screen' = [screen EXCEPT ![Owner(x)] = IdleScreen]
    ELSE Update(x, s) /\ UNCHANGED <<ref, screen>>

finish(x, s) == Send(x, "end") /\ stopContext(x, s)

-----------------------------------------------------------------------------
(* Placing and accepting a call *)

startCall(c) ==
    LET x == Placed(c)
    IN  /\ ref[Caller[c]] = None /\ ctx[x].task = "none"
        /\ ref' = [ref EXCEPT ![Caller[c]] = x]
        /\ Update(x, [Fresh EXCEPT !.task = "media"])
        /\ Present(x, "preparing")
        /\ UNCHANGED <<orphans, link, inbox, pending, replaced, spent>>

(* The buttons of the call overlay: a ringing call can be accepted, and any *)
(* call that it shows declined or ended.                                   *)
Buttons(u) ==
    {b \in {"accept", "end"} : IF b = "accept" THEN screen[u].phase = "incoming"
                               ELSE screen[u].phase # "idle"}

acceptCall(u) ==
    LET x == ref[u]
    IN  /\ "accept" \in Buttons(u) /\ x # None
        /\ x.made # "placed" /\ ctx[x].pc = "none"
        /\ Update(x, [ctx[x] EXCEPT !.task = "media"])
        /\ Show(x, "preparing")
        /\ UNCHANGED <<ref, orphans, link, inbox, pending, replaced, spent>>

endCall(u) ==
    /\ "end" \in Buttons(u) /\ ref[u] # None
    /\ finish(ref[u], ctx[ref[u]])
    /\ UNCHANGED <<orphans, link, replaced>>

(* Mutant: nobody looks whether the call is still there.                   *)
MediaReadyUnchecked(x) ==
    /\ ctx[x].task = "media"
    /\ Update(x, [ctx[x] EXCEPT !.task = "describe", !.capture = TRUE, !.pc = "open"])
    /\ UNCHANGED <<ref, screen, orphans, link, inbox, pending, replaced, spent>>

(* The camera is ready: kept if the call is still there.                   *)
MediaReady(x) ==
    /\ ctx[x].task = "media"
    /\ Update(x, IF Current(x)
                 THEN [ctx[x] EXCEPT !.task = "describe", !.capture = TRUE, !.pc = "open"]
                 ELSE [ctx[x] EXCEPT !.task = "over"])
    /\ UNCHANGED <<ref, screen, orphans, link, inbox, pending, replaced, spent>>

(* The caller describes itself, the callee is told the offer; either fails *)
(* on a connection that was closed meanwhile.                              *)
Describe(x) ==
    /\ ctx[x].task = "describe" /\ ctx[x].pc = "open"
    /\ Update(x, IF x.made = "placed" THEN [ctx[x] EXCEPT !.task = "card"]
                 ELSE [ctx[x] EXCEPT !.task = "flush", !.described = TRUE])
    /\ UNCHANGED <<ref, screen, orphans, link, inbox, pending, replaced, spent>>

(* Mutant: nothing parked is taken along.                                  *)
flushNothing(s) == s

flushCandidates(s) == [s EXCEPT !.applied = @ \cup s.parked, !.parked = {}]

FlushOffer(x) ==
    /\ ctx[x].task = "flush" /\ ctx[x].pc = "open"
    /\ Update(x, [flushCandidates(ctx[x]) EXCEPT !.task = "seal"])
    /\ UNCHANGED <<ref, screen, orphans, link, inbox, pending, replaced, spent>>

(* The call's card is sent as a message of the conversation.               *)
SendCard(x) ==
    /\ ctx[x].task = "card" /\ link[Owner(x)]
    /\ Update(x, [ctx[x] EXCEPT !.task = "seal"])
    /\ UNCHANGED <<ref, screen, orphans, link, inbox, pending, replaced, spent>>

(* The offer or the answer is sealed and sent, and the timer starts.       *)
SendDescription(x) ==
    /\ ctx[x].task = "seal" /\ link[Owner(x)]
    /\ Send(x, IF x.made = "placed" THEN "offer" ELSE "answer")
    /\ Update(x, [ctx[x] EXCEPT !.task = "done", !.timer = Current(x)])
    /\ Show(x, IF x.made = "placed" THEN "calling" ELSE "connecting")
    /\ UNCHANGED <<ref, orphans, link, replaced>>

(* A step throws: on a closed connection, without a socket, or by itself.  *)
Throws(x) ==
    \/ ctx[x].task \in {"describe", "flush"} /\ ctx[x].pc = "closed" /\ UNCHANGED spent
    \/ ctx[x].task \in {"card", "seal"} /\ ~link[Owner(x)] /\ UNCHANGED spent
    \/ ctx[x].task \in {"media", "describe", "flush", "card", "seal"} /\ Spend("step")

(* A call whose card is out waits for the failure to be recorded on it.    *)
startCallFails(x) ==
    /\ x.made = "placed" /\ Throws(x)
    /\ IF ctx[x].task = "seal"
       THEN Update(x, [ctx[x] EXCEPT !.task = "recording"]) /\ UNCHANGED <<ref, screen>>
       ELSE stopContext(x, [ctx[x] EXCEPT !.task = "over"])
    /\ UNCHANGED <<orphans, link, inbox, pending, replaced>>

FailureRecorded(x) ==
    /\ ctx[x].task = "recording"
    /\ stopContext(x, [ctx[x] EXCEPT !.task = "over"])
    /\ UNCHANGED <<orphans, link, inbox, pending, replaced, spent>>

acceptCallFails(x) ==
    /\ x.made # "placed"
    /\ \/ /\ \/ ctx[x].task \in {"describe", "flush"} /\ ctx[x].pc = "closed"
             \/ ctx[x].task = "seal" /\ ~link[Owner(x)]
          /\ finish(x, [ctx[x] EXCEPT !.task = "over"])
       \/ /\ ctx[x].task \in {"media", "describe", "flush", "seal"} /\ Spend("step")
          /\ stopContext(x, [ctx[x] EXCEPT !.task = "over"])
          /\ IF link[Owner(x)]
             THEN relay_call_end(Owner(x), [kind |-> "end", call |-> x.call, from |-> x])
             ELSE UNCHANGED <<pending, inbox>>
    /\ UNCHANGED <<orphans, link, replaced>>

-----------------------------------------------------------------------------
(* The connection: candidates, success, failure, the timer *)

(* onicecandidate: after the local description, while the call is there.   *)
Gather(x) ==
    /\ x \in Trickling /\ Current(x) /\ ctx[x].pc = "open" /\ ctx[x].candidate = "none"
    /\ ctx[x].task \in {"card", "seal", "done"}
    /\ Update(x, [ctx[x] EXCEPT !.candidate = "gathered"])
    /\ UNCHANGED <<ref, screen, orphans, link, inbox, pending, replaced, spent>>

(* The caller keeps it until the offer is out.                             *)
SendCandidate(x) ==
    /\ ctx[x].candidate = "gathered"
    /\ x.made = "placed" => ctx[x].task = "done"
    /\ Send(x, "candidate")
    /\ Update(x, [ctx[x] EXCEPT !.candidate = "sent"])
    /\ UNCHANGED <<ref, screen, orphans, link, replaced>>

Connectable(x) == ctx[x].pc = "open" /\ ctx[x].described
FarEnds(x) == {y \in Contexts : y.call = x.call /\ Owner(y) # Owner(x) /\ Connectable(y)}

Connected(x) ==
    /\ Current(x) /\ Connectable(x) /\ FarEnds(x) # {} /\ ~ctx[x].active
    /\ Update(x, [ctx[x] EXCEPT !.active = TRUE, !.timer = FALSE])
    /\ Show(x, "active")
    /\ UNCHANGED <<ref, orphans, link, inbox, pending, replaced, spent>>

(* Mutant: only the caller's connection is watched.                        *)
ConnectionFailedAtCaller(x) ==
    /\ Current(x) /\ Connectable(x) /\ FarEnds(x) = {} /\ x.made = "placed"
    /\ finish(x, ctx[x])
    /\ UNCHANGED <<orphans, link, replaced>>

(* The far end is gone; WebRTC notices in the end.                         *)
ConnectionFailed(x) ==
    /\ Current(x) /\ Connectable(x) /\ FarEnds(x) = {}
    /\ finish(x, ctx[x])
    /\ UNCHANGED <<orphans, link, replaced>>

(* scheduleConnectTimeout.                                                 *)
Timeout(x) ==
    /\ ctx[x].timer /\ Current(x) /\ ~ctx[x].active
    /\ finish(x, ctx[x])
    /\ UNCHANGED <<orphans, link, replaced>>

-----------------------------------------------------------------------------
(* Events *)

Event(u, kind) == inbox[u] # <<>> /\ Head(inbox[u]).kind = kind

(* An event that no branch of the handler is for.                          *)
Ignore(u) ==
    /\ Rest(u)
    /\ UNCHANGED <<device, link, pending, replaced, spent>>

(* Busy with another call, or this very offer is known; else it is opened. *)
ReceiveOffer(u) ==
    LET c == Head(inbox[u]).call
        x == [call |-> c, made |-> "pushed"]
    IN  /\ Event(u, "offer")
        /\ \/ /\ ref[u] # None /\ ref[u].call # c
              /\ SendEndAndTake(u, x)
              /\ UNCHANGED ctx
           \/ /\ ref[u] # None /\ ref[u].call = c
              /\ Rest(u) /\ UNCHANGED <<ctx, pending, spent>>
           \/ /\ ref[u] = None
              /\ Update(x, [Fresh EXCEPT !.task = "open"])
              /\ Rest(u) /\ UNCHANGED <<pending, spent>>
        /\ UNCHANGED <<ref, screen, orphans, link, replaced>>

Ring(x) == Present(x, "incoming") /\ Send(x, "ringing")

(* The offer is opened; another call may have begun meanwhile.  Candidates *)
(* that came early are opened next, and only then does it ring.            *)
OpenOffer(x) ==
    LET u == Owner(x)
        early == {y \in orphans[u] : y.call = x.call}
    IN  /\ ctx[x].task = "open" /\ x.made = "pushed"
        /\ IF ref[u] # None
           THEN /\ Update(x, [ctx[x] EXCEPT !.task = "over"])
                /\ UNCHANGED <<ref, screen, orphans, inbox, pending, spent>>
           ELSE /\ ref' = [ref EXCEPT ![u] = x]
                /\ orphans' = [orphans EXCEPT ![u] = @ \ early]
                /\ Update(x, [ctx[x] EXCEPT !.task = IF early = {} THEN "idle" ELSE "admit",
                                            !.early = early])
                /\ IF early = {} THEN Ring(x) ELSE UNCHANGED <<screen, inbox, pending, spent>>
        /\ UNCHANGED <<link, replaced>>

(* It cannot be opened: the caller is told.  A stored offer is let go.     *)
OpenOfferFails(x) ==
    LET u == Owner(x)
    IN  /\ ctx[x].task = "open" /\ Spend("step")
        /\ IF x.made = "pushed" /\ link[u]
           THEN relay_call_end(u, [kind |-> "end", call |-> x.call, from |-> x])
           ELSE UNCHANGED <<pending, inbox>>
        /\ Update(x, [ctx[x] EXCEPT !.task = "over"])
        /\ UNCHANGED <<ref, screen, orphans, link, replaced>>

AdmitOffer(x) ==
    /\ ctx[x].task = "admit" /\ x.made = "pushed"
    /\ Update(x, [ctx[x] EXCEPT !.task = "idle", !.parked = @ \cup ctx[x].early, !.early = {}])
    /\ Ring(x)
    /\ UNCHANGED <<ref, orphans, link, replaced>>

(* With no call at all it waits for its offer; with a connection it is     *)
(* opened and added, or parked until the other end is described; else it   *)
(* is dropped.                                                             *)
ReceiveCandidate(u) ==
    LET y == Head(inbox[u]).from
        x == ref[u]
        s == ctx[x]
    IN  /\ Event(u, "candidate") /\ Rest(u)
        /\ \/ /\ x = None
              /\ orphans' = [orphans EXCEPT ![u] = @ \cup {y}]
              /\ UNCHANGED ctx
           \/ /\ x # None /\ x.call = y.call /\ s.pc # "none"
              /\ Update(x, IF s.described THEN [s EXCEPT !.applied = @ \cup {y}]
                           ELSE [s EXCEPT !.parked = @ \cup {y}])
              /\ UNCHANGED orphans
           \/ /\ x # None /\ (x.call # y.call \/ s.pc = "none")
              /\ UNCHANGED <<ctx, orphans>>
        /\ UNCHANGED <<ref, screen, link, pending, replaced, spent>>

(* The current call is the one that the event names.                       *)
Addressed(u) == ref[u] # None /\ ref[u].call = Head(inbox[u]).call

(* Mutant: ringing stops the timer.                                        *)
ReceiveRingingAnswered(u) ==
    LET x == ref[u]
    IN  /\ Event(u, "ringing") /\ Addressed(u) /\ x.made = "placed"
        /\ Rest(u)
        /\ Show(x, "ringing")
        /\ Update(x, [ctx[x] EXCEPT !.timer = FALSE])
        /\ UNCHANGED <<ref, orphans, link, pending, replaced, spent>>

(* It rings at the other end.                                              *)
ReceiveRinging(u) ==
    LET x == ref[u]
    IN  /\ Event(u, "ringing") /\ Addressed(u) /\ x.made = "placed"
        /\ Rest(u)
        /\ Show(x, "ringing")
        /\ UNCHANGED <<ref, ctx, orphans, link, pending, replaced, spent>>

ReceiveAnswer(u) ==
    LET x == ref[u]
    IN  /\ Event(u, "answer") /\ Addressed(u) /\ x.made = "placed" /\ ctx[x].pc # "none"
        /\ Rest(u)
        /\ Update(x, [ctx[x] EXCEPT !.answering = "open"])
        /\ UNCHANGED <<ref, screen, orphans, link, pending, replaced, spent>>

(* The answer is opened and set; it fails on a closed connection.          *)
SetAnswer(x) ==
    /\ ctx[x].answering = "open"
    /\ IF ctx[x].pc = "closed" THEN finish(x, [ctx[x] EXCEPT !.answering = "done"])
       ELSE /\ Update(x, [ctx[x] EXCEPT !.answering = "flush", !.described = TRUE])
            /\ UNCHANGED <<ref, screen, inbox, pending, spent>>
    /\ UNCHANGED <<orphans, link, replaced>>

FlushAnswer(x) ==
    /\ ctx[x].answering = "flush"
    /\ Update(x, [flushCandidates(ctx[x]) EXCEPT !.answering = "done"])
    /\ Show(x, "connecting")
    /\ UNCHANGED <<ref, orphans, link, inbox, pending, replaced, spent>>

ReceiveEnd(u) ==
    LET x == ref[u]
    IN  /\ Event(u, "end") /\ Addressed(u)
        /\ Rest(u)
        /\ stopContext(x, ctx[x])
        /\ UNCHANGED <<orphans, link, pending, replaced, spent>>

(* The branches above do not apply.                                        *)
ReceiveOther(u) ==
    /\ \/ Event(u, "ringing") /\ ~(Addressed(u) /\ ref[u].made = "placed")
       \/ Event(u, "answer") /\ ~(Addressed(u) /\ ref[u].made = "placed" /\ ctx[ref[u]].pc # "none")
       \/ Event(u, "end") /\ ~Addressed(u)
    /\ Ignore(u)

-----------------------------------------------------------------------------
(* Offers that waited for this device *)

(* resumePendingCalls asks the relay, which answers with a call that has   *)
(* not ended and its candidates.                                           *)
Resume(u) ==
    /\ ref[u] = None /\ Spend("resume")
    /\ \E c \in Calls :
          LET x == [call |-> c, made |-> "resumed"]
          IN  /\ Caller[c] = Peer[u] /\ Placed(c) \in pending[c] /\ ctx[x].task = "none"
              /\ Update(x, [Fresh EXCEPT !.task = "open", !.early = pending[c] \ {Placed(c)}])
    /\ UNCHANGED <<ref, screen, orphans, link, inbox, pending, replaced>>

(* The offer is opened: given up if a call has begun.                      *)
ResumeOpen(x) ==
    /\ ctx[x].task = "open" /\ x.made = "resumed"
    /\ IF ref[Owner(x)] # None
       THEN Update(x, [ctx[x] EXCEPT !.task = "over"])
       ELSE Update(x, [ctx[x] EXCEPT !.task = "admit"])
    /\ UNCHANGED <<ref, screen, orphans, link, inbox, pending, replaced, spent>>

(* Its candidates are opened, and it rings in the place of whatever has    *)
(* begun since.                                                            *)
ResumeAdmit(x) ==
    LET u == Owner(x)
    IN  /\ ctx[x].task = "admit" /\ x.made = "resumed"
        /\ replaced' = replaced \cup ({ref[u]} \ {None})
        /\ ref' = [ref EXCEPT ![u] = x]
        /\ Update(x, [ctx[x] EXCEPT !.task = "idle", !.parked = ctx[x].early, !.early = {}])
        /\ Ring(x)
        /\ UNCHANGED <<orphans, link>>

-----------------------------------------------------------------------------
(* What fails *)

Drop(u) ==
    /\ link[u] /\ Spend("drop")
    /\ link' = [link EXCEPT ![u] = FALSE]
    /\ inbox' = [inbox EXCEPT ![u] = <<>>]
    /\ UNCHANGED <<device, pending, replaced>>

Reconnect(u) ==
    /\ ~link[u]
    /\ link' = [link EXCEPT ![u] = TRUE]
    /\ UNCHANGED <<device, inbox, pending, replaced, spent>>

(* The page goes: memory, camera and socket with it, and nobody is told.   *)
Reload(u) ==
    /\ Spend("reload")
    /\ ctx' = [x \in Contexts |->
                 IF Owner(x) # u \/ ctx[x].task = "none" THEN ctx[x]
                 ELSE [Fresh EXCEPT !.task = "over", !.pc = closed(ctx[x]).pc]]
    /\ ref' = [ref EXCEPT ![u] = None]
    /\ screen' = [screen EXCEPT ![u] = IdleScreen]
    /\ orphans' = [orphans EXCEPT ![u] = {}]
    /\ link' = [link EXCEPT ![u] = FALSE]
    /\ inbox' = [inbox EXCEPT ![u] = <<>>]
    /\ UNCHANGED <<pending, replaced>>

(* CALL_TTL_SECONDS are over.                                              *)
Expire(c) ==
    /\ pending[c] # {} /\ Spend("expire")
    /\ pending' = [pending EXCEPT ![c] = {}]
    /\ UNCHANGED <<device, link, inbox, replaced>>

-----------------------------------------------------------------------------

TaskNext(x) ==
    \/ MediaReady(x) \/ Describe(x) \/ FlushOffer(x) \/ SendCard(x) \/ SendDescription(x)
    \/ OpenOffer(x) \/ AdmitOffer(x) \/ ResumeOpen(x) \/ ResumeAdmit(x)
    \/ SetAnswer(x) \/ FlushAnswer(x) \/ SendCandidate(x) \/ FailureRecorded(x)
FailNext(x) == startCallFails(x) \/ acceptCallFails(x) \/ OpenOfferFails(x)
ReceiveNext(u) ==
    \/ ReceiveOffer(u) \/ ReceiveCandidate(u) \/ ReceiveRinging(u)
    \/ ReceiveAnswer(u) \/ ReceiveEnd(u) \/ ReceiveOther(u)

Next ==
    \/ \E c \in Calls : startCall(c) \/ Expire(c)
    \/ \E u \in Users :
          \/ acceptCall(u) \/ endCall(u) \/ ReceiveNext(u)
          \/ Resume(u) \/ Drop(u) \/ Reconnect(u) \/ Reload(u)
    \/ \E x \in Contexts :
          \/ TaskNext(x) \/ FailNext(x) \/ Gather(x)
          \/ Connected(x) \/ ConnectionFailed(x) \/ Timeout(x)

Spec == Init /\ [][Next]_vars

(* Handlers go on, timers fire, WebRTC reports what became of a connection. *)
Fairness ==
    /\ \A x \in Contexts :
          /\ WF_vars(TaskNext(x)) /\ WF_vars(FailNext(x))
          /\ WF_vars(Timeout(x)) /\ WF_vars(ConnectionFailed(x))
    /\ \A u \in Users : WF_vars(ReceiveNext(u)) /\ WF_vars(Reconnect(u))

FairSpec == Spec /\ Fairness

-----------------------------------------------------------------------------
(* Correctness *)

Tasks == {"none", "media", "describe", "flush", "card", "seal", "done", "over",
          "open", "admit", "idle", "recording"}
Phases == {"idle", "preparing", "calling", "ringing", "incoming", "connecting", "active"}

(* Every variable stays in its type. *)
TypeOK ==
    /\ ref \in [Users -> Contexts \cup {None}]
    /\ \A x \in Contexts :
          /\ ctx[x].task \in Tasks /\ ctx[x].pc \in {"none", "open", "closed"}
          /\ ctx[x].capture => ctx[x].pc = "open"
          /\ ctx[x].parked \cup ctx[x].applied \subseteq Contexts
          /\ ctx[x].answering \in {"none", "open", "flush", "done"}
    /\ \A u \in Users : screen[u].phase \in Phases /\ orphans[u] \subseteq Contexts
    /\ \A c \in Calls : pending[c] \subseteq Contexts

(* A camera or microphone runs only for the call that can be ended, or for *)
(* one that a resumed call has replaced (useCall.js startCall: nothing     *)
(* leaves "an invisible capture running").                                 *)
NoInvisibleCapture ==
    \A x \in Contexts : ctx[x].capture => Current(x) \/ x \in replaced

(* A parked candidate is not forgotten: once the other end is described    *)
(* and the handler has flushed, none is left, whatever arrived while it    *)
(* waited (useCall.js flushCandidates and the ice-candidate branch).       *)
ParkedCandidatesAreFlushed ==
    \A x \in Contexts :
        \/ ctx[x].answering = "done" /\ ctx[x].described
        \/ x.made # "placed" /\ ctx[x].task \in {"seal", "done"}
        => ctx[x].parked = {}

FetchedToo(c) ==
    \A m \in {"pushed", "resumed"} : ctx[[call |-> c, made |-> m]].task # "none"

(* A call that is over never comes back on screen: whatever of its handler *)
(* still runs, beyond ringing the screen shows the call that can be ended. *)
(* The exception is an offer that was both pushed to the device and fetched. *)
ScreenFollowsTheCall ==
    \A u \in Users :
        screen[u].phase \notin {"idle", "incoming"}
        => \/ ref[u] # None /\ ref[u].call = screen[u].call
           \/ FetchedToo(screen[u].call)

Waiting(u) ==
    /\ screen[u].phase \in {"calling", "ringing", "connecting"}
    /\ ref[u] # None => ~ctx[ref[u]].active

(* The caller does not wait for ever: unanswered, it is told so            *)
(* (useCall.js scheduleConnectTimeout).                                    *)
CallingEnds ==
    \A u \in Users : Waiting(u) ~> ~Waiting(u) \/ FetchedToo(screen[u].call)

(* Nobody is left talking alone: who is in a call that the other end has   *)
(* left, by whatever loss or reload, gets out of it.                       *)
NobodyTalksAlone ==
    \A x \in Contexts : (ctx[x].active /\ Current(x) /\ FarEnds(x) = {}) ~> ~Current(x)

===========================================================================
