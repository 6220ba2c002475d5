--------------------------------- MODULE Lock ---------------------------------
(***************************************************************************)
(* The unlocked session on one device: opened by a PIN, kept over a reload *)
(* by a sealed resume token, ended by the auto-lock policy, by hand, or by *)
(* a lock in another tab (crypto/session.ts, crypto/resume.ts,             *)
(* lib/lockSession.js, lib/lockPolicy.ts, hooks/useAutoLock.js, App.jsx).  *)
(*                                                                         *)
(* Keys live in the memory of a tab; the token and the policy are shared.  *)
(* Every wait for the database or for WebCrypto is a boundary between two  *)
(* actions.  An account without a PIN may be given one.  Time is counted   *)
(* in units of which a lease is a few, and never goes back; a device may   *)
(* sleep through any of them.                                              *)
(***************************************************************************)
EXTENDS Naturals, FiniteSets

CONSTANTS
    Tabs,      \* open pages of the app
    Policies,  \* the choices of Settings that are used
    Kinds,     \* the vaults the device may begin with
    Lease,     \* how long a policy keeps a session open, where it has a deadline
    MaxNow,    \* bound: the last time
    Choosers,  \* bound: the tabs in which a policy is chosen
    MaxChanges \* bound: the changes of policy that such a tab has under way

ASSUME PoliciesAssumption ==
    Policies \subseteq {"always", "twoHours", "week", "never"} /\ Policies # {}
ASSUME KindsAssumption == Kinds \subseteq {"pin", "device"} /\ Kinds # {}
ASSUME LeaseAssumption == Lease \in [{"twoHours", "week"} -> Nat \ {0}] /\ MaxNow \in Nat \ {0}
ASSUME ChangesAssumption == Choosers \subseteq Tabs /\ MaxChanges \in Nat

VARIABLES
    now,      \* the clock
    stored,   \* localStorage: the policy
    kind,     \* vault store: whether the vault has a PIN
    resume,   \* vault store: the token, when its PIN was entered and what it seals
    tab,      \* the tabs
    entered   \* history: the times at which a PIN was entered, or not needed

vars == <<now, stored, kind, resume, tab, entered>>

Times == 1..MaxNow
NoToken == [openedAt |-> 0, seed |-> "none"]

(* A page that has just been loaded: `open' is openedAt of the session, 0  *)
(* without one, `armed' the one that the auto-lock was armed with, and     *)
(* `changes' are the changes of policy under way, each with its token, or  *)
(* none if the old one is to be cleared; any that do the same are one.     *)
Loaded == [phase |-> "loading", open |-> 0, armed |-> 0, policy |-> "none", call |-> FALSE,
           task |-> "none", token |-> NoToken, changes |-> {},
           clearing |-> FALSE, heard |-> FALSE]

Init ==
    /\ now = 1
    /\ stored \in Policies
    /\ kind \in Kinds
    /\ resume = NoToken
    /\ tab = [t \in Tabs |-> Loaded]
    /\ entered = {}

Put(t, s) == tab' = [tab EXCEPT ![t] = s]

-----------------------------------------------------------------------------
(* The policy *)

sessionDeadline(policy, openedAt) == openedAt + Lease[policy]

canResumeSession(policy, openedAt) ==
    /\ policy # "always"
    /\ openedAt \in 1..now
    /\ policy \in DOMAIN Lease => now < sessionDeadline(policy, openedAt)

-----------------------------------------------------------------------------
(* The session of a tab *)

(* Mutant: the keys are kept.                                              *)
keepSession(s) == s

(* A change that waits for its key is left with a buffer of zeroes.        *)
wiped(change) ==
    IF change.token.seed = "reference" THEN [change EXCEPT !.token.seed = "zeroes"] ELSE change

closeSession(s) == [s EXCEPT !.open = 0, !.changes = {wiped(change) : change \in s.changes}]

(* Whatever was open is closed; a session is opened as of some time.       *)
adopt(s, startedAt) == [closeSession(s) EXCEPT !.open = startedAt]

(* Keys and token go together.                                             *)
endSession(s) == [closeSession(s) EXCEPT !.clearing = TRUE]

(* The token that a session is sealed into under a policy: none under      *)
(* "every launch".                                                         *)
sealing(openedAt, policy) ==
    IF policy = "always" THEN NoToken ELSE [openedAt |-> openedAt, seed |-> "reference"]

(* A session as of now, and the token its policy allows.                   *)
beginSession(t, policy) ==
    /\ Put(t, [adopt(tab[t], now) EXCEPT !.task = "begin", !.token = sealing(now, policy),
                                         !.clearing = @ \/ policy = "always"])
    /\ entered' = entered \cup {now}
    /\ UNCHANGED <<now, stored, kind, resume>>

-----------------------------------------------------------------------------
(* A reload *)

(* Without a token restoreSession goes on to an account without a PIN.     *)
unopened(s) == [s EXCEPT !.task = "unopened"]

(* The token is read if the policy allows one; one that has outlived its   *)
(* lease is deleted.                                                       *)
openResume(t) ==
    /\ tab[t].phase = "loading" /\ tab[t].task = "none"
    /\ LET s == [tab[t] EXCEPT !.policy = stored]
       IN Put(t, IF stored # "always" /\ resume = NoToken THEN unopened(s)
                 ELSE IF canResumeSession(stored, resume.openedAt)
                 THEN [s EXCEPT !.task = "open", !.token = resume]
                 ELSE [s EXCEPT !.task = "refuse", !.clearing = TRUE])
    /\ UNCHANGED <<now, stored, kind, resume, entered>>

(* Mutant: a reload counts as an unlock.                                   *)
reopenSessionNow(t) ==
    /\ tab[t].task = "open"
    /\ Put(t, [adopt(tab[t], now) EXCEPT !.task = "signIn", !.token = NoToken])
    /\ UNCHANGED <<now, stored, kind, resume, entered>>

(* It is opened; the session goes on from the time of its PIN.             *)
restoreSession(t) ==
    /\ tab[t].task = "open"
    /\ Put(t, [adopt(tab[t], tab[t].token.openedAt) EXCEPT !.task = "signIn", !.token = NoToken])
    /\ UNCHANGED <<now, stored, kind, resume, entered>>

(* The browser cannot open it.                                             *)
OpenFails(t) ==
    /\ tab[t].task = "open"
    /\ Put(t, [tab[t] EXCEPT !.task = "refuse", !.token = NoToken, !.clearing = TRUE])
    /\ UNCHANGED <<now, stored, kind, resume, entered>>

(* An account without a PIN is opened as of now; one with a PIN, or one    *)
(* that cannot be read, has its lock screen.                               *)
openUnsecuredSession(t) ==
    /\ tab[t].task = "unopened"
    /\ \/ kind = "device" /\ beginSession(t, tab[t].policy)
       \/ /\ Put(t, [tab[t] EXCEPT !.task = "none", !.phase = "locked"])
          /\ UNCHANGED <<now, stored, kind, resume, entered>>

(* The app is entered when the relay has answered the sign-in, or has not. *)
Boot(t) ==
    /\ tab[t].task = "signIn"
    /\ Put(t, [tab[t] EXCEPT !.phase = "ready", !.armed = tab[t].open, !.task = "none"])
    /\ UNCHANGED <<now, stored, kind, resume, entered>>

-----------------------------------------------------------------------------
(* Unlocking and sealing *)

(* The PIN is right, after a scrypt that outlasts the delete of a lock; an *)
(* account without one takes any.                                          *)
Unlock(t) ==
    /\ tab[t].phase = "locked" /\ tab[t].task = "none" /\ ~tab[t].clearing
    /\ beginSession(t, stored)

(* SecureAccount or Settings: a PIN is set.                                *)
secureVaultWithPin(t) ==
    /\ tab[t].phase = "ready" /\ kind = "device"
    /\ kind' = "pin"
    /\ UNCHANGED <<now, stored, resume, tab, entered>>

(* setPolicy: another policy runs the effect of useAutoLock again, whose   *)
(* channel is closed with what it had not delivered, and opened anew.      *)
shows(s, policy) ==
    IF policy = s.policy THEN s ELSE [s EXCEPT !.policy = policy, !.heard = FALSE]

(* Settings: the choice is stored and shown at once, also while an earlier *)
(* one is under way.                                                       *)
applyLockPolicy(t, policy) ==
    /\ t \in Choosers /\ Cardinality(tab[t].changes) < MaxChanges
    /\ tab[t].phase = "ready" /\ policy # tab[t].policy
    /\ stored' = policy
    /\ Put(t, [shows(tab[t], policy) EXCEPT
                 !.changes = @ \cup {[policy |-> policy, token |-> sealing(tab[t].open, policy)]}])
    /\ UNCHANGED <<now, kind, resume, entered>>

(* sealResume has its key and encrypts what the seed's buffer holds.       *)
sealResume(t) ==
    /\ tab[t].token.seed = "reference"
    /\ Put(t, [tab[t] EXCEPT !.token.seed = "seed"])
    /\ UNCHANGED <<now, stored, kind, resume, entered>>

sealChange(t, change) ==
    /\ change \in tab[t].changes /\ change.token.seed = "reference"
    /\ Put(t, [tab[t] EXCEPT
                 !.changes = (@ \ {change}) \cup {[change EXCEPT !.token.seed = "seed"]}])
    /\ UNCHANGED <<now, stored, kind, resume, entered>>

(* The change is stored, or cleared where that is what fails, and its      *)
(* choice is shown again, whatever was chosen after it.                    *)
applied(t, change) ==
    /\ change \in tab[t].changes /\ change.token.seed # "reference"
    /\ resume' \in {change.token, NoToken}
    /\ Put(t, shows([tab[t] EXCEPT !.changes = @ \ {change}], change.policy))
    /\ UNCHANGED <<now, stored, kind, entered>>

(* After a PIN the app is entered, at launch once the relay has answered.  *)
entering(s) ==
    IF s.phase = "loading" THEN [s EXCEPT !.task = "signIn"]
    ELSE [s EXCEPT !.task = "none", !.phase = "ready", !.armed = s.open]

(* What waited for the token goes on.                                      *)
goOn(s) ==
    IF s.token # NoToken \/ s.task \notin {"begin", "refuse"} THEN s
    ELSE IF s.task = "begin" THEN entering(s)
    ELSE unopened(s)

(* It is stored, or cleared where that is what fails.                      *)
Sealed(t) ==
    /\ tab[t].task = "begin" /\ tab[t].token.seed = "seed"
    /\ resume' \in {tab[t].token, NoToken}
    /\ Put(t, goOn([tab[t] EXCEPT !.token = NoToken]))
    /\ UNCHANGED <<now, stored, kind, entered>>

clearResume(t) ==
    /\ tab[t].clearing
    /\ resume' = NoToken
    /\ Put(t, goOn([tab[t] EXCEPT !.clearing = FALSE]))
    /\ UNCHANGED <<now, stored, kind, entered>>

-----------------------------------------------------------------------------
(* Locking *)

(* useAutoLock stands down while a call is active, its channel closed.     *)
Enabled(s) == s.phase = "ready" /\ ~s.call

(* App.lock: keys, token and screen.                                       *)
lock(s) == [endSession(s) EXCEPT !.phase = "locked", !.armed = 0, !.heard = FALSE,
                                 !.call = FALSE]

(* The button: nobody else is told.                                        *)
LockTimber(t) ==
    /\ tab[t].phase = "ready"
    /\ Put(t, lock(tab[t]))
    /\ UNCHANGED <<now, stored, kind, resume, entered>>

(* Mutant: a lease has no timer.                                           *)
timesOutIdle(s) == s.policy \in {"always", "week"}

(* The timers: two hours have a deadline, however the page was opened; all *)
(* others but "never" lock a page that is idle or hidden.                  *)
timesOut(s) ==
    \/ s.policy \in {"always", "week"}
    \/ s.policy = "twoHours" /\ now >= sessionDeadline(s.policy, s.armed)

(* The other tabs whose channel is open.                                   *)
announced(t) == [u \in Tabs |-> u # t /\ Enabled(tab[u])]

AutoLock(t) ==
    /\ Enabled(tab[t]) /\ timesOut(tab[t])
    /\ tab' = [u \in Tabs |-> IF u = t THEN lock(tab[t])
                              ELSE [tab[u] EXCEPT !.heard = @ \/ announced(t)[u]]]
    /\ UNCHANGED <<now, stored, kind, resume, entered>>

HearLock(t) ==
    /\ Enabled(tab[t]) /\ tab[t].heard
    /\ Put(t, lock(tab[t]))
    /\ UNCHANGED <<now, stored, kind, resume, entered>>

-----------------------------------------------------------------------------
(* Calls, reloads, time *)

setCallActive(t) ==
    /\ tab[t].phase = "ready"
    /\ Put(t, [tab[t] EXCEPT !.call = ~@, !.heard = FALSE])
    /\ UNCHANGED <<now, stored, kind, resume, entered>>

Reload(t) ==
    /\ tab[t].phase # "loading" \/ tab[t].task # "none"
    /\ Put(t, Loaded)
    /\ UNCHANGED <<now, stored, kind, resume, entered>>

Tick ==
    /\ now < MaxNow
    /\ now' = now + 1
    /\ UNCHANGED <<stored, kind, resume, tab, entered>>

-----------------------------------------------------------------------------

Handlers(t) ==
    \/ openResume(t) \/ restoreSession(t) \/ OpenFails(t) \/ openUnsecuredSession(t) \/ Boot(t)
    \/ sealResume(t) \/ Sealed(t) \/ clearResume(t)
    \/ \E change \in tab[t].changes : sealChange(t, change) \/ applied(t, change)

Next ==
    \/ Tick
    \/ \E t \in Tabs :
          \/ Handlers(t) \/ Unlock(t) \/ secureVaultWithPin(t)
          \/ \E policy \in Policies : applyLockPolicy(t, policy)
          \/ LockTimber(t) \/ AutoLock(t) \/ HearLock(t) \/ setCallActive(t) \/ Reload(t)

Spec == Init /\ [][Next]_vars

(* A timer that is due fires.                                              *)
Fairness == \A t \in Tabs : WF_vars(AutoLock(t))

FairSpec == Spec /\ Fairness

-----------------------------------------------------------------------------
(* Correctness *)

Tokens == [openedAt : Times, seed : {"reference", "seed", "zeroes"}] \cup {NoToken}

(* Every variable stays in its type, and what is sealed is never a         *)
(* reference to the seed.                                                  *)
TypeOK ==
    /\ now \in Times /\ stored \in Policies /\ kind \in {"pin", "device"} /\ entered \subseteq Times
    /\ resume \in Tokens /\ resume.seed # "reference"
    /\ \A t \in Tabs :
          /\ tab[t].phase \in {"loading", "locked", "ready"}
          /\ tab[t].task \in {"none", "open", "unopened", "signIn", "begin", "refuse"}
          /\ tab[t].token \in Tokens
          /\ tab[t].changes \subseteq [policy : Policies, token : Tokens]
          /\ {tab[t].open, tab[t].armed} \subseteq Times \cup {0}

(* The keys are in memory exactly while the app is shown, or is about to   *)
(* be: no lock leaves them behind, however the token's handlers interleave *)
(* with it, and no page is shown without them (crypto/session.ts           *)
(* closeSession, App.jsx lock and enter).                                  *)
KeysFollowTheScreen ==
    \A t \in Tabs :
        tab[t].open # 0 <=> tab[t].phase = "ready" \/ tab[t].task \in {"signIn", "begin"}

(* Nothing but a PIN, or a launch that needs none, starts a lease: however *)
(* often the page is reloaded, the policy changed or the token sealed      *)
(* again, session, token and auto-lock go by such a time (session.ts:      *)
(* "what stops a reload from silently renewing a two-hour lease").         *)
LeaseIsNotRenewed ==
    /\ {resume.openedAt} \subseteq entered \cup {0}
    /\ \A t \in Tabs :
          /\ {tab[t].open, tab[t].token.openedAt} \subseteq entered \cup {0}
          /\ \A change \in tab[t].changes : change.token.openedAt \in entered \cup {0}
          /\ tab[t].phase = "ready" => tab[t].armed = tab[t].open

Overdue(t) ==
    /\ Enabled(tab[t]) /\ tab[t].policy = "twoHours"
    /\ now >= sessionDeadline("twoHours", tab[t].open)

(* Two hours after its PIN a page locks, also one that was reloaded or     *)
(* that has slept through the end (useAutoLock.js, the lease and its       *)
(* visibility check), unless a call or another choice is made.             *)
LeaseEnds == \A t \in Tabs : Overdue(t) ~> ~Overdue(t)

-----------------------------------------------------------------------------
(* What comments say and the code does not do *)

(* A week is a week (lockPolicy.ts lockPolicyDescription: "PIN once a week *)
(* -- reloads included").                                                  *)
WeekLastsAWeek ==
    [][\A t \in Tabs :
          /\ Enabled(tab[t]) /\ tab[t].policy = "week" /\ AutoLock(t)
          => now >= sessionDeadline("week", tab[t].open)]_vars

(* After a lock the next load asks for the PIN (App.jsx lock): a token     *)
(* appears only for a session that is open.                                *)
LockDropsTheToken ==
    [][resume' # NoToken => resume' = resume \/ \E t \in Tabs : resume'.openedAt = tab[t].open]_vars

(* "the setting cannot show one thing and mean another" (useLockPolicy.js: *)
(* 11-12), for one tab: with no change under way it shows what is stored.  *)
SettingMeansWhatItShows ==
    \A t \in Tabs : tab[t].phase = "ready" /\ tab[t].changes = {} => tab[t].policy = stored

(* "a lock from another open tab still wipes this session" (useAutoLock.js: *)
(* 42-43): the message is not lost while the page is open.                 *)
LocksAreHeard == [][\A t \in Tabs : tab[t].heard /\ ~tab[t]'.heard => tab[t]'.phase # "ready"]_vars
===============================================================================
