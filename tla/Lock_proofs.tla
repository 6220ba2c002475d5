------------------------------ MODULE Lock_proofs ------------------------------
(***************************************************************************)
(* Proofs about Lock, for any number of tabs, any leases and any clock.    *)
(* What a tab may look like (TabOK) and what it may remember (Remembers)   *)
(* are statements about one tab; an action changes one tab, or locks one   *)
(* and tells the others.                                                   *)
(***************************************************************************)
EXTENDS Lock, TLAPS

ChangeStates == [policy : Policies, token : Tokens]

TabStates ==
    [phase : {"loading", "locked", "ready"}, open : Times \cup {0}, armed : Times \cup {0},
     policy : Policies \cup {"none"}, call : BOOLEAN,
     task : {"none", "open", "unopened", "signIn", "begin", "refuse"},
     token : Tokens, changes : SUBSET ChangeStates, clearing : BOOLEAN, heard : BOOLEAN]

(* A page has keys while it is shown or about to be; which handler may run *)
(* in it follows from what it shows.                                       *)
TabOK(s) ==
    /\ s \in TabStates
    /\ s.phase = "locked" => s.task \in {"none", "begin"}
    /\ s.phase = "ready" => s.task = "none"
    /\ s.open # 0 <=> s.phase = "ready" \/ s.task \in {"signIn", "begin"}
    /\ s.task = "open" => s.token.openedAt # 0

(* All that a page remembers of a session's beginning is a time at which   *)
(* one began.                                                              *)
Remembers(s, times) ==
    /\ s.open \in times \cup {0} /\ s.token.openedAt \in times \cup {0}
    /\ \A change \in s.changes : change.token.openedAt \in times \cup {0}
    /\ s.phase = "ready" => s.armed = s.open

Shared ==
    /\ now \in Times /\ stored \in Policies /\ kind \in {"pin", "device"}
    /\ entered \subseteq Times
    /\ resume \in Tokens /\ resume.seed # "reference"

SessionInv == Shared /\ tab \in [Tabs -> TabStates] /\ \A t \in Tabs : TabOK(tab[t])

LeaseInv ==
    /\ resume.openedAt \in entered \cup {0}
    /\ \A t \in Tabs : Remembers(tab[t], entered)

-----------------------------------------------------------------------------
(* One tab *)

(* A step that changes one tab keeps what holds of every tab.              *)
LEMMA OneTab ==
    ASSUME SessionInv, NEW t \in Tabs, NEW s, TabOK(s), Put(t, s)
    PROVE  tab' \in [Tabs -> TabStates] /\ \A u \in Tabs : TabOK(tab'[u])
BY DEF SessionInv, Put, TabOK

LEMMA OneMemory ==
    ASSUME SessionInv, LeaseInv, NEW t \in Tabs, NEW s, Put(t, s),
           entered \subseteq entered', Remembers(s, entered')
    PROVE  \A u \in Tabs : Remembers(tab'[u], entered')
BY DEF SessionInv, LeaseInv, Put, Remembers

(* What goes on once a token was stored or cleared.                        *)
LEMMA GoOnOK ==
    ASSUME NEW s, TabOK(s)
    PROVE  TabOK(goOn(s))
<1>1. CASE s.token # NoToken \/ s.task \notin {"begin", "refuse"}
  BY <1>1 DEF goOn
<1>2. CASE s.token = NoToken /\ s.task = "begin"
  BY <1>2 DEF goOn, entering, TabOK, TabStates
<1>3. CASE s.token = NoToken /\ s.task = "refuse"
  BY <1>3 DEF goOn, unopened, TabOK, TabStates
<1> QED BY <1>1, <1>2, <1>3

LEMMA GoOnRemembers ==
    ASSUME NEW s, TabOK(s), NEW times, Remembers(s, times)
    PROVE  Remembers(goOn(s), times)
<1>1. CASE s.token # NoToken \/ s.task \notin {"begin", "refuse"}
  BY <1>1 DEF goOn
<1>2. CASE s.token = NoToken /\ s.task = "begin"
  BY <1>2 DEF goOn, entering, TabOK, TabStates, Remembers
<1>3. CASE s.token = NoToken /\ s.task = "refuse"
  BY <1>3 DEF goOn, unopened, TabOK, TabStates, Remembers
<1> QED BY <1>1, <1>2, <1>3

(* Closing a session leaves the changes what they were, with other seeds.  *)
LEMMA WipedOK ==
    ASSUME NEW change \in ChangeStates
    PROVE  wiped(change) \in ChangeStates /\ wiped(change).token.openedAt = change.token.openedAt
<1>1. CASE change.token.seed = "reference"
  <2>1. change.token \in [openedAt : Times, seed : {"reference", "seed", "zeroes"}]
    BY <1>1 DEF ChangeStates, Tokens, NoToken
  <2> QED BY <1>1, <2>1 DEF wiped, ChangeStates, Tokens
<1>2. CASE change.token.seed # "reference"
  BY <1>2 DEF wiped
<1> QED BY <1>1, <1>2

LEMMA ClosedOK ==
    ASSUME NEW s, TabOK(s)
    PROVE  {wiped(change) : change \in s.changes} \subseteq ChangeStates
<1>1. s.changes \subseteq ChangeStates
  BY DEF TabOK, TabStates
<1> QED BY <1>1, WipedOK

(* ... and no time that the page did not remember.                         *)
LEMMA ClosedRemembers ==
    ASSUME NEW s, TabOK(s), NEW times, Remembers(s, times)
    PROVE  \A change \in {wiped(c) : c \in s.changes} : change.token.openedAt \in times \cup {0}
<1>1. s.changes \subseteq ChangeStates
  BY DEF TabOK, TabStates
<1> QED BY <1>1, WipedOK DEF Remembers

(* A lock leaves no keys, whatever handler is under way.                   *)
LEMMA LockOK ==
    ASSUME NEW s, TabOK(s), s.phase = "ready"
    PROVE  TabOK(lock(s))
BY ClosedOK DEF lock, endSession, closeSession, TabOK, TabStates

LEMMA LockRemembers ==
    ASSUME NEW s, TabOK(s), NEW times, Remembers(s, times)
    PROVE  Remembers(lock(s), times)
BY ClosedRemembers DEF lock, endSession, closeSession, TabOK, TabStates, Remembers

(* What a session is sealed into.                                          *)
LEMMA SealingToken ==
    ASSUME NEW openedAt \in Times, NEW policy
    PROVE  sealing(openedAt, policy) \in Tokens
           /\ sealing(openedAt, policy).openedAt \in {openedAt, 0}
BY DEF sealing, Tokens, NoToken

(* A session that begins is sealed, or its token is on its way out.        *)
LEMMA BeginningOK ==
    ASSUME NEW s, TabOK(s), s.phase # "ready", NEW policy, SessionInv
    PROVE  TabOK([adopt(s, now) EXCEPT !.task = "begin", !.token = sealing(now, policy),
                                       !.clearing = @ \/ policy = "always"])
<1>1. now \in Times /\ now # 0
  BY LeaseAssumption DEF SessionInv, Shared, Times
<1>2. sealing(now, policy) \in Tokens
  BY <1>1, SealingToken
<1>3. (s.clearing \/ policy = "always") \in BOOLEAN
  OBVIOUS
<1> QED BY <1>1, <1>2, <1>3, ClosedOK DEF adopt, closeSession, TabOK, TabStates

LEMMA BeginningRemembers ==
    ASSUME SessionInv, NEW s, TabOK(s), s.phase # "ready", NEW policy, NEW times,
           Remembers(s, times), now \in times
    PROVE  Remembers([adopt(s, now) EXCEPT !.task = "begin", !.token = sealing(now, policy),
                                           !.clearing = @ \/ policy = "always"], times)
<1>1. sealing(now, policy).openedAt \in {now, 0}
  BY SealingToken DEF SessionInv, Shared
<1> QED BY <1>1, ClosedRemembers DEF adopt, closeSession, TabOK, TabStates, Remembers

(* A policy is shown, and nothing else of a page changes that matters.     *)
LEMMA ShowsOK ==
    ASSUME NEW s, TabOK(s), NEW policy \in Policies
    PROVE  TabOK(shows(s, policy)) /\ shows(s, policy).changes = s.changes
           /\ shows(s, policy).open = s.open
BY DEF shows, TabOK, TabStates

LEMMA ShowsRemembers ==
    ASSUME NEW s, TabOK(s), NEW policy, NEW times, Remembers(s, times)
    PROVE  Remembers(shows(s, policy), times)
BY DEF shows, TabOK, TabStates, Remembers

(* Other changes under way leave a page what it is.                        *)
LEMMA ChangesOK ==
    ASSUME NEW s, TabOK(s), NEW changes \in SUBSET ChangeStates
    PROVE  TabOK([s EXCEPT !.changes = changes])
BY DEF TabOK, TabStates

LEMMA ChangesRemembers ==
    ASSUME NEW s, TabOK(s), NEW changes, NEW times, Remembers(s, times),
           \A change \in changes : change.token.openedAt \in times \cup {0}
    PROVE  Remembers([s EXCEPT !.changes = changes], times)
BY DEF TabOK, TabStates, Remembers

-----------------------------------------------------------------------------
(* The steps keep what holds of the pages *)

LEMMA SessionInit == Init => SessionInv
<1>1. TabOK(Loaded)
  BY DEF Loaded, NoToken, Tokens, TabOK, TabStates
<1>2. 1 \in Times
  BY LeaseAssumption DEF Times
<1> QED
  BY <1>1, <1>2, KindsAssumption DEF Init, SessionInv, Shared, TabOK, Tokens, NoToken

(* A session begins in a page that shows no chats.                         *)
LEMMA BeginSession ==
    ASSUME SessionInv, NEW t \in Tabs, NEW policy, tab[t].phase # "ready",
           beginSession(t, policy)
    PROVE  SessionInv'
<1> DEFINE n == [adopt(tab[t], now) EXCEPT !.task = "begin", !.token = sealing(now, policy),
                                         !.clearing = @ \/ policy = "always"]
<1>1. TabOK(n)
  BY BeginningOK DEF SessionInv
<1>2. Put(t, n)
  BY DEF beginSession
<1> HIDE DEF n
<1>3. tab' \in [Tabs -> TabStates] /\ \A u \in Tabs : TabOK(tab'[u])
  BY <1>1, <1>2, OneTab
<1> QED BY <1>3 DEF beginSession, SessionInv, Shared, TabOK

(* A launch: the token is read, opened or refused, and an account without  *)
(* a PIN goes on without one.                                              *)
LEMMA LaunchSession ==
    ASSUME SessionInv, NEW t \in Tabs,
           openResume(t) \/ restoreSession(t) \/ OpenFails(t) \/ openUnsecuredSession(t) \/ Boot(t)
    PROVE  SessionInv'
<1> DEFINE s == tab[t]
<1>1. TabOK(s)
  BY DEF SessionInv
<1>2. NoToken \in Tokens
  BY DEF Tokens
<1>3. CASE openResume(t)
  <2>1. stored \in Policies /\ resume \in Tokens
    BY DEF SessionInv, Shared
  <2> DEFINE p == [s EXCEPT !.policy = stored]
             n == IF stored # "always" /\ resume = NoToken THEN unopened(p)
                  ELSE IF canResumeSession(stored, resume.openedAt)
                  THEN [p EXCEPT !.task = "open", !.token = resume]
                  ELSE [p EXCEPT !.task = "refuse", !.clearing = TRUE]
  <2>2. TabOK(unopened(p))
    BY <1>1, <1>3, <2>1 DEF openResume, unopened, TabOK, TabStates
  <2>3. TabOK([p EXCEPT !.task = "refuse", !.clearing = TRUE])
    BY <1>1, <1>3, <2>1 DEF openResume, TabOK, TabStates
  <2>4. ASSUME canResumeSession(stored, resume.openedAt)
        PROVE  TabOK([p EXCEPT !.task = "open", !.token = resume])
    <3>1. resume.openedAt # 0
      BY <2>4 DEF canResumeSession
    <3> QED BY <1>1, <1>3, <2>1, <3>1 DEF openResume, TabOK, TabStates
  <2>5. TabOK(n)
    BY <2>2, <2>3, <2>4
  <2>6. Put(t, n)
    BY <1>3 DEF openResume
  <2> HIDE DEF n
  <2>7. tab' \in [Tabs -> TabStates] /\ \A u \in Tabs : TabOK(tab'[u])
    BY <2>5, <2>6, OneTab
  <2> QED BY <1>3, <2>7 DEF openResume, SessionInv, Shared, TabOK
<1>4. CASE restoreSession(t)
  <2> DEFINE n == [adopt(s, s.token.openedAt) EXCEPT !.task = "signIn", !.token = NoToken]
  <2>1. s.token.openedAt \in Times
    BY <1>1, <1>4 DEF restoreSession, TabOK, TabStates, Tokens, NoToken
  <2>2. TabOK(n)
    BY <1>1, <1>2, <1>4, <2>1, ClosedOK DEF restoreSession, adopt, closeSession, TabOK, TabStates, Times
  <2>3. Put(t, n)
    BY <1>4 DEF restoreSession
  <2> HIDE DEF n
  <2>4. tab' \in [Tabs -> TabStates] /\ \A u \in Tabs : TabOK(tab'[u])
    BY <2>2, <2>3, OneTab
  <2> QED BY <1>4, <2>4 DEF restoreSession, SessionInv, Shared, TabOK
<1>5. CASE OpenFails(t)
  <2> DEFINE n == [s EXCEPT !.task = "refuse", !.token = NoToken, !.clearing = TRUE]
  <2>1. TabOK(n)
    BY <1>1, <1>2, <1>5 DEF OpenFails, TabOK, TabStates
  <2>2. Put(t, n)
    BY <1>5 DEF OpenFails
  <2> HIDE DEF n
  <2>3. tab' \in [Tabs -> TabStates] /\ \A u \in Tabs : TabOK(tab'[u])
    BY <2>1, <2>2, OneTab
  <2> QED BY <1>5, <2>3 DEF OpenFails, SessionInv, Shared, TabOK
<1>6. CASE openUnsecuredSession(t)
  <2>1. s.phase = "loading" /\ s.task = "unopened"
    BY <1>1, <1>6 DEF openUnsecuredSession, TabOK, TabStates
  <2>2. CASE beginSession(t, s.policy)
    BY <1>1, <2>1, <2>2, BeginSession
  <2>3. CASE ~beginSession(t, s.policy)
    <3> DEFINE n == [s EXCEPT !.task = "none", !.phase = "locked"]
    <3>1. TabOK(n)
      BY <1>1, <2>1 DEF TabOK, TabStates
    <3>2. Put(t, n) /\ UNCHANGED <<now, stored, kind, resume, entered>>
      BY <1>6, <2>3 DEF openUnsecuredSession
    <3> HIDE DEF n
    <3>3. tab' \in [Tabs -> TabStates] /\ \A u \in Tabs : TabOK(tab'[u])
      BY <3>1, <3>2, OneTab
    <3> QED BY <3>2, <3>3 DEF SessionInv, Shared, TabOK
  <2> QED BY <2>2, <2>3
<1>7. CASE Boot(t)
  <2> DEFINE n == [s EXCEPT !.phase = "ready", !.armed = s.open, !.task = "none"]
  <2>1. TabOK(n)
    BY <1>1, <1>7 DEF Boot, TabOK, TabStates
  <2>2. Put(t, n)
    BY <1>7 DEF Boot
  <2> HIDE DEF n
  <2>3. tab' \in [Tabs -> TabStates] /\ \A u \in Tabs : TabOK(tab'[u])
    BY <2>1, <2>2, OneTab
  <2> QED BY <1>7, <2>3 DEF Boot, SessionInv, Shared, TabOK
<1> QED BY <1>3, <1>4, <1>5, <1>6, <1>7

(* The token is encrypted, stored or cleared.                              *)
LEMMA TokenSession ==
    ASSUME SessionInv, NEW t \in Tabs, sealResume(t) \/ Sealed(t) \/ clearResume(t)
    PROVE  SessionInv'
<1> DEFINE s == tab[t]
<1>1. TabOK(s) /\ s.token \in Tokens
  BY DEF SessionInv, TabOK, TabStates
<1>2. NoToken \in Tokens /\ NoToken.seed = "none"
  BY DEF Tokens, NoToken
<1>3. CASE sealResume(t)
  <2> DEFINE n == [s EXCEPT !.token.seed = "seed"]
  <2>1. s.token \in [openedAt : Times, seed : {"reference", "seed", "zeroes"}]
    BY <1>1, <1>2, <1>3 DEF sealResume, Tokens
  <2>2. n.token \in Tokens /\ n.token.openedAt = s.token.openedAt
    BY <1>1, <2>1 DEF Tokens, TabOK, TabStates
  <2>3. TabOK(n)
    BY <1>1, <2>2 DEF TabOK, TabStates
  <2>4. Put(t, n)
    BY <1>3 DEF sealResume
  <2> HIDE DEF n
  <2>5. tab' \in [Tabs -> TabStates] /\ \A u \in Tabs : TabOK(tab'[u])
    BY <2>3, <2>4, OneTab
  <2> QED BY <1>3, <2>5 DEF sealResume, SessionInv, Shared, TabOK
<1>4. CASE Sealed(t)
  <2> DEFINE n == goOn([s EXCEPT !.token = NoToken])
  <2>1. TabOK([s EXCEPT !.token = NoToken])
    BY <1>1, <1>2, <1>4 DEF Sealed, TabOK, TabStates
  <2>2. TabOK(n)
    BY <2>1, GoOnOK
  <2>3. Put(t, n)
    BY <1>4 DEF Sealed
  <2> HIDE DEF n
  <2>4. tab' \in [Tabs -> TabStates] /\ \A u \in Tabs : TabOK(tab'[u])
    BY <2>2, <2>3, OneTab
  <2>5. resume' \in Tokens /\ resume'.seed # "reference"
    BY <1>1, <1>2, <1>4 DEF Sealed
  <2> QED BY <1>4, <2>4, <2>5 DEF Sealed, SessionInv, Shared, TabOK
<1>5. CASE clearResume(t)
  <2> DEFINE n == goOn([s EXCEPT !.clearing = FALSE])
  <2>1. TabOK([s EXCEPT !.clearing = FALSE])
    BY <1>1 DEF TabOK, TabStates
  <2>2. TabOK(n)
    BY <2>1, GoOnOK
  <2>3. Put(t, n)
    BY <1>5 DEF clearResume
  <2> HIDE DEF n
  <2>4. tab' \in [Tabs -> TabStates] /\ \A u \in Tabs : TabOK(tab'[u])
    BY <2>2, <2>3, OneTab
  <2> QED BY <1>2, <1>5, <2>4 DEF clearResume, SessionInv, Shared, TabOK
<1> QED BY <1>3, <1>4, <1>5

(* A change of policy is encrypted, or stored and shown.                   *)
LEMMA ChangeSession ==
    ASSUME SessionInv, NEW t \in Tabs, NEW change \in tab[t].changes,
           sealChange(t, change) \/ applied(t, change)
    PROVE  SessionInv'
<1> DEFINE s == tab[t]
<1>1. TabOK(s) /\ s.changes \subseteq ChangeStates /\ change \in ChangeStates
  BY DEF SessionInv, TabOK, TabStates
<1>2. CASE sealChange(t, change)
  <2> DEFINE sealed == [change EXCEPT !.token.seed = "seed"]
             changes == (s.changes \ {change}) \cup {sealed}
             n == [s EXCEPT !.changes = changes]
  <2>1. change.token \in [openedAt : Times, seed : {"reference", "seed", "zeroes"}]
    BY <1>1, <1>2 DEF sealChange, ChangeStates, Tokens, NoToken
  <2>2. sealed \in ChangeStates
    BY <1>1, <2>1 DEF ChangeStates, Tokens
  <2>3. changes \in SUBSET ChangeStates
    BY <1>1, <2>2
  <2>4. Put(t, n)
    BY <1>2 DEF sealChange
  <2> HIDE DEF changes
  <2>5. TabOK(n)
    BY <1>1, <2>3, ChangesOK
  <2> HIDE DEF n
  <2>6. tab' \in [Tabs -> TabStates] /\ \A u \in Tabs : TabOK(tab'[u])
    BY <2>4, <2>5, OneTab
  <2> QED BY <1>2, <2>6 DEF sealChange, SessionInv, Shared, TabOK
<1>3. CASE applied(t, change)
  <2> DEFINE left == [s EXCEPT !.changes = s.changes \ {change}]
             n == shows(left, change.policy)
  <2>1. TabOK(left)
    BY <1>1, ChangesOK
  <2>2. change.policy \in Policies /\ change.token \in Tokens
    BY <1>1 DEF ChangeStates
  <2>3. Put(t, n)
    BY <1>3 DEF applied
  <2> HIDE DEF left
  <2>4. TabOK(n)
    BY <2>1, <2>2, ShowsOK
  <2> HIDE DEF n
  <2>5. tab' \in [Tabs -> TabStates] /\ \A u \in Tabs : TabOK(tab'[u])
    BY <2>3, <2>4, OneTab
  <2>6. resume' \in Tokens /\ resume'.seed # "reference"
    BY <1>3, <2>2 DEF applied, Tokens, NoToken
  <2> QED BY <1>3, <2>5, <2>6 DEF applied, SessionInv, Shared, TabOK
<1> QED BY <1>2, <1>3

(* A page locks: by hand, for another page, or by itself, telling others.  *)
LEMMA LockSession ==
    ASSUME SessionInv, NEW t \in Tabs, LockTimber(t) \/ HearLock(t) \/ AutoLock(t)
    PROVE  SessionInv'
<1>1. TabOK(lock(tab[t]))
  BY LockOK DEF SessionInv, LockTimber, HearLock, AutoLock, Enabled
<1>2. CASE LockTimber(t) \/ HearLock(t)
  <2>1. Put(t, lock(tab[t])) /\ UNCHANGED <<now, stored, kind, resume, entered>>
    BY <1>2 DEF LockTimber, HearLock
  <2>2. tab' \in [Tabs -> TabStates] /\ \A u \in Tabs : TabOK(tab'[u])
    BY <1>1, <2>1, OneTab
  <2> QED BY <2>1, <2>2 DEF SessionInv, Shared, TabOK
<1>3. CASE AutoLock(t)
  <2> DEFINE n(u) == IF u = t THEN lock(tab[t])
                     ELSE [tab[u] EXCEPT !.heard = @ \/ announced(t)[u]]
  <2>1. ASSUME NEW u \in Tabs PROVE TabOK(n(u))
    <3>1. CASE u = t
      BY <1>1, <3>1
    <3>2. CASE u # t
      <4>1. TabOK(tab[u])
        BY DEF SessionInv
      <4>2. (tab[u].heard \/ announced(t)[u]) \in BOOLEAN
        OBVIOUS
      <4> QED BY <3>2, <4>1, <4>2 DEF TabOK, TabStates
    <3> QED BY <3>1, <3>2
  <2>2. tab' = [u \in Tabs |-> n(u)] /\ UNCHANGED <<now, stored, kind, resume, entered>>
    BY <1>3 DEF AutoLock
  <2> HIDE DEF n
  <2>3. tab' \in [Tabs -> TabStates] /\ \A u \in Tabs : TabOK(tab'[u])
    BY <2>1, <2>2 DEF TabOK
  <2> QED BY <2>2, <2>3 DEF SessionInv, Shared, TabOK
<1> QED BY <1>2, <1>3

(* What the user does in an open page, and a reload.                       *)
LEMMA PageSession ==
    ASSUME SessionInv, NEW t \in Tabs,
           \/ Unlock(t) \/ secureVaultWithPin(t) \/ setCallActive(t) \/ Reload(t)
           \/ \E policy \in Policies : applyLockPolicy(t, policy)
    PROVE  SessionInv'
<1>1. TabOK(tab[t])
  BY DEF SessionInv
<1>2. CASE Unlock(t)
  BY <1>2, BeginSession DEF Unlock
<1>3. CASE secureVaultWithPin(t)
  BY <1>3 DEF secureVaultWithPin, SessionInv, Shared, TabOK
<1>4. CASE setCallActive(t)
  <2> DEFINE n == [tab[t] EXCEPT !.call = ~@, !.heard = FALSE]
  <2>1. TabOK(n)
    BY <1>1 DEF TabOK, TabStates
  <2>2. Put(t, n)
    BY <1>4 DEF setCallActive
  <2> HIDE DEF n
  <2>3. tab' \in [Tabs -> TabStates] /\ \A u \in Tabs : TabOK(tab'[u])
    BY <2>1, <2>2, OneTab
  <2> QED BY <1>4, <2>3 DEF setCallActive, SessionInv, Shared, TabOK
<1>5. CASE Reload(t)
  <2>1. TabOK(Loaded)
    BY DEF Loaded, NoToken, Tokens, TabOK, TabStates
  <2>2. tab' \in [Tabs -> TabStates] /\ \A u \in Tabs : TabOK(tab'[u])
    BY <1>5, <2>1, OneTab DEF Reload
  <2> QED BY <1>5, <2>2 DEF Reload, SessionInv, Shared, TabOK
<1>6. ASSUME NEW policy \in Policies, applyLockPolicy(t, policy) PROVE SessionInv'
  <2> DEFINE p == shows(tab[t], policy)
             changes == p.changes \cup {[policy |-> policy, token |-> sealing(tab[t].open, policy)]}
             n == [p EXCEPT !.changes = changes]
  <2>1. tab[t].open \in Times /\ tab[t].changes \subseteq ChangeStates
    BY <1>1, <1>6 DEF applyLockPolicy, TabOK, TabStates
  <2>2. sealing(tab[t].open, policy) \in Tokens
    BY <2>1, SealingToken
  <2>3. TabOK(p) /\ p.changes = tab[t].changes
    BY <1>1, ShowsOK
  <2>4. changes \in SUBSET ChangeStates
    BY <2>1, <2>2, <2>3 DEF ChangeStates
  <2>5. Put(t, n)
    BY <1>6 DEF applyLockPolicy
  <2> HIDE DEF p, changes
  <2>6. TabOK(n)
    BY <2>3, <2>4, ChangesOK
  <2> HIDE DEF n
  <2>7. tab' \in [Tabs -> TabStates] /\ \A u \in Tabs : TabOK(tab'[u])
    BY <2>6, <2>5, OneTab
  <2> QED BY <1>6, <2>7 DEF applyLockPolicy, SessionInv, Shared, TabOK
<1> QED BY <1>2, <1>3, <1>4, <1>5, <1>6

LEMMA SessionStep == SessionInv /\ [Next]_vars => SessionInv'
<1> SUFFICES ASSUME SessionInv, [Next]_vars PROVE SessionInv'
  OBVIOUS
<1>1. CASE UNCHANGED vars
  BY <1>1 DEF vars, SessionInv, Shared, TabOK
<1>2. CASE Tick
  BY <1>2, LeaseAssumption DEF Tick, SessionInv, Shared, TabOK, Times
<1>3. ASSUME NEW t \in Tabs, Handlers(t) PROVE SessionInv'
  BY <1>3, LaunchSession, TokenSession, ChangeSession DEF Handlers
<1>4. ASSUME NEW t \in Tabs,
             \/ Unlock(t) \/ secureVaultWithPin(t) \/ setCallActive(t) \/ Reload(t)
             \/ \E policy \in Policies : applyLockPolicy(t, policy)
      PROVE  SessionInv'
  BY <1>4, PageSession
<1>5. ASSUME NEW t \in Tabs, LockTimber(t) \/ HearLock(t) \/ AutoLock(t) PROVE SessionInv'
  BY <1>5, LockSession
<1> QED BY <1>1, <1>2, <1>3, <1>4, <1>5 DEF Next

(* The types of every page and of what the pages share, and which handler  *)
(* may run in which page, hold of every reachable state.                   *)
LEMMA SessionAlways == Spec => []SessionInv
BY SessionInit, SessionStep, PTL DEF Spec

(* Every variable stays in its type, and a reference to the seed is never  *)
(* what is stored (resume.ts sealResume).                                  *)
THEOREM TypeCorrect == Spec => []TypeOK
<1>1. SessionInv => TypeOK
  BY DEF SessionInv, Shared, TabOK, TabStates, ChangeStates, TypeOK
<1> QED BY <1>1, SessionAlways, PTL

(* A page has keys exactly while it is shown or about to be, for any number *)
(* of pages and however locks and the token's handlers interleave          *)
(* (session.ts closeSession, App.jsx lock).                                *)
THEOREM KeysAreWithTheScreen == Spec => []KeysFollowTheScreen
<1>1. SessionInv => KeysFollowTheScreen
  BY DEF SessionInv, TabOK, KeysFollowTheScreen
<1> QED BY <1>1, SessionAlways, PTL

-----------------------------------------------------------------------------
(* The steps keep what the pages remember *)

LEMMA LeaseInit == Init => LeaseInv
BY DEF Init, LeaseInv, Remembers, Loaded, NoToken

LEMMA BeginLease ==
    ASSUME SessionInv, LeaseInv, NEW t \in Tabs, NEW policy, tab[t].phase # "ready",
           beginSession(t, policy)
    PROVE  LeaseInv'
<1> DEFINE n == [adopt(tab[t], now) EXCEPT !.task = "begin", !.token = sealing(now, policy),
                                         !.clearing = @ \/ policy = "always"]
<1>1. Remembers(tab[t], entered')
  BY DEF LeaseInv, Remembers, beginSession
<1>2. Remembers(n, entered')
  BY <1>1, BeginningRemembers DEF SessionInv, beginSession
<1>3. Put(t, n) /\ entered' = entered \cup {now}
  BY DEF beginSession
<1> HIDE DEF n
<1>4. \A u \in Tabs : Remembers(tab'[u], entered')
  BY <1>2, <1>3, OneMemory
<1> QED BY <1>4 DEF beginSession, LeaseInv

LEMMA LaunchLease ==
    ASSUME SessionInv, LeaseInv, NEW t \in Tabs,
           openResume(t) \/ restoreSession(t) \/ OpenFails(t) \/ openUnsecuredSession(t) \/ Boot(t)
    PROVE  LeaseInv'
<1> DEFINE s == tab[t]
<1>1. TabOK(s) /\ Remembers(s, entered) /\ NoToken.openedAt = 0
  BY DEF SessionInv, LeaseInv, NoToken
<1>2. CASE openResume(t)
  <2> DEFINE p == [s EXCEPT !.policy = stored]
             n == IF stored # "always" /\ resume = NoToken THEN unopened(p)
                  ELSE IF canResumeSession(stored, resume.openedAt)
                  THEN [p EXCEPT !.task = "open", !.token = resume]
                  ELSE [p EXCEPT !.task = "refuse", !.clearing = TRUE]
  <2>1. Remembers(unopened(p), entered)
    BY <1>1 DEF unopened, TabOK, TabStates, Remembers
  <2>2. Remembers([p EXCEPT !.task = "refuse", !.clearing = TRUE], entered)
    BY <1>1 DEF TabOK, TabStates, Remembers
  <2>3. Remembers([p EXCEPT !.task = "open", !.token = resume], entered)
    BY <1>1 DEF TabOK, TabStates, Remembers, LeaseInv
  <2>4. Remembers(n, entered)
    BY <2>1, <2>2, <2>3
  <2>5. Put(t, n) /\ entered' = entered
    BY <1>2 DEF openResume
  <2> HIDE DEF n
  <2>6. \A u \in Tabs : Remembers(tab'[u], entered')
    BY <2>4, <2>5, OneMemory
  <2> QED BY <1>2, <2>6 DEF openResume, LeaseInv
<1>3. CASE restoreSession(t)
  <2> DEFINE n == [adopt(s, s.token.openedAt) EXCEPT !.task = "signIn", !.token = NoToken]
  <2>1. Remembers(n, entered)
    BY <1>1, <1>3, ClosedRemembers DEF restoreSession, adopt, closeSession, TabOK, TabStates, Remembers
  <2>2. Put(t, n) /\ entered' = entered
    BY <1>3 DEF restoreSession
  <2> HIDE DEF n
  <2>3. \A u \in Tabs : Remembers(tab'[u], entered')
    BY <2>1, <2>2, OneMemory
  <2> QED BY <1>3, <2>3 DEF restoreSession, LeaseInv
<1>4. CASE OpenFails(t)
  <2> DEFINE n == [s EXCEPT !.task = "refuse", !.token = NoToken, !.clearing = TRUE]
  <2>1. Remembers(n, entered)
    BY <1>1, <1>4 DEF OpenFails, TabOK, TabStates, Remembers
  <2>2. Put(t, n) /\ entered' = entered
    BY <1>4 DEF OpenFails
  <2> HIDE DEF n
  <2>3. \A u \in Tabs : Remembers(tab'[u], entered')
    BY <2>1, <2>2, OneMemory
  <2> QED BY <1>4, <2>3 DEF OpenFails, LeaseInv
<1>5. CASE openUnsecuredSession(t)
  <2>1. s.phase = "loading" /\ s.task = "unopened"
    BY <1>1, <1>5 DEF openUnsecuredSession, TabOK, TabStates
  <2>2. CASE beginSession(t, s.policy)
    BY <2>1, <2>2, BeginLease
  <2>3. CASE ~beginSession(t, s.policy)
    <3> DEFINE n == [s EXCEPT !.task = "none", !.phase = "locked"]
    <3>1. Remembers(n, entered)
      BY <1>1 DEF TabOK, TabStates, Remembers
    <3>2. Put(t, n) /\ UNCHANGED <<resume, entered>>
      BY <1>5, <2>3 DEF openUnsecuredSession
    <3> HIDE DEF n
    <3>3. \A u \in Tabs : Remembers(tab'[u], entered')
      BY <3>1, <3>2, OneMemory
    <3> QED BY <3>2, <3>3 DEF LeaseInv
  <2> QED BY <2>2, <2>3
<1>6. CASE Boot(t)
  <2> DEFINE n == [s EXCEPT !.phase = "ready", !.armed = s.open, !.task = "none"]
  <2>1. Remembers(n, entered)
    BY <1>1, <1>6 DEF Boot, TabOK, TabStates, Remembers
  <2>2. Put(t, n) /\ entered' = entered
    BY <1>6 DEF Boot
  <2> HIDE DEF n
  <2>3. \A u \in Tabs : Remembers(tab'[u], entered')
    BY <2>1, <2>2, OneMemory
  <2> QED BY <1>6, <2>3 DEF Boot, LeaseInv
<1> QED BY <1>2, <1>3, <1>4, <1>5, <1>6

LEMMA TokenLease ==
    ASSUME SessionInv, LeaseInv, NEW t \in Tabs, sealResume(t) \/ Sealed(t) \/ clearResume(t)
    PROVE  LeaseInv'
<1> DEFINE s == tab[t]
<1>1. TabOK(s) /\ Remembers(s, entered) /\ NoToken.openedAt = 0 /\ NoToken \in Tokens
  BY DEF SessionInv, LeaseInv, NoToken, Tokens
<1>2. CASE sealResume(t)
  <2> DEFINE n == [s EXCEPT !.token.seed = "seed"]
  <2>1. s.token \in [openedAt : Times, seed : {"reference", "seed", "zeroes"}]
    BY <1>1, <1>2 DEF sealResume, TabOK, TabStates, Tokens, NoToken
  <2>2. n.token.openedAt = s.token.openedAt /\ n.open = s.open /\ n.armed = s.armed
        /\ n.phase = s.phase /\ n.changes = s.changes
    BY <1>1, <2>1 DEF TabOK, TabStates
  <2>3. Remembers(n, entered)
    BY <1>1, <2>2 DEF Remembers
  <2>4. Put(t, n) /\ entered' = entered
    BY <1>2 DEF sealResume
  <2> HIDE DEF n
  <2>5. \A u \in Tabs : Remembers(tab'[u], entered')
    BY <2>3, <2>4, OneMemory
  <2> QED BY <1>2, <2>5 DEF sealResume, LeaseInv
<1>3. CASE Sealed(t)
  <2> DEFINE n == goOn([s EXCEPT !.token = NoToken])
  <2>1. TabOK([s EXCEPT !.token = NoToken]) /\ Remembers([s EXCEPT !.token = NoToken], entered)
    BY <1>1, <1>3 DEF Sealed, TabOK, TabStates, Remembers
  <2>2. Remembers(n, entered)
    BY <2>1, GoOnRemembers
  <2>3. Put(t, n) /\ entered' = entered
    BY <1>3 DEF Sealed
  <2> HIDE DEF n
  <2>4. \A u \in Tabs : Remembers(tab'[u], entered')
    BY <2>2, <2>3, OneMemory
  <2>5. resume'.openedAt \in entered \cup {0}
    BY <1>1, <1>3 DEF Sealed, Remembers
  <2> QED BY <2>3, <2>4, <2>5 DEF LeaseInv
<1>4. CASE clearResume(t)
  <2> DEFINE n == goOn([s EXCEPT !.clearing = FALSE])
  <2>1. TabOK([s EXCEPT !.clearing = FALSE]) /\ Remembers([s EXCEPT !.clearing = FALSE], entered)
    BY <1>1 DEF TabOK, TabStates, Remembers
  <2>2. Remembers(n, entered)
    BY <2>1, GoOnRemembers
  <2>3. Put(t, n) /\ entered' = entered
    BY <1>4 DEF clearResume
  <2> HIDE DEF n
  <2>4. \A u \in Tabs : Remembers(tab'[u], entered')
    BY <2>2, <2>3, OneMemory
  <2> QED BY <1>1, <1>4, <2>4 DEF clearResume, LeaseInv
<1> QED BY <1>2, <1>3, <1>4

LEMMA ChangeLease ==
    ASSUME SessionInv, LeaseInv, NEW t \in Tabs, NEW change \in tab[t].changes,
           sealChange(t, change) \/ applied(t, change)
    PROVE  LeaseInv'
<1> DEFINE s == tab[t]
<1>1. TabOK(s) /\ Remembers(s, entered) /\ change \in ChangeStates
      /\ s.changes \subseteq ChangeStates
  BY DEF SessionInv, LeaseInv, TabOK, TabStates
<1>2. change.token.openedAt \in entered \cup {0}
  BY <1>1 DEF Remembers
<1>3. CASE sealChange(t, change)
  <2> DEFINE sealed == [change EXCEPT !.token.seed = "seed"]
             changes == (s.changes \ {change}) \cup {sealed}
             n == [s EXCEPT !.changes = changes]
  <2>1. change.token \in [openedAt : Times, seed : {"reference", "seed", "zeroes"}]
    BY <1>1, <1>3 DEF sealChange, ChangeStates, Tokens, NoToken
  <2>2. sealed.token.openedAt = change.token.openedAt
    BY <1>1, <2>1 DEF ChangeStates
  <2> HIDE DEF sealed
  <2>3. \A c \in changes : c.token.openedAt \in entered \cup {0}
    BY <1>1, <1>2, <2>2 DEF Remembers
  <2>4. Put(t, n) /\ entered' = entered
    BY <1>3 DEF sealChange, sealed
  <2> HIDE DEF changes
  <2>5. Remembers(n, entered)
    BY <1>1, <2>3, ChangesRemembers
  <2> HIDE DEF n
  <2>6. \A u \in Tabs : Remembers(tab'[u], entered')
    BY <2>4, <2>5, OneMemory
  <2> QED BY <1>3, <2>6 DEF sealChange, LeaseInv
<1>4. CASE applied(t, change)
  <2> DEFINE left == [s EXCEPT !.changes = s.changes \ {change}]
             n == shows(left, change.policy)
  <2>1. TabOK(left)
    BY <1>1, ChangesOK
  <2>2. Remembers(left, entered)
    BY <1>1, ChangesRemembers DEF Remembers
  <2>3. Put(t, n) /\ entered' = entered
    BY <1>4 DEF applied
  <2> HIDE DEF left
  <2>4. Remembers(n, entered)
    BY <2>1, <2>2, ShowsRemembers
  <2> HIDE DEF n
  <2>5. \A u \in Tabs : Remembers(tab'[u], entered')
    BY <2>3, <2>4, OneMemory
  <2>6. resume'.openedAt \in entered \cup {0}
    BY <1>2, <1>4 DEF applied, NoToken
  <2> QED BY <2>3, <2>5, <2>6 DEF LeaseInv
<1> QED BY <1>3, <1>4

LEMMA LockLease ==
    ASSUME SessionInv, LeaseInv, NEW t \in Tabs, LockTimber(t) \/ HearLock(t) \/ AutoLock(t)
    PROVE  LeaseInv'
<1>1. \A u \in Tabs : TabOK(tab[u]) /\ Remembers(tab[u], entered)
  BY DEF SessionInv, LeaseInv
<1>2. Remembers(lock(tab[t]), entered)
  BY <1>1, LockRemembers
<1>3. CASE LockTimber(t) \/ HearLock(t)
  <2>1. Put(t, lock(tab[t])) /\ UNCHANGED <<resume, entered>>
    BY <1>3 DEF LockTimber, HearLock
  <2>2. \A u \in Tabs : Remembers(tab'[u], entered')
    BY <1>2, <2>1, OneMemory
  <2> QED BY <2>1, <2>2 DEF LeaseInv
<1>4. CASE AutoLock(t)
  <2>1. ASSUME NEW u \in Tabs, u # t
        PROVE  Remembers([tab[u] EXCEPT !.heard = @ \/ announced(t)[u]], entered)
    BY <1>1, <2>1 DEF TabOK, TabStates, Remembers
  <2>2. \A u \in Tabs : Remembers(tab'[u], entered)
    BY <1>2, <1>4, <2>1 DEF AutoLock
  <2> QED BY <1>4, <2>2 DEF AutoLock, LeaseInv
<1> QED BY <1>3, <1>4

LEMMA PageLease ==
    ASSUME SessionInv, LeaseInv, NEW t \in Tabs,
           \/ Unlock(t) \/ secureVaultWithPin(t) \/ setCallActive(t) \/ Reload(t)
           \/ \E policy \in Policies : applyLockPolicy(t, policy)
    PROVE  LeaseInv'
<1> DEFINE s == tab[t]
<1>1. TabOK(s) /\ Remembers(s, entered)
  BY DEF SessionInv, LeaseInv
<1>2. CASE Unlock(t)
  BY <1>2, BeginLease DEF Unlock
<1>3. CASE secureVaultWithPin(t)
  BY <1>3 DEF secureVaultWithPin, LeaseInv
<1>4. CASE setCallActive(t)
  <2> DEFINE n == [s EXCEPT !.call = ~@, !.heard = FALSE]
  <2>1. Remembers(n, entered)
    BY <1>1, <1>4 DEF setCallActive, TabOK, TabStates, Remembers
  <2>2. Put(t, n) /\ entered' = entered
    BY <1>4 DEF setCallActive
  <2> HIDE DEF n
  <2>3. \A u \in Tabs : Remembers(tab'[u], entered')
    BY <2>1, <2>2, OneMemory
  <2> QED BY <1>4, <2>3 DEF setCallActive, LeaseInv
<1>5. CASE Reload(t)
  <2>1. Remembers(Loaded, entered)
    BY DEF Loaded, NoToken, Remembers
  <2>2. \A u \in Tabs : Remembers(tab'[u], entered')
    BY <1>5, <2>1, OneMemory DEF Reload
  <2> QED BY <1>5, <2>2 DEF Reload, LeaseInv
<1>6. ASSUME NEW policy \in Policies, applyLockPolicy(t, policy) PROVE LeaseInv'
  <2> DEFINE p == shows(s, policy)
             changes == p.changes \cup {[policy |-> policy, token |-> sealing(s.open, policy)]}
             n == [p EXCEPT !.changes = changes]
  <2>1. s.open \in Times
    BY <1>1, <1>6 DEF applyLockPolicy, TabOK, TabStates
  <2>2. sealing(s.open, policy).openedAt \in entered \cup {0}
    BY <1>1, <2>1, SealingToken DEF Remembers
  <2>3. TabOK(p) /\ Remembers(p, entered)
    BY <1>1, ShowsOK, ShowsRemembers
  <2>4. \A change \in changes : change.token.openedAt \in entered \cup {0}
    BY <2>2, <2>3 DEF Remembers
  <2>5. Put(t, n) /\ entered' = entered
    BY <1>6 DEF applyLockPolicy
  <2> HIDE DEF p, changes
  <2>6. Remembers(n, entered)
    BY <2>3, <2>4, ChangesRemembers
  <2> HIDE DEF n
  <2>7. \A u \in Tabs : Remembers(tab'[u], entered')
    BY <2>5, <2>6, OneMemory
  <2> QED BY <1>6, <2>7 DEF applyLockPolicy, LeaseInv
<1> QED BY <1>2, <1>3, <1>4, <1>5, <1>6

LEMMA LeaseStep == SessionInv /\ LeaseInv /\ [Next]_vars => LeaseInv'
<1> SUFFICES ASSUME SessionInv, LeaseInv, [Next]_vars PROVE LeaseInv'
  OBVIOUS
<1>1. CASE UNCHANGED vars
  BY <1>1 DEF vars, LeaseInv
<1>2. CASE Tick
  BY <1>2 DEF Tick, LeaseInv
<1>3. ASSUME NEW t \in Tabs, Handlers(t) PROVE LeaseInv'
  BY <1>3, LaunchLease, TokenLease, ChangeLease DEF Handlers
<1>4. ASSUME NEW t \in Tabs,
             \/ Unlock(t) \/ secureVaultWithPin(t) \/ setCallActive(t) \/ Reload(t)
             \/ \E policy \in Policies : applyLockPolicy(t, policy)
      PROVE  LeaseInv'
  BY <1>4, PageLease
<1>5. ASSUME NEW t \in Tabs, LockTimber(t) \/ HearLock(t) \/ AutoLock(t) PROVE LeaseInv'
  BY <1>5, LockLease
<1> QED BY <1>1, <1>2, <1>3, <1>4, <1>5 DEF Next

(* No reload, sealed token or change of policy renews a lease: sessions,   *)
(* tokens and auto-locks go by times at which a PIN was entered or not     *)
(* needed, for any leases (session.ts reopenSession, resume.ts).           *)
THEOREM LeasesStartWithAPin == Spec => []LeaseIsNotRenewed
<1>1. SessionInv /\ LeaseInv => LeaseIsNotRenewed
  BY DEF LeaseInv, Remembers, LeaseIsNotRenewed
<1>2. Spec => [](SessionInv /\ LeaseInv)
  BY SessionInit, SessionStep, LeaseInit, LeaseStep, PTL DEF Spec
<1> QED BY <1>1, <1>2, PTL
===============================================================================
