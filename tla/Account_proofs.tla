---------------------------- MODULE Account_proofs ----------------------------
(***************************************************************************)
(* Proofs about Account, for any tabs, any accounts and any number of      *)
(* attempts.  A step changes one tab and, at most, the vault, the waiting  *)
(* signup and what the relay knows; OneTab says what has then to be shown. *)
(***************************************************************************)
EXTENDS Account, TLAPS

Ops == {"none", "username", "stage", "staged", "ask", "retry", "register", "finish", "restore",
        "guess", "wrap", "wrapped", "phrase", "confirmed", "refresh", "put"}
Whys == {"none", "enter", "reveal", "change", "secure", "reset", "show", "hide", "arm", "disarm"}

TabStates ==
    [phase : {"loading", "onboarding", "locked", "ready"}, session : Accounts \cup {None},
     op : Ops, account : Accounts \cup {None}, read : Records \cup {None}, why : Whys,
     secured : BOOLEAN]

SigningUp == {"staged", "ask", "retry", "register", "finish"}
Registered == {"finish", "restore", "guess", "wrap", "wrapped", "phrase", "confirmed"}

(* A handler works for a phrase that was made and, once it is past the     *)
(* relay, for an account that is registered; what it will put back it has  *)
(* read.                                                                   *)
TabOK(s, known, made) ==
    /\ s \in TabStates
    /\ s.account # None => s.account \in made
    /\ s.read # None => s.read.account \in known
    /\ s.op \in Registered => s.account \in known
    /\ s.op \in {"username", "stage"} \cup SigningUp => s.account # None
    /\ s.op \in {"guess", "put"} => s.read # None
    /\ s.op = "guess" /\ s.read.kind = "pin" => s.read.attempts < MaxAttempts

(* Past onboarding there is a vault, and it has been read.                 *)
Past == {"guess", "wrap", "wrapped", "phrase", "confirmed", "refresh", "put"}

HasVault(s, v) ==
    /\ s.phase \in {"locked", "ready"} \/ s.op \in Past => v # None
    /\ s.op = "wrapped" => s.read # None

Held(a, v, p) == (v # None /\ v.account = a) \/ p = a

(* A signup under way has its keys on the device, and everything else a    *)
(* handler has in hand is of the account of the vault.                     *)
SameAccount(s, v, p) ==
    /\ s.session # None => v # None /\ v.account = s.session
    /\ s.op \in SigningUp => Held(s.account, v, p)
    /\ s.read # None => v # None /\ s.read.account = v.account
    /\ \/ s.op \in {"guess", "phrase", "confirmed"}
       \/ s.op \in {"wrap", "wrapped"} /\ s.why # "reset"
       => s.account = v.account

Device ==
    /\ vault \in Records \cup {None} /\ pending \in Accounts \cup {None}
    /\ Elsewhere \subseteq server /\ server \subseteq minted /\ minted \subseteq Accounts
    /\ backedUp \subseteq server
    /\ erased \in BOOLEAN /\ mistaken \in BOOLEAN
    /\ vault # None => vault.account \in server
    /\ pending # None => pending \in minted

Inv ==
    /\ Device
    /\ NoSignupIsStranded /\ KeysAreKept
    /\ tab \in [Tabs -> TabStates]
    /\ \A t \in Tabs : TabOK(tab[t], server, minted)
    /\ ~erased => \A t \in Tabs : HasVault(tab[t], vault)
    /\ ~erased /\ ~mistaken => \A t \in Tabs : SameAccount(tab[t], vault, pending)

-----------------------------------------------------------------------------
(* One tab *)

Only(t) == \A u \in Tabs \ {t} : tab'[u] = tab[u]

(* What a step may do to everything that is not its tab.                   *)
Grows ==
    /\ server \subseteq server' /\ minted \subseteq minted'
    /\ erased => erased'
    /\ mistaken => mistaken'
    /\ ~erased' /\ vault # None => vault' # None
    /\ ~erased' /\ ~mistaken' =>
          /\ vault # None => vault'.account = vault.account
          /\ \A a \in Accounts : Held(a, vault, pending) => Held(a, vault', pending')

TabFacts(t) ==
    /\ tab' \in [Tabs -> TabStates] /\ Only(t)
    /\ TabOK(tab'[t], server', minted')
    /\ ~erased' => HasVault(tab'[t], vault')
    /\ ~erased' /\ ~mistaken' => SameAccount(tab'[t], vault', pending')

LEMMA OneTab ==
    ASSUME Inv, NEW t \in Tabs, Grows, TabFacts(t)
    PROVE  /\ tab' \in [Tabs -> TabStates]
           /\ \A u \in Tabs : TabOK(tab'[u], server', minted')
           /\ ~erased' => \A u \in Tabs : HasVault(tab'[u], vault')
           /\ ~erased' /\ ~mistaken' => \A u \in Tabs : SameAccount(tab'[u], vault', pending')
<1>1. \A u \in Tabs : TabOK(tab'[u], server', minted')
  <2> SUFFICES ASSUME NEW u \in Tabs, u # t PROVE TabOK(tab'[u], server', minted')
    BY DEF TabFacts
  <2>1. TabOK(tab[u], server, minted) /\ tab'[u] = tab[u]
    BY DEF Inv, TabFacts, Only
  <2> QED BY <2>1 DEF TabOK, Grows
<1>2. ASSUME ~erased' PROVE \A u \in Tabs : HasVault(tab'[u], vault')
  <2> SUFFICES ASSUME NEW u \in Tabs, u # t PROVE HasVault(tab'[u], vault')
    BY <1>2 DEF TabFacts
  <2>1. HasVault(tab[u], vault) /\ tab'[u] = tab[u]
    BY <1>2 DEF Inv, TabFacts, Only, Grows
  <2> QED BY <1>2, <2>1 DEF HasVault, Grows
<1>3. ASSUME ~erased', ~mistaken' PROVE \A u \in Tabs : SameAccount(tab'[u], vault', pending')
  <2> SUFFICES ASSUME NEW u \in Tabs, u # t PROVE SameAccount(tab'[u], vault', pending')
    BY <1>3 DEF TabFacts
  <2>1. SameAccount(tab[u], vault, pending) /\ HasVault(tab[u], vault) /\ TabOK(tab[u], server, minted)
        /\ tab'[u] = tab[u]
    BY <1>3 DEF Inv, TabFacts, Only, Grows
  <2>2. /\ vault # None => vault' # None /\ vault'.account = vault.account
        /\ \A a \in Accounts : Held(a, vault, pending) => Held(a, vault', pending')
    BY <1>3 DEF Grows
  <2>3. tab[u].op \in SigningUp => tab[u].account \in Accounts
    BY <2>1 DEF TabOK, TabStates
  <2>4. tab[u].op \in SigningUp => Held(tab[u].account, vault', pending')
    BY <2>1, <2>2, <2>3 DEF SameAccount
  <2> QED BY <2>1, <2>2, <2>4 DEF SameAccount, HasVault, Past
<1> QED BY <1>1, <1>2, <1>3 DEF TabFacts

(* A step that only its tab takes part in.                                 *)
LEMMA TabStep ==
    ASSUME Inv, NEW t \in Tabs, UNCHANGED <<store, history>>, TabFacts(t)
    PROVE  Inv'
<1>1. Grows
  BY DEF Grows, store, history
<1>2. Device' /\ NoSignupIsStranded' /\ KeysAreKept'
  BY DEF Inv, Device, NoSignupIsStranded, KeysAreKept, store, history
<1> QED BY <1>1, <1>2, OneTab DEF Inv

(* What is known of the tab that takes a step.                             *)
LEMMA ThisTab ==
    ASSUME Inv, NEW t \in Tabs
    PROVE  /\ tab \in [Tabs -> TabStates]
           /\ tab[t] \in TabStates
           /\ TabOK(tab[t], server, minted)
           /\ ~erased => HasVault(tab[t], vault)
           /\ ~erased /\ ~mistaken => SameAccount(tab[t], vault, pending)
BY DEF Inv

(* A tab with no handler, that shows a page with an account or none.       *)
LEMMA BlankOK ==
    ASSUME Inv, NEW t \in Tabs, NEW s \in TabStates, tab' = [tab EXCEPT ![t] = s],
           s.op = "none", s.account = None, s.read = None,
           ~erased' => (s.phase \in {"locked", "ready"} => vault' # None),
           ~erased' /\ ~mistaken' => (s.session # None => vault' # None /\ vault'.account = s.session)
    PROVE  TabFacts(t)
<1>1. tab \in [Tabs -> TabStates]
  BY DEF Inv
<1>2. tab' \in [Tabs -> TabStates] /\ Only(t) /\ tab'[t] = s
  BY <1>1 DEF Only
<1> QED BY <1>2 DEF TabFacts, TabOK, HasVault, SameAccount, Registered, SigningUp, Past

LEMMA ShowOK ==
    ASSUME Inv, NEW t \in Tabs, NEW phase \in {"loading", "onboarding", "locked", "ready"},
           NEW a \in Accounts \cup {None}, Show(t, phase, a),
           ~erased' => (phase \in {"locked", "ready"} => vault' # None),
           ~erased' /\ ~mistaken' => (a # None => vault' # None /\ vault'.account = a)
    PROVE  TabFacts(t)
<1> DEFINE s == [Closed EXCEPT !.phase = phase, !.session = a]
<1>1. s \in TabStates /\ s.phase = phase /\ s.session = a /\ s.op = "none" /\ s.account = None
      /\ s.read = None
  BY DEF Closed, TabStates, Ops, Whys
<1>2. tab' = [tab EXCEPT ![t] = s]
  BY DEF Show
<1> HIDE DEF s
<1> QED BY <1>1, <1>2, BlankOK

(* A handler that ends.                                                    *)
LEMMA EndOK ==
    ASSUME Inv, NEW t \in Tabs, End(t), Grows,
           tab[t].phase \in {"locked", "ready"} /\ ~erased => vault # None
    PROVE  TabFacts(t)
<1>1. tab[t] \in TabStates /\ tab \in [Tabs -> TabStates]
  BY ThisTab
<1> DEFINE s == [tab[t] EXCEPT !.op = "none", !.account = None, !.read = None, !.why = "none"]
<1>a. s \in TabStates /\ s.phase = tab[t].phase /\ s.session = tab[t].session
      /\ s.op = "none" /\ s.account = None /\ s.read = None
  BY <1>1 DEF TabStates, Ops, Whys
<1>b. tab' = [tab EXCEPT ![t] = s]
  BY <1>1 DEF End
<1> HIDE DEF s
<1>2. /\ tab' \in [Tabs -> TabStates] /\ Only(t)
      /\ tab'[t] \in TabStates /\ tab'[t].phase = tab[t].phase /\ tab'[t].session = tab[t].session
      /\ tab'[t].op = "none" /\ tab'[t].account = None /\ tab'[t].read = None
  BY <1>1, <1>a, <1>b DEF Only
<1>3. TabOK(tab'[t], server', minted')
  BY <1>2 DEF TabOK, Registered, SigningUp
<1>4. ~erased' => HasVault(tab'[t], vault')
  BY <1>2 DEF HasVault, Past, Grows
<1>5. ~erased' /\ ~mistaken' => SameAccount(tab'[t], vault', pending')
  <2> SUFFICES ASSUME ~erased', ~mistaken' PROVE SameAccount(tab'[t], vault', pending')
    OBVIOUS
  <2>1. SameAccount(tab[t], vault, pending)
    BY ThisTab DEF Grows
  <2> QED BY <1>2, <2>1 DEF SameAccount, SigningUp, Grows
<1> QED BY <1>2, <1>3, <1>4, <1>5 DEF TabFacts

(* A handler that goes on with what it has, or with account a.             *)
LEMMA MoveOK ==
    ASSUME Inv, NEW t \in Tabs, Grows,
           NEW op \in Ops \ {"guess", "put", "wrapped"}, NEW a \in Accounts \cup {None},
           NEW why \in Whys,
           tab' = [tab EXCEPT ![t] = [tab[t] EXCEPT !.op = op, !.account = a, !.why = why]],
           a # None => a \in minted',
           op \in Registered => a \in server',
           op \in {"username", "stage"} \cup SigningUp => a # None,
           ~erased' /\ op \in Past => vault' # None,
           ~erased' /\ ~mistaken' /\ op \in SigningUp => Held(a, vault', pending'),
           ~erased' /\ ~mistaken' /\ (op \in {"phrase", "confirmed"} \/ (op = "wrap" /\ why # "reset"))
               => a = vault'.account
    PROVE  TabFacts(t)
<1> DEFINE s == [tab[t] EXCEPT !.op = op, !.account = a, !.why = why]
<1>1. tab[t] \in TabStates /\ tab \in [Tabs -> TabStates] /\ TabOK(tab[t], server, minted)
  BY ThisTab
<1>2. s \in TabStates /\ s.phase = tab[t].phase /\ s.session = tab[t].session /\ s.read = tab[t].read
      /\ s.op = op /\ s.account = a /\ s.why = why
  BY <1>1 DEF TabStates
<1> HIDE DEF s
<1>3. tab' \in [Tabs -> TabStates] /\ Only(t) /\ tab'[t] = s
  <2>1. tab' = [tab EXCEPT ![t] = s]
    BY DEF s
  <2> QED BY <1>1, <1>2, <2>1 DEF Only
<1>4. TabOK(s, server', minted')
  BY <1>1, <1>2 DEF TabOK, Grows
<1>5. ASSUME ~erased' PROVE HasVault(s, vault')
  <2>1. HasVault(tab[t], vault)
    BY <1>5, ThisTab DEF Grows
  <2> QED BY <1>2, <1>5, <2>1 DEF HasVault, Grows
<1>6. ASSUME ~erased', ~mistaken' PROVE SameAccount(s, vault', pending')
  <2>1. SameAccount(tab[t], vault, pending)
    BY <1>6, ThisTab DEF Grows
  <2>2. vault # None => vault' # None /\ vault'.account = vault.account
    BY <1>6 DEF Grows
  <2> QED BY <1>2, <1>6, <2>1, <2>2 DEF SameAccount
<1> QED BY <1>3, <1>4, <1>5, <1>6 DEF TabFacts

LEMMA StepOK ==
    ASSUME Inv, NEW t \in Tabs, Grows, NEW op \in Ops \ {"guess", "put", "wrapped"}, Step(t, op),
           op \in Registered => tab[t].account \in server',
           op \in {"username", "stage"} \cup SigningUp => tab[t].account # None,
           ~erased' /\ op \in Past => vault' # None,
           ~erased' /\ ~mistaken' /\ op \in SigningUp => Held(tab[t].account, vault', pending'),
           ~erased' /\ ~mistaken' /\ (op \in {"phrase", "confirmed"} \/ (op = "wrap" /\ tab[t].why # "reset"))
               => tab[t].account = vault'.account
    PROVE  TabFacts(t)
<1> DEFINE a == tab[t].account
           why == tab[t].why
<1>1. tab[t] \in TabStates /\ tab \in [Tabs -> TabStates] /\ TabOK(tab[t], server, minted)
  BY ThisTab
<1>2. a \in Accounts \cup {None} /\ why \in Whys /\ (a # None => a \in minted')
  BY <1>1 DEF TabStates, TabOK, Grows
<1>3. [tab[t] EXCEPT !.op = op] = [tab[t] EXCEPT !.op = op, !.account = a, !.why = why]
  BY <1>1 DEF TabStates
<1>4. tab' = [tab EXCEPT ![t] = [tab[t] EXCEPT !.op = op, !.account = a, !.why = why]]
  BY <1>1, <1>3 DEF Step
<1> HIDE DEF a, why
<1> QED BY <1>2, <1>4, MoveOK DEF a, why

LEMMA WorkOK ==
    ASSUME Inv, NEW t \in Tabs, Grows, NEW op \in Ops \ {"guess", "put", "wrapped", "wrap"},
           NEW a \in Accounts \cup {None}, Work(t, op, a),
           a # None => a \in minted',
           op \in Registered => a \in server',
           op \in {"username", "stage"} \cup SigningUp => a # None,
           ~erased' /\ op \in Past => vault' # None,
           ~erased' /\ ~mistaken' /\ op \in SigningUp => Held(a, vault', pending'),
           ~erased' /\ ~mistaken' /\ op \in {"phrase", "confirmed"} => a = vault'.account
    PROVE  TabFacts(t)
<1> DEFINE why == tab[t].why
<1>1. tab[t] \in TabStates /\ tab \in [Tabs -> TabStates]
  BY ThisTab
<1>2. why \in Whys
  BY <1>1 DEF TabStates
<1>3. [tab[t] EXCEPT !.op = op, !.account = a] = [tab[t] EXCEPT !.op = op, !.account = a, !.why = why]
  BY <1>1 DEF TabStates
<1>4. tab' = [tab EXCEPT ![t] = [tab[t] EXCEPT !.op = op, !.account = a]]
  BY <1>1 DEF Work
<1>5. tab' = [tab EXCEPT ![t] = [tab[t] EXCEPT !.op = op, !.account = a, !.why = why]]
  BY <1>3, <1>4
<1> HIDE DEF why
<1> QED BY <1>2, <1>5, MoveOK

(* A handler that has read record r and works for its account, or goes on  *)
(* with it.                                                                *)
LEMMA ReadOK ==
    ASSUME Inv, NEW t \in Tabs, Grows,
           NEW op \in {"guess", "put", "wrapped"}, NEW a \in Accounts \cup {None}, NEW why \in Whys,
           NEW r \in Records \cup {None}, r = vault',
           tab' = [tab EXCEPT ![t] = [tab[t] EXCEPT !.op = op, !.account = a, !.read = r, !.why = why]],
           a # None => a \in minted',
           r # None => r.account \in server',
           op \in Registered => a \in server',
           op \in {"guess", "put"} => r # None,
           op = "guess" /\ r.kind = "pin" => r.attempts < MaxAttempts,
           ~erased' => r # None,
           ~erased' /\ ~mistaken' /\ (op = "guess" \/ (op = "wrapped" /\ why # "reset"))
               => a = vault'.account
    PROVE  TabFacts(t)
<1> DEFINE s == [tab[t] EXCEPT !.op = op, !.account = a, !.read = r, !.why = why]
<1>1. tab[t] \in TabStates /\ tab \in [Tabs -> TabStates] /\ TabOK(tab[t], server, minted)
  BY ThisTab
<1>2. s \in TabStates /\ s.phase = tab[t].phase /\ s.session = tab[t].session /\ s.read = r
      /\ s.op = op /\ s.account = a /\ s.why = why
  BY <1>1 DEF TabStates, Ops
<1> HIDE DEF s
<1>3. tab' \in [Tabs -> TabStates] /\ Only(t) /\ tab'[t] = s
  <2>1. tab' = [tab EXCEPT ![t] = s]
    BY DEF s
  <2> QED BY <1>1, <1>2, <2>1 DEF Only
<1>4. TabOK(s, server', minted')
  BY <1>1, <1>2 DEF TabOK, SigningUp
<1>5. ASSUME ~erased' PROVE HasVault(s, vault')
  BY <1>2, <1>5 DEF HasVault
<1>6. ASSUME ~erased', ~mistaken' PROVE SameAccount(s, vault', pending')
  <2>1. SameAccount(tab[t], vault, pending)
    BY <1>6, ThisTab DEF Grows
  <2>2. vault # None => vault' # None /\ vault'.account = vault.account
    BY <1>6 DEF Grows
  <2> QED BY <1>2, <1>6, <2>1, <2>2 DEF SameAccount, SigningUp
<1> QED BY <1>3, <1>4, <1>5, <1>6 DEF TabFacts

LEMMA ReadVaultOK ==
    ASSUME Inv, NEW t \in Tabs, UNCHANGED <<store, history>>,
           NEW op \in {"guess", "put", "wrapped"}, NEW a \in Accounts \cup {None}, NEW why \in Whys,
           Read(t, op, a, why),
           a # None => a \in minted,
           op \in Registered => a \in server,
           op \in {"guess", "put"} => vault # None,
           op = "guess" /\ vault.kind = "pin" => vault.attempts < MaxAttempts,
           ~erased => vault # None,
           ~erased /\ ~mistaken /\ (op = "guess" \/ (op = "wrapped" /\ why # "reset"))
               => a = vault.account
    PROVE  TabFacts(t)
<1>1. tab[t] \in TabStates /\ tab \in [Tabs -> TabStates]
  BY ThisTab
<1>2. vault \in Records \cup {None} /\ (vault # None => vault.account \in server)
  BY DEF Inv, Device
<1>3. tab' = [tab EXCEPT ![t] = [tab[t] EXCEPT !.op = op, !.account = a, !.read = vault, !.why = why]]
  BY <1>1 DEF Read
<1>4. Grows
  BY DEF Grows, store, history
<1>5. UNCHANGED <<vault, pending, server, minted, erased, mistaken>>
  BY DEF store, history
<1> QED BY <1>2, <1>3, <1>4, <1>5, ReadOK

LEMMA FromTab ==
    ASSUME Inv, NEW t \in Tabs, Grows, TabFacts(t), Device', NoSignupIsStranded', KeysAreKept'
    PROVE  Inv'
BY OneTab DEF Inv

LEMMA Quiet ==
    ASSUME UNCHANGED <<store, history>>
    PROVE  Grows /\ UNCHANGED <<vault, pending, server, minted, backedUp, erased, mistaken>>
BY DEF Grows, store, history

(* What is known of the device.                                            *)
LEMMA ThisDevice ==
    ASSUME Inv
    PROVE  /\ vault # None => vault \in Records /\ vault.account \in server
                              /\ vault.account \in minted /\ vault.account \in Accounts
           /\ pending # None => pending \in minted /\ pending \in Accounts
           /\ \A a \in server : a \in minted /\ a \in Accounts
           /\ \A a \in backedUp : a \in server
           /\ ~erased => vault = None \/ pending = None
BY DEF Inv, Device, NoSignupIsStranded

-----------------------------------------------------------------------------
(* Steps of the tab alone *)

LEMMA BootInv == ASSUME Inv, NEW t \in Tabs, Boot(t) PROVE Inv'
<1>1. UNCHANGED <<store, history>> /\ Grows
      /\ UNCHANGED <<vault, pending, server, minted, backedUp, erased, mistaken>>
  BY Quiet DEF Boot
<1>2. TabFacts(t)
  <2>1. CASE ~vaultExists
    <3>1. Show(t, "onboarding", None)
      BY <2>1 DEF Boot
    <3> QED BY <3>1, <1>1, ShowOK
  <2>2. CASE vaultExists
    <3>1. vault # None /\ vault.account \in Accounts
      BY <2>2, ThisDevice DEF vaultExists
    <3>2. Show(t, "ready", vault.account) \/ Show(t, "locked", None)
      BY <2>2 DEF Boot
    <3> QED BY <3>1, <3>2, <1>1, ShowOK
  <2> QED BY <2>1, <2>2
<1> QED BY <1>1, <1>2, TabStep

LEMMA CloseInv == ASSUME Inv, NEW t \in Tabs, Close(t) PROVE Inv'
<1>1. UNCHANGED <<store, history>> /\ Grows
      /\ UNCHANGED <<vault, pending, server, minted, backedUp, erased, mistaken>>
  BY Quiet DEF Close
<1>2. Closed \in TabStates /\ Closed.op = "none" /\ Closed.account = None /\ Closed.read = None
      /\ Closed.phase = "loading" /\ Closed.session = None
  BY DEF Closed, TabStates, Ops, Whys
<1>3. tab' = [tab EXCEPT ![t] = Closed]
  BY DEF Close
<1>4. TabFacts(t)
  BY <1>1, <1>2, <1>3, BlankOK
<1> QED BY <1>1, <1>4, TabStep

LEMMA EndInv ==
    ASSUME Inv, NEW t \in Tabs, End(t), UNCHANGED <<store, history>>
    PROVE  Inv'
<1>1. Grows
  BY Quiet
<1>2. ~erased => HasVault(tab[t], vault)
  BY ThisTab
<1>3. TabFacts(t)
  BY <1>1, <1>2, EndOK DEF HasVault
<1> QED BY <1>3, TabStep

LEMMA ClaimUsernameInv == ASSUME Inv, NEW t \in Tabs, ClaimUsername(t) PROVE Inv'
<1>1. UNCHANGED <<store, history>> /\ Grows
      /\ UNCHANGED <<vault, pending, server, minted, backedUp, erased, mistaken>>
  BY Quiet DEF ClaimUsername
<1>2. tab[t].account # None
  BY ThisTab DEF ClaimUsername, At, TabOK
<1>3. CASE End(t)
  BY <1>1, <1>3, EndInv
<1>4. CASE Step(t, "stage")
  <2>1. TabFacts(t)
    BY <1>1, <1>2, <1>4, StepOK DEF Ops, Registered, SigningUp, Past
  <2> QED BY <1>1, <2>1, TabStep
<1> QED BY <1>3, <1>4 DEF ClaimUsername

(* Back at the form, with what waits.                                      *)
LEMMA CreateOK ==
    ASSUME Inv, NEW t \in Tabs, create(t), tab[t].account # None, Grows, UNCHANGED minted
    PROVE  TabFacts(t)
<1> DEFINE a == IF pending = None THEN tab[t].account ELSE pending
<1>1. a \in Accounts /\ a \in minted' /\ a # None
  BY ThisTab, ThisDevice, AccountsAssumption DEF TabOK, TabStates
<1>2. Work(t, "username", a)
  BY DEF create
<1> HIDE DEF a
<1> QED BY <1>1, <1>2, WorkOK DEF Ops, Registered, SigningUp, Past

LEMMA StageVerifiedInv == ASSUME Inv, NEW t \in Tabs, StageVerified(t) PROVE Inv'
<1>1. UNCHANGED <<store, history>> /\ Grows
      /\ UNCHANGED <<vault, pending, server, minted, backedUp, erased, mistaken>>
  BY Quiet DEF StageVerified
<1>2. tab[t].account # None
  BY ThisTab DEF StageVerified, At, TabOK, SigningUp
<1>3. CASE create(t)
  <2>1. TabFacts(t)
    BY <1>1, <1>2, <1>3, CreateOK
  <2> QED BY <1>1, <2>1, TabStep
<1>4. CASE pending = tab[t].account /\ Step(t, "ask")
  <2>1. Held(tab[t].account, vault', pending')
    BY <1>1, <1>4 DEF Held
  <2>2. TabFacts(t)
    BY <1>1, <1>2, <1>4, <2>1, StepOK DEF Ops, Registered, SigningUp, Past
  <2> QED BY <1>1, <2>2, TabStep
<1> QED BY <1>3, <1>4 DEF StageVerified

LEMMA hasAccountInv == ASSUME Inv, NEW t \in Tabs, hasAccount(t) PROVE Inv'
<1>1. UNCHANGED <<store, history>> /\ Grows
      /\ UNCHANGED <<vault, pending, server, minted, backedUp, erased, mistaken>>
  BY Quiet DEF hasAccount
<1>2. tab[t].op \in {"ask", "retry"}
  BY DEF hasAccount
<1>3. tab[t].account # None
  BY <1>2, ThisTab DEF TabOK, SigningUp
<1>4. ~erased' /\ ~mistaken' => Held(tab[t].account, vault', pending')
  BY <1>1, <1>2, ThisTab DEF SameAccount, SigningUp
<1>5. CASE create(t)
  <2>1. TabFacts(t)
    BY <1>1, <1>3, <1>5, CreateOK
  <2> QED BY <1>1, <2>1, TabStep
<1>6. CASE Step(t, "register")
  <2>1. TabFacts(t)
    BY <1>1, <1>3, <1>4, <1>6, StepOK DEF Ops, Registered, SigningUp, Past
  <2> QED BY <1>1, <2>1, TabStep
<1>7. CASE tab[t].account \in server /\ Step(t, "finish")
  <2>1. TabFacts(t)
    BY <1>1, <1>3, <1>4, <1>7, StepOK DEF Ops, Registered, SigningUp, Past
  <2> QED BY <1>1, <2>1, TabStep
<1> QED BY <1>5, <1>6, <1>7 DEF hasAccount

LEMMA RestoreInv == ASSUME Inv, NEW t \in Tabs, Restore(t) PROVE Inv'
<1>1. UNCHANGED <<store, history>> /\ Grows
      /\ UNCHANGED <<vault, pending, server, minted, backedUp, erased, mistaken>>
  BY Quiet DEF Restore
<1>2. PICK a \in server : Work(t, "restore", a)
  BY DEF Restore
<1>3. a \in Accounts /\ a \in minted
  BY ThisDevice
<1>4. TabFacts(t)
  BY <1>1, <1>2, <1>3, WorkOK DEF Ops, Registered, SigningUp, Past
<1> QED BY <1>1, <1>4, TabStep

(* The vault is opened: it is read while attempts are left.                *)
LEMMA unlockVaultOK ==
    ASSUME Inv, NEW t \in Tabs, NEW why \in Whys, unlockVault(t, why), UNCHANGED <<store, history>>
    PROVE  TabFacts(t)
<1>1. vault # None /\ vault \in Records /\ vault.account \in server
      /\ vault.account \in minted /\ vault.account \in Accounts
  BY ThisDevice DEF unlockVault, vaultExists
<1>2. vault.kind = "pin" => vault.attempts < MaxAttempts
  BY <1>1, AttemptsAssumption DEF unlockVault, attemptsRemaining, Records
<1>3. Read(t, "guess", vault.account, why)
  BY DEF unlockVault
<1> QED BY <1>1, <1>2, <1>3, ReadVaultOK

LEMMA UnlockInv ==
    ASSUME Inv, NEW t \in Tabs, submit(t) \/ ChangePin(t)
    PROVE  Inv'
<1>1. UNCHANGED <<store, history>>
  BY DEF submit, ChangePin
<1>2. unlockVault(t, "enter") \/ unlockVault(t, "change")
  BY DEF submit, ChangePin
<1>3. TabFacts(t)
  BY <1>1, <1>2, unlockVaultOK DEF Whys
<1> QED BY <1>1, <1>3, TabStep

LEMMA createVaultReadsInv == ASSUME Inv, NEW t \in Tabs, createVaultReads(t) PROVE Inv'
<1>1. UNCHANGED <<store, history>> /\ tab[t].op = "wrap"
      /\ Read(t, "wrapped", tab[t].account, tab[t].why)
  BY DEF createVaultReads
<1>2. /\ tab[t].account \in Accounts \cup {None} /\ tab[t].why \in Whys
      /\ tab[t].account # None => tab[t].account \in minted
      /\ tab[t].account \in server
      /\ ~erased => vault # None
      /\ ~erased /\ ~mistaken /\ tab[t].why # "reset" => tab[t].account = vault.account
  BY <1>1, ThisTab DEF TabOK, TabStates, Registered, HasVault, SameAccount, Past
<1>3. TabFacts(t)
  BY <1>1, <1>2, ReadVaultOK
<1> QED BY <1>1, <1>3, TabStep

LEMMA resetPinInv == ASSUME Inv, NEW t \in Tabs, resetPin(t) PROVE Inv'
<1>1. UNCHANGED <<store, history>> /\ Grows
      /\ UNCHANGED <<vault, pending, server, minted, backedUp, erased, mistaken>>
  BY Quiet DEF resetPin
<1>2. PICK a \in backedUp : resetPinWithPhrase(t, a)
  BY DEF resetPin, RecoverWithPhrase
<1>3. tab[t] \in TabStates /\ tab \in [Tabs -> TabStates] /\ (~erased => vault # None)
  BY ThisTab DEF resetPin, Unlock, At, HasVault
<1>4. a \in Accounts /\ a \in minted /\ a \in server
  BY <1>2, ThisDevice
<1>5. tab' = [tab EXCEPT ![t] = [tab[t] EXCEPT !.op = "wrap", !.account = a, !.why = "reset"]]
  BY <1>2, <1>3 DEF resetPinWithPhrase
<1>6. /\ "wrap" \in Ops \ {"guess", "put", "wrapped"} /\ "reset" \in Whys
      /\ "wrap" \notin {"username", "stage"} \cup SigningUp
  BY DEF Ops, Whys, SigningUp
<1>7. ~erased' => vault' # None
  BY <1>1, <1>3
<1>8. TabFacts(t)
  BY <1>1, <1>4, <1>5, <1>6, <1>7, MoveOK DEF SigningUp
<1> QED BY <1>1, <1>8, TabStep

LEMMA lockInv == ASSUME Inv, NEW t \in Tabs, lock(t) PROVE Inv'
<1>1. UNCHANGED <<store, history>> /\ Grows
      /\ UNCHANGED <<vault, pending, server, minted, backedUp, erased, mistaken>>
  BY Quiet DEF lock
<1>2. ~erased => vault # None
  BY ThisTab DEF lock, HasVault
<1>3. TabFacts(t)
  BY <1>1, <1>2, ShowOK DEF lock
<1> QED BY <1>1, <1>3, TabStep

LEMMA isVaultSecuredInv == ASSUME Inv, NEW t \in Tabs, isVaultSecured(t) PROVE Inv'
<1>1. UNCHANGED <<store, history>> /\ Grows
      /\ UNCHANGED <<vault, pending, server, minted, backedUp, erased, mistaken>>
  BY Quiet DEF isVaultSecured
<1> DEFINE s == [tab[t] EXCEPT !.secured = (vaultKind = "pin")]
<1>2. tab[t] \in TabStates /\ tab \in [Tabs -> TabStates]
  BY ThisTab
<1>3. s \in TabStates /\ s.phase = tab[t].phase /\ s.session = tab[t].session /\ s.op = tab[t].op
      /\ s.account = tab[t].account /\ s.read = tab[t].read /\ s.why = tab[t].why
  BY <1>2 DEF TabStates
<1>4. tab' = [tab EXCEPT ![t] = s]
  BY <1>2 DEF isVaultSecured
<1> HIDE DEF s
<1>5. tab' \in [Tabs -> TabStates] /\ Only(t) /\ tab'[t] = s
  BY <1>2, <1>3, <1>4 DEF Only
<1>6. TabFacts(t)
  BY <1>1, <1>3, <1>5, ThisTab DEF TabFacts, TabOK, HasVault, SameAccount
<1> QED BY <1>1, <1>6, TabStep

(* The account of a vault without a PIN.                                   *)
LEMMA OpenedVault ==
    ASSUME Inv, NEW a \in openDeviceVault
    PROVE  vault # None /\ a = vault.account /\ a \in server /\ a \in minted /\ a \in Accounts
BY ThisDevice DEF openDeviceVault, vaultKind, vaultExists

LEMMA ShowPhraseInv == ASSUME Inv, NEW t \in Tabs, ShowPhrase(t) PROVE Inv'
<1>1. UNCHANGED <<store, history>> /\ Grows
      /\ UNCHANGED <<vault, pending, server, minted, backedUp, erased, mistaken>>
  BY Quiet DEF ShowPhrase
<1>2. PICK a \in openDeviceVault : Work(t, "phrase", a)
  BY DEF ShowPhrase
<1>3. TabFacts(t)
  BY <1>1, <1>2, OpenedVault, WorkOK DEF Ops, Registered, SigningUp, Past
<1> QED BY <1>1, <1>3, TabStep

LEMMA SetPinInv == ASSUME Inv, NEW t \in Tabs, SetPin(t) PROVE Inv'
<1>1. UNCHANGED <<store, history>> /\ Grows
      /\ UNCHANGED <<vault, pending, server, minted, backedUp, erased, mistaken>>
  BY Quiet DEF SetPin
<1>2. PICK a \in openDeviceVault :
        tab' = [tab EXCEPT ![t].op = "wrap", ![t].account = a, ![t].why = "secure"]
  BY DEF SetPin, secureVaultWithPin
<1>3. tab[t] \in TabStates /\ tab \in [Tabs -> TabStates]
  BY ThisTab
<1>4. tab' = [tab EXCEPT ![t] = [tab[t] EXCEPT !.op = "wrap", !.account = a, !.why = "secure"]]
  BY <1>2, <1>3
<1>5. TabFacts(t)
  BY <1>1, <1>4, OpenedVault, MoveOK DEF Ops, Whys, Registered, SigningUp, Past
<1> QED BY <1>1, <1>5, TabStep

LEMMA SecureAccountInv == ASSUME Inv, NEW t \in Tabs, SecureAccount(t) PROVE Inv'
BY EndInv DEF SecureAccount

(* The record is read to be changed.                                       *)
LEMMA ReadToPut ==
    ASSUME Inv, NEW t \in Tabs, NEW why \in Whys, vault # None, Read(t, "put", None, why),
           UNCHANGED <<store, history>>
    PROVE  Inv'
<1>1. TabFacts(t)
  BY ReadVaultOK DEF Registered
<1> QED BY <1>1, TabStep

LEMMA setVaultIdentityInv ==
    ASSUME Inv, NEW t \in Tabs, setVaultIdentity(t), UNCHANGED <<store, history>>
    PROVE  Inv'
BY EndInv, ReadToPut DEF setVaultIdentity, vaultExists, Whys

LEMMA refreshVaultIdentityInv == ASSUME Inv, NEW t \in Tabs, refreshVaultIdentity(t) PROVE Inv'
<1>1. UNCHANGED <<store, history>> /\ Grows
      /\ UNCHANGED <<vault, pending, server, minted, backedUp, erased, mistaken>>
  BY Quiet DEF refreshVaultIdentity
<1>2. CASE vaultIdentity /\ Step(t, "refresh")
  <2>1. TabFacts(t)
    BY <1>1, <1>2, StepOK DEF Ops, Registered, SigningUp, Past, vaultIdentity, vaultExists
  <2> QED BY <1>1, <2>1, TabStep
<1>3. CASE setVaultIdentity(t)
  BY <1>1, <1>3, setVaultIdentityInv
<1> QED BY <1>2, <1>3 DEF refreshVaultIdentity

LEMMA LockScreenNameInv == ASSUME Inv, NEW t \in Tabs, NEW on, LockScreenName(t, on) PROVE Inv'
<1>1. UNCHANGED <<store, history>>
  BY DEF LockScreenName
<1>2. CASE setVaultIdentity(t)
  BY <1>1, <1>2, setVaultIdentityInv
<1>3. CASE forgetVaultIdentity(t)
  BY <1>1, <1>3, ReadToPut DEF forgetVaultIdentity, vaultIdentity, vaultExists, Whys
<1> QED BY <1>2, <1>3 DEF LockScreenName

LEMMA EraseOnFailureInv == ASSUME Inv, NEW t \in Tabs, NEW on, EraseOnFailure(t, on) PROVE Inv'
<1>1. UNCHANGED <<store, history>> /\ setEraseOnFailure(t, IF on THEN "arm" ELSE "disarm")
  BY DEF EraseOnFailure
<1>2. vault # None
  BY <1>1 DEF setEraseOnFailure, vaultKind, vaultExists
<1> QED BY <1>1, <1>2, ReadToPut DEF setEraseOnFailure, Whys

-----------------------------------------------------------------------------
(* What becomes of the device *)

(* The vault is written for the account it holds, or a mistake is noted.   *)
LEMMA SameVault ==
    ASSUME Inv, UNCHANGED <<pending, server, minted, erased>>,
           backedUp \subseteq backedUp', backedUp' \subseteq server,
           mistaken' \in BOOLEAN, mistaken => mistaken',
           vault' \in Records \cup {None}, vault' # None => vault'.account \in server,
           ~erased => (vault # None <=> vault' # None),
           ~erased /\ ~mistaken' /\ vault # None => vault'.account = vault.account
    PROVE  Grows /\ Device' /\ NoSignupIsStranded' /\ KeysAreKept'
<1>1. Grows
  BY DEF Grows, Held
<1>2. Device'
  BY DEF Inv, Device
<1>3. NoSignupIsStranded'
  BY DEF Inv, NoSignupIsStranded
<1>4. KeysAreKept'
  BY DEF Inv, KeysAreKept
<1> QED BY <1>1, <1>2, <1>3, <1>4

(* A device without a vault gets one for the signup that waits, or for any *)
(* registered account when none does.                                      *)
LEMMA FirstVault ==
    ASSUME Inv, vault = None, NEW r \in Records, vault' = r, r.account \in server,
           pending \in {None, r.account}, pending' = None, UNCHANGED history
    PROVE  /\ Grows /\ Device' /\ NoSignupIsStranded' /\ KeysAreKept'
           /\ vault' # None /\ UNCHANGED <<server, minted, backedUp, erased, mistaken>>
<1>1. UNCHANGED <<server, minted, backedUp, erased, mistaken>> /\ vault' # None
  BY NoneAssumption DEF history
<1>2. Grows
  BY <1>1, AccountsAssumption DEF Grows, Held
<1>3. Device'
  BY <1>1 DEF Inv, Device
<1>4. NoSignupIsStranded'
  BY DEF NoSignupIsStranded
<1>5. KeysAreKept'
  <2> SUFFICES ASSUME ~erased, ~mistaken, NEW a \in server \ backedUp PROVE vault'.account = a
    BY <1>1 DEF KeysAreKept
  <2>1. pending = a
    BY DEF Inv, KeysAreKept
  <2>2. a \in Accounts
    BY ThisDevice
  <2> QED BY <2>1, <2>2, AccountsAssumption
<1> QED BY <1>1, <1>2, <1>3, <1>4, <1>5

LEMMA Destroyed ==
    ASSUME Inv, destroyTimberDb, UNCHANGED <<server, minted, backedUp, mistaken>>
    PROVE  /\ Grows /\ Device' /\ NoSignupIsStranded' /\ KeysAreKept'
           /\ erased'
BY DEF destroyTimberDb, Inv, Grows, Device, NoSignupIsStranded, KeysAreKept

LEMMA RecordOK ==
    ASSUME NEW kind \in {"device", "pin"}, NEW a \in Accounts
    PROVE  Record(kind, a) \in Records /\ Record(kind, a).account = a /\ Record(kind, a) # None
           /\ Record(kind, a).attempts = 0
<1>1. Record(kind, a).account = a /\ Record(kind, a).attempts = 0
  BY DEF Record
<1>2. Record(kind, a) \in Records
  BY AttemptsAssumption DEF Record, Records
<1> QED BY <1>1, <1>2, NoneAssumption

-----------------------------------------------------------------------------
(* Steps that the device takes part in *)

LEMMA startSignupInv == ASSUME Inv, NEW t \in Tabs, startSignup(t) PROVE Inv'
<1>1. PICK a \in Accounts : Work(t, "username", a) /\ a \in minted'
                            /\ minted \subseteq minted' /\ minted' \subseteq Accounts
  <2>1. CASE pending # None
    BY <2>1, ThisDevice DEF startSignup, Inv, Device
  <2>2. CASE pending = None
    BY <2>2 DEF startSignup, Inv, Device
  <2> QED BY <2>1, <2>2
<1>2. UNCHANGED <<vault, pending, server, backedUp, erased, mistaken>>
  BY DEF startSignup, store
<1>3. Grows
  BY <1>1, <1>2 DEF Grows
<1>4. Device' /\ NoSignupIsStranded' /\ KeysAreKept'
  BY <1>1, <1>2 DEF Inv, Device, NoSignupIsStranded, KeysAreKept
<1>5. TabFacts(t)
  BY <1>1, <1>3, AccountsAssumption, WorkOK DEF Ops, Registered, SigningUp, Past
<1> QED BY <1>3, <1>4, <1>5, FromTab

LEMMA stageRegistrationInv == ASSUME Inv, NEW t \in Tabs, stageRegistration(t) PROVE Inv'
<1>1. UNCHANGED <<vault, server, minted, backedUp, erased, mistaken>>
  BY DEF stageRegistration, history
<1>2. tab[t].account # None /\ tab[t].account \in Accounts /\ tab[t].account \in minted
  BY ThisTab DEF stageRegistration, At, TabOK, TabStates
<1>3. CASE vault # None
  <2>1. UNCHANGED <<store, history>> /\ create(t)
    BY <1>3 DEF stageRegistration, store
  <2>2. TabFacts(t)
    BY <1>1, <1>2, <2>1, Quiet, CreateOK
  <2> QED BY <2>1, <2>2, TabStep
<1>4. CASE vault = None
  <2> DEFINE selected == IF pending = None THEN tab[t].account ELSE pending
  <2>1. pending' = selected /\ Work(t, "staged", selected)
    BY <1>4 DEF stageRegistration
  <2>2. selected \in Accounts /\ selected \in minted /\ selected # None
        /\ (pending # None => selected = pending)
    BY <1>2, ThisDevice, AccountsAssumption
  <2> HIDE DEF selected
  <2>3. Grows
    BY <1>1, <1>4, <2>1, <2>2, AccountsAssumption DEF Grows, Held
  <2>4. Device' /\ NoSignupIsStranded'
    BY <1>1, <1>4, <2>1, <2>2 DEF Inv, Device, NoSignupIsStranded
  <2>5. KeysAreKept'
    BY <1>1, <1>4, <2>1, <2>2, ThisDevice, AccountsAssumption DEF Inv, KeysAreKept
  <2>6. Held(selected, vault', pending')
    BY <2>1 DEF Held
  <2>7. TabFacts(t)
    BY <1>1, <2>1, <2>2, <2>3, <2>6, WorkOK DEF Ops, Registered, SigningUp, Past
  <2> QED BY <2>3, <2>4, <2>5, <2>7, FromTab
<1> QED BY <1>3, <1>4

LEMMA registerInv == ASSUME Inv, NEW t \in Tabs, register(t) PROVE Inv'
<1> DEFINE a == tab[t].account
<1>1. UNCHANGED <<vault, pending, minted, backedUp, erased, mistaken>>
  BY DEF register, store
<1>2. a # None /\ a \in Accounts /\ a \in minted
      /\ (~erased /\ ~mistaken => Held(a, vault, pending))
  BY ThisTab DEF register, At, TabOK, TabStates, SigningUp, SameAccount
<1>3. CASE a \notin server /\ server' = server \cup {a} /\ (Step(t, "finish") \/ Step(t, "retry"))
  <2>1. Grows
    BY <1>1, <1>3 DEF Grows
  <2>2. Device' /\ NoSignupIsStranded'
    BY <1>1, <1>2, <1>3 DEF Inv, Device, NoSignupIsStranded
  <2>3. KeysAreKept'
    BY <1>1, <1>2, <1>3 DEF Inv, KeysAreKept, Held
  <2>4. CASE Step(t, "finish")
    <3>1. TabFacts(t)
      BY <1>1, <1>2, <1>3, <2>1, <2>4, StepOK DEF Ops, SigningUp, Past
    <3> QED BY <2>1, <2>2, <2>3, <3>1, FromTab
  <2>5. CASE Step(t, "retry")
    <3>1. TabFacts(t)
      BY <1>1, <1>2, <1>3, <2>1, <2>5, StepOK DEF Ops, Registered, SigningUp, Past
    <3> QED BY <2>1, <2>2, <2>3, <3>1, FromTab
  <2> QED BY <1>3, <2>4, <2>5
<1>4. CASE Step(t, "retry") /\ UNCHANGED server
  <2>1. UNCHANGED <<store, history>>
    BY <1>1, <1>4 DEF store, history
  <2>2. TabFacts(t)
    BY <1>1, <1>2, <1>4, <2>1, Quiet, StepOK DEF Ops, Registered, SigningUp, Past
  <2> QED BY <2>1, <2>2, TabStep
<1> QED BY <1>3, <1>4 DEF register

LEMMA finishRegistrationInv == ASSUME Inv, NEW t \in Tabs, finishRegistration(t) PROVE Inv'
<1> DEFINE a == tab[t].account
<1>1. a # None /\ a \in Accounts /\ a \in server
  BY ThisTab DEF finishRegistration, At, TabOK, TabStates, SigningUp, Registered
<1>2. CASE UNCHANGED store /\ create(t)
  <2>1. UNCHANGED <<store, history>> /\ Grows /\ UNCHANGED minted
    BY <1>2, Quiet DEF finishRegistration
  <2>2. TabFacts(t)
    BY <1>1, <1>2, <2>1, CreateOK
  <2> QED BY <2>1, <2>2, TabStep
<1>3. CASE UNCHANGED store /\ vault # None /\ vault.account = a /\ Show(t, "ready", a)
  <2>1. UNCHANGED <<store, history>> /\ Grows /\ UNCHANGED vault
    BY <1>3, Quiet DEF finishRegistration
  <2>2. TabFacts(t)
    BY <1>1, <1>3, <2>1, ShowOK
  <2> QED BY <2>1, <2>2, TabStep
<1>4. CASE /\ vault = None /\ pending = a /\ vault' = Record("device", a) /\ pending' = None
           /\ Show(t, "ready", a)
  <2>1. Record("device", a) \in Records /\ Record("device", a).account = a
    BY <1>1, RecordOK
  <2>2. UNCHANGED history
    BY DEF finishRegistration
  <2>3. Grows /\ Device' /\ NoSignupIsStranded' /\ KeysAreKept' /\ vault' # None
    BY <1>1, <1>4, <2>1, <2>2, FirstVault
  <2>4. vault'.account = a
    BY <1>4, <2>1
  <2>5. TabFacts(t)
    BY <1>1, <1>4, <2>3, <2>4, ShowOK
  <2> QED BY <2>3, <2>5, FromTab
<1> QED BY <1>2, <1>3, <1>4 DEF finishRegistration

LEMMA createDeviceVaultInv == ASSUME Inv, NEW t \in Tabs, createDeviceVault(t) PROVE Inv'
<1> DEFINE a == tab[t].account
<1>1. a \in Accounts /\ a \in server
  BY ThisTab, ThisDevice DEF createDeviceVault, At, TabOK, TabStates, Registered
<1>2. UNCHANGED pending /\ UNCHANGED history
  BY DEF createDeviceVault
<1>3. CASE vault = None /\ pending = None /\ vault' = Record("device", a) /\ Show(t, "ready", a)
  <2>1. Record("device", a) \in Records /\ Record("device", a).account = a
    BY <1>1, RecordOK
  <2>2. Grows /\ Device' /\ NoSignupIsStranded' /\ KeysAreKept' /\ vault' # None
    BY <1>1, <1>2, <1>3, <2>1, FirstVault
  <2>3. vault'.account = a
    BY <1>3, <2>1
  <2>4. TabFacts(t)
    BY <1>1, <1>3, <2>2, <2>3, ShowOK
  <2> QED BY <2>2, <2>4, FromTab
<1>4. CASE UNCHANGED vault /\ vault # None /\ vault.account = a /\ Show(t, "ready", a)
  <2>1. UNCHANGED <<store, history>> /\ Grows
    BY <1>2, <1>4, Quiet DEF store
  <2>2. TabFacts(t)
    BY <1>1, <1>4, <2>1, ShowOK
  <2> QED BY <2>1, <2>2, TabStep
<1>5. CASE UNCHANGED vault /\ End(t)
  <2>1. UNCHANGED <<store, history>>
    BY <1>2, <1>5 DEF store
  <2> QED BY <1>5, <2>1, EndInv
<1>6. \/ vault = None /\ pending = None
      \/ ~(vault = None /\ pending = None)
  OBVIOUS
<1> QED BY <1>3, <1>4, <1>5, <1>6 DEF createDeviceVault

LEMMA ImportTransferInv == ASSUME Inv, NEW t \in Tabs, ImportTransfer(t) PROVE Inv'
<1>1. PICK p \in exportVaultTransfer \cup {None} :
        /\ importVaultTransfer(p)
        /\ attemptsRemaining(vault') > 0
        /\ tab' = [tab EXCEPT ![t].op = "guess", ![t].account = p.account,
                              ![t].read = vault', ![t].why = "enter"]
  BY DEF ImportTransfer
<1>2. UNCHANGED <<pending, history>> /\ pending = None /\ p # None
  BY <1>1 DEF ImportTransfer, importVaultTransfer, transferVault
<1>3. PICK a \in Elsewhere : p = Record("pin", a)
  BY <1>1, <1>2 DEF exportVaultTransfer
<1>4. a \in Accounts /\ a \in server /\ a \in minted
  BY AccountsAssumption, ThisDevice DEF Inv, Device
<1>5. p \in Records /\ p.account = a /\ p # None
  BY <1>3, <1>4, RecordOK
<1>6. /\ Grows /\ Device' /\ NoSignupIsStranded' /\ KeysAreKept'
      /\ vault' \in Records /\ vault'.account = a /\ vault' # None
  <2>1. CASE vault = None /\ vault' = p
    BY <1>2, <1>4, <1>5, <2>1, FirstVault
  <2>2. CASE vault # None /\ vault.account = a /\ UNCHANGED vault
    <3>1. Grows
      BY <1>2, <2>2, Quiet DEF store
    <3>2. Device' /\ NoSignupIsStranded' /\ KeysAreKept'
      BY <1>2, <2>2 DEF Inv, Device, NoSignupIsStranded, KeysAreKept, history
    <3> QED BY <2>2, <3>1, <3>2, ThisDevice
  <2> QED BY <1>1, <1>5, <2>1, <2>2 DEF importVaultTransfer
<1>7. vault'.kind = "pin" => vault'.attempts < MaxAttempts
  BY <1>1, <1>6, AttemptsAssumption DEF attemptsRemaining, Records
<1>8. tab \in [Tabs -> TabStates] /\ tab[t] \in TabStates
  BY ThisTab
<1>9. tab' = [tab EXCEPT ![t] = [tab[t] EXCEPT !.op = "guess", !.account = a, !.read = vault',
                                               !.why = "enter"]]
  BY <1>1, <1>5, <1>8
<1>10. a \in minted' /\ a \in server'
  BY <1>4, <1>6 DEF Grows
<1>11. TabFacts(t)
  BY <1>4, <1>6, <1>7, <1>9, <1>10, ReadOK DEF Whys
<1> QED BY <1>6, <1>11, FromTab

-----------------------------------------------------------------------------
(* Steps that write the vault that is there *)

(* The phrase is shown, and may be written down.                           *)
LEMMA ShownOK ==
    ASSUME Inv, NEW a \in server, Shown(a)
    PROVE  backedUp \subseteq backedUp' /\ backedUp' \subseteq server
BY DEF Inv, Device, Shown

(* Nothing but the owner's notes changes.                                  *)
LEMMA Noted ==
    ASSUME Inv, UNCHANGED <<store, server, minted, erased, mistaken>>,
           backedUp \subseteq backedUp', backedUp' \subseteq server
    PROVE  Grows /\ Device' /\ NoSignupIsStranded' /\ KeysAreKept'
BY SameVault DEF Inv, Device, store

LEMMA NotedInv ==
    ASSUME Inv, NEW t \in Tabs, UNCHANGED <<store, server, minted, erased, mistaken>>,
           backedUp \subseteq backedUp', backedUp' \subseteq server, TabFacts(t) \/ UNCHANGED tab
    PROVE  Inv'
<1>1. Grows /\ Device' /\ NoSignupIsStranded' /\ KeysAreKept'
  BY Noted
<1>2. CASE TabFacts(t)
  BY <1>1, <1>2, FromTab
<1>3. CASE UNCHANGED tab
  <2>1. TabFacts(t)
    BY <1>3, ThisTab DEF TabFacts, Only, store, Inv
  <2> QED BY <1>1, <2>1, FromTab
<1> QED BY <1>2, <1>3

LEMMA RevealPhraseInv == ASSUME Inv, NEW t \in Tabs, RevealPhrase(t) PROVE Inv'
<1>1. UNCHANGED <<store, server, minted, erased, mistaken>>
  BY DEF RevealPhrase
<1>2. CASE \E a \in openDeviceVault : Shown(a) /\ UNCHANGED tab
  <2>1. PICK a \in server : Shown(a) /\ UNCHANGED tab
    BY <1>2, OpenedVault
  <2> QED BY <1>1, <2>1, ShownOK, NotedInv
<1>3. CASE unlockVault(t, "reveal") /\ UNCHANGED backedUp
  <2>1. UNCHANGED <<store, history>>
    BY <1>1, <1>3 DEF history
  <2>2. TabFacts(t)
    BY <1>3, <2>1, unlockVaultOK DEF Whys
  <2> QED BY <2>1, <2>2, TabStep
<1> QED BY <1>2, <1>3 DEF RevealPhrase

LEMMA ConfirmPhraseInv == ASSUME Inv, NEW t \in Tabs, ConfirmPhrase(t) PROVE Inv'
<1>1. UNCHANGED <<store, server, minted, erased, mistaken>> /\ Step(t, "confirmed")
      /\ backedUp' = backedUp \cup {tab[t].account} /\ tab[t].op = "phrase"
  BY DEF ConfirmPhrase, At
<1>2. /\ tab[t].account \in server
      /\ ~erased => vault # None
      /\ ~erased /\ ~mistaken => tab[t].account = vault.account
  BY <1>1, ThisTab DEF TabOK, Registered, HasVault, SameAccount, Past
<1>3. backedUp \subseteq backedUp' /\ backedUp' \subseteq server
  BY <1>1, <1>2 DEF Inv, Device
<1>4. Grows /\ UNCHANGED <<vault, pending, server, minted, erased, mistaken>>
  BY <1>1, <1>3, Noted DEF store
<1>5. TabFacts(t)
  BY <1>1, <1>2, <1>4, StepOK DEF Ops, Registered, SigningUp, Past
<1> QED BY <1>1, <1>3, <1>5, NotedInv

(* A vault that is opened or put back.                                     *)
LEMMA ReadRecord ==
    ASSUME Inv, NEW t \in Tabs, tab[t].op \in {"guess", "put"}
    PROVE  /\ tab[t].read \in Records /\ tab[t].read # None /\ tab[t].read.account \in server
           /\ ~erased => vault # None
           /\ ~erased /\ ~mistaken => tab[t].read.account = vault.account
BY ThisTab DEF TabOK, TabStates, HasVault, SameAccount, Past

LEMMA RightPinInv == ASSUME Inv, NEW t \in Tabs, RightPin(t) PROVE Inv'
<1> DEFINE r == tab[t].read
           a == tab[t].account
<1>1. tab[t].op = "guess" /\ Opened(t) /\ UNCHANGED <<pending, server, minted, erased, mistaken>>
      /\ vault' = IF r.kind = "pin" /\ r.attempts > 0 THEN [r EXCEPT !.attempts = 0] ELSE vault
  BY DEF RightPin
<1>2. /\ r \in Records /\ r # None /\ r.account \in server
      /\ ~erased => vault # None
      /\ ~erased /\ ~mistaken => r.account = vault.account
  BY <1>1, ReadRecord
<1>3. /\ a \in server /\ a \in Accounts
      /\ ~erased /\ ~mistaken => a = vault.account
  BY <1>1, ThisTab, ThisDevice DEF TabOK, Registered, SameAccount
<1>4. /\ vault' \in Records \cup {None} /\ (vault' # None => vault'.account \in server)
      /\ (~erased => vault' # None)
      /\ (~erased /\ ~mistaken => vault'.account = vault.account)
  <2>1. CASE r.kind = "pin" /\ r.attempts > 0
    <3>1. vault' = [r EXCEPT !.attempts = 0]
      BY <1>1, <2>1
    <3>2. vault' \in Records /\ vault'.account = r.account
      BY <1>2, <3>1, AttemptsAssumption DEF Records
    <3> QED BY <1>2, <3>2, NoneAssumption
  <2>2. CASE ~(r.kind = "pin" /\ r.attempts > 0)
    BY <1>1, <1>2, <2>2 DEF Inv, Device
  <2> QED BY <2>1, <2>2
<1>5. backedUp \subseteq backedUp' /\ backedUp' \subseteq server
  <2>1. Shown(a) \/ UNCHANGED backedUp
    BY <1>1 DEF Opened
  <2> QED BY <1>3, <2>1, ShownOK DEF Inv, Device
<1> HIDE DEF r, a
<1>6. Grows /\ Device' /\ NoSignupIsStranded' /\ KeysAreKept'
  <2>1. mistaken' \in BOOLEAN
    BY <1>1 DEF Inv, Device
  <2> QED BY <1>1, <1>2, <1>4, <1>5, <2>1, SameVault
<1>7. CASE Show(t, "ready", a)
  <2>1. TabFacts(t)
    BY <1>1, <1>3, <1>4, <1>7, ShowOK
  <2> QED BY <1>6, <2>1, FromTab
<1>8. CASE End(t)
  <2>1. TabFacts(t)
    BY <1>2, <1>6, <1>8, EndOK
  <2> QED BY <1>6, <2>1, FromTab
<1>9. CASE Step(t, "wrap")
  <2>1. TabFacts(t)
    BY <1>1, <1>3, <1>4, <1>6, <1>9, StepOK DEF Ops, Registered, SigningUp, Past, a
  <2> QED BY <1>6, <2>1, FromTab
<1> QED BY <1>1, <1>7, <1>8, <1>9 DEF Opened, a

LEMMA wipedOK ==
    ASSUME Inv, NEW t \in Tabs, wiped(t)
    PROVE  TabFacts(t)
BY ShowOK DEF wiped

LEMMA WrongPinInv == ASSUME Inv, NEW t \in Tabs, WrongPin(t) PROVE Inv'
<1> DEFINE r == tab[t].read
           attempts == r.attempts + 1
<1>1. tab[t].op = "guess" /\ r.kind = "pin" /\ UNCHANGED <<server, minted, backedUp, mistaken>>
  BY DEF WrongPin
<1>2. /\ r \in Records /\ r # None /\ r.account \in server
      /\ ~erased => vault # None
      /\ ~erased /\ ~mistaken => r.account = vault.account
  BY <1>1, ReadRecord
<1>3. r.attempts < MaxAttempts
  BY <1>1, ThisTab DEF TabOK
<1>4. CASE destroyTimberDb /\ (wiped(t) \/ End(t))
  <2>1. Grows /\ Device' /\ NoSignupIsStranded' /\ KeysAreKept'
    BY <1>1, <1>4, Destroyed
  <2>2. TabFacts(t)
    BY <1>2, <1>4, <2>1, wipedOK, EndOK
  <2> QED BY <2>1, <2>2, FromTab
<1>5. CASE vault' = [r EXCEPT !.attempts = attempts] /\ End(t) /\ UNCHANGED <<pending, erased>>
  <2>1. vault' \in Records /\ vault'.account = r.account
    BY <1>2, <1>3, <1>5, AttemptsAssumption DEF Records
  <2>2. vault' # None /\ vault' \in Records \cup {None}
    BY <2>1, NoneAssumption
  <2>3. mistaken' \in BOOLEAN /\ backedUp \subseteq backedUp' /\ backedUp' \subseteq server
    BY <1>1 DEF Inv, Device
  <2> HIDE DEF r, attempts
  <2>4. Grows /\ Device' /\ NoSignupIsStranded' /\ KeysAreKept'
    BY <1>1, <1>2, <1>5, <2>1, <2>2, <2>3, SameVault
  <2>5. TabFacts(t)
    BY <1>2, <1>5, <2>4, EndOK
  <2> QED BY <2>4, <2>5, FromTab
<1> QED BY <1>4, <1>5 DEF WrongPin

LEMMA writeVaultInv == ASSUME Inv, NEW t \in Tabs, writeVault(t) PROVE Inv'
<1> DEFINE r == tab[t].read
<1>1. tab[t].op = "put" /\ End(t) /\ UNCHANGED <<pending, history>>
  BY DEF writeVault
<1>2. /\ r \in Records /\ r # None /\ r.account \in server
      /\ ~erased => vault # None
      /\ ~erased /\ ~mistaken => r.account = vault.account
  BY <1>1, ReadRecord
<1>3. vault' \in Records /\ vault'.account = r.account
  <2>1. PICK b \in BOOLEAN : vault' = [r EXCEPT !.card = b] \/ vault' = [r EXCEPT !.erase = b]
    BY DEF writeVault
  <2> QED BY <1>2, <2>1 DEF Records
<1>4. vault' # None /\ vault' \in Records \cup {None}
  BY <1>3, NoneAssumption
<1>5. mistaken' \in BOOLEAN /\ backedUp \subseteq backedUp' /\ backedUp' \subseteq server
      /\ UNCHANGED <<pending, server, minted, backedUp, erased, mistaken>>
  BY <1>1 DEF Inv, Device, history
<1> HIDE DEF r
<1>6. Grows /\ Device' /\ NoSignupIsStranded' /\ KeysAreKept'
  BY <1>2, <1>3, <1>4, <1>5, SameVault
<1>7. TabFacts(t)
  BY <1>1, <1>2, <1>6, EndOK
<1> QED BY <1>6, <1>7, FromTab

(* The phrase is wrapped anew: of the account of the vault, or, after a    *)
(* reset, of another one, which is the mistake.                            *)
LEMMA createVaultInv == ASSUME Inv, NEW t \in Tabs, createVault(t) PROVE Inv'
<1> DEFINE r == tab[t].read
           a == tab[t].account
           new == [Record("pin", a) EXCEPT
              !.erase = r # None /\ r.kind = "pin" /\ r.erase,
              !.card = (r # None /\ r.card) \/ tab[t].why = "reset"]
<1>1. /\ tab[t].op = "wrapped" /\ vault' = new
      /\ mistaken' = (mistaken \/ (tab[t].why = "reset" /\ r # None /\ r.account # a))
      /\ UNCHANGED <<pending, server, minted, backedUp, erased>>
      /\ IF tab[t].why = "reset" THEN Show(t, "ready", a) ELSE End(t)
  BY DEF createVault
<1>2. /\ a \in server /\ a \in Accounts /\ r \in Records \cup {None}
      /\ ~erased => vault # None /\ r # None
      /\ ~erased /\ ~mistaken => /\ r.account = vault.account
                                 /\ tab[t].why # "reset" => a = vault.account
  BY <1>1, ThisTab, ThisDevice DEF TabOK, TabStates, Registered, HasVault, SameAccount, Past
<1>3. vault' \in Records /\ vault'.account = a
  <2>1. Record("pin", a) \in Records /\ Record("pin", a).account = a
    BY <1>2, RecordOK
  <2>2. PICK e \in BOOLEAN, c \in BOOLEAN : new = [Record("pin", a) EXCEPT !.erase = e, !.card = c]
    <3> DEFINE e == r # None /\ r.kind = "pin" /\ r.erase
               c == (r # None /\ r.card) \/ tab[t].why = "reset"
    <3>1. e \in BOOLEAN /\ c \in BOOLEAN
      OBVIOUS
    <3> QED BY <3>1
  <2> QED BY <1>1, <2>1, <2>2 DEF Records
<1>4. vault' # None /\ vault' \in Records \cup {None}
  BY <1>3, NoneAssumption
<1>5. mistaken' \in BOOLEAN /\ backedUp \subseteq backedUp' /\ backedUp' \subseteq server
      /\ (mistaken => mistaken')
  BY <1>1 DEF Inv, Device
<1>6. ~erased /\ ~mistaken' => a = vault.account
  BY <1>1, <1>2
<1> HIDE DEF r, a, new
<1>7. Grows /\ Device' /\ NoSignupIsStranded' /\ KeysAreKept'
  BY <1>1, <1>2, <1>3, <1>4, <1>5, <1>6, SameVault
<1>8. TabFacts(t)
  BY <1>1, <1>2, <1>3, <1>4, <1>7, ShowOK, EndOK
<1> QED BY <1>7, <1>8, FromTab

LEMMA wipeDeviceInv == ASSUME Inv, NEW t \in Tabs, wipeDevice(t) PROVE Inv'
BY Destroyed, wipedOK, FromTab DEF wipeDevice

-----------------------------------------------------------------------------
(* The theorems *)

LEMMA InitInv == Init => Inv
<1> SUFFICES ASSUME Init PROVE Inv
  OBVIOUS
<1>1. Closed \in TabStates /\ Closed.op = "none" /\ Closed.account = None /\ Closed.read = None
      /\ Closed.phase = "loading" /\ Closed.session = None
  BY DEF Closed, TabStates, Ops, Whys
<1>2. Device /\ NoSignupIsStranded /\ KeysAreKept
  BY AccountsAssumption DEF Init, Device, NoSignupIsStranded, KeysAreKept
<1>3. tab \in [Tabs -> TabStates] /\ \A t \in Tabs : tab[t] = Closed
  BY <1>1 DEF Init
<1>4. \A t \in Tabs : TabOK(tab[t], server, minted) /\ HasVault(tab[t], vault)
                      /\ SameAccount(tab[t], vault, pending)
  BY <1>1, <1>3 DEF TabOK, HasVault, SameAccount, Registered, SigningUp, Past
<1> QED BY <1>2, <1>3, <1>4 DEF Inv

LEMMA NextInv == Inv /\ [Next]_vars => Inv'
<1> SUFFICES ASSUME Inv, [Next]_vars PROVE Inv'
  OBVIOUS
<1>1. CASE UNCHANGED vars
  BY <1>1 DEF vars, store, history, Inv, Device, NoSignupIsStranded, KeysAreKept
<1>2. ASSUME NEW t \in Tabs, Boot(t) \/ Close(t) PROVE Inv'
  BY <1>2, BootInv, CloseInv
<1>3. ASSUME NEW t \in Tabs,
             startSignup(t) \/ ClaimUsername(t) \/ stageRegistration(t) \/ StageVerified(t)
      PROVE  Inv'
  BY <1>3, startSignupInv, ClaimUsernameInv, stageRegistrationInv, StageVerifiedInv
<1>4. ASSUME NEW t \in Tabs, hasAccount(t) \/ register(t) \/ finishRegistration(t) PROVE Inv'
  BY <1>4, hasAccountInv, registerInv, finishRegistrationInv
<1>5. ASSUME NEW t \in Tabs, Restore(t) \/ createDeviceVault(t) \/ ImportTransfer(t) PROVE Inv'
  BY <1>5, RestoreInv, createDeviceVaultInv, ImportTransferInv
<1>6. ASSUME NEW t \in Tabs,
             submit(t) \/ RevealPhrase(t) \/ ChangePin(t) \/ RightPin(t) \/ WrongPin(t)
      PROVE  Inv'
  BY <1>6, UnlockInv, RevealPhraseInv, RightPinInv, WrongPinInv
<1>7. ASSUME NEW t \in Tabs, createVaultReads(t) \/ createVault(t) \/ resetPin(t) PROVE Inv'
  BY <1>7, createVaultReadsInv, createVaultInv, resetPinInv
<1>8. ASSUME NEW t \in Tabs, lock(t) \/ isVaultSecured(t) PROVE Inv'
  BY <1>8, lockInv, isVaultSecuredInv
<1>9. ASSUME NEW t \in Tabs,
             ShowPhrase(t) \/ ConfirmPhrase(t) \/ SetPin(t) \/ SecureAccount(t)
      PROVE  Inv'
  BY <1>9, ShowPhraseInv, ConfirmPhraseInv, SetPinInv, SecureAccountInv
<1>10. ASSUME NEW t \in Tabs, refreshVaultIdentity(t) \/ \E on \in Cards : LockScreenName(t, on)
       PROVE  Inv'
  BY <1>10, refreshVaultIdentityInv, LockScreenNameInv
<1>11. ASSUME NEW t \in Tabs, \E on \in Erasures : EraseOnFailure(t, on) PROVE Inv'
  BY <1>11, EraseOnFailureInv
<1>12. ASSUME NEW t \in Tabs, writeVault(t) \/ WipeDevice(t) \/ forget(t) PROVE Inv'
  BY <1>12, writeVaultInv, wipeDeviceInv DEF WipeDevice, forget
<1> QED
  BY <1>1, <1>2, <1>3, <1>4, <1>5, <1>6, <1>7, <1>8, <1>9, <1>10, <1>11, <1>12 DEF Next

LEMMA Invariant == Spec => []Inv
BY InitInv, NextInv, PTL DEF Spec

(* Every variable stays in its type.                                       *)
THEOREM TypeCorrect == Spec => []TypeOK
<1>1. Inv => TypeOK
  BY DEF Inv, Device, TypeOK, TabStates
<1> QED BY <1>1, Invariant, PTL

(* Whatever tab, lost answer or closed page, what the relay has registered *)
(* from this device can be reached from it or from the owner's notes       *)
(* (lib/registration.js: a signup is durable before the request).          *)
THEOREM RegisteredKeysAreKept == Spec => []KeysAreKept
<1>1. Inv => KeysAreKept
  BY DEF Inv
<1> QED BY <1>1, Invariant, PTL

(* A device that holds an account has no signup waiting                    *)
(* (createDeviceVault, importVaultTransfer, stageRegistration).            *)
THEOREM SignupsAreFinished == Spec => []NoSignupIsStranded
<1>1. Inv => NoSignupIsStranded
  BY DEF Inv
<1> QED BY <1>1, Invariant, PTL

(* All tabs that are in are in the account of the vault, whichever of them *)
(* signed up, restored or imported it (App.jsx, Onboarding.jsx).           *)
THEOREM TabsShareTheAccount == Spec => []OneAccountPerDevice
<1>1. Inv => OneAccountPerDevice
  BY DEF Inv, OneAccountPerDevice, SameAccount
<1> QED BY <1>1, Invariant, PTL

===============================================================================
