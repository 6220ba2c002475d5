------------------------------- MODULE Account -------------------------------
(***************************************************************************)
(* The account of one device: the vault record that holds its recovery     *)
(* phrase, the signup that is not finished yet, and the tabs that create,  *)
(* restore, unlock, secure and erase it (crypto/vault.ts,                  *)
(* crypto/registration.ts, lib/registration.js and their screens).         *)
(*                                                                         *)
(* A transaction on the vault store is one step.  Most writers of the      *)
(* vault read it in one transaction and put it back in another: what they  *)
(* read is kept in between.  A phrase and the account that it derives are  *)
(* one value, a PIN is right or wrong.                                     *)
(***************************************************************************)
EXTENDS Naturals

CONSTANTS
    Tabs,        \* open pages of the app on this device
    Accounts,    \* the accounts there may be
    Elsewhere,   \* those made on another device, whose phrase the owner has
    None,        \* no record, no account
    MaxAttempts, \* wrong PINs in a row: MAX_ATTEMPTS
    Cards,       \* the ways the switch of the lock screen's card is turned
    Erasures     \* the ways the switch that erases on failure is turned

ASSUME AccountsAssumption == Elsewhere \subseteq Accounts /\ None \notin Accounts
ASSUME SwitchesAssumption == Cards \subseteq BOOLEAN /\ Erasures \subseteq BOOLEAN
ASSUME AttemptsAssumption == MaxAttempts \in Nat \ {0}

Records == [kind : {"device", "pin"}, account : Accounts, attempts : 0..MaxAttempts,
            erase : BOOLEAN, card : BOOLEAN]

ASSUME NoneAssumption == None \notin Records

VARIABLES
    vault,     \* the record under "seed": the account, its kind, what it remembers
    pending,   \* the record under "pending-registration": its account
    tab,       \* the tabs
    server,    \* the accounts that the relay has registered
    minted,    \* phrases that createMnemonic has returned
    backedUp,  \* history: accounts whose phrase the owner has written down
    erased,    \* history: the database was destroyed
    mistaken   \* history: a PIN was reset with the phrase of another account

store == <<vault, pending>>
history == <<server, minted, backedUp, erased, mistaken>>
vars == <<store, tab, history>>

Record(kind, a) == [kind |-> kind, account |-> a, attempts |-> 0, erase |-> FALSE, card |-> TRUE]

(* A tab: what App shows, whose session it holds, the handler that runs,   *)
(* the account that the handler or the form works for, the record it has   *)
(* read, and whether Settings takes the device for secured.                *)
Closed == [phase |-> "loading", session |-> None, op |-> "none", account |-> None,
           read |-> None, why |-> "none", secured |-> TRUE]

Init ==
    /\ vault = None /\ pending = None
    /\ tab = [t \in Tabs |-> Closed]
    /\ server = Elsewhere /\ minted = Elsewhere /\ backedUp = Elsewhere
    /\ erased = FALSE /\ mistaken = FALSE

-----------------------------------------------------------------------------
(* Steps of a handler *)

At(t, phase, op) == tab[t].phase = phase /\ tab[t].op = op
Step(t, op) == tab' = [tab EXCEPT ![t].op = op]
Work(t, op, a) == tab' = [tab EXCEPT ![t].op = op, ![t].account = a]
Read(t, op, a, why) ==
    tab' = [tab EXCEPT ![t].op = op, ![t].account = a, ![t].read = vault, ![t].why = why]

vaultExists == vault # None
vaultKind == IF vaultExists THEN vault.kind ELSE "none"
vaultIdentity == vaultExists /\ vault.card

Show(t, phase, a) == tab' = [tab EXCEPT ![t] = [Closed EXCEPT !.phase = phase, !.session = a]]
End(t) == tab' = [tab EXCEPT ![t].op = "none", ![t].account = None, ![t].read = None,
                                ![t].why = "none"]

(* The session is closed and onboarding begins.                            *)
wiped(t) == Show(t, "onboarding", None)

(* vaultExists and restoreSession: no account, one without a PIN, or one   *)
(* whose session may have been kept over the reload.                       *)
Boot(t) ==
    /\ At(t, "loading", "none")
    /\ IF ~vaultExists THEN Show(t, "onboarding", None)
       ELSE IF vaultKind = "device" THEN Show(t, "ready", vault.account)
       ELSE Show(t, "locked", None) \/ Show(t, "ready", vault.account)
    /\ UNCHANGED <<store, history>>

(* The page goes, with the handler that runs in it.                        *)
Close(t) ==
    /\ tab[t].phase # "loading"
    /\ tab' = [tab EXCEPT ![t] = Closed]
    /\ UNCHANGED <<store, history>>

destroyTimberDb == vault' = None /\ pending' = None /\ erased' = TRUE

-----------------------------------------------------------------------------
(* Signing up: the keys are stored before the account is asked for *)

(* The first page: to create an account, to restore one, to transfer one.  *)
Welcome(t) == At(t, "onboarding", "none")

(* A signup that waits is taken up again; else a phrase is made.           *)
startSignup(t) ==
    /\ Welcome(t)
    /\ IF pending # None THEN Work(t, "username", pending) /\ UNCHANGED minted
       ELSE \E a \in Accounts \ minted : Work(t, "username", a) /\ minted' = minted \cup {a}
    /\ UNCHANGED <<store, server, backedUp, erased, mistaken>>

(* A name is claimed for the phrase of the form, or the form is left.      *)
ClaimUsername(t) ==
    /\ At(t, "onboarding", "username")
    /\ Step(t, "stage") \/ End(t)
    /\ UNCHANGED <<store, history>>

(* A signup that fails is back at the form, with what waits by then.       *)
create(t) == Work(t, "username", IF pending = None THEN tab[t].account ELSE pending)

(* Mutant: the last tab wins.                                              *)
stageMine(t) ==
    /\ At(t, "onboarding", "stage")
    /\ IF vault # None THEN create(t) /\ UNCHANGED pending
       ELSE pending' = tab[t].account /\ Work(t, "staged", tab[t].account)
    /\ UNCHANGED <<vault, history>>

(* The first tab wins; a later one adopts its keys.                        *)
stageRegistration(t) ==
    /\ At(t, "onboarding", "stage")
    /\ IF vault # None THEN create(t) /\ UNCHANGED pending
       ELSE LET selected == IF pending = None THEN tab[t].account ELSE pending
            IN  pending' = selected /\ Work(t, "staged", selected)
    /\ UNCHANGED <<vault, history>>

(* It is read back before it is used.                                      *)
StageVerified(t) ==
    /\ At(t, "onboarding", "staged")
    /\ IF pending = tab[t].account THEN Step(t, "ask") ELSE create(t)
    /\ UNCHANGED <<store, history>>

(* hasAccount, before registering and again when that failed.              *)
hasAccount(t) ==
    /\ tab[t].phase = "onboarding"
    /\ \/ tab[t].op = "ask" /\ Step(t, IF tab[t].account \in server THEN "finish" ELSE "register")
       \/ tab[t].op = "retry" /\ IF tab[t].account \in server THEN Step(t, "finish") ELSE create(t)
       \/ tab[t].op \in {"ask", "retry"} /\ create(t)
    /\ UNCHANGED <<store, history>>

(* The relay makes the account and the answer arrives or not, or it        *)
(* refuses: the name is taken, the account exists, nobody answers.         *)
register(t) ==
    /\ At(t, "onboarding", "register")
    /\ \/ /\ tab[t].account \notin server
          /\ server' = server \cup {tab[t].account}
          /\ Step(t, "finish") \/ Step(t, "retry")
       \/ Step(t, "retry") /\ UNCHANGED server
    /\ UNCHANGED <<store, minted, backedUp, erased, mistaken>>

(* Pending becomes active in one transaction; what is there stays.         *)
finishRegistration(t) ==
    LET a == tab[t].account
    IN  /\ At(t, "onboarding", "finish")
        /\ IF vault # None
           THEN /\ UNCHANGED store
                /\ IF vault.kind = "device" /\ vault.account = a THEN Show(t, "ready", a) ELSE create(t)
           ELSE IF pending # a THEN create(t) /\ UNCHANGED store
           ELSE vault' = Record("device", a) /\ pending' = None /\ Show(t, "ready", a)
        /\ UNCHANGED history

-----------------------------------------------------------------------------
(* Bringing an account to this device *)

(* The phrases whose words and checksum a form takes: those written down.  *)
ImportPhrase == backedUp
RecoverWithPhrase == backedUp

(* The typed phrase is known at the relay and no signup waits.             *)
Restore(t) ==
    /\ Welcome(t) /\ pending = None
    /\ \E a \in ImportPhrase \cap server : Work(t, "restore", a)
    /\ UNCHANGED <<store, history>>

(* Mutant: a signup that began meanwhile is not looked at.                 *)
createOverPending(t) ==
    /\ At(t, "onboarding", "restore")
    /\ IF vault = None
       THEN vault' = Record("device", tab[t].account) /\ Show(t, "ready", tab[t].account)
       ELSE UNCHANGED vault /\ End(t)
    /\ UNCHANGED <<pending, history>>

(* Mutant: an account that another tab has brought is not looked at.       *)
createOverVault(t) ==
    /\ At(t, "onboarding", "restore")
    /\ IF pending = None
       THEN vault' = Record("device", tab[t].account) /\ Show(t, "ready", tab[t].account)
       ELSE UNCHANGED vault /\ End(t)
    /\ UNCHANGED <<pending, history>>

createDeviceVault(t) ==
    LET a == tab[t].account
    IN  /\ At(t, "onboarding", "restore")
        /\ IF vault = None /\ pending = None
           THEN vault' = Record("device", a) /\ Show(t, "ready", a)
           ELSE /\ UNCHANGED vault
                /\ IF pending = None /\ vault.kind = "device" /\ vault.account = a
                   THEN Show(t, "ready", a) ELSE End(t)
        /\ UNCHANGED <<pending, history>>

(* The packages that other devices have shown: the vault under its PIN,    *)
(* with attempts of its own and without the choice to erase.               *)
exportVaultTransfer == {Record("pin", a) : a \in Elsewhere}

(* A package is read field by field; one that was altered is none.         *)
transferVault(package) == package # None

attemptsRemaining(record) == IF record.kind = "pin" THEN MaxAttempts - record.attempts ELSE MaxAttempts

(* The package is put down, unless it is there already.                    *)
importVaultTransfer(package) ==
    /\ transferVault(package) /\ pending = None
    /\ \/ vault = None /\ vault' = package
       \/ vault # None /\ vault.kind = "pin" /\ vault.account = package.account /\ UNCHANGED vault

(* A package and its PIN are typed; the vault is opened with the PIN while *)
(* there are attempts left.                                                *)
ImportTransfer(t) ==
    /\ Welcome(t)
    /\ \E package \in exportVaultTransfer \cup {None} :
          /\ importVaultTransfer(package)
          /\ attemptsRemaining(vault') > 0
          /\ tab' = [tab EXCEPT ![t].op = "guess", ![t].account = package.account,
                                ![t].read = vault', ![t].why = "enter"]
    /\ UNCHANGED <<pending, history>>

-----------------------------------------------------------------------------
(* The PIN *)

(* The vault is read and opened, to enter, to show the phrase or to change *)
(* the PIN.  Without a PIN any input opens it.                             *)
unlockVault(t, why) ==
    /\ vaultExists /\ attemptsRemaining(vault) > 0
    /\ Read(t, "guess", vault.account, why)

openDeviceVault == IF vaultKind = "device" THEN {vault.account} ELSE {}

(* The lock screen: a PIN, a forgotten one, another account.               *)
Unlock(t) == At(t, "locked", "none")

submit(t) == Unlock(t) /\ unlockVault(t, "enter") /\ UNCHANGED <<store, history>>

(* The rows of Settings; two of them only for a device that has a PIN, as  *)
(* far as Settings knows.                                                  *)
Settings(t, row) == At(t, "ready", "none") /\ (row \in {"pin", "erase"} => tab[t].secured)

(* Someone who is shown the phrase may write it down.                      *)
Shown(a) == backedUp' = backedUp \/ backedUp' = backedUp \cup {a}

(* The phrase is shown at once where there is no PIN.                      *)
RevealPhrase(t) ==
    /\ Settings(t, "phrase")
    /\ \/ \E a \in openDeviceVault : Shown(a) /\ UNCHANGED tab
       \/ unlockVault(t, "reveal") /\ UNCHANGED backedUp
    /\ UNCHANGED <<store, server, minted, erased, mistaken>>

ChangePin(t) == Settings(t, "pin") /\ unlockVault(t, "change") /\ UNCHANGED <<store, history>>

(* After an import the relay may fail the sign-in, and nobody is let in.   *)
Opened(t) ==
    /\ CASE tab[t].why = "enter" -> \/ Show(t, "ready", tab[t].account)
                                    \/ tab[t].phase = "onboarding" /\ End(t)
         [] tab[t].why = "reveal" -> End(t)
         [] OTHER -> Step(t, "wrap")
    /\ IF tab[t].why = "reveal" THEN Shown(tab[t].account) ELSE UNCHANGED backedUp

RightPin(t) ==
    LET r == tab[t].read
    IN  /\ tab[t].op = "guess"
        /\ vault' = IF r.kind = "pin" /\ r.attempts > 0 THEN [r EXCEPT !.attempts = 0] ELSE vault
        /\ Opened(t)
        /\ UNCHANGED <<pending, server, minted, erased, mistaken>>

(* The attempt is recorded; the last one erases the device where that is   *)
(* the owner's choice.                                                     *)
WrongPin(t) ==
    LET r == tab[t].read
        attempts == r.attempts + 1
    IN  /\ tab[t].op = "guess" /\ r.kind = "pin"
        /\ IF attempts >= MaxAttempts /\ r.erase
           THEN /\ destroyTimberDb
                /\ IF tab[t].phase = "locked" THEN wiped(t) ELSE End(t)
           ELSE /\ vault' = [r EXCEPT !.attempts = attempts]
                /\ End(t)
                /\ UNCHANGED <<pending, erased>>
        /\ UNCHANGED <<server, minted, backedUp, mistaken>>

(* createVault reads the record for what is carried over ...               *)
createVaultReads(t) ==
    /\ tab[t].op = "wrap"
    /\ Read(t, "wrapped", tab[t].account, tab[t].why)
    /\ UNCHANGED <<store, history>>

(* ... and writes the phrase under the new PIN.                            *)
createVault(t) ==
    LET r == tab[t].read
        a == tab[t].account
    IN  /\ tab[t].op = "wrapped"
        /\ vault' = [Record("pin", a) EXCEPT
              !.erase = r # None /\ r.kind = "pin" /\ r.erase,
              !.card = (r # None /\ r.card) \/ tab[t].why = "reset"]
        /\ IF tab[t].why = "reset" THEN Show(t, "ready", a) ELSE End(t)
        /\ mistaken' = (mistaken \/ (tab[t].why = "reset" /\ r # None /\ r.account # a))
        /\ UNCHANGED <<pending, server, minted, backedUp, erased>>

(* A forgotten PIN is set again with the phrase of the account on the card, *)
(* or with any phrase when there is no card.                               *)
resetPinWithPhrase(t, a) ==
    /\ vaultIdentity => vault.account = a
    /\ tab' = [tab EXCEPT ![t].op = "wrap", ![t].account = a, ![t].why = "reset"]

resetPin(t) ==
    /\ Unlock(t)
    /\ \E a \in RecoverWithPhrase : resetPinWithPhrase(t, a)
    /\ UNCHANGED <<store, history>>

-----------------------------------------------------------------------------
(* The account in use *)

lock(t) ==
    /\ tab[t].phase = "ready"
    /\ Show(t, "locked", None)
    /\ UNCHANGED <<store, history>>

(* Settings learns whether there is a PIN; until then it takes it for granted. *)
isVaultSecured(t) ==
    /\ tab[t].phase = "ready"
    /\ tab' = [tab EXCEPT ![t].secured = (vaultKind = "pin")]
    /\ UNCHANGED <<store, history>>

(* SecureAccount shows the phrase ...                                      *)
ShowPhrase(t) ==
    /\ At(t, "ready", "none")
    /\ \E a \in openDeviceVault : Work(t, "phrase", a)
    /\ UNCHANGED <<store, history>>

(* ... has some of its words typed ...                                     *)
ConfirmPhrase(t) ==
    /\ At(t, "ready", "phrase") /\ Step(t, "confirmed")
    /\ backedUp' = backedUp \cup {tab[t].account}
    /\ UNCHANGED <<store, server, minted, erased, mistaken>>

secureVaultWithPin(t) ==
    \E a \in openDeviceVault :
        tab' = [tab EXCEPT ![t].op = "wrap", ![t].account = a, ![t].why = "secure"]

(* ... and takes a PIN, twice the same.                                    *)
SetPin(t) == At(t, "ready", "confirmed") /\ secureVaultWithPin(t) /\ UNCHANGED <<store, history>>

(* Its steps can be left.                                                  *)
SecureAccount(t) ==
    /\ At(t, "ready", "phrase") \/ At(t, "ready", "confirmed")
    /\ End(t)
    /\ UNCHANGED <<store, history>>

(* The record is read, changed and put back.                               *)
setVaultIdentity(t) == IF ~vaultExists THEN End(t) ELSE Read(t, "put", None, "show")
forgetVaultIdentity(t) == vaultIdentity /\ Read(t, "put", None, "hide")
setEraseOnFailure(t, why) == vaultKind = "pin" /\ Read(t, "put", None, why)

(* A card that is there is brought up to date; it is looked for first.     *)
refreshVaultIdentity(t) ==
    /\ \/ At(t, "ready", "none") /\ vaultIdentity /\ Step(t, "refresh")
       \/ At(t, "ready", "refresh") /\ setVaultIdentity(t)
    /\ UNCHANGED <<store, history>>

LockScreenName(t, on) ==
    /\ Settings(t, "card")
    /\ IF on THEN setVaultIdentity(t) ELSE forgetVaultIdentity(t)
    /\ UNCHANGED <<store, history>>

EraseOnFailure(t, on) ==
    /\ Settings(t, "erase")
    /\ setEraseOnFailure(t, IF on THEN "arm" ELSE "disarm")
    /\ UNCHANGED <<store, history>>

writeVault(t) ==
    LET r == tab[t].read
    IN  /\ tab[t].op = "put"
        /\ vault' = CASE tab[t].why = "show" -> [r EXCEPT !.card = TRUE]
                      [] tab[t].why = "hide" -> [r EXCEPT !.card = FALSE]
                      [] OTHER -> [r EXCEPT !.erase = (tab[t].why = "arm")]
        /\ End(t)
        /\ UNCHANGED <<pending, history>>

wipeDevice(t) == destroyTimberDb /\ wiped(t) /\ UNCHANGED <<server, minted, backedUp, mistaken>>

(* From Settings, and from the lock screen to use another account.         *)
WipeDevice(t) == Settings(t, "wipe") /\ wipeDevice(t)
forget(t) == Unlock(t) /\ wipeDevice(t)

-----------------------------------------------------------------------------

Next == \E t \in Tabs :
    \/ Boot(t) \/ Close(t)
    \/ startSignup(t) \/ ClaimUsername(t) \/ stageRegistration(t) \/ StageVerified(t)
    \/ hasAccount(t) \/ register(t) \/ finishRegistration(t)
    \/ Restore(t) \/ createDeviceVault(t) \/ ImportTransfer(t)
    \/ submit(t) \/ RevealPhrase(t) \/ ChangePin(t) \/ RightPin(t) \/ WrongPin(t)
    \/ createVaultReads(t) \/ createVault(t) \/ resetPin(t)
    \/ lock(t) \/ isVaultSecured(t)
    \/ ShowPhrase(t) \/ ConfirmPhrase(t) \/ SetPin(t) \/ SecureAccount(t)
    \/ refreshVaultIdentity(t) \/ \E on \in Cards : LockScreenName(t, on)
    \/ \E on \in Erasures : EraseOnFailure(t, on)
    \/ writeVault(t) \/ WipeDevice(t) \/ forget(t)

Spec == Init /\ [][Next]_vars

-----------------------------------------------------------------------------
(* Correctness *)

(* Every variable stays in its type.                                       *)
TypeOK ==
    /\ vault \in Records \cup {None}
    /\ pending \in Accounts \cup {None}
    /\ \A t \in Tabs :
          /\ tab[t].phase \in {"loading", "onboarding", "locked", "ready"}
          /\ {tab[t].session, tab[t].account} \subseteq Accounts \cup {None}
          /\ tab[t].read \in Records \cup {None}
    /\ Elsewhere \subseteq server /\ server \subseteq minted /\ minted \subseteq Accounts
    /\ backedUp \subseteq server

(* An account is never made without its keys: whatever tab, lost answer or *)
(* closed page, what the relay has registered from this device can be      *)
(* reached from it or from the owner's notes, until the device is erased   *)
(* or its vault overwritten with another phrase (lib/registration.js: a    *)
(* signup is durable before the request that can create an account).       *)
KeysAreKept ==
    ~erased /\ ~mistaken =>
        \A a \in server \ backedUp : (vault # None /\ vault.account = a) \/ pending = a

(* A device that holds an account has no signup waiting, which would       *)
(* never be taken up again, until it is erased (createDeviceVault,         *)
(* importVaultTransfer, stageRegistration).                                *)
NoSignupIsStranded == ~erased => vault = None \/ pending = None

(* All tabs that are in are in the same account, the one of the vault,     *)
(* whichever of them signed up, restored or imported it.                   *)
OneAccountPerDevice ==
    ~erased /\ ~mistaken =>
        \A t \in Tabs : tab[t].session # None => vault # None /\ vault.account = tab[t].session

-----------------------------------------------------------------------------
(* What comments say and the code does not do *)

(* A PIN is only set on an account whose phrase is backed up (vault.ts     *)
(* secureVaultWithPin: "the invariant the whole recovery model rests on"). *)
PinMeansBackedUp == vault # None /\ vault.kind = "pin" => vault.account \in backedUp
=============================================================================
