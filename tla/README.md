# Timber: a TLA+ model of the relay, its clients and their promises

This directory is the formal model of the messenger in this repository. Timber
is a private messenger for two people at a time: a Rust relay
(`src/backend`, axum and PostgreSQL) that stores sealed messages and passes
events on, and a browser client (`src/frontend`, React) that keeps a person's
history in an encrypted IndexedDB database and talks to the relay over HTTP and
one WebSocket. `PROJECT.json` maps each definition to the lines it models.

Contents: [the system](#the-system) · [the modules](#the-modules) ·
[the runs](#the-runs) · [the proofs](#the-proofs) ·
[where code and comments disagree](#where-code-and-comments-disagree) ·
[plan](#plan) · [not modelled](#not-modelled)

## The system

```
   device of Ada                        relay                     device of Tobi
 +----------------+   WebSocket   +----------------+  WebSocket  +----------------+
 | composer, chat | ---- up ----> | ws.rs          | <--- up --- |                |
 | sync.js        | <--- down --- |  broadcast hub | --- down -> |     same       |
 | localStore.ts  |               | routes/*.rs    |             |                |
 | (IndexedDB)    | ---- HTTP --> | PostgreSQL     | <--- HTTP - |                |
 +----------------+               +----------------+             +----------------+
```

| Component | State it keeps | Operations | Hard behaviour | What makes it correct |
|---|---|---|---|---|
| **Message delivery** (`ws.rs`, `routes/conversations.rs`, `lib/sync.js`, `hooks/useWebSocket.js`) | `messages`, `read_receipts`; the outbox, receipt cursor, parked receipts | send, publish, delivered and read receipts, history, receipt poll, reconcile, backfill | lost sockets, lagging broadcast, refused events, two backfills at once, a timer inside a pass | ticks are true and only go up; nothing typed is lost; what is stored arrives |
| **Local message store** (`db/localStore.ts`) | rows, flags `seen`, `deliveredAck`, `readAck` and receipt times | `putMessage`, `confirmMessage`, `markReceipt`, `markSeen`, `markAck`, the two sweeps | read and write of a row are two transactions; handlers and backfills interleave | no lost acknowledgement, tick or read |
| **Friendship and invites** (`routes/friends.rs`, `routes/users.rs`) | `friend_requests`, `conversations`, `referrals` | ask, answer, remove, redeem an invitation | check and write are separate statements; row locks | only people who both want to may write to each other |
| **Explore** (`routes/explore.rs`) | visibility, likes, blocks, matches | opt in or out, like, pass, block, report | races with requests, with opting out and with blocks | a match is mutual and welcome |
| **Relay hub and presence** (`ws.rs`, `models.rs`, `main.rs`) | connection counts, `is_online`, `ws_tickets` | connect, disconnect, publish, notify offline users | counting sockets of several tabs; a crash leaves people online | online means a socket is open |
| **Scheduled messages** (`ws.rs`, `main.rs`) | `scheduled_messages` | schedule, cancel, deliver the due batch | one failing row in a batch; two relays | each due message is sent once |
| **Calls** (`routes/calls.rs`, `hooks/useCall.js`) | `pending_calls`, `pending_call_signals`; `callRef` on the client | offer, answer, candidates, reject, end, resume, time out | both call at once, candidates before the offer, a late answer | both sides agree whether there is a call |
| **Growth, levels, streaks** (`growth.rs`, `levels.rs`, `streaks.rs`) | points, daily caps, streak days | award, promote, touch | concurrent awards against a cap, day boundaries | caps hold; a streak counts days both wrote |
| **Unlocked session** (`lib/lockSession.js`, `lib/lockPolicy.ts`, `hooks/useAutoLock.js`, `crypto/session.ts`, `crypto/resume.ts`) | keys in memory, a lease, timers | unlock, lock, extend, resume | several tabs, sleeping laptops, reloads | locked means no key is left in memory |
| **Challenge, login, registration** (`auth.rs`, `crypto/registration.ts`, `lib/registration.js`) | `auth_challenges`, `auth_sessions`, user names | challenge, register, log in, refresh | a challenge used twice, a registration cut off half way | one account for each name and key |
| **Vault and recovery phrase** (`crypto/vault.ts`, `crypto/identity.ts`) | the sealed vault record | create, secure, unlock, wipe | an interruption between two writes | the phrase always opens what is stored |
| **Projection of a conversation** (`presentMessages` in `db/localStore.ts`) | none | fold edits, deletions, reactions, votes | order of controls | every device shows the same bubbles |
| **Rate limits** (`limits.rs`) | sliding windows | take, prune | the edge of a window | never more than the limit in any window |

The other components (envelopes, attachments, profiles, push, screens, schema,
entry points) are listed in `PROJECT.json` with what is left out of them.

**How they interact.** A client handler writes IndexedDB and then sends an event.
The relay handler writes PostgreSQL and then publishes to a broadcast channel
that each socket task filters. A socket that is not subscribed at that moment
never gets the event, so everything pushed has a second path: HTTP history for
messages, HTTP receipts for ticks, a timer for both. Most of the hard behaviour
sits where a pushed event and its second path meet. Friendship gates delivery: a
message needs a `conversations` row, and three different handlers make one.

The hazards of the code, each at the line where it bites, are in `PROJECT.json`
under `hazards`, with the properties that cover them or the reason none does yet.

## The modules

| Module | Models | Role |
|---|---|---|
| `TickLadder` | what the ticks promise (`migrations/0009`) | abstract specification |
| `MessageDelivery`, `MCMessageDelivery` | relay, sockets and two devices | detailed specification, its instances |
| `MessageDelivery_proofs` | its theorems | proofs |
| `LocalStore`, `MCLocalStore` | one device's store, await by await | detailed specification, its instances |
| `LocalStore_proofs` | its theorems | proofs |
| `Conversation`, `MCConversation` | what one device shows of a conversation | detailed specification, its instance |
| `Conversation_proofs` | its theorems | proofs |
| `Friendship`, `MCFriendship` | requests, invitations, Explore | detailed specification, its instance |
| `Friendship_proofs` | its theorems | proofs |
| `Calls`, `MCCalls` | two call controllers and the relay between them | detailed specification, its instances |
| `Calls_proofs` | its theorems | proofs |
| `Account`, `MCAccount` | the vault, signups and tabs of a device | detailed specification, its instance |
| `Account_proofs` | its theorems | proofs |
| `Lock`, `MCLock` | the unlocked session: keys, resume token, leases, tabs | detailed specification, its instance |
| `Lock_proofs` | its theorems | proofs |
| `RelaySession` | the session at the relay: token, refresh, recovery, socket | detailed specification, checked as it is |
| `RelaySession_proofs` | its theorems | proofs |

Three modules look at a message from different sides. `MessageDelivery` has both
ends, with the two transactions of `putMessage` and the other awaits of a device
merged; `LocalStore` takes all of the device's rows apart into transactions; `Conversation` follows what becomes of the rows on screen.
`Account` makes the vault that `Lock` opens, and `RelaySession` is what happens at
the relay behind an open `Lock`. `MessageDelivery`'s socket that opens and drops
is the one that `RelaySession` gets a ticket for.

### MessageDelivery and TickLadder

| State | In the code |
|---|---|
| `log`, `delivered`, `read` | tables `messages` (in order), `messages.delivered_at`, `read_receipts` |
| `link`, `up`, `down` | a socket and its two directions; `"open"` is a socket the browser has and the relay's task has not subscribed yet |
| `rows[u].pending / held / seen / ...` | rows `pending-<uuid>` and confirmed rows of the messages store with their flags |
| `cursor`, `parked` | the meta record `receipts:<conversation>` and the map `deferredReceipts` |
| `pc`, `fetch`, `receipts`, `latch` | where `reconcileRealtime` and `loadConversation` are, their locals, `reconcileQueued` |
| `puts` | calls of `putMessage` that have read their row and not written it |
| `handlers` | continuations of socket and screen handlers after an await |
| `composed`, `opened`, `raced`, `spent` | history, and the counters of the bounds |

Relay actions are the arms of `handle_client_event`; `Receive*` are the cases of
`onmessage`; `Backfill*`, `SendBacklog`, `ApplyReceipts` are the stages of a
pass between two awaits of the network. `ReceiveMessage` and `BackfillGet` end with
the get of `putMessage`, `StoreReceived` and `BackfillPut` are its put, and
anything may come between; what is written of the same message then is in `raced`.
`Compose`, `OpenChat`, `Refocus`,
`LeaveChat` are what people do; `RelayReject`, `RelayLag`, `Drop`, `Reload`,
`ReconcileFails`, `LoadFails`, `TimerInPass` are what goes wrong.

Abstractions, each chosen to keep the control whole:

- Each user has one device, and there is one conversation, which is never deleted.
- The clock is the length of the log: a message's position is its id and its
  `created_at`, and client clocks agree with the relay's. A pending row is dated
  by the log at the time it was typed.
- What a device does between two network awaits is one step, but for the get and
  the put of `putMessage`. `LocalStore` interleaves the awaits of the local database
  that this merges (the deletion of the optimistic row, the sweeps and their marks).
- The receipt poll's window of 14 days and its limit leave nothing of a run out.
- The relay writes and publishes in one step; two handlers of different sockets
  are not reordered between their commit and their publish.
- A request is answered with the relay's state when it is made; the answer is
  used in a later step. A failed `POST read` may or may not have been recorded.
- The relay refuses an event before it stores anything.
- What fails is drawn from `OutsideKinds`, each kind with its bound `MaxTimes`
  and all of them together with `MaxOutside`. `MaxCopies` bounds how many copies
  of a draft the outbox puts on the wire.

`TickLadder` says what the three ticks mean with nothing of how: sets that grow,
`stored ⊇ arrived ⊇ openedThere`, and ticks within them. The second and third tick
may come down for `unsettled` messages only. The mapping `Ladder` reads what happened
off the relay's log and the recipient's device, the ticks off the sender's device,
and takes for unsettled what was written there between the get and the put of the
same message (`raced`): the code does walk such ticks back, as the findings say.

### LocalStore

One device's messages store as a queue of IndexedDB transactions, run in the
order they were created. `putMessage` is a get and a put with anything in
between; `confirmMessage` is a delete before them; `markReceipt`, `markSeen`,
`markAck` and the collection of a sweep are one transaction each. `calls` are the
`putMessage` calls in progress, one for each socket handler and each backfill;
`pages` the rest of a page; `sweeps` the two sweeps (`sync.js` `sweepReceipts`),
between reading the ids, sending the frame and marking. The relay is reduced to
the receipts it has recorded (`told`) and those on their way (`events`), pushed
or polled. There is one sweep of each kind at a time. `MaxQueue` bounds the
transactions created and not run, `MaxReloads` the reloads.

### Friendship

`request` is the table `friend_requests` by (sender, receiver), `conversations`
the pairs that may write, `visible`, `likes`, `blocks`, `matches` the Explore
tables, and `calls` the handlers in progress with what they have read. A
statement is atomic; so is the run of writes that ends a transaction, as its
locks keep others away until it commits. What a handler reads in one statement
and uses in the next is two steps: `Ask`, `AskAllowed`, `AskUpsert` are
`send_friend_request`; `JoinInvited`, `RedeemCheck`, `RedeemCommit` the
invitation; `Remove`, `RemoveCommit` the removal with its deleted rows locked
(`Locked`); `Like`, `LikeStore`, `LikeCommit` are `like_card`, with the pair's
advisory lock (`PairLocked`) and the row lock of the like it updates
(`LikeHeld`, `LikeWritten`); `Judge` with `PassCommit` or `ReportCommit` are
`pass_card` and `report_card`. `Block` and `OptOut` delete the likes that are
committed and `EraseCommit` makes that, the block and the departure visible: a
like under way is not deleted, and until the commit both sides are eligible.
`respond_friend_request` locks the row it reads and is one step. `wanted`,
`declined` and `crossed` are history, which the properties use to say who did
what, and which likes ran beside such an erasure. Metro areas, interests and signed keys only take cards away
and everybody has them; rate limits, growth awards and notifications change no
row of these tables. `MaxRemovals` and `MaxActs` bound the operations begun.

### Conversation

| State | In the code |
|---|---|
| `log`, `friends` | the relay's messages and whether the two are still friends |
| `drafts`, `composing` | what Ada composed; whose optimistic row is put and not yet sent |
| `wire`, `up` | events on the socket (0 stands for `friend.removed`) |
| `known`, `rows` | the conversation and its messages in IndexedDB; `byConversation` lists them in the order of the index |
| `received`, `confirming` | handlers that have looked the conversation up and not put the row |
| `pages`, `lists`, `older` | what `presentMessages`, `conversationsForList` and `loadOlder` have read and not shown |
| `view`, `list` | `messages[id]` and the chat list entry of `chatStore.js` |
| `load`, `sync` | where `loadConversation` and `reconcileRealtime` are |

`presentMessages` folds the rows of a page, each a bubble or a control on those
before it; `Folded` is one turn of its loop and `Altered` its switch. Everything that reads a page shows it in a later
step, and what was shown in between is overwritten, as in the code. The text of
a message is the identity of the message that wrote it: an edit names the edited
message, so `OnlyAuthorsAlter` and `NewestPageIsExact` can be said without strings.
Files and postcards fold like text and are left out of `Kinds`. The run has
texts, edits and deletions; the same properties also hold, in longer checks
outside the runs, for texts, edits, deletions and reactions (1,091,836
states) and for texts, calls, deletions and call updates (812,033).
`MaxBusy` bounds the handlers and reads under way when one more message is taken.

### Calls

`ctx[x]` is the context object of `useCall.js` for a call that was placed, pushed
or fetched at launch (`made`), with the place its handler has reached (`task`),
its connection (`pc`), its camera or microphone (`capture`), its connect timer
and its candidates; `ref` is `callRef.current`, `screen` the phase shown,
`orphans` the candidates that came before any context, `pending` the relay's row
with its signals. The call's card and the statuses recorded on it are sealed messages
of the conversation, sent through the outbox as `MessageDelivery` follows any
message; here they are an await that may fail. Each
await of the handlers is a step boundary: `getUserMedia`, `createOffer`, the
sealing and opening of a signal, `setRemoteDescription`. An event is appended to
the peer's `inbox` if its socket is up; otherwise the stored signals are the second
path. Media, descriptions and candidates are reduced to the context they come
from, and a connection comes up when both ends are described. What goes wrong
is drawn from `OutsideKinds` (a socket drops, an event is lost to its socket or to the
rate limit, a handler's step fails, a page is reloaded, a stored call expires, a
device is opened and fetches), bounded by `MaxTimes` and `MaxOutside`. Mute, camera
switch, tones and notices change no call.

### Account

`vault` is the record under `"seed"` with its kind (`device` or `pin`), failed
attempts, erase switch and recognition card; `pending` the record under
`"pending-registration"`; a tab has what App shows, whose session it holds, and
the handler in progress (`op`) with the record it read (`read`). A phrase and the
account it derives are one value; a PIN is right or wrong. Writers of the vault
that read in one transaction and put in another are two steps with anything of
another tab in between. The relay makes the account or refuses, and its answer may
be lost; a page may close at any point. Left out: `navigator.locks`, which
browsers may lack (the code then runs without), and a failure of the database
when App boots. `Cards` and `Erasures` are the ways the two switches are turned.
`backedUp`, `erased` and `mistaken` are history.

### Lock

The clock counts units of which a lease is a few. `tab[t]` is a page: its phase,
`open` (`openedAt` of the session, 0 without one), `armed` (what `useAutoLock` was
given), the handler that waits (`task`), the token being sealed, the changes of policy
under way (`changes`) and whether a token is being cleared; `resume` is the sealed token in the vault store, `stored` the
policy in `localStorage`, `kind` whether the vault has a PIN. `sealResume` is three
steps: the record is made with a reference to the seed's buffer, encrypted with
whatever the buffer holds by then, and put. A lock may come between any two of
them. `MaxChanges` policies may be chosen one after another while the first is
still being sealed (in the tabs `Choosers`); each is shown again when it is done
(`applied`), which closes the channel and whatever it had not delivered (`shows`).
`AutoLock` is a timer or the visibility check; it tells the other tabs
(`heard`), whose channel is closed during a call. A device may sleep through any
tick.

### RelaySession

One page: the token, sign-ins behind an unlock (`entering`), of the recovery loop
(`loop.trying`), of a refresh that many requests wait for (`refreshing`), of the
socket's own after a 401 and of a socket hook that is gone (`late`); requests
with the token they were sent with; sockets and the reference to one. A sign-in is
one request that succeeds, fails, or fails after it has set its token (the key
attestation comes last). `MaxRequests` bounds the requests under way, `MaxExpiries`
how often a token expires, `MaxOpenings` the unlocks.

## The runs

| Run | Instance | Distinct states | Shows |
|---|---|---|---|
| `md_faults` | both connected, 1 message, page of 2, any 2 outside steps | 705,346 | the ticks are true and grounded (`TicksNeverLie`, `NoClaimRunsAhead`, `RowsAreGrounded`), implement `TickLadder`, and climb only, with nothing left parked, but for messages written between a get and its put; nothing typed is lost |
| `md_catch_up` | from the recipient's first connection, 2 messages, pages of 1, 1 look at the chat | 269,477 | a backfill that completes has everything above its mark |
| `md_liveness` | from the first connections, 1 message, timer ticking, 1 refusal or skipped event, fair | 89,702 | what is typed reaches the relay; in an undisturbed session the second tick comes |
| `ls_writers` | a message each way, 1 backfill, queue of 2 | 884,492 | nothing is taken for acknowledged, delivered, read or opened that was not |
| `ls_acknowledged` | a message of the peer's, 2 backfills, queue of 4, 1 reload, fair | 149,570 | a lost acknowledgement is repaired in the end |
| `conversation` | 3 messages, pages of 2, 1 draft, 1 drop, text, edits and deletions | 367,937 | only authors alter, the newest page is folded exactly, what was typed is kept, the chat list ends up true |
| `fr_pair` | 2 people, 2 handlers, 8 operations, 1 removal | 967,526 | consent on both sides; two refusals before a block; two likes that stand are a match; a like finds an answer only when welcome or crossed |
| `calls` | a call each way, 1 event lost | 278,414 | no camera without a call, the screen shows the call that can be ended |
| `calls_live` | 1 call, 1 fault of any kind or 1 fetch of stored calls, fair | 54,172 | nobody waits for ever or talks alone; parked candidates are flushed; no camera without a call or one that a fetched call replaced |
| `account` | 2 tabs, 2 phrases and one account from elsewhere, 2 attempts | 318,831 | registered accounts keep their keys, no signup is stranded, tabs agree on the account |
| `lock` | 2 tabs, vaults with and without a PIN, 2 policies, 2 changes at once in one tab, 3 units of time, fair | 578,023 | keys are with the screen, no lease is renewed, every lease ends |
| `relay_session` | 2 requests, 1 expiry, 2 unlocks, fair | 35,548 | a stopped loop stays stopped, recovery ends in a session, the socket comes back |

**Type invariants.** Six of them are not among the runs' properties.
`MessageDelivery`, `Lock`, `LocalStore`, `Calls`, `Account` and `Conversation` have
theirs proved instead, for every instance.

**Starting states.** `Spec` starts with nobody connected. `ConnectedSpec`
starts with both sockets live and nothing typed, which a run
from `Init` passes through; this saves the connection's interleavings where the
question is about what happens after it. `TobiAwaySpec` starts with one message
stored and its recipient never connected, which is also reachable. `Lock` starts
with a vault of either kind and pages that have just been loaded, `Account` with
an empty device and one account made elsewhere.

**Why the bounds are enough.** The races in question need few actors. A tick
involves one message, its sender and its recipient; a lost or reordered receipt
needs one or two faults at chosen moments, and `md_faults` puts any two anywhere.
Pages matter once a backfill fetches more than one: two messages in pages of
one. A write of an old row needs one reader, one writer in between and the put:
a queue of two transactions holds that; two backfills and a handler need four.
In `Friendship` every race is between two handlers on one pair, and eight
operations carry a row through two refusals with something else in between, or
two people into Explore, through a like, an erasure beside it and the answer.
In `Calls` two calls are one for each direction, so that both may call at once, or
one after another in one context. In `Account` two tabs and two phrases make
every pair of writers meet, two attempts are one that fails and one that erases,
and one account made elsewhere is what restoring needs. In `Lock` a lease of two
units has a moment inside it and one past it, and two tabs are the one that
locks and the one that hears; two changes of policy are one that overtakes another,
in one of the tabs. In `RelaySession` two requests are one that waits
for the refresh of another, and two openings one that outlives a lock. In
`Conversation` pages of two with three messages make the fold of a page differ
from the fold of all. The theorems below lift the bounds from the main invariants.

**Symmetry and constraints.** `account` uses the symmetry of the tabs and of the
two phrases made on the device (no liveness is checked there), and
does not follow a device past its erasure or past a reset with the wrong phrase
(`InUse`), after which its properties say nothing. Nothing else is symmetric: Ada
and Tobi play different parts.

**Fairness.** `MessageDelivery!Fairness` is weak, on each device, for the relay's
socket task, the browser's callbacks, a pass whose request is answered, the
reconnect loop with backoff, the subscription that follows an accepted upgrade,
and the timer of an open socket: each is a turn of an event loop or an
interval that nothing in the code cancels. Nothing is assumed of people or of
faults. `ArrivalIsTicked` excuses sessions in which something was lost
(`Disturbed`); `EverythingTypedReachesTheRelay` excuses nothing. `LocalStore!
Fairness` has weak fairness for the database (`Run`), for a backfill storing its
page and for the sweep that the timer starts, and strong fairness for a sweep
being taken by the socket: it may find the socket closed any number of times, but
not for ever, since the client keeps reopening it. `Calls!Fairness` is weak for the
continuations of handlers and their failures, for the connect timer, for what
WebRTC reports of a connection and for the socket. `Lock!Fairness` is weak
for a timer that is due (or the visibility check of a page that has slept). `RelaySession!Fairness` is weak for timers and for
requests that end one way or the other, and strong for a sign-in, a
refresh and a socket that are tried again and again succeeding once: a relay
that is asked for ever is awake for one of them. That a refresh ends at all assumes
that the relay takes a token it has just issued: its last request goes through the
interceptor that waits for it (a finding). `Reconnect` is strong only because
`MaxRequests` may hold it up, which the code does not. `Conversation` is weak in
its program steps and assumes nothing of people or of the relay's losses.

**Deadlock.** Runs in which everything has been said may stop
(`CHECK_DEADLOCK FALSE`): the bounds on what is typed and begun are then used up.
Runs with the timer ticking, and `lock`, where a page can always be reloaded,
never stop and check deadlock.

## The proofs

TLAPS proves the following for every set of drafts, people, messages, calls, tabs,
accounts or policies, every page size and every bound, from the modules' named
assumptions alone (two users who are each other's peer, each draft with an author
and each call with a caller, leases and bounds that are numbers, texts among the
payloads and pages of a row at least, a backfill that is no socket handler, a
`None` that is nothing else).

`MessageDelivery_proofs`

| Theorem | States |
|---|---|
| `TypeCorrect` | `Spec => []TypeOK` |
| `ClaimsAreTrue` | `Spec => []NoClaimRunsAhead` |
| `RowsGrounded` | `Spec => []RowsAreGrounded` |
| `TicksAreTruthful` | `Spec => []TicksNeverLie` |
| `NothingIsLost` | `Spec => []NothingTypedIsLost` |
| `NothingStaysParked` | `Spec => []ParkedOnlyForMissing` (but for `raced`) |
| `OnlyForward` | `Spec => DeviceOnlyMovesForward` (but for `raced`) |
| `ImplementsTheLadder` | `Spec => TicksClimbTheLadder` |
| `BackfillFetchesAll` | `Spec => []BackfillCovers` |

`TicksNeverLie` is not inductive: a row takes its tick from an event, a page, a
parked receipt or the answer of a poll, and those come from the relay's tables,
which are filled by events of the other device. The invariant
`TypeOK ∧ RowsAreGrounded ∧ NoClaimRunsAhead` therefore says of every such
source that it claims no more than happened. What happened (`Arrived`, `Opened`)
only grows, so a claim once true stays true (the `Supported` lemmas), and each
action has only to be shown to make no false new one. `RowsAreGrounded` is needed
where a device starts a claim: what a sweep reports is held, and what a read sweep
reports was opened.

A put writes what its get read, however long ago. `PutsAreCurrent` says of every
`putMessage` under way that its record says at least what the row says, and that
nothing is parked for its message, unless the message is in `raced`. Every step but a
put writes on one device in one of few ways (`Writes`), and a put is handled once
(`StoreForward`). From it follow the three statements with `raced` in them; in the
refinement every step grows one of the ladder's sets within its bound, or leaves
all of them alone, or takes an unsettled tick down.

`BackfillCovers` says nothing of a backfill that is half way through, so it is
strengthened to `PagesCover`: each message that was asked for is on the device,
on the page being stored, or older than that page while there is more to fetch. It
is kept because of what a page is (`PageIsNewest`): the newest `PageSize` messages
before a point, so that what it leaves out is older than all it has, unless
the page is short and leaves nothing out. No row is ever taken off the device but
a pending one, and another backfill or handler touches no other's locals
(`OthersKeepFetch`).

`LocalStore_proofs`

| Theorem | States |
|---|---|
| `TypeCorrect` | `Spec => []TypeOK` |
| `AcknowledgedWasSent` | `Spec => []AckedWasSent` |
| `NoTickIsInvented` | `Spec => []StampsWereTold` |
| `OnlyTheOpenedIsReported` | `Spec => []OnlyOpenedIsReported` |

The order of transactions is all that ties a writer's get to its put, and a sweep's
ids to their marking. `Queued` says so: a writer or a sweep has at most one
transaction in the queue, and only while it waits for one; a receipt in the queue
is one the relay told. It is proved from two lemmas about sequences (what is where
after an append and after a removal at the head), which give each action one of
three moves. With it a transaction that runs finds its owner waiting
(`RunIsAwaited`), and each property becomes inductive with what its sources say:
`AckFacts` adds the ids of a sweep that is marking, `StampFacts` the
entries of the pages being stored, `SeenFacts` the rows and the read sweep. None
of the three speaks of the order of a get and its put: a row written from an old
read may lose a flag, and never claims one.

`Conversation_proofs`

| Theorem | States |
|---|---|
| `TypeCorrect` | `Spec => []TypeOK` |
| `AuthorsAlone` | `Spec => []OnlyAuthorsAlter` |
| `PagesAreEnough` | `Spec => []NewestPageIsExact` |
| `TypedIsNeverLost` | `Spec => []TypedIsKept` |

The invariant `IInv` gives the logs, the rows, the wire, the reads under way and
the screen their types, with two things in them that are more than types. The wire
is in the order of the log and ahead of every handler (`WireOK`), without which
one message could be handled twice. And every bubble on screen, in the list, or in a
list that was read and is not shown yet is `Honest`: its text is its author's,
and if it is deleted its author's retraction is there. A step may show a page
that was read long before; that is no harm, as the logs only grow (`Grows`), and a
fold of live rows at any later time yields honest bubbles (`PresentHonest`).
`OnlyAuthorsAlter` is read off that.

`NewestPageIsExact` holds of any set of live rows, however it came about. The fold
of all the rows ends with the fold of the last of them, after bubbles with
other ids (`EndsWith`): one more row is appended to both, or alters the bubbles the
two have in common alike (`FoldEndsWith`). That the index lists each row once,
which the bubbles' ids rest on, is proved of its definition by rank (`Ranks`,
`Index`). `TypedIsKept` is part of the invariant: a pending row goes only when the
message it waited for is in the log, or with the conversation.

What a fold yields is induction over the length of a page. The library's induction
rule takes a predicate, which the provers cannot instantiate; `SetInduction`
says the same of a set of numbers, and follows from the least number of its
complement. For the same reason `presentMessages` and `filter` are recursive
functions and `filter` is given places rather than a test.

`Friendship_proofs`

| Theorem | States |
|---|---|
| `TypeCorrect` | `Spec => []TypeOK` |
| `FriendshipIsWanted` | `Spec => []ConsentOnBothSides` |
| `BlockedSendersWereDeclinedTwice` | `Spec => []BlockedAfterTwoRefusals` |
| `MutualLikesAreMatched` | `Spec => []MutualLikesMatch` |
| `MatchesAreWelcome` | `Spec => MatchIsWelcome` |

Each rests on an invariant that covers the handlers in progress.
`ConsentInv`: a pending row was asked for, a stored like was wanted, and so is
whatever a running handler is about to write; a like that found its answer has
the other's consent with it.
`RefusalInv`: a rejected row, a row of the second attempt, and a handler about to
make one, have a refusal behind them. The row counts attempts and may be
befriended, removed and asked for again; only the invariant ties its counter to
the refusals that happened.
`MatchInv`: no two likes of a pair are in progress at once, which is the advisory
lock, so that a like that found no answer finds none until it is committed.
Without the lock both may miss the other, which a mutation of the action shows.
`WelcomeInv`: a like that runs or stands is between people who are welcome to
each other, or it is crossed; an erasure in progress has every like in its scope
among the rows it deletes or among the crossed ones, and its scope has everybody
it blocks or hides.

`Lock_proofs`

| Theorem | States |
|---|---|
| `TypeCorrect` | `Spec => []TypeOK` |
| `KeysAreWithTheScreen` | `Spec => []KeysFollowTheScreen` |
| `LeasesStartWithAPin` | `Spec => LeaseIsNotRenewed` |

Whether a page has keys depends on the handler it is in the middle of: opening a
resume token has them before the screen changes, and locking drops them before.
`TabOK` says of one page which handler may run in which phase, with or
without keys; it is the whole of `SessionInv`, since no page changes another's.
`LeaseIsNotRenewed` needs to know of every token that is still being sealed that its
time is that of a session in which the PIN was entered (`Remembers`), for a
session that has been locked since, too.

`Account_proofs`

| Theorem | States |
|---|---|
| `TypeCorrect` | `Spec => []TypeOK` |
| `RegisteredKeysAreKept` | `Spec => []KeysAreKept` |
| `SignupsAreFinished` | `Spec => []NoSignupIsStranded` |
| `TabsShareTheAccount` | `Spec => []OneAccountPerDevice` |

What the vault says depends on handlers of other tabs that wait. The invariant
`Inv` adds to the first two of these what each handler has in hand: a phrase that
was made, and past the relay an account that is registered (`TabOK`); past
onboarding a vault (`HasVault`), since one that is there stays until the device is
erased; and while no reset was mistaken, the vault's own account (`SameAccount`),
with the keys of a signup under way on the device before the request that makes
the account. `OneTab` reduces a step to the tab that takes it and to what it may
do to the vault, the pending signup and the relay (`Grows`).

`Calls_proofs`

| Theorem | States |
|---|---|
| `TypeCorrect` | `Spec => []TypeOK` |
| `NoCaptureIsLeft` | `Spec => []NoInvisibleCapture` |
| `CandidatesAreFlushed` | `Spec => []ParkedCandidatesAreFlushed` |
| `ScreenShowsTheCall` | `Spec => []ScreenFollowsTheCall` |

A call that is over leaves handlers that go on. `Sane` says of one context, given
whether it is `callRef` and whether it was replaced, what its handler may have
done: no connection before the camera, no camera or description kept by a
closed connection, nothing parked at an end that has flushed. The screen is harder, as any handler that goes
on may show a phase if the screen shows its call: `Shows` says that then the call is
`callRef`, or another context of the same call was fetched. Three lemmas
cover the steps: a handler goes on (`Going`), a call is stopped (`Stopping`), a
call comes on screen (`Presenting`).

`RelaySession_proofs`

| Theorem | States |
|---|---|
| `TypeCorrect` | `Spec => []TypeOK` |
| `StoppedLoopsStay` | `Spec => []TimerOnlyWhileRunning` |

`TypeOK` says more than types: requests wait for a refresh exactly while one is
under way, which a step can break only by taking a place that is in use
(`WithRequestOK`) or by ending the refresh without telling everybody
(`RefreshEnds`).

**Only model-checked.** Liveness, which is beyond this prover: what is typed
reaches the relay, ticks come, lists and sweeps catch up, calls and leases end,
sockets come back. Each of these is a run under the fairness above. Every safety
invariant and every action property of the runs is a theorem here.

## Where code and comments disagree

Each entry under `findings` in `PROJECT.json` quotes a line of the repository and
says what the code does instead. For those with a name here the statement
is a definition of the module, left out of the runs because it fails; TLC finds
the counterexample in the instance given.

| Statement | Fails in | What happens |
|---|---|---|
| `MessageDelivery!OfflineMessagesArrive` | `FairTobiAwaySpec`, two drafts, pages of 2, `Ticking`, `MaxOutside` 0 | a message that comes over the socket before the history request hides an older one from every backfill |
| `!RefusedReceiptsAreRetried` | `FairSpec`, one draft, `TickingReject` | a receipt the relay refuses counts as sent |
| `!SenderCatchesUp` | `FairSpec`, one draft, `TickingDrop` | the cursor of `GET receipts` passes a receipt that came later |
| `!StoredOnce` | `Spec`, two copies, `TimerOnce` | the outbox resends what is still on the wire |
| `LocalStore!ReceiptsOnlyMoveForward` | the instance of `ls_writers` | a row written from an old read loses a tick |
| `Friendship!BlockedIsTerminal` | the instance of `fr_pair` | a request checked early reopens a blocked row |
| `!ErasedAtOnce` | the same | a like under way while a block or a departure erases likes stands after it |
| `Account!PinMeansBackedUp` | the instance of `account` | a PIN is set on a phrase that was never shown |
| `Lock!WeekLastsAWeek`, `!LockDropsTheToken`, `!LocksAreHeard` | the instance of `lock` | an idle page locks long before its week; a token being sealed survives the lock; a call or a choice of policy loses a lock that was announced |
| `!SettingMeansWhatItShows` | the same, one tab | an earlier choice of policy is shown again after a later one was stored |
| `RelaySession!ReconnectsOnItsOwn`, `!OneSocket` | the instance of `relay_session` | a page can wait for an event that does not come; two sockets can be open |
| `Conversation!OpenChatCatchesUp`, `!NoBubbleTwice` | the instance of `conversation` | what a reconnect fetched is not shown in the open chat; a bubble is shown twice |
| `!RetractedTextIsNotListed` | the same, `PageSize` 3 | the chat list previews a text that was retracted |

The other findings were read off the code while modelling it, most of them about
handlers that look at shared state before an await and use it after (calls, the
vault's record, two socket hooks).

## Plan

Done: the ladder of ticks, delivery, a device's store, the conversation on
screen, friendship and Explore, calls, accounts, the unlocked session and its
session at the relay; the proofs above. What is left, in this order:

1. `Presence` with `Scheduled`: sockets of several tabs counted per user and
   `is_online` written after the mutex is released, a relay restart, who is
   notified while offline; the due batch, its row locks and a removal at the same
   time. Abstract specification: online if and only if some socket is open, once
   quiet.
2. `Growth` and `Streaks`: what concurrent awards add to the total under a cap
   that one row keeps, the level written after the total, the streak of a pair by
   days against a reference definition.
3. The relay's side of `Account`: a challenge used once, a name taken by nobody.
4. `RateLimiter`: the window of a key that was evicted and comes back.

## Not modelled

Cryptography, envelopes and padding are functions of libraries: a message is a
model value, and that a peer can open it is assumed. Attachments are calls of an
object store; a message's `attachment_id` is not kept. Of the screens only the
steps that start or wait for a change of state are modelled (a chat opened, a
draft sent, a step of onboarding, a lock), never what they render. Media of
calls, push notifications and their permissions depend on browser APIs that may
drop anything. The schema is present as guards (unique keys, row locks) of the
actions that run into it. Presence, scheduled messages, points and
streaks, rate limits and the relay's challenges are the plan's remaining modules:
`MessageDelivery` and `Calls` take a refusal by the limiter as something that may always
happen, and a scheduled message would be one more sender. Routing tables,
configuration and build files have no behaviour of their own. Time is an
order of events, or in `Lock` a count of units; durations appear only as timers
that may fire.
