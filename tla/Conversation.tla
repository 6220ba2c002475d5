----------------------------- MODULE Conversation -----------------------------
(***************************************************************************)
(* One conversation as Ada's device shows it.  The relay keeps a log of    *)
(* sealed messages; some of them are controls (edit, delete, reaction,     *)
(* pin, vote, call update) that only a device can apply, by folding a page *)
(* of the rows it holds (db/localStore.ts presentMessages).  The module    *)
(* follows the rows, the open chat (store.messages), the entry of the chat *)
(* list, and every handler that reads a page and shows it later            *)
(* (lib/sync.js, store/chatStore.js, screens/Chat/Chat.jsx).               *)
(*                                                                         *)
(* A message of the relay is its place in the log; a message that still    *)
(* waits for one is minus its place in `drafts'.  A read is a step with    *)
(* the put or the update before it, and what it returned is used in a      *)
(* later step; pages are shown in the order they were read, because every  *)
(* reader has the same two reads left (conversation, peer).  A message     *)
(* that is sent reaches the relay at once or never.  Receipts, unread      *)
(* counts, expiry and other conversations are left out.                    *)
(***************************************************************************)
EXTENDS Integers, Sequences, SequencesExt, FiniteSets

CONSTANTS
    Ada, Bob,    \* this device's user and the peer
    Kinds,       \* the kinds of payload in use
    PageSize,    \* rows of a page
    MaxLog,      \* bound: messages the relay stores
    MaxDrafts,   \* bound: messages Ada composes
    MaxDrops,    \* bound: connections lost
    MaxBusy      \* bound: handlers and reads under way when one more message is taken

Renderable == {"text", "decision", "call"}
Controls == {"edit", "delete", "react", "unreact", "pin", "unpin", "vote", "call_update"}

ASSUME KindsAssumption == Kinds \subseteq Renderable \cup Controls /\ "text" \in Kinds
ASSUME SizesAssumption == /\ {PageSize, MaxLog} \subseteq Nat \ {0}
                          /\ {MaxDrafts, MaxDrops, MaxBusy} \subseteq Nat

VARIABLES
    log, friends,            \* the relay: messages, and whether the two are friends
    drafts, composing,       \* composed messages; those whose row is put and not yet sent
    up, drops, wire,         \* the socket and the events on it, 0 for friend.removed
    known, rows,             \* IndexedDB: the conversation and its messages
    received, confirming,    \* events whose row is not put; whose pending row is gone
    pages, lists, older,     \* pages, list entries and older pages read and not shown
    view, list,              \* messages[id] of the store, and its list entry
    load, sync               \* loadConversation and reconcileRealtime

relay == <<log, friends>>
outbox == <<drafts, composing>>
socket == <<up, drops, wire>>
handlers == <<received, confirming>>
reads == <<pages, lists, older>>
screen == <<view, list>>
vars == <<relay, outbox, socket, known, rows, handlers, reads, screen, load, sync>>

Entry(id) == IF id > 0 THEN log[id] ELSE drafts[-id]

(* createdAt: the relay's clock, and the device's for what it composes.    *)
At(id) == IF id > 0 THEN 2 * id ELSE 2 * drafts[-id].at + 1

-----------------------------------------------------------------------------
(* The fold: presentMessages *)

(* What a payload looks like on its own.  `body' is the message that wrote *)
(* the text (or the status of a call), 0 when there is none.               *)
Bubble(id) ==
    [id |-> id, by |-> Entry(id).by, t |-> Entry(id).t,
     body |-> IF Entry(id).t \in {"text", "edit", "call"} THEN id ELSE 0,
     deleted |-> FALSE, pinned |-> FALSE, reactions |-> {}, votes |-> {}]

(* The call id of a card is the sender's and outlives the pending row.     *)
CallOf(id) == IF id > 0 /\ log[id].client # 0 THEN log[id].client ELSE id

Targets(e, b) == IF e.t = "call_update" THEN b.t = "call" /\ CallOf(b.id) = e.to ELSE b.id = e.to

(* Mutant: whoever sends it.                                               *)
byAnyone(e, b) == TRUE

byAuthor(e, b) == e.by = b.by

Altered(b, id) ==
    LET e == Entry(id) IN
    CASE e.t = "react"   -> [b EXCEPT !.reactions = @ \cup {e.by}]
      [] e.t = "unreact" -> [b EXCEPT !.reactions = @ \ {e.by}]
      [] e.t \in {"pin", "unpin"} -> [b EXCEPT !.pinned = (e.t = "pin")]
      [] e.t = "vote" /\ b.t = "decision" -> [b EXCEPT !.votes = @ \cup {e.by}]
      [] e.t = "edit" /\ b.t = "text" /\ byAuthor(e, b) -> [b EXCEPT !.body = id]
      [] e.t = "call_update" /\ byAuthor(e, b) -> [b EXCEPT !.body = id]
      [] e.t = "delete" /\ byAuthor(e, b) ->
            [b EXCEPT !.deleted = TRUE, !.body = IF b.t = "text" THEN 0 ELSE @]
      [] OTHER -> b

Folded(bubbles, id) ==
    IF Entry(id).t \in Renderable THEN Append(bubbles, Bubble(id))
    ELSE [j \in DOMAIN bubbles |->
            IF Targets(Entry(id), bubbles[j]) THEN Altered(bubbles[j], id) ELSE bubbles[j]]

presentMessages(page) ==
    LET after[i \in 0..Len(page)] == IF i = 0 THEN <<>> ELSE Folded(after[i - 1], page[i])
    IN after[Len(page)]

-----------------------------------------------------------------------------
(* Rows and pages *)

(* The elements of s at the places I, in their order.  (SelectSeq takes a  *)
(* test as an operator, which the provers cannot reason about.)            *)
filter(s, I) ==
    LET kept[i \in 0..Len(s)] ==
            IF i = 0 THEN <<>>
            ELSE IF i \in I THEN Append(kept[i - 1], s[i]) ELSE kept[i - 1]
    IN kept[Len(s)]

(* x where it goes in s, after the elements at `before'.                   *)
Between(s, before, x, after) == filter(s, before) \o <<x>> \o filter(s, after)

(* The rows in the order of the index byConversation.                      *)
Before(q, r) == At(q) < At(r) \/ (At(q) = At(r) /\ q > r)
byConversation(held) ==
    [k \in 1..Cardinality(held) |->
        CHOOSE r \in held : Cardinality({q \in held : Before(q, r)}) = k - 1]

(* Mutant: the first rows of the range.                                    *)
OldestPage(held) ==
    SubSeq(byConversation(held), 1,
           IF Cardinality(held) > PageSize THEN PageSize ELSE Cardinality(held))

messagesFor(held) ==
    SubSeq(byConversation(held),
           IF Cardinality(held) > PageSize THEN Cardinality(held) - PageSize + 1 ELSE 1, Cardinality(held))

messagesBefore(held, id) == messagesFor({r \in held : At(r) < At(id)})

lastCreatedAt(held) == Max({0} \cup {At(r) : r \in held})

(* The last bubble of the newest page, if it has any.                      *)
Preview(held) ==
    {Last(bubbles) : bubbles \in {presentMessages(page) : page \in {messagesFor(held)}} \ {<<>>}}

(* What refreshConversationList finds: no entry, or one with its preview.  *)
ListOf(exists, held) == [listed |-> exists, preview |-> IF exists THEN Preview(held) ELSE {}]

ReadPage(held, for) == pages' = Append(pages, [page |-> messagesFor(held), for |-> for])
ReadList(exists, held, for) == lists' = Append(lists, [read |-> ListOf(exists, held), for |-> for])

-----------------------------------------------------------------------------
Idle == [pc |-> "idle", since |-> 0]
NoSync == [pc |-> "idle", since |-> 0, queued |-> FALSE]

(* The device is connected, holds a message of Bob's, and opens the chat.  *)
Init ==
    /\ log = <<[by |-> Bob, t |-> "text", to |-> 0, client |-> 0]>> /\ friends = TRUE
    /\ drafts = <<>> /\ composing = {}
    /\ up = TRUE /\ drops = 0 /\ wire = <<>>
    /\ known = TRUE /\ rows = {1}
    /\ received = {} /\ confirming = {}
    /\ pages = <<[page |-> <<1>>, for |-> "opening"]>> /\ lists = <<>> /\ older = <<>>
    /\ view = <<>> /\ list = ListOf(TRUE, {1})
    /\ load = [Idle EXCEPT !.pc = "show"] /\ sync = NoSync

-----------------------------------------------------------------------------
(* The peer and the relay *)

(* The messages are stored, and pushed to the device if it is connected.   *)
Store(messages) ==
    /\ log' = log \o messages
    /\ wire' = IF up THEN wire \o [i \in DOMAIN messages |-> Len(log) + i] ELSE wire

(* Bob's app sends anything: a control may name a message of either user.  *)
PeerSends(t, to) ==
    /\ friends /\ Len(log) < MaxLog /\ t \in Kinds
    /\ IF t \in Renderable THEN to = 0
       ELSE IF t = "call_update" THEN \E i \in DOMAIN log : log[i].t = "call" /\ to = CallOf(i)
       ELSE to \in DOMAIN log /\ log[to].t \in Renderable
    /\ Store(<<[by |-> Bob, t |-> t, to |-> to, client |-> 0]>>)
    /\ UNCHANGED <<friends, outbox, up, drops, known, rows, handlers, reads, screen, load, sync>>

PeerUnfriends ==
    /\ friends /\ friends' = FALSE
    /\ wire' = IF up THEN Append(wire, 0) ELSE wire
    /\ UNCHANGED <<log, outbox, up, drops, known, rows, handlers, reads, screen, load, sync>>

SocketDrops ==
    /\ up /\ drops < MaxDrops
    /\ up' = FALSE /\ drops' = drops + 1 /\ wire' = <<>>
    /\ UNCHANGED <<relay, outbox, known, rows, handlers, reads, screen, load, sync>>

-----------------------------------------------------------------------------
(* Sending *)

(* The tools of a bubble in the open chat.                                 *)
Offered(t, to) ==
    \/ t \in Renderable /\ to = 0
    \/ \E j \in DOMAIN view :
          LET b == view[j] IN
          /\ ~b.deleted
          /\ to = IF t = "call_update" THEN CallOf(b.id) ELSE b.id
          /\ CASE t = "react" -> Ada \notin b.reactions
               [] t = "unreact" -> Ada \in b.reactions
               [] t = "pin" -> ~b.pinned
               [] t = "unpin" -> b.pinned
               [] t = "vote" -> b.t = "decision"
               [] t = "edit" -> b.by = Ada /\ b.t = "text"
               [] t = "delete" -> b.by = Ada
               [] t = "call_update" -> b.by = Ada /\ b.t = "call"
               [] OTHER -> FALSE

(* The row is put before anything is shown or sent.                        *)
composeMessage(t, to) ==
    /\ known /\ Len(drafts) < MaxDrafts /\ t \in Kinds
    /\ Offered(t, to)
    /\ drafts' = Append(drafts, [by |-> Ada, t |-> t, to |-> to, at |-> Len(log)])
    /\ rows' = rows \cup {-(Len(drafts) + 1)}
    /\ composing' = composing \cup {Len(drafts) + 1}
    /\ UNCHANGED <<relay, socket, known, handlers, reads, screen, load, sync>>

appendMessage(shownNow, b) ==
    LET others == {i \in DOMAIN shownNow : shownNow[i].id # b.id}
        before == {i \in others : At(shownNow[i].id) <= At(b.id)}
    IN Between(shownNow, before, b, others \ before)

(* Pending messages go out in their order, and get to the relay while      *)
(* there is a connection and a friendship.                                 *)
Sent(waiting) ==
    LET room == IF up /\ friends THEN MaxLog - Len(log) ELSE 0
        arrive == SubSeq(waiting, 1, IF Len(waiting) < room THEN Len(waiting) ELSE room)
    IN Store([i \in DOMAIN arrive |->
            [by |-> Ada, t |-> Entry(arrive[i]).t, to |-> Entry(arrive[i]).to, client |-> arrive[i]]])

sendPayload(n) ==
    /\ n \in composing
    /\ composing' = composing \ {n}
    /\ view' = appendMessage(view, Bubble(-n))
    /\ Sent(<<-n>>)
    /\ UNCHANGED <<friends, drafts, up, drops, known, rows, handlers, reads, list, load, sync>>

-----------------------------------------------------------------------------
(* Receiving: receiveMessage *)

(* What the relay lists is put; what it does not list is left alone here.  *)
upsertConversation == known' = (known \/ friends)

(* A conversation the device has not seen is asked for first; the handler  *)
(* gives up when that fails.                                               *)
Busy == Cardinality(received \cup confirming) + Len(pages) + Len(lists) >= MaxBusy

ReceiveMessage ==
    /\ ~Busy
    /\ wire # <<>> /\ Head(wire) # 0 /\ wire' = Tail(wire)
    /\ received' = received \cup {Head(wire)}
    /\ upsertConversation
    /\ UNCHANGED <<relay, outbox, up, drops, rows, confirming, reads, screen, load, sync>>

ReceiveGivesUp ==
    /\ wire # <<>> /\ Head(wire) # 0 /\ wire' = Tail(wire)
    /\ ~known
    /\ UNCHANGED <<relay, outbox, up, drops, known, rows, handlers, reads, screen, load, sync>>

confirmMessage(id) ==
    /\ id \in received /\ log[id].client # 0
    /\ received' = received \ {id} /\ confirming' = confirming \cup {id}
    /\ rows' = rows \ {log[id].client}
    /\ UNCHANGED <<relay, outbox, socket, known, reads, screen, load, sync>>

putMessage(id) ==
    /\ id \in confirming \/ (id \in received /\ log[id].client = 0)
    /\ received' = received \ {id} /\ confirming' = confirming \ {id}
    /\ rows' = rows \cup {id}
    /\ ReadPage(rows \cup {id}, "handler")
    /\ UNCHANGED <<relay, outbox, socket, known, lists, older, screen, load, sync>>

(* The page is shown and the list read.                                    *)
setMessages ==
    /\ pages # <<>> /\ Head(pages).for = "handler" /\ pages' = Tail(pages)
    /\ view' = presentMessages(Head(pages).page)
    /\ ReadList(known, rows, "handler")
    /\ UNCHANGED <<relay, outbox, socket, known, rows, handlers, older, list, load, sync>>

setConversations ==
    /\ lists # <<>> /\ Head(lists).for = "handler" /\ lists' = Tail(lists)
    /\ list' = Head(lists).read
    /\ UNCHANGED <<relay, outbox, socket, known, rows, handlers, pages, older, view, load, sync>>

-----------------------------------------------------------------------------
(* The open chat *)

(* What is held is shown, and the mark of the backfill is read.            *)
loadConversation ==
    /\ pages # <<>> /\ Head(pages).for # "handler" /\ pages' = Tail(pages)
    /\ view' = presentMessages(Head(pages).page)
    /\ load' = IF Head(pages).for = "filled" THEN Idle
               ELSE [pc |-> "fetch", since |-> lastCreatedAt(rows)]
    /\ UNCHANGED <<relay, outbox, socket, known, rows, handlers, lists, older, list, sync>>

(* The rows with what the history has beyond the mark.                     *)
Filled(held, since) == held \cup {id \in DOMAIN log : At(id) > since}

(* The page is read again if the history had anything new; a failure is    *)
(* not shown.                                                              *)
LoadBackfills ==
    /\ load.pc = "fetch"
    /\ LET filled == Filled(rows, load.since)
       IN IF up /\ friends /\ 2 * Len(log) > load.since
          THEN /\ rows' = filled /\ ReadPage(filled, "filled")
               /\ load' = [pc |-> "show", since |-> 0]
          ELSE load' = Idle /\ UNCHANGED <<rows, pages>>
    /\ UNCHANGED <<relay, outbox, socket, known, handlers, lists, older, screen, sync>>

(* One scroll at a time: a second one before the page is shown would read  *)
(* and show the same page again.                                           *)
loadOlder ==
    /\ view # <<>> /\ older = <<>>
    /\ LET page == messagesBefore(rows, view[1].id)
       IN page # <<>> /\ older' = <<page>>
    /\ UNCHANGED <<relay, outbox, socket, known, rows, handlers, pages, lists, screen, load, sync>>

prependMessages ==
    /\ older # <<>> /\ older' = <<>>
    /\ view' = presentMessages(Head(older)) \o view
    /\ UNCHANGED <<relay, outbox, socket, known, rows, handlers, pages, lists, list, load, sync>>

-----------------------------------------------------------------------------
(* reconcileRealtime: after every connect, on a friend event, and each 30 s *)

Starting == [NoSync EXCEPT !.pc = "list"]

Requested == sync' = IF sync.pc = "idle" THEN Starting ELSE [sync EXCEPT !.queued = TRUE]

(* The backoff of a second, like the timer, is longer than anything that   *)
(* is in flight on the device.                                             *)
Quiet == /\ wire = <<>> /\ <<composing, received, confirming>> = <<{}, {}, {}>>
         /\ pages = <<>> /\ lists = <<>> /\ load = Idle /\ sync = NoSync

Connect ==
    /\ ~up /\ up' = TRUE
    /\ Quiet
    /\ Requested
    /\ UNCHANGED <<relay, outbox, drops, wire, known, rows, handlers, reads, screen, load>>

ReceiveRemoved ==
    /\ wire # <<>> /\ Head(wire) = 0 /\ wire' = Tail(wire)
    /\ Requested
    /\ UNCHANGED <<relay, outbox, up, drops, known, rows, handlers, reads, screen, load>>

(* A tick that would find the list up to date is left out.                 *)
TimerFires ==
    /\ up /\ Quiet /\ list # ListOf(friends, rows)
    /\ Requested
    /\ UNCHANGED <<relay, outbox, socket, known, rows, handlers, reads, screen, load>>

(* The conversation goes with its messages, and from the screen.           *)
deleteConversation == known' = FALSE /\ rows' = {}
removeConversation == view' = <<>> /\ list' = ListOf(FALSE, {})

(* Mutant: what is no longer a conversation is kept.                       *)
mirrorOnly ==
    /\ sync.pc = "list" /\ up
    /\ upsertConversation
    /\ IF friends THEN /\ sync' = [sync EXCEPT !.pc = "fetch", !.since = lastCreatedAt(rows)]
                       /\ UNCHANGED lists
       ELSE /\ sync' = [sync EXCEPT !.pc = "show"]
            /\ ReadList(known, rows, "sync")
    /\ UNCHANGED <<relay, outbox, socket, rows, handlers, pages, older, screen, load>>

(* syncConversations: what is no longer a conversation is deleted.  The    *)
(* mark of the backfill is read, or the list when there is nothing to ask  *)
(* for.                                                                    *)
syncConversations ==
    /\ sync.pc = "list" /\ up
    /\ IF friends
       THEN /\ upsertConversation
            /\ sync' = [sync EXCEPT !.pc = "fetch", !.since = lastCreatedAt(rows)]
            /\ UNCHANGED <<rows, view, list, lists>>
       ELSE /\ sync' = [sync EXCEPT !.pc = "show"]
            /\ ReadList(FALSE, {}, "sync")
            /\ IF known THEN deleteConversation /\ removeConversation
               ELSE UNCHANGED <<known, rows, view, list>>
    /\ UNCHANGED <<relay, outbox, socket, handlers, pages, older, load>>

backfill ==
    /\ sync.pc = "fetch" /\ up /\ friends
    /\ LET filled == Filled(rows, sync.since)
       IN rows' = filled /\ ReadList(known, filled, "sync")
    /\ sync' = [sync EXCEPT !.pc = "show", !.since = 0]
    /\ UNCHANGED <<relay, outbox, socket, known, handlers, pages, older, screen, load>>

(* A request fails: the next connect, event or tick begins anew.           *)
reconcileFails ==
    /\ \/ sync.pc \in {"list", "fetch"} /\ ~up
       \/ sync.pc = "fetch" /\ ~friends
    /\ sync' = NoSync
    /\ UNCHANGED <<relay, outbox, socket, known, rows, handlers, reads, screen, load>>

(* Mutant: what was sent is taken for delivered, as soon as it is sent.    *)
flushAndForget ==
    /\ lists # <<>> /\ Head(lists).for = "sync" /\ lists' = Tail(lists)
    /\ list' = Head(lists).read
    /\ Sent(byConversation({r \in rows : r < 0}))
    /\ rows' = {r \in rows : r > 0}
    /\ sync' = IF sync.queued THEN Starting ELSE NoSync
    /\ UNCHANGED <<friends, outbox, up, drops, known, handlers, pages, older, view, load>>

(* The list is shown and the outbox flushed; a request that came meanwhile *)
(* starts it over.                                                         *)
flushOutbox ==
    /\ lists # <<>> /\ Head(lists).for = "sync" /\ lists' = Tail(lists)
    /\ list' = Head(lists).read
    /\ Sent(byConversation({r \in rows : r < 0}))
    /\ sync' = IF sync.queued THEN Starting ELSE NoSync
    /\ UNCHANGED <<friends, outbox, up, drops, known, rows, handlers, pages, older, view, load>>

-----------------------------------------------------------------------------
Targetable == {0} \cup (1..MaxLog) \cup {-n : n \in 1..MaxDrafts}

Chosen ==
    \/ \E t \in Kinds, to \in Targetable : PeerSends(t, to) \/ composeMessage(t, to)
    \/ PeerUnfriends \/ SocketDrops \/ loadOlder \/ prependMessages

Program ==
    \/ \E n \in 1..MaxDrafts : sendPayload(n)
    \/ ReceiveMessage \/ ReceiveGivesUp \/ ReceiveRemoved
    \/ \E id \in 1..MaxLog : confirmMessage(id) \/ putMessage(id)
    \/ setMessages \/ setConversations \/ loadConversation \/ LoadBackfills
    \/ Connect \/ TimerFires \/ syncConversations \/ backfill \/ reconcileFails \/ flushOutbox

Next == Chosen \/ Program

(* The program does not stop while it has something to do: no one step of  *)
(* it is owed more.  People, drops and scrolling owe nothing.              *)
Fairness == WF_vars(Program)

Spec == Init /\ [][Next]_vars /\ Fairness

-----------------------------------------------------------------------------
(* Properties *)

Ids == (1..MaxLog) \cup {-n : n \in 1..MaxDrafts}
Bubbles == [id : Ids, by : {Ada, Bob}, t : Kinds, body : Ids \cup {0}, deleted : BOOLEAN,
            pinned : BOOLEAN, reactions : SUBSET {Ada, Bob}, votes : SUBSET {Ada, Bob}]

(* Every queue holds what it should: a reconcile shows one list, a load    *)
(* one page, at a time, and no message is handled twice at once.           *)
TypeOK ==
    /\ Len(log) <= MaxLog /\ Len(drafts) <= MaxDrafts /\ composing \subseteq 1..Len(drafts)
    /\ rows \subseteq Ids
    /\ received \cup confirming \subseteq DOMAIN log /\ received \cap confirming = {}
    /\ Range(view) \subseteq Bubbles /\ list.preview \subseteq Bubbles
    /\ \A i, j \in DOMAIN lists : lists[i].for = "sync" /\ lists[j].for = "sync" => i = j
    /\ (\E i \in DOMAIN lists : lists[i].for = "sync") <=> sync.pc = "show"
    /\ \A i, j \in DOMAIN pages : pages[i].for # "handler" /\ pages[j].for # "handler" => i = j
    /\ (\E i \in DOMAIN pages : pages[i].for # "handler") <=> load.pc = "show"

(* What is shown is what its author made of it: the text of a bubble was   *)
(* written, the call's outcome told and the message retracted by its own   *)
(* sender, whatever controls the peer sends.                               *)
OnlyAuthorsAlter ==
    \A b \in Range(view) \cup list.preview :
        /\ b.body # 0 => Entry(b.body).by = b.by
        /\ b.deleted => \E id \in DOMAIN log \cup {-n : n \in DOMAIN drafts} :
                            Entry(id).t = "delete" /\ Entry(id).to = b.id /\ Entry(id).by = b.by

(* A page is enough: folding the newest page alone shows its messages as   *)
(* folding everything the device holds would.                              *)
NewestPageIsExact ==
    LET page == messagesFor(rows)
        all == presentMessages(byConversation(rows))
    IN presentMessages(page) = filter(all, {i \in DOMAIN all : Contains(page, all[i].id)})

(* "A dropped connection cannot lose what the user typed" (sync.js:393):   *)
(* until the friendship ends, what was composed is a row of the device or  *)
(* a message of the relay.                                                 *)
TypedIsKept ==
    \A n \in DOMAIN drafts :
        friends => -n \in rows \/ \E i \in DOMAIN log : log[i].client = -n

(* The chat list ends up telling the truth: with the last message sent and *)
(* the socket back, its entry is there exactly for a friend, and previews  *)
(* the last message of what the device holds.                              *)
ListCatchesUp == <>[](list = ListOf(friends, rows))

(* Blanking the body of a retracted message is not cosmetic, the chat list *)
(* reads it (localStore.ts:416): a retracted text is not previewed.        *)
RetractedTextIsNotListed ==
    \A b \in list.preview : b.deleted /\ b.t = "text" => b.body = 0

(* An open chat shows what a reconnect fetched ("covers messages that      *)
(* changed while this tab was offline", useWebSocket.js:106).              *)
OpenChatCatchesUp ==
    <>[](\A id \in Range(messagesFor(rows)) :
            Entry(id).t \in Renderable => \E j \in DOMAIN view : view[j].id = id)

(* No message has two bubbles.                                             *)
NoBubbleTwice == \A i, j \in DOMAIN view : view[i].id = view[j].id => i = j
=============================================================================
