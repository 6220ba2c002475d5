--------------------------- MODULE MessageDelivery ---------------------------
(***************************************************************************)
(* One direct conversation between two people, from the composer of one    *)
(* device to the ticks under the bubble on it: the relay (backend/src/ws.rs *)
(* and routes/conversations.rs), the two sockets between the relay and the *)
(* devices (hooks/useWebSocket.js), and on each device the encrypted local *)
(* database (db/localStore.ts) with the code that keeps it in step         *)
(* (lib/sync.js).                                                          *)
(*                                                                         *)
(* A message on the relay is named by its position in `log', which stands  *)
(* both for its id and for its created_at: the clock of the model is the   *)
(* length of the log, and every client clock agrees with the relay's.      *)
(* Each user has one device.  In the client, what a network round trip or  *)
(* a socket event separates is two actions, and so are the two             *)
(* transactions of putMessage, which reads a row and writes it back; the   *)
(* other awaits on the local database are merged (LocalStore.tla           *)
(* interleaves those).  A request is answered with the relay's state when  *)
(* it is made, and the answer is used in a later action.                   *)
(***************************************************************************)
EXTENDS Integers, Sequences, FiniteSets, FiniteSetsExt

CONSTANTS
    Users,       \* the two participants
    Peer,        \* Peer[u] is the other participant
    Drafts,      \* what will be typed: one client id (pending-<uuid>) each
    Author,      \* Author[d] types d
    PageSize,    \* messages in one page of history
    MaxCopies,   \* bound: how many copies of a draft may be on the wire or stored
    MaxTimes,    \* bound: how often each kind of outside step is taken
    MaxOutside   \* bound: how many of those are taken in all

(* Outside steps, each kind taken at most MaxTimes[kind] times: people     *)
(* "look" at the chat or away from it; a socket "drop"s; the relay         *)
(* "reject"s an event (rate limit, failed query) or "lag"s behind its      *)
(* broadcast channel; an "http" request fails; a device "reload"s; the     *)
(* 30 second "timer" fires, or fires in a pass that is so "slow".          *)
OutsideKinds ==
    {"look", "drop", "reject", "lag", "http", "reload", "timer", "slow"}

(* MaxTimes[kind] = Unbounded: the steps of this kind are not counted. *)
Unbounded == -1

ASSUME UsersAssumption ==
    /\ Peer \in [Users -> Users]
    /\ \A u \in Users : Peer[u] # u /\ Peer[Peer[u]] = u /\ Users = {u, Peer[u]}
ASSUME DraftsAssumption == Author \in [Drafts -> Users]
ASSUME BoundsAssumption ==
    /\ PageSize \in Nat \ {0}
    /\ MaxCopies \in Nat
    /\ MaxTimes \in [OutsideKinds -> Nat \cup {Unbounded}]
    /\ MaxOutside \in Nat

VARIABLES
    log,        \* relay: the messages table, as the sequence of drafts stored
    delivered,  \* relay: messages whose delivered_at is set
    read,       \* relay: messages with a read_receipts row of the recipient
    link,       \* per user: "closed", "open" (browser side only) or "live"
    up,         \* per user: events sent on the socket, not yet taken by the relay
    down,       \* per user: events published to the socket, not yet handled
    rows,       \* per user: the device's messages store
    cursor,     \* per user: meta record receipts:<conversation>, 0 when absent
    parked,     \* per user: deferredReceipts, in memory
    pc,         \* per user and task: where reconcileRealtime and loadConversation are
    fetch,      \* per user and task: locals of backfill
    puts,       \* per user: calls of putMessage between their get and their put
    receipts,   \* per user: the answer of GET receipts that syncReceipts holds
    latch,      \* per user: reconcileQueued
    handlers,   \* per user: continuations of socket and screen handlers
    viewing,    \* per user: the conversation is on screen
    composed,   \* history: drafts that have been typed
    opened,     \* history, per user: messages whose row was ever stored as seen
    raced,      \* history, per user: messages written between a get and its put
    spent       \* how often each kind of outside step was taken

relayVars == <<log, delivered, read>>
wireVars == <<link, up, down>>
diskVars == <<rows, cursor>>
memoryVars == <<parked, pc, fetch, puts, receipts, latch, handlers, viewing>>
historyVars == <<composed, opened, raced, spent>>
vars == <<log, delivered, read, link, up, down, rows, cursor, parked, pc, fetch, puts,
          receipts, latch, handlers, viewing, composed, opened, raced, spent>>

-----------------------------------------------------------------------------
(* Messages, events and rows *)

Ids == 1 .. Len(log)
SenderOf(i) == Author[log[i]]
FromPeer(u, S) == {i \in S : SenderOf(i) = Peer[u]}

NewEvent(i) == [kind |-> "message.new", ids |-> {i}]
DeliveredEvent(S) == [kind |-> "receipt.delivered", ids |-> S]
ReadEvent(S) == [kind |-> "receipt.read", ids |-> S]
SendEvent(d) == [kind |-> "message.send", draft |-> d]

NoRows == [pending |-> {}, held |-> {}, seen |-> {}, deliveredAck |-> {},
           readAck |-> {}, deliveredAt |-> {}, readAt |-> {}]
NothingParked == [deliveredAt |-> {}, readAt |-> {}]
NoFetch == [since |-> 0, before |-> 0, page |-> {}, more |-> FALSE, top |-> 0]

Tasks == {"reconcile", "chat"}
IdleTasks == [reconcile |-> "idle", chat |-> "idle"]
Bootstrapping == [reconcile |-> "since", chat |-> "idle"]

(* Copies of a draft that the bound MaxCopies counts. *)
Copies(d) ==
    Cardinality({i \in Ids : log[i] = d})
    + Cardinality({i \in DOMAIN up[Author[d]] : up[Author[d]][i] = SendEvent(d)})

Spend(kind) ==
    \/ MaxTimes[kind] = Unbounded /\ UNCHANGED spent
    \/ /\ spent[kind] < MaxTimes[kind]
       /\ MapThenSumSet(LAMBDA k : spent[k], OutsideKinds) < MaxOutside
       /\ spent' = [spent EXCEPT ![kind] = @ + 1]

-----------------------------------------------------------------------------
(* The local database: what one write leaves in the messages store *)

flag(S, i, value) == (S \ {i}) \cup {j \in {i} : value}

(* Mutants: a get that overlooks an acknowledgement, or a receipt. *)
existingUnacked(row, i) ==
    [deliveredAck |-> FALSE, readAck |-> i \in row.readAck,
     deliveredAt |-> i \in row.deliveredAt, readAt |-> i \in row.readAt]
existingUntold(row, i) ==
    [deliveredAck |-> i \in row.deliveredAck, readAck |-> i \in row.readAck,
     deliveredAt |-> FALSE, readAt |-> i \in row.readAt]

(* What the get of putMessage finds of message i. *)
existing(row, i) ==
    [deliveredAck |-> i \in row.deliveredAck, readAck |-> i \in row.readAck,
     deliveredAt |-> i \in row.deliveredAt, readAt |-> i \in row.readAt]

(* The record it makes of that: the badge flag is the given one;           *)
(* acknowledgements are kept; receipts only move forward, and those parked *)
(* for i are applied, a read one implying delivery.                        *)
recordOf(u, i, seen, isDelivered, isRead) ==
    LET got == existing(rows[u], i)
        toldDelivered == i \in parked[u].deliveredAt
        toldRead == i \in parked[u].readAt
    IN  [id |-> i, seen |-> seen,
         deliveredAck |-> got.deliveredAck, readAck |-> got.readAck,
         readAt |-> isRead \/ got.readAt \/ toldRead,
         deliveredAt |-> isDelivered \/ got.deliveredAt \/ toldDelivered \/ toldRead]

(* The put: the record replaces whatever row is there by now. *)
putRecord(row, p) ==
    [row EXCEPT !.held = @ \cup {p.id},
                !.seen = flag(@, p.id, p.seen),
                !.deliveredAck = flag(@, p.id, p.deliveredAck),
                !.readAck = flag(@, p.id, p.readAck),
                !.deliveredAt = flag(@, p.id, p.deliveredAt),
                !.readAt = flag(@, p.id, p.readAt)]

(* Mutant: what was parked for i is applied but not removed. *)
unparkNothing(park, i) == park

(* putMessage takes what was parked for i, as soon as it has its row. *)
unpark(park, i) ==
    [deliveredAt |-> park.deliveredAt \ {i}, readAt |-> park.readAt \ {i}]

(* markReceipt on the rows that are here; the others are parked. *)
stampDelivered(row, S) == [row EXCEPT !.deliveredAt = @ \cup (S \cap row.held)]
stampRead(row, S) ==
    LET fresh == (S \cap row.held) \ row.readAt
    IN  [row EXCEPT !.readAt = @ \cup fresh, !.deliveredAt = @ \cup fresh]

(* Mutant: only what cannot be sent at once is stored. *)
optimisticRowOffline(u, d) == {p \in {[draft |-> d, at |-> 0]} : link[u] = "closed"}

(* Mutant: the badge is cleared for all the relay has, as POST read would. *)
markSeenAll(u) == FromPeer(u, Ids)

(* What markSeen sets the flag of: the peer's messages that are here. *)
markSeen(u) == FromPeer(u, rows[u].held)

(* The optimistic row of d, and confirmMessage's removal of it. *)
optimisticRow(u, d) == {[draft |-> d, at |-> Len(log)]}
withoutOptimistic(row, d) == [row EXCEPT !.pending = {p \in @ : p.draft # d}]

(* Mutants: the delivery sweep waits for the message to be opened; the     *)
(* read sweep does not.                                                    *)
unacknowledgedSeen(u) ==
    FromPeer(u, rows[u].held \cap rows[u].seen) \ rows[u].deliveredAck
unreadAckedUnseen(u) == FromPeer(u, rows[u].held) \ rows[u].readAck

(* What the two sweeps report. *)
unacknowledgedMessageIds(u) == FromPeer(u, rows[u].held) \ rows[u].deliveredAck
unreadAckedMessageIds(u) ==
    FromPeer(u, rows[u].held \cap rows[u].seen) \ rows[u].readAck

(* createdAt of the newest local row, confirmed or pending; 0 for none. *)
HighWaterMark(u) ==
    Max({0} \cup rows[u].held \cup {p.at : p \in rows[u].pending})

-----------------------------------------------------------------------------
(* The relay *)

(* Append e to the sockets of the targets that are subscribed right now. *)
publish(targets, e) ==
    [v \in Users |-> IF v \in targets /\ link[v] = "live"
                     THEN Append(down[v], e) ELSE down[v]]

(* What a receipt of kind `event' over S does: only the peer's messages    *)
(* count, only the first time, and the sender hears of the new ones.       *)
recordDelivered(u, S) == FromPeer(u, S) \ delivered
record_read_receipts(u, S) == FromPeer(u, S) \ read

RelaySend(u) ==
    /\ link[u] = "live" /\ up[u] # <<>>
    /\ Head(up[u]).kind = "message.send"
    /\ log' = Append(log, Head(up[u]).draft)
    /\ up' = [up EXCEPT ![u] = Tail(@)]
    /\ down' = publish({u, Peer[u]}, NewEvent(Len(log) + 1))
    /\ UNCHANGED <<delivered, read, link>>
    /\ UNCHANGED <<diskVars, memoryVars, historyVars>>

RelayDelivered(u) ==
    /\ link[u] = "live" /\ up[u] # <<>>
    /\ Head(up[u]).kind = "receipt.delivered"
    /\ LET fresh == recordDelivered(u, Head(up[u]).ids)
       IN  /\ delivered' = delivered \cup fresh
           /\ down' = IF fresh = {} THEN down
                      ELSE publish({Peer[u]}, DeliveredEvent(fresh))
    /\ up' = [up EXCEPT ![u] = Tail(@)]
    /\ UNCHANGED <<log, read, link>>
    /\ UNCHANGED <<diskVars, memoryVars, historyVars>>

RelayRead(u) ==
    /\ link[u] = "live" /\ up[u] # <<>>
    /\ Head(up[u]).kind = "receipt.read"
    /\ LET fresh == record_read_receipts(u, Head(up[u]).ids)
       IN  /\ read' = read \cup fresh
           /\ down' = IF fresh = {} THEN down
                      ELSE publish({Peer[u]}, ReadEvent(fresh))
    /\ up' = [up EXCEPT ![u] = Tail(@)]
    /\ UNCHANGED <<log, delivered, link>>
    /\ UNCHANGED <<diskVars, memoryVars, historyVars>>

(* The event is over the rate limit, or its handler fails: nothing happens *)
(* but an "error" frame, which the client only writes to its console.      *)
RelayReject(u) ==
    /\ link[u] = "live" /\ up[u] # <<>>
    /\ Spend("reject")
    /\ up' = [up EXCEPT ![u] = Tail(@)]
    /\ UNCHANGED <<relayVars, link, down, diskVars, memoryVars, composed, opened, raced>>

(* The socket task fell behind the broadcast channel: the oldest event it  *)
(* has not sent is skipped.                                                *)
RelayLag(u) ==
    /\ link[u] = "live" /\ down[u] # <<>>
    /\ Spend("lag")
    /\ down' = [down EXCEPT ![u] = Tail(@)]
    /\ UNCHANGED <<relayVars, link, up, diskVars, memoryVars, composed, opened, raced>>

-----------------------------------------------------------------------------
(* The socket *)

(* reconcileRealtime() called: start, or latch while one is in flight. *)
reconcileRealtime(u) ==
    \/ /\ pc[u]["reconcile"] = "idle"
       /\ pc' = [pc EXCEPT ![u]["reconcile"] = "since"]
       /\ latch' = [latch EXCEPT ![u] = FALSE]
    \/ /\ pc[u]["reconcile"] # "idle"
       /\ latch' = [latch EXCEPT ![u] = TRUE]
       /\ UNCHANGED pc

(* socket.onopen: the browser has its 101 answer; the relay's task may not *)
(* have subscribed to the broadcast channel yet.                           *)
Connect(u) ==
    /\ link[u] = "closed"
    /\ link' = [link EXCEPT ![u] = "open"]
    /\ reconcileRealtime(u)
    /\ UNCHANGED <<relayVars, up, down, diskVars, historyVars>>
    /\ UNCHANGED <<parked, fetch, puts, receipts, handlers, viewing>>

(* handle_socket: events published from here on reach this socket. *)
Subscribe(u) ==
    /\ link[u] = "open"
    /\ link' = [link EXCEPT ![u] = "live"]
    /\ UNCHANGED <<relayVars, up, down, diskVars, memoryVars, historyVars>>

(* The 30 second timer of an open socket, between two passes or, when a    *)
(* pass is slow, in the middle of one.                                     *)
Timer(u) ==
    /\ link[u] # "closed"
    /\ pc[u]["reconcile"] = "idle"
    /\ Spend("timer")
    /\ reconcileRealtime(u)
    /\ UNCHANGED <<relayVars, wireVars, diskVars, composed, opened, raced>>
    /\ UNCHANGED <<parked, fetch, puts, receipts, handlers, viewing>>

TimerInPass(u) ==
    /\ link[u] # "closed"
    /\ pc[u]["reconcile"] # "idle" /\ ~latch[u]
    /\ Spend("slow")
    /\ reconcileRealtime(u)
    /\ UNCHANGED <<relayVars, wireVars, diskVars, composed, opened, raced>>
    /\ UNCHANGED <<parked, fetch, puts, receipts, handlers, viewing>>

(* The connection is lost with everything still in it, either way. *)
Drop(u) ==
    /\ link[u] # "closed"
    /\ Spend("drop")
    /\ link' = [link EXCEPT ![u] = "closed"]
    /\ up' = [up EXCEPT ![u] = <<>>]
    /\ down' = [down EXCEPT ![u] = <<>>]
    /\ UNCHANGED <<relayVars, diskVars, memoryVars, composed, opened, raced>>

(* The page is reloaded (or the vault locked) and unlocked again: memory   *)
(* and socket are gone, the database stays, and bootstrap reconciles.      *)
Reload(u) ==
    /\ Spend("reload")
    /\ link' = [link EXCEPT ![u] = "closed"]
    /\ up' = [up EXCEPT ![u] = <<>>]
    /\ down' = [down EXCEPT ![u] = <<>>]
    /\ parked' = [parked EXCEPT ![u] = NothingParked]
    /\ pc' = [pc EXCEPT ![u] = Bootstrapping]
    /\ fetch' = [fetch EXCEPT ![u] = [t \in Tasks |-> NoFetch]]
    /\ puts' = [puts EXCEPT ![u] = {}]
    /\ receipts' = [receipts EXCEPT ![u] = NothingParked]
    /\ latch' = [latch EXCEPT ![u] = FALSE]
    /\ handlers' = [handlers EXCEPT ![u] = {}]
    /\ viewing' = [viewing EXCEPT ![u] = FALSE]
    /\ UNCHANGED <<relayVars, diskVars, composed, opened, raced>>

-----------------------------------------------------------------------------
(* What a device sends *)

(* sweepReceipts and flushOutbox put frames on the socket if it takes them *)
emit(u, frames) == up' = [up EXCEPT ![u] = @ \o frames]

(* The frame of a sweep, none when there is nothing to report. *)
sweep(e) == IF e.ids = {} THEN <<>> ELSE <<e>>

(* What is written of S between the get and the put of the same message is *)
(* written over by that put.                                               *)
race(u, S) ==
    raced' = [raced EXCEPT ![u] =
                 @ \cup {i \in S : \E p \in puts[u] : p.record.id = i}]

markDeliveredAck(row, S) == [row EXCEPT !.deliveredAck = @ \cup S]
markReadAck(row, S) == [row EXCEPT !.readAck = @ \cup S]

(* Mutant: the outbox is never flushed. *)
flushableNever(u) == {}

(* Pending rows that are resent, oldest first. *)
flushable(u) == {p \in rows[u].pending : Copies(p.draft) < MaxCopies}

oldestFirst(S) ==
    {q \in [1 .. Cardinality(S) -> S] :
        \A i, j \in DOMAIN q : i < j => q[i] # q[j] /\ q[i].at <= q[j].at}

flushOutbox(u) ==
    {[i \in DOMAIN q |-> SendEvent(q[i].draft)] : q \in oldestFirst(flushable(u))}

(* acknowledgeRead when the socket is down: POST read, which may fail      *)
(* before or after the relay has recorded the receipts.                    *)
postReadReceipts(u, ids) ==
    LET fresh == record_read_receipts(u, ids)
        recorded == /\ read' = read \cup fresh
                    /\ down' = IF fresh = {} THEN down
                               ELSE publish({Peer[u]}, ReadEvent(fresh))
    IN  \/ ids = {} /\ UNCHANGED <<read, down, rows, raced, spent>>
        \/ /\ ids # {} /\ recorded
           /\ rows' = [rows EXCEPT ![u] = markReadAck(@, ids)]
           /\ race(u, ids)
           /\ UNCHANGED spent
        \/ /\ ids # {} /\ Spend("http")
           /\ recorded \/ UNCHANGED <<read, down>>
           /\ UNCHANGED <<rows, raced>>

-----------------------------------------------------------------------------
(* Socket and screen handlers *)

(* Handler h of device u is over. *)
finish(u, h) == handlers' = [handlers EXCEPT ![u] = @ \ {h}]

(* onmessage "message.new": receiveMessage, up to the get of putMessage.   *)
(* The echo of our own message has taken its pending row away by then;     *)
(* whether the chat is on screen is settled here for all that follows.     *)
ReceiveMessage(u) ==
    /\ down[u] # <<>>
    /\ Head(down[u]).kind = "message.new"
    /\ down' = [down EXCEPT ![u] = Tail(@)]
    /\ \E i \in Head(down[u]).ids :
          LET mine == SenderOf(i) = u
              seen == mine \/ viewing[u]
          IN  /\ rows' = IF mine
                         THEN [rows EXCEPT ![u] = withoutOptimistic(@, log[i])]
                         ELSE rows
              /\ parked' = [parked EXCEPT ![u] = unpark(@, i)]
              /\ puts' = [puts EXCEPT ![u] = @ \cup
                   {[by |-> "socket", shown |-> viewing[u],
                     record |-> recordOf(u, i, seen, FALSE, FALSE)]}]
    /\ UNCHANGED <<relayVars, link, up, cursor, pc, fetch, receipts, latch>>
    /\ UNCHANGED <<handlers, viewing, historyVars>>

(* The put of p, which every other putMessage of that message under way    *)
(* will write over.                                                        *)
store(u, p) ==
    /\ rows' = [rows EXCEPT ![u] = putRecord(@, p.record)]
    /\ puts' = [puts EXCEPT ![u] = @ \ {p}]
    /\ raced' = [raced EXCEPT ![u] = @ \cup
          {i \in {p.record.id} : \E q \in puts[u] : q # p /\ q.record.id = i}]

(* receiveMessage goes on: the row is stored, and the peer's messages are  *)
(* acknowledged in the steps that follow.                                  *)
StoreReceived(u) ==
    \E p \in puts[u] :
        LET i == p.record.id
            stage == IF p.shown THEN "storedOnScreen" ELSE "stored"
        IN  /\ p.by = "socket"
            /\ store(u, p)
            /\ opened' = [opened EXCEPT ![u] = @ \cup {j \in {i} : p.record.seen}]
            /\ handlers' = IF SenderOf(i) = u THEN handlers
                           ELSE [handlers EXCEPT ![u] = @ \cup {<<stage, i>>}]
            /\ UNCHANGED <<relayVars, wireVars, cursor, parked, pc, fetch>>
            /\ UNCHANGED <<receipts, latch, viewing, composed, spent>>

(* onmessage "receipt.delivered". *)
ReceiveDelivered(u) ==
    /\ down[u] # <<>>
    /\ Head(down[u]).kind = "receipt.delivered"
    /\ down' = [down EXCEPT ![u] = Tail(@)]
    /\ LET ids == Head(down[u]).ids
       IN  /\ rows' = [rows EXCEPT ![u] = stampDelivered(@, ids)]
           /\ race(u, ids)
           /\ parked' = [parked EXCEPT ![u].deliveredAt =
                            @ \cup (ids \ rows[u].held)]
    /\ UNCHANGED <<relayVars, link, up, cursor, pc, fetch, puts>>
    /\ UNCHANGED <<receipts, latch, handlers, viewing, composed, opened, spent>>

(* onmessage "receipt.read". *)
ReceiveRead(u) ==
    /\ down[u] # <<>>
    /\ Head(down[u]).kind = "receipt.read"
    /\ down' = [down EXCEPT ![u] = Tail(@)]
    /\ LET ids == Head(down[u]).ids
       IN  /\ rows' = [rows EXCEPT ![u] = stampRead(@, ids)]
           /\ race(u, ids)
           /\ parked' = [parked EXCEPT ![u].readAt = @ \cup (ids \ rows[u].held)]
    /\ UNCHANGED <<relayVars, link, up, cursor, pc, fetch, puts>>
    /\ UNCHANGED <<receipts, latch, handlers, viewing, composed, opened, spent>>

(* onmessage "message.new" goes on: acknowledgeDelivery and, if the chat   *)
(* was on screen when the message arrived, acknowledgeRead.                *)
HandleStored(u) ==
    \E h \in handlers[u] :
        LET delivery == unacknowledgedMessageIds(u)
            reading == IF h[1] = "stored" THEN {} ELSE unreadAckedMessageIds(u)
        IN  /\ h[1] \in {"stored", "storedOnScreen"}
            /\ finish(u, h)
            /\ \/ /\ link[u] # "closed"
                  /\ emit(u, sweep(DeliveredEvent(delivery)) \o sweep(ReadEvent(reading)))
                  /\ rows' = [rows EXCEPT ![u] =
                                 markReadAck(markDeliveredAck(@, delivery), reading)]
                  /\ race(u, delivery \cup reading)
                  /\ UNCHANGED <<read, down, spent>>
               \/ /\ link[u] = "closed"
                  /\ postReadReceipts(u, reading)
                  /\ UNCHANGED up
            /\ UNCHANGED <<log, delivered, link, cursor, parked, pc, fetch, puts>>
            /\ UNCHANGED <<receipts, latch, viewing, composed, opened>>

(* markConversationRead: markSeen, which clears the badge ... *)
HandleSeen(u) ==
    \E h \in handlers[u] :
        /\ h[1] = "seen"
        /\ rows' = [rows EXCEPT ![u].seen = @ \cup markSeen(u)]
        /\ opened' = [opened EXCEPT ![u] = @ \cup markSeen(u)]
        /\ handlers' = [handlers EXCEPT ![u] = (@ \ {h}) \cup {<<"read", h[2]>>}]
        /\ UNCHANGED <<relayVars, wireVars, cursor, parked, pc, fetch, puts>>
        /\ UNCHANGED <<receipts, latch, viewing, composed, raced, spent>>

(* ... then acknowledgeRead. *)
HandleRead(u) ==
    \E h \in handlers[u] :
        LET reading == unreadAckedMessageIds(u)
        IN  /\ h[1] = "read"
            /\ finish(u, h)
            /\ \/ /\ link[u] # "closed"
                  /\ emit(u, sweep(ReadEvent(reading)))
                  /\ rows' = [rows EXCEPT ![u] = markReadAck(@, reading)]
                  /\ race(u, reading)
                  /\ UNCHANGED <<read, down, spent>>
               \/ /\ link[u] = "closed"
                  /\ postReadReceipts(u, reading)
                  /\ UNCHANGED up
            /\ UNCHANGED <<log, delivered, link, cursor, parked, pc, fetch, puts>>
            /\ UNCHANGED <<receipts, latch, viewing, composed, opened>>

(* The pending row is stored, then put on the wire if there is one.  From  *)
(* the chat, answering goes on to markConversationRead; the record of a    *)
(* call is sent with no chat on screen.                                    *)
Compose(u, d) ==
    /\ Author[d] = u /\ d \notin composed
    /\ composed' = composed \cup {d}
    /\ rows' = [rows EXCEPT ![u].pending = @ \cup optimisticRow(u, d)]
    /\ emit(u, IF link[u] = "closed" THEN <<>> ELSE <<SendEvent(d)>>)
    /\ handlers' = [handlers EXCEPT ![u] =
                       @ \cup {h \in {<<"seen", 0>>} : viewing[u]}]
    /\ UNCHANGED <<relayVars, link, down, cursor, opened, raced, spent>>
    /\ UNCHANGED <<parked, pc, fetch, puts, receipts, latch, viewing>>

(* The chat is opened: loadConversation starts. *)
OpenChat(u) ==
    /\ ~viewing[u] /\ pc[u]["chat"] = "idle"
    /\ Spend("look")
    /\ viewing' = [viewing EXCEPT ![u] = TRUE]
    /\ pc' = [pc EXCEPT ![u]["chat"] = "since"]
    /\ UNCHANGED <<relayVars, wireVars, diskVars, composed, opened, raced>>
    /\ UNCHANGED <<parked, fetch, puts, receipts, latch, handlers>>

(* The tab comes back to the foreground on the open chat. *)
Refocus(u) ==
    /\ ~viewing[u]
    /\ Spend("look")
    /\ viewing' = [viewing EXCEPT ![u] = TRUE]
    /\ handlers' = [handlers EXCEPT ![u] = @ \cup {<<"seen", 0>>}]
    /\ UNCHANGED <<relayVars, wireVars, diskVars, composed, opened, raced>>
    /\ UNCHANGED <<parked, pc, fetch, puts, receipts, latch>>

(* The chat is closed, or its tab goes to the background. *)
LeaveChat(u) ==
    /\ viewing[u]
    /\ Spend("look")
    /\ viewing' = [viewing EXCEPT ![u] = FALSE]
    /\ UNCHANGED <<relayVars, wireVars, diskVars, composed, opened, raced>>
    /\ UNCHANGED <<parked, pc, fetch, puts, receipts, latch, handlers>>

-----------------------------------------------------------------------------
(* The two tasks that talk to the relay over HTTP: reconcileRealtime, and  *)
(* loadConversation when the chat is opened.  Both run backfill.           *)

goto(u, t, where) == pc' = [pc EXCEPT ![u][t] = where]

(* get_messages: the newest PageSize messages before `before'. *)
get_messages(before) ==
    LET older == {i \in Ids : before = 0 \/ i < before}
    IN  {i \in older : Cardinality({j \in older : j > i}) < PageSize}

(* Mutant: the one-page fetch that backfill replaced. *)
getOnePage(since, before, top) ==
    [since |-> since, before |-> before, more |-> FALSE, top |-> top,
     page |-> {[id |-> i, delivered |-> i \in delivered, read |-> i \in read] :
                 i \in {j \in get_messages(before) : j > since}}]

(* GET one page of history, with its receipts as they are right now; only  *)
(* what is newer than the high-water mark `since' will be stored.  `top'   *)
(* is history: the newest message when this backfill began.                *)
getHistory(since, before, top) ==
    LET data == get_messages(before)
        new == {i \in data : i > since}
        entry(i) == [id |-> i, delivered |-> i \in delivered, read |-> i \in read]
    IN  [since |-> since,
         before |-> IF data = {} THEN 0 ELSE Min(data),
         page |-> {entry(i) : i \in new},
         more |-> new = data /\ Cardinality(data) = PageSize,
         top |-> top]

(* backfill starts (in a pass, once GET conversations has answered): the   *)
(* high-water mark is the newest local row at this moment.                 *)
BackfillStart(u, t) ==
    /\ pc[u][t] = "since"
    /\ fetch' = [fetch EXCEPT ![u][t] = getHistory(HighWaterMark(u), 0, Len(log))]
    /\ goto(u, t, "store")
    /\ UNCHANGED <<relayVars, wireVars, diskVars, historyVars>>
    /\ UNCHANGED <<parked, puts, receipts, latch, handlers, viewing>>

(* The entries of a page are stored one at a time, the oldest first: the   *)
(* get of putMessage ...                                                   *)
storing(u, t) == \E p \in puts[u] : p.by = t

BackfillGet(u, t) ==
    /\ pc[u][t] = "store" /\ ~storing(u, t)
    /\ \E m \in fetch[u][t].page :
          /\ \A n \in fetch[u][t].page : m.id <= n.id
          /\ parked' = [parked EXCEPT ![u] = unpark(@, m.id)]
          /\ puts' = [puts EXCEPT ![u] = @ \cup
               {[by |-> t, shown |-> FALSE,
                 record |-> recordOf(u, m.id, FALSE, m.delivered, m.read)]}]
    /\ UNCHANGED <<relayVars, wireVars, diskVars, historyVars>>
    /\ UNCHANGED <<pc, fetch, receipts, latch, handlers, viewing>>

(* ... and its put, which ends with the entry.                             *)
BackfillPut(u, t) ==
    \E p \in puts[u] :
        /\ p.by = t
        /\ store(u, p)
        /\ fetch' = [fetch EXCEPT ![u][t].page = {m \in @ : m.id # p.record.id}]
        /\ UNCHANGED <<relayVars, wireVars, cursor, parked, pc>>
        /\ UNCHANGED <<receipts, latch, handlers, viewing, composed, opened, spent>>

(* The page is stored and older ones may be missing. *)
BackfillMore(u, t) ==
    /\ pc[u][t] = "store" /\ fetch[u][t].page = {} /\ fetch[u][t].more
    /\ fetch' = [fetch EXCEPT ![u][t] = getHistory(@.since, @.before, @.top)]
    /\ UNCHANGED <<relayVars, wireVars, diskVars, historyVars>>
    /\ UNCHANGED <<parked, pc, puts, receipts, latch, handlers, viewing>>

backfilled(u, t) ==
    pc[u][t] = "store" /\ fetch[u][t].page = {} /\ ~fetch[u][t].more

(* loadConversation ends: the screen, if still there, acknowledges. *)
finishLoading(u) ==
    /\ goto(u, "chat", "idle")
    /\ fetch' = [fetch EXCEPT ![u]["chat"] = NoFetch]
    /\ handlers' = [handlers EXCEPT ![u] = @ \cup {h \in {<<"seen", 0>>} : viewing[u]}]

LoadDone(u) ==
    /\ backfilled(u, "chat")
    /\ finishLoading(u)
    /\ UNCHANGED <<relayVars, wireVars, diskVars, historyVars>>
    /\ UNCHANGED <<parked, puts, receipts, latch, viewing>>

(* syncReceipts asks for the receipts of our messages newer than `cursor'  *)
(* (of the last 14 days at first, and of the newest MAX_RECEIPTS: a run    *)
(* stays within both).                                                     *)
getReceipts(u) ==
    LET own == {i \in Ids : SenderOf(i) = u /\ i > cursor[u]}
    IN  [deliveredAt |-> own \cap delivered, readAt |-> own \cap read]

(* The backlog has landed: flushOutbox, acknowledgeDelivery, and           *)
(* acknowledgeRead, over the socket or, for the last, over HTTP; then the  *)
(* request of syncReceipts.                                                *)
SendBacklog(u) ==
    LET delivery == unacknowledgedMessageIds(u)
        reading == unreadAckedMessageIds(u)
    IN  /\ backfilled(u, "reconcile")
        /\ \/ /\ link[u] # "closed"
              /\ \E outbox \in flushOutbox(u) :
                    emit(u, outbox \o sweep(DeliveredEvent(delivery))
                                   \o sweep(ReadEvent(reading)))
              /\ rows' = [rows EXCEPT ![u] =
                             markReadAck(markDeliveredAck(@, delivery), reading)]
              /\ race(u, delivery \cup reading)
              /\ UNCHANGED <<read, down, spent>>
           \/ /\ link[u] = "closed"
              /\ postReadReceipts(u, reading)
              /\ UNCHANGED up
        /\ receipts' = [receipts EXCEPT ![u] = getReceipts(u)]
        /\ goto(u, "reconcile", "receipts")
        /\ fetch' = [fetch EXCEPT ![u]["reconcile"] = NoFetch]
        /\ UNCHANGED <<log, delivered, link, cursor, parked, puts, latch>>
        /\ UNCHANGED <<handlers, viewing, composed, opened>>

(* reconcileRealtime ends, or goes round again if it was asked meanwhile. *)
finishReconcile(u) ==
    /\ goto(u, "reconcile", IF latch[u] THEN "since" ELSE "idle")
    /\ latch' = [latch EXCEPT ![u] = FALSE]

(* syncReceipts is answered: stamp what it says, move the cursor to now. *)
ApplyReceipts(u) ==
    /\ pc[u]["reconcile"] = "receipts"
    /\ LET got == receipts[u]
       IN  /\ rows' = [rows EXCEPT ![u] =
                          stampRead(stampDelivered(@, got.deliveredAt), got.readAt)]
           /\ parked' = [parked EXCEPT ![u] =
                [deliveredAt |-> @.deliveredAt \cup (got.deliveredAt \ rows[u].held),
                 readAt |-> @.readAt \cup (got.readAt \ rows[u].held)]]
           /\ race(u, got.deliveredAt \cup got.readAt)
    /\ cursor' = [cursor EXCEPT ![u] = Len(log)]
    /\ receipts' = [receipts EXCEPT ![u] = NothingParked]
    /\ finishReconcile(u)
    /\ UNCHANGED <<relayVars, wireVars, fetch, puts, handlers, viewing>>
    /\ UNCHANGED <<composed, opened, spent>>

(* A request of reconcileRealtime fails: the whole pass is given up, with  *)
(* any request latched meanwhile; only syncReceipts catches its own error. *)
ReconcileFails(u) ==
    /\ pc[u]["reconcile"] \in {"since", "store", "receipts"} /\ ~storing(u, "reconcile")
    /\ Spend("http")
    /\ \/ pc[u]["reconcile"] # "receipts" /\ goto(u, "reconcile", "idle")
          /\ UNCHANGED latch
       \/ pc[u]["reconcile"] = "receipts" /\ finishReconcile(u)
    /\ fetch' = [fetch EXCEPT ![u]["reconcile"] = NoFetch]
    /\ receipts' = [receipts EXCEPT ![u] = NothingParked]
    /\ UNCHANGED <<relayVars, wireVars, diskVars, composed, opened, raced>>
    /\ UNCHANGED <<parked, puts, handlers, viewing>>

(* A request of loadConversation fails: what is local stands. *)
LoadFails(u) ==
    /\ pc[u]["chat"] = "store" /\ ~storing(u, "chat")
    /\ Spend("http")
    /\ finishLoading(u)
    /\ UNCHANGED <<relayVars, wireVars, diskVars, composed, opened, raced>>
    /\ UNCHANGED <<parked, puts, receipts, latch, viewing>>

-----------------------------------------------------------------------------
(* The specification *)

Init ==
    /\ log = <<>> /\ delivered = {} /\ read = {}
    /\ link = [u \in Users |-> "closed"]
    /\ up = [u \in Users |-> <<>>]
    /\ down = [u \in Users |-> <<>>]
    /\ rows = [u \in Users |-> NoRows]
    /\ cursor = [u \in Users |-> 0]
    /\ parked = [u \in Users |-> NothingParked]
    /\ pc = [u \in Users |-> IdleTasks]
    /\ fetch = [u \in Users |-> [t \in Tasks |-> NoFetch]]
    /\ puts = [u \in Users |-> {}]
    /\ receipts = [u \in Users |-> NothingParked]
    /\ latch = [u \in Users |-> FALSE]
    /\ handlers = [u \in Users |-> {}]
    /\ viewing = [u \in Users |-> FALSE]
    /\ composed = {}
    /\ opened = [u \in Users |-> {}]
    /\ raced = [u \in Users |-> {}]
    /\ spent = [k \in OutsideKinds |-> 0]

RelayNext(u) == RelaySend(u) \/ RelayDelivered(u) \/ RelayRead(u)
ReceiveNext(u) == ReceiveMessage(u) \/ ReceiveDelivered(u) \/ ReceiveRead(u)
HandlerNext(u) == HandleStored(u) \/ HandleSeen(u) \/ HandleRead(u)
StoreNext(u) == StoreReceived(u) \/ \E t \in Tasks : BackfillPut(u, t)
BackfillNext(u, t) == BackfillStart(u, t) \/ BackfillGet(u, t) \/ BackfillMore(u, t)
ReconcileNext(u) ==
    BackfillNext(u, "reconcile") \/ SendBacklog(u) \/ ApplyReceipts(u)
LoadNext(u) == BackfillNext(u, "chat") \/ LoadDone(u)
UserNext(u) ==
    OpenChat(u) \/ Refocus(u) \/ LeaveChat(u) \/ \E d \in Drafts : Compose(u, d)
FaultNext(u) ==
    \/ RelayReject(u) \/ RelayLag(u) \/ Drop(u) \/ Reload(u)
    \/ ReconcileFails(u) \/ LoadFails(u) \/ TimerInPass(u)

Next ==
    \E u \in Users :
        \/ RelayNext(u) \/ ReceiveNext(u) \/ StoreNext(u) \/ HandlerNext(u)
        \/ ReconcileNext(u) \/ LoadNext(u)
        \/ Connect(u) \/ Subscribe(u) \/ Timer(u)
        \/ UserNext(u) \/ FaultNext(u)

Spec == Init /\ [][Next]_vars

(* Every turn of an event loop eventually comes: the relay takes what is   *)
(* on a socket, the browser runs its callbacks and timers, a request is    *)
(* answered, a closed socket is reopened by the backoff loop.  What people *)
(* do and what fails is not fair.                                          *)
Fairness ==
    \A u \in Users :
        /\ WF_vars(RelayNext(u))
        /\ WF_vars(ReceiveNext(u) \/ StoreNext(u) \/ HandlerNext(u))
        /\ WF_vars(ReconcileNext(u)) /\ WF_vars(LoadNext(u))
        /\ WF_vars(Connect(u) \/ Subscribe(u)) /\ WF_vars(Timer(u))

FairSpec == Spec /\ Fairness

-----------------------------------------------------------------------------
(* Correctness *)

Recipient(i) == Peer[SenderOf(i)]

Entry == [id : Nat, delivered : BOOLEAN, read : BOOLEAN]
Rows == [pending : SUBSET [draft : Drafts, at : Nat], held : SUBSET Nat,
         seen : SUBSET Nat, deliveredAck : SUBSET Nat, readAck : SUBSET Nat,
         deliveredAt : SUBSET Nat, readAt : SUBSET Nat]
Stamps == [deliveredAt : SUBSET Nat, readAt : SUBSET Nat]
Record == [id : Nat, seen : BOOLEAN, deliveredAck : BOOLEAN, readAck : BOOLEAN,
           deliveredAt : BOOLEAN, readAt : BOOLEAN]
Put == [by : Tasks \cup {"socket"}, shown : BOOLEAN, record : Record]
Downstream == [kind : {"message.new", "receipt.delivered", "receipt.read"},
               ids : SUBSET Nat]
Upstream == [kind : {"message.send"}, draft : Drafts]
            \cup [kind : {"receipt.delivered", "receipt.read"}, ids : SUBSET Nat]

Stages == {"idle", "since", "store", "receipts"}
Fetches == [since : Nat, before : Nat, page : SUBSET Entry, more : BOOLEAN, top : Nat]
Continuations == {"stored", "storedOnScreen", "seen", "read"} \X Nat

(* Every variable stays in its type. *)
TypeOK ==
    /\ log \in Seq(Drafts) /\ delivered \in SUBSET Nat /\ read \in SUBSET Nat
    /\ link \in [Users -> {"closed", "open", "live"}]
    /\ up \in [Users -> Seq(Upstream)] /\ down \in [Users -> Seq(Downstream)]
    /\ rows \in [Users -> Rows] /\ cursor \in [Users -> Nat]
    /\ parked \in [Users -> Stamps] /\ receipts \in [Users -> Stamps]
    /\ pc \in [Users -> [Tasks -> Stages]]
    /\ fetch \in [Users -> [Tasks -> Fetches]] /\ puts \in [Users -> SUBSET Put]
    /\ latch \in [Users -> BOOLEAN] /\ viewing \in [Users -> BOOLEAN]
    /\ handlers \in [Users -> SUBSET Continuations]
    /\ composed \in SUBSET Drafts
    /\ opened \in [Users -> SUBSET Nat] /\ raced \in [Users -> SUBSET Nat]
    /\ spent \in [OutsideKinds -> Nat]

(* What has happened to messages: they have reached the recipient's device, *)
(* or its owner has opened them.                                           *)
Arrived == {i \in Ids : i \in rows[Recipient(i)].held}
Opened == {i \in Ids : i \in opened[Recipient(i)]}

(* A tick never claims more than happened: a row that says delivered is of *)
(* a message the recipient's device holds, and one that says read is of a  *)
(* message its owner has opened, whatever was lost or reordered on the way *)
(* (localStore.ts markReceipt, putMessage; ws.rs receipt handlers).        *)
StampsAreTrue(s) == s.deliveredAt \subseteq Arrived /\ s.readAt \subseteq Opened
TicksNeverLie == \A u \in Users : StampsAreTrue(rows[u])

(* Why the ticks never lie: no claim that is on its way to one does.  This *)
(* is so of the relay's tables, of every event on either wire, of receipts *)
(* parked or fetched, of every page of history being stored, and of every  *)
(* record about to be put.                                                 *)
EventIsTrue(e) ==
    /\ e.kind = "message.new" => e.ids \subseteq Ids
    /\ e.kind = "receipt.delivered" => e.ids \subseteq Arrived
    /\ e.kind = "receipt.read" => e.ids \subseteq Opened
EntryIsTrue(m) ==
    /\ m.id \in Ids
    /\ m.delivered => m.id \in Arrived
    /\ m.read => m.id \in Opened
RecordIsTrue(r) ==
    /\ r.id \in Ids
    /\ r.deliveredAt => r.id \in Arrived
    /\ r.readAt => r.id \in Opened
NoClaimRunsAhead ==
    /\ delivered \subseteq Arrived /\ read \subseteq Opened
    /\ \A u \in Users :
          /\ \A k \in DOMAIN up[u] : EventIsTrue(up[u][k])
          /\ \A k \in DOMAIN down[u] : EventIsTrue(down[u][k])
          /\ StampsAreTrue(rows[u])
          /\ StampsAreTrue(parked[u])
          /\ StampsAreTrue(receipts[u])
          /\ \A t \in Tasks : \A m \in fetch[u][t].page : EntryIsTrue(m)
          /\ \A p \in puts[u] : RecordIsTrue(p.record)

(* What a device shows as seen was opened on it, what was opened on it is  *)
(* on it, and what is on it the relay has stored; its outbox is finite and *)
(* no entry of it is dated in the future.                                  *)
RowsAreGrounded ==
    \A u \in Users :
        /\ rows[u].seen \subseteq opened[u]
        /\ opened[u] \subseteq rows[u].held
        /\ rows[u].held \subseteq Ids
        /\ IsFiniteSet(rows[u].pending)
        /\ \A p \in rows[u].pending : p.at <= Len(log)

(* What was typed is never lost: until the relay has the message, its row  *)
(* waits in the author's outbox, through crashes, drops and rejections     *)
(* (sync.js prepareOutgoingPayload, flushOutbox; localStore.ts             *)
(* confirmMessage).                                                        *)
NothingTypedIsLost ==
    \A d \in composed :
        \/ \E p \in rows[Author[d]].pending : p.draft = d
        \/ \E i \in Ids : log[i] = d

(* A backfill that completes has fetched every page: the device holds all  *)
(* that the relay had when it began and that is newer than its high-water  *)
(* mark (sync.js backfill).                                                *)
BackfillCovers ==
    \A u \in Users : \A t \in Tasks :
        backfilled(u, t) =>
            (fetch[u][t].since + 1) .. fetch[u][t].top \subseteq rows[u].held

(* A receipt is parked only while its message is not here: once the row is *)
(* stored nothing is left behind for it, unless the receipt came between   *)
(* the get and the put of that very message, when the row is no longer     *)
(* missing to the one and still missing to the other (localStore.ts        *)
(* deferredReceipts, putMessage, markReceipt).                             *)
ParkedOnlyForMissing ==
    \A u \in Users :
        (parked[u].deliveredAt \cup parked[u].readAt) \cap rows[u].held
            \subseteq raced[u]

(* What a device holds only grows, and what it has acknowledged and has    *)
(* been told of a message only grows as long as nothing is written of that *)
(* message between the get and the put of a putMessage: no echo, page of   *)
(* history or receipt by itself walks a tick back or makes a message       *)
(* unacknowledged again, whatever the order they are stored in             *)
(* (localStore.ts putMessage, "Receipts only ever move forward").          *)
DeviceOnlyMovesForward ==
    [][\A u \in Users :
         /\ rows[u].held \subseteq rows'[u].held
         /\ \A f \in {"deliveredAck", "readAck", "deliveredAt", "readAt"} :
               rows[u][f] \ rows'[u][f] \subseteq raced[u]]_vars

(* Everything typed reaches the relay in the end: the outbox is flushed on *)
(* every pass until the echo comes back (sync.js flushOutbox).             *)
EverythingTypedReachesTheRelay ==
    \A d \in Drafts : d \in composed ~> \E i \in Ids : log[i] = d

(* In a session nothing breaks, the sender's second tick comes: once the   *)
(* recipient's device holds a message the sender is told, unless its       *)
(* receipt reached the sender's device in the middle of a putMessage of it *)
(* (sync.js acknowledgeDelivery, ws.rs receipt.delivered,                  *)
(* useWebSocket.js).                                                       *)
Disturbed == \E k \in {"drop", "reject", "lag", "http", "reload"} : spent[k] > 0
ArrivalIsTicked ==
    \A u \in Users : \A d \in Drafts :
        (\E i \in Ids : log[i] = d /\ u = Recipient(i) /\ i \in rows[u].held)
        ~> \/ \E i \in Ids : log[i] = d /\ i \in rows[Peer[u]].deliveredAt \cup raced[Peer[u]]
           \/ Disturbed

-----------------------------------------------------------------------------
(* What comments and tests of the code say, and the code does not do *)

(* Every message the relay holds arrives, however long the recipient was   *)
(* away: "messages survive being offline" (README.md), and backfill        *)
(* "avoids a subtle gap" (sync.js backfill).                               *)
OfflineMessagesArrive ==
    \A d \in Drafts :
        (\E i \in Ids : log[i] = d)
        ~> (\E i \in Ids : log[i] = d /\ i \in rows[Recipient(i)].held)

(* A delivery receipt that the relay refused is sent again: "Receipts      *)
(* retry on the next sweep" (useWebSocket.js, case "error").               *)
RefusedReceiptsAreRetried ==
    \A d \in Drafts :
        (\E i \in Ids : log[i] = d /\ i \in rows[Recipient(i)].held)
        ~> (\E i \in Ids : log[i] = d /\ i \in delivered)

(* A sender that missed a receipt while offline catches up: "This is the   *)
(* only path by which a sender catches up" (sync.js syncReceipts).         *)
SenderCatchesUp ==
    \A d \in Drafts :
        (\E i \in Ids : log[i] = d /\ i \in delivered)
        ~> (\E i \in Ids : log[i] = d /\ i \in rows[SenderOf(i)].deliveredAt)

(* One message on the relay for each optimistic copy: the outbox holds     *)
(* what "was composed while offline" (sync.js flushOutbox).                *)
StoredOnce == \A i, j \in Ids : log[i] = log[j] => i = j

-----------------------------------------------------------------------------
(* Refinement *)

(* The promise of the ticks, as an abstract specification this one         *)
(* implements: what has happened to a message is read off the relay and    *)
(* the recipient's device, the ticks off the sender's.                     *)
Ladder == INSTANCE TickLadder WITH
    stored <- Ids,
    arrived <- Arrived,
    openedThere <- Opened,
    oneTick <- {i \in Ids : i \in rows[SenderOf(i)].held},
    twoTicks <- {i \in Ids : i \in rows[SenderOf(i)].deliveredAt},
    threeTicks <- {i \in Ids : i \in rows[SenderOf(i)].readAt},
    unsettled <- {i \in Ids : i \in raced[SenderOf(i)]}

(* The ticks climb their ladder: they never run ahead of what happened to  *)
(* the message, and come down for those alone that the sender's device     *)
(* wrote twice at once (migrations/0009, localStore.ts).                   *)
TicksClimbTheLadder == Ladder!Spec
=============================================================================
