------------------------------ MODULE LocalStore ------------------------------
(***************************************************************************)
(* The messages store of one device (db/localStore.ts), with every await   *)
(* of its writers: what MessageDelivery does in one step on a device is    *)
(* here as many steps as the code gives it.                                *)
(*                                                                         *)
(* Every access is an IndexedDB transaction on the one store.  They run    *)
(* one after another in the order they were created, so the store is a     *)
(* queue; markReceipt, markSeen and markAck are one transaction each.      *)
(* putMessage is two: it gets the row, merges it with what it was given    *)
(* and with the parked receipts, and puts the result.  Socket handlers and *)
(* backfills are not serialised, so anything may be queued in between.     *)
(*                                                                         *)
(* Messages are numbered in the order of their created_at.  The relay has  *)
(* all of them; some are ours and wait in the outbox for their echo.       *)
(***************************************************************************)
EXTENDS Naturals, Sequences, FiniteSetsExt

CONSTANTS
    Messages,   \* the messages of the conversation, numbered by created_at
    Mine,       \* those this device sent
    Backfills,  \* who runs a backfill: the reconciliation, the open chat
    MaxQueue,   \* bound: transactions created and not yet run
    MaxReloads  \* bound: how often the page is reloaded

ASSUME MessagesAssumption == Messages \subseteq Nat \ {0} /\ Mine \subseteq Messages
ASSUME BackfillsAssumption == \A b \in Backfills, m \in Messages : b # <<"message.new", m>>
ASSUME BoundsAssumption == MaxQueue \in Nat \ {0} /\ MaxReloads \in Nat

Theirs == Messages \ Mine
Acks == {"deliveredAck", "readAck"}
Receipts == {"deliveredAt", "readAt"}

VARIABLES
    pending,   \* our messages whose optimistic row waits for its echo
    rows,      \* the stored row of each message
    queue,     \* the transactions created and not yet run
    parked,    \* deferredReceipts, in memory
    told,      \* relay: the receipts it has recorded for our messages
    events,    \* receipts on their way to this device, pushed or polled
    arrived,   \* messages whose message.new has been handled or lost
    calls,     \* the putMessage calls in progress, one for each writer
    pages,     \* backfill: entries of the page still to be stored
    sweeps,    \* the ids that each sweep has read, or is marking
    sent,      \* history: the ids that were put on the socket, by kind
    shown,     \* history: messages whose row was ever written as seen
    reloads    \* bound

disk == <<pending, rows>>
memory == <<parked, calls, pages, sweeps>>
world == <<told, events, arrived>>
history == <<sent, shown, reloads>>
vars == <<disk, queue, memory, world, history>>

-----------------------------------------------------------------------------
(* Rows, calls, sweeps and transactions *)

Nothing == [deliveredAt |-> FALSE, readAt |-> FALSE]
NoRow == [held |-> FALSE, seen |-> FALSE, deliveredAck |-> FALSE, readAck |-> FALSE,
          deliveredAt |-> FALSE, readAt |-> FALSE]

Handler(m) == <<"message.new", m>>
Writers == {Handler(m) : m \in Messages} \cup Backfills
NoCall == [busy |-> FALSE, message |-> 0, seen |-> FALSE, given |-> Nothing, row |-> NoRow]
Call(m, seen, given) ==
    [busy |-> TRUE, message |-> m, seen |-> seen, given |-> given, row |-> NoRow]

NoSweep == [step |-> "idle", ids |-> {}]

Delete(w) == [kind |-> "delete", of |-> w]
Get(w) == [kind |-> "get", of |-> w]
Put(w) == [kind |-> "put", of |-> w]
Stamp(m, f) == [kind |-> "stamp", of |-> <<f, m>>]
See == [kind |-> "see", of |-> <<"chat", 0>>]
Collect(f) == [kind |-> "collect", of |-> <<f, 0>>]
Mark(f) == [kind |-> "mark", of |-> <<f, 0>>]

Waiting(t) == \E i \in DOMAIN queue : queue[i] = t

(* The transaction t is created, and t is run.                             *)
Create(t) == Len(queue) < MaxQueue /\ queue' = Append(queue, t)
Runs(t) == queue # <<>> /\ Head(queue) = t
Done == queue' = Tail(queue)
DoneThen(t) == queue' = Append(Tail(queue), t)

Init ==
    /\ pending = Mine
    /\ rows = [m \in Messages |-> NoRow]
    /\ queue = <<>>
    /\ parked = [m \in Messages |-> Nothing]
    /\ told = [m \in Messages |-> Nothing]
    /\ events = {}
    /\ arrived = {}
    /\ calls = [w \in Writers |-> NoCall]
    /\ pages = [w \in Backfills |-> {}]
    /\ sweeps = [f \in Acks |-> NoSweep]
    /\ sent = [f \in Acks |-> {}]
    /\ shown = {}
    /\ reloads = 0

-----------------------------------------------------------------------------
(* putMessage *)

(* Mutant: a parked receipt is believed for whatever kind it is of. *)
mergedConfused(call, existing, park) ==
    [held |-> TRUE, seen |-> call.seen,
     deliveredAck |-> existing.deliveredAck, readAck |-> existing.readAck,
     deliveredAt |-> call.given.deliveredAt \/ existing.deliveredAt \/ park.deliveredAt,
     readAt |-> call.given.readAt \/ existing.readAt \/ park.deliveredAt \/ park.readAt]

(* The record putMessage writes: acknowledgements as they were when the    *)
(* row was read, receipts from the page, the row or the parked ones, and a *)
(* parked one implying delivery if the message is read.                    *)
merged(call, existing, park) ==
    LET nowRead == call.given.readAt \/ existing.readAt \/ park.readAt
        deferred == park.deliveredAt \/ park.readAt
    IN  [held |-> TRUE, seen |-> call.seen,
         deliveredAck |-> existing.deliveredAck, readAck |-> existing.readAck,
         readAt |-> nowRead,
         deliveredAt |-> \/ call.given.deliveredAt \/ existing.deliveredAt
                         \/ park.deliveredAt \/ (deferred /\ nowRead)]

(* confirmMessage deletes the optimistic row before it calls putMessage.   *)
RunDelete(w) ==
    /\ Runs(Delete(w)) /\ DoneThen(Get(w))
    /\ pending' = pending \ {calls[w].message}
    /\ UNCHANGED <<rows, memory, world, history>>

(* db.get answers; in the same task the record is built, the parked        *)
(* receipts are taken and db.put is called.                                *)
RunGet(w) ==
    LET m == calls[w].message
    IN  /\ Runs(Get(w)) /\ DoneThen(Put(w))
        /\ calls' = [calls EXCEPT ![w].row = merged(calls[w], rows[m], parked[m])]
        /\ parked' = [parked EXCEPT ![m] = Nothing]
        /\ UNCHANGED <<disk, pages, sweeps, world, history>>

RunPut(w) ==
    LET m == calls[w].message
    IN  /\ Runs(Put(w)) /\ Done
        /\ rows' = [rows EXCEPT ![m] = calls[w].row]
        /\ shown' = IF calls[w].row.seen THEN shown \cup {m} ELSE shown
        /\ calls' = [calls EXCEPT ![w] = NoCall]
        /\ UNCHANGED <<pending, parked, pages, sweeps, world, sent, reloads>>

-----------------------------------------------------------------------------
(* Who calls it *)

(* onmessage "message.new": the echo of our own message confirms it; the   *)
(* peer's is stored as seen if its chat is on screen.                      *)
Arrive(m) ==
    /\ m \notin arrived
    /\ arrived' = arrived \cup {m}
    /\ \E onScreen \in BOOLEAN :
          calls' = [calls EXCEPT ![Handler(m)] = Call(m, m \in Mine \/ onScreen, Nothing)]
    /\ Create(IF m \in Mine THEN Delete(Handler(m)) ELSE Get(Handler(m)))
    /\ UNCHANGED <<disk, parked, pages, sweeps, told, events, history>>

(* The event was published while the socket was down. *)
Miss(m) ==
    /\ m \notin arrived
    /\ arrived' = arrived \cup {m}
    /\ UNCHANGED <<disk, queue, memory, told, events, history>>

(* The newest local row; an optimistic one is dated when it was typed, just *)
(* before the relay stored it.                                             *)
HighWaterMark ==
    Max({0} \cup {m \in Messages : rows[m].held} \cup {m - 1 : m \in pending})

(* backfill: the page holds what is newer than the mark, with its receipts *)
(* as the relay has them now.                                              *)
Fetch(b) ==
    /\ ~calls[b].busy /\ pages[b] = {}
    /\ pages' = [pages EXCEPT ![b] =
                   {[message |-> m, given |-> told[m]] :
                       m \in {n \in Messages : n > HighWaterMark}}]
    /\ UNCHANGED <<disk, queue, parked, calls, sweeps, world, history>>

(* ... and is stored row by row, the oldest first. *)
StoreNext(b) ==
    /\ ~calls[b].busy
    /\ \E e \in pages[b] :
          /\ \A o \in pages[b] : e.message <= o.message
          /\ calls' = [calls EXCEPT ![b] = Call(e.message, FALSE, e.given)]
          /\ pages' = [pages EXCEPT ![b] = @ \ {e}]
    /\ Create(Get(b))
    /\ UNCHANGED <<disk, parked, sweeps, world, history>>

-----------------------------------------------------------------------------
(* Receipts for our messages *)

(* The relay records the peer's receipt and publishes it. *)
Tell(m, f) ==
    /\ m \in Mine /\ ~told[m][f]
    /\ told' = [told EXCEPT ![m][f] = TRUE]
    /\ events' = events \cup {<<m, f>>}
    /\ UNCHANGED <<disk, queue, memory, arrived, history>>

(* syncReceipts: the relay answers with receipts it has; which of them, its *)
(* cursor decides.                                                         *)
Poll(m, f) ==
    /\ told[m][f]
    /\ events' = events \cup {<<m, f>>}
    /\ UNCHANGED <<disk, queue, memory, told, arrived, history>>

(* onmessage "receipt", or the answer of the poll: markReceipt ... *)
HandleReceipt(m, f) ==
    /\ <<m, f>> \in events
    /\ events' = events \ {<<m, f>>}
    /\ Create(Stamp(m, f))
    /\ UNCHANGED <<disk, memory, told, arrived, history>>

(* ... is one transaction, which stamps the row or parks the receipt. *)
RunStamp(m, f) ==
    /\ Runs(Stamp(m, f)) /\ Done
    /\ IF ~rows[m].held
       THEN parked' = [parked EXCEPT ![m][f] = TRUE] /\ UNCHANGED rows
       ELSE /\ rows' = IF rows[m][f] THEN rows
                       ELSE [rows EXCEPT ![m][f] = TRUE, ![m].deliveredAt = TRUE]
            /\ UNCHANGED parked
    /\ UNCHANGED <<pending, calls, pages, sweeps, world, history>>

-----------------------------------------------------------------------------
(* Receipts of ours *)

(* The user opens the chat: markSeen is one transaction. *)
OpenChat ==
    /\ ~Waiting(See)
    /\ Create(See)
    /\ UNCHANGED <<disk, memory, world, history>>

RunSee ==
    LET unseen == {m \in Theirs : rows[m].held /\ ~rows[m].seen}
    IN  /\ Runs(See) /\ Done
        /\ rows' = [m \in Messages |-> IF m \in unseen THEN [rows[m] EXCEPT !.seen = TRUE]
                                       ELSE rows[m]]
        /\ shown' = shown \cup unseen
        /\ UNCHANGED <<pending, memory, world, sent, reloads>>

(* Mutant: the read sweep reports what was never opened. *)
unsentUnopened(f) == {m \in Theirs : rows[m].held /\ ~rows[m][f]}

(* Mutant: the sweep waits for the message to be opened. *)
unsentOnlySeen(f) == {m \in Theirs : rows[m].held /\ rows[m].seen /\ ~rows[m][f]}

(* unsentReceiptIds: what is here and has not been acknowledged. *)
unsentReceiptIds(f) ==
    {m \in Theirs : /\ rows[m].held /\ ~rows[m][f]
                    /\ f = "readAck" => rows[m].seen}

(* acknowledgeDelivery, acknowledgeRead: the ids are read ... *)
Sweep(f) ==
    /\ sweeps[f].step = "idle"
    /\ sweeps' = [sweeps EXCEPT ![f].step = "read"]
    /\ Create(Collect(f))
    /\ UNCHANGED <<disk, parked, calls, pages, world, history>>

RunCollect(f) ==
    /\ Runs(Collect(f)) /\ Done
    /\ sweeps' = [sweeps EXCEPT ![f] =
                    IF unsentReceiptIds(f) = {} THEN NoSweep
                    ELSE [step |-> "send", ids |-> unsentReceiptIds(f)]]
    /\ UNCHANGED <<disk, parked, calls, pages, world, history>>

(* ... the socket takes the frame and they are marked ... *)
SweepSend(f) ==
    /\ sweeps[f].step = "send"
    /\ sent' = [sent EXCEPT ![f] = @ \cup sweeps[f].ids]
    /\ sweeps' = [sweeps EXCEPT ![f].step = "mark"]
    /\ Create(Mark(f))
    /\ UNCHANGED <<disk, parked, calls, pages, world, shown, reloads>>

(* Mutant: what the socket refused is marked all the same. *)
SweepRefusedMarks(f) ==
    /\ sweeps[f].step = "send"
    /\ sweeps' = [sweeps EXCEPT ![f].step = "mark"]
    /\ Create(Mark(f))
    /\ UNCHANGED <<disk, parked, calls, pages, world, history>>

(* ... or it is closed, and the sweep ends with nothing marked. *)
SweepRefused(f) ==
    /\ sweeps[f].step = "send"
    /\ sweeps' = [sweeps EXCEPT ![f] = NoSweep]
    /\ UNCHANGED <<disk, queue, parked, calls, pages, world, history>>

(* markAck: one transaction over the rows that are still here. *)
RunMark(f) ==
    /\ Runs(Mark(f)) /\ Done
    /\ rows' = [m \in Messages |-> IF m \in sweeps[f].ids /\ rows[m].held
                                   THEN [rows[m] EXCEPT ![f] = TRUE] ELSE rows[m]]
    /\ sweeps' = [sweeps EXCEPT ![f] = NoSweep]
    /\ UNCHANGED <<pending, parked, calls, pages, world, history>>

-----------------------------------------------------------------------------
(* The page is reloaded: the database stays, and everything in memory, with *)
(* the transactions not yet run and what the socket had not delivered, is   *)
(* gone.                                                                   *)
Reload ==
    /\ reloads < MaxReloads
    /\ reloads' = reloads + 1
    /\ queue' = <<>>
    /\ events' = {}
    /\ parked' = [m \in Messages |-> Nothing]
    /\ calls' = [w \in Writers |-> NoCall]
    /\ pages' = [w \in Backfills |-> {}]
    /\ sweeps' = [f \in Acks |-> NoSweep]
    /\ UNCHANGED <<disk, told, arrived, sent, shown>>

Run ==
    \/ \E w \in Writers : RunDelete(w) \/ RunGet(w) \/ RunPut(w)
    \/ \E m \in Messages, f \in Receipts : RunStamp(m, f)
    \/ RunSee
    \/ \E f \in Acks : RunCollect(f) \/ RunMark(f)

Next ==
    \/ Run
    \/ \E m \in Messages : Arrive(m) \/ Miss(m)
    \/ \E b \in Backfills : Fetch(b) \/ StoreNext(b)
    \/ \E m \in Messages, f \in Receipts : Tell(m, f) \/ Poll(m, f) \/ HandleReceipt(m, f)
    \/ OpenChat
    \/ \E f \in Acks : Sweep(f) \/ SweepSend(f) \/ SweepRefused(f)
    \/ Reload

Spec == Init /\ [][Next]_vars

(* The browser runs every transaction and continuation in the end; the     *)
(* timer sweeps again and again, and a socket that keeps reopening takes a *)
(* frame in the end.                                                       *)
Fairness ==
    /\ WF_vars(Run)
    /\ \A b \in Backfills : WF_vars(StoreNext(b))
    /\ \A f \in Acks : WF_vars(Sweep(f)) /\ SF_vars(SweepSend(f))

FairSpec == Spec /\ Fairness

-----------------------------------------------------------------------------
(* Correctness *)

Stamps == [deliveredAt : BOOLEAN, readAt : BOOLEAN]
Row == [held : BOOLEAN, seen : BOOLEAN, deliveredAck : BOOLEAN, readAck : BOOLEAN,
        deliveredAt : BOOLEAN, readAt : BOOLEAN]

Transactions ==
    {Delete(Handler(m)) : m \in Mine} \cup {Get(w) : w \in Writers} \cup
    {Put(w) : w \in Writers} \cup {Stamp(m, f) : m \in Mine, f \in Receipts} \cup
    {See} \cup {Collect(f) : f \in Acks} \cup {Mark(f) : f \in Acks}

(* Every variable stays in its type; sweeps name only the peer's messages  *)
(* (localStore.ts unsentReceiptIds).                                       *)
TypeOK ==
    /\ pending \subseteq Mine /\ arrived \subseteq Messages /\ shown \subseteq Messages
    /\ rows \in [Messages -> Row]
    /\ queue \in Seq(Transactions)
    /\ parked \in [Messages -> Stamps] /\ told \in [Messages -> Stamps]
    /\ events \subseteq Mine \X Receipts
    /\ calls \in [Writers -> [busy : BOOLEAN, message : Messages \cup {0}, seen : BOOLEAN,
                              given : Stamps, row : Row]]
    /\ pages \in [Backfills -> SUBSET [message : Messages, given : Stamps]]
    /\ sweeps \in [Acks -> [step : {"idle", "read", "send", "mark"}, ids : SUBSET Theirs]]
    /\ sent \in [Acks -> SUBSET Theirs]
    /\ reloads \in 0 .. MaxReloads

(* A row is marked as acknowledged only if the receipt went out, however   *)
(* sweeps and stores interleave: a receipt may be sent twice and is never  *)
(* taken for sent (localStore.ts markAck, sync.js sweepReceipts).          *)
AckedWasSent ==
    \A m \in Messages, f \in Acks :
        rows[m][f] \/ (\E w \in Writers : calls[w].message = m /\ calls[w].row[f])
        => m \in sent[f]

(* No tick is invented: what a row, a parked receipt or a record about to  *)
(* be written says is delivered or read, the relay has recorded; a read    *)
(* receipt counts for both (localStore.ts putMessage, markReceipt).        *)
Backs(m, s) ==
    /\ s.readAt => told[m].readAt
    /\ s.deliveredAt => told[m].deliveredAt \/ told[m].readAt
StampsWereTold ==
    /\ \A m \in Messages : Backs(m, rows[m]) /\ Backs(m, parked[m])
    /\ \A w \in Writers :
          calls[w].busy =>
              Backs(calls[w].message, calls[w].given) /\ Backs(calls[w].message, calls[w].row)

(* A read receipt goes out only for what was on screen, whatever a page of *)
(* history does to the badge in between (localStore.ts                     *)
(* unreadAckedMessageIds).                                                 *)
OnlyOpenedIsReported == sent["readAck"] \subseteq shown

(* A lost acknowledgement is retried: whatever two writers do to a row, in *)
(* the end it stays acknowledged (localStore.ts putMessage: the flags are  *)
(* apart so that a lost receipt is "retryable instead of permanent").      *)
AcknowledgedInTheEnd ==
    \A m \in Theirs : rows[m].held ~> [](rows[m].deliveredAck)

-----------------------------------------------------------------------------
(* What a comment says and the code does not do *)

(* "Receipts only ever move forward" (localStore.ts putMessage): no write  *)
(* takes a tick from a row.                                                *)
ReceiptsOnlyMoveForward ==
    [][\A m \in Messages, f \in Receipts : rows[m][f] => rows'[m][f]]_vars
=============================================================================
