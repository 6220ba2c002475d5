---------------------- MODULE MessageDelivery_proofs ----------------------
(***************************************************************************)
(* What holds of MessageDelivery for any drafts, page size and bounds.     *)
(*                                                                         *)
(* The inductive invariant IInv is TypeOK, RowsAreGrounded and             *)
(* NoClaimRunsAhead, with OnlySocketPutsSeen.  They lean on one another:   *)
(* the high-water mark is a number only because the outbox is finite, a    *)
(* row is of a stored message only because no event names another, and a   *)
(* receipt is true only because what is sent was read off grounded rows.   *)
(* From it follows that the ticks are true and that nothing typed is lost. *)
(*                                                                         *)
(* putMessage reads a row and writes it back in two transactions.          *)
(* PutsAreCurrent says what is left of its promises: a record about to be  *)
(* put is behind its row, or its receipts are parked again, only for the   *)
(* messages in raced.  From it follow ParkedOnlyForMissing,                *)
(* DeviceOnlyMovesForward and the refinement of TickLadder.                *)
(*                                                                         *)
(* A claim is backed by sets (I, A, O) of messages stored, arrived and     *)
(* opened.  Lemma SupportedNext says that a step keeps every claim backed  *)
(* by sets that cover the rows it reads.  It is used twice: with the sets  *)
(* after the step, for the invariant, and with those before it, for the    *)
(* ladder, whose ticks show only what had already happened.                *)
(*                                                                         *)
(* BackfillCovers has an invariant of its own, PagesCover: what a backfill *)
(* was asked for and does not have yet is on the page it is storing, or    *)
(* older than that page while there is more to fetch.                      *)
(***************************************************************************)
EXTENDS MessageDelivery, FiniteSetTheorems, WellFoundedInduction, TLAPS

(* A nonempty set of naturals has a least element. *)
LEMMA LeastExists ==
    ASSUME NEW S \in SUBSET Nat, S # {}
    PROVE  \E x \in S : \A y \in S : x <= y
<1>1. \E x \in S : \A y \in S : ~ (<<y, x>> \in OpToRel(<, Nat))
    BY NatLessThanWellFounded, WFMin
<1>2. \A x, y \in Nat : y < x => <<y, x>> \in OpToRel(<, Nat)
    BY DEF OpToRel
<1>3. PICK x \in S : \A y \in S : ~ (y < x)
    BY <1>1, <1>2, Zenon
<1>4. QED  BY <1>3

(* Min, which is defined by CHOOSE, returns that element. *)
LEMMA MinIsLeast ==
    ASSUME NEW S \in SUBSET Nat, S # {}
    PROVE  Min(S) \in S /\ \A y \in S : Min(S) <= y
BY LeastExists DEF Min

(* Max of a nonempty set of naturals below a bound is its greatest         *)
(* element: the mirror image s -> n - s has a least one.                   *)
LEMMA MaxIsGreatest ==
    ASSUME NEW n \in Nat, NEW S \in SUBSET (0 .. n), S # {}
    PROVE  Max(S) \in S /\ \A y \in S : y <= Max(S)
<1> DEFINE T == {n - s : s \in S}
<1>1. T \in SUBSET Nat
    BY SMT
<1>2. T # {}
    <2>1. PICK s \in S : TRUE  OBVIOUS
    <2>2. n - s \in T  OBVIOUS
    <2>3. QED  BY <2>2
<1> HIDE DEF T
<1>3. PICK x \in T : \A y \in T : x <= y  BY <1>1, <1>2, LeastExists
<1>4. PICK s \in S : x = n - s  BY <1>3 DEF T
<1>5. \A r \in S : s >= r
    <2> TAKE r \in S
    <2>1. n - r \in T  BY DEF T
    <2> QED BY <2>1, <1>3, <1>4
<1> QED BY <1>4, <1>5 DEF Max

(* Counting an outside step keeps the counters natural. *)
LEMMA SpendType ==
    ASSUME NEW kind \in OutsideKinds, TypeOK, Spend(kind)
    PROVE  spent' \in [OutsideKinds -> Nat]
<1>1. spent \in [OutsideKinds -> Nat]  BY DEF TypeOK
<1>2. QED  BY <1>1 DEF Spend

(* Messages are named by naturals; each is a draft of a user. *)
LEMMA IdsType == TypeOK => /\ Len(log) \in Nat /\ Ids \subseteq Nat
                           /\ \A i \in Ids : log[i] \in Drafts /\ SenderOf(i) \in Users
BY DraftsAssumption DEF TypeOK, Ids, SenderOf

(* The peer of a user is a user, and the two are each other's peer. *)
LEMMA PeerType == \A u \in Users : Peer[u] \in Users /\ Peer[Peer[u]] = u
BY UsersAssumption

(* The get of putMessage makes a record of what is stored and parked. *)
LEMMA RecordType ==
    ASSUME TypeOK, NEW u \in Users, NEW i \in Nat,
           NEW seen \in BOOLEAN, NEW isDelivered \in BOOLEAN, NEW isRead \in BOOLEAN
    PROVE  LET r == recordOf(u, i, seen, isDelivered, isRead)
               row == rows[u]
               park == parked[u]
           IN  /\ r \in Record
               /\ r.id = i /\ r.seen = seen
               /\ r.deliveredAck = (i \in row.deliveredAck)
               /\ r.readAck = (i \in row.readAck)
               /\ r.deliveredAt = (isDelivered \/ i \in row.deliveredAt
                                    \/ i \in park.deliveredAt \/ i \in park.readAt)
               /\ r.readAt = (isRead \/ i \in row.readAt \/ i \in park.readAt)
<1>1. /\ (i \in rows[u].deliveredAck) \in BOOLEAN /\ (i \in rows[u].readAck) \in BOOLEAN
      /\ (i \in rows[u].deliveredAt) \in BOOLEAN /\ (i \in rows[u].readAt) \in BOOLEAN
      /\ (i \in parked[u].deliveredAt) \in BOOLEAN /\ (i \in parked[u].readAt) \in BOOLEAN
    OBVIOUS
<1> QED BY <1>1 DEF recordOf, existing, Record

(* Its put replaces what is stored of that message and nothing else. *)
LEMMA PutRow ==
    ASSUME NEW row \in Rows, NEW p \in Record
    PROVE  /\ putRecord(row, p) \in Rows
           /\ putRecord(row, p).pending = row.pending
           /\ putRecord(row, p).held = row.held \cup {p.id}
           /\ putRecord(row, p).seen = flag(row.seen, p.id, p.seen)
           /\ putRecord(row, p).deliveredAck = flag(row.deliveredAck, p.id, p.deliveredAck)
           /\ putRecord(row, p).readAck = flag(row.readAck, p.id, p.readAck)
           /\ putRecord(row, p).deliveredAt = flag(row.deliveredAt, p.id, p.deliveredAt)
           /\ putRecord(row, p).readAt = flag(row.readAt, p.id, p.readAt)
<1>1. p.id \in Nat  BY DEF Record
<1>2. \A S \in SUBSET Nat : \A value : flag(S, p.id, value) \in SUBSET Nat
    BY <1>1 DEF flag
<1> QED BY <1>1, <1>2 DEF putRecord, Rows

(* What stays parked is still stamps. *)
LEMMA UnparkType ==
    ASSUME NEW park \in Stamps, NEW i
    PROVE  unpark(park, i) \in Stamps
BY DEF unpark, Stamps

(* Receipts and acknowledgements yield rows. *)
LEMMA StampedRow ==
    ASSUME NEW row \in Rows, NEW S \in SUBSET Nat
    PROVE  /\ stampDelivered(row, S) \in Rows
           /\ stampRead(row, S) \in Rows
           /\ markDeliveredAck(row, S) \in Rows
           /\ markReadAck(row, S) \in Rows
BY DEF stampDelivered, stampRead, markDeliveredAck, markReadAck, Rows

(* The events are events of their wires. *)
LEMMA EventType ==
    /\ \A i \in Nat : NewEvent(i) \in Downstream
    /\ \A S \in SUBSET Nat : /\ DeliveredEvent(S) \in Downstream \cap Upstream
                             /\ ReadEvent(S) \in Downstream \cap Upstream
    /\ \A d \in Drafts : SendEvent(d) \in Upstream
BY DEF NewEvent, DeliveredEvent, ReadEvent, SendEvent, Downstream, Upstream

(* Publishing keeps the sockets sequences of events. *)
LEMMA PublishType ==
    ASSUME TypeOK, NEW targets, NEW e \in Downstream
    PROVE  publish(targets, e) \in [Users -> Seq(Downstream)]
BY DEF publish, TypeOK

(* Moving a task keeps the stages well typed. *)
LEMMA GotoType ==
    ASSUME TypeOK, NEW u \in Users, NEW t \in Tasks, NEW where \in Stages, goto(u, t, where)
    PROVE  pc' \in [Users -> [Tasks -> Stages]]
BY DEF goto, TypeOK

(* The locals of a task that runs no backfill. *)
LEMMA NoFetchType == NoFetch \in Fetches
BY DEF NoFetch, Fetches

(* Replacing the locals of one task. *)
LEMMA FetchType ==
    ASSUME TypeOK, NEW u \in Users, NEW t \in Tasks, NEW f \in Fetches
    PROVE  [fetch EXCEPT ![u][t] = f] \in [Users -> [Tasks -> Fetches]]
BY DEF TypeOK

(* Noting what was written in the middle of a putMessage. *)
LEMMA RaceType ==
    ASSUME TypeOK, NEW u \in Users, NEW S \in SUBSET Nat, race(u, S)
    PROVE  raced' \in [Users -> SUBSET Nat]
BY DEF race, TypeOK

(* Asking for a pass keeps stages and latches well typed. *)
LEMMA ReconcileType ==
    ASSUME TypeOK, NEW u \in Users, reconcileRealtime(u)
    PROVE  /\ pc' \in [Users -> [Tasks -> Stages]]
           /\ latch' \in [Users -> BOOLEAN]
<1>1. latch' \in [Users -> BOOLEAN]
    BY DEF reconcileRealtime, TypeOK
<1>2. pc \in [Users -> [Tasks -> Stages]] /\ "reconcile" \in Tasks /\ "since" \in Stages
    BY DEF TypeOK, Tasks, Stages
<1>3. pc' \in [Users -> [Tasks -> Stages]]
    BY <1>2 DEF reconcileRealtime
<1> QED BY <1>1, <1>3

(* Every action by which the relay takes an event off a socket. *)
LEMMA TypeRelay ==
    ASSUME TypeOK, NEW u \in Users, RelayNext(u)
    PROVE  TypeOK'
<1>1. CASE RelaySend(u)
    <2>1. Head(up[u]) \in Upstream /\ Tail(up[u]) \in Seq(Upstream)
        BY <1>1 DEF RelaySend, TypeOK
    <2>2. Head(up[u]).draft \in Drafts
        BY <2>1, <1>1 DEF RelaySend, Upstream
    <2>3. down' \in [Users -> Seq(Downstream)]
        BY <1>1, EventType, PublishType, IdsType DEF RelaySend
    <2>4. log' \in Seq(Drafts) /\ up' \in [Users -> Seq(Upstream)]
        BY <1>1, <2>1, <2>2 DEF RelaySend, TypeOK
    <2> QED BY <1>1, <2>3, <2>4 DEF RelaySend, TypeOK, diskVars, memoryVars, historyVars
<1>2. CASE RelayDelivered(u)
    <2>1. Head(up[u]) \in Upstream /\ Tail(up[u]) \in Seq(Upstream)
        BY <1>2 DEF RelayDelivered, TypeOK
    <2>2. recordDelivered(u, Head(up[u]).ids) \in SUBSET Nat
        BY <2>1, <1>2 DEF RelayDelivered, Upstream, recordDelivered, FromPeer
    <2>3. down' \in [Users -> Seq(Downstream)]
        BY <1>2, <2>2, EventType, PublishType DEF RelayDelivered, TypeOK
    <2>4. delivered' \in SUBSET Nat /\ up' \in [Users -> Seq(Upstream)]
        BY <1>2, <2>1, <2>2 DEF RelayDelivered, TypeOK
    <2> QED BY <1>2, <2>3, <2>4 DEF RelayDelivered, TypeOK, diskVars, memoryVars, historyVars
<1>3. CASE RelayRead(u)
    <2>1. Head(up[u]) \in Upstream /\ Tail(up[u]) \in Seq(Upstream)
        BY <1>3 DEF RelayRead, TypeOK
    <2>2. record_read_receipts(u, Head(up[u]).ids) \in SUBSET Nat
        BY <2>1, <1>3 DEF RelayRead, Upstream, record_read_receipts, FromPeer
    <2>3. down' \in [Users -> Seq(Downstream)]
        BY <1>3, <2>2, EventType, PublishType DEF RelayRead, TypeOK
    <2>4. read' \in SUBSET Nat /\ up' \in [Users -> Seq(Upstream)]
        BY <1>3, <2>1, <2>2 DEF RelayRead, TypeOK
    <2> QED BY <1>3, <2>3, <2>4 DEF RelayRead, TypeOK, diskVars, memoryVars, historyVars
<1> QED BY <1>1, <1>2, <1>3 DEF RelayNext

(* Every fault. *)
LEMMA TypeFaults ==
    ASSUME TypeOK, NEW u \in Users, FaultNext(u)
    PROVE  TypeOK'
<1>. USE DEF OutsideKinds
<1>1. CASE RelayReject(u)
    <2>1. spent' \in [OutsideKinds -> Nat]  BY <1>1, SpendType DEF RelayReject
    <2>2. Tail(up[u]) \in Seq(Upstream)  BY <1>1 DEF RelayReject, TypeOK
    <2>3. up' \in [Users -> Seq(Upstream)]  BY <1>1, <2>2 DEF RelayReject, TypeOK
    <2> QED BY <1>1, <2>1, <2>3 DEF RelayReject, TypeOK, relayVars, diskVars, memoryVars
<1>2. CASE RelayLag(u)
    <2>1. spent' \in [OutsideKinds -> Nat]  BY <1>2, SpendType DEF RelayLag
    <2>2. Tail(down[u]) \in Seq(Downstream)  BY <1>2 DEF RelayLag, TypeOK
    <2>3. down' \in [Users -> Seq(Downstream)]  BY <1>2, <2>2 DEF RelayLag, TypeOK
    <2> QED BY <1>2, <2>1, <2>3 DEF RelayLag, TypeOK, relayVars, diskVars, memoryVars
<1>3. CASE Drop(u)
    <2>1. spent' \in [OutsideKinds -> Nat]  BY <1>3, SpendType DEF Drop
    <2>2. /\ link' \in [Users -> {"closed", "open", "live"}]
          /\ up' \in [Users -> Seq(Upstream)] /\ down' \in [Users -> Seq(Downstream)]
        BY <1>3 DEF Drop, TypeOK
    <2> QED BY <1>3, <2>1, <2>2 DEF Drop, TypeOK, relayVars, diskVars, memoryVars
<1>4. CASE Reload(u)
    <2>1. spent' \in [OutsideKinds -> Nat]  BY <1>4, SpendType DEF Reload
    <2>2. /\ link' \in [Users -> {"closed", "open", "live"}]
          /\ up' \in [Users -> Seq(Upstream)] /\ down' \in [Users -> Seq(Downstream)]
        BY <1>4 DEF Reload, TypeOK
    <2>3. parked' \in [Users -> Stamps] /\ receipts' \in [Users -> Stamps]
        BY <1>4 DEF Reload, TypeOK, Stamps, NothingParked
    <2>4. pc' \in [Users -> [Tasks -> Stages]]
        BY <1>4 DEF Reload, TypeOK, Tasks, Stages, Bootstrapping
    <2>5. fetch'[u] \in [Tasks -> Fetches]
        BY <1>4, NoFetchType DEF Reload, TypeOK
    <2>6. fetch' \in [Users -> [Tasks -> Fetches]]
        BY <1>4, <2>5 DEF Reload, TypeOK
    <2>7. /\ latch' \in [Users -> BOOLEAN] /\ viewing' \in [Users -> BOOLEAN]
          /\ handlers' \in [Users -> SUBSET Continuations]
          /\ puts' \in [Users -> SUBSET Put]
        BY <1>4 DEF Reload, TypeOK
    <2> QED BY <1>4, <2>1, <2>2, <2>3, <2>4, <2>6, <2>7 DEF Reload, TypeOK, relayVars, diskVars
<1>5. CASE ReconcileFails(u)
    <2>1. spent' \in [OutsideKinds -> Nat]  BY <1>5, SpendType DEF ReconcileFails
    <2>2. receipts' \in [Users -> Stamps]
        BY <1>5 DEF ReconcileFails, TypeOK, Stamps, NothingParked
    <2>3. pc' \in [Users -> [Tasks -> Stages]]
        BY <1>5, GotoType DEF ReconcileFails, finishReconcile, Tasks, Stages
    <2>4. fetch' \in [Users -> [Tasks -> Fetches]]
        BY <1>5, FetchType, NoFetchType DEF ReconcileFails, Tasks
    <2>5. latch' \in [Users -> BOOLEAN]
        BY <1>5 DEF ReconcileFails, finishReconcile, TypeOK
    <2> QED BY <1>5, <2>1, <2>2, <2>3, <2>4, <2>5
            DEF ReconcileFails, TypeOK, relayVars, wireVars, diskVars
<1>6. CASE LoadFails(u)
    <2>1. spent' \in [OutsideKinds -> Nat]  BY <1>6, SpendType DEF LoadFails
    <2>2. pc' \in [Users -> [Tasks -> Stages]]
        BY <1>6, GotoType DEF LoadFails, finishLoading, Tasks, Stages
    <2>3. fetch' \in [Users -> [Tasks -> Fetches]]
        BY <1>6, FetchType, NoFetchType DEF LoadFails, finishLoading, Tasks
    <2>4. handlers' \in [Users -> SUBSET Continuations]
        BY <1>6 DEF LoadFails, finishLoading, TypeOK, Continuations
    <2> QED BY <1>6, <2>1, <2>2, <2>3, <2>4
            DEF LoadFails, finishLoading, TypeOK, relayVars, wireVars, diskVars
<1>7. CASE TimerInPass(u)
    <2>1. spent' \in [OutsideKinds -> Nat]  BY <1>7, SpendType DEF TimerInPass
    <2>2. latch' \in [Users -> BOOLEAN]
          /\ pc' \in [Users -> [Tasks -> Stages]]
        BY <1>7, ReconcileType DEF TimerInPass
    <2> QED BY <1>7, <2>1, <2>2 DEF TimerInPass, TypeOK, relayVars, wireVars, diskVars
<1> QED BY <1>1, <1>2, <1>3, <1>4, <1>5, <1>6, <1>7 DEF FaultNext

(* Connecting, subscribing and the timer. *)
LEMMA TypeSocket ==
    ASSUME TypeOK, NEW u \in Users, Connect(u) \/ Subscribe(u) \/ Timer(u)
    PROVE  TypeOK'
<1>1. CASE Connect(u)
    <2>1. link' \in [Users -> {"closed", "open", "live"}]  BY <1>1 DEF Connect, TypeOK
    <2> QED BY <1>1, <2>1, ReconcileType DEF Connect, TypeOK, relayVars, diskVars, historyVars
<1>2. CASE Subscribe(u)
    BY <1>2 DEF Subscribe, TypeOK, relayVars, diskVars, memoryVars, historyVars
<1>3. CASE Timer(u)
    <2>1. spent' \in [OutsideKinds -> Nat]  BY <1>3, SpendType DEF Timer, OutsideKinds
    <2> QED BY <1>3, <2>1, ReconcileType DEF Timer, TypeOK, relayVars, wireVars, diskVars
<1> QED BY <1>1, <1>2, <1>3

(* Replacing the rows of one device. *)
LEMMA RowUpdateType ==
    ASSUME TypeOK, NEW u \in Users, NEW row \in Rows
    PROVE  [rows EXCEPT ![u] = row] \in [Users -> Rows]
BY DEF TypeOK

(* Replacing what is parked on one device. *)
LEMMA ParkedUpdateType ==
    ASSUME TypeOK, NEW u \in Users, NEW park \in Stamps
    PROVE  [parked EXCEPT ![u] = park] \in [Users -> Stamps]
BY DEF TypeOK

(* Every action by which a device takes an event off its socket. *)
LEMMA TypeReceive ==
    ASSUME TypeOK, NEW u \in Users, ReceiveNext(u)
    PROVE  TypeOK'
<1>1. rows[u] \in Rows /\ parked[u] \in Stamps /\ viewing[u] \in BOOLEAN
    BY DEF TypeOK
<1>2. ASSUME down[u] # <<>>
      PROVE  Head(down[u]) \in Downstream /\ Tail(down[u]) \in Seq(Downstream)
    BY <1>2 DEF TypeOK
<1>3. CASE ReceiveMessage(u)
    <2> DEFINE mine(i) == SenderOf(i) = u
               put(i) == [by |-> "socket", shown |-> viewing[u],
                          record |-> recordOf(u, i, mine(i) \/ viewing[u], FALSE, FALSE)]
    <2>1. PICK i \in Head(down[u]).ids :
            /\ \/ rows' = [rows EXCEPT ![u] = withoutOptimistic(rows[u], log[i])]
               \/ rows' = rows
            /\ parked' = [parked EXCEPT ![u] = unpark(parked[u], i)]
            /\ puts' = [puts EXCEPT ![u] = @ \cup {put(i)}]
        BY <1>1, <1>3 DEF ReceiveMessage, TypeOK
    <2>2. i \in Nat  BY <1>2, <1>3, <2>1 DEF ReceiveMessage, Downstream
    <2>3. withoutOptimistic(rows[u], log[i]) \in Rows
        BY <1>1 DEF withoutOptimistic, Rows
    <2>4. rows' \in [Users -> Rows]
        BY <2>1, <2>3, RowUpdateType DEF TypeOK
    <2>5. parked' \in [Users -> Stamps]
        BY <1>1, <2>1, UnparkType, ParkedUpdateType
    <2>6. puts' \in [Users -> SUBSET Put]
        <3>1. (mine(i) \/ viewing[u]) \in BOOLEAN  OBVIOUS
        <3>2. recordOf(u, i, mine(i) \/ viewing[u], FALSE, FALSE) \in Record
            BY <2>2, <3>1, RecordType
        <3>3. put(i) \in Put  BY <1>1, <3>2 DEF Put
        <3> HIDE DEF put
        <3> QED BY <2>1, <3>3 DEF TypeOK
    <2>7. down' \in [Users -> Seq(Downstream)]  BY <1>2, <1>3 DEF ReceiveMessage, TypeOK
    <2> QED BY <1>3, <2>4, <2>5, <2>6, <2>7 DEF ReceiveMessage, TypeOK, relayVars, historyVars
<1>4. CASE ReceiveDelivered(u)
    <2>1. Head(down[u]).ids \in SUBSET Nat  BY <1>2, <1>4 DEF ReceiveDelivered, Downstream
    <2>2. rows' \in [Users -> Rows]
        BY <1>1, <1>4, <2>1, StampedRow, RowUpdateType DEF ReceiveDelivered
    <2>3. parked' \in [Users -> Stamps]
        <3>1. [parked[u] EXCEPT !.deliveredAt = @ \cup (Head(down[u]).ids \ rows[u].held)] \in Stamps
            BY <1>1, <2>1 DEF Stamps
        <3> QED BY <1>4, <3>1, ParkedUpdateType DEF ReceiveDelivered
    <2>4. down' \in [Users -> Seq(Downstream)]  BY <1>2, <1>4 DEF ReceiveDelivered, TypeOK
    <2>5. raced' \in [Users -> SUBSET Nat]  BY <1>4, <2>1, RaceType DEF ReceiveDelivered
    <2> QED BY <1>4, <2>2, <2>3, <2>4, <2>5 DEF ReceiveDelivered, TypeOK, relayVars
<1>5. CASE ReceiveRead(u)
    <2>1. Head(down[u]).ids \in SUBSET Nat  BY <1>2, <1>5 DEF ReceiveRead, Downstream
    <2>2. rows' \in [Users -> Rows]
        BY <1>1, <1>5, <2>1, StampedRow, RowUpdateType DEF ReceiveRead
    <2>3. parked' \in [Users -> Stamps]
        <3>1. [parked[u] EXCEPT !.readAt = @ \cup (Head(down[u]).ids \ rows[u].held)] \in Stamps
            BY <1>1, <2>1 DEF Stamps
        <3> QED BY <1>5, <3>1, ParkedUpdateType DEF ReceiveRead
    <2>4. down' \in [Users -> Seq(Downstream)]  BY <1>2, <1>5 DEF ReceiveRead, TypeOK
    <2>5. raced' \in [Users -> SUBSET Nat]  BY <1>5, <2>1, RaceType DEF ReceiveRead
    <2> QED BY <1>5, <2>2, <2>3, <2>4, <2>5 DEF ReceiveRead, TypeOK, relayVars
<1> QED BY <1>3, <1>4, <1>5 DEF ReceiveNext

(* The sweeps report messages. *)
LEMMA AckIdsType ==
    ASSUME TypeOK, NEW u \in Users
    PROVE  /\ unacknowledgedMessageIds(u) \in SUBSET Nat
           /\ unreadAckedMessageIds(u) \in SUBSET Nat
BY DEF unacknowledgedMessageIds, unreadAckedMessageIds, FromPeer, TypeOK, Rows

(* The frames of a sweep are events. *)
LEMMA SweepType ==
    ASSUME NEW S \in SUBSET Nat
    PROVE  /\ sweep(DeliveredEvent(S)) \in Seq(Upstream)
           /\ sweep(ReadEvent(S)) \in Seq(Upstream)
BY EventType DEF sweep

(* Sending frames keeps the socket a sequence of events. *)
LEMMA EmitType ==
    ASSUME TypeOK, NEW u \in Users, NEW frames \in Seq(Upstream), emit(u, frames)
    PROVE  up' \in [Users -> Seq(Upstream)]
<1>1. up[u] \o frames \in Seq(Upstream)  BY DEF TypeOK
<1> QED BY <1>1 DEF emit, TypeOK

(* Acknowledging yields rows. *)
LEMMA AckedRowType ==
    ASSUME TypeOK, NEW u \in Users, NEW D \in SUBSET Nat, NEW R \in SUBSET Nat
    PROVE  /\ markReadAck(rows[u], R) \in Rows
           /\ markReadAck(markDeliveredAck(rows[u], D), R) \in Rows
BY StampedRow DEF TypeOK

(* POST read, in each of its outcomes. *)
LEMMA PostType ==
    ASSUME TypeOK, NEW u \in Users, NEW ids \in SUBSET Nat, postReadReceipts(u, ids)
    PROVE  /\ read' \in SUBSET Nat
           /\ down' \in [Users -> Seq(Downstream)]
           /\ rows' \in [Users -> Rows]
           /\ raced' \in [Users -> SUBSET Nat]
           /\ spent' \in [OutsideKinds -> Nat]
<1> DEFINE fresh == record_read_receipts(u, ids)
<1>1. fresh \in SUBSET Nat  BY DEF record_read_receipts, FromPeer
<1>2. publish({Peer[u]}, ReadEvent(fresh)) \in [Users -> Seq(Downstream)]
    BY <1>1, EventType, PublishType
<1>3. [rows EXCEPT ![u] = markReadAck(rows[u], ids)] \in [Users -> Rows]
    BY AckedRowType, RowUpdateType
<1>4. /\ read \in SUBSET Nat /\ down \in [Users -> Seq(Downstream)]
      /\ rows \in [Users -> Rows] /\ spent \in [OutsideKinds -> Nat]
    BY DEF TypeOK
<1>5. Spend("http") => spent' \in [OutsideKinds -> Nat]
    BY SpendType DEF OutsideKinds
<1> HIDE DEF fresh
<1>6. raced' \in [Users -> SUBSET Nat]
    BY RaceType DEF postReadReceipts, TypeOK
<1> QED BY <1>1, <1>2, <1>3, <1>4, <1>5, <1>6 DEF postReadReceipts, fresh

(* Every continuation of a socket or screen handler. *)
LEMMA TypeHandler ==
    ASSUME TypeOK, NEW u \in Users, HandlerNext(u)
    PROVE  TypeOK'
<1> DEFINE delivery == unacknowledgedMessageIds(u)
           reading == unreadAckedMessageIds(u)
<1>1. delivery \in SUBSET Nat /\ reading \in SUBSET Nat
    BY AckIdsType
<1>2. CASE HandleStored(u)
    <2>1. PICK h \in handlers[u], R \in {{}, reading} :
            /\ finish(u, h)
            /\ \/ /\ emit(u, sweep(DeliveredEvent(delivery)) \o sweep(ReadEvent(R)))
                  /\ rows' = [rows EXCEPT ![u] =
                                 markReadAck(markDeliveredAck(rows[u], delivery), R)]
                  /\ race(u, delivery \cup R)
                  /\ UNCHANGED <<read, down, spent>>
               \/ postReadReceipts(u, R) /\ UNCHANGED up
            /\ UNCHANGED <<log, delivered, link, cursor, parked, pc, fetch, puts>>
            /\ UNCHANGED <<receipts, latch, viewing, composed, opened>>
        BY <1>2 DEF HandleStored
    <2>2. R \in SUBSET Nat /\ delivery \cup R \in SUBSET Nat  BY <1>1
    <2> HIDE DEF delivery, reading
    <2>3. sweep(DeliveredEvent(delivery)) \o sweep(ReadEvent(R)) \in Seq(Upstream)
        BY <1>1, <2>2, SweepType
    <2>4. up' \in [Users -> Seq(Upstream)]
        BY <2>1, <2>3, EmitType DEF TypeOK
    <2>5. /\ read' \in SUBSET Nat /\ down' \in [Users -> Seq(Downstream)]
          /\ rows' \in [Users -> Rows] /\ spent' \in [OutsideKinds -> Nat]
          /\ raced' \in [Users -> SUBSET Nat]
        <3>1. CASE postReadReceipts(u, R)  BY <2>2, <3>1, PostType
        <3>2. CASE /\ UNCHANGED <<read, down, spent>> /\ race(u, delivery \cup R)
                   /\ rows' = [rows EXCEPT ![u] =
                                  markReadAck(markDeliveredAck(rows[u], delivery), R)]
            BY <1>1, <2>2, <3>2, AckedRowType, RowUpdateType, RaceType DEF TypeOK
        <3> QED BY <2>1, <3>1, <3>2
    <2>6. handlers' \in [Users -> SUBSET Continuations]  BY <2>1 DEF finish, TypeOK
    <2> QED BY <2>1, <2>4, <2>5, <2>6 DEF TypeOK
<1>3. CASE HandleSeen(u)
    <2>1. PICK h \in handlers[u] :
            /\ h[1] = "seen"
            /\ handlers' = [handlers EXCEPT ![u] = (@ \ {h}) \cup {<<"read", h[2]>>}]
        BY <1>3 DEF HandleSeen
    <2>2. markSeen(u) \in SUBSET Nat  BY DEF markSeen, FromPeer, TypeOK, Rows
    <2>3. handlers' \in [Users -> SUBSET Continuations]
        BY <2>1 DEF TypeOK, Continuations
    <2>4. [rows[u] EXCEPT !.seen = @ \cup markSeen(u)] \in Rows
        <3>1. rows[u] \in Rows  BY DEF TypeOK
        <3> QED BY <2>2, <3>1 DEF Rows
    <2>5. rows' \in [Users -> Rows]
        BY <1>3, <2>4, RowUpdateType DEF HandleSeen
    <2>6. opened' \in [Users -> SUBSET Nat]
        BY <1>3, <2>2 DEF HandleSeen, TypeOK
    <2> QED BY <1>3, <2>3, <2>5, <2>6 DEF HandleSeen, TypeOK, relayVars, wireVars
<1>4. CASE HandleRead(u)
    <2>1. PICK h \in handlers[u] :
            /\ finish(u, h)
            /\ \/ /\ emit(u, sweep(ReadEvent(reading)))
                  /\ rows' = [rows EXCEPT ![u] = markReadAck(rows[u], reading)]
                  /\ race(u, reading)
                  /\ UNCHANGED <<read, down, spent>>
               \/ postReadReceipts(u, reading) /\ UNCHANGED up
            /\ UNCHANGED <<log, delivered, link, cursor, parked, pc, fetch, puts>>
            /\ UNCHANGED <<receipts, latch, viewing, composed, opened>>
        BY <1>4 DEF HandleRead
    <2> HIDE DEF delivery, reading
    <2>2. up' \in [Users -> Seq(Upstream)]
        BY <1>1, <2>1, SweepType, EmitType DEF TypeOK
    <2>3. /\ read' \in SUBSET Nat /\ down' \in [Users -> Seq(Downstream)]
          /\ rows' \in [Users -> Rows] /\ spent' \in [OutsideKinds -> Nat]
          /\ raced' \in [Users -> SUBSET Nat]
        <3>1. CASE postReadReceipts(u, reading)  BY <1>1, <3>1, PostType
        <3>2. CASE /\ UNCHANGED <<read, down, spent>> /\ race(u, reading)
                   /\ rows' = [rows EXCEPT ![u] = markReadAck(rows[u], reading)]
            BY <1>1, <3>2, AckedRowType, RowUpdateType, RaceType DEF TypeOK
        <3> QED BY <2>1, <3>1, <3>2
    <2>4. handlers' \in [Users -> SUBSET Continuations]  BY <2>1 DEF finish, TypeOK
    <2> QED BY <2>1, <2>2, <2>3, <2>4 DEF TypeOK
<1> QED BY <1>2, <1>3, <1>4 DEF HandlerNext

(* What the put of p does, field by field. *)
LEMMA StoreEffect ==
    ASSUME TypeOK, NEW u \in Users, NEW p \in puts[u], store(u, p)
    PROVE  /\ p \in Put /\ p.record \in Record /\ p.record.id \in Nat
           /\ rows' \in [Users -> Rows] /\ puts' \in [Users -> SUBSET Put]
           /\ raced' \in [Users -> SUBSET Nat]
           /\ rows' = [rows EXCEPT ![u] = putRecord(rows[u], p.record)]
           /\ rows'[u] = putRecord(rows[u], p.record)
           /\ puts'[u] = puts[u] \ {p}
           /\ raced'[u] = raced[u] \cup {i \in {p.record.id} :
                                \E q \in puts[u] : q # p /\ q.record.id = i}
           /\ \A v \in Users : v # u => /\ rows'[v] = rows[v] /\ puts'[v] = puts[v]
                                        /\ raced'[v] = raced[v]
<1>1. /\ rows \in [Users -> Rows] /\ puts \in [Users -> SUBSET Put]
      /\ raced \in [Users -> SUBSET Nat]
    BY DEF TypeOK
<1>2. p \in Put /\ p.record \in Record /\ p.record.id \in Nat
    BY <1>1 DEF Put, Record
<1>3. putRecord(rows[u], p.record) \in Rows
    BY <1>1, <1>2, PutRow
<1>4. rows' = [rows EXCEPT ![u] = putRecord(rows[u], p.record)]
    BY <1>1 DEF store
<1>5. /\ rows' \in [Users -> Rows] /\ rows'[u] = putRecord(rows[u], p.record)
      /\ \A v \in Users : v # u => rows'[v] = rows[v]
    BY <1>1, <1>3, <1>4
<1>6. /\ puts' \in [Users -> SUBSET Put] /\ puts'[u] = puts[u] \ {p}
      /\ \A v \in Users : v # u => puts'[v] = puts[v]
    BY <1>1 DEF store
<1>7. /\ raced' \in [Users -> SUBSET Nat]
      /\ raced'[u] = raced[u] \cup {i \in {p.record.id} :
                           \E q \in puts[u] : q # p /\ q.record.id = i}
      /\ \A v \in Users : v # u => raced'[v] = raced[v]
    BY <1>1, <1>2 DEF store
<1> QED BY <1>2, <1>4, <1>5, <1>6, <1>7

(* Every put. *)
LEMMA TypeStore ==
    ASSUME TypeOK, NEW u \in Users, StoreNext(u)
    PROVE  TypeOK'
<1>1. CASE StoreReceived(u)
    <2>1. PICK p \in puts[u] :
            /\ store(u, p)
            /\ opened' = [opened EXCEPT ![u] = @ \cup {j \in {p.record.id} : p.record.seen}]
            /\ \/ handlers' = handlers
               \/ handlers' = [handlers EXCEPT ![u] = @ \cup
                      {<<IF p.shown THEN "storedOnScreen" ELSE "stored", p.record.id>>}]
        BY <1>1 DEF StoreReceived
    <2>2. /\ p.record.id \in Nat
          /\ rows' \in [Users -> Rows] /\ puts' \in [Users -> SUBSET Put]
          /\ raced' \in [Users -> SUBSET Nat]
        BY <2>1, StoreEffect
    <2>3. opened' \in [Users -> SUBSET Nat]  BY <2>1, <2>2 DEF TypeOK
    <2>4. handlers' \in [Users -> SUBSET Continuations]
        <3> DEFINE h == <<IF p.shown THEN "storedOnScreen" ELSE "stored", p.record.id>>
        <3>1. h \in Continuations  BY <2>2 DEF Continuations
        <3>2. handlers' = handlers \/ handlers' = [handlers EXCEPT ![u] = @ \cup {h}]
            BY <2>1
        <3>3. handlers \in [Users -> SUBSET Continuations]  BY DEF TypeOK
        <3> HIDE DEF h
        <3> QED BY ONLY <3>1, <3>2, <3>3, p \in puts[u]
    <2> QED BY <1>1, <2>2, <2>3, <2>4 DEF StoreReceived, TypeOK, relayVars, wireVars
<1>2. ASSUME NEW t \in Tasks, BackfillPut(u, t)  PROVE TypeOK'
    <2>1. PICK p \in puts[u] :
            /\ store(u, p)
            /\ fetch' = [fetch EXCEPT ![u][t].page = {m \in @ : m.id # p.record.id}]
        BY <1>2 DEF BackfillPut
    <2>2. /\ rows' \in [Users -> Rows] /\ puts' \in [Users -> SUBSET Put]
          /\ raced' \in [Users -> SUBSET Nat]
        BY <2>1, StoreEffect
    <2>3. fetch[u][t] \in Fetches  BY DEF TypeOK
    <2>4. [fetch[u][t] EXCEPT !.page = {m \in @ : m.id # p.record.id}] \in Fetches
        BY <2>3 DEF Fetches
    <2>5. fetch' \in [Users -> [Tasks -> Fetches]]  BY <2>1, <2>4, FetchType DEF TypeOK
    <2> QED BY <1>2, <2>2, <2>5 DEF BackfillPut, TypeOK, relayVars, wireVars
<1> QED BY <1>1, <1>2 DEF StoreNext

(* Everything people do. *)
LEMMA TypeUser ==
    ASSUME TypeOK, NEW u \in Users, UserNext(u)
    PROVE  TypeOK'
<1>1. ASSUME NEW d \in Drafts, Compose(u, d)  PROVE TypeOK'
    <2>1. composed' \in SUBSET Drafts  BY <1>1 DEF Compose, TypeOK
    <2>2. optimisticRow(u, d) \subseteq [draft : Drafts, at : Nat]
        BY IdsType DEF optimisticRow
    <2>3. [rows[u] EXCEPT !.pending = @ \cup optimisticRow(u, d)] \in Rows
        <3>1. rows[u] \in Rows  BY DEF TypeOK
        <3> QED BY <2>2, <3>1 DEF Rows
    <2>4. rows' \in [Users -> Rows]  BY <1>1, <2>3, RowUpdateType DEF Compose
    <2>5. (IF link[u] = "closed" THEN <<>> ELSE <<SendEvent(d)>>) \in Seq(Upstream)
        BY EventType
    <2>6. up' \in [Users -> Seq(Upstream)]  BY <1>1, <2>5, EmitType DEF Compose
    <2>7. handlers' \in [Users -> SUBSET Continuations]
        BY <1>1 DEF Compose, TypeOK, Continuations
    <2> QED BY <1>1, <2>1, <2>4, <2>6, <2>7 DEF Compose, TypeOK, relayVars
<1>2. CASE OpenChat(u)
    <2>1. spent' \in [OutsideKinds -> Nat]  BY <1>2, SpendType DEF OpenChat, OutsideKinds
    <2>2. viewing' \in [Users -> BOOLEAN]  BY <1>2 DEF OpenChat, TypeOK
    <2>3. pc' \in [Users -> [Tasks -> Stages]]
        BY <1>2, GotoType DEF OpenChat, goto, Tasks, Stages
    <2> QED BY <1>2, <2>1, <2>2, <2>3 DEF OpenChat, TypeOK, relayVars, wireVars, diskVars
<1>3. CASE Refocus(u)
    <2>1. spent' \in [OutsideKinds -> Nat]  BY <1>3, SpendType DEF Refocus, OutsideKinds
    <2>2. viewing' \in [Users -> BOOLEAN]  BY <1>3 DEF Refocus, TypeOK
    <2>3. handlers' \in [Users -> SUBSET Continuations]
        BY <1>3 DEF Refocus, TypeOK, Continuations
    <2> QED BY <1>3, <2>1, <2>2, <2>3 DEF Refocus, TypeOK, relayVars, wireVars, diskVars
<1>4. CASE LeaveChat(u)
    <2>1. spent' \in [OutsideKinds -> Nat]  BY <1>4, SpendType DEF LeaveChat, OutsideKinds
    <2>2. viewing' \in [Users -> BOOLEAN]  BY <1>4 DEF LeaveChat, TypeOK
    <2> QED BY <1>4, <2>1, <2>2 DEF LeaveChat, TypeOK, relayVars, wireVars, diskVars
<1> QED BY <1>1, <1>2, <1>3, <1>4 DEF UserNext

(* The high-water mark is the date of a row, or 0. *)
LEMMA HighWaterMarkType ==
    ASSUME TypeOK, RowsAreGrounded, NEW u \in Users
    PROVE  HighWaterMark(u) \in Nat
<1> DEFINE dates == {0} \cup rows[u].held \cup {p.at : p \in rows[u].pending}
<1>1. rows[u].held \subseteq 0 .. Len(log)
    BY IdsType DEF RowsAreGrounded, Ids
<1>2. {p.at : p \in rows[u].pending} \subseteq 0 .. Len(log)
    BY IdsType DEF RowsAreGrounded, TypeOK, Rows
<1>3. dates \subseteq 0 .. Len(log) /\ dates # {}
    BY <1>1, <1>2, IdsType
<1>4. Max(dates) \in dates
    BY <1>3, MaxIsGreatest, IdsType
<1>5. Max(dates) \in Nat
    BY <1>3, <1>4
<1> QED BY <1>5 DEF HighWaterMark

(* An entry of a page of history. *)
LEMMA EntryType ==
    ASSUME NEW i \in Nat, NEW a \in BOOLEAN, NEW b \in BOOLEAN
    PROVE  [id |-> i, delivered |-> a, read |-> b] \in Entry
BY DEF Entry

(* A page of history, and the locals of the backfill that fetched it. *)
LEMMA GetHistoryType ==
    ASSUME TypeOK, NEW since \in Nat, NEW before \in Nat, NEW top \in Nat
    PROVE  getHistory(since, before, top) \in Fetches
<1> DEFINE data == get_messages(before)
           new == {i \in data : i > since}
           page == {[id |-> i, delivered |-> i \in delivered, read |-> i \in read] : i \in new}
<1>1. data \in SUBSET Nat  BY IdsType DEF get_messages
<1>2. page \in SUBSET Entry
    <2>1. SUFFICES ASSUME NEW i \in new
          PROVE [id |-> i, delivered |-> i \in delivered, read |-> i \in read] \in Entry
        OBVIOUS
    <2>2. (i \in delivered) \in BOOLEAN /\ (i \in read) \in BOOLEAN  OBVIOUS
    <2> QED BY <1>1, <2>2, EntryType
<1>3. (IF data = {} THEN 0 ELSE Min(data)) \in Nat  BY <1>1, MinIsLeast
<1>4. (new = data /\ Cardinality(data) = PageSize) \in BOOLEAN  OBVIOUS
<1> QED BY <1>2, <1>3, <1>4 DEF getHistory, Fetches

(* Every step of backfill; the high-water mark needs the outbox finite. *)
LEMMA TypeBackfill ==
    ASSUME TypeOK, RowsAreGrounded, NEW u \in Users, NEW t \in Tasks, BackfillNext(u, t)
    PROVE  TypeOK'
<1>1. CASE BackfillStart(u, t)
    <2>1. getHistory(HighWaterMark(u), 0, Len(log)) \in Fetches
        BY GetHistoryType, HighWaterMarkType, IdsType
    <2>2. fetch' \in [Users -> [Tasks -> Fetches]]
        BY <1>1, <2>1, FetchType DEF BackfillStart
    <2>3. pc' \in [Users -> [Tasks -> Stages]]
        BY <1>1, GotoType DEF BackfillStart, Stages
    <2> QED BY <1>1, <2>2, <2>3
            DEF BackfillStart, TypeOK, relayVars, wireVars, diskVars, historyVars
<1>2. CASE BackfillGet(u, t)
    <2> DEFINE put(m) == [by |-> t, shown |-> FALSE,
                          record |-> recordOf(u, m.id, FALSE, m.delivered, m.read)]
    <2>1. PICK m \in fetch[u][t].page :
            /\ parked' = [parked EXCEPT ![u] = unpark(parked[u], m.id)]
            /\ puts' = [puts EXCEPT ![u] = @ \cup {put(m)}]
        BY <1>2 DEF BackfillGet, TypeOK
    <2>2. fetch[u][t] \in Fetches /\ parked[u] \in Stamps
        BY DEF TypeOK
    <2>3. m.id \in Nat /\ m.delivered \in BOOLEAN /\ m.read \in BOOLEAN
        BY <2>1, <2>2 DEF Fetches, Entry
    <2>4. parked' \in [Users -> Stamps]
        BY <2>1, <2>2, UnparkType, ParkedUpdateType
    <2>5. put(m) \in Put
        <3>1. recordOf(u, m.id, FALSE, m.delivered, m.read) \in Record
            BY <2>3, RecordType
        <3> QED BY <3>1 DEF Put
    <2>6. puts' \in [Users -> SUBSET Put]
        <3> HIDE DEF put
        <3> QED BY <2>1, <2>5 DEF TypeOK
    <2> QED BY <1>2, <2>4, <2>6
            DEF BackfillGet, TypeOK, relayVars, wireVars, diskVars, historyVars
<1>3. CASE BackfillMore(u, t)
    <2>1. fetch[u][t].since \in Nat /\ fetch[u][t].before \in Nat /\ fetch[u][t].top \in Nat
        <3>1. fetch[u][t] \in Fetches  BY DEF TypeOK
        <3> QED BY <3>1 DEF Fetches
    <2>2. fetch' = [fetch EXCEPT ![u][t] =
                      getHistory(fetch[u][t].since, fetch[u][t].before, fetch[u][t].top)]
        BY <1>3 DEF BackfillMore, TypeOK
    <2>3. fetch' \in [Users -> [Tasks -> Fetches]]
        BY <2>1, <2>2, GetHistoryType, FetchType
    <2> QED BY <1>3, <2>3
            DEF BackfillMore, TypeOK, relayVars, wireVars, diskVars, historyVars
<1> QED BY <1>1, <1>2, <1>3 DEF BackfillNext

(* The outbox goes out as a sequence of frames, whichever order ties take. *)
LEMMA OutboxType ==
    ASSUME TypeOK, RowsAreGrounded, NEW u \in Users, NEW outbox \in flushOutbox(u)
    PROVE  outbox \in Seq(Upstream)
<1> DEFINE S == flushable(u)
<1>1. S \subseteq rows[u].pending  BY DEF flushable
<1>2. IsFiniteSet(S)  BY <1>1, FS_Subset DEF RowsAreGrounded
<1>3. Cardinality(S) \in Nat  BY <1>2, FS_CardinalityType
<1>4. \A p \in S : p.draft \in Drafts  BY <1>1 DEF TypeOK, Rows
<1>5. PICK q \in oldestFirst(S) : outbox = [i \in DOMAIN q |-> SendEvent(q[i].draft)]
    BY DEF flushOutbox
<1>6. q \in [1 .. Cardinality(S) -> S]  BY <1>5 DEF oldestFirst
<1>7. outbox \in [1 .. Cardinality(S) -> Upstream]
    <2> HIDE DEF S
    <2> QED BY <1>4, <1>5, <1>6, EventType
<1> QED BY <1>3, <1>7

(* The two steps of a pass after its backfill. *)
LEMMA TypeReconcile ==
    ASSUME TypeOK, RowsAreGrounded, NEW u \in Users, SendBacklog(u) \/ ApplyReceipts(u)
    PROVE  TypeOK'
<1>1. CASE SendBacklog(u)
    <2> DEFINE delivery == unacknowledgedMessageIds(u)
               reading == unreadAckedMessageIds(u)
    <2>1. delivery \in SUBSET Nat /\ reading \in SUBSET Nat
        BY AckIdsType
    <2>2. \/ /\ \E outbox \in flushOutbox(u) :
                  emit(u, outbox \o sweep(DeliveredEvent(delivery))
                                 \o sweep(ReadEvent(reading)))
             /\ rows' = [rows EXCEPT ![u] =
                            markReadAck(markDeliveredAck(rows[u], delivery), reading)]
             /\ race(u, delivery \cup reading)
             /\ UNCHANGED <<read, down, spent>>
          \/ postReadReceipts(u, reading) /\ UNCHANGED up
        BY <1>1 DEF SendBacklog
    <2>3. getReceipts(u) \in Stamps  BY IdsType DEF getReceipts, Stamps
    <2>4. receipts' \in [Users -> Stamps]
        BY <1>1, <2>3 DEF SendBacklog, TypeOK
    <2>5. pc' \in [Users -> [Tasks -> Stages]]
        BY <1>1, GotoType DEF SendBacklog, Tasks, Stages
    <2>6. fetch' \in [Users -> [Tasks -> Fetches]]
        BY <1>1, FetchType, NoFetchType DEF SendBacklog, Tasks
    <2> HIDE DEF delivery, reading
    <2>7. up' \in [Users -> Seq(Upstream)]
        <3>1. ASSUME NEW outbox \in flushOutbox(u)
              PROVE  outbox \o sweep(DeliveredEvent(delivery)) \o sweep(ReadEvent(reading))
                        \in Seq(Upstream)
            BY <2>1, OutboxType, SweepType
        <3> QED BY <2>2, <3>1, EmitType DEF TypeOK
    <2>8. /\ read' \in SUBSET Nat /\ down' \in [Users -> Seq(Downstream)]
          /\ rows' \in [Users -> Rows] /\ spent' \in [OutsideKinds -> Nat]
          /\ raced' \in [Users -> SUBSET Nat]
        <3>1. CASE postReadReceipts(u, reading)  BY <2>1, <3>1, PostType
        <3>2. CASE /\ UNCHANGED <<read, down, spent>> /\ race(u, delivery \cup reading)
                   /\ rows' = [rows EXCEPT ![u] =
                                 markReadAck(markDeliveredAck(rows[u], delivery), reading)]
            <4>1. delivery \cup reading \in SUBSET Nat  BY <2>1
            <4> QED BY <2>1, <3>2, <4>1, AckedRowType, RowUpdateType, RaceType DEF TypeOK
        <3> QED BY <2>2, <3>1, <3>2
    <2> QED BY <1>1, <2>4, <2>5, <2>6, <2>7, <2>8 DEF SendBacklog, TypeOK
<1>2. CASE ApplyReceipts(u)
    <2> DEFINE got == receipts[u]
    <2>1. /\ got \in Stamps /\ got.deliveredAt \in SUBSET Nat /\ got.readAt \in SUBSET Nat
          /\ rows[u] \in Rows /\ parked[u] \in Stamps
        BY DEF TypeOK, Stamps
    <2>2. rows' \in [Users -> Rows]
        BY <1>2, <2>1, StampedRow, RowUpdateType DEF ApplyReceipts
    <2>3. [deliveredAt |-> parked[u].deliveredAt \cup (got.deliveredAt \ rows[u].held),
           readAt |-> parked[u].readAt \cup (got.readAt \ rows[u].held)] \in Stamps
        BY <2>1 DEF Stamps
    <2>4. parked' \in [Users -> Stamps]
        BY <1>2, <2>3, ParkedUpdateType DEF ApplyReceipts
    <2>5. cursor' \in [Users -> Nat]  BY <1>2, IdsType DEF ApplyReceipts, TypeOK
    <2>6. receipts' \in [Users -> Stamps]
        BY <1>2 DEF ApplyReceipts, TypeOK, Stamps, NothingParked
    <2>7. pc' \in [Users -> [Tasks -> Stages]]
        BY <1>2, GotoType DEF ApplyReceipts, finishReconcile, Tasks, Stages
    <2>8. latch' \in [Users -> BOOLEAN]
        BY <1>2 DEF ApplyReceipts, finishReconcile, TypeOK
    <2>9. raced' \in [Users -> SUBSET Nat]
        <3>1. got.deliveredAt \cup got.readAt \in SUBSET Nat  BY <2>1
        <3> QED BY <1>2, <3>1, RaceType DEF ApplyReceipts
    <2> QED BY <1>2, <2>2, <2>4, <2>5, <2>6, <2>7, <2>8, <2>9
            DEF ApplyReceipts, TypeOK, relayVars, wireVars
<1> QED BY <1>1, <1>2

(* The end of loadConversation. *)
LEMMA TypeLoadDone ==
    ASSUME TypeOK, NEW u \in Users, LoadDone(u)
    PROVE  TypeOK'
<1>1. pc' \in [Users -> [Tasks -> Stages]]
    BY GotoType DEF LoadDone, finishLoading, Tasks, Stages
<1>2. fetch' \in [Users -> [Tasks -> Fetches]]
    BY FetchType, NoFetchType DEF LoadDone, finishLoading, Tasks
<1>3. handlers' \in [Users -> SUBSET Continuations]
    BY DEF LoadDone, finishLoading, TypeOK, Continuations
<1> QED BY <1>1, <1>2, <1>3
        DEF LoadDone, finishLoading, TypeOK, relayVars, wireVars, diskVars, historyVars

(* Every step keeps every variable in its type. *)
LEMMA TypeNext ==
    ASSUME TypeOK, RowsAreGrounded, Next
    PROVE  TypeOK'
<1>1. PICK u \in Users :
        \/ RelayNext(u) \/ ReceiveNext(u) \/ StoreNext(u) \/ HandlerNext(u)
        \/ ReconcileNext(u) \/ LoadNext(u)
        \/ Connect(u) \/ Subscribe(u) \/ Timer(u)
        \/ UserNext(u) \/ FaultNext(u)
    BY DEF Next
<1>2. CASE ReconcileNext(u)
    BY <1>2, TypeBackfill, TypeReconcile DEF ReconcileNext, Tasks
<1>3. CASE LoadNext(u)
    BY <1>3, TypeBackfill, TypeLoadDone DEF LoadNext, Tasks
<1> QED BY <1>1, <1>2, <1>3, TypeRelay, TypeReceive, TypeStore, TypeHandler, TypeSocket,
           TypeUser, TypeFaults

(* The initial state is well typed. *)
LEMMA TypeInit == Init => TypeOK
<1> SUFFICES ASSUME Init PROVE TypeOK  OBVIOUS
<1>1. NoRows \in Rows /\ NothingParked \in Stamps
    BY DEF NoRows, Rows, NothingParked, Stamps
<1>2. IdleTasks \in [Tasks -> Stages] /\ [t \in Tasks |-> NoFetch] \in [Tasks -> Fetches]
    BY NoFetchType DEF IdleTasks, Tasks, Stages
<1> QED BY <1>1, <1>2 DEF Init, TypeOK

-----------------------------------------------------------------------------
(* What grows: the log, what a device holds, and what was opened on it. *)

SameShape(r, s) == r.held = s.held /\ r.seen = s.seen /\ r.pending = s.pending

(* Receipts and acknowledgements leave the shape of a row alone. *)
LEMMA StampedShape ==
    ASSUME NEW row \in Rows, NEW S
    PROVE  /\ SameShape(stampDelivered(row, S), row)
           /\ SameShape(stampRead(row, S), row)
           /\ SameShape(markDeliveredAck(row, S), row)
           /\ SameShape(markReadAck(row, S), row)
BY DEF stampDelivered, stampRead, markDeliveredAck, markReadAck, SameShape, Rows

(* POST read leaves the shape of every row alone. *)
LEMMA PostShape ==
    ASSUME TypeOK, NEW u \in Users, NEW ids \in SUBSET Nat, postReadReceipts(u, ids)
    PROVE  \A v \in Users : SameShape(rows'[v], rows[v])
<1>1. rows \in [Users -> Rows]  BY DEF TypeOK
<1>2. CASE UNCHANGED rows  BY <1>2 DEF SameShape
<1>3. CASE rows' = [rows EXCEPT ![u] = markReadAck(rows[u], ids)]
    BY <1>1, <1>3, StampedShape DEF SameShape
<1> QED BY <1>2, <1>3 DEF postReadReceipts

(* The steps after which a device shows, holds and owes what it did. *)
LEMMA ShapeKept ==
    ASSUME TypeOK, NEW u \in Users,
           \/ ReceiveDelivered(u) \/ ReceiveRead(u) \/ HandleStored(u) \/ HandleRead(u)
           \/ SendBacklog(u) \/ ApplyReceipts(u)
    PROVE  UNCHANGED <<log, opened>> /\ \A v \in Users : SameShape(rows'[v], rows[v])
<1>1. rows \in [Users -> Rows] /\ \A v \in Users : SameShape(rows[v], rows[v])
    BY DEF TypeOK, SameShape
<1>2. CASE ReceiveDelivered(u)
    BY <1>1, <1>2, StampedShape DEF ReceiveDelivered, relayVars
<1>3. CASE ReceiveRead(u)
    BY <1>1, <1>3, StampedShape DEF ReceiveRead, relayVars
<1>4. CASE HandleStored(u)
    <2>1. PICK R \in {{}, unreadAckedMessageIds(u)} :
            \/ rows' = [rows EXCEPT ![u] =
                   markReadAck(markDeliveredAck(rows[u], unacknowledgedMessageIds(u)), R)]
            \/ postReadReceipts(u, R)
        BY <1>4 DEF HandleStored
    <2>2. R \in SUBSET Nat /\ unacknowledgedMessageIds(u) \in SUBSET Nat
        BY AckIdsType
    <2>3. CASE postReadReceipts(u, R)  BY <1>4, <2>2, <2>3, PostShape DEF HandleStored
    <2>4. CASE rows' = [rows EXCEPT ![u] =
                   markReadAck(markDeliveredAck(rows[u], unacknowledgedMessageIds(u)), R)]
        <3>1. markDeliveredAck(rows[u], unacknowledgedMessageIds(u)) \in Rows
            BY <1>1, <2>2, StampedRow
        <3>2. SameShape(rows'[u], rows[u])
            BY <1>1, <2>4, <3>1, StampedShape DEF SameShape
        <3> QED BY <1>1, <1>4, <2>4, <3>2 DEF HandleStored
    <2> QED BY <2>1, <2>3, <2>4
<1>5. CASE HandleRead(u)
    <2>1. CASE postReadReceipts(u, unreadAckedMessageIds(u))
        BY <1>5, <2>1, PostShape, AckIdsType DEF HandleRead
    <2>2. CASE rows' = [rows EXCEPT ![u] = markReadAck(rows[u], unreadAckedMessageIds(u))]
        BY <1>1, <1>5, <2>2, StampedShape DEF HandleRead
    <2> QED BY <1>5, <2>1, <2>2 DEF HandleRead
<1>6. CASE SendBacklog(u)
    <2>1. CASE postReadReceipts(u, unreadAckedMessageIds(u))
        BY <1>6, <2>1, PostShape, AckIdsType DEF SendBacklog
    <2>2. CASE rows' = [rows EXCEPT ![u] =
                 markReadAck(markDeliveredAck(rows[u], unacknowledgedMessageIds(u)),
                             unreadAckedMessageIds(u))]
        <3>1. markDeliveredAck(rows[u], unacknowledgedMessageIds(u)) \in Rows
            BY <1>1, AckIdsType, StampedRow
        <3>2. SameShape(rows'[u], rows[u])
            BY <1>1, <2>2, <3>1, StampedShape DEF SameShape
        <3> QED BY <1>1, <1>6, <2>2, <3>2 DEF SendBacklog
    <2> QED BY <1>6, <2>1, <2>2 DEF SendBacklog
<1>7. CASE ApplyReceipts(u)
    <2>1. receipts[u].deliveredAt \in SUBSET Nat  BY DEF TypeOK, Stamps
    <2>2. stampDelivered(rows[u], receipts[u].deliveredAt) \in Rows
        BY <1>1, <2>1, StampedRow
    <2>3. rows' = [rows EXCEPT ![u] =
            stampRead(stampDelivered(rows[u], receipts[u].deliveredAt), receipts[u].readAt)]
        BY <1>7 DEF ApplyReceipts
    <2>4. SameShape(rows'[u], rows[u])
        BY <1>1, <2>2, <2>3, StampedShape DEF SameShape
    <2> QED BY <1>1, <1>7, <2>3, <2>4 DEF ApplyReceipts, relayVars
<1> QED BY <1>2, <1>3, <1>4, <1>5, <1>6, <1>7

(* The steps that touch neither the log nor the messages store. *)
LEMMA RowsKept ==
    ASSUME NEW u \in Users,
           \/ RelayDelivered(u) \/ RelayRead(u) \/ Connect(u) \/ Subscribe(u) \/ Timer(u)
           \/ FaultNext(u) \/ OpenChat(u) \/ Refocus(u) \/ LeaveChat(u)
           \/ LoadDone(u) \/ \E t \in Tasks : BackfillNext(u, t)
    PROVE  UNCHANGED <<log, rows, opened>>
<1>1. CASE RelayDelivered(u) \/ RelayRead(u)
    BY <1>1 DEF RelayDelivered, RelayRead, diskVars, historyVars
<1>2. CASE Connect(u) \/ Subscribe(u) \/ Timer(u)
    BY <1>2 DEF Connect, Subscribe, Timer, relayVars, diskVars, historyVars
<1>3. CASE FaultNext(u)
    BY <1>3 DEF FaultNext, RelayReject, RelayLag, Drop, Reload, ReconcileFails, LoadFails,
                TimerInPass, relayVars, diskVars
<1>4. CASE OpenChat(u) \/ Refocus(u) \/ LeaveChat(u)
    BY <1>4 DEF OpenChat, Refocus, LeaveChat, relayVars, diskVars
<1>5. CASE LoadDone(u)
    BY <1>5 DEF LoadDone, relayVars, diskVars, historyVars
<1>6. CASE \E t \in Tasks : BackfillNext(u, t)
    BY <1>6 DEF BackfillNext, BackfillStart, BackfillGet, BackfillMore, relayVars, diskVars,
                historyVars
<1> QED BY <1>1, <1>2, <1>3, <1>4, <1>5, <1>6

(* Only a record that came by the socket says that it was seen. *)
OnlySocketPutsSeen ==
    \A v \in Users : \A p \in puts[v] : p.record.seen => p.by = "socket"

(* What the put of a message, from the socket or a page of history, changes. *)
LEMMA StoredShape ==
    ASSUME TypeOK, NoClaimRunsAhead, OnlySocketPutsSeen, NEW u \in Users, StoreNext(u)
    PROVE  /\ UNCHANGED log
           /\ \E i \in Ids :
                /\ \A v \in Users : v # u => rows'[v] = rows[v] /\ opened'[v] = opened[v]
                /\ rows'[u].held = rows[u].held \cup {i}
                /\ \/ rows'[u].seen = rows[u].seen \cup {i} /\ opened'[u] = opened[u] \cup {i}
                   \/ rows'[u].seen = rows[u].seen \ {i} /\ opened'[u] = opened[u]
                /\ rows'[u].pending = rows[u].pending
<1>1. rows[u] \in Rows /\ opened \in [Users -> SUBSET Nat]
    BY DEF TypeOK
<1>2. ASSUME NEW p \in puts[u], store(u, p)
      PROVE  /\ p.record.id \in Ids /\ p.record.seen \in BOOLEAN
             /\ \A v \in Users : v # u => rows'[v] = rows[v]
             /\ rows'[u].held = rows[u].held \cup {p.record.id}
             /\ rows'[u].seen = flag(rows[u].seen, p.record.id, p.record.seen)
             /\ rows'[u].pending = rows[u].pending
    <2>1. p.record \in Record /\ rows'[u] = putRecord(rows[u], p.record)
          /\ \A v \in Users : v # u => rows'[v] = rows[v]
        BY <1>2, StoreEffect
    <2>2. p.record.id \in Ids  BY DEF NoClaimRunsAhead, RecordIsTrue
    <2>3. p.record.seen \in BOOLEAN  BY <2>1 DEF Record
    <2> QED BY <1>1, <2>1, <2>2, <2>3, PutRow
<1>3. CASE StoreReceived(u)
    <2>1. PICK p \in puts[u] :
            /\ store(u, p)
            /\ opened' = [opened EXCEPT ![u] = @ \cup {j \in {p.record.id} : p.record.seen}]
        BY <1>3 DEF StoreReceived
    <2>2. UNCHANGED log  BY <1>3 DEF StoreReceived, relayVars
    <2>3. opened'[u] = opened[u] \cup {j \in {p.record.id} : p.record.seen}
          /\ \A v \in Users : v # u => opened'[v] = opened[v]
        BY <1>1, <2>1
    <2>4. \/ /\ rows'[u].seen = rows[u].seen \cup {p.record.id}
             /\ opened'[u] = opened[u] \cup {p.record.id}
          \/ rows'[u].seen = rows[u].seen \ {p.record.id} /\ opened'[u] = opened[u]
        BY <1>2, <2>1, <2>3 DEF flag
    <2> QED BY <1>2, <2>1, <2>2, <2>3, <2>4
<1>4. ASSUME NEW t \in Tasks, BackfillPut(u, t)
      PROVE  /\ UNCHANGED <<log, opened>>
             /\ \E i \in Ids :
                  /\ \A v \in Users : v # u => rows'[v] = rows[v]
                  /\ rows'[u].held = rows[u].held \cup {i}
                  /\ rows'[u].seen = rows[u].seen \ {i}
                  /\ rows'[u].pending = rows[u].pending
    <2>1. PICK p \in puts[u] : p.by = t /\ store(u, p)
        BY <1>4 DEF BackfillPut
    <2>2. ~ p.record.seen
        BY <2>1 DEF OnlySocketPutsSeen, Tasks
    <2>3. UNCHANGED <<log, opened>>
        BY <1>4 DEF BackfillPut, relayVars
    <2>4. rows'[u].seen = rows[u].seen \ {p.record.id}
        BY <1>2, <2>1, <2>2 DEF flag
    <2> QED BY <1>2, <2>1, <2>3, <2>4
<1> QED BY <1>3, <1>4 DEF StoreNext

(* The echo of a message that was typed here takes its pending row away;   *)
(* nothing else of the messages store changes when an event arrives.       *)
LEMMA EchoShape ==
    ASSUME TypeOK, NoClaimRunsAhead, NEW u \in Users, ReceiveMessage(u)
    PROVE  /\ UNCHANGED <<log, opened, raced>>
           /\ \E i \in Ids :
                /\ \A v \in Users : v # u => rows'[v] = rows[v]
                /\ \/ rows'[u] = rows[u]
                   \/ rows' = [rows EXCEPT ![u] = withoutOptimistic(rows[u], log[i])]
                /\ rows'[u].held = rows[u].held /\ rows'[u].seen = rows[u].seen
                /\ \/ rows'[u].pending = rows[u].pending
                   \/ rows'[u].pending = {p \in rows[u].pending : p.draft # log[i]}
<1>1. rows \in [Users -> Rows] /\ rows[u] \in Rows  BY DEF TypeOK
<1>2. PICK i \in Head(down[u]).ids :
        \/ rows' = [rows EXCEPT ![u] = withoutOptimistic(rows[u], log[i])]
        \/ rows' = rows
    BY <1>1 DEF ReceiveMessage
<1>3. down[u] \in Seq(Downstream) /\ down[u] # <<>> /\ EventIsTrue(Head(down[u]))
    BY DEF TypeOK, NoClaimRunsAhead, ReceiveMessage
<1>4. i \in Ids
    BY <1>2, <1>3 DEF ReceiveMessage, EventIsTrue
<1>5. /\ withoutOptimistic(rows[u], log[i]).held = rows[u].held
      /\ withoutOptimistic(rows[u], log[i]).seen = rows[u].seen
      /\ withoutOptimistic(rows[u], log[i]).pending
            = {p \in rows[u].pending : p.draft # log[i]}
    BY <1>1 DEF withoutOptimistic, Rows
<1>6. UNCHANGED <<log, opened, raced>>  BY DEF ReceiveMessage, relayVars, historyVars
<1>7. /\ \A v \in Users : v # u => rows'[v] = rows[v]
      /\ rows'[u] = rows[u] \/ rows'[u] = withoutOptimistic(rows[u], log[i])
    BY <1>1, <1>2
<1> QED BY <1>2, <1>4, <1>5, <1>6, <1>7

(* The relay stores a message; a device opens what it holds; someone types. *)
LEMMA SendShape ==
    ASSUME TypeOK, NEW u \in Users, RelaySend(u)
    PROVE  /\ UNCHANGED <<rows, opened>>
           /\ \E d \in Drafts : log' = Append(log, d)
<1>1. Head(up[u]) \in Upstream  BY DEF RelaySend, TypeOK
<1>2. Head(up[u]).draft \in Drafts  BY <1>1 DEF RelaySend, Upstream
<1> QED BY <1>2 DEF RelaySend, diskVars, historyVars

(* Clearing the badge opens messages that are here, and does nothing else. *)
LEMMA SeenShape ==
    ASSUME TypeOK, NEW u \in Users, HandleSeen(u)
    PROVE  /\ UNCHANGED log
           /\ \A v \in Users : v # u => rows'[v] = rows[v] /\ opened'[v] = opened[v]
           /\ rows'[u].held = rows[u].held /\ rows'[u].pending = rows[u].pending
           /\ \E S \in SUBSET rows[u].held :
                rows'[u].seen = rows[u].seen \cup S /\ opened'[u] = opened[u] \cup S
<1>1. rows \in [Users -> Rows] /\ opened \in [Users -> SUBSET Nat]
    BY DEF TypeOK
<1>2. /\ rows' = [rows EXCEPT ![u].seen = @ \cup markSeen(u)]
      /\ opened' = [opened EXCEPT ![u] = @ \cup markSeen(u)]
      /\ UNCHANGED log
    BY DEF HandleSeen, relayVars
<1>3. markSeen(u) \in SUBSET rows[u].held  BY DEF markSeen, FromPeer
<1> QED BY <1>1, <1>2, <1>3 DEF Rows

(* Composing adds one entry to the outbox, dated now. *)
LEMMA ComposeShape ==
    ASSUME TypeOK, NEW u \in Users, NEW d \in Drafts, Compose(u, d)
    PROVE  /\ UNCHANGED <<log, opened>>
           /\ \A v \in Users : v # u => rows'[v] = rows[v]
           /\ rows'[u].held = rows[u].held /\ rows'[u].seen = rows[u].seen
           /\ rows'[u].pending = rows[u].pending \cup {[draft |-> d, at |-> Len(log)]}
<1>1. rows \in [Users -> Rows]  BY DEF TypeOK
<1> QED BY <1>1 DEF Compose, optimisticRow, relayVars, Rows

(* Next, sorted by what a step does to the log and the messages store. *)
LEMMA NextShape ==
    ASSUME Next
    PROVE  \E u \in Users :
             \/ RelaySend(u) \/ HandleSeen(u) \/ \E d \in Drafts : Compose(u, d)
             \/ ReceiveMessage(u) \/ StoreNext(u)
             \/ ReceiveDelivered(u) \/ ReceiveRead(u) \/ HandleStored(u) \/ HandleRead(u)
             \/ SendBacklog(u) \/ ApplyReceipts(u)
             \/ RelayDelivered(u) \/ RelayRead(u) \/ Connect(u) \/ Subscribe(u) \/ Timer(u)
             \/ FaultNext(u) \/ OpenChat(u) \/ Refocus(u) \/ LeaveChat(u)
             \/ LoadDone(u) \/ \E t \in Tasks : BackfillNext(u, t)
BY DEF Next, RelayNext, ReceiveNext, HandlerNext, ReconcileNext, LoadNext, UserNext, Tasks

(* The log, what devices hold and what was opened on them only grow. *)
LEMMA Growth ==
    ASSUME TypeOK, NoClaimRunsAhead, OnlySocketPutsSeen, Next
    PROVE  /\ Ids \subseteq Ids' /\ Len(log) <= Len(log')
           /\ \A i \in Ids : log'[i] = log[i]
           /\ \A v \in Users : /\ rows[v].held \subseteq rows'[v].held
                               /\ opened[v] \subseteq opened'[v]
<1>1. PICK u \in Users :
        \/ RelaySend(u) \/ HandleSeen(u) \/ \E d \in Drafts : Compose(u, d)
        \/ ReceiveMessage(u) \/ StoreNext(u)
        \/ UNCHANGED log /\ UNCHANGED opened /\ \A v \in Users : SameShape(rows'[v], rows[v])
    BY NextShape, ShapeKept, RowsKept DEF SameShape
<1>2. log \in Seq(Drafts)  BY DEF TypeOK
<1>3. ASSUME UNCHANGED log
      PROVE  Ids \subseteq Ids' /\ Len(log) <= Len(log') /\ \A i \in Ids : log'[i] = log[i]
    BY <1>2, <1>3 DEF Ids
<1>4. CASE RelaySend(u)
    <2>1. UNCHANGED <<rows, opened>>  BY <1>4, SendShape
    <2>2. PICK d \in Drafts : log' = Append(log, d)  BY <1>4, SendShape
    <2>3. Ids \subseteq Ids' /\ Len(log) <= Len(log') /\ \A i \in Ids : log'[i] = log[i]
        BY <1>2, <2>2 DEF Ids
    <2> QED BY <2>1, <2>3
<1>5. CASE HandleSeen(u)  BY <1>3, <1>5, SeenShape
<1>6. CASE \E d \in Drafts : Compose(u, d)  BY <1>3, <1>6, ComposeShape
<1>7. CASE ReceiveMessage(u) \/ StoreNext(u)
    BY <1>3, <1>7, EchoShape, StoredShape
<1>8. CASE UNCHANGED log /\ UNCHANGED opened /\ \A v \in Users : SameShape(rows'[v], rows[v])
    BY <1>3, <1>8 DEF SameShape
<1> QED BY <1>1, <1>4, <1>5, <1>6, <1>7, <1>8

(* Every step keeps the rows grounded. *)
LEMMA GroundedNext ==
    ASSUME TypeOK, RowsAreGrounded, NoClaimRunsAhead, OnlySocketPutsSeen, Next
    PROVE  RowsAreGrounded'
<1> DEFINE Grounded(v) ==
             /\ rows[v].seen \subseteq opened[v]
             /\ opened[v] \subseteq rows[v].held
             /\ rows[v].held \subseteq Ids
             /\ IsFiniteSet(rows[v].pending)
             /\ \A p \in rows[v].pending : p.at <= Len(log)
<1>1. PICK u \in Users :
        \/ RelaySend(u) \/ HandleSeen(u) \/ \E d \in Drafts : Compose(u, d)
        \/ ReceiveMessage(u) \/ StoreNext(u)
        \/ UNCHANGED log /\ UNCHANGED opened /\ \A v \in Users : SameShape(rows'[v], rows[v])
    BY NextShape, ShapeKept, RowsKept DEF SameShape
<1>2. /\ Len(log) \in Nat /\ Len(log') \in Nat
      /\ \A v \in Users : \A p \in rows[v].pending : p.at \in Nat
    BY TypeNext DEF TypeOK, Rows
<1>3. /\ Ids \subseteq Ids' /\ Len(log) <= Len(log')  BY Growth
<1>4. ASSUME NEW v \in Users, opened'[v] = opened[v], SameShape(rows'[v], rows[v])
      PROVE  Grounded(v)'
    BY <1>2, <1>3, <1>4 DEF RowsAreGrounded, SameShape
<1>5. SUFFICES ASSUME NEW v \in Users  PROVE Grounded(v)'
    BY DEF RowsAreGrounded
<1>6. CASE RelaySend(u)
    BY <1>4, <1>6, SendShape DEF SameShape
<1>7. CASE HandleSeen(u)
    <2>1. CASE v # u  BY <1>4, <1>7, <2>1, SeenShape DEF SameShape
    <2>2. CASE v = u  BY <1>2, <1>3, <1>7, <2>2, SeenShape DEF RowsAreGrounded
    <2> QED BY <2>1, <2>2
<1>8. ASSUME NEW d \in Drafts, Compose(u, d)  PROVE Grounded(v)'
    <2>1. CASE v # u  BY <1>4, <1>8, <2>1, ComposeShape DEF SameShape
    <2>2. CASE v = u
        <3>1. IsFiniteSet(rows'[u].pending)
            <4>1. rows'[u].pending = rows[u].pending \cup {[draft |-> d, at |-> Len(log)]}
                BY <1>8, ComposeShape
            <4>2. IsFiniteSet(rows[u].pending)  BY DEF RowsAreGrounded
            <4> QED BY <4>1, <4>2, FS_AddElement
        <3>2. \A p \in rows'[u].pending : p.at <= Len(log')
            BY <1>2, <1>8, ComposeShape DEF RowsAreGrounded
        <3> QED BY <1>3, <1>8, <2>2, <3>1, <3>2, ComposeShape DEF RowsAreGrounded
    <2> QED BY <2>1, <2>2
<1>9. CASE ReceiveMessage(u) \/ StoreNext(u)
    <2>1. PICK i \in Ids :
            /\ \A w \in Users : w # u => rows'[w] = rows[w] /\ opened'[w] = opened[w]
            /\ rows'[u].held \subseteq rows[u].held \cup {i}
            /\ rows[u].held \subseteq rows'[u].held
            /\ \/ /\ rows'[u].seen = rows[u].seen \cup {i} /\ i \in rows'[u].held
                  /\ opened'[u] = opened[u] \cup {i}
               \/ rows'[u].seen \subseteq rows[u].seen /\ opened'[u] = opened[u]
            /\ rows'[u].pending \subseteq rows[u].pending
        <3>1. CASE ReceiveMessage(u)  BY <3>1, EchoShape
        <3>2. CASE StoreNext(u)  BY <3>2, StoredShape
        <3> QED BY <1>9, <3>1, <3>2
    <2>2. CASE v # u  BY <1>4, <2>1, <2>2 DEF SameShape
    <2>3. CASE v = u
        <3>1. IsFiniteSet(rows'[u].pending)
            BY <2>1, FS_Subset DEF RowsAreGrounded
        <3>2. \A p \in rows'[u].pending : p.at <= Len(log')
            BY <1>2, <1>3, <2>1 DEF RowsAreGrounded
        <3> QED BY <1>3, <2>1, <2>3, <3>1, <3>2 DEF RowsAreGrounded
    <2> QED BY <2>2, <2>3
<1>10. CASE UNCHANGED log /\ UNCHANGED opened /\ \A w \in Users : SameShape(rows'[w], rows[w])
    BY <1>4, <1>10
<1> QED BY <1>1, <1>6, <1>7, <1>8, <1>9, <1>10

-----------------------------------------------------------------------------
(* No claim runs ahead.  Backed is EventIsTrue against fixed sets: I of    *)
(* stored messages, A of arrived ones, O of opened ones.  A step that      *)
(* starts from backed claims only makes backed claims, provided the fixed  *)
(* sets cover what has happened; taking them as of after the step gives    *)
(* the invariant, as of before it gives the refinement.                    *)

Backed(e, I, A, O) ==
    /\ e.kind = "message.new" => e.ids \subseteq I
    /\ e.kind = "receipt.delivered" => e.ids \subseteq A
    /\ e.kind = "receipt.read" => e.ids \subseteq O
AllBacked(s, I, A, O) == \A k \in DOMAIN s : Backed(s[k], I, A, O)
StampsBacked(s, A, O) == s.deliveredAt \subseteq A /\ s.readAt \subseteq O
EntryBacked(m, I, A, O) ==
    m.id \in I /\ (m.delivered => m.id \in A) /\ (m.read => m.id \in O)
PageBacked(f, I, A, O) == \A m \in f.page : EntryBacked(m, I, A, O)
RecordBacked(r, I, A, O) ==
    r.id \in I /\ (r.deliveredAt => r.id \in A) /\ (r.readAt => r.id \in O)
PutsBacked(S, I, A, O) == \A p \in S : RecordBacked(p.record, I, A, O)

Supported(I, A, O) ==
    /\ delivered \subseteq A /\ read \subseteq O
    /\ \A v \in Users :
          /\ AllBacked(up[v], I, A, O) /\ AllBacked(down[v], I, A, O)
          /\ StampsBacked(rows[v], A, O) /\ StampsBacked(parked[v], A, O)
          /\ StampsBacked(receipts[v], A, O)
          /\ \A t \in Tasks : PageBacked(fetch[v][t], I, A, O)
          /\ PutsBacked(puts[v], I, A, O)

(* The fixed sets cover what the relay stores and what has happened. *)
Covers(I, A, O) == /\ Ids' \subseteq I /\ Ids \subseteq I
                   /\ Arrived \subseteq A /\ Opened \subseteq O /\ O \subseteq A

(* Supported by what has happened now, a state makes no claim that runs    *)
(* ahead.                                                                  *)
LEMMA SupportedIsNoClaimRunsAhead == NoClaimRunsAhead <=> Supported(Ids, Arrived, Opened)
BY DEF NoClaimRunsAhead, Supported, EventIsTrue, EntryIsTrue, RecordIsTrue, StampsAreTrue,
       Backed, AllBacked, StampsBacked, EntryBacked, PageBacked, RecordBacked, PutsBacked

(* Taking an event off a wire. *)
LEMMA BackedTail ==
    ASSUME NEW X, NEW s \in Seq(X), s # <<>>, NEW I, NEW A, NEW O, AllBacked(s, I, A, O)
    PROVE  AllBacked(Tail(s), I, A, O) /\ Backed(Head(s), I, A, O)
BY DEF AllBacked

(* Putting events on a wire. *)
LEMMA BackedConcat ==
    ASSUME NEW X, NEW s \in Seq(X), NEW r \in Seq(X), NEW I, NEW A, NEW O,
           AllBacked(s, I, A, O), AllBacked(r, I, A, O)
    PROVE  AllBacked(s \o r, I, A, O)
BY DEF AllBacked

(* Publishing a true event. *)
LEMMA BackedPublish ==
    ASSUME TypeOK, NEW I, NEW A, NEW O, NEW targets, NEW e \in Downstream,
           Backed(e, I, A, O), \A v \in Users : AllBacked(down[v], I, A, O)
    PROVE  \A v \in Users : AllBacked(publish(targets, e)[v], I, A, O)
BY DEF publish, AllBacked, TypeOK

(* A receipt for what has happened is true. *)
LEMMA BackedEvents ==
    ASSUME NEW I, NEW A, NEW O, NEW S
    PROVE  /\ S \subseteq A => Backed(DeliveredEvent(S), I, A, O)
           /\ S \subseteq O => Backed(ReadEvent(S), I, A, O)
           /\ S \subseteq A => AllBacked(sweep(DeliveredEvent(S)), I, A, O)
           /\ S \subseteq O => AllBacked(sweep(ReadEvent(S)), I, A, O)
BY DEF Backed, AllBacked, DeliveredEvent, ReadEvent, sweep

(* What a device reports is so. *)
LEMMA SweepsAreTrue ==
    ASSUME TypeOK, RowsAreGrounded, NEW u \in Users
    PROVE  /\ unacknowledgedMessageIds(u) \subseteq Arrived
           /\ unreadAckedMessageIds(u) \subseteq Opened
BY PeerType DEF unacknowledgedMessageIds, unreadAckedMessageIds, FromPeer, RowsAreGrounded,
                Arrived, Opened, Recipient

(* The relay passes on only what it was told. *)
LEMMA SupportedRelay ==
    ASSUME TypeOK, NEW I, NEW A, NEW O, Covers(I, A, O), Supported(I, A, O),
           NEW u \in Users, RelayNext(u)
    PROVE  Supported(I, A, O)'
<1>1. up[u] \in Seq(Upstream) /\ AllBacked(up[u], I, A, O)
    BY DEF TypeOK, Supported
<1>2. ASSUME up[u] # <<>>, up' = [up EXCEPT ![u] = Tail(@)]
      PROVE  \A v \in Users : AllBacked(up'[v], I, A, O)
    BY <1>1, <1>2, BackedTail DEF TypeOK, Supported
<1>3. ASSUME up[u] # <<>>
      PROVE  Head(up[u]) \in Upstream /\ Backed(Head(up[u]), I, A, O)
    BY <1>1, <1>3, BackedTail
<1>4. CASE RelaySend(u)
    <2>1. Len(log) + 1 \in Nat /\ Len(log) + 1 \in I
        <3>1. PICK d \in Drafts : log' = Append(log, d)  BY <1>4, SendShape
        <3>2. log \in Seq(Drafts)  BY DEF TypeOK
        <3>3. Len(log) + 1 \in Ids'  BY <3>1, <3>2 DEF Ids
        <3> QED BY <3>2, <3>3 DEF Covers
    <2>2. NewEvent(Len(log) + 1) \in Downstream /\ Backed(NewEvent(Len(log) + 1), I, A, O)
        BY <2>1, EventType DEF Backed, NewEvent
    <2>3. \A v \in Users : AllBacked(down'[v], I, A, O)
        BY <1>4, <2>2, BackedPublish DEF RelaySend, Supported
    <2> QED BY <1>2, <1>4, <2>3 DEF RelaySend, Supported, diskVars, memoryVars
<1>5. CASE RelayDelivered(u)
    <2> DEFINE fresh == recordDelivered(u, Head(up[u]).ids)
    <2>1. fresh \subseteq A /\ fresh \in SUBSET Nat
        BY <1>3, <1>5 DEF RelayDelivered, Backed, recordDelivered, FromPeer, Upstream
    <2> HIDE DEF fresh
    <2>2. \A v \in Users : AllBacked(publish({Peer[u]}, DeliveredEvent(fresh))[v], I, A, O)
        BY <2>1, EventType, BackedEvents, BackedPublish DEF Supported
    <2>3. \A v \in Users : AllBacked(down'[v], I, A, O)
        BY <1>5, <2>2 DEF RelayDelivered, Supported, fresh
    <2>4. delivered' \subseteq A  BY <1>5, <2>1 DEF RelayDelivered, Supported, fresh
    <2> QED BY <1>2, <1>5, <2>3, <2>4 DEF RelayDelivered, Supported, diskVars, memoryVars
<1>6. CASE RelayRead(u)
    <2> DEFINE fresh == record_read_receipts(u, Head(up[u]).ids)
    <2>1. fresh \subseteq O /\ fresh \in SUBSET Nat
        BY <1>3, <1>6 DEF RelayRead, Backed, record_read_receipts, FromPeer, Upstream
    <2> HIDE DEF fresh
    <2>2. \A v \in Users : AllBacked(publish({Peer[u]}, ReadEvent(fresh))[v], I, A, O)
        BY <2>1, EventType, BackedEvents, BackedPublish DEF Supported
    <2>3. \A v \in Users : AllBacked(down'[v], I, A, O)
        BY <1>6, <2>2 DEF RelayRead, Supported, fresh
    <2>4. read' \subseteq O  BY <1>6, <2>1 DEF RelayRead, Supported, fresh
    <2> QED BY <1>2, <1>6, <2>3, <2>4 DEF RelayRead, Supported, diskVars, memoryVars
<1> QED BY <1>4, <1>5, <1>6 DEF RelayNext

(* A step that touches no claim. *)
LEMMA SupportedSame ==
    ASSUME NEW I, NEW A, NEW O, Supported(I, A, O),
           UNCHANGED <<delivered, read, up, down, rows, parked, receipts, fetch, puts>>
    PROVE  Supported(I, A, O)'
BY DEF Supported

(* Connecting, the timer and what people do claim nothing. *)
LEMMA SupportedSocketUser ==
    ASSUME TypeOK, NEW I, NEW A, NEW O, Supported(I, A, O), NEW u \in Users,
           Connect(u) \/ Subscribe(u) \/ Timer(u) \/ UserNext(u)
    PROVE  Supported(I, A, O)'
<1>1. CASE Connect(u) \/ Subscribe(u) \/ Timer(u)
    BY <1>1, SupportedSame
       DEF Connect, Subscribe, Timer, relayVars, wireVars, diskVars, memoryVars
<1>2. CASE OpenChat(u) \/ Refocus(u) \/ LeaveChat(u)
    BY <1>2, SupportedSame DEF OpenChat, Refocus, LeaveChat, relayVars, wireVars, diskVars
<1>3. ASSUME NEW d \in Drafts, Compose(u, d)  PROVE Supported(I, A, O)'
    <2> DEFINE frames == IF link[u] = "closed" THEN <<>> ELSE <<SendEvent(d)>>
    <2>1. frames \in Seq(Upstream) /\ AllBacked(frames, I, A, O)
        BY EventType DEF AllBacked, Backed, SendEvent
    <2>2. up' = [up EXCEPT ![u] = @ \o frames]  BY <1>3 DEF Compose, emit
    <2> HIDE DEF frames
    <2>3. AllBacked(up[u] \o frames, I, A, O)
        BY <2>1, BackedConcat DEF TypeOK, Supported
    <2>4. \A v \in Users : AllBacked(up'[v], I, A, O)
        BY <2>2, <2>3 DEF TypeOK, Supported
    <2>5. \A v \in Users : /\ rows'[v].deliveredAt = rows[v].deliveredAt
                           /\ rows'[v].readAt = rows[v].readAt
        <3>1. rows \in [Users -> Rows]  BY DEF TypeOK
        <3> QED BY <1>3, <3>1 DEF Compose, Rows
    <2>6. \A v \in Users : StampsBacked(rows'[v], A, O)
        BY <2>5 DEF Supported, StampsBacked
    <2> QED BY <1>3, <2>4, <2>6 DEF Compose, Supported, relayVars
<1> QED BY <1>1, <1>2, <1>3 DEF UserNext

(* Nothing claims nothing. *)
LEMMA BackedNothing ==
    ASSUME NEW I, NEW A, NEW O
    PROVE  /\ AllBacked(<<>>, I, A, O)
           /\ StampsBacked(NothingParked, A, O)
           /\ StampsBacked(NoRows, A, O)
           /\ PageBacked(NoFetch, I, A, O)
BY DEF AllBacked, StampsBacked, NothingParked, NoRows, PageBacked, NoFetch

(* A fault loses claims; it makes none. *)
LEMMA SupportedFaults ==
    ASSUME TypeOK, NEW I, NEW A, NEW O, Supported(I, A, O), NEW u \in Users, FaultNext(u)
    PROVE  Supported(I, A, O)'
<1>1. CASE RelayReject(u)
    <2>1. up[u] \in Seq(Upstream) /\ AllBacked(up[u], I, A, O)  BY DEF TypeOK, Supported
    <2>2. \A v \in Users : AllBacked(up'[v], I, A, O)
        BY <1>1, <2>1, BackedTail DEF RelayReject, TypeOK, Supported
    <2> QED BY <1>1, <2>2 DEF RelayReject, Supported, relayVars, diskVars, memoryVars
<1>2. CASE RelayLag(u)
    <2>1. down[u] \in Seq(Downstream) /\ AllBacked(down[u], I, A, O)
        BY DEF TypeOK, Supported
    <2>2. \A v \in Users : AllBacked(down'[v], I, A, O)
        BY <1>2, <2>1, BackedTail DEF RelayLag, TypeOK, Supported
    <2> QED BY <1>2, <2>2 DEF RelayLag, Supported, relayVars, diskVars, memoryVars
<1>3. CASE Drop(u)
    <2>1. \A v \in Users : AllBacked(up'[v], I, A, O) /\ AllBacked(down'[v], I, A, O)
        BY <1>3, BackedNothing DEF Drop, TypeOK, Supported
    <2> QED BY <1>3, <2>1 DEF Drop, Supported, relayVars, diskVars, memoryVars
<1>4. CASE Reload(u)
    <2>1. \A v \in Users : AllBacked(up'[v], I, A, O) /\ AllBacked(down'[v], I, A, O)
        BY <1>4, BackedNothing DEF Reload, TypeOK, Supported
    <2>2. \A v \in Users : StampsBacked(parked'[v], A, O) /\ StampsBacked(receipts'[v], A, O)
        BY <1>4, BackedNothing DEF Reload, TypeOK, Supported
    <2>3. \A v \in Users : \A t \in Tasks : PageBacked(fetch'[v][t], I, A, O)
        BY <1>4, BackedNothing DEF Reload, TypeOK, Supported
    <2>4. \A v \in Users : PutsBacked(puts'[v], I, A, O)
        BY <1>4 DEF Reload, TypeOK, Supported, PutsBacked
    <2> QED BY <1>4, <2>1, <2>2, <2>3, <2>4 DEF Reload, Supported, relayVars, diskVars
<1>5. CASE ReconcileFails(u)
    <2>1. \A v \in Users : StampsBacked(receipts'[v], A, O)
        BY <1>5, BackedNothing DEF ReconcileFails, TypeOK, Supported
    <2>2. \A v \in Users : \A t \in Tasks : PageBacked(fetch'[v][t], I, A, O)
        BY <1>5, BackedNothing DEF ReconcileFails, TypeOK, Supported
    <2> QED BY <1>5, <2>1, <2>2 DEF ReconcileFails, Supported, relayVars, wireVars, diskVars
<1>6. CASE LoadFails(u)
    <2>1. \A v \in Users : \A t \in Tasks : PageBacked(fetch'[v][t], I, A, O)
        BY <1>6, BackedNothing DEF LoadFails, finishLoading, TypeOK, Supported
    <2> QED BY <1>6, <2>1
            DEF LoadFails, finishLoading, Supported, relayVars, wireVars, diskVars
<1>7. CASE TimerInPass(u)
    BY <1>7, SupportedSame DEF TimerInPass, relayVars, wireVars, diskVars
<1> QED BY <1>1, <1>2, <1>3, <1>4, <1>5, <1>6, <1>7 DEF FaultNext

(* Acknowledging leaves the stamps of a row alone. *)
LEMMA AckedStamps ==
    ASSUME NEW row \in Rows, NEW D \in SUBSET Nat, NEW R \in SUBSET Nat, NEW A, NEW O,
           StampsBacked(row, A, O)
    PROVE  /\ StampsBacked(markReadAck(row, R), A, O)
           /\ StampsBacked(markReadAck(markDeliveredAck(row, D), R), A, O)
BY DEF StampsBacked, markDeliveredAck, markReadAck, Rows

(* The get of putMessage adds nothing to what the row, what was parked and *)
(* the caller say.                                                         *)
LEMMA RecordIsBacked ==
    ASSUME TypeOK, NEW I, NEW A, NEW O, O \subseteq A, NEW u \in Users,
           StampsBacked(rows[u], A, O), StampsBacked(parked[u], A, O),
           NEW i \in Nat, i \in I, NEW seen \in BOOLEAN,
           NEW isDelivered \in BOOLEAN, NEW isRead \in BOOLEAN,
           isDelivered => i \in A, isRead => i \in O
    PROVE  RecordBacked(recordOf(u, i, seen, isDelivered, isRead), I, A, O)
<1> DEFINE r == recordOf(u, i, seen, isDelivered, isRead)
<1>1. /\ r.id = i
      /\ r.deliveredAt = (isDelivered \/ i \in rows[u].deliveredAt
                           \/ i \in parked[u].deliveredAt \/ i \in parked[u].readAt)
      /\ r.readAt = (isRead \/ i \in rows[u].readAt \/ i \in parked[u].readAt)
    BY RecordType
<1> HIDE DEF r
<1> QED BY <1>1 DEF RecordBacked, StampsBacked, r

(* A device believes only what came off its socket or was parked. *)
LEMMA SupportedReceive ==
    ASSUME TypeOK, NEW I, NEW A, NEW O, Covers(I, A, O), Supported(I, A, O),
           NEW u \in Users, ReceiveNext(u)
    PROVE  Supported(I, A, O)'
<1>1. /\ down[u] \in Seq(Downstream) /\ AllBacked(down[u], I, A, O)
      /\ rows[u] \in Rows /\ parked[u] \in Stamps /\ O \subseteq A
      /\ StampsBacked(rows[u], A, O) /\ StampsBacked(parked[u], A, O)
      /\ rows \in [Users -> Rows] /\ parked \in [Users -> Stamps]
    BY DEF TypeOK, Supported, Covers
<1>2. ASSUME down[u] # <<>>, down' = [down EXCEPT ![u] = Tail(@)]
      PROVE  \A v \in Users : AllBacked(down'[v], I, A, O)
    BY <1>1, <1>2, BackedTail DEF TypeOK, Supported
<1>3. ASSUME down[u] # <<>>  PROVE Backed(Head(down[u]), I, A, O)
    BY <1>1, <1>3, BackedTail
<1>4. CASE ReceiveMessage(u)
    <2> DEFINE seen(i) == SenderOf(i) = u \/ viewing[u]
               put(i) == [by |-> "socket", shown |-> viewing[u],
                          record |-> recordOf(u, i, seen(i), FALSE, FALSE)]
    <2>1. PICK i \in Head(down[u]).ids :
            /\ \/ rows' = [rows EXCEPT ![u] = withoutOptimistic(rows[u], log[i])]
               \/ rows' = rows
            /\ parked' = [parked EXCEPT ![u] = unpark(parked[u], i)]
            /\ puts' = [puts EXCEPT ![u] = @ \cup {put(i)}]
        BY <1>1, <1>4 DEF ReceiveMessage
    <2>2. StampsBacked(withoutOptimistic(rows[u], log[i]), A, O)
        BY <1>1 DEF withoutOptimistic, Rows, StampsBacked
    <2>3. StampsBacked(unpark(parked[u], i), A, O)
        BY <1>1 DEF StampsBacked, unpark, Stamps
    <2>4. \A v \in Users : StampsBacked(rows'[v], A, O) /\ StampsBacked(parked'[v], A, O)
        BY <1>1, <2>1, <2>2, <2>3 DEF Supported
    <2>5. i \in Nat /\ i \in I
        <3>1. Head(down[u]) \in Downstream  BY <1>1, <1>4 DEF ReceiveMessage
        <3> QED BY <1>3, <1>4, <2>1, <3>1 DEF ReceiveMessage, Backed, Downstream
    <2>6. seen(i) \in BOOLEAN  OBVIOUS
    <2>7. RecordBacked(put(i).record, I, A, O)
        BY <1>1, <2>5, <2>6, RecordIsBacked
    <2> HIDE DEF put
    <2>8. \A v \in Users : PutsBacked(puts'[v], I, A, O)
        BY <2>1, <2>7 DEF Supported, PutsBacked, TypeOK
    <2> QED BY <1>2, <1>4, <2>4, <2>8 DEF ReceiveMessage, Supported, relayVars
<1>5. CASE ReceiveDelivered(u)
    <2>1. Head(down[u]).ids \subseteq A
        BY <1>3, <1>5 DEF ReceiveDelivered, Backed
    <2>2. StampsBacked(stampDelivered(rows[u], Head(down[u]).ids), A, O)
        BY <1>1, <2>1 DEF StampsBacked, stampDelivered, Rows
    <2>3. \A v \in Users : StampsBacked(rows'[v], A, O)
        BY <1>1, <1>5, <2>2 DEF ReceiveDelivered, Supported
    <2>4. \A v \in Users : StampsBacked(parked'[v], A, O)
        BY <1>1, <1>5, <2>1 DEF ReceiveDelivered, Supported, StampsBacked, Stamps
    <2> QED BY <1>2, <1>5, <2>3, <2>4 DEF ReceiveDelivered, Supported, relayVars
<1>6. CASE ReceiveRead(u)
    <2>1. Head(down[u]).ids \subseteq O
        BY <1>3, <1>6 DEF ReceiveRead, Backed
    <2>2. StampsBacked(stampRead(rows[u], Head(down[u]).ids), A, O)
        BY <1>1, <2>1 DEF StampsBacked, stampRead, Rows
    <2>3. \A v \in Users : StampsBacked(rows'[v], A, O)
        BY <1>1, <1>6, <2>2 DEF ReceiveRead, Supported
    <2>4. \A v \in Users : StampsBacked(parked'[v], A, O)
        BY <1>1, <1>6, <2>1 DEF ReceiveRead, Supported, StampsBacked, Stamps
    <2> QED BY <1>2, <1>6, <2>3, <2>4 DEF ReceiveRead, Supported, relayVars
<1> QED BY <1>4, <1>5, <1>6 DEF ReceiveNext

(* A put says what its record says. *)
LEMMA SupportedStore ==
    ASSUME TypeOK, NEW I, NEW A, NEW O, Supported(I, A, O), NEW u \in Users, StoreNext(u)
    PROVE  Supported(I, A, O)'
<1>1. ASSUME NEW p \in puts[u], store(u, p)
      PROVE  /\ \A v \in Users : StampsBacked(rows'[v], A, O)
             /\ \A v \in Users : PutsBacked(puts'[v], I, A, O)
    <2>1. /\ p.record \in Record /\ rows'[u] = putRecord(rows[u], p.record)
          /\ puts'[u] = puts[u] \ {p}
          /\ \A v \in Users : v # u => rows'[v] = rows[v] /\ puts'[v] = puts[v]
        BY <1>1, StoreEffect
    <2>2. /\ RecordBacked(p.record, I, A, O) /\ StampsBacked(rows[u], A, O)
          /\ rows[u] \in Rows
        BY DEF Supported, PutsBacked, TypeOK
    <2>3. /\ rows'[u].deliveredAt
                = flag(rows[u].deliveredAt, p.record.id, p.record.deliveredAt)
          /\ rows'[u].readAt = flag(rows[u].readAt, p.record.id, p.record.readAt)
        BY <2>1, <2>2, PutRow
    <2>4. StampsBacked(rows'[u], A, O)
        BY <2>2, <2>3 DEF StampsBacked, RecordBacked, flag
    <2>5. \A v \in Users : StampsBacked(rows'[v], A, O)  BY <2>1, <2>4 DEF Supported
    <2>6. \A v \in Users : PutsBacked(puts'[v], I, A, O)
        BY <2>1 DEF Supported, PutsBacked
    <2> QED BY <2>5, <2>6
<1>2. CASE StoreReceived(u)
    <2>1. PICK p \in puts[u] : store(u, p)  BY <1>2 DEF StoreReceived
    <2> QED BY <1>1, <1>2, <2>1 DEF StoreReceived, Supported, relayVars, wireVars
<1>3. ASSUME NEW t \in Tasks, BackfillPut(u, t)  PROVE Supported(I, A, O)'
    <2>1. PICK p \in puts[u] :
            /\ store(u, p)
            /\ fetch' = [fetch EXCEPT ![u][t].page = {m \in @ : m.id # p.record.id}]
        BY <1>3 DEF BackfillPut
    <2>2. fetch[u][t] \in Fetches /\ fetch \in [Users -> [Tasks -> Fetches]]  BY DEF TypeOK
    <2>3. PageBacked([fetch[u][t] EXCEPT !.page = {m \in @ : m.id # p.record.id}], I, A, O)
        BY <2>2 DEF PageBacked, Fetches, Supported
    <2>4. \A v \in Users : \A s \in Tasks : PageBacked(fetch'[v][s], I, A, O)
        BY <2>1, <2>2, <2>3 DEF Supported
    <2> QED BY <1>1, <1>3, <2>1, <2>4 DEF BackfillPut, Supported, relayVars, wireVars
<1> QED BY <1>2, <1>3 DEF StoreNext

(* Reporting: frames of true claims on the socket, or the POST of them. *)
LEMMA SupportedPost ==
    ASSUME TypeOK, NEW I, NEW A, NEW O, Supported(I, A, O), NEW u \in Users,
           NEW ids \in SUBSET Nat, ids \subseteq O, postReadReceipts(u, ids)
    PROVE  /\ read' \subseteq O
           /\ \A v \in Users : AllBacked(down'[v], I, A, O)
           /\ \A v \in Users : StampsBacked(rows'[v], A, O)
<1> DEFINE fresh == record_read_receipts(u, ids)
<1>1. fresh \subseteq O /\ fresh \in SUBSET Nat
    BY DEF record_read_receipts, FromPeer
<1> HIDE DEF fresh
<1>2. \A v \in Users : AllBacked(publish({Peer[u]}, ReadEvent(fresh))[v], I, A, O)
    BY <1>1, EventType, BackedEvents, BackedPublish DEF Supported
<1>3. \/ UNCHANGED rows
      \/ rows' = [rows EXCEPT ![u] = markReadAck(rows[u], ids)]
    BY DEF postReadReceipts
<1>4. \A v \in Users : StampsBacked(rows'[v], A, O)
    <2>1. rows \in [Users -> Rows] /\ rows[u] \in Rows  BY DEF TypeOK
    <2>2. \A v \in Users : StampsBacked(rows[v], A, O)  BY DEF Supported
    <2>3. StampsBacked(markReadAck(rows[u], ids), A, O)  BY <2>1, <2>2, AckedStamps
    <2> QED BY <1>3, <2>1, <2>2, <2>3
<1>5. /\ read' = read \/ read' = read \cup fresh
      /\ down' = down \/ down' = publish({Peer[u]}, ReadEvent(fresh))
    BY DEF postReadReceipts, fresh
<1> QED BY <1>1, <1>2, <1>4, <1>5 DEF Supported

(* The two ways in which the frames of a device leave it. *)
LEMMA SupportedEmit ==
    ASSUME TypeOK, NEW I, NEW A, NEW O, Supported(I, A, O), NEW u \in Users,
           NEW frames \in Seq(Upstream), AllBacked(frames, I, A, O), emit(u, frames)
    PROVE  \A v \in Users : AllBacked(up'[v], I, A, O)
<1>1. AllBacked(up[u] \o frames, I, A, O)
    BY BackedConcat DEF TypeOK, Supported
<1> QED BY <1>1 DEF emit, TypeOK, Supported

(* What a handler reports is so. *)
LEMMA SupportedHandler ==
    ASSUME TypeOK, RowsAreGrounded, NEW I, NEW A, NEW O, Covers(I, A, O),
           Supported(I, A, O), NEW u \in Users, HandlerNext(u)
    PROVE  Supported(I, A, O)'
<1> DEFINE delivery == unacknowledgedMessageIds(u)
           reading == unreadAckedMessageIds(u)
<1>1. /\ delivery \in SUBSET Nat /\ reading \in SUBSET Nat
      /\ delivery \subseteq A /\ reading \subseteq O
    BY AckIdsType, SweepsAreTrue DEF Covers
<1>2. rows \in [Users -> Rows] /\ rows[u] \in Rows /\ StampsBacked(rows[u], A, O)
    BY DEF TypeOK, Supported
<1>3. CASE HandleStored(u)
    <2>1. PICK R \in {{}, reading} :
            /\ \/ /\ emit(u, sweep(DeliveredEvent(delivery)) \o sweep(ReadEvent(R)))
                  /\ rows' = [rows EXCEPT ![u] =
                                 markReadAck(markDeliveredAck(rows[u], delivery), R)]
                  /\ UNCHANGED <<read, down, spent>>
               \/ postReadReceipts(u, R) /\ UNCHANGED up
            /\ UNCHANGED <<delivered, parked, fetch, receipts, puts>>
        BY <1>3 DEF HandleStored
    <2>2. R \in SUBSET Nat /\ R \subseteq O  BY <1>1
    <2> HIDE DEF delivery, reading
    <2>3. CASE /\ emit(u, sweep(DeliveredEvent(delivery)) \o sweep(ReadEvent(R)))
               /\ rows' = [rows EXCEPT ![u] =
                              markReadAck(markDeliveredAck(rows[u], delivery), R)]
               /\ UNCHANGED <<read, down, spent>>
        <3>1. AllBacked(sweep(DeliveredEvent(delivery)) \o sweep(ReadEvent(R)), I, A, O)
            BY <1>1, <2>2, SweepType, BackedEvents, BackedConcat
        <3>2. sweep(DeliveredEvent(delivery)) \o sweep(ReadEvent(R)) \in Seq(Upstream)
            BY <1>1, <2>2, SweepType
        <3>3. \A v \in Users : AllBacked(up'[v], I, A, O)
            BY <2>3, <3>1, <3>2, SupportedEmit
        <3>4. StampsBacked(markReadAck(markDeliveredAck(rows[u], delivery), R), A, O)
            BY <1>1, <1>2, <2>2, AckedStamps
        <3>5. \A v \in Users : StampsBacked(rows'[v], A, O)
            BY <1>2, <2>3, <3>4 DEF Supported
        <3> QED BY <2>1, <2>3, <3>3, <3>5 DEF Supported
    <2>4. CASE postReadReceipts(u, R) /\ UNCHANGED up
        BY <2>1, <2>2, <2>4, SupportedPost DEF Supported
    <2> QED BY <2>1, <2>3, <2>4
<1>4. CASE HandleSeen(u)
    <2>1. \A v \in Users : /\ rows'[v].deliveredAt = rows[v].deliveredAt
                           /\ rows'[v].readAt = rows[v].readAt
        BY <1>2, <1>4 DEF HandleSeen, Rows
    <2>2. \A v \in Users : StampsBacked(rows'[v], A, O)
        BY <2>1 DEF Supported, StampsBacked
    <2> QED BY <1>4, <2>2 DEF HandleSeen, Supported, relayVars, wireVars
<1>5. CASE HandleRead(u)
    <2>1. /\ \/ /\ emit(u, sweep(ReadEvent(reading)))
                /\ rows' = [rows EXCEPT ![u] = markReadAck(rows[u], reading)]
                /\ UNCHANGED <<read, down, spent>>
             \/ postReadReceipts(u, reading) /\ UNCHANGED up
          /\ UNCHANGED <<delivered, parked, fetch, receipts, puts>>
        BY <1>5 DEF HandleRead
    <2> HIDE DEF delivery, reading
    <2>2. CASE /\ emit(u, sweep(ReadEvent(reading)))
               /\ rows' = [rows EXCEPT ![u] = markReadAck(rows[u], reading)]
               /\ UNCHANGED <<read, down, spent>>
        <3>1. \A v \in Users : AllBacked(up'[v], I, A, O)
            BY <1>1, <2>2, SweepType, BackedEvents, SupportedEmit
        <3>2. StampsBacked(markReadAck(rows[u], reading), A, O)
            BY <1>1, <1>2, AckedStamps
        <3>3. \A v \in Users : StampsBacked(rows'[v], A, O)
            BY <1>2, <2>2, <3>2 DEF Supported
        <3> QED BY <2>1, <2>2, <3>1, <3>3 DEF Supported
    <2>3. CASE postReadReceipts(u, reading) /\ UNCHANGED up
        BY <1>1, <2>1, <2>3, SupportedPost DEF Supported
    <2> QED BY <2>1, <2>2, <2>3
<1> QED BY <1>3, <1>4, <1>5 DEF HandlerNext

(* A page of history says what the relay's tables say. *)
LEMMA HistoryIsTrue ==
    ASSUME TypeOK, NEW I, NEW A, NEW O, Covers(I, A, O), Supported(I, A, O),
           NEW since, NEW before, NEW top
    PROVE  PageBacked(getHistory(since, before, top), I, A, O)
<1>1. \A i \in get_messages(before) : i \in I  BY DEF get_messages, Covers
<1>2. SUFFICES ASSUME NEW m \in getHistory(since, before, top).page
      PROVE  EntryBacked(m, I, A, O)
    BY DEF PageBacked
<1>3. PICK i \in get_messages(before) :
         m = [id |-> i, delivered |-> i \in delivered, read |-> i \in read]
    BY <1>2 DEF getHistory
<1>4. m.id = i /\ (m.delivered => i \in delivered) /\ (m.read => i \in read)
    BY <1>3, Zenon
<1> QED BY <1>1, <1>4 DEF EntryBacked, Supported

(* What backfill fetches and stores is so. *)
LEMMA SupportedBackfill ==
    ASSUME TypeOK, NEW I, NEW A, NEW O, Covers(I, A, O), Supported(I, A, O),
           NEW u \in Users, NEW t \in Tasks, BackfillNext(u, t)
    PROVE  Supported(I, A, O)'
<1>1. ASSUME NEW f, PageBacked(f, I, A, O), fetch' = [fetch EXCEPT ![u][t] = f]
      PROVE  \A v \in Users : \A s \in Tasks : PageBacked(fetch'[v][s], I, A, O)
    BY <1>1 DEF TypeOK, Supported
<1>2. CASE BackfillStart(u, t)
    <2>1. \A v \in Users : \A s \in Tasks : PageBacked(fetch'[v][s], I, A, O)
        BY <1>1, <1>2, HistoryIsTrue DEF BackfillStart
    <2> QED BY <1>2, <2>1 DEF BackfillStart, Supported, relayVars, wireVars, diskVars
<1>3. CASE BackfillGet(u, t)
    <2> DEFINE put(m) == [by |-> t, shown |-> FALSE,
                          record |-> recordOf(u, m.id, FALSE, m.delivered, m.read)]
    <2>1. PICK m \in fetch[u][t].page :
            /\ parked' = [parked EXCEPT ![u] = unpark(parked[u], m.id)]
            /\ puts' = [puts EXCEPT ![u] = @ \cup {put(m)}]
        BY <1>3 DEF BackfillGet, TypeOK
    <2>2. /\ parked \in [Users -> Stamps] /\ parked[u] \in Stamps
          /\ StampsBacked(rows[u], A, O) /\ StampsBacked(parked[u], A, O)
          /\ EntryBacked(m, I, A, O) /\ O \subseteq A
        BY <2>1 DEF TypeOK, Supported, PageBacked, Covers
    <2>3. m.id \in Nat /\ m.delivered \in BOOLEAN /\ m.read \in BOOLEAN
        <3>1. fetch[u][t] \in Fetches  BY DEF TypeOK
        <3> QED BY <2>1, <3>1 DEF Fetches, Entry
    <2>4. StampsBacked(unpark(parked[u], m.id), A, O)
        BY <2>2 DEF StampsBacked, unpark, Stamps
    <2>5. \A v \in Users : StampsBacked(parked'[v], A, O)
        BY <2>1, <2>2, <2>4 DEF Supported
    <2>6. RecordBacked(put(m).record, I, A, O)
        BY <2>2, <2>3, RecordIsBacked DEF EntryBacked
    <2> HIDE DEF put
    <2>7. \A v \in Users : PutsBacked(puts'[v], I, A, O)
        BY <2>1, <2>6 DEF Supported, PutsBacked, TypeOK
    <2> QED BY <1>3, <2>5, <2>7 DEF BackfillGet, Supported, relayVars, wireVars, diskVars
<1>4. CASE BackfillMore(u, t)
    <2>1. PICK f : PageBacked(f, I, A, O) /\ fetch' = [fetch EXCEPT ![u][t] = f]
        BY <1>4, HistoryIsTrue DEF BackfillMore, TypeOK
    <2>2. \A v \in Users : \A s \in Tasks : PageBacked(fetch'[v][s], I, A, O)
        BY <1>1, <2>1
    <2> QED BY <1>4, <2>2 DEF BackfillMore, Supported, relayVars, wireVars, diskVars
<1> QED BY <1>2, <1>3, <1>4 DEF BackfillNext

(* What a pass reports and is told is so. *)
LEMMA SupportedReconcile ==
    ASSUME TypeOK, RowsAreGrounded, NEW I, NEW A, NEW O, Covers(I, A, O),
           Supported(I, A, O), NEW u \in Users, SendBacklog(u) \/ ApplyReceipts(u)
    PROVE  Supported(I, A, O)'
<1>1. /\ rows \in [Users -> Rows] /\ rows[u] \in Rows /\ StampsBacked(rows[u], A, O)
      /\ parked \in [Users -> Stamps] /\ StampsBacked(parked[u], A, O)
      /\ receipts \in [Users -> Stamps] /\ StampsBacked(receipts[u], A, O)
      /\ O \subseteq A
    BY DEF TypeOK, Supported, Covers
<1>2. CASE SendBacklog(u)
    <2> DEFINE delivery == unacknowledgedMessageIds(u)
               reading == unreadAckedMessageIds(u)
    <2>1. /\ delivery \in SUBSET Nat /\ reading \in SUBSET Nat
          /\ delivery \subseteq A /\ reading \subseteq O
        BY AckIdsType, SweepsAreTrue DEF Covers
    <2>2. \/ /\ \E outbox \in flushOutbox(u) :
                  emit(u, outbox \o sweep(DeliveredEvent(delivery))
                                 \o sweep(ReadEvent(reading)))
             /\ rows' = [rows EXCEPT ![u] =
                            markReadAck(markDeliveredAck(rows[u], delivery), reading)]
             /\ UNCHANGED <<read, down, spent>>
          \/ postReadReceipts(u, reading) /\ UNCHANGED up
        BY <1>2 DEF SendBacklog
    <2>3. StampsBacked(getReceipts(u), A, O)
        BY DEF getReceipts, StampsBacked, Supported
    <2>4. \A v \in Users : StampsBacked(receipts'[v], A, O)
        BY <1>1, <1>2, <2>3 DEF SendBacklog, Supported
    <2>5. \A v \in Users : \A t \in Tasks : PageBacked(fetch'[v][t], I, A, O)
        BY <1>2, BackedNothing DEF SendBacklog, TypeOK, Supported
    <2> HIDE DEF delivery, reading
    <2>6. /\ \A v \in Users : AllBacked(up'[v], I, A, O) /\ AllBacked(down'[v], I, A, O)
          /\ read' \subseteq O /\ \A v \in Users : StampsBacked(rows'[v], A, O)
        <3>1. CASE postReadReceipts(u, reading) /\ UNCHANGED up
            BY <2>1, <3>1, SupportedPost DEF Supported
        <3>2. CASE /\ \E outbox \in flushOutbox(u) :
                         emit(u, outbox \o sweep(DeliveredEvent(delivery))
                                        \o sweep(ReadEvent(reading)))
                   /\ rows' = [rows EXCEPT ![u] =
                                  markReadAck(markDeliveredAck(rows[u], delivery), reading)]
                   /\ UNCHANGED <<read, down, spent>>
            <4>1. PICK outbox \in flushOutbox(u) :
                    emit(u, outbox \o sweep(DeliveredEvent(delivery))
                                   \o sweep(ReadEvent(reading)))
                BY <3>2
            <4>2. outbox \in Seq(Upstream)  BY OutboxType
            <4>3. AllBacked(outbox, I, A, O)
                BY DEF flushOutbox, AllBacked, Backed, SendEvent
            <4>4. AllBacked(outbox \o sweep(DeliveredEvent(delivery)), I, A, O)
                BY <2>1, <4>2, <4>3, SweepType, BackedEvents, BackedConcat
            <4>5. outbox \o sweep(DeliveredEvent(delivery)) \in Seq(Upstream)
                BY <2>1, <4>2, SweepType
            <4>6. AllBacked(outbox \o sweep(DeliveredEvent(delivery))
                                   \o sweep(ReadEvent(reading)), I, A, O)
                BY <2>1, <4>4, <4>5, SweepType, BackedEvents, BackedConcat
            <4>7. \A v \in Users : AllBacked(up'[v], I, A, O)
                <5>1. outbox \o sweep(DeliveredEvent(delivery)) \o sweep(ReadEvent(reading))
                        \in Seq(Upstream)
                    BY <2>1, <4>5, SweepType
                <5> QED BY <4>1, <4>6, <5>1, SupportedEmit
            <4>8. StampsBacked(markReadAck(markDeliveredAck(rows[u], delivery), reading), A, O)
                BY <1>1, <2>1, AckedStamps
            <4>9. \A v \in Users : StampsBacked(rows'[v], A, O)
                BY <1>1, <3>2, <4>8 DEF Supported
            <4> QED BY <3>2, <4>7, <4>9 DEF Supported
        <3> QED BY <2>2, <3>1, <3>2
    <2> QED BY <1>2, <2>4, <2>5, <2>6 DEF SendBacklog, Supported
<1>3. CASE ApplyReceipts(u)
    <2> DEFINE got == receipts[u]
    <2>1. got.deliveredAt \subseteq A /\ got.readAt \subseteq O  BY <1>1 DEF StampsBacked
    <2>2. StampsBacked(stampRead(stampDelivered(rows[u], got.deliveredAt), got.readAt), A, O)
        BY <1>1, <2>1 DEF stampRead, stampDelivered, StampsBacked, Rows
    <2>3. \A v \in Users : StampsBacked(rows'[v], A, O)
        BY <1>1, <1>3, <2>2 DEF ApplyReceipts, Supported
    <2>4. \A v \in Users : StampsBacked(parked'[v], A, O)
        BY <1>1, <1>3, <2>1 DEF ApplyReceipts, Supported, StampsBacked
    <2>5. \A v \in Users : StampsBacked(receipts'[v], A, O)
        BY <1>1, <1>3, BackedNothing DEF ApplyReceipts, Supported
    <2> QED BY <1>3, <2>3, <2>4, <2>5 DEF ApplyReceipts, Supported, relayVars, wireVars
<1> QED BY <1>2, <1>3

(* The end of loadConversation claims nothing. *)
LEMMA SupportedLoadDone ==
    ASSUME TypeOK, NEW I, NEW A, NEW O, Supported(I, A, O), NEW u \in Users, LoadDone(u)
    PROVE  Supported(I, A, O)'
<1>1. \A v \in Users : \A t \in Tasks : PageBacked(fetch'[v][t], I, A, O)
    BY BackedNothing DEF LoadDone, finishLoading, TypeOK, Supported
<1> QED BY <1>1 DEF LoadDone, finishLoading, Supported, relayVars, wireVars, diskVars

(* Claims backed by sets that already cover what devices hold after the    *)
(* step stay backed by them.                                               *)
LEMMA SupportedNext ==
    ASSUME TypeOK, RowsAreGrounded, NEW I, NEW A, NEW O, Covers(I, A, O),
           Supported(I, A, O), Next
    PROVE  Supported(I, A, O)'
<1>1. PICK u \in Users :
        \/ RelayNext(u) \/ ReceiveNext(u) \/ StoreNext(u) \/ HandlerNext(u)
        \/ ReconcileNext(u) \/ LoadNext(u)
        \/ Connect(u) \/ Subscribe(u) \/ Timer(u)
        \/ UserNext(u) \/ FaultNext(u)
    BY DEF Next
<1>2. CASE ReconcileNext(u)
    BY <1>2, SupportedBackfill, SupportedReconcile DEF ReconcileNext, Tasks
<1>3. CASE LoadNext(u)
    BY <1>3, SupportedBackfill, SupportedLoadDone DEF LoadNext, Tasks
<1> QED BY <1>1, <1>2, <1>3, SupportedRelay, SupportedReceive, SupportedStore,
           SupportedHandler, SupportedSocketUser, SupportedFaults

(* What was opened has arrived. *)
LEMMA OpenedHasArrived == TypeOK /\ RowsAreGrounded => Opened \subseteq Arrived
BY IdsType, PeerType DEF RowsAreGrounded, Opened, Arrived, Recipient

(* What has happened to a message stays so. *)
LEMMA ArrivedAndOpenedGrow ==
    ASSUME TypeOK, NoClaimRunsAhead, OnlySocketPutsSeen, Next
    PROVE  Arrived \subseteq Arrived' /\ Opened \subseteq Opened'
<1>1. \A i \in Ids : /\ i \in Ids' /\ Recipient(i)' = Recipient(i)
                     /\ Recipient(i) \in Users
    BY Growth, IdsType, PeerType DEF Recipient, SenderOf
<1> QED BY <1>1, Growth DEF Arrived, Opened

(* No step makes a claim run ahead: every claim after it is backed by what *)
(* has happened by then.                                                   *)
LEMMA NoClaimNext ==
    ASSUME TypeOK, RowsAreGrounded, NoClaimRunsAhead, OnlySocketPutsSeen, Next
    PROVE  NoClaimRunsAhead'
<1>1. PICK I, A, O : I = Ids' /\ A = Arrived' /\ O = Opened'  OBVIOUS
<1>2. TypeOK' /\ RowsAreGrounded'  BY TypeNext, GroundedNext
<1>3. O \subseteq A
    <2>1. (Opened \subseteq Arrived)'  BY <1>2, OpenedHasArrived, PTL
    <2> QED BY <1>1, <2>1
<1>4. Ids \subseteq I /\ Arrived \subseteq A /\ Opened \subseteq O
    BY <1>1, Growth, ArrivedAndOpenedGrow
<1>5. Covers(I, A, O)  BY <1>1, <1>3, <1>4 DEF Covers
<1>6. Supported(I, A, O)
    BY <1>4, SupportedIsNoClaimRunsAhead
       DEF Supported, AllBacked, Backed, StampsBacked, PageBacked, EntryBacked, PutsBacked,
           RecordBacked
<1>7. Supported(I, A, O)'  BY <1>5, <1>6, SupportedNext
<1>8. Supported(Ids, Arrived, Opened)'  BY <1>1, <1>7 DEF Supported
<1> QED BY <1>8, SupportedIsNoClaimRunsAhead, PTL

-----------------------------------------------------------------------------
(* The inductive invariant, and what it gives. *)

IInv == TypeOK /\ RowsAreGrounded /\ NoClaimRunsAhead /\ OnlySocketPutsSeen

(* A step that leaves every putMessage under way alone, or ends one. *)
LEMMA PutsKept ==
    ASSUME Next
    PROVE  \E u \in Users :
             \/ ReceiveMessage(u) \/ \E t \in Tasks : BackfillGet(u, t)
             \/ StoreNext(u) \/ Reload(u) \/ puts' = puts
<1>1. PICK u \in Users :
        \/ RelayNext(u) \/ ReceiveNext(u) \/ StoreNext(u) \/ HandlerNext(u)
        \/ ReconcileNext(u) \/ LoadNext(u)
        \/ Connect(u) \/ Subscribe(u) \/ Timer(u)
        \/ UserNext(u) \/ FaultNext(u)
    BY DEF Next
<1>2. CASE RelayNext(u)
    BY <1>2 DEF RelayNext, RelaySend, RelayDelivered, RelayRead, memoryVars
<1>3. CASE ReceiveNext(u)
    BY <1>3 DEF ReceiveNext, ReceiveDelivered, ReceiveRead
<1>4. CASE HandlerNext(u)
    BY <1>4 DEF HandlerNext, HandleStored, HandleSeen, HandleRead
<1>5. ASSUME NEW t \in Tasks, BackfillNext(u, t)  PROVE BackfillGet(u, t) \/ puts' = puts
    BY <1>5 DEF BackfillNext, BackfillStart, BackfillMore
<1>6. CASE ReconcileNext(u)
    BY <1>5, <1>6 DEF ReconcileNext, SendBacklog, ApplyReceipts, Tasks
<1>7. CASE LoadNext(u)
    BY <1>5, <1>7 DEF LoadNext, LoadDone, Tasks
<1>8. CASE Connect(u) \/ Subscribe(u) \/ Timer(u)
    BY <1>8 DEF Connect, Subscribe, Timer, memoryVars
<1>9. CASE UserNext(u)
    BY <1>9 DEF UserNext, OpenChat, Refocus, LeaveChat, Compose
<1>10. CASE FaultNext(u)
    BY <1>10 DEF FaultNext, RelayReject, RelayLag, Drop, ReconcileFails, LoadFails,
                 TimerInPass, memoryVars
<1> QED BY <1>1, <1>2, <1>3, <1>4, <1>6, <1>7, <1>8, <1>9, <1>10

(* What the get of a received message, and of an entry, adds. *)
LEMMA GetReceivedPut ==
    ASSUME TypeOK, NEW u \in Users, ReceiveMessage(u)
    PROVE  \E i \in Nat, seen \in BOOLEAN, p \in Put :
             /\ i \in Head(down[u]).ids
             /\ p.by = "socket" /\ p.record = recordOf(u, i, seen, FALSE, FALSE)
             /\ puts' = [puts EXCEPT ![u] = @ \cup {p}]
             /\ parked' = [parked EXCEPT ![u] = unpark(parked[u], i)]
<1>1. down[u] \in Seq(Downstream) /\ down[u] # <<>> /\ viewing[u] \in BOOLEAN
    BY DEF TypeOK, ReceiveMessage
<1>2. Head(down[u]) \in Downstream  BY <1>1
<1> DEFINE seen(i) == SenderOf(i) = u \/ viewing[u]
           put(i) == [by |-> "socket", shown |-> viewing[u],
                      record |-> recordOf(u, i, seen(i), FALSE, FALSE)]
<1>3. PICK i \in Head(down[u]).ids :
        /\ parked' = [parked EXCEPT ![u] = unpark(parked[u], i)]
        /\ puts' = [puts EXCEPT ![u] = @ \cup {put(i)}]
    BY DEF ReceiveMessage, TypeOK
<1>4. i \in Nat  BY <1>2, <1>3 DEF ReceiveMessage, Downstream
<1>5. seen(i) \in BOOLEAN  OBVIOUS
<1>6. recordOf(u, i, seen(i), FALSE, FALSE) \in Record
    BY <1>4, <1>5, RecordType
<1>7. /\ put(i) \in Put /\ put(i).by = "socket"
      /\ put(i).record = recordOf(u, i, seen(i), FALSE, FALSE)
    BY <1>1, <1>6 DEF Put
<1> HIDE DEF seen, put
<1> QED BY <1>3, <1>4, <1>5, <1>7

(* The same of an entry of a page. *)
LEMMA GetEntryPut ==
    ASSUME TypeOK, NEW u \in Users, NEW t \in Tasks, BackfillGet(u, t)
    PROVE  \E m \in fetch[u][t].page, p \in Put :
             /\ m.id \in Nat /\ m.delivered \in BOOLEAN /\ m.read \in BOOLEAN
             /\ p.by = t /\ p.record = recordOf(u, m.id, FALSE, m.delivered, m.read)
             /\ p.record.seen = FALSE
             /\ puts' = [puts EXCEPT ![u] = @ \cup {p}]
             /\ parked' = [parked EXCEPT ![u] = unpark(parked[u], m.id)]
<1> DEFINE put(m) == [by |-> t, shown |-> FALSE,
                      record |-> recordOf(u, m.id, FALSE, m.delivered, m.read)]
<1>1. PICK m \in fetch[u][t].page :
        /\ parked' = [parked EXCEPT ![u] = unpark(parked[u], m.id)]
        /\ puts' = [puts EXCEPT ![u] = @ \cup {put(m)}]
    BY DEF BackfillGet, TypeOK
<1>2. m.id \in Nat /\ m.delivered \in BOOLEAN /\ m.read \in BOOLEAN
    <2>1. fetch[u][t] \in Fetches  BY DEF TypeOK
    <2> QED BY <1>1, <2>1 DEF Fetches, Entry
<1>3. /\ recordOf(u, m.id, FALSE, m.delivered, m.read) \in Record
      /\ recordOf(u, m.id, FALSE, m.delivered, m.read).seen = FALSE
    <2>1. FALSE \in BOOLEAN  OBVIOUS
    <2>2. recordOf(u, m.id, FALSE, m.delivered, m.read) \in Record
        BY <1>2, <2>1, RecordType
    <2>3. recordOf(u, m.id, FALSE, m.delivered, m.read).seen = FALSE
        BY DEF recordOf
    <2> QED BY <2>2, <2>3
<1>4. /\ put(m) \in Put /\ put(m).by = t /\ put(m).record.seen = FALSE
      /\ put(m).record = recordOf(u, m.id, FALSE, m.delivered, m.read)
    BY <1>3 DEF Put
<1> HIDE DEF put
<1> QED BY <1>1, <1>2, <1>4

(* Only the socket puts messages that are seen. *)
LEMMA PutsSeenNext ==
    ASSUME TypeOK, OnlySocketPutsSeen, Next
    PROVE  OnlySocketPutsSeen'
<1>1. PICK u \in Users :
        \/ ReceiveMessage(u) \/ \E t \in Tasks : BackfillGet(u, t)
        \/ StoreNext(u) \/ Reload(u) \/ puts' = puts
    BY PutsKept
<1>2. puts \in [Users -> SUBSET Put]  BY DEF TypeOK
<1>3. ASSUME NEW q, puts' = [puts EXCEPT ![u] = @ \cup {q}],
             q.record.seen => q.by = "socket"
      PROVE  OnlySocketPutsSeen'
    BY <1>2, <1>3 DEF OnlySocketPutsSeen
<1>4. ASSUME NEW p \in puts[u], store(u, p)  PROVE OnlySocketPutsSeen'
    BY <1>2, <1>4 DEF OnlySocketPutsSeen, store
<1>5. CASE ReceiveMessage(u)  BY <1>3, <1>5, GetReceivedPut
<1>6. ASSUME NEW t \in Tasks, BackfillGet(u, t)  PROVE OnlySocketPutsSeen'
    <2>1. PICK m, p \in Put :
             /\ p.record.seen = FALSE
             /\ puts' = [puts EXCEPT ![u] = @ \cup {p}]
        BY <1>6, GetEntryPut
    <2> QED BY <1>3, <2>1
<1>7. CASE StoreNext(u)
    BY <1>4, <1>7 DEF StoreNext, StoreReceived, BackfillPut
<1>8. CASE Reload(u)
    BY <1>2, <1>8 DEF Reload, OnlySocketPutsSeen
<1>9. CASE puts' = puts  BY <1>9 DEF OnlySocketPutsSeen
<1> QED BY <1>1, <1>5, <1>6, <1>7, <1>8, <1>9

(* The inductive invariant holds at first. *)
LEMMA InitIInv == Init => IInv
<1> SUFFICES ASSUME Init PROVE IInv  OBVIOUS
<1>1. TypeOK  BY TypeInit
<1>2. RowsAreGrounded
    BY FS_EmptySet DEF Init, RowsAreGrounded, NoRows
<1>3. Supported(Ids, Arrived, Opened)
    BY BackedNothing DEF Init, Supported, PutsBacked
<1>4. NoClaimRunsAhead  BY <1>3, SupportedIsNoClaimRunsAhead
<1>5. OnlySocketPutsSeen  BY DEF Init, OnlySocketPutsSeen
<1> QED BY <1>1, <1>2, <1>4, <1>5 DEF IInv

(* A step that changes nothing keeps it. *)
LEMMA StutterIInv == IInv /\ UNCHANGED vars => IInv'
<1> SUFFICES ASSUME IInv, UNCHANGED vars PROVE IInv'  OBVIOUS
<1>1. TypeOK'  BY DEF IInv, TypeOK, vars
<1>2. RowsAreGrounded'  BY DEF IInv, RowsAreGrounded, vars, Ids
<1>3. NoClaimRunsAhead'
    BY DEF IInv, NoClaimRunsAhead, vars, Ids, Arrived, Opened, Recipient, SenderOf,
           EventIsTrue, EntryIsTrue, RecordIsTrue, StampsAreTrue
<1>4. OnlySocketPutsSeen'  BY DEF IInv, OnlySocketPutsSeen, vars
<1> QED BY <1>1, <1>2, <1>3, <1>4 DEF IInv

(* Every step keeps it. *)
LEMMA NextIInv == IInv /\ [Next]_vars => IInv'
<1>1. ASSUME IInv, Next PROVE IInv'
    BY <1>1, TypeNext, GroundedNext, NoClaimNext, PutsSeenNext DEF IInv
<1> QED BY <1>1, StutterIInv

(* Every reachable state satisfies the inductive invariant. *)
THEOREM Inductive == Spec => []IInv
BY InitIInv, NextIInv, PTL DEF Spec

(* Every variable of the relay, the wire and the devices stays in its      *)
(* type, for any two users, drafts, page size and bounds.                  *)
THEOREM TypeCorrect == Spec => []TypeOK
<1>1. IInv => TypeOK  BY DEF IInv
<1> QED BY <1>1, Inductive, PTL

(* No claim about a message, wherever it is kept or under way, is ahead of *)
(* what happened to the message.                                           *)
THEOREM ClaimsAreTrue == Spec => []NoClaimRunsAhead
<1>1. IInv => NoClaimRunsAhead  BY DEF IInv
<1> QED BY <1>1, Inductive, PTL

(* What a device shows as seen was opened on it, what was opened is on it, *)
(* and what is on it the relay has stored.                                 *)
THEOREM RowsGrounded == Spec => []RowsAreGrounded
<1>1. IInv => RowsAreGrounded  BY DEF IInv
<1> QED BY <1>1, Inductive, PTL

(* A second tick means the recipient's device holds the message, a third   *)
(* that its owner has opened it: for any number of messages, whatever is   *)
(* lost, dropped, rejected or reloaded on the way.                         *)
THEOREM TicksAreTruthful == Spec => []TicksNeverLie
<1>1. IInv => TicksNeverLie  BY DEF IInv, NoClaimRunsAhead, TicksNeverLie
<1> QED BY <1>1, Inductive, PTL

-----------------------------------------------------------------------------
(* The outbox *)

(* Only composing composes. *)
LEMMA ComposedKept ==
    ASSUME Next
    PROVE  composed' = composed \/ \E v \in Users, e \in Drafts : Compose(v, e)
<1>1. PICK u \in Users :
        \/ RelayNext(u) \/ ReceiveNext(u) \/ StoreNext(u) \/ HandlerNext(u)
        \/ ReconcileNext(u) \/ LoadNext(u)
        \/ Connect(u) \/ Subscribe(u) \/ Timer(u)
        \/ UserNext(u) \/ FaultNext(u)
    BY DEF Next
<1>2. CASE RelayNext(u)
    BY <1>2 DEF RelayNext, RelaySend, RelayDelivered, RelayRead, historyVars
<1>3. CASE ReceiveNext(u) \/ StoreNext(u)
    BY <1>3 DEF ReceiveNext, ReceiveMessage, ReceiveDelivered, ReceiveRead, historyVars,
                StoreNext, StoreReceived, BackfillPut
<1>4. CASE HandlerNext(u)
    BY <1>4 DEF HandlerNext, HandleStored, HandleSeen, HandleRead
<1>5. ASSUME NEW t \in Tasks, BackfillNext(u, t)  PROVE composed' = composed
    BY <1>5 DEF BackfillNext, BackfillStart, BackfillGet, BackfillMore, historyVars
<1>6. CASE ReconcileNext(u)
    BY <1>5, <1>6 DEF ReconcileNext, SendBacklog, ApplyReceipts, historyVars, Tasks
<1>7. CASE LoadNext(u)
    BY <1>5, <1>7 DEF LoadNext, LoadDone, historyVars, Tasks
<1>8. CASE Connect(u) \/ Subscribe(u) \/ Timer(u)
    BY <1>8 DEF Connect, Subscribe, Timer, historyVars
<1>9. CASE UserNext(u)
    BY <1>9 DEF UserNext, OpenChat, Refocus, LeaveChat
<1>10. CASE FaultNext(u)
    BY <1>10 DEF FaultNext, RelayReject, RelayLag, Drop, Reload, ReconcileFails, LoadFails,
                 TimerInPass
<1> QED BY <1>1, <1>2, <1>3, <1>4, <1>6, <1>7, <1>8, <1>9, <1>10

(* A step removes an entry of an outbox only when the relay has stored it. *)
LEMMA OutboxNext ==
    ASSUME IInv, NothingTypedIsLost, Next
    PROVE  NothingTypedIsLost'
<1> SUFFICES ASSUME NEW d \in composed'
             PROVE  \/ \E p \in rows'[Author[d]].pending : p.draft = d
                    \/ \E i \in Ids' : log'[i] = d
    BY DEF NothingTypedIsLost
<1>1. /\ TypeOK /\ NoClaimRunsAhead /\ OnlySocketPutsSeen
      /\ composed \subseteq Drafts /\ rows \in [Users -> Rows]
    BY DEF IInv, TypeOK
<1>2. PICK u \in Users :
        \/ RelaySend(u) \/ HandleSeen(u) \/ \E e \in Drafts : Compose(u, e)
        \/ ReceiveMessage(u) \/ StoreNext(u)
        \/ UNCHANGED log /\ UNCHANGED opened /\ \A v \in Users : SameShape(rows'[v], rows[v])
    BY <1>1, NextShape, ShapeKept, RowsKept DEF SameShape
<1>3. \A i \in Ids : i \in Ids' /\ log'[i] = log[i]  BY <1>1, Growth
<1>4. ASSUME d \in composed,
             rows[Author[d]].pending \subseteq rows'[Author[d]].pending
      PROVE  \/ \E p \in rows'[Author[d]].pending : p.draft = d
             \/ \E i \in Ids' : log'[i] = d
    BY <1>3, <1>4 DEF NothingTypedIsLost
<1>5. composed' = composed \/ \E v \in Users, e \in Drafts : Compose(v, e)
    BY ComposedKept
<1>6. ASSUME NEW v \in Users, NEW e \in Drafts, Compose(v, e)
      PROVE  \/ \E p \in rows'[Author[d]].pending : p.draft = d
             \/ \E i \in Ids' : log'[i] = d
    <2>1. Author[e] = v /\ composed' = composed \cup {e}  BY <1>6 DEF Compose
    <2>2. \A w \in Users : rows[w].pending \subseteq rows'[w].pending
        BY <1>1, <1>6, ComposeShape
    <2>3. CASE d = e
        <3>1. [draft |-> e, at |-> Len(log)] \in rows'[v].pending  BY <1>1, <1>6, ComposeShape
        <3> QED BY <2>1, <2>3, <3>1
    <2>4. CASE d # e
        <3>1. Author[d] \in Users
            BY <1>1, <2>1, <2>4, DraftsAssumption
        <3> QED BY <1>4, <2>1, <2>2, <2>4, <3>1
    <2> QED BY <2>3, <2>4
<1>7. CASE composed' = composed
    <2>1. d \in composed /\ Author[d] \in Users
        BY <1>1, <1>7, DraftsAssumption
    <2>2. CASE RelaySend(u)  BY <1>1, <1>4, <2>1, <2>2, SendShape
    <2>3. CASE HandleSeen(u)  BY <1>1, <1>4, <2>1, <2>3, SeenShape
    <2>4. CASE \E e \in Drafts : Compose(u, e)  BY <1>6, <2>4
    <2>5. CASE ReceiveMessage(u) \/ StoreNext(u)
        <3>1. PICK i \in Ids :
                /\ \A v \in Users : v # u => rows'[v] = rows[v]
                /\ \/ rows'[u].pending = rows[u].pending
                   \/ rows'[u].pending = {p \in rows[u].pending : p.draft # log[i]}
            BY <1>1, <2>5, EchoShape, StoredShape
        <3>2. CASE log[i] = d  BY <1>3, <3>2
        <3>3. CASE log[i] # d
            BY <1>3, <2>1, <3>1, <3>3 DEF NothingTypedIsLost
        <3> QED BY <3>2, <3>3
    <2>6. CASE \A v \in Users : SameShape(rows'[v], rows[v])
        BY <1>4, <2>1, <2>6 DEF SameShape
    <2> QED BY <1>2, <2>2, <2>3, <2>4, <2>5, <2>6
<1> QED BY <1>5, <1>6, <1>7

(* What was typed stays in its author's outbox until the relay has it.     *)
THEOREM NothingIsLost == Spec => []NothingTypedIsLost
<1>1. Init => NothingTypedIsLost  BY DEF Init, NothingTypedIsLost
<1>2. IInv /\ NothingTypedIsLost /\ [Next]_vars => NothingTypedIsLost'
    <2>1. ASSUME IInv, NothingTypedIsLost, Next  PROVE NothingTypedIsLost'
        BY <2>1, OutboxNext
    <2>2. ASSUME NothingTypedIsLost, UNCHANGED vars  PROVE NothingTypedIsLost'
        BY <2>2 DEF NothingTypedIsLost, vars, Ids
    <2> QED BY <2>1, <2>2
<1> QED BY <1>1, <1>2, Inductive, PTL DEF Spec

-----------------------------------------------------------------------------
(* What is written in the middle of a putMessage.  Of a message that is    *)
(* not in raced, the record about to be put says at least what the row     *)
(* says, and nothing is parked once a get has found the row missing.       *)

Keeps(r, row) ==
    /\ r.id \in row.deliveredAck => r.deliveredAck
    /\ r.id \in row.readAck => r.readAck
    /\ r.id \in row.deliveredAt => r.deliveredAt
    /\ r.id \in row.readAt => r.readAt
Waiting(park) == park.deliveredAt \cup park.readAt
PutsAreCurrent ==
    \A v \in Users :
        /\ \A p \in puts[v] : p.record.id \notin raced[v] => Keeps(p.record, rows[v])
        /\ \A i \in Waiting(parked[v]) :
              i \in rows[v].held \/ (\E p \in puts[v] : p.record.id = i) => i \in raced[v]

(* From row r to row s receipts and acknowledgements of S were added.      *)
Written(r, s, S) ==
    /\ s.held = r.held
    /\ r.deliveredAck \subseteq s.deliveredAck /\ s.deliveredAck \subseteq r.deliveredAck \cup S
    /\ r.readAck \subseteq s.readAck /\ s.readAck \subseteq r.readAck \cup S
    /\ r.deliveredAt \subseteq s.deliveredAt /\ s.deliveredAt \subseteq r.deliveredAt \cup S
    /\ r.readAt \subseteq s.readAt /\ s.readAt \subseteq r.readAt \cup S

(* What every step but a put does, on device u.                            *)
Writes(u, S) ==
    /\ \A w \in Users : w # u => /\ Written(rows[w], rows'[w], {})
                                 /\ parked'[w] = parked[w] /\ puts'[w] = puts[w]
                                 /\ raced'[w] = raced[w]
    /\ Written(rows[u], rows'[u], S)
    /\ \A i \in Waiting(parked'[u]) : i \in Waiting(parked[u]) \/ i \in S \ rows[u].held
    /\ raced[u] \subseteq raced'[u]
    /\ \A i \in S : (\E p \in puts[u] : p.record.id = i) => i \in raced'[u]
    /\ \A p \in puts'[u] : \/ p \in puts[u]
                           \/ /\ Keeps(p.record, rows'[u])
                              /\ p.record.id \notin Waiting(parked'[u])

(* Nothing is written, and at most putMessages are cut short.              *)
LEMMA WritesNothing ==
    ASSUME NEW u \in Users, \A w \in Users : Written(rows[w], rows'[w], {}), UNCHANGED raced,
           \A w \in Users : w # u => parked'[w] = parked[w] /\ puts'[w] = puts[w],
           parked'[u] = parked[u] \/ parked'[u] = NothingParked, puts'[u] \subseteq puts[u]
    PROVE  Writes(u, {})
BY DEF Writes, Waiting, NothingParked

(* The row it was is a row with nothing added. *)
LEMMA WrittenSame == \A r : Written(r, r, {})
BY DEF Written

(* What race notes, and that it forgets nothing. *)
LEMMA RaceEffect ==
    ASSUME TypeOK, NEW u \in Users, NEW S, race(u, S)
    PROVE  /\ raced[u] \subseteq raced'[u]
           /\ \A i \in S : (\E p \in puts[u] : p.record.id = i) => i \in raced'[u]
           /\ \A w \in Users : w # u => raced'[w] = raced[w]
BY DEF race, TypeOK

(* Receipts and acknowledgements add what they are about. *)
LEMMA StampsAreWritten ==
    ASSUME NEW row \in Rows, NEW D, NEW R
    PROVE  /\ Written(row, markReadAck(row, R), R)
           /\ Written(row, markReadAck(markDeliveredAck(row, D), R), D \cup R)
           /\ Written(row, stampDelivered(row, D), D)
           /\ Written(row, stampRead(row, R), R)
           /\ Written(row, stampRead(stampDelivered(row, D), R), D \cup R)
BY DEF Written, markReadAck, markDeliveredAck, stampDelivered, stampRead, Rows

(* One row gets more, what is noted covers it, and what is parked is of it. *)
LEMMA WritesRow ==
    ASSUME TypeOK, NEW u \in Users, NEW S, NEW row, rows' = [rows EXCEPT ![u] = row],
           Written(rows[u], row, S), race(u, S), UNCHANGED puts,
           \A w \in Users : w # u => parked'[w] = parked[w],
           \A i \in Waiting(parked'[u]) : i \in Waiting(parked[u]) \/ i \in S \ rows[u].held
    PROVE  Writes(u, S)
<1>1. rows'[u] = row /\ \A w \in Users : w # u => rows'[w] = rows[w]
    BY DEF TypeOK
<1>2. \A w \in Users : w # u => Written(rows[w], rows'[w], {})
    BY <1>1, WrittenSame
<1>3. Written(rows[u], rows'[u], S)  BY <1>1
<1> QED BY <1>2, <1>3, RaceEffect DEF Writes

(* POST read, in each of its outcomes. *)
LEMMA WritesPost ==
    ASSUME TypeOK, NEW u \in Users, NEW ids, postReadReceipts(u, ids),
           UNCHANGED <<puts, parked>>
    PROVE  \E S : Writes(u, S)
<1>1. CASE UNCHANGED <<rows, raced>>  BY <1>1, WritesNothing, WrittenSame
<1>2. CASE rows' = [rows EXCEPT ![u] = markReadAck(rows[u], ids)] /\ race(u, ids)
    <2>1. Written(rows[u], markReadAck(rows[u], ids), ids)
        BY StampsAreWritten DEF TypeOK
    <2>2. Writes(u, ids)  BY <1>2, <2>1, WritesRow
    <2> QED BY <2>2
<1> QED BY <1>1, <1>2 DEF postReadReceipts

(* The steps that acknowledge, or are told of receipts. *)
LEMMA WritesReceipts ==
    ASSUME TypeOK, NEW u \in Users,
           \/ ReceiveDelivered(u) \/ ReceiveRead(u) \/ HandleStored(u) \/ HandleRead(u)
           \/ SendBacklog(u) \/ ApplyReceipts(u)
    PROVE  \E S : Writes(u, S)
<1>1. rows[u] \in Rows /\ parked[u] \in Stamps /\ parked \in [Users -> Stamps]
    BY DEF TypeOK
<1>2. CASE ReceiveDelivered(u)
    <2> DEFINE ids == Head(down[u]).ids
    <2>1. /\ rows' = [rows EXCEPT ![u] = stampDelivered(rows[u], ids)] /\ race(u, ids)
          /\ UNCHANGED puts
        BY <1>2 DEF ReceiveDelivered
    <2>2. /\ \A w \in Users : w # u => parked'[w] = parked[w]
          /\ \A i \in Waiting(parked'[u]) :
                i \in Waiting(parked[u]) \/ i \in ids \ rows[u].held
        BY <1>1, <1>2 DEF ReceiveDelivered, Waiting, Stamps
    <2>3. Written(rows[u], stampDelivered(rows[u], ids), ids)  BY <1>1, StampsAreWritten
    <2> HIDE DEF ids
    <2>4. Writes(u, ids)  BY <2>1, <2>2, <2>3, WritesRow
    <2> QED BY <2>4
<1>3. CASE ReceiveRead(u)
    <2> DEFINE ids == Head(down[u]).ids
    <2>1. /\ rows' = [rows EXCEPT ![u] = stampRead(rows[u], ids)] /\ race(u, ids)
          /\ UNCHANGED puts
        BY <1>3 DEF ReceiveRead
    <2>2. /\ \A w \in Users : w # u => parked'[w] = parked[w]
          /\ \A i \in Waiting(parked'[u]) :
                i \in Waiting(parked[u]) \/ i \in ids \ rows[u].held
        BY <1>1, <1>3 DEF ReceiveRead, Waiting, Stamps
    <2>3. Written(rows[u], stampRead(rows[u], ids), ids)  BY <1>1, StampsAreWritten
    <2> HIDE DEF ids
    <2>4. Writes(u, ids)  BY <2>1, <2>2, <2>3, WritesRow
    <2> QED BY <2>4
<1>4. ASSUME NEW D, NEW R, UNCHANGED <<puts, parked>>,
             \/ /\ rows' = [rows EXCEPT ![u] = markReadAck(markDeliveredAck(rows[u], D), R)]
                /\ race(u, D \cup R)
             \/ rows' = [rows EXCEPT ![u] = markReadAck(rows[u], R)] /\ race(u, R)
             \/ postReadReceipts(u, R)
      PROVE  \E S : Writes(u, S)
    <2>1. CASE postReadReceipts(u, R)  BY <1>4, <2>1, WritesPost
    <2>2. /\ Written(rows[u], markReadAck(markDeliveredAck(rows[u], D), R), D \cup R)
          /\ Written(rows[u], markReadAck(rows[u], R), R)
        BY <1>1, StampsAreWritten
    <2>3. CASE /\ rows' = [rows EXCEPT ![u] = markReadAck(markDeliveredAck(rows[u], D), R)]
               /\ race(u, D \cup R)
        <3>1. Writes(u, D \cup R)  BY <1>4, <2>2, <2>3, WritesRow
        <3> QED BY <3>1
    <2>4. CASE rows' = [rows EXCEPT ![u] = markReadAck(rows[u], R)] /\ race(u, R)
        <3>1. Writes(u, R)  BY <1>4, <2>2, <2>4, WritesRow
        <3> QED BY <3>1
    <2> QED BY <1>4, <2>1, <2>3, <2>4
<1>5. CASE HandleStored(u) \/ HandleRead(u) \/ SendBacklog(u)
    <2>1. UNCHANGED <<puts, parked>>
        BY <1>5 DEF HandleStored, HandleRead, SendBacklog
    <2>2. PICK D, R :
            \/ /\ rows' = [rows EXCEPT ![u] = markReadAck(markDeliveredAck(rows[u], D), R)]
               /\ race(u, D \cup R)
            \/ rows' = [rows EXCEPT ![u] = markReadAck(rows[u], R)] /\ race(u, R)
            \/ postReadReceipts(u, R)
        BY <1>5 DEF HandleStored, HandleRead, SendBacklog
    <2> QED BY <1>4, <2>1, <2>2
<1>6. CASE ApplyReceipts(u)
    <2> DEFINE D == receipts[u].deliveredAt
               R == receipts[u].readAt
    <2>1. /\ rows' = [rows EXCEPT ![u] = stampRead(stampDelivered(rows[u], D), R)]
          /\ race(u, D \cup R) /\ UNCHANGED puts
        BY <1>6 DEF ApplyReceipts
    <2>2. /\ \A w \in Users : w # u => parked'[w] = parked[w]
          /\ \A i \in Waiting(parked'[u]) :
                i \in Waiting(parked[u]) \/ i \in (D \cup R) \ rows[u].held
        BY <1>1, <1>6 DEF ApplyReceipts, Waiting
    <2> HIDE DEF D, R
    <2>3. Written(rows[u], stampRead(stampDelivered(rows[u], D), R), D \cup R)
        BY <1>1, StampsAreWritten
    <2>4. Writes(u, D \cup R)  BY <2>1, <2>2, <2>3, WritesRow
    <2> QED BY <2>4
<1> QED BY <1>2, <1>3, <1>5, <1>6

(* The get of putMessage adds a put that says what the row says, and       *)
(* leaves nothing parked for it.                                           *)
LEMMA WritesGet ==
    ASSUME TypeOK, NEW u \in Users, \A w \in Users : Written(rows[w], rows'[w], {}),
           UNCHANGED raced, NEW i \in Nat, NEW seen \in BOOLEAN,
           NEW isDelivered \in BOOLEAN, NEW isRead \in BOOLEAN,
           NEW p, p.record = recordOf(u, i, seen, isDelivered, isRead),
           puts' = [puts EXCEPT ![u] = @ \cup {p}],
           parked' = [parked EXCEPT ![u] = unpark(parked[u], i)]
    PROVE  Writes(u, {})
<1>1. /\ parked'[u] = unpark(parked[u], i) /\ puts'[u] = puts[u] \cup {p}
      /\ \A w \in Users : w # u => parked'[w] = parked[w] /\ puts'[w] = puts[w]
    BY DEF TypeOK
<1>2. /\ Waiting(parked'[u]) \subseteq Waiting(parked[u])
      /\ i \notin Waiting(parked'[u])
    BY <1>1 DEF Waiting, unpark
<1>3. /\ p.record.id = i
      /\ p.record.deliveredAck = (i \in rows[u].deliveredAck)
      /\ p.record.readAck = (i \in rows[u].readAck)
      /\ i \in rows[u].deliveredAt => p.record.deliveredAt
      /\ i \in rows[u].readAt => p.record.readAt
    <2> DEFINE r == recordOf(u, i, seen, isDelivered, isRead)
    <2>1. /\ r.id = i
          /\ r.deliveredAck = (i \in rows[u].deliveredAck)
          /\ r.readAck = (i \in rows[u].readAck)
          /\ r.deliveredAt = (isDelivered \/ i \in rows[u].deliveredAt
                               \/ i \in parked[u].deliveredAt \/ i \in parked[u].readAt)
          /\ r.readAt = (isRead \/ i \in rows[u].readAt \/ i \in parked[u].readAt)
        BY RecordType
    <2>2. p.record = r  OBVIOUS
    <2> HIDE DEF r
    <2> QED BY ONLY <2>1, <2>2
<1>4. /\ rows'[u].deliveredAck = rows[u].deliveredAck /\ rows'[u].readAck = rows[u].readAck
      /\ rows'[u].deliveredAt = rows[u].deliveredAt /\ rows'[u].readAt = rows[u].readAt
    BY DEF Written
<1>5. Keeps(p.record, rows'[u])  BY <1>3, <1>4 DEF Keeps
<1> QED BY <1>1, <1>2, <1>3, <1>5 DEF Writes

(* Every step but a put writes on one device. *)
LEMMA NextWrites ==
    ASSUME TypeOK, NoClaimRunsAhead, Next
    PROVE  \E u \in Users : StoreNext(u) \/ \E S : Writes(u, S)
<1>1. rows \in [Users -> Rows] /\ parked \in [Users -> Stamps]
      /\ puts \in [Users -> SUBSET Put]
    BY DEF TypeOK
<1>2. ASSUME NEW u \in Users, UNCHANGED <<rows, raced, parked, puts>>  PROVE Writes(u, {})
    BY <1>2, WritesNothing, WrittenSame
<1>3. PICK u \in Users :
        \/ RelayNext(u) \/ ReceiveNext(u) \/ StoreNext(u) \/ HandlerNext(u)
        \/ ReconcileNext(u) \/ LoadNext(u)
        \/ Connect(u) \/ Subscribe(u) \/ Timer(u)
        \/ UserNext(u) \/ FaultNext(u)
    BY DEF Next
<1> SUFFICES ~ StoreNext(u) => \E S : Writes(u, S)
    OBVIOUS
<1>4. CASE RelayNext(u)
    BY <1>2, <1>4
       DEF RelayNext, RelaySend, RelayDelivered, RelayRead, diskVars, memoryVars, historyVars
<1>5. CASE ReceiveMessage(u)
    <2>1. PICK i \in Nat, seen \in BOOLEAN, p \in Put :
            /\ p.record = recordOf(u, i, seen, FALSE, FALSE)
            /\ puts' = [puts EXCEPT ![u] = @ \cup {p}]
            /\ parked' = [parked EXCEPT ![u] = unpark(parked[u], i)]
        BY <1>5, GetReceivedPut
    <2>2. \A w \in Users : Written(rows[w], rows'[w], {})
        <3>1. PICK j \in Ids : \/ rows' = [rows EXCEPT ![u] = withoutOptimistic(rows[u], log[j])]
                               \/ \A w \in Users : rows'[w] = rows[w]
            BY <1>5, EchoShape
        <3>2. Written(rows[u], withoutOptimistic(rows[u], log[j]), {})
            BY <1>1 DEF withoutOptimistic, Written, Rows
        <3>3. \A w \in Users : \/ rows'[w] = rows[w]
                               \/ w = u /\ rows'[w] = withoutOptimistic(rows[u], log[j])
            BY <1>1, <3>1
        <3> QED BY <3>2, <3>3, WrittenSame
    <2>3. UNCHANGED raced  BY <1>5, EchoShape
    <2>4. Writes(u, {})  BY <2>1, <2>2, <2>3, WritesGet
    <2> QED BY <2>4
<1>6. CASE ReceiveDelivered(u) \/ ReceiveRead(u) \/ HandleStored(u) \/ HandleRead(u)
           \/ SendBacklog(u) \/ ApplyReceipts(u)
    BY <1>6, WritesReceipts
<1>7. ASSUME NEW t \in Tasks, BackfillNext(u, t)  PROVE \E S : Writes(u, S)
    <2>1. CASE BackfillStart(u, t) \/ BackfillMore(u, t)
        BY <1>2, <2>1 DEF BackfillStart, BackfillMore, diskVars, historyVars
    <2>2. CASE BackfillGet(u, t)
        <3>1. PICK m \in fetch[u][t].page, p \in Put :
                /\ m.id \in Nat /\ m.delivered \in BOOLEAN /\ m.read \in BOOLEAN
                /\ p.by = t /\ p.record = recordOf(u, m.id, FALSE, m.delivered, m.read)
                /\ p.record.seen = FALSE
                /\ puts' = [puts EXCEPT ![u] = @ \cup {p}]
                /\ parked' = [parked EXCEPT ![u] = unpark(parked[u], m.id)]
            BY <2>2, GetEntryPut
        <3>2. UNCHANGED <<rows, raced>>  BY <2>2 DEF BackfillGet, diskVars, historyVars
        <3>3. \A w \in Users : Written(rows[w], rows'[w], {})  BY <3>2, WrittenSame
        <3>4. FALSE \in BOOLEAN  OBVIOUS
        <3>5. Writes(u, {})  BY <3>1, <3>2, <3>3, <3>4, WritesGet
        <3> QED BY <3>5
    <2> QED BY <1>7, <2>1, <2>2 DEF BackfillNext
<1>8. CASE HandleSeen(u)
    <2>1. \A w \in Users : Written(rows[w], rows'[w], {})
        <3>1. \A w \in Users : /\ rows'[w].held = rows[w].held
                               /\ rows'[w].deliveredAck = rows[w].deliveredAck
                               /\ rows'[w].readAck = rows[w].readAck
                               /\ rows'[w].deliveredAt = rows[w].deliveredAt
                               /\ rows'[w].readAt = rows[w].readAt
            BY <1>1, <1>8 DEF HandleSeen, Rows
        <3> QED BY <3>1 DEF Written
    <2>2. UNCHANGED <<raced, parked, puts>>  BY <1>8 DEF HandleSeen
    <2>3. Writes(u, {})  BY <2>1, <2>2, WritesNothing
    <2> QED BY <2>3
<1>9. CASE LoadDone(u)
    BY <1>2, <1>9 DEF LoadDone, diskVars, historyVars
<1>10. CASE Connect(u) \/ Subscribe(u) \/ Timer(u)
    BY <1>2, <1>10 DEF Connect, Subscribe, Timer, diskVars, memoryVars, historyVars
<1>11. CASE UserNext(u)
    <2>1. ASSUME NEW d \in Drafts, Compose(u, d)  PROVE Writes(u, {})
        <3>1. \A w \in Users : /\ rows'[w].held = rows[w].held
                               /\ rows'[w].deliveredAck = rows[w].deliveredAck
                               /\ rows'[w].readAck = rows[w].readAck
                               /\ rows'[w].deliveredAt = rows[w].deliveredAt
                               /\ rows'[w].readAt = rows[w].readAt
            BY <1>1, <2>1 DEF Compose, Rows
        <3>2. \A w \in Users : Written(rows[w], rows'[w], {})  BY <3>1 DEF Written
        <3> QED BY <2>1, <3>2, WritesNothing DEF Compose
    <2>2. CASE OpenChat(u) \/ Refocus(u) \/ LeaveChat(u)
        BY <1>2, <2>2 DEF OpenChat, Refocus, LeaveChat, diskVars
    <2> QED BY <1>11, <2>1, <2>2 DEF UserNext
<1>12. CASE Reload(u)
    <2>1. /\ UNCHANGED <<rows, raced>>
          /\ parked'[u] = NothingParked /\ puts'[u] \subseteq puts[u]
          /\ \A w \in Users : w # u => parked'[w] = parked[w] /\ puts'[w] = puts[w]
        BY <1>1, <1>12 DEF Reload, diskVars
    <2>2. Writes(u, {})  BY <2>1, WritesNothing, WrittenSame
    <2> QED BY <2>2
<1>13. CASE FaultNext(u) /\ ~ Reload(u)
    BY <1>2, <1>13
       DEF FaultNext, RelayReject, RelayLag, Drop, ReconcileFails, LoadFails,
           TimerInPass, diskVars, memoryVars
<1> QED BY <1>3, <1>4, <1>5, <1>6, <1>7, <1>8, <1>9, <1>10, <1>11, <1>12, <1>13
        DEF ReceiveNext, HandlerNext, ReconcileNext, LoadNext, Tasks

(* What a put leaves as it was, and what it may take down. *)
LEMMA StoreForward ==
    ASSUME TypeOK, PutsAreCurrent, NEW u \in Users, StoreNext(u)
    PROVE  /\ UNCHANGED parked
           /\ \A w \in Users : w # u => /\ rows'[w] = rows[w] /\ puts'[w] = puts[w]
                                        /\ raced'[w] = raced[w]
           /\ raced[u] \subseteq raced'[u]
           /\ \E p \in puts[u] :
                /\ puts'[u] = puts[u] \ {p}
                /\ rows'[u].held = rows[u].held \cup {p.record.id}
                /\ \A q \in puts[u] : q # p /\ q.record.id = p.record.id
                                        => p.record.id \in raced'[u]
                /\ \A i : i # p.record.id =>
                     /\ i \in rows'[u].deliveredAck <=> i \in rows[u].deliveredAck
                     /\ i \in rows'[u].readAck <=> i \in rows[u].readAck
                     /\ i \in rows'[u].deliveredAt <=> i \in rows[u].deliveredAt
                     /\ i \in rows'[u].readAt <=> i \in rows[u].readAt
                /\ p.record.id \notin raced[u] =>
                     /\ rows[u].deliveredAck \subseteq rows'[u].deliveredAck
                     /\ rows[u].readAck \subseteq rows'[u].readAck
                     /\ rows[u].deliveredAt \subseteq rows'[u].deliveredAt
                     /\ rows[u].readAt \subseteq rows'[u].readAt
<1>1. PICK p \in puts[u] : store(u, p)
    BY DEF StoreNext, StoreReceived, BackfillPut
<1>2. UNCHANGED parked  BY DEF StoreNext, StoreReceived, BackfillPut
<1>3. rows[u] \in Rows  BY DEF TypeOK
<1>4. /\ p.record \in Record /\ rows'[u] = putRecord(rows[u], p.record)
      /\ puts'[u] = puts[u] \ {p}
      /\ raced'[u] = raced[u] \cup {i \in {p.record.id} :
                                \E q \in puts[u] : q # p /\ q.record.id = i}
      /\ \A w \in Users : w # u => /\ rows'[w] = rows[w] /\ puts'[w] = puts[w]
                                   /\ raced'[w] = raced[w]
    BY <1>1, StoreEffect
<1>5. /\ rows'[u].held = rows[u].held \cup {p.record.id}
      /\ rows'[u].deliveredAck = flag(rows[u].deliveredAck, p.record.id, p.record.deliveredAck)
      /\ rows'[u].readAck = flag(rows[u].readAck, p.record.id, p.record.readAck)
      /\ rows'[u].deliveredAt = flag(rows[u].deliveredAt, p.record.id, p.record.deliveredAt)
      /\ rows'[u].readAt = flag(rows[u].readAt, p.record.id, p.record.readAt)
    BY <1>3, <1>4, PutRow
<1>6. p.record.id \notin raced[u] => Keeps(p.record, rows[u])
    BY DEF PutsAreCurrent
<1>7. \A S, i, value : (\A j : j # i => (j \in flag(S, i, value) <=> j \in S))
                       /\ ((i \in S => value) => S \subseteq flag(S, i, value))
    BY DEF flag
<1> QED BY <1>1, <1>2, <1>4, <1>5, <1>6, <1>7 DEF Keeps

(* Every step keeps the records about to be put current. *)
LEMMA CurrentNext ==
    ASSUME TypeOK, NoClaimRunsAhead, PutsAreCurrent, Next
    PROVE  PutsAreCurrent'
<1>1. PICK u \in Users : StoreNext(u) \/ \E S : Writes(u, S)  BY NextWrites
<1> SUFFICES ASSUME NEW v \in Users
             PROVE  /\ \A p \in puts'[v] :
                          p.record.id \notin raced'[v] => Keeps(p.record, rows'[v])
                    /\ \A i \in Waiting(parked'[v]) :
                          i \in rows'[v].held \/ (\E p \in puts'[v] : p.record.id = i)
                             => i \in raced'[v]
    BY DEF PutsAreCurrent, Waiting
<1>2. /\ \A p \in puts[v] : p.record.id \notin raced[v] => Keeps(p.record, rows[v])
      /\ \A i \in Waiting(parked[v]) :
            i \in rows[v].held \/ (\E p \in puts[v] : p.record.id = i) => i \in raced[v]
    BY DEF PutsAreCurrent
<1>3. CASE StoreNext(u)
    <2>1. CASE v # u  BY <1>2, <1>3, <2>1, StoreForward
    <2>2. CASE v = u
        <3>1. PICK p \in puts[u] :
                /\ puts'[u] = puts[u] \ {p}
                /\ rows'[u].held = rows[u].held \cup {p.record.id}
                /\ \A q \in puts[u] : q # p /\ q.record.id = p.record.id
                                        => p.record.id \in raced'[u]
                /\ \A i : i # p.record.id =>
                     /\ i \in rows'[u].deliveredAck <=> i \in rows[u].deliveredAck
                     /\ i \in rows'[u].readAck <=> i \in rows[u].readAck
                     /\ i \in rows'[u].deliveredAt <=> i \in rows[u].deliveredAt
                     /\ i \in rows'[u].readAt <=> i \in rows[u].readAt
            BY <1>3, StoreForward
        <3>2. UNCHANGED parked /\ raced[u] \subseteq raced'[u]  BY <1>3, StoreForward
        <3>3. ASSUME NEW q \in puts'[u], q.record.id \notin raced'[u]
              PROVE  Keeps(q.record, rows'[u])
            <4>1. q \in puts[u] /\ q # p /\ q.record.id # p.record.id  BY <3>1, <3>3
            <4>2. Keeps(q.record, rows[u])  BY <1>2, <2>2, <3>2, <3>3, <4>1
            <4> QED BY <3>1, <4>1, <4>2 DEF Keeps
        <3>4. ASSUME NEW i \in Waiting(parked'[u]),
                     i \in rows'[u].held \/ (\E q \in puts'[u] : q.record.id = i)
              PROVE  i \in raced'[u]
            BY <1>2, <2>2, <3>1, <3>2, <3>4
        <3> QED BY <2>2, <3>3, <3>4
    <2> QED BY <2>1, <2>2
<1>4. ASSUME NEW S, Writes(u, S)
      PROVE  /\ \A p \in puts'[v] :
                   p.record.id \notin raced'[v] => Keeps(p.record, rows'[v])
             /\ \A i \in Waiting(parked'[v]) :
                   i \in rows'[v].held \/ (\E p \in puts'[v] : p.record.id = i)
                      => i \in raced'[v]
    <2>1. CASE v # u
        <3>1. /\ Written(rows[v], rows'[v], {}) /\ parked'[v] = parked[v]
              /\ puts'[v] = puts[v] /\ raced'[v] = raced[v]
            BY <1>4, <2>1 DEF Writes
        <3> QED BY <1>2, <3>1 DEF Written, Keeps
    <2>2. CASE v = u
        <3>1. /\ Written(rows[u], rows'[u], S) /\ raced[u] \subseteq raced'[u]
              /\ \A i \in Waiting(parked'[u]) :
                    i \in Waiting(parked[u]) \/ i \in S \ rows[u].held
              /\ \A i \in S : (\E p \in puts[u] : p.record.id = i) => i \in raced'[u]
              /\ \A p \in puts'[u] : \/ p \in puts[u]
                                     \/ /\ Keeps(p.record, rows'[u])
                                        /\ p.record.id \notin Waiting(parked'[u])
            BY <1>4 DEF Writes
        <3>2. ASSUME NEW p \in puts'[u], p.record.id \notin raced'[u]
              PROVE  Keeps(p.record, rows'[u])
            <4>1. CASE p \in puts[u]
                <5>1. Keeps(p.record, rows[u]) /\ p.record.id \notin S
                    BY <1>2, <2>2, <3>1, <3>2, <4>1
                <5> QED BY <3>1, <5>1 DEF Keeps, Written
            <4> QED BY <3>1, <4>1
        <3>3. ASSUME NEW i \in Waiting(parked'[u]),
                     i \in rows'[u].held \/ (\E p \in puts'[u] : p.record.id = i)
              PROVE  i \in raced'[u]
            <4>1. i \in rows[u].held \/ (\E p \in puts[u] : p.record.id = i)
                BY <3>1, <3>3 DEF Written
            <4> QED BY <1>2, <2>2, <3>1, <4>1
        <3> QED BY <2>2, <3>2, <3>3
    <2> QED BY <2>1, <2>2
<1> QED BY <1>1, <1>3, <1>4

(* Of a message not written in the middle of a putMessage, no record about *)
(* to be put is behind its row.                                            *)
LEMMA PutsStayCurrent == Spec => []PutsAreCurrent
<1>1. Init => PutsAreCurrent
    BY DEF Init, PutsAreCurrent, Waiting, NothingParked
<1>2. IInv /\ PutsAreCurrent /\ [Next]_vars => PutsAreCurrent'
    <2>1. ASSUME IInv, PutsAreCurrent, Next  PROVE PutsAreCurrent'
        BY <2>1, CurrentNext DEF IInv
    <2>2. ASSUME PutsAreCurrent, UNCHANGED vars  PROVE PutsAreCurrent'
        BY <2>2 DEF PutsAreCurrent, Waiting, Keeps, vars
    <2> QED BY <2>1, <2>2
<1> QED BY <1>1, <1>2, Inductive, PTL DEF Spec

(* A receipt stays parked beside its row only when it was written between  *)
(* the get and the put of that row.                                        *)
THEOREM NothingStaysParked == Spec => []ParkedOnlyForMissing
<1>1. PutsAreCurrent => ParkedOnlyForMissing
    BY DEF PutsAreCurrent, Waiting, ParkedOnlyForMissing
<1> QED BY <1>1, PutsStayCurrent, PTL

-----------------------------------------------------------------------------
(* The ticks climb their ladder *)

(* What a device holds stays, what it has acknowledged and was told of a   *)
(* message comes down only if the message is in raced, which only grows.   *)
LEMMA ForwardNext ==
    ASSUME TypeOK, NoClaimRunsAhead, PutsAreCurrent, Next, NEW v \in Users
    PROVE  /\ rows[v].held \subseteq rows'[v].held
           /\ rows[v].deliveredAck \ rows'[v].deliveredAck \subseteq raced[v]
           /\ rows[v].readAck \ rows'[v].readAck \subseteq raced[v]
           /\ rows[v].deliveredAt \ rows'[v].deliveredAt \subseteq raced[v]
           /\ rows[v].readAt \ rows'[v].readAt \subseteq raced[v]
           /\ raced[v] \subseteq raced'[v]
<1>1. PICK u \in Users : StoreNext(u) \/ \E S : Writes(u, S)  BY NextWrites
<1>2. CASE StoreNext(u)
    <2>1. CASE v # u  BY <1>2, <2>1, StoreForward
    <2>2. CASE v = u  BY <1>2, <2>2, StoreForward
    <2> QED BY <2>1, <2>2
<1>3. ASSUME NEW S, Writes(u, S)
      PROVE  \E T : Written(rows[v], rows'[v], T) /\ raced[v] \subseteq raced'[v]
    BY <1>3 DEF Writes
<1>4. CASE \E S : Writes(u, S)
    <2>1. PICK T : Written(rows[v], rows'[v], T) /\ raced[v] \subseteq raced'[v]
        BY <1>3, <1>4
    <2> QED BY <2>1 DEF Written
<1> QED BY <1>1, <1>2, <1>4

(* What a device holds only grows, and what it has acknowledged and been   *)
(* told of a message comes down only if something was written of that      *)
(* message between the get and the put of a putMessage.                    *)
THEOREM OnlyForward == Spec => DeviceOnlyMovesForward
<1> DEFINE Forward ==
        \A u \in Users :
           /\ rows[u].held \subseteq rows'[u].held
           /\ \A f \in {"deliveredAck", "readAck", "deliveredAt", "readAt"} :
                 rows[u][f] \ rows'[u][f] \subseteq raced[u]
<1>1. ASSUME IInv, PutsAreCurrent, Next  PROVE Forward
    <2> SUFFICES ASSUME NEW v \in Users
                 PROVE  /\ rows[v].held \subseteq rows'[v].held
                        /\ \A f \in {"deliveredAck", "readAck", "deliveredAt", "readAt"} :
                              rows[v][f] \ rows'[v][f] \subseteq raced[v]
        OBVIOUS
    <2>1. /\ rows[v]["held"] \subseteq rows'[v]["held"]
          /\ rows[v]["deliveredAck"] \ rows'[v]["deliveredAck"] \subseteq raced[v]
          /\ rows[v]["readAck"] \ rows'[v]["readAck"] \subseteq raced[v]
          /\ rows[v]["deliveredAt"] \ rows'[v]["deliveredAt"] \subseteq raced[v]
          /\ rows[v]["readAt"] \ rows'[v]["readAt"] \subseteq raced[v]
        BY <1>1, ForwardNext DEF IInv
    <2> QED BY <2>1
<1>2. IInv /\ PutsAreCurrent /\ [Next]_vars => [Forward]_vars
    BY <1>1
<1> QED BY <1>2, Inductive, PutsStayCurrent, PTL DEF Spec, DeviceOnlyMovesForward

(* Only what the relay had stored is on a device after a step. *)
LEMMA HeldWasStored ==
    ASSUME IInv, Next, NEW v \in Users
    PROVE  rows'[v].held \subseteq Ids
<1>1. RowsAreGrounded /\ RowsAreGrounded'
    BY NextIInv DEF IInv
<1>2. CASE UNCHANGED log
    BY <1>1, <1>2 DEF RowsAreGrounded, Ids
<1>3. CASE UNCHANGED rows
    BY <1>1, <1>3 DEF RowsAreGrounded
<1>4. UNCHANGED log \/ UNCHANGED rows
    BY NextShape, ShapeKept, RowsKept, SendShape, SeenShape, ComposeShape, EchoShape,
       StoredShape DEF IInv
<1> QED BY <1>2, <1>3, <1>4

(* A step stamps a row only for what had happened before it. *)
LEMMA StampsWereTrue ==
    ASSUME IInv, Next, NEW v \in Users
    PROVE  rows'[v].deliveredAt \subseteq Arrived /\ rows'[v].readAt \subseteq Opened
<1>1. PICK I, A, O : I = Ids \cup Ids' /\ A = Arrived /\ O = Opened  OBVIOUS
<1>2. Covers(I, A, O)
    BY <1>1, OpenedHasArrived DEF Covers, IInv
<1>3. Supported(Ids, Arrived, Opened)
    BY SupportedIsNoClaimRunsAhead DEF IInv
<1>4. Supported(I, A, O)
    BY <1>1, <1>3
       DEF Supported, AllBacked, Backed, StampsBacked, PageBacked, EntryBacked, PutsBacked,
           RecordBacked
<1>5. Supported(I, A, O)'  BY <1>2, <1>4, SupportedNext DEF IInv
<1> QED BY <1>1, <1>5 DEF Supported, StampsBacked

(* Whoever sent a message is a user. *)
LEMMA SendersAreUsers == TypeOK => \A i \in Ids : SenderOf(i) \in Users
BY IdsType

(* The initial states map to the initial states of the ladder. *)
LEMMA LadderInit == Init => Ladder!Init
BY DEF Init, Ladder!Init, Ids, Arrived, Opened

(* Every step maps to a step of the ladder or to a stutter. *)
LEMMA LadderStep ==
    IInv /\ PutsAreCurrent /\ [Next]_vars => [Ladder!Next]_(Ladder!vars)
<1>1. ASSUME IInv, UNCHANGED vars  PROVE UNCHANGED Ladder!vars
    BY <1>1 DEF vars, Ladder!vars, Ids, Arrived, Opened, Recipient, SenderOf
<1>2. ASSUME IInv, PutsAreCurrent, Next  PROVE Ladder!Next
    <2>1. TypeOK /\ RowsAreGrounded /\ NoClaimRunsAhead /\ OnlySocketPutsSeen
        BY <1>2 DEF IInv
    <2>2. /\ Ids \subseteq Ids' /\ \A i \in Ids : log'[i] = log[i]
          /\ Ids' \subseteq Nat
        <3>1. TypeOK'  BY <1>2, NextIInv DEF IInv
        <3> QED BY <1>2, <2>1, <3>1, Growth DEF Ids, TypeOK
    <2>3. \A i \in Ids : /\ SenderOf(i)' = SenderOf(i) /\ Recipient(i)' = Recipient(i)
                         /\ SenderOf(i) \in Users /\ Recipient(i) \in Users
        BY <2>1, <2>2, IdsType, PeerType DEF Recipient, SenderOf
    <2>4. \A i \in Ids' : SenderOf(i)' \in Users /\ Recipient(i)' \in Users
        <3>1. TypeOK'  BY <1>2, NextIInv DEF IInv
        <3>2. (\A i \in Ids : SenderOf(i) \in Users)'  BY <3>1, SendersAreUsers, PTL
        <3> QED BY <3>2, PeerType DEF Recipient
    <2>5. \A v \in Users : /\ rows'[v].held \subseteq Ids
                           /\ rows'[v].deliveredAt \subseteq Arrived
                           /\ rows'[v].readAt \subseteq Opened
        BY <1>2, HeldWasStored, StampsWereTrue
    <2>6. \A v \in Users : /\ rows[v].held \subseteq rows'[v].held
                           /\ rows[v].deliveredAt \ rows'[v].deliveredAt \subseteq raced[v]
                           /\ rows[v].readAt \ rows'[v].readAt \subseteq raced[v]
                           /\ raced[v] \subseteq raced'[v]
        BY <1>2, <2>1, ForwardNext
    <2>7. Ladder!Happen
        <3>1. Arrived \subseteq Arrived' /\ Opened \subseteq Opened'
            BY <1>2, <2>1, ArrivedAndOpenedGrow
        <3>2. Arrived' \subseteq Ids
            BY <2>4, <2>5 DEF Arrived
        <3>3. (Opened \subseteq Arrived)'
            BY <1>2, NextIInv, OpenedHasArrived, PTL DEF IInv
        <3> QED BY <2>2, <3>1, <3>2, <3>3 DEF Ladder!Happen, Ladder!Grow
    <2>8. Ladder!Show
        <3> DEFINE one == {i \in Ids : i \in rows[SenderOf(i)].held}
                   two == {i \in Ids : i \in rows[SenderOf(i)].deliveredAt}
                   three == {i \in Ids : i \in rows[SenderOf(i)].readAt}
                   loose == {i \in Ids : i \in raced[SenderOf(i)]}
        <3>1. /\ one \subseteq one' /\ loose \subseteq loose'
              /\ two \ two' \subseteq loose /\ three \ three' \subseteq loose
            BY <2>2, <2>3, <2>6
        <3>2. one' \subseteq Ids /\ two' \subseteq Arrived /\ three' \subseteq Opened
            BY <2>4, <2>5
        <3>3. loose' \subseteq Ids'  OBVIOUS
        <3> QED BY <3>1, <3>2, <3>3 DEF Ladder!Show, Ladder!Grow, Ladder!Climb
    <2> QED BY <2>7, <2>8 DEF Ladder!Next
<1> QED BY <1>1, <1>2

(* The relay, the wire and the two devices implement the ladder: a step    *)
(* shows a tick only for what had happened before it, and takes one down   *)
(* only of a message the sender's device wrote twice at once.              *)
THEOREM ImplementsTheLadder == Spec => TicksClimbTheLadder
<1> QED BY LadderInit, LadderStep, Inductive, PutsStayCurrent, PTL
        DEF Spec, TicksClimbTheLadder, Ladder!Spec

-----------------------------------------------------------------------------
(* Backfill.  Half way through, a message that was asked for is on the     *)
(* device, on the page being stored, or older than the page while there is *)
(* more to fetch.  It rests on the shape of a page, which nobody sorts:    *)
(* what is not on it is older than all of it, or the page is not full.     *)

CoversSoFar(f, held) ==
    /\ f.more => f.before \in Ids
    /\ \A i \in (f.since + 1) .. f.top :
          i \in held \/ (\E m \in f.page : m.id = i) \/ (f.more /\ i < f.before)

PagesCover ==
    \A u \in Users, t \in Tasks :
        pc[u][t] = "store" => CoversSoFar(fetch[u][t], rows[u].held)

(* A page holds the newest messages before a point, PageSize at most and   *)
(* all of them unless it is full.                                          *)
LEMMA PageIsNewest ==
    ASSUME TypeOK, NEW before \in Nat
    PROVE  LET data == get_messages(before)
           IN  /\ data \subseteq Ids /\ Cardinality(data) <= PageSize
               /\ \A i \in data, j \in Ids : j > i /\ (before = 0 \/ j < before) => j \in data
               /\ \A i \in Ids \ data :
                     before = 0 \/ i < before => Cardinality(data) >= PageSize
<1> DEFINE older == {i \in Ids : before = 0 \/ i < before}
           above(i) == {j \in older : j > i}
           data == {i \in older : Cardinality(above(i)) < PageSize}
<1>1. Len(log) \in Nat /\ Ids = 1 .. Len(log) /\ PageSize \in Nat \ {0}
    BY BoundsAssumption DEF TypeOK, Ids
<1>2. data = get_messages(before)  BY DEF get_messages
<1>3. IsFiniteSet(older) /\ older \subseteq Nat
    <2>1. IsFiniteSet(Ids)  BY <1>1, FS_Interval
    <2> QED BY <1>1, <2>1, FS_Subset
<1>4. \A i \in older : IsFiniteSet(above(i)) /\ Cardinality(above(i)) \in Nat
    BY <1>3, FS_Subset, FS_CardinalityType
<1>5. \A i \in data, j \in older : j > i => j \in data
    <2> SUFFICES ASSUME NEW i \in data, NEW j \in older, j > i
                 PROVE  Cardinality(above(j)) < PageSize
        OBVIOUS
    <2>1. above(j) \subseteq above(i)  BY <1>3
    <2>2. Cardinality(above(j)) <= Cardinality(above(i))  BY <1>4, <2>1, FS_Subset
    <2> HIDE DEF above
    <2> QED BY <1>1, <1>4, <2>2
<1>6. ASSUME NEW i \in older \ data  PROVE Cardinality(data) >= PageSize
    <2> DEFINE out == older \ data
    <2>1. Max(out) \in out /\ \A j \in out : j <= Max(out)
        <3>1. older \subseteq 0 .. Len(log)  BY <1>1
        <3> HIDE DEF older, data
        <3>2. out \in SUBSET (0 .. Len(log)) /\ out # {}  BY <1>6, <3>1
        <3> HIDE DEF out
        <3> QED BY <1>1, <3>2, MaxIsGreatest
    <2> DEFINE last == Max(out)
    <2>2. above(last) \subseteq data
        <3>1. ASSUME NEW j \in older, j > last  PROVE j \in data
            <4>1. last \in Nat /\ j \in Nat  BY <1>3, <2>1
            <4>2. j \in out => j <= last  BY <2>1
            <4> HIDE DEF data, last, older
            <4> QED BY <3>1, <4>1, <4>2
        <3> HIDE DEF data, last, older
        <3> QED BY <3>1
    <2>3. ~ (Cardinality(above(last)) < PageSize)  BY <2>1
    <2>4. IsFiniteSet(data) /\ Cardinality(data) \in Nat
        BY <1>3, FS_Subset, FS_CardinalityType
    <2>5. Cardinality(above(last)) <= Cardinality(data)  BY <2>2, <2>4, FS_Subset
    <2>6. Cardinality(above(last)) \in Nat  BY <1>4, <2>1
    <2> HIDE DEF last, above, data
    <2> QED BY <1>1, <2>3, <2>4, <2>5, <2>6
<1>7. Cardinality(data) <= PageSize
    <2>1. IsFiniteSet(data)  BY <1>3, FS_Subset
    <2>2. CASE data = {}
        <3> HIDE DEF data
        <3> QED BY <1>1, <2>2, FS_EmptySet
    <2>3. CASE data # {}
        <3> DEFINE first == Min(data)
        <3>1. first \in data /\ \A j \in data : first <= j  BY <1>3, <2>3, MinIsLeast
        <3>2. data \ {first} \subseteq above(first)
            <4>1. ASSUME NEW j \in data, j # first  PROVE j \in older /\ j > first
                <5>1. j \in Nat /\ first \in Nat /\ first <= j  BY <1>3, <3>1
                <5> HIDE DEF first
                <5> QED BY <4>1, <5>1
            <4> HIDE DEF first, data, older
            <4> QED BY <4>1
        <3>3. Cardinality(above(first)) < PageSize  BY <3>1
        <3> HIDE DEF data, first
        <3>4. IsFiniteSet(above(first)) /\ Cardinality(above(first)) \in Nat
            BY <1>4, <3>1 DEF data
        <3> HIDE DEF above
        <3>5. Cardinality(data \ {first}) <= Cardinality(above(first))
            BY <3>2, <3>4, FS_Subset
        <3>6. Cardinality(data \ {first}) = Cardinality(data) - 1
            BY <2>1, <3>1, FS_RemoveElement
        <3> QED BY <1>1, <2>1, <3>3, <3>4, <3>5, <3>6, FS_CardinalityType
    <2> QED BY <2>2, <2>3
<1> HIDE DEF above
<1> QED BY <1>1, <1>2, <1>5, <1>6, <1>7

(* What one more page leaves uncovered is older than it.                   *)
LEMMA HistoryCovers ==
    ASSUME TypeOK, NEW since \in Nat, NEW before \in Nat, NEW top \in Nat,
           before \in Ids \/ (before = 0 /\ top <= Len(log))
    PROVE  LET got == getHistory(since, before, top)
           IN  /\ got.since = since /\ got.top = top
               /\ got.more => got.before \in Ids
               /\ \A i \in (since + 1) .. top :
                     before = 0 \/ i < before =>
                        (\E m \in got.page : m.id = i) \/ (got.more /\ i < got.before)
<1> DEFINE data == get_messages(before)
           new == {i \in data : i > since}
           got == getHistory(since, before, top)
<1>1. Len(log) \in Nat /\ Ids = 1 .. Len(log) /\ PageSize \in Nat \ {0}
    BY BoundsAssumption DEF TypeOK, Ids
<1>2. /\ data \subseteq Ids /\ Cardinality(data) <= PageSize
      /\ \A i \in data, j \in Ids : j > i /\ (before = 0 \/ j < before) => j \in data
      /\ \A i \in Ids \ data :
            before = 0 \/ i < before => Cardinality(data) >= PageSize
    BY PageIsNewest
<1>3. /\ got.since = since /\ got.top = top
      /\ got.before = IF data = {} THEN 0 ELSE Min(data)
      /\ got.more <=> new = data /\ Cardinality(data) = PageSize
      /\ got.page = {[id |-> i, delivered |-> i \in delivered, read |-> i \in read] : i \in new}
    BY DEF getHistory
<1>4. \A i \in new : \E m \in got.page : m.id = i
    <2> SUFFICES ASSUME NEW i \in new  PROVE \E m \in got.page : m.id = i
        OBVIOUS
    <2>1. [id |-> i, delivered |-> i \in delivered, read |-> i \in read] \in got.page
        BY <1>3
    <2> QED BY <2>1
<1> HIDE DEF data, got
<1>5. data # {} => Min(data) \in data /\ \A y \in data : Min(data) <= y
    BY <1>1, <1>2, MinIsLeast
<1>6. got.more => got.before \in Ids
    <2>1. data = {} => Cardinality(data) = 0  BY FS_EmptySet
    <2> QED BY <1>1, <1>2, <1>3, <1>5, <2>1
<1>7. Cardinality(data) \in Nat
    <2>1. IsFiniteSet(Ids)  BY <1>1, FS_Interval
    <2> QED BY <1>2, <2>1, FS_Subset, FS_CardinalityType
<1>8. ASSUME NEW i \in (since + 1) .. top, before = 0 \/ i < before, i \notin data
      PROVE  got.more /\ i < got.before
    <2>1. i \in Ids  BY <1>1, <1>8
    <2>2. new = data
        <3> SUFFICES ASSUME NEW j \in data, ~ (j > since)  PROVE FALSE
            OBVIOUS
        <3> QED BY <1>1, <1>2, <1>8, <2>1
    <2>3. Cardinality(data) >= PageSize  BY <1>2, <1>8, <2>1
    <2>4. got.more  BY <1>1, <1>2, <1>3, <1>7, <2>2, <2>3
    <2>5. data # {}
        <3>1. data = {} => Cardinality(data) = 0  BY FS_EmptySet
        <3> QED BY <1>1, <2>3, <3>1
    <2>6. Min(data) \in Ids /\ i # Min(data) /\ ~ (i > Min(data))
        BY <1>2, <1>5, <1>8, <2>1, <2>5
    <2> QED BY <1>1, <1>3, <2>1, <2>4, <2>5, <2>6
<1>9. ASSUME NEW i \in (since + 1) .. top, i \in data  PROVE i \in new
    BY <1>1, <1>2, <1>9
<1> QED BY <1>3, <1>4, <1>6, <1>8, <1>9 DEF got

(* Only the steps of a backfill move it on; a task that is storing a page  *)
(* after any other step was storing it before.                             *)
LEMMA OthersKeepFetch ==
    ASSUME TypeOK, Next, NEW v \in Users, NEW t \in Tasks, pc'[v][t] = "store"
    PROVE  \/ pc[v][t] = "store" /\ fetch'[v][t] = fetch[v][t]
           \/ BackfillStart(v, t) \/ BackfillPut(v, t) \/ BackfillMore(v, t)
<1> DEFINE Same == pc[v][t] = "store" /\ fetch'[v][t] = fetch[v][t]
<1>1. PICK u \in Users :
        \/ RelayNext(u) \/ ReceiveNext(u) \/ StoreNext(u) \/ HandlerNext(u)
        \/ ReconcileNext(u) \/ LoadNext(u)
        \/ Connect(u) \/ Subscribe(u) \/ Timer(u)
        \/ UserNext(u) \/ FaultNext(u)
    BY DEF Next
<1>2. /\ pc \in [Users -> [Tasks -> Stages]] /\ fetch \in [Users -> [Tasks -> Fetches]]
      /\ Tasks = {"reconcile", "chat"}
    BY DEF TypeOK, Tasks
<1>3. ASSUME UNCHANGED <<pc, fetch>>  PROVE Same  BY <1>3
<1>4. ASSUME NEW task \in Tasks, NEW where, where # "store", goto(u, task, where),
             \/ UNCHANGED fetch
             \/ \E f : fetch' = [fetch EXCEPT ![u][task] = f]
      PROVE  Same
    BY <1>2, <1>4 DEF goto
<1>5. ASSUME reconcileRealtime(u), UNCHANGED fetch  PROVE Same
    BY <1>2, <1>5 DEF reconcileRealtime
<1> DEFINE Moves == BackfillStart(v, t) \/ BackfillPut(v, t) \/ BackfillMore(v, t)
<1>6. ASSUME NEW task \in Tasks, BackfillNext(u, task) \/ BackfillPut(u, task)
      PROVE  Same \/ Moves
    <2>1. CASE BackfillStart(u, task) /\ (u # v \/ task # t)
        <3>1. PICK f : fetch' = [fetch EXCEPT ![u][task] = f]  BY <2>1 DEF BackfillStart
        <3> QED BY <1>2, <2>1, <3>1 DEF BackfillStart, goto
    <2>2. CASE (BackfillPut(u, task) \/ BackfillMore(u, task)) /\ (u # v \/ task # t)
        <3>1. PICK f : fetch' = [fetch EXCEPT ![u][task] = f]
            BY <1>2, <2>2 DEF BackfillPut, BackfillMore
        <3>2. UNCHANGED pc  BY <2>2 DEF BackfillPut, BackfillMore
        <3> QED BY <1>2, <2>2, <3>1, <3>2
    <2>3. CASE BackfillGet(u, task)  BY <1>3, <2>3 DEF BackfillGet
    <2>4. CASE u = v /\ task = t /\ ~ BackfillGet(u, task)
        BY <1>6, <2>4 DEF BackfillNext
    <2> QED BY <1>6, <2>1, <2>2, <2>3, <2>4 DEF BackfillNext
<1>7. CASE RelayNext(u)
    BY <1>3, <1>7 DEF RelayNext, RelaySend, RelayDelivered, RelayRead, memoryVars
<1>8. CASE ReceiveNext(u)
    BY <1>3, <1>8 DEF ReceiveNext, ReceiveMessage, ReceiveDelivered, ReceiveRead
<1>9. CASE HandlerNext(u) \/ StoreReceived(u)
    BY <1>3, <1>9 DEF HandlerNext, HandleStored, HandleSeen, HandleRead, StoreReceived
<1>10. CASE SendBacklog(u)
    BY <1>2, <1>4, <1>10 DEF SendBacklog
<1>11. CASE ApplyReceipts(u)
    BY <1>2, <1>4, <1>11 DEF ApplyReceipts, finishReconcile
<1>12. CASE LoadDone(u)
    BY <1>2, <1>4, <1>12 DEF LoadDone, finishLoading
<1>13. CASE Connect(u) \/ Subscribe(u) \/ Timer(u)
    BY <1>3, <1>5, <1>13 DEF Connect, Subscribe, Timer, memoryVars
<1>14. CASE UserNext(u)
    <2>1. CASE OpenChat(u)
        BY <1>2, <2>1 DEF OpenChat
    <2>2. CASE Refocus(u) \/ LeaveChat(u) \/ \E d \in Drafts : Compose(u, d)
        BY <1>3, <2>2 DEF Refocus, LeaveChat, Compose
    <2> QED BY <1>14, <2>1, <2>2 DEF UserNext
<1>15. CASE Reload(u)
    BY <1>2, <1>15 DEF Reload, Bootstrapping
<1>16. CASE ReconcileFails(u)
    BY <1>2, <1>4, <1>16 DEF ReconcileFails, finishReconcile
<1>17. CASE LoadFails(u)
    BY <1>2, <1>4, <1>17 DEF LoadFails, finishLoading
<1>18. CASE RelayReject(u) \/ RelayLag(u) \/ Drop(u) \/ TimerInPass(u)
    BY <1>3, <1>5, <1>18 DEF RelayReject, RelayLag, Drop, TimerInPass, memoryVars
<1> QED
    BY <1>1, <1>2, <1>6, <1>7, <1>8, <1>9, <1>10, <1>11, <1>12, <1>13, <1>14, <1>15, <1>16,
       <1>17, <1>18 DEF ReconcileNext, LoadNext, FaultNext, StoreNext

(* Every step keeps the pages covering: a row that was stored stays, a     *)
(* page that is fetched leaves out only what is older.                     *)
LEMMA CoversNext ==
    ASSUME IInv, PagesCover, Next
    PROVE  PagesCover'
<1> SUFFICES ASSUME NEW v \in Users, NEW t \in Tasks, pc'[v][t] = "store"
             PROVE  CoversSoFar(fetch[v][t], rows[v].held)'
    BY DEF PagesCover
<1>1. /\ TypeOK /\ RowsAreGrounded /\ fetch[v][t] \in Fetches
      /\ fetch \in [Users -> [Tasks -> Fetches]]
    BY DEF IInv, TypeOK
<1>2. /\ Len(log) \in Nat /\ Ids \subseteq Nat /\ Ids \subseteq Ids'
      /\ rows[v].held \subseteq rows'[v].held
    BY <1>1, IdsType, Growth DEF IInv
<1> DEFINE f == fetch[v][t]
<1>3. f.since \in Nat /\ f.before \in Nat /\ f.top \in Nat  BY <1>1 DEF Fetches
<1>4. CASE pc[v][t] = "store" /\ fetch'[v][t] = f
    BY <1>2, <1>4 DEF PagesCover, CoversSoFar
<1>5. CASE BackfillStart(v, t)
    <2> DEFINE since == HighWaterMark(v)
    <2>1. since \in Nat  BY <1>1, HighWaterMarkType
    <2>2. fetch'[v][t] = getHistory(since, 0, Len(log))  BY <1>1, <1>5 DEF BackfillStart
    <2> HIDE DEF since
    <2>3. PICK got : got = getHistory(since, 0, Len(log))  OBVIOUS
    <2>4. /\ got.since = since /\ got.top = Len(log)
          /\ got.more => got.before \in Ids
          /\ \A i \in (since + 1) .. Len(log) :
                (\E m \in got.page : m.id = i) \/ (got.more /\ i < got.before)
        <3>1. 0 \in Nat /\ Len(log) \in Nat /\ (0 = 0 /\ Len(log) <= Len(log))  BY <1>2
        <3> QED BY ONLY <1>1, <2>1, <2>3, <3>1, HistoryCovers
    <2> QED BY <1>2, <2>2, <2>3, <2>4 DEF CoversSoFar
<1>6. CASE BackfillPut(v, t)
    <2>1. pc[v][t] = "store"  BY <1>6 DEF BackfillPut
    <2>2. PICK p \in puts[v] :
             /\ store(v, p)
             /\ fetch' = [fetch EXCEPT ![v][t].page = {m \in @ : m.id # p.record.id}]
        BY <1>6 DEF BackfillPut
    <2>3. fetch'[v][t] = [f EXCEPT !.page = {m \in @ : m.id # p.record.id}]
        BY <1>1, <2>2
    <2>4. p.record.id \in rows'[v].held
        <3>1. rows[v] \in Rows  BY <1>1 DEF TypeOK
        <3> QED BY <1>1, <2>2, <3>1, StoreEffect, PutRow
    <2>5. /\ fetch'[v][t].since = f.since /\ fetch'[v][t].top = f.top
          /\ fetch'[v][t].more = f.more /\ fetch'[v][t].before = f.before
          /\ fetch'[v][t].page = {m \in f.page : m.id # p.record.id}
        BY <1>1, <2>3 DEF Fetches
    <2> QED BY <1>2, <2>1, <2>4, <2>5 DEF PagesCover, CoversSoFar
<1>7. CASE BackfillMore(v, t)
    <2>1. pc[v][t] = "store" /\ f.page = {} /\ f.more  BY <1>7 DEF BackfillMore
    <2>2. fetch'[v][t] = getHistory(f.since, f.before, f.top)
        BY <1>1, <1>7 DEF BackfillMore
    <2>3. /\ f.before \in Ids
          /\ \A i \in (f.since + 1) .. f.top : i \in rows[v].held \/ i < f.before
        BY <2>1 DEF PagesCover, CoversSoFar
    <2>4. PICK got : got = getHistory(f.since, f.before, f.top)  OBVIOUS
    <2> HIDE DEF f
    <2>5. /\ got.since = f.since /\ got.top = f.top
          /\ got.more => got.before \in Ids
          /\ \A i \in (f.since + 1) .. f.top :
                i < f.before => (\E m \in got.page : m.id = i) \/ (got.more /\ i < got.before)
        BY <1>1, <1>3, <2>3, <2>4, HistoryCovers
    <2> QED BY <1>2, <2>2, <2>3, <2>4, <2>5 DEF CoversSoFar
<1> QED BY <1>1, <1>4, <1>5, <1>6, <1>7, OthersKeepFetch

(* A backfill that completes leaves the device with all that the relay had *)
(* when it began and that is newer than its high-water mark: for any page  *)
(* size, any history, and whatever the socket and the other backfill store *)
(* meanwhile.                                                              *)
THEOREM BackfillFetchesAll == Spec => []BackfillCovers
<1>1. Init => PagesCover  BY DEF Init, PagesCover, IdleTasks, Tasks
<1>2. IInv /\ PagesCover /\ [Next]_vars => PagesCover'
    <2>1. ASSUME IInv, PagesCover, Next  PROVE PagesCover'
        BY <2>1, CoversNext
    <2>2. ASSUME PagesCover, UNCHANGED vars  PROVE PagesCover'
        BY <2>2 DEF PagesCover, CoversSoFar, vars, Ids
    <2> QED BY <2>1, <2>2
<1>3. IInv /\ PagesCover => BackfillCovers
    BY DEF IInv, PagesCover, CoversSoFar, BackfillCovers, backfilled
<1> QED BY <1>1, <1>2, <1>3, Inductive, PTL DEF Spec
=============================================================================
