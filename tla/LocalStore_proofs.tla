-------------------------- MODULE LocalStore_proofs --------------------------
(***************************************************************************)
(* Proofs about LocalStore, for any messages, any backfills and a queue of *)
(* any length.  The order in which transactions run is all that ties a     *)
(* writer's get to its put and a sweep's ids to their marking, so the      *)
(* first part is about the queue: a writer and a sweep have at most one    *)
(* transaction in it, and only while they wait for one (Queued).           *)
(***************************************************************************)
EXTENDS LocalStore, TLAPS

(* The places in a queue of transactions of these kinds, of x.             *)
Is(t, kinds, x) == t.kind \in kinds /\ t.of = x
Places(q, kinds, x) == {i \in DOMAIN q : Is(q[i], kinds, x)}
Absent(q, kinds, x) == Places(q, kinds, x) = {}
Single(q, kinds, x) == \A i, j \in Places(q, kinds, x) : i = j

Access == {"delete", "get", "put"}
Sweeping == {"collect", "mark"}

-----------------------------------------------------------------------------
(* The queue *)

LEMMA AppendPlaces ==
    ASSUME NEW T, NEW q \in Seq(T), NEW t \in T, NEW kinds, NEW x
    PROVE  /\ Append(q, t) \in Seq(T)
           /\ Absent(q, kinds, x) /\ ~Is(t, kinds, x) => Absent(Append(q, t), kinds, x)
           /\ Single(q, kinds, x) /\ ~Is(t, kinds, x) => Single(Append(q, t), kinds, x)
           /\ Absent(q, kinds, x) => Single(Append(q, t), kinds, x)
<1>1. /\ Append(q, t) \in Seq(T) /\ Len(Append(q, t)) = Len(q) + 1
      /\ \A i \in 1..Len(q) : Append(q, t)[i] = q[i]
      /\ Append(q, t)[Len(q) + 1] = t
  OBVIOUS
<1>2. DOMAIN q = 1..Len(q) /\ DOMAIN Append(q, t) = 1..(Len(q) + 1) /\ Len(q) \in Nat
  BY <1>1
<1>3. \A i \in Places(Append(q, t), kinds, x) :
        i \in Places(q, kinds, x) \/ (i = Len(q) + 1 /\ Is(t, kinds, x))
  BY <1>1, <1>2 DEF Places
<1> QED BY <1>1, <1>3 DEF Absent, Single

LEMMA TailPlaces ==
    ASSUME NEW T, NEW q \in Seq(T), q # <<>>, NEW kinds, NEW x
    PROVE  /\ Tail(q) \in Seq(T) /\ Head(q) \in T
           /\ Absent(q, kinds, x) => Absent(Tail(q), kinds, x) /\ ~Is(Head(q), kinds, x)
           /\ Single(q, kinds, x) => Single(Tail(q), kinds, x)
           /\ Single(q, kinds, x) /\ Is(Head(q), kinds, x) => Absent(Tail(q), kinds, x)
<1>1. /\ Tail(q) \in Seq(T) /\ Len(Tail(q)) = Len(q) - 1 /\ Head(q) = q[1]
      /\ \A i \in 1..(Len(q) - 1) : Tail(q)[i] = q[i + 1]
      /\ Len(q) \in Nat /\ Len(q) > 0
  OBVIOUS
<1>2. DOMAIN q = 1..Len(q) /\ DOMAIN Tail(q) = 1..(Len(q) - 1)
  BY <1>1
<1>3. \A i \in Places(Tail(q), kinds, x) : i \in Nat /\ i > 0 /\ i + 1 \in Places(q, kinds, x)
  BY <1>1, <1>2 DEF Places
<1>4. Is(Head(q), kinds, x) => 1 \in Places(q, kinds, x)
  BY <1>1, <1>2 DEF Places
<1>5. Head(q) \in T
  BY <1>1, <1>2
<1>6. Absent(q, kinds, x) => Absent(Tail(q), kinds, x) /\ ~Is(Head(q), kinds, x)
  BY <1>3, <1>4 DEF Absent
<1>7. Single(q, kinds, x) => Single(Tail(q), kinds, x)
  <2> SUFFICES ASSUME Single(q, kinds, x), NEW i \in Places(Tail(q), kinds, x),
                      NEW j \in Places(Tail(q), kinds, x)
               PROVE  i = j
    BY DEF Single
  <2>1. i + 1 = j + 1 /\ i \in Nat /\ j \in Nat
    BY <1>3 DEF Single
  <2> QED BY <2>1
<1>8. Single(q, kinds, x) /\ Is(Head(q), kinds, x) => Absent(Tail(q), kinds, x)
  <2> SUFFICES ASSUME Single(q, kinds, x), Is(Head(q), kinds, x),
                      NEW i \in Places(Tail(q), kinds, x)
               PROVE  FALSE
    BY DEF Absent
  <2>1. i + 1 = 1 /\ i \in Nat /\ i > 0
    BY <1>3, <1>4 DEF Single
  <2> QED BY <2>1
<1> QED BY <1>1, <1>5, <1>6, <1>7, <1>8

-----------------------------------------------------------------------------
(* Types *)

Typed ==
    /\ pending \subseteq Mine /\ arrived \subseteq Messages /\ shown \subseteq Messages
    /\ rows \in [Messages -> Row]
    /\ parked \in [Messages -> Stamps] /\ told \in [Messages -> Stamps]
    /\ events \subseteq Mine \X Receipts
    /\ calls \in [Writers -> [busy : BOOLEAN, message : Messages \cup {0}, seen : BOOLEAN,
                              given : Stamps, row : Row]]
    /\ \A w \in Writers : calls[w].busy <=> calls[w].message \in Messages
    /\ \A m \in Messages, f \in Receipts : told[m][f] => m \in Mine
    /\ pages \in [Backfills -> SUBSET [message : Messages, given : Stamps]]
    /\ sweeps \in [Acks -> [step : {"idle", "read", "send", "mark"}, ids : SUBSET Theirs]]
    /\ sent \in [Acks -> SUBSET Theirs]
    /\ reloads \in 0 .. MaxReloads

(* Who waits for a transaction has one in the queue and nobody else has;   *)
(* a receipt in it is one the relay has told.                              *)
WritersWait ==
    \A w \in Writers : Single(queue, Access, w) /\ (calls[w].busy \/ Absent(queue, Access, w))
SweepsWait ==
    \A f \in Acks :
        /\ Single(queue, Sweeping, <<f, 0>>)
        /\ sweeps[f].step = "read" \/ Absent(queue, {"collect"}, <<f, 0>>)
        /\ sweeps[f].step = "mark" \/ Absent(queue, {"mark"}, <<f, 0>>)
ReceiptsTold ==
    \A m \in Messages, f \in Receipts : told[m][f] \/ Absent(queue, {"stamp"}, <<f, m>>)
EventsTold == \A m \in Messages, f \in Receipts : <<m, f>> \in events => told[m][f]
HandlersOnce == \A m \in Messages : m \notin arrived => ~calls[Handler(m)].busy
Queued ==
    /\ queue \in Seq(Transactions)
    /\ WritersWait /\ SweepsWait /\ ReceiptsTold /\ EventsTold /\ HandlersOnce

LEMMA CreateMoves ==
    ASSUME queue \in Seq(Transactions), NEW t \in Transactions, Create(t), NEW kinds, NEW x
    PROVE  /\ queue' \in Seq(Transactions)
           /\ Absent(queue, kinds, x) /\ ~Is(t, kinds, x) => Absent(queue', kinds, x)
           /\ Single(queue, kinds, x) /\ ~Is(t, kinds, x) => Single(queue', kinds, x)
           /\ Absent(queue, kinds, x) => Single(queue', kinds, x)
BY AppendPlaces DEF Create

LEMMA DoneMoves ==
    ASSUME queue \in Seq(Transactions), NEW t, Runs(t), Done, NEW kinds, NEW x
    PROVE  /\ queue' \in Seq(Transactions)
           /\ Absent(queue, kinds, x) => Absent(queue', kinds, x)
           /\ Single(queue, kinds, x) => Single(queue', kinds, x)
           /\ Single(queue, kinds, x) /\ Is(t, kinds, x) => Absent(queue', kinds, x)
BY TailPlaces DEF Runs, Done

LEMMA ThenMoves ==
    ASSUME queue \in Seq(Transactions), NEW t, Runs(t), NEW u \in Transactions, DoneThen(u),
           NEW kinds, NEW x
    PROVE  /\ queue' \in Seq(Transactions)
           /\ Absent(queue, kinds, x) /\ ~Is(u, kinds, x) => Absent(queue', kinds, x)
           /\ Single(queue, kinds, x) /\ ~Is(u, kinds, x) => Single(queue', kinds, x)
           /\ Single(queue, kinds, x) /\ Is(t, kinds, x) => Single(queue', kinds, x)
<1>1. /\ Tail(queue) \in Seq(Transactions)
      /\ Absent(queue, kinds, x) => Absent(Tail(queue), kinds, x)
      /\ Single(queue, kinds, x) => Single(Tail(queue), kinds, x)
      /\ Single(queue, kinds, x) /\ Is(t, kinds, x) => Absent(Tail(queue), kinds, x)
  BY TailPlaces DEF Runs
<1> QED BY <1>1, AppendPlaces DEF DoneThen

(* What is run is what somebody waits for.                                 *)
LEMMA RunIsAwaited ==
    ASSUME Queued, NEW t, Runs(t)
    PROVE  /\ t \in Transactions
           /\ \A w \in Writers : Is(t, Access, w) => calls[w].busy
           /\ \A f \in Acks : /\ Is(t, {"collect"}, <<f, 0>>) => sweeps[f].step = "read"
                             /\ Is(t, {"mark"}, <<f, 0>>) => sweeps[f].step = "mark"
           /\ \A m \in Messages, f \in Receipts : Is(t, {"stamp"}, <<f, m>>) => told[m][f]
<1>1. \A kinds, x : Absent(queue, kinds, x) => ~Is(t, kinds, x)
  BY TailPlaces DEF Runs, Queued
<1>2. t \in Transactions
  BY TailPlaces DEF Runs, Queued
<1> QED BY <1>1, <1>2 DEF Queued, WritersWait, SweepsWait, ReceiptsTold

(* What a transaction does to one row.                                     *)
LEMMA SeenRow ==
    ASSUME NEW r \in Row, NEW s, s = [r EXCEPT !.seen = TRUE]
    PROVE  /\ s \in Row /\ s.seen
           /\ s.deliveredAck = r.deliveredAck /\ s.readAck = r.readAck
           /\ s.deliveredAt = r.deliveredAt /\ s.readAt = r.readAt
BY DEF Row

LEMMA AckedRow ==
    ASSUME NEW r \in Row, NEW f \in Acks, NEW s, s = [r EXCEPT ![f] = TRUE]
    PROVE  /\ s \in Row /\ s.seen = r.seen
           /\ s.deliveredAt = r.deliveredAt /\ s.readAt = r.readAt
           /\ f = "deliveredAck" \/ s.deliveredAck = r.deliveredAck
           /\ f = "readAck" \/ s.readAck = r.readAck
<1>1. CASE f = "deliveredAck"
  BY <1>1 DEF Row
<1>2. CASE f = "readAck"
  BY <1>2 DEF Row
<1> QED BY <1>1, <1>2 DEF Acks

Stamped(r, f) == [r EXCEPT ![f] = TRUE, !.deliveredAt = TRUE]

LEMMA StampedRow ==
    ASSUME NEW r \in Row, NEW f \in Receipts, NEW s, s = Stamped(r, f)
    PROVE  /\ s \in Row /\ s.seen = r.seen
           /\ s.deliveredAck = r.deliveredAck /\ s.readAck = r.readAck
           /\ f = "readAt" \/ s.readAt = r.readAt
<1>1. CASE f = "deliveredAt"
  BY <1>1 DEF Row, Stamped
<1>2. CASE f = "readAt"
  BY <1>2 DEF Row, Stamped
<1> QED BY <1>1, <1>2 DEF Receipts

LEMMA StampedPark ==
    ASSUME NEW s \in Stamps, NEW f \in Receipts, NEW u, u = [s EXCEPT ![f] = TRUE]
    PROVE  /\ u \in Stamps
           /\ f = "deliveredAt" \/ u.deliveredAt = s.deliveredAt
           /\ f = "readAt" \/ u.readAt = s.readAt
<1>1. CASE f = "deliveredAt"
  BY <1>1 DEF Stamps
<1>2. CASE f = "readAt"
  BY <1>2 DEF Stamps
<1> QED BY <1>1, <1>2 DEF Receipts

(* The rows that a stamp, an opened chat and a sweep leave behind.         *)
LEMMA RowsStamped ==
    ASSUME rows \in [Messages -> Row], NEW m \in Messages, NEW f \in Receipts, RunStamp(m, f)
    PROVE  \A n \in Messages :
               \/ rows'[n] = rows[n]
               \/ n = m /\ rows'[n] = Stamped(rows[n], f)
<1>1. \/ rows' = rows
      \/ rows' = [rows EXCEPT ![m][f] = TRUE, ![m].deliveredAt = TRUE]
  BY DEF RunStamp
<1>2. [rows EXCEPT ![m][f] = TRUE, ![m].deliveredAt = TRUE]
        = [rows EXCEPT ![m] = Stamped(@, f)]
  BY DEF Stamped
<1> QED BY <1>1, <1>2

LEMMA Members ==
    /\ \A m \in Messages : Handler(m) \in Writers /\ m # 0
    /\ Backfills \subseteq Writers /\ Mine \subseteq Messages /\ 0 \notin Messages
BY MessagesAssumption DEF Writers

LEMMA TypedInit == Init => Typed
BY BoundsAssumption, Members 
   DEF Init, Typed, Row, Stamps, Nothing, NoRow, NoCall, NoSweep, Acks, Theirs, Receipts

LEMMA TypedStep == Typed /\ Queued /\ [Next]_vars => Typed'
<1> SUFFICES ASSUME Typed, Queued, [Next]_vars PROVE Typed'
  OBVIOUS
<1> USE Members
<1>1. ASSUME NEW w \in Writers, RunDelete(w) PROVE Typed'
  BY <1>1 DEF RunDelete, disk, memory, world, history, Typed, Row, Stamps, Acks, Receipts, Theirs
<1>2. ASSUME NEW w \in Writers, RunGet(w) PROVE Typed'
  <2> DEFINE m == calls[w].message
             r == merged(calls[w], rows[m], parked[m])
  <2>1. calls[w].busy /\ m \in Messages
    BY <1>2, RunIsAwaited DEF RunGet, Is, Get, Access, Typed
  <2>2. r \in Row
    BY <2>1 DEF Typed, Row, Stamps, merged
  <2>3. calls' = [calls EXCEPT ![w].row = r] /\ parked' = [parked EXCEPT ![m] = Nothing]
        /\ UNCHANGED <<disk, pages, sweeps, world, history>>
    BY <1>2 DEF RunGet
  <2> HIDE DEF r, m
  <2>4. parked' \in [Messages -> Stamps]
    BY <2>3 DEF Typed, Stamps, Nothing
  <2>5. /\ calls' \in [Writers -> [busy : BOOLEAN, message : Messages \cup {0}, seen : BOOLEAN,
                                  given : Stamps, row : Row]]
        /\ \A v \in Writers : calls'[v].busy <=> calls'[v].message \in Messages
    BY <2>2, <2>3 DEF Typed
  <2> QED BY <2>3, <2>4, <2>5 DEF Typed, disk, world, history
<1>3. ASSUME NEW w \in Writers, RunPut(w) PROVE Typed'
  <2>1. calls[w].busy /\ calls[w].message \in Messages
    BY <1>3, RunIsAwaited DEF RunPut, Is, Put, Access, Typed
  <2>2. calls' = [calls EXCEPT ![w] = NoCall] /\ rows' = [rows EXCEPT ![calls[w].message] = calls[w].row]
        /\ shown' \in {shown, shown \cup {calls[w].message}}
        /\ UNCHANGED <<pending, parked, pages, sweeps, world, sent, reloads>>
    BY <1>3 DEF RunPut
  <2>3. NoCall \in [busy : BOOLEAN, message : Messages \cup {0}, seen : BOOLEAN,
                   given : Stamps, row : Row]
        /\ NoCall.busy = FALSE /\ NoCall.message \notin Messages
    BY DEF NoCall, Nothing, NoRow, Stamps, Row
  <2>4. /\ calls' \in [Writers -> [busy : BOOLEAN, message : Messages \cup {0}, seen : BOOLEAN,
                                  given : Stamps, row : Row]]
        /\ \A v \in Writers : calls'[v].busy <=> calls'[v].message \in Messages
    BY <2>2, <2>3 DEF Typed
  <2>5. rows' \in [Messages -> Row] /\ shown' \subseteq Messages
    BY <2>1, <2>2 DEF Typed
  <2> QED BY <2>2, <2>4, <2>5 DEF Typed, world
<1>4. ASSUME NEW m \in Messages, NEW f \in Receipts, RunStamp(m, f) PROVE Typed'
  <2> DEFINE stamped == [rows EXCEPT ![m][f] = TRUE, ![m].deliveredAt = TRUE]
             parkedToo == [parked EXCEPT ![m][f] = TRUE]
  <2>1. rows[m] \in Row /\ parked[m] \in Stamps
    BY DEF Typed
  <2>2. stamped = [rows EXCEPT ![m] = Stamped(@, f)]
    BY DEF Typed, Stamped
  <2>3. stamped \in [Messages -> Row]
    <3>1. rows \in [Messages -> Row] /\ Stamped(rows[m], f) \in Row
      BY <2>1, StampedRow DEF Typed
    <3>2. [rows EXCEPT ![m] = Stamped(@, f)] \in [Messages -> Row]
      BY <3>1
    <3> HIDE DEF stamped
    <3> QED BY <2>2, <3>2
  <2>4. parkedToo \in [Messages -> Stamps]
    BY <2>1, StampedPark DEF Typed
  <2>5. rows' \in {rows, stamped} /\ parked' \in {parked, parkedToo}
        /\ UNCHANGED <<pending, calls, pages, sweeps, world, history>>
    BY <1>4 DEF RunStamp
  <2> HIDE DEF stamped, parkedToo
  <2> QED BY <2>3, <2>4, <2>5 DEF Typed, world, history
<1>5. ASSUME RunSee PROVE Typed'
  <2>1. \A n \in Messages : rows[n] \in Row /\ [rows[n] EXCEPT !.seen = TRUE] \in Row
    <3>1. \A n \in Messages : rows[n] \in Row
      BY DEF Typed
    <3> QED BY <3>1, SeenRow
  <2>2. rows' \in [Messages -> Row]
    BY <1>5, <2>1 DEF RunSee
  <2>3. shown' \subseteq Messages
    BY <1>5 DEF RunSee, Typed, Theirs
  <2>4. UNCHANGED <<pending, memory, world, sent, reloads>>
    BY <1>5 DEF RunSee
  <2> QED BY <2>2, <2>3, <2>4 DEF Typed, world, memory
<1>6. ASSUME NEW f \in Acks, RunCollect(f) PROVE Typed'
  BY <1>6
     DEF RunCollect, disk, memory, world, history, unsentReceiptIds, NoSweep, Typed, Row,
     Stamps, Acks, Receipts, Theirs
<1>7. ASSUME NEW f \in Acks, RunMark(f) PROVE Typed'
  <2>1. \A n \in Messages : rows[n] \in Row /\ [rows[n] EXCEPT ![f] = TRUE] \in Row
    <3>1. \A n \in Messages : rows[n] \in Row
      BY DEF Typed
    <3> QED BY <3>1, AckedRow
  <2>2. rows' \in [Messages -> Row]
    BY <1>7, <2>1 DEF RunMark
  <2>3. sweeps' = [sweeps EXCEPT ![f] = NoSweep]
        /\ UNCHANGED <<pending, parked, calls, pages, world, history>>
    BY <1>7 DEF RunMark
  <2> QED BY <2>2, <2>3 DEF NoSweep, Typed, world, history, Acks
<1>8. ASSUME NEW m \in Messages, Arrive(m) PROVE Typed'
  BY <1>8
     DEF Arrive, disk, memory, world, history, Call, Nothing, NoRow, Typed, Row, Stamps, Acks,
     Receipts, Theirs
<1>9. ASSUME NEW m \in Messages, Miss(m) PROVE Typed'
  BY <1>9 DEF Miss, disk, memory, world, history, Typed, Row, Stamps, Acks, Receipts, Theirs
<1>10. ASSUME NEW b \in Backfills, Fetch(b) PROVE Typed'
  BY <1>10 DEF Fetch, disk, memory, world, history, Typed, Row, Stamps, Acks, Receipts, Theirs
<1>11. ASSUME NEW b \in Backfills, StoreNext(b) PROVE Typed'
  BY <1>11
     DEF StoreNext, disk, memory, world, history, Call, Nothing, NoRow, Typed, Row, Stamps,
     Acks, Receipts, Theirs
<1>12. ASSUME NEW m \in Messages, NEW f \in Receipts, Tell(m, f) PROVE Typed'
  <2>1. told' \in [Messages -> Stamps] /\ \A n \in Messages, g \in Receipts : told'[n][g] => n \in Mine
    <3>1. CASE f = "deliveredAt"
      BY <1>12, <3>1 DEF Tell, Typed, Stamps, Receipts
    <3>2. CASE f = "readAt"
      BY <1>12, <3>2 DEF Tell, Typed, Stamps, Receipts
    <3> QED BY <3>1, <3>2 DEF Receipts
  <2> QED BY <1>12, <2>1 DEF Tell, Typed, disk, memory, history
<1>13. ASSUME NEW m \in Messages, NEW f \in Receipts, Poll(m, f) PROVE Typed'
  <2>1. m \in Mine
    BY <1>13 DEF Poll, Typed
  <2> QED BY <1>13, <2>1 DEF Poll, Typed, disk, memory, history
<1>14. ASSUME NEW m \in Messages, NEW f \in Receipts, HandleReceipt(m, f) PROVE Typed'
  BY <1>14
     DEF HandleReceipt, disk, memory, world, history, Typed, Row, Stamps, Acks, Receipts, Theirs
<1>15. ASSUME OpenChat PROVE Typed'
  BY <1>15 DEF OpenChat, disk, memory, world, history, Typed, Row, Stamps, Acks, Receipts, Theirs
<1>16. ASSUME NEW f \in Acks, Sweep(f) PROVE Typed'
  BY <1>16 DEF Sweep, disk, memory, world, history, Typed, Row, Stamps, Acks, Receipts, Theirs
<1>17. ASSUME NEW f \in Acks, SweepSend(f) PROVE Typed'
  BY <1>17 DEF SweepSend, disk, memory, world, history, Typed, Row, Stamps, Acks, Receipts, Theirs
<1>18. ASSUME NEW f \in Acks, SweepRefused(f) PROVE Typed'
  BY <1>18
     DEF SweepRefused, disk, memory, world, history, NoSweep, Typed, Row, Stamps, Acks,
     Receipts, Theirs
<1>19. ASSUME Reload PROVE Typed'
  <2>1. NoCall \in [busy : BOOLEAN, message : Messages \cup {0}, seen : BOOLEAN,
                   given : Stamps, row : Row]
        /\ NoCall.busy = FALSE /\ NoCall.message \notin Messages
    BY DEF NoCall, Nothing, NoRow, Stamps, Row
  <2>2. /\ Nothing \in Stamps
        /\ NoSweep \in [step : {"idle", "read", "send", "mark"}, ids : SUBSET Theirs]
    BY DEF Nothing, Stamps, NoSweep
  <2>3. reloads' \in 0 .. MaxReloads
    BY <1>19, BoundsAssumption DEF Reload, Typed
  <2> QED BY <1>19, <2>1, <2>2, <2>3 DEF Reload, Typed, disk
<1>20. CASE UNCHANGED vars
  BY <1>20 DEF vars, disk, memory, world, history, Typed, Row, Stamps, Acks, Receipts, Theirs
<1> QED
  BY <1>1, <1>2, <1>3, <1>4, <1>5, <1>6, <1>7, <1>8, <1>9, <1>10, <1>11, <1>12, <1>13, <1>14,
     <1>15, <1>16, <1>17, <1>18, <1>19, <1>20 DEF Next, Run

-----------------------------------------------------------------------------
(* The queue is in order *)

LEMMA Known ==
    /\ See \in Transactions
    /\ \A w \in Writers : Get(w) \in Transactions /\ Put(w) \in Transactions
    /\ \A f \in Acks : Collect(f) \in Transactions /\ Mark(f) \in Transactions
    /\ \A m \in Mine : /\ Delete(Handler(m)) \in Transactions
                       /\ \A f \in Receipts : Stamp(m, f) \in Transactions
BY DEF Transactions

LEMMA EitherSweep ==
    ASSUME NEW q, NEW x
    PROVE  Absent(q, Sweeping, x) <=> Absent(q, {"collect"}, x) /\ Absent(q, {"mark"}, x)
BY DEF Absent, Places, Is, Sweeping

LEMMA QueuedInit == Init => Queued
BY Members DEF Init, Queued, WritersWait, SweepsWait, ReceiptsTold, EventsTold, HandlersOnce,
               NoCall, Absent, Single, Places

LEMMA ToldStamps ==
    ASSUME Typed, NEW m \in Messages, NEW f \in Receipts, Tell(m, f)
    PROVE  /\ told'[m][f]
           /\ \A n \in Messages, g \in Receipts : told[n][g] => told'[n][g]
<1>1. CASE f = "deliveredAt"
  BY <1>1 DEF Tell, Typed, Stamps, Receipts
<1>2. CASE f = "readAt"
  BY <1>2 DEF Tell, Typed, Stamps, Receipts
<1> QED BY <1>1, <1>2 DEF Receipts

LEMMA QueuedStep == Typed /\ Queued /\ [Next]_vars => Queued'
<1> SUFFICES ASSUME Typed, Queued, [Next]_vars PROVE Queued'
  OBVIOUS
<1>1. ASSUME NEW w \in Writers, RunDelete(w) PROVE Queued'
  <2> DEFINE t == Delete(w)
             u == Get(w)
  <2>1. u \in Transactions
    BY Known
  <2>2. Runs(t) /\ DoneThen(u) /\ UNCHANGED <<calls, sweeps, told, events, arrived>>
    BY <1>1 DEF RunDelete, disk, memory, world, history
  <2>3. \A kinds, x :
           /\ queue' \in Seq(Transactions)
           /\ Absent(queue, kinds, x) /\ ~Is(u, kinds, x) => Absent(queue', kinds, x)
           /\ Single(queue, kinds, x) /\ ~Is(u, kinds, x) => Single(queue', kinds, x)
           /\ Single(queue, kinds, x) /\ Is(t, kinds, x) => Single(queue', kinds, x)
    BY <2>1, <2>2, ThenMoves DEF Queued
  <2>4. calls[w].busy
    BY <2>2, RunIsAwaited DEF Is, Access, Delete
  <2>5. WritersWait'
    BY <2>2, <2>3, <2>4
       DEF Queued, WritersWait, Is, Access, Sweeping, Delete, Get, Put, Stamp, See, Collect, Mark
  <2>6. SweepsWait'
    BY <2>2, <2>3
       DEF Queued, SweepsWait, Is, Access, Sweeping, Delete, Get, Put, Stamp, See, Collect, Mark
  <2>7. ReceiptsTold'
    BY <2>2, <2>3
       DEF Queued, ReceiptsTold, Is, Access, Sweeping, Delete, Get, Put, Stamp, See, Collect, Mark
  <2>8. EventsTold'
    BY <2>2, <2>3
       DEF Queued, EventsTold, Is, Access, Sweeping, Delete, Get, Put, Stamp, See, Collect, Mark
  <2>9. HandlersOnce'
    BY <2>2, <2>3
       DEF Queued, HandlersOnce, Is, Access, Sweeping, Delete, Get, Put, Stamp, See, Collect, Mark
  <2> QED BY <2>3, <2>5, <2>6, <2>7, <2>8, <2>9 DEF Queued
<1>2. ASSUME NEW w \in Writers, RunGet(w) PROVE Queued'
  <2> DEFINE t == Get(w)
             u == Put(w)
  <2>1. u \in Transactions
    BY Known
  <2>2. Runs(t) /\ DoneThen(u) /\ UNCHANGED <<sweeps, told, events, arrived>>
    BY <1>2 DEF RunGet, disk, memory, world, history
  <2>3. \A kinds, x :
           /\ queue' \in Seq(Transactions)
           /\ Absent(queue, kinds, x) /\ ~Is(u, kinds, x) => Absent(queue', kinds, x)
           /\ Single(queue, kinds, x) /\ ~Is(u, kinds, x) => Single(queue', kinds, x)
           /\ Single(queue, kinds, x) /\ Is(t, kinds, x) => Single(queue', kinds, x)
    BY <2>1, <2>2, ThenMoves DEF Queued
  <2>4. calls[w].busy
    BY <2>2, RunIsAwaited DEF Is, Access, Get
  <2>5. \A v \in Writers : calls'[v].busy = calls[v].busy
    BY <1>2 DEF RunGet, Typed
  <2>6. WritersWait'
    BY <2>2, <2>3, <2>4, <2>5
       DEF Queued, WritersWait, Is, Access, Sweeping, Delete, Get, Put, Stamp, See, Collect, Mark
  <2>7. SweepsWait'
    BY <2>2, <2>3
       DEF Queued, SweepsWait, Is, Access, Sweeping, Delete, Get, Put, Stamp, See, Collect, Mark
  <2>8. ReceiptsTold'
    BY <2>2, <2>3
       DEF Queued, ReceiptsTold, Is, Access, Sweeping, Delete, Get, Put, Stamp, See, Collect, Mark
  <2>9. EventsTold'
    BY <2>2, <2>3
       DEF Queued, EventsTold, Is, Access, Sweeping, Delete, Get, Put, Stamp, See, Collect, Mark
  <2>10. HandlersOnce'
    BY <2>2, <2>3, <2>5, Members
       DEF Queued, HandlersOnce, Is, Access, Sweeping, Delete, Get, Put, Stamp, See, Collect, Mark
  <2> QED BY <2>3, <2>6, <2>7, <2>8, <2>9, <2>10 DEF Queued
<1>3. ASSUME NEW w \in Writers, RunPut(w) PROVE Queued'
  <2> DEFINE t == Put(w)
  <2>1. Runs(t) /\ Done /\ UNCHANGED <<sweeps, told, events, arrived>>
    BY <1>3 DEF RunPut, disk, memory, world, history
  <2>2. \A kinds, x :
           /\ queue' \in Seq(Transactions)
           /\ Absent(queue, kinds, x) => Absent(queue', kinds, x)
           /\ Single(queue, kinds, x) => Single(queue', kinds, x)
           /\ Single(queue, kinds, x) /\ Is(t, kinds, x) => Absent(queue', kinds, x)
    BY <2>1, DoneMoves DEF Queued
  <2>3. \A v \in Writers : calls'[v].busy = (calls[v].busy /\ v # w)
    BY <1>3 DEF RunPut, Typed, NoCall
  <2>4. WritersWait'
    BY <2>1, <2>2, <2>3
       DEF Queued, WritersWait, Is, Access, Sweeping, Delete, Get, Put, Stamp, See, Collect, Mark
  <2>5. SweepsWait'
    BY <2>1, <2>2
       DEF Queued, SweepsWait, Is, Access, Sweeping, Delete, Get, Put, Stamp, See, Collect, Mark
  <2>6. ReceiptsTold'
    BY <2>1, <2>2
       DEF Queued, ReceiptsTold, Is, Access, Sweeping, Delete, Get, Put, Stamp, See, Collect, Mark
  <2>7. EventsTold'
    BY <2>1, <2>2
       DEF Queued, EventsTold, Is, Access, Sweeping, Delete, Get, Put, Stamp, See, Collect, Mark
  <2>8. HandlersOnce'
    BY <2>1, <2>2, <2>3, Members
       DEF Queued, HandlersOnce, Is, Access, Sweeping, Delete, Get, Put, Stamp, See, Collect, Mark
  <2> QED BY <2>2, <2>4, <2>5, <2>6, <2>7, <2>8 DEF Queued
<1>4. ASSUME NEW m \in Messages, NEW f \in Receipts, RunStamp(m, f) PROVE Queued'
  <2> DEFINE t == Stamp(m, f)
  <2>1. Runs(t) /\ Done /\ UNCHANGED <<calls, sweeps, told, events, arrived>>
    BY <1>4 DEF RunStamp, disk, memory, world, history
  <2>2. \A kinds, x :
           /\ queue' \in Seq(Transactions)
           /\ Absent(queue, kinds, x) => Absent(queue', kinds, x)
           /\ Single(queue, kinds, x) => Single(queue', kinds, x)
           /\ Single(queue, kinds, x) /\ Is(t, kinds, x) => Absent(queue', kinds, x)
    BY <2>1, DoneMoves DEF Queued
  <2>3. WritersWait'
    BY <2>1, <2>2
       DEF Queued, WritersWait, Is, Access, Sweeping, Delete, Get, Put, Stamp, See, Collect, Mark
  <2>4. SweepsWait'
    BY <2>1, <2>2
       DEF Queued, SweepsWait, Is, Access, Sweeping, Delete, Get, Put, Stamp, See, Collect, Mark
  <2>5. ReceiptsTold'
    BY <2>1, <2>2
       DEF Queued, ReceiptsTold, Is, Access, Sweeping, Delete, Get, Put, Stamp, See, Collect, Mark
  <2>6. EventsTold'
    BY <2>1, <2>2
       DEF Queued, EventsTold, Is, Access, Sweeping, Delete, Get, Put, Stamp, See, Collect, Mark
  <2>7. HandlersOnce'
    BY <2>1, <2>2
       DEF Queued, HandlersOnce, Is, Access, Sweeping, Delete, Get, Put, Stamp, See, Collect, Mark
  <2> QED BY <2>2, <2>3, <2>4, <2>5, <2>6, <2>7 DEF Queued
<1>5. ASSUME RunSee PROVE Queued'
  <2> DEFINE t == See
  <2>1. Runs(t) /\ Done /\ UNCHANGED <<calls, sweeps, told, events, arrived>>
    BY <1>5 DEF RunSee, disk, memory, world, history
  <2>2. \A kinds, x :
           /\ queue' \in Seq(Transactions)
           /\ Absent(queue, kinds, x) => Absent(queue', kinds, x)
           /\ Single(queue, kinds, x) => Single(queue', kinds, x)
           /\ Single(queue, kinds, x) /\ Is(t, kinds, x) => Absent(queue', kinds, x)
    BY <2>1, DoneMoves DEF Queued
  <2>3. WritersWait'
    BY <2>1, <2>2
       DEF Queued, WritersWait, Is, Access, Sweeping, Delete, Get, Put, Stamp, See, Collect, Mark
  <2>4. SweepsWait'
    BY <2>1, <2>2
       DEF Queued, SweepsWait, Is, Access, Sweeping, Delete, Get, Put, Stamp, See, Collect, Mark
  <2>5. ReceiptsTold'
    BY <2>1, <2>2
       DEF Queued, ReceiptsTold, Is, Access, Sweeping, Delete, Get, Put, Stamp, See, Collect, Mark
  <2>6. EventsTold'
    BY <2>1, <2>2
       DEF Queued, EventsTold, Is, Access, Sweeping, Delete, Get, Put, Stamp, See, Collect, Mark
  <2>7. HandlersOnce'
    BY <2>1, <2>2
       DEF Queued, HandlersOnce, Is, Access, Sweeping, Delete, Get, Put, Stamp, See, Collect, Mark
  <2> QED BY <2>2, <2>3, <2>4, <2>5, <2>6, <2>7 DEF Queued
<1>6. ASSUME NEW f \in Acks, RunCollect(f) PROVE Queued'
  <2> DEFINE t == Collect(f)
  <2>1. Runs(t) /\ Done /\ UNCHANGED <<calls, told, events, arrived>>
    BY <1>6 DEF RunCollect, disk, memory, world, history
  <2>2. \A kinds, x :
           /\ queue' \in Seq(Transactions)
           /\ Absent(queue, kinds, x) => Absent(queue', kinds, x)
           /\ Single(queue, kinds, x) => Single(queue', kinds, x)
           /\ Single(queue, kinds, x) /\ Is(t, kinds, x) => Absent(queue', kinds, x)
    BY <2>1, DoneMoves DEF Queued
  <2>3. \A g \in Acks : Is(t, Sweeping, <<g, 0>>) <=> g = f
    BY DEF Is, Sweeping, Collect, Mark
  <2>4. \A g \in Acks : g # f => sweeps'[g] = sweeps[g]
    BY <1>6 DEF RunCollect, Typed
  <2>5. WritersWait'
    BY <2>1, <2>2
       DEF Queued, WritersWait, Is, Access, Sweeping, Delete, Get, Put, Stamp, See, Collect, Mark
  <2>6. SweepsWait'
    BY <2>1, <2>2, <2>3, <2>4, EitherSweep
       DEF Queued, SweepsWait, Is, Access, Sweeping, Delete, Get, Put, Stamp, See, Collect, Mark
  <2>7. ReceiptsTold'
    BY <2>1, <2>2
       DEF Queued, ReceiptsTold, Is, Access, Sweeping, Delete, Get, Put, Stamp, See, Collect, Mark
  <2>8. EventsTold'
    BY <2>1, <2>2
       DEF Queued, EventsTold, Is, Access, Sweeping, Delete, Get, Put, Stamp, See, Collect, Mark
  <2>9. HandlersOnce'
    BY <2>1, <2>2
       DEF Queued, HandlersOnce, Is, Access, Sweeping, Delete, Get, Put, Stamp, See, Collect, Mark
  <2> QED BY <2>2, <2>5, <2>6, <2>7, <2>8, <2>9 DEF Queued
<1>7. ASSUME NEW f \in Acks, RunMark(f) PROVE Queued'
  <2> DEFINE t == Mark(f)
  <2>1. Runs(t) /\ Done /\ UNCHANGED <<calls, told, events, arrived>>
    BY <1>7 DEF RunMark, disk, memory, world, history
  <2>2. \A kinds, x :
           /\ queue' \in Seq(Transactions)
           /\ Absent(queue, kinds, x) => Absent(queue', kinds, x)
           /\ Single(queue, kinds, x) => Single(queue', kinds, x)
           /\ Single(queue, kinds, x) /\ Is(t, kinds, x) => Absent(queue', kinds, x)
    BY <2>1, DoneMoves DEF Queued
  <2>3. \A g \in Acks : Is(t, Sweeping, <<g, 0>>) <=> g = f
    BY DEF Is, Sweeping, Collect, Mark
  <2>4. \A g \in Acks : g # f => sweeps'[g] = sweeps[g]
    BY <1>7 DEF RunMark, Typed
  <2>5. WritersWait'
    BY <2>1, <2>2
       DEF Queued, WritersWait, Is, Access, Sweeping, Delete, Get, Put, Stamp, See, Collect, Mark
  <2>6. SweepsWait'
    BY <2>1, <2>2, <2>3, <2>4, EitherSweep
       DEF Queued, SweepsWait, Is, Access, Sweeping, Delete, Get, Put, Stamp, See, Collect, Mark
  <2>7. ReceiptsTold'
    BY <2>1, <2>2
       DEF Queued, ReceiptsTold, Is, Access, Sweeping, Delete, Get, Put, Stamp, See, Collect, Mark
  <2>8. EventsTold'
    BY <2>1, <2>2
       DEF Queued, EventsTold, Is, Access, Sweeping, Delete, Get, Put, Stamp, See, Collect, Mark
  <2>9. HandlersOnce'
    BY <2>1, <2>2
       DEF Queued, HandlersOnce, Is, Access, Sweeping, Delete, Get, Put, Stamp, See, Collect, Mark
  <2> QED BY <2>2, <2>5, <2>6, <2>7, <2>8, <2>9 DEF Queued
<1>8. ASSUME NEW m \in Messages, Arrive(m) PROVE Queued'
  <2> DEFINE t == IF m \in Mine THEN Delete(Handler(m)) ELSE Get(Handler(m))
  <2>1. t \in Transactions
    BY Known, Members
  <2>2. Create(t) /\ m \notin arrived /\ arrived' = arrived \cup {m}
        /\ UNCHANGED <<sweeps, told, events>>
    BY <1>8 DEF Arrive, disk, memory, world, history
  <2>3. \A kinds, x :
           /\ queue' \in Seq(Transactions)
           /\ Absent(queue, kinds, x) /\ ~Is(t, kinds, x) => Absent(queue', kinds, x)
           /\ Single(queue, kinds, x) /\ ~Is(t, kinds, x) => Single(queue', kinds, x)
           /\ Absent(queue, kinds, x) => Single(queue', kinds, x)
    BY <2>1, <2>2, CreateMoves DEF Queued
  <2>4. calls'[Handler(m)].busy /\ \A v \in Writers : v # Handler(m) => calls'[v] = calls[v]
    BY <1>8, Members DEF Arrive, Call, Typed
  <2>5. ~calls[Handler(m)].busy
    BY <2>2 DEF Queued, HandlersOnce
  <2>6. WritersWait'
    BY <2>2, <2>3, <2>4, <2>5, Members
       DEF Queued, WritersWait, Is, Access, Sweeping, Delete, Get, Put, Stamp, See, Collect, Mark
  <2>7. SweepsWait'
    BY <2>2, <2>3
       DEF Queued, SweepsWait, Is, Access, Sweeping, Delete, Get, Put, Stamp, See, Collect, Mark
  <2>8. ReceiptsTold'
    BY <2>2, <2>3
       DEF Queued, ReceiptsTold, Is, Access, Sweeping, Delete, Get, Put, Stamp, See, Collect, Mark
  <2>9. EventsTold'
    BY <2>2, <2>3
       DEF Queued, EventsTold, Is, Access, Sweeping, Delete, Get, Put, Stamp, See, Collect, Mark
  <2>10. HandlersOnce'
    BY <2>2, <2>3, <2>4, Members
       DEF Queued, HandlersOnce, Is, Access, Sweeping, Delete, Get, Put, Stamp, See, Collect, Mark,
           Handler
  <2> QED BY <2>3, <2>6, <2>7, <2>8, <2>9, <2>10 DEF Queued
<1>9. ASSUME NEW m \in Messages, Miss(m) PROVE Queued'
  <2>1. UNCHANGED <<queue, calls, sweeps, told, events>> /\ arrived \subseteq arrived'
    BY <1>9 DEF Miss, disk, memory, world, history
  <2> QED BY <2>1 DEF Queued, WritersWait, SweepsWait, ReceiptsTold, EventsTold, HandlersOnce
<1>10. ASSUME NEW b \in Backfills, Fetch(b) PROVE Queued'
  <2>1. UNCHANGED <<queue, calls, sweeps, told, events, arrived>>
    BY <1>10 DEF Fetch, disk, memory, world, history
  <2> QED BY <2>1 DEF Queued, WritersWait, SweepsWait, ReceiptsTold, EventsTold, HandlersOnce
<1>11. ASSUME NEW b \in Backfills, StoreNext(b) PROVE Queued'
  <2> DEFINE t == Get(b)
  <2>1. t \in Transactions
    BY Known, Members
  <2>2. Create(t) /\ ~calls[b].busy /\ UNCHANGED <<sweeps, told, events, arrived>>
    BY <1>11 DEF StoreNext, disk, memory, world, history
  <2>3. \A kinds, x :
           /\ queue' \in Seq(Transactions)
           /\ Absent(queue, kinds, x) /\ ~Is(t, kinds, x) => Absent(queue', kinds, x)
           /\ Single(queue, kinds, x) /\ ~Is(t, kinds, x) => Single(queue', kinds, x)
           /\ Absent(queue, kinds, x) => Single(queue', kinds, x)
    BY <2>1, <2>2, CreateMoves DEF Queued
  <2>4. calls'[b].busy /\ \A v \in Writers : v # b => calls'[v] = calls[v]
    BY <1>11, Members DEF StoreNext, Call, Typed
  <2>5. WritersWait'
    BY <2>2, <2>3, <2>4, Members
       DEF Queued, WritersWait, Is, Access, Sweeping, Delete, Get, Put, Stamp, See, Collect, Mark
  <2>6. SweepsWait'
    BY <2>2, <2>3
       DEF Queued, SweepsWait, Is, Access, Sweeping, Delete, Get, Put, Stamp, See, Collect, Mark
  <2>7. ReceiptsTold'
    BY <2>2, <2>3
       DEF Queued, ReceiptsTold, Is, Access, Sweeping, Delete, Get, Put, Stamp, See, Collect, Mark
  <2>8. EventsTold'
    BY <2>2, <2>3
       DEF Queued, EventsTold, Is, Access, Sweeping, Delete, Get, Put, Stamp, See, Collect, Mark
  <2>9. HandlersOnce'
    BY <2>2, <2>3, <2>4, Members, BackfillsAssumption
       DEF Queued, HandlersOnce, Is, Access, Sweeping, Delete, Get, Put, Stamp, See, Collect, Mark,
           Handler
  <2> QED BY <2>3, <2>5, <2>6, <2>7, <2>8, <2>9 DEF Queued
<1>12. ASSUME NEW m \in Messages, NEW f \in Receipts, Tell(m, f) PROVE Queued'
  <2>1. UNCHANGED <<queue, calls, sweeps, arrived>> /\ events' = events \cup {<<m, f>>}
    BY <1>12 DEF Tell, disk, memory, world, history
  <2>2. \A n \in Messages, g \in Receipts : (told[n][g] => told'[n][g]) /\ told'[m][f]
    BY <1>12, ToldStamps DEF Tell, Typed
  <2> QED BY <2>1, <2>2 DEF Queued, WritersWait, SweepsWait, ReceiptsTold, EventsTold, HandlersOnce
<1>13. ASSUME NEW m \in Messages, NEW f \in Receipts, Poll(m, f) PROVE Queued'
  <2>1. UNCHANGED <<queue, calls, sweeps, told, arrived>> /\ events' = events \cup {<<m, f>>} /\ told[m][f]
    BY <1>13 DEF Poll, disk, memory, world, history
  <2> QED BY <2>1 DEF Queued, WritersWait, SweepsWait, ReceiptsTold, EventsTold, HandlersOnce
<1>14. ASSUME NEW m \in Messages, NEW f \in Receipts, HandleReceipt(m, f) PROVE Queued'
  <2> DEFINE t == Stamp(m, f)
  <2>1. m \in Mine /\ told[m][f]
    BY <1>14 DEF HandleReceipt, Typed, Queued, EventsTold
  <2>2. t \in Transactions
    BY Known, <2>1
  <2>3. Create(t) /\ events' = events \ {<<m, f>>}
        /\ UNCHANGED <<calls, sweeps, told, arrived>>
    BY <1>14 DEF HandleReceipt, disk, memory, world, history
  <2>4. \A kinds, x :
           /\ queue' \in Seq(Transactions)
           /\ Absent(queue, kinds, x) /\ ~Is(t, kinds, x) => Absent(queue', kinds, x)
           /\ Single(queue, kinds, x) /\ ~Is(t, kinds, x) => Single(queue', kinds, x)
           /\ Absent(queue, kinds, x) => Single(queue', kinds, x)
    BY <2>2, <2>3, CreateMoves DEF Queued
  <2>5. WritersWait'
    BY <2>3, <2>4
       DEF Queued, WritersWait, Is, Access, Sweeping, Delete, Get, Put, Stamp, See, Collect, Mark
  <2>6. SweepsWait'
    BY <2>3, <2>4
       DEF Queued, SweepsWait, Is, Access, Sweeping, Delete, Get, Put, Stamp, See, Collect, Mark
  <2>7. ReceiptsTold'
    BY <2>3, <2>4, <2>1
       DEF Queued, ReceiptsTold, Is, Access, Sweeping, Delete, Get, Put, Stamp, See, Collect, Mark
  <2>8. EventsTold'
    BY <2>3, <2>4
       DEF Queued, EventsTold, Is, Access, Sweeping, Delete, Get, Put, Stamp, See, Collect, Mark
  <2>9. HandlersOnce'
    BY <2>3, <2>4
       DEF Queued, HandlersOnce, Is, Access, Sweeping, Delete, Get, Put, Stamp, See, Collect, Mark
  <2> QED BY <2>4, <2>5, <2>6, <2>7, <2>8, <2>9 DEF Queued
<1>15. ASSUME OpenChat PROVE Queued'
  <2> DEFINE t == See
  <2>1. t \in Transactions
    BY Known
  <2>2. Create(t) /\ UNCHANGED <<calls, sweeps, told, events, arrived>>
    BY <1>15 DEF OpenChat, disk, memory, world, history
  <2>3. \A kinds, x :
           /\ queue' \in Seq(Transactions)
           /\ Absent(queue, kinds, x) /\ ~Is(t, kinds, x) => Absent(queue', kinds, x)
           /\ Single(queue, kinds, x) /\ ~Is(t, kinds, x) => Single(queue', kinds, x)
           /\ Absent(queue, kinds, x) => Single(queue', kinds, x)
    BY <2>1, <2>2, CreateMoves DEF Queued
  <2>4. WritersWait'
    BY <2>2, <2>3
       DEF Queued, WritersWait, Is, Access, Sweeping, Delete, Get, Put, Stamp, See, Collect, Mark
  <2>5. SweepsWait'
    BY <2>2, <2>3
       DEF Queued, SweepsWait, Is, Access, Sweeping, Delete, Get, Put, Stamp, See, Collect, Mark
  <2>6. ReceiptsTold'
    BY <2>2, <2>3
       DEF Queued, ReceiptsTold, Is, Access, Sweeping, Delete, Get, Put, Stamp, See, Collect, Mark
  <2>7. EventsTold'
    BY <2>2, <2>3
       DEF Queued, EventsTold, Is, Access, Sweeping, Delete, Get, Put, Stamp, See, Collect, Mark
  <2>8. HandlersOnce'
    BY <2>2, <2>3
       DEF Queued, HandlersOnce, Is, Access, Sweeping, Delete, Get, Put, Stamp, See, Collect, Mark
  <2> QED BY <2>3, <2>4, <2>5, <2>6, <2>7, <2>8 DEF Queued
<1>16. ASSUME NEW f \in Acks, Sweep(f) PROVE Queued'
  <2> DEFINE t == Collect(f)
  <2>1. t \in Transactions
    BY Known
  <2>2. Create(t) /\ UNCHANGED <<calls, told, events, arrived>>
    BY <1>16 DEF Sweep, disk, memory, world, history
  <2>3. \A kinds, x :
           /\ queue' \in Seq(Transactions)
           /\ Absent(queue, kinds, x) /\ ~Is(t, kinds, x) => Absent(queue', kinds, x)
           /\ Single(queue, kinds, x) /\ ~Is(t, kinds, x) => Single(queue', kinds, x)
           /\ Absent(queue, kinds, x) => Single(queue', kinds, x)
    BY <2>1, <2>2, CreateMoves DEF Queued
  <2>4. \A g \in Acks : Is(t, Sweeping, <<g, 0>>) <=> g = f
    BY DEF Is, Sweeping, Collect, Mark
  <2>5. sweeps[f].step = "idle" /\ sweeps'[f].step = "read"
        /\ \A g \in Acks : g # f => sweeps'[g] = sweeps[g]
    <3>1. sweeps \in [Acks -> [step : {"idle", "read", "send", "mark"}, ids : SUBSET Theirs]]
      BY DEF Typed
    <3>2. sweeps[f].step = "idle" /\ sweeps' = [sweeps EXCEPT ![f].step = "read"]
      BY <1>16 DEF Sweep
    <3> QED BY <3>1, <3>2
  <2>6. Absent(queue, Sweeping, <<f, 0>>)
    BY <2>5, EitherSweep DEF Queued, SweepsWait
  <2>7. WritersWait'
    BY <2>2, <2>3
       DEF Queued, WritersWait, Is, Access, Sweeping, Delete, Get, Put, Stamp, See, Collect, Mark
  <2>8. SweepsWait'
    <3> SUFFICES ASSUME NEW g \in Acks
                 PROVE  /\ Single(queue', Sweeping, <<g, 0>>)
                        /\ sweeps'[g].step = "read" \/ Absent(queue', {"collect"}, <<g, 0>>)
                        /\ sweeps'[g].step = "mark" \/ Absent(queue', {"mark"}, <<g, 0>>)
      BY DEF SweepsWait
    <3>1. CASE g = f
      <4>1. Absent(queue, {"mark"}, <<f, 0>>) /\ ~Is(t, {"mark"}, <<f, 0>>)
        BY <2>6, EitherSweep DEF Is, Collect, Mark
      <4> QED BY <3>1, <4>1, <2>3, <2>5, <2>6
    <3>2. CASE g # f
      <4>1. ~Is(t, Sweeping, <<g, 0>>) /\ ~Is(t, {"collect"}, <<g, 0>>) /\ ~Is(t, {"mark"}, <<g, 0>>)
        BY <2>4, <3>2 DEF Is, Sweeping
      <4> QED BY <3>2, <4>1, <2>3, <2>5 DEF Queued, SweepsWait
    <3> QED BY <3>1, <3>2
  <2>9. ReceiptsTold'
    BY <2>2, <2>3
       DEF Queued, ReceiptsTold, Is, Access, Sweeping, Delete, Get, Put, Stamp, See, Collect, Mark
  <2>10. EventsTold'
    BY <2>2, <2>3
       DEF Queued, EventsTold, Is, Access, Sweeping, Delete, Get, Put, Stamp, See, Collect, Mark
  <2>11. HandlersOnce'
    BY <2>2, <2>3
       DEF Queued, HandlersOnce, Is, Access, Sweeping, Delete, Get, Put, Stamp, See, Collect, Mark
  <2> QED BY <2>3, <2>7, <2>8, <2>9, <2>10, <2>11 DEF Queued
<1>17. ASSUME NEW f \in Acks, SweepSend(f) PROVE Queued'
  <2> DEFINE t == Mark(f)
  <2>1. t \in Transactions
    BY Known
  <2>2. Create(t) /\ UNCHANGED <<calls, told, events, arrived>>
    BY <1>17 DEF SweepSend, disk, memory, world, history
  <2>3. \A kinds, x :
           /\ queue' \in Seq(Transactions)
           /\ Absent(queue, kinds, x) /\ ~Is(t, kinds, x) => Absent(queue', kinds, x)
           /\ Single(queue, kinds, x) /\ ~Is(t, kinds, x) => Single(queue', kinds, x)
           /\ Absent(queue, kinds, x) => Single(queue', kinds, x)
    BY <2>1, <2>2, CreateMoves DEF Queued
  <2>4. \A g \in Acks : Is(t, Sweeping, <<g, 0>>) <=> g = f
    BY DEF Is, Sweeping, Collect, Mark
  <2>5. sweeps[f].step = "send" /\ sweeps'[f].step = "mark"
        /\ \A g \in Acks : g # f => sweeps'[g] = sweeps[g]
    <3>1. sweeps \in [Acks -> [step : {"idle", "read", "send", "mark"}, ids : SUBSET Theirs]]
      BY DEF Typed
    <3>2. sweeps[f].step = "send" /\ sweeps' = [sweeps EXCEPT ![f].step = "mark"]
      BY <1>17 DEF SweepSend
    <3> QED BY <3>1, <3>2
  <2>6. Absent(queue, Sweeping, <<f, 0>>)
    BY <2>5, EitherSweep DEF Queued, SweepsWait
  <2>7. WritersWait'
    BY <2>2, <2>3
       DEF Queued, WritersWait, Is, Access, Sweeping, Delete, Get, Put, Stamp, See, Collect, Mark
  <2>8. SweepsWait'
    <3> SUFFICES ASSUME NEW g \in Acks
                 PROVE  /\ Single(queue', Sweeping, <<g, 0>>)
                        /\ sweeps'[g].step = "read" \/ Absent(queue', {"collect"}, <<g, 0>>)
                        /\ sweeps'[g].step = "mark" \/ Absent(queue', {"mark"}, <<g, 0>>)
      BY DEF SweepsWait
    <3>1. CASE g = f
      <4>1. Absent(queue, {"collect"}, <<f, 0>>) /\ ~Is(t, {"collect"}, <<f, 0>>)
        BY <2>6, EitherSweep DEF Is, Collect, Mark
      <4> QED BY <3>1, <4>1, <2>3, <2>5, <2>6
    <3>2. CASE g # f
      <4>1. ~Is(t, Sweeping, <<g, 0>>) /\ ~Is(t, {"collect"}, <<g, 0>>) /\ ~Is(t, {"mark"}, <<g, 0>>)
        BY <2>4, <3>2 DEF Is, Sweeping
      <4> QED BY <3>2, <4>1, <2>3, <2>5 DEF Queued, SweepsWait
    <3> QED BY <3>1, <3>2
  <2>9. ReceiptsTold'
    BY <2>2, <2>3
       DEF Queued, ReceiptsTold, Is, Access, Sweeping, Delete, Get, Put, Stamp, See, Collect, Mark
  <2>10. EventsTold'
    BY <2>2, <2>3
       DEF Queued, EventsTold, Is, Access, Sweeping, Delete, Get, Put, Stamp, See, Collect, Mark
  <2>11. HandlersOnce'
    BY <2>2, <2>3
       DEF Queued, HandlersOnce, Is, Access, Sweeping, Delete, Get, Put, Stamp, See, Collect, Mark
  <2> QED BY <2>3, <2>7, <2>8, <2>9, <2>10, <2>11 DEF Queued
<1>18. ASSUME NEW f \in Acks, SweepRefused(f) PROVE Queued'
  <2>1. UNCHANGED <<queue, calls, told, events, arrived>>
    BY <1>18 DEF SweepRefused, disk, memory, world, history
  <2>2. sweeps[f].step = "send" /\ \A g \in Acks : g # f => sweeps'[g] = sweeps[g]
    BY <1>18 DEF SweepRefused, Typed
  <2> QED BY <2>1, <2>2 DEF Queued, WritersWait, SweepsWait, ReceiptsTold, EventsTold, HandlersOnce
<1>19. ASSUME Reload PROVE Queued'
  <2>1. queue' = <<>> /\ events' = {} /\ calls' = [w \in Writers |-> NoCall]
    BY <1>19 DEF Reload
  <2>2. \A kinds, x : Absent(queue', kinds, x) /\ Single(queue', kinds, x)
    BY <2>1 DEF Absent, Single, Places
  <2>3. \A w \in Writers : ~calls'[w].busy
    BY <2>1 DEF NoCall
  <2> QED BY <2>1, <2>2, <2>3, Members
          DEF Queued, WritersWait, SweepsWait, ReceiptsTold, EventsTold, HandlersOnce
<1>20. CASE UNCHANGED vars
  BY <1>20 DEF vars, disk, memory, world, history, Queued, WritersWait, SweepsWait, ReceiptsTold,
             EventsTold, HandlersOnce
<1> QED
  BY <1>1, <1>2, <1>3, <1>4, <1>5, <1>6, <1>7, <1>8, <1>9, <1>10, <1>11, <1>12, <1>13, <1>14,
     <1>15, <1>16, <1>17, <1>18, <1>19, <1>20
     DEF Next, Run

-----------------------------------------------------------------------------
(* Acknowledgements *)

(* The flags of r, a row of m or one about to be written, were sent; and a *)
(* sweep marks what it has sent.                                           *)
WasSent(m, r) ==
    /\ r.deliveredAck => m \in sent["deliveredAck"]
    /\ r.readAck => m \in sent["readAck"]
AckFacts ==
    /\ \A m \in Messages : WasSent(m, rows[m])
    /\ \A w \in Writers : calls[w].busy => WasSent(calls[w].message, calls[w].row)
    /\ \A f \in Acks : sweeps[f].step = "mark" => sweeps[f].ids \subseteq sent[f]

LEMMA AckFactsInit == Init => AckFacts
BY DEF Init, AckFacts, WasSent, NoRow, NoCall, NoSweep

LEMMA AckFactsStep == Typed /\ Queued /\ AckFacts /\ [Next]_vars => AckFacts'
<1> SUFFICES ASSUME Typed, Queued, AckFacts, [Next]_vars PROVE AckFacts'
  OBVIOUS
<1> USE Members
<1>1. ASSUME NEW w \in Writers, RunDelete(w) PROVE AckFacts'
  BY <1>1 DEF RunDelete, memory, history, AckFacts, WasSent
<1>2. ASSUME NEW w \in Writers, RunGet(w) PROVE AckFacts'
  <2> DEFINE m == calls[w].message
             r == merged(calls[w], rows[m], parked[m])
  <2>1. calls[w].busy /\ m \in Messages
    BY <1>2, RunIsAwaited DEF RunGet, Is, Get, Access, Typed
  <2>2. WasSent(m, r)
    BY <2>1 DEF AckFacts, WasSent, merged
  <2>3. calls' = [calls EXCEPT ![w].row = r] /\ UNCHANGED <<rows, sweeps, sent>>
    BY <1>2 DEF RunGet, disk, history
  <2> HIDE DEF r
  <2>4. /\ calls'[w].message = m /\ calls'[w].row = r
        /\ \A v \in Writers : v # w => calls'[v] = calls[v]
    BY <2>3 DEF Typed
  <2>5. \A v \in Writers : calls'[v].busy => WasSent(calls'[v].message, calls'[v].row)
    BY <2>2, <2>4 DEF AckFacts
  <2> QED BY <2>3, <2>5 DEF AckFacts, WasSent
<1>3. ASSUME NEW w \in Writers, RunPut(w) PROVE AckFacts'
  <2>1. calls[w].busy /\ calls[w].message \in Messages
    BY <1>3, RunIsAwaited DEF RunPut, Is, Put, Access, Typed
  <2>2. /\ rows' = [rows EXCEPT ![calls[w].message] = calls[w].row]
        /\ calls' = [calls EXCEPT ![w] = NoCall] /\ UNCHANGED <<sweeps, sent>>
    BY <1>3 DEF RunPut
  <2>3. \A n \in Messages : WasSent(n, rows'[n])
    BY <2>1, <2>2 DEF AckFacts, Typed
  <2>4. \A v \in Writers : calls'[v].busy => calls'[v] = calls[v] /\ calls[v].busy
    BY <2>2 DEF Typed, NoCall
  <2> QED BY <2>2, <2>3, <2>4 DEF AckFacts, WasSent
<1>4. ASSUME NEW m \in Messages, NEW f \in Receipts, RunStamp(m, f) PROVE AckFacts'
  <2>1. \A n \in Messages : rows'[n].deliveredAck = rows[n].deliveredAck
                            /\ rows'[n].readAck = rows[n].readAck
    <3> SUFFICES ASSUME NEW n \in Messages
                 PROVE  rows'[n].deliveredAck = rows[n].deliveredAck
                        /\ rows'[n].readAck = rows[n].readAck
      OBVIOUS
    <3>1. rows \in [Messages -> Row] /\ rows[n] \in Row
      BY DEF Typed
    <3>2. rows'[n] = rows[n] \/ rows'[n] = Stamped(rows[n], f)
      BY <1>4, <3>1, RowsStamped
    <3>3. CASE rows'[n] = Stamped(rows[n], f)
      BY <3>1, <3>3, StampedRow
    <3> QED BY <3>2, <3>3
  <2>2. UNCHANGED <<calls, sweeps, sent>>
    BY <1>4 DEF RunStamp, history
  <2> QED BY <2>1, <2>2 DEF AckFacts, WasSent
<1>5. ASSUME RunSee PROVE AckFacts'
  <2>1. \A n \in Messages : rows'[n] \in {rows[n], [rows[n] EXCEPT !.seen = TRUE]}
    BY <1>5 DEF RunSee
  <2>2. \A n \in Messages : rows'[n].deliveredAck = rows[n].deliveredAck
                            /\ rows'[n].readAck = rows[n].readAck
    BY <2>1, SeenRow DEF Typed
  <2>3. UNCHANGED <<calls, sweeps, sent>>
    BY <1>5 DEF RunSee, memory
  <2> QED BY <2>2, <2>3 DEF AckFacts, WasSent
<1>6. ASSUME NEW f \in Acks, RunCollect(f) PROVE AckFacts'
  <2>1. UNCHANGED <<rows, calls, sent>>
    BY <1>6 DEF RunCollect, disk, history
  <2>2. \A g \in Acks : sweeps'[g].step = "mark" => sweeps'[g] = sweeps[g]
    BY <1>6 DEF RunCollect, NoSweep, Typed
  <2> QED BY <2>1, <2>2 DEF AckFacts, WasSent
<1>7. ASSUME NEW f \in Acks, RunMark(f) PROVE AckFacts'
  <2>1. sweeps[f].step = "mark"
    BY <1>7, RunIsAwaited DEF RunMark, Is, Mark
  <2>2. sweeps[f].ids \subseteq sent[f]
    BY <2>1 DEF AckFacts
  <2>3. UNCHANGED <<calls, sent>> /\ sweeps' = [sweeps EXCEPT ![f] = NoSweep]
    BY <1>7 DEF RunMark, history
  <2>4. \A n \in Messages : WasSent(n, rows'[n])
    <3>1. \A n \in Messages : \/ rows'[n] = rows[n]
                              \/ n \in sent[f] /\ rows'[n] = [rows[n] EXCEPT ![f] = TRUE]
      BY <1>7, <2>2 DEF RunMark
    <3>2. ASSUME NEW n \in Messages
          PROVE  /\ rows'[n].deliveredAck => rows[n].deliveredAck \/ (n \in sent[f] /\ f = "deliveredAck")
                 /\ rows'[n].readAck => rows[n].readAck \/ (n \in sent[f] /\ f = "readAck")
      <4>1. rows[n] \in Row
        BY DEF Typed
      <4>2. CASE n \in sent[f] /\ rows'[n] = [rows[n] EXCEPT ![f] = TRUE]
        BY <4>1, <4>2, AckedRow
      <4> QED BY <3>1, <4>2
    <3> QED BY <3>2 DEF AckFacts, WasSent
  <2>5. \A g \in Acks : sweeps'[g].step = "mark" => sweeps'[g] = sweeps[g]
    BY <2>3 DEF NoSweep, Typed
  <2> QED BY <2>3, <2>4, <2>5 DEF AckFacts, WasSent
<1>8. ASSUME NEW m \in Messages, Arrive(m) PROVE AckFacts'
  <2>1. UNCHANGED <<rows, sweeps, sent>>
    BY <1>8 DEF Arrive, disk, history
  <2>2. \A v \in Writers : \/ calls'[v] = calls[v]
                           \/ ~calls'[v].row.deliveredAck /\ ~calls'[v].row.readAck
    BY <1>8 DEF Arrive, Call, NoRow, Typed
  <2> QED BY <2>1, <2>2 DEF AckFacts, WasSent
<1>9. ASSUME NEW m \in Messages, Miss(m) PROVE AckFacts'
  BY <1>9 DEF Miss, disk, memory, history, AckFacts, WasSent
<1>10. ASSUME NEW b \in Backfills, Fetch(b) PROVE AckFacts'
  BY <1>10 DEF Fetch, disk, history, AckFacts, WasSent
<1>11. ASSUME NEW b \in Backfills, StoreNext(b) PROVE AckFacts'
  <2>1. UNCHANGED <<rows, sweeps, sent>>
    BY <1>11 DEF StoreNext, disk, history
  <2>2. \A v \in Writers : \/ calls'[v] = calls[v]
                           \/ ~calls'[v].row.deliveredAck /\ ~calls'[v].row.readAck
    BY <1>11 DEF StoreNext, Call, NoRow, Typed
  <2> QED BY <2>1, <2>2 DEF AckFacts, WasSent
<1>12. ASSUME NEW m \in Messages, NEW f \in Receipts,
              Tell(m, f) \/ Poll(m, f) \/ HandleReceipt(m, f)
       PROVE  AckFacts'
  BY <1>12 DEF Tell, Poll, HandleReceipt, disk, memory, history, AckFacts, WasSent
<1>13. ASSUME OpenChat PROVE AckFacts'
  BY <1>13 DEF OpenChat, disk, memory, history, AckFacts, WasSent
<1>14. ASSUME NEW f \in Acks, Sweep(f) \/ SweepRefused(f) PROVE AckFacts'
  <2>1. UNCHANGED <<rows, calls, sent>>
    BY <1>14 DEF Sweep, SweepRefused, disk, history
  <2>2. \A g \in Acks : sweeps'[g].step = "mark" => sweeps'[g] = sweeps[g]
    BY <1>14 DEF Sweep, SweepRefused, NoSweep, Typed
  <2> QED BY <2>1, <2>2 DEF AckFacts, WasSent
<1>15. ASSUME NEW f \in Acks, SweepSend(f) PROVE AckFacts'
  <2>1. /\ sent' = [sent EXCEPT ![f] = @ \cup sweeps[f].ids]
        /\ sweeps' = [sweeps EXCEPT ![f].step = "mark"] /\ UNCHANGED <<rows, calls>>
    BY <1>15 DEF SweepSend, disk
  <2>2. \A g \in Acks : sent[g] \subseteq sent'[g] /\ sweeps'[g].ids = sweeps[g].ids
    BY <2>1 DEF Typed
  <2>3. sweeps'[f].ids \subseteq sent'[f]
    BY <2>1, <2>2 DEF Typed
  <2>4. \A g \in Acks : g # f => sweeps'[g] = sweeps[g]
    BY <2>1 DEF Typed
  <2> QED BY <2>1, <2>2, <2>3, <2>4 DEF AckFacts, WasSent, Acks
<1>16. ASSUME Reload PROVE AckFacts'
  BY <1>16 DEF Reload, disk, AckFacts, WasSent, NoCall, NoSweep
<1>17. CASE UNCHANGED vars
  BY <1>17 DEF vars, disk, memory, history, AckFacts, WasSent
<1> QED
  BY <1>1, <1>2, <1>3, <1>4, <1>5, <1>6, <1>7, <1>8, <1>9, <1>10, <1>11, <1>12, <1>13, <1>14,
     <1>15, <1>16, <1>17 DEF Next, Run

LEMMA AckFactsHold == Typed /\ AckFacts => AckedWasSent
<1> SUFFICES ASSUME Typed, AckFacts, NEW m \in Messages, NEW f \in Acks,
                    rows[m][f] \/ (\E w \in Writers : calls[w].message = m /\ calls[w].row[f])
             PROVE  m \in sent[f]
  BY DEF AckedWasSent
<1>1. WasSent(m, rows[m])
  BY DEF AckFacts
<1>2. \A w \in Writers : calls[w].message = m => WasSent(m, calls[w].row)
  BY DEF AckFacts, Typed
<1>3. CASE f = "deliveredAck"
  BY <1>1, <1>2, <1>3 DEF WasSent
<1>4. CASE f = "readAck"
  BY <1>1, <1>2, <1>4 DEF WasSent
<1> QED BY <1>3, <1>4 DEF Acks

-----------------------------------------------------------------------------
(* Ticks *)

(* Every receipt on its way into a row has been told: the ones in rows,    *)
(* parked, in calls and in the pages that are being stored.                *)
StampFacts ==
    /\ StampsWereTold
    /\ \A b \in Backfills : \A e \in pages[b] : Backs(e.message, e.given)

LEMMA StampFactsInit == Init => StampFacts
BY DEF Init, StampFacts, StampsWereTold, Backs, NoRow, NoCall, Nothing

LEMMA StampFactsStep == Typed /\ Queued /\ StampFacts /\ [Next]_vars => StampFacts'
<1> SUFFICES ASSUME Typed, Queued, StampFacts, [Next]_vars PROVE StampFacts'
  OBVIOUS
<1> USE Members
<1>1. ASSUME NEW w \in Writers, RunDelete(w) PROVE StampFacts'
  BY <1>1 DEF RunDelete, memory, world, StampFacts, StampsWereTold, Backs
<1>2. ASSUME NEW w \in Writers, RunGet(w) PROVE StampFacts'
  <2> DEFINE m == calls[w].message
             r == merged(calls[w], rows[m], parked[m])
  <2>1. calls[w].busy /\ m \in Messages
    BY <1>2, RunIsAwaited DEF RunGet, Is, Get, Access, Typed
  <2>2. Backs(m, r)
    <3>1. Backs(m, calls[w].given) /\ Backs(m, rows[m]) /\ Backs(m, parked[m])
      BY <2>1 DEF StampFacts, StampsWereTold
    <3> HIDE DEF m
    <3> QED BY <3>1 DEF Backs, merged
  <2>3. /\ calls' = [calls EXCEPT ![w].row = r] /\ parked' = [parked EXCEPT ![m] = Nothing]
        /\ UNCHANGED <<rows, pages, told>>
    BY <1>2 DEF RunGet, disk, world
  <2> HIDE DEF r
  <2>4. /\ calls'[w].message = m /\ calls'[w].row = r /\ calls'[w].given = calls[w].given
        /\ \A v \in Writers : v # w => calls'[v] = calls[v]
    BY <2>3 DEF Typed
  <2>5. \A v \in Writers : calls'[v].busy => /\ Backs(calls'[v].message, calls'[v].given)
                                             /\ Backs(calls'[v].message, calls'[v].row)
    BY <2>1, <2>2, <2>4 DEF StampFacts, StampsWereTold
  <2>6. \A n \in Messages : Backs(n, parked'[n])
    BY <2>3 DEF StampFacts, StampsWereTold, Backs, Nothing, Typed
  <2> QED BY <2>3, <2>5, <2>6 DEF StampFacts, StampsWereTold, Backs
<1>3. ASSUME NEW w \in Writers, RunPut(w) PROVE StampFacts'
  <2>1. calls[w].busy /\ calls[w].message \in Messages
    BY <1>3, RunIsAwaited DEF RunPut, Is, Put, Access, Typed
  <2>2. /\ rows' = [rows EXCEPT ![calls[w].message] = calls[w].row]
        /\ calls' = [calls EXCEPT ![w] = NoCall] /\ UNCHANGED <<parked, pages, told>>
    BY <1>3 DEF RunPut, world
  <2>3. \A n \in Messages : Backs(n, rows'[n])
    BY <2>1, <2>2 DEF StampFacts, StampsWereTold, Typed
  <2>4. \A v \in Writers : calls'[v].busy => calls'[v] = calls[v] /\ calls[v].busy
    BY <2>2 DEF Typed, NoCall
  <2> QED BY <2>2, <2>3, <2>4 DEF StampFacts, StampsWereTold, Backs
<1>4. ASSUME NEW m \in Messages, NEW f \in Receipts, RunStamp(m, f) PROVE StampFacts'
  <2>1. told[m][f] /\ UNCHANGED <<calls, pages, told>>
    BY <1>4, RunIsAwaited DEF RunStamp, world, Is, Stamp
  <2>2. \A n \in Messages : Backs(n, rows'[n])
    <3> SUFFICES ASSUME NEW n \in Messages PROVE Backs(n, rows'[n])
      OBVIOUS
    <3>1. rows \in [Messages -> Row] /\ rows[n] \in Row /\ Backs(n, rows[n])
      BY DEF Typed, StampFacts, StampsWereTold
    <3>2. rows'[n] = rows[n] \/ (n = m /\ rows'[n] = Stamped(rows[n], f))
      BY <1>4, <3>1, RowsStamped
    <3>3. CASE n = m /\ rows'[n] = Stamped(rows[n], f)
      <4>1. f = "readAt" \/ rows'[n].readAt = rows[n].readAt
        BY <3>1, <3>3, StampedRow
      <4>2. told[n].deliveredAt \/ told[n].readAt
        BY <2>1, <3>3 DEF Receipts
      <4>3. f = "readAt" => told[n].readAt
        BY <2>1, <3>3
      <4> QED BY <3>1, <4>1, <4>2, <4>3 DEF Backs
    <3> QED BY <3>1, <3>2, <3>3
  <2>3. \A n \in Messages : Backs(n, parked'[n])
    <3> SUFFICES ASSUME NEW n \in Messages PROVE Backs(n, parked'[n])
      OBVIOUS
    <3>1. parked \in [Messages -> Stamps] /\ parked[n] \in Stamps /\ Backs(n, parked[n])
      BY DEF Typed, StampFacts, StampsWereTold
    <3>2. parked'[n] = parked[n] \/ (n = m /\ parked'[n] = [parked[n] EXCEPT ![f] = TRUE])
      <4>1. parked' = parked \/ parked' = [parked EXCEPT ![m] = [@ EXCEPT ![f] = TRUE]]
        BY <1>4 DEF RunStamp
      <4> QED BY <3>1, <4>1
    <3>3. CASE n = m /\ parked'[n] = [parked[n] EXCEPT ![f] = TRUE]
      <4>1. f = "readAt" \/ parked'[n].readAt = parked[n].readAt
        <5>1. parked'[n] = [parked[n] EXCEPT ![f] = TRUE]
          BY <3>3
        <5> QED BY <3>1, <5>1, StampedPark
      <4>2. told[n].deliveredAt \/ told[n].readAt
        BY <2>1, <3>3 DEF Receipts
      <4>3. f = "readAt" => told[n].readAt
        BY <2>1, <3>3
      <4> QED BY <3>1, <4>1, <4>2, <4>3 DEF Backs
    <3> QED BY <3>1, <3>2, <3>3
  <2> QED BY <2>1, <2>2, <2>3 DEF StampFacts, StampsWereTold, Backs
<1>5. ASSUME RunSee PROVE StampFacts'
  <2>1. UNCHANGED <<parked, calls, pages, told>>
    BY <1>5 DEF RunSee, memory, world
  <2>2. \A n \in Messages : Backs(n, rows'[n])
    <3> SUFFICES ASSUME NEW n \in Messages PROVE Backs(n, rows'[n])
      OBVIOUS
    <3>1. rows[n] \in Row /\ Backs(n, rows[n])
      BY DEF Typed, StampFacts, StampsWereTold
    <3>2. rows'[n] \in {rows[n], [rows[n] EXCEPT !.seen = TRUE]}
      BY <1>5 DEF RunSee
    <3>3. rows'[n].deliveredAt = rows[n].deliveredAt /\ rows'[n].readAt = rows[n].readAt
      BY <3>1, <3>2, SeenRow
    <3> QED BY <2>1, <3>1, <3>3 DEF Backs
  <2> QED BY <2>1, <2>2 DEF StampFacts, StampsWereTold, Backs
<1>6. ASSUME NEW f \in Acks, RunMark(f) PROVE StampFacts'
  <2>1. UNCHANGED <<parked, calls, pages, told>>
    BY <1>6 DEF RunMark, world
  <2>2. \A n \in Messages : Backs(n, rows'[n])
    <3> SUFFICES ASSUME NEW n \in Messages PROVE Backs(n, rows'[n])
      OBVIOUS
    <3>1. rows[n] \in Row /\ Backs(n, rows[n])
      BY DEF Typed, StampFacts, StampsWereTold
    <3>2. rows'[n] \in {rows[n], [rows[n] EXCEPT ![f] = TRUE]}
      BY <1>6 DEF RunMark
    <3>3. rows'[n].deliveredAt = rows[n].deliveredAt /\ rows'[n].readAt = rows[n].readAt
      BY <3>1, <3>2, AckedRow
    <3> QED BY <2>1, <3>1, <3>3 DEF Backs
  <2> QED BY <2>1, <2>2 DEF StampFacts, StampsWereTold, Backs
<1>7. ASSUME NEW m \in Messages, Arrive(m) PROVE StampFacts'
  <2>1. UNCHANGED <<rows, parked, pages, told>>
    BY <1>7 DEF Arrive, disk
  <2>2. \A v \in Writers : \/ calls'[v] = calls[v]
                           \/ calls'[v].given = Nothing /\ calls'[v].row = NoRow
    BY <1>7 DEF Arrive, Call, Typed
  <2> QED BY <2>1, <2>2 DEF StampFacts, StampsWereTold, Backs, Nothing, NoRow
<1>8. ASSUME NEW m \in Messages, Miss(m) PROVE StampFacts'
  BY <1>8 DEF Miss, disk, memory, StampFacts, StampsWereTold, Backs
<1>9. ASSUME NEW b \in Backfills, Fetch(b) PROVE StampFacts'
  <2>1. UNCHANGED <<rows, parked, calls, told>>
    BY <1>9 DEF Fetch, disk, world
  <2>2. \A a \in Backfills : \A e \in pages'[a] :
            e \in pages[a] \/ \E m \in Messages : e = [message |-> m, given |-> told[m]]
    BY <1>9 DEF Fetch, Typed
  <2>3. \A a \in Backfills : \A e \in pages'[a] : Backs(e.message, e.given)
    BY <2>2 DEF StampFacts, Backs
  <2> QED BY <2>1, <2>3 DEF StampFacts, StampsWereTold, Backs
<1>10. ASSUME NEW b \in Backfills, StoreNext(b) PROVE StampFacts'
  <2>1. UNCHANGED <<rows, parked, told>>
    BY <1>10 DEF StoreNext, disk, world
  <2>2. PICK e \in pages[b] : /\ calls' = [calls EXCEPT ![b] = Call(e.message, FALSE, e.given)]
                              /\ pages' = [pages EXCEPT ![b] = @ \ {e}]
    BY <1>10 DEF StoreNext
  <2>3. Backs(e.message, e.given) /\ Backs(e.message, NoRow)
    BY DEF StampFacts, Backs, NoRow
  <2>4. \A v \in Writers : \/ calls'[v] = calls[v]
                           \/ /\ calls'[v].message = e.message /\ calls'[v].given = e.given
                              /\ calls'[v].row = NoRow
    BY <2>2 DEF Call, Typed
  <2>5. \A v \in Writers : calls'[v].busy => /\ Backs(calls'[v].message, calls'[v].given)
                                             /\ Backs(calls'[v].message, calls'[v].row)
    BY <2>3, <2>4 DEF StampFacts, StampsWereTold
  <2>6. \A a \in Backfills : pages'[a] \subseteq pages[a]
    BY <2>2 DEF Typed
  <2> QED BY <2>1, <2>5, <2>6 DEF StampFacts, StampsWereTold, Backs
<1>11. ASSUME NEW m \in Messages, NEW f \in Receipts, Tell(m, f) PROVE StampFacts'
  <2>1. UNCHANGED <<rows, parked, calls, pages>>
    BY <1>11 DEF Tell, disk, memory
  <2>2. \A n \in Messages : /\ told[n].readAt => told'[n].readAt
                            /\ told[n].deliveredAt => told'[n].deliveredAt
    BY <1>11, ToldStamps DEF Receipts
  <2>3. \A n \in Messages : Backs(n, rows[n])' /\ Backs(n, parked[n])'
    BY <2>1, <2>2 DEF Backs, StampFacts, StampsWereTold
  <2>4. \A w \in Writers : calls[w].busy => /\ Backs(calls[w].message, calls[w].given)'
                                            /\ Backs(calls[w].message, calls[w].row)'
    BY <2>1, <2>2 DEF Backs, StampFacts, StampsWereTold, Typed
  <2>5. \A b \in Backfills : \A e \in pages[b] : e.message \in Messages
    BY DEF Typed
  <2>6. \A b \in Backfills : \A e \in pages[b] : Backs(e.message, e.given)'
    BY <2>1, <2>2, <2>5 DEF Backs, StampFacts
  <2> QED BY <2>1, <2>3, <2>4, <2>6 DEF StampFacts, StampsWereTold
<1>12. ASSUME NEW m \in Messages, NEW f \in Receipts, Poll(m, f) \/ HandleReceipt(m, f)
       PROVE  StampFacts'
  BY <1>12 DEF Poll, HandleReceipt, disk, memory, StampFacts, StampsWereTold, Backs
<1>13. ASSUME OpenChat PROVE StampFacts'
  BY <1>13 DEF OpenChat, disk, memory, world, StampFacts, StampsWereTold, Backs
<1>14. ASSUME NEW f \in Acks,
              RunCollect(f) \/ Sweep(f) \/ SweepSend(f) \/ SweepRefused(f)
       PROVE  StampFacts'
  BY <1>14 DEF RunCollect, Sweep, SweepSend, SweepRefused, disk, world, StampFacts,
               StampsWereTold, Backs
<1>15. ASSUME Reload PROVE StampFacts'
  BY <1>15 DEF Reload, disk, StampFacts, StampsWereTold, Backs, Nothing, NoCall
<1>16. CASE UNCHANGED vars
  BY <1>16 DEF vars, disk, memory, world, StampFacts, StampsWereTold, Backs
<1> QED
  BY <1>1, <1>2, <1>3, <1>4, <1>5, <1>6, <1>7, <1>8, <1>9, <1>10, <1>11, <1>12, <1>13, <1>14,
     <1>15, <1>16 DEF Next, Run

-----------------------------------------------------------------------------
(* Read receipts *)

(* A row of the peer's that says seen was on screen, so what the read      *)
(* sweep collects was, and what it sends.                                  *)
SeenFacts ==
    /\ \A m \in Theirs : rows[m].seen => m \in shown
    /\ sweeps["readAck"].ids \subseteq shown
    /\ OnlyOpenedIsReported

LEMMA SeenFactsInit == Init => SeenFacts
BY DEF Init, SeenFacts, OnlyOpenedIsReported, NoRow, NoSweep, Acks, Theirs

LEMMA SeenFactsStep == Typed /\ Queued /\ SeenFacts /\ [Next]_vars => SeenFacts'
<1> SUFFICES ASSUME Typed, Queued, SeenFacts, [Next]_vars PROVE SeenFacts'
  OBVIOUS
<1> USE Members
<1>1. ASSUME NEW w \in Writers, RunDelete(w) \/ RunGet(w) PROVE SeenFacts'
  BY <1>1 DEF RunDelete, RunGet, disk, memory, history, SeenFacts, OnlyOpenedIsReported
<1>2. ASSUME NEW w \in Writers, RunPut(w) PROVE SeenFacts'
  <2>1. calls[w].busy /\ calls[w].message \in Messages
    BY <1>2, RunIsAwaited DEF RunPut, Is, Put, Access, Typed
  <2>2. /\ rows' = [rows EXCEPT ![calls[w].message] = calls[w].row]
        /\ shown' = IF calls[w].row.seen THEN shown \cup {calls[w].message} ELSE shown
        /\ UNCHANGED <<sweeps, sent>>
    BY <1>2 DEF RunPut
  <2>3. \A m \in Theirs : rows'[m].seen => m \in shown'
    BY <2>1, <2>2 DEF SeenFacts, Typed, Theirs
  <2> QED BY <2>2, <2>3 DEF SeenFacts, OnlyOpenedIsReported
<1>3. ASSUME NEW m \in Messages, NEW f \in Receipts, RunStamp(m, f) PROVE SeenFacts'
  <2>1. UNCHANGED <<sweeps, sent, shown>>
    BY <1>3 DEF RunStamp, history
  <2>2. ASSUME NEW n \in Theirs PROVE rows'[n].seen = rows[n].seen
    <3>1. rows \in [Messages -> Row] /\ n \in Messages /\ rows[n] \in Row
      BY DEF Typed, Theirs
    <3>2. rows'[n] = rows[n] \/ rows'[n] = Stamped(rows[n], f)
      BY <1>3, <3>1, RowsStamped
    <3>3. CASE rows'[n] = Stamped(rows[n], f)
      BY <3>1, <3>3, StampedRow
    <3> QED BY <3>2, <3>3
  <2> QED BY <2>1, <2>2 DEF SeenFacts, OnlyOpenedIsReported
<1>4. ASSUME RunSee PROVE SeenFacts'
  <2> DEFINE unseen == {m \in Theirs : rows[m].held /\ ~rows[m].seen}
  <2>1. /\ shown' = shown \cup unseen /\ UNCHANGED <<sweeps, sent>>
        /\ \A n \in Messages : n \notin unseen => rows'[n] = rows[n]
    BY <1>4 DEF RunSee, memory
  <2> QED BY <2>1 DEF SeenFacts, OnlyOpenedIsReported, Theirs
<1>5. ASSUME NEW f \in Acks, RunCollect(f) PROVE SeenFacts'
  <2>1. UNCHANGED <<rows, sent, shown>>
    BY <1>5 DEF RunCollect, disk, history
  <2>2. unsentReceiptIds("readAck") \subseteq shown
    BY DEF unsentReceiptIds, SeenFacts
  <2>3. "readAck" \in Acks /\ \/ sweeps'["readAck"] = sweeps["readAck"]
                              \/ sweeps'["readAck"].ids = {}
                              \/ sweeps'["readAck"].ids = unsentReceiptIds("readAck")
    <3>1. CASE f = "readAck"
      <4>1. sweeps'[f] = IF unsentReceiptIds(f) = {} THEN NoSweep
                         ELSE [step |-> "send", ids |-> unsentReceiptIds(f)]
        BY <1>5 DEF RunCollect, Typed
      <4> QED BY <3>1, <4>1 DEF NoSweep, Acks
    <3>2. CASE f # "readAck"
      BY <1>5, <3>2 DEF RunCollect, Typed, Acks
    <3> QED BY <3>1, <3>2
  <2> QED BY <2>1, <2>2, <2>3 DEF SeenFacts, OnlyOpenedIsReported
<1>6. ASSUME NEW f \in Acks, RunMark(f) PROVE SeenFacts'
  <2>1. UNCHANGED <<sent, shown>> /\ sweeps' = [sweeps EXCEPT ![f] = NoSweep]
    BY <1>6 DEF RunMark, history
  <2>2. ASSUME NEW n \in Theirs PROVE rows'[n].seen = rows[n].seen
    <3>1. n \in Messages /\ rows[n] \in Row
      BY DEF Typed, Theirs
    <3>2. rows'[n] \in {rows[n], [rows[n] EXCEPT ![f] = TRUE]}
      BY <1>6, <3>1 DEF RunMark
    <3> QED BY <3>1, <3>2, AckedRow
  <2>3. sweeps'["readAck"].ids \subseteq sweeps["readAck"].ids
    BY <2>1 DEF NoSweep, Typed, Acks
  <2> QED BY <2>1, <2>2, <2>3 DEF SeenFacts, OnlyOpenedIsReported
<1>7. ASSUME NEW m \in Messages, Arrive(m) \/ Miss(m) PROVE SeenFacts'
  BY <1>7 DEF Arrive, Miss, disk, memory, history, SeenFacts, OnlyOpenedIsReported
<1>8. ASSUME NEW b \in Backfills, Fetch(b) \/ StoreNext(b) PROVE SeenFacts'
  BY <1>8 DEF Fetch, StoreNext, disk, history, SeenFacts, OnlyOpenedIsReported
<1>9. ASSUME NEW m \in Messages, NEW f \in Receipts,
             Tell(m, f) \/ Poll(m, f) \/ HandleReceipt(m, f)
      PROVE  SeenFacts'
  BY <1>9 DEF Tell, Poll, HandleReceipt, disk, memory, history, SeenFacts, OnlyOpenedIsReported
<1>10. ASSUME OpenChat PROVE SeenFacts'
  BY <1>10 DEF OpenChat, disk, memory, history, SeenFacts, OnlyOpenedIsReported
<1>11. ASSUME NEW f \in Acks, Sweep(f) \/ SweepRefused(f) PROVE SeenFacts'
  <2>1. UNCHANGED <<rows, sent, shown>>
    BY <1>11 DEF Sweep, SweepRefused, disk, history
  <2>2. sweeps'["readAck"].ids \subseteq sweeps["readAck"].ids
    BY <1>11 DEF Sweep, SweepRefused, NoSweep, Typed, Acks
  <2> QED BY <2>1, <2>2 DEF SeenFacts, OnlyOpenedIsReported
<1>12. ASSUME NEW f \in Acks, SweepSend(f) PROVE SeenFacts'
  <2>1. /\ sent' = [sent EXCEPT ![f] = @ \cup sweeps[f].ids]
        /\ sweeps' = [sweeps EXCEPT ![f].step = "mark"] /\ UNCHANGED <<rows, shown>>
    BY <1>12 DEF SweepSend, disk
  <2>2. "readAck" \in Acks /\ sweeps'["readAck"].ids = sweeps["readAck"].ids
    BY <2>1 DEF Typed, Acks
  <2>3. sent'["readAck"] \subseteq sent["readAck"] \cup sweeps["readAck"].ids
    BY <2>1, <2>2 DEF Typed
  <2> QED BY <2>1, <2>2, <2>3 DEF SeenFacts, OnlyOpenedIsReported
<1>13. ASSUME Reload PROVE SeenFacts'
  BY <1>13 DEF Reload, disk, SeenFacts, OnlyOpenedIsReported, NoSweep, Acks
<1>14. CASE UNCHANGED vars
  BY <1>14 DEF vars, disk, memory, history, SeenFacts, OnlyOpenedIsReported
<1> QED
  BY <1>1, <1>2, <1>3, <1>4, <1>5, <1>6, <1>7, <1>8, <1>9, <1>10, <1>11, <1>12, <1>13, <1>14
     DEF Next, Run

-----------------------------------------------------------------------------
(* The theorems *)

(* Every variable stays in its type, whatever transactions are queued      *)
(* (localStore.ts: the shapes the store's functions read and write).       *)
THEOREM TypeCorrect == Spec => []TypeOK
<1>1. Init => Typed /\ Queued
  BY TypedInit, QueuedInit
<1>2. Typed /\ Queued /\ [Next]_vars => (Typed /\ Queued)'
  BY TypedStep, QueuedStep
<1>3. Typed /\ Queued => TypeOK
  BY DEF Typed, Queued, TypeOK
<1> QED BY <1>1, <1>2, <1>3, PTL DEF Spec

(* A row is acknowledged only after its receipt was put on the socket, for *)
(* any number of writers between a sweep's transactions (localStore.ts     *)
(* markAck, putMessage; sync.js sweepReceipts).                            *)
THEOREM AcknowledgedWasSent == Spec => []AckedWasSent
<1>1. Init => Typed /\ Queued /\ AckFacts
  BY TypedInit, QueuedInit, AckFactsInit
<1>2. Typed /\ Queued /\ AckFacts /\ [Next]_vars => (Typed /\ Queued /\ AckFacts)'
  BY TypedStep, QueuedStep, AckFactsStep
<1>3. Typed /\ AckFacts => AckedWasSent
  BY AckFactsHold
<1> QED BY <1>1, <1>2, <1>3, PTL DEF Spec

(* No tick is invented between the relay's answer, a parked receipt and a  *)
(* row written from an older read (localStore.ts putMessage, markReceipt). *)
THEOREM NoTickIsInvented == Spec => []StampsWereTold
<1>1. Init => Typed /\ Queued /\ StampFacts
  BY TypedInit, QueuedInit, StampFactsInit
<1>2. Typed /\ Queued /\ StampFacts /\ [Next]_vars => (Typed /\ Queued /\ StampFacts)'
  BY TypedStep, QueuedStep, StampFactsStep
<1>3. StampFacts => StampsWereTold
  BY DEF StampFacts
<1> QED BY <1>1, <1>2, <1>3, PTL DEF Spec

(* A read receipt names only messages that were on screen, however often a *)
(* backfill writes the row back as unseen (localStore.ts                   *)
(* unreadAckedMessageIds, markSeen).                                       *)
THEOREM OnlyTheOpenedIsReported == Spec => []OnlyOpenedIsReported
<1>1. Init => Typed /\ Queued /\ SeenFacts
  BY TypedInit, QueuedInit, SeenFactsInit
<1>2. Typed /\ Queued /\ SeenFacts /\ [Next]_vars => (Typed /\ Queued /\ SeenFacts)'
  BY TypedStep, QueuedStep, SeenFactsStep
<1>3. SeenFacts => OnlyOpenedIsReported
  BY DEF SeenFacts
<1> QED BY <1>1, <1>2, <1>3, PTL DEF Spec
=============================================================================
