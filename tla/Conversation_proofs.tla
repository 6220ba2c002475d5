------------------------- MODULE Conversation_proofs -------------------------
(***************************************************************************)
(* What holds of Conversation for any kinds of payload that include texts, *)
(* any page of one row or more, and any bounds.                            *)
(*                                                                         *)
(* Live is the messages there are, on the relay and on the device.  The    *)
(* logs only grow (LogsNext), so what an entry says it says for good.      *)
(* Honest is the set of bubbles that are what their author made of them;   *)
(* it grows with the logs, a fold of live rows yields nothing else         *)
(* (PresentHonest), and all that is on screen or read and not yet shown is *)
(* made of it.  OnlyAuthorsAlter is that, read off the view and the list.  *)
(*                                                                         *)
(* NewestPageIsExact is no matter of steps: it holds of any set of live    *)
(* rows.  Folding all of them ends with what folding the newest page gives *)
(* (SuffixExact), since a row of the page cannot change a bubble in a way  *)
(* that depends on what came before it; and rows are distinct, so that     *)
(* what comes before has no id of the page.                                *)
(*                                                                         *)
(* The folds of the model are recursive functions.  What they yield for    *)
(* every length is shown by induction, stated of a set of numbers          *)
(* (SetInduction): a set that has 0 and what follows each of its members   *)
(* is Nat, or its complement had a least element.                          *)
(***************************************************************************)
EXTENDS Conversation, FiniteSetTheorems, WellFoundedInduction, TLAPS

-----------------------------------------------------------------------------
(* Induction and the folds *)

(* Induction, as a statement about a set of numbers.                       *)
LEMMA SetInduction ==
    ASSUME NEW T \in SUBSET Nat, 0 \in T, \A n \in T : n + 1 \in T
    PROVE  T = Nat
<1> DEFINE C == Nat \ T
<1> SUFFICES ASSUME C # {} PROVE FALSE  OBVIOUS
<1>1. \E x \in C : \A y \in C : ~ (<<y, x>> \in OpToRel(<, Nat))
    <2> C \in SUBSET Nat OBVIOUS
    <2> QED BY NatLessThanWellFounded, WFMin
<1>2. \A x, y \in Nat : y < x => <<y, x>> \in OpToRel(<, Nat)
    BY DEF OpToRel
<1>3. PICK x \in C : \A y \in C : ~ (y < x)
    BY <1>1, <1>2, Zenon
<1>4. QED  BY <1>3

(* The recursive functions of presentMessages and filter.                  *)
IsShown(g, page, n) ==
    g = [i \in 0..n |-> IF i = 0 THEN <<>> ELSE Folded(g[i - 1], page[i])]

IsKept(g, s, I, n) ==
    g = [i \in 0..n |->
            IF i = 0 THEN <<>> ELSE IF i \in I THEN Append(g[i - 1], s[i]) ELSE g[i - 1]]

(* A function that is folded over a page exists, whatever the length.      *)
LEMMA ShownExists == \A n \in Nat : \A page : \E g : IsShown(g, page, n)
<1> SUFFICES ASSUME NEW page PROVE \A n \in Nat : \E g : IsShown(g, page, n)  OBVIOUS
<1> DEFINE T == {n \in Nat : \E g : IsShown(g, page, n)}
<1>1. 0 \in T
    <2>1. IsShown([i \in 0..0 |-> <<>>], page, 0)  BY DEF IsShown
    <2> QED  BY <2>1
<1>2. ASSUME NEW n \in T PROVE n + 1 \in T
    <2>1. PICK g : IsShown(g, page, n)  OBVIOUS
    <2> DEFINE h == [i \in 0..(n + 1) |-> IF i <= n THEN g[i] ELSE Folded(g[n], page[n + 1])]
    <2>2. \A i \in 0..(n + 1) : h[i] = IF i = 0 THEN <<>> ELSE Folded(h[i - 1], page[i])
        <3> SUFFICES ASSUME NEW i \in 0..(n + 1)
                     PROVE  h[i] = IF i = 0 THEN <<>> ELSE Folded(h[i - 1], page[i])  OBVIOUS
        <3>1. CASE i = n + 1
            <4>1. h[n] = g[n] /\ h[i] = Folded(g[n], page[n + 1]) /\ i - 1 = n /\ i # 0  BY <3>1
            <4> QED  BY <4>1, <3>1
        <3>2. CASE i = 0  BY <2>1, <3>2 DEF IsShown
        <3>3. CASE i \in 1..n
            <4>1. h[i - 1] = g[i - 1] /\ h[i] = g[i]  BY <3>3
            <4>2. g[i] = Folded(g[i - 1], page[i])  BY <2>1, <3>3 DEF IsShown
            <4> QED  BY <4>1, <4>2, <3>3
        <3> QED  BY <3>1, <3>2, <3>3
    <2>3. IsShown(h, page, n + 1)
        <3> HIDE DEF h
        <3> h = [i \in 0..(n + 1) |-> h[i]]  BY DEF h
        <3> QED  BY <2>2 DEF IsShown
    <2> QED  BY <2>3
<1>3. T = Nat  BY <1>1, <1>2, SetInduction
<1> QED  BY <1>3

(* So does the function of filter.                                         *)
LEMMA KeptExists == \A n \in Nat : \A s, I : \E g : IsKept(g, s, I, n)
<1> SUFFICES ASSUME NEW s, NEW I PROVE \A n \in Nat : \E g : IsKept(g, s, I, n)  OBVIOUS
<1> DEFINE T == {n \in Nat : \E g : IsKept(g, s, I, n)}
           Next1(kept, i) == IF i \in I THEN Append(kept, s[i]) ELSE kept
<1>1. 0 \in T
    <2>1. IsKept([i \in 0..0 |-> <<>>], s, I, 0)  BY DEF IsKept
    <2> QED  BY <2>1
<1>2. ASSUME NEW n \in T PROVE n + 1 \in T
    <2>1. PICK g : IsKept(g, s, I, n)  OBVIOUS
    <2> DEFINE h == [i \in 0..(n + 1) |-> IF i <= n THEN g[i] ELSE Next1(g[n], n + 1)]
    <2>2. \A i \in 0..(n + 1) : h[i] = IF i = 0 THEN <<>> ELSE Next1(h[i - 1], i)
        <3> SUFFICES ASSUME NEW i \in 0..(n + 1)
                     PROVE  h[i] = IF i = 0 THEN <<>> ELSE Next1(h[i - 1], i)  OBVIOUS
        <3>1. CASE i = n + 1
            <4>1. h[n] = g[n] /\ h[i] = Next1(g[n], n + 1) /\ i - 1 = n /\ i # 0  BY <3>1
            <4> QED  BY <4>1, <3>1
        <3>2. CASE i = 0  BY <2>1, <3>2 DEF IsKept
        <3>3. CASE i \in 1..n
            <4>1. h[i - 1] = g[i - 1] /\ h[i] = g[i]  BY <3>3
            <4>2. i \in 0..n /\ i # 0  BY <3>3
            <4>3. g[i] = Next1(g[i - 1], i)  BY <2>1, <4>2, Zenon DEF IsKept
            <4> QED  BY <4>1, <4>3, <3>3
        <3> QED  BY <3>1, <3>2, <3>3
    <2>3. IsKept(h, s, I, n + 1)
        <3> HIDE DEF h
        <3> h = [i \in 0..(n + 1) |-> h[i]]  BY DEF h
        <3> QED  BY <2>2 DEF IsKept
    <2> QED  BY <2>3
<1>3. T = Nat  BY <1>1, <1>2, SetInduction
<1> QED  BY <1>3

(* What presentMessages is: the fold's value at every message of the page. *)
LEMMA Presented ==
    ASSUME NEW page, Len(page) \in Nat
    PROVE  \E g : /\ IsShown(g, page, Len(page))
                 /\ presentMessages(page) = g[Len(page)]
<1> DEFINE g == CHOOSE g : IsShown(g, page, Len(page))
<1>1. IsShown(g, page, Len(page))  BY ShownExists
<1>2. presentMessages(page) = g[Len(page)]  BY DEF presentMessages, IsShown
<1> QED  BY <1>1, <1>2

(* filter is the last value of its function.                               *)
LEMMA Filtered ==
    ASSUME NEW s, NEW I, Len(s) \in Nat
    PROVE  \E g : /\ IsKept(g, s, I, Len(s))
                 /\ filter(s, I) = g[Len(s)]
<1> DEFINE g == CHOOSE g : IsKept(g, s, I, Len(s))
<1>1. IsKept(g, s, I, Len(s))  BY KeptExists
<1>2. filter(s, I) = g[Len(s)]  BY DEF filter, IsKept
<1> QED  BY <1>1, <1>2

(* The page of one message more is the page, with that message folded in.  *)
LEMMA PresentEmpty == presentMessages(<<>>) = <<>>
<1>1. PICK g : IsShown(g, <<>>, 0) /\ presentMessages(<<>>) = g[0]  BY Presented
<1> QED  BY <1>1 DEF IsShown

(* One more row on a page is folded in last.                               *)
LEMMA PresentMore ==
    ASSUME NEW S, NEW p \in Seq(S), NEW q \in Seq(S), Len(p) = Len(q) + 1,
           \A i \in 1..Len(q) : p[i] = q[i]
    PROVE  presentMessages(p) = Folded(presentMessages(q), p[Len(p)])
<1> DEFINE n == Len(q)
<1> n \in Nat /\ Len(p) = n + 1  OBVIOUS
<1>1. PICK g : IsShown(g, q, n) /\ presentMessages(q) = g[n]  BY Presented
<1>2. PICK h : IsShown(h, p, n + 1) /\ presentMessages(p) = h[n + 1]  BY Presented
<1> DEFINE T == {i \in Nat : i <= n => g[i] = h[i]}
<1>3. 0 \in T  BY <1>1, <1>2 DEF IsShown
<1>4. ASSUME NEW i \in T PROVE i + 1 \in T
    <2> SUFFICES ASSUME i + 1 <= n PROVE g[i + 1] = h[i + 1]  OBVIOUS
    <2>1. i + 1 \in 0..n /\ i + 1 \in 0..(n + 1) /\ i + 1 # 0 /\ (i + 1) - 1 = i  OBVIOUS
    <2>2. g[i + 1] = Folded(g[i], q[i + 1])  BY <1>1, <2>1 DEF IsShown
    <2>3. h[i + 1] = Folded(h[i], p[i + 1])  BY <1>2, <2>1 DEF IsShown
    <2>4. g[i] = h[i]  OBVIOUS
    <2>5. p[i + 1] = q[i + 1]  OBVIOUS
    <2> QED  BY <2>2, <2>3, <2>4, <2>5
<1>5. T = Nat  BY <1>3, <1>4, SetInduction
<1>6. g[n] = h[n]  BY <1>5
<1>7. h[n + 1] = Folded(h[n], p[n + 1])
    <2>1. n + 1 \in 0..(n + 1) /\ n + 1 # 0 /\ (n + 1) - 1 = n  OBVIOUS
    <2> QED  BY <1>2, <2>1 DEF IsShown
<1> QED  BY <1>1, <1>2, <1>6, <1>7

(* What a filter keeps is a sequence of the same elements.                 *)
LEMMA FilterType ==
    ASSUME NEW S, NEW s \in Seq(S), NEW I
    PROVE  filter(s, I) \in Seq(S)
<1> DEFINE n == Len(s)
<1> n \in Nat  OBVIOUS
<1>1. PICK g : IsKept(g, s, I, n) /\ filter(s, I) = g[n]  BY Filtered
<1> DEFINE T == {i \in Nat : i <= n => g[i] \in Seq(S)}
<1>2. 0 \in T
    <2>1. g[0] = <<>>  BY <1>1 DEF IsKept
    <2>2. <<>> \in Seq(S)  OBVIOUS
    <2> QED  BY <2>1, <2>2
<1>3. ASSUME NEW i \in T PROVE i + 1 \in T
    <2> SUFFICES ASSUME i + 1 <= n PROVE g[i + 1] \in Seq(S)  OBVIOUS
    <2>1. i + 1 \in 0..n /\ i + 1 # 0 /\ (i + 1) - 1 = i  OBVIOUS
    <2>2. g[i + 1] = IF i + 1 \in I THEN Append(g[i], s[i + 1]) ELSE g[i]
        BY <1>1, <2>1 DEF IsKept
    <2>3. g[i] \in Seq(S) /\ s[i + 1] \in S  OBVIOUS
    <2> QED  BY <2>2, <2>3
<1>4. T = Nat  BY <1>2, <1>3, SetInduction
<1> QED  BY <1>1, <1>4

(* Keeping the places after the first m keeps what follows them.           *)
LEMMA FilterTail ==
    ASSUME NEW S, NEW s \in Seq(S), NEW m \in 0..Len(s)
    PROVE  /\ Len(filter(s, (m + 1)..Len(s))) = Len(s) - m
           /\ \A j \in 1..(Len(s) - m) : filter(s, (m + 1)..Len(s))[j] = s[m + j]
<1> DEFINE n == Len(s)
           I == (m + 1)..n
           Tail1(k, i) == IF i <= m THEN k = <<>>
                          ELSE Len(k) = i - m /\ \A j \in 1..(i - m) : k[j] = s[m + j]
<1> n \in Nat /\ m \in Nat  OBVIOUS
<1>1. PICK g : IsKept(g, s, I, n) /\ filter(s, I) = g[n]  BY Filtered
<1> DEFINE T == {i \in Nat : i <= n => g[i] \in Seq(S) /\ Tail1(g[i], i)}
<1>2. 0 \in T
    <2>1. g[0] = <<>>  BY <1>1 DEF IsKept
    <2>2. <<>> \in Seq(S)  OBVIOUS
    <2>3. g[0] \in Seq(S) /\ Tail1(g[0], 0)  BY <2>1, <2>2
    <2> HIDE DEF Tail1
    <2> QED  BY <2>3
<1>3. ASSUME NEW i \in T PROVE i + 1 \in T
    <2> SUFFICES ASSUME i + 1 <= n PROVE g[i + 1] \in Seq(S) /\ Tail1(g[i + 1], i + 1)  OBVIOUS
    <2>1. i + 1 \in 0..n /\ i + 1 # 0 /\ (i + 1) - 1 = i  OBVIOUS
    <2>2. g[i + 1] = IF i + 1 \in I THEN Append(g[i], s[i + 1]) ELSE g[i]
        BY <1>1, <2>1 DEF IsKept
    <2>3. g[i] \in Seq(S) /\ Tail1(g[i], i) /\ s[i + 1] \in S  OBVIOUS
    <2>4. CASE i + 1 <= m
        <3>1. g[i + 1] = g[i]  BY <2>2, <2>4
        <3> QED  BY <3>1, <2>3, <2>4
    <2>5. CASE i + 1 > m
        <3>1. g[i + 1] = Append(g[i], s[i + 1])  BY <2>2, <2>5
        <3>2. Len(g[i]) = i - m  BY <2>3, <2>5
        <3>3. \A j \in 1..(i - m) : g[i][j] = s[m + j]  BY <2>3, <2>5
        <3>4. Len(g[i + 1]) = (i + 1) - m  BY <3>1, <3>2, <2>3
        <3>5. ASSUME NEW j \in 1..((i + 1) - m) PROVE g[i + 1][j] = s[m + j]
            <4>1. CASE j = (i + 1) - m
                <5>1. j = Len(g[i]) + 1 /\ m + j = i + 1  BY <4>1, <3>2, <2>5
                <5> QED  BY <5>1, <3>1, <2>3
            <4>2. CASE j # (i + 1) - m
                <5>1. j \in 1..(i - m)  BY <4>2, <2>5
                <5> QED  BY <5>1, <3>1, <3>2, <3>3, <2>3
            <4> QED  BY <4>1, <4>2
        <3>6. g[i + 1] \in Seq(S)  BY <3>1, <2>3
        <3> QED  BY <3>4, <3>5, <3>6, <2>5
    <2> QED  BY <2>4, <2>5
<1>4. T = Nat  BY <1>2, <1>3, SetInduction
<1>5. Tail1(g[n], n)  BY <1>4
<1> QED  BY <1>1, <1>5

-----------------------------------------------------------------------------
(* The index *)

rank(held, r) == Cardinality({q \in held : Before(q, r)})

(* The rank of a row is its place in the index.                            *)
LEMMA Ranks ==
    ASSUME NEW held \in SUBSET Int, IsFiniteSet(held), \A r \in held : At(r) \in Int
    PROVE  /\ Cardinality(held) \in Nat
           /\ \A r \in held : rank(held, r) \in 0..(Cardinality(held) - 1)
           /\ \A r, q \in held : rank(held, r) = rank(held, q) => r = q
           /\ \A k \in 1..Cardinality(held) : \E r \in held : rank(held, r) = k - 1
<1> DEFINE n == Cardinality(held)
           below(r) == {q \in held : Before(q, r)}
<1>1. n \in Nat  BY FS_CardinalityType
<1>2. ASSUME NEW r \in held PROVE IsFiniteSet(below(r)) /\ rank(held, r) \in 0..(n - 1)
    <2>1. ~ Before(r, r)  BY DEF Before
    <2>2. below(r) \in SUBSET (held \ {r})  BY <2>1
    <2>3. IsFiniteSet(held \ {r}) /\ Cardinality(held \ {r}) = n - 1  BY FS_RemoveElement
    <2>4. IsFiniteSet(below(r)) /\ Cardinality(below(r)) <= n - 1  BY <2>2, <2>3, FS_Subset
    <2>5. Cardinality(below(r)) \in Nat  BY <2>4, FS_CardinalityType
    <2> QED  BY <2>4, <2>5, <1>1 DEF rank
<1>3. ASSUME NEW r \in held, NEW q \in held, Before(q, r) PROVE rank(held, q) < rank(held, r)
    <2>1. below(q) \in SUBSET below(r)
        <3>1. ASSUME NEW x \in held, Before(x, q) PROVE Before(x, r)
            <4>1. At(x) \in Int /\ At(q) \in Int /\ At(r) \in Int /\ x \in Int /\ q \in Int /\ r \in Int
                OBVIOUS
            <4> QED  BY <4>1, <3>1, <1>3 DEF Before
        <3> QED  BY <3>1
    <2>2. q \in below(r) /\ q \notin below(q)  BY <1>3 DEF Before
    <2>3. Cardinality(below(q)) <= Cardinality(below(r)) /\ Cardinality(below(q)) # Cardinality(below(r))
        BY <2>1, <2>2, <1>2, FS_Subset
    <2>4. Cardinality(below(q)) \in Nat /\ Cardinality(below(r)) \in Nat  BY <1>2, FS_CardinalityType
    <2> QED  BY <2>3, <2>4 DEF rank
<1>4. ASSUME NEW r \in held, NEW q \in held, rank(held, r) = rank(held, q) PROVE r = q
    <2>1. r = q \/ Before(r, q) \/ Before(q, r)  BY DEF Before
    <2>2. rank(held, r) \in Int /\ rank(held, q) \in Int
        <3>1. rank(held, r) \in 0..(n - 1)  BY <1>2
        <3>2. rank(held, q) \in 0..(n - 1)  BY <1>2
        <3> QED  BY <3>1, <3>2, <1>1
    <2>3. ~ Before(r, q) /\ ~ Before(q, r)  BY <2>2, <1>3, <1>4
    <2> QED  BY <2>1, <2>3
<1> DEFINE f == [r \in held |-> rank(held, r)]
<1>5. f \in Injection(held, 0..(n - 1))
    <2>1. f \in [held -> 0..(n - 1)]  BY <1>2
    <2>2. \A r, q \in held : f[r] = f[q] => r = q  BY <1>4
    <2> QED  BY <2>1, <2>2 DEF Injection, IsInjective
<1>6. IsFiniteSet(0..(n - 1)) /\ Cardinality(0..(n - 1)) = n  BY <1>1, FS_Interval
<1>7. f \in Surjection(held, 0..(n - 1))  BY <1>5, <1>6, FS_Injection
<1>8. ASSUME NEW k \in 1..n PROVE \E r \in held : rank(held, r) = k - 1
    <2>1. k - 1 \in 0..(n - 1)  BY <1>1
    <2>2. PICK r \in held : f[r] = k - 1  BY <2>1, <1>7 DEF Surjection
    <2> QED  BY <2>2
<1> QED  BY <1>1, <1>2, <1>4, <1>8

(* The index lists every row once.                                         *)
LEMMA Index ==
    ASSUME NEW held \in SUBSET Int, IsFiniteSet(held), \A r \in held : At(r) \in Int
    PROVE  /\ Cardinality(held) \in Nat
           /\ byConversation(held) \in Seq(held)
           /\ Len(byConversation(held)) = Cardinality(held)
           /\ \A i, j \in 1..Cardinality(held) :
                 byConversation(held)[i] = byConversation(held)[j] => i = j
           /\ \A r \in held : \E i \in 1..Cardinality(held) : byConversation(held)[i] = r
<1> DEFINE n == Cardinality(held)
           s == byConversation(held)
<1>1. n \in Nat  BY Ranks
<1>2. s = [k \in 1..n |-> CHOOSE r \in held : rank(held, r) = k - 1]  BY DEF byConversation, rank
<1>3. ASSUME NEW k \in 1..n PROVE s[k] \in held /\ rank(held, s[k]) = k - 1
    <2>1. \E r \in held : rank(held, r) = k - 1  BY Ranks
    <2>2. s[k] = CHOOSE r \in held : rank(held, r) = k - 1  BY <1>2
    <2> QED  BY <2>1, <2>2
<1>4. s \in Seq(held) /\ Len(s) = n
    <2>1. s = [k \in 1..n |-> s[k]]  BY <1>2
    <2>2. s \in [1..n -> held]  BY <2>1, <1>3
    <2> QED  BY <2>2, <1>1
<1>5. ASSUME NEW i \in 1..n, NEW j \in 1..n, s[i] = s[j] PROVE i = j
    <2>1. i - 1 = j - 1  BY <1>3, <1>5
    <2> QED  BY <2>1
<1>6. ASSUME NEW r \in held PROVE \E i \in 1..n : s[i] = r
    <2>0. \A x, y \in held : rank(held, x) = rank(held, y) => x = y  BY Ranks
    <2>1. rank(held, r) + 1 \in 1..n  BY <1>1, Ranks
    <2>2. rank(held, s[rank(held, r) + 1]) = rank(held, r)  BY <2>1, <1>3, <1>1, Ranks
    <2>3. s[rank(held, r) + 1] \in held  BY <2>1, <1>3
    <2>4. s[rank(held, r) + 1] = r  BY <2>0, <2>2, <2>3, Zenon
    <2> QED  BY <2>1, <2>4
<1> QED  BY <1>1, <1>4, <1>5, <1>6

-----------------------------------------------------------------------------
(* What is shown is honest *)

(* The messages there are: on the relay and on the device.                 *)
Live == (1..Len(log)) \cup {-n : n \in 1..Len(drafts)}

Message == [by : {Ada, Bob}, t : Kinds, to : Int, client : Int]
Draft == [by : {Ada}, t : Kinds, to : Int, at : Nat]

LogsOK == log \in Seq(Message) /\ drafts \in Seq(Draft)

Shown == [id : Live, by : {Ada, Bob}, t : Kinds, body : Live \cup {0}, deleted : BOOLEAN,
          pinned : BOOLEAN, reactions : SUBSET {Ada, Bob}, votes : SUBSET {Ada, Bob}]

(* The bubbles that are what their author made of them.                    *)
Retracts(id, b) == Entry(id).t = "delete" /\ Entry(id).to = b.id /\ Entry(id).by = b.by
Honest == {b \in Shown : /\ b.body # 0 => Entry(b.body).by = b.by
                         /\ b.deleted => \E id \in Live : Retracts(id, b)}

(* Live messages have numbers, and their entries have types.               *)
LEMMA LiveFacts ==
    ASSUME LogsOK
    PROVE  /\ Len(log) \in Nat /\ Len(drafts) \in Nat
           /\ Live \in SUBSET Int /\ IsFiniteSet(Live) /\ 0 \notin Live
           /\ \A id \in Live : /\ At(id) \in Int
                               /\ Entry(id).by \in {Ada, Bob}
                               /\ Entry(id).t \in Kinds
                               /\ Entry(id).to \in Int
<1>1. Len(log) \in Nat /\ Len(drafts) \in Nat  BY DEF LogsOK
<1>2. Live \in SUBSET ((-Len(drafts))..Len(log)) /\ 0 \notin Live  BY <1>1 DEF Live
<1>3. IsFiniteSet((-Len(drafts))..Len(log))  BY <1>1, FS_Interval
<1>4. IsFiniteSet(Live)  BY <1>2, <1>3, FS_Subset
<1>5. ASSUME NEW id \in Live
      PROVE  At(id) \in Int /\ Entry(id).by \in {Ada, Bob} /\ Entry(id).t \in Kinds /\ Entry(id).to \in Int
    <2>1. CASE id > 0
        <3>1. id \in 1..Len(log)  BY <2>1, <1>1 DEF Live
        <3>2. log[id] \in Message  BY <3>1 DEF LogsOK
        <3>3. Entry(id) = log[id]  BY <2>1 DEF Entry
        <3>4. At(id) = 2 * id  BY <2>1 DEF At
        <3> QED  BY <3>1, <3>2, <3>3, <3>4 DEF Message
    <2>2. CASE ~ (id > 0)
        <3>1. -id \in 1..Len(drafts)  BY <2>2, <1>1 DEF Live
        <3>2. drafts[-id] \in Draft  BY <3>1 DEF LogsOK
        <3>3. Entry(id) = drafts[-id]  BY <2>2 DEF Entry
        <3>4. At(id) = 2 * drafts[-id].at + 1  BY <2>2 DEF At
        <3> QED  BY <3>2, <3>3, <3>4 DEF Draft
    <2> QED  BY <2>1, <2>2
<1> QED  BY <1>1, <1>2, <1>4, <1>5

(* A page of rows is a page of messages.                                   *)
LEMMA IndexType ==
    ASSUME LogsOK, NEW held \in SUBSET Live
    PROVE  /\ Cardinality(held) \in Nat
           /\ byConversation(held) \in Seq(Live)
           /\ Len(byConversation(held)) = Cardinality(held)
           /\ \A i, j \in 1..Cardinality(held) :
                 byConversation(held)[i] = byConversation(held)[j] => i = j
           /\ \A r \in held : \E i \in 1..Cardinality(held) : byConversation(held)[i] = r
<1>1. held \in SUBSET Int /\ IsFiniteSet(held) /\ \A r \in held : At(r) \in Int
    BY LiveFacts, FS_Subset
<1>2. byConversation(held) \in Seq(held)  BY <1>1, Index
<1>3. byConversation(held) \in Seq(Live)  BY <1>2
<1> QED  BY <1>1, <1>3, Index

(* A page is made of the rows it is read from.                             *)
LEMMA PageType ==
    ASSUME LogsOK, NEW held \in SUBSET Live
    PROVE  messagesFor(held) \in Seq(Live)
<1> DEFINE n == Cardinality(held)
           s == byConversation(held)
           a == IF n > PageSize THEN n - PageSize + 1 ELSE 1
<1>1. n \in Nat /\ s \in Seq(Live) /\ Len(s) = n  BY IndexType
<1>2. PageSize \in Nat \ {0}  BY SizesAssumption
<1>3. a \in Nat /\ 1 <= a  BY <1>1, <1>2
<1>4. messagesFor(held) = SubSeq(s, a, n)  BY DEF messagesFor
<1> HIDE DEF n, s, a
<1>5. SubSeq(s, a, n) \in Seq(Live)  BY <1>1, <1>3
<1> QED  BY <1>4, <1>5

(* What a payload looks like on its own is its author's.                   *)
LEMMA BubbleHonest ==
    ASSUME LogsOK, NEW id \in Live
    PROVE  Bubble(id) \in Honest /\ Bubble(id).id = id
<1>1. Entry(id).by \in {Ada, Bob} /\ Entry(id).t \in Kinds  BY LiveFacts
<1>2. Bubble(id) \in Shown /\ Bubble(id).id = id  BY <1>1 DEF Bubble, Shown
<1>3. Bubble(id).deleted = FALSE /\ Bubble(id).by = Entry(id).by /\ Bubble(id).body \in {0, id}
    BY DEF Bubble
<1> QED  BY <1>2, <1>3 DEF Honest

(* Whatever a control does to a bubble, it stays its author's.             *)
LEMMA AlteredHonest ==
    ASSUME LogsOK, NEW id \in Live, NEW b \in Honest, Targets(Entry(id), b)
    PROVE  Altered(b, id) \in Honest /\ Altered(b, id).id = b.id
<1> DEFINE e == Entry(id)
<1>1. e.by \in {Ada, Bob} /\ e.t \in Kinds  BY LiveFacts
<1>2. b \in Shown /\ (b.body # 0 => Entry(b.body).by = b.by)
      /\ (b.deleted => \E x \in Live : Retracts(x, b))
    BY DEF Honest
<1>3. ASSUME NEW c \in Shown, c.id = b.id, c.by = b.by, c.body = b.body, c.deleted = b.deleted
      PROVE  c \in Honest
    <2>1. \A x : Retracts(x, b) => Retracts(x, c)  BY <1>3 DEF Retracts
    <2> QED  BY <1>2, <1>3, <2>1 DEF Honest
<1>4. CASE e.t = "react"
    <2> DEFINE c == [b EXCEPT !.reactions = @ \cup {e.by}]
    <2>1. Altered(b, id) = c  BY <1>4 DEF Altered
    <2>2. c \in Shown /\ c.id = b.id /\ c.by = b.by /\ c.body = b.body /\ c.deleted = b.deleted
        BY <1>1, <1>2 DEF Shown
    <2> QED  BY <2>1, <2>2, <1>3
<1>5. CASE e.t = "unreact"
    <2> DEFINE c == [b EXCEPT !.reactions = @ \ {e.by}]
    <2>1. Altered(b, id) = c  BY <1>5 DEF Altered
    <2>2. c \in Shown /\ c.id = b.id /\ c.by = b.by /\ c.body = b.body /\ c.deleted = b.deleted
        BY <1>1, <1>2 DEF Shown
    <2> QED  BY <2>1, <2>2, <1>3
<1>6. CASE e.t \in {"pin", "unpin"}
    <2> DEFINE c == [b EXCEPT !.pinned = (e.t = "pin")]
    <2>1. Altered(b, id) = c  BY <1>6 DEF Altered
    <2>2. c \in Shown /\ c.id = b.id /\ c.by = b.by /\ c.body = b.body /\ c.deleted = b.deleted
        BY <1>1, <1>2 DEF Shown
    <2> QED  BY <2>1, <2>2, <1>3
<1>7. CASE e.t = "vote" /\ b.t = "decision"
    <2> DEFINE c == [b EXCEPT !.votes = @ \cup {e.by}]
    <2>1. Altered(b, id) = c  BY <1>7 DEF Altered
    <2>2. c \in Shown /\ c.id = b.id /\ c.by = b.by /\ c.body = b.body /\ c.deleted = b.deleted
        BY <1>1, <1>2 DEF Shown
    <2> QED  BY <2>1, <2>2, <1>3
<1>8. CASE e.t \in {"edit", "call_update"} /\ byAuthor(e, b) /\ (e.t = "edit" => b.t = "text")
    <2> DEFINE c == [b EXCEPT !.body = id]
    <2>1. Altered(b, id) = c  BY <1>8 DEF Altered
    <2>2. c \in Shown /\ c.id = b.id /\ c.by = b.by /\ c.body = id /\ c.deleted = b.deleted
        BY <1>1, <1>2 DEF Shown
    <2>3. Entry(id).by = c.by  BY <1>8, <2>2 DEF byAuthor
    <2>4. \A x : Retracts(x, b) => Retracts(x, c)  BY <2>2 DEF Retracts
    <2> QED  BY <2>1, <2>2, <2>3, <2>4, <1>2 DEF Honest
<1>9. CASE e.t = "delete" /\ byAuthor(e, b)
    <2> DEFINE c == [b EXCEPT !.deleted = TRUE, !.body = IF b.t = "text" THEN 0 ELSE @]
    <2>1. Altered(b, id) = c  BY <1>9 DEF Altered
    <2>2. c \in Shown /\ c.id = b.id /\ c.by = b.by /\ c.body \in {0, b.body}
        BY <1>1, <1>2 DEF Shown
    <2>3. e.to = b.id  BY <1>9 DEF Targets
    <2>4. Retracts(id, c)  BY <1>9, <2>2, <2>3 DEF Retracts, byAuthor
    <2>5. c.body # 0 => Entry(c.body).by = c.by  BY <1>2, <2>2
    <2> QED  BY <2>1, <2>2, <2>4, <2>5 DEF Honest
<1>10. CASE /\ e.t \notin {"react", "unreact", "pin", "unpin"}
            /\ ~ (e.t = "vote" /\ b.t = "decision")
            /\ ~ (e.t \in {"edit", "call_update"} /\ byAuthor(e, b) /\ (e.t = "edit" => b.t = "text"))
            /\ ~ (e.t = "delete" /\ byAuthor(e, b))
    <2>1. Altered(b, id) = b  BY <1>10 DEF Altered
    <2> QED  BY <2>1
<1> QED  BY <1>4, <1>5, <1>6, <1>7, <1>8, <1>9, <1>10

(* Folding one message in: a bubble more, or every bubble altered or not.  *)
LEMMA FoldedHonest ==
    ASSUME LogsOK, NEW id \in Live, NEW bubbles \in Seq(Honest)
    PROVE  /\ Folded(bubbles, id) \in Seq(Honest)
           /\ Entry(id).t \in Renderable => Folded(bubbles, id) = Append(bubbles, Bubble(id))
           /\ Entry(id).t \notin Renderable =>
                 /\ Len(Folded(bubbles, id)) = Len(bubbles)
                 /\ \A j \in 1..Len(bubbles) :
                       /\ Folded(bubbles, id)[j] = IF Targets(Entry(id), bubbles[j])
                                                   THEN Altered(bubbles[j], id) ELSE bubbles[j]
                       /\ Folded(bubbles, id)[j].id = bubbles[j].id
<1>1. CASE Entry(id).t \in Renderable
    <2>1. Folded(bubbles, id) = Append(bubbles, Bubble(id))  BY <1>1 DEF Folded
    <2>2. Bubble(id) \in Honest  BY BubbleHonest
    <2> QED  BY <1>1, <2>1, <2>2
<1>2. CASE Entry(id).t \notin Renderable
    <2> DEFINE f == Folded(bubbles, id)
               n == Len(bubbles)
    <2>1. f = [j \in 1..n |-> IF Targets(Entry(id), bubbles[j])
                              THEN Altered(bubbles[j], id) ELSE bubbles[j]]
        BY <1>2 DEF Folded
    <2>2. ASSUME NEW j \in 1..n
          PROVE  /\ f[j] = IF Targets(Entry(id), bubbles[j]) THEN Altered(bubbles[j], id) ELSE bubbles[j]
                 /\ f[j] \in Honest /\ f[j].id = bubbles[j].id
        <3>1. f[j] = IF Targets(Entry(id), bubbles[j]) THEN Altered(bubbles[j], id) ELSE bubbles[j]
            BY <2>1
        <3>2. bubbles[j] \in Honest  OBVIOUS
        <3> QED  BY <3>1, <3>2, AlteredHonest
    <2>3. f \in [1..n -> Honest]
        <3>1. f = [j \in 1..n |-> f[j]]  BY <2>1
        <3> HIDE DEF f
        <3> QED  BY <3>1, <2>2
    <2>4. n \in Nat  OBVIOUS
    <2>5. f \in Seq(Honest) /\ Len(f) = n
        <3> HIDE DEF f, n
        <3> QED  BY <2>3, <2>4
    <2> QED  BY <1>2, <2>2, <2>5
<1> QED  BY <1>1, <1>2

(* Whatever page of messages is presented, its bubbles are honest.         *)
LEMMA PresentHonest ==
    ASSUME LogsOK
    PROVE  \A p \in Seq(Live) : presentMessages(p) \in Seq(Honest)
<1> DEFINE T == {n \in Nat : \A p \in Seq(Live) : Len(p) = n => presentMessages(p) \in Seq(Honest)}
<1>1. 0 \in T
    <2>1. ASSUME NEW p \in Seq(Live), Len(p) = 0 PROVE presentMessages(p) \in Seq(Honest)
        <3>1. p = <<>>  BY <2>1
        <3>2. <<>> \in Seq(Honest)  OBVIOUS
        <3> QED  BY <3>1, <3>2, PresentEmpty
    <2> QED  BY <2>1
<1>2. ASSUME NEW n \in T PROVE n + 1 \in T
    <2>1. ASSUME NEW p \in Seq(Live), Len(p) = n + 1 PROVE presentMessages(p) \in Seq(Honest)
        <3> DEFINE q == [i \in 1..n |-> p[i]]
        <3>1. \A i \in 1..n : p[i] \in Live  BY <2>1
        <3>2. q \in Seq(Live) /\ Len(q) = n  BY <3>1
        <3>3. \A i \in 1..Len(q) : p[i] = q[i]  BY <3>2
        <3> HIDE DEF q
        <3>4. presentMessages(q) \in Seq(Honest)  BY <3>2
        <3>5. presentMessages(p) = Folded(presentMessages(q), p[n + 1])
            BY <2>1, <3>2, <3>3, PresentMore
        <3>6. p[n + 1] \in Live  BY <2>1
        <3> QED  BY <3>4, <3>5, <3>6, FoldedHonest
    <2> QED  BY <2>1
<1>3. T = Nat  BY <1>1, <1>2, SetInduction
<1> QED  BY <1>3

(* An optimistic bubble leaves the others as they are.                     *)
LEMMA AppendHonest ==
    ASSUME LogsOK, NEW shownNow \in Seq(Honest), NEW b \in Honest
    PROVE  appendMessage(shownNow, b) \in Seq(Honest)
<1> DEFINE others == {i \in DOMAIN shownNow : shownNow[i].id # b.id}
           before == {i \in others : At(shownNow[i].id) <= At(b.id)}
<1>1. filter(shownNow, before) \in Seq(Honest)  BY FilterType
<1>2. filter(shownNow, others \ before) \in Seq(Honest)  BY FilterType
<1>3. <<b>> \in Seq(Honest)  OBVIOUS
<1>4. appendMessage(shownNow, b) = filter(shownNow, before) \o <<b>> \o filter(shownNow, others \ before)
    BY DEF appendMessage, Between
<1> HIDE DEF before, others
<1> QED  BY <1>1, <1>2, <1>3, <1>4

ListType == [listed : BOOLEAN, preview : SUBSET Honest]

(* The preview is the last bubble of a fold.                               *)
LEMMA ListHonest ==
    ASSUME LogsOK, NEW held \in SUBSET Live, NEW exists \in BOOLEAN
    PROVE  ListOf(exists, held) \in ListType
<1>1. messagesFor(held) \in Seq(Live)  BY PageType
<1>2. presentMessages(messagesFor(held)) \in Seq(Honest)  BY <1>1, PresentHonest
<1>3. ASSUME NEW c \in Preview(held) PROVE c \in Honest
    <2> DEFINE bubbles == presentMessages(messagesFor(held))
    <2>1. bubbles # <<>> /\ c = Last(bubbles)  BY <1>3 DEF Preview
    <2> HIDE DEF bubbles
    <2>2. bubbles \in Seq(Honest)  BY <1>2 DEF bubbles
    <2>3. Len(bubbles) \in 1..Len(bubbles)  BY <2>1, <2>2
    <2> QED  BY <2>1, <2>2, <2>3 DEF Last
<1>4. Preview(held) \in SUBSET Honest  BY <1>3
<1> QED  BY <1>4 DEF ListOf, ListType

-----------------------------------------------------------------------------
(* A page is enough *)

(* Every bubble of a page is of a message of the page.                     *)
LEMMA PresentIds ==
    ASSUME LogsOK
    PROVE  \A p \in Seq(Live) : \A i \in 1..Len(presentMessages(p)) :
              \E x \in 1..Len(p) : presentMessages(p)[i].id = p[x]
<1> DEFINE Of(b, p) == \A i \in 1..Len(b) : \E x \in 1..Len(p) : b[i].id = p[x]
           T == {n \in Nat : \A p \in Seq(Live) : Len(p) = n => Of(presentMessages(p), p)}
<1>1. 0 \in T
    <2>1. ASSUME NEW p \in Seq(Live), Len(p) = 0 PROVE Of(presentMessages(p), p)
        <3>1. p = <<>>  BY <2>1
        <3> QED  BY <3>1, PresentEmpty
    <2> QED  BY <2>1
<1>2. ASSUME NEW n \in T PROVE n + 1 \in T
    <2>1. ASSUME NEW p \in Seq(Live), Len(p) = n + 1 PROVE Of(presentMessages(p), p)
        <3> DEFINE q == [i \in 1..n |-> p[i]]
                   b == presentMessages(q)
                   id == p[n + 1]
        <3>1. \A i \in 1..n : p[i] \in Live  BY <2>1
        <3>2. q \in Seq(Live) /\ Len(q) = n  BY <3>1
        <3>3. \A i \in 1..n : p[i] = q[i]  OBVIOUS
        <3> HIDE DEF q
        <3>4. b \in Seq(Honest) /\ Of(b, q)  BY <3>2, PresentHonest
        <3>5. presentMessages(p) = Folded(b, id)  BY <2>1, <3>2, <3>3, PresentMore
        <3>6. id \in Live  BY <2>1
        <3>7. \A i \in 1..Len(b) : \E x \in 1..n : b[i].id = p[x]  BY <3>2, <3>3, <3>4
        <3> HIDE DEF b, id
        <3>8. CASE Entry(id).t \in Renderable
            <4>1. Folded(b, id) = Append(b, Bubble(id)) /\ Bubble(id).id = id
                BY <3>4, <3>6, <3>8, FoldedHonest, BubbleHonest
            <4>2. ASSUME NEW i \in 1..(Len(b) + 1) PROVE \E x \in 1..(n + 1) : Folded(b, id)[i].id = p[x]
                <5>1. CASE i = Len(b) + 1
                    <6>1. Folded(b, id)[i].id = id  BY <3>4, <4>1, <5>1
                    <6> QED  BY <6>1 DEF id
                <5>2. CASE i # Len(b) + 1
                    <6>1. Folded(b, id)[i] = b[i] /\ i \in 1..Len(b)  BY <3>4, <4>1, <5>2
                    <6> QED  BY <6>1, <3>7
                <5> QED  BY <5>1, <5>2
            <4>3. Len(Folded(b, id)) = Len(b) + 1  BY <3>4, <4>1
            <4> QED  BY <2>1, <3>5, <4>2, <4>3
        <3>9. CASE Entry(id).t \notin Renderable
            <4>1. /\ Len(Folded(b, id)) = Len(b)
                  /\ \A i \in 1..Len(b) : Folded(b, id)[i].id = b[i].id
                BY <3>4, <3>6, <3>9, FoldedHonest
            <4> QED  BY <2>1, <3>5, <3>7, <4>1
        <3> QED  BY <3>8, <3>9
    <2> QED  BY <2>1
<1>3. T = Nat  BY <1>1, <1>2, SetInduction
<1> QED  BY <1>3

firstOf(r, j) == [i \in 1..j |-> r[i]]
beyond(r, k, j) == [i \in 1..(j - k) |-> r[k + i]]

(* Folding r up to j ends with what folding r between k and j gives; what  *)
(* comes before it are the m bubbles of the first k, altered perhaps.      *)
EndsWith(all, first, page) ==
    /\ Len(all) = Len(first) + Len(page)
    /\ \A i \in 1..Len(first) : all[i].id = first[i].id
    /\ \A i \in 1..Len(page) : all[Len(first) + i] = page[i]

(* Folding one more row in keeps the two ends equal: it is appended to     *)
(* both, or alters their common part in the same way.                      *)
LEMMA FoldEndsWith ==
    ASSUME LogsOK, NEW id \in Live,
           NEW all \in Seq(Honest), NEW first \in Seq(Honest), NEW page \in Seq(Honest),
           EndsWith(all, first, page)
    PROVE  EndsWith(Folded(all, id), first, Folded(page, id))
<1> DEFINE m == Len(first)
           p == Len(page)
           fa == Folded(all, id)
           fp == Folded(page, id)
<1>1. m \in Nat /\ p \in Nat /\ Len(all) = m + p  BY DEF EndsWith
<1>2. /\ \A i \in 1..m : all[i].id = first[i].id
      /\ \A i \in 1..p : all[m + i] = page[i]
    BY DEF EndsWith
<1>3. CASE Entry(id).t \in Renderable
    <2>1. fa = Append(all, Bubble(id)) /\ fp = Append(page, Bubble(id))  BY <1>3, FoldedHonest
    <2>0. Bubble(id) \in Honest  BY BubbleHonest
    <2> HIDE DEF fa, fp, m, p
    <2>2. Len(fa) = m + p + 1 /\ Len(fp) = p + 1
        <3>1. Len(fa) = Len(all) + 1  BY <2>0, <2>1
        <3>2. Len(fp) = Len(page) + 1  BY <2>0, <2>1
        <3> QED  BY <3>1, <3>2, <1>1 DEF p
    <2>3. ASSUME NEW i \in 1..m PROVE fa[i].id = first[i].id
        <3>1. i \in 1..Len(all)  BY <1>1
        <3> QED  BY <3>1, <2>1, <1>2
    <2>4. ASSUME NEW i \in 1..(p + 1) PROVE fa[m + i] = fp[i]
        <3>1. CASE i = p + 1
            <4>1. m + i = Len(all) + 1 /\ i = Len(page) + 1  BY <3>1, <1>1 DEF p
            <4>2. fa[m + i] = Bubble(id)  BY <4>1, <2>1
            <4>3. fp[i] = Bubble(id)  BY <4>1, <2>1
            <4> QED  BY <4>2, <4>3
        <3>2. CASE i # p + 1
            <4>1. i \in 1..p /\ m + i \in 1..Len(all) /\ i \in 1..Len(page)  BY <3>2, <1>1 DEF p
            <4>2. fa[m + i] = all[m + i]  BY <4>1, <2>1
            <4>3. fp[i] = page[i]  BY <4>1, <2>1
            <4> QED  BY <4>1, <4>2, <4>3, <1>2
        <3> QED  BY <3>1, <3>2
    <2>5. Len(fa) = m + Len(fp)  BY <2>2, <1>1
    <2>6. \A i \in 1..Len(fp) : fa[m + i] = fp[i]  BY <2>2, <2>4
    <2>7. EndsWith(fa, first, fp)  BY <2>3, <2>5, <2>6 DEF EndsWith, m
    <2> QED  BY <2>7 DEF fa, fp
<1>4. CASE Entry(id).t \notin Renderable
    <2> DEFINE Mapped(f, s) == \A j \in 1..Len(s) :
                  /\ f[j] = IF Targets(Entry(id), s[j]) THEN Altered(s[j], id) ELSE s[j]
                  /\ f[j].id = s[j].id
    <2>1. Len(fa) = Len(all) /\ Mapped(fa, all)  BY <1>4, FoldedHonest
    <2>2. Len(fp) = p /\ Mapped(fp, page)  BY <1>4, FoldedHonest
    <2> HIDE DEF fa, fp, m
    <2>3. ASSUME NEW i \in 1..m PROVE fa[i].id = first[i].id
        <3>1. i \in 1..Len(all)  BY <1>1
        <3> QED  BY <3>1, <2>1, <1>2
    <2>4. ASSUME NEW i \in 1..p PROVE fa[m + i] = fp[i]
        <3>1. m + i \in 1..Len(all)  BY <1>1
        <3>2. all[m + i] = page[i]  BY <1>2
        <3> QED  BY <3>1, <3>2, <2>1, <2>2
    <2>5. Len(fa) = m + Len(fp)  BY <1>1, <2>1, <2>2
    <2>6. \A i \in 1..Len(fp) : fa[m + i] = fp[i]  BY <2>2, <2>4
    <2>7. EndsWith(fa, first, fp)  BY <2>3, <2>5, <2>6 DEF EndsWith, m
    <2> QED  BY <2>7 DEF fa, fp
<1> QED  BY <1>3, <1>4

(* The two parts of a sequence of rows.                                    *)
LEMMA PartType ==
    ASSUME NEW S, NEW r \in Seq(S), NEW k \in 0..Len(r), NEW j \in k..Len(r)
    PROVE  /\ firstOf(r, j) \in Seq(S) /\ Len(firstOf(r, j)) = j
           /\ beyond(r, k, j) \in Seq(S) /\ Len(beyond(r, k, j)) = j - k
           /\ \A i \in 1..j : firstOf(r, j)[i] = r[i]
           /\ \A i \in 1..(j - k) : beyond(r, k, j)[i] = r[k + i]
<1>1. k \in Nat /\ j \in Nat /\ Len(r) \in Nat /\ k <= j /\ j <= Len(r) /\ j - k \in Nat  OBVIOUS
<1>2. \A i \in 1..j : r[i] \in S  BY <1>1
<1>3. \A i \in 1..(j - k) : r[k + i] \in S  BY <1>1
<1>4. firstOf(r, j) \in Seq(S) /\ Len(firstOf(r, j)) = j  BY <1>1, <1>2 DEF firstOf
<1>5. beyond(r, k, j) \in Seq(S) /\ Len(beyond(r, k, j)) = j - k  BY <1>1, <1>3 DEF beyond
<1> QED  BY <1>4, <1>5 DEF firstOf, beyond

(* Folding all the rows ends with what folding the last of them gives.     *)
LEMMA SuffixExact ==
    ASSUME LogsOK, NEW r \in Seq(Live), NEW k \in 0..Len(r)
    PROVE  EndsWith(presentMessages(r), presentMessages(firstOf(r, k)),
                    presentMessages(beyond(r, k, Len(r))))
<1> DEFINE n == Len(r)
           first == presentMessages(firstOf(r, k))
           Holds(j) == EndsWith(presentMessages(firstOf(r, j)), first, presentMessages(beyond(r, k, j)))
           T == {j \in Nat : j <= n - k => Holds(k + j)}
<1>1. n \in Nat /\ k \in Nat /\ k <= n  OBVIOUS
<1>2. first \in Seq(Honest)
    <2>1. k \in k..n  BY <1>1
    <2>2. firstOf(r, k) \in Seq(Live)  BY <2>1, PartType
    <2> QED  BY <2>2, PresentHonest
<1>3. 0 \in T
    <2>1. beyond(r, k, k) = <<>>
        <3>1. beyond(r, k, k) \in Seq(Live) /\ Len(beyond(r, k, k)) = 0  BY <1>1, PartType
        <3> QED  BY <3>1
    <2>2. presentMessages(beyond(r, k, k)) = <<>>  BY <2>1, PresentEmpty
    <2> HIDE DEF first
    <2>3. EndsWith(first, first, <<>>)  BY <1>2 DEF EndsWith
    <2>4. Holds(k)  BY <2>2, <2>3 DEF first
    <2>5. k + 0 = k  BY <1>1
    <2> QED  BY <2>4, <2>5
<1>4. ASSUME NEW i \in T PROVE i + 1 \in T
    <2> SUFFICES ASSUME i + 1 <= n - k PROVE Holds(k + (i + 1))  OBVIOUS
    <2> DEFINE j == k + i
    <2>1. j \in k..n /\ j + 1 \in k..n /\ k + (i + 1) = j + 1 /\ j + 1 \in 1..n  BY <1>1
    <2>2. Holds(j)  BY <1>1
    <2>3. r[j + 1] \in Live  BY <2>1
    <2> HIDE DEF j
    <2>4. presentMessages(firstOf(r, j + 1)) = Folded(presentMessages(firstOf(r, j)), r[j + 1])
        <3> DEFINE p == firstOf(r, j + 1)
                   q == firstOf(r, j)
        <3>1. p \in Seq(Live) /\ q \in Seq(Live) /\ Len(p) = j + 1 /\ Len(q) = j  BY <2>1, PartType
        <3>2. \A x \in 1..j : p[x] = q[x]  BY <2>1 DEF firstOf
        <3>3. p[j + 1] = r[j + 1]  BY <2>1 DEF firstOf
        <3> HIDE DEF p, q
        <3>4. presentMessages(p) = Folded(presentMessages(q), p[Len(p)])  BY <3>1, <3>2, PresentMore
        <3> QED  BY <3>1, <3>3, <3>4 DEF p, q
    <2>5. presentMessages(beyond(r, k, j + 1)) = Folded(presentMessages(beyond(r, k, j)), r[j + 1])
        <3> DEFINE p == beyond(r, k, j + 1)
                   q == beyond(r, k, j)
        <3>1. p \in Seq(Live) /\ q \in Seq(Live) /\ Len(p) = j + 1 - k /\ Len(q) = j - k
            BY <2>1, PartType
        <3>2. \A x \in 1..(j - k) : p[x] = q[x]  BY <2>1 DEF beyond
        <3>3. p[j + 1 - k] = r[j + 1]
            <4>1. j + 1 - k \in 1..(j + 1 - k) /\ k + (j + 1 - k) = j + 1  BY <2>1
            <4> QED  BY <4>1 DEF beyond
        <3>4. Len(p) = Len(q) + 1  BY <3>1, <2>1
        <3> HIDE DEF p, q
        <3>5. presentMessages(p) = Folded(presentMessages(q), p[Len(p)])
            BY <3>1, <3>2, <3>4, PresentMore
        <3> QED  BY <3>1, <3>3, <3>5 DEF p, q
    <2>6. /\ presentMessages(firstOf(r, j)) \in Seq(Honest)
          /\ presentMessages(beyond(r, k, j)) \in Seq(Honest)
        BY <2>1, PartType, PresentHonest
    <2> HIDE DEF first
    <2> QED  BY <2>1, <2>2, <2>3, <2>4, <2>5, <2>6, <1>2, FoldEndsWith
<1>5. T = Nat  BY <1>3, <1>4, SetInduction
<1>6. Holds(n)
    <2>1. n - k \in Nat /\ k + (n - k) = n  BY <1>1
    <2> HIDE DEF Holds, n
    <2>2. n - k \in T  BY <2>1, <1>5
    <2>3. Holds(k + (n - k))  BY <2>1, <2>2
    <2> QED  BY <2>1, <2>3
<1>7. firstOf(r, n) = r
    <2>1. n \in k..n  BY <1>1
    <2>2. firstOf(r, n) \in Seq(Live) /\ Len(firstOf(r, n)) = n
          /\ \A i \in 1..n : firstOf(r, n)[i] = r[i]
        BY <2>1, PartType
    <2> QED  BY <2>2
<1> QED  BY <1>6, <1>7

(* Sequences are equal that have the same elements.                        *)
LEMMA SequencesEqual ==
    ASSUME NEW S, NEW s \in Seq(S), NEW t \in Seq(S), Len(s) = Len(t),
           \A i \in 1..Len(s) : s[i] = t[i]
    PROVE  s = t
OBVIOUS

(* The newest page of distinct rows shows what all of them show.           *)
LEMMA PageIsExact ==
    ASSUME LogsOK, rows \in SUBSET Live
    PROVE  NewestPageIsExact
<1> DEFINE r == byConversation(rows)
           n == Cardinality(rows)
           k == IF n > PageSize THEN n - PageSize ELSE 0
           page == messagesFor(rows)
           first == presentMessages(firstOf(r, k))
           all == presentMessages(r)
           shown == presentMessages(page)
           m == Len(first)
           I == {i \in DOMAIN all : Contains(page, all[i].id)}
<1>1. /\ n \in Nat /\ r \in Seq(Live) /\ Len(r) = n
      /\ \A i, j \in 1..n : r[i] = r[j] => i = j
    BY IndexType
<1>2. PageSize \in Nat \ {0}  BY SizesAssumption
<1>3. k \in 0..n /\ k \in Nat  BY <1>1, <1>2
<1>4. page = beyond(r, k, n) /\ page \in Seq(Live) /\ Len(page) = n - k
      /\ \A i \in 1..(n - k) : page[i] = r[k + i]
    <2>1. page = SubSeq(r, k + 1, n)
        <3>1. (IF n > PageSize THEN n - PageSize + 1 ELSE 1) = k + 1  BY <1>1, <1>2
        <3> QED  BY <3>1 DEF messagesFor
    <2> HIDE DEF r, n, k, page
    <2>2. n \in k..Len(r) /\ k \in 0..Len(r)  BY <1>1, <1>3
    <2>3. /\ beyond(r, k, n) \in Seq(Live) /\ Len(beyond(r, k, n)) = n - k
          /\ \A i \in 1..(n - k) : beyond(r, k, n)[i] = r[k + i]
        <3>0. r \in Seq(Live)  BY <1>1
        <3>1. beyond(r, k, n) \in Seq(Live) /\ Len(beyond(r, k, n)) = n - k
            BY <3>0, <2>2, PartType
        <3>2. \A i \in 1..(n - k) : beyond(r, k, n)[i] = r[k + i]  BY DEF beyond
        <3> QED  BY <3>1, <3>2
    <2>4. page \in Seq(Live) /\ Len(page) = n - k  BY <2>1, <1>1, <1>3
    <2>5. \A i \in 1..(n - k) : page[i] = r[k + i]  BY <2>1, <1>1, <1>3
    <2>6. page = beyond(r, k, n)  BY <2>3, <2>4, <2>5, SequencesEqual
    <2> QED  BY <2>4, <2>5, <2>6
<1>5. EndsWith(all, first, shown)
    <2>1. k \in 0..Len(r)  BY <1>1, <1>3
    <2>2. EndsWith(all, first, presentMessages(beyond(r, k, Len(r))))
        BY <1>1, <2>1, SuffixExact
    <2> QED  BY <1>1, <1>4, <2>2
<1>6. firstOf(r, k) \in Seq(Live) /\ Len(firstOf(r, k)) = k
      /\ \A i \in 1..k : firstOf(r, k)[i] = r[i]
    <2> HIDE DEF r, n, k
    <2>1. k \in k..Len(r) /\ k \in 0..Len(r)  BY <1>1, <1>3
    <2> QED  BY <1>1, <2>1, PartType
<1>7. all \in Seq(Honest) /\ first \in Seq(Honest) /\ shown \in Seq(Honest)
    BY <1>1, <1>4, <1>6, PresentHonest
<1>8. \A i \in 1..m : \E x \in 1..k : first[i].id = r[x]
    <2>1. \A i \in 1..m : \E x \in 1..Len(firstOf(r, k)) : first[i].id = firstOf(r, k)[x]
        BY <1>6, PresentIds
    <2> HIDE DEF first, r, k
    <2> QED  BY <2>1, <1>6
<1>9. \A i \in 1..Len(shown) : \E x \in 1..Len(page) : shown[i].id = page[x]
    BY <1>4, PresentIds
<1> HIDE DEF r, n, k, page, first, all, shown
<1>10. m \in Nat /\ Len(shown) \in Nat /\ Len(all) = m + Len(shown)
    BY <1>5, <1>7 DEF EndsWith
<1>11. DOMAIN all = 1..Len(all)  BY <1>7
<1>12. ASSUME NEW i \in 1..m PROVE ~ Contains(page, all[i].id)
    <2>1. PICK x \in 1..k : first[i].id = r[x]  BY <1>8
    <2>2. all[i].id = r[x]  BY <1>5, <2>1 DEF EndsWith
    <2>3. ASSUME NEW y \in 1..Len(page), page[y] = r[x] PROVE FALSE
        <3>1. y \in 1..(n - k) /\ page[y] = r[k + y]  BY <1>4
        <3>2. k + y \in 1..n /\ x \in 1..n /\ k + y # x  BY <3>1, <1>1, <1>3
        <3> QED  BY <3>1, <3>2, <2>3, <1>1
    <2> QED  BY <2>2, <2>3 DEF Contains
<1>13. ASSUME NEW i \in (m + 1)..Len(all) PROVE Contains(page, all[i].id)
    <2>1. i - m \in 1..Len(shown) /\ m + (i - m) = i  BY <1>10
    <2>2. all[i] = shown[i - m]  BY <2>1, <1>5 DEF EndsWith
    <2>3. PICK x \in 1..Len(page) : shown[i - m].id = page[x]  BY <2>1, <1>9
    <2> QED  BY <2>2, <2>3 DEF Contains
<1>14. I = (m + 1)..Len(all)
    <2>1. ASSUME NEW i \in I PROVE i \in (m + 1)..Len(all)
        <3>1. i \in 1..Len(all) /\ Contains(page, all[i].id)  BY <1>11
        <3>2. i \notin 1..m  BY <3>1, <1>12
        <3> QED  BY <3>1, <3>2, <1>10
    <2>2. ASSUME NEW i \in (m + 1)..Len(all) PROVE i \in I
        <3>1. i \in DOMAIN all  BY <1>10, <1>11
        <3> QED  BY <3>1, <1>13
    <2> QED  BY <2>1, <2>2
<1>15. filter(all, I) = shown
    <2> DEFINE f == filter(all, (m + 1)..Len(all))
    <2>1. m \in 0..Len(all)  BY <1>10
    <2>2. Len(f) = Len(all) - m /\ \A j \in 1..(Len(all) - m) : f[j] = all[m + j]
        BY <1>7, <2>1, FilterTail
    <2>3. f \in Seq(Honest)  BY <1>7, FilterType
    <2> HIDE DEF f
    <2>4. Len(f) = Len(shown)  BY <2>2, <1>10
    <2>5. \A j \in 1..Len(shown) : f[j] = shown[j]  BY <2>2, <1>5, <1>10 DEF EndsWith
    <2>6. f = shown  BY <2>3, <2>4, <2>5, <1>7, SequencesEqual
    <2> QED  BY <2>6, <1>14 DEF f
<1> QED  BY <1>15 DEF NewestPageIsExact, all, page, r, shown

-----------------------------------------------------------------------------
(* The logs only grow *)

Grows == Live \subseteq Live' /\ \A id \in Live : Entry(id)' = Entry(id)

(* The pages and lists under way, by what they hold.                       *)
PageRead == [page : Seq(Live), for : {"opening", "filled", "handler"}]
ListRead == [read : ListType, for : {"sync", "handler"}]

(* A sequence over a set is one over a larger set.                         *)
LEMMA SeqGrows ==
    ASSUME NEW S, NEW T, S \subseteq T, NEW s \in Seq(S)
    PROVE  s \in Seq(T)
OBVIOUS

(* As the logs grow, what was honest, listed or read stays so.             *)
LEMMA TypesGrow ==
    ASSUME LogsOK, Grows
    PROVE  /\ Honest \subseteq Honest'
           /\ ListType \subseteq ListType'
           /\ Seq(Live) \subseteq Seq(Live')
           /\ PageRead \subseteq PageRead'
           /\ ListRead \subseteq ListRead'
<1>1. ASSUME NEW b \in Honest PROVE b \in Honest'
    <2>1. b \in Shown /\ b \in Shown'  BY DEF Honest, Shown, Grows
    <2>2. ASSUME b.body # 0 PROVE Entry(b.body)'.by = b.by
        <3>1. b.body \in Live  BY <2>1, <2>2 DEF Shown
        <3>2. Entry(b.body)' = Entry(b.body)  BY <3>1 DEF Grows
        <3>3. Entry(b.body).by = b.by  BY <2>2 DEF Honest
        <3> QED  BY <3>2, <3>3
    <2>3. ASSUME b.deleted PROVE \E id \in Live' : Retracts(id, b)'
        <3>1. PICK id \in Live : Retracts(id, b)  BY <2>3 DEF Honest
        <3>2. Entry(id)' = Entry(id) /\ id \in Live'  BY DEF Grows
        <3>3. Retracts(id, b)'  BY <3>1, <3>2 DEF Retracts
        <3> QED  BY <3>2, <3>3
    <2> QED  BY <2>1, <2>2, <2>3 DEF Honest
<1>2. Live \subseteq Live'  BY DEF Grows
<1>3. ListType \subseteq ListType'  BY <1>1 DEF ListType
<1>4. Seq(Live) \subseteq Seq(Live')
    <2> HIDE DEF Live
    <2> SUFFICES ASSUME NEW s \in Seq(Live) PROVE s \in Seq(Live')  OBVIOUS
    <2> QED  BY <1>2, SeqGrows
<1>5. PageRead \subseteq PageRead'  BY <1>4 DEF PageRead
<1>6. ListRead \subseteq ListRead'  BY <1>3 DEF ListRead
<1> QED  BY <1>1, <1>3, <1>4, <1>5, <1>6

(* What is stored comes after what is there.                               *)
LEMMA StoreGrows ==
    ASSUME LogsOK, NEW messages \in Seq(Message), Store(messages), drafts' = drafts
    PROVE  /\ LogsOK' /\ Grows
           /\ Len(log') = Len(log) + Len(messages)
           /\ wire' = IF up THEN wire \o [i \in 1..Len(messages) |-> Len(log) + i] ELSE wire
           /\ \A i \in 1..Len(log) : log'[i] = log[i]
<1>1. log \in Seq(Message) /\ drafts \in Seq(Draft)  BY DEF LogsOK
<1>2. log' = log \o messages  BY DEF Store
<1>3. log' \in Seq(Message) /\ Len(log') = Len(log) + Len(messages)  BY <1>1, <1>2
<1>4. \A i \in 1..Len(log) : log'[i] = log[i]  BY <1>1, <1>2
<1>5. LogsOK'  BY <1>1, <1>3 DEF LogsOK, Message, Draft
<1>6. Live \subseteq Live'  BY <1>1, <1>3 DEF Live
<1>7. ASSUME NEW id \in Live PROVE Entry(id)' = Entry(id)
    <2>1. CASE id > 0
        <3>1. id \in 1..Len(log)  BY <2>1, <1>1 DEF Live
        <3> QED  BY <3>1, <2>1, <1>4 DEF Entry
    <2>2. CASE ~ (id > 0)  BY <2>2 DEF Entry
    <2> QED  BY <2>1, <2>2
<1>8. DOMAIN messages = 1..Len(messages)  OBVIOUS
<1> QED  BY <1>3, <1>4, <1>5, <1>6, <1>7, <1>8 DEF Grows, Store

(* What is sent is a draft's, as far as there is room.                     *)
LEMMA SentStores ==
    ASSUME LogsOK, Len(log) <= MaxLog, NEW waiting \in Seq(Live), Sent(waiting)
    PROVE  \E messages \in Seq(Message) : Store(messages) /\ Len(log) + Len(messages) <= MaxLog
<1> DEFINE room == IF up /\ friends THEN MaxLog - Len(log) ELSE 0
           k == IF Len(waiting) < room THEN Len(waiting) ELSE room
           arrive == SubSeq(waiting, 1, k)
           messages == [i \in DOMAIN arrive |->
              [by |-> Ada, t |-> Entry(arrive[i]).t, to |-> Entry(arrive[i]).to, client |-> arrive[i]]]
<1>1. Len(log) \in Nat /\ MaxLog \in Nat  BY LiveFacts, SizesAssumption
<1>2. room \in Nat /\ room <= MaxLog - Len(log)  BY <1>1
<1> HIDE DEF room
<1>3. k \in 0..Len(waiting) /\ k <= room  BY <1>2
<1> HIDE DEF k
<1>4. arrive \in Seq(Live) /\ Len(arrive) = k  BY <1>3
<1> HIDE DEF arrive
<1>5. ASSUME NEW i \in 1..k PROVE messages[i] \in Message
    <2>1. arrive[i] \in Live  BY <1>4
    <2>2. Entry(arrive[i]).t \in Kinds /\ Entry(arrive[i]).to \in Int /\ arrive[i] \in Int
        BY <2>1, LiveFacts
    <2>3. i \in DOMAIN arrive  BY <1>4
    <2> QED  BY <2>2, <2>3 DEF Message
<1>6. messages \in Seq(Message) /\ Len(messages) = k
    <2>1. messages = [i \in 1..k |-> messages[i]]  BY <1>4
    <2>2. k \in Nat  BY <1>3
    <2> HIDE DEF messages
    <2>3. messages \in [1..k -> Message]  BY <2>1, <1>5
    <2> QED  BY <2>2, <2>3
<1>7. Store(messages)  BY DEF Sent, arrive, k, room
<1> HIDE DEF messages
<1>8. Len(log) + Len(messages) <= MaxLog  BY <1>1, <1>2, <1>3, <1>6
<1> QED  BY <1>6, <1>7, <1>8

RowsOK == /\ rows \in SUBSET Live
          /\ composing \subseteq 1..Len(drafts)

Sizes == Len(log) <= MaxLog /\ Len(drafts) <= MaxDrafts

(* Controls name messages by number.                                       *)
LEMMA TargetsInt == Targetable \subseteq Int
BY SizesAssumption DEF Targetable

(* The steps that store something, and all the others.                     *)
StoresSome(messages) == /\ messages \in Seq(Message) /\ Store(messages)
                        /\ Len(log) + Len(messages) <= MaxLog
                        /\ drafts' = drafts

(* The peer, a message sent, and the outbox store within the bound.        *)
LEMMA PeerStores ==
    ASSUME LogsOK, Sizes, NEW t \in Kinds, NEW to \in Targetable, PeerSends(t, to)
    PROVE  \E messages : StoresSome(messages)
<1> DEFINE m == [by |-> Bob, t |-> t, to |-> to, client |-> 0]
<1>1. m \in Message  BY TargetsInt DEF Message
<1>2. Store(<<m>>) /\ Len(log) < MaxLog /\ drafts' = drafts  BY DEF PeerSends, outbox
<1> HIDE DEF m
<1>3. <<m>> \in Seq(Message) /\ Len(<<m>>) = 1  BY <1>1
<1>4. Len(log) \in Nat /\ MaxLog \in Nat  BY LiveFacts, SizesAssumption
<1>5. Len(log) + Len(<<m>>) <= MaxLog  BY <1>2, <1>3, <1>4
<1> QED  BY <1>2, <1>3, <1>5 DEF StoresSome

(* The row that is sent was composed.                                      *)
LEMMA SendStores ==
    ASSUME LogsOK, Sizes, RowsOK, NEW n, sendPayload(n)
    PROVE  -n \in Live /\ \E messages : StoresSome(messages)
<1>1. n \in 1..Len(drafts)  BY DEF sendPayload, RowsOK
<1>2. -n \in Live  BY <1>1 DEF Live
<1>3. <<-n>> \in Seq(Live)  BY <1>2
<1>4. Sent(<<-n>>) /\ drafts' = drafts  BY DEF sendPayload
<1> QED  BY <1>2, <1>3, <1>4, SentStores DEF StoresSome, Sizes

(* So was every row of the outbox.                                         *)
LEMMA FlushStores ==
    ASSUME LogsOK, Sizes, RowsOK, flushOutbox
    PROVE  \E messages : StoresSome(messages)
<1> DEFINE waiting == byConversation({r \in rows : r < 0})
<1>1. {r \in rows : r < 0} \in SUBSET Live  BY DEF RowsOK
<1>2. waiting \in Seq(Live)  BY <1>1, IndexType
<1>3. Sent(waiting) /\ drafts' = drafts  BY DEF flushOutbox, outbox
<1> HIDE DEF waiting
<1> QED  BY <1>2, <1>3, SentStores DEF StoresSome, Sizes

Quieter == UNCHANGED <<log, drafts, composing>>

(* Whatever else happens, nothing is stored or composed.                   *)
LEMMA OthersStoreNothing ==
    ASSUME [Next]_vars
    PROVE  \/ \E t \in Kinds, to \in Targetable : PeerSends(t, to) \/ composeMessage(t, to)
           \/ \E n \in 1..MaxDrafts : sendPayload(n)
           \/ flushOutbox
           \/ Quieter
<1>1. CASE UNCHANGED vars  BY <1>1 DEF vars, relay, outbox, Quieter
<1>2. CASE PeerUnfriends \/ SocketDrops \/ loadOlder \/ prependMessages
    BY <1>2 DEF PeerUnfriends, SocketDrops, loadOlder, prependMessages, relay, outbox, Quieter
<1>3. CASE \/ ReceiveMessage \/ ReceiveGivesUp \/ ReceiveRemoved
           \/ \E id \in 1..MaxLog : confirmMessage(id) \/ putMessage(id)
    BY <1>3 DEF ReceiveMessage, ReceiveGivesUp, ReceiveRemoved, confirmMessage, putMessage,
                relay, outbox, Quieter
<1>4. CASE setMessages \/ setConversations \/ loadConversation \/ LoadBackfills
    BY <1>4 DEF setMessages, setConversations, loadConversation, LoadBackfills, relay, outbox, Quieter
<1>5. CASE Connect \/ TimerFires \/ syncConversations \/ backfill \/ reconcileFails
    BY <1>5 DEF Connect, TimerFires, syncConversations, backfill, reconcileFails, relay, outbox, Quieter
<1> QED  BY <1>1, <1>2, <1>3, <1>4, <1>5 DEF Next, Chosen, Program

(* A draft is one more live message.                                       *)
LEMMA ComposeGrows ==
    ASSUME LogsOK, Sizes, RowsOK, NEW t \in Kinds, NEW to \in Targetable, composeMessage(t, to)
    PROVE  /\ LogsOK' /\ Sizes' /\ Grows
           /\ composing' \subseteq 1..Len(drafts')
           /\ Len(drafts') = Len(drafts) + 1 /\ log' = log
           /\ -(Len(drafts) + 1) \in Live'
<1> DEFINE d == [by |-> Ada, t |-> t, to |-> to, at |-> Len(log)]
<1>1. Len(log) \in Nat /\ Len(drafts) \in Nat /\ MaxDrafts \in Nat  BY LiveFacts, SizesAssumption
<1>2. d \in Draft  BY <1>1, TargetsInt DEF Draft
<1>3. drafts' = Append(drafts, d) /\ Len(drafts) < MaxDrafts /\ log' = log
      /\ composing' = composing \cup {Len(drafts) + 1}
    BY DEF composeMessage, relay
<1> HIDE DEF d
<1>4. drafts \in Seq(Draft) /\ log \in Seq(Message)  BY DEF LogsOK
<1>5. drafts' \in Seq(Draft) /\ Len(drafts') = Len(drafts) + 1
      /\ \A i \in 1..Len(drafts) : drafts'[i] = drafts[i]
    BY <1>2, <1>3, <1>4
<1>6. LogsOK'  BY <1>3, <1>4, <1>5 DEF LogsOK, Message, Draft
<1>7. Sizes'  BY <1>1, <1>3, <1>5 DEF Sizes
<1>8. composing' \subseteq 1..Len(drafts')
    <2>1. composing \subseteq 1..Len(drafts)  BY DEF RowsOK
    <2>2. Len(drafts') = Len(drafts) + 1  BY <1>5
    <2>3. composing' = composing \cup {Len(drafts) + 1}  BY <1>3
    <2>4. 1..Len(drafts) \subseteq 1..(Len(drafts) + 1) /\ Len(drafts) + 1 \in 1..(Len(drafts) + 1)
        BY <1>1
    <2> QED  BY <2>1, <2>2, <2>3, <2>4
<1>9. Live \subseteq Live' /\ -(Len(drafts) + 1) \in Live'  BY <1>1, <1>3, <1>5 DEF Live
<1>10. ASSUME NEW id \in Live PROVE Entry(id)' = Entry(id)
    <2>1. CASE id > 0  BY <2>1, <1>3 DEF Entry
    <2>2. CASE ~ (id > 0)
        <3>1. -id \in 1..Len(drafts)  BY <2>2, <1>1 DEF Live
        <3> QED  BY <3>1, <2>2, <1>5 DEF Entry
    <2> QED  BY <2>1, <2>2
<1> QED  BY <1>3, <1>5, <1>6, <1>7, <1>8, <1>9, <1>10 DEF Grows

(* The logs keep their types and bounds, and what they say of a message.   *)
LEMMA LogsNext ==
    ASSUME LogsOK, Sizes, RowsOK, [Next]_vars
    PROVE  LogsOK' /\ Sizes' /\ Grows /\ composing' \subseteq 1..Len(drafts')
<1>1. ASSUME NEW messages, StoresSome(messages), composing' \subseteq composing
      PROVE  LogsOK' /\ Sizes' /\ Grows /\ composing' \subseteq 1..Len(drafts')
    <2>1. LogsOK' /\ Grows /\ Len(log') = Len(log) + Len(messages)
        BY <1>1, StoreGrows DEF StoresSome
    <2>2. drafts' = drafts /\ Len(log) + Len(messages) <= MaxLog  BY <1>1 DEF StoresSome
    <2> QED  BY <2>1, <2>2, <1>1 DEF Sizes, RowsOK
<1>2. CASE \E t \in Kinds, to \in Targetable : PeerSends(t, to)
    <2>1. PICK messages : StoresSome(messages)  BY <1>2, PeerStores
    <2>2. composing' = composing  BY <1>2 DEF PeerSends, outbox
    <2> QED  BY <2>1, <2>2, <1>1
<1>3. CASE \E t \in Kinds, to \in Targetable : composeMessage(t, to)
    BY <1>3, ComposeGrows
<1>4. CASE \E n \in 1..MaxDrafts : sendPayload(n)
    <2>1. PICK messages : StoresSome(messages)  BY <1>4, SendStores
    <2>2. composing' \subseteq composing  BY <1>4 DEF sendPayload
    <2> QED  BY <2>1, <2>2, <1>1
<1>5. CASE flushOutbox
    <2>1. PICK messages : StoresSome(messages)  BY <1>5, FlushStores
    <2>2. composing' = composing  BY <1>5 DEF flushOutbox, outbox
    <2> QED  BY <2>1, <2>2, <1>1
<1>6. CASE Quieter
    <2>1. log' = log /\ drafts' = drafts /\ composing' = composing  BY <1>6 DEF Quieter
    <2>2. LogsOK' /\ Sizes'  BY <2>1 DEF LogsOK, Message, Draft, Sizes
    <2>3. Grows  BY <2>1 DEF Grows, Live, Entry
    <2> QED  BY <2>1, <2>2, <2>3 DEF RowsOK
<1> QED  BY <1>2, <1>3, <1>4, <1>5, <1>6, OthersStoreNothing

(* Every row is a message: on the relay, or still the device's alone.      *)
LEMMA RowsNext ==
    ASSUME LogsOK, Sizes, RowsOK, received \cup confirming \subseteq 1..Len(log), [Next]_vars
    PROVE  RowsOK'
<1>1. Grows /\ composing' \subseteq 1..Len(drafts')  BY LogsNext
<1>2. rows \subseteq Live /\ Live \subseteq Live'  BY <1>1 DEF RowsOK, Grows
<1>3. Len(log) \in Nat  BY LiveFacts
<1>4. 1..Len(log) \subseteq Live  BY DEF Live
<1>5. \A since : Filled(rows, since) \subseteq Live
    <2>1. DOMAIN log = 1..Len(log)  BY DEF LogsOK
    <2> QED  BY <2>1, <1>2, <1>4 DEF Filled
<1> SUFFICES rows' \subseteq Live'  BY <1>1 DEF RowsOK
<1>6. CASE UNCHANGED vars  BY <1>2, <1>6 DEF vars
<1>7. CASE \E t \in Kinds, to \in Targetable : PeerSends(t, to)
    BY <1>2, <1>7 DEF PeerSends
<1>8. CASE \E t \in Kinds, to \in Targetable : composeMessage(t, to)
    <2>1. rows' = rows \cup {-(Len(drafts) + 1)}  BY <1>8 DEF composeMessage
    <2>2. -(Len(drafts) + 1) \in Live'  BY <1>8, ComposeGrows
    <2> QED  BY <1>2, <2>1, <2>2
<1>9. CASE PeerUnfriends \/ SocketDrops \/ loadOlder \/ prependMessages
    BY <1>2, <1>9 DEF PeerUnfriends, SocketDrops, loadOlder, prependMessages
<1>10. CASE \E n \in 1..MaxDrafts : sendPayload(n)  BY <1>2, <1>10 DEF sendPayload
<1>11. CASE ReceiveMessage \/ ReceiveGivesUp \/ ReceiveRemoved
    BY <1>2, <1>11 DEF ReceiveMessage, ReceiveGivesUp, ReceiveRemoved
<1>12. CASE \E id \in 1..MaxLog : confirmMessage(id)
    BY <1>2, <1>12 DEF confirmMessage
<1>13. CASE \E id \in 1..MaxLog : putMessage(id)
    <2>1. PICK id \in 1..MaxLog : putMessage(id)  BY <1>13
    <2>2. id \in Live /\ rows' = rows \cup {id}  BY <2>1, <1>4 DEF putMessage
    <2> QED  BY <1>2, <2>2
<1>14. CASE setMessages \/ setConversations \/ loadConversation
    BY <1>2, <1>14 DEF setMessages, setConversations, loadConversation
<1>15. CASE LoadBackfills
    <2>1. rows' = Filled(rows, load.since) \/ rows' = rows  BY <1>15 DEF LoadBackfills
    <2> QED  BY <1>2, <1>5, <2>1
<1>16. CASE Connect \/ TimerFires \/ reconcileFails
    BY <1>2, <1>16 DEF Connect, TimerFires, reconcileFails
<1>17. CASE syncConversations
    BY <1>2, <1>17 DEF syncConversations, deleteConversation
<1>18. CASE backfill
    <2>1. rows' = Filled(rows, sync.since)  BY <1>18 DEF backfill
    <2> QED  BY <1>2, <1>5, <2>1
<1>19. CASE flushOutbox  BY <1>2, <1>19 DEF flushOutbox
<1> QED  BY <1>6, <1>7, <1>8, <1>9, <1>10, <1>11, <1>12, <1>13, <1>14, <1>15, <1>16, <1>17,
            <1>18, <1>19 DEF Next, Chosen, Program

(* The events of the wire come in the order of the log, each once, and     *)
(* later than every message that is being handled.                         *)
WireOK ==
    /\ wire \in Seq(0..Len(log))
    /\ received \cup confirming \subseteq 1..Len(log) /\ received \cap confirming = {}
    /\ \A i, j \in 1..Len(wire) : i < j /\ wire[i] # 0 /\ wire[j] # 0 => wire[i] < wire[j]
    /\ \A i \in 1..Len(wire) : wire[i] # 0 => \A id \in received \cup confirming : id < wire[i]

(* The elements of a concatenation.                                        *)
LEMMA Concatenation ==
    ASSUME NEW S, NEW s \in Seq(S), NEW t \in Seq(S)
    PROVE  /\ s \o t \in Seq(S) /\ Len(s \o t) = Len(s) + Len(t)
           /\ \A i \in 1..Len(s) : (s \o t)[i] = s[i]
           /\ \A i \in 1..Len(t) : (s \o t)[Len(s) + i] = t[i]
OBVIOUS

(* The elements of a sequence.                                             *)
LEMMA Elements == ASSUME NEW S, NEW s \in Seq(S) PROVE \A i \in 1..Len(s) : s[i] \in S
OBVIOUS

(* What is stored is pushed after all that is on the wire.                 *)
LEMMA WireStored ==
    ASSUME LogsOK, WireOK, NEW messages, StoresSome(messages), UNCHANGED <<received, confirming>>
    PROVE  WireOK'
<1> DEFINE n == Len(log)
           k == Len(messages)
           new == [i \in 1..k |-> n + i]
<1>1. /\ Len(log') = n + k
      /\ wire' = IF up THEN wire \o new ELSE wire
    BY StoreGrows DEF StoresSome
<1>2. n \in Nat /\ k \in Nat  BY LiveFacts DEF StoresSome
<1>3. wire \in Seq(0..n)  BY DEF WireOK
<1>4. new \in Seq(0..(n + k)) /\ Len(new) = k  BY <1>2
<1>5. wire \in Seq(0..(n + k))
    <2>1. 0..n \subseteq 0..(n + k)  BY <1>2
    <2> QED  BY <2>1, <1>3, SeqGrows
<1> HIDE DEF n, k, new
<1>6. CASE ~ up
    BY <1>1, <1>2, <1>5, <1>6 DEF WireOK, n
<1>7. CASE up
    <2>1. wire' = wire \o new  BY <1>1, <1>7
    <2>2. wire' \in Seq(0..(n + k)) /\ Len(wire') = Len(wire) + k
        BY <2>1, <1>4, <1>5, Concatenation
    <2>3. \A i \in 1..Len(wire) : wire'[i] = wire[i]  BY <2>1, <1>4, <1>5, Concatenation
    <2>4. ASSUME NEW i \in 1..Len(wire'), i \notin 1..Len(wire)
          PROVE  wire'[i] = n + (i - Len(wire)) /\ i - Len(wire) \in 1..k
        <3>1. Len(wire) \in Nat  BY <1>3
        <3>2. i - Len(wire) \in 1..k  BY <2>2, <2>4, <3>1, <1>2
        <3>3. (wire \o new)[Len(wire) + (i - Len(wire))] = new[i - Len(wire)]
            BY <3>2, <1>4, <1>5, Concatenation
        <3>4. Len(wire) + (i - Len(wire)) = i  BY <3>1
        <3>5. wire'[i] = new[i - Len(wire)]  BY <3>3, <3>4, <2>1
        <3> QED  BY <3>2, <3>5 DEF new
    <2>5. Len(wire) \in Nat /\ \A i \in 1..Len(wire) : wire[i] \in 0..n
        <3>1. Len(wire) \in Nat  BY <1>3
        <3>2. \A i \in 1..Len(wire) : wire[i] \in 0..n  BY <1>3, Elements
        <3> QED  BY <3>1, <3>2
    <2>6. ASSUME NEW i \in 1..Len(wire'), NEW j \in 1..Len(wire'), i < j, wire'[i] # 0, wire'[j] # 0
          PROVE  wire'[i] < wire'[j]
        <3>1. CASE j \in 1..Len(wire)
            <4>1. i \in 1..Len(wire)  BY <3>1, <2>5, <2>6
            <4> QED  BY <4>1, <3>1, <2>3, <2>6 DEF WireOK
        <3>2. CASE j \notin 1..Len(wire) /\ i \in 1..Len(wire)
            BY <3>2, <2>3, <2>4, <2>5, <1>2
        <3>3. CASE j \notin 1..Len(wire) /\ i \notin 1..Len(wire)
            <4>1. wire'[i] = n + (i - Len(wire)) /\ wire'[j] = n + (j - Len(wire))  BY <3>3, <2>4
            <4> QED  BY <4>1, <2>5, <2>6, <1>2
        <3> QED  BY <3>1, <3>2, <3>3
    <2>7. received \cup confirming \subseteq 1..n  BY DEF WireOK, n
    <2>8. ASSUME NEW i \in 1..Len(wire'), wire'[i] # 0, NEW id \in received \cup confirming
          PROVE  id < wire'[i]
        <3>1. CASE i \in 1..Len(wire)  BY <3>1, <2>3, <2>8 DEF WireOK
        <3>2. CASE i \notin 1..Len(wire)
            <4>1. wire'[i] = n + (i - Len(wire)) /\ i - Len(wire) \in 1..k  BY <3>2, <2>4
            <4>2. id \in 1..n  BY <2>7
            <4> QED  BY <4>1, <4>2, <1>2
        <3> QED  BY <3>1, <3>2
    <2>9. received \cup confirming \subseteq 1..(n + k)  BY <2>7, <1>2
    <2> QED  BY <1>1, <2>2, <2>6, <2>8, <2>9 DEF WireOK
<1> QED  BY <1>6, <1>7

(* Most steps leave the wire and the handlers alone.                       *)
LEMMA WireKept ==
    ASSUME LogsOK, WireOK, UNCHANGED <<log, wire>>,
           received' \cup confirming' \subseteq received \cup confirming,
           received' \cap confirming' = {}
    PROVE  WireOK'
BY DEF WireOK

(* The head of the wire is later than all that is handled, and earlier     *)
(* than all that is still on it.                                           *)
LEMMA WireTaken ==
    ASSUME LogsOK, WireOK, log' = log, wire # <<>>, wire' = Tail(wire),
           UNCHANGED confirming,
           \/ UNCHANGED received
           \/ Head(wire) # 0 /\ received' = received \cup {Head(wire)}
    PROVE  WireOK'
<1> DEFINE n == Len(log)
           k == Len(wire)
           h == Head(wire)
<1>1. n \in Nat  BY LiveFacts
<1>2. wire \in Seq(0..n)  BY DEF WireOK
<1>3. k \in Nat /\ k >= 1 /\ h = wire[1]  BY <1>2
<1>4. wire' \in Seq(0..n) /\ Len(wire') = k - 1 /\ \A i \in 1..(k - 1) : wire'[i] = wire[i + 1]
    <2>1. \A S : \A s \in Seq(S) : s # <<>> =>
             /\ Tail(s) \in Seq(S) /\ Len(Tail(s)) = Len(s) - 1
             /\ \A i \in 1..(Len(s) - 1) : Tail(s)[i] = s[i + 1]
        OBVIOUS
    <2> QED  BY <1>2, <2>1
<1>5. \A i \in 1..k : wire[i] \in 0..n  BY <1>2, Elements
<1> DEFINE handled == received \cup confirming
           handledNow == received' \cup confirming'
<1>6. handled \subseteq 1..n /\ received \cap confirming = {}  BY DEF WireOK
<1>7. \A i, j \in 1..k : i < j /\ wire[i] # 0 /\ wire[j] # 0 => wire[i] < wire[j]  BY DEF WireOK
<1>8. \A i \in 1..k : wire[i] # 0 => \A id \in handled : id < wire[i]  BY DEF WireOK
<1>9. ASSUME NEW i \in 1..(k - 1), NEW j \in 1..(k - 1), i < j, wire'[i] # 0, wire'[j] # 0
      PROVE  wire'[i] < wire'[j]
    <2>1. i + 1 \in 1..k /\ j + 1 \in 1..k /\ i + 1 < j + 1  BY <1>3, <1>9
    <2> QED  BY <2>1, <1>4, <1>7, <1>9
<1>10. h # 0 => h \in 1..n /\ h \notin handled
    <2>1. 1 \in 1..k  BY <1>3
    <2>2. h # 0 => h \in 1..n  BY <2>1, <1>1, <1>3, <1>5
    <2>3. h # 0 /\ h \in handled => h < h  BY <2>1, <1>3, <1>8
    <2> QED  BY <2>2, <2>3, <1>1
<1>11. handledNow \subseteq 1..n /\ received' \cap confirming' = {}  BY <1>6, <1>10
<1>12. ASSUME NEW i \in 1..(k - 1), wire'[i] # 0, NEW id \in handledNow PROVE id < wire'[i]
    <2>1. i + 1 \in 1..k /\ 1 \in 1..k /\ 1 < i + 1 /\ wire'[i] = wire[i + 1]  BY <1>3, <1>4
    <2>2. CASE id \in handled  BY <2>1, <2>2, <1>8, <1>12
    <2>3. CASE id \notin handled
        <3>1. id = wire[1] /\ wire[1] # 0  BY <2>3, <1>3, <1>12
        <3> QED  BY <3>1, <2>1, <1>7, <1>12
    <2> QED  BY <2>2, <2>3
<1> HIDE DEF n, k, h, handled, handledNow
<1> QED  BY <1>4, <1>9, <1>11, <1>12 DEF WireOK, n, handledNow

(* Events stay in order, and no message is handled twice at once.          *)
LEMMA WireNext ==
    ASSUME LogsOK, Sizes, RowsOK, WireOK, [Next]_vars
    PROVE  WireOK'
<1>1. CASE UNCHANGED vars
    BY <1>1, WireKept DEF vars, relay, socket, handlers, WireOK
<1>2. CASE \E t \in Kinds, to \in Targetable : PeerSends(t, to)
    <2>1. \E messages : StoresSome(messages)  BY <1>2, PeerStores
    <2>2. UNCHANGED <<received, confirming>>  BY <1>2 DEF PeerSends, handlers
    <2> QED  BY <2>1, <2>2, WireStored
<1>3. CASE \E n \in 1..MaxDrafts : sendPayload(n)
    <2>1. \E messages : StoresSome(messages)  BY <1>3, SendStores
    <2>2. UNCHANGED <<received, confirming>>  BY <1>3 DEF sendPayload, handlers
    <2> QED  BY <2>1, <2>2, WireStored
<1>4. CASE flushOutbox
    <2>1. \E messages : StoresSome(messages)  BY <1>4, FlushStores
    <2>2. UNCHANGED <<received, confirming>>  BY <1>4 DEF flushOutbox, handlers
    <2> QED  BY <2>1, <2>2, WireStored
<1>5. CASE \E t \in Kinds, to \in Targetable : composeMessage(t, to)
    BY <1>5, WireKept DEF composeMessage, relay, socket, handlers, WireOK
<1>6. CASE PeerUnfriends
    <2>1. log' = log /\ UNCHANGED <<received, confirming>>
          /\ wire' = IF up THEN Append(wire, 0) ELSE wire
        BY <1>6 DEF PeerUnfriends, handlers
    <2>2. CASE ~ up  BY <2>1, <2>2, WireKept DEF WireOK
    <2>3. CASE up
        <3> DEFINE n == Len(log)
                   k == Len(wire)
        <3>1. n \in Nat /\ wire \in Seq(0..n)  BY LiveFacts DEF WireOK
        <3>2. <<0>> \in Seq(0..n)  BY <3>1
        <3>3. Append(wire, 0) = wire \o <<0>>  BY <3>1
        <3>4. /\ wire' \in Seq(0..n) /\ Len(wire') = k + 1
              /\ \A i \in 1..k : wire'[i] = wire[i]
            BY <2>1, <2>3, <3>1, <3>2, <3>3, Concatenation
        <3>5. wire'[k + 1] = 0  BY <2>1, <2>3, <3>1
        <3>6. k \in Nat  BY <3>1
        <3>7. \A i \in 1..(k + 1) : wire'[i] # 0 => i \in 1..k  BY <3>5, <3>6
        <3> HIDE DEF k
        <3> QED  BY <2>1, <3>4, <3>7 DEF WireOK, k
    <2> QED  BY <2>2, <2>3
<1>7. CASE SocketDrops
    <2>1. wire' = <<>> /\ log' = log /\ UNCHANGED <<received, confirming>>
        BY <1>7 DEF SocketDrops, relay, handlers
    <2>2. wire' \in Seq(0..Len(log)) /\ Len(wire') = 0  BY <2>1
    <2> QED  BY <2>1, <2>2 DEF WireOK
<1>8. CASE loadOlder \/ prependMessages
    BY <1>8, WireKept DEF loadOlder, prependMessages, relay, socket, handlers, WireOK
<1>9. CASE ReceiveMessage \/ ReceiveGivesUp \/ ReceiveRemoved
    <2>1. /\ log' = log /\ wire # <<>> /\ wire' = Tail(wire) /\ UNCHANGED confirming
          /\ UNCHANGED received \/ (Head(wire) # 0 /\ received' = received \cup {Head(wire)})
        BY <1>9 DEF ReceiveMessage, ReceiveGivesUp, ReceiveRemoved, relay, handlers
    <2> QED  BY <2>1, WireTaken
<1>10. CASE \E id \in 1..MaxLog : confirmMessage(id) \/ putMessage(id)
    BY <1>10, WireKept DEF confirmMessage, putMessage, relay, socket, WireOK
<1>11. CASE setMessages \/ setConversations \/ loadConversation \/ LoadBackfills
    BY <1>11, WireKept DEF setMessages, setConversations, loadConversation, LoadBackfills,
                           relay, socket, handlers, WireOK
<1>12. CASE Connect \/ TimerFires \/ syncConversations \/ backfill \/ reconcileFails
    BY <1>12, WireKept DEF Connect, TimerFires, syncConversations, backfill, reconcileFails,
                           relay, socket, handlers, WireOK
<1> QED  BY <1>1, <1>2, <1>3, <1>4, <1>5, <1>6, <1>7, <1>8, <1>9, <1>10, <1>11, <1>12
         DEF Next, Chosen, Program

-----------------------------------------------------------------------------
(* What is read, and what is shown *)

FlagsOK == known \in BOOLEAN /\ friends \in BOOLEAN

ReadsOK == pages \in Seq(PageRead) /\ lists \in Seq(ListRead) /\ older \in Seq(Seq(Live))
ScreenOK == view \in Seq(Honest) /\ list \in ListType

(* The two flags stay flags.                                               *)
LEMMA FlagsNext == ASSUME FlagsOK, [Next]_vars PROVE FlagsOK'
<1>1. CASE UNCHANGED vars  BY <1>1 DEF FlagsOK, vars, relay
<1>2. CASE \E t \in Kinds, to \in Targetable : PeerSends(t, to) \/ composeMessage(t, to)
    BY <1>2 DEF FlagsOK, PeerSends, composeMessage, relay
<1>3. CASE PeerUnfriends \/ SocketDrops \/ loadOlder \/ prependMessages
    BY <1>3 DEF FlagsOK, PeerUnfriends, SocketDrops, loadOlder, prependMessages, relay
<1>4. CASE \/ \E n \in 1..MaxDrafts : sendPayload(n)
           \/ \E id \in 1..MaxLog : confirmMessage(id) \/ putMessage(id)
    BY <1>4 DEF FlagsOK, sendPayload, confirmMessage, putMessage, relay
<1>5. CASE ReceiveMessage \/ ReceiveGivesUp \/ ReceiveRemoved
    BY <1>5 DEF FlagsOK, ReceiveMessage, ReceiveGivesUp, ReceiveRemoved, upsertConversation, relay
<1>6. CASE setMessages \/ setConversations \/ loadConversation \/ LoadBackfills
    BY <1>6 DEF FlagsOK, setMessages, setConversations, loadConversation, LoadBackfills, relay
<1>7. CASE Connect \/ TimerFires \/ backfill \/ reconcileFails \/ flushOutbox
    BY <1>7 DEF FlagsOK, Connect, TimerFires, backfill, reconcileFails, flushOutbox, relay
<1>8. CASE syncConversations
    BY <1>8 DEF FlagsOK, syncConversations, upsertConversation, deleteConversation, relay
<1> QED  BY <1>1, <1>2, <1>3, <1>4, <1>5, <1>6, <1>7, <1>8 DEF Next, Chosen, Program

(* What is appended and what is left of a queue has its type.              *)
LEMMA Queues ==
    ASSUME NEW S, NEW s \in Seq(S)
    PROVE  /\ s # <<>> => Head(s) \in S /\ Tail(s) \in Seq(S)
           /\ \A e \in S : Append(s, e) \in Seq(S)
OBVIOUS

(* A page that is read is of live rows.                                    *)
LEMMA PageReadType ==
    ASSUME LogsOK, ReadsOK, NEW held \in SUBSET Live,
           NEW for \in {"opening", "filled", "handler"}, ReadPage(held, for)
    PROVE  pages' \in Seq(PageRead)
<1> DEFINE p == [page |-> messagesFor(held), for |-> for]
<1>1. p \in PageRead  BY PageType DEF PageRead
<1>2. pages' = Append(pages, p)  BY DEF ReadPage
<1> HIDE DEF p
<1> QED  BY <1>1, <1>2, Queues DEF ReadsOK

(* A list that is read previews an honest bubble.                          *)
LEMMA ListReadType ==
    ASSUME LogsOK, ReadsOK, NEW held \in SUBSET Live, NEW exists \in BOOLEAN,
           NEW for \in {"sync", "handler"}, ReadList(exists, held, for)
    PROVE  lists' \in Seq(ListRead)
<1> DEFINE l == [read |-> ListOf(exists, held), for |-> for]
<1>1. l \in ListRead  BY ListHonest DEF ListRead
<1>2. lists' = Append(lists, l)  BY DEF ReadList
<1> HIDE DEF l
<1> QED  BY <1>1, <1>2, Queues DEF ReadsOK

(* A backfill adds rows of the log.                                        *)
LEMMA FilledLive ==
    ASSUME LogsOK, RowsOK, NEW since
    PROVE  Filled(rows, since) \in SUBSET Live
<1>1. DOMAIN log = 1..Len(log)  BY DEF LogsOK
<1>2. rows \subseteq Live /\ 1..Len(log) \subseteq Live  BY DEF RowsOK, Live
<1> QED  BY <1>1, <1>2 DEF Filled

ReadsNow == /\ pages' \in Seq(PageRead) /\ lists' \in Seq(ListRead) /\ older' \in Seq(Seq(Live))
            /\ view' \in Seq(Honest) /\ list' \in ListType

(* What a step reads and shows is of the messages there were before it.    *)
LEMMA ReadsStep ==
    ASSUME LogsOK, Sizes, RowsOK, WireOK, FlagsOK, ReadsOK, ScreenOK, [Next]_vars
    PROVE  ReadsNow
<1> USE DEF ReadsNow
<1>0. /\ pages \in Seq(PageRead) /\ lists \in Seq(ListRead) /\ older \in Seq(Seq(Live))
      /\ view \in Seq(Honest) /\ list \in ListType
    BY DEF ReadsOK, ScreenOK
<1>1. CASE UNCHANGED vars  BY <1>0, <1>1 DEF vars, reads, screen
<1>2. CASE \E t \in Kinds, to \in Targetable : PeerSends(t, to) \/ composeMessage(t, to)
    BY <1>0, <1>2 DEF PeerSends, composeMessage, reads, screen
<1>3. CASE PeerUnfriends \/ SocketDrops
    BY <1>0, <1>3 DEF PeerUnfriends, SocketDrops, reads, screen
<1>4. CASE loadOlder
    <2> DEFINE held == {r \in rows : At(r) < At(view[1].id)}
    <2>1. held \in SUBSET Live  BY DEF RowsOK
    <2>2. messagesFor(held) \in Seq(Live)  BY <2>1, PageType
    <2>3. older' = <<messagesFor(held)>>  BY <1>4 DEF loadOlder, messagesBefore
    <2> HIDE DEF held
    <2>4. older' \in Seq(Seq(Live))  BY <2>2, <2>3
    <2> QED  BY <1>0, <1>4, <2>4 DEF loadOlder, screen
<1>5. CASE prependMessages
    <2>1. Head(older) \in Seq(Live)  BY <1>0, <1>5, Queues DEF prependMessages
    <2>2. presentMessages(Head(older)) \in Seq(Honest)  BY <2>1, PresentHonest
    <2>3. view' = presentMessages(Head(older)) \o view /\ older' = <<>>  BY <1>5 DEF prependMessages
    <2>4. view' \in Seq(Honest)  BY <1>0, <2>2, <2>3, Concatenation
    <2>5. older' \in Seq(Seq(Live))  BY <2>3
    <2> QED  BY <1>0, <1>5, <2>4, <2>5 DEF prependMessages
<1>6. CASE \E n \in 1..MaxDrafts : sendPayload(n)
    <2>1. PICK n \in 1..MaxDrafts : sendPayload(n)  BY <1>6
    <2>2. Bubble(-n) \in Honest  BY <2>1, SendStores, BubbleHonest
    <2>3. view' \in Seq(Honest)  BY <1>0, <2>1, <2>2, AppendHonest DEF sendPayload
    <2> QED  BY <1>0, <2>1, <2>3 DEF sendPayload, reads
<1>7. CASE ReceiveMessage \/ ReceiveGivesUp \/ ReceiveRemoved
    BY <1>0, <1>7 DEF ReceiveMessage, ReceiveGivesUp, ReceiveRemoved, reads, screen
<1>8. CASE \E id \in 1..MaxLog : confirmMessage(id)
    BY <1>0, <1>8 DEF confirmMessage, reads, screen
<1>9. CASE \E id \in 1..MaxLog : putMessage(id)
    <2>1. PICK id \in 1..MaxLog : putMessage(id)  BY <1>9
    <2>2. id \in Live  BY <2>1 DEF putMessage, WireOK, Live
    <2>3. rows \cup {id} \in SUBSET Live  BY <2>2 DEF RowsOK
    <2>4. ReadPage(rows \cup {id}, "handler")  BY <2>1 DEF putMessage
    <2>5. pages' \in Seq(PageRead)  BY <2>3, <2>4, PageReadType
    <2> QED  BY <1>0, <2>1, <2>5 DEF putMessage, screen
<1>10. CASE setMessages
    <2>1. pages # <<>> /\ pages' = Tail(pages) /\ view' = presentMessages(Head(pages).page)
          /\ ReadList(known, rows, "handler")
        BY <1>10 DEF setMessages
    <2>2. Head(pages) \in PageRead /\ pages' \in Seq(PageRead)  BY <1>0, <2>1, Queues
    <2>3. Head(pages).page \in Seq(Live)  BY <2>2 DEF PageRead
    <2>4. view' \in Seq(Honest)  BY <2>1, <2>3, PresentHonest
    <2>5. lists' \in Seq(ListRead)  BY <2>1, ListReadType DEF RowsOK, FlagsOK
    <2> QED  BY <1>0, <1>10, <2>2, <2>4, <2>5 DEF setMessages
<1>11. CASE setConversations \/ flushOutbox
    <2>1. lists # <<>> /\ lists' = Tail(lists) /\ list' = Head(lists).read
          /\ UNCHANGED <<pages, older, view>>
        BY <1>11 DEF setConversations, flushOutbox
    <2>2. Head(lists) \in ListRead /\ lists' \in Seq(ListRead)  BY <1>0, <2>1, Queues
    <2>3. list' \in ListType  BY <2>1, <2>2 DEF ListRead
    <2> QED  BY <1>0, <2>1, <2>2, <2>3
<1>12. CASE loadConversation
    <2>1. pages # <<>> /\ pages' = Tail(pages) /\ view' = presentMessages(Head(pages).page)
        BY <1>12 DEF loadConversation
    <2>2. Head(pages) \in PageRead /\ pages' \in Seq(PageRead)  BY <1>0, <2>1, Queues
    <2>3. Head(pages).page \in Seq(Live)  BY <2>2 DEF PageRead
    <2>4. view' \in Seq(Honest)  BY <2>1, <2>3, PresentHonest
    <2> QED  BY <1>0, <1>12, <2>2, <2>4 DEF loadConversation
<1>13. CASE LoadBackfills
    <2>1. Filled(rows, load.since) \in SUBSET Live  BY FilledLive
    <2>2. ReadPage(Filled(rows, load.since), "filled") \/ pages' = pages
        BY <1>13 DEF LoadBackfills
    <2>3. pages' \in Seq(PageRead)  BY <1>0, <2>1, <2>2, PageReadType
    <2> QED  BY <1>0, <1>13, <2>3 DEF LoadBackfills, screen
<1>14. CASE Connect \/ TimerFires \/ reconcileFails
    BY <1>0, <1>14 DEF Connect, TimerFires, reconcileFails, reads, screen
<1>15. CASE syncConversations
    <2>1. UNCHANGED <<pages, older>>  BY <1>15 DEF syncConversations
    <2>2. ReadList(FALSE, {}, "sync") \/ lists' = lists  BY <1>15 DEF syncConversations
    <2>3. lists' \in Seq(ListRead)  BY <1>0, <2>2, ListReadType
    <2>4. (view' = view /\ list' = list) \/ (view' = <<>> /\ list' = ListOf(FALSE, {}))
        BY <1>15 DEF syncConversations, removeConversation
    <2>5. ListOf(FALSE, {}) \in ListType  BY ListHonest
    <2>6. <<>> \in Seq(Honest)  OBVIOUS
    <2> QED  BY <1>0, <2>1, <2>3, <2>4, <2>5, <2>6
<1>16. CASE backfill
    <2>1. Filled(rows, sync.since) \in SUBSET Live  BY FilledLive
    <2>2. ReadList(known, Filled(rows, sync.since), "sync")  BY <1>16 DEF backfill
    <2>3. lists' \in Seq(ListRead)  BY <2>1, <2>2, ListReadType DEF FlagsOK
    <2> QED  BY <1>0, <1>16, <2>3 DEF backfill, screen
<1> QED  BY <1>1, <1>2, <1>3, <1>4, <1>5, <1>6, <1>7, <1>8, <1>9, <1>10, <1>11, <1>12, <1>13,
            <1>14, <1>15, <1>16 DEF Next, Chosen, Program

(* What is read and what is shown is live and honest after a step.         *)
LEMMA ReadsNext ==
    ASSUME LogsOK, Sizes, RowsOK, WireOK, FlagsOK, ReadsOK, ScreenOK, [Next]_vars
    PROVE  ReadsOK' /\ ScreenOK'
<1>1. ReadsNow  BY ReadsStep
<1>2. Grows  BY LogsNext
<1>3. /\ Honest \subseteq Honest' /\ ListType \subseteq ListType' /\ Seq(Live) \subseteq Seq(Live')
      /\ PageRead \subseteq PageRead' /\ ListRead \subseteq ListRead'
    BY <1>2, TypesGrow
<1>4. pages' \in Seq(PageRead')  BY <1>1, <1>3, SeqGrows DEF ReadsNow
<1>5. lists' \in Seq(ListRead')  BY <1>1, <1>3, SeqGrows DEF ReadsNow
<1>6. older' \in Seq(Seq(Live'))  BY <1>1, <1>3, SeqGrows DEF ReadsNow
<1>7. view' \in Seq(Honest')  BY <1>1, <1>3, SeqGrows DEF ReadsNow
<1>8. list' \in ListType'  BY <1>1, <1>3 DEF ReadsNow
<1> QED  BY <1>4, <1>5, <1>6, <1>7, <1>8 DEF ReadsOK, ScreenOK

-----------------------------------------------------------------------------
(* One load and one reconcile at a time *)

Loads(i) == pages[i].for # "handler"
Syncs(i) == lists[i].for = "sync"

OneLoad ==
    /\ \A i, j \in 1..Len(pages) : Loads(i) /\ Loads(j) => i = j
    /\ (\E i \in 1..Len(pages) : Loads(i)) <=> load.pc = "show"

OneSync ==
    /\ DOMAIN sync = {"pc", "since", "queued"}
    /\ \A i, j \in 1..Len(lists) : Syncs(i) /\ Syncs(j) => i = j
    /\ (\E i \in 1..Len(lists) : Syncs(i)) <=> sync.pc = "show"

(* What is left of a queue when its head is taken.                         *)
LEMMA Taken ==
    ASSUME NEW S, NEW s \in Seq(S), s # <<>>
    PROVE  /\ Len(s) \in Nat \ {0} /\ Head(s) = s[1]
           /\ Len(Tail(s)) = Len(s) - 1
           /\ \A i \in 1..(Len(s) - 1) : Tail(s)[i] = s[i + 1]
OBVIOUS

(* What a queue is when something is added.                                *)
LEMMA Added ==
    ASSUME NEW S, NEW s \in Seq(S), NEW e
    PROVE  /\ Len(s) \in Nat /\ Len(Append(s, e)) = Len(s) + 1
           /\ Append(s, e)[Len(s) + 1] = e
           /\ \A i \in 1..Len(s) : Append(s, e)[i] = s[i]
OBVIOUS

(* A load reads a page only when it has none to show.                      *)
LEMMA OneLoadNext ==
    ASSUME ReadsOK, OneLoad, [Next]_vars
    PROVE  OneLoad'
<1> DEFINE n == Len(pages)
           LoadsNow(i) == pages'[i].for # "handler"
<1>0. pages \in Seq(PageRead) /\ n \in Nat  BY DEF ReadsOK
<1>1. /\ \A i, j \in 1..n : Loads(i) /\ Loads(j) => i = j
      /\ (\E i \in 1..n : Loads(i)) <=> load.pc = "show"
    BY DEF OneLoad
<1> HIDE DEF n
<1>2. ASSUME UNCHANGED <<pages, load>> PROVE OneLoad'
    BY <1>1, <1>2 DEF OneLoad, Loads, n
<1>3. ASSUME pages # <<>>, pages' = Tail(pages)
      PROVE  /\ Len(pages') = n - 1 /\ n >= 1 /\ (Loads(1) <=> Head(pages).for # "handler")
             /\ \A i \in 1..(n - 1) : LoadsNow(i) <=> Loads(i + 1)
    <2>1. /\ n \in Nat \ {0} /\ Head(pages) = pages[1] /\ Len(pages') = n - 1
          /\ \A i \in 1..(n - 1) : pages'[i] = pages[i + 1]
        BY <1>0, <1>3, Taken DEF n
    <2> QED  BY <2>1 DEF Loads
<1>4. ASSUME NEW e, pages' = Append(pages, e)
      PROVE  /\ Len(pages') = n + 1
             /\ (LoadsNow(n + 1) <=> e.for # "handler")
             /\ \A i \in 1..n : LoadsNow(i) <=> Loads(i)
    <2>1. /\ Len(pages') = n + 1 /\ pages'[n + 1] = e
          /\ \A i \in 1..n : pages'[i] = pages[i]
        BY <1>0, <1>4, Added DEF n
    <2> QED  BY <2>1 DEF Loads
<1>5. CASE UNCHANGED vars  BY <1>2, <1>5 DEF vars, reads
<1>6. CASE \E t \in Kinds, to \in Targetable : PeerSends(t, to) \/ composeMessage(t, to)
    BY <1>2, <1>6 DEF PeerSends, composeMessage, reads
<1>7. CASE PeerUnfriends \/ SocketDrops \/ loadOlder \/ prependMessages
    BY <1>2, <1>7 DEF PeerUnfriends, SocketDrops, loadOlder, prependMessages, reads
<1>8. CASE \/ \E k \in 1..MaxDrafts : sendPayload(k)
           \/ \E id \in 1..MaxLog : confirmMessage(id)
           \/ ReceiveMessage \/ ReceiveGivesUp \/ ReceiveRemoved
    BY <1>2, <1>8 DEF sendPayload, confirmMessage, ReceiveMessage, ReceiveGivesUp, ReceiveRemoved, reads
<1>9. CASE setConversations \/ Connect \/ TimerFires \/ reconcileFails \/ flushOutbox
    BY <1>2, <1>9 DEF setConversations, Connect, TimerFires, reconcileFails, flushOutbox, reads
<1>10. CASE syncConversations \/ backfill  BY <1>2, <1>10 DEF syncConversations, backfill
<1>11. CASE \E id \in 1..MaxLog : putMessage(id)
    <2>1. PICK id \in 1..MaxLog : putMessage(id)  BY <1>11
    <2> DEFINE e == [page |-> messagesFor(rows \cup {id}), for |-> "handler"]
    <2>2. pages' = Append(pages, e) /\ e.for = "handler" /\ load' = load
        BY <2>1 DEF putMessage, ReadPage
    <2> HIDE DEF e
    <2>3. /\ Len(pages') = n + 1 /\ ~ LoadsNow(n + 1)
          /\ \A i \in 1..n : LoadsNow(i) <=> Loads(i)
        BY <2>2, <1>4
    <2>4. \A i \in 1..(n + 1) : i \in 1..n \/ i = n + 1  BY <1>0
    <2>5. 1..n \subseteq 1..(n + 1)  BY <1>0
    <2>6. \A i, j \in 1..(n + 1) : LoadsNow(i) /\ LoadsNow(j) => i = j  BY <2>3, <2>4, <1>1
    <2>7. (\E i \in 1..(n + 1) : LoadsNow(i)) <=> load'.pc = "show"
        BY <2>2, <2>3, <2>4, <2>5, <1>1
    <2> QED  BY <2>3, <2>6, <2>7 DEF OneLoad, Loads
<1>12. CASE setMessages
    <2>1. pages # <<>> /\ pages' = Tail(pages) /\ Head(pages).for = "handler" /\ load' = load
        BY <1>12 DEF setMessages
    <2>2. /\ Len(pages') = n - 1 /\ n >= 1 /\ ~ Loads(1)
          /\ \A i \in 1..(n - 1) : LoadsNow(i) <=> Loads(i + 1)
        BY <2>1, <1>3
    <2>3. \A i \in 1..(n - 1) : i + 1 \in 1..n  BY <1>0
    <2>4. \A i \in 1..n : Loads(i) => i - 1 \in 1..(n - 1) /\ (i - 1) + 1 = i  BY <1>0, <2>2
    <2>5. ASSUME NEW i \in 1..(n - 1), NEW j \in 1..(n - 1), LoadsNow(i), LoadsNow(j) PROVE i = j
        <3>1. i + 1 = j + 1  BY <2>2, <2>3, <2>5, <1>1
        <3> QED  BY <3>1
    <2>6. (\E i \in 1..(n - 1) : LoadsNow(i)) <=> (\E i \in 1..n : Loads(i))
        BY <2>2, <2>3, <2>4
    <2> QED  BY <2>1, <2>2, <2>5, <2>6, <1>1 DEF OneLoad, Loads
<1>13. CASE loadConversation
    <2>1. pages # <<>> /\ pages' = Tail(pages) /\ Head(pages).for # "handler"
        BY <1>13 DEF loadConversation
    <2>2. /\ Len(pages') = n - 1 /\ n >= 1 /\ Loads(1)
          /\ \A i \in 1..(n - 1) : LoadsNow(i) <=> Loads(i + 1)
        BY <2>1, <1>3
    <2>3. ASSUME NEW i \in 1..(n - 1), LoadsNow(i) PROVE FALSE
        <3>1. i + 1 \in 1..n /\ 1 \in 1..n /\ i + 1 # 1  BY <1>0, <2>2
        <3> QED  BY <3>1, <2>2, <2>3, <1>1
    <2>4. load'.pc \in {"idle", "fetch"}  BY <1>13 DEF loadConversation, Idle
    <2> QED  BY <2>2, <2>3, <2>4 DEF OneLoad, Loads
<1>14. CASE LoadBackfills
    <2>1. load.pc = "fetch"  BY <1>14 DEF LoadBackfills
    <2>2. \A i \in 1..n : ~ Loads(i)  BY <2>1, <1>1
    <2>3. CASE load' = Idle /\ pages' = pages
        BY <2>2, <2>3 DEF OneLoad, Loads, Idle, n
    <2>4. CASE ReadPage(Filled(rows, load.since), "filled") /\ load' = [pc |-> "show", since |-> 0]
        <3> DEFINE e == [page |-> messagesFor(Filled(rows, load.since)), for |-> "filled"]
        <3>1. pages' = Append(pages, e) /\ e.for # "handler"  BY <2>4 DEF ReadPage
        <3> HIDE DEF e
        <3>2. /\ Len(pages') = n + 1 /\ LoadsNow(n + 1)
              /\ \A i \in 1..n : ~ LoadsNow(i)
            BY <3>1, <2>2, <1>4
        <3>3. \A i \in 1..(n + 1) : i \in 1..n \/ i = n + 1  BY <1>0
        <3>4. n + 1 \in 1..(n + 1)  BY <1>0
        <3> QED  BY <2>4, <3>2, <3>3, <3>4 DEF OneLoad, Loads
    <2> QED  BY <2>3, <2>4, <1>14 DEF LoadBackfills
<1> QED  BY <1>5, <1>6, <1>7, <1>8, <1>9, <1>10, <1>11, <1>12, <1>13, <1>14
         DEF Next, Chosen, Program

(* A reconcile reads a list only when it has none to show.                 *)
LEMMA OneSyncNext ==
    ASSUME ReadsOK, OneSync, [Next]_vars
    PROVE  OneSync'
<1> DEFINE n == Len(lists)
           SyncsNow(i) == lists'[i].for = "sync"
<1>0. lists \in Seq(ListRead) /\ n \in Nat  BY DEF ReadsOK
<1>1. /\ DOMAIN sync = {"pc", "since", "queued"}
      /\ \A i, j \in 1..n : Syncs(i) /\ Syncs(j) => i = j
      /\ (\E i \in 1..n : Syncs(i)) <=> sync.pc = "show"
    BY DEF OneSync
<1> HIDE DEF n
<1>2. ASSUME lists' = lists, DOMAIN sync' = {"pc", "since", "queued"},
             sync'.pc = "show" <=> sync.pc = "show"
      PROVE  OneSync'
    BY <1>1, <1>2 DEF OneSync, Syncs, n
<1>3. ASSUME UNCHANGED <<lists, sync>> PROVE OneSync'  BY <1>1, <1>2, <1>3
<1>4. ASSUME lists # <<>>, lists' = Tail(lists)
      PROVE  /\ Len(lists') = n - 1 /\ n >= 1 /\ (Syncs(1) <=> Head(lists).for = "sync")
             /\ \A i \in 1..(n - 1) : SyncsNow(i) <=> Syncs(i + 1)
    <2>1. /\ n \in Nat \ {0} /\ Head(lists) = lists[1] /\ Len(lists') = n - 1
          /\ \A i \in 1..(n - 1) : lists'[i] = lists[i + 1]
        BY <1>0, <1>4, Taken DEF n
    <2> QED  BY <2>1 DEF Syncs
<1>5. ASSUME NEW e, lists' = Append(lists, e)
      PROVE  /\ Len(lists') = n + 1
             /\ (SyncsNow(n + 1) <=> e.for = "sync")
             /\ \A i \in 1..n : SyncsNow(i) <=> Syncs(i)
    <2>1. /\ Len(lists') = n + 1 /\ lists'[n + 1] = e
          /\ \A i \in 1..n : lists'[i] = lists[i]
        BY <1>0, <1>5, Added DEF n
    <2> QED  BY <2>1 DEF Syncs
<1>6. ASSUME sync.pc # "show", NEW exists, NEW held, ReadList(exists, held, "sync"),
             DOMAIN sync' = {"pc", "since", "queued"}, sync'.pc = "show"
      PROVE  OneSync'
    <2> DEFINE e == [read |-> ListOf(exists, held), for |-> "sync"]
    <2>1. lists' = Append(lists, e) /\ e.for = "sync"  BY <1>6 DEF ReadList
    <2> HIDE DEF e
    <2>2. \A i \in 1..n : ~ Syncs(i)  BY <1>1, <1>6
    <2>3. /\ Len(lists') = n + 1 /\ SyncsNow(n + 1)
          /\ \A i \in 1..n : ~ SyncsNow(i)
        BY <2>1, <2>2, <1>5
    <2>4. \A i \in 1..(n + 1) : i \in 1..n \/ i = n + 1  BY <1>0
    <2>5. n + 1 \in 1..(n + 1)  BY <1>0
    <2> QED  BY <1>6, <2>3, <2>4, <2>5 DEF OneSync, Syncs
<1>7. ASSUME Requested, lists' = lists PROVE OneSync'
    <2>1. DOMAIN sync' = {"pc", "since", "queued"} /\ (sync'.pc = "show" <=> sync.pc = "show")
        BY <1>1, <1>7 DEF Requested, Starting, NoSync
    <2> QED  BY <1>2, <1>7, <2>1
<1>8. CASE UNCHANGED vars  BY <1>3, <1>8 DEF vars, reads
<1>9. CASE \E t \in Kinds, to \in Targetable : PeerSends(t, to) \/ composeMessage(t, to)
    BY <1>3, <1>9 DEF PeerSends, composeMessage, reads
<1>10. CASE PeerUnfriends \/ SocketDrops \/ loadOlder \/ prependMessages
    BY <1>3, <1>10 DEF PeerUnfriends, SocketDrops, loadOlder, prependMessages, reads
<1>11. CASE \/ \E k \in 1..MaxDrafts : sendPayload(k)
            \/ \E id \in 1..MaxLog : confirmMessage(id) \/ putMessage(id)
            \/ ReceiveMessage \/ ReceiveGivesUp \/ loadConversation \/ LoadBackfills
    BY <1>3, <1>11 DEF sendPayload, confirmMessage, putMessage, ReceiveMessage, ReceiveGivesUp,
                       loadConversation, LoadBackfills, reads
<1>12. CASE Connect \/ ReceiveRemoved \/ TimerFires
    BY <1>7, <1>12 DEF Connect, ReceiveRemoved, TimerFires, reads
<1>13. CASE setMessages
    <2> DEFINE e == [read |-> ListOf(known, rows), for |-> "handler"]
    <2>1. lists' = Append(lists, e) /\ e.for # "sync" /\ sync' = sync
        BY <1>13 DEF setMessages, ReadList
    <2> HIDE DEF e
    <2>2. /\ Len(lists') = n + 1 /\ ~ SyncsNow(n + 1)
          /\ \A i \in 1..n : SyncsNow(i) <=> Syncs(i)
        BY <2>1, <1>5
    <2>3. \A i \in 1..(n + 1) : i \in 1..n \/ i = n + 1  BY <1>0
    <2>4. 1..n \subseteq 1..(n + 1)  BY <1>0
    <2>5. \A i, j \in 1..(n + 1) : SyncsNow(i) /\ SyncsNow(j) => i = j  BY <2>2, <2>3, <1>1
    <2>6. (\E i \in 1..(n + 1) : SyncsNow(i)) <=> sync'.pc = "show"
        BY <2>1, <2>2, <2>3, <2>4, <1>1
    <2> QED  BY <2>1, <2>2, <2>5, <2>6, <1>1 DEF OneSync, Syncs
<1>14. CASE setConversations
    <2>1. lists # <<>> /\ lists' = Tail(lists) /\ Head(lists).for = "handler" /\ sync' = sync
        BY <1>14 DEF setConversations
    <2>2. /\ Len(lists') = n - 1 /\ n >= 1 /\ ~ Syncs(1)
          /\ \A i \in 1..(n - 1) : SyncsNow(i) <=> Syncs(i + 1)
        BY <2>1, <1>4
    <2>3. \A i \in 1..(n - 1) : i + 1 \in 1..n  BY <1>0
    <2>4. \A i \in 1..n : Syncs(i) => i - 1 \in 1..(n - 1) /\ (i - 1) + 1 = i  BY <1>0, <2>2
    <2>5. ASSUME NEW i \in 1..(n - 1), NEW j \in 1..(n - 1), SyncsNow(i), SyncsNow(j) PROVE i = j
        <3>1. i + 1 = j + 1  BY <2>2, <2>3, <2>5, <1>1
        <3> QED  BY <3>1
    <2>6. (\E i \in 1..(n - 1) : SyncsNow(i)) <=> (\E i \in 1..n : Syncs(i))
        BY <2>2, <2>3, <2>4
    <2> QED  BY <2>1, <2>2, <2>5, <2>6, <1>1 DEF OneSync, Syncs
<1>15. CASE flushOutbox
    <2>1. lists # <<>> /\ lists' = Tail(lists) /\ Head(lists).for = "sync"
          /\ sync' = IF sync.queued THEN Starting ELSE NoSync
        BY <1>15 DEF flushOutbox
    <2>2. /\ Len(lists') = n - 1 /\ n >= 1 /\ Syncs(1)
          /\ \A i \in 1..(n - 1) : SyncsNow(i) <=> Syncs(i + 1)
        BY <2>1, <1>4
    <2>3. ASSUME NEW i \in 1..(n - 1), SyncsNow(i) PROVE FALSE
        <3>1. i + 1 \in 1..n /\ 1 \in 1..n /\ i + 1 # 1  BY <1>0, <2>2
        <3> QED  BY <3>1, <2>2, <2>3, <1>1
    <2>4. DOMAIN sync' = {"pc", "since", "queued"} /\ sync'.pc # "show"
        BY <2>1 DEF Starting, NoSync
    <2> QED  BY <2>2, <2>3, <2>4 DEF OneSync, Syncs
<1>16. CASE syncConversations
    <2>1. sync.pc = "list"  BY <1>16 DEF syncConversations
    <2>2. CASE friends
        <3>1. lists' = lists /\ sync' = [sync EXCEPT !.pc = "fetch", !.since = lastCreatedAt(rows)]
            BY <1>16, <2>2 DEF syncConversations
        <3>2. DOMAIN sync' = {"pc", "since", "queued"} /\ sync'.pc = "fetch"  BY <3>1, <1>1
        <3> QED  BY <2>1, <3>1, <3>2, <1>2
    <2>3. CASE ~ friends
        <3>1. ReadList(FALSE, {}, "sync") /\ sync' = [sync EXCEPT !.pc = "show"]
            BY <1>16, <2>3 DEF syncConversations
        <3>2. DOMAIN sync' = {"pc", "since", "queued"} /\ sync'.pc = "show"  BY <3>1, <1>1
        <3> QED  BY <2>1, <3>1, <3>2, <1>6
    <2> QED  BY <2>2, <2>3
<1>17. CASE backfill
    <2>1. sync.pc = "fetch" /\ ReadList(known, Filled(rows, sync.since), "sync")
          /\ sync' = [sync EXCEPT !.pc = "show", !.since = 0]
        BY <1>17 DEF backfill
    <2>2. DOMAIN sync' = {"pc", "since", "queued"} /\ sync'.pc = "show"  BY <2>1, <1>1
    <2> QED  BY <2>1, <2>2, <1>6
<1>18. CASE reconcileFails
    <2>1. sync.pc # "show" /\ lists' = lists /\ sync' = NoSync
        BY <1>18 DEF reconcileFails, reads
    <2>2. DOMAIN sync' = {"pc", "since", "queued"} /\ sync'.pc # "show"  BY <2>1 DEF NoSync
    <2> QED  BY <2>1, <2>2, <1>2
<1> QED  BY <1>8, <1>9, <1>10, <1>11, <1>12, <1>13, <1>14, <1>15, <1>16, <1>17, <1>18
         DEF Next, Chosen, Program

-----------------------------------------------------------------------------
(* What was typed is kept *)

(* A pending row goes only when the relay has its message, or with the     *)
(* friendship.                                                             *)
LEMMA TypedNext ==
    ASSUME LogsOK, Sizes, RowsOK, WireOK, TypedIsKept, [Next]_vars
    PROVE  TypedIsKept'
<1> DEFINE Sent1(n) == \E i \in 1..Len(log) : log[i].client = -n
           SentNow(n) == \E i \in 1..Len(log') : log'[i].client = -n
<1>0. /\ DOMAIN log = 1..Len(log) /\ DOMAIN drafts = 1..Len(drafts)
      /\ DOMAIN log' = 1..Len(log') /\ DOMAIN drafts' = 1..Len(drafts')
    BY LogsNext DEF LogsOK
<1>1. \A n \in 1..Len(drafts) : friends => -n \in rows \/ Sent1(n)
    BY <1>0 DEF TypedIsKept
<1>2. \A n : Sent1(n) => SentNow(n)
    <2>1. ASSUME NEW i \in 1..Len(log) PROVE i \in 1..Len(log') /\ log'[i] = log[i]
        <3>1. i \in Live /\ i > 0  BY <2>1, LiveFacts DEF Live
        <3>2. i \in Live' /\ Entry(i)' = Entry(i)  BY <3>1, LogsNext DEF Grows
        <3>3. Len(drafts') \in Nat  BY LogsNext DEF LogsOK
        <3> QED  BY <3>1, <3>2, <3>3 DEF Live, Entry
    <2> QED  BY <2>1
<1> SUFFICES ASSUME NEW n \in 1..Len(drafts'), friends' PROVE -n \in rows' \/ SentNow(n)
    BY <1>0 DEF TypedIsKept
<1> HIDE DEF Sent1, SentNow
<1>3. ASSUME drafts' = drafts, friends, rows \subseteq rows' PROVE -n \in rows' \/ SentNow(n)
    BY <1>1, <1>2, <1>3
<1>4. CASE UNCHANGED vars  BY <1>3, <1>4 DEF vars, relay, outbox
<1>5. CASE \E t \in Kinds, to \in Targetable : PeerSends(t, to)
    BY <1>3, <1>5 DEF PeerSends, outbox
<1>6. CASE \E t \in Kinds, to \in Targetable : composeMessage(t, to)
    <2>1. rows' = rows \cup {-(Len(drafts) + 1)} /\ friends
        BY <1>6 DEF composeMessage, relay
    <2>2. Len(drafts') = Len(drafts) + 1  BY <1>6, ComposeGrows
    <2>3. Len(drafts) \in Nat  BY LiveFacts
    <2>4. n \in 1..Len(drafts) \/ n = Len(drafts) + 1  BY <2>2, <2>3
    <2> QED  BY <2>1, <2>4, <1>1, <1>2
<1>7. CASE PeerUnfriends \/ SocketDrops \/ loadOlder \/ prependMessages
    BY <1>3, <1>7 DEF PeerUnfriends, SocketDrops, loadOlder, prependMessages, relay, outbox
<1>8. CASE \E k \in 1..MaxDrafts : sendPayload(k)  BY <1>3, <1>8 DEF sendPayload
<1>9. CASE ReceiveMessage \/ ReceiveGivesUp \/ ReceiveRemoved
    BY <1>3, <1>9 DEF ReceiveMessage, ReceiveGivesUp, ReceiveRemoved, relay, outbox
<1>10. CASE \E id \in 1..MaxLog : confirmMessage(id)
    <2>1. PICK id : confirmMessage(id)  BY <1>10
    <2>2. id \in 1..Len(log) /\ rows' = rows \ {log[id].client} /\ friends /\ drafts' = drafts
        BY <2>1 DEF confirmMessage, relay, outbox, WireOK
    <2>3. CASE log[id].client = -n  BY <2>2, <2>3, <1>2 DEF Sent1
    <2>4. CASE log[id].client # -n  BY <2>2, <2>4, <1>1, <1>2
    <2> QED  BY <2>3, <2>4
<1>11. CASE \E id \in 1..MaxLog : putMessage(id)
    BY <1>3, <1>11 DEF putMessage, relay, outbox
<1>12. CASE setMessages \/ setConversations \/ loadConversation
    BY <1>3, <1>12 DEF setMessages, setConversations, loadConversation, relay, outbox
<1>13. CASE LoadBackfills
    <2>1. drafts' = drafts /\ friends  BY <1>13 DEF LoadBackfills, relay, outbox
    <2>2. rows \subseteq rows'  BY <1>13 DEF LoadBackfills, Filled
    <2> QED  BY <1>3, <2>1, <2>2
<1>14. CASE Connect \/ TimerFires \/ reconcileFails
    BY <1>3, <1>14 DEF Connect, TimerFires, reconcileFails, relay, outbox
<1>15. CASE syncConversations
    BY <1>3, <1>15 DEF syncConversations, relay, outbox
<1>16. CASE backfill
    <2>1. drafts' = drafts /\ friends  BY <1>16 DEF backfill, relay, outbox
    <2>2. rows \subseteq rows'  BY <1>16 DEF backfill, Filled
    <2> QED  BY <1>3, <2>1, <2>2
<1>17. CASE flushOutbox  BY <1>3, <1>17 DEF flushOutbox, outbox
<1> QED  BY <1>4, <1>5, <1>6, <1>7, <1>8, <1>9, <1>10, <1>11, <1>12, <1>13, <1>14, <1>15, <1>16, <1>17
         DEF Next, Chosen, Program

-----------------------------------------------------------------------------
(* The invariant *)

IInv == /\ LogsOK /\ Sizes /\ RowsOK /\ WireOK /\ FlagsOK
        /\ ReadsOK /\ ScreenOK /\ OneLoad /\ OneSync /\ TypedIsKept

(* It holds of the chat that has just been opened,                         *)
LEMMA IInvInit == Init => IInv
<1> SUFFICES ASSUME Init PROVE IInv  OBVIOUS
<1> DEFINE m == [by |-> Bob, t |-> "text", to |-> 0, client |-> 0]
           p == [page |-> <<1>>, for |-> "opening"]
<1>1. m \in Message  BY KindsAssumption DEF Message
<1>2. log = <<m>> /\ drafts = <<>>  BY DEF Init
<1> HIDE DEF m
<1>3. log \in Seq(Message) /\ Len(log) = 1 /\ drafts \in Seq(Draft) /\ Len(drafts) = 0  BY <1>1, <1>2
<1>4. LogsOK  BY <1>3 DEF LogsOK
<1>5. Sizes
    <2>1. MaxLog \in Nat /\ MaxLog >= 1 /\ MaxDrafts \in Nat  BY SizesAssumption
    <2> QED  BY <1>3, <2>1 DEF Sizes
<1>6. 1 \in Live  BY <1>3 DEF Live
<1>7. RowsOK  BY <1>6 DEF Init, RowsOK
<1>8. WireOK
    <2>1. wire = <<>> /\ received = {} /\ confirming = {}  BY DEF Init
    <2>2. wire \in Seq(0..Len(log)) /\ Len(wire) = 0  BY <2>1
    <2> QED  BY <2>1, <2>2 DEF WireOK
<1>9. FlagsOK  BY DEF Init, FlagsOK
<1>10. p \in PageRead
    <2>1. <<1>> \in Seq(Live)  BY <1>6
    <2> QED  BY <2>1 DEF PageRead
<1>11. pages = <<p>> /\ p.for # "handler"  BY DEF Init
<1> HIDE DEF p
<1>12. pages \in Seq(PageRead) /\ Len(pages) = 1 /\ pages[1] = p  BY <1>10, <1>11
<1>13. ReadsOK
    <2>1. lists = <<>> /\ older = <<>>  BY DEF Init
    <2>2. <<>> \in Seq(ListRead) /\ <<>> \in Seq(Seq(Live))  OBVIOUS
    <2> QED  BY <1>12, <2>1, <2>2 DEF ReadsOK
<1>14. ScreenOK
    <2>1. view = <<>> /\ list = ListOf(TRUE, {1})  BY DEF Init
    <2>2. list \in ListType  BY <2>1, <1>4, <1>6, ListHonest
    <2>3. <<>> \in Seq(Honest)  OBVIOUS
    <2> QED  BY <2>1, <2>2, <2>3 DEF ScreenOK
<1>15. OneLoad
    <2>1. load.pc = "show"  BY DEF Init, Idle
    <2>2. \A i \in 1..Len(pages) : i = 1  BY <1>12
    <2>3. 1 \in 1..Len(pages) /\ Loads(1)  BY <1>11, <1>12 DEF Loads
    <2> QED  BY <2>1, <2>2, <2>3 DEF OneLoad
<1>16. OneSync
    <2>1. lists = <<>> /\ sync = NoSync  BY DEF Init
    <2>2. Len(lists) = 0  BY <2>1
    <2>3. DOMAIN sync = {"pc", "since", "queued"} /\ sync.pc # "show"  BY <2>1 DEF NoSync
    <2> QED  BY <2>2, <2>3 DEF OneSync
<1>17. TypedIsKept
    <2>1. DOMAIN drafts = {}  BY <1>2
    <2> QED  BY <2>1 DEF TypedIsKept
<1> QED  BY <1>4, <1>5, <1>7, <1>8, <1>9, <1>13, <1>14, <1>15, <1>16, <1>17 DEF IInv

(* every step keeps it,                                                    *)
LEMMA IInvNext == IInv /\ [Next]_vars => IInv'
<1> SUFFICES ASSUME IInv, [Next]_vars PROVE IInv'  OBVIOUS
<1>0. /\ LogsOK /\ Sizes /\ RowsOK /\ WireOK /\ FlagsOK
      /\ ReadsOK /\ ScreenOK /\ OneLoad /\ OneSync /\ TypedIsKept
    BY DEF IInv
<1>1. LogsOK' /\ Sizes'  BY <1>0, LogsNext
<1>2. RowsOK'  BY <1>0, RowsNext DEF WireOK
<1>3. WireOK'  BY <1>0, WireNext
<1>4. FlagsOK'  BY <1>0, FlagsNext
<1>5. ReadsOK' /\ ScreenOK'  BY <1>0, ReadsNext
<1>6. OneLoad'  BY <1>0, OneLoadNext
<1>7. OneSync'  BY <1>0, OneSyncNext
<1>8. TypedIsKept'  BY <1>0, TypedNext
<1> QED  BY <1>1, <1>2, <1>3, <1>4, <1>5, <1>6, <1>7, <1>8 DEF IInv

(* and so it holds.                                                        *)
LEMMA Invariant == Spec => []IInv
BY IInvInit, IInvNext, PTL DEF Spec

-----------------------------------------------------------------------------
(* The theorems *)

(* Within the bounds, what is honest has the type of the specification.    *)
LEMMA ShownAreBubbles ==
    ASSUME LogsOK, Sizes
    PROVE  Honest \subseteq Bubbles /\ Live \subseteq Ids
<1>1. Len(log) \in Nat /\ Len(drafts) \in Nat /\ MaxLog \in Nat /\ MaxDrafts \in Nat
    BY LiveFacts, SizesAssumption
<1>2. 1..Len(log) \subseteq 1..MaxLog /\ 1..Len(drafts) \subseteq 1..MaxDrafts  BY <1>1 DEF Sizes
<1>3. Live \subseteq Ids  BY <1>2 DEF Live, Ids
<1>4. Shown \subseteq Bubbles  BY <1>3 DEF Shown, Bubbles
<1> QED  BY <1>3, <1>4 DEF Honest

(* The invariant has the type invariant in it,                             *)
LEMMA IInvType == IInv => TypeOK
<1> SUFFICES ASSUME IInv PROVE TypeOK  OBVIOUS
<1>0. /\ LogsOK /\ Sizes /\ RowsOK /\ WireOK /\ FlagsOK
      /\ ReadsOK /\ ScreenOK /\ OneLoad /\ OneSync
    BY DEF IInv
<1>1. Honest \subseteq Bubbles /\ Live \subseteq Ids  BY <1>0, ShownAreBubbles
<1>2. Len(log) <= MaxLog /\ Len(drafts) <= MaxDrafts /\ composing \subseteq 1..Len(drafts)
    BY <1>0 DEF Sizes, RowsOK
<1>3. rows \subseteq Ids  BY <1>0, <1>1 DEF RowsOK
<1>4. received \cup confirming \subseteq DOMAIN log /\ received \cap confirming = {}
    <2>1. DOMAIN log = 1..Len(log)  BY <1>0 DEF LogsOK
    <2> QED  BY <2>1, <1>0 DEF WireOK
<1>5. Range(view) \subseteq Bubbles
    <2>1. DOMAIN view = 1..Len(view) /\ \A i \in 1..Len(view) : view[i] \in Honest
        BY <1>0, Elements DEF ScreenOK
    <2> QED  BY <2>1, <1>1 DEF Range
<1>6. list.preview \subseteq Bubbles  BY <1>0, <1>1 DEF ScreenOK, ListType
<1>7. DOMAIN lists = 1..Len(lists) /\ DOMAIN pages = 1..Len(pages)  BY <1>0 DEF ReadsOK
<1>8. /\ \A i, j \in DOMAIN lists : lists[i].for = "sync" /\ lists[j].for = "sync" => i = j
      /\ (\E i \in DOMAIN lists : lists[i].for = "sync") <=> sync.pc = "show"
    BY <1>0, <1>7 DEF OneSync, Syncs
<1>9. /\ \A i, j \in DOMAIN pages : pages[i].for # "handler" /\ pages[j].for # "handler" => i = j
      /\ (\E i \in DOMAIN pages : pages[i].for # "handler") <=> load.pc = "show"
    BY <1>0, <1>7 DEF OneLoad, Loads
<1> QED  BY <1>2, <1>3, <1>4, <1>5, <1>6, <1>8, <1>9 DEF TypeOK

(* Every queue holds what it should, and nothing is handled twice at once. *)
THEOREM TypeCorrect == Spec => []TypeOK
BY Invariant, IInvType, PTL

(* All that is on screen is honest.                                        *)
LEMMA HonestAlter ==
    ASSUME LogsOK, ScreenOK
    PROVE  OnlyAuthorsAlter
<1>1. DOMAIN view = 1..Len(view) /\ \A i \in 1..Len(view) : view[i] \in Honest
    BY Elements DEF ScreenOK
<1>2. Range(view) \cup list.preview \subseteq Honest  BY <1>1 DEF Range, ScreenOK, ListType
<1>3. DOMAIN log = 1..Len(log) /\ DOMAIN drafts = 1..Len(drafts)  BY DEF LogsOK
<1>4. Live = DOMAIN log \cup {-n : n \in DOMAIN drafts}  BY <1>3 DEF Live
<1>5. ASSUME NEW b \in Honest
      PROVE  /\ b.body # 0 => Entry(b.body).by = b.by
             /\ b.deleted => \E id \in Live :
                    Entry(id).t = "delete" /\ Entry(id).to = b.id /\ Entry(id).by = b.by
    BY <1>5 DEF Honest, Retracts
<1> QED  BY <1>2, <1>4, <1>5 DEF OnlyAuthorsAlter

(* Whatever the peer sends, a bubble says what its own author wrote, and   *)
(* is retracted only by its author (presentMessages, byAuthor).            *)
THEOREM AuthorsAlone == Spec => []OnlyAuthorsAlter
<1>1. IInv => OnlyAuthorsAlter  BY HonestAlter DEF IInv
<1> QED  BY <1>1, Invariant, PTL

(* Folding the newest page alone shows its messages as folding all the     *)
(* rows would (presentMessages of messagesFor).                            *)
THEOREM PagesAreEnough == Spec => []NewestPageIsExact
<1>1. IInv => NewestPageIsExact  BY PageIsExact DEF IInv, RowsOK
<1> QED  BY <1>1, Invariant, PTL

(* Until the friendship ends, what was composed is a row of the device or  *)
(* a message of the relay, whatever the connection does (sync.js:393).     *)
THEOREM TypedIsNeverLost == Spec => []TypedIsKept
<1>1. IInv => TypedIsKept  BY DEF IInv
<1> QED  BY <1>1, Invariant, PTL
=============================================================================
