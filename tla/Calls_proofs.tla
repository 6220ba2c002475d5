----------------------------- MODULE Calls_proofs -----------------------------
(***************************************************************************)
(* Proofs about Calls, for any calls, any candidates and any faults.  Most *)
(* steps change one context and, when they stop it, the screen and callRef *)
(* of its owner.                                                           *)
(***************************************************************************)
EXTENDS Calls, TLAPS

States ==
    [task : Tasks, pc : {"none", "open", "closed"}, capture : BOOLEAN, described : BOOLEAN,
     early : SUBSET Contexts, parked : SUBSET Contexts, applied : SUBSET Contexts,
     candidate : {"none", "gathered", "sent"}, timer : BOOLEAN,
     active : BOOLEAN, answering : {"none", "open", "flush", "done"}]

Events == [kind : {"offer", "ringing", "answer", "candidate", "end"}, call : Calls, from : Contexts]
Screens == [phase : Phases, call : Calls \cup {None}]

Wires == inbox \in [Users -> Seq(Events)] /\ pending \in [Calls -> SUBSET Contexts]

Types ==
    /\ ref \in [Users -> Contexts \cup {None}]
    /\ \A u \in Users : ref[u] # None => Owner(ref[u]) = u
    /\ ctx \in [Contexts -> States]
    /\ screen \in [Users -> Screens]
    /\ \A u \in Users : screen[u].phase # "idle" => screen[u].call \in Calls
    /\ orphans \in [Users -> SUBSET Contexts]
    /\ Wires

(* A context in state s, that is callRef or not, and was replaced or not:  *)
(* what its handler has done, a closed connection does not keep; and a     *)
(* call that is over and still connected is not callRef.                   *)
Sound(s, x, current, gone) ==
    /\ s \in States
    /\ s.capture => s.pc = "open" /\ (current \/ gone)
    /\ s.task \in {"none", "media", "open", "admit", "idle"} => s.pc = "none"
    /\ s.pc = "closed" => ~current /\ ~s.described /\ s.parked = {}
    /\ s.answering = "done" /\ s.described => s.parked = {}
    /\ x.made # "placed" =>
          /\ s.answering = "none" /\ s.task \notin {"card", "recording"}
          /\ s.task \in {"flush", "seal", "done"} /\ s.pc = "open" => s.described
          /\ s.task \in {"seal", "done"} => s.parked = {}

Sane(s, x, current, gone) ==
    Sound(s, x, current, gone) /\ (s.task = "over" /\ s.pc = "open" => ~current)

AllSane == \A x \in Contexts : Sane(ctx[x], x, Current(x), x \in replaced)

(* A screen shows the call that was placed here only while it is there; a  *)
(* call that was accepted here too, unless it was also fetched.            *)
Accepted == {"media", "describe", "flush", "seal", "done"}

Shows(x) ==
    screen[Owner(x)].call = x.call =>
        /\ x.made = "placed" => Current(x)
        /\ x.made # "placed" /\ ctx[x].task \in Accepted => Current(x) \/ FetchedToo(x.call)

ScreenInv == ScreenFollowsTheCall /\ \A x \in Contexts : Shows(x)

Inv == Types /\ AllSane /\ ScreenInv

-----------------------------------------------------------------------------
(* Contexts and their owners *)

LEMMA ContextFacts ==
    ASSUME NEW x \in Contexts
    PROVE  /\ x.call \in Calls /\ x.made \in {"placed", "pushed", "resumed"}
           /\ x = [call |-> x.call, made |-> x.made]
           /\ Owner(x) \in Users /\ x # None /\ x.call # None
           /\ Peer[Owner(x)] \in Users /\ Peer[Owner(x)] # Owner(x)
<1>1. /\ x.call \in Calls /\ x.made \in {"placed", "pushed", "resumed"}
      /\ x = [call |-> x.call, made |-> x.made]
  BY DEF Contexts
<1>2. Caller[x.call] \in Users /\ \A u \in Users : Peer[u] \in Users /\ Peer[u] # u
  BY <1>1, UsersAssumption, CallsAssumption
<1> QED BY <1>1, <1>2, NoneAssumption DEF Owner

LEMMA MakeContext ==
    ASSUME NEW c \in Calls, NEW m \in {"placed", "pushed", "resumed"}
    PROVE  /\ [call |-> c, made |-> m] \in Contexts
           /\ [call |-> c, made |-> m].call = c /\ [call |-> c, made |-> m].made = m
BY DEF Contexts

LEMMA PlacedFacts ==
    ASSUME NEW c \in Calls
    PROVE  /\ Placed(c) \in Contexts /\ Placed(c).call = c /\ Placed(c).made = "placed"
           /\ Owner(Placed(c)) = Caller[c]
BY MakeContext DEF Placed, Owner

(* Two contexts of one call on one device are an offer that was pushed and *)
(* the same offer fetched.                                                 *)
LEMMA SameCall ==
    ASSUME NEW x \in Contexts, NEW y \in Contexts, x # y, Owner(x) = Owner(y), x.call = y.call,
           ctx[x].task # "none", ctx[y].task # "none"
    PROVE  x.made # "placed" /\ y.made # "placed" /\ FetchedToo(x.call)
<1> DEFINE c == x.call
<1>1. Caller[c] \in Users /\ Peer[Caller[c]] # Caller[c]
  BY ContextFacts, UsersAssumption, CallsAssumption
<1>2. x = [call |-> c, made |-> x.made] /\ y = [call |-> c, made |-> y.made] /\ x.made # y.made
      /\ x.made \in {"placed", "pushed", "resumed"} /\ y.made \in {"placed", "pushed", "resumed"}
  BY ContextFacts
<1>3. x.made # "placed" /\ y.made # "placed"
  BY <1>1, <1>2 DEF Owner
<1>4. \/ x = [call |-> c, made |-> "pushed"] /\ y = [call |-> c, made |-> "resumed"]
      \/ y = [call |-> c, made |-> "pushed"] /\ x = [call |-> c, made |-> "resumed"]
  BY <1>2, <1>3
<1>5. FetchedToo(c)
  BY <1>4 DEF FetchedToo
<1> QED BY <1>3, <1>5

LEMMA CurrentIsOne ==
    ASSUME NEW x \in Contexts, NEW y \in Contexts, Owner(x) = Owner(y), Current(x), Current(y)
    PROVE  x = y
BY DEF Current

(* A handler that has begun stays begun.                                   *)
Begun == \A x \in Contexts : ctx[x].task # "none" => ctx'[x].task # "none"

LEMMA FetchedStays ==
    ASSUME Begun, NEW c \in Calls, FetchedToo(c)
    PROVE  FetchedToo(c)'
BY MakeContext DEF Begun, FetchedToo

-----------------------------------------------------------------------------
(* What goes over the wire *)

LEMMA PublishOK ==
    ASSUME Wires, NEW u \in Users, NEW e \in Events, publish(u, e)
    PROVE  inbox' \in [Users -> Seq(Events)]
BY DEF Wires, publish

LEMMA TakenOK ==
    ASSUME Wires, NEW u \in Users, NEW e \in Events, Taken(u, e)
    PROVE  Wires'
<1>1. Peer[u] \in Users /\ e.call \in Calls /\ e.from \in Contexts
      /\ [kind |-> "ringing", call |-> e.call, from |-> e.from] \in Events
  BY UsersAssumption DEF Events
<1>2. CASE e.kind = "offer"
  <2>1. relay_call_offer(u, e)
    BY <1>2 DEF Taken
  <2>2. inbox' \in [Users -> Seq(Events)]
    BY <1>1, <2>1, PublishOK DEF relay_call_offer
  <2> QED BY <1>1, <2>1, <2>2 DEF Wires, relay_call_offer
<1>3. CASE e.kind \in {"answer", "candidate"}
  <2>1. relay_call_signal(u, e)
    BY <1>3 DEF Taken
  <2>2. inbox' \in [Users -> Seq(Events)]
    BY <1>1, <2>1, PublishOK DEF relay_call_signal, Wires
  <2>3. pending' \in [Calls -> SUBSET Contexts]
    <3>1. CASE UNCHANGED pending
      BY <3>1 DEF Wires
    <3>2. ASSUME pending' = [pending EXCEPT ![e.call] = @ \cup {s \in {e.from} : e.kind = "candidate"}]
          PROVE  pending' \in [Calls -> SUBSET Contexts]
      <4>1. pending[e.call] \cup {s \in {e.from} : e.kind = "candidate"} \subseteq Contexts
        BY <1>1 DEF Wires
      <4> QED BY <3>2, <4>1 DEF Wires
    <3> QED BY <2>1, <3>1, <3>2 DEF relay_call_signal
  <2> QED BY <2>2, <2>3 DEF Wires
<1>4. CASE e.kind = "ringing"
  <2>1. relay_call_ringing(u, e)
    BY <1>4 DEF Taken
  <2>2. inbox' \in [Users -> Seq(Events)]
    BY <1>1, <2>1, PublishOK DEF relay_call_ringing, Wires
  <2> QED BY <1>1, <2>1, <2>2 DEF Wires, relay_call_ringing
<1>5. CASE e.kind = "end"
  <2>1. relay_call_end(u, e)
    BY <1>5 DEF Taken
  <2>2. inbox' \in [Users -> Seq(Events)]
    BY <1>1, <2>1, PublishOK DEF relay_call_end
  <2> QED BY <1>1, <2>1, <2>2 DEF Wires, relay_call_end
<1> QED BY <1>2, <1>3, <1>4, <1>5 DEF Events

LEMMA EventOK ==
    ASSUME NEW x \in Contexts, NEW kind \in {"offer", "ringing", "answer", "candidate", "end"}
    PROVE  [kind |-> kind, call |-> x.call, from |-> x] \in Events
BY ContextFacts DEF Events

LEMMA SendOK ==
    ASSUME Wires, NEW x \in Contexts,
           NEW kind \in {"offer", "ringing", "answer", "candidate", "end"}, Send(x, kind)
    PROVE  Wires'
<1>1. CASE Taken(Owner(x), [kind |-> kind, call |-> x.call, from |-> x])
  BY <1>1, EventOK, ContextFacts, TakenOK
<1>2. CASE UNCHANGED <<pending, inbox>>
  BY <1>2 DEF Wires
<1> QED BY <1>1, <1>2 DEF Send

LEMMA EndSentOK ==
    ASSUME Wires, NEW x \in Contexts,
           relay_call_end(Owner(x), [kind |-> "end", call |-> x.call, from |-> x])
           \/ UNCHANGED <<pending, inbox>>
    PROVE  Wires'
<1>1. CASE relay_call_end(Owner(x), [kind |-> "end", call |-> x.call, from |-> x])
  <2>1. inbox' \in [Users -> Seq(Events)]
    BY <1>1, EventOK, ContextFacts, PublishOK DEF relay_call_end
  <2> QED BY <1>1, <2>1, ContextFacts DEF relay_call_end, Wires
<1>2. CASE UNCHANGED <<pending, inbox>>
  BY <1>2 DEF Wires
<1> QED BY <1>1, <1>2

LEMMA RestOK ==
    ASSUME Wires, NEW u \in Users, inbox[u] # <<>>, Rest(u)
    PROVE  inbox' \in [Users -> Seq(Events)]
BY DEF Wires, Rest

LEMMA HeadOK ==
    ASSUME Wires, NEW u \in Users, inbox[u] # <<>>
    PROVE  /\ Head(inbox[u]) \in Events /\ Head(inbox[u]).call \in Calls
           /\ Head(inbox[u]).from \in Contexts
<1>1. Head(inbox[u]) \in Events
  BY DEF Wires
<1> QED BY <1>1 DEF Events

-----------------------------------------------------------------------------
(* One context *)

LEMMA ThisContext ==
    ASSUME Inv, NEW x \in Contexts
    PROVE  Sane(ctx[x], x, Current(x), x \in replaced) /\ ctx[x] \in States
BY DEF Inv, AllSane, Sane, Sound

LEMMA ThisUser ==
    ASSUME Inv, NEW u \in Users, ref[u] # None
    PROVE  ref[u] \in Contexts /\ Owner(ref[u]) = u /\ Current(ref[u])
BY DEF Inv, Types, Current

(* Context x is in state s now; of the others, none has become current,    *)
(* and one that is not current any more was replaced.                      *)
LEMMA OneContext ==
    ASSUME Inv, NEW x \in Contexts, NEW s, Update(x, s), replaced \subseteq replaced',
           Sane(s, x, Current(x)', x \in replaced'),
           \A y \in Contexts \ {x} : /\ Current(y)' => Current(y)
                                     /\ Current(y) => Current(y)' \/ y \in replaced'
    PROVE  AllSane' /\ ctx' \in [Contexts -> States] /\ ctx'[x] = s
           /\ \A y \in Contexts \ {x} : ctx'[y] = ctx[y]
<1>1. ctx \in [Contexts -> States]
  BY DEF Inv, Types
<1>2. s \in States
  BY DEF Sane, Sound
<1>3. ctx' \in [Contexts -> States] /\ ctx'[x] = s /\ \A y \in Contexts \ {x} : ctx'[y] = ctx[y]
  BY <1>1, <1>2 DEF Update
<1>4. ASSUME NEW y \in Contexts, y # x
      PROVE  Sane(ctx'[y], y, Current(y)', y \in replaced')
  <2>1. Sane(ctx[y], y, Current(y), y \in replaced) /\ ctx'[y] = ctx[y]
    BY <1>3, <1>4, ThisContext
  <2> QED BY <1>4, <2>1 DEF Sane, Sound
<1>5. AllSane'
  BY <1>3, <1>4 DEF AllSane
<1> QED BY <1>3, <1>5

(* What a handler that goes on from state s to another may not do.         *)
GoesOn(x, s) ==
    /\ ctx[x].task # "none" => s.task # "none"
    /\ x.made # "placed" /\ s.task \in Accepted => ctx[x].task \in Accepted \/ Current(x)

(* A handler goes on, and nothing else of its device changes but, if it is *)
(* shown, the phase on screen.                                             *)
LEMMA Going ==
    ASSUME Inv, NEW x \in Contexts, NEW s, Update(x, s), GoesOn(x, s),
           Sane(s, x, Current(x), x \in replaced),
           UNCHANGED <<ref, replaced>>, Wires',
           orphans' \in [Users -> SUBSET Contexts],
           \/ UNCHANGED screen
           \/ (x.made = "placed" \/ s.task \in Accepted) /\ \E phase \in Phases : Show(x, phase)
    PROVE  Inv'
<1>1. \A y \in Contexts : Current(y)' <=> Current(y)
  BY DEF Current
<1>2. AllSane' /\ ctx' \in [Contexts -> States] /\ ctx'[x] = s
      /\ \A y \in Contexts \ {x} : ctx'[y] = ctx[y]
  <2>1. Sane(s, x, Current(x)', x \in replaced')
    BY <1>1 DEF Sane, Sound
  <2> QED BY <1>1, <2>1, OneContext
<1>3. Begun
  BY <1>2 DEF Begun, GoesOn
<1>4. Owner(x) \in Users
  BY ContextFacts
<1>5. /\ screen' \in [Users -> Screens]
      /\ \A u \in Users :
            /\ screen'[u].call = screen[u].call
            /\ \/ screen'[u] = screen[u]
               \/ u = Owner(x) /\ screen[u].call = x.call /\ (x.made = "placed" \/ s.task \in Accepted)
  <2>0. screen \in [Users -> Screens]
    BY DEF Inv, Types
  <2>1. CASE UNCHANGED screen
    BY <2>0, <2>1
  <2>2. CASE (x.made = "placed" \/ s.task \in Accepted) /\ \E phase \in Phases : Show(x, phase)
    <3> PICK phase \in Phases : Show(x, phase)
      BY <2>2
    <3>1. CASE screen[Owner(x)].call = x.call
      <4> DEFINE S == [screen[Owner(x)] EXCEPT !.phase = phase]
      <4>1. S \in Screens /\ S.call = x.call
        BY <1>4, <2>0, <3>1 DEF Screens
      <4>2. screen' = [screen EXCEPT ![Owner(x)] = S]
        BY <1>4, <2>0, <2>2, <3>1 DEF Show
      <4> HIDE DEF S
      <4> QED BY <1>4, <2>0, <2>2, <3>1, <4>1, <4>2
    <3>2. CASE screen[Owner(x)].call # x.call
      BY <2>0, <2>2, <3>2 DEF Show
    <3> QED BY <3>1, <3>2
  <2> QED BY <2>1, <2>2
<1>6. Types'
  <2>1. \A u \in Users : screen'[u].phase # "idle" => screen'[u].call \in Calls
    BY <1>5, ContextFacts DEF Inv, Types
  <2> QED BY <1>2, <1>5, <2>1 DEF Inv, Types
<1>8. ASSUME NEW y \in Contexts PROVE Shows(y)'
  <2> SUFFICES ASSUME screen[Owner(y)].call = y.call
               PROVE  /\ y.made = "placed" => Current(y)
                      /\ y.made # "placed" /\ ctx'[y].task \in Accepted
                         => Current(y) \/ FetchedToo(y.call)'
    BY <1>1, <1>5, ContextFacts DEF Shows
  <2>1. Shows(y)
    BY DEF Inv, ScreenInv
  <2>2. FetchedToo(y.call) => FetchedToo(y.call)'
    BY <1>3, ContextFacts, FetchedStays
  <2>3. ctx'[y].task \in Accepted /\ y.made # "placed" => ctx[y].task \in Accepted \/ Current(y)
    BY <1>2 DEF GoesOn
  <2> QED BY <2>1, <2>2, <2>3 DEF Shows
<1>9. ScreenFollowsTheCall'
  <2> SUFFICES ASSUME NEW u \in Users, screen'[u].phase \notin {"idle", "incoming"},
                      NEW c, c = screen[u].call
               PROVE  (ref[u] # None /\ ref[u].call = c) \/ FetchedToo(c)'
    BY <1>5 DEF ScreenFollowsTheCall
  <2>1. CASE screen'[u] = screen[u]
    <3>1. (ref[u] # None /\ ref[u].call = c) \/ FetchedToo(c)
      BY <2>1 DEF Inv, ScreenInv, ScreenFollowsTheCall
    <3>2. c \in Calls
      BY <2>1 DEF Inv, Types
    <3> QED BY <1>3, <3>1, <3>2, FetchedStays
  <2>2. CASE screen'[u] # screen[u]
    <3>1. u = Owner(x) /\ c = x.call /\ (x.made = "placed" \/ s.task \in Accepted)
      BY <1>5, <2>2
    <3>2. Current(x) \/ FetchedToo(x.call)'
      BY <1>2, <1>8, <1>1, <3>1, <1>5 DEF Shows
    <3> QED BY <3>1, <3>2, ContextFacts DEF Current
  <2> QED BY <2>1, <2>2
<1> QED BY <1>2, <1>6, <1>8, <1>9 DEF Inv, ScreenInv

-----------------------------------------------------------------------------
(* One user *)

Follows(u) ==
    screen[u].phase \notin {"idle", "incoming"} =>
        (ref[u] # None /\ ref[u].call = screen[u].call) \/ FetchedToo(screen[u].call)

LEMMA EverybodyFollows == ScreenFollowsTheCall <=> \A u \in Users : Follows(u)
BY DEF ScreenFollowsTheCall, Follows

(* Where only one user's screen and callRef change, only those are to be   *)
(* looked at.                                                              *)
LEMMA OneScreen ==
    ASSUME Inv, NEW u \in Users, Begun,
           \A v \in Users \ {u} : ref'[v] = ref[v] /\ screen'[v] = screen[v],
           \A y \in Contexts : Owner(y) # u => ctx'[y] = ctx[y],
           Follows(u)', \A y \in Contexts : Owner(y) = u => Shows(y)'
    PROVE  ScreenInv'
<1>1. ASSUME NEW v \in Users, v # u PROVE Follows(v)'
  <2> SUFFICES ASSUME screen[v].phase \notin {"idle", "incoming"}, NEW c, c = screen[v].call
               PROVE  (ref[v] # None /\ ref[v].call = c) \/ FetchedToo(c)'
    BY <1>1 DEF Follows
  <2>1. (ref[v] # None /\ ref[v].call = c) \/ FetchedToo(c)
    BY EverybodyFollows DEF Inv, ScreenInv, Follows
  <2>2. c \in Calls
    BY DEF Inv, Types
  <2> QED BY <2>1, <2>2, FetchedStays
<1>2. ASSUME NEW y \in Contexts, Owner(y) # u PROVE Shows(y)'
  <2>1. Owner(y) \in Users /\ y.call \in Calls
    BY ContextFacts
  <2>2. Shows(y) /\ ctx'[y] = ctx[y] /\ screen'[Owner(y)] = screen[Owner(y)]
        /\ (Current(y)' <=> Current(y))
    BY <1>2, <2>1 DEF Inv, ScreenInv, Current
  <2>3. FetchedToo(y.call) => FetchedToo(y.call)'
    BY <2>1, FetchedStays
  <2> QED BY <2>2, <2>3 DEF Shows
<1>3. \A v \in Users : Follows(v)'
  BY <1>1
<1>4. ScreenFollowsTheCall'
  BY <1>3 DEF ScreenFollowsTheCall, Follows
<1> QED BY <1>2, <1>4 DEF ScreenInv

(* What a call that is stopped leaves behind.                              *)
LEMMA ClosedSane ==
    ASSUME NEW s, NEW x \in Contexts, NEW current, NEW gone, Sound(s, x, current, gone)
    PROVE  Sane(closed(s), x, FALSE, gone) /\ closed(s).task = s.task
<1>1. s \in States
  BY DEF Sane, Sound
<1>2. /\ closed(s) \in States /\ closed(s).task = s.task /\ closed(s).capture = FALSE
      /\ closed(s).described = FALSE /\ closed(s).parked = {}
      /\ closed(s).answering = s.answering /\ closed(s).pc # "open"
      /\ s.pc = "none" => closed(s).pc = "none"
  BY <1>1 DEF closed, States
<1> QED BY <1>2 DEF Sane, Sound

(* A context is stopped.                                                   *)
LEMMA Stopping ==
    ASSUME Inv, NEW x \in Contexts, NEW s, stopContext(x, s),
           Sound(s, x, Current(x), x \in replaced), s.task \in {ctx[x].task, "over"},
           UNCHANGED <<orphans, replaced>>, Wires'
    PROVE  Inv'
<1> DEFINE u == Owner(x)
<1>1. GoesOn(x, s) /\ u \in Users /\ x.call \in Calls
  BY ContextFacts DEF GoesOn, Accepted
<1>3. CASE ~Current(x)
  <2>1. Update(x, s) /\ UNCHANGED <<ref, screen>>
    BY <1>3 DEF stopContext
  <2>3. orphans' \in [Users -> SUBSET Contexts]
    BY DEF Inv, Types
  <2>4. Sane(s, x, Current(x), x \in replaced)
    BY <1>3 DEF Sane
  <2> QED BY <1>1, <2>1, <2>3, <2>4, Going
<1>4. CASE Current(x)
  <2>1. Update(x, closed(s)) /\ ref' = [ref EXCEPT ![u] = None]
        /\ screen' = [screen EXCEPT ![u] = IdleScreen]
    BY <1>4 DEF stopContext
  <2>2. /\ ref \in [Users -> Contexts \cup {None}] /\ screen \in [Users -> Screens]
        /\ IdleScreen \in Screens /\ IdleScreen.phase = "idle" /\ IdleScreen.call = None
    BY DEF Inv, Types, IdleScreen, Screens, Phases
  <2>3. /\ ref' \in [Users -> Contexts \cup {None}] /\ screen' \in [Users -> Screens]
        /\ ref'[u] = None /\ screen'[u].phase = "idle" /\ screen'[u].call = None
        /\ \A v \in Users \ {u} : ref'[v] = ref[v] /\ screen'[v] = screen[v]
    BY <1>1, <2>1, <2>2
  <2>4. \A y \in Contexts : Current(y)' <=> Current(y) /\ Owner(y) # u
    BY <1>1, <2>3, ContextFacts DEF Current
  <2>5. \A y \in Contexts \ {x} : Current(y)' <=> Current(y)
    BY <1>4, <2>4, CurrentIsOne
  <2>6. Sane(closed(s), x, Current(x)', x \in replaced') /\ closed(s).task = s.task
    <3>1. Sane(closed(s), x, FALSE, x \in replaced) /\ closed(s).task = s.task
      BY ClosedSane
    <3> QED BY <2>4, <3>1 DEF Sane, Sound
  <2>7. AllSane' /\ ctx' \in [Contexts -> States] /\ ctx'[x] = closed(s)
        /\ \A y \in Contexts \ {x} : ctx'[y] = ctx[y]
    BY <2>1, <2>5, <2>6, OneContext
  <2>8. Types'
    BY <2>3, <2>7 DEF Inv, Types
  <2>10. Begun
    BY <1>1, <2>6, <2>7 DEF Begun, GoesOn
  <2>11. Follows(u)' /\ \A y \in Contexts : Owner(y) = u => Shows(y)'
    BY <2>3, ContextFacts DEF Follows, Shows
  <2>12. ScreenInv'
    BY <1>1, <2>3, <2>7, <2>10, <2>11, OneScreen
  <2> QED BY <2>7, <2>8, <2>12 DEF Inv
<1> QED BY <1>3, <1>4

(* The context rings, or begins, on a screen of its own.                   *)
LEMMA Presenting ==
    ASSUME Inv, NEW x \in Contexts, NEW s, NEW phase \in Phases, Update(x, s), Present(x, phase),
           s.task # "none", x.made = "placed" => ctx[x].task = "none",
           ref' = [ref EXCEPT ![Owner(x)] = x] \/ (UNCHANGED ref /\ phase = "incoming"),
           x.made = "placed" => ref' = [ref EXCEPT ![Owner(x)] = x],
           s.task \in Accepted => ref' = [ref EXCEPT ![Owner(x)] = x],
           Sane(s, x, Current(x)', x \in replaced'),
           replaced \subseteq replaced',
           ref'[Owner(x)] # ref[Owner(x)] => {ref[Owner(x)]} \ {None} \subseteq replaced',
           Wires', orphans' \in [Users -> SUBSET Contexts]
    PROVE  Inv'
<1> DEFINE u == Owner(x)
<1>1. u \in Users /\ x.call \in Calls
  BY ContextFacts
<1>2. /\ ref' \in [Users -> Contexts \cup {None}] /\ screen' \in [Users -> Screens]
      /\ ref'[u] = x \/ (ref'[u] = ref[u] /\ phase = "incoming")
      /\ screen'[u].phase = phase /\ screen'[u].call = x.call
      /\ \A v \in Users \ {u} : ref'[v] = ref[v] /\ screen'[v] = screen[v]
  <2>1. ref \in [Users -> Contexts \cup {None}] /\ screen \in [Users -> Screens]
    BY DEF Inv, Types
  <2>2. [phase |-> phase, call |-> x.call] \in Screens
    BY <1>1 DEF Screens
  <2>3. screen' = [screen EXCEPT ![u] = [phase |-> phase, call |-> x.call]]
    BY DEF Present
  <2>4. ref' = [ref EXCEPT ![u] = x] \/ (UNCHANGED ref /\ phase = "incoming")
    OBVIOUS
  <2> HIDE DEF u
  <2>5. /\ screen' \in [Users -> Screens]
        /\ screen'[u].phase = phase /\ screen'[u].call = x.call
        /\ \A v \in Users \ {u} : screen'[v] = screen[v]
    BY <1>1, <2>1, <2>2, <2>3
  <2>6. /\ ref' \in [Users -> Contexts \cup {None}]
        /\ ref'[u] = x \/ (ref'[u] = ref[u] /\ phase = "incoming")
        /\ \A v \in Users \ {u} : ref'[v] = ref[v]
    BY <1>1, <2>1, <2>4
  <2> QED BY <2>5, <2>6
<1>3. \A y \in Contexts \ {x} : /\ Current(y)' => Current(y)
                                /\ Current(y) => Current(y)' \/ y \in replaced'
  <2> SUFFICES ASSUME NEW y \in Contexts, y # x
               PROVE  (Current(y)' => Current(y)) /\ (Current(y) => Current(y)' \/ y \in replaced')
    OBVIOUS
  <2>1. Owner(y) \in Users /\ y # None
    BY ContextFacts
  <2> QED BY <1>1, <1>2, <2>1 DEF Current
<1>4. AllSane' /\ ctx' \in [Contexts -> States] /\ ctx'[x] = s
      /\ \A y \in Contexts \ {x} : ctx'[y] = ctx[y]
  BY <1>3, OneContext
<1>5. Types'
  <2>1. \A v \in Users : ref'[v] # None => Owner(ref'[v]) = v
    BY <1>2 DEF Inv, Types
  <2>2. \A v \in Users : screen'[v].phase # "idle" => screen'[v].call \in Calls
    BY <1>1, <1>2 DEF Inv, Types
  <2> QED BY <1>2, <1>4, <2>1, <2>2 DEF Inv, Types
<1>7. Begun
  BY <1>4 DEF Begun
<1>8. Follows(u)'
  BY <1>2, ContextFacts DEF Follows
<1>9. ASSUME NEW y \in Contexts, Owner(y) = u PROVE Shows(y)'
  <2> SUFFICES ASSUME y.call = x.call
               PROVE  /\ y.made = "placed" => Current(y)'
                      /\ y.made # "placed" /\ ctx'[y].task \in Accepted
                         => Current(y)' \/ FetchedToo(y.call)'
    BY <1>2, <1>9 DEF Shows
  <2>1. CASE y = x
    BY <1>1, <1>2, <1>4, <2>1 DEF Current
  <2>2. CASE y # x
    <3>1. y.made # "placed" /\ x.made # "placed"
      BY <1>9, <2>2, ContextFacts, UsersAssumption, CallsAssumption DEF Owner
    <3>2. ASSUME ctx'[y].task \in Accepted PROVE FetchedToo(y.call)'
      <4>1. ctx'[x].task # "none" /\ ctx'[y].task # "none"
        BY <1>4, <3>2 DEF Accepted
      <4>2. \/ x = [call |-> y.call, made |-> "pushed"] /\ y = [call |-> y.call, made |-> "resumed"]
            \/ y = [call |-> y.call, made |-> "pushed"] /\ x = [call |-> y.call, made |-> "resumed"]
        BY <2>2, <3>1, ContextFacts
      <4> QED BY <4>1, <4>2 DEF FetchedToo
    <3> QED BY <3>1, <3>2
  <2> QED BY <2>1, <2>2
<1>10. ScreenInv'
  BY <1>1, <1>2, <1>4, <1>7, <1>8, <1>9, OneScreen
<1> QED BY <1>4, <1>5, <1>10 DEF Inv

(* A handler goes on and nobody sees it.                                   *)
LEMMA Quietly ==
    ASSUME Inv, NEW x \in Contexts, NEW s, Update(x, s), GoesOn(x, s),
           Sane(s, x, Current(x), x \in replaced),
           UNCHANGED <<ref, screen, replaced>>, Wires',
           orphans' \in [Users -> SUBSET Contexts]
    PROVE  Inv'
BY Going

LEMMA Same ==
    ASSUME Inv
    PROVE  /\ UNCHANGED <<inbox, pending>> => Wires'
           /\ UNCHANGED orphans => orphans' \in [Users -> SUBSET Contexts]
BY DEF Inv, Types, Wires

LEMMA WiresNow == ASSUME Inv PROVE Wires
BY DEF Inv, Types

-----------------------------------------------------------------------------
(* Placing and accepting a call *)

LEMMA startCallInv == ASSUME Inv, NEW c \in Calls, startCall(c) PROVE Inv'
<1> DEFINE x == Placed(c)
           s == [Fresh EXCEPT !.task = "media"]
<1>1. x \in Contexts /\ x.made = "placed" /\ x.call = c /\ Owner(x) = Caller[c] /\ Caller[c] \in Users
  BY PlacedFacts, CallsAssumption
<1>2. /\ ref[Caller[c]] = None /\ ctx[x].task = "none" /\ ref' = [ref EXCEPT ![Caller[c]] = x]
      /\ Update(x, s) /\ Present(x, "preparing")
      /\ UNCHANGED <<orphans, inbox, pending, replaced>>
  BY DEF startCall
<1>3. Sane(s, x, Current(x)', x \in replaced') /\ s.task = "media"
  BY DEF Sane, Sound, Fresh, States, Tasks
<1>4. "preparing" \in Phases /\ Wires' /\ orphans' \in [Users -> SUBSET Contexts]
  BY <1>2, Same DEF Phases
<1> HIDE DEF x, s
<1> QED BY <1>1, <1>2, <1>3, <1>4, Presenting

LEMMA acceptCallInv == ASSUME Inv, NEW u \in Users, acceptCall(u) PROVE Inv'
<1> DEFINE x == ref[u]
           s == [ctx[x] EXCEPT !.task = "media"]
<1>1. /\ x # None /\ x.made # "placed" /\ ctx[x].pc = "none" /\ Update(x, s) /\ Show(x, "preparing")
      /\ UNCHANGED <<ref, orphans, inbox, pending, replaced>>
  BY DEF acceptCall
<1>2. x \in Contexts /\ Current(x)
  BY <1>1, ThisUser
<1>3. Sane(ctx[x], x, Current(x), x \in replaced) /\ ctx[x] \in States
  BY <1>2, ThisContext
<1>4. Sane(s, x, Current(x), x \in replaced) /\ s.task = "media"
  <2>1. s \in States /\ s.task = "media" /\ s.pc = "none" /\ s.capture = ctx[x].capture
        /\ s.described = ctx[x].described /\ s.parked = ctx[x].parked
        /\ s.answering = ctx[x].answering
    BY <1>1, <1>3 DEF States, Tasks
  <2> QED BY <1>1, <1>3, <2>1 DEF Sane, Sound
<1>5. /\ "preparing" \in Phases /\ Wires' /\ orphans' \in [Users -> SUBSET Contexts]
  BY <1>1, Same DEF Phases
<1>6. GoesOn(x, s) /\ s.task \in Accepted
  BY <1>1, <1>2, <1>4 DEF GoesOn, Accepted
<1> HIDE DEF x, s
<1> QED BY <1>1, <1>2, <1>4, <1>5, <1>6, Going

LEMMA FinishInv ==
    ASSUME Inv, NEW x \in Contexts, NEW s, finish(x, s), s.task \in {ctx[x].task, "over"},
           Sound(s, x, Current(x), x \in replaced), UNCHANGED <<orphans, replaced>>
    PROVE  Inv'
<1>1. Wires'
  BY WiresNow, SendOK DEF finish
<1> QED BY <1>1, Stopping DEF finish

LEMMA endCallInv == ASSUME Inv, NEW u \in Users, endCall(u) PROVE Inv'
BY ThisUser, ThisContext, FinishInv DEF endCall, Sane

LEMMA TimeoutInv ==
    ASSUME Inv, NEW x \in Contexts, Timeout(x) \/ ConnectionFailed(x)
    PROVE  Inv'
BY ThisContext, FinishInv DEF Timeout, ConnectionFailed, Sane

LEMMA MediaReadyInv == ASSUME Inv, NEW x \in Contexts, MediaReady(x) PROVE Inv'
<1> DEFINE s == IF Current(x) THEN [ctx[x] EXCEPT !.task = "describe", !.capture = TRUE, !.pc = "open"]
                ELSE [ctx[x] EXCEPT !.task = "over"]
<1>1. /\ ctx[x].task = "media" /\ Update(x, s)
      /\ UNCHANGED <<ref, screen, orphans, inbox, pending, replaced>>
  BY DEF MediaReady
<1>2. Sane(ctx[x], x, Current(x), x \in replaced) /\ ctx[x] \in States
  BY ThisContext
<1>3. Sane(s, x, Current(x), x \in replaced) /\ GoesOn(x, s)
  <2>1. CASE Current(x)
    <3>1. s = [ctx[x] EXCEPT !.task = "describe", !.capture = TRUE, !.pc = "open"]
      BY <2>1
    <3> HIDE DEF s
    <3>2. s \in States /\ s.task = "describe" /\ s.pc = "open"
          /\ s.described = ctx[x].described /\ s.parked = ctx[x].parked
          /\ s.answering = ctx[x].answering
      BY <1>2, <3>1 DEF States, Tasks
    <3> QED BY <1>1, <1>2, <2>1, <3>2 DEF Sane, Sound, GoesOn, Accepted
  <2>2. CASE ~Current(x)
    <3>1. s = [ctx[x] EXCEPT !.task = "over"]
      BY <2>2
    <3> HIDE DEF s
    <3>2. s \in States /\ s.task = "over" /\ s.pc = ctx[x].pc
          /\ s.described = ctx[x].described /\ s.parked = ctx[x].parked
          /\ s.answering = ctx[x].answering /\ s.capture = ctx[x].capture
      BY <1>2, <3>1 DEF States, Tasks
    <3> QED BY <1>1, <1>2, <2>2, <3>2 DEF Sane, Sound, GoesOn, Accepted
  <2> QED BY <2>1, <2>2
<1> HIDE DEF s
<1> QED BY <1>1, <1>3, Same, Quietly

LEMMA DescribeInv == ASSUME Inv, NEW x \in Contexts, Describe(x) PROVE Inv'
<1> DEFINE s == IF x.made = "placed" THEN [ctx[x] EXCEPT !.task = "card"]
                ELSE [ctx[x] EXCEPT !.task = "flush", !.described = TRUE]
<1>1. /\ ctx[x].task = "describe" /\ ctx[x].pc = "open" /\ Update(x, s)
      /\ UNCHANGED <<ref, screen, orphans, inbox, pending, replaced>>
  BY DEF Describe
<1>2. Sane(ctx[x], x, Current(x), x \in replaced) /\ ctx[x] \in States
  BY ThisContext
<1>3. Sane(s, x, Current(x), x \in replaced) /\ GoesOn(x, s)
  <2>1. CASE x.made = "placed"
    <3>1. s = [ctx[x] EXCEPT !.task = "card"]
      BY <2>1
    <3> HIDE DEF s
    <3>2. s \in States /\ s.task = "card" /\ s.pc = "open"
          /\ s.described = ctx[x].described /\ s.parked = ctx[x].parked
          /\ s.answering = ctx[x].answering /\ s.capture = ctx[x].capture
      BY <1>1, <1>2, <3>1 DEF States, Tasks
    <3> QED BY <1>1, <1>2, <2>1, <3>2 DEF Sane, Sound, GoesOn, Accepted
  <2>2. CASE x.made # "placed"
    <3>1. s = [ctx[x] EXCEPT !.task = "flush", !.described = TRUE]
      BY <2>2
    <3> HIDE DEF s
    <3>2. s \in States /\ s.task = "flush" /\ s.pc = "open"
          /\ s.described = TRUE /\ s.parked = ctx[x].parked
          /\ s.answering = ctx[x].answering /\ s.capture = ctx[x].capture
      BY <1>1, <1>2, <3>1 DEF States, Tasks
    <3> QED BY <1>1, <1>2, <2>2, <3>2 DEF Sane, Sound, GoesOn, Accepted
  <2> QED BY <2>1, <2>2
<1> HIDE DEF s
<1> QED BY <1>1, <1>3, Same, Quietly

LEMMA FlushOfferInv == ASSUME Inv, NEW x \in Contexts, FlushOffer(x) PROVE Inv'
<1> DEFINE s == [flushCandidates(ctx[x]) EXCEPT !.task = "seal"]
<1>1. /\ ctx[x].task = "flush" /\ ctx[x].pc = "open" /\ Update(x, s)
      /\ UNCHANGED <<ref, screen, orphans, inbox, pending, replaced>>
  BY DEF FlushOffer
<1>2. Sane(ctx[x], x, Current(x), x \in replaced) /\ ctx[x] \in States
  BY ThisContext
<1>3. s \in States /\ s.task = "seal" /\ s.pc = "open"
      /\ s.described = ctx[x].described /\ s.parked = {}
      /\ s.answering = ctx[x].answering /\ s.capture = ctx[x].capture
  BY <1>1, <1>2 DEF States, Tasks, flushCandidates
<1> HIDE DEF s
<1>4. Sane(s, x, Current(x), x \in replaced) /\ GoesOn(x, s)
  BY <1>1, <1>2, <1>3 DEF Sane, Sound, GoesOn, Accepted
<1> QED BY <1>1, <1>4, Same, Quietly

LEMMA SendCardInv == ASSUME Inv, NEW x \in Contexts, SendCard(x) PROVE Inv'
<1> DEFINE s == [ctx[x] EXCEPT !.task = "seal"]
<1>1. /\ ctx[x].task = "card" /\ Update(x, s)
      /\ UNCHANGED <<ref, screen, orphans, inbox, pending, replaced>>
  BY DEF SendCard
<1>2. Sane(ctx[x], x, Current(x), x \in replaced) /\ ctx[x] \in States
  BY ThisContext
<1>3. s \in States /\ s.task = "seal" /\ s.pc = ctx[x].pc
      /\ s.described = ctx[x].described /\ s.parked = ctx[x].parked
      /\ s.answering = ctx[x].answering /\ s.capture = ctx[x].capture
  BY <1>2 DEF States, Tasks
<1> HIDE DEF s
<1>4. Sane(s, x, Current(x), x \in replaced) /\ GoesOn(x, s)
  BY <1>1, <1>2, <1>3 DEF Sane, Sound, GoesOn
<1> QED BY <1>1, <1>4, Same, Quietly

LEMMA SendDescriptionInv == ASSUME Inv, NEW x \in Contexts, SendDescription(x) PROVE Inv'
<1> DEFINE s == [ctx[x] EXCEPT !.task = "done", !.timer = Current(x)]
           kind == IF x.made = "placed" THEN "offer" ELSE "answer"
           phase == IF x.made = "placed" THEN "calling" ELSE "connecting"
<1>1. /\ ctx[x].task = "seal" /\ Update(x, s) /\ Send(x, kind) /\ Show(x, phase)
      /\ UNCHANGED <<ref, orphans, replaced>>
  BY DEF SendDescription
<1>2. Sane(ctx[x], x, Current(x), x \in replaced) /\ ctx[x] \in States
  BY ThisContext
<1>3. s \in States /\ s.task = "done" /\ s.pc = ctx[x].pc
      /\ s.described = ctx[x].described /\ s.parked = ctx[x].parked
      /\ s.answering = ctx[x].answering /\ s.capture = ctx[x].capture
  <2>1. Current(x) \in BOOLEAN
    BY DEF Current
  <2> QED BY <1>2, <2>1 DEF States, Tasks
<1>4. Wires'
  BY <1>1, WiresNow, SendOK
<1>5. phase \in Phases
  BY DEF Phases
<1> HIDE DEF s, kind, phase
<1>6. Sane(s, x, Current(x), x \in replaced) /\ GoesOn(x, s) /\ s.task \in Accepted
  BY <1>1, <1>2, <1>3 DEF Sane, Sound, GoesOn, Accepted
<1> QED BY <1>1, <1>4, <1>5, <1>6, Same, Going

-----------------------------------------------------------------------------
(* What throws *)

LEMMA ThrowsFacts ==
    ASSUME Inv, NEW x \in Contexts, NEW s, s = [ctx[x] EXCEPT !.task = "over"],
           ctx[x].task \in {"media", "describe", "flush", "card", "seal", "open", "recording"}
    PROVE  Sound(s, x, Current(x), x \in replaced) /\ s.task = "over"
<1>1. Sane(ctx[x], x, Current(x), x \in replaced) /\ ctx[x] \in States
  BY ThisContext
<1>2. s \in States /\ s.task = "over" /\ s.pc = ctx[x].pc
      /\ s.described = ctx[x].described /\ s.parked = ctx[x].parked
      /\ s.answering = ctx[x].answering /\ s.capture = ctx[x].capture
  BY <1>1 DEF States, Tasks
<1> QED BY <1>1, <1>2 DEF Sane, Sound

LEMMA startCallFailsInv == ASSUME Inv, NEW x \in Contexts, startCallFails(x) PROVE Inv'
<1>1. /\ x.made = "placed" /\ UNCHANGED <<orphans, inbox, pending, replaced>>
      /\ ctx[x].task \in {"media", "describe", "flush", "card", "seal", "open"}
  BY DEF startCallFails, Throws
<1>2. CASE ctx[x].task = "seal"
  <2> DEFINE s == [ctx[x] EXCEPT !.task = "recording"]
  <2>1. Update(x, s) /\ UNCHANGED <<ref, screen>>
    BY <1>2 DEF startCallFails
  <2>2. Sane(ctx[x], x, Current(x), x \in replaced) /\ ctx[x] \in States
    BY ThisContext
  <2>3. s \in States /\ s.task = "recording" /\ s.pc = ctx[x].pc
        /\ s.described = ctx[x].described /\ s.parked = ctx[x].parked
        /\ s.answering = ctx[x].answering /\ s.capture = ctx[x].capture
    BY <2>2 DEF States, Tasks
  <2> HIDE DEF s
  <2>4. Sane(s, x, Current(x), x \in replaced) /\ GoesOn(x, s)
    BY <1>1, <1>2, <2>2, <2>3 DEF Sane, Sound, GoesOn
  <2> QED BY <1>1, <2>1, <2>4, Same, Quietly
<1>3. CASE ctx[x].task # "seal"
  <2> DEFINE s == [ctx[x] EXCEPT !.task = "over"]
  <2>1. stopContext(x, s)
    BY <1>3 DEF startCallFails
  <2>2. Sound(s, x, Current(x), x \in replaced) /\ s.task = "over"
    BY <1>1, ThrowsFacts
  <2> HIDE DEF s
  <2> QED BY <1>1, <2>1, <2>2, Same, Stopping
<1> QED BY <1>2, <1>3

LEMMA FailureRecordedInv ==
    ASSUME Inv, NEW x \in Contexts, FailureRecorded(x) PROVE Inv'
<1> DEFINE s == [ctx[x] EXCEPT !.task = "over"]
<1>1. /\ ctx[x].task = "recording" /\ stopContext(x, s)
      /\ UNCHANGED <<orphans, inbox, pending, replaced>>
  BY DEF FailureRecorded
<1>2. Sound(s, x, Current(x), x \in replaced) /\ s.task = "over"
  BY <1>1, ThrowsFacts
<1> HIDE DEF s
<1> QED BY <1>1, <1>2, Same, Stopping

LEMMA acceptCallFailsInv == ASSUME Inv, NEW x \in Contexts, acceptCallFails(x) PROVE Inv'
<1> DEFINE s == [ctx[x] EXCEPT !.task = "over"]
<1>1. /\ ctx[x].task \in {"media", "describe", "flush", "card", "seal", "open"}
      /\ UNCHANGED <<orphans, replaced>>
      /\ \/ finish(x, s)
         \/ /\ stopContext(x, s)
            /\ \/ relay_call_end(Owner(x), [kind |-> "end", call |-> x.call, from |-> x])
               \/ UNCHANGED <<pending, inbox>>
  BY DEF acceptCallFails
<1>2. Sound(s, x, Current(x), x \in replaced) /\ s.task = "over"
  BY <1>1, ThrowsFacts
<1> HIDE DEF s
<1>3. CASE finish(x, s)
  BY <1>1, <1>2, <1>3, FinishInv
<1>4. CASE /\ stopContext(x, s)
           /\ \/ relay_call_end(Owner(x), [kind |-> "end", call |-> x.call, from |-> x])
              \/ UNCHANGED <<pending, inbox>>
  <2>1. Wires'
    BY <1>4, WiresNow, EndSentOK
  <2> QED BY <1>1, <1>2, <1>4, <2>1, Stopping
<1> QED BY <1>1, <1>3, <1>4

-----------------------------------------------------------------------------
(* The connection *)

LEMMA GatherInv == ASSUME Inv, NEW x \in Contexts, Gather(x) PROVE Inv'
<1> DEFINE s == [ctx[x] EXCEPT !.candidate = "gathered"]
<1>1. Update(x, s) /\ UNCHANGED <<ref, screen, orphans, inbox, pending, replaced>>
  BY DEF Gather
<1>2. Sane(ctx[x], x, Current(x), x \in replaced) /\ ctx[x] \in States
  BY ThisContext
<1>3. s \in States /\ s.task = ctx[x].task /\ s.pc = ctx[x].pc
      /\ s.described = ctx[x].described /\ s.parked = ctx[x].parked
      /\ s.answering = ctx[x].answering /\ s.capture = ctx[x].capture
  BY <1>2 DEF States
<1> HIDE DEF s
<1>4. Sane(s, x, Current(x), x \in replaced) /\ GoesOn(x, s)
  BY <1>2, <1>3 DEF Sane, Sound, GoesOn
<1> QED BY <1>1, <1>4, Same, Quietly

LEMMA SendCandidateInv == ASSUME Inv, NEW x \in Contexts, SendCandidate(x) PROVE Inv'
<1> DEFINE s == [ctx[x] EXCEPT !.candidate = "sent"]
<1>1. Update(x, s) /\ Send(x, "candidate") /\ UNCHANGED <<ref, screen, orphans, replaced>>
  BY DEF SendCandidate
<1>2. Sane(ctx[x], x, Current(x), x \in replaced) /\ ctx[x] \in States
  BY ThisContext
<1>3. s \in States /\ s.task = ctx[x].task /\ s.pc = ctx[x].pc
      /\ s.described = ctx[x].described /\ s.parked = ctx[x].parked
      /\ s.answering = ctx[x].answering /\ s.capture = ctx[x].capture
  BY <1>2 DEF States
<1>4. Wires'
  BY <1>1, WiresNow, SendOK
<1> HIDE DEF s
<1>5. Sane(s, x, Current(x), x \in replaced) /\ GoesOn(x, s)
  BY <1>2, <1>3 DEF Sane, Sound, GoesOn
<1> QED BY <1>1, <1>4, <1>5, Same, Quietly

LEMMA ConnectedInv == ASSUME Inv, NEW x \in Contexts, Connected(x) PROVE Inv'
<1> DEFINE s == [ctx[x] EXCEPT !.active = TRUE, !.timer = FALSE]
<1>1. /\ Current(x) /\ ctx[x].pc = "open" /\ Update(x, s) /\ Show(x, "active")
      /\ UNCHANGED <<ref, orphans, inbox, pending, replaced>>
  BY DEF Connected, Connectable
<1>2. Sane(ctx[x], x, Current(x), x \in replaced) /\ ctx[x] \in States
  BY ThisContext
<1>3. s \in States /\ s.task = ctx[x].task /\ s.pc = ctx[x].pc
      /\ s.described = ctx[x].described /\ s.parked = ctx[x].parked
      /\ s.answering = ctx[x].answering /\ s.capture = ctx[x].capture
  BY <1>2 DEF States
<1> HIDE DEF s
<1>4. Sane(s, x, Current(x), x \in replaced) /\ GoesOn(x, s)
  BY <1>2, <1>3 DEF Sane, Sound, GoesOn
<1>5. x.made = "placed" \/ s.task \in Accepted
  BY <1>1, <1>2, <1>3 DEF Sane, Sound, Accepted, States, Tasks
<1>6. "active" \in Phases
  BY DEF Phases
<1> QED BY <1>1, <1>4, <1>5, <1>6, Same, Going

-----------------------------------------------------------------------------
(* Events *)

(* No context and no screen is touched.                                    *)
LEMMA NothingSeen ==
    ASSUME Inv, UNCHANGED <<ref, ctx, screen, replaced>>, Wires',
           orphans' \in [Users -> SUBSET Contexts]
    PROVE  Inv'
<1>1. \A x \in Contexts : Current(x)' <=> Current(x)
  BY DEF Current
<1>2. Types'
  BY DEF Inv, Types
<1>3. AllSane'
  BY <1>1 DEF Inv, AllSane, Sane, Sound
<1>5. ScreenInv'
  BY <1>1 DEF Inv, ScreenInv, ScreenFollowsTheCall, FetchedToo, Shows
<1> QED BY <1>2, <1>3, <1>5 DEF Inv

LEMMA SendEndAndTakeOK ==
    ASSUME Wires, NEW u \in Users, inbox[u] # <<>>, NEW x \in Contexts, SendEndAndTake(u, x)
    PROVE  Wires'
<1>1. [kind |-> "end", call |-> x.call, from |-> x] \in Events /\ x.call \in Calls
      /\ Peer[u] \in Users /\ Peer[u] # u
  BY EventOK, ContextFacts, UsersAssumption
<1>2. CASE Rest(u) /\ UNCHANGED pending
  BY <1>2, RestOK DEF Wires
<1>3. CASE /\ pending' = [pending EXCEPT ![x.call] = {}]
           /\ inbox' = [inbox EXCEPT
                 ![u] = Tail(@),
                 ![Peer[u]] = IF link[Peer[u]]
                              THEN Append(@, [kind |-> "end", call |-> x.call, from |-> x]) ELSE @]
  <2> DEFINE e == [kind |-> "end", call |-> x.call, from |-> x]
             v == Peer[u]
             w == IF link[v] THEN Append(inbox[v], e) ELSE inbox[v]
  <2>1. inbox \in [Users -> Seq(Events)] /\ pending \in [Calls -> SUBSET Contexts]
    BY DEF Wires
  <2>2. Tail(inbox[u]) \in Seq(Events) /\ w \in Seq(Events)
    BY <1>1, <2>1
  <2>3. inbox' = [[inbox EXCEPT ![u] = Tail(inbox[u])] EXCEPT ![v] = w]
    BY <1>1, <1>3, <2>1
  <2> HIDE DEF w, v
  <2>4. inbox' \in [Users -> Seq(Events)]
    BY <2>1, <2>2, <2>3
  <2>5. pending' \in [Calls -> SUBSET Contexts]
    BY <1>1, <1>3, <2>1
  <2> QED BY <2>4, <2>5 DEF Wires
<1> QED BY <1>2, <1>3 DEF SendEndAndTake

(* The handler of an offer begins.                                         *)
LEMMA FreshSane ==
    ASSUME Inv, NEW x \in Contexts, x.made # "placed",
           NEW s \in States, s.task = "open", s.pc = "none", ~s.capture, ~s.described,
           s.answering = "none"
    PROVE  Sane(s, x, Current(x), x \in replaced) /\ GoesOn(x, s)
BY DEF Sane, Sound, GoesOn, Accepted

LEMMA ReceiveOfferInv == ASSUME Inv, NEW u \in Users, ReceiveOffer(u) PROVE Inv'
<1> DEFINE x == [call |-> Head(inbox[u]).call, made |-> "pushed"]
           s == [Fresh EXCEPT !.task = "open"]
<1>1. inbox[u] # <<>> /\ UNCHANGED <<ref, screen, orphans, replaced>>
      /\ \/ SendEndAndTake(u, x) /\ UNCHANGED ctx
         \/ Rest(u) /\ UNCHANGED <<ctx, pending>>
         \/ ref[u] = None /\ Update(x, s) /\ Rest(u) /\ UNCHANGED pending
  BY DEF ReceiveOffer, Event
<1>2. x \in Contexts /\ x.made = "pushed"
  BY <1>1, WiresNow, HeadOK, MakeContext
<1>3. s \in States /\ s.task = "open" /\ s.pc = "none" /\ ~s.capture /\ ~s.described
      /\ s.answering = "none"
  BY DEF Fresh, States, Tasks
<1> HIDE DEF x, s
<1>4. CASE SendEndAndTake(u, x) /\ UNCHANGED ctx
  BY <1>1, <1>2, <1>4, WiresNow, SendEndAndTakeOK, Same, NothingSeen
<1>5. ASSUME Rest(u), UNCHANGED pending PROVE Wires'
  BY <1>1, <1>5, WiresNow, RestOK DEF Wires
<1>6. CASE Rest(u) /\ UNCHANGED <<ctx, pending>>
  BY <1>1, <1>5, <1>6, Same, NothingSeen
<1>7. CASE ref[u] = None /\ Update(x, s) /\ Rest(u) /\ UNCHANGED pending
  BY <1>1, <1>2, <1>3, <1>5, <1>7, Same, FreshSane, Quietly
<1> QED BY <1>1, <1>4, <1>6, <1>7

(* A call takes callRef before it rings: nothing changes on the screen.    *)
LEMMA Taking ==
    ASSUME Inv, NEW x \in Contexts, NEW s, Update(x, s), x.made # "placed",
           ref[Owner(x)] = None, ref' = [ref EXCEPT ![Owner(x)] = x],
           s.task # "none", s.task \notin Accepted, Sane(s, x, Current(x)', x \in replaced'),
           UNCHANGED <<screen, replaced>>, Wires', orphans' \in [Users -> SUBSET Contexts]
    PROVE  Inv'
<1> DEFINE u == Owner(x)
<1>1. u \in Users /\ x.call \in Calls
  BY ContextFacts
<1>2. /\ ref' \in [Users -> Contexts \cup {None}] /\ ref'[u] = x
      /\ \A v \in Users \ {u} : ref'[v] = ref[v]
  <2>1. ref \in [Users -> Contexts \cup {None}]
    BY DEF Inv, Types
  <2> QED BY <1>1, <2>1
<1>3. \A y \in Contexts : Current(y)' <=> Current(y) \/ y = x
  <2> SUFFICES ASSUME NEW y \in Contexts PROVE Current(y)' <=> Current(y) \/ y = x
    OBVIOUS
  <2>1. Owner(y) \in Users /\ y # None
    BY ContextFacts
  <2> QED BY <1>1, <1>2, <2>1 DEF Current
<1>4. AllSane' /\ ctx' \in [Contexts -> States] /\ ctx'[x] = s
      /\ \A y \in Contexts \ {x} : ctx'[y] = ctx[y]
  BY <1>3, OneContext
<1>5. Types'
  <2>1. \A v \in Users : ref'[v] # None => Owner(ref'[v]) = v
    BY <1>2 DEF Inv, Types
  <2> QED BY <1>2, <1>4, <2>1 DEF Inv, Types
<1>7. Begun
  BY <1>4 DEF Begun
<1>8. Follows(u)'
  <2> SUFFICES ASSUME screen[u].phase \notin {"idle", "incoming"}, NEW c, c = screen[u].call
               PROVE  FetchedToo(c)'
    BY <1>1 DEF Follows
  <2>1. c \in Calls /\ FetchedToo(c)
    BY <1>1 DEF Inv, Types, ScreenInv, ScreenFollowsTheCall
  <2> QED BY <1>7, <2>1, FetchedStays
<1>9. ASSUME NEW y \in Contexts, Owner(y) = u PROVE Shows(y)'
  <2> SUFFICES ASSUME screen[u].call = y.call
               PROVE  /\ y.made = "placed" => Current(y)'
                      /\ y.made # "placed" /\ ctx'[y].task \in Accepted
                         => Current(y)' \/ FetchedToo(y.call)'
    BY <1>9 DEF Shows
  <2>1. CASE y = x
    BY <1>3, <2>1
  <2>2. CASE y # x
    <3>1. Shows(y) /\ ctx'[y] = ctx[y] /\ y.call \in Calls
      BY <1>4, <2>2, ContextFacts DEF Inv, ScreenInv
    <3>2. FetchedToo(y.call) => FetchedToo(y.call)'
      BY <1>7, <3>1, FetchedStays
    <3> QED BY <1>3, <1>9, <3>1, <3>2 DEF Shows
  <2> QED BY <2>1, <2>2
<1>10. ScreenInv'
  BY <1>1, <1>2, <1>4, <1>7, <1>8, <1>9, OneScreen
<1> QED BY <1>4, <1>5, <1>10 DEF Inv

(* A handler that rings has no connection yet.                             *)
LEMMA RingingSane ==
    ASSUME Inv, NEW x \in Contexts, x.made # "placed",
           NEW s \in States, s.task \in {"idle", "admit"}, s.pc = "none", ~s.capture,
           s.answering = "none", NEW current, NEW gone
    PROVE  Sane(s, x, current, gone) /\ s.task # "none" /\ s.task \notin Accepted
BY DEF Sane, Sound, Accepted

LEMMA OpenFacts ==
    ASSUME Inv, NEW x \in Contexts, ctx[x].task \in {"open", "admit"}
    PROVE  /\ ctx[x] \in States /\ ctx[x].pc = "none" /\ ~ctx[x].capture
           /\ x.made # "placed" => ctx[x].answering = "none"
<1>1. Sane(ctx[x], x, Current(x), x \in replaced) /\ ctx[x] \in States
  BY ThisContext
<1> QED BY <1>1 DEF Sane, Sound, States

LEMMA GivenUp ==
    ASSUME Inv, NEW x \in Contexts, ctx[x].task \in {"open", "admit"}, NEW s,
           \E task \in {"over", "admit"} : s = [ctx[x] EXCEPT !.task = task],
           s.task = "admit" => x.made # "placed"
    PROVE  Sane(s, x, Current(x), x \in replaced) /\ GoesOn(x, s)
<1> PICK task \in {"over", "admit"} : s = [ctx[x] EXCEPT !.task = task]
  OBVIOUS
<1>1. Sane(ctx[x], x, Current(x), x \in replaced) /\ ctx[x] \in States
  BY ThisContext
<1>2. s \in States /\ s.task = task /\ s.pc = ctx[x].pc
      /\ s.described = ctx[x].described /\ s.parked = ctx[x].parked
      /\ s.answering = ctx[x].answering /\ s.capture = ctx[x].capture
  BY <1>1 DEF States, Tasks
<1> QED BY <1>1, <1>2 DEF Sane, Sound, GoesOn, Accepted

LEMMA OpenOfferInv == ASSUME Inv, NEW x \in Contexts, OpenOffer(x) PROVE Inv'
<1> DEFINE u == Owner(x)
           early == {y \in orphans[u] : y.call = x.call}
           t == [ctx[x] EXCEPT !.task = "over"]
           s == [ctx[x] EXCEPT !.task = IF early = {} THEN "idle" ELSE "admit", !.early = early]
<1>1. /\ ctx[x].task = "open" /\ x.made = "pushed" /\ UNCHANGED <<replaced>>
      /\ IF ref[u] # None
         THEN Update(x, t) /\ UNCHANGED <<ref, screen, orphans, inbox, pending>>
         ELSE /\ ref' = [ref EXCEPT ![u] = x]
              /\ orphans' = [orphans EXCEPT ![u] = @ \ early]
              /\ Update(x, s)
              /\ IF early = {} THEN Ring(x) ELSE UNCHANGED <<screen, inbox, pending>>
  BY DEF OpenOffer
<1>2. CASE ref[u] # None
  <2>1. Sane(t, x, Current(x), x \in replaced) /\ GoesOn(x, t)
    <3>1. ctx[x] \in States
      BY ThisContext
    <3>2. t.task = "over"
      BY <3>1 DEF States
    <3> QED BY <1>1, <3>2, GivenUp
  <2> HIDE DEF t
  <2> QED BY <1>1, <1>2, <2>1, Same, Quietly
<1>3. CASE ref[u] = None
  <2>1. u \in Users /\ orphans \in [Users -> SUBSET Contexts]
    BY ContextFacts DEF Inv, Types
  <2>2. early \subseteq Contexts /\ orphans' \in [Users -> SUBSET Contexts]
    BY <1>1, <1>3, <2>1
  <2> HIDE DEF early
  <2>3. /\ s \in States /\ s.task \in {"idle", "admit"} /\ s.pc = "none" /\ ~s.capture
        /\ s.answering = "none"
    <3>1. PICK task \in {"idle", "admit"} : s = [ctx[x] EXCEPT !.task = task, !.early = early]
      OBVIOUS
    <3>2. /\ ctx[x] \in States /\ ctx[x].pc = "none" /\ ~ctx[x].capture
          /\ ctx[x].answering = "none"
      BY <1>1, OpenFacts
    <3> HIDE DEF s
    <3> QED BY <2>2, <3>1, <3>2 DEF States, Tasks
  <2> HIDE DEF s
  <2>4. Sane(s, x, Current(x)', x \in replaced') /\ s.task # "none" /\ s.task \notin Accepted
    BY <1>1, <2>3, RingingSane
  <2>5. CASE early = {}
    <3>1. Wires' /\ Present(x, "incoming")
      BY <1>1, <1>3, <2>5, WiresNow, SendOK DEF Ring
    <3>2. "incoming" \in Phases
      BY DEF Phases
    <3> QED BY <1>1, <1>3, <2>2, <2>4, <2>5, <3>1, <3>2, Presenting
  <2>6. CASE early # {}
    BY <1>1, <1>3, <2>2, <2>4, <2>6, Same, Taking
  <2> QED BY <2>5, <2>6
<1> QED BY <1>2, <1>3

LEMMA OpenOfferFailsInv == ASSUME Inv, NEW x \in Contexts, OpenOfferFails(x) PROVE Inv'
<1> DEFINE s == [ctx[x] EXCEPT !.task = "over"]
<1>1. /\ ctx[x].task = "open" /\ Update(x, s)
      /\ UNCHANGED <<ref, screen, orphans, replaced>>
      /\ \/ relay_call_end(Owner(x), [kind |-> "end", call |-> x.call, from |-> x])
         \/ UNCHANGED <<pending, inbox>>
  BY DEF OpenOfferFails
<1>2. Sane(s, x, Current(x), x \in replaced) /\ GoesOn(x, s)
  <2>1. ctx[x] \in States
    BY ThisContext
  <2>2. s.task = "over"
    BY <2>1 DEF States
  <2> QED BY <1>1, <2>2, GivenUp
<1>3. Wires'
  BY <1>1, WiresNow, EndSentOK
<1> HIDE DEF s
<1> QED BY <1>1, <1>2, <1>3, Same, Quietly

LEMMA AdmitOfferInv == ASSUME Inv, NEW x \in Contexts, AdmitOffer(x) PROVE Inv'
<1> DEFINE s == [ctx[x] EXCEPT !.task = "idle", !.parked = @ \cup ctx[x].early, !.early = {}]
<1>1. /\ ctx[x].task = "admit" /\ x.made = "pushed" /\ Update(x, s) /\ Ring(x)
      /\ UNCHANGED <<ref, orphans, replaced>>
  BY DEF AdmitOffer
<1>2. /\ s \in States /\ s.task = "idle" /\ s.pc = "none" /\ ~s.capture
      /\ s.answering = "none"
  BY <1>1, OpenFacts DEF States, Tasks
<1> HIDE DEF s
<1>3. Sane(s, x, Current(x)', x \in replaced') /\ s.task # "none" /\ s.task \notin Accepted
  BY <1>1, <1>2, RingingSane
<1>4. Wires' /\ Present(x, "incoming") /\ "incoming" \in Phases
  BY <1>1, WiresNow, SendOK DEF Ring, Phases
<1>5. ref' = ref /\ orphans' \in [Users -> SUBSET Contexts]
      /\ replaced \subseteq replaced'
  BY <1>1, Same
<1> QED BY <1>1, <1>3, <1>4, <1>5, Presenting

LEMMA ResumeInv == ASSUME Inv, NEW u \in Users, Resume(u) PROVE Inv'
<1>1. PICK c \in Calls :
        Update([call |-> c, made |-> "resumed"],
               [Fresh EXCEPT !.task = "open", !.early = pending[c] \ {Placed(c)}])
  BY DEF Resume
<1> DEFINE x == [call |-> c, made |-> "resumed"]
           s == [Fresh EXCEPT !.task = "open", !.early = pending[c] \ {Placed(c)}]
<1>2. UNCHANGED <<ref, screen, orphans, inbox, pending, replaced>>
  BY DEF Resume
<1>3. x \in Contexts /\ x.made = "resumed"
  BY MakeContext
<1>4. s \in States /\ s.task = "open" /\ s.pc = "none" /\ ~s.capture /\ ~s.described
      /\ s.answering = "none"
  <2>1. pending[c] \subseteq Contexts
    BY WiresNow DEF Wires
  <2> QED BY <2>1 DEF Fresh, States, Tasks
<1>5. Update(x, s)
  BY <1>1
<1> HIDE DEF x, s
<1> QED BY <1>2, <1>3, <1>4, <1>5, Same, FreshSane, Quietly

LEMMA ResumeOpenInv == ASSUME Inv, NEW x \in Contexts, ResumeOpen(x) PROVE Inv'
<1>1. PICK task \in {"over", "admit"} : Update(x, [ctx[x] EXCEPT !.task = task])
  BY DEF ResumeOpen
<1> DEFINE s == [ctx[x] EXCEPT !.task = task]
<1>2. /\ ctx[x].task = "open" /\ x.made = "resumed" /\ Update(x, s)
      /\ UNCHANGED <<ref, screen, orphans, inbox, pending, replaced>>
  BY <1>1 DEF ResumeOpen
<1>3. Sane(s, x, Current(x), x \in replaced) /\ GoesOn(x, s)
  BY <1>2, GivenUp
<1> HIDE DEF s
<1> QED BY <1>2, <1>3, Same, Quietly

LEMMA ResumeAdmitInv == ASSUME Inv, NEW x \in Contexts, ResumeAdmit(x) PROVE Inv'
<1> DEFINE u == Owner(x)
           s == [ctx[x] EXCEPT !.task = "idle", !.parked = ctx[x].early, !.early = {}]
<1>1. /\ ctx[x].task = "admit" /\ x.made = "resumed" /\ Update(x, s) /\ Ring(x)
      /\ replaced' = replaced \cup ({ref[u]} \ {None}) /\ ref' = [ref EXCEPT ![u] = x]
      /\ UNCHANGED <<orphans>>
  BY DEF ResumeAdmit
<1>2. /\ s \in States /\ s.task = "idle" /\ s.pc = "none" /\ ~s.capture
      /\ s.answering = "none"
  BY <1>1, OpenFacts DEF States, Tasks
<1> HIDE DEF s
<1>3. Sane(s, x, Current(x)', x \in replaced') /\ s.task # "none" /\ s.task \notin Accepted
  BY <1>1, <1>2, RingingSane
<1>4. Wires' /\ Present(x, "incoming") /\ "incoming" \in Phases
  BY <1>1, WiresNow, SendOK DEF Ring, Phases
<1>5. orphans' \in [Users -> SUBSET Contexts] /\ replaced \subseteq replaced'
      /\ {ref[u]} \ {None} \subseteq replaced'
  BY <1>1, Same
<1> QED BY <1>1, <1>3, <1>4, <1>5, Presenting

LEMMA ReceiveCandidateInv == ASSUME Inv, NEW u \in Users, ReceiveCandidate(u) PROVE Inv'
<1> DEFINE y == Head(inbox[u]).from
           x == ref[u]
<1>1. inbox[u] # <<>> /\ Rest(u) /\ UNCHANGED <<ref, screen, pending, replaced>>
  BY DEF ReceiveCandidate, Event
<1>2. y \in Contexts /\ Wires'
  BY <1>1, WiresNow, HeadOK, RestOK DEF Wires
<1>3. orphans' \in [Users -> SUBSET Contexts]
  <2>1. orphans \in [Users -> SUBSET Contexts]
    BY DEF Inv, Types
  <2> HIDE DEF y
  <2> QED BY <1>2, <2>1 DEF ReceiveCandidate, y
<1>4. CASE UNCHANGED ctx
  BY <1>1, <1>2, <1>3, <1>4, NothingSeen
<1>5. ASSUME x # None, ctx[x].pc # "none",
             Update(x, IF ctx[x].described THEN [ctx[x] EXCEPT !.applied = @ \cup {y}]
                       ELSE [ctx[x] EXCEPT !.parked = @ \cup {y}])
      PROVE  Inv'
  <2> DEFINE s == IF ctx[x].described THEN [ctx[x] EXCEPT !.applied = @ \cup {y}]
                  ELSE [ctx[x] EXCEPT !.parked = @ \cup {y}]
  <2>1. x \in Contexts /\ Current(x)
    BY <1>5, ThisUser
  <2>2. Sane(ctx[x], x, Current(x), x \in replaced) /\ ctx[x] \in States
    BY <2>1, ThisContext
  <2>3. s \in States /\ s.task = ctx[x].task /\ s.pc = ctx[x].pc
        /\ s.described = ctx[x].described /\ s.answering = ctx[x].answering
        /\ s.capture = ctx[x].capture /\ (s.described => s.parked = ctx[x].parked)
    <3> HIDE DEF x, y
    <3>1. CASE ctx[x].described
      BY <1>2, <2>2, <3>1 DEF States
    <3>2. CASE ~ctx[x].described
      BY <1>2, <2>2, <3>2 DEF States
    <3> QED BY <3>1, <3>2
  <2>4. Update(x, s)
    BY <1>5
  <2> HIDE DEF s, x
  <2>5. Sane(s, x, Current(x), x \in replaced) /\ GoesOn(x, s)
    BY <1>5, <2>1, <2>2, <2>3 DEF Sane, Sound, GoesOn, States
  <2> QED BY <1>1, <1>2, <1>3, <2>1, <2>4, <2>5, Quietly
<1> QED BY <1>4, <1>5 DEF ReceiveCandidate

LEMMA ReceiveRingingInv == ASSUME Inv, NEW u \in Users, ReceiveRinging(u) PROVE Inv'
<1> DEFINE x == ref[u]
           s == ctx[x]
<1>1. /\ inbox[u] # <<>> /\ x # None /\ x.made = "placed" /\ Rest(u) /\ Show(x, "ringing")
      /\ UNCHANGED <<ref, ctx, orphans, pending, replaced>>
  BY DEF ReceiveRinging, Event, Addressed
<1>2. x \in Contexts /\ Current(x)
  BY <1>1, ThisUser
<1>3. Sane(s, x, Current(x), x \in replaced) /\ Update(x, s) /\ GoesOn(x, s)
  BY <1>1, <1>2, ThisContext DEF Inv, Types, Update, GoesOn
<1>4. Wires' /\ orphans' \in [Users -> SUBSET Contexts] /\ "ringing" \in Phases
  BY <1>1, WiresNow, RestOK, Same DEF Wires, Phases
<1> HIDE DEF x, s
<1> QED BY <1>1, <1>2, <1>3, <1>4, Going

LEMMA ReceiveAnswerInv == ASSUME Inv, NEW u \in Users, ReceiveAnswer(u) PROVE Inv'
<1> DEFINE x == ref[u]
           s == [ctx[x] EXCEPT !.answering = "open"]
<1>1. /\ inbox[u] # <<>> /\ x # None /\ x.made = "placed" /\ Rest(u) /\ Update(x, s)
      /\ UNCHANGED <<ref, screen, orphans, pending, replaced>>
  BY DEF ReceiveAnswer, Event, Addressed
<1>2. x \in Contexts
  BY <1>1, ThisUser
<1>3. Sane(ctx[x], x, Current(x), x \in replaced) /\ ctx[x] \in States
  BY <1>2, ThisContext
<1>4. s \in States /\ s.task = ctx[x].task /\ s.pc = ctx[x].pc
      /\ s.described = ctx[x].described /\ s.parked = ctx[x].parked
      /\ s.answering = "open" /\ s.capture = ctx[x].capture
  BY <1>3 DEF States
<1>5. Wires'
  BY <1>1, WiresNow, RestOK DEF Wires
<1> HIDE DEF x, s
<1>6. Sane(s, x, Current(x), x \in replaced) /\ GoesOn(x, s)
  BY <1>1, <1>3, <1>4 DEF Sane, Sound, GoesOn
<1> QED BY <1>1, <1>2, <1>5, <1>6, Same, Quietly

LEMMA SetAnswerInv == ASSUME Inv, NEW x \in Contexts, SetAnswer(x) PROVE Inv'
<1>1. ctx[x].answering = "open" /\ UNCHANGED <<orphans, replaced>>
  BY DEF SetAnswer
<1>2. Sane(ctx[x], x, Current(x), x \in replaced) /\ ctx[x] \in States
  BY ThisContext
<1>3. CASE ctx[x].pc = "closed"
  <2> DEFINE s == [ctx[x] EXCEPT !.answering = "done"]
  <2>1. s \in States /\ s.task = ctx[x].task /\ s.pc = ctx[x].pc
        /\ s.described = ctx[x].described /\ s.parked = ctx[x].parked
        /\ s.answering = "done" /\ s.capture = ctx[x].capture
    BY <1>2 DEF States
  <2>2. finish(x, s)
    BY <1>3 DEF SetAnswer
  <2> HIDE DEF s
  <2>3. Sound(s, x, Current(x), x \in replaced)
    BY <1>1, <1>2, <1>3, <2>1 DEF Sane, Sound
  <2> QED BY <1>1, <2>1, <2>2, <2>3, FinishInv
<1>4. CASE ctx[x].pc # "closed"
  <2> DEFINE s == [ctx[x] EXCEPT !.answering = "flush", !.described = TRUE]
  <2>1. s \in States /\ s.task = ctx[x].task /\ s.pc = ctx[x].pc
        /\ s.described = TRUE /\ s.parked = ctx[x].parked
        /\ s.answering = "flush" /\ s.capture = ctx[x].capture
    BY <1>2 DEF States
  <2>2. Update(x, s) /\ UNCHANGED <<ref, screen, inbox, pending>>
    BY <1>4 DEF SetAnswer
  <2> HIDE DEF s
  <2>3. Sane(s, x, Current(x), x \in replaced) /\ GoesOn(x, s)
    BY <1>1, <1>2, <1>4, <2>1 DEF Sane, Sound, GoesOn
  <2> QED BY <1>1, <2>2, <2>3, Same, Quietly
<1> QED BY <1>3, <1>4

LEMMA FlushAnswerInv == ASSUME Inv, NEW x \in Contexts, FlushAnswer(x) PROVE Inv'
<1> DEFINE s == [flushCandidates(ctx[x]) EXCEPT !.answering = "done"]
<1>1. /\ ctx[x].answering = "flush" /\ Update(x, s) /\ Show(x, "connecting")
      /\ UNCHANGED <<ref, orphans, inbox, pending, replaced>>
  BY DEF FlushAnswer
<1>2. Sane(ctx[x], x, Current(x), x \in replaced) /\ ctx[x] \in States
  BY ThisContext
<1>3. s \in States /\ s.task = ctx[x].task /\ s.pc = ctx[x].pc
      /\ s.described = ctx[x].described /\ s.parked = {}
      /\ s.answering = "done" /\ s.capture = ctx[x].capture
  BY <1>2 DEF States, flushCandidates
<1> HIDE DEF s
<1>4. x.made = "placed" /\ Sane(s, x, Current(x), x \in replaced) /\ GoesOn(x, s)
  BY <1>1, <1>2, <1>3 DEF Sane, Sound, GoesOn
<1>5. "connecting" \in Phases
  BY DEF Phases
<1> QED BY <1>1, <1>4, <1>5, Same, Going

LEMMA ReceiveEndInv == ASSUME Inv, NEW u \in Users, ReceiveEnd(u) PROVE Inv'
<1> DEFINE x == ref[u]
           s == ctx[x]
<1>1. /\ inbox[u] # <<>> /\ x # None /\ Rest(u) /\ stopContext(x, s)
      /\ UNCHANGED <<orphans, pending, replaced>>
  BY DEF ReceiveEnd, Event, Addressed
<1>2. x \in Contexts
  BY <1>1, ThisUser
<1>3. Sound(s, x, Current(x), x \in replaced) /\ s.task = ctx[x].task
  BY <1>2, ThisContext DEF Sane
<1>4. Wires'
  BY <1>1, WiresNow, RestOK DEF Wires
<1> HIDE DEF x, s
<1> QED BY <1>1, <1>2, <1>3, <1>4, Stopping

LEMMA ReceiveOtherInv == ASSUME Inv, NEW u \in Users, ReceiveOther(u) PROVE Inv'
<1>1. /\ inbox[u] # <<>> /\ Rest(u) /\ UNCHANGED <<ref, ctx, screen, orphans, pending, replaced>>
  BY DEF ReceiveOther, Event, Ignore, device
<1>2. Wires'
  BY <1>1, WiresNow, RestOK DEF Wires
<1> QED BY <1>1, <1>2, Same, NothingSeen

-----------------------------------------------------------------------------
(* What fails *)

LEMMA LinkInv ==
    ASSUME Inv, NEW u \in Users, Drop(u) \/ Reconnect(u)
    PROVE  Inv'
<1>1. UNCHANGED <<ref, ctx, screen, orphans, pending, replaced>>
      /\ (inbox' = inbox \/ inbox' = [inbox EXCEPT ![u] = <<>>])
  BY DEF Drop, Reconnect, device
<1>2. Wires'
  <2>1. inbox \in [Users -> Seq(Events)] /\ pending \in [Calls -> SUBSET Contexts]
    BY WiresNow DEF Wires
  <2>2. CASE inbox' = inbox
    BY <1>1, <2>1, <2>2 DEF Wires
  <2>3. CASE inbox' = [inbox EXCEPT ![u] = <<>>]
    BY <1>1, <2>1, <2>3 DEF Wires
  <2> QED BY <1>1, <2>2, <2>3
<1> QED BY <1>1, <1>2, Same, NothingSeen

LEMMA ExpireInv == ASSUME Inv, NEW c \in Calls, Expire(c) PROVE Inv'
<1>1. UNCHANGED <<ref, ctx, screen, orphans, inbox, replaced>>
      /\ pending' = [pending EXCEPT ![c] = {}]
  BY DEF Expire, device
<1>2. Wires'
  BY <1>1, WiresNow DEF Wires
<1> QED BY <1>1, <1>2, Same, NothingSeen

LEMMA ReloadInv == ASSUME Inv, NEW u \in Users, Reload(u) PROVE Inv'
<1> DEFINE gone(x) == [Fresh EXCEPT !.task = "over", !.pc = closed(ctx[x]).pc]
<1>1. /\ ref' = [ref EXCEPT ![u] = None] /\ screen' = [screen EXCEPT ![u] = IdleScreen]
      /\ orphans' = [orphans EXCEPT ![u] = {}] /\ inbox' = [inbox EXCEPT ![u] = <<>>]
      /\ UNCHANGED <<pending, replaced>>
      /\ ctx' = [x \in Contexts |-> IF Owner(x) # u \/ ctx[x].task = "none" THEN ctx[x] ELSE gone(x)]
  BY DEF Reload
<1>2. /\ ref \in [Users -> Contexts \cup {None}] /\ screen \in [Users -> Screens]
      /\ ctx \in [Contexts -> States]
      /\ IdleScreen \in Screens /\ IdleScreen.phase = "idle" /\ IdleScreen.call = None
  BY DEF Inv, Types, IdleScreen, Screens, Phases
<1>3. ASSUME NEW x \in Contexts
      PROVE  /\ gone(x) \in States /\ gone(x).task = "over" /\ gone(x).pc \in {"none", "closed"}
             /\ ~gone(x).capture /\ ~gone(x).described /\ gone(x).parked = {}
             /\ gone(x).answering = "none"
  <2>1. ctx[x] \in States
    BY <1>2
  <2>2. closed(ctx[x]).pc \in {"none", "closed"}
    BY <2>1 DEF States, closed
  <2> QED BY <2>2 DEF Fresh, States, Tasks
<1> HIDE DEF gone
<1>4. /\ ctx' \in [Contexts -> States]
      /\ \A x \in Contexts : ctx'[x] = IF Owner(x) # u \/ ctx[x].task = "none" THEN ctx[x] ELSE gone(x)
  BY <1>1, <1>2, <1>3
<1>5. /\ ref' \in [Users -> Contexts \cup {None}] /\ screen' \in [Users -> Screens]
      /\ ref'[u] = None /\ screen'[u].phase = "idle" /\ screen'[u].call = None
      /\ \A v \in Users \ {u} : ref'[v] = ref[v] /\ screen'[v] = screen[v]
  BY <1>1, <1>2
<1>6. \A y \in Contexts : Current(y)' <=> Current(y) /\ Owner(y) # u
  BY <1>5, ContextFacts DEF Current
<1>7. AllSane'
  <2> SUFFICES ASSUME NEW y \in Contexts PROVE Sane(ctx'[y], y, Current(y)', y \in replaced')
    BY DEF AllSane
  <2>1. Sane(ctx[y], y, Current(y), y \in replaced) /\ ctx[y] \in States
    BY ThisContext
  <2>2. CASE Owner(y) # u
    BY <1>1, <1>4, <1>6, <2>1, <2>2 DEF Sane, Sound
  <2>3. CASE Owner(y) = u /\ ctx[y].task = "none"
    BY <1>1, <1>4, <1>6, <2>1, <2>3 DEF Sane, Sound
  <2>4. CASE Owner(y) = u /\ ctx[y].task # "none"
    BY <1>3, <1>4, <1>6, <2>4 DEF Sane, Sound
  <2> QED BY <2>2, <2>3, <2>4
<1>8. Types'
  <2>1. Wires'
    BY <1>1, WiresNow DEF Wires
  <2>2. orphans' \in [Users -> SUBSET Contexts]
    BY <1>1 DEF Inv, Types
  <2>3. \A v \in Users : ref'[v] # None => Owner(ref'[v]) = v
    BY <1>5 DEF Inv, Types
  <2>4. \A v \in Users : screen'[v].phase # "idle" => screen'[v].call \in Calls
    BY <1>5 DEF Inv, Types
  <2> QED BY <1>1, <1>4, <1>5, <2>1, <2>2, <2>3, <2>4 DEF Inv, Types
<1>10. Begun
  BY <1>3, <1>4 DEF Begun
<1>11. Follows(u)' /\ \A y \in Contexts : Owner(y) = u => Shows(y)'
  BY <1>5, ContextFacts DEF Follows, Shows
<1>12. ScreenInv'
  BY <1>4, <1>5, <1>10, <1>11, OneScreen
<1> QED BY <1>1, <1>7, <1>8, <1>12 DEF Inv

-----------------------------------------------------------------------------
(* The specification *)

LEMMA InitInv == Init => Inv
<1> SUFFICES ASSUME Init PROVE Inv
  OBVIOUS
<1>1. Fresh \in States /\ Fresh.task = "none" /\ Fresh.pc = "none" /\ ~Fresh.capture
      /\ ~Fresh.described /\ Fresh.answering = "none"
  BY DEF Fresh, States, Tasks
<1>2. IdleScreen \in Screens /\ IdleScreen.phase = "idle" /\ IdleScreen.call = None
  BY DEF IdleScreen, Screens, Phases
<1> HIDE DEF Fresh, IdleScreen
<1>3. /\ \A u \in Users : ref[u] = None /\ screen[u] = IdleScreen
      /\ \A x \in Contexts : ctx[x] = Fresh
  BY DEF Init
<1>4. \A x \in Contexts : ~Current(x)
  BY <1>3, ContextFacts DEF Current
<1>5. Types
  BY <1>1, <1>2, <1>3 DEF Init, Types, Wires
<1>6. AllSane
  BY <1>1, <1>3, <1>4 DEF AllSane, Sane, Sound
<1>8. ScreenInv
  BY <1>2, <1>3, ContextFacts DEF ScreenInv, ScreenFollowsTheCall, Shows
<1> QED BY <1>5, <1>6, <1>8 DEF Inv

LEMMA NextInv == Inv /\ [Next]_vars => Inv'
<1> SUFFICES ASSUME Inv, [Next]_vars PROVE Inv'
  OBVIOUS
<1>1. CASE UNCHANGED vars
  <2>1. UNCHANGED <<ref, ctx, screen, orphans, inbox, pending, replaced>>
    BY <1>1 DEF vars, device
  <2> QED BY <1>1, <2>1, Same, NothingSeen
<1>2. ASSUME NEW c \in Calls, startCall(c) \/ Expire(c) PROVE Inv'
  BY <1>2, startCallInv, ExpireInv
<1>3. ASSUME NEW u \in Users, ReceiveNext(u) PROVE Inv'
  BY <1>3, ReceiveOfferInv, ReceiveCandidateInv, ReceiveRingingInv, ReceiveAnswerInv,
     ReceiveEndInv, ReceiveOtherInv DEF ReceiveNext
<1>4. ASSUME NEW u \in Users,
             acceptCall(u) \/ endCall(u) \/ Resume(u) \/ Drop(u) \/ Reconnect(u) \/ Reload(u)
      PROVE  Inv'
  BY <1>4, acceptCallInv, endCallInv, ResumeInv, LinkInv, ReloadInv
<1>5. ASSUME NEW x \in Contexts, TaskNext(x) PROVE Inv'
  BY <1>5, MediaReadyInv, DescribeInv, FlushOfferInv, SendCardInv, SendDescriptionInv,
     OpenOfferInv, AdmitOfferInv, ResumeOpenInv, ResumeAdmitInv, SetAnswerInv, FlushAnswerInv,
     SendCandidateInv, FailureRecordedInv DEF TaskNext
<1>6. ASSUME NEW x \in Contexts, FailNext(x) PROVE Inv'
  BY <1>6, startCallFailsInv, acceptCallFailsInv, OpenOfferFailsInv DEF FailNext
<1>7. ASSUME NEW x \in Contexts, Gather(x) \/ Connected(x) \/ ConnectionFailed(x) \/ Timeout(x)
      PROVE  Inv'
  BY <1>7, GatherInv, ConnectedInv, TimeoutInv
<1> QED BY <1>1, <1>2, <1>3, <1>4, <1>5, <1>6, <1>7 DEF Next

LEMMA Invariant == Spec => []Inv
<1>1. Inv /\ [Next]_vars => Inv'
  BY NextInv
<1> QED BY <1>1, InitInv, PTL DEF Spec

(* Every variable stays in its type. *)
THEOREM TypeCorrect == Spec => []TypeOK
<1>1. Inv => TypeOK
  <2> SUFFICES ASSUME Inv PROVE TypeOK
    OBVIOUS
  <2>1. ASSUME NEW x \in Contexts
        PROVE  /\ ctx[x].task \in Tasks /\ ctx[x].pc \in {"none", "open", "closed"}
               /\ ctx[x].capture => ctx[x].pc = "open"
               /\ ctx[x].parked \cup ctx[x].applied \subseteq Contexts
               /\ ctx[x].answering \in {"none", "open", "flush", "done"}
    <3>1. Sane(ctx[x], x, Current(x), x \in replaced) /\ ctx[x] \in States
      BY ThisContext
    <3>2. ctx[x].capture => ctx[x].pc = "open"
      BY <3>1 DEF Sane, Sound
    <3> QED BY <3>1, <3>2 DEF States
  <2>2. \A u \in Users : screen[u].phase \in Phases /\ orphans[u] \subseteq Contexts
    BY DEF Inv, Types, Screens
  <2>3. \A c \in Calls : pending[c] \subseteq Contexts
    BY WiresNow DEF Wires
  <2> QED BY <2>1, <2>2, <2>3 DEF Inv, Types, TypeOK
<1> QED BY <1>1, Invariant, PTL

(* A camera or microphone runs only for the call that can be ended, or for *)
(* one that a fetched call has taken the place of.                         *)
THEOREM NoCaptureIsLeft == Spec => []NoInvisibleCapture
<1>1. Inv => NoInvisibleCapture
  BY DEF Inv, AllSane, Sane, Sound, NoInvisibleCapture
<1> QED BY <1>1, Invariant, PTL

(* No candidate stays parked at an end whose handler has flushed.          *)
THEOREM CandidatesAreFlushed == Spec => []ParkedCandidatesAreFlushed
<1>1. Inv => ParkedCandidatesAreFlushed
  BY DEF Inv, AllSane, Sane, Sound, ParkedCandidatesAreFlushed
<1> QED BY <1>1, Invariant, PTL

(* A call that is over does not come back on screen.                       *)
THEOREM ScreenShowsTheCall == Spec => []ScreenFollowsTheCall
<1>1. Inv => ScreenFollowsTheCall
  BY DEF Inv, ScreenInv
<1> QED BY <1>1, Invariant, PTL

===============================================================================
