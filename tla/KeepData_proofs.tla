--------------------------- MODULE KeepData_proofs ---------------------------
(***************************************************************************)
(* Proofs about KeepData.  Structured is an inductive invariant: while no  *)
(* threads have crossed, what a signal sends with are contexts that are in *)
(* its place, each with what was there before it.  Hence signals are as    *)
(* they were when no thread is in a context.                               *)
(*                                                                         *)
(* On top of it Progressing is inductive: what is still to be done about   *)
(* the changes of a thread is held by its contexts.  Hence nothing of it   *)
(* is left when the thread is in none, and nothing was done twice.         *)
(***************************************************************************)
EXTENDS KeepData, SequenceTheorems, FiniteSetTheorems, NaturalsInduction, TLAPS

-----------------------------------------------------------------------------
(* What contexts there are *)

Id == Threads \X Nat \X Kinds
Steps == {"save", "install", "connect", "in", "restore", "unwind"}
\* What is still to be put in place, or back, signal by signal
Lists == {<<>>} \cup {Holds[k] : k \in Kinds} \cup {Tail(Holds[k]) : k \in Kinds}
         \cup {Reverse(Holds[k]) : k \in Kinds}
         \cup {Tail(Reverse(Holds[k])) : k \in Kinds}
Held(c) == ToSet(Holds[Kind(c)])
FrameType ==
  [id : Id, step : Steps, signals : Lists, orig : [Signals -> Seq(Id)],
   due : SUBSET Events, heard : SUBSET Events]
Installing(f) == f.step \in {"save", "install"}
Ending(f) == f.step \in {"restore", "unwind"}
Connected(f) == f.step = "in" \/ Ending(f)
\* The signals that the context f is still to be put in place of,
Ahead(f) == IF Installing(f) THEN ToSet(f.signals) ELSE {}
\* and those in whose place it is
Put(f) == IF Ending(f) THEN ToSet(f.signals) ELSE Held(f.id) \ ToSet(f.signals)
GoodFrame(f) ==
  /\ f \in FrameType
  /\ ToSet(f.signals) \subseteq Held(f.id)
  /\ Installing(f) <=> ~Ending(f) /\ f.signals # <<>>
  /\ \A s \in Signals : f.id \notin ToSet(f.orig[s])
\* A signal is sent by contexts that hold it back, by none of them twice.
GoodSend(s, q) ==
  /\ q \in Seq(Id) /\ IsInjective(q)
  /\ \A c \in ToSet(q) : s \in Held(c)

\* The contexts at places <<t, k>> of the stacks S.
Places(S) == {p \in Threads \X Nat : p[2] \in 1 .. Len(S[p[1]])}
On(S, p) == S[p[1]][p[2]]
Innermost(S, p) == p[2] = Len(S[p[1]])

\* The contexts on the stacks S, for signals that send with D.
Shape(S, D) ==
  /\ D \in [Signals -> Seq(Id)] /\ S \in [Threads -> Seq(FrameType)]
  /\ \A s \in Signals : GoodSend(s, D[s])
  /\ \A p \in Places(S) :
       /\ GoodFrame(On(S, p)) /\ On(S, p).id[1] = p[1]
       /\ ~Innermost(S, p) => On(S, p).step = "in"
       /\ \A s \in Signals : GoodSend(s, On(S, p).orig[s])
       /\ \A s \in Ahead(On(S, p)) : On(S, p).id \notin ToSet(D[s])
  /\ \A p, q \in Places(S) :
       /\ On(S, p).id = On(S, q).id => p = q
       /\ \A s \in Ahead(On(S, p)) : On(S, p).id \notin ToSet(On(S, q).orig[s])
       /\ p[1] = q[1] /\ p[2] < q[2] =>
            \A s \in Signals : On(S, q).id \notin ToSet(On(S, p).orig[s])

\* While none have crossed, what a signal sends with are contexts that are in
\* its place, each with what was there before it,
IsTail(q, d, i) ==
  Len(q) = Len(d) - i /\ \A j \in 1 .. Len(q) : q[j] = d[i + j]
Nested(S, D) ==
  \A s \in Signals :
    /\ \A i \in 1 .. Len(D[s]) : \E p \in Places(S) :
         /\ On(S, p).id = D[s][i] /\ s \in Put(On(S, p))
         /\ IsTail(On(S, p).orig[s], D[s], i)
    /\ \A p \in Places(S) : s \in Put(On(S, p)) => On(S, p).id \in ToSet(D[s])
\* and what is connected are the functions of contexts, each to its own signal.
Handler(c) == [event |-> Hears[Kind(c)], at |-> c, for |-> c]
Listening(S, H) ==
  /\ \A h \in H : \E p \in Places(S) : Connected(On(S, p)) /\ h = Handler(On(S, p).id)
  /\ \A p \in Places(S) : Connected(On(S, p)) => Handler(On(S, p).id) \in H

\* The bulk operations of _update_stores are within those of a callback.
Inside(S) == \A p \in Places(S) : Kind(On(S, p).id) = "tp_stores" => p[2] > 1

Structured ==
  /\ Shape(stack, sends) /\ Inside(stack)
  /\ undone \in [Threads -> SUBSET Events]
  /\ \A h \in handlers : h.event \in Events
  /\ faults \subseteq {"crossed", "collected"}
  /\ Apart => Nested(stack, sends) /\ Listening(stack, handlers)

-----------------------------------------------------------------------------
(* What is still to be done: todo about the changes of a thread, whose stack *)
(* is q, which in its outermost context has done so much, with the faults F. *)

Tip(q) == q[Len(q)]
\* Nothing is left of what was changed before.
Past(todo, F) == todo = {} \/ ("collected" \in F /\ todo = {SumTP, Renew})
\* How often each thing was done
Times(n, m, k) ==
  [e \in Events |-> IF e = CountStore THEN n ELSE IF e = SumTP THEN m ELSE k]

\* Changes are made: a context has heard of one if there is one to count.
Hearing(f) == Kind(f.id) \in {"store", "tp"} /\ f.due = {} /\ f.heard \subseteq {CountStore}
Telling(f) ==
  /\ Kind(f.id) = "store_callback" /\ f.heard = {}
  /\ f.due \subseteq IF Ending(f) THEN {} ELSE {CountStore}
Waiting(q) == \E k \in 1 .. Len(q) : q[k].due \cup q[k].heard # {}
Changing(q, todo, done, F) ==
  /\ \A k \in 1 .. Len(q) : k < Len(q) => Hearing(q[k])
  /\ Hearing(Tip(q)) \/ (Telling(Tip(q)) /\ Len(q) > 1)
  /\ \A k \in 1 .. Len(q) : k > 1 => Kind(q[k].id) # "tp"
  /\ done = Times(0, 0, 0)
  /\ IF Waiting(q) THEN todo = Events ELSE Past(todo, F)
\* Afterwards Stores are counted, their sums taken and pages renewed, in the
\* outermost context f.
Following(f, todo, done, F) ==
  /\ Kind(f.id) \in {"store_callback", "tp_callback"}
  /\ \/ /\ f.due = {CountStore} /\ f.heard = {} /\ ~Ending(f)
        /\ todo = Events /\ done = Times(0, 0, 0)
     \/ /\ f.due = {} /\ f.heard = {} /\ Past(todo, F) /\ done = Times(0, 0, 0)
     \/ /\ f.due = {} /\ f.heard = {Renew}
        /\ todo = {Renew} /\ done = Times(1, 1, 0)
     \/ /\ Kind(f.id) = "tp_callback" /\ f.heard = {Renew}
        /\ IF f.due = {} THEN "collected" \in F ELSE f.due = {SumTP} /\ ~Ending(f)
        /\ todo = {SumTP, Renew} /\ done = Times(1, 0, 0)
\* Stores are counted in the context g of a translation project, in that of the
\* bulk operations f.
Counting(g, f, todo, done) ==
  /\ Kind(g.id) = "tp_callback" /\ g.due = {} /\ Kind(f.id) = "tp_stores"
  /\ \/ /\ f.due = {CountStore} /\ f.heard = {} /\ g.heard = {} /\ ~Ending(f)
        /\ todo = Events /\ done = Times(0, 0, 0)
     \/ /\ f.due = {} /\ f.heard = {SumTP} /\ g.heard = {Renew}
        /\ todo = {SumTP, Renew} /\ done = Times(1, 0, 0)
Once(done) == \A e \in Events : done[e] <= 1
Going(q, todo, done, F) ==
  \/ q = <<>> /\ Past(todo, F) /\ Once(done)
  \/ q # <<>> /\ Tip(q).step = "unwind" /\ Once(done)
  \/ /\ q # <<>> /\ Tip(q).step # "unwind"
     /\ \/ Changing(q, todo, done, F)
        \/ Len(q) = 1 /\ Following(q[1], todo, done, F)
        \/ Len(q) = 2 /\ Counting(q[1], q[2], todo, done)
Progressing ==
  /\ times \in [Threads -> [Events -> Nat]]
  /\ Apart => \A t \in Threads : Going(stack[t], undone[t], times[t], faults)

-----------------------------------------------------------------------------
(* Signals and lists of them *)

LEMMA SignalsAre == Signals = {"update_data", "update_revisions"}
BY DEF Signals, Events, CountStore, SumTP, Renew

\* What a context of each kind holds back, in the two orders.
LEMMA HeldAre ==
  \A k \in Kinds :
    \/ /\ Holds[k] = <<"update_data", "update_revisions">>
       /\ k \in {"store", "tp", "tp_stores"}
    \/ Holds[k] = <<"update_revisions">> /\ k \in {"store_callback", "tp_callback"}
BY DEF Kinds, Holds

LEMMA TailsAre ==
  /\ \A a, b : Tail(<<a, b>>) = <<b>> /\ Head(<<a, b>>) = a
  /\ \A a : Tail(<<a>>) = <<>> /\ Head(<<a>>) = a
  /\ \A a, b : Reverse(<<a, b>>) = <<b, a>>
  /\ \A a : Reverse(<<a>>) = <<a>>
BY DEF Reverse

LEMMA OrdersAre ==
  ASSUME NEW k \in Kinds
  PROVE  /\ Holds[k] \in {<<"update_data", "update_revisions">>,
                          <<"update_revisions">>}
         /\ Tail(Holds[k]) \in {<<"update_revisions">>, <<>>}
         /\ Reverse(Holds[k]) \in {<<"update_revisions", "update_data">>,
                                  <<"update_revisions">>}
         /\ Tail(Reverse(Holds[k])) \in {<<"update_data">>, <<>>}
<1>1. CASE Holds[k] = <<"update_data", "update_revisions">>
  <2>. PICK q : q = Holds[k]
    OBVIOUS
  <2>1. q = <<"update_data", "update_revisions">>
    BY <1>1
  <2>2. Tail(q) = <<"update_revisions">>
    BY <2>1
  <2>3. Reverse(q) = <<"update_revisions", "update_data">>
    BY <2>1, TailsAre
  <2>4. Tail(Reverse(q)) = <<"update_data">>
    BY <2>3
  <2>. QED BY <2>1, <2>2, <2>3, <2>4
<1>2. CASE Holds[k] = <<"update_revisions">>
  BY <1>2, TailsAre
<1>. QED BY <1>1, <1>2, HeldAre

LEMMA ListsAre ==
  Lists \subseteq {<<>>, <<"update_data">>, <<"update_revisions">>,
                   <<"update_data", "update_revisions">>,
                   <<"update_revisions", "update_data">>}
BY OrdersAre DEF Lists

LEMMA ToSetsAre ==
  /\ ToSet(<<>>) = {} /\ ToSet(<<"update_data">>) = {"update_data"}
  /\ ToSet(<<"update_revisions">>) = {"update_revisions"}
  /\ ToSet(<<"update_data", "update_revisions">>) = Signals
  /\ ToSet(<<"update_revisions", "update_data">>) = Signals
BY SignalsAre DEF ToSet

\* To go on with a list takes its first signal out.
LEMMA ListFacts ==
  ASSUME NEW q \in Lists
  PROVE  /\ ToSet(q) \subseteq Signals /\ (q = <<>> <=> ToSet(q) = {})
         /\ q # <<>> => /\ Head(q) \in ToSet(q) /\ Tail(q) \in Lists
                        /\ ToSet(Tail(q)) = ToSet(q) \ {Head(q)}
<1>1. <<>> \in Lists /\ (q # <<>> => Tail(q) \in Lists)
  <2>1. CASE q = <<>>
    BY <2>1
  <2>2. CASE \E k \in Kinds : q = Holds[k] \/ q = Reverse(Holds[k])
    BY <2>2 DEF Lists
  <2>3. CASE \E k \in Kinds : q = Tail(Holds[k]) \/ q = Tail(Reverse(Holds[k]))
    <3>1. q \in {<<"update_data">>, <<"update_revisions">>, <<>>}
      BY <2>3, OrdersAre
    <3>. QED BY <3>1, TailsAre DEF Lists
  <2>. QED BY <2>1, <2>2, <2>3 DEF Lists
<1>2. CASE q = <<>>
  BY <1>1, <1>2, ToSetsAre
<1>3. CASE q = <<"update_data">>
  BY <1>1, <1>3, ToSetsAre, SignalsAre
<1>4. CASE q = <<"update_revisions">>
  BY <1>1, <1>4, ToSetsAre, SignalsAre
<1>5. CASE q = <<"update_data", "update_revisions">>
  BY <1>1, <1>5, ToSetsAre, SignalsAre
<1>6. CASE q = <<"update_revisions", "update_data">>
  BY <1>1, <1>6, ToSetsAre, SignalsAre
<1>. QED BY <1>2, <1>3, <1>4, <1>5, <1>6, ListsAre

LEMMA HeldFacts ==
  ASSUME NEW c \in Id
  PROVE  /\ Holds[Kind(c)] \in Lists /\ Reverse(Holds[Kind(c)]) \in Lists
         /\ Holds[Kind(c)] # <<>> /\ Held(c) \subseteq Signals
         /\ ToSet(Reverse(Holds[Kind(c)])) = Held(c)
         /\ "update_revisions" \in Held(c)
         /\ "update_data" \in Held(c) <=> Kind(c) \in {"store", "tp", "tp_stores"}
<1>1. Kind(c) \in Kinds
  BY DEF Kind, Id
<1>2. Holds[Kind(c)] \in Lists /\ Reverse(Holds[Kind(c)]) \in Lists
  BY <1>1 DEF Lists
<1>3. /\ Reverse(<<"update_data", "update_revisions">>)
           = <<"update_revisions", "update_data">>
      /\ Reverse(<<"update_revisions">>) = <<"update_revisions">>
  BY DEF Reverse
<1>. QED BY <1>1, <1>2, <1>3, HeldAre, ToSetsAre, SignalsAre DEF Held

-----------------------------------------------------------------------------
(* How stacks change *)

\* Contexts have moved on, but each is where it was and in place of the same.
Alike(f, g) ==
  /\ g.id = f.id /\ g.orig = f.orig
  /\ Put(g) = Put(f) /\ Ahead(g) = Ahead(f)
Moved(S, S2) ==
  /\ S2 \in [Threads -> Seq(FrameType)] /\ Places(S2) = Places(S)
  /\ \A p \in Places(S) : Innermost(S2, p) <=> Innermost(S, p)
\* The context at p is g.
Retop(S, S2, p, g) ==
  /\ Moved(S, S2) /\ p \in Places(S) /\ Innermost(S, p) /\ GoodFrame(g)
  /\ \A q \in Places(S) : On(S2, q) = IF q = p THEN g ELSE On(S, q)

LEMMA ShapeFacts ==
  ASSUME NEW S, NEW D, Shape(S, D), NEW p \in Places(S)
  PROVE  /\ GoodFrame(On(S, p)) /\ On(S, p) \in FrameType
         /\ On(S, p).id \in Id /\ On(S, p).id[1] = p[1]
         /\ \A s \in Signals : /\ GoodSend(s, On(S, p).orig[s])
                               /\ On(S, p).id \notin ToSet(On(S, p).orig[s])
         /\ On(S, p).orig \in [Signals -> Seq(Id)]
         /\ p[1] \in Threads /\ p[2] \in 1 .. Len(S[p[1]])
         /\ p = <<p[1], p[2]>> /\ p[2] \in Nat
         /\ Put(On(S, p)) \subseteq Signals /\ Ahead(On(S, p)) \subseteq Signals
         /\ Ahead(On(S, p)) \cap Put(On(S, p)) = {}
<1>1. GoodFrame(On(S, p)) /\ On(S, p) \in FrameType
  BY DEF Shape, GoodFrame
<1>2. /\ p[1] \in Threads /\ p[2] \in 1 .. Len(S[p[1]])
      /\ p = <<p[1], p[2]>> /\ p[2] \in Nat
  BY DEF Places
<1>3. On(S, p).id \in Id /\ On(S, p).orig \in [Signals -> Seq(Id)]
  BY <1>1 DEF FrameType
<1>4. /\ \A s \in Signals : GoodSend(s, On(S, p).orig[s])
      /\ On(S, p).id[1] = p[1]
  BY DEF Shape
<1>5. \A s \in Signals : On(S, p).id \notin ToSet(On(S, p).orig[s])
  BY <1>1 DEF GoodFrame
<1>6. Held(On(S, p).id) \subseteq Signals
  BY <1>3, HeldFacts
<1>7. /\ Put(On(S, p)) \subseteq Signals /\ Ahead(On(S, p)) \subseteq Signals
      /\ Ahead(On(S, p)) \cap Put(On(S, p)) = {}
  BY <1>1, <1>6 DEF Put, Ahead, GoodFrame, Installing, Ending
<1>. QED BY <1>1, <1>2, <1>3, <1>4, <1>5, <1>7

LEMMA AlikeShape ==
  ASSUME NEW S, NEW D, NEW S2, Shape(S, D), Moved(S, S2),
         \A p \in Places(S) :
           /\ GoodFrame(On(S2, p)) /\ Alike(On(S, p), On(S2, p))
           /\ ~Innermost(S, p) => On(S2, p).step = "in"
  PROVE  Shape(S2, D) /\ (Nested(S, D) => Nested(S2, D))
<1>1. Shape(S2, D)
  BY DEF Shape, Moved, Alike
<1>2. ASSUME Nested(S, D)
      PROVE  Nested(S2, D)
  BY <1>2 DEF Nested, Moved, Alike
<1>. QED BY <1>1, <1>2

\* A context that is about to be put in the place of s has looked what is there.
LEMMA SaveShape ==
  ASSUME NEW S, NEW D, NEW S2, NEW p, NEW g, Shape(S, D), Retop(S, S2, p, g),
         NEW s \in Ahead(On(S, p)), g.id = On(S, p).id,
         g.orig = [On(S, p).orig EXCEPT ![s] = D[s]],
         Put(g) = Put(On(S, p)), Ahead(g) = Ahead(On(S, p))
  PROVE  Shape(S2, D) /\ (Nested(S, D) => Nested(S2, D))
<1>. PICK f : f = On(S, p)
  OBVIOUS
<1>1. /\ p \in Places(S) /\ Places(S2) = Places(S) /\ On(S2, p) = g
      /\ \A q \in Places(S) : q # p => On(S2, q) = On(S, q)
      /\ s \in Signals /\ f.orig \in [Signals -> Seq(Id)]
      /\ g.orig[s] = D[s] /\ \A x \in Signals \ {s} : g.orig[x] = f.orig[x]
      /\ g.id = f.id /\ g.id[1] = p[1] /\ f.id \notin ToSet(D[s])
      /\ s \notin Put(g)
  <2>1. p \in Places(S) /\ Places(S2) = Places(S)
    BY DEF Retop, Moved
  <2>2. s \in Signals /\ f.orig \in [Signals -> Seq(Id)] /\ s \notin Put(f)
        /\ f.id[1] = p[1]
    BY <2>1, ShapeFacts
  <2>3. f.id \notin ToSet(D[s])
    BY <2>1 DEF Shape
  <2>. QED BY <2>1, <2>2, <2>3 DEF Retop
<1>2. ASSUME NEW q \in Places(S), NEW x \in Signals
      PROVE  /\ On(S2, q).id = On(S, q).id
             /\ On(S2, q).orig[x] \in {On(S, q).orig[x], D[x]}
             /\ q # p => On(S2, q).orig[x] = On(S, q).orig[x]
  BY <1>1
<1>3. ASSUME NEW q \in Places(S)
      PROVE  /\ GoodFrame(On(S2, q)) /\ On(S2, q).id[1] = q[1]
             /\ ~Innermost(S2, q) => On(S2, q).step = "in"
             /\ \A x \in Signals : GoodSend(x, On(S2, q).orig[x])
             /\ \A x \in Ahead(On(S2, q)) : On(S2, q).id \notin ToSet(D[x])
  <2>1. GoodFrame(On(S2, q)) /\ (~Innermost(S2, q) => On(S2, q).step = "in")
    BY <1>1 DEF Shape, Retop, Moved
  <2>2. \A x \in Signals : GoodSend(x, On(S2, q).orig[x])
    BY <1>2 DEF Shape
  <2>3. \A x \in Ahead(On(S2, q)) : On(S2, q).id \notin ToSet(D[x])
    BY <1>1 DEF Shape
  <2>. QED BY <1>1, <2>1, <2>2, <2>3 DEF Shape
<1>4. ASSUME NEW q \in Places(S), NEW r \in Places(S)
      PROVE  /\ On(S2, q).id = On(S2, r).id => q = r
             /\ \A x \in Ahead(On(S2, q)) :
                  On(S2, q).id \notin ToSet(On(S2, r).orig[x])
             /\ q[1] = r[1] /\ q[2] < r[2] =>
                  \A x \in Signals : On(S2, r).id \notin ToSet(On(S2, q).orig[x])
  <2>1. Ahead(On(S2, q)) = Ahead(On(S, q)) /\ Ahead(On(S, q)) \subseteq Signals
    BY <1>1, ShapeFacts
  <2>2. \A x \in Ahead(On(S2, q)) : On(S2, q).id \notin ToSet(On(S2, r).orig[x])
    <3>1. ASSUME NEW x \in Ahead(On(S, q))
          PROVE  On(S, q).id \notin ToSet(On(S, r).orig[x]) \cup ToSet(D[x])
      BY <3>1 DEF Shape
    <3>. QED BY <1>2, <2>1, <3>1
  <2>3. q[1] = r[1] /\ q[2] < r[2] => q # p
    BY ShapeFacts DEF Retop, Innermost, Places
  <2>4. On(S2, q).id = On(S2, r).id => q = r
    BY <1>2, SignalsAre DEF Shape
  <2>5. ASSUME q[1] = r[1], q[2] < r[2], NEW x \in Signals
        PROVE  On(S2, r).id \notin ToSet(On(S2, q).orig[x])
    <3>1. On(S, r).id \notin ToSet(On(S, q).orig[x])
      BY <2>5 DEF Shape
    <3>. QED BY <1>2, <2>3, <2>5, <3>1
  <2>. QED BY <2>2, <2>4, <2>5
<1>5. Shape(S2, D)
  BY <1>1, <1>3, <1>4 DEF Shape, Retop, Moved
<1>6. ASSUME Nested(S, D)
      PROVE  Nested(S2, D)
  <2>1. ASSUME NEW x \in Signals, NEW i \in 1 .. Len(D[x])
        PROVE  \E q \in Places(S2) :
                 /\ On(S2, q).id = D[x][i] /\ x \in Put(On(S2, q))
                 /\ IsTail(On(S2, q).orig[x], D[x], i)
    <3>1. PICK q \in Places(S) :
            /\ On(S, q).id = D[x][i] /\ x \in Put(On(S, q))
            /\ IsTail(On(S, q).orig[x], D[x], i)
      BY <1>6, <2>1 DEF Nested
    <3>2. On(S2, q).id = On(S, q).id /\ Put(On(S2, q)) = Put(On(S, q))
      BY <1>1
    <3>3. On(S2, q).orig[x] = On(S, q).orig[x]
      <4>1. CASE q = p
        BY <1>1, <3>1, <3>2, <4>1
      <4>. QED BY <1>2, <4>1
    <3>. QED BY <1>1, <3>1, <3>2, <3>3
  <2>2. \A x \in Signals, q \in Places(S2) :
          x \in Put(On(S2, q)) => On(S2, q).id \in ToSet(D[x])
    BY <1>1, <1>6 DEF Nested
  <2>. QED BY <2>1, <2>2 DEF Nested
<1>. QED BY <1>5, <1>6

LEMMA ConsFacts ==
  ASSUME NEW c \in Id, NEW q \in Seq(Id), NEW r, r = <<c>> \o q
  PROVE  /\ r \in Seq(Id) /\ Len(r) = Len(q) + 1 /\ r[1] = c
         /\ \A i \in 1 .. Len(q) : r[i + 1] = q[i]
         /\ ToSet(r) = {c} \cup ToSet(q)
         /\ IsInjective(q) /\ c \notin ToSet(q) => IsInjective(r)
<1>1. /\ r \in Seq(Id) /\ Len(r) = Len(q) + 1 /\ r[1] = c
      /\ \A i \in 1 .. Len(q) : r[i + 1] = q[i]
  OBVIOUS
<1>2. /\ DOMAIN q = 1 .. Len(q) /\ DOMAIN r = 1 .. Len(r) /\ Len(q) \in Nat
  BY <1>1
<1>3. \A i \in 1 .. Len(r) : i = 1 \/ (i - 1 \in 1 .. Len(q) /\ r[i] = q[i - 1])
  BY <1>1, <1>2
<1>4. ToSet(r) = {c} \cup ToSet(q)
  <2>1. ToSet(r) \subseteq {c} \cup ToSet(q)
    BY <1>1, <1>2, <1>3 DEF ToSet
  <2>2. c \in ToSet(r)
    BY <1>1, <1>2 DEF ToSet
  <2>3. \A i \in 1 .. Len(q) : i + 1 \in 1 .. Len(r) /\ q[i] = r[i + 1]
    BY <1>1, <1>2
  <2>4. ToSet(q) \subseteq ToSet(r)
    BY <1>2, <2>3 DEF ToSet
  <2>. QED BY <2>1, <2>2, <2>4
<1>5. ASSUME IsInjective(q), c \notin ToSet(q), NEW i \in 1 .. Len(r),
             NEW j \in 1 .. Len(r), r[i] = r[j]
      PROVE  i = j
  <2>1. \A k \in 1 .. Len(q) : q[k] # c
    BY <1>2, <1>5 DEF ToSet
  <2>2. i # 1 /\ j # 1 => i - 1 = j - 1
    BY <1>2, <1>3, <1>5 DEF IsInjective
  <2>. QED BY <1>1, <1>2, <1>3, <1>5, <2>1, <2>2
<1>. QED BY <1>1, <1>2, <1>4, <1>5 DEF IsInjective

\* A context takes the place of the signal s.
Installs(S, D, S2, D2, p, g, s) ==
  /\ Shape(S, D) /\ Retop(S, S2, p, g)
  /\ s \in Ahead(On(S, p)) /\ g.id = On(S, p).id /\ g.orig = On(S, p).orig
  /\ Put(g) = Put(On(S, p)) \cup {s} /\ Ahead(g) = Ahead(On(S, p)) \ {s}
  /\ D2 = [D EXCEPT ![s] = <<g.id>> \o g.orig[s]]
LEMMA InstallShape ==
  ASSUME NEW S, NEW D, NEW S2, NEW D2, NEW p, NEW g, NEW s,
         Installs(S, D, S2, D2, p, g, s)
  PROVE  /\ Shape(S2, D2)
         /\ Nested(S, D) /\ D[s] = g.orig[s] => Nested(S2, D2)
<1>. USE DEF Installs
<1>. PICK f : f = On(S, p)
  OBVIOUS
<1>1. /\ p \in Places(S) /\ Places(S2) = Places(S) /\ On(S2, p) = g
      /\ \A q \in Places(S) : q # p => On(S2, q) = On(S, q)
      /\ s \in Signals /\ f.orig \in [Signals -> Seq(Id)]
      /\ g.id = f.id /\ g.id[1] = p[1] /\ g.orig = f.orig
      /\ s \notin Put(f) /\ s \in Held(f.id) /\ f.id \in Id
      /\ f.id \notin ToSet(f.orig[s]) /\ GoodSend(s, f.orig[s])
      /\ D \in [Signals -> Seq(Id)]
  <2>1. p \in Places(S) /\ Places(S2) = Places(S)
    BY DEF Retop, Moved
  <2>2. /\ s \in Signals /\ f.orig \in [Signals -> Seq(Id)] /\ s \notin Put(f)
        /\ f.id[1] = p[1] /\ GoodFrame(f) /\ f.id \in Id
        /\ f.id \notin ToSet(f.orig[s]) /\ GoodSend(s, f.orig[s])
    BY <2>1, ShapeFacts
  <2>3. s \in Held(f.id)
    BY <2>2 DEF Ahead, GoodFrame
  <2>. QED BY <2>1, <2>2, <2>3 DEF Retop, Shape
<1>. PICK r : r = <<f.id>> \o f.orig[s]
  OBVIOUS
<1>2. /\ r \in Seq(Id) /\ Len(r) = Len(f.orig[s]) + 1 /\ r[1] = f.id
      /\ \A i \in 1 .. Len(f.orig[s]) : r[i + 1] = f.orig[s][i]
      /\ ToSet(r) = {f.id} \cup ToSet(f.orig[s]) /\ IsInjective(r)
  <2>. PICK c, o : c = f.id /\ o = f.orig[s]
    OBVIOUS
  <2>1. /\ o \in Seq(Id) /\ IsInjective(o) /\ c \in Id /\ c \notin ToSet(o)
        /\ r = <<c>> \o o
    BY <1>1 DEF GoodSend
  <2>2. /\ r \in Seq(Id) /\ Len(r) = Len(o) + 1 /\ r[1] = c
        /\ \A i \in 1 .. Len(o) : r[i + 1] = o[i]
    BY ONLY <2>1, ConsFacts
  <2>3. ToSet(r) = {c} \cup ToSet(o) /\ IsInjective(r)
    BY ONLY <2>1, ConsFacts
  <2>. QED BY <2>2, <2>3
<1>3. GoodSend(s, r)
  BY <1>1, <1>2 DEF GoodSend
<1>4. /\ D2 \in [Signals -> Seq(Id)] /\ D2[s] = r
      /\ \A x \in Signals \ {s} : D2[x] = D[x]
  BY <1>1, <1>2
<1>5. ASSUME NEW q \in Places(S)
      PROVE  /\ GoodFrame(On(S2, q)) /\ On(S2, q).id[1] = q[1]
             /\ ~Innermost(S2, q) => On(S2, q).step = "in"
             /\ \A x \in Signals : GoodSend(x, On(S2, q).orig[x])
             /\ \A x \in Ahead(On(S2, q)) : On(S2, q).id \notin ToSet(D2[x])
  <2>1. GoodFrame(On(S2, q)) /\ (~Innermost(S2, q) => On(S2, q).step = "in")
    BY <1>1 DEF Shape, Retop, Moved
  <2>2. ASSUME NEW x \in Ahead(On(S2, q))
        PROVE  On(S2, q).id \notin ToSet(D2[x])
    <3>1. /\ x \in Ahead(On(S, q)) /\ On(S2, q).id = On(S, q).id
          /\ x = s => q # p
      BY <1>1, <2>2
    <3>2. x \in Signals /\ On(S, q).id \notin ToSet(D[x])
      BY <3>1, ShapeFacts DEF Shape
    <3>3. On(S, q).id \notin ToSet(f.orig[x]) /\ (q # p => On(S, q).id # f.id)
      BY <1>1, <3>1 DEF Shape
    <3>. QED BY <1>2, <1>4, <3>1, <3>2, <3>3
  <2>3. \A x \in Signals : GoodSend(x, On(S2, q).orig[x])
    BY <1>1, ShapeFacts, ZenonT(60)
  <2>. QED BY <1>1, <2>1, <2>2, <2>3 DEF Shape
<1>6. ASSUME NEW q \in Places(S)
      PROVE  /\ On(S2, q).id = On(S, q).id /\ On(S2, q).orig = On(S, q).orig
             /\ Ahead(On(S2, q)) \subseteq Ahead(On(S, q))
  BY <1>1
<1>7. Shape(S2, D2)
  <2>1. \A x \in Signals : GoodSend(x, D2[x])
    BY <1>3, <1>4 DEF Shape
  <2>2. ASSUME NEW q \in Places(S), NEW q2 \in Places(S)
        PROVE  /\ On(S2, q).id = On(S2, q2).id => q = q2
               /\ \A x \in Ahead(On(S2, q)) :
                    On(S2, q).id \notin ToSet(On(S2, q2).orig[x])
               /\ q[1] = q2[1] /\ q[2] < q2[2] =>
                    \A x \in Signals : On(S2, q2).id \notin ToSet(On(S2, q).orig[x])
    <3>1. /\ On(S, q).id = On(S, q2).id => q = q2
          /\ \A x \in Ahead(On(S, q)) :
               On(S, q).id \notin ToSet(On(S, q2).orig[x])
          /\ q[1] = q2[1] /\ q[2] < q2[2] =>
               \A x \in Signals : On(S, q2).id \notin ToSet(On(S, q).orig[x])
      BY DEF Shape
    <3>. QED BY <1>6, <3>1
  <2>. QED BY <1>1, <1>4, <1>5, <2>1, <2>2 DEF Shape, Retop, Moved
<1>8. ASSUME Nested(S, D), D[s] = g.orig[s]
      PROVE  Nested(S2, D2)
  <2>1. ASSUME NEW x \in Signals, NEW i \in 1 .. Len(D2[x])
        PROVE  \E q \in Places(S2) :
                 /\ On(S2, q).id = D2[x][i] /\ x \in Put(On(S2, q))
                 /\ IsTail(On(S2, q).orig[x], D2[x], i)
    <3>1. CASE x # s
      <4>1. PICK q \in Places(S) :
              /\ On(S, q).id = D[x][i] /\ x \in Put(On(S, q))
              /\ IsTail(On(S, q).orig[x], D[x], i)
        BY <1>4, <1>8, <2>1, <3>1 DEF Nested
      <4>2. x \in Put(On(S2, q))
        BY <1>1, <4>1
      <4>. QED BY <1>1, <1>4, <1>6, <3>1, <4>1, <4>2
    <3>2. CASE x = s /\ i = 1
      <4>. PICK o : o = g.orig[s]
        OBVIOUS
      <4>1. /\ Len(o) \in Nat /\ Len(r) = Len(o) + 1
            /\ \A j \in 1 .. Len(o) : o[j] = r[j + 1]
        BY <1>1, <1>2
      <4>2. IsTail(o, r, 1)
        BY <4>1 DEF IsTail
      <4>3. s \in Put(g) /\ g.id = r[1] /\ D2[s] = r
        BY <1>1, <1>2, <1>4
      <4>. QED BY <1>1, <3>2, <4>2, <4>3
    <3>3. CASE x = s /\ i # 1
      <4>1. i - 1 \in 1 .. Len(D[s]) /\ Len(D[s]) \in Nat /\ D[s] = f.orig[s]
        BY <1>1, <1>2, <1>4, <1>8, <2>1, <3>3
      <4>2. PICK q \in Places(S) :
              /\ On(S, q).id = D[s][i - 1] /\ s \in Put(On(S, q))
              /\ IsTail(On(S, q).orig[s], D[s], i - 1)
        BY <1>1, <1>8, <4>1 DEF Nested
      <4>3. q # p /\ On(S2, q) = On(S, q)
        BY <1>1, <4>2
      <4>4. \A j \in 1 .. Len(D[s]) : r[j + 1] = D[s][j]
        BY <1>2, <4>1
      <4>5. On(S2, q).id = r[i]
        <5>1. r[(i - 1) + 1] = D[s][i - 1] /\ i = (i - 1) + 1
          BY <2>1, <1>2, <1>4, <3>3, <4>1, <4>4
        <5>. QED BY <4>2, <4>3, <5>1
      <4>6. IsTail(On(S2, q).orig[s], r, i)
        <5>. PICK o : o = On(S, q).orig[s]
          OBVIOUS
        <5>1. o \in Seq(Id)
          BY <1>1, ShapeFacts
        <5>2. Len(o) = Len(D[s]) - (i - 1) /\ Len(r) = Len(D[s]) + 1
              /\ \A j \in 1 .. Len(o) : o[j] = D[s][(i - 1) + j]
          BY <1>2, <4>1, <4>2 DEF IsTail
        <5>3. ASSUME NEW j \in 1 .. Len(o)
              PROVE  o[j] = r[i + j]
          <6>1. (i - 1) + j \in 1 .. Len(D[s]) /\ ((i - 1) + j) + 1 = i + j
            BY ONLY <4>1, <5>1, <5>2, i \in 1 .. Len(D2[x]), j \in 1 .. Len(o)
          <6>2. r[((i - 1) + j) + 1] = D[s][(i - 1) + j]
            BY <4>4, <6>1
          <6>. QED BY <5>2, <6>1, <6>2
        <5>4. Len(o) = Len(r) - i
          BY ONLY <4>1, <5>1, <5>2, i \in 1 .. Len(D2[x])
        <5>. QED BY <4>3, <5>3, <5>4 DEF IsTail
      <4>7. D2[x] = r /\ q \in Places(S2)
        BY <1>1, <1>4, <3>3
      <4>. QED BY ONLY <3>3, <4>2, <4>3, <4>5, <4>6, <4>7
    <3>. QED BY <3>1, <3>2, <3>3
  <2>2. ASSUME NEW x \in Signals, NEW q \in Places(S2), x \in Put(On(S2, q))
        PROVE  On(S2, q).id \in ToSet(D2[x])
    <3>1. (q = p /\ x = s) \/ x \in Put(On(S, q))
      BY <1>1, <2>2
    <3>2. x \in Put(On(S, q)) => On(S, q).id \in ToSet(D[x])
      BY <1>1, <1>8, <2>2 DEF Nested
    <3>. QED BY <1>1, <1>2, <1>4, <1>6, <1>8, <2>2, <3>1, <3>2
  <2>. QED BY <1>1, <2>1, <2>2 DEF Nested
<1>. QED BY <1>7, <1>8

\* A context puts back what it has found in the place of the signal s.
Restores(S, D, S2, D2, p, g, s) ==
  /\ Shape(S, D) /\ Retop(S, S2, p, g)
  /\ s \in Put(On(S, p)) /\ g.id = On(S, p).id
  /\ g.orig = [On(S, p).orig EXCEPT ![s] = <<>>]
  /\ Put(g) = Put(On(S, p)) \ {s} /\ Ahead(g) = {} /\ Ahead(On(S, p)) = {}
  /\ D2 = [D EXCEPT ![s] = On(S, p).orig[s]]
LEMMA RestoreShape ==
  ASSUME NEW S, NEW D, NEW S2, NEW D2, NEW p, NEW g, NEW s,
         Restores(S, D, S2, D2, p, g, s)
  PROVE  /\ Shape(S2, D2)
         /\ Nested(S, D) /\ D[s] = <<g.id>> \o On(S, p).orig[s] => Nested(S2, D2)
<1>. USE DEF Restores
<1>. PICK f, o : f = On(S, p) /\ o = On(S, p).orig[s]
  OBVIOUS
<1>1. /\ p \in Places(S) /\ Places(S2) = Places(S) /\ On(S2, p) = g
      /\ \A q \in Places(S) : q # p => On(S2, q) = On(S, q)
      /\ s \in Signals /\ f.orig \in [Signals -> Seq(Id)]
      /\ g.orig[s] = <<>> /\ \A x \in Signals \ {s} : g.orig[x] = f.orig[x]
      /\ g.id = f.id /\ g.id[1] = p[1] /\ f.id \in Id
      /\ f.id \notin ToSet(o) /\ GoodSend(s, o) /\ o \in Seq(Id)
      /\ D \in [Signals -> Seq(Id)]
  <2>1. p \in Places(S) /\ Places(S2) = Places(S)
    BY DEF Retop, Moved
  <2>2. /\ s \in Signals /\ f.orig \in [Signals -> Seq(Id)]
        /\ f.id[1] = p[1] /\ f.id \in Id
        /\ f.id \notin ToSet(o) /\ GoodSend(s, o)
    BY <2>1, ShapeFacts
  <2>. QED BY <2>1, <2>2 DEF Retop, Shape, GoodSend
<1>2. /\ D2 \in [Signals -> Seq(Id)] /\ D2[s] = o
      /\ \A x \in Signals \ {s} : D2[x] = D[x]
  BY <1>1
<1>3. ToSet(<<>>) = {} /\ \A x \in Signals : GoodSend(x, <<>>)
  BY ToSetsAre DEF GoodSend, IsInjective
<1>4. ASSUME NEW q \in Places(S), NEW x \in Signals
      PROVE  /\ On(S2, q).id = On(S, q).id /\ Ahead(On(S2, q)) = Ahead(On(S, q))
             /\ On(S2, q).orig[x] \in {On(S, q).orig[x], <<>>}
             /\ q # p \/ x # s => On(S2, q).orig[x] = On(S, q).orig[x]
  BY <1>1
<1>5. ASSUME NEW q \in Places(S)
      PROVE  /\ GoodFrame(On(S2, q)) /\ On(S2, q).id[1] = q[1]
             /\ ~Innermost(S2, q) => On(S2, q).step = "in"
             /\ \A x \in Signals : GoodSend(x, On(S2, q).orig[x])
             /\ \A x \in Ahead(On(S2, q)) : On(S2, q).id \notin ToSet(D2[x])
  <2>1. GoodFrame(On(S2, q)) /\ (~Innermost(S2, q) => On(S2, q).step = "in")
    BY <1>1 DEF Shape, Retop, Moved
  <2>2. ASSUME NEW x \in Ahead(On(S2, q))
        PROVE  On(S2, q).id \notin ToSet(D2[x])
    <3>1. /\ x \in Ahead(On(S, q)) /\ On(S2, q).id = On(S, q).id
      BY <1>1, <2>2
    <3>2. x \in Signals /\ On(S, q).id \notin ToSet(D[x])
      BY <3>1, ShapeFacts DEF Shape
    <3>3. On(S, q).id \notin ToSet(f.orig[x])
      BY <1>1, <3>1 DEF Shape
    <3>. QED BY <1>2, <3>1, <3>2, <3>3
  <2>3. \A x \in Signals : GoodSend(x, On(S2, q).orig[x])
    BY <1>3, <1>4, ShapeFacts
  <2>. QED BY <1>1, <2>1, <2>2, <2>3 DEF Shape
<1>6. Shape(S2, D2)
  <2>1. \A x \in Signals : GoodSend(x, D2[x])
    BY <1>1, <1>2 DEF Shape
  <2>2. ASSUME NEW q \in Places(S), NEW q2 \in Places(S)
        PROVE  /\ On(S2, q).id = On(S2, q2).id => q = q2
               /\ \A x \in Ahead(On(S2, q)) :
                    On(S2, q).id \notin ToSet(On(S2, q2).orig[x])
               /\ q[1] = q2[1] /\ q[2] < q2[2] =>
                    \A x \in Signals : On(S2, q2).id \notin ToSet(On(S2, q).orig[x])
    <3>1. /\ On(S, q).id = On(S, q2).id => q = q2
          /\ \A x \in Ahead(On(S, q)) :
               x \in Signals /\ On(S, q).id \notin ToSet(On(S, q2).orig[x])
          /\ q[1] = q2[1] /\ q[2] < q2[2] =>
               \A x \in Signals : On(S, q2).id \notin ToSet(On(S, q).orig[x])
      BY ShapeFacts DEF Shape
    <3>2. On(S2, q).id = On(S, q).id /\ On(S2, q2).id = On(S, q2).id
          /\ Ahead(On(S2, q)) = Ahead(On(S, q))
      BY <1>1, <1>4
    <3>3. /\ On(S2, q).id = On(S2, q2).id => q = q2
          /\ \A x \in Ahead(On(S2, q)) :
               On(S2, q).id \notin ToSet(On(S2, q2).orig[x])
      BY <1>3, <1>4, <3>1, <3>2
    <3>4. q[1] = q2[1] /\ q[2] < q2[2] =>
            \A x \in Signals : On(S2, q2).id \notin ToSet(On(S2, q).orig[x])
      BY <1>3, <1>4, <3>1, <3>2
    <3>. QED BY <3>3, <3>4
  <2>. QED BY <1>1, <1>2, <1>5, <2>1, <2>2 DEF Shape, Retop, Moved
<1>7. ASSUME Nested(S, D), D[s] = <<g.id>> \o On(S, p).orig[s]
      PROVE  Nested(S2, D2)
  <2>. PICK c, r : c = f.id /\ r = D[s]
    OBVIOUS
  <2>0. c \in Id /\ r = <<c>> \o o /\ o \in Seq(Id)
    BY <1>1, <1>7
  <2>1. /\ r \in Seq(Id) /\ Len(r) = Len(o) + 1 /\ r[1] = c
        /\ \A i \in 1 .. Len(o) : r[i + 1] = o[i]
    BY ONLY <2>0, ConsFacts
  <2>2. ToSet(r) = {c} \cup ToSet(o)
    BY ONLY <2>0, ConsFacts
  <2>3. ASSUME NEW x \in Signals, NEW i \in 1 .. Len(D2[x])
        PROVE  \E q \in Places(S2) :
                 /\ On(S2, q).id = D2[x][i] /\ x \in Put(On(S2, q))
                 /\ IsTail(On(S2, q).orig[x], D2[x], i)
    <3>1. CASE x # s
      <4>1. PICK q \in Places(S) :
              /\ On(S, q).id = D[x][i] /\ x \in Put(On(S, q))
              /\ IsTail(On(S, q).orig[x], D[x], i)
        BY <1>2, <1>7, <2>3, <3>1 DEF Nested
      <4>2. x \in Put(On(S2, q)) /\ On(S2, q).id = On(S, q).id
            /\ On(S2, q).orig[x] = On(S, q).orig[x]
        BY <1>1, <1>4, <3>1, <4>1
      <4>. QED BY <1>1, <1>2, <3>1, <4>1, <4>2
    <3>2. CASE x = s
      <4>1. i \in 1 .. Len(o) /\ Len(o) \in Nat /\ i + 1 \in 1 .. Len(r)
        BY <1>2, <2>0, <2>1, <2>3, <3>2
      <4>2. PICK q \in Places(S) :
              /\ On(S, q).id = r[i + 1] /\ s \in Put(On(S, q))
              /\ IsTail(On(S, q).orig[s], r, i + 1)
        BY <1>1, <1>7, <4>1 DEF Nested
      <4>3. On(S, q).id = o[i] /\ o[i] \in ToSet(o)
        BY <2>0, <2>1, <4>1, <4>2 DEF ToSet
      <4>4. q # p /\ On(S2, q) = On(S, q)
        BY <1>1, <4>3
      <4>5. IsTail(On(S, q).orig[s], o, i)
        <5>. PICK w : w = On(S, q).orig[s]
          OBVIOUS
        <5>1. w \in Seq(Id)
          BY <1>1, ShapeFacts
        <5>2. Len(w) = Len(r) - (i + 1)
              /\ \A j \in 1 .. Len(w) : w[j] = r[(i + 1) + j]
          BY <4>2 DEF IsTail
        <5>3. ASSUME NEW j \in 1 .. Len(w)
              PROVE  w[j] = o[i + j]
          <6>1. i + j \in 1 .. Len(o) /\ (i + 1) + j = (i + j) + 1
            BY <2>1, <4>1, <5>1, <5>2
          <6>2. r[(i + j) + 1] = o[i + j]
            BY <2>1, <6>1
          <6>. QED BY <5>2, <6>1, <6>2
        <5>4. Len(w) = Len(o) - i
          BY <2>1, <4>1, <5>1, <5>2
        <5>. QED BY <5>3, <5>4 DEF IsTail
      <4>6. D2[x] = o /\ q \in Places(S2) /\ On(S2, q) = On(S, q) /\ o[i] = r[i + 1]
        BY <1>1, <1>2, <2>1, <3>2, <4>1, <4>4
      <4>. QED BY ONLY <3>2, <4>2, <4>3, <4>5, <4>6
    <3>. QED BY <3>1, <3>2
  <2>4. ASSUME NEW x \in Signals, NEW q \in Places(S2), x \in Put(On(S2, q))
        PROVE  On(S2, q).id \in ToSet(D2[x])
    <3>1. x \in Put(On(S, q)) /\ (x = s => q # p)
      BY <1>1, <2>4
    <3>2. On(S, q).id \in ToSet(D[x]) /\ (q # p => On(S, q).id # f.id)
      BY <1>1, <1>7, <2>4, <3>1 DEF Nested, Shape
    <3>. QED BY <1>1, <1>2, <1>4, <2>2, <2>4, <3>1, <3>2
  <2>. QED BY <1>1, <2>3, <2>4 DEF Nested
<1>. QED BY <1>6, <1>7

\* A context more is on the stack of t, which is in place of nothing yet and has
\* a name that is found nowhere.
New(S, D, t, g) ==
  /\ GoodFrame(g) /\ g.id[1] = t /\ Put(g) = {}
  /\ \A s \in Signals : g.orig[s] = <<>> /\ g.id \notin ToSet(D[s])
  /\ \A q \in Places(S) : /\ g.id # On(S, q).id
                          /\ \A s \in Signals : g.id \notin ToSet(On(S, q).orig[s])
Push(S, t, g) == [S EXCEPT ![t] = Append(@, g)]
Pop(S, t) == [S EXCEPT ![t] = Front(@)]
Put_top(S, t, g) == [S EXCEPT ![t] = Front(@) \o <<g>>]
TopPlace(S, t) == <<t, Len(S[t])>>

LEMMA FrontFacts ==
  ASSUME NEW T, NEW q \in Seq(T), q # <<>>
  PROVE  /\ Front(q) \in Seq(T) /\ Len(Front(q)) = Len(q) - 1
         /\ \A i \in 1 .. Len(q) - 1 : Front(q)[i] = q[i]
         /\ Last(q) = q[Len(q)] /\ Len(q) \in Nat \ {0} /\ Last(q) \in T
<1>1. /\ \A i \in 1 .. Len(q) - 1 : q[i] \in T
      /\ Len(q) - 1 \in Int /\ Len(q) - 1 + 1 = Len(q)
      /\ Len(q) \in Nat \ {0} /\ Last(q) = q[Len(q)] /\ Last(q) \in T
  BY DEF Last
<1>. PICK n, r : n = Len(q) /\ r = Front(q)
  OBVIOUS
<1>2. /\ r \in Seq(T)
      /\ Len(r) = IF 1 <= n - 1 THEN n - 1 - 1 + 1 ELSE 0
      /\ \A i \in 1 .. n - 1 - 1 + 1 : r[i] = q[1 + i - 1]
  BY <1>1, SubSeqProperties DEF Front
<1>3. n \in Nat \ {0} /\ n - 1 - 1 + 1 = n - 1 /\ (~(1 <= n - 1) => n - 1 = 0)
  BY <1>1
<1>4. Len(r) = n - 1
  BY ONLY <1>2, <1>3
<1>5. ASSUME NEW i \in 1 .. n - 1
      PROVE  r[i] = q[i]
  <2>1. r[i] = q[1 + i - 1] /\ 1 + i - 1 = i
    BY <1>2, <1>3
  <2>. QED BY <2>1
<1>. QED BY <1>1, <1>2, <1>4, <1>5

LEMMA PopIs ==
  ASSUME NEW T, NEW S \in [Threads -> Seq(T)], NEW t \in Threads, S[t] # <<>>
  PROVE  /\ Pop(S, t) \in [Threads -> Seq(T)]
         /\ TopPlace(S, t) \in Places(S)
         /\ Places(Pop(S, t)) = Places(S) \ {TopPlace(S, t)}
         /\ \A p \in Places(Pop(S, t)) : On(Pop(S, t), p) = On(S, p)
         /\ Len(Pop(S, t)[t]) = Len(S[t]) - 1
         /\ \A u \in Threads \ {t} : Pop(S, t)[u] = S[u]
<1>. PICK S2, n : S2 = Pop(S, t) /\ n = Len(S[t])
  OBVIOUS
<1>1. /\ S2 \in [Threads -> Seq(T)] /\ n \in Nat \ {0}
      /\ \A u \in Threads \ {t} : S2[u] = S[u]
      /\ S2[t] = Front(S[t]) /\ Len(S2[t]) = n - 1
      /\ \A i \in 1 .. n - 1 : S2[t][i] = S[t][i]
  <2>1. S2 = [S EXCEPT ![t] = Front(S[t])]
    BY DEF Pop
  <2>2. /\ Front(S[t]) \in Seq(T) /\ Len(Front(S[t])) = n - 1 /\ n \in Nat \ {0}
        /\ \A i \in 1 .. n - 1 : Front(S[t])[i] = S[t][i]
    BY FrontFacts
  <2>. QED BY <2>1, <2>2
<1>2. TopPlace(S, t) \in Places(S)
  BY <1>1 DEF TopPlace, Places
<1>3. ASSUME NEW p \in Threads \X Nat
      PROVE  /\ p \in Places(S2) <=> p \in Places(S) /\ p # TopPlace(S, t)
             /\ p \in Places(S2) => On(S2, p) = On(S, p)
  BY <1>1, <1>3 DEF Places, TopPlace, On
<1>4. Places(S2) = Places(S) \ {TopPlace(S, t)}
  BY <1>3 DEF Places
<1>. QED BY <1>1, <1>2, <1>3, <1>4 DEF Places

LEMMA PushIs ==
  ASSUME NEW T, NEW S \in [Threads -> Seq(T)], NEW t \in Threads, NEW g \in T
  PROVE  /\ Push(S, t, g) \in [Threads -> Seq(T)]
         /\ Places(Push(S, t, g)) = Places(S) \cup {TopPlace(Push(S, t, g), t)}
         /\ TopPlace(Push(S, t, g), t) \notin Places(S)
         /\ On(Push(S, t, g), TopPlace(Push(S, t, g), t)) = g
         /\ \A p \in Places(S) : On(Push(S, t, g), p) = On(S, p)
         /\ Len(Push(S, t, g)[t]) = Len(S[t]) + 1
         /\ \A u \in Threads \ {t} : Push(S, t, g)[u] = S[u]
<1>. PICK S2, n, top : S2 = Push(S, t, g) /\ n = Len(S[t]) /\ top = TopPlace(Push(S, t, g), t)
  OBVIOUS
<1>1. /\ S2 \in [Threads -> Seq(T)] /\ n \in Nat
      /\ \A u \in Threads \ {t} : S2[u] = S[u]
      /\ Len(S2[t]) = n + 1 /\ S2[t][n + 1] = g
      /\ \A i \in 1 .. n : S2[t][i] = S[t][i]
  <2>1. S2 = [S EXCEPT ![t] = Append(S[t], g)]
    BY DEF Push
  <2>. QED BY <2>1
<1>2. top = <<t, n + 1>> /\ top[1] = t /\ top[2] = n + 1
  BY <1>1 DEF TopPlace
<1>3. ASSUME NEW p \in Threads \X Nat
      PROVE  /\ p \in Places(S2) <=> p \in Places(S) \/ p = top
             /\ p \in Places(S) => On(S2, p) = On(S, p) /\ p # top
             /\ p = top => On(S2, p) = g
  BY <1>1, <1>2, <1>3 DEF Places, On
<1>4. top \in Threads \X Nat
  BY <1>1, <1>2
<1>5. Places(S2) = Places(S) \cup {top}
  BY <1>3, <1>4 DEF Places
<1>. QED BY <1>1, <1>3, <1>4, <1>5 DEF Places

LEMMA PutIs ==
  ASSUME NEW S \in [Threads -> Seq(FrameType)], NEW t \in Threads, S[t] # <<>>,
         NEW g \in FrameType
  PROVE  /\ Moved(S, Put_top(S, t, g)) /\ TopPlace(S, t) \in Places(S)
         /\ Innermost(S, TopPlace(S, t))
         /\ \A p \in Places(S) :
              On(Put_top(S, t, g), p) = IF p = TopPlace(S, t) THEN g ELSE On(S, p)
         /\ \A u \in Threads : Len(Put_top(S, t, g)[u]) = Len(S[u])
         /\ \A u \in Threads \ {t} : Put_top(S, t, g)[u] = S[u]
<1>. PICK S2, n, q : S2 = Put_top(S, t, g) /\ n = Len(S[t]) /\ q = Front(S[t])
  OBVIOUS
<1>0. /\ q \in Seq(FrameType) /\ Len(q) = n - 1 /\ n \in Nat \ {0}
      /\ \A i \in 1 .. n - 1 : q[i] = S[t][i]
  BY FrontFacts
<1>. PICK r : r = q \o <<g>>
  OBVIOUS
<1>1. /\ r \in Seq(FrameType) /\ Len(r) = n /\ r[n] = g
      /\ \A i \in 1 .. n - 1 : r[i] = S[t][i]
  <2>1. <<g>> \in Seq(FrameType) /\ Len(<<g>>) = 1 /\ <<g>>[1] = g
    OBVIOUS
  <2>2. /\ r \in Seq(FrameType) /\ Len(r) = Len(q) + Len(<<g>>)
        /\ \A i \in 1 .. Len(q) + Len(<<g>>) :
             r[i] = IF i <= Len(q) THEN q[i] ELSE <<g>>[i - Len(q)]
    BY <1>0, <2>1, ConcatProperties
  <2>. QED BY <1>0, <2>1, <2>2
<1>2. /\ S2 \in [Threads -> Seq(FrameType)]
      /\ \A u \in Threads \ {t} : S2[u] = S[u]
      /\ S2[t] = r
  <2>1. S2 = [S EXCEPT ![t] = r]
    BY DEF Put_top
  <2>. QED BY <1>1, <2>1
<1>3. ASSUME NEW u \in Threads
      PROVE  /\ Len(S2[u]) = Len(S[u])
             /\ \A i \in 1 .. Len(S[u]) :
                  S2[u][i] = IF u = t /\ i = n THEN g ELSE S[u][i]
  <2>1. CASE u = t
    <3>1. ASSUME NEW i \in 1 .. n
          PROVE  r[i] = IF i = n THEN g ELSE S[t][i]
      <4>1. i = n \/ i \in 1 .. n - 1
        BY <1>0
      <4>. QED BY <1>0, <1>1, <4>1
    <3>. QED BY <1>1, <1>2, <2>1, <3>1
  <2>2. CASE u # t
    BY <1>2, <2>2
  <2>. QED BY <2>1, <2>2
<1>6. ASSUME NEW p \in Places(S)
      PROVE  /\ Innermost(S2, p) <=> Innermost(S, p)
             /\ On(S2, p) = IF p = TopPlace(S, t) THEN g ELSE On(S, p)
  <2>. PICK u, i : u = p[1] /\ i = p[2]
    OBVIOUS
  <2>1. u \in Threads /\ i \in 1 .. Len(S[u]) /\ p = <<u, i>>
    BY DEF Places
  <2>2. p = TopPlace(S, t) <=> u = t /\ i = n
    BY <2>1 DEF TopPlace
  <2>. QED BY <1>3, <2>1, <2>2 DEF On, Innermost
<1>4. Places(S2) = Places(S)
  BY <1>3 DEF Places
<1>5. TopPlace(S, t) \in Places(S) /\ Innermost(S, TopPlace(S, t))
  BY <1>0 DEF Places, TopPlace, Innermost
<1>. QED BY <1>2, <1>3, <1>4, <1>5, <1>6 DEF Moved

LEMMA PushShape ==
  ASSUME NEW S, NEW D, NEW H, Shape(S, D), NEW t \in Threads, NEW g, New(S, D, t, g),
         S[t] # <<>> => Last(S[t]).step = "in"
  PROVE  /\ Shape(Push(S, t, g), D)
         /\ Nested(S, D) => Nested(Push(S, t, g), D)
         /\ Listening(S, H) /\ ~Connected(g) => Listening(Push(S, t, g), H)
<1>. PICK S2, top : S2 = Push(S, t, g) /\ top = TopPlace(Push(S, t, g), t)
  OBVIOUS
<1>0. S \in [Threads -> Seq(FrameType)] /\ g \in FrameType
  BY DEF Shape, New, GoodFrame
<1>1. /\ S2 \in [Threads -> Seq(FrameType)]
      /\ Places(S2) = Places(S) \cup {top} /\ top \notin Places(S)
      /\ On(S2, top) = g /\ \A p \in Places(S) : On(S2, p) = On(S, p)
      /\ Len(S2[t]) = Len(S[t]) + 1
      /\ \A u \in Threads \ {t} : S2[u] = S[u]
  <2>1. t \in Threads
    OBVIOUS
  <2>. QED BY ONLY <1>0, <2>1, PushIs, S2 = Push(S, t, g), top = TopPlace(Push(S, t, g), t)
<1>2. /\ top = <<t, Len(S[t]) + 1>> /\ top[1] = t /\ top[2] = Len(S[t]) + 1
      /\ Innermost(S2, top) /\ Len(S[t]) \in Nat
  BY <1>0, <1>1 DEF TopPlace, Innermost
<1>3. /\ GoodFrame(g) /\ g.id[1] = t /\ Put(g) = {}
      /\ \A s \in Signals : g.orig[s] = <<>> /\ g.id \notin ToSet(D[s])
      /\ \A q \in Places(S) : /\ g.id # On(S, q).id
                              /\ \A s \in Signals : g.id \notin ToSet(On(S, q).orig[s])
  BY DEF New
<1>4. ToSet(<<>>) = {} /\ \A x \in Signals : GoodSend(x, <<>>)
  BY ToSetsAre DEF GoodSend, IsInjective
<1>5. Ahead(g) \subseteq Signals
  <2>1. g.id \in Id /\ ToSet(g.signals) \subseteq Held(g.id)
    BY <1>0, <1>3 DEF GoodFrame, FrameType
  <2>. QED BY <2>1, HeldFacts DEF Ahead
<1>6. ASSUME NEW p \in Places(S), ~Innermost(S2, p)
      PROVE  On(S, p).step = "in"
  <2>0. p[1] \in Threads /\ p[2] \in 1 .. Len(S[p[1]])
    BY DEF Places
  <2>1. CASE Innermost(S, p)
    <3>1. p[1] = t /\ p[2] = Len(S[t])
      BY <1>1, <1>6, <2>0, <2>1 DEF Innermost
    <3>2. S[t] # <<>> /\ On(S, p) = Last(S[t])
      BY <1>0, <2>0, <3>1 DEF On, Last
    <3>. QED BY <3>2
  <2>. QED BY <2>1 DEF Shape
<1>7. ASSUME NEW p \in Places(S2)
      PROVE  /\ GoodFrame(On(S2, p)) /\ On(S2, p).id[1] = p[1]
             /\ ~Innermost(S2, p) => On(S2, p).step = "in"
             /\ \A s \in Signals : GoodSend(s, On(S2, p).orig[s])
             /\ \A s \in Ahead(On(S2, p)) : On(S2, p).id \notin ToSet(D[s])
  <2>1. CASE p = top
    BY <1>1, <1>2, <1>3, <1>4, <1>5, <2>1
  <2>2. CASE p \in Places(S)
    BY <1>1, <1>6, <2>2 DEF Shape
  <2>. QED BY <1>1, <2>1, <2>2
<1>8. ASSUME NEW p \in Places(S2), NEW q \in Places(S2)
      PROVE  /\ On(S2, p).id = On(S2, q).id => p = q
             /\ \A s \in Ahead(On(S2, p)) :
                  On(S2, p).id \notin ToSet(On(S2, q).orig[s])
             /\ p[1] = q[1] /\ p[2] < q[2] =>
                  \A s \in Signals : On(S2, q).id \notin ToSet(On(S2, p).orig[s])
  <2>1. CASE p \in Places(S) /\ q \in Places(S)
    BY <1>1, <2>1 DEF Shape
  <2>2. CASE p = top
    <3>1. \A s \in Ahead(g) : g.id \notin ToSet(On(S2, q).orig[s])
      BY <1>1, <1>3, <1>4, <1>5
    <3>2. q \in Places(S) => g.id # On(S2, q).id
      BY <1>1, <1>3
    <3>3. \A s \in Signals : On(S2, q).id \notin ToSet(g.orig[s])
      BY <1>3, <1>4
    <3>. QED BY <1>1, <2>2, <3>1, <3>2, <3>3
  <2>3. CASE p \in Places(S) /\ q = top
    <3>1. \A s \in Ahead(On(S, p)) : s \in Signals
      BY <2>3, ShapeFacts
    <3>. QED BY <1>1, <1>3, <1>4, <2>3, <3>1
  <2>. QED BY <1>1, <2>1, <2>2, <2>3
<1>9. Shape(S2, D)
  BY <1>1, <1>7, <1>8 DEF Shape
<1>10. ASSUME Nested(S, D)
       PROVE  Nested(S2, D)
  <2>1. ASSUME NEW x \in Signals, NEW i \in 1 .. Len(D[x])
        PROVE  \E q \in Places(S2) :
                 /\ On(S2, q).id = D[x][i] /\ x \in Put(On(S2, q))
                 /\ IsTail(On(S2, q).orig[x], D[x], i)
    BY <1>1, <1>10 DEF Nested
  <2>2. \A x \in Signals, q \in Places(S2) :
          x \in Put(On(S2, q)) => On(S2, q).id \in ToSet(D[x])
    BY <1>1, <1>3, <1>10 DEF Nested
  <2>. QED BY <2>1, <2>2 DEF Nested
<1>11. ASSUME Listening(S, H), ~Connected(g)
       PROVE  Listening(S2, H)
  BY <1>1, <1>11 DEF Listening
<1>. QED BY <1>9, <1>10, <1>11

\* The innermost context of t is gone, which was in place of nothing any more,
\* and its function with it.
Heedless(H, c) == {h \in H : h.for # c}
LEMMA PopShape ==
  ASSUME NEW S, NEW D, NEW H, Shape(S, D), NEW t \in Threads, S[t] # <<>>,
         Put(Last(S[t])) = {}
  PROVE  /\ Shape(Pop(S, t), D)
         /\ Nested(S, D) => Nested(Pop(S, t), D)
         /\ Listening(S, H) => Listening(Pop(S, t), Heedless(H, Last(S[t]).id))
         /\ Pop(S, t)[t] # <<>> => Last(Pop(S, t)[t]).step = "in"
<1>. PICK S2, top, c : S2 = Pop(S, t) /\ top = TopPlace(S, t) /\ c = Last(S[t]).id
  OBVIOUS
<1>0. S \in [Threads -> Seq(FrameType)]
  BY DEF Shape
<1>1. /\ S2 \in [Threads -> Seq(FrameType)] /\ top \in Places(S)
      /\ Places(S2) = Places(S) \ {top}
      /\ \A p \in Places(S2) : On(S2, p) = On(S, p)
      /\ Len(S2[t]) = Len(S[t]) - 1
      /\ \A u \in Threads \ {t} : S2[u] = S[u]
  BY <1>0, PopIs
<1>2. /\ top = <<t, Len(S[t])>> /\ top[1] = t /\ top[2] = Len(S[t])
      /\ On(S, top) = Last(S[t]) /\ Len(S[t]) \in Nat
  BY <1>0 DEF TopPlace, On, Last
<1>3. ASSUME NEW p \in Places(S2)
      PROVE  /\ p \in Places(S) /\ p # top /\ On(S, p).id # c
             /\ ~Innermost(S2, p) => On(S2, p).step = "in"
             /\ p[1] = t => On(S2, p).step = "in"
  <2>1. /\ p[1] \in Threads /\ p[2] \in 1 .. Len(S2[p[1]]) /\ p \in Places(S)
        /\ p # top
    BY <1>1 DEF Places
  <2>2. p[1] = t => ~Innermost(S, p)
    BY <1>1, <1>2, <2>1 DEF Innermost
  <2>3. p[1] # t => (Innermost(S2, p) <=> Innermost(S, p))
    BY <1>1, <2>1 DEF Innermost
  <2>4. ~Innermost(S, p) => On(S2, p).step = "in"
    BY <1>1, <2>1 DEF Shape
  <2>5. On(S, p).id # c
    BY <1>1, <1>2, <2>1 DEF Shape
  <2>. QED BY <2>1, <2>2, <2>3, <2>4, <2>5
<1>4. Shape(S2, D)
  <2>1. ASSUME NEW p \in Places(S2)
        PROVE  /\ GoodFrame(On(S2, p)) /\ On(S2, p).id[1] = p[1]
               /\ ~Innermost(S2, p) => On(S2, p).step = "in"
               /\ \A s \in Signals : GoodSend(s, On(S2, p).orig[s])
               /\ \A s \in Ahead(On(S2, p)) : On(S2, p).id \notin ToSet(D[s])
    BY <1>1, <1>3 DEF Shape
  <2>2. ASSUME NEW p \in Places(S2), NEW q \in Places(S2)
        PROVE  /\ On(S2, p).id = On(S2, q).id => p = q
               /\ \A s \in Ahead(On(S2, p)) :
                    On(S2, p).id \notin ToSet(On(S2, q).orig[s])
               /\ p[1] = q[1] /\ p[2] < q[2] =>
                    \A s \in Signals : On(S2, q).id \notin ToSet(On(S2, p).orig[s])
    BY <1>1 DEF Shape
  <2>. QED BY <1>1, <2>1, <2>2 DEF Shape
<1>5. ASSUME Nested(S, D)
      PROVE  Nested(S2, D)
  <2>1. ASSUME NEW x \in Signals, NEW i \in 1 .. Len(D[x])
        PROVE  \E q \in Places(S2) :
                 /\ On(S2, q).id = D[x][i] /\ x \in Put(On(S2, q))
                 /\ IsTail(On(S2, q).orig[x], D[x], i)
    <3>1. PICK q \in Places(S) :
            /\ On(S, q).id = D[x][i] /\ x \in Put(On(S, q))
            /\ IsTail(On(S, q).orig[x], D[x], i)
      BY <1>5, <2>1 DEF Nested
    <3>2. q # top
      BY <1>2, <3>1
    <3>. QED BY <1>1, <3>1, <3>2
  <2>2. \A x \in Signals, q \in Places(S2) :
          x \in Put(On(S2, q)) => On(S2, q).id \in ToSet(D[x])
    BY <1>1, <1>5 DEF Nested
  <2>. QED BY <2>1, <2>2 DEF Nested
<1>6. ASSUME Listening(S, H)
      PROVE  Listening(S2, Heedless(H, c))
  <2>1. ASSUME NEW h \in Heedless(H, c)
        PROVE  \E p \in Places(S2) : Connected(On(S2, p)) /\ h = Handler(On(S2, p).id)
    <3>1. h \in H /\ h.for # c
      BY DEF Heedless
    <3>2. PICK p \in Places(S) : Connected(On(S, p)) /\ h = Handler(On(S, p).id)
      BY <1>6, <3>1 DEF Listening
    <3>3. h.for = On(S, p).id
      BY <3>2 DEF Handler
    <3>4. p # top
      BY <1>2, <3>1, <3>3
    <3>. QED BY <1>1, <3>2, <3>4
  <2>2. ASSUME NEW p \in Places(S2), Connected(On(S2, p))
        PROVE  Handler(On(S2, p).id) \in Heedless(H, c)
    <3>1. Handler(On(S, p).id) \in H /\ On(S2, p) = On(S, p)
      BY <1>1, <1>3, <1>6, <2>2 DEF Listening
    <3>2. Handler(On(S, p).id).for = On(S, p).id
      BY DEF Handler
    <3>. QED BY <1>3, <3>1, <3>2 DEF Heedless
  <2>. QED BY <2>1, <2>2 DEF Listening
<1>7. ASSUME S2[t] # <<>>
      PROVE  Last(S2[t]).step = "in"
  <2>. PICK q : q = <<t, Len(S2[t])>>
    OBVIOUS
  <2>1. S2[t] \in Seq(FrameType) /\ Len(S2[t]) \in Nat \ {0}
    <3>. PICK r : r = S2[t]
      OBVIOUS
    <3>1. r \in Seq(FrameType) /\ r # <<>>
      BY <1>1, <1>7
    <3>. QED BY <3>1
  <2>2. q \in Places(S2) /\ q[1] = t /\ On(S2, q) = Last(S2[t])
    BY <2>1 DEF Places, On, Last
  <2>. QED BY <1>3, <2>2
<1>. QED BY <1>4, <1>5, <1>6, <1>7

-----------------------------------------------------------------------------
(* The names of contexts *)

LEMMA HasLeast ==
  ASSUME NEW S \in SUBSET Nat, S # {}
  PROVE  Min(S) \in S /\ \A x \in S : Min(S) <= x
<1>. PICK R : R = OpToRel(<, Nat)
  OBVIOUS
<1>1. IsWellFoundedOn(R, Nat)
  BY NatLessThanWellFounded
<1>2. PICK m \in S : \A x \in S : <<x, m>> \notin R
  BY <1>1, WFMin
<1>3. \A x \in S : ~(x < m)
  BY <1>2 DEF OpToRel
<1>4. \A x \in S : m <= x
  BY ONLY <1>3, m \in S, S \in SUBSET Nat
<1>. QED BY <1>4 DEF Min

LEMMA ImageFinite ==
  ASSUME NEW I, IsFiniteSet(I), NEW F, F = [i \in I |-> F[i]]
  PROVE  /\ IsFiniteSet({F[i] : i \in I})
         /\ Cardinality({F[i] : i \in I}) <= Cardinality(I)
<1>1. F \in Surjection(I, {F[i] : i \in I})
  BY DEF Surjection
<1>. QED BY <1>1, FS_Surjection

LEMMA UnionFinite ==
  ASSUME NEW I, IsFiniteSet(I), NEW F, F = [i \in I |-> F[i]],
         \A i \in I : IsFiniteSet(F[i])
  PROVE  IsFiniteSet(UNION {F[i] : i \in I})
<1>1. IsFiniteSet({F[i] : i \in I})
  BY ImageFinite
<1>. QED BY <1>1, FS_UNION

LEMMA ToSetFinite ==
  ASSUME NEW T, NEW q \in Seq(T)
  PROVE  IsFiniteSet(ToSet(q)) /\ \A x \in ToSet(q) : \E i \in 1 .. Len(q) : x = q[i]
<1>1. /\ q = [i \in 1 .. Len(q) |-> q[i]] /\ DOMAIN q = 1 .. Len(q)
      /\ 1 \in Int /\ Len(q) \in Int
  OBVIOUS
<1>2. IsFiniteSet(1 .. Len(q))
  BY <1>1, FS_Interval
<1>3. IsFiniteSet({q[i] : i \in 1 .. Len(q)})
  BY <1>1, <1>2, ImageFinite
<1>4. ToSet(q) = {q[i] : i \in 1 .. Len(q)}
  BY <1>1 DEF ToSet
<1>. QED BY <1>3, <1>4

Frames == UNION {ToSet(stack[u]) : u \in Threads}
Looked(d) == UNION {ToSet(d[s]) : s \in Signals}
Names == {f.id : f \in Frames} \cup Looked(sends) \cup (UNION {Looked(f.orig) : f \in Frames})

LEMMA FramesAre ==
  ASSUME Shape(stack, sends)
  PROVE  /\ \A p \in Places(stack) : On(stack, p) \in Frames
         /\ Frames \subseteq FrameType
<1>1. stack \in [Threads -> Seq(FrameType)]
  BY DEF Shape
<1>2. ASSUME NEW p \in Places(stack)
      PROVE  On(stack, p) \in Frames
  <2>1. p[1] \in Threads /\ p[2] \in 1 .. Len(stack[p[1]])
    BY DEF Places
  <2>2. On(stack, p) \in ToSet(stack[p[1]])
    BY <1>1, <2>1 DEF On, ToSet
  <2>. QED BY <2>1, <2>2 DEF Frames
<1>3. ASSUME NEW u \in Threads
      PROVE  ToSet(stack[u]) \subseteq FrameType
  BY <1>1 DEF ToSet
<1>. QED BY <1>2, <1>3 DEF Frames

LEMMA NamesFinite ==
  ASSUME Shape(stack, sends)
  PROVE  IsFiniteSet(Names) /\ Names \subseteq Id
<1>1. /\ stack \in [Threads -> Seq(FrameType)] /\ sends \in [Signals -> Seq(Id)]
      /\ IsFiniteSet(Threads)
  BY ThreadsAssumption DEF Shape
<1>2. IsFiniteSet(Frames)
  <2>. PICK F : F = [u \in Threads |-> ToSet(stack[u])]
    OBVIOUS
  <2>1. F = [u \in Threads |-> F[u]] /\ \A u \in Threads : IsFiniteSet(F[u])
    <3>1. \A u \in Threads : IsFiniteSet(ToSet(stack[u]))
      BY <1>1, ToSetFinite
    <3>. QED BY <3>1
  <2>2. {F[u] : u \in Threads} = {ToSet(stack[u]) : u \in Threads}
    OBVIOUS
  <2>3. IsFiniteSet(UNION {F[u] : u \in Threads})
    BY <1>1, <2>1, UnionFinite
  <2>. QED BY <2>2, <2>3 DEF Frames
<1>3. IsFiniteSet(Signals)
  <2>1. Signals = {"update_data"} \cup {"update_revisions"}
    BY SignalsAre
  <2>. QED BY <2>1, FS_Singleton, FS_Union
<1>4. ASSUME NEW d \in [Signals -> Seq(Id)]
      PROVE  IsFiniteSet(Looked(d)) /\ Looked(d) \subseteq Id
  <2>. PICK F : F = [s \in Signals |-> ToSet(d[s])]
    OBVIOUS
  <2>1. F = [s \in Signals |-> F[s]] /\ \A s \in Signals : IsFiniteSet(F[s])
    <3>1. \A s \in Signals : IsFiniteSet(ToSet(d[s]))
      BY ToSetFinite
    <3>. QED BY <3>1
  <2>2. {F[s] : s \in Signals} = {ToSet(d[s]) : s \in Signals}
    OBVIOUS
  <2>3. IsFiniteSet(UNION {F[s] : s \in Signals})
    BY <1>3, <2>1, UnionFinite
  <2>4. \A s \in Signals : ToSet(d[s]) \subseteq Id
    BY DEF ToSet
  <2>. QED BY <2>2, <2>3, <2>4 DEF Looked
<1>5. IsFiniteSet({f.id : f \in Frames})
  <2>. PICK F : F = [f \in Frames |-> f.id]
    OBVIOUS
  <2>1. F = [f \in Frames |-> F[f]]
    OBVIOUS
  <2>2. {F[f] : f \in Frames} = {f.id : f \in Frames}
    OBVIOUS
  <2>. QED BY <1>2, <2>1, <2>2, ImageFinite
<1>6. IsFiniteSet(UNION {Looked(f.orig) : f \in Frames})
  <2>. PICK F : F = [f \in Frames |-> Looked(f.orig)]
    OBVIOUS
  <2>1. F = [f \in Frames |-> F[f]]
    OBVIOUS
  <2>2. \A f \in Frames : IsFiniteSet(F[f])
    <3>1. \A f \in Frames : f.orig \in [Signals -> Seq(Id)]
      BY FramesAre DEF FrameType
    <3>. QED BY <1>4, <3>1
  <2>3. {F[f] : f \in Frames} = {Looked(f.orig) : f \in Frames}
    OBVIOUS
  <2>. QED BY <1>2, <2>1, <2>2, <2>3, UnionFinite
<1>7. IsFiniteSet(Names)
  BY <1>1, <1>4, <1>5, <1>6, FS_Union DEF Names
<1>8. Names \subseteq Id
  <2>1. \A f \in Frames : f.id \in Id /\ f.orig \in [Signals -> Seq(Id)]
    BY FramesAre DEF FrameType
  <2>. QED BY <1>1, <1>4, <2>1 DEF Names
<1>. QED BY <1>7, <1>8

\* The number of a context that a thread enters is not that of any other of its
\* contexts which a function is left of.
LEMMA Fresh ==
  ASSUME NEW t \in Threads, Shape(stack, sends)
  PROVE  /\ Unused(t) \in Nat
         /\ \A c \in Names : c[2] # Unused(t)
<1>. PICK left, U, n : left = Names /\ U = {c[2] : c \in left} /\ n = Cardinality(left)
  OBVIOUS
<1>1. IsFiniteSet(left) /\ n \in Nat
  BY NamesFinite, FS_CardinalityType
<1>2. IsFiniteSet(U) /\ Cardinality(U) <= n
  <2>. PICK F : F = [c \in left |-> c[2]]
    OBVIOUS
  <2>1. F = [c \in left |-> F[c]] /\ {F[c] : c \in left} = U
    OBVIOUS
  <2>. QED BY <1>1, <2>1, ImageFinite
<1>3. (1 .. n + 1) \ U # {}
  <2>. SUFFICES ASSUME (1 .. n + 1) \in SUBSET U
                PROVE  FALSE
    OBVIOUS
  <2>1. Cardinality(1 .. n + 1) = n + 1
    BY <1>1, FS_Interval
  <2>2. Cardinality(1 .. n + 1) <= Cardinality(U)
    BY <1>2, FS_Subset
  <2>3. Cardinality(U) \in Nat
    BY <1>2, FS_CardinalityType
  <2>. QED BY <1>1, <1>2, <2>1, <2>2, <2>3
<1>. PICK R : R = (1 .. n + 1) \ U
  OBVIOUS
<1>4. R \in SUBSET Nat /\ R # {}
  BY <1>1, <1>3
<1>5. Min(R) \in R
  BY <1>4, HasLeast
<1>6. Unused(t) = Min(R)
  BY DEF Unused, Names, Frames, Looked
<1>. QED BY <1>4, <1>5, <1>6

-----------------------------------------------------------------------------
(* What the actions do to stacks *)

LEMMA FrameIsNew ==
  ASSUME NEW t \in Threads, Shape(stack, sends), NEW S, NEW kind \in Kinds,
         NEW due \in SUBSET Events,
         \A p \in Places(S) : /\ p \in Places(stack)
                              /\ On(S, p).id = On(stack, p).id
                              /\ On(S, p).orig = On(stack, p).orig
  PROVE  /\ New(S, sends, t, Frame(t, kind, due)) /\ ~Connected(Frame(t, kind, due))
         /\ Kind(Frame(t, kind, due).id) = kind
<1>. PICK g, c : g = Frame(t, kind, due) /\ c = <<t, Unused(t), kind>>
  OBVIOUS
<1>. PICK none, q : none = [s \in Signals |-> <<>>] /\ q = Holds[kind]
  OBVIOUS
<1>1. /\ g = [id |-> c, step |-> "save", signals |-> q, orig |-> none,
              due |-> due, heard |-> {}]
  BY DEF Frame
<1>2. /\ c \in Id /\ c[1] = t /\ c[2] = Unused(t) /\ Kind(c) = kind
  BY Fresh DEF Id, Kind
<1>3. c \notin Names
  BY <1>2, Fresh
<1>4. /\ q \in Lists /\ ToSet(q) = Held(c) /\ q # <<>>
  BY <1>2, HeldFacts DEF Held
<1>5. /\ none \in [Signals -> Seq(Id)] /\ \A s \in Signals : none[s] = <<>>
  OBVIOUS
<1>6. /\ g.id = c /\ g.step = "save" /\ g.signals = q /\ g.orig = none
      /\ g.due = due /\ g.heard = {}
  BY <1>1
<1>7. g \in FrameType
  BY <1>1, <1>2, <1>4, <1>5 DEF FrameType, Steps
<1>8. /\ ~Ending(g) /\ Installing(g) /\ ~Connected(g)
  BY <1>6 DEF Ending, Installing, Connected
<1>9. GoodFrame(g) /\ Put(g) = {}
  BY <1>4, <1>5, <1>6, <1>7, <1>8, ToSetsAre DEF GoodFrame, Put
<1>10. ASSUME NEW s \in Signals
       PROVE  c \notin ToSet(sends[s])
  BY <1>3 DEF Names, Looked
<1>11. ASSUME NEW p \in Places(S)
       PROVE  /\ c # On(S, p).id
              /\ \A s \in Signals : c \notin ToSet(On(S, p).orig[s])
  <2>1. On(stack, p) \in Frames
    BY FramesAre
  <2>2. On(stack, p).id \in Names
    BY <2>1 DEF Names
  <2>3. \A s \in Signals : ToSet(On(stack, p).orig[s]) \subseteq Names
    BY <2>1 DEF Names, Looked
  <2>. QED BY <1>3, <2>2, <2>3
<1>. QED BY <1>2, <1>5, <1>6, <1>8, <1>9, <1>10, <1>11 DEF New

\* The innermost context of t becomes g, which is in place of the same.
LEMMA RetopAlike ==
  ASSUME NEW S, NEW D, NEW H, Shape(S, D), NEW t \in Threads, S[t] # <<>>, NEW g,
         GoodFrame(g), Alike(Last(S[t]), g)
  PROVE  /\ Shape(Put_top(S, t, g), D)
         /\ Nested(S, D) => Nested(Put_top(S, t, g), D)
         /\ (Connected(g) <=> Connected(Last(S[t]))) /\ Listening(S, H)
              => Listening(Put_top(S, t, g), H)
         /\ Inside(S) => Inside(Put_top(S, t, g))
         /\ Put_top(S, t, g)[t] # <<>> /\ Last(Put_top(S, t, g)[t]) = g
<1>. PICK S2, top, f : S2 = Put_top(S, t, g) /\ top = TopPlace(S, t) /\ f = Last(S[t])
  OBVIOUS
<1>0. S \in [Threads -> Seq(FrameType)] /\ g \in FrameType /\ t \in Threads
      /\ S[t] # <<>>
  BY DEF Shape, GoodFrame
<1>1. /\ Moved(S, S2) /\ top \in Places(S) /\ Innermost(S, top)
      /\ \A p \in Places(S) : On(S2, p) = IF p = top THEN g ELSE On(S, p)
      /\ Len(S2[t]) = Len(S[t])
  BY ONLY <1>0, PutIs, S2 = Put_top(S, t, g), top = TopPlace(S, t)
<1>2. On(S, top) = f /\ top[1] = t /\ top[2] = Len(S[t])
  BY DEF TopPlace, On, Last
<1>3. ASSUME NEW p \in Places(S)
      PROVE  /\ GoodFrame(On(S2, p)) /\ Alike(On(S, p), On(S2, p))
             /\ ~Innermost(S, p) => On(S2, p).step = "in"
  <2>1. CASE p = top
    BY <1>1, <1>2, <2>1
  <2>2. CASE p # top
    BY <1>1, <2>2 DEF Shape, Alike
  <2>. QED BY <2>1, <2>2
<1>4. Shape(S2, D) /\ (Nested(S, D) => Nested(S2, D))
  BY <1>1, <1>3, AlikeShape
<1>5. Places(S2) = Places(S)
  BY <1>1 DEF Moved
<1>6. ASSUME (Connected(g) <=> Connected(f)), Listening(S, H)
      PROVE  Listening(S2, H)
  <2>1. ASSUME NEW p \in Places(S)
        PROVE  On(S2, p).id = On(S, p).id /\ (Connected(On(S2, p)) <=> Connected(On(S, p)))
    BY <1>1, <1>2, <1>3, <1>6 DEF Alike
  <2>. QED BY <1>5, <1>6, <2>1 DEF Listening
<1>7. Inside(S) => Inside(S2)
  BY <1>3, <1>5 DEF Inside, Alike
<1>8. S2[t] # <<>> /\ Last(S2[t]) = g
  <2>1. On(S2, top) = g
    BY <1>1
  <2>2. top \in Places(S2)
    BY <1>1, <1>5
  <2>3. S2[t] # <<>>
    <3>. PICK r, n : r = S2[t] /\ n = Len(S2[t])
      OBVIOUS
    <3>1. n \in Nat \ {0}
      BY <1>0, <1>1, EmptySeq
    <3>2. Len(<<>>) = 0
      OBVIOUS
    <3>. QED BY <3>1, <3>2
  <2>. QED BY <1>1, <1>2, <2>1, <2>3 DEF On, Last
<1>. QED BY <1>4, <1>6, <1>7, <1>8

\* A Store, or what was held back, is sent: contexts hear of it.
Told(S, t, e) ==
  [u \in Threads |-> [i \in DOMAIN S[u] |->
     [S[u][i] EXCEPT !.heard = @ \cup Heard(t, e, S[u][i].id)]]]
LEMMA TellShape ==
  ASSUME NEW S, NEW D, NEW H, Shape(S, D), NEW t, NEW e \in Events
  PROVE  /\ Shape(Told(S, t, e), D)
         /\ Nested(S, D) => Nested(Told(S, t, e), D)
         /\ Listening(S, H) => Listening(Told(S, t, e), H)
         /\ Inside(S) => Inside(Told(S, t, e))
<1>. PICK S2 : S2 = Told(S, t, e)
  OBVIOUS
<1>0. S \in [Threads -> Seq(FrameType)]
  BY DEF Shape
<1>1. \A c : Heard(t, e, c) \subseteq Events
  BY DEF Heard, Sent
<1>2. ASSUME NEW u \in Threads
      PROVE  /\ S2[u] \in Seq(FrameType) /\ Len(S2[u]) = Len(S[u])
             /\ \A i \in 1 .. Len(S[u]) : \E new \in SUBSET Events :
                  S2[u][i] = [S[u][i] EXCEPT !.heard = new]
  <2>. PICK q, r : q = S[u] /\ r = S2[u]
    OBVIOUS
  <2>1. q \in Seq(FrameType) /\ DOMAIN q = 1 .. Len(q) /\ Len(q) \in Nat
    BY <1>0
  <2>2. r = [i \in 1 .. Len(q) |->
               [q[i] EXCEPT !.heard = q[i].heard \cup Heard(t, e, q[i].id)]]
    BY <2>1 DEF Told
  <2>3. ASSUME NEW i \in 1 .. Len(q)
        PROVE  /\ r[i] \in FrameType
               /\ \E new \in SUBSET Events : r[i] = [q[i] EXCEPT !.heard = new]
    <3>0. q[i] \in FrameType
      BY <2>1
    <3>1. q[i].heard \in SUBSET Events
      BY <3>0 DEF FrameType
    <3>. PICK new : new = q[i].heard \cup Heard(t, e, q[i].id)
      OBVIOUS
    <3>2. new \in SUBSET Events /\ r[i] = [q[i] EXCEPT !.heard = new]
      BY <1>1, <2>2, <3>1
    <3>. QED BY <3>0, <3>2 DEF FrameType
  <2>4. r \in Seq(FrameType) /\ Len(r) = Len(q)
    <3>1. r \in [1 .. Len(q) -> FrameType]
      BY <2>2, <2>3
    <3>2. r \in Seq(FrameType) /\ DOMAIN r = 1 .. Len(q)
      BY ONLY <2>1, <3>1, SeqDef
    <3>. QED BY ONLY <2>1, <3>2, LenProperties
  <2>. QED BY <2>3, <2>4
<1>3. S2 = [u \in Threads |-> S2[u]]
  BY DEF Told
<1>4. S2 \in [Threads -> Seq(FrameType)]
  BY <1>2, <1>3
<1>5. Places(S2) = Places(S)
  BY <1>2 DEF Places
<1>6. ASSUME NEW p \in Places(S)
      PROVE  /\ Innermost(S2, p) <=> Innermost(S, p)
             /\ On(S2, p).id = On(S, p).id /\ On(S2, p).orig = On(S, p).orig
             /\ On(S2, p).step = On(S, p).step
             /\ On(S2, p).signals = On(S, p).signals /\ On(S2, p) \in FrameType
  <2>1. p[1] \in Threads /\ p[2] \in 1 .. Len(S[p[1]])
    BY DEF Places
  <2>2. On(S, p) \in FrameType
    BY ShapeFacts
  <2>3. PICK new \in SUBSET Events : On(S2, p) = [On(S, p) EXCEPT !.heard = new]
    BY <1>2, <2>1 DEF On
  <2>4. Innermost(S2, p) <=> Innermost(S, p)
    BY <1>2, <2>1 DEF Innermost
  <2>. QED BY <2>2, <2>3, <2>4 DEF FrameType
<1>7. ASSUME NEW p \in Places(S)
      PROVE  /\ GoodFrame(On(S2, p)) /\ Alike(On(S, p), On(S2, p))
             /\ ~Innermost(S, p) => On(S2, p).step = "in"
             /\ (Connected(On(S2, p)) <=> Connected(On(S, p)))
  <2>1. GoodFrame(On(S, p)) /\ (~Innermost(S, p) => On(S, p).step = "in")
    BY DEF Shape
  <2>2. /\ Installing(On(S2, p)) = Installing(On(S, p))
        /\ Ending(On(S2, p)) = Ending(On(S, p))
    BY <1>6 DEF Installing, Ending
  <2>3. GoodFrame(On(S2, p))
    BY <1>6, <2>1, <2>2 DEF GoodFrame
  <2>. QED BY <1>6, <2>1, <2>2, <2>3 DEF Alike, Put, Ahead, Connected
<1>8. Shape(S2, D) /\ (Nested(S, D) => Nested(S2, D))
  <2>1. Moved(S, S2)
    BY <1>4, <1>5, <1>6 DEF Moved
  <2>. QED BY <1>7, <2>1, AlikeShape
<1>9. Listening(S, H) => Listening(S2, H)
  BY <1>5, <1>6, <1>7 DEF Listening
<1>10. Inside(S) => Inside(S2)
  BY <1>5, <1>6 DEF Inside
<1>. QED BY <1>8, <1>9, <1>10

\* The innermost context of t that is in the place of a signal is the first that
\* t sends it to.
LEMMA PlaceTop ==
  ASSUME NEW t \in Threads, Shape(stack, sends), Nested(stack, sends), ~Outside(t),
         NEW e \in Events, e[1] \in Put(Top(t)), HoldsFrom(Kind(Top(t).id), e[2])
  PROVE  Place(t, e) = Top(t).id
<1>. PICK s, q, c : s = e[1] /\ q = sends[e[1]] /\ c = Top(t).id
  OBVIOUS
<1>. PICK top : top = TopPlace(stack, t)
  OBVIOUS
<1>1. /\ stack \in [Threads -> Seq(FrameType)] /\ s \in Signals
      /\ q \in Seq(Id) /\ IsInjective(q) /\ DOMAIN q = 1 .. Len(q) /\ Len(q) \in Nat
  BY DEF Shape, GoodSend, Signals
<1>2. /\ top \in Places(stack) /\ On(stack, top) = Top(t) /\ top[1] = t
      /\ top[2] = Len(stack[t])
  <2>1. stack[t] # <<>>
    BY DEF Outside
  <2>2. top \in Places(stack)
    BY <1>1, <2>1, PopIs
  <2>. QED BY <2>2 DEF TopPlace, On, Top, Last
<1>3. c \in Id /\ c[1] = t
  BY <1>2, ShapeFacts
<1>4. PICK j \in 1 .. Len(q) : q[j] = c
  <2>1. c \in ToSet(q)
    BY <1>1, <1>2 DEF Nested
  <2>. QED BY <1>1, <2>1 DEF ToSet
<1>. PICK own : own = {i \in DOMAIN q : q[i][1] = t /\ HoldsFrom(Kind(q[i]), e[2])}
  OBVIOUS
<1>5. j \in own /\ own \in SUBSET Nat
  BY <1>1, <1>3, <1>4
<1>6. ASSUME NEW i \in own, i < j
      PROVE  FALSE
  <2>1. i \in 1 .. Len(q) /\ q[i][1] = t
    BY <1>1
  <2>2. PICK p \in Places(stack) :
          /\ On(stack, p).id = q[i] /\ IsTail(On(stack, p).orig[s], q, i)
    BY <1>1, <2>1 DEF Nested
  <2>. PICK o : o = On(stack, p).orig[s]
    OBVIOUS
  <2>3. c \in ToSet(o)
    <3>1. o \in Seq(Id)
      BY <1>1, ShapeFacts
    <3>2. j - i \in 1 .. Len(o) /\ i + (j - i) = j
      BY <1>1, <1>4, <1>6, <2>1, <2>2, <3>1 DEF IsTail
    <3>3. o[j - i] = c
      BY <1>4, <2>2, <3>2 DEF IsTail
    <3>. QED BY <3>1, <3>2, <3>3 DEF ToSet
  <2>4. p # top
    BY <1>1, <1>2, <2>3, ShapeFacts
  <2>5. p[1] = t /\ p[2] \in 1 .. Len(stack[t]) /\ p = <<p[1], p[2]>>
    BY <2>1, <2>2, ShapeFacts
  <2>6. p[2] < top[2]
    BY <1>1, <1>2, <2>4, <2>5 DEF TopPlace
  <2>. QED BY <1>1, <1>2, <2>3, <2>5, <2>6 DEF Shape
<1>7. Min(own) = j
  <2>1. Min(own) \in own /\ Min(own) <= j
    BY <1>5, HasLeast
  <2>2. ~(Min(own) < j)
    BY <1>6, <2>1
  <2>. QED BY <1>5, <2>1, <2>2
<1>. QED BY <1>4, <1>5, <1>7 DEF Place

LEMMA TopFacts ==
  ASSUME NEW t \in Threads, Shape(stack, sends), ~Outside(t)
  PROVE  /\ stack \in [Threads -> Seq(FrameType)] /\ sends \in [Signals -> Seq(Id)]
         /\ stack[t] # <<>> /\ Last(stack[t]) = Top(t)
         /\ TopPlace(stack, t) \in Places(stack)
         /\ On(stack, TopPlace(stack, t)) = Top(t)
         /\ GoodFrame(Top(t)) /\ Top(t) \in FrameType
         /\ Top(t).id \in Id /\ Top(t).id[1] = t /\ Kind(Top(t).id) \in Kinds
         /\ Top(t).orig \in [Signals -> Seq(Id)] /\ Top(t).signals \in Lists
         /\ Put(Top(t)) \subseteq Signals
<1>1. /\ stack \in [Threads -> Seq(FrameType)] /\ sends \in [Signals -> Seq(Id)]
      /\ stack[t] # <<>> /\ Last(stack[t]) = Top(t)
  BY DEF Shape, Outside, Top
<1>. PICK p : p = TopPlace(stack, t)
  OBVIOUS
<1>2. p \in Places(stack)
  BY <1>1, PopIs
<1>3. On(stack, p) = Top(t) /\ p[1] = t
  BY <1>1 DEF TopPlace, On, Last
<1>4. /\ GoodFrame(Top(t)) /\ Top(t) \in FrameType
      /\ Top(t).id \in Id /\ Top(t).id[1] = t
      /\ Top(t).orig \in [Signals -> Seq(Id)] /\ Put(Top(t)) \subseteq Signals
  BY <1>2, <1>3, ShapeFacts
<1>5. Top(t).signals \in Lists
  BY <1>4 DEF FrameType
<1>6. Kind(Top(t).id) \in Kinds
  BY <1>4 DEF Id, Kind
<1>. QED BY <1>1, <1>2, <1>3, <1>4, <1>5, <1>6

\* The innermost context of t becomes g, of the same name: what is connected.
LEMMA RetopHears ==
  ASSUME NEW S \in [Threads -> Seq(FrameType)], NEW H, NEW t \in Threads,
         S[t] # <<>>, NEW g \in FrameType, g.id = Last(S[t]).id
  PROVE  /\ (Connected(g) <=> Connected(Last(S[t]))) /\ Listening(S, H)
              => Listening(Put_top(S, t, g), H)
         /\ Connected(g) /\ Listening(S, H)
              => Listening(Put_top(S, t, g), H \cup {Handler(g.id)})
         /\ Inside(S) => Inside(Put_top(S, t, g))
<1>. PICK S2, top, f : S2 = Put_top(S, t, g) /\ top = TopPlace(S, t) /\ f = Last(S[t])
  OBVIOUS
<1>0. S \in [Threads -> Seq(FrameType)] /\ g \in FrameType /\ t \in Threads
      /\ S[t] # <<>>
  OBVIOUS
<1>1. /\ Moved(S, S2) /\ top \in Places(S)
      /\ \A p \in Places(S) : On(S2, p) = IF p = top THEN g ELSE On(S, p)
  BY ONLY <1>0, PutIs, S2 = Put_top(S, t, g), top = TopPlace(S, t)
<1>2. On(S, top) = f /\ Places(S2) = Places(S) /\ On(S2, top) = g
  BY <1>1 DEF TopPlace, On, Last, Moved
<1>3. \A p \in Places(S) : On(S2, p).id = On(S, p).id
  BY <1>1, <1>2
<1>4. ASSUME (Connected(g) <=> Connected(f)), Listening(S, H)
      PROVE  Listening(S2, H)
  <2>1. ASSUME NEW p \in Places(S)
        PROVE  (Connected(On(S2, p)) <=> Connected(On(S, p)))
    BY <1>1, <1>2, <1>4
  <2>. QED BY <1>2, <1>3, <1>4, <2>1 DEF Listening
<1>5. ASSUME Connected(g), Listening(S, H)
      PROVE  Listening(S2, H \cup {Handler(g.id)})
  <2>1. ASSUME NEW h \in H \cup {Handler(g.id)}
        PROVE  \E p \in Places(S2) : Connected(On(S2, p)) /\ h = Handler(On(S2, p).id)
    <3>1. CASE h = Handler(g.id)
      BY <1>1, <1>2, <1>5, <3>1
    <3>2. CASE h \in H
      <4>1. PICK p \in Places(S) : Connected(On(S, p)) /\ h = Handler(On(S, p).id)
        BY <1>5, <3>2 DEF Listening
      <4>2. Connected(On(S2, p)) /\ On(S2, p).id = On(S, p).id
        BY <1>1, <1>3, <1>5, <4>1
      <4>. QED BY <1>2, <4>1, <4>2
    <3>. QED BY <3>1, <3>2
  <2>2. ASSUME NEW p \in Places(S2), Connected(On(S2, p))
        PROVE  Handler(On(S2, p).id) \in H \cup {Handler(g.id)}
    BY <1>1, <1>2, <1>5, <2>2 DEF Listening
  <2>. QED BY <2>1, <2>2 DEF Listening
<1>6. Inside(S) => Inside(S2)
  BY <1>2, <1>3 DEF Inside
<1>. QED BY <1>4, <1>5, <1>6

LEMMA PushInside ==
  ASSUME NEW S \in [Threads -> Seq(FrameType)], NEW t \in Threads, NEW g \in FrameType,
         Inside(S), Kind(g.id) = "tp_stores" => S[t] # <<>>
  PROVE  Inside(Push(S, t, g))
<1>. PICK S2, top : S2 = Push(S, t, g) /\ top = TopPlace(Push(S, t, g), t)
  OBVIOUS
<1>0. S \in [Threads -> Seq(FrameType)] /\ g \in FrameType /\ t \in Threads
  OBVIOUS
<1>1. /\ Places(S2) = Places(S) \cup {top} /\ On(S2, top) = g
      /\ \A p \in Places(S) : On(S2, p) = On(S, p)
      /\ Len(S2[t]) = Len(S[t]) + 1
  BY ONLY <1>0, PushIs, S2 = Push(S, t, g), top = TopPlace(Push(S, t, g), t)
<1>2. top[2] = Len(S[t]) + 1
  BY <1>1 DEF TopPlace
<1>3. S[t] # <<>> => Len(S[t]) \in Nat \ {0}
  BY <1>0, EmptySeq
<1>4. ASSUME NEW p \in Places(S2), Kind(On(S2, p).id) = "tp_stores"
      PROVE  p[2] > 1
  <2>1. CASE p = top
    BY <1>1, <1>2, <1>3, <1>4, <2>1
  <2>2. CASE p \in Places(S)
    BY <1>1, <1>4, <2>2 DEF Inside
  <2>. QED BY <1>1, <2>1, <2>2
<1>. QED BY <1>4 DEF Inside

LEMMA PopInside ==
  ASSUME NEW S \in [Threads -> Seq(FrameType)], NEW t \in Threads, S[t] # <<>>,
         Inside(S)
  PROVE  /\ Inside(Pop(S, t)) /\ Pop(S, t) \in [Threads -> Seq(FrameType)]
         /\ \A p \in Places(Pop(S, t)) :
              p \in Places(S) /\ On(Pop(S, t), p) = On(S, p)
<1>1. /\ Places(Pop(S, t)) \subseteq Places(S)
      /\ \A p \in Places(Pop(S, t)) : On(Pop(S, t), p) = On(S, p)
      /\ Pop(S, t) \in [Threads -> Seq(FrameType)]
  BY PopIs
<1>. QED BY <1>1 DEF Inside

\* A context that goes on with its methods is in their place until it puts back
\* what it has found.
LEMMA LeavingIs ==
  ASSUME NEW f, GoodFrame(f), f.step = "in", NEW step \in {"restore", "unwind"}
  PROVE  /\ GoodFrame(Leaving(f, step)) /\ Alike(f, Leaving(f, step))
         /\ (Connected(Leaving(f, step)) <=> Connected(f)) /\ Connected(f)
<1>. PICK g, q : g = Leaving(f, step) /\ q = Reverse(Holds[Kind(f.id)])
  OBVIOUS
<1>1. f \in FrameType /\ f.id \in Id /\ ~Ending(f) /\ ~Installing(f) /\ f.signals = <<>>
  <2>1. f \in FrameType /\ ~Ending(f) /\ ~Installing(f)
    BY DEF GoodFrame, Ending, Installing
  <2>. QED BY <2>1 DEF GoodFrame, FrameType
<1>2. q \in Lists /\ ToSet(q) = Held(f.id)
  BY <1>1, HeldFacts
<1>3. g = [f EXCEPT !.step = step, !.signals = q]
  BY DEF Leaving
<1>4. /\ g.id = f.id /\ g.step = step /\ g.signals = q /\ g.orig = f.orig
      /\ g \in FrameType
  BY <1>1, <1>2, <1>3 DEF FrameType, Steps
<1>5. Ending(g) /\ ~Installing(g) /\ Connected(g) /\ Connected(f)
  BY <1>4 DEF Ending, Installing, Connected
<1>6. GoodFrame(g)
  BY <1>2, <1>4, <1>5 DEF GoodFrame
<1>7. Put(g) = Put(f) /\ Ahead(g) = Ahead(f)
  BY <1>1, <1>2, <1>4, <1>5, ToSetsAre DEF Put, Ahead
<1>. QED BY <1>4, <1>5, <1>6, <1>7 DEF Alike

-----------------------------------------------------------------------------
(* Structured is inductive *)

LEMMA InitStructured == Init => Structured
<1>. SUFFICES ASSUME Init PROVE Structured
  OBVIOUS
<1>1. /\ sends = [s \in Signals |-> <<>>] /\ stack = [t \in Threads |-> <<>>]
      /\ handlers = {} /\ faults = {} /\ undone = [t \in Threads |-> {}]
  BY DEF Init
<1>2. /\ stack \in [Threads -> Seq(FrameType)] /\ sends \in [Signals -> Seq(Id)]
      /\ Places(stack) = {} /\ \A s \in Signals : sends[s] = <<>>
  <2>1. \A t \in Threads : stack[t] = <<>>
    BY <1>1
  <2>2. Places(stack) = {}
    BY <2>1 DEF Places
  <2>. QED BY <1>1, <2>2
<1>3. \A s \in Signals : GoodSend(s, sends[s])
  BY <1>2, ToSetsAre DEF GoodSend, IsInjective
<1>4. Nested(stack, sends) /\ Listening(stack, handlers)
  BY <1>1, <1>2 DEF Nested, Listening
<1>. QED BY <1>1, <1>2, <1>3, <1>4 DEF Structured, Shape, Inside

LEMMA SaveStructured ==
  ASSUME NEW t \in Threads, Structured, Save(t)
  PROVE  Structured'
<1>. PICK f, s : f = Top(t) /\ s = Head(Top(t).signals)
  OBVIOUS
<1>. PICK g, p : /\ g = [f EXCEPT !.orig[s] = sends[s], !.step = "install"]
                 /\ p = TopPlace(stack, t)
  OBVIOUS
<1>1. /\ Shape(stack, sends) /\ Inside(stack) /\ ~Outside(t) /\ f.step = "save"
      /\ stack' = Put_top(stack, t, g)
  BY DEF Structured, Save, At, WithTop, Put_top
<1>2. /\ stack \in [Threads -> Seq(FrameType)] /\ sends \in [Signals -> Seq(Id)]
      /\ stack[t] # <<>> /\ Last(stack[t]) = f
      /\ p \in Places(stack) /\ On(stack, p) = f /\ GoodFrame(f) /\ f \in FrameType
      /\ f.orig \in [Signals -> Seq(Id)] /\ f.signals \in Lists /\ f.id \in Id
  BY <1>1, TopFacts
<1>3. Installing(f) /\ ~Ending(f) /\ ~Connected(f) /\ f.signals # <<>>
  BY <1>1, <1>2 DEF GoodFrame, Installing, Ending, Connected
<1>4. s \in ToSet(f.signals) /\ ToSet(f.signals) \subseteq Signals
  BY <1>2, <1>3, ListFacts
<1>5. /\ g.id = f.id /\ g.step = "install" /\ g.signals = f.signals
      /\ g.orig = [f.orig EXCEPT ![s] = sends[s]] /\ g \in FrameType
  BY <1>2, <1>4 DEF FrameType, Steps
<1>6. Installing(g) /\ ~Ending(g) /\ ~Connected(g)
  BY <1>5 DEF Installing, Ending, Connected
<1>7. /\ s \in Ahead(f) /\ Put(g) = Put(f) /\ Ahead(g) = Ahead(f)
  BY <1>3, <1>4, <1>5, <1>6 DEF Ahead, Put
<1>8. GoodFrame(g)
  <2>1. f.id \notin ToSet(sends[s])
    BY <1>1, <1>2, <1>7 DEF Shape
  <2>2. \A x \in Signals : g.orig[x] = f.orig[x] \/ g.orig[x] = sends[s]
    BY <1>2, <1>4, <1>5
  <2>3. \A x \in Signals : g.id \notin ToSet(g.orig[x])
    BY <1>2, <1>5, <2>1, <2>2 DEF GoodFrame
  <2>. QED BY <1>2, <1>3, <1>5, <1>6, <2>3 DEF GoodFrame
<1>9. Retop(stack, stack', p, g)
  <2>1. t \in Threads
    OBVIOUS
  <2>2. /\ Moved(stack, stack') /\ Innermost(stack, p)
        /\ \A q \in Places(stack) : On(stack', q) = IF q = p THEN g ELSE On(stack, q)
    BY ONLY <1>1, <1>2, <1>5, <2>1, PutIs, p = TopPlace(stack, t)
  <2>. QED BY <1>2, <1>8, <2>2 DEF Retop
<1>10. Shape(stack', sends) /\ (Nested(stack, sends) => Nested(stack', sends))
  <2>1. /\ Shape(stack, sends) /\ Retop(stack, stack', p, g)
        /\ s \in Ahead(On(stack, p)) /\ g.id = On(stack, p).id
        /\ g.orig = [On(stack, p).orig EXCEPT ![s] = sends[s]]
        /\ Put(g) = Put(On(stack, p)) /\ Ahead(g) = Ahead(On(stack, p))
    BY <1>1, <1>2, <1>5, <1>7, <1>9
  <2>. QED BY ONLY <2>1, SaveShape
<1>11. /\ Inside(stack')
       /\ Listening(stack, handlers) => Listening(stack', handlers)
  <2>1. /\ stack \in [Threads -> Seq(FrameType)] /\ t \in Threads /\ stack[t] # <<>>
        /\ g \in FrameType /\ g.id = Last(stack[t]).id
        /\ (Connected(g) <=> Connected(Last(stack[t]))) /\ Inside(stack)
    BY <1>1, <1>2, <1>3, <1>5, <1>6
  <2>2. /\ Inside(Put_top(stack, t, g))
        /\ Listening(stack, handlers) => Listening(Put_top(stack, t, g), handlers)
    BY ONLY <2>1, RetopHears
  <2>. QED BY <1>1, <2>2
<1>12. sends' = sends /\ handlers' = handlers /\ faults' = faults /\ undone' = undone
  BY DEF Save
<1>. QED BY <1>10, <1>11, <1>12 DEF Structured, Apart

LEMMA InstallStructured ==
  ASSUME NEW t \in Threads, Structured, Install(t)
  PROVE  Structured'
<1>. PICK f, s, others : /\ f = Top(t) /\ s = Head(Top(t).signals)
                         /\ others = Tail(Top(t).signals)
  OBVIOUS
<1>. PICK g, p : /\ g = [f EXCEPT !.signals = others,
                           !.step = IF others = <<>> THEN "connect" ELSE "save"]
                 /\ p = TopPlace(stack, t)
  OBVIOUS
<1>1. /\ Shape(stack, sends) /\ Inside(stack) /\ ~Outside(t) /\ f.step = "install"
      /\ stack' = Put_top(stack, t, g)
      /\ sends' = [sends EXCEPT ![s] = <<f.id>> \o f.orig[s]]
      /\ faults' = Crossing(sends[s] # f.orig[s])
      /\ handlers' = handlers /\ undone' = undone
  BY DEF Structured, Install, At, WithTop, Put_top
<1>2. /\ stack \in [Threads -> Seq(FrameType)] /\ sends \in [Signals -> Seq(Id)]
      /\ stack[t] # <<>> /\ Last(stack[t]) = f
      /\ p \in Places(stack) /\ On(stack, p) = f /\ GoodFrame(f) /\ f \in FrameType
      /\ f.orig \in [Signals -> Seq(Id)] /\ f.signals \in Lists /\ f.id \in Id
  BY <1>1, TopFacts
<1>3. Installing(f) /\ ~Ending(f) /\ ~Connected(f) /\ f.signals # <<>>
  BY <1>1, <1>2 DEF GoodFrame, Installing, Ending, Connected
<1>4. /\ s \in ToSet(f.signals) /\ ToSet(f.signals) \subseteq Signals
      /\ others \in Lists /\ ToSet(others) = ToSet(f.signals) \ {s}
      /\ others = <<>> <=> ToSet(others) = {}
  <2>1. others \in Lists
    BY <1>2, <1>3, ListFacts
  <2>. QED BY <1>2, <1>3, <2>1, ListFacts
<1>5. /\ g.id = f.id /\ g.signals = others /\ g.orig = f.orig
      /\ g.step = IF others = <<>> THEN "connect" ELSE "save"
      /\ g \in FrameType
  BY <1>2, <1>4 DEF FrameType, Steps
<1>6. /\ Installing(g) <=> others # <<>> /\ ~Ending(g) /\ ~Connected(g)
  BY <1>5 DEF Installing, Ending, Connected
<1>7. /\ s \in Ahead(f) /\ Put(g) = Put(f) \cup {s} /\ Ahead(g) = Ahead(f) \ {s}
  <2>1. ToSet(f.signals) \subseteq Held(f.id) /\ ~Ending(g)
    BY <1>2, <1>5 DEF GoodFrame, Ending
  <2>2. Put(g) = Put(f) \cup {s}
    BY <1>3, <1>4, <1>5, <2>1 DEF Put
  <2>3. Ahead(g) = ToSet(others)
    BY <1>4, <1>5 DEF Ahead, Installing
  <2>. QED BY <1>3, <1>4, <2>2, <2>3 DEF Ahead
<1>8. GoodFrame(g) /\ ~Ending(g) /\ ~Connected(g)
  <2>1. ~Ending(g) /\ ~Connected(g) /\ (Installing(g) <=> others # <<>>)
    BY <1>5 DEF Ending, Connected, Installing
  <2>. QED BY <1>2, <1>4, <1>5, <2>1 DEF GoodFrame
<1>9. Retop(stack, stack', p, g)
  <2>1. t \in Threads
    OBVIOUS
  <2>2. /\ Moved(stack, stack') /\ Innermost(stack, p)
        /\ \A q \in Places(stack) : On(stack', q) = IF q = p THEN g ELSE On(stack, q)
    BY ONLY <1>1, <1>2, <1>5, <2>1, PutIs, p = TopPlace(stack, t)
  <2>. QED BY <1>2, <1>8, <2>2 DEF Retop
<1>10. /\ Shape(stack', sends')
       /\ Nested(stack, sends) /\ sends[s] = g.orig[s] => Nested(stack', sends')
  <2>1. Installs(stack, sends, stack', sends', p, g, s)
    BY <1>1, <1>2, <1>5, <1>7, <1>9 DEF Installs
  <2>. QED BY ONLY <2>1, InstallShape
<1>11. /\ Inside(stack')
       /\ Listening(stack, handlers) => Listening(stack', handlers)
  <2>1. /\ stack \in [Threads -> Seq(FrameType)] /\ t \in Threads /\ stack[t] # <<>>
        /\ g \in FrameType /\ g.id = Last(stack[t]).id
        /\ (Connected(g) <=> Connected(Last(stack[t]))) /\ Inside(stack)
    BY <1>1, <1>2, <1>3, <1>5, <1>8
  <2>2. /\ Inside(Put_top(stack, t, g))
        /\ Listening(stack, handlers) => Listening(Put_top(stack, t, g), handlers)
    BY ONLY <2>1, RetopHears
  <2>. QED BY <1>1, <2>2
<1>12. Apart' => Apart /\ sends[s] = g.orig[s]
  BY <1>1, <1>5 DEF Apart, Crossing
<1>13. faults' \subseteq {"crossed", "collected"}
  BY <1>1 DEF Crossing, Structured
<1>. QED BY <1>1, <1>10, <1>11, <1>12, <1>13 DEF Structured

LEMMA ConnectStructured ==
  ASSUME NEW t \in Threads, Structured, Connect(t)
  PROVE  Structured'
<1>. PICK f : f = Top(t)
  OBVIOUS
<1>. PICK g, c, e : /\ g = [f EXCEPT !.step = "in"]
                    /\ c = f.id /\ e = Hears[Kind(f.id)]
  OBVIOUS
<1>1. /\ Shape(stack, sends) /\ Inside(stack) /\ ~Outside(t) /\ f.step = "connect"
      /\ stack' = Put_top(stack, t, g)
      /\ handlers' = handlers \cup {[event |-> e, at |-> Place(t, e), for |-> c]}
      /\ sends' = sends /\ faults' = faults /\ undone' = undone
  BY DEF Structured, Connect, At, WithTop, Put_top
<1>2. /\ stack \in [Threads -> Seq(FrameType)] /\ sends \in [Signals -> Seq(Id)]
      /\ stack[t] # <<>> /\ Last(stack[t]) = f
      /\ GoodFrame(f) /\ f \in FrameType /\ f.id \in Id /\ Kind(f.id) \in Kinds
  BY <1>1, TopFacts
<1>3. ~Installing(f) /\ ~Ending(f) /\ ~Connected(f) /\ f.signals = <<>>
  BY <1>1, <1>2 DEF GoodFrame, Installing, Ending, Connected
<1>4. /\ g.id = f.id /\ g.signals = f.signals /\ g.orig = f.orig
      /\ g.step = "in" /\ g \in FrameType
  BY <1>2 DEF FrameType, Steps
<1>5. ~Installing(g) /\ ~Ending(g) /\ Connected(g)
  BY <1>4 DEF Installing, Ending, Connected
<1>6. GoodFrame(g) /\ Alike(f, g)
  <2>1. GoodFrame(g)
    BY <1>2, <1>3, <1>4, <1>5 DEF GoodFrame
  <2>2. Put(g) = Put(f) /\ Ahead(g) = Ahead(f)
    BY <1>3, <1>4, <1>5 DEF Put, Ahead
  <2>. QED BY <1>4, <2>1, <2>2 DEF Alike
<1>7. /\ Shape(stack', sends)
      /\ Nested(stack, sends) => Nested(stack', sends)
      /\ Inside(stack')
  <2>1. /\ Shape(stack, sends) /\ t \in Threads /\ stack[t] # <<>> /\ GoodFrame(g)
        /\ Alike(Last(stack[t]), g)
    BY <1>1, <1>2, <1>6
  <2>2. /\ Shape(Put_top(stack, t, g), sends)
        /\ Nested(stack, sends) => Nested(Put_top(stack, t, g), sends)
        /\ Inside(stack) => Inside(Put_top(stack, t, g))
    BY ONLY <2>1, RetopAlike
  <2>. QED BY <1>1, <2>2
<1>8. e \in Events /\ e[1] \in Held(c) /\ HoldsFrom(Kind(c), e[2])
      /\ \A h \in handlers : h.event \in Events
  <2>1. \/ Kind(c) \in {"store", "tp"} /\ e = CountStore
        \/ Kind(c) = "tp_stores" /\ e = SumTP
        \/ Kind(c) \in {"store_callback", "tp_callback"} /\ e = Renew
    BY <1>2 DEF Kinds, Hears
  <2>2. "update_revisions" \in Held(c)
        /\ ("update_data" \in Held(c) <=> Kind(c) \in {"store", "tp", "tp_stores"})
    BY <1>2, HeldFacts
  <2>3. e \in Events /\ e[1] \in Held(c) /\ HoldsFrom(Kind(c), e[2])
    BY <2>1, <2>2 DEF Events, CountStore, SumTP, Renew, HoldsFrom
  <2>. QED BY <2>3 DEF Structured
<1>9. ASSUME Nested(stack, sends)
      PROVE  Place(t, e) = c
  <2>1. e[1] \in Put(Top(t)) /\ HoldsFrom(Kind(Top(t).id), e[2])
    BY <1>3, <1>8, ToSetsAre DEF Put
  <2>. QED BY <1>1, <1>8, <1>9, <2>1, PlaceTop
<1>10. Nested(stack, sends) /\ Listening(stack, handlers) => Listening(stack', handlers')
  <2>1. /\ stack \in [Threads -> Seq(FrameType)] /\ t \in Threads /\ stack[t] # <<>>
        /\ g \in FrameType /\ g.id = Last(stack[t]).id /\ Connected(g)
    BY <1>2, <1>4, <1>5
  <2>2. Listening(stack, handlers)
          => Listening(Put_top(stack, t, g), handlers \cup {Handler(g.id)})
    BY ONLY <2>1, RetopHears
  <2>3. Nested(stack, sends)
          => Handler(g.id) = [event |-> e, at |-> Place(t, e), for |-> c]
    BY <1>4, <1>9 DEF Handler
  <2>. QED BY <1>1, <2>2, <2>3
<1>11. \A h \in handlers' : h.event \in Events
  BY <1>1, <1>8
<1>. QED BY <1>1, <1>7, <1>10, <1>11 DEF Structured, Apart

\* What is left undone is some of what there was to do.
LEMMA SendFacts ==
  ASSUME NEW t \in Threads, NEW e \in Events, NEW S, NEW todo \in SUBSET Events,
         undone \in [Threads -> SUBSET Events], Send(t, e, S, todo)
  PROVE  stack' = Told(S, t, e) /\ undone' \in [Threads -> SUBSET Events]
<1>1. Rest(todo, Done(t, e)) \subseteq Events
  BY DEF Rest
<1>. QED BY <1>1 DEF Send, Told

LEMMA ChangeStructured ==
  ASSUME NEW t \in Threads, Structured, Change(t)
  PROVE  Structured'
<1>1. /\ Shape(stack, sends) /\ Inside(stack) /\ undone \in [Threads -> SUBSET Events]
      /\ Send(t, CountStore, stack, Events)
      /\ sends' = sends /\ handlers' = handlers /\ faults' = faults
  BY DEF Structured, Change
<1>2. CountStore \in Events
  BY DEF Events
<1>3. stack' = Told(stack, t, CountStore) /\ undone' \in [Threads -> SUBSET Events]
  BY <1>1, <1>2, SendFacts
<1>4. /\ Shape(stack', sends) /\ Inside(stack')
      /\ Nested(stack, sends) => Nested(stack', sends)
      /\ Listening(stack, handlers) => Listening(stack', handlers)
  BY <1>1, <1>2, <1>3, TellShape
<1>. QED BY <1>1, <1>3, <1>4 DEF Structured, Apart

\* The innermost context of t has less to send.
LEMMA DueStructured ==
  ASSUME NEW t \in Threads, Shape(stack, sends), ~Outside(t),
         NEW due \in SUBSET Events, NEW g, g = [Top(t) EXCEPT !.due = due]
  PROVE  /\ Shape(Put_top(stack, t, g), sends)
         /\ Nested(stack, sends) => Nested(Put_top(stack, t, g), sends)
         /\ Listening(stack, handlers) => Listening(Put_top(stack, t, g), handlers)
         /\ Inside(stack) => Inside(Put_top(stack, t, g))
         /\ Put_top(stack, t, g)[t] # <<>> /\ Last(Put_top(stack, t, g)[t]) = g
         /\ \A p \in Places(Put_top(stack, t, g)) :
              /\ p \in Places(stack)
              /\ On(Put_top(stack, t, g), p).id = On(stack, p).id
              /\ On(Put_top(stack, t, g), p).orig = On(stack, p).orig
<1>. PICK f : f = Top(t)
  OBVIOUS
<1>1. /\ stack \in [Threads -> Seq(FrameType)]
      /\ stack[t] # <<>> /\ Last(stack[t]) = f
      /\ GoodFrame(f) /\ f \in FrameType
      /\ On(stack, TopPlace(stack, t)) = f
  BY TopFacts
<1>2. /\ g.id = f.id /\ g.signals = f.signals /\ g.orig = f.orig
      /\ g.step = f.step /\ g \in FrameType
  BY <1>1 DEF FrameType
<1>3. /\ Installing(g) <=> Installing(f)
      /\ Ending(g) <=> Ending(f)
      /\ Connected(g) <=> Connected(f)
  BY <1>2 DEF Installing, Ending, Connected
<1>4. GoodFrame(g) /\ Put(g) = Put(f) /\ Ahead(g) = Ahead(f)
  BY <1>1, <1>2, <1>3 DEF GoodFrame, Put, Ahead
<1>5. /\ Shape(stack, sends) /\ t \in Threads /\ stack[t] # <<>> /\ GoodFrame(g)
      /\ Alike(Last(stack[t]), g)
      /\ Connected(g) <=> Connected(Last(stack[t]))
  BY <1>1, <1>2, <1>3, <1>4 DEF Alike
<1>6. /\ Shape(Put_top(stack, t, g), sends)
      /\ Nested(stack, sends) => Nested(Put_top(stack, t, g), sends)
      /\ Listening(stack, handlers) => Listening(Put_top(stack, t, g), handlers)
      /\ Inside(stack) => Inside(Put_top(stack, t, g))
      /\ Put_top(stack, t, g)[t] # <<>> /\ Last(Put_top(stack, t, g)[t]) = g
  BY ONLY <1>5, RetopAlike, ZenonT(60)
<1>7. /\ Moved(stack, Put_top(stack, t, g))
      /\ \A p \in Places(stack) :
           On(Put_top(stack, t, g), p) = IF p = TopPlace(stack, t) THEN g ELSE On(stack, p)
  <2>1. /\ stack \in [Threads -> Seq(FrameType)] /\ t \in Threads /\ stack[t] # <<>>
        /\ g \in FrameType
    BY <1>1, <1>2
  <2>. QED BY ONLY <2>1, PutIs
<1>8. ASSUME NEW p \in Places(Put_top(stack, t, g))
      PROVE  /\ p \in Places(stack)
             /\ On(Put_top(stack, t, g), p).id = On(stack, p).id
             /\ On(Put_top(stack, t, g), p).orig = On(stack, p).orig
  BY <1>1, <1>2, <1>7 DEF Moved
<1>. QED BY <1>6, <1>8

LEMMA SendDueStructured ==
  ASSUME NEW t \in Threads, Structured, SendDue(t)
  PROVE  Structured'
<1>1. /\ Shape(stack, sends) /\ Inside(stack) /\ undone \in [Threads -> SUBSET Events]
      /\ ~Outside(t) /\ sends' = sends /\ handlers' = handlers /\ faults' = faults
  BY DEF Structured, SendDue, At
<1>2. Top(t) \in FrameType
  BY <1>1, TopFacts
<1>3. Top(t).due \in SUBSET Events
  BY <1>2 DEF FrameType
<1>4. PICK e \in Top(t).due :
        Send(t, e, WithTop(t, [Top(t) EXCEPT !.due = @ \ {e}]), undone[t])
  BY DEF SendDue
<1>. PICK due, g : due = Top(t).due \ {e} /\ g = [Top(t) EXCEPT !.due = @ \ {e}]
  OBVIOUS
<1>. PICK S : S = Put_top(stack, t, g)
  OBVIOUS
<1>5. /\ due \in SUBSET Events /\ e \in Events /\ g = [Top(t) EXCEPT !.due = due]
      /\ S = WithTop(t, g)
  BY <1>3 DEF WithTop, Put_top
<1>6. /\ Shape(S, sends) /\ Inside(S)
      /\ Nested(stack, sends) => Nested(S, sends)
      /\ Listening(stack, handlers) => Listening(S, handlers)
  <2>1. /\ t \in Threads /\ Shape(stack, sends) /\ ~Outside(t)
        /\ due \in SUBSET Events /\ g = [Top(t) EXCEPT !.due = due]
    BY <1>1, <1>5
  <2>2. /\ Shape(Put_top(stack, t, g), sends)
        /\ Nested(stack, sends) => Nested(Put_top(stack, t, g), sends)
        /\ Listening(stack, handlers) => Listening(Put_top(stack, t, g), handlers)
        /\ Inside(stack) => Inside(Put_top(stack, t, g))
    BY ONLY <2>1, DueStructured
  <2>. QED BY <1>1, <2>2
<1>7. stack' = Told(S, t, e) /\ undone' \in [Threads -> SUBSET Events]
  <2>1. undone[t] \in SUBSET Events
    BY <1>1
  <2>2. Send(t, e, S, undone[t])
    BY <1>4, <1>5
  <2>. QED BY <1>1, <1>5, <2>1, <2>2, SendFacts
<1>8. /\ Shape(stack', sends) /\ Inside(stack')
      /\ Nested(S, sends) => Nested(stack', sends)
      /\ Listening(S, handlers) => Listening(stack', handlers)
  BY <1>5, <1>6, <1>7, TellShape
<1>. QED BY <1>1, <1>6, <1>7, <1>8 DEF Structured, Apart

\* A context ends, with an error or without.
LEMMA LeaveStructured ==
  ASSUME NEW t \in Threads, Structured, Leave(t) \/ Raise(t)
  PROVE  Structured'
<1>1. PICK step \in {"restore", "unwind"} :
        stack' = WithTop(t, Leaving(Top(t), step))
  BY DEF Leave, Raise
<1>. PICK f, g : f = Top(t) /\ g = Leaving(Top(t), step)
  OBVIOUS
<1>2. /\ Shape(stack, sends) /\ Inside(stack) /\ undone \in [Threads -> SUBSET Events]
      /\ ~Outside(t) /\ f.step = "in" /\ stack' = Put_top(stack, t, g)
      /\ sends' = sends /\ handlers' = handlers /\ faults' = faults /\ undone' = undone
  BY <1>1 DEF Structured, Leave, Raise, At, WithTop, Put_top
<1>3. /\ stack[t] # <<>> /\ Last(stack[t]) = f /\ GoodFrame(f)
  BY <1>2, TopFacts
<1>4. /\ Shape(stack, sends) /\ t \in Threads /\ stack[t] # <<>> /\ GoodFrame(g)
      /\ Alike(Last(stack[t]), g)
      /\ Connected(g) <=> Connected(Last(stack[t]))
  BY <1>2, <1>3, LeavingIs
<1>5. /\ Shape(Put_top(stack, t, g), sends)
      /\ Nested(stack, sends) => Nested(Put_top(stack, t, g), sends)
      /\ Listening(stack, handlers) => Listening(Put_top(stack, t, g), handlers)
      /\ Inside(stack) => Inside(Put_top(stack, t, g))
  BY ONLY <1>4, RetopAlike
<1>. QED BY <1>2, <1>5 DEF Structured, Apart

LEMMA RestoreStructured ==
  ASSUME NEW t \in Threads, Structured, Restore(t)
  PROVE  Structured'
<1>. PICK f, s, others : /\ f = Top(t) /\ s = Head(Top(t).signals)
                         /\ others = Tail(Top(t).signals)
  OBVIOUS
<1>. PICK g, p : /\ g = [f EXCEPT !.orig[s] = <<>>, !.signals = Tail(@)]
                 /\ p = TopPlace(stack, t)
  OBVIOUS
<1>1. /\ Shape(stack, sends) /\ Inside(stack) /\ ~Outside(t)
      /\ f.step \in {"restore", "unwind"} /\ f.signals # <<>>
      /\ stack' = Put_top(stack, t, g)
      /\ sends' = [sends EXCEPT ![s] = f.orig[s]]
      /\ faults' = Crossing(sends[s] # <<f.id>> \o f.orig[s])
      /\ handlers' = handlers /\ undone' = undone
  BY DEF Structured, Restore, At, WithTop, Put_top
<1>2. /\ stack \in [Threads -> Seq(FrameType)] /\ sends \in [Signals -> Seq(Id)]
      /\ stack[t] # <<>> /\ Last(stack[t]) = f
      /\ p \in Places(stack) /\ On(stack, p) = f /\ GoodFrame(f) /\ f \in FrameType
      /\ f.orig \in [Signals -> Seq(Id)] /\ f.signals \in Lists /\ f.id \in Id
  BY <1>1, TopFacts
<1>3. Ending(f) /\ ~Installing(f) /\ Connected(f)
  BY <1>1 DEF Installing, Ending, Connected
<1>4. /\ s \in ToSet(f.signals) /\ ToSet(f.signals) \subseteq Signals
      /\ others \in Lists /\ ToSet(others) = ToSet(f.signals) \ {s}
  BY <1>1, <1>2, ListFacts
<1>5. /\ g.id = f.id /\ g.signals = others /\ g.step = f.step
      /\ g.orig = [f.orig EXCEPT ![s] = <<>>] /\ g \in FrameType
  <2>1. <<>> \in Seq(Id)
    OBVIOUS
  <2>2. [f.orig EXCEPT ![s] = <<>>] \in [Signals -> Seq(Id)]
    BY <1>2, <2>1
  <2>. QED BY <1>2, <1>4, <2>2 DEF FrameType
<1>6. Ending(g) /\ ~Installing(g) /\ Connected(g)
  BY <1>3, <1>5 DEF Installing, Ending, Connected
<1>7. /\ s \in Put(f) /\ Put(g) = Put(f) \ {s} /\ Ahead(g) = {} /\ Ahead(f) = {}
  BY <1>3, <1>4, <1>5, <1>6 DEF Put, Ahead
<1>8. GoodFrame(g)
  <2>1. \A x \in Signals : g.id \notin ToSet(g.orig[x])
    <3>1. \A x \in Signals : g.orig[x] = f.orig[x] \/ g.orig[x] = <<>>
      BY <1>2, <1>4, <1>5
    <3>. QED BY <1>2, <1>5, <3>1, ToSetsAre DEF GoodFrame
  <2>. QED BY <1>2, <1>4, <1>5, <1>6, <2>1 DEF GoodFrame
<1>9. Retop(stack, stack', p, g)
  <2>1. t \in Threads
    OBVIOUS
  <2>2. /\ Moved(stack, stack') /\ Innermost(stack, p)
        /\ \A q \in Places(stack) : On(stack', q) = IF q = p THEN g ELSE On(stack, q)
    BY ONLY <1>1, <1>2, <1>5, <2>1, PutIs, p = TopPlace(stack, t)
  <2>. QED BY <1>2, <1>8, <2>2 DEF Retop
<1>10. /\ Shape(stack', sends')
       /\ Nested(stack, sends) /\ sends[s] = <<g.id>> \o f.orig[s]
            => Nested(stack', sends')
  <2>1. Restores(stack, sends, stack', sends', p, g, s)
    BY <1>1, <1>2, <1>5, <1>7, <1>9 DEF Restores
  <2>2. /\ Shape(stack', sends')
        /\ Nested(stack, sends) /\ sends[s] = <<g.id>> \o On(stack, p).orig[s]
             => Nested(stack', sends')
    BY ONLY <2>1, RestoreShape
  <2>. QED BY <1>2, <2>2
<1>11. /\ Inside(stack')
       /\ Listening(stack, handlers) => Listening(stack', handlers)
  <2>1. /\ stack \in [Threads -> Seq(FrameType)] /\ t \in Threads /\ stack[t] # <<>>
        /\ g \in FrameType /\ g.id = Last(stack[t]).id
        /\ (Connected(g) <=> Connected(Last(stack[t]))) /\ Inside(stack)
    BY <1>1, <1>2, <1>3, <1>5, <1>6
  <2>2. /\ Inside(Put_top(stack, t, g))
        /\ Listening(stack, handlers) => Listening(Put_top(stack, t, g), handlers)
    BY ONLY <2>1, RetopHears
  <2>. QED BY <1>1, <2>2
<1>12. Apart' => Apart /\ sends[s] = <<g.id>> \o f.orig[s]
  BY <1>1, <1>5 DEF Apart, Crossing
<1>13. faults' \subseteq {"crossed", "collected"}
  BY <1>1 DEF Crossing, Structured
<1>. QED BY <1>1, <1>10, <1>11, <1>12, <1>13 DEF Structured

\* A context is entered.
Enterable(S, t, kind) ==
  /\ Shape(S, sends) /\ Inside(S)
  /\ \A p \in Places(S) : /\ p \in Places(stack)
                          /\ On(S, p).id = On(stack, p).id
                          /\ On(S, p).orig = On(stack, p).orig
  /\ IF S[t] = <<>> THEN kind # "tp_stores" ELSE Last(S[t]).step = "in"
LEMMA EnterStructured ==
  ASSUME NEW t \in Threads, Shape(stack, sends), NEW S, NEW kind \in Kinds,
         NEW due \in SUBSET Events, NEW H, Enterable(S, t, kind),
         NEW g, g = Frame(t, kind, due)
  PROVE  /\ Shape(Push(S, t, g), sends) /\ Inside(Push(S, t, g))
         /\ Nested(S, sends) => Nested(Push(S, t, g), sends)
         /\ Listening(S, H) => Listening(Push(S, t, g), H)
<1>1. /\ \A p \in Places(S) : /\ p \in Places(stack)
                              /\ On(S, p).id = On(stack, p).id
                              /\ On(S, p).orig = On(stack, p).orig
  BY DEF Enterable
<1>2. New(S, sends, t, g) /\ ~Connected(g) /\ Kind(g.id) = kind
  BY <1>1, FrameIsNew
<1>3. /\ Shape(S, sends) /\ t \in Threads /\ New(S, sends, t, g)
      /\ S[t] # <<>> => Last(S[t]).step = "in"
  BY <1>2 DEF Enterable
<1>4. /\ Shape(Push(S, t, g), sends)
      /\ Nested(S, sends) => Nested(Push(S, t, g), sends)
      /\ Listening(S, H) /\ ~Connected(g) => Listening(Push(S, t, g), H)
  BY ONLY <1>3, PushShape
<1>5. Inside(Push(S, t, g))
  <2>1. /\ S \in [Threads -> Seq(FrameType)] /\ t \in Threads /\ g \in FrameType
        /\ Inside(S) /\ (Kind(g.id) = "tp_stores" => S[t] # <<>>)
    BY <1>2 DEF Enterable, Shape, New, GoodFrame
  <2>. QED BY ONLY <2>1, PushInside
<1>. QED BY <1>2, <1>4, <1>5

LEMMA EnterOuterStructured ==
  ASSUME NEW t \in Threads, NEW kind \in Outer[t], Structured, EnterOuter(t, kind)
  PROVE  Structured'
<1>. PICK g : g = Frame(t, kind, {})
  OBVIOUS
<1>1. /\ Shape(stack, sends) /\ Inside(stack) /\ undone \in [Threads -> SUBSET Events]
      /\ stack[t] = <<>> /\ kind \in {"store", "tp"} /\ {} \in SUBSET Events
      /\ sends' = sends /\ handlers' = handlers /\ faults' = faults /\ undone' = undone
      /\ stack' = [stack EXCEPT ![t] = Append(<<>>, g)]
  BY OuterAssumption DEF Structured, EnterOuter, Outside, NewFrame
<1>2. stack' = Push(stack, t, g) /\ kind \in Kinds
  BY <1>1 DEF Push, Kinds
<1>3. Enterable(stack, t, kind)
  BY <1>1 DEF Enterable
<1>4. /\ Shape(Push(stack, t, g), sends) /\ Inside(Push(stack, t, g))
      /\ Nested(stack, sends) => Nested(Push(stack, t, g), sends)
      /\ Listening(stack, handlers) => Listening(Push(stack, t, g), handlers)
  BY <1>1, <1>2, <1>3, EnterStructured
<1>. QED BY <1>1, <1>2, <1>4 DEF Structured, Apart

LEMMA EnterInnerStructured ==
  ASSUME NEW t \in Threads, Structured, EnterInner(t)
  PROVE  Structured'
<1>. PICK g : g = Frame(t, "store", {})
  OBVIOUS
<1>1. /\ Shape(stack, sends) /\ Inside(stack) /\ undone \in [Threads -> SUBSET Events]
      /\ ~Outside(t) /\ Top(t).step = "in" /\ {} \in SUBSET Events
      /\ sends' = sends /\ handlers' = handlers /\ faults' = faults /\ undone' = undone
      /\ stack' = Push(stack, t, g)
  BY DEF Structured, EnterInner, Body, At, NewFrame, Push
<1>2. "store" \in Kinds
  BY DEF Kinds
<1>3. Enterable(stack, t, "store")
  BY <1>1 DEF Enterable, Outside, Top
<1>4. /\ Shape(Push(stack, t, g), sends) /\ Inside(Push(stack, t, g))
      /\ Nested(stack, sends) => Nested(Push(stack, t, g), sends)
      /\ Listening(stack, handlers) => Listening(Push(stack, t, g), handlers)
  BY <1>1, <1>2, <1>3, EnterStructured
<1>. QED BY <1>1, <1>4 DEF Structured, Apart

LEMMA UpdateStoresStructured ==
  ASSUME NEW t \in Threads, Structured, UpdateStores(t)
  PROVE  Structured'
<1>. PICK f, g, h : /\ f = Frame(t, "tp_stores", {CountStore})
                    /\ g = [Top(t) EXCEPT !.due = {}] /\ h = Top(t)
  OBVIOUS
<1>. PICK S : S = Put_top(stack, t, g)
  OBVIOUS
<1>1. /\ Shape(stack, sends) /\ Inside(stack) /\ undone \in [Threads -> SUBSET Events]
      /\ ~Outside(t) /\ h.step = "in" /\ {} \in SUBSET Events
      /\ {CountStore} \in SUBSET Events /\ "tp_stores" \in Kinds
      /\ sends' = sends /\ handlers' = handlers /\ faults' = faults /\ undone' = undone
      /\ stack' = [stack EXCEPT ![t] = Append(Front(stack[t]) \o <<g>>, f)]
  BY DEF Structured, UpdateStores, At, NewFrame, Events, Kinds
<1>2. stack \in [Threads -> Seq(FrameType)] /\ h \in FrameType /\ stack[t] # <<>>
  BY <1>1, TopFacts
<1>3. stack' = Push(S, t, f)
  <2>1. S[t] = Front(stack[t]) \o <<g>>
    BY <1>2 DEF Put_top
  <2>. QED BY <1>1, <1>2, <2>1 DEF Push, Put_top
<1>4. /\ Shape(S, sends) /\ Inside(S) /\ S[t] # <<>> /\ Last(S[t]) = g
      /\ Nested(stack, sends) => Nested(S, sends)
      /\ Listening(stack, handlers) => Listening(S, handlers)
      /\ \A p \in Places(S) : /\ p \in Places(stack)
                              /\ On(S, p).id = On(stack, p).id
                              /\ On(S, p).orig = On(stack, p).orig
  <2>. PICK none : none = {}
    OBVIOUS
  <2>1. /\ t \in Threads /\ Shape(stack, sends) /\ ~Outside(t)
        /\ none \in SUBSET Events /\ g = [Top(t) EXCEPT !.due = none]
    BY <1>1
  <2>2. /\ Shape(Put_top(stack, t, g), sends)
        /\ Nested(stack, sends) => Nested(Put_top(stack, t, g), sends)
        /\ Listening(stack, handlers) => Listening(Put_top(stack, t, g), handlers)
        /\ Inside(stack) => Inside(Put_top(stack, t, g))
        /\ Put_top(stack, t, g)[t] # <<>> /\ Last(Put_top(stack, t, g)[t]) = g
    BY ONLY <2>1, DueStructured
  <2>3. /\ \A p \in Places(Put_top(stack, t, g)) :
              /\ p \in Places(stack)
              /\ On(Put_top(stack, t, g), p).id = On(stack, p).id
              /\ On(Put_top(stack, t, g), p).orig = On(stack, p).orig
    BY ONLY <2>1, DueStructured
  <2>. QED BY <1>1, <2>2, <2>3
<1>5. g.step = "in"
  BY <1>1, <1>2 DEF FrameType
<1>6. Enterable(S, t, "tp_stores")
  BY <1>4, <1>5 DEF Enterable
<1>7. /\ Shape(Push(S, t, f), sends) /\ Inside(Push(S, t, f))
      /\ Nested(S, sends) => Nested(Push(S, t, f), sends)
      /\ Listening(S, handlers) => Listening(Push(S, t, f), handlers)
  BY <1>1, <1>6, EnterStructured
<1>. QED BY <1>1, <1>3, <1>4, <1>7 DEF Structured, Apart

\* A context has put back what it has found, and is gone.
Leaves(t) ==
  /\ ~Outside(t) /\ Ending(Top(t)) /\ Top(t).signals = <<>>
LEMMA LeftStructured ==
  ASSUME NEW t \in Threads, Structured, Leaves(t), Disconnect(t), NEW S,
         S = Pop(stack, t)
  PROVE  /\ Shape(S, sends) /\ Inside(S)
         /\ Nested(stack, sends) => Nested(S, sends)
         /\ Listening(stack, handlers) => Listening(S, handlers')
         /\ S[t] # <<>> => Last(S[t]).step = "in"
         /\ \A p \in Places(S) : p \in Places(stack) /\ On(S, p) = On(stack, p)
         /\ stack \in [Threads -> Seq(FrameType)] /\ S \in [Threads -> Seq(FrameType)]
         /\ S[t] = Front(stack[t]) /\ \A h \in handlers' : h.event \in Events
<1>1. /\ Shape(stack, sends) /\ Inside(stack) /\ ~Outside(t) /\ Ending(Top(t))
      /\ Top(t).signals = <<>> /\ handlers' = Heedless(handlers, Top(t).id)
      /\ \A h \in handlers : h.event \in Events
  BY DEF Structured, Leaves, Disconnect, Heedless
<1>2. stack \in [Threads -> Seq(FrameType)] /\ stack[t] # <<>> /\ Last(stack[t]) = Top(t)
  BY <1>1, TopFacts
<1>3. Put(Last(stack[t])) = {}
  BY <1>1, <1>2, ToSetsAre DEF Put
<1>4. t \in Threads
  OBVIOUS
<1>5. /\ Shape(Pop(stack, t), sends)
      /\ Nested(stack, sends) => Nested(Pop(stack, t), sends)
      /\ Listening(stack, handlers)
           => Listening(Pop(stack, t), Heedless(handlers, Last(stack[t]).id))
      /\ Pop(stack, t)[t] # <<>> => Last(Pop(stack, t)[t]).step = "in"
  BY ONLY <1>1, <1>2, <1>3, <1>4, PopShape
<1>6. /\ Inside(Pop(stack, t)) /\ Pop(stack, t) \in [Threads -> Seq(FrameType)]
      /\ \A p \in Places(Pop(stack, t)) :
           p \in Places(stack) /\ On(Pop(stack, t), p) = On(stack, p)
  BY ONLY <1>1, <1>2, <1>4, PopInside
<1>7. Pop(stack, t)[t] = Front(stack[t])
  BY <1>2 DEF Pop
<1>8. \A h \in handlers' : h.event \in Events
  BY <1>1 DEF Heedless
<1>. QED BY <1>1, <1>2, <1>5, <1>6, <1>7, <1>8

LEMMA CallbackStructured ==
  ASSUME NEW t \in Threads, Structured, Callback(t)
  PROVE  Structured'
<1>. PICK kind, due, S : /\ kind = SentIn[Kind(Top(t).id)] /\ due = Top(t).heard
                         /\ S = Pop(stack, t)
  OBVIOUS
<1>. PICK g : g = Frame(t, kind, due)
  OBVIOUS
<1>1. /\ Shape(stack, sends) /\ undone \in [Threads -> SUBSET Events]
      /\ ~Outside(t) /\ Leaves(t) /\ Disconnect(t)
      /\ sends' = sends /\ faults' = faults /\ undone' = undone
      /\ stack' = [stack EXCEPT ![t] = Append(Front(stack[t]), g)]
  BY DEF Structured, Callback, Left, Leaves, Ending, At, NewFrame
<1>2. /\ kind \in Kinds /\ kind # "tp_stores"
  <2>1. Kind(Top(t).id) \in {"store", "tp"}
    BY DEF Callback
  <2>. QED BY <2>1 DEF SentIn, Kinds
<1>3. due \in SUBSET Events
  <2>1. Top(t) \in FrameType
    BY <1>1, TopFacts
  <2>. QED BY <2>1 DEF FrameType
<1>4. /\ Shape(S, sends) /\ Inside(S)
      /\ Nested(stack, sends) => Nested(S, sends)
      /\ Listening(stack, handlers) => Listening(S, handlers')
      /\ S[t] # <<>> => Last(S[t]).step = "in"
      /\ \A p \in Places(S) : p \in Places(stack) /\ On(S, p) = On(stack, p)
      /\ stack \in [Threads -> Seq(FrameType)]
      /\ S[t] = Front(stack[t]) /\ \A h \in handlers' : h.event \in Events
  BY <1>1, LeftStructured
<1>5. stack' = Push(S, t, g)
  BY <1>1, <1>4 DEF Push, Pop
<1>6. Enterable(S, t, kind)
  BY <1>2, <1>4 DEF Enterable
<1>7. /\ Shape(Push(S, t, g), sends) /\ Inside(Push(S, t, g))
      /\ Nested(S, sends) => Nested(Push(S, t, g), sends)
      /\ Listening(S, handlers') => Listening(Push(S, t, g), handlers')
  BY <1>1, <1>2, <1>3, <1>6, EnterStructured
<1>. QED BY <1>1, <1>4, <1>5, <1>7 DEF Structured, Apart

LEMMA FinishStructured ==
  ASSUME NEW t \in Threads, Structured, Finish(t)
  PROVE  Structured'
<1>. PICK S : S = Pop(stack, t)
  OBVIOUS
<1>1. /\ undone \in [Threads -> SUBSET Events] /\ Leaves(t) /\ Disconnect(t)
      /\ sends' = sends /\ faults' = faults
      /\ \/ stack' = S /\ undone' = undone
         \/ Send(t, Renew, S, undone[t])
  BY DEF Structured, Finish, Left, Leaves, Ending, At, Pop
<1>2. /\ Shape(S, sends) /\ Inside(S)
      /\ Nested(stack, sends) => Nested(S, sends)
      /\ Listening(stack, handlers) => Listening(S, handlers')
      /\ \A h \in handlers' : h.event \in Events
  BY <1>1, LeftStructured
<1>3. CASE stack' = S /\ undone' = undone
  BY <1>1, <1>2, <1>3 DEF Structured, Apart
<1>4. CASE Send(t, Renew, S, undone[t])
  <2>1. Renew \in Events /\ undone[t] \in SUBSET Events
    BY <1>1 DEF Events
  <2>2. stack' = Told(S, t, Renew) /\ undone' \in [Threads -> SUBSET Events]
    BY <1>1, <1>4, <2>1, SendFacts
  <2>3. /\ Shape(stack', sends) /\ Inside(stack')
        /\ Nested(S, sends) => Nested(stack', sends)
        /\ Listening(S, handlers') => Listening(stack', handlers')
    BY <1>2, <2>1, <2>2, TellShape
  <2>. QED BY <1>1, <1>2, <2>2, <2>3 DEF Structured, Apart
<1>. QED BY <1>1, <1>3, <1>4

LEMMA LastFacts ==
  ASSUME NEW S, NEW D, Shape(S, D), NEW t \in Threads, S[t] # <<>>
  PROVE  GoodFrame(Last(S[t])) /\ Last(S[t]) \in FrameType
<1>1. S \in [Threads -> Seq(FrameType)]
  BY DEF Shape
<1>. PICK p : p = TopPlace(S, t)
  OBVIOUS
<1>2. p \in Places(S) /\ On(S, p) = Last(S[t])
  BY <1>1, PopIs DEF TopPlace, On, Last
<1>. QED BY <1>2, ShapeFacts

LEMMA DueAlike ==
  ASSUME NEW f, GoodFrame(f), NEW due \in SUBSET Events, NEW g,
         g = [f EXCEPT !.due = due]
  PROVE  GoodFrame(g) /\ Alike(f, g) /\ (Connected(g) <=> Connected(f))
<1>1. f \in FrameType
  BY DEF GoodFrame
<1>2. /\ g.id = f.id /\ g.signals = f.signals /\ g.orig = f.orig
      /\ g.step = f.step /\ g \in FrameType
  BY <1>1 DEF FrameType
<1>3. /\ Installing(g) <=> Installing(f)
      /\ Ending(g) <=> Ending(f)
      /\ Connected(g) <=> Connected(f)
  BY <1>2 DEF Installing, Ending, Connected
<1>4. GoodFrame(g) /\ Put(g) = Put(f) /\ Ahead(g) = Ahead(f)
  BY <1>1, <1>2, <1>3 DEF GoodFrame, Put, Ahead
<1>. QED BY <1>2, <1>3, <1>4 DEF Alike

LEMMA StoresUpdatedStructured ==
  ASSUME NEW t \in Threads, Structured, StoresUpdated(t)
  PROVE  Structured'
<1>. PICK S : S = Pop(stack, t)
  OBVIOUS
<1>1. PICK gone \in BOOLEAN :
        /\ stack' = [stack EXCEPT ![t] = Front(Front(stack[t])) \o
             <<[Last(Front(stack[t])) EXCEPT !.due = IF gone THEN {} ELSE Top(t).heard]>>]
        /\ faults' = faults \cup (IF gone THEN {"collected"} ELSE {})
  BY DEF StoresUpdated
<1>. PICK due : due = IF gone THEN {} ELSE Top(t).heard
  OBVIOUS
<1>. PICK g : g = [Last(S[t]) EXCEPT !.due = due]
  OBVIOUS
<1>2. /\ Shape(stack, sends) /\ Inside(stack) /\ undone \in [Threads -> SUBSET Events]
      /\ ~Outside(t) /\ Leaves(t) /\ Disconnect(t) /\ Kind(Top(t).id) = "tp_stores"
      /\ sends' = sends /\ undone' = undone
  BY DEF Structured, StoresUpdated, Left, Leaves, Ending, At
<1>3. due \in SUBSET Events
  <2>1. Top(t) \in FrameType
    BY <1>2, TopFacts
  <2>. QED BY <2>1 DEF FrameType
<1>4. /\ Shape(S, sends) /\ Inside(S)
      /\ Nested(stack, sends) => Nested(S, sends)
      /\ Listening(stack, handlers) => Listening(S, handlers')
      /\ S \in [Threads -> Seq(FrameType)] /\ stack \in [Threads -> Seq(FrameType)]
      /\ S[t] = Front(stack[t]) /\ \A h \in handlers' : h.event \in Events
  BY <1>2, LeftStructured
<1>5. S[t] # <<>>
  <2>. PICK p : p = TopPlace(stack, t)
    OBVIOUS
  <2>1. p \in Places(stack) /\ On(stack, p) = Top(t) /\ stack[t] # <<>>
    BY <1>2, TopFacts
  <2>2. p[2] > 1 /\ p[2] = Len(stack[t])
    BY <1>2, <2>1 DEF Inside, TopPlace
  <2>3. Len(Front(stack[t])) = Len(stack[t]) - 1 /\ Len(stack[t]) \in Nat
    BY <1>4, <2>1, FrontFacts
  <2>. PICK n, m : n = Len(stack[t]) /\ m = Len(S[t])
    OBVIOUS
  <2>5. n \in Nat /\ n > 1 /\ m = n - 1
    BY <1>4, <2>2, <2>3
  <2>6. m # 0
    BY ONLY <2>5
  <2>4. Len(S[t]) # 0 /\ Len(<<>>) = 0
    BY <2>6
  <2>. QED BY <2>4
<1>6. stack' = Put_top(S, t, g)
  <2>1. stack' = [stack EXCEPT ![t] = Front(S[t]) \o <<g>>]
    BY <1>1, <1>4
  <2>2. Put_top(S, t, g) = [S EXCEPT ![t] = Front(S[t]) \o <<g>>]
    BY DEF Put_top
  <2>3. S = [stack EXCEPT ![t] = S[t]]
    BY <1>4 DEF Pop
  <2>. QED BY <1>4, <2>1, <2>2, <2>3
<1>7. /\ Shape(S, sends) /\ t \in Threads /\ S[t] # <<>> /\ GoodFrame(g)
      /\ Alike(Last(S[t]), g) /\ (Connected(g) <=> Connected(Last(S[t])))
  <2>1. GoodFrame(Last(S[t]))
    BY <1>4, <1>5, LastFacts
  <2>. PICK f : f = Last(S[t])
    OBVIOUS
  <2>2. GoodFrame(f) /\ due \in SUBSET Events /\ g = [f EXCEPT !.due = due]
    BY <1>3, <2>1
  <2>3. GoodFrame(g) /\ Alike(f, g) /\ (Connected(g) <=> Connected(f))
    BY ONLY <2>2, DueAlike
  <2>. QED BY <1>4, <1>5, <2>3
<1>8. /\ Shape(Put_top(S, t, g), sends)
      /\ Nested(S, sends) => Nested(Put_top(S, t, g), sends)
      /\ Listening(S, handlers') => Listening(Put_top(S, t, g), handlers')
      /\ Inside(S) => Inside(Put_top(S, t, g))
  <2>. PICK H : H = handlers'
    OBVIOUS
  <2>1. /\ Shape(Put_top(S, t, g), sends)
        /\ Nested(S, sends) => Nested(Put_top(S, t, g), sends)
        /\ Listening(S, H) => Listening(Put_top(S, t, g), H)
        /\ Inside(S) => Inside(Put_top(S, t, g))
    BY ONLY <1>7, RetopAlike
  <2>. QED BY <2>1
<1>9. faults' \subseteq {"crossed", "collected"} /\ (Apart' => Apart)
  BY <1>1 DEF Structured, Apart
<1>. QED BY <1>2, <1>4, <1>6, <1>8, <1>9 DEF Structured

LEMMA UnwindStructured ==
  ASSUME NEW t \in Threads, Structured, Unwind(t)
  PROVE  Structured'
<1>. PICK S, g : S = Pop(stack, t) /\ g = Leaving(Last(Pop(stack, t)[t]), "unwind")
  OBVIOUS
<1>1. /\ Shape(stack, sends) /\ Inside(stack) /\ undone \in [Threads -> SUBSET Events]
      /\ ~Outside(t) /\ Leaves(t) /\ Disconnect(t)
      /\ sends' = sends /\ faults' = faults
  BY DEF Structured, Unwind, Leaves, Ending, At
<1>2. /\ Shape(S, sends) /\ Inside(S)
      /\ Nested(stack, sends) => Nested(S, sends)
      /\ Listening(stack, handlers) => Listening(S, handlers')
      /\ S[t] # <<>> => Last(S[t]).step = "in"
      /\ S \in [Threads -> Seq(FrameType)] /\ stack \in [Threads -> Seq(FrameType)]
      /\ S[t] = Front(stack[t]) /\ \A h \in handlers' : h.event \in Events
  BY <1>1, LeftStructured
<1>3. undone' \in [Threads -> SUBSET Events]
  <2>1. undone' = undone \/ undone' = [undone EXCEPT ![t] = {}]
    BY DEF Unwind
  <2>. QED BY <1>1, <2>1
<1>4. CASE S[t] = <<>>
  <2>1. stack' = S
    BY <1>2, <1>4 DEF Unwind, Pop
  <2>. QED BY <1>1, <1>2, <1>3, <2>1 DEF Structured, Apart
<1>5. CASE S[t] # <<>>
  <2>1. stack' = Put_top(S, t, g)
    <3>1. stack' = [stack EXCEPT ![t] = Front(S[t]) \o <<g>>]
      BY <1>2, <1>5 DEF Unwind
    <3>2. Put_top(S, t, g) = [S EXCEPT ![t] = Front(S[t]) \o <<g>>]
      BY DEF Put_top
    <3>3. S = [stack EXCEPT ![t] = S[t]]
      BY <1>2 DEF Pop
    <3>. QED BY <1>2, <3>1, <3>2, <3>3
  <2>2. /\ Shape(S, sends) /\ t \in Threads /\ S[t] # <<>> /\ GoodFrame(g)
        /\ Alike(Last(S[t]), g) /\ (Connected(g) <=> Connected(Last(S[t])))
    <3>1. GoodFrame(Last(S[t])) /\ Last(S[t]).step = "in"
      BY <1>2, <1>5, LastFacts
    <3>. QED BY <1>2, <1>5, <3>1, LeavingIs
  <2>3. /\ Shape(Put_top(S, t, g), sends)
        /\ Nested(S, sends) => Nested(Put_top(S, t, g), sends)
        /\ Listening(S, handlers') => Listening(Put_top(S, t, g), handlers')
        /\ Inside(S) => Inside(Put_top(S, t, g))
    <3>. PICK H : H = handlers'
      OBVIOUS
    <3>1. /\ Shape(Put_top(S, t, g), sends)
          /\ Nested(S, sends) => Nested(Put_top(S, t, g), sends)
          /\ Listening(S, H) => Listening(Put_top(S, t, g), H)
          /\ Inside(S) => Inside(Put_top(S, t, g))
      BY ONLY <2>2, RetopAlike
    <3>. QED BY <3>1
  <2>. QED BY <1>1, <1>2, <1>3, <2>1, <2>3 DEF Structured, Apart
<1>. QED BY <1>4, <1>5

LEMMA NextStructured == Structured /\ [Next]_vars => Structured'
<1>. SUFFICES ASSUME Structured, [Next]_vars
              PROVE  Structured'
  OBVIOUS
<1>1. CASE UNCHANGED vars
  BY <1>1 DEF vars, Structured, Apart
<1>2. ASSUME NEW t \in Threads, NEW kind \in Outer[t], EnterOuter(t, kind)
      PROVE  Structured'
  BY <1>2, EnterOuterStructured
<1>3. ASSUME NEW t \in Threads,
             EnterInner(t) \/ Save(t) \/ Install(t) \/ Connect(t) \/ Change(t)
      PROVE  Structured'
  BY <1>3, EnterInnerStructured, SaveStructured, InstallStructured,
     ConnectStructured, ChangeStructured
<1>4. ASSUME NEW t \in Threads,
             SendDue(t) \/ UpdateStores(t) \/ Leave(t) \/ Raise(t) \/ Restore(t)
      PROVE  Structured'
  BY <1>4, SendDueStructured, UpdateStoresStructured, LeaveStructured,
     RestoreStructured
<1>5. ASSUME NEW t \in Threads,
             Callback(t) \/ StoresUpdated(t) \/ Finish(t) \/ Unwind(t)
      PROVE  Structured'
  BY <1>5, CallbackStructured, StoresUpdatedStructured, FinishStructured,
     UnwindStructured
<1>. QED BY <1>1, <1>2, <1>3, <1>4, <1>5 DEF Next

\* Contexts nest, however threads interleave them (the README says how).
THEOREM StructuredAlways == Spec => []Structured
<1>. QED BY InitStructured, NextStructured, PTL DEF Spec

\* A signal is sent by contexts that hold it back, by none of them twice.
THEOREM TypeCorrect == Spec => []TypeOK
<1>1. Structured => TypeOK
  <2>. SUFFICES ASSUME Structured PROVE TypeOK
    OBVIOUS
  <2>1. ASSUME NEW s \in Signals
        PROVE  /\ IsInjective(sends[s])
               /\ \A c \in ToSet(sends[s]) : c[1] \in Threads /\ s \in ToSet(Holds[Kind(c)])
    <3>1. GoodSend(s, sends[s])
      BY DEF Structured, Shape
    <3>2. ASSUME NEW c \in ToSet(sends[s])
          PROVE  c[1] \in Threads /\ s \in ToSet(Holds[Kind(c)])
      <4>1. c \in Id
        BY <3>1 DEF GoodSend, ToSet
      <4>2. c[1] \in Threads
        BY <4>1 DEF Id
      <4>. QED BY <3>1, <4>2 DEF GoodSend, Held
    <3>. QED BY <3>1, <3>2 DEF GoodSend
  <2>2. \A t \in Threads : undone[t] \subseteq Events
    BY DEF Structured
  <2>. QED BY <2>1, <2>2 DEF TypeOK, Structured
<1>. QED BY <1>1, StructuredAlways, PTL

\* The functions that contexts connect hear what their own thread sends in them,
\* and signals are as they were when no thread is in one (suppress_signal).
THEOREM SignalsAsTheyWere == Spec => []SignalsRestored
<1>1. Structured => SignalsRestored
  <2>. SUFFICES ASSUME Structured, Apart
                PROVE  /\ \A h \in handlers : h.at = h.for
                       /\ (\A t \in Threads : Outside(t)) =>
                            handlers = {} /\ \A s \in Signals : sends[s] = <<>>
    BY DEF SignalsRestored
  <2>1. /\ Shape(stack, sends) /\ Nested(stack, sends) /\ Listening(stack, handlers)
    BY DEF Structured
  <2>2. \A h \in handlers : h.at = h.for
    BY <2>1 DEF Listening, Handler
  <2>3. ASSUME \A t \in Threads : Outside(t)
        PROVE  handlers = {} /\ \A s \in Signals : sends[s] = <<>>
    <3>1. Places(stack) = {}
      BY <2>3 DEF Places, Outside
    <3>2. handlers = {}
      BY <2>1, <3>1 DEF Listening
    <3>3. ASSUME NEW s \in Signals
          PROVE  sends[s] = <<>>
      <4>. PICK q : q = sends[s]
        OBVIOUS
      <4>1. q \in Seq(Id)
        BY <2>1 DEF Shape
      <4>2. ~(1 \in 1 .. Len(q))
        BY <2>1, <3>1 DEF Nested
      <4>. QED BY <4>1, <4>2
    <3>. QED BY <3>2, <3>3
  <2>. QED BY <2>2, <2>3
<1>. QED BY <1>1, StructuredAlways, PTL

-----------------------------------------------------------------------------
(* Who hears what a thread sends *)

LEMMA EventFacts ==
  /\ CountStore # SumTP /\ CountStore # Renew /\ SumTP # Renew
  /\ Events = {CountStore, SumTP, Renew}
  /\ CountStore[1] = "update_data" /\ CountStore[2] = "Store"
  /\ SumTP[1] = "update_data" /\ SumTP[2] = "TranslationProject"
  /\ Renew[1] = "update_revisions" /\ Renew[2] = "Store"
BY DEF Events, CountStore, SumTP, Renew

LEMMA HearsAre ==
  /\ Hears["store"] = CountStore /\ Hears["tp"] = CountStore
  /\ Hears["tp_stores"] = SumTP
  /\ Hears["store_callback"] = Renew /\ Hears["tp_callback"] = Renew
BY DEF Hears

\* The innermost context of t that is in the place of a signal is the first that
\* t sends it to.
Holding(q, e, k) ==
  k \in 1 .. Len(q) /\ e[1] \in Put(q[k]) /\ HoldsFrom(Kind(q[k].id), e[2])
LEMMA PlaceIs ==
  ASSUME NEW t \in Threads, Shape(stack, sends), Nested(stack, sends),
         NEW e \in Events
  PROVE  /\ (\A k : ~Holding(stack[t], e, k)) => Place(t, e) = Signal
         /\ \A k : Holding(stack[t], e, k)
                     /\ (\A j : Holding(stack[t], e, j) => j <= k)
                   => Place(t, e) = stack[t][k].id
<1>. PICK s, q : s = e[1] /\ q = sends[e[1]]
  OBVIOUS
<1>1. /\ stack \in [Threads -> Seq(FrameType)] /\ s \in Signals
      /\ q \in Seq(Id) /\ IsInjective(q) /\ DOMAIN q = 1 .. Len(q) /\ Len(q) \in Nat
  BY DEF Shape, GoodSend, Signals
<1>. PICK own : own = {i \in DOMAIN q : q[i][1] = t /\ HoldsFrom(Kind(q[i]), e[2])}
  OBVIOUS
<1>2. own \in SUBSET Nat /\ Place(t, e) = IF own = {} THEN Signal ELSE q[Min(own)]
  BY <1>1 DEF Place
<1>3. ASSUME NEW i \in own
      PROVE  \E p \in Places(stack) :
               /\ On(stack, p).id = q[i] /\ IsTail(On(stack, p).orig[s], q, i)
               /\ p = <<t, p[2]>> /\ p[2] \in Nat /\ Holding(stack[t], e, p[2])
  <2>1. i \in 1 .. Len(q) /\ q[i][1] = t /\ HoldsFrom(Kind(q[i]), e[2])
    BY <1>1
  <2>2. PICK p \in Places(stack) :
          /\ On(stack, p).id = q[i] /\ IsTail(On(stack, p).orig[s], q, i)
          /\ s \in Put(On(stack, p))
    BY <1>1, <2>1 DEF Nested
  <2>3. p[1] = t /\ p[2] \in 1 .. Len(stack[t]) /\ p = <<p[1], p[2]>> /\ p[2] \in Nat
    BY <2>1, <2>2, ShapeFacts
  <2>4. Holding(stack[t], e, p[2])
    BY <2>1, <2>2, <2>3 DEF Holding, On
  <2>. QED BY <2>2, <2>3, <2>4
<1>4. ASSUME \A k : ~Holding(stack[t], e, k)
      PROVE  Place(t, e) = Signal
  <2>1. own = {}
    BY <1>3, <1>4
  <2>. QED BY <1>2, <2>1
<1>5. ASSUME NEW k, Holding(stack[t], e, k), \A j : Holding(stack[t], e, j) => j <= k
      PROVE  Place(t, e) = stack[t][k].id
  <2>. PICK top, c : top = <<t, k>> /\ c = stack[t][k].id
    OBVIOUS
  <2>1. /\ top \in Places(stack) /\ On(stack, top).id = c /\ s \in Put(On(stack, top))
        /\ HoldsFrom(Kind(c), e[2]) /\ top[1] = t /\ top[2] = k /\ k \in Nat
    BY <1>1, <1>5 DEF Holding, Places, On
  <2>2. c \in Id /\ c[1] = t
    BY <2>1, ShapeFacts
  <2>3. PICK j \in 1 .. Len(q) : q[j] = c
    <3>1. c \in ToSet(q)
      BY <1>1, <2>1 DEF Nested
    <3>. QED BY <1>1, <3>1 DEF ToSet
  <2>4. j \in own
    BY <1>1, <2>1, <2>2, <2>3
  <2>5. ASSUME NEW i \in own, i < j
        PROVE  FALSE
    <3>1. PICK p \in Places(stack) :
            /\ On(stack, p).id = q[i] /\ IsTail(On(stack, p).orig[s], q, i)
            /\ p = <<t, p[2]>> /\ p[2] \in Nat /\ Holding(stack[t], e, p[2])
      BY <1>3
    <3>. PICK o : o = On(stack, p).orig[s]
      OBVIOUS
    <3>2. c \in ToSet(o)
      <4>0. On(stack, p).orig \in [Signals -> Seq(Id)]
        BY ONLY ShapeFacts, Shape(stack, sends), p \in Places(stack)
      <4>1. o \in Seq(Id) /\ i \in 1 .. Len(q) /\ i \in Nat /\ Len(o) \in Nat
            /\ DOMAIN o = 1 .. Len(o)
        BY <1>1, <4>0
      <4>2. Len(o) = Len(q) - i /\ \A m \in 1 .. Len(o) : o[m] = q[i + m]
        BY <3>1 DEF IsTail
      <4>3. j - i \in 1 .. Len(o) /\ i + (j - i) = j
        BY <1>1, <2>3, <2>5, <4>1, <4>2
      <4>4. o[j - i] = c
        BY <2>3, <4>2, <4>3
      <4>. QED BY <4>1, <4>3, <4>4 DEF ToSet
    <3>3. p # top
      <4>1. On(stack, top).id \notin ToSet(On(stack, top).orig[s])
        BY <1>1, <2>1, ShapeFacts
      <4>. QED BY <2>1, <3>2, <4>1
    <3>4. p[1] = t /\ p[2] <= k /\ p[2] # k
      BY <1>5, <3>1, <3>3
    <3>5. p[2] < top[2]
      BY <2>1, <3>1, <3>4
    <3>6. On(stack, top).id \notin ToSet(On(stack, p).orig[s])
      BY <1>1, <2>1, <3>4, <3>5 DEF Shape
    <3>. QED BY <2>1, <3>2, <3>6
  <2>6. Min(own) = j
    <3>1. Min(own) \in own /\ Min(own) <= j
      BY <1>2, <2>4, HasLeast
    <3>2. ~(Min(own) < j)
      BY <2>5, <3>1
    <3>. QED BY <1>2, <2>3, <3>1, <3>2
  <2>. QED BY <1>2, <2>3, <2>4, <2>6
<1>. QED BY <1>4, <1>5

\* A thread sends to the signal, or to a context of its own.
LEMMA PlaceOwn ==
  ASSUME NEW t \in Threads, Shape(stack, sends), NEW e \in Events
  PROVE  Place(t, e) = Signal \/ Place(t, e)[1] = t
<1>. PICK s, q : s = e[1] /\ q = sends[e[1]]
  OBVIOUS
<1>1. q \in Seq(Id) /\ DOMAIN q = 1 .. Len(q)
  BY DEF Shape, Signals
<1>. PICK own : own = {i \in DOMAIN q : q[i][1] = t /\ HoldsFrom(Kind(q[i]), e[2])}
  OBVIOUS
<1>2. own \in SUBSET Nat /\ Place(t, e) = IF own = {} THEN Signal ELSE q[Min(own)]
  BY <1>1 DEF Place
<1>3. own # {} => Min(own) \in own
  BY <1>2, HasLeast
<1>. QED BY <1>2, <1>3

\* Contexts hear of it when it is sent to them and they are connected to it.
LEMMA HeardIs ==
  ASSUME NEW t \in Threads, Shape(stack, sends), Listening(stack, handlers),
         NEW e \in Events, NEW p \in Places(stack), NEW x
  PROVE  /\ x \in Heard(t, e, On(stack, p).id)
            <=> /\ x \in Sent(t, e) /\ Place(t, x) = On(stack, p).id
                /\ Connected(On(stack, p)) /\ x = Hears[Kind(On(stack, p).id)]
         /\ p[1] # t => Heard(t, e, On(stack, p).id) = {}
<1>. PICK c, h : c = On(stack, p).id /\ h = [event |-> x, at |-> Place(t, x), for |-> c]
  OBVIOUS
<1>0. h.event = x /\ h.at = Place(t, x) /\ h.for = c /\ c \in Id /\ c[1] = p[1]
  BY ShapeFacts
<1>1. ASSUME NEW y, y \in Heard(t, e, c)
      PROVE  /\ y \in Sent(t, e) /\ Place(t, y) = c
             /\ Connected(On(stack, p)) /\ y = Hears[Kind(c)]
  <2>. PICK g : g = [event |-> y, at |-> Place(t, y), for |-> c]
    OBVIOUS
  <2>1. y \in Sent(t, e) /\ g \in handlers
    BY <1>1 DEF Heard
  <2>2. PICK r \in Places(stack) : Connected(On(stack, r)) /\ g = Handler(On(stack, r).id)
    BY <2>1 DEF Listening
  <2>3. g.for = On(stack, r).id /\ g.at = On(stack, r).id
        /\ g.event = Hears[Kind(On(stack, r).id)]
    BY <2>2 DEF Handler
  <2>4. g.for = c /\ g.at = Place(t, y) /\ g.event = y
    OBVIOUS
  <2>5. r = p
    BY <2>2, <2>3, <2>4 DEF Shape
  <2>. QED BY <2>1, <2>2, <2>3, <2>4, <2>5
<1>2. ASSUME x \in Sent(t, e), Place(t, x) = c,
             Connected(On(stack, p)), x = Hears[Kind(c)]
      PROVE  x \in Heard(t, e, c)
  <2>1. Handler(c) \in handlers
    BY <1>2 DEF Listening
  <2>2. Handler(c) = h
    BY <1>2 DEF Handler
  <2>. QED BY <1>2, <2>1, <2>2 DEF Heard
<1>3. ASSUME p[1] # t, NEW y \in Heard(t, e, c)
      PROVE  FALSE
  <2>1. y \in Events /\ Place(t, y) = c
    BY <1>1, <1>3 DEF Sent, Events
  <2>2. Place(t, y) = Signal \/ Place(t, y)[1] = t
    BY <2>1, PlaceOwn
  <2>3. c # Signal
    BY <1>0 DEF Id, Signal
  <2>. QED BY <1>0, <1>3, <2>1, <2>2, <2>3
<1>. QED BY <1>1, <1>2, <1>3

-----------------------------------------------------------------------------
(* What is sent, and what is left to do *)

LEMMA RestFacts ==
  /\ Rest(Events, Events) = {}
  /\ \A todo : Rest(todo, {}) = todo
  /\ Rest(Events, {CountStore, SumTP}) = {Renew}
  /\ Rest(Events, {CountStore}) = {SumTP, Renew}
  /\ Rest({SumTP, Renew}, {SumTP}) = {Renew}
  /\ Rest({SumTP, Renew}, {Renew}) = {SumTP, Renew}
  /\ Rest({Renew}, {Renew}) = {}
<1>. PICK a, b, c : a = CountStore /\ b = SumTP /\ c = Renew
  OBVIOUS
<1>1. a # b /\ a # c /\ b # c /\ Events = {a, b, c}
  BY EventFacts
<1>2. ASSUME NEW todo, NEW done, NEW e
      PROVE  e \in Rest(todo, done) <=>
               /\ e \in todo
               /\ \/ e \notin done
                  \/ e # a /\ a \in todo /\ a \notin done
                  \/ e = c /\ b \in todo /\ b \notin done
  BY DEF Rest
<1>3. Rest(Events, Events) = {} /\ Rest({c}, {c}) = {}
  BY <1>1, <1>2
<1>4. ASSUME NEW todo
      PROVE  Rest(todo, {}) = todo
  BY <1>2
<1>. HIDE DEF Rest
<1>5. Rest(Events, {a, b}) = {c} /\ Rest(Events, {a}) = {b, c}
  BY <1>1, <1>2
<1>7. ASSUME NEW B, B = {b, c}
      PROVE  Rest(B, {b}) = {c} /\ Rest(B, {c}) = B
  <2>1. a \notin B /\ b \in B /\ c \in B
    BY <1>1, <1>7
  <2>2. ASSUME NEW e
        PROVE  e \in Rest(B, {b}) <=> e = c
    BY <1>1, <1>2, <1>7, <2>1
  <2>3. ASSUME NEW e
        PROVE  e \in Rest(B, {c}) <=> e \in B
    BY <1>1, <1>2, <1>7, <2>1
  <2>. QED BY <2>2, <2>3
<1>6. Rest({b, c}, {b}) = {c} /\ Rest({b, c}, {c}) = {b, c}
  BY <1>7
<1>. QED BY <1>3, <1>4, <1>5, <1>6

\* How often what is in D was done once more.
Again(done, D) ==
  [x \in Events |-> IF x \in D /\ done[x] < 2 THEN done[x] + 1 ELSE done[x]]
LEMMA AgainFacts ==
  /\ Again(Times(0, 0, 0), {}) = Times(0, 0, 0)
  /\ Again(Times(0, 0, 0), {CountStore, SumTP}) = Times(1, 1, 0)
  /\ Again(Times(0, 0, 0), {CountStore}) = Times(1, 0, 0)
  /\ Again(Times(1, 0, 0), {SumTP}) = Times(1, 1, 0)
  /\ Again(Times(1, 0, 0), {Renew}) = Times(1, 0, 1)
  /\ Again(Times(1, 1, 0), {Renew}) = Times(1, 1, 1)
<1>. PICK a, b, c : a = CountStore /\ b = SumTP /\ c = Renew
  OBVIOUS
<1>1. a # b /\ a # c /\ b # c /\ Events = {a, b, c}
  BY EventFacts
<1>2. ASSUME NEW n, NEW m, NEW k
      PROVE  /\ Times(n, m, k)[a] = n /\ Times(n, m, k)[b] = m /\ Times(n, m, k)[c] = k
             /\ Times(n, m, k) = [x \in Events |-> Times(n, m, k)[x]]
  BY <1>1 DEF Times
<1>3. ASSUME NEW done, NEW D, NEW n, NEW m, NEW k,
             n = Again(done, D)[a], m = Again(done, D)[b], k = Again(done, D)[c]
      PROVE  Again(done, D) = Times(n, m, k)
  BY <1>1, <1>3 DEF Again, Times
<1>4. ASSUME NEW done, NEW D, NEW x \in {a, b, c}
      PROVE  Again(done, D)[x]
               = IF x \in D /\ done[x] < 2 THEN done[x] + 1 ELSE done[x]
  BY <1>1 DEF Again
<1>5. 0 < 2 /\ 1 < 2 /\ 0 + 1 = 1
  OBVIOUS
<1>. HIDE DEF Again, Times
<1>6. Again(Times(0, 0, 0), {}) = Times(0, 0, 0)
  BY <1>2, <1>3, <1>4
<1>7. /\ Again(Times(0, 0, 0), {a, b}) = Times(1, 1, 0)
      /\ Again(Times(0, 0, 0), {a}) = Times(1, 0, 0)
  BY <1>1, <1>2, <1>3, <1>4, <1>5
<1>8. /\ Again(Times(1, 0, 0), {b}) = Times(1, 1, 0)
      /\ Again(Times(1, 0, 0), {c}) = Times(1, 0, 1)
      /\ Again(Times(1, 1, 0), {c}) = Times(1, 1, 1)
  BY <1>1, <1>2, <1>3, <1>4, <1>5
<1>. QED BY <1>6, <1>7, <1>8

LEMMA TimesOnce ==
  ASSUME NEW n \in {0, 1}, NEW m \in {0, 1}, NEW k \in {0, 1}
  PROVE  Once(Times(n, m, k)) /\ Times(n, m, k) \in [Events -> Nat]
BY EventFacts DEF Once, Times

\* What a thread sends is nothing to the others.
Others(t) ==
  \A u \in Threads \ {t} :
    stack'[u] = stack[u] /\ undone'[u] = undone[u] /\ times'[u] = times[u]
Sending(t, e, S, todo) ==
  /\ Structured /\ Apart /\ times \in [Threads -> [Events -> Nat]]
  /\ S \in [Threads -> Seq(FrameType)] /\ \A u \in Threads \ {t} : S[u] = stack[u]
  /\ Len(S[t]) <= Len(stack[t])
  /\ \A i \in 1 .. Len(S[t]) : S[t][i].id = stack[t][i].id
  /\ Send(t, e, S, todo)
\* The context g is f, which has heard of H.
Hearer(f, g, H) ==
  g.id = f.id /\ g.step = f.step /\ g.due = f.due /\ g.heard = f.heard \cup H
LEMMA SendIs ==
  ASSUME NEW t \in Threads, NEW e \in Events, NEW S, NEW todo, Sending(t, e, S, todo)
  PROVE  /\ Others(t) /\ times' \in [Threads -> [Events -> Nat]]
         /\ undone'[t] = Rest(todo, Done(t, e))
         /\ ~Outside(t) => times'[t] = Again(times[t], Done(t, e))
         /\ Outside(t) => times'[t] = times[t]
         /\ Len(stack'[t]) = Len(S[t]) /\ (S[t] = <<>> => stack'[t] = <<>>)
         /\ \A i \in 1 .. Len(S[t]) :
              Hearer(S[t][i], stack'[t][i], Heard(t, e, stack[t][i].id))
<1>1. /\ Shape(stack, sends) /\ Listening(stack, handlers)
      /\ undone \in [Threads -> SUBSET Events]
      /\ times \in [Threads -> [Events -> Nat]]
      /\ S \in [Threads -> Seq(FrameType)] /\ \A u \in Threads \ {t} : S[u] = stack[u]
      /\ Len(S[t]) <= Len(stack[t])
      /\ \A i \in 1 .. Len(S[t]) : S[t][i].id = stack[t][i].id
      /\ stack \in [Threads -> Seq(FrameType)]
  BY DEF Sending, Structured, Shape
<1>2. /\ stack' = [u \in Threads |-> [i \in DOMAIN S[u] |->
            [S[u][i] EXCEPT !.heard = @ \cup Heard(t, e, S[u][i].id)]]]
      /\ undone' = [undone EXCEPT ![t] = Rest(todo, Done(t, e))]
      /\ times' = [times EXCEPT ![t] =
           [x \in Events |-> IF ~Outside(t) /\ x \in Done(t, e) /\ @[x] < 2
                             THEN @[x] + 1 ELSE @[x]]]
  BY DEF Sending, Send
<1>3. ASSUME NEW u \in Threads
      PROVE  /\ S[u] \in Seq(FrameType) /\ DOMAIN S[u] = 1 .. Len(S[u])
             /\ Len(S[u]) \in Nat
             /\ stack'[u] = [i \in 1 .. Len(S[u]) |->
                  [S[u][i] EXCEPT !.heard = @ \cup Heard(t, e, S[u][i].id)]]
  <2>1. S[u] \in Seq(FrameType) /\ DOMAIN S[u] = 1 .. Len(S[u]) /\ Len(S[u]) \in Nat
    BY <1>1
  <2>. QED BY <1>2, <2>1
<1>4. ASSUME NEW u \in Threads \ {t}
      PROVE  stack'[u] = stack[u]
  <2>1. S[u] = stack[u] /\ stack[u] = [i \in 1 .. Len(S[u]) |-> S[u][i]]
    BY <1>1, <1>3
  <2>2. ASSUME NEW i \in 1 .. Len(S[u])
        PROVE  [S[u][i] EXCEPT !.heard = @ \cup Heard(t, e, S[u][i].id)] = S[u][i]
    <3>1. <<u, i>> \in Places(stack) /\ On(stack, <<u, i>>) = S[u][i]
      BY <1>1, <1>3 DEF Places, On
    <3>2. Heard(t, e, S[u][i].id) = {}
      BY <1>1, <3>1, HeardIs
    <3>. PICK q, f : q = S[u] /\ f = S[u][i]
      OBVIOUS
    <3>3. f \in FrameType
      <4>1. q \in Seq(FrameType) /\ i \in 1 .. Len(q) /\ f = q[i]
        BY <1>3
      <4>. QED BY ONLY <4>1
    <3>. QED BY <3>2, <3>3 DEF FrameType
  <2>. QED BY <1>3, <2>1, <2>2
<1>5. /\ undone'[t] = Rest(todo, Done(t, e))
      /\ \A u \in Threads \ {t} : undone'[u] = undone[u] /\ times'[u] = times[u]
  BY <1>1, <1>2
<1>6. times'[t] = [x \in Events |-> IF ~Outside(t) /\ x \in Done(t, e) /\ times[t][x] < 2
                                    THEN times[t][x] + 1 ELSE times[t][x]]
  BY <1>1, <1>2
<1>7. /\ ~Outside(t) => times'[t] = Again(times[t], Done(t, e))
      /\ Outside(t) => times'[t] = times[t]
  BY <1>1, <1>6 DEF Again
<1>8. times'[t] \in [Events -> Nat]
  <2>1. \A x \in Events : times[t][x] \in Nat
    BY <1>1
  <2>. QED BY <1>6, <2>1
<1>9. times' \in [Threads -> [Events -> Nat]]
  <2>1. times' = [times EXCEPT ![t] = times'[t]]
    BY <1>1, <1>2
  <2>. QED BY <1>1, <1>8, <2>1
<1>10. /\ Len(stack'[t]) = Len(S[t]) /\ (S[t] = <<>> => stack'[t] = <<>>)
  <2>. PICK n, r, T : n = Len(S[t]) /\ r = stack'[t] /\ T = {r[i] : i \in 1 .. n}
    OBVIOUS
  <2>1. n \in Nat /\ r \in [1 .. n -> T]
    BY <1>3
  <2>2. r \in Seq(T) /\ Len(r) = n
    BY <2>1, SeqDef, LenProperties
  <2>3. S[t] = <<>> => n = 0
    OBVIOUS
  <2>. QED BY <2>2, <2>3, EmptySeq
<1>11. ASSUME NEW i \in 1 .. Len(S[t])
       PROVE  Hearer(S[t][i], stack'[t][i], Heard(t, e, stack[t][i].id))
  <2>. PICK q, f : q = S[t] /\ f = S[t][i]
    OBVIOUS
  <2>1. f \in FrameType /\ f.id = stack[t][i].id
    <3>1. q \in Seq(FrameType)
      BY <1>1
    <3>2. f \in FrameType
      BY <3>1
    <3>. QED BY <1>1, <3>2
  <2>2. stack'[t][i] = [S[t][i] EXCEPT !.heard = S[t][i].heard \cup Heard(t, e, S[t][i].id)]
    BY <1>3
  <2>. QED BY <2>1, <2>2 DEF Hearer, FrameType
<1>. QED BY <1>4, <1>5, <1>7, <1>9, <1>10, <1>11 DEF Others

-----------------------------------------------------------------------------
(* Progressing is inductive: steps that leave what is due *)

LEMMA GoingOnce ==
  ASSUME NEW q, NEW todo, NEW done, NEW F, Going(q, todo, done, F)
  PROVE  Once(done)
<1>1. /\ Once(Times(0, 0, 0)) /\ Once(Times(1, 0, 0)) /\ Once(Times(1, 1, 0))
  BY TimesOnce
<1>. QED BY <1>1 DEF Going, Changing, Following, Counting

LEMMA GoingGrows ==
  ASSUME NEW q, NEW todo, NEW done, NEW F, NEW F2, F \subseteq F2,
         Going(q, todo, done, F)
  PROVE  Going(q, todo, done, F2)
<1>1. Past(todo, F) => Past(todo, F2)
  BY DEF Past
<1>2. Changing(q, todo, done, F) => Changing(q, todo, done, F2)
  BY <1>1 DEF Changing
<1>3. Following(q[1], todo, done, F) => Following(q[1], todo, done, F2)
  BY <1>1 DEF Following
<1>. QED BY <1>1, <1>2, <1>3 DEF Going

\* A step of t keeps Progressing if it does for t.
LEMMA ProgressingStep ==
  ASSUME NEW t \in Threads, Progressing, Others(t), faults \subseteq faults',
         times' \in [Threads -> [Events -> Nat]],
         Apart /\ Apart' => Going(stack'[t], undone'[t], times'[t], faults')
  PROVE  Progressing'
<1>1. Apart' => Apart
  BY DEF Apart
<1>2. ASSUME Apart', NEW u \in Threads
      PROVE  Going(stack'[u], undone'[u], times'[u], faults')
  <2>1. CASE u = t
    BY <1>1, <1>2, <2>1
  <2>2. CASE u # t
    <3>1. /\ Going(stack[u], undone[u], times[u], faults)
          /\ stack'[u] = stack[u] /\ undone'[u] = undone[u] /\ times'[u] = times[u]
      BY <1>1, <1>2, <2>2 DEF Progressing, Others
    <3>. QED BY <3>1, GoingGrows
  <2>. QED BY <2>1, <2>2
<1>. QED BY <1>2 DEF Progressing

\* The stack r is q with g for its innermost context.
Retip(q, r, g) ==
  /\ Len(q) \in Nat \ {0} /\ q # <<>> /\ r # <<>> /\ Len(r) = Len(q)
  /\ r[Len(q)] = g /\ \A k \in 1 .. Len(q) : k # Len(q) => r[k] = q[k]
LEMMA WithTopIs ==
  ASSUME NEW t \in Threads, Structured, ~Outside(t), NEW g \in FrameType, NEW S,
         S = WithTop(t, g)
  PROVE  /\ S \in [Threads -> Seq(FrameType)]
         /\ \A u \in Threads \ {t} : S[u] = stack[u]
         /\ Retip(stack[t], S[t], g) /\ Tip(stack[t]) = Top(t)
<1>1. /\ stack \in [Threads -> Seq(FrameType)] /\ stack[t] # <<>>
      /\ Last(stack[t]) = Top(t)
  BY TopFacts DEF Structured
<1>. PICK q, n : q = stack[t] /\ n = Len(stack[t])
  OBVIOUS
<1>2. n \in Nat \ {0} /\ q # <<>>
  BY <1>1, FrontFacts
<1>3. S = Put_top(stack, t, g)
  BY DEF WithTop, Put_top
<1>4. /\ Moved(stack, S) /\ \A u \in Threads : Len(S[u]) = Len(stack[u])
      /\ \A p \in Places(stack) :
           On(S, p) = IF p = TopPlace(stack, t) THEN g ELSE On(stack, p)
      /\ \A u \in Threads \ {t} : S[u] = stack[u]
  <2>1. /\ stack \in [Threads -> Seq(FrameType)] /\ t \in Threads /\ stack[t] # <<>>
        /\ g \in FrameType
    BY <1>1
  <2>. QED BY ONLY <1>3, <2>1, PutIs
<1>5. ASSUME NEW k \in 1 .. n
      PROVE  S[t][k] = IF k = n THEN g ELSE q[k]
  <2>1. <<t, k>> \in Places(stack)
    BY <1>2 DEF Places
  <2>. QED BY <1>4, <2>1 DEF On, TopPlace
<1>6. S \in [Threads -> Seq(FrameType)] /\ S[t] # <<>>
  <2>1. S \in [Threads -> Seq(FrameType)]
    BY <1>4 DEF Moved
  <2>2. S[t] \in Seq(FrameType) /\ Len(S[t]) # 0
    BY <1>2, <1>4, <2>1
  <2>. QED BY <2>1, <2>2, EmptySeq
<1>7. Tip(stack[t]) = Top(t)
  BY <1>1 DEF Last, Tip
<1>. QED BY <1>2, <1>4, <1>5, <1>6, <1>7 DEF Retip

\* The innermost context goes on with what it has to send and has heard.
GoesOn(f, g) ==
  /\ g.id = f.id /\ g.due = f.due /\ g.heard = f.heard
  /\ (Ending(g) <=> Ending(f)) \/ g.due = {}
  /\ g.step = "unwind" <=> f.step = "unwind"
LEMMA GoesOnGoing ==
  ASSUME NEW q, NEW r, NEW g, Retip(q, r, g), GoesOn(Tip(q), g),
         NEW todo, NEW done, NEW F, Going(q, todo, done, F)
  PROVE  Going(r, todo, done, F)
<1>1. /\ Len(q) \in Nat \ {0} /\ q # <<>> /\ r # <<>> /\ Len(r) = Len(q)
      /\ Tip(r) = g /\ (Tip(r).step = "unwind" <=> Tip(q).step = "unwind")
  BY DEF Retip, GoesOn, Tip
<1>2. ASSUME NEW k \in 1 .. Len(q)
      PROVE  /\ r[k].id = q[k].id /\ r[k].due = q[k].due /\ r[k].heard = q[k].heard
             /\ (Ending(r[k]) <=> Ending(q[k])) \/ r[k].due = {}
  BY DEF Retip, GoesOn, Tip
<1>3. ASSUME NEW k \in 1 .. Len(q)
      PROVE  /\ Hearing(q[k]) => Hearing(r[k])
             /\ Telling(q[k]) => Telling(r[k])
  BY <1>2 DEF Hearing, Telling
<1>4. Waiting(r) <=> Waiting(q)
  BY <1>1, <1>2 DEF Waiting
<1>5. Len(q) \in 1 .. Len(q) /\ Tip(q) = q[Len(q)] /\ Tip(r) = r[Len(q)]
  BY <1>1 DEF Tip
<1>6. Changing(q, todo, done, F) => Changing(r, todo, done, F)
  <2>. SUFFICES ASSUME Changing(q, todo, done, F) PROVE Changing(r, todo, done, F)
    OBVIOUS
  <2>1. \A k \in 1 .. Len(r) : k < Len(r) => Hearing(r[k])
    BY <1>1, <1>3 DEF Changing
  <2>2. Hearing(Tip(r)) \/ (Telling(Tip(r)) /\ Len(r) > 1)
    BY <1>1, <1>3, <1>5 DEF Changing
  <2>3. \A k \in 1 .. Len(r) : k > 1 => Kind(r[k].id) # "tp"
    BY <1>1, <1>2 DEF Changing
  <2>. QED BY <1>4, <2>1, <2>2, <2>3 DEF Changing
<1>7. Len(q) = 1 /\ Following(q[1], todo, done, F) => Following(r[1], todo, done, F)
  <2>. SUFFICES ASSUME Len(q) = 1, Following(q[1], todo, done, F)
                PROVE  Following(r[1], todo, done, F)
    OBVIOUS
  <2>1. /\ r[1].id = q[1].id /\ r[1].due = q[1].due /\ r[1].heard = q[1].heard
        /\ (Ending(r[1]) <=> Ending(q[1])) \/ r[1].due = {}
    BY <1>2
  <2>. QED BY <2>1 DEF Following
<1>8. Len(q) = 2 /\ Counting(q[1], q[2], todo, done) => Counting(r[1], r[2], todo, done)
  <2>. SUFFICES ASSUME Len(q) = 2, Counting(q[1], q[2], todo, done)
                PROVE  Counting(r[1], r[2], todo, done)
    OBVIOUS
  <2>1. /\ r[2].id = q[2].id /\ r[2].due = q[2].due /\ r[2].heard = q[2].heard
        /\ (Ending(r[2]) <=> Ending(q[2])) \/ r[2].due = {}
        /\ r[1].id = q[1].id /\ r[1].due = q[1].due /\ r[1].heard = q[1].heard
    BY <1>2
  <2>. QED BY <2>1 DEF Counting
<1>. QED BY <1>1, <1>6, <1>7, <1>8 DEF Going

\* The innermost context of t becomes one that goes on with what it has.
LEMMA TopProgressing ==
  ASSUME NEW t \in Threads, Structured, Progressing, ~Outside(t), NEW g \in FrameType,
         GoesOn(Top(t), g), stack' = WithTop(t, g),
         undone' = undone, times' = times, faults \subseteq faults'
  PROVE  Progressing'
<1>. PICK S : S = WithTop(t, g)
  OBVIOUS
<1>1. /\ \A u \in Threads \ {t} : S[u] = stack[u]
      /\ Retip(stack[t], S[t], g) /\ Tip(stack[t]) = Top(t)
  BY WithTopIs
<1>2. Others(t) /\ times' \in [Threads -> [Events -> Nat]]
  BY <1>1 DEF Others, Progressing
<1>3. ASSUME Apart
      PROVE  Going(S[t], undone[t], times[t], faults')
  <2>1. Going(stack[t], undone[t], times[t], faults)
    BY <1>3 DEF Progressing
  <2>2. Going(stack[t], undone[t], times[t], faults')
    BY <2>1, GoingGrows
  <2>. PICK q, r, todo, done, F : /\ q = stack[t] /\ r = S[t] /\ todo = undone[t]
                                  /\ done = times[t] /\ F = faults'
    OBVIOUS
  <2>3. Retip(q, r, g) /\ GoesOn(Tip(q), g) /\ Going(q, todo, done, F)
    BY <1>1, <2>2
  <2>4. Going(r, todo, done, F)
    BY ONLY <2>3, GoesOnGoing
  <2>. QED BY <2>4
<1>. QED BY <1>2, <1>3, ProgressingStep

LEMMA SaveProgressing ==
  ASSUME NEW t \in Threads, Structured, Progressing, Save(t)
  PROVE  Progressing'
<1>. PICK f, s : f = Top(t) /\ s = Head(Top(t).signals)
  OBVIOUS
<1>. PICK g : g = [f EXCEPT !.orig[s] = sends[s], !.step = "install"]
  OBVIOUS
<1>1. /\ ~Outside(t) /\ f.step = "save" /\ stack' = WithTop(t, g)
      /\ undone' = undone /\ times' = times /\ faults' = faults
  BY DEF Save, At
<1>2. /\ f \in FrameType /\ sends \in [Signals -> Seq(Id)] /\ GoodFrame(f)
      /\ f.orig \in [Signals -> Seq(Id)] /\ f.signals \in Lists
  BY <1>1, TopFacts DEF Structured
<1>3. s \in Signals
  <2>1. f.signals # <<>>
    BY <1>1, <1>2 DEF GoodFrame, Installing
  <2>. QED BY <1>2, <2>1, ListFacts
<1>4. /\ g.id = f.id /\ g.step = "install" /\ g.due = f.due /\ g.heard = f.heard
      /\ g \in FrameType
  BY <1>2, <1>3 DEF FrameType, Steps
<1>5. GoesOn(Top(t), g)
  BY <1>1, <1>4 DEF GoesOn, Ending
<1>. QED BY <1>1, <1>4, <1>5, TopProgressing

LEMMA InstallProgressing ==
  ASSUME NEW t \in Threads, Structured, Progressing, Install(t)
  PROVE  Progressing'
<1>. PICK f, others : f = Top(t) /\ others = Tail(Top(t).signals)
  OBVIOUS
<1>. PICK step : step = IF others = <<>> THEN "connect" ELSE "save"
  OBVIOUS
<1>. PICK g : g = [f EXCEPT !.signals = others, !.step = step]
  OBVIOUS
<1>1. /\ ~Outside(t) /\ f.step = "install"
      /\ undone' = undone /\ times' = times /\ faults \subseteq faults'
  BY DEF Install, At, Crossing
<1>2. stack' = WithTop(t, g)
  <2>1. stack' = WithTop(t, [Top(t) EXCEPT !.signals = Tail(Top(t).signals),
           !.step = IF Tail(Top(t).signals) = <<>> THEN "connect" ELSE "save"])
    BY DEF Install
  <2>. QED BY <2>1
<1>3. /\ f \in FrameType /\ GoodFrame(f) /\ f.signals \in Lists
  BY <1>1, TopFacts DEF Structured
<1>4. others \in Lists
  <2>1. f.signals # <<>>
    BY <1>1, <1>3 DEF GoodFrame, Installing
  <2>. QED BY <1>3, <2>1, ListFacts
<1>5. step \in {"connect", "save"} /\ step \in Steps
  BY DEF Steps
<1>6. /\ g.id = f.id /\ g.step = step /\ g.due = f.due
      /\ g.heard = f.heard /\ g \in FrameType
  <2>1. f \in FrameType /\ others \in Lists /\ step \in Steps
        /\ g = [f EXCEPT !.signals = others, !.step = step]
    BY <1>3, <1>4, <1>5
  <2>. QED BY ONLY <2>1 DEF FrameType
<1>7. GoesOn(Top(t), g)
  BY <1>1, <1>5, <1>6 DEF GoesOn, Ending
<1>8. /\ t \in Threads /\ Structured /\ Progressing /\ ~Outside(t) /\ g \in FrameType
      /\ GoesOn(Top(t), g) /\ stack' = WithTop(t, g)
      /\ undone' = undone /\ times' = times /\ faults \subseteq faults'
  BY <1>1, <1>2, <1>6, <1>7
<1>. QED BY ONLY <1>8, TopProgressing

LEMMA ConnectProgressing ==
  ASSUME NEW t \in Threads, Structured, Progressing, Connect(t)
  PROVE  Progressing'
<1>. PICK f : f = Top(t)
  OBVIOUS
<1>. PICK g : g = [f EXCEPT !.step = "in"]
  OBVIOUS
<1>1. /\ ~Outside(t) /\ f.step = "connect" /\ stack' = WithTop(t, g)
      /\ undone' = undone /\ times' = times /\ faults' = faults
  BY DEF Connect, At
<1>2. f \in FrameType
  BY <1>1, TopFacts DEF Structured
<1>3. /\ g.id = f.id /\ g.step = "in" /\ g.due = f.due
      /\ g.heard = f.heard /\ g \in FrameType
  BY <1>2 DEF FrameType, Steps
<1>4. GoesOn(Top(t), g)
  BY <1>1, <1>3 DEF GoesOn, Ending
<1>. QED BY <1>1, <1>3, <1>4, TopProgressing

LEMMA RestoreProgressing ==
  ASSUME NEW t \in Threads, Structured, Progressing, Restore(t)
  PROVE  Progressing'
<1>. PICK f, s : f = Top(t) /\ s = Head(Top(t).signals)
  OBVIOUS
<1>. PICK g : g = [f EXCEPT !.orig[s] = <<>>, !.signals = Tail(@)]
  OBVIOUS
<1>1. /\ ~Outside(t) /\ f.step \in {"restore", "unwind"} /\ f.signals # <<>>
      /\ stack' = WithTop(t, g)
      /\ undone' = undone /\ times' = times /\ faults \subseteq faults'
  BY DEF Restore, At, Crossing
<1>2. /\ f \in FrameType /\ f.orig \in [Signals -> Seq(Id)] /\ f.signals \in Lists
  BY <1>1, TopFacts DEF Structured
<1>3. Tail(f.signals) \in Lists
  BY <1>1, <1>2, ListFacts
<1>4. /\ g.id = f.id /\ g.step = f.step /\ g.due = f.due /\ g.heard = f.heard
      /\ g \in FrameType
  <2>1. <<>> \in Seq(Id)
    OBVIOUS
  <2>2. [f.orig EXCEPT ![s] = <<>>] \in [Signals -> Seq(Id)]
    BY <1>2, <2>1
  <2>. QED BY <1>2, <1>3, <2>2 DEF FrameType
<1>5. GoesOn(Top(t), g)
  BY <1>4 DEF GoesOn, Ending
<1>. QED BY <1>1, <1>4, <1>5, TopProgressing

LEMMA LeaveProgressing ==
  ASSUME NEW t \in Threads, Structured, Progressing, Leave(t)
  PROVE  Progressing'
<1>. PICK f : f = Top(t)
  OBVIOUS
<1>. PICK g : g = Leaving(f, "restore")
  OBVIOUS
<1>1. /\ ~Outside(t) /\ f.step = "in" /\ f.due = {} /\ stack' = WithTop(t, g)
      /\ undone' = undone /\ times' = times /\ faults' = faults
  BY DEF Leave, At
<1>2. f \in FrameType /\ GoodFrame(f)
  BY <1>1, TopFacts DEF Structured
<1>3. g \in FrameType
  <2>1. GoodFrame(g)
    BY <1>1, <1>2, LeavingIs
  <2>. QED BY <2>1 DEF GoodFrame
<1>4. /\ g.id = f.id /\ g.step = "restore" /\ g.due = f.due /\ g.heard = f.heard
  BY <1>2 DEF FrameType, Leaving
<1>5. GoesOn(Top(t), g)
  BY <1>1, <1>4 DEF GoesOn
<1>. QED BY <1>1, <1>3, <1>5, TopProgressing

LEMMA RaiseProgressing ==
  ASSUME NEW t \in Threads, Structured, Progressing, Raise(t)
  PROVE  Progressing'
<1>. PICK f : f = Top(t)
  OBVIOUS
<1>. PICK g, S : g = Leaving(f, "unwind") /\ S = WithTop(t, g)
  OBVIOUS
<1>1. /\ ~Outside(t) /\ f.step = "in" /\ stack' = S
      /\ undone' = undone /\ times' = times /\ faults' = faults
  BY DEF Raise, At
<1>2. f \in FrameType /\ GoodFrame(f)
  BY <1>1, TopFacts DEF Structured
<1>3. g \in FrameType
  <2>1. GoodFrame(g)
    BY <1>1, <1>2, LeavingIs
  <2>. QED BY <2>1 DEF GoodFrame
<1>4. g.step = "unwind"
  BY <1>2 DEF FrameType, Leaving
<1>5. /\ \A u \in Threads \ {t} : S[u] = stack[u]
      /\ Retip(stack[t], S[t], g)
  BY <1>1, <1>3, WithTopIs
<1>6. Others(t) /\ times' \in [Threads -> [Events -> Nat]]
  BY <1>1, <1>5 DEF Others, Progressing
<1>7. ASSUME Apart
      PROVE  Going(S[t], undone[t], times[t], faults)
  <2>1. Going(stack[t], undone[t], times[t], faults)
    BY <1>7 DEF Progressing
  <2>2. Once(times[t])
    BY <2>1, GoingOnce
  <2>3. S[t] # <<>> /\ Tip(S[t]) = g
    BY <1>5 DEF Retip, Tip
  <2>. QED BY <1>4, <2>2, <2>3 DEF Going
<1>8. Apart /\ Apart' => Going(stack'[t], undone'[t], times'[t], faults')
  BY <1>1, <1>7
<1>9. faults \subseteq faults'
  BY <1>1
<1>. QED BY <1>6, <1>8, <1>9, ProgressingStep

-----------------------------------------------------------------------------
(* Progressing is inductive: contexts are entered and left *)

\* The stack r is q and g.
Extends(q, r, g) ==
  /\ Len(q) \in Nat /\ r # <<>> /\ Len(r) = Len(q) + 1 /\ Tip(r) = g
  /\ r[Len(q) + 1] = g /\ \A k \in 1 .. Len(q) : r[k] = q[k]
LEMMA AppendIs ==
  ASSUME NEW T, NEW q \in Seq(T), NEW g \in T
  PROVE  Extends(q, Append(q, g), g) /\ Extends(q, q \o <<g>>, g)
<1>. PICK n : n = Len(q)
  OBVIOUS
<1>1. n \in Nat
  OBVIOUS
<1>2. ASSUME NEW r \in Seq(T), Len(r) = n + 1, r[n + 1] = g,
             \A k \in 1 .. n : r[k] = q[k]
      PROVE  Extends(q, r, g)
  <2>1. Len(r) # 0
    BY <1>1, <1>2
  <2>2. r # <<>>
    BY <1>2, <2>1, EmptySeq
  <2>. QED BY <1>1, <1>2, <2>2 DEF Extends, Tip
<1>3. /\ Append(q, g) \in Seq(T) /\ Len(Append(q, g)) = n + 1 /\ Append(q, g)[n + 1] = g
      /\ \A k \in 1 .. n : Append(q, g)[k] = q[k]
  OBVIOUS
<1>4. /\ q \o <<g>> \in Seq(T) /\ Len(q \o <<g>>) = n + 1 /\ (q \o <<g>>)[n + 1] = g
      /\ \A k \in 1 .. n : (q \o <<g>>)[k] = q[k]
  OBVIOUS
<1>. QED BY <1>2, <1>3, <1>4

LEMMA FrameFacts ==
  ASSUME NEW t \in Threads, Structured, NEW kind \in Kinds, NEW due \in SUBSET Events,
         NEW g, g = Frame(t, kind, due)
  PROVE  /\ g \in FrameType /\ Kind(g.id) = kind
         /\ g.step = "save" /\ g.due = due /\ g.heard = {} /\ ~Ending(g)
<1>1. New(stack, sends, t, g) /\ Kind(g.id) = kind
  BY FrameIsNew DEF Structured
<1>2. g.step = "save" /\ g.due = due /\ g.heard = {}
  BY DEF Frame
<1>. QED BY <1>1, <1>2 DEF New, GoodFrame, Ending

\* The contexts of a thread.
Owns(t, i, f) ==
  t \in Threads /\ Structured /\ i \in 1 .. Len(stack[t]) /\ f = stack[t][i]
LEMMA OwnFacts ==
  ASSUME NEW t, NEW i, NEW f, Owns(t, i, f)
  PROVE  /\ <<t, i>> \in Places(stack) /\ On(stack, <<t, i>>) = f
         /\ GoodFrame(f) /\ f \in FrameType /\ f.id \in Id /\ f.id # Signal
         /\ Kind(f.id) \in Kinds
         /\ i < Len(stack[t]) => f.step = "in"
         /\ f.step = "in" => Put(f) = Held(f.id) /\ Connected(f) /\ ~Ending(f)
         /\ Ending(f) /\ f.signals = <<>> => Put(f) = {}
         /\ "update_revisions" \in Held(f.id)
         /\ "update_data" \in Held(f.id) <=> Kind(f.id) \in {"store", "tp", "tp_stores"}
<1>. USE DEF Owns
<1>. PICK p : p = <<t, i>>
  OBVIOUS
<1>1. Shape(stack, sends) /\ Len(stack[t]) \in Nat
  <2>1. stack[t] \in Seq(FrameType)
    BY DEF Structured, Shape
  <2>. QED BY <2>1 DEF Structured
<1>2. p \in Places(stack) /\ On(stack, p) = f /\ p[1] = t /\ p[2] = i
  BY <1>1 DEF Places, On
<1>3. GoodFrame(f) /\ f \in FrameType /\ f.id \in Id
  BY <1>1, <1>2, ShapeFacts
<1>4. f.id # Signal /\ Kind(f.id) \in Kinds
  BY ONLY <1>3 DEF Id, Kind, Signal
<1>5. i < Len(stack[t]) => f.step = "in"
  BY <1>1, <1>2 DEF Shape, Innermost
<1>6. f.step = "in" => Put(f) = Held(f.id) /\ Connected(f) /\ ~Ending(f)
  <2>1. f.step = "in" => f.signals = <<>> /\ ~Ending(f) /\ Connected(f)
    BY <1>3 DEF GoodFrame, Ending, Installing, Connected
  <2>. QED BY <2>1, ToSetsAre DEF Put
<1>7. Ending(f) /\ f.signals = <<>> => Put(f) = {}
  BY ToSetsAre DEF Put
<1>. QED BY <1>2, <1>3, <1>4, <1>5, <1>6, <1>7, HeldFacts

LEMMA OwnAlone ==
  ASSUME NEW t, NEW i, NEW f, NEW j, NEW g, Owns(t, i, f), Owns(t, j, g), f.id = g.id
  PROVE  i = j
<1>. PICK p, r : p = <<t, i>> /\ r = <<t, j>>
  OBVIOUS
<1>1. p \in Places(stack) /\ On(stack, p) = f /\ r \in Places(stack) /\ On(stack, r) = g
  BY OwnFacts
<1>2. p = r
  BY <1>1 DEF Owns, Structured, Shape
<1>. QED BY <1>2

\* The innermost context of a thread, and what comes before it.
LEMMA TipFacts ==
  ASSUME NEW t \in Threads, Structured, ~Outside(t), NEW q, NEW f,
         q = stack[t], f = Top(t)
  PROVE  /\ q \in Seq(FrameType) /\ q # <<>> /\ Len(q) \in Nat \ {0}
         /\ Tip(q) = f /\ q[Len(q)] = f /\ f \in FrameType /\ Len(q) \in 1 .. Len(q)
         /\ Front(q) \in Seq(FrameType) /\ Len(Front(q)) = Len(q) - 1
         /\ \A k \in 1 .. Len(q) - 1 : Front(q)[k] = q[k]
         /\ Len(q) = 1 <=> Front(q) = <<>>
<1>1. q \in Seq(FrameType) /\ q # <<>> /\ Last(q) = f /\ f \in FrameType
  BY TopFacts DEF Structured
<1>2. /\ Front(q) \in Seq(FrameType) /\ Len(Front(q)) = Len(q) - 1
      /\ \A k \in 1 .. Len(q) - 1 : Front(q)[k] = q[k]
      /\ Last(q) = q[Len(q)] /\ Len(q) \in Nat \ {0}
  BY <1>1, FrontFacts
<1>3. Front(q) = <<>> <=> Len(Front(q)) = 0
  BY <1>2, EmptySeq
<1>4. Len(q) = 1 <=> Front(q) = <<>>
  BY <1>2, <1>3
<1>. QED BY <1>1, <1>2, <1>4 DEF Tip

LEMMA UnwindProgressing ==
  ASSUME NEW t \in Threads, Structured, Progressing, Unwind(t)
  PROVE  Progressing'
<1>. PICK q, f, r : q = stack[t] /\ f = Top(t) /\ r = Front(stack[t])
  OBVIOUS
<1>. PICK g : g = Leaving(Last(r), "unwind")
  OBVIOUS
<1>1. ~Outside(t) /\ times' = times /\ faults' = faults
  BY DEF Unwind, At
<1>2. /\ stack \in [Threads -> Seq(FrameType)] /\ undone \in [Threads -> SUBSET Events]
      /\ r \in Seq(FrameType)
  BY <1>1, TipFacts DEF Structured, Shape
<1>3. Others(t) /\ times' \in [Threads -> [Events -> Nat]]
  <2>1. undone' = undone \/ undone' = [undone EXCEPT ![t] = {}]
    BY DEF Unwind
  <2>2. \E x : stack' = [stack EXCEPT ![t] = x]
    BY DEF Unwind
  <2>. QED BY <1>1, <1>2, <2>1, <2>2 DEF Others, Progressing
<1>4. ASSUME Apart
      PROVE  Once(times'[t])
  <2>1. Going(stack[t], undone[t], times[t], faults)
    BY <1>4 DEF Progressing
  <2>. QED BY <1>1, <2>1, GoingOnce
<1>5. CASE r = <<>>
  <2>1. stack'[t] = <<>> /\ undone'[t] = {}
    BY <1>2, <1>5 DEF Unwind
  <2>2. Apart => Going(stack'[t], undone'[t], times'[t], faults')
    BY <1>4, <2>1 DEF Going, Past
  <2>. QED BY <1>1, <1>3, <2>2, ProgressingStep
<1>6. CASE r # <<>>
  <2>1. stack'[t] = Front(r) \o <<g>>
    BY <1>2, <1>6 DEF Unwind
  <2>2. Front(r) \in Seq(FrameType) /\ Last(r) \in FrameType
    BY <1>2, <1>6, FrontFacts
  <2>3. GoodFrame(Last(r)) /\ Last(r).step = "in"
    <3>. PICK m : m = Len(q) - 1
      OBVIOUS
    <3>1. /\ Len(q) \in Nat \ {0} /\ Len(r) = m /\ m # 0
          /\ \A k \in 1 .. m : r[k] = q[k]
      <4>1. /\ Len(q) \in Nat \ {0} /\ Len(r) = m /\ (Len(q) = 1 <=> r = <<>>)
            /\ \A k \in 1 .. Len(q) - 1 : r[k] = q[k]
        BY <1>1, TipFacts
      <4>. QED BY <1>6, <4>1
    <3>2. Last(r) = r[m]
      BY <1>2, <1>6, <3>1, FrontFacts
    <3>. PICK n, x : n = Len(q) /\ x = Last(r)
      OBVIOUS
    <3>3. n \in Nat \ {0} /\ m = n - 1 /\ m # 0
      BY <3>1
    <3>4. m \in 1 .. n /\ m < n
      BY ONLY <3>3
    <3>5. m \in 1 .. m
      BY ONLY <3>3
    <3>6. m \in 1 .. Len(stack[t]) /\ m < Len(stack[t]) /\ x = stack[t][m]
      BY <3>1, <3>2, <3>4, <3>5
    <3>7. Owns(t, m, x)
      BY <3>6 DEF Owns
    <3>8. GoodFrame(x) /\ (m < Len(stack[t]) => x.step = "in")
      BY <3>7, OwnFacts
    <3>. QED BY <3>6, <3>8
  <2>4. GoodFrame(g)
    BY <2>3, LeavingIs
  <2>5. g \in FrameType /\ g.step = "unwind"
    BY <2>2, <2>4 DEF GoodFrame, Leaving, FrameType
  <2>6. Extends(Front(r), stack'[t], g)
    BY <2>1, <2>2, <2>5, AppendIs
  <2>7. Apart => Going(stack'[t], undone'[t], times'[t], faults')
    BY <1>4, <2>5, <2>6 DEF Going, Extends
  <2>. QED BY <1>1, <1>3, <2>7, ProgressingStep
<1>. QED BY <1>5, <1>6

\* A context is entered in those that are there.
Entered(g, kind, due) ==
  /\ g \in FrameType /\ Kind(g.id) = kind
  /\ g.step = "save" /\ g.due = due /\ g.heard = {} /\ ~Ending(g)
LEMMA NewFrameIs ==
  ASSUME NEW t \in Threads, Structured, NEW frames \in Seq(FrameType), NEW kind \in Kinds,
         NEW due \in SUBSET Events, NewFrame(t, frames, kind, due)
  PROVE  /\ \A u \in Threads \ {t} : stack'[u] = stack[u]
         /\ \E g : Entered(g, kind, due) /\ Extends(frames, stack'[t], g)
<1>. PICK g : g = Frame(t, kind, due)
  OBVIOUS
<1>1. stack \in [Threads -> Seq(FrameType)]
  BY DEF Structured, Shape
<1>2. Entered(g, kind, due)
  BY FrameFacts DEF Entered
<1>3. stack'[t] = Append(frames, g) /\ \A u \in Threads \ {t} : stack'[u] = stack[u]
  BY <1>1 DEF NewFrame
<1>4. Extends(frames, Append(frames, g), g)
  BY <1>2, AppendIs DEF Entered
<1>. QED BY <1>2, <1>3, <1>4

LEMMA EnterOuterProgressing ==
  ASSUME NEW t \in Threads, NEW kind \in Outer[t], Structured, Progressing,
         EnterOuter(t, kind)
  PROVE  Progressing'
<1>. PICK none, frames : none = {} /\ frames = <<>>
  OBVIOUS
<1>1. /\ Outside(t) /\ NewFrame(t, frames, kind, none) /\ undone' = undone
      /\ faults' = faults /\ times' = [times EXCEPT ![t] = [e \in Events |-> 0]]
  BY DEF EnterOuter
<1>2. kind \in {"store", "tp"} /\ kind \in Kinds
  BY OuterAssumption DEF Kinds
<1>3. frames \in Seq(FrameType) /\ none \in SUBSET Events /\ Len(frames) = 0
  OBVIOUS
<1>4. /\ \A u \in Threads \ {t} : stack'[u] = stack[u]
      /\ \E g : Entered(g, kind, none) /\ Extends(frames, stack'[t], g)
  <2>1. /\ t \in Threads /\ Structured /\ frames \in Seq(FrameType) /\ kind \in Kinds
        /\ none \in SUBSET Events /\ NewFrame(t, frames, kind, none)
    BY <1>1, <1>2, <1>3
  <2>. QED BY ONLY <2>1, NewFrameIs
<1>5. PICK g : Entered(g, kind, none) /\ Extends(frames, stack'[t], g)
  BY <1>4
<1>6. /\ times'[t] = Times(0, 0, 0) /\ times' \in [Threads -> [Events -> Nat]]
      /\ \A u \in Threads \ {t} : times'[u] = times[u]
  BY <1>1 DEF Progressing, Times
<1>7. Others(t)
  BY <1>1, <1>4, <1>6 DEF Others
<1>8. ASSUME Apart
      PROVE  Going(stack'[t], undone'[t], times'[t], faults')
  <2>1. Past(undone[t], faults)
    <3>1. Going(stack[t], undone[t], times[t], faults) /\ stack[t] = <<>>
      BY <1>1, <1>8 DEF Progressing, Outside
    <3>. QED BY <3>1 DEF Going
  <2>. PICK r : r = stack'[t]
    OBVIOUS
  <2>2. /\ Len(r) = 1 /\ r[1] = g /\ Tip(r) = g /\ r # <<>>
    BY <1>3, <1>5 DEF Extends
  <2>3. Hearing(g) /\ g.due = {} /\ g.heard = {} /\ g.step # "unwind"
    BY <1>2, <1>5 DEF Hearing, Entered
  <2>4. ~Waiting(r)
    BY <2>2, <2>3 DEF Waiting
  <2>5. \A k \in 1 .. Len(r) : ~(k < Len(r)) /\ ~(k > 1)
    BY <2>2
  <2>6. Changing(r, undone[t], Times(0, 0, 0), faults)
    BY <2>1, <2>2, <2>3, <2>4, <2>5 DEF Changing
  <2>7. Going(r, undone[t], Times(0, 0, 0), faults)
    BY <2>2, <2>3, <2>6 DEF Going
  <2>. QED BY <1>1, <1>6, <2>7
<1>. QED BY <1>1, <1>6, <1>7, <1>8, ProgressingStep

\* In the body of an outer context changes are made.
LEMMA ChangingIs ==
  ASSUME NEW q, NEW todo, NEW done, NEW F, Going(q, todo, done, F), q # <<>>,
         Len(q) \in Nat \ {0}, Kind(Tip(q).id) \in {"store", "tp"}, Tip(q).step # "unwind"
  PROVE  /\ Changing(q, todo, done, F) /\ Hearing(Tip(q))
         /\ \A k \in 1 .. Len(q) : Hearing(q[k])
         /\ done = Times(0, 0, 0)
         /\ IF Waiting(q) THEN todo = Events ELSE Past(todo, F)
         /\ \A k \in 1 .. Len(q) : k > 1 => Kind(q[k].id) # "tp"
<1>1. ~(Len(q) = 1 /\ Following(q[1], todo, done, F))
  BY DEF Following, Tip
<1>2. ~(Len(q) = 2 /\ Counting(q[1], q[2], todo, done))
  BY DEF Counting, Tip
<1>3. Changing(q, todo, done, F)
  BY <1>1, <1>2 DEF Going
<1>4. Hearing(Tip(q)) /\ \A k \in 1 .. Len(q) : k < Len(q) => Hearing(q[k])
  BY <1>3 DEF Changing, Telling
<1>5. ASSUME NEW k \in 1 .. Len(q)
      PROVE  Hearing(q[k])
  <2>1. k < Len(q) \/ k = Len(q)
    OBVIOUS
  <2>. QED BY <1>4, <2>1 DEF Tip
<1>. QED BY <1>3, <1>4, <1>5 DEF Changing

LEMMA EnterInnerProgressing ==
  ASSUME NEW t \in Threads, Structured, Progressing, EnterInner(t)
  PROVE  Progressing'
<1>. PICK q, none, kind, n : q = stack[t] /\ none = {} /\ kind = "store" /\ n = Len(stack[t])
  OBVIOUS
<1>1. /\ ~Outside(t) /\ Top(t).step = "in" /\ Kind(Top(t).id) \in {"store", "tp"}
      /\ NewFrame(t, q, kind, none)
      /\ undone' = undone /\ faults' = faults /\ times' = times
  BY DEF EnterInner, Body, At
<1>2. /\ q \in Seq(FrameType) /\ q # <<>> /\ n \in Nat \ {0} /\ Tip(q) = Top(t)
      /\ none \in SUBSET Events /\ kind \in Kinds
  BY <1>1, TipFacts DEF Kinds
<1>3. /\ \A u \in Threads \ {t} : stack'[u] = stack[u]
      /\ \E g : Entered(g, kind, none) /\ Extends(q, stack'[t], g)
  <2>1. /\ t \in Threads /\ Structured /\ q \in Seq(FrameType) /\ kind \in Kinds
        /\ none \in SUBSET Events /\ NewFrame(t, q, kind, none)
    BY <1>1, <1>2
  <2>. QED BY ONLY <2>1, NewFrameIs
<1>4. PICK g : Entered(g, kind, none) /\ Extends(q, stack'[t], g)
  BY <1>3
<1>5. Others(t) /\ times' \in [Threads -> [Events -> Nat]]
  BY <1>1, <1>3 DEF Others, Progressing
<1>6. ASSUME Apart
      PROVE  Going(stack'[t], undone'[t], times'[t], faults')
  <2>. PICK r, todo, done, F : r = stack'[t] /\ todo = undone[t] /\ done = times[t] /\ F = faults
    OBVIOUS
  <2>1. Going(q, todo, done, F)
    BY <1>6 DEF Progressing
  <2>2. /\ Changing(q, todo, done, F) /\ done = Times(0, 0, 0)
        /\ \A k \in 1 .. n : Hearing(q[k])
        /\ IF Waiting(q) THEN todo = Events ELSE Past(todo, F)
        /\ \A k \in 1 .. n : k > 1 => Kind(q[k].id) # "tp"
    <3>1. /\ Going(q, todo, done, F) /\ q # <<>> /\ Len(q) \in Nat \ {0}
          /\ Kind(Tip(q).id) \in {"store", "tp"} /\ Tip(q).step # "unwind"
      BY <1>1, <1>2, <2>1
    <3>. QED BY <3>1, ChangingIs
  <2>3. /\ r # <<>> /\ Len(r) = n + 1 /\ Tip(r) = g /\ r[n + 1] = g
        /\ \A k \in 1 .. n : r[k] = q[k]
    BY <1>4 DEF Extends
  <2>4. /\ Hearing(g) /\ g.due = {} /\ g.heard = {} /\ g.step # "unwind"
        /\ Kind(g.id) # "tp"
    BY <1>4 DEF Hearing, Entered
  <2>5. \A k \in 1 .. n + 1 : k \in 1 .. n \/ k = n + 1
    BY <1>2
  <2>6. \A k \in 1 .. n + 1 : Hearing(r[k]) /\ (k > 1 => Kind(r[k].id) # "tp")
    BY <2>2, <2>3, <2>4, <2>5
  <2>7. Waiting(r) <=> Waiting(q)
    <3>1. \A k \in 1 .. n : k \in 1 .. n + 1
      BY <1>2
    <3>2. g.due \cup g.heard = {}
      BY <2>4
    <3>. QED BY <2>3, <2>5, <3>1, <3>2 DEF Waiting
  <2>8. Changing(r, todo, done, F)
    BY <2>2, <2>3, <2>4, <2>6, <2>7 DEF Changing
  <2>9. Going(r, todo, done, F)
    BY <2>3, <2>4, <2>8 DEF Going
  <2>. QED BY <1>1, <2>9
<1>. QED BY <1>1, <1>5, <1>6, ProgressingStep

LEMMA CallbackProgressing ==
  ASSUME NEW t \in Threads, Structured, Progressing, Callback(t)
  PROVE  Progressing'
<1>. PICK q, f, n, low, kind, due :
       /\ q = stack[t] /\ f = Top(t) /\ n = Len(stack[t]) /\ low = Front(stack[t])
       /\ kind = SentIn[Kind(f.id)] /\ due = f.heard
  OBVIOUS
<1>1. /\ ~Outside(t) /\ f.step = "restore" /\ Kind(f.id) \in {"store", "tp"}
      /\ NewFrame(t, low, kind, due)
      /\ undone' = undone /\ faults' = faults /\ times' = times
  BY DEF Callback, Left, At
<1>2. /\ q \in Seq(FrameType) /\ q # <<>> /\ n \in Nat \ {0} /\ Tip(q) = f /\ q[n] = f
      /\ f \in FrameType /\ low \in Seq(FrameType) /\ Len(low) = n - 1
      /\ \A k \in 1 .. n - 1 : low[k] = q[k]
  BY <1>1, TipFacts
<1>3. /\ kind \in {"store_callback", "tp_callback"} /\ kind \in Kinds
      /\ (Kind(f.id) # "tp" => kind = "store_callback") /\ due \in SUBSET Events
  <2>1. kind = IF Kind(f.id) = "tp" THEN "tp_callback" ELSE "store_callback"
    BY <1>1 DEF SentIn
  <2>. QED BY <1>2, <2>1 DEF FrameType, Kinds
<1>4. /\ \A u \in Threads \ {t} : stack'[u] = stack[u]
      /\ \E g : Entered(g, kind, due) /\ Extends(low, stack'[t], g)
  <2>1. /\ t \in Threads /\ Structured /\ low \in Seq(FrameType) /\ kind \in Kinds
        /\ due \in SUBSET Events /\ NewFrame(t, low, kind, due)
    BY <1>1, <1>2, <1>3
  <2>. QED BY ONLY <2>1, NewFrameIs
<1>5. PICK g : Entered(g, kind, due) /\ Extends(low, stack'[t], g)
  BY <1>4
<1>6. Others(t) /\ times' \in [Threads -> [Events -> Nat]]
  BY <1>1, <1>4 DEF Others, Progressing
<1>7. ASSUME Apart
      PROVE  Going(stack'[t], undone'[t], times'[t], faults')
  <2>. PICK r, todo, done, F : r = stack'[t] /\ todo = undone[t] /\ done = times[t] /\ F = faults
    OBVIOUS
  <2>1. Going(q, todo, done, F)
    BY <1>7 DEF Progressing
  <2>2. /\ done = Times(0, 0, 0)
        /\ \A k \in 1 .. n : Hearing(q[k])
        /\ IF Waiting(q) THEN todo = Events ELSE Past(todo, F)
        /\ \A k \in 1 .. n : k > 1 => Kind(q[k].id) # "tp"
    <3>1. /\ Going(q, todo, done, F) /\ q # <<>> /\ Len(q) \in Nat \ {0}
          /\ Kind(Tip(q).id) \in {"store", "tp"} /\ Tip(q).step # "unwind"
      BY <1>1, <1>2, <2>1
    <3>. QED BY <3>1, ChangingIs
  <2>3. /\ r # <<>> /\ Len(r) = n /\ Tip(r) = g /\ r[n] = g
        /\ \A k \in 1 .. n - 1 : r[k] = q[k]
    <3>1. Len(low) + 1 = n
      BY <1>2
    <3>. QED BY <1>2, <1>5, <3>1 DEF Extends
  <2>4. /\ Kind(g.id) = kind /\ g.due = due /\ g.heard = {} /\ g.step # "unwind"
        /\ ~Ending(g)
    BY <1>5 DEF Entered
  <2>5. n \in 1 .. n /\ f.due = {} /\ due \subseteq {CountStore}
    <3>1. n \in 1 .. n
      BY <1>2
    <3>. QED BY <1>2, <2>2, <3>1 DEF Hearing
  <2>6. \A k \in 1 .. n : k = n \/ (k \in 1 .. n - 1 /\ k < n)
    BY <1>2
  <2>7. Waiting(r) <=> Waiting(q)
    <3>1. g.due \cup g.heard = f.due \cup f.heard
      BY <2>4, <2>5
    <3>. QED BY <1>2, <2>3, <2>6, <3>1 DEF Waiting
  <2>8. CASE n = 1
    <3>1. Waiting(q) <=> due # {}
      <4>1. f.due \cup f.heard = due
        BY <2>5
      <4>2. \A k \in 1 .. n : k = n
        BY <2>8
      <4>. QED BY <1>2, <2>5, <4>1, <4>2 DEF Waiting
    <3>2. due = {} \/ due = {CountStore}
      BY <2>5
    <3>3. Following(g, todo, done, F)
      BY <1>3, <2>2, <2>4, <3>1, <3>2 DEF Following
    <3>4. r[1] = g
      BY <2>3, <2>8
    <3>. QED BY <1>1, <2>3, <2>4, <2>8, <3>3, <3>4 DEF Going
  <2>9. CASE n > 1
    <3>1. kind = "store_callback"
      BY <1>2, <1>3, <2>2, <2>5, <2>9
    <3>2. Telling(g)
      BY <2>4, <2>5, <3>1 DEF Telling
    <3>3. \A k \in 1 .. n : /\ k < n => Hearing(r[k])
                            /\ k > 1 => Kind(r[k].id) # "tp"
      BY <1>2, <2>2, <2>3, <2>4, <2>6, <3>1
    <3>4. Changing(r, todo, done, F)
      BY <2>2, <2>3, <2>7, <2>9, <3>2, <3>3 DEF Changing
    <3>. QED BY <1>1, <2>3, <2>4, <3>4 DEF Going
  <2>10. n = 1 \/ n > 1
    <3>1. n \in Nat \ {0}
      BY <1>2
    <3>. QED BY ONLY <3>1
  <2>. QED BY <2>8, <2>9, <2>10
<1>. QED BY <1>1, <1>6, <1>7, ProgressingStep

LEMMA UpdateStoresProgressing ==
  ASSUME NEW t \in Threads, Structured, Progressing, UpdateStores(t)
  PROVE  Progressing'
<1>. PICK q, f, n, low, kind, due, none :
       /\ q = stack[t] /\ f = Top(t) /\ n = Len(stack[t]) /\ low = Front(stack[t])
       /\ kind = "tp_stores" /\ due = {CountStore} /\ none = {}
  OBVIOUS
<1>. PICK g : g = [f EXCEPT !.due = none]
  OBVIOUS
<1>. PICK frames : frames = low \o <<g>>
  OBVIOUS
<1>1. /\ ~Outside(t) /\ f.step = "in" /\ Kind(f.id) = "tp_callback" /\ CountStore \in f.due
      /\ undone' = undone /\ faults' = faults /\ times' = times
  BY DEF UpdateStores, At
<1>2. NewFrame(t, frames, kind, due)
  BY DEF UpdateStores
<1>3. /\ q # <<>> /\ n \in Nat \ {0} /\ Tip(q) = f /\ q[n] = f
      /\ f \in FrameType /\ low \in Seq(FrameType) /\ Len(low) = n - 1
  BY <1>1, TipFacts
<1>4. /\ g \in FrameType /\ g.id = f.id /\ g.due = {} /\ g.heard = f.heard
  BY <1>3 DEF FrameType
<1>5. /\ kind \in Kinds /\ due \in SUBSET Events /\ frames \in Seq(FrameType)
      /\ Extends(low, frames, g)
  <2>1. kind \in Kinds /\ due \in SUBSET Events
    BY DEF Kinds, Events
  <2>2. low \in Seq(FrameType) /\ g \in FrameType /\ frames = low \o <<g>>
    BY <1>3, <1>4
  <2>3. frames \in Seq(FrameType)
    BY ONLY <2>2
  <2>4. Extends(low, frames, g)
    BY ONLY <2>2, AppendIs
  <2>. QED BY <2>1, <2>3, <2>4
<1>6. /\ \A u \in Threads \ {t} : stack'[u] = stack[u]
      /\ \E h : Entered(h, kind, due) /\ Extends(frames, stack'[t], h)
  <2>1. /\ t \in Threads /\ Structured /\ frames \in Seq(FrameType) /\ kind \in Kinds
        /\ due \in SUBSET Events /\ NewFrame(t, frames, kind, due)
    BY <1>2, <1>5
  <2>. QED BY ONLY <2>1, NewFrameIs
<1>7. PICK h : Entered(h, kind, due) /\ Extends(frames, stack'[t], h)
  BY <1>6
<1>8. Others(t) /\ times' \in [Threads -> [Events -> Nat]]
  BY <1>1, <1>6 DEF Others, Progressing
<1>9. ASSUME Apart
      PROVE  Going(stack'[t], undone'[t], times'[t], faults')
  <2>. PICK r, todo, done, F : r = stack'[t] /\ todo = undone[t] /\ done = times[t] /\ F = faults
    OBVIOUS
  <2>1. Going(q, todo, done, F)
    BY <1>9 DEF Progressing
  <2>2. ~Changing(q, todo, done, F) /\ ~(n = 2 /\ Counting(q[1], q[2], todo, done))
    BY <1>1, <1>3 DEF Changing, Hearing, Telling, Counting
  <2>3. n = 1 /\ Following(f, todo, done, F)
    BY <1>1, <1>3, <2>1, <2>2 DEF Going
  <2>4. /\ f.due = {CountStore} /\ f.heard = {} /\ todo = Events /\ done = Times(0, 0, 0)
    <3>1. CountStore \notin {} /\ CountStore \notin {SumTP}
      BY EventFacts
    <3>. QED BY <1>1, <2>3, <3>1 DEF Following
  <2>5. /\ r # <<>> /\ Len(r) = 2 /\ Tip(r) = h /\ r[1] = g /\ r[2] = h
    <3>1. Len(low) = 0
      BY <1>3, <2>3
    <3>2. Len(frames) = 1 /\ frames[1] = g
      BY <1>5, <3>1 DEF Extends
    <3>3. Extends(frames, r, h)
      BY <1>7
    <3>. QED BY ONLY <3>2, <3>3 DEF Extends
  <2>6. /\ Kind(h.id) = kind /\ h.due = due /\ h.heard = {} /\ h.step # "unwind"
        /\ ~Ending(h)
    BY <1>7 DEF Entered
  <2>7. Counting(g, h, todo, done)
    BY <1>1, <1>4, <2>4, <2>6 DEF Counting
  <2>. QED BY <1>1, <2>5, <2>6, <2>7 DEF Going
<1>. QED BY <1>1, <1>8, <1>9, ProgressingStep

LEMMA StoresUpdatedProgressing ==
  ASSUME NEW t \in Threads, Structured, Progressing, StoresUpdated(t)
  PROVE  Progressing'
<1>. PICK q, f, n, low :
       /\ q = stack[t] /\ f = Top(t) /\ n = Len(stack[t]) /\ low = Front(stack[t])
  OBVIOUS
<1>1. /\ ~Outside(t) /\ f.step = "restore" /\ Kind(f.id) = "tp_stores"
      /\ undone' = undone /\ times' = times
  BY DEF StoresUpdated, Left, At
<1>2. PICK gone \in BOOLEAN :
        /\ stack' = [stack EXCEPT ![t] = Front(low) \o
             <<[Last(low) EXCEPT !.due = IF gone THEN {} ELSE f.heard]>>]
        /\ faults' = faults \cup (IF gone THEN {"collected"} ELSE {})
  BY DEF StoresUpdated
<1>. PICK due : due = IF gone THEN {} ELSE f.heard
  OBVIOUS
<1>. PICK g : g = [Last(low) EXCEPT !.due = due]
  OBVIOUS
<1>3. stack' = [stack EXCEPT ![t] = Front(low) \o <<g>>]
  BY <1>2
<1>4. /\ q # <<>> /\ n \in Nat \ {0} /\ Tip(q) = f /\ q[n] = f
      /\ f \in FrameType /\ low \in Seq(FrameType) /\ Len(low) = n - 1
      /\ \A k \in 1 .. n - 1 : low[k] = q[k]
  BY <1>1, TipFacts
<1>5. stack \in [Threads -> Seq(FrameType)]
  BY DEF Structured, Shape
<1>6. Others(t) /\ times' \in [Threads -> [Events -> Nat]] /\ stack'[t] = Front(low) \o <<g>>
  <2>1. \A u \in Threads \ {t} : stack'[u] = stack[u]
    BY <1>3, <1>5
  <2>2. stack'[t] = Front(low) \o <<g>>
    BY <1>3, <1>5
  <2>. QED BY <1>1, <2>1, <2>2 DEF Others, Progressing
<1>7. ASSUME Apart
      PROVE  Going(stack'[t], undone'[t], times'[t], faults')
  <2>. PICK r, todo, done, F : r = stack'[t] /\ todo = undone[t] /\ done = times[t] /\ F = faults
    OBVIOUS
  <2>1. Going(q, todo, done, F)
    BY <1>7 DEF Progressing
  <2>2. /\ ~Changing(q, todo, done, F)
        /\ ~(n = 1 /\ Following(q[1], todo, done, F))
    BY <1>1, <1>4 DEF Changing, Hearing, Telling, Following
  <2>3. n = 2 /\ Counting(q[1], f, todo, done)
    BY <1>1, <1>4, <2>1, <2>2 DEF Going
  <2>4. /\ Kind(q[1].id) = "tp_callback" /\ q[1].due = {} /\ q[1].heard = {Renew}
        /\ f.heard = {SumTP} /\ todo = {SumTP, Renew} /\ done = Times(1, 0, 0)
    BY <1>1, <2>3 DEF Counting, Ending
  <2>. PICK h : h = q[1]
    OBVIOUS
  <2>5. Len(low) = 1 /\ low[1] = h
    BY <1>4, <2>3
  <2>6. low # <<>> /\ Last(low) = h /\ h \in FrameType /\ Front(low) \in Seq(FrameType)
        /\ Len(Front(low)) = 0
    <3>1. low # <<>>
      BY <1>4, <2>5, EmptySeq
    <3>. QED BY <1>4, <2>5, <3>1, FrontFacts
  <2>7. h.step = "in"
    <3>1. Owns(t, 1, h) /\ 1 < Len(stack[t])
      BY <2>3 DEF Owns
    <3>. QED BY <3>1, OwnFacts
  <2>8. due \in SUBSET Events /\ due = (IF gone THEN {} ELSE {SumTP})
    BY <2>4 DEF Events
  <2>9. /\ g \in FrameType /\ g.id = h.id /\ g.due = due /\ g.heard = {Renew}
        /\ g.step = "in" /\ ~Ending(g)
    <3>1. g = [h EXCEPT !.due = due] /\ h \in FrameType /\ due \in SUBSET Events
          /\ h.step = "in" /\ h.heard = {Renew}
      BY <2>4, <2>6, <2>7, <2>8
    <3>. QED BY ONLY <3>1 DEF FrameType, Ending
  <2>10. r # <<>> /\ Len(r) = 1 /\ r[1] = g /\ Tip(r) = g
    <3>1. Extends(Front(low), r, g)
      <4>1. r = Front(low) \o <<g>> /\ Front(low) \in Seq(FrameType) /\ g \in FrameType
        BY <1>6, <2>6, <2>9
      <4>. QED BY ONLY <4>1, AppendIs
    <3>2. Len(Front(low)) = 0
      BY <2>6
    <3>. QED BY ONLY <3>1, <3>2 DEF Extends
  <2>11. Following(g, todo, done, faults')
    <3>1. gone => "collected" \in faults'
      BY <1>2
    <3>. QED BY <2>4, <2>8, <2>9, <3>1 DEF Following
  <2>. QED BY <1>1, <2>9, <2>10, <2>11 DEF Going
<1>8. faults \subseteq faults'
  BY <1>2
<1>. QED BY <1>6, <1>7, <1>8, ProgressingStep

-----------------------------------------------------------------------------
(* Progressing is inductive: what is sent *)

\* A thread sends to the innermost of its contexts that holds it back.
LEMMA PlaceAt ==
  ASSUME NEW t \in Threads, Structured, Apart, NEW e \in Events
  PROVE  /\ (\A j \in 1 .. Len(stack[t]) : ~Holding(stack[t], e, j)) => Place(t, e) = Signal
         /\ \A k \in 1 .. Len(stack[t]) :
              /\ Holding(stack[t], e, k)
              /\ \A j \in 1 .. Len(stack[t]) : j > k => ~Holding(stack[t], e, j)
              => Place(t, e) = stack[t][k].id
<1>. PICK q, n : q = stack[t] /\ n = Len(stack[t])
  OBVIOUS
<1>1. Shape(stack, sends) /\ Nested(stack, sends)
  BY DEF Structured
<1>2. \A j : Holding(q, e, j) => j \in 1 .. n
  BY DEF Holding
<1>3. ASSUME \A j \in 1 .. n : ~Holding(q, e, j)
      PROVE  Place(t, e) = Signal
  BY <1>1, <1>2, <1>3, PlaceIs
<1>4. ASSUME NEW k \in 1 .. n, Holding(q, e, k),
             \A j \in 1 .. n : j > k => ~Holding(q, e, j)
      PROVE  Place(t, e) = q[k].id
  <2>1. \A j : Holding(q, e, j) => j <= k
    <3>1. ASSUME NEW j, Holding(q, e, j)
          PROVE  j <= k
      <4>1. j \in 1 .. n /\ ~(j > k)
        BY <1>2, <1>4, <3>1
      <4>. QED BY <4>1
    <3>. QED BY <3>1
  <2>. QED BY <1>1, <1>4, <2>1, PlaceIs
<1>. QED BY <1>3, <1>4

\* What a context hears that goes on.
HearsIn(t, e, i, f, h) ==
  /\ t \in Threads /\ Structured /\ Apart /\ e \in Events
  /\ i \in 1 .. Len(stack[t]) /\ f = stack[t][i] /\ f.step = "in"
  /\ h = Hears[Kind(f.id)]
LEMMA HeardAt ==
  ASSUME NEW t, NEW e, NEW i, NEW f, NEW h, HearsIn(t, e, i, f, h)
  PROVE  /\ h \in Sent(t, e) /\ Place(t, h) = f.id => Heard(t, e, f.id) = {h}
         /\ h \notin Sent(t, e) \/ Place(t, h) # f.id => Heard(t, e, f.id) = {}
<1>. USE DEF HearsIn
<1>. PICK p : p = <<t, i>>
  OBVIOUS
<1>1. p \in Places(stack) /\ On(stack, p) = f /\ Connected(f)
  BY OwnFacts DEF Owns
<1>2. Shape(stack, sends) /\ Listening(stack, handlers)
  BY DEF Structured
<1>3. ASSUME NEW x
      PROVE  x \in Heard(t, e, f.id) <=> x \in Sent(t, e) /\ Place(t, x) = f.id /\ x = h
  BY <1>1, <1>2, HeardIs
<1>. PICK H : H = Heard(t, e, f.id)
  OBVIOUS
<1>4. \A x : x \in H <=> x \in Sent(t, e) /\ Place(t, x) = f.id /\ x = h
  BY <1>3
<1>5. h \in Sent(t, e) /\ Place(t, h) = f.id => H = {h}
  BY <1>4
<1>6. h \notin Sent(t, e) \/ Place(t, h) # f.id => H = {}
  BY <1>4
<1>. QED BY <1>5, <1>6

\* A change outside of contexts is done at once.
LEMMA ChangeOutside ==
  ASSUME NEW t \in Threads, Structured, Progressing, Apart, Change(t), Outside(t)
  PROVE  Others(t) /\ times' \in [Threads -> [Events -> Nat]]
         /\ Going(stack'[t], undone'[t], times'[t], faults')
<1>. PICK e : e = CountStore
  OBVIOUS
<1>0. e \in Events /\ e = CountStore /\ faults' = faults
  BY DEF Change, Events
<1>1. stack \in [Threads -> Seq(FrameType)] /\ times \in [Threads -> [Events -> Nat]]
      /\ stack[t] = <<>>
  BY DEF Structured, Shape, Progressing, Outside
<1>2. Sending(t, e, stack, Events)
  <2>1. Send(t, e, stack, Events)
    BY <1>0 DEF Change
  <2>2. Len(stack[t]) = 0
    BY <1>1
  <2>. QED BY <1>1, <2>1, <2>2 DEF Sending
<1>3. /\ Others(t) /\ times' \in [Threads -> [Events -> Nat]]
      /\ undone'[t] = Rest(Events, Done(t, e))
      /\ times'[t] = times[t] /\ stack'[t] = <<>>
  <2>. PICK S, todo : S = stack /\ todo = Events
    OBVIOUS
  <2>1. t \in Threads /\ e \in Events /\ Sending(t, e, S, todo) /\ Outside(t)
        /\ S[t] = <<>>
    BY <1>0, <1>1, <1>2
  <2>2. /\ Others(t) /\ times' \in [Threads -> [Events -> Nat]]
        /\ undone'[t] = Rest(todo, Done(t, e))
        /\ times'[t] = times[t] /\ stack'[t] = <<>>
    BY ONLY <2>1, SendIs
  <2>. QED BY <2>2
<1>4. \A x \in Events : Place(t, x) = Signal
  <2>1. 1 .. Len(stack[t]) = {}
    BY <1>1
  <2>. QED BY <2>1, PlaceAt
<1>5. Done(t, e) = Events
  <2>1. Sent(t, e) = Events
    BY <1>0, <1>4 DEF Sent
  <2>. QED BY <1>4, <2>1 DEF Done
<1>6. Past(undone'[t], faults')
  BY <1>3, <1>5, RestFacts DEF Past
<1>7. Once(times'[t])
  <2>1. Going(stack[t], undone[t], times[t], faults)
    BY DEF Progressing
  <2>. QED BY <1>3, <2>1, GoingOnce
<1>. QED BY <1>3, <1>6, <1>7 DEF Going

\* A change in the body of a context is held back, and heard of there.
LEMMA ChangeInside ==
  ASSUME NEW t \in Threads, Structured, Progressing, Apart, Change(t), Body(t)
  PROVE  Others(t) /\ times' \in [Threads -> [Events -> Nat]]
         /\ Going(stack'[t], undone'[t], times'[t], faults')
<1>. PICK e, q, f, n, todo, done, F :
       /\ e = CountStore /\ q = stack[t] /\ f = Top(t) /\ n = Len(stack[t])
       /\ todo = undone[t] /\ done = times[t] /\ F = faults
  OBVIOUS
<1>1. e \in Events /\ e = CountStore /\ faults' = faults /\ ~Outside(t) /\ f.step = "in"
      /\ Kind(f.id) \in {"store", "tp"}
  BY DEF Change, Events, Body, At
<1>2. /\ q \in Seq(FrameType) /\ q # <<>> /\ n \in Nat \ {0} /\ Tip(q) = f /\ q[n] = f
      /\ f \in FrameType /\ n \in 1 .. n
  BY <1>1, TipFacts
<1>3. /\ done = Times(0, 0, 0)
      /\ \A k \in 1 .. n : Hearing(q[k])
      /\ \A k \in 1 .. n : k > 1 => Kind(q[k].id) # "tp"
  <2>0. Going(q, todo, done, F)
    BY DEF Progressing
  <2>1. /\ Going(q, todo, done, F) /\ q # <<>> /\ Len(q) \in Nat \ {0}
        /\ Kind(Tip(q).id) \in {"store", "tp"} /\ Tip(q).step # "unwind"
    BY <1>1, <1>2, <2>0
  <2>. QED BY <2>1, ChangingIs
<1>4. \A x \in Events : Place(t, x) = f.id
  <2>1. Put(f) = Held(f.id) /\ "update_revisions" \in Held(f.id)
        /\ "update_data" \in Held(f.id)
    <3>1. Owns(t, n, f)
      BY <1>2 DEF Owns
    <3>. QED BY <1>1, <3>1, OwnFacts
  <2>2. \A x \in Events : x[1] \in Put(f) /\ HoldsFrom(Kind(f.id), x[2])
    BY <1>1, <2>1, EventFacts DEF HoldsFrom
  <2>. QED BY <1>1, <2>2, PlaceTop DEF Structured
<1>5. f.id # Signal
  <2>1. Owns(t, n, f)
    BY <1>2 DEF Owns
  <2>. QED BY <2>1, OwnFacts
<1>6. Sent(t, e) = {e} /\ Done(t, e) = {}
  <2>1. Sent(t, e) = {e}
    BY <1>1, <1>4, <1>5 DEF Sent
  <2>. QED BY <1>1, <1>4, <1>5, <2>1 DEF Done
<1>7. Sending(t, e, stack, Events)
  <2>1. Send(t, e, stack, Events)
    BY <1>1 DEF Change
  <2>2. stack \in [Threads -> Seq(FrameType)] /\ Len(stack[t]) <= Len(stack[t])
    BY <1>2 DEF Structured, Shape
  <2>. QED BY <2>1, <2>2 DEF Sending, Progressing
<1>8. /\ Others(t) /\ times' \in [Threads -> [Events -> Nat]]
      /\ undone'[t] = Rest(Events, {})
      /\ times'[t] = Again(done, {}) /\ Len(stack'[t]) = n
      /\ \A k \in 1 .. n : Hearer(q[k], stack'[t][k], Heard(t, e, q[k].id))
  <2>. PICK S, all : S = stack /\ all = Events
    OBVIOUS
  <2>1. t \in Threads /\ e \in Events /\ Sending(t, e, S, all) /\ ~Outside(t)
    BY <1>1, <1>7
  <2>2. /\ Others(t) /\ times' \in [Threads -> [Events -> Nat]]
        /\ undone'[t] = Rest(all, Done(t, e))
        /\ times'[t] = Again(times[t], Done(t, e))
        /\ Len(stack'[t]) = Len(S[t])
        /\ \A k \in 1 .. Len(S[t]) :
             Hearer(S[t][k], stack'[t][k], Heard(t, e, stack[t][k].id))
    BY ONLY <2>1, SendIs
  <2>. QED BY <1>6, <2>2
<1>9. undone'[t] = Events /\ times'[t] = Times(0, 0, 0)
  BY <1>3, <1>8, RestFacts, AgainFacts
<1>10. ASSUME NEW k \in 1 .. n
       PROVE  Heard(t, e, q[k].id) = IF k = n THEN {e} ELSE {}
  <2>. PICK g, h : g = stack[t][k] /\ h = Hears[Kind(g.id)]
    OBVIOUS
  <2>1. g = q[k] /\ g.step = "in" /\ (k # n => g.id # f.id)
    <3>1. Owns(t, k, g) /\ Owns(t, n, f) /\ (k # n => k < Len(stack[t]))
      BY <1>2 DEF Owns
    <3>2. k < Len(stack[t]) => g.step = "in"
      BY <3>1, OwnFacts
    <3>3. k # n => g.id # f.id
      BY <3>1, OwnAlone
    <3>. QED BY <1>1, <1>2, <3>1, <3>2, <3>3
  <2>2. h = e
    BY <1>1, <1>3, <2>1, HearsAre DEF Hearing
  <2>3. /\ h \in Sent(t, e) /\ Place(t, h) = g.id => Heard(t, e, g.id) = {h}
        /\ h \notin Sent(t, e) \/ Place(t, h) # g.id => Heard(t, e, g.id) = {}
    <3>1. HearsIn(t, e, k, g, h)
      BY <1>1, <2>1 DEF HearsIn
    <3>. QED BY ONLY <3>1, HeardAt
  <2>4. Place(t, h) = f.id /\ h \in Sent(t, e)
    BY <1>1, <1>4, <1>6, <2>2
  <2>5. CASE k = n
    BY <1>2, <2>1, <2>2, <2>3, <2>4, <2>5
  <2>6. CASE k # n
    BY <2>1, <2>3, <2>4, <2>6
  <2>. QED BY <2>5, <2>6
<1>. PICK r : r = stack'[t]
  OBVIOUS
<1>11. ASSUME NEW k \in 1 .. n
       PROVE  Hearing(r[k]) /\ r[k].id = q[k].id /\ r[k].step = q[k].step
              /\ (k = n => r[k].heard # {})
  <2>1. Hearer(q[k], r[k], IF k = n THEN {e} ELSE {})
    BY <1>8, <1>10
  <2>2. Hearing(q[k])
    BY <1>3
  <2>. QED BY <1>1, <2>1, <2>2 DEF Hearer, Hearing
<1>12. r # <<>> /\ Len(r) = n /\ Tip(r) = r[n] /\ r[n].step = "in" /\ r[n].heard # {}
  BY <1>1, <1>2, <1>8, <1>11 DEF Tip
<1>13. Waiting(r)
  BY <1>2, <1>12 DEF Waiting
<1>14. Changing(r, Events, Times(0, 0, 0), F)
  BY <1>2, <1>3, <1>11, <1>12, <1>13 DEF Changing
<1>15. Going(r, Events, Times(0, 0, 0), F)
  BY <1>12, <1>14 DEF Going
<1>. QED BY <1>1, <1>8, <1>9, <1>15

LEMMA SendTimes ==
  ASSUME NEW t \in Threads, NEW e, NEW S, NEW todo, Send(t, e, S, todo),
         times \in [Threads -> [Events -> Nat]]
  PROVE  times' \in [Threads -> [Events -> Nat]]
<1>. PICK d, D, out : d = times[t] /\ D = Done(t, e) /\ (out <=> Outside(t))
  OBVIOUS
<1>. PICK d2 : d2 = [x \in Events |-> IF ~out /\ x \in D /\ d[x] < 2 THEN d[x] + 1 ELSE d[x]]
  OBVIOUS
<1>1. d2 \in [Events -> Nat]
  OBVIOUS
<1>2. times' = [times EXCEPT ![t] = [x \in Events |->
         IF ~Outside(t) /\ x \in Done(t, e) /\ times[t][x] < 2
         THEN times[t][x] + 1 ELSE times[t][x]]]
  BY DEF Send
<1>3. times' = [times EXCEPT ![t] = d2]
  BY <1>2
<1>. QED BY <1>1, <1>3

LEMMA ChangeProgressing ==
  ASSUME NEW t \in Threads, Structured, Progressing, Change(t)
  PROVE  Progressing'
<1>1. Outside(t) \/ Body(t)
  BY DEF Change
<1>2. CASE Apart
  <2>1. /\ Others(t) /\ times' \in [Threads -> [Events -> Nat]]
        /\ Going(stack'[t], undone'[t], times'[t], faults')
    BY <1>1, <1>2, ChangeOutside, ChangeInside
  <2>2. faults \subseteq faults'
    BY DEF Change
  <2>. QED BY <2>1, <2>2, ProgressingStep
<1>3. CASE ~Apart
  <2>1. ~Apart'
    BY <1>3 DEF Change, Apart
  <2>2. times' \in [Threads -> [Events -> Nat]]
    BY <1>1, SendTimes DEF Change, Progressing
  <2>. QED BY <2>1, <2>2 DEF Progressing
<1>. QED BY <1>2, <1>3

\* What each kind of context holds back while its body goes on.
LEMMA HoldingIs ==
  ASSUME NEW t, NEW k, NEW f, Owns(t, k, f), f.step = "in", NEW x \in Events
  PROVE  Holding(stack[t], x, k)
           <=> /\ x = Renew \/ Kind(f.id) \in {"store", "tp", "tp_stores"}
               /\ Kind(f.id) = "tp_stores" => x = SumTP
<1>1. /\ Put(f) = Held(f.id) /\ "update_revisions" \in Held(f.id)
      /\ "update_data" \in Held(f.id) <=> Kind(f.id) \in {"store", "tp", "tp_stores"}
  BY OwnFacts
<1>2. k \in 1 .. Len(stack[t]) /\ stack[t][k] = f
  BY DEF Owns
<1>3. x[1] \in Held(f.id)
        <=> x = Renew \/ Kind(f.id) \in {"store", "tp", "tp_stores"}
  BY <1>1, EventFacts
<1>4. x[2] = "TranslationProject" <=> x = SumTP
  BY EventFacts
<1>. QED BY <1>1, <1>2, <1>3, <1>4 DEF Holding, HoldsFrom

\* What was heard in another context is sent.
DueSent(t, e) ==
  /\ Others(t) /\ times' \in [Threads -> [Events -> Nat]]
  /\ ~Outside(t) /\ Top(t).step = "in" /\ e \in Top(t).due /\ e \in Events
  /\ undone'[t] = Rest(undone[t], Done(t, e)) /\ times'[t] = Again(times[t], Done(t, e))
  /\ Len(stack'[t]) = Len(stack[t])
  /\ \A k \in 1 .. Len(stack[t]) :
       /\ stack'[t][k].id = stack[t][k].id /\ stack'[t][k].step = stack[t][k].step
       /\ stack'[t][k].heard = stack[t][k].heard \cup Heard(t, e, stack[t][k].id)
       /\ stack'[t][k].due = stack[t][k].due \ (IF k = Len(stack[t]) THEN {e} ELSE {})
LEMMA SendDueIs ==
  ASSUME NEW t \in Threads, Structured, Progressing, Apart, SendDue(t)
  PROVE  \E e : DueSent(t, e)
<1>. PICK q, f, n : q = stack[t] /\ f = Top(t) /\ n = Len(stack[t])
  OBVIOUS
<1>1. ~Outside(t) /\ f.step = "in"
  BY DEF SendDue, At
<1>2. PICK e \in f.due :
        Send(t, e, WithTop(t, [f EXCEPT !.due = @ \ {e}]), undone[t])
  BY DEF SendDue
<1>. PICK g : g = [f EXCEPT !.due = @ \ {e}]
  OBVIOUS
<1>. PICK S, todo : S = WithTop(t, g) /\ todo = undone[t]
  OBVIOUS
<1>3. Send(t, e, S, todo)
  BY <1>2
<1>4. /\ q \in Seq(FrameType) /\ q # <<>> /\ n \in Nat \ {0} /\ Tip(q) = f /\ q[n] = f
      /\ f \in FrameType /\ n \in 1 .. n
  BY <1>1, TipFacts
<1>5. e \in Events /\ g \in FrameType /\ g.id = f.id /\ g.step = f.step
      /\ g.heard = f.heard /\ g.due = f.due \ {e}
  <2>1. e \in Events /\ f.due \ {e} \in SUBSET Events
    BY <1>4 DEF FrameType
  <2>. QED BY <1>4, <2>1 DEF FrameType
<1>6. /\ S \in [Threads -> Seq(FrameType)]
      /\ \A u \in Threads \ {t} : S[u] = stack[u]
      /\ Len(S[t]) = n /\ S[t][n] = g /\ \A k \in 1 .. n : k # n => S[t][k] = q[k]
  <2>1. t \in Threads /\ Structured /\ ~Outside(t) /\ g \in FrameType /\ S = WithTop(t, g)
    BY <1>1, <1>5
  <2>2. /\ S \in [Threads -> Seq(FrameType)]
        /\ \A u \in Threads \ {t} : S[u] = stack[u]
        /\ Retip(stack[t], S[t], g)
    BY ONLY <2>1, WithTopIs
  <2>. QED BY <2>2 DEF Retip
<1>7. \A k \in 1 .. n : /\ S[t][k].id = q[k].id /\ S[t][k].step = q[k].step
                        /\ S[t][k].heard = q[k].heard
                        /\ S[t][k].due = q[k].due \ (IF k = n THEN {e} ELSE {})
  BY <1>4, <1>5, <1>6
<1>8. Sending(t, e, S, todo)
  <2>1. Len(S[t]) <= Len(stack[t])
    BY <1>4, <1>6
  <2>2. \A k \in 1 .. Len(S[t]) : S[t][k].id = stack[t][k].id
    BY <1>6, <1>7
  <2>. QED BY <1>3, <1>6, <2>1, <2>2 DEF Sending, Progressing
<1>9. /\ Others(t) /\ times' \in [Threads -> [Events -> Nat]]
      /\ undone'[t] = Rest(todo, Done(t, e))
      /\ times'[t] = Again(times[t], Done(t, e))
      /\ Len(stack'[t]) = n
      /\ \A k \in 1 .. n : Hearer(S[t][k], stack'[t][k], Heard(t, e, stack[t][k].id))
  <2>1. t \in Threads /\ e \in Events /\ Sending(t, e, S, todo) /\ ~Outside(t)
    BY <1>1, <1>5, <1>8
  <2>2. /\ Others(t) /\ times' \in [Threads -> [Events -> Nat]]
        /\ undone'[t] = Rest(todo, Done(t, e))
        /\ times'[t] = Again(times[t], Done(t, e))
        /\ Len(stack'[t]) = Len(S[t])
        /\ \A k \in 1 .. Len(S[t]) :
             Hearer(S[t][k], stack'[t][k], Heard(t, e, stack[t][k].id))
    BY ONLY <2>1, SendIs
  <2>. QED BY <1>6, <2>2
<1>10. ASSUME NEW k \in 1 .. n
       PROVE  /\ stack'[t][k].id = q[k].id /\ stack'[t][k].step = q[k].step
              /\ stack'[t][k].heard = q[k].heard \cup Heard(t, e, q[k].id)
              /\ stack'[t][k].due = q[k].due \ (IF k = n THEN {e} ELSE {})
  <2>. PICK a, b, c, H, X : /\ a = q[k] /\ b = S[t][k] /\ c = stack'[t][k]
                            /\ H = Heard(t, e, q[k].id)
                            /\ X = IF k = n THEN {e} ELSE {}
    OBVIOUS
  <2>1. b.id = a.id /\ b.step = a.step /\ b.heard = a.heard /\ b.due = a.due \ X
    BY <1>7
  <2>2. Hearer(b, c, H)
    BY <1>9
  <2>3. /\ c.id = a.id /\ c.step = a.step /\ c.heard = a.heard \cup H
        /\ c.due = a.due \ X
    BY ONLY <2>1, <2>2 DEF Hearer
  <2>. QED BY <2>3
<1>. QED BY <1>1, <1>5, <1>9, <1>10 DEF DueSent

\* In an inner context: the outer one hears of it, and nothing is done yet.
LEMMA DueChanging ==
  ASSUME NEW t \in Threads, Structured, Apart, NEW e, DueSent(t, e), NEW F,
         Changing(stack[t], undone[t], times[t], F)
  PROVE  Going(stack'[t], undone'[t], times'[t], F)
<1>. PICK q, f, n, m, g, todo, done, r :
       /\ q = stack[t] /\ f = Top(t) /\ n = Len(stack[t]) /\ m = Len(stack[t]) - 1
       /\ g = stack[t][Len(stack[t]) - 1]
       /\ todo = undone[t] /\ done = times[t] /\ r = stack'[t]
  OBVIOUS
<1>1. /\ ~Outside(t) /\ f.step = "in" /\ e \in f.due /\ e \in Events
      /\ undone'[t] = Rest(todo, Done(t, e)) /\ times'[t] = Again(done, Done(t, e))
      /\ Len(r) = n
  BY DEF DueSent
<1>2. \A k \in 1 .. n :
        /\ r[k].id = q[k].id /\ r[k].step = q[k].step
        /\ r[k].heard = q[k].heard \cup Heard(t, e, q[k].id)
        /\ r[k].due = q[k].due \ (IF k = n THEN {e} ELSE {})
  BY DEF DueSent
<1>3. /\ q # <<>> /\ n \in Nat \ {0} /\ Tip(q) = f /\ q[n] = f /\ n \in 1 .. n
  BY <1>1, TipFacts
<1>4. /\ Telling(f) /\ n > 1 /\ done = Times(0, 0, 0)
      /\ \A k \in 1 .. n : k < n => Hearing(q[k])
      /\ \A k \in 1 .. n : k > 1 => Kind(q[k].id) # "tp"
      /\ Waiting(q) => todo = Events
  BY <1>1, <1>3 DEF Changing, Hearing
<1>5. e = CountStore /\ f.heard = {} /\ f.due = {e} /\ Kind(f.id) = "store_callback"
  BY <1>1, <1>4 DEF Telling
<1>6. todo = Events
  <2>1. Waiting(q)
    BY <1>1, <1>3 DEF Waiting
  <2>. QED BY <1>4, <2>1
<1>7. /\ m \in 1 .. n /\ m < n /\ g = q[m]
      /\ \A k \in 1 .. n : k > m => k = n
      /\ \A k \in 1 .. n : k # n => k < n
  <2>1. n \in Nat /\ n > 1 /\ m = n - 1
    BY <1>3, <1>4
  <2>2. /\ m \in 1 .. n /\ m < n
        /\ \A k \in 1 .. n : k > m => k = n
        /\ \A k \in 1 .. n : k # n => k < n
    BY ONLY <2>1
  <2>. QED BY <2>2
<1>8. Owns(t, n, f) /\ Owns(t, m, g)
  BY <1>3, <1>7 DEF Owns
<1>9. g.step = "in" /\ g.id # Signal /\ Kind(g.id) \in {"store", "tp"}
  <2>1. m < Len(stack[t]) /\ Hearing(g)
    BY <1>4, <1>7
  <2>. QED BY <1>8, <2>1, OwnFacts DEF Hearing
<1>10. Place(t, e) = g.id
  <2>1. Holding(q, e, m)
    BY <1>1, <1>5, <1>8, <1>9, HoldingIs
  <2>2. ~Holding(q, e, n)
    BY <1>1, <1>5, <1>8, HoldingIs, EventFacts
  <2>3. \A k \in 1 .. n : k > m => ~Holding(q, e, k)
    BY <1>7, <2>2
  <2>. QED BY <1>1, <1>7, <2>1, <2>3, PlaceAt
<1>11. Sent(t, e) = {e} /\ Done(t, e) = {}
  <2>1. Sent(t, e) = {e}
    BY <1>9, <1>10 DEF Sent
  <2>. QED BY <1>9, <1>10, <2>1 DEF Done
<1>12. undone'[t] = Events /\ times'[t] = Times(0, 0, 0)
  BY <1>1, <1>4, <1>6, <1>11, RestFacts, AgainFacts
<1>13. ASSUME NEW k \in 1 .. n
       PROVE  Heard(t, e, q[k].id) = IF k = m THEN {e} ELSE {}
  <2>. PICK x, h : x = stack[t][k] /\ h = Hears[Kind(x.id)]
    OBVIOUS
  <2>1. Owns(t, k, x) /\ x = q[k]
    BY DEF Owns
  <2>2. x.step = "in"
    <3>1. k < Len(stack[t]) => x.step = "in"
      BY <2>1, OwnFacts
    <3>. QED BY <1>1, <1>3, <1>7, <2>1, <3>1
  <2>3. HearsIn(t, e, k, x, h)
    BY <1>1, <2>1, <2>2 DEF HearsIn
  <2>4. /\ h \in Sent(t, e) /\ Place(t, h) = x.id => Heard(t, e, x.id) = {h}
        /\ h \notin Sent(t, e) \/ Place(t, h) # x.id => Heard(t, e, x.id) = {}
    BY ONLY <2>3, HeardAt
  <2>5. CASE k = m
    <3>1. h = e
      BY <1>5, <1>7, <1>9, <2>1, <2>5, HearsAre
    <3>. QED BY <1>7, <1>10, <1>11, <2>1, <2>4, <2>5, <3>1
  <2>6. CASE k = n
    <3>1. h # e
      BY <1>3, <1>5, <2>1, <2>6, HearsAre, EventFacts
    <3>2. k # m
      BY <1>7, <2>6
    <3>. QED BY <1>11, <2>1, <2>4, <3>1, <3>2
  <2>7. CASE k # m /\ k # n
    <3>1. h = e
      <4>1. Hearing(x)
        BY <1>4, <1>7, <2>1, <2>7
      <4>. QED BY <1>5, <4>1, HearsAre DEF Hearing
    <3>2. x.id # g.id
      BY <1>8, <2>1, <2>7, OwnAlone
    <3>. QED BY <1>10, <2>1, <2>4, <2>7, <3>1, <3>2
  <2>. QED BY <2>5, <2>6, <2>7
<1>14. ASSUME NEW k \in 1 .. n, k < n
       PROVE  Hearing(r[k]) /\ (k = m => r[k].heard # {})
  <2>1. Hearing(q[k])
    BY <1>4, <1>14
  <2>. PICK a, b, H : a = q[k] /\ b = r[k] /\ H = Heard(t, e, q[k].id)
    OBVIOUS
  <2>2. H \subseteq {CountStore} /\ (k = m => H # {})
    BY <1>5, <1>13
  <2>. PICK E : E = IF k = n THEN {e} ELSE {}
    OBVIOUS
  <2>3. b.id = a.id /\ b.heard = a.heard \cup H /\ b.due = a.due \ E
    BY <1>2
  <2>4. Hearing(b) /\ (k = m => b.heard # {})
    BY <2>1, <2>2, <2>3 DEF Hearing
  <2>. QED BY <2>4
<1>15. Telling(r[n]) /\ r[n].step = "in"
  <2>. PICK b, H : b = r[n] /\ H = Heard(t, e, q[n].id)
    OBVIOUS
  <2>1. H = {}
    BY <1>3, <1>7, <1>13
  <2>2. b.id = f.id /\ b.heard = f.heard \cup H /\ b.due = f.due \ {e} /\ b.step = f.step
    BY <1>2, <1>3
  <2>3. b.heard = {} /\ b.due = {} /\ Kind(b.id) = "store_callback" /\ b.step = "in"
    BY <1>1, <1>5, <2>1, <2>2
  <2>4. Telling(b) /\ b.step = "in"
    BY <2>3 DEF Telling
  <2>. QED BY <2>4
<1>16. Waiting(r)
  BY <1>1, <1>7, <1>14 DEF Waiting
<1>17. \A k \in 1 .. n : k > 1 => Kind(r[k].id) # "tp"
  BY <1>2, <1>4
<1>18. r # <<>> /\ Tip(r) = r[n]
  BY <1>1, <1>3 DEF Tip
<1>19. Changing(r, Events, Times(0, 0, 0), F)
  BY <1>1, <1>4, <1>14, <1>15, <1>16, <1>17, <1>18 DEF Changing
<1>20. Going(r, Events, Times(0, 0, 0), F)
  BY <1>15, <1>18, <1>19 DEF Going
<1>. QED BY <1>12, <1>20

\* Afterwards: Stores are counted and their sums taken, the renewal is heard of.
LEMMA DueFollowing ==
  ASSUME NEW t \in Threads, Structured, Apart, NEW e, DueSent(t, e), NEW F,
         Len(stack[t]) = 1, Following(stack[t][1], undone[t], times[t], F)
  PROVE  Going(stack'[t], undone'[t], times'[t], F)
<1>. PICK q, f, todo, done, r, g, H :
       /\ q = stack[t] /\ f = Top(t) /\ todo = undone[t] /\ done = times[t]
       /\ r = stack'[t] /\ g = stack'[t][1] /\ H = Heard(t, e, Top(t).id)
  OBVIOUS
<1>1. /\ ~Outside(t) /\ f.step = "in" /\ e \in f.due /\ e \in Events
      /\ undone'[t] = Rest(todo, Done(t, e)) /\ times'[t] = Again(done, Done(t, e))
      /\ Len(r) = 1
  BY DEF DueSent
<1>2. q[1] = f /\ Owns(t, 1, f)
  <2>1. q[Len(q)] = f
    BY <1>1, TipFacts
  <2>. QED BY <2>1 DEF Owns
<1>3. g.id = f.id /\ g.step = "in" /\ g.heard = f.heard \cup H /\ g.due = f.due \ {e}
  <2>1. 1 \in 1 .. Len(stack[t]) /\ 1 = Len(stack[t])
    OBVIOUS
  <2>2. /\ r[1].id = q[1].id /\ r[1].step = q[1].step
        /\ r[1].heard = q[1].heard \cup Heard(t, e, q[1].id)
        /\ r[1].due = q[1].due \ {e}
    BY <2>1 DEF DueSent
  <2>. QED BY <1>1, <1>2, <2>2
<1>4. /\ Kind(f.id) \in {"store_callback", "tp_callback"}
      /\ \/ /\ f.due = {CountStore} /\ f.heard = {}
            /\ todo = Events /\ done = Times(0, 0, 0)
         \/ /\ f.due = {SumTP} /\ f.heard = {Renew}
            /\ todo = {SumTP, Renew} /\ done = Times(1, 0, 0)
  BY <1>1, <1>2 DEF Following
<1>5. /\ Place(t, CountStore) = Signal /\ Place(t, SumTP) = Signal
      /\ Place(t, Renew) = f.id
  <2>1. /\ \A k \in 1 .. Len(stack[t]) : k = 1
        /\ 1 \in 1 .. Len(stack[t])
    OBVIOUS
  <2>2. ASSUME NEW x \in Events
        PROVE  Holding(q, x, 1) <=> x = Renew
    BY <1>1, <1>2, <1>4, HoldingIs
  <2>3. CountStore \in Events /\ SumTP \in Events /\ Renew \in Events
    BY DEF Events
  <2>4. ~Holding(q, CountStore, 1) /\ ~Holding(q, SumTP, 1) /\ Holding(q, Renew, 1)
    BY <2>2, <2>3, EventFacts
  <2>5. Place(t, CountStore) = Signal /\ Place(t, SumTP) = Signal
    BY <2>1, <2>3, <2>4, PlaceAt
  <2>6. Place(t, Renew) = stack[t][1].id
    <3>1. \A j \in 1 .. Len(stack[t]) : ~(j > 1)
      BY <2>1
    <3>. QED BY <2>1, <2>3, <2>4, <3>1, PlaceAt
  <2>. QED BY <1>2, <2>5, <2>6
<1>6. f.id # Signal
  BY <1>2, OwnFacts
<1>7. /\ Renew \in Sent(t, e) => H = {Renew}
      /\ Renew \notin Sent(t, e) => H = {}
  <2>. PICK h : h = Hears[Kind(f.id)]
    OBVIOUS
  <2>1. h = Renew
    BY <1>4, HearsAre
  <2>2. HearsIn(t, e, 1, f, h)
    BY <1>1, <1>2 DEF HearsIn, Owns
  <2>3. /\ h \in Sent(t, e) /\ Place(t, h) = f.id => Heard(t, e, f.id) = {h}
        /\ h \notin Sent(t, e) \/ Place(t, h) # f.id => Heard(t, e, f.id) = {}
    BY ONLY <2>2, HeardAt
  <2>. QED BY <1>5, <2>1, <2>3
<1>8. ASSUME e = CountStore
      PROVE  /\ Sent(t, e) = Events /\ Done(t, e) = {CountStore, SumTP}
             /\ H = {Renew}
  <2>1. Sent(t, e) = Events
    BY <1>5, <1>8 DEF Sent
  <2>2. Done(t, e) = {CountStore, SumTP}
    BY <1>5, <1>6, <2>1, EventFacts DEF Done
  <2>. QED BY <1>7, <2>1, <2>2 DEF Events
<1>9. ASSUME e = SumTP
      PROVE  /\ Sent(t, e) = {SumTP} /\ Done(t, e) = {SumTP} /\ H = {}
  <2>1. Sent(t, e) = {SumTP}
    BY <1>9, EventFacts DEF Sent
  <2>2. Done(t, e) = {SumTP}
    BY <1>5, <2>1 DEF Done
  <2>. QED BY <1>7, <2>1, <2>2, EventFacts
<1>10. CASE f.due = {CountStore}
  <2>1. e = CountStore /\ f.heard = {} /\ todo = Events /\ done = Times(0, 0, 0)
    BY <1>1, <1>4, <1>10, EventFacts
  <2>2. g.due = {} /\ g.heard = {Renew}
    BY <1>3, <1>8, <1>10, <2>1
  <2>3. undone'[t] = {Renew} /\ times'[t] = Times(1, 1, 0)
    BY <1>1, <1>8, <2>1, RestFacts, AgainFacts
  <2>4. Following(g, {Renew}, Times(1, 1, 0), F)
    BY <1>3, <1>4, <2>2 DEF Following
  <2>5. r # <<>> /\ Tip(r) = g
    BY <1>1 DEF Tip
  <2>. QED BY <1>1, <1>3, <2>3, <2>4, <2>5 DEF Going
<1>11. CASE f.due = {SumTP}
  <2>1. e = SumTP /\ f.heard = {Renew} /\ todo = {SumTP, Renew} /\ done = Times(1, 0, 0)
    BY <1>1, <1>4, <1>11, EventFacts
  <2>2. g.due = {} /\ g.heard = {Renew}
    BY <1>3, <1>9, <1>11, <2>1
  <2>3. undone'[t] = {Renew} /\ times'[t] = Times(1, 1, 0)
    BY <1>1, <1>9, <2>1, RestFacts, AgainFacts
  <2>4. Following(g, {Renew}, Times(1, 1, 0), F)
    BY <1>3, <1>4, <2>2 DEF Following
  <2>5. r # <<>> /\ Tip(r) = g
    BY <1>1 DEF Tip
  <2>. QED BY <1>1, <1>3, <2>3, <2>4, <2>5 DEF Going
<1>. QED BY <1>4, <1>10, <1>11

\* In the bulk operations of a translation project: Stores are counted, its sum is
\* heard of there and the renewal in its own context.
LEMMA DueCounting ==
  ASSUME NEW t \in Threads, Structured, Apart, NEW e, DueSent(t, e), NEW F,
         Len(stack[t]) = 2, Counting(stack[t][1], stack[t][2], undone[t], times[t])
  PROVE  Going(stack'[t], undone'[t], times'[t], F)
<1>. PICK q, f, g, todo, done, r :
       /\ q = stack[t] /\ f = Top(t) /\ g = stack[t][1] /\ todo = undone[t]
       /\ done = times[t] /\ r = stack'[t]
  OBVIOUS
<1>1. /\ ~Outside(t) /\ f.step = "in" /\ e \in f.due /\ e \in Events
      /\ undone'[t] = Rest(todo, Done(t, e)) /\ times'[t] = Again(done, Done(t, e))
      /\ Len(r) = 2
  BY DEF DueSent
<1>2. q[2] = f /\ q[1] = g /\ Owns(t, 2, f) /\ Owns(t, 1, g)
  <2>1. q[Len(q)] = f
    BY <1>1, TipFacts
  <2>. QED BY <2>1 DEF Owns
<1>3. g.step = "in" /\ f.id # Signal /\ g.id # Signal
  <2>1. 1 < Len(stack[t])
    OBVIOUS
  <2>. QED BY <1>2, <2>1, OwnFacts
<1>4. /\ r[1].id = g.id /\ r[1].heard = g.heard \cup Heard(t, e, g.id) /\ r[1].due = g.due
      /\ r[2].id = f.id /\ r[2].step = "in"
      /\ r[2].heard = f.heard \cup Heard(t, e, f.id) /\ r[2].due = f.due \ {e}
  <2>1. 1 \in 1 .. Len(stack[t]) /\ 2 \in 1 .. Len(stack[t]) /\ 2 = Len(stack[t])
        /\ 1 # Len(stack[t])
    OBVIOUS
  <2>2. /\ r[1].id = q[1].id /\ r[1].step = q[1].step
        /\ r[1].heard = q[1].heard \cup Heard(t, e, q[1].id)
        /\ r[1].due = q[1].due \ {}
    BY <2>1 DEF DueSent
  <2>3. /\ r[2].id = q[2].id /\ r[2].step = q[2].step
        /\ r[2].heard = q[2].heard \cup Heard(t, e, q[2].id)
        /\ r[2].due = q[2].due \ {e}
    BY <2>1 DEF DueSent
  <2>4. q[1].due \ {} = q[1].due
    OBVIOUS
  <2>. QED BY <1>1, <1>2, <2>2, <2>3, <2>4
<1>5. /\ Kind(g.id) = "tp_callback" /\ g.due = {} /\ Kind(f.id) = "tp_stores"
      /\ f.due = {CountStore} /\ f.heard = {} /\ g.heard = {}
      /\ todo = Events /\ done = Times(0, 0, 0)
  BY <1>1, <1>2 DEF Counting
<1>6. e = CountStore
  BY <1>1, <1>5
<1>7. /\ Place(t, CountStore) = Signal /\ Place(t, SumTP) = f.id
      /\ Place(t, Renew) = g.id
  <2>1. /\ \A k \in 1 .. Len(stack[t]) : k = 1 \/ k = 2
        /\ 1 \in 1 .. Len(stack[t]) /\ 2 \in 1 .. Len(stack[t])
        /\ \A k \in 1 .. Len(stack[t]) : ~(k > 2) /\ (k > 1 => k = 2)
    OBVIOUS
  <2>2. ASSUME NEW x \in Events
        PROVE  /\ Holding(q, x, 1) <=> x = Renew
               /\ Holding(q, x, 2) <=> x = SumTP
    <3>1. Holding(q, x, 1) <=> x = Renew
      BY <1>2, <1>3, <1>5, HoldingIs
    <3>2. Holding(q, x, 2) <=> x = SumTP
      BY <1>1, <1>2, <1>5, HoldingIs
    <3>. QED BY <3>1, <3>2
  <2>3. CountStore \in Events /\ SumTP \in Events /\ Renew \in Events
    BY DEF Events
  <2>4. /\ ~Holding(q, CountStore, 1) /\ ~Holding(q, CountStore, 2)
        /\ Holding(q, SumTP, 2) /\ Holding(q, Renew, 1) /\ ~Holding(q, Renew, 2)
    BY <2>2, <2>3, EventFacts
  <2>5. Place(t, CountStore) = Signal
    BY <2>1, <2>3, <2>4, PlaceAt
  <2>6. Place(t, SumTP) = stack[t][2].id
    BY <2>1, <2>3, <2>4, PlaceAt
  <2>7. Place(t, Renew) = stack[t][1].id
    BY <2>1, <2>3, <2>4, PlaceAt
  <2>. QED BY <1>2, <2>5, <2>6, <2>7
<1>8. Sent(t, e) = Events /\ Done(t, e) = {CountStore}
  <2>1. Sent(t, e) = Events
    BY <1>6, <1>7 DEF Sent
  <2>2. Done(t, e) = {CountStore}
    BY <1>3, <1>7, <2>1, EventFacts DEF Done
  <2>. QED BY <2>1, <2>2
<1>9. Heard(t, e, f.id) = {SumTP}
  <2>. PICK h : h = Hears[Kind(f.id)]
    OBVIOUS
  <2>1. h = SumTP
    BY <1>5, HearsAre
  <2>2. HearsIn(t, e, 2, f, h)
    BY <1>1, <1>2 DEF HearsIn, Owns
  <2>3. h \in Sent(t, e) /\ Place(t, h) = f.id => Heard(t, e, f.id) = {h}
    BY ONLY <2>2, HeardAt
  <2>. QED BY <1>7, <1>8, <2>1, <2>3 DEF Events
<1>10. Heard(t, e, g.id) = {Renew}
  <2>. PICK h : h = Hears[Kind(g.id)]
    OBVIOUS
  <2>1. h = Renew
    BY <1>5, HearsAre
  <2>2. HearsIn(t, e, 1, g, h)
    BY <1>1, <1>2, <1>3 DEF HearsIn, Owns
  <2>3. h \in Sent(t, e) /\ Place(t, h) = g.id => Heard(t, e, g.id) = {h}
    BY ONLY <2>2, HeardAt
  <2>. QED BY <1>7, <1>8, <2>1, <2>3 DEF Events
<1>11. undone'[t] = {SumTP, Renew} /\ times'[t] = Times(1, 0, 0)
  BY <1>1, <1>5, <1>8, RestFacts, AgainFacts
<1>. PICK a, b : a = r[1] /\ b = r[2]
  OBVIOUS
<1>12. /\ a.id = g.id /\ a.heard = {Renew} /\ a.due = {}
       /\ b.id = f.id /\ b.heard = {SumTP} /\ b.due = {} /\ b.step = "in"
  BY <1>4, <1>5, <1>6, <1>9, <1>10
<1>13. Counting(a, b, {SumTP, Renew}, Times(1, 0, 0))
  BY <1>5, <1>12 DEF Counting
<1>14. r # <<>> /\ Tip(r) = b
  BY <1>1 DEF Tip
<1>. QED BY <1>1, <1>11, <1>12, <1>13, <1>14 DEF Going

LEMMA SendDueProgressing ==
  ASSUME NEW t \in Threads, Structured, Progressing, SendDue(t)
  PROVE  Progressing'
<1>1. faults' = faults
  BY DEF SendDue
<1>2. CASE Apart
  <2>1. PICK e : DueSent(t, e)
    BY <1>2, SendDueIs
  <2>. PICK F : F = faults
    OBVIOUS
  <2>2. Going(stack[t], undone[t], times[t], F)
    BY <1>2 DEF Progressing
  <2>3. stack[t] # <<>> /\ Tip(stack[t]).step # "unwind"
    <3>1. ~Outside(t) /\ Top(t).step = "in"
      BY <2>1 DEF DueSent
    <3>2. Tip(stack[t]) = Top(t) /\ stack[t] # <<>>
      BY <3>1, TipFacts
    <3>. QED BY <3>1, <3>2
  <2>4. \/ Changing(stack[t], undone[t], times[t], F)
        \/ Len(stack[t]) = 1 /\ Following(stack[t][1], undone[t], times[t], F)
        \/ Len(stack[t]) = 2 /\ Counting(stack[t][1], stack[t][2], undone[t], times[t])
    BY <2>2, <2>3 DEF Going
  <2>5. Going(stack'[t], undone'[t], times'[t], F)
    BY <1>2, <2>1, <2>4, DueChanging, DueFollowing, DueCounting
  <2>6. Others(t) /\ times' \in [Threads -> [Events -> Nat]]
    BY <2>1 DEF DueSent
  <2>. QED BY <1>1, <2>5, <2>6, ProgressingStep
<1>3. CASE ~Apart
  <2>1. ~Apart'
    BY <1>1, <1>3 DEF Apart
  <2>2. \E e, S, todo : Send(t, e, S, todo)
    BY DEF SendDue
  <2>3. times' \in [Threads -> [Events -> Nat]]
    BY <2>2, SendTimes DEF Progressing
  <2>. QED BY <2>1, <2>3 DEF Progressing
<1>. QED BY <1>2, <1>3

\* The stack is left empty, and pages are renewed if that was held back.
LEMMA FinishLast ==
  ASSUME NEW t \in Threads, Structured, Progressing, Apart, NEW S, S = Pop(stack, t),
         Leaves(t), Len(stack[t]) = 1, faults' = faults,
         Following(stack[t][1], undone[t], times[t], faults),
         IF Top(t).heard = {}
           THEN stack' = S /\ undone' = undone /\ times' = times
           ELSE Send(t, Renew, S, undone[t])
  PROVE  /\ Others(t) /\ times' \in [Threads -> [Events -> Nat]]
         /\ Going(stack'[t], undone'[t], times'[t], faults')
<1>. PICK q, f, todo, done, e, F :
       /\ q = stack[t] /\ f = Top(t) /\ todo = undone[t] /\ done = times[t]
       /\ e = Renew /\ F = faults
  OBVIOUS
<1>1. /\ ~Outside(t) /\ Ending(f) /\ f.signals = <<>> /\ e \in Events
      /\ stack \in [Threads -> Seq(FrameType)] /\ times \in [Threads -> [Events -> Nat]]
  BY DEF Leaves, Events, Progressing, Structured, Shape
<1>2. q[1] = f /\ Owns(t, 1, f)
  <2>1. q[Len(q)] = f
    BY <1>1, TipFacts
  <2>. QED BY <2>1 DEF Owns
<1>3. S[t] = <<>> /\ \A u \in Threads \ {t} : S[u] = stack[u]
  <2>1. Front(stack[t]) = <<>>
    BY <1>1, TipFacts
  <2>. QED BY <1>1, <2>1 DEF Pop
<1>4. \/ f.heard = {} /\ Past(todo, F) /\ done = Times(0, 0, 0)
      \/ f.heard = {Renew} /\ todo = {Renew} /\ done = Times(1, 1, 0)
      \/ /\ f.heard = {Renew} /\ todo = {SumTP, Renew} /\ "collected" \in F
         /\ done = Times(1, 0, 0)
  BY <1>1, <1>2 DEF Following
<1>5. Once(Times(0, 0, 0)) /\ Once(Times(1, 1, 1)) /\ Once(Times(1, 0, 1))
  BY TimesOnce
<1>6. CASE f.heard = {}
  <2>1. stack' = S /\ undone' = undone /\ times' = times
    BY <1>6
  <2>2. Past(todo, F) /\ done = Times(0, 0, 0)
    BY <1>4, <1>6
  <2>3. Others(t)
    BY <1>3, <2>1 DEF Others
  <2>. QED BY <1>1, <1>3, <1>5, <2>1, <2>2, <2>3 DEF Going
<1>7. CASE f.heard # {}
  <2>1. Sending(t, e, S, todo)
    <3>1. Send(t, e, S, todo)
      BY <1>7
    <3>2. S \in [Threads -> Seq(FrameType)]
      BY <1>1, PopIs DEF Outside
    <3>3. Len(S[t]) = 0
      BY <1>3
    <3>4. 1 .. Len(S[t]) = {} /\ Len(S[t]) <= Len(stack[t])
      BY <3>3
    <3>. QED BY <1>1, <1>3, <3>1, <3>2, <3>4 DEF Sending
  <2>2. /\ Others(t) /\ times' \in [Threads -> [Events -> Nat]]
        /\ undone'[t] = Rest(todo, Done(t, e))
        /\ times'[t] = Again(done, Done(t, e)) /\ stack'[t] = <<>>
    <3>1. t \in Threads /\ e \in Events /\ Sending(t, e, S, todo) /\ ~Outside(t)
          /\ S[t] = <<>>
      BY <1>1, <1>3, <2>1
    <3>2. /\ Others(t) /\ times' \in [Threads -> [Events -> Nat]]
          /\ undone'[t] = Rest(todo, Done(t, e))
          /\ times'[t] = Again(times[t], Done(t, e)) /\ stack'[t] = <<>>
      BY ONLY <3>1, SendIs
    <3>. QED BY <3>2
  <2>3. Place(t, e) = Signal
    <3>1. Put(f) = {}
      BY <1>1, <1>2, OwnFacts
    <3>2. \A j \in 1 .. Len(stack[t]) : ~Holding(stack[t], e, j)
      <4>1. \A j \in 1 .. Len(stack[t]) : stack[t][j] = f
        BY <1>2
      <4>. QED BY <3>1, <4>1 DEF Holding
    <3>. QED BY <1>1, <3>2, PlaceAt
  <2>4. Done(t, e) = {Renew}
    <3>1. Sent(t, e) = {e}
      BY EventFacts DEF Sent
    <3>. QED BY <2>3, <3>1 DEF Done
  <2>5. Past(undone'[t], F) /\ Once(times'[t])
    <3>1. CASE todo = {Renew} /\ done = Times(1, 1, 0)
      <4>1. undone'[t] = {} /\ times'[t] = Times(1, 1, 1)
        BY <2>2, <2>4, <3>1, RestFacts, AgainFacts
      <4>. QED BY <1>5, <4>1 DEF Past
    <3>2. CASE todo = {SumTP, Renew} /\ done = Times(1, 0, 0) /\ "collected" \in F
      <4>1. undone'[t] = {SumTP, Renew} /\ times'[t] = Times(1, 0, 1)
        BY <2>2, <2>4, <3>2, RestFacts, AgainFacts
      <4>. QED BY <1>5, <3>2, <4>1 DEF Past
    <3>. QED BY <1>4, <1>7, <3>1, <3>2
  <2>. QED BY <2>2, <2>5 DEF Going
<1>. QED BY <1>6, <1>7

LEMMA FinishProgressing ==
  ASSUME NEW t \in Threads, Structured, Progressing, Finish(t)
  PROVE  Progressing'
<1>. PICK q, f, n, low, S :
       /\ q = stack[t] /\ f = Top(t) /\ n = Len(stack[t]) /\ low = Front(stack[t])
       /\ S = Pop(stack, t)
  OBVIOUS
<1>1. /\ ~Outside(t) /\ f.step = "restore" /\ Leaves(t) /\ faults' = faults
      /\ Kind(f.id) \in {"store_callback", "tp_callback"}
  BY DEF Finish, Left, At, Leaves, Ending
<1>2. IF f.heard = {} THEN stack' = S /\ undone' = undone /\ times' = times
      ELSE Send(t, Renew, S, undone[t])
  BY DEF Finish, Pop
<1>3. /\ q # <<>> /\ n \in Nat \ {0} /\ Tip(q) = f /\ q[n] = f /\ n \in 1 .. n
      /\ low \in Seq(FrameType) /\ Len(low) = n - 1
      /\ \A k \in 1 .. n - 1 : low[k] = q[k]
  <2>1. /\ q # <<>> /\ n \in Nat \ {0} /\ Tip(q) = f /\ q[n] = f /\ n \in 1 .. n
    BY <1>1, TipFacts
  <2>2. /\ low \in Seq(FrameType) /\ Len(low) = n - 1
        /\ \A k \in 1 .. n - 1 : low[k] = q[k]
    BY <1>1, TipFacts
  <2>. QED BY <2>1, <2>2
<1>4. stack \in [Threads -> Seq(FrameType)] /\ times \in [Threads -> [Events -> Nat]]
  BY DEF Structured, Shape, Progressing
<1>5. CASE ~Apart
  <2>1. ~Apart'
    BY <1>1, <1>5 DEF Apart
  <2>2. times' \in [Threads -> [Events -> Nat]]
    BY <1>2, <1>4, SendTimes
  <2>. QED BY <2>1, <2>2 DEF Progressing
<1>6. CASE Apart
  <2>. PICK todo, done, F : todo = undone[t] /\ done = times[t] /\ F = faults
    OBVIOUS
  <2>1. Going(q, todo, done, F)
    BY <1>6 DEF Progressing
  <2>2. ~(n = 2 /\ Counting(q[1], q[2], todo, done))
    BY <1>1, <1>3 DEF Counting
  <2>3. CASE n = 1 /\ Following(q[1], todo, done, F)
    <3>1. /\ t \in Threads /\ Structured /\ Progressing /\ Apart /\ S = Pop(stack, t)
          /\ Leaves(t) /\ Len(stack[t]) = 1 /\ faults' = faults
          /\ Following(stack[t][1], undone[t], times[t], faults)
      BY <1>1, <1>6, <2>3
    <3>2. /\ Others(t) /\ times' \in [Threads -> [Events -> Nat]]
          /\ Going(stack'[t], undone'[t], times'[t], faults')
      BY <1>2, <3>1, FinishLast
    <3>. QED BY <1>1, <3>2, ProgressingStep
  <2>4. CASE Changing(q, todo, done, F)
    <3>1. /\ Telling(f) /\ n > 1 /\ done = Times(0, 0, 0)
          /\ \A k \in 1 .. n : k < n => Hearing(q[k])
          /\ \A k \in 1 .. n : k > 1 => Kind(q[k].id) # "tp"
          /\ IF Waiting(q) THEN todo = Events ELSE Past(todo, F)
      BY <1>1, <1>3, <2>4 DEF Changing, Hearing
    <3>2. f.heard = {} /\ f.due = {}
      BY <1>1, <3>1 DEF Telling, Ending
    <3>3. stack' = S /\ undone' = undone /\ times' = times
      BY <1>2, <3>2
    <3>4. S[t] = low /\ \A u \in Threads \ {t} : S[u] = stack[u]
      BY <1>4 DEF Pop
    <3>. PICK m : m = n - 1
      OBVIOUS
    <3>5. /\ m \in 1 .. m /\ m \in 1 .. n /\ m < n
          /\ \A k \in 1 .. m : k \in 1 .. n /\ k < n
          /\ \A k \in 1 .. n : k = n \/ k \in 1 .. m
      <4>1. n \in Nat /\ n > 1 /\ m = n - 1
        BY <1>3, <3>1
      <4>. QED BY ONLY <4>1
    <3>6. /\ Len(low) = m /\ \A k \in 1 .. m : low[k] = q[k]
      BY <1>3
    <3>7. low # <<>> /\ Tip(low) = q[m]
      <4>1. Len(low) # 0
        BY <3>5, <3>6
      <4>. QED BY <1>3, <3>5, <3>6, <4>1, EmptySeq DEF Tip
    <3>8. Waiting(low) <=> Waiting(q)
      <4>1. f.due \cup f.heard = {}
        BY <3>2
      <4>. QED BY <1>3, <3>5, <3>6, <4>1 DEF Waiting
    <3>9. q[m].step # "unwind"
      <4>. PICK x : x = q[m]
        OBVIOUS
      <4>1. Owns(t, m, x) /\ m < Len(stack[t])
        BY <3>5 DEF Owns
      <4>2. x.step = "in"
        BY <4>1, OwnFacts
      <4>. QED BY <4>2
    <3>10. \A k \in 1 .. m : Hearing(low[k]) /\ (k > 1 => Kind(low[k].id) # "tp")
      BY <3>1, <3>5, <3>6
    <3>11. Hearing(Tip(low))
      BY <3>1, <3>5, <3>7
    <3>12. Changing(low, todo, done, F)
      BY <3>1, <3>6, <3>8, <3>10, <3>11 DEF Changing
    <3>13. Going(low, todo, done, F)
      BY <3>7, <3>9, <3>12 DEF Going
    <3>14. Others(t) /\ times' \in [Threads -> [Events -> Nat]]
      BY <1>4, <3>3, <3>4 DEF Others
    <3>15. Going(stack'[t], undone'[t], times'[t], faults')
      BY <1>1, <3>3, <3>4, <3>13
    <3>. QED BY <1>1, <3>14, <3>15, ProgressingStep
  <2>. QED BY <1>1, <1>3, <2>1, <2>2, <2>3, <2>4 DEF Going
<1>. QED BY <1>5, <1>6

LEMMA InitProgressing == Init => Progressing
<1>. SUFFICES ASSUME Init PROVE Progressing
  OBVIOUS
<1>1. [e \in Events |-> 0] = Times(0, 0, 0)
  BY DEF Times
<1>2. Once(Times(0, 0, 0)) /\ Times(0, 0, 0) \in [Events -> Nat]
  BY TimesOnce
<1>3. \A t \in Threads : /\ stack[t] = <<>> /\ undone[t] = {}
                         /\ times[t] = Times(0, 0, 0)
  BY <1>1 DEF Init
<1>4. times \in [Threads -> [Events -> Nat]]
  BY <1>1, <1>2 DEF Init
<1>5. ASSUME NEW t \in Threads
      PROVE  Going(stack[t], undone[t], times[t], faults)
  BY <1>2, <1>3 DEF Going, Past
<1>. QED BY <1>4, <1>5 DEF Progressing

LEMMA NextProgressing == Structured /\ Progressing /\ [Next]_vars => Progressing'
<1>. SUFFICES ASSUME Structured, Progressing, [Next]_vars
              PROVE  Progressing'
  OBVIOUS
<1>1. CASE UNCHANGED vars
  BY <1>1 DEF vars, Progressing, Apart
<1>2. ASSUME NEW t \in Threads, NEW kind \in Outer[t], EnterOuter(t, kind)
      PROVE  Progressing'
  BY <1>2, EnterOuterProgressing
<1>3. ASSUME NEW t \in Threads,
             EnterInner(t) \/ Save(t) \/ Install(t) \/ Connect(t) \/ Change(t)
      PROVE  Progressing'
  BY <1>3, EnterInnerProgressing, SaveProgressing, InstallProgressing,
     ConnectProgressing, ChangeProgressing
<1>4. ASSUME NEW t \in Threads,
             SendDue(t) \/ UpdateStores(t) \/ Leave(t) \/ Raise(t) \/ Restore(t)
      PROVE  Progressing'
  BY <1>4, SendDueProgressing, UpdateStoresProgressing, LeaveProgressing,
     RaiseProgressing, RestoreProgressing
<1>5. ASSUME NEW t \in Threads,
             Callback(t) \/ StoresUpdated(t) \/ Finish(t) \/ Unwind(t)
      PROVE  Progressing'
  BY <1>5, CallbackProgressing, StoresUpdatedProgressing, FinishProgressing,
     UnwindProgressing
<1>. QED BY <1>1, <1>2, <1>3, <1>4, <1>5 DEF Next

\* What is due about the changes of a thread is held by its contexts, in the order
\* in which they do it (the README says how).
THEOREM ProgressingAlways == Spec => []Progressing
<1>. QED BY StructuredAlways, InitProgressing, NextProgressing, PTL DEF Spec

\* When a thread is in no context, what it has changed is counted, summed up and
\* renewed, but for what a function that is gone should have heard
\* (update_store_after, update_tp_after).
THEOREM HeldBackIsDone == Spec => []NothingHeldBack
<1>1. Progressing => NothingHeldBack
  <2>. SUFFICES ASSUME Progressing, Apart, NEW t \in Threads, Outside(t)
                PROVE  \/ undone[t] = {}
                       \/ "collected" \in faults /\ undone[t] = {SumTP, Renew}
    BY DEF NothingHeldBack
  <2>1. Going(stack[t], undone[t], times[t], faults) /\ stack[t] = <<>>
    BY DEF Progressing, Outside
  <2>. QED BY <2>1 DEF Going, Past
<1>. QED BY <1>1, ProgressingAlways, PTL

\* Nothing is done twice about the changes of a request (the callbacks of
\* update_store_after and update_tp_after).
THEOREM DoneAtMostOnce == Spec => []DoneOnce
<1>1. Progressing => DoneOnce
  <2>. SUFFICES ASSUME Progressing, Apart, NEW t \in Threads, NEW e \in Events
                PROVE  times[t][e] <= 1
    BY DEF DoneOnce
  <2>1. Going(stack[t], undone[t], times[t], faults)
    BY DEF Progressing
  <2>. QED BY <2>1, GoingOnce DEF Once
<1>. QED BY <1>1, ProgressingAlways, PTL
================================================================================
