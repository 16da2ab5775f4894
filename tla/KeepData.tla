------------------------------- MODULE KeepData -------------------------------
(***************************************************************************)
(* Signals that are held back (core/contextmanagers.py): a context takes   *)
(* the place of the send and connect methods of a signal, which all        *)
(* threads of a process share, hands what its own thread sends to a signal *)
(* of its own, and puts back the methods it found when it ends.            *)
(*                                                                         *)
(* update_store_after and update_tp_after hold back what happens to Stores *)
(* in a request and then count each Store, the translation project and the *)
(* pages once (pootle_store, pootle_translationproject/contextmanagers.py).*)
(***************************************************************************)
EXTENDS Integers, Sequences, FiniteSets, SequencesExt

CONSTANTS
  Threads,  \* the threads of a worker process
  Outer,    \* the contexts that the requests of each start with
  MaxNested \* bound: how many of its contexts are in one another

Kinds == {"store", "tp", "store_callback", "tp_callback", "tp_stores"}
ASSUME ThreadsAssumption == IsFiniteSet(Threads)
ASSUME OuterAssumption == Outer \in [Threads -> SUBSET {"store", "tp"}]
ASSUME BoundsAssumption == MaxNested \in [Threads -> Nat]

\* What is sent: a signal and its sender
CountStore == <<"update_data", "Store">>
SumTP == <<"update_data", "TranslationProject">>
Renew == <<"update_revisions", "Store">>
Events == {CountStore, SumTP, Renew}
Signals == {e[1] : e \in Events}

\* The signals that a context holds back, in this order, those of some senders
\* or of all, and what it listens to meanwhile
HoldsRenewals == \* Mutant of Holds: Stores are counted at each change.
  [k \in Kinds |-> <<"update_revisions">>]
Holds ==
  [k \in Kinds |-> IF k \in {"store_callback", "tp_callback"} THEN <<"update_revisions">>
                   ELSE <<"update_data", "update_revisions">>]
HoldsFrom(kind, sender) == kind = "tp_stores" => sender = "TranslationProject"
Hears ==
  [store |-> CountStore, tp |-> CountStore, tp_stores |-> SumTP,
   store_callback |-> Renew, tp_callback |-> Renew]
\* The context in which what was held back in another is sent
SentIn == [store |-> "store_callback", tp |-> "tp_callback"]
Kind(id) == id[3]

VARIABLES
  sends,    \* what each signal sends with: the contexts that look at it in
            \*   turn before the signal itself does, <<>> when there are none
  handlers, \* the functions connected: to an event, to the signal itself or that
            \*   of a context, for a context
  stack,    \* the contexts that each thread is in, the innermost last
  undone,   \* (history) what is still to be done about the changes of a thread,
  times,    \*   how often each thing was done in the outermost context,
  faults    \*   and "collected" when a function was gone that should have heard
            \*   of a change, "crossed" when a thread has put its methods in the
            \*   place of others than those it had found, or those back in the
            \*   place of others than its own

vars == <<sends, handlers, stack, undone, times, faults>>

Signal == <<>>
Outside(t) == stack[t] = <<>>
Top(t) == Last(stack[t])
At(t, step) == ~Outside(t) /\ Top(t).step = step
WithTop(t, frame) == [stack EXCEPT ![t] = Front(@) \o <<frame>>]

-----------------------------------------------------------------------------
(* Sending and connecting *)

\* suppressed_send, suppressed_connect: the first context of the thread that
\* holds the sender back, or the signal itself
Place(t, e) ==
  LET q == sends[e[1]]
      own == {i \in DOMAIN q : q[i][1] = t /\ HoldsFrom(Kind(q[i]), e[2])}
  IN IF own = {} THEN Signal ELSE q[Min(own)]

\* What t sends with e: a Store that is counted is saved, then its translation
\* project is summed up and the pages renewed.
Sent(t, e) ==
  IF e = CountStore /\ Place(t, e) = Signal THEN Events ELSE {e}
Done(t, e) == {x \in Sent(t, e) : Place(t, x) = Signal}
\* The contexts that hear of it
Heard(t, e, c) ==
  {x \in Sent(t, e) : [event |-> x, at |-> Place(t, x), for |-> c] \in handlers}

\* After what is in done is done: to sum up counts only when the Store is
\* counted, and to renew when both are.
Rest(todo, done) ==
  LET left == todo \ done
  IN {e \in todo : \/ e \in left
                   \/ e # CountStore /\ CountStore \in left
                   \/ e = Renew /\ SumTP \in left}

\* t sends e, which leaves its stack as new but for what is heard.
Send(t, e, new, todo) ==
  /\ stack' = [u \in Threads |->
       [i \in DOMAIN new[u] |->
          [new[u][i] EXCEPT !.heard = @ \cup Heard(t, e, new[u][i].id)]]]
  /\ undone' = [undone EXCEPT ![t] = Rest(todo, Done(t, e))]
  /\ times' = [times EXCEPT ![t] =
       [x \in Events |-> IF ~Outside(t) /\ x \in Done(t, e) /\ @[x] < 2
                         THEN @[x] + 1 ELSE @[x]]]

-----------------------------------------------------------------------------
(* A context: its methods are put in place signal by signal, its functions   *)
(* connected, its body goes on, and the methods that were there are put back *)

\* A number for a context of t: none of which a function is left anywhere
Unused(t) ==
  LET frames == UNION {ToSet(stack[u]) : u \in Threads}
      looked(d) == UNION {ToSet(d[s]) : s \in Signals}
      left == {f.id : f \in frames} \cup looked(sends)
                \cup (UNION {looked(f.orig) : f \in frames})
  IN Min((1 .. Cardinality(left) + 1) \ {c[2] : c \in left})
Frame(t, kind, due) ==
  [id |-> <<t, Unused(t), kind>>, step |-> "save", signals |-> Holds[kind],
   orig |-> [s \in Signals |-> <<>>], due |-> due, heard |-> {}]
NewFrame(t, frames, kind, due) ==
  stack' = [stack EXCEPT ![t] = Append(frames, Frame(t, kind, due))]

Crossing(other) == faults \cup (IF other THEN {"crossed"} ELSE {})
\* suppress_signal reads the methods of the signal and then replaces them.
Save(t) ==
  /\ At(t, "save")
  /\ LET s == Head(Top(t).signals)
     IN stack' = WithTop(t, [Top(t) EXCEPT !.orig[s] = sends[s], !.step = "install"])
  /\ UNCHANGED <<sends, handlers, undone, times, faults>>
\* Mutant of Install: the methods are put in the place of those of all signals.
InstallInClass(t) ==
  /\ At(t, "install")
  /\ LET f == Top(t)
         s == Head(f.signals)
         others == Tail(f.signals)
     IN /\ sends' = [x \in Signals |-> <<f.id>> \o f.orig[s]]
        /\ faults' = Crossing(sends[s] # f.orig[s])
        /\ stack' = WithTop(t, [f EXCEPT
             !.signals = others, !.step = IF others = <<>> THEN "connect" ELSE "save"])
  /\ UNCHANGED <<handlers, undone, times>>
Install(t) ==
  /\ At(t, "install")
  /\ LET f == Top(t)
         s == Head(f.signals)
         others == Tail(f.signals)
     IN /\ sends' = [sends EXCEPT ![s] = <<f.id>> \o f.orig[s]]
        /\ faults' = Crossing(sends[s] # f.orig[s])
        /\ stack' = WithTop(t, [f EXCEPT
             !.signals = others, !.step = IF others = <<>> THEN "connect" ELSE "save"])
  /\ UNCHANGED <<handlers, undone, times>>
Connect(t) ==
  /\ At(t, "connect")
  /\ LET id == Top(t).id
         e == Hears[Kind(id)]
     IN handlers' = handlers \cup {[event |-> e, at |-> Place(t, e), for |-> id]}
  /\ stack' = WithTop(t, [Top(t) EXCEPT !.step = "in"])
  /\ UNCHANGED <<sends, undone, times, faults>>

\* Mutant of Restore: the signal sends as if no other context was there.
RestoreSignal(t) ==
  /\ At(t, "restore") \/ At(t, "unwind")
  /\ Top(t).signals # <<>>
  /\ LET f == Top(t)
         s == Head(f.signals)
     IN /\ sends' = [sends EXCEPT ![s] = <<>>]
        /\ faults' = Crossing(sends[s] # <<f.id>> \o f.orig[s])
        /\ stack' = WithTop(t, [f EXCEPT !.orig[s] = <<>>, !.signals = Tail(@)])
  /\ UNCHANGED <<handlers, undone, times>>
Restore(t) ==
  /\ At(t, "restore") \/ At(t, "unwind")
  /\ Top(t).signals # <<>>
  /\ LET f == Top(t)
         s == Head(f.signals)
     IN /\ sends' = [sends EXCEPT ![s] = f.orig[s]]
        /\ faults' = Crossing(sends[s] # <<f.id>> \o f.orig[s])
        /\ stack' = WithTop(t, [f EXCEPT !.orig[s] = <<>>, !.signals = Tail(@)])
  /\ UNCHANGED <<handlers, undone, times>>
Left(t) == At(t, "restore") /\ Top(t).signals = <<>>
\* The functions connected in a context are gone with it.
Disconnect(t) == handlers' = {h \in handlers : h.for # Top(t).id}

-----------------------------------------------------------------------------
(* Requests *)

Body(t) == At(t, "in") /\ Kind(Top(t).id) \in {"store", "tp"}
\* update_store_after and update_tp_after, around requests and in one another
EnterOuter(t, kind) ==
  /\ Outside(t)
  /\ NewFrame(t, <<>>, kind, {})
  /\ times' = [times EXCEPT ![t] = [e \in Events |-> 0]]
  /\ UNCHANGED <<sends, handlers, undone, faults>>
EnterInner(t) ==
  /\ Body(t) /\ Len(stack[t]) < MaxNested[t]
  /\ NewFrame(t, stack[t], "store", {})
  /\ UNCHANGED <<sends, handlers, undone, times, faults>>

\* A unit or a Store is saved.
Change(t) ==
  /\ Outside(t) \/ Body(t)
  /\ Send(t, CountStore, stack, Events)
  /\ UNCHANGED <<sends, handlers, faults>>

\* What was heard in another context is sent.
SendDue(t) ==
  /\ At(t, "in")
  /\ \E e \in Top(t).due :
       Send(t, e, WithTop(t, [Top(t) EXCEPT !.due = @ \ {e}]), undone[t])
  /\ UNCHANGED <<sends, handlers, faults>>
\* _callback_handler of a translation project: _update_stores
UpdateStores(t) ==
  /\ At(t, "in") /\ Kind(Top(t).id) = "tp_callback" /\ CountStore \in Top(t).due
  /\ NewFrame(t, Front(stack[t]) \o <<[Top(t) EXCEPT !.due = {}]>>, "tp_stores",
              {CountStore})
  /\ UNCHANGED <<sends, handlers, undone, times, faults>>

Leaving(f, step) == [f EXCEPT !.step = step, !.signals = Reverse(Holds[Kind(f.id)])]
Leave(t) ==
  /\ At(t, "in") /\ Top(t).due = {}
  /\ stack' = WithTop(t, Leaving(Top(t), "restore"))
  /\ UNCHANGED <<sends, handlers, undone, times, faults>>

\* Mutant of Callback: an inner context leaves it to the outer one.
CallbackOuter(t) ==
  /\ Left(t) /\ Kind(Top(t).id) \in {"store", "tp"}
  /\ IF Len(stack[t]) = 1
     THEN NewFrame(t, Front(stack[t]), SentIn[Kind(Top(t).id)], Top(t).heard)
     ELSE stack' = [stack EXCEPT ![t] = Front(@)]
  /\ Disconnect(t)
  /\ UNCHANGED <<sends, undone, times, faults>>
\* What was held back is sent when the context has ended, in one that holds
\* back the renewal of the pages.
Callback(t) ==
  /\ Left(t) /\ Kind(Top(t).id) \in {"store", "tp"}
  /\ NewFrame(t, Front(stack[t]), SentIn[Kind(Top(t).id)], Top(t).heard)
  /\ Disconnect(t)
  /\ UNCHANGED <<sends, undone, times, faults>>
\* The bulk operations of _update_stores end after _handle_update_stores and its
\* functions, which signals only refer to weakly: what Stores send is not heard
\* when the garbage collector has run in between.
StoresUpdated(t) ==
  /\ Left(t) /\ Kind(Top(t).id) = "tp_stores"
  /\ \E gone \in BOOLEAN :
       LET frames == Front(stack[t])
       IN /\ stack' = [stack EXCEPT ![t] = Front(frames) \o
               <<[Last(frames) EXCEPT !.due = IF gone THEN {} ELSE Top(t).heard]>>]
          /\ faults' = faults \cup (IF gone THEN {"collected"} ELSE {})
  /\ Disconnect(t)
  /\ UNCHANGED <<sends, undone, times>>
Finish(t) ==
  /\ Left(t) /\ Kind(Top(t).id) \in {"store_callback", "tp_callback"}
  /\ LET new == [stack EXCEPT ![t] = Front(@)]
     IN IF Top(t).heard = {} THEN stack' = new /\ UNCHANGED <<undone, times>>
        ELSE Send(t, Renew, new, undone[t])
  /\ Disconnect(t)
  /\ UNCHANGED <<sends, faults>>

\* An error ends the contexts without what they do afterwards, and the
\* transaction of the request is rolled back.
Raise(t) ==
  /\ At(t, "in")
  /\ stack' = WithTop(t, Leaving(Top(t), "unwind"))
  /\ UNCHANGED <<sends, handlers, undone, times, faults>>
Unwind(t) ==
  /\ At(t, "unwind") /\ Top(t).signals = <<>>
  /\ LET frames == Front(stack[t])
     IN IF frames = <<>>
        THEN /\ stack' = [stack EXCEPT ![t] = <<>>]
             /\ undone' = [undone EXCEPT ![t] = {}]
        ELSE /\ stack' = [stack EXCEPT ![t] =
                  Front(frames) \o <<Leaving(Last(frames), "unwind")>>]
             /\ UNCHANGED undone
  /\ Disconnect(t)
  /\ UNCHANGED <<sends, times, faults>>

-----------------------------------------------------------------------------
Init ==
  /\ sends = [s \in Signals |-> <<>>] /\ handlers = {}
  /\ stack = [t \in Threads |-> <<>>]
  /\ undone = [t \in Threads |-> {}]
  /\ times = [t \in Threads |-> [e \in Events |-> 0]]
  /\ faults = {}

Next ==
  \E t \in Threads :
    \/ \E kind \in Outer[t] : EnterOuter(t, kind)
    \/ EnterInner(t) \/ Save(t) \/ Install(t) \/ Connect(t)
    \/ Change(t) \/ SendDue(t) \/ UpdateStores(t)
    \/ Leave(t) \/ Restore(t)
    \/ Callback(t) \/ StoresUpdated(t) \/ Finish(t) \/ Raise(t) \/ Unwind(t)

Spec == Init /\ [][Next]_vars

-----------------------------------------------------------------------------
(* Properties.  Threads whose contexts cross lose signals, see the README.   *)

Apart == "crossed" \notin faults

\* Types: a signal is only sent by contexts that hold it back, none of them twice.
TypeOK ==
  /\ \A s \in Signals :
       /\ \A c \in ToSet(sends[s]) : c[1] \in Threads /\ s \in ToSet(Holds[Kind(c)])
       /\ IsInjective(sends[s])
  /\ \A h \in handlers : h.event \in Events
  /\ \A t \in Threads : undone[t] \subseteq Events
  /\ faults \subseteq {"crossed", "collected"}

\* However contexts are nested, overlap with those of other threads and are cut
\* short, nothing that was held back is lost (update_store_after, update_tp_after):
\* when a thread is in none, its Stores are counted, then summed up, then their
\* pages renewed, the sums of a translation project left aside when the function
\* that hears of its Stores is gone.
NothingHeldBack ==
  Apart => \A t \in Threads : Outside(t) =>
             \/ undone[t] = {}
             \/ "collected" \in faults /\ undone[t] = {SumTP, Renew}

\* What a request has changed is counted, summed up and renewed once, at its end,
\* however many changes it has made (the callbacks of update_store_after and
\* update_tp_after).
DoneOnce == Apart => \A t \in Threads, e \in Events : times[t][e] <= 1

\* A function is connected to the signal of the context it belongs to
\* (suppress_signal): it hears nothing of other threads, and when no thread is in a
\* context the signals are as they were.
SignalsRestored ==
  Apart =>
    /\ \A h \in handlers : h.at = h.for
    /\ (\A t \in Threads : Outside(t)) =>
         handlers = {} /\ \A s \in Signals : sends[s] = <<>>
=============================================================================
