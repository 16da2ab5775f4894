------------------------------ MODULE LivePages ------------------------------
(***************************************************************************)
(* What the cached statistics pages promise: a page shows what the         *)
(* database had in it at some moment between the start of the request for  *)
(* it and its end, as if nothing was cached.                               *)
(***************************************************************************)
CONSTANTS NULL, Dirs, Viewers

VARIABLES
  content, \* what there is to show for each directory
  asked    \* the request of each viewer: its directory, what was to be seen
           \* there since, and the page that is shown, none until then

vars == <<content, asked>>

None == [dir |-> NULL, seen |-> {}, page |-> {}]
Seen(new) ==
  [v \in Viewers |->
     IF asked[v] = None THEN None
     ELSE [asked[v] EXCEPT !.seen = @ \cup {new[asked[v].dir]}]]

Init == asked = [v \in Viewers |-> None]

\* The database changes, in the sight of whoever waits for a page.
Change == content' # content /\ asked' = Seen(content')
Ask(v, d) ==
  /\ asked[v] = None
  /\ asked' = [asked EXCEPT ![v] = [dir |-> d, seen |-> {content[d]}, page |-> {}]]
Answer(v) ==
  /\ asked[v].page = {}
  /\ \E c \in asked[v].seen : asked' = [asked EXCEPT ![v].page = {c}]
Leave(v) ==
  /\ asked[v].page # {}
  /\ asked' = [asked EXCEPT ![v] = None]

Next ==
  \/ Change
  \/ /\ \E v \in Viewers : Answer(v) \/ Leave(v) \/ \E d \in Dirs : Ask(v, d)
     /\ UNCHANGED content

Spec == Init /\ [][Next]_vars
=============================================================================
