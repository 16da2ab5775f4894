--------------------------- MODULE UserPurge_proofs ---------------------------
(***************************************************************************)
(* Purging a user deletes nothing that others have translated or written,  *)
(* and takes back every target and comment of the user's, for every number *)
(* of units, users, suggestions and saves.                                 *)
(*                                                                         *)
(* The command deletes submissions in three ways: with a unit, with a      *)
(* suggestion they belong to, and one by one.  IInv says that each of them *)
(* finds submissions of the user only: those of an accepted suggestion are *)
(* by whoever suggested (SubsOfSuggestions), nobody else has worked on a   *)
(* unit that is about to go (UnitsToGo), and the rows that are gone        *)
(* through were queried for the user (OwnRows).                            *)
(*                                                                         *)
(* TypeInv gives the types and the keys, and that a submission is older    *)
(* than the clock: the latest of some is the last to have been made.       *)
(* RevertInv follows a target or comment from the user's edit to its       *)
(* reversal.  Until it is anybody else's it is awaited by a step to come,  *)
(* by a row to be gone through or by what is in hand (Awaited).  What is   *)
(* in hand is what others made of it last (Prepared).  A field that is not *)
(* the user's is as it should be when the user is gone, but between the    *)
(* two writes (Settled).                                                   *)
(***************************************************************************)
EXTENDS UserPurge, Bounds_proofs

SuggestionsTyped == suggestion \in [Ids -> Sugg \cup {NULL}]
SubsOfSuggestions ==
  \A s \in subs : s.suggestion # NULL /\ s.field # "state" =>
    /\ s.suggestion \in Ids /\ suggestion[s.suggestion] # NULL
    /\ s.by = suggestion[s.suggestion].user
    /\ s.unit = suggestion[s.suggestion].unit
UnitsToGo ==
  Running("created") /\ job # NULL =>
    job.unit \in spoiled \/ \A s \in subs : s.unit = job.unit => s.by = Evil
OwnRows ==
  /\ Running("suggestions") => \A r \in todo : r.by = Evil /\ r.suggestion # NULL
  /\ Running("states") => \A r \in todo : r.by = Evil
InHand == step \in 0..8 /\ (job # NULL => step \in 1..5)

IInv ==
  /\ InHand
  /\ SuggestionsTyped
  /\ SubsOfSuggestions
  /\ UnitsToGo
  /\ OwnRows

-----------------------------------------------------------------------------
(* Requests *)

\* What a save adds to the record: submissions of its unit for its suggestion,
\* by the one who submits unless they are of the state.
LEMMA SaveAdds ==
  ASSUME NEW u, NEW y, NEW user, NEW reviewer, NEW i, Save(u, y, user, reviewer, i)
  PROVE  /\ \A s \in subs' : \/ s \in subs
                             \/ /\ s.unit = u /\ s.suggestion = i
                                /\ s.field # "state" => s.by = user
         /\ subs \subseteq subs'
         /\ spoiled \subseteq spoiled'
         /\ job # NULL /\ job.unit = u => u \in spoiled'
BY DEF Save

\* A request leaves alone what the command has in hand, and what it does to the
\* unit that is about to go is known.
LEMMA RequestKeeps ==
  ASSUME IInv, NEW u, UNCHANGED command, spoiled \subseteq spoiled',
         job # NULL /\ job.unit = u => u \in spoiled' \/ subs' = subs,
         \A s \in subs' : s \in subs \/ s.unit = u
  PROVE  /\ InHand'
         /\ UnitsToGo'
         /\ OwnRows'
BY DEF IInv, UnitsToGo, OwnRows, Running, InHand, command

\* A suggestion that is reviewed is still one, of the same unit and user.
LEMMA SuggTypes ==
  ASSUME SuggestionsTyped, NEW i \in Ids, suggestion[i] # NULL,
         NEW state \in {"pending", "accepted", "rejected"},
         NEW reviewer \in People \cup {NULL}
  PROVE  LET t == [suggestion[i] EXCEPT !.state = state, !.reviewer = reviewer]
         IN /\ t \in Sugg /\ t # NULL
            /\ t.user = suggestion[i].user /\ t.unit = suggestion[i].unit
BY NullAssumption DEF SuggestionsTyped, Sugg

\* The requests of others keep IInv.
LEMMA RequestInv ==
  ASSUME IInv, NEW user \in Users, Request(user)
  PROVE  IInv'
<1>1. ASSUME NEW u \in Units, NEW text \in Target, Create(user, u, text)
      PROVE  IInv'
  <2>1. InHand' /\ UnitsToGo' /\ OwnRows'
    BY <1>1 DEF Create, command, IInv, UnitsToGo, OwnRows, Running, InHand
  <2>. QED BY <1>1, <2>1 DEF Create, IInv, SuggestionsTyped, SubsOfSuggestions
<1>2. ASSUME NEW u \in Units, NEW y, Save(u, y, user, user, NULL),
             UNCHANGED <<suggestion, command>>
      PROVE  IInv'
  <2>1. InHand' /\ UnitsToGo' /\ OwnRows'
    BY <1>2, SaveAdds, RequestKeeps
  <2>2. SubsOfSuggestions'
    BY <1>2, SaveAdds DEF IInv, SubsOfSuggestions
  <2>. QED BY <1>2, <2>1, <2>2 DEF IInv, SuggestionsTyped
<1>3. ASSUME NEW u \in Units, NEW text \in Target, NEW f \in Fuzzy,
             Submit(user, u, text, f)
      PROVE  IInv'
  BY <1>2, <1>3 DEF Submit
<1>4. ASSUME NEW u \in Units, NEW text \in Comments, Comment(user, u, text)
      PROVE  IInv'
  BY <1>2, <1>4 DEF Comment
<1>5. ASSUME NEW u \in Units, NEW text \in Texts, NEW i \in Ids,
             Suggest(user, u, text, i)
      PROVE  IInv'
  <2>. DEFINE t == [unit |-> u, user |-> user, target |-> text,
                    state |-> "pending", reviewer |-> NULL]
  <2>1. t \in Sugg /\ suggestion' = [suggestion EXCEPT ![i] = t]
    BY <1>5 DEF Suggest, Sugg
  <2>2. suggestion[i] = NULL
    <3>1. i >= i
      BY MaxAssumption DEF Ids
    <3>. QED BY <1>5, <3>1 DEF Suggest
  <2>3. SuggestionsTyped'
    BY <2>1 DEF IInv, SuggestionsTyped
  <2>4. SubsOfSuggestions'
    BY <1>5, <2>1, <2>2 DEF Suggest, IInv, SuggestionsTyped, SubsOfSuggestions
  <2>5. InHand' /\ UnitsToGo' /\ OwnRows'
    BY <1>5 DEF Suggest, command, IInv, UnitsToGo, OwnRows, Running, InHand
  <2>. QED BY <2>3, <2>4, <2>5 DEF IInv
<1>6. ASSUME NEW i \in Ids, NEW text \in Texts, Accept(user, i, text)
      PROVE  IInv'
  <2>. DEFINE u == suggestion[i].unit
              t == [suggestion[i] EXCEPT !.state = "accepted", !.reviewer = user]
  <2>1. /\ suggestion[i] # NULL
        /\ suggestion' = [suggestion EXCEPT ![i] = t]
        /\ UNCHANGED command
    BY <1>6 DEF Accept, IInv, SuggestionsTyped
  <2>2. /\ t \in Sugg /\ t # NULL
        /\ t.user = suggestion[i].user /\ t.unit = suggestion[i].unit
    BY <2>1, SuggTypes DEF IInv, People
  <2>3. /\ \A s \in subs' : \/ s \in subs
                            \/ /\ s.unit = u /\ s.suggestion = i
                               /\ s.field # "state" => s.by = suggestion[i].user
        /\ spoiled \subseteq spoiled'
        /\ job # NULL /\ job.unit = u => u \in spoiled' \/ subs' = subs
    BY <1>6, SaveAdds DEF Accept
  <2>4. InHand' /\ UnitsToGo' /\ OwnRows'
    BY <2>1, <2>3, RequestKeeps
  <2>5. SuggestionsTyped'
    BY <2>1, <2>2 DEF IInv, SuggestionsTyped
  <2>6. SubsOfSuggestions'
    BY <2>1, <2>2, <2>3 DEF IInv, SuggestionsTyped, SubsOfSuggestions
  <2>. QED BY <2>4, <2>5, <2>6 DEF IInv
<1>7. ASSUME NEW i \in Ids, Reject(user, i)
      PROVE  IInv'
  <2>. DEFINE t == [suggestion[i] EXCEPT !.state = "rejected", !.reviewer = user]
  <2>1. /\ suggestion[i] # NULL
        /\ suggestion' = [suggestion EXCEPT ![i] = t]
        /\ UNCHANGED <<subs, command>> /\ spoiled \subseteq spoiled'
    BY <1>7 DEF Reject, IInv, SuggestionsTyped
  <2>2. /\ t \in Sugg /\ t # NULL
        /\ t.user = suggestion[i].user /\ t.unit = suggestion[i].unit
    BY <2>1, SuggTypes DEF IInv, People
  <2>3. InHand' /\ UnitsToGo' /\ OwnRows'
    BY <2>1, RequestKeeps
  <2>4. SuggestionsTyped' /\ SubsOfSuggestions'
    BY <2>1, <2>2 DEF IInv, SuggestionsTyped, SubsOfSuggestions
  <2>. QED BY <2>3, <2>4 DEF IInv
<1>. QED BY <1>1, <1>3, <1>4, <1>5, <1>6, <1>7 DEF Request

-----------------------------------------------------------------------------
(* The command *)

\* The rows of the two steps that go through submissions are the user's.
LEMMA QueriedRows ==
  ASSUME NEW name, name = "suggestions" \/ name = "states",
         NEW r \in Rows(name)
  PROVE  r.by = Evil /\ (name = "suggestions" => r.suggestion # NULL)
BY DEF Rows, FieldOf

\* Deleting a suggestion deletes its submissions with it.
LEMMA Deleted ==
  ASSUME IInv, NEW S, subs' \subseteq Cascade(S), suggestion' = Without(S)
  PROVE  SuggestionsTyped' /\ SubsOfSuggestions'
BY DEF IInv, SuggestionsTyped, SubsOfSuggestions, Cascade, Without

\* So does making it pending again, which keeps who made it.
LEMMA PendingTyped ==
  ASSUME SuggestionsTyped, NEW i \in Ids, suggestion[i] # NULL
  PROVE  /\ Pending(suggestion[i]) \in Sugg /\ Pending(suggestion[i]) # NULL
         /\ Pending(suggestion[i]).user = suggestion[i].user
         /\ Pending(suggestion[i]).unit = suggestion[i].unit
BY NullAssumption DEF SuggestionsTyped, Sugg, Pending

\* The steps of the command keep IInv.
LEMMA PurgeInv ==
  ASSUME IInv, Purge
  PROVE  IInv'
<1>. USE DEF IInv
<1>1. CASE NextStep
  <2>1. InHand'
    BY <1>1 DEF NextStep, InHand
  <2>2. SuggestionsTyped' /\ SubsOfSuggestions' /\ UnitsToGo'
    BY <1>1 DEF NextStep, records, SuggestionsTyped, SubsOfSuggestions, UnitsToGo
  <2>3. OwnRows'
    BY <1>1, QueriedRows DEF NextStep, OwnRows, Running, InHand, Steps
  <2>. QED BY <2>1, <2>2, <2>3
<1>2. CASE DeleteUnit
  <2>1. SuggestionsTyped'
    BY <1>2 DEF DeleteUnit, SuggestionsTyped
  <2>2. SubsOfSuggestions'
    BY <1>2 DEF DeleteUnit, SuggestionsTyped, SubsOfSuggestions
  <2>3. UnitsToGo' /\ OwnRows' /\ InHand'
    BY <1>2 DEF DeleteUnit, UnitsToGo, OwnRows, Running, InHand, Steps
  <2>. QED BY <2>1, <2>2, <2>3
<1>3. CASE WriteChange
  BY <1>3 DEF WriteChange, SuggestionsTyped, SubsOfSuggestions, UnitsToGo,
              OwnRows, Running, InHand, Steps
<1>4. CASE WriteUnit
  BY <1>4 DEF WriteUnit, SuggestionsTyped, SubsOfSuggestions, UnitsToGo,
              OwnRows, Running, InHand, Steps
<1>5. CASE DeleteRest
  <2>. DEFINE own == {i \in Ids : suggestion[i] # NULL /\ suggestion[i].user = Evil}
  <2>1. SuggestionsTyped' /\ SubsOfSuggestions'
    <3>1. subs' \subseteq Cascade(own) /\ suggestion' = Without(own)
      BY <1>5 DEF DeleteRest
    <3>. QED BY <3>1, Deleted
  <2>2. step = 7 /\ step' = 8 /\ job' = job
    BY <1>5 DEF DeleteRest, Running, Steps, InHand
  <2>3. UnitsToGo' /\ OwnRows' /\ InHand'
    BY <2>2 DEF UnitsToGo, OwnRows, Running, Steps, InHand
  <2>. QED BY <2>1, <2>3
<1>6. CASE DeleteUser
  <2>1. \A i \in Ids : suggestion[i] # NULL =>
          LET t == [suggestion[i] EXCEPT !.reviewer = Named(@)]
          IN /\ t \in Sugg /\ t # NULL
             /\ t.user = suggestion[i].user /\ t.unit = suggestion[i].unit
    BY NullAssumption DEF SuggestionsTyped, Sugg, Named, People
  <2>2. SuggestionsTyped' /\ SubsOfSuggestions'
    BY <1>6, <2>1 DEF DeleteUser, SuggestionsTyped, SubsOfSuggestions
  <2>3. step = 8 /\ step' = 0 /\ job' = job
    BY <1>6 DEF DeleteUser, Running, Steps, InHand
  <2>. QED BY <2>2, <2>3 DEF UnitsToGo, OwnRows, Running, InHand, Steps
<1>7. ASSUME NEW u \in Units, LookCreated(u)
      PROVE  IInv'
  BY <1>7 DEF LookCreated, records, SuggestionsTyped, SubsOfSuggestions,
              UnitsToGo, OwnRows, Running, InHand, Steps
<1>8. ASSUME NEW r \in todo, NEW name \in {"submitted", "commented"}, Look(name, r)
      PROVE  IInv'
  <2>1. SuggestionsTyped' /\ SubsOfSuggestions'
    BY <1>8 DEF Look, records, SuggestionsTyped, SubsOfSuggestions
  <2>2. step \in {2, 5} /\ step' = step
    <3>1. (Running("submitted") \/ Running("commented")) /\ step' = step
      BY <1>8 DEF Look
    <3>. QED BY <3>1 DEF Running, Steps, InHand
  <2>3. InHand' /\ UnitsToGo' /\ OwnRows'
    BY <2>2 DEF UnitsToGo, OwnRows, Running, InHand, Steps
  <2>. QED BY <2>1, <2>3
<1>9. ASSUME NEW r \in todo, LookReviewed(r)
      PROVE  IInv'
  <2>1. SuggestionsTyped' /\ SubsOfSuggestions'
    BY <1>9, PendingTyped DEF LookReviewed, SuggestionsTyped, SubsOfSuggestions
  <2>2. step = 4 /\ step' = 4
    <3>1. Running("reviewed") /\ step' = step
      BY <1>9 DEF LookReviewed
    <3>. QED BY <3>1 DEF Running, Steps, InHand
  <2>3. InHand' /\ UnitsToGo' /\ OwnRows'
    BY <2>2 DEF UnitsToGo, OwnRows, Running, InHand, Steps
  <2>. QED BY <2>1, <2>3
<1>10. ASSUME NEW r \in todo, RevertReview(r)
       PROVE  IInv'
  <2>. DEFINE i == r.suggestion
              own == {j \in {i} : suggestion[j] # NULL /\ suggestion[j].user = Evil}
  <2>1. subs' \subseteq Cascade(own) /\ subs' \subseteq subs
    BY <1>10 DEF RevertReview, Cascade
  <2>2. ASSUME suggestion' = Without(own)
        PROVE  SuggestionsTyped' /\ SubsOfSuggestions'
    BY <2>1, <2>2, Deleted
  <2>3. ASSUME suggestion' = [suggestion EXCEPT ![i] = Pending(@)],
               suggestion[i] # NULL
        PROVE  SuggestionsTyped' /\ SubsOfSuggestions'
    <3>1. CASE i \in Ids
      BY <2>1, <2>3, <3>1, PendingTyped DEF SuggestionsTyped, SubsOfSuggestions
    <3>2. CASE i \notin Ids
      BY <2>1, <2>3, <3>2 DEF SuggestionsTyped, SubsOfSuggestions
    <3>. QED BY <3>1, <3>2
  <2>4. SuggestionsTyped' /\ SubsOfSuggestions'
    BY <1>10, <2>2, <2>3 DEF RevertReview
  <2>5. InHand' /\ UnitsToGo' /\ OwnRows'
    BY <1>10, <2>1 DEF RevertReview, UnitsToGo, OwnRows, Running, InHand, Steps
  <2>. QED BY <2>4, <2>5
<1>11. ASSUME NEW r \in todo, RevertStateChange(r)
       PROVE  IInv'
  BY <1>11 DEF RevertStateChange, SuggestionsTyped, SubsOfSuggestions,
               UnitsToGo, OwnRows, Running, InHand, Steps
<1>. QED BY <1>1, <1>2, <1>3, <1>4, <1>5, <1>6, <1>7, <1>8, <1>9, <1>10, <1>11
         DEF Purge

\* IInv is an invariant.
LEMMA InvHolds == Spec => []IInv
<1>1. Init => IInv
  <2>. SUFFICES ASSUME Init PROVE IInv
    OBVIOUS
  <2>1. subs = {} /\ suggestion = [i \in Ids |-> NULL] /\ step = 0 /\ job = NULL
    BY DEF Init
  <2>. QED BY <2>1 DEF IInv, SuggestionsTyped, SubsOfSuggestions, UnitsToGo,
                       OwnRows, Running, InHand
<1>2. IInv /\ [Next]_vars => IInv'
  <2>. SUFFICES ASSUME IInv, [Next]_vars PROVE IInv'
    OBVIOUS
  <2>1. CASE Begin
    BY <2>1 DEF Begin, IInv, records, SuggestionsTyped, SubsOfSuggestions,
                UnitsToGo, OwnRows, Running, Steps, InHand
  <2>2. CASE Kill
    BY <2>2 DEF Kill, IInv, records, SuggestionsTyped, SubsOfSuggestions,
                UnitsToGo, OwnRows, Running, InHand, Steps
  <2>3. CASE UNCHANGED vars
    BY <2>3 DEF vars, IInv, SuggestionsTyped, SubsOfSuggestions,
                UnitsToGo, OwnRows, Running, InHand, Steps
  <2>. QED BY <2>1, <2>2, <2>3, PurgeInv, RequestInv DEF Next
<1>. QED BY <1>1, <1>2, PTL DEF Spec

\* No step of the command deletes a submission of a target or a comment by somebody
\* else.
LEMMA PurgeKeeps ==
  ASSUME IInv, Purge, NEW s \in subs, s.by # Evil, s.field # "state"
  PROVE  s \in subs' \/ s.unit \in spoiled
<1>. DEFINE own == {i \in Ids : suggestion[i] # NULL /\ suggestion[i].user = Evil}
<1>1. s \in Cascade(own)
  BY NullAssumption DEF IInv, SubsOfSuggestions, Cascade
<1>2. CASE DeleteUnit
  BY <1>2 DEF DeleteUnit, IInv, UnitsToGo
<1>3. CASE DeleteRest
  BY <1>1, <1>3 DEF DeleteRest
<1>4. ASSUME NEW r \in todo, RevertReview(r) PROVE s \in subs'
  <2>. DEFINE i == r.suggestion
              mine == {j \in {i} : suggestion[j] # NULL /\ suggestion[j].user = Evil}
  <2>1. r.by = Evil /\ i # NULL
    BY <1>4 DEF RevertReview, IInv, OwnRows
  <2>2. s \in Cascade(mine)
    BY <2>1 DEF IInv, SubsOfSuggestions, Cascade
  <2>. QED BY <1>4, <2>1, <2>2 DEF RevertReview
<1>5. ASSUME NEW r \in todo, RevertStateChange(r) PROVE s \in subs'
  BY <1>5 DEF RevertStateChange, IInv, OwnRows
<1>6. CASE UNCHANGED subs
  BY <1>6
<1>. QED BY <1>2, <1>3, <1>4, <1>5, <1>6
         DEF Purge, NextStep, WriteChange, WriteUnit, DeleteUser, LookCreated,
             Look, LookReviewed, records

\* The command deletes no target and no comment that others have submitted, in
\* whatever order its steps and their requests come, but for units that somebody
\* saves just as they are deleted.
THEOREM OthersAreKept == Spec => OthersKept
<1>1. IInv => (Purge => \A s \in subs :
        s.by # Evil /\ s.field # "state" => s \in subs' \/ s.unit \in spoiled)
  BY PurgeKeeps
<1>. QED BY <1>1, InvHolds, PTL DEF OthersKept

-----------------------------------------------------------------------------
(* Types *)

SubTyped(s) ==
  /\ s.field \in {"target", "comment", "state"}
  /\ CASE s.field = "target" -> s \in Sub("target", Target)
       [] s.field = "comment" -> s \in Sub("comment", Comments)
       [] s.field = "state" -> s \in Sub("state", LiveStates)
JobTyped(j) ==
  CASE step = 1 -> j \in Deletion
    [] step = 2 -> j \in Writing("submitted", Target)
    [] step = 4 -> j \in Writing("reviewed", LiveStates)
    [] step = 5 -> j \in Writing("commented", Comments)

RowsTyped ==
  /\ unit \in [Units -> Row \cup {NULL}]
  /\ change \in [Units -> Change \cup {NULL}]
  /\ \A u \in Units : unit[u] = NULL => change[u] = NULL
SubsTyped == \A s \in subs : SubTyped(s) /\ s.time < clock
OfUnits ==
  /\ \A s \in subs : unit[s.unit] # NULL
  /\ \A i \in Ids : suggestion[i] # NULL => unit[suggestion[i].unit] # NULL
OfSuggestions ==
  \A s \in subs : s.suggestion # NULL =>
    suggestion[s.suggestion] # NULL /\ suggestion[s.suggestion].unit = s.unit
CommandTyped ==
  /\ clock \in 1..(MaxSaves + 1) /\ step \in 0..8
  /\ gone \in BOOLEAN /\ spoiled \subseteq Units
  /\ job # NULL => step \in {1, 2, 4, 5} /\ JobTyped(job)
\* The rows of units have a UnitChange, and so has the one in hand.
TodoTyped ==
  /\ step = 1 => todo \subseteq Units
  /\ step \in {2, 4, 5} =>
       /\ \A r \in todo : r.unit \in Units /\ r.target \in Target /\ change[r.unit] # NULL
       /\ job # NULL => change[job.unit] # NULL
  /\ step = 3 => \A r \in todo : r.suggestion \in Ids
NobodyLeft ==
  /\ step = 8 \/ gone => /\ \A s \in subs : s.by # Evil
                         /\ \A i \in Ids : suggestion[i] # NULL => suggestion[i].user # Evil
  /\ gone => /\ step = 0
             /\ \A i \in Ids : suggestion[i] # NULL => suggestion[i].reviewer # Evil
             /\ \A u \in Units : unit[u] # NULL => unit[u].creator # Evil

TypeInv ==
  /\ SuggestionsTyped /\ RowsTyped /\ SubsTyped /\ OfUnits /\ OfSuggestions
  /\ CommandTyped /\ TodoTyped /\ NobodyLeft

\* What a submission holds.
LEMMA SubFields ==
  ASSUME NEW s, SubTyped(s)
  PROVE  /\ s.unit \in Units /\ s.by \in Users /\ s.suggestion \in Ids \cup {NULL}
         /\ s.time \in Int /\ s.time >= 1 /\ s.time <= MaxSaves
         /\ s.field = "target" => s.new \in Target
         /\ s.field = "comment" => s.new \in Comments
         /\ s.field = "state" => s.new \in LiveStates
<1>1. \/ s \in Sub("target", Target) \/ s \in Sub("comment", Comments)
      \/ s \in Sub("state", LiveStates)
  BY DEF SubTyped
<1>2. ASSUME NEW field, NEW values, s \in Sub(field, values)
      PROVE  /\ s.unit \in Units /\ s.by \in Users /\ s.suggestion \in Ids \cup {NULL}
             /\ s.time \in Times /\ s.field = field /\ s.new \in values
  BY <1>2 DEF Sub
<1>3. s.time \in Times
  BY <1>1, <1>2
<1>4. s.time \in Int /\ s.time >= 1 /\ s.time <= MaxSaves
  BY <1>3, MaxAssumption DEF Times
<1>. QED BY <1>1, <1>2, <1>4

\* What the command holds of the unit it is about to write.
LEMMA JobFields ==
  ASSUME CommandTyped, job # NULL, step \in {2, 4, 5}
  PROVE  /\ job.unit \in Units /\ job.by \in Users \cup {NULL}
         /\ step = 2 => /\ job.field = "submitted" /\ job.value \in Target
                        /\ job \in Writing("submitted", Target)
         /\ step = 4 => /\ job.field = "reviewed" /\ job.value \in LiveStates
                        /\ job \in Writing("reviewed", LiveStates)
         /\ step = 5 => /\ job.field = "commented" /\ job.value \in Comments
                        /\ job \in Writing("commented", Comments)
<1>1. ASSUME NEW field, NEW values, job \in Writing(field, values)
      PROVE  /\ job.unit \in Units /\ job.by \in Users \cup {NULL}
             /\ job.field = field /\ job.value \in values
  BY <1>1 DEF Writing
<1>2. CASE step = 2
  <2>1. job \in Writing("submitted", Target)
    BY <1>2 DEF CommandTyped, JobTyped
  <2>. QED BY <1>1, <1>2, <2>1
<1>3. CASE step = 4
  <2>1. job \in Writing("reviewed", LiveStates)
    BY <1>3 DEF CommandTyped, JobTyped
  <2>. QED BY <1>1, <1>3, <2>1
<1>4. CASE step = 5
  <2>1. job \in Writing("commented", Comments)
    BY <1>4 DEF CommandTyped, JobTyped
  <2>. QED BY <1>1, <1>4, <2>1
<1>. QED BY <1>2, <1>3, <1>4

\* What a unit is saved as is a unit, and so is one with another value of a field.
LEMMA PreSaveTyped ==
  ASSUME NEW x \in Row, NEW y \in Row
  PROVE  /\ PreSave(x, y) \in Row
         /\ PreSave(x, y).target = y.target /\ PreSave(x, y).comment = y.comment
         /\ PreSave(x, y).origin = y.origin /\ PreSave(x, y).creator = y.creator
<1>1. ASSUME NEW n \in {UNTRANSLATED, TRANSLATED}
      PROVE  /\ [y EXCEPT !.state = n] \in Row
             /\ [y EXCEPT !.state = n].target = y.target
             /\ [y EXCEPT !.state = n].comment = y.comment
             /\ [y EXCEPT !.state = n].origin = y.origin
             /\ [y EXCEPT !.state = n].creator = y.creator
  <2>1. n \in LiveStates
    BY DEF LiveStates, States, TRANSLATED, UNTRANSLATED, OBSOLETE, FUZZY
  <2>. QED BY <2>1 DEF Row
<1>2. PreSave(x, y) \in {y, [y EXCEPT !.state = UNTRANSLATED], [y EXCEPT !.state = TRANSLATED]}
  BY DEF PreSave
<1>. QED BY <1>1, <1>2

\* A save of a unit writes a unit and its UnitChange, and adds submissions.
LEMMA SaveTyped ==
  ASSUME RowsTyped, NEW u \in Units, unit[u] # NULL, NEW y \in Row,
         NEW user \in Users, NEW reviewer \in Users, NEW i \in Ids \cup {NULL},
         Save(u, y, user, reviewer, i), clock \in 1..(MaxSaves + 1)
  PROVE  /\ unit' = [unit EXCEPT ![u] = PreSave(unit[u], y)]
         /\ \E c \in Change : change' = [change EXCEPT ![u] = c]
         /\ \A s \in subs' : \/ s \in subs
                             \/ /\ SubTyped(s) /\ s.time = clock /\ s.unit = u
                                /\ s.suggestion = i /\ s.by \in {user, reviewer}
         /\ clock' = clock + 1 /\ clock' \in 1..(MaxSaves + 1)
         /\ spoiled' = spoiled \/ spoiled' = spoiled \cup {u}
<1>. DEFINE x == unit[u]
            z == PreSave(x, y)
<1>1. x \in Row /\ z \in Row
  BY PreSaveTyped DEF RowsTyped
<1>2. Kept(u) \in Change
  BY DEF RowsTyped, Kept, Change
<1>3. \E c \in Change : change' = [change EXCEPT ![u] = c]
  <2>1. ASSUME NEW b1, NEW b2, NEW b3,
               NEW p1 \in People \cup {NULL}, NEW p2 \in People \cup {NULL},
               NEW p3 \in People \cup {NULL}
        PROVE  [submitted |-> p1, commented |-> p2, reviewed |-> p3] \in Change
    BY DEF Change
  <2>. DEFINE submits == z.target # x.target \/ change[u] = NULL
              reviews == \/ reviewer # user
                         \/ z.state # x.state /\ ~(z.target # x.target)
                         \/ z.state # x.state /\ z.state = UNTRANSLATED
              p1 == IF submits THEN user ELSE Kept(u).submitted
              p2 == IF z.comment # x.comment THEN user ELSE Kept(u).commented
              p3 == IF reviews THEN reviewer ELSE Kept(u).reviewed
  <2>2. change' = [change EXCEPT ![u] = [submitted |-> p1, commented |-> p2, reviewed |-> p3]]
    BY DEF Save
  <2>3. /\ Kept(u).submitted \in People \cup {NULL}
        /\ Kept(u).commented \in People \cup {NULL}
        /\ Kept(u).reviewed \in People \cup {NULL}
    BY <1>2 DEF Change
  <2>4. user \in People /\ reviewer \in People
    BY DEF People
  <2>5. p1 \in People \cup {NULL} /\ p2 \in People \cup {NULL} /\ p3 \in People \cup {NULL}
    BY <2>3, <2>4
  <2>. HIDE DEF p1, p2, p3
  <2>. QED BY <2>2, <2>5 DEF Change
<1>4. clock \in Times /\ clock' = clock + 1 /\ clock' \in 1..(MaxSaves + 1)
  BY MaxAssumption DEF Save, Times
<1>5. ASSUME NEW s \in subs', s \notin subs
      PROVE  /\ SubTyped(s) /\ s.time = clock /\ s.unit = u
             /\ s.suggestion = i /\ s.by \in {user, reviewer}
  <2>. DEFINE sub(field, by, new) == [unit |-> u, field |-> field, time |-> clock, by |-> by,
                                      new |-> new, suggestion |-> i]
  <2>1. \/ s = sub("comment", user, z.comment)
        \/ s = sub("target", user, z.target)
        \/ s = sub("state", user, z.state)
        \/ s = sub("state", reviewer, z.state)
    BY <1>5 DEF Save
  <2>2. z.comment \in Comments /\ z.target \in Target /\ z.state \in LiveStates
    BY <1>1 DEF Row
  <2>. HIDE DEF z
  <2>3. ASSUME NEW by \in Users, NEW field, NEW new, s = sub(field, by, new)
        PROVE  /\ s.time = clock /\ s.unit = u /\ s.suggestion = i /\ s.by = by
               /\ s.field = field
               /\ \A values : new \in values => s \in Sub(field, values)
    BY <1>4, <2>3 DEF Sub
  <2>4. CASE s = sub("comment", user, z.comment)
    BY <2>2, <2>3, <2>4 DEF SubTyped
  <2>5. CASE s = sub("target", user, z.target)
    BY <2>2, <2>3, <2>5 DEF SubTyped
  <2>6. ASSUME NEW by \in {user, reviewer}, s = sub("state", by, z.state)
        PROVE  SubTyped(s) /\ s.time = clock /\ s.unit = u /\ s.suggestion = i /\ s.by = by
    BY <2>2, <2>3, <2>6 DEF SubTyped
  <2>. QED BY <2>1, <2>3, <2>4, <2>5, <2>6
<1>. QED BY <1>3, <1>4, <1>5 DEF Save
SameSuggestions ==
  \A j \in Ids : /\ suggestion[j] = NULL <=> suggestion'[j] = NULL
                 /\ suggestion[j] # NULL => /\ suggestion'[j].unit = suggestion[j].unit
                                            /\ suggestion'[j].user = suggestion[j].user

\* What a request that saves a unit leaves, for a suggestion of that unit or none.
LEMMA SavesType ==
  ASSUME TypeInv, NEW u \in Units, unit[u] # NULL, NEW y \in Row,
         NEW user \in Users, NEW reviewer \in Users, NEW i \in Ids \cup {NULL},
         Save(u, y, user, reviewer, i), UNCHANGED command,
         i # NULL => suggestion[i] # NULL /\ suggestion[i].unit = u,
         y.creator = unit[u].creator,
         step = 8 \/ gone => user # Evil /\ reviewer # Evil,
         SuggestionsTyped', SameSuggestions,
         gone => \A j \in Ids : suggestion'[j] # NULL => suggestion'[j].reviewer # Evil
  PROVE  TypeInv'
<1>. USE DEF TypeInv
<1>. DEFINE z == PreSave(unit[u], y)
<1>1. /\ unit' = [unit EXCEPT ![u] = z]
      /\ \E c \in Change : change' = [change EXCEPT ![u] = c]
      /\ \A s \in subs' : \/ s \in subs
                          \/ /\ SubTyped(s) /\ s.time = clock /\ s.unit = u
                             /\ s.suggestion = i /\ s.by \in {user, reviewer}
      /\ clock' = clock + 1 /\ clock' \in 1..(MaxSaves + 1)
      /\ spoiled' = spoiled \/ spoiled' = spoiled \cup {u}
  BY SaveTyped DEF CommandTyped
<1>2. PICK c \in Change : change' = [change EXCEPT ![u] = c]
  BY <1>1
<1>3. z \in Row /\ z # NULL /\ c # NULL /\ z.creator = unit[u].creator
  BY PreSaveTyped, NullAssumption DEF RowsTyped
<1>. HIDE DEF z
<1>4. RowsTyped'
  BY <1>1, <1>2, <1>3 DEF RowsTyped
<1>5. \A v \in Units : unit[v] # NULL => unit'[v] # NULL
  BY <1>1, <1>3 DEF RowsTyped
<1>6. \A v \in Units : change[v] # NULL => change'[v] # NULL
  BY <1>2, <1>3 DEF RowsTyped
<1>7. SubsTyped'
  <2>. SUFFICES ASSUME NEW s \in subs' PROVE SubTyped(s) /\ s.time < clock'
    BY DEF SubsTyped, SubTyped
  <2>1. CASE s \in subs
    <3>1. s.time \in Int /\ clock \in Int
      BY <2>1, SubFields, MaxAssumption DEF SubsTyped, CommandTyped
    <3>. QED BY <1>1, <2>1, <3>1 DEF SubsTyped
  <2>2. CASE s \notin subs
    BY <1>1, <2>2, MaxAssumption DEF CommandTyped
  <2>. QED BY <2>1, <2>2
<1>8. OfUnits'
  <2>1. \A s \in subs' : unit'[s.unit] # NULL
    BY <1>1, <1>5, SubFields DEF OfUnits, SubsTyped
  <2>2. \A j \in Ids : suggestion'[j] # NULL => unit'[suggestion'[j].unit] # NULL
    BY <1>5 DEF OfUnits, SameSuggestions, SuggestionsTyped, Sugg
  <2>. QED BY <2>1, <2>2 DEF OfUnits
<1>9. OfSuggestions'
  <2>1. \A s \in subs : s.suggestion \in Ids \cup {NULL}
    BY SubFields DEF SubsTyped
  <2>. QED BY <1>1, <2>1 DEF OfSuggestions, SameSuggestions
<1>10. CommandTyped' /\ TodoTyped'
  <2>1. CommandTyped'
    BY <1>1 DEF CommandTyped, JobTyped, command
  <2>2. step \in {2, 4, 5} /\ job # NULL => job.unit \in Units
    BY JobFields
  <2>3. TodoTyped'
    BY <1>6, <2>2 DEF TodoTyped, command
  <2>. QED BY <2>1, <2>3
<1>11. NobodyLeft'
  <2>1. gone => \A v \in Units : unit'[v] # NULL => unit'[v].creator # Evil
    BY <1>1, <1>3 DEF RowsTyped, NobodyLeft
  <2>2. step = 8 \/ gone => \A j \in Ids : suggestion'[j] # NULL => suggestion'[j].user # Evil
    BY DEF NobodyLeft, SameSuggestions
  <2>3. step = 8 \/ gone => \A s \in subs' : s.by # Evil
    BY <1>1 DEF NobodyLeft
  <2>4. step' = step /\ gone' = gone
    BY DEF command
  <2>. QED BY <2>1, <2>2, <2>3, <2>4 DEF NobodyLeft
<1>. QED BY <1>4, <1>7, <1>8, <1>9, <1>10, <1>11
\* The requests of others keep the types.
LEMMA RequestTypes ==
  ASSUME TypeInv, NEW user \in Users, Request(user)
  PROVE  TypeInv'
<1>. USE DEF TypeInv
<1>1. ASSUME NEW u \in Units, NEW text \in Target, Create(user, u, text)
      PROVE  TypeInv'
  <2>. DEFINE x == [target |-> text, comment |-> "", creator |-> user,
                    state |-> IF text = "" THEN UNTRANSLATED ELSE TRANSLATED,
                    origin |-> IF user = Evil THEN "" ELSE text]
              c == IF text = "" THEN NULL
                   ELSE [submitted |-> user, commented |-> NULL, reviewed |-> NULL]
  <2>1. x \in Row
    <3>. DEFINE state == IF text = "" THEN UNTRANSLATED ELSE TRANSLATED
                origin == IF user = Evil THEN "" ELSE text
    <3>1. state \in LiveStates
      BY DEF LiveStates, States, UNTRANSLATED, TRANSLATED, OBSOLETE, FUZZY
    <3>2. origin \in Target /\ "" \in Comments /\ user \in People
      BY TextsAssumption DEF Target, People
    <3>. HIDE DEF state, origin
    <3>3. [target |-> text, comment |-> "", creator |-> user,
           state |-> state, origin |-> origin] \in Row
      BY <3>1, <3>2 DEF Row
    <3>. QED BY <3>3 DEF state, origin
  <2>2. c \in Change \cup {NULL} /\ x # NULL /\ x.creator = user
    BY <2>1, NullAssumption DEF Change, People
  <2>3. /\ unit[u] = NULL /\ change[u] = NULL
        /\ unit' = [unit EXCEPT ![u] = x] /\ change' = [change EXCEPT ![u] = c]
        /\ clock' = clock + 1 /\ clock <= MaxSaves
        /\ UNCHANGED <<subs, suggestion, command, spoiled>>
        /\ user = Evil => step = 0 /\ ~gone
    BY <1>1 DEF Create, RowsTyped, Active
  <2>. HIDE DEF x, c
  <2>4. RowsTyped'
    BY <2>1, <2>2, <2>3 DEF RowsTyped
  <2>5. \A v \in Units : unit[v] # NULL => unit'[v] # NULL
    BY <2>2, <2>3 DEF RowsTyped
  <2>6. \A v \in Units : change[v] # NULL => change'[v] # NULL
    BY <2>3 DEF RowsTyped
  <2>7. SubsTyped'
    <3>. SUFFICES ASSUME NEW s \in subs PROVE SubTyped(s) /\ s.time < clock + 1
      BY <2>3 DEF SubsTyped, SubTyped
    <3>. QED BY SubFields, MaxAssumption DEF SubsTyped, CommandTyped
  <2>8. OfUnits'
    <3>1. \A s \in subs : s.unit \in Units
      BY SubFields DEF SubsTyped
    <3>2. \A i \in Ids : suggestion[i] # NULL => suggestion[i].unit \in Units
      BY DEF SuggestionsTyped, Sugg
    <3>. QED BY <2>3, <2>5, <3>1, <3>2 DEF OfUnits
  <2>9. CommandTyped'
    <3>1. clock' \in 1..(MaxSaves + 1)
      BY <2>3, MaxAssumption DEF CommandTyped
    <3>. QED BY <2>3, <3>1 DEF CommandTyped, JobTyped, command
  <2>10. TodoTyped'
    BY <2>3, <2>6, JobFields DEF TodoTyped, command
  <2>11. NobodyLeft'
    BY <2>2, <2>3 DEF NobodyLeft, command, RowsTyped
  <2>. QED BY <2>3, <2>4, <2>7, <2>8, <2>9, <2>10, <2>11 DEF SuggestionsTyped, OfSuggestions
<1>2. ASSUME NEW u \in Units, NEW y \in Row, Save(u, y, user, user, NULL),
             unit[u] # NULL, y.creator = unit[u].creator, Active(user),
             UNCHANGED <<suggestion, command>>
      PROVE  TypeInv'
  <2>1. SuggestionsTyped' /\ SameSuggestions
    BY <1>2 DEF SuggestionsTyped, SameSuggestions
  <2>2. /\ step = 8 \/ gone => user # Evil
        /\ gone => \A j \in Ids : suggestion'[j] # NULL => suggestion'[j].reviewer # Evil
    BY <1>2 DEF Active, NobodyLeft
  <2>. QED BY <1>2, <2>1, <2>2, SavesType
<1>3. ASSUME NEW u \in Units, NEW text \in Target, NEW f \in Fuzzy,
             Submit(user, u, text, f)
      PROVE  TypeInv'
  <2>. DEFINE state == CASE text = "" -> UNTRANSLATED
                         [] text # "" /\ f -> FUZZY
                         [] OTHER -> TRANSLATED
              y == [unit[u] EXCEPT !.target = text, !.state = state]
  <2>1. state \in LiveStates
    BY DEF LiveStates, States, UNTRANSLATED, TRANSLATED, OBSOLETE, FUZZY
  <2>2. /\ Active(user) /\ unit[u] # NULL /\ Save(u, y, user, user, NULL)
        /\ UNCHANGED <<suggestion, command>>
    BY <1>3 DEF Submit
  <2>. HIDE DEF state
  <2>3. y \in Row /\ y.creator = unit[u].creator
    BY <2>1, <2>2 DEF RowsTyped, Row
  <2>. HIDE DEF y
  <2>. QED BY <1>2, <2>2, <2>3
<1>4. ASSUME NEW u \in Units, NEW text \in Comments, Comment(user, u, text)
      PROVE  TypeInv'
  <2>. DEFINE y == [unit[u] EXCEPT !.comment = text]
  <2>1. /\ Active(user) /\ unit[u] # NULL /\ Save(u, y, user, user, NULL)
        /\ UNCHANGED <<suggestion, command>>
    BY <1>4 DEF Comment
  <2>2. y \in Row /\ y.creator = unit[u].creator
    BY <2>1 DEF RowsTyped, Row
  <2>. HIDE DEF y
  <2>. QED BY <1>2, <2>1, <2>2
<1>5. ASSUME NEW u \in Units, NEW text \in Texts, NEW i \in Ids,
             Suggest(user, u, text, i)
      PROVE  TypeInv'
  <2>. DEFINE t == [unit |-> u, user |-> user, target |-> text,
                    state |-> "pending", reviewer |-> NULL]
  <2>1. t \in Sugg /\ t # NULL /\ t.unit = u /\ t.user = user /\ t.reviewer = NULL
    BY NullAssumption DEF Sugg
  <2>2. /\ suggestion[i] = NULL /\ suggestion' = [suggestion EXCEPT ![i] = t]
        /\ unit[u] # NULL /\ Active(user)
        /\ UNCHANGED <<unit, change, subs, clock, command, spoiled>>
    <3>1. i >= i
      BY MaxAssumption DEF Ids
    <3>. QED BY <1>5, <3>1 DEF Suggest
  <2>. HIDE DEF t
  <2>3. /\ suggestion'[i] = t
        /\ \A j \in Ids : suggestion[j] # NULL => suggestion'[j] = suggestion[j]
        /\ \A j \in Ids \ {i} : suggestion'[j] = suggestion[j]
    BY <2>2 DEF SuggestionsTyped
  <2>4. SuggestionsTyped' /\ OfUnits'
    BY <2>1, <2>2, <2>3 DEF SuggestionsTyped, OfUnits
  <2>5. OfSuggestions'
    BY <2>2, <2>3, SubFields DEF OfSuggestions, SubsTyped
  <2>6. NobodyLeft'
    BY <2>1, <2>2, <2>3, UsersAssumption DEF NobodyLeft, Active, command
  <2>7. RowsTyped' /\ SubsTyped' /\ CommandTyped' /\ TodoTyped'
    BY <2>2 DEF RowsTyped, SubsTyped, SubTyped, CommandTyped, JobTyped, TodoTyped, command
  <2>. QED BY <2>4, <2>5, <2>6, <2>7
<1>6. ASSUME NEW i \in Ids, suggestion[i] # NULL, Active(user),
             NEW state \in {"accepted", "rejected"},
             suggestion' = [suggestion EXCEPT ![i].state = state, ![i].reviewer = user]
      PROVE  /\ SuggestionsTyped' /\ SameSuggestions
             /\ gone => \A j \in Ids : suggestion'[j] # NULL => suggestion'[j].reviewer # Evil
  <2>. DEFINE t == [suggestion[i] EXCEPT !.state = state, !.reviewer = user]
  <2>1. suggestion' = [suggestion EXCEPT ![i] = t]
    BY <1>6 DEF SuggestionsTyped
  <2>2. /\ t \in Sugg /\ t # NULL
        /\ t.user = suggestion[i].user /\ t.unit = suggestion[i].unit
    <3>1. state \in {"pending", "accepted", "rejected"} /\ user \in People \cup {NULL}
      BY DEF People
    <3>. QED BY <1>6, <3>1, NullAssumption DEF SuggestionsTyped, Sugg
  <2>3. t.reviewer = user
    BY <1>6 DEF SuggestionsTyped, Sugg
  <2>. HIDE DEF t
  <2>4. suggestion'[i] = t /\ \A j \in Ids \ {i} : suggestion'[j] = suggestion[j]
    BY <2>1 DEF SuggestionsTyped
  <2>. QED BY <1>6, <2>1, <2>2, <2>3, <2>4 DEF SuggestionsTyped, SameSuggestions, NobodyLeft, Active
<1>7. ASSUME TypeInv, SuggestionsTyped', SameSuggestions, UNCHANGED <<unit, subs, clock, command>>,
             gone => \A j \in Ids : suggestion'[j] # NULL => suggestion'[j].reviewer # Evil,
             RowsTyped', \A u \in Units : change[u] # NULL => change'[u] # NULL,
             spoiled' \subseteq Units
      PROVE  TypeInv'
  <2>1. OfUnits' /\ OfSuggestions' /\ NobodyLeft'
    BY <1>7, SubFields
       DEF OfUnits, OfSuggestions, NobodyLeft, SameSuggestions, SubsTyped, command
  <2>2. TodoTyped'
    BY <1>7, JobFields DEF TodoTyped, command
  <2>. QED BY <1>7, <2>1, <2>2 DEF SubsTyped, SubTyped, CommandTyped, JobTyped, command
<1>8. ASSUME NEW i \in Ids, NEW text \in Texts, Accept(user, i, text)
      PROVE  TypeInv'
  <2>. DEFINE s == suggestion[i]
              x == unit[s.unit]
              y == [x EXCEPT !.target = text,
                             !.state = IF @ = FUZZY THEN TRANSLATED ELSE @]
  <2>1. /\ Active(user) /\ s # NULL
        /\ \/ Save(s.unit, y, s.user, user, i)
           \/ UNCHANGED <<unit, change, subs, clock, spoiled>>
        /\ suggestion' = [suggestion EXCEPT ![i].state = "accepted", ![i].reviewer = user]
        /\ UNCHANGED command
    BY <1>8 DEF Accept
  <2>2. s \in Sugg /\ s.unit \in Units /\ s.user \in Users /\ x # NULL /\ x \in Row
    BY <2>1 DEF SuggestionsTyped, Sugg, OfUnits, RowsTyped
  <2>3. y \in Row /\ y.creator = x.creator
    <3>. DEFINE state == IF x.state = FUZZY THEN TRANSLATED ELSE x.state
    <3>1. state \in LiveStates /\ text \in Target
      <4>1. x.state \in LiveStates
        BY <2>2 DEF Row
      <4>2. TRANSLATED \in LiveStates
        BY DEF LiveStates, States, TRANSLATED, OBSOLETE
      <4>. QED BY <4>1, <4>2 DEF Target
    <3>2. y = [x EXCEPT !.target = text, !.state = state]
      BY <2>2 DEF Row
    <3>. HIDE DEF state
    <3>. QED BY <2>2, <3>1, <3>2 DEF Row
  <2>4. /\ SuggestionsTyped' /\ SameSuggestions
        /\ gone => \A j \in Ids : suggestion'[j] # NULL => suggestion'[j].reviewer # Evil
    BY <1>6, <2>1
  <2>5. step = 8 \/ gone => s.user # Evil /\ user # Evil
    BY <2>1 DEF NobodyLeft, Active
  <2>. HIDE DEF y
  <2>6. CASE Save(s.unit, y, s.user, user, i)
    BY <2>1, <2>2, <2>3, <2>4, <2>5, <2>6, SavesType
  <2>7. CASE UNCHANGED <<unit, change, subs, clock, spoiled>>
    <3>1. RowsTyped' /\ spoiled' \subseteq Units
      BY <2>7 DEF RowsTyped, CommandTyped
    <3>. QED BY <1>7, <2>1, <2>4, <2>7, <3>1
  <2>. QED BY <2>1, <2>6, <2>7
<1>9. ASSUME NEW i \in Ids, Reject(user, i)
      PROVE  TypeInv'
  <2>. DEFINE u == suggestion[i].unit
  <2>1. /\ Active(user) /\ suggestion[i] # NULL
        /\ suggestion' = [suggestion EXCEPT ![i].state = "rejected", ![i].reviewer = user]
        /\ UNCHANGED <<unit, subs, clock, command>>
        /\ change' = IF change[u] = NULL THEN change
                     ELSE [change EXCEPT ![u].reviewed = user]
        /\ spoiled' = spoiled \/ spoiled' = spoiled \cup {u}
    BY <1>9 DEF Reject
  <2>2. u \in Units
    BY <2>1 DEF SuggestionsTyped, Sugg
  <2>3. RowsTyped' /\ \A v \in Units : change[v] # NULL => change'[v] # NULL
    <3>1. CASE change[u] = NULL
      BY <2>1, <3>1 DEF RowsTyped
    <3>2. CASE change[u] # NULL
      <4>. DEFINE c == [change[u] EXCEPT !.reviewed = user]
      <4>1. c \in Change /\ c # NULL
        BY <2>2, <3>2, NullAssumption DEF RowsTyped, Change, People
      <4>2. change' = [change EXCEPT ![u] = c]
        BY <2>1, <3>2
      <4>3. unit[u] # NULL
        BY <2>1 DEF OfUnits
      <4>. HIDE DEF c
      <4>. QED BY <2>1, <4>1, <4>2, <4>3 DEF RowsTyped
    <3>. QED BY <3>1, <3>2
  <2>4. /\ SuggestionsTyped' /\ SameSuggestions
        /\ gone => \A j \in Ids : suggestion'[j] # NULL => suggestion'[j].reviewer # Evil
    BY <1>6, <2>1
  <2>. QED BY <1>7, <2>1, <2>2, <2>3, <2>4 DEF CommandTyped
<1>. QED BY <1>1, <1>3, <1>4, <1>5, <1>8, <1>9 DEF Request
\* The last of some submissions
LEMMA LatestOf ==
  ASSUME NEW S, \A s \in S : SubTyped(s), S # {}
  PROVE  Latest(S) \in S /\ \A s \in S : s.time <= Latest(S).time
<1>. DEFINE T == {s.time : s \in S}
<1>1. T \in SUBSET (0..MaxSaves) /\ T # {}
  BY SubFields, MaxAssumption
<1>2. PICK m \in T : \A t \in T : t <= m
  BY <1>1, BoundedHasLargest, MaxAssumption
<1>3. \E s \in S : \A r \in S : r.time <= s.time
  BY <1>2
<1>. QED BY <1>3 DEF Latest

\* What is found for a field that is to be written back
LEMMA FormerTyped ==
  ASSUME SubsTyped, NEW u \in Units,
         NEW name \in {"submitted", "commented", "reviewed"}, NEW values, NEW other \in values,
         FieldOf[name] = "target" => values = Target,
         FieldOf[name] = "comment" => values = Comments,
         FieldOf[name] = "state" => values = LiveStates
  PROVE  /\ Former(u, name, other) \in Writing(name, values)
         /\ Former(u, name, other).unit = u /\ Former(u, name, other).field = name
         /\ ~Former(u, name, other).written
         /\ Former(u, name, other).by # Evil
         /\ Former(u, name, other).value =
              IF ByOthers(u, FieldOf[name]) = {} THEN other
              ELSE Latest(ByOthers(u, FieldOf[name])).new
<1>. DEFINE S == ByOthers(u, FieldOf[name])
            by == IF S = {} THEN NULL ELSE Latest(S).by
            value == IF S = {} THEN other ELSE Latest(S).new
            written == FALSE
<1>1. FieldOf[name] \in {"target", "comment", "state"}
  BY DEF FieldOf
<1>2. by \in Users \cup {NULL} /\ by # Evil /\ value \in values
  <2>1. CASE S = {}
    BY <2>1, UsersAssumption
  <2>2. CASE S # {}
    <3>1. Latest(S) \in S
      BY <2>2, LatestOf DEF SubsTyped, ByOthers, OfUnit
    <3>2. SubTyped(Latest(S)) /\ Latest(S).field = FieldOf[name] /\ Latest(S).by # Evil
      BY <3>1 DEF ByOthers, OfUnit, SubsTyped
    <3>. QED BY <1>1, <2>2, <3>2, SubFields
  <2>. QED BY <2>1, <2>2
<1>3. Former(u, name, other) =
        [unit |-> u, field |-> name, written |-> written, by |-> by, value |-> value]
  BY DEF Former
<1>4. written \in BOOLEAN /\ ~written
  OBVIOUS
<1>. HIDE DEF by, value, written, S
<1>5. \A n : n = Former(u, name, other) => 
        /\ n \in Writing(name, values) /\ n.unit = u /\ n.field = name
        /\ n.written = written /\ n.by = by /\ n.value = value
  BY <1>2, <1>3, <1>4 DEF Writing
<1>. QED BY <1>2, <1>4, <1>5 DEF by, value, S
\* The rows that a step over units has queried are units.
LEMMA RowsOfUnits ==
  ASSUME RowsTyped, NEW name \in {"submitted", "commented", "reviewed"}, NEW r \in Rows(name)
  PROVE  r.unit \in Units /\ r.target \in Target /\ change[r.unit] # NULL
<1>1. PICK u \in Units : /\ change[u] # NULL /\ r = [unit |-> u, target |-> unit[u].target]
  BY DEF Rows, FieldOf
<1>2. unit[u] \in Row
  BY <1>1 DEF RowsTyped
<1>. QED BY <1>1, <1>2 DEF Row

\* Those of the steps over suggestions are suggestions.
LEMMA RowsOfSuggestions ==
  ASSUME SubsTyped, NEW r \in Rows("suggestions")
  PROVE  r.suggestion \in Ids
BY SubFields DEF Rows, FieldOf, SubsTyped

\* A step of the command that goes through its rows, or goes on to the next query
LEMMA QueryTypes ==
  ASSUME TypeInv, UNCHANGED <<unit, change, subs, suggestion, clock, spoiled, gone>>,
         step' \in 0..7, gone => step' = 0,
         job' # NULL => /\ step' \in {1, 2, 4, 5} /\ JobTyped(job)'
                        /\ step' # 1 => change[job'.unit] # NULL,
         \/ step' = step /\ todo' \subseteq todo
         \/ step' \in 1..7 /\ todo' = Rows(Steps[step'])
         \/ step' = 0
  PROVE  TypeInv'
<1>. USE DEF TypeInv
<1>1. TodoTyped'
  <2>1. CASE step' = step /\ todo' \subseteq todo
    BY <2>1 DEF TodoTyped
  <2>2. CASE step' \in 1..7 /\ todo' = Rows(Steps[step'])
    <3>1. CASE step' = 1
      BY <2>2, <3>1 DEF TodoTyped, Steps, Rows, FieldOf
    <3>2. CASE step' = 2
      BY <2>2, <3>2, RowsOfUnits DEF TodoTyped, Steps
    <3>3. CASE step' = 3
      BY <2>2, <3>3, RowsOfSuggestions DEF TodoTyped, Steps
    <3>4. CASE step' = 4
      BY <2>2, <3>4, RowsOfUnits DEF TodoTyped, Steps
    <3>5. CASE step' = 5
      BY <2>2, <3>5, RowsOfUnits DEF TodoTyped, Steps
    <3>6. CASE step' \in 6..7
      BY <3>6 DEF TodoTyped
    <3>. QED BY <2>2, <3>1, <3>2, <3>3, <3>4, <3>5, <3>6
  <2>3. CASE step' = 0
    BY <2>3 DEF TodoTyped
  <2>. QED BY <2>1, <2>2, <2>3
<1>2. CommandTyped'
  BY DEF CommandTyped
<1>3. NobodyLeft'
  BY DEF NobodyLeft
<1>. QED BY <1>1, <1>2, <1>3
     DEF SuggestionsTyped, RowsTyped, SubsTyped, SubTyped, OfUnits, OfSuggestions

\* A step that deletes submissions and suggestions, and none that one of the
\* submissions left is of
LEMMA DeletionTypes ==
  ASSUME TypeInv, UNCHANGED <<unit, change, clock, gone>>, subs' \subseteq subs,
         SuggestionsTyped',
         \A i \in Ids : suggestion'[i] # NULL =>
           /\ suggestion[i] # NULL
           /\ suggestion'[i].unit = suggestion[i].unit
           /\ suggestion'[i].user = suggestion[i].user,
         \A s \in subs' : s.suggestion # NULL => suggestion'[s.suggestion] # NULL,
         ~gone,
         step' = 8 => /\ \A s \in subs' : s.by # Evil
                      /\ \A i \in Ids : suggestion'[i] # NULL => suggestion'[i].user # Evil
  PROVE  RowsTyped' /\ SubsTyped' /\ OfUnits' /\ OfSuggestions' /\ NobodyLeft'
<1>. USE DEF TypeInv
<1>1. SubsTyped'
  BY DEF SubsTyped, SubTyped
<1>2. OfUnits' /\ OfSuggestions'
  <2>1. \A s \in subs : s.suggestion \in Ids \cup {NULL}
    BY SubFields DEF SubsTyped
  <2>. QED BY <2>1 DEF OfUnits, OfSuggestions
<1>3. NobodyLeft'
  BY DEF NobodyLeft
<1>. QED BY <1>1, <1>2, <1>3 DEF RowsTyped

\* Writing one field of a UnitChange leaves a UnitChange.
LEMMA ChangeWith ==
  ASSUME NEW c \in Change, NEW field \in {"submitted", "commented", "reviewed"},
         NEW by \in People \cup {NULL}, NEW d, d = [c EXCEPT ![field] = by]
  PROVE  d \in Change
<1>1. /\ c.submitted \in People \cup {NULL} /\ c.commented \in People \cup {NULL}
      /\ c.reviewed \in People \cup {NULL}
  BY DEF Change
<1>2. CASE field = "submitted"
  <2>1. d = [submitted |-> by, commented |-> c.commented, reviewed |-> c.reviewed]
    BY <1>2 DEF Change
  <2>. QED BY <1>1, <1>2, <2>1 DEF Change
<1>3. CASE field = "commented"
  <2>1. d = [submitted |-> c.submitted, commented |-> by, reviewed |-> c.reviewed]
    BY <1>3 DEF Change
  <2>. QED BY <1>1, <1>3, <2>1 DEF Change
<1>4. CASE field = "reviewed"
  <2>1. d = [submitted |-> c.submitted, commented |-> c.commented, reviewed |-> by]
    BY <1>4 DEF Change
  <2>. QED BY <1>1, <1>4, <2>1 DEF Change
<1>. QED BY <1>2, <1>3, <1>4

\* The steps of the command keep the types.
LEMMA PurgeTypes ==
  ASSUME IInv, TypeInv, Purge
  PROVE  TypeInv'
<1>. USE DEF TypeInv
<1>0. step > 0 => ~gone
  BY DEF NobodyLeft
<1>1. CASE NextStep
  <2>1. /\ step' = step + 1 /\ step \in 1..6 /\ job' = NULL /\ todo' = Rows(Steps[step'])
        /\ UNCHANGED <<unit, change, subs, suggestion, clock, spoiled, gone>>
    BY <1>1 DEF NextStep, records
  <2>. QED BY <1>0, <2>1, QueryTypes
<1>2. CASE DeleteUnit
  <2>. DEFINE u == job.unit
  <2>1. /\ step = 1 /\ job # NULL
        /\ unit' = [unit EXCEPT ![u] = NULL]
        /\ change' = [change EXCEPT ![u] = NULL]
        /\ subs' = {s \in subs : s.unit # u}
        /\ suggestion' = [i \in Ids |->
             IF suggestion[i] # NULL /\ suggestion[i].unit = u THEN NULL
             ELSE suggestion[i]]
        /\ job' = NULL /\ UNCHANGED <<clock, step, todo, gone, spoiled>>
    BY <1>2 DEF DeleteUnit, Running, Steps, InHand, IInv
  <2>2. u \in Units
    BY <2>1 DEF CommandTyped, JobTyped, Deletion
  <2>. HIDE DEF u
  <2>3. SuggestionsTyped' /\ RowsTyped'
    BY <2>1, <2>2 DEF SuggestionsTyped, RowsTyped
  <2>4. SubsTyped'
    BY <2>1 DEF SubsTyped, SubTyped
  <2>5. \A s \in subs : s.suggestion \in Ids \cup {NULL} /\ s.unit \in Units
    BY SubFields DEF SubsTyped
  <2>6. OfUnits'
    <3>1. \A v \in Units \ {u} : unit'[v] = unit[v]
      BY <2>1 DEF RowsTyped
    <3>2. \A i \in Ids : suggestion'[i] # NULL =>
            suggestion'[i] = suggestion[i] /\ suggestion[i].unit \in Units \ {u}
      BY <2>1 DEF SuggestionsTyped, Sugg
    <3>. QED BY <2>1, <2>5, <3>1, <3>2 DEF OfUnits
  <2>7. OfSuggestions'
    BY <2>1, <2>5 DEF OfSuggestions
  <2>8. CommandTyped' /\ TodoTyped'
    BY <2>1 DEF CommandTyped, TodoTyped
  <2>9. NobodyLeft'
    BY <1>0, <2>1 DEF NobodyLeft
  <2>. QED BY <2>3, <2>4, <2>6, <2>7, <2>8, <2>9
<1>3. CASE WriteChange
  <2>. DEFINE c == [change[job.unit] EXCEPT ![job.field] = job.by]
  <2>1. /\ job # NULL /\ step \in {2, 4, 5}
        /\ change' = [change EXCEPT ![job.unit] = c]
        /\ job' = [job EXCEPT !.written = TRUE]
        /\ UNCHANGED <<unit, subs, suggestion, clock, step, todo, gone, spoiled>>
    BY <1>3 DEF WriteChange, Running, Steps, InHand, IInv, CommandTyped
  <2>2. job.unit \in Units /\ job.by \in People \cup {NULL}
        /\ job.field \in {"submitted", "commented", "reviewed"}
        /\ change[job.unit] # NULL
    BY <2>1, JobFields DEF TodoTyped, People
  <2>3. c \in Change
    <3>1. change[job.unit] \in Change
      BY <2>2 DEF RowsTyped
    <3>. QED BY <2>2, <3>1, ChangeWith
  <2>4. ASSUME NEW field, NEW values, job \in Writing(field, values)
        PROVE  job' \in Writing(field, values) /\ job'.unit = job.unit
    BY <2>1, <2>4 DEF Writing
  <2>. HIDE DEF c
  <2>5. RowsTyped' /\ \A u \in Units : change[u] # NULL => change'[u] # NULL
    BY <2>1, <2>2, <2>3, NullAssumption DEF RowsTyped, OfUnits
  <2>6. JobTyped(job)' /\ job'.unit = job.unit
    <3>1. step' = step
      BY <2>1
    <3>2. CASE step = 2
      <4>1. job \in Writing("submitted", Target)
        BY <2>1, <3>2, JobFields
      <4>2. job' \in Writing("submitted", Target) /\ job'.unit = job.unit
        BY <2>4, <4>1
      <4>. QED BY <3>1, <3>2, <4>2 DEF JobTyped
    <3>3. CASE step = 4
      <4>1. job \in Writing("reviewed", LiveStates)
        BY <2>1, <3>3, JobFields
      <4>2. job' \in Writing("reviewed", LiveStates) /\ job'.unit = job.unit
        BY <2>4, <4>1
      <4>. QED BY <3>1, <3>3, <4>2 DEF JobTyped
    <3>4. CASE step = 5
      <4>1. job \in Writing("commented", Comments)
        BY <2>1, <3>4, JobFields
      <4>2. job' \in Writing("commented", Comments) /\ job'.unit = job.unit
        BY <2>4, <4>1
      <4>. QED BY <3>1, <3>4, <4>2 DEF JobTyped
    <3>. QED BY <2>1, <3>2, <3>3, <3>4
  <2>7. CommandTyped' /\ TodoTyped'
    <3>1. CommandTyped'
      BY <2>1, <2>6 DEF CommandTyped
    <3>2. TodoTyped'
      BY <2>1, <2>2, <2>5, <2>6 DEF TodoTyped
    <3>. QED BY <3>1, <3>2
  <2>. QED BY <2>1, <2>5, <2>7
       DEF SuggestionsTyped, SubsTyped, SubTyped, OfUnits, OfSuggestions, NobodyLeft
<1>4. CASE WriteUnit
  <2>. DEFINE x == [unit[job.unit] EXCEPT ![FieldOf[job.field]] = job.value]
  <2>1. /\ job # NULL /\ step \in {2, 4, 5} /\ job' = NULL
        /\ unit' = [unit EXCEPT ![job.unit] = x]
        /\ UNCHANGED <<change, subs, suggestion, clock, step, todo, gone, spoiled>>
    BY <1>4 DEF WriteUnit, Running, Steps, InHand, IInv, CommandTyped
  <2>2. job.unit \in Units /\ unit[job.unit] # NULL
    BY <2>1, JobFields DEF TodoTyped, RowsTyped
  <2>3. x \in Row /\ x.creator = unit[job.unit].creator
    <3>1. unit[job.unit] \in Row
      BY <2>2 DEF RowsTyped
    <3>2. CASE step = 2
      <4>1. FieldOf[job.field] = "target" /\ job.value \in Target
        BY <2>1, <3>2, JobFields DEF FieldOf
      <4>. QED BY <3>1, <4>1 DEF Row
    <3>3. CASE step = 4
      <4>1. FieldOf[job.field] = "state" /\ job.value \in LiveStates
        BY <2>1, <3>3, JobFields DEF FieldOf
      <4>. QED BY <3>1, <4>1 DEF Row
    <3>4. CASE step = 5
      <4>1. FieldOf[job.field] = "comment" /\ job.value \in Comments
        BY <2>1, <3>4, JobFields DEF FieldOf
      <4>. QED BY <3>1, <4>1 DEF Row
    <3>. QED BY <2>1, <3>2, <3>3, <3>4
  <2>. HIDE DEF x
  <2>4. x # NULL
    BY <2>3, NullAssumption
  <2>5. RowsTyped'
    BY <2>1, <2>2, <2>3, <2>4 DEF RowsTyped
  <2>6. \A u \in Units : unit[u] # NULL => unit'[u] # NULL
    BY <2>1, <2>4 DEF RowsTyped
  <2>7. OfUnits'
    <3>1. \A s \in subs : s.unit \in Units
      BY SubFields DEF SubsTyped
    <3>2. \A i \in Ids : suggestion[i] # NULL => suggestion[i].unit \in Units
      BY DEF SuggestionsTyped, Sugg
    <3>. QED BY <2>1, <2>6, <3>1, <3>2 DEF OfUnits
  <2>8. CommandTyped' /\ TodoTyped'
    BY <2>1 DEF CommandTyped, TodoTyped
  <2>9. NobodyLeft'
    BY <1>0, <2>1 DEF NobodyLeft
  <2>. QED BY <2>1, <2>5, <2>7, <2>8, <2>9
       DEF SuggestionsTyped, SubsTyped, SubTyped, OfSuggestions
<1>5. ASSUME NEW S, SuggestionsTyped, suggestion' = Without(S), subs' \subseteq Cascade(S)
      PROVE  /\ SuggestionsTyped' /\ subs' \subseteq subs
             /\ \A i \in Ids : suggestion'[i] # NULL => suggestion'[i] = suggestion[i]
             /\ \A s \in subs' : s.suggestion # NULL => suggestion'[s.suggestion] # NULL
  <2>1. \A s \in subs : s.suggestion \in Ids \cup {NULL}
    BY SubFields DEF SubsTyped
  <2>. QED BY <1>5, <2>1 DEF SuggestionsTyped, Without, Cascade, OfSuggestions
<1>6. CASE DeleteRest
  <2>. DEFINE own == {i \in Ids : suggestion[i] # NULL /\ suggestion[i].user = Evil}
  <2>1. /\ step = 7 /\ step' = 8 /\ job = NULL
        /\ subs' = {s \in Cascade(own) : s.by # Evil} /\ suggestion' = Without(own)
        /\ UNCHANGED <<unit, change, clock, todo, job, gone, spoiled>>
    BY <1>6 DEF DeleteRest, Running, Steps, InHand, IInv
  <2>2. \A i \in Ids : suggestion'[i] # NULL => suggestion'[i].user # Evil
    BY <2>1 DEF Without
  <2>. HIDE DEF own
  <2>3. RowsTyped' /\ SubsTyped' /\ OfUnits' /\ OfSuggestions' /\ NobodyLeft' /\ SuggestionsTyped'
    BY <1>0, <1>5, <2>1, <2>2, DeletionTypes
  <2>4. CommandTyped' /\ TodoTyped'
    BY <2>1 DEF CommandTyped, TodoTyped
  <2>. QED BY <2>3, <2>4
<1>7. CASE DeleteUser
  <2>1. /\ step = 8 /\ step' = 0 /\ gone' = TRUE /\ job = NULL
        /\ unit' = [u \in Units |->
             IF unit[u] = NULL THEN NULL ELSE [unit[u] EXCEPT !.creator = Named(@)]]
        /\ change' = [u \in Units |->
             IF change[u] = NULL THEN NULL
             ELSE [f \in DOMAIN change[u] |-> Named(change[u][f])]]
        /\ suggestion' = [i \in Ids |->
             IF suggestion[i] = NULL THEN NULL
             ELSE [suggestion[i] EXCEPT !.reviewer = Named(@)]]
        /\ UNCHANGED <<subs, clock, todo, job, spoiled>>
    BY <1>7 DEF DeleteUser, Running, Steps, InHand, IInv
  <2>2. \A p : Named(p) # Evil /\ (p \in People => Named(p) \in People)
        /\ (p = NULL => Named(p) = NULL)
    BY UsersAssumption DEF Named, People
  <2>3. ASSUME NEW u \in Units, unit[u] # NULL
        PROVE  unit'[u] \in Row /\ unit'[u] # NULL /\ unit'[u].creator # Evil
    <3>1. unit[u] \in Row /\ unit'[u] = [unit[u] EXCEPT !.creator = Named(@)]
      BY <2>1, <2>3 DEF RowsTyped
    <3>. QED BY <2>2, <3>1, NullAssumption DEF Row
  <2>4. ASSUME NEW u \in Units, change[u] # NULL
        PROVE  change'[u] \in Change /\ change'[u] # NULL
    <3>1. /\ change[u] \in Change
          /\ change'[u] = [f \in DOMAIN change[u] |-> Named(change[u][f])]
      BY <2>1, <2>4 DEF RowsTyped
    <3>2. change'[u] \in Change
      <4>1. /\ DOMAIN change[u] = {"submitted", "commented", "reviewed"}
            /\ change[u]["submitted"] \in People \cup {NULL}
            /\ change[u]["commented"] \in People \cup {NULL}
            /\ change[u]["reviewed"] \in People \cup {NULL}
        BY <3>1 DEF Change
      <4>2. change'[u] = [submitted |-> Named(change[u]["submitted"]),
                          commented |-> Named(change[u]["commented"]),
                          reviewed |-> Named(change[u]["reviewed"])]
        BY <3>1, <4>1
      <4>. QED BY <2>2, <4>1, <4>2 DEF Change
    <3>. QED BY <3>2, NullAssumption
  <2>5. ASSUME NEW i \in Ids, suggestion[i] # NULL
        PROVE  /\ suggestion'[i] \in Sugg /\ suggestion'[i] # NULL
               /\ suggestion'[i].unit = suggestion[i].unit
               /\ suggestion'[i].user = suggestion[i].user
               /\ suggestion'[i].reviewer # Evil
    <3>1. suggestion[i] \in Sugg /\ suggestion'[i] = [suggestion[i] EXCEPT !.reviewer = Named(@)]
      BY <2>1, <2>5 DEF SuggestionsTyped
    <3>. QED BY <2>2, <3>1, NullAssumption DEF Sugg
  <2>6. RowsTyped'
    BY <2>1, <2>3, <2>4 DEF RowsTyped
  <2>7. SuggestionsTyped'
    BY <2>1, <2>5 DEF SuggestionsTyped
  <2>8. SubsTyped'
    BY <2>1 DEF SubsTyped, SubTyped
  <2>9. \A i \in Ids : suggestion[i] # NULL <=> suggestion'[i] # NULL
    BY <2>1, <2>5
  <2>10. OfUnits'
    <3>1. \A s \in subs : s.unit \in Units
      BY SubFields DEF SubsTyped
    <3>2. \A i \in Ids : suggestion[i] # NULL => suggestion[i].unit \in Units
      BY DEF SuggestionsTyped, Sugg
    <3>. QED BY <2>1, <2>3, <2>5, <2>9, <3>1, <3>2, ZenonT(60) DEF OfUnits
  <2>11. OfSuggestions'
    <3>1. \A s \in subs : s.suggestion \in Ids \cup {NULL}
      BY SubFields DEF SubsTyped
    <3>. QED BY <2>1, <2>5, <3>1 DEF OfSuggestions
  <2>12. CommandTyped' /\ TodoTyped'
    BY <2>1 DEF CommandTyped, TodoTyped
  <2>13. NobodyLeft'
    BY <2>1, <2>3, <2>5, <2>9 DEF NobodyLeft, RowsTyped
  <2>. QED BY <2>6, <2>7, <2>8, <2>10, <2>11, <2>12, <2>13
<1>8. ASSUME NEW u \in Units, LookCreated(u)
      PROVE  TypeInv'
  <2>1. /\ step = 1 /\ step' = 1 /\ todo' \subseteq todo
        /\ job' = NULL \/ job' = [unit |-> u, field |-> "created"]
        /\ UNCHANGED <<unit, change, subs, suggestion, clock, spoiled, gone>>
    BY <1>8 DEF LookCreated, Running, Steps, records, InHand, IInv
  <2>2. job' # NULL => job' \in Deletion
    BY <2>1 DEF Deletion
  <2>3. job' # NULL => JobTyped(job)'
    BY <2>1, <2>2 DEF JobTyped
  <2>. QED BY <1>0, <2>1, <2>3, QueryTypes
<1>9. ASSUME NEW r \in todo, NEW name \in {"submitted", "commented"}, Look(name, r)
      PROVE  TypeInv'
  <2>. DEFINE empty == ""
  <2>1. /\ name = "submitted" => step = 2
        /\ name = "commented" => step = 5
        /\ job' = Former(r.unit, name, empty) /\ todo' \subseteq todo
        /\ UNCHANGED <<unit, change, subs, suggestion, clock, step, spoiled, gone>>
    <3>1. /\ Running(name)
          /\ job' = Former(r.unit, name, empty) /\ todo' \subseteq todo
          /\ UNCHANGED <<unit, change, subs, suggestion, clock, step, spoiled, gone>>
      BY <1>9 DEF Look, records
    <3>2. /\ Running("submitted") => step = 2
          /\ Running("commented") => step = 5
      BY DEF Running, Steps, InHand, IInv
    <3>. QED BY <3>1, <3>2
  <2>2. r.unit \in Units /\ change[r.unit] # NULL
    BY <2>1 DEF TodoTyped
  <2>3. empty \in Target /\ empty \in Comments
    BY TextsAssumption DEF Target
  <2>. HIDE DEF empty
  <2>4. job'.unit = r.unit /\ JobTyped(job)'
    <3>1. CASE name = "submitted"
      <4>1. job' \in Writing("submitted", Target) /\ job'.unit = r.unit
        <5>1. /\ Former(r.unit, "submitted", empty) \in Writing("submitted", Target)
              /\ Former(r.unit, "submitted", empty).unit = r.unit
          <6>1. FieldOf["submitted"] = "target"
            BY DEF FieldOf
          <6>. QED BY <2>2, <2>3, <6>1, FormerTyped
        <5>. QED BY <2>1, <3>1, <5>1
      <4>2. step' = 2
        BY <2>1, <3>1
      <4>. QED BY <4>1, <4>2 DEF JobTyped
    <3>2. CASE name = "commented"
      <4>1. job' \in Writing("commented", Comments) /\ job'.unit = r.unit
        <5>1. /\ Former(r.unit, "commented", empty) \in Writing("commented", Comments)
              /\ Former(r.unit, "commented", empty).unit = r.unit
          <6>1. FieldOf["commented"] = "comment"
            BY DEF FieldOf
          <6>. QED BY <2>2, <2>3, <6>1, FormerTyped
        <5>. QED BY <2>1, <3>2, <5>1
      <4>2. step' = 5
        BY <2>1, <3>2
      <4>. QED BY <4>1, <4>2 DEF JobTyped
    <3>. QED BY <3>1, <3>2
  <2>5. step \in {2, 5} /\ step' = step
    BY <2>1
  <2>. QED BY <1>0, <2>1, <2>2, <2>4, <2>5, QueryTypes
<1>10. ASSUME NEW r \in todo, LookReviewed(r)
       PROVE  TypeInv'
  <2>. DEFINE none == [unit |-> r.unit, field |-> "reviewed", written |-> FALSE,
                       by |-> NULL, value |-> UNTRANSLATED]
  <2>1. /\ step = 4 /\ todo' \subseteq todo
        /\ suggestion' = [i \in Ids |->
             IF /\ suggestion[i] # NULL /\ suggestion[i].unit = r.unit
                /\ suggestion[i].reviewer = Evil
             THEN Pending(suggestion[i])
             ELSE suggestion[i]]
        /\ job' \in {NULL, none, Former(r.unit, "reviewed", UNTRANSLATED)}
        /\ UNCHANGED <<unit, change, subs, clock, step, gone, spoiled>>
    <3>1. job' = CASE r.target = "" -> none
                    [] r.target # "" /\ ByOthers(r.unit, "state") # {} ->
                         Former(r.unit, "reviewed", UNTRANSLATED)
                    [] OTHER -> NULL
      BY <1>10, Zenon DEF LookReviewed
    <3>. HIDE DEF none
    <3>2. job' \in {NULL, none, Former(r.unit, "reviewed", UNTRANSLATED)}
      BY <3>1
    <3>3. /\ Running("reviewed") /\ todo' \subseteq todo
          /\ suggestion' = [i \in Ids |->
               IF /\ suggestion[i] # NULL /\ suggestion[i].unit = r.unit
                  /\ suggestion[i].reviewer = Evil
               THEN Pending(suggestion[i])
               ELSE suggestion[i]]
          /\ UNCHANGED <<unit, change, subs, clock, step, gone, spoiled>>
      BY <1>10, Zenon DEF LookReviewed
    <3>4. Running("reviewed") => step = 4
      BY DEF Running, Steps, InHand, IInv
    <3>. QED BY <3>2, <3>3, <3>4
  <2>2. r.unit \in Units /\ change[r.unit] # NULL
    BY <2>1 DEF TodoTyped
  <2>3. UNTRANSLATED \in LiveStates
    BY DEF LiveStates, States, UNTRANSLATED, OBSOLETE
  <2>4. none \in Writing("reviewed", LiveStates) /\ none.unit = r.unit
    <3>. DEFINE written == FALSE
    <3>1. written \in BOOLEAN
      OBVIOUS
    <3>2. none = [unit |-> r.unit, field |-> "reviewed", written |-> written,
                  by |-> NULL, value |-> UNTRANSLATED]
      OBVIOUS
    <3>. HIDE DEF written, none
    <3>. QED BY <2>2, <2>3, <3>1, <3>2 DEF Writing
  <2>5. job' # NULL => job' \in Writing("reviewed", LiveStates) /\ job'.unit = r.unit
    <3>1. /\ Former(r.unit, "reviewed", UNTRANSLATED) \in Writing("reviewed", LiveStates)
          /\ Former(r.unit, "reviewed", UNTRANSLATED).unit = r.unit
      BY <2>2, <2>3, FormerTyped DEF FieldOf
    <3>. HIDE DEF none
    <3>. QED BY <2>1, <2>4, <3>1
  <2>6. CommandTyped' /\ TodoTyped'
    <3>1. job' # NULL => JobTyped(job)'
      BY <2>1, <2>5 DEF JobTyped
    <3>2. CommandTyped'
      BY <2>1, <3>1 DEF CommandTyped
    <3>3. TodoTyped'
      BY <2>1, <2>2, <2>5 DEF TodoTyped
    <3>. QED BY <3>2, <3>3
  <2>7. SuggestionsTyped' /\ \A i \in Ids :
          /\ suggestion[i] # NULL <=> suggestion'[i] # NULL
          /\ suggestion[i] # NULL => /\ suggestion'[i].unit = suggestion[i].unit
                                     /\ suggestion'[i].user = suggestion[i].user
    BY <2>1, PendingTyped DEF SuggestionsTyped
  <2>8. \A s \in subs : s.suggestion # NULL => suggestion'[s.suggestion] # NULL
    BY <2>7, SubFields DEF SubsTyped, OfSuggestions
  <2>9. RowsTyped' /\ SubsTyped' /\ OfUnits' /\ OfSuggestions' /\ NobodyLeft'
    BY <1>0, <2>1, <2>7, <2>8, DeletionTypes
  <2>. QED BY <2>6, <2>7, <2>9
<1>11. ASSUME NEW r \in todo, RevertReview(r)
       PROVE  TypeInv'
  <2>. DEFINE i == r.suggestion
              own == {j \in {i} : suggestion[j] # NULL /\ suggestion[j].user = Evil}
  <2>1. /\ step = 3 /\ todo' \subseteq todo
        /\ subs' = Cascade(own) \ {r}
        /\ suggestion' = IF own = {} /\ suggestion[i] # NULL /\ suggestion[i].reviewer = Evil
                         THEN [suggestion EXCEPT ![i] = Pending(@)]
                         ELSE Without(own)
        /\ UNCHANGED <<unit, change, clock, step, job, gone, spoiled>>
    BY <1>11 DEF RevertReview, Running, Steps, InHand, IInv
  <2>2. i \in Ids
    BY <2>1 DEF TodoTyped
  <2>. HIDE DEF own, i
  <2>3. /\ SuggestionsTyped' /\ subs' \subseteq subs
        /\ \A j \in Ids : suggestion'[j] # NULL =>
             /\ suggestion[j] # NULL
             /\ suggestion'[j].unit = suggestion[j].unit
             /\ suggestion'[j].user = suggestion[j].user
        /\ \A s \in subs' : s.suggestion # NULL => suggestion'[s.suggestion] # NULL
    <3>1. subs' \subseteq Cascade(own)
      BY <2>1
    <3>2. CASE suggestion' = Without(own)
      BY <1>5, <3>1, <3>2
    <3>3. CASE suggestion[i] # NULL /\ suggestion' = [suggestion EXCEPT ![i] = Pending(@)]
      <4>1. /\ Pending(suggestion[i]) \in Sugg /\ Pending(suggestion[i]) # NULL
            /\ Pending(suggestion[i]).user = suggestion[i].user
            /\ Pending(suggestion[i]).unit = suggestion[i].unit
        BY <2>2, <3>3, PendingTyped
      <4>2. /\ suggestion'[i] = Pending(suggestion[i])
            /\ \A j \in Ids \ {i} : suggestion'[j] = suggestion[j]
        BY <2>2, <3>3 DEF SuggestionsTyped
      <4>3. SuggestionsTyped'
        BY <3>3, <4>1 DEF SuggestionsTyped
      <4>4. \A s \in subs : s.suggestion \in Ids \cup {NULL}
        BY SubFields DEF SubsTyped
      <4>. QED BY <3>1, <3>3, <4>1, <4>2, <4>3, <4>4 DEF Cascade, OfSuggestions
    <3>. QED BY <2>1, <3>2, <3>3
  <2>4. RowsTyped' /\ SubsTyped' /\ OfUnits' /\ OfSuggestions' /\ NobodyLeft'
    BY <1>0, <2>1, <2>3, DeletionTypes
  <2>5. CommandTyped' /\ TodoTyped'
    BY <2>1 DEF CommandTyped, TodoTyped
  <2>. QED BY <2>3, <2>4, <2>5
<1>12. ASSUME NEW r \in todo, RevertStateChange(r)
       PROVE  TypeInv'
  <2>1. /\ step = 6 /\ job = NULL /\ step' \in {0, 6} /\ todo' \subseteq todo
        /\ subs' \subseteq subs
        /\ UNCHANGED <<unit, change, suggestion, clock, job, gone, spoiled>>
    BY <1>12 DEF RevertStateChange, Running, Steps, InHand, IInv
  <2>2. SuggestionsTyped' /\ \A i \in Ids : suggestion'[i] = suggestion[i]
    BY <2>1 DEF SuggestionsTyped
  <2>3. \A s \in subs' : s.suggestion # NULL => suggestion'[s.suggestion] # NULL
    BY <2>1 DEF OfSuggestions
  <2>4. RowsTyped' /\ SubsTyped' /\ OfUnits' /\ OfSuggestions' /\ NobodyLeft'
    BY <1>0, <2>1, <2>2, <2>3, DeletionTypes
  <2>5. CommandTyped' /\ TodoTyped'
    BY <2>1 DEF CommandTyped, TodoTyped
  <2>. QED BY <2>2, <2>4, <2>5
<1>. QED BY <1>1, <1>2, <1>3, <1>4, <1>6, <1>7, <1>8, <1>9, <1>10, <1>11, <1>12 DEF Purge
\* TypeInv is an invariant.
LEMMA TypeInvHolds == Spec => []TypeInv
<1>1. Init => TypeInv
  <2>. SUFFICES ASSUME Init PROVE TypeInv
    OBVIOUS
  <2>1. ASSUME NEW u \in Units
        PROVE  /\ unit[u] \in Row \cup {NULL} /\ change[u] \in Change \cup {NULL}
               /\ unit[u] = NULL => change[u] = NULL
    <3>1. CASE Imported[u] = NULL
      BY <3>1 DEF Init
    <3>2. CASE Imported[u] # NULL
      <4>. DEFINE empty == ""
                  t == Imported[u].target
                  s == Imported[u].state
      <4>1. unit[u] = [target |-> t, comment |-> empty, state |-> s,
                       creator |-> System, origin |-> t]
        BY <3>2 DEF Init
      <4>2. \/ change[u] = NULL
            \/ change[u] = [submitted |-> System, commented |-> NULL, reviewed |-> NULL]
        BY <3>2 DEF Init
      <4>3. t \in Target /\ s \in LiveStates /\ empty \in Comments /\ System \in People
        BY <3>2, ImportedAssumption, TextsAssumption DEF People
      <4>. HIDE DEF empty, t, s
      <4>4. unit[u] \in Row
        BY <4>1, <4>3 DEF Row
      <4>5. change[u] \in Change \cup {NULL}
        BY <4>2 DEF Change, People
      <4>. QED BY <4>4, <4>5, NullAssumption
    <3>. QED BY <3>1, <3>2
  <2>2. RowsTyped
    BY <2>1 DEF Init, RowsTyped
  <2>3. /\ subs = {} /\ suggestion = [i \in Ids |-> NULL] /\ clock = 1
        /\ step = 0 /\ todo = {} /\ job = NULL /\ gone = FALSE /\ spoiled = {}
    BY DEF Init
  <2>4. CommandTyped
    <3>1. 1 \in 1..(MaxSaves + 1) /\ 0 \in 0..8
      BY MaxAssumption
    <3>2. gone \in BOOLEAN
      BY <2>3, Zenon
    <3>. QED BY <2>3, <3>1, <3>2 DEF CommandTyped
  <2>5. SuggestionsTyped /\ OfUnits /\ SubsTyped /\ OfSuggestions
    BY <2>3 DEF SuggestionsTyped, SubsTyped, OfUnits, OfSuggestions
  <2>6. TodoTyped /\ NobodyLeft
    BY <2>3 DEF TodoTyped, NobodyLeft
  <2>. QED BY <2>2, <2>4, <2>5, <2>6 DEF TypeInv
<1>2. IInv /\ TypeInv /\ [Next]_vars => TypeInv'
  <2>. SUFFICES ASSUME IInv, TypeInv, [Next]_vars PROVE TypeInv'
    OBVIOUS
  <2>1. CASE Begin
    <3>1. /\ step' = 1 /\ ~gone /\ todo' = Rows(Steps[step']) /\ job' = NULL
          /\ UNCHANGED <<unit, change, subs, suggestion, clock, spoiled, gone>>
      BY <2>1 DEF Begin, records, IInv, InHand
    <3>. QED BY <3>1, QueryTypes
  <2>2. CASE Kill
    <3>1. /\ step > 0 /\ step' = 0 /\ job' = NULL
          /\ UNCHANGED <<unit, change, subs, suggestion, clock, gone>>
      BY <2>2 DEF Kill, records
    <3>2. spoiled' \subseteq Units
      <4>1. \/ spoiled' = spoiled
            \/ job # NULL /\ step # 1 /\ spoiled' = spoiled \cup {job.unit}
        BY <2>2 DEF Kill, Running, Steps
      <4>2. job # NULL /\ step # 1 => job.unit \in Units
        BY JobFields DEF CommandTyped, TypeInv
      <4>. QED BY <4>1, <4>2 DEF CommandTyped, TypeInv
    <3>3. CommandTyped' /\ TodoTyped' /\ NobodyLeft'
      BY <3>1, <3>2 DEF TypeInv, CommandTyped, TodoTyped, NobodyLeft
    <3>. QED BY <3>1, <3>3
             DEF TypeInv, SuggestionsTyped, RowsTyped, SubsTyped, SubTyped, OfUnits, OfSuggestions
  <2>3. CASE UNCHANGED vars
    BY <2>3 DEF vars, TypeInv, SuggestionsTyped, RowsTyped, SubsTyped, SubTyped,
                OfUnits, OfSuggestions, CommandTyped, JobTyped, TodoTyped, NobodyLeft
  <2>. QED BY <2>1, <2>2, <2>3, PurgeTypes, RequestTypes DEF Next
<1>. QED BY <1>1, <1>2, InvHolds, PTL DEF Spec

\* The types of the records, and what the keys of the database hold, are right
\* through everything that requests and the command do.
THEOREM TypeCorrect == Spec => []TypeOK
<1>1. TypeInv => TypeOK
  BY DEF TypeInv, TypeOK, SuggestionsTyped, RowsTyped, SubsTyped, SubTyped, OfUnits,
         OfSuggestions, CommandTyped, JobTyped, NobodyLeft
<1>. QED BY <1>1, TypeInvHolds, PTL

-----------------------------------------------------------------------------
(* What the user changed is taken back *)

Fields == {"submitted", "commented"}
\* The step of the command that takes back each field
Pass == [submitted |-> 2, commented |-> 5]
First(u, name) == IF name = "submitted" THEN unit[u].origin ELSE ""
ByEvil(u, name) == change[u] # NULL /\ change[u][name] = Evil
InWriting(u, name) == job # NULL /\ step = Pass[name] /\ job.unit = u

\* A field whose last submitter is not the user is as it should be when the user
\* is gone, unless the command has written the submitter and not yet the field.
Settled(u, name) ==
  \/ ByEvil(u, name)
  \/ InWriting(u, name) /\ job.written
  \/ Reverted(u, FieldOf[name], First(u, name))
\* What the command is about to write is what it should be,
Prepared(u, name) ==
  InWriting(u, name) =>
    /\ job.by # Evil
    /\ job.value = IF ByOthers(u, FieldOf[name]) = {} THEN ""
                   ELSE Latest(ByOthers(u, FieldOf[name])).new
\* and no field of the user's is left behind by the step that takes it back.
Awaited(u, name) ==
  ByEvil(u, name) =>
    /\ ~gone /\ step <= Pass[name]
    /\ step = Pass[name] =>
         (\E r \in todo : r.unit = u) \/ (InWriting(u, name) /\ ~job.written)
Reverts(u, name) == Settled(u, name) /\ Prepared(u, name) /\ Awaited(u, name)
RevertInv ==
  \A u \in Units \ spoiled, name \in Fields : unit[u] # NULL => Reverts(u, name)

\* The steps that are about nothing of a unit
LEMMA RevertsStill ==
  ASSUME NEW u \in Units, NEW name \in Fields, Reverts(u, name),
         UNCHANGED <<step, gone, job>>,
         unit'[u][FieldOf[name]] = unit[u][FieldOf[name]],
         First(u, name)' = First(u, name),
         ByEvil(u, name)' <=> ByEvil(u, name),
         ByOthers(u, FieldOf[name])' = ByOthers(u, FieldOf[name]),
         (\E r \in todo : r.unit = u) => \E r \in todo' : r.unit = u
  PROVE  Reverts(u, name)'
<1>1. InWriting(u, name)' <=> InWriting(u, name)
  BY DEF InWriting
<1>2. Reverted(u, FieldOf[name], First(u, name))' <=> Reverted(u, FieldOf[name], First(u, name))
  BY DEF Reverted
<1>3. Settled(u, name)'
  BY <1>1, <1>2 DEF Reverts, Settled
<1>4. Prepared(u, name)'
  BY <1>1 DEF Reverts, Prepared
<1>5. Awaited(u, name)'
  BY <1>1 DEF Reverts, Awaited
<1>. QED BY <1>3, <1>4, <1>5 DEF Reverts

\* The steps of the command that are about other fields
LEMMA RevertsElsewhere ==
  ASSUME NEW u \in Units, NEW name \in Fields, Reverts(u, name),
         ~(InWriting(u, name) /\ job.written), ~InWriting(u, name)',
         unit'[u][FieldOf[name]] = unit[u][FieldOf[name]],
         First(u, name)' = First(u, name),
         ByOthers(u, FieldOf[name])' = ByOthers(u, FieldOf[name]),
         ByEvil(u, name) => ByEvil(u, name)',
         ByEvil(u, name)' => /\ ByEvil(u, name) /\ ~gone' /\ step' <= Pass[name]
                             /\ step' = Pass[name] => \E r \in todo' : r.unit = u
  PROVE  Reverts(u, name)'
<1>1. Reverted(u, FieldOf[name], First(u, name))' <=> Reverted(u, FieldOf[name], First(u, name))
  BY DEF Reverted
<1>2. Settled(u, name)'
  BY <1>1 DEF Reverts, Settled
<1>3. Prepared(u, name)'
  BY DEF Prepared
<1>4. Awaited(u, name)'
  BY DEF Awaited
<1>. QED BY <1>2, <1>3, <1>4 DEF Reverts

\* The submission of one field that a save leaves
Left(u, field, by, new, i) ==
  [unit |-> u, field |-> field, time |-> clock, by |-> by, new |-> new, suggestion |-> i]

\* What a save of a unit leaves of one of its fields: a submission and its
\* submitter when it is new, and otherwise what was there.
LEMMA SaveLeaves ==
  ASSUME RowsTyped, NEW u \in Units, unit[u] # NULL, NEW y \in Row,
         NEW user \in Users, NEW reviewer \in Users, NEW i,
         Save(u, y, user, reviewer, i), NEW name \in Fields
  PROVE  LET f == FieldOf[name]
             x == unit[u]
             z == PreSave(x, y)
         IN /\ unit'[u] = z /\ change'[u] # NULL
            /\ z[f] # x[f] =>
                 /\ change'[u][name] = user
                 /\ OfUnit(u, f)' = OfUnit(u, f) \cup {Left(u, f, user, z[f], i)}
            /\ z[f] = x[f] =>
                 /\ OfUnit(u, f)' = OfUnit(u, f)
                 /\ IF change[u] # NULL THEN change'[u][name] = change[u][name]
                    ELSE change'[u][name] \in {NULL, user}
<1>. DEFINE x == unit[u]
            z == PreSave(x, y)
            target == z.target # x.target
            state == z.state # x.state
            comment == z.comment # x.comment
            submits == target \/ change[u] = NULL
            reviews == \/ reviewer # user
                       \/ state /\ ~target
                       \/ state /\ z.state = UNTRANSLATED
            by == IF submits THEN user ELSE reviewer
            c == [submitted |-> IF submits THEN user ELSE Kept(u).submitted,
                  commented |-> IF comment THEN user ELSE Kept(u).commented,
                  reviewed |-> IF reviews THEN reviewer ELSE Kept(u).reviewed]
            A == IF comment THEN {Left(u, "comment", user, z.comment, i)} ELSE {}
            B == IF target THEN {Left(u, "target", user, z.target, i)} ELSE {}
            C == IF state THEN {Left(u, "state", by, z.state, i)} ELSE {}
<1>1. /\ unit' = [unit EXCEPT ![u] = z]
      /\ change' = [change EXCEPT ![u] = c]
      /\ subs' = subs \cup A \cup B \cup C
  <2>1. unit' = [unit EXCEPT ![u] = z]
    BY DEF Save
  <2>2. change' = [change EXCEPT ![u] = c]
    BY Zenon DEF Save, Left
  <2>3. subs' = subs \cup A \cup B \cup C
    BY DEF Save, Left
  <2>. QED BY <2>1, <2>2, <2>3
<1>2. x \in Row /\ z \in Row
  BY PreSaveTyped DEF RowsTyped
<1>3. c \in Change
  <2>1. Kept(u) \in Change
    BY DEF RowsTyped, Kept, Change
  <2>2. /\ Kept(u).submitted \in People \cup {NULL}
        /\ Kept(u).commented \in People \cup {NULL}
        /\ Kept(u).reviewed \in People \cup {NULL}
    BY <2>1 DEF Change
  <2>3. user \in People /\ reviewer \in People
    BY DEF People
  <2>. HIDE DEF submits, comment, reviews
  <2>. QED BY <2>2, <2>3 DEF Change
<1>4. unit'[u] = z /\ change'[u] = c /\ c # NULL
  BY <1>1, <1>3, NullAssumption DEF RowsTyped
<1>5. /\ c.submitted = IF submits THEN user ELSE Kept(u).submitted
      /\ c.commented = IF comment THEN user ELSE Kept(u).commented
  OBVIOUS
<1>6. IF change[u] # NULL THEN Kept(u) = change[u]
      ELSE Kept(u).submitted = NULL /\ Kept(u).commented = NULL
  BY DEF Kept
<1>. HIDE DEF c, z, x
<1>7. ASSUME NEW f, NEW p, NEW n
      PROVE  Left(u, f, p, n, i).unit = u /\ Left(u, f, p, n, i).field = f
  BY DEF Left
<1>8. /\ \A s \in A : s.unit = u /\ s.field = "comment"
      /\ \A s \in B : s.unit = u /\ s.field = "target"
      /\ \A s \in C : s.unit = u /\ s.field = "state"
  BY <1>7
<1>9. OfUnit(u, "target")' = OfUnit(u, "target") \cup B
  <2>. HIDE DEF A, B, C
  <2>. QED BY <1>1, <1>8 DEF OfUnit
<1>10. OfUnit(u, "comment")' = OfUnit(u, "comment") \cup A
  <2>. HIDE DEF A, B, C
  <2>. QED BY <1>1, <1>8 DEF OfUnit
<1>11. CASE name = "submitted"
  <2>1. FieldOf[name] = "target"
    BY <1>11 DEF FieldOf
  <2>2. z["target"] = z.target /\ x["target"] = x.target /\ change'[u][name] = c.submitted
    BY <1>4, <1>11
  <2>. QED BY <1>4, <1>5, <1>6, <1>9, <1>11, <2>1, <2>2 DEF z, x
<1>12. CASE name = "commented"
  <2>1. FieldOf[name] = "comment"
    BY <1>12 DEF FieldOf
  <2>2. z["comment"] = z.comment /\ x["comment"] = x.comment /\ change'[u][name] = c.commented
    BY <1>4, <1>12
  <2>. QED BY <1>4, <1>5, <1>6, <1>10, <1>12, <2>1, <2>2 DEF z, x
<1>. QED BY <1>11, <1>12 DEF Fields

\* A save of a unit keeps the fields of all units as they should be, unless the
\* unit is one that the command has in hand.
LEMMA SaveReverts ==
  ASSUME TypeInv, NEW u \in Units, unit[u] # NULL, NEW y \in Row,
         NEW user \in Users, NEW reviewer \in Users, NEW i \in Ids \cup {NULL},
         Save(u, y, user, reviewer, i), UNCHANGED command,
         y.origin = unit[u].origin, gone => user # Evil,
         NEW v \in Units \ spoiled', unit[v] # NULL, NEW name \in Fields, Reverts(v, name)
  PROVE  Reverts(v, name)'
<1>. DEFINE f == FieldOf[name]
            x == unit[u]
            z == PreSave(x, y)
<1>. USE DEF TypeInv
<1>0. f \in {"target", "comment"}
  BY DEF FieldOf, Fields
<1>1. UNCHANGED <<step, todo, job, gone>>
  BY DEF command
<1>2. \A s \in subs' : s \in subs \/ s.unit = u
  BY SaveAdds
<1>3. subs \subseteq subs'
  BY SaveAdds
<1>4. CASE v # u
  <2>1. unit'[v] = unit[v] /\ change'[v] = change[v]
    BY <1>4 DEF Save, RowsTyped
  <2>2. OfUnit(v, f)' = OfUnit(v, f)
    BY <1>2, <1>3, <1>4 DEF OfUnit
  <2>3. ByOthers(v, f)' = ByOthers(v, f)
    BY <2>2 DEF ByOthers
  <2>4. First(v, name)' = First(v, name) /\ (ByEvil(v, name)' <=> ByEvil(v, name))
    BY <2>1 DEF First, ByEvil
  <2>5. unit'[v][f] = unit[v][f]
    BY <2>1
  <2>. QED BY <1>1, <2>3, <2>4, <2>5, RevertsStill
<1>5. CASE v = u
  <2>1. /\ unit'[u] = z /\ change'[u] # NULL
        /\ z[f] # x[f] =>
             /\ change'[u][name] = user
             /\ OfUnit(u, f)' = OfUnit(u, f) \cup {Left(u, f, user, z[f], i)}
        /\ z[f] = x[f] =>
             /\ OfUnit(u, f)' = OfUnit(u, f)
             /\ IF change[u] # NULL THEN change'[u][name] = change[u][name]
                ELSE change'[u][name] \in {NULL, user}
    BY SaveLeaves
  <2>2. /\ ~(job # NULL /\ job.unit = u)
        /\ user = Evil => step = 0 /\ ~gone
    <3>1. step \in 0..8
      BY DEF CommandTyped
    <3>. QED BY <1>5, <3>1 DEF Save
  <2>3. First(u, name)' = First(u, name)
    <3>1. x \in Row
      BY DEF RowsTyped
    <3>2. z.origin = x.origin
      BY <3>1, PreSaveTyped
    <3>. QED BY <2>1, <3>2 DEF First
  <2>4. ~InWriting(u, name) /\ ~InWriting(u, name)'
    BY <1>1, <2>2 DEF InWriting
  <2>5. Pass[name] \in {2, 5}
    BY DEF Pass, Fields
  <2>6. user = Evil => Awaited(u, name)'
    BY <1>1, <2>2, <2>5 DEF Awaited
  <2>7. CASE z[f] # x[f]
    <3>. DEFINE s == Left(u, f, user, z[f], i)
                S == ByOthers(u, f)
    <3>1. change'[u][name] = user /\ OfUnit(u, f)' = OfUnit(u, f) \cup {s}
      BY <2>1, <2>7
    <3>2. CASE user = Evil
      BY <2>1, <2>4, <2>6, <3>1, <3>2, <1>5 DEF Reverts, Settled, Prepared, ByEvil
    <3>3. CASE user # Evil
      <4>1. s.by = user /\ s.new = z[f] /\ s.time = clock
        BY DEF Left
      <4>. HIDE DEF s, z, x
      <4>2. ByOthers(u, f)' = S \cup {s}
        BY <3>1, <3>3, <4>1 DEF ByOthers
      <4>3. \A r \in S : SubTyped(r) /\ r.time < clock
        BY DEF SubsTyped, ByOthers, OfUnit
      <4>4. \A r \in S : r.time \in Int /\ r.time < clock
        BY <4>3, SubFields
      <4>5. clock \in Int
        BY MaxAssumption DEF CommandTyped
      <4>6. Latest(S \cup {s}) = s
        <5>1. \A r \in S \cup {s} : r.time <= s.time
          BY <4>1, <4>4, <4>5
        <5>2. \A t \in S \cup {s} : (\A r \in S \cup {s} : r.time <= t.time) => t = s
          BY <4>1, <4>4, <4>5
        <5>. QED BY <5>1, <5>2 DEF Latest
      <4>7. Reverted(u, f, First(u, name))'
        BY <2>1, <4>1, <4>2, <4>6 DEF Reverted
      <4>8. ~ByEvil(u, name)'
        BY <3>1, <3>3 DEF ByEvil
      <4>. QED BY <1>5, <2>4, <4>7, <4>8 DEF Reverts, Settled, Prepared, Awaited
    <3>. QED BY <3>2, <3>3
  <2>8. CASE z[f] = x[f]
    <3>1. ByOthers(u, f)' = ByOthers(u, f) /\ unit'[u][f] = unit[u][f]
      BY <2>1, <2>8 DEF ByOthers
    <3>2. CASE ByEvil(u, name)' <=> ByEvil(u, name)
      BY <1>1, <1>5, <2>3, <3>1, <3>2, RevertsStill
    <3>3. CASE ~(ByEvil(u, name)' <=> ByEvil(u, name))
      <4>1. change[u] = NULL /\ change'[u][name] = user /\ user = Evil
        BY <2>1, <2>8, <3>3, UsersAssumption DEF ByEvil
      <4>. QED BY <1>5, <2>1, <2>4, <2>6, <4>1 DEF Reverts, Settled, Prepared, ByEvil
    <3>. QED BY <3>2, <3>3
  <2>. QED BY <2>7, <2>8
<1>. QED BY <1>4, <1>5

\* Requests keep the fields as they should be.
LEMMA RequestReverts ==
  ASSUME TypeInv, RevertInv, NEW user \in Users, Request(user)
  PROVE  RevertInv'
<1>. USE DEF TypeInv
<1>1. ASSUME NEW v \in Units, NEW name \in Fields, unit[v] # NULL, Reverts(v, name),
             UNCHANGED <<unit, subs, command>>,
             ByEvil(v, name)' <=> ByEvil(v, name)
      PROVE  Reverts(v, name)'
  <2>1. UNCHANGED <<step, todo, job, gone>> /\ First(v, name)' = First(v, name)
    BY <1>1 DEF command, First
  <2>2. ByOthers(v, FieldOf[name])' = ByOthers(v, FieldOf[name])
    BY <1>1 DEF ByOthers, OfUnit
  <2>. QED BY <1>1, <2>1, <2>2, RevertsStill
<1>2. ASSUME NEW u \in Units, NEW text \in Target, Create(user, u, text),
             NEW v \in Units \ spoiled', NEW name \in Fields, unit'[v] # NULL
      PROVE  Reverts(v, name)'
  <2>. DEFINE f == FieldOf[name]
              empty == ""
              state == IF text = "" THEN UNTRANSLATED ELSE TRANSLATED
              origin == IF user = Evil THEN "" ELSE text
              x == [target |-> text, comment |-> empty, creator |-> user,
                    state |-> state, origin |-> origin]
              c == IF text = "" THEN NULL
                   ELSE [submitted |-> user, commented |-> NULL, reviewed |-> NULL]
  <2>1. /\ unit[u] = NULL /\ change[u] = NULL /\ Active(user)
        /\ unit' = [unit EXCEPT ![u] = x] /\ change' = [change EXCEPT ![u] = c]
        /\ UNCHANGED <<subs, command, spoiled>>
    BY <1>2 DEF Create, RowsTyped
  <2>2. UNCHANGED <<step, todo, job, gone>>
    BY <2>1 DEF command
  <2>3. ByOthers(v, f)' = ByOthers(v, f)
    BY <2>1 DEF ByOthers, OfUnit
  <2>4. CASE v # u
    <3>1. unit'[v] = unit[v] /\ change'[v] = change[v]
      BY <2>1, <2>4 DEF RowsTyped
    <3>2. Reverts(v, name)
      BY <1>2, <2>1, <3>1 DEF RevertInv
    <3>3. First(v, name)' = First(v, name) /\ (ByEvil(v, name)' <=> ByEvil(v, name))
      BY <3>1 DEF First, ByEvil
    <3>. QED BY <2>2, <2>3, <3>1, <3>2, <3>3, RevertsStill
  <2>5. CASE v = u
    <3>1. unit'[u] = x /\ change'[u] = c
      BY <2>1 DEF RowsTyped
    <3>2. ByOthers(u, f)' = {}
      BY <2>1, <2>3, <2>5 DEF ByOthers, OfUnit, OfUnits
    <3>3. ~InWriting(u, name)'
      <4>1. step \in {2, 5} /\ job # NULL => job.unit # u
        BY <2>1 DEF TodoTyped
      <4>2. Pass[name] \in {2, 5}
        BY DEF Pass, Fields
      <4>. QED BY <2>2, <4>1, <4>2 DEF InWriting
    <3>4. ByEvil(u, name)' => user = Evil /\ name = "submitted" /\ text # ""
      <4>1. ASSUME c # NULL
            PROVE  text # empty /\ c.submitted = user /\ c.commented = NULL
        <5>1. text # empty
          BY <4>1
        <5>2. c = [submitted |-> user, commented |-> NULL, reviewed |-> NULL]
          BY <4>1
        <5>. HIDE DEF c, empty
        <5>. QED BY <5>1, <5>2
      <4>. QED BY <3>1, <4>1, UsersAssumption DEF ByEvil, Fields
    <3>5. Awaited(u, name)'
      <4>1. Pass[name] \in {2, 5}
        BY DEF Pass, Fields
      <4>2. user = Evil => step = 0 /\ ~gone
        BY <2>1 DEF Active
      <4>3. ByEvil(u, name)' => user = Evil
        BY <3>4
      <4>. HIDE DEF x, c
      <4>. QED BY <2>2, <4>1, <4>2, <4>3 DEF Awaited
    <3>6. ByEvil(u, name)' \/ Reverted(u, f, First(u, name))'
      <4>1. CASE name = "commented"
        <5>1. f = "comment" /\ x["comment"] = empty
          BY <4>1 DEF FieldOf
        <5>2. unit'[u][f] = empty
          BY <3>1, <5>1
        <5>. HIDE DEF x, f
        <5>. QED BY <3>2, <5>2 DEF Reverted
      <4>2. CASE name = "submitted"
        <5>1. f = "target" /\ x["target"] = text /\ x.origin = origin
          BY <4>2 DEF FieldOf
        <5>2. CASE user = Evil /\ text # empty
          <6>1. c = [submitted |-> user, commented |-> NULL, reviewed |-> NULL]
            BY <5>2
          <6>. HIDE DEF c
          <6>2. c \in Change /\ c.submitted = user
            BY <6>1 DEF Change, People
          <6>3. change'[u] # NULL /\ change'[u].submitted = Evil
            BY <3>1, <5>2, <6>2, NullAssumption
          <6>4. change'[u][name] = Evil
            BY <4>2, <6>3
          <6>. QED BY <6>3, <6>4 DEF ByEvil
        <5>3. CASE user # Evil \/ text = empty
          <6>1. text \in {"", origin}
            BY <5>3
          <6>. HIDE DEF x, origin
          <6>. QED BY <3>1, <3>2, <4>2, <5>1, <6>1 DEF Reverted, First
        <5>. QED BY <5>2, <5>3
      <4>. QED BY <4>1, <4>2 DEF Fields
    <3>. QED BY <2>5, <3>3, <3>5, <3>6 DEF Reverts, Settled, Prepared
  <2>. QED BY <2>4, <2>5
<1>3. ASSUME NEW u \in Units, unit[u] # NULL, NEW y \in Row, NEW author \in Users,
             NEW i \in Ids \cup {NULL}, Save(u, y, author, user, i), UNCHANGED command,
             y.origin = unit[u].origin, gone => author # Evil
      PROVE  RevertInv'
  <2>. SUFFICES ASSUME NEW v \in Units \ spoiled', NEW name \in Fields, unit'[v] # NULL
                PROVE  Reverts(v, name)'
    BY DEF RevertInv, Reverts, Settled, Prepared, Awaited, InWriting, ByEvil, Reverted,
           First, ByOthers, OfUnit
  <2>1. unit[v] # NULL
    BY <1>3 DEF Save, RowsTyped
  <2>2. v \notin spoiled
    BY <1>3, SaveAdds
  <2>. QED BY <1>3, <2>1, <2>2, SaveReverts DEF RevertInv
<1>4. ASSUME NEW u \in Units, NEW text \in Target, NEW f \in Fuzzy, Submit(user, u, text, f)
      PROVE  RevertInv'
  <2>. DEFINE state == CASE text = "" -> UNTRANSLATED
                         [] text # "" /\ f -> FUZZY
                         [] OTHER -> TRANSLATED
              y == [unit[u] EXCEPT !.target = text, !.state = state]
  <2>1. state \in LiveStates
    BY DEF LiveStates, States, UNTRANSLATED, TRANSLATED, OBSOLETE, FUZZY
  <2>2. /\ Active(user) /\ unit[u] # NULL /\ Save(u, y, user, user, NULL)
        /\ UNCHANGED command
    BY <1>4 DEF Submit
  <2>. HIDE DEF state
  <2>3. y \in Row /\ y.origin = unit[u].origin
    BY <2>1, <2>2 DEF RowsTyped, Row
  <2>. HIDE DEF y
  <2>. QED BY <1>3, <2>2, <2>3 DEF Active
<1>5. ASSUME NEW u \in Units, NEW text \in Comments, Comment(user, u, text)
      PROVE  RevertInv'
  <2>. DEFINE y == [unit[u] EXCEPT !.comment = text]
  <2>1. /\ Active(user) /\ unit[u] # NULL /\ Save(u, y, user, user, NULL)
        /\ UNCHANGED command
    BY <1>5 DEF Comment
  <2>2. y \in Row /\ y.origin = unit[u].origin
    BY <2>1 DEF RowsTyped, Row
  <2>. HIDE DEF y
  <2>. QED BY <1>3, <2>1, <2>2 DEF Active
<1>6. ASSUME UNCHANGED <<unit, subs, command>>, spoiled \subseteq spoiled',
             \A v \in Units, name \in Fields : ByEvil(v, name)' <=> ByEvil(v, name)
      PROVE  RevertInv'
  <2>. SUFFICES ASSUME NEW v \in Units \ spoiled', NEW name \in Fields, unit'[v] # NULL
                PROVE  Reverts(v, name)'
    BY DEF RevertInv, Reverts, Settled, Prepared, Awaited, InWriting, ByEvil, Reverted,
           First, ByOthers, OfUnit
  <2>1. unit[v] # NULL /\ v \in Units \ spoiled
    BY <1>6
  <2>2. Reverts(v, name)
    BY <2>1 DEF RevertInv
  <2>. QED BY <1>1, <1>6, <2>1, <2>2
<1>7. ASSUME NEW u \in Units, NEW text \in Texts, NEW i \in Ids, Suggest(user, u, text, i)
      PROVE  RevertInv'
  BY <1>6, <1>7 DEF Suggest, ByEvil
<1>8. ASSUME NEW i \in Ids, NEW text \in Texts, Accept(user, i, text)
      PROVE  RevertInv'
  <2>. DEFINE s == suggestion[i]
              x == unit[s.unit]
              state == IF x.state = FUZZY THEN TRANSLATED ELSE x.state
              y == [x EXCEPT !.target = text,
                             !.state = IF @ = FUZZY THEN TRANSLATED ELSE @]
  <2>1. /\ s # NULL
        /\ \/ Save(s.unit, y, s.user, user, i)
           \/ UNCHANGED <<unit, change, subs, clock, spoiled>>
        /\ UNCHANGED command
    BY <1>8 DEF Accept
  <2>2. s \in Sugg /\ s.unit \in Units /\ s.user \in Users /\ x # NULL /\ x \in Row
    BY <2>1 DEF SuggestionsTyped, Sugg, OfUnits, RowsTyped
  <2>3. y \in Row /\ y.origin = x.origin
    <3>1. state \in LiveStates /\ text \in Target
      <4>1. x.state \in LiveStates
        BY <2>2 DEF Row
      <4>2. TRANSLATED \in LiveStates
        BY DEF LiveStates, States, TRANSLATED, OBSOLETE
      <4>. QED BY <4>1, <4>2 DEF Target
    <3>2. y = [x EXCEPT !.target = text, !.state = state]
      BY <2>2 DEF Row
    <3>. HIDE DEF state
    <3>. QED BY <2>2, <3>1, <3>2 DEF Row
  <2>4. gone => s.user # Evil
    BY <2>1 DEF NobodyLeft
  <2>. HIDE DEF y
  <2>5. CASE Save(s.unit, y, s.user, user, i)
    BY <1>3, <2>1, <2>2, <2>3, <2>4, <2>5
  <2>6. CASE UNCHANGED <<unit, change, subs, clock, spoiled>>
    BY <1>6, <2>1, <2>6 DEF ByEvil
  <2>. QED BY <2>1, <2>5, <2>6
<1>9. ASSUME NEW i \in Ids, Reject(user, i)
      PROVE  RevertInv'
  <2>. DEFINE u == suggestion[i].unit
              c == [change[u] EXCEPT !.reviewed = user]
  <2>1. /\ suggestion[i] # NULL /\ UNCHANGED <<unit, subs, clock, command>>
        /\ change' = IF change[u] = NULL THEN change ELSE [change EXCEPT ![u] = c]
        /\ spoiled \subseteq spoiled'
    BY <1>9 DEF Reject
  <2>2. u \in Units
    BY <2>1 DEF SuggestionsTyped, Sugg
  <2>3. change[u] # NULL =>
          c # NULL /\ \A name \in Fields : c[name] = change[u][name]
    BY <2>2, NullAssumption DEF RowsTyped, Change, People, Fields
  <2>. HIDE DEF c
  <2>4. \A v \in Units, name \in Fields : ByEvil(v, name)' <=> ByEvil(v, name)
    BY <2>1, <2>2, <2>3 DEF ByEvil, RowsTyped
  <2>. QED BY <1>6, <2>1, <2>4
<1>10. ASSUME NEW u \in Units, NEW text \in Target, Create(user, u, text)
       PROVE  RevertInv'
  BY <1>2, <1>10 DEF RevertInv
<1>. QED BY <1>4, <1>5, <1>7, <1>8, <1>9, <1>10 DEF Request

\* No step of the command changes what others have submitted of a unit, unless it
\* was killed over the unit or the unit saved meanwhile.
LEMMA PurgeKeepsOthers ==
  ASSUME IInv, Purge, NEW u \in Units \ spoiled, NEW name \in Fields
  PROVE  ByOthers(u, FieldOf[name])' = ByOthers(u, FieldOf[name])
<1>1. FieldOf[name] # "state"
  BY DEF FieldOf, Fields
<1>2. subs' \subseteq subs
  <2>1. CASE DeleteUnit
    BY <2>1 DEF DeleteUnit
  <2>2. CASE DeleteRest
    BY <2>2 DEF DeleteRest, Cascade
  <2>3. ASSUME NEW r \in todo, RevertReview(r) PROVE subs' \subseteq subs
    BY <2>3 DEF RevertReview, Cascade
  <2>4. ASSUME NEW r \in todo, RevertStateChange(r) PROVE subs' \subseteq subs
    BY <2>4 DEF RevertStateChange
  <2>. QED BY <2>1, <2>2, <2>3, <2>4
           DEF Purge, NextStep, WriteChange, WriteUnit, DeleteUser, LookCreated,
               Look, LookReviewed, records
<1>. QED BY <1>1, <1>2, PurgeKeeps DEF ByOthers, OfUnit

\* Every step of the command keeps the fields as they should be.
LEMMA PurgeReverts ==
  ASSUME IInv, TypeInv, RevertInv, Purge
  PROVE  RevertInv'
<1>. SUFFICES ASSUME NEW u \in Units \ spoiled', NEW name \in Fields, unit'[u] # NULL
              PROVE  Reverts(u, name)'
  BY DEF RevertInv
<1>. USE DEF TypeInv
<1>. DEFINE f == FieldOf[name]
<1>1. u \in Units \ spoiled /\ spoiled' = spoiled
  BY DEF Purge, NextStep, DeleteUnit, WriteChange, WriteUnit, DeleteRest, DeleteUser,
         LookCreated, Look, LookReviewed, RevertReview, RevertStateChange
<1>2. ByOthers(u, f)' = ByOthers(u, f)
  BY <1>1, PurgeKeepsOthers
<1>3. step \in 0..8 /\ Pass[name] \in {2, 5} /\ (job # NULL => step \in {1, 2, 4, 5})
  BY DEF CommandTyped, Pass, Fields
<1>4. ASSUME unit[u] # NULL
      PROVE  Reverts(u, name)
  BY <1>1, <1>4 DEF RevertInv
\* Where the unit, its UnitChange and what is written are others
<1>5. ASSUME UNCHANGED <<unit, gone>>, ~(InWriting(u, name) /\ job.written),
             ~InWriting(u, name)', change'[u] = change[u],
             ByEvil(u, name) => /\ step' <= Pass[name]
                                /\ step' = Pass[name] => \E r \in todo' : r.unit = u
      PROVE  Reverts(u, name)'
  <2>1. Reverts(u, name)
    BY <1>4, <1>5
  <2>2. First(u, name)' = First(u, name) /\ (ByEvil(u, name)' <=> ByEvil(u, name))
    BY <1>5 DEF First, ByEvil
  <2>3. ByEvil(u, name) => ~gone
    BY <2>1 DEF Reverts, Awaited
  <2>. QED BY <1>2, <1>5, <2>1, <2>2, <2>3, RevertsElsewhere
<1>6. ASSUME job = NULL, unit[u] # NULL, ByEvil(u, name)
      PROVE  step <= Pass[name] /\ (step = Pass[name] => \E r \in todo : r.unit = u)
  BY <1>4, <1>6 DEF Reverts, Awaited, InWriting
<1>7. CASE NextStep
  <2>1. /\ step \in 1..6 /\ step' = step + 1 /\ todo = {} /\ job = NULL /\ job' = NULL
        /\ todo' = Rows(Steps[step']) /\ UNCHANGED <<unit, change, gone>>
    BY <1>7 DEF NextStep, records
  <2>2. ASSUME ByEvil(u, name)
        PROVE  step' <= Pass[name] /\ (step' = Pass[name] => \E r \in todo' : r.unit = u)
    <3>1. step < Pass[name]
      BY <1>3, <1>6, <2>1, <2>2
    <3>2. ASSUME step' = Pass[name] PROVE \E r \in todo' : r.unit = u
      <4>. DEFINE r == [unit |-> u, target |-> unit[u].target]
      <4>1. Steps[step'] = name
        BY <3>2 DEF Steps, Pass, Fields
      <4>2. r \in Rows(name)
        BY <2>2 DEF Rows, FieldOf, Fields, ByEvil
      <4>3. r \in todo' /\ r.unit = u
        BY <2>1, <4>1, <4>2
      <4>. QED BY <4>3
    <3>. QED BY <1>3, <2>1, <3>1, <3>2
  <2>. QED BY <1>5, <2>1, <2>2 DEF InWriting
<1>8. CASE DeleteUnit
  <2>1. /\ step = 1 /\ step' = 1 /\ job # NULL /\ job' = NULL
        /\ unit' = [unit EXCEPT ![job.unit] = NULL]
        /\ change' = [change EXCEPT ![job.unit] = NULL] /\ UNCHANGED gone
    BY <1>3, <1>8 DEF DeleteUnit, Running, Steps
  <2>2. u # job.unit
    BY <2>1 DEF RowsTyped
  <2>3. unit'[u] = unit[u] /\ change'[u] = change[u]
    BY <2>1, <2>2 DEF RowsTyped
  <2>4. Reverts(u, name)
    BY <1>4, <2>3
  <2>5. First(u, name)' = First(u, name) /\ (ByEvil(u, name)' <=> ByEvil(u, name))
    BY <2>3 DEF First, ByEvil
  <2>6. ByEvil(u, name) => ~gone
    BY <2>4 DEF Reverts, Awaited
  <2>7. ~InWriting(u, name) /\ ~InWriting(u, name)'
    BY <1>3, <2>1 DEF InWriting
  <2>. QED BY <1>2, <1>3, <2>1, <2>3, <2>4, <2>5, <2>6, <2>7, RevertsElsewhere
<1>9. ASSUME NEW v \in Units, LookCreated(v)
      PROVE  Reverts(u, name)'
  <2>1. step = 1 /\ step' = 1 /\ UNCHANGED <<unit, change, gone>>
    BY <1>3, <1>9 DEF LookCreated, Running, Steps, records
  <2>. QED BY <1>3, <1>5, <2>1 DEF InWriting
<1>10. CASE DeleteRest
  <2>1. step = 7 /\ step' = 8 /\ job = NULL /\ job' = NULL /\ UNCHANGED <<unit, change, gone>>
    BY <1>3, <1>10 DEF DeleteRest, Running, Steps
  <2>2. ~ByEvil(u, name)
    BY <1>3, <1>6, <2>1
  <2>. QED BY <1>5, <2>1, <2>2 DEF InWriting
<1>11. ASSUME NEW r \in todo, LookReviewed(r)
       PROVE  Reverts(u, name)'
  <2>1. /\ step = 4 /\ step' = 4 /\ job = NULL /\ unit' = unit /\ change' = change
        /\ gone' = gone
    <3>1. /\ Running("reviewed") /\ job = NULL
          /\ unit' = unit /\ change' = change /\ gone' = gone /\ step' = step
      BY <1>11, Zenon DEF LookReviewed
    <3>. QED BY <1>3, <3>1 DEF Running, Steps
  <2>2. ByEvil(u, name) => step' <= Pass[name] /\ step' # Pass[name]
    BY <1>3, <1>6, <2>1
  <2>3. ~InWriting(u, name) /\ ~InWriting(u, name)'
    BY <1>3, <2>1 DEF InWriting
  <2>. QED BY <1>5, <2>1, <2>2, <2>3
<1>12. ASSUME NEW r \in todo, RevertReview(r)
       PROVE  Reverts(u, name)'
  <2>1. step = 3 /\ step' = 3 /\ job = NULL /\ job' = NULL /\ UNCHANGED <<unit, change, gone>>
    BY <1>3, <1>12 DEF RevertReview, Running, Steps
  <2>2. ByEvil(u, name) => step' <= Pass[name] /\ step' # Pass[name]
    BY <1>3, <1>6, <2>1
  <2>. QED BY <1>5, <2>1, <2>2 DEF InWriting
<1>13. ASSUME NEW r \in todo, RevertStateChange(r)
       PROVE  Reverts(u, name)'
  <2>1. /\ step = 6 /\ step' \in {0, 6} /\ job = NULL /\ job' = NULL
        /\ UNCHANGED <<unit, change, gone>>
    BY <1>3, <1>13 DEF RevertStateChange, Running, Steps
  <2>2. ~ByEvil(u, name)
    BY <1>3, <1>6, <2>1
  <2>. QED BY <1>5, <2>1, <2>2 DEF InWriting
<1>14. CASE DeleteUser
  <2>1. /\ step = 8 /\ step' = 0 /\ job = NULL /\ job' = NULL
        /\ unit' = [v \in Units |->
             IF unit[v] = NULL THEN NULL ELSE [unit[v] EXCEPT !.creator = Named(@)]]
        /\ change' = [v \in Units |->
             IF change[v] = NULL THEN NULL
             ELSE [n \in DOMAIN change[v] |-> Named(change[v][n])]]
    BY <1>3, <1>14 DEF DeleteUser, Running, Steps
  <2>2. unit[u] # NULL /\ unit'[u] = [unit[u] EXCEPT !.creator = Named(@)]
    BY <2>1
  <2>3. unit[u] \in Row
    BY <2>2 DEF RowsTyped
  <2>4. unit'[u][f] = unit[u][f] /\ unit'[u].origin = unit[u].origin
    BY <2>2, <2>3 DEF Row, FieldOf, Fields
  <2>5. ~ByEvil(u, name)
    BY <1>3, <1>6, <2>1, <2>2
  <2>6. ~ByEvil(u, name)'
    <3>1. CASE change[u] = NULL
      BY <2>1, <3>1 DEF ByEvil
    <3>2. CASE change[u] # NULL
      <4>1. name \in DOMAIN change[u]
        BY <3>2 DEF RowsTyped, Change, Fields
      <4>2. change'[u][name] = Named(change[u][name])
        BY <2>1, <3>2, <4>1
      <4>3. Evil # System
        BY UsersAssumption
      <4>. QED BY <4>2, <4>3 DEF Named, ByEvil
    <3>. QED BY <3>1, <3>2
  <2>7. Reverts(u, name) /\ First(u, name)' = First(u, name)
    BY <1>4, <2>2, <2>4 DEF First
  <2>. QED BY <1>2, <2>1, <2>4, <2>5, <2>6, <2>7, RevertsElsewhere DEF InWriting
<1>15. ASSUME NEW r \in todo, NEW n \in {"submitted", "commented"}, Look(n, r)
       PROVE  Reverts(u, name)'
  <2>. DEFINE empty == ""
  <2>1. /\ step' = step /\ job = NULL /\ todo' = todo \ {r} /\ Running(n)
        /\ job' = Former(r.unit, n, empty) /\ UNCHANGED <<unit, change, gone>>
    <3>1. job' = Former(r.unit, n, empty)
      BY <1>15, Zenon DEF Look
    <3>2. /\ step' = step /\ job = NULL /\ todo' = todo \ {r} /\ Running(n)
          /\ UNCHANGED records /\ gone' = gone
      BY <1>15, Zenon DEF Look
    <3>. HIDE DEF empty
    <3>. QED BY <3>1, <3>2 DEF records
  <2>. HIDE DEF empty
  <2>2. step = Pass[n]
    BY <1>3, <2>1 DEF Running, Steps, Pass
  <2>3. r.unit \in Units
    BY <2>2 DEF TodoTyped, Pass
  <2>4. /\ job' # NULL /\ job'.unit = r.unit /\ ~job'.written /\ job'.by # Evil
        /\ job'.value = IF ByOthers(r.unit, FieldOf[n]) = {} THEN empty
                        ELSE Latest(ByOthers(r.unit, FieldOf[n])).new
    <3>1. CASE n = "submitted"
      <4>1. FieldOf[n] = "target" /\ "target" # "comment" /\ "target" # "state"
        BY <3>1 DEF FieldOf
      <4>2. empty \in Target
        BY DEF Target, empty
      <4>. QED BY <2>1, <2>3, <3>1, <4>1, <4>2, FormerTyped, NullAssumption
    <3>2. CASE n = "commented"
      <4>1. FieldOf[n] = "comment" /\ "comment" # "target" /\ "comment" # "state"
        BY <3>2 DEF FieldOf
      <4>2. empty \in Comments
        BY TextsAssumption DEF empty
      <4>. QED BY <2>1, <2>3, <3>2, <4>1, <4>2, FormerTyped, NullAssumption
    <3>. QED BY <3>1, <3>2
  <2>5. Reverts(u, name)
    BY <1>4, <2>1
  <2>6. CASE n = name /\ r.unit = u
    <3>1. InWriting(u, name)'
      BY <2>1, <2>2, <2>4, <2>6 DEF InWriting
    <3>2. ByEvil(u, name)' \/ Reverted(u, f, First(u, name))'
      <4>1. ByEvil(u, name) \/ Reverted(u, f, First(u, name))
        BY <2>1, <2>5 DEF Reverts, Settled, InWriting
      <4>. QED BY <1>2, <2>1, <4>1 DEF ByEvil, Reverted, First
    <3>3. Prepared(u, name)'
      BY <1>2, <2>4, <2>6 DEF Prepared, empty
    <3>4. Awaited(u, name)'
      <4>1. ByEvil(u, name)' => ~gone'
        BY <2>1, <2>5 DEF Reverts, Awaited, ByEvil
      <4>2. step' <= Pass[name]
        BY <1>3, <2>1, <2>2, <2>6
      <4>. QED BY <2>4, <3>1, <4>1, <4>2 DEF Awaited
    <3>. QED BY <3>2, <3>3, <3>4 DEF Reverts, Settled
  <2>7. CASE n = name /\ r.unit # u
    <3>1. ByEvil(u, name) => step <= Pass[name] /\ \E q \in todo' : q.unit = u
      BY <1>6, <2>1, <2>2, <2>7
    <3>2. ~InWriting(u, name)'
      BY <2>4, <2>7 DEF InWriting
    <3>. QED BY <1>5, <2>1, <3>1, <3>2 DEF InWriting
  <2>8. CASE n # name
    <3>1. step # Pass[name]
      BY <2>2, <2>8 DEF Pass, Fields
    <3>2. ByEvil(u, name) => step <= Pass[name]
      BY <1>6, <2>1
    <3>. QED BY <1>5, <2>1, <3>1, <3>2 DEF InWriting
  <2>. QED BY <2>6, <2>7, <2>8
<1>16. CASE WriteChange
  <2>. DEFINE c == [change[job.unit] EXCEPT ![job.field] = job.by]
  <2>1. /\ job # NULL /\ step \in {2, 4, 5} /\ ~job.written
        /\ change' = [change EXCEPT ![job.unit] = c]
        /\ job' = [job EXCEPT !.written = TRUE]
        /\ UNCHANGED <<unit, step, todo, gone>>
    BY <1>3, <1>16 DEF WriteChange, Running, Steps
  <2>2. /\ step = 2 => job.field = "submitted"
        /\ step = 4 => job.field = "reviewed"
        /\ step = 5 => job.field = "commented"
        /\ job.unit \in Units /\ change[job.unit] # NULL /\ job.by \in Users \cup {NULL}
    BY <2>1, JobFields DEF TodoTyped
  <2>3. /\ c[job.field] = job.by
        /\ name # job.field => c[name] = change[job.unit][name]
    <3>1. change[job.unit] \in Change
      BY <2>2 DEF RowsTyped
    <3>2. job.by \in People \cup {NULL} /\ job.field \in {"submitted", "commented", "reviewed"}
      BY <2>1, <2>2 DEF People
    <3>3. name \in {"submitted", "commented", "reviewed"}
      BY DEF Fields
    <3>. QED BY <3>1, <3>2, <3>3 DEF Change
  <2>4. /\ job' # NULL /\ job'.written
        /\ job'.unit = job.unit /\ job'.by = job.by /\ job'.value = job.value
    <3>1. ASSUME NEW field, NEW values, job \in Writing(field, values)
          PROVE  /\ job' \in Writing(field, values) /\ job'.written
                 /\ job'.unit = job.unit /\ job'.by = job.by /\ job'.value = job.value
      BY <2>1, <3>1 DEF Writing
    <3>2. CASE step = 2
      <4>1. job \in Writing("submitted", Target)
        BY <2>1, <3>2, JobFields
      <4>2. /\ job' \in Writing("submitted", Target) /\ job'.written
            /\ job'.unit = job.unit /\ job'.by = job.by /\ job'.value = job.value
        BY <3>1, <4>1
      <4>. QED BY <4>2, NullAssumption
    <3>3. CASE step = 4
      <4>1. job \in Writing("reviewed", LiveStates)
        BY <2>1, <3>3, JobFields
      <4>2. /\ job' \in Writing("reviewed", LiveStates) /\ job'.written
            /\ job'.unit = job.unit /\ job'.by = job.by /\ job'.value = job.value
        BY <3>1, <4>1
      <4>. QED BY <4>2, NullAssumption
    <3>4. CASE step = 5
      <4>1. job \in Writing("commented", Comments)
        BY <2>1, <3>4, JobFields
      <4>2. /\ job' \in Writing("commented", Comments) /\ job'.written
            /\ job'.unit = job.unit /\ job'.by = job.by /\ job'.value = job.value
        BY <3>1, <4>1
      <4>. QED BY <4>2, NullAssumption
    <3>. QED BY <2>1, <3>2, <3>3, <3>4
  <2>. HIDE DEF c
  <2>5. Reverts(u, name)
    BY <1>4, <2>1
  <2>6. CASE InWriting(u, name)
    <3>1. name = job.field /\ job.unit = u
      BY <2>2, <2>6 DEF InWriting, Pass, Fields
    <3>2. job.by # Evil
      BY <2>5, <2>6 DEF Reverts, Prepared
    <3>3. ~ByEvil(u, name)'
      <4>1. change'[u] = c
        BY <2>1, <2>2, <3>1 DEF RowsTyped
      <4>. QED BY <2>3, <3>1, <3>2, <4>1 DEF ByEvil
    <3>4. InWriting(u, name)' /\ job'.written
      BY <2>1, <2>4, <2>6 DEF InWriting
    <3>5. Prepared(u, name)'
      BY <1>2, <2>4, <2>5, <2>6 DEF Reverts, Prepared
    <3>. QED BY <3>3, <3>4, <3>5 DEF Reverts, Settled, Awaited
  <2>7. CASE ~InWriting(u, name)
    <3>1. ~InWriting(u, name)'
      BY <2>1, <2>4, <2>7 DEF InWriting
    <3>2. ByEvil(u, name)' <=> ByEvil(u, name)
      <4>1. CASE job.unit = u
        <5>1. name # job.field
          BY <2>1, <2>2, <2>7, <4>1 DEF InWriting, Pass, Fields
        <5>2. change'[u] = c
          BY <2>1, <2>2, <4>1 DEF RowsTyped
        <5>3. TypeInv'
          BY PurgeTypes
        <5>4. change'[u] # NULL
          BY <2>1, <2>4, <4>1, <5>3 DEF TodoTyped
        <5>. QED BY <2>2, <2>3, <4>1, <5>1, <5>2, <5>4 DEF ByEvil
      <4>2. CASE job.unit # u
        <5>1. change'[u] = change[u]
          BY <2>1, <4>2 DEF RowsTyped
        <5>. QED BY <5>1 DEF ByEvil
      <4>. QED BY <4>1, <4>2
    <3>3. First(u, name)' = First(u, name) /\ unit'[u][f] = unit[u][f]
      BY <2>1 DEF First
    <3>4. ByEvil(u, name) => /\ ~gone' /\ step' <= Pass[name]
                             /\ step' = Pass[name] => \E r \in todo' : r.unit = u
      BY <2>1, <2>5, <2>7 DEF Reverts, Awaited
    <3>. QED BY <1>2, <2>5, <2>7, <3>1, <3>2, <3>3, <3>4, RevertsElsewhere
  <2>. QED BY <2>6, <2>7
<1>17. CASE WriteUnit
  <2>. DEFINE g == FieldOf[job.field]
              x == [unit[job.unit] EXCEPT ![g] = job.value]
  <2>1. /\ job # NULL /\ step \in {2, 4, 5} /\ job.written /\ job' = NULL
        /\ unit' = [unit EXCEPT ![job.unit] = x]
        /\ UNCHANGED <<change, step, todo, gone>>
    BY <1>3, <1>17 DEF WriteUnit, Running, Steps
  <2>2. /\ step = 2 => job.field = "submitted"
        /\ step = 4 => job.field = "reviewed"
        /\ step = 5 => job.field = "commented"
        /\ job.unit \in Units /\ unit[job.unit] # NULL
    BY <2>1, JobFields DEF TodoTyped, RowsTyped
  <2>3. /\ x[g] = job.value /\ x.origin = unit[job.unit].origin
        /\ f # g => x[f] = unit[job.unit][f]
    <3>1. unit[job.unit] \in Row
      BY <2>2 DEF RowsTyped
    <3>2. g \in {"target", "state", "comment"} /\ f \in {"target", "comment"}
      BY <2>1, <2>2 DEF FieldOf, Fields
    <3>. HIDE DEF f, g
    <3>. QED BY <3>1, <3>2 DEF Row
  <2>4. Reverts(u, name)
    BY <1>4, <2>1, <2>2 DEF RowsTyped
  <2>. HIDE DEF x
  <2>5. job.unit = u => unit'[u] = x
    BY <2>1, <2>2 DEF RowsTyped
  <2>6. job.unit # u => unit'[u] = unit[u]
    BY <2>1 DEF RowsTyped
  <2>7. First(u, name)' = First(u, name)
    BY <2>3, <2>5, <2>6 DEF First
  <2>8. ~InWriting(u, name)' /\ (ByEvil(u, name)' <=> ByEvil(u, name))
    BY <2>1 DEF InWriting, ByEvil
  <2>9. ByEvil(u, name) => /\ ~gone' /\ step' <= Pass[name]
                           /\ step' = Pass[name] => \E r \in todo' : r.unit = u
    BY <2>1, <2>4 DEF Reverts, Awaited
  <2>10. CASE InWriting(u, name)
    <3>1. name = job.field /\ job.unit = u
      BY <2>2, <2>10 DEF InWriting, Pass, Fields
    <3>2. unit'[u][f] = job.value
      BY <2>3, <2>5, <3>1
    <3>3. Reverted(u, f, First(u, name))'
      BY <1>2, <2>4, <2>10, <3>2 DEF Reverts, Prepared, Reverted
    <3>. QED BY <2>8, <2>9, <3>3 DEF Reverts, Settled, Prepared, Awaited
  <2>11. CASE ~InWriting(u, name)
    <3>1. unit'[u][f] = unit[u][f]
      <4>1. CASE job.unit = u
        <5>1. f # g
          BY <2>1, <2>2, <2>11, <4>1 DEF InWriting, Pass, FieldOf, Fields
        <5>. QED BY <2>3, <2>5, <4>1, <5>1
      <4>. QED BY <2>6, <4>1
    <3>. QED BY <1>2, <2>4, <2>7, <2>8, <2>9, <2>11, <3>1, RevertsElsewhere
  <2>. QED BY <2>10, <2>11
<1>. QED BY <1>7, <1>8, <1>9, <1>10, <1>11, <1>12, <1>13, <1>14, <1>15, <1>16, <1>17
         DEF Purge

\* RevertInv is an invariant.
LEMMA RevertInvHolds == Spec => []RevertInv
<1>1. Init => RevertInv
  <2>. SUFFICES ASSUME Init, NEW u \in Units, NEW name \in Fields, unit[u] # NULL
                PROVE  Reverts(u, name)
    BY DEF RevertInv
  <2>. DEFINE f == FieldOf[name]
              empty == ""
              t == Imported[u].target
              x == [target |-> t, comment |-> empty, state |-> Imported[u].state,
                    creator |-> System, origin |-> t]
  <2>1. unit[u] = x
    BY DEF Init
  <2>2. subs = {} /\ job = NULL
    BY DEF Init
  <2>3. ~ByEvil(u, name)
    <3>1. \/ change[u] = NULL
          \/ change[u] = [submitted |-> System, commented |-> NULL, reviewed |-> NULL]
      BY DEF Init
    <3>. QED BY <3>1, UsersAssumption DEF ByEvil, Fields
  <2>4. ByOthers(u, f) = {}
    BY <2>2 DEF ByOthers, OfUnit
  <2>5. unit[u][f] \in {"", First(u, name)}
    <3>1. CASE name = "submitted"
      <4>1. f = "target" /\ x["target"] = t /\ x.origin = t
        BY <3>1 DEF FieldOf
      <4>. HIDE DEF x, f
      <4>. QED BY <2>1, <3>1, <4>1 DEF First
    <3>2. CASE name = "commented"
      <4>1. f = "comment" /\ x["comment"] = empty
        BY <3>2 DEF FieldOf
      <4>2. unit[u][f] = empty
        BY <2>1, <4>1
      <4>. HIDE DEF x, f
      <4>. QED BY <4>2
    <3>. QED BY <3>1, <3>2 DEF Fields
  <2>6. Reverted(u, f, First(u, name))
    BY <2>4, <2>5 DEF Reverted
  <2>. QED BY <2>2, <2>3, <2>6 DEF Reverts, Settled, Prepared, Awaited, InWriting
<1>2. IInv /\ TypeInv /\ RevertInv /\ [Next]_vars => RevertInv'
  <2>. SUFFICES ASSUME IInv, TypeInv, RevertInv, [Next]_vars PROVE RevertInv'
    OBVIOUS
  <2>. USE DEF TypeInv
  <2>1. step \in 0..8 /\ (job # NULL => step \in {1, 2, 4, 5})
    BY DEF CommandTyped
  <2>2. ASSUME UNCHANGED <<unit, change, subs, gone>>, spoiled \subseteq spoiled',
               job' = NULL, step' \in {0, 1},
               NEW u \in Units \ spoiled', NEW name \in Fields, unit'[u] # NULL,
               InWriting(u, name) => ~job.written
        PROVE  Reverts(u, name)'
    <3>1. Reverts(u, name)
      BY <2>2 DEF RevertInv
    <3>2. /\ First(u, name)' = First(u, name) /\ (ByEvil(u, name)' <=> ByEvil(u, name))
          /\ ByOthers(u, FieldOf[name])' = ByOthers(u, FieldOf[name])
      BY <2>2 DEF First, ByEvil, ByOthers, OfUnit
    <3>3. Pass[name] \in {2, 5}
      BY DEF Pass, Fields
    <3>4. ByEvil(u, name) => ~gone
      BY <3>1 DEF Reverts, Awaited
    <3>. QED BY <2>2, <3>1, <3>2, <3>3, <3>4, RevertsElsewhere DEF InWriting
  <2>3. CASE Begin
    <3>1. step = 0 /\ step' = 1 /\ job' = job /\ UNCHANGED <<unit, change, subs, gone, spoiled>>
      BY <2>3 DEF Begin, records
    <3>2. job = NULL
      BY <2>1, <3>1
    <3>. QED BY <2>2, <3>1, <3>2 DEF RevertInv, InWriting
  <2>4. CASE Kill
    <3>1. step' = 0 /\ job' = NULL /\ UNCHANGED <<unit, change, subs, gone>>
          /\ spoiled \subseteq spoiled'
      BY <2>4 DEF Kill, records
    <3>2. ASSUME NEW u \in Units \ spoiled', NEW name \in Fields, InWriting(u, name)
          PROVE  ~job.written
      <4>1. ~Running("created") /\ job # NULL /\ job.unit = u
        BY <3>2 DEF InWriting, Pass, Fields, Running, Steps
      <4>. QED BY <2>4, <4>1 DEF Kill
    <3>. QED BY <2>2, <3>1, <3>2 DEF RevertInv
  <2>5. CASE UNCHANGED vars
    <3>1. UNCHANGED <<unit, change, subs, step, todo, job, gone, spoiled>>
      BY <2>5 DEF vars
    <3>2. ASSUME NEW u \in Units \ spoiled, NEW name \in Fields, Reverts(u, name)
          PROVE  Reverts(u, name)'
      <4>1. /\ First(u, name)' = First(u, name) /\ (ByEvil(u, name)' <=> ByEvil(u, name))
            /\ ByOthers(u, FieldOf[name])' = ByOthers(u, FieldOf[name])
        BY <3>1 DEF First, ByEvil, ByOthers, OfUnit
      <4>. QED BY <3>1, <3>2, <4>1, RevertsStill
    <3>. QED BY <3>1, <3>2 DEF RevertInv
  <2>. QED BY <2>3, <2>4, <2>5, PurgeReverts, RequestReverts DEF Next
<1>. QED BY <1>1, <1>2, InvHolds, TypeInvHolds, PTL DEF Spec

\* When the user is gone nothing is in hand and no field is the user's, so that
\* each field is as it should be.
LEMMA RevertedWhenGone ==
  ASSUME TypeInv, RevertInv, gone, NEW u \in Units \ spoiled, unit[u] # NULL,
         NEW name \in Fields
  PROVE  Reverted(u, FieldOf[name], First(u, name))
<1>1. step = 0
  BY DEF TypeInv, NobodyLeft
<1>2. Reverts(u, name)
  BY DEF RevertInv
<1>3. ~ByEvil(u, name)
  BY <1>2 DEF Reverts, Awaited
<1>4. ~InWriting(u, name)
  BY <1>1 DEF InWriting, Pass, Fields
<1>. QED BY <1>2, <1>3, <1>4 DEF Reverts, Settled

\* However often the command fails, is killed and is run again while others edit,
\* once the user is gone every target that it was not killed over is the last that
\* somebody else submitted.
THEOREM TargetsAreReverted == Spec => []TargetsReverted
<1>1. TypeInv /\ RevertInv => TargetsReverted
  <2>. SUFFICES ASSUME TypeInv, RevertInv, gone, NEW u \in Units \ spoiled, unit[u] # NULL
                PROVE  Reverted(u, "target", unit[u].origin)
    BY DEF TargetsReverted
  <2>1. "submitted" \in Fields /\ FieldOf["submitted"] = "target"
        /\ First(u, "submitted") = unit[u].origin
    BY DEF Fields, FieldOf, First
  <2>. QED BY <2>1, RevertedWhenGone
<1>. QED BY <1>1, TypeInvHolds, RevertInvHolds, PTL

\* The same of the comments.
THEOREM CommentsAreReverted == Spec => []CommentsReverted
<1>1. TypeInv /\ RevertInv => CommentsReverted
  <2>. SUFFICES ASSUME TypeInv, RevertInv, gone, NEW u \in Units \ spoiled, unit[u] # NULL
                PROVE  Reverted(u, "comment", "")
    BY DEF CommentsReverted
  <2>1. "commented" \in Fields /\ FieldOf["commented"] = "comment"
        /\ First(u, "commented") = ""
    BY DEF Fields, FieldOf, First
  <2>2. Reverted(u, FieldOf["commented"], First(u, "commented"))
    BY <2>1, RevertedWhenGone
  <2>. QED BY <2>1, <2>2, Zenon
<1>. QED BY <1>1, TypeInvHolds, RevertInvHolds, PTL
=============================================================================
