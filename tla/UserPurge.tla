------------------------------ MODULE UserPurge ------------------------------
(***************************************************************************)
(* Removing a user with everything that the user did (accounts/utils.py,   *)
(* the command purge_user).  The record of who did what is the submissions *)
(* that saving a unit leaves, the last submitter, commenter and reviewer   *)
(* of each unit (UnitChange) and the suggestions.  The command commits     *)
(* each statement: other users go on editing, it may be killed, and it may *)
(* be run again.                                                           *)
(*                                                                         *)
(* A submission is known by its unit, its field and the time of the save.  *)
(* Scores, muted checks and revisions are left out; the data of the Stores *)
(* is Statistics'.                                                         *)
(***************************************************************************)
EXTENDS StoreUnits

CONSTANTS
  Users,          \* who edits, Evil among them
  Evil,           \* whom the command removes
  System,         \* who is named in the place of a user that is gone
  Fuzzy,          \* whether what is submitted needs work: a set of BOOLEANs
  Imported,       \* the units of the file that the Store was made of
  MaxSaves,       \* how many saves of units a run has
  MaxSuggestions  \* how many suggestions are made in a run

ASSUME UsersAssumption ==
  Evil \in Users /\ System \notin Users /\ NULL \notin Users
ASSUME MaxAssumption == MaxSaves \in Nat /\ MaxSuggestions \in Nat

VARIABLES
  unit,        \* Unit, with the creator in its UnitSource
  change,      \* UnitChange of each unit, NULL if it has none
  subs,        \* Submission: the TARGET, COMMENT and STATE submissions
  suggestion,  \* Suggestion, NULL before it is made and after it is deleted
  clock,       \* the time of the next save
  step,        \* where the command is in UserPurger.purge, 0 if it does not run
  todo,        \* the rows that the query of the step returned, yet to be done
  job,         \* what is to be written of the row in hand, NULL if nothing is
  gone,        \* the user is deleted
  spoiled      \* units that TargetsReverted leaves out

vars == <<unit, change, subs, suggestion, clock, step, todo, job, gone, spoiled>>
records == <<unit, change, subs, suggestion>>
command == <<step, todo, job, gone>>

Ids == 1..MaxSuggestions
Times == 1..MaxSaves
Steps == <<"created", "submitted", "suggestions", "reviewed", "commented",
           "states", "rest", "user">>
Running(name) == step > 0 /\ Steps[step] = name
\* What of the unit the fields of UnitChange are about
FieldOf == [submitted |-> "target", reviewed |-> "state", commented |-> "comment"]

People == Users \cup {System}
\* origin: the target with which somebody other than Evil created the unit
LiveStates == States \ {OBSOLETE}
Row == [target : Target, comment : Comments, state : LiveStates,
        creator : People, origin : Target]
Change == [submitted : People \cup {NULL}, commented : People \cup {NULL},
           reviewed : People \cup {NULL}]
Sub(field, values) == [unit : Units, field : {field}, time : Times, by : Users,
                       new : values, suggestion : Ids \cup {NULL}]
Sugg == [unit : Units, user : Users, target : Texts,
         state : {"pending", "accepted", "rejected"},
         reviewer : People \cup {NULL}]
\* The unit that goes, or the field that is to be written and its UnitChange
Deletion == [unit : Units, field : {"created"}]
Writing(field, values) == [unit : Units, field : {field}, written : BOOLEAN,
                           by : Users \cup {NULL}, value : values]

ASSUME NullAssumption ==
  /\ NULL \notin Row /\ NULL \notin Change /\ NULL \notin Sugg /\ NULL \notin Ids
  /\ NULL \notin Deletion
  /\ NULL \notin Writing("submitted", Target)
  /\ NULL \notin Writing("commented", Comments)
  /\ NULL \notin Writing("reviewed", LiveStates)
ASSUME ImportedAssumption ==
  \A u \in Units : Imported[u] # NULL =>
    Imported[u] \in [target : Target, state : LiveStates]

Init ==
  /\ unit = [u \in Units |->
       IF Imported[u] = NULL THEN NULL
       ELSE [target |-> Imported[u].target, comment |-> "",
             state |-> Imported[u].state, creator |-> System,
             origin |-> Imported[u].target]]
  /\ change = [u \in Units |->
       IF Imported[u] = NULL \/ Imported[u].target = "" THEN NULL
       ELSE [submitted |-> System, commented |-> NULL, reviewed |-> NULL]]
  /\ subs = {} /\ suggestion = [i \in Ids |-> NULL] /\ clock = 1
  /\ step = 0 /\ todo = {} /\ job = NULL /\ gone = FALSE /\ spoiled = {}

-----------------------------------------------------------------------------
(* Requests.  Evil makes none while the command runs, nor afterwards. *)

Active(user) == user = Evil => step = 0 /\ ~gone

Kept(u) == IF change[u] # NULL THEN change[u]
           ELSE [submitted |-> NULL, commented |-> NULL, reviewed |-> NULL]

\* Unit.save of unit u as y by user, who is named as submitter, and what
\* handle_unit_change records of it.  i: the suggestion that is accepted.
Save(u, y, user, reviewer, i) ==
  LET x == unit[u]
      z == PreSave(x, y)
      target == z.target # x.target
      state == z.state # x.state
      comment == z.comment # x.comment
      submits == target \/ change[u] = NULL
      reviews == \/ reviewer # user
                 \/ state /\ ~target
                 \/ state /\ z.state = UNTRANSLATED
      sub(field, by) == [unit |-> u, field |-> field, time |-> clock, by |-> by,
                         new |-> z[field], suggestion |-> i]
  IN /\ clock <= MaxSaves
     /\ target \/ state \/ comment \/ reviewer # user
     /\ clock' = clock + 1
     /\ unit' = [unit EXCEPT ![u] = z]
     /\ change' = [change EXCEPT ![u] = [
          submitted |-> IF submits THEN user ELSE Kept(u).submitted,
          commented |-> IF comment THEN user ELSE Kept(u).commented,
          reviewed |-> IF reviews THEN reviewer ELSE Kept(u).reviewed]]
     /\ subs' = subs \cup (IF comment THEN {sub("comment", user)} ELSE {})
                     \cup (IF target THEN {sub("target", user)} ELSE {})
                     \cup (IF state THEN {sub("state", IF submits THEN user
                                                       ELSE reviewer)} ELSE {})
     /\ spoiled' = IF \/ job # NULL /\ job.unit = u
                      \/ step > 0 /\ user = Evil
                   THEN spoiled \cup {u} ELSE spoiled

\* SubmitForm.save_unit
Submit(user, u, text, fuzzy) ==
  /\ Active(user) /\ unit[u] # NULL
  /\ Save(u, [unit[u] EXCEPT !.target = text,
                !.state = CASE text = "" -> UNTRANSLATED
                            [] text # "" /\ fuzzy -> FUZZY
                            [] OTHER -> TRANSLATED], user, user, NULL)
  /\ UNCHANGED <<suggestion, command>>

\* UnitCommentForm.save
Comment(user, u, text) ==
  /\ Active(user) /\ unit[u] # NULL
  /\ Save(u, [unit[u] EXCEPT !.comment = text], user, user, NULL)
  /\ UNCHANGED <<suggestion, command>>

\* A file that is uploaded adds a unit.
Create(user, u, text) ==
  /\ Active(user) /\ unit[u] = NULL /\ clock <= MaxSaves
  /\ clock' = clock + 1
  /\ unit' = [unit EXCEPT ![u] = [
       target |-> text, comment |-> "", creator |-> user,
       state |-> IF text = "" THEN UNTRANSLATED ELSE TRANSLATED,
       origin |-> IF user = Evil THEN "" ELSE text]]
  /\ change' = [change EXCEPT ![u] =
       IF text = "" THEN NULL
       ELSE [submitted |-> user, commented |-> NULL, reviewed |-> NULL]]
  /\ UNCHANGED <<subs, suggestion, command, spoiled>>

\* SuggestionsReview.add
Suggest(user, u, text, i) ==
  /\ Active(user) /\ unit[u] # NULL
  /\ \A j \in Ids : (suggestion[j] = NULL) <=> (j >= i)
  /\ text # unit[u].target
  /\ \A j \in 1..(i - 1) : ~(/\ suggestion[j].unit = u /\ suggestion[j].target = text
                             /\ suggestion[j].state = "pending")
  /\ suggestion' = [suggestion EXCEPT ![i] = [
       unit |-> u, user |-> user, target |-> text, state |-> "pending",
       reviewer |-> NULL]]
  /\ UNCHANGED <<unit, change, subs, clock, command, spoiled>>

\* accept_suggestion, as it is or with another text: the one who suggested
\* submits, the reviewer reviews.
Accept(reviewer, i, text) ==
  /\ Active(reviewer)
  /\ suggestion[i] # NULL /\ suggestion[i].state = "pending"
  /\ LET s == suggestion[i]
         x == unit[s.unit]
         y == [x EXCEPT !.target = text,
                        !.state = IF @ = FUZZY THEN TRANSLATED ELSE @]
     IN \/ Save(s.unit, y, s.user, reviewer, i)
        \/ /\ y = x /\ s.user = reviewer
           /\ UNCHANGED <<unit, change, subs, clock, spoiled>>
  /\ suggestion' = [suggestion EXCEPT ![i].state = "accepted",
                                      ![i].reviewer = reviewer]
  /\ UNCHANGED command

\* reject_suggestion
Reject(reviewer, i) ==
  /\ Active(reviewer)
  /\ suggestion[i] # NULL /\ suggestion[i].state = "pending"
  /\ suggestion' = [suggestion EXCEPT ![i].state = "rejected",
                                      ![i].reviewer = reviewer]
  /\ LET u == suggestion[i].unit
     IN /\ change' = IF change[u] = NULL THEN change
                     ELSE [change EXCEPT ![u].reviewed = reviewer]
        /\ spoiled' = IF job # NULL /\ job.unit = u THEN spoiled \cup {u}
                      ELSE spoiled
  /\ UNCHANGED <<unit, subs, clock, command>>

-----------------------------------------------------------------------------
(* The command *)

Latest(S) == CHOOSE s \in S : \A r \in S : r.time <= s.time
Earliest(S) == CHOOSE s \in S : \A r \in S : s.time <= r.time
OfUnit(u, field) == {s \in subs : s.unit = u /\ s.field = field}
\* Mutant: the user's own are not excluded.
ByAll(u, field) == OfUnit(u, field)
ByOthers(u, field) == {s \in OfUnit(u, field) : s.by # Evil}

\* Deleting rows deletes those that refer to them.
\* Mutant: submissions stay.
CascadeNothing(S) == subs
Cascade(S) == {s \in subs : s.suggestion \notin S}
Without(S) == [i \in Ids |-> IF i \in S THEN NULL ELSE suggestion[i]]

Pending(s) == [s EXCEPT !.state = "pending", !.reviewer = NULL]

\* What the query of a step returns.  Rows of units come with the target.
Rows(name) ==
  CASE name = "created" ->
         {u \in Units : unit[u] # NULL /\ unit[u].creator = Evil}
    [] name \in DOMAIN FieldOf ->
         {[unit |-> u, target |-> unit[u].target] :
            u \in {v \in Units : change[v] # NULL /\ change[v][name] = Evil}}
    [] name = "suggestions" ->
         {s \in subs : s.by = Evil /\ s.suggestion # NULL /\ s.field # "state"}
    [] name = "states" -> {s \in subs : s.by = Evil /\ s.field = "state"}
    [] OTHER -> {}

Begin ==
  /\ step = 0 /\ ~gone
  /\ step' = 1 /\ todo' = Rows(Steps[1])
  /\ UNCHANGED <<records, clock, job, gone, spoiled>>

NextStep ==
  /\ step \in 1..6 /\ todo = {} /\ job = NULL
  /\ step' = step + 1 /\ todo' = Rows(Steps[step + 1])
  /\ UNCHANGED <<records, clock, job, gone, spoiled>>

\* remove_units_created: a unit goes unless somebody else has done something.
\* Mutant: whatever others have done.
LookCreatedAll(u) ==
  /\ Running("created") /\ job = NULL /\ u \in todo
  /\ todo' = todo \ {u}
  /\ job' = [unit |-> u, field |-> "created"]
  /\ UNCHANGED <<records, clock, step, gone, spoiled>>
LookCreated(u) ==
  /\ Running("created") /\ job = NULL /\ u \in todo
  /\ todo' = todo \ {u}
  /\ job' = IF \E s \in subs : s.unit = u /\ s.by # Evil THEN NULL
            ELSE [unit |-> u, field |-> "created"]
  /\ UNCHANGED <<records, clock, step, gone, spoiled>>

DeleteUnit ==
  /\ Running("created") /\ job # NULL
  /\ unit' = [unit EXCEPT ![job.unit] = NULL]
  /\ change' = [change EXCEPT ![job.unit] = NULL]
  /\ subs' = {s \in subs : s.unit # job.unit}
  /\ suggestion' = [i \in Ids |->
       IF suggestion[i] # NULL /\ suggestion[i].unit = job.unit THEN NULL
       ELSE suggestion[i]]
  /\ job' = NULL
  /\ UNCHANGED <<clock, step, todo, gone, spoiled>>

\* What a field goes back to: the last that somebody else made of it.
\* Mutant: the first.
FormerFirst(u, name, other) ==
  LET S == ByOthers(u, FieldOf[name])
  IN [unit |-> u, field |-> name, written |-> FALSE,
      by |-> IF S = {} THEN NULL ELSE Earliest(S).by,
      value |-> IF S = {} THEN other ELSE Earliest(S).new]
Former(u, name, other) ==
  LET S == ByOthers(u, FieldOf[name])
  IN [unit |-> u, field |-> name, written |-> FALSE,
      by |-> IF S = {} THEN NULL ELSE Latest(S).by,
      value |-> IF S = {} THEN other ELSE Latest(S).new]

\* revert_units_edited and revert_units_commented
Look(name, r) ==
  /\ Running(name) /\ job = NULL /\ r \in todo
  /\ todo' = todo \ {r}
  /\ job' = Former(r.unit, name, "")
  /\ UNCHANGED <<records, clock, step, gone, spoiled>>

\* revert_units_reviewed, the units.  The target is that of the query.  With
\* no state by others only the revision is new.
LookReviewed(r) ==
  /\ Running("reviewed") /\ job = NULL /\ r \in todo
  /\ todo' = todo \ {r}
  /\ suggestion' = [i \in Ids |->
       IF /\ suggestion[i] # NULL /\ suggestion[i].unit = r.unit
          /\ suggestion[i].reviewer = Evil
       THEN Pending(suggestion[i])
       ELSE suggestion[i]]
  /\ job' = CASE r.target = "" -> [unit |-> r.unit, field |-> "reviewed",
                                   written |-> FALSE, by |-> NULL,
                                   value |-> UNTRANSLATED]
              [] r.target # "" /\ ByOthers(r.unit, "state") # {} ->
                   Former(r.unit, "reviewed", UNTRANSLATED)
              [] OTHER -> NULL
  /\ UNCHANGED <<unit, change, subs, clock, step, gone, spoiled>>

WriteChange ==
  /\ job # NULL /\ ~Running("created") /\ ~job.written
  /\ change' = [change EXCEPT ![job.unit][job.field] = job.by]
  /\ job' = [job EXCEPT !.written = TRUE]
  /\ UNCHANGED <<unit, subs, suggestion, clock, step, todo, gone, spoiled>>

WriteUnit ==
  /\ job # NULL /\ ~Running("created") /\ job.written
  /\ unit' = [unit EXCEPT ![job.unit][FieldOf[job.field]] = job.value]
  /\ job' = NULL
  /\ UNCHANGED <<change, subs, suggestion, clock, step, todo, gone, spoiled>>

\* revert_units_reviewed, the reviews: a suggestion of the user's own goes.
RevertReview(r) ==
  /\ Running("suggestions") /\ r \in todo
  /\ todo' = todo \ {r}
  /\ LET i == r.suggestion
         own == {j \in {i} : suggestion[j] # NULL /\ suggestion[j].user = Evil}
     IN /\ subs' = Cascade(own) \ {r}
        /\ suggestion' =
             IF own = {} /\ suggestion[i] # NULL /\ suggestion[i].reviewer = Evil
             THEN [suggestion EXCEPT ![i] = Pending(@)]
             ELSE Without(own)
  /\ UNCHANGED <<unit, change, clock, step, job, gone, spoiled>>

\* revert_units_state_changed: no state is saved.  A submission that is not the
\* last of its unit is deleted, and the command fails over what is returned.
\* Mutant: it fails before it deletes one.
RevertStateChangeLate(r) ==
  /\ Running("states") /\ todo # {} /\ r = Earliest(todo)
  /\ IF r = Latest(OfUnit(r.unit, "state"))
     THEN todo' = todo \ {r} /\ subs' = subs \ {r} /\ UNCHANGED step
     ELSE step' = 0 /\ UNCHANGED <<todo, subs>>
  /\ UNCHANGED <<unit, change, suggestion, clock, job, gone, spoiled>>
RevertStateChange(r) ==
  /\ Running("states") /\ todo # {} /\ r = Earliest(todo)
  /\ subs' = subs \ {r}
  /\ IF r = Latest(OfUnit(r.unit, "state"))
     THEN todo' = todo \ {r} /\ UNCHANGED step
     ELSE step' = 0 /\ UNCHANGED todo
  /\ UNCHANGED <<unit, change, suggestion, clock, job, gone, spoiled>>

\* The remaining submissions and suggestions
DeleteRest ==
  /\ Running("rest")
  /\ LET own == {i \in Ids : suggestion[i] # NULL /\ suggestion[i].user = Evil}
     IN /\ subs' = {s \in Cascade(own) : s.by # Evil}
        /\ suggestion' = Without(own)
  /\ step' = step + 1
  /\ UNCHANGED <<unit, change, clock, todo, job, gone, spoiled>>

Named(x) == IF x = Evil THEN System ELSE x

\* User.delete: System takes the place of the user.
DeleteUser ==
  /\ Running("user")
  /\ unit' = [u \in Units |->
       IF unit[u] = NULL THEN NULL ELSE [unit[u] EXCEPT !.creator = Named(@)]]
  /\ change' = [u \in Units |->
       IF change[u] = NULL THEN NULL
       ELSE [f \in DOMAIN change[u] |-> Named(change[u][f])]]
  /\ suggestion' = [i \in Ids |->
       IF suggestion[i] = NULL THEN NULL
       ELSE [suggestion[i] EXCEPT !.reviewer = Named(@)]]
  /\ gone' = TRUE /\ step' = 0
  /\ UNCHANGED <<subs, clock, todo, job, spoiled>>

\* The command is killed, or the database fails.
Kill ==
  /\ step > 0
  /\ step' = 0 /\ todo' = {} /\ job' = NULL
  /\ spoiled' = IF job # NULL /\ ~Running("created") /\ job.written
                THEN spoiled \cup {job.unit} ELSE spoiled
  /\ UNCHANGED <<records, clock, gone>>

Purge ==
  \/ NextStep \/ DeleteUnit \/ WriteChange \/ WriteUnit
  \/ DeleteRest \/ DeleteUser
  \/ \E u \in Units : LookCreated(u)
  \/ \E r \in todo : \/ \E name \in {"submitted", "commented"} : Look(name, r)
                     \/ LookReviewed(r) \/ RevertReview(r) \/ RevertStateChange(r)

Request(user) ==
  \/ \E u \in Units : \/ \E text \in Target : \/ Create(user, u, text)
                                              \/ \E f \in Fuzzy :
                                                   Submit(user, u, text, f)
                      \/ \E text \in Comments : Comment(user, u, text)
                      \/ \E text \in Texts, i \in Ids : Suggest(user, u, text, i)
  \/ \E i \in Ids : Reject(user, i) \/ \E text \in Texts : Accept(user, i, text)

Next == Begin \/ Purge \/ Kill \/ \E user \in Users : Request(user)

Spec == Init /\ [][Next]_vars
\* The command goes on while it runs, and is run again until the user is gone.
FairSpec == Spec /\ WF_vars(Begin) /\ WF_vars(Purge)

-----------------------------------------------------------------------------
(* Properties *)

\* The types, and what the database's keys hold: submissions and suggestions
\* are of units that exist, and nothing names a user that is gone.
TypeOK ==
  /\ unit \in [Units -> Row \cup {NULL}]
  /\ change \in [Units -> Change \cup {NULL}]
  /\ \A s \in subs : /\ s.field \in {"target", "comment", "state"}
                     /\ CASE s.field = "target" -> s \in Sub("target", Target)
                          [] s.field = "comment" -> s \in Sub("comment", Comments)
                          [] s.field = "state" -> s \in Sub("state", LiveStates)
  /\ suggestion \in [Ids -> Sugg \cup {NULL}]
  /\ clock \in 1..(MaxSaves + 1) /\ step \in 0..8
  /\ job # NULL => /\ step \in {1, 2, 4, 5}
                   /\ CASE step = 1 -> job \in Deletion
                        [] step = 2 -> job \in Writing("submitted", Target)
                        [] step = 4 -> job \in Writing("reviewed", LiveStates)
                        [] step = 5 -> job \in Writing("commented", Comments)
  /\ gone \in BOOLEAN /\ spoiled \subseteq Units
  /\ \A s \in subs : /\ unit[s.unit] # NULL
                     /\ s.suggestion # NULL => suggestion[s.suggestion] # NULL
  /\ \A u \in Units : unit[u] = NULL => change[u] = NULL
  /\ \A i \in Ids : suggestion[i] # NULL => unit[suggestion[i].unit] # NULL
  /\ gone => /\ \A s \in subs : s.by # Evil
             /\ \A i \in Ids : suggestion[i] # NULL =>
                  Evil \notin {suggestion[i].user, suggestion[i].reviewer}
             /\ \A u \in Units : unit[u] # NULL => unit[u].creator # Evil

\* What the field of a unit is when Evil is gone: what somebody else made of it
\* last, or else empty or as it first was.
Reverted(u, field, first) ==
  IF ByOthers(u, field) # {}
  THEN unit[u][field] = Latest(ByOthers(u, field)).new
  ELSE unit[u][field] \in {"", first}

\* When the user is gone, after however many runs of the command that failed or
\* were killed (UserPurger.revert_units_edited), no target is the user's: each is
\* the last that others submitted, whatever else of the unit they changed since.
\* Left out are units that the command was killed over between its two writes,
\* those that somebody saved in the middle of them, and those for which somebody
\* accepted a suggestion of the user's while the command was running.
TargetsReverted ==
  gone => \A u \in Units \ spoiled :
            unit[u] # NULL => Reverted(u, "target", unit[u].origin)

\* The same of the comments (UserPurger.revert_units_commented).
CommentsReverted ==
  gone => \A u \in Units \ spoiled : unit[u] # NULL => Reverted(u, "comment", "")

\* No step of the command deletes a target or comment that others submitted
\* (remove_units_created, and the suggestions that revert_units_reviewed deletes
\* with their submissions), but for a unit that is edited as it is deleted.
OthersKept ==
  [][Purge => \A s \in subs :
       s.by # Evil /\ s.field # "state" => s \in subs' \/ s.unit \in spoiled]_vars

\* Unless it is killed for ever, the command ends with the user deleted, if it is
\* run again whenever it fails: each failure of revert_units_state_changed has
\* one submission less to fail over.
PurgeEnds == <>[][~Kill]_vars => <>gone

\* "State is be back to how it was before evil user updated."
\* (tests/models/user.py:165): where the command has emptied the target the unit
\* is untranslated, as before.
StateReverted ==
  gone => \A u \in Units \ spoiled :
            unit[u] # NULL /\ unit[u].target = "" => unit[u].state = UNTRANSLATED
=============================================================================
