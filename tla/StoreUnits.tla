------------------------------ MODULE StoreUnits ------------------------------
(***************************************************************************)
(* The units of one Store (pootle_store/models.py), what saving a unit     *)
(* records of it (pootle_store/receivers.py, utils.py), the file a Store   *)
(* is exported to (syncer.py) and the Store as it was at an earlier        *)
(* revision, which is rebuilt from the record (versioned.py).  Pure        *)
(* operators.                                                              *)
(*                                                                         *)
(* Of a unit: its target, its translator comment, its state, its revision  *)
(* and the revision it was created at.  Its source, locations, context and *)
(* developer comment are the file's and Pootle does not edit them; order   *)
(* and plural forms are left out.                                          *)
(***************************************************************************)
EXTENDS Integers, FiniteSets

CONSTANTS
  Units,    \* the unitids that the Store and its files may have
  Texts,    \* what a target may be, other than empty
  Comments, \* what a translator comment may be, with the empty one
  NULL      \* no unit

ASSUME TextsAssumption == "" \notin Texts /\ "" \in Comments /\ IsFiniteSet(Units)

OBSOLETE == -100
UNTRANSLATED == 0
FUZZY == 50
TRANSLATED == 200
States == {OBSOLETE, UNTRANSLATED, FUZZY, TRANSLATED}

Target == Texts \cup {""}
Unit == [target : Target, comment : Comments, state : States,
         revision : Nat, creation_revision : Nat]
FileUnit == [target : Target, comment : Comments,
             fuzzy : BOOLEAN, obsolete : BOOLEAN]
\* The TARGET and STATE submissions of one save of a unit.  Only their values
\* before and after matter, and no comment is ever read back from one.
Submission == [unit : Units, revision : Nat,
               old : [target : Target, state : States],
               new : [target : Target, state : States]]
\* The units of the Store and of a file
StoreUnit == [Units -> Unit \cup {NULL}]
File == [Units -> FileUnit \cup {NULL}]

Live(x) == x # NULL /\ x.state > OBSOLETE
Largest(S) == CHOOSE n \in S : \A m \in S : n >= m
MaxUnitRevision(rows) ==
  Largest({0} \cup {rows[u].revision : u \in {w \in Units : rows[w] # NULL}})

-----------------------------------------------------------------------------
(* Saving a unit.  x is the unit as it was loaded, y as it is saved. *)

\* Unit.updated
Updated(x, y) ==
  x.target # y.target \/ x.state # y.state \/ x.comment # y.comment

\* handle_unit_pre_save: the state follows a new target.
PreSave(x, y) ==
  IF y.target = x.target THEN y
  ELSE IF y.target # "" /\ y.state = UNTRANSLATED
  THEN [y EXCEPT !.state = TRANSLATED]
  ELSE IF y.target = "" /\ y.state > FUZZY
  THEN [y EXCEPT !.state = UNTRANSLATED]
  ELSE y

\* UnitLifecycle.change: the submissions that the save of unit u leaves.
Submissions(u, x, y) ==
  IF x.target = y.target /\ x.state = y.state THEN {}
  ELSE {[unit |-> u, revision |-> y.revision,
         old |-> [target |-> x.target, state |-> x.state],
         new |-> [target |-> y.target, state |-> y.state]]}

MarkFuzzy(x, value) ==
  CASE x.state <= OBSOLETE -> x
    [] x.state > OBSOLETE /\ value -> [x EXCEPT !.state = FUZZY]
    [] OTHER -> IF x.state > FUZZY THEN x
                ELSE [x EXCEPT !.state = IF x.target # "" THEN TRANSLATED
                                         ELSE UNTRANSLATED]
MakeObsolete(x) == [x EXCEPT !.state = OBSOLETE]
Resurrect(x, fuzzy) ==
  [x EXCEPT !.state = CASE x.target = "" -> UNTRANSLATED
                        [] x.target # "" /\ fuzzy -> FUZZY
                        [] OTHER -> TRANSLATED]

-----------------------------------------------------------------------------
(* Files *)

IsTranslated(f) == f.target # "" /\ ~f.fuzzy /\ ~f.obsolete

\* UnitSyncer.convert
Convert(x) == [target |-> x.target, comment |-> x.comment,
               fuzzy |-> x.state = FUZZY, obsolete |-> x.state = OBSOLETE]

\* StoreSyncer.convert exports the units that are not obsolete.
Exported(rows) ==
  [u \in Units |-> IF Live(rows[u]) THEN Convert(rows[u]) ELSE NULL]

-----------------------------------------------------------------------------
(* VersionedStore *)

\* What a submission changed, and the first to change it after a revision.
Changes(sub, field) == sub.old[field] # sub.new[field]
Later(subs, u, field, revision) ==
  {s \in subs : s.unit = u /\ s.revision > revision /\ Changes(s, field)}
\* Mutant: the last submission is reverted.
LastChange(subs, u, field, revision) ==
  CHOOSE s \in Later(subs, u, field, revision) :
    \A t \in Later(subs, u, field, revision) : s.revision >= t.revision
FirstChange(subs, u, field, revision) ==
  CHOOSE s \in Later(subs, u, field, revision) :
    \A t \in Later(subs, u, field, revision) : s.revision <= t.revision

\* _revert_state undoes what one submission did, not what later ones did.
RevertState(f, sub) ==
  CASE sub.old.state = FUZZY -> [f EXCEPT !.fuzzy = TRUE]
    [] sub.old.state = OBSOLETE -> [f EXCEPT !.obsolete = TRUE]
    [] sub.old.state \in {UNTRANSLATED, TRANSLATED} ->
         [f EXCEPT !.fuzzy = IF sub.new.state = FUZZY THEN FALSE ELSE @,
                   !.obsolete = IF sub.new.state = OBSOLETE THEN FALSE ELSE @]

\* at_revision: comments are as they are now, obsolete units are included.
AtRevision(rows, subs, revision) ==
  [u \in Units |->
     IF rows[u] = NULL \/ rows[u].creation_revision > revision THEN NULL
     ELSE LET now == Convert(rows[u])
              targetOf(f) ==
                IF Later(subs, u, "target", revision) = {} THEN f
                ELSE [f EXCEPT !.target =
                        FirstChange(subs, u, "target", revision).old.target]
              stateOf(f) ==
                IF Later(subs, u, "state", revision) = {} THEN f
                ELSE RevertState(f, FirstChange(subs, u, "state", revision))
          IN targetOf(stateOf(now))]
=============================================================================
