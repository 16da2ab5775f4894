----------------------------- MODULE StoreUpdate -----------------------------
(***************************************************************************)
(* Store.update: a Store takes over the changes that a file made since a   *)
(* revision they both come from (pootle_store/updater.py, diff.py).  A     *)
(* three-way merge, unit by unit, of the file, the Store, and the Store as *)
(* it was at that revision.  Pure operators.                               *)
(*                                                                         *)
(* x is a unit of the Store, new the unit of the file, old the unit of the *)
(* version; since is the revision of the version, wins the side that wins  *)
(* a conflict.                                                             *)
(***************************************************************************)
EXTENDS StoreUnits

Sides == {"pootle", "source"}

-----------------------------------------------------------------------------
(* UnitUpdater *)

Obsolete(x) == x.state = OBSOLETE

\* The comment is compared with the old one only if it is empty: the
\* expression reads (comment or "") != old with the parentheses left out.
DbCommentUpdated(x, old) ==
  old = NULL \/ x.comment # "" \/ old.comment # ""
DbStateUpdated(x, old) ==
  old # NULL => \/ (x.state = FUZZY) # old.fuzzy
                \/ (x.state = TRANSLATED) # IsTranslated(old)
                \/ Obsolete(x) # old.obsolete
DbTargetUpdated(x, old) == old # NULL => x.target # old.target

FsCommentUpdated(new, old) == old # NULL => new.comment # old.comment
FsStateUpdated(new, old) ==
  old # NULL => \/ new.fuzzy # old.fuzzy
                \/ IsTranslated(new) # IsTranslated(old)
                \/ new.obsolete # old.obsolete
FsTargetUpdated(new, old) == old # NULL => new.target # old.target

CommentConflictFound(x, new, old) ==
  FsCommentUpdated(new, old) /\ DbCommentUpdated(x, old)
StateConflictFound(x, new, old) ==
  FsStateUpdated(new, old) /\ DbStateUpdated(x, old)
TargetConflictFound(x, new, old) ==
  FsTargetUpdated(new, old) /\ DbTargetUpdated(x, old) /\ new.target # x.target

ShouldUpdateComment(x, new, old, wins) ==
  /\ FsCommentUpdated(new, old)
  /\ ~(CommentConflictFound(x, new, old) /\ wins = "pootle")
\* Mutant: the file wins every conflict.
ShouldUpdateTargetAlways(x, new, old, wins) ==
  FsTargetUpdated(new, old) /\ new.target # x.target
ShouldUpdateTarget(x, new, old, wins) ==
  /\ FsTargetUpdated(new, old) /\ new.target # x.target
  /\ ~(TargetConflictFound(x, new, old) /\ wins = "pootle")
ShouldUpdateState(x, new, old, wins) ==
  /\ FsStateUpdated(new, old)
  /\ ~(DbTargetUpdated(x, old) /\ ~ShouldUpdateTarget(x, new, old, wins))
  /\ ~(StateConflictFound(x, new, old) /\ wins = "pootle")
ShouldUnobsolete(x, new, since, wins) ==
  /\ Obsolete(x) /\ ~new.obsolete
  /\ ~(x.revision > since /\ wins = "pootle")
NeedUpdate(x, new, old, since, wins) ==
  \/ ShouldUnobsolete(x, new, since, wins)
  \/ ShouldUpdateTarget(x, new, old, wins)
  \/ ShouldUpdateState(x, new, old, wins)
  \/ ShouldUpdateComment(x, new, old, wins)

\* Unit.update makes the unit the same as that of the file in everything,
\* whichever part called for it.
UnitUpdate(x, new) ==
  LET copied == [x EXCEPT !.target = new.target, !.comment = new.comment]
      marked == IF (copied.state = FUZZY) # new.fuzzy
                THEN MarkFuzzy(copied, new.fuzzy) ELSE copied
  IN CASE Obsolete(marked) = new.obsolete -> marked
       [] ~Obsolete(marked) /\ new.obsolete -> MakeObsolete(marked)
       [] Obsolete(marked) /\ ~new.obsolete -> Resurrect(marked, new.fuzzy)

\* update_unit: the unit, saved at revision if it was updated.
UpdatedUnit(x, new, old, since, wins, revision) ==
  IF NeedUpdate(x, new, old, since, wins) /\ Convert(x) # new
  THEN [PreSave(x, UnitUpdate(x, new)) EXCEPT !.revision = revision]
  ELSE x

\* Mutant: an empty target is suggested.
SuggestibleEmpty(u, x, text) == IF text = x.target THEN {} ELSE {<<u, text>>}
\* SuggestionsReview.add: nothing that is empty, the target already, or
\* pending already.
Suggestible(u, x, text) ==
  IF text = "" \/ text = x.target THEN {} ELSE {<<u, text>>}

\* should_create_suggestion, create_suggestion: the target that lost the
\* conflict.  Of a unit that comes back from obsolete the conflict is looked
\* for only after the update, when there is none.
Suggested(u, x, new, old, since, wins) ==
  IF TargetConflictFound(x, new, old) /\ ~ShouldUnobsolete(x, new, since, wins)
  THEN Suggestible(u, UpdatedUnit(x, new, old, since, wins, 0),
                   IF wins = "pootle" THEN new.target ELSE x.target)
  ELSE {}

-----------------------------------------------------------------------------
(* StoreDiff.  data is the max_unit_revision of StoreData. *)

In(f) == {u \in Units : f[u] # NULL}
Active(rows) == {u \in Units : Live(rows[u])}
\* obsoleted_target_units
ObsoletedSince(rows, since) ==
  {u \in In(rows) : Obsolete(rows[u]) /\ rows[u].revision > since}

UnitsToAdd(rows, file) == In(file) \ In(rows)
UnitsToObsolete(rows, file) ==
  {u \in Active(rows) : file[u] = NULL \/ (file[u] # NULL /\ file[u].obsolete)}
\* Units that differ from the file, and obsolete units that the file has but
\* for those made obsolete since.
UnitsToUpdate(rows, data, file, since) ==
  {u \in In(rows) \cap In(file) :
     \/ Live(rows[u]) /\ Convert(rows[u]) # file[u]
     \/ Obsolete(rows[u]) /\ (since >= data \/ u \notin ObsoletedSince(rows, since))}

-----------------------------------------------------------------------------
(* StoreUpdater *)

\* addunit: a new unit leaves no submission.
AddedUnit(f, revision) ==
  LET blank == [target |-> "", comment |-> "", state |-> UNTRANSLATED,
                revision |-> revision, creation_revision |-> revision]
  IN PreSave(blank, UnitUpdate(blank, f))

\* Mutant: all that the file does not have becomes obsolete.
UnitsObsoletedAll(rows, toUpdate, file, old, since, wins) ==
  UnitsToObsolete(rows, file)
\* Mutant: a unit that Pootle changed since becomes obsolete.
UnitsObsoletedChanged(rows, toUpdate, file, old, since, wins) ==
  {u \in UnitsToObsolete(rows, file) : old[u] # NULL}
\* mark_units_obsolete: not those that the version does not have.  If Pootle
\* wins, not those changed since, nor those that are to be updated.
UnitsObsoleted(rows, toUpdate, file, old, since, wins) ==
  {u \in UnitsToObsolete(rows, file) :
     /\ old[u] # NULL
     /\ wins = "pootle" => u \notin toUpdate /\ rows[u].revision <= since}

\* The units of the Store with those the file adds and removes.
WithStructure(rows, toUpdate, file, old, since, wins, revision) ==
  [u \in Units |->
     IF u \in UnitsToAdd(rows, file) THEN AddedUnit(file[u], revision)
     ELSE IF u \in UnitsObsoleted(rows, toUpdate, file, old, since, wins)
     THEN [MakeObsolete(rows[u]) EXCEPT !.revision = revision]
     ELSE rows[u]]

\* update_from_diff.  A unit that it leaves alone but that is later than since
\* gets a revision after that of the update: it is still to be synced.  saved
\* says whether StoreData is recomputed, for which a unit was saved or a
\* suggestion made; moved, whether units may have been saved for their place
\* in the Store, which is not modelled.
UpdateFromDiff(rows, subs, sugg, data, file, since, wins, allow, revision) ==
  LET old == AtRevision(rows, subs, since)
      toUpdate == UnitsToUpdate(rows, data, file, since)
      structured ==
        IF allow THEN WithStructure(rows, toUpdate, file, old, since, wins, revision)
        ELSE rows
      updated ==
        [u \in Units |->
           IF u \in toUpdate
           THEN UpdatedUnit(structured[u], file[u], old[u], since, wins, revision)
           ELSE structured[u]]
      unsynced(x) == Live(x) /\ x.revision > since /\ x.revision < revision
      losers == (UNION {Suggested(u, structured[u], file[u], old[u], since, wins) :
                          u \in toUpdate}) \ sugg
  IN [rows |-> [u \in Units |-> IF unsynced(updated[u])
                                THEN [updated[u] EXCEPT !.revision = revision + 1]
                                ELSE updated[u]],
      subs |-> UNION {Submissions(u, rows[u], updated[u]) : u \in In(rows)},
      suggested |-> losers,
      saved |-> updated # rows \/ losers # {},
      moved |-> /\ allow
                /\ \/ \E u \in toUpdate : Obsolete(rows[u])
                   \/ \E u \in Active(rows) : file[u] = NULL,
      revision |-> revision + 1]

HasChanges(rows, data, file, since) ==
  \/ UnitsToAdd(rows, file) # {}
  \/ UnitsToObsolete(rows, file) # {}
  \/ UnitsToUpdate(rows, data, file, since) # {}

\* StoreUpdater.update, rev being the global revision counter.  Without a
\* difference it draws no revision.
Update(rows, subs, sugg, data, file, since, wins, allow, rev) ==
  IF HasChanges(rows, data, file, since)
  THEN UpdateFromDiff(rows, subs, sugg, data, file, since, wins, allow, rev + 1)
  ELSE [rows |-> rows, subs |-> {}, suggested |-> {}, saved |-> FALSE,
        moved |-> FALSE, revision |-> rev]
=============================================================================
