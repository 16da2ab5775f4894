-------------------------------- MODULE FSFile --------------------------------
(***************************************************************************)
(* What pulling a file into its Store and pushing a Store to its file do   *)
(* (pootle_fs/files.py), with the update of a Store from a file            *)
(* (pootle_store/updater.py) and of a file from a Store                    *)
(* (pootle_store/syncer.py).  Pure operators: rev is the value of the      *)
(* global revision counter when the operation starts.                      *)
(*                                                                         *)
(* Store and file have the same units, and a unit is its target: adding    *)
(* and obsoleting units, the state of a unit and its comment (whose update *)
(* takes the target along, updater.py:272-280) are left out.               *)
(***************************************************************************)
EXTENDS FSState

\* The signal update_data recomputes the StoreData of a Store.
UpdateData(s) == [s EXCEPT !.max_unit_revision = MaxUnitRevision(s)]

-----------------------------------------------------------------------------
(* StoreUpdater *)

\* fs_target_updated, db_target_updated and target_conflict_found of a unit:
\* new and old are the units of the file and of the last synced version of
\* the Store, NULL when it had none.
FsUpdated(new, old, u) == old = NULL \/ new[u] # old[u]
DbUpdated(s, old, u) == old = NULL \/ s.val[u] # old[u]
ConflictFound(s, new, old, u) ==
  FsUpdated(new, old, u) /\ DbUpdated(s, old, u) /\ new[u] # s.val[u]
ShouldUpdate(s, new, old, wins, u) ==
  /\ FsUpdated(new, old, u) /\ new[u] # s.val[u]
  /\ ~(ConflictFound(s, new, old, u) /\ wins = "pootle")

\* Mutant: the side that wins a conflict is suggested.
WinnerSuggested(s, new, old, wins) ==
  {<<u, IF wins = "pootle" THEN s.val[u] ELSE new[u]>> :
     u \in {w \in Units : ConflictFound(s, new, old, w)}}
\* should_create_suggestion: the side that loses a conflict is suggested
ConflictSuggestions(s, new, old, wins) ==
  {<<u, IF wins = "pootle" THEN new[u] ELSE s.val[u]>> :
     u \in {w \in Units : ConflictFound(s, new, old, w)}}

\* The outcome of an operation: the Store, its pending suggestions, the
\* revision counter and what the operation returns.
Outcome(s, sugg, rev, ret) ==
  [store |-> s, suggested |-> sugg, revision |-> rev, ret |-> ret]

\* Mutant: StoreData is not recomputed.
AddUnitsStale(s, sugg, new, rev) ==
  Outcome([s EXCEPT !.val = new, !.rev = [u \in Units |-> rev + 1]],
          sugg, rev + 2, rev + 1)

\* The Store has no units: all are added.
AddUnits(s, sugg, new, rev) ==
  Outcome(UpdateData([s EXCEPT !.val = new, !.rev = [u \in Units |-> rev + 1]]),
          sugg, rev + 2, rev + 1)

\* Mutant: the later revision is not drawn from the counter.
UpdateUnitsUndrawn(s, sugg, new, old, since, wins, rev) ==
  LET updated == {u \in Units : ShouldUpdate(s, new, old, wins, u)}
      sugg2 == sugg \cup ConflictSuggestions(s, new, old, wins)
      s2 == [s EXCEPT
               !.val = [u \in Units |-> IF u \in updated THEN new[u] ELSE @[u]],
               !.rev = [u \in Units |-> IF u \in updated THEN rev + 1
                                        ELSE IF @[u] > since THEN rev + 2
                                        ELSE @[u]]]
  IN Outcome(UpdateData(s2), sugg2, rev + 1, rev + 1)

\* Every updated unit gets the revision of the update.  Of the others, those
\* changed in Pootle after since get a later one, by a queryset update that
\* sends no signal: StoreData is only recomputed when a unit was saved or a
\* suggestion added.
UpdateUnits(s, sugg, new, old, since, wins, rev) ==
  LET updated == {u \in Units : ShouldUpdate(s, new, old, wins, u)}
      sugg2 == sugg \cup ConflictSuggestions(s, new, old, wins)
      s2 == [s EXCEPT
               !.val = [u \in Units |-> IF u \in updated THEN new[u] ELSE @[u]],
               !.rev = [u \in Units |-> IF u \in updated THEN rev + 1
                                        ELSE IF @[u] > since THEN rev + 2
                                        ELSE @[u]]]
  IN Outcome(IF updated # {} \/ sugg2 # sugg THEN UpdateData(s2) ELSE s2,
             sugg2, rev + 2, rev + 1)

\* Store.update: without a difference there is no update revision.
UpdateStore(s, sugg, new, old, since, wins, rev) ==
  IF s.val = NULL THEN AddUnits(s, sugg, new, rev)
  ELSE IF s.val = new THEN Outcome(s, sugg, rev, NULL)
  ELSE UpdateUnits(s, sugg, new, old, since, wins, rev)

-----------------------------------------------------------------------------
(* FSFile *)

\* Store.resurrect
Resurrect(s) ==
  UpdateData([s EXCEPT !.st = "live",
                       !.last_sync_revision =
                          IF @ = NULL THEN s.max_unit_revision ELSE @])

\* Mutant: a new Store is not saved.
StoreToPullUnsaved(s) == IF s.st = "obsolete" THEN Resurrect(s) ELSE s

\* create_store gets the Store of the path or creates it, without units.
StoreToPull(s) ==
  CASE s.st = "none" -> EmptyStore
    [] s.st = "obsolete" -> Resurrect(s)
    [] OTHER -> s

\* A pull is skipped when the file has the hash of the last sync.
PullSkipped(r, f) == r.fk /\ f.mtime = r.last_sync_hash

\* A merge goes back to the version of the last sync; any other pull gives a
\* revision that nothing in the Store is later than.
Pull(r, s, sugg, f, merge, wins, rev) ==
  LET s1 == StoreToPull(s)
  IN IF PullSkipped(r, f) THEN Outcome(s, sugg, rev, NULL)
     ELSE IF f.val = NULL THEN Outcome(s1, sugg, rev, NULL)
     ELSE IF merge
          THEN UpdateStore(s1, sugg, f.val, r.base,
                           IF r.last_sync_revision = NULL THEN 0
                           ELSE r.last_sync_revision,
                           wins, rev)
     ELSE UpdateStore(s1, sugg, f.val, s1.val, rev + 1, wins, rev)

\* Mutant: a file that is there is never written.
PushMissingOnly(r, s, f) == ~r.fk \/ f.mtime # NULL

\* FSFile.pootle_changed asks StoreData, where the state asks the units.
PushSkipped(r, s, f) ==
  ~r.fk \/ (f.mtime # NULL /\ s.max_unit_revision = r.last_sync_revision)

\* Mutant: the newest unit is taken for pushed.
PushedUnitButNewest(s, u) ==
  /\ s.rev[u] < s.max_unit_revision
  /\ s.last_sync_revision # NULL => s.rev[u] > s.last_sync_revision

\* The syncer writes the units later than the Store's own last_sync_revision;
\* a file that does not exist or has no units starts as a copy of the Store.
PushedUnit(s, u) ==
  /\ s.rev[u] <= s.max_unit_revision
  /\ s.last_sync_revision # NULL => s.rev[u] > s.last_sync_revision
PushContent(s, f) ==
  IF f.val = NULL THEN s.val
  ELSE IF s.val = NULL THEN f.val
  ELSE [u \in Units |-> IF PushedUnit(s, u) THEN s.val[u] ELSE f.val[u]]
=============================================================================
