-------------------------------- MODULE FSState --------------------------------
(***************************************************************************)
(* The data of Pootle FS and the state it computes for a project           *)
(* (pootle_fs/abstracts.py, resources.py, state.py).                       *)
(*                                                                         *)
(* Every pootle_path of the project has one file path, so one Path stands  *)
(* for both.  Content is abstracted to one value per translation unit of a *)
(* fixed set of units; the units a Store or a file gains or loses are the  *)
(* business of the update of a Store.                                      *)
(***************************************************************************)
EXTENDS Integers, FiniteSets

CONSTANTS
  Paths,  \* the translatable paths of the project
  Units,  \* the translation units of every Store and file
  Vals,   \* the targets a unit may have
  NULL    \* SQL NULL / None

Content == [Units -> Vals]

ASSUME UnitsAssumption == IsFiniteSet(Units) /\ Units # {}
ASSUME NullAssumption == /\ NULL \notin Nat /\ NULL \notin Vals
                         /\ NULL \notin Content /\ NULL \notin [Units -> Nat]

-----------------------------------------------------------------------------
(* Stores, files and rows *)

\* val and rev are NULL when the Store has no units.  max_unit_revision is
\* the one StoreData caches, last_sync_revision the Store's own.
Store == {s \in [st : {"none", "live", "obsolete"},
                 val : Content \cup {NULL},
                 rev : [Units -> Nat] \cup {NULL},
                 max_unit_revision : Nat,
                 last_sync_revision : Nat \cup {NULL}] :
            /\ s.val = NULL <=> s.rev = NULL
            /\ s.st = "none" => s.val = NULL}
NoStore == [st |-> "none", val |-> NULL, rev |-> NULL,
            max_unit_revision |-> 0, last_sync_revision |-> NULL]
EmptyStore == [NoStore EXCEPT !.st = "live"]

\* Max("store__unit__revision"), 0 when there are no units
IsNewest(s, u) == \A w \in Units : s.rev[w] <= s.rev[u]
MaxUnitRevision(s) ==
  IF s.val # NULL /\ \E u \in Units : IsNewest(s, u)
  THEN s.rev[CHOOSE u \in Units : IsNewest(s, u)] ELSE 0

\* No revision of a Store is later than n.
RevBelow(rev, n) == rev # NULL => rev <= n
StoreBelow(s, n) ==
  /\ s.max_unit_revision <= n /\ RevBelow(s.last_sync_revision, n)
  /\ s.rev # NULL => \A u \in Units : s.rev[u] <= n

\* A file without units has content NULL and a modification time.
File == [val : Content \cup {NULL}, mtime : Nat \cup {NULL}]
NoFile == [val |-> NULL, mtime |-> NULL]

\* A StoreFS row.  pk tells the rows of a path apart, it numbers the command
\* that created the row.  fk: the foreign key to the Store of the path is set.
\* base: the units of the Store at revision last_sync_revision, which the
\* code recovers from the submissions (pootle_store/versioned.py).
\* resolve_conflict 0 and NULL behave alike and are "none".
Pk == Paths \X Nat
Row == {r \in [pk : Pk, path : Paths, fk : BOOLEAN,
               last_sync_revision : Nat \cup {NULL},
               last_sync_hash : Nat \cup {NULL},
               base : Content \cup {NULL},
               staged_for_removal : BOOLEAN,
               staged_for_merge : BOOLEAN,
               resolve_conflict : {"none", "pootle", "fs"}] :
          r.path = r.pk[1]}
Pks(X) == {r.pk : r \in X}

-----------------------------------------------------------------------------
(* What there is.  v is a view of the project: its rows, Stores and files,   *)
(* the paths that a listing of the files has found and those that have a row *)

NotStaged(r) == ~r.staged_for_removal /\ ~r.staged_for_merge
Synced(v) == {r \in v.rows : /\ r.last_sync_revision # NULL
                             /\ r.last_sync_hash # NULL /\ NotStaged(r)}
Unsynced(v) == {r \in v.rows : /\ r.last_sync_revision = NULL
                               /\ r.last_sync_hash = NULL /\ NotStaged(r)}
TrackedPaths(R) == {r.path : r \in R}
\* Stores that are not obsolete and have no row
Trackable(v) == {p \in Paths : /\ v.store[p].st = "live"
                               /\ \A r \in v.rows : r.path = p => ~r.fk}
Live(v, r) == r.fk /\ v.store[r.path].st = "live"
ExistingFiles(f) == {p \in Paths : f[p].mtime # NULL}
Found(v, p) == p \in v.found
Missing(v, p) == p \in v.tracked \ v.found
FSChanged(v, r) == v.file[r.path].mtime # r.last_sync_hash
PootleChanged(v) ==
  {r \in Synced(v) :
     /\ Live(v, r)
     /\ v.store[r.path].val # NULL
     /\ MaxUnitRevision(v.store[r.path]) # r.last_sync_revision}

-----------------------------------------------------------------------------
(* The states of state.py *)

\* Mutant: a file whose row has lost its Store counts as untracked.
FsUntrackedByStore(v) == v.found \ Trackable(v)
FsUntracked(v) == v.found \ (v.tracked \cup Trackable(v))
PootleUntracked(v) == {p \in Trackable(v) : ~Found(v, p)}
ConflictUntracked(v) == {p \in Trackable(v) : Found(v, p)}

\* Mutant: a conflict needs a file.
ConflictWithFile(v) ==
  {r \in PootleChanged(v) : /\ r.resolve_conflict = "none" /\ FSChanged(v, r)
                            /\ Found(v, r.path)}
Conflict(v) == {r \in PootleChanged(v) :
                  r.resolve_conflict = "none" /\ FSChanged(v, r)}
\* Mutant: a change of the Store does not keep the file from being pulled.
FsAheadOfAll(v) ==
  {r \in Synced(v) : Live(v, r) /\ Found(v, r.path) /\ FSChanged(v, r)}
FsAhead(v) ==
  {r \in Synced(v) : /\ Live(v, r) /\ Found(v, r.path) /\ FSChanged(v, r)
                     /\ r \in PootleChanged(v) => r.resolve_conflict = "fs"}
PootleAhead(v) ==
  {r \in PootleChanged(v) : FSChanged(v, r) => r.resolve_conflict = "pootle"}

FsStaged(v) ==
  {r \in Unsynced(v) : ~Missing(v, r.path) /\ r.resolve_conflict # "pootle"}
  \cup {r \in Synced(v) : /\ ~Live(v, r) /\ ~Missing(v, r.path)
                          /\ r.resolve_conflict = "fs"}
PootleStaged(v) ==
  {r \in Unsynced(v) : /\ Live(v, r) /\ r.resolve_conflict # "fs"
                       /\ r.path \in ExistingFiles(v.file)
                            => r.resolve_conflict = "pootle"}
  \cup {r \in Synced(v) : /\ Live(v, r) /\ Missing(v, r.path)
                          /\ r.resolve_conflict = "pootle"}

FsRemoved(v) ==
  {r \in Synced(v) \ PootleChanged(v) :
     Live(v, r) /\ Missing(v, r.path) /\ r.resolve_conflict # "pootle"}
PootleRemoved(v) ==
  {r \in Synced(v) :
     ~Live(v, r) /\ ~Missing(v, r.path) /\ r.resolve_conflict # "fs"}
BothRemoved(v) == {r \in Synced(v) : ~Live(v, r) /\ Missing(v, r.path)}

Remove(v) == {r \in v.rows : r.staged_for_removal}
MergePootleWins(v) ==
  {r \in v.rows : r.staged_for_merge /\ r.resolve_conflict = "pootle"}
MergeFsWins(v) ==
  {r \in v.rows : r.staged_for_merge /\ r.resolve_conflict = "fs"}

\* The state object: the paths in each untracked state, the keys of the rows
\* in each of the others.
StateObject ==
  [fs_untracked : SUBSET Paths, pootle_untracked : SUBSET Paths,
   conflict_untracked : SUBSET Paths,
   conflict : SUBSET Pk, fs_ahead : SUBSET Pk, pootle_ahead : SUBSET Pk,
   fs_staged : SUBSET Pk, pootle_staged : SUBSET Pk,
   fs_removed : SUBSET Pk, pootle_removed : SUBSET Pk,
   both_removed : SUBSET Pk, remove : SUBSET Pk,
   merge_pootle_wins : SUBSET Pk, merge_fs_wins : SUBSET Pk]
State(v) ==
  [fs_untracked |-> FsUntracked(v),
   pootle_untracked |-> PootleUntracked(v),
   conflict_untracked |-> ConflictUntracked(v),
   conflict |-> Pks(Conflict(v)),
   fs_ahead |-> Pks(FsAhead(v)),
   pootle_ahead |-> Pks(PootleAhead(v)),
   fs_staged |-> Pks(FsStaged(v)),
   pootle_staged |-> Pks(PootleStaged(v)),
   fs_removed |-> Pks(FsRemoved(v)),
   pootle_removed |-> Pks(PootleRemoved(v)),
   both_removed |-> Pks(BothRemoved(v)),
   remove |-> Pks(Remove(v)),
   merge_pootle_wins |-> Pks(MergePootleWins(v)),
   merge_fs_wins |-> Pks(MergeFsWins(v))]
=============================================================================
