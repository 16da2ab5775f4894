------------------------------- MODULE PootleFS -------------------------------
(***************************************************************************)
(* Pootle FS keeps the Stores of a project and the files of its working    *)
(* copy in step (pootle_fs/plugin.py).  A StoreFS row tracks the pair of a *)
(* path: what was last synced, and what is staged for the next sync.       *)
(*                                                                         *)
(* Commands run in processes of their own, which nothing keeps apart.  A   *)
(* command takes the state of the project first and then acts on it: the   *)
(* staging commands in one transaction, sync item by item, its database    *)
(* writes in a transaction, its file writes not.  Meanwhile translators    *)
(* edit Stores, fetches change the files of the working copy, and Stores   *)
(* come and go.                                                            *)
(***************************************************************************)
EXTENDS FSFile

CONSTANTS
  Procs,       \* the processes that run commands
  Commands,    \* the commands they run
  Hazards,     \* what may happen beside the commands, see the actions
  MaxRevision, \* bounds: from this revision on no Store is edited, created
               \*   or removed and nothing fails,
  MaxClock,    \*   from this time on no fetch changes a file,
  MaxPk        \*   from this row number on no command adds rows

Updates == {"all", "pootle", "fs"}
Command ==
  [cmd : {"add", "rm"}, force : BOOLEAN, update : Updates]
  \cup [cmd : {"resolve"}, merge : BOOLEAN, pootle_wins : BOOLEAN]
  \cup [cmd : {"unstage"}] \cup [cmd : {"sync"}, update : Updates]

ASSUME PathsAssumption == IsFiniteSet(Paths)
ASSUME CommandsAssumption == Commands \subseteq Command
ASSUME BoundsAssumption == {MaxRevision, MaxClock, MaxPk} \subseteq Nat

VARIABLES
  rows,      \* the StoreFS table
  store,     \* the Stores, with their units and StoreData
  suggested, \* the pending suggestions of the Stores
  file,      \* the files of the working copy
  revision,  \* the global revision counter
  clock,     \* the time the next file written is stamped with
  next_pk,   \* the next row number
  run        \* the command each process runs, NULL when it runs none

db == <<rows, store, suggested>>
vars == <<rows, store, suggested, file, revision, clock, next_pk, run>>

\* What a command in progress holds.  A staging command: the state it took.
\* A sync: the items still to do, the one it is at, the rows it has done, what
\* it read of their paths, and what its transaction overwrote.
Item == [kind : {"rm", "merge_pootle", "merge_fs", "pull", "push"},
         pk : Pk]
At == [pk : Pk, step : {"push", "hash"}, rev : Nat \cup {NULL},
       base : Content \cup {NULL}]
LastSync == [rev : Nat \cup {NULL}, hash : Nat \cup {NULL},
             base : Content \cup {NULL}]
NotSynced == [rev |-> NULL, hash |-> NULL, base |-> NULL]
Undo == [rows : SUBSET Row, store : Store, suggested : SUBSET (Units \X Vals)]

Idle(c) == run[c] = NULL
Syncing(c) == ~Idle(c) /\ run[c].op.cmd = "sync"
AnySync == \E c \in Procs : Syncing(c)
StagingRun == [op : {o \in Commands : o.cmd # "sync"}, state : StateObject]
SyncRun == [op : {o \in Commands : o.cmd = "sync"},
            todo : SUBSET Item, at : At \cup {NULL},
            done : SUBSET Pk, last_sync : [Paths -> LastSync],
            undo : [Paths -> Undo \cup {NULL}]]
RowOf(k) == CHOOSE r \in rows : r.pk = k
Exists(k) == k \in Pks(rows)

-----------------------------------------------------------------------------
(* Transactions: what a sync has overwritten is locked until it ends, and    *)
(* the others still see what was there.                                      *)

Locked(c, p) == Syncing(c) /\ run[c].undo[p] # NULL
Unlocked(p) == \A c \in Procs : ~Locked(c, p)
FreeFor(c, p) == \A d \in Procs \ {c} : ~Locked(d, p)
LockedByOther(c, p) == {d \in Procs \ {c} : Locked(d, p)}

Overwritten(c) ==
  UNION {run[x[1]].undo[x[2]].rows :
           x \in {y \in (Procs \ {c}) \X Paths : Locked(y[1], y[2])}}
VisibleRows(c) ==
  {r \in rows : r.pk \notin Pks(Overwritten(c))} \cup Overwritten(c)
View(c) ==
  [rows |-> VisibleRows(c),
   store |-> [p \in Paths |->
                IF LockedByOther(c, p) = {} THEN store[p]
                ELSE run[CHOOSE d \in LockedByOther(c, p) : TRUE].undo[p].store],
   file |-> file, found |-> ExistingFiles(file),
   tracked |-> TrackedPaths(VisibleRows(c))]

\* The undo of a process after it writes to the row r and its Store.
WithRow(undo, r) ==
  CASE undo = NULL -> [rows |-> {r}, store |-> store[r.path],
                       suggested |-> suggested[r.path]]
    [] undo # NULL /\ r.pk \in Pks(undo.rows) -> undo
    [] OTHER -> [undo EXCEPT !.rows = @ \cup {r}]
Touched(c, r) ==
  [run[c].undo EXCEPT ![r.path] = WithRow(run[c].undo[r.path], r)]

-----------------------------------------------------------------------------
(* Translators, fetches, and Stores that come and go *)

\* Mutant: the unit gets the current revision, none is drawn.
EditUnitUndrawn(p, u, x) ==
  /\ revision < MaxRevision
  /\ AnySync => "edit_in_sync" \in Hazards
  /\ Unlocked(p)
  /\ store[p].st = "live" /\ store[p].val # NULL /\ store[p].val[u] # x
  /\ store' = [store EXCEPT
                 ![p] = UpdateData([@ EXCEPT !.val[u] = x,
                                             !.rev[u] = revision])]
  /\ UNCHANGED <<rows, suggested, file, revision, clock, next_pk, run>>

\* A unit is edited and its revision drawn from the counter.
EditUnit(p, u, x) ==
  /\ revision < MaxRevision
  /\ AnySync => "edit_in_sync" \in Hazards
  /\ Unlocked(p)
  /\ store[p].st = "live" /\ store[p].val # NULL /\ store[p].val[u] # x
  /\ revision' = revision + 1
  /\ store' = [store EXCEPT
                 ![p] = UpdateData([@ EXCEPT !.val[u] = x,
                                             !.rev[u] = revision + 1])]
  /\ UNCHANGED <<rows, suggested, file, clock, next_pk, run>>

\* A fetch writes a file, at times with what it already holds.
WriteFile(p, x) ==
  /\ clock < MaxClock
  /\ AnySync => "fetch_in_sync" \in Hazards
  /\ x = NULL => "empty_file" \in Hazards
  /\ file' = [file EXCEPT ![p] = [val |-> x, mtime |-> clock]]
  /\ clock' = clock + 1
  /\ UNCHANGED <<rows, store, suggested, revision, next_pk, run>>

\* A fetch removes a file.
RemoveFile(p) ==
  /\ clock < MaxClock
  /\ AnySync => "fetch_in_sync" \in Hazards
  /\ "remove_file" \in Hazards
  /\ file[p] # NoFile
  /\ file' = [file EXCEPT ![p] = NoFile]
  /\ UNCHANGED <<rows, store, suggested, revision, clock, next_pk, run>>

\* The translation project of a Store is deleted: the rows lose their Store.
DeleteStore(p) ==
  /\ revision < MaxRevision
  /\ "delete" \in Hazards
  /\ AnySync => "delete_in_sync" \in Hazards
  /\ Unlocked(p)
  /\ store[p].st # "none"
  /\ store' = [store EXCEPT ![p] = NoStore]
  /\ suggested' = [suggested EXCEPT ![p] = {}]
  /\ rows' = {IF r.path = p THEN [r EXCEPT !.fk = FALSE, !.base = NULL] ELSE r :
                r \in rows}
  /\ UNCHANGED <<file, revision, clock, next_pk, run>>

\* The directory of a Store is made obsolete, and with it the Store.
MakeObsolete(p) ==
  /\ revision < MaxRevision
  /\ "obsolete" \in Hazards
  /\ AnySync => "delete_in_sync" \in Hazards
  /\ Unlocked(p)
  /\ store[p].st = "live"
  /\ store' = [store EXCEPT ![p] = UpdateData([@ EXCEPT !.st = "obsolete"])]
  /\ UNCHANGED <<rows, suggested, file, revision, clock, next_pk, run>>

\* A new language gets its Stores from the templates of the project.
CreateStore(p, x) ==
  /\ revision < MaxRevision
  /\ "create" \in Hazards
  /\ p \in TrackedPaths(rows) => "recreate" \in Hazards
  /\ ~AnySync
  /\ store[p].st = "none"
  /\ LET o == AddUnits(EmptyStore, {}, x, revision)
     IN store' = [store EXCEPT ![p] = o.store] /\ revision' = o.revision
  /\ UNCHANGED <<rows, suggested, file, clock, next_pk, run>>

Environment ==
  \E p \in Paths :
    \/ \E u \in Units, x \in Vals : EditUnit(p, u, x)
    \/ \E x \in Content : WriteFile(p, x) \/ CreateStore(p, x)
    \/ WriteFile(p, NULL)
    \/ RemoveFile(p) \/ DeleteStore(p) \/ MakeObsolete(p)

-----------------------------------------------------------------------------
(* The staging commands: the rows they make of the rows R.  s is the state   *)
(* the command took, v its view of the Stores.                               *)

\* create_store_fs: no row is looked for, and the Store of the path is set
\* whether it is obsolete or not.
create_store_fs(v, ps, rc, merge, rm) ==
  {[pk |-> <<p, next_pk>>, path |-> p, fk |-> v.store[p].st # "none",
    last_sync_revision |-> NULL, last_sync_hash |-> NULL, base |-> NULL,
    staged_for_removal |-> rm, staged_for_merge |-> merge,
    resolve_conflict |-> rc] : p \in ps}

Add(R, v, s, op) ==
  LET pootle == IF op.force /\ op.update # "fs" THEN s.fs_removed ELSE {}
      fs == IF op.force /\ op.update # "pootle" THEN s.pootle_removed ELSE {}
  IN {[r EXCEPT !.resolve_conflict = IF r.pk \in fs THEN "fs"
                                     ELSE IF r.pk \in pootle THEN "pootle"
                                     ELSE @] : r \in R}
     \cup create_store_fs(v, (IF op.update # "fs" THEN s.fs_untracked ELSE {})
                             \cup (IF op.update # "pootle"
                                   THEN s.pootle_untracked ELSE {}),
                          "none", FALSE, FALSE)

Resolve(R, v, s, op) ==
  LET winner == IF op.pootle_wins THEN "pootle" ELSE "fs"
  IN {IF r.pk \in s.conflict
      THEN [r EXCEPT !.resolve_conflict = winner,
                     !.staged_for_merge = @ \/ op.merge]
      ELSE r : r \in R}
     \cup create_store_fs(v, s.conflict_untracked, winner, op.merge, FALSE)

Rm(R, v, s, op) ==
  LET update == s.both_removed
                \cup (IF op.update # "pootle" THEN s.pootle_removed ELSE {})
                \cup (IF op.update # "fs" THEN s.fs_removed ELSE {})
                \cup (IF op.force THEN s.conflict ELSE {})
      create == IF ~op.force THEN {}
                ELSE s.conflict_untracked
                     \cup (IF op.update # "pootle" THEN s.pootle_untracked
                           ELSE {})
                     \cup (IF op.update # "fs" THEN s.fs_untracked ELSE {})
  IN {[r EXCEPT !.staged_for_removal = @ \/ r.pk \in update] : r \in R}
     \cup create_store_fs(v, create, "none", FALSE, TRUE)

\* The rows that were never synced go, the others are no longer staged.  An
\* item that was ahead is looked up again, and the command fails if its row
\* is gone.
NeverSynced(r) ==
  r.last_sync_revision \in {NULL, 0} /\ r.last_sync_hash = NULL
\* Mutant: the merge stays staged.
UnstageKeepsMerge(R, s) ==
  LET staged == s.remove \cup s.merge_pootle_wins \cup s.merge_fs_wins
  IN {IF r.pk \in staged
      THEN [r EXCEPT !.resolve_conflict = "none", !.staged_for_removal = FALSE]
      ELSE r : r \in R}
Unstage(R, s) ==
  LET ahead == s.pootle_ahead \cup s.fs_ahead
      staged == s.remove \cup s.merge_pootle_wins \cup s.merge_fs_wins
                \cup s.pootle_staged \cup s.fs_staged
                \cup {r.pk : r \in {q \in R : /\ q.pk \in ahead
                                              /\ q.resolve_conflict # "none"}}
  IN IF ~(ahead \subseteq Pks(R)) THEN R
     ELSE {IF r.pk \in staged
           THEN [r EXCEPT !.resolve_conflict = "none",
                          !.staged_for_merge = FALSE,
                          !.staged_for_removal = FALSE]
           ELSE r : r \in {q \in R : ~(q.pk \in staged /\ NeverSynced(q))}}

Staged(R, v, s, op) ==
  CASE op.cmd = "add" -> Add(R, v, s, op)
    [] op.cmd = "resolve" -> Resolve(R, v, s, op)
    [] op.cmd = "rm" -> Rm(R, v, s, op)
    [] OTHER -> Unstage(R, s)

\* responds_to_state: the state s is taken before the transaction starts.
StartStaging(c, op, s) ==
  /\ Idle(c) /\ op.cmd # "sync"
  /\ op.cmd # "unstage" => next_pk < MaxPk
  /\ run' = [run EXCEPT ![c] = [op |-> op, state |-> s]]
  /\ UNCHANGED <<db, file, revision, clock, next_pk>>
BeginStaging(c, op) == StartStaging(c, op, State(View(c)))

\* A row that a sync has overwritten is changed after that sync has ended.
EndStaging(c) ==
  /\ ~Idle(c) /\ ~Syncing(c)
  /\ LET v == View(c)
         Make(R) == Staged(R, v, run[c].state, run[c].op)
     IN /\ \A r \in v.rows \ Make(v.rows) : FreeFor(c, r.path)
        /\ rows' = Make(rows)
  /\ next_pk' = IF \E r \in rows' : r.pk[2] = next_pk
                THEN next_pk + 1 ELSE next_pk
  /\ run' = [run EXCEPT ![c] = NULL]
  /\ UNCHANGED <<store, suggested, file, revision, clock>>

-----------------------------------------------------------------------------
(* sync: removals, merges, pulls and pushes, in this order, then the rows    *)

\* Mutant: the pull passes over the files that are ahead.
TodoWithoutAhead(s, update) ==
  LET items(kind, pks) == {[kind |-> kind, pk |-> k] : k \in pks}
  IN items("rm", s.remove) \cup items("pull", s.fs_staged)
     \cup items("push", s.pootle_staged \cup s.pootle_ahead)

Todo(s, update) ==
  LET items(kind, pks) == {[kind |-> kind, pk |-> k] : k \in pks}
  IN items("rm", s.remove)
     \cup (IF update = "fs" THEN {}
           ELSE items("merge_pootle", s.merge_pootle_wins)
                \cup items("merge_fs", s.merge_fs_wins)
                \cup items("pull", s.fs_staged \cup s.fs_ahead))
     \cup (IF update = "pootle" THEN {}
           ELSE items("push", s.pootle_staged \cup s.pootle_ahead))

StartSync(c, op, s) ==
  /\ Idle(c) /\ op.cmd = "sync"
  /\ run' = [run EXCEPT
       ![c] = [op |-> op, todo |-> Todo(s, op.update), at |-> NULL, done |-> {},
               last_sync |-> [p \in Paths |-> NotSynced],
               undo |-> [p \in Paths |-> NULL]]]
  /\ UNCHANGED <<db, file, revision, clock, next_pk>>
BeginSync(c, op) == StartSync(c, op, State(View(c)))

Phase == [rm |-> 1, merge_pootle |-> 2, merge_fs |-> 2, pull |-> 3, push |-> 4]
CanDo(c, i) ==
  /\ Syncing(c) /\ run[c].at = NULL /\ i \in run[c].todo
  /\ \A j \in run[c].todo : Phase[i.kind] <= Phase[j.kind]

\* The item i is done, or its row is still to be marked as synced: at.
GoOn(c, i, at, undo) ==
  run' = [run EXCEPT
            ![c] = [run[c] EXCEPT !.todo = @ \ {i}, !.at = at, !.undo = undo]]

\* An item whose row is gone is not found, a push fails on it (Crash).
SkipItem(c, i) ==
  /\ CanDo(c, i) /\ i.kind # "push"
  /\ FreeFor(c, i.pk[1]) /\ ~Exists(i.pk)
  /\ GoOn(c, i, NULL, run[c].undo)
  /\ UNCHANGED <<db, file, revision, clock, next_pk>>

\* FSFile.delete: the Store is made obsolete, the row and the file removed.
RmItem(c, i) ==
  /\ CanDo(c, i) /\ i.kind = "rm"
  /\ FreeFor(c, i.pk[1]) /\ Exists(i.pk)
  /\ LET r == RowOf(i.pk) IN
       /\ rows' = rows \ {r}
       /\ store' = IF ~r.fk THEN store
                   ELSE [store EXCEPT
                           ![r.path] = UpdateData([@ EXCEPT !.st = "obsolete"])]
       /\ file' = [file EXCEPT ![r.path] = NoFile]
       /\ GoOn(c, i, NULL, Touched(c, r))
  /\ UNCHANGED <<suggested, revision, clock, next_pk>>

Base(s, rev) == IF rev = NULL THEN NULL ELSE s.val

\* A merge records the revision the update returns, a pull that of StoreData.
PullItem(c, i) ==
  /\ CanDo(c, i) /\ i.kind \in {"merge_pootle", "merge_fs", "pull"}
  /\ FreeFor(c, i.pk[1]) /\ Exists(i.pk)
  /\ LET r == RowOf(i.pk)
         p == r.path
         merge == i.kind # "pull"
         wins == IF i.kind = "merge_pootle" THEN "pootle" ELSE "fs"
         o == Pull(r, store[p], suggested[p], file[p], merge, wins, revision)
         rev == IF merge THEN o.ret ELSE o.store.max_unit_revision
     IN /\ rows' = {IF q.pk = i.pk THEN [q EXCEPT !.fk = TRUE] ELSE q :
                      q \in rows}
        /\ store' = [store EXCEPT ![p] = o.store]
        /\ suggested' = [suggested EXCEPT ![p] = o.suggested]
        /\ revision' = o.revision
        /\ GoOn(c, i, [pk |-> i.pk,
                       step |-> IF merge /\ run[c].op.update = "all"
                                THEN "push" ELSE "hash",
                       rev |-> rev, base |-> Base(o.store, rev)],
                IF PullSkipped(r, file[p]) THEN run[c].undo ELSE Touched(c, r))
  /\ UNCHANGED <<file, clock, next_pk>>

\* FSFile.push of the row r to the file of its path
WriteBack(r, s) ==
  IF PushSkipped(r, s, file[r.path])
  THEN UNCHANGED <<file, clock>>
  ELSE /\ file' = [file EXCEPT ![r.path] = [val |-> PushContent(s, @),
                                            mtime |-> clock]]
       /\ clock' = clock + 1

\* The push that ends a merge: what it returns replaces the revision.
MergePush(c) ==
  /\ Syncing(c) /\ run[c].at # NULL /\ run[c].at.step = "push"
  /\ Exists(run[c].at.pk)
  /\ LET r == RowOf(run[c].at.pk)
         s == View(c).store[r.path]
         rev == IF PushSkipped(r, s, file[r.path]) THEN NULL
                ELSE s.max_unit_revision
     IN /\ WriteBack(r, s)
        /\ run' = [run EXCEPT ![c].at = [pk |-> r.pk, step |-> "hash",
                                         rev |-> rev, base |-> Base(s, rev)]]
  /\ UNCHANGED <<db, revision, next_pk>>

PushItem(c, i) ==
  /\ CanDo(c, i) /\ i.kind = "push"
  /\ \E r \in View(c).rows :
       /\ r.pk = i.pk /\ r.fk
       /\ LET s == View(c).store[r.path]
          IN /\ WriteBack(r, s)
             /\ GoOn(c, i, [pk |-> i.pk, step |-> "hash",
                            rev |-> s.max_unit_revision, base |-> s.val],
                     run[c].undo)
  /\ UNCHANGED <<db, revision, next_pk>>

\* The hash is taken from the file after it was read or written.
TakeHash(c) ==
  /\ Syncing(c) /\ run[c].at # NULL
  /\ run[c].at.step = "hash" \/ ~Exists(run[c].at.pk)
  /\ LET at == run[c].at
         p == at.pk[1]
     IN run' = [run EXCEPT
          ![c].at = NULL, ![c].done = @ \cup {at.pk},
          ![c].last_sync[p] =
             [rev |-> at.rev, hash |-> file[p].mtime, base |-> at.base]]
  /\ UNCHANGED <<db, file, revision, clock, next_pk>>

\* Mutants: the merge stays staged; the revision is that of the Store when the
\* sync ends.
OnSyncKeepsMerge(r, last) ==
  [r EXCEPT !.last_sync_revision = last.rev, !.last_sync_hash = last.hash,
            !.base = last.base, !.resolve_conflict = "none"]
OnSyncReadsAgain(r, last) ==
  [r EXCEPT !.last_sync_revision = store[r.path].max_unit_revision,
            !.last_sync_hash = last.hash, !.base = last.base,
            !.resolve_conflict = "none", !.staged_for_merge = FALSE]

\* on_sync for every row merged, pulled or pushed, and the commit.  The rows
\* are updated by key: one that is gone stays so.
OnSync(r, last) ==
  [r EXCEPT !.last_sync_revision = last.rev, !.last_sync_hash = last.hash,
            !.base = last.base,
            !.resolve_conflict = "none", !.staged_for_merge = FALSE]
EndSync(c) ==
  /\ Syncing(c) /\ run[c].at = NULL /\ run[c].todo = {}
  /\ \A k \in run[c].done : FreeFor(c, k[1])
  /\ rows' = {IF r.pk \in run[c].done
              THEN OnSync(r, run[c].last_sync[r.path]) ELSE r : r \in rows}
  /\ run' = [run EXCEPT ![c] = NULL]
  /\ UNCHANGED <<store, suggested, file, revision, clock, next_pk>>

\* The transaction is rolled back.  Files and the revision counter are not.
Overwrote(c) ==
  UNION {run[c].undo[p].rows : p \in {q \in Paths : Locked(c, q)}}
Rollback(c) ==
  /\ rows' = {r \in rows : r.pk \notin Pks(Overwrote(c))} \cup Overwrote(c)
  /\ store' = [p \in Paths |-> IF Locked(c, p) THEN run[c].undo[p].store
                               ELSE store[p]]
  /\ suggested' = [p \in Paths |-> IF Locked(c, p)
                                   THEN run[c].undo[p].suggested
                                   ELSE suggested[p]]
  /\ run' = [run EXCEPT ![c] = NULL]
  /\ UNCHANGED <<file, revision, clock, next_pk>>

\* A push whose row or Store is gone raises.
Crash(c, i) ==
  /\ CanDo(c, i) /\ i.kind = "push"
  /\ ~\E r \in View(c).rows : r.pk = i.pk /\ r.fk
  /\ Rollback(c)

\* The process is killed, or the file system or the database fails.
Fail(c) ==
  /\ "failure" \in Hazards
  /\ revision < MaxRevision /\ clock < MaxClock
  /\ Syncing(c)
  /\ Rollback(c)

-----------------------------------------------------------------------------
Init ==
  /\ rows = {}
  /\ store \in [Paths -> {NoStore} \cup
                         {AddUnits(EmptyStore, {}, x, 0).store : x \in Content}]
  /\ suggested = [p \in Paths |-> {}]
  /\ file \in [Paths -> {NoFile} \cup [val : Content, mtime : {0}]]
  /\ revision = 2 /\ clock = 1 /\ next_pk = 0
  /\ run = [c \in Procs |-> NULL]

ToDo(c) == IF Syncing(c) THEN run[c].todo ELSE {}
SyncStep(c) ==
  \/ \E i \in ToDo(c) : \/ SkipItem(c, i) \/ RmItem(c, i) \/ PullItem(c, i)
                     \/ PushItem(c, i) \/ Crash(c, i)
  \/ MergePush(c) \/ TakeHash(c) \/ EndSync(c)
Step(c) == EndStaging(c) \/ SyncStep(c)
Begin(c) == \E op \in Commands : BeginStaging(c, op) \/ BeginSync(c, op)

Next == Environment \/ \E c \in Procs : Begin(c) \/ Step(c) \/ Fail(c)

Spec == Init /\ [][Next]_vars

\* A command that has started goes on, and `pootle fs sync` is run again and
\* again, by cron (docs/server/commands.rst:1517): strong fairness of BeginSync.
SyncAll == [cmd |-> "sync", update |-> "all"]
SyncingAll(c) == Syncing(c) /\ run[c].op = SyncAll
Fairness == \A c \in Procs :
  /\ WF_vars(Step(c))
  /\ SyncAll \in Commands /\ []<>Idle(c) => []<>SyncingAll(c)
FairSpec == Spec /\ Fairness

-----------------------------------------------------------------------------
(* Properties *)

\* Every variable has its type.
TypeOK ==
  /\ rows \in SUBSET Row
  /\ store \in [Paths -> Store]
  /\ suggested \in [Paths -> SUBSET (Units \X Vals)]
  /\ file \in [Paths -> File]
  /\ {revision, clock, next_pk} \subseteq Nat
  /\ run \in [Procs -> StagingRun \cup SyncRun \cup {NULL}]

\* A row staged for merge names the winner.  sync_merge finds its rows by
\* staged_for_merge and resolve_conflict together, and every other state
\* leaves out what is staged for merge: a row without winner would be in no
\* state at all.  Two commands at work on one row, and a sync rolled back, must
\* not make one.
HasWinner(r) == r.staged_for_merge => r.resolve_conflict # "none"
MergeHasWinner == \A r \in rows : HasWinner(r)

\* No Store and no row is ahead of the global revision counter.
Revisions ==
  /\ \A p \in Paths : StoreBelow(store[p], revision)
  /\ \A r \in rows : RevBelow(r.last_sync_revision, revision)

\* What makes the two inductive: what a sync h will write down, and what its
\* rollback will bring back, is as good as what is there.
RowKeeps(r, n) == HasWinner(r) /\ RevBelow(r.last_sync_revision, n)
SyncKeeps(h, n) ==
  /\ h.at # NULL => RevBelow(h.at.rev, n)
  /\ \A p \in Paths :
       /\ RevBelow(h.last_sync[p].rev, n)
       /\ h.undo[p] # NULL => /\ StoreBelow(h.undo[p].store, n)
                              /\ \A r \in h.undo[p].rows : RowKeeps(r, n)
Inv == /\ TypeOK /\ MergeHasWinner /\ Revisions
       /\ \A c \in Procs : Syncing(c) => SyncKeeps(run[c], revision)

\* An edit of a synced Store is always noticed: the revision it draws is not
\* one that a sync has already written down, whatever syncs, merges that draw
\* two revisions, rollbacks and deleted Stores came before.
Now == [rows |-> rows, store |-> store, file |-> file,
        found |-> ExistingFiles(file), tracked |-> TrackedPaths(rows)]
EditNoticed ==
  [][\A p \in Paths, u \in Units, x \in Vals : EditUnit(p, u, x) =>
       \A r \in rows' : r.path = p /\ r \in Synced(Now)' /\ Live(Now, r)' =>
                          r \in PootleChanged(Now)']_vars

\* The rows the state command reports as neither changed nor staged and whose
\* Store and file are both there.
InSync(v) ==
  {r \in Synced(v) \ PootleChanged(v) : Live(v, r) /\ ~FSChanged(v, r)}

\* An edit is never taken for synced by a sync it ran into: while the row says
\* nothing changed in Pootle, the Store holds what was synced.
EditNeverHidden ==
  ~AnySync => \A r \in InSync(Now) : store[r.path].val = r.base

\* When neither side has changed since the last sync, Store and file agree:
\* on every unit, or on those a restored Store does not take for already
\* pushed (Store.resurrect sets the last_sync_revision the syncer goes by).
HaveUnits(p) == store[p].val # NULL /\ file[p].val # NULL
Restored(p, u) == /\ store[p].last_sync_revision # NULL
                  /\ store[p].rev[u] <= store[p].last_sync_revision
SyncedStoresAgree ==
  ~AnySync => \A r \in InSync(Now) :
                HaveUnits(r.path) => store[r.path].val = file[r.path].val
SyncedUnitsAgree ==
  ~AnySync => \A r \in InSync(Now) : HaveUnits(r.path) =>
    \A u \in Units : \/ Restored(r.path, u)
                     \/ store[r.path].val[u] = file[r.path].val[u]

\* A path has one row: the state of a project finds the row, the Store and the
\* file of each other by path.
OneRowPerPath == \A r, q \in rows : r.path = q.path => r = q

Changed(v) ==
  FsRemoved(v) \cup PootleRemoved(v) \cup BothRemoved(v)
  \cup Conflict(v) \cup FsAhead(v) \cup PootleAhead(v)
  \cup FsStaged(v) \cup PootleStaged(v)
  \cup Remove(v) \cup MergePootleWins(v) \cup MergeFsWins(v)

\* The states miss no row and do not pull and push the same one: a row is in
\* some state unless Store and file are as they were synced.  Only a row that
\* was added from the file system, or resolved for it, and that has lost its
\* file since is in none: no command can reach it until the file is back.
StatesCoverRows ==
  ~AnySync => \A r \in rows :
    /\ \/ r \in Changed(Now) \cup InSync(Now)
       \/ /\ ~Found(Now, r.path)
          /\ r.resolve_conflict = "fs" \/ ~Live(Now, r)
    /\ ~(/\ r \in FsStaged(Now) \cup FsAhead(Now)
         /\ r \in PootleStaged(Now) \cup PootleAhead(Now))

\* What a sync has merged, pulled or pushed is in step afterwards: the next
\* state has nothing to say of it.
SyncSettles ==
  [][\A c \in Procs : EndSync(c) =>
       \A r \in rows' : r.pk \in run[c].done => r \notin Changed(Now)']_vars

\* A file that is pulled because only the file had changed does not replace
\* an edit made in Pootle since the last sync, unless it is suggested.
PullKeepsEdits ==
  [][\A c \in Procs : \A i \in ToDo(c) :
       PullItem(c, i) /\ i.kind = "pull" /\ RowOf(i.pk).resolve_conflict = "none"
         => LET r == RowOf(i.pk)
                p == r.path
            IN \A u \in Units :
                 r.last_sync_revision # NULL /\ store[p].val # NULL
                 /\ store[p].rev[u] > r.last_sync_revision
                   => \/ store'[p].val[u] = store[p].val[u]
                      \/ <<u, store[p].val[u]>> \in suggested'[p]]_vars

\* A merge loses nothing: what a side had changed since the last sync is, for
\* every unit, the translation or a suggestion when the merge has ended.
MergeLosesNothing ==
  [][\A c \in Procs : \A i \in ToDo(c) : PullItem(c, i) /\ i.kind # "pull" =>
       LET r == RowOf(i.pk)
           p == r.path
           kept(u, x) == \/ store'[p].val[u] = x
                         \/ <<u, x>> \in suggested'[p]
                         \/ r.base # NULL /\ r.base[u] = x
       IN HaveUnits(p) /\ ~PullSkipped(r, file[p]) =>
            \A u \in Units : kept(u, store[p].val[u]) /\ kept(u, file[p].val[u])
      ]_vars

\* What is staged is synced, or unstaged, in the end.
SyncPending(v) ==
  Pks(FsStaged(v) \cup FsAhead(v) \cup PootleStaged(v) \cup PootleAhead(v)
      \cup Remove(v) \cup MergePootleWins(v) \cup MergeFsWins(v))
StagedIsSynced ==
  \A p \in Paths, n \in 0 .. MaxPk :
    (<<p, n>> \in SyncPending(Now)) ~> (<<p, n>> \notin SyncPending(Now))
=============================================================================
