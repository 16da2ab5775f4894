------------------------- MODULE PootleFSAlone_proofs -------------------------
(***************************************************************************)
(* Proofs about PootleFS where one process runs the commands.  OneRow is   *)
(* an inductive invariant: a path has one row.  Agreeing is one while no   *)
(* fetch runs into a sync: Store and file agree where neither has changed. *)
(* Unedited is one while no edit does: a pull finds no edit it replaces.   *)
(* NothingRemoved is one where nothing is, so no Store is restored, and    *)
(* Covered where nothing is merged or lost: the states miss no row.        *)
(***************************************************************************)
EXTENDS PootleFS_proofs

-----------------------------------------------------------------------------
(* One row per path, when one process runs the commands.                     *)

\* The paths a staging command makes rows for.
Untracked(s) == s.fs_untracked \cup s.pootle_untracked \cup s.conflict_untracked

\* A row that has lost its Store, or never had one, has none.
RowsHaveStores == \A r \in rows : ~r.fk => store[r.path].st = "none"
\* A transaction has overwritten the one row of a path.
Single(u, p, R) ==
  \E q \in u.rows : /\ u.rows = {q}
                    /\ q.path = p /\ (~q.fk => u.store.st = "none")
                    /\ \A r \in R : r.path = p => r.pk = q.pk
UndosAreSingle ==
  \A c \in Procs, p \in Paths :
    Locked(c, p) => Single(run[c].undo[p], p, rows)
\* What a staging command has found untracked still is.
StagedAreUntracked ==
  \A c \in Procs : ~Idle(c) /\ ~Syncing(c) =>
    Untracked(run[c].state) \cap TrackedPaths(rows) = {}
OneRow == OneRowPerPath /\ RowsHaveStores /\ UndosAreSingle /\ StagedAreUntracked

OneProcess == \A c, d \in Procs : c = d

\* One process sees what there is.
LEMMA OneView ==
  ASSUME OneProcess, Parts, NEW c \in Procs
  PROVE  /\ View(c).rows = rows /\ View(c).store = store
         /\ View(c).tracked = TrackedPaths(rows)
<1>1. Overwritten(c) = {} /\ \A p \in Paths : LockedByOther(c, p) = {}
  BY DEF OneProcess, Overwritten, LockedByOther
<1>2. Pks(Overwritten(c)) = {}
  BY <1>1 DEF Pks
<1>3. VisibleRows(c) = rows
  BY <1>1, <1>2 DEF VisibleRows
<1>4. [p \in Paths |-> IF LockedByOther(c, p) = {} THEN store[p]
         ELSE run[CHOOSE d \in LockedByOther(c, p) : TRUE].undo[p].store]
        = [p \in Paths |-> store[p]]
  BY <1>1
<1>5. [p \in Paths |-> store[p]] = store
  BY DEF Parts, StoreInv
<1>. QED BY <1>3, <1>4, <1>5 DEF View

\* A step outside the commands that gives no tracked path a new Store.
LEMMA OneRowOutside ==
  ASSUME Parts, OneRow, rows' = rows, run' = run,
         \A p \in Paths : store[p].st = "none" /\ store'[p].st # "none" =>
                            p \notin TrackedPaths(rows)
  PROVE  OneRow'
<1>1. \A r \in rows : r.path \in Paths /\ r.path \in TrackedPaths(rows)
  BY DEF Parts, RowsInv, GoodRow, Row, TrackedPaths
<1>2. RowsHaveStores'
  BY <1>1 DEF OneRow, RowsHaveStores
<1>3. OneRowPerPath' /\ UndosAreSingle' /\ StagedAreUntracked'
  BY DEF OneRow, OneRowPerPath, UndosAreSingle, StagedAreUntracked, Locked,
         Syncing, Idle, TrackedPaths
<1>. QED BY <1>2, <1>3 DEF OneRow

\* Translators and fetches keep one row per path.
LEMMA EnvironmentOneRow ==
  ASSUME "recreate" \notin Hazards, Parts, OneRow, Environment
  PROVE  OneRow'
<1>1. PICK p \in Paths :
          \/ \E u \in Units, x \in Vals : EditUnit(p, u, x)
          \/ \E x \in Content : WriteFile(p, x) \/ CreateStore(p, x)
          \/ WriteFile(p, NULL)
          \/ RemoveFile(p) \/ DeleteStore(p) \/ MakeObsolete(p)
  BY DEF Environment
<1>2. ASSUME NEW u \in Units, NEW x \in Vals, EditUnit(p, u, x)
      PROVE  OneRow'
  <2>1. /\ rows' = rows /\ run' = run /\ store[p].st = "live"
        /\ \A q \in Paths \ {p} : store'[q] = store[q]
    BY <1>2 DEF EditUnit, Parts, StoreInv
  <2>. QED BY <2>1, OneRowOutside
<1>3. CASE RemoveFile(p) \/ \E x \in Content \cup {NULL} : WriteFile(p, x)
  <2>1. rows' = rows /\ run' = run /\ store' = store
    BY <1>3 DEF RemoveFile, WriteFile
  <2>. QED BY <2>1, OneRowOutside
<1>4. ASSUME NEW x \in Content, CreateStore(p, x)
      PROVE  OneRow'
  <2>1. /\ rows' = rows /\ run' = run /\ p \notin TrackedPaths(rows)
        /\ \A q \in Paths \ {p} : store'[q] = store[q]
    BY <1>4 DEF CreateStore, Parts, StoreInv
  <2>. QED BY <2>1, OneRowOutside
<1>5. CASE MakeObsolete(p)
  <2>1. /\ rows' = rows /\ run' = run /\ store[p].st = "live"
        /\ \A q \in Paths \ {p} : store'[q] = store[q]
    BY <1>5 DEF MakeObsolete, Parts, StoreInv
  <2>. QED BY <2>1, OneRowOutside
<1>6. CASE DeleteStore(p)
  <2>. DEFINE lost(r) == IF r.path = p
                         THEN [r EXCEPT !.fk = FALSE, !.base = NULL] ELSE r
  <2>1. /\ rows' = {lost(r) : r \in rows} /\ run' = run
        /\ store' = [store EXCEPT ![p] = NoStore] /\ Unlocked(p)
    BY <1>6 DEF DeleteStore
  <2>2. \A r \in rows : /\ lost(r).path = r.path /\ lost(r).pk = r.pk
                        /\ lost(r).path # p => lost(r) = r
                        /\ r.path \in Paths
    BY DEF Parts, RowsInv, GoodRow, Row
  <2>3. store'[p].st = "none" /\ \A q \in Paths \ {p} : store'[q] = store[q]
    BY <2>1 DEF Parts, StoreInv, NoStore
  <2>. HIDE DEF lost
  <2>4. OneRowPerPath'
    BY <2>1, <2>2 DEF OneRow, OneRowPerPath
  <2>5. RowsHaveStores'
    BY <2>1, <2>2, <2>3 DEF OneRow, RowsHaveStores
  <2>6. UndosAreSingle'
    BY <2>1, <2>2 DEF OneRow, UndosAreSingle, Single, Locked, Syncing, Idle
  <2>7. TrackedPaths(rows') = TrackedPaths(rows)
    BY <2>1, <2>2 DEF TrackedPaths
  <2>8. StagedAreUntracked'
    BY <2>1, <2>7 DEF OneRow, StagedAreUntracked, Syncing, Idle
  <2>. QED BY <2>4, <2>5, <2>6, <2>8 DEF OneRow
<1>. QED BY <1>1, <1>2, <1>3, <1>4, <1>5, <1>6

\* A command that begins finds no tracked path untracked.
LEMMA BeginOneRow ==
  ASSUME OneProcess, Parts, OneRow, NEW c \in Procs, Begin(c)
  PROVE  OneRow'
<1>1. rows' = rows /\ store' = store
  BY DEF Begin, BeginStaging, StartStaging, BeginSync, StartSync, db
<1>2. OneRowPerPath' /\ RowsHaveStores'
  BY <1>1 DEF OneRow, OneRowPerPath, RowsHaveStores
<1>3. \A d \in Procs : d = c
  BY DEF OneProcess
<1>4. CASE \E op \in Commands : BeginStaging(c, op)
  <2>1. PICK op \in Commands : BeginStaging(c, op)
    BY <1>4
  <2>2. run'[c] = [op |-> op, state |-> State(View(c))] /\ op.cmd # "sync"
    BY <2>1 DEF BeginStaging, StartStaging, Parts, RunInv
  <2>3. ~Syncing(c)' /\ run'[c].state = State(View(c))
    BY <2>2 DEF Syncing
  <2>4. /\ FsUntracked(View(c)) \cap TrackedPaths(rows) = {}
        /\ Trackable(View(c)) \cap TrackedPaths(rows) = {}
    BY OneView DEF FsUntracked, Trackable, OneRow, RowsHaveStores, TrackedPaths
  <2>5. Untracked(State(View(c))) \cap TrackedPaths(rows) = {}
    BY <2>4 DEF Untracked, State, PootleUntracked, ConflictUntracked
  <2>6. UndosAreSingle'
    BY <1>3, <2>3 DEF UndosAreSingle, Locked
  <2>7. StagedAreUntracked'
    BY <1>1, <1>3, <2>3, <2>5 DEF StagedAreUntracked
  <2>. QED BY <1>2, <2>6, <2>7 DEF OneRow
<1>5. CASE \E op \in Commands : BeginSync(c, op)
  <2>1. PICK op \in Commands : BeginSync(c, op)
    BY <1>5
  <2>2. /\ run'[c] = [op |-> op, todo |-> Todo(State(View(c)), op.update),
                      at |-> NULL, done |-> {},
                      last_sync |-> [p \in Paths |-> NotSynced],
                      undo |-> [p \in Paths |-> NULL]]
        /\ op.cmd = "sync"
    BY <2>1 DEF BeginSync, StartSync, Parts, RunInv
  <2>3. /\ \A p \in Paths : run'[c].undo[p] = NULL
        /\ run'[c].op.cmd = "sync"
    BY <2>2
  <2>4. UndosAreSingle'
    BY <1>3, <2>3 DEF UndosAreSingle, Locked
  <2>5. StagedAreUntracked'
    BY <1>3, <2>3 DEF StagedAreUntracked, Syncing
  <2>. QED BY <1>2, <2>4, <2>5 DEF OneRow
<1>. QED BY <1>4, <1>5 DEF Begin

\* One row per path, with its Store in st if there is one.
OneEach(R, st) == /\ \A r, q \in R : r.path = q.path => r = q
                  /\ \A r \in R : ~r.fk => st[r.path].st = "none"
\* Rows that stay where they are stay one per path.
LEMMA OneEachKept ==
  ASSUME NEW R, NEW st, OneEach(R, st), NEW S \in SUBSET R,
         NEW g, \A r \in S : g[r].path = r.path /\ g[r].fk = r.fk
  PROVE  OneEach({g[r] : r \in S}, st)
<1>1. ASSUME NEW t \in {g[r] : r \in S}, NEW u \in {g[r] : r \in S},
             t.path = u.path
      PROVE  t = u
  <2>1. PICK r \in S : t = g[r]
    OBVIOUS
  <2>2. PICK q \in S : u = g[q]
    OBVIOUS
  <2>3. r = q
    BY <1>1, <2>1, <2>2 DEF OneEach
  <2>. QED BY <2>1, <2>2, <2>3
<1>2. ASSUME NEW t \in {g[r] : r \in S}, ~t.fk
      PROVE  st[t.path].st = "none"
  <2>1. PICK r \in S : t = g[r]
    OBVIOUS
  <2>. QED BY <1>2, <2>1 DEF OneEach
<1>. QED BY <1>1, <1>2 DEF OneEach

\* Rows created for paths without one keep it so.
LEMMA OneEachMade ==
  ASSUME NEW v, NEW old, OneEach(old, v.store),
         NEW ps, \A r \in old : r.path \notin ps,
         NEW rc, NEW merge, NEW remove
  PROVE  OneEach(old \cup create_store_fs(v, ps, rc, merge, remove), v.store)
<1>. PICK new : new = create_store_fs(v, ps, rc, merge, remove)
  OBVIOUS
<1>1. ASSUME NEW r \in new
      PROVE  r.path \in ps /\ (~r.fk => v.store[r.path].st = "none")
  <2>1. PICK p \in ps :
          r = [pk |-> <<p, next_pk>>, path |-> p,
               fk |-> v.store[p].st # "none",
               last_sync_revision |-> NULL, last_sync_hash |-> NULL,
               base |-> NULL, staged_for_removal |-> remove,
               staged_for_merge |-> merge, resolve_conflict |-> rc]
    BY Zenon DEF create_store_fs
  <2>2. r.path = p /\ r.fk = (v.store[p].st # "none")
    BY <2>1
  <2>. QED BY <2>2
<1>2. \A r, q \in new : r.path = q.path => r = q
  BY DEF create_store_fs
<1>3. OneEach(old \cup new, v.store)
  BY <1>1, <1>2 DEF OneEach
<1>. QED BY <1>3

\* A staging command keeps one row per path, if what it found untracked is.
LEMMA StagedOneEach ==
  ASSUME NEW R \in SUBSET Row, NEW v, OneEach(R, v.store), NEW s,
         Untracked(s) \cap TrackedPaths(R) = {},
         NEW op \in Commands, op.cmd # "sync"
  PROVE  OneEach(Staged(R, v, s, op), v.store)
<1>1. ASSUME NEW q \in R, NEW rc, NEW merge, NEW remove
      PROVE  /\ [q EXCEPT !.resolve_conflict = rc].path = q.path
             /\ [q EXCEPT !.resolve_conflict = rc].fk = q.fk
             /\ [q EXCEPT !.resolve_conflict = rc,
                          !.staged_for_merge = merge].path = q.path
             /\ [q EXCEPT !.resolve_conflict = rc,
                          !.staged_for_merge = merge].fk = q.fk
             /\ [q EXCEPT !.staged_for_removal = remove].path = q.path
             /\ [q EXCEPT !.staged_for_removal = remove].fk = q.fk
             /\ [q EXCEPT !.resolve_conflict = rc, !.staged_for_merge = merge,
                          !.staged_for_removal = remove].path = q.path
             /\ [q EXCEPT !.resolve_conflict = rc, !.staged_for_merge = merge,
                          !.staged_for_removal = remove].fk = q.fk
  BY DEF Row
<1>2. CASE op.cmd = "add"
  <2>. DEFINE fs == IF op.force /\ op.update # "pootle"
                    THEN s.pootle_removed ELSE {}
              pootle == IF op.force /\ op.update # "fs"
                        THEN s.fs_removed ELSE {}
              changed(r) == [r EXCEPT !.resolve_conflict =
                               IF r.pk \in fs THEN "fs"
                               ELSE IF r.pk \in pootle THEN "pootle" ELSE @]
  <2>. PICK g : g = [r \in R |-> changed(r)]
    OBVIOUS
  <2>. PICK ps : ps = (IF op.update # "fs" THEN s.fs_untracked ELSE {})
                      \cup (IF op.update # "pootle" THEN s.pootle_untracked
                            ELSE {})
    OBVIOUS
  <2>1. Staged(R, v, s, op) = {changed(r) : r \in R}
          \cup create_store_fs(v, ps, "none", FALSE, FALSE)
    BY <1>2 DEF Staged, Add
  <2>2. \A r \in R : g[r].path = r.path /\ g[r].fk = r.fk
    <3>1. \A r \in R : changed(r).path = r.path /\ changed(r).fk = r.fk
      <4>. HIDE DEF fs, pootle
      <4>. QED BY <1>1
    <3>. HIDE DEF changed
    <3>. QED BY <3>1
  <2>3. ps \cap TrackedPaths(R) = {}
    BY DEF Untracked
  <2>. HIDE DEF changed
  <2>. PICK old : old = {g[r] : r \in R}
    OBVIOUS
  <2>8. PICK none, no : none = "none" /\ no = FALSE
    OBVIOUS
  <2>4. Staged(R, v, s, op) = old \cup create_store_fs(v, ps, none, no, no)
    BY Zenon, <2>1, <2>8
  <2>5. OneEach(old, v.store)
    BY <2>2, OneEachKept
  <2>6. \A r \in old : r.path \in TrackedPaths(R)
    BY <2>2 DEF TrackedPaths
  <2>7. \A r \in old : r.path \notin ps
    BY <2>3, <2>6
  <2>9. OneEach(old \cup create_store_fs(v, ps, none, no, no),
                v.store)
    BY <2>5, <2>7, OneEachMade
  <2>. QED BY <2>4, <2>9
<1>3. CASE op.cmd = "resolve"
  <2>. DEFINE changed(r) == IF r.pk \in s.conflict
                            THEN [r EXCEPT !.resolve_conflict =
                                             IF op.pootle_wins THEN "pootle"
                                             ELSE "fs",
                                           !.staged_for_merge = @ \/ op.merge]
                            ELSE r
  <2>. PICK g : g = [r \in R |-> changed(r)]
    OBVIOUS
  <2>10. PICK winner, merge :
            /\ winner = IF op.pootle_wins THEN "pootle" ELSE "fs"
            /\ merge = op.merge
    OBVIOUS
  <2>1. Staged(R, v, s, op) = {changed(r) : r \in R}
          \cup create_store_fs(v, s.conflict_untracked, winner, merge, FALSE)
    BY <1>3, <2>10 DEF Staged, Resolve
  <2>2. \A r \in R : g[r].path = r.path /\ g[r].fk = r.fk
    <3>1. ASSUME NEW r \in R
          PROVE  changed(r).path = r.path /\ changed(r).fk = r.fk
      <4>1. PICK m : m = (r.staged_for_merge \/ op.merge)
        OBVIOUS
      <4>2. CASE r.pk \in s.conflict
        <5>1. changed(r) = [r EXCEPT !.resolve_conflict = winner,
                                     !.staged_for_merge = m]
          BY Zenon, <4>1, <4>2, <2>10
        <5>. HIDE DEF changed
        <5>. QED BY <1>1, <5>1
      <4>3. CASE r.pk \notin s.conflict
        BY <4>3
      <4>. QED BY <4>2, <4>3
    <3>. HIDE DEF changed
    <3>. QED BY <3>1
  <2>3. s.conflict_untracked \cap TrackedPaths(R) = {}
    BY DEF Untracked
  <2>. HIDE DEF changed
  <2>. PICK old : old = {g[r] : r \in R}
    OBVIOUS
  <2>8. PICK no : no = FALSE
    OBVIOUS
  <2>4. Staged(R, v, s, op) = old
          \cup create_store_fs(v, s.conflict_untracked, winner, merge, no)
    BY Zenon, <2>1, <2>8
  <2>5. OneEach(old, v.store)
    BY <2>2, OneEachKept
  <2>6. \A r \in old : r.path \in TrackedPaths(R)
    BY <2>2 DEF TrackedPaths
  <2>7. \A r \in old : r.path \notin s.conflict_untracked
    BY <2>3, <2>6
  <2>9. OneEach(old \cup create_store_fs(v, s.conflict_untracked, winner, merge, no),
                v.store)
    BY <2>5, <2>7, OneEachMade
  <2>. QED BY <2>4, <2>9
<1>4. CASE op.cmd = "rm"
  <2>. DEFINE update == s.both_removed
                \cup (IF op.update # "pootle" THEN s.pootle_removed ELSE {})
                \cup (IF op.update # "fs" THEN s.fs_removed ELSE {})
                \cup (IF op.force THEN s.conflict ELSE {})
              changed(r) == [r EXCEPT !.staged_for_removal =
                                        @ \/ r.pk \in update]
  <2>. PICK g : g = [r \in R |-> changed(r)]
    OBVIOUS
  <2>. PICK ps : ps = IF ~op.force THEN {}
                      ELSE s.conflict_untracked
                           \cup (IF op.update # "pootle" THEN s.pootle_untracked
                                 ELSE {})
                           \cup (IF op.update # "fs" THEN s.fs_untracked
                                 ELSE {})
    OBVIOUS
  <2>1. Staged(R, v, s, op) = {changed(r) : r \in R}
          \cup create_store_fs(v, ps, "none", FALSE, TRUE)
    BY <1>4 DEF Staged, Rm
  <2>2. \A r \in R : g[r].path = r.path /\ g[r].fk = r.fk
    <3>1. \A r \in R : changed(r).path = r.path /\ changed(r).fk = r.fk
      <4>. HIDE DEF update
      <4>. QED BY <1>1
    <3>. HIDE DEF changed
    <3>. QED BY <3>1
  <2>3. ps \cap TrackedPaths(R) = {}
    BY DEF Untracked
  <2>. HIDE DEF changed
  <2>. PICK old : old = {g[r] : r \in R}
    OBVIOUS
  <2>8. PICK none, no, yes : none = "none" /\ no = FALSE /\ yes = TRUE
    OBVIOUS
  <2>4. Staged(R, v, s, op) = old \cup create_store_fs(v, ps, none, no, yes)
    BY Zenon, <2>1, <2>8
  <2>5. OneEach(old, v.store)
    BY <2>2, OneEachKept
  <2>6. \A r \in old : r.path \in TrackedPaths(R)
    BY <2>2 DEF TrackedPaths
  <2>7. \A r \in old : r.path \notin ps
    BY <2>3, <2>6
  <2>9. OneEach(old \cup create_store_fs(v, ps, none, no, yes),
                v.store)
    BY <2>5, <2>7, OneEachMade
  <2>. QED BY <2>4, <2>9
<1>5. CASE op.cmd = "unstage"
  <2>. DEFINE staged == s.remove \cup s.merge_pootle_wins \cup s.merge_fs_wins
                \cup s.pootle_staged \cup s.fs_staged
                \cup {r.pk : r \in {q \in R :
                        /\ q.pk \in s.pootle_ahead \cup s.fs_ahead
                        /\ q.resolve_conflict # "none"}}
              S == {q \in R : ~(q.pk \in staged /\ NeverSynced(q))}
              changed(r) == IF r.pk \in staged
                            THEN [r EXCEPT !.resolve_conflict = "none",
                                           !.staged_for_merge = FALSE,
                                           !.staged_for_removal = FALSE]
                            ELSE r
  <2>. PICK g : g = [r \in R |-> changed(r)]
    OBVIOUS
  <2>1. Staged(R, v, s, op) = R \/ Staged(R, v, s, op) = {changed(r) : r \in S}
    BY <1>5 DEF Staged, Unstage
  <2>2. \A r \in R : g[r].path = r.path /\ g[r].fk = r.fk
    <3>1. ASSUME NEW r \in R
          PROVE  changed(r).path = r.path /\ changed(r).fk = r.fk
      <4>. HIDE DEF staged
      <4>1. CASE r.pk \in staged
        <5>1. PICK none, no : none = "none" /\ no = FALSE
          OBVIOUS
        <5>2. changed(r) = [r EXCEPT !.resolve_conflict = none,
                                     !.staged_for_merge = no,
                                     !.staged_for_removal = no]
          BY Zenon, <4>1, <5>1
        <5>. HIDE DEF changed
        <5>. QED BY <1>1, <5>2
      <4>2. CASE r.pk \notin staged
        BY <4>2
      <4>. QED BY <4>1, <4>2
    <3>. HIDE DEF changed
    <3>. QED BY <3>1
  <2>3. S \subseteq R
    OBVIOUS
  <2>. HIDE DEF changed, S
  <2>4. {changed(r) : r \in S} = {g[r] : r \in S}
    BY <2>3
  <2>5. OneEach({g[r] : r \in S}, v.store)
    BY <2>2, <2>3, OneEachKept
  <2>. QED BY <2>1, <2>4, <2>5
<1>. QED BY <1>2, <1>3, <1>4, <1>5, CommandsAssumption DEF Command

\* So staging keeps one row per path.
LEMMA EndStagingOneRow ==
  ASSUME OneProcess, Parts, OneRow, NEW c \in Procs, EndStaging(c)
  PROVE  OneRow'
<1>1. /\ rows' = Staged(rows, View(c), run[c].state, run[c].op)
      /\ run' = [run EXCEPT ![c] = NULL] /\ store' = store
      /\ ~Idle(c) /\ ~Syncing(c)
  BY DEF EndStaging
<1>2. run[c].op \in Commands /\ run[c].op.cmd # "sync"
  BY DEF EndStaging, Parts, RunInv, StagingRun, SyncRun, Idle, Syncing
<1>3. rows \in SUBSET Row
  BY DEF Parts, RowsInv, GoodRow
<1>4. View(c).store = store /\ OneEach(rows, View(c).store)
  BY OneView DEF OneRow, OneRowPerPath, RowsHaveStores, OneEach
<1>5. Untracked(run[c].state) \cap TrackedPaths(rows) = {}
  BY <1>1 DEF OneRow, StagedAreUntracked
<1>6. OneEach(Staged(rows, View(c), run[c].state, run[c].op), View(c).store)
  BY <1>2, <1>3, <1>4, <1>5, StagedOneEach
<1>7. OneRowPerPath' /\ RowsHaveStores'
  BY <1>1, <1>4, <1>6 DEF OneEach, OneRowPerPath, RowsHaveStores
<1>8. \A d \in Procs : d = c /\ Idle(d)'
  BY <1>1 DEF OneProcess, Idle, Parts, RunInv
<1>. QED BY <1>7, <1>8
         DEF OneRow, UndosAreSingle, StagedAreUntracked, Locked, Syncing

\* A sync that goes on keeps one row per path, if its transaction does.
LEMMA SyncOneRow ==
  ASSUME OneProcess, NEW c \in Procs, run'[c].op.cmd = "sync",
         OneRowPerPath', RowsHaveStores',
         \A p \in Paths : run'[c].undo[p] # NULL =>
                            Single(run'[c].undo[p], p, rows')
  PROVE  OneRow'
<1>1. \A d \in Procs : d = c
  BY DEF OneProcess
<1>2. \A d \in Procs, p \in Paths : Locked(d, p)' =>
         Single(run'[d].undo[p], p, rows')
  BY <1>1 DEF Locked
<1>3. UndosAreSingle'
  BY <1>2 DEF UndosAreSingle
<1>4. StagedAreUntracked'
  BY <1>1 DEF StagedAreUntracked, Syncing
<1>. QED BY <1>3, <1>4 DEF OneRow

\* So does one that is over.
LEMMA OverOneRow ==
  ASSUME OneProcess, NEW c \in Procs, run'[c] = NULL,
         OneRowPerPath', RowsHaveStores'
  PROVE  OneRow'
<1>1. \A d \in Procs : Idle(d)'
  BY DEF OneProcess, Idle
<1>2. UndosAreSingle' /\ StagedAreUntracked'
  BY <1>1 DEF UndosAreSingle, StagedAreUntracked, Locked, Syncing
<1>. QED BY <1>2 DEF OneRow

\* What a transaction holds of the one row of a path stays single.
LEMMA HeldSingle ==
  ASSUME OneRow, NEW c \in Procs, Syncing(c), NEW p \in Paths,
         run[c].undo[p] # NULL,
         NEW R, \A q \in R : \E r \in rows : r.path = q.path /\ r.pk = q.pk
  PROVE  Single(run[c].undo[p], p, R)
<1>1. Single(run[c].undo[p], p, rows)
  BY DEF OneRow, UndosAreSingle, Locked
<1>. QED BY <1>1 DEF Single

\* The transaction that writes to a row holds the single one of its path.
LEMMA TouchedSingle ==
  ASSUME Parts, OneRow, NEW c \in Procs, Syncing(c), NEW t \in rows,
         NEW p \in Paths, Touched(c, t)[p] # NULL,
         NEW R, \A q \in R : \E r \in rows : r.path = q.path /\ r.pk = q.pk
  PROVE  Single(Touched(c, t)[p], p, R)
<1>1. /\ run[c].undo \in [Paths -> Undo \cup {NULL}] /\ t.path \in Paths
  BY SyncingRun, VersionsKnown DEF SyncRun
<1>2. CASE Touched(c, t)[p] = run[c].undo[p]
  BY <1>2, HeldSingle
<1>3. CASE Touched(c, t)[p] # run[c].undo[p]
  <2>1. p = t.path /\ Touched(c, t)[p] = WithRow(run[c].undo[p], t)
    BY <1>1, <1>3 DEF Touched
  <2>2. CASE run[c].undo[p] = NULL
    <3>. PICK u : u = [rows |-> {t}, store |-> store[p],
                       suggested |-> suggested[p]]
      OBVIOUS
    <3>1. Touched(c, t)[p] = u
      BY <2>1, <2>2 DEF WithRow
    <3>2. u.rows = {t} /\ u.store = store[p]
      OBVIOUS
    <3>3. \A q \in R : q.path = p => q.pk = t.pk
      BY <2>1 DEF OneRow, OneRowPerPath
    <3>4. ~t.fk => store[p].st = "none"
      BY <2>1 DEF OneRow, RowsHaveStores
    <3>. QED BY <2>1, <3>1, <3>2, <3>3, <3>4 DEF Single
  <2>3. CASE run[c].undo[p] # NULL
    <3>1. Single(run[c].undo[p], p, rows)
      BY <2>3 DEF OneRow, UndosAreSingle, Locked
    <3>2. t.pk \in Pks(run[c].undo[p].rows)
      BY <2>1, <3>1 DEF Single, Pks
    <3>. QED BY <1>3, <2>1, <2>3, <3>2 DEF WithRow
  <2>. QED BY <2>2, <2>3
<1>. QED BY <1>2, <1>3

\* The run of a sync that goes on.
LEMMA GoOnKeeps ==
  ASSUME Parts, NEW c \in Procs, Syncing(c), NEW i, NEW at, NEW undo,
         GoOn(c, i, at, undo)
  PROVE  run'[c].undo = undo /\ run'[c].op.cmd = "sync"
<1>1. /\ run[c] \in SyncRun /\ run[c].op.cmd = "sync"
      /\ run'[c] = [run[c] EXCEPT !.todo = @ \ {i}, !.at = at, !.undo = undo]
  BY SyncingRun DEF GoOn, Parts, RunInv, Syncing
<1>. QED BY <1>1 DEF SyncRun

\* So does a step that leaves rows, Stores and transaction alone:
LEMMA QuietOneRow ==
  ASSUME OneProcess, Parts, OneRow, NEW c \in Procs, Syncing(c),
         rows' = rows, store' = store,
         run'[c].undo = run[c].undo, run'[c].op.cmd = "sync"
  PROVE  OneRow'
<1>1. OneRowPerPath' /\ RowsHaveStores'
  BY DEF OneRow, OneRowPerPath, RowsHaveStores
<1>2. \A p \in Paths : run'[c].undo[p] # NULL =>
                         Single(run'[c].undo[p], p, rows')
  BY HeldSingle
<1>. QED BY <1>1, <1>2, SyncOneRow

\* passing over an item whose row is gone,
LEMMA SkipItemOneRow ==
  ASSUME OneProcess, Parts, OneRow, NEW c \in Procs, NEW i, SkipItem(c, i)
  PROVE  OneRow'
<1>1. /\ Syncing(c) /\ GoOn(c, i, NULL, run[c].undo)
      /\ rows' = rows /\ store' = store
  BY DEF SkipItem, CanDo, db
<1>. QED BY <1>1, GoOnKeeps, QuietOneRow

\* a push,
LEMMA PushItemOneRow ==
  ASSUME OneProcess, Parts, OneRow, NEW c \in Procs, NEW i, PushItem(c, i)
  PROVE  OneRow'
<1>1. PICK r \in View(c).rows :
        GoOn(c, i, [pk |-> i.pk, step |-> "hash",
                    rev |-> View(c).store[r.path].max_unit_revision,
                    base |-> View(c).store[r.path].val], run[c].undo)
  BY DEF PushItem
<1>2. Syncing(c) /\ rows' = rows /\ store' = store
  BY DEF PushItem, CanDo, db
<1>3. PICK at : GoOn(c, i, at, run[c].undo)
  BY <1>1
<1>. QED BY <1>2, <1>3, GoOnKeeps, QuietOneRow

\* the push that ends a merge,
LEMMA MergePushOneRow ==
  ASSUME OneProcess, Parts, OneRow, NEW c \in Procs, MergePush(c)
  PROVE  OneRow'
<1>. DEFINE r == RowOf(run[c].at.pk)
            s == View(c).store[r.path]
            rev == IF PushSkipped(r, s, file[r.path]) THEN NULL
                   ELSE s.max_unit_revision
<1>. PICK at : at = [pk |-> r.pk, step |-> "hash", rev |-> rev,
                     base |-> Base(s, rev)]
  OBVIOUS
<1>1. /\ Syncing(c) /\ rows' = rows /\ store' = store
      /\ run' = [run EXCEPT ![c].at = at]
  BY DEF MergePush, db
<1>2. run'[c] = [run[c] EXCEPT !.at = at] /\ run[c] \in SyncRun
  BY <1>1, SyncingRun DEF Parts, RunInv
<1>3. run'[c].undo = run[c].undo /\ run'[c].op = run[c].op
  BY <1>2 DEF SyncRun
<1>. QED BY <1>1, <1>3, QuietOneRow DEF Syncing

\* and taking the hash.
LEMMA TakeHashOneRow ==
  ASSUME OneProcess, Parts, OneRow, NEW c \in Procs, TakeHash(c)
  PROVE  OneRow'
<1>. PICK at, p, hash : /\ at = run[c].at /\ p = at.pk[1]
                        /\ hash = file[at.pk[1]].mtime
  OBVIOUS
<1>. PICK last : last = [rev |-> at.rev, hash |-> hash, base |-> at.base]
  OBVIOUS
<1>1. /\ Syncing(c) /\ rows' = rows /\ store' = store
      /\ run' = [run EXCEPT ![c].at = NULL, ![c].done = @ \cup {at.pk},
                            ![c].last_sync[p] = last]
  BY DEF TakeHash, db
<1>2. /\ run'[c] = [run[c] EXCEPT !.at = NULL, !.done = run[c].done \cup {at.pk},
                                  !.last_sync =
                                    [run[c].last_sync EXCEPT ![p] = last]]
      /\ run[c] \in SyncRun
  BY <1>1, SyncingRun DEF Parts, RunInv, SyncRun
<1>3. run'[c].undo = run[c].undo /\ run'[c].op = run[c].op
  BY <1>2 DEF SyncRun
<1>. QED BY <1>1, <1>3, QuietOneRow DEF Syncing

\* Removing a row removes the one of its path.
LEMMA RmItemOneRow ==
  ASSUME OneProcess, Parts, OneRow, NEW c \in Procs, NEW i, RmItem(c, i)
  PROVE  OneRow'
<1>. PICK r : r = RowOf(i.pk)
  OBVIOUS
<1>1. /\ Syncing(c) /\ Exists(i.pk)
      /\ GoOn(c, i, NULL, Touched(c, r))
      /\ rows' = rows \ {r}
      /\ store' = IF ~r.fk THEN store
                  ELSE [store EXCEPT
                         ![r.path] = UpdateData([@ EXCEPT !.st = "obsolete"])]
  BY DEF RmItem, CanDo
<1>2. r \in rows /\ r.path \in Paths
  BY <1>1, RowOfGood
<1>3. OneRowPerPath'
  BY <1>1 DEF OneRow, OneRowPerPath
<1>4. RowsHaveStores'
  <2>1. ASSUME NEW q \in rows', ~q.fk
        PROVE  store'[q.path].st = "none"
    <3>1. q \in rows /\ q.path # r.path /\ q.path \in Paths
      BY <1>1, <1>2, VersionsKnown DEF OneRow, OneRowPerPath
    <3>2. store[q.path].st = "none"
      BY <2>1, <3>1 DEF OneRow, RowsHaveStores
    <3>3. store'[q.path] = store[q.path]
      BY <1>1, <3>1 DEF Parts, StoreInv
    <3>. QED BY <3>2, <3>3
  <2>. QED BY <2>1 DEF RowsHaveStores
<1>5. run'[c].undo = Touched(c, r) /\ run'[c].op.cmd = "sync"
  BY <1>1, GoOnKeeps
<1>6. \A q \in rows' : \E t \in rows : t.path = q.path /\ t.pk = q.pk
  BY <1>1
<1>7. \A p \in Paths : run'[c].undo[p] # NULL =>
                         Single(run'[c].undo[p], p, rows')
  BY <1>1, <1>2, <1>5, <1>6, TouchedSingle
<1>. QED BY <1>3, <1>4, <1>5, <1>7, SyncOneRow

\* A pull gives the one row of its path its Store.
LEMMA PullItemOneRow ==
  ASSUME OneProcess, Parts, OneRow, NEW c \in Procs, NEW i, PullItem(c, i)
  PROVE  OneRow'
<1>. DEFINE r == RowOf(i.pk)
            p == r.path
            merge == i.kind # "pull"
            wins == IF i.kind = "merge_pootle" THEN "pootle" ELSE "fs"
            o == Pull(r, store[p], suggested[p], file[p], merge, wins, revision)
            rev == IF merge THEN o.ret ELSE o.store.max_unit_revision
            undo == IF PullSkipped(r, file[p]) THEN run[c].undo
                    ELSE Touched(c, r)
            pulled(q) == IF q.pk = i.pk THEN [q EXCEPT !.fk = TRUE] ELSE q
<1>. PICK at : at = [pk |-> i.pk,
                     step |-> IF merge /\ run[c].op.update = "all"
                              THEN "push" ELSE "hash",
                     rev |-> rev, base |-> Base(o.store, rev)]
  OBVIOUS
<1>1. /\ rows' = {pulled(q) : q \in rows}
      /\ store' = [store EXCEPT ![p] = o.store]
      /\ Syncing(c) /\ Exists(i.pk)
  BY DEF PullItem, CanDo
<1>2. GoOn(c, i, at, undo)
  BY DEF PullItem
<1>3. r \in rows /\ r.pk = i.pk /\ p \in Paths
  BY <1>1, RowOfGood
<1>4. \A q \in rows : /\ pulled(q).path = q.path /\ pulled(q).pk = q.pk
                      /\ ~pulled(q).fk => pulled(q) = q /\ q.pk # i.pk
  BY DEF Parts, RowsInv, GoodRow, Row
<1>5. \A q \in Paths \ {p} : store'[q] = store[q]
  BY <1>1 DEF Parts, StoreInv
<1>. HIDE DEF pulled, o, p
<1>6. OneRowPerPath'
  BY <1>1, <1>4 DEF OneRow, OneRowPerPath
<1>7. RowsHaveStores'
  <2>1. ASSUME NEW t \in rows', ~t.fk
        PROVE  store'[t.path].st = "none"
    <3>1. PICK q \in rows : t = pulled(q)
      BY <1>1
    <3>2. t = q /\ q.pk # r.pk /\ q.path \in Paths
      BY <1>3, <1>4, <2>1, <3>1, VersionsKnown
    <3>3. q.path # p
      BY <1>3, <3>2 DEF OneRow, OneRowPerPath, p
    <3>4. store[t.path].st = "none"
      BY <2>1, <3>2 DEF OneRow, RowsHaveStores
    <3>. QED BY <1>5, <3>2, <3>3, <3>4
  <2>. QED BY <2>1 DEF RowsHaveStores
<1>8. run'[c].undo = undo /\ run'[c].op.cmd = "sync"
  <2>. HIDE DEF undo
  <2>. QED BY <1>1, <1>2, GoOnKeeps
<1>9. \A q \in rows' : \E t \in rows : t.path = q.path /\ t.pk = q.pk
  BY <1>1, <1>4
<1>10. undo = run[c].undo \/ undo = Touched(c, r)
  OBVIOUS
<1>. HIDE DEF undo, r
<1>11. \A q \in Paths : run'[c].undo[q] # NULL =>
                          Single(run'[c].undo[q], q, rows')
  BY <1>1, <1>3, <1>8, <1>9, <1>10, HeldSingle, TouchedSingle
<1>. QED BY <1>6, <1>7, <1>8, <1>11, SyncOneRow

\* A sync that ends leaves every row at its path.
LEMMA EndSyncOneRow ==
  ASSUME OneProcess, Parts, OneRow, NEW c \in Procs, EndSync(c)
  PROVE  OneRow'
<1>. DEFINE ended(r) == IF r.pk \in run[c].done
                        THEN OnSync(r, run[c].last_sync[r.path]) ELSE r
<1>1. /\ rows' = {ended(r) : r \in rows} /\ store' = store
      /\ run' = [run EXCEPT ![c] = NULL]
  BY DEF EndSync
<1>2. \A r \in rows : ended(r).path = r.path /\ ended(r).fk = r.fk
  BY DEF OnSync, Parts, RowsInv, GoodRow, Row
<1>3. run'[c] = NULL
  BY <1>1 DEF Parts, RunInv
<1>. HIDE DEF ended
<1>4. OneRowPerPath' /\ RowsHaveStores'
  BY <1>1, <1>2 DEF OneRow, OneRowPerPath, RowsHaveStores
<1>. QED BY <1>3, <1>4, OverOneRow

\* A rollback brings back the one row of every path it had overwritten.
LEMMA RollbackOneRow ==
  ASSUME OneProcess, Parts, OneRow, NEW c \in Procs, Rollback(c)
  PROVE  OneRow'
<1>1. /\ rows' = {r \in rows : r.pk \notin Pks(Overwrote(c))} \cup Overwrote(c)
      /\ \A p \in Paths : store'[p] = IF Locked(c, p) THEN run[c].undo[p].store
                                      ELSE store[p]
      /\ run'[c] = NULL
  BY DEF Rollback, Parts, RunInv
<1>2. \A p \in Paths : Locked(c, p) => Single(run[c].undo[p], p, rows)
  BY DEF OneRow, UndosAreSingle
<1>3. ASSUME NEW q \in Overwrote(c)
      PROVE  /\ q.path \in Paths /\ Locked(c, q.path)
             /\ run[c].undo[q.path].rows = {q}
             /\ ~q.fk => run[c].undo[q.path].store.st = "none"
             /\ \A r \in rows : r.path = q.path => r.pk = q.pk
  <2>1. PICK p \in Paths : Locked(c, p) /\ q \in run[c].undo[p].rows
    BY DEF Overwrote
  <2>. QED BY <1>2, <2>1 DEF Single
<1>4. ASSUME NEW r \in rows, r.pk \notin Pks(Overwrote(c))
      PROVE  r.path \in Paths /\ ~Locked(c, r.path)
  <2>1. r.path \in Paths
    BY VersionsKnown
  <2>2. ASSUME Locked(c, r.path)
        PROVE  FALSE
    <3>1. PICK q \in run[c].undo[r.path].rows : r.pk = q.pk
      BY <1>2, <2>1, <2>2 DEF Single
    <3>2. q \in Overwrote(c)
      BY <2>1, <2>2, <3>1 DEF Overwrote
    <3>. QED BY <1>4, <3>1, <3>2 DEF Pks
  <2>. QED BY <2>1, <2>2
<1>5. OneRowPerPath'
  <2>1. ASSUME NEW r \in rows', NEW q \in rows', r.path = q.path
        PROVE  r = q
    <3>1. CASE r \in Overwrote(c) /\ q \in Overwrote(c)
      BY <1>3, <2>1, <3>1
    <3>2. CASE r \notin Overwrote(c) /\ q \notin Overwrote(c)
      BY <1>1, <2>1, <3>2 DEF OneRow, OneRowPerPath
    <3>3. CASE \/ r \in Overwrote(c) /\ q \notin Overwrote(c)
               \/ q \in Overwrote(c) /\ r \notin Overwrote(c)
      BY <1>1, <1>3, <1>4, <2>1, <3>3
    <3>. QED BY <3>1, <3>2, <3>3
  <2>. QED BY <2>1 DEF OneRowPerPath
<1>6. RowsHaveStores'
  <2>1. ASSUME NEW r \in rows', ~r.fk
        PROVE  store'[r.path].st = "none"
    <3>1. CASE r \in Overwrote(c)
      BY <1>1, <1>3, <2>1, <3>1
    <3>2. CASE r \notin Overwrote(c)
      <4>1. r \in rows /\ r.path \in Paths /\ ~Locked(c, r.path)
        BY <1>1, <1>4, <3>2
      <4>. QED BY <1>1, <2>1, <4>1 DEF OneRow, RowsHaveStores
    <3>. QED BY <3>1, <3>2
  <2>. QED BY <2>1 DEF RowsHaveStores
<1>. QED BY <1>1, <1>5, <1>6, OverOneRow

\* In the beginning there are no rows, and nobody has found anything.
LEMMA InitOneRow == Init => OneRow
BY DEF Init, OneRow, OneRowPerPath, RowsHaveStores, UndosAreSingle,
       StagedAreUntracked, Locked, Syncing, Idle

\* Every step of one process keeps one row per path.
LEMMA NextOneRow ==
  ASSUME OneProcess, "recreate" \notin Hazards
  PROVE  Parts /\ OneRow /\ [Next]_vars => OneRow'
<1>. SUFFICES ASSUME Parts, OneRow, [Next]_vars PROVE OneRow'
  OBVIOUS
<1>1. CASE Environment
  BY <1>1, EnvironmentOneRow
<1>2. ASSUME NEW c \in Procs, Begin(c)
      PROVE  OneRow'
  BY <1>2, BeginOneRow
<1>3. ASSUME NEW c \in Procs, Step(c)
      PROVE  OneRow'
  <2>1. CASE EndStaging(c)
    BY <2>1, EndStagingOneRow
  <2>2. ASSUME NEW i \in ToDo(c),
               \/ SkipItem(c, i) \/ RmItem(c, i) \/ PullItem(c, i)
               \/ PushItem(c, i) \/ Crash(c, i)
        PROVE  OneRow'
    <3>1. Crash(c, i) => Rollback(c)
      BY DEF Crash
    <3>. QED BY <2>2, <3>1, SkipItemOneRow, RmItemOneRow, PullItemOneRow,
                PushItemOneRow, RollbackOneRow
  <2>3. CASE MergePush(c) \/ TakeHash(c) \/ EndSync(c)
    BY <2>3, MergePushOneRow, TakeHashOneRow, EndSyncOneRow
  <2>. QED BY <1>3, <2>1, <2>2, <2>3 DEF Step, SyncStep
<1>4. ASSUME NEW c \in Procs, Fail(c)
      PROVE  OneRow'
  BY <1>4, RollbackOneRow DEF Fail
<1>5. CASE UNCHANGED vars
  <2>1. rows' = rows /\ store' = store /\ run' = run
    BY <1>5 DEF vars
  <2>. QED BY <2>1, OneRowOutside
<1>. QED BY <1>1, <1>2, <1>3, <1>4, <1>5 DEF Next

\* When one process runs the commands and no Store is made anew at a path that
\* has a row, a path never has two rows, whatever fails and is rolled back.
THEOREM PathsHaveOneRow ==
  ASSUME OneProcess, "recreate" \notin Hazards
  PROVE  Spec => []OneRowPerPath
<1>1. OneRow => OneRowPerPath
  BY DEF OneRow
<1>2. Init => OneRow
  BY InitOneRow
<1>3. Parts /\ OneRow /\ [Next]_vars => OneRow'
  BY NextOneRow
<1>. QED BY <1>1, <1>2, <1>3, InitParts, NextParts, PTL DEF Spec

-----------------------------------------------------------------------------
(* What is in sync agrees, when one process runs the commands.  A claim is    *)
(* what a row says of the last sync, or what a sync is to write down: the     *)
(* revision and the units of the Store, and the hash of the file.             *)

RowClaim(r) == [rev |-> r.last_sync_revision, hash |-> r.last_sync_hash,
                base |-> r.base]
AtClaim(at, f) == [rev |-> at.rev, hash |-> f.mtime, base |-> at.base]

\* A claim about the Store s and the file f holds; n is the time the next file
\* written gets, which no hash has reached.
Stamped(h, n) == h # NULL => h < n
Sound(v, s, f, n) == Stamped(v.hash, n) /\ Behind(v, s) /\ Agree(v, s, f)
\* The revisions of units are drawn from the counter, none is 0.
Drawn(s) == s.val # NULL => \A u \in Units : s.rev[u] > 0

\* An item that a sync has before it will find something to do.
Pending(i, r, s, f) ==
  /\ i.kind = "push" => \/ s.val = NULL \/ f.mtime = NULL
                        \/ MaxUnitRevision(s) # r.last_sync_revision
  /\ i.kind = "pull" => \/ ~r.fk \/ s.st # "live" \/ f.mtime = NULL
                        \/ f.mtime # r.last_sync_hash
\* A row has one item, and none any more when it has been done.
OneItem(h) ==
  \A i \in h.todo : i.kind # "rm" =>
    /\ i.pk \notin h.done /\ (h.at # NULL => h.at.pk # i.pk)
    /\ \A j \in h.todo : j.kind # "rm" /\ j.pk = i.pk => j = i
\* What the sync h is to write down of the row r holds.
SyncSound(h, r, s, f, n) ==
  /\ r.pk \in h.done => Sound(h.last_sync[r.path], s, f, n)
  /\ h.at # NULL /\ h.at.pk = r.pk /\ h.at.step = "hash" =>
       Sound(AtClaim(h.at, f), s, f, n)
  /\ \A i \in h.todo : i.pk = r.pk => Pending(i, r, s, f)
\* What a rollback would bring back holds.
UndoSound(u, f, n) ==
  Drawn(u.store) /\ \A q \in u.rows : Sound(RowClaim(q), u.store, f, n)

FilesStamped == \A p \in Paths : Stamped(file[p].mtime, clock)
StoresDrawn == \A p \in Paths : Drawn(store[p])
RowsSound ==
  \A r \in rows : Sound(RowClaim(r), store[r.path], file[r.path], clock)
UndosSound ==
  \A c \in Procs, p \in Paths : Locked(c, p) =>
    UndoSound(run[c].undo[p], file[p], clock)
AtHasRow(h, R) == h.at # NULL => \E r \in R : r.pk = h.at.pk
SyncsSound ==
  \A c \in Procs : Syncing(c) =>
    /\ OneItem(run[c]) /\ AtHasRow(run[c], rows)
    /\ \A r \in rows :
         SyncSound(run[c], r, store[r.path], file[r.path], clock)
Agreeing ==
  FilesStamped /\ StoresDrawn /\ RowsSound /\ UndosSound /\ SyncsSound

-----------------------------------------------------------------------------
(* What the steps do to one Store and one file *)

KnownClaim(v, m) == /\ v.rev \in Nat \cup {NULL} /\ RevBelow(v.rev, m)
                    /\ v.hash \in Nat \cup {NULL}
\* Outside of a pull, a Store keeps its units, and gets live by that no more, or
\* it has none or a unit that was drawn.
StoreMoves(s, s2, m) ==
  \/ /\ s2.val = s.val /\ s2.rev = s.rev
     /\ s2.st = "live" =>
          s.st = "live" /\ s2.last_sync_revision = s.last_sync_revision
  \/ /\ UnitsLater(s, s2, m)
     /\ s2.val # NULL => \E u \in Units : s2.rev[u] > m
\* A file stays, goes or is written.
FileMoves(f, f2, n) == f2 = f \/ f2.mtime \in {n, NULL}

\* What holds of a Store and a file holds after such a step.
LEMMA SoundMoves ==
  ASSUME NEW s \in Store, NEW s2 \in Store, NEW m \in Nat, StoreMoves(s, s2, m),
         NEW k \in Nat, StoreBelow(s2, k),
         NEW n \in Nat, NEW n2 \in Nat, n <= n2,
         NEW f, NEW f2, FileMoves(f, f2, n),
         NEW v, KnownClaim(v, m), Sound(v, s, f, n)
  PROVE  Sound(v, s2, f2, n2)
<1>1. UnitsLater(s, s2, m)
  BY UnitsLaterSame DEF StoreMoves
<1>2. Behind(v, s2)
  BY <1>1, BehindLater DEF Sound, KnownClaim
<1>3. Stamped(v.hash, n2)
  BY DEF Sound, Stamped, KnownClaim
<1>4. Agree(v, s2, f)
  <2>1. CASE /\ s2.val = s.val /\ s2.rev = s.rev
             /\ s2.st = "live" =>
                  s.st = "live" /\ s2.last_sync_revision = s.last_sync_revision
    <3>1. CASE s2.st = "live"
      BY <2>1, <3>1, AgreeSame DEF Sound
    <3>2. CASE s2.st # "live"
      BY <3>2 DEF Agree, Unchanged
    <3>. QED BY <3>1, <3>2
  <2>2. CASE s2.val # NULL => \E u \in Units : s2.rev[u] > m
    <3>1. CASE s2.val = NULL
      BY <3>1 DEF Agree, Unchanged
    <3>2. CASE s2.val # NULL
      <4>1. PICK u \in Units : s2.rev[u] > m
        BY <2>2, <3>2
      <4>. QED BY <4>1, DrawnAgree DEF KnownClaim
    <3>. QED BY <3>1, <3>2
  <2>. QED BY <2>1, <2>2 DEF StoreMoves
<1>5. Agree(v, s2, f2)
  <2>1. CASE f2 = f
    BY <1>4, <2>1
  <2>2. CASE f2.mtime = n \/ f2.mtime = NULL
    BY <2>2, WrittenAgree DEF Sound, Stamped, KnownClaim
  <2>. QED BY <2>1, <2>2 DEF FileMoves
<1>. QED BY <1>2, <1>3, <1>5 DEF Sound

\* Units are drawn from the counter.
LEMMA DrawnLater ==
  ASSUME NEW s \in Store, NEW s2 \in Store, NEW m \in Nat, UnitsLater(s, s2, m),
         Drawn(s)
  PROVE  Drawn(s2)
<1>1. s2.val # NULL => s2.rev \in [Units -> Nat]
  BY DEF Store
<1>. QED BY <1>1 DEF Drawn, UnitsLater

\* An item that is pending stays so when nothing of its file changes.
LEMMA PendingMoves ==
  ASSUME NEW s \in Store, NEW s2 \in Store, NEW m \in Nat, StoreMoves(s, s2, m),
         NEW k \in Nat, StoreBelow(s2, k), s2.st = "live" => s.st = "live",
         NEW r, r.last_sync_revision \in Nat \cup {NULL},
         RevBelow(r.last_sync_revision, m),
         NEW q, q.last_sync_revision = r.last_sync_revision,
         q.last_sync_hash = r.last_sync_hash,
         q.fk = r.fk \/ ~q.fk \/ s2.st # "live",
         NEW f, NEW i, Pending(i, r, s, f)
  PROVE  Pending(i, q, s2, f)
<1>1. ASSUME i.kind = "push"
      PROVE  s2.val = NULL \/ f.mtime = NULL
             \/ MaxUnitRevision(s2) # q.last_sync_revision
  <2>. SUFFICES ASSUME s2.val # NULL, f.mtime # NULL
                PROVE  MaxUnitRevision(s2) # r.last_sync_revision
    OBVIOUS
  <2>1. CASE s2.val = s.val /\ s2.rev = s.rev
    <3>1. MaxUnitRevision(s2) = MaxUnitRevision(s)
      BY <2>1, MaxUnitRevisionSame
    <3>. QED BY <1>1, <2>1, <3>1 DEF Pending
  <2>2. CASE \E u \in Units : s2.rev[u] > m
    <3>1. PICK u \in Units : s2.rev[u] > m
      BY <2>2
    <3>2. s2.rev[u] <= MaxUnitRevision(s2)
      BY UnitsUpToMax
    <3>3. MaxUnitRevision(s2) \in Nat /\ s2.rev[u] \in Nat
      BY MaxUnitRevisionBelow DEF Store
    <3>. QED BY <3>1, <3>2, <3>3, NullAssumption DEF RevBelow
  <2>. QED BY <2>1, <2>2 DEF StoreMoves
<1>2. ASSUME i.kind = "pull"
      PROVE  ~q.fk \/ s2.st # "live" \/ f.mtime = NULL
             \/ f.mtime # q.last_sync_hash
  BY <1>2 DEF Pending
<1>. QED BY <1>1, <1>2 DEF Pending

\* What rows, transactions and syncs say is known.
LEMMA ClaimsKnown ==
  ASSUME Parts
  PROVE  /\ \A r \in rows : KnownClaim(RowClaim(r), revision)
         /\ \A c \in Procs, p \in Paths : Locked(c, p) =>
              \A q \in run[c].undo[p].rows : KnownClaim(RowClaim(q), revision)
         /\ \A c \in Procs : Syncing(c) =>
              /\ \A p \in Paths : KnownClaim(run[c].last_sync[p], revision)
              /\ \A f \in File : run[c].at # NULL =>
                   KnownClaim(AtClaim(run[c].at, f), revision)
<1>1. ASSUME NEW r, GoodRow(r, revision)
      PROVE  KnownClaim(RowClaim(r), revision)
  BY <1>1 DEF GoodRow, Row, RowKeeps, KnownClaim, RowClaim
<1>2. \A r \in rows : GoodRow(r, revision)
  BY DEF Parts, RowsInv
<1>3. ASSUME NEW c \in Procs, NEW p \in Paths, Locked(c, p),
             NEW q \in run[c].undo[p].rows
      PROVE  KnownClaim(RowClaim(q), revision)
  BY <1>1, <1>3, UndoGood
<1>4. ASSUME NEW c \in Procs, Syncing(c)
      PROVE  /\ \A p \in Paths : KnownClaim(run[c].last_sync[p], revision)
             /\ \A f \in File : run[c].at # NULL =>
                  KnownClaim(AtClaim(run[c].at, f), revision)
  <2>1. run[c] \in SyncRun /\ SyncKeeps(run[c], revision)
    BY <1>4, SyncingRun
  <2>2. \A p \in Paths : KnownClaim(run[c].last_sync[p], revision)
    BY <2>1 DEF SyncRun, LastSync, SyncKeeps, KnownClaim
  <2>3. run[c].at # NULL => /\ run[c].at.rev \in Nat \cup {NULL}
                            /\ RevBelow(run[c].at.rev, revision)
    BY <2>1 DEF SyncRun, SyncKeeps, At
  <2>. QED BY <2>2, <2>3 DEF KnownClaim, AtClaim, File
<1>. QED BY <1>1, <1>2, <1>3, <1>4

-----------------------------------------------------------------------------
(* Steps outside the commands *)

\* The row q after the step was r, its Store has become s2.
RowMoves(r, q, s2) ==
  /\ q.pk = r.pk /\ q.path = r.path
  /\ q.last_sync_revision = r.last_sync_revision
  /\ q.last_sync_hash = r.last_sync_hash
  /\ q.base = r.base \/ s2.val = NULL
  /\ q.fk = r.fk \/ ~q.fk
\* What holds of a row holds after it has lost its Store.
LEMMA RowSoundMoves ==
  ASSUME NEW r, NEW q, NEW s, NEW f, NEW n, RowMoves(r, q, s),
         Sound(RowClaim(r), s, f, n)
  PROVE  Sound(RowClaim(q), s, f, n)
<1>1. CASE s.val = NULL
  BY <1>1 DEF Sound, RowClaim, RowMoves, Behind, Agree, Unchanged
<1>2. CASE q.base = r.base
  BY <1>2 DEF RowMoves, RowClaim
<1>. QED BY <1>1, <1>2 DEF RowMoves

\* What a transaction would bring back holds, whatever happens to the file.
LEMMA UndoSoundMoves ==
  ASSUME NEW u, u.store \in Store, NEW m \in Nat, StoreBelow(u.store, m),
         \A q \in u.rows : KnownClaim(RowClaim(q), m),
         NEW n \in Nat, NEW n2 \in Nat, n <= n2,
         NEW f, NEW f2, FileMoves(f, f2, n), UndoSound(u, f, n)
  PROVE  UndoSound(u, f2, n2)
<1>1. StoreMoves(u.store, u.store, m)
  BY DEF StoreMoves
<1>. QED BY <1>1, SoundMoves DEF UndoSound

\* A step outside the commands that moves rows, Stores and files.
LEMMA OutsideAgreeing ==
  ASSUME Parts, Parts', Agreeing, run' = run, revision <= revision',
         \A p \in Paths : /\ StoreMoves(store[p], store'[p], revision)
                          /\ FileMoves(file[p], file'[p], clock),
         clock <= clock', FilesStamped',
         AnySync => /\ file' = file
                    /\ \A p \in Paths : store'[p].st = "live" =>
                                          store[p].st = "live",
         \A q \in rows' : \E r \in rows : RowMoves(r, q, store'[q.path]),
         \A r \in rows : \E q \in rows' : q.pk = r.pk
  PROVE  Agreeing'
<1>1. /\ clock \in Nat /\ clock' \in Nat
      /\ revision \in Nat /\ revision' \in Nat
  BY DEF Parts, FileInv, NumbersInv
<1>2. \A p \in Paths : /\ store[p] \in Store /\ store'[p] \in Store
                       /\ StoreBelow(store'[p], revision')
  BY DEF Parts, StoreInv, GoodStore
<1>3. ASSUME NEW p \in Paths, NEW v, KnownClaim(v, revision),
             Sound(v, store[p], file[p], clock)
      PROVE  Sound(v, store'[p], file'[p], clock')
  BY <1>1, <1>2, <1>3, SoundMoves
<1>4. StoresDrawn'
  <2>1. \A p \in Paths : UnitsLater(store[p], store'[p], revision)
    BY UnitsLaterSame DEF StoreMoves
  <2>2. \A p \in Paths : Drawn(store'[p])
    BY <1>1, <1>2, <2>1, DrawnLater DEF Agreeing, StoresDrawn
  <2>. QED BY <2>2 DEF StoresDrawn
<1>5. RowsSound'
  <2>1. ASSUME NEW q \in rows'
        PROVE  Sound(RowClaim(q), store'[q.path], file'[q.path], clock')
    <3>1. PICK r \in rows : RowMoves(r, q, store'[q.path])
      OBVIOUS
    <3>2. r.path \in Paths /\ r.path = q.path
      BY <3>1, VersionsKnown DEF RowMoves
    <3>3. Sound(RowClaim(r), store[r.path], file[r.path], clock)
      BY DEF Agreeing, RowsSound
    <3>4. Sound(RowClaim(r), store'[r.path], file'[r.path], clock')
      BY <1>3, <3>2, <3>3, ClaimsKnown
    <3>. QED BY <3>1, <3>2, <3>4, RowSoundMoves
  <2>. QED BY <2>1 DEF RowsSound
<1>6. UndosSound'
  <2>1. ASSUME NEW c \in Procs, NEW p \in Paths, Locked(c, p)
        PROVE  UndoSound(run[c].undo[p], file'[p], clock')
    <3>1. UndoSound(run[c].undo[p], file[p], clock)
      BY <2>1 DEF Agreeing, UndosSound
    <3>2. /\ run[c].undo[p].store \in Store
          /\ StoreBelow(run[c].undo[p].store, revision)
      BY <2>1, UndoGood DEF GoodStore
    <3>3. \A q \in run[c].undo[p].rows : KnownClaim(RowClaim(q), revision)
      BY <2>1, ClaimsKnown
    <3>. QED BY <1>1, <3>1, <3>2, <3>3, UndoSoundMoves
  <2>2. \A c \in Procs, p \in Paths : Locked(c, p)' => Locked(c, p)
    BY DEF Locked, Syncing, Idle
  <2>. QED BY <2>1, <2>2 DEF UndosSound
<1>7. SyncsSound'
  <2>1. ASSUME NEW c \in Procs, Syncing(c)
        PROVE  /\ OneItem(run[c]) /\ AtHasRow(run[c], rows')
               /\ \A q \in rows' :
                    SyncSound(run[c], q, store'[q.path], file'[q.path], clock')
    <3>1. file' = file /\ \A p \in Paths : store'[p].st = "live" =>
                                             store[p].st = "live"
      BY <2>1 DEF AnySync
    <3>2. /\ OneItem(run[c]) /\ AtHasRow(run[c], rows)
          /\ \A r \in rows :
               SyncSound(run[c], r, store[r.path], file[r.path], clock)
      BY <2>1 DEF Agreeing, SyncsSound
    <3>3. AtHasRow(run[c], rows')
      BY <3>2 DEF AtHasRow
    <3>4. ASSUME NEW q \in rows'
          PROVE  SyncSound(run[c], q, store'[q.path], file'[q.path], clock')
      <4>1. PICK r \in rows : RowMoves(r, q, store'[q.path])
        OBVIOUS
      <4>2. r.path \in Paths /\ r.path = q.path /\ r.pk = q.pk
        BY <4>1, VersionsKnown DEF RowMoves
      <4>3. SyncSound(run[c], r, store[q.path], file[q.path], clock)
        BY <3>2, <4>2
      <4>4. /\ KnownClaim(run[c].last_sync[q.path], revision)
            /\ run[c].at # NULL =>
                 KnownClaim(AtClaim(run[c].at, file[q.path]), revision)
        BY <2>1, <4>2, ClaimsKnown DEF Parts, FileInv
      <4>5. q.pk \in run[c].done =>
              Sound(run[c].last_sync[q.path], store'[q.path], file'[q.path], clock')
        BY <1>3, <4>2, <4>3, <4>4 DEF SyncSound
      <4>6. run[c].at # NULL /\ run[c].at.pk = q.pk /\ run[c].at.step = "hash" =>
              Sound(AtClaim(run[c].at, file'[q.path]), store'[q.path],
                    file'[q.path], clock')
        BY <1>3, <3>1, <4>2, <4>3, <4>4 DEF SyncSound
      <4>7. ASSUME NEW i \in run[c].todo, i.pk = q.pk
            PROVE  Pending(i, q, store'[q.path], file'[q.path])
        <5>1. Pending(i, r, store[q.path], file[q.path])
          BY <4>2, <4>3, <4>7 DEF SyncSound
        <5>2. /\ r.last_sync_revision \in Nat \cup {NULL}
              /\ RevBelow(r.last_sync_revision, revision)
          BY ClaimsKnown DEF KnownClaim, RowClaim
        <5>. QED BY <1>1, <1>2, <3>1, <4>1, <4>2, <5>1, <5>2, PendingMoves
                 DEF RowMoves
      <4>. QED BY <4>5, <4>6, <4>7 DEF SyncSound
    <3>. QED BY <3>2, <3>3, <3>4
  <2>2. \A c \in Procs : Syncing(c)' => Syncing(c)
    BY DEF Syncing, Idle
  <2>. QED BY <2>1, <2>2 DEF SyncsSound
<1>. QED BY <1>4, <1>5, <1>6, <1>7 DEF Agreeing

\* Rows that stay as they are.
LEMMA RowsStay ==
  ASSUME rows' = rows
  PROVE  /\ \A q \in rows' : \E r \in rows : RowMoves(r, q, store'[q.path])
         /\ \A r \in rows : \E q \in rows' : q.pk = r.pk
BY DEF RowMoves

\* A Store that stays as it is.
LEMMA StoreStays ==
  ASSUME NEW s, NEW m
  PROVE  StoreMoves(s, s, m)
BY DEF StoreMoves

\* So does one that is made obsolete.
LEMMA ObsoleteMoves ==
  ASSUME NEW s \in Store, NEW m
  PROVE  /\ StoreMoves(s, UpdateData([s EXCEPT !.st = "obsolete"]), m)
         /\ UpdateData([s EXCEPT !.st = "obsolete"]).st = "obsolete"
<1>. DEFINE s2 == [s EXCEPT !.st = "obsolete"]
<1>1. s2 \in Store \/ s.st = "none"
  BY DEF Store
<1>2. /\ s2.val = s.val /\ s2.rev = s.rev /\ s2.st = "obsolete"
  BY DEF Store
<1>3. UpdateData(s2) = [s2 EXCEPT !.max_unit_revision = MaxUnitRevision(s2)]
  BY DEF UpdateData
<1>4. /\ UpdateData(s2).val = s2.val /\ UpdateData(s2).rev = s2.rev
      /\ UpdateData(s2).st = s2.st
  BY <1>3 DEF Store
<1>. QED BY <1>2, <1>4 DEF StoreMoves

\* Translators and fetches, if none in the middle of a sync, keep what is in
\* sync agreeing.
LEMMA EnvironmentAgreeing ==
  ASSUME "fetch_in_sync" \notin Hazards, Parts, Parts', Agreeing, Environment
  PROVE  Agreeing'
<1>1. PICK p \in Paths :
          \/ \E u \in Units, x \in Vals : EditUnit(p, u, x)
          \/ \E x \in Content : WriteFile(p, x) \/ CreateStore(p, x)
          \/ WriteFile(p, NULL)
          \/ RemoveFile(p) \/ DeleteStore(p) \/ MakeObsolete(p)
  BY DEF Environment
<1>2. /\ clock \in Nat /\ revision \in Nat
      /\ file \in [Paths -> File] /\ store \in [Paths -> Store]
      /\ \A q \in Paths : store[q] \in Store
  BY DEF Parts, FileInv, NumbersInv, StoreInv
<1>3. clock' = clock /\ file' = file => FilesStamped'
  BY DEF Agreeing, FilesStamped
<1>4. \A q \in Paths : FileMoves(file[q], file[q], clock)
  BY DEF FileMoves
<1>5. ASSUME NEW u \in Units, NEW x \in Vals, EditUnit(p, u, x)
      PROVE  Agreeing'
  <2>1. /\ rows' = rows /\ run' = run /\ file' = file /\ clock' = clock
        /\ store[p].st = "live" /\ store[p].val # NULL /\ revision' = revision + 1
        /\ \A q \in Paths \ {p} : store'[q] = store[q]
        /\ store'[p] = UpdateData([store[p] EXCEPT
                          !.val = [@ EXCEPT ![u] = x],
                          !.rev = [@ EXCEPT ![u] = revision + 1]])
    BY <1>2, <1>5 DEF EditUnit
  <2>. DEFINE s2 == [store[p] EXCEPT !.val = [@ EXCEPT ![u] = x],
                                     !.rev = [@ EXCEPT ![u] = revision + 1]]
  <2>2. s2 \in Store
    BY <1>5, EditedInStore
  <2>3. /\ s2.val = [store[p].val EXCEPT ![u] = x]
        /\ s2.rev = [store[p].rev EXCEPT ![u] = revision + 1]
    BY <1>2 DEF Store
  <2>4. store[p].val \in Content /\ store[p].rev \in [Units -> Nat]
    BY <1>2, <2>1 DEF Store
  <2>5. /\ s2.rev[u] = revision + 1
        /\ \A w \in Units \ {u} : /\ s2.rev[w] = store[p].rev[w]
                                  /\ s2.val[w] = store[p].val[w]
    BY <2>3, <2>4 DEF Content
  <2>. HIDE DEF s2
  <2>6. store'[p].val = s2.val /\ store'[p].rev = s2.rev
    <3>1. store'[p] = UpdateData(s2)
      BY <2>1 DEF s2
    <3>2. UpdateData(s2).val = s2.val /\ UpdateData(s2).rev = s2.rev
      BY <2>2, UpdateDataKeeps DEF Store
    <3>. QED BY <3>1, <3>2
  <2>7. StoreMoves(store[p], store'[p], revision)
    BY <1>2, <2>1, <2>5, <2>6 DEF StoreMoves, UnitsLater
  <2>8. \A q \in Paths : StoreMoves(store[q], store'[q], revision)
    BY <2>1, <2>7, StoreStays
  <2>9. revision <= revision' /\ clock <= clock'
    BY <1>2, <2>1
  <2>10. \A q \in Paths : store'[q].st = "live" => store[q].st = "live"
    BY <2>1
  <2>. QED BY <1>3, <1>4, <2>1, <2>8, <2>9, <2>10, RowsStay, OutsideAgreeing
<1>6. CASE RemoveFile(p) \/ \E x \in Content \cup {NULL} : WriteFile(p, x)
  <2>1. /\ rows' = rows /\ run' = run /\ store' = store /\ revision' = revision
        /\ ~AnySync /\ clock <= clock' /\ clock' \in Nat
        /\ \A q \in Paths \ {p} : file'[q] = file[q]
        /\ \/ file'[p].mtime = NULL
           \/ file'[p].mtime = clock /\ clock' = clock + 1
    BY <1>2, <1>6 DEF RemoveFile, WriteFile, NoFile
  <2>2. \A q \in Paths : FileMoves(file[q], file'[q], clock)
    BY <2>1 DEF FileMoves
  <2>3. FilesStamped'
    <3>1. \A q \in Paths : Stamped(file[q].mtime, clock)
                           /\ file[q].mtime \in Nat \cup {NULL}
      BY <1>2 DEF Agreeing, FilesStamped, File
    <3>2. \A q \in Paths : Stamped(file'[q].mtime, clock')
      BY <1>2, <2>1, <3>1 DEF Stamped
    <3>. QED BY <3>2 DEF FilesStamped
  <2>4. \A q \in Paths : StoreMoves(store[q], store'[q], revision)
    BY <2>1, StoreStays
  <2>5. revision <= revision'
    BY <1>2, <2>1
  <2>. QED BY <2>1, <2>2, <2>3, <2>4, <2>5, RowsStay, OutsideAgreeing
<1>7. ASSUME NEW x \in Content, CreateStore(p, x)
      PROVE  Agreeing'
  <2>. PICK o : o = AddUnits(EmptyStore, {}, x, revision)
    OBVIOUS
  <2>1. /\ rows' = rows /\ run' = run /\ file' = file /\ clock' = clock
        /\ ~AnySync /\ revision' = o.revision
        /\ \A q \in Paths \ {p} : store'[q] = store[q]
        /\ store'[p] = o.store
    BY <1>2, <1>7 DEF CreateStore
  <2>2. EmptyStore \in Store /\ EmptyStore.st # "none"
    BY NullAssumption DEF EmptyStore, NoStore, Store
  <2>3. \A u \in Units : o.store.rev[u] = revision + 1
    <3>. PICK e : e = EmptyStore
      OBVIOUS
    <3>1. e \in Store /\ e.st # "none" /\ o = AddUnits(e, {}, x, revision)
      BY <2>2
    <3>. QED BY <1>2, <3>1, AddedUnits
  <2>4. o.revision = revision + 2
    BY DEF AddUnits, Outcome
  <2>5. StoreMoves(store[p], store'[p], revision)
    BY <1>2, <2>1, <2>3, UnitsAssumption DEF StoreMoves, UnitsLater
  <2>6. \A q \in Paths : StoreMoves(store[q], store'[q], revision)
    BY <2>1, <2>5, StoreStays
  <2>7. revision <= revision' /\ clock <= clock'
    BY <1>2, <2>1, <2>4
  <2>. QED BY <1>3, <1>4, <2>1, <2>6, <2>7, RowsStay, OutsideAgreeing
<1>8. CASE MakeObsolete(p)
  <2>. DEFINE s2 == [store[p] EXCEPT !.st = "obsolete"]
  <2>1. /\ rows' = rows /\ run' = run /\ file' = file /\ clock' = clock
        /\ revision' = revision /\ store[p].st = "live"
        /\ \A q \in Paths \ {p} : store'[q] = store[q]
        /\ store'[p] = UpdateData(s2)
    BY <1>2, <1>8 DEF MakeObsolete
  <2>2. StoreMoves(store[p], store'[p], revision)
    BY <1>2, <2>1, ObsoleteMoves
  <2>3. \A q \in Paths : StoreMoves(store[q], store'[q], revision)
    BY <2>1, <2>2, StoreStays
  <2>4. revision <= revision' /\ clock <= clock'
    BY <1>2, <2>1
  <2>5. \A q \in Paths : store'[q].st = "live" => store[q].st = "live"
    BY <2>1
  <2>. QED BY <1>3, <1>4, <2>1, <2>3, <2>4, <2>5, RowsStay, OutsideAgreeing
<1>9. CASE DeleteStore(p)
  <2>. DEFINE lost(r) == IF r.path = p
                         THEN [r EXCEPT !.fk = FALSE, !.base = NULL] ELSE r
  <2>1. /\ rows' = {lost(r) : r \in rows} /\ run' = run
        /\ file' = file /\ clock' = clock /\ revision' = revision
        /\ \A q \in Paths \ {p} : store'[q] = store[q]
        /\ store'[p].val = NULL /\ store'[p].st = "none"
    BY <1>2, <1>9 DEF DeleteStore, NoStore
  <2>2. ASSUME NEW r \in rows
        PROVE  RowMoves(r, lost(r), store'[r.path]) /\ lost(r).path = r.path
    <3>1. r \in Row
      BY DEF Parts, RowsInv, GoodRow
    <3>2. CASE r.path = p
      <4>. PICK no : no = FALSE
        OBVIOUS
      <4>1. lost(r) = [r EXCEPT !.fk = no, !.base = NULL]
        BY Zenon, <3>2
      <4>. HIDE DEF lost
      <4>2. /\ lost(r).pk = r.pk /\ lost(r).path = r.path
            /\ lost(r).last_sync_revision = r.last_sync_revision
            /\ lost(r).last_sync_hash = r.last_sync_hash
            /\ lost(r).fk = no
        BY <3>1, <4>1 DEF Row
      <4>. QED BY <2>1, <3>2, <4>2 DEF RowMoves
    <3>3. CASE r.path # p
      BY <3>3 DEF RowMoves
    <3>. QED BY <3>2, <3>3
  <2>. HIDE DEF lost
  <2>3. /\ \A q \in rows' : \E r \in rows : RowMoves(r, q, store'[q.path])
        /\ \A r \in rows : \E q \in rows' : q.pk = r.pk
    BY <2>1, <2>2 DEF RowMoves
  <2>4. StoreMoves(store[p], store'[p], revision)
    BY <2>1 DEF StoreMoves, UnitsLater
  <2>5. \A q \in Paths : StoreMoves(store[q], store'[q], revision)
    BY <2>1, <2>4, StoreStays
  <2>6. revision <= revision' /\ clock <= clock'
    BY <1>2, <2>1
  <2>7. \A q \in Paths : store'[q].st = "live" => store[q].st = "live"
    BY <2>1
  <2>. QED BY <1>3, <1>4, <2>1, <2>3, <2>5, <2>6, <2>7, OutsideAgreeing
<1>. QED BY <1>1, <1>5, <1>6, <1>7, <1>8, <1>9

-----------------------------------------------------------------------------
(* Commands begin *)

\* No command, or one that stages: nothing is held.
LEMMA OverAgreeing ==
  ASSUME OneProcess, NEW c \in Procs, ~Syncing(c)',
         FilesStamped', StoresDrawn', RowsSound'
  PROVE  Agreeing'
<1>1. \A d \in Procs : ~Syncing(d)'
  BY DEF OneProcess
<1>. QED BY <1>1 DEF Agreeing, UndosSound, SyncsSound, Locked

\* A sync goes on.
LEMMA SyncAgreeing ==
  ASSUME OneProcess, NEW c \in Procs, run'[c].op.cmd = "sync",
         FilesStamped', StoresDrawn', RowsSound',
         \A p \in Paths : run'[c].undo[p] # NULL =>
           UndoSound(run'[c].undo[p], file'[p], clock'),
         OneItem(run'[c]), AtHasRow(run'[c], rows'),
         \A r \in rows' :
           SyncSound(run'[c], r, store'[r.path], file'[r.path], clock')
  PROVE  Agreeing'
<1>1. \A d \in Procs : d = c
  BY DEF OneProcess
<1>2. UndosSound'
  BY <1>1 DEF UndosSound, Locked
<1>3. SyncsSound'
  BY <1>1 DEF SyncsSound
<1>. QED BY <1>2, <1>3 DEF Agreeing

\* Nothing but the run of a process changes.
LEMMA AllStays ==
  ASSUME Agreeing, rows' = rows, store' = store, file' = file, clock' = clock
  PROVE  FilesStamped' /\ StoresDrawn' /\ RowsSound'
BY DEF Agreeing, FilesStamped, StoresDrawn, RowsSound

\* The states that a sync makes items from have no row in common.
LEMMA KindsApart ==
  ASSUME NEW v, v.tracked = TrackedPaths(v.rows),
         v.found = ExistingFiles(v.file), NEW r, r.path \in Paths
  PROVE  /\ ~(/\ r \in FsStaged(v) \cup FsAhead(v)
              /\ r \in PootleStaged(v) \cup PootleAhead(v))
         /\ r \in MergePootleWins(v) \cup MergeFsWins(v) =>
              /\ r \notin FsStaged(v) \cup FsAhead(v)
              /\ r \notin PootleStaged(v) \cup PootleAhead(v)
         /\ ~(r \in MergePootleWins(v) /\ r \in MergeFsWins(v))
<1>1. r \in v.rows => (Missing(v, r.path) <=> ~Found(v, r.path))
  BY DEF Missing, Found, TrackedPaths
<1>2. Found(v, r.path) <=> r.path \in ExistingFiles(v.file)
  BY DEF Found
<1>3. r \in Synced(v) => r \notin Unsynced(v) /\ r \in v.rows
  BY DEF Synced, Unsynced
<1>4. r \in Synced(v) \cup Unsynced(v) => ~r.staged_for_merge /\ r \in v.rows
  BY DEF Synced, Unsynced, NotStaged
<1>5. r \in PootleChanged(v) => r \in Synced(v) /\ Live(v, r)
  BY DEF PootleChanged
<1>6. ~(/\ r \in FsStaged(v) \cup FsAhead(v)
        /\ r \in PootleStaged(v) \cup PootleAhead(v))
  <2>1. ~(r \in FsAhead(v) /\ r \in PootleAhead(v))
    BY DEF FsAhead, PootleAhead
  <2>2. ~(r \in FsAhead(v) /\ r \in PootleStaged(v))
    BY <1>1, <1>3 DEF FsAhead, PootleStaged
  <2>3. ~(r \in FsStaged(v) /\ r \in PootleAhead(v))
    BY <1>3, <1>5 DEF FsStaged, PootleAhead
  <2>4. ~(r \in FsStaged(v) /\ r \in PootleStaged(v))
    BY <1>1, <1>2, <1>3, <1>4 DEF FsStaged, PootleStaged
  <2>. QED BY <2>1, <2>2, <2>3, <2>4
<1>7. r \in MergePootleWins(v) \cup MergeFsWins(v) => r.staged_for_merge
  BY DEF MergePootleWins, MergeFsWins
<1>8. r \in FsStaged(v) \cup FsAhead(v) \cup PootleStaged(v) \cup PootleAhead(v)
        => r \in Synced(v) \cup Unsynced(v)
  BY <1>5 DEF FsStaged, FsAhead, PootleStaged, PootleAhead
<1>9. ~(r \in MergePootleWins(v) /\ r \in MergeFsWins(v))
  BY DEF MergePootleWins, MergeFsWins
<1>. QED BY <1>4, <1>6, <1>7, <1>8, <1>9

\* The state that the row of an item is in.
ItemFor(i, r, v) ==
  /\ i.kind = "merge_pootle" => r \in MergePootleWins(v)
  /\ i.kind = "merge_fs" => r \in MergeFsWins(v)
  /\ i.kind = "pull" => r \in FsStaged(v) \cup FsAhead(v)
  /\ i.kind = "push" => r \in PootleStaged(v) \cup PootleAhead(v)
  /\ i.kind \in {"rm", "merge_pootle", "merge_fs", "pull", "push"}
  /\ i = [kind |-> i.kind, pk |-> r.pk] /\ r \in v.rows
\* A state is one of rows.
LEMMA StatesOfRows ==
  ASSUME NEW v
  PROVE  FsStaged(v) \cup FsAhead(v) \cup PootleStaged(v) \cup PootleAhead(v)
           \cup MergePootleWins(v) \cup MergeFsWins(v) \cup Remove(v)
           \subseteq v.rows
BY DEF FsStaged, FsAhead, PootleStaged, PootleAhead, MergePootleWins,
       MergeFsWins, Remove, PootleChanged, Synced, Unsynced

\* Every item is for a row in its state.
LEMMA TodoFor ==
  ASSUME NEW v, NEW update, NEW i \in Todo(State(v), update)
  PROVE  \E r \in v.rows : ItemFor(i, r, v) /\ r.pk = i.pk
<1>. DEFINE made(kind, X) == i.kind = kind /\ i.pk \in Pks(X)
                             /\ i = [kind |-> kind, pk |-> i.pk]
<1>1. \/ made("rm", Remove(v))
      \/ made("merge_pootle", MergePootleWins(v))
      \/ made("merge_fs", MergeFsWins(v))
      \/ made("pull", FsStaged(v)) \/ made("pull", FsAhead(v))
      \/ made("push", PootleStaged(v)) \/ made("push", PootleAhead(v))
  BY DEF Todo, State
<1>. QED BY <1>1, StatesOfRows DEF Pks, ItemFor

\* A row that is in such a state has something to do.
LEMMA PendingFor ==
  ASSUME NEW v, v.tracked = TrackedPaths(v.rows),
         v.found = ExistingFiles(v.file), NEW r \in Row, r \in v.rows,
         v.store[r.path] \in Store, NEW i, ItemFor(i, r, v)
  PROVE  Pending(i, r, v.store[r.path], v.file[r.path])
<1>1. r.path \in Paths
  BY DEF Row
<1>2. Missing(v, r.path) => v.file[r.path].mtime = NULL
  BY <1>1 DEF Missing, ExistingFiles
<1>3. MaxUnitRevision(v.store[r.path]) # NULL
  BY MaxUnitRevisionBelow, NullAssumption
<1>4. ASSUME i.kind = "push"
      PROVE  \/ v.store[r.path].val = NULL \/ v.file[r.path].mtime = NULL
             \/ MaxUnitRevision(v.store[r.path]) # r.last_sync_revision
  <2>1. r \in PootleStaged(v) \cup PootleAhead(v)
    BY <1>4 DEF ItemFor
  <2>. QED BY <1>2, <1>3, <2>1 DEF PootleStaged, PootleAhead, PootleChanged, Unsynced
<1>5. ASSUME i.kind = "pull"
      PROVE  \/ ~r.fk \/ v.store[r.path].st # "live"
             \/ v.file[r.path].mtime = NULL
             \/ v.file[r.path].mtime # r.last_sync_hash
  <2>1. r \in FsStaged(v) \cup FsAhead(v)
    BY <1>5 DEF ItemFor
  <2>. QED BY <2>1 DEF FsStaged, FsAhead, FSChanged, Live, Unsynced
<1>. QED BY <1>4, <1>5 DEF Pending

\* A sync that begins has one item for a row, with something to do.
LEMMA BeginSyncAgreeing ==
  ASSUME OneProcess, Parts, OneRow, Agreeing, NEW c \in Procs,
         NEW op \in Commands, BeginSync(c, op)
  PROVE  Agreeing'
<1>1. /\ rows' = rows /\ store' = store /\ file' = file /\ clock' = clock
      /\ run'[c] = [op |-> op, todo |-> Todo(State(View(c)), op.update),
                    at |-> NULL, done |-> {},
                    last_sync |-> [p \in Paths |-> NotSynced],
                    undo |-> [p \in Paths |-> NULL]]
      /\ op.cmd = "sync"
  BY DEF BeginSync, StartSync, Parts, RunInv, db
<1>. PICK v, h : v = View(c) /\ h = run'[c]
  OBVIOUS
<1>2. /\ h.todo = Todo(State(v), op.update) /\ h.at = NULL /\ h.done = {}
      /\ h.op.cmd = "sync" /\ \A p \in Paths : h.undo[p] = NULL
  BY <1>1
<1>3. v.rows = rows /\ v.store = store /\ v.tracked = TrackedPaths(v.rows)
  BY OneView
<1>4. v.file = file /\ v.found = ExistingFiles(v.file)
  BY DEF View
<1>5. \A r \in rows : r \in Row /\ r.path \in Paths /\ r.path = r.pk[1]
                      /\ store[r.path] \in Store
  BY VersionsKnown DEF Parts, RowsInv, GoodRow, Row, StoreInv
<1>6. ASSUME NEW i \in h.todo, NEW r \in rows, r.pk = i.pk
      PROVE  ItemFor(i, r, v)
  <2>1. PICK q \in rows : ItemFor(i, q, v) /\ q.pk = i.pk
    BY <1>2, <1>3, TodoFor
  <2>2. q = r
    BY <1>5, <1>6, <2>1 DEF OneRow, OneRowPerPath
  <2>. QED BY <2>1, <2>2
<1>7. ASSUME NEW i \in h.todo, i.kind # "rm", NEW j \in h.todo, j.kind # "rm",
             j.pk = i.pk
      PROVE  j = i
  <2>1. PICK r \in rows : ItemFor(i, r, v) /\ r.pk = i.pk
    BY <1>2, <1>3, TodoFor
  <2>2. ItemFor(j, r, v)
    BY <1>6, <1>7, <2>1
  <2>3. i.kind = j.kind
    BY <1>3, <1>4, <1>5, <1>7, <2>1, <2>2, KindsApart DEF ItemFor
  <2>. QED BY <2>1, <2>2, <2>3 DEF ItemFor
<1>8. OneItem(h)
  BY <1>2, <1>7 DEF OneItem
<1>9. ASSUME NEW r \in rows
      PROVE  SyncSound(h, r, store[r.path], file[r.path], clock)
  <2>1. \A i \in h.todo : i.pk = r.pk =>
          Pending(i, r, store[r.path], file[r.path])
    BY <1>3, <1>4, <1>5, <1>6, PendingFor
  <2>. QED BY <1>2, <2>1 DEF SyncSound
<1>10. AtHasRow(h, rows')
  BY <1>2 DEF AtHasRow
<1>. QED BY <1>1, <1>2, <1>8, <1>9, <1>10, AllStays, SyncAgreeing

\* A staging command that begins changes nothing,
LEMMA BeginStagingAgreeing ==
  ASSUME OneProcess, Parts, Agreeing, NEW c \in Procs, NEW op \in Commands,
         BeginStaging(c, op)
  PROVE  Agreeing'
<1>1. /\ rows' = rows /\ store' = store /\ file' = file /\ clock' = clock
      /\ run'[c] = [op |-> op, state |-> State(View(c))] /\ op.cmd # "sync"
  BY DEF BeginStaging, StartStaging, Parts, RunInv, db
<1>2. ~Syncing(c)'
  BY <1>1 DEF Syncing
<1>. QED BY <1>1, <1>2, AllStays, OverAgreeing

\* and one that ends changes nothing that a row says of the last sync.
LEMMA EndStagingAgreeing ==
  ASSUME OneProcess, Parts, Agreeing, NEW c \in Procs, EndStaging(c)
  PROVE  Agreeing'
<1>1. /\ rows' = Staged(rows, View(c), run[c].state, run[c].op)
      /\ run'[c] = NULL /\ store' = store /\ file' = file /\ clock' = clock
  BY DEF EndStaging, Parts, RunInv
<1>2. run[c].op \in Commands /\ run[c].op.cmd # "sync"
  BY DEF EndStaging, Parts, RunInv, StagingRun, SyncRun, Idle, Syncing
<1>3. rows \in SUBSET Row
  BY DEF Parts, RowsInv, GoodRow
<1>4. \A r \in rows' : SameVersion(r, rows)
  BY <1>1, <1>2, <1>3, StagedVersions
<1>5. ASSUME NEW r \in rows'
      PROVE  Sound(RowClaim(r), store[r.path], file[r.path], clock)
  <2>1. CASE \E q \in rows : /\ q.path = r.path /\ RowVersion(q) = RowVersion(r)
                             /\ q.last_sync_hash = r.last_sync_hash
    <3>1. PICK q \in rows : /\ q.path = r.path /\ RowVersion(q) = RowVersion(r)
                            /\ q.last_sync_hash = r.last_sync_hash
      BY <2>1
    <3>2. RowClaim(q) = RowClaim(r)
      BY <3>1 DEF RowVersion, RowClaim
    <3>. QED BY <3>1, <3>2 DEF Agreeing, RowsSound
  <2>2. CASE r.last_sync_revision = NULL /\ r.last_sync_hash = NULL
    BY <2>2 DEF Sound, Stamped, Behind, Agree, Unchanged, RowClaim
  <2>. QED BY <1>4, <2>1, <2>2 DEF SameVersion
<1>6. RowsSound'
  BY <1>1, <1>5 DEF RowsSound
<1>7. FilesStamped' /\ StoresDrawn' /\ ~Syncing(c)'
  BY <1>1 DEF Agreeing, FilesStamped, StoresDrawn, Syncing, Idle
<1>. QED BY <1>6, <1>7, OverAgreeing

-----------------------------------------------------------------------------
(* The steps of a sync *)

\* What is known of a sync.
LEMMA SyncHeld ==
  ASSUME Agreeing, NEW c \in Procs, Syncing(c)
  PROVE  /\ OneItem(run[c]) /\ AtHasRow(run[c], rows)
         /\ \A r \in rows :
              SyncSound(run[c], r, store[r.path], file[r.path], clock)
BY DEF Agreeing, SyncsSound

\* What its transaction holds of a path, whatever happens to the file.
LEMMA HeldSound ==
  ASSUME Parts, Agreeing, NEW c \in Procs, Syncing(c), NEW p \in Paths,
         run[c].undo[p] # NULL,
         NEW n2 \in Nat, clock <= n2, NEW f2, FileMoves(file[p], f2, clock)
  PROVE  UndoSound(run[c].undo[p], f2, n2)
<1>1. Locked(c, p) /\ UndoSound(run[c].undo[p], file[p], clock)
  BY DEF Locked, Agreeing, UndosSound
<1>2. /\ run[c].undo[p].store \in Store
      /\ StoreBelow(run[c].undo[p].store, revision)
  BY <1>1, UndoGood DEF GoodStore
<1>3. \A q \in run[c].undo[p].rows : KnownClaim(RowClaim(q), revision)
  BY <1>1, ClaimsKnown
<1>. QED BY <1>1, <1>2, <1>3, UndoSoundMoves DEF Parts, FileInv, NumbersInv

\* What it holds after it has written to the row t.
LEMMA TouchedSound ==
  ASSUME Parts, OneRow, Agreeing, NEW c \in Procs, Syncing(c), NEW t \in rows,
         NEW p \in Paths, Touched(c, t)[p] # NULL,
         NEW f2, FileMoves(file[p], f2, clock)
  PROVE  UndoSound(Touched(c, t)[p], f2, clock)
<1>1. /\ run[c].undo \in [Paths -> Undo \cup {NULL}] /\ t.path \in Paths
      /\ clock \in Nat /\ revision \in Nat
  BY SyncingRun, VersionsKnown DEF SyncRun, Parts, FileInv, NumbersInv
<1>2. CASE Touched(c, t)[p] = run[c].undo[p]
  BY <1>1, <1>2, HeldSound
<1>3. CASE Touched(c, t)[p] # run[c].undo[p]
  <2>1. p = t.path /\ Touched(c, t)[p] = WithRow(run[c].undo[p], t)
    BY <1>1, <1>3 DEF Touched
  <2>2. CASE run[c].undo[p] = NULL
    <3>. PICK u : u = [rows |-> {t}, store |-> store[p],
                       suggested |-> suggested[p]]
      OBVIOUS
    <3>1. Touched(c, t)[p] = u
      BY <2>1, <2>2 DEF WithRow
    <3>2. u.rows = {t} /\ u.store = store[p]
      OBVIOUS
    <3>3. /\ u.store \in Store /\ StoreBelow(u.store, revision)
          /\ \A q \in u.rows : KnownClaim(RowClaim(q), revision)
      BY <3>2, ClaimsKnown DEF Parts, StoreInv, GoodStore
    <3>4. UndoSound(u, file[p], clock)
      BY <2>1, <3>2 DEF UndoSound, Agreeing, StoresDrawn, RowsSound
    <3>5. UndoSound(u, f2, clock)
      BY <1>1, <3>3, <3>4, UndoSoundMoves
    <3>. QED BY <3>1, <3>5
  <2>3. CASE run[c].undo[p] # NULL
    <3>1. Single(run[c].undo[p], p, rows)
      BY <2>3 DEF OneRow, UndosAreSingle, Locked
    <3>2. t.pk \in Pks(run[c].undo[p].rows)
      BY <2>1, <3>1 DEF Single, Pks
    <3>. QED BY <1>3, <2>1, <2>3, <3>2 DEF WithRow
  <2>. QED BY <2>2, <2>3
<1>. QED BY <1>2, <1>3

\* The run of a sync that goes on with the next item.
LEMMA GoOnFields ==
  ASSUME Parts, NEW c \in Procs, Syncing(c), NEW i, NEW at, NEW undo,
         GoOn(c, i, at, undo)
  PROVE  /\ run'[c].todo = run[c].todo \ {i} /\ run'[c].at = at
         /\ run'[c].done = run[c].done /\ run'[c].last_sync = run[c].last_sync
         /\ run'[c].undo = undo /\ run'[c].op.cmd = "sync"
<1>1. /\ run[c] \in SyncRun /\ run[c].op.cmd = "sync"
      /\ run'[c] = [run[c] EXCEPT !.todo = @ \ {i}, !.at = at, !.undo = undo]
  BY SyncingRun DEF GoOn, Parts, RunInv, Syncing
<1>. QED BY <1>1 DEF SyncRun

\* It has one item for a row.
LEMMA OneItemGoesOn ==
  ASSUME NEW h, OneItem(h), NEW i \in h.todo, h.at = NULL,
         NEW g, g.todo = h.todo \ {i}, g.done = h.done,
         g.at # NULL => i.kind # "rm" /\ g.at.pk = i.pk
  PROVE  OneItem(g)
BY DEF OneItem

\* What holds of a Store and a file holds at a later time.
LEMMA SoundAges ==
  ASSUME NEW v, v.hash \in Nat \cup {NULL}, NEW s, NEW f,
         NEW n \in Nat, NEW n2 \in Nat, n <= n2, Sound(v, s, f, n)
  PROVE  Sound(v, s, f, n2)
BY DEF Sound, Stamped

\* What a sync is to write down of a row that it does not handle holds.
LEMMA OthersSound ==
  ASSUME NEW h, NEW r, NEW s, NEW f, NEW n \in Nat, NEW n2 \in Nat, n <= n2,
         SyncSound(h, r, s, f, n), h.last_sync[r.path].hash \in Nat \cup {NULL},
         NEW g, g.todo \subseteq h.todo, g.done = h.done,
         g.last_sync = h.last_sync, g.at # NULL => g.at.pk # r.pk
  PROVE  SyncSound(g, r, s, f, n2)
BY SoundAges DEF SyncSound

\* What it has read of a path is known.
LEMMA LastSyncKnown ==
  ASSUME Parts, NEW c \in Procs, Syncing(c), NEW p \in Paths
  PROVE  /\ run[c].last_sync[p].hash \in Nat \cup {NULL}
         /\ KnownClaim(run[c].last_sync[p], revision)
BY ClaimsKnown DEF KnownClaim

\* Passing over an item whose row is gone changes nothing.
LEMMA SkipItemAgreeing ==
  ASSUME OneProcess, Parts, Agreeing, NEW c \in Procs, NEW i, SkipItem(c, i)
  PROVE  Agreeing'
<1>1. /\ Syncing(c) /\ run[c].at = NULL /\ i \in run[c].todo
      /\ GoOn(c, i, NULL, run[c].undo)
      /\ rows' = rows /\ store' = store /\ file' = file /\ clock' = clock
      /\ clock \in Nat
  BY DEF SkipItem, CanDo, db, Parts, FileInv
<1>. PICK h, g : h = run[c] /\ g = run'[c]
  OBVIOUS
<1>2. /\ g.todo = h.todo \ {i} /\ g.at = NULL /\ g.done = h.done
      /\ g.last_sync = h.last_sync /\ g.undo = h.undo /\ g.op.cmd = "sync"
  BY <1>1, GoOnFields
<1>3. OneItem(g) /\ AtHasRow(g, rows')
  BY <1>1, <1>2, SyncHeld, OneItemGoesOn DEF AtHasRow
<1>4. ASSUME NEW r \in rows
      PROVE  SyncSound(g, r, store[r.path], file[r.path], clock)
  <2>1. SyncSound(h, r, store[r.path], file[r.path], clock)
    BY <1>1, SyncHeld
  <2>2. h.last_sync[r.path].hash \in Nat \cup {NULL}
    BY <1>1, LastSyncKnown, VersionsKnown
  <2>3. clock <= clock
    BY <1>1
  <2>. QED BY <1>1, <1>2, <2>1, <2>2, <2>3, OthersSound
<1>5. ASSUME NEW p \in Paths, g.undo[p] # NULL
      PROVE  UndoSound(g.undo[p], file'[p], clock')
  BY <1>1, <1>2, <1>5, HeldSound DEF FileMoves
<1>. QED BY <1>1, <1>2, <1>3, <1>4, <1>5, AllStays, SyncAgreeing

\* Removing a row leaves the others as they are.
LEMMA RmItemAgreeing ==
  ASSUME OneProcess, Parts, OneRow, Agreeing, NEW c \in Procs, NEW i,
         RmItem(c, i)
  PROVE  Agreeing'
<1>. PICK r : r = RowOf(i.pk)
  OBVIOUS
<1>1. /\ Syncing(c) /\ run[c].at = NULL /\ i \in run[c].todo /\ Exists(i.pk)
      /\ GoOn(c, i, NULL, Touched(c, r))
      /\ rows' = rows \ {r} /\ clock' = clock /\ clock \in Nat
      /\ store' = IF ~r.fk THEN store
                  ELSE [store EXCEPT
                         ![r.path] = UpdateData([@ EXCEPT !.st = "obsolete"])]
      /\ file' = [file EXCEPT ![r.path] = NoFile]
  BY DEF RmItem, CanDo, Parts, FileInv
<1>. PICK h, g : h = run[c] /\ g = run'[c]
  OBVIOUS
<1>2. /\ g.todo = h.todo \ {i} /\ g.at = NULL /\ g.done = h.done
      /\ g.last_sync = h.last_sync /\ g.undo = Touched(c, r)
      /\ g.op.cmd = "sync"
  BY <1>1, GoOnFields
<1>3. r \in rows /\ r.path \in Paths
  BY <1>1, RowOfGood
<1>4. \A q \in Paths \ {r.path} : file'[q] = file[q] /\ store'[q] = store[q]
  BY <1>1 DEF Parts, FileInv, StoreInv
<1>5. file'[r.path].mtime = NULL
  BY <1>1, <1>3 DEF Parts, FileInv, NoFile
<1>6. \A q \in rows' : q \in rows /\ q.path \in Paths \ {r.path}
  BY <1>1, <1>3, VersionsKnown DEF OneRow, OneRowPerPath
<1>7. \A p \in Paths : FileMoves(file[p], file'[p], clock)
  BY <1>4, <1>5 DEF FileMoves
<1>8. FilesStamped'
  BY <1>1, <1>4, <1>5 DEF Agreeing, FilesStamped, Stamped
<1>9. StoresDrawn'
  <2>1. store[r.path] \in Store
    BY <1>3 DEF Parts, StoreInv
  <2>2. /\ UpdateData([store[r.path] EXCEPT !.st = "obsolete"]).val
             = store[r.path].val
        /\ UpdateData([store[r.path] EXCEPT !.st = "obsolete"]).rev
             = store[r.path].rev
    <3>. PICK s : s = [store[r.path] EXCEPT !.st = "obsolete"]
      OBVIOUS
    <3>1. /\ s \in Store /\ s.val = store[r.path].val
          /\ s.rev = store[r.path].rev
      BY <2>1 DEF Store
    <3>2. UpdateData(s).val = s.val /\ UpdateData(s).rev = s.rev
      BY <3>1, UpdateDataKeeps DEF Store
    <3>. QED BY <3>1, <3>2
  <2>3. Drawn(store'[r.path])
    BY <1>1, <1>3, <2>2 DEF Agreeing, StoresDrawn, Drawn, Parts, StoreInv
  <2>. QED BY <1>4, <2>3 DEF Agreeing, StoresDrawn
<1>10. RowsSound'
  BY <1>1, <1>4, <1>6 DEF Agreeing, RowsSound
<1>11. OneItem(g) /\ AtHasRow(g, rows')
  BY <1>1, <1>2, SyncHeld, OneItemGoesOn DEF AtHasRow
<1>12. ASSUME NEW q \in rows'
       PROVE  SyncSound(g, q, store'[q.path], file'[q.path], clock')
  <2>1. SyncSound(h, q, store[q.path], file[q.path], clock)
    BY <1>1, <1>6, SyncHeld
  <2>2. h.last_sync[q.path].hash \in Nat \cup {NULL}
    BY <1>1, <1>6, LastSyncKnown
  <2>3. clock <= clock
    BY <1>1
  <2>. QED BY <1>1, <1>2, <1>4, <1>6, <2>1, <2>2, <2>3, OthersSound
<1>13. ASSUME NEW p \in Paths, g.undo[p] # NULL
       PROVE  UndoSound(g.undo[p], file'[p], clock')
  BY <1>1, <1>2, <1>3, <1>7, <1>13, TouchedSound
<1>. QED BY <1>2, <1>8, <1>9, <1>10, <1>11, <1>12, <1>13, SyncAgreeing

\* A Store without units that gets any has drawn them all.
LEMMA PullOfEmpty ==
  ASSUME NEW r \in Row, NEW s \in Store, s.val = NULL, NEW sugg,
         NEW f \in File, f.val # NULL, NEW merge \in BOOLEAN, NEW wins,
         NEW rev \in Nat, StoreBelow(s, rev),
         NEW o, o = Pull(r, s, sugg, f, merge, wins, rev), ~PullSkipped(r, f)
  PROVE  \A u \in Units : o.store.rev[u] > rev
<1>. PICK s1 : s1 = StoreToPull(s)
  OBVIOUS
<1>1. s1 \in Store /\ s1.st # "none" /\ s1.val = NULL
  BY StoreToPullKeeps
<1>2. o = AddUnits(s1, sugg, f.val, rev)
  BY <1>1 DEF Pull, UpdateStore
<1>3. f.val \in Content
  BY DEF File
<1>4. \A u \in Units : o.store.rev[u] = rev + 1
  BY <1>1, <1>2, <1>3, AddedUnits
<1>. QED BY <1>4

\* The Store that a pull leaves, as the row that is pulled says of it: the file
\* is not the one it has seen, or the Store is new.
LEMMA PulledRowSound ==
  ASSUME NEW r \in Row, NEW s \in Store, NEW sugg \in Suggestions,
         NEW f \in File, NEW merge \in BOOLEAN,
         NEW wins \in {"pootle", "fs"}, NEW rev \in Nat, StoreBelow(s, rev),
         NEW o, o = Pull(r, s, sugg, f, merge, wins, rev),
         ~r.fk => s.st = "none", NEW n, Sound(RowClaim(r), s, f, n),
         KnownClaim(RowClaim(r), rev)
  PROVE  Sound(RowClaim(r), o.store, f, n)
<1>. PICK v : v = RowClaim(r)
  OBVIOUS
<1>1. Good(o, rev)
  BY PullGood
<1>2. CASE PullSkipped(r, f)
  BY <1>2 DEF Pull, Outcome
<1>3. CASE ~PullSkipped(r, f)
  <2>1. UnitsLater(s, o.store, rev)
    BY PullUnitsLater
  <2>2. Behind(v, o.store)
    BY <1>1, <2>1, BehindLater DEF Sound, KnownClaim, Good
  <2>3. Agree(v, o.store, f)
    <3>1. CASE r.fk
      BY <1>3, <3>1 DEF PullSkipped, Agree, Unchanged, RowClaim
    <3>2. CASE ~r.fk /\ f.val = NULL
      BY <3>2 DEF Agree, Unchanged
    <3>3. CASE ~r.fk /\ f.val # NULL
      <4>1. s.val = NULL
        BY <3>3 DEF Store
      <4>2. PICK u \in Units : TRUE
        BY UnitsAssumption
      <4>3. o.store.rev[u] > rev
        BY <1>3, <3>3, <4>1, PullOfEmpty
      <4>4. o.store \in Store /\ o.revision \in Nat
            /\ StoreBelow(o.store, o.revision)
        BY <1>1 DEF Good
      <4>5. v.rev \in Nat \cup {NULL} /\ RevBelow(v.rev, rev)
        BY DEF KnownClaim
      <4>. QED BY <4>3, <4>4, <4>5, DrawnAgree
    <3>. QED BY <3>1, <3>2, <3>3
  <2>. QED BY <2>2, <2>3 DEF Sound
<1>. QED BY <1>2, <1>3

\* What a sync is to write down of the row it has pulled or merged holds.
LEMMA PulledClaimSound ==
  ASSUME NEW r \in Row, NEW s \in Store, NEW sugg \in Suggestions,
         NEW f \in File, NEW i, NEW merge, merge = (i.kind # "pull"),
         NEW wins \in {"pootle", "fs"}, NEW rev \in Nat, StoreBelow(s, rev),
         NEW o, o = Pull(r, s, sugg, f, merge, wins, rev),
         NEW n, Sound(RowClaim(r), s, f, n), Drawn(s), Stamped(f.mtime, n),
         Pending(i, r, s, f), NEW v,
         v.rev = IF merge THEN o.ret ELSE o.store.max_unit_revision,
         v.hash = f.mtime, v.base = Base(o.store, v.rev)
  PROVE  Sound(v, o.store, f, n)
<1>0. merge \in BOOLEAN
  OBVIOUS
<1>1. Good(o, rev)
  BY <1>0, PullGood
<1>2. Behind(v, o.store)
  BY DEF Behind, Base
<1>3. Agree(v, o.store, f)
  <2>1. CASE PullSkipped(r, f)
    <3>1. o.store = s /\ o.ret = NULL
      BY <2>1 DEF Pull, Outcome
    <3>2. CASE merge
      <4>1. v.rev = NULL
        BY <3>1, <3>2
      <4>2. MaxUnitRevision(o.store) # NULL
        BY <1>1, MaxUnitRevisionBelow, NullAssumption DEF Good
      <4>. QED BY <4>1, <4>2 DEF Agree, Unchanged
    <3>3. CASE ~merge
      <4>1. s.st # "live" \/ f.mtime = NULL
        BY <2>1, <3>3 DEF PullSkipped, Pending
      <4>. QED BY <3>1, <4>1 DEF Agree, Unchanged
    <3>. QED BY <3>2, <3>3
  <2>2. CASE ~PullSkipped(r, f)
    <3>1. Behind([rev |-> 0, base |-> NULL], s)
      <4>1. s.val # NULL => s.rev \in [Units -> Nat]
        BY DEF Store
      <4>. QED BY <4>1 DEF Behind, Drawn
    <3>2. Behind([rev |-> r.last_sync_revision, base |-> r.base], s)
      BY DEF Sound, RowClaim, Behind
    <3>. QED BY <1>0, <2>2, <3>1, <3>2, PullAgree
  <2>. QED BY <2>1, <2>2
<1>. QED BY <1>2, <1>3 DEF Sound

\* A pull or a merge: Store and file agree on what it is to write down.
LEMMA PullItemAgreeing ==
  ASSUME OneProcess, Parts, Parts', OneRow, Agreeing, NEW c \in Procs, NEW i,
         PullItem(c, i)
  PROVE  Agreeing'
<1>. DEFINE r == RowOf(i.pk)
            p == r.path
            merge == i.kind # "pull"
            wins == IF i.kind = "merge_pootle" THEN "pootle" ELSE "fs"
            o == Pull(r, store[p], suggested[p], file[p], merge, wins, revision)
            rev == IF merge THEN o.ret ELSE o.store.max_unit_revision
            undo == IF PullSkipped(r, file[p]) THEN run[c].undo
                    ELSE Touched(c, r)
            pulled(q) == IF q.pk = i.pk THEN [q EXCEPT !.fk = TRUE] ELSE q
<1>. PICK at : at = [pk |-> i.pk,
                     step |-> IF merge /\ run[c].op.update = "all"
                              THEN "push" ELSE "hash",
                     rev |-> rev, base |-> Base(o.store, rev)]
  OBVIOUS
<1>1. /\ rows' = {pulled(q) : q \in rows}
      /\ store' = [store EXCEPT ![p] = o.store]
      /\ Syncing(c) /\ Exists(i.pk) /\ run[c].at = NULL /\ i \in run[c].todo
      /\ i.kind # "rm" /\ file' = file /\ clock' = clock
  BY DEF PullItem, CanDo
<1>2. GoOn(c, i, at, undo)
  BY DEF PullItem
<1>0. /\ run'[c].todo = run[c].todo \ {i} /\ run'[c].at = at
      /\ run'[c].done = run[c].done /\ run'[c].last_sync = run[c].last_sync
      /\ run'[c].undo = undo /\ run'[c].op.cmd = "sync"
  <2>1. Syncing(c)
    BY <1>1
  <2>2. PICK new : new = undo
    OBVIOUS
  <2>3. GoOn(c, i, at, new)
    BY <1>2, <2>2
  <2>4. /\ run'[c].todo = run[c].todo \ {i} /\ run'[c].at = at
        /\ run'[c].done = run[c].done /\ run'[c].last_sync = run[c].last_sync
        /\ run'[c].undo = new /\ run'[c].op.cmd = "sync"
    BY ONLY Parts, c \in Procs, <2>1, <2>3, GoOnFields
  <2>. QED BY <2>2, <2>4
<1>. PICK h, g : h = run[c] /\ g = run'[c]
  OBVIOUS
<1>3. /\ g.todo = h.todo \ {i} /\ g.at = at /\ g.done = h.done
      /\ g.last_sync = h.last_sync /\ g.undo = undo /\ g.op.cmd = "sync"
  <2>. HIDE DEF undo
  <2>. QED BY <1>0
<1>4. r \in rows /\ r.pk = i.pk /\ p \in Paths /\ r \in Row
      /\ (~r.fk => store[p].st = "none")
  BY <1>1, RowOfGood DEF GoodRow, OneRow, RowsHaveStores
<1>5. /\ store[p] \in Store /\ StoreBelow(store[p], revision)
      /\ suggested[p] \in Suggestions /\ file[p] \in File
      /\ revision \in Nat /\ clock \in Nat /\ store'[p] = o.store
      /\ merge \in BOOLEAN /\ wins \in {"pootle", "fs"}
      /\ \A q \in Paths \ {p} : store'[q] = store[q]
  BY <1>1, <1>4 DEF Parts, StoreInv, SuggestedInv, FileInv, NumbersInv, GoodStore
<1>6. at.pk = i.pk /\ at.rev = rev /\ at.base = Base(o.store, rev)
  OBVIOUS
<1>7. /\ \A q \in rows : pulled(q).path = q.path /\ pulled(q).pk = q.pk
                         /\ RowClaim(pulled(q)) = RowClaim(q)
      /\ \A q \in rows : q # r => pulled(q) = q /\ q.pk # r.pk
                                  /\ q.path \in Paths \ {p}
  <2>1. \A q \in rows : q \in Row
    BY DEF Parts, RowsInv, GoodRow
  <2>2. ASSUME NEW q \in rows
        PROVE  /\ pulled(q).path = q.path /\ pulled(q).pk = q.pk
               /\ RowClaim(pulled(q)) = RowClaim(q)
    <3>. PICK yes : yes = TRUE
      OBVIOUS
    <3>. PICK q2 : q2 = [q EXCEPT !.fk = yes]
      OBVIOUS
    <3>1. pulled(q) = q2 \/ pulled(q) = q
      BY Zenon
    <3>2. /\ q2.path = q.path /\ q2.pk = q.pk
          /\ RowClaim(q2) = RowClaim(q)
      BY <2>1 DEF Row, RowClaim
    <3>. HIDE DEF pulled
    <3>. QED BY <3>1, <3>2
  <2>3. \A q \in rows : q # r => q.path \in Paths \ {p} /\ q.pk # r.pk
    BY <1>4, <2>1 DEF OneRow, OneRowPerPath, Row
  <2>. QED BY <1>4, <2>2, <2>3
<1>. HIDE DEF pulled
<1>8. FilesStamped'
  BY <1>1 DEF Agreeing, FilesStamped
<1>9. StoresDrawn'
  <2>. PICK oo, ww, mm : oo = o /\ ww = wins /\ mm = merge
    OBVIOUS
  <2>1. UnitsLater(store[p], oo.store, revision)
    BY <1>4, <1>5, PullUnitsLater
  <2>2. oo.store \in Store
    BY <1>4, <1>5, PullGood DEF Good
  <2>3. Drawn(oo.store)
    BY <1>4, <1>5, <2>1, <2>2, DrawnLater DEF Agreeing, StoresDrawn
  <2>. QED BY <1>5, <2>3 DEF Agreeing, StoresDrawn
<1>10. Sound(RowClaim(r), store[p], file[p], clock) /\ Drawn(store[p])
       /\ Stamped(file[p].mtime, clock)
  BY <1>4 DEF Agreeing, RowsSound, StoresDrawn, FilesStamped
<1>11. RowsSound'
  <2>1. Sound(RowClaim(r), o.store, file[p], clock)
    <3>1. KnownClaim(RowClaim(r), revision)
      BY <1>4, ClaimsKnown
    <3>. HIDE DEF wins, merge, r, p
    <3>. QED BY <1>4, <1>5, <1>10, <3>1, PulledRowSound
  <2>. HIDE DEF o
  <2>2. ASSUME NEW q \in rows
        PROVE  Sound(RowClaim(q), store'[q.path], file[q.path], clock)
    <3>1. CASE q = r
      BY <1>5, <2>1, <3>1
    <3>2. CASE q # r
      BY <1>5, <1>7, <3>2 DEF Agreeing, RowsSound
    <3>. QED BY <3>1, <3>2
  <2>. QED BY <1>1, <1>7, <2>2 DEF RowsSound
<1>12. OneItem(g)
  BY <1>1, <1>3, <1>6, SyncHeld, OneItemGoesOn
<1>13. AtHasRow(g, rows')
  <2>1. pulled(r) \in rows' /\ pulled(r).pk = g.at.pk
    BY <1>1, <1>3, <1>4, <1>6, <1>7
  <2>. QED BY <2>1 DEF AtHasRow
<1>14. ASSUME NEW t \in rows'
       PROVE  SyncSound(g, t, store'[t.path], file'[t.path], clock')
  <2>1. PICK q \in rows : t = pulled(q)
    BY <1>1
  <2>2. CASE q # r
    <3>1. t = q /\ q.pk # r.pk /\ q.path \in Paths /\ store'[q.path] = store[q.path]
      BY <1>5, <1>7, <2>1, <2>2
    <3>2. SyncSound(h, q, store[q.path], file[q.path], clock)
      BY <1>1, SyncHeld
    <3>3. h.last_sync[q.path].hash \in Nat \cup {NULL}
      BY <1>1, <3>1, LastSyncKnown
    <3>4. clock <= clock /\ g.at.pk # q.pk
      BY <1>3, <1>4, <1>5, <1>6, <3>1
    <3>5. SyncSound(g, q, store[q.path], file[q.path], clock)
      BY <1>3, <1>5, <3>2, <3>3, <3>4, OthersSound
    <3>. QED BY <1>1, <3>1, <3>5
  <2>3. CASE q = r
    <3>1. t.pk = i.pk /\ t.path = p
      BY <1>4, <1>7, <2>1, <2>3
    <3>2. SyncSound(h, r, store[p], file[p], clock) /\ OneItem(h)
      BY <1>1, <1>4, SyncHeld
    <3>3. i.pk \notin h.done
      BY <1>1, <3>2 DEF OneItem
    <3>4. \A j \in g.todo : j.pk = t.pk => j.kind = "rm"
      BY <1>1, <1>3, <3>1, <3>2 DEF OneItem
    <3>5. Pending(i, r, store[p], file[p])
      BY <1>1, <1>4, <3>2 DEF SyncSound
    <3>6. Sound(AtClaim(at, file[p]), o.store, file[p], clock)
      <4>. PICK v : v = AtClaim(at, file[p])
        OBVIOUS
      <4>1. v.rev = rev /\ v.hash = file[p].mtime /\ v.base = Base(o.store, rev)
        BY <1>6 DEF AtClaim
      <4>2. v.rev = IF merge THEN o.ret ELSE o.store.max_unit_revision
        BY <4>1
      <4>3. v.base = Base(o.store, v.rev)
        BY <4>1
      <4>4. merge = (i.kind # "pull")
        OBVIOUS
      <4>. HIDE DEF wins, merge, r, p, rev
      <4>. QED BY <1>4, <1>5, <1>10, <3>5, <4>1, <4>2, <4>3, <4>4,
                  PulledClaimSound
    <3>. HIDE DEF o, p, r
    <3>7. \A j \in g.todo : j.pk = t.pk =>
            Pending(j, t, store'[t.path], file'[t.path])
      BY <3>4 DEF Pending
    <3>. QED BY <1>1, <1>3, <1>5, <3>1, <3>3, <3>6, <3>7 DEF SyncSound
  <2>. QED BY <2>2, <2>3
<1>15. undo = run[c].undo \/ undo = Touched(c, r)
  OBVIOUS
<1>. HIDE DEF undo, r, o, p
<1>16. ASSUME NEW q \in Paths, g.undo[q] # NULL
       PROVE  UndoSound(g.undo[q], file'[q], clock')
  <2>1. FileMoves(file[q], file[q], clock) /\ clock <= clock
    BY <1>5 DEF FileMoves
  <2>. QED BY <1>1, <1>3, <1>4, <1>5, <1>15, <1>16, <2>1, HeldSound, TouchedSound
<1>. QED BY <1>3, <1>8, <1>9, <1>11, <1>12, <1>13, <1>14, <1>16, SyncAgreeing

\* A row is at the path of its key.
LEMMA RowsKeyed ==
  ASSUME Parts
  PROVE  \A r \in rows : r \in Row /\ r.path \in Paths /\ r.path = r.pk[1]
BY DEF Parts, RowsInv, GoodRow, Row

\* What a push does to the files.
LEMMA WriteBackMoves ==
  ASSUME Parts, FilesStamped, NEW r \in rows, NEW s, WriteBack(r, s)
  PROVE  /\ clock' \in Nat /\ clock \in Nat /\ clock <= clock' /\ FilesStamped'
         /\ \A p \in Paths : FileMoves(file[p], file'[p], clock)
         /\ \A p \in Paths : p # r.path => file'[p] = file[p]
         /\ \/ PushSkipped(r, s, file[r.path]) /\ file' = file
            \/ /\ ~PushSkipped(r, s, file[r.path])
               /\ file'[r.path].val = PushContent(s, file[r.path])
<1>1. clock \in Nat /\ file \in [Paths -> File] /\ r.path \in Paths
  BY VersionsKnown DEF Parts, FileInv
<1>2. CASE PushSkipped(r, s, file[r.path])
  <2>1. file' = file /\ clock' = clock
    BY <1>2 DEF WriteBack
  <2>. QED BY <1>1, <1>2, <2>1 DEF FileMoves, FilesStamped
<1>3. CASE ~PushSkipped(r, s, file[r.path])
  <2>. PICK f2 : f2 = [val |-> PushContent(s, file[r.path]), mtime |-> clock]
    OBVIOUS
  <2>1. file' = [file EXCEPT ![r.path] = f2] /\ clock' = clock + 1
    BY <1>3 DEF WriteBack
  <2>2. /\ file'[r.path].val = PushContent(s, file[r.path])
        /\ file'[r.path].mtime = clock
        /\ \A p \in Paths : p # r.path => file'[p] = file[p]
    BY <1>1, <2>1
  <2>3. \A p \in Paths : FileMoves(file[p], file'[p], clock)
    BY <2>2 DEF FileMoves
  <2>4. \A p \in Paths : file[p].mtime \in Nat \cup {NULL}
    BY <1>1 DEF File
  <2>5. FilesStamped'
    BY <1>1, <2>1, <2>2, <2>4 DEF FilesStamped, Stamped
  <2>. QED BY <1>1, <1>3, <2>1, <2>2, <2>3, <2>5
<1>. QED BY <1>2, <1>3

\* What a claim says of a path holds after a push to a file.
LEMMA PushedSound ==
  ASSUME Parts, NEW p \in Paths, FileMoves(file[p], file'[p], clock),
         clock' \in Nat, clock <= clock',
         NEW v, KnownClaim(v, revision), Sound(v, store[p], file[p], clock)
  PROVE  Sound(v, store[p], file'[p], clock')
<1>1. /\ store[p] \in Store /\ StoreBelow(store[p], revision)
      /\ revision \in Nat /\ clock \in Nat
      /\ StoreMoves(store[p], store[p], revision)
  BY StoreStays DEF Parts, StoreInv, GoodStore, NumbersInv, FileInv
<1>. QED BY <1>1, SoundMoves

\* A push of the row r while the sync goes on.
LEMMA PushAgreeing ==
  ASSUME OneProcess, Parts, OneRow, Agreeing, NEW c \in Procs, Syncing(c),
         NEW r \in rows, WriteBack(r, store[r.path]),
         rows' = rows, store' = store,
         run'[c].op.cmd = "sync", run'[c].undo = run[c].undo,
         run'[c].todo \subseteq run[c].todo, run'[c].done = run[c].done,
         run'[c].last_sync = run[c].last_sync, OneItem(run'[c]),
         \A j \in run'[c].todo : j.kind # "rm" => j.pk # r.pk,
         run'[c].at.pk = r.pk,
         Sound(AtClaim(run'[c].at, file'[r.path]), store[r.path],
               file'[r.path], clock')
  PROVE  Agreeing'
<1>. PICK h, g : h = run[c] /\ g = run'[c]
  OBVIOUS
<1>1. /\ clock' \in Nat /\ clock \in Nat /\ clock <= clock' /\ FilesStamped'
      /\ \A p \in Paths : FileMoves(file[p], file'[p], clock)
      /\ \A p \in Paths : p # r.path => file'[p] = file[p]
  BY WriteBackMoves DEF Agreeing
<1>2. StoresDrawn'
  BY DEF Agreeing, StoresDrawn
<1>3. RowsSound'
  <2>1. ASSUME NEW q \in rows
        PROVE  Sound(RowClaim(q), store[q.path], file'[q.path], clock')
    <3>1. q.path \in Paths /\ KnownClaim(RowClaim(q), revision)
      BY ClaimsKnown, VersionsKnown
    <3>2. Sound(RowClaim(q), store[q.path], file[q.path], clock)
      BY DEF Agreeing, RowsSound
    <3>. QED BY <1>1, <3>1, <3>2, PushedSound
  <2>. QED BY <2>1 DEF RowsSound
<1>4. ASSUME NEW p \in Paths, g.undo[p] # NULL
      PROVE  UndoSound(g.undo[p], file'[p], clock')
  BY <1>1, <1>4, HeldSound
<1>5. AtHasRow(g, rows')
  BY DEF AtHasRow
<1>6. ASSUME NEW q \in rows
      PROVE  SyncSound(g, q, store[q.path], file'[q.path], clock')
  <2>1. SyncSound(h, q, store[q.path], file[q.path], clock)
    BY SyncHeld
  <2>2. q.path \in Paths /\ KnownClaim(h.last_sync[q.path], revision)
    BY LastSyncKnown, VersionsKnown
  <2>3. CASE q = r
    <3>1. q.pk \in g.done =>
            Sound(g.last_sync[q.path], store[q.path], file'[q.path], clock')
      BY <1>1, <2>1, <2>2, PushedSound DEF SyncSound
    <3>2. \A j \in g.todo : j.pk = q.pk =>
            Pending(j, q, store[q.path], file'[q.path])
      BY <2>3 DEF Pending
    <3>. QED BY <2>3, <3>1, <3>2 DEF SyncSound
  <2>4. CASE q # r
    <3>1. q.path # r.path /\ q.pk # r.pk
      BY <2>4, RowsKeyed DEF OneRow, OneRowPerPath
    <3>. QED BY <1>1, <2>1, <2>2, <3>1, OthersSound DEF KnownClaim
  <2>. QED BY <2>3, <2>4
<1>. QED BY <1>1, <1>2, <1>3, <1>4, <1>5, <1>6, SyncAgreeing

\* What is pushed: Store and file agree afterwards.
LEMMA PushClaimSound ==
  ASSUME NEW s \in Store, NEW m \in Nat, StoreBelow(s, m), NEW f \in File,
         NEW f2, NEW r, NEW n, Stamped(f2.mtime, n),
         NEW v, v.hash = f2.mtime, v.base = Base(s, v.rev),
         \/ /\ PushSkipped(r, s, f) /\ f2 = f
            /\ \/ v.rev = NULL
               \/ v.rev = s.max_unit_revision /\ r.fk
                  /\ \E i : i.kind = "push" /\ Pending(i, r, s, f)
         \/ /\ ~PushSkipped(r, s, f) /\ f2.val = PushContent(s, f)
            /\ v.rev = s.max_unit_revision
  PROVE  Sound(v, s, f2, n)
<1>1. Behind(v, s)
  BY DEF Behind, Base
<1>2. MaxUnitRevision(s) # NULL
  BY MaxUnitRevisionBelow, NullAssumption
<1>3. Agree(v, s, f2)
  <2>1. CASE PushSkipped(r, s, f) /\ f2 = f /\ v.rev = NULL
    BY <1>2, <2>1 DEF Agree, Unchanged
  <2>2. CASE /\ PushSkipped(r, s, f) /\ f2 = f
             /\ v.rev = s.max_unit_revision /\ r.fk
             /\ \E i : i.kind = "push" /\ Pending(i, r, s, f)
    <3>1. f.mtime # NULL /\ s.max_unit_revision = r.last_sync_revision
      BY <2>2 DEF PushSkipped
    <3>2. s.val = NULL \/ MaxUnitRevision(s) # r.last_sync_revision
      BY <2>2, <3>1 DEF Pending
    <3>. QED BY <2>2, <3>1, <3>2 DEF Agree, Unchanged
  <2>3. CASE /\ f2.val = PushContent(s, f)
             /\ v.rev = s.max_unit_revision
    BY <2>3, PushAgree
  <2>. QED BY <2>1, <2>2, <2>3
<1>. QED BY <1>1, <1>3 DEF Sound

\* A push keeps Agreeing: the file gets the units that the Store has now.
LEMMA PushItemAgreeing ==
  ASSUME OneProcess, Parts, OneRow, Agreeing, NEW c \in Procs, NEW i,
         PushItem(c, i)
  PROVE  Agreeing'
<1>1. /\ Syncing(c) /\ run[c].at = NULL /\ i \in run[c].todo /\ i.kind = "push"
      /\ rows' = rows /\ store' = store
      /\ View(c).rows = rows /\ View(c).store = store
  BY OneView DEF PushItem, CanDo, db
<1>2. PICK r \in rows :
        /\ r.pk = i.pk /\ r.fk /\ WriteBack(r, store[r.path])
        /\ GoOn(c, i, [pk |-> i.pk, step |-> "hash",
                       rev |-> store[r.path].max_unit_revision,
                       base |-> store[r.path].val], run[c].undo)
  BY <1>1 DEF PushItem
<1>. PICK s, f, f2 : s = store[r.path] /\ f = file[r.path]
                     /\ f2 = file'[r.path]
  OBVIOUS
<1>. PICK at : at = [pk |-> i.pk, step |-> "hash",
                     rev |-> s.max_unit_revision, base |-> s.val]
  OBVIOUS
<1>3. at.pk = i.pk /\ at.rev = s.max_unit_revision /\ at.base = s.val
  OBVIOUS
<1>4. /\ run'[c].todo = run[c].todo \ {i} /\ run'[c].at = at
      /\ run'[c].done = run[c].done /\ run'[c].last_sync = run[c].last_sync
      /\ run'[c].undo = run[c].undo /\ run'[c].op.cmd = "sync"
  BY <1>1, <1>2, GoOnFields
<1>5. /\ r.path \in Paths /\ s \in Store /\ StoreBelow(s, revision)
      /\ f \in File /\ revision \in Nat
  BY VersionsKnown DEF Parts, StoreInv, GoodStore, FileInv, NumbersInv
<1>7. OneItem(run[c]) /\ SyncSound(run[c], r, s, f, clock)
  BY <1>1, SyncHeld
<1>8. OneItem(run'[c])
  <2>. PICK h, g : h = run[c] /\ g = run'[c]
    OBVIOUS
  <2>1. /\ OneItem(h) /\ i \in h.todo /\ h.at = NULL
        /\ g.todo = h.todo \ {i} /\ g.done = h.done
        /\ i.kind # "rm" /\ g.at.pk = i.pk
    BY <1>1, <1>3, <1>4, <1>7
  <2>2. OneItem(g)
    BY <2>1, OneItemGoesOn
  <2>. QED BY <2>2
<1>9. \A j \in run'[c].todo : j.kind # "rm" => j.pk # r.pk
  BY <1>1, <1>2, <1>4, <1>7 DEF OneItem
<1>10. Pending(i, r, s, f)
  BY <1>1, <1>2, <1>7 DEF SyncSound
<1>11. /\ Stamped(f2.mtime, clock')
       /\ \/ PushSkipped(r, s, f) /\ f2 = f
          \/ ~PushSkipped(r, s, f) /\ f2.val = PushContent(s, f)
  BY <1>2, <1>5, WriteBackMoves DEF Agreeing, FilesStamped
<1>12. Sound(AtClaim(at, f2), s, f2, clock')
  <2>. PICK v : v = AtClaim(at, f2)
    OBVIOUS
  <2>1. v.hash = f2.mtime /\ v.rev = s.max_unit_revision /\ v.base = s.val
    BY <1>3 DEF AtClaim
  <2>2. v.base = Base(s, v.rev)
    <3>1. s.max_unit_revision # NULL
      BY <1>5, NullAssumption DEF Store
    <3>. QED BY <2>1, <3>1 DEF Base
  <2>3. Sound(v, s, f2, clock')
    BY <1>1, <1>2, <1>5, <1>10, <1>11, <2>1, <2>2, PushClaimSound
  <2>. QED BY <2>3
<1>. QED BY <1>1, <1>2, <1>3, <1>4, <1>8, <1>9, <1>12, PushAgreeing

\* The push that ends a merge.
LEMMA MergePushAgreeing ==
  ASSUME OneProcess, Parts, OneRow, Agreeing, NEW c \in Procs, MergePush(c)
  PROVE  Agreeing'
<1>1. /\ Syncing(c) /\ run[c].at # NULL /\ Exists(run[c].at.pk)
      /\ rows' = rows /\ store' = store
  BY DEF MergePush, db
<1>. PICK r : r = RowOf(run[c].at.pk)
  OBVIOUS
<1>. PICK s, f, f2 : s = store[r.path] /\ f = file[r.path]
                     /\ f2 = file'[r.path]
  OBVIOUS
<1>2. View(c).store = store
  BY OneView
<1>3. r \in rows /\ r.pk = run[c].at.pk
  BY <1>1, RowOfGood
<1>. PICK rev : rev = IF PushSkipped(r, s, f) THEN NULL ELSE s.max_unit_revision
  OBVIOUS
<1>. PICK at : at = [pk |-> r.pk, step |-> "hash", rev |-> rev,
                     base |-> Base(s, rev)]
  OBVIOUS
<1>4. WriteBack(r, s) /\ run' = [run EXCEPT ![c].at = at]
  BY <1>2 DEF MergePush
<1>5. run'[c] = [run[c] EXCEPT !.at = at] /\ run[c] \in SyncRun
  BY <1>1, <1>4, SyncingRun DEF Parts, RunInv
<1>6. /\ run'[c].todo = run[c].todo /\ run'[c].at = at
      /\ run'[c].done = run[c].done /\ run'[c].last_sync = run[c].last_sync
      /\ run'[c].undo = run[c].undo /\ run'[c].op.cmd = "sync"
  BY <1>1, <1>5 DEF SyncRun, Syncing
<1>7. at.pk = r.pk /\ at.rev = rev /\ at.base = Base(s, rev)
  OBVIOUS
<1>8. OneItem(run'[c])
  <2>. PICK h, g : h = run[c] /\ g = run'[c]
    OBVIOUS
  <2>1. /\ OneItem(h) /\ h.at # NULL /\ g.at.pk = h.at.pk
        /\ g.todo = h.todo /\ g.done = h.done
    BY <1>1, <1>3, <1>6, <1>7, SyncHeld
  <2>2. OneItem(g)
    BY <2>1 DEF OneItem
  <2>. QED BY <2>2
<1>9. \A j \in run'[c].todo : j.kind # "rm" => j.pk # r.pk
  BY <1>1, <1>3, <1>6, SyncHeld DEF OneItem
<1>10. /\ r.path \in Paths /\ s \in Store /\ StoreBelow(s, revision)
       /\ f \in File /\ revision \in Nat
  BY <1>3, VersionsKnown DEF Parts, StoreInv, GoodStore, FileInv, NumbersInv
<1>11. /\ Stamped(f2.mtime, clock')
       /\ \/ PushSkipped(r, s, f) /\ f2 = f
          \/ ~PushSkipped(r, s, f) /\ f2.val = PushContent(s, f)
  BY <1>3, <1>4, <1>10, WriteBackMoves DEF Agreeing, FilesStamped
<1>12. Sound(AtClaim(at, f2), s, f2, clock')
  <2>. PICK v : v = AtClaim(at, f2)
    OBVIOUS
  <2>1. v.hash = f2.mtime /\ v.rev = rev /\ v.base = Base(s, v.rev)
    BY <1>7 DEF AtClaim
  <2>2. \/ PushSkipped(r, s, f) /\ f2 = f /\ v.rev = NULL
        \/ /\ ~PushSkipped(r, s, f) /\ f2.val = PushContent(s, f)
           /\ v.rev = s.max_unit_revision
    BY <1>11, <2>1
  <2>3. Sound(v, s, f2, clock')
    BY <1>10, <1>11, <2>1, <2>2, PushClaimSound
  <2>. QED BY <2>3
<1>13. WriteBack(r, store[r.path]) /\ run'[c].todo \subseteq run[c].todo
       /\ run'[c].at.pk = r.pk
       /\ Sound(AtClaim(run'[c].at, file'[r.path]), store[r.path],
                file'[r.path], clock')
  BY <1>4, <1>6, <1>7, <1>12
<1>. QED BY <1>1, <1>3, <1>6, <1>8, <1>9, <1>13, PushAgreeing

\* Taking the hash: what was read is to be written down.
LEMMA TakeHashAgreeing ==
  ASSUME OneProcess, Parts, OneRow, Agreeing, NEW c \in Procs, TakeHash(c)
  PROVE  Agreeing'
<1>. PICK at, p, hash : /\ at = run[c].at /\ p = at.pk[1]
                        /\ hash = file[at.pk[1]].mtime
  OBVIOUS
<1>. PICK last : last = [rev |-> at.rev, hash |-> hash, base |-> at.base]
  OBVIOUS
<1>1. /\ Syncing(c) /\ rows' = rows /\ store' = store /\ file' = file
      /\ clock' = clock /\ at # NULL /\ (at.step = "hash" \/ ~Exists(at.pk))
      /\ run' = [run EXCEPT ![c].at = NULL, ![c].done = @ \cup {at.pk},
                            ![c].last_sync[p] = last]
  BY DEF TakeHash, db
<1>2. /\ run'[c] = [run[c] EXCEPT !.at = NULL, !.done = run[c].done \cup {at.pk},
                                  !.last_sync =
                                    [run[c].last_sync EXCEPT ![p] = last]]
      /\ run[c] \in SyncRun
  BY <1>1, SyncingRun DEF Parts, RunInv, SyncRun
<1>0. /\ run'[c].todo = run[c].todo /\ run'[c].at = NULL
      /\ run'[c].done = run[c].done \cup {at.pk}
      /\ run'[c].last_sync = [run[c].last_sync EXCEPT ![p] = last]
      /\ run'[c].undo = run[c].undo /\ run'[c].op = run[c].op
  BY <1>2 DEF SyncRun
<1>. PICK h, g : h = run[c] /\ g = run'[c]
  OBVIOUS
<1>3. /\ g.todo = h.todo /\ g.at = NULL /\ g.done = h.done \cup {at.pk}
      /\ g.last_sync = [h.last_sync EXCEPT ![p] = last]
      /\ g.undo = h.undo /\ g.op.cmd = "sync" /\ h.at = at
  BY <1>0, <1>1 DEF Syncing
<1>4. OneItem(h) /\ AtHasRow(h, rows)
  BY <1>1, SyncHeld
<1>5. PICK r \in rows : r.pk = at.pk
  BY <1>1, <1>4 DEF AtHasRow
<1>6. at.step = "hash" /\ p = r.path /\ p \in Paths
  BY <1>1, <1>5, RowsKeyed DEF Exists, Pks
<1>7. /\ g.last_sync[p] = last
      /\ \A q \in Paths \ {p} : g.last_sync[q] = h.last_sync[q]
  BY <1>2, <1>3, <1>6 DEF SyncRun
<1>8. OneItem(g)
  <2>1. \A i \in g.todo : i.kind # "rm" => i.pk \notin g.done
    BY <1>1, <1>3, <1>4 DEF OneItem
  <2>2. \A i, j \in g.todo : i.kind # "rm" /\ j.kind # "rm" /\ j.pk = i.pk
                              => j = i
    BY <1>3, <1>4 DEF OneItem
  <2>. QED BY <1>3, <2>1, <2>2 DEF OneItem
<1>9. AtHasRow(g, rows')
  BY <1>3 DEF AtHasRow
<1>10. last = AtClaim(at, file[p])
  BY DEF AtClaim
<1>11. ASSUME NEW q \in rows
       PROVE  SyncSound(g, q, store[q.path], file[q.path], clock)
  <2>1. SyncSound(h, q, store[q.path], file[q.path], clock)
    BY <1>1, SyncHeld
  <2>2. CASE q = r
    <3>1. Sound(last, store[p], file[p], clock)
      BY <1>1, <1>5, <1>6, <1>10, <2>1, <2>2 DEF SyncSound
    <3>2. Sound(g.last_sync[q.path], store[q.path], file[q.path], clock)
      BY <1>6, <1>7, <2>2, <3>1
    <3>. QED BY <1>3, <2>1, <3>2 DEF SyncSound
  <2>3. CASE q # r
    <3>1. q.path \in Paths \ {p} /\ q.pk # at.pk
      BY <1>5, <1>6, <2>3, RowsKeyed DEF OneRow, OneRowPerPath
    <3>2. g.last_sync[q.path] = h.last_sync[q.path]
          /\ (q.pk \in g.done => q.pk \in h.done)
      BY <1>3, <1>7, <3>1
    <3>. QED BY <1>3, <2>1, <3>2 DEF SyncSound
  <2>. QED BY <2>2, <2>3
<1>12. ASSUME NEW q \in Paths, g.undo[q] # NULL
       PROVE  UndoSound(g.undo[q], file'[q], clock')
  <2>1. FileMoves(file[q], file[q], clock) /\ clock \in Nat /\ clock <= clock
    BY DEF FileMoves, Parts, FileInv
  <2>2. Syncing(c) /\ run[c].undo[q] # NULL
    BY <1>1, <1>3, <1>12
  <2>3. UndoSound(run[c].undo[q], file[q], clock)
    BY <2>1, <2>2, HeldSound
  <2>. QED BY <1>1, <1>3, <2>3
<1>13. FilesStamped' /\ StoresDrawn' /\ RowsSound'
  BY <1>1, AllStays
<1>14. run'[c].op.cmd = "sync" /\ OneItem(run'[c]) /\ AtHasRow(run'[c], rows')
  BY <1>3, <1>8, <1>9
<1>15. \A q \in rows' :
         SyncSound(run'[c], q, store'[q.path], file'[q.path], clock')
  BY <1>1, <1>11
<1>16. \A q \in Paths : run'[c].undo[q] # NULL =>
         UndoSound(run'[c].undo[q], file'[q], clock')
  BY <1>12
<1>. QED BY <1>13, <1>14, <1>15, <1>16, SyncAgreeing

\* A sync that ends writes down what it has read.
LEMMA EndSyncAgreeing ==
  ASSUME OneProcess, Parts, Agreeing, NEW c \in Procs, EndSync(c)
  PROVE  Agreeing'
<1>. DEFINE ended(r) == IF r.pk \in run[c].done
                        THEN OnSync(r, run[c].last_sync[r.path]) ELSE r
<1>1. /\ rows' = {ended(r) : r \in rows} /\ store' = store /\ file' = file
      /\ clock' = clock /\ run'[c] = NULL /\ Syncing(c)
  BY DEF EndSync, Parts, RunInv
<1>2. ASSUME NEW r \in rows
      PROVE  /\ ended(r).path = r.path
             /\ Sound(RowClaim(ended(r)), store[r.path], file[r.path], clock)
  <2>1. CASE r.pk \in run[c].done
    <3>. PICK last : last = run[c].last_sync[r.path]
      OBVIOUS
    <3>1. Sound(last, store[r.path], file[r.path], clock)
      BY <1>1, <2>1, SyncHeld DEF SyncSound
    <3>2. ended(r) = OnSync(r, last)
      BY <2>1
    <3>. PICK q : q = OnSync(r, last)
      OBVIOUS
    <3>3. /\ q.path = r.path /\ q.last_sync_revision = last.rev
          /\ q.last_sync_hash = last.hash /\ q.base = last.base
      BY RowsKeyed DEF OnSync, Row
    <3>. HIDE DEF ended
    <3>4. Sound(RowClaim(q), store[r.path], file[r.path], clock)
      <4>. PICK v : v = RowClaim(q)
        OBVIOUS
      <4>1. v.rev = last.rev /\ v.hash = last.hash /\ v.base = last.base
        BY <3>3 DEF RowClaim
      <4>. QED BY <3>1, <4>1 DEF Sound, Stamped, Behind, Agree, Unchanged
    <3>. QED BY <3>2, <3>3, <3>4
  <2>2. CASE r.pk \notin run[c].done
    BY <2>2 DEF Agreeing, RowsSound
  <2>. QED BY <2>1, <2>2
<1>. HIDE DEF ended
<1>3. RowsSound'
  BY <1>1, <1>2 DEF RowsSound
<1>4. FilesStamped' /\ StoresDrawn' /\ ~Syncing(c)'
  BY <1>1 DEF Agreeing, FilesStamped, StoresDrawn, Syncing, Idle
<1>. QED BY <1>3, <1>4, OverAgreeing

\* A rollback brings back rows and Stores that agree with the files there are.
LEMMA RollbackAgreeing ==
  ASSUME OneProcess, Parts, OneRow, Agreeing, NEW c \in Procs, Rollback(c)
  PROVE  Agreeing'
<1>1. /\ rows' = {r \in rows : r.pk \notin Pks(Overwrote(c))} \cup Overwrote(c)
      /\ \A p \in Paths : store'[p] = IF Locked(c, p) THEN run[c].undo[p].store
                                      ELSE store[p]
      /\ run'[c] = NULL /\ file' = file /\ clock' = clock
  BY DEF Rollback, Parts, RunInv
<1>2. \A p \in Paths : Locked(c, p) =>
        /\ Single(run[c].undo[p], p, rows)
        /\ UndoSound(run[c].undo[p], file[p], clock)
  BY DEF OneRow, UndosAreSingle, Agreeing, UndosSound
<1>3. ASSUME NEW q \in Overwrote(c)
      PROVE  /\ q.path \in Paths
             /\ Sound(RowClaim(q), store'[q.path], file[q.path], clock)
  <2>1. PICK p \in Paths : Locked(c, p) /\ q \in run[c].undo[p].rows
    BY DEF Overwrote
  <2>2. q.path = p
    BY <1>2, <2>1 DEF Single
  <2>. QED BY <1>1, <1>2, <2>1, <2>2 DEF UndoSound
<1>4. ASSUME NEW r \in rows, r.pk \notin Pks(Overwrote(c))
      PROVE  r.path \in Paths /\ ~Locked(c, r.path)
  <2>1. r.path \in Paths
    BY VersionsKnown
  <2>2. ASSUME Locked(c, r.path)
        PROVE  FALSE
    <3>1. PICK q \in run[c].undo[r.path].rows : r.pk = q.pk
      BY <1>2, <2>1, <2>2 DEF Single
    <3>2. q \in Overwrote(c)
      BY <2>1, <2>2, <3>1 DEF Overwrote
    <3>. QED BY <1>4, <3>1, <3>2 DEF Pks
  <2>. QED BY <2>1, <2>2
<1>5. RowsSound'
  <2>1. ASSUME NEW r \in rows'
        PROVE  Sound(RowClaim(r), store'[r.path], file[r.path], clock)
    <3>1. CASE r \in Overwrote(c)
      BY <1>3, <3>1
    <3>2. CASE r \notin Overwrote(c)
      <4>1. r \in rows /\ r.path \in Paths /\ ~Locked(c, r.path)
        BY <1>1, <1>4, <3>2
      <4>. QED BY <1>1, <4>1 DEF Agreeing, RowsSound
    <3>. QED BY <3>1, <3>2
  <2>. QED BY <1>1, <2>1 DEF RowsSound
<1>6. StoresDrawn'
  BY <1>1, <1>2 DEF Agreeing, StoresDrawn, UndoSound
<1>7. FilesStamped' /\ ~Syncing(c)'
  BY <1>1 DEF Agreeing, FilesStamped, Syncing, Idle
<1>. QED BY <1>5, <1>6, <1>7, OverAgreeing

\* In the beginning nothing is in sync.
LEMMA InitAgreeing == Init => Agreeing
<1>. SUFFICES ASSUME Init PROVE Agreeing
  OBVIOUS
<1>1. /\ rows = {} /\ clock = 1 /\ \A c \in Procs : run[c] = NULL
      /\ file \in [Paths -> {NoFile} \cup [val : Content, mtime : {0}]]
      /\ store \in [Paths -> {NoStore} \cup
                         {AddUnits(EmptyStore, {}, x, 0).store : x \in Content}]
  BY DEF Init
<1>2. FilesStamped
  <2>1. \A p \in Paths : file[p].mtime = NULL \/ file[p].mtime = 0
    BY <1>1 DEF NoFile
  <2>. QED BY <1>1, <2>1 DEF FilesStamped, Stamped
<1>3. StoresDrawn
  <2>1. ASSUME NEW p \in Paths
        PROVE  Drawn(store[p])
    <3>1. CASE store[p] = NoStore
      BY <3>1 DEF Drawn, NoStore
    <3>2. ASSUME NEW x \in Content, store[p] = AddUnits(EmptyStore, {}, x, 0).store
          PROVE  Drawn(store[p])
      <4>. PICK e : e = EmptyStore
        OBVIOUS
      <4>1. e \in Store /\ e.st # "none"
        BY NullAssumption DEF EmptyStore, NoStore, Store
      <4>. PICK o : o = AddUnits(e, {}, x, 0)
        OBVIOUS
      <4>2. \A u \in Units : o.store.rev[u] = 0 + 1
        BY <4>1, AddedUnits
      <4>. QED BY <3>2, <4>2 DEF Drawn
    <3>. QED BY <1>1, <3>1, <3>2
  <2>. QED BY <2>1 DEF StoresDrawn
<1>4. RowsSound /\ UndosSound /\ SyncsSound
  BY <1>1 DEF RowsSound, UndosSound, SyncsSound, Locked, Syncing, Idle
<1>. QED BY <1>2, <1>3, <1>4 DEF Agreeing

\* Every step of one process keeps it, if no fetch runs into a sync.
LEMMA NextAgreeing ==
  ASSUME OneProcess, "fetch_in_sync" \notin Hazards
  PROVE  Parts /\ Parts' /\ OneRow /\ Agreeing /\ [Next]_vars => Agreeing'
<1>. SUFFICES ASSUME Parts, Parts', OneRow, Agreeing, [Next]_vars
              PROVE  Agreeing'
  OBVIOUS
<1>1. CASE Environment
  BY <1>1, EnvironmentAgreeing
<1>2. ASSUME NEW c \in Procs, Begin(c)
      PROVE  Agreeing'
  BY <1>2, BeginSyncAgreeing, BeginStagingAgreeing DEF Begin
<1>3. ASSUME NEW c \in Procs, Step(c)
      PROVE  Agreeing'
  <2>1. CASE EndStaging(c)
    BY <2>1, EndStagingAgreeing
  <2>2. ASSUME NEW i \in ToDo(c),
               \/ SkipItem(c, i) \/ RmItem(c, i) \/ PullItem(c, i)
               \/ PushItem(c, i) \/ Crash(c, i)
        PROVE  Agreeing'
    <3>1. Crash(c, i) => Rollback(c)
      BY DEF Crash
    <3>. QED BY <2>2, <3>1, SkipItemAgreeing, RmItemAgreeing, PullItemAgreeing,
                PushItemAgreeing, RollbackAgreeing
  <2>3. CASE MergePush(c) \/ TakeHash(c) \/ EndSync(c)
    BY <2>3, MergePushAgreeing, TakeHashAgreeing, EndSyncAgreeing
  <2>. QED BY <1>3, <2>1, <2>2, <2>3 DEF Step, SyncStep
<1>4. ASSUME NEW c \in Procs, Fail(c)
      PROVE  Agreeing'
  BY <1>4, RollbackAgreeing DEF Fail
<1>5. CASE UNCHANGED vars
  <2>1. rows' = rows /\ store' = store /\ run' = run /\ file' = file
        /\ clock' = clock
    BY <1>5 DEF vars
  <2>. QED BY <2>1 DEF Agreeing, FilesStamped, StoresDrawn, RowsSound,
                       UndosSound, SyncsSound, AtHasRow, Locked, Syncing, Idle
<1>. QED BY <1>1, <1>2, <1>3, <1>4, <1>5 DEF Next

\* When one process runs the commands, no Store is made anew at a path that has
\* a row and no fetch runs into a sync, then Store and file agree wherever
\* neither has changed since the last sync: on every unit, or on those that a
\* restored Store takes for pushed; whatever is edited meanwhile, fails and is
\* rolled back.
THEOREM SyncedUnitsStayAgreed ==
  ASSUME OneProcess, "recreate" \notin Hazards, "fetch_in_sync" \notin Hazards
  PROVE  Spec => []SyncedUnitsAgree
<1>1. Parts /\ Agreeing => SyncedUnitsAgree
  <2>. SUFFICES ASSUME Parts, Agreeing, NEW r \in InSync(Now), HaveUnits(r.path),
                       NEW u \in Units
                PROVE  \/ Restored(r.path, u)
                       \/ store[r.path].val[u] = file[r.path].val[u]
    BY DEF SyncedUnitsAgree
  <2>. PICK s, f : s = store[r.path] /\ f = file[r.path]
    OBVIOUS
  <2>1. r \in rows /\ s.st = "live" /\ f.mtime = r.last_sync_hash
        /\ r.last_sync_hash # NULL /\ s.val # NULL /\ f.val # NULL
        /\ r.last_sync_revision = MaxUnitRevision(s)
    BY DEF InSync, Synced, PootleChanged, Live, FSChanged, Now, HaveUnits
  <2>2. Unchanged(RowClaim(r), s, f)
    BY <2>1 DEF Unchanged, RowClaim
  <2>3. AgreeOn(s, f, u)
    BY <2>1, <2>2 DEF Agreeing, RowsSound, Sound, Agree
  <2>. QED BY <2>3 DEF AgreeOn, Restored
<1>2. Init => Agreeing /\ OneRow
  BY InitAgreeing, InitOneRow
<1>3. Parts /\ OneRow /\ [Next]_vars => OneRow'
  BY NextOneRow
<1>4. Parts /\ Parts' /\ OneRow /\ Agreeing /\ [Next]_vars => Agreeing'
  BY NextAgreeing
<1>. QED BY <1>1, <1>2, <1>3, <1>4, InitParts, NextParts, PTL DEF Spec

-----------------------------------------------------------------------------
(* Pulls replace no edit, while no edit runs into a sync.                    *)

\* No unit of the Store s is later than what the row r says was synced.
NotEdited(r, s) ==
  r.last_sync_revision # NULL /\ s.val # NULL =>
    \A u \in Units : s.rev[u] <= r.last_sync_revision
\* A row that is to be pulled is to be merged by no other item,
Writing == {"merge_pootle", "merge_fs", "pull"}
OnePull(h) ==
  \A i \in h.todo : i.kind = "pull" =>
    \A j \in h.todo : j.pk = i.pk /\ j.kind \in Writing => j = i
\* and nobody has edited its Store unless the file wins.
PullsUnedited(h, r, s) ==
  \A i \in h.todo :
    i.kind = "pull" /\ i.pk = r.pk /\ r.resolve_conflict = "none" => NotEdited(r, s)
Unedited ==
  \A c \in Procs : Syncing(c) =>
    /\ OnePull(run[c])
    /\ \A r \in rows : PullsUnedited(run[c], r, store[r.path])

\* The row r becomes q: what its pull goes by stays. The Store s becomes s2.
SameToPull(r, q, s, s2) ==
  /\ q.pk = r.pk /\ q.path = r.path
  /\ q.last_sync_revision = r.last_sync_revision
  /\ q.resolve_conflict = r.resolve_conflict
  /\ s2.val # NULL => s.val # NULL /\ s2.rev = s.rev

\* A sync that has no more to do than before has as little to fear.
LEMMA UneditedStays ==
  ASSUME Unedited,
         \A c \in Procs : Syncing(c)' =>
           /\ Syncing(c) /\ run'[c].todo \subseteq run[c].todo
           /\ \A q \in rows' :
                \/ \A i \in run'[c].todo : i.kind = "pull" => i.pk # q.pk
                \/ \E r \in rows : SameToPull(r, q, store[r.path], store'[q.path])
  PROVE  Unedited'
<1>. SUFFICES ASSUME NEW c \in Procs, Syncing(c)'
              PROVE  /\ OnePull(run'[c])
                     /\ \A q \in rows' : PullsUnedited(run'[c], q, store'[q.path])
  BY DEF Unedited
<1>. PICK h, g : h = run[c] /\ g = run'[c]
  OBVIOUS
<1>1. /\ OnePull(h) /\ \A r \in rows : PullsUnedited(h, r, store[r.path])
      /\ g.todo \subseteq h.todo
  BY DEF Unedited
<1>2. OnePull(g)
  BY <1>1 DEF OnePull
<1>3. ASSUME NEW q \in rows'
      PROVE  PullsUnedited(g, q, store'[q.path])
  <2>1. CASE \A i \in g.todo : i.kind = "pull" => i.pk # q.pk
    BY <2>1 DEF PullsUnedited
  <2>2. ASSUME NEW r \in rows, SameToPull(r, q, store[r.path], store'[q.path])
        PROVE  PullsUnedited(g, q, store'[q.path])
    BY <1>1, <2>2 DEF PullsUnedited, NotEdited, SameToPull
  <2>. QED BY <2>1, <2>2
<1>. QED BY <1>2, <1>3

\* When no sync is going on, none has anything to pull.
LEMMA UneditedOver ==
  ASSUME OneProcess, NEW c \in Procs, ~Syncing(c)'
  PROVE  Unedited'
<1>1. \A d \in Procs : ~Syncing(d)'
  BY DEF OneProcess
<1>. QED BY <1>1 DEF Unedited

\* A Store that is made obsolete keeps its units.
LEMMA ObsoleteToPull ==
  ASSUME NEW s \in Store
  PROVE  LET s2 == UpdateData([s EXCEPT !.st = "obsolete"])
         IN s2.val = s.val /\ s2.rev = s.rev
<1>. PICK s1 : s1 = [s EXCEPT !.st = "obsolete"]
  OBVIOUS
<1>1. /\ s1.val = s.val /\ s1.rev = s.rev
      /\ DOMAIN s1 = DOMAIN s
  BY DEF Store
<1>2. UpdateData(s1) = [s1 EXCEPT !.max_unit_revision = MaxUnitRevision(s1)]
  BY DEF UpdateData
<1>3. "val" \in DOMAIN s1 /\ "rev" \in DOMAIN s1
  BY <1>1 DEF Store
<1>4. UpdateData(s1).val = s1.val /\ UpdateData(s1).rev = s1.rev
  BY <1>2, <1>3
<1>. QED BY <1>1, <1>4

\* Nobody edits while a sync goes on.
LEMMA EnvironmentUnedited ==
  ASSUME "edit_in_sync" \notin Hazards, Parts, Unedited, Environment
  PROVE  Unedited'
<1>1. PICK p \in Paths :
          \/ \E u \in Units, x \in Vals : EditUnit(p, u, x)
          \/ \E x \in Content : WriteFile(p, x) \/ CreateStore(p, x)
          \/ WriteFile(p, NULL)
          \/ RemoveFile(p) \/ DeleteStore(p) \/ MakeObsolete(p)
  BY DEF Environment
<1>2. store \in [Paths -> Store] /\ \A r \in rows : r \in Row /\ r.path \in Paths
  BY RowsKeyed DEF Parts, StoreInv
<1>3. run' = run => \A c \in Procs :
        (Syncing(c)' => Syncing(c)) /\ run'[c].todo \subseteq run[c].todo
  BY DEF Syncing, Idle
<1>4. CASE ~AnySync /\ run' = run
  BY <1>4 DEF Unedited, AnySync, Syncing, Idle
<1>5. CASE /\ run' = run /\ rows' = rows
           /\ \A q \in Paths : store'[q].val = store[q].val
                               /\ store'[q].rev = store[q].rev
  <2>1. \A r \in rows : SameToPull(r, r, store[r.path], store'[r.path])
    BY <1>2, <1>5 DEF SameToPull
  <2>. QED BY <1>3, <1>5, <2>1, UneditedStays
<1>6. CASE DeleteStore(p)
  <2>. DEFINE lost(r) == IF r.path = p
                         THEN [r EXCEPT !.fk = FALSE, !.base = NULL] ELSE r
  <2>1. /\ rows' = {lost(r) : r \in rows} /\ run' = run
        /\ \A q \in Paths \ {p} : store'[q] = store[q]
        /\ store'[p].val = NULL
    BY <1>2, <1>6 DEF DeleteStore, NoStore
  <2>2. ASSUME NEW r \in rows
        PROVE  SameToPull(r, lost(r), store[r.path], store'[lost(r).path])
    <3>1. CASE r.path = p
      <4>. PICK no : no = FALSE
        OBVIOUS
      <4>1. lost(r) = [r EXCEPT !.fk = no, !.base = NULL]
        BY Zenon, <3>1
      <4>. HIDE DEF lost
      <4>2. /\ lost(r).pk = r.pk /\ lost(r).path = r.path
            /\ lost(r).last_sync_revision = r.last_sync_revision
            /\ lost(r).resolve_conflict = r.resolve_conflict
        BY <1>2, <4>1 DEF Row
      <4>. QED BY <2>1, <3>1, <4>2 DEF SameToPull
    <3>2. CASE r.path # p
      BY <1>2, <2>1, <3>2 DEF SameToPull
    <3>. QED BY <3>1, <3>2
  <2>. HIDE DEF lost
  <2>. QED BY <1>3, <2>1, <2>2, UneditedStays
<1>8. \A u \in Units, x \in Vals : EditUnit(p, u, x) => ~AnySync /\ run' = run
  BY DEF EditUnit
<1>9. \A x : CreateStore(p, x) => ~AnySync /\ run' = run
  BY DEF CreateStore
<1>10. (\E x : WriteFile(p, x)) \/ RemoveFile(p) =>
         run' = run /\ rows' = rows /\ store' = store
  BY DEF WriteFile, RemoveFile
<1>11. ASSUME MakeObsolete(p)
       PROVE  /\ run' = run /\ rows' = rows
              /\ \A q \in Paths : store'[q].val = store[q].val
                                  /\ store'[q].rev = store[q].rev
  <2>1. /\ run' = run /\ rows' = rows
        /\ store' = [store EXCEPT ![p] = UpdateData([@ EXCEPT !.st = "obsolete"])]
    BY <1>11 DEF MakeObsolete
  <2>. QED BY <1>2, <2>1, ObsoleteToPull
<1>. QED BY <1>1, <1>4, <1>5, <1>6, <1>8, <1>9, <1>10, <1>11

\* A sync that begins pulls a row that was edited only if the file wins.
LEMMA BeginSyncUnedited ==
  ASSUME OneProcess, Parts, OneRow, NEW c \in Procs, NEW op \in Commands,
         BeginSync(c, op)
  PROVE  Unedited'
<1>. PICK v, h : v = View(c) /\ h = run'[c]
  OBVIOUS
<1>1. /\ rows' = rows /\ store' = store
      /\ h.todo = Todo(State(v), op.update)
  BY DEF BeginSync, StartSync, Parts, RunInv, db
<1>3. /\ v.rows = rows /\ v.store = store /\ v.tracked = TrackedPaths(v.rows)
      /\ v.found = ExistingFiles(v.file)
  BY OneView DEF View
<1>4. \A r \in rows : r \in Row /\ r.path \in Paths /\ r.path = r.pk[1]
                      /\ store[r.path] \in Store
                      /\ StoreBelow(store[r.path], revision)
  BY RowsKeyed DEF Parts, StoreInv, GoodStore
<1>5. ASSUME NEW i \in h.todo, NEW r \in rows, r.pk = i.pk
      PROVE  ItemFor(i, r, v)
  <2>1. PICK q \in rows : ItemFor(i, q, v) /\ q.pk = i.pk
    BY <1>1, <1>3, TodoFor
  <2>2. q = r
    BY <1>4, <1>5, <2>1 DEF OneRow, OneRowPerPath
  <2>. QED BY <2>1, <2>2
<1>6. OnePull(h)
  <2>. SUFFICES ASSUME NEW i \in h.todo, i.kind = "pull",
                       NEW j \in h.todo, j.pk = i.pk, j.kind \in Writing
                PROVE  j = i
    BY DEF OnePull
  <2>1. PICK r \in rows : ItemFor(i, r, v) /\ r.pk = i.pk
    BY <1>1, <1>3, TodoFor
  <2>2. ItemFor(j, r, v)
    BY <1>5, <2>1
  <2>3. r \in FsStaged(v) \cup FsAhead(v) /\ r.path \in Paths
    BY <1>4, <2>1 DEF ItemFor
  <2>4. j.kind = "pull"
    BY <1>3, <2>2, <2>3, KindsApart DEF ItemFor, Writing
  <2>. QED BY <2>1, <2>2, <2>4 DEF ItemFor
<1>7. ASSUME NEW r \in rows
      PROVE  PullsUnedited(h, r, store[r.path])
  <2>. SUFFICES ASSUME NEW i \in h.todo, i.kind = "pull", i.pk = r.pk,
                       r.resolve_conflict = "none",
                       r.last_sync_revision # NULL, store[r.path].val # NULL,
                       NEW u \in Units
                PROVE  store[r.path].rev[u] <= r.last_sync_revision
    BY DEF PullsUnedited, NotEdited
  <2>1. r \in FsStaged(v) \cup FsAhead(v)
    BY <1>5 DEF ItemFor
  <2>2. r \in Synced(v) /\ Live(v, r) /\ r \notin PootleChanged(v)
    BY <2>1 DEF FsStaged, FsAhead, Unsynced
  <2>3. MaxUnitRevision(store[r.path]) = r.last_sync_revision
    BY <1>3, <2>2 DEF PootleChanged
  <2>. QED BY <1>4, <2>3, UnitsUpToMax DEF Parts, NumbersInv
<1>8. \A d \in Procs : d = c
  BY DEF OneProcess
<1>. QED BY <1>1, <1>6, <1>7, <1>8 DEF Unedited


\* The steps of a sync.
LEMMA SyncUnedited ==
  ASSUME OneProcess, Parts, Unedited, NEW c \in Procs, Syncing(c),
         run'[c].todo \subseteq run[c].todo,
         \A q \in rows' :
           \/ \A i \in run'[c].todo : i.kind = "pull" => i.pk # q.pk
           \/ \E r \in rows : SameToPull(r, q, store[r.path], store'[q.path])
  PROVE  Unedited'
<1>1. \A d \in Procs : d = c
  BY DEF OneProcess
<1>. QED BY <1>1, UneditedStays

\* A row that stays and whose Store does.
LEMMA SameStays ==
  ASSUME NEW r, NEW s
  PROVE  SameToPull(r, r, s, s)
BY DEF SameToPull

\* An item that is passed over, a push and the reading of a hash change no row.
LEMMA StillUnedited ==
  ASSUME OneProcess, Parts, Unedited, NEW c \in Procs, Syncing(c),
         rows' = rows, store' = store, run'[c].todo \subseteq run[c].todo
  PROVE  Unedited'
BY SameStays, SyncUnedited

\* Removing a row leaves the others to be pulled as they were.
LEMMA RmItemUnedited ==
  ASSUME OneProcess, Parts, Unedited, NEW c \in Procs, NEW i, RmItem(c, i)
  PROVE  Unedited'
<1>. PICK r : r = RowOf(i.pk)
  OBVIOUS
<1>1. /\ Syncing(c) /\ Exists(i.pk) /\ GoOn(c, i, NULL, Touched(c, r))
      /\ rows' = rows \ {r}
      /\ store' = IF ~r.fk THEN store
                  ELSE [store EXCEPT
                         ![r.path] = UpdateData([@ EXCEPT !.st = "obsolete"])]
  BY DEF RmItem, CanDo
<1>2. run'[c].todo \subseteq run[c].todo
  BY <1>1, GoOnFields
<1>3. \A q \in rows : q.path \in Paths /\ store[q.path] \in Store
  BY RowsKeyed DEF Parts, StoreInv
<1>4. r \in rows
  BY <1>1, RowOfGood
<1>5. \A q \in rows : /\ store'[q.path].val = store[q.path].val
                      /\ store'[q.path].rev = store[q.path].rev
  BY <1>1, <1>3, <1>4, ObsoleteToPull DEF Parts, StoreInv
<1>6. \A q \in rows' : q \in rows /\ SameToPull(q, q, store[q.path], store'[q.path])
  BY <1>1, <1>5 DEF SameToPull
<1>. QED BY <1>1, <1>2, <1>6, SyncUnedited

\* Writing to a Store, for whatever item, concerns no pull but that of its row.
LEMMA PullItemUnedited ==
  ASSUME OneProcess, Parts, OneRow, Unedited, NEW c \in Procs, NEW i,
         i \in ToDo(c), PullItem(c, i)
  PROVE  Unedited'
<1>. PICK r : r = RowOf(i.pk)
  OBVIOUS
<1>. DEFINE pulled(q) == IF q.pk = i.pk THEN [q EXCEPT !.fk = TRUE] ELSE q
<1>1. /\ Syncing(c) /\ Exists(i.pk) /\ i.kind \in Writing
      /\ rows' = {pulled(q) : q \in rows}
      /\ \E s : store' = [store EXCEPT ![r.path] = s]
      /\ \E at, undo : GoOn(c, i, at, undo)
  BY DEF PullItem, CanDo, Writing
<1>2. run'[c].todo = run[c].todo \ {i}
  BY <1>1, GoOnFields
<1>3. \A q \in rows : q \in Row /\ q.path \in Paths /\ q.path = q.pk[1]
  BY RowsKeyed
<1>4. r \in rows /\ r.pk = i.pk
  BY <1>1, RowOfGood
<1>5. \A q \in rows : q # r => q.pk # i.pk /\ pulled(q) = q /\ q.path # r.path
  BY <1>3, <1>4 DEF OneRow, OneRowPerPath
<1>6. pulled(r).pk = r.pk
  <2>. PICK yes : yes = TRUE
    OBVIOUS
  <2>. PICK q2 : q2 = [r EXCEPT !.fk = yes]
    OBVIOUS
  <2>1. pulled(r) = q2 \/ pulled(r) = r
    BY Zenon
  <2>2. q2.pk = r.pk
    BY <1>3, <1>4 DEF Row
  <2>. HIDE DEF pulled
  <2>. QED BY <2>1, <2>2
<1>. HIDE DEF pulled
<1>7. \A j \in run'[c].todo : j.kind = "pull" => j.pk # r.pk
  <2>1. OnePull(run[c]) /\ i \in run[c].todo
    BY <1>1 DEF Unedited, ToDo
  <2>. QED BY <1>1, <1>2, <1>4, <2>1 DEF OnePull
<1>8. ASSUME NEW q \in rows, q # r
      PROVE  SameToPull(q, pulled(q), store[q.path], store'[q.path])
  <2>1. store'[q.path] = store[q.path] /\ pulled(q) = q
    BY <1>1, <1>3, <1>5, <1>8 DEF Parts, StoreInv
  <2>. QED BY <2>1, SameStays
<1>9. ASSUME NEW q2 \in rows'
      PROVE  \/ \A j \in run'[c].todo : j.kind = "pull" => j.pk # q2.pk
             \/ \E q \in rows : SameToPull(q, q2, store[q.path], store'[q2.path])
  <2>1. PICK q \in rows : q2 = pulled(q)
    BY <1>1
  <2>2. CASE q = r
    BY <1>6, <1>7, <2>1, <2>2
  <2>3. CASE q # r
    BY <1>5, <1>8, <2>1, <2>3
  <2>. QED BY <2>2, <2>3
<1>. QED BY <1>1, <1>2, <1>9, SyncUnedited

\* Every step of one process keeps it, if no edit runs into a sync.
LEMMA NextUnedited ==
  ASSUME OneProcess, "edit_in_sync" \notin Hazards
  PROVE  Parts /\ OneRow /\ Unedited /\ [Next]_vars => Unedited'
<1>. SUFFICES ASSUME Parts, OneRow, Unedited, [Next]_vars
              PROVE  Unedited'
  OBVIOUS
<1>0. run \in [Procs -> StagingRun \cup SyncRun \cup {NULL}]
  BY DEF Parts, RunInv
<1>1. CASE Environment
  BY <1>1, EnvironmentUnedited
<1>2. ASSUME NEW c \in Procs, NEW op \in Commands, BeginStaging(c, op)
      PROVE  Unedited'
  <2>1. ~Syncing(c)'
    BY <1>0, <1>2 DEF BeginStaging, StartStaging, Syncing
  <2>. QED BY <2>1, UneditedOver
<1>3. ASSUME NEW c \in Procs, EndStaging(c) \/ EndSync(c) \/ Rollback(c)
      PROVE  Unedited'
  <2>1. ~Syncing(c)'
    BY <1>0, <1>3 DEF EndStaging, EndSync, Rollback, Syncing, Idle
  <2>. QED BY <2>1, UneditedOver
<1>4. ASSUME NEW c \in Procs, NEW i, SkipItem(c, i) \/ PushItem(c, i)
      PROVE  Unedited'
  <2>1. /\ Syncing(c) /\ rows' = rows /\ store' = store
        /\ \E at, undo : GoOn(c, i, at, undo)
    BY <1>4 DEF SkipItem, PushItem, CanDo, db
  <2>. QED BY <2>1, GoOnFields, StillUnedited
<1>5. ASSUME NEW c \in Procs, MergePush(c) \/ TakeHash(c)
      PROVE  Unedited'
  <2>1. Syncing(c) /\ rows' = rows /\ store' = store
    BY <1>5 DEF MergePush, TakeHash, db
  <2>2. run[c] \in SyncRun
    BY <2>1, SyncingRun
  <2>3. run'[c].todo = run[c].todo
    BY <1>0, <1>5, <2>2 DEF MergePush, TakeHash, SyncRun
  <2>. QED BY <2>1, <2>3, StillUnedited
<1>6. ASSUME NEW c \in Procs, Step(c)
      PROVE  Unedited'
  <2>1. \A i : Crash(c, i) => Rollback(c)
    BY DEF Crash
  <2>. QED BY <1>3, <1>4, <1>5, <1>6, <2>1, RmItemUnedited, PullItemUnedited
           DEF Step, SyncStep
<1>7. CASE UNCHANGED vars
  BY <1>7 DEF vars, Unedited, Syncing, Idle
<1>. QED BY <1>1, <1>2, <1>3, <1>6, <1>7, BeginSyncUnedited DEF Next, Begin, Fail

\* When one process runs the commands, no Store is made anew at a path that has
\* a row and no edit runs into a sync, then a pull because only the file has
\* changed replaces no edit made since the last sync (state_fs_ahead leaves out
\* what has changed in Pootle): its state still holds when it comes to the row,
\* whatever the sync has removed, merged and pulled before.
THEOREM PullsKeepEdits ==
  ASSUME OneProcess, "recreate" \notin Hazards, "edit_in_sync" \notin Hazards
  PROVE  Spec => PullKeepsEdits
<1>1. ASSUME Parts, Unedited, NEW c \in Procs, NEW i \in ToDo(c), PullItem(c, i),
             i.kind = "pull", RowOf(i.pk).resolve_conflict = "none", NEW u \in Units,
             RowOf(i.pk).last_sync_revision # NULL, store[RowOf(i.pk).path].val # NULL,
             store[RowOf(i.pk).path].rev[u] > RowOf(i.pk).last_sync_revision
      PROVE  FALSE
  <2>. PICK r, s : r = RowOf(i.pk) /\ s = store[r.path]
    OBVIOUS
  <2>1. Syncing(c) /\ i \in run[c].todo /\ Exists(i.pk)
    BY <1>1 DEF ToDo, PullItem
  <2>2. r \in rows /\ r.pk = i.pk /\ r \in Row /\ s \in Store
    BY <1>1, <2>1, RowOfGood DEF Parts, StoreInv, GoodRow
  <2>3. NotEdited(r, s)
    BY <1>1, <2>1, <2>2 DEF Unedited, PullsUnedited
  <2>4. s.rev[u] \in Nat /\ r.last_sync_revision \in Nat
    BY <1>1, <2>2 DEF Store, Row
  <2>5. s.rev[u] <= r.last_sync_revision
    BY <1>1, <2>3 DEF NotEdited
  <2>. QED BY <1>1, <2>4, <2>5
<1>2. Parts /\ Unedited =>
        [\A c \in Procs : \A i \in ToDo(c) :
           PullItem(c, i) /\ i.kind = "pull" /\ RowOf(i.pk).resolve_conflict = "none"
             => LET r == RowOf(i.pk)
                    p == r.path
                IN \A u \in Units :
                     r.last_sync_revision # NULL /\ store[p].val # NULL
                     /\ store[p].rev[u] > r.last_sync_revision
                       => \/ store'[p].val[u] = store[p].val[u]
                          \/ <<u, store[p].val[u]>> \in suggested'[p]]_vars
  BY <1>1
<1>3. Init => OneRow /\ Unedited
  <2>1. Init => Unedited
    BY DEF Init, Unedited, Syncing, Idle
  <2>. QED BY <2>1, InitOneRow
<1>4. Parts /\ OneRow /\ [Next]_vars => OneRow'
  BY NextOneRow
<1>5. Parts /\ OneRow /\ Unedited /\ [Next]_vars => Unedited'
  BY NextUnedited
<1>. QED BY <1>2, <1>3, <1>4, <1>5, InitParts, NextParts, PTL DEF Spec, PullKeepsEdits

-----------------------------------------------------------------------------
(* Where nothing is removed and no Store made obsolete, none is restored, and *)
(* synced Stores agree with their files on every unit.                        *)

\* The Store s is not obsolete and never was.
NeverObsolete(s) == s.st # "obsolete" /\ s.last_sync_revision = NULL
NotRemoved(r) == ~r.staged_for_removal
NothingRemoved ==
  /\ \A p \in Paths : NeverObsolete(store[p])
  /\ \A r \in rows : NotRemoved(r)
  /\ \A c \in Procs : Syncing(c) =>
       /\ \A i \in run[c].todo : i.kind # "rm"
       /\ \A p \in Paths : run[c].undo[p] # NULL =>
            /\ NeverObsolete(run[c].undo[p].store)
            /\ \A r \in run[c].undo[p].rows : NotRemoved(r)

NoRemovals == /\ "obsolete" \notin Hazards
              /\ \A op \in Commands : op.cmd # "rm"

\* Stores are updated as what they are.
LEMMA UpdatedNeverObsolete ==
  ASSUME NEW s \in Store, NeverObsolete(s)
  PROVE  NeverObsolete(UpdateData(s))
<1>. PICK s2, n : s2 = UpdateData(s) /\ n = MaxUnitRevision(s)
  OBVIOUS
<1>1. s2 = [s EXCEPT !.max_unit_revision = n]
  BY DEF UpdateData
<1>2. s2.st = s.st /\ s2.last_sync_revision = s.last_sync_revision
  BY <1>1 DEF Store
<1>. QED BY <1>2 DEF NeverObsolete

\* So they are by a pull.
LEMMA PulledNeverObsolete ==
  ASSUME NEW r \in Row, NEW s \in Store, NEW sugg \in Suggestions,
         NEW f \in File, NEW merge \in BOOLEAN, NEW wins,
         NEW rev \in Nat, StoreBelow(s, rev), NeverObsolete(s)
  PROVE  NeverObsolete(Pull(r, s, sugg, f, merge, wins, rev).store)
<1>. DEFINE s1 == StoreToPull(s)
            o == Pull(r, s, sugg, f, merge, wins, rev)
<1>1. s1 \in Store /\ s1.st # "none" /\ NeverObsolete(s1)
  <2>1. NeverObsolete(EmptyStore)
    BY DEF NeverObsolete, EmptyStore, NoStore
  <2>. QED BY <2>1, StoreToPullKeeps DEF StoreToPull, NeverObsolete, Store
<1>2. f.val \in Content \cup {NULL}
  BY DEF File
<1>3. CASE PullSkipped(r, f)
  BY <1>3 DEF Pull, Outcome
<1>4. CASE ~PullSkipped(r, f) /\ f.val = NULL
  BY <1>1, <1>4 DEF Pull, Outcome
<1>5. CASE ~PullSkipped(r, f) /\ f.val # NULL
  <2>1. PICK old, since :
          /\ o = UpdateStore(s1, sugg, f.val, old, since, wins, rev)
          /\ since \in Nat
    BY <1>5 DEF Pull, Row
  <2>. SUFFICES NeverObsolete(o.store)
    OBVIOUS
  <2>. HIDE DEF s1, o
  <2>. PICK new : new = f.val
    OBVIOUS
  <2>2. CASE s1.val = NULL
    <3>. PICK stamps : stamps = [u \in Units |-> rev + 1]
      OBVIOUS
    <3>. PICK s2 : s2 = [s1 EXCEPT !.val = new, !.rev = stamps]
      OBVIOUS
    <3>1. s2 \in Store /\ NeverObsolete(s2)
      <4>1. stamps \in [Units -> Nat] /\ stamps # NULL
        BY NullAssumption
      <4>. QED BY <1>1, <1>2, <1>5, <2>2, <4>1 DEF NeverObsolete, Store
    <3>2. o.store = UpdateData(s2)
      BY <2>1, <2>2 DEF UpdateStore, AddUnits, Outcome
    <3>. QED BY <3>1, <3>2, UpdatedNeverObsolete
  <2>3. CASE s1.val # NULL /\ s1.val = new
    BY <1>1, <2>1, <2>3 DEF UpdateStore, Outcome
  <2>4. CASE s1.val # NULL /\ s1.val # new
    <3>. PICK val, stamps : 
           /\ val = [u \in Units |-> IF ShouldUpdate(s1, new, old, wins, u)
                                     THEN new[u] ELSE s1.val[u]]
           /\ stamps = [u \in Units |-> IF ShouldUpdate(s1, new, old, wins, u) THEN rev + 1
                                        ELSE IF s1.rev[u] > since THEN rev + 2
                                        ELSE s1.rev[u]]
      OBVIOUS
    <3>. PICK s2 : s2 = [s1 EXCEPT !.val = val, !.rev = stamps]
      OBVIOUS
    <3>1. s2 \in Store /\ NeverObsolete(s2)
      <4>1. s1.val \in Content /\ s1.rev \in [Units -> Nat]
        BY <1>1, <2>4 DEF Store
      <4>2. val \in Content /\ stamps \in [Units -> Nat]
        BY <1>2, <1>5, <4>1 DEF Content
      <4>3. stamps # NULL /\ val # NULL /\ s1.rev # NULL
        BY <4>1, <4>2, NullAssumption
      <4>. HIDE DEF ShouldUpdate
      <4>. QED BY <1>1, <2>4, <4>2, <4>3 DEF NeverObsolete, Store
    <3>2. o.store = UpdateData(s2) \/ o.store = s2
      BY <2>1, <2>4 DEF UpdateStore, UpdateUnits, Outcome
    <3>. QED BY <3>1, <3>2, UpdatedNeverObsolete
  <2>. QED BY <2>2, <2>3, <2>4
<1>. QED BY <1>3, <1>4, <1>5

\* What is created to be synced is not to be removed.
LEMMA CreatedNotRemoved ==
  ASSUME NEW v, NEW ps, NEW rc, NEW merge, NEW no, no = FALSE
  PROVE  \A r \in create_store_fs(v, ps, rc, merge, no) : NotRemoved(r)
<1>1. \A r \in create_store_fs(v, ps, rc, merge, no) : r.staged_for_removal = no
  BY DEF create_store_fs
<1>. QED BY <1>1 DEF NotRemoved

\* No command but rm stages a row for removal.
LEMMA StagedNotRemoved ==
  ASSUME NEW R \in SUBSET Row, \A r \in R : NotRemoved(r), NEW v, NEW s,
         NEW op \in Commands, op.cmd \notin {"sync", "rm"}
  PROVE  \A r \in Staged(R, v, s, op) : NotRemoved(r)
<1>1. ASSUME NEW q \in R, NEW rc, NEW merge, NEW no, no = FALSE
      PROVE  /\ NotRemoved([q EXCEPT !.resolve_conflict = rc])
             /\ NotRemoved([q EXCEPT !.resolve_conflict = rc,
                                     !.staged_for_merge = merge])
             /\ NotRemoved([q EXCEPT !.resolve_conflict = rc,
                                     !.staged_for_merge = merge,
                                     !.staged_for_removal = no])
  <2>1. NotRemoved(q) /\ q \in Row
    OBVIOUS
  <2>. QED BY <1>1, <2>1 DEF NotRemoved, Row
<1>. PICK none, no : none = "none" /\ no = FALSE
  OBVIOUS
<1>2. CASE op.cmd = "add"
  <2>. DEFINE fs == IF op.force /\ op.update # "pootle"
                    THEN s.pootle_removed ELSE {}
              pootle == IF op.force /\ op.update # "fs"
                        THEN s.fs_removed ELSE {}
              ps == (IF op.update # "fs" THEN s.fs_untracked ELSE {})
                    \cup (IF op.update # "pootle" THEN s.pootle_untracked
                          ELSE {})
              changed(r) == [r EXCEPT !.resolve_conflict =
                               IF r.pk \in fs THEN "fs"
                               ELSE IF r.pk \in pootle THEN "pootle" ELSE @]
  <2>1. Staged(R, v, s, op) = {changed(r) : r \in R}
          \cup create_store_fs(v, ps, none, no, no)
    BY <1>2 DEF Staged, Add
  <2>2. \A r \in R : NotRemoved(changed(r))
    <3>. HIDE DEF fs, pootle
    <3>. QED BY <1>1
  <2>. HIDE DEF ps, changed
  <2>. QED BY <2>1, <2>2, CreatedNotRemoved
<1>3. CASE op.cmd = "resolve"
  <2>. DEFINE winner == IF op.pootle_wins THEN "pootle" ELSE "fs"
              changed(r) == IF r.pk \in s.conflict
                            THEN [r EXCEPT !.resolve_conflict = winner,
                                           !.staged_for_merge = @ \/ op.merge]
                            ELSE r
  <2>1. Staged(R, v, s, op) = {changed(r) : r \in R}
          \cup create_store_fs(v, s.conflict_untracked, winner, op.merge, no)
    BY <1>3 DEF Staged, Resolve
  <2>2. \A r \in R : NotRemoved(changed(r))
    <3>. HIDE DEF winner
    <3>. QED BY <1>1
  <2>. HIDE DEF winner, changed
  <2>. QED BY <2>1, <2>2, CreatedNotRemoved
<1>4. CASE op.cmd = "unstage"
  <2>1. Staged(R, v, s, op) = Unstage(R, s)
    BY <1>4 DEF Staged
  <2>2. ASSUME NEW r \in Unstage(R, s)
        PROVE  \E q \in R :
                 \/ r = q
                 \/ r = [q EXCEPT !.resolve_conflict = none,
                                  !.staged_for_merge = no,
                                  !.staged_for_removal = no]
    BY <2>2 DEF Unstage
  <2>3. ASSUME NEW q \in R
        PROVE  NotRemoved([q EXCEPT !.resolve_conflict = none,
                                    !.staged_for_merge = no,
                                    !.staged_for_removal = no])
    BY <1>1
  <2>4. \A r \in Unstage(R, s) : NotRemoved(r)
    BY <2>2, <2>3
  <2>. QED BY <2>1, <2>4
<1>. QED BY <1>2, <1>3, <1>4, CommandsAssumption DEF Command

\* What a sync that has written to a row would restore is not removed either.
LEMMA TouchedNotRemoved ==
  ASSUME Parts, NothingRemoved, NEW c \in Procs, Syncing(c), NEW r \in rows,
         r.path \in Paths, NEW p \in Paths, Touched(c, r)[p] # NULL
  PROVE  /\ NeverObsolete(Touched(c, r)[p].store)
         /\ \A q \in Touched(c, r)[p].rows : NotRemoved(q)
<1>. PICK old : old = run[c].undo[p]
  OBVIOUS
<1>1. /\ run[c].undo \in [Paths -> Undo \cup {NULL}]
      /\ old # NULL => /\ old \in Undo /\ NeverObsolete(old.store)
                       /\ \A q \in old.rows : NotRemoved(q)
  BY SyncingRun DEF SyncRun, NothingRemoved
<1>2. CASE Touched(c, r)[p] = old
  BY <1>1, <1>2
<1>3. CASE Touched(c, r)[p] # old
  <2>1. p = r.path /\ Touched(c, r)[p] = WithRow(old, r)
    BY <1>1, <1>3 DEF Touched
  <2>2. CASE old = NULL
    <3>1. WithRow(old, r).store = store[p] /\ WithRow(old, r).rows = {r}
      BY <2>1, <2>2 DEF WithRow
    <3>. QED BY <2>1, <3>1 DEF NothingRemoved
  <2>3. CASE old # NULL
    <3>1. WithRow(old, r) = [old EXCEPT !.rows = @ \cup {r}]
      BY <1>3, <2>1, <2>3 DEF WithRow
    <3>2. WithRow(old, r).store = old.store /\ WithRow(old, r).rows = old.rows \cup {r}
      BY <1>1, <2>3, <3>1 DEF Undo
    <3>. QED BY <1>1, <2>1, <2>3, <3>2 DEF NothingRemoved
  <2>. QED BY <2>2, <2>3
<1>. QED BY <1>2, <1>3

\* A sync that goes on.
LEMMA SyncNotRemoved ==
  ASSUME Parts, NothingRemoved, NEW c \in Procs, Syncing(c),
         \A d \in Procs \ {c} : run'[d] = run[d],
         run'[c].todo \subseteq run[c].todo,
         \/ run'[c].undo = run[c].undo
         \/ \E r \in rows : r.path \in Paths /\ run'[c].undo = Touched(c, r),
         \A p \in Paths : NeverObsolete(store'[p]),
         \A r \in rows' : NotRemoved(r)
  PROVE  NothingRemoved'
<1>. SUFFICES ASSUME NEW d \in Procs, Syncing(d)'
              PROVE  /\ \A i \in run'[d].todo : i.kind # "rm"
                     /\ \A p \in Paths : run'[d].undo[p] # NULL =>
                          /\ NeverObsolete(run'[d].undo[p].store)
                          /\ \A r \in run'[d].undo[p].rows : NotRemoved(r)
  BY DEF NothingRemoved
<1>1. CASE d # c
  BY <1>1 DEF NothingRemoved, Syncing, Idle
<1>2. CASE d = c /\ run'[c].undo = run[c].undo
  BY <1>2 DEF NothingRemoved
<1>3. CASE d = c /\ \E r \in rows : r.path \in Paths /\ run'[c].undo = Touched(c, r)
  BY <1>3, TouchedNotRemoved DEF NothingRemoved
<1>. QED BY <1>1, <1>2, <1>3

\* A process that is in no sync.
LEMMA OverNotRemoved ==
  ASSUME NothingRemoved, NEW c \in Procs, ~Syncing(c)',
         \A d \in Procs \ {c} : run'[d] = run[d],
         \A p \in Paths : NeverObsolete(store'[p]),
         \A r \in rows' : NotRemoved(r)
  PROVE  NothingRemoved'
BY DEF NothingRemoved, Syncing, Idle

\* What happens beside the commands removes nothing for good.
LEMMA EnvironmentNotRemoved ==
  ASSUME "obsolete" \notin Hazards, Parts, NothingRemoved, Environment
  PROVE  NothingRemoved'
<1>1. PICK p \in Paths :
          \/ \E u \in Units, x \in Vals : EditUnit(p, u, x)
          \/ \E x \in Content : WriteFile(p, x) \/ CreateStore(p, x)
          \/ WriteFile(p, NULL)
          \/ RemoveFile(p) \/ DeleteStore(p)
  BY DEF Environment, MakeObsolete
<1>2. store \in [Paths -> Store] /\ \A r \in rows : r \in Row
  BY RowsKeyed DEF Parts, StoreInv
<1>3. ASSUME run' = run, \A q \in Paths : NeverObsolete(store'[q]),
             \A r \in rows' : NotRemoved(r)
      PROVE  NothingRemoved'
  BY <1>3 DEF NothingRemoved, Syncing, Idle
<1>4. ASSUME NEW u \in Units, NEW x \in Vals, EditUnit(p, u, x)
      PROVE  NothingRemoved'
  <2>. PICK s1 : s1 = [store[p] EXCEPT !.val[u] = x, !.rev[u] = revision + 1]
    OBVIOUS
  <2>1. /\ run' = run /\ rows' = rows
        /\ store' = [store EXCEPT ![p] = UpdateData(s1)]
        /\ store[p].val # NULL
    BY <1>4 DEF EditUnit
  <2>2. s1 \in Store /\ NeverObsolete(s1)
    <3>1. revision + 1 \in Nat
      BY DEF Parts, NumbersInv
    <3>2. store[p] \in Store /\ NeverObsolete(store[p])
      BY <1>2 DEF NothingRemoved
    <3>3. store[p].val \in Content /\ store[p].rev \in [Units -> Nat]
      BY <2>1, <3>2 DEF Store
    <3>. PICK val, stamps : /\ val = [store[p].val EXCEPT ![u] = x]
                            /\ stamps = [store[p].rev EXCEPT ![u] = revision + 1]
      OBVIOUS
    <3>4. val \in Content /\ stamps \in [Units -> Nat]
      BY <3>1, <3>3 DEF Content
    <3>5. val # NULL /\ stamps # NULL
      BY <3>4, NullAssumption
    <3>6. s1 = [store[p] EXCEPT !.val = val, !.rev = stamps]
      BY <3>2 DEF Store
    <3>. QED BY <2>1, <3>2, <3>4, <3>5, <3>6 DEF NeverObsolete, Store
  <2>3. \A q \in Paths : NeverObsolete(store'[q])
    BY <1>2, <2>1, <2>2, UpdatedNeverObsolete DEF NothingRemoved
  <2>. QED BY <1>3, <2>1, <2>3 DEF NothingRemoved
<1>5. ASSUME (\E x : WriteFile(p, x)) \/ RemoveFile(p)
      PROVE  NothingRemoved'
  <2>1. run' = run /\ rows' = rows /\ store' = store
    BY <1>5 DEF WriteFile, RemoveFile
  <2>. QED BY <1>3, <2>1 DEF NothingRemoved
<1>6. ASSUME NEW x \in Content, CreateStore(p, x)
      PROVE  NothingRemoved'
  <2>. PICK s1 : s1 = [EmptyStore EXCEPT !.val = x, !.rev = [u \in Units |-> revision + 1]]
    OBVIOUS
  <2>1. /\ run' = run /\ rows' = rows
        /\ store' = [store EXCEPT ![p] = UpdateData(s1)]
    BY <1>6 DEF CreateStore, AddUnits, Outcome
  <2>2. s1 \in Store /\ NeverObsolete(s1)
    <3>. PICK stamps : stamps = [u \in Units |-> revision + 1]
      OBVIOUS
    <3>1. stamps \in [Units -> Nat] /\ x # NULL /\ stamps # NULL
      <4>1. revision + 1 \in Nat
        BY DEF Parts, NumbersInv
      <4>. QED BY <4>1, NullAssumption
    <3>. QED BY <3>1 DEF NeverObsolete, EmptyStore, NoStore, Store
  <2>3. \A q \in Paths : NeverObsolete(store'[q])
    BY <1>2, <2>1, <2>2, UpdatedNeverObsolete DEF NothingRemoved
  <2>. QED BY <1>3, <2>1, <2>3 DEF NothingRemoved
<1>7. ASSUME DeleteStore(p)
      PROVE  NothingRemoved'
  <2>. DEFINE lost(r) == IF r.path = p
                         THEN [r EXCEPT !.fk = FALSE, !.base = NULL] ELSE r
  <2>1. /\ run' = run /\ rows' = {lost(r) : r \in rows}
        /\ store' = [store EXCEPT ![p] = NoStore]
    BY <1>7 DEF DeleteStore
  <2>2. ASSUME NEW r \in rows
        PROVE  NotRemoved(lost(r))
    <3>1. NotRemoved(r) /\ r \in Row
      BY <1>2 DEF NothingRemoved
    <3>. PICK no : no = FALSE
      OBVIOUS
    <3>2. lost(r) = r \/ lost(r) = [r EXCEPT !.fk = no, !.base = NULL]
      BY Zenon
    <3>. HIDE DEF lost
    <3>. QED BY <3>1, <3>2 DEF NotRemoved, Row
  <2>3. NeverObsolete(NoStore)
    BY DEF NeverObsolete, NoStore
  <2>4. \A q \in Paths : NeverObsolete(store'[q])
    BY <1>2, <2>1, <2>3 DEF NothingRemoved
  <2>. HIDE DEF lost
  <2>. QED BY <1>3, <2>1, <2>2, <2>4
<1>. QED BY <1>1, <1>4, <1>5, <1>6, <1>7

\* A sync that begins has nothing to remove.
LEMMA BeginSyncNotRemoved ==
  ASSUME Parts, NothingRemoved, NEW c \in Procs, NEW op \in Commands,
         BeginSync(c, op)
  PROVE  NothingRemoved'
<1>. PICK v, h : v = View(c) /\ h = run'[c]
  OBVIOUS
<1>1. /\ rows' = rows /\ store' = store
      /\ h.todo = Todo(State(v), op.update)
      /\ \A p \in Paths : h.undo[p] = NULL
      /\ \A d \in Procs \ {c} : run'[d] = run[d]
  BY DEF BeginSync, StartSync, Parts, RunInv, db
<1>2. \A r \in v.rows : NotRemoved(r)
  <2>1. \A r \in Overwritten(c) : NotRemoved(r)
    BY DEF Overwritten, Locked, NothingRemoved
  <2>. QED BY <2>1 DEF View, VisibleRows, NothingRemoved
<1>3. \A i \in h.todo : i.kind # "rm"
  <2>1. Remove(v) = {}
    BY <1>2 DEF Remove, NotRemoved
  <2>. QED BY <1>1, <2>1 DEF Todo, State, Pks
<1>. QED BY <1>1, <1>3 DEF NothingRemoved, Syncing, Idle

\* A pull leaves the Store as live as it was.
LEMMA PullItemNotRemoved ==
  ASSUME Parts, NothingRemoved, NEW c \in Procs, NEW i, PullItem(c, i)
  PROVE  NothingRemoved'
<1>. DEFINE r == RowOf(i.pk)
            p == r.path
            merge == i.kind # "pull"
            wins == IF i.kind = "merge_pootle" THEN "pootle" ELSE "fs"
            o == Pull(r, store[p], suggested[p], file[p], merge, wins, revision)
            rev == IF merge THEN o.ret ELSE o.store.max_unit_revision
            undo == IF PullSkipped(r, file[p]) THEN run[c].undo
                    ELSE Touched(c, r)
            pulled(q) == IF q.pk = i.pk THEN [q EXCEPT !.fk = TRUE] ELSE q
<1>1. /\ rows' = {pulled(q) : q \in rows}
      /\ store' = [store EXCEPT ![p] = o.store]
      /\ Syncing(c) /\ Exists(i.pk)
      /\ \E at : GoOn(c, i, at, undo)
  BY DEF PullItem, CanDo
<1>2. /\ r \in rows /\ r \in Row /\ p \in Paths /\ store \in [Paths -> Store]
      /\ suggested[p] \in Suggestions /\ file[p] \in File
      /\ store[p] \in Store /\ merge \in BOOLEAN
      /\ revision \in Nat /\ StoreBelow(store[p], revision)
  BY <1>1, RowOfGood
  DEF GoodRow, GoodStore, Parts, StoreInv, SuggestedInv, FileInv, NumbersInv
<1>3. NeverObsolete(o.store)
  <2>1. NeverObsolete(store[p])
    BY <1>2 DEF NothingRemoved
  <2>. HIDE DEF r, p, merge, wins
  <2>. QED BY <1>2, <2>1, PulledNeverObsolete
<1>4. \A q \in Paths : NeverObsolete(store'[q])
  <2>. HIDE DEF r, p, o
  <2>. QED BY <1>1, <1>2, <1>3 DEF NothingRemoved
<1>5. ASSUME NEW q \in rows
      PROVE  NotRemoved(pulled(q))
  <2>1. NotRemoved(q) /\ q \in Row
    BY RowsKeyed DEF NothingRemoved
  <2>. PICK yes : yes = TRUE
    OBVIOUS
  <2>2. pulled(q) = q \/ pulled(q) = [q EXCEPT !.fk = yes]
    BY Zenon
  <2>. HIDE DEF pulled
  <2>. QED BY <2>1, <2>2 DEF NotRemoved, Row
<1>. HIDE DEF pulled
<1>6. \A q \in rows' : NotRemoved(q)
  BY <1>1, <1>5
<1>7. /\ run'[c].todo = run[c].todo \ {i}
      /\ run'[c].undo = run[c].undo \/ run'[c].undo = Touched(c, r)
      /\ \A d \in Procs \ {c} : run'[d] = run[d]
  <2>1. undo = run[c].undo \/ undo = Touched(c, r)
    OBVIOUS
  <2>. HIDE DEF undo, r
  <2>. PICK at, new : GoOn(c, i, at, new) /\ new = undo
    BY <1>1
  <2>2. run'[c].todo = run[c].todo \ {i} /\ run'[c].undo = new
    BY <1>1, GoOnFields
  <2>3. \A d \in Procs \ {c} : run'[d] = run[d]
    BY DEF GoOn, Parts, RunInv
  <2>. QED BY <2>1, <2>2, <2>3
<1>. HIDE DEF r, p
<1>8. \E q \in rows : q = r /\ q.path \in Paths
  BY <1>2 DEF p
<1>. QED BY <1>1, <1>4, <1>6, <1>7, <1>8, SyncNotRemoved

\* What a rollback brings back was not removed.
LEMMA RollbackNotRemoved ==
  ASSUME Parts, NothingRemoved, NEW c \in Procs, Syncing(c), Rollback(c)
  PROVE  NothingRemoved'
<1>1. /\ ~Syncing(c)' /\ \A d \in Procs \ {c} : run'[d] = run[d]
  BY DEF Rollback, Parts, RunInv, Syncing, Idle
<1>2. \A p \in Paths : NeverObsolete(store'[p])
  BY DEF Rollback, NothingRemoved, Locked
<1>3. \A r \in rows' : NotRemoved(r)
  BY DEF Rollback, Overwrote, NothingRemoved, Locked
<1>. QED BY <1>1, <1>2, <1>3, OverNotRemoved

\* Every step keeps it.
LEMMA NextNotRemoved ==
  ASSUME NoRemovals
  PROVE  Parts /\ NothingRemoved /\ [Next]_vars => NothingRemoved'
<1>. SUFFICES ASSUME Parts, NothingRemoved, [Next]_vars
              PROVE  NothingRemoved'
  OBVIOUS
<1>0. /\ run \in [Procs -> StagingRun \cup SyncRun \cup {NULL}]
      /\ rows \in SUBSET Row
  BY DEF Parts, RunInv, RowsInv, GoodRow
<1>1. CASE Environment
  BY <1>1, EnvironmentNotRemoved DEF NoRemovals
<1>2. ASSUME NEW c \in Procs, NEW op \in Commands, BeginStaging(c, op)
      PROVE  NothingRemoved'
  <2>1. /\ ~Syncing(c)' /\ \A d \in Procs \ {c} : run'[d] = run[d]
        /\ rows' = rows /\ store' = store
    BY <1>0, <1>2 DEF BeginStaging, StartStaging, Syncing, db
  <2>. QED BY <2>1, OverNotRemoved DEF NothingRemoved
<1>3. ASSUME NEW c \in Procs, EndStaging(c)
      PROVE  NothingRemoved'
  <2>1. /\ rows' = Staged(rows, View(c), run[c].state, run[c].op)
        /\ run' = [run EXCEPT ![c] = NULL] /\ store' = store
    BY <1>3 DEF EndStaging
  <2>2. run[c].op \in Commands /\ run[c].op.cmd # "sync"
    BY <1>0, <1>3 DEF EndStaging, StagingRun, SyncRun, Idle, Syncing
  <2>3. run[c].op.cmd \notin {"sync", "rm"}
    BY <2>2 DEF NoRemovals
  <2>4. \A r \in rows' : NotRemoved(r)
    BY <1>0, <2>1, <2>2, <2>3, StagedNotRemoved DEF NothingRemoved
  <2>5. ~Syncing(c)' /\ \A d \in Procs \ {c} : run'[d] = run[d]
    BY <1>0, <2>1 DEF Syncing, Idle
  <2>. QED BY <2>1, <2>4, <2>5, OverNotRemoved DEF NothingRemoved
<1>4. ASSUME NEW c \in Procs, NEW i, SkipItem(c, i) \/ PushItem(c, i)
      PROVE  NothingRemoved'
  <2>1. /\ Syncing(c) /\ rows' = rows /\ store' = store
        /\ \E at : GoOn(c, i, at, run[c].undo)
    BY <1>4 DEF SkipItem, PushItem, CanDo, db
  <2>2. run'[c].todo = run[c].todo \ {i} /\ run'[c].undo = run[c].undo
    BY <2>1, GoOnFields
  <2>3. \A d \in Procs \ {c} : run'[d] = run[d]
    BY <1>0, <2>1 DEF GoOn
  <2>. QED BY <2>1, <2>2, <2>3, SyncNotRemoved DEF NothingRemoved
<1>5. ASSUME NEW c \in Procs, MergePush(c) \/ TakeHash(c)
      PROVE  NothingRemoved'
  <2>1. Syncing(c) /\ rows' = rows /\ store' = store
    BY <1>5 DEF MergePush, TakeHash, db
  <2>2. run[c] \in SyncRun
    BY <2>1, SyncingRun
  <2>3. /\ run'[c].todo = run[c].todo /\ run'[c].undo = run[c].undo
        /\ \A d \in Procs \ {c} : run'[d] = run[d]
    BY <1>0, <1>5, <2>2 DEF MergePush, TakeHash, SyncRun
  <2>. QED BY <2>1, <2>3, SyncNotRemoved DEF NothingRemoved
<1>6. ASSUME NEW c \in Procs, EndSync(c)
      PROVE  NothingRemoved'
  <2>1. /\ ~Syncing(c)' /\ \A d \in Procs \ {c} : run'[d] = run[d]
        /\ store' = store
    BY <1>0, <1>6 DEF EndSync, Syncing, Idle
  <2>2. \A r \in rows : \A last : NotRemoved(OnSync(r, last))
    <3>1. ASSUME NEW r \in rows, NEW last
          PROVE  NotRemoved(OnSync(r, last))
      <4>1. NotRemoved(r) /\ r \in Row
        BY <1>0 DEF NothingRemoved
      <4>2. OnSync(r, last).staged_for_removal = r.staged_for_removal
        BY <4>1 DEF OnSync, Row
      <4>. QED BY <4>1, <4>2 DEF NotRemoved
    <3>. QED BY <3>1
  <2>3. \A r \in rows' : NotRemoved(r)
    BY <1>6, <2>2 DEF EndSync, NothingRemoved
  <2>. QED BY <2>1, <2>3, OverNotRemoved DEF NothingRemoved
<1>7. ASSUME NEW c \in Procs, NEW i \in ToDo(c), RmItem(c, i)
      PROVE  NothingRemoved'
  BY <1>7 DEF RmItem, CanDo, NothingRemoved
<1>8. ASSUME NEW c \in Procs, (\E i : Crash(c, i)) \/ Fail(c)
      PROVE  NothingRemoved'
  <2>1. Syncing(c) /\ Rollback(c)
    BY <1>8 DEF Crash, Fail, CanDo
  <2>. QED BY <2>1, RollbackNotRemoved
<1>9. ASSUME NEW c \in Procs, Step(c)
      PROVE  NothingRemoved'
  BY <1>3, <1>4, <1>5, <1>6, <1>7, <1>8, <1>9, PullItemNotRemoved
  DEF Step, SyncStep
<1>10. CASE UNCHANGED vars
  BY <1>10 DEF vars, NothingRemoved, Syncing, Idle
<1>. QED BY <1>1, <1>2, <1>8, <1>9, <1>10, BeginSyncNotRemoved DEF Next, Begin

\* In the beginning no Store is obsolete.
LEMMA InitNotRemoved == Init => NothingRemoved
<1>. SUFFICES ASSUME Init
              PROVE  NothingRemoved
  OBVIOUS
<1>1. ASSUME NEW x \in Content
      PROVE  NeverObsolete(AddUnits(EmptyStore, {}, x, 0).store)
  <2>. PICK s1 : s1 = [EmptyStore EXCEPT !.val = x, !.rev = [u \in Units |-> 0 + 1]]
    OBVIOUS
  <2>1. s1 \in Store /\ NeverObsolete(s1)
    <3>. PICK stamps : stamps = [u \in Units |-> 0 + 1]
      OBVIOUS
    <3>1. stamps \in [Units -> Nat] /\ x # NULL /\ stamps # NULL
      <4>1. stamps \in [Units -> Nat]
        OBVIOUS
      <4>. QED BY <4>1, NullAssumption
    <3>. QED BY <3>1 DEF NeverObsolete, EmptyStore, NoStore, Store
  <2>2. AddUnits(EmptyStore, {}, x, 0).store = UpdateData(s1)
    BY DEF AddUnits, Outcome
  <2>. QED BY <2>1, <2>2, UpdatedNeverObsolete
<1>2. NeverObsolete(NoStore)
  BY DEF NeverObsolete, NoStore
<1>3. \A p \in Paths : NeverObsolete(store[p])
  BY <1>1, <1>2 DEF Init
<1>. QED BY <1>3 DEF Init, NothingRemoved, Syncing, Idle

\* When moreover no command removes anything and no directory is made obsolete,
\* then no Store is ever restored, and a Store and a file that the state reports
\* as synced are the same in every unit.
THEOREM SyncedStoresStayAgreed ==
  ASSUME OneProcess, "recreate" \notin Hazards, "fetch_in_sync" \notin Hazards,
         NoRemovals
  PROVE  Spec => []SyncedStoresAgree
<1>1. Parts /\ NothingRemoved /\ SyncedUnitsAgree => SyncedStoresAgree
  <2>. SUFFICES ASSUME Parts, NothingRemoved, SyncedUnitsAgree, ~AnySync,
                       NEW r \in InSync(Now), HaveUnits(r.path)
                PROVE  store[r.path].val = file[r.path].val
    BY DEF SyncedStoresAgree
  <2>1. r.path \in Paths
    BY RowsKeyed DEF InSync, Synced, Now
  <2>2. store[r.path].val \in Content /\ file[r.path].val \in Content
    BY <2>1 DEF HaveUnits, Parts, StoreInv, FileInv, Store, File
  <2>3. \A u \in Units : store[r.path].val[u] = file[r.path].val[u]
    BY <2>1 DEF SyncedUnitsAgree, Restored, NothingRemoved, NeverObsolete
  <2>. QED BY <2>2, <2>3 DEF Content
<1>. QED BY <1>1, InitNotRemoved, NextNotRemoved, InitParts, NextParts,
            SyncedUnitsStayAgreed, PTL DEF Spec

-----------------------------------------------------------------------------
(* Where one process overwrites Stores and files, and never merges them, the  *)
(* states miss no row and a sync settles what it handles.                     *)

\* StoreData has the newest revision of the units.
Exact(s) == s.max_unit_revision = MaxUnitRevision(s)
\* A row that was synced, or is resolved for Pootle, has its Store.
HasStore(r, s) == r.fk /\ s.st = "live"
Covers(r, s) ==
  /\ ~r.staged_for_merge
  /\ r.last_sync_revision = NULL <=> r.last_sync_hash = NULL
  /\ r.last_sync_revision # NULL \/ r.resolve_conflict = "pootle"
       => HasStore(r, s)
\* The claim v of the last sync is what there is, but for the edits that ran
\* into the sync.
Settled(v, r, s, f) ==
  /\ HasStore(r, s) /\ ~r.staged_for_removal
  /\ v.rev # NULL /\ v.hash # NULL /\ v.hash = f.mtime
  /\ "edit_in_sync" \notin Hazards /\ s.val # NULL => MaxUnitRevision(s) = v.rev
\* An item of the row r finds the file it pulls, or the Store it pushes.
Doable(i, r, s, f) ==
  /\ i.kind \in {"rm", "pull", "push"}
  /\ i.kind = "pull" => f.mtime # NULL
  /\ i.kind = "push" => HasStore(r, s)
  /\ i.kind # "rm" => ~r.staged_for_removal
\* What the sync h does to the row r, and has done.
SyncCovers(h, r, s, f) ==
  /\ \A i \in h.todo : i.pk = r.pk => Doable(i, r, s, f)
  /\ h.at # NULL /\ h.at.pk = r.pk =>
       h.at.step = "hash" /\ Settled(AtClaim(h.at, f), r, s, f)
  /\ r.pk \in h.done => Settled(h.last_sync[r.path], r, s, f)
UndoCovers(u) == Exact(u.store) /\ \A q \in u.rows : Covers(q, u.store)
\* What a staging command has found still has its Store.
StateCovers(st, R) ==
  /\ \A p \in st.conflict_untracked : store[p].st = "live"
  /\ \A r \in R : r.pk \in st.conflict \cup st.fs_removed =>
                    r.last_sync_revision # NULL

StoresExact == \A p \in Paths : Exact(store[p])
RowsCovered == \A r \in rows : Covers(r, store[r.path])
UndosCovered ==
  \A c \in Procs, p \in Paths : Locked(c, p) => UndoCovers(run[c].undo[p])
StagesCovered ==
  \A c \in Procs : ~Idle(c) /\ ~Syncing(c) => StateCovers(run[c].state, rows)
SyncsCovered ==
  \A c \in Procs : Syncing(c) =>
    \A r \in rows : SyncCovers(run[c], r, store[r.path], file[r.path])
Covered ==
  StoresExact /\ RowsCovered /\ UndosCovered /\ StagesCovered /\ SyncsCovered

\* No command merges, and nothing but rm takes a Store away.
NoMerges == \A op \in Commands : op.cmd = "resolve" => ~op.merge
NoLosses == {"recreate", "fetch_in_sync", "delete", "obsolete"} \cap Hazards = {}

\* StoreData that is recomputed has the newest revision.
LEMMA UpdatedExact ==
  ASSUME NEW s \in Store
  PROVE  /\ UpdateData(s) \in Store /\ Exact(UpdateData(s))
         /\ UpdateData(s).st = s.st
<1>. PICK n, s2 : n = MaxUnitRevision(s) /\ s2 = UpdateData(s)
  OBVIOUS
<1>1. s2 \in Store /\ s2 = [s EXCEPT !.max_unit_revision = n]
  BY UpdateDataKeeps
<1>2. s2.val = s.val /\ s2.rev = s.rev /\ s2.st = s.st /\ s2.max_unit_revision = n
  BY <1>1 DEF Store
<1>3. MaxUnitRevision(s2) = n
  BY <1>1, <1>2, MaxUnitRevisionSame
<1>. QED BY <1>1, <1>2, <1>3 DEF Exact

\* A Store that is to be pulled into is live, and its StoreData still exact.
LEMMA StoreToPullExact ==
  ASSUME NEW s \in Store, NEW rev \in Nat, StoreBelow(s, rev), Exact(s)
  PROVE  Exact(StoreToPull(s)) /\ StoreToPull(s).st = "live"
<1>1. CASE s.st = "none"
  <2>. PICK e : e = EmptyStore
    OBVIOUS
  <2>1. e.val = NULL /\ e.max_unit_revision = 0 /\ e.st = "live"
    BY DEF EmptyStore, NoStore
  <2>2. Exact(e)
    BY <2>1 DEF Exact, MaxUnitRevision
  <2>. QED BY <1>1, <2>1, <2>2 DEF StoreToPull
<1>2. CASE s.st = "obsolete"
  <2>. PICK s2 : s2 = [s EXCEPT !.st = "live",
                                !.last_sync_revision =
                                   IF @ = NULL THEN s.max_unit_revision ELSE @]
    OBVIOUS
  <2>1. s2 \in Store /\ s2.st = "live"
    BY DEF Store
  <2>2. StoreToPull(s) = UpdateData(s2)
    BY <1>2 DEF StoreToPull, Resurrect
  <2>. QED BY <2>1, <2>2, UpdatedExact
<1>3. CASE s.st = "live"
  BY <1>3 DEF StoreToPull
<1>. QED BY <1>1, <1>2, <1>3 DEF Store

\* A pull that is no merge and is not skipped leaves a live Store, with the
\* newest revision in its StoreData: it has saved a unit or changed none.
LEMMA PullExact ==
  ASSUME NEW r \in Row, NEW s \in Store, NEW sugg, NEW f \in File, NEW wins,
         NEW rev \in Nat, StoreBelow(s, rev), Exact(s),
         NEW merge, ~merge,
         NEW o, o = Pull(r, s, sugg, f, merge, wins, rev)
  PROVE  /\ Exact(o.store)
         /\ \/ PullSkipped(r, f) /\ o.store = s
            \/ o.store.st = "live"
<1>. PICK s1, new : s1 = StoreToPull(s) /\ new = f.val
  OBVIOUS
<1>1. s1 \in Store /\ Exact(s1) /\ s1.st = "live" /\ new \in Content \cup {NULL}
  BY StoreToPullKeeps, StoreToPullExact DEF File
<1>2. CASE PullSkipped(r, f)
  BY <1>2 DEF Pull, Outcome
<1>3. CASE ~PullSkipped(r, f) /\ new = NULL
  BY <1>1, <1>3 DEF Pull, Outcome
<1>4. CASE ~PullSkipped(r, f) /\ new # NULL
  <2>1. o = UpdateStore(s1, sugg, new, s1.val, rev + 1, wins, rev)
    BY <1>4 DEF Pull
  <2>2. CASE s1.val = NULL
    <3>. PICK s2 : s2 = [s1 EXCEPT !.val = new, !.rev = [u \in Units |-> rev + 1]]
      OBVIOUS
    <3>1. [u \in Units |-> rev + 1] \in [Units -> Nat]
      OBVIOUS
    <3>2. s2 \in Store /\ s2.st = "live"
      BY <1>1, <1>4, <3>1, NullAssumption DEF Store
    <3>3. o.store = UpdateData(s2)
      BY <2>1, <2>2 DEF UpdateStore, AddUnits, Outcome
    <3>. QED BY <3>2, <3>3, UpdatedExact
  <2>3. CASE s1.val = new
    BY <1>1, <1>4, <2>1, <2>3 DEF UpdateStore, Outcome
  <2>4. CASE s1.val # NULL /\ s1.val # new
    <3>. PICK updated, val, stamps :
           /\ updated = {u \in Units : ShouldUpdate(s1, new, s1.val, wins, u)}
           /\ val = [u \in Units |-> IF u \in updated THEN new[u] ELSE s1.val[u]]
           /\ stamps = [u \in Units |-> IF u \in updated THEN rev + 1
                                        ELSE IF s1.rev[u] > rev + 1 THEN rev + 2
                                        ELSE s1.rev[u]]
      OBVIOUS
    <3>1. s1.val \in Content /\ s1.rev \in [Units -> Nat] /\ new \in Content
      <4>1. s1.val \in Content /\ s1.rev \in [Units -> Nat]
        BY <1>1, <2>4 DEF Store
      <4>. QED BY <1>1, <1>4, <4>1
    <3>2. PICK u \in Units : new[u] # s1.val[u]
      BY <2>4, <3>1 DEF Content
    <3>3. u \in updated
      BY <2>4, <3>2 DEF ShouldUpdate, ConflictFound, FsUpdated, DbUpdated
    <3>. PICK s2 : s2 = [s1 EXCEPT !.val = val, !.rev = stamps]
      OBVIOUS
    <3>4. val \in Content /\ stamps \in [Units -> Nat]
      BY <3>1 DEF Content
    <3>5. s2 \in Store /\ s2.st = "live"
      BY <1>1, <3>4, NullAssumption DEF Store
    <3>6. s2 = [s1 EXCEPT
                  !.val = [v \in Units |-> IF v \in updated THEN new[v] ELSE @[v]],
                  !.rev = [v \in Units |-> IF v \in updated THEN rev + 1
                                           ELSE IF @[v] > rev + 1 THEN rev + 2
                                           ELSE @[v]]]
      OBVIOUS
    <3>7. o.store = UpdateData(s2)
      BY <2>1, <2>4, <3>3, <3>6 DEF UpdateStore, UpdateUnits, Outcome
    <3>. QED BY <3>5, <3>7, UpdatedExact
  <2>. QED BY <2>2, <2>3, <2>4
<1>. QED BY <1>2, <1>3, <1>4

\* A Store without units has the newest revision, 0.
LEMMA NoStoreExact == Exact(NoStore)
<1>1. NoStore.val = NULL /\ NoStore.max_unit_revision = 0
  BY DEF NoStore
<1>. QED BY <1>1 DEF Exact, MaxUnitRevision

\* A row that is staged otherwise is still covered: one that is resolved for
\* Pootle was, or was synced.
LEMMA CoversChanged ==
  ASSUME NEW q \in Row, NEW s, Covers(q, s), NEW rc,
         rc = "pootle" => \/ q.last_sync_revision # NULL
                          \/ q.resolve_conflict = "pootle",
         NEW merge, ~merge, NEW remove
  PROVE  /\ Covers([q EXCEPT !.resolve_conflict = rc], s)
         /\ Covers([q EXCEPT !.resolve_conflict = rc,
                             !.staged_for_merge = merge], s)
         /\ Covers([q EXCEPT !.resolve_conflict = rc,
                             !.staged_for_merge = merge,
                             !.staged_for_removal = remove], s)
<1>1. ASSUME NEW t, t.last_sync_revision = q.last_sync_revision,
             t.last_sync_hash = q.last_sync_hash, t.fk = q.fk,
             t.resolve_conflict = rc, ~t.staged_for_merge
      PROVE  Covers(t, s)
  BY <1>1 DEF Covers, HasStore
<1>2. ~q.staged_for_merge
  BY DEF Covers
<1>. PICK a, b, d : /\ a = [q EXCEPT !.resolve_conflict = rc]
                    /\ b = [q EXCEPT !.resolve_conflict = rc,
                                     !.staged_for_merge = merge]
                    /\ d = [q EXCEPT !.resolve_conflict = rc,
                                     !.staged_for_merge = merge,
                                     !.staged_for_removal = remove]
  OBVIOUS
<1>3. \A t \in {a, b, d} : /\ t.last_sync_revision = q.last_sync_revision
                           /\ t.last_sync_hash = q.last_sync_hash
                           /\ t.fk = q.fk /\ t.resolve_conflict = rc
  BY DEF Row
<1>4. ~a.staged_for_merge /\ ~b.staged_for_merge /\ ~d.staged_for_merge
  <2>1. a.staged_for_merge = q.staged_for_merge /\ b.staged_for_merge = merge
        /\ d.staged_for_merge = merge
    BY DEF Row
  <2>. QED BY <1>2, <2>1
<1>. QED BY <1>1, <1>3, <1>4

\* So is one that is staged for removal, or no longer.
LEMMA CoversRemoved ==
  ASSUME NEW q \in Row, NEW s, Covers(q, s), NEW remove
  PROVE  Covers([q EXCEPT !.staged_for_removal = remove], s)
<1>. PICK a : a = [q EXCEPT !.staged_for_removal = remove]
  OBVIOUS
<1>1. /\ a.last_sync_revision = q.last_sync_revision
      /\ a.last_sync_hash = q.last_sync_hash /\ a.fk = q.fk
      /\ a.resolve_conflict = q.resolve_conflict
      /\ a.staged_for_merge = q.staged_for_merge
  BY DEF Row
<1>2. Covers(a, s)
  BY <1>1 DEF Covers, HasStore
<1>. QED BY <1>2

\* A row that is created for Pootle finds its Store.
LEMMA CreatedCovers ==
  ASSUME NEW v, NEW ps, NEW rc, NEW merge, ~merge, NEW remove,
         rc = "pootle" => \A p \in ps : v.store[p].st = "live"
  PROVE  \A r \in create_store_fs(v, ps, rc, merge, remove) :
           Covers(r, v.store[r.path])
<1>. SUFFICES ASSUME NEW p \in ps, NEW r,
                     r = [pk |-> <<p, next_pk>>, path |-> p,
                          fk |-> v.store[p].st # "none",
                          last_sync_revision |-> NULL, last_sync_hash |-> NULL,
                          base |-> NULL, staged_for_removal |-> remove,
                          staged_for_merge |-> merge, resolve_conflict |-> rc]
              PROVE  Covers(r, v.store[r.path])
  BY Zenon DEF create_store_fs
<1>1. /\ r.path = p /\ r.fk = (v.store[p].st # "none")
      /\ r.last_sync_revision = NULL /\ r.last_sync_hash = NULL
      /\ r.resolve_conflict = rc /\ r.staged_for_merge = merge
  OBVIOUS
<1>2. r.fk <=> v.store[p].st # "none"
  BY <1>1
<1>3. ~r.staged_for_merge
  BY <1>1
<1>4. rc = "pootle" => r.fk /\ v.store[p].st = "live"
  BY <1>2
<1>. QED BY <1>1, <1>3, <1>4 DEF Covers, HasStore

\* A staging command leaves every row covered, if it merges none and what it
\* has found to be synced, or to be live, still is.
LEMMA StagedCovers ==
  ASSUME NoMerges, NEW R \in SUBSET Row, NEW v,
         \A r \in R : Covers(r, v.store[r.path]), NEW s,
         \A r \in R : r.pk \in s.conflict \cup s.fs_removed =>
                        r.last_sync_revision # NULL,
         \A p \in s.conflict_untracked : v.store[p].st = "live",
         NEW op \in Commands, op.cmd # "sync"
  PROVE  \A r \in Staged(R, v, s, op) : Covers(r, v.store[r.path])
<1>. PICK none, no, yes : none = "none" /\ no = FALSE /\ yes = TRUE
  OBVIOUS
<1>0. \A q \in R : q \in Row /\ Covers(q, v.store[q.path])
  OBVIOUS
<1>1. CASE op.cmd = "add"
  <2>. DEFINE fs == IF op.force /\ op.update # "pootle"
                    THEN s.pootle_removed ELSE {}
              pootle == IF op.force /\ op.update # "fs"
                        THEN s.fs_removed ELSE {}
              ps == (IF op.update # "fs" THEN s.fs_untracked ELSE {})
                    \cup (IF op.update # "pootle" THEN s.pootle_untracked
                          ELSE {})
              winner(r) == IF r.pk \in fs THEN "fs"
                           ELSE IF r.pk \in pootle THEN "pootle"
                           ELSE r.resolve_conflict
              changed(r) == [r EXCEPT !.resolve_conflict = winner(r)]
  <2>1. Staged(R, v, s, op) = {changed(r) : r \in R}
          \cup create_store_fs(v, ps, none, no, no)
    BY <1>1 DEF Staged, Add
  <2>2. ASSUME NEW r \in R
        PROVE  Covers(changed(r), v.store[changed(r).path])
    <3>1. winner(r) = "pootle" => \/ r.last_sync_revision # NULL
                                  \/ r.resolve_conflict = "pootle"
      OBVIOUS
    <3>. HIDE DEF winner
    <3>2. changed(r).path = r.path
      BY <1>0 DEF Row
    <3>. QED BY <1>0, <3>1, <3>2, CoversChanged
  <2>3. \A r \in create_store_fs(v, ps, none, no, no) : Covers(r, v.store[r.path])
    BY CreatedCovers
  <2>. HIDE DEF ps, changed
  <2>. QED BY <2>1, <2>2, <2>3
<1>2. CASE op.cmd = "resolve"
  <2>. PICK winner, merge : /\ winner = IF op.pootle_wins THEN "pootle" ELSE "fs"
                            /\ merge = op.merge
    OBVIOUS
  <2>. DEFINE changed(r) == IF r.pk \in s.conflict
                            THEN [r EXCEPT !.resolve_conflict = winner,
                                           !.staged_for_merge = @ \/ merge]
                            ELSE r
  <2>0. ~merge
    BY <1>2 DEF NoMerges
  <2>1. Staged(R, v, s, op) = {changed(r) : r \in R}
          \cup create_store_fs(v, s.conflict_untracked, winner, merge, no)
    BY <1>2 DEF Staged, Resolve
  <2>2. ASSUME NEW r \in R
        PROVE  Covers(changed(r), v.store[changed(r).path])
    <3>. PICK m : m = (r.staged_for_merge \/ merge)
      OBVIOUS
    <3>1. ~m
      BY <2>0 DEF Covers
    <3>2. CASE r.pk \in s.conflict
      <4>1. changed(r) = [r EXCEPT !.resolve_conflict = winner,
                                   !.staged_for_merge = m]
        BY Zenon, <3>2
      <4>2. winner = "pootle" => \/ r.last_sync_revision # NULL
                                 \/ r.resolve_conflict = "pootle"
        BY <3>2
      <4>. HIDE DEF changed
      <4>3. changed(r).path = r.path
        <5>1. r \in Row
          BY <1>0
        <5>. PICK t : t = changed(r)
          OBVIOUS
        <5>2. t = [r EXCEPT !.resolve_conflict = winner, !.staged_for_merge = m]
          BY <4>1
        <5>3. t.path = r.path
          BY ONLY <5>1, <5>2 DEF Row
        <5>. QED BY <5>3
      <4>4. Covers(changed(r), v.store[r.path])
        <5>1. r \in Row /\ Covers(r, v.store[r.path])
          BY <1>0
        <5>. PICK t : t = v.store[r.path]
          OBVIOUS
        <5>2. Covers([r EXCEPT !.resolve_conflict = winner,
                               !.staged_for_merge = m], t)
          BY ONLY <3>1, <4>2, <5>1, t = v.store[r.path], CoversChanged
        <5>. QED BY Zenon, <4>1, <5>2
      <4>. QED BY <4>3, <4>4
    <3>3. CASE r.pk \notin s.conflict
      BY <3>3
    <3>. QED BY <3>2, <3>3
  <2>3. \A r \in create_store_fs(v, s.conflict_untracked, winner, merge, no) :
          Covers(r, v.store[r.path])
    BY <2>0, CreatedCovers
  <2>. HIDE DEF changed
  <2>. QED BY <2>1, <2>2, <2>3
<1>3. CASE op.cmd = "rm"
  <2>. DEFINE update == s.both_removed
                \cup (IF op.update # "pootle" THEN s.pootle_removed ELSE {})
                \cup (IF op.update # "fs" THEN s.fs_removed ELSE {})
                \cup (IF op.force THEN s.conflict ELSE {})
              changed(r) == [r EXCEPT !.staged_for_removal =
                                        @ \/ r.pk \in update]
              ps == IF ~op.force THEN {}
                    ELSE s.conflict_untracked
                         \cup (IF op.update # "pootle" THEN s.pootle_untracked
                               ELSE {})
                         \cup (IF op.update # "fs" THEN s.fs_untracked ELSE {})
  <2>1. Staged(R, v, s, op) = {changed(r) : r \in R}
          \cup create_store_fs(v, ps, none, no, yes)
    BY <1>3 DEF Staged, Rm
  <2>2. ASSUME NEW r \in R
        PROVE  Covers(changed(r), v.store[changed(r).path])
    <3>. HIDE DEF update
    <3>. PICK x : x = (r.staged_for_removal \/ r.pk \in update)
      OBVIOUS
    <3>1. changed(r) = [r EXCEPT !.staged_for_removal = x]
      BY Zenon
    <3>. HIDE DEF changed
    <3>2. changed(r).path = r.path
      BY <1>0, <3>1 DEF Row
    <3>. QED BY <1>0, <3>1, <3>2, CoversRemoved
  <2>3. \A r \in create_store_fs(v, ps, none, no, yes) : Covers(r, v.store[r.path])
    BY CreatedCovers
  <2>. HIDE DEF ps, changed
  <2>. QED BY <2>1, <2>2, <2>3
<1>4. CASE op.cmd = "unstage"
  <2>1. Staged(R, v, s, op) = Unstage(R, s)
    BY <1>4 DEF Staged
  <2>2. ASSUME NEW r \in Unstage(R, s)
        PROVE  \E q \in R :
                 \/ r = q
                 \/ r = [q EXCEPT !.resolve_conflict = none,
                                  !.staged_for_merge = no,
                                  !.staged_for_removal = no]
    BY <2>2 DEF Unstage
  <2>3. ASSUME NEW q \in R, NEW r,
               r = [q EXCEPT !.resolve_conflict = none, !.staged_for_merge = no,
                             !.staged_for_removal = no]
        PROVE  Covers(r, v.store[r.path])
    <3>1. r.path = q.path
      BY <1>0, <2>3 DEF Row
    <3>2. ~no /\ none # "pootle"
      OBVIOUS
    <3>3. Covers(r, v.store[q.path])
      BY <1>0, <2>3, <3>2, CoversChanged
    <3>. QED BY <3>1, <3>3
  <2>4. \A r \in Unstage(R, s) : Covers(r, v.store[r.path])
    BY <2>2, <2>3
  <2>. QED BY <2>1, <2>4
<1>. QED BY <1>1, <1>2, <1>3, <1>4, CommandsAssumption DEF Command
-----------------------------------------------------------------------------
(* Steps that keep every row covered: edits, commands that stage, the start   *)
(* of a sync.                                                                 *)

\* A sync that goes on.
LEMMA SyncStaysCovered ==
  ASSUME OneProcess, NEW c \in Procs, run'[c].op.cmd = "sync",
         StoresExact', RowsCovered',
         \A p \in Paths : run'[c].undo[p] # NULL => UndoCovers(run'[c].undo[p]),
         \A r \in rows' :
           SyncCovers(run'[c], r, store'[r.path], file'[r.path])
  PROVE  Covered'
<1>1. \A d \in Procs : d = c
  BY DEF OneProcess
<1>2. UndosCovered'
  BY <1>1 DEF UndosCovered, Locked
<1>3. StagesCovered'
  BY <1>1 DEF StagesCovered, Syncing
<1>4. SyncsCovered'
  BY <1>1 DEF SyncsCovered
<1>. QED BY <1>2, <1>3, <1>4 DEF Covered

\* A command that is over.
LEMMA OverCovered ==
  ASSUME OneProcess, NEW c \in Procs, run'[c] = NULL, StoresExact', RowsCovered'
  PROVE  Covered'
<1>1. \A d \in Procs : Idle(d)'
  BY DEF OneProcess, Idle
<1>. QED BY <1>1 DEF Covered, UndosCovered, StagesCovered, SyncsCovered, Locked,
                     Syncing

\* A step outside the commands leaves the rows and the Stores they have; into a
\* sync it may only be an edit.
LEMMA OutsideCovered ==
  ASSUME Parts, Covered, rows' = rows, run' = run, StoresExact',
         \A p \in Paths : store[p].st = "live" => store'[p].st = "live",
         AnySync => "edit_in_sync" \in Hazards /\ file' = file
  PROVE  Covered'
<1>1. ASSUME NEW r \in rows, HasStore(r, store[r.path])
      PROVE  HasStore(r, store'[r.path])
  BY <1>1, RowsKeyed DEF HasStore
<1>2. RowsCovered'
  BY <1>1 DEF Covered, RowsCovered, Covers
<1>3. UndosCovered'
  BY DEF Covered, UndosCovered, Locked, Syncing, Idle
<1>4. StagesCovered'
  <2>1. ASSUME NEW c \in Procs, ~Idle(c), ~Syncing(c)
        PROVE  StateCovers(run[c].state, rows)'
    <3>1. StateCovers(run[c].state, rows)
      BY <2>1 DEF Covered, StagesCovered
    <3>2. run[c].state.conflict_untracked \subseteq Paths
      <4>1. run[c] \in StagingRun
        BY <2>1 DEF Parts, RunInv, Idle, Syncing, SyncRun
      <4>. QED BY <4>1 DEF StagingRun, StateObject
    <3>. QED BY <3>1, <3>2 DEF StateCovers
  <2>. QED BY <2>1 DEF StagesCovered, Syncing, Idle
<1>5. SyncsCovered'
  <2>1. ASSUME NEW c \in Procs, Syncing(c), NEW r \in rows
        PROVE  SyncCovers(run[c], r, store'[r.path], file'[r.path])
    <3>1. SyncCovers(run[c], r, store[r.path], file[r.path])
      BY <2>1 DEF Covered, SyncsCovered
    <3>2. "edit_in_sync" \in Hazards /\ file' = file
      BY <2>1 DEF AnySync
    <3>3. \A v : Settled(v, r, store[r.path], file[r.path]) =>
                   Settled(v, r, store'[r.path], file'[r.path])
      BY <1>1, <3>2 DEF Settled
    <3>4. \A i : Doable(i, r, store[r.path], file[r.path]) =>
                   Doable(i, r, store'[r.path], file'[r.path])
      BY <1>1, <3>2 DEF Doable
    <3>. QED BY <3>1, <3>2, <3>3, <3>4 DEF SyncCovers
  <2>. QED BY <2>1 DEF SyncsCovered, Syncing, Idle
<1>. QED BY <1>2, <1>3, <1>4, <1>5 DEF Covered

\* What happens beside the commands.
LEMMA EnvironmentCovered ==
  ASSUME NoLosses, Parts, Covered, Environment
  PROVE  Covered'
<1>0. /\ "delete" \notin Hazards /\ "obsolete" \notin Hazards
      /\ "fetch_in_sync" \notin Hazards
  BY DEF NoLosses
<1>1. PICK p \in Paths :
          \/ \E u \in Units, x \in Vals : EditUnit(p, u, x)
          \/ \E x \in Content : CreateStore(p, x)
          \/ (\E x : WriteFile(p, x)) \/ RemoveFile(p)
  BY <1>0 DEF Environment, DeleteStore, MakeObsolete
<1>2. /\ store \in [Paths -> Store] /\ \A q \in Paths : Exact(store[q])
      /\ revision \in Nat
  BY DEF Parts, StoreInv, NumbersInv, Covered, StoresExact
<1>3. ASSUME NEW u \in Units, NEW x \in Vals, EditUnit(p, u, x)
      PROVE  Covered'
  <2>. PICK s1 : s1 = [store[p] EXCEPT !.val[u] = x, !.rev[u] = revision + 1]
    OBVIOUS
  <2>1. /\ run' = run /\ rows' = rows /\ file' = file
        /\ store' = [store EXCEPT ![p] = UpdateData(s1)]
        /\ store[p].val # NULL /\ store[p].st = "live"
        /\ AnySync => "edit_in_sync" \in Hazards
    BY <1>3 DEF EditUnit
  <2>2. s1 \in Store /\ s1.st = "live"
    <3>1. store[p] \in Store /\ store[p].val \in Content
          /\ store[p].rev \in [Units -> Nat]
      BY <1>2, <2>1 DEF Store
    <3>. PICK val, stamps : /\ val = [store[p].val EXCEPT ![u] = x]
                            /\ stamps = [store[p].rev EXCEPT ![u] = revision + 1]
      OBVIOUS
    <3>2. val \in Content /\ stamps \in [Units -> Nat]
      BY <1>2, <3>1 DEF Content
    <3>3. val # NULL /\ stamps # NULL
      BY <3>2, NullAssumption
    <3>4. s1 = [store[p] EXCEPT !.val = val, !.rev = stamps]
      BY <3>1 DEF Store
    <3>. QED BY <2>1, <3>1, <3>2, <3>3, <3>4 DEF Store
  <2>3. Exact(store'[p]) /\ store'[p].st = "live"
    BY <1>2, <2>1, <2>2, UpdatedExact
  <2>4. StoresExact'
    BY <1>2, <2>1, <2>3 DEF StoresExact
  <2>. QED BY <1>2, <2>1, <2>3, <2>4, OutsideCovered
<1>4. ASSUME (\E x : WriteFile(p, x)) \/ RemoveFile(p)
      PROVE  Covered'
  <2>1. run' = run /\ rows' = rows /\ store' = store /\ ~AnySync
    BY <1>0, <1>4 DEF WriteFile, RemoveFile
  <2>. QED BY <1>2, <2>1, OutsideCovered DEF StoresExact
<1>5. ASSUME NEW x \in Content, CreateStore(p, x)
      PROVE  Covered'
  <2>. PICK s1 : s1 = [EmptyStore EXCEPT !.val = x, !.rev = [u \in Units |-> revision + 1]]
    OBVIOUS
  <2>1. /\ run' = run /\ rows' = rows /\ file' = file /\ ~AnySync
        /\ store' = [store EXCEPT ![p] = UpdateData(s1)]
        /\ store[p].st = "none"
    BY <1>5 DEF CreateStore, AddUnits, Outcome
  <2>2. s1 \in Store
    <3>. PICK stamps : stamps = [u \in Units |-> revision + 1]
      OBVIOUS
    <3>1. stamps \in [Units -> Nat] /\ x # NULL /\ stamps # NULL
      BY <1>2, NullAssumption
    <3>. QED BY <3>1 DEF EmptyStore, NoStore, Store
  <2>3. StoresExact'
    BY <1>2, <2>1, <2>2, UpdatedExact DEF StoresExact
  <2>4. \A q \in Paths : store[q].st = "live" => store'[q].st = "live"
    BY <1>2, <2>1
  <2>. QED BY <2>1, <2>3, <2>4, OutsideCovered
<1>. QED BY <1>1, <1>3, <1>4, <1>5

\* A staging command that begins finds rows that were synced and Stores that
\* are live,
LEMMA BeginStagingCovered ==
  ASSUME OneProcess, Parts, OneRow, Covered, NEW c \in Procs, NEW op \in Commands,
         BeginStaging(c, op)
  PROVE  Covered'
<1>. PICK v : v = View(c)
  OBVIOUS
<1>1. /\ rows' = rows /\ store' = store /\ op.cmd # "sync"
      /\ run'[c] = [op |-> op, state |-> State(v)]
  BY DEF BeginStaging, StartStaging, Parts, RunInv, db
<1>2. v.rows = rows /\ v.store = store
  BY OneView
<1>3. \A q, r \in rows : q.pk = r.pk => q = r
  BY RowsKeyed DEF OneRow, OneRowPerPath
<1>4. StateCovers(State(v), rows)'
  <2>1. \A p \in State(v).conflict_untracked : store[p].st = "live"
    BY <1>2 DEF State, ConflictUntracked, Trackable
  <2>2. ASSUME NEW r \in rows, r.pk \in State(v).conflict \cup State(v).fs_removed
        PROVE  r.last_sync_revision # NULL
    <3>1. PICK q \in Synced(v) : q.pk = r.pk
      BY <2>2 DEF State, Conflict, FsRemoved, PootleChanged, Pks
    <3>2. q \in rows /\ q.last_sync_revision # NULL
      BY <1>2, <3>1 DEF Synced
    <3>. QED BY <1>3, <3>1, <3>2
  <2>. QED BY <1>1, <2>1, <2>2 DEF StateCovers
<1>5. \A d \in Procs : d = c
  BY DEF OneProcess
<1>6. run'[c].state = State(v) /\ run'[c].op = op
  BY <1>1
<1>7. StagesCovered'
  BY <1>1, <1>4, <1>5, <1>6 DEF StagesCovered
<1>8. ~Syncing(c)'
  BY <1>1, <1>6 DEF Syncing
<1>9. UndosCovered' /\ SyncsCovered'
  BY <1>5, <1>8 DEF UndosCovered, SyncsCovered, Locked
<1>10. StoresExact' /\ RowsCovered'
  BY <1>1 DEF Covered, StoresExact, RowsCovered
<1>. QED BY <1>7, <1>9, <1>10 DEF Covered

\* and one that ends leaves them covered.
LEMMA EndStagingCovered ==
  ASSUME OneProcess, NoMerges, Parts, Covered, NEW c \in Procs, EndStaging(c)
  PROVE  Covered'
<1>. PICK h, v : h = run[c] /\ v = View(c)
  OBVIOUS
<1>1. /\ rows' = Staged(rows, v, h.state, h.op) /\ store' = store
      /\ run'[c] = NULL
  BY DEF EndStaging, Parts, RunInv
<1>2. h.op \in Commands /\ h.op.cmd # "sync"
  BY DEF EndStaging, Parts, RunInv, StagingRun, SyncRun, Idle, Syncing
<1>3. v.store = store /\ rows \in SUBSET Row
  BY OneView, RowsKeyed
<1>4. StateCovers(h.state, rows)
  BY DEF EndStaging, Covered, StagesCovered
<1>5. \A r \in rows' : Covers(r, store[r.path])
  BY <1>1, <1>2, <1>3, <1>4, StagedCovers DEF StateCovers, Covered, RowsCovered
<1>6. StoresExact' /\ RowsCovered'
  BY <1>1, <1>5 DEF Covered, StoresExact, RowsCovered
<1>. QED BY <1>1, <1>6, OverCovered

\* A sync that begins has items it can do.
LEMMA BeginSyncCovered ==
  ASSUME OneProcess, Parts, OneRow, Covered, NEW c \in Procs, NEW op \in Commands,
         BeginSync(c, op)
  PROVE  Covered'
<1>. PICK v, h : v = View(c) /\ h = run'[c]
  OBVIOUS
<1>1. /\ rows' = rows /\ store' = store /\ file' = file /\ h.op.cmd = "sync"
      /\ h.todo = Todo(State(v), op.update) /\ h.at = NULL /\ h.done = {}
      /\ \A p \in Paths : h.undo[p] = NULL
  BY DEF BeginSync, StartSync, Parts, RunInv, db
<1>2. /\ v.rows = rows /\ v.store = store /\ v.tracked = TrackedPaths(v.rows)
      /\ v.file = file /\ v.found = ExistingFiles(v.file)
  BY OneView DEF View
<1>3. \A q, r \in rows : q.pk = r.pk => q = r
  BY RowsKeyed DEF OneRow, OneRowPerPath
<1>4. ASSUME NEW i \in h.todo, NEW r \in rows, i.pk = r.pk
      PROVE  Doable(i, r, store[r.path], file[r.path])
  <2>1. PICK q \in rows : ItemFor(i, q, v) /\ q.pk = i.pk
    BY <1>1, <1>2, TodoFor
  <2>2. ItemFor(i, r, v)
    BY <1>3, <1>4, <2>1
  <2>3. ~r.staged_for_merge /\ r.path \in Paths
    BY RowsKeyed DEF Covered, RowsCovered, Covers
  <2>4. i.kind \in {"rm", "pull", "push"}
    BY <2>2, <2>3 DEF ItemFor, MergePootleWins, MergeFsWins
  <2>5. i.kind = "pull" => r \in FsStaged(v) \cup FsAhead(v)
    BY <2>2 DEF ItemFor
  <2>6. i.kind = "push" => r \in PootleStaged(v) \cup PootleAhead(v)
    BY <2>2 DEF ItemFor
  <2>7. r \in FsStaged(v) \cup FsAhead(v) =>
          file[r.path].mtime # NULL /\ ~r.staged_for_removal
    <3>1. r.path \in TrackedPaths(v.rows)
      BY <1>2 DEF TrackedPaths
    <3>2. ~Missing(v, r.path) \/ Found(v, r.path) => file[r.path].mtime # NULL
      BY <1>2, <3>1 DEF Missing, Found, ExistingFiles
    <3>. QED BY <3>2 DEF FsStaged, FsAhead, Synced, Unsynced, NotStaged
  <2>8. r \in PootleStaged(v) \cup PootleAhead(v) =>
          HasStore(r, store[r.path]) /\ ~r.staged_for_removal
    BY <1>2 DEF PootleStaged, PootleAhead, PootleChanged, Synced, Unsynced,
                NotStaged, Live, HasStore
  <2>. QED BY <2>4, <2>5, <2>6, <2>7, <2>8 DEF Doable
<1>5. \A r \in rows : SyncCovers(h, r, store[r.path], file[r.path])
  BY <1>1, <1>4 DEF SyncCovers
<1>6. StoresExact' /\ RowsCovered'
  BY <1>1 DEF Covered, StoresExact, RowsCovered
<1>. QED BY <1>1, <1>5, <1>6, SyncStaysCovered
-----------------------------------------------------------------------------
(* The items of a sync.                                                       *)

\* What is known of a sync and of its transaction.
LEMMA CoveredHeld ==
  ASSUME Covered, NEW c \in Procs, Syncing(c)
  PROVE  /\ \A r \in rows :
              SyncCovers(run[c], r, store[r.path], file[r.path])
         /\ \A p \in Paths : run[c].undo[p] # NULL => UndoCovers(run[c].undo[p])
BY DEF Covered, SyncsCovered, UndosCovered, Locked

\* What the transaction would bring back after it has written to the row t.
LEMMA TouchedCovers ==
  ASSUME Parts, OneRow, Covered, NEW c \in Procs, Syncing(c), NEW t \in rows,
         NEW p \in Paths, Touched(c, t)[p] # NULL
  PROVE  UndoCovers(Touched(c, t)[p])
<1>1. run[c].undo \in [Paths -> Undo \cup {NULL}] /\ t.path \in Paths
  BY SyncingRun, VersionsKnown DEF SyncRun
<1>2. CASE Touched(c, t)[p] = run[c].undo[p]
  BY <1>1, <1>2, CoveredHeld
<1>3. CASE Touched(c, t)[p] # run[c].undo[p]
  <2>1. p = t.path /\ Touched(c, t)[p] = WithRow(run[c].undo[p], t)
    BY <1>1, <1>3 DEF Touched
  <2>2. CASE run[c].undo[p] = NULL
    <3>. PICK u : u = [rows |-> {t}, store |-> store[p],
                       suggested |-> suggested[p]]
      OBVIOUS
    <3>1. Touched(c, t)[p] = u
      BY <2>1, <2>2 DEF WithRow
    <3>2. u.rows = {t} /\ u.store = store[p]
      OBVIOUS
    <3>. QED BY <2>1, <3>1, <3>2 DEF UndoCovers, Covered, StoresExact, RowsCovered
  <2>3. CASE run[c].undo[p] # NULL
    <3>1. Single(run[c].undo[p], p, rows)
      BY <2>3 DEF OneRow, UndosAreSingle, Locked
    <3>2. t.pk \in Pks(run[c].undo[p].rows)
      BY <2>1, <3>1 DEF Single, Pks
    <3>. QED BY <1>3, <2>1, <2>3, <3>2 DEF WithRow
  <2>. QED BY <2>2, <2>3
<1>. QED BY <1>2, <1>3

\* A sync does to the rows that it does not handle what it did.
LEMMA OthersCovered ==
  ASSUME NEW h, NEW r, NEW s, NEW f, SyncCovers(h, r, s, f),
         NEW g, g.todo \subseteq h.todo, g.done = h.done,
         g.last_sync = h.last_sync, g.at # NULL => g.at.pk # r.pk
  PROVE  SyncCovers(g, r, s, f)
BY DEF SyncCovers

\* Passing over an item whose row is gone,
LEMMA SkipItemCovered ==
  ASSUME OneProcess, Parts, Covered, NEW c \in Procs, NEW i, SkipItem(c, i)
  PROVE  Covered'
<1>1. /\ Syncing(c) /\ GoOn(c, i, NULL, run[c].undo)
      /\ rows' = rows /\ store' = store /\ file' = file
  BY DEF SkipItem, CanDo, db
<1>. PICK h, g : h = run[c] /\ g = run'[c]
  OBVIOUS
<1>2. /\ g.todo = h.todo \ {i} /\ g.at = NULL /\ g.done = h.done
      /\ g.last_sync = h.last_sync /\ g.undo = h.undo /\ g.op.cmd = "sync"
  BY <1>1, GoOnFields
<1>3. \A r \in rows : SyncCovers(g, r, store[r.path], file[r.path])
  BY <1>1, <1>2, CoveredHeld, OthersCovered
<1>4. \A p \in Paths : g.undo[p] # NULL => UndoCovers(g.undo[p])
  BY <1>1, <1>2, CoveredHeld
<1>5. StoresExact' /\ RowsCovered'
  BY <1>1 DEF Covered, StoresExact, RowsCovered
<1>. QED BY <1>1, <1>2, <1>3, <1>4, <1>5, SyncStaysCovered

\* and removing one, leave the others as they are.
LEMMA RmItemCovered ==
  ASSUME OneProcess, Parts, OneRow, Covered, NEW c \in Procs, NEW i, RmItem(c, i)
  PROVE  Covered'
<1>. PICK r : r = RowOf(i.pk)
  OBVIOUS
<1>1. /\ Syncing(c) /\ Exists(i.pk) /\ GoOn(c, i, NULL, Touched(c, r))
      /\ rows' = rows \ {r}
      /\ store' = IF ~r.fk THEN store
                  ELSE [store EXCEPT
                         ![r.path] = UpdateData([@ EXCEPT !.st = "obsolete"])]
      /\ file' = [file EXCEPT ![r.path] = NoFile]
  BY DEF RmItem, CanDo
<1>. PICK h, g : h = run[c] /\ g = run'[c]
  OBVIOUS
<1>2. /\ g.todo = h.todo \ {i} /\ g.at = NULL /\ g.done = h.done
      /\ g.last_sync = h.last_sync /\ g.undo = Touched(c, r)
      /\ g.op.cmd = "sync"
  BY <1>1, GoOnFields
<1>3. r \in rows /\ r.path \in Paths
  BY <1>1, RowOfGood
<1>4. \A q \in Paths \ {r.path} : file'[q] = file[q] /\ store'[q] = store[q]
  BY <1>1 DEF Parts, FileInv, StoreInv
<1>5. \A q \in rows' : q \in rows /\ q.path \in Paths \ {r.path}
  BY <1>1, <1>3, VersionsKnown DEF OneRow, OneRowPerPath
<1>6. StoresExact'
  <2>1. store \in [Paths -> Store]
    BY DEF Parts, StoreInv
  <2>. PICK s : s = [store[r.path] EXCEPT !.st = "obsolete"]
    OBVIOUS
  <2>2. s \in Store
    BY <1>3, <2>1 DEF Store
  <2>3. store' = store \/ store' = [store EXCEPT ![r.path] = UpdateData(s)]
    BY <1>1
  <2>4. Exact(store'[r.path])
    BY <1>3, <2>1, <2>2, <2>3, UpdatedExact DEF Covered, StoresExact
  <2>. QED BY <1>4, <2>4 DEF Covered, StoresExact
<1>7. RowsCovered'
  BY <1>4, <1>5 DEF Covered, RowsCovered
<1>8. ASSUME NEW q \in rows'
      PROVE  SyncCovers(g, q, store'[q.path], file'[q.path])
  <2>1. SyncCovers(h, q, store[q.path], file[q.path])
    BY <1>1, <1>5, CoveredHeld
  <2>. QED BY <1>2, <1>4, <1>5, <2>1, OthersCovered
<1>9. \A p \in Paths : g.undo[p] # NULL => UndoCovers(g.undo[p])
  BY <1>1, <1>2, <1>3, TouchedCovers
<1>. QED BY <1>2, <1>6, <1>7, <1>8, <1>9, SyncStaysCovered

\* The row and the Store that a pull leaves are settled, as what it has read of
\* them says.
LEMMA PulledSettled ==
  ASSUME NEW r \in Row, NEW s \in Store, NEW sugg \in Suggestions,
         NEW f \in File, f.mtime # NULL, NEW rev \in Nat, StoreBelow(s, rev),
         Exact(s), Covers(r, s), ~r.staged_for_removal,
         NEW merge, ~merge, NEW wins \in {"pootle", "fs"},
         NEW o, o = Pull(r, s, sugg, f, merge, wins, rev),
         NEW q, q = [r EXCEPT !.fk = TRUE],
         NEW v, v.rev = o.store.max_unit_revision, v.hash = f.mtime
  PROVE  Exact(o.store) /\ Covers(q, o.store) /\ Settled(v, q, o.store, f)
<1>1. o.store \in Store
  <2>. PICK no : no = FALSE
    OBVIOUS
  <2>1. o = Pull(r, s, sugg, f, no, wins, rev)
    BY DEF Pull
  <2>2. no \in BOOLEAN
    OBVIOUS
  <2>3. Good(Pull(r, s, sugg, f, no, wins, rev), rev)
    BY <2>2, PullGood
  <2>. QED BY <2>1, <2>3 DEF Good
<1>2. Exact(o.store)
  BY PullExact
<1>3. o.store.st = "live"
  <2>1. CASE PullSkipped(r, f) /\ o.store = s
    BY <2>1 DEF PullSkipped, Covers, HasStore
  <2>. QED BY <2>1, PullExact
<1>. PICK yes : yes = TRUE
  OBVIOUS
<1>4. q.fk = yes
  BY DEF Row
<1>5. /\ q.last_sync_revision = r.last_sync_revision
      /\ q.last_sync_hash = r.last_sync_hash
      /\ q.staged_for_merge = r.staged_for_merge
      /\ q.staged_for_removal = r.staged_for_removal
  BY DEF Row
<1>6. HasStore(q, o.store)
  BY <1>3, <1>4 DEF HasStore
<1>7. Covers(q, o.store)
  BY <1>5, <1>6 DEF Covers
<1>8. v.rev # NULL
  BY <1>1, NullAssumption DEF Store
<1>9. Settled(v, q, o.store, f)
  BY <1>2, <1>5, <1>6, <1>8 DEF Settled, Exact
<1>. QED BY <1>2, <1>7, <1>9

\* A pull: what is to be written down is what there is.
LEMMA PullItemCovered ==
  ASSUME OneProcess, Parts, OneRow, Agreeing, Covered, NEW c \in Procs, NEW i,
         PullItem(c, i)
  PROVE  Covered'
<1>. DEFINE r == RowOf(i.pk)
            p == r.path
            merge == i.kind # "pull"
            wins == IF i.kind = "merge_pootle" THEN "pootle" ELSE "fs"
            o == Pull(r, store[p], suggested[p], file[p], merge, wins, revision)
            rev == IF merge THEN o.ret ELSE o.store.max_unit_revision
            undo == IF PullSkipped(r, file[p]) THEN run[c].undo
                    ELSE Touched(c, r)
            pulled(q) == IF q.pk = i.pk THEN [q EXCEPT !.fk = TRUE] ELSE q
<1>. PICK at : at = [pk |-> i.pk,
                     step |-> IF merge /\ run[c].op.update = "all"
                              THEN "push" ELSE "hash",
                     rev |-> rev, base |-> Base(o.store, rev)]
  OBVIOUS
<1>1. /\ rows' = {pulled(q) : q \in rows}
      /\ store' = [store EXCEPT ![p] = o.store]
      /\ Syncing(c) /\ Exists(i.pk) /\ run[c].at = NULL /\ i \in run[c].todo
      /\ i.kind # "rm" /\ file' = file
      /\ i.kind \in {"merge_pootle", "merge_fs", "pull"}
  BY DEF PullItem, CanDo
<1>2. GoOn(c, i, at, undo)
  BY DEF PullItem
<1>0. /\ run'[c].todo = run[c].todo \ {i} /\ run'[c].at = at
      /\ run'[c].done = run[c].done /\ run'[c].last_sync = run[c].last_sync
      /\ run'[c].undo = undo /\ run'[c].op.cmd = "sync"
  <2>1. Syncing(c)
    BY <1>1
  <2>2. PICK new : new = undo
    OBVIOUS
  <2>3. GoOn(c, i, at, new)
    BY <1>2, <2>2
  <2>4. /\ run'[c].todo = run[c].todo \ {i} /\ run'[c].at = at
        /\ run'[c].done = run[c].done /\ run'[c].last_sync = run[c].last_sync
        /\ run'[c].undo = new /\ run'[c].op.cmd = "sync"
    BY ONLY Parts, c \in Procs, <2>1, <2>3, GoOnFields
  <2>. QED BY <2>2, <2>4
<1>. PICK h, g : h = run[c] /\ g = run'[c]
  OBVIOUS
<1>3. /\ g.todo = h.todo \ {i} /\ g.at = at /\ g.done = h.done
      /\ g.last_sync = h.last_sync /\ g.undo = undo /\ g.op.cmd = "sync"
  <2>. HIDE DEF undo
  <2>. QED BY <1>0
<1>4. r \in rows /\ r.pk = i.pk /\ p \in Paths /\ r \in Row
  BY <1>1, RowOfGood DEF GoodRow
<1>5. /\ store[p] \in Store /\ StoreBelow(store[p], revision)
      /\ suggested[p] \in Suggestions /\ file[p] \in File
      /\ revision \in Nat /\ store'[p] = o.store
      /\ wins \in {"pootle", "fs"}
      /\ \A q \in Paths \ {p} : store'[q] = store[q]
  BY <1>1, <1>4 DEF Parts, StoreInv, SuggestedInv, FileInv, NumbersInv, GoodStore
<1>6. Doable(i, r, store[p], file[p]) /\ i.pk \notin h.done
      /\ \A j \in g.todo : j.pk = i.pk => j.kind = "rm"
  <2>1. SyncCovers(h, r, store[p], file[p]) /\ OneItem(h)
    BY <1>1, <1>4, CoveredHeld, SyncHeld
  <2>. HIDE DEF r, p
  <2>. QED BY <1>1, <1>3, <1>4, <2>1 DEF SyncCovers, OneItem
<1>7. ~merge /\ file[p].mtime # NULL /\ ~r.staged_for_removal
  BY <1>1, <1>6 DEF Doable
<1>8. at.pk = i.pk /\ at.step = "hash" /\ at.rev = o.store.max_unit_revision
  BY <1>7
<1>9. Exact(store[p]) /\ Covers(r, store[p])
  BY <1>4 DEF Covered, StoresExact, RowsCovered
<1>. PICK s2, q2, v : /\ s2 = o.store /\ q2 = [r EXCEPT !.fk = TRUE]
                      /\ v = AtClaim(at, file[p])
  OBVIOUS
<1>10. Exact(s2) /\ Covers(q2, s2) /\ Settled(v, q2, s2, file[p])
  <2>1. v.rev = o.store.max_unit_revision /\ v.hash = file[p].mtime
    BY <1>8 DEF AtClaim
  <2>2. s2 = o.store /\ q2 = [r EXCEPT !.fk = TRUE]
    OBVIOUS
  <2>. PICK oo : oo = o
    OBVIOUS
  <2>3. oo = Pull(r, store[p], suggested[p], file[p], merge, wins, revision)
    OBVIOUS
  <2>. HIDE DEF r, p, merge, wins, o
  <2>. QED BY <1>4, <1>5, <1>7, <1>9, <2>1, <2>2, <2>3, PulledSettled
<1>11. pulled(r) = q2 /\ q2.path = p /\ q2.pk = i.pk
  <2>1. pulled(r) = q2
    BY Zenon, <1>4
  <2>2. q2.path = p /\ q2.pk = i.pk
    BY <1>4 DEF Row
  <2>. QED BY <2>1, <2>2
<1>12. \A q \in rows : q # r => pulled(q) = q /\ q.pk # i.pk
                                /\ q.path \in Paths \ {p}
  <2>1. \A q \in rows : q # r => q.path \in Paths \ {p} /\ q.pk # i.pk
    BY <1>4, RowsKeyed DEF OneRow, OneRowPerPath
  <2>. QED BY <2>1
<1>13. undo = run[c].undo \/ undo = Touched(c, r)
  OBVIOUS
<1>14. store'[p] = s2
  BY <1>5
<1>. HIDE DEF undo, pulled, o, p, r
<1>15. StoresExact'
  BY <1>5, <1>10, <1>14 DEF Covered, StoresExact
<1>16. RowsCovered'
  <2>1. ASSUME NEW q \in rows
        PROVE  Covers(pulled(q), store'[pulled(q).path])
    <3>1. CASE q = r
      BY <1>10, <1>11, <1>14, <3>1
    <3>2. CASE q # r
      <4>1. Covers(q, store[q.path])
        BY DEF Covered, RowsCovered
      <4>2. pulled(q) = q /\ store'[q.path] = store[q.path]
        BY <1>5, <1>12, <3>2
      <4>. QED BY <4>1, <4>2
    <3>. QED BY <3>1, <3>2
  <2>. QED BY <1>1, <2>1 DEF RowsCovered
<1>17. ASSUME NEW q \in rows
       PROVE  LET t == pulled(q)
              IN SyncCovers(g, t, store'[t.path], file'[t.path])
  <2>1. CASE q # r
    <3>1. SyncCovers(h, q, store[q.path], file[q.path])
      BY <1>1, CoveredHeld
    <3>2. g.at # NULL => g.at.pk # q.pk
      BY <1>3, <1>8, <1>12, <2>1
    <3>3. SyncCovers(g, q, store[q.path], file[q.path])
      BY <1>3, <3>1, <3>2, OthersCovered
    <3>. QED BY <1>1, <1>5, <1>12, <2>1, <3>3
  <2>2. CASE q = r
    <3>1. \A j \in g.todo : j.pk = q2.pk => Doable(j, q2, s2, file[p])
      BY <1>6, <1>11 DEF Doable
    <3>2. SyncCovers(g, q2, s2, file[p])
      BY <1>3, <1>6, <1>8, <1>10, <1>11, <3>1 DEF SyncCovers
    <3>. QED BY <1>1, <1>11, <1>14, <2>2, <3>2
  <2>. QED BY <2>1, <2>2
<1>18. \A q \in Paths : g.undo[q] # NULL => UndoCovers(g.undo[q])
  BY <1>1, <1>3, <1>4, <1>13, CoveredHeld, TouchedCovers
<1>19. \A t \in rows' : SyncCovers(g, t, store'[t.path], file'[t.path])
  BY <1>1, <1>17
<1>. QED BY <1>3, <1>15, <1>16, <1>18, <1>19, SyncStaysCovered

\* A push: the file is there, and the revision is that of the Store.
LEMMA PushItemCovered ==
  ASSUME OneProcess, Parts, OneRow, Agreeing, Covered, NEW c \in Procs, NEW i,
         PushItem(c, i)
  PROVE  Covered'
<1>1. /\ Syncing(c) /\ run[c].at = NULL /\ i \in run[c].todo /\ i.kind = "push"
      /\ rows' = rows /\ store' = store
      /\ View(c).rows = rows /\ View(c).store = store
  BY OneView DEF PushItem, CanDo, db
<1>2. PICK r \in rows :
        /\ r.pk = i.pk /\ r.fk /\ WriteBack(r, store[r.path])
        /\ GoOn(c, i, [pk |-> i.pk, step |-> "hash",
                       rev |-> store[r.path].max_unit_revision,
                       base |-> store[r.path].val], run[c].undo)
  BY <1>1 DEF PushItem
<1>. PICK s, f2 : s = store[r.path] /\ f2 = file'[r.path]
  OBVIOUS
<1>. PICK at : at = [pk |-> i.pk, step |-> "hash",
                     rev |-> s.max_unit_revision, base |-> s.val]
  OBVIOUS
<1>3. at.pk = i.pk /\ at.rev = s.max_unit_revision /\ at.step = "hash"
  OBVIOUS
<1>. PICK h, g : h = run[c] /\ g = run'[c]
  OBVIOUS
<1>4. /\ g.todo = h.todo \ {i} /\ g.at = at
      /\ g.done = h.done /\ g.last_sync = h.last_sync
      /\ g.undo = h.undo /\ g.op.cmd = "sync"
  <2>1. /\ run'[c].todo = run[c].todo \ {i} /\ run'[c].at = at
        /\ run'[c].done = run[c].done /\ run'[c].last_sync = run[c].last_sync
        /\ run'[c].undo = run[c].undo /\ run'[c].op.cmd = "sync"
    BY <1>1, <1>2, GoOnFields
  <2>. QED BY <2>1
<1>5. r \in Row /\ r.path \in Paths /\ s \in Store /\ Exact(s)
  BY RowsKeyed DEF Parts, StoreInv, Covered, StoresExact
<1>6. Doable(i, r, s, file[r.path]) /\ i.pk \notin h.done
      /\ \A j \in g.todo : j.pk = i.pk => j.kind = "rm"
  <2>1. SyncCovers(h, r, s, file[r.path]) /\ OneItem(h)
    BY <1>1, CoveredHeld, SyncHeld
  <2>. QED BY <1>1, <1>2, <1>4, <2>1 DEF SyncCovers, OneItem
<1>7. f2.mtime # NULL
  <2>1. CASE PushSkipped(r, s, file[r.path])
    BY <1>2, <1>5, <2>1 DEF PushSkipped, WriteBack
  <2>2. CASE ~PushSkipped(r, s, file[r.path])
    <3>. PICK new : new = [val |-> PushContent(s, file[r.path]), mtime |-> clock]
      OBVIOUS
    <3>1. file' = [file EXCEPT ![r.path] = new]
      BY <1>2, <2>2 DEF WriteBack
    <3>2. f2.mtime = clock /\ clock \in Nat
      BY <1>5, <3>1 DEF Parts, FileInv
    <3>. QED BY <3>2, NullAssumption
  <2>. QED BY <2>1, <2>2
<1>8. \A q \in Paths : q # r.path => file'[q] = file[q]
  BY <1>2, WriteBackMoves DEF Agreeing
<1>9. Settled(AtClaim(at, f2), r, s, f2)
  <2>. PICK v : v = AtClaim(at, f2)
    OBVIOUS
  <2>1. v.hash = f2.mtime /\ v.rev = s.max_unit_revision
    BY <1>3 DEF AtClaim
  <2>2. v.rev # NULL
    BY <1>5, <2>1, NullAssumption DEF Store
  <2>3. HasStore(r, s) /\ ~r.staged_for_removal
    BY <1>1, <1>6 DEF Doable
  <2>4. Settled(v, r, s, f2)
    BY <1>5, <1>7, <2>1, <2>2, <2>3 DEF Settled, Exact
  <2>. QED BY <2>4
<1>10. ASSUME NEW q \in rows
       PROVE  SyncCovers(g, q, store[q.path], file'[q.path])
  <2>1. CASE q = r
    <3>1. \A j \in g.todo : j.pk = r.pk => Doable(j, r, s, f2)
      BY <1>2, <1>6 DEF Doable
    <3>. QED BY <1>2, <1>3, <1>4, <1>6, <1>9, <2>1, <3>1 DEF SyncCovers
  <2>2. CASE q # r
    <3>1. q.path \in Paths \ {r.path} /\ q.pk # i.pk
      BY <1>2, <2>2, RowsKeyed DEF OneRow, OneRowPerPath
    <3>2. SyncCovers(h, q, store[q.path], file[q.path])
      BY <1>1, CoveredHeld
    <3>3. SyncCovers(g, q, store[q.path], file[q.path])
      BY <1>3, <1>4, <3>1, <3>2, OthersCovered
    <3>. QED BY <1>8, <3>1, <3>3
  <2>. QED BY <2>1, <2>2
<1>11. \A q \in Paths : g.undo[q] # NULL => UndoCovers(g.undo[q])
  BY <1>1, <1>4, CoveredHeld
<1>12. StoresExact' /\ RowsCovered'
  BY <1>1 DEF Covered, StoresExact, RowsCovered
<1>. QED BY <1>1, <1>4, <1>10, <1>11, <1>12, SyncStaysCovered

\* Taking the hash: what was read is to be written down.
LEMMA TakeHashCovered ==
  ASSUME OneProcess, Parts, OneRow, Agreeing, Covered, NEW c \in Procs,
         TakeHash(c)
  PROVE  Covered'
<1>. PICK at, p, hash : /\ at = run[c].at /\ p = at.pk[1]
                        /\ hash = file[at.pk[1]].mtime
  OBVIOUS
<1>. PICK last : last = [rev |-> at.rev, hash |-> hash, base |-> at.base]
  OBVIOUS
<1>1. /\ Syncing(c) /\ rows' = rows /\ store' = store /\ file' = file
      /\ at # NULL
      /\ run' = [run EXCEPT ![c].at = NULL, ![c].done = @ \cup {at.pk},
                            ![c].last_sync[p] = last]
  BY DEF TakeHash, db
<1>2. /\ run'[c] = [run[c] EXCEPT !.at = NULL, !.done = run[c].done \cup {at.pk},
                                  !.last_sync =
                                    [run[c].last_sync EXCEPT ![p] = last]]
      /\ run[c] \in SyncRun
  BY <1>1, SyncingRun DEF Parts, RunInv, SyncRun
<1>0. /\ run'[c].todo = run[c].todo /\ run'[c].at = NULL
      /\ run'[c].done = run[c].done \cup {at.pk}
      /\ run'[c].last_sync = [run[c].last_sync EXCEPT ![p] = last]
      /\ run'[c].undo = run[c].undo /\ run'[c].op = run[c].op
  BY <1>2 DEF SyncRun
<1>. PICK h, g : h = run[c] /\ g = run'[c]
  OBVIOUS
<1>3. /\ g.todo = h.todo /\ g.at = NULL /\ g.done = h.done \cup {at.pk}
      /\ g.last_sync = [h.last_sync EXCEPT ![p] = last]
      /\ g.undo = h.undo /\ g.op.cmd = "sync" /\ h.at = at
  BY <1>0, <1>1 DEF Syncing
<1>4. PICK r \in rows : r.pk = at.pk
  BY <1>1, SyncHeld DEF AtHasRow
<1>5. p = r.path /\ p \in Paths
  BY <1>4, RowsKeyed
<1>6. /\ g.last_sync[p] = last
      /\ \A q \in Paths \ {p} : g.last_sync[q] = h.last_sync[q]
  BY <1>2, <1>3, <1>5 DEF SyncRun
<1>7. last = AtClaim(at, file[p])
  BY DEF AtClaim
<1>8. ASSUME NEW q \in rows
      PROVE  SyncCovers(g, q, store[q.path], file[q.path])
  <2>1. SyncCovers(h, q, store[q.path], file[q.path])
    BY <1>1, CoveredHeld
  <2>2. CASE q = r
    <3>1. Settled(last, q, store[q.path], file[q.path])
      BY <1>1, <1>3, <1>4, <1>5, <1>7, <2>1, <2>2 DEF SyncCovers
    <3>2. Settled(g.last_sync[q.path], q, store[q.path], file[q.path])
      BY <1>5, <1>6, <2>2, <3>1
    <3>. QED BY <1>3, <2>1, <3>2 DEF SyncCovers
  <2>3. CASE q # r
    <3>1. q.path \in Paths \ {p} /\ q.pk # at.pk
      BY <1>4, <1>5, <2>3, RowsKeyed DEF OneRow, OneRowPerPath
    <3>2. g.last_sync[q.path] = h.last_sync[q.path]
          /\ (q.pk \in g.done => q.pk \in h.done)
      BY <1>3, <1>6, <3>1
    <3>. QED BY <1>3, <2>1, <3>2 DEF SyncCovers
  <2>. QED BY <2>2, <2>3
<1>9. ASSUME NEW q \in Paths, g.undo[q] # NULL
      PROVE  UndoCovers(g.undo[q])
  <2>1. Syncing(c) /\ run[c].undo[q] # NULL /\ g.undo[q] = run[c].undo[q]
    BY <1>1, <1>3, <1>9
  <2>2. UndoCovers(run[c].undo[q])
    BY <2>1, CoveredHeld
  <2>. QED BY ONLY <2>1, <2>2
<1>10. StoresExact' /\ RowsCovered'
  BY <1>1 DEF Covered, StoresExact, RowsCovered
<1>11. run'[c].op.cmd = "sync"
       /\ (\A q \in rows' : SyncCovers(run'[c], q, store'[q.path], file'[q.path]))
       /\ (\A q \in Paths : run'[c].undo[q] # NULL => UndoCovers(run'[c].undo[q]))
  BY <1>1, <1>3, <1>8, <1>9
<1>. QED BY <1>10, <1>11, SyncStaysCovered

\* A merge does not end with a push, there is none.
LEMMA NoMergePush ==
  ASSUME Parts, Covered, NEW c \in Procs, MergePush(c)
  PROVE  FALSE
<1>. PICK r : r = RowOf(run[c].at.pk)
  OBVIOUS
<1>1. /\ Syncing(c) /\ run[c].at # NULL /\ run[c].at.step = "push"
      /\ r \in rows /\ r.pk = run[c].at.pk
  BY RowOfGood DEF MergePush
<1>2. SyncCovers(run[c], r, store[r.path], file[r.path])
  BY <1>1, CoveredHeld
<1>. QED BY <1>1, <1>2 DEF SyncCovers

\* The rows a sync has done are settled when it ends.
LEMMA EndSyncSettles ==
  ASSUME Parts, Covered, NEW c \in Procs, EndSync(c), NEW r \in rows
  PROVE  LET q == IF r.pk \in run[c].done
                  THEN OnSync(r, run[c].last_sync[r.path]) ELSE r
         IN /\ q.path = r.path /\ q.pk = r.pk /\ Covers(q, store[q.path])
            /\ r.pk \in run[c].done =>
                 /\ NotStaged(q)
                 /\ Settled(RowClaim(q), q, store[q.path], file[q.path])
<1>1. CASE r.pk \notin run[c].done
  BY <1>1 DEF Covered, RowsCovered
<1>2. CASE r.pk \in run[c].done
  <2>. PICK last, q, s, f : /\ last = run[c].last_sync[r.path]
                            /\ q = OnSync(r, run[c].last_sync[r.path])
                            /\ s = store[r.path] /\ f = file[r.path]
    OBVIOUS
  <2>0. r \in Row
    BY RowsKeyed
  <2>1. Settled(last, r, s, f)
    BY <1>2, CoveredHeld DEF EndSync, SyncCovers
  <2>. PICK no : no = FALSE
    OBVIOUS
  <2>2. /\ q.path = r.path /\ q.pk = r.pk /\ q.fk = r.fk
        /\ q.last_sync_revision = last.rev /\ q.last_sync_hash = last.hash
        /\ q.resolve_conflict = "none" /\ q.staged_for_merge = no
        /\ q.staged_for_removal = r.staged_for_removal
    <3>1. q = [r EXCEPT !.last_sync_revision = last.rev,
                        !.last_sync_hash = last.hash, !.base = last.base,
                        !.resolve_conflict = "none", !.staged_for_merge = no]
      BY DEF OnSync
    <3>. QED BY ONLY <2>0, <3>1 DEF Row
  <2>3. ~q.staged_for_merge
    BY <2>2
  <2>4. HasStore(q, s) /\ ~q.staged_for_removal
    BY <2>1, <2>2 DEF Settled, HasStore
  <2>5. Covers(q, s)
    BY <2>1, <2>2, <2>3, <2>4 DEF Covers, Settled
  <2>6. Settled(RowClaim(q), q, s, f)
    <3>. PICK v : v = RowClaim(q)
      OBVIOUS
    <3>1. v.rev = last.rev /\ v.hash = last.hash
      BY <2>2 DEF RowClaim
    <3>2. Settled(v, q, s, f)
      BY <2>1, <2>4, <3>1 DEF Settled
    <3>. QED BY <3>2
  <2>. QED BY <1>2, <2>2, <2>3, <2>4, <2>5, <2>6 DEF NotStaged
<1>. QED BY <1>1, <1>2

\* So they are covered.
LEMMA EndSyncCovered ==
  ASSUME OneProcess, Parts, Covered, NEW c \in Procs, EndSync(c)
  PROVE  Covered'
<1>. DEFINE ended(r) == IF r.pk \in run[c].done
                        THEN OnSync(r, run[c].last_sync[r.path]) ELSE r
<1>1. /\ rows' = {ended(r) : r \in rows} /\ store' = store /\ run'[c] = NULL
  BY DEF EndSync, Parts, RunInv
<1>2. \A r \in rows : Covers(ended(r), store[ended(r).path])
  BY EndSyncSettles
<1>. HIDE DEF ended
<1>3. StoresExact' /\ RowsCovered'
  BY <1>1, <1>2 DEF Covered, StoresExact, RowsCovered
<1>. QED BY <1>1, <1>3, OverCovered

\* A rollback brings a row and its Store back together.
LEMMA RollbackCovered ==
  ASSUME OneProcess, Parts, OneRow, Covered, NEW c \in Procs, Syncing(c),
         Rollback(c)
  PROVE  Covered'
<1>1. /\ rows' = {r \in rows : r.pk \notin Pks(Overwrote(c))} \cup Overwrote(c)
      /\ \A p \in Paths : store'[p] = IF Locked(c, p) THEN run[c].undo[p].store
                                      ELSE store[p]
      /\ run'[c] = NULL
  BY DEF Rollback, Parts, RunInv
<1>2. \A p \in Paths : Locked(c, p) =>
        /\ Single(run[c].undo[p], p, rows)
        /\ UndoCovers(run[c].undo[p])
  BY DEF OneRow, UndosAreSingle, Covered, UndosCovered
<1>3. ASSUME NEW q \in Overwrote(c)
      PROVE  Covers(q, store'[q.path])
  <2>1. PICK p \in Paths : Locked(c, p) /\ q \in run[c].undo[p].rows
    BY DEF Overwrote
  <2>2. q.path = p
    BY <1>2, <2>1 DEF Single
  <2>. QED BY <1>1, <1>2, <2>1, <2>2 DEF UndoCovers
<1>4. ASSUME NEW r \in rows, r.pk \notin Pks(Overwrote(c))
      PROVE  r.path \in Paths /\ ~Locked(c, r.path)
  <2>1. r.path \in Paths
    BY VersionsKnown
  <2>2. ASSUME Locked(c, r.path)
        PROVE  FALSE
    <3>1. PICK q \in run[c].undo[r.path].rows : r.pk = q.pk
      BY <1>2, <2>1, <2>2 DEF Single
    <3>2. q \in Overwrote(c)
      BY <2>1, <2>2, <3>1 DEF Overwrote
    <3>. QED BY <1>4, <3>1, <3>2 DEF Pks
  <2>. QED BY <2>1, <2>2
<1>5. RowsCovered'
  <2>1. ASSUME NEW r \in rows'
        PROVE  Covers(r, store'[r.path])
    <3>1. CASE r \in Overwrote(c)
      BY <1>3, <3>1
    <3>2. CASE r \notin Overwrote(c)
      <4>1. r \in rows /\ r.path \in Paths /\ ~Locked(c, r.path)
        BY <1>1, <1>4, <3>2
      <4>. QED BY <1>1, <4>1 DEF Covered, RowsCovered
    <3>. QED BY <3>1, <3>2
  <2>. QED BY <2>1 DEF RowsCovered
<1>6. StoresExact'
  BY <1>1, <1>2 DEF Covered, StoresExact, UndoCovers
<1>. QED BY <1>1, <1>5, <1>6, OverCovered

\* In the beginning there are no rows.
LEMMA InitCovered == Init => Covered
<1>. SUFFICES ASSUME Init PROVE Covered
  OBVIOUS
<1>1. /\ rows = {} /\ \A c \in Procs : run[c] = NULL
      /\ store \in [Paths -> {NoStore} \cup
                         {AddUnits(EmptyStore, {}, x, 0).store : x \in Content}]
  BY DEF Init
<1>2. ASSUME NEW x \in Content
      PROVE  Exact(AddUnits(EmptyStore, {}, x, 0).store)
  <2>. PICK s1 : s1 = [EmptyStore EXCEPT !.val = x, !.rev = [u \in Units |-> 0 + 1]]
    OBVIOUS
  <2>1. s1 \in Store
    <3>. PICK stamps : stamps = [u \in Units |-> 0 + 1]
      OBVIOUS
    <3>1. stamps \in [Units -> Nat]
      OBVIOUS
    <3>2. x # NULL /\ stamps # NULL
      BY <3>1, NullAssumption
    <3>. QED BY <3>1, <3>2 DEF EmptyStore, NoStore, Store
  <2>2. AddUnits(EmptyStore, {}, x, 0).store = UpdateData(s1)
    BY DEF AddUnits, Outcome
  <2>. QED BY <2>1, <2>2, UpdatedExact
<1>3. StoresExact
  BY <1>1, <1>2, NoStoreExact DEF StoresExact
<1>. QED BY <1>1, <1>3 DEF Covered, RowsCovered, UndosCovered, StagesCovered,
                           SyncsCovered, Locked, Syncing, Idle

\* Every step of one process keeps every row covered, if none merges.
LEMMA NextCovered ==
  ASSUME OneProcess, NoMerges, NoLosses
  PROVE  Parts /\ OneRow /\ Agreeing /\ Covered /\ [Next]_vars => Covered'
<1>. SUFFICES ASSUME Parts, OneRow, Agreeing, Covered, [Next]_vars
              PROVE  Covered'
  OBVIOUS
<1>1. CASE Environment
  BY <1>1, EnvironmentCovered
<1>2. ASSUME NEW c \in Procs, Begin(c)
      PROVE  Covered'
  BY <1>2, BeginSyncCovered, BeginStagingCovered DEF Begin
<1>3. ASSUME NEW c \in Procs, Step(c)
      PROVE  Covered'
  <2>1. CASE EndStaging(c)
    BY <2>1, EndStagingCovered
  <2>2. ASSUME NEW i \in ToDo(c),
               \/ SkipItem(c, i) \/ RmItem(c, i) \/ PullItem(c, i)
               \/ PushItem(c, i) \/ Crash(c, i)
        PROVE  Covered'
    <3>1. Crash(c, i) => Rollback(c) /\ Syncing(c)
      BY DEF Crash, CanDo
    <3>. QED BY <2>2, <3>1, SkipItemCovered, RmItemCovered, PullItemCovered,
                PushItemCovered, RollbackCovered
  <2>3. CASE MergePush(c) \/ TakeHash(c) \/ EndSync(c)
    BY <2>3, NoMergePush, TakeHashCovered, EndSyncCovered
  <2>. QED BY <1>3, <2>1, <2>2, <2>3 DEF Step, SyncStep
<1>4. ASSUME NEW c \in Procs, Fail(c)
      PROVE  Covered'
  BY <1>4, RollbackCovered DEF Fail
<1>5. CASE UNCHANGED vars
  <2>1. rows' = rows /\ store' = store /\ run' = run /\ file' = file
    BY <1>5 DEF vars
  <2>. QED BY <2>1 DEF Covered, StoresExact, RowsCovered, UndosCovered,
                       StagesCovered, SyncsCovered, StateCovers, Locked,
                       Syncing, Idle
<1>. QED BY <1>1, <1>2, <1>3, <1>4, <1>5 DEF Next

-----------------------------------------------------------------------------
(* What the states say.                                                       *)

\* A row that is covered is in some state, whatever its file: only a row that
\* the file system wins and that has no file, or that has lost its Store, may
\* be in none.
LEMMA CoveredInState ==
  ASSUME NEW v, v.tracked = TrackedPaths(v.rows),
         v.found = ExistingFiles(v.file), NEW r \in v.rows, r \in Row,
         r.path \in Paths, Covers(r, v.store[r.path])
  PROVE  \/ r \in Changed(v) \cup InSync(v)
         \/ ~Found(v, r.path) /\ (r.resolve_conflict = "fs" \/ ~Live(v, r))
<1>. PICK rc : rc = r.resolve_conflict
  OBVIOUS
<1>1. /\ Missing(v, r.path) <=> ~Found(v, r.path)
      /\ Found(v, r.path) <=> r.path \in ExistingFiles(v.file)
      /\ rc \in {"none", "pootle", "fs"}
  BY DEF Missing, Found, TrackedPaths, Row
<1>2. CASE r.staged_for_removal
  BY <1>2 DEF Remove, Changed
<1>3. CASE ~r.staged_for_removal /\ r.last_sync_revision = NULL
  <2>1. r \in Unsynced(v)
    BY <1>3 DEF Covers, Unsynced, NotStaged
  <2>2. CASE rc = "pootle"
    <3>1. Live(v, r)
      BY <2>2 DEF Covers, HasStore, Live
    <3>2. r \in PootleStaged(v)
      BY <2>1, <2>2, <3>1 DEF PootleStaged
    <3>. QED BY <3>2 DEF Changed
  <2>3. CASE rc # "pootle" /\ Found(v, r.path)
    <3>1. r \in FsStaged(v)
      BY <1>1, <2>1, <2>3 DEF FsStaged
    <3>. QED BY <3>1 DEF Changed
  <2>4. CASE rc = "none" /\ ~Found(v, r.path) /\ Live(v, r)
    <3>1. r \in PootleStaged(v)
      BY <1>1, <2>1, <2>4 DEF PootleStaged
    <3>. QED BY <3>1 DEF Changed
  <2>. QED BY <1>1, <2>2, <2>3, <2>4
<1>4. CASE ~r.staged_for_removal /\ r.last_sync_revision # NULL
  <2>1. r \in Synced(v) /\ Live(v, r)
    BY <1>4 DEF Covers, HasStore, Synced, NotStaged, Live
  <2>2. CASE r \in PootleChanged(v)
    <3>1. CASE FSChanged(v, r) => rc = "pootle"
      <4>1. r \in PootleAhead(v)
        BY <2>2, <3>1 DEF PootleAhead
      <4>. QED BY <4>1 DEF Changed
    <3>2. CASE FSChanged(v, r) /\ rc = "none"
      <4>1. r \in Conflict(v)
        BY <2>2, <3>2 DEF Conflict
      <4>. QED BY <4>1 DEF Changed
    <3>3. CASE FSChanged(v, r) /\ rc = "fs" /\ Found(v, r.path)
      <4>1. r \in FsAhead(v)
        BY <2>1, <3>3 DEF FsAhead
      <4>. QED BY <4>1 DEF Changed
    <3>. QED BY <1>1, <3>1, <3>2, <3>3
  <2>3. CASE r \notin PootleChanged(v)
    <3>1. CASE ~FSChanged(v, r)
      BY <2>1, <2>3, <3>1 DEF InSync
    <3>2. CASE FSChanged(v, r) /\ Found(v, r.path)
      <4>1. r \in FsAhead(v)
        BY <2>1, <2>3, <3>2 DEF FsAhead
      <4>. QED BY <4>1 DEF Changed
    <3>3. CASE ~Found(v, r.path) /\ rc # "pootle"
      <4>1. r \in FsRemoved(v)
        BY <1>1, <2>1, <2>3, <3>3 DEF FsRemoved
      <4>. QED BY <4>1 DEF Changed
    <3>4. CASE ~Found(v, r.path) /\ rc = "pootle"
      <4>1. r \in PootleStaged(v)
        BY <1>1, <2>1, <3>4 DEF PootleStaged
      <4>. QED BY <4>1 DEF Changed
    <3>. QED BY <3>1, <3>2, <3>3, <3>4
  <2>. QED BY <2>2, <2>3
<1>. QED BY <1>2, <1>3, <1>4

\* What is now, seen as a view.
LEMMA NowIs ==
  /\ Now.rows = rows /\ Now.store = store /\ Now.file = file
  /\ Now.found = ExistingFiles(file) /\ Now.tracked = TrackedPaths(rows)
BY DEF Now

\* A row that is as it was synced is in no state of change.
LEMMA SettledUnchanged ==
  ASSUME NEW v, v.tracked = TrackedPaths(v.rows),
         v.found = ExistingFiles(v.file), "edit_in_sync" \notin Hazards,
         NEW r \in v.rows, r.path \in Paths, NotStaged(r),
         Settled(RowClaim(r), r, v.store[r.path], v.file[r.path])
  PROVE  r \notin Changed(v)
<1>. PICK s, f : s = v.store[r.path] /\ f = v.file[r.path]
  OBVIOUS
<1>1. /\ r.last_sync_revision # NULL /\ r.last_sync_hash # NULL
      /\ r.last_sync_hash = f.mtime /\ r.fk /\ s.st = "live"
      /\ s.val # NULL => MaxUnitRevision(s) = r.last_sync_revision
  BY DEF Settled, HasStore, RowClaim
<1>2. Live(v, r) /\ ~FSChanged(v, r) /\ r \in Synced(v) /\ r \notin Unsynced(v)
  BY <1>1 DEF Live, FSChanged, Synced, Unsynced
<1>3. r \notin PootleChanged(v)
  BY <1>1 DEF PootleChanged
<1>4. Found(v, r.path) /\ ~Missing(v, r.path)
  BY <1>1 DEF Found, Missing, ExistingFiles
<1>5. r \notin FsRemoved(v) \cup PootleRemoved(v) \cup BothRemoved(v)
  BY <1>2, <1>4 DEF FsRemoved, PootleRemoved, BothRemoved
<1>6. r \notin Conflict(v) \cup FsAhead(v) \cup PootleAhead(v)
  BY <1>2, <1>3 DEF Conflict, FsAhead, PootleAhead
<1>7. r \notin FsStaged(v) \cup PootleStaged(v)
  BY <1>2, <1>4 DEF FsStaged, PootleStaged
<1>8. r \notin Remove(v) \cup MergePootleWins(v) \cup MergeFsWins(v)
  BY DEF NotStaged, Remove, MergePootleWins, MergeFsWins
<1>. QED BY <1>5, <1>6, <1>7, <1>8 DEF Changed

\* While one process overwrites Stores and files and merges none, and nothing
\* but rm takes a Store away, the states miss no row: every row is in some
\* state, or as it was synced, but a row that the file system wins and that has
\* no file, or that was added from the file system and has lost its file since;
\* and none is to be pulled and pushed.
THEOREM StatesMissNoRow ==
  ASSUME OneProcess, NoMerges, NoLosses
  PROVE  Spec => []StatesCoverRows
<1>1. Parts /\ Covered => StatesCoverRows
  <2>. SUFFICES ASSUME Parts, Covered, NEW r \in rows
                PROVE  /\ \/ r \in Changed(Now) \cup InSync(Now)
                          \/ ~Found(Now, r.path)
                             /\ (r.resolve_conflict = "fs" \/ ~Live(Now, r))
                       /\ ~(/\ r \in FsStaged(Now) \cup FsAhead(Now)
                            /\ r \in PootleStaged(Now) \cup PootleAhead(Now))
    BY DEF StatesCoverRows
  <2>. PICK v : v = Now
    OBVIOUS
  <2>1. /\ v.rows = rows /\ v.store = store /\ v.file = file
        /\ v.found = ExistingFiles(v.file) /\ v.tracked = TrackedPaths(v.rows)
    BY NowIs
  <2>2. r \in v.rows /\ r \in Row /\ r.path \in Paths /\ Covers(r, v.store[r.path])
    BY <2>1, RowsKeyed DEF Covered, RowsCovered
  <2>. QED BY <2>1, <2>2, CoveredInState, KindsApart
<1>2. Init => OneRow /\ Agreeing /\ Covered
  BY InitOneRow, InitAgreeing, InitCovered
<1>3. Parts /\ OneRow /\ [Next]_vars => OneRow'
  BY NextOneRow DEF NoLosses
<1>4. Parts /\ Parts' /\ OneRow /\ Agreeing /\ [Next]_vars => Agreeing'
  BY NextAgreeing DEF NoLosses
<1>5. Parts /\ OneRow /\ Agreeing /\ Covered /\ [Next]_vars => Covered'
  BY NextCovered
<1>. QED BY <1>1, <1>2, <1>3, <1>4, <1>5, InitParts, NextParts, PTL DEF Spec

\* While one process overwrites and no edit runs into a sync, a sync settles
\* what it pulls and pushes: when it has written its claims down, the next
\* state has nothing to say of these rows.
THEOREM SyncsSettle ==
  ASSUME OneProcess, NoMerges, NoLosses, "edit_in_sync" \notin Hazards
  PROVE  Spec => SyncSettles
<1>1. ASSUME Parts, Covered, NEW c \in Procs, EndSync(c), NEW q \in rows',
             q.pk \in run[c].done
      PROVE  q \notin Changed(Now)'
  <2>. DEFINE ended(r) == IF r.pk \in run[c].done
                          THEN OnSync(r, run[c].last_sync[r.path]) ELSE r
  <2>1. /\ rows' = {ended(r) : r \in rows} /\ store' = store /\ file' = file
    BY <1>1 DEF EndSync
  <2>2. \A r \in rows :
          /\ ended(r).path = r.path /\ ended(r).pk = r.pk
          /\ r.pk \in run[c].done =>
               /\ NotStaged(ended(r))
               /\ Settled(RowClaim(ended(r)), ended(r), store[r.path], file[r.path])
    BY <1>1, EndSyncSettles
  <2>. HIDE DEF ended
  <2>3. PICK r \in rows : q = ended(r)
    BY <1>1, <2>1
  <2>4. /\ NotStaged(q) /\ q.path \in Paths
        /\ Settled(RowClaim(q), q, store[q.path], file[q.path])
    BY <1>1, <2>2, <2>3, RowsKeyed
  <2>. PICK v : v = Now'
    OBVIOUS
  <2>5. /\ v.rows = rows' /\ v.store = store /\ v.file = file
        /\ v.found = ExistingFiles(v.file) /\ v.tracked = TrackedPaths(v.rows)
    BY <2>1 DEF Now
  <2>6. q \notin Changed(v)
    BY <1>1, <2>4, <2>5, SettledUnchanged
  <2>. QED BY <2>6 DEF Changed, FsRemoved, PootleRemoved, BothRemoved, Conflict,
                       FsAhead, PootleAhead, FsStaged, PootleStaged, Remove,
                       MergePootleWins, MergeFsWins
<1>2. Parts /\ Covered =>
        \A c \in Procs : EndSync(c) =>
          \A r \in rows' : r.pk \in run[c].done => r \notin Changed(Now)'
  BY <1>1
<1>3. Init => OneRow /\ Agreeing /\ Covered
  BY InitOneRow, InitAgreeing, InitCovered
<1>4. Parts /\ OneRow /\ [Next]_vars => OneRow'
  BY NextOneRow DEF NoLosses
<1>5. Parts /\ Parts' /\ OneRow /\ Agreeing /\ [Next]_vars => Agreeing'
  BY NextAgreeing DEF NoLosses
<1>6. Parts /\ OneRow /\ Agreeing /\ Covered /\ [Next]_vars => Covered'
  BY NextCovered
<1>. QED BY <1>2, <1>3, <1>4, <1>5, <1>6, InitParts, NextParts, PTL
         DEF Spec, SyncSettles
=============================================================================
