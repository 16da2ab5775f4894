---------------------------- MODULE LocalFS_proofs ----------------------------
(***************************************************************************)
(* Proofs about LocalFS: its variables keep their types, whoever runs and  *)
(* fails; and with one process that runs no merges, a push replaces        *)
(* nothing upstream that no sync has read (UpstreamIsKept).  The first     *)
(* part carries the types of PootleFS over; the second has the invariant   *)
(* NothingLost, and a lemma for each action.                               *)
(***************************************************************************)
EXTENDS LocalFS, PootleFSAlone_proofs

-----------------------------------------------------------------------------
(* Types: those of Pootle FS, and those of what localfs adds                 *)

LocalVars == <<vars, local>>
UpstreamInv == upstream \in [Paths -> File] /\ theirs \subseteq Paths
FetchInv == fetch \in Fetch \cup {NULL}
PushedInv == pushed \in [Procs -> SUBSET Paths]
FoundInv == found # NULL => found \subseteq Paths /\ hashed
MatchesInv == matches # NULL =>
                matches \in [found : SUBSET Paths, tracked : SUBSET Paths]
LocalParts == Parts /\ UpstreamInv /\ FetchInv /\ PushedInv /\ FoundInv /\ MatchesInv

\* The file that dirsync leaves is one of the two.
LEMMA CopiedIsFile ==
  ASSUME NEW f \in File, NEW g \in File
  PROVE  Copied(f, g) \in File
BY DEF Copied

LEMMA GlobsArePaths ==
  ASSUME NEW glob \in Globs
  PROVE  glob \subseteq Paths
BY GlobsAssumption

\* What matches a glob, cached or not, are paths.
LEMMA MatchesType ==
  ASSUME LocalParts, NEW c \in Procs, NEW glob \in Globs
  PROVE  /\ Matches(c, glob) \in [found : SUBSET Paths, tracked : SUBSET Paths]
         /\ FilesFound \subseteq Paths
<1>1. glob \subseteq Paths
  BY GlobsArePaths
<1>2. FilesFound \subseteq Paths
  BY DEF FilesFound, ExistingFiles, LocalParts, FoundInv
<1>. QED BY <1>1, <1>2 DEF Matches, LocalParts, MatchesInv

\* The state of the project for the paths of a glob is a StateObject.
LEMMA StateForType ==
  ASSUME LocalParts, NEW c \in Procs, NEW glob \in Globs
  PROVE  StateFor(c, glob) \in StateObject
<1>. PICK m : m = Matches(c, glob)
  OBVIOUS
<1>. PICK v : v = [View(c) EXCEPT !.found = m.found, !.tracked = m.tracked]
  OBVIOUS
<1>. PICK st : st = State(v)
  OBVIOUS
<1>. PICK sf : sf = StateFor(c, glob)
  OBVIOUS
<1>1. m.found \subseteq Paths /\ m.tracked \subseteq Paths
  BY MatchesType
<1>2. v.rows \subseteq Row /\ v.found \subseteq Paths /\ v.found = m.found
      /\ v.rows = View(c).rows
  <2>1. v.rows = View(c).rows /\ v.found = m.found
    BY DEF View
  <2>2. View(c).rows \subseteq Row
    BY ViewGood DEF GoodRow, LocalParts
  <2>. QED BY <1>1, <2>1, <2>2
<1>3. st \in StateObject
  BY <1>2, StateType
<1>4. glob \subseteq Paths
  BY GlobsArePaths
<1>5. sf = [k \in DOMAIN st |->
              CASE k = "fs_untracked" ->
                     v.found \ (v.tracked \cup (Trackable(v) \cap glob))
                [] k \in {"pootle_untracked", "conflict_untracked"} ->
                     st[k] \cap glob
                [] OTHER -> {pk \in st[k] : pk[1] \in glob}]
  BY DEF StateFor
<1>. DEFINE names == {"fs_untracked", "pootle_untracked", "conflict_untracked",
                "conflict", "fs_ahead", "pootle_ahead", "fs_staged",
                "pootle_staged", "fs_removed", "pootle_removed",
                "both_removed", "remove", "merge_pootle_wins", "merge_fs_wins"}
<1>6. DOMAIN st = names
  BY <1>3 DEF StateObject
<1>7. sf.fs_untracked \subseteq Paths
  BY <1>2, <1>5, <1>6
<1>8. sf.pootle_untracked \subseteq Paths /\ sf.conflict_untracked \subseteq Paths
  <2>1. /\ sf.pootle_untracked = st.pootle_untracked \cap glob
        /\ sf.conflict_untracked = st.conflict_untracked \cap glob
    BY <1>5, <1>6
  <2>. QED BY <1>4, <2>1
<1>9. \A k \in names \ {"fs_untracked", "pootle_untracked", "conflict_untracked"} :
        sf[k] \subseteq st[k]
  BY <1>5, <1>6
<1>10. DOMAIN sf = names /\ sf = [k \in names |-> sf[k]]
  BY <1>5, <1>6
<1>11. /\ st.conflict \subseteq Pk /\ st.fs_ahead \subseteq Pk
       /\ st.pootle_ahead \subseteq Pk /\ st.fs_staged \subseteq Pk
       /\ st.pootle_staged \subseteq Pk /\ st.fs_removed \subseteq Pk
       /\ st.pootle_removed \subseteq Pk /\ st.both_removed \subseteq Pk
       /\ st.remove \subseteq Pk /\ st.merge_pootle_wins \subseteq Pk
       /\ st.merge_fs_wins \subseteq Pk
  BY <1>3 DEF StateObject
<1>12. /\ sf.conflict \subseteq Pk /\ sf.fs_ahead \subseteq Pk
       /\ sf.pootle_ahead \subseteq Pk /\ sf.fs_staged \subseteq Pk
       /\ sf.pootle_staged \subseteq Pk /\ sf.fs_removed \subseteq Pk
       /\ sf.pootle_removed \subseteq Pk /\ sf.both_removed \subseteq Pk
       /\ sf.remove \subseteq Pk /\ sf.merge_pootle_wins \subseteq Pk
       /\ sf.merge_fs_wins \subseteq Pk
  BY <1>9, <1>11
<1>13. sf \in StateObject
  BY <1>7, <1>8, <1>10, <1>12 DEF StateObject
<1>. QED BY <1>13

-----------------------------------------------------------------------------
(* LocalParts is inductive *)

\* What changes files or the clock only, keeps the rest.
LEMMA FilesParts ==
  ASSUME Parts, FileInv', UNCHANGED <<rows, store, suggested, revision, next_pk, run>>
  PROVE  Parts'
BY Stays DEF Parts, NumbersInv, SuggestedInv

\* Whoever changes the directory upstream or fetches it.
LEMMA ChangeUpstreamParts ==
  ASSUME LocalParts, NEW p \in Paths, NEW f \in File, ChangeUpstream(p, f)
  PROVE  LocalParts'
<1>1. FileInv'
  BY DEF ChangeUpstream, LocalParts, Parts, FileInv
<1>2. Parts'
  BY <1>1, FilesParts DEF ChangeUpstream, LocalParts
<1>3. UpstreamInv'
  BY DEF ChangeUpstream, LocalParts, UpstreamInv
<1>. QED BY <1>2, <1>3 DEF ChangeUpstream, cache, LocalParts, FetchInv,
            PushedInv, FoundInv, MatchesInv
LEMMA FetchFileParts ==
  ASSUME LocalParts, NEW p \in Paths, FetchFile(p)
  PROVE  LocalParts'
<1>1. Copied(upstream[p], file[p]) \in File
  BY CopiedIsFile DEF LocalParts, UpstreamInv, Parts, FileInv
<1>2. FileInv'
  BY <1>1 DEF FetchFile, LocalParts, Parts, FileInv
<1>3. Parts'
  BY <1>2, FilesParts DEF FetchFile, LocalParts
<1>4. FetchInv'
  <2>1. PICK b \in BOOLEAN : b = (file' # file)
    OBVIOUS
  <2>2. /\ fetch \in Fetch
        /\ fetch' = [todo |-> fetch.todo \ {p}, synced |-> fetch.synced \/ b]
    BY <2>1 DEF FetchFile, LocalParts, FetchInv
  <2>. QED BY <2>2 DEF Fetch, FetchInv
<1>. QED BY <1>3, <1>4 DEF FetchFile, cache, LocalParts, UpstreamInv,
            PushedInv, FoundInv, MatchesInv
LEMMA FetchParts2 ==
  ASSUME LocalParts, BeginFetch \/ EndFetch \/ FailFetch \/ Expire
  PROVE  LocalParts'
<1>1. UNCHANGED vars
  BY DEF BeginFetch, EndFetch, FailFetch, Expire
<1>2. FileInv'
  BY <1>1 DEF vars, LocalParts, Parts, FileInv
<1>3. Parts'
  BY <1>1, <1>2, FilesParts DEF vars, LocalParts
<1>4. /\ upstream' = upstream /\ theirs' = theirs /\ pushed' = pushed
  BY DEF BeginFetch, EndFetch, FailFetch, Expire, history
<1>5. FetchInv'
  <2>1. fetch' \in {fetch, NULL, [todo |-> Paths, synced |-> FALSE]}
    BY DEF BeginFetch, EndFetch, FailFetch, Expire
  <2>2. CASE fetch' = fetch \/ fetch' = NULL
    BY <2>2 DEF LocalParts, FetchInv
  <2>3. CASE fetch' = [todo |-> Paths, synced |-> FALSE]
    BY <2>3 DEF Fetch, FetchInv
  <2>. QED BY <2>1, <2>2, <2>3
<1>6. FoundInv' /\ MatchesInv'
  BY DEF BeginFetch, EndFetch, FailFetch, Expire, cache, LocalParts, FoundInv,
         MatchesInv
<1>. QED BY <1>3, <1>4, <1>5, <1>6 DEF LocalParts, UpstreamInv, PushedInv

\* What is taken from the cache, and what is put there, are paths.
LEMMA CacheParts ==
  ASSUME LocalParts, NEW c \in Procs, NEW glob \in Globs, Cache(c, glob),
         hashed' = hashed
  PROVE  FoundInv' /\ MatchesInv'
BY MatchesType DEF Cache, FoundInv, MatchesInv, LocalParts
LEMMA ShowStateParts ==
  ASSUME LocalParts, NEW c \in Procs, NEW glob \in Globs, ShowState(c, glob)
  PROVE  LocalParts'
<1>1. FoundInv' /\ MatchesInv'
  BY CacheParts DEF ShowState
<1>2. FileInv'
  BY DEF ShowState, vars, LocalParts, Parts, FileInv
<1>3. Parts'
  BY <1>2, FilesParts DEF ShowState, vars, LocalParts
<1>. QED BY <1>1, <1>3 DEF ShowState, LocalParts, UpstreamInv, FetchInv, PushedInv
LEMMA BeginCommandParts ==
  ASSUME LocalParts, NEW c \in Procs, NEW glob \in Globs, NEW op \in Commands,
         BeginCommand(c, op, glob)
  PROVE  LocalParts'
<1>1. FoundInv' /\ MatchesInv'
  BY CacheParts DEF BeginCommand
<1>2. Parts'
  BY StateForType, StartStagingParts, StartSyncParts DEF BeginCommand, LocalParts
<1>. QED BY <1>1, <1>2 DEF BeginCommand, LocalParts, UpstreamInv, FetchInv, PushedInv

\* What the steps of the commands do to the tokens and the directory upstream.
LEMMA LocalStays ==
  ASSUME LocalParts, Parts',
         UNCHANGED <<upstream, fetch, hashed, found>>,
         matches' \in {matches, NULL}, theirs' \subseteq theirs, PushedInv'
  PROVE  LocalParts'
BY DEF LocalParts, UpstreamInv, FetchInv, FoundInv, MatchesInv
LEMMA RunningParts ==
  ASSUME LocalParts, NEW c \in Procs, Running(c) \/ AbortSync(c)
  PROVE  LocalParts'
<1>. USE DEF cache, history, local
<1>1. CASE Stage(c)
  <2>1. Parts'
    BY <1>1, EndStagingParts DEF Stage, LocalParts
  <2>. QED BY <1>1, <2>1, LocalStays DEF Stage, NewTokens, LocalParts, PushedInv
<1>2. CASE SyncRow(c)
  <2>1. Parts'
    BY <1>2, MergePushParts, TakeHashParts DEF SyncRow, LocalParts
  <2>. QED BY <1>2, <2>1, LocalStays DEF SyncRow, LocalParts, PushedInv
<1>3. CASE FinishSync(c)
  <2>1. Parts'
    BY <1>3, EndSyncParts DEF FinishSync, LocalParts
  <2>2. PushedInv'
    BY <1>3 DEF FinishSync, LocalParts, PushedInv
  <2>. QED BY <1>3, <2>1, <2>2, LocalStays DEF FinishSync, NewTokens
<1>4. ASSUME NEW i \in ToDo(c), SyncItem(c, i)
      PROVE  LocalParts'
  <2>1. i \in run[c].todo
    BY DEF ToDo
  <2>2. Parts'
    BY <1>4, <2>1, SkipItemParts, RmItemParts, PullItemParts, PushItemParts
    DEF SyncItem, LocalParts
  <2>3. theirs' \subseteq theirs
    BY <1>4 DEF SyncItem
  <2>. QED BY <1>4, <2>2, <2>3, LocalStays DEF SyncItem, LocalParts, PushedInv
<1>5. ASSUME NEW p \in Paths, PushUpstream(c, p)
      PROVE  LocalParts'
  <2>1. Copied(file[p], upstream[p]) \in File
    BY CopiedIsFile DEF LocalParts, UpstreamInv, Parts, FileInv
  <2>2. FileInv'
    BY <1>5 DEF PushUpstream, vars, LocalParts, Parts, FileInv
  <2>3. Parts'
    BY <1>5, <2>2, FilesParts DEF PushUpstream, vars, LocalParts
  <2>4. UpstreamInv' /\ PushedInv'
    BY <1>5, <2>1 DEF PushUpstream, LocalParts, UpstreamInv, PushedInv
  <2>. QED BY <1>5, <2>3, <2>4 DEF PushUpstream, LocalParts, FetchInv,
              FoundInv, MatchesInv
<1>6. CASE AbortSync(c)
  <2>1. Syncing(c) /\ Rollback(c)
    BY <1>6 DEF AbortSync, Fail, Crash, CanDo
  <2>2. Parts'
    BY <2>1, RollbackParts DEF LocalParts
  <2>3. PushedInv'
    BY <1>6 DEF AbortSync, LocalParts, PushedInv
  <2>. QED BY <1>6, <2>2, <2>3, LocalStays DEF AbortSync
<1>. QED BY <1>1, <1>2, <1>3, <1>4, <1>5, <1>6 DEF Running

LEMMA EditParts ==
  ASSUME LocalParts, NEW p \in Paths, NEW u \in Units, NEW x \in Vals, Edit(p, u, x)
  PROVE  LocalParts'
<1>1. Parts'
  BY EditUnitParts DEF Edit, LocalParts
<1>. QED BY <1>1, LocalStays
         DEF Edit, NewTokens, cache, history, LocalParts, PushedInv

\* LocalParts holds at first,
LEMMA InitLocalParts == LocalInit => LocalParts
<1>. SUFFICES ASSUME LocalInit
              PROVE  LocalParts
  OBVIOUS
<1>1. Parts
  BY InitParts DEF LocalInit
<1>2. UpstreamInv
  BY <1>1 DEF LocalInit, Parts, FileInv, UpstreamInv, ExistingFiles
<1>. QED BY <1>1, <1>2 DEF LocalInit, LocalParts, FetchInv, PushedInv,
            FoundInv, MatchesInv

\* and every step keeps it.
LEMMA NextLocalParts == LocalParts /\ [LocalNext]_LocalVars => LocalParts'
<1>. SUFFICES ASSUME LocalParts, [LocalNext]_LocalVars
              PROVE  LocalParts'
  OBVIOUS
<1>1. CASE UNCHANGED LocalVars
  <2>1. FileInv'
    BY <1>1 DEF LocalVars, vars, LocalParts, Parts, FileInv
  <2>2. Parts'
    BY <1>1, <2>1, FilesParts DEF LocalVars, vars, LocalParts
  <2>. QED BY <1>1, <2>2, LocalStays
           DEF LocalVars, local, cache, history, LocalParts, PushedInv
<1>2. ASSUME NEW p \in Paths, NEW x \in Content,
             ChangeUpstream(p, [val |-> x, mtime |-> clock])
      PROVE  LocalParts'
  <2>1. [val |-> x, mtime |-> clock] \in File
    BY DEF File, LocalParts, Parts, FileInv
  <2>. QED BY <1>2, <2>1, ChangeUpstreamParts
<1>3. ASSUME NEW p \in Paths, ChangeUpstream(p, NoFile)
      PROVE  LocalParts'
  <2>1. NoFile \in File
    BY DEF NoFile, File
  <2>. QED BY <1>3, <2>1, ChangeUpstreamParts
<1>. QED BY <1>1, <1>2, <1>3, EditParts, FetchFileParts, FetchParts2,
            ShowStateParts, BeginCommandParts, RunningParts
         DEF LocalNext, Fetching

\* Every variable of Pootle FS with localfs has its type, whatever others do
\* upstream, and however much of a state comes from the cache.
THEOREM LocalTypes == LocalSpec => []LocalTypeOK
<1>1. LocalParts => LocalTypeOK
  BY InvIsParts DEF LocalParts, Inv, LocalTypeOK, UpstreamInv, FetchInv,
                    PushedInv, FoundInv, MatchesInv
<1>. QED BY <1>1, InitLocalParts, NextLocalParts, PTL DEF LocalSpec, LocalVars

-----------------------------------------------------------------------------
(* Keeping is what makes UpstreamKept inductive for one process that runs no   *)
(* merges, while a fetch keeps a sync out.  What others have written upstream  *)
(* and the last fetch has found is in the working copy as it is upstream, or a *)
(* sync that is about to push it was told that Pootle wins; no row says that   *)
(* it was synced; and the caches have it among the files found.                *)

\* The sync c is still to write p upstream.
ToBePushed(c, p) ==
  Syncing(c) /\ p \notin pushed[c] /\ run[c].op.update # "pootle"
\* The file p was pushed as decided, and a sync is about to write it upstream.
Ahead(p) ==
  /\ Decided(p)
  /\ file[p].mtime # NULL /\ upstream[p].mtime < file[p].mtime
  /\ \E c \in Procs : /\ ToBePushed(c, p)
                      /\ \A i \in run[c].todo : i.kind = "push"

\* What was written and noted down was before now.
Timed ==
  /\ \A p \in Paths : /\ Stamped(file[p].mtime, clock)
                      /\ Stamped(upstream[p].mtime, clock)
                      /\ p \in theirs => upstream[p].mtime # NULL
  /\ \A r \in rows : Stamped(r.last_sync_hash, clock)
  /\ \A c \in Procs : Syncing(c) =>
       \A p \in Paths : Stamped(run[c].last_sync[p].hash, clock)
\* The rows have numbers of their own, and none is staged for a merge.
Numbered(R) == /\ \A r, q \in R : r.pk = q.pk => r = q
               /\ \A r \in R : r.pk[2] \in Nat /\ ~r.staged_for_merge
RowsNumbered == Numbered(rows) /\ \A r \in rows : r.pk[2] < next_pk
\* A sync goes on in its order, pushes only when it is to, and no fetch is
\* going on.
InOrder(c) ==
  /\ fetch = NULL
  /\ pushed[c] # {} => run[c].todo = {} /\ run[c].at = NULL
  /\ run[c].at # NULL => run[c].at.step = "hash"
  /\ \A i \in run[c].todo : /\ i.kind \in {"rm", "pull", "push"}
                            /\ i.kind = "push" => run[c].op.update # "pootle"
SyncsInOrder == \A c \in Procs : IF Syncing(c) THEN InOrder(c) ELSE pushed[c] = {}
\* What others have written is there, or will be fetched or replaced.
OverTaken(p) ==
  /\ file[p].mtime # upstream[p].mtime
  /\ \/ file[p].mtime = NULL \/ file[p].mtime < upstream[p].mtime
     \/ \E c \in Procs : ToBePushed(c, p)
FilesAlike ==
  /\ \A p \in theirs \ late : file[p] = upstream[p] \/ Ahead(p)
  /\ \A p \in theirs \cap late : OverTaken(p)
\* Nothing says that it was synced.
NeverRead ==
  \A p \in theirs :
    /\ \A r \in rows : r.path = p => r.last_sync_hash # upstream[p].mtime
    /\ \A c \in Procs : Syncing(c) =>
         /\ run[c].last_sync[p].hash # upstream[p].mtime
         /\ run[c].at # NULL /\ run[c].at.pk[1] = p =>
              file[p].mtime # upstream[p].mtime
\* A push of what others have written was decided, and will not be skipped.
ItemDecided(i, r) ==
  /\ i.kind = "rm" => r.staged_for_removal
  /\ i.kind = "push" /\ r.path \in theirs \ late =>
       /\ r.resolve_conflict = "pootle"
       /\ store[r.path].max_unit_revision # r.last_sync_revision
ItemsDecided ==
  \A c \in Procs : Syncing(c) =>
    \A i \in run[c].todo, r \in rows : r.pk = i.pk => ItemDecided(i, r)
\* The caches have what others have written, unless a fetch will renew them.
CachesHave(p) == /\ found # NULL => p \in found
                 /\ matches # NULL => p \in matches.found
CachesKnow ==
  fetch = NULL \/ ~fetch.synced => \A p \in theirs \ late : CachesHave(p)

NothingLost == /\ Timed /\ RowsNumbered /\ StoresExact /\ SyncsInOrder /\ FilesAlike
         /\ NeverRead /\ ItemsDecided /\ CachesKnow
Keeping == faulty \in BOOLEAN /\ (faulty \/ NothingLost)

-----------------------------------------------------------------------------
(* What is kept by steps that leave the rest as it is                          *)

\* The types that the proofs below go by.
LEMMA LocalTyped ==
  ASSUME LocalParts
  PROVE  /\ clock \in Nat /\ revision \in Nat /\ next_pk \in Nat
         /\ theirs \subseteq Paths
         /\ \A p \in Paths : /\ file[p] \in File /\ upstream[p] \in File
                             /\ file[p].mtime \in Nat \cup {NULL}
                             /\ upstream[p].mtime \in Nat \cup {NULL}
                             /\ store[p] \in Store /\ StoreBelow(store[p], revision)
                             /\ store[p].max_unit_revision \in Nat
         /\ \A r \in rows : /\ r \in Row /\ r.path \in Paths /\ r.path = r.pk[1]
                            /\ r.last_sync_hash \in Nat \cup {NULL}
                            /\ r.last_sync_revision \in Nat \cup {NULL}
                            /\ RevBelow(r.last_sync_revision, revision)
         /\ \A c \in Procs : Syncing(c) =>
              /\ run[c] \in SyncRun
              /\ \A p \in Paths : run[c].last_sync[p].hash \in Nat \cup {NULL}
<1>1. /\ clock \in Nat /\ revision \in Nat /\ next_pk \in Nat
      /\ theirs \subseteq Paths
  BY DEF LocalParts, Parts, FileInv, NumbersInv, UpstreamInv
<1>2. ASSUME NEW p \in Paths
      PROVE  /\ file[p] \in File /\ upstream[p] \in File
             /\ file[p].mtime \in Nat \cup {NULL}
             /\ upstream[p].mtime \in Nat \cup {NULL}
  BY DEF LocalParts, Parts, FileInv, UpstreamInv, File
<1>3. ASSUME NEW p \in Paths
      PROVE  /\ store[p] \in Store /\ StoreBelow(store[p], revision)
             /\ store[p].max_unit_revision \in Nat
  BY DEF LocalParts, Parts, StoreInv, GoodStore, Store
<1>4. ASSUME NEW r \in rows
      PROVE  /\ r \in Row /\ r.path \in Paths /\ r.path = r.pk[1]
             /\ r.last_sync_hash \in Nat \cup {NULL}
             /\ r.last_sync_revision \in Nat \cup {NULL}
             /\ RevBelow(r.last_sync_revision, revision)
  BY DEF LocalParts, Parts, RowsInv, GoodRow, RowKeeps, Row
<1>5. ASSUME NEW c \in Procs, Syncing(c)
      PROVE  /\ run[c] \in SyncRun
             /\ \A p \in Paths : run[c].last_sync[p].hash \in Nat \cup {NULL}
  <2>1. run[c] \in SyncRun
    BY <1>5, SyncingRun DEF LocalParts
  <2>2. \A p \in Paths : run[c].last_sync[p] \in LastSync
    BY <2>1 DEF SyncRun
  <2>. QED BY <2>1, <2>2 DEF LastSync
<1>. QED BY <1>1, <1>2, <1>3, <1>4, <1>5

\* Rows, runs and files stay, here and upstream.
LEMMA AllElseStays ==
  ASSUME NothingLost,
         UNCHANGED <<rows, run, file, clock, next_pk, upstream, pushed, theirs,
                     late>>
  PROVE  /\ Timed' /\ RowsNumbered' /\ FilesAlike' /\ NeverRead'
         /\ fetch' = fetch \/ fetch' = NULL => SyncsInOrder'
<1>1. Timed' /\ RowsNumbered'
  BY DEF NothingLost, Timed, RowsNumbered, Syncing, Idle
<1>2. NeverRead'
  BY DEF NothingLost, NeverRead, Syncing, Idle
<1>3. fetch' = fetch \/ fetch' = NULL => SyncsInOrder'
  BY DEF NothingLost, SyncsInOrder, InOrder, Syncing, Idle
<1>4. \A c \in Procs, p \in Paths : ToBePushed(c, p)' <=> ToBePushed(c, p)
  BY DEF ToBePushed, Syncing, Idle
<1>5. FilesAlike'
  BY DEF NothingLost, FilesAlike, OverTaken, Ahead, Decided, ToBePushed, Syncing,
         Idle
<1>. QED BY <1>1, <1>2, <1>5, <1>3

\* t is the row r, whose Store may be another.
SameDecision(t, r) ==
  /\ t.pk = r.pk /\ t.path = r.path /\ t.resolve_conflict = r.resolve_conflict
  /\ t.last_sync_revision = r.last_sync_revision
  /\ t.last_sync_hash = r.last_sync_hash
  /\ t.staged_for_removal = r.staged_for_removal
  /\ t.staged_for_merge = r.staged_for_merge
RowsDecided == \A t \in rows' : \E r \in rows : SameDecision(t, r)
\* The StoreData of a Store says what it said, or a revision drawn just now.
StoresMove == \A p \in Paths :
  \/ store'[p].max_unit_revision = store[p].max_unit_revision
  \/ store'[p].max_unit_revision \in Nat /\ store'[p].max_unit_revision > revision
NoNewItems == \A c \in Procs : Syncing(c)' =>
                Syncing(c) /\ run'[c].todo \subseteq run[c].todo
FewerItems == /\ NoNewItems /\ RowsDecided /\ StoresMove
              /\ theirs' \ late' \subseteq theirs \ late

LEMMA ItemsStay ==
  ASSUME LocalParts, NothingLost, FewerItems
  PROVE  ItemsDecided'
<1>. SUFFICES ASSUME NEW c \in Procs, Syncing(c)', NEW i \in run'[c].todo,
                     NEW t \in rows', t.pk = i.pk
              PROVE  ItemDecided(i, t)'
  BY DEF ItemsDecided
<1>1. PICK r \in rows : SameDecision(t, r)
  BY DEF FewerItems, RowsDecided
<1>2. r.pk = i.pk /\ Syncing(c) /\ i \in run[c].todo
  BY <1>1 DEF SameDecision, FewerItems, NoNewItems
<1>3. ItemDecided(i, r)
  BY <1>2 DEF NothingLost, ItemsDecided
<1>4. r.path \in Paths /\ revision \in Nat
      /\ r.last_sync_revision \in Nat \cup {NULL}
      /\ RevBelow(r.last_sync_revision, revision)
      /\ store[r.path].max_unit_revision \in Nat
  BY LocalTyped
<1>. PICK n, m, k : n = store[r.path].max_unit_revision
                    /\ m = store'[r.path].max_unit_revision
                    /\ k = r.last_sync_revision
  OBVIOUS
<1>5. m = n \/ (m \in Nat /\ m > revision)
  BY <1>4 DEF FewerItems, StoresMove
<1>6. n # k => m # k
  <2>1. k \in Nat \cup {NULL} /\ RevBelow(k, revision) /\ revision \in Nat
    BY <1>4
  <2>. QED BY ONLY <2>1, <1>5, NullAssumption DEF RevBelow
<1>7. /\ t.path = r.path /\ t.resolve_conflict = r.resolve_conflict
      /\ t.last_sync_revision = k
      /\ t.staged_for_removal = r.staged_for_removal
  BY <1>1 DEF SameDecision
<1>8. t.path \in theirs' \ late' => r.path \in theirs \ late
  BY <1>7 DEF FewerItems
<1>. QED BY <1>3, <1>6, <1>7, <1>8 DEF ItemDecided

\* What does not touch rows, runs and Stores adds nothing to decide.
LEMMA ItemsAsBefore ==
  ASSUME UNCHANGED <<rows, run, store>>, theirs' \ late' \subseteq theirs \ late
  PROVE  FewerItems
BY DEF FewerItems, NoNewItems, RowsDecided, StoresMove, SameDecision, Syncing, Idle

-----------------------------------------------------------------------------
(* Translators, and whoever else works upstream                                *)

Alone == OneProcess /\ NoMerges /\ "fetch_in_sync" \notin Hazards

\* An edit changes a Store, whose StoreData says the revision just drawn.
LEMMA EditLosesNothing ==
  ASSUME LocalParts, LocalParts', NothingLost,
         NEW p \in Paths, NEW u \in Units, NEW x \in Vals, Edit(p, u, x)
  PROVE  NothingLost'
<1>. DEFINE e == [store[p] EXCEPT !.val[u] = x, !.rev[u] = revision + 1]
<1>1. /\ EditUnit(p, u, x) /\ Parts /\ revision \in Nat
      /\ UNCHANGED <<rows, run, file, clock, next_pk, upstream, pushed, fetch,
                     theirs, late, found>>
      /\ matches' = NULL
  BY LocalTyped DEF Edit, EditUnit, NewTokens, history, LocalParts
<1>2. /\ store' = [store EXCEPT ![p] = UpdateData(e)]
      /\ store[p].val # NULL /\ store[p].st = "live"
  BY <1>1 DEF EditUnit
<1>3. e \in Store
  <2>1. store[p] \in Store /\ store[p].val \in Content
        /\ store[p].rev \in [Units -> Nat]
    BY <1>2, LocalTyped DEF Store
  <2>. PICK val, stamps : /\ val = [store[p].val EXCEPT ![u] = x]
                          /\ stamps = [store[p].rev EXCEPT ![u] = revision + 1]
    OBVIOUS
  <2>2. val \in Content /\ stamps \in [Units -> Nat]
    BY <1>1, <2>1 DEF Content
  <2>3. val # NULL /\ stamps # NULL
    BY <2>2, NullAssumption
  <2>4. e = [store[p] EXCEPT !.val = val, !.rev = stamps]
    BY <2>1 DEF Store
  <2>. QED BY <1>2, <2>1, <2>2, <2>3, <2>4 DEF Store
<1>4. store \in [Paths -> Store]
  BY <1>1 DEF Parts, StoreInv
<1>. HIDE DEF e
<1>5. Exact(store'[p]) /\ \A q \in Paths \ {p} : store'[q] = store[q]
  BY <1>2, <1>3, <1>4, UpdatedExact
<1>6. StoresExact'
  BY <1>5 DEF NothingLost, StoresExact
<1>7. store'[p].max_unit_revision = revision + 1
  BY <1>1, <1>5, EditedStore DEF Exact
<1>8. StoresMove
  BY <1>1, <1>5, <1>7 DEF StoresMove
<1>9. ItemsDecided'
  <2>1. FewerItems
    BY <1>1, <1>8
    DEF FewerItems, NoNewItems, RowsDecided, SameDecision, Syncing, Idle
  <2>. QED BY <2>1, ItemsStay
<1>10. CachesKnow'
  BY <1>1 DEF NothingLost, CachesKnow, CachesHave
<1>. QED BY <1>1, <1>6, <1>9, <1>10, AllElseStays DEF NothingLost

\* What is written upstream now is later than all there is, and has still to be
\* fetched.
LEMMA ChangeUpstreamLosesNothing ==
  ASSUME LocalParts, NothingLost, NEW p \in Paths, NEW f \in File,
         ChangeUpstream(p, f), f = NoFile \/ f.mtime = clock
  PROVE  NothingLost'
<1>1. /\ UNCHANGED <<rows, store, file, run, next_pk, fetch, pushed, found,
                     matches>>
      /\ upstream' = [upstream EXCEPT ![p] = f]
      /\ late' = late \cup {p} /\ clock' = clock + 1
      /\ theirs' = IF f = NoFile THEN theirs \ {p} ELSE theirs \cup {p}
  BY DEF ChangeUpstream, cache
<1>2. /\ upstream'[p] = f /\ \A q \in Paths \ {p} : upstream'[q] = upstream[q]
      /\ clock \in Nat /\ clock # NULL /\ NoFile.mtime = NULL
  BY <1>1, LocalTyped, NullAssumption
  DEF LocalParts, UpstreamInv, NoFile
<1>3. p \in theirs' => upstream'[p].mtime = clock
  BY <1>1, <1>2
<1>4. /\ theirs' \ late' \subseteq theirs \ late /\ p \notin theirs' \ late'
      /\ \A q \in Paths \ {p} : /\ q \in theirs' <=> q \in theirs
                                /\ q \in late' <=> q \in late
      /\ theirs \subseteq Paths /\ theirs' \subseteq Paths
  BY <1>1, LocalTyped
<1>5. Timed'
  <2>1. \A t \in Nat \cup {NULL} : Stamped(t, clock) => Stamped(t, clock')
    BY <1>1, <1>2 DEF Stamped
  <2>2. Stamped(upstream'[p].mtime, clock')
    BY <1>1, <1>2 DEF Stamped
  <2>3. \A q \in Paths : /\ Stamped(file'[q].mtime, clock')
                         /\ Stamped(upstream'[q].mtime, clock')
                         /\ q \in theirs' => upstream'[q].mtime # NULL
    BY <1>1, <1>2, <1>3, <1>4, <2>1, <2>2, LocalTyped DEF NothingLost, Timed
  <2>4. \A r \in rows' : Stamped(r.last_sync_hash, clock')
    BY <1>1, <2>1, LocalTyped DEF NothingLost, Timed
  <2>5. \A c \in Procs : Syncing(c)' =>
          \A q \in Paths : Stamped(run'[c].last_sync[q].hash, clock')
    BY <1>1, <2>1, LocalTyped DEF NothingLost, Timed, Syncing, Idle
  <2>. QED BY <2>3, <2>4, <2>5 DEF Timed
<1>6. RowsNumbered' /\ StoresExact' /\ SyncsInOrder'
  BY <1>1 DEF NothingLost, RowsNumbered, StoresExact, SyncsInOrder, InOrder,
              Syncing, Idle
<1>7. FilesAlike'
  <2>1. \A c \in Procs, q \in Paths : ToBePushed(c, q)' <=> ToBePushed(c, q)
    BY <1>1 DEF ToBePushed, Syncing, Idle
  <2>2. ASSUME NEW q \in theirs' \ late'
        PROVE  file'[q] = upstream'[q] \/ Ahead(q)'
    <3>1. q \in theirs \ late /\ q # p /\ q \in Paths
      BY <1>4
    <3>2. file[q] = upstream[q] \/ Ahead(q)
      BY <3>1 DEF NothingLost, FilesAlike
    <3>3. Ahead(q) => Ahead(q)'
      BY <1>1, <1>2, <2>1, <3>1 DEF Ahead, Decided
    <3>. QED BY <1>1, <1>2, <3>1, <3>2, <3>3
  <2>3. ASSUME NEW q \in theirs' \cap late'
        PROVE  OverTaken(q)'
    <3>1. CASE q = p
      <4>1. Stamped(file[p].mtime, clock) /\ file[p].mtime \in Nat \cup {NULL}
        BY LocalTyped DEF NothingLost, Timed
      <4>. QED BY <1>1, <1>2, <1>3, <2>3, <3>1, <4>1 DEF OverTaken, Stamped
    <3>2. CASE q # p
      <4>1. q \in theirs \cap late /\ q \in Paths
        BY <1>4, <2>3, <3>2
      <4>2. OverTaken(q)
        BY <4>1 DEF NothingLost, FilesAlike
      <4>. QED BY <1>1, <1>2, <2>1, <3>2, <4>1, <4>2 DEF OverTaken
    <3>. QED BY <3>1, <3>2
  <2>. QED BY <2>2, <2>3 DEF FilesAlike
<1>8. NeverRead'
  <2>. SUFFICES ASSUME NEW q \in theirs'
                PROVE  /\ \A r \in rows : r.path = q =>
                                            r.last_sync_hash # upstream'[q].mtime
                       /\ \A c \in Procs : Syncing(c) =>
                            /\ run[c].last_sync[q].hash # upstream'[q].mtime
                            /\ run[c].at # NULL /\ run[c].at.pk[1] = q =>
                                 file[q].mtime # upstream'[q].mtime
    BY <1>1 DEF NeverRead, Syncing, Idle
  <2>1. CASE q = p
    <3>1. \A t \in Nat \cup {NULL} : Stamped(t, clock) => t # upstream'[q].mtime
      BY <1>2, <1>3, <2>1 DEF Stamped
    <3>2. Stamped(file[p].mtime, clock) /\ file[p].mtime \in Nat \cup {NULL}
      BY LocalTyped DEF NothingLost, Timed
    <3>3. \A r \in rows : /\ Stamped(r.last_sync_hash, clock)
                          /\ r.last_sync_hash \in Nat \cup {NULL}
      BY LocalTyped DEF NothingLost, Timed
    <3>4. \A c \in Procs : Syncing(c) =>
            /\ Stamped(run[c].last_sync[p].hash, clock)
            /\ run[c].last_sync[p].hash \in Nat \cup {NULL}
      BY LocalTyped DEF NothingLost, Timed
    <3>. QED BY <2>1, <3>1, <3>2, <3>3, <3>4
  <2>2. CASE q # p
    BY <1>2, <1>4, <2>2 DEF NothingLost, NeverRead
  <2>. QED BY <2>1, <2>2
<1>9. ItemsDecided'
  BY <1>1, <1>4, ItemsAsBefore, ItemsStay
<1>10. CachesKnow'
  BY <1>1, <1>4 DEF NothingLost, CachesKnow, CachesHave
<1>. QED BY <1>5, <1>6, <1>7, <1>8, <1>9, <1>10 DEF NothingLost

-----------------------------------------------------------------------------
(* Fetches, and what is cached                                                 *)

\* While a fetch is going on nothing is synced, so the files that it leaves
\* alone are alike.
LEMMA FetchFileLosesNothing ==
  ASSUME LocalParts, NothingLost, NEW p \in Paths, FetchFile(p)
  PROVE  NothingLost'
<1>. DEFINE f2 == Copied(upstream[p], file[p])
<1>1. /\ UNCHANGED <<rows, store, run, next_pk, clock, upstream, pushed, found,
                     matches, theirs>>
      /\ fetch # NULL /\ late' = late \ {p}
      /\ file' = [file EXCEPT ![p] = f2]
      /\ fetch' = [todo |-> fetch.todo \ {p},
                   synced |-> fetch.synced \/ file' # file]
  BY DEF FetchFile, cache
<1>2. /\ file \in [Paths -> File] /\ f2 \in {upstream[p], file[p]}
      /\ file'[p] = f2 /\ \A q \in Paths \ {p} : file'[q] = file[q]
  BY <1>1, LocalTyped DEF LocalParts, Parts, FileInv, Copied
<1>3. \A c \in Procs : ~Syncing(c) /\ ~Syncing(c)' /\ pushed'[c] = {}
  BY <1>1 DEF NothingLost, SyncsInOrder, InOrder, Syncing, Idle
<1>4. \A q \in theirs \ late : file[q] = upstream[q]
  BY <1>3 DEF NothingLost, FilesAlike, Ahead, ToBePushed
<1>5. \A q \in theirs \cap late : OverTaken(q)
  BY DEF NothingLost, FilesAlike
<1>6. \A q \in theirs \cap late :
         /\ file[q].mtime # upstream[q].mtime
         /\ file[q].mtime = NULL \/ file[q].mtime < upstream[q].mtime
  BY <1>3, <1>5 DEF OverTaken, ToBePushed
<1>7. p \in theirs => f2 = upstream[p]
  BY <1>2, <1>4, <1>6 DEF Copied
<1>8. p \in theirs \cap late => f2 # file[p]
  BY <1>6, <1>7
<1>9. Timed'
  <2>1. \A q \in Paths : /\ Stamped(file'[q].mtime, clock)
                         /\ Stamped(upstream[q].mtime, clock)
                         /\ q \in theirs => upstream[q].mtime # NULL
    BY <1>2 DEF NothingLost, Timed
  <2>. QED BY <1>1, <1>3, <2>1 DEF NothingLost, Timed
<1>10. RowsNumbered' /\ StoresExact'
  BY <1>1 DEF NothingLost, RowsNumbered, StoresExact
<1>11. SyncsInOrder' /\ ItemsDecided'
  BY <1>3 DEF SyncsInOrder, ItemsDecided
<1>12. NeverRead'
  BY <1>1, <1>3 DEF NothingLost, NeverRead
<1>13. FilesAlike'
  <2>1. theirs \subseteq Paths
    BY LocalTyped
  <2>2. ASSUME NEW q \in theirs' \ late'
        PROVE  file'[q] = upstream'[q]
    <3>1. CASE q = p
      BY <1>1, <1>2, <1>7, <2>2, <3>1
    <3>2. CASE q # p
      BY <1>1, <1>2, <1>4, <2>1, <2>2, <3>2
    <3>. QED BY <3>1, <3>2
  <2>3. ASSUME NEW q \in theirs' \cap late'
        PROVE  OverTaken(q)'
    <3>1. q \in theirs \cap late /\ q # p /\ q \in Paths
      BY <1>1, <2>1, <2>3
    <3>2. file'[q] = file[q] /\ upstream'[q] = upstream[q]
      BY <1>1, <1>2, <3>1
    <3>. QED BY <1>6, <3>1, <3>2 DEF OverTaken
  <2>. QED BY <2>2, <2>3 DEF FilesAlike
<1>14. CachesKnow'
  <2>1. fetch'.synced <=> fetch.synced \/ file' # file
    BY <1>1
  <2>2. ASSUME ~fetch'.synced
        PROVE  \A q \in theirs' \ late' : CachesHave(q)'
    <3>1. file' = file /\ ~fetch.synced
      BY <2>1, <2>2
    <3>2. p \notin theirs \cap late
      BY <1>2, <1>8, <3>1
    <3>3. theirs' \ late' \subseteq theirs \ late
      BY <1>1, <3>2
    <3>. QED BY <1>1, <3>1, <3>3 DEF NothingLost, CachesKnow, CachesHave
  <2>3. fetch' # NULL
    <3>1. fetch \in Fetch
      BY <1>1 DEF LocalParts, FetchInv
    <3>. PICK b \in BOOLEAN : b = (fetch.synced \/ file' # file)
      OBVIOUS
    <3>2. fetch' = [todo |-> fetch.todo \ {p}, synced |-> b]
      BY <1>1
    <3>3. fetch' \in Fetch
      BY <3>1, <3>2 DEF Fetch
    <3>. QED BY <3>3, NoNullAssumption
  <2>. QED BY <2>2, <2>3 DEF CachesKnow
<1>. QED BY <1>9, <1>10, <1>11, <1>12, <1>13, <1>14 DEF NothingLost

\* A fetch that begins keeps a sync out; one that ends renews the caches if it
\* has changed a file.
LEMMA FetchLosesNothing ==
  ASSUME Alone, LocalParts, NothingLost, BeginFetch \/ EndFetch \/ Expire
  PROVE  NothingLost'
<1>1. /\ UNCHANGED <<vars, upstream, pushed, history>>
      /\ UNCHANGED <<rows, store, run, file, clock, next_pk, theirs, late>>
  BY DEF BeginFetch, EndFetch, Expire, vars, history
<1>2. StoresExact' /\ ItemsDecided'
  BY <1>1, ItemsAsBefore, ItemsStay DEF NothingLost, StoresExact
<1>3. CASE BeginFetch
  <2>1. \A c \in Procs : ~Syncing(c)
    BY <1>3 DEF BeginFetch, CanFetch, AnySync, Alone
  <2>2. SyncsInOrder'
    BY <1>1, <2>1 DEF NothingLost, SyncsInOrder, Syncing, Idle
  <2>3. CachesKnow'
    BY <1>1, <1>3 DEF BeginFetch, cache, NothingLost, CachesKnow, CachesHave
  <2>. QED BY <1>1, <1>2, <2>2, <2>3, AllElseStays DEF NothingLost
<1>4. CASE EndFetch
  <2>1. fetch' = NULL
    BY <1>4 DEF EndFetch
  <2>2. CachesKnow'
    <3>1. CASE fetch.synced
      BY <1>1, <1>4, <3>1 DEF EndFetch, CachesKnow, CachesHave
    <3>2. CASE ~fetch.synced
      BY <1>1, <1>4, <3>2 DEF EndFetch, cache, NothingLost, CachesKnow, CachesHave
    <3>. QED BY <3>1, <3>2
  <2>. QED BY <1>1, <1>2, <2>1, <2>2, AllElseStays DEF NothingLost
<1>5. CASE Expire
  <2>1. fetch' = fetch
    BY <1>5 DEF Expire
  <2>2. CachesKnow'
    BY <1>1, <1>5, <2>1 DEF Expire, NothingLost, CachesKnow, CachesHave
  <2>. QED BY <1>1, <1>2, <2>1, <2>2, AllElseStays DEF NothingLost
<1>. QED BY <1>3, <1>4, <1>5

\* A command finds what others have written, in the caches or in the working
\* copy.
LEMMA FoundThere ==
  ASSUME LocalParts, NothingLost, fetch = NULL \/ ~fetch.synced, NEW c,
         NEW p \in theirs \ late
  PROVE  p \in Matches(c, Paths).found /\ p \in FilesFound
<1>1. p \in Paths /\ upstream[p].mtime # NULL
  BY LocalTyped DEF NothingLost, Timed
<1>2. file[p].mtime # NULL
  <2>1. file[p] = upstream[p] \/ Ahead(p)
    BY DEF NothingLost, FilesAlike
  <2>. QED BY <1>1, <2>1 DEF Ahead
<1>3. CachesHave(p)
  BY DEF NothingLost, CachesKnow
<1>4. p \in FilesFound
  BY <1>1, <1>2, <1>3 DEF FilesFound, ExistingFiles, CachesHave
<1>5. p \in Matches(c, Paths).found
  BY <1>1, <1>3, <1>4 DEF Matches, CachesHave
<1>. QED BY <1>4, <1>5
LEMMA CacheKnows ==
  ASSUME LocalParts, NothingLost, NEW c, Cache(c, Paths),
         UNCHANGED <<fetch, theirs, late>>
  PROVE  CachesKnow'
<1>. SUFFICES ASSUME fetch = NULL \/ ~fetch.synced, NEW p \in theirs \ late
              PROVE  CachesHave(p)'
  BY DEF CachesKnow
<1>1. p \in Matches(c, Paths).found /\ p \in FilesFound /\ CachesHave(p)
  BY FoundThere DEF NothingLost, CachesKnow
<1>. QED BY <1>1 DEF Cache, CachesHave

LEMMA ShowStateLosesNothing ==
  ASSUME LocalParts, NothingLost, NEW c \in Procs, ShowState(c, Paths)
  PROVE  NothingLost'
<1>1. /\ UNCHANGED <<rows, store, run, file, clock, next_pk, upstream, pushed,
                     theirs, late, fetch>>
      /\ Cache(c, Paths)
  BY DEF ShowState, vars
<1>2. StoresExact' /\ ItemsDecided' /\ CachesKnow'
  BY <1>1, ItemsAsBefore, ItemsStay, CacheKnows DEF NothingLost, StoresExact
<1>. QED BY <1>1, <1>2, AllElseStays DEF NothingLost

-----------------------------------------------------------------------------
(* The commands that begin                                                     *)

\* While nothing is synced, what was fetched is as it is upstream, and what was
\* not is older.
LEMMA WithoutSync ==
  ASSUME NothingLost, \A c \in Procs : ~Syncing(c)
  PROVE  /\ \A p \in theirs \ late : file[p] = upstream[p]
         /\ \A p \in theirs \cap late :
              /\ file[p].mtime # upstream[p].mtime
              /\ file[p].mtime = NULL \/ file[p].mtime < upstream[p].mtime
         /\ \A c \in Procs : pushed[c] = {}
<1>1. \A c \in Procs : \A p : ~ToBePushed(c, p)
  BY DEF ToBePushed
<1>2. \A p \in theirs \cap late : OverTaken(p)
  BY DEF NothingLost, FilesAlike
<1>. QED BY <1>1, <1>2 DEF NothingLost, FilesAlike, Ahead, OverTaken, SyncsInOrder

\* What a command sees: what is there, with the files found and the paths
\* tracked from the caches.
Seen(c, glob) == [View(c) EXCEPT !.found = Matches(c, glob).found,
                                 !.tracked = Matches(c, glob).tracked]
LEMMA SeenIs ==
  ASSUME LocalParts, OneProcess, NEW c \in Procs, NEW glob
  PROVE  /\ Seen(c, glob).rows = rows /\ Seen(c, glob).store = store
         /\ Seen(c, glob).file = file
         /\ Seen(c, glob).found = Matches(c, glob).found
<1>. PICK m : m = Matches(c, glob)
  OBVIOUS
<1>1. /\ Seen(c, glob).rows = View(c).rows /\ Seen(c, glob).file = file
      /\ Seen(c, glob).store = View(c).store /\ Seen(c, glob).found = m.found
  BY DEF Seen, View
<1>. QED BY <1>1, OneView DEF LocalParts
LEMMA StateForFields ==
  ASSUME NEW c, NEW glob
  PROVE  LET sf == StateFor(c, glob)
             st == State(Seen(c, glob))
         IN /\ sf.remove \subseteq st.remove
            /\ sf.merge_pootle_wins \subseteq st.merge_pootle_wins
            /\ sf.merge_fs_wins \subseteq st.merge_fs_wins
            /\ sf.fs_staged \subseteq st.fs_staged
            /\ sf.fs_ahead \subseteq st.fs_ahead
            /\ sf.pootle_staged \subseteq st.pootle_staged
            /\ sf.pootle_ahead \subseteq st.pootle_ahead
<1>. PICK v : v = Seen(c, glob)
  OBVIOUS
<1>. PICK st : st = State(v)
  OBVIOUS
<1>. PICK sf : sf = StateFor(c, glob)
  OBVIOUS
<1>1. sf = [k \in DOMAIN st |->
              CASE k = "fs_untracked" ->
                     v.found \ (v.tracked \cup (Trackable(v) \cap glob))
                [] k \in {"pootle_untracked", "conflict_untracked"} ->
                     st[k] \cap glob
                [] OTHER -> {pk \in st[k] : pk[1] \in glob}]
  BY DEF StateFor, Seen
<1>2. {"remove", "merge_pootle_wins", "merge_fs_wins", "fs_staged", "fs_ahead",
       "pootle_staged", "pootle_ahead"} \subseteq DOMAIN st
  BY DEF State
<1>3. \A k \in DOMAIN st \ {"fs_untracked", "pootle_untracked",
                            "conflict_untracked"} : sf[k] \subseteq st[k]
  BY <1>1
<1>. QED BY <1>2, <1>3

\* What a sync is to push is decided: what others have written differs from
\* what was synced last, and is found.
LEMMA TodoDecided ==
  ASSUME Alone, LocalParts, NothingLost, NEW c \in Procs, fetch = NULL,
         \A d \in Procs : ~Syncing(d),
         NEW update, NEW i \in Todo(StateFor(c, Paths), update)
  PROVE  /\ \A r \in rows : r.pk = i.pk => ItemDecided(i, r)
         /\ i.kind \in {"rm", "pull", "push"}
         /\ i.kind = "push" => update # "pootle"
<1>. PICK v : v = Seen(c, Paths)
  OBVIOUS
<1>. PICK st, sf : st = State(v) /\ sf = StateFor(c, Paths)
  OBVIOUS
<1>1. i \in Todo(sf, update)
  OBVIOUS
<1>2. /\ sf.remove \subseteq st.remove
      /\ sf.merge_pootle_wins \subseteq st.merge_pootle_wins
      /\ sf.merge_fs_wins \subseteq st.merge_fs_wins
      /\ sf.fs_staged \subseteq st.fs_staged
      /\ sf.fs_ahead \subseteq st.fs_ahead
      /\ sf.pootle_staged \subseteq st.pootle_staged
      /\ sf.pootle_ahead \subseteq st.pootle_ahead
  BY StateForFields
<1>3. i \in Todo(State(v), update)
  BY <1>1, <1>2 DEF Todo
<1>4. PICK q \in v.rows : ItemFor(i, q, v) /\ q.pk = i.pk
  BY <1>3, TodoFor
<1>5. v.rows = rows /\ v.store = store /\ v.file = file
      /\ v.found = Matches(c, Paths).found
  BY SeenIs DEF Alone
<1>6. ~q.staged_for_merge
  BY <1>4, <1>5 DEF NothingLost, RowsNumbered, Numbered
<1>7. i.kind \in {"rm", "pull", "push"}
  BY <1>4, <1>6 DEF ItemFor, MergePootleWins, MergeFsWins
<1>8. i.kind = "push" => update # "pootle"
  BY <1>3 DEF Todo
<1>9. i.kind = "rm" => i.pk \in Pks(Remove(v))
  BY <1>3 DEF Todo, State
<1>10. ASSUME NEW r \in rows, r.pk = i.pk
       PROVE  ItemDecided(i, r)
  <2>1. r = q /\ r.path \in Paths
    BY <1>4, <1>5, <1>10, LocalTyped DEF NothingLost, RowsNumbered, Numbered
  <2>2. i.kind = "rm" => r.staged_for_removal
    <3>1. SUFFICES ASSUME i.kind = "rm"
                   PROVE  r.staged_for_removal
      OBVIOUS
    <3>2. PICK w \in rows : w.staged_for_removal /\ w.pk = i.pk
      BY <1>5, <1>9, <3>1 DEF Pks, Remove
    <3>3. w = r
      BY <1>10, <3>2 DEF NothingLost, RowsNumbered, Numbered
    <3>. QED BY <3>2, <3>3
  <2>3. ASSUME i.kind = "push", r.path \in theirs \ late
        PROVE  /\ r.resolve_conflict = "pootle"
               /\ store[r.path].max_unit_revision # r.last_sync_revision
    <3>. PICK p : p = r.path
      OBVIOUS
    <3>1. file[p] = upstream[p] /\ upstream[p].mtime # NULL
          /\ r.last_sync_hash # upstream[p].mtime
      BY <2>1, <2>3, WithoutSync DEF NothingLost, Timed, NeverRead
    <3>2. p \in v.found
      BY <1>5, <2>3, FoundThere
    <3>3. FSChanged(v, r) /\ ~Missing(v, p)
      BY <1>5, <3>1, <3>2 DEF FSChanged, Missing
    <3>4. p \in ExistingFiles(v.file)
      BY <1>5, <2>1, <3>1 DEF ExistingFiles
    <3>5. r \in PootleStaged(v) \cup PootleAhead(v)
      BY <1>4, <2>1, <2>3 DEF ItemFor
    <3>6. /\ store[p].max_unit_revision = MaxUnitRevision(store[p])
          /\ store[p].max_unit_revision \in Nat
      BY <2>1, LocalTyped DEF NothingLost, StoresExact, Exact
    <3>7. CASE r \in PootleAhead(v)
      BY <1>5, <3>3, <3>6, <3>7 DEF PootleAhead, PootleChanged
    <3>8. CASE r \in PootleStaged(v)
      BY <1>5, <3>3, <3>4, <3>6, <3>8, NullAssumption
      DEF PootleStaged, Unsynced
    <3>. QED BY <3>5, <3>7, <3>8
  <2>. QED BY <2>2, <2>3 DEF ItemDecided
<1>. QED BY <1>7, <1>8, <1>10

\* A command that begins holds nothing yet.
LEMMA StartStagingLosesNothing ==
  ASSUME Alone, LocalParts, NothingLost, NEW c \in Procs, NEW op \in Commands,
         NEW s, StartStaging(c, op, s), Cache(c, Paths),
         UNCHANGED <<upstream, fetch, pushed, hashed, theirs, late>>
  PROVE  NothingLost'
<1>1. /\ UNCHANGED <<rows, store, file, clock, next_pk, upstream, pushed,
                     theirs, late, fetch>>
      /\ run'[c].op = op /\ op.cmd # "sync" /\ Idle(c)
  BY DEF StartStaging, db, LocalParts, Parts, RunInv
<1>2. \A d \in Procs : ~Syncing(d) /\ ~Syncing(d)'
  BY <1>1 DEF Alone, OneProcess, Syncing, Idle
<1>3. Timed' /\ RowsNumbered' /\ StoresExact' /\ NeverRead'
  BY <1>1, <1>2 DEF NothingLost, Timed, RowsNumbered, StoresExact, NeverRead
<1>4. SyncsInOrder' /\ ItemsDecided'
  BY <1>1, <1>2, WithoutSync DEF SyncsInOrder, ItemsDecided
<1>5. FilesAlike'
  BY <1>1, <1>2, WithoutSync DEF FilesAlike, OverTaken
<1>6. CachesKnow'
  BY <1>1, CacheKnows
<1>. QED BY <1>3, <1>4, <1>5, <1>6 DEF NothingLost
LEMMA StartSyncLosesNothing ==
  ASSUME Alone, LocalParts, NothingLost, NEW c \in Procs, NEW op \in Commands,
         StartSync(c, op, StateFor(c, Paths)), Cache(c, Paths), fetch = NULL,
         UNCHANGED <<upstream, fetch, pushed, hashed, theirs, late>>
  PROVE  NothingLost'
<1>. PICK todo : todo = Todo(StateFor(c, Paths), op.update)
  OBVIOUS
<1>1. /\ UNCHANGED <<rows, store, file, clock, next_pk, upstream, pushed,
                     theirs, late, fetch>>
      /\ run'[c].op = op /\ run'[c].todo = todo
      /\ run'[c].at = NULL /\ op.cmd = "sync" /\ Idle(c)
      /\ \A p \in Paths : run'[c].last_sync[p].hash = NULL
  BY DEF StartSync, db, LocalParts, Parts, RunInv, NotSynced
<1>2. \A d \in Procs : d = c /\ ~Syncing(d)
  BY <1>1 DEF Alone, OneProcess, Syncing, Idle
<1>3. Timed' /\ RowsNumbered' /\ StoresExact'
  BY <1>1, <1>2 DEF NothingLost, Timed, RowsNumbered, StoresExact, Stamped
<1>4. NeverRead'
  BY <1>1, <1>2, LocalTyped DEF NothingLost, NeverRead, Timed
<1>5. /\ \A i \in todo, r \in rows : r.pk = i.pk => ItemDecided(i, r)
      /\ \A i \in todo : /\ i.kind \in {"rm", "pull", "push"}
                         /\ i.kind = "push" => op.update # "pootle"
  BY <1>2, TodoDecided
<1>6. ItemsDecided'
  BY <1>1, <1>2, <1>5 DEF ItemsDecided, ItemDecided
<1>7. SyncsInOrder'
  BY <1>1, <1>2, <1>5, WithoutSync DEF SyncsInOrder, InOrder
<1>8. FilesAlike'
  BY <1>1, <1>2, WithoutSync DEF FilesAlike, OverTaken
<1>9. CachesKnow'
  BY <1>1, CacheKnows
<1>. QED BY <1>3, <1>4, <1>6, <1>7, <1>8, <1>9 DEF NothingLost
LEMMA BeginCommandLosesNothing ==
  ASSUME Alone, LocalParts, NothingLost, NEW c \in Procs, NEW op \in Commands,
         BeginCommand(c, op, Paths)
  PROVE  NothingLost'
<1>1. /\ Cache(c, Paths)
      /\ UNCHANGED <<upstream, fetch, pushed, hashed, theirs, late>>
  BY DEF BeginCommand
<1>2. CASE StartStaging(c, op, StateFor(c, Paths))
  BY <1>1, <1>2, StartStagingLosesNothing
<1>3. CASE StartSync(c, op, StateFor(c, Paths))
  <2>1. fetch = NULL
    BY <1>3 DEF BeginCommand, StartSync, Alone
  <2>. QED BY <1>1, <1>3, <2>1, StartSyncLosesNothing
<1>. QED BY <1>2, <1>3 DEF BeginCommand

-----------------------------------------------------------------------------
(* Staging commands that end                                                   *)

\* The row t is r as far as its number, its path, its hash and merges go.
Like(t, r) == /\ t.pk = r.pk /\ t.path = r.path
              /\ t.last_sync_hash = r.last_sync_hash
              /\ t.staged_for_merge => r.staged_for_merge
OfRow(t, R) == \E r \in R : Like(t, r)
\* The row t was created just now.
MadeNow(t) == /\ t.pk[2] = next_pk /\ t.last_sync_hash = NULL
              /\ ~t.staged_for_merge
OfRows(T, R) == Numbered(T) /\ \A t \in T : OfRow(t, R) \/ MadeNow(t)
OldRows(R) == Numbered(R) /\ \A r \in R : r.pk[2] < next_pk

\* Rows that keep their numbers have numbers of their own.
LEMMA OldRowsStay ==
  ASSUME NEW R, OldRows(R), NEW S \in SUBSET R,
         NEW g, \A r \in S : Like(g[r], r)
  PROVE  /\ OldRows({g[r] : r \in S})
         /\ \A t \in {g[r] : r \in S} : OfRow(t, R)
<1>1. ASSUME NEW t \in {g[r] : r \in S}
      PROVE  /\ OfRow(t, R) /\ ~t.staged_for_merge
             /\ t.pk[2] \in Nat /\ t.pk[2] < next_pk
  <2>1. PICK r \in S : t = g[r]
    OBVIOUS
  <2>. QED BY <2>1 DEF OfRow, Like, OldRows, Numbered
<1>2. ASSUME NEW t \in {g[r] : r \in S}, NEW u \in {g[r] : r \in S}, t.pk = u.pk
      PROVE  t = u
  <2>1. PICK r \in S : t = g[r]
    OBVIOUS
  <2>2. PICK q \in S : u = g[q]
    OBVIOUS
  <2>3. r = q
    BY <1>2, <2>1, <2>2 DEF Like, OldRows, Numbered
  <2>. QED BY <2>1, <2>2, <2>3
<1>. QED BY <1>1, <1>2 DEF OldRows, Numbered

\* Rows that are created get the next number, each for a path of its own.
LEMMA MadeRowsNumbered ==
  ASSUME NEW v, NEW old, OldRows(old), NEW R, \A t \in old : OfRow(t, R),
         next_pk \in Nat, NEW ps, NEW rc, NEW merge, ~merge, NEW remove
  PROVE  OfRows(old \cup create_store_fs(v, ps, rc, merge, remove), R)
<1>. PICK new : new = create_store_fs(v, ps, rc, merge, remove)
  OBVIOUS
<1>1. ASSUME NEW t \in new
      PROVE  /\ MadeNow(t) /\ t.pk = <<t.path, next_pk>>
             /\ t = [pk |-> <<t.path, next_pk>>, path |-> t.path,
                     fk |-> v.store[t.path].st # "none",
                     last_sync_revision |-> NULL, last_sync_hash |-> NULL,
                     base |-> NULL, staged_for_removal |-> remove,
                     staged_for_merge |-> merge, resolve_conflict |-> rc]
  <2>1. PICK p \in ps :
          t = [pk |-> <<p, next_pk>>, path |-> p,
               fk |-> v.store[p].st # "none",
               last_sync_revision |-> NULL, last_sync_hash |-> NULL,
               base |-> NULL, staged_for_removal |-> remove,
               staged_for_merge |-> merge, resolve_conflict |-> rc]
    BY Zenon DEF create_store_fs
  <2>2. t.path = p /\ t.pk = <<p, next_pk>> /\ t.last_sync_hash = NULL
        /\ t.staged_for_merge = merge
    BY <2>1
  <2>. QED BY <2>1, <2>2 DEF MadeNow
<1>2. ASSUME NEW t \in new, NEW u \in new, t.pk = u.pk
      PROVE  t = u
  <2>1. t.path = u.path
    BY <1>1, <1>2
  <2>. QED BY <1>1, <2>1
<1>3. \A t \in old, u \in new : t.pk # u.pk
  BY <1>1 DEF MadeNow, OldRows, Numbered
<1>4. OfRows(old \cup new, R)
  BY <1>1, <1>2, <1>3 DEF OfRows, OldRows, Numbered, MadeNow
<1>. QED BY <1>4

\* Staging keeps the numbers of the rows, and what it creates is not staged for
\* a merge.
LEMMA StagedNumbered ==
  ASSUME NoMerges, NEW R \in SUBSET Row, OldRows(R), next_pk \in Nat, NEW v,
         NEW s, NEW op \in Commands, op.cmd # "sync"
  PROVE  OfRows(Staged(R, v, s, op), R)
<1>0. OfRows(R, R)
  BY DEF OfRows, OldRows, OfRow, Like
<1>1. ASSUME NEW q \in R, NEW rc, NEW merge, merge => q.staged_for_merge,
             NEW remove
      PROVE  /\ Like([q EXCEPT !.resolve_conflict = rc], q)
             /\ Like([q EXCEPT !.resolve_conflict = rc,
                               !.staged_for_merge = merge], q)
             /\ Like([q EXCEPT !.staged_for_removal = remove], q)
             /\ Like([q EXCEPT !.resolve_conflict = rc,
                               !.staged_for_merge = merge,
                               !.staged_for_removal = remove], q)
  BY <1>1 DEF Row, Like
<1>2. CASE op.cmd = "add"
  <2>. DEFINE fs == IF op.force /\ op.update # "pootle"
                    THEN s.pootle_removed ELSE {}
              pootle == IF op.force /\ op.update # "fs"
                        THEN s.fs_removed ELSE {}
              changed(r) == [r EXCEPT !.resolve_conflict =
                               IF r.pk \in fs THEN "fs"
                               ELSE IF r.pk \in pootle THEN "pootle" ELSE @]
  <2>. PICK g : g = [r \in R |-> changed(r)]
    OBVIOUS
  <2>. PICK ps : ps = (IF op.update # "fs" THEN s.fs_untracked ELSE {})
                      \cup (IF op.update # "pootle" THEN s.pootle_untracked
                            ELSE {})
    OBVIOUS
  <2>1. Staged(R, v, s, op) = {changed(r) : r \in R}
          \cup create_store_fs(v, ps, "none", FALSE, FALSE)
    BY <1>2 DEF Staged, Add
  <2>2. \A r \in R : Like(g[r], r)
    <3>1. \A r \in R : Like(changed(r), r)
      <4>. HIDE DEF fs, pootle
      <4>. QED BY <1>1
    <3>. HIDE DEF changed
    <3>. QED BY <3>1
  <2>. HIDE DEF changed
  <2>. PICK old : old = {g[r] : r \in R}
    OBVIOUS
  <2>12. old = {g[r] : r \in R}
    OBVIOUS
  <2>8. PICK none, no : none = "none" /\ no = FALSE
    OBVIOUS
  <2>4. Staged(R, v, s, op) = old \cup create_store_fs(v, ps, none, no, no)
    BY Zenon, <2>1, <2>8
  <2>5. OldRows(old) /\ \A t \in old : OfRow(t, R)
    <3>1. /\ OldRows({g[r] : r \in R})
          /\ \A t \in {g[r] : r \in R} : OfRow(t, R)
      BY ONLY OldRows(R), <2>2, OldRowsStay
    <3>. QED BY ONLY <2>12, <3>1
  <2>9. OfRows(old \cup create_store_fs(v, ps, none, no, no), R)
    BY <2>5, <2>8, MadeRowsNumbered
  <2>. QED BY <2>4, <2>9
<1>3. CASE op.cmd = "resolve"
  <2>. DEFINE changed(r) == IF r.pk \in s.conflict
                            THEN [r EXCEPT !.resolve_conflict =
                                             IF op.pootle_wins THEN "pootle"
                                             ELSE "fs",
                                           !.staged_for_merge = @ \/ op.merge]
                            ELSE r
  <2>. PICK g : g = [r \in R |-> changed(r)]
    OBVIOUS
  <2>10. PICK winner, merge :
            /\ winner = IF op.pootle_wins THEN "pootle" ELSE "fs"
            /\ merge = op.merge
    OBVIOUS
  <2>11. ~merge
    BY <1>3, <2>10 DEF NoMerges
  <2>1. Staged(R, v, s, op) = {changed(r) : r \in R}
          \cup create_store_fs(v, s.conflict_untracked, winner, merge, FALSE)
    BY <1>3, <2>10 DEF Staged, Resolve
  <2>2. \A r \in R : Like(g[r], r)
    <3>1. ASSUME NEW r \in R
          PROVE  Like(changed(r), r)
      <4>1. PICK m : m = (r.staged_for_merge \/ op.merge)
        OBVIOUS
      <4>2. CASE r.pk \in s.conflict
        <5>1. changed(r) = [r EXCEPT !.resolve_conflict = winner,
                                     !.staged_for_merge = m]
          BY Zenon, <4>1, <4>2, <2>10
        <5>2. m => r.staged_for_merge
          BY <4>1, <2>10, <2>11
        <5>3. Like([r EXCEPT !.resolve_conflict = winner,
                             !.staged_for_merge = m], r)
          BY <1>1, <5>2
        <5>. QED BY Zenon, <5>1, <5>3
      <4>3. CASE r.pk \notin s.conflict
        BY <4>3 DEF Like
      <4>. QED BY <4>2, <4>3
    <3>. HIDE DEF changed
    <3>. QED BY <3>1
  <2>. HIDE DEF changed
  <2>. PICK old : old = {g[r] : r \in R}
    OBVIOUS
  <2>12. old = {g[r] : r \in R}
    OBVIOUS
  <2>8. PICK no : no = FALSE
    OBVIOUS
  <2>4. Staged(R, v, s, op) = old
          \cup create_store_fs(v, s.conflict_untracked, winner, merge, no)
    BY Zenon, <2>1, <2>8
  <2>5. OldRows(old) /\ \A t \in old : OfRow(t, R)
    <3>1. /\ OldRows({g[r] : r \in R})
          /\ \A t \in {g[r] : r \in R} : OfRow(t, R)
      BY ONLY OldRows(R), <2>2, OldRowsStay
    <3>. QED BY ONLY <2>12, <3>1
  <2>9. OfRows(old \cup create_store_fs(v, s.conflict_untracked, winner, merge, no), R)
    BY <2>5, <2>8, <2>11, MadeRowsNumbered
  <2>. QED BY <2>4, <2>9
<1>4. CASE op.cmd = "rm"
  <2>. DEFINE update == s.both_removed
                \cup (IF op.update # "pootle" THEN s.pootle_removed ELSE {})
                \cup (IF op.update # "fs" THEN s.fs_removed ELSE {})
                \cup (IF op.force THEN s.conflict ELSE {})
              changed(r) == [r EXCEPT !.staged_for_removal =
                                        @ \/ r.pk \in update]
  <2>. PICK g : g = [r \in R |-> changed(r)]
    OBVIOUS
  <2>. PICK ps : ps = IF ~op.force THEN {}
                      ELSE s.conflict_untracked
                           \cup (IF op.update # "pootle" THEN s.pootle_untracked
                                 ELSE {})
                           \cup (IF op.update # "fs" THEN s.fs_untracked
                                 ELSE {})
    OBVIOUS
  <2>1. Staged(R, v, s, op) = {changed(r) : r \in R}
          \cup create_store_fs(v, ps, "none", FALSE, TRUE)
    BY <1>4 DEF Staged, Rm
  <2>2. \A r \in R : Like(g[r], r)
    <3>1. \A r \in R : Like(changed(r), r)
      <4>. HIDE DEF update
      <4>. QED BY <1>1
    <3>. HIDE DEF changed
    <3>. QED BY <3>1
  <2>. HIDE DEF changed
  <2>. PICK old : old = {g[r] : r \in R}
    OBVIOUS
  <2>12. old = {g[r] : r \in R}
    OBVIOUS
  <2>8. PICK none, no, yes : none = "none" /\ no = FALSE /\ yes = TRUE
    OBVIOUS
  <2>4. Staged(R, v, s, op) = old \cup create_store_fs(v, ps, none, no, yes)
    BY Zenon, <2>1, <2>8
  <2>5. OldRows(old) /\ \A t \in old : OfRow(t, R)
    <3>1. /\ OldRows({g[r] : r \in R})
          /\ \A t \in {g[r] : r \in R} : OfRow(t, R)
      BY ONLY OldRows(R), <2>2, OldRowsStay
    <3>. QED BY ONLY <2>12, <3>1
  <2>9. OfRows(old \cup create_store_fs(v, ps, none, no, yes), R)
    BY <2>5, <2>8, MadeRowsNumbered
  <2>. QED BY <2>4, <2>9
<1>5. CASE op.cmd = "unstage"
  <2>. DEFINE staged == s.remove \cup s.merge_pootle_wins \cup s.merge_fs_wins
                \cup s.pootle_staged \cup s.fs_staged
                \cup {r.pk : r \in {q \in R :
                        /\ q.pk \in s.pootle_ahead \cup s.fs_ahead
                        /\ q.resolve_conflict # "none"}}
              S == {q \in R : ~(q.pk \in staged /\ NeverSynced(q))}
              changed(r) == IF r.pk \in staged
                            THEN [r EXCEPT !.resolve_conflict = "none",
                                           !.staged_for_merge = FALSE,
                                           !.staged_for_removal = FALSE]
                            ELSE r
  <2>. PICK g : g = [r \in R |-> changed(r)]
    OBVIOUS
  <2>1. Staged(R, v, s, op) = R \/ Staged(R, v, s, op) = {changed(r) : r \in S}
    BY <1>5 DEF Staged, Unstage
  <2>2. \A r \in R : Like(g[r], r)
    <3>1. ASSUME NEW r \in R
          PROVE  Like(changed(r), r)
      <4>. HIDE DEF staged
      <4>1. CASE r.pk \in staged
        <5>1. PICK none, no : none = "none" /\ no = FALSE
          OBVIOUS
        <5>2. changed(r) = [r EXCEPT !.resolve_conflict = none,
                                     !.staged_for_merge = no,
                                     !.staged_for_removal = no]
          BY Zenon, <4>1, <5>1
        <5>3. Like([r EXCEPT !.resolve_conflict = none,
                             !.staged_for_merge = no,
                             !.staged_for_removal = no], r)
          BY <1>1, <5>1
        <5>. QED BY Zenon, <5>2, <5>3
      <4>2. CASE r.pk \notin staged
        BY <4>2 DEF Like
      <4>. QED BY <4>1, <4>2
    <3>. HIDE DEF changed
    <3>. QED BY <3>1
  <2>3. S \subseteq R
    OBVIOUS
  <2>. HIDE DEF changed, S
  <2>4. {changed(r) : r \in S} = {g[r] : r \in S}
    BY <2>3
  <2>5. OldRows({g[r] : r \in S}) /\ \A t \in {g[r] : r \in S} : OfRow(t, R)
    BY ONLY OldRows(R), <2>2, <2>3, OldRowsStay
  <2>. QED BY <1>0, <2>1, <2>4, <2>5 DEF OfRows, OldRows
<1>. QED BY <1>2, <1>3, <1>4, <1>5, CommandsAssumption DEF Command

\* A staging command that ends drops the tokens if it has changed a row.
LEMMA StageLosesNothing ==
  ASSUME Alone, LocalParts, NothingLost, NEW c \in Procs, Stage(c)
  PROVE  NothingLost'
<1>. PICK R : R = rows
  OBVIOUS
<1>1. /\ rows' = Staged(R, View(c), run[c].state, run[c].op)
      /\ UNCHANGED <<store, file, clock, upstream, fetch, pushed, found,
                     theirs, late>>
      /\ run' = [run EXCEPT ![c] = NULL] /\ ~Idle(c) /\ ~Syncing(c)
      /\ next_pk' = IF \E r \in rows' : r.pk[2] = next_pk
                    THEN next_pk + 1 ELSE next_pk
      /\ matches' = matches \/ matches' = NULL
  BY DEF Stage, EndStaging, history, NewTokens
<1>2. run[c].op \in Commands /\ run[c].op.cmd # "sync"
  BY <1>1 DEF LocalParts, Parts, RunInv, StagingRun, SyncRun, Idle, Syncing
<1>3. R \in SUBSET Row /\ OldRows(R) /\ next_pk \in Nat
  BY LocalTyped DEF OldRows, NothingLost, RowsNumbered
<1>4. OfRows(rows', R)
  <2>. PICK v, s, op : v = View(c) /\ s = run[c].state /\ op = run[c].op
    OBVIOUS
  <2>1. OfRows(Staged(R, v, s, op), R)
    BY <1>2, <1>3, StagedNumbered DEF Alone
  <2>. QED BY <1>1, <2>1
<1>5. \A d \in Procs : d = c /\ ~Syncing(d) /\ ~Syncing(d)'
  BY <1>1 DEF Alone, OneProcess, Syncing, Idle, LocalParts, Parts, RunInv
<1>6. next_pk' \in Nat /\ next_pk <= next_pk'
  BY <1>1, <1>3
<1>7. ASSUME NEW t \in rows'
      PROVE  /\ t.pk[2] \in Nat /\ ~t.staged_for_merge /\ t.pk[2] < next_pk'
             /\ \/ t.last_sync_hash = NULL
                \/ \E r \in rows : t.path = r.path
                                   /\ t.last_sync_hash = r.last_sync_hash
  <2>1. t.pk[2] \in Nat /\ ~t.staged_for_merge
    BY <1>4 DEF OfRows, Numbered
  <2>2. CASE OfRow(t, R)
    BY <1>3, <1>6, <2>1, <2>2 DEF OfRow, Like, OldRows
  <2>3. CASE MadeNow(t)
    BY <1>1, <1>3, <2>1, <2>3 DEF MadeNow
  <2>. QED BY <1>4, <2>2, <2>3 DEF OfRows
<1>8. RowsNumbered'
  BY <1>4, <1>7 DEF RowsNumbered, OfRows, Numbered
<1>9. Timed'
  BY <1>1, <1>5, <1>7 DEF NothingLost, Timed, Stamped
<1>10. NeverRead'
  BY <1>1, <1>5, <1>7, LocalTyped DEF NothingLost, NeverRead, Timed
<1>11. StoresExact'
  BY <1>1 DEF NothingLost, StoresExact
<1>12. SyncsInOrder' /\ ItemsDecided'
  BY <1>1, <1>5, WithoutSync DEF SyncsInOrder, ItemsDecided
<1>13. FilesAlike'
  BY <1>1, <1>5, WithoutSync DEF FilesAlike, OverTaken
<1>14. CachesKnow'
  BY <1>1 DEF NothingLost, CachesKnow, CachesHave
<1>. QED BY <1>8, <1>9, <1>10, <1>11, <1>12, <1>13, <1>14 DEF NothingLost

-----------------------------------------------------------------------------
(* The steps of a sync                                                         *)

\* A sync that goes on keeps its order, and has yet to write upstream what it
\* had.
LEMMA SyncGoesOn ==
  ASSUME Alone, LocalParts, NothingLost, NEW c \in Procs, NEW i, CanDo(c, i),
         NEW at \in At \cup {NULL}, at # NULL => at.step = "hash",
         NEW undo, GoodUndo(undo), GoOn(c, i, at, undo),
         fetch' = fetch, pushed' = pushed
  PROVE  /\ \A d \in Procs : d = c
         /\ Syncing(c) /\ Syncing(c)' /\ i \in run[c].todo
         /\ run'[c].todo = run[c].todo \ {i} /\ run'[c].at = at
         /\ run'[c].last_sync = run[c].last_sync
         /\ i.kind \in {"rm", "pull", "push"}
         /\ \A p : ToBePushed(c, p)' <=> ToBePushed(c, p)
         /\ SyncsInOrder' /\ NoNewItems
<1>1. /\ Syncing(c) /\ i \in run[c].todo /\ run[c] \in SyncRun
      /\ \A d \in Procs : d = c
  BY SyncingRun DEF CanDo, LocalParts, Alone, OneProcess
<1>2. /\ run'[c].todo = run[c].todo \ {i} /\ run'[c].at = at
      /\ run'[c].last_sync = run[c].last_sync /\ run'[c].op.cmd = "sync"
  BY <1>1, GoOnFields DEF LocalParts
<1>3. run'[c] = [run[c] EXCEPT !.todo = @ \ {i}, !.at = at, !.undo = undo]
  BY <1>1 DEF GoOn, LocalParts, Parts, RunInv
<1>4. run'[c].op = run[c].op
  BY <1>1, <1>3 DEF SyncRun
<1>5. run'[c] # NULL
  <2>. PICK h, todo : h = run[c] /\ todo = run[c].todo \ {i}
    OBVIOUS
  <2>1. h \in SyncRun /\ todo \subseteq h.todo
    BY <1>1
  <2>2. run'[c] = [h EXCEPT !.todo = todo, !.at = at, !.undo = undo]
    BY <1>3
  <2>3. [h EXCEPT !.todo = todo, !.at = at, !.undo = undo] \in SyncRun
    BY ONLY <2>1, at \in At \cup {NULL}, GoodUndo(undo) DEF SyncRun, GoodUndo
  <2>. QED BY <2>2, <2>3, NoNullAssumption
<1>6. Syncing(c)'
  BY <1>2, <1>5 DEF Syncing, Idle
<1>7. \A p : ToBePushed(c, p)' <=> ToBePushed(c, p)
  BY <1>1, <1>4, <1>6 DEF ToBePushed
<1>8. InOrder(c) /\ run[c].todo # {}
  BY <1>1 DEF NothingLost, SyncsInOrder
<1>9. pushed[c] = {} /\ i.kind \in {"rm", "pull", "push"}
  BY <1>1, <1>8 DEF InOrder
<1>10. InOrder(c)'
  BY <1>2, <1>4, <1>8, <1>9 DEF InOrder
<1>11. SyncsInOrder' /\ NoNewItems
  BY <1>1, <1>2, <1>6, <1>10 DEF SyncsInOrder, NoNewItems
<1>. QED BY <1>1, <1>2, <1>6, <1>7, <1>9, <1>11

\* An item that is skipped touches nothing.
LEMMA SkipItemLosesNothing ==
  ASSUME Alone, LocalParts, NothingLost, NEW c \in Procs, NEW i,
         SkipItem(c, i), SyncItem(c, i)
  PROVE  NothingLost'
<1>1. /\ CanDo(c, i) /\ GoOn(c, i, NULL, run[c].undo) /\ ~Exists(i.pk)
      /\ UNCHANGED <<rows, store, file, clock, next_pk, upstream, fetch, pushed,
                     found, matches, late>>
  BY DEF SkipItem, SyncItem, db, cache
<1>2. theirs' = theirs
  BY <1>1 DEF SyncItem, ReadOrRemoved, PullItem, RmItem
<1>. PICK undo : undo = run[c].undo
  OBVIOUS
<1>3. GoodUndo(undo) /\ GoOn(c, i, NULL, undo)
  BY <1>1, OldUndoGood DEF LocalParts, CanDo
<1>4. /\ \A d \in Procs : d = c
      /\ Syncing(c) /\ Syncing(c)' /\ i \in run[c].todo
      /\ run'[c].todo = run[c].todo \ {i} /\ run'[c].at = NULL
      /\ run'[c].last_sync = run[c].last_sync
      /\ \A p : ToBePushed(c, p)' <=> ToBePushed(c, p)
      /\ SyncsInOrder' /\ NoNewItems
  BY <1>1, <1>3, SyncGoesOn
<1>5. Timed' /\ RowsNumbered' /\ StoresExact'
  BY <1>1, <1>2, <1>4 DEF NothingLost, Timed, RowsNumbered, StoresExact
<1>6. NeverRead'
  BY <1>1, <1>2, <1>4 DEF NothingLost, NeverRead
<1>7. FilesAlike'
  BY <1>1, <1>2, <1>4 DEF NothingLost, FilesAlike, OverTaken, Ahead, Decided
<1>8. ItemsDecided'
  <2>1. FewerItems
    BY <1>1, <1>2, <1>4 DEF FewerItems, RowsDecided, SameDecision, StoresMove
  <2>. QED BY <2>1, ItemsStay
<1>9. CachesKnow'
  BY <1>1, <1>2 DEF NothingLost, CachesKnow, CachesHave
<1>. QED BY <1>4, <1>5, <1>6, <1>7, <1>8, <1>9 DEF NothingLost

\* What a sync removes was decided, or others have written it since: it has
\* still to be fetched.
LEMMA RmItemLosesNothing ==
  ASSUME Alone, LocalParts, NothingLost, NEW c \in Procs, NEW i,
         RmItem(c, i), SyncItem(c, i)
  PROVE  NothingLost'
<1>. PICK r : r = RowOf(i.pk)
  OBVIOUS
<1>. PICK p : p = r.path
  OBVIOUS
<1>1. /\ CanDo(c, i) /\ GoOn(c, i, NULL, Touched(c, r)) /\ Exists(i.pk)
      /\ UNCHANGED <<clock, next_pk, upstream, fetch, pushed, found, matches,
                     late>>
      /\ i.kind = "rm" /\ rows' = rows \ {r}
      /\ store' = IF ~r.fk THEN store
                  ELSE [store EXCEPT ![p] = UpdateData([@ EXCEPT !.st = "obsolete"])]
      /\ file' = [file EXCEPT ![p] = NoFile]
  BY DEF RmItem, SyncItem, cache
<1>2. r \in rows /\ r.pk = i.pk /\ p \in Paths /\ p = i.pk[1]
      /\ GoodRow(r, revision)
  BY <1>1, RowOfGood DEF LocalParts
<1>. PICK undo : undo = Touched(c, r)
  OBVIOUS
<1>3. GoodUndo(undo) /\ GoOn(c, i, NULL, undo)
  BY <1>1, <1>2, TouchedUndoGood DEF LocalParts, CanDo
<1>4. /\ \A d \in Procs : d = c
      /\ Syncing(c) /\ Syncing(c)' /\ i \in run[c].todo
      /\ run'[c].todo = run[c].todo \ {i} /\ run'[c].at = NULL
      /\ run'[c].last_sync = run[c].last_sync
      /\ \A q : ToBePushed(c, q)' <=> ToBePushed(c, q)
      /\ SyncsInOrder' /\ NoNewItems
  BY <1>1, <1>3, SyncGoesOn
<1>5. r.staged_for_removal
  BY <1>1, <1>2, <1>4 DEF NothingLost, ItemsDecided, ItemDecided
<1>6. theirs' = IF file[p] = upstream[p] THEN theirs \ {p} ELSE theirs
  BY <1>1, <1>2, <1>5 DEF SyncItem, ReadOrRemoved
<1>7. /\ file \in [Paths -> File] /\ store \in [Paths -> Store]
      /\ theirs' \subseteq theirs /\ theirs \subseteq Paths
      /\ theirs' \ late' \subseteq theirs \ late
  BY <1>1, <1>6, LocalTyped DEF LocalParts, Parts, FileInv, StoreInv
<1>8. /\ file'[p].mtime = NULL
      /\ \A q \in Paths \ {p} : file'[q] = file[q] /\ store'[q] = store[q]
  BY <1>1, <1>2, <1>7 DEF NoFile
<1>9. \A q \in Paths : ~Ahead(q)
  BY <1>1, <1>4 DEF Ahead
<1>10. \A q \in theirs \ late : file[q] = upstream[q]
  BY <1>7, <1>9 DEF NothingLost, FilesAlike
<1>11. p \in theirs' => p \in late
  BY <1>6, <1>10
<1>12. Exact(store'[p]) /\ store'[p].max_unit_revision = store[p].max_unit_revision
  <2>. PICK s, s2 : s = store[p] /\ s2 = [store[p] EXCEPT !.st = "obsolete"]
    OBVIOUS
  <2>1. s \in Store /\ s2 \in Store /\ s2.val = s.val /\ s2.rev = s.rev
        /\ Exact(s)
    BY <1>2, <1>7 DEF Store, NothingLost, StoresExact
  <2>2. MaxUnitRevision(s2) = MaxUnitRevision(s)
    BY ONLY <2>1, MaxUnitRevisionSame
  <2>3. UpdateData(s2).max_unit_revision = MaxUnitRevision(s2)
    BY <2>1 DEF UpdateData, Store
  <2>4. Exact(UpdateData(s2))
    BY <2>1, UpdatedExact
  <2>5. store'[p] = s \/ store'[p] = UpdateData(s2)
    BY <1>1, <1>2, <1>7
  <2>. QED BY <2>1, <2>2, <2>3, <2>4, <2>5 DEF Exact
<1>13. RowsNumbered' /\ StoresExact'
  BY <1>1, <1>8, <1>12 DEF NothingLost, RowsNumbered, Numbered, StoresExact
<1>14. Timed'
  BY <1>1, <1>4, <1>7, <1>8 DEF NothingLost, Timed, Stamped
<1>15. NeverRead'
  BY <1>1, <1>4, <1>7 DEF NothingLost, NeverRead
<1>16. FilesAlike'
  <2>1. ASSUME NEW q \in theirs' \ late'
        PROVE  file'[q] = upstream'[q]
    <3>1. q # p /\ q \in theirs \ late
      BY <1>1, <1>7, <1>11, <2>1
    <3>. QED BY <1>1, <1>7, <1>8, <1>10, <3>1
  <2>2. ASSUME NEW q \in theirs' \cap late'
        PROVE  OverTaken(q)'
    <3>1. q \in theirs \cap late /\ OverTaken(q)
      BY <1>1, <1>7, <2>2 DEF NothingLost, FilesAlike
    <3>2. CASE q = p
      BY <1>1, <1>7, <1>8, <3>1, <3>2 DEF OverTaken, NothingLost, Timed
    <3>3. CASE q # p
      BY <1>1, <1>4, <1>7, <1>8, <3>1, <3>3 DEF OverTaken
    <3>. QED BY <3>2, <3>3
  <2>. QED BY <2>1, <2>2 DEF FilesAlike
<1>17. ItemsDecided'
  <2>1. StoresMove
    BY <1>8, <1>12 DEF StoresMove
  <2>2. FewerItems
    BY <1>1, <1>4, <1>7, <2>1 DEF FewerItems, RowsDecided, SameDecision
  <2>. QED BY <2>2, ItemsStay
<1>18. CachesKnow'
  BY <1>1, <1>7 DEF NothingLost, CachesKnow, CachesHave
<1>. QED BY <1>4, <1>13, <1>14, <1>15, <1>16, <1>17, <1>18 DEF NothingLost

\* A pull is not skipped when others have written the file.
LEMMA PullItemLosesNothing ==
  ASSUME Alone, LocalParts, NothingLost, NEW c \in Procs, NEW i,
         PullItem(c, i), SyncItem(c, i)
  PROVE  NothingLost'
<1>. DEFINE r == RowOf(i.pk)
            p == r.path
            merge == i.kind # "pull"
            wins == IF i.kind = "merge_pootle" THEN "pootle" ELSE "fs"
            o == Pull(r, store[p], suggested[p], file[p], merge, wins, revision)
            rev == IF merge THEN o.ret ELSE o.store.max_unit_revision
            undo == IF PullSkipped(r, file[p]) THEN run[c].undo
                    ELSE Touched(c, r)
            pulled(q) == IF q.pk = i.pk THEN [q EXCEPT !.fk = TRUE] ELSE q
<1>. PICK at : at = [pk |-> i.pk,
                     step |-> IF merge /\ run[c].op.update = "all"
                              THEN "push" ELSE "hash",
                     rev |-> rev, base |-> Base(o.store, rev)]
  OBVIOUS
<1>1. /\ rows' = {pulled(q) : q \in rows}
      /\ store' = [store EXCEPT ![p] = o.store]
      /\ CanDo(c, i) /\ Syncing(c) /\ Exists(i.pk) /\ i \in run[c].todo
      /\ UNCHANGED <<file, clock, next_pk, upstream, fetch, pushed, found,
                     matches, late>>
      /\ i.kind \in {"merge_pootle", "merge_fs", "pull"}
  BY DEF PullItem, CanDo, SyncItem, cache
<1>2. GoOn(c, i, at, undo)
  BY DEF PullItem
<1>3. ~merge
  BY <1>1 DEF NothingLost, SyncsInOrder, InOrder
<1>4. r \in rows /\ r.pk = i.pk /\ p \in Paths /\ p = i.pk[1]
      /\ GoodRow(r, revision) /\ r \in Row
  BY <1>1, RowOfGood DEF GoodRow, LocalParts
<1>5. /\ store[p] \in Store /\ StoreBelow(store[p], revision)
      /\ suggested[p] \in Suggestions /\ file[p] \in File
      /\ revision \in Nat /\ store'[p] = o.store /\ Exact(store[p])
      /\ \A q \in Paths \ {p} : store'[q] = store[q]
  BY <1>1, <1>4 DEF LocalParts, Parts, StoreInv, SuggestedInv, FileInv,
                    NumbersInv, GoodStore, NothingLost, StoresExact
<1>6. Exact(o.store) /\ Later(store[p], o.store, revision) /\ o.store \in Store
  <2>. PICK oo : oo = o
    OBVIOUS
  <2>1. oo = Pull(r, store[p], suggested[p], file[p], merge, wins, revision)
    OBVIOUS
  <2>2. merge \in BOOLEAN /\ wins \in {"pootle", "fs"}
    OBVIOUS
  <2>. HIDE DEF r, p, merge, wins, o
  <2>3. Exact(oo.store)
    BY <1>3, <1>4, <1>5, <2>1, PullExact
  <2>4. Later(store[p], oo.store, revision)
    BY <1>4, <1>5, <2>1, <2>2, PullLater
  <2>5. Good(oo, revision)
    BY <1>4, <1>5, <2>1, <2>2, PullGood
  <2>. QED BY <2>3, <2>4, <2>5 DEF Good
<1>7. at \in At /\ at.step = "hash" /\ at.pk = i.pk
  <2>1. i.pk \in Pk
    BY <1>1, SyncingRun DEF SyncRun, Item, LocalParts
  <2>2. rev \in Nat /\ o.store.val \in Content \cup {NULL}
    BY <1>3, <1>6 DEF Store
  <2>3. at = [pk |-> i.pk, step |-> "hash", rev |-> rev,
              base |-> Base(o.store, rev)]
    BY <1>3
  <2>. HIDE DEF rev, o
  <2>. QED BY <2>1, <2>2, <2>3 DEF At, Base
<1>8. GoodUndo(undo)
  <2>. HIDE DEF r, p
  <2>. QED BY <1>1, <1>4, OldUndoGood, TouchedUndoGood DEF LocalParts
<1>9. /\ \A d \in Procs : d = c
      /\ Syncing(c)' /\ run'[c].todo = run[c].todo \ {i} /\ run'[c].at = at
      /\ run'[c].last_sync = run[c].last_sync
      /\ \A q : ToBePushed(c, q)' <=> ToBePushed(c, q)
      /\ SyncsInOrder' /\ NoNewItems
  <2>. PICK new : new = undo
    OBVIOUS
  <2>1. GoOn(c, i, at, new) /\ GoodUndo(new)
    BY <1>2, <1>8
  <2>2. /\ CanDo(c, i) /\ Syncing(c) /\ fetch' = fetch /\ pushed' = pushed
        /\ at \in At \cup {NULL} /\ (at # NULL => at.step = "hash")
    BY <1>1, <1>7
  <2>. QED BY ONLY Alone, LocalParts, NothingLost, c \in Procs, <2>1, <2>2,
                   SyncGoesOn
<1>10. theirs' = IF file[p] = upstream[p] /\ ~PullSkipped(r, file[p])
                 THEN theirs \ {p} ELSE theirs
  BY <1>1, <1>4 DEF SyncItem, ReadOrRemoved, RmItem
<1>11. \A q \in rows : SameDecision(pulled(q), q)
  BY LocalTyped DEF SameDecision, Row
<1>. HIDE DEF r, p, merge, wins, o, rev, undo, pulled
<1>12. /\ theirs' \subseteq theirs /\ theirs \subseteq Paths
       /\ theirs' \ late' \subseteq theirs \ late
  BY <1>1, <1>10, LocalTyped
<1>13. \A q \in Paths : ~Ahead(q)
  BY <1>1, <1>9 DEF Ahead
<1>14. \A q \in theirs \ late : file[q] = upstream[q]
  BY <1>12, <1>13 DEF NothingLost, FilesAlike
<1>15. p \in theirs' => p \in late
  <2>1. SUFFICES ASSUME p \in theirs \ late
                 PROVE  p \notin theirs'
    BY <1>12
  <2>2. file[p] = upstream[p] /\ r.last_sync_hash # upstream[p].mtime /\ r.path = p
    BY <1>4, <1>14, <2>1 DEF NothingLost, NeverRead, p
  <2>. QED BY <1>10, <2>2 DEF PullSkipped
<1>16. \A t \in rows' : \E q \in rows : SameDecision(t, q)
  BY <1>1, <1>11
<1>17. RowsNumbered'
  <2>1. ASSUME NEW t \in rows', NEW u \in rows', t.pk = u.pk
        PROVE  t = u
    <3>1. PICK q \in rows : t = pulled(q)
      BY <1>1
    <3>2. PICK w \in rows : u = pulled(w)
      BY <1>1
    <3>3. q = w
      BY <1>11, <2>1, <3>1, <3>2
      DEF SameDecision, NothingLost, RowsNumbered, Numbered
    <3>. QED BY <3>1, <3>2, <3>3
  <2>. QED BY <1>1, <1>16, <2>1
           DEF SameDecision, NothingLost, RowsNumbered, Numbered
<1>18. StoresExact'
  BY <1>5, <1>6 DEF NothingLost, StoresExact
<1>19. Timed'
  BY <1>1, <1>9, <1>12, <1>16 DEF NothingLost, Timed, SameDecision
<1>20. FilesAlike'
  <2>1. \A q \in theirs' \ late' : file'[q] = upstream'[q]
    BY <1>1, <1>12, <1>14
  <2>2. \A q \in theirs' \cap late' : OverTaken(q)'
    BY <1>1, <1>9, <1>12 DEF NothingLost, FilesAlike, OverTaken
  <2>. QED BY <2>1, <2>2 DEF FilesAlike
<1>21. NeverRead'
  <2>1. p \in theirs' => file[p].mtime # upstream[p].mtime
    BY <1>12, <1>15 DEF NothingLost, FilesAlike, OverTaken
  <2>2. \A q \in theirs', t \in rows' :
          t.path = q => t.last_sync_hash # upstream[q].mtime
    BY <1>12, <1>16 DEF NothingLost, NeverRead, SameDecision
  <2>3. \A q \in theirs' : run'[c].last_sync[q].hash # upstream[q].mtime
    BY <1>1, <1>9, <1>12 DEF NothingLost, NeverRead
  <2>4. run'[c].at.pk[1] = p
    BY <1>4, <1>7, <1>9
  <2>. QED BY <1>1, <1>9, <2>1, <2>2, <2>3, <2>4 DEF NeverRead
<1>22. ItemsDecided'
  <2>1. o.store.max_unit_revision \in Nat
    BY <1>6 DEF Store
  <2>2. \/ o.store.max_unit_revision = store[p].max_unit_revision
        \/ o.store.max_unit_revision > revision
    BY <1>5, <1>6 DEF Exact, Later, Stamps
  <2>3. StoresMove
    BY <1>5, <2>1, <2>2 DEF StoresMove
  <2>4. FewerItems
    BY <1>9, <1>12, <1>16, <2>3 DEF FewerItems, RowsDecided
  <2>. QED BY <2>4, ItemsStay
<1>23. CachesKnow'
  BY <1>1, <1>12 DEF NothingLost, CachesKnow, CachesHave
<1>. QED BY <1>9, <1>17, <1>18, <1>19, <1>20, <1>21, <1>22, <1>23 DEF NothingLost

\* What a push replaces, though others have written it, was decided, and will be
\* written upstream.
LEMMA PushItemLosesNothing ==
  ASSUME Alone, LocalParts, NothingLost, NEW c \in Procs, NEW i,
         PushItem(c, i), SyncItem(c, i)
  PROVE  NothingLost'
<1>1. /\ CanDo(c, i) /\ Syncing(c) /\ i \in run[c].todo /\ i.kind = "push"
      /\ UNCHANGED <<rows, store, next_pk, upstream, fetch, pushed, found,
                     matches, late>>
      /\ \A j \in run[c].todo : Phase[i.kind] <= Phase[j.kind]
      /\ View(c).rows = rows /\ View(c).store = store
  BY OneView DEF PushItem, CanDo, SyncItem, db, cache, Alone, LocalParts
<1>2. PICK r \in rows :
        /\ r.pk = i.pk /\ r.fk /\ WriteBack(r, store[r.path])
        /\ GoOn(c, i, [pk |-> i.pk, step |-> "hash",
                       rev |-> store[r.path].max_unit_revision,
                       base |-> store[r.path].val], run[c].undo)
  BY <1>1 DEF PushItem
<1>. PICK p, s : p = r.path /\ s = store[r.path]
  OBVIOUS
<1>. PICK at, undo : /\ at = [pk |-> i.pk, step |-> "hash",
                              rev |-> s.max_unit_revision, base |-> s.val]
                     /\ undo = run[c].undo
  OBVIOUS
<1>3. /\ p \in Paths /\ p = r.pk[1] /\ s \in Store /\ clock \in Nat
      /\ clock # NULL /\ file \in [Paths -> File]
      /\ file[p].mtime \in Nat \cup {NULL} /\ upstream[p].mtime \in Nat \cup {NULL}
  BY LocalTyped, NullAssumption DEF LocalParts, Parts, FileInv
<1>4. at \in At /\ at.step = "hash" /\ at.pk = i.pk
  <2>1. i.pk \in Pk
    BY <1>1, SyncingRun DEF SyncRun, Item, LocalParts
  <2>. QED BY <1>3, <2>1 DEF At, Store
<1>5. GoOn(c, i, at, undo) /\ GoodUndo(undo)
  BY <1>1, <1>2, OldUndoGood DEF LocalParts
<1>6. /\ \A d \in Procs : d = c
      /\ Syncing(c)' /\ run'[c].todo = run[c].todo \ {i} /\ run'[c].at = at
      /\ run'[c].last_sync = run[c].last_sync
      /\ \A q : ToBePushed(c, q)' <=> ToBePushed(c, q)
      /\ SyncsInOrder' /\ NoNewItems
  <2>2. /\ CanDo(c, i) /\ fetch' = fetch /\ pushed' = pushed
        /\ at \in At \cup {NULL} /\ (at # NULL => at.step = "hash")
    BY <1>1, <1>4
  <2>. QED BY ONLY Alone, LocalParts, NothingLost, c \in Procs, <1>5, <2>2,
                   SyncGoesOn
<1>7. theirs' = theirs /\ theirs \subseteq Paths
  BY <1>1, LocalTyped DEF SyncItem, ReadOrRemoved, PullItem, RmItem
<1>8. InOrder(c)
  BY <1>1 DEF NothingLost, SyncsInOrder
<1>9. \A j \in run[c].todo : j.kind = "push"
  BY <1>1, <1>8 DEF InOrder, Phase
<1>10. \A q \in Paths : ToBePushed(c, q)
  BY <1>1, <1>8 DEF InOrder, ToBePushed
<1>11. ItemDecided(i, r)
  BY <1>1, <1>2 DEF NothingLost, ItemsDecided
<1>12. \/ PushSkipped(r, s, file[p]) /\ file' = file /\ clock' = clock
       \/ /\ ~PushSkipped(r, s, file[p]) /\ clock' = clock + 1
          /\ file'[p].mtime = clock
          /\ \A q \in Paths \ {p} : file'[q] = file[q]
  <2>. PICK new : new = [val |-> PushContent(s, file[p]), mtime |-> clock]
    OBVIOUS
  <2>1. IF PushSkipped(r, s, file[p]) THEN file' = file /\ clock' = clock
        ELSE file' = [file EXCEPT ![p] = new] /\ clock' = clock + 1
    BY <1>2 DEF WriteBack
  <2>2. new.mtime = clock
    OBVIOUS
  <2>. QED BY <1>3, <2>1, <2>2
<1>13. \/ file'[p] = file[p] /\ p \notin theirs \ late
       \/ /\ file'[p].mtime = clock /\ clock' = clock + 1
          /\ p \in theirs \ late => r.resolve_conflict = "pootle"
  <2>1. p \in theirs \ late => r.resolve_conflict = "pootle"
                               /\ s.max_unit_revision # r.last_sync_revision
    BY <1>1, <1>11 DEF ItemDecided
  <2>. QED BY <1>2, <1>12, <2>1 DEF PushSkipped
<1>14. /\ clock' \in Nat /\ clock <= clock'
       /\ \A q \in Paths \ {p} : file'[q] = file[q]
  BY <1>3, <1>12
<1>15. \A t \in Nat \cup {NULL} : Stamped(t, clock) => Stamped(t, clock')
  BY <1>3, <1>14 DEF Stamped
<1>16. RowsNumbered' /\ StoresExact'
  BY <1>1 DEF NothingLost, RowsNumbered, StoresExact
<1>17. Timed'
  <2>1. \A q \in Paths : /\ Stamped(file[q].mtime, clock')
                         /\ Stamped(upstream[q].mtime, clock')
    BY <1>15, LocalTyped DEF NothingLost, Timed
  <2>2. Stamped(file'[p].mtime, clock')
    BY <1>3, <1>13, <2>1 DEF Stamped
  <2>3. \A t \in rows : Stamped(t.last_sync_hash, clock')
    BY <1>15, LocalTyped DEF NothingLost, Timed
  <2>4. \A q \in Paths : Stamped(run[c].last_sync[q].hash, clock')
    BY <1>1, <1>15, LocalTyped DEF NothingLost, Timed
  <2>. QED BY <1>1, <1>6, <1>7, <1>14, <2>1, <2>2, <2>3, <2>4
           DEF NothingLost, Timed
<1>18. p \in theirs => /\ file'[p].mtime # upstream[p].mtime
                       /\ p \in late => OverTaken(p)'
                       /\ p \notin late => Ahead(p)'
  <2>1. SUFFICES ASSUME p \in theirs
                 PROVE  /\ file'[p].mtime # upstream[p].mtime
                        /\ p \in late => OverTaken(p)'
                        /\ p \notin late => Ahead(p)'
    OBVIOUS
  <2>2. upstream[p].mtime \in Nat /\ upstream[p].mtime < clock
    BY <1>3, <2>1 DEF NothingLost, Timed, Stamped
  <2>3. CASE file'[p] = file[p] /\ p \notin theirs \ late
    <3>1. OverTaken(p) /\ p \in late
      BY <2>1, <2>3 DEF NothingLost, FilesAlike
    <3>. QED BY <1>1, <1>3, <1>6, <1>10, <2>3, <3>1 DEF OverTaken
  <2>4. CASE /\ file'[p].mtime = clock
             /\ p \in theirs \ late => r.resolve_conflict = "pootle"
    <3>1. file'[p].mtime # upstream[p].mtime /\ upstream[p].mtime < file'[p].mtime
          /\ file'[p].mtime # NULL
      BY <1>3, <2>2, <2>4
    <3>2. OverTaken(p)'
      BY <1>1, <1>3, <1>6, <1>10, <3>1 DEF OverTaken
    <3>3. p \notin late => Decided(p)'
      BY <1>1, <1>2, <2>1, <2>4 DEF Decided
    <3>4. p \notin late => Ahead(p)'
      BY <1>1, <1>3, <1>6, <1>9, <1>10, <3>1, <3>3 DEF Ahead
    <3>. QED BY <3>1, <3>2, <3>4
  <2>. QED BY <1>13, <2>3, <2>4
<1>19. FilesAlike'
  <2>1. ASSUME NEW q \in theirs' \ late'
        PROVE  file'[q] = upstream'[q] \/ Ahead(q)'
    <3>1. CASE q = p
      BY <1>1, <1>7, <1>18, <2>1, <3>1
    <3>2. CASE q # p
      <4>1. q \in theirs \ late /\ q \in Paths /\ file'[q] = file[q]
        BY <1>1, <1>7, <1>14, <2>1, <3>2
      <4>2. file[q] = upstream[q] \/ Ahead(q)
        BY <4>1 DEF NothingLost, FilesAlike
      <4>3. Ahead(q) => Ahead(q)'
        BY <1>1, <1>6, <4>1 DEF Ahead, Decided
      <4>. QED BY <1>1, <4>1, <4>2, <4>3
    <3>. QED BY <3>1, <3>2
  <2>2. ASSUME NEW q \in theirs' \cap late'
        PROVE  OverTaken(q)'
    <3>1. CASE q = p
      BY <1>1, <1>7, <1>18, <2>2, <3>1
    <3>2. CASE q # p
      <4>1. q \in theirs \cap late /\ q \in Paths /\ file'[q] = file[q]
        BY <1>1, <1>7, <1>14, <2>2, <3>2
      <4>. QED BY <1>1, <1>6, <4>1 DEF NothingLost, FilesAlike, OverTaken
    <3>. QED BY <3>1, <3>2
  <2>. QED BY <2>1, <2>2 DEF FilesAlike
<1>20. NeverRead'
  <2>1. \A q \in theirs' : run'[c].last_sync[q].hash # upstream[q].mtime
    BY <1>1, <1>6, <1>7 DEF NothingLost, NeverRead
  <2>2. run'[c].at.pk[1] = p
    BY <1>2, <1>3, <1>4, <1>6
  <2>. QED BY <1>1, <1>6, <1>7, <1>18, <2>1, <2>2 DEF NothingLost, NeverRead
<1>21. ItemsDecided'
  <2>1. FewerItems
    BY <1>1, <1>6, <1>7 DEF FewerItems, RowsDecided, SameDecision, StoresMove
  <2>. QED BY <2>1, ItemsStay
<1>22. CachesKnow'
  BY <1>1, <1>7 DEF NothingLost, CachesKnow, CachesHave
<1>. QED BY <1>6, <1>16, <1>17, <1>19, <1>20, <1>21, <1>22 DEF NothingLost

\* A hash is taken from what was read, or was just written.
LEMMA TakeHashLosesNothing ==
  ASSUME Alone, LocalParts, NothingLost, NEW c \in Procs, SyncRow(c)
  PROVE  NothingLost'
<1>1. Syncing(c) /\ run[c].at # NULL /\ UNCHANGED local
  BY DEF SyncRow, MergePush, TakeHash
<1>2. InOrder(c)
  BY <1>1 DEF NothingLost, SyncsInOrder
<1>3. TakeHash(c)
  BY <1>1, <1>2 DEF SyncRow, MergePush, InOrder
<1>. PICK at, p, hash : /\ at = run[c].at /\ p = at.pk[1]
                        /\ hash = file[at.pk[1]].mtime
  OBVIOUS
<1>. PICK last : last = [rev |-> at.rev, hash |-> hash, base |-> at.base]
  OBVIOUS
<1>4. /\ UNCHANGED <<rows, store, file, clock, next_pk, upstream, fetch, pushed,
                     found, matches, theirs, late>>
  BY <1>1, <1>3 DEF TakeHash, db, local, cache, history
<1>5. /\ run'[c] = [run[c] EXCEPT !.at = NULL, !.done = run[c].done \cup {at.pk},
                                  !.last_sync =
                                    [run[c].last_sync EXCEPT ![p] = last]]
      /\ run[c] \in SyncRun
  <2>1. run' = [run EXCEPT ![c].at = NULL, ![c].done = @ \cup {at.pk},
                           ![c].last_sync[p] = last]
    BY <1>3 DEF TakeHash
  <2>. QED BY <1>1, <2>1, SyncingRun DEF LocalParts, Parts, RunInv, SyncRun
<1>6. /\ \A d \in Procs : d = c
      /\ run'[c].todo = run[c].todo /\ run'[c].at = NULL
      /\ run'[c].last_sync = [run[c].last_sync EXCEPT ![p] = last]
      /\ run'[c].op = run[c].op
  BY <1>5 DEF SyncRun, Alone, OneProcess
<1>7. p \in Paths /\ at.pk \in Pk /\ at \in At
  BY <1>1, <1>5 DEF SyncRun, At, Pk
<1>8. run'[c] # NULL
  <2>. PICK h, done, lasts : /\ h = run[c] /\ done = run[c].done \cup {at.pk}
                             /\ lasts = [run[c].last_sync EXCEPT ![p] = last]
    OBVIOUS
  <2>1. last \in LastSync
    BY <1>7, LocalTyped DEF At, LastSync
  <2>2. h \in SyncRun /\ done \subseteq Pk /\ lasts \in [Paths -> LastSync]
    BY <1>5, <1>7, <2>1 DEF SyncRun
  <2>3. [h EXCEPT !.at = NULL, !.done = done, !.last_sync = lasts] \in SyncRun
    BY ONLY <2>2 DEF SyncRun
  <2>. QED BY <1>5, <2>3, NoNullAssumption
<1>9. Syncing(c)'
  BY <1>1, <1>6, <1>8 DEF Syncing, Idle
<1>10. /\ run'[c].last_sync[p].hash = file[p].mtime
       /\ \A q \in Paths \ {p} :
            run'[c].last_sync[q] = run[c].last_sync[q]
  <2>. PICK lasts : lasts = run[c].last_sync
    OBVIOUS
  <2>1. lasts \in [Paths -> LastSync] /\ last.hash = file[p].mtime
    BY <1>5 DEF SyncRun
  <2>. QED BY <1>6, <1>7, <2>1
<1>11. /\ run'[c].at = NULL /\ run'[c].todo = run[c].todo
       /\ \A d \in Procs : d = c
  BY <1>6
<1>12. \A q : ToBePushed(c, q)' <=> ToBePushed(c, q)
  BY <1>1, <1>4, <1>6, <1>9 DEF ToBePushed
<1>13. RowsNumbered' /\ StoresExact'
  BY <1>4 DEF NothingLost, RowsNumbered, StoresExact
<1>14. Timed'
  BY <1>1, <1>4, <1>7, <1>10, <1>11 DEF NothingLost, Timed
<1>15. NeverRead'
  <2>1. theirs \subseteq Paths
    BY LocalTyped
  <2>2. p \in theirs => file[p].mtime # upstream[p].mtime
    BY <1>1 DEF NothingLost, NeverRead
  <2>. QED BY <1>1, <1>4, <1>10, <1>11, <2>1, <2>2
           DEF NothingLost, NeverRead
<1>16. FilesAlike'
  BY <1>4, <1>12, <1>11
  DEF NothingLost, FilesAlike, OverTaken, Ahead, Decided
<1>17. SyncsInOrder'
  BY <1>1, <1>2, <1>4, <1>6, <1>9 DEF SyncsInOrder, InOrder
<1>18. ItemsDecided'
  <2>1. FewerItems
    BY <1>1, <1>4, <1>11
    DEF FewerItems, NoNewItems, RowsDecided, SameDecision, StoresMove
  <2>. QED BY <2>1, ItemsStay
<1>19. CachesKnow'
  BY <1>4 DEF NothingLost, CachesKnow, CachesHave
<1>. QED BY <1>13, <1>14, <1>15, <1>16, <1>17, <1>18, <1>19 DEF NothingLost

\* Upstream only a file that is later is replaced.
LEMMA PushUpstreamLosesNothing ==
  ASSUME Alone, LocalParts, NothingLost, NEW c \in Procs, NEW p \in Paths,
         PushUpstream(c, p)
  PROVE  NothingLost'
<1>. DEFINE f2 == Copied(file[p], upstream[p])
<1>1. /\ UNCHANGED <<rows, store, file, run, clock, next_pk, fetch, found, matches>>
      /\ p \in ToPush(c)
      /\ upstream' = [upstream EXCEPT ![p] = f2]
      /\ pushed' = [pushed EXCEPT ![c] = @ \cup {p}]
      /\ IF upstream' = upstream THEN UNCHANGED <<theirs, late>>
         ELSE theirs' = theirs \ {p} /\ late' = late \ {p}
  BY DEF PushUpstream, vars, cache
<1>2. /\ Syncing(c) /\ run[c].at = NULL /\ run[c].todo = {} /\ p \notin pushed[c]
      /\ run[c].op.update # "pootle" /\ InOrder(c)
      /\ \A d \in Procs : d = c
  BY <1>1 DEF ToPush, NothingLost, SyncsInOrder, Alone, OneProcess
<1>3. /\ upstream \in [Paths -> File] /\ pushed[c] \subseteq Paths
      /\ pushed \in [Procs -> SUBSET Paths]
      /\ theirs \subseteq Paths
  BY LocalTyped DEF LocalParts, UpstreamInv, PushedInv
<1>4. /\ upstream'[p] = f2 /\ \A q \in Paths \ {p} : upstream'[q] = upstream[q]
      /\ pushed'[c] = pushed[c] \cup {p}
      /\ f2 \in {file[p], upstream[p]}
  BY <1>1, <1>3 DEF Copied
<1>5. /\ theirs' \subseteq theirs /\ theirs' \ late' \subseteq theirs \ late
      /\ \A q \in Paths \ {p} : (q \in late' <=> q \in late)
      /\ p \in theirs' => /\ upstream'[p] = upstream[p]
                          /\ (p \in late' <=> p \in late)
  BY <1>1
<1>6. \A q \in theirs' : upstream'[q] = upstream[q] /\ (q \in late' <=> q \in late)
  BY <1>3, <1>4, <1>5
<1>7. \A d \in Procs : Syncing(d)' <=> Syncing(d)
  BY <1>1 DEF Syncing, Idle
<1>8. \A q \in Paths \ {p} : ToBePushed(c, q)' <=> ToBePushed(c, q)
  BY <1>1, <1>4, <1>7 DEF ToBePushed
<1>9. RowsNumbered' /\ StoresExact'
  BY <1>1 DEF NothingLost, RowsNumbered, StoresExact
<1>10. Timed'
  BY <1>1, <1>3, <1>4, <1>5, <1>6, <1>7 DEF NothingLost, Timed
<1>11. NeverRead'
  BY <1>1, <1>5, <1>6, <1>7 DEF NothingLost, NeverRead
<1>12. SyncsInOrder'
  BY <1>1, <1>2, <1>7 DEF SyncsInOrder, InOrder
<1>13. ItemsDecided'
  BY <1>1, <1>5, ItemsAsBefore, ItemsStay
<1>14. CachesKnow'
  BY <1>1, <1>5 DEF NothingLost, CachesKnow, CachesHave
<1>15. p \in theirs' \ late' => file[p] = upstream[p]
  <2>1. SUFFICES ASSUME p \in theirs', Ahead(p)
                 PROVE  FALSE
    BY <1>5 DEF NothingLost, FilesAlike
  <2>2. file[p].mtime # NULL /\ upstream[p].mtime < file[p].mtime
        /\ upstream[p].mtime # NULL
        /\ file[p].mtime \in Nat /\ upstream[p].mtime \in Nat
    BY <1>5, <2>1, LocalTyped DEF Ahead, NothingLost, Timed
  <2>3. f2 = file[p]
    BY <2>2 DEF Copied
  <2>. QED BY <1>4, <1>5, <2>1, <2>2, <2>3
<1>16. p \in theirs' \cap late' =>
         file[p].mtime # upstream[p].mtime
         /\ (file[p].mtime = NULL \/ file[p].mtime < upstream[p].mtime)
  <2>1. SUFFICES ASSUME p \in theirs', OverTaken(p), file[p].mtime # NULL
                 PROVE  file[p].mtime # upstream[p].mtime
                        /\ file[p].mtime < upstream[p].mtime
    BY <1>5 DEF NothingLost, FilesAlike, OverTaken
  <2>2. file[p].mtime \in Nat /\ upstream[p].mtime \in Nat
        /\ file[p].mtime # upstream[p].mtime
    BY <1>5, <2>1, LocalTyped DEF OverTaken, NothingLost, Timed
  <2>3. file[p].mtime > upstream[p].mtime => f2 = file[p]
    BY DEF Copied
  <2>4. f2 # file[p]
    BY <1>4, <1>5, <2>1, <2>2
  <2>. QED BY ONLY <2>2, <2>3, <2>4
<1>17. FilesAlike'
  <2>1. ASSUME NEW q \in theirs' \ late'
        PROVE  file'[q] = upstream'[q] \/ Ahead(q)'
    <3>1. CASE q = p
      BY <1>1, <1>5, <1>15, <2>1, <3>1
    <3>2. CASE q # p
      <4>1. q \in theirs \ late /\ q \in Paths /\ upstream'[q] = upstream[q]
        BY <1>3, <1>5, <1>6, <2>1, <3>2
      <4>2. file[q] = upstream[q] \/ Ahead(q)
        BY <4>1 DEF NothingLost, FilesAlike
      <4>3. Ahead(q) => Ahead(q)'
        BY <1>1, <1>2, <1>8, <3>2, <4>1 DEF Ahead, Decided
      <4>. QED BY <1>1, <4>1, <4>2, <4>3
    <3>. QED BY <3>1, <3>2
  <2>2. ASSUME NEW q \in theirs' \cap late'
        PROVE  OverTaken(q)'
    <3>1. CASE q = p
      BY <1>1, <1>6, <1>16, <2>2, <3>1 DEF OverTaken
    <3>2. CASE q # p
      <4>1. q \in theirs \cap late /\ q \in Paths /\ upstream'[q] = upstream[q]
        BY <1>3, <1>5, <1>6, <2>2, <3>2
      <4>2. OverTaken(q)
        BY <4>1 DEF NothingLost, FilesAlike
      <4>. QED BY <1>1, <1>2, <1>8, <3>2, <4>1, <4>2 DEF OverTaken
    <3>. QED BY <3>1, <3>2
  <2>. QED BY <2>1, <2>2 DEF FilesAlike
<1>. QED BY <1>9, <1>10, <1>11, <1>12, <1>13, <1>14, <1>17 DEF NothingLost

\* A sync ends when it has written upstream what it is to.
LEMMA FinishSyncLosesNothing ==
  ASSUME Alone, LocalParts, NothingLost, NEW c \in Procs, FinishSync(c)
  PROVE  NothingLost'
<1>. DEFINE ended(r) == IF r.pk \in run[c].done
                        THEN OnSync(r, run[c].last_sync[r.path]) ELSE r
<1>1. /\ UNCHANGED <<store, file, clock, next_pk, upstream, fetch, found, theirs,
                     late>>
      /\ rows' = {ended(r) : r \in rows} /\ ToPush(c) = {}
      /\ Syncing(c) /\ run[c].at = NULL /\ run[c].todo = {}
      /\ run' = [run EXCEPT ![c] = NULL] /\ pushed' = [pushed EXCEPT ![c] = {}]
      /\ matches' = matches \/ matches' = NULL
  BY DEF FinishSync, EndSync, history, NewTokens
<1>2. \A d \in Procs : d = c /\ ~Syncing(d)' /\ pushed'[d] = {}
  BY <1>1 DEF Alone, OneProcess, Syncing, Idle, LocalParts, Parts, RunInv, PushedInv
<1>3. \A q \in Paths : ~ToBePushed(c, q)
  BY <1>1 DEF ToPush, ToBePushed
<1>4. ASSUME NEW r \in rows
      PROVE  /\ ended(r).pk = r.pk /\ ended(r).path = r.path
             /\ ended(r).staged_for_merge => r.staged_for_merge
             /\ \/ ended(r).last_sync_hash = r.last_sync_hash
                \/ ended(r).last_sync_hash = run[c].last_sync[r.path].hash
  <2>. PICK last, no : last = run[c].last_sync[r.path] /\ no = FALSE
    OBVIOUS
  <2>1. ended(r) = r \/ ended(r) =
          [r EXCEPT !.last_sync_revision = last.rev, !.last_sync_hash = last.hash,
                    !.base = last.base, !.resolve_conflict = "none",
                    !.staged_for_merge = no]
    BY DEF OnSync
  <2>2. r \in Row /\ no = FALSE /\ last = run[c].last_sync[r.path]
    BY LocalTyped
  <2>. HIDE DEF ended
  <2>3. /\ ended(r).pk = r.pk /\ ended(r).path = r.path
        /\ ended(r).staged_for_merge \in {r.staged_for_merge, no}
        /\ ended(r).last_sync_hash \in {r.last_sync_hash, last.hash}
    BY ONLY <2>1, <2>2 DEF Row
  <2>. QED BY <2>2, <2>3
<1>. HIDE DEF ended
<1>5. \A t \in rows' : \E r \in rows : t = ended(r)
  BY <1>1
<1>6. theirs \subseteq Paths
  BY LocalTyped
<1>7. RowsNumbered'
  <2>1. ASSUME NEW t \in rows', NEW u \in rows', t.pk = u.pk
        PROVE  t = u
    <3>1. PICK r \in rows : t = ended(r)
      BY <1>5
    <3>2. PICK q \in rows : u = ended(q)
      BY <1>5
    <3>3. r = q
      BY <1>4, <2>1, <3>1, <3>2 DEF NothingLost, RowsNumbered, Numbered
    <3>. QED BY <3>1, <3>2, <3>3
  <2>2. ASSUME NEW t \in rows'
        PROVE  t.pk[2] \in Nat /\ ~t.staged_for_merge /\ t.pk[2] < next_pk
    <3>1. PICK r \in rows : t = ended(r)
      BY <1>5
    <3>. QED BY <1>4, <3>1 DEF NothingLost, RowsNumbered, Numbered
  <2>. QED BY <1>1, <2>1, <2>2 DEF RowsNumbered, Numbered
<1>8. Timed'
  <2>1. \A t \in rows' : Stamped(t.last_sync_hash, clock)
    BY <1>1, <1>4, <1>5, LocalTyped DEF NothingLost, Timed
  <2>. QED BY <1>1, <1>2, <2>1 DEF NothingLost, Timed
<1>9. NeverRead'
  <2>1. ASSUME NEW q \in theirs, NEW t \in rows', t.path = q
        PROVE  t.last_sync_hash # upstream[q].mtime
    <3>1. PICK r \in rows : t = ended(r)
      BY <1>5
    <3>. QED BY <1>1, <1>4, <2>1, <3>1 DEF NothingLost, NeverRead
  <2>. QED BY <1>1, <1>2, <2>1 DEF NeverRead
<1>10. StoresExact'
  BY <1>1 DEF NothingLost, StoresExact
<1>11. SyncsInOrder' /\ ItemsDecided'
  BY <1>2 DEF SyncsInOrder, ItemsDecided
<1>12. FilesAlike'
  <2>1. \A q \in theirs \ late : file[q] = upstream[q]
    BY <1>2, <1>3, <1>6 DEF NothingLost, FilesAlike, Ahead
  <2>2. \A q \in theirs \cap late :
          /\ file[q].mtime # upstream[q].mtime
          /\ file[q].mtime = NULL \/ file[q].mtime < upstream[q].mtime
    BY <1>2, <1>3, <1>6 DEF NothingLost, FilesAlike, OverTaken
  <2>. QED BY <1>1, <2>1, <2>2 DEF FilesAlike, OverTaken
<1>13. CachesKnow'
  BY <1>1 DEF NothingLost, CachesKnow, CachesHave
<1>. QED BY <1>7, <1>8, <1>9, <1>10, <1>11, <1>12, <1>13 DEF NothingLost

-----------------------------------------------------------------------------
(* Every step                                                                  *)

\* In the beginning upstream and the working copy are alike.
LEMMA InitLosesNothing == LocalInit => Keeping
<1>. SUFFICES ASSUME LocalInit
              PROVE  Keeping
  OBVIOUS
<1>1. /\ Init /\ upstream = file /\ fetch = NULL /\ pushed = [c \in Procs |-> {}]
      /\ found = NULL /\ matches = NULL
      /\ theirs = ExistingFiles(file) /\ late = {} /\ faulty = FALSE
  BY DEF LocalInit
<1>2. /\ rows = {} /\ clock = 1 /\ run = [c \in Procs |-> NULL]
      /\ file \in [Paths -> {NoFile} \cup [val : Content, mtime : {0}]]
  BY <1>1 DEF Init
<1>3. \A c \in Procs : ~Syncing(c) /\ pushed[c] = {}
  BY <1>1, <1>2 DEF Syncing, Idle
<1>4. \A p \in Paths : Stamped(file[p].mtime, clock)
  <2>1. ASSUME NEW p \in Paths
        PROVE  file[p].mtime \in {NULL, 0}
    <3>. PICK f : f = file[p]
      OBVIOUS
    <3>1. f = NoFile \/ f \in [val : Content, mtime : {0}]
      BY <1>2
    <3>2. f.mtime \in {NULL, 0}
      BY <3>1 DEF NoFile
    <3>. QED BY <3>2
  <2>. QED BY <1>2, <2>1, NullAssumption DEF Stamped
<1>5. \A p \in theirs : file[p].mtime # NULL
  BY <1>1 DEF ExistingFiles
<1>6. StoresExact
  BY <1>1, InitCovered DEF Covered
<1>7. Timed
  BY <1>1, <1>2, <1>3, <1>4, <1>5 DEF Timed
<1>8. RowsNumbered /\ SyncsInOrder /\ FilesAlike /\ NeverRead /\ ItemsDecided
      /\ CachesKnow
  BY <1>1, <1>2, <1>3
  DEF RowsNumbered, Numbered, SyncsInOrder, FilesAlike, NeverRead, ItemsDecided,
      CachesKnow, CachesHave
<1>. QED BY <1>1, <1>6, <1>7, <1>8 DEF Keeping, NothingLost

\* No step loses anything, unless something fails or a command is given a glob.
LEMMA NextLosesNothing ==
  ASSUME Alone
  PROVE  LocalParts /\ LocalParts' /\ Keeping /\ [LocalNext]_LocalVars => Keeping'
<1>. SUFFICES ASSUME LocalParts, LocalParts', Keeping, [LocalNext]_LocalVars
              PROVE  Keeping'
  OBVIOUS
<1>1. CASE UNCHANGED LocalVars
  <2>1. /\ UNCHANGED <<rows, store, run, file, clock, next_pk, upstream, pushed,
                       theirs, late, fetch, found, matches>>
        /\ faulty' = faulty
    BY <1>1 DEF LocalVars, vars, local, cache, history
  <2>2. ASSUME NothingLost
        PROVE  NothingLost'
    <3>1. StoresExact' /\ ItemsDecided'
      BY <2>1, <2>2, ItemsAsBefore, ItemsStay DEF NothingLost, StoresExact
    <3>2. CachesKnow'
      BY <2>1, <2>2 DEF NothingLost, CachesKnow, CachesHave
    <3>. QED BY <2>1, <2>2, <3>1, <3>2, AllElseStays DEF NothingLost
  <2>. QED BY <2>1, <2>2 DEF Keeping
<1>2. ASSUME NEW p \in Paths, NEW u \in Units, NEW x \in Vals, Edit(p, u, x)
      PROVE  Keeping'
  <2>1. faulty' = faulty
    BY <1>2 DEF Edit, history
  <2>. QED BY <1>2, <2>1, EditLosesNothing DEF Keeping
<1>3. ASSUME NEW p \in Paths, NEW f \in File, ChangeUpstream(p, f),
             f = NoFile \/ f.mtime = clock
      PROVE  Keeping'
  <2>1. faulty' = faulty
    BY <1>3 DEF ChangeUpstream
  <2>. QED BY <1>3, <2>1, ChangeUpstreamLosesNothing DEF Keeping
<1>4. CASE BeginFetch \/ EndFetch \/ Expire
  <2>1. faulty' = faulty
    BY <1>4 DEF BeginFetch, EndFetch, Expire, history
  <2>. QED BY <1>4, <2>1, FetchLosesNothing DEF Keeping
<1>5. ASSUME NEW p \in Paths, FetchFile(p)
      PROVE  Keeping'
  <2>1. faulty' = faulty
    BY <1>5 DEF FetchFile
  <2>. QED BY <1>5, <2>1, FetchFileLosesNothing DEF Keeping
<1>6. CASE FailFetch
  BY <1>6 DEF FailFetch, Keeping
<1>7. ASSUME NEW c \in Procs, NEW glob \in Globs, ShowState(c, glob)
      PROVE  Keeping'
  <2>1. faulty' = (faulty \/ glob # Paths)
    BY <1>7 DEF ShowState
  <2>2. CASE glob = Paths
    BY <1>7, <2>1, <2>2, ShowStateLosesNothing DEF Keeping
  <2>3. CASE glob # Paths
    BY <2>1, <2>3 DEF Keeping
  <2>. QED BY <2>2, <2>3
<1>8. ASSUME NEW c \in Procs, NEW glob \in Globs, NEW op \in Commands,
             BeginCommand(c, op, glob)
      PROVE  Keeping'
  <2>1. faulty' = (faulty \/ glob # Paths)
    BY <1>8 DEF BeginCommand
  <2>2. CASE glob = Paths
    BY <1>8, <2>1, <2>2, BeginCommandLosesNothing DEF Keeping
  <2>3. CASE glob # Paths
    BY <2>1, <2>3 DEF Keeping
  <2>. QED BY <2>2, <2>3
<1>9. ASSUME NEW c \in Procs, AbortSync(c)
      PROVE  Keeping'
  BY <1>9 DEF AbortSync, Keeping
<1>10. ASSUME NEW c \in Procs, Stage(c)
       PROVE  Keeping'
  <2>1. faulty' = faulty
    BY <1>10 DEF Stage, history
  <2>. QED BY <1>10, <2>1, StageLosesNothing DEF Keeping
<1>11. ASSUME NEW c \in Procs, NEW i, SyncItem(c, i)
       PROVE  Keeping'
  <2>1. faulty' = faulty
    BY <1>11 DEF SyncItem
  <2>2. NothingLost => NothingLost'
    BY <1>11, SkipItemLosesNothing, RmItemLosesNothing, PullItemLosesNothing,
       PushItemLosesNothing
    DEF SyncItem
  <2>. QED BY <2>1, <2>2 DEF Keeping
<1>12. ASSUME NEW c \in Procs, SyncRow(c)
       PROVE  Keeping'
  <2>1. faulty' = faulty
    BY <1>12 DEF SyncRow, local, history
  <2>. QED BY <1>12, <2>1, TakeHashLosesNothing DEF Keeping
<1>13. ASSUME NEW c \in Procs, NEW p \in Paths, PushUpstream(c, p)
       PROVE  Keeping'
  <2>1. faulty' = faulty
    BY <1>13 DEF PushUpstream
  <2>. QED BY <1>13, <2>1, PushUpstreamLosesNothing DEF Keeping
<1>14. ASSUME NEW c \in Procs, FinishSync(c)
       PROVE  Keeping'
  <2>1. faulty' = faulty
    BY <1>14 DEF FinishSync, history
  <2>. QED BY <1>14, <2>1, FinishSyncLosesNothing DEF Keeping
<1>15. \A x \in Content :
         /\ [val |-> x, mtime |-> clock] \in File
         /\ [val |-> x, mtime |-> clock].mtime = clock
  BY LocalTyped DEF File
<1>16. NoFile \in File
  BY DEF NoFile, File
<1>. QED
  <2>1. CASE \E p \in Paths :
               \/ \E u \in Units, x \in Vals : Edit(p, u, x)
               \/ \E x \in Content :
                    ChangeUpstream(p, [val |-> x, mtime |-> clock])
               \/ ChangeUpstream(p, NoFile)
    <3>1. PICK p \in Paths :
               \/ \E u \in Units, x \in Vals : Edit(p, u, x)
               \/ \E x \in Content :
                    ChangeUpstream(p, [val |-> x, mtime |-> clock])
               \/ ChangeUpstream(p, NoFile)
      BY <2>1
    <3>2. CASE \E u \in Units, x \in Vals : Edit(p, u, x)
      BY <1>2, <3>2
    <3>3. CASE \E x \in Content : ChangeUpstream(p, [val |-> x, mtime |-> clock])
      <4>1. PICK x \in Content : ChangeUpstream(p, [val |-> x, mtime |-> clock])
        BY <3>3
      <4>. PICK f : f = [val |-> x, mtime |-> clock]
        OBVIOUS
      <4>2. f \in File /\ ChangeUpstream(p, f) /\ f.mtime = clock
        BY <1>15, <4>1
      <4>. QED BY <1>3, <4>2
    <3>4. CASE ChangeUpstream(p, NoFile)
      BY <1>3, <1>16, <3>4
    <3>. QED BY <3>1, <3>2, <3>3, <3>4
  <2>2. CASE \E c \in Procs : Running(c)
    BY <2>2, <1>10, <1>11, <1>12, <1>13, <1>14 DEF Running
  <2>3. CASE Fetching
    BY <2>3, <1>4, <1>5 DEF Fetching
  <2>4. CASE \E c \in Procs : \/ \E glob \in Globs :
                                   \/ ShowState(c, glob)
                                   \/ \E op \in Commands :
                                        BeginCommand(c, op, glob)
                              \/ AbortSync(c)
    BY <2>4, <1>7, <1>8, <1>9
  <2>. QED BY <1>1, <1>4, <1>6, <2>1, <2>2, <2>3, <2>4 DEF LocalNext

\* What others have written upstream is not replaced or deleted before a sync
\* has read it or removed it as staged, unless someone has decided for Pootle or
\* it was written after the last fetch; when one process runs commands, none of
\* them merges and fetches keep out of syncs.
THEOREM UpstreamIsKept ==
  ASSUME OneProcess, NoMerges, "fetch_in_sync" \notin Hazards
  PROVE  LocalSpec => UpstreamKept
<1>. USE DEF LocalVars
<1>1. Alone
  BY DEF Alone
<1>2. LocalInit => LocalParts /\ Keeping
  BY InitLocalParts, InitLosesNothing
<1>3. LocalParts /\ Keeping /\ [LocalNext]_LocalVars => (LocalParts /\ Keeping)'
  BY <1>1, NextLocalParts, NextLosesNothing
<1>4. LocalParts /\ Keeping /\ [LocalNext]_LocalVars =>
        [\A c \in Procs, p \in theirs \ late :
           PushUpstream(c, p) /\ ~Decided(p) /\ ~faulty =>
             upstream'[p] = upstream[p]]_LocalVars
  <2>. SUFFICES ASSUME LocalParts, Keeping, NEW c \in Procs,
                       NEW p \in theirs \ late,
                       PushUpstream(c, p), ~Decided(p), ~faulty
                PROVE  upstream'[p] = upstream[p]
    OBVIOUS
  <2>1. NothingLost /\ p \in Paths
    BY LocalTyped DEF Keeping
  <2>2. file[p] = upstream[p]
    BY <2>1 DEF NothingLost, FilesAlike, Ahead
  <2>3. upstream' = [upstream EXCEPT ![p] = Copied(file[p], upstream[p])]
    BY DEF PushUpstream
  <2>4. Copied(file[p], upstream[p]) = upstream[p]
    BY <2>2 DEF Copied
  <2>. QED BY <2>1, <2>3, <2>4 DEF LocalParts, UpstreamInv
<1>. QED BY <1>2, <1>3, <1>4, PTL DEF LocalSpec, UpstreamKept
=============================================================================
