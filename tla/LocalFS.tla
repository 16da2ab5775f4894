-------------------------------- MODULE LocalFS --------------------------------
(***************************************************************************)
(* Pootle FS with the plugin localfs (pootle_fs/localfs.py): fetch makes   *)
(* the working copy like the directory upstream, sync makes the directory  *)
(* upstream like the working copy before it marks what it has synced, and  *)
(* what the state of a project has found in the working copy is cached     *)
(* (pootle_fs/finder.py, resources.py).                                    *)
(*                                                                         *)
(* The files found are cached under fs_hash, which a fetch renews when it  *)
(* has changed the working copy.  What of them matches the glob of the     *)
(* command, and the tracked paths that do, are cached under that, the      *)
(* token of a sync and that of the statistics; not under the glob.         *)
(***************************************************************************)
EXTENDS PootleFS

CONSTANT Globs \* the paths that match, for each glob that commands are given

\* A fetch that is going on.
Fetch == [todo : SUBSET Paths, synced : BOOLEAN]

ASSUME GlobsAssumption == Paths \in Globs /\ Globs \subseteq SUBSET Paths
ASSUME NoNullAssumption == NULL \notin Fetch /\ NULL \notin SyncRun

VARIABLES
  upstream, \* the files upstream
  fetch,    \* the fetch that is going on: the files still to do, and whether
            \*   it has changed any; NULL when there is none
  pushed,   \* the files that each sync has compared with those upstream
  hashed,   \* whether there is an fs_hash
  found,    \* the files found that are cached under it, or NULL
  matches,  \* those that match and the tracked paths, under the tokens, or NULL
  theirs,   \* (history) the files upstream that others have written and that
            \*   no sync has read or removed as staged,
  late,     \*   those of them that were written after the last fetch,
  faulty    \*   and whether something has failed or a command was given a glob

cache == <<found, matches>>
history == <<theirs, late, faulty>>
local == <<upstream, fetch, pushed, hashed, cache, history>>

-----------------------------------------------------------------------------
(* dirsync copies files that are missing or later, with their time, and      *)
(* deletes those that are not there                                          *)

Copied(source, target) ==
  IF \/ source.mtime = NULL \/ target.mtime = NULL
     \/ source.mtime > target.mtime
  THEN source ELSE target

\* Others write files upstream and remove them.
ChangeUpstream(p, f) ==
  /\ clock < MaxClock
  /\ AnySync => "upstream_in_sync" \in Hazards
  /\ upstream[p] # f
  /\ upstream' = [upstream EXCEPT ![p] = f]
  /\ theirs' = IF f = NoFile THEN theirs \ {p} ELSE theirs \cup {p}
  /\ late' = late \cup {p}
  /\ clock' = clock + 1
  /\ UNCHANGED <<rows, store, suggested, file, revision, next_pk, run,
                 fetch, pushed, hashed, cache, faulty>>

\* A fetch that has nothing to copy or delete leaves everything as it is.
CanFetch ==
  /\ AnySync => "fetch_in_sync" \in Hazards
  /\ \E p \in Paths : Copied(upstream[p], file[p]) # file[p]
BeginFetch ==
  /\ fetch = NULL /\ CanFetch
  /\ fetch' = [todo |-> Paths, synced |-> FALSE]
  /\ UNCHANGED <<vars, upstream, pushed, hashed, cache, history>>
FetchFile(p) ==
  /\ fetch # NULL /\ p \in fetch.todo
  /\ file' = [file EXCEPT ![p] = Copied(upstream[p], @)]
  /\ fetch' = [todo |-> fetch.todo \ {p}, synced |-> fetch.synced \/ file' # file]
  /\ late' = late \ {p}
  /\ UNCHANGED <<rows, store, suggested, revision, clock, next_pk, run,
                 upstream, pushed, hashed, cache, theirs, faulty>>
\* Mutant of EndFetch: fs_hash stays as it is.
EndFetchUnhashed ==
  /\ fetch # NULL /\ fetch.todo = {}
  /\ fetch' = NULL
  /\ UNCHANGED <<vars, upstream, pushed, hashed, cache, history>>
EndFetch ==
  /\ fetch # NULL /\ fetch.todo = {}
  /\ fetch' = NULL
  /\ IF fetch.synced
     THEN hashed' = TRUE /\ found' = NULL /\ matches' = NULL
     ELSE UNCHANGED <<hashed, cache>>
  /\ UNCHANGED <<vars, upstream, pushed, history>>
FailFetch ==
  /\ "failure" \in Hazards
  /\ fetch # NULL
  /\ fetch' = NULL /\ faulty' = TRUE
  /\ UNCHANGED <<vars, upstream, pushed, hashed, cache, theirs, late>>

-----------------------------------------------------------------------------
(* The state of the project for the paths of a glob                          *)

FilesFound == IF hashed /\ found # NULL THEN found ELSE ExistingFiles(file)
Matches(c, glob) ==
  IF matches # NULL THEN matches
  ELSE [found |-> FilesFound \cap glob,
        tracked |-> TrackedPaths(VisibleRows(c)) \cap glob]
\* Mutant of Cache: what was found is cached without an fs_hash, too.
CacheUnhashed(c, glob) ==
  /\ matches' = Matches(c, glob)
  /\ found' = IF matches = NULL THEN FilesFound ELSE found
Cache(c, glob) ==
  /\ matches' = Matches(c, glob)
  /\ found' = IF matches = NULL /\ hashed THEN FilesFound ELSE found

StateFor(c, glob) ==
  LET v == [View(c) EXCEPT !.found = Matches(c, glob).found,
                           !.tracked = Matches(c, glob).tracked]
      s == State(v)
  IN [k \in DOMAIN s |->
        CASE k = "fs_untracked" ->
               v.found \ (v.tracked \cup (Trackable(v) \cap glob))
          [] k \in {"pootle_untracked", "conflict_untracked"} -> s[k] \cap glob
          [] OTHER -> {pk \in s[k] : pk[1] \in glob}]

\* `pootle fs state`
ShowState(c, glob) ==
  /\ Idle(c)
  /\ Cache(c, glob)
  /\ faulty' = (faulty \/ glob # Paths)
  /\ UNCHANGED <<vars, upstream, fetch, pushed, hashed, theirs, late>>

BeginCommand(c, op, glob) ==
  /\ fetch # NULL /\ op.cmd = "sync" => "fetch_in_sync" \in Hazards
  /\ \/ StartStaging(c, op, StateFor(c, glob))
     \/ StartSync(c, op, StateFor(c, glob))
  /\ Cache(c, glob)
  /\ faulty' = (faulty \/ glob # Paths)
  /\ UNCHANGED <<upstream, fetch, pushed, hashed, theirs, late>>

\* Cached values expire and make room for others.
Expire ==
  /\ \/ found # NULL /\ found' = NULL /\ UNCHANGED matches
     \/ matches # NULL /\ matches' = NULL /\ UNCHANGED found
  /\ UNCHANGED <<vars, upstream, fetch, pushed, hashed, history>>

-----------------------------------------------------------------------------
(* The steps of the commands, and what they do to the tokens when they are   *)
(* committed                                                                 *)

NewTokens(changed) == matches' = IF changed THEN NULL ELSE matches

Edit(p, u, x) ==
  /\ EditUnit(p, u, x) /\ NewTokens(TRUE)
  /\ UNCHANGED <<upstream, fetch, pushed, hashed, found, history>>

Stage(c) ==
  /\ EndStaging(c) /\ NewTokens(rows' # rows)
  /\ UNCHANGED <<upstream, fetch, pushed, hashed, found, history>>

\* A sync that pulls or merges a file has read it, and one that removes a file
\* whose row is staged for that does what was decided.
ReadOrRemoved(c, i) ==
  /\ file[i.pk[1]] = upstream[i.pk[1]]
  /\ \/ PullItem(c, i) /\ ~PullSkipped(RowOf(i.pk), file[i.pk[1]])
     \/ RmItem(c, i) /\ RowOf(i.pk).staged_for_removal
SyncItem(c, i) ==
  /\ SkipItem(c, i) \/ RmItem(c, i) \/ PullItem(c, i) \/ PushItem(c, i)
  /\ theirs' = IF ReadOrRemoved(c, i) THEN theirs \ {i.pk[1]} ELSE theirs
  /\ UNCHANGED <<upstream, fetch, pushed, hashed, cache, late, faulty>>
SyncRow(c) ==
  /\ MergePush(c) \/ TakeHash(c)
  /\ UNCHANGED local

\* Plugin.push, unless only Pootle is updated
ToPush(c) ==
  IF Syncing(c) /\ run[c].at = NULL /\ run[c].todo = {} /\ run[c].op.update # "pootle"
  THEN Paths \ pushed[c] ELSE {}
PushUpstream(c, p) ==
  /\ p \in ToPush(c)
  /\ upstream' = [upstream EXCEPT ![p] = Copied(file[p], @)]
  /\ pushed' = [pushed EXCEPT ![c] = @ \cup {p}]
  /\ IF upstream' = upstream THEN UNCHANGED <<theirs, late>>
     ELSE theirs' = theirs \ {p} /\ late' = late \ {p}
  /\ UNCHANGED <<vars, fetch, hashed, cache, faulty>>

MadeChanges(c) == run[c].done # {} \/ \E p \in Paths : Locked(c, p)
FinishSync(c) ==
  /\ ToPush(c) = {} /\ EndSync(c) /\ NewTokens(MadeChanges(c))
  /\ pushed' = [pushed EXCEPT ![c] = {}]
  /\ UNCHANGED <<upstream, fetch, hashed, found, history>>
AbortSync(c) ==
  /\ Fail(c) \/ \E i \in ToDo(c) : Crash(c, i)
  /\ pushed' = [pushed EXCEPT ![c] = {}] /\ faulty' = TRUE
  /\ UNCHANGED <<upstream, fetch, hashed, cache, theirs, late>>

-----------------------------------------------------------------------------
LocalInit ==
  /\ Init
  /\ upstream = file /\ fetch = NULL /\ pushed = [c \in Procs |-> {}]
  /\ hashed \in BOOLEAN /\ (ExistingFiles(file) # {} => hashed)
  /\ found = NULL /\ matches = NULL
  /\ theirs = ExistingFiles(file) /\ late = {} /\ faulty = FALSE

Fetching == \/ \E p \in Paths : FetchFile(p)
            \/ EndFetch
Running(c) == \/ Stage(c) \/ SyncRow(c) \/ FinishSync(c)
              \/ \E i \in ToDo(c) : SyncItem(c, i)
              \/ \E p \in Paths : PushUpstream(c, p)
LocalNext ==
  \/ \E p \in Paths : \/ \E u \in Units, x \in Vals : Edit(p, u, x)
                      \/ \E x \in Content :
                           ChangeUpstream(p, [val |-> x, mtime |-> clock])
                      \/ ChangeUpstream(p, NoFile)
  \/ BeginFetch \/ Fetching \/ FailFetch \/ Expire
  \/ \E c \in Procs : \/ \E glob \in Globs :
                           \/ ShowState(c, glob)
                           \/ \E op \in Commands : BeginCommand(c, op, glob)
                      \/ Running(c) \/ AbortSync(c)

LocalSpec == LocalInit /\ [][LocalNext]_<<vars, local>>

\* What has started goes on, and `pootle fs fetch` and `pootle fs sync` are run
\* again and again: strong fairness of BeginFetch and of a BeginCommand.
LocalFairness ==
  /\ WF_<<vars, local>>(Fetching)
  /\ []<>(fetch = NULL /\ CanFetch) => []<>(fetch # NULL)
  /\ \A c \in Procs :
       /\ WF_<<vars, local>>(Running(c))
       /\ []<>Idle(c) => []<>SyncingAll(c)
LocalFairSpec == LocalSpec /\ LocalFairness

-----------------------------------------------------------------------------
(* Properties *)

\* Types
LocalTypeOK ==
  /\ TypeOK
  /\ upstream \in [Paths -> File]
  /\ fetch \in Fetch \cup {NULL}
  /\ pushed \in [Procs -> SUBSET Paths]
  /\ found # NULL => found \in SUBSET Paths /\ hashed
  /\ matches # NULL => matches \in [found : SUBSET Paths, tracked : SUBSET Paths]

\* What others have written upstream is not replaced or deleted before a sync
\* has read it or removed it as staged, unless someone has decided for Pootle,
\* or it was written after the last fetch.
Decided(p) == \E r \in rows : r.path = p /\ r.resolve_conflict = "pootle"
UpstreamKept ==
  [][\A c \in Procs, p \in theirs \ late :
       PushUpstream(c, p) /\ ~Decided(p) /\ ~faulty => upstream'[p] = upstream[p]]_<<vars, local>>

\* In the end the working copy is like the directory upstream, and no file that
\* was changed, or was added to Pootle, is still to be pulled, though what was
\* found is cached; unless something has failed or a glob was in use.
UpstreamArrives ==
  <>[](\/ faulty
       \/ upstream = file /\ FsAhead(Now) \cup FsStaged(Now) = {})
=============================================================================
