# Pootle in TLA+

A verification project for Pootle, the online translation tool: TLA+ modules
that model parts of its code, TLC configurations that check them on small
instances, and theorems about them that TLAPS proves. Paths are relative to the
root of the repository; `pootle_fs/…`, `pootle_store/…`, `accounts/…` and so on
stand for `pootle/apps/pootle_fs/…` etc.

What is modelled:

* **Pootle FS**: the commands that keep the translations in the database and the
  translation files of a project in step, and the exchange of these files with an
  upstream directory;
* **offline translation**: the three-way merge by which a Store takes over a file,
  as it happens between the editor and the files that translators download and
  upload;
* **statistics**: the counts of words, checks and suggestions that requests and
  commands keep up to date, and the pages that are cached;
* **held back signals**: the contexts in which a request collects what has to be
  counted, in the threads of a process;
* **the purge of a user**: undoing what one user did while others go on.

## 1. Inventory of the system

| Component | State it keeps | Operations | What is hard, and what makes it correct |
|---|---|---|---|
| Pootle FS, commands (`pootle_fs/plugin.py`) | a `StoreFS` row for each tracked pair of Store and file | `add`, `resolve`, `rm`, `unstage` stage; `sync` removes, merges, pulls, pushes and marks the rows as synced | commands act on a state taken earlier, nothing locks a project, files are written in a transaction that may roll back. No change on either side may be lost or go unnoticed |
| Pootle FS, state (`pootle_fs/state.py`, `resources.py`) | none, computed | fourteen states from rows, Stores and files | fourteen separate queries must cover every situation exactly |
| Pootle FS, files (`pootle_fs/files.py`) | the hash of a file | `pull`, `push`, `delete`, `on_sync` | decides again what the state has decided, from other data |
| Pootle FS, upstream (`pootle_fs/localfs.py`, `finder.py`) | the upstream directory, `fs_hash`, caches of found files | `fetch`, `push` | both copy with purge; others write upstream meanwhile; what was found is cached. Nothing upstream is replaced unread, every change gets into Pootle |
| Pootle FS, paths (`pootle_fs/matcher.py`, `finder.py`) | none | file path to Store path and back | text processing |
| Store update (`pootle_store/updater.py`, `diff.py`, `versioned.py`) | none | three-way merge of a file into a Store | the base is rebuilt from submissions; conflicts become suggestions; which revision each unit gets |
| File update (`pootle_store/syncer.py`) | `Store.last_sync_revision` | writes the changed units of a Store to a file | which units count as changed |
| Store, Unit (`pootle_store/models.py`, `receivers.py`) | units, sources, change records, submissions | edit, obsolete, resurrect | chains of signals, whole rows written back |
| Suggestions (`pootle_store/utils.py`) | pending, accepted, rejected | add, accept, reject | two reviewers at once |
| Revision counter (`pootle/core/models/revision.py`) | one number in Redis | `incr`, `get`, `set` | outside the transactions that use it |
| Statistics (`pootle_data`) | totals of Stores and translation projects | aggregation on signals | signals held back or lost, requests that overlap. When nothing goes on the totals are a recount |
| Cache revisions (`pootle_revision`, `pootle/core/decorators.py`) | a token for each directory | renewal for a directory and its parents | a page cached under a token that was renewed meanwhile; a change that renews none |
| Quality checks (`pootle_checks`, `pootle_store/models.py`) | checks on record for each unit, muted or not | edit, update, mute, `calculate_checks` | four writers. What is on record belongs to the present target |
| Deferred and bulk updates (`pootle/core/contextmanagers.py`, `bulk.py`, `batch.py`) | replaced signal methods, queues of objects | nested context managers, loops over batches | threads share the signals. Nothing is lost or done twice, the signals are as before |
| Accounts (`accounts/utils.py`, `accounts/models.py`) | users; who did what is in submissions, change records, suggestions | purge, merge, delete | eight steps over many transactions beside the requests of others; stopped half-way and run again |
| Offline translation (`import_export`) | none; a downloaded file carries a revision | download, upload | files come back late, more than once, and from several translators; an upload may only do what its translator did |
| Editor and other views (`pootle_store/views.py`, `forms.py`) | none | submit, comment, suggest, accept, reject, mute | a request works on a unit it loaded earlier |
| Scores, logs, word counts, virtual folders, terminology | derived data | recomputed | derived from what is above |
| Projects, languages, permissions, comments, static pages, search | database records | CRUD, HTTP | little state of their own |

How they interact: an edit (view → `Unit.save`) draws a revision, writes
submissions and the change record and sends `update_data`, which recomputes
StoreData; when that is saved the translation project is summed up and the tokens of
its directories are renewed. In a request these signals are held back and
sent once. `pootle fs` commands run in processes of their own, read rows, Stores and
files into a *state*, and act on it. `sync` calls the Store update to pull and the
file update to push, and marks the row with the revision of the Store and the
hash of the file. The next state compares these with what is there. `purge_user`
goes by the submissions and change records that edits have left.

`PROJECT.json` lists every component with its status, and under `hazards` the
places in the code where something can go wrong that a test would hardly reach.

## 2. Modules

| Module | Models | Its state and actions |
|---|---|---|
| `FSState` | `pootle_fs/abstracts.py`, `resources.py`, `state.py`, `pootle/core/state.py` | types of Store, file and row; the operator of a state has the name of its property (`FsAhead` for `state_fs_ahead`); `State(v)` is the state object |
| `FSFile` | `pootle_fs/files.py`, `pootle_store/updater.py`, `pootle_store/syncer.py` | pure operators: `Pull` and `UpdateStore` give the outcome of an operation, `PushSkipped` and `PushContent` that of a push |
| `PootleFS` | `pootle_fs/plugin.py` and what may happen beside it | a specification; uses the two above |
| `LocalFS` | `pootle_fs/localfs.py`, `finder.py`, `plugin.py` | a specification that extends `PootleFS` with the upstream directory and the caches |
| `StoreUnits` | `pootle_store/models.py`, `receivers.py`, `utils.py`, `syncer.py`, `versioned.py` | pure operators: what a save does to a unit and leaves as submissions, the file of a Store, the Store as it was (`AtRevision`) |
| `StoreUpdate` | `pootle_store/updater.py`, `diff.py` | pure operators with the names of the methods; `Update` gives the outcome of `Store.update` |
| `OfflineTranslation` | `import_export/views.py`, `utils.py`, `pootle_store/views.py`, `forms.py` | a specification; uses the two above |
| `Statistics` | `pootle_data`, `pootle_revision`, `pootle_checks`, `pootle/core/decorators.py`, `views/panels.py`, requests of `pootle_store` | a specification |
| `LivePages` | – | the abstract specification of pages that are not cached, which `Statistics` implements |
| `KeepData` | `pootle/core/contextmanagers.py`, `pootle_store/contextmanagers.py`, `pootle_translationproject/contextmanagers.py` | a specification |
| `UserPurge` | `accounts/utils.py`, requests of `pootle_store` | a specification; uses `StoreUnits` |
| `MCPootleFS`, `MCLocalFS`, `MCOffline`, `MCStatistics`, `MCKeepData`, `MCUserPurge` | – | the sets of commands, trees and symmetries of the instances; `<module>_<run>.cfg` |
| `PootleFS_proofs`, `PootleFSAlone_proofs` | – | theorems about `PootleFS`: what holds for any number of processes, and for one |
| `OfflineTranslation_proofs` | – | theorems about `OfflineTranslation` and `StoreUpdate` |
| `LocalFS_proofs` | – | theorems about `LocalFS` |
| `Statistics_proofs` | – | theorems about `Statistics`: for any number of workers, and for one |
| `KeepData_proofs` | – | theorems about `KeepData` |
| `UserPurge_proofs`, `Bounds_proofs` | – | theorems about `UserPurge`; largest elements of sets of numbers, which several proofs use |

### PootleFS

Its variables are the table of rows (`rows`),
the Stores with their units and StoreData (`store`), their pending suggestions
(`suggested`), the working copy (`file`), the revision counter (`revision`), the
clock that stamps files (`clock`), the next primary key (`next_pk`), and for each
process what the command it runs holds in memory (`run`).

* **Staging commands** are two steps, `BeginStaging` (the decorator
  `responds_to_state` takes the state before the transaction begins) and
  `EndStaging` (the transaction). `Add`, `Resolve`, `Rm` and `Unstage` are the
  bodies, with every option.
* **sync** is `BeginSync`, then one step for each item in the order of the code
  – removals, merges, pulls, pushes – then `EndSync`, which marks the rows. A merge
  has a step of its own for its push (`MergePush`); every item but a removal ends
  with `TakeHash`, because the hash is read from the file after its content.
  `SkipItem` and `Crash` are the items whose row is gone. `Fail` is a process that
  is killed: `Rollback` takes back the database, not the files, not the counter.
* **Transactions.** What a sync has overwritten is kept in `undo`. Others see the
  old version (`View`) and wait for the lock to write it (`FreeFor`,
  `Unlocked`). The lock is that of a row *and* its Store.
* **The environment** is translators (`EditUnit`), fetches (`WriteFile`,
  `RemoveFile`) and administrators (`DeleteStore`, `MakeObsolete`,
  `CreateStore`). `Hazards` says which of these may happen, and whether also in the
  middle of a sync, so that each property is checked where it holds.

### LocalFS

The environment that writes the working copy becomes a fetch (`BeginFetch`,
`FetchFile` for each file, `EndFetch` with the new `fs_hash`), and a sync ends with
`PushUpstream` for each file before `FinishSync`. Both copy what is missing or later and
delete what is not there (`Copied`). Others write `upstream` at any time. The files
found are cached under `fs_hash` (`found`), those that match and the
tracked paths under tokens (`matches`); commands act on what is cached
(`StateFor`), caches expire at any time, `--fs-path` and `--pootle-path` are a glob.
`FailFetch` and `AbortSync` are processes that are killed. Three history variables record
which upstream files nobody has read (`theirs`), which were written after the last
fetch (`late`), and whether something failed or a glob was in use (`faulty`).

### OfflineTranslation

Its variables are the committed
units (`unit`), submissions (`subs`), pending suggestions (`suggested`) and StoreData
(`data`), the revision counter (`revision`), the downloaded files (`copies`) and the
request of each worker (`tx`).

* **A request** is one transaction (`ATOMIC_REQUESTS`, `pootle/settings/20-backends.conf:15`).
  An edit is `Submit`, `Comment` or `Accept` (the unit is loaded), `SaveUnit` (a
  revision is drawn, which no rollback takes back, and the whole unit is written),
  `Aggregate` (StoreData, from the units as the transaction sees them) and `Commit`. A download
  is `Download` (the query for the Store with its StoreData) and `Export` (that for the
  units). An upload is `Upload`, `Aggregate` and `Commit`.
* **Isolation** is that of PostgreSQL by default: a query sees what is committed before it,
  and who writes a unit that another request has written waits for its commit.
* **A file** keeps what it was when it was downloaded (`orig`), which only the
  properties look at: the code has the revision and the submissions.

`FSFile` and `StoreUpdate` model the same code at two levels: `FSFile` has the targets
of a fixed set of units and the base in the row, for the interplay with files and rows;
`StoreUpdate` has the merge itself, state, comment, structure and base included.

### Statistics

The database is one function from keys to rows (`db`), so that a
request can be an overlay of the rows it wrote (`tx[w].wrote`) that others do not see
and have to wait for. Requests are submitting, suggesting, accepting, rejecting and
muting a check, obsoleting a Store, updating it; commands are `update_data` and
`calculate_checks`, in a transaction or committing each step (`Autocommit`). After the
change itself come the steps of the chain: the checks of the unit (`Checked`), the counts of the
Store (`Count`, when the signal says so), the sums of the translation project, the
tokens (`Renew`), the commit. A request may fail, an autocommit command may be killed
between two steps; `upgrade` installs other checkers. A viewer asks for a page, which is
made from the database under the token that was read before (`Put`), or found in the cache.

`Live == INSTANCE LivePages WITH …` maps the cached pages to pages that show what
the database holds at some moment between request and answer; `PagesAreLive` is the property that
`Statistics` implements it.

### KeepData

`sends` is what each signal's `send` and `connect` have been replaced with, `handlers`
which functions listen where, `stack` the contexts of each thread. A context reads the
methods signal by signal (`Save`), replaces them (`Install`), connects its
functions (`Connect`), lets the body change units, and puts back what it found (`Restore`); then
what it has heard is sent inside further contexts (`Callback`), as
the code nests them. Errors unwind the stack. The steps of the threads interleave.

### UserPurge

The record of who did what: units with their creator (`unit`), change records (`change`),
submissions (`subs`), suggestions (`suggestion`). `step` is the method of `UserPurger.purge` that is
going on, `todo` the rows that its query returned, `job` what is to be written of
the row in hand: the change record (`WriteChange`) and then the unit (`WriteUnit`), in
two transactions. Between any two steps others submit, comment, add units, suggest, accept and
reject, and the command may be killed. A state that somebody has changed since makes
`revert_units_state_changed` return None, over which the command fails: it is run again.

### Abstractions

* A path stands for a `pootle_path` and the file path it maps to. The mapping
  (matcher, finder) is text processing and left out; the `--fs-path` and
  `--pootle-path` filters are in `LocalFS` only.
* In `PootleFS` content is a function from a fixed set of units to targets, or NULL for none.
  Units added or made obsolete by an update, states and comments are left out.
* The base of a merge, which the code rebuilds from submissions
  (`pootle_store/versioned.py`), is carried in the row (`base`): the units of the
  Store at the moment whose revision the row records.
* The state is taken in one step, and a sync loads its rows one by one, where the
  code loads those of a phase together.
* An edit of `PootleFS` draws its revision and commits in one step (in `OfflineTranslation` and
  `Statistics`, it does not).
* Every write of a file gets a new time, so that hashes differ when times do.
* In `OfflineTranslation`: one Store. The order of units in it is left out; where the code
  may save a unit for its place only, the model has both outcomes (`moved`). Sources,
  locations and plural forms do not change. `Upload` reads the units in one look. Suggestions
  come from uploads, and are accepted or stay. A file is changed as a whole unit at a time.
* In `Statistics`: a page is its words and checks; last submissions and last updated units are
  left out. A directory is the translation project or the root above it. Fuzzy units, and the
  tokens that saving a project or cloning a translation project renews, are left out.
* In `KeepData`: the bulk contexts, the same mechanism with other signals, are left
  out. An id of a context is used again when nothing refers to it.
* In `UserPurge`: scores, muted checks and revisions are left out, and the counts of Stores.
  The user to be purged makes no requests while the command runs. Submissions are told apart by
  unit, field and time of the save.

### Bounds

In Pootle FS `MaxRevision`, `MaxClock` and `MaxPk` cap the counters. They limit what starts
something new – edits, fetches, Stores, failures, rows – and never what a command in
progress does, so that no bound cuts a sync short. The initial state has an
untracked project with every combination of missing and present Stores and files. Two
revisions are drawn by an update and one by an edit, so that the bounds of the runs
below leave room for: a first sync, a change on each side, a resolve, and a second
sync, which is what the states and the merge tell apart. Two targets make two versions
differ; two units are needed only where units change independently (`merge`). One path is
enough for what rows, Stores and files of one path do to each other; the theorems are for any number of paths, units and processes.
In `localfs` the clock leaves room for two writes upstream, one before and one after a fetch.

In `OfflineTranslation`, `MaxRevision` limits the requests that write: with 6, an upload with
a conflict (two revisions) and two edits, or four edits; with 7, one of each more. A
translator changes a unit of a file once; a file may be uploaded any number of times. Two targets
beside the empty one make online and offline changes differ from each other and
from what was downloaded. Two copies are needed where an upload meets what another one added
(`template`, with one target less), two units where one is added. `FewChanges` bounds `template`
further: of all files together, translators change two units. With 7 revisions a unit can be
made obsolete by one file, downloaded as such, brought back online, and made obsolete again by the other.

In `Statistics`, no request begins from `MaxRevision` or `MaxToken` on; those that have begun end. Three
tokens make a page under a token that is renewed twice; `counts` has two Stores in one
translation project, which is where two workers that wait for no unit of each other
lose a sum.

In `KeepData`, `MaxNested` is how many contexts a request opens in one another: two in one thread,
one in the other, besides those that the contexts themselves open when they end.

In `UserPurge`, three saves: one of the user's, one of somebody else before it
or after it, and one while the command runs; one suggestion. The command may run any
number of times.

## 3. Runs

A run that passes shows that its properties hold in every behaviour of its instance. Every
property of these runs has a mutant: a definition that models code, changed the way a bug
would (defined next to it and marked *Mutant*), with which TLC finds the property violated.

### Pootle FS

| Run | Instance | Properties |
|---|---|---|
| `serial` | one process, all commands with all options, every hazard but a fetch in a sync | `TypeOK`, `MergeHasWinner`, `Revisions`, `OneRowPerPath`, `SyncedUnitsAgree`, `EditNoticed` |
| `overwrite` | one process, no merges, files removed and emptied, nothing in the middle of a sync; fair | `StatesCoverRows`, `SyncSettles`, `PullKeepsEdits`, `StagedIsSynced` |
| `merge` | one process, two units, add, merge and sync | `SyncedStoresAgree`, `MergeLosesNothing` |
| `shared` | two processes on one path, rollbacks, edits in a sync | `Inv`, `EditNeverHidden` |
| `localfs` | one process, upstream written at any time, fetches and syncs that fail, caches; fair | `LocalTypeOK`, `UpstreamKept`, `UpstreamArrives` |

* `MergeHasWinner`: a row staged for merge names the winner; otherwise it would
  be in none of the fourteen states.
* `Revisions`: no Store, StoreData or row is ahead of the counter.
* `OneRowPerPath`: a path has one row. It holds for one process; two commands
  that run together break it (see below).
* `EditNoticed`: after an edit, the state has the Store as changed.
* `EditNeverHidden`: an edit that runs into a sync is not taken for synced.
* `SyncedStoresAgree`: when a row is reported as neither changed nor staged, Store
  and file have the same content. With Stores that were obsolete it holds for the units that
  `Store.resurrect` does not exempt (`SyncedUnitsAgree`).
* `StatesCoverRows`: a row is in some state unless Store and file are as they were synced,
  and never in one that pulls it and in one that pushes it. Excepted are rows that were added from
  the file system, or resolved for it, and lost their file since (see below).
* `SyncSettles`: what sync has done is done, no state takes it up again.
* `PullKeepsEdits`: a pull without conflict replaces no edit unseen.
* `MergeLosesNothing`: what a side had changed is kept or suggested.
* `StagedIsSynced`: what is staged does not stay so for ever.
* `UpstreamKept`: a push replaces no file upstream that somebody else wrote and no sync has read, unless
  the user decided so (`resolve`, `rm`). Left out are files written after the last fetch, which
  push overwrites and purges (`late`), and what follows a failure. The run has no merges.
* `UpstreamArrives`: with fetch and sync run again and again, working copy and
  upstream are the same in the end and no file that changed upstream is still to be pulled, for all that
  is cached. Left out is what follows a failure, or a command with a glob, which the run has none of.

### Offline translation

| Run | Instance | Properties |
|---|---|---|
| `upload` | one unit, two files, one worker, comments online and offline; either side may win conflicts | `TypeOK`, `VersionIsWhatWasDownloaded`, `StoreDataCountsChanges`, `OnlyOfflineChangesUploaded`, `OfflineChangesArrive`, `LoserSuggested` |
| `template` | two units, one of them new, two files, uploads that may add and obsolete units; either side may win | `OnlyOfflineChangesUploaded`, `StructureArrives` |

* `VersionIsWhatWasDownloaded`: the Store as rebuilt from the submissions is what was
  downloaded, whatever was edited and uploaded since. It holds as long as states follow from
  targets (no needs-work flag, no obsolete unit), and without comments, which leave no
  submission that it goes by.
* `StoreDataCountsChanges`: StoreData, whose revision stamps the next download, is not behind
  any submission.
* `OnlyOfflineChangesUploaded`: an upload leaves alone what its translator did not change,
  however often and late it comes. Left out is a unit that was obsolete when the file was downloaded
  and was brought back online since, where the file wins (`BroughtBack`): see "Also met while modelling".
* `OfflineChangesArrive`: what he changed arrives if nobody changed the unit online; a unit that
  is obsolete in the file becomes obsolete.
* `LoserSuggested`: if both changed the target, one is kept and the other suggested.
* `StructureArrives`: what he added arrives, what he removed becomes obsolete, but not over an
  online change if Pootle wins.

Where a comment of a file differs from the present one, an update that is called for by the comment takes
everything else along (`pootle_store/updater.py:117`, `:279`); the last properties are stated for
the uploads that this does not touch.

### Statistics and held back signals

| Run | Instance | Properties |
|---|---|---|
| `pages` | one worker, one viewer, one unit; every request, some of which fail, and `calculate_checks` in one transaction for each translation project | `TotalsExact`, `ChecksOfTarget`, `PagesFresh`, `PagesAreLive` |
| `counts` | two workers, two Stores; requests and commands that overlap, commands that commit each step and are killed | `TypeOK`, `LoneRequestHeals` |
| `keepdata` | two threads with one and two contexts in one another, errors anywhere | `TypeOK`, `NothingHeldBack`, `DoneOnce`, `SignalsRestored` |

* `TotalsExact`: when no request is going on, StoreData is what its units amount to, TPData what its
  Stores do. Not for the counts of each check of a translation project, see below.
* `ChecksOfTarget`: the checks on record for a unit are those its target fails with some
  checker, whoever of the four writers came last.
* `PagesFresh`: a page that may still be found in the cache is up to date.
* `PagesAreLive`: `Statistics` implements `LivePages`: a page shows what there was at some moment
  between request and answer.
* `LoneRequestHeals`: whatever was lost before, a request that no other overlaps leaves the counts of
  its Store right, and the sums of the translation project if it drew a revision or is `update_data`.
  `calculate_checks` and an update that changes nothing are left out: they do not count again.
* `NothingHeldBack`: when a thread is in no context, what it held back was counted, summed up and
  renewed, in this order.
* `DoneOnce`: and once, however many changes there were.
* `SignalsRestored`: no function is left connected and the signals are as they were; a function hears
  nothing of other threads.

The run `keepdata` stops where threads have *crossed* (constraint `NotCrossed`), see below.

### Purge of a user

| Run | Instance | Properties |
|---|---|---|
| `purge` | the user and one other, a unit of the file and one that is added, one suggestion, three saves; the command killed anywhere and run again | `TypeOK`, `TargetsReverted`, `CommentsReverted`, `OthersKept`, `PurgeEnds` |

* `TargetsReverted`, `CommentsReverted`: when the user is gone each target and comment is the last that
  somebody else made of it, or what it was at first. Left out are units over which the command was killed between
  its two writes, that were saved while it had them in hand, and for which a suggestion
  of the user's was accepted while it ran: all three keep what the user did.
* `OthersKept`: no step of the command deletes a target or comment that others
  submitted, but for a unit that is saved just as it is deleted.
* `PurgeEnds`: unless it is killed again and again, the user is gone in the end, though each run may fail.

### A run that finds a violation

| Run | What happens |
|---|---|
| `StateReverted` | A user translates an untranslated unit and is purged. The state that `revert_units_state_changed` works out is assigned to an object that is not saved (`accounts/utils.py:378`): the unit has no target any more and still counts as translated. `tests/models/user.py:165` says "State is be back to how it was before evil user updated." |

### Also met while modelling

No runs are made of the following; where a property of a passing run has to leave them out, it
says so above.

Pootle FS:

* Two processes that run `add` or `resolve` at once create two rows for a path
  (`pootle_fs/plugin.py:162`), after which `SyncedUnitsAgree` fails too.
* A file is touched without a change of content, a unit is edited, the conflict is merged: no unit of the
  Store changes, the revision is raised by a queryset update (`pootle_store/updater.py:305`), StoreData stays
  stale and the push leaves the file as it is. Should the file be written again, and the conflict resolved with
  `--overwrite --pootle-wins`, the state sees a conflict because it asks the units, while `FSFile.push` asks StoreData and
  returns (`pootle_fs/files.py:172`): the file keeps its content and counts as synced, where
  `docs/features/using_pootle_fs.rst:155` has "discarding all changes in the filesystem". TLC finds it after
  22 steps. After the next edit the file is replaced upstream without a decision: `UpstreamKept` does not hold
  with merges (36 steps).
* An edit between the state and the pull of a file that wins a conflict is lost (`pootle_fs/files.py:250`).
* A pull returns before it resurrects an obsolete Store when the file has the hash of the last
  sync (`pootle_fs/files.py:161`): after `add --force` and `sync` the row counts as synced and the
  Store stays obsolete (`docs/features/pootle_fs_statuses.rst:84` has the store created).
* The syncer leaves out units not later than `Store.last_sync_revision`
  (`pootle_store/syncer.py:270`), which only `Store.resurrect` sets: a Store that was once
  resurrected by a pull is pushed only in part. `SyncedUnitsAgree` carves these units out.
* The hash of a file is taken after the file was read or written (`pootle_fs/plugin.py:469`): a
  fetch between the two hides the new content from every later state. The passing runs
  have no fetch in the middle of a sync (`fetch_in_sync`).
* A row whose Store was edited and whose file is gone, resolved with `--overwrite`, is in no state
  (`pootle_fs/state.py:239`, `:269`); nor is a row added from a file that is removed before the first
  sync. `StatesCoverRows` carves both out.
* A pair removed on both sides is in the state `both_removed`, which sync does not look at: it
  stays until `rm` stages it, whatever `docs/features/pootle_fs_statuses.rst:101` says.
* What was found is cached under `fs_hash` only (`pootle_fs/finder.py:93`). A sync that pushes a new file, or
  removes one, leaves the cache as it is until a fetch changes something or a week is over: the pushed
  file is reported as removed and `add --force` decides for Pootle. The cached paths are not keyed by the
  glob either (`pootle_fs/resources.py:94`): a command sees what an earlier one with other paths has found.
* A fetch that is killed after it has copied a file does not renew `fs_hash`: the change goes
  unnoticed or is recorded as synced. The files that a failed sync wrote are pushed upstream by
  the next one, whatever its glob.

Offline translation:

* An upload whose comment is taken over because there is none online takes its target with it
  (`pootle_store/updater.py:279`): the target translated online is gone without a suggestion.
* A unit is emptied and then translated as needing work: only the first change of state is undone
  (`pootle_store/versioned.py:30`), the version has the flag, and an upload of the unchanged file clears it
  online.
* A unit that was obsolete when a file was downloaded is not in the file, but the submissions
  take it back to an old version of itself, not to none: `mark_units_obsolete`
  (`pootle_store/updater.py:367`) does not count it as added since. If it is brought back online – the
  editor takes a unit of any state and sets the state by the target (`pootle_store/views.py:659`,
  `forms.py:608`) – and the file then comes back untouched, the unit is made obsolete again where the file wins,
  as when Pootle FS pulls; an upload, where Pootle wins, spares it.
* With two workers none of the properties but the type invariant holds: `Unit.save` writes back the
  whole unit as it was loaded (`pootle_store/models.py:297`), and a download whose query for StoreData comes
  before an edit commits and that for the units after it (`import_export/views.py:50`) carries a revision that is
  older than its content. No document says what two requests at once may expect.

Statistics:

* Muting a check that is not critical changes the counts of checks of its Store and not of
  its translation project (`pootle_data/utils.py:259`).
* Workers that overlap lose counts until the next request; one of a command that was killed is not repaired by
  running `calculate_checks` again (`pootle_checks/utils.py:240`), which only counts where checks change.
* `update_data` repairs the sums of a translation project without renewing its tokens
  (`pootle_app/management/commands/update_data.py:46`): the pages stay as they were. It is not in the run `pages`.
* Two requests that accept and reject one suggestion may deadlock; muting a check may bring
  back one that an edit has just deleted. `UnitQualityCheck.update` is documented to unmute checks
  (`pootle_checks/utils.py:102`) and does not, while `Unit.update_qualitychecks` does.

Held back signals:

* `send` and `connect` are replaced on the signal, which all threads share
  (`pootle/core/contextmanagers.py:32`). Where a thread puts its methods in the place of others than
  those it read, or puts back its own over another's, signals stay suppressed or are lost for ever
  ("crossed"). `docs/server/apache-virtualhost.conf:36` has threads.
* A function that listens for Stores is connected weakly and held by nothing
  (`pootle_translationproject/contextmanagers.py:36`): when it has been collected the sums of a
  translation project are not made (`"collected"`).

Purge of a user:

* `return` without a value in `revert_units_state_changed` (`accounts/utils.py:365`) makes the caller fail with a
  TypeError; the command must be run again, and the Stores of the failed run are not counted.
* Killed between the two writes of a unit (`accounts/utils.py:280`), the command never finds the unit again: it
  keeps what the user translated. So it does when a suggestion of the user's is accepted while the command runs.
* Reviews of the user that somebody followed with another, and rejections on units without change record, stay.
  Targets that came from a file, and leave no submission, are emptied when the user had changed them. The
  state submission of whoever accepted a suggestion goes with the suggestion, suggestions of
  others go with a unit that the user created.

### Fairness

`overwrite` assumes that a command in progress goes on (weak fairness of `Step`) and that
sync is run again and again (`[]<>Idle(c) => []<>SyncingAll(c)`: as often as the process is free, a
sync of everything comes), as a cron job does (`docs/server/commands.rst:1517`). `localfs` assumes the same
of its steps, that a fetch goes on, and that one is begun whenever again and again there is something to
fetch. Nothing is assumed of translators, of who writes upstream, or of other commands. The
bounds make the environment stop in the end: that staged work is finished is claimed for a project that
comes to rest, not for one where every sync meets a new change.

`purge` assumes that the command goes on while it runs and is run again until the user is gone (weak
fairness of `Purge` and `Begin`): an administrator whose command fails runs it again. That it is not
killed for ever is a premise of `PurgeEnds`. Nothing is assumed of the others.

## 4. Proofs

The theorems hold for every value of the constants that satisfies the assumptions of the modules
(paths, units, stores and so on are sets, finite where the code takes a maximum; the bounds are
natural numbers; NULL is none of the values it stands beside), which TLC checks in every run,
and the hypotheses that the tables give. Each proof has the same form: an invariant that is
stronger than the property (which is not inductive); one lemma for each action; and lemmas on what the pure operators return.

### Pootle FS

| Theorem | Statement | Hypotheses |
|---|---|---|
| `InvHolds` | `Spec => []Inv` | |
| `TypeCorrect`, `MergesHaveWinners`, `RevisionsBelow` | `Spec => []TypeOK`, `[]MergeHasWinner`, `[]Revisions` | |
| `EditsAreNoticed` | `Spec => EditNoticed` | |
| `MergesLoseNothing` | `Spec => MergeLosesNothing` | |
| `EditsStayVisible` | `Spec => []EditNeverHidden` | no Store is deleted in the middle of a sync |
| `PathsHaveOneRow` | `Spec => []OneRowPerPath` | one process; no Store created anew under a row |
| `SyncedUnitsStayAgreed` | `Spec => []SyncedUnitsAgree` | one process; no Store created anew under a row; no fetch in the middle of a sync |
| `PullsKeepEdits` | `Spec => PullKeepsEdits` | one process; no Store created anew under a row; no edit in the middle of a sync |
| `SyncedStoresStayAgreed` | `Spec => []SyncedStoresAgree` | as for `SyncedUnitsStayAgreed`; no `rm`, no Store made obsolete |
| `StatesMissNoRow` | `Spec => []StatesCoverRows` | one process; no command merges; no Store created anew under a row, deleted or made obsolete but by `rm`; no fetch in the middle of a sync |
| `SyncsSettle` | `Spec => SyncSettles` | as for `StatesMissNoRow`; no edit in the middle of a sync |

| `LocalTypes` (`LocalFS`) | `LocalSpec => []LocalTypeOK` | |
| `UpstreamIsKept` (`LocalFS`) | `LocalSpec => UpstreamKept` | one process; no command merges; no fetch in the middle of a sync |

The first five rows are for any number of processes that interleave, fail and are rolled back; so is `LocalTypes`.

`MergeHasWinner` and `Revisions` are not inductive: `EndSync` writes the
revision a process noted earlier, `Rollback` brings back rows and Stores saved
earlier. `Inv` adds `SyncKeeps`, which says the same of what a sync in progress holds: the
revisions it is about to record are below the counter, and the rows and Stores in its
`undo` are as good as those in the database. The proof rewrites `Inv` as `Parts`, one
conjunct for each variable, with `GoodStore`, `GoodRow` and `GoodRun` for a single element.
`StoreGrows`, `RowGrows` and `RunGrows` carry
everything over a step that draws revisions. Lemmas before them say what the pure
operators preserve: an update of a Store keeps it below the counter it returns, and, of a
merge, that for each unit both sides are kept or suggested (`MergeKeeps`).
`EditsAreNoticed` follows because no row is at a revision above the counter, and an edit makes
its own revision the largest of the Store.

`Versions` is the invariant for `EditsStayVisible`. A *version* is a revision with the units that
were there at it. A version *fits* a Store if, should the Store still have that revision, it has those units.
Every row fits its Store; so do the rows and the Store in an `undo`, against each other and
against the Store as it is now; and so does each version that a sync in progress may
write to a row (`Claims`), against the Store it will find and against the one a
rollback would bring back. With a Store that is deleted and made again under a sync TLC finds a revision recorded
for other units (13 steps).

`OneRow`, for one process, is that a path has one row, also in what a rollback would restore, and that what a staging
command has found untracked still is. The hypotheses are needed: with two processes TLC finds
two rows after 5 steps, with a Store created anew under a row that has none after 6.

`Agreeing` is the invariant for `SyncedUnitsStayAgreed`. It says of each row that, if the revision and the
hash it records are those of Store and file, the two have the same units but for those that
a restored Store exempts; and the same of what a sync in progress is going to record, at each
step between the item, `TakeHash` and `EndSync`; and of what a rollback would bring back: the files that
a failed sync has written stay, and are later than any hash on record. TLC had checked it as an
invariant (418,673 states; 71,009 with two units and merges) before it was proved. With a fetch in
the middle of a sync TLC finds a violation after 8 steps, with two processes after 20.

`Unedited` is the invariant for `PullsKeepEdits`: no unit of a row that a sync is still to pull, without
conflict, is later than the revision of the row. It starts from `state_fs_ahead`, which leaves out
what has changed in Pootle, and holds on because no two items of a sync that write to Stores are of the
same row (`KindsApart`, `OnePull`).

`NothingRemoved`, that no row is staged for removal and no Store is or was obsolete, not even in what a rollback
would bring back, takes the exemption of restored Stores out of `Agreeing`: `SyncedStoresStayAgreed`.

`Covered` is the invariant for `StatesMissNoRow` and `SyncsSettle`. A row has a revision if and only if it has a
hash, and one that has, or is resolved for Pootle, has its Store. To keep that up, every item of a sync must find
the file it pulls or the Store it pushes (`Doable`), what it notes must be what is there (`Settled`), and StoreData must have the
newest revision of the units (`Exact`), also after a rollback. The proof uses `Agreeing` for the skips: a push that is
skipped finds a file. TLC had checked `Covered` with failures, edits in the
middle of a sync, emptied and removed files (97,280 states). The hypotheses are needed: a merge that finds Store and
file alike draws no revision and leaves a row with a hash and none, which is neither synced nor unsynced; and TLC finds rows in no state
when Stores are deleted or made obsolete, and with a fetch in the middle of a sync (8 steps).

`NothingLost` is the invariant for `UpstreamIsKept`. A file that somebody else wrote upstream, and that a fetch
may have seen, is in the working copy as it is upstream – or the working copy is later, which only the push of a sync makes it,
of a row that is decided for Pootle, and then that sync has still to copy it (`FilesAlike`). Nothing on record,
neither in a row nor in what a sync is going to record, says that this content was synced (`NeverRead`), so that every
state has it as changed; therefore a sync pushes over it only rows that are decided for Pootle (`ItemsDecided`), if the state
finds the file at all: the caches have it, unless a fetch is going on that will renew them (`CachesKnow`). A push that is
decided must not be skipped, which takes that StoreData has the newest revision (`StoresExact`); with merges it
has not. TLC had checked the invariant with failures, removals and expiring caches before it was proved (5,273,000 states).
The proof uses the types and the lemmas on commands of `PootleFS_proofs`: each action of `LocalFS` is one of `PootleFS` with
what happens to upstream and caches added, or leaves what is in the database alone.

### Offline translation

| Theorem | Statement | Hypotheses |
|---|---|---|
| `TypeCorrect` | `Spec => []TypeOK` | |
| `StoreDataKeepsUp` | `Spec => []StoreDataCountsChanges` | one worker |
| `TargetsReturn` | `Spec => []DownloadedTargets` | one worker |
| `VersionStaysRight` | `Spec => []VersionIsWhatWasDownloaded` | one worker, translations only |
| `OthersStayAsTheyAre`, `ChangesArrive`, `LosersAreSuggested`, `StructureIsTaken` | `Spec => OnlyOfflineChangesUploaded`, `OfflineChangesArrive`, `LoserSuggested`, `StructureArrives` | one worker, nothing marked as needing work, and uploads that add and remove units only without comments |

"Translations only" is that no unit is marked as needing work and no upload adds or removes units
(`Allow = FALSE`, `Fuzzy \subseteq {FALSE}`): the run `upload`. The last four theorems hold for it and, if
there are no comments (`Comments = {""}`), for uploads that add and remove units too: the run `template`. With the flag TLC finds a version that is
not what was downloaded (see above); what remains true then is `TargetsReturn`, the targets of the
version. The number of units, files, texts and comments is any.

`TypeInv` has, beside the types, that nothing is later than the counter. `AloneInv` says that StoreData counts what is on
record and that what the request in hand writes is later. From it, `DownloadInv`: for each file that
is out and each field, the first submission after the revision of the file has as its old value what was
downloaded, or there is none and the unit has it still; a unit that a file has was not obsolete then
(`Origin`). `PlainInv` is "translations only" of the state; `SettledInv` is what is left of it when units may become
obsolete: the state of each follows from its target.

What an upload promises is about its commit, but the update was computed steps before: `HeldInv` says that
in between nothing is committed, so that what the request has written and suggested is still what the
update returns of what is committed. It is enough, then, to look at one update, and in it at one unit
(`OneUpdated`, `MergedPasses`): `OneArrives` is the merge of a unit with translations only, with comments; `OneStays`,
`OneAdded`, `OneRemoved`, `OneMerged` and `OneRemovedDecided` are its fate when units may be added
and removed. `VersionSettled` says what the version of a unit is there: without the hypothesis on comments
an update called for by the comment of the file would have to be told from one called for by its removal.

### Statistics

| Theorem | Statement | Hypotheses |
|---|---|---|
| `TypeCorrect` | `Spec => []TypeOK` | |
| `TotalsStayExact` | `Spec => []TotalsExact` | one worker; no command that commits each step is killed |
| `ChecksStayThoseOfTarget` | `Spec => []ChecksOfTarget` | one worker |
| `PagesStayFresh` | `Spec => []PagesFresh` | one worker; commands in one transaction, without `update_data` |
| `PagesBehaveLive` | `Spec => PagesAreLive` | as before |
| `LoneRequestsHeal` | `Spec => LoneRequestHeals` | |

The hypotheses, where there are any, are the findings above, turned round: requests that overlap lose counts, a command
that is killed between two commits leaves them, `update_data` renews no token. Stores, units,
translation projects, checks and viewers are any number.

`TotalsInv` says what is right *as the request sees it*, but for the Stores that it still has to
count and the project it still has to sum up; others see nothing of that before the commit.
`RenewInv` adds that a request that has made a difference to a page has renewed its token or will,
`PagesInv` that a token tells pages apart: what is cached under the present token is the present
page, and what is about to be put under an earlier token was there when the page was
asked for. `HealInv` is for overlapping workers: of a request that is alone so far it says that the counts of
its Store are right or the Store is still to be counted; and that the sums are right, or are still to come
because a Store has changed, because it is `update_data`, or because the StoreData does not know of the revision
that the request has drawn, so that counting it will change it (`DrewOutdates`). A request that draws none
may leave the sums as wrong as they were. `PagesBehaveLive` is the refinement of `LivePages`: `Init` implies its `Init`, and each action is a
step of it or a stutter (`AskIsLive`, `AnswerIsLive`, `MakeIsLive`, `LeaveIsLive`).

### Held back signals

| Theorem | Statement |
|---|---|
| `TypeCorrect` | `Spec => []TypeOK` |
| `StructuredAlways`, `SignalsAsTheyWere` | `Spec => []Structured`, `[]SignalsRestored` |
| `ProgressingAlways`, `HeldBackIsDone`, `DoneAtMostOnce` | `Spec => []Progressing`, `[]NothingHeldBack`, `[]DoneOnce` |

For a finite set of threads, each with any contexts in one another, any interleaving of their steps
and errors anywhere. `SignalsRestored`, `NothingHeldBack` and `DoneOnce` say what holds while no two threads have
crossed (`Apart`): afterwards signals may be lost, see above.

`Structured` has two parts. `Shape` holds in any case: a context is on one stack, once; those below the
innermost are in their body; nobody is in a list of methods twice. That is what keeps a new context apart from what others
still hold on to, also when contexts end in another order than they began. While threads have not crossed there are
`Nested` and `Listening`: what a signal sends with are contexts that are in its place, each with what it
found there as the rest of the list; and the functions connected are those of contexts that have connected
and not ended, each to the signal of its own context. So the lists are empty when the stacks are. `SignalsRestored` alone is not
inductive: it says nothing of what a context in the middle of others will put back.

`Progressing` adds what is still to be done, and relates it to the stack of the thread. In the bodies of contexts
(`Changing`) everything is to be done, nothing was, and some context has heard of a change or is about to pass it on; or
there was none. After the outermost body (`Following`) there is one context, and what it has still to send is what is
missing: count, sum, renew, in this order. `Counting` is in between, for `_update_stores` of a translation project and its
bulk operations. For each thing that is sent, `PlaceIs` and `HeardIs` find the context that
it goes to from `Nested` and `Listening`. Where the function that should have heard of Stores is collected, the
sum is what stays undone: that is the exception in `NothingHeldBack`. TLC had checked both invariants on the
instance of `keepdata` before they were proved.

### Purge of a user

| Theorem | Statement |
|---|---|
| `OthersAreKept` | `Spec => OthersKept` |
| `TypeCorrect` | `Spec => []TypeOK` |
| `TargetsAreReverted`, `CommentsAreReverted` | `Spec => []TargetsReverted`, `[]CommentsReverted` |

For every number of units, users, suggestions and saves, with the command killed anywhere.
The command deletes submissions with a unit, with a suggestion, and one by one. The inductive invariant
`IInv` says that each way finds only those of the user: submissions of an accepted suggestion are
of its unit and by whoever suggested, if they are not of the state (`SubsOfSuggestions`); nobody
else has worked on a unit that is about to go, or it was saved meanwhile (`UnitsToGo`); the
rows that the two steps over submissions go through were queried for the user (`OwnRows`); and
there is a job only in the steps over units (`InHand`).
`RevertInv` follows the command through its steps: before the step for a field, a unit that the user
was the last to change is still found by the query for it; in the step, it is among the rows
left, or its job is what it goes back to; after it, the unit is as the others left it, because the user makes
no requests. `TypeInv` has what this needs of the keys, and that a submission is older than the clock.

### Only model-checked

* Liveness, which is beyond the provers: `StagedIsSynced`, `UpstreamArrives` and `PurgeEnds`.
* Uploads that add and remove units of files with comments.
* Whatever needs more than the hypotheses above: where they fail, TLC has counterexamples.

## 5. Plan

In this order:

1. Proofs: uploads that add and remove units of files with comments.
2. `StoreUpdate` shown to implement the update of `FSFile` for targets. The order of units (`diff.py`).
3. Syncs beside transactions that draw a revision and commit later, in another order.
4. Loops over batches (`batch.py`) and the bulk operations.
5. An abstract specification of synchronisation – two replicas and a common base for
   each unit – that `PootleFS` without faults implements; a history of edits, for loss over several syncs.

Not modelled, because they hold little state or are text processing, HTTP or templates: the
mapping of paths, what a check finds in a text, word counts, scores and logs (recomputed from submissions),
archives and TMX, the merge of users (six updates of whole tables), profiles and permissions, static pages,
discussion comments, the browser, search. They make up most of the code: the checks, the forms and
views, the command line and settings are long and change no state that these modules do not have.
