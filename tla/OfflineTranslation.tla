-------------------------- MODULE OfflineTranslation --------------------------
(***************************************************************************)
(* A Store is translated online, in the editor, and offline: translators   *)
(* download it to a file, change the file, and upload it later, once or    *)
(* more often (import_export/views.py, utils.py).  The file carries the    *)
(* revision that StoreData had, and the upload is a Store.update from it.  *)
(*                                                                         *)
(* A worker handles one request at a time, in one transaction of the       *)
(* database (ATOMIC_REQUESTS); the revision counter is in the cache and    *)
(* takes no part in the transaction.  A request sees what others have      *)
(* committed before each of its steps, and the units it has written are    *)
(* locked until it commits.                                                *)
(***************************************************************************)
EXTENDS StoreUpdate

CONSTANTS
  Stored,     \* the units that the Store has to begin with
  Fuzzy,      \* whether targets may be marked as needing work
  Allow,      \* whether uploads may add units and make them obsolete
  Wins,       \* the sides that may win the conflicts of an upload
  Workers,    \* the processes that handle requests
  Copies,     \* the downloads that may be made
  MaxRevision \* bound: no request writes from this revision on

ASSUME StoredAssumption == Stored \subseteq Units
ASSUME OptionsAssumption ==
  Fuzzy \subseteq BOOLEAN /\ Allow \in BOOLEAN /\ Wins \subseteq Sides
ASSUME BoundAssumption == MaxRevision \in Nat

VARIABLES
  unit,      \* the units, as committed
  subs,      \* their submissions
  suggested, \* their pending suggestions
  data,      \* the max_unit_revision of StoreData
  revision,  \* the global revision counter
  copies,    \* the downloaded files
  tx         \* the request of each worker, NULL when it has none

vars == <<unit, subs, suggested, data, revision, copies, tx>>

\* A file in the hands of a translator: its revision, what it was when it was
\* downloaded and what it is now.
Copy == [rev : Nat, orig : File, file : File]
Request ==
  [op : {"submit"}, unit : Units, target : Target, fuzzy : BOOLEAN]
  \cup [op : {"comment"}, unit : Units, comment : Comments]
  \cup [op : {"accept"}, unit : Units, suggestion : Texts, target : Texts]
  \cup [op : {"download"}, copy : Copies, rev : Nat]
  \cup [op : {"upload"}, copy : Copies, file : File, wins : Sides]
\* row: the unit as the request loaded it.  wrote, sub, add, drop, max: what it
\* has written, the units (NULL if it has not), their submissions, the
\* suggestions it made and decided, and StoreData.
Tx == [req : Request, row : Unit \cup {NULL},
       step : {"loaded", "saved", "aggregated"},
       wrote : StoreUnit,
       sub : SUBSET Submission, add : SUBSET (Units \X Texts),
       drop : SUBSET (Units \X Texts), max : Nat \cup {NULL}]

ASSUME NullAssumption ==
  NULL \notin Nat /\ NULL \notin Unit /\ NULL \notin FileUnit /\ NULL \notin Copy /\ NULL \notin Tx

Idle(w) == tx[w] = NULL
Doing(w, op, step) == ~Idle(w) /\ tx[w].req.op = op /\ tx[w].step = step
Loaded(req, row) ==
  [req |-> req, row |-> row, step |-> "loaded", wrote |-> [u \in Units |-> NULL],
   sub |-> {}, add |-> {}, drop |-> {}, max |-> NULL]
\* Units that w has to wait for, and the units as w sees them
Locked(w) ==
  {u \in Units : \E v \in Workers \ {w} : ~Idle(v) /\ tx[v].wrote[u] # NULL}
View(w) ==
  [u \in Units |-> IF tx[w].wrote[u] # NULL THEN tx[w].wrote[u] ELSE unit[u]]

-----------------------------------------------------------------------------
(* The Store has been pulled from a file, untranslated or translated. *)

Init ==
  /\ \E t \in [Stored -> Target] :
       unit = [u \in Units |->
                 IF u \in Stored
                 THEN [target |-> t[u], comment |-> "",
                       state |-> IF t[u] = "" THEN UNTRANSLATED ELSE TRANSLATED,
                       revision |-> 1, creation_revision |-> 1]
                 ELSE NULL]
  /\ subs = {} /\ suggested = {}
  /\ data = 1 /\ revision = 2
  /\ copies = [c \in Copies |-> NULL]
  /\ tx = [w \in Workers |-> NULL]

-----------------------------------------------------------------------------
(* The editor *)

LoadUnit(w, u, req) ==
  /\ Idle(w) /\ revision < MaxRevision
  /\ tx' = [tx EXCEPT ![w] = Loaded(req, unit[u])]
  /\ UNCHANGED <<unit, subs, suggested, data, revision, copies>>

\* SubmitForm: a translation.
Submit(w, u, target, fuzzy) ==
  /\ unit[u] # NULL
  /\ LoadUnit(w, u, [op |-> "submit", unit |-> u, target |-> target, fuzzy |-> fuzzy])
\* save_comment and delete_comment
Comment(w, u, comment) ==
  /\ unit[u] # NULL
  /\ LoadUnit(w, u, [op |-> "comment", unit |-> u, comment |-> comment])
\* SuggestionReviewForm, SuggestionSubmitForm: a pending suggestion is accepted,
\* as it is or with another target.
Accept(w, u, suggestion, target) ==
  /\ unit[u] # NULL /\ <<u, suggestion>> \in suggested
  /\ LoadUnit(w, u, [op |-> "accept", unit |-> u, suggestion |-> suggestion,
                     target |-> target])

\* The unit as the request leaves it.
Submitted(x, req) ==
  [x EXCEPT !.target = req.target,
            !.state = CASE req.target = "" -> UNTRANSLATED
                        [] req.target # "" /\ req.fuzzy -> FUZZY
                        [] OTHER -> TRANSLATED]
Accepted(x, req) ==
  [x EXCEPT !.target = req.target,
            !.state = IF @ = FUZZY THEN TRANSLATED ELSE @]
Edited(x, req) ==
  PreSave(x, CASE req.op = "submit" -> Submitted(x, req)
               [] req.op = "accept" -> Accepted(x, req)
               [] req.op = "comment" -> [x EXCEPT !.comment = req.comment])

\* Mutant: the save draws no revision.
SaveUnitUndrawn(w) ==
  /\ \E op \in {"submit", "comment", "accept"} : Doing(w, op, "loaded")
  /\ LET req == tx[w].req
         x == tx[w].row
         y == Edited(x, req)
     IN /\ req.unit \notin Locked(w)
        /\ tx' = [tx EXCEPT
             ![w].step = "saved", ![w].wrote[req.unit] = y,
             ![w].sub = Submissions(req.unit, x, y),
             ![w].drop = IF req.op = "accept" THEN {<<req.unit, req.suggestion>>}
                         ELSE {}]
        /\ UNCHANGED <<unit, subs, suggested, data, revision, copies>>

\* Unit.save draws a revision if the unit changed, and writes all of the unit.
SaveUnit(w) ==
  /\ \E op \in {"submit", "comment", "accept"} : Doing(w, op, "loaded")
  /\ LET req == tx[w].req
         x == tx[w].row
         rev == IF Updated(x, Edited(x, req)) THEN revision + 1 ELSE revision
         y == [Edited(x, req) EXCEPT
                 !.revision = IF rev > revision THEN rev ELSE @]
     IN /\ req.unit \notin Locked(w)
        /\ revision' = rev
        /\ tx' = [tx EXCEPT ![w] =
             [@ EXCEPT !.step = "saved", !.wrote[req.unit] = y,
                       !.sub = Submissions(req.unit, x, y),
                       !.drop = IF req.op = "accept" THEN {<<req.unit, req.suggestion>>}
                                ELSE {}]]
        /\ UNCHANGED <<unit, subs, suggested, data, copies>>

-----------------------------------------------------------------------------
(* Files *)

\* export takes the Store with its StoreData, and then the units.
Download(w, c) ==
  /\ Idle(w) /\ copies[c] = NULL
  /\ \A v \in Workers : Doing(v, "download", "loaded") => tx[v].req.copy # c
  /\ tx' = [tx EXCEPT ![w] =
              Loaded([op |-> "download", copy |-> c, rev |-> data], NULL)]
  /\ UNCHANGED <<unit, subs, suggested, data, revision, copies>>
Export(w) ==
  /\ Doing(w, "download", "loaded")
  /\ copies' = [copies EXCEPT ![tx[w].req.copy] =
                  [rev |-> tx[w].req.rev, orig |-> Exported(unit),
                   file |-> Exported(unit)]]
  /\ tx' = [tx EXCEPT ![w] = NULL]
  /\ UNCHANGED <<unit, subs, suggested, data, revision>>

\* What a translator may make of a unit of a file: units go and come only
\* where an upload may take that over.
OfflineUnit ==
  {f \in FileUnit : f.fuzzy \in Fuzzy /\ (f.obsolete => Allow /\ ~f.fuzzy)}
\* Bound: a translator changes a unit of a file once.
TranslateOffline(c, u, f) ==
  /\ copies[c] # NULL /\ copies[c].file[u] = copies[c].orig[u]
  /\ f # copies[c].file[u]
  /\ NULL \in {f, copies[c].file[u]} => Allow
  /\ copies' = [copies EXCEPT ![c] = [@ EXCEPT !.file[u] = f]]
  /\ UNCHANGED <<unit, subs, suggested, data, revision, tx>>

\* import_file: the update of the Store from the file, at one look at the
\* Store.
Upload(w, c, wins) ==
  /\ Idle(w) /\ revision < MaxRevision /\ copies[c] # NULL
  /\ LET file == copies[c].file
         o == Update(unit, subs, suggested, data, file, copies[c].rev, wins,
                     Allow, revision)
         written == {u \in Units : o.rows[u] # unit[u]}
         req == [op |-> "upload", copy |-> c, file |-> file, wins |-> wins]
     IN /\ written \cap Locked(w) = {}
        /\ revision' = o.revision
        /\ \E save \in {o.saved} \cup (IF o.moved THEN {TRUE} ELSE {}) :
             tx' = [tx EXCEPT ![w] =
               [Loaded(req, NULL) EXCEPT
                  !.step = IF save THEN "saved" ELSE "aggregated",
                  !.wrote = [u \in Units |-> IF u \in written THEN o.rows[u] ELSE NULL],
                  !.sub = o.subs, !.add = o.suggested]]
  /\ UNCHANGED <<unit, subs, suggested, data, copies>>

-----------------------------------------------------------------------------
(* The end of a request *)

\* Mutant: StoreData is computed from what others have committed only.
AggregateCommitted(w) ==
  /\ ~Idle(w) /\ tx[w].step = "saved"
  /\ tx' = [tx EXCEPT ![w].step = "aggregated", ![w].max = MaxUnitRevision(unit)]
  /\ UNCHANGED <<unit, subs, suggested, data, revision, copies>>
\* update_store_after: StoreData is computed from the units as they are seen.
Aggregate(w) ==
  /\ ~Idle(w) /\ tx[w].step = "saved"
  /\ tx' = [tx EXCEPT ![w] =
              [@ EXCEPT !.step = "aggregated", !.max = MaxUnitRevision(View(w))]]
  /\ UNCHANGED <<unit, subs, suggested, data, revision, copies>>

\* The transaction commits.
Commit(w) ==
  /\ ~Idle(w) /\ tx[w].step = "aggregated"
  /\ unit' = View(w)
  /\ subs' = subs \cup tx[w].sub
  /\ suggested' = (suggested \cup tx[w].add) \ tx[w].drop
  /\ data' = IF tx[w].max = NULL THEN data ELSE tx[w].max
  /\ tx' = [tx EXCEPT ![w] = NULL]
  /\ UNCHANGED <<revision, copies>>

Edit(w) ==
  \E u \in Units :
    \/ \E target \in Target, fuzzy \in Fuzzy : Submit(w, u, target, fuzzy)
    \/ \E comment \in Comments : Comment(w, u, comment)
    \/ \E suggestion, target \in Texts : Accept(w, u, suggestion, target)

Next ==
  \/ \E w \in Workers :
       \/ Edit(w) \/ SaveUnit(w)
       \/ \E c \in Copies : Download(w, c)
       \/ Export(w)
       \/ \E c \in Copies, wins \in Wins : Upload(w, c, wins)
       \/ Aggregate(w) \/ Commit(w)
  \/ \E c \in Copies, u \in Units, f \in OfflineUnit \cup {NULL} :
       TranslateOffline(c, u, f)

Spec == Init /\ [][Next]_vars

-----------------------------------------------------------------------------
(* Properties *)

TypeOK ==
  /\ unit \in StoreUnit
  /\ subs \subseteq Submission
  /\ suggested \subseteq Units \X Texts
  /\ data \in Nat /\ revision \in Nat
  /\ copies \in [Copies -> Copy \cup {NULL}]
  /\ tx \in [Workers -> Tx \cup {NULL}]

\* The submissions take the Store back to what it was when a file was
\* downloaded, however it was edited and uploaded to since.
VersionIsWhatWasDownloaded ==
  \A c \in Copies : copies[c] # NULL =>
    LET version == AtRevision(unit, subs, copies[c].rev)
    IN \A u \in Units :
         IF copies[c].orig[u] = NULL
         THEN version[u] = NULL \/ version[u].obsolete
         ELSE /\ version[u] # NULL
              /\ [version[u] EXCEPT !.comment = ""]
                   = [copies[c].orig[u] EXCEPT !.comment = ""]

\* StoreData, whose revision a download is stamped with, is not behind any
\* change of a unit that is on record.
StoreDataCountsChanges ==
  (\A w \in Workers : Idle(w)) => \A s \in subs : s.revision <= data

Uploaded(w) == Doing(w, "upload", "aggregated") /\ tx'[w] = NULL
Original(w) == copies[tx[w].req.copy].orig
\* What the translator changed of a unit, and what the editor changed of it,
\* since the file was downloaded
ChangedOffline(w, u) == tx[w].req.file[u] # Original(w)[u]
ChangedOnline(w, u) == Exported(unit)[u] # Original(w)[u]
\* The comment of a file is compared with the present one, and one that differs
\* carries the target along.
CommentsAgree(w, u) ==
  tx[w].req.file[u] # NULL /\ unit[u] # NULL
    => tx[w].req.file[u].comment = unit[u].comment
BothHave(w, u) ==
  tx[w].req.file[u] # NULL /\ Original(w)[u] # NULL /\ Live(unit[u])

\* The file does not have the unit, for it was obsolete when the file was
\* downloaded, and it was brought back online since.
BroughtBack(w, u) ==
  /\ Original(w)[u] = NULL /\ Live(unit[u])
  /\ unit[u].creation_revision <= copies[tx[w].req.copy].rev

\* An upload leaves alone what the translator did not change: it does not
\* take a unit back to what it was when the file was downloaded.  Left out is
\* a unit brought back, where the file wins: it is made obsolete again, as if
\* the translator had removed it.
OnlyOfflineChangesUploaded ==
  [][\A w \in Workers : Uploaded(w) =>
       \A u \in Units :
         /\ ~ChangedOffline(w, u) /\ CommentsAgree(w, u)
         /\ ~(BroughtBack(w, u) /\ tx[w].req.wins = "source")
         => Exported(unit')[u] = Exported(unit)[u]]_vars

\* What the translator changed arrives, if nobody changed the unit online.
OfflineChangesArrive ==
  [][\A w \in Workers : Uploaded(w) =>
       \A u \in Units :
         BothHave(w, u) /\ CommentsAgree(w, u) /\ ChangedOffline(w, u) /\ ~ChangedOnline(w, u)
           => \/ Convert(unit'[u]) = tx[w].req.file[u]
              \/ tx[w].req.file[u].obsolete /\ ~Live(unit'[u])]_vars

\* If both changed the target, one wins and the other one is a suggestion.
LoserSuggested ==
  [][\A w \in Workers : Uploaded(w) =>
       \A u \in Units :
         LET mine == tx[w].req.file[u].target
             theirs == unit[u].target
             kept == unit'[u].target
             lost == IF tx[w].req.wins = "pootle" THEN mine ELSE theirs
         IN /\ BothHave(w, u) /\ CommentsAgree(w, u)
            /\ Original(w)[u].target \notin {mine, theirs} /\ mine # theirs
            => /\ kept = IF tx[w].req.wins = "pootle" THEN theirs ELSE mine
               /\ lost # "" => <<u, lost>> \in suggested']_vars

\* Units that the translator adds arrive.  One that he removes becomes
\* obsolete if nobody touched it online; if Pootle wins, it is kept as it is
\* if it is not what was downloaded any more.
StructureArrives ==
  [][\A w \in Workers : Uploaded(w) =>
       \A u \in Units :
         LET mine == tx[w].req.file[u]
             gone == mine = NULL \/ (mine # NULL /\ mine.obsolete)
             touched == unit[u].revision > copies[tx[w].req.copy].rev
             pootleWins == tx[w].req.wins = "pootle"
         IN /\ ~gone /\ Original(w)[u] = NULL /\ unit[u] = NULL
              => Exported(unit')[u] = mine
            /\ gone /\ Original(w)[u] # NULL /\ Live(unit[u])
              => /\ (touched /\ pootleWins) \/ ~Live(unit'[u])
                 /\ ChangedOnline(w, u) /\ pootleWins
                      => Exported(unit')[u] = Exported(unit)[u]]_vars
=============================================================================
