----------------------------- MODULE Statistics -----------------------------
(***************************************************************************)
(* The statistics of Pootle: counts of words, checks and suggestions are   *)
(* kept for each Store (StoreData, StoreChecksData) and each translation   *)
(* project (TPData, TPChecksData), counted again when a signal says that   *)
(* something changed, and shown on pages that are cached under a revision  *)
(* of their directory, a token that is renewed when a StoreData is saved.  *)
(*                                                                         *)
(* A worker handles one request at a time, in a transaction, or a command, *)
(* which may commit each of its steps.  It sees what others have committed *)
(* before each step; rows that it has written are locked until it commits. *)
(***************************************************************************)
EXTENDS Integers, FiniteSets, FiniteSetsExt

CONSTANTS
  NULL,
  Units, Stores, TPs,
  StoreOf, TPOf, \* the Store of a unit, the translation project of a Store
  ROOT,          \* a directory above the translation projects
  Texts,         \* the targets, "" is none
  Checks,        \* the names of the checks
  Critical,      \* those of the critical category
  Styles, Fails, \* the checkers, and the checks that a target fails with each
  Workers, Viewers,
  Ops,           \* the requests and commands that are made
  Autocommit,    \* those of them that run without a transaction
  MaxRevision,   \* bound: no request begins from this revision on
  MaxToken       \* bound: nor from this token of the root on

ASSUME TreeAssumption ==
  StoreOf \in [Units -> Stores] /\ TPOf \in [Stores -> TPs] /\ ROOT \notin TPs
ASSUME ChecksAssumption ==
  /\ "" \in Texts /\ Critical \subseteq Checks
  /\ Fails \in [Styles -> [Texts \ {""} -> SUBSET Checks]]

Dirs == TPs \cup {ROOT}
\* The rows of the database
Key == ({"unit", "checks", "suggestion"} \X Units) \cup ({"obsolete", "data"} \X Stores)
       \cup ({"total"} \X TPs) \cup ({"token"} \X Dirs)

VARIABLES
  db,       \* the rows, as committed
  revision, \* the global revision counter
  style,    \* the checker that is installed
  tx,       \* the request of each worker
  page,     \* the cached pages, by directory and token
  viewer    \* who asked for a page: its directory and token, the page that was
            \* made or is shown, and (history) all that there was to see since

vars == <<db, revision, style, tx, page, viewer>>

Idle(w) == tx[w].step = "idle"
Away(v) == viewer[v].step = "away"
Asked(v) == viewer[v].step = "asked"
Overlay(new, old) ==
  [k \in DOMAIN old |-> IF k \in DOMAIN new THEN new[k] ELSE old[k]]
\* The database as w sees it, and the rows it has to wait for
View(w) == Overlay(tx[w].wrote, db)
Locked(w) == UNION {DOMAIN tx[v].wrote : v \in Workers \ {w}}

-----------------------------------------------------------------------------
(* Counting *)

UnitsOf(s) == {u \in Units : StoreOf[u] = s}
StoresOf(t) == {s \in Stores : TPOf[s] = t}
WordFields == {"total", "translated", "critical", "suggestions"}
MaxOf(S) == IF S = {} THEN 0 ELSE Max(S)

SumOf(f, S) == MapThenSumSet(LAMBDA x : f[x], S)

\* What some units amount to in view d
ChecksOf(d, units) ==
  [c \in Checks |-> Cardinality({u \in units : d[<<"checks", u>>][c] = "active"})]
WordsOf(d, units) ==
  [total |-> Cardinality(units),
   translated |-> Cardinality({u \in units : d[<<"unit", u>>].text # ""}),
   critical |-> SumOf(ChecksOf(d, units), Critical),
   suggestions |-> Cardinality({u \in units : d[<<"suggestion", u>>]})]
\* StoreDataUpdater: what is counted for Store s.  An obsolete Store counts for
\* nothing.
Counted(d, s) ==
  LET live == IF d[<<"obsolete", s>>] THEN {}
              ELSE {u \in UnitsOf(s) : d[<<"unit", u>>].live}
  IN [checks |-> ChecksOf(d, live), words |-> WordsOf(d, live),
      revision |-> MaxOf({d[<<"unit", u>>].revision : u \in UnitsOf(s)})]

AddedWords(words, S) == [f \in WordFields |-> SumOf([x \in S |-> words[x][f]], S)]
Added(counts, S) ==
  [checks |-> [c \in Checks |-> SumOf([x \in S |-> counts[x].checks[c]], S)],
   words |-> AddedWords([x \in S |-> counts[x].words], S),
   revision |-> MaxOf({counts[x].revision : x \in S})]
\* TPDataUpdater: the sums for translation project t
Summed(d, t) == Added([s \in Stores |-> d[<<"data", s>>]], StoresOf(t))

\* RelatedStoresDataTool, RelatedTPsDataTool: the numbers a page has to show, of
\* the Stores that are not obsolete
Content(d, dir) ==
  LET all == Added([t \in TPs |-> d[<<"total", t>>]], TPs)
      shown(s) == IF d[<<"obsolete", s>>] THEN WordsOf(d, {}) ELSE d[<<"data", s>>].words
  IN IF dir = ROOT THEN [words |-> all.words, checks |-> all.checks]
     ELSE [words |-> AddedWords([s \in StoresOf(dir) |-> shown(s)], StoresOf(dir)),
           checks |-> d[<<"total", dir>>].checks]

-----------------------------------------------------------------------------
(* Checking *)

\* Mutant of Checked: an untranslated unit keeps its checks.
CheckedIfTranslated(old, text) ==
  [c \in Checks |->
     IF text = "" THEN old[c]
     ELSE IF c \notin Fails[style][text] THEN "none"
     ELSE IF old[c] = "none" THEN "active" ELSE old[c]]
\* The checks that are recorded for a unit, none or muted or not, after it is
\* checked: those that fail stay as they are or are active.
Checked(old, text) ==
  [c \in Checks |->
     IF text = "" \/ c \notin Fails[style][text] THEN "none"
     ELSE IF old[c] = "none" THEN "active" ELSE old[c]]
\* Unit.update_qualitychecks also unmutes them.
CheckedAnew(old, text) ==
  [c \in Checks |-> IF Checked(old, text)[c] = "none" THEN "none" ELSE "active"]

NoRows == [k \in {} |-> NULL]
NoRequest ==
  [req |-> NULL, row |-> NULL, step |-> "idle", todo |-> {}, total |-> FALSE,
   second |-> FALSE, drew |-> FALSE, wrote |-> NoRows, alone |-> FALSE]
NoPage == [dir |-> NULL, token |-> 0, step |-> "away", content |-> NULL, seen |-> {}]

Init ==
  /\ style \in Styles
  /\ LET rows == [k \in Key |->
           CASE k[1] = "unit" -> [text |-> "", live |-> TRUE, revision |-> 1]
             [] k[1] = "checks" -> [c \in Checks |-> "none"]
             [] k[1] \in {"suggestion", "obsolete"} -> FALSE
             [] OTHER -> 0]
         stores == [k \in Key |-> IF k[1] = "data" THEN Counted(rows, k[2]) ELSE rows[k]]
     IN db = [k \in Key |-> IF k[1] = "total" THEN Summed(stores, k[2]) ELSE stores[k]]
  /\ revision = 1
  /\ tx = [w \in Workers |-> NoRequest]
  /\ page = {}
  /\ viewer = [v \in Viewers |-> NoPage]

-----------------------------------------------------------------------------
(* Requests.  row: the unit as loaded; todo: the Stores to count; total:     *)
(* whether to sum up even if no Store changed; second: whether there is      *)
(* more to write when that is done; wrote: the rows written so far; alone:   *)
(* (history) whether no other request was there at the time.                 *)

Begin(w, req, row) ==
  /\ Idle(w) /\ req.op \in Ops
  /\ revision < MaxRevision /\ db[<<"token", ROOT>>] < MaxToken
  /\ tx' = [v \in Workers |->
       IF v = w
       THEN [NoRequest EXCEPT !.req = req, !.row = row, !.step = "loaded",
                              !.alone = \A x \in Workers \ {w} : Idle(x)]
       ELSE [tx[v] EXCEPT !.alone = FALSE]]
  /\ UNCHANGED <<db, revision, style, page, viewer>>

\* The requests about one unit, as the editor has loaded it
Edit(w, u) ==
  LET row == db[<<"unit", u>>]
      checks == db[<<"checks", u>>]
      Req(op, arg) == [op |-> op, unit |-> u, arg |-> arg]
  IN /\ row.live /\ ~db[<<"obsolete", StoreOf[u]>>]
     /\ \/ \E text \in Texts : Begin(w, Req("submit", text), row)
        \/ /\ db[<<"suggestion", u>>]
           /\ \/ \E text \in Texts \ {""} : Begin(w, Req("accept", text), row)
              \/ Begin(w, Req("reject", NULL), row)
        \/ ~db[<<"suggestion", u>>] /\ Begin(w, Req("suggest", NULL), row)
        \/ \E c \in Checks :
             /\ checks[c] # "none"
             /\ Begin(w, Req("toggle", [check |-> c, mute |-> checks[c] = "active"]), row)

\* Store.update from a file that has the units in DOMAIN file, makeobsolete and
\* resurrect, and the commands
Manage(w) ==
  \/ \E s \in Stores :
       \/ \E S \in SUBSET UnitsOf(s) : \E file \in [S -> Texts] :
            Begin(w, [op |-> "update", store |-> s, file |-> file], NULL)
       \/ Begin(w, [op |-> "hide", store |-> s], NULL)
       \/ Begin(w, [op |-> "update_data", store |-> s], NULL)
  \/ \E t \in TPs : Begin(w, [op |-> "calculate_checks", tp |-> t], NULL)

\* The database is d now: who waits for a page could see it.  Cached pages that
\* nobody finds again are left out.
Publish(d) ==
  /\ db' = d
  /\ viewer' = [v \in Viewers |->
       IF Away(v) THEN viewer[v]
       ELSE [viewer[v] EXCEPT !.seen = @ \cup {Content(d, viewer[v].dir)}]]
  /\ page' = {p \in page :
       \/ p.token = d[<<"token", p.dir>>]
       \/ \E v \in Viewers : Asked(v) /\ viewer[v].dir = p.dir /\ viewer[v].token = p.token}
\* w writes rows, which are committed at once if it has no transaction, and
\* goes on with x.
Write(w, rows, x) ==
  /\ DOMAIN rows \cap Locked(w) = {}
  /\ IF x.req.op \in Autocommit
     THEN /\ Publish(Overlay(rows, db))
          /\ tx' = [tx EXCEPT ![w] = x]
     ELSE /\ tx' = [tx EXCEPT ![w] =
               [x EXCEPT !.wrote = [k \in DOMAIN @ \cup DOMAIN rows |->
                                      IF k \in DOMAIN rows THEN rows[k] ELSE @[k]]]]
          /\ UNCHANGED <<db, page, viewer>>
  /\ UNCHANGED style
Row(k, x) == [y \in {k} |-> x]
Rows(f, g) == [k \in DOMAIN f \cup DOMAIN g |-> IF k \in DOMAIN f THEN f[k] ELSE g[k]]
At(w, step) == tx[w].step = step
Does(w, op) == At(w, "loaded") /\ tx[w].req.op = op

\* Mutant of SaveUnit: the revision of the unit is not drawn from the counter.
SaveUnitUndrawn(w, text, checks) ==
  LET x == tx[w]
      u == x.req.unit
      changed == text # x.row.text
      rev == IF changed \/ x.req.op = "toggle" THEN revision + 1 ELSE revision
      unit == Row(<<"unit", u>>,
                  [x.row EXCEPT !.text = text,
                                !.revision = IF rev > revision THEN rev ELSE @])
  IN /\ revision' = revision
     /\ Write(w, IF changed THEN Rows(unit, Row(<<"checks", u>>, checks)) ELSE unit,
              [x EXCEPT !.step = "saved", !.todo = {StoreOf[u]}, !.drew = rev > revision,
                       !.second = x.req.op # "submit"])
\* Unit.save writes all of the unit as it was loaded.  It has a new revision and
\* is checked if its target changed; toggle_qualitycheck draws a revision for it.
SaveUnit(w, text, checks) ==
  LET x == tx[w]
      u == x.req.unit
      changed == text # x.row.text
      rev == IF changed \/ x.req.op = "toggle" THEN revision + 1 ELSE revision
      unit == Row(<<"unit", u>>,
                  [x.row EXCEPT !.text = text,
                                !.revision = IF rev > revision THEN rev ELSE @])
  IN /\ revision' = rev
     /\ Write(w, IF changed THEN Rows(unit, Row(<<"checks", u>>, checks)) ELSE unit,
              [x EXCEPT !.step = "saved", !.todo = {StoreOf[u]}, !.drew = rev > revision,
                       !.second = x.req.op # "submit"])
\* SubmitForm.save: signals are held back until the end of update_store_after.
Submit(w) ==
  /\ Does(w, "submit")
  /\ LET req == tx[w].req
     IN SaveUnit(w, req.arg, Checked(db[<<"checks", req.unit>>], req.arg))
\* SuggestionsReview.accept: nothing is held back, the suggestion comes second.
Accept(w) ==
  /\ Does(w, "accept")
  /\ LET req == tx[w].req
     IN SaveUnit(w, req.arg, CheckedAnew(db[<<"checks", req.unit>>], req.arg))
\* toggle_qualitycheck: the check comes second.
Toggle(w) ==
  /\ Does(w, "toggle")
  /\ SaveUnit(w, tx[w].row.text, NULL)
\* SuggestionsReview.add and reject
Suggest(w) ==
  /\ Does(w, "suggest") \/ Does(w, "reject")
  /\ LET x == tx[w]
     IN Write(w, Row(<<"suggestion", x.req.unit>>, x.req.op = "suggest"),
              [x EXCEPT !.step = "saved", !.todo = {StoreOf[x.req.unit]}])
  /\ UNCHANGED revision

\* Store.update, in update_store_after: units that are not in the file become
\* obsolete, others are resurrected or take over its target, and are checked.
Update(w) ==
  /\ Does(w, "update")
  /\ LET x == tx[w]
         file == x.req.file
         old(u) == db[<<"unit", u>>]
         gone == {u \in UnitsOf(x.req.store) \ DOMAIN file : old(u).live}
         given == {u \in DOMAIN file : ~old(u).live \/ old(u).text # file[u]}
         unit == [k \in {"unit"} \X (gone \cup given) |->
                    IF k[2] \in given
                    THEN [text |-> file[k[2]], live |-> TRUE, revision |-> revision + 1]
                    ELSE [text |-> old(k[2]).text, live |-> FALSE,
                          revision |-> revision + 1]]
         checks == [k \in {"checks"} \X given |-> Checked(db[k], file[k[2]])]
         any == gone \cup given # {}
     IN /\ Write(w, Rows(unit, checks),
                 [x EXCEPT !.step = "saved", !.drew = any,
                            !.todo = IF any THEN {x.req.store} ELSE {}])
        /\ revision' = IF any THEN revision + 1 ELSE revision
\* Mutant of Hide: update_data is not sent.
HideUncounted(w) ==
  /\ Does(w, "hide")
  /\ LET k == <<"obsolete", tx[w].req.store>>
     IN Write(w, Row(k, ~db[k]), [tx[w] EXCEPT !.step = "saved"])
  /\ UNCHANGED revision
\* Store.makeobsolete and Store.resurrect
Hide(w) ==
  /\ Does(w, "hide")
  /\ LET x == tx[w]
         k == <<"obsolete", x.req.store>>
     IN Write(w, Row(k, ~db[k]), [x EXCEPT !.step = "saved", !.todo = {x.req.store}])
  /\ UNCHANGED revision
\* update_data --store
UpdateData(w) ==
  /\ Does(w, "update_data")
  /\ LET x == tx[w]
     IN Write(w, NoRows, [x EXCEPT !.step = "saved", !.todo = {x.req.store},
                                   !.total = TRUE])
  /\ UNCHANGED revision
\* QualityCheckUpdater.update: every unit is checked, those without a translation
\* have none, and the Stores where that made a difference are counted.
CalculateChecks(w) ==
  /\ Does(w, "calculate_checks")
  /\ LET x == tx[w]
         units == {u \in Units : TPOf[StoreOf[u]] = x.req.tp}
         text(u) == IF db[<<"unit", u>>].live THEN db[<<"unit", u>>].text ELSE ""
         new == [k \in {"checks"} \X units |-> Checked(db[k], text(k[2]))]
         differ == {k \in DOMAIN new : new[k] # db[k]}
     IN Write(w, [k \in differ |-> new[k]],
              [x EXCEPT !.step = "saved", !.todo = {StoreOf[k[2]] : k \in differ}])
  /\ UNCHANGED revision

-----------------------------------------------------------------------------
(* The rest of a request *)

TPOfRequest(req) ==
  IF "tp" \in DOMAIN req THEN req.tp
  ELSE TPOf[IF "store" \in DOMAIN req THEN req.store ELSE StoreOf[req.unit]]
Changed(w, rows) == [k \in {j \in DOMAIN rows : rows[j] # View(w)[j]} |-> rows[k]]

\* Mutant of Count: counts what is committed.
CountCommitted(w) ==
  /\ At(w, "saved")
  /\ \E s \in tx[w].todo :
       LET old == View(w)[<<"data", s>>]
           new == Counted(db, s)
           moved == [new EXCEPT !.checks = old.checks] # old
       IN Write(w, Changed(w, Row(<<"data", s>>, new)),
                [tx[w] EXCEPT !.step = IF moved THEN "counted" ELSE "saved",
                              !.todo = @ \ {s}])
  /\ UNCHANGED revision
\* StoreDataUpdater.update: the signal goes on if StoreData changed.
Count(w) ==
  /\ At(w, "saved")
  /\ \E s \in tx[w].todo :
       LET old == View(w)[<<"data", s>>]
           new == Counted(View(w), s)
           moved == [new EXCEPT !.checks = old.checks] # old
       IN Write(w, Changed(w, Row(<<"data", s>>, new)),
                [tx[w] EXCEPT !.step = IF moved THEN "counted" ELSE "saved",
                              !.todo = @ \ {s}])
  /\ UNCHANGED revision
\* TPDataUpdater.update
SumRows(w) ==
  LET t == TPOfRequest(tx[w].req)
  IN Changed(w, Row(<<"total", t>>, Summed(View(w), t)))
SumUp(w) ==
  /\ At(w, "counted")
  /\ Write(w, SumRows(w), [tx[w] EXCEPT !.step = "summed"])
  /\ UNCHANGED revision
\* Mutant of Renew: the directories above keep their token.
RenewOne(w) ==
  /\ At(w, "summed")
  /\ Write(w, [k \in {"token"} \X {TPOfRequest(tx[w].req)} |-> View(w)[k] + 1],
           [tx[w] EXCEPT !.step = "saved"])
  /\ UNCHANGED revision
\* RevisionUpdater.update: the directory and those above it have a new token.
Renew(w) ==
  /\ At(w, "summed")
  /\ Write(w, [k \in {"token"} \X {TPOfRequest(tx[w].req), ROOT} |-> View(w)[k] + 1],
           [tx[w] EXCEPT !.step = "saved"])
  /\ UNCHANGED revision
\* The rest of update_data
Total(w) ==
  /\ At(w, "saved") /\ tx[w].todo = {} /\ tx[w].total
  /\ Write(w, SumRows(w), [tx[w] EXCEPT !.total = FALSE])
  /\ UNCHANGED revision
\* The suggestion is accepted; the check is muted or not, and is there again if
\* it was deleted after it was loaded.
Second(w) ==
  /\ At(w, "saved") /\ tx[w].todo = {} /\ tx[w].second
  /\ LET x == tx[w]
         u == x.req.unit
     IN Write(w, IF x.req.op = "accept" THEN Row(<<"suggestion", u>>, FALSE)
                 ELSE Row(<<"checks", u>>,
                          [View(w)[<<"checks", u>>] EXCEPT
                             ![x.req.arg.check] =
                               IF x.req.arg.mute THEN "muted" ELSE "active"]),
              [x EXCEPT !.second = FALSE, !.todo = {StoreOf[u]}])
  /\ UNCHANGED revision

Finished(w) ==
  /\ At(w, "saved") /\ tx[w].todo = {} /\ ~tx[w].total /\ ~tx[w].second
Commit(w) ==
  /\ Finished(w)
  /\ Publish(View(w))
  /\ tx' = [tx EXCEPT ![w] = NoRequest]
  /\ UNCHANGED <<revision, style>>
\* An error rolls the transaction back; a command without one may be killed.
Fail(w) ==
  /\ ~Idle(w) /\ (tx[w].req.op \in Autocommit => "kill" \in Ops)
  /\ tx' = [tx EXCEPT ![w] = NoRequest]
  /\ UNCHANGED <<db, revision, style, page, viewer>>

\* Another version of the checkers is installed, with the server stopped.
Upgrade ==
  /\ "upgrade" \in Ops /\ \A w \in Workers : Idle(w)
  /\ style' \in Styles \ {style}
  /\ UNCHANGED <<db, revision, tx, page, viewer>>

-----------------------------------------------------------------------------
(* Pages: persistent_property, under the token as it was when the page was   *)
(* asked for                                                                 *)

Ask(v, d) ==
  /\ Away(v)
  /\ viewer' = [viewer EXCEPT ![v] =
       [dir |-> d, token |-> db[<<"token", d>>], step |-> "asked", content |-> NULL,
        seen |-> {Content(db, d)}]]
  /\ UNCHANGED <<db, revision, style, tx, page>>
Found(v) == {p \in page : p.dir = viewer[v].dir /\ p.token = viewer[v].token}
Hit(v) ==
  /\ Asked(v)
  /\ \E p \in Found(v) :
       viewer' = [viewer EXCEPT ![v].step = "shown", ![v].content = p.content]
  /\ UNCHANGED <<db, revision, style, tx, page>>
Make(v) ==
  /\ Asked(v) /\ Found(v) = {}
  /\ viewer' = [viewer EXCEPT ![v].step = "made",
                              ![v].content = Content(db, viewer[v].dir)]
  /\ UNCHANGED <<db, revision, style, tx, page>>
\* Mutant of Put: the page is cached under the present token.
PutUnderPresentToken(v) ==
  /\ viewer[v].step = "made"
  /\ page' = (page \ Found(v)) \cup
       {[dir |-> viewer[v].dir, token |-> db[<<"token", viewer[v].dir>>],
         content |-> viewer[v].content]}
  /\ viewer' = [viewer EXCEPT ![v].step = "shown"]
  /\ UNCHANGED <<db, revision, style, tx>>
Put(v) ==
  /\ viewer[v].step = "made"
  /\ page' = (page \ Found(v)) \cup
       {[dir |-> viewer[v].dir, token |-> viewer[v].token, content |-> viewer[v].content]}
  /\ viewer' = [viewer EXCEPT ![v].step = "shown"]
  /\ UNCHANGED <<db, revision, style, tx>>
Leave(v) ==
  /\ viewer[v].step = "shown"
  /\ viewer' = [viewer EXCEPT ![v] = NoPage]
  /\ UNCHANGED <<db, revision, style, tx, page>>

Next ==
  \/ \E w \in Workers :
       \/ \E u \in Units : Edit(w, u)
       \/ Manage(w)
       \/ Submit(w) \/ Accept(w) \/ Toggle(w) \/ Suggest(w)
       \/ Update(w) \/ Hide(w) \/ UpdateData(w) \/ CalculateChecks(w)
       \/ Count(w) \/ SumUp(w) \/ Renew(w) \/ Total(w) \/ Second(w)
       \/ Commit(w) \/ Fail(w)
  \/ Upgrade
  \/ \E v \in Viewers :
       \/ \E d \in Dirs : Ask(v, d)
       \/ Hit(v) \/ Make(v) \/ Put(v) \/ Leave(v)

Spec == Init /\ [][Next]_vars

-----------------------------------------------------------------------------
(* Properties *)

AllIdle == \A w \in Workers : Idle(w)
SameButChecks(x, y) == [x EXCEPT !.checks = 0] = [y EXCEPT !.checks = 0]

\* Types; every unit has a revision that was drawn from the counter
\* (pootle_store/receivers.py:93).
TypeOK ==
  /\ DOMAIN db = Key
  /\ \A u \in Units :
       /\ db[<<"unit", u>>] \in [text : Texts, live : BOOLEAN, revision : 1..revision]
       /\ db[<<"checks", u>>] \in [Checks -> {"none", "active", "muted"}]
       /\ db[<<"suggestion", u>>] \in BOOLEAN
  /\ revision \in Nat /\ style \in Styles
  /\ \A w \in Workers : ~Idle(w) => DOMAIN tx[w].wrote \subseteq Key
  /\ \A p \in page : p.dir \in Dirs /\ p.token \in Nat

\* However the signals are held back, nested and cut short, nothing has to be
\* counted when no request is going on: StoreData is what the units of the Store
\* amount to, TPData what its Stores do.  Holds if requests do not overlap.
\* The counts of each check of a translation project are left out: it does not
\* hear of a check that is muted, critical ones aside (DataUpdater.update).
TotalsExact ==
  AllIdle =>
    /\ \A s \in Stores : db[<<"data", s>>] = Counted(db, s)
    /\ \A t \in TPs : SameButChecks(db[<<"total", t>>], Summed(db, t))

\* The checks on record for a unit, muted or not, are those that its present
\* target fails with some checker, whichever of its four writers was there last:
\* the editor, a review, the update of its Store or calculate_checks.
ChecksOfTarget ==
  AllIdle =>
    \A u \in Units :
      LET unit == db[<<"unit", u>>]
          recorded == {c \in Checks : db[<<"checks", u>>][c] # "none"}
      IN unit.live => recorded \in IF unit.text = "" THEN {{}}
                                  ELSE {Fails[st][unit.text] : st \in Styles}

\* A page that may still be found in the cache is up to date: whatever changes
\* what it shows renews the token that it is found by, in the same transaction.
PagesFresh ==
  \A p \in page : p.token = db[<<"token", p.dir>>] => p.content = Content(db, p.dir)

\* Totals are counted from scratch, so whatever overlapping requests or a killed
\* command have lost, a request that no other overlaps leaves the counts of its
\* Store right; and those of the translation project, if it draws a revision, by
\* which StoreData changes and the signal goes on, or is update_data.
LoneRequestHeals ==
  [][\A w \in Workers :
       Finished(w) /\ Idle(w)' /\ tx[w].alone /\ db' = View(w) =>
         LET req == tx[w].req
             s == IF "unit" \in DOMAIN req THEN StoreOf[req.unit] ELSE req.store
             t == TPOf[s]
         IN "tp" \notin DOMAIN req =>
              /\ (req.op = "update" => tx[w].drew)
                   => db'[<<"data", s>>] = Counted(db', s)
              /\ tx[w].drew \/ req.op = "update_data"
                   => SameButChecks(db'[<<"total", t>>], Summed(db', t))]_vars

\* The pages behave as if nothing was cached (LivePages).
Live == INSTANCE LivePages WITH
  content <- [d \in Dirs |-> Content(db, d)],
  asked <- [v \in Viewers |->
              [dir |-> viewer[v].dir, seen |-> viewer[v].seen,
               page |-> IF viewer[v].step = "shown" THEN {viewer[v].content} ELSE {}]]
PagesAreLive == Live!Spec
=============================================================================
