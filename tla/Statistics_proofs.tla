-------------------------- MODULE Statistics_proofs --------------------------
(***************************************************************************)
(* The statistics of Stores and projects: what each step of a request      *)
(* writes and leaves alone, for every number of workers, viewers, Stores   *)
(* and units; then what holds when requests do not overlap, and what a     *)
(* request that no other overlaps leaves behind.                           *)
(*                                                                         *)
(* TypeInv says what each row of the database, each page and each request  *)
(* hold, at each step of the request: one that has only been loaded has    *)
(* written nothing, one that is not in a transaction holds nothing back,   *)
(* and no revision is beyond the counter.  The lemmas about the steps      *)
(* (Saves, Counts, Sums, Seconds) are what the rest uses of them.          *)
(***************************************************************************)
EXTENDS Statistics, Bounds_proofs

-----------------------------------------------------------------------------
(* Maxima *)

\* The maximum of some bounded numbers is one of them and above the others.
LEMMA BoundedHasMax ==
  ASSUME NEW n \in Nat, NEW S \in SUBSET (0..n), S # {}
  PROVE  /\ Max(S) \in S
         /\ \A x \in S : x <= Max(S)
<1>1. PICK m \in S : \A x \in S : x <= m
  BY BoundedHasLargest
<1>2. S \subseteq Int
  OBVIOUS
<1>3. \A x \in S : m >= x
  BY <1>1, <1>2
<1>4. Max(S) \in S /\ \A x \in S : Max(S) >= x
  BY <1>3 DEF Max
<1>. QED BY <1>2, <1>4

\* The largest revision of some units is that of one of them, or none.
LEMMA MaxOfBounded ==
  ASSUME NEW n \in Nat, NEW S \in SUBSET (0..n)
  PROVE  /\ MaxOf(S) \in 0..n
         /\ \A x \in S : x <= MaxOf(S)
<1>1. CASE S = {}
  BY <1>1 DEF MaxOf
<1>2. CASE S # {}
  BY <1>2, BoundedHasMax DEF MaxOf
<1>. QED BY <1>1, <1>2

-----------------------------------------------------------------------------
(* Types *)

IsCount(x) == x = [checks |-> x.checks, words |-> x.words, revision |-> x.revision]
\* What a row may be when the counter of revisions is at n
RowTyped(k, x, n) ==
  /\ k[1] = "unit" => x \in [text : Texts, live : BOOLEAN, revision : 1..n]
  /\ k[1] = "checks" => x \in [Checks -> {"none", "active", "muted"}]
  /\ k[1] \in {"suggestion", "obsolete"} => x \in BOOLEAN
  /\ k[1] = "data" => IsCount(x) /\ x.revision \in 0..n
  /\ k[1] = "total" => IsCount(x)
  /\ k[1] = "token" => x \in Nat
RowsTyped(f, n) == DOMAIN f \subseteq Key /\ \A k \in DOMAIN f : RowTyped(k, f[k], n)

GoodRequest(r) ==
  \/ r \in [op : {"submit", "accept"}, unit : Units, arg : Texts]
  \/ r \in [op : {"suggest", "reject"}, unit : Units, arg : {NULL}]
  \/ r \in [op : {"toggle"}, unit : Units, arg : [check : Checks, mute : BOOLEAN]]
  \/ r \in [op : {"hide", "update_data"}, store : Stores]
  \/ r \in [op : {"calculate_checks"}, tp : TPs]
  \/ /\ r = [op |-> "update", store |-> r.store, file |-> r.file]
     /\ r.store \in Stores /\ DOMAIN r.file \subseteq UnitsOf(r.store)
     /\ r.file \in [DOMAIN r.file -> Texts]
\* The requests about one unit load it first.
LoadsUnit(r) == r.op \in {"submit", "accept", "suggest", "reject", "toggle"}

RequestFields ==
  {"req", "row", "step", "todo", "total", "second", "drew", "wrote", "alone"}
IsRequest(x) == x = [f \in RequestFields |-> x[f]]
TxTyped(x, n) ==
  /\ IsRequest(x) /\ RowsTyped(x.wrote, n)
  /\ x.step \in {"idle", "loaded", "saved", "counted", "summed"}
  /\ x.total \in BOOLEAN /\ x.second \in BOOLEAN /\ x.drew \in BOOLEAN
  /\ x.alone \in BOOLEAN
  /\ x.step = "idle" => x = NoRequest
  /\ x.step # "idle" =>
       /\ GoodRequest(x.req) /\ x.req.op \in Ops
       /\ x.req.op \in Autocommit => x.wrote = NoRows
       /\ x.todo \subseteq StoresOf(TPOfRequest(x.req))
       /\ LoadsUnit(x.req) => RowTyped(<<"unit", x.req.unit>>, x.row, n)
  /\ x.step = "loaded" => x.todo = {} /\ ~x.total /\ ~x.second /\ ~x.drew /\ x.wrote = NoRows
  /\ x.second => x.req.op \in {"accept", "toggle"}
  /\ x.total => x.req.op = "update_data"

PageFields == {"dir", "token", "step", "content", "seen"}
IsPage(x) == x = [f \in PageFields |-> x[f]]
ViewerTyped(x) ==
  /\ IsPage(x) /\ x.step \in {"away", "asked", "made", "shown"}
  /\ x.step = "away" => x = NoPage
  /\ x.step # "away" => x.dir \in Dirs /\ x.token \in Nat

IsCached(p) ==
  /\ p = [dir |-> p.dir, token |-> p.token, content |-> p.content]
  /\ p.dir \in Dirs /\ p.token \in Nat

DbTyped == db = [k \in Key |-> db[k]] /\ RowsTyped(db, revision)
RequestsTyped == tx = [w \in Workers |-> tx[w]] /\ \A w \in Workers : TxTyped(tx[w], revision)
PagesTyped ==
  /\ viewer = [v \in Viewers |-> viewer[v]] /\ \A v \in Viewers : ViewerTyped(viewer[v])
  /\ \A p \in page : IsCached(p)
TypeInv ==
  /\ revision \in Nat \ {0} /\ style \in Styles
  /\ DbTyped
  /\ RequestsTyped
  /\ PagesTyped

\* Revisions only grow.
LEMMA RowTypedLater ==
  ASSUME NEW k, NEW x, NEW n \in Nat, NEW m \in Nat, n <= m, RowTyped(k, x, n)
  PROVE  RowTyped(k, x, m)
BY DEF RowTyped

\* A request keeps its type while the counter grows.
LEMMA TxTypedLater ==
  ASSUME NEW x, NEW n \in Nat, NEW m \in Nat, n <= m, TxTyped(x, n)
  PROVE  TxTyped(x, m)
<1>1. RowsTyped(x.wrote, m)
  BY RowTypedLater DEF TxTyped, RowsTyped
<1>2. x.step # "idle" /\ LoadsUnit(x.req) => RowTyped(<<"unit", x.req.unit>>, x.row, m)
  BY RowTypedLater DEF TxTyped
<1>. QED BY <1>1, <1>2 DEF TxTyped

\* What is laid over typed rows is typed, and found again.
LEMMA Overlaid ==
  ASSUME NEW n, NEW new, NEW old, RowsTyped(new, n), RowsTyped(old, n), DOMAIN old = Key
  PROVE  /\ RowsTyped(Overlay(new, old), n)
         /\ Overlay(new, old) = [k \in Key |-> Overlay(new, old)[k]]
         /\ \A k \in Key : Overlay(new, old)[k] = IF k \in DOMAIN new THEN new[k] ELSE old[k]
BY DEF RowsTyped, Overlay

\* What a request sees has the types of the rows.
LEMMA ViewTyped ==
  ASSUME TypeInv, NEW w \in Workers
  PROVE  /\ RowsTyped(View(w), revision)
         /\ View(w) = [k \in Key |-> View(w)[k]]
         /\ \A k \in Key : /\ RowTyped(k, View(w)[k], revision)
                           /\ View(w)[k] = IF k \in DOMAIN tx[w].wrote THEN tx[w].wrote[k]
                                           ELSE db[k]
<1>1. RowsTyped(tx[w].wrote, revision) /\ RowsTyped(db, revision) /\ DOMAIN db = Key
  BY DEF TypeInv, RequestsTyped, TxTyped, DbTyped
<1>2. RowsTyped(View(w), revision) /\ DOMAIN View(w) = Key
  BY <1>1, Overlaid DEF View
<1>. QED BY <1>1, <1>2, Overlaid DEF View, RowsTyped

\* What is counted is typed: no more than the units' revisions is asked of them.
LEMMA CountedTyped ==
  ASSUME NEW n \in Nat, NEW d, NEW s \in Stores,
         \A u \in Units : d[<<"unit", u>>].revision \in 0..n
  PROVE  IsCount(Counted(d, s)) /\ Counted(d, s).revision \in 0..n
<1>. DEFINE S == {d[<<"unit", u>>].revision : u \in UnitsOf(s)}
<1>2. S \in SUBSET (0..n)
  BY DEF UnitsOf
<1>3. MaxOf(S) \in 0..n
  BY <1>2, MaxOfBounded
<1>4. IsCount(Counted(d, s)) /\ Counted(d, s).revision = MaxOf(S)
  BY DEF Counted, IsCount
<1>. QED BY <1>3, <1>4

\* The sums of a translation project are counts.
LEMMA SummedTyped ==
  ASSUME NEW d, NEW t
  PROVE  IsCount(Summed(d, t))
BY DEF Summed, Added, IsCount

\* Showing new contents to who waits keeps the types of the pages.
LEMMA PublishTyped ==
  ASSUME TypeInv, NEW d, Publish(d)
  PROVE  PagesTyped'
<1>1. ASSUME NEW v \in Viewers
      PROVE  ViewerTyped(viewer'[v])
  <2>1. CASE Away(v)
    BY <2>1 DEF TypeInv, PagesTyped, Publish
  <2>2. CASE ~Away(v)
    <3>1. viewer'[v] = [viewer[v] EXCEPT !.seen = @ \cup {Content(d, viewer[v].dir)}]
      BY <2>2 DEF Publish
    <3>2. ViewerTyped(viewer[v])
      BY DEF TypeInv, PagesTyped
    <3>. QED BY <2>2, <3>1, <3>2 DEF ViewerTyped, IsPage, PageFields, Away
  <2>. QED BY <2>1, <2>2
<1>2. viewer' = [v \in Viewers |-> viewer'[v]] /\ page' \subseteq page
  BY DEF Publish
<1>. QED BY <1>1, <1>2 DEF TypeInv, PagesTyped

\* A request writes rows and goes on as x.
Step(w, rows, x) ==
  /\ Write(w, rows, x)
  /\ revision' \in Nat /\ revision <= revision'
  /\ RowsTyped(rows, revision') /\ TxTyped(x, revision')
  /\ ~Idle(w) /\ x.step \notin {"idle", "loaded"}
  /\ x.req = tx[w].req /\ x.wrote = tx[w].wrote /\ x.alone = tx[w].alone
Together(new, old) ==
  [k \in DOMAIN old \cup DOMAIN new |-> IF k \in DOMAIN new THEN new[k] ELSE old[k]]

\* A step of a request keeps TypeInv if what it writes has its type.
LEMMA StepTyped ==
  ASSUME TypeInv, NEW w \in Workers, NEW rows, NEW x, Step(w, rows, x)
  PROVE  TypeInv'
<1>. DEFINE y == [x EXCEPT !.wrote = Together(rows, @)]
<1>0. revision \in Nat /\ revision' \in Nat /\ revision <= revision'
  BY DEF TypeInv, Step
<1>1. x.req.op \notin Autocommit => TxTyped(y, revision')
  <2>1. RowsTyped(x.wrote, revision') /\ RowsTyped(rows, revision') /\ IsRequest(x)
    BY DEF TxTyped, Step
  <2>2. RowsTyped(y.wrote, revision') /\ IsRequest(y)
    BY <2>1 DEF RowsTyped, IsRequest, RequestFields, Together
  <2>3. /\ y.req = x.req /\ y.row = x.row /\ y.step = x.step /\ y.todo = x.todo
        /\ y.total = x.total /\ y.second = x.second /\ y.drew = x.drew /\ y.alone = x.alone
    BY <2>1 DEF IsRequest, RequestFields
  <2>4. TxTyped(x, revision') /\ x.step \notin {"idle", "loaded"}
    BY DEF Step
  <2>. HIDE DEF y
  <2>. QED BY <2>2, <2>3, <2>4 DEF TxTyped
<1>2. ASSUME NEW z, TxTyped(z, revision'), tx' = [tx EXCEPT ![w] = z]
      PROVE  RequestsTyped'
  BY <1>0, <1>2, TxTypedLater DEF TypeInv, RequestsTyped
<1>3. TxTyped(x, revision') /\ Write(w, rows, x)
  BY DEF Step
<1>4. RequestsTyped'
  BY <1>1, <1>2, <1>3 DEF Write, Together
<1>5. RowsTyped(db, revision') /\ DOMAIN db = Key /\ RowsTyped(rows, revision')
  BY <1>0, RowTypedLater DEF TypeInv, DbTyped, RowsTyped, Step
<1>6. CASE x.req.op \in Autocommit
  <2>1. Publish(Overlay(rows, db)) /\ db' = Overlay(rows, db)
    BY <1>3, <1>6 DEF Write, Publish
  <2>2. PagesTyped'
    BY <2>1, PublishTyped
  <2>3. DbTyped'
    BY <1>5, <2>1, Overlaid DEF DbTyped
  <2>. QED BY <1>0, <1>3, <1>4, <2>2, <2>3 DEF Write, TypeInv
<1>7. CASE x.req.op \notin Autocommit
  <2>1. UNCHANGED <<db, page, viewer, style>>
    BY <1>3, <1>7 DEF Write
  <2>. QED BY <1>0, <1>4, <1>5, <2>1 DEF TypeInv, DbTyped, PagesTyped
<1>. QED BY <1>6, <1>7

\* What it sees then is what it saw with the rows laid over, and nobody else
\* sees any of it before it commits.
LEMMA StepSees ==
  ASSUME TypeInv, NEW w \in Workers, NEW rows, NEW x, Step(w, rows, x)
  PROVE  /\ \A k \in Key : View(w)'[k] = IF k \in DOMAIN rows THEN rows[k] ELSE View(w)[k]
         /\ tx'[w].req = x.req /\ tx'[w].step = x.step /\ tx'[w].todo = x.todo
         /\ tx'[w].total = x.total /\ tx'[w].second = x.second /\ tx'[w].drew = x.drew
         /\ tx'[w].alone = x.alone
         /\ \A v \in Workers \ {w} : tx'[v] = tx[v]
         /\ x.req.op \in Autocommit => db' = View(w)'
         /\ x.req.op \notin Autocommit => UNCHANGED <<db, page, viewer>>
<1>. DEFINE y == [x EXCEPT !.wrote = Together(rows, @)]
<1>0. /\ Write(w, rows, x) /\ IsRequest(x) /\ DOMAIN rows \subseteq Key
      /\ x.wrote = tx[w].wrote /\ tx = [v \in Workers |-> tx[v]]
      /\ x.req.op \in Autocommit => x.wrote = NoRows
  BY DEF TypeInv, Step, TxTyped, RequestsTyped, RowsTyped
<1>1. DOMAIN db = Key /\ db = [k \in Key |-> db[k]]
  BY DEF TypeInv, DbTyped
<1>2. \A k \in Key : View(w)[k] = IF k \in DOMAIN tx[w].wrote THEN tx[w].wrote[k] ELSE db[k]
  BY <1>1 DEF View, Overlay
<1>3. CASE x.req.op \in Autocommit
  <2>1. tx' = [tx EXCEPT ![w] = x] /\ db' = Overlay(rows, db)
    BY <1>0, <1>3 DEF Write, Publish
  <2>2. tx'[w] = x /\ \A v \in Workers \ {w} : tx'[v] = tx[v]
    BY <1>0, <2>1
  <2>3. db' = [k \in Key |-> db'[k]] /\ DOMAIN db' = Key
    BY <1>1, <2>1 DEF Overlay
  <2>4. View(w)' = db'
    BY <1>0, <1>3, <2>2, <2>3 DEF View, Overlay, NoRows
  <2>5. \A k \in Key : db'[k] = IF k \in DOMAIN rows THEN rows[k] ELSE db[k]
    BY <1>1, <2>1 DEF Overlay
  <2>6. \A k \in Key : View(w)[k] = db[k]
    BY <1>0, <1>2, <1>3 DEF NoRows
  <2>. QED BY <1>3, <2>2, <2>4, <2>5, <2>6
<1>4. CASE x.req.op \notin Autocommit
  <2>1. tx' = [tx EXCEPT ![w] = y] /\ UNCHANGED <<db, page, viewer>>
    BY <1>0, <1>4 DEF Write, Together
  <2>2. tx'[w] = y /\ \A v \in Workers \ {w} : tx'[v] = tx[v]
    BY <1>0, <2>1
  <2>3. /\ y.req = x.req /\ y.step = x.step /\ y.todo = x.todo /\ y.total = x.total
        /\ y.second = x.second /\ y.drew = x.drew /\ y.alone = x.alone
        /\ y.wrote = Together(rows, tx[w].wrote)
    BY <1>0 DEF IsRequest, RequestFields
  <2>. HIDE DEF y
  <2>4. \A k \in Key : View(w)'[k] = IF k \in DOMAIN y.wrote THEN y.wrote[k] ELSE db[k]
    BY <1>1, <2>1, <2>2 DEF View, Overlay
  <2>5. \A k \in Key : View(w)'[k] = IF k \in DOMAIN rows THEN rows[k] ELSE View(w)[k]
    BY <1>2, <2>3, <2>4 DEF Together
  <2>. QED BY <1>4, <2>1, <2>2, <2>3, <2>5
<1>. QED BY <1>3, <1>4

\* A request is about a unit, a Store or a translation project.
LEMMA RequestAbout ==
  ASSUME NEW r, GoodRequest(r)
  PROVE  /\ TPOfRequest(r) \in TPs
         /\ LoadsUnit(r) => /\ r.unit \in Units /\ "unit" \in DOMAIN r /\ "tp" \notin DOMAIN r
                            /\ StoreOf[r.unit] \in StoresOf(TPOfRequest(r))
         /\ r.op \in {"update", "hide", "update_data"} =>
              /\ r.store \in Stores /\ "unit" \notin DOMAIN r /\ "tp" \notin DOMAIN r
              /\ r.store \in StoresOf(TPOfRequest(r))
         /\ r.op = "calculate_checks" => TPOfRequest(r) = r.tp /\ "tp" \in DOMAIN r
<1>1. CASE r \in [op : {"submit", "accept"}, unit : Units, arg : Texts]
  BY <1>1, TreeAssumption DEF TPOfRequest, StoresOf, LoadsUnit
<1>2. CASE r \in [op : {"suggest", "reject"}, unit : Units, arg : {NULL}]
  BY <1>2, TreeAssumption DEF TPOfRequest, StoresOf, LoadsUnit
<1>3. CASE r \in [op : {"toggle"}, unit : Units, arg : [check : Checks, mute : BOOLEAN]]
  BY <1>3, TreeAssumption DEF TPOfRequest, StoresOf, LoadsUnit
<1>4. CASE r \in [op : {"hide", "update_data"}, store : Stores]
  BY <1>4, TreeAssumption DEF TPOfRequest, StoresOf, LoadsUnit
<1>5. CASE r \in [op : {"calculate_checks"}, tp : TPs]
  BY <1>5 DEF TPOfRequest, LoadsUnit
<1>6. CASE /\ r = [op |-> "update", store |-> r.store, file |-> r.file]
           /\ r.store \in Stores
  <2>1. r.op = "update" /\ DOMAIN r = {"op", "store", "file"}
    BY <1>6
  <2>. QED BY <1>6, <2>1, TreeAssumption DEF TPOfRequest, StoresOf, LoadsUnit
<1>. QED BY <1>1, <1>2, <1>3, <1>4, <1>5, <1>6 DEF GoodRequest

\* The record of a request that goes on.
Follows(y, x) ==
  /\ IsRequest(y) /\ y.req = x.req /\ y.row = x.row /\ y.wrote = x.wrote
  /\ y.alone = x.alone

-----------------------------------------------------------------------------
(* What each action writes *)

\* A request that is going on has its type.
LEMMA RequestTyped ==
  ASSUME TypeInv, NEW w \in Workers, ~Idle(w)
  PROVE  /\ TxTyped(tx[w], revision) /\ GoodRequest(tx[w].req)
         /\ revision \in Nat \ {0}
BY DEF TypeInv, RequestsTyped, TxTyped, Idle

\* What is to be shown of a step of a request.
LEMMA MakesStep ==
  ASSUME TypeInv, NEW w \in Workers, ~Idle(w), NEW rows, NEW x, Write(w, rows, x),
         revision' \in Nat, revision <= revision', RowsTyped(rows, revision'),
         Follows(x, tx[w]), x.step \in {"saved", "counted", "summed"},
         x.todo \subseteq StoresOf(TPOfRequest(tx[w].req)),
         x.total \in BOOLEAN, x.total => tx[w].req.op = "update_data",
         x.second \in BOOLEAN, x.second => tx[w].req.op \in {"accept", "toggle"},
         x.drew \in BOOLEAN
  PROVE  Step(w, rows, x)
<1>1. /\ TxTyped(tx[w], revision') /\ tx[w].step # "idle"
  BY RequestTyped, TxTypedLater DEF Idle
<1>2. TxTyped(x, revision')
  BY <1>1 DEF TxTyped, Follows
<1>. QED BY <1>2 DEF Step, Follows

\* The same of a step that draws no revision and leaves nothing but counting to do.
LEMMA MakesPlainStep ==
  ASSUME TypeInv, NEW w \in Workers, ~Idle(w), NEW rows, NEW x, Write(w, rows, x),
         revision' = revision, RowsTyped(rows, revision'), Follows(x, tx[w]),
         x.step = "saved", x.todo \subseteq StoresOf(TPOfRequest(tx[w].req)),
         x.total = FALSE, x.second = FALSE, x.drew = FALSE
  PROVE  Step(w, rows, x)
<1>1. revision' \in Nat /\ revision <= revision'
  BY DEF TypeInv
<1>2. /\ x.total \in BOOLEAN /\ (x.total => tx[w].req.op = "update_data")
      /\ x.second \in BOOLEAN /\ (x.second => tx[w].req.op \in {"accept", "toggle"})
      /\ x.drew \in BOOLEAN
  OBVIOUS
<1>. QED BY <1>1, <1>2, MakesStep

\* The unit is saved with a target, and has the checks of it if it is new.
Saves(w, text, rows, x) ==
  LET u == tx[w].req.unit
      k == <<"unit", u>>
      c == <<"checks", u>>
  IN /\ Step(w, rows, x) /\ x.step = "saved" /\ x.todo = {StoreOf[u]}
     /\ x.total = FALSE
     /\ DOMAIN rows = {k} \cup IF text = tx[w].row.text THEN {} ELSE {c}
     /\ rows[k].text = text /\ rows[k].live = tx[w].row.live
     /\ text # tx[w].row.text =>
          rows[c] \in {Checked(db[c], text), CheckedAnew(db[c], text)}
     /\ x.drew => rows[k].revision = revision + 1
\* Saving a unit writes the unit and its checks, and draws a revision if the
\* target has changed.
LEMMA SaveUnitWrites ==
  ASSUME TypeInv, NEW w \in Workers, At(w, "loaded"),
         tx[w].req.op \in {"submit", "accept", "toggle"}, NEW text \in Texts, NEW checks,
         text # tx[w].row.text =>
           LET old == db[<<"checks", tx[w].req.unit>>]
           IN checks \in {Checked(old, text), CheckedAnew(old, text)}
                           \cap [Checks -> {"none", "active", "muted"}],
         SaveUnit(w, text, checks)
  PROVE  \E rows, x : Saves(w, text, rows, x)
<1>. DEFINE u == tx[w].req.unit
            row == tx[w].row
            changed == text # row.text
            rev == IF changed \/ tx[w].req.op = "toggle" THEN revision + 1 ELSE revision
            new == [row EXCEPT !.text = text, !.revision = IF rev > revision THEN rev ELSE @]
            rows == IF changed THEN Rows(Row(<<"unit", u>>, new), Row(<<"checks", u>>, checks))
                    ELSE Row(<<"unit", u>>, new)
            drew == rev > revision
            second == tx[w].req.op # "submit"
            x == [tx[w] EXCEPT !.step = "saved", !.todo = {StoreOf[u]}, !.drew = drew,
                               !.second = second]
<1>1. /\ ~Idle(w) /\ TxTyped(tx[w], revision) /\ revision \in Nat \ {0}
      /\ IsRequest(tx[w]) /\ tx[w].total = FALSE /\ LoadsUnit(tx[w].req)
      /\ RowTyped(<<"unit", u>>, row, revision)
  BY RequestTyped DEF At, Idle, TxTyped, LoadsUnit
<1>2. /\ u \in Units /\ {StoreOf[u]} \in SUBSET StoresOf(TPOfRequest(tx[w].req))
      /\ <<"unit", u>> \in Key /\ <<"checks", u>> \in Key
  BY <1>1, RequestTyped, RequestAbout DEF Key
<1>3. /\ rev \in Nat /\ revision <= rev /\ revision' = rev
      /\ rev > revision => rev = revision + 1
  BY <1>1 DEF SaveUnit
<1>4. Write(w, rows, x)
  BY DEF SaveUnit
<1>5. /\ drew \in BOOLEAN /\ second \in BOOLEAN
      /\ second => tx[w].req.op \in {"accept", "toggle"}
  OBVIOUS
<1>6. /\ Follows(x, tx[w]) /\ x.step = "saved" /\ x.todo = {StoreOf[u]}
      /\ x.total = FALSE /\ x.second = second /\ x.drew = drew
  <2>. HIDE DEF drew, second
  <2>. QED BY <1>1 DEF Follows, IsRequest, RequestFields
<1>8. row \in [text : Texts, live : BOOLEAN, revision : 1..revision]
  BY <1>1 DEF RowTyped
<1>9. /\ new \in [text : Texts, live : BOOLEAN, revision : 1..rev]
      /\ new.text = text /\ new.live = row.live
      /\ drew => new.revision = revision + 1
  <2>. DEFINE r == IF rev > revision THEN rev ELSE row.revision
  <2>1. r \in 1..rev /\ (rev > revision => r = revision + 1)
    BY <1>1, <1>3, <1>8
  <2>2. new = [row EXCEPT !.text = text, !.revision = r]
    OBVIOUS
  <2>. HIDE DEF r, new
  <2>. QED BY <1>8, <2>1, <2>2
<1>10. /\ DOMAIN rows = {<<"unit", u>>} \cup IF changed THEN {<<"checks", u>>} ELSE {}
       /\ rows[<<"unit", u>>] = new
       /\ changed => rows[<<"checks", u>>] = checks
  BY DEF Rows, Row
<1>11. RowsTyped(rows, revision')
  <2>. HIDE DEF new, rows
  <2>1. RowTyped(<<"unit", u>>, new, rev) /\ (changed => RowTyped(<<"checks", u>>, checks, rev))
    BY <1>9 DEF RowTyped
  <2>. QED BY <1>2, <1>3, <1>10, <2>1 DEF RowsTyped
<1>12. Step(w, rows, x)
  <2>. HIDE DEF rows, x, drew, new, second
  <2>. QED BY <1>1, <1>2, <1>3, <1>4, <1>5, <1>6, <1>11, MakesStep
<1>. HIDE DEF rows, x, drew, new, second
<1>. QED BY <1>6, <1>9, <1>10, <1>12 DEF Saves

\* One row that is written.
LEMMA RowIsTyped ==
  ASSUME NEW k \in Key, NEW x, NEW n, RowTyped(k, x, n)
  PROVE  RowsTyped(Row(k, x), n) /\ DOMAIN Row(k, x) = {k} /\ Row(k, x)[k] = x
BY DEF RowsTyped, Row

\* A unit that is checked has some of the checks, muted or not.
LEMMA CheckedTyped ==
  ASSUME NEW old \in [Checks -> {"none", "active", "muted"}], NEW text
  PROVE  /\ Checked(old, text) \in [Checks -> {"none", "active", "muted"}]
         /\ CheckedAnew(old, text) \in [Checks -> {"none", "active", "muted"}]
BY DEF Checked, CheckedAnew

\* The rows of the database.
LEMMA Typed ==
  ASSUME TypeInv
  PROVE  /\ DOMAIN db = Key /\ RowsTyped(db, revision)
         /\ \A u \in Units :
              /\ db[<<"unit", u>>] \in [text : Texts, live : BOOLEAN, revision : 1..revision]
              /\ db[<<"checks", u>>] \in [Checks -> {"none", "active", "muted"}]
              /\ db[<<"suggestion", u>>] \in BOOLEAN
         /\ \A s \in Stores : /\ db[<<"obsolete", s>>] \in BOOLEAN
                              /\ IsCount(db[<<"data", s>>])
                              /\ db[<<"data", s>>].revision \in 0..revision
         /\ \A t \in TPs : IsCount(db[<<"total", t>>])
         /\ \A d \in Dirs : db[<<"token", d>>] \in Nat
<1>1. DOMAIN db = Key /\ RowsTyped(db, revision)
  BY DEF TypeInv, DbTyped
<1>. HIDE DEF TypeInv
<1>2. \A k \in Key : RowTyped(k, db[k], revision)
  BY <1>1 DEF RowsTyped
<1>3. \A u \in Units : <<"unit", u>> \in Key /\ <<"checks", u>> \in Key /\ <<"suggestion", u>> \in Key
  BY DEF Key
<1>4. \A s \in Stores : <<"obsolete", s>> \in Key /\ <<"data", s>> \in Key
  BY DEF Key
<1>5. (\A t \in TPs : <<"total", t>> \in Key) /\ (\A d \in Dirs : <<"token", d>> \in Key)
  BY DEF Key
<1>6. \A u \in Units :
         /\ db[<<"unit", u>>] \in [text : Texts, live : BOOLEAN, revision : 1..revision]
         /\ db[<<"checks", u>>] \in [Checks -> {"none", "active", "muted"}]
         /\ db[<<"suggestion", u>>] \in BOOLEAN
  BY <1>2, <1>3 DEF RowTyped
<1>7. \A s \in Stores : /\ db[<<"obsolete", s>>] \in BOOLEAN
                        /\ IsCount(db[<<"data", s>>])
                        /\ db[<<"data", s>>].revision \in 0..revision
  BY <1>2, <1>4 DEF RowTyped
<1>8. (\A t \in TPs : IsCount(db[<<"total", t>>])) /\ (\A d \in Dirs : db[<<"token", d>>] \in Nat)
  BY <1>2, <1>5 DEF RowTyped
<1>. QED BY <1>1, <1>6, <1>7, <1>8

\* A request that is about to be done has what it asks for.
LEMMA LoadedTyped ==
  ASSUME TypeInv, NEW w \in Workers, At(w, "loaded")
  PROVE  /\ ~Idle(w) /\ GoodRequest(tx[w].req) /\ IsRequest(tx[w])
         /\ tx[w].todo = {} /\ tx[w].total = FALSE /\ tx[w].second = FALSE
         /\ tx[w].drew = FALSE /\ View(w) = db
         /\ revision \in Nat \ {0}
<1>1. /\ ~Idle(w) /\ TxTyped(tx[w], revision) /\ GoodRequest(tx[w].req)
      /\ revision \in Nat \ {0}
  BY RequestTyped DEF At, Idle
<1>2. tx[w].wrote = NoRows /\ db = [k \in Key |-> db[k]]
  BY <1>1 DEF TxTyped, At, TypeInv, DbTyped
<1>3. View(w) = db
  BY <1>2 DEF View, Overlay, NoRows
<1>. QED BY <1>1, <1>3 DEF TxTyped, At

\* Suggesting writes the suggestion, and has the Store counted.
LEMMA SuggestWrites ==
  ASSUME TypeInv, NEW w \in Workers, Suggest(w)
  PROVE  LET u == tx[w].req.unit
         IN /\ At(w, "loaded") /\ LoadsUnit(tx[w].req)
            /\ \E rows, x :
                 /\ Step(w, rows, x) /\ x.step = "saved" /\ x.todo = {StoreOf[u]}
                 /\ x.total = FALSE /\ x.second = FALSE /\ x.drew = FALSE
                 /\ DOMAIN rows = {<<"suggestion", u>>}
<1>. DEFINE u == tx[w].req.unit
            rows == Row(<<"suggestion", u>>, tx[w].req.op = "suggest")
            x == [tx[w] EXCEPT !.step = "saved", !.todo = {StoreOf[u]}]
<1>1. At(w, "loaded") /\ tx[w].req.op \in {"suggest", "reject"}
  BY DEF Suggest, Does
<1>2. LoadsUnit(tx[w].req) /\ Write(w, rows, x) /\ revision' = revision
  BY <1>1 DEF Suggest, LoadsUnit
<1>3. /\ ~Idle(w) /\ GoodRequest(tx[w].req) /\ IsRequest(tx[w])
      /\ tx[w].total = FALSE /\ tx[w].second = FALSE /\ tx[w].drew = FALSE
      /\ revision \in Nat \ {0}
  BY <1>1, LoadedTyped
<1>4. /\ u \in Units /\ {StoreOf[u]} \in SUBSET StoresOf(TPOfRequest(tx[w].req))
      /\ <<"suggestion", u>> \in Key
  BY <1>2, <1>3, RequestAbout DEF Key
<1>5. RowsTyped(rows, revision')
  <2>. HIDE DEF u
  <2>1. RowTyped(<<"suggestion", u>>, tx[w].req.op = "suggest", revision')
    BY DEF RowTyped
  <2>. QED BY <1>4, <2>1, RowIsTyped
<1>6. /\ Follows(x, tx[w]) /\ x.step = "saved" /\ x.todo = {StoreOf[u]}
      /\ x.total = FALSE /\ x.second = FALSE /\ x.drew = FALSE
  BY <1>3 DEF Follows, IsRequest, RequestFields
<1>7. DOMAIN rows = {<<"suggestion", u>>}
  BY DEF Row
<1>. HIDE DEF rows, x
<1>8. Step(w, rows, x)
  BY <1>2, <1>3, <1>4, <1>5, <1>6, MakesPlainStep
<1>. QED BY <1>1, <1>2, <1>6, <1>7, <1>8

\* Making a Store obsolete writes just that, and has it counted.
LEMMA HideWrites ==
  ASSUME TypeInv, NEW w \in Workers, Hide(w)
  PROVE  LET s == tx[w].req.store
         IN /\ At(w, "loaded") /\ tx[w].req.op = "hide"
            /\ \E rows, x :
                 /\ Step(w, rows, x) /\ x.step = "saved" /\ x.todo = {s}
                 /\ x.total = FALSE /\ x.second = FALSE /\ x.drew = FALSE
                 /\ DOMAIN rows = {<<"obsolete", s>>}
<1>. DEFINE s == tx[w].req.store
            k == <<"obsolete", s>>
            rows == Row(k, ~db[k])
            x == [tx[w] EXCEPT !.step = "saved", !.todo = {s}]
<1>1. At(w, "loaded") /\ tx[w].req.op = "hide"
  BY DEF Hide, Does
<1>2. Write(w, rows, x) /\ revision' = revision
  BY DEF Hide
<1>3. /\ ~Idle(w) /\ GoodRequest(tx[w].req) /\ IsRequest(tx[w])
      /\ tx[w].total = FALSE /\ tx[w].second = FALSE /\ tx[w].drew = FALSE
      /\ revision \in Nat \ {0}
  BY <1>1, LoadedTyped
<1>4. s \in Stores /\ {s} \in SUBSET StoresOf(TPOfRequest(tx[w].req)) /\ k \in Key
  BY <1>1, <1>3, RequestAbout DEF Key
<1>5. RowsTyped(rows, revision')
  <2>1. RowTyped(k, ~db[k], revision')
    BY DEF RowTyped
  <2>. QED BY <1>4, <2>1, RowIsTyped
<1>6. /\ Follows(x, tx[w]) /\ x.step = "saved" /\ x.todo = {s}
      /\ x.total = FALSE /\ x.second = FALSE /\ x.drew = FALSE
  BY <1>3 DEF Follows, IsRequest, RequestFields
<1>7. DOMAIN rows = {k}
  BY DEF Row
<1>. HIDE DEF rows, x
<1>8. Step(w, rows, x)
  BY <1>2, <1>3, <1>4, <1>5, <1>6, MakesPlainStep
<1>. QED BY <1>1, <1>6, <1>7, <1>8

\* update_data writes nothing itself, and has all counted and summed up.
LEMMA UpdateDataWrites ==
  ASSUME TypeInv, NEW w \in Workers, UpdateData(w)
  PROVE  /\ At(w, "loaded") /\ tx[w].req.op = "update_data"
         /\ \E x : /\ Step(w, NoRows, x) /\ x.step = "saved" /\ x.todo = {tx[w].req.store}
                   /\ x.total = TRUE /\ x.second = FALSE /\ x.drew = FALSE
<1>. DEFINE s == tx[w].req.store
            x == [tx[w] EXCEPT !.step = "saved", !.todo = {s}, !.total = TRUE]
<1>1. At(w, "loaded") /\ tx[w].req.op = "update_data"
  BY DEF UpdateData, Does
<1>2. Write(w, NoRows, x) /\ revision' = revision
  BY DEF UpdateData
<1>3. /\ ~Idle(w) /\ GoodRequest(tx[w].req) /\ IsRequest(tx[w])
      /\ tx[w].total = FALSE /\ tx[w].second = FALSE /\ tx[w].drew = FALSE
      /\ revision \in Nat \ {0}
  BY <1>1, LoadedTyped
<1>4. {s} \in SUBSET StoresOf(TPOfRequest(tx[w].req))
  BY <1>1, <1>3, RequestAbout
<1>5. RowsTyped(NoRows, revision')
  BY DEF RowsTyped, NoRows
<1>6. /\ Follows(x, tx[w]) /\ x.step = "saved" /\ x.todo = {s}
      /\ x.total = TRUE /\ x.second = FALSE /\ x.drew = FALSE
  BY <1>3 DEF Follows, IsRequest, RequestFields
<1>. HIDE DEF x
<1>7. Step(w, NoRows, x)
  <2>1. revision' \in Nat /\ revision <= revision'
    BY <1>2, <1>3
  <2>2. /\ x.step \in {"saved", "counted", "summed"}
        /\ x.todo \subseteq StoresOf(TPOfRequest(tx[w].req))
    BY <1>4, <1>6
  <2>3. /\ x.total \in BOOLEAN /\ (x.total => tx[w].req.op = "update_data")
        /\ x.second \in BOOLEAN /\ (x.second => tx[w].req.op \in {"accept", "toggle"})
        /\ x.drew \in BOOLEAN
    BY <1>1, <1>6
  <2>. QED BY <1>2, <1>3, <1>5, <1>6, <2>1, <2>2, <2>3, MakesStep
<1>. QED BY <1>1, <1>6, <1>7

\* The three that save a unit
LEMMA EditWrites ==
  ASSUME TypeInv, NEW w \in Workers, Submit(w) \/ Accept(w) \/ Toggle(w)
  PROVE  /\ At(w, "loaded") /\ LoadsUnit(tx[w].req)
         /\ \E text \in Texts : /\ tx[w].req.op = "toggle" => text = tx[w].row.text
                              /\ \E rows, x : Saves(w, text, rows, x)
<1>. DEFINE u == tx[w].req.unit
            old == db[<<"checks", u>>]
<1>1. At(w, "loaded") /\ tx[w].req.op \in {"submit", "accept", "toggle"}
  BY DEF Submit, Accept, Toggle, Does
<1>2. LoadsUnit(tx[w].req) /\ GoodRequest(tx[w].req)
  BY <1>1, LoadedTyped DEF LoadsUnit
<1>3. u \in Units
  BY <1>2, RequestAbout
<1>4. old \in [Checks -> {"none", "active", "muted"}]
  BY <1>3, Typed
<1>5. tx[w].req.op \in {"submit", "accept"} => tx[w].req.arg \in Texts
  BY <1>2 DEF GoodRequest
<1>6. tx[w].row.text \in Texts
  <2>1. RowTyped(<<"unit", u>>, tx[w].row, revision)
    BY <1>1, <1>2, RequestTyped DEF TxTyped, At, Idle
  <2>. QED BY <2>1 DEF RowTyped
<1>7. CASE Submit(w) \/ Accept(w)
  <2>1. PICK checks : /\ checks \in {Checked(old, tx[w].req.arg), CheckedAnew(old, tx[w].req.arg)}
                      /\ SaveUnit(w, tx[w].req.arg, checks)
    BY <1>7 DEF Submit, Accept
  <2>2. tx[w].req.arg \in Texts
    BY <1>5, <1>7 DEF Submit, Accept, Does
  <2>3. checks \in [Checks -> {"none", "active", "muted"}]
    BY <1>4, <2>1, CheckedTyped
  <2>4. \E rows, x : Saves(w, tx[w].req.arg, rows, x)
    BY <1>1, <2>1, <2>2, <2>3, SaveUnitWrites
  <2>5. tx[w].req.op # "toggle"
    BY <1>7 DEF Submit, Accept, Does
  <2>. QED BY <1>1, <1>2, <2>2, <2>4, <2>5
<1>8. CASE Toggle(w)
  <2>1. SaveUnit(w, tx[w].row.text, NULL)
    BY <1>8 DEF Toggle
  <2>2. \E rows, x : Saves(w, tx[w].row.text, rows, x)
    BY <1>1, <1>6, <2>1, SaveUnitWrites
  <2>. QED BY <1>1, <1>2, <1>6, <2>2
<1>. QED BY <1>7, <1>8

\* The update of a Store: its units only, a unit that is there after it as it is
\* in the file and checked.
LEMMA UpdateWrites ==
  ASSUME TypeInv, NEW w \in Workers, Update(w)
  PROVE  LET s == tx[w].req.store
         IN /\ At(w, "loaded") /\ tx[w].req.op = "update"
            /\ \E rows, x :
                 /\ Step(w, rows, x) /\ x.step = "saved" /\ x.todo \subseteq {s}
                 /\ x.total = FALSE /\ x.second = FALSE
                 /\ DOMAIN rows \subseteq {"unit", "checks"} \X UnitsOf(s)
                 /\ x.todo = {} => DOMAIN rows = {}
                 /\ x.drew => /\ x.todo = {s}
                              /\ \E u \in UnitsOf(s) :
                                   /\ <<"unit", u>> \in DOMAIN rows
                                   /\ rows[<<"unit", u>>].revision = revision + 1
                 /\ ~x.drew => x.todo = {}
                 /\ \A u \in UnitsOf(s) :
                      /\ <<"checks", u>> \in DOMAIN rows =>
                           /\ <<"unit", u>> \in DOMAIN rows
                           /\ rows[<<"checks", u>>] = Checked(db[<<"checks", u>>],
                                                              rows[<<"unit", u>>].text)
                      /\ <<"unit", u>> \in DOMAIN rows /\ <<"checks", u>> \notin DOMAIN rows
                           => ~rows[<<"unit", u>>].live
<1>. DEFINE s == tx[w].req.store
            file == tx[w].req.file
            old(u) == db[<<"unit", u>>]
            gone == {u \in UnitsOf(s) \ DOMAIN file : old(u).live}
            given == {u \in DOMAIN file : ~old(u).live \/ old(u).text # file[u]}
            unit == [k \in {"unit"} \X (gone \cup given) |->
                       IF k[2] \in given
                       THEN [text |-> file[k[2]], live |-> TRUE, revision |-> revision + 1]
                       ELSE [text |-> old(k[2]).text, live |-> FALSE,
                             revision |-> revision + 1]]
            checks == [k \in {"checks"} \X given |-> Checked(db[k], file[k[2]])]
            any == gone \cup given # {}
            rows == Rows(unit, checks)
            x == [tx[w] EXCEPT !.step = "saved", !.drew = any,
                               !.todo = IF any THEN {s} ELSE {}]
<1>1. At(w, "loaded") /\ tx[w].req.op = "update"
  BY DEF Update, Does
<1>2. Write(w, rows, x) /\ revision' = IF any THEN revision + 1 ELSE revision
  BY DEF Update
<1>3. /\ ~Idle(w) /\ GoodRequest(tx[w].req) /\ IsRequest(tx[w])
      /\ tx[w].total = FALSE /\ tx[w].second = FALSE /\ tx[w].drew = FALSE
      /\ revision \in Nat \ {0}
  BY <1>1, LoadedTyped
<1>4. /\ s \in Stores /\ {s} \subseteq StoresOf(TPOfRequest(tx[w].req))
      /\ DOMAIN file \subseteq UnitsOf(s) /\ file \in [DOMAIN file -> Texts]
  <2>. HIDE DEF x, rows, any, gone, given
  <2>1. /\ s \in Stores /\ DOMAIN file \subseteq UnitsOf(s) /\ file \in [DOMAIN file -> Texts]
    BY <1>1, <1>3 DEF GoodRequest
  <2>. QED BY <1>1, <1>3, <2>1, RequestAbout
<1>5. revision' \in Nat /\ revision <= revision'
  <2>. HIDE DEF any, rows, x
  <2>. QED BY <1>2, <1>3
<1>6. any \in BOOLEAN /\ gone \subseteq UnitsOf(s) /\ given \subseteq UnitsOf(s)
  BY <1>4
<1>7. /\ Follows(x, tx[w]) /\ x.step = "saved" /\ x.todo = (IF any THEN {s} ELSE {})
      /\ x.total = FALSE /\ x.second = FALSE /\ x.drew = any
  <2>. DEFINE todo == IF any THEN {s} ELSE {}
  <2>1. x = [tx[w] EXCEPT !.step = "saved", !.drew = any, !.todo = todo]
    OBVIOUS
  <2>. HIDE DEF any, todo, x
  <2>2. /\ Follows(x, tx[w]) /\ x.step = "saved" /\ x.todo = todo
        /\ x.total = FALSE /\ x.second = FALSE /\ x.drew = any
    BY <1>3, <2>1 DEF Follows, IsRequest, RequestFields
  <2>. QED BY <2>2 DEF todo
<1>8. DOMAIN rows = ({"unit"} \X (gone \cup given)) \cup ({"checks"} \X given)
  BY DEF Rows
<1>9. /\ \A u \in given :
           /\ <<"unit", u>> \in DOMAIN rows
           /\ rows[<<"unit", u>>] = [text |-> file[u], live |-> TRUE, revision |-> revision + 1]
      /\ \A u \in gone :
           /\ <<"unit", u>> \in DOMAIN rows
           /\ rows[<<"unit", u>>] =
                [text |-> old(u).text, live |-> FALSE, revision |-> revision + 1]
  <2>. DEFINE S == gone \cup given
  <2>. HIDE DEF x, checks, any
  <2>1. ASSUME NEW u \in S
        PROVE  /\ <<"unit", u>> \in DOMAIN rows
               /\ rows[<<"unit", u>>] =
                    IF u \in given
                    THEN [text |-> file[u], live |-> TRUE, revision |-> revision + 1]
                    ELSE [text |-> old(u).text, live |-> FALSE, revision |-> revision + 1]
    <3>1. <<"unit", u>> \in DOMAIN unit /\ <<"unit", u>>[2] = u
      OBVIOUS
    <3>2. <<"unit", u>> \in DOMAIN rows /\ rows[<<"unit", u>>] = unit[<<"unit", u>>]
      BY <3>1 DEF Rows
    <3>. HIDE DEF given, rows, gone
    <3>. QED BY <3>1, <3>2
  <2>2. \A u \in gone : u \notin given
    OBVIOUS
  <2>. HIDE DEF unit, rows, given, gone
  <2>. QED BY <2>1, <2>2
<1>91. /\ \A u \in given :
            /\ rows[<<"unit", u>>].text = file[u]
            /\ rows[<<"unit", u>>].revision = revision + 1
       /\ \A u \in gone :
            /\ rows[<<"unit", u>>].live = FALSE
            /\ rows[<<"unit", u>>].revision = revision + 1
  <2>. HIDE DEF x, rows, given, file
  <2>1. ASSUME NEW u \in given
        PROVE  /\ rows[<<"unit", u>>].text = file[u]
               /\ rows[<<"unit", u>>].revision = revision + 1
    <3>1. rows[<<"unit", u>>] = [text |-> file[u], live |-> TRUE, revision |-> revision + 1]
      BY <1>9
    <3>. QED BY <3>1
  <2>2. ASSUME NEW u \in gone
        PROVE  /\ rows[<<"unit", u>>].live = FALSE
               /\ rows[<<"unit", u>>].revision = revision + 1
    <3>. HIDE DEF old, gone
    <3>1. rows[<<"unit", u>>] =
            [text |-> old(u).text, live |-> FALSE, revision |-> revision + 1]
      BY <1>9
    <3>. QED BY <3>1
  <2>. HIDE DEF gone
  <2>. QED BY <2>1, <2>2
<1>10. \A u \in given : /\ <<"checks", u>> \in DOMAIN rows
                         /\ rows[<<"checks", u>>] = Checked(db[<<"checks", u>>], file[u])
  <2>. SUFFICES ASSUME NEW u \in given
                PROVE  /\ <<"checks", u>> \in DOMAIN rows
                       /\ rows[<<"checks", u>>] = Checked(db[<<"checks", u>>], file[u])
    OBVIOUS
  <2>1. /\ <<"checks", u>> \in DOMAIN checks /\ <<"checks", u>>[2] = u
        /\ <<"checks", u>> \notin DOMAIN unit
    OBVIOUS
  <2>2. rows[<<"checks", u>>] = checks[<<"checks", u>>]
    BY <2>1 DEF Rows
  <2>. QED BY <1>8, <2>1, <2>2
<1>11. RowsTyped(rows, revision')
  <2>1. gone \cup given # {} => revision' = revision + 1
    BY <1>2
  <2>2. gone \subseteq Units /\ given \subseteq Units /\ given \subseteq DOMAIN file
    BY <1>6 DEF UnitsOf
  <2>3. DOMAIN rows \subseteq Key
    BY <1>8, <2>2 DEF Key
  <2>. HIDE DEF rows, gone, given, x, any, unit, checks
  <2>4. ASSUME NEW u \in gone \cup given
        PROVE  RowTyped(<<"unit", u>>, rows[<<"unit", u>>], revision')
    <3>1. u \in Units /\ revision' = revision + 1 /\ revision + 1 \in 1..revision'
      BY <1>3, <2>1, <2>2
    <3>2. old(u) \in [text : Texts, live : BOOLEAN, revision : 1..revision]
      BY <3>1, Typed
    <3>. SUFFICES rows[<<"unit", u>>] \in
                    [text : Texts, live : BOOLEAN, revision : 1..revision']
      BY DEF RowTyped
    <3>3. CASE u \in given
      <4>1. file[u] \in Texts
        BY <1>4, <2>2, <3>3
      <4>2. rows[<<"unit", u>>] = [text |-> file[u], live |-> TRUE, revision |-> revision + 1]
        BY <1>9, <3>3
      <4>. HIDE DEF file
      <4>. QED BY <3>1, <4>1, <4>2
    <3>4. CASE u \in gone
      <4>. HIDE DEF old
      <4>1. rows[<<"unit", u>>] = [text |-> old(u).text, live |-> FALSE, revision |-> revision + 1]
        BY <1>9, <3>4
      <4>. QED BY <3>1, <3>2, <4>1
    <3>. QED BY <3>3, <3>4
  <2>5. ASSUME NEW u \in given
        PROVE  RowTyped(<<"checks", u>>, rows[<<"checks", u>>], revision')
    <3>1. db[<<"checks", u>>] \in [Checks -> {"none", "active", "muted"}]
      BY <2>2, Typed
    <3>2. Checked(db[<<"checks", u>>], file[u]) \in [Checks -> {"none", "active", "muted"}]
      BY <3>1, CheckedTyped
    <3>3. rows[<<"checks", u>>] \in [Checks -> {"none", "active", "muted"}]
      BY <1>10, <3>2
    <3>. QED BY <3>3 DEF RowTyped
  <2>. QED BY <1>8, <2>3, <2>4, <2>5 DEF RowsTyped
<1>. HIDE DEF rows, x, any, gone, given, unit, checks
<1>12. Step(w, rows, x)
  <2>1. /\ x.step \in {"saved", "counted", "summed"}
        /\ x.todo \subseteq StoresOf(TPOfRequest(tx[w].req))
    BY <1>4, <1>7
  <2>2. /\ x.total \in BOOLEAN /\ (x.total => tx[w].req.op = "update_data")
        /\ x.second \in BOOLEAN /\ (x.second => tx[w].req.op \in {"accept", "toggle"})
        /\ x.drew \in BOOLEAN
    BY <1>6, <1>7
  <2>. QED BY <1>2, <1>3, <1>5, <1>7, <1>11, <2>1, <2>2, MakesStep
<1>13. /\ x.todo \subseteq {s} /\ (x.drew => x.todo = {s}) /\ (~x.drew => x.todo = {})
       /\ x.todo = {} => ~any
  BY <1>7
<1>14. DOMAIN rows \subseteq {"unit", "checks"} \X UnitsOf(s)
  BY <1>6, <1>8
<1>15. any => \E u \in UnitsOf(s) : /\ <<"unit", u>> \in DOMAIN rows
                                    /\ rows[<<"unit", u>>].revision = revision + 1
  <2>1. any => \E u : u \in gone \/ u \in given
    BY DEF any
  <2>2. \A u : u \in gone \/ u \in given => u \in UnitsOf(s) /\ <<"unit", u>> \in DOMAIN rows
    BY <1>6, <1>9
  <2>. QED BY <1>91, <2>1, <2>2
<1>16. ~any => DOMAIN rows = {}
  BY <1>8 DEF any
<1>17. ASSUME NEW u \in UnitsOf(s)
       PROVE  /\ <<"checks", u>> \in DOMAIN rows =>
                   /\ <<"unit", u>> \in DOMAIN rows
                   /\ rows[<<"checks", u>>] = Checked(db[<<"checks", u>>],
                                                      rows[<<"unit", u>>].text)
              /\ <<"unit", u>> \in DOMAIN rows /\ <<"checks", u>> \notin DOMAIN rows
                   => ~rows[<<"unit", u>>].live
  <2>1. <<"checks", u>> \in DOMAIN rows => u \in given
    BY <1>8
  <2>2. <<"unit", u>> \in DOMAIN rows => u \in gone \cup given
    BY <1>8
  <2>3. u \in given => /\ <<"unit", u>> \in DOMAIN rows /\ <<"checks", u>> \in DOMAIN rows
    BY <1>8
  <2>4. u \in given => rows[<<"checks", u>>] =
                         Checked(db[<<"checks", u>>], rows[<<"unit", u>>].text)
    BY <1>91, <1>10
  <2>5. u \in gone \ given => rows[<<"unit", u>>].live = FALSE
    BY <1>91
  <2>. QED BY <2>1, <2>2, <2>3, <2>4, <2>5
<1>. QED BY <1>1, <1>7, <1>12, <1>13, <1>14, <1>15, <1>16, <1>17

\* All units of a translation project are checked.
LEMMA CalculateChecksWrites ==
  ASSUME TypeInv, NEW w \in Workers, CalculateChecks(w)
  PROVE  /\ At(w, "loaded") /\ tx[w].req.op = "calculate_checks"
         /\ \E rows, x :
              /\ Step(w, rows, x) /\ x.step = "saved"
              /\ x.todo = {StoreOf[k[2]] : k \in DOMAIN rows}
              /\ x.total = FALSE /\ x.second = FALSE /\ x.drew = FALSE
              /\ DOMAIN rows \subseteq
                   {"checks"} \X {u \in Units : TPOf[StoreOf[u]] = tx[w].req.tp}
              /\ \A k \in DOMAIN rows :
                   LET unit == db[<<"unit", k[2]>>]
                   IN rows[k] = Checked(db[k], IF unit.live THEN unit.text ELSE "")
<1>. DEFINE units == {u \in Units : TPOf[StoreOf[u]] = tx[w].req.tp}
            text(u) == IF db[<<"unit", u>>].live THEN db[<<"unit", u>>].text ELSE ""
            new == [k \in {"checks"} \X units |-> Checked(db[k], text(k[2]))]
            differ == {k \in DOMAIN new : new[k] # db[k]}
            rows == [k \in differ |-> new[k]]
            todo == {StoreOf[k[2]] : k \in differ}
            x == [tx[w] EXCEPT !.step = "saved", !.todo = todo]
<1>1. At(w, "loaded") /\ tx[w].req.op = "calculate_checks"
  BY DEF CalculateChecks, Does
<1>2. Write(w, rows, x) /\ revision' = revision
  BY DEF CalculateChecks
<1>3. /\ ~Idle(w) /\ GoodRequest(tx[w].req) /\ IsRequest(tx[w])
      /\ tx[w].total = FALSE /\ tx[w].second = FALSE /\ tx[w].drew = FALSE
      /\ revision \in Nat \ {0}
  BY <1>1, LoadedTyped
<1>4. /\ differ \subseteq {"checks"} \X units /\ DOMAIN rows = differ
      /\ \A k \in differ : /\ k[1] = "checks" /\ k[2] \in units /\ k[2] \in Units
                           /\ k = <<"checks", k[2]>> /\ TPOf[StoreOf[k[2]]] = tx[w].req.tp
  <2>1. differ \subseteq {"checks"} \X units /\ DOMAIN rows = differ
    OBVIOUS
  <2>2. \A k \in {"checks"} \X units : k[1] = "checks" /\ k[2] \in units /\ k = <<k[1], k[2]>>
    OBVIOUS
  <2>. HIDE DEF differ
  <2>. QED BY <2>1, <2>2
<1>5. todo \in SUBSET StoresOf(TPOfRequest(tx[w].req))
  <2>1. TPOfRequest(tx[w].req) = tx[w].req.tp
    BY <1>1, <1>3, RequestAbout
  <2>. HIDE DEF differ
  <2>. QED BY <1>4, <2>1, TreeAssumption DEF StoresOf
<1>6. \A k \in differ : rows[k] = Checked(db[k], text(k[2]))
  BY <1>4
<1>7. RowsTyped(rows, revision')
  <2>1. differ \subseteq Key
    BY <1>4 DEF Key
  <2>2. ASSUME NEW k \in differ
        PROVE  RowTyped(k, rows[k], revision')
    <3>1. k[1] = "checks" /\ k[2] \in Units /\ k = <<"checks", k[2]>>
      BY <1>4
    <3>2. db[<<"checks", k[2]>>] \in [Checks -> {"none", "active", "muted"}]
      BY <3>1, Typed
    <3>3. Checked(db[k], text(k[2])) \in [Checks -> {"none", "active", "muted"}]
      BY <3>1, <3>2, CheckedTyped
    <3>4. rows[k] \in [Checks -> {"none", "active", "muted"}]
      BY <1>6, <3>3
    <3>. HIDE DEF rows, differ
    <3>. QED BY <3>1, <3>4 DEF RowTyped
  <2>. HIDE DEF rows, differ
  <2>. QED BY <1>4, <2>1, <2>2 DEF RowsTyped
<1>8. /\ Follows(x, tx[w]) /\ x.step = "saved" /\ x.todo = todo
      /\ x.total = FALSE /\ x.second = FALSE /\ x.drew = FALSE
  <2>. HIDE DEF todo
  <2>. QED BY <1>3 DEF Follows, IsRequest, RequestFields
<1>. HIDE DEF rows, x, differ
<1>9. Step(w, rows, x)
  <2>. HIDE DEF todo
  <2>. QED BY <1>2, <1>3, <1>5, <1>7, <1>8, MakesPlainStep
<1>. QED BY <1>1, <1>4, <1>6, <1>8, <1>9

\* The rows as a request sees them.
LEMMA ViewRows ==
  ASSUME TypeInv, NEW w \in Workers
  PROVE  /\ \A u \in Units :
              /\ View(w)[<<"unit", u>>] \in [text : Texts, live : BOOLEAN, revision : 1..revision]
              /\ View(w)[<<"unit", u>>].revision \in 0..revision
              /\ View(w)[<<"checks", u>>] \in [Checks -> {"none", "active", "muted"}]
         /\ \A s \in Stores : /\ IsCount(View(w)[<<"data", s>>])
                              /\ View(w)[<<"data", s>>].revision \in 0..revision
         /\ \A t \in TPs : IsCount(View(w)[<<"total", t>>])
         /\ \A d \in Dirs : View(w)[<<"token", d>>] \in Nat
<1>1. \A k \in Key : RowTyped(k, View(w)[k], revision)
  BY ViewTyped
<1>2. /\ \A u \in Units : <<"unit", u>> \in Key /\ <<"checks", u>> \in Key
      /\ \A s \in Stores : <<"data", s>> \in Key
      /\ \A t \in TPs : <<"total", t>> \in Key
      /\ \A d \in Dirs : <<"token", d>> \in Key
  BY DEF Key
<1>3. \A u \in Units :
        /\ View(w)[<<"unit", u>>] \in [text : Texts, live : BOOLEAN, revision : 1..revision]
        /\ View(w)[<<"checks", u>>] \in [Checks -> {"none", "active", "muted"}]
  BY <1>1, <1>2 DEF RowTyped
<1>4. \A u \in Units : View(w)[<<"unit", u>>].revision \in 0..revision
  <2>1. revision \in Nat /\ 1..revision \subseteq 0..revision
    BY DEF TypeInv
  <2>2. \A u \in Units : View(w)[<<"unit", u>>].revision \in 1..revision
    BY <1>3
  <2>. QED BY <2>1, <2>2
<1>5. /\ \A s \in Stores : /\ IsCount(View(w)[<<"data", s>>])
                           /\ View(w)[<<"data", s>>].revision \in 0..revision
      /\ \A t \in TPs : IsCount(View(w)[<<"total", t>>])
      /\ \A d \in Dirs : View(w)[<<"token", d>>] \in Nat
  BY <1>1, <1>2 DEF RowTyped
<1>. QED BY <1>3, <1>4, <1>5

\* Each row is what it was, if it is not written.
LEMMA ChangedRow ==
  ASSUME TypeInv, NEW w \in Workers, NEW k \in Key, NEW new, RowTyped(k, new, revision)
  PROVE  /\ RowsTyped(Changed(w, Row(k, new)), revision)
         /\ DOMAIN Changed(w, Row(k, new)) \subseteq {k}
         /\ (IF k \in DOMAIN Changed(w, Row(k, new)) THEN Changed(w, Row(k, new))[k]
             ELSE View(w)[k]) = new
BY DEF Changed, Row, RowsTyped

\* A Store is counted; the signal goes on if the counts, those of each check
\* aside, are new.
Counts(w, s, rows, x) ==
  LET k == <<"data", s>>
      new == Counted(View(w), s)
  IN /\ Step(w, rows, x) /\ x.todo = tx[w].todo \ {s}
     /\ x.total = tx[w].total /\ x.second = tx[w].second /\ x.drew = tx[w].drew
     /\ DOMAIN rows \subseteq {k}
     /\ (IF k \in DOMAIN rows THEN rows[k] ELSE View(w)[k]) = new
     /\ x.step \in {"saved", "counted"}
     /\ x.step = "saved" => SameButChecks(new, View(w)[k])
     /\ x.step = "counted" => ~SameButChecks(new, View(w)[k])
\* Counting writes what a Store amounts to.
LEMMA CountWrites ==
  ASSUME TypeInv, NEW w \in Workers, Count(w)
  PROVE  /\ At(w, "saved")
         /\ \E s \in tx[w].todo : s \in Stores /\ \E rows, x : Counts(w, s, rows, x)
<1>1. At(w, "saved") /\ revision' = revision /\ ~Idle(w)
  BY DEF Count, At, Idle
<1>2. /\ IsRequest(tx[w]) /\ revision \in Nat \ {0}
      /\ tx[w].todo \subseteq StoresOf(TPOfRequest(tx[w].req))
      /\ tx[w].total \in BOOLEAN /\ (tx[w].total => tx[w].req.op = "update_data")
      /\ tx[w].second \in BOOLEAN /\ (tx[w].second => tx[w].req.op \in {"accept", "toggle"})
      /\ tx[w].drew \in BOOLEAN
  <2>1. TxTyped(tx[w], revision) /\ revision \in Nat \ {0} /\ tx[w].step = "saved"
    BY <1>1, RequestTyped DEF At
  <2>. QED BY <2>1 DEF TxTyped
<1>3. PICK s \in tx[w].todo :
        LET old == View(w)[<<"data", s>>]
            new == Counted(View(w), s)
            moved == [new EXCEPT !.checks = old.checks] # old
        IN Write(w, Changed(w, Row(<<"data", s>>, new)),
                 [tx[w] EXCEPT !.step = IF moved THEN "counted" ELSE "saved",
                               !.todo = @ \ {s}])
  BY DEF Count
<1>. DEFINE k == <<"data", s>>
            old == View(w)[k]
            new == Counted(View(w), s)
            moved == [new EXCEPT !.checks = old.checks] # old
            step == IF moved THEN "counted" ELSE "saved"
            rows == Changed(w, Row(k, new))
            todo == tx[w].todo \ {s}
            x == [tx[w] EXCEPT !.step = step, !.todo = todo]
<1>4. s \in Stores /\ k \in Key
  BY <1>2 DEF StoresOf, Key
<1>5. RowTyped(k, old, revision) /\ RowTyped(k, new, revision)
  <2>1. RowsTyped(View(w), revision) /\ DOMAIN View(w) = Key /\ RowTyped(k, old, revision)
    BY <1>4, ViewTyped
  <2>2. IsCount(new) /\ new.revision \in 0..revision
    <3>1. \A u \in Units : View(w)[<<"unit", u>>].revision \in 0..revision
      BY <1>2, ViewRows
    <3>. QED BY <1>2, <1>4, <3>1, CountedTyped
  <2>. HIDE DEF new, old
  <2>. QED BY <2>1, <2>2 DEF RowTyped
<1>6. moved <=> ~SameButChecks(new, old)
  <2>1. IsCount(new) /\ IsCount(old)
    BY <1>5 DEF RowTyped
  <2>. HIDE DEF new, old
  <2>. QED BY <2>1 DEF SameButChecks, IsCount
<1>7. /\ RowsTyped(rows, revision) /\ DOMAIN rows \subseteq {k}
      /\ (IF k \in DOMAIN rows THEN rows[k] ELSE View(w)[k]) = new
  <2>. HIDE DEF new, k
  <2>. QED BY <1>4, <1>5, ChangedRow
<1>8. Write(w, rows, x)
  BY <1>3
<1>9. /\ Follows(x, tx[w]) /\ x.step = step /\ x.todo = todo
      /\ x.total = tx[w].total /\ x.second = tx[w].second /\ x.drew = tx[w].drew
  <2>. HIDE DEF step, todo
  <2>. QED BY <1>2 DEF Follows, IsRequest, RequestFields
<1>10. step \in {"saved", "counted"} /\ todo \subseteq StoresOf(TPOfRequest(tx[w].req))
  BY <1>2
<1>11. Step(w, rows, x)
  <2>. HIDE DEF rows, x, step, todo
  <2>1. /\ x.step \in {"saved", "counted", "summed"}
        /\ x.todo \subseteq StoresOf(TPOfRequest(tx[w].req))
        /\ x.total \in BOOLEAN /\ x.second \in BOOLEAN /\ x.drew \in BOOLEAN
    BY <1>2, <1>9, <1>10
  <2>2. /\ x.total => tx[w].req.op = "update_data"
        /\ x.second => tx[w].req.op \in {"accept", "toggle"}
    BY <1>2, <1>9
  <2>3. revision' \in Nat /\ revision <= revision' /\ RowsTyped(rows, revision')
    BY <1>1, <1>2, <1>7
  <2>. QED BY <1>1, <1>8, <1>9, <2>1, <2>2, <2>3, MakesStep
<1>12. /\ x.step \in {"saved", "counted"}
       /\ x.step = "saved" => SameButChecks(new, old)
       /\ x.step = "counted" => ~SameButChecks(new, old)
  <2>1. step = IF moved THEN "counted" ELSE "saved"
    OBVIOUS
  <2>. HIDE DEF new, old, moved, step, x
  <2>. QED BY <1>6, <1>9, <2>1
<1>13. Counts(w, s, rows, x)
  <2>. HIDE DEF rows, x, step
  <2>. QED BY <1>7, <1>9, <1>11, <1>12 DEF Counts
<1>. QED BY <1>1, <1>4, <1>13

\* The project is summed up, by the signal or by update_data.
Sums(w, rows, x) ==
  LET t == TPOfRequest(tx[w].req)
      k == <<"total", t>>
  IN /\ Step(w, rows, x) /\ x.todo = tx[w].todo /\ x.second = tx[w].second
     /\ x.drew = tx[w].drew /\ t \in TPs
     /\ DOMAIN rows \subseteq {k}
     /\ (IF k \in DOMAIN rows THEN rows[k] ELSE View(w)[k]) = Summed(View(w), t)
\* Summing up writes what the Stores of a translation project amount to.
LEMMA SumRowsWrites ==
  ASSUME TypeInv, NEW w \in Workers, ~Idle(w)
  PROVE  LET t == TPOfRequest(tx[w].req)
             k == <<"total", t>>
         IN /\ t \in TPs
            /\ RowsTyped(SumRows(w), revision) /\ DOMAIN SumRows(w) \subseteq {k}
            /\ (IF k \in DOMAIN SumRows(w) THEN SumRows(w)[k] ELSE View(w)[k]) =
                 Summed(View(w), t)
<1>. DEFINE t == TPOfRequest(tx[w].req)
            k == <<"total", t>>
            new == Summed(View(w), t)
<1>1. t \in TPs /\ k \in Key
  BY RequestTyped, RequestAbout DEF Key
<1>2. RowTyped(k, new, revision)
  <2>1. IsCount(new)
    BY SummedTyped
  <2>. HIDE DEF new
  <2>. QED BY <2>1 DEF RowTyped
<1>3. SumRows(w) = Changed(w, Row(k, new))
  BY DEF SumRows
<1>4. /\ RowsTyped(SumRows(w), revision) /\ DOMAIN SumRows(w) \subseteq {k}
      /\ (IF k \in DOMAIN SumRows(w) THEN SumRows(w)[k] ELSE View(w)[k]) = new
  <2>. HIDE DEF new, k
  <2>. QED BY <1>1, <1>2, <1>3, ChangedRow
<1>. QED BY <1>1, <1>4

\* Summing up after a count writes the sums and renews tokens.
LEMMA SumUpWrites ==
  ASSUME TypeInv, NEW w \in Workers, SumUp(w)
  PROVE  /\ At(w, "counted")
         /\ \E rows, x : Sums(w, rows, x) /\ x.step = "summed" /\ x.total = tx[w].total
<1>. DEFINE rows == SumRows(w)
            x == [tx[w] EXCEPT !.step = "summed"]
<1>1. /\ At(w, "counted") /\ revision' = revision /\ ~Idle(w) /\ Write(w, rows, x)
      /\ tx[w].step = "counted"
  BY DEF SumUp, At, Idle
<1>2. TxTyped(tx[w], revision) /\ revision \in Nat \ {0}
  BY <1>1, RequestTyped
<1>3. /\ Follows(x, tx[w]) /\ x.step = "summed" /\ x.todo = tx[w].todo
      /\ x.total = tx[w].total /\ x.second = tx[w].second /\ x.drew = tx[w].drew
  BY <1>2 DEF TxTyped, Follows, IsRequest, RequestFields
<1>4. RowsTyped(rows, revision') /\ revision' \in Nat /\ revision <= revision'
  <2>1. RowsTyped(SumRows(w), revision)
    <3>. HIDE DEF x
    <3>. QED BY <1>1, SumRowsWrites
  <2>. HIDE DEF x
  <2>. QED BY <1>1, <1>2, <2>1
<1>. HIDE DEF rows, x
<1>5. /\ x.todo \subseteq StoresOf(TPOfRequest(tx[w].req)) /\ x.total \in BOOLEAN
      /\ x.second \in BOOLEAN /\ x.drew \in BOOLEAN
      /\ (x.total => tx[w].req.op = "update_data")
      /\ (x.second => tx[w].req.op \in {"accept", "toggle"})
  BY <1>1, <1>2, <1>3 DEF TxTyped
<1>6. Step(w, rows, x)
  BY <1>1, <1>3, <1>4, <1>5, MakesStep
<1>. QED BY <1>1, <1>3, <1>6, SumRowsWrites DEF Sums, rows

\* update_data sums up and renews no token.
LEMMA TotalWrites ==
  ASSUME TypeInv, NEW w \in Workers, Total(w)
  PROVE  /\ At(w, "saved") /\ tx[w].todo = {} /\ tx[w].total
         /\ \E rows, x : Sums(w, rows, x) /\ x.step = "saved" /\ x.total = FALSE
<1>. DEFINE rows == SumRows(w)
            x == [tx[w] EXCEPT !.total = FALSE]
<1>1. /\ At(w, "saved") /\ revision' = revision /\ ~Idle(w) /\ Write(w, rows, x)
      /\ tx[w].step = "saved" /\ tx[w].todo = {} /\ tx[w].total
  BY DEF Total, At, Idle
<1>2. TxTyped(tx[w], revision) /\ revision \in Nat \ {0}
  BY <1>1, RequestTyped
<1>3. /\ Follows(x, tx[w]) /\ x.step = "saved" /\ x.todo = tx[w].todo
      /\ x.total = FALSE /\ x.second = tx[w].second /\ x.drew = tx[w].drew
  BY <1>1, <1>2 DEF TxTyped, Follows, IsRequest, RequestFields
<1>4. RowsTyped(rows, revision') /\ revision' \in Nat /\ revision <= revision'
  <2>1. RowsTyped(SumRows(w), revision)
    <3>. HIDE DEF x
    <3>. QED BY <1>1, SumRowsWrites
  <2>. HIDE DEF x
  <2>. QED BY <1>1, <1>2, <2>1
<1>. HIDE DEF rows, x
<1>5. /\ x.todo \subseteq StoresOf(TPOfRequest(tx[w].req)) /\ x.total \in BOOLEAN
      /\ x.second \in BOOLEAN /\ x.drew \in BOOLEAN
      /\ (x.total => tx[w].req.op = "update_data")
      /\ (x.second => tx[w].req.op \in {"accept", "toggle"})
  BY <1>1, <1>2, <1>3 DEF TxTyped
<1>6. Step(w, rows, x)
  BY <1>1, <1>3, <1>4, <1>5, MakesStep
<1>. QED BY <1>1, <1>3, <1>6, SumRowsWrites DEF Sums, rows

\* The tokens of the directory and those above it are new.
LEMMA RenewWrites ==
  ASSUME TypeInv, NEW w \in Workers, Renew(w)
  PROVE  /\ At(w, "summed")
         /\ \E rows, x :
              /\ Step(w, rows, x) /\ x.step = "saved" /\ x.todo = tx[w].todo
              /\ x.total = tx[w].total /\ x.second = tx[w].second /\ x.drew = tx[w].drew
              /\ DOMAIN rows = {<<"token", TPOfRequest(tx[w].req)>>, <<"token", ROOT>>}
              /\ \A k \in DOMAIN rows : rows[k] = View(w)[k] + 1
<1>. DEFINE t == TPOfRequest(tx[w].req)
            rows == [k \in {"token"} \X {t, ROOT} |-> View(w)[k] + 1]
            x == [tx[w] EXCEPT !.step = "saved"]
<1>1. /\ At(w, "summed") /\ revision' = revision /\ ~Idle(w) /\ Write(w, rows, x)
      /\ tx[w].step = "summed"
  BY DEF Renew, At, Idle
<1>2. TxTyped(tx[w], revision) /\ revision \in Nat \ {0} /\ t \in TPs
  BY <1>1, RequestTyped, RequestAbout
<1>3. /\ Follows(x, tx[w]) /\ x.step = "saved" /\ x.todo = tx[w].todo
      /\ x.total = tx[w].total /\ x.second = tx[w].second /\ x.drew = tx[w].drew
  BY <1>2 DEF TxTyped, Follows, IsRequest, RequestFields
<1>4. /\ DOMAIN rows = {<<"token", t>>, <<"token", ROOT>>}
      /\ \A k \in DOMAIN rows : rows[k] = View(w)[k] + 1
  <2>1. {"token"} \X {t, ROOT} = {<<"token", t>>, <<"token", ROOT>>}
    OBVIOUS
  <2>. QED BY <2>1
<1>5. RowsTyped(rows, revision')
  <2>1. \A k \in {<<"token", t>>, <<"token", ROOT>>} : k \in Key /\ k[1] = "token"
    BY <1>2 DEF Key, Dirs
  <2>2. \A k \in DOMAIN rows : View(w)[k] \in Nat
    BY <1>4, <2>1, ViewTyped DEF RowTyped
  <2>3. \A k \in DOMAIN rows : rows[k] \in Nat
    BY <1>4, <2>2
  <2>. HIDE DEF rows
  <2>. QED BY <1>4, <2>1, <2>3 DEF RowsTyped, RowTyped
<1>. HIDE DEF rows, x
<1>6. /\ x.todo \subseteq StoresOf(TPOfRequest(tx[w].req)) /\ x.total \in BOOLEAN
      /\ x.second \in BOOLEAN /\ x.drew \in BOOLEAN
      /\ (x.total => tx[w].req.op = "update_data")
      /\ (x.second => tx[w].req.op \in {"accept", "toggle"})
  BY <1>1, <1>2, <1>3 DEF TxTyped
<1>7. revision' \in Nat /\ revision <= revision'
  BY <1>1, <1>2
<1>8. Step(w, rows, x)
  BY <1>1, <1>3, <1>5, <1>6, <1>7, MakesStep
<1>. QED BY <1>1, <1>3, <1>4, <1>8

\* What a request has to write when its Store is counted: no unit.
Seconds(w, rows, x) ==
  LET req == tx[w].req
      k == <<"checks", req.unit>>
  IN /\ Step(w, rows, x) /\ x.step = "saved" /\ x.todo = {StoreOf[req.unit]}
     /\ x.total = tx[w].total /\ x.second = FALSE /\ x.drew = tx[w].drew
     /\ DOMAIN rows = IF req.op = "accept" THEN {<<"suggestion", req.unit>>} ELSE {k}
     /\ req.op # "accept" =>
          /\ req.op = "toggle" /\ req.arg.check \in Checks
          /\ rows[k][req.arg.check] # "none"
          /\ \A c \in Checks \ {req.arg.check} : rows[k][c] = View(w)[k][c]
\* The second save of a request writes the unit and the suggestion or the check.
LEMMA SecondWrites ==
  ASSUME TypeInv, NEW w \in Workers, Second(w)
  PROVE  /\ At(w, "saved") /\ tx[w].todo = {} /\ tx[w].second
         /\ LoadsUnit(tx[w].req) /\ tx[w].req.unit \in Units
         /\ \E rows, x : Seconds(w, rows, x)
<1>. DEFINE u == tx[w].req.unit
            k == <<"checks", u>>
            arg == tx[w].req.arg
            mark == IF arg.mute THEN "muted" ELSE "active"
            set == [View(w)[k] EXCEPT ![arg.check] = mark]
            rows == IF tx[w].req.op = "accept" THEN Row(<<"suggestion", u>>, FALSE)
                    ELSE Row(k, set)
            x == [tx[w] EXCEPT !.second = FALSE, !.todo = {StoreOf[u]}]
<1>1. /\ At(w, "saved") /\ revision' = revision /\ ~Idle(w) /\ Write(w, rows, x)
      /\ tx[w].step = "saved" /\ tx[w].todo = {} /\ tx[w].second
  BY DEF Second, At, Idle
<1>2. /\ TxTyped(tx[w], revision) /\ revision \in Nat \ {0} /\ GoodRequest(tx[w].req)
      /\ tx[w].req.op \in {"accept", "toggle"} /\ LoadsUnit(tx[w].req)
  BY <1>1, RequestTyped DEF TxTyped, LoadsUnit
<1>3. /\ u \in Units /\ {StoreOf[u]} \in SUBSET StoresOf(TPOfRequest(tx[w].req))
      /\ <<"suggestion", u>> \in Key /\ k \in Key
  BY <1>2, RequestAbout DEF Key
<1>4. /\ Follows(x, tx[w]) /\ x.step = "saved" /\ x.todo = {StoreOf[u]}
      /\ x.total = tx[w].total /\ x.second = FALSE /\ x.drew = tx[w].drew
  BY <1>1, <1>2 DEF TxTyped, Follows, IsRequest, RequestFields
<1>5. tx[w].req.op # "accept" => tx[w].req.op = "toggle" /\ arg.check \in Checks
  BY <1>2 DEF GoodRequest
<1>6. View(w)[k] \in [Checks -> {"none", "active", "muted"}]
  BY <1>3, ViewTyped DEF RowTyped
<1>7. /\ set \in [Checks -> {"none", "active", "muted"}]
      /\ arg.check \in Checks =>
           \A c \in Checks : IF c = arg.check THEN set[c] # "none" ELSE set[c] = View(w)[k][c]
  <2>1. mark \in {"none", "active", "muted"} /\ mark # "none"
    OBVIOUS
  <2>. HIDE DEF mark
  <2>. QED BY <1>6, <2>1
<1>8. RowsTyped(rows, revision')
  <2>1. RowTyped(<<"suggestion", u>>, FALSE, revision')
    BY DEF RowTyped
  <2>2. RowTyped(k, set, revision')
    <3>. HIDE DEF set
    <3>. QED BY <1>7 DEF RowTyped
  <2>3. RowsTyped(Row(<<"suggestion", u>>, FALSE), revision')
    BY <1>3, <2>1 DEF RowsTyped, Row
  <2>4. RowsTyped(Row(k, set), revision')
    <3>. HIDE DEF set
    <3>. QED BY <1>3, <2>2, RowIsTyped
  <2>. QED BY <2>3, <2>4
<1>9. /\ DOMAIN rows = IF tx[w].req.op = "accept" THEN {<<"suggestion", u>>} ELSE {k}
      /\ tx[w].req.op # "accept" => rows[k] = set
  <2>. HIDE DEF set
  <2>. QED BY DEF Row
<1>. HIDE DEF rows, x, set
<1>10. /\ x.todo \subseteq StoresOf(TPOfRequest(tx[w].req)) /\ x.total \in BOOLEAN
       /\ x.second \in BOOLEAN /\ x.drew \in BOOLEAN
       /\ (x.total => tx[w].req.op = "update_data")
       /\ (x.second => tx[w].req.op \in {"accept", "toggle"})
  BY <1>1, <1>2, <1>3, <1>4 DEF TxTyped
<1>11. revision' \in Nat /\ revision <= revision'
  BY <1>1, <1>2
<1>12. Step(w, rows, x)
  BY <1>1, <1>4, <1>8, <1>10, <1>11, MakesStep
<1>13. Seconds(w, rows, x)
  BY <1>4, <1>5, <1>7, <1>9, <1>12 DEF Seconds
<1>. QED BY <1>1, <1>2, <1>3, <1>13

-----------------------------------------------------------------------------
(* Type correctness *)

\* A request begins with nothing written; the others are not alone any more.
LEMMA BeginTyped ==
  ASSUME TypeInv, NEW w \in Workers, NEW req, NEW row, Begin(w, req, row),
         GoodRequest(req), LoadsUnit(req) => RowTyped(<<"unit", req.unit>>, row, revision)
  PROVE  /\ TypeInv'
         /\ Idle(w) /\ tx'[w].step = "loaded" /\ tx'[w].req = req /\ tx'[w].row = row
         /\ tx'[w].alone <=> \A v \in Workers \ {w} : Idle(v)
         /\ \A v \in Workers \ {w} :
              /\ tx'[v].alone = FALSE /\ tx'[v].step = tx[v].step /\ View(v)' = View(v)
         /\ UNCHANGED <<db, revision, style, page, viewer>>
<1>. DEFINE alone == \A v \in Workers \ {w} : Idle(v)
            x == [NoRequest EXCEPT !.req = req, !.row = row, !.step = "loaded",
                                   !.alone = alone]
            y(v) == [tx[v] EXCEPT !.alone = FALSE]
<1>1. /\ Idle(w) /\ req.op \in Ops
      /\ UNCHANGED <<db, revision, style, page, viewer>>
      /\ tx' = [v \in Workers |-> IF v = w THEN x ELSE y(v)]
  BY DEF Begin
<1>2. alone \in BOOLEAN
  OBVIOUS
<1>3. /\ IsRequest(x) /\ x.req = req /\ x.row = row /\ x.step = "loaded"
      /\ x.todo = {} /\ x.total = FALSE /\ x.second = FALSE /\ x.drew = FALSE
      /\ x.wrote = NoRows /\ x.alone = alone
  <2>. HIDE DEF alone
  <2>. QED BY DEF NoRequest, IsRequest, RequestFields
<1>4. TxTyped(x, revision)
  <2>. HIDE DEF x, alone
  <2>1. RowsTyped(NoRows, revision)
    BY DEF RowsTyped, NoRows
  <2>. QED BY <1>1, <1>2, <1>3, <2>1 DEF TxTyped
<1>5. ASSUME NEW v \in Workers \ {w}
      PROVE  /\ TxTyped(y(v), revision) /\ y(v).alone = FALSE /\ y(v).step = tx[v].step
             /\ y(v).wrote = tx[v].wrote
  <2>1. TxTyped(tx[v], revision)
    BY DEF TypeInv, RequestsTyped
  <2>2. /\ IsRequest(y(v)) /\ y(v).alone = FALSE /\ y(v).req = tx[v].req
        /\ y(v).row = tx[v].row /\ y(v).step = tx[v].step /\ y(v).todo = tx[v].todo
        /\ y(v).total = tx[v].total /\ y(v).second = tx[v].second
        /\ y(v).drew = tx[v].drew /\ y(v).wrote = tx[v].wrote
    BY <2>1 DEF TxTyped, IsRequest, RequestFields
  <2>3. tx[v].step = "idle" => y(v) = NoRequest
    <3>1. SUFFICES ASSUME tx[v] = NoRequest PROVE y(v) = NoRequest
      BY <2>1 DEF TxTyped
    <3>2. IsRequest(NoRequest) /\ NoRequest.alone = FALSE
      BY DEF NoRequest, IsRequest, RequestFields
    <3>. HIDE DEF x, alone
    <3>3. \A f \in RequestFields : y(v)[f] = NoRequest[f]
      BY <2>2, <3>1, <3>2 DEF RequestFields
    <3>. HIDE DEF y
    <3>. QED BY <2>2, <3>2, <3>3 DEF IsRequest
  <2>. HIDE DEF y
  <2>. QED BY <2>1, <2>2, <2>3 DEF TxTyped
<1>. HIDE DEF x, y, alone
<1>6. RequestsTyped'
  BY <1>1, <1>4, <1>5 DEF RequestsTyped
<1>7. TypeInv'
  BY <1>1, <1>6 DEF TypeInv, DbTyped, PagesTyped
<1>8. \A v \in Workers \ {w} : /\ tx'[v].alone = FALSE /\ tx'[v].step = tx[v].step
                               /\ tx'[v].wrote = tx[v].wrote
  BY <1>1, <1>5
<1>9. \A v \in Workers \ {w} : View(v)' = View(v)
  BY <1>1, <1>8 DEF View
<1>. QED BY <1>1, <1>3, <1>7, <1>8, <1>9 DEF alone

\* A unit is loaded as it is; a check is muted or not if it was there.
LEMMA EditBegins ==
  ASSUME TypeInv, NEW w \in Workers, NEW u \in Units, Edit(w, u)
  PROVE  \E req : /\ Begin(w, req, db[<<"unit", u>>]) /\ GoodRequest(req)
                  /\ LoadsUnit(req) /\ req.unit = u /\ db[<<"unit", u>>].live
                  /\ req.op = "toggle" => db[<<"checks", u>>][req.arg.check] # "none"
<1>. DEFINE row == db[<<"unit", u>>]
            Req(op, arg) == [op |-> op, unit |-> u, arg |-> arg]
            checks == db[<<"checks", u>>]
<1>1. row.live
  BY DEF Edit
<1>2. CASE \E text \in Texts : Begin(w, Req("submit", text), row)
  BY <1>1, <1>2 DEF GoodRequest, LoadsUnit
<1>3. CASE \E text \in Texts \ {""} : Begin(w, Req("accept", text), row)
  <2>1. PICK text \in Texts : Begin(w, Req("accept", text), row)
    BY <1>3
  <2>. QED BY <1>1, <2>1 DEF GoodRequest, LoadsUnit
<1>4. CASE Begin(w, Req("reject", NULL), row)
  BY <1>1, <1>4 DEF GoodRequest, LoadsUnit
<1>5. CASE Begin(w, Req("suggest", NULL), row)
  BY <1>1, <1>5 DEF GoodRequest, LoadsUnit
<1>6. CASE \E c \in Checks :
             /\ checks[c] # "none"
             /\ Begin(w, Req("toggle", [check |-> c, mute |-> checks[c] = "active"]), row)
  <2>1. PICK c \in Checks :
               /\ checks[c] # "none"
               /\ Begin(w, Req("toggle", [check |-> c, mute |-> checks[c] = "active"]), row)
    BY <1>6
  <2>. DEFINE mute == checks[c] = "active"
              arg == [check |-> c, mute |-> mute]
              req == Req("toggle", arg)
  <2>2. mute \in BOOLEAN
    OBVIOUS
  <2>3. arg \in [check : Checks, mute : BOOLEAN] /\ arg.check = c
    <3>. HIDE DEF mute
    <3>. QED BY <2>2
  <2>. HIDE DEF arg
  <2>4. /\ GoodRequest(req) /\ LoadsUnit(req) /\ req.unit = u /\ req.arg = arg
    BY <2>3 DEF GoodRequest, LoadsUnit
  <2>5. Begin(w, req, row)
    BY <2>1 DEF arg
  <2>. HIDE DEF req
  <2>. QED BY <1>1, <2>1, <2>3, <2>4, <2>5
<1>. QED BY <1>2, <1>3, <1>4, <1>5, <1>6 DEF Edit

\* A command begins with nothing loaded.
LEMMA ManageBegins ==
  ASSUME TypeInv, NEW w \in Workers, Manage(w)
  PROVE  \E req : Begin(w, req, NULL) /\ GoodRequest(req) /\ ~LoadsUnit(req)
<1>1. ASSUME NEW s \in Stores, NEW S \in SUBSET UnitsOf(s), NEW file \in [S -> Texts],
             Begin(w, [op |-> "update", store |-> s, file |-> file], NULL)
      PROVE  \E req : Begin(w, req, NULL) /\ GoodRequest(req) /\ ~LoadsUnit(req)
  <2>. DEFINE req == [op |-> "update", store |-> s, file |-> file]
  <2>1. req = [op |-> "update", store |-> req.store, file |-> req.file]
    OBVIOUS
  <2>2. GoodRequest(req) /\ ~LoadsUnit(req)
    BY <2>1 DEF GoodRequest, LoadsUnit
  <2>. QED BY <1>1, <2>2
<1>2. ASSUME NEW s \in Stores, NEW op \in {"hide", "update_data"},
             Begin(w, [op |-> op, store |-> s], NULL)
      PROVE  \E req : Begin(w, req, NULL) /\ GoodRequest(req) /\ ~LoadsUnit(req)
  BY <1>2 DEF GoodRequest, LoadsUnit
<1>3. ASSUME NEW t \in TPs, Begin(w, [op |-> "calculate_checks", tp |-> t], NULL)
      PROVE  \E req : Begin(w, req, NULL) /\ GoodRequest(req) /\ ~LoadsUnit(req)
  BY <1>3 DEF GoodRequest, LoadsUnit
<1>. QED BY <1>1, <1>2, <1>3 DEF Manage

\* What a request does, one step at a time
Work(w) ==
  \/ Submit(w) \/ Accept(w) \/ Toggle(w) \/ Suggest(w)
  \/ Update(w) \/ Hide(w) \/ UpdateData(w) \/ CalculateChecks(w)
  \/ Count(w) \/ SumUp(w) \/ Renew(w) \/ Total(w) \/ Second(w)

\* Whatever a request does is a step.
LEMMA WorkSteps ==
  ASSUME TypeInv, NEW w \in Workers, Work(w)
  PROVE  \E rows, x : Step(w, rows, x)
<1>1. CASE Submit(w) \/ Accept(w) \/ Toggle(w)
  BY <1>1, EditWrites DEF Saves
<1>2. CASE Suggest(w) \/ Hide(w) \/ UpdateData(w)
  BY <1>2, SuggestWrites, HideWrites, UpdateDataWrites
<1>3. CASE Update(w)
  BY <1>3, UpdateWrites
<1>4. CASE CalculateChecks(w)
  BY <1>4, CalculateChecksWrites
<1>5. CASE Count(w)
  BY <1>5, CountWrites DEF Counts
<1>6. CASE SumUp(w) \/ Total(w)
  BY <1>6, SumUpWrites, TotalWrites DEF Sums
<1>7. CASE Renew(w) \/ Second(w)
  BY <1>7, RenewWrites, SecondWrites DEF Seconds
<1>. QED BY <1>1, <1>2, <1>3, <1>4, <1>5, <1>6, <1>7 DEF Work

\* The rows of a new database
Fresh(k) ==
  CASE k[1] = "unit" -> [text |-> "", live |-> TRUE, revision |-> 1]
    [] k[1] = "checks" -> [c \in Checks |-> "none"]
    [] k[1] \in {"suggestion", "obsolete"} -> FALSE
    [] OTHER -> 0

\* The rows of the Stores as they were first imported.
LEMMA InitRows ==
  ASSUME Init
  PROVE  LET rows == [k \in Key |-> Fresh(k)]
             stores == [k \in Key |-> IF k[1] = "data" THEN Counted(rows, k[2]) ELSE rows[k]]
         IN /\ db = [k \in Key |-> IF k[1] = "total" THEN Summed(stores, k[2]) ELSE stores[k]]
            /\ \A u \in Units : rows[<<"unit", u>>].revision \in 0..1
<1>. DEFINE rows == [k \in Key |-> Fresh(k)]
            stores == [k \in Key |-> IF k[1] = "data" THEN Counted(rows, k[2]) ELSE rows[k]]
<1>1. db = [k \in Key |-> IF k[1] = "total" THEN Summed(stores, k[2]) ELSE stores[k]]
  BY DEF Init, Fresh
<1>2. ASSUME NEW u \in Units
      PROVE  rows[<<"unit", u>>].revision \in 0..1
  <2>1. <<"unit", u>> \in Key /\ rows[<<"unit", u>>] = Fresh(<<"unit", u>>)
    BY DEF Key
  <2>2. ASSUME NEW r, r = [text |-> "", live |-> TRUE, revision |-> 1]
        PROVE  r.revision \in 0..1
    <3>1. r.revision = 1
      BY <2>2
    <3>. QED BY <3>1
  <2>3. Fresh(<<"unit", u>>) = [text |-> "", live |-> TRUE, revision |-> 1]
    BY DEF Fresh
  <2>. HIDE DEF rows
  <2>. QED BY <2>1, <2>2, <2>3
<1>. QED BY <1>1, <1>2

\* At first, rows have their types.
LEMMA InitTyped ==
  ASSUME Init
  PROVE  TypeInv
<1>. DEFINE rows == [k \in Key |-> Fresh(k)]
            stores == [k \in Key |-> IF k[1] = "data" THEN Counted(rows, k[2]) ELSE rows[k]]
<1>1. /\ db = [k \in Key |-> IF k[1] = "total" THEN Summed(stores, k[2]) ELSE stores[k]]
      /\ \A u \in Units : rows[<<"unit", u>>].revision \in 0..1
  BY InitRows
<1>2. revision = 1 /\ style \in Styles
  BY DEF Init
<1>3. ASSUME NEW k \in Key
      PROVE  RowTyped(k, db[k], 1)
  <2>1. CASE k[1] = "data"
    <3>1. db[k] = Counted(rows, k[2]) /\ k[2] \in Stores
      BY <1>1, <2>1 DEF Key
    <3>2. IsCount(db[k]) /\ db[k].revision \in 0..1
      <4>. HIDE DEF rows
      <4>. QED BY <1>1, <3>1, CountedTyped, 1 \in Nat
    <3>. QED BY <2>1, <3>2 DEF RowTyped
  <2>2. CASE k[1] = "total"
    <3>1. db[k] = Summed(stores, k[2])
      BY <1>1, <2>2
    <3>2. IsCount(db[k])
      <4>. HIDE DEF stores
      <4>. QED BY <3>1, SummedTyped
    <3>. QED BY <2>2, <3>2 DEF RowTyped
  <2>3. CASE k[1] \notin {"data", "total"}
    <3>1. db[k] = Fresh(k)
      BY <1>1, <2>3
    <3>2. k[1] \in {"unit", "checks", "suggestion", "obsolete", "token"}
      BY <2>3 DEF Key
    <3>3. CASE k[1] = "unit"
      <4>1. db[k] = [text |-> "", live |-> TRUE, revision |-> 1]
        BY <3>1, <3>3 DEF Fresh
      <4>2. 1 \in 1..1
        OBVIOUS
      <4>3. db[k] \in [text : Texts, live : BOOLEAN, revision : 1..1]
        <5>1. PICK e \in Texts : e = ""
          BY ChecksAssumption
        <5>. HIDE DEF rows, stores
        <5>2. db[k] = [text |-> e, live |-> TRUE, revision |-> 1]
          BY <4>1, <5>1
        <5>. QED BY <4>2, <5>2
      <4>. QED BY <3>3, <4>3 DEF RowTyped
    <3>4. CASE k[1] = "checks"
      <4>1. db[k] = [c \in Checks |-> "none"]
        BY <3>1, <3>4 DEF Fresh
      <4>. QED BY <3>4, <4>1 DEF RowTyped
    <3>5. CASE k[1] \in {"suggestion", "obsolete"}
      <4>1. db[k] = FALSE
        BY <3>1, <3>5 DEF Fresh
      <4>. QED BY <3>5, <4>1 DEF RowTyped
    <3>6. CASE k[1] = "token"
      <4>1. db[k] = 0
        BY <3>1, <3>6 DEF Fresh
      <4>. QED BY <3>6, <4>1 DEF RowTyped
    <3>. QED BY <3>2, <3>3, <3>4, <3>5, <3>6
  <2>. QED BY <2>1, <2>2, <2>3
<1>4. db = [k \in Key |-> db[k]] /\ DOMAIN db = Key
  BY <1>1
<1>5. DbTyped
  <2>. HIDE DEF rows, stores
  <2>. QED BY <1>2, <1>3, <1>4 DEF DbTyped, RowsTyped
<1>6. RequestsTyped
  <2>1. TxTyped(NoRequest, revision)
    BY DEF TxTyped, NoRequest, IsRequest, RequestFields, RowsTyped, NoRows
  <2>. QED BY <2>1 DEF Init, RequestsTyped
<1>7. PagesTyped
  BY DEF Init, PagesTyped, ViewerTyped, NoPage, IsPage, PageFields
<1>. QED BY <1>2, <1>5, <1>6, <1>7 DEF TypeInv

\* A request ends, and the worker is idle.
LEMMA EndTyped ==
  ASSUME TypeInv, NEW w \in Workers, Commit(w) \/ Fail(w)
  PROVE  /\ TypeInv' /\ tx' = [tx EXCEPT ![w] = NoRequest]
         /\ Idle(w)' /\ View(w)' = db' /\ UNCHANGED <<revision, style>>
         /\ Commit(w) => Publish(View(w)) /\ db' = View(w)
<1>1. tx' = [tx EXCEPT ![w] = NoRequest] /\ UNCHANGED <<revision, style>>
  BY DEF Commit, Fail
<1>2. RequestsTyped'
  <2>1. TxTyped(NoRequest, revision)
    BY DEF TxTyped, NoRequest, IsRequest, RequestFields, RowsTyped, NoRows
  <2>. QED BY <1>1, <2>1 DEF TypeInv, RequestsTyped
<1>3. Commit(w) => Publish(View(w)) /\ db' = View(w)
  BY DEF Commit, Publish
<1>4. DbTyped' /\ PagesTyped'
  <2>1. CASE Commit(w)
    <3>1. PagesTyped'
      BY <1>3, <2>1, PublishTyped
    <3>2. DbTyped'
      BY <1>1, <1>3, <2>1, ViewTyped DEF DbTyped
    <3>. QED BY <3>1, <3>2
  <2>2. CASE Fail(w)
    BY <1>1, <2>2 DEF Fail, TypeInv, DbTyped, PagesTyped
  <2>. QED BY <2>1, <2>2
<1>5. TypeInv'
  BY <1>1, <1>2, <1>4 DEF TypeInv
<1>6. tx'[w] = NoRequest /\ NoRequest.wrote = NoRows /\ NoRequest.step = "idle"
  BY <1>1 DEF TypeInv, RequestsTyped, NoRequest
<1>7. db' = [k \in DOMAIN db' |-> db'[k]]
  BY <1>4 DEF DbTyped, RowsTyped
<1>8. View(w)' = db'
  BY <1>6, <1>7 DEF View, Overlay, NoRows
<1>. QED BY <1>1, <1>3, <1>5, <1>6, <1>8 DEF Idle

\* The cache and the viewers
LEMMA PagesStepTyped ==
  ASSUME TypeInv, NEW v \in Viewers,
         (\E d \in Dirs : Ask(v, d)) \/ Hit(v) \/ Make(v) \/ Put(v) \/ Leave(v)
  PROVE  TypeInv' /\ UNCHANGED <<db, revision, style, tx>>
<1>1. UNCHANGED <<db, revision, style, tx>>
  BY DEF Ask, Hit, Make, Put, Leave
<1>2. /\ ViewerTyped(viewer[v]) /\ viewer = [x \in Viewers |-> viewer[x]]
      /\ \A x \in Viewers : ViewerTyped(viewer[x])
      /\ \A p \in page : IsCached(p)
  BY DEF TypeInv, PagesTyped
<1>3. ASSUME NEW new, ViewerTyped(new), viewer' = [viewer EXCEPT ![v] = new],
             \A p \in page' : IsCached(p)
      PROVE  TypeInv'
  <2>1. PagesTyped'
    BY <1>2, <1>3 DEF PagesTyped
  <2>. QED BY <1>1, <2>1 DEF TypeInv, DbTyped, RequestsTyped
<1>4. CASE \E d \in Dirs : Ask(v, d)
  <2>1. PICK d \in Dirs : Ask(v, d)
    BY <1>4
  <2>. DEFINE new == [dir |-> d, token |-> db[<<"token", d>>], step |-> "asked",
                      content |-> NULL, seen |-> {Content(db, d)}]
  <2>2. viewer' = [viewer EXCEPT ![v] = new] /\ page' = page
    BY <2>1 DEF Ask
  <2>3. db[<<"token", d>>] \in Nat
    BY Typed
  <2>4. ViewerTyped(new)
    BY <2>3 DEF ViewerTyped, IsPage, PageFields
  <2>. HIDE DEF new
  <2>. QED BY <1>1, <1>2, <1>3, <2>2, <2>4
<1>5. CASE Hit(v)
  <2>1. PICK p \in Found(v) :
          viewer' = [viewer EXCEPT ![v].step = "shown", ![v].content = p.content]
    BY <1>5 DEF Hit
  <2>. DEFINE new == [viewer[v] EXCEPT !.step = "shown", !.content = p.content]
  <2>2. viewer' = [viewer EXCEPT ![v] = new] /\ page' = page
    BY <1>2, <1>5, <2>1 DEF Hit
  <2>3. IsPage(viewer[v]) /\ viewer[v].step = "asked"
    BY <1>2, <1>5 DEF ViewerTyped, Hit, Asked
  <2>4. /\ IsPage(new) /\ new.step = "shown" /\ new.dir = viewer[v].dir
        /\ new.token = viewer[v].token
    BY <2>3 DEF IsPage, PageFields
  <2>5. ViewerTyped(new)
    <3>. HIDE DEF new
    <3>. QED BY <1>2, <2>3, <2>4 DEF ViewerTyped
  <2>. HIDE DEF new
  <2>. QED BY <1>1, <1>2, <1>3, <2>2, <2>5
<1>6. CASE Make(v)
  <2>. DEFINE new == [viewer[v] EXCEPT !.step = "made",
                                       !.content = Content(db, viewer[v].dir)]
  <2>2. viewer' = [viewer EXCEPT ![v] = new] /\ page' = page
    BY <1>2, <1>6 DEF Make
  <2>3. IsPage(viewer[v]) /\ viewer[v].step = "asked"
    BY <1>2, <1>6 DEF ViewerTyped, Make, Asked
  <2>4. /\ IsPage(new) /\ new.step = "made" /\ new.dir = viewer[v].dir
        /\ new.token = viewer[v].token
    BY <2>3 DEF IsPage, PageFields
  <2>5. ViewerTyped(new)
    <3>. HIDE DEF new
    <3>. QED BY <1>2, <2>3, <2>4 DEF ViewerTyped
  <2>. HIDE DEF new
  <2>. QED BY <1>1, <1>2, <1>3, <2>2, <2>5
<1>7. CASE Put(v)
  <2>. DEFINE new == [viewer[v] EXCEPT !.step = "shown"]
  <2>1. viewer' = [viewer EXCEPT ![v] = new]
    BY <1>2, <1>7 DEF Put
  <2>2. ViewerTyped(new)
    BY <1>2, <1>7 DEF ViewerTyped, IsPage, PageFields, Put
  <2>3. viewer[v].dir \in Dirs /\ viewer[v].token \in Nat
    BY <1>2, <1>7 DEF ViewerTyped, Put
  <2>4. \A p \in page' : p \in page \/ p = [dir |-> viewer[v].dir, token |-> viewer[v].token,
                                            content |-> viewer[v].content]
    BY <1>7 DEF Put
  <2>. HIDE DEF new
  <2>5. \A p \in page' : IsCached(p)
    BY <1>2, <2>3, <2>4 DEF IsCached
  <2>. QED BY <1>1, <1>3, <2>1, <2>2, <2>5
<1>8. CASE Leave(v)
  <2>1. viewer' = [viewer EXCEPT ![v] = NoPage] /\ page' = page
    BY <1>8 DEF Leave
  <2>2. ViewerTyped(NoPage)
    BY DEF ViewerTyped, NoPage, IsPage, PageFields
  <2>. QED BY <1>1, <1>2, <1>3, <2>1, <2>2
<1>. QED BY <1>1, <1>4, <1>5, <1>6, <1>7, <1>8

\* Every step keeps TypeInv.
LEMMA NextTyped ==
  ASSUME TypeInv, [Next]_vars
  PROVE  TypeInv'
<1>1. ASSUME NEW w \in Workers, NEW u \in Units, Edit(w, u)
      PROVE  TypeInv'
  <2>1. PICK req : Begin(w, req, db[<<"unit", u>>]) /\ GoodRequest(req) /\ req.unit = u
    BY <1>1, EditBegins, ZenonT(60)
  <2>2. RowTyped(<<"unit", req.unit>>, db[<<"unit", u>>], revision)
    BY <2>1, Typed DEF RowTyped
  <2>. QED BY <2>1, <2>2, BeginTyped
<1>2. ASSUME NEW w \in Workers, Manage(w)
      PROVE  TypeInv'
  BY <1>2, ManageBegins, BeginTyped
<1>3. ASSUME NEW w \in Workers, Work(w)
      PROVE  TypeInv'
  BY <1>3, WorkSteps, StepTyped
<1>4. ASSUME NEW w \in Workers, Commit(w) \/ Fail(w)
      PROVE  TypeInv'
  BY <1>4, EndTyped
<1>5. CASE Upgrade
  BY <1>5 DEF Upgrade, TypeInv, DbTyped, RequestsTyped, PagesTyped
<1>6. ASSUME NEW v \in Viewers,
             (\E d \in Dirs : Ask(v, d)) \/ Hit(v) \/ Make(v) \/ Put(v) \/ Leave(v)
      PROVE  TypeInv'
  BY <1>6, PagesStepTyped
<1>7. CASE UNCHANGED vars
  BY <1>7 DEF vars, TypeInv, DbTyped, RequestsTyped, PagesTyped
<1>. QED BY <1>1, <1>2, <1>3, <1>4, <1>5, <1>6, <1>7 DEF Next, Work

\* TypeInv is an invariant, for any number of workers and viewers.
LEMMA TypeInvHolds == Spec => []TypeInv
<1>1. Init => TypeInv
  BY InitTyped
<1>2. TypeInv /\ [Next]_vars => TypeInv'
  BY NextTyped
<1>. QED BY <1>1, <1>2, PTL DEF Spec

\* Every row has its type, and every unit a revision that was drawn from the
\* counter (pootle_store/receivers.py:93), however many requests overlap.
THEOREM TypeCorrect == Spec => []TypeOK
<1>1. TypeInv => TypeOK
  <2>. SUFFICES ASSUME TypeInv PROVE TypeOK
    OBVIOUS
  <2>1. revision \in Nat /\ style \in Styles
    BY DEF TypeInv
  <2>2. \A w \in Workers : ~Idle(w) => DOMAIN tx[w].wrote \subseteq Key
    BY DEF TypeInv, RequestsTyped, TxTyped, RowsTyped
  <2>3. \A p \in page : p.dir \in Dirs /\ p.token \in Nat
    BY DEF TypeInv, PagesTyped, IsCached
  <2>. QED BY <2>1, <2>2, <2>3, Typed DEF TypeOK
<1>. QED BY <1>1, TypeInvHolds, PTL

-----------------------------------------------------------------------------
(* Counting reads nothing else *)

\* What is counted for a Store depends on its units and on whether it is obsolete.
LEMMA CountedSame ==
  ASSUME NEW d, NEW e, NEW s \in Stores, d[<<"obsolete", s>>] = e[<<"obsolete", s>>],
         \A u \in UnitsOf(s) : /\ d[<<"unit", u>>] = e[<<"unit", u>>]
                               /\ d[<<"checks", u>>] = e[<<"checks", u>>]
                               /\ d[<<"suggestion", u>>] = e[<<"suggestion", u>>]
  PROVE  Counted(d, s) = Counted(e, s)
<1>. DEFINE live(r) == IF r[<<"obsolete", s>>] THEN {}
                       ELSE {u \in UnitsOf(s) : r[<<"unit", u>>].live}
            revisions(r) == {r[<<"unit", u>>].revision : u \in UnitsOf(s)}
<1>1. live(d) = live(e) /\ live(d) \subseteq UnitsOf(s)
  OBVIOUS
<1>2. revisions(d) = revisions(e)
  OBVIOUS
<1>3. ASSUME NEW units, units \subseteq UnitsOf(s)
      PROVE  ChecksOf(d, units) = ChecksOf(e, units) /\ WordsOf(d, units) = WordsOf(e, units)
  <2>1. \A c \in Checks : {u \in units : d[<<"checks", u>>][c] = "active"} =
                          {u \in units : e[<<"checks", u>>][c] = "active"}
    BY <1>3
  <2>2. ChecksOf(d, units) = ChecksOf(e, units)
    BY <2>1 DEF ChecksOf
  <2>3. {u \in units : d[<<"unit", u>>].text # ""} = {u \in units : e[<<"unit", u>>].text # ""}
    BY <1>3
  <2>4. {u \in units : d[<<"suggestion", u>>]} = {u \in units : e[<<"suggestion", u>>]}
    BY <1>3
  <2>. QED BY <2>2, <2>3, <2>4 DEF WordsOf
<1>4. \A r : Counted(r, s) = [checks |-> ChecksOf(r, live(r)), words |-> WordsOf(r, live(r)),
                              revision |-> MaxOf(revisions(r))]
  BY DEF Counted
<1>. HIDE DEF live, revisions
<1>. QED BY <1>1, <1>2, <1>3, <1>4

\* The sums of a translation project depend on the counts of its Stores.
LEMMA SummedSame ==
  ASSUME NEW d, NEW e, NEW t \in TPs,
         \A s \in StoresOf(t) : /\ d[<<"data", s>>].words = e[<<"data", s>>].words
                                /\ d[<<"data", s>>].revision = e[<<"data", s>>].revision
  PROVE  SameButChecks(Summed(d, t), Summed(e, t))
<1>. DEFINE S == StoresOf(t)
            words(r) == AddedWords([x \in S |-> [s \in Stores |-> r[<<"data", s>>]][x].words], S)
            revisions(r) == {[s \in Stores |-> r[<<"data", s>>]][x].revision : x \in S}
            checks(r) ==
              [c \in Checks |->
                 SumOf([x \in S |-> [s \in Stores |-> r[<<"data", s>>]][x].checks[c]], S)]
<1>1. S \subseteq Stores
  BY DEF StoresOf
<1>2. [x \in S |-> [s \in Stores |-> d[<<"data", s>>]][x].words] =
      [x \in S |-> [s \in Stores |-> e[<<"data", s>>]][x].words]
  BY <1>1
<1>3. revisions(d) = revisions(e)
  BY <1>1
<1>4. words(d) = words(e)
  BY <1>2
<1>5. \A r : Summed(r, t) = [checks |-> checks(r), words |-> words(r),
                             revision |-> MaxOf(revisions(r))]
  BY DEF Summed, Added
<1>. HIDE DEF checks, words, revisions
<1>6. [Summed(d, t) EXCEPT !.checks = 0] = [Summed(e, t) EXCEPT !.checks = 0]
  BY <1>3, <1>4, <1>5
<1>. QED BY <1>6 DEF SameButChecks

\* Counts are the same but for the checks if words and revision are.
LEMMA SameIs ==
  ASSUME NEW x, NEW y, IsCount(x), IsCount(y)
  PROVE  SameButChecks(x, y) <=> x.words = y.words /\ x.revision = y.revision
BY DEF SameButChecks, IsCount

\* So they are for the sums of a translation project.
LEMMA SummedIs ==
  ASSUME NEW d, NEW t, NEW x, IsCount(x)
  PROVE  SameButChecks(x, Summed(d, t)) <=>
           x.words = Summed(d, t).words /\ x.revision = Summed(d, t).revision
BY SummedTyped, SameIs

-----------------------------------------------------------------------------
(* Requests write rows of the Stores that they will count *)

Touches(rows, S) ==
  \A k \in DOMAIN rows :
    \/ /\ k[1] \in {"unit", "checks", "suggestion"}
       /\ k[2] \in Units /\ StoreOf[k[2]] \in S
    \/ k[1] = "obsolete" /\ k[2] \in S

Does1(w) ==
  \/ Submit(w) \/ Accept(w) \/ Toggle(w) \/ Suggest(w)
  \/ Update(w) \/ Hide(w) \/ UpdateData(w) \/ CalculateChecks(w) \/ Second(w)
\* The first steps of a request touch only Stores that they leave to be counted.
LEMMA DoesTouch ==
  ASSUME TypeInv, NEW w \in Workers, Does1(w)
  PROVE  \E rows, x : /\ Step(w, rows, x) /\ x.step = "saved" /\ Touches(rows, x.todo)
                      /\ tx[w].todo = {} /\ tx[w].step \in {"loaded", "saved"}
<1>1. At(w, "loaded") => tx[w].todo = {} /\ GoodRequest(tx[w].req)
  BY LoadedTyped
<1>2. CASE Submit(w) \/ Accept(w) \/ Toggle(w)
  <2>0. PICK text \in Texts : \E rows, x : Saves(w, text, rows, x)
    BY <1>2, EditWrites
  <2>1. PICK rows, x : Saves(w, text, rows, x)
    BY <2>0
  <2>2. At(w, "loaded") /\ LoadsUnit(tx[w].req)
    BY <1>2, EditWrites
  <2>3. tx[w].req.unit \in Units
    BY <1>1, <2>2, RequestAbout
  <2>4. Touches(rows, x.todo)
    BY <2>1, <2>3 DEF Saves, Touches
  <2>. QED BY <1>1, <2>1, <2>2, <2>4 DEF Saves, At
<1>3. CASE Suggest(w)
  <2>. DEFINE u == tx[w].req.unit
  <2>1. PICK rows, x : /\ Step(w, rows, x) /\ x.step = "saved" /\ x.todo = {StoreOf[u]}
                       /\ DOMAIN rows = {<<"suggestion", u>>}
    BY <1>3, SuggestWrites
  <2>2. At(w, "loaded") /\ LoadsUnit(tx[w].req)
    BY <1>3, SuggestWrites
  <2>3. u \in Units
    BY <1>1, <2>2, RequestAbout
  <2>4. Touches(rows, x.todo)
    BY <2>1, <2>3 DEF Touches
  <2>. QED BY <1>1, <2>1, <2>2, <2>4 DEF At
<1>4. CASE Hide(w)
  <2>1. PICK rows, x : /\ Step(w, rows, x) /\ x.step = "saved" /\ x.todo = {tx[w].req.store}
                       /\ DOMAIN rows = {<<"obsolete", tx[w].req.store>>}
    BY <1>4, HideWrites
  <2>2. At(w, "loaded")
    BY <1>4, HideWrites
  <2>3. Touches(rows, x.todo)
    BY <2>1 DEF Touches
  <2>. QED BY <1>1, <2>1, <2>2, <2>3 DEF At
<1>5. CASE UpdateData(w)
  <2>1. PICK x : Step(w, NoRows, x) /\ x.step = "saved"
    BY <1>5, UpdateDataWrites
  <2>2. At(w, "loaded")
    BY <1>5, UpdateDataWrites
  <2>3. Touches(NoRows, x.todo)
    BY DEF Touches, NoRows
  <2>. QED BY <1>1, <2>1, <2>2, <2>3 DEF At
<1>6. CASE Update(w)
  <2>. DEFINE s == tx[w].req.store
  <2>1. PICK rows, x : /\ Step(w, rows, x) /\ x.step = "saved" /\ x.todo \subseteq {s}
                       /\ DOMAIN rows \subseteq {"unit", "checks"} \X UnitsOf(s)
                       /\ x.todo = {} => DOMAIN rows = {}
    BY <1>6, UpdateWrites
  <2>2. At(w, "loaded")
    BY <1>6, UpdateWrites
  <2>. HIDE DEF s
  <2>3. \A k \in {"unit", "checks"} \X UnitsOf(s) :
          k[1] \in {"unit", "checks"} /\ k[2] \in Units /\ StoreOf[k[2]] = s
    BY DEF UnitsOf
  <2>4. Touches(rows, x.todo)
    BY <2>1, <2>3 DEF Touches
  <2>. QED BY <1>1, <2>1, <2>2, <2>4 DEF At
<1>7. CASE CalculateChecks(w)
  <2>. DEFINE U == {u \in Units : TPOf[StoreOf[u]] = tx[w].req.tp}
  <2>1. PICK rows, x : /\ Step(w, rows, x) /\ x.step = "saved"
                       /\ x.todo = {StoreOf[k[2]] : k \in DOMAIN rows}
                       /\ DOMAIN rows \subseteq {"checks"} \X U
    BY <1>7, CalculateChecksWrites
  <2>2. At(w, "loaded")
    BY <1>7, CalculateChecksWrites
  <2>3. \A k \in {"checks"} \X U : k[1] = "checks" /\ k[2] \in Units
    OBVIOUS
  <2>. HIDE DEF U
  <2>4. Touches(rows, x.todo)
    BY <2>1, <2>3 DEF Touches
  <2>. QED BY <1>1, <2>1, <2>2, <2>4 DEF At
<1>8. CASE Second(w)
  <2>. DEFINE u == tx[w].req.unit
  <2>1. PICK rows, x : /\ Step(w, rows, x) /\ x.step = "saved" /\ x.todo = {StoreOf[u]}
                       /\ DOMAIN rows = IF tx[w].req.op = "accept" THEN {<<"suggestion", u>>}
                                        ELSE {<<"checks", u>>}
    BY <1>8, SecondWrites DEF Seconds
  <2>2. At(w, "saved") /\ tx[w].todo = {} /\ u \in Units
    BY <1>8, SecondWrites
  <2>3. Touches(rows, x.todo)
    BY <2>1, <2>2 DEF Touches
  <2>. QED BY <2>1, <2>2, <2>3 DEF At
<1>. QED BY <1>2, <1>3, <1>4, <1>5, <1>6, <1>7, <1>8 DEF Does1

-----------------------------------------------------------------------------
(* What has to be counted and summed up                                      *)

CountedBut(d, S) == \A s \in Stores \ S : d[<<"data", s>>] = Counted(d, s)
SummedBut(d, T) == \A t \in TPs \ T : SameButChecks(d[<<"total", t>>], Summed(d, t))
\* e is d with some rows laid over.
Lays(rows, d, e) == \A k \in Key : e[k] = IF k \in DOMAIN rows THEN rows[k] ELSE d[k]

\* The keys of the database.
LEMMA Keys ==
  /\ \A u \in Units : /\ <<"unit", u>> \in Key /\ <<"checks", u>> \in Key
                      /\ <<"suggestion", u>> \in Key
  /\ \A s \in Stores : <<"obsolete", s>> \in Key /\ <<"data", s>> \in Key
  /\ \A t \in TPs : <<"total", t>> \in Key
  /\ \A d \in Dirs : <<"token", d>> \in Key
BY DEF Key

\* Rows of Stores that are to be counted
LEMMA TouchKeeps ==
  ASSUME NEW d, NEW e, NEW rows, NEW S, NEW T, NEW U, Lays(rows, d, e), Touches(rows, S)
  PROVE  /\ CountedBut(d, U) => CountedBut(e, S \cup U)
         /\ SummedBut(d, T) => SummedBut(e, T)
         /\ \A s \in Stores : e[<<"data", s>>] = d[<<"data", s>>]
         /\ \A t \in TPs : e[<<"total", t>>] = d[<<"total", t>>]
         /\ \A t \in Dirs : e[<<"token", t>>] = d[<<"token", t>>]
<1>1. /\ \A s \in Stores : e[<<"data", s>>] = d[<<"data", s>>]
      /\ \A t \in TPs : e[<<"total", t>>] = d[<<"total", t>>]
      /\ \A t \in Dirs : e[<<"token", t>>] = d[<<"token", t>>]
  BY Keys DEF Touches, Lays
<1>2. ASSUME CountedBut(d, U), NEW s \in Stores \ (S \cup U)
      PROVE  e[<<"data", s>>] = Counted(e, s)
  <2>1. /\ <<"obsolete", s>> \notin DOMAIN rows
        /\ \A u \in UnitsOf(s) : /\ u \in Units /\ <<"unit", u>> \notin DOMAIN rows
                                 /\ <<"checks", u>> \notin DOMAIN rows
                                 /\ <<"suggestion", u>> \notin DOMAIN rows
    BY DEF Touches, UnitsOf
  <2>2. /\ e[<<"obsolete", s>>] = d[<<"obsolete", s>>]
        /\ \A u \in UnitsOf(s) : /\ e[<<"unit", u>>] = d[<<"unit", u>>]
                                 /\ e[<<"checks", u>>] = d[<<"checks", u>>]
                                 /\ e[<<"suggestion", u>>] = d[<<"suggestion", u>>]
    BY <2>1, Keys DEF Lays
  <2>3. Counted(e, s) = Counted(d, s)
    BY <2>2, CountedSame
  <2>. QED BY <1>1, <1>2, <2>3 DEF CountedBut
<1>3. ASSUME SummedBut(d, T), NEW t \in TPs \ T
      PROVE  SameButChecks(e[<<"total", t>>], Summed(e, t))
  <2>1. SameButChecks(Summed(d, t), Summed(e, t))
    BY <1>1, SummedSame DEF StoresOf
  <2>. QED BY <1>1, <1>3, <2>1 DEF SummedBut, SameButChecks
<1>. QED BY <1>1, <1>2, <1>3 DEF CountedBut, SummedBut

\* The counts of a Store
LEMMA CountKeeps ==
  ASSUME NEW d, NEW e, NEW rows, NEW S, NEW T, NEW s \in Stores, Lays(rows, d, e),
         DOMAIN rows \subseteq {<<"data", s>>}, e[<<"data", s>>] = Counted(d, s)
  PROVE  /\ CountedBut(d, S) => CountedBut(e, S \ {s})
         /\ SummedBut(d, T) => SummedBut(e, T \cup {TPOf[s]})
         /\ (/\ IsCount(d[<<"data", s>>]) /\ IsCount(e[<<"data", s>>])
             /\ SameButChecks(e[<<"data", s>>], d[<<"data", s>>])
             /\ SummedBut(d, T))
              => SummedBut(e, T)
         /\ \A r \in Stores : Counted(e, r) = Counted(d, r)
<1>1. \A r \in Stores : Counted(e, r) = Counted(d, r)
  <2>. SUFFICES ASSUME NEW r \in Stores PROVE Counted(e, r) = Counted(d, r)
    OBVIOUS
  <2>1. /\ e[<<"obsolete", r>>] = d[<<"obsolete", r>>]
        /\ \A u \in UnitsOf(r) : /\ e[<<"unit", u>>] = d[<<"unit", u>>]
                                 /\ e[<<"checks", u>>] = d[<<"checks", u>>]
                                 /\ e[<<"suggestion", u>>] = d[<<"suggestion", u>>]
    BY Keys DEF Lays, UnitsOf
  <2>. QED BY <2>1, CountedSame
<1>2. /\ \A r \in Stores \ {s} : e[<<"data", r>>] = d[<<"data", r>>]
      /\ \A t \in TPs : e[<<"total", t>>] = d[<<"total", t>>]
  BY Keys DEF Lays
<1>3. ASSUME NEW t \in TPs, t = TPOf[s] => /\ e[<<"data", s>>].words = d[<<"data", s>>].words
                                           /\ e[<<"data", s>>].revision = d[<<"data", s>>].revision,
             SameButChecks(d[<<"total", t>>], Summed(d, t))
      PROVE  SameButChecks(e[<<"total", t>>], Summed(e, t))
  <2>1. \A r \in StoresOf(t) : /\ d[<<"data", r>>].words = e[<<"data", r>>].words
                               /\ d[<<"data", r>>].revision = e[<<"data", r>>].revision
    BY <1>2, <1>3 DEF StoresOf
  <2>2. SameButChecks(Summed(d, t), Summed(e, t))
    BY <2>1, SummedSame
  <2>. QED BY <1>2, <1>3, <2>2 DEF SameButChecks
<1>4. CountedBut(d, S) => CountedBut(e, S \ {s})
  BY <1>1, <1>2 DEF CountedBut
<1>5. SummedBut(d, T) => SummedBut(e, T \cup {TPOf[s]})
  BY <1>3 DEF SummedBut
<1>6. ASSUME IsCount(d[<<"data", s>>]), IsCount(e[<<"data", s>>]),
             SameButChecks(e[<<"data", s>>], d[<<"data", s>>]), SummedBut(d, T)
      PROVE  SummedBut(e, T)
  <2>1. /\ e[<<"data", s>>].words = d[<<"data", s>>].words
        /\ e[<<"data", s>>].revision = d[<<"data", s>>].revision
    BY <1>6, SameIs
  <2>. QED BY <1>3, <1>6, <2>1 DEF SummedBut
<1>. QED BY <1>1, <1>4, <1>5, <1>6

\* The sums of a translation project, and tokens
SumsOnly(rows, t) == \A k \in DOMAIN rows : k = <<"total", t>> \/ k[1] = "token"
\* Writing sums leaves counts right, and makes the sums right.
LEMMA SumKeeps ==
  ASSUME NEW d, NEW e, NEW rows, NEW S, NEW T, NEW t, Lays(rows, d, e),
         SumsOnly(rows, t), t \in TPs => e[<<"total", t>>] = Summed(d, t)
  PROVE  /\ CountedBut(d, S) => CountedBut(e, S)
         /\ SummedBut(d, T) => SummedBut(e, T \ {t})
<1>1. /\ \A u \in Units : /\ e[<<"unit", u>>] = d[<<"unit", u>>]
                          /\ e[<<"checks", u>>] = d[<<"checks", u>>]
                          /\ e[<<"suggestion", u>>] = d[<<"suggestion", u>>]
      /\ \A s \in Stores : /\ e[<<"obsolete", s>>] = d[<<"obsolete", s>>]
                           /\ e[<<"data", s>>] = d[<<"data", s>>]
      /\ \A p \in TPs \ {t} : e[<<"total", p>>] = d[<<"total", p>>]
  <2>1. ASSUME NEW k \in Key, k # <<"total", t>>, k[1] # "token"
        PROVE  e[k] = d[k]
    <3>1. k \notin DOMAIN rows
      BY <2>1 DEF SumsOnly
    <3>. QED BY <3>1 DEF Lays
  <2>2. \A p \in TPs \ {t} : <<"total", p>> # <<"total", t>>
    OBVIOUS
  <2>3. \A x : /\ <<"unit", x>> # <<"total", t>> /\ <<"unit", x>>[1] # "token"
              /\ <<"checks", x>> # <<"total", t>> /\ <<"checks", x>>[1] # "token"
              /\ <<"suggestion", x>> # <<"total", t>> /\ <<"suggestion", x>>[1] # "token"
              /\ <<"obsolete", x>> # <<"total", t>> /\ <<"obsolete", x>>[1] # "token"
              /\ <<"data", x>> # <<"total", t>> /\ <<"data", x>>[1] # "token"
              /\ <<"total", x>>[1] # "token"
    OBVIOUS
  <2>. QED BY <2>1, <2>2, <2>3, Keys
<1>2. \A s \in Stores : Counted(e, s) = Counted(d, s)
  BY <1>1, CountedSame DEF UnitsOf
<1>3. \A p \in TPs : SameButChecks(Summed(d, p), Summed(e, p))
  BY <1>1, SummedSame DEF StoresOf
<1>4. CountedBut(d, S) => CountedBut(e, S)
  BY <1>1, <1>2 DEF CountedBut
<1>5. SummedBut(d, T) => SummedBut(e, T \ {t})
  <2>. SUFFICES ASSUME SummedBut(d, T), NEW p \in TPs \ (T \ {t})
                PROVE  SameButChecks(e[<<"total", p>>], Summed(e, p))
    BY DEF SummedBut
  <2>1. CASE p = t
    BY <1>3, <2>1
  <2>2. CASE p # t
    <3>1. SameButChecks(d[<<"total", p>>], Summed(d, p))
      BY <2>2 DEF SummedBut
    <3>. QED BY <1>1, <1>3, <2>2, <3>1 DEF SameButChecks
  <2>. QED BY <2>1, <2>2
<1>. QED BY <1>4, <1>5

-----------------------------------------------------------------------------
(* Totals are exact                                                          *)

ToSum(w) == IF At(w, "counted") THEN {TPOfRequest(tx[w].req)} ELSE {}
\* As a request sees them, the counts are right but for the Stores that it has to
\* count and the project that it has to sum up; others see none of this before
\* it commits.
TotalsInv ==
  /\ \A w \in Workers :
       /\ CountedBut(View(w), tx[w].todo) /\ SummedBut(View(w), ToSum(w))
       /\ ~Idle(w) /\ tx[w].req.op \notin Autocommit =>
            CountedBut(db, {}) /\ SummedBut(db, {})
  /\ AllIdle => CountedBut(db, {}) /\ SummedBut(db, {})

\* What a step does to the view of its request.
LEMMA StepLays ==
  ASSUME TypeInv, NEW w \in Workers, NEW rows, NEW x, Step(w, rows, x)
  PROVE  Lays(rows, View(w), View(w)')
BY StepSees DEF Lays

\* As the request sees them, its steps leave counts and sums right but for what it
\* still has to count and to sum up.
LEMMA WorkCounts ==
  ASSUME TypeInv, NEW w \in Workers, Work(w),
         CountedBut(View(w), tx[w].todo), SummedBut(View(w), ToSum(w))
  PROVE  /\ CountedBut(View(w)', tx'[w].todo) /\ SummedBut(View(w)', ToSum(w)')
         /\ tx'[w].req = tx[w].req /\ ~Idle(w)
         /\ tx[w].req.op \notin Autocommit => db' = db
<1>. DEFINE V == View(w)
            t == TPOfRequest(tx[w].req)
<1>1. ASSUME NEW rows, NEW x, Step(w, rows, x)
      PROVE  /\ Lays(rows, V, V') /\ tx'[w].todo = x.todo /\ tx'[w].step = x.step
             /\ tx'[w].req = tx[w].req /\ ~Idle(w)
             /\ tx[w].req.op \notin Autocommit => db' = db
  BY <1>1, StepLays, StepSees DEF Step
<1>3. CASE Does1(w)
  <2>1. PICK rows, x : /\ Step(w, rows, x) /\ x.step = "saved" /\ Touches(rows, x.todo)
                       /\ tx[w].todo = {} /\ tx[w].step \in {"loaded", "saved"}
    BY <1>3, DoesTouch
  <2>2. ToSum(w) = {} /\ ToSum(w)' = {}
    BY <1>1, <2>1 DEF ToSum, At
  <2>3. CountedBut(V', x.todo \cup {}) /\ SummedBut(V', {})
    <3>. HIDE DEF V
    <3>1. Lays(rows, V, V') /\ CountedBut(V, {}) /\ SummedBut(V, {})
      BY <1>1, <2>1, <2>2 DEF V
    <3>. QED BY <2>1, <3>1, TouchKeeps
  <2>4. x.todo \cup {} = x.todo
    OBVIOUS
  <2>. QED BY <1>1, <2>1, <2>2, <2>3, <2>4
<1>4. CASE Count(w)
  <2>1. PICK s \in tx[w].todo : s \in Stores /\ \E rows, x : Counts(w, s, rows, x)
    BY <1>4, CountWrites
  <2>2. PICK rows, x : Counts(w, s, rows, x)
    BY <2>1
  <2>3. /\ Step(w, rows, x) /\ x.todo = tx[w].todo \ {s}
        /\ DOMAIN rows \subseteq {<<"data", s>>}
        /\ x.step \in {"saved", "counted"}
        /\ (IF <<"data", s>> \in DOMAIN rows THEN rows[<<"data", s>>] ELSE V[<<"data", s>>])
             = Counted(V, s)
        /\ x.step = "saved" => SameButChecks(Counted(V, s), V[<<"data", s>>])
    BY <2>2 DEF Counts
  <2>4. At(w, "saved")
    BY <1>4, CountWrites
  <2>5. TPOf[s] = t /\ s \in Stores
    <3>1. tx[w].todo \subseteq StoresOf(t)
      BY <1>1, <2>3, RequestTyped DEF TxTyped, Idle
    <3>. QED BY <2>1, <3>1 DEF StoresOf
  <2>6. V'[<<"data", s>>] = Counted(V, s)
    BY <1>1, <2>3, <2>5, Keys DEF Lays
  <2>7. IsCount(V[<<"data", s>>]) /\ IsCount(V'[<<"data", s>>])
    <3>1. IsCount(V[<<"data", s>>]) /\ \A u \in Units : V[<<"unit", u>>].revision \in 0..revision
      BY <2>5, ViewRows
    <3>2. revision \in Nat
      BY DEF TypeInv
    <3>. HIDE DEF V
    <3>3. IsCount(Counted(V, s))
      BY <2>5, <3>1, <3>2, CountedTyped
    <3>. QED BY <2>6, <3>1, <3>3
  <2>8. ToSum(w) = {} /\ ToSum(w)' = IF x.step = "counted" THEN {t} ELSE {}
    BY <1>1, <2>3, <2>4 DEF ToSum, At
  <2>9. Lays(rows, V, V') /\ CountedBut(V, tx[w].todo) /\ SummedBut(V, {})
    BY <1>1, <2>3, <2>8
  <2>. HIDE DEF V, t
  <2>10. /\ CountedBut(V', tx[w].todo \ {s}) /\ SummedBut(V', {} \cup {t})
         /\ SameButChecks(V'[<<"data", s>>], V[<<"data", s>>]) => SummedBut(V', {})
    BY <2>3, <2>5, <2>6, <2>7, <2>9, CountKeeps
  <2>11. {} \cup {t} = {t} /\ tx'[w].todo = tx[w].todo \ {s}
    BY <1>1, <2>3
  <2>12. SummedBut(V', ToSum(w)')
    BY <2>3, <2>6, <2>8, <2>10, <2>11
  <2>. QED BY <1>1, <2>3, <2>10, <2>11, <2>12 DEF V
<1>5. CASE SumUp(w) \/ Total(w)
  <2>1. PICK rows, x : Sums(w, rows, x) /\ x.step # "counted"
    BY <1>5, SumUpWrites, TotalWrites
  <2>2. /\ Step(w, rows, x) /\ x.todo = tx[w].todo /\ t \in TPs
        /\ DOMAIN rows \subseteq {<<"total", t>>}
        /\ (IF <<"total", t>> \in DOMAIN rows THEN rows[<<"total", t>>] ELSE V[<<"total", t>>])
             = Summed(V, t)
    BY <2>1 DEF Sums
  <2>3. ToSum(w) \subseteq {t} /\ ToSum(w)' = {}
    BY <1>1, <2>1, <2>2 DEF ToSum, At
  <2>4. V'[<<"total", t>>] = Summed(V, t)
    BY <1>1, <2>2, Keys DEF Lays
  <2>5. Lays(rows, V, V') /\ CountedBut(V, tx[w].todo) /\ SummedBut(V, ToSum(w))
    BY <1>1, <2>2
  <2>. HIDE DEF V, t
  <2>6. CountedBut(V', tx[w].todo) /\ SummedBut(V', ToSum(w) \ {t})
    <3>1. SumsOnly(rows, t)
      BY <2>2 DEF SumsOnly
    <3>. QED BY <2>4, <2>5, <3>1, SumKeeps
  <2>7. ToSum(w) \ {t} = {}
    BY <2>3
  <2>. QED BY <1>1, <2>2, <2>3, <2>6, <2>7 DEF V
<1>6. CASE Renew(w)
  <2>1. PICK rows, x :
          /\ Step(w, rows, x) /\ x.step = "saved" /\ x.todo = tx[w].todo
          /\ DOMAIN rows = {<<"token", t>>, <<"token", ROOT>>}
    BY <1>6, RenewWrites
  <2>2. ToSum(w) = {} /\ ToSum(w)' = {}
    BY <1>1, <1>6, <2>1, RenewWrites DEF ToSum, At
  <2>3. Lays(rows, V, V') /\ CountedBut(V, tx[w].todo) /\ SummedBut(V, ToSum(w))
    BY <1>1, <2>1
  <2>4. PICK r : r \notin TPs
    BY TreeAssumption
  <2>. HIDE DEF V, t
  <2>5. CountedBut(V', tx[w].todo) /\ SummedBut(V', ToSum(w) \ {r})
    <3>1. SumsOnly(rows, r)
      BY <2>1 DEF SumsOnly
    <3>2. r \in TPs => V'[<<"total", r>>] = Summed(V, r)
      BY <2>4
    <3>. QED BY <2>3, <3>1, <3>2, SumKeeps
  <2>6. ToSum(w) \ {r} = {}
    BY <2>2
  <2>. QED BY <1>1, <2>1, <2>2, <2>5, <2>6 DEF V
<1>. QED BY <1>3, <1>4, <1>5, <1>6 DEF Work, Does1

\* An empty database
LEMMA InitTotals ==
  ASSUME Init
  PROVE  CountedBut(db, {}) /\ SummedBut(db, {})
<1>. DEFINE rows == [k \in Key |-> Fresh(k)]
            stores == [k \in Key |-> IF k[1] = "data" THEN Counted(rows, k[2]) ELSE rows[k]]
<1>1. db = [k \in Key |-> IF k[1] = "total" THEN Summed(stores, k[2]) ELSE stores[k]]
  BY InitRows
<1>2. /\ \A s \in Stores : /\ db[<<"data", s>>] = stores[<<"data", s>>]
                           /\ stores[<<"data", s>>] = Counted(rows, s)
                           /\ db[<<"obsolete", s>>] = rows[<<"obsolete", s>>]
      /\ \A u \in Units : /\ db[<<"unit", u>>] = rows[<<"unit", u>>]
                          /\ db[<<"checks", u>>] = rows[<<"checks", u>>]
                          /\ db[<<"suggestion", u>>] = rows[<<"suggestion", u>>]
      /\ \A t \in TPs : db[<<"total", t>>] = Summed(stores, t)
  <2>. HIDE DEF rows
  <2>1. \A k \in Key : /\ k[1] \notin {"total", "data"} => db[k] = rows[k]
                       /\ k[1] = "data" => /\ db[k] = stores[k]
                                           /\ stores[k] = Counted(rows, k[2])
                       /\ k[1] = "total" => db[k] = Summed(stores, k[2])
    BY <1>1
  <2>2. \A x : /\ <<"data", x>>[1] = "data" /\ <<"data", x>>[2] = x
               /\ <<"total", x>>[1] = "total" /\ <<"total", x>>[2] = x
               /\ <<"unit", x>>[1] = "unit" /\ <<"checks", x>>[1] = "checks"
               /\ <<"suggestion", x>>[1] = "suggestion" /\ <<"obsolete", x>>[1] = "obsolete"
    OBVIOUS
  <2>. HIDE DEF stores
  <2>. QED BY <2>1, <2>2, Keys
<1>. HIDE DEF rows, stores
<1>3. \A s \in Stores : Counted(rows, s) = Counted(db, s)
  BY <1>2, CountedSame DEF UnitsOf
<1>4. \A t \in TPs : SameButChecks(Summed(stores, t), Summed(db, t))
  BY <1>2, SummedSame DEF StoresOf
<1>. QED BY <1>2, <1>3, <1>4 DEF CountedBut, SummedBut

\* At first, units are empty and have no checks.
LEMMA InitUnits ==
  ASSUME Init, NEW u \in Units
  PROVE  db[<<"unit", u>>].text = "" /\ db[<<"checks", u>>] = [c \in Checks |-> "none"]
<1>. DEFINE rows == [k \in Key |-> Fresh(k)]
            stores == [k \in Key |-> IF k[1] = "data" THEN Counted(rows, k[2]) ELSE rows[k]]
            k == <<"unit", u>>
            l == <<"checks", u>>
<1>1. db = [i \in Key |-> IF i[1] = "total" THEN Summed(stores, i[2]) ELSE stores[i]]
  BY InitRows
<1>2. k \in Key /\ l \in Key /\ k[1] = "unit" /\ l[1] = "checks"
  BY Keys
<1>3. rows[k] = Fresh(k) /\ rows[l] = Fresh(l)
  BY <1>2
<1>. HIDE DEF rows
<1>4. stores[k] = rows[k] /\ stores[l] = rows[l]
  BY <1>2
<1>. HIDE DEF stores
<1>5. db[k] = stores[k] /\ db[l] = stores[l]
  BY <1>1, <1>2
<1>6. Fresh(k) = [text |-> "", live |-> TRUE, revision |-> 1] /\ Fresh(l) = [c \in Checks |-> "none"]
  BY <1>2 DEF Fresh
<1>7. ASSUME NEW r, r = [text |-> "", live |-> TRUE, revision |-> 1]
      PROVE  r.text = ""
  BY <1>7
<1>. QED BY <1>3, <1>4, <1>5, <1>6, <1>7

\* If requests do not overlap and are not killed half way
LEMMA TotalsStep ==
  ASSUME \A v, w \in Workers : v = w, "kill" \notin Ops \/ Autocommit \cap Ops = {},
         TypeInv, TotalsInv, [Next]_vars
  PROVE  TotalsInv'
<1>1. ASSUME NEW w \in Workers, NEW req, NEW row, Begin(w, req, row), GoodRequest(req),
             LoadsUnit(req) => RowTyped(<<"unit", req.unit>>, row, revision)
      PROVE  TotalsInv'
  <2>1. /\ Idle(w) /\ tx'[w].step = "loaded" /\ tx'[w].todo = {} /\ db' = db
        /\ View(w) = db /\ View(w)' = db
    <3>1. TypeInv /\ TypeInv' /\ Idle(w) /\ tx'[w].step = "loaded" /\ db' = db
      BY <1>1, BeginTyped
    <3>2. /\ TxTyped(tx[w], revision) /\ TxTyped(tx'[w], revision')
          /\ db = [k \in Key |-> db[k]]
      BY <3>1 DEF TypeInv, RequestsTyped, DbTyped
    <3>3. tx[w].wrote = NoRows /\ tx'[w].wrote = NoRows /\ tx'[w].todo = {}
      BY <3>1, <3>2 DEF TxTyped, Idle, NoRequest
    <3>. QED BY <3>1, <3>2, <3>3 DEF View, Overlay, NoRows
  <2>2. tx[w].todo = {} /\ ToSum(w) = {} /\ ToSum(w)' = {}
    <3>1. tx[w] = NoRequest
      BY <2>1 DEF TypeInv, RequestsTyped, TxTyped, Idle
    <3>2. tx[w].todo = {} /\ tx[w].step # "counted" /\ tx'[w].step # "counted"
      BY <2>1, <3>1 DEF NoRequest
    <3>. QED BY <3>2 DEF ToSum, At
  <2>3. ~AllIdle'
    BY <2>1 DEF AllIdle, Idle
  <2>4. CountedBut(db, {}) /\ SummedBut(db, {})
    BY <2>1, <2>2 DEF TotalsInv
  <2>. QED BY <2>1, <2>2, <2>3, <2>4 DEF TotalsInv
<1>2. ASSUME NEW w \in Workers, Work(w)
      PROVE  TotalsInv'
  <2>1. /\ CountedBut(View(w)', tx'[w].todo) /\ SummedBut(View(w)', ToSum(w)')
        /\ tx'[w].req = tx[w].req /\ ~Idle(w)
        /\ tx[w].req.op \notin Autocommit => db' = db
    BY <1>2, WorkCounts DEF TotalsInv
  <2>2. tx'[w].req.op \notin Autocommit => CountedBut(db', {}) /\ SummedBut(db', {})
    BY <2>1 DEF TotalsInv
  <2>3. ~AllIdle'
    <3>1. PICK rows, x : Step(w, rows, x)
      BY <1>2, WorkSteps
    <3>. QED BY <3>1, StepSees DEF AllIdle, Idle, Step
  <2>. QED BY <2>1, <2>2, <2>3 DEF TotalsInv
<1>3. ASSUME NEW w \in Workers, Commit(w) \/ Fail(w)
      PROVE  TotalsInv'
  <2>1. /\ TypeInv' /\ tx' = [tx EXCEPT ![w] = NoRequest] /\ Idle(w)' /\ View(w)' = db'
    BY <1>3, EndTyped
  <2>2. tx'[w].todo = {} /\ ToSum(w)' = {}
    BY <2>1 DEF TypeInv, RequestsTyped, NoRequest, ToSum, At, Idle
  <2>3. CountedBut(db', {}) /\ SummedBut(db', {})
    <3>1. CASE Commit(w)
      <4>1. db' = View(w) /\ tx[w].todo = {} /\ ToSum(w) = {}
        BY <1>3, <3>1, EndTyped DEF Commit, Finished, ToSum, At
      <4>. QED BY <4>1 DEF TotalsInv
    <3>2. CASE Fail(w)
      <4>1. ~Idle(w) /\ tx[w].req.op \in Ops
        BY <3>2 DEF Fail, TypeInv, RequestsTyped, TxTyped, Idle
      <4>2. tx[w].req.op \notin Autocommit /\ db' = db
        BY <3>2, <4>1 DEF Fail
      <4>. QED BY <4>1, <4>2 DEF TotalsInv
    <3>. QED BY <1>3, <3>1, <3>2
  <2>. QED BY <2>1, <2>2, <2>3 DEF TotalsInv
<1>4. ASSUME UNCHANGED <<db, tx>>
      PROVE  TotalsInv'
  BY <1>4 DEF TotalsInv, View, Idle, ToSum, At, AllIdle
<1>5. ASSUME NEW w \in Workers, NEW u \in Units, Edit(w, u)
      PROVE  TotalsInv'
  <2>1. PICK req : Begin(w, req, db[<<"unit", u>>]) /\ GoodRequest(req) /\ req.unit = u
    BY <1>5, EditBegins
  <2>2. RowTyped(<<"unit", req.unit>>, db[<<"unit", u>>], revision)
    BY <2>1, Typed DEF RowTyped
  <2>. QED BY <1>1, <2>1, <2>2
<1>6. ASSUME NEW w \in Workers, Manage(w)
      PROVE  TotalsInv'
  BY <1>1, <1>6, ManageBegins
<1>7. ASSUME NEW v \in Viewers,
             (\E d \in Dirs : Ask(v, d)) \/ Hit(v) \/ Make(v) \/ Put(v) \/ Leave(v)
      PROVE  UNCHANGED <<db, tx>>
  BY <1>7, PagesStepTyped
<1>. QED BY <1>2, <1>3, <1>4, <1>5, <1>6, <1>7 DEF Next, Work, Upgrade, vars

\* At first, counts and sums are right.
LEMMA InitTotalsInv == Init => TotalsInv
<1>. SUFFICES ASSUME Init PROVE TotalsInv
  OBVIOUS
<1>1. TypeInv /\ tx = [w \in Workers |-> NoRequest]
  BY InitTyped DEF Init
<1>2. \A w \in Workers : /\ tx[w].todo = {} /\ ToSum(w) = {} /\ Idle(w)
                         /\ tx[w].wrote = NoRows
  BY <1>1 DEF NoRequest, ToSum, At, Idle
<1>3. \A w \in Workers : View(w) = db
  BY <1>1, <1>2 DEF View, Overlay, NoRows, TypeInv, DbTyped
<1>. QED BY <1>2, <1>3, InitTotals DEF TotalsInv

\* StoreData is what the units of the Store amount to and TPData what its Stores
\* do whenever no request is going on (update_store_after, update_data), if
\* requests do not overlap and commands without a transaction are not killed.
THEOREM TotalsStayExact ==
  ASSUME \A v, w \in Workers : v = w, "kill" \notin Ops \/ Autocommit \cap Ops = {}
  PROVE  Spec => []TotalsExact
<1>1. Init => TotalsInv
  BY InitTotalsInv
<1>2. TypeInv /\ TotalsInv /\ [Next]_vars => TotalsInv'
  BY TotalsStep
<1>3. TypeInv /\ TotalsInv => TotalsExact
  <2>. SUFFICES ASSUME TypeInv, TotalsInv, AllIdle PROVE CountedBut(db, {}) /\ SummedBut(db, {})
    BY DEF TotalsExact, CountedBut, SummedBut
  <2>. QED BY DEF TotalsInv
<1>. QED BY <1>1, <1>2, <1>3, TypeInvHolds, PTL DEF Spec

-----------------------------------------------------------------------------
(* Checks on record                                                          *)

Recorded(checks) == {c \in Checks : checks[c] # "none"}
Matches(unit, checks) ==
  unit.live => Recorded(checks) \in IF unit.text = "" THEN {{}}
                                    ELSE {Fails[st][unit.text] : st \in Styles}
ChecksRight(d) == \A u \in Units : Matches(d[<<"unit", u>>], d[<<"checks", u>>])
\* A request sees checks that match, finds the unit as it has loaded it, and the
\* check that it mutes or unmutes.
ChecksInv ==
  /\ ChecksRight(db)
  /\ \A w \in Workers : ChecksRight(View(w))
  /\ \A w \in Workers : ~Idle(w) =>
       LET req == tx[w].req
       IN /\ At(w, "loaded") /\ LoadsUnit(req) =>
               tx[w].row = db[<<"unit", req.unit>>] /\ tx[w].row.live
          /\ req.op = "toggle" => View(w)[<<"checks", req.unit>>][req.arg.check] # "none"

\* A unit that was checked has the checks that its target fails.
LEMMA CheckedMatches ==
  ASSUME style \in Styles, NEW old, NEW text \in Texts, NEW unit, unit.text = text,
         NEW new \in {Checked(old, text), CheckedAnew(old, text)}
  PROVE  Matches(unit, new)
<1>1. CASE text = ""
  <2>1. Recorded(new) = {}
    BY <1>1 DEF Recorded, Checked, CheckedAnew
  <2>. QED BY <1>1, <2>1 DEF Matches
<1>2. CASE text # ""
  <2>1. Fails[style][text] \subseteq Checks
    BY <1>2, ChecksAssumption
  <2>2. Recorded(Checked(old, text)) = Fails[style][text]
    BY <1>2, <2>1 DEF Recorded, Checked
  <2>3. Recorded(CheckedAnew(old, text)) = Recorded(Checked(old, text))
    BY DEF Recorded, CheckedAnew
  <2>. QED BY <1>2, <2>2, <2>3 DEF Matches
<1>. QED BY <1>1, <1>2

\* Rows other than those of units and checks
Elsewhere(rows) == \A k \in DOMAIN rows : k[1] \notin {"unit", "checks"}
\* Steps that write other rows leave the checks right.
LEMMA OthersMatch ==
  ASSUME NEW d, NEW e, NEW rows, Lays(rows, d, e), ChecksRight(d), Elsewhere(rows)
  PROVE  ChecksRight(e) /\ \A u \in Units : e[<<"checks", u>>] = d[<<"checks", u>>]
<1>1. ASSUME NEW u \in Units
      PROVE  e[<<"unit", u>>] = d[<<"unit", u>>] /\ e[<<"checks", u>>] = d[<<"checks", u>>]
  <2>1. \A k \in DOMAIN rows : k # <<"unit", u>> /\ k # <<"checks", u>>
    BY DEF Elsewhere
  <2>. QED BY <2>1, Keys DEF Lays
<1>. QED BY <1>1 DEF ChecksRight

\* The steps of a request leave the checks right, as it sees them.
LEMMA WorkMatches ==
  ASSUME TypeInv, ChecksInv, NEW w \in Workers, Work(w)
  PROVE  /\ ChecksRight(View(w)') /\ ~Idle(w) /\ tx'[w].req = tx[w].req
         /\ tx'[w].step \notin {"idle", "loaded"}
         /\ tx[w].req.op = "toggle" =>
              View(w)'[<<"checks", tx[w].req.unit>>][tx[w].req.arg.check] # "none"
         /\ tx[w].req.op \in Autocommit => db' = View(w)'
         /\ tx[w].req.op \notin Autocommit => db' = db
<1>. DEFINE V == View(w)
            req == tx[w].req
<1>1. ASSUME NEW rows, NEW x, Step(w, rows, x)
      PROVE  /\ Lays(rows, V, V') /\ ~Idle(w) /\ tx'[w].req = req
             /\ tx'[w].step \notin {"idle", "loaded"}
             /\ req.op \in Autocommit => db' = V'
             /\ req.op \notin Autocommit => db' = db
  BY <1>1, StepLays, StepSees DEF Step
<1>2. ChecksRight(V) /\ style \in Styles
  BY DEF ChecksInv, TypeInv
<1>3. ASSUME ~Idle(w), req.op = "toggle"
      PROVE  V[<<"checks", req.unit>>][req.arg.check] # "none" /\ req.unit \in Units
  BY <1>3, RequestTyped, RequestAbout DEF ChecksInv, LoadsUnit
<1>. SUFFICES \E rows, x :
                /\ Step(w, rows, x) /\ ChecksRight(V')
                /\ req.op = "toggle" => V'[<<"checks", req.unit>>][req.arg.check] # "none"
  BY <1>1
<1>4. ASSUME NEW rows, NEW x, Step(w, rows, x), Elsewhere(rows)
      PROVE  /\ Step(w, rows, x) /\ ChecksRight(V')
             /\ req.op = "toggle" => V'[<<"checks", req.unit>>][req.arg.check] # "none"
  <2>1. Lays(rows, V, V') /\ ~Idle(w)
    BY <1>1, <1>4
  <2>. HIDE DEF V
  <2>2. ChecksRight(V') /\ \A u \in Units : V'[<<"checks", u>>] = V[<<"checks", u>>]
    BY <1>2, <1>4, <2>1, OthersMatch
  <2>. QED BY <1>3, <1>4, <2>1, <2>2
<1>5. CASE Suggest(w)
  <2>1. PICK rows, x : Step(w, rows, x) /\ DOMAIN rows = {<<"suggestion", req.unit>>}
    BY <1>5, SuggestWrites
  <2>2. Elsewhere(rows)
    BY <2>1 DEF Elsewhere
  <2>. QED BY <1>4, <2>1, <2>2
<1>6. CASE Hide(w)
  <2>1. PICK rows, x : Step(w, rows, x) /\ DOMAIN rows = {<<"obsolete", req.store>>}
    BY <1>6, HideWrites
  <2>2. Elsewhere(rows)
    BY <2>1 DEF Elsewhere
  <2>. QED BY <1>4, <2>1, <2>2
<1>7. CASE UpdateData(w)
  <2>1. PICK x : Step(w, NoRows, x)
    BY <1>7, UpdateDataWrites
  <2>2. Elsewhere(NoRows)
    BY DEF Elsewhere, NoRows
  <2>. QED BY <1>4, <2>1, <2>2
<1>8. CASE Count(w)
  <2>1. PICK s \in tx[w].todo : \E rows, x : Counts(w, s, rows, x)
    BY <1>8, CountWrites
  <2>2. PICK rows, x : Step(w, rows, x) /\ DOMAIN rows \subseteq {<<"data", s>>}
    BY <2>1 DEF Counts
  <2>3. Elsewhere(rows)
    BY <2>2 DEF Elsewhere
  <2>. QED BY <1>4, <2>2, <2>3
<1>9. CASE SumUp(w) \/ Total(w)
  <2>1. PICK rows, x : Sums(w, rows, x)
    BY <1>9, SumUpWrites, TotalWrites
  <2>2. Step(w, rows, x) /\ DOMAIN rows \subseteq {<<"total", TPOfRequest(req)>>}
    BY <2>1 DEF Sums
  <2>3. Elsewhere(rows)
    BY <2>2 DEF Elsewhere
  <2>. QED BY <1>4, <2>2, <2>3
<1>10. CASE Renew(w)
  <2>1. PICK rows, x :
          /\ Step(w, rows, x)
          /\ DOMAIN rows = {<<"token", TPOfRequest(req)>>, <<"token", ROOT>>}
    BY <1>10, RenewWrites
  <2>2. Elsewhere(rows)
    BY <2>1 DEF Elsewhere
  <2>. QED BY <1>4, <2>1, <2>2
<1>11. CASE Submit(w) \/ Accept(w) \/ Toggle(w)
  <2>. DEFINE u == req.unit
  <2>0. /\ At(w, "loaded") /\ LoadsUnit(req)
        /\ \E text \in Texts : /\ req.op = "toggle" => text = tx[w].row.text
                              /\ \E rows, x : Saves(w, text, rows, x)
    BY <1>11, EditWrites
  <2>1. PICK text \in Texts : /\ req.op = "toggle" => text = tx[w].row.text
                              /\ \E rows, x : Saves(w, text, rows, x)
    BY <2>0
  <2>2. PICK rows, x : Saves(w, text, rows, x)
    BY <2>1
  <2>3. /\ Step(w, rows, x)
        /\ DOMAIN rows = {<<"unit", u>>} \cup
             IF text = tx[w].row.text THEN {} ELSE {<<"checks", u>>}
        /\ rows[<<"unit", u>>].text = text /\ rows[<<"unit", u>>].live = tx[w].row.live
        /\ text # tx[w].row.text =>
             rows[<<"checks", u>>] \in {Checked(db[<<"checks", u>>], text),
                                       CheckedAnew(db[<<"checks", u>>], text)}
    BY <2>2 DEF Saves
  <2>4. /\ u \in Units /\ V = db /\ Lays(rows, V, V') /\ ~Idle(w)
        /\ tx[w].row = db[<<"unit", u>>]
    BY <1>1, <2>0, <2>3, LoadedTyped, RequestAbout DEF ChecksInv
  <2>. HIDE DEF V, u
  <2>5. /\ V'[<<"unit", u>>].text = text
        /\ text = tx[w].row.text => V'[<<"checks", u>>] = V[<<"checks", u>>]
        /\ text # tx[w].row.text => V'[<<"checks", u>>] = rows[<<"checks", u>>]
        /\ V'[<<"unit", u>>].live = V[<<"unit", u>>].live
    BY <2>3, <2>4, Keys DEF Lays
  <2>6. \A y \in Units \ {u} : /\ V'[<<"unit", y>>] = V[<<"unit", y>>]
                               /\ V'[<<"checks", y>>] = V[<<"checks", y>>]
    BY <2>3, <2>4, Keys DEF Lays
  <2>7. Matches(V'[<<"unit", u>>], V'[<<"checks", u>>])
    <3>1. CASE text = tx[w].row.text
      BY <1>2, <2>4, <2>5, <3>1, ZenonT(60) DEF ChecksRight, Matches
    <3>2. CASE text # tx[w].row.text
      BY <1>2, <2>3, <2>5, <3>2, CheckedMatches
    <3>. QED BY <3>1, <3>2
  <2>8. ChecksRight(V')
    BY <1>2, <2>6, <2>7 DEF ChecksRight
  <2>. QED BY <1>3, <2>1, <2>3, <2>4, <2>5, <2>8 DEF u
<1>12. CASE Update(w)
  <2>. DEFINE s == req.store
  <2>1. At(w, "loaded") /\ req.op = "update"
    BY <1>12, UpdateWrites
  <2>2. PICK rows, x :
          /\ Step(w, rows, x)
          /\ DOMAIN rows \subseteq {"unit", "checks"} \X UnitsOf(s)
          /\ \A u \in UnitsOf(s) :
               /\ <<"checks", u>> \in DOMAIN rows =>
                    /\ <<"unit", u>> \in DOMAIN rows
                    /\ rows[<<"checks", u>>] = Checked(db[<<"checks", u>>],
                                                       rows[<<"unit", u>>].text)
               /\ <<"unit", u>> \in DOMAIN rows /\ <<"checks", u>> \notin DOMAIN rows
                    => ~rows[<<"unit", u>>].live
    BY <1>12, UpdateWrites
  <2>3. Lays(rows, V, V') /\ RowsTyped(rows, revision')
    BY <1>1, <2>2 DEF Step
  <2>. HIDE DEF V, s
  <2>4. ASSUME NEW u \in Units
        PROVE  Matches(V'[<<"unit", u>>], V'[<<"checks", u>>])
    <3>1. CASE <<"unit", u>> \notin DOMAIN rows
      <4>1. <<"checks", u>> \notin DOMAIN rows
        BY <2>2, <3>1
      <4>. QED BY <1>2, <2>3, <3>1, <4>1, Keys DEF Lays, ChecksRight
    <3>2. CASE <<"unit", u>> \in DOMAIN rows /\ <<"checks", u>> \in DOMAIN rows
      <4>1. /\ V'[<<"unit", u>>] = rows[<<"unit", u>>]
            /\ V'[<<"checks", u>>] = Checked(db[<<"checks", u>>], rows[<<"unit", u>>].text)
        BY <2>2, <2>3, <3>2, Keys DEF Lays
      <4>2. rows[<<"unit", u>>].text \in Texts
        BY <2>3, <3>2 DEF RowsTyped, RowTyped
      <4>. QED BY <1>2, <4>1, <4>2, CheckedMatches
    <3>3. CASE <<"unit", u>> \in DOMAIN rows /\ <<"checks", u>> \notin DOMAIN rows
      <4>1. V'[<<"unit", u>>] = rows[<<"unit", u>>] /\ ~rows[<<"unit", u>>].live
        BY <2>2, <2>3, <3>3, Keys DEF Lays
      <4>. QED BY <4>1 DEF Matches
    <3>. QED BY <3>1, <3>2, <3>3
  <2>. QED BY <2>1, <2>2, <2>4 DEF ChecksRight
<1>13. CASE CalculateChecks(w)
  <2>1. At(w, "loaded") /\ req.op = "calculate_checks" /\ V = db
    BY <1>13, CalculateChecksWrites, LoadedTyped
  <2>2. PICK rows, x :
          /\ Step(w, rows, x)
          /\ DOMAIN rows \subseteq {"checks"} \X {u \in Units : TPOf[StoreOf[u]] = req.tp}
          /\ \A k \in DOMAIN rows :
               LET unit == db[<<"unit", k[2]>>]
               IN rows[k] = Checked(db[k], IF unit.live THEN unit.text ELSE "")
    BY <1>13, CalculateChecksWrites
  <2>3. Lays(rows, V, V')
    BY <1>1, <2>2
  <2>4. ASSUME NEW u \in Units
        PROVE  Matches(V'[<<"unit", u>>], V'[<<"checks", u>>])
    <3>1. V[<<"unit", u>>].text \in Texts
      BY ViewRows
    <3>2. <<"checks", u>> \in DOMAIN rows /\ V[<<"unit", u>>].live =>
            rows[<<"checks", u>>] = Checked(V[<<"checks", u>>], V[<<"unit", u>>].text)
      BY <2>1, <2>2
    <3>. HIDE DEF V
    <3>3. V'[<<"unit", u>>] = V[<<"unit", u>>]
      BY <2>2, <2>3, Keys DEF Lays
    <3>4. CASE <<"checks", u>> \notin DOMAIN rows
      BY <1>2, <2>3, <3>3, <3>4, Keys DEF Lays, ChecksRight
    <3>5. CASE <<"checks", u>> \in DOMAIN rows /\ V[<<"unit", u>>].live
      <4>1. V'[<<"checks", u>>] = Checked(V[<<"checks", u>>], V[<<"unit", u>>].text)
        BY <2>3, <3>2, <3>5, Keys DEF Lays
      <4>. QED BY <1>2, <3>1, <3>3, <4>1, CheckedMatches
    <3>6. CASE ~V[<<"unit", u>>].live
      BY <3>3, <3>6 DEF Matches
    <3>. QED BY <3>4, <3>5, <3>6
  <2>. QED BY <2>1, <2>2, <2>4 DEF ChecksRight
<1>14. CASE Second(w)
  <2>. DEFINE u == req.unit
              k == <<"checks", u>>
  <2>0. PICK rows, x : Seconds(w, rows, x)
    BY <1>14, SecondWrites
  <2>1. /\ Step(w, rows, x)
        /\ DOMAIN rows = IF req.op = "accept" THEN {<<"suggestion", u>>} ELSE {k}
        /\ req.op # "accept" =>
             /\ req.op = "toggle" /\ req.arg.check \in Checks
             /\ rows[k][req.arg.check] # "none"
             /\ \A c \in Checks \ {req.arg.check} : rows[k][c] = V[k][c]
    BY <2>0 DEF Seconds
  <2>2. Lays(rows, V, V') /\ ~Idle(w)
    BY <1>1, <2>1
  <2>3. CASE req.op = "accept"
    <3>1. Elsewhere(rows)
      BY <2>1, <2>3 DEF Elsewhere
    <3>. QED BY <1>4, <2>1, <3>1
  <2>4. CASE req.op # "accept"
    <3>1. V[k][req.arg.check] # "none" /\ u \in Units
      BY <1>3, <2>1, <2>2, <2>4
    <3>. HIDE DEF V, u
    <3>2. /\ V'[k] = rows[k]
          /\ \A y \in Units : V'[<<"unit", y>>] = V[<<"unit", y>>]
          /\ \A y \in Units \ {u} : V'[<<"checks", y>>] = V[<<"checks", y>>]
      BY <2>1, <2>2, <2>4, <3>1, Keys DEF Lays
    <3>3. Recorded(V'[k]) = Recorded(V[k])
      BY <2>1, <2>4, <3>1, <3>2 DEF Recorded
    <3>4. ChecksRight(V')
      BY <1>2, <3>2, <3>3, ZenonT(60) DEF ChecksRight, Matches
    <3>. QED BY <2>1, <2>4, <3>1, <3>2, <3>4 DEF u
  <2>. QED BY <2>3, <2>4
<1>. QED BY <1>5, <1>6, <1>7, <1>8, <1>9, <1>10, <1>11, <1>12, <1>13, <1>14 DEF Work

\* Every step keeps ChecksInv.
LEMMA ChecksStep ==
  ASSUME \A v, w \in Workers : v = w, TypeInv, ChecksInv, [Next]_vars
  PROVE  ChecksInv'
<1>1. ASSUME NEW w \in Workers, NEW req, NEW row, Begin(w, req, row), GoodRequest(req),
             LoadsUnit(req) => /\ RowTyped(<<"unit", req.unit>>, row, revision)
                               /\ row = db[<<"unit", req.unit>>] /\ row.live,
             req.op = "toggle" => db[<<"checks", req.unit>>][req.arg.check] # "none"
      PROVE  ChecksInv'
  <2>1. /\ TypeInv' /\ tx'[w].step = "loaded" /\ tx'[w].req = req /\ tx'[w].row = row
        /\ db' = db
    BY <1>1, BeginTyped
  <2>2. View(w)' = db
    <3>1. tx'[w].wrote = NoRows /\ db = [k \in Key |-> db[k]]
      BY <2>1 DEF TypeInv, RequestsTyped, TxTyped, DbTyped
    <3>. QED BY <2>1, <3>1 DEF View, Overlay, NoRows
  <2>3. ChecksRight(db)
    BY DEF ChecksInv
  <2>. QED BY <1>1, <2>1, <2>2, <2>3 DEF ChecksInv
<1>2. ASSUME NEW w \in Workers, Work(w)
      PROVE  ChecksInv'
  <2>1. /\ ChecksRight(View(w)') /\ ~Idle(w) /\ tx'[w].req = tx[w].req
        /\ tx'[w].step \notin {"idle", "loaded"}
        /\ tx[w].req.op = "toggle" =>
             View(w)'[<<"checks", tx[w].req.unit>>][tx[w].req.arg.check] # "none"
        /\ tx[w].req.op \in Autocommit => db' = View(w)'
        /\ tx[w].req.op \notin Autocommit => db' = db
    BY <1>2, WorkMatches
  <2>2. ChecksRight(db')
    BY <2>1 DEF ChecksInv
  <2>. QED BY <2>1, <2>2 DEF ChecksInv, At
<1>3. ASSUME NEW w \in Workers, Commit(w) \/ Fail(w)
      PROVE  ChecksInv'
  <2>1. Idle(w)' /\ View(w)' = db'
    BY <1>3, EndTyped
  <2>2. ChecksRight(db')
    BY <1>3, EndTyped DEF ChecksInv, Fail
  <2>. QED BY <2>1, <2>2 DEF ChecksInv
<1>4. ASSUME UNCHANGED <<db, tx>>
      PROVE  ChecksInv'
  BY <1>4 DEF ChecksInv, View, Idle, At
<1>5. ASSUME NEW w \in Workers, NEW u \in Units, Edit(w, u)
      PROVE  ChecksInv'
  <2>1. PICK req : /\ Begin(w, req, db[<<"unit", u>>]) /\ GoodRequest(req) /\ req.unit = u
                   /\ db[<<"unit", u>>].live
                   /\ req.op = "toggle" => db[<<"checks", u>>][req.arg.check] # "none"
    BY <1>5, EditBegins
  <2>2. RowTyped(<<"unit", req.unit>>, db[<<"unit", u>>], revision)
    BY <2>1, Typed DEF RowTyped
  <2>. QED BY <1>1, <2>1, <2>2
<1>6. ASSUME NEW w \in Workers, Manage(w)
      PROVE  ChecksInv'
  <2>1. PICK req : Begin(w, req, NULL) /\ GoodRequest(req) /\ ~LoadsUnit(req)
    BY <1>6, ManageBegins
  <2>. QED BY <1>1, <2>1 DEF LoadsUnit
<1>7. ASSUME NEW v \in Viewers,
             (\E d \in Dirs : Ask(v, d)) \/ Hit(v) \/ Make(v) \/ Put(v) \/ Leave(v)
      PROVE  UNCHANGED <<db, tx>>
  BY <1>7, PagesStepTyped
<1>. QED BY <1>2, <1>3, <1>4, <1>5, <1>6, <1>7 DEF Next, Work, Upgrade, vars

\* The checks on record for a unit are those that its present target fails with
\* some checker (Unit.update_qualitychecks, UnitQualityCheck.update, Unit.save,
\* QualityCheckUpdater.update), if requests do not overlap; failures, and commands
\* that are killed half way, change nothing.
THEOREM ChecksStayThoseOfTarget ==
  ASSUME \A v, w \in Workers : v = w
  PROVE  Spec => []ChecksOfTarget
<1>1. Init => ChecksInv
  <2>. SUFFICES ASSUME Init PROVE ChecksInv
    OBVIOUS
  <2>1. TypeInv /\ tx = [w \in Workers |-> NoRequest]
    BY InitTyped DEF Init
  <2>2. \A w \in Workers : Idle(w) /\ tx[w].wrote = NoRows
    BY <2>1 DEF NoRequest, Idle
  <2>3. \A w \in Workers : View(w) = db
    BY <2>1, <2>2 DEF View, Overlay, NoRows, TypeInv, DbTyped
  <2>4. ChecksRight(db)
    <3>. SUFFICES ASSUME NEW u \in Units
                  PROVE  Matches(db[<<"unit", u>>], db[<<"checks", u>>])
      BY DEF ChecksRight
    <3>1. db[<<"unit", u>>].text = "" /\ db[<<"checks", u>>] = [c \in Checks |-> "none"]
      BY InitUnits
    <3>2. Recorded(db[<<"checks", u>>]) = {}
      BY <3>1 DEF Recorded
    <3>. QED BY <3>1, <3>2 DEF Matches
  <2>. QED BY <2>2, <2>3, <2>4 DEF ChecksInv
<1>2. TypeInv /\ ChecksInv /\ [Next]_vars => ChecksInv'
  BY ChecksStep
<1>3. ChecksInv => ChecksOfTarget
  BY DEF ChecksInv, ChecksRight, Matches, Recorded, ChecksOfTarget
<1>. QED BY <1>1, <1>2, <1>3, TypeInvHolds, PTL DEF Spec

-----------------------------------------------------------------------------
(* Tokens                                                                    *)

\* What is in e differs from d in project t only; its tokens are not older, those
\* of the project and of the root are new, and nothing that pages show is.
Within(d, e, t) ==
  /\ \A s \in Stores : TPOf[s] # t => e[<<"data", s>>].words = d[<<"data", s>>].words
  /\ \A p \in TPs \ {t} : e[<<"total", p>>] = d[<<"total", p>>]
NotOlder(d, e) == \A x \in Dirs : d[<<"token", x>>] <= e[<<"token", x>>]
Renewed(d, e, t) == \A x \in {t, ROOT} : d[<<"token", x>>] < e[<<"token", x>>]
SameShown(d, e) ==
  /\ \A s \in Stores : e[<<"data", s>>].words = d[<<"data", s>>].words
  /\ \A p \in TPs : e[<<"total", p>>] = d[<<"total", p>>]

\* A request that has made a difference to what pages show has renewed the tokens,
\* or is about to.
RenewInv ==
  \A w \in Workers : ~Idle(w) =>
    /\ Within(db, View(w), TPOfRequest(tx[w].req)) /\ NotOlder(db, View(w))
    /\ At(w, "saved") =>
         Renewed(db, View(w), TPOfRequest(tx[w].req)) \/ SameShown(db, View(w))

\* A Store that is counted shows what it counts for, also if it is obsolete.
LEMMA ShownIsCounted ==
  ASSUME NEW d, NEW s \in Stores, d[<<"data", s>>] = Counted(d, s)
  PROVE  (IF d[<<"obsolete", s>>] THEN WordsOf(d, {}) ELSE d[<<"data", s>>].words) =
           d[<<"data", s>>].words
BY DEF Counted

\* A page stays the same if words and sums do.
LEMMA ContentSame ==
  ASSUME NEW d, NEW e, CountedBut(d, {}), CountedBut(e, {}), NEW dir \in Dirs,
         dir # ROOT => /\ \A s \in StoresOf(dir) : e[<<"data", s>>].words = d[<<"data", s>>].words
                       /\ e[<<"total", dir>>] = d[<<"total", dir>>],
         dir = ROOT => \A t \in TPs : e[<<"total", t>>] = d[<<"total", t>>]
  PROVE  Content(e, dir) = Content(d, dir)
<1>. DEFINE all(r) == Added([t \in TPs |-> r[<<"total", t>>]], TPs)
            shown(r, s) == IF r[<<"obsolete", s>>] THEN WordsOf(r, {}) ELSE r[<<"data", s>>].words
<1>1. CASE dir = ROOT
  <2>1. [t \in TPs |-> e[<<"total", t>>]] = [t \in TPs |-> d[<<"total", t>>]]
    BY <1>1
  <2>2. all(e) = all(d)
    BY <2>1
  <2>3. \A r : Content(r, dir) = [words |-> all(r).words, checks |-> all(r).checks]
    BY <1>1 DEF Content
  <2>. HIDE DEF all
  <2>. QED BY <2>2, <2>3
<1>2. CASE dir # ROOT
  <2>1. \A s \in StoresOf(dir) : shown(e, s) = shown(d, s)
    <3>. SUFFICES ASSUME NEW s \in StoresOf(dir) PROVE shown(e, s) = shown(d, s)
      OBVIOUS
    <3>1. /\ s \in Stores /\ d[<<"data", s>>] = Counted(d, s) /\ e[<<"data", s>>] = Counted(e, s)
      BY DEF CountedBut, StoresOf
    <3>2. shown(d, s) = d[<<"data", s>>].words /\ shown(e, s) = e[<<"data", s>>].words
      BY <3>1, ShownIsCounted
    <3>. QED BY <1>2, <3>2
  <2>2. \A r : Content(r, dir) =
          [words |-> AddedWords([s \in StoresOf(dir) |-> shown(r, s)], StoresOf(dir)),
           checks |-> r[<<"total", dir>>].checks]
    BY <1>2 DEF Content
  <2>. HIDE DEF shown
  <2>3. [s \in StoresOf(dir) |-> shown(e, s)] = [s \in StoresOf(dir) |-> shown(d, s)]
    BY <2>1
  <2>. QED BY <1>2, <2>2, <2>3
<1>. QED BY <1>1, <1>2

\* Rows of which pages show nothing
LEMMA TouchRenews ==
  ASSUME NEW d, NEW e, NEW f, NEW rows, NEW S, NEW t, Lays(rows, e, f), Touches(rows, S)
  PROVE  /\ Within(d, e, t) => Within(d, f, t)
         /\ NotOlder(d, e) => NotOlder(d, f)
         /\ t \in TPs /\ Renewed(d, e, t) => Renewed(d, f, t)
         /\ SameShown(d, e) => SameShown(d, f)
<1>1. /\ \A s \in Stores : f[<<"data", s>>] = e[<<"data", s>>]
      /\ \A p \in TPs : f[<<"total", p>>] = e[<<"total", p>>]
      /\ \A x \in Dirs : f[<<"token", x>>] = e[<<"token", x>>]
  BY TouchKeeps
<1>. QED BY <1>1 DEF Within, NotOlder, Renewed, SameShown, Dirs

\* The steps of a request renew the tokens of what they change on pages, or leave
\* it to be counted.
LEMMA WorkRenews ==
  ASSUME TypeInv, RenewInv, NEW w \in Workers, Work(w), ~tx[w].total
  PROVE  LET t == TPOfRequest(tx[w].req)
         IN /\ Within(db, View(w)', t) /\ NotOlder(db, View(w)')
            /\ tx'[w].step = "saved" => Renewed(db, View(w)', t) \/ SameShown(db, View(w)')
            /\ ~Idle(w) /\ tx'[w].req = tx[w].req
            /\ tx[w].req.op \notin Autocommit => UNCHANGED <<db, page, viewer>>
<1>. DEFINE V == View(w)
            t == TPOfRequest(tx[w].req)
<1>1. ASSUME NEW rows, NEW x, Step(w, rows, x)
      PROVE  /\ Lays(rows, V, V') /\ tx'[w].step = x.step /\ tx'[w].req = tx[w].req /\ ~Idle(w)
             /\ tx[w].req.op \notin Autocommit => UNCHANGED <<db, page, viewer>>
  BY <1>1, StepLays, StepSees DEF Step
<1>2. PICK rows, x : Step(w, rows, x)
  BY WorkSteps
<1>3. ~Idle(w) /\ t \in TPs /\ Within(db, V, t) /\ NotOlder(db, V)
  BY <1>1, <1>2, RequestTyped, RequestAbout DEF RenewInv
<1>4. /\ \A s \in Stores : IsCount(V[<<"data", s>>])
      /\ \A d \in Dirs : V[<<"token", d>>] \in Nat /\ db[<<"token", d>>] \in Nat
  BY ViewRows, Typed
<1>5. At(w, "loaded") \/ At(w, "saved") => Renewed(db, V, t) \/ SameShown(db, V)
  <2>1. CASE At(w, "loaded")
    <3>1. V = db
      BY <2>1, LoadedTyped
    <3>. QED BY <3>1 DEF SameShown
  <2>2. CASE At(w, "saved")
    BY <1>3, <2>2 DEF RenewInv
  <2>. QED BY <2>1, <2>2
<1>. SUFFICES /\ Within(db, V', t) /\ NotOlder(db, V')
              /\ tx'[w].step = "saved" => Renewed(db, V', t) \/ SameShown(db, V')
  BY <1>1, <1>2
<1>6. CASE Does1(w)
  <2>1. PICK r, y : /\ Step(w, r, y) /\ y.step = "saved" /\ Touches(r, y.todo)
                    /\ tx[w].todo = {} /\ tx[w].step \in {"loaded", "saved"}
    BY <1>6, DoesTouch
  <2>2. Lays(r, V, V') /\ (Renewed(db, V, t) \/ SameShown(db, V))
    BY <1>1, <1>5, <2>1 DEF At
  <2>. HIDE DEF V, t
  <2>. QED BY <1>3, <2>1, <2>2, TouchRenews
<1>7. CASE Count(w)
  <2>1. PICK s \in tx[w].todo : s \in Stores /\ \E r, y : Counts(w, s, r, y)
    BY <1>7, CountWrites
  <2>2. PICK r, y : Counts(w, s, r, y)
    BY <2>1
  <2>3. /\ Step(w, r, y) /\ DOMAIN r \subseteq {<<"data", s>>}
        /\ y.step = "saved" => SameButChecks(Counted(V, s), V[<<"data", s>>])
        /\ (IF <<"data", s>> \in DOMAIN r THEN r[<<"data", s>>] ELSE V[<<"data", s>>]) = Counted(V, s)
    BY <2>2 DEF Counts
  <2>4. TPOf[s] = t /\ s \in Stores /\ Lays(r, V, V') /\ tx'[w].step = y.step
    <3>1. tx[w].todo \subseteq StoresOf(t)
      BY <1>3, RequestTyped DEF TxTyped, Idle
    <3>. QED BY <1>1, <2>1, <2>3, <3>1 DEF StoresOf
  <2>5. At(w, "saved")
    BY <1>7, CountWrites
  <2>6. Renewed(db, V, t) \/ SameShown(db, V)
    BY <1>5, <2>5
  <2>7. IsCount(Counted(V, s))
    <3>1. \A u \in Units : V[<<"unit", u>>].revision \in 0..revision
      BY ViewRows
    <3>2. revision \in Nat
      BY DEF TypeInv
    <3>. HIDE DEF V
    <3>. QED BY <2>4, <3>1, <3>2, CountedTyped
  <2>. HIDE DEF V, t
  <2>8. /\ V'[<<"data", s>>] = Counted(V, s)
        /\ \A z \in Stores \ {s} : V'[<<"data", z>>] = V[<<"data", z>>]
        /\ \A p \in TPs : V'[<<"total", p>>] = V[<<"total", p>>]
        /\ \A d \in Dirs : V'[<<"token", d>>] = V[<<"token", d>>]
    BY <2>3, <2>4, Keys DEF Lays
  <2>9. y.step = "saved" => V'[<<"data", s>>].words = V[<<"data", s>>].words
    BY <1>4, <2>3, <2>4, <2>7, <2>8, SameIs
  <2>10. Within(db, V', t) /\ NotOlder(db, V')
    BY <1>3, <2>4, <2>8 DEF Within, NotOlder
  <2>11. Renewed(db, V, t) => Renewed(db, V', t)
    BY <1>3, <2>8 DEF Renewed, Dirs
  <2>12. y.step = "saved" /\ SameShown(db, V) => SameShown(db, V')
    BY <2>8, <2>9 DEF SameShown
  <2>. QED BY <2>4, <2>6, <2>10, <2>11, <2>12
<1>8. CASE SumUp(w)
  <2>1. PICK r, y : Sums(w, r, y) /\ y.step = "summed"
    BY <1>8, SumUpWrites
  <2>2. Step(w, r, y) /\ DOMAIN r \subseteq {<<"total", t>>}
    BY <2>1 DEF Sums
  <2>3. Lays(r, V, V') /\ tx'[w].step = "summed"
    BY <1>1, <2>1, <2>2
  <2>. HIDE DEF V, t
  <2>4. /\ \A s \in Stores : V'[<<"data", s>>] = V[<<"data", s>>]
        /\ \A p \in TPs \ {t} : V'[<<"total", p>>] = V[<<"total", p>>]
        /\ \A d \in Dirs : V'[<<"token", d>>] = V[<<"token", d>>]
    BY <2>2, <2>3, Keys DEF Lays
  <2>. QED BY <1>3, <2>3, <2>4 DEF Within, NotOlder
<1>9. CASE Renew(w)
  <2>1. PICK r, y :
          /\ Step(w, r, y) /\ y.step = "saved"
          /\ DOMAIN r = {<<"token", t>>, <<"token", ROOT>>}
          /\ \A k \in DOMAIN r : r[k] = V[k] + 1
    BY <1>9, RenewWrites
  <2>2. Lays(r, V, V')
    BY <1>1, <2>1
  <2>. HIDE DEF V, t
  <2>3. /\ \A s \in Stores : V'[<<"data", s>>] = V[<<"data", s>>]
        /\ \A p \in TPs : V'[<<"total", p>>] = V[<<"total", p>>]
        /\ \A d \in {t, ROOT} : V'[<<"token", d>>] = V[<<"token", d>>] + 1
        /\ \A d \in Dirs \ {t, ROOT} : V'[<<"token", d>>] = V[<<"token", d>>]
    <3>1. <<"token", t>> \in Key /\ <<"token", ROOT>> \in Key
      BY <1>3, Keys DEF Dirs
    <3>. QED BY <2>1, <2>2, <3>1, Keys DEF Lays
  <2>4. Within(db, V', t)
    BY <1>3, <2>3 DEF Within
  <2>5. NotOlder(db, V') /\ Renewed(db, V', t)
    BY <1>3, <1>4, <2>3 DEF NotOlder, Renewed, Dirs
  <2>. QED BY <2>4, <2>5
<1>10. ~Total(w)
  BY DEF Total
<1>. QED BY <1>6, <1>7, <1>8, <1>9, <1>10 DEF Work, Does1

\* Every step keeps RenewInv.
LEMMA RenewStep ==
  ASSUME \A v, w \in Workers : v = w, "update_data" \notin Ops, TypeInv, RenewInv, [Next]_vars
  PROVE  RenewInv'
<1>1. ASSUME NEW w \in Workers, NEW req, NEW row, Begin(w, req, row), GoodRequest(req),
             LoadsUnit(req) => RowTyped(<<"unit", req.unit>>, row, revision)
      PROVE  RenewInv'
  <2>1. /\ TypeInv' /\ tx'[w].step = "loaded" /\ db' = db
    BY <1>1, BeginTyped
  <2>2. View(w)' = db
    <3>1. tx'[w].wrote = NoRows /\ db = [k \in Key |-> db[k]]
      BY <2>1 DEF TypeInv, RequestsTyped, TxTyped, DbTyped
    <3>. QED BY <2>1, <3>1 DEF View, Overlay, NoRows
  <2>3. \A x \in Dirs : db[<<"token", x>>] \in Nat
    BY Typed
  <2>4. NotOlder(db, db) /\ \A t : Within(db, db, t)
    BY <2>3 DEF NotOlder, Within
  <2>. QED BY <2>1, <2>2, <2>4 DEF RenewInv, At
<1>2. ASSUME NEW w \in Workers, Work(w)
      PROVE  RenewInv'
  <2>1. ~Idle(w)
    BY <1>2, WorkSteps DEF Step
  <2>2. ~tx[w].total
    BY <2>1, RequestTyped DEF TxTyped, Idle
  <2>3. CASE tx[w].req.op \notin Autocommit
    BY <1>2, <2>2, <2>3, WorkRenews DEF RenewInv, At
  <2>4. CASE tx[w].req.op \in Autocommit
    <3>1. PICK rows, x : Step(w, rows, x)
      BY <1>2, WorkSteps
    <3>2. db' = View(w)' /\ tx'[w].req = tx[w].req
      BY <2>4, <3>1, StepSees DEF Step
    <3>3. TypeInv'
      BY <3>1, StepTyped
    <3>4. \A d \in Dirs : db'[<<"token", d>>] \in Nat
      BY <3>3 DEF TypeInv, DbTyped, RowsTyped, RowTyped, Key
    <3>5. /\ NotOlder(db', db') /\ \A t : Within(db', db', t)
          /\ SameShown(db', db')
      BY <3>4 DEF NotOlder, Within, SameShown
    <3>. QED BY <3>2, <3>5 DEF RenewInv, At
  <2>. QED BY <2>3, <2>4
<1>3. ASSUME NEW w \in Workers, Commit(w) \/ Fail(w)
      PROVE  RenewInv'
  BY <1>3, EndTyped DEF RenewInv
<1>4. ASSUME UNCHANGED <<db, tx>>
      PROVE  RenewInv'
  BY <1>4 DEF RenewInv, View, Idle, At
<1>5. ASSUME NEW w \in Workers, NEW u \in Units, Edit(w, u)
      PROVE  RenewInv'
  <2>1. PICK req : Begin(w, req, db[<<"unit", u>>]) /\ GoodRequest(req) /\ req.unit = u
    BY <1>5, EditBegins
  <2>2. RowTyped(<<"unit", req.unit>>, db[<<"unit", u>>], revision)
    BY <2>1, Typed DEF RowTyped
  <2>. QED BY <1>1, <2>1, <2>2
<1>6. ASSUME NEW w \in Workers, Manage(w)
      PROVE  RenewInv'
  BY <1>1, <1>6, ManageBegins
<1>7. ASSUME NEW v \in Viewers,
             (\E d \in Dirs : Ask(v, d)) \/ Hit(v) \/ Make(v) \/ Put(v) \/ Leave(v)
      PROVE  UNCHANGED <<db, tx>>
  BY <1>7, PagesStepTyped
<1>. QED BY <1>2, <1>3, <1>4, <1>5, <1>6, <1>7 DEF Next, Work, Upgrade, vars

-----------------------------------------------------------------------------
(* Pages                                                                     *)

\* The page of a directory is what it shows now, or its token is newer.
TokensTell(d, e) ==
  \A x \in Dirs : /\ d[<<"token", x>>] \in Nat /\ e[<<"token", x>>] \in Nat
                  /\ d[<<"token", x>>] <= e[<<"token", x>>]
                  /\ d[<<"token", x>>] = e[<<"token", x>>] => Content(e, x) = Content(d, x)

\* A commit that changes a page brings a new token with it.
LEMMA CommitFollows ==
  ASSUME Autocommit \cap Ops = {}, TypeInv, TotalsInv, RenewInv, NEW w \in Workers, Commit(w)
  PROVE  TokensTell(db, db') /\ Publish(db')
<1>. DEFINE V == View(w)
            t == TPOfRequest(tx[w].req)
<1>1. Publish(V) /\ db' = V
  BY EndTyped
<1>2. At(w, "saved") /\ tx[w].todo = {} /\ ~Idle(w)
  BY DEF Commit, Finished, At, Idle
<1>3. t \in TPs /\ tx[w].req.op \notin Autocommit
  BY <1>2, RequestTyped, RequestAbout DEF TxTyped, Idle
<1>4. CountedBut(db, {}) /\ CountedBut(V, {})
  BY <1>2, <1>3 DEF TotalsInv
<1>5. Within(db, V, t) /\ NotOlder(db, V) /\ (Renewed(db, V, t) \/ SameShown(db, V))
  BY <1>2 DEF RenewInv
<1>6. \A x \in Dirs : db[<<"token", x>>] \in Nat /\ V[<<"token", x>>] \in Nat
  BY Typed, ViewRows
<1>. HIDE DEF V, t
<1>7. ASSUME NEW x \in Dirs, db[<<"token", x>>] = V[<<"token", x>>]
      PROVE  Content(V, x) = Content(db, x)
  <2>1. CASE SameShown(db, V)
    <3>1. x # ROOT => /\ \A s \in StoresOf(x) : V[<<"data", s>>].words = db[<<"data", s>>].words
                      /\ V[<<"total", x>>] = db[<<"total", x>>]
      BY <2>1 DEF SameShown, StoresOf, Dirs
    <3>2. \A p \in TPs : V[<<"total", p>>] = db[<<"total", p>>]
      BY <2>1 DEF SameShown
    <3>. QED BY <1>4, <3>1, <3>2, ContentSame
  <2>2. CASE ~SameShown(db, V)
    <3>1. x \notin {t, ROOT}
      BY <1>5, <1>6, <1>7, <2>2 DEF Renewed
    <3>2. /\ \A s \in StoresOf(x) : V[<<"data", s>>].words = db[<<"data", s>>].words
          /\ V[<<"total", x>>] = db[<<"total", x>>]
      BY <1>5, <3>1 DEF Within, StoresOf, Dirs
    <3>. QED BY <1>4, <3>1, <3>2, ContentSame
  <2>. QED BY <2>1, <2>2
<1>. QED BY <1>1, <1>5, <1>6, <1>7 DEF TokensTell, NotOlder

PageGood(d, p) ==
  /\ p.token <= d[<<"token", p.dir>>]
  /\ p.token = d[<<"token", p.dir>>] => p.content = Content(d, p.dir)
ViewerGood(d, x) ==
  x.step # "away" =>
    /\ Content(d, x.dir) \in x.seen
    /\ x.token <= d[<<"token", x.dir>>]
    /\ x.step = "made" /\ x.token = d[<<"token", x.dir>>] => x.content = Content(d, x.dir)
    /\ x.step \in {"made", "shown"} => x.content \in x.seen
\* If p answers the request x, it shows something that could be seen since.
Answers(x, p) ==
  x.step = "asked" /\ p.dir = x.dir /\ p.token = x.token => p.content \in x.seen
\* Tokens tell pages apart: under the present one there is the present page only,
\* cached or about to be, and under that of a request what could be seen since.
PagesInv ==
  /\ \A p \in page : PageGood(db, p)
  /\ \A v \in Viewers : /\ ViewerGood(db, viewer[v])
                        /\ \A p \in page : Answers(viewer[v], p)
                        /\ \A u \in Viewers :
                             viewer[u].step = "made" => Answers(viewer[v], viewer[u])

\* One viewer moves on.
Moves(v, y, new) ==
  /\ viewer' = [viewer EXCEPT ![v] = y] /\ db' = db /\ page' \subseteq page \cup new
  /\ ViewerGood(db, y) /\ \A p \in page' : Answers(y, p)
  /\ \A u \in Viewers : viewer[u].step = "made" => Answers(y, viewer[u])
  /\ \A u \in Viewers : y.step = "made" => Answers(viewer[u], y)
  /\ \A p \in new : PageGood(db, p) /\ \A u \in Viewers : Answers(viewer[u], p)
\* What one viewer does keeps PagesInv if the page he has is good.
LEMMA ViewerMoves ==
  ASSUME PagesInv, NEW v \in Viewers, viewer = [u \in Viewers |-> viewer[u]],
         NEW y, NEW new, Moves(v, y, new)
  PROVE  PagesInv'
<1>1. viewer'[v] = y /\ \A u \in Viewers \ {v} : viewer'[u] = viewer[u]
  BY DEF Moves
<1>2. \A p \in page' : PageGood(db, p)
  BY DEF PagesInv, Moves
<1>3. ASSUME NEW u \in Viewers
      PROVE  /\ ViewerGood(db, viewer'[u])
             /\ \A p \in page' : Answers(viewer'[u], p)
             /\ \A z \in Viewers : viewer'[z].step = "made" => Answers(viewer'[u], viewer'[z])
  <2>1. CASE u = v
    <3>1. y.step = "made" => Answers(y, y)
      BY DEF Answers
    <3>. QED BY <1>1, <2>1, <3>1 DEF Moves
  <2>2. CASE u # v
    <3>1. \A p \in page' : Answers(viewer[u], p)
      BY DEF PagesInv, Moves
    <3>. QED BY <1>1, <2>2, <3>1 DEF PagesInv, Moves
  <2>. QED BY <2>1, <2>2
<1>. QED BY <1>2, <1>3 DEF PagesInv, Moves

\* What the viewers do.
LEMMA ViewerSteps ==
  ASSUME TypeInv, NEW v \in Viewers
  PROVE  /\ viewer = [u \in Viewers |-> viewer[u]] /\ IsPage(viewer[v])
         /\ viewer[v].step # "away" => viewer[v].dir \in Dirs
         /\ viewer[v].step = "away" => viewer[v] = NoPage
BY DEF TypeInv, PagesTyped, ViewerTyped

\* A viewer who asks for a page reads its token.
LEMMA AskWrites ==
  ASSUME TypeInv, NEW v \in Viewers, NEW d \in Dirs, Ask(v, d)
  PROVE  /\ UNCHANGED <<db, page>> /\ Away(v)
         /\ \E y : /\ viewer' = [viewer EXCEPT ![v] = y] /\ y.step = "asked" /\ y.dir = d
                   /\ y.token = db[<<"token", d>>] /\ y.seen = {Content(db, d)}
<1>. DEFINE y == [dir |-> d, token |-> db[<<"token", d>>], step |-> "asked", content |-> NULL,
                  seen |-> {Content(db, d)}]
<1>1. viewer' = [viewer EXCEPT ![v] = y] /\ UNCHANGED <<db, page>> /\ Away(v)
  BY DEF Ask
<1>2. /\ y.step = "asked" /\ y.dir = d /\ y.token = db[<<"token", d>>]
      /\ y.seen = {Content(db, d)}
  OBVIOUS
<1>. HIDE DEF y
<1>. QED BY <1>1, <1>2

\* A page is found in the cache under that token.
LEMMA HitWrites ==
  ASSUME TypeInv, NEW v \in Viewers, Hit(v)
  PROVE  /\ UNCHANGED <<db, page>> /\ Asked(v)
         /\ \E p \in page :
              /\ p.dir = viewer[v].dir /\ p.token = viewer[v].token
              /\ \E y : /\ viewer' = [viewer EXCEPT ![v] = y] /\ y.step = "shown"
                        /\ y.dir = viewer[v].dir /\ y.token = viewer[v].token
                        /\ y.seen = viewer[v].seen /\ y.content = p.content
<1>1. PICK p \in Found(v) :
        viewer' = [viewer EXCEPT ![v].step = "shown", ![v].content = p.content]
  BY DEF Hit
<1>. DEFINE y == [viewer[v] EXCEPT !.step = "shown", !.content = p.content]
<1>2. viewer = [u \in Viewers |-> viewer[u]] /\ IsPage(viewer[v])
  BY ViewerSteps
<1>3. viewer' = [viewer EXCEPT ![v] = y]
  BY <1>1, <1>2
<1>4. /\ y.step = "shown" /\ y.dir = viewer[v].dir /\ y.token = viewer[v].token
      /\ y.seen = viewer[v].seen /\ y.content = p.content
  BY <1>2 DEF IsPage, PageFields
<1>5. p \in page /\ p.dir = viewer[v].dir /\ p.token = viewer[v].token
  BY DEF Found
<1>6. UNCHANGED <<db, page>> /\ Asked(v)
  BY DEF Hit
<1>. HIDE DEF y
<1>. QED BY <1>3, <1>4, <1>5, <1>6

\* A page is made from what the database holds.
LEMMA MakeWrites ==
  ASSUME TypeInv, NEW v \in Viewers, Make(v)
  PROVE  /\ UNCHANGED <<db, page>> /\ Asked(v)
         /\ \E y : /\ viewer' = [viewer EXCEPT ![v] = y] /\ y.step = "made"
                   /\ y.dir = viewer[v].dir /\ y.token = viewer[v].token
                   /\ y.seen = viewer[v].seen /\ y.content = Content(db, viewer[v].dir)
<1>. DEFINE y == [viewer[v] EXCEPT !.step = "made", !.content = Content(db, viewer[v].dir)]
<1>2. viewer = [u \in Viewers |-> viewer[u]] /\ IsPage(viewer[v])
  BY ViewerSteps
<1>3. viewer' = [viewer EXCEPT ![v] = y]
  BY <1>2 DEF Make
<1>4. /\ y.step = "made" /\ y.dir = viewer[v].dir /\ y.token = viewer[v].token
      /\ y.seen = viewer[v].seen /\ y.content = Content(db, viewer[v].dir)
  BY <1>2 DEF IsPage, PageFields
<1>5. UNCHANGED <<db, page>> /\ Asked(v)
  BY DEF Make
<1>. HIDE DEF y
<1>. QED BY <1>3, <1>4, <1>5

\* A page that was made is put into the cache under the token read before.
LEMMA PutWrites ==
  ASSUME TypeInv, NEW v \in Viewers, Put(v)
  PROVE  /\ UNCHANGED db /\ viewer[v].step = "made"
         /\ \E q : /\ q.dir = viewer[v].dir /\ q.token = viewer[v].token
                   /\ q.content = viewer[v].content /\ page' \subseteq page \cup {q}
         /\ \E y : /\ viewer' = [viewer EXCEPT ![v] = y] /\ y.step = "shown"
                   /\ y.dir = viewer[v].dir /\ y.token = viewer[v].token
                   /\ y.seen = viewer[v].seen /\ y.content = viewer[v].content
<1>. DEFINE y == [viewer[v] EXCEPT !.step = "shown"]
            q == [dir |-> viewer[v].dir, token |-> viewer[v].token,
                  content |-> viewer[v].content]
<1>2. viewer = [u \in Viewers |-> viewer[u]] /\ IsPage(viewer[v])
  BY ViewerSteps
<1>3. viewer' = [viewer EXCEPT ![v] = y]
  BY <1>2 DEF Put
<1>4. /\ y.step = "shown" /\ y.dir = viewer[v].dir /\ y.token = viewer[v].token
      /\ y.seen = viewer[v].seen /\ y.content = viewer[v].content
  BY <1>2 DEF IsPage, PageFields
<1>5. UNCHANGED db /\ viewer[v].step = "made" /\ page' \subseteq page \cup {q}
  BY DEF Put
<1>6. /\ q.dir = viewer[v].dir /\ q.token = viewer[v].token
      /\ q.content = viewer[v].content
  OBVIOUS
<1>. HIDE DEF y, q
<1>. QED BY <1>3, <1>4, <1>5, <1>6

\* A viewer who has his page leaves.
LEMMA LeaveWrites ==
  ASSUME TypeInv, NEW v \in Viewers, Leave(v)
  PROVE  /\ UNCHANGED <<db, page>> /\ viewer[v].step = "shown"
         /\ viewer' = [viewer EXCEPT ![v] = NoPage]
BY DEF Leave

\* What viewers do keeps PagesInv.
LEMMA ViewersStep ==
  ASSUME TypeInv, PagesInv, NEW v \in Viewers,
         (\E d \in Dirs : Ask(v, d)) \/ Hit(v) \/ Make(v) \/ Put(v) \/ Leave(v)
  PROVE  PagesInv'
<1>. DEFINE x == viewer[v]
<1>1. /\ viewer = [u \in Viewers |-> viewer[u]]
      /\ \A u \in Viewers : viewer[u].step # "away" => viewer[u].dir \in Dirs
      /\ \A d \in Dirs : db[<<"token", d>>] \in Nat
  BY ViewerSteps, Typed
<1>2. CASE \E d \in Dirs : Ask(v, d)
  <2>1. PICK d \in Dirs : Ask(v, d)
    BY <1>2
  <2>2. PICK y : /\ viewer' = [viewer EXCEPT ![v] = y] /\ y.step = "asked" /\ y.dir = d
                 /\ y.token = db[<<"token", d>>] /\ y.seen = {Content(db, d)}
    BY <2>1, AskWrites
  <2>3. UNCHANGED <<db, page>>
    BY <2>1, AskWrites
  <2>4. ViewerGood(db, y)
    BY <1>1, <2>2 DEF ViewerGood
  <2>5. \A p \in page' : Answers(y, p)
    BY <2>2, <2>3 DEF PagesInv, PageGood, Answers
  <2>6. \A u \in Viewers : viewer[u].step = "made" => Answers(y, viewer[u])
    BY <2>2 DEF PagesInv, ViewerGood, Answers
  <2>7. Moves(v, y, {})
    BY <2>2, <2>3, <2>4, <2>5, <2>6 DEF Moves
  <2>. QED BY <1>1, <2>7, ViewerMoves
<1>3. CASE Hit(v)
  <2>1. PICK p \in page :
          /\ p.dir = x.dir /\ p.token = x.token
          /\ \E y : /\ viewer' = [viewer EXCEPT ![v] = y] /\ y.step = "shown"
                    /\ y.dir = x.dir /\ y.token = x.token
                    /\ y.seen = x.seen /\ y.content = p.content
    BY <1>3, HitWrites
  <2>2. PICK y : /\ viewer' = [viewer EXCEPT ![v] = y] /\ y.step = "shown"
                 /\ y.dir = x.dir /\ y.token = x.token
                 /\ y.seen = x.seen /\ y.content = p.content
    BY <2>1
  <2>3. UNCHANGED <<db, page>> /\ x.step = "asked"
    BY <1>3, HitWrites DEF Asked
  <2>4. ViewerGood(db, y)
    BY <2>1, <2>2, <2>3 DEF PagesInv, ViewerGood, Answers
  <2>5. \A p2 : Answers(y, p2)
    BY <2>2 DEF Answers
  <2>6. Moves(v, y, {})
    BY <2>2, <2>3, <2>4, <2>5 DEF Moves
  <2>. QED BY <1>1, <2>6, ViewerMoves
<1>4. CASE Make(v)
  <2>1. PICK y : /\ viewer' = [viewer EXCEPT ![v] = y] /\ y.step = "made"
                 /\ y.dir = x.dir /\ y.token = x.token
                 /\ y.seen = x.seen /\ y.content = Content(db, x.dir)
    BY <1>4, MakeWrites
  <2>2. UNCHANGED <<db, page>> /\ x.step = "asked"
    BY <1>4, MakeWrites DEF Asked
  <2>3. ViewerGood(db, y)
    BY <2>1, <2>2 DEF PagesInv, ViewerGood
  <2>4. \A p : Answers(y, p)
    BY <2>1 DEF Answers
  <2>5. \A u \in Viewers : Answers(viewer[u], y)
    BY <2>1 DEF PagesInv, ViewerGood, Answers
  <2>6. Moves(v, y, {})
    BY <2>1, <2>2, <2>3, <2>4, <2>5 DEF Moves
  <2>. QED BY <1>1, <2>6, ViewerMoves
<1>5. CASE Put(v)
  <2>1. PICK y : /\ viewer' = [viewer EXCEPT ![v] = y] /\ y.step = "shown"
                 /\ y.dir = x.dir /\ y.token = x.token
                 /\ y.seen = x.seen /\ y.content = x.content
    BY <1>5, PutWrites
  <2>2. PICK q : /\ q.dir = x.dir /\ q.token = x.token
                 /\ q.content = x.content /\ page' \subseteq page \cup {q}
    BY <1>5, PutWrites
  <2>3. UNCHANGED db /\ x.step = "made"
    BY <1>5, PutWrites
  <2>4. ViewerGood(db, y)
    BY <2>1, <2>3 DEF PagesInv, ViewerGood
  <2>5. \A p : Answers(y, p)
    BY <2>1 DEF Answers
  <2>6. /\ \A p \in {q} : PageGood(db, p)
        /\ \A u \in Viewers, p \in {q} : Answers(viewer[u], p)
    BY <2>2, <2>3 DEF PagesInv, ViewerGood, PageGood, Answers
  <2>7. Moves(v, y, {q})
    BY <2>1, <2>2, <2>3, <2>4, <2>5, <2>6 DEF Moves
  <2>. QED BY <1>1, <2>7, ViewerMoves
<1>6. CASE Leave(v)
  <2>1. /\ UNCHANGED <<db, page>> /\ viewer' = [viewer EXCEPT ![v] = NoPage]
        /\ NoPage.step = "away"
    BY <1>6, LeaveWrites DEF NoPage
  <2>. HIDE DEF NoPage
  <2>2. ViewerGood(db, NoPage) /\ \A p : Answers(NoPage, p)
    BY <2>1 DEF ViewerGood, Answers
  <2>3. Moves(v, NoPage, {})
    BY <2>1, <2>2 DEF Moves
  <2>. QED BY <1>1, <2>3, ViewerMoves
<1>. QED BY <1>2, <1>3, <1>4, <1>5, <1>6

\* The database changes.
LEMMA PublishKeepsPages ==
  ASSUME TypeInv, PagesInv, Publish(db'), TokensTell(db, db')
  PROVE  PagesInv'
<1>. DEFINE d == db'
<1>1. /\ page' \subseteq page /\ viewer = [v \in Viewers |-> viewer[v]]
      /\ \A p \in page : p.dir \in Dirs /\ p.token \in Nat
      /\ \A v \in Viewers : ViewerTyped(viewer[v])
  BY DEF Publish, TypeInv, PagesTyped, IsCached
<1>2. ASSUME NEW v \in Viewers
      PROVE  /\ viewer'[v].step = viewer[v].step /\ viewer'[v].dir = viewer[v].dir
             /\ viewer'[v].token = viewer[v].token /\ viewer'[v].content = viewer[v].content
             /\ viewer[v].step # "away" =>
                  viewer'[v].seen = viewer[v].seen \cup {Content(db', viewer[v].dir)}
             /\ viewer[v].step = "away" => viewer'[v] = viewer[v]
  <2>1. viewer'[v] = IF viewer[v].step = "away" THEN viewer[v]
                     ELSE [viewer[v] EXCEPT !.seen = @ \cup {Content(db', viewer[v].dir)}]
    BY DEF Publish, Away
  <2>2. IsPage(viewer[v])
    BY <1>1 DEF ViewerTyped
  <2>. QED BY <2>1, <2>2 DEF IsPage, PageFields
<1>3. \A v \in Viewers : viewer[v].step # "away" => viewer[v].dir \in Dirs /\ viewer[v].token \in Nat
  BY <1>1 DEF ViewerTyped
<1>4. ASSUME NEW p \in page
      PROVE  PageGood(d, p)
  <2>. DEFINE k == <<"token", p.dir>>
  <2>1. /\ p.token \in Nat /\ db[k] \in Nat /\ d[k] \in Nat /\ db[k] <= d[k]
        /\ db[k] = d[k] => Content(d, p.dir) = Content(db, p.dir)
    BY <1>1 DEF TokensTell
  <2>2. p.token <= db[k] /\ (p.token = db[k] => p.content = Content(db, p.dir))
    BY DEF PagesInv, PageGood
  <2>. HIDE DEF d
  <2>. QED BY <2>1, <2>2 DEF PageGood
<1>5. ASSUME NEW v \in Viewers
      PROVE  ViewerGood(d, viewer'[v])
  <2>. SUFFICES ASSUME viewer[v].step # "away"
                PROVE  ViewerGood(d, viewer'[v])
    BY <1>2 DEF ViewerGood
  <2>. DEFINE x == viewer[v]
              k == <<"token", x.dir>>
  <2>1. /\ x.dir \in Dirs /\ x.token \in Nat /\ db[k] \in Nat /\ d[k] \in Nat /\ db[k] <= d[k]
        /\ db[k] = d[k] => Content(d, x.dir) = Content(db, x.dir)
    BY <1>3 DEF TokensTell
  <2>2. /\ x.token <= db[k]
        /\ x.step = "made" /\ x.token = db[k] => x.content = Content(db, x.dir)
        /\ x.step \in {"made", "shown"} => x.content \in x.seen
    BY DEF PagesInv, ViewerGood
  <2>3. /\ viewer'[v].step = x.step /\ viewer'[v].dir = x.dir
        /\ viewer'[v].token = x.token /\ viewer'[v].content = x.content
        /\ viewer'[v].seen = x.seen \cup {Content(d, x.dir)}
    BY <1>2
  <2>. HIDE DEF x, d
  <2>. QED BY <2>1, <2>2, <2>3 DEF ViewerGood
<1>6. ASSUME NEW v \in Viewers, NEW p, Answers(viewer[v], p)
      PROVE  Answers(viewer'[v], p)
  BY <1>2, <1>6 DEF Answers
<1>7. ASSUME NEW v \in Viewers, NEW u \in Viewers, viewer'[u].step = "made"
      PROVE  Answers(viewer'[v], viewer'[u])
  <2>1. Answers(viewer'[v], viewer[u])
    BY <1>2, <1>6, <1>7 DEF PagesInv
  <2>. QED BY <1>2, <2>1 DEF Answers
<1>. QED BY <1>1, <1>4, <1>5, <1>6, <1>7 DEF PagesInv

\* Every step keeps PagesInv.
LEMMA PagesStep ==
  ASSUME \A v, w \in Workers : v = w, Autocommit \cap Ops = {},
         TypeInv, TotalsInv, RenewInv, PagesInv, [Next]_vars
  PROVE  PagesInv'
<1>1. ASSUME UNCHANGED <<db, page, viewer>>
      PROVE  PagesInv'
  BY <1>1 DEF PagesInv
<1>2. ASSUME NEW w \in Workers, Work(w)
      PROVE  UNCHANGED <<db, page, viewer>>
  <2>1. PICK rows, x : Step(w, rows, x)
    BY <1>2, WorkSteps
  <2>2. x.req.op \in Ops
    BY <2>1, RequestTyped DEF Step, TxTyped, Idle
  <2>. QED BY <2>1, <2>2, StepSees
<1>3. ASSUME NEW w \in Workers, Commit(w)
      PROVE  PagesInv'
  BY <1>3, CommitFollows, PublishKeepsPages
<1>4. ASSUME NEW w \in Workers, Fail(w)
      PROVE  UNCHANGED <<db, page, viewer>>
  BY <1>4 DEF Fail
<1>5. ASSUME NEW w \in Workers, (\E u \in Units : Edit(w, u)) \/ Manage(w)
      PROVE  UNCHANGED <<db, page, viewer>>
  BY <1>5, EditBegins, ManageBegins DEF Begin
<1>6. Upgrade => UNCHANGED <<db, page, viewer>>
  BY DEF Upgrade
<1>. QED BY <1>1, <1>2, <1>3, <1>4, <1>5, <1>6, ViewersStep DEF Next, Work, vars

\* At first there is no page.
LEMMA InitPages == Init => RenewInv /\ PagesInv
<1>. SUFFICES ASSUME Init PROVE RenewInv /\ PagesInv
  OBVIOUS
<1>1. tx = [w \in Workers |-> NoRequest] /\ viewer = [v \in Viewers |-> NoPage] /\ page = {}
  BY DEF Init
<1>2. (\A w \in Workers : Idle(w)) /\ NoPage.step = "away"
  BY <1>1 DEF Idle, NoRequest, NoPage
<1>3. \A v \in Viewers : viewer[v].step = "away"
  BY <1>1, <1>2
<1>. QED BY <1>1, <1>2, <1>3 DEF RenewInv, PagesInv, ViewerGood, Answers

\* A page that may still be found in the cache shows what there is to show now:
\* whatever changes that has renewed the token, in the same transaction
\* (RevisionUpdater.update, persistent_property), if requests do not overlap, all
\* of them have a transaction, and update_data is not run, which sums up without
\* the signal that renews tokens.
THEOREM PagesStayFresh ==
  ASSUME \A v, w \in Workers : v = w, Autocommit \cap Ops = {}, "update_data" \notin Ops
  PROVE  Spec => []PagesFresh
<1>1. Init => RenewInv /\ PagesInv
  BY InitPages
<1>2. TypeInv /\ TotalsInv /\ RenewInv /\ PagesInv /\ [Next]_vars =>
        TotalsInv' /\ RenewInv' /\ PagesInv'
  BY TotalsStep, RenewStep, PagesStep
<1>3. Init => TotalsInv
  BY InitTotalsInv
<1>4. PagesInv => PagesFresh
  BY DEF PagesInv, PageGood, PagesFresh
<1>. QED BY <1>1, <1>2, <1>3, <1>4, TypeInvHolds, PTL DEF Spec

-----------------------------------------------------------------------------
(* The pages implement LivePages                                             *)

Answer(x) == [dir |-> x.dir, seen |-> x.seen,
              page |-> IF x.step = "shown" THEN {x.content} ELSE {}]
LiveContent == [d \in Dirs |-> Content(db, d)]
LiveAsked == [v \in Viewers |-> Answer(viewer[v])]

\* Who has asked for a page is somebody for LivePages too.
LEMMA NobodyAsks ==
  /\ Answer(NoPage) = Live!None
  /\ \A x : x.seen # {} => Answer(x) # Live!None
BY DEF Answer, NoPage, Live!None

\* One viewer is served.
LEMMA Serves ==
  ASSUME TypeInv, NEW v \in Viewers, NEW y, viewer' = [viewer EXCEPT ![v] = y], db' = db
  PROVE  /\ LiveContent' = LiveContent /\ LiveAsked' = [LiveAsked EXCEPT ![v] = Answer(y)]
         /\ LiveAsked[v] = Answer(viewer[v])
BY ViewerSteps DEF LiveContent, LiveAsked

\* Asking for a page is asking for it in LivePages.
LEMMA AskIsLive ==
  ASSUME TypeInv, PagesInv, NEW v \in Viewers, NEW d \in Dirs, Ask(v, d)
  PROVE  Live!Ask(v, d) /\ LiveContent' = LiveContent
<1>1. PICK y : /\ viewer' = [viewer EXCEPT ![v] = y] /\ y.step = "asked" /\ y.dir = d
               /\ y.token = db[<<"token", d>>] /\ y.seen = {Content(db, d)}
  BY AskWrites
<1>2. Away(v) /\ db' = db
  BY AskWrites
<1>3. LiveAsked[v] = Live!None
  BY <1>1, <1>2, Serves, ViewerSteps, NobodyAsks DEF Away
<1>4. Answer(y) = [dir |-> d, seen |-> {LiveContent[d]}, page |-> {}]
  BY <1>1 DEF Answer, LiveContent
<1>5. LiveContent' = LiveContent /\ LiveAsked' = [LiveAsked EXCEPT ![v] = Answer(y)]
  BY <1>1, <1>2, Serves
<1>. QED BY <1>3, <1>4, <1>5 DEF Live!Ask, LiveAsked, LiveContent, Answer

\* A page from the cache, or one just made, is an answer in LivePages.
LEMMA AnswerIsLive ==
  ASSUME TypeInv, PagesInv, NEW v \in Viewers, Hit(v) \/ Put(v)
  PROVE  Live!Answer(v) /\ LiveContent' = LiveContent
<1>. DEFINE x == viewer[v]
<1>1. PICK y : /\ viewer' = [viewer EXCEPT ![v] = y] /\ y.step = "shown" /\ y.dir = x.dir
               /\ y.seen = x.seen /\ y.content \in x.seen
  <2>1. CASE Hit(v)
    <3>1. PICK p \in page :
            /\ p.dir = x.dir /\ p.token = x.token
            /\ \E y : /\ viewer' = [viewer EXCEPT ![v] = y] /\ y.step = "shown"
                      /\ y.dir = x.dir /\ y.token = x.token
                      /\ y.seen = x.seen /\ y.content = p.content
      BY <2>1, HitWrites
    <3>2. p.content \in x.seen
      BY <2>1, <3>1, HitWrites DEF PagesInv, Answers, Asked
    <3>. QED BY <3>1, <3>2
  <2>2. CASE Put(v)
    <3>1. x.content \in x.seen
      BY <2>2, PutWrites DEF PagesInv, ViewerGood
    <3>. QED BY <2>2, <3>1, PutWrites
  <2>. QED BY <2>1, <2>2
<1>2. db' = db /\ x.step \in {"asked", "made"}
  BY HitWrites, PutWrites DEF Asked
<1>3. /\ LiveContent' = LiveContent /\ LiveAsked' = [LiveAsked EXCEPT ![v] = Answer(y)]
      /\ LiveAsked[v] = Answer(x)
  BY <1>1, <1>2, Serves
<1>4. Answer(x) = [dir |-> x.dir, seen |-> x.seen, page |-> {}]
  BY <1>2 DEF Answer
<1>5. Answer(y) = [dir |-> x.dir, seen |-> x.seen, page |-> {y.content}]
  BY <1>1 DEF Answer
<1>6. Answer(y) = [Answer(x) EXCEPT !.page = {y.content}] /\ Answer(x).page = {}
      /\ Answer(x).seen = x.seen
  BY <1>4, <1>5
<1>. HIDE DEF x
<1>7. LiveAsked' = [LiveAsked EXCEPT ![v].page = {y.content}]
  BY <1>3, <1>6 DEF LiveAsked
<1>8. LiveAsked[v].page = {} /\ y.content \in LiveAsked[v].seen
  BY <1>1, <1>3, <1>6
<1>. QED BY <1>3, <1>7, <1>8 DEF Live!Answer, LiveAsked, LiveContent, Answer

\* Making a page is no step of LivePages.
LEMMA MakeIsLive ==
  ASSUME TypeInv, NEW v \in Viewers, Make(v)
  PROVE  LiveContent' = LiveContent /\ LiveAsked' = LiveAsked
<1>1. PICK y : /\ viewer' = [viewer EXCEPT ![v] = y] /\ y.step = "made"
               /\ y.dir = viewer[v].dir /\ y.seen = viewer[v].seen
  BY MakeWrites
<1>2. db' = db /\ viewer[v].step = "asked"
  BY MakeWrites DEF Asked
<1>3. Answer(y) = Answer(viewer[v])
  BY <1>1, <1>2 DEF Answer
<1>4. /\ LiveContent' = LiveContent /\ LiveAsked' = [LiveAsked EXCEPT ![v] = Answer(y)]
      /\ LiveAsked[v] = Answer(viewer[v])
  BY <1>1, <1>2, Serves
<1>5. LiveAsked' = [LiveAsked EXCEPT ![v] = LiveAsked[v]]
  BY <1>3, <1>4
<1>6. LiveAsked = [u \in Viewers |-> LiveAsked[u]]
  BY DEF LiveAsked
<1>. QED BY <1>4, <1>5, <1>6

\* Leaving is leaving in LivePages.
LEMMA LeaveIsLive ==
  ASSUME TypeInv, NEW v \in Viewers, Leave(v)
  PROVE  Live!Leave(v) /\ LiveContent' = LiveContent
<1>1. /\ viewer' = [viewer EXCEPT ![v] = NoPage] /\ db' = db
      /\ viewer[v].step = "shown"
  BY LeaveWrites
<1>2. /\ LiveContent' = LiveContent /\ LiveAsked' = [LiveAsked EXCEPT ![v] = Live!None]
      /\ LiveAsked[v] = Answer(viewer[v])
  BY <1>1, Serves, NobodyAsks
<1>3. Answer(viewer[v]).page # {}
  BY <1>1 DEF Answer
<1>. QED BY <1>2, <1>3 DEF Live!Leave, LiveAsked, LiveContent, Answer

\* The database changes, in the sight of whoever waits for a page; to those who do
\* not see a difference nothing happens.
LEMMA PublishIsLive ==
  ASSUME TypeInv, PagesInv, Publish(db')
  PROVE  Live!Change \/ (LiveContent' = LiveContent /\ LiveAsked' = LiveAsked)
<1>1. \A v \in Viewers : /\ ViewerTyped(viewer[v]) /\ ViewerGood(db, viewer[v])
  BY DEF TypeInv, PagesTyped, PagesInv
<1>2. ASSUME NEW v \in Viewers, viewer[v].step = "away"
      PROVE  LiveAsked[v] = Live!None /\ LiveAsked'[v] = Live!None
  <2>1. viewer[v] = NoPage /\ viewer'[v] = viewer[v]
    BY <1>1, <1>2 DEF ViewerTyped, Publish, Away
  <2>. QED BY <2>1, NobodyAsks DEF LiveAsked
<1>3. ASSUME NEW v \in Viewers, viewer[v].step # "away"
      PROVE  /\ viewer[v].dir \in Dirs
             /\ LiveAsked[v] # Live!None /\ LiveAsked[v].dir = viewer[v].dir
             /\ LiveContent[viewer[v].dir] \in LiveAsked[v].seen
             /\ LiveAsked'[v] = [LiveAsked[v] EXCEPT !.seen = @ \cup {LiveContent'[viewer[v].dir]}]
  <2>. DEFINE x == viewer[v]
              c == Content(db', x.dir)
  <2>1. x.dir \in Dirs /\ Content(db, x.dir) \in x.seen /\ IsPage(x)
    BY <1>1, <1>3 DEF ViewerTyped, ViewerGood
  <2>2. viewer'[v] = [x EXCEPT !.seen = @ \cup {c}]
    BY <1>3 DEF Publish, Away
  <2>3. /\ viewer'[v].dir = x.dir /\ viewer'[v].step = x.step
        /\ viewer'[v].content = x.content /\ viewer'[v].seen = x.seen \cup {c}
    BY <2>1, <2>2 DEF IsPage, PageFields
  <2>4. LiveContent[x.dir] = Content(db, x.dir) /\ LiveContent'[x.dir] = c
    BY <2>1 DEF LiveContent
  <2>5. LiveAsked[v] = Answer(x) /\ LiveAsked'[v] = Answer(viewer'[v])
    BY DEF LiveAsked
  <2>. HIDE DEF x, c
  <2>6. Answer(viewer'[v]) = [Answer(x) EXCEPT !.seen = @ \cup {c}]
    <3>. DEFINE p == IF x.step = "shown" THEN {x.content} ELSE {}
    <3>1. Answer(x) = [dir |-> x.dir, seen |-> x.seen, page |-> p]
      BY DEF Answer
    <3>2. Answer(viewer'[v]) = [dir |-> x.dir, seen |-> x.seen \cup {c}, page |-> p]
      BY <2>3 DEF Answer
    <3>. HIDE DEF p
    <3>. QED BY <3>1, <3>2
  <2>7. Answer(x) # Live!None /\ Answer(x).dir = x.dir /\ Answer(x).seen = x.seen
    <3>1. x.seen # {}
      BY <2>1
    <3>. QED BY <3>1, NobodyAsks DEF Answer
  <2>. QED BY <2>1, <2>4, <2>5, <2>6, <2>7 DEF x
<1>4. CASE LiveContent' = LiveContent
  <2>1. ASSUME NEW v \in Viewers
        PROVE  LiveAsked'[v] = LiveAsked[v]
    <3>1. CASE viewer[v].step = "away"
      BY <1>2, <3>1
    <3>2. CASE viewer[v].step # "away"
      <4>1. LiveAsked[v] = Answer(viewer[v])
        BY DEF LiveAsked
      <4>2. LiveAsked[v].seen \cup {LiveContent'[viewer[v].dir]} = LiveAsked[v].seen
        BY <1>3, <1>4, <3>2
      <4>3. [LiveAsked[v] EXCEPT !.seen = @ \cup {LiveContent'[viewer[v].dir]}] = LiveAsked[v]
        BY <4>1, <4>2 DEF Answer
      <4>. QED BY <1>3, <3>2, <4>3
    <3>. QED BY <3>1, <3>2
  <2>2. LiveAsked' = [v \in Viewers |-> LiveAsked'[v]] /\ LiveAsked = [v \in Viewers |-> LiveAsked[v]]
    BY DEF LiveAsked
  <2>. QED BY <1>4, <2>1, <2>2
<1>5. CASE LiveContent' # LiveContent
  <2>1. ASSUME NEW v \in Viewers
        PROVE  LiveAsked'[v] =
                 IF LiveAsked[v] = Live!None THEN Live!None
                 ELSE [LiveAsked[v] EXCEPT !.seen = @ \cup {LiveContent'[LiveAsked[v].dir]}]
    BY <1>2, <1>3
  <2>2. LiveAsked' = [v \in Viewers |-> LiveAsked'[v]]
    BY DEF LiveAsked
  <2>3. LiveAsked' = [v \in Viewers |->
          IF LiveAsked[v] = Live!None THEN Live!None
          ELSE [LiveAsked[v] EXCEPT !.seen = @ \cup {LiveContent'[LiveAsked[v].dir]}]]
    BY <2>1, <2>2
  <2>. QED BY <1>5, <2>3 DEF Live!Change, Live!Seen, LiveAsked, LiveContent, Answer
<1>. QED BY <1>4, <1>5

\* A step of the system answers, changes or leaves the pages alone.
LEMMA LiveStep ==
  ASSUME \A v, w \in Workers : v = w, Autocommit \cap Ops = {}, "update_data" \notin Ops,
         TypeInv, TotalsInv, RenewInv, PagesInv, [Next]_vars
  PROVE  [Live!Next]_(Live!vars)
<1>. SUFFICES \/ LiveContent' = LiveContent /\ LiveAsked' = LiveAsked
              \/ Live!Next
  BY DEF Live!vars, LiveContent, LiveAsked, Answer
<1>1. ASSUME UNCHANGED <<db, page, viewer>>
      PROVE  LiveContent' = LiveContent /\ LiveAsked' = LiveAsked
  BY <1>1 DEF LiveContent, LiveAsked
<1>2. ASSUME NEW w \in Workers, Work(w)
      PROVE  UNCHANGED <<db, page, viewer>>
  <2>1. PICK rows, x : Step(w, rows, x)
    BY <1>2, WorkSteps
  <2>2. x.req.op \in Ops
    BY <2>1, RequestTyped DEF Step, TxTyped, Idle
  <2>. QED BY <2>1, <2>2, StepSees
<1>3. ASSUME NEW w \in Workers, Commit(w)
      PROVE  Live!Change \/ (LiveContent' = LiveContent /\ LiveAsked' = LiveAsked)
  BY <1>3, CommitFollows, PublishIsLive
<1>4. ASSUME NEW w \in Workers, Fail(w)
      PROVE  UNCHANGED <<db, page, viewer>>
  BY <1>4 DEF Fail
<1>5. ASSUME NEW w \in Workers, (\E u \in Units : Edit(w, u)) \/ Manage(w)
      PROVE  UNCHANGED <<db, page, viewer>>
  BY <1>5, EditBegins, ManageBegins DEF Begin
<1>6. Upgrade => UNCHANGED <<db, page, viewer>>
  BY DEF Upgrade
<1>7. ASSUME NEW v \in Viewers,
             (\E d \in Dirs : Ask(v, d)) \/ Hit(v) \/ Make(v) \/ Put(v) \/ Leave(v)
      PROVE  \/ LiveContent' = LiveContent /\ LiveAsked' = LiveAsked
             \/ /\ Live!Answer(v) \/ Live!Leave(v) \/ \E d \in Dirs : Live!Ask(v, d)
                /\ LiveContent' = LiveContent
  BY <1>7, AskIsLive, AnswerIsLive, MakeIsLive, LeaveIsLive
<1>8. \A v \in Viewers :
        /\ Live!Answer(v) \/ Live!Leave(v) \/ \E d \in Dirs : Live!Ask(v, d)
        /\ LiveContent' = LiveContent
        => Live!Next
  BY DEF Live!Next, LiveContent
<1>9. Live!Change => Live!Next
  BY DEF Live!Next
<1>. QED BY <1>1, <1>2, <1>3, <1>4, <1>5, <1>6, <1>7, <1>8, <1>9 DEF Next, Work, vars

\* The pages behave as if nothing was cached: each shows what there was to show at
\* some moment since it was asked for (persistent_property, RelatedStoresDataTool),
\* under the assumptions of PagesStayFresh.
THEOREM PagesBehaveLive ==
  ASSUME \A v, w \in Workers : v = w, Autocommit \cap Ops = {}, "update_data" \notin Ops
  PROVE  Spec => PagesAreLive
<1>1. Init => Live!Init
  <2>. SUFFICES ASSUME Init PROVE LiveAsked = [v \in Viewers |-> Live!None]
    BY DEF Live!Init, LiveAsked, Answer
  <2>1. \A v \in Viewers : viewer[v] = NoPage
    BY DEF Init
  <2>. QED BY <2>1, NobodyAsks DEF LiveAsked
<1>2. TypeInv /\ TotalsInv /\ RenewInv /\ PagesInv /\ [Next]_vars => [Live!Next]_(Live!vars)
  BY LiveStep
<1>3. Spec => [](TypeInv /\ TotalsInv /\ RenewInv /\ PagesInv)
  <2>1. TypeInv /\ TotalsInv /\ RenewInv /\ PagesInv /\ [Next]_vars =>
          TotalsInv' /\ RenewInv' /\ PagesInv'
    BY TotalsStep, RenewStep, PagesStep
  <2>. QED BY <2>1, InitTotalsInv, InitPages, TypeInvHolds, PTL DEF Spec
<1>. QED BY <1>1, <1>2, <1>3, PTL DEF Spec, PagesAreLive, Live!Spec

-----------------------------------------------------------------------------
(* A request that is alone heals                                             *)

StoreOfRequest(req) == IF "unit" \in DOMAIN req THEN StoreOf[req.unit] ELSE req.store
\* A unit of the Store has a revision that its StoreData does not know of.
Outdated(d, s) == d[<<"data", s>>].revision # Counted(d, s).revision
\* The counts and the sums are right, or this is still to come; sums that nothing
\* makes right again are those of a request that draws no revision.
CountsToCome(d, x, s) ==
  s \in x.todo \/ CountedBut(d, Stores \ {s}) \/ (x.req.op = "update" /\ ~x.drew)
SumsToCome(d, x, s, t) ==
  \/ SummedBut(d, TPs \ {t}) \/ x.step = "counted" \/ x.total
  \/ x.step = "saved" /\ s \in x.todo /\ Outdated(d, s)
  \/ ~x.drew /\ x.req.op # "update_data"
Healing(d, x) ==
  LET s == StoreOfRequest(x.req)
      t == TPOfRequest(x.req)
  IN x.todo \subseteq {s} /\ CountsToCome(d, x, s) /\ SumsToCome(d, x, s, t)
\* Whatever the counts were before, if no other request was there since
HealInv ==
  \A w \in Workers : ~Idle(w) /\ tx[w].alone =>
    /\ \A v \in Workers \ {w} : Idle(v)
    /\ At(w, "loaded") \/ "tp" \in DOMAIN tx[w].req \/ Healing(View(w), tx[w])

\* The Store of a request that is not about a translation project.
LEMMA AboutStore ==
  ASSUME NEW r, GoodRequest(r), "tp" \notin DOMAIN r
  PROVE  /\ StoreOfRequest(r) \in Stores /\ TPOfRequest(r) = TPOf[StoreOfRequest(r)]
         /\ TPOfRequest(r) \in TPs
         /\ LoadsUnit(r) => /\ r.unit \in Units /\ StoreOfRequest(r) = StoreOf[r.unit]
                            /\ r.op \notin {"update", "update_data"}
         /\ r.op \in {"update", "hide", "update_data"} => StoreOfRequest(r) = r.store
<1>1. LoadsUnit(r) \/ r.op \in {"update", "hide", "update_data"}
  <2>1. r \in [op : {"calculate_checks"}, tp : TPs] => "tp" \in DOMAIN r
    OBVIOUS
  <2>. QED BY <2>1 DEF GoodRequest, LoadsUnit
<1>2. LoadsUnit(r) => /\ r.unit \in Units /\ "unit" \in DOMAIN r
                      /\ StoreOf[r.unit] \in StoresOf(TPOfRequest(r))
  BY RequestAbout
<1>3. r.op \in {"update", "hide", "update_data"} =>
        /\ r.store \in Stores /\ "unit" \notin DOMAIN r
        /\ r.store \in StoresOf(TPOfRequest(r))
  BY RequestAbout
<1>4. LoadsUnit(r) => r.op \notin {"update", "hide", "update_data"}
  BY DEF LoadsUnit
<1>5. TPOfRequest(r) \in TPs
  BY RequestAbout
<1>. QED BY <1>1, <1>2, <1>3, <1>4, <1>5 DEF StoreOfRequest, StoresOf

\* A unit that is saved with a new revision makes its StoreData outdated.
LEMMA DrewOutdates ==
  ASSUME TypeInv, NEW w \in Workers, NEW rows, NEW x, Step(w, rows, x),
         NEW s \in Stores, NEW u \in UnitsOf(s), <<"unit", u>> \in DOMAIN rows,
         rows[<<"unit", u>>].revision = revision + 1, <<"data", s>> \notin DOMAIN rows
  PROVE  Outdated(View(w)', s)
<1>. DEFINE V == View(w)
            W == View(w)'
            S == {W[<<"unit", i>>].revision : i \in UnitsOf(s)}
<1>1. /\ revision \in Nat /\ revision' \in Nat /\ revision <= revision'
      /\ RowsTyped(rows, revision') /\ u \in Units /\ UnitsOf(s) \subseteq Units
  BY DEF TypeInv, Step, UnitsOf
<1>2. \A k \in Key : W[k] = IF k \in DOMAIN rows THEN rows[k] ELSE V[k]
  BY StepSees
<1>3. V[<<"data", s>>].revision \in 0..revision
  BY ViewRows
<1>4. \A i \in Units : V[<<"unit", i>>].revision \in 0..revision
  BY ViewRows
<1>. HIDE DEF V, W
<1>5. W[<<"data", s>>].revision \in 0..revision /\ W[<<"unit", u>>].revision = revision + 1
  BY <1>1, <1>2, <1>3, Keys
<1>6. ASSUME NEW i \in Units
      PROVE  W[<<"unit", i>>].revision \in 0..revision'
  <2>1. CASE <<"unit", i>> \in DOMAIN rows
    <3>1. rows[<<"unit", i>>] \in [text : Texts, live : BOOLEAN, revision : 1..revision']
      BY <1>1, <2>1 DEF RowsTyped, RowTyped
    <3>2. rows[<<"unit", i>>].revision \in 1..revision' /\ 1..revision' \subseteq 0..revision'
      BY <1>1, <3>1
    <3>. QED BY <1>2, <2>1, <3>2, Keys
  <2>2. CASE <<"unit", i>> \notin DOMAIN rows
    <3>1. 0..revision \subseteq 0..revision'
      BY <1>1
    <3>. QED BY <1>2, <1>4, <2>2, <3>1, Keys
  <2>. QED BY <2>1, <2>2
<1>7. S \in SUBSET (0..revision') /\ revision + 1 \in S
  BY <1>1, <1>5, <1>6
<1>8. MaxOf(S) \in 0..revision' /\ revision + 1 <= MaxOf(S)
  BY <1>1, <1>7, MaxOfBounded
<1>9. Counted(W, s).revision = MaxOf(S)
  BY DEF Counted
<1>10. W[<<"data", s>>].revision # Counted(W, s).revision
  <2>. HIDE DEF S
  <2>. QED BY <1>1, <1>5, <1>8, <1>9
<1>. QED BY <1>10 DEF Outdated, W

\* Whatever a request does, its counts and sums are right or come yet.
LEMMA WorkHeals ==
  ASSUME TypeInv, NEW w \in Workers, Work(w), "tp" \notin DOMAIN tx[w].req,
         At(w, "loaded") \/ Healing(View(w), tx[w])
  PROVE  Healing(View(w)', tx'[w])
<1>. DEFINE V == View(w)
            W == View(w)'
            y == tx[w]
            r == tx[w].req
            s == StoreOfRequest(r)
            t == TPOfRequest(r)
<1>0. ~Idle(w)
  BY WorkSteps DEF Step
<1>1. /\ s \in Stores /\ t = TPOf[s] /\ t \in TPs
      /\ LoadsUnit(r) => /\ r.unit \in Units /\ s = StoreOf[r.unit]
                         /\ r.op \notin {"update", "update_data"}
      /\ r.op \in {"update", "hide", "update_data"} => s = r.store
  BY <1>0, RequestTyped, AboutStore
<1>2. ASSUME NEW rows, NEW x, Step(w, rows, x)
      PROVE  /\ Lays(rows, V, W) /\ x.req = r
             /\ x.todo \subseteq {s} /\ CountsToCome(W, x, s) /\ SumsToCome(W, x, s, t)
                  => Healing(W, tx'[w])
  <2>1. Lays(rows, V, W)
    BY <1>2, StepLays
  <2>2. /\ x.req = r /\ tx'[w].req = x.req /\ tx'[w].step = x.step /\ tx'[w].todo = x.todo
        /\ tx'[w].total = x.total /\ tx'[w].drew = x.drew
    BY <1>2, StepSees DEF Step
  <2>3. CountsToCome(W, x, s) => CountsToCome(W, tx'[w], s)
    BY <2>2 DEF CountsToCome
  <2>4. SumsToCome(W, x, s, t) => SumsToCome(W, tx'[w], s, t)
    BY <2>2 DEF SumsToCome
  <2>. HIDE DEF W
  <2>. QED BY <2>1, <2>2, <2>3, <2>4 DEF Healing
<1>3. ASSUME NEW rows, NEW x, Step(w, rows, x), x.step = "saved", x.todo = {s},
             x.drew => Outdated(W, s), r.op = "update_data" => x.total
      PROVE  Healing(W, tx'[w])
  BY <1>2, <1>3 DEF CountsToCome, SumsToCome
<1>4. CASE Submit(w) \/ Accept(w) \/ Toggle(w)
  <2>1. PICK text, rows, x : Saves(w, text, rows, x)
    BY <1>4, EditWrites
  <2>2. LoadsUnit(r)
    BY <1>4, EditWrites
  <2>3. /\ Step(w, rows, x) /\ x.step = "saved" /\ x.todo = {s}
        /\ r.unit \in UnitsOf(s) /\ <<"unit", r.unit>> \in DOMAIN rows
        /\ <<"data", s>> \notin DOMAIN rows
        /\ x.drew => rows[<<"unit", r.unit>>].revision = revision + 1
        /\ r.op # "update_data"
    BY <1>1, <2>1, <2>2 DEF Saves, UnitsOf
  <2>4. x.drew => Outdated(W, s)
    BY <1>1, <2>3, DrewOutdates
  <2>. QED BY <1>3, <2>3, <2>4
<1>5. CASE Suggest(w)
  <2>1. /\ LoadsUnit(r)
        /\ \E rows, x : /\ Step(w, rows, x) /\ x.step = "saved"
                        /\ x.todo = {StoreOf[r.unit]} /\ x.drew = FALSE
    BY <1>5, SuggestWrites
  <2>. QED BY <1>1, <1>3, <2>1
<1>6. CASE Hide(w)
  <2>1. /\ r.op = "hide"
        /\ \E rows, x : /\ Step(w, rows, x) /\ x.step = "saved"
                        /\ x.todo = {r.store} /\ x.drew = FALSE
    BY <1>6, HideWrites
  <2>. QED BY <1>1, <1>3, <2>1
<1>7. CASE UpdateData(w)
  <2>1. /\ r.op = "update_data"
        /\ \E x : /\ Step(w, NoRows, x) /\ x.step = "saved"
                  /\ x.todo = {r.store} /\ x.total = TRUE /\ x.drew = FALSE
    BY <1>7, UpdateDataWrites
  <2>. QED BY <1>1, <1>3, <2>1
<1>8. CASE Update(w)
  <2>1. r.op = "update" /\ s = r.store
    BY <1>1, <1>8, UpdateWrites
  <2>2. PICK rows, x :
          /\ Step(w, rows, x) /\ x.step = "saved" /\ x.todo \subseteq {s}
          /\ DOMAIN rows \subseteq {"unit", "checks"} \X UnitsOf(s)
          /\ x.drew => /\ x.todo = {s}
                       /\ \E u \in UnitsOf(s) :
                            /\ <<"unit", u>> \in DOMAIN rows
                            /\ rows[<<"unit", u>>].revision = revision + 1
          /\ ~x.drew => x.todo = {}
    BY <1>8, <2>1, UpdateWrites
  <2>3. CASE x.drew
    <3>1. <<"data", s>> \notin DOMAIN rows
      BY <2>2
    <3>2. Outdated(W, s)
      BY <1>1, <2>2, <2>3, <3>1, DrewOutdates
    <3>. QED BY <1>3, <2>1, <2>2, <2>3, <3>2
  <2>4. CASE ~x.drew
    BY <1>2, <2>1, <2>2, <2>4 DEF CountsToCome, SumsToCome
  <2>. QED BY <2>3, <2>4
<1>9. CASE CalculateChecks(w)
  <2>1. r.op = "calculate_checks"
    BY <1>9 DEF CalculateChecks, Does
  <2>. QED BY <1>0, <2>1, RequestTyped, RequestAbout
<1>10. CASE Second(w)
  <2>1. PICK rows, x : Seconds(w, rows, x)
    BY <1>10, SecondWrites
  <2>2. /\ At(w, "saved") /\ y.todo = {} /\ LoadsUnit(r) /\ r.unit \in Units
    BY <1>10, SecondWrites
  <2>3. /\ Step(w, rows, x) /\ x.step = "saved" /\ x.todo = {s} /\ x.total = y.total
        /\ x.drew = y.drew /\ Touches(rows, {s})
        /\ y.step = "saved" /\ r.op # "update_data"
    BY <1>1, <2>1, <2>2 DEF Seconds, Touches, At
  <2>4. SumsToCome(V, y, s, t)
    BY <2>2 DEF Healing, At
  <2>5. CASE SummedBut(V, TPs \ {t})
    <3>1. Lays(rows, V, W)
      BY <1>2, <2>3
    <3>. HIDE DEF V, W, s, t
    <3>2. SummedBut(W, TPs \ {t})
      BY <2>3, <2>5, <3>1, TouchKeeps
    <3>. QED BY <1>2, <2>3, <3>2 DEF CountsToCome, SumsToCome, V, W, s, t
  <2>6. CASE y.total \/ ~y.drew
    BY <1>2, <2>3, <2>6 DEF CountsToCome, SumsToCome
  <2>. QED BY <2>2, <2>3, <2>4, <2>5, <2>6 DEF SumsToCome
<1>11. CASE Count(w)
  <2>1. At(w, "saved") /\ \E i \in y.todo : i \in Stores /\ \E rows, x : Counts(w, i, rows, x)
    BY <1>11, CountWrites
  <2>2. /\ y.step = "saved" /\ y.todo \subseteq {s} /\ SumsToCome(V, y, s, t)
    BY <2>1 DEF Healing, At
  <2>3. PICK rows, x : Counts(w, s, rows, x)
    BY <2>1, <2>2
  <2>4. /\ Step(w, rows, x) /\ x.todo = {} /\ x.total = y.total /\ x.drew = y.drew
        /\ DOMAIN rows \subseteq {<<"data", s>>}
        /\ (IF <<"data", s>> \in DOMAIN rows THEN rows[<<"data", s>>] ELSE V[<<"data", s>>])
             = Counted(V, s)
        /\ x.step \in {"saved", "counted"}
        /\ x.step = "saved" => SameButChecks(Counted(V, s), V[<<"data", s>>])
    BY <2>2, <2>3 DEF Counts
  <2>5. Lays(rows, V, W) /\ W[<<"data", s>>] = Counted(V, s) /\ x.req = r
    BY <1>1, <1>2, <2>4, Keys DEF Lays
  <2>6. IsCount(V[<<"data", s>>]) /\ IsCount(W[<<"data", s>>])
    <3>1. IsCount(V[<<"data", s>>]) /\ \A u \in Units : V[<<"unit", u>>].revision \in 0..revision
      BY <1>1, ViewRows
    <3>2. revision \in Nat
      BY DEF TypeInv
    <3>. HIDE DEF V, W, s
    <3>. QED BY <1>1, <2>5, <3>1, <3>2, CountedTyped
  <2>7. /\ CountedBut(W, Stores \ {s})
        /\ x.step = "saved" /\ SummedBut(V, TPs \ {t}) => SummedBut(W, TPs \ {t})
    <3>. HIDE DEF V, W, s, t
    <3>1. CountedBut(V, Stores)
      BY DEF CountedBut
    <3>2. CountedBut(W, Stores \ {s})
      BY <1>1, <2>4, <2>5, <3>1, CountKeeps
    <3>3. x.step = "saved" /\ SummedBut(V, TPs \ {t}) => SummedBut(W, TPs \ {t})
      BY <1>1, <2>4, <2>5, <2>6, CountKeeps
    <3>. QED BY <3>2, <3>3
  <2>8. x.step = "saved" => ~Outdated(V, s)
    <3>. HIDE DEF V, W, s
    <3>. QED BY <2>4, <2>5, <2>6, SameIs DEF Outdated
  <2>9. SumsToCome(W, x, s, t)
    <3>. HIDE DEF V, W, s, t
    <3>. QED BY <2>2, <2>4, <2>5, <2>7, <2>8 DEF SumsToCome
  <2>10. CountsToCome(W, x, s)
    BY <2>7 DEF CountsToCome
  <2>. QED BY <1>2, <2>4, <2>9, <2>10
<1>12. CASE SumUp(w) \/ Total(w)
  <2>1. PICK rows, x : Sums(w, rows, x)
    BY <1>12, SumUpWrites, TotalWrites
  <2>2. /\ Step(w, rows, x) /\ x.todo = y.todo /\ x.drew = y.drew
        /\ SumsOnly(rows, t)
        /\ (IF <<"total", t>> \in DOMAIN rows THEN rows[<<"total", t>>] ELSE V[<<"total", t>>])
             = Summed(V, t)
    BY <2>1 DEF Sums, SumsOnly
  <2>3. Lays(rows, V, W) /\ W[<<"total", t>>] = Summed(V, t) /\ x.req = r
    BY <1>1, <1>2, <2>2, Keys DEF Lays
  <2>4. y.todo \subseteq {s} /\ CountsToCome(V, y, s)
    <3>1. At(w, "counted") \/ At(w, "saved")
      BY <1>12, SumUpWrites, TotalWrites
    <3>. QED BY <3>1 DEF Healing, At
  <2>5. /\ CountedBut(V, Stores \ {s}) => CountedBut(W, Stores \ {s})
        /\ SummedBut(W, TPs \ {t})
    <3>. HIDE DEF V, W, s, t
    <3>1. SummedBut(V, TPs)
      BY DEF SummedBut
    <3>. QED BY <2>2, <2>3, <3>1, SumKeeps
  <2>6. CountsToCome(W, x, s)
    <3>. HIDE DEF V, W, s
    <3>. QED BY <2>2, <2>3, <2>4, <2>5 DEF CountsToCome
  <2>7. SumsToCome(W, x, s, t)
    BY <2>5 DEF SumsToCome
  <2>. QED BY <1>2, <2>2, <2>4, <2>6, <2>7
<1>13. CASE Renew(w)
  <2>1. PICK rows, x :
          /\ Step(w, rows, x) /\ x.step = "saved" /\ x.todo = y.todo
          /\ x.total = y.total /\ x.drew = y.drew
          /\ DOMAIN rows = {<<"token", t>>, <<"token", ROOT>>}
    BY <1>13, RenewWrites
  <2>2. /\ y.step = "summed" /\ y.todo \subseteq {s} /\ CountsToCome(V, y, s)
        /\ SumsToCome(V, y, s, t)
    <3>1. At(w, "summed")
      BY <1>13, RenewWrites
    <3>. QED BY <3>1 DEF Healing, At
  <2>3. Lays(rows, V, W) /\ x.req = r
    BY <1>2, <2>1
  <2>4. /\ CountedBut(V, Stores \ {s}) => CountedBut(W, Stores \ {s})
        /\ SummedBut(V, TPs \ {t}) => SummedBut(W, TPs \ {t})
    <3>1. PICK p : p \notin TPs
      BY TreeAssumption
    <3>. HIDE DEF V, W, s, t
    <3>2. SumsOnly(rows, p) /\ (TPs \ {t}) \ {p} = TPs \ {t}
      BY <2>1, <3>1 DEF SumsOnly
    <3>3. p \in TPs => W[<<"total", p>>] = Summed(V, p)
      BY <3>1
    <3>4. SummedBut(V, TPs \ {t}) => SummedBut(W, (TPs \ {t}) \ {p})
      BY <2>3, <3>2, <3>3, SumKeeps
    <3>. QED BY <2>3, <3>2, <3>3, <3>4, SumKeeps
  <2>5. CountsToCome(W, x, s)
    <3>. HIDE DEF V, W, s
    <3>. QED BY <2>1, <2>2, <2>3, <2>4 DEF CountsToCome
  <2>6. SumsToCome(W, x, s, t)
    <3>. HIDE DEF V, W, s, t
    <3>. QED BY <2>1, <2>2, <2>3, <2>4 DEF SumsToCome
  <2>. QED BY <1>2, <2>1, <2>2, <2>5, <2>6
<1>. QED BY <1>4, <1>5, <1>6, <1>7, <1>8, <1>9, <1>10, <1>11, <1>12, <1>13 DEF Work

\* No step that begins, continues or ends a request breaks this.
LEMMA HealStep ==
  ASSUME TypeInv, HealInv, [Next]_vars
  PROVE  HealInv'
<1>1. ASSUME NEW w \in Workers, NEW req, NEW row, Begin(w, req, row), GoodRequest(req),
             LoadsUnit(req) => RowTyped(<<"unit", req.unit>>, row, revision)
      PROVE  HealInv'
  <2>1. /\ tx'[w].step = "loaded"
        /\ tx'[w].alone <=> \A v \in Workers \ {w} : Idle(v)
        /\ \A v \in Workers \ {w} : tx'[v].alone = FALSE /\ tx'[v].step = tx[v].step
    BY <1>1, BeginTyped
  <2>. QED BY <2>1 DEF HealInv, Idle, At
<1>2. ASSUME NEW w \in Workers, Work(w)
      PROVE  HealInv'
  <2>1. PICK rows, x : Step(w, rows, x)
    BY <1>2, WorkSteps
  <2>2. /\ ~Idle(w) /\ tx'[w].alone = tx[w].alone /\ tx'[w].req = tx[w].req
        /\ \A v \in Workers \ {w} : tx'[v] = tx[v]
    BY <2>1, StepSees DEF Step
  <2>3. ASSUME tx'[w].alone
        PROVE  /\ \A v \in Workers \ {w} : Idle(v)'
               /\ "tp" \in DOMAIN tx'[w].req \/ Healing(View(w), tx[w])'
    <3>1. /\ \A v \in Workers \ {w} : Idle(v)
          /\ At(w, "loaded") \/ "tp" \in DOMAIN tx[w].req \/ Healing(View(w), tx[w])
      BY <2>2, <2>3 DEF HealInv
    <3>2. "tp" \notin DOMAIN tx[w].req => Healing(View(w)', tx'[w])
      BY <1>2, <3>1, WorkHeals
    <3>3. Healing(View(w)', tx'[w]) => Healing(View(w), tx[w])'
      BY DEF Healing, CountsToCome, SumsToCome, CountedBut, SummedBut, Outdated
    <3>. QED BY <2>2, <3>1, <3>2, <3>3 DEF Idle
  <2>4. ASSUME NEW v \in Workers \ {w}, ~Idle(v)', tx'[v].alone
        PROVE  FALSE
    BY <2>2, <2>4 DEF HealInv, Idle
  <2>. QED BY <2>3, <2>4 DEF HealInv
<1>3. ASSUME NEW w \in Workers, Commit(w) \/ Fail(w)
      PROVE  HealInv'
  <2>1. Idle(w)' /\ tx' = [tx EXCEPT ![w] = NoRequest] /\ tx = [v \in Workers |-> tx[v]]
    BY <1>3, EndTyped DEF TypeInv, RequestsTyped
  <2>2. \A v \in Workers \ {w} : tx'[v] = tx[v]
    BY <2>1
  <2>3. ~Idle(w)
    BY <1>3 DEF Commit, Finished, Fail, At, Idle
  <2>4. ASSUME NEW v \in Workers, ~Idle(v)', tx'[v].alone
        PROVE  FALSE
    BY <2>1, <2>2, <2>3, <2>4 DEF HealInv, Idle
  <2>. QED BY <2>4 DEF HealInv
<1>4. ASSUME UNCHANGED <<db, tx>>
      PROVE  HealInv'
  BY <1>4 DEF HealInv, View, Idle, At
<1>5. ASSUME NEW w \in Workers, NEW u \in Units, Edit(w, u)
      PROVE  HealInv'
  <2>1. PICK req : Begin(w, req, db[<<"unit", u>>]) /\ GoodRequest(req) /\ req.unit = u
    BY <1>5, EditBegins, ZenonT(60)
  <2>2. RowTyped(<<"unit", req.unit>>, db[<<"unit", u>>], revision)
    BY <2>1, Typed DEF RowTyped
  <2>. QED BY <1>1, <2>1, <2>2
<1>6. ASSUME NEW w \in Workers, Manage(w)
      PROVE  HealInv'
  BY <1>1, <1>6, ManageBegins
<1>7. ASSUME NEW v \in Viewers,
             (\E d \in Dirs : Ask(v, d)) \/ Hit(v) \/ Make(v) \/ Put(v) \/ Leave(v)
      PROVE  UNCHANGED <<db, tx>>
  BY <1>7, PagesStepTyped
<1>. QED BY <1>2, <1>3, <1>4, <1>5, <1>6, <1>7 DEF Next, Work, Upgrade, vars

\* What holds of a request that commits when no other was there
Healed(w) ==
  LET req == tx[w].req
      s == IF "unit" \in DOMAIN req THEN StoreOf[req.unit] ELSE req.store
      t == TPOf[s]
  IN "tp" \notin DOMAIN req =>
       /\ (req.op = "update" => tx[w].drew) => db'[<<"data", s>>] = Counted(db', s)
       /\ tx[w].drew \/ req.op = "update_data"
            => SameButChecks(db'[<<"total", t>>], Summed(db', t))
\* The end of a request that was alone
LEMMA LoneEndHeals ==
  ASSUME TypeInv, HealInv, NEW w \in Workers, Finished(w), tx[w].alone, db' = View(w)
  PROVE  Healed(w)
<1>. DEFINE r == tx[w].req
            s == StoreOfRequest(r)
            t == TPOfRequest(r)
<1>. SUFFICES ASSUME "tp" \notin DOMAIN r
              PROVE  /\ (r.op = "update" => tx[w].drew) => db'[<<"data", s>>] = Counted(db', s)
                     /\ tx[w].drew \/ r.op = "update_data"
                          => SameButChecks(db'[<<"total", TPOf[s]>>], Summed(db', TPOf[s]))
  BY DEF Healed, StoreOfRequest
<1>1. ~Idle(w) /\ ~At(w, "loaded") /\ tx[w].step = "saved" /\ tx[w].todo = {} /\ ~tx[w].total
  BY DEF Finished, At, Idle
<1>2. s \in Stores /\ t = TPOf[s] /\ t \in TPs
  BY <1>1, RequestTyped, AboutStore
<1>3. CountsToCome(View(w), tx[w], s) /\ SumsToCome(View(w), tx[w], s, t)
  BY <1>1 DEF HealInv, Healing
<1>. QED BY <1>1, <1>2, <1>3 DEF CountsToCome, SumsToCome, CountedBut, SummedBut

\* Whatever overlapping requests or a killed command have lost before, a request
\* that no other overlaps leaves the counts of its Store right, and those of the
\* translation project if it draws a revision or is update_data
\* (StoreDataUpdater.update, TPDataUpdater.update): for every number of workers.
THEOREM LoneRequestsHeal == Spec => LoneRequestHeals
<1>1. Init => HealInv
  <2>1. Init => tx = [w \in Workers |-> NoRequest]
    BY DEF Init
  <2>2. tx = [w \in Workers |-> NoRequest] => \A w \in Workers : Idle(w)
    BY DEF NoRequest, Idle
  <2>. QED BY <2>1, <2>2 DEF HealInv
<1>2. TypeInv /\ HealInv /\ [Next]_vars => HealInv'
  BY HealStep
<1>3. TypeInv /\ HealInv =>
        \A w \in Workers :
          Finished(w) /\ Idle(w)' /\ tx[w].alone /\ db' = View(w) => Healed(w)
  BY LoneEndHeals
<1>. QED BY <1>1, <1>2, <1>3, TypeInvHolds, PTL DEF Spec, LoneRequestHeals, Healed
=============================================================================
