---------------------------- MODULE PootleFS_proofs ----------------------------
(***************************************************************************)
(* Proofs about PootleFS.  Inv is an inductive invariant, and from it rows *)
(* staged for merge name a winner, no revision is ahead of the counter,    *)
(* every edit is noticed and merges lose nothing.  Versions is one while   *)
(* no Store is deleted under a sync: what is taken for synced is what the  *)
(* Store holds.                                                            *)
(***************************************************************************)
EXTENDS PootleFS, TLAPS, WellFoundedInduction

-----------------------------------------------------------------------------
(* Pulling a file into its Store and pushing it: the types and the revisions   *)
(* of the outcome, what a merge keeps, and where the two agree afterwards      *)

Suggestions == SUBSET (Units \X Vals)

\* The greatest revision of the units of a Store is a number, and no greater
\* than what bounds them all.
LEMMA MaxUnitRevisionBelow ==
  ASSUME NEW s \in Store
  PROVE  /\ MaxUnitRevision(s) \in Nat
         /\ \A n \in Nat : (s.rev # NULL => \A u \in Units : s.rev[u] <= n)
                              => MaxUnitRevision(s) <= n
<1>1. CASE s.val # NULL /\ \E u \in Units : IsNewest(s, u)
  <2>1. PICK u \in Units : MaxUnitRevision(s) = s.rev[u]
    BY <1>1 DEF MaxUnitRevision
  <2>2. s.rev # NULL /\ s.rev \in [Units -> Nat]
    BY <1>1 DEF Store
  <2>. QED BY <2>1, <2>2
<1>2. CASE ~(s.val # NULL /\ \E u \in Units : IsNewest(s, u))
  BY <1>2 DEF MaxUnitRevision
<1>. QED BY <1>1, <1>2

\* A unit with the greatest revision gives the greatest revision.
LEMMA MaxUnitRevisionOfNewest ==
  ASSUME NEW s \in Store, NEW u \in Units, s.val # NULL, IsNewest(s, u)
  PROVE  MaxUnitRevision(s) = s.rev[u]
<1>1. s.rev \in [Units -> Nat]
  BY DEF Store
<1>2. PICK w \in Units : IsNewest(s, w) /\ MaxUnitRevision(s) = s.rev[w]
  BY DEF MaxUnitRevision
<1>. QED BY <1>1, <1>2 DEF IsNewest

\* Recomputing StoreData keeps the type and the bound of a Store.
LEMMA UpdateDataKeeps ==
  ASSUME NEW s \in Store
  PROVE  /\ UpdateData(s) \in Store
         /\ UpdateData(s) = [s EXCEPT !.max_unit_revision = MaxUnitRevision(s)]
         /\ \A n \in Nat : /\ s.rev # NULL => \A u \in Units : s.rev[u] <= n
                           /\ RevBelow(s.last_sync_revision, n)
                           => StoreBelow(UpdateData(s), n)
<1>1. MaxUnitRevision(s) \in Nat
  BY MaxUnitRevisionBelow
<1>2. UpdateData(s) \in Store
  BY <1>1 DEF UpdateData, Store
<1>3. ASSUME NEW n \in Nat, s.rev # NULL => \A u \in Units : s.rev[u] <= n,
             RevBelow(s.last_sync_revision, n)
      PROVE  StoreBelow(UpdateData(s), n)
  <2>1. MaxUnitRevision(s) <= n
    BY <1>3, MaxUnitRevisionBelow
  <2>. QED BY <1>3, <2>1 DEF StoreBelow, UpdateData, Store
<1>. QED BY <1>2, <1>3 DEF UpdateData

-----------------------------------------------------------------------------
(* What holds of the outcome of every operation that starts at revision rev *)

Good(o, rev) ==
  /\ o.store \in Store /\ o.suggested \in Suggestions
  /\ o.revision \in Nat /\ rev <= o.revision
  /\ o.ret \in Nat \cup {NULL} /\ RevBelow(o.ret, o.revision)
  /\ StoreBelow(o.store, o.revision)

\* An operation that returns no revision and changes nothing is good.
LEMMA UnchangedGood ==
  ASSUME NEW s \in Store, NEW sugg \in Suggestions, NEW rev \in Nat,
         StoreBelow(s, rev)
  PROVE  Good(Outcome(s, sugg, rev, NULL), rev)
BY DEF Good, Outcome, RevBelow

\* The units added to an empty Store have the revision of the update.
LEMMA AddUnitsGood ==
  ASSUME NEW s \in Store, NEW sugg \in Suggestions, NEW rev \in Nat,
         NEW new \in Content, StoreBelow(s, rev), s.st # "none"
  PROVE  Good(AddUnits(s, sugg, new, rev), rev)
<1>. DEFINE s2 == [s EXCEPT !.val = new, !.rev = [u \in Units |-> rev + 1]]
<1>1. [u \in Units |-> rev + 1] \in [Units -> Nat]
  OBVIOUS
<1>2. s2 \in Store
  BY <1>1, NullAssumption DEF Store
<1>3. s2.rev = [u \in Units |-> rev + 1]
      /\ s2.last_sync_revision = s.last_sync_revision
  BY DEF Store
<1>4. RevBelow(s2.last_sync_revision, rev + 2)
  BY <1>3 DEF StoreBelow, RevBelow, Store
<1>5. StoreBelow(UpdateData(s2), rev + 2)
  <2>1. s2.rev # NULL => \A u \in Units : s2.rev[u] <= rev + 2
    BY <1>3
  <2>. HIDE DEF s2
  <2>. QED BY <1>2, <1>4, <2>1, UpdateDataKeeps
<1>6. UpdateData(s2) \in Store
  <2>. HIDE DEF s2
  <2>. QED BY <1>2, UpdateDataKeeps
<1>7. AddUnits(s, sugg, new, rev)
        = [store |-> UpdateData(s2), suggested |-> sugg,
           revision |-> rev + 2, ret |-> rev + 1]
  BY DEF AddUnits, Outcome
<1>. QED
  <2>. HIDE DEF s2
  <2>. QED BY <1>5, <1>6, <1>7 DEF Good, RevBelow

\* Units are only updated to what the file holds, with a revision that the
\* counter has reached.
LEMMA UpdateUnitsGood ==
  ASSUME NEW s \in Store, NEW sugg \in Suggestions, NEW rev \in Nat,
         NEW new \in Content, NEW old \in Content \cup {NULL},
         NEW since \in Nat, NEW wins \in {"pootle", "fs"},
         StoreBelow(s, rev), s.val # NULL
  PROVE  Good(UpdateUnits(s, sugg, new, old, since, wins, rev), rev)
<1>. DEFINE updated == {u \in Units : ShouldUpdate(s, new, old, wins, u)}
            sugg2 == sugg \cup ConflictSuggestions(s, new, old, wins)
            val2 == [u \in Units |-> IF u \in updated THEN new[u] ELSE s.val[u]]
            rev2 == [u \in Units |-> IF u \in updated THEN rev + 1
                                     ELSE IF s.rev[u] > since THEN rev + 2
                                     ELSE s.rev[u]]
            s2 == [s EXCEPT !.val = val2, !.rev = rev2]
<1>1. s.val \in Content /\ s.rev \in [Units -> Nat]
      /\ \A u \in Units : s.rev[u] <= rev
  BY DEF Store, StoreBelow
<1>2. val2 \in Content
  BY <1>1 DEF Content
<1>3. rev2 \in [Units -> Nat] /\ \A u \in Units : rev2[u] <= rev + 2
  BY <1>1
<1>4. s2 \in Store /\ s2.rev = rev2
      /\ s2.last_sync_revision = s.last_sync_revision
      /\ s2.max_unit_revision = s.max_unit_revision
  <2>. HIDE DEF val2, rev2
  <2>. QED BY <1>2, <1>3, NullAssumption DEF Store
<1>5. sugg2 \in Suggestions
  <2>1. ConflictSuggestions(s, new, old, wins) \subseteq Units \X Vals
    BY <1>1 DEF ConflictSuggestions, Content
  <2>. QED BY <2>1 DEF Suggestions
<1>6. RevBelow(s2.last_sync_revision, rev + 2)
      /\ s2.max_unit_revision <= rev + 2
  <2>. HIDE DEF s2
  <2>. QED BY <1>4 DEF StoreBelow, RevBelow, Store
<1>7. \A u \in Units : s2.rev[u] <= rev + 2
  BY <1>3, <1>4
<1>8. /\ UpdateData(s2) \in Store /\ StoreBelow(UpdateData(s2), rev + 2)
      /\ StoreBelow(s2, rev + 2)
  <2>. HIDE DEF s2, rev2, val2
  <2>. QED BY <1>4, <1>6, <1>7, UpdateDataKeeps DEF StoreBelow
<1>9. PICK s3 \in {UpdateData(s2), s2} :
        UpdateUnits(s, sugg, new, old, since, wins, rev)
          = [store |-> s3, suggested |-> sugg2,
             revision |-> rev + 2, ret |-> rev + 1]
  BY DEF UpdateUnits, Outcome
<1>. QED
  <2>. HIDE DEF s2, sugg2
  <2>. QED BY <1>4, <1>5, <1>8, <1>9 DEF Good, RevBelow

\* The update of a Store from a file is good, whichever way it goes.
LEMMA UpdateStoreGood ==
  ASSUME NEW s \in Store, NEW sugg \in Suggestions, NEW rev \in Nat,
         NEW new \in Content, NEW old \in Content \cup {NULL},
         NEW since \in Nat, NEW wins \in {"pootle", "fs"},
         StoreBelow(s, rev), s.st # "none"
  PROVE  Good(UpdateStore(s, sugg, new, old, since, wins, rev), rev)
<1>1. CASE s.val = NULL
  BY <1>1, AddUnitsGood DEF UpdateStore
<1>2. CASE s.val # NULL /\ s.val = new
  BY <1>2, UnchangedGood DEF UpdateStore
<1>3. CASE s.val # NULL /\ s.val # new
  BY <1>3, UpdateUnitsGood DEF UpdateStore
<1>. QED BY <1>1, <1>2, <1>3

\* The Store that a pull starts from is there, with the units it had.
LEMMA StoreToPullKeeps ==
  ASSUME NEW s \in Store, NEW rev \in Nat, StoreBelow(s, rev)
  PROVE  /\ StoreToPull(s) \in Store /\ StoreToPull(s).st # "none"
         /\ StoreToPull(s).val = s.val
         /\ StoreBelow(StoreToPull(s), rev)
<1>1. CASE s.st = "none"
  BY <1>1, NullAssumption
  DEF StoreToPull, EmptyStore, NoStore, Store, StoreBelow, RevBelow
<1>2. CASE s.st = "obsolete"
  <2>. DEFINE s2 == [s EXCEPT !.st = "live",
                              !.last_sync_revision =
                                 IF @ = NULL THEN s.max_unit_revision ELSE @]
  <2>1. /\ s2 \in Store /\ s2.st = "live" /\ s2.val = s.val /\ s2.rev = s.rev
        /\ RevBelow(s2.last_sync_revision, rev)
    BY DEF Store, StoreBelow, RevBelow
  <2>2. StoreToPull(s) = UpdateData(s2)
    BY <1>2 DEF StoreToPull, Resurrect
  <2>. HIDE DEF s2
  <2>3. /\ UpdateData(s2) \in Store /\ StoreBelow(UpdateData(s2), rev)
    BY <2>1, UpdateDataKeeps DEF StoreBelow
  <2>4. UpdateData(s2).st = s2.st /\ UpdateData(s2).val = s2.val
    BY <2>1 DEF UpdateData, Store
  <2>. QED BY <2>1, <2>2, <2>3, <2>4
<1>3. CASE s.st = "live"
  BY <1>3 DEF StoreToPull
<1>. QED BY <1>1, <1>2, <1>3 DEF Store

\* The pull of a file is good, whichever way it goes.
LEMMA PullGood ==
  ASSUME NEW r \in Row, NEW s \in Store, NEW sugg \in Suggestions,
         NEW f \in File, NEW merge \in BOOLEAN,
         NEW wins \in {"pootle", "fs"}, NEW rev \in Nat, StoreBelow(s, rev)
  PROVE  Good(Pull(r, s, sugg, f, merge, wins, rev), rev)
<1>. DEFINE s1 == StoreToPull(s)
            since == IF r.last_sync_revision = NULL THEN 0
                     ELSE r.last_sync_revision
<1>1. s1 \in Store /\ s1.st # "none" /\ StoreBelow(s1, rev)
  BY StoreToPullKeeps
<1>2. since \in Nat /\ r.base \in Content \cup {NULL}
      /\ s1.val \in Content \cup {NULL} /\ f.val \in Content \cup {NULL}
  BY <1>1 DEF Row, File, Store
<1>3. CASE PullSkipped(r, f)
  BY <1>3, UnchangedGood DEF Pull
<1>4. CASE ~PullSkipped(r, f) /\ f.val = NULL
  BY <1>1, <1>4, UnchangedGood DEF Pull
<1>5. CASE ~PullSkipped(r, f) /\ f.val # NULL /\ merge
  <2>1. Pull(r, s, sugg, f, merge, wins, rev)
          = UpdateStore(s1, sugg, f.val, r.base, since, wins, rev)
    BY <1>5 DEF Pull
  <2>. HIDE DEF s1, since
  <2>. QED BY <1>1, <1>2, <1>5, <2>1, UpdateStoreGood
<1>6. CASE ~PullSkipped(r, f) /\ f.val # NULL /\ ~merge
  <2>1. Pull(r, s, sugg, f, merge, wins, rev)
          = UpdateStore(s1, sugg, f.val, s1.val, rev + 1, wins, rev)
    BY <1>6 DEF Pull
  <2>. HIDE DEF s1
  <2>. QED BY <1>1, <1>2, <1>6, <2>1, UpdateStoreGood
<1>. QED BY <1>3, <1>4, <1>5, <1>6

-----------------------------------------------------------------------------
(* What a merge keeps *)

\* The unit u of the Store has the translation x, or a suggestion of it, or x
\* is what was synced last.
Kept(o, base, u, x) ==
  \/ o.store.val[u] = x
  \/ <<u, x>> \in o.suggested
  \/ base # NULL /\ base[u] = x

\* The update of the units keeps the translations of both sides.
LEMMA UpdateUnitsKeeps ==
  ASSUME NEW s \in Store, NEW sugg \in Suggestions, NEW rev \in Nat,
         NEW new \in Content, NEW old \in Content \cup {NULL},
         NEW since \in Nat, NEW wins \in {"pootle", "fs"},
         s.val # NULL, NEW u \in Units,
         NEW o, o = UpdateUnits(s, sugg, new, old, since, wins, rev)
  PROVE  Kept(o, old, u, s.val[u]) /\ Kept(o, old, u, new[u])
<1>. DEFINE lost == IF wins = "pootle" THEN new[u] ELSE s.val[u]
<1>1. s.val \in Content /\ s.rev \in [Units -> Nat]
  BY DEF Store
<1>2. o.store.val[u]
        = IF ShouldUpdate(s, new, old, wins, u) THEN new[u] ELSE s.val[u]
  BY <1>1 DEF UpdateUnits, Outcome, UpdateData, Store, Content
<1>3. o.suggested = sugg \cup ConflictSuggestions(s, new, old, wins)
  BY DEF UpdateUnits, Outcome
<1>4. ConflictFound(s, new, old, u) => <<u, lost>> \in o.suggested
  BY <1>3 DEF ConflictSuggestions
<1>. QED
  BY <1>2, <1>4
  DEF Kept, ShouldUpdate, ConflictFound, FsUpdated, DbUpdated

\* A merge of a file into a Store keeps the translations of both.
LEMMA MergeKeeps ==
  ASSUME NEW r \in Row, NEW s \in Store, NEW sugg \in Suggestions,
         NEW f \in File, NEW wins \in {"pootle", "fs"}, NEW rev \in Nat,
         StoreBelow(s, rev), s.val # NULL, f.val # NULL,
         ~PullSkipped(r, f), NEW u \in Units,
         NEW o, o = Pull(r, s, sugg, f, TRUE, wins, rev)
  PROVE  Kept(o, r.base, u, s.val[u]) /\ Kept(o, r.base, u, f.val[u])
<1>. DEFINE s1 == StoreToPull(s)
            since == IF r.last_sync_revision = NULL THEN 0
                     ELSE r.last_sync_revision
<1>1. s1 \in Store /\ s1.val = s.val
  BY StoreToPullKeeps
<1>2. since \in Nat /\ r.base \in Content \cup {NULL} /\ f.val \in Content
  BY DEF Row, File
<1>3. o = UpdateStore(s1, sugg, f.val, r.base, since, wins, rev)
  BY DEF Pull
<1>. HIDE DEF s1, since
<1>4. CASE s1.val = f.val
  <2>1. o = Outcome(s1, sugg, rev, NULL)
    BY <1>1, <1>3, <1>4 DEF UpdateStore
  <2>2. Outcome(s1, sugg, rev, NULL).store = s1
    BY DEF Outcome
  <2>. QED BY <1>1, <1>4, <2>1, <2>2 DEF Kept
<1>5. CASE s1.val # f.val
  <2>1. o = UpdateUnits(s1, sugg, f.val, r.base, since, wins, rev)
    BY <1>1, <1>3, <1>5 DEF UpdateStore
  <2>. QED BY <1>1, <1>2, <2>1, UpdateUnitsKeeps
<1>. QED BY <1>4, <1>5

-----------------------------------------------------------------------------
(* Versions: a revision and the units a Store had at it *)

\* The revisions that the state and FSFile take a Store to be at.
Stamps(s) == {MaxUnitRevision(s), s.max_unit_revision}

\* A version fits a Store if the Store has its units when it has its revision.
Fits(v, s) == IF s.val = NULL THEN v.base = NULL
              ELSE v.rev \in Stamps(s) => v.base = s.val

\* The Store s2 that comes of s when the revision counter is n: nothing that
\* s2 holds and s did not has a revision that was drawn before.
Later(s, s2, n) ==
  \/ s2.val = s.val /\ \A m \in Stamps(s2) : m \in Stamps(s) \/ m > n
  \/ s2.val # NULL /\ \A m \in Stamps(s2) : m > n

\* The revisions of a Store are numbers.
LEMMA StampsAreNumbers ==
  ASSUME NEW s \in Store
  PROVE  Stamps(s) \subseteq Nat
BY MaxUnitRevisionBelow DEF Stamps, Store

\* What fits a Store still fits when the Store is later.
LEMMA FitsLater ==
  ASSUME NEW s, NEW s2 \in Store, NEW n \in Nat, Later(s, s2, n),
         NEW v, v.rev \in Nat \cup {NULL}, RevBelow(v.rev, n), Fits(v, s)
  PROVE  Fits(v, s2)
<1>1. Stamps(s2) \subseteq Nat
  BY StampsAreNumbers
<1>2. v.rev \in Stamps(s2) => v.rev <= n /\ v.rev \in Nat
  BY <1>1, NullAssumption DEF RevBelow
<1>3. CASE s2.val = s.val /\ \A m \in Stamps(s2) : m \in Stamps(s) \/ m > n
  BY <1>2, <1>3 DEF Fits
<1>4. CASE s2.val # NULL /\ \A m \in Stamps(s2) : m > n
  BY <1>2, <1>4 DEF Fits
<1>. QED BY <1>3, <1>4 DEF Later

\* A Store is no later than itself.
LEMMA LaterSame ==
  ASSUME NEW s, NEW n
  PROVE  Later(s, s, n)
BY DEF Later

\* The greatest revision is that of the units.
LEMMA MaxUnitRevisionSame ==
  ASSUME NEW s \in Store, NEW s2 \in Store, s2.val = s.val, s2.rev = s.rev
  PROVE  MaxUnitRevision(s2) = MaxUnitRevision(s)
<1>1. CASE s.val # NULL /\ \E u \in Units : IsNewest(s, u)
  <2>1. PICK u \in Units : IsNewest(s, u)
    BY <1>1
  <2>2. IsNewest(s2, u)
    BY <2>1 DEF IsNewest
  <2>. QED BY <1>1, <2>1, <2>2, MaxUnitRevisionOfNewest
<1>2. CASE ~(s.val # NULL /\ \E u \in Units : IsNewest(s, u))
  BY <1>2 DEF MaxUnitRevision, IsNewest
<1>. QED BY <1>1, <1>2

\* StoreData that is recomputed says what the units say.
LEMMA StampsOfUpdated ==
  ASSUME NEW s \in Store
  PROVE  /\ UpdateData(s).val = s.val
         /\ Stamps(UpdateData(s)) = {MaxUnitRevision(s)}
<1>1. /\ UpdateData(s) \in Store
      /\ UpdateData(s).val = s.val /\ UpdateData(s).rev = s.rev
      /\ UpdateData(s).max_unit_revision = MaxUnitRevision(s)
  BY UpdateDataKeeps DEF Store
<1>2. MaxUnitRevision(UpdateData(s)) = MaxUnitRevision(s)
  BY <1>1, MaxUnitRevisionSame
<1>. QED BY <1>1, <1>2 DEF Stamps

\* A Store whose units and revisions stay, and whose StoreData is recomputed,
\* is later.
LEMMA LaterUpdated ==
  ASSUME NEW s \in Store, NEW s2 \in Store, s2.val = s.val, s2.rev = s.rev,
         NEW n
  PROVE  Later(s, UpdateData(s2), n)
<1>1. MaxUnitRevision(s2) = MaxUnitRevision(s)
  BY MaxUnitRevisionSame
<1>2. /\ UpdateData(s2).val = s2.val
      /\ Stamps(UpdateData(s2)) = {MaxUnitRevision(s2)}
  BY StampsOfUpdated
<1>. QED BY <1>1, <1>2 DEF Later, Stamps

\* A Store whose newest unit has a revision drawn just now is later.
LEMMA LaterDrawn ==
  ASSUME NEW s, NEW s2 \in Store, s2.val # NULL, NEW n \in Nat,
         NEW u \in Units, IsNewest(s2, u), s2.rev[u] > n
  PROVE  Later(s, UpdateData(s2), n)
<1>1. MaxUnitRevision(s2) = s2.rev[u]
  BY MaxUnitRevisionOfNewest
<1>2. /\ UpdateData(s2).val = s2.val
      /\ Stamps(UpdateData(s2)) = {MaxUnitRevision(s2)}
  BY StampsOfUpdated
<1>. QED BY <1>1, <1>2 DEF Later

\* Adding units makes the Store later.
LEMMA AddUnitsLater ==
  ASSUME NEW s \in Store, NEW t, NEW sugg, NEW rev \in Nat, NEW new \in Content,
         s.st # "none"
  PROVE  Later(t, AddUnits(s, sugg, new, rev).store, rev)
<1>. DEFINE drawn == [u \in Units |-> rev + 1]
            s2 == [s EXCEPT !.val = new, !.rev = drawn]
<1>1. drawn \in [Units -> Nat] /\ \A u \in Units : drawn[u] = rev + 1
  OBVIOUS
<1>2. AddUnits(s, sugg, new, rev).store = UpdateData(s2)
  BY DEF AddUnits, Outcome
<1>. HIDE DEF drawn
<1>3. s2 \in Store /\ s2.val = new /\ s2.rev = drawn
  BY <1>1, NullAssumption DEF Store
<1>. HIDE DEF s2
<1>4. PICK u \in Units : TRUE
  BY UnitsAssumption
<1>5. s2.val # NULL /\ IsNewest(s2, u) /\ s2.rev[u] > rev
  BY <1>1, <1>3, NullAssumption DEF IsNewest
<1>. QED BY <1>2, <1>3, <1>5, LaterDrawn

\* So does updating them.
LEMMA UpdateUnitsLater ==
  ASSUME NEW s \in Store, NEW sugg, NEW rev \in Nat,
         NEW new \in Content, NEW old,
         NEW since \in Nat, NEW wins,
         StoreBelow(s, rev), s.val # NULL
  PROVE  Later(s, UpdateUnits(s, sugg, new, old, since, wins, rev).store, rev)
<1>. DEFINE updated == {u \in Units : ShouldUpdate(s, new, old, wins, u)}
            sugg2 == sugg \cup ConflictSuggestions(s, new, old, wins)
            val2 == [u \in Units |-> IF u \in updated THEN new[u] ELSE s.val[u]]
            rev2 == [u \in Units |-> IF u \in updated THEN rev + 1
                                     ELSE IF s.rev[u] > since THEN rev + 2
                                     ELSE s.rev[u]]
            s2 == [s EXCEPT !.val = val2, !.rev = rev2]
            moved == {u \in Units \ updated : s.rev[u] > since}
<1>1. s.val \in Content /\ s.rev \in [Units -> Nat]
      /\ \A u \in Units : s.rev[u] <= rev
  BY DEF Store, StoreBelow
<1>2. val2 \in Content
  BY <1>1 DEF Content
<1>3. rev2 \in [Units -> Nat]
  BY <1>1
<1>4. /\ \A u \in moved : rev2[u] = rev + 2
      /\ \A u \in Units : rev2[u] <= rev + 2
      /\ moved = {} => \A u \in Units : rev2[u] <= rev + 1
      /\ moved = {} => \A u \in updated : rev2[u] = rev + 1
  BY <1>1
<1>5. updated = {} => val2 = s.val
  BY <1>1 DEF Content
<1>6. updated = {} /\ moved = {} => rev2 = s.rev
  BY <1>1
<1>7. /\ UpdateUnits(s, sugg, new, old, since, wins, rev).store
           = IF updated # {} \/ sugg2 # sugg THEN UpdateData(s2) ELSE s2
  BY DEF UpdateUnits, Outcome
<1>8. moved \subseteq Units /\ updated \subseteq Units
  OBVIOUS
<1>. HIDE DEF val2, rev2, updated, moved, sugg2
<1>9. /\ s2 \in Store /\ s2.rev = rev2 /\ s2.val = val2
      /\ s2.max_unit_revision = s.max_unit_revision
  BY <1>2, <1>3, NullAssumption DEF Store
<1>10. s2.val # NULL
  BY <1>2, <1>9, NullAssumption
<1>. HIDE DEF s2
<1>11. CASE moved # {}
  <2>1. PICK u \in Units : u \in moved
    BY <1>8, <1>11
  <2>2. IsNewest(s2, u) /\ s2.rev[u] > rev
    BY <1>3, <1>4, <1>9, <2>1 DEF IsNewest
  <2>3. Later(s, UpdateData(s2), rev)
    BY <1>9, <1>10, <2>2, LaterDrawn
  <2>4. updated = {} => Later(s, s2, rev)
    <3>1. MaxUnitRevision(s2) > rev
      BY <1>9, <1>10, <2>2, MaxUnitRevisionOfNewest
    <3>. QED BY <1>5, <1>9, <3>1 DEF Later, Stamps
  <2>. QED BY <1>7, <2>3, <2>4
<1>12. CASE moved = {} /\ updated # {}
  <2>1. PICK u \in Units : u \in updated
    BY <1>8, <1>12
  <2>2. IsNewest(s2, u) /\ s2.rev[u] > rev
    BY <1>3, <1>4, <1>9, <1>12, <2>1 DEF IsNewest
  <2>. QED BY <1>7, <1>9, <1>10, <1>12, <2>2, LaterDrawn
<1>13. CASE moved = {} /\ updated = {}
  <2>1. s2.val = s.val /\ s2.rev = s.rev
    BY <1>5, <1>6, <1>9, <1>13
  <2>2. Later(s, UpdateData(s2), rev)
    BY <1>9, <2>1, LaterUpdated
  <2>3. Later(s, s2, rev)
    BY <1>9, <2>1, MaxUnitRevisionSame DEF Later, Stamps
  <2>. QED BY <1>7, <2>2, <2>3
<1>. QED BY <1>11, <1>12, <1>13

\* The Store a pull starts from is no later, in units or revisions.
LEMMA StoreToPullLater ==
  ASSUME NEW s \in Store, NEW n
  PROVE  Later(s, StoreToPull(s), n)
<1>1. CASE s.st = "none"
  <2>1. s.val = NULL /\ MaxUnitRevision(s) = 0
    BY <1>1 DEF Store, MaxUnitRevision
  <2>2. EmptyStore.val = NULL /\ EmptyStore.max_unit_revision = 0
    BY DEF EmptyStore, NoStore
  <2>3. MaxUnitRevision(EmptyStore) = 0
    BY <2>2 DEF MaxUnitRevision
  <2>. QED BY <1>1, <2>1, <2>2, <2>3 DEF StoreToPull, Later, Stamps
<1>2. CASE s.st = "obsolete"
  <2>. DEFINE s2 == [s EXCEPT !.st = "live",
                              !.last_sync_revision =
                                 IF @ = NULL THEN s.max_unit_revision ELSE @]
  <2>1. s2 \in Store /\ s2.val = s.val /\ s2.rev = s.rev
    BY DEF Store
  <2>2. StoreToPull(s) = UpdateData(s2)
    BY <1>2 DEF StoreToPull, Resurrect
  <2>. HIDE DEF s2
  <2>. QED BY <2>1, <2>2, LaterUpdated
<1>3. CASE s.st = "live"
  BY <1>3, LaterSame DEF StoreToPull
<1>. QED BY <1>1, <1>2, <1>3 DEF Store

\* Later is transitive.
LEMMA LaterTransitive ==
  ASSUME NEW s, NEW s1, NEW s2, NEW n, Later(s, s1, n), Later(s1, s2, n)
  PROVE  Later(s, s2, n)
BY DEF Later

\* A pull or a merge makes its Store later, whichever way it goes.
LEMMA PullLater ==
  ASSUME NEW r \in Row, NEW s \in Store, NEW sugg, NEW f \in File,
         NEW merge \in BOOLEAN, NEW wins, NEW rev \in Nat, StoreBelow(s, rev)
  PROVE  Later(s, Pull(r, s, sugg, f, merge, wins, rev).store, rev)
<1>. DEFINE s1 == StoreToPull(s)
            since == IF merge THEN IF r.last_sync_revision = NULL THEN 0
                                   ELSE r.last_sync_revision
                     ELSE rev + 1
            old == IF merge THEN r.base ELSE s1.val
            o == Pull(r, s, sugg, f, merge, wins, rev)
<1>1. s1 \in Store /\ s1.st # "none" /\ StoreBelow(s1, rev)
  BY StoreToPullKeeps
<1>2. Later(s, s1, rev)
  BY StoreToPullLater
<1>3. since \in Nat /\ f.val \in Content \cup {NULL}
  BY DEF Row, File
<1>4. CASE PullSkipped(r, f)
  BY <1>4, LaterSame DEF Pull, Outcome
<1>5. CASE ~PullSkipped(r, f) /\ f.val = NULL
  BY <1>2, <1>5 DEF Pull, Outcome
<1>6. CASE ~PullSkipped(r, f) /\ f.val # NULL
  <2>1. o = UpdateStore(s1, sugg, f.val, old, since, wins, rev)
    BY <1>6 DEF Pull
  <2>. SUFFICES Later(s, o.store, rev)
    OBVIOUS
  <2>. HIDE DEF o, s1, since, old
  <2>2. CASE s1.val = NULL
    BY <1>1, <1>3, <1>6, <2>1, <2>2, AddUnitsLater DEF UpdateStore
  <2>3. CASE s1.val # NULL /\ s1.val = f.val
    BY <1>2, <2>1, <2>3 DEF UpdateStore, Outcome
  <2>4. CASE s1.val # NULL /\ s1.val # f.val
    BY <1>1, <1>2, <1>3, <1>6, <2>1, <2>4, UpdateUnitsLater, LaterTransitive
    DEF UpdateStore
  <2>. QED BY <2>2, <2>3, <2>4
<1>. QED BY <1>4, <1>5, <1>6

-----------------------------------------------------------------------------
(* The newest unit *)

\* A Store with units has a newest one, whatever their number: what is drawn
\* from the counter has a greatest element.
LEMMA NewestExists ==
  ASSUME NEW s \in Store, NEW n \in Nat, StoreBelow(s, n), s.val # NULL
  PROVE  \E u \in Units : IsNewest(s, u)
<1>1. \A a, b \in Nat : ~(n - a < n - b) => a <= b
  OBVIOUS
<1>2. \A a \in Nat : a <= n => n - a \in Nat
  OBVIOUS
<1>. PICK rev : rev = s.rev
  OBVIOUS
<1>3. rev \in [Units -> Nat] /\ \A u \in Units : rev[u] <= n
  BY DEF Store, StoreBelow
<1>. PICK T : T = {n - rev[u] : u \in Units}
  OBVIOUS
<1>. PICK R : R = OpToRel(<, Nat)
  OBVIOUS
<1>4. T \subseteq Nat /\ T # {}
  <2>1. \A u \in Units : n - rev[u] \in Nat
    BY <1>3, <1>2
  <2>. QED BY Zenon, <2>1, UnitsAssumption
<1>5. IsWellFoundedOn(R, Nat)
  BY NatLessThanWellFounded
<1>6. PICK x \in T : \A y \in T : <<y, x>> \notin R
  BY <1>4, <1>5, WFMin
<1>7. \A y \in T : ~(y < x)
  BY <1>4, <1>6 DEF OpToRel
<1>8. PICK u \in Units : x = n - rev[u]
  OBVIOUS
<1>9. ASSUME NEW w \in Units
      PROVE  rev[w] <= rev[u]
  <2>1. n - rev[w] \in T
    OBVIOUS
  <2>2. ~(n - rev[w] < n - rev[u])
    BY <1>7, <1>8, <2>1
  <2>3. rev[w] \in Nat /\ rev[u] \in Nat
    BY <1>3
  <2>. QED BY Zenon, <1>1, <2>2, <2>3
<1>10. IsNewest(s, u)
  BY <1>9 DEF IsNewest
<1>. QED BY <1>10

\* So no unit is later than the greatest revision.
LEMMA UnitsUpToMax ==
  ASSUME NEW s \in Store, NEW n \in Nat, StoreBelow(s, n), s.val # NULL
  PROVE  \A u \in Units : s.rev[u] <= MaxUnitRevision(s)
<1>1. PICK u \in Units : IsNewest(s, u)
  BY NewestExists
<1>. QED BY <1>1, MaxUnitRevisionOfNewest DEF IsNewest

-----------------------------------------------------------------------------
(* Claims.  What a row says of the last sync, and what a sync is to write     *)
(* down: the revision, the hash of the file and the units of the Store.       *)

\* The units that are no later than the claim have the targets of its base.
Behind(v, s) ==
  s.val # NULL /\ v.rev # NULL =>
    \A u \in Units : s.rev[u] <= v.rev => v.base # NULL /\ v.base[u] = s.val[u]
\* If neither side has changed since, Store and file agree.
Unchanged(v, s, f) ==
  /\ s.st = "live" /\ s.val # NULL /\ f.val # NULL
  /\ v.hash # NULL /\ f.mtime = v.hash /\ v.rev = MaxUnitRevision(s)
AgreeOn(s, f, u) ==
  \/ s.last_sync_revision # NULL /\ s.rev[u] <= s.last_sync_revision
  \/ s.val[u] = f.val[u]
Agree(v, s, f) == Unchanged(v, s, f) => \A u \in Units : AgreeOn(s, f, u)

\* In s2, which comes of s when the revision counter is n, every unit that has
\* changed has a revision drawn since.
UnitsLater(s, s2, n) ==
  s2.val # NULL => \A u \in Units :
    \/ s2.rev[u] > n
    \/ s.val # NULL /\ s2.rev[u] = s.rev[u] /\ s2.val[u] = s.val[u]

\* What is known of the units of a Store stays true of a later one.
LEMMA BehindLater ==
  ASSUME NEW s, NEW s2 \in Store, NEW n \in Nat, UnitsLater(s, s2, n),
         NEW v, v.rev \in Nat \cup {NULL}, RevBelow(v.rev, n), Behind(v, s)
  PROVE  Behind(v, s2)
<1>. SUFFICES ASSUME s2.val # NULL, v.rev # NULL, NEW u \in Units,
                     s2.rev[u] <= v.rev
              PROVE  v.base # NULL /\ v.base[u] = s2.val[u]
  BY DEF Behind
<1>1. s2.rev[u] \in Nat
  BY DEF Store
<1>2. ~(s2.rev[u] > n)
  BY <1>1 DEF RevBelow
<1>3. s.val # NULL /\ s2.rev[u] = s.rev[u] /\ s2.val[u] = s.val[u]
  BY <1>2 DEF UnitsLater
<1>. QED BY <1>3 DEF Behind

\* A Store with the same units is later, wherever it is.
LEMMA UnitsLaterSame ==
  ASSUME NEW s, NEW s2, s2.val = s.val, s2.rev = s.rev, NEW n
  PROVE  UnitsLater(s, s2, n)
BY DEF UnitsLater

\* Nor does one later than a later one.
LEMMA UnitsLaterTransitive ==
  ASSUME NEW s, NEW s1, NEW s2, NEW n, UnitsLater(s, s1, n), UnitsLater(s1, s2, n)
  PROVE  UnitsLater(s, s2, n)
BY DEF UnitsLater

\* A claim says nothing of a Store with a unit that was drawn since.
LEMMA DrawnAgree ==
  ASSUME NEW s \in Store, NEW n \in Nat, NEW m \in Nat, StoreBelow(s, m),
         NEW u \in Units, s.val # NULL => s.rev[u] > n,
         NEW v, v.rev \in Nat \cup {NULL}, RevBelow(v.rev, n), NEW f
  PROVE  Agree(v, s, f)
<1>. SUFFICES ASSUME s.val # NULL, v.rev = MaxUnitRevision(s)
              PROVE  FALSE
  BY DEF Agree, Unchanged
<1>1. s.rev[u] <= MaxUnitRevision(s)
  BY UnitsUpToMax
<1>2. MaxUnitRevision(s) \in Nat /\ s.rev[u] \in Nat
  BY MaxUnitRevisionBelow DEF Store
<1>. QED BY <1>1, <1>2, NullAssumption DEF RevBelow

\* Nor of a file that was written since.
LEMMA WrittenAgree ==
  ASSUME NEW n \in Nat, NEW f, f.mtime = n \/ f.mtime = NULL,
         NEW v, v.hash \in Nat \cup {NULL}, v.hash # NULL => v.hash < n, NEW s
  PROVE  Agree(v, s, f)
BY DEF Agree, Unchanged

\* What holds of a Store holds of one with the same units and the same
\* last_sync_revision.
LEMMA AgreeSame ==
  ASSUME NEW s \in Store, NEW s2 \in Store, s2.val = s.val, s2.rev = s.rev,
         s2.last_sync_revision = s.last_sync_revision,
         s2.st = "live" => s.st = "live",
         NEW v, NEW f, Agree(v, s, f)
  PROVE  Agree(v, s2, f)
<1>1. MaxUnitRevision(s2) = MaxUnitRevision(s)
  BY MaxUnitRevisionSame
<1>. QED BY <1>1 DEF Agree, Unchanged, AgreeOn

-----------------------------------------------------------------------------
(* What a pull and a push leave of the units *)

\* What the update of a Store that has units makes of each of them.
LEMMA UpdatedUnits ==
  ASSUME NEW s \in Store, NEW sugg, NEW rev \in Nat, NEW new \in Content,
         NEW old, NEW since \in Nat, NEW wins, s.val # NULL,
         NEW o, o = UpdateUnits(s, sugg, new, old, since, wins, rev)
  PROVE  /\ o.store \in Store /\ o.store.val # NULL /\ o.ret = rev + 1
         /\ \A u \in Units :
              \/ /\ ShouldUpdate(s, new, old, wins, u)
                 /\ o.store.val[u] = new[u] /\ o.store.rev[u] = rev + 1
              \/ /\ ~ShouldUpdate(s, new, old, wins, u)
                 /\ o.store.val[u] = s.val[u]
                 /\ o.store.rev[u] = IF s.rev[u] > since THEN rev + 2
                                     ELSE s.rev[u]
<1>. DEFINE updated == {u \in Units : ShouldUpdate(s, new, old, wins, u)}
            sugg2 == sugg \cup ConflictSuggestions(s, new, old, wins)
            val2 == [u \in Units |-> IF u \in updated THEN new[u] ELSE s.val[u]]
            rev2 == [u \in Units |-> IF u \in updated THEN rev + 1
                                     ELSE IF s.rev[u] > since THEN rev + 2
                                     ELSE s.rev[u]]
            s2 == [s EXCEPT !.val = val2, !.rev = rev2]
<1>1. s.val \in Content /\ s.rev \in [Units -> Nat]
  BY DEF Store
<1>2. val2 \in Content
  BY <1>1 DEF Content
<1>3. rev2 \in [Units -> Nat]
  BY <1>1
<1>4. \A u \in Units :
        \/ /\ ShouldUpdate(s, new, old, wins, u)
           /\ val2[u] = new[u] /\ rev2[u] = rev + 1
        \/ /\ ~ShouldUpdate(s, new, old, wins, u)
           /\ val2[u] = s.val[u]
           /\ rev2[u] = IF s.rev[u] > since THEN rev + 2 ELSE s.rev[u]
  OBVIOUS
<1>5. /\ o.store = IF updated # {} \/ sugg2 # sugg THEN UpdateData(s2) ELSE s2
      /\ o.ret = rev + 1
  BY DEF UpdateUnits, Outcome
<1>. HIDE DEF val2, rev2, updated, sugg2
<1>6. s2 \in Store /\ s2.rev = rev2 /\ s2.val = val2
  BY <1>2, <1>3, NullAssumption DEF Store
<1>. HIDE DEF s2
<1>7. o.store \in Store /\ o.store.val = val2 /\ o.store.rev = rev2
  <2>1. /\ UpdateData(s2) \in Store /\ UpdateData(s2).val = s2.val
        /\ UpdateData(s2).rev = s2.rev
    BY <1>6, UpdateDataKeeps DEF Store
  <2>. QED BY <1>5, <1>6, <2>1
<1>8. val2 # NULL
  BY <1>2, NullAssumption
<1>. QED BY <1>4, <1>5, <1>7, <1>8

\* What adding units to a Store makes of it.
LEMMA AddedUnits ==
  ASSUME NEW s \in Store, s.st # "none", NEW sugg, NEW rev \in Nat,
         NEW new \in Content, NEW o, o = AddUnits(s, sugg, new, rev)
  PROVE  /\ o.store \in Store /\ o.store.val = new /\ new # NULL
         /\ \A u \in Units : o.store.rev[u] = rev + 1
<1>. DEFINE drawn == [u \in Units |-> rev + 1]
            s2 == [s EXCEPT !.val = new, !.rev = drawn]
<1>1. drawn \in [Units -> Nat] /\ \A u \in Units : drawn[u] = rev + 1
  OBVIOUS
<1>2. o.store = UpdateData(s2)
  BY DEF AddUnits, Outcome
<1>. HIDE DEF drawn
<1>3. s2 \in Store /\ s2.val = new /\ s2.rev = drawn /\ new # NULL
  BY <1>1, NullAssumption DEF Store
<1>. HIDE DEF s2
<1>4. /\ UpdateData(s2) \in Store /\ UpdateData(s2).val = s2.val
      /\ UpdateData(s2).rev = s2.rev
  BY <1>3, UpdateDataKeeps DEF Store
<1>. QED BY <1>1, <1>2, <1>3, <1>4

\* The Store that a pull starts from has the units of the Store.
LEMMA StoreToPullSame ==
  ASSUME NEW s \in Store
  PROVE  StoreToPull(s).val = s.val /\ StoreToPull(s).rev = s.rev
<1>1. CASE s.st = "none"
  BY <1>1, NullAssumption DEF StoreToPull, EmptyStore, NoStore, Store
<1>2. CASE s.st = "obsolete"
  <2>. DEFINE s2 == [s EXCEPT !.st = "live",
                              !.last_sync_revision =
                                 IF @ = NULL THEN s.max_unit_revision ELSE @]
  <2>1. s2 \in Store /\ s2.val = s.val /\ s2.rev = s.rev
    BY DEF Store
  <2>2. StoreToPull(s) = UpdateData(s2)
    BY <1>2 DEF StoreToPull, Resurrect
  <2>. HIDE DEF s2
  <2>. QED BY <2>1, <2>2, UpdateDataKeeps DEF Store
<1>3. CASE s.st = "live"
  BY <1>3 DEF StoreToPull
<1>. QED BY <1>1, <1>2, <1>3 DEF Store

\* No unit changes in a pull without a revision drawn by it.
LEMMA PullUnitsLater ==
  ASSUME NEW r \in Row, NEW s \in Store, NEW sugg, NEW f \in File,
         NEW merge \in BOOLEAN, NEW wins, NEW rev \in Nat, StoreBelow(s, rev),
         NEW o, o = Pull(r, s, sugg, f, merge, wins, rev)
  PROVE  UnitsLater(s, o.store, rev)
<1>. DEFINE s1 == StoreToPull(s)
            since == IF merge THEN IF r.last_sync_revision = NULL THEN 0
                                   ELSE r.last_sync_revision
                     ELSE rev + 1
            old == IF merge THEN r.base ELSE s1.val
<1>1. s1 \in Store /\ s1.st # "none" /\ StoreBelow(s1, rev)
  BY StoreToPullKeeps
<1>2. UnitsLater(s, s1, rev)
  BY StoreToPullSame, UnitsLaterSame
<1>3. since \in Nat /\ f.val \in Content \cup {NULL}
  BY DEF Row, File
<1>4. CASE PullSkipped(r, f)
  BY <1>4, UnitsLaterSame DEF Pull, Outcome
<1>5. CASE ~PullSkipped(r, f) /\ f.val = NULL
  BY <1>2, <1>5 DEF Pull, Outcome
<1>6. CASE ~PullSkipped(r, f) /\ f.val # NULL
  <2>1. o = UpdateStore(s1, sugg, f.val, old, since, wins, rev)
    BY <1>6 DEF Pull
  <2>. HIDE DEF s1, since, old
  <2>2. CASE s1.val = NULL
    <3>1. \A u \in Units : o.store.rev[u] = rev + 1
      BY <1>1, <1>3, <1>6, <2>1, <2>2, AddedUnits DEF UpdateStore
    <3>. QED BY <3>1 DEF UnitsLater
  <2>3. CASE s1.val # NULL /\ s1.val = f.val
    BY <1>2, <2>1, <2>3 DEF UpdateStore, Outcome
  <2>4. CASE s1.val # NULL /\ s1.val # f.val
    <3>1. o = UpdateUnits(s1, sugg, f.val, old, since, wins, rev)
      BY <2>1, <2>4 DEF UpdateStore
    <3>2. \A u \in Units : \/ o.store.rev[u] > rev
                           \/ /\ o.store.rev[u] = s1.rev[u]
                              /\ o.store.val[u] = s1.val[u]
      BY <1>1, <1>3, <1>6, <2>4, <3>1, UpdatedUnits
    <3>3. UnitsLater(s1, o.store, rev)
      BY <2>4, <3>2 DEF UnitsLater
    <3>. QED BY <1>2, <3>3, UnitsLaterTransitive
  <2>. QED BY <2>2, <2>3, <2>4
<1>. QED BY <1>4, <1>5, <1>6

\* A pull leaves Store and file agreeing where the revision that a sync writes
\* down is that of the newest unit: what a merge lets the Store keep gets a
\* later one.
LEMMA PullAgree ==
  ASSUME NEW r \in Row, NEW s \in Store, NEW sugg \in Suggestions,
         NEW f \in File, NEW merge \in BOOLEAN,
         NEW wins \in {"pootle", "fs"}, NEW rev \in Nat, StoreBelow(s, rev),
         Behind([rev |-> 0, base |-> NULL], s),
         Behind([rev |-> r.last_sync_revision, base |-> r.base], s),
         NEW o, o = Pull(r, s, sugg, f, merge, wins, rev), ~PullSkipped(r, f),
         NEW v, v.rev = IF merge THEN o.ret ELSE o.store.max_unit_revision
  PROVE  Agree(v, o.store, f)
<1>. DEFINE s1 == StoreToPull(s)
            since == IF merge THEN IF r.last_sync_revision = NULL THEN 0
                                   ELSE r.last_sync_revision
                     ELSE rev + 1
            old == IF merge THEN r.base ELSE s1.val
<1>. SUFFICES ASSUME Unchanged(v, o.store, f), NEW u \in Units
              PROVE  o.store.val[u] = f.val[u]
  BY DEF Agree, AgreeOn
<1>1. s1 \in Store /\ s1.st # "none" /\ StoreBelow(s1, rev)
  BY StoreToPullKeeps
<1>2. s1.val = s.val /\ s1.rev = s.rev
  BY StoreToPullSame
<1>3. since \in Nat /\ f.val \in Content /\ f.val # NULL
  BY DEF Row, File, Unchanged
<1>4. o = UpdateStore(s1, sugg, f.val, old, since, wins, rev)
  BY <1>3 DEF Pull
<1>5. Good(o, rev)
  BY PullGood
<1>6. MaxUnitRevision(o.store) \in Nat /\ v.rev = MaxUnitRevision(o.store)
  BY <1>5, MaxUnitRevisionBelow DEF Good, Unchanged
<1>7. merge \/ old = s1.val
  OBVIOUS
<1>8. merge => /\ old = r.base
               /\ since = IF r.last_sync_revision = NULL THEN 0
                          ELSE r.last_sync_revision
  OBVIOUS
<1>. HIDE DEF s1, since, old
<1>9. CASE s1.val = NULL
  <2>. PICK new : new = f.val
    OBVIOUS
  <2>1. o = AddUnits(s1, sugg, new, rev)
    BY <1>4, <1>9 DEF UpdateStore
  <2>2. o.store.val = new
    <3>. HIDE DEF UpdateStore
    <3>1. s1 \in Store /\ s1.st # "none" /\ new \in Content
      BY <1>1, <1>3
    <3>2. AddUnits(s1, sugg, new, rev).store.val = new
      BY <3>1, AddedUnits
    <3>. QED BY <2>1, <3>2
  <2>. QED BY <2>2
<1>10. CASE s1.val # NULL /\ s1.val = f.val
  BY <1>4, <1>10 DEF UpdateStore, Outcome
<1>11. CASE s1.val # NULL /\ s1.val # f.val
  <2>1. o = UpdateUnits(s1, sugg, f.val, old, since, wins, rev)
    BY <1>4, <1>11 DEF UpdateStore
  <2>2. CASE ShouldUpdate(s1, f.val, old, wins, u)
    BY <1>1, <1>3, <1>11, <2>1, <2>2, UpdatedUnits
  <2>3. CASE ~ShouldUpdate(s1, f.val, old, wins, u)
    <3>1. /\ o.store.val[u] = s1.val[u] /\ o.ret = rev + 1
          /\ o.store.val # NULL
          /\ o.store.rev[u] = IF s1.rev[u] > since THEN rev + 2 ELSE s1.rev[u]
      BY <1>1, <1>3, <1>11, <2>1, <2>3, UpdatedUnits
    <3>. SUFFICES ASSUME f.val[u] # s1.val[u] PROVE FALSE
      BY <3>1
    <3>2. \/ ~FsUpdated(f.val, old, u)
          \/ ConflictFound(s1, f.val, old, u) /\ wins = "pootle"
      BY <2>3 DEF ShouldUpdate
    <3>3. merge /\ (old = NULL \/ s1.val[u] # old[u])
      BY <1>7, <1>11, <3>2 DEF FsUpdated, ConflictFound, DbUpdated
    <3>4. s1.rev[u] \in Nat
      BY <1>1, <1>11 DEF Store
    <3>5. s1.rev[u] > since
      <4>1. CASE r.last_sync_revision = NULL
        <5>1. ~(s1.rev[u] <= 0)
          BY <1>2, <1>11, NullAssumption DEF Behind
        <5>. QED BY <1>8, <3>3, <3>4, <4>1, <5>1
      <4>2. CASE r.last_sync_revision # NULL
        <5>1. ~(s1.rev[u] <= r.last_sync_revision)
          BY <1>2, <1>8, <1>11, <3>3, <4>2 DEF Behind
        <5>2. r.last_sync_revision \in Nat
          BY <4>2 DEF Row
        <5>. QED BY <1>8, <3>3, <3>4, <4>2, <5>1, <5>2
      <4>. QED BY <4>1, <4>2
    <3>6. o.store.rev[u] = rev + 2 /\ v.rev = rev + 1
      BY <3>1, <3>3, <3>5
    <3>7. o.store.rev[u] <= MaxUnitRevision(o.store)
      BY <1>5, <3>1, UnitsUpToMax DEF Good
    <3>. QED BY <1>6, <3>6, <3>7
  <2>. QED BY <2>2, <2>3
<1>. QED BY <1>9, <1>10, <1>11

\* A push leaves them agreeing where StoreData knows the newest unit.
LEMMA PushAgree ==
  ASSUME NEW s \in Store, NEW n \in Nat, StoreBelow(s, n), NEW f \in File,
         NEW f2, f2.val = PushContent(s, f),
         NEW v, v.rev = s.max_unit_revision
  PROVE  Agree(v, s, f2)
<1>. SUFFICES ASSUME Unchanged(v, s, f2), NEW u \in Units
              PROVE  AgreeOn(s, f2, u)
  BY DEF Agree
<1>1. s.val # NULL /\ s.rev[u] <= s.max_unit_revision
  BY UnitsUpToMax DEF Unchanged
<1>2. CASE f.val = NULL
  BY <1>2 DEF PushContent, AgreeOn
<1>3. CASE f.val # NULL
  <2>1. f2.val[u] = IF PushedUnit(s, u) THEN s.val[u] ELSE f.val[u]
    BY <1>1, <1>3 DEF PushContent
  <2>2. CASE PushedUnit(s, u)
    BY <2>1, <2>2 DEF AgreeOn
  <2>3. CASE ~PushedUnit(s, u)
    <3>1. /\ s.last_sync_revision # NULL
          /\ ~(s.rev[u] > s.last_sync_revision)
      BY <1>1, <2>3 DEF PushedUnit
    <3>2. s.rev[u] \in Nat /\ s.last_sync_revision \in Nat
      BY <1>1, <3>1 DEF Store
    <3>. QED BY <3>1, <3>2 DEF AgreeOn
  <2>. QED BY <2>2, <2>3
<1>. QED BY <1>2, <1>3

-----------------------------------------------------------------------------
(* Inv, one part for each kind of thing *)

GoodRow(r, n) == r \in Row /\ RowKeeps(r, n)
GoodStore(s, n) == s \in Store /\ StoreBelow(s, n)
GoodRun(h, n) ==
  /\ h \in StagingRun \cup SyncRun \cup {NULL}
  /\ (h # NULL /\ h.op.cmd = "sync") => SyncKeeps(h, n)

RowsInv == \A r \in rows : GoodRow(r, revision)
StoreInv == /\ store \in [Paths -> Store]
            /\ \A p \in Paths : GoodStore(store[p], revision)
SuggestedInv == suggested \in [Paths -> Suggestions]
FileInv == file \in [Paths -> File] /\ clock \in Nat
NumbersInv == revision \in Nat /\ next_pk \in Nat
RunInv == /\ run \in [Procs -> StagingRun \cup SyncRun \cup {NULL}]
          /\ \A c \in Procs : GoodRun(run[c], revision)
Parts == /\ RowsInv /\ StoreInv /\ SuggestedInv /\ FileInv /\ NumbersInv
         /\ RunInv

\* The invariant is its parts.
LEMMA InvIsParts == Inv <=> Parts
BY DEF Inv, TypeOK, MergeHasWinner, Revisions, Syncing, Idle, Suggestions,
       Parts, RowsInv, StoreInv, SuggestedInv, FileInv, NumbersInv, RunInv,
       GoodRow, GoodStore, GoodRun, RowKeeps

\* A row, a Store and a sync stay good while the counter grows.
LEMMA RowGrows ==
  ASSUME NEW m \in Nat, NEW n \in Nat, m <= n, NEW r, GoodRow(r, m)
  PROVE  GoodRow(r, n)
BY DEF GoodRow, RowKeeps, RevBelow, Row

\* A good Store stays good when the revision counter grows.
LEMMA StoreGrows ==
  ASSUME NEW m \in Nat, NEW n \in Nat, m <= n, NEW s, GoodStore(s, m)
  PROVE  GoodStore(s, n)
BY DEF GoodStore, StoreBelow, RevBelow, Store

\* So does what a sync holds,
LEMMA SyncGrows ==
  ASSUME NEW m \in Nat, NEW n \in Nat, m <= n, NEW h \in SyncRun,
         SyncKeeps(h, m)
  PROVE  SyncKeeps(h, n)
<1>1. h \in SyncRun /\ SyncKeeps(h, m)
  OBVIOUS
<1>2. h.at # NULL => RevBelow(h.at.rev, n)
  BY <1>1 DEF SyncRun, At, SyncKeeps, RevBelow
<1>3. ASSUME NEW p \in Paths
      PROVE  RevBelow(h.last_sync[p].rev, n)
  BY <1>1 DEF SyncRun, LastSync, SyncKeeps, RevBelow
<1>4. ASSUME NEW p \in Paths, h.undo[p] # NULL
      PROVE  /\ StoreBelow(h.undo[p].store, n)
             /\ \A r \in h.undo[p].rows : RowKeeps(r, n)
  <2>1. h.undo[p] \in Undo
    BY <1>1, <1>4 DEF SyncRun
  <2>2. GoodStore(h.undo[p].store, m)
        /\ \A r \in h.undo[p].rows : GoodRow(r, m)
    BY <1>1, <1>4, <2>1 DEF Undo, SyncKeeps, GoodStore, GoodRow
  <2>. QED BY <2>2, RowGrows, StoreGrows DEF GoodRow, GoodStore
<1>. QED BY <1>2, <1>3, <1>4 DEF SyncKeeps

\* and what any process holds.
LEMMA RunGrows ==
  ASSUME NEW m \in Nat, NEW n \in Nat, m <= n, NEW h, GoodRun(h, m)
  PROVE  GoodRun(h, n)
<1>1. (h # NULL /\ h.op.cmd = "sync") => h \in SyncRun
  BY DEF GoodRun, StagingRun
<1>. QED BY <1>1, SyncGrows DEF GoodRun

\* What a step leaves alone stays good while the counter grows.
LEMMA Stays ==
  ASSUME Parts, revision' \in Nat, revision <= revision'
  PROVE  /\ rows' = rows => RowsInv'
         /\ store' = store => StoreInv'
         /\ run' = run => RunInv'
<1>. USE DEF Parts, NumbersInv
<1>1. rows' = rows => RowsInv'
  BY RowGrows DEF RowsInv
<1>2. store' = store => StoreInv'
  BY StoreGrows DEF StoreInv
<1>3. run' = run => RunInv'
  BY RunGrows DEF RunInv
<1>. QED BY <1>1, <1>2, <1>3

\* A step of one process on its own run keeps the others good.
LEMMA OneRun ==
  ASSUME Parts, revision' \in Nat, revision <= revision',
         NEW c \in Procs, NEW h, run' = [run EXCEPT ![c] = h],
         GoodRun(h, revision')
  PROVE  RunInv'
<1>1. run' \in [Procs -> StagingRun \cup SyncRun \cup {NULL}]
  BY DEF Parts, RunInv, GoodRun
<1>2. ASSUME NEW d \in Procs
      PROVE  GoodRun(run'[d], revision')
  <2>1. CASE d = c
    BY <2>1 DEF Parts, RunInv
  <2>2. CASE d # c
    BY <2>2, RunGrows DEF Parts, RunInv, NumbersInv
  <2>. QED BY <2>1, <2>2
<1>. QED BY <1>1, <1>2 DEF RunInv

-----------------------------------------------------------------------------
(* Translators, fetches, and Stores that come and go *)

\* An edited Store has the revision of the edit.
LEMMA EditGood ==
  ASSUME NEW s \in Store, NEW n \in Nat, StoreBelow(s, n),
         s.st = "live", s.val # NULL, NEW u \in Units, NEW x \in Vals,
         NEW e, e = [s EXCEPT !.val = [s.val EXCEPT ![u] = x],
                              !.rev = [s.rev EXCEPT ![u] = n + 1]]
  PROVE  /\ GoodStore(UpdateData(e), n + 1) /\ UpdateData(e).val # NULL
         /\ MaxUnitRevision(UpdateData(e)) = n + 1
<1>. DEFINE val2 == [s.val EXCEPT ![u] = x]
            rev2 == [s.rev EXCEPT ![u] = n + 1]
<1>1. s.val \in Content /\ s.rev \in [Units -> Nat]
      /\ \A w \in Units : s.rev[w] <= n
  BY DEF Store, StoreBelow
<1>2. val2 \in Content /\ rev2 \in [Units -> Nat]
  BY <1>1 DEF Content
<1>3. rev2[u] = n + 1 /\ \A w \in Units : rev2[w] <= n + 1
  BY <1>1
<1>4. n + 1 \in Nat /\ e = [s EXCEPT !.val = val2, !.rev = rev2]
  OBVIOUS
<1>. HIDE DEF val2, rev2
<1>5. /\ e \in Store /\ e.st = "live" /\ e.val = val2 /\ e.rev = rev2
      /\ e.last_sync_revision = s.last_sync_revision
  <2>1. val2 # NULL /\ rev2 # NULL
    BY <1>2, NullAssumption
  <2>2. /\ e.st = "live" /\ e.val = val2 /\ e.rev = rev2
        /\ e.last_sync_revision = s.last_sync_revision
        /\ e.max_unit_revision = s.max_unit_revision
    BY <1>4 DEF Store
  <2>3. e \in Store
    BY <1>2, <1>4, <2>1, <2>2 DEF Store
  <2>. QED BY <2>2, <2>3
<1>6. RevBelow(e.last_sync_revision, n + 1)
  BY <1>5 DEF StoreBelow, RevBelow, Store
<1>7. UpdateData(e) \in Store /\ StoreBelow(UpdateData(e), n + 1)
  BY <1>3, <1>4, <1>5, <1>6, UpdateDataKeeps
<1>8. UpdateData(e).val = val2 /\ UpdateData(e).rev = rev2
  BY <1>5 DEF UpdateData, Store
<1>9. val2 # NULL /\ IsNewest(UpdateData(e), u)
  BY <1>2, <1>3, <1>8, NullAssumption DEF IsNewest
<1>10. MaxUnitRevision(UpdateData(e)) = rev2[u]
  BY <1>7, <1>8, <1>9, MaxUnitRevisionOfNewest
<1>. QED BY <1>3, <1>7, <1>8, <1>9, <1>10 DEF GoodStore

\* The Store an edit leaves is good, and its newest unit is the one edited.
LEMMA EditedStore ==
  ASSUME Parts, NEW p \in Paths, NEW u \in Units, NEW x \in Vals,
         EditUnit(p, u, x)
  PROVE  /\ GoodStore(store'[p], revision + 1) /\ store'[p].val # NULL
         /\ MaxUnitRevision(store'[p]) = revision + 1
<1>. DEFINE e == [store[p] EXCEPT !.val[u] = x, !.rev[u] = revision + 1]
<1>1. revision \in Nat
  BY DEF Parts, NumbersInv
<1>2. /\ store[p] \in Store /\ StoreBelow(store[p], revision)
      /\ store[p].val # NULL /\ store[p].st = "live"
  BY DEF Parts, StoreInv, GoodStore, EditUnit
<1>3. store'[p] = UpdateData(e)
  BY DEF EditUnit, Parts, StoreInv
<1>. HIDE DEF e
<1>4. e = [store[p] EXCEPT !.val = [store[p].val EXCEPT ![u] = x],
                           !.rev = [store[p].rev EXCEPT ![u] = revision + 1]]
  BY <1>2 DEF e, Store
<1>5. /\ GoodStore(UpdateData(e), revision + 1) /\ UpdateData(e).val # NULL
      /\ MaxUnitRevision(UpdateData(e)) = revision + 1
  <2>. DEFINE s == store[p]
  <2>1. s \in Store /\ StoreBelow(s, revision) /\ s.val # NULL /\ s.st = "live"
    BY <1>2
  <2>2. e = [s EXCEPT !.val = [s.val EXCEPT ![u] = x],
                      !.rev = [s.rev EXCEPT ![u] = revision + 1]]
    BY <1>4
  <2>. HIDE DEF s
  <2>. QED BY <1>1, <2>1, <2>2, EditGood
<1>. QED BY <1>3, <1>5

\* An edit changes one Store, which stays good.
LEMMA EditUnitParts ==
  ASSUME Parts, NEW p \in Paths, NEW u \in Units, NEW x \in Vals,
         EditUnit(p, u, x)
  PROVE  Parts'
<1>1. /\ revision \in Nat /\ revision' = revision + 1
      /\ rows' = rows /\ run' = run
  BY DEF Parts, NumbersInv, EditUnit
<1>2. /\ \A q \in Paths \ {p} : store'[q] = store[q]
      /\ store' \in [Paths -> {store'[q] : q \in Paths}]
  BY DEF EditUnit, Parts, StoreInv
<1>3. \A q \in Paths : GoodStore(store[q], revision + 1)
  BY <1>1, StoreGrows DEF Parts, StoreInv
<1>4. StoreInv'
  BY <1>1, <1>2, <1>3, EditedStore DEF StoreInv, GoodStore
<1>5. RowsInv' /\ RunInv'
  BY <1>1, Stays
<1>. QED BY <1>1, <1>4, <1>5
         DEF EditUnit, Parts, SuggestedInv, FileInv, NumbersInv

\* A fetch changes files only.
LEMMA FetchParts ==
  ASSUME Parts, NEW p \in Paths,
         RemoveFile(p) \/ \E x \in Content \cup {NULL} : WriteFile(p, x)
  PROVE  Parts'
<1>1. rows' = rows /\ store' = store /\ suggested' = suggested
      /\ revision' = revision /\ next_pk' = next_pk /\ run' = run
  BY DEF RemoveFile, WriteFile
<1>2. FileInv'
  BY DEF RemoveFile, WriteFile, Parts, FileInv, File, NoFile
<1>. QED BY <1>1, <1>2, Stays DEF Parts, NumbersInv, SuggestedInv

\* The rows, Stores and suggestions after a Store is deleted are good.
LEMMA DeleteStoreParts ==
  ASSUME Parts, NEW p \in Paths, DeleteStore(p)
  PROVE  Parts'
<1>1. GoodStore(NoStore, revision)
  BY NullAssumption
  DEF GoodStore, NoStore, Store, StoreBelow, RevBelow, Parts, NumbersInv
<1>2. StoreInv'
  BY <1>1 DEF DeleteStore, Parts, StoreInv, GoodStore
<1>3. ASSUME NEW r \in rows
      PROVE  GoodRow([r EXCEPT !.fk = FALSE, !.base = NULL], revision)
  BY DEF Parts, RowsInv, GoodRow, RowKeeps, HasWinner, Row
<1>4. RowsInv'
  BY <1>3 DEF DeleteStore, Parts, RowsInv
<1>5. SuggestedInv'
  BY DEF DeleteStore, Parts, SuggestedInv, Suggestions
<1>6. RunInv'
  <2>1. revision' = revision /\ run' = run
    BY DEF DeleteStore
  <2>. QED BY <2>1, Stays DEF Parts, NumbersInv
<1>. QED BY <1>2, <1>4, <1>5, <1>6
         DEF DeleteStore, Parts, FileInv, NumbersInv

\* A Store made obsolete is good.
LEMMA ObsoleteGood ==
  ASSUME NEW s, NEW n \in Nat, GoodStore(s, n)
  PROVE  GoodStore(UpdateData([s EXCEPT !.st = "obsolete"]), n)
<1>. DEFINE s2 == [s EXCEPT !.st = "obsolete"]
<1>1. /\ s2 \in Store /\ s2.rev = s.rev
      /\ s2.last_sync_revision = s.last_sync_revision
  BY DEF GoodStore, Store
<1>. HIDE DEF s2
<1>2. GoodStore(UpdateData(s2), n)
  BY <1>1, UpdateDataKeeps DEF GoodStore, StoreBelow
<1>. QED BY <1>2 DEF s2

\* Making a Store obsolete changes that Store only.
LEMMA MakeObsoleteParts ==
  ASSUME Parts, NEW p \in Paths, MakeObsolete(p)
  PROVE  Parts'
<1>1. GoodStore(UpdateData([store[p] EXCEPT !.st = "obsolete"]), revision)
  BY ObsoleteGood DEF Parts, StoreInv, NumbersInv
<1>2. StoreInv'
  BY <1>1 DEF MakeObsolete, Parts, StoreInv, GoodStore
<1>. QED BY <1>2, Stays
         DEF MakeObsolete, Parts, SuggestedInv, FileInv, NumbersInv

\* A created Store is good at the revision its creation ends with.
LEMMA CreateStoreParts ==
  ASSUME Parts, NEW p \in Paths, NEW x \in Content, CreateStore(p, x)
  PROVE  Parts'
<1>. DEFINE o == AddUnits(EmptyStore, {}, x, revision)
<1>1. /\ GoodStore(EmptyStore, revision) /\ EmptyStore.st # "none"
      /\ revision \in Nat
  BY NullAssumption
  DEF GoodStore, EmptyStore, NoStore, Store, StoreBelow, RevBelow, Parts,
      NumbersInv
<1>2. Good(o, revision)
  BY <1>1, AddUnitsGood DEF GoodStore, Suggestions
<1>3. store' = [store EXCEPT ![p] = o.store] /\ revision' = o.revision
  BY DEF CreateStore
<1>. HIDE DEF o
<1>4. GoodStore(o.store, revision') /\ revision' \in Nat /\ revision <= revision'
  BY <1>2, <1>3 DEF Good, GoodStore
<1>5. StoreInv'
  <2>1. \A q \in Paths : GoodStore(store[q], revision')
    BY <1>1, <1>4, StoreGrows DEF Parts, StoreInv
  <2>. QED BY <1>3, <1>4, <2>1 DEF Parts, StoreInv, GoodStore
<1>. QED BY <1>4, <1>5, Stays
         DEF CreateStore, Parts, SuggestedInv, FileInv, NumbersInv

-----------------------------------------------------------------------------
(* What a process sees, and the staging commands *)

\* A process that syncs holds a SyncRun, any other that runs a StagingRun.
LEMMA SyncingRun ==
  ASSUME Parts, NEW c \in Procs, Syncing(c)
  PROVE  run[c] \in SyncRun /\ SyncKeeps(run[c], revision)
BY DEF Parts, RunInv, GoodRun, StagingRun, Syncing, Idle

\* What a rollback brings back is good.
LEMMA UndoGood ==
  ASSUME Parts, NEW c \in Procs, NEW p \in Paths, Locked(c, p)
  PROVE  /\ run[c].undo[p] \in Undo
         /\ GoodStore(run[c].undo[p].store, revision)
         /\ \A r \in run[c].undo[p].rows : GoodRow(r, revision)
<1>1. /\ run[c] \in SyncRun /\ SyncKeeps(run[c], revision)
      /\ run[c].undo[p] # NULL
  BY SyncingRun DEF Locked
<1>2. run[c].undo[p] \in Undo
  BY <1>1 DEF SyncRun
<1>. QED BY <1>1, <1>2 DEF Undo, SyncKeeps, GoodStore, GoodRow

\* What a process sees through the locks of the others is good.
LEMMA ViewGood ==
  ASSUME Parts, NEW c \in Procs
  PROVE  /\ \A r \in View(c).rows : GoodRow(r, revision)
         /\ View(c).store \in [Paths -> Store]
         /\ \A p \in Paths : GoodStore(View(c).store[p], revision)
         /\ View(c).file = file /\ View(c).found \subseteq Paths
<1>1. ASSUME NEW r \in Overwritten(c)
      PROVE  GoodRow(r, revision)
  BY <1>1, UndoGood DEF Overwritten
<1>2. \A r \in View(c).rows : GoodRow(r, revision)
  BY <1>1 DEF View, VisibleRows, Parts, RowsInv
<1>3. ASSUME NEW p \in Paths
      PROVE  GoodStore(View(c).store[p], revision)
  <2>1. CASE LockedByOther(c, p) = {}
    BY <2>1 DEF View, Parts, StoreInv
  <2>2. CASE LockedByOther(c, p) # {}
    <3>1. PICK d \in LockedByOther(c, p) :
            View(c).store[p] = run[d].undo[p].store
      BY <2>2 DEF View
    <3>. QED BY <3>1, UndoGood DEF LockedByOther
  <2>. QED BY <2>1, <2>2
<1>4. View(c).store \in [Paths -> Store]
  <2>1. DOMAIN View(c).store = Paths
        /\ View(c).store = [p \in Paths |-> View(c).store[p]]
    BY DEF View
  <2>. QED BY <1>3, <2>1 DEF GoodStore
<1>. QED BY <1>2, <1>3, <1>4 DEF View, ExistingFiles

\* The state object of a project.
LEMMA StateType ==
  ASSUME NEW v, v.rows \subseteq Row, v.found \subseteq Paths
  PROVE  State(v) \in StateObject
<1>1. ASSUME NEW X \in SUBSET v.rows
      PROVE  Pks(X) \subseteq Pk
  BY <1>1 DEF Pks, Row
<1>2. /\ FsUntracked(v) \subseteq Paths /\ PootleUntracked(v) \subseteq Paths
      /\ ConflictUntracked(v) \subseteq Paths
  BY DEF FsUntracked, PootleUntracked, ConflictUntracked, Trackable
<1>3. /\ Synced(v) \subseteq v.rows /\ Unsynced(v) \subseteq v.rows
      /\ PootleChanged(v) \subseteq v.rows
  BY DEF Synced, Unsynced, PootleChanged
<1>4. /\ Conflict(v) \subseteq v.rows /\ FsAhead(v) \subseteq v.rows
      /\ PootleAhead(v) \subseteq v.rows /\ FsStaged(v) \subseteq v.rows
      /\ PootleStaged(v) \subseteq v.rows /\ FsRemoved(v) \subseteq v.rows
      /\ PootleRemoved(v) \subseteq v.rows /\ BothRemoved(v) \subseteq v.rows
  BY <1>3 DEF Conflict, FsAhead, PootleAhead, FsStaged, PootleStaged,
              FsRemoved, PootleRemoved, BothRemoved
<1>5. /\ Remove(v) \subseteq v.rows /\ MergePootleWins(v) \subseteq v.rows
      /\ MergeFsWins(v) \subseteq v.rows
  BY DEF Remove, MergePootleWins, MergeFsWins
<1>6. /\ Pks(Conflict(v)) \subseteq Pk /\ Pks(FsAhead(v)) \subseteq Pk
      /\ Pks(PootleAhead(v)) \subseteq Pk /\ Pks(FsStaged(v)) \subseteq Pk
      /\ Pks(PootleStaged(v)) \subseteq Pk /\ Pks(FsRemoved(v)) \subseteq Pk
      /\ Pks(PootleRemoved(v)) \subseteq Pk /\ Pks(BothRemoved(v)) \subseteq Pk
      /\ Pks(Remove(v)) \subseteq Pk /\ Pks(MergePootleWins(v)) \subseteq Pk
      /\ Pks(MergeFsWins(v)) \subseteq Pk
  BY <1>1, <1>4, <1>5
<1>. QED BY <1>2, <1>6 DEF State, StateObject

\* A staging command that begins holds the state it was given,
LEMMA StartStagingParts ==
  ASSUME Parts, NEW c \in Procs, NEW op \in Commands, NEW s \in StateObject,
         StartStaging(c, op, s)
  PROVE  Parts'
<1>. PICK h : h = [op |-> op, state |-> s]
  OBVIOUS
<1>1. h \in StagingRun /\ h.op.cmd # "sync"
  BY DEF StartStaging, StagingRun
<1>2. /\ run' = [run EXCEPT ![c] = h] /\ revision' = revision
      /\ rows' = rows /\ store' = store /\ suggested' = suggested
      /\ file' = file /\ clock' = clock /\ next_pk' = next_pk
  BY DEF StartStaging, db
<1>3. RunInv'
  <2>1. GoodRun(h, revision')
    BY <1>1 DEF GoodRun
  <2>2. revision' \in Nat /\ revision <= revision'
    BY <1>2 DEF Parts, NumbersInv
  <2>3. run' = [run EXCEPT ![c] = h]
    BY <1>2
  <2>. QED BY <2>1, <2>2, <2>3, OneRun
<1>. QED BY <1>2, <1>3, Stays DEF Parts, SuggestedInv, FileInv, NumbersInv

\* and the state it takes of what it sees is a StateObject.
LEMMA StateOfView ==
  ASSUME Parts, NEW c \in Procs
  PROVE  State(View(c)) \in StateObject
BY ViewGood, StateType DEF GoodRow
LEMMA BeginStagingParts ==
  ASSUME Parts, NEW c \in Procs, NEW op \in Commands, BeginStaging(c, op)
  PROVE  Parts'
BY StateOfView, StartStagingParts DEF BeginStaging

\* The rows create_store_fs makes are good if the winner fits the merge.
LEMMA CreatedRows ==
  ASSUME NEW v, NEW ps \in SUBSET Paths, NEW rc \in {"none", "pootle", "fs"},
         NEW merge \in BOOLEAN, NEW remove \in BOOLEAN, NEW n,
         merge => rc # "none", next_pk \in Nat
  PROVE  \A r \in create_store_fs(v, ps, rc, merge, remove) : GoodRow(r, n)
<1>. SUFFICES ASSUME NEW p \in ps
              PROVE  GoodRow([pk |-> <<p, next_pk>>, path |-> p,
                              fk |-> v.store[p].st # "none",
                              last_sync_revision |-> NULL,
                              last_sync_hash |-> NULL, base |-> NULL,
                              staged_for_removal |-> remove,
                              staged_for_merge |-> merge,
                              resolve_conflict |-> rc], n)
  BY DEF create_store_fs
<1>. DEFINE r == [pk |-> <<p, next_pk>>, path |-> p,
                  fk |-> v.store[p].st # "none",
                  last_sync_revision |-> NULL,
                  last_sync_hash |-> NULL, base |-> NULL,
                  staged_for_removal |-> remove,
                  staged_for_merge |-> merge, resolve_conflict |-> rc]
<1>1. <<p, next_pk>> \in Pk /\ p = <<p, next_pk>>[1]
  BY DEF Pk
<1>2. r \in Row
  BY <1>1 DEF Row
<1>3. RowKeeps(r, n)
  BY DEF RowKeeps, HasWinner, RevBelow
<1>. QED BY <1>2, <1>3 DEF GoodRow

\* Every staging command makes good rows of good rows.
LEMMA StagedRows ==
  ASSUME NEW R, NEW n, \A r \in R : GoodRow(r, n), next_pk \in Nat,
         NEW v, NEW s \in StateObject, NEW op \in Commands, op.cmd # "sync"
  PROVE  \A r \in Staged(R, v, s, op) : GoodRow(r, n)
<1>. USE DEF GoodRow, RowKeeps, HasWinner
<1>1. CASE op.cmd = "add"
  <2>. DEFINE fs == IF op.force /\ op.update # "pootle"
                    THEN s.pootle_removed ELSE {}
              pootle == IF op.force /\ op.update # "fs"
                        THEN s.fs_removed ELSE {}
              ps == (IF op.update # "fs" THEN s.fs_untracked ELSE {})
                    \cup (IF op.update # "pootle" THEN s.pootle_untracked
                          ELSE {})
              changed(r) == [r EXCEPT !.resolve_conflict =
                               IF r.pk \in fs THEN "fs"
                               ELSE IF r.pk \in pootle THEN "pootle" ELSE @]
  <2>1. Staged(R, v, s, op) = {changed(r) : r \in R}
          \cup create_store_fs(v, ps, "none", FALSE, FALSE)
    BY <1>1 DEF Staged, Add
  <2>2. \A r \in R : GoodRow(changed(r), n)
    <3>. HIDE DEF fs, pootle
    <3>. QED BY DEF Row
  <2>3. ps \subseteq Paths
    BY DEF StateObject
  <2>. HIDE DEF ps, changed
  <2>. QED BY <2>1, <2>2, <2>3, CreatedRows
<1>2. CASE op.cmd = "resolve"
  <2>. DEFINE winner == IF op.pootle_wins THEN "pootle" ELSE "fs"
              changed(r) == IF r.pk \in s.conflict
                            THEN [r EXCEPT !.resolve_conflict = winner,
                                           !.staged_for_merge = @ \/ op.merge]
                            ELSE r
  <2>1. Staged(R, v, s, op) = {changed(r) : r \in R}
          \cup create_store_fs(v, s.conflict_untracked, winner, op.merge, FALSE)
    BY <1>2 DEF Staged, Resolve
  <2>2. op.merge \in BOOLEAN /\ winner \in {"pootle", "fs"}
    BY <1>2, CommandsAssumption DEF Command
  <2>3. \A r \in R : GoodRow(changed(r), n)
    <3>. HIDE DEF winner
    <3>. QED BY <2>2 DEF Row
  <2>4. s.conflict_untracked \subseteq Paths
    BY DEF StateObject
  <2>. HIDE DEF winner, changed
  <2>. QED BY <2>1, <2>2, <2>3, <2>4, CreatedRows
<1>3. CASE op.cmd = "rm"
  <2>. DEFINE update == s.both_removed
                \cup (IF op.update # "pootle" THEN s.pootle_removed ELSE {})
                \cup (IF op.update # "fs" THEN s.fs_removed ELSE {})
                \cup (IF op.force THEN s.conflict ELSE {})
              ps == IF ~op.force THEN {}
                    ELSE s.conflict_untracked
                         \cup (IF op.update # "pootle" THEN s.pootle_untracked
                               ELSE {})
                         \cup (IF op.update # "fs" THEN s.fs_untracked
                               ELSE {})
              changed(r) == [r EXCEPT !.staged_for_removal =
                                        @ \/ r.pk \in update]
  <2>1. Staged(R, v, s, op) = {changed(r) : r \in R}
          \cup create_store_fs(v, ps, "none", FALSE, TRUE)
    BY <1>3 DEF Staged, Rm
  <2>2. \A r \in R : GoodRow(changed(r), n)
    <3>. HIDE DEF update
    <3>. QED BY DEF Row
  <2>3. ps \subseteq Paths
    BY DEF StateObject
  <2>. HIDE DEF ps, changed
  <2>. QED BY <2>1, <2>2, <2>3, CreatedRows
<1>4. CASE op.cmd = "unstage"
  <2>1. \A r \in R : GoodRow([r EXCEPT !.resolve_conflict = "none",
                                       !.staged_for_merge = FALSE,
                                       !.staged_for_removal = FALSE], n)
    BY DEF Row
  <2>. HIDE DEF GoodRow
  <2>. QED BY <1>4, <2>1 DEF Staged, Unstage
<1>. QED BY <1>1, <1>2, <1>3, <1>4, CommandsAssumption DEF Command

\* Staging makes good rows of good rows and touches nothing else.
LEMMA EndStagingParts ==
  ASSUME Parts, NEW c \in Procs, EndStaging(c)
  PROVE  Parts'
<1>. PICK s, op : s = run[c].state /\ op = run[c].op
  OBVIOUS
<1>1. s \in StateObject /\ op \in Commands /\ op.cmd # "sync"
  BY DEF EndStaging, Parts, RunInv, StagingRun, SyncRun, Idle, Syncing
<1>2. /\ rows' = Staged(rows, View(c), s, op)
      /\ run' = [run EXCEPT ![c] = NULL] /\ revision' = revision
      /\ store' = store /\ suggested' = suggested /\ file' = file
      /\ clock' = clock
  BY DEF EndStaging
<1>3. revision \in Nat /\ next_pk \in Nat
  BY DEF Parts, NumbersInv
<1>4. RowsInv'
  <2>1. \A r \in rows : GoodRow(r, revision)
    BY DEF Parts, RowsInv
  <2>2. \A r \in Staged(rows, View(c), s, op) : GoodRow(r, revision)
    BY <1>1, <1>3, <2>1, StagedRows
  <2>. QED BY <1>2, <2>2 DEF RowsInv
<1>5. next_pk' \in Nat
  BY <1>3 DEF EndStaging
<1>6. RunInv'
  <2>1. GoodRun(NULL, revision')
    BY DEF GoodRun
  <2>2. revision' \in Nat /\ revision <= revision'
    BY <1>2, <1>3
  <2>3. run' = [run EXCEPT ![c] = NULL]
    BY <1>2
  <2>. QED BY <2>1, <2>2, <2>3, OneRun
<1>7. StoreInv'
  BY <1>2, <1>3, Stays
<1>. QED BY <1>2, <1>3, <1>4, <1>5, <1>6, <1>7
         DEF Parts, SuggestedInv, FileInv, NumbersInv

-----------------------------------------------------------------------------
(* sync *)

\* A sync that begins has items to do and has overwritten nothing.
LEMMA StartSyncParts ==
  ASSUME Parts, NEW c \in Procs, NEW op \in Commands, NEW s \in StateObject,
         StartSync(c, op, s)
  PROVE  Parts'
<1>. PICK h : h = [op |-> op, todo |-> Todo(s, op.update), at |-> NULL,
                   done |-> {}, last_sync |-> [p \in Paths |-> NotSynced],
                   undo |-> [p \in Paths |-> NULL]]
  OBVIOUS
<1>1. Todo(s, op.update) \subseteq Item
  BY DEF Todo, Item, StateObject
<1>2. [p \in Paths |-> NotSynced] \in [Paths -> LastSync]
      /\ [p \in Paths |-> NULL] \in [Paths -> Undo \cup {NULL}]
  BY DEF NotSynced, LastSync
<1>3. /\ run' = [run EXCEPT ![c] = h] /\ op.cmd = "sync"
      /\ rows' = rows /\ store' = store /\ suggested' = suggested
      /\ file' = file /\ clock' = clock /\ next_pk' = next_pk
      /\ revision' = revision
  BY DEF StartSync, db
<1>4. h \in SyncRun
  BY <1>1, <1>2, <1>3 DEF SyncRun
<1>5. SyncKeeps(h, revision')
  BY DEF SyncKeeps, NotSynced, RevBelow
<1>6. RunInv'
  <2>1. GoodRun(h, revision')
    BY <1>4, <1>5 DEF GoodRun
  <2>2. revision' \in Nat /\ revision <= revision'
    BY <1>3 DEF Parts, NumbersInv
  <2>3. run' = [run EXCEPT ![c] = h]
    BY <1>3
  <2>. QED BY <2>1, <2>2, <2>3, OneRun
<1>. QED BY <1>3, <1>6, Stays DEF Parts, SuggestedInv, FileInv, NumbersInv
LEMMA BeginSyncParts ==
  ASSUME Parts, NEW c \in Procs, NEW op \in Commands, BeginSync(c, op)
  PROVE  Parts'
BY StateOfView, StartSyncParts DEF BeginSync

\* The row an item is about, and what is kept of it for a rollback.
LEMMA RowOfGood ==
  ASSUME Parts, NEW k, Exists(k)
  PROVE  /\ RowOf(k) \in rows /\ RowOf(k).pk = k
         /\ GoodRow(RowOf(k), revision) /\ RowOf(k).path \in Paths
         /\ RowOf(k).path = k[1]
<1>1. \E r \in rows : r.pk = k
  BY DEF Exists, Pks
<1>2. RowOf(k) \in rows /\ RowOf(k).pk = k
  BY <1>1 DEF RowOf
<1>. QED BY <1>2 DEF Parts, RowsInv, GoodRow, Row

\* The undo of a path stays good when one more row is written to,
LEMMA WithRowGood ==
  ASSUME Parts, NEW r, GoodRow(r, revision), NEW old,
         old # NULL => /\ old \in Undo /\ StoreBelow(old.store, revision)
                       /\ \A q \in old.rows : RowKeeps(q, revision)
  PROVE  /\ WithRow(old, r) \in Undo
         /\ StoreBelow(WithRow(old, r).store, revision)
         /\ \A q \in WithRow(old, r).rows : RowKeeps(q, revision)
<1>1. r \in Row /\ RowKeeps(r, revision) /\ r.path \in Paths
  BY DEF GoodRow, Row
<1>2. store[r.path] \in Store /\ StoreBelow(store[r.path], revision)
      /\ suggested[r.path] \in SUBSET (Units \X Vals)
  BY <1>1 DEF Parts, StoreInv, GoodStore, SuggestedInv, Suggestions
<1>3. CASE old = NULL
  <2>1. WithRow(old, r) = [rows |-> {r}, store |-> store[r.path],
                           suggested |-> suggested[r.path]]
    BY <1>3 DEF WithRow
  <2>. QED BY <1>1, <1>2, <2>1 DEF Undo
<1>4. CASE old # NULL /\ r.pk \in Pks(old.rows)
  BY <1>4 DEF WithRow
<1>5. CASE old # NULL /\ r.pk \notin Pks(old.rows)
  <2>1. WithRow(old, r) = [old EXCEPT !.rows = old.rows \cup {r}]
    BY <1>5 DEF WithRow
  <2>2. /\ WithRow(old, r) \in Undo /\ WithRow(old, r).store = old.store
        /\ WithRow(old, r).rows = old.rows \cup {r}
    BY <1>1, <1>5, <2>1 DEF Undo
  <2>. QED BY <1>1, <1>5, <2>2
<1>. QED BY <1>3, <1>4, <1>5

\* and so do all the undos of the process.
LEMMA TouchedGood ==
  ASSUME Parts, NEW c \in Procs, Syncing(c), NEW r, GoodRow(r, revision)
  PROVE  /\ Touched(c, r) \in [Paths -> Undo \cup {NULL}]
         /\ \A p \in Paths : Touched(c, r)[p] # NULL =>
              /\ StoreBelow(Touched(c, r)[p].store, revision)
              /\ \A q \in Touched(c, r)[p].rows : RowKeeps(q, revision)
<1>1. /\ run[c].undo \in [Paths -> Undo \cup {NULL}] /\ r.path \in Paths
      /\ \A p \in Paths : run[c].undo[p] # NULL =>
           /\ StoreBelow(run[c].undo[p].store, revision)
           /\ \A q \in run[c].undo[p].rows : RowKeeps(q, revision)
  BY SyncingRun DEF SyncRun, SyncKeeps, GoodRow, Row
<1>. PICK new : new = WithRow(run[c].undo[r.path], r)
  OBVIOUS
<1>2. /\ new \in Undo /\ StoreBelow(new.store, revision)
      /\ \A q \in new.rows : RowKeeps(q, revision)
  BY <1>1, WithRowGood
<1>3. Touched(c, r) = [run[c].undo EXCEPT ![r.path] = new]
  BY DEF Touched
<1>4. Touched(c, r) \in [Paths -> Undo \cup {NULL}]
  BY <1>1, <1>2, <1>3
<1>5. ASSUME NEW p \in Paths
      PROVE  Touched(c, r)[p] = IF p = r.path THEN new ELSE run[c].undo[p]
  BY <1>1, <1>3
<1>. QED BY <1>1, <1>2, <1>4, <1>5

\* A sync that goes on to a good item with a good undo.
GoodUndo(undo) ==
  /\ undo \in [Paths -> Undo \cup {NULL}]
  /\ \A p \in Paths : undo[p] # NULL =>
       /\ StoreBelow(undo[p].store, revision)
       /\ \A q \in undo[p].rows : RowKeeps(q, revision)
\* A sync that goes on from an item holds what is good.
LEMMA GoOnGood ==
  ASSUME Parts, NEW c \in Procs, Syncing(c), NEW i, NEW at, NEW undo,
         GoOn(c, i, at, undo), GoodUndo(undo),
         revision' \in Nat, revision <= revision',
         at # NULL => at \in At /\ RevBelow(at.rev, revision')
  PROVE  RunInv'
<1>1. /\ run[c] \in SyncRun /\ SyncKeeps(run[c], revision) /\ revision \in Nat
  BY SyncingRun DEF Parts, NumbersInv
<1>2. PICK h : h = [run[c] EXCEPT !.todo = @ \ {i}, !.undo = undo]
  OBVIOUS
<1>3. PICK g : g = [run[c] EXCEPT !.todo = @ \ {i}, !.at = at, !.undo = undo]
  OBVIOUS
<1>4. /\ h \in SyncRun /\ h.at = run[c].at
      /\ h.last_sync = run[c].last_sync /\ h.undo = undo
  BY <1>1, <1>2 DEF SyncRun, GoodUndo
<1>5. /\ g \in SyncRun /\ g.at = at
      /\ g.last_sync = run[c].last_sync /\ g.undo = undo
  BY <1>1, <1>3 DEF SyncRun, GoodUndo
<1>6. SyncKeeps(h, revision)
  BY <1>1, <1>4 DEF SyncKeeps, GoodUndo
<1>7. SyncKeeps(h, revision')
  BY <1>1, <1>4, <1>6, SyncGrows
<1>8. SyncKeeps(g, revision')
  BY <1>4, <1>5, <1>7 DEF SyncKeeps
<1>9. GoodRun(g, revision')
  BY <1>5, <1>8 DEF GoodRun
<1>10. run' = [run EXCEPT ![c] = g]
  BY <1>3 DEF GoOn
<1>. QED BY <1>9, <1>10, OneRun

\* The undos of a sync are good.
LEMMA OldUndoGood ==
  ASSUME Parts, NEW c \in Procs, Syncing(c)
  PROVE  GoodUndo(run[c].undo)
BY SyncingRun DEF GoodUndo, SyncRun, SyncKeeps

\* They are good after the sync has written to a row.
LEMMA TouchedUndoGood ==
  ASSUME Parts, NEW c \in Procs, Syncing(c), NEW r, GoodRow(r, revision)
  PROVE  GoodUndo(Touched(c, r))
BY TouchedGood DEF GoodUndo

\* Skipping an item changes what is left to do.
LEMMA SkipItemParts ==
  ASSUME Parts, NEW c \in Procs, NEW i, SkipItem(c, i)
  PROVE  Parts'
<1>1. /\ rows' = rows /\ store' = store /\ suggested' = suggested
      /\ file' = file /\ clock' = clock /\ next_pk' = next_pk
      /\ revision' = revision /\ revision \in Nat
  BY DEF SkipItem, db, Parts, NumbersInv
<1>2. RunInv'
  <2>1. Syncing(c) /\ GoOn(c, i, NULL, run[c].undo)
    BY DEF SkipItem, CanDo
  <2>. QED BY <1>1, <2>1, OldUndoGood, GoOnGood
<1>. QED BY <1>1, <1>2, Stays DEF Parts, SuggestedInv, FileInv, NumbersInv

\* Removing leaves an obsolete Store and no row.
LEMMA RmItemParts ==
  ASSUME Parts, NEW c \in Procs, NEW i, RmItem(c, i)
  PROVE  Parts'
<1>. PICK r : r = RowOf(i.pk)
  OBVIOUS
<1>1. r \in rows /\ GoodRow(r, revision) /\ r.path \in Paths /\ Syncing(c)
      /\ revision \in Nat
  BY RowOfGood DEF RmItem, CanDo, Parts, NumbersInv
<1>2. /\ rows' = rows \ {r} /\ file' = [file EXCEPT ![r.path] = NoFile]
      /\ store' = IF ~r.fk THEN store
                  ELSE [store EXCEPT
                         ![r.path] = UpdateData([@ EXCEPT !.st = "obsolete"])]
      /\ suggested' = suggested /\ clock' = clock /\ next_pk' = next_pk
      /\ revision' = revision
  BY DEF RmItem
<1>3. GoOn(c, i, NULL, Touched(c, r))
  BY DEF RmItem
<1>4. RowsInv'
  BY <1>2 DEF Parts, RowsInv
<1>5. StoreInv'
  <2>1. GoodStore(UpdateData([store[r.path] EXCEPT !.st = "obsolete"]), revision)
    BY <1>1, ObsoleteGood DEF Parts, StoreInv
  <2>. QED BY <1>1, <1>2, <2>1 DEF Parts, StoreInv, GoodStore
<1>6. FileInv'
  BY <1>1, <1>2 DEF Parts, FileInv, File, NoFile
<1>7. RunInv'
  <2>1. GoodUndo(Touched(c, r))
    BY <1>1, TouchedUndoGood
  <2>2. revision' \in Nat /\ revision <= revision'
    BY <1>1, <1>2
  <2>. QED BY <1>1, <1>3, <2>1, <2>2, GoOnGood
<1>. QED BY <1>2, <1>4, <1>5, <1>6, <1>7
         DEF Parts, SuggestedInv, NumbersInv

\* What PullItem gets from the pull of a file.
LEMMA PullOutcome ==
  ASSUME Parts, NEW r, GoodRow(r, revision), NEW merge \in BOOLEAN,
         NEW wins \in {"pootle", "fs"}, NEW o,
         o = Pull(r, store[r.path], suggested[r.path], file[r.path],
                  merge, wins, revision)
  PROVE  Good(o, revision)
<1>1. r \in Row /\ r.path \in Paths
  BY DEF GoodRow, Row
<1>2. /\ store[r.path] \in Store /\ StoreBelow(store[r.path], revision)
      /\ suggested[r.path] \in Suggestions /\ file[r.path] \in File
      /\ revision \in Nat
  BY <1>1 DEF Parts, StoreInv, GoodStore, SuggestedInv, FileInv, NumbersInv
<1>. QED BY <1>1, <1>2, PullGood

\* A merge or pull leaves a good Store, and its revision is below the counter.
LEMMA PullItemParts ==
  ASSUME Parts, NEW c \in Procs, NEW i \in run[c].todo, PullItem(c, i)
  PROVE  Parts'
<1>. DEFINE r == RowOf(i.pk)
            p == r.path
            merge == i.kind # "pull"
            wins == IF i.kind = "merge_pootle" THEN "pootle" ELSE "fs"
            o == Pull(r, store[p], suggested[p], file[p], merge, wins, revision)
            rev == IF merge THEN o.ret ELSE o.store.max_unit_revision
            undo == IF PullSkipped(r, file[p]) THEN run[c].undo
                    ELSE Touched(c, r)
            at == [pk |-> i.pk,
                   step |-> IF merge /\ run[c].op.update = "all"
                            THEN "push" ELSE "hash",
                   rev |-> rev, base |-> Base(o.store, rev)]
<1>1. /\ rows' = {IF q.pk = i.pk THEN [q EXCEPT !.fk = TRUE] ELSE q : q \in rows}
      /\ store' = [store EXCEPT ![p] = o.store]
      /\ suggested' = [suggested EXCEPT ![p] = o.suggested]
      /\ revision' = o.revision
      /\ file' = file /\ clock' = clock /\ next_pk' = next_pk
  BY DEF PullItem
<1>2. GoOn(c, i, at, undo)
  BY DEF PullItem
<1>3. Syncing(c) /\ Exists(i.pk) /\ revision \in Nat
  BY DEF PullItem, CanDo, Parts, NumbersInv
<1>4. i.pk \in Pk
  BY <1>3, SyncingRun DEF SyncRun, Item
<1>5. r \in rows /\ GoodRow(r, revision) /\ p \in Paths
  BY <1>3, RowOfGood
<1>6. Good(o, revision)
  <2>1. merge \in BOOLEAN /\ wins \in {"pootle", "fs"}
    OBVIOUS
  <2>. HIDE DEF r, merge, wins
  <2>. QED BY <1>5, <2>1, PullOutcome
<1>. HIDE DEF o
<1>7. revision' \in Nat /\ revision <= revision'
  BY <1>1, <1>6 DEF Good
<1>8. RowsInv'
  <2>1. ASSUME NEW q \in rows
        PROVE  /\ GoodRow(q, revision')
               /\ GoodRow([q EXCEPT !.fk = TRUE], revision')
    <3>1. GoodRow(q, revision')
      BY <1>3, <1>7, RowGrows DEF Parts, RowsInv
    <3>. QED BY <3>1 DEF GoodRow, RowKeeps, HasWinner, Row
  <2>. QED BY <1>1, <2>1 DEF RowsInv
<1>9. StoreInv' /\ SuggestedInv'
  <2>1. \A q \in Paths : GoodStore(store[q], revision')
    BY <1>3, <1>7, StoreGrows DEF Parts, StoreInv
  <2>2. GoodStore(o.store, revision') /\ o.suggested \in Suggestions
    BY <1>1, <1>6 DEF Good, GoodStore
  <2>. HIDE DEF p
  <2>. QED BY <1>1, <1>5, <2>1, <2>2
           DEF Parts, StoreInv, SuggestedInv, GoodStore
<1>10. at \in At /\ RevBelow(at.rev, revision')
  <2>1. rev \in Nat \cup {NULL} /\ RevBelow(rev, revision')
        /\ o.store.val \in Content \cup {NULL}
    BY <1>1, <1>6 DEF Good, Store, StoreBelow, RevBelow
  <2>. HIDE DEF rev
  <2>. QED BY <1>4, <2>1 DEF At, Base
<1>11. RunInv'
  <2>1. GoodUndo(undo)
    <3>. HIDE DEF r, p
    <3>. QED BY <1>3, <1>5, OldUndoGood, TouchedUndoGood
  <2>. HIDE DEF undo, at
  <2>. QED BY <1>2, <1>3, <1>7, <1>10, <2>1, GoOnGood
<1>. QED BY <1>1, <1>7, <1>8, <1>9, <1>11 DEF Parts, FileInv, NumbersInv

\* A push writes a file.
LEMMA WriteBackFile ==
  ASSUME Parts, NEW r \in Row, NEW s \in Store, WriteBack(r, s)
  PROVE  FileInv'
<1>1. r.path \in Paths /\ file[r.path] \in File /\ clock \in Nat
      /\ file \in [Paths -> File]
  BY DEF Row, Parts, FileInv
<1>2. PushContent(s, file[r.path]) \in Content \cup {NULL}
  <2>1. /\ s.val \in Content \cup {NULL}
        /\ file[r.path].val \in Content \cup {NULL}
    BY <1>1 DEF Store, File
  <2>2. ASSUME s.val # NULL, file[r.path].val # NULL
        PROVE  [u \in Units |-> IF PushedUnit(s, u) THEN s.val[u]
                                ELSE file[r.path].val[u]] \in Content
    BY <2>1, <2>2 DEF Content
  <2>. QED BY <2>1, <2>2 DEF PushContent
<1>3. [val |-> PushContent(s, file[r.path]), mtime |-> clock] \in File
  BY <1>1, <1>2 DEF File
<1>4. CASE PushSkipped(r, s, file[r.path])
  BY <1>1, <1>4 DEF WriteBack, FileInv
<1>5. CASE ~PushSkipped(r, s, file[r.path])
  BY <1>1, <1>3, <1>5 DEF WriteBack, FileInv
<1>. QED BY <1>4, <1>5

\* A push writes a file and goes by the revision of a good Store.
LEMMA PushItemParts ==
  ASSUME Parts, NEW c \in Procs, NEW i \in run[c].todo, PushItem(c, i)
  PROVE  Parts'
<1>1. PICK r \in View(c).rows :
        /\ WriteBack(r, View(c).store[r.path])
        /\ GoOn(c, i, [pk |-> i.pk, step |-> "hash",
                       rev |-> View(c).store[r.path].max_unit_revision,
                       base |-> View(c).store[r.path].val], run[c].undo)
  BY DEF PushItem
<1>. DEFINE s == View(c).store[r.path]
            at == [pk |-> i.pk, step |-> "hash",
                   rev |-> s.max_unit_revision, base |-> s.val]
<1>2. /\ Syncing(c) /\ revision' = revision /\ revision \in Nat
      /\ rows' = rows /\ store' = store /\ suggested' = suggested
      /\ next_pk' = next_pk
  BY DEF PushItem, CanDo, db, Parts, NumbersInv
<1>3. r \in Row /\ r.path \in Paths
  BY ViewGood DEF GoodRow, Row
<1>4. GoodStore(s, revision)
  BY <1>3, ViewGood
<1>5. i.pk \in Pk
  BY <1>2, SyncingRun DEF SyncRun, Item
<1>. HIDE DEF s
<1>6. FileInv'
  BY <1>1, <1>3, <1>4, WriteBackFile DEF GoodStore, s
<1>7. at \in At /\ RevBelow(at.rev, revision)
  BY <1>4, <1>5 DEF GoodStore, Store, StoreBelow, RevBelow, At
<1>8. RunInv'
  <2>1. GoOn(c, i, at, run[c].undo)
    BY <1>1 DEF s
  <2>. HIDE DEF at
  <2>. QED BY <1>2, <1>7, <2>1, OldUndoGood, GoOnGood
<1>. QED BY <1>2, <1>6, <1>8, Stays DEF Parts, SuggestedInv, NumbersInv

\* So does the push that ends a merge.
LEMMA MergePushParts ==
  ASSUME Parts, NEW c \in Procs, MergePush(c)
  PROVE  Parts'
<1>. DEFINE r == RowOf(run[c].at.pk)
            s == View(c).store[r.path]
            rev == IF PushSkipped(r, s, file[r.path]) THEN NULL
                   ELSE s.max_unit_revision
            at == [pk |-> r.pk, step |-> "hash", rev |-> rev,
                   base |-> Base(s, rev)]
            g == [run[c] EXCEPT !.at = at]
<1>1. /\ Syncing(c) /\ Exists(run[c].at.pk)
      /\ revision' = revision /\ revision \in Nat
      /\ rows' = rows /\ store' = store /\ suggested' = suggested
      /\ next_pk' = next_pk
  BY DEF MergePush, db, Parts, NumbersInv
<1>2. WriteBack(r, s) /\ run' = [run EXCEPT ![c] = g]
  BY DEF MergePush
<1>3. r \in Row /\ r.path \in Paths /\ r.pk \in Pk
  BY <1>1, RowOfGood DEF GoodRow, Row
<1>. HIDE DEF r
<1>4. GoodStore(s, revision)
  BY <1>3, ViewGood
<1>. HIDE DEF s
<1>5. FileInv'
  BY <1>2, <1>3, <1>4, WriteBackFile DEF GoodStore
<1>6. at \in At /\ RevBelow(at.rev, revision)
  BY <1>3, <1>4 DEF GoodStore, Store, StoreBelow, RevBelow, At, Base
<1>. HIDE DEF at
<1>7. GoodRun(g, revision')
  <2>1. run[c] \in SyncRun /\ SyncKeeps(run[c], revision)
    BY <1>1, SyncingRun
  <2>2. /\ g \in SyncRun /\ g.at = at
        /\ g.last_sync = run[c].last_sync /\ g.undo = run[c].undo
    BY <1>6, <2>1 DEF SyncRun
  <2>. HIDE DEF g
  <2>3. SyncKeeps(g, revision)
    BY <1>6, <2>1, <2>2 DEF SyncKeeps
  <2>. QED BY <1>1, <2>2, <2>3 DEF GoodRun
<1>8. RunInv'
  <2>1. revision' \in Nat /\ revision <= revision'
    BY <1>1
  <2>. HIDE DEF g
  <2>. QED BY <1>2, <1>7, <2>1, OneRun
<1>. QED BY <1>1, <1>5, <1>8, Stays DEF Parts, SuggestedInv, NumbersInv

\* Taking the hash notes what the item has set.
LEMMA TakeHashParts ==
  ASSUME Parts, NEW c \in Procs, TakeHash(c)
  PROVE  Parts'
<1>. DEFINE at == run[c].at
            p == at.pk[1]
            last == [rev |-> at.rev, hash |-> file[p].mtime, base |-> at.base]
            g == [run[c] EXCEPT !.at = NULL, !.done = @ \cup {at.pk},
                                !.last_sync[p] = last]
<1>1. /\ Syncing(c) /\ run[c].at # NULL
      /\ revision' = revision /\ revision \in Nat
      /\ rows' = rows /\ store' = store /\ suggested' = suggested
      /\ file' = file /\ clock' = clock /\ next_pk' = next_pk
  BY DEF TakeHash, db, Parts, NumbersInv
<1>2. run' = [run EXCEPT ![c] = g]
  BY DEF TakeHash
<1>3. run[c] \in SyncRun /\ SyncKeeps(run[c], revision)
  BY <1>1, SyncingRun
<1>4. at \in At /\ RevBelow(at.rev, revision)
  BY <1>1, <1>3 DEF SyncRun, SyncKeeps
<1>. HIDE DEF at
<1>5. at.pk \in Pk /\ p \in Paths
  BY <1>4 DEF At, Pk
<1>. HIDE DEF p
<1>6. last \in LastSync /\ last.rev = at.rev
  <2>1. file[p].mtime \in Nat \cup {NULL}
    BY <1>5 DEF Parts, FileInv, File
  <2>. QED BY <1>4, <2>1 DEF LastSync, At
<1>. HIDE DEF last
<1>7. GoodRun(g, revision')
  <2>1. run[c].last_sync \in [Paths -> LastSync] /\ run[c].done \subseteq Pk
    BY <1>3 DEF SyncRun
  <2>2. g = [run[c] EXCEPT !.at = NULL, !.done = run[c].done \cup {at.pk},
                           !.last_sync = [run[c].last_sync EXCEPT ![p] = last]]
    BY <1>3 DEF SyncRun
  <2>3. /\ [run[c].last_sync EXCEPT ![p] = last] \in [Paths -> LastSync]
        /\ run[c].done \cup {at.pk} \subseteq Pk
        /\ \A q \in Paths : RevBelow([run[c].last_sync EXCEPT ![p] = last][q].rev,
                                     revision)
    BY <1>3, <1>4, <1>5, <1>6, <2>1 DEF SyncKeeps
  <2>. HIDE DEF g
  <2>4. /\ g \in SyncRun /\ g.at = NULL /\ g.undo = run[c].undo
        /\ g.last_sync = [run[c].last_sync EXCEPT ![p] = last]
    BY <1>3, <2>2, <2>3 DEF SyncRun
  <2>5. SyncKeeps(g, revision)
    BY <1>3, <2>3, <2>4 DEF SyncKeeps
  <2>. QED BY <1>1, <2>4, <2>5 DEF GoodRun
<1>8. RunInv'
  <2>1. revision' \in Nat /\ revision <= revision'
    BY <1>1
  <2>. HIDE DEF g
  <2>. QED BY <1>2, <1>7, <2>1, OneRun
<1>. QED BY <1>1, <1>8, Stays DEF Parts, SuggestedInv, FileInv, NumbersInv

\* The rows a sync marks as synced are good.
LEMMA EndSyncParts ==
  ASSUME Parts, NEW c \in Procs, EndSync(c)
  PROVE  Parts'
<1>1. /\ Syncing(c) /\ revision' = revision /\ revision \in Nat
      /\ run' = [run EXCEPT ![c] = NULL]
      /\ rows' = {IF r.pk \in run[c].done
                  THEN OnSync(r, run[c].last_sync[r.path]) ELSE r : r \in rows}
      /\ store' = store /\ suggested' = suggested
      /\ file' = file /\ clock' = clock /\ next_pk' = next_pk
  BY DEF EndSync, Parts, NumbersInv
<1>2. ASSUME NEW r \in Row, NEW last \in LastSync, RevBelow(last.rev, revision)
      PROVE  GoodRow(OnSync(r, last), revision)
  BY <1>2 DEF OnSync, GoodRow, RowKeeps, HasWinner, Row, LastSync
<1>3. ASSUME NEW p \in Paths
      PROVE  /\ run[c].last_sync[p] \in LastSync
             /\ RevBelow(run[c].last_sync[p].rev, revision)
  BY <1>1, SyncingRun DEF SyncRun, SyncKeeps
<1>4. RowsInv'
  <2>1. ASSUME NEW r \in rows
        PROVE  /\ GoodRow(r, revision)
               /\ GoodRow(OnSync(r, run[c].last_sync[r.path]), revision)
    <3>1. GoodRow(r, revision) /\ r \in Row /\ r.path \in Paths
      BY DEF Parts, RowsInv, GoodRow, Row
    <3>. QED BY <1>2, <1>3, <3>1
  <2>. QED BY <1>1, <2>1 DEF RowsInv
<1>5. RunInv'
  <2>1. revision' \in Nat /\ revision <= revision' /\ GoodRun(NULL, revision')
    BY <1>1 DEF GoodRun
  <2>2. run' = [run EXCEPT ![c] = NULL]
    BY <1>1
  <2>. QED BY <2>1, <2>2, OneRun
<1>. QED BY <1>1, <1>4, <1>5, Stays DEF Parts, SuggestedInv, FileInv, NumbersInv

\* A rollback brings back what was good when it was overwritten.
LEMMA RollbackParts ==
  ASSUME Parts, NEW c \in Procs, Rollback(c)
  PROVE  Parts'
<1>1. /\ revision' = revision /\ revision \in Nat
      /\ run' = [run EXCEPT ![c] = NULL]
      /\ file' = file /\ clock' = clock /\ next_pk' = next_pk
  BY DEF Rollback, Parts, NumbersInv
<1>2. RowsInv'
  <2>1. \A r \in Overwrote(c) : GoodRow(r, revision)
    BY UndoGood DEF Overwrote
  <2>. QED BY <1>1, <2>1 DEF Rollback, Parts, RowsInv
<1>3. StoreInv' /\ SuggestedInv'
  <2>1. ASSUME NEW p \in Paths
        PROVE  /\ GoodStore(store[p], revision) /\ suggested[p] \in Suggestions
               /\ Locked(c, p) =>
                    /\ GoodStore(run[c].undo[p].store, revision)
                    /\ run[c].undo[p].suggested \in Suggestions
    BY UndoGood DEF Parts, StoreInv, SuggestedInv, Undo, Suggestions
  <2>. QED BY <1>1, <2>1 DEF Rollback, StoreInv, SuggestedInv, GoodStore
<1>4. RunInv'
  <2>1. revision' \in Nat /\ revision <= revision' /\ GoodRun(NULL, revision')
    BY <1>1 DEF GoodRun
  <2>2. run' = [run EXCEPT ![c] = NULL]
    BY <1>1
  <2>. QED BY <2>1, <2>2, OneRun
<1>. QED BY <1>1, <1>2, <1>3, <1>4 DEF Parts, FileInv, NumbersInv

-----------------------------------------------------------------------------
(* The theorems *)

\* The parts of Inv hold in the beginning
LEMMA InitParts == Init => Parts
<1>. SUFFICES ASSUME Init PROVE Parts
  OBVIOUS
<1>1. rows = {} /\ revision = 2 /\ clock = 1 /\ next_pk = 0
      /\ run = [c \in Procs |-> NULL] /\ suggested = [p \in Paths |-> {}]
  BY DEF Init
<1>2. GoodStore(NoStore, 2)
  BY NullAssumption DEF GoodStore, NoStore, Store, StoreBelow, RevBelow
<1>3. ASSUME NEW x \in Content
      PROVE  GoodStore(AddUnits(EmptyStore, {}, x, 0).store, 2)
  <2>1. EmptyStore \in Store /\ StoreBelow(EmptyStore, 0)
        /\ EmptyStore.st # "none"
    BY NullAssumption DEF EmptyStore, NoStore, Store, StoreBelow, RevBelow
  <2>2. Good(AddUnits(EmptyStore, {}, x, 0), 0)
    BY <2>1, AddUnitsGood DEF Suggestions
  <2>3. AddUnits(EmptyStore, {}, x, 0).revision = 2
    BY DEF AddUnits, Outcome
  <2>. QED BY <2>2, <2>3 DEF Good, GoodStore
<1>4. StoreInv
  BY <1>1, <1>2, <1>3 DEF Init, StoreInv, GoodStore
<1>5. FileInv
  BY <1>1 DEF Init, FileInv, File, NoFile
<1>6. RunInv
  BY <1>1 DEF RunInv, GoodRun
<1>. QED BY <1>1, <1>4, <1>5, <1>6
         DEF Parts, RowsInv, SuggestedInv, NumbersInv, Suggestions

\* and every step keeps them.
LEMMA NextParts == Parts /\ [Next]_vars => Parts'
<1>. SUFFICES ASSUME Parts, [Next]_vars PROVE Parts'
  OBVIOUS
<1>1. CASE Environment
  <2>1. PICK p \in Paths :
          \/ \E u \in Units, x \in Vals : EditUnit(p, u, x)
          \/ \E x \in Content : WriteFile(p, x) \/ CreateStore(p, x)
          \/ WriteFile(p, NULL)
          \/ RemoveFile(p) \/ DeleteStore(p) \/ MakeObsolete(p)
    BY <1>1 DEF Environment
  <2>. QED BY <2>1, EditUnitParts, FetchParts, CreateStoreParts,
              DeleteStoreParts, MakeObsoleteParts
<1>2. ASSUME NEW c \in Procs, Begin(c)
      PROVE  Parts'
  BY <1>2, BeginStagingParts, BeginSyncParts DEF Begin
<1>3. ASSUME NEW c \in Procs, Step(c)
      PROVE  Parts'
  <2>1. CASE EndStaging(c)
    BY <2>1, EndStagingParts
  <2>2. ASSUME NEW i \in ToDo(c),
               \/ SkipItem(c, i) \/ RmItem(c, i) \/ PullItem(c, i)
               \/ PushItem(c, i) \/ Crash(c, i)
        PROVE  Parts'
    <3>1. i \in run[c].todo
      BY <2>2 DEF SkipItem, RmItem, PullItem, PushItem, Crash, CanDo
    <3>2. Crash(c, i) => Rollback(c)
      BY DEF Crash
    <3>. QED BY <2>2, <3>1, <3>2, SkipItemParts, RmItemParts, PullItemParts,
                PushItemParts, RollbackParts
  <2>3. CASE MergePush(c) \/ TakeHash(c) \/ EndSync(c)
    BY <2>3, MergePushParts, TakeHashParts, EndSyncParts
  <2>. QED BY <1>3, <2>1, <2>2, <2>3 DEF Step, SyncStep
<1>4. ASSUME NEW c \in Procs, Fail(c)
      PROVE  Parts'
  BY <1>4, RollbackParts DEF Fail
<1>5. CASE UNCHANGED vars
  <2>1. /\ rows' = rows /\ store' = store /\ suggested' = suggested
        /\ file' = file /\ revision' = revision /\ clock' = clock
        /\ next_pk' = next_pk /\ run' = run
    BY <1>5 DEF vars
  <2>. QED BY <2>1, Stays DEF Parts, SuggestedInv, FileInv, NumbersInv
<1>. QED BY <1>1, <1>2, <1>3, <1>4, <1>5 DEF Next

\* Inv holds in every reachable state, whatever the number of processes,
\* paths and units, and with every interleaving, failure and rollback.
THEOREM InvHolds == Spec => []Inv
<1>1. Init => Inv
  BY InitParts, InvIsParts
<1>2. Inv /\ [Next]_vars => Inv'
  <2>1. Inv' <=> Parts'
    BY InvIsParts, PTL
  <2>. QED BY NextParts, InvIsParts, <2>1
<1>. QED BY <1>1, <1>2, PTL DEF Spec

\* Every variable has its type.
THEOREM TypeCorrect == Spec => []TypeOK
<1>1. Inv => TypeOK
  BY DEF Inv
<1>. QED BY <1>1, InvHolds, PTL

\* A row staged for merge names a winner, however the commands interleave.
THEOREM MergesHaveWinners == Spec => []MergeHasWinner
<1>1. Inv => MergeHasWinner
  BY DEF Inv
<1>. QED BY <1>1, InvHolds, PTL

\* No Store and no row gets ahead of the revision counter.
THEOREM RevisionsBelow == Spec => []Revisions
<1>1. Inv => Revisions
  BY DEF Inv
<1>. QED BY <1>1, InvHolds, PTL

\* An edit of a synced Store is always noticed: no sync has written down the
\* revision the edit draws, because no row is ahead of the counter.
THEOREM EditsAreNoticed == Spec => EditNoticed
<1>1. ASSUME Inv, NEW p \in Paths, NEW u \in Units, NEW x \in Vals,
             EditUnit(p, u, x), NEW r \in rows',
             r.path = p, r \in Synced(Now)', Live(Now, r)'
      PROVE  r \in PootleChanged(Now)'
  <2>1. Parts /\ revision \in Nat /\ rows' = rows
    BY <1>1, InvIsParts DEF EditUnit, Parts, NumbersInv
  <2>2. /\ store'[p].val # NULL
        /\ MaxUnitRevision(store'[p]) = revision + 1
    BY <1>1, <2>1, EditedStore
  <2>3. r.last_sync_revision \in Nat /\ r.last_sync_revision <= revision
    <3>1. r.last_sync_revision # NULL
      BY <1>1 DEF Synced
    <3>2. GoodRow(r, revision)
      BY <1>1, <2>1 DEF Parts, RowsInv
    <3>. QED BY <3>1, <3>2 DEF GoodRow, RowKeeps, RevBelow, Row
  <2>4. /\ MaxUnitRevision(store'[r.path]) # r.last_sync_revision
        /\ store'[r.path].val # NULL
    BY <1>1, <2>1, <2>2, <2>3
  <2>. QED BY <1>1, <2>4 DEF PootleChanged, Now
<1>2. Inv => \A p \in Paths, u \in Units, x \in Vals : EditUnit(p, u, x) =>
               \A r \in rows' : r.path = p /\ r \in Synced(Now)' /\ Live(Now, r)'
                                  => r \in PootleChanged(Now)'
  BY <1>1
<1>. QED BY <1>2, InvHolds, PTL DEF EditNoticed

\* A merge loses nothing that either side had changed.
THEOREM MergesLoseNothing == Spec => MergeLosesNothing
<1>1. ASSUME Inv, NEW c \in Procs, NEW i \in ToDo(c), PullItem(c, i),
             i.kind # "pull", HaveUnits(RowOf(i.pk).path),
             ~PullSkipped(RowOf(i.pk), file[RowOf(i.pk).path]), NEW u \in Units
      PROVE  LET r == RowOf(i.pk)
                 p == r.path
                 kept(x) == \/ store'[p].val[u] = x
                            \/ <<u, x>> \in suggested'[p]
                            \/ r.base # NULL /\ r.base[u] = x
             IN kept(store[p].val[u]) /\ kept(file[p].val[u])
  <2>. DEFINE r == RowOf(i.pk)
              p == r.path
              wins == IF i.kind = "merge_pootle" THEN "pootle" ELSE "fs"
              o == Pull(r, store[p], suggested[p], file[p], i.kind # "pull",
                        wins, revision)
  <2>1. Parts /\ Exists(i.pk)
    BY <1>1, InvIsParts DEF PullItem
  <2>2. /\ store' = [store EXCEPT ![p] = o.store]
        /\ suggested' = [suggested EXCEPT ![p] = o.suggested]
    BY <1>1 DEF PullItem
  <2>3. r \in Row /\ p \in Paths
    BY <2>1, RowOfGood DEF GoodRow
  <2>4. /\ store[p] \in Store /\ StoreBelow(store[p], revision)
        /\ suggested[p] \in Suggestions /\ file[p] \in File /\ revision \in Nat
        /\ store \in [Paths -> Store] /\ suggested \in [Paths -> Suggestions]
    BY <2>1, <2>3
    DEF Parts, StoreInv, GoodStore, SuggestedInv, FileInv, NumbersInv
  <2>5. o = Pull(r, store[p], suggested[p], file[p], TRUE, wins, revision)
    BY <1>1
  <2>6. wins \in {"pootle", "fs"}
    OBVIOUS
  <2>7. store[p].val # NULL /\ file[p].val # NULL /\ ~PullSkipped(r, file[p])
    BY <1>1 DEF HaveUnits
  <2>. HIDE DEF r, p, wins, o
  <2>8. /\ Kept(o, r.base, u, store[p].val[u])
        /\ Kept(o, r.base, u, file[p].val[u])
    BY <2>3, <2>4, <2>5, <2>6, <2>7, MergeKeeps
  <2>9. store'[p] = o.store /\ suggested'[p] = o.suggested
    BY <2>2, <2>3, <2>4
  <2>. QED BY <2>8, <2>9 DEF Kept, r, p
<1>2. Inv => \A c \in Procs : \A i \in ToDo(c) :
               PullItem(c, i) /\ i.kind # "pull" =>
                 LET r == RowOf(i.pk)
                     p == r.path
                     kept(u, x) == \/ store'[p].val[u] = x
                                   \/ <<u, x>> \in suggested'[p]
                                   \/ r.base # NULL /\ r.base[u] = x
                 IN HaveUnits(p) /\ ~PullSkipped(r, file[p]) =>
                      \A u \in Units : kept(u, store[p].val[u])
                                       /\ kept(u, file[p].val[u])
  BY <1>1
<1>. QED BY <1>2, InvHolds, PTL DEF MergeLosesNothing

-----------------------------------------------------------------------------
(* Versions.  What a row says was synced last, what a sync will write down,   *)
(* and what a transaction holds back fits the Stores: those that are there,   *)
(* and those a rollback brings back.                                          *)

RowVersion(r) == [rev |-> r.last_sync_revision, base |-> r.base]
StoreVersion(s) == [rev |-> s.max_unit_revision, base |-> s.val]
VersionOf(x) == [rev |-> x.rev, base |-> x.base]
Claims(h, p) ==
  {VersionOf(h.last_sync[p])}
  \cup (IF h.at # NULL /\ h.at.pk[1] = p THEN {VersionOf(h.at)} ELSE {})

\* The version v of p fits what any process other than c would bring back.
FitsHeld(c, p, v) ==
  \A d \in Procs \ {c} : Locked(d, p) => Fits(v, run[d].undo[p].store)

LocksApart ==
  \A c, d \in Procs, p \in Paths : Locked(c, p) /\ Locked(d, p) => c = d
RowsFit ==
  \A r \in rows :
    /\ Fits(RowVersion(r), store[r.path])
    /\ \A c \in Procs : Locked(c, r.path) =>
         Fits(RowVersion(r), run[c].undo[r.path].store)
UndosFit ==
  \A c \in Procs, p \in Paths : Locked(c, p) =>
    /\ Fits(StoreVersion(run[c].undo[p].store), store[p])
    /\ \A r \in run[c].undo[p].rows :
         r.path = p /\ Fits(RowVersion(r), run[c].undo[p].store)
ClaimsFit ==
  \A c \in Procs, p \in Paths : Syncing(c) =>
    \A v \in Claims(run[c], p) : Fits(v, store[p]) /\ FitsHeld(c, p, v)
Versions == LocksApart /\ RowsFit /\ UndosFit /\ ClaimsFit

\* A version that has no revision fits every Store, and so does its own.
LEMMA FitsNull ==
  ASSUME NEW v, v.rev = NULL, v.base = NULL, NEW s \in Store
  PROVE  Fits(v, s)
BY StampsAreNumbers, NullAssumption DEF Fits

\* The version of a Store fits it.
LEMMA FitsOwn ==
  ASSUME NEW v, NEW s, v.base = s.val
  PROVE  Fits(v, s)
BY DEF Fits

\* The versions of rows, Stores and syncs are those the counter has reached.
KnownVersion(v) == v.rev \in Nat \cup {NULL} /\ RevBelow(v.rev, revision)
\* What is there and what the processes hold are such versions.
LEMMA VersionsKnown ==
  ASSUME Parts
  PROVE  /\ \A r \in rows : KnownVersion(RowVersion(r)) /\ r.path \in Paths
         /\ \A p \in Paths : KnownVersion(StoreVersion(store[p]))
         /\ \A c \in Procs, p \in Paths : Locked(c, p) =>
              /\ KnownVersion(StoreVersion(run[c].undo[p].store))
              /\ run[c].undo[p].store \in Store
         /\ \A c \in Procs, p \in Paths : Syncing(c) =>
              \A v \in Claims(run[c], p) : KnownVersion(v)
<1>1. ASSUME NEW r \in rows
      PROVE  KnownVersion(RowVersion(r)) /\ r.path \in Paths
  BY DEF Parts, RowsInv, GoodRow, Row, RowKeeps, KnownVersion, RowVersion
<1>2. ASSUME NEW s, GoodStore(s, revision)
      PROVE  KnownVersion(StoreVersion(s))
  BY <1>2 DEF GoodStore, Store, StoreBelow, StoreVersion, KnownVersion, RevBelow
<1>3. \A p \in Paths : GoodStore(store[p], revision)
  BY DEF Parts, StoreInv
<1>4. ASSUME NEW c \in Procs, NEW p \in Paths, Locked(c, p)
      PROVE  GoodStore(run[c].undo[p].store, revision)
  BY <1>4, UndoGood
<1>5. ASSUME NEW c \in Procs, NEW p \in Paths, Syncing(c),
             NEW v \in Claims(run[c], p)
      PROVE  KnownVersion(v)
  <2>1. run[c] \in SyncRun /\ SyncKeeps(run[c], revision)
    BY <1>5, SyncingRun
  <2>2. /\ run[c].last_sync[p].rev \in Nat \cup {NULL}
        /\ RevBelow(run[c].last_sync[p].rev, revision)
        /\ run[c].at # NULL => /\ run[c].at.rev \in Nat \cup {NULL}
                               /\ RevBelow(run[c].at.rev, revision)
    BY <2>1 DEF SyncRun, SyncKeeps, LastSync, At
  <2>. QED BY <1>5, <2>2 DEF Claims, VersionOf, KnownVersion
<1>. QED BY <1>1, <1>2, <1>3, <1>4, <1>5 DEF GoodStore

\* The Stores that are there or would be brought back, now and next.
StoresThere ==
  \A p \in Paths :
    /\ store[p] \in Store
    /\ \A d \in Procs : Locked(d, p) => run[d].undo[p].store \in Store
\* The Stores that are there, and those held, are Stores before and after.
LEMMA StoresKnown == (Parts => StoresThere) /\ (Parts' => StoresThere')
<1>1. Parts => StoresThere
  BY VersionsKnown DEF Parts, StoreInv, StoresThere
<1>. QED BY <1>1, PTL

-----------------------------------------------------------------------------
(* What a step may do to the locks, the rows and the claims *)

LockStep(d, p) == Locked(d, p)' =>
  \/ /\ Locked(d, p)
     /\ run'[d].undo[p].store = run[d].undo[p].store
     /\ \A r \in run'[d].undo[p].rows :
          r \in run[d].undo[p].rows \/ (r \in rows /\ r.path = p)
  \/ /\ \A e \in Procs : ~Locked(e, p)
     /\ \A e \in Procs \ {d} : ~Locked(e, p)'
     /\ run'[d].undo[p].store = store[p]
     /\ \A r \in run'[d].undo[p].rows : r \in rows /\ r.path = p
RowStep(r) ==
  \/ \E q \in rows : q.path = r.path /\ RowVersion(q) = RowVersion(r)
  \/ r.last_sync_revision = NULL /\ r.base = NULL
  \/ \E c \in Procs : /\ Syncing(c) /\ ~Locked(c, r.path)'
                      /\ RowVersion(r) \in Claims(run[c], r.path)
ClaimStep(c, p, v) ==
  \/ Syncing(c) /\ v \in Claims(run[c], p)
  \/ Fits(v, store'[p]) /\ FitsHeld(c, p, v)'

\* A version that fits what is there fits what comes of it.
LEMMA FitsAfter ==
  ASSUME Parts, Parts', NEW p \in Paths,
         Later(store[p], store'[p], revision),
         NEW v, KnownVersion(v), Fits(v, store[p])
  PROVE  Fits(v, store'[p])
<1>1. store'[p] \in Store /\ revision \in Nat
  BY DEF Parts, StoreInv, NumbersInv
<1>. QED BY <1>1, FitsLater DEF KnownVersion

\* Steps of this kind keep the versions fitting.
LEMMA VersionsStep ==
  ASSUME Parts, Parts', Versions,
         \A p \in Paths : Later(store[p], store'[p], revision),
         \A d \in Procs, p \in Paths : LockStep(d, p),
         \A r \in rows' : RowStep(r),
         \A c \in Procs, p \in Paths : Syncing(c)' =>
           \A v \in Claims(run'[c], p) : ClaimStep(c, p, v)
  PROVE  Versions'
<1>1. LocksApart'
  BY DEF Versions, LocksApart, LockStep
<1>2. ASSUME NEW p \in Paths, NEW c \in Procs, Locked(c, p)',
             NEW v, Fits(v, store[p]),
             Locked(c, p) => Fits(v, run[c].undo[p].store)
      PROVE  Fits(v, run'[c].undo[p].store)
  BY <1>2 DEF LockStep
<1>3. ASSUME NEW r \in rows'
      PROVE  /\ Fits(RowVersion(r), store'[r.path])
             /\ \A c \in Procs : Locked(c, r.path)' =>
                  Fits(RowVersion(r), run'[c].undo[r.path].store)
  <2>1. RowStep(r) /\ r.path \in Paths
    BY VersionsKnown DEF Parts, RowsInv, GoodRow, Row
  <2>2. CASE \E q \in rows : q.path = r.path /\ RowVersion(q) = RowVersion(r)
    <3>1. PICK q \in rows : q.path = r.path /\ RowVersion(q) = RowVersion(r)
      BY <2>2
    <3>2. /\ Fits(RowVersion(r), store[r.path]) /\ KnownVersion(RowVersion(r))
          /\ \A c \in Procs : Locked(c, r.path) =>
               Fits(RowVersion(r), run[c].undo[r.path].store)
      BY <3>1, VersionsKnown DEF Versions, RowsFit
    <3>. QED BY <1>2, <2>1, <3>2, FitsAfter
  <2>3. CASE r.last_sync_revision = NULL /\ r.base = NULL
    <3>1. \A s \in Store : Fits(RowVersion(r), s)
      BY <2>3, FitsNull DEF RowVersion
    <3>2. store'[r.path] \in Store
      BY <2>1 DEF Parts, StoreInv
    <3>3. \A c \in Procs : Locked(c, r.path)' =>
            run'[c].undo[r.path].store \in Store
      <4>1. ASSUME NEW c \in Procs, Locked(c, r.path)'
            PROVE  run'[c].undo[r.path].store \in Store
        <5>1. Locked(c, r.path) => run[c].undo[r.path].store \in Store
          BY <2>1, VersionsKnown
        <5>2. store[r.path] \in Store
          BY <2>1 DEF Parts, StoreInv
        <5>. QED BY <2>1, <4>1, <5>1, <5>2 DEF LockStep
      <4>. QED BY <4>1
    <3>. QED BY <3>1, <3>2, <3>3
  <2>4. CASE \E c \in Procs : /\ Syncing(c) /\ ~Locked(c, r.path)'
                              /\ RowVersion(r) \in Claims(run[c], r.path)
    <3>1. PICK c \in Procs : /\ Syncing(c) /\ ~Locked(c, r.path)'
                             /\ RowVersion(r) \in Claims(run[c], r.path)
      BY <2>4
    <3>2. /\ Fits(RowVersion(r), store[r.path])
          /\ FitsHeld(c, r.path, RowVersion(r)) /\ KnownVersion(RowVersion(r))
      BY <2>1, <3>1, VersionsKnown DEF Versions, ClaimsFit
    <3>3. ASSUME NEW d \in Procs, Locked(d, r.path)'
          PROVE  Fits(RowVersion(r), run'[d].undo[r.path].store)
      BY <1>2, <2>1, <3>1, <3>2, <3>3 DEF FitsHeld
    <3>. QED BY <2>1, <3>2, <3>3, FitsAfter
  <2>. QED BY <2>1, <2>2, <2>3, <2>4 DEF RowStep
<1>4. ASSUME NEW c \in Procs, NEW p \in Paths, Locked(c, p)'
      PROVE  /\ Fits(StoreVersion(run'[c].undo[p].store), store'[p])
             /\ \A r \in run'[c].undo[p].rows :
                  r.path = p /\ Fits(RowVersion(r), run'[c].undo[p].store)
  <2>1. CASE /\ Locked(c, p)
             /\ run'[c].undo[p].store = run[c].undo[p].store
             /\ \A r \in run'[c].undo[p].rows :
                  r \in run[c].undo[p].rows \/ (r \in rows /\ r.path = p)
    <3>1. /\ Fits(StoreVersion(run[c].undo[p].store), store[p])
          /\ KnownVersion(StoreVersion(run[c].undo[p].store))
      BY <2>1, VersionsKnown DEF Versions, UndosFit
    <3>2. ASSUME NEW r \in run'[c].undo[p].rows
          PROVE  r.path = p /\ Fits(RowVersion(r), run[c].undo[p].store)
      BY <2>1 DEF Versions, UndosFit, RowsFit
    <3>. QED BY <2>1, <3>1, <3>2, FitsAfter
  <2>2. CASE /\ run'[c].undo[p].store = store[p]
             /\ \A r \in run'[c].undo[p].rows : r \in rows /\ r.path = p
    <3>1. /\ Fits(StoreVersion(store[p]), store[p])
          /\ KnownVersion(StoreVersion(store[p]))
      BY VersionsKnown, FitsOwn DEF StoreVersion
    <3>2. ASSUME NEW r \in run'[c].undo[p].rows
          PROVE  r.path = p /\ Fits(RowVersion(r), store[p])
      BY <2>2 DEF Versions, RowsFit
    <3>. QED BY <2>2, <3>1, <3>2, FitsAfter
  <2>. QED BY <1>4, <2>1, <2>2 DEF LockStep
<1>5. ASSUME NEW c \in Procs, NEW p \in Paths, Syncing(c)',
             NEW v \in Claims(run'[c], p)
      PROVE  Fits(v, store'[p]) /\ FitsHeld(c, p, v)'
  <2>1. CASE Syncing(c) /\ v \in Claims(run[c], p)
    <3>1. Fits(v, store[p]) /\ FitsHeld(c, p, v) /\ KnownVersion(v)
      BY <2>1, VersionsKnown DEF Versions, ClaimsFit
    <3>2. FitsHeld(c, p, v)'
      BY <1>2, <3>1 DEF FitsHeld
    <3>. QED BY <3>1, <3>2, FitsAfter
  <2>. QED BY <1>5, <2>1 DEF ClaimStep
<1>6. RowsFit'
  BY <1>3 DEF RowsFit
<1>7. UndosFit'
  BY <1>4 DEF UndosFit
<1>8. ClaimsFit'
  BY <1>5 DEF ClaimsFit
<1>. QED BY <1>1, <1>6, <1>7, <1>8 DEF Versions

-----------------------------------------------------------------------------
(* The steps of translators and fetches *)

\* A step that changes no row and no process.
LEMMA SameRows ==
  ASSUME rows' = rows
  PROVE  \A r \in rows' : RowStep(r)
BY DEF RowStep

\* What a process keeps of its locks and claims while it does nothing.
LEMMA SameRun ==
  ASSUME NEW c \in Procs, run'[c] = run[c]
  PROVE  /\ \A p \in Paths : LockStep(c, p)
         /\ \A p \in Paths : Syncing(c)' =>
              \A v \in Claims(run'[c], p) : ClaimStep(c, p, v)
<1>1. \A p \in Paths : LockStep(c, p)
  BY DEF LockStep, Locked, Syncing, Idle
<1>2. Syncing(c)' => Syncing(c)
  BY DEF Syncing, Idle
<1>. QED BY <1>1, <1>2 DEF ClaimStep

\* A step of translators or fetches that makes Stores later.
LEMMA OutsideVersions ==
  ASSUME Parts, Parts', Versions, rows' = rows, run' = run,
         \A p \in Paths : Later(store[p], store'[p], revision)
  PROVE  Versions'
BY SameRows, SameRun, VersionsStep

\* A Store is a Store after an edit.
LEMMA EditedInStore ==
  ASSUME Parts, NEW p \in Paths, NEW u \in Units, NEW x \in Vals,
         EditUnit(p, u, x)
  PROVE  [store[p] EXCEPT !.val[u] = x, !.rev[u] = revision + 1] \in Store
<1>. DEFINE s == store[p]
            val2 == [s.val EXCEPT ![u] = x]
            rev2 == [s.rev EXCEPT ![u] = revision + 1]
<1>1. revision \in Nat /\ s \in Store /\ s.val # NULL /\ s.st = "live"
  BY DEF Parts, NumbersInv, StoreInv, GoodStore, EditUnit
<1>2. s.val \in Content /\ s.rev \in [Units -> Nat]
  BY <1>1 DEF Store
<1>3. val2 \in Content /\ rev2 \in [Units -> Nat]
  BY <1>1, <1>2 DEF Content
<1>. HIDE DEF val2, rev2
<1>4. [s EXCEPT !.val = val2, !.rev = rev2] \in Store
  BY <1>1, <1>3, NullAssumption DEF Store
<1>. QED BY <1>1, <1>4 DEF val2, rev2, Store

\* An edit gives the Store a revision drawn just now.
LEMMA EditUnitVersions ==
  ASSUME Parts, Versions, NEW p \in Paths, NEW u \in Units, NEW x \in Vals,
         EditUnit(p, u, x)
  PROVE  Versions'
<1>1. Parts' /\ revision \in Nat
  BY EditUnitParts DEF Parts, NumbersInv
<1>2. /\ store'[p] \in Store /\ store'[p].val # NULL
      /\ MaxUnitRevision(store'[p]) = revision + 1
  BY EditedStore DEF GoodStore
<1>3. Later(store[p], store'[p], revision)
  <2>. DEFINE e == [store[p] EXCEPT !.val[u] = x, !.rev[u] = revision + 1]
  <2>1. store'[p] = UpdateData(e)
    BY DEF EditUnit, Parts, StoreInv
  <2>2. e \in Store
    BY EditedInStore
  <2>. HIDE DEF e
  <2>3. Stamps(store'[p]) = {MaxUnitRevision(e)}
    BY <2>1, <2>2, StampsOfUpdated
  <2>4. MaxUnitRevision(store'[p]) \in Stamps(store'[p])
    BY DEF Stamps
  <2>. QED BY <1>1, <1>2, <2>3, <2>4 DEF Later
<1>4. \A q \in Paths : Later(store[q], store'[q], revision)
  BY <1>3, LaterSame DEF EditUnit, Parts, StoreInv
<1>5. rows' = rows /\ run' = run
  BY DEF EditUnit
<1>. QED BY <1>1, <1>4, <1>5, OutsideVersions

\* A fetch changes no Store.
LEMMA FetchVersions ==
  ASSUME Parts, Versions, NEW p \in Paths,
         RemoveFile(p) \/ \E x \in Content \cup {NULL} : WriteFile(p, x)
  PROVE  Versions'
<1>1. rows' = rows /\ run' = run /\ store' = store
  BY DEF RemoveFile, WriteFile
<1>. QED BY <1>1, FetchParts, LaterSame, OutsideVersions

\* A Store made obsolete keeps its units.
LEMMA ObsoleteLater ==
  ASSUME NEW s \in Store, NEW n
  PROVE  Later(s, UpdateData([s EXCEPT !.st = "obsolete"]), n)
<1>. DEFINE s2 == [s EXCEPT !.st = "obsolete"]
<1>1. s2 \in Store /\ s2.val = s.val /\ s2.rev = s.rev
  BY DEF Store
<1>. HIDE DEF s2
<1>2. Later(s, UpdateData(s2), n)
  BY <1>1, LaterUpdated
<1>. QED BY <1>2 DEF s2

\* So making one obsolete keeps every version fitting.
LEMMA MakeObsoleteVersions ==
  ASSUME Parts, Versions, NEW p \in Paths, MakeObsolete(p)
  PROVE  Versions'
<1>1. store[p] \in Store /\ store[p].st # "none" /\ Parts'
  BY MakeObsoleteParts DEF MakeObsolete, Parts, StoreInv
<1>2. \A q \in Paths : Later(store[q], store'[q], revision)
  BY <1>1, ObsoleteLater, LaterSame DEF MakeObsolete, Parts, StoreInv
<1>3. rows' = rows /\ run' = run
  BY DEF MakeObsolete
<1>. QED BY <1>1, <1>2, <1>3, OutsideVersions

\* A created Store has units that nobody has synced.
LEMMA CreateStoreVersions ==
  ASSUME Parts, Versions, NEW p \in Paths, NEW x \in Content, CreateStore(p, x)
  PROVE  Versions'
<1>1. EmptyStore \in Store /\ EmptyStore.st # "none"
      /\ revision \in Nat /\ Parts'
  BY CreateStoreParts, NullAssumption
  DEF EmptyStore, NoStore, Store, Parts, NumbersInv
<1>2. Later(store[p], AddUnits(EmptyStore, {}, x, revision).store, revision)
  BY <1>1, AddUnitsLater
<1>3. \A q \in Paths : Later(store[q], store'[q], revision)
  BY <1>2, LaterSame DEF CreateStore, Parts, StoreInv
<1>4. rows' = rows /\ run' = run
  BY DEF CreateStore
<1>. QED BY <1>1, <1>3, <1>4, OutsideVersions

\* A Store that is deleted while nobody syncs leaves rows without a version
\* of their own: base is what the submissions of the Store give.
LEMMA DeleteStoreVersions ==
  ASSUME Parts, Versions, NEW p \in Paths, DeleteStore(p), ~AnySync
  PROVE  Versions'
<1>1. /\ rows' = {IF r.path = p THEN [r EXCEPT !.fk = FALSE, !.base = NULL]
                  ELSE r : r \in rows}
      /\ store' = [store EXCEPT ![p] = NoStore] /\ run' = run
  BY DEF DeleteStore
<1>2. /\ \A c \in Procs : ~Syncing(c) /\ ~Syncing(c)'
      /\ \A c \in Procs, q \in Paths : ~Locked(c, q)'
  BY <1>1 DEF AnySync, Syncing, Idle, Locked
<1>3. ASSUME NEW r \in rows
      PROVE  LET r2 == IF r.path = p THEN [r EXCEPT !.fk = FALSE, !.base = NULL]
                       ELSE r
             IN Fits(RowVersion(r2), store'[r2.path])
  <2>1. CASE r.path = p
    <3>. DEFINE r2 == [r EXCEPT !.fk = FALSE, !.base = NULL]
    <3>1. p \in Paths /\ r2.path = p /\ RowVersion(r2).base = NULL
      BY <2>1 DEF RowVersion, Parts, RowsInv, GoodRow, Row
    <3>2. store'[p] = NoStore /\ NoStore.val = NULL
      BY <1>1 DEF Parts, StoreInv, NoStore
    <3>. HIDE DEF r2
    <3>3. Fits(RowVersion(r2), store'[r2.path])
      BY <3>1, <3>2 DEF Fits
    <3>. QED BY <2>1, <3>3 DEF r2
  <2>2. CASE r.path # p
    <3>1. store'[r.path] = store[r.path]
      BY <1>1, <2>2, VersionsKnown DEF Parts, StoreInv
    <3>. QED BY <2>2, <3>1 DEF Versions, RowsFit
  <2>. QED BY <2>1, <2>2
<1>4. RowsFit'
  <2>1. \A r \in rows' : Fits(RowVersion(r), store'[r.path])
    BY <1>1, <1>3
  <2>2. \A r \in rows' : r.path \in Paths
    BY DeleteStoreParts DEF Parts, RowsInv, GoodRow, Row
  <2>. QED BY <1>2, <2>1, <2>2 DEF RowsFit
<1>. QED BY <1>2, <1>4 DEF Versions, LocksApart, UndosFit, ClaimsFit

-----------------------------------------------------------------------------
(* The steps of the processes *)

\* A step of one process that overwrites nothing and claims nothing.
LEMMA IdleVersions ==
  ASSUME Parts, Parts', Versions, NEW c \in Procs, store' = store,
         \A d \in Procs \ {c} : run'[d] = run[d],
         \A r \in rows' : RowStep(r),
         \A p \in Paths : LockStep(c, p),
         \A p \in Paths : Syncing(c)' =>
           \A v \in Claims(run'[c], p) : ClaimStep(c, p, v)
  PROVE  Versions'
<1>1. \A p \in Paths : Later(store[p], store'[p], revision)
  BY LaterSame
<1>2. \A d \in Procs, p \in Paths : LockStep(d, p)
  BY SameRun
<1>3. \A d \in Procs, p \in Paths : Syncing(d)' =>
        \A v \in Claims(run'[d], p) : ClaimStep(d, p, v)
  BY SameRun
<1>. QED BY <1>1, <1>2, <1>3, VersionsStep

\* A staging command starts without locks or claims,
LEMMA BeginStagingVersions ==
  ASSUME Parts, Versions, NEW c \in Procs, NEW op \in Commands,
         BeginStaging(c, op)
  PROVE  Versions'
<1>1. /\ run' = [run EXCEPT ![c] = [op |-> op, state |-> State(View(c))]]
      /\ op.cmd # "sync" /\ rows' = rows /\ store' = store
  BY DEF BeginStaging, StartStaging, db
<1>2. /\ \A d \in Procs \ {c} : run'[d] = run[d]
      /\ run'[c] = [op |-> op, state |-> State(View(c))]
  BY <1>1 DEF Parts, RunInv
<1>3. ~Syncing(c)'
  BY <1>1, <1>2 DEF Syncing
<1>4. \A p \in Paths : LockStep(c, p)
  BY <1>3 DEF LockStep, Locked
<1>. QED BY <1>1, <1>2, <1>3, <1>4, BeginStagingParts, SameRows, IdleVersions

\* and a sync with the claims of nothing synced.
LEMMA BeginSyncVersions ==
  ASSUME Parts, Versions, NEW c \in Procs, NEW op \in Commands, BeginSync(c, op)
  PROVE  Versions'
<1>. DEFINE h == [op |-> op, todo |-> Todo(State(View(c)), op.update),
                  at |-> NULL, done |-> {},
                  last_sync |-> [p \in Paths |-> NotSynced],
                  undo |-> [p \in Paths |-> NULL]]
<1>1. run' = [run EXCEPT ![c] = h] /\ rows' = rows /\ store' = store
  BY DEF BeginSync, StartSync, db
<1>2. (\A d \in Procs \ {c} : run'[d] = run[d]) /\ run'[c] = h
  BY <1>1 DEF Parts, RunInv
<1>3. /\ \A p \in Paths : h.undo[p] = NULL /\ h.last_sync[p] = NotSynced
      /\ h.at = NULL
  OBVIOUS
<1>. HIDE DEF h
<1>4. Parts'
  BY BeginSyncParts
<1>5. \A p \in Paths : LockStep(c, p)
  BY <1>2, <1>3 DEF LockStep, Locked
<1>6. ASSUME NEW p \in Paths, NEW v \in Claims(run'[c], p)
      PROVE  ClaimStep(c, p, v)
  <2>1. v.rev = NULL /\ v.base = NULL
    BY <1>2, <1>3, <1>6 DEF Claims, VersionOf, NotSynced
  <2>2. /\ store'[p] \in Store
        /\ \A d \in Procs : Locked(d, p)' => run'[d].undo[p].store \in Store
    BY <1>4, StoresKnown DEF StoresThere
  <2>. QED BY <2>1, <2>2, FitsNull DEF ClaimStep, FitsHeld
<1>. QED BY <1>1, <1>2, <1>4, <1>5, <1>6, SameRows, IdleVersions

\* Staging changes no version and no hash of a row, and a row it makes has none.
SameVersion(r, R) ==
  \/ \E q \in R : /\ q.path = r.path /\ RowVersion(q) = RowVersion(r)
                  /\ q.last_sync_hash = r.last_sync_hash
  \/ r.last_sync_revision = NULL /\ r.base = NULL /\ r.last_sync_hash = NULL
\* Rows that a staging command creates have nothing synced.
LEMMA CreatedVersions ==
  ASSUME NEW v, NEW ps, NEW rc, NEW merge, NEW remove, NEW R
  PROVE  \A r \in create_store_fs(v, ps, rc, merge, remove) : SameVersion(r, R)
BY DEF create_store_fs, SameVersion

\* Every staging command keeps the versions.
LEMMA StagedVersions ==
  ASSUME NEW R \in SUBSET Row, NEW v, NEW s, NEW op \in Commands,
         op.cmd # "sync"
  PROVE  \A r \in Staged(R, v, s, op) : SameVersion(r, R)
<1>1. ASSUME NEW q \in R, NEW rc, NEW merge, NEW remove
      PROVE  /\ SameVersion(q, R)
             /\ SameVersion([q EXCEPT !.resolve_conflict = rc], R)
             /\ SameVersion([q EXCEPT !.resolve_conflict = rc,
                                      !.staged_for_merge = merge], R)
             /\ SameVersion([q EXCEPT !.staged_for_removal = remove], R)
             /\ SameVersion([q EXCEPT !.resolve_conflict = rc,
                                      !.staged_for_merge = merge,
                                      !.staged_for_removal = remove], R)
  BY DEF SameVersion, RowVersion, Row
<1>2. CASE op.cmd = "add"
  <2>. DEFINE fs == IF op.force /\ op.update # "pootle"
                    THEN s.pootle_removed ELSE {}
              pootle == IF op.force /\ op.update # "fs"
                        THEN s.fs_removed ELSE {}
              ps == (IF op.update # "fs" THEN s.fs_untracked ELSE {})
                    \cup (IF op.update # "pootle" THEN s.pootle_untracked
                          ELSE {})
              changed(r) == [r EXCEPT !.resolve_conflict =
                               IF r.pk \in fs THEN "fs"
                               ELSE IF r.pk \in pootle THEN "pootle" ELSE @]
  <2>1. Staged(R, v, s, op) = {changed(r) : r \in R}
          \cup create_store_fs(v, ps, "none", FALSE, FALSE)
    BY <1>2 DEF Staged, Add
  <2>2. \A r \in R : SameVersion(changed(r), R)
    <3>. HIDE DEF fs, pootle
    <3>. QED BY <1>1
  <2>. HIDE DEF ps, changed
  <2>. QED BY <2>1, <2>2, CreatedVersions
<1>3. CASE op.cmd = "resolve"
  <2>. DEFINE winner == IF op.pootle_wins THEN "pootle" ELSE "fs"
              changed(r) == IF r.pk \in s.conflict
                            THEN [r EXCEPT !.resolve_conflict = winner,
                                           !.staged_for_merge = @ \/ op.merge]
                            ELSE r
  <2>1. Staged(R, v, s, op) = {changed(r) : r \in R}
          \cup create_store_fs(v, s.conflict_untracked, winner, op.merge, FALSE)
    BY <1>3 DEF Staged, Resolve
  <2>2. \A r \in R : SameVersion(changed(r), R)
    <3>. HIDE DEF winner
    <3>. QED BY <1>1
  <2>. HIDE DEF winner, changed
  <2>. QED BY <2>1, <2>2, CreatedVersions
<1>4. CASE op.cmd = "rm"
  <2>. DEFINE update == s.both_removed
                \cup (IF op.update # "pootle" THEN s.pootle_removed ELSE {})
                \cup (IF op.update # "fs" THEN s.fs_removed ELSE {})
                \cup (IF op.force THEN s.conflict ELSE {})
              ps == IF ~op.force THEN {}
                    ELSE s.conflict_untracked
                         \cup (IF op.update # "pootle" THEN s.pootle_untracked
                               ELSE {})
                         \cup (IF op.update # "fs" THEN s.fs_untracked
                               ELSE {})
              changed(r) == [r EXCEPT !.staged_for_removal =
                                        @ \/ r.pk \in update]
  <2>1. Staged(R, v, s, op) = {changed(r) : r \in R}
          \cup create_store_fs(v, ps, "none", FALSE, TRUE)
    BY <1>4 DEF Staged, Rm
  <2>2. \A r \in R : SameVersion(changed(r), R)
    <3>. HIDE DEF update
    <3>. QED BY <1>1
  <2>. HIDE DEF ps, changed
  <2>. QED BY <2>1, <2>2, CreatedVersions
<1>5. CASE op.cmd = "unstage"
  <2>1. Staged(R, v, s, op) = Unstage(R, s)
    BY <1>5 DEF Staged
  <2>2. ASSUME NEW r \in Unstage(R, s)
        PROVE  \E q \in R :
                 \/ r = q
                 \/ r = [q EXCEPT !.resolve_conflict = "none",
                                  !.staged_for_merge = FALSE,
                                  !.staged_for_removal = FALSE]
    BY <2>2 DEF Unstage
  <2>3. ASSUME NEW q \in R
        PROVE  /\ SameVersion(q, R)
               /\ SameVersion([q EXCEPT !.resolve_conflict = "none",
                                        !.staged_for_merge = FALSE,
                                        !.staged_for_removal = FALSE], R)
    BY <1>1
  <2>4. \A r \in Unstage(R, s) : SameVersion(r, R)
    BY <2>2, <2>3
  <2>. QED BY <2>1, <2>4
<1>. QED BY <1>2, <1>3, <1>4, <1>5, CommandsAssumption DEF Command

\* So staging keeps the versions fitting.
LEMMA EndStagingVersions ==
  ASSUME Parts, Versions, NEW c \in Procs, EndStaging(c)
  PROVE  Versions'
<1>1. /\ rows' = Staged(rows, View(c), run[c].state, run[c].op)
      /\ run' = [run EXCEPT ![c] = NULL] /\ store' = store
  BY DEF EndStaging
<1>2. run[c].op \in Commands /\ run[c].op.cmd # "sync"
  BY DEF EndStaging, Parts, RunInv, StagingRun, SyncRun, Idle, Syncing
<1>3. rows \in SUBSET Row
  BY DEF Parts, RowsInv, GoodRow
<1>4. \A r \in rows' : RowStep(r)
  BY <1>1, <1>2, <1>3, StagedVersions DEF SameVersion, RowStep
<1>5. /\ \A d \in Procs \ {c} : run'[d] = run[d]
      /\ ~Syncing(c)'
  BY <1>1 DEF Parts, RunInv, Syncing, Idle
<1>6. \A p \in Paths : LockStep(c, p)
  BY <1>5 DEF LockStep, Locked
<1>. QED BY <1>1, <1>4, <1>5, <1>6, EndStagingParts, IdleVersions

-----------------------------------------------------------------------------
(* The steps of a sync *)

\* A sync that goes on keeps what it has claimed and holds what it held, and
\* the row it has written to.
LEMMA GoOnVersions ==
  ASSUME Parts, Parts', Versions, NEW c \in Procs, Syncing(c),
         NEW i, NEW at, NEW undo, GoOn(c, i, at, undo),
         \/ undo = run[c].undo
         \/ \E r \in rows : undo = Touched(c, r) /\ FreeFor(c, r.path),
         \A p \in Paths : Later(store[p], store'[p], revision),
         \A r \in rows' : RowStep(r),
         at # NULL => /\ Fits(VersionOf(at), store'[at.pk[1]])
                      /\ FitsHeld(c, at.pk[1], VersionOf(at))'
  PROVE  Versions'
<1>1. /\ \A d \in Procs \ {c} : run'[d] = run[d]
      /\ run[c] \in SyncRun
      /\ run'[c] = [run[c] EXCEPT !.todo = @ \ {i}, !.at = at, !.undo = undo]
  BY SyncingRun DEF GoOn, Parts, RunInv
<1>2. /\ run'[c].at = at /\ run'[c].undo = undo
      /\ run'[c].last_sync = run[c].last_sync
  BY <1>1 DEF SyncRun
<1>3. ASSUME NEW p \in Paths
      PROVE  LockStep(c, p)
  <2>1. CASE undo[p] = run[c].undo[p]
    BY <1>2, <2>1 DEF LockStep, Locked
  <2>2. CASE undo[p] # run[c].undo[p]
    <3>1. PICK r \in rows : undo = Touched(c, r) /\ FreeFor(c, r.path)
      BY <2>2
    <3>2. /\ run[c].undo \in [Paths -> Undo \cup {NULL}] /\ r.path \in Paths
      BY <1>1, VersionsKnown DEF SyncRun
    <3>3. p = r.path /\ undo[p] = WithRow(run[c].undo[p], r)
      BY <2>2, <3>1, <3>2 DEF Touched
    <3>4. \A e \in Procs \ {c} : ~Locked(e, p) /\ ~Locked(e, p)'
      BY <1>1, <3>1, <3>3 DEF FreeFor, Locked, Syncing, Idle
    <3>5. CASE run[c].undo[p] = NULL
      <4>1. undo[p] = [rows |-> {r}, store |-> store[p],
                       suggested |-> suggested[p]]
        BY <3>3, <3>5 DEF WithRow
      <4>2. ~Locked(c, p)
        BY <3>5 DEF Locked
      <4>. QED BY <1>2, <3>3, <3>4, <4>1, <4>2 DEF LockStep
    <3>6. CASE run[c].undo[p] # NULL
      <4>1. Locked(c, p) /\ run[c].undo[p] \in Undo
        BY <3>2, <3>6 DEF Locked
      <4>2. /\ undo[p].store = run[c].undo[p].store
            /\ \A q \in undo[p].rows : q \in run[c].undo[p].rows \/ q = r
        BY <3>3, <3>6, <4>1 DEF WithRow, Undo
      <4>. QED BY <1>2, <3>3, <4>1, <4>2 DEF LockStep
    <3>. QED BY <3>5, <3>6
  <2>. QED BY <2>1, <2>2
<1>4. ASSUME NEW p \in Paths, NEW v \in Claims(run'[c], p)
      PROVE  ClaimStep(c, p, v)
  <2>1. CASE v = VersionOf(run[c].last_sync[p])
    BY <2>1 DEF ClaimStep, Claims
  <2>2. CASE at # NULL /\ at.pk[1] = p /\ v = VersionOf(at)
    BY <2>2 DEF ClaimStep
  <2>. QED BY <1>2, <1>4, <2>1, <2>2 DEF Claims
<1>5. \A d \in Procs, p \in Paths : LockStep(d, p)
  BY <1>1, <1>3, SameRun
<1>6. \A d \in Procs, p \in Paths : Syncing(d)' =>
        \A v \in Claims(run'[d], p) : ClaimStep(d, p, v)
  BY <1>1, <1>4, SameRun
<1>. QED BY <1>5, <1>6, VersionsStep

\* An item whose row is gone is passed over.
LEMMA SkipItemVersions ==
  ASSUME Parts, Versions, NEW c \in Procs, NEW i, SkipItem(c, i)
  PROVE  Versions'
<1>1. /\ Syncing(c) /\ GoOn(c, i, NULL, run[c].undo)
      /\ rows' = rows /\ store' = store
  BY DEF SkipItem, CanDo, db
<1>2. \A p \in Paths : Later(store[p], store'[p], revision)
  BY <1>1, LaterSame
<1>. QED BY <1>1, <1>2, SkipItemParts, SameRows, GoOnVersions

\* Removing a row leaves an obsolete Store, which it keeps for a rollback.
LEMMA RmItemVersions ==
  ASSUME Parts, Versions, NEW c \in Procs, NEW i, RmItem(c, i)
  PROVE  Versions'
<1>. PICK r : r = RowOf(i.pk)
  OBVIOUS
<1>1. /\ Syncing(c) /\ FreeFor(c, i.pk[1]) /\ Exists(i.pk)
      /\ GoOn(c, i, NULL, Touched(c, r))
      /\ rows' = rows \ {r}
      /\ store' = IF ~r.fk THEN store
                  ELSE [store EXCEPT
                         ![r.path] = UpdateData([@ EXCEPT !.st = "obsolete"])]
  BY DEF RmItem, CanDo
<1>2. r \in rows /\ r.path = i.pk[1] /\ r.path \in Paths
  BY <1>1, RowOfGood
<1>3. \A p \in Paths : Later(store[p], store'[p], revision)
  <2>1. Later(store[r.path],
              UpdateData([store[r.path] EXCEPT !.st = "obsolete"]), revision)
    BY <1>2, ObsoleteLater DEF Parts, StoreInv
  <2>. QED BY <1>1, <1>2, <2>1, LaterSame DEF Parts, StoreInv
<1>4. \A q \in rows' : RowStep(q)
  BY <1>1 DEF RowStep
<1>5. \E q \in rows : Touched(c, r) = Touched(c, q) /\ FreeFor(c, q.path)
  BY <1>1, <1>2
<1>6. Parts'
  BY RmItemParts
<1>. QED BY <1>1, <1>3, <1>4, <1>5, <1>6, GoOnVersions

\* A pull or a merge claims the units it leaves in the Store.
LEMMA PullItemVersions ==
  ASSUME Parts, Versions, NEW c \in Procs, NEW i \in run[c].todo, PullItem(c, i)
  PROVE  Versions'
<1>. DEFINE r == RowOf(i.pk)
            p == r.path
            merge == i.kind # "pull"
            wins == IF i.kind = "merge_pootle" THEN "pootle" ELSE "fs"
            o == Pull(r, store[p], suggested[p], file[p], merge, wins, revision)
            rev == IF merge THEN o.ret ELSE o.store.max_unit_revision
            undo == IF PullSkipped(r, file[p]) THEN run[c].undo
                    ELSE Touched(c, r)
<1>. PICK at : at = [pk |-> i.pk,
                     step |-> IF merge /\ run[c].op.update = "all"
                              THEN "push" ELSE "hash",
                     rev |-> rev, base |-> Base(o.store, rev)]
  OBVIOUS
<1>1. /\ rows' = {IF q.pk = i.pk THEN [q EXCEPT !.fk = TRUE] ELSE q : q \in rows}
      /\ store' = [store EXCEPT ![p] = o.store]
      /\ Syncing(c) /\ FreeFor(c, i.pk[1]) /\ Exists(i.pk)
  BY DEF PullItem, CanDo
<1>2. GoOn(c, i, at, undo)
  BY DEF PullItem
<1>3. r \in rows /\ r \in Row /\ p \in Paths /\ p = i.pk[1]
  BY <1>1, RowOfGood DEF GoodRow
<1>4. Parts'
  BY PullItemParts
<1>5. \A q \in Paths : Later(store[q], store'[q], revision)
  <2>1. merge \in BOOLEAN /\ wins \in {"pootle", "fs"}
    OBVIOUS
  <2>2. /\ store[p] \in Store /\ StoreBelow(store[p], revision)
        /\ file[p] \in File /\ revision \in Nat
    BY <1>3 DEF Parts, StoreInv, GoodStore, FileInv, NumbersInv
  <2>3. Later(store[p], o.store, revision)
    <3>. HIDE DEF r, p, merge, wins
    <3>. QED BY <1>3, <2>1, <2>2, PullLater
  <2>. HIDE DEF o, p
  <2>. QED BY <1>1, <1>3, <2>3, LaterSame DEF Parts, StoreInv
<1>6. \A q \in rows' : RowStep(q)
  <2>1. ASSUME NEW q \in rows
        PROVE  /\ [q EXCEPT !.fk = TRUE].path = q.path
               /\ RowVersion([q EXCEPT !.fk = TRUE]) = RowVersion(q)
    BY DEF RowVersion, Parts, RowsInv, GoodRow, Row
  <2>. QED BY <1>1, <2>1 DEF RowStep
<1>7. \/ undo = run[c].undo
      \/ \E q \in rows : undo = Touched(c, q) /\ FreeFor(c, q.path)
  BY <1>1, <1>3
<1>8. /\ Fits(VersionOf(at), store'[at.pk[1]])
      /\ FitsHeld(c, at.pk[1], VersionOf(at))'
  <2>1. store'[p] = o.store /\ o.store \in Store
    <3>. HIDE DEF o, p
    <3>. QED BY <1>1, <1>3, <1>4 DEF Parts, StoreInv
  <2>2. VersionOf(at).rev = rev /\ VersionOf(at).base = Base(o.store, rev)
        /\ at.pk = i.pk
    BY DEF VersionOf
  <2>. HIDE DEF o, rev
  <2>3. Fits(VersionOf(at), o.store)
    BY <2>1, <2>2, FitsNull, FitsOwn DEF Base
  <2>4. \A d \in Procs \ {c} : run'[d] = run[d]
    BY <1>2 DEF GoOn, Parts, RunInv
  <2>5. \A d \in Procs \ {c} : ~(Syncing(d)' /\ run'[d].undo[i.pk[1]] # NULL)
    BY <1>1, <2>4 DEF FreeFor, Locked, Syncing, Idle
  <2>6. FitsHeld(c, at.pk[1], VersionOf(at))'
    BY <2>2, <2>5 DEF FitsHeld, Locked
  <2>. QED BY <1>3, <2>1, <2>2, <2>3, <2>6
<1>. HIDE DEF undo
<1>. QED BY <1>1, <1>2, <1>4, <1>5, <1>6, <1>7, <1>8, GoOnVersions

\* What a process sees of a path fits, with the revision StoreData has for it,
\* the Store that is there and the ones that rollbacks would bring back.
LEMMA SeenFits ==
  ASSUME Parts, Versions, NEW c \in Procs, NEW p \in Paths,
         NEW v, v.base = View(c).store[p].val,
         v.rev = View(c).store[p].max_unit_revision
  PROVE  Fits(v, store[p]) /\ FitsHeld(c, p, v)
<1>1. CASE LockedByOther(c, p) = {}
  <2>1. View(c).store[p] = store[p]
    BY <1>1 DEF View
  <2>2. \A d \in Procs \ {c} : ~Locked(d, p)
    BY <1>1 DEF LockedByOther
  <2>. QED BY <2>1, <2>2, FitsOwn DEF FitsHeld
<1>2. CASE LockedByOther(c, p) # {}
  <2>1. PICK d \in LockedByOther(c, p) :
          View(c).store[p] = run[d].undo[p].store
    BY <1>2 DEF View
  <2>2. d \in Procs /\ Locked(d, p)
    BY <2>1 DEF LockedByOther
  <2>3. Fits(v, store[p])
    <3>1. Fits(StoreVersion(run[d].undo[p].store), store[p])
      BY <2>2 DEF Versions, UndosFit
    <3>. QED BY <2>1, <3>1 DEF Fits, StoreVersion
  <2>4. ASSUME NEW e \in Procs \ {c}, Locked(e, p)
        PROVE  Fits(v, run[e].undo[p].store)
    <3>1. e = d
      BY <2>2, <2>4 DEF Versions, LocksApart
    <3>. QED BY <2>1, <3>1, FitsOwn
  <2>. QED BY <2>3, <2>4 DEF FitsHeld
<1>. QED BY <1>1, <1>2

\* A push claims what it has seen.
LEMMA PushItemVersions ==
  ASSUME Parts, Versions, NEW c \in Procs, NEW i \in run[c].todo, PushItem(c, i)
  PROVE  Versions'
<1>1. PICK r \in View(c).rows :
        /\ r.pk = i.pk
        /\ GoOn(c, i, [pk |-> i.pk, step |-> "hash",
                       rev |-> View(c).store[r.path].max_unit_revision,
                       base |-> View(c).store[r.path].val], run[c].undo)
  BY DEF PushItem
<1>. PICK at : at = [pk |-> i.pk, step |-> "hash",
                     rev |-> View(c).store[r.path].max_unit_revision,
                     base |-> View(c).store[r.path].val]
  OBVIOUS
<1>2. /\ Syncing(c) /\ rows' = rows /\ store' = store
      /\ GoOn(c, i, at, run[c].undo)
  BY <1>1 DEF PushItem, CanDo, db
<1>3. r.path \in Paths /\ r.path = at.pk[1]
  BY <1>1, ViewGood DEF GoodRow, Row
<1>4. Fits(VersionOf(at), store[at.pk[1]])
      /\ FitsHeld(c, at.pk[1], VersionOf(at))
  <2>1. /\ VersionOf(at).rev = View(c).store[r.path].max_unit_revision
        /\ VersionOf(at).base = View(c).store[r.path].val
    BY DEF VersionOf
  <2>. QED BY <1>3, <2>1, SeenFits
<1>5. FitsHeld(c, at.pk[1], VersionOf(at))'
  <2>1. \A d \in Procs \ {c} : run'[d] = run[d]
    BY <1>2 DEF GoOn, Parts, RunInv
  <2>. QED BY <1>4, <2>1 DEF FitsHeld, Locked, Syncing, Idle
<1>6. \A p \in Paths : Later(store[p], store'[p], revision)
  BY <1>2, LaterSame
<1>. QED BY <1>2, <1>4, <1>5, <1>6, PushItemParts, SameRows, GoOnVersions

\* So does the push that ends a merge.
LEMMA MergePushVersions ==
  ASSUME Parts, Versions, NEW c \in Procs, MergePush(c)
  PROVE  Versions'
<1>. DEFINE r == RowOf(run[c].at.pk)
            s == View(c).store[r.path]
            rev == IF PushSkipped(r, s, file[r.path]) THEN NULL
                   ELSE s.max_unit_revision
<1>. PICK at : at = [pk |-> r.pk, step |-> "hash", rev |-> rev,
                     base |-> Base(s, rev)]
  OBVIOUS
<1>1. /\ Syncing(c) /\ Exists(run[c].at.pk) /\ rows' = rows /\ store' = store
      /\ run' = [run EXCEPT ![c].at = at]
  BY DEF MergePush, db
<1>2. /\ \A d \in Procs \ {c} : run'[d] = run[d]
      /\ run'[c] = [run[c] EXCEPT !.at = at] /\ run[c] \in SyncRun
  BY <1>1, SyncingRun DEF Parts, RunInv
<1>3. /\ run'[c].at = at /\ run'[c].undo = run[c].undo
      /\ run'[c].last_sync = run[c].last_sync
  BY <1>2 DEF SyncRun
<1>4. r.path \in Paths /\ at.pk[1] = r.path /\ r.path = run[c].at.pk[1]
  BY <1>1, RowOfGood
<1>5. Parts'
  BY MergePushParts
<1>6. Fits(VersionOf(at), store'[r.path]) /\ FitsHeld(c, at.pk[1], VersionOf(at))'
  <2>1. VersionOf(at).rev = rev /\ VersionOf(at).base = Base(s, rev)
    BY DEF VersionOf
  <2>2. CASE rev = NULL
    <3>1. \A t \in Store : Fits(VersionOf(at), t)
      BY <2>1, <2>2, FitsNull DEF Base
    <3>2. \A d \in Procs, q \in Paths :
            Locked(d, q)' => run'[d].undo[q].store \in Store
      BY <1>5, StoresKnown DEF StoresThere
    <3>3. store'[r.path] \in Store
      BY <1>4, <1>5 DEF Parts, StoreInv
    <3>. QED BY <1>4, <3>1, <3>2, <3>3 DEF FitsHeld
  <2>3. CASE rev # NULL
    <3>1. /\ VersionOf(at).rev = s.max_unit_revision
          /\ VersionOf(at).base = s.val
      BY <2>1, <2>3 DEF Base
    <3>2. Fits(VersionOf(at), store[r.path]) /\ FitsHeld(c, r.path, VersionOf(at))
      BY <1>4, <3>1, SeenFits
    <3>3. FitsHeld(c, at.pk[1], VersionOf(at))
      BY <1>4, <3>2
    <3>4. FitsHeld(c, at.pk[1], VersionOf(at))'
      BY <1>2, <3>3 DEF FitsHeld, Locked, Syncing, Idle
    <3>. QED BY <1>1, <3>2, <3>4
  <2>. QED BY <2>2, <2>3
<1>7. \A p \in Paths : LockStep(c, p)
  BY <1>1, <1>3 DEF LockStep, Locked
<1>8. ASSUME NEW p \in Paths, NEW v \in Claims(run'[c], p)
      PROVE  ClaimStep(c, p, v)
  <2>1. CASE v = VersionOf(run[c].last_sync[p])
    BY <1>1, <2>1 DEF ClaimStep, Claims
  <2>2. CASE at.pk[1] = p /\ v = VersionOf(at)
    BY <1>4, <1>6, <2>2 DEF ClaimStep
  <2>. QED BY <1>3, <1>8, <2>1, <2>2 DEF Claims
<1>. QED BY <1>1, <1>2, <1>5, <1>7, <1>8, SameRows, IdleVersions

\* Taking the hash notes down a claim that was there.
LEMMA TakeHashVersions ==
  ASSUME Parts, Versions, NEW c \in Procs, TakeHash(c)
  PROVE  Versions'
<1>. PICK at, p, hash : /\ at = run[c].at /\ p = at.pk[1]
                        /\ hash = file[at.pk[1]].mtime
  OBVIOUS
<1>. PICK last : last = [rev |-> at.rev, hash |-> hash, base |-> at.base]
  OBVIOUS
<1>1. /\ Syncing(c) /\ at # NULL /\ rows' = rows /\ store' = store
      /\ run' = [run EXCEPT ![c].at = NULL, ![c].done = @ \cup {at.pk},
                            ![c].last_sync[p] = last]
  BY DEF TakeHash, db
<1>2. /\ \A d \in Procs \ {c} : run'[d] = run[d]
      /\ run'[c] = [run[c] EXCEPT !.at = NULL, !.done = run[c].done \cup {at.pk},
                                  !.last_sync =
                                    [run[c].last_sync EXCEPT ![p] = last]]
      /\ run[c] \in SyncRun
  BY <1>1, SyncingRun DEF Parts, RunInv, SyncRun
<1>3. /\ run'[c].at = NULL /\ run'[c].undo = run[c].undo
      /\ \A q \in Paths : run'[c].last_sync[q]
                            = IF q = p THEN last ELSE run[c].last_sync[q]
  BY <1>2 DEF SyncRun
<1>4. \A q \in Paths : LockStep(c, q)
  BY <1>1, <1>3 DEF LockStep, Locked
<1>5. ASSUME NEW q \in Paths, NEW v \in Claims(run'[c], q)
      PROVE  ClaimStep(c, q, v)
  <2>1. v = VersionOf(run'[c].last_sync[q])
    BY <1>3, <1>5 DEF Claims
  <2>2. VersionOf(last) = VersionOf(at)
    BY DEF VersionOf
  <2>3. /\ VersionOf(run[c].last_sync[q]) \in Claims(run[c], q)
        /\ q = p => VersionOf(at) \in Claims(run[c], q)
    BY <1>1 DEF Claims
  <2>4. v \in Claims(run[c], q)
    BY <1>3, <2>1, <2>2, <2>3
  <2>. QED BY <1>1, <2>4 DEF ClaimStep
<1>. QED BY <1>1, <1>2, <1>4, <1>5, TakeHashParts, SameRows, IdleVersions

\* A sync that ends writes its claims to the rows and gives up its locks.
LEMMA EndSyncVersions ==
  ASSUME Parts, Versions, NEW c \in Procs, EndSync(c)
  PROVE  Versions'
<1>1. /\ Syncing(c) /\ store' = store /\ run' = [run EXCEPT ![c] = NULL]
      /\ rows' = {IF r.pk \in run[c].done
                  THEN OnSync(r, run[c].last_sync[r.path]) ELSE r : r \in rows}
  BY DEF EndSync
<1>2. (\A d \in Procs \ {c} : run'[d] = run[d]) /\ ~Syncing(c)'
  BY <1>1 DEF Parts, RunInv, Syncing, Idle
<1>3. \A p \in Paths : LockStep(c, p) /\ ~Locked(c, p)'
  BY <1>2 DEF LockStep, Locked
<1>4. ASSUME NEW r \in rows'
      PROVE  RowStep(r)
  <2>1. PICK q \in rows :
          r = IF q.pk \in run[c].done THEN OnSync(q, run[c].last_sync[q.path])
              ELSE q
    BY <1>1, <1>4
  <2>2. q.path \in Paths /\ q \in Row
    BY DEF Parts, RowsInv, GoodRow, Row
  <2>3. CASE r = q
    BY <2>3 DEF RowStep
  <2>4. CASE r = OnSync(q, run[c].last_sync[q.path])
    <3>1. /\ r.path = q.path
          /\ RowVersion(r) = VersionOf(run[c].last_sync[r.path])
      BY <2>2, <2>4 DEF OnSync, RowVersion, VersionOf, Row
    <3>2. RowVersion(r) \in Claims(run[c], r.path)
      BY <3>1 DEF Claims
    <3>3. ~Locked(c, r.path)'
      BY <1>3, <2>2, <3>1
    <3>. QED BY <1>1, <3>2, <3>3 DEF RowStep
  <2>. QED BY <2>1, <2>3, <2>4
<1>6. Parts'
  BY EndSyncParts
<1>. QED BY <1>1, <1>2, <1>3, <1>4, <1>6, IdleVersions

\* A rollback brings back the Stores and rows that fitted each other when they
\* were overwritten.
LEMMA RollbackVersions ==
  ASSUME Parts, Versions, NEW c \in Procs, Rollback(c)
  PROVE  Versions'
<1>1. /\ rows' = {r \in rows : r.pk \notin Pks(Overwrote(c))} \cup Overwrote(c)
      /\ \A p \in Paths : store'[p] = IF Locked(c, p) THEN run[c].undo[p].store
                                      ELSE store[p]
      /\ run' = [run EXCEPT ![c] = NULL]
  BY DEF Rollback
<1>2. (\A d \in Procs \ {c} : run'[d] = run[d]) /\ ~Syncing(c)'
  BY <1>1 DEF Parts, RunInv, Syncing, Idle
<1>3. ASSUME NEW d \in Procs, NEW p \in Paths, Locked(d, p)'
      PROVE  /\ d # c /\ Locked(d, p) /\ run'[d] = run[d]
             /\ ~Locked(c, p) /\ store'[p] = store[p]
  <2>1. d # c
    BY <1>2, <1>3 DEF Locked
  <2>2. Locked(d, p) /\ run'[d] = run[d]
    BY <1>2, <1>3, <2>1 DEF Locked, Syncing, Idle
  <2>3. ~Locked(c, p)
    BY <2>1, <2>2 DEF Versions, LocksApart
  <2>. QED BY <1>1, <2>1, <2>2, <2>3
<1>4. LocksApart'
  <2>1. \A d, e \in Procs, p \in Paths : Locked(d, p)' /\ Locked(e, p)' => d = e
    BY <1>3 DEF Versions, LocksApart
  <2>. QED BY <2>1 DEF LocksApart
<1>5. ASSUME NEW r \in rows'
      PROVE  /\ r.path \in Paths /\ Fits(RowVersion(r), store'[r.path])
             /\ \A d \in Procs : Locked(d, r.path)' =>
                  Fits(RowVersion(r), run'[d].undo[r.path].store)
  <2>1. CASE r \in rows
    <3>1. /\ r.path \in Paths /\ Fits(RowVersion(r), store[r.path])
          /\ \A d \in Procs : Locked(d, r.path) =>
               Fits(RowVersion(r), run[d].undo[r.path].store)
      BY <2>1, VersionsKnown DEF Versions, RowsFit
    <3>. QED BY <1>1, <1>3, <3>1
  <2>2. CASE r \in Overwrote(c)
    <3>1. PICK p \in Paths : Locked(c, p) /\ r \in run[c].undo[p].rows
      BY <2>2 DEF Overwrote
    <3>2. r.path = p /\ Fits(RowVersion(r), run[c].undo[p].store)
      BY <3>1 DEF Versions, UndosFit
    <3>3. \A d \in Procs : ~Locked(d, p)'
      BY <1>3, <3>1
    <3>. QED BY <1>1, <3>1, <3>2, <3>3
  <2>. QED BY <1>1, <2>1, <2>2
<1>6. RowsFit'
  BY <1>5 DEF RowsFit
<1>7. UndosFit'
  <2>1. ASSUME NEW d \in Procs, NEW p \in Paths, Locked(d, p)'
        PROVE  /\ Fits(StoreVersion(run'[d].undo[p].store), store'[p])
               /\ \A r \in run'[d].undo[p].rows :
                    r.path = p /\ Fits(RowVersion(r), run'[d].undo[p].store)
    BY <1>3, <2>1 DEF Versions, UndosFit
  <2>. QED BY <2>1 DEF UndosFit
<1>8. ClaimsFit'
  <2>1. ASSUME NEW d \in Procs, NEW p \in Paths, Syncing(d)',
               NEW v \in Claims(run'[d], p)
        PROVE  /\ Fits(v, store'[p])
               /\ \A e \in Procs \ {d} : Locked(e, p)' =>
                    Fits(v, run'[e].undo[p].store)
    <3>1. d # c /\ Syncing(d) /\ run'[d] = run[d]
      BY <1>2, <2>1 DEF Syncing, Idle
    <3>2. /\ Fits(v, store[p])
          /\ \A e \in Procs \ {d} : Locked(e, p) =>
               Fits(v, run[e].undo[p].store)
      BY <2>1, <3>1 DEF Versions, ClaimsFit, FitsHeld
    <3>. QED BY <1>1, <1>3, <3>1, <3>2
  <2>. QED BY <2>1 DEF ClaimsFit, FitsHeld
<1>. QED BY <1>4, <1>6, <1>7, <1>8 DEF Versions

-----------------------------------------------------------------------------
(* Edits are never hidden *)

\* In the beginning there are no rows and no syncs.
LEMMA InitVersions == Init => Versions
BY DEF Init, Versions, LocksApart, RowsFit, UndosFit, ClaimsFit, Locked,
       Syncing, Idle

\* Unless a Store is deleted under a sync, every step keeps the versions.
LEMMA NextVersions ==
  ASSUME "delete_in_sync" \notin Hazards
  PROVE  Parts /\ Versions /\ [Next]_vars => Versions'
<1>. SUFFICES ASSUME Parts, Versions, [Next]_vars PROVE Versions'
  OBVIOUS
<1>1. CASE Environment
  <2>1. PICK p \in Paths :
          \/ \E u \in Units, x \in Vals : EditUnit(p, u, x)
          \/ \E x \in Content : WriteFile(p, x) \/ CreateStore(p, x)
          \/ WriteFile(p, NULL)
          \/ RemoveFile(p) \/ DeleteStore(p) \/ MakeObsolete(p)
    BY <1>1 DEF Environment
  <2>2. DeleteStore(p) => ~AnySync
    BY DEF DeleteStore
  <2>. QED BY <2>1, <2>2, EditUnitVersions, FetchVersions, CreateStoreVersions,
              DeleteStoreVersions, MakeObsoleteVersions
<1>2. ASSUME NEW c \in Procs, Begin(c)
      PROVE  Versions'
  BY <1>2, BeginStagingVersions, BeginSyncVersions DEF Begin
<1>3. ASSUME NEW c \in Procs, Step(c)
      PROVE  Versions'
  <2>1. CASE EndStaging(c)
    BY <2>1, EndStagingVersions
  <2>2. ASSUME NEW i \in ToDo(c),
               \/ SkipItem(c, i) \/ RmItem(c, i) \/ PullItem(c, i)
               \/ PushItem(c, i) \/ Crash(c, i)
        PROVE  Versions'
    <3>1. i \in run[c].todo
      BY <2>2 DEF SkipItem, RmItem, PullItem, PushItem, Crash, CanDo
    <3>2. Crash(c, i) => Rollback(c)
      BY DEF Crash
    <3>. QED BY <2>2, <3>1, <3>2, SkipItemVersions, RmItemVersions,
                PullItemVersions, PushItemVersions, RollbackVersions
  <2>3. CASE MergePush(c) \/ TakeHash(c) \/ EndSync(c)
    BY <2>3, MergePushVersions, TakeHashVersions, EndSyncVersions
  <2>. QED BY <1>3, <2>1, <2>2, <2>3 DEF Step, SyncStep
<1>4. ASSUME NEW c \in Procs, Fail(c)
      PROVE  Versions'
  BY <1>4, RollbackVersions DEF Fail
<1>5. CASE UNCHANGED vars
  <2>1. rows' = rows /\ store' = store /\ run' = run
    BY <1>5 DEF vars
  <2>2. Parts'
    BY <1>5, NextParts
  <2>. QED BY <2>1, <2>2, LaterSame, OutsideVersions
<1>. QED BY <1>1, <1>2, <1>3, <1>4, <1>5 DEF Next

\* While no Store is deleted under a sync, an edit is never taken for synced:
\* whatever commands run at once, fail and are rolled back, a row that says
\* nothing changed in Pootle has the units that the Store holds.
THEOREM EditsStayVisible ==
  ASSUME "delete_in_sync" \notin Hazards
  PROVE  Spec => []EditNeverHidden
<1>1. Parts /\ Versions => EditNeverHidden
  <2>. SUFFICES ASSUME Parts, Versions, NEW r \in InSync(Now)
                PROVE  store[r.path].val = r.base
    BY DEF EditNeverHidden
  <2>1. /\ r \in rows /\ r \notin PootleChanged(Now) /\ r \in Synced(Now)
        /\ Live(Now, r)
    BY DEF InSync, Synced, Now
  <2>2. \/ store[r.path].val = NULL
        \/ MaxUnitRevision(store[r.path]) = r.last_sync_revision
    BY <2>1 DEF PootleChanged, Now
  <2>3. Fits(RowVersion(r), store[r.path])
    BY <2>1 DEF Versions, RowsFit
  <2>. QED BY <2>2, <2>3 DEF Fits, RowVersion, Stamps
<1>2. Init => Versions
  BY InitVersions
<1>3. Parts /\ Versions /\ [Next]_vars => Versions'
  BY NextVersions
<1>. QED BY <1>1, <1>2, <1>3, InitParts, NextParts, PTL DEF Spec
==============================================================================
