---------------------- MODULE OfflineTranslation_proofs ----------------------
(***************************************************************************)
(* Proofs about OfflineTranslation, for all units, texts, comments, copies *)
(* and bounds of the revision.                                             *)
(*                                                                         *)
(*   TypeInv      the types, and nothing later than the revision counter;  *)
(*                for any number of workers                                *)
(*   AloneInv     one worker: StoreData counts what is on record, and what *)
(*                the request in hand writes is later than that            *)
(*   DownloadInv  one worker: the record gives back every target of a file *)
(*                that is out (the first change after its revision)        *)
(*   PlainInv     translations only: no unit is marked as needing work or  *)
(*                obsolete                                                 *)
(*   SettledInv   nothing is marked as needing work, but units may become  *)
(*                obsolete: the state of each follows from its target      *)
(*   HeldInv      one worker: from the upload to its commit, what the      *)
(*                request has written and suggested is what the update     *)
(*                returns of what is committed                             *)
(*                                                                         *)
(* What an upload promises is then a fact about the update of each unit,   *)
(* at the end once for translations only, with comments, and once without  *)
(* comments for uploads that add and remove units too.                     *)
(*                                                                         *)
(* With several workers, StoreData can be computed from units that another *)
(* request is about to change, and a download is then stamped with a       *)
(* revision before what it holds.  With units that need work or become     *)
(* obsolete, _revert_state undoes what one submission did and not what     *)
(* later ones did: the version has the targets of what was downloaded, but *)
(* not always its flags.                                                   *)
(***************************************************************************)
EXTENDS OfflineTranslation, Bounds_proofs, TLAPS

-----------------------------------------------------------------------------
(* What the operators on a unit return *)

\* The state that a save works out leaves the rest of the unit alone.
LEMMA PreSaveTyped ==
  ASSUME NEW x, NEW y \in Unit
  PROVE  /\ PreSave(x, y) \in Unit
         /\ PreSave(x, y).target = y.target
         /\ PreSave(x, y).revision = y.revision
         /\ PreSave(x, y).creation_revision = y.creation_revision
  BY DEF PreSave, Unit, States, UNTRANSLATED, TRANSLATED

\* The submissions of a save have their type.
LEMMA SubmissionsTyped ==
  ASSUME NEW u \in Units, NEW x \in Unit, NEW y \in Unit
  PROVE  Submissions(u, x, y) \subseteq Submission
  BY DEF Submissions, Submission, Unit

\* A unit that takes over a unit of a file keeps its revisions.
LEMMA UnitUpdateTyped ==
  ASSUME NEW x \in Unit, NEW f \in FileUnit
  PROVE  /\ UnitUpdate(x, f) \in Unit
         /\ UnitUpdate(x, f).revision = x.revision
         /\ UnitUpdate(x, f).creation_revision = x.creation_revision
<1> DEFINE copied == [x EXCEPT !.target = f.target, !.comment = f.comment]
           marked == IF (copied.state = FUZZY) # f.fuzzy
                     THEN MarkFuzzy(copied, f.fuzzy) ELSE copied
           Same(y) == /\ y \in Unit
                      /\ y.revision = x.revision
                      /\ y.creation_revision = x.creation_revision
<1>1. f.fuzzy \in BOOLEAN /\ f.obsolete \in BOOLEAN
  BY DEF FileUnit
<1>2. Same(copied)
  BY DEF Unit, FileUnit
<1>3. Same(marked)
  <2>1. ASSUME NEW value \in BOOLEAN PROVE Same(MarkFuzzy(copied, value))
    <3> HIDE DEF copied
    <3> QED BY <1>2, <2>1, ZenonT(40)
            DEF MarkFuzzy, Unit, States, OBSOLETE, UNTRANSLATED, FUZZY, TRANSLATED
  <2>2. marked \in {copied, MarkFuzzy(copied, f.fuzzy)}
    BY Zenon
  <2> HIDE DEF copied, marked, Same
  <2>3. Same(MarkFuzzy(copied, f.fuzzy))
    BY <1>1, <2>1, Zenon
  <2> QED BY <1>2, <2>2, <2>3, Zenon
<1>4. Same(MakeObsolete(marked))
  <2> HIDE DEF marked
  <2> QED BY <1>3 DEF MakeObsolete, Unit, States
<1>5. ASSUME NEW value \in BOOLEAN PROVE Same(Resurrect(marked, value))
  <2> HIDE DEF marked
  <2> QED BY <1>3, <1>5 DEF Resurrect, Unit, States
<1>6. UnitUpdate(x, f) \in {marked, MakeObsolete(marked), Resurrect(marked, f.fuzzy)}
  <2>1. Obsolete(marked) \in BOOLEAN
    BY DEF Obsolete
  <2>2. CASE Obsolete(marked) = f.obsolete
    BY <2>2, Zenon DEF UnitUpdate
  <2>3. CASE ~Obsolete(marked) /\ f.obsolete
    <3>1. ~(Obsolete(marked) = f.obsolete) /\ ~(Obsolete(marked) /\ ~f.obsolete)
      BY <2>3, Zenon
    <3> QED BY <2>3, <3>1, Zenon DEF UnitUpdate
  <2>4. CASE Obsolete(marked) /\ ~f.obsolete
    <3>1. ~(Obsolete(marked) = f.obsolete) /\ ~(~Obsolete(marked) /\ f.obsolete)
      BY <2>4, Zenon
    <3> QED BY <2>4, <3>1, Zenon DEF UnitUpdate
  <2>5. \/ Obsolete(marked) = f.obsolete
        \/ ~Obsolete(marked) /\ f.obsolete
        \/ Obsolete(marked) /\ ~f.obsolete
    <3> HIDE DEF marked
    <3> QED BY <1>1, <2>1, Zenon
  <2> QED BY <2>2, <2>3, <2>4, <2>5
<1> HIDE DEF marked
<1> QED BY <1>1, <1>3, <1>4, <1>5, <1>6

\* An update leaves a unit as it is or gives it the new revision.
LEMMA UpdatedUnitTyped ==
  ASSUME NEW x \in Unit, NEW f \in FileUnit, NEW old, NEW since, NEW wins, NEW rev \in Nat
  PROVE  LET y == UpdatedUnit(x, f, old, since, wins, rev)
         IN /\ y \in Unit
            /\ y.creation_revision = x.creation_revision
            /\ y = x \/ y.revision = rev
<1> DEFINE z == PreSave(x, UnitUpdate(x, f))
<1>1. z \in Unit /\ z.creation_revision = x.creation_revision
  BY UnitUpdateTyped, PreSaveTyped
<1>2. UpdatedUnit(x, f, old, since, wins, rev) \in {x, [z EXCEPT !.revision = rev]}
  BY Zenon DEF UpdatedUnit
<1> HIDE DEF z
<1> QED BY <1>1, <1>2 DEF Unit

\* A unit that an update adds is created at the new revision.
LEMMA AddedUnitTyped ==
  ASSUME NEW f \in FileUnit, NEW rev \in Nat
  PROVE  /\ AddedUnit(f, rev) \in Unit
         /\ AddedUnit(f, rev).revision = rev
         /\ AddedUnit(f, rev).creation_revision = rev
<1> DEFINE empty == ""
           blank == [target |-> empty, comment |-> empty, state |-> UNTRANSLATED,
                     revision |-> rev, creation_revision |-> rev]
<1>1. AddedUnit(f, rev) = PreSave(blank, UnitUpdate(blank, f))
  BY Zenon DEF AddedUnit
<1>2. empty \in Target /\ empty \in Comments
  BY TextsAssumption DEF Target
<1> HIDE DEF empty
<1>3. blank \in Unit /\ blank.revision = rev /\ blank.creation_revision = rev
  BY <1>2 DEF Unit, States
<1> HIDE DEF blank
<1> QED BY <1>1, <1>3, UnitUpdateTyped, PreSaveTyped

\* What an update suggests is a text for a unit.
LEMMA SuggestedTyped ==
  ASSUME NEW u \in Units, NEW x \in Unit, NEW f \in FileUnit,
         NEW old, NEW since, NEW wins
  PROVE  Suggested(u, x, f, old, since, wins) \subseteq Units \X Texts
<1> DEFINE text == IF wins = "pootle" THEN f.target ELSE x.target
           y == UpdatedUnit(x, f, old, since, wins, 0)
           empty == ""
<1>1. text \in Target
  BY DEF Unit, FileUnit
<1>2. Suggested(u, x, f, old, since, wins) \subseteq Suggestible(u, y, text)
  BY Zenon DEF Suggested
<1>3. Suggestible(u, y, text) \subseteq IF text = empty THEN {} ELSE {<<u, text>>}
  BY Zenon DEF Suggestible
<1>4. Target = Texts \cup {empty}
  BY Zenon DEF Target
<1> HIDE DEF text, y, empty
<1> QED BY <1>1, <1>2, <1>3, <1>4

\* What is downloaded of a Store is a file.
LEMMA ExportedTyped ==
  ASSUME NEW rows \in StoreUnit
  PROVE  Exported(rows) \in File
<1>1. ASSUME NEW u \in Units, Live(rows[u]) PROVE Convert(rows[u]) \in FileUnit
  <2>1. rows[u] \in Unit
    BY <1>1 DEF StoreUnit, Live
  <2>2. (rows[u].state = FUZZY) \in BOOLEAN /\ (rows[u].state = OBSOLETE) \in BOOLEAN
    BY Zenon
  <2>3. rows[u].target \in Target /\ rows[u].comment \in Comments
    BY <2>1 DEF Unit
  <2> QED BY <2>2, <2>3, Zenon DEF Convert, FileUnit
<1> QED BY <1>1 DEF Exported, File

-----------------------------------------------------------------------------
(* What an update returns *)

\* y is what a write at revision rev makes of the unit x.
Written(x, y, rev) ==
  \/ y = x
  \/ /\ y \in Unit /\ y.revision = rev
     /\ y.creation_revision = IF x = NULL THEN rev ELSE x.creation_revision

\* A unit written again by the same update is still written by that update.
LEMMA WrittenTwice ==
  ASSUME NEW x \in Unit \cup {NULL}, NEW y, NEW rev \in Nat, Written(x, y, rev),
         NEW z \in Unit, z = y \/ z.revision = rev, y \in Unit,
         z.creation_revision = y.creation_revision
  PROVE  Written(x, z, rev)
  BY NullAssumption DEF Written

\* The first pass of an update (units added, made obsolete, moved, resurrected)
\* writes each unit or leaves it.
LEMMA StructureWritten ==
  ASSUME NEW rows \in StoreUnit, NEW toUpdate, NEW file \in File, NEW old, NEW since,
         NEW wins, NEW rev \in Nat, NEW u \in Units
  PROVE  Written(rows[u], WithStructure(rows, toUpdate, file, old, since, wins, rev)[u], rev)
<1> DEFINE y == WithStructure(rows, toUpdate, file, old, since, wins, rev)[u]
<1> SUFFICES Written(rows[u], y, rev)
  OBVIOUS
<1>1. CASE u \in UnitsToAdd(rows, file)
  <2>1. rows[u] = NULL /\ file[u] \in FileUnit
    BY <1>1 DEF UnitsToAdd, In, File
  <2>2. y = AddedUnit(file[u], rev)
    BY <1>1, Zenon DEF WithStructure
  <2> HIDE DEF y
  <2> QED BY <2>1, <2>2, AddedUnitTyped DEF Written
<1>2. CASE u \notin UnitsToAdd(rows, file)
           /\ u \in UnitsObsoleted(rows, toUpdate, file, old, since, wins)
  <2>1. rows[u] \in Unit
    BY <1>2 DEF UnitsObsoleted, UnitsToObsolete, Active, Live, StoreUnit
  <2>2. y = [MakeObsolete(rows[u]) EXCEPT !.revision = rev]
    BY <1>2, Zenon DEF WithStructure
  <2>3. MakeObsolete(rows[u]) \in Unit
        /\ MakeObsolete(rows[u]).creation_revision = rows[u].creation_revision
    BY <2>1 DEF MakeObsolete, Unit, States
  <2>4. rows[u] # NULL
    BY <2>1, NullAssumption
  <2> HIDE DEF y
  <2>5. y \in Unit /\ y.revision = rev /\ y.creation_revision = rows[u].creation_revision
    BY <2>2, <2>3 DEF Unit
  <2> QED BY <2>4, <2>5 DEF Written
<1>3. CASE u \notin UnitsToAdd(rows, file)
           /\ u \notin UnitsObsoleted(rows, toUpdate, file, old, since, wins)
  <2>1. y = rows[u]
    BY <1>3, Zenon DEF WithStructure
  <2> HIDE DEF y
  <2> QED BY <2>1 DEF Written
<1> QED BY <1>1, <1>2, <1>3

\* No unit of rows is later than revision n.
Below(rows, n) == \A u \in Units : rows[u] # NULL => rows[u].revision <= n

\* sub records what the writes after revision rev made of the units.
Recorded(rows, after, sub, rev) ==
  /\ \A s \in sub :
       /\ rows[s.unit] # NULL
       /\ s.old.target = rows[s.unit].target /\ s.old.state = rows[s.unit].state
       /\ s.new.target = after[s.unit].target /\ s.new.state = after[s.unit].state
       /\ rev < s.revision /\ s.revision <= after[s.unit].revision
       /\ \A t \in sub : t.unit = s.unit => t = s
  /\ \A u \in Units : rows[u] # NULL =>
       /\ after[u] # NULL /\ after[u].creation_revision = rows[u].creation_revision
       /\ rows[u].revision <= after[u].revision
       /\ \/ after[u].target = rows[u].target /\ after[u].state = rows[u].state
          \/ \E s \in sub : s.unit = u
  /\ \A u \in Units : rows[u] = NULL /\ after[u] # NULL =>
       rev < after[u].creation_revision /\ after[u].creation_revision <= after[u].revision

\* Nobody adds a unit.
NoneAdded(rows, after) == \A u \in Units : rows[u] = NULL => after[u] = NULL

\* What Update answers, of units that are not later than n
Outcome(rows, o, rev, n) ==
  /\ o.rows \in StoreUnit
  /\ o.subs \subseteq Submission
  /\ o.suggested \subseteq Units \X Texts
  /\ o.revision \in Nat /\ rev <= o.revision
  /\ Below(o.rows, o.revision)
  /\ \A s \in o.subs : s.revision <= o.revision
  /\ Recorded(rows, o.rows, o.subs, n)

AllWritten(rows, after, rev) == \A u \in Units : Written(rows[u], after[u], rev)
\* What the update left alone is marked as later.
AllBumped(rows, after, rev) ==
  \A u \in Units : \/ after[u] = rows[u]
                   \/ rows[u] # NULL /\ after[u] = [rows[u] EXCEPT !.revision = rev + 1]
AllSubmissions(rows, after) == UNION {Submissions(u, rows[u], after[u]) : u \in In(rows)}

\* The same outcome in its parts: updated is the units before those that the
\* update left alone are marked as later.
LEMMA BumpedRecorded ==
  ASSUME NEW rows \in StoreUnit, NEW n \in Nat, Below(rows, n), NEW rev \in Nat, n < rev,
         NEW updated, AllWritten(rows, updated, rev),
         NEW after, after \in StoreUnit, AllBumped(updated, after, rev),
         NEW sub, sub = AllSubmissions(rows, updated)
  PROVE  /\ sub \subseteq Submission
         /\ \A s \in sub : s.revision <= rev
         /\ Below(after, rev + 1)
         /\ Recorded(rows, after, sub, n)
<1> USE DEF AllWritten, AllBumped, AllSubmissions
<1>1. \A u \in Units : rows[u] \in Unit \cup {NULL}
  BY DEF StoreUnit
<1>2. \A u \in In(rows) : /\ u \in Units /\ rows[u] \in Unit /\ updated[u] \in Unit
                          /\ updated[u].revision \in Nat /\ rows[u].revision \in Nat
                          /\ rows[u].revision <= n
                          /\ updated[u] = rows[u] \/ updated[u].revision = rev
                          /\ updated[u].creation_revision = rows[u].creation_revision
  BY <1>1 DEF In, Written, Unit, Below
<1>3. \A u \in Units : updated[u] # NULL =>
        /\ updated[u] \in Unit /\ updated[u].revision \in Nat /\ updated[u].revision <= rev
        /\ rows[u] = NULL => updated[u].revision = rev /\ updated[u].creation_revision = rev
  BY <1>1 DEF Written, Unit, Below
<1>4. \A u \in Units : updated[u] # NULL =>
        /\ after[u] \in Unit
        /\ after[u].target = updated[u].target /\ after[u].state = updated[u].state
        /\ after[u].creation_revision = updated[u].creation_revision
        /\ after[u].revision \in Nat
        /\ updated[u].revision <= after[u].revision /\ after[u].revision <= rev + 1
  <2> SUFFICES ASSUME NEW u \in Units, updated[u] # NULL
               PROVE  /\ after[u] \in Unit
                      /\ after[u].target = updated[u].target /\ after[u].state = updated[u].state
                      /\ after[u].creation_revision = updated[u].creation_revision
                      /\ after[u].revision \in Nat
                      /\ updated[u].revision <= after[u].revision /\ after[u].revision <= rev + 1
    OBVIOUS
  <2>1. updated[u] \in Unit /\ updated[u].revision \in Nat /\ updated[u].revision <= rev
    BY <1>3
  <2>2. CASE after[u] = updated[u]
    BY <2>1, <2>2
  <2>3. CASE after[u] = [updated[u] EXCEPT !.revision = rev + 1]
    BY <2>1, <2>3 DEF Unit
  <2> QED BY <2>2, <2>3
<1>5. \A u \in Units : updated[u] = NULL => after[u] = NULL
  OBVIOUS
<1>6. \A s \in sub : /\ s.unit \in In(rows)
                     /\ s.old.target = rows[s.unit].target /\ s.old.state = rows[s.unit].state
                     /\ s.new.target = updated[s.unit].target
                     /\ s.new.state = updated[s.unit].state
                     /\ s.revision = rev /\ updated[s.unit].revision = rev
                     /\ s = [unit |-> s.unit, revision |-> rev,
                             old |-> [target |-> rows[s.unit].target, state |-> rows[s.unit].state],
                             new |-> [target |-> updated[s.unit].target,
                                      state |-> updated[s.unit].state]]
  <2> SUFFICES ASSUME NEW u \in In(rows), NEW s \in Submissions(u, rows[u], updated[u])
               PROVE  /\ s.unit = u
                      /\ s.revision = rev /\ updated[u].revision = rev
                      /\ s = [unit |-> u, revision |-> rev,
                              old |-> [target |-> rows[u].target, state |-> rows[u].state],
                              new |-> [target |-> updated[u].target, state |-> updated[u].state]]
    OBVIOUS
  <2>1. updated[u] = rows[u] \/ updated[u].revision = rev
    BY <1>2
  <2> QED BY <2>1 DEF Submissions
<1>7. \A u \in In(rows) : \/ updated[u].target = rows[u].target /\ updated[u].state = rows[u].state
                          \/ \E s \in sub : s.unit = u
  <2> SUFFICES ASSUME NEW u \in In(rows),
                      ~(updated[u].target = rows[u].target /\ updated[u].state = rows[u].state)
               PROVE  \E s \in sub : s.unit = u
    OBVIOUS
  <2> DEFINE s == [unit |-> u, revision |-> updated[u].revision,
                   old |-> [target |-> rows[u].target, state |-> rows[u].state],
                   new |-> [target |-> updated[u].target, state |-> updated[u].state]]
  <2>1. s \in Submissions(u, rows[u], updated[u])
    BY DEF Submissions
  <2>2. s \in sub
    BY <2>1
  <2> QED BY <2>2
<1>8. sub \subseteq Submission
  <2>1. \A u \in In(rows) : Submissions(u, rows[u], updated[u]) \subseteq Submission
    BY <1>2, SubmissionsTyped
  <2> QED BY <2>1
<1>9. Below(after, rev + 1)
  BY <1>4, <1>5 DEF Below
<1>10. \A s \in sub : s.revision <= rev
  BY <1>6
<1>11. \A s \in sub :
       /\ rows[s.unit] # NULL
       /\ s.old.target = rows[s.unit].target /\ s.old.state = rows[s.unit].state
       /\ s.new.target = after[s.unit].target /\ s.new.state = after[s.unit].state
       /\ n < s.revision /\ s.revision <= after[s.unit].revision
       /\ \A t \in sub : t.unit = s.unit => t = s
  <2> SUFFICES ASSUME NEW s \in sub
               PROVE  /\ rows[s.unit] # NULL
                      /\ s.old.target = rows[s.unit].target /\ s.old.state = rows[s.unit].state
                      /\ s.new.target = after[s.unit].target /\ s.new.state = after[s.unit].state
                      /\ n < s.revision /\ s.revision <= after[s.unit].revision
                      /\ \A t \in sub : t.unit = s.unit => t = s
    OBVIOUS
  <2>1. s.unit \in Units /\ rows[s.unit] # NULL /\ updated[s.unit] # NULL
    BY <1>2, <1>6, NullAssumption DEF In
  <2>2. ASSUME NEW t \in sub, t.unit = s.unit PROVE t = s
    <3> DEFINE Of(u) == [unit |-> u, revision |-> rev,
                         old |-> [target |-> rows[u].target, state |-> rows[u].state],
                         new |-> [target |-> updated[u].target, state |-> updated[u].state]]
    <3>1. t = Of(t.unit) /\ s = Of(s.unit)
      BY <1>6
    <3> HIDE DEF Of
    <3> QED BY <2>2, <3>1
  <2> QED BY <1>4, <1>6, <2>1, <2>2
<1>12. \A u \in Units : rows[u] # NULL =>
       /\ after[u] # NULL /\ after[u].creation_revision = rows[u].creation_revision
       /\ rows[u].revision <= after[u].revision
       /\ \/ after[u].target = rows[u].target /\ after[u].state = rows[u].state
          \/ \E s \in sub : s.unit = u
  <2> SUFFICES ASSUME NEW u \in Units, rows[u] # NULL
               PROVE  /\ after[u] # NULL /\ after[u].creation_revision = rows[u].creation_revision
                      /\ rows[u].revision <= after[u].revision
                      /\ \/ after[u].target = rows[u].target /\ after[u].state = rows[u].state
                         \/ \E s \in sub : s.unit = u
    OBVIOUS
  <2>1. u \in In(rows) /\ updated[u] # NULL
    BY <1>2, NullAssumption DEF In
  <2>2. rows[u].revision <= updated[u].revision
    BY <1>2, <2>1
  <2> QED BY <1>2, <1>4, <1>7, <2>1, <2>2, NullAssumption
<1>13. \A u \in Units : rows[u] = NULL /\ after[u] # NULL =>
       n < after[u].creation_revision /\ after[u].creation_revision <= after[u].revision
  BY <1>3, <1>4, <1>5
<1> QED BY <1>8, <1>9, <1>10, <1>11, <1>12, <1>13 DEF Recorded

FullOutcome(rows, o, rev, n) ==
  /\ o.rows \in StoreUnit
  /\ o.subs \subseteq Submission
  /\ o.suggested \subseteq Units \X Texts
  /\ o.revision = rev + 1
  /\ Below(o.rows, rev + 1)
  /\ \A s \in o.subs : s.revision <= rev + 1
  /\ Recorded(rows, o.rows, o.subs, n)
  /\ o.saved = FALSE => o.subs = {} /\ NoneAdded(rows, o.rows)

\* An update from a diff: each unit is left or written with the new revision, and
\* the submissions, the suggestions and the revision have their types.
LEMMA UpdateFromDiffOutcome ==
  ASSUME NEW rows \in StoreUnit, NEW ss, NEW sugg, NEW d, NEW file \in File, NEW since, NEW wins,
         NEW allow, NEW rev \in Nat, NEW n \in Nat, Below(rows, n), n < rev,
         NEW o, o = UpdateFromDiff(rows, ss, sugg, d, file, since, wins, allow, rev)
  PROVE  FullOutcome(rows, o, rev, n)
<1> DEFINE old == AtRevision(rows, ss, since)
           toUpdate == UnitsToUpdate(rows, d, file, since)
           structured ==
             IF allow THEN WithStructure(rows, toUpdate, file, old, since, wins, rev)
             ELSE rows
           updated ==
             [u \in Units |->
                IF u \in toUpdate
                THEN UpdatedUnit(structured[u], file[u], old[u], since, wins, rev)
                ELSE structured[u]]
           unsynced(x) == Live(x) /\ x.revision > since /\ x.revision < rev
           losers == (UNION {Suggested(u, structured[u], file[u], old[u], since, wins) :
                               u \in toUpdate}) \ sugg
           after == [u \in Units |-> IF unsynced(updated[u])
                                     THEN [updated[u] EXCEPT !.revision = rev + 1]
                                     ELSE updated[u]]
           sub == UNION {Submissions(u, rows[u], updated[u]) : u \in In(rows)}
<1>1. /\ o.rows = after /\ o.subs = sub /\ o.suggested = losers
      /\ o.revision = rev + 1 /\ o.saved = (updated # rows \/ losers # {})
  BY Zenon DEF UpdateFromDiff
<1>2. \A u \in Units : rows[u] \in Unit \cup {NULL}
  BY DEF StoreUnit
<1>3. \A u \in toUpdate : u \in Units /\ rows[u] \in Unit /\ file[u] \in FileUnit
  BY DEF UnitsToUpdate, In, StoreUnit, File
<1>4. \A u \in Units : Written(rows[u], structured[u], rev)
  <2> SUFFICES ASSUME NEW u \in Units PROVE Written(rows[u], structured[u], rev)
    OBVIOUS
  <2>1. Written(rows[u], WithStructure(rows, toUpdate, file, old, since, wins, rev)[u], rev)
    BY StructureWritten
  <2>2. structured = WithStructure(rows, toUpdate, file, old, since, wins, rev) \/ structured = rows
    BY Zenon
  <2> HIDE DEF structured, toUpdate, old
  <2> QED BY <2>1, <2>2 DEF Written
<1>5. \A u \in toUpdate : structured[u] \in Unit
  <2> HIDE DEF structured, toUpdate
  <2> QED BY <1>3, <1>4 DEF Written
<1>6. \A u \in Units : updated[u] = IF u \in toUpdate
                                    THEN UpdatedUnit(structured[u], file[u], old[u], since, wins, rev)
                                    ELSE structured[u]
  BY Zenon
<1>7. \A u \in Units : after[u] = IF unsynced(updated[u])
                                  THEN [updated[u] EXCEPT !.revision = rev + 1]
                                  ELSE updated[u]
  BY Zenon
<1>8. \A u \in Units : Written(rows[u], updated[u], rev)
  <2> HIDE DEF structured, toUpdate, old, updated, after, unsynced
  <2> SUFFICES ASSUME NEW u \in Units PROVE Written(rows[u], updated[u], rev)
    OBVIOUS
  <2>1. CASE u \in toUpdate
    <3> DEFINE z == UpdatedUnit(structured[u], file[u], old[u], since, wins, rev)
    <3>1. updated[u] = z
      BY <1>6, <2>1
    <3>2. structured[u] \in Unit /\ file[u] \in FileUnit
      BY <1>3, <1>5, <2>1
    <3>3. /\ z \in Unit /\ z.creation_revision = structured[u].creation_revision
          /\ z = structured[u] \/ z.revision = rev
      BY <3>2, UpdatedUnitTyped
    <3>4. Written(rows[u], structured[u], rev) /\ rows[u] \in Unit \cup {NULL}
      BY <1>2, <1>4
    <3> HIDE DEF z
    <3> QED BY <3>1, <3>2, <3>3, <3>4, WrittenTwice
  <2>2. CASE u \notin toUpdate
    <3>1. updated[u] = structured[u]
      BY <1>6, <2>2
    <3> QED BY <1>4, <3>1
  <2> QED BY <2>1, <2>2
<1>9. \A u \in Units : unsynced(updated[u]) => updated[u] # NULL
  <2> HIDE DEF updated
  <2> QED BY DEF Live
<1>10. \A u \in Units : updated[u] \in Unit \cup {NULL}
  <2> HIDE DEF updated
  <2> QED BY <1>2, <1>8 DEF Written
<1>11. after \in [Units -> Unit \cup {NULL}]
  <2>1. after = [u \in Units |-> after[u]]
    OBVIOUS
  <2> HIDE DEF updated, unsynced, after
  <2>2. \A u \in Units : after[u] \in Unit \cup {NULL}
    <3> SUFFICES ASSUME NEW u \in Units PROVE after[u] \in Unit \cup {NULL}
      OBVIOUS
    <3>1. CASE unsynced(updated[u])
      <4>1. updated[u] \in Unit /\ after[u] = [updated[u] EXCEPT !.revision = rev + 1]
        BY <1>7, <1>9, <1>10, <3>1
      <4> QED BY <4>1 DEF Unit
    <3>2. CASE ~unsynced(updated[u])
      BY <1>7, <1>10, <3>2
    <3> QED BY <3>1, <3>2
  <2> QED BY <2>1, <2>2
<1>12. \A u \in Units : \/ after[u] = updated[u]
                        \/ /\ updated[u] # NULL
                           /\ after[u] = [updated[u] EXCEPT !.revision = rev + 1]
  <2> HIDE DEF updated, unsynced, after
  <2> QED BY <1>7, <1>9
<1>13. /\ sub \subseteq Submission
       /\ \A s \in sub : s.revision <= rev
       /\ Below(after, rev + 1)
       /\ Recorded(rows, after, sub, n)
  <2>1. sub = AllSubmissions(rows, updated)
    BY Zenon DEF AllSubmissions
  <2> HIDE DEF updated, unsynced, after, sub, structured, toUpdate, losers, old
  <2>2. AllWritten(rows, updated, rev)
    BY <1>8, Zenon DEF AllWritten
  <2>3. AllBumped(updated, after, rev)
    BY <1>12, Zenon DEF AllBumped
  <2>4. after \in StoreUnit
    BY <1>11 DEF StoreUnit
  <2> QED BY <2>1, <2>2, <2>3, <2>4, BumpedRecorded, Zenon
<1>14. losers \subseteq Units \X Texts
  <2>1. \A u \in toUpdate :
          Suggested(u, structured[u], file[u], old[u], since, wins) \subseteq Units \X Texts
    <3> HIDE DEF structured, toUpdate, old
    <3> QED BY <1>3, <1>5, SuggestedTyped
  <2> HIDE DEF structured, toUpdate, old
  <2> QED BY <2>1
<1>15. updated = rows => sub = {} /\ NoneAdded(rows, after)
  <2>1. sub = UNION {Submissions(u, rows[u], updated[u]) : u \in In(rows)}
    OBVIOUS
  <2> HIDE DEF updated, unsynced, after, sub
  <2>2. \A u \in In(rows) : Submissions(u, rows[u], rows[u]) = {}
    BY DEF Submissions
  <2>3. updated = rows => sub = {}
    BY <2>1, <2>2
  <2> QED BY <1>12, <2>3 DEF NoneAdded
<1>16. \A s \in sub : s.revision <= rev + 1
  <2> HIDE DEF sub
  <2> SUFFICES ASSUME NEW s \in sub PROVE s.revision <= rev + 1
    OBVIOUS
  <2>1. s \in Submission /\ s.revision <= rev
    BY ONLY <1>13, s \in sub
  <2>2. s.revision \in Nat
    BY ONLY <2>1 DEF Submission
  <2> QED BY ONLY <2>1, <2>2, rev \in Nat
<1>17. o.saved = FALSE => updated = rows
  BY <1>1, Zenon
<1> HIDE DEF updated, sub, after, losers
<1>18. o.saved = FALSE => o.subs = {} /\ NoneAdded(rows, o.rows)
  BY <1>1, <1>15, <1>17, Zenon
<1> QED BY <1>1, <1>11, <1>13, <1>14, <1>16, <1>18, Zenon DEF StoreUnit, FullOutcome

\* Store.update at the revision that the counter has drawn.
LEMMA UpdateOutcome ==
  ASSUME NEW rows \in StoreUnit, NEW ss, NEW sugg, NEW d, NEW file \in File, NEW since, NEW wins,
         NEW allow, NEW rev \in Nat, NEW n \in Nat, Below(rows, n), n <= rev,
         \A u \in Units : rows[u] # NULL => rows[u].revision \in Nat,
         NEW o, o = Update(rows, ss, sugg, d, file, since, wins, allow, rev)
  PROVE  /\ Outcome(rows, o, rev, n)
         /\ o.saved = FALSE => o.subs = {} /\ NoneAdded(rows, o.rows)
<1>1. CASE HasChanges(rows, d, file, since)
  <2>1. o = UpdateFromDiff(rows, ss, sugg, d, file, since, wins, allow, rev + 1)
    BY <1>1, Zenon DEF Update
  <2>2. n < rev + 1 /\ rev + 1 \in Nat
    OBVIOUS
  <2> DEFINE next == rev + 1
  <2> HIDE DEF next
  <2>3. FullOutcome(rows, o, next, n)
    <3>1. next \in Nat /\ n < next
      BY <2>2 DEF next
    <3>2. o = UpdateFromDiff(rows, ss, sugg, d, file, since, wins, allow, next)
      BY <2>1 DEF next
    <3> QED BY <3>1, <3>2, UpdateFromDiffOutcome
  <2>4. o.revision \in Nat /\ rev <= o.revision
    BY <2>3 DEF next, FullOutcome
  <2>5. o.revision = next + 1
    BY <2>3, Zenon DEF FullOutcome
  <2> QED BY <2>3, <2>4, <2>5, Zenon DEF Outcome, FullOutcome
<1>2. CASE ~HasChanges(rows, d, file, since)
  <2>1. /\ o.rows = rows /\ o.subs = {} /\ o.suggested = {} /\ o.revision = rev
    BY <1>2, Zenon DEF Update
  <2>2. Recorded(rows, rows, {}, n)
    BY DEF Recorded
  <2>3. Below(rows, rev)
    BY DEF Below
  <2>4. NoneAdded(rows, rows)
    BY DEF NoneAdded
  <2> QED BY <2>1, <2>2, <2>3, <2>4 DEF Outcome
<1> QED BY <1>1, <1>2

-----------------------------------------------------------------------------
(* The last revision of the units of a Store, which StoreData keeps *)

\* The revision that StoreData takes bounds those of the units.
LEMMA MaxUnitRevisionTyped ==
  ASSUME NEW rows \in StoreUnit, NEW n \in Nat, Below(rows, n)
  PROVE  /\ MaxUnitRevision(rows) \in Nat /\ MaxUnitRevision(rows) <= n
         /\ Below(rows, MaxUnitRevision(rows))
<1> DEFINE S == {0} \cup {rows[u].revision : u \in {w \in Units : rows[w] # NULL}}
<1>1. \A u \in Units : rows[u] # NULL => rows[u].revision \in 0..n
  BY DEF Below, StoreUnit, Unit
<1>2. S \in SUBSET (0..n) /\ S # {}
  BY <1>1
<1>3. \E m \in S : \A x \in S : x <= m
  <2> HIDE DEF S
  <2> QED BY <1>2, BoundedHasLargest
<1>4. MaxUnitRevision(rows) = Largest(S)
  BY DEF MaxUnitRevision
<1>5. Largest(S) \in S /\ \A x \in S : Largest(S) >= x
  <2> HIDE DEF S
  <2>1. S \subseteq Int
    BY <1>2
  <2>2. \E m \in S : \A x \in S : m >= x
    BY <1>3, <2>1
  <2> QED BY <2>2 DEF Largest
<1>6. \A u \in Units : rows[u] # NULL => rows[u].revision \in S
  OBVIOUS
<1> HIDE DEF S
<1>7. Below(rows, Largest(S))
  BY <1>1, <1>2, <1>5, <1>6 DEF Below
<1>8. Largest(S) \in Nat /\ Largest(S) <= n
  <2>1. Largest(S) \in 0..n
    BY <1>2, <1>5
  <2> QED BY <2>1
<1> QED BY <1>4, <1>7, <1>8, Zenon

-----------------------------------------------------------------------------
(* Requests *)

\* A request and what it has written are not later than the counter, nor is the
\* download it stamps.
RequestInv(t, n) ==
  /\ t.row # NULL => t.row.revision <= n
  /\ Below(t.wrote, n)
  /\ \A s \in t.sub : s.revision <= n
  /\ t.max # NULL => t.max <= n
  /\ t.req.op \in {"submit", "comment", "accept"} => t.row # NULL
  /\ t.req.op = "download" => t.req.rev <= n

TxInv(t, n) == t \in Tx /\ RequestInv(t, n)

\* A request that has loaded its unit has its type.
LEMMA LoadedTyped ==
  ASSUME NEW req \in Request, NEW row \in Unit \cup {NULL}, NEW n \in Nat,
         row # NULL => row.revision <= n,
         req.op \in {"submit", "comment", "accept"} => row # NULL,
         req.op = "download" => req.rev <= n
  PROVE  TxInv(Loaded(req, row), n)
<1>1. Loaded(req, row) \in Tx
  BY DEF Loaded, Tx, StoreUnit
<1>2. RequestInv(Loaded(req, row), n)
  BY DEF Loaded, RequestInv, Below
<1> QED BY <1>1, <1>2 DEF TxInv

\* What each kind of request holds.
LEMMA RequestParts ==
  ASSUME NEW req \in Request
  PROVE  /\ req.op \in {"submit", "comment", "accept"} => req.unit \in Units
         /\ req.op = "submit" => req.target \in Target /\ req.fuzzy \in BOOLEAN
         /\ req.op = "comment" => req.comment \in Comments
         /\ req.op = "accept" => req.suggestion \in Texts /\ req.target \in Target
         /\ req.op = "download" => req.copy \in Copies /\ req.rev \in Nat
         /\ req.op = "upload" => req.copy \in Copies /\ req.file \in File
  BY DEF Request, Target

\* What an edit makes of a unit, before it is saved.
LEMMA EditedTyped ==
  ASSUME NEW req \in Request, req.op \in {"submit", "comment", "accept"}, NEW x \in Unit
  PROVE  /\ Edited(x, req) \in Unit
         /\ Edited(x, req).revision = x.revision
         /\ Edited(x, req).creation_revision = x.creation_revision
<1> DEFINE Same(y) == /\ y \in Unit
                      /\ y.revision = x.revision
                      /\ y.creation_revision = x.creation_revision
           y == CASE req.op = "submit" -> Submitted(x, req)
                  [] req.op = "accept" -> Accepted(x, req)
                  [] req.op = "comment" -> [x EXCEPT !.comment = req.comment]
<1>1. ASSUME req.op = "submit" PROVE Same(y)
  <2>6. ~(req.op = "accept") /\ ~(req.op = "comment")
    BY <1>1
  <2>1. y = Submitted(x, req)
    BY <1>1, <2>6, Zenon
  <2>2. req.target \in Target /\ req.fuzzy \in BOOLEAN
    BY <1>1, RequestParts
  <2> DEFINE state == CASE req.target = "" -> UNTRANSLATED
                        [] req.target # "" /\ req.fuzzy -> FUZZY
                        [] OTHER -> TRANSLATED
  <2>3. state \in States
    BY DEF States
  <2>4. Submitted(x, req) = [x EXCEPT !.target = req.target, !.state = state]
    BY Zenon DEF Submitted
  <2> HIDE DEF state
  <2>5. Same(Submitted(x, req))
    BY <2>2, <2>3, <2>4 DEF Unit
  <2> HIDE DEF y, Same
  <2> QED BY <2>1, <2>5
<1>2. ASSUME req.op = "accept" PROVE Same(y)
  <2>6. ~(req.op = "submit") /\ ~(req.op = "comment")
    BY <1>2
  <2>1. y = Accepted(x, req)
    BY <1>2, <2>6, Zenon
  <2>2. req.target \in Target
    BY <1>2, RequestParts
  <2>3. Same(Accepted(x, req))
    BY <2>2 DEF Accepted, Unit, States
  <2> HIDE DEF y, Same
  <2> QED BY <2>1, <2>3
<1>3. ASSUME req.op = "comment" PROVE Same(y)
  <2>6. ~(req.op = "accept") /\ ~(req.op = "submit")
    BY <1>3
  <2>1. y = [x EXCEPT !.comment = req.comment]
    BY <1>3, <2>6, Zenon
  <2>2. req.comment \in Comments
    BY <1>3, RequestParts
  <2>3. Same([x EXCEPT !.comment = req.comment])
    BY <2>2 DEF Unit
  <2> HIDE DEF y, Same
  <2> QED BY <2>1, <2>3
<1>4. Same(y)
  <2> HIDE DEF y, Same
  <2> QED BY <1>1, <1>2, <1>3
<1>5. Edited(x, req) = PreSave(x, y)
  BY Zenon DEF Edited
<1> HIDE DEF y
<1> QED BY <1>4, <1>5, PreSaveTyped

-----------------------------------------------------------------------------
(* The types of the state, and that nothing is later than the counter *)

TypeInv ==
  /\ TypeOK
  /\ Below(unit, revision)
  /\ \A s \in subs : s.revision <= revision
  /\ data <= revision
  /\ \A c \in Copies : copies[c] # NULL => copies[c].rev <= revision
  /\ \A w \in Workers : tx[w] # NULL => RequestInv(tx[w], revision)

\* Units stay below a counter that grows.
LEMMA BelowLater ==
  ASSUME NEW rows \in StoreUnit, NEW n \in Nat, NEW m \in Nat, n <= m, Below(rows, n)
  PROVE  Below(rows, m)
<1>1. \A u \in Units : rows[u] # NULL => rows[u].revision \in Nat
  BY DEF StoreUnit, Unit
<1> QED BY <1>1 DEF Below

\* So does what a request holds.
LEMMA RequestLater ==
  ASSUME NEW t \in Tx, NEW n \in Nat, NEW m \in Nat, n <= m, RequestInv(t, n)
  PROVE  RequestInv(t, m)
<1>1. /\ t.row # NULL => t.row.revision \in Nat
      /\ t.wrote \in StoreUnit
      /\ \A s \in t.sub : s.revision \in Nat
      /\ t.max # NULL => t.max \in Nat
      /\ t.req \in Request
  BY DEF Tx, Unit, Submission
<1>2. Below(t.wrote, m)
  BY <1>1, BelowLater DEF RequestInv
<1>3. t.req.op = "download" => t.req.rev \in Nat
  BY <1>1, RequestParts
<1>4. t.req.op = "download" => t.req.rev <= m
  BY <1>3 DEF RequestInv
<1> QED BY <1>1, <1>2, <1>4 DEF RequestInv

\* The steps that change one request, and the counter.
Becomes(w, t) ==
  tx' = [tx EXCEPT ![w] = t] /\ UNCHANGED <<unit, subs, suggested, data, copies>>

\* A step that only one request takes keeps the types.
LEMMA OneRequest ==
  ASSUME TypeInv, NEW w \in Workers, NEW t, t = NULL \/ TxInv(t, revision'),
         Becomes(w, t), revision' \in Nat, revision <= revision'
  PROVE  TypeInv'
<1> USE DEF Becomes
<1>1. revision \in Nat /\ data \in Nat /\ unit \in StoreUnit /\ tx \in [Workers -> Tx \cup {NULL}]
      /\ copies \in [Copies -> Copy \cup {NULL}]
  BY DEF TypeInv, TypeOK
<1>2. tx' \in [Workers -> Tx \cup {NULL}]
  BY <1>1 DEF TxInv
<1>3. TypeOK'
  BY <1>2 DEF TypeInv, TypeOK
<1>4. Below(unit, revision)'
  BY <1>1, BelowLater DEF TypeInv
<1>5. \A s \in subs' : s.revision <= revision'
  BY <1>1 DEF TypeInv, TypeOK, Submission
<1>6. \A c \in Copies : copies'[c] # NULL => copies'[c].rev <= revision'
  <2>1. \A c \in Copies : copies[c] # NULL => copies[c].rev \in Nat
    BY <1>1 DEF Copy
  <2> QED BY <1>1, <2>1 DEF TypeInv
<1>7. \A v \in Workers : tx'[v] # NULL => RequestInv(tx'[v], revision')
  <2> SUFFICES ASSUME NEW v \in Workers, tx'[v] # NULL PROVE RequestInv(tx'[v], revision')
    OBVIOUS
  <2>1. CASE v = w
    <3>1. tx'[v] = t
      BY <1>1, <2>1
    <3> QED BY <3>1 DEF TxInv
  <2>2. CASE v # w
    <3>1. tx'[v] = tx[v]
      BY <1>1, <2>2
    <3>2. tx[v] \in Tx /\ RequestInv(tx[v], revision)
      BY <1>1, <3>1 DEF TypeInv
    <3> QED BY <1>1, <3>1, <3>2, RequestLater
  <2> QED BY <2>1, <2>2
<1>8. (data <= revision)'
  BY <1>1 DEF TypeInv
<1> QED BY <1>3, <1>4, <1>5, <1>6, <1>7, <1>8 DEF TypeInv

\* The Store as it was first imported has its types.
LEMMA InitTyped == Init => TypeInv
<1> SUFFICES ASSUME Init PROVE TypeInv
  OBVIOUS
<1> DEFINE empty == ""
<1>0. empty \in Target /\ empty \in Comments /\ 1 \in Nat /\ {UNTRANSLATED, TRANSLATED} \subseteq States
  BY TextsAssumption DEF Target, States
<1>1. PICK t \in [Stored -> Target] :
        unit = [u \in Units |->
                 IF u \in Stored
                 THEN [target |-> t[u], comment |-> empty,
                       state |-> IF t[u] = empty THEN UNTRANSLATED ELSE TRANSLATED,
                       revision |-> 1, creation_revision |-> 1]
                 ELSE NULL]
  BY Zenon DEF Init
<1> HIDE DEF empty
<1>2. /\ subs = {} /\ suggested = {} /\ data = 1 /\ revision = 2
      /\ copies = [c \in Copies |-> NULL] /\ tx = [w \in Workers |-> NULL]
  BY DEF Init
<1>3. \A u \in Units : /\ unit[u] \in Unit \cup {NULL}
                       /\ unit[u] # NULL => unit[u].revision = 1
  BY <1>0, <1>1 DEF Unit
<1>4. unit \in StoreUnit
  <2>1. unit = [u \in Units |-> unit[u]]
    BY <1>1
  <2> QED BY <1>3, <2>1 DEF StoreUnit
<1>5. TypeOK
  BY <1>2, <1>4 DEF TypeOK
<1>6. Below(unit, revision)
  BY <1>2, <1>3 DEF Below
<1> QED BY <1>2, <1>5, <1>6 DEF TypeInv

\* A request of the editor is loaded.
LEMMA EditTyped ==
  ASSUME TypeInv, NEW w \in Workers, Edit(w)
  PROVE  TypeInv'
<1>1. revision \in Nat /\ unit \in StoreUnit /\ tx \in [Workers -> Tx \cup {NULL}]
      /\ suggested \subseteq Units \X Texts /\ Below(unit, revision)
  BY DEF TypeInv, TypeOK
<1>2. ASSUME NEW u \in Units, NEW req \in Request, unit[u] # NULL, LoadUnit(w, u, req),
             req.op # "download"
      PROVE  TypeInv'
  <2>1. unit[u] \in Unit /\ unit[u].revision <= revision
    BY <1>1, <1>2 DEF StoreUnit, Below
  <2>2. TxInv(Loaded(req, unit[u]), revision)
    BY <1>1, <1>2, <2>1, LoadedTyped
  <2>3. Becomes(w, Loaded(req, unit[u])) /\ revision' = revision
    BY <1>2 DEF LoadUnit, Becomes
  <2>4. TxInv(Loaded(req, unit[u]), revision') /\ revision' \in Nat /\ revision <= revision'
    BY <1>1, <2>2, <2>3
  <2> QED BY <2>3, <2>4, OneRequest
<1>3. PICK u \in Units :
        \/ \E target \in Target, fuzzy \in Fuzzy : Submit(w, u, target, fuzzy)
        \/ \E comment \in Comments : Comment(w, u, comment)
        \/ \E suggestion, target \in Texts : Accept(w, u, suggestion, target)
  BY Zenon DEF Edit
<1>4. ASSUME NEW target \in Target, NEW fuzzy \in Fuzzy, Submit(w, u, target, fuzzy)
      PROVE  TypeInv'
  <2> DEFINE req == [op |-> "submit", unit |-> u, target |-> target, fuzzy |-> fuzzy]
  <2>1. fuzzy \in BOOLEAN
    BY OptionsAssumption
  <2>2. req \in Request
    BY <2>1 DEF Request
  <2>3. req.op # "download"
    OBVIOUS
  <2>4. unit[u] # NULL /\ LoadUnit(w, u, req)
    BY <1>4, Zenon DEF Submit
  <2> HIDE DEF req
  <2> QED BY <1>2, <2>2, <2>3, <2>4
<1>5. ASSUME NEW comment \in Comments, Comment(w, u, comment)
      PROVE  TypeInv'
  <2> DEFINE req == [op |-> "comment", unit |-> u, comment |-> comment]
  <2>2. req \in Request /\ req.op # "download"
    BY DEF Request
  <2>4. unit[u] # NULL /\ LoadUnit(w, u, req)
    BY <1>5, Zenon DEF Comment
  <2> HIDE DEF req
  <2> QED BY <1>2, <2>2, <2>4
<1>6. ASSUME NEW suggestion \in Texts, NEW target \in Texts, Accept(w, u, suggestion, target)
      PROVE  TypeInv'
  <2> DEFINE req == [op |-> "accept", unit |-> u, suggestion |-> suggestion, target |-> target]
  <2>2. req \in Request /\ req.op # "download"
    BY DEF Request
  <2>4. unit[u] # NULL /\ LoadUnit(w, u, req)
    BY <1>6, Zenon DEF Accept
  <2> HIDE DEF req
  <2> QED BY <1>2, <2>2, <2>4
<1> QED BY <1>3, <1>4, <1>5, <1>6

\* What a request sees of the units has their type.
LEMMA ViewTyped ==
  ASSUME TypeInv, NEW w \in Workers, tx[w] # NULL
  PROVE  View(w) \in StoreUnit /\ Below(View(w), revision)
<1>1. unit \in StoreUnit /\ tx[w] \in Tx /\ Below(unit, revision) /\ RequestInv(tx[w], revision)
  BY DEF TypeInv, TypeOK
<1>2. tx[w].wrote \in StoreUnit /\ Below(tx[w].wrote, revision)
  BY <1>1 DEF Tx, RequestInv
<1>3. \A u \in Units : View(w)[u] = IF tx[w].wrote[u] # NULL THEN tx[w].wrote[u] ELSE unit[u]
  BY DEF View
<1>4. View(w) = [u \in Units |-> View(w)[u]]
  BY DEF View
<1>5. \A u \in Units : View(w)[u] \in Unit \cup {NULL}
  BY <1>1, <1>2, <1>3 DEF StoreUnit
<1> QED BY <1>1, <1>2, <1>3, <1>4, <1>5 DEF StoreUnit, Below

\* What SaveUnit makes of the request t of unit x, which it saves as y.
Saved(t, x, y) ==
  [t EXCEPT !.step = "saved", !.wrote[t.req.unit] = y,
            !.sub = Submissions(t.req.unit, x, y),
            !.drop = IF t.req.op = "accept" THEN {<<t.req.unit, t.req.suggestion>>}
                     ELSE {}]
\* The unit as it is saved, and the counter then.
SavedAt(t) ==
  IF Updated(t.row, Edited(t.row, t.req)) THEN revision + 1 ELSE revision
SavedUnit(t) ==
  [Edited(t.row, t.req) EXCEPT !.revision = IF SavedAt(t) > revision THEN SavedAt(t) ELSE @]

\* Saving a unit: a revision is drawn if anything has changed.
LEMMA SaveUnitParts ==
  ASSUME TypeInv, NEW w \in Workers, SaveUnit(w)
  PROVE  LET t == tx[w]
             y == SavedUnit(t)
         IN /\ t \in Tx /\ t.req \in Request /\ t.step = "loaded"
            /\ t.req.op \in {"submit", "comment", "accept"} /\ t.req.unit \in Units
            /\ t.row \in Unit /\ t.row.revision <= revision
            /\ y \in Unit /\ y.creation_revision = t.row.creation_revision
            /\ y.revision <= revision'
            /\ IF Updated(t.row, y)
               THEN y.revision = revision + 1 /\ revision' = revision + 1
               ELSE y.revision = t.row.revision /\ revision' = revision
            /\ revision' \in Nat /\ revision <= revision'
            /\ Becomes(w, Saved(t, t.row, y))
<1> DEFINE t == tx[w]
           x == t.row
           y == SavedUnit(t)
           rev == SavedAt(t)
           e == Edited(x, t.req)
<1>1. revision \in Nat /\ tx \in [Workers -> Tx \cup {NULL}]
  BY DEF TypeInv, TypeOK
<1>2. t # NULL /\ t.step = "loaded" /\ t.req.op \in {"submit", "comment", "accept"}
  BY DEF SaveUnit, Doing, Idle
<1>3. t \in Tx /\ t.req \in Request /\ RequestInv(t, revision)
  BY <1>1, <1>2 DEF TypeInv, Tx
<1>4. t.row \in Unit /\ t.row.revision <= revision
  BY <1>2, <1>3 DEF RequestInv, Tx
<1>5. t.req.unit \in Units
  BY <1>2, <1>3, RequestParts
<1>6. e \in Unit /\ e.revision = x.revision /\ e.creation_revision = x.creation_revision
  <2> HIDE DEF t
  <2> QED BY <1>2, <1>3, <1>4, EditedTyped
<1>7. rev = IF Updated(x, e) THEN revision + 1 ELSE revision
  BY Zenon DEF SavedAt
<1>8. y = [e EXCEPT !.revision = IF rev > revision THEN rev ELSE e.revision]
  BY Zenon DEF SavedUnit
<1>9. revision' = rev /\ Becomes(w, Saved(t, x, y))
  <2>1. tx' = [tx EXCEPT ![w] = Saved(t, x, y)] /\ revision' = rev
        /\ UNCHANGED <<unit, subs, suggested, data, copies>>
    BY Zenon DEF SaveUnit, Saved, SavedUnit, SavedAt
  <2> QED BY <2>1, Zenon DEF Becomes
<1>10. x.revision \in Nat
  BY <1>4 DEF Unit
<1> HIDE DEF t, e, rev, y
<1>11. rev \in Nat /\ rev >= revision
  BY <1>1, <1>7
<1>12. /\ y \in Unit /\ y.creation_revision = x.creation_revision
       /\ y.target = e.target /\ y.state = e.state /\ y.comment = e.comment
       /\ y.revision = IF rev > revision THEN rev ELSE x.revision
  BY <1>1, <1>6, <1>8, <1>11 DEF Unit
<1>13. Updated(x, y) = Updated(x, e)
  BY <1>12 DEF Updated
<1>14. IF Updated(x, y)
       THEN y.revision = revision + 1 /\ rev = revision + 1
       ELSE y.revision = x.revision /\ rev = revision
  BY <1>1, <1>7, <1>12, <1>13
<1>15. y.revision <= rev
  BY <1>1, <1>4, <1>10, <1>14
<1> QED BY <1>2, <1>3, <1>4, <1>5, <1>9, <1>11, <1>12, <1>14, <1>15 DEF t, y

\* A request that has saved its unit has its type.
LEMMA SavedTyped ==
  ASSUME NEW t \in Tx, t.req \in Request, NEW x \in Unit, NEW y \in Unit, NEW n \in Nat,
         RequestInv(t, n), t.req.op \in {"submit", "comment", "accept"}, y.revision <= n
  PROVE  TxInv(Saved(t, x, y), n)
<1> DEFINE r == Saved(t, x, y)
           drop == IF t.req.op = "accept" THEN {<<t.req.unit, t.req.suggestion>>} ELSE {}
           sub == Submissions(t.req.unit, x, y)
           wrote == [t.wrote EXCEPT ![t.req.unit] = y]
<1>1. t.req.unit \in Units
  BY RequestParts
<1>2. drop \in SUBSET (Units \X Texts)
  BY <1>1, RequestParts
<1>3. sub \in SUBSET Submission /\ \A s \in sub : s.revision <= n
  <2>1. sub \subseteq Submission
    BY <1>1, SubmissionsTyped
  <2>2. \A s \in sub : s.revision = y.revision
    BY DEF Submissions
  <2> QED BY <2>1, <2>2
<1>4. t.wrote \in StoreUnit
  BY DEF Tx
<1>5. wrote \in StoreUnit /\ Below(wrote, n)
  BY <1>1, <1>4 DEF StoreUnit, Below, RequestInv
<1>6. r = [t EXCEPT !.step = "saved", !.wrote = wrote, !.sub = sub, !.drop = drop]
  BY Zenon DEF Saved
<1> HIDE DEF drop, sub, wrote
<1>7. r \in Tx /\ r.req = t.req /\ r.row = t.row /\ r.max = t.max /\ r.sub = sub /\ r.wrote = wrote
  BY <1>2, <1>3, <1>5, <1>6 DEF Tx
<1> HIDE DEF r
<1>8. RequestInv(r, n)
  BY <1>3, <1>5, <1>7 DEF RequestInv
<1> QED BY <1>7, <1>8 DEF TxInv, r

\* Saving a unit keeps the types.
LEMMA SaveTyped ==
  ASSUME TypeInv, NEW w \in Workers, SaveUnit(w)
  PROVE  TypeInv'
<1> DEFINE t == tx[w]
           y == SavedUnit(t)
<1>1. /\ t \in Tx /\ t.req \in Request /\ t.req.op \in {"submit", "comment", "accept"}
      /\ t.row \in Unit /\ y \in Unit /\ y.revision <= revision'
      /\ revision' \in Nat /\ revision <= revision'
      /\ Becomes(w, Saved(t, t.row, y))
  BY SaveUnitParts
<1>2. revision \in Nat /\ t # NULL
  BY <1>1, NullAssumption DEF TypeInv, TypeOK
<1>3. RequestInv(t, revision)
  BY <1>2 DEF TypeInv
<1> HIDE DEF t, y
<1>4. RequestInv(t, revision')
  BY <1>1, <1>2, <1>3, RequestLater
<1>5. TxInv(Saved(t, t.row, y), revision')
  BY <1>1, <1>4, SavedTyped
<1> QED BY <1>1, <1>5, OneRequest

\* Beginning a download keeps the types.
LEMMA DownloadTyped ==
  ASSUME TypeInv, NEW w \in Workers, NEW c \in Copies, Download(w, c)
  PROVE  TypeInv'
<1> DEFINE req == [op |-> "download", copy |-> c, rev |-> data]
<1>1. data \in Nat /\ revision \in Nat /\ data <= revision
  BY DEF TypeInv, TypeOK
<1>2. req \in Request /\ req.op = "download" /\ req.rev = data
  BY <1>1 DEF Request
<1>3. Becomes(w, Loaded(req, NULL)) /\ revision' = revision
  BY DEF Download, Becomes
<1>4. req.op \notin {"submit", "comment", "accept"}
  OBVIOUS
<1> HIDE DEF req
<1>5. TxInv(Loaded(req, NULL), revision)
  BY <1>1, <1>2, <1>4, LoadedTyped
<1>6. TxInv(Loaded(req, NULL), revision') /\ revision' \in Nat /\ revision <= revision'
  BY <1>1, <1>3, <1>5
<1> QED BY <1>3, <1>6, OneRequest

\* What an update that answers o makes of the request of an upload.
Uploading(req, o, save) ==
  [Loaded(req, NULL) EXCEPT
     !.step = IF save THEN "saved" ELSE "aggregated",
     !.wrote = [u \in Units |-> IF u \in {v \in Units : o.rows[v] # unit[v]}
                                THEN o.rows[u] ELSE NULL],
     !.sub = o.subs, !.add = o.suggested]

UploadBy(w, c, wins, o, req, save) ==
  /\ req \in Request /\ req.op = "upload" /\ req.copy = c
  /\ req.file = copies[c].file /\ req.wins = wins
  /\ Idle(w) /\ copies[c] \in Copy
  /\ o = Update(unit, subs, suggested, data, copies[c].file, copies[c].rev, wins, Allow, revision)
  /\ Outcome(unit, o, revision, revision)
  /\ o.saved = FALSE => o.subs = {} /\ NoneAdded(unit, o.rows)
  /\ save = FALSE => o.saved = FALSE
  /\ save \in BOOLEAN
  /\ revision' = o.revision
  /\ Becomes(w, Uploading(req, o, save))

\* An upload writes the outcome of an update of the Store by the file.
LEMMA UploadParts ==
  ASSUME TypeInv, NEW w \in Workers, NEW c \in Copies, NEW wins \in Sides, Upload(w, c, wins)
  PROVE  \E o, req, save : UploadBy(w, c, wins, o, req, save)
<1> DEFINE file == copies[c].file
           o == Update(unit, subs, suggested, data, file, copies[c].rev, wins, Allow, revision)
           written == {u \in Units : o.rows[u] # unit[u]}
           req == [op |-> "upload", copy |-> c, file |-> file, wins |-> wins]
<1>1. /\ revision \in Nat /\ unit \in StoreUnit /\ Below(unit, revision)
      /\ copies \in [Copies -> Copy \cup {NULL}]
  BY DEF TypeInv, TypeOK
<1>2. copies[c] # NULL /\ Idle(w)
  BY DEF Upload
<1>3. file \in File
  BY <1>1, <1>2 DEF Copy
<1>4. /\ req \in Request /\ req.op = "upload" /\ req.copy = c
      /\ req.file = file /\ req.wins = wins
  <2> HIDE DEF file
  <2> QED BY <1>3 DEF Request
<1>13. copies[c] \in Copy
  BY <1>1, <1>2
<1>14. o = Update(unit, subs, suggested, data, copies[c].file, copies[c].rev, wins, Allow, revision)
  OBVIOUS
<1>5. \A u \in Units : unit[u] # NULL => unit[u].revision \in Nat
  BY <1>1 DEF StoreUnit, Unit
<1>6. /\ Outcome(unit, o, revision, revision)
      /\ o.saved = FALSE => o.subs = {} /\ NoneAdded(unit, o.rows)
  <2> DEFINE since == copies[c].rev
  <2>1. o = Update(unit, subs, suggested, data, file, since, wins, Allow, revision)
    OBVIOUS
  <2>2. revision <= revision
    BY <1>1
  <2> HIDE DEF file, o, since
  <2> QED BY <1>1, <1>3, <1>5, <2>1, <2>2, UpdateOutcome
<1>7. PICK save \in {o.saved} \cup (IF o.moved THEN {TRUE} ELSE {}) :
        tx' = [tx EXCEPT ![w] = Uploading(req, o, save)]
  BY Zenon DEF Upload, Uploading
<1>8. revision' = o.revision /\ UNCHANGED <<unit, subs, suggested, data, copies>>
  BY Zenon DEF Upload
<1>9. o.saved \in BOOLEAN
  <2>1. CASE HasChanges(unit, data, file, copies[c].rev)
    <3> DEFINE next == revision + 1
    <3>1. o = UpdateFromDiff(unit, subs, suggested, data, file, copies[c].rev, wins, Allow, next)
      BY <2>1, Zenon DEF Update
    <3> HIDE DEF o, file, next
    <3> QED BY <3>1, Zenon DEF UpdateFromDiff
  <2>2. CASE ~HasChanges(unit, data, file, copies[c].rev)
    <3>1. o = [rows |-> unit, subs |-> {}, suggested |-> {}, saved |-> FALSE,
               moved |-> FALSE, revision |-> revision]
      BY <2>2, Zenon DEF Update
    <3> HIDE DEF o, file
    <3> QED BY <3>1, Zenon
  <2> QED BY <2>1, <2>2
<1> HIDE DEF o, req
<1>10. save = o.saved \/ save = TRUE
  BY <1>7, Zenon
<1>11. save \in BOOLEAN /\ (save = FALSE => o.saved = FALSE)
  BY <1>9, <1>10, Zenon
<1>12. Becomes(w, Uploading(req, o, save))
  BY <1>7, <1>8, Zenon DEF Becomes
<1>15. UploadBy(w, c, wins, o, req, save)
  BY <1>2, <1>4, <1>6, <1>8, <1>11, <1>12, <1>13, <1>14, Zenon DEF UploadBy
<1> QED BY <1>15, Zenon

\* A request that has uploaded has its type.
LEMMA UploadingTyped ==
  ASSUME TypeInv, NEW req \in Request, req.op = "upload", NEW o, NEW n \in Nat, NEW save \in BOOLEAN,
         Outcome(unit, o, revision, n)
  PROVE  TxInv(Uploading(req, o, save), o.revision)
<1> DEFINE wrote == [u \in Units |-> IF u \in {v \in Units : o.rows[v] # unit[v]}
                                     THEN o.rows[u] ELSE NULL]
           step == IF save THEN "saved" ELSE "aggregated"
           t == Uploading(req, o, save)
<1>1. /\ o.rows \in StoreUnit /\ o.subs \in SUBSET Submission
      /\ o.suggested \in SUBSET (Units \X Texts) /\ o.revision \in Nat
      /\ Below(o.rows, o.revision) /\ \A s \in o.subs : s.revision <= o.revision
  BY DEF Outcome
<1>2. step \in {"loaded", "saved", "aggregated"}
  OBVIOUS
<1>3. wrote \in StoreUnit /\ Below(wrote, o.revision)
  BY <1>1 DEF StoreUnit, Below
<1>4. TxInv(Loaded(req, NULL), o.revision)
  <2>1. req.op # "download" /\ req.op \notin {"submit", "comment", "accept"}
    OBVIOUS
  <2> QED BY <1>1, <2>1, LoadedTyped
<1>5. t = [Loaded(req, NULL) EXCEPT !.step = step, !.wrote = wrote,
                                    !.sub = o.subs, !.add = o.suggested]
  BY Zenon DEF Uploading
<1>6. /\ Loaded(req, NULL).req = req /\ Loaded(req, NULL).row = NULL
      /\ Loaded(req, NULL).max = NULL
  BY DEF Loaded
<1> HIDE DEF step, wrote, t
<1>7. t \in Tx /\ t.req = req /\ t.row = NULL /\ t.max = NULL /\ t.sub = o.subs /\ t.wrote = wrote
  BY <1>1, <1>2, <1>3, <1>4, <1>5, <1>6 DEF TxInv, Tx
<1>8. req.op # "download" /\ req.op \notin {"submit", "comment", "accept"}
  OBVIOUS
<1>9. RequestInv(t, o.revision)
  BY <1>1, <1>3, <1>7, <1>8 DEF RequestInv
<1> QED BY <1>7, <1>9 DEF TxInv, t

\* An upload keeps the types.
LEMMA UploadTyped ==
  ASSUME TypeInv, NEW w \in Workers, NEW c \in Copies, NEW wins \in Sides, Upload(w, c, wins)
  PROVE  TypeInv'
<1>0. PICK o, req, save : UploadBy(w, c, wins, o, req, save)
  BY UploadParts, Zenon
<1>1. /\ req \in Request /\ req.op = "upload"
      /\ Outcome(unit, o, revision, revision)
      /\ save \in BOOLEAN
      /\ revision' = o.revision
      /\ Becomes(w, Uploading(req, o, save))
  BY <1>0, Zenon DEF UploadBy
<1>2. revision \in Nat
  BY DEF TypeInv, TypeOK
<1>3. TxInv(Uploading(req, o, save), o.revision)
  BY <1>1, <1>2, UploadingTyped
<1>4. o.revision \in Nat /\ revision <= o.revision
  BY <1>1 DEF Outcome
<1>5. TxInv(Uploading(req, o, save), revision') /\ revision' \in Nat /\ revision <= revision'
  BY <1>1, <1>3, <1>4
<1> QED BY <1>1, <1>5, OneRequest

\* Computing StoreData keeps the types.
LEMMA AggregateTyped ==
  ASSUME TypeInv, NEW w \in Workers, Aggregate(w)
  PROVE  TypeInv'
<1> DEFINE t == tx[w]
           max == MaxUnitRevision(View(w))
           r == [t EXCEPT !.step = "aggregated", !.max = max]
<1>1. t # NULL
  BY DEF Aggregate, Idle
<1>2. revision \in Nat /\ t \in Tx /\ RequestInv(t, revision)
  BY <1>1 DEF TypeInv, TypeOK
<1>3. View(w) \in StoreUnit /\ Below(View(w), revision)
  BY <1>1, ViewTyped
<1>4. max \in Nat /\ max <= revision
  BY <1>2, <1>3, MaxUnitRevisionTyped
<1>5. Becomes(w, r) /\ revision' = revision
  BY Zenon DEF Aggregate, Becomes
<1> HIDE DEF t, max
<1>6. r \in Tx /\ r.req = t.req /\ r.row = t.row /\ r.max = max /\ r.sub = t.sub /\ r.wrote = t.wrote
  BY <1>2, <1>4 DEF Tx
<1> HIDE DEF r
<1>7. RequestInv(r, revision)
  BY <1>2, <1>4, <1>6 DEF RequestInv
<1>8. TxInv(r, revision') /\ revision' \in Nat /\ revision <= revision'
  BY <1>2, <1>5, <1>6, <1>7 DEF TxInv
<1> QED BY <1>5, <1>8, OneRequest

\* Exporting the units keeps the types.
LEMMA ExportTyped ==
  ASSUME TypeInv, NEW w \in Workers, Export(w)
  PROVE  TypeInv'
<1> DEFINE t == tx[w]
           copy == [rev |-> t.req.rev, orig |-> Exported(unit), file |-> Exported(unit)]
<1>1. /\ t # NULL /\ t.req.op = "download"
      /\ copies' = [copies EXCEPT ![t.req.copy] = copy]
      /\ tx' = [tx EXCEPT ![w] = NULL]
      /\ UNCHANGED <<unit, subs, suggested, data, revision>>
  BY Zenon DEF Export, Doing, Idle
<1>2. /\ revision \in Nat /\ t \in Tx /\ RequestInv(t, revision) /\ t.req \in Request
      /\ unit \in StoreUnit /\ copies \in [Copies -> Copy \cup {NULL}]
      /\ tx \in [Workers -> Tx \cup {NULL}]
  BY <1>1 DEF TypeInv, TypeOK, Tx
<1>3. t.req.copy \in Copies /\ t.req.rev \in Nat /\ t.req.rev <= revision
  <2> HIDE DEF t
  <2> QED BY <1>1, <1>2, RequestParts DEF RequestInv
<1>4. Exported(unit) \in File
  BY <1>2, ExportedTyped
<1> HIDE DEF t
<1>5. copy \in Copy /\ copy.rev <= revision
  BY <1>3, <1>4 DEF Copy
<1> HIDE DEF copy
<1>6. TypeOK'
  BY <1>1, <1>2, <1>3, <1>5 DEF TypeInv, TypeOK
<1>7. \A v \in Workers : tx'[v] # NULL => tx'[v] = tx[v]
  BY <1>1, <1>2
<1>8. \A c \in Copies : copies'[c] # NULL => copies'[c] = copies[c] \/ copies'[c] = copy
  BY <1>1, <1>2
<1>9. \A c \in Copies : copies'[c] # NULL => copies'[c].rev <= revision
  BY <1>5, <1>8 DEF TypeInv
<1>10. \A v \in Workers : tx'[v] # NULL => RequestInv(tx'[v], revision)
  BY <1>7 DEF TypeInv
<1> QED BY <1>1, <1>6, <1>9, <1>10 DEF TypeInv

\* Working offline keeps the types.
LEMMA TranslateTyped ==
  ASSUME TypeInv, NEW c \in Copies, NEW u \in Units, NEW f \in OfflineUnit \cup {NULL},
         TranslateOffline(c, u, f)
  PROVE  TypeInv'
<1> DEFINE copy == [copies[c] EXCEPT !.file[u] = f]
<1>1. /\ copies[c] # NULL /\ copies' = [copies EXCEPT ![c] = copy]
      /\ UNCHANGED <<unit, subs, suggested, data, revision, tx>>
  BY Zenon DEF TranslateOffline
<1>2. copies \in [Copies -> Copy \cup {NULL}] /\ copies[c] \in Copy
  BY <1>1 DEF TypeInv, TypeOK
<1>3. f \in FileUnit \cup {NULL}
  BY DEF OfflineUnit
<1>4. [copies[c].file EXCEPT ![u] = f] \in File
  BY <1>2, <1>3 DEF Copy, File
<1>5. copy = [copies[c] EXCEPT !.file = [copies[c].file EXCEPT ![u] = f]]
  BY Zenon
<1>6. copy \in Copy /\ copy.rev = copies[c].rev
  BY <1>2, <1>4, <1>5 DEF Copy
<1> HIDE DEF copy
<1>7. TypeOK'
  BY <1>1, <1>2, <1>6 DEF TypeInv, TypeOK
<1>8. \A d \in Copies : copies'[d] # NULL => copies[d] # NULL /\ copies'[d].rev = copies[d].rev
  BY <1>1, <1>2, <1>6
<1>9. \A d \in Copies : copies'[d] # NULL => copies'[d].rev <= revision
  BY <1>8 DEF TypeInv
<1> QED BY <1>1, <1>7, <1>9 DEF TypeInv

\* A commit keeps the types.
LEMMA CommitTyped ==
  ASSUME TypeInv, NEW w \in Workers, Commit(w)
  PROVE  TypeInv'
<1> DEFINE t == tx[w]
<1>1. /\ t # NULL
      /\ unit' = View(w)
      /\ subs' = subs \cup t.sub
      /\ suggested' = (suggested \cup t.add) \ t.drop
      /\ data' = IF t.max = NULL THEN data ELSE t.max
      /\ tx' = [tx EXCEPT ![w] = NULL]
      /\ UNCHANGED <<revision, copies>>
  BY Zenon DEF Commit, Idle
<1>2. /\ revision \in Nat /\ t \in Tx /\ RequestInv(t, revision)
      /\ tx \in [Workers -> Tx \cup {NULL}]
  BY <1>1 DEF TypeInv, TypeOK
<1>3. View(w) \in StoreUnit /\ Below(View(w), revision)
  BY <1>1, ViewTyped
<1>4. t.sub \subseteq Submission /\ t.add \subseteq Units \X Texts /\ t.max \in Nat \cup {NULL}
  BY <1>2 DEF Tx
<1> HIDE DEF t
<1>5. TypeOK'
  BY <1>1, <1>2, <1>3, <1>4 DEF TypeInv, TypeOK
<1>6. \A v \in Workers : tx'[v] # NULL => tx'[v] = tx[v]
  BY <1>1, <1>2
<1>7. \A v \in Workers : tx'[v] # NULL => RequestInv(tx'[v], revision)
  BY <1>6 DEF TypeInv
<1>8. Below(unit, revision)'
  BY <1>1, <1>3
<1>9. (\A s \in subs : s.revision <= revision)'
  BY <1>1, <1>2 DEF TypeInv, RequestInv
<1>10. (data <= revision)'
  BY <1>1, <1>2 DEF TypeInv, RequestInv
<1>11. (\A c \in Copies : copies[c] # NULL => copies[c].rev <= revision)'
  BY <1>1 DEF TypeInv
<1> QED BY <1>1, <1>5, <1>7, <1>8, <1>9, <1>10, <1>11 DEF TypeInv

\* Every step keeps the types.
LEMMA TypeStep == TypeInv /\ [Next]_vars => TypeInv'
<1> SUFFICES ASSUME TypeInv, [Next]_vars PROVE TypeInv'
  OBVIOUS
<1>1. ASSUME NEW w \in Workers, Edit(w) PROVE TypeInv'
  BY <1>1, EditTyped
<1>2. ASSUME NEW w \in Workers, SaveUnit(w) PROVE TypeInv'
  BY <1>2, SaveTyped
<1>3. ASSUME NEW w \in Workers, NEW c \in Copies, Download(w, c) PROVE TypeInv'
  BY <1>3, DownloadTyped
<1>4. ASSUME NEW w \in Workers, Export(w) PROVE TypeInv'
  BY <1>4, ExportTyped
<1>5. ASSUME NEW w \in Workers, NEW c \in Copies, NEW wins \in Wins, Upload(w, c, wins)
      PROVE  TypeInv'
  <2>1. wins \in Sides
    BY OptionsAssumption
  <2> QED BY <1>5, <2>1, UploadTyped
<1>6. ASSUME NEW w \in Workers, Aggregate(w) PROVE TypeInv'
  BY <1>6, AggregateTyped
<1>7. ASSUME NEW w \in Workers, Commit(w) PROVE TypeInv'
  BY <1>7, CommitTyped
<1>8. ASSUME NEW c \in Copies, NEW u \in Units, NEW f \in OfflineUnit \cup {NULL},
             TranslateOffline(c, u, f)
      PROVE  TypeInv'
  BY <1>8, TranslateTyped
<1>9. CASE UNCHANGED vars
  BY <1>9 DEF vars, TypeInv, TypeOK, Below
<1> QED BY <1>1, <1>2, <1>3, <1>4, <1>5, <1>6, <1>7, <1>8, <1>9 DEF Next

\* TypeInv is an invariant, for any number of workers.
LEMMA Typed == Spec => []TypeInv
  BY InitTyped, TypeStep, PTL DEF Spec

\* However many workers edit, download and upload, each at its own pace, every
\* state has the types that TypeOK gives: in particular the units, submissions
\* and suggestions that an update of a Store from any file writes, and the
\* revision that StoreData takes from them.
THEOREM TypeCorrect == Spec => []TypeOK
<1>1. TypeInv => TypeOK
  BY DEF TypeInv
<1> QED BY <1>1, Typed, PTL

-----------------------------------------------------------------------------
(* One worker.  StoreData counts every change, for no other request commits *)
(* between the aggregation of one and its commit.                           *)

Alone == \A v, w \in Workers : v = w

\* What the request of w has in hand: the unit as it is, then what it has
\* written after the revision that the counter had, and then StoreData.
InHand(w) ==
  LET t == tx[w]
  IN /\ t.step = "loaded" /\ t.req.op \in {"submit", "comment", "accept"}
          => t.row = unit[t.req.unit]
     /\ t.step = "loaded" => \A u \in Units : t.wrote[u] = NULL
     /\ t.step = "loaded" /\ t.req.op = "download" => t.req.rev = data
     /\ t.step # "loaded" =>
          \E n \in Nat : /\ \A s \in subs : s.revision <= n
                         /\ \A c \in Copies : copies[c] # NULL => copies[c].rev <= n
                         /\ Recorded(unit, View(w), t.sub, n)
     /\ t.step = "aggregated" =>
          IF t.max = NULL THEN t.sub = {} /\ NoneAdded(unit, View(w))
          ELSE Below(View(w), t.max)

CountsInv ==
  /\ \A u \in Units : unit[u] # NULL => /\ unit[u].creation_revision <= data
                                        /\ unit[u].creation_revision <= unit[u].revision
  /\ \A s \in subs : /\ unit[s.unit] # NULL
                     /\ s.revision <= data /\ s.revision <= unit[s.unit].revision
  /\ \A s, t \in subs : s.unit = t.unit /\ s.revision = t.revision => s = t

AloneInv == CountsInv /\ \A w \in Workers : tx[w] # NULL => InHand(w)

\* At first, StoreData counts what is there.
LEMMA InitAlone == Init => AloneInv
<1> SUFFICES ASSUME Init PROVE AloneInv
  OBVIOUS
<1> DEFINE empty == ""
<1>1. PICK t \in [Stored -> Target] :
        unit = [u \in Units |->
                 IF u \in Stored
                 THEN [target |-> t[u], comment |-> empty,
                       state |-> IF t[u] = empty THEN UNTRANSLATED ELSE TRANSLATED,
                       revision |-> 1, creation_revision |-> 1]
                 ELSE NULL]
  BY Zenon DEF Init
<1> HIDE DEF empty
<1>2. subs = {} /\ data = 1 /\ tx = [w \in Workers |-> NULL]
  BY DEF Init
<1>3. \A u \in Units : unit[u] # NULL => unit[u].revision = 1 /\ unit[u].creation_revision = 1
  BY <1>1
<1> QED BY <1>2, <1>3 DEF AloneInv, CountsInv

\* The only request goes from one step to the next, and nothing is committed.
LEMMA NextStepAlone ==
  ASSUME Alone, TypeInv, AloneInv, NEW w \in Workers, NEW t, Becomes(w, t), InHand(w)'
  PROVE  AloneInv'
<1>1. CountsInv'
  BY DEF AloneInv, CountsInv, Becomes
<1>2. \A v \in Workers : v = w
  BY DEF Alone
<1> QED BY <1>1, <1>2 DEF AloneInv

\* A request that has just begun has in hand what is in the database.
LEMMA LoadedInHand ==
  ASSUME TypeInv, NEW w \in Workers, NEW req, NEW row, Becomes(w, Loaded(req, row)),
         req.op \in {"submit", "comment", "accept"} => row = unit[req.unit],
         req.op = "download" => req.rev = data
  PROVE  InHand(w)'
<1>1. tx' = [tx EXCEPT ![w] = Loaded(req, row)] /\ unit' = unit /\ data' = data
  BY DEF Becomes
<1>2. tx'[w] = Loaded(req, row)
  BY <1>1 DEF TypeInv, TypeOK
<1> DEFINE t == tx'[w]
<1>3. t.step = "loaded" /\ t.req = req /\ t.row = row /\ \A u \in Units : t.wrote[u] = NULL
  BY <1>2 DEF Loaded
<1> QED BY <1>1, <1>3 DEF InHand

\* Beginning an edit keeps AloneInv.
LEMMA EditAlone ==
  ASSUME Alone, TypeInv, AloneInv, NEW w \in Workers, Edit(w)
  PROVE  AloneInv'
<1>1. ASSUME NEW u \in Units, NEW req, LoadUnit(w, u, req), req.op # "download", req.unit = u
      PROVE  AloneInv'
  <2>1. Becomes(w, Loaded(req, unit[u]))
    BY <1>1 DEF LoadUnit, Becomes
  <2>2. InHand(w)'
    BY <1>1, <2>1, LoadedInHand
  <2> QED BY <2>1, <2>2, NextStepAlone
<1>2. PICK u \in Units :
        \/ \E target \in Target, fuzzy \in Fuzzy : Submit(w, u, target, fuzzy)
        \/ \E comment \in Comments : Comment(w, u, comment)
        \/ \E suggestion, target \in Texts : Accept(w, u, suggestion, target)
  BY Zenon DEF Edit
<1>3. ASSUME NEW target \in Target, NEW fuzzy \in Fuzzy, Submit(w, u, target, fuzzy)
      PROVE  AloneInv'
  <2> DEFINE req == [op |-> "submit", unit |-> u, target |-> target, fuzzy |-> fuzzy]
  <2>1. req.op # "download" /\ req.unit = u
    OBVIOUS
  <2>2. LoadUnit(w, u, req)
    BY <1>3, Zenon DEF Submit
  <2> HIDE DEF req
  <2> QED BY <1>1, <2>1, <2>2
<1>4. ASSUME NEW comment \in Comments, Comment(w, u, comment)
      PROVE  AloneInv'
  <2> DEFINE req == [op |-> "comment", unit |-> u, comment |-> comment]
  <2>1. req.op # "download" /\ req.unit = u
    OBVIOUS
  <2>2. LoadUnit(w, u, req)
    BY <1>4, Zenon DEF Comment
  <2> HIDE DEF req
  <2> QED BY <1>1, <2>1, <2>2
<1>5. ASSUME NEW suggestion \in Texts, NEW target \in Texts, Accept(w, u, suggestion, target)
      PROVE  AloneInv'
  <2> DEFINE req == [op |-> "accept", unit |-> u, suggestion |-> suggestion, target |-> target]
  <2>1. req.op # "download" /\ req.unit = u
    OBVIOUS
  <2>2. LoadUnit(w, u, req)
    BY <1>5, Zenon DEF Accept
  <2> HIDE DEF req
  <2> QED BY <1>1, <2>1, <2>2
<1> QED BY <1>2, <1>3, <1>4, <1>5

\* Beginning a download keeps AloneInv.
LEMMA DownloadAlone ==
  ASSUME Alone, TypeInv, AloneInv, NEW w \in Workers, NEW c \in Copies, Download(w, c)
  PROVE  AloneInv'
<1> DEFINE req == [op |-> "download", copy |-> c, rev |-> data]
<1>1. Becomes(w, Loaded(req, NULL))
  BY DEF Download, Becomes
<1>2. req.op \notin {"submit", "comment", "accept"} /\ req.rev = data
  OBVIOUS
<1> HIDE DEF req
<1>3. InHand(w)'
  BY <1>1, <1>2, LoadedInHand
<1> QED BY <1>1, <1>3, NextStepAlone

\* The request of w has written what takes the units from unit to rows.
LEMMA WroteInHand ==
  ASSUME TypeInv, NEW w \in Workers, NEW t, Becomes(w, t), t.step \in {"saved", "aggregated"},
         NEW rows \in StoreUnit, Recorded(unit, rows, t.sub, revision),
         \A u \in Units : rows[u] = IF t.wrote[u] # NULL THEN t.wrote[u] ELSE unit[u],
         t.step = "aggregated" => t.max = NULL /\ t.sub = {} /\ NoneAdded(unit, rows)
  PROVE  InHand(w)'
<1>1. tx' = [tx EXCEPT ![w] = t] /\ UNCHANGED <<unit, subs, suggested, data, copies>>
  BY DEF Becomes
<1>2. tx'[w] = t
  BY <1>1 DEF TypeInv, TypeOK
<1>3. View(w)' = [u \in Units |-> IF t.wrote[u] # NULL THEN t.wrote[u] ELSE unit[u]]
  BY <1>1, <1>2 DEF View
<1>4. View(w)' = rows
  BY <1>3 DEF StoreUnit
<1>5. revision \in Nat /\ (\A s \in subs : s.revision <= revision)
      /\ \A c \in Copies : copies[c] # NULL => copies[c].rev <= revision
  BY DEF TypeInv, TypeOK
<1>6. \E n \in Nat : /\ \A s \in subs' : s.revision <= n
                     /\ \A c \in Copies : copies'[c] # NULL => copies'[c].rev <= n
                     /\ Recorded(unit', View(w)', tx'[w].sub, n)
  BY <1>1, <1>2, <1>4, <1>5
<1> QED BY <1>1, <1>2, <1>4, <1>6 DEF InHand

\* The save of one unit is what an update would record of it.
LEMMA OneRecorded ==
  ASSUME NEW rows \in StoreUnit, NEW n \in Nat, Below(rows, n), NEW u \in Units, rows[u] # NULL,
         NEW y \in Unit, y.creation_revision = rows[u].creation_revision,
         IF Updated(rows[u], y) THEN y.revision = n + 1 ELSE y.revision = rows[u].revision,
         NEW after, after = [rows EXCEPT ![u] = y]
  PROVE  Recorded(rows, after, Submissions(u, rows[u], y), n)
<1> DEFINE x == rows[u]
           rev == n + 1
<1>1. x \in Unit
  BY DEF StoreUnit
<1>2. y = x \/ y.revision = rev
  <2>1. CASE Updated(x, y)
    BY <2>1
  <2>2. CASE ~Updated(x, y)
    BY <1>1, <2>2 DEF Updated, Unit
  <2> QED BY <2>1, <2>2
<1>3. Written(x, y, rev)
  BY <1>2 DEF Written
<1>4. rev \in Nat /\ n < rev
  OBVIOUS
<1>5. \A v \in Units : after[v] = IF v = u THEN y ELSE rows[v]
  BY DEF StoreUnit
<1>6. after \in StoreUnit
  BY DEF StoreUnit
<1> HIDE DEF rev
<1>7. AllWritten(rows, after, rev)
  BY <1>3, <1>5 DEF AllWritten, Written
<1>8. AllBumped(after, after, rev)
  BY DEF AllBumped
<1>9. Submissions(u, x, y) = AllSubmissions(rows, after)
  <2>1. ASSUME NEW v \in In(rows)
        PROVE  Submissions(v, rows[v], after[v]) = IF v = u THEN Submissions(u, x, y) ELSE {}
    <3>1. CASE v = u
      <4>1. after[v] = y
        BY <1>5, <3>1
      <4> QED BY <3>1, <4>1
    <3>2. CASE v # u
      <4>1. after[v] = rows[v]
        BY <1>5, <3>2 DEF In
      <4>2. Submissions(v, rows[v], rows[v]) = {}
        BY DEF Submissions
      <4> QED BY <3>2, <4>1, <4>2
    <3> QED BY <3>1, <3>2
  <2>2. u \in In(rows)
    BY DEF In
  <2> QED BY <2>1, <2>2 DEF AllSubmissions
<1> QED BY <1>4, <1>6, <1>7, <1>8, <1>9, BumpedRecorded

\* Saving a unit keeps AloneInv: what it writes has a revision after all others.
LEMMA SaveAlone ==
  ASSUME Alone, TypeInv, AloneInv, NEW w \in Workers, SaveUnit(w)
  PROVE  AloneInv'
<1> DEFINE t == tx[w]
           x == t.row
           y == SavedUnit(t)
           u == t.req.unit
           r == Saved(t, x, y)
           rows == [unit EXCEPT ![u] = y]
<1>1. /\ t \in Tx /\ t.req \in Request /\ t.step = "loaded"
      /\ t.req.op \in {"submit", "comment", "accept"} /\ u \in Units
      /\ x \in Unit
      /\ y \in Unit /\ y.creation_revision = x.creation_revision
      /\ IF Updated(x, y)
         THEN y.revision = revision + 1 /\ revision' = revision + 1
         ELSE y.revision = x.revision /\ revision' = revision
      /\ Becomes(w, r)
  BY SaveUnitParts
<1>2. t # NULL /\ x # NULL /\ y # NULL
  BY <1>1, NullAssumption
<1>3. unit \in StoreUnit /\ revision \in Nat /\ Below(unit, revision)
  BY DEF TypeInv, TypeOK
<1>4. InHand(w)
  BY <1>2 DEF AloneInv
<1>5. x = unit[u] /\ \A v \in Units : t.wrote[v] = NULL
  BY <1>1, <1>4 DEF InHand
<1>6. /\ r.step = "saved" /\ r.sub = Submissions(u, x, y)
      /\ \A v \in Units : r.wrote[v] = IF v = u THEN y ELSE NULL
  <2>1. t.wrote \in StoreUnit
    BY <1>1 DEF Tx
  <2>2. /\ r.step = "saved" /\ r.sub = Submissions(u, x, y)
        /\ r.wrote = [t.wrote EXCEPT ![u] = y]
    <3> HIDE DEF t, y
    <3> QED BY <1>1 DEF Saved, Tx
  <2> HIDE DEF t, y, r
  <2> QED BY <1>1, <1>5, <2>1, <2>2 DEF StoreUnit
<1> HIDE DEF t, y, r
<1>7. \A v \in Units : rows[v] = IF r.wrote[v] # NULL THEN r.wrote[v] ELSE unit[v]
  BY <1>1, <1>2, <1>3, <1>6 DEF StoreUnit
<1>8. rows \in StoreUnit
  BY <1>1, <1>3 DEF StoreUnit
<1>9. Recorded(unit, rows, r.sub, revision)
  <2>1. IF Updated(unit[u], y) THEN y.revision = revision + 1 ELSE y.revision = unit[u].revision
    BY <1>1, <1>5
  <2>2. rows = [unit EXCEPT ![u] = y] /\ unit[u] # NULL
        /\ y.creation_revision = unit[u].creation_revision
    BY <1>1, <1>2, <1>5
  <2> HIDE DEF rows
  <2>3. Recorded(unit, rows, Submissions(u, unit[u], y), revision)
    BY <1>1, <1>3, <2>1, <2>2, OneRecorded
  <2> QED BY <1>5, <1>6, <2>3
<1> HIDE DEF rows
<1>10. InHand(w)'
  <2>1. r.step \in {"saved", "aggregated"} /\ ~(r.step = "aggregated")
    BY <1>6
  <2> QED BY <1>1, <1>7, <1>8, <1>9, <2>1, WroteInHand
<1> QED BY <1>1, <1>10, NextStepAlone

\* An upload keeps AloneInv.
LEMMA UploadAlone ==
  ASSUME Alone, TypeInv, AloneInv, NEW w \in Workers, NEW c \in Copies, NEW wins \in Sides,
         Upload(w, c, wins)
  PROVE  AloneInv'
<1>0. PICK o, req, save : UploadBy(w, c, wins, o, req, save)
  BY UploadParts, Zenon
<1>1. /\ Outcome(unit, o, revision, revision)
      /\ o.saved = FALSE => o.subs = {} /\ NoneAdded(unit, o.rows)
      /\ save = FALSE => o.saved = FALSE
      /\ save \in BOOLEAN
      /\ Becomes(w, Uploading(req, o, save))
  BY <1>0, Zenon DEF UploadBy
<1> DEFINE t == Uploading(req, o, save)
           wrote == [u \in Units |-> IF u \in {v \in Units : o.rows[v] # unit[v]}
                                     THEN o.rows[u] ELSE NULL]
           step == IF save THEN "saved" ELSE "aggregated"
<1>2. t = [Loaded(req, NULL) EXCEPT !.step = step, !.wrote = wrote,
                                    !.sub = o.subs, !.add = o.suggested]
  BY Zenon DEF Uploading
<1>3. \A u \in Units : wrote[u] = IF o.rows[u] # unit[u] THEN o.rows[u] ELSE NULL
  OBVIOUS
<1>4. step \in {"saved", "aggregated"} /\ (step = "aggregated" => save = FALSE)
  BY <1>1
<1> HIDE DEF step, wrote, t
<1>5. t.step = step /\ t.wrote = wrote /\ t.sub = o.subs /\ t.max = NULL
  BY <1>2 DEF Loaded
<1>6. o.rows \in StoreUnit /\ Recorded(unit, o.rows, t.sub, revision)
  BY <1>1, <1>5 DEF Outcome
<1>7. \A u \in Units : unit[u] # NULL => o.rows[u] # NULL
  BY <1>6 DEF Recorded
<1>8. \A u \in Units : o.rows[u] = IF t.wrote[u] # NULL THEN t.wrote[u] ELSE unit[u]
  BY <1>3, <1>5, <1>7
<1>9. t.step = "aggregated" => t.max = NULL /\ t.sub = {} /\ NoneAdded(unit, o.rows)
  BY <1>1, <1>4, <1>5
<1>10. Becomes(w, t)
  BY <1>1 DEF t
<1>11. InHand(w)'
  <2>1. t.step \in {"saved", "aggregated"}
    BY <1>4, <1>5
  <2> QED BY <1>6, <1>8, <1>9, <1>10, <2>1, WroteInHand
<1> QED BY <1>10, <1>11, NextStepAlone

\* Computing StoreData keeps AloneInv.
LEMMA AggregateAlone ==
  ASSUME Alone, TypeInv, AloneInv, NEW w \in Workers, Aggregate(w)
  PROVE  AloneInv'
<1> DEFINE t == tx[w]
           max == MaxUnitRevision(View(w))
           r == [t EXCEPT !.step = "aggregated", !.max = max]
<1>1. t # NULL /\ t.step = "saved" /\ Becomes(w, r)
  BY Zenon DEF Aggregate, Becomes, Idle
<1>2. t \in Tx /\ revision \in Nat
  BY <1>1 DEF TypeInv, TypeOK
<1>3. View(w) \in StoreUnit /\ Below(View(w), revision)
  BY <1>1, ViewTyped
<1>4. max \in Nat /\ Below(View(w), max)
  BY <1>2, <1>3, MaxUnitRevisionTyped
<1>5. InHand(w)
  BY <1>1 DEF AloneInv
<1>6. max # NULL
  BY <1>4, NullAssumption
<1>7. PICK n \in Nat : /\ \A s \in subs : s.revision <= n
                       /\ \A c \in Copies : copies[c] # NULL => copies[c].rev <= n
                       /\ Recorded(unit, View(w), t.sub, n)
  BY <1>1, <1>5 DEF InHand
<1>8. tx'[w] = r /\ UNCHANGED <<unit, subs, data, copies>>
  BY <1>1 DEF Becomes, TypeInv, TypeOK
<1> HIDE DEF t, max
<1>9. r.step = "aggregated" /\ r.wrote = t.wrote /\ r.sub = t.sub /\ r.max = max
  BY <1>2 DEF Tx
<1> HIDE DEF r
<1>10. View(w)' = View(w)
  BY <1>8, <1>9 DEF View, t
<1>11. InHand(w)'
  BY <1>4, <1>6, <1>7, <1>8, <1>9, <1>10 DEF InHand
<1> QED BY <1>1, <1>11, NextStepAlone

\* Exporting the units keeps AloneInv.
LEMMA ExportAlone ==
  ASSUME Alone, TypeInv, AloneInv, NEW w \in Workers, Export(w)
  PROVE  AloneInv'
<1>1. tx' = [tx EXCEPT ![w] = NULL] /\ UNCHANGED <<unit, subs, data>>
  BY DEF Export
<1>2. \A v \in Workers : v = w
  BY DEF Alone
<1>3. \A v \in Workers : tx'[v] = NULL
  BY <1>1, <1>2 DEF TypeInv, TypeOK
<1>4. CountsInv'
  BY <1>1 DEF AloneInv, CountsInv
<1> QED BY <1>3, <1>4 DEF AloneInv

\* Working offline keeps AloneInv.
LEMMA TranslateAlone ==
  ASSUME Alone, TypeInv, AloneInv, NEW c \in Copies, NEW u \in Units,
         NEW f \in OfflineUnit \cup {NULL}, TranslateOffline(c, u, f)
  PROVE  AloneInv'
<1> DEFINE copy == [copies[c] EXCEPT !.file[u] = f]
<1>1. /\ copies[c] # NULL /\ copies' = [copies EXCEPT ![c] = copy]
      /\ UNCHANGED <<unit, subs, data, revision, tx>>
  BY Zenon DEF TranslateOffline
<1>2. copies \in [Copies -> Copy \cup {NULL}] /\ copies[c] \in Copy
  BY <1>1 DEF TypeInv, TypeOK
<1>3. copy.rev = copies[c].rev
  BY <1>2 DEF Copy
<1> HIDE DEF copy
<1>4. \A d \in Copies : copies'[d] # NULL => copies[d] # NULL /\ copies'[d].rev = copies[d].rev
  BY <1>1, <1>2, <1>3
<1>5. CountsInv'
  BY <1>1 DEF AloneInv, CountsInv
<1>6. ASSUME NEW w \in Workers, tx'[w] # NULL
      PROVE  InHand(w)'
  <2>1. InHand(w)
    BY <1>1, <1>6 DEF AloneInv
  <2>2. View(w)' = View(w)
    BY <1>1 DEF View
  <2>3. tx[w].step # "loaded" =>
          \E n \in Nat : /\ \A s \in subs : s.revision <= n
                         /\ \A d \in Copies : copies'[d] # NULL => copies'[d].rev <= n
                         /\ Recorded(unit, View(w), tx[w].sub, n)
    BY <1>4, <2>1 DEF InHand
  <2> QED BY <1>1, <2>1, <2>2, <2>3 DEF InHand
<1> QED BY <1>5, <1>6 DEF AloneInv

\* A commit keeps AloneInv: what becomes visible was counted.
LEMMA CommitAlone ==
  ASSUME Alone, TypeInv, AloneInv, NEW w \in Workers, Commit(w)
  PROVE  AloneInv'
<1> DEFINE t == tx[w]
           V == View(w)
<1>1. /\ t # NULL /\ t.step = "aggregated"
      /\ unit' = V
      /\ subs' = subs \cup t.sub
      /\ data' = IF t.max = NULL THEN data ELSE t.max
      /\ tx' = [tx EXCEPT ![w] = NULL]
  BY Zenon DEF Commit, Idle
<1>2. InHand(w)
  BY <1>1 DEF AloneInv
<1>3. PICK n \in Nat : /\ \A s \in subs : s.revision <= n
                       /\ Recorded(unit, V, t.sub, n)
  BY <1>1, <1>2 DEF InHand
<1>4. IF t.max = NULL THEN t.sub = {} /\ NoneAdded(unit, V) ELSE Below(V, t.max)
  BY <1>1, <1>2 DEF InHand
<1>5. /\ V \in StoreUnit /\ unit \in StoreUnit /\ data \in Nat /\ t \in Tx
      /\ subs \subseteq Submission
  BY <1>1, ViewTyped DEF TypeInv, TypeOK
<1>6. t.max \in Nat \cup {NULL} /\ t.sub \subseteq Submission
  BY <1>5 DEF Tx
<1>7. tx'[w] = NULL /\ \A v \in Workers : v = w
  BY <1>1 DEF Alone, TypeInv, TypeOK
<1>8. \A u \in Units : V[u] # NULL => V[u] \in Unit /\ V[u].revision \in Nat /\ V[u].creation_revision \in Nat
  BY <1>5 DEF StoreUnit, Unit
<1>9. \A u \in Units : unit[u] # NULL =>
        /\ unit[u].revision \in Nat /\ unit[u].creation_revision \in Nat
        /\ unit[u].creation_revision <= data /\ unit[u].creation_revision <= unit[u].revision
        /\ V[u] # NULL /\ V[u].creation_revision = unit[u].creation_revision
        /\ unit[u].revision <= V[u].revision
  BY <1>3, <1>5 DEF AloneInv, CountsInv, StoreUnit, Unit, Recorded
<1>10. \A u \in Units : unit[u] = NULL /\ V[u] # NULL => V[u].creation_revision <= V[u].revision
  BY <1>3 DEF Recorded
<1>11. \A s \in subs \cup t.sub : s.unit \in Units /\ s.revision \in Nat
  BY <1>5, <1>6 DEF Submission
<1>12. \A s \in subs : /\ unit[s.unit] # NULL /\ s.revision <= n
                       /\ s.revision <= data /\ s.revision <= unit[s.unit].revision
  BY <1>3 DEF AloneInv, CountsInv
<1>13. \A s \in t.sub : /\ unit[s.unit] # NULL /\ n < s.revision
                        /\ s.revision <= V[s.unit].revision
                        /\ \A r \in t.sub : r.unit = s.unit => r = s
  BY <1>3 DEF Recorded
<1>14. \A s \in subs \cup t.sub : V[s.unit] # NULL /\ s.revision <= V[s.unit].revision
  BY <1>8, <1>9, <1>11, <1>12, <1>13
<1>15. \A u \in Units : V[u] # NULL => V[u].creation_revision <= V[u].revision
  BY <1>8, <1>9, <1>10
<1>16. ASSUME NEW u \in Units, V[u] # NULL
       PROVE  V[u].creation_revision <= data'
  <2>1. CASE t.max = NULL
    BY <1>1, <1>4, <1>9, <1>16, <2>1 DEF NoneAdded
  <2>2. CASE t.max # NULL
    BY <1>1, <1>4, <1>6, <1>8, <1>15, <1>16, <2>2 DEF Below
  <2> QED BY <2>1, <2>2
<1>17. ASSUME NEW s \in subs \cup t.sub
       PROVE  s.revision <= data'
  <2>1. CASE t.max = NULL
    BY <1>1, <1>4, <1>12, <1>17, <2>1
  <2>2. CASE t.max # NULL
    BY <1>1, <1>4, <1>6, <1>8, <1>11, <1>14, <1>17, <2>2 DEF Below
  <2> QED BY <2>1, <2>2
<1>18. ASSUME NEW s \in subs \cup t.sub, NEW r \in subs \cup t.sub,
              s.unit = r.unit, s.revision = r.revision
       PROVE  s = r
  <2>1. CASE s \in subs /\ r \in subs
    BY <1>18, <2>1 DEF AloneInv, CountsInv
  <2>2. CASE s \in t.sub /\ r \in t.sub
    BY <1>13, <1>18, <2>2
  <2>3. ~(s \in subs /\ r \in t.sub) /\ ~(r \in subs /\ s \in t.sub)
    BY <1>11, <1>12, <1>13, <1>18
  <2> QED BY <2>1, <2>2, <2>3
<1> HIDE DEF t, V
<1>19. CountsInv'
  BY <1>1, <1>14, <1>15, <1>16, <1>17, <1>18 DEF CountsInv
<1> QED BY <1>7, <1>19 DEF AloneInv

\* Every step keeps AloneInv.
LEMMA AloneStep == Alone /\ TypeInv /\ AloneInv /\ [Next]_vars => AloneInv'
<1> SUFFICES ASSUME Alone, TypeInv, AloneInv, [Next]_vars PROVE AloneInv'
  OBVIOUS
<1>1. ASSUME NEW w \in Workers, Edit(w) PROVE AloneInv'
  BY <1>1, EditAlone
<1>2. ASSUME NEW w \in Workers, SaveUnit(w) PROVE AloneInv'
  BY <1>2, SaveAlone
<1>3. ASSUME NEW w \in Workers, NEW c \in Copies, Download(w, c) PROVE AloneInv'
  BY <1>3, DownloadAlone
<1>4. ASSUME NEW w \in Workers, Export(w) PROVE AloneInv'
  BY <1>4, ExportAlone
<1>5. ASSUME NEW w \in Workers, NEW c \in Copies, NEW wins \in Wins, Upload(w, c, wins)
      PROVE  AloneInv'
  <2>1. wins \in Sides
    BY OptionsAssumption
  <2> QED BY <1>5, <2>1, UploadAlone
<1>6. ASSUME NEW w \in Workers, Aggregate(w) PROVE AloneInv'
  BY <1>6, AggregateAlone
<1>7. ASSUME NEW w \in Workers, Commit(w) PROVE AloneInv'
  BY <1>7, CommitAlone
<1>8. ASSUME NEW c \in Copies, NEW u \in Units, NEW f \in OfflineUnit \cup {NULL},
             TranslateOffline(c, u, f)
      PROVE  AloneInv'
  BY <1>8, TranslateAlone
<1>9. CASE UNCHANGED vars
  <2>1. UNCHANGED <<unit, subs, data, copies, tx>>
    BY <1>9 DEF vars
  <2>2. \A w \in Workers : InHand(w) => InHand(w)'
    BY <2>1 DEF InHand, View
  <2> QED BY <2>1, <2>2 DEF AloneInv, CountsInv
<1> QED BY <1>1, <1>2, <1>3, <1>4, <1>5, <1>6, <1>7, <1>8, <1>9 DEF Next

\* AloneInv is an invariant for one worker.
LEMMA AloneHolds ==
  ASSUME Alone
  PROVE  Spec => []AloneInv
<1>1. Init => AloneInv
  BY InitAlone
<1>2. TypeInv /\ AloneInv /\ [Next]_vars => AloneInv'
  BY AloneStep
<1> QED BY <1>1, <1>2, Typed, PTL DEF Spec

\* With one worker, no change that is on record is later than StoreData: a
\* download is stamped with a revision after all that it holds, so that the
\* upload takes none of it for a change made since.  It holds for any units and
\* texts, with units added, made obsolete and marked as needing work.
THEOREM StoreDataKeepsUp ==
  ASSUME \A v, w \in Workers : v = w
  PROVE  Spec => []StoreDataCountsChanges
<1>1. AloneInv => StoreDataCountsChanges
  BY DEF AloneInv, CountsInv, StoreDataCountsChanges
<1>2. Alone
  BY DEF Alone
<1>3. Spec => []AloneInv
  BY <1>2, AloneHolds
<1> QED BY <1>1, <1>3, PTL

-----------------------------------------------------------------------------
(* The submissions take a unit back to what it was when it was downloaded.  *)
(* The first change after a revision stays the first one, for what is       *)
(* written later has later revisions; if there is none, the unit still is   *)
(* what it was.                                                             *)

\* What the record says of a field of a unit at a revision.
Value(rows, ss, u, field, rev) ==
  IF Later(ss, u, field, rev) = {} THEN rows[u][field]
  ELSE FirstChange(ss, u, field, rev).old[field]

Fields == {"target", "state"}

\* Of some submissions one is the first.
LEMMA HasFirst ==
  ASSUME NEW n \in Nat, NEW L, L # {}, \A s \in L : s.revision \in 0..n
  PROVE  \E m \in L : \A t \in L : m.revision <= t.revision
<1> DEFINE S == {n - s.revision : s \in L}
<1>1. S \in SUBSET (0..n) /\ S # {}
  OBVIOUS
<1>2. PICK x \in S : \A y \in S : y <= x
  <2> HIDE DEF S
  <2> QED BY <1>1, BoundedHasLargest
<1>3. PICK m \in L : x = n - m.revision
  OBVIOUS
<1>4. ASSUME NEW t \in L PROVE m.revision <= t.revision
  <2>1. n - t.revision <= n - m.revision
    BY <1>2, <1>3
  <2>2. t.revision \in 0..n /\ m.revision \in 0..n
    OBVIOUS
  <2> QED BY <2>1, <2>2
<1> QED BY <1>4

\* The first change since a revision is the one that comes before all others.
LEMMA FirstChangeIs ==
  ASSUME NEW ss, NEW u, NEW field, NEW rev, NEW m \in Later(ss, u, field, rev),
         \A t \in Later(ss, u, field, rev) :
           m.revision <= t.revision /\ (t.revision <= m.revision => t = m)
  PROVE  FirstChange(ss, u, field, rev) = m
<1> DEFINE L == Later(ss, u, field, rev)
<1>1. FirstChange(ss, u, field, rev) = CHOOSE s \in L : \A t \in L : s.revision <= t.revision
  BY DEF FirstChange
<1> HIDE DEF L
<1>2. m \in L /\ \A t \in L : m.revision <= t.revision /\ (t.revision <= m.revision => t = m)
  BY DEF L
<1> QED BY <1>1, <1>2

Distinct(ss) == \A s, t \in ss : s.unit = t.unit /\ s.revision = t.revision => s = t

\* What the record says a field was at a revision stays so when a request records
\* its changes.
LEMMA ValueKept ==
  ASSUME NEW rows, NEW after, NEW ss \in SUBSET Submission, NEW sub \in SUBSET Submission,
         NEW n \in Nat, \A s \in ss : s.revision <= n, Distinct(ss),
         Recorded(rows, after, sub, n),
         NEW rev \in Nat, rev <= n, NEW u \in Units, rows[u] # NULL, NEW field \in Fields
  PROVE  Value(after, ss \cup sub, u, field, rev) = Value(rows, ss, u, field, rev)
<1> DEFINE L == Later(ss, u, field, rev)
           M == {s \in sub : s.unit = u /\ Changes(s, field)}
           both == ss \cup sub
<1>1. \A s \in ss \cup sub : s.revision \in Nat
  BY DEF Submission
<1>2. \A s \in sub : /\ n < s.revision
                     /\ s.unit = u => /\ s.old.target = rows[u].target /\ s.old.state = rows[u].state
                                      /\ s.new.target = after[u].target
                                      /\ s.new.state = after[u].state
                     /\ \A t \in sub : t.unit = s.unit => t = s
  BY DEF Recorded
<1>3. \A s \in sub : s.unit = u => s.old[field] = rows[u][field] /\ s.new[field] = after[u][field]
  <2>1. CASE field = "target"
    BY <1>2, <2>1
  <2>2. CASE field = "state"
    BY <1>2, <2>2
  <2> QED BY <2>1, <2>2 DEF Fields
<1>4. Later(both, u, field, rev) = L \cup M
  <2>1. \A s \in sub : s.revision > rev
    BY <1>1, <1>2
  <2> QED BY <2>1 DEF Later
<1>5. CASE L # {}
  <2>1. \A s \in L : s \in ss /\ s.unit = u /\ s.revision \in 0..n
    BY <1>1 DEF Later
  <2>2. PICK m \in L : \A t \in L : m.revision <= t.revision
    <3> HIDE DEF L
    <3> QED BY <1>5, <2>1, HasFirst
  <2>3. \A t \in L : t.revision <= m.revision => t = m
    <3> SUFFICES ASSUME NEW t \in L, t.revision <= m.revision PROVE t = m
      OBVIOUS
    <3> HIDE DEF L
    <3>1. t.revision = m.revision
      BY <2>1, <2>2
    <3> QED BY <2>1, <3>1 DEF Distinct
  <2>4. FirstChange(ss, u, field, rev) = m
    BY <2>2, <2>3, FirstChangeIs
  <2>5. \A t \in M : m.revision <= t.revision /\ ~(t.revision <= m.revision)
    <3> HIDE DEF L
    <3> QED BY <1>1, <1>2, <2>1
  <2>6. FirstChange(both, u, field, rev) = m
    <3> DEFINE K == Later(both, u, field, rev)
    <3>1. m \in K /\ \A t \in K : m.revision <= t.revision /\ (t.revision <= m.revision => t = m)
      <4> HIDE DEF L, M, both
      <4> QED BY <1>4, <2>2, <2>3, <2>5
    <3> HIDE DEF both
    <3> QED BY <3>1, FirstChangeIs
  <2>7. Later(both, u, field, rev) # {}
    BY <1>4, <1>5
  <2> HIDE DEF both, L, M
  <2> QED BY <1>5, <2>4, <2>6, <2>7 DEF Value, L, both
<1>6. CASE L = {} /\ M # {}
  <2>1. PICK s \in M : TRUE
    BY <1>6
  <2>2. M = {s}
    BY <1>2, <2>1
  <2>3. Later(both, u, field, rev) = {s}
    BY <1>4, <1>6, <2>2
  <2>4. s.revision <= s.revision
    BY <1>1, <2>1
  <2>5. FirstChange(both, u, field, rev) = s
    <3> HIDE DEF both, L, M
    <3> QED BY <2>3, <2>4, FirstChangeIs
  <2>6. s.old[field] = rows[u][field]
    BY <1>3, <2>1
  <2> HIDE DEF both, L, M
  <2> QED BY <1>6, <2>3, <2>5, <2>6 DEF Value, L, both
<1>7. CASE L = {} /\ M = {}
  <2>1. after[u][field] = rows[u][field]
    <3>1. CASE after[u].target = rows[u].target /\ after[u].state = rows[u].state
      <4>1. CASE field = "target"
        BY <3>1, <4>1
      <4>2. CASE field = "state"
        BY <3>1, <4>2
      <4> QED BY <4>1, <4>2 DEF Fields
    <3>2. CASE \E s \in sub : s.unit = u
      <4>1. PICK s \in sub : s.unit = u
        BY <3>2
      <4>2. ~Changes(s, field)
        BY <1>7, <4>1
      <4> QED BY <1>3, <4>1, <4>2 DEF Changes
    <3> QED BY <3>1, <3>2 DEF Recorded
  <2>2. Later(both, u, field, rev) = {}
    BY <1>4, <1>7
  <2> HIDE DEF both, L, M
  <2> QED BY <1>7, <2>1, <2>2 DEF Value, L, both
<1> QED BY <1>5, <1>6, <1>7

\* What the record says of a unit that was downloaded as f at a revision: it
\* has its target and was not obsolete, and if the file does not have it, it was
\* not there yet or obsolete.
Origin(rows, ss, u, rev, f) ==
  IF f = NULL
  THEN rows[u] # NULL /\ rows[u].creation_revision <= rev
         => Value(rows, ss, u, "state", rev) = OBSOLETE
  ELSE /\ rows[u] # NULL /\ rows[u].creation_revision <= rev
       /\ f.target = Value(rows, ss, u, "target", rev)
       /\ Value(rows, ss, u, "state", rev) # OBSOLETE

DownloadInv ==
  \A c \in Copies : copies[c] # NULL =>
    \A u \in Units : Origin(unit, subs, u, copies[c].rev, copies[c].orig[u])

\* A file that is downloaded holds what the record gives back.
LEMMA ExportDownloads ==
  ASSUME Alone, TypeInv, AloneInv, DownloadInv, NEW w \in Workers, Export(w)
  PROVE  DownloadInv'
<1> DEFINE t == tx[w]
           copy == [rev |-> t.req.rev, orig |-> Exported(unit), file |-> Exported(unit)]
<1>1. /\ t # NULL /\ t.req.op = "download" /\ t.step = "loaded"
      /\ copies' = [copies EXCEPT ![t.req.copy] = copy]
      /\ UNCHANGED <<unit, subs, data>>
  BY Zenon DEF Export, Doing, Idle
<1>2. /\ unit \in StoreUnit /\ copies \in [Copies -> Copy \cup {NULL}] /\ data \in Nat
      /\ subs \subseteq Submission
  BY DEF TypeInv, TypeOK
<1>3. t.req.rev = data
  BY <1>1 DEF AloneInv, InHand
<1>4. copy.rev = data /\ copy.orig = Exported(unit)
  BY <1>3
<1>5. \A c \in Copies : copies'[c] # NULL => copies'[c] = copies[c] \/ copies'[c] = copy
  BY <1>1, <1>2
<1> HIDE DEF t, copy
<1>6. ASSUME NEW u \in Units PROVE Origin(unit, subs, u, data, Exported(unit)[u])
  <2>1. \A field : Later(subs, u, field, data) = {}
    <3>1. \A s \in subs : s.revision \in Nat /\ s.revision <= data
      BY <1>2 DEF AloneInv, CountsInv, Submission
    <3> QED BY <1>2, <3>1 DEF Later
  <2>2. Value(unit, subs, u, "state", data) = unit[u].state
        /\ Value(unit, subs, u, "target", data) = unit[u].target
    BY <2>1 DEF Value
  <2>3. CASE Live(unit[u])
    <3>1. Exported(unit)[u] = Convert(unit[u])
      BY <2>3 DEF Exported
    <3>2. unit[u] \in Unit /\ unit[u] # NULL
      BY <1>2, <2>3 DEF StoreUnit, Live
    <3>3. Convert(unit[u]) \in FileUnit
      <4>1. (unit[u].state = FUZZY) \in BOOLEAN /\ (unit[u].state = OBSOLETE) \in BOOLEAN
        BY Zenon
      <4>2. unit[u].target \in Target /\ unit[u].comment \in Comments
        BY <3>2 DEF Unit
      <4> QED BY <4>1, <4>2, Zenon DEF Convert, FileUnit
    <3>4. Convert(unit[u]) # NULL
      BY <3>3, NullAssumption
    <3>5. Convert(unit[u]).target = unit[u].target
      BY Zenon DEF Convert
    <3>6. unit[u].creation_revision <= data
      BY <3>2 DEF AloneInv, CountsInv
    <3>7. unit[u].state # OBSOLETE
      BY <2>3 DEF Live, OBSOLETE
    <3> QED BY <2>2, <3>1, <3>2, <3>4, <3>5, <3>6, <3>7 DEF Origin
  <2>4. CASE ~Live(unit[u])
    <3>1. Exported(unit)[u] = NULL
      BY <2>4 DEF Exported
    <3>2. unit[u] # NULL => unit[u].state = OBSOLETE
      BY <1>2, <2>4 DEF Live, StoreUnit, Unit, States, OBSOLETE, UNTRANSLATED, FUZZY, TRANSLATED
    <3> QED BY <2>2, <3>1, <3>2 DEF Origin
  <2> QED BY <2>3, <2>4
<1>7. ASSUME NEW c \in Copies, copies'[c] # NULL, NEW u \in Units
      PROVE  Origin(unit, subs, u, copies'[c].rev, copies'[c].orig[u])
  <2>1. CASE copies'[c] = copies[c]
    BY <1>7, <2>1 DEF DownloadInv
  <2>2. CASE copies'[c] = copy
    BY <1>4, <1>6, <2>2
  <2> QED BY <1>5, <1>7, <2>1, <2>2
<1> QED BY <1>1, <1>7 DEF DownloadInv

\* Working offline does not change what was downloaded.
LEMMA TranslateKeepsOrigin ==
  ASSUME TypeInv, NEW c \in Copies, NEW u, NEW f, TranslateOffline(c, u, f)
  PROVE  \A d \in Copies : copies'[d] # NULL =>
           /\ copies[d] # NULL
           /\ copies'[d].rev = copies[d].rev /\ copies'[d].orig = copies[d].orig
<1> DEFINE copy == [copies[c] EXCEPT !.file[u] = f]
<1>1. /\ copies[c] # NULL /\ copies' = [copies EXCEPT ![c] = copy]
  BY Zenon DEF TranslateOffline
<1>2. copies \in [Copies -> Copy \cup {NULL}] /\ copies[c] \in Copy
  BY <1>1 DEF TypeInv, TypeOK
<1>3. copy.rev = copies[c].rev /\ copy.orig = copies[c].orig
  BY <1>2 DEF Copy
<1> HIDE DEF copy
<1> QED BY <1>1, <1>2, <1>3

\* A commit adds later changes to the record.
LEMMA CommitKeepsOrigin ==
  ASSUME NEW rows, NEW after, NEW ss \in SUBSET Submission, NEW sub \in SUBSET Submission,
         NEW n \in Nat, \A s \in ss : s.revision <= n, Distinct(ss),
         Recorded(rows, after, sub, n), after \in StoreUnit,
         NEW rev \in Nat, rev <= n, NEW u \in Units, NEW f, Origin(rows, ss, u, rev, f)
  PROVE  Origin(after, ss \cup sub, u, rev, f)
<1>1. CASE rows[u] # NULL
  <2>4. "target" \in Fields /\ "state" \in Fields
    BY DEF Fields
  <2>1. Value(after, ss \cup sub, u, "state", rev) = Value(rows, ss, u, "state", rev)
    BY <1>1, <2>4, ValueKept
  <2>2. Value(after, ss \cup sub, u, "target", rev) = Value(rows, ss, u, "target", rev)
    BY <1>1, <2>4, ValueKept
  <2>3. after[u] # NULL /\ after[u].creation_revision = rows[u].creation_revision
    BY <1>1 DEF Recorded
  <2> QED BY <1>1, <2>1, <2>2, <2>3 DEF Origin
<1>2. CASE rows[u] = NULL
  <2>1. f = NULL
    BY <1>2 DEF Origin
  <2>2. after[u] # NULL => ~(after[u].creation_revision <= rev)
    <3>1. after[u] # NULL => after[u].creation_revision \in Nat /\ n < after[u].creation_revision
      BY <1>2 DEF Recorded, StoreUnit, Unit
    <3> QED BY <3>1
  <2> QED BY <2>1, <2>2 DEF Origin
<1> QED BY <1>1, <1>2

\* A commit does not change what the record gives back for the files that are out.
LEMMA CommitDownloads ==
  ASSUME Alone, TypeInv, AloneInv, DownloadInv, NEW w \in Workers, Commit(w)
  PROVE  DownloadInv'
<1> DEFINE t == tx[w]
           V == View(w)
<1>1. /\ t # NULL /\ t.step = "aggregated"
      /\ unit' = V /\ subs' = subs \cup t.sub /\ copies' = copies
  BY Zenon DEF Commit, Idle
<1>2. InHand(w)
  BY <1>1 DEF AloneInv
<1>3. PICK n \in Nat : /\ \A s \in subs : s.revision <= n
                       /\ \A c \in Copies : copies[c] # NULL => copies[c].rev <= n
                       /\ Recorded(unit, V, t.sub, n)
  BY <1>1, <1>2 DEF InHand
<1>4. V \in StoreUnit /\ subs \in SUBSET Submission /\ t \in Tx
      /\ copies \in [Copies -> Copy \cup {NULL}]
  BY <1>1, ViewTyped DEF TypeInv, TypeOK
<1>5. t.sub \in SUBSET Submission
  BY <1>4 DEF Tx
<1>6. Distinct(subs)
  BY DEF AloneInv, CountsInv, Distinct
<1> HIDE DEF t, V
<1>7. ASSUME NEW c \in Copies, copies[c] # NULL, NEW u \in Units
      PROVE  Origin(V, subs \cup t.sub, u, copies[c].rev, copies[c].orig[u])
  <2>1. copies[c].rev \in Nat /\ copies[c].rev <= n
    BY <1>3, <1>4, <1>7 DEF Copy
  <2>2. Origin(unit, subs, u, copies[c].rev, copies[c].orig[u])
    BY <1>7 DEF DownloadInv
  <2> QED BY <1>3, <1>4, <1>5, <1>6, <2>1, <2>2, CommitKeepsOrigin
<1> QED BY <1>1, <1>7 DEF DownloadInv

\* The steps before a commit leave units, submissions and files alone.
LEMMA OthersLeaveStore ==
  ASSUME Next, ~\E w \in Workers : Export(w) \/ Commit(w),
         ~\E c \in Copies, u \in Units, f \in OfflineUnit \cup {NULL} : TranslateOffline(c, u, f)
  PROVE  UNCHANGED <<unit, subs, copies>>
<1>1. PICK w \in Workers :
        \/ Edit(w) \/ SaveUnit(w)
        \/ \E c \in Copies : Download(w, c)
        \/ \E c \in Copies, wins \in Wins : Upload(w, c, wins)
        \/ Aggregate(w)
  BY DEF Next
<1>2. CASE Edit(w)
  BY <1>2 DEF Edit, Submit, Comment, Accept, LoadUnit
<1>3. CASE SaveUnit(w)
  BY <1>3, Zenon DEF SaveUnit
<1>4. ASSUME NEW c \in Copies, Download(w, c) PROVE UNCHANGED <<unit, subs, copies>>
  BY <1>4 DEF Download
<1>5. ASSUME NEW c \in Copies, NEW wins \in Wins, Upload(w, c, wins)
      PROVE UNCHANGED <<unit, subs, copies>>
  BY <1>5, Zenon DEF Upload
<1>6. CASE Aggregate(w)
  BY <1>6 DEF Aggregate
<1> QED BY <1>1, <1>2, <1>3, <1>4, <1>5, <1>6

\* Every step keeps DownloadInv.
LEMMA DownloadStep == Alone /\ TypeInv /\ AloneInv /\ DownloadInv /\ [Next]_vars => DownloadInv'
<1> SUFFICES ASSUME Alone, TypeInv, AloneInv, DownloadInv, [Next]_vars PROVE DownloadInv'
  OBVIOUS
<1>1. ASSUME NEW w \in Workers, Export(w) PROVE DownloadInv'
  BY <1>1, ExportDownloads
<1>2. ASSUME NEW w \in Workers, Commit(w) PROVE DownloadInv'
  BY <1>2, CommitDownloads
<1>3. ASSUME NEW c \in Copies, NEW u \in Units, NEW f \in OfflineUnit \cup {NULL},
             TranslateOffline(c, u, f)
      PROVE  DownloadInv'
  <2>1. UNCHANGED <<unit, subs>>
    BY <1>3 DEF TranslateOffline
  <2>2. \A d \in Copies : copies'[d] # NULL =>
           /\ copies[d] # NULL
           /\ copies'[d].rev = copies[d].rev /\ copies'[d].orig = copies[d].orig
    BY <1>3, TranslateKeepsOrigin
  <2> QED BY <2>1, <2>2 DEF DownloadInv
<1>4. CASE UNCHANGED <<unit, subs, copies>>
  BY <1>4 DEF DownloadInv
<1>5. CASE UNCHANGED vars
  BY <1>4, <1>5 DEF vars
<1> QED BY <1>1, <1>2, <1>3, <1>4, <1>5, OthersLeaveStore

\* DownloadInv is an invariant for one worker.
LEMMA DownloadHolds ==
  ASSUME Alone
  PROVE  Spec => []DownloadInv
<1>1. Init => DownloadInv
  BY DEF Init, DownloadInv
<1>2. TypeInv /\ AloneInv /\ DownloadInv /\ [Next]_vars => DownloadInv'
  BY DownloadStep
<1> QED BY <1>1, <1>2, Typed, AloneHolds, PTL DEF Spec

\* What the record says is of the type of the field.
LEMMA ValueTyped ==
  ASSUME NEW rows, NEW ss \in SUBSET Submission, NEW n \in Nat, \A s \in ss : s.revision <= n,
         NEW u, NEW field, NEW rev
  PROVE  \/ Later(ss, u, field, rev) = {} /\ Value(rows, ss, u, field, rev) = rows[u][field]
         \/ /\ Later(ss, u, field, rev) # {}
            /\ FirstChange(ss, u, field, rev) \in ss
            /\ Value(rows, ss, u, field, rev) = FirstChange(ss, u, field, rev).old[field]
<1> DEFINE L == Later(ss, u, field, rev)
<1>1. \A s \in ss : s.revision \in 0..n
  BY DEF Submission
<1>2. L \subseteq ss
  BY DEF Later
<1>3. ASSUME L # {} PROVE FirstChange(ss, u, field, rev) \in ss
  <2> HIDE DEF L
  <2>1. \E m \in L : \A t \in L : m.revision <= t.revision
    BY <1>1, <1>2, <1>3, HasFirst
  <2>2. FirstChange(ss, u, field, rev) \in L
    BY <2>1 DEF FirstChange, L
  <2> QED BY <1>2, <2>2
<1> QED BY <1>3 DEF Value

\* A submission takes back the flags of a unit, and nothing else.
LEMMA RevertStateTyped ==
  ASSUME NEW f \in FileUnit, NEW s \in Submission
  PROVE  /\ RevertState(f, s) \in FileUnit
         /\ RevertState(f, s).target = f.target /\ RevertState(f, s).comment = f.comment
<1> DEFINE Same(g) == g \in FileUnit /\ g.target = f.target /\ g.comment = f.comment
           a == IF s.new.state = FUZZY THEN FALSE ELSE f.fuzzy
           b == IF s.new.state = OBSOLETE THEN FALSE ELSE f.obsolete
<1>1. ASSUME NEW v \in BOOLEAN PROVE Same([f EXCEPT !.fuzzy = v]) /\ Same([f EXCEPT !.obsolete = v])
  BY <1>1 DEF FileUnit
<1>2. ASSUME NEW v \in BOOLEAN, NEW w \in BOOLEAN
      PROVE  Same([f EXCEPT !.fuzzy = v, !.obsolete = w])
  BY <1>2 DEF FileUnit
<1>3. a \in BOOLEAN /\ b \in BOOLEAN
  <2>1. f.fuzzy \in BOOLEAN /\ f.obsolete \in BOOLEAN
    BY DEF FileUnit
  <2> QED BY <2>1, Zenon
<1>4. s.old.state \in {FUZZY, OBSOLETE, UNTRANSLATED, TRANSLATED}
  BY DEF Submission, States
<1>5. CASE s.old.state = FUZZY
  <2>1. ~(s.old.state = OBSOLETE) /\ ~(s.old.state \in {UNTRANSLATED, TRANSLATED})
    BY <1>5 DEF FUZZY, OBSOLETE, UNTRANSLATED, TRANSLATED
  <2>2. RevertState(f, s) = [f EXCEPT !.fuzzy = TRUE]
    BY <1>5, <2>1, Zenon DEF RevertState
  <2> HIDE DEF Same
  <2>3. Same(RevertState(f, s))
    BY <1>1, <2>2
  <2> QED BY <2>3 DEF Same
<1>6. CASE s.old.state = OBSOLETE
  <2>1. ~(s.old.state = FUZZY) /\ ~(s.old.state \in {UNTRANSLATED, TRANSLATED})
    BY <1>6 DEF FUZZY, OBSOLETE, UNTRANSLATED, TRANSLATED
  <2>2. RevertState(f, s) = [f EXCEPT !.obsolete = TRUE]
    BY <1>6, <2>1, Zenon DEF RevertState
  <2> HIDE DEF Same
  <2>3. Same(RevertState(f, s))
    BY <1>1, <2>2
  <2> QED BY <2>3 DEF Same
<1>7. CASE s.old.state \in {UNTRANSLATED, TRANSLATED}
  <2>1. ~(s.old.state = FUZZY) /\ ~(s.old.state = OBSOLETE)
    BY <1>7 DEF FUZZY, OBSOLETE, UNTRANSLATED, TRANSLATED
  <2>2. RevertState(f, s) = [f EXCEPT !.fuzzy = a, !.obsolete = b]
    BY <1>7, <2>1, Zenon DEF RevertState
  <2> HIDE DEF Same, a, b
  <2>3. Same(RevertState(f, s))
    BY <1>2, <1>3, <2>2
  <2> QED BY <2>3 DEF Same
<1> QED BY <1>4, <1>5, <1>6, <1>7

\* A unit as it is in a file.
LEMMA ConvertTyped ==
  ASSUME NEW x \in Unit
  PROVE  /\ Convert(x) \in FileUnit
         /\ Convert(x).target = x.target /\ Convert(x).comment = x.comment
<1>1. (x.state = FUZZY) \in BOOLEAN /\ (x.state = OBSOLETE) \in BOOLEAN
  BY Zenon
<1>2. x.target \in Target /\ x.comment \in Comments
  BY DEF Unit
<1>3. Convert(x) \in FileUnit
  BY <1>1, <1>2, Zenon DEF Convert, FileUnit
<1>4. Convert(x).target = x.target /\ Convert(x).comment = x.comment
  BY Zenon DEF Convert
<1> QED BY <1>3, <1>4

\* Units that are neither marked as needing work nor obsolete
Plain(state) == state \in {UNTRANSLATED, TRANSLATED}
PlainRows(rows) == \A u \in Units : rows[u] # NULL => Plain(rows[u].state)
Unmarked(f) == f.fuzzy = FALSE /\ f.obsolete = FALSE
PlainFile(file) == \A u \in Units : file[u] # NULL => Unmarked(file[u])
PlainSubs(ss) == \A s \in ss : Plain(s.old.state) /\ Plain(s.new.state)

\* A unit that is translated or empty has no mark in a file.
LEMMA ConvertPlain ==
  ASSUME NEW x \in Unit, Plain(x.state)
  PROVE  Unmarked(Convert(x)) /\ Live(x)
<1>1. (x.state = FUZZY) = FALSE /\ (x.state = OBSOLETE) = FALSE
  BY DEF Plain, FUZZY, OBSOLETE, UNTRANSLATED, TRANSLATED
<1>2. Unmarked(Convert(x))
  BY <1>1, Zenon DEF Convert, Unmarked
<1>3. x.state > OBSOLETE
  BY DEF Plain, FUZZY, OBSOLETE, UNTRANSLATED, TRANSLATED
<1> QED BY <1>2, <1>3, NullAssumption DEF Live

\* Undoing a state that needed no mark leaves no mark.
LEMMA RevertStatePlain ==
  ASSUME NEW f \in FileUnit, NEW s \in Submission, Unmarked(f), Plain(s.old.state)
  PROVE  Unmarked(RevertState(f, s))
<1> DEFINE a == IF s.new.state = FUZZY THEN FALSE ELSE f.fuzzy
           b == IF s.new.state = OBSOLETE THEN FALSE ELSE f.obsolete
<1>1. ~(s.old.state = FUZZY) /\ ~(s.old.state = OBSOLETE)
  BY DEF Plain, FUZZY, OBSOLETE, UNTRANSLATED, TRANSLATED
<1>2. s.old.state \in {UNTRANSLATED, TRANSLATED}
  BY DEF Plain
<1>3. RevertState(f, s) = [f EXCEPT !.fuzzy = a, !.obsolete = b]
  BY <1>1, <1>2, Zenon DEF RevertState
<1>4. a = FALSE /\ b = FALSE
  BY Zenon DEF Unmarked
<1> HIDE DEF a, b
<1>5. RevertState(f, s) = [f EXCEPT !.fuzzy = FALSE, !.obsolete = FALSE]
  BY <1>3, <1>4, Zenon
<1> QED BY <1>5 DEF FileUnit, Unmarked

NoneLater(ss, n) == \A s \in ss : s.revision <= n

\* The version of a unit: its flags come from the first change of the state, its
\* target from the record.
LEMMA VersionParts ==
  ASSUME NEW rows \in StoreUnit, NEW ss \in SUBSET Submission,
         NEW n \in Nat, NoneLater(ss, n),
         NEW rev \in Nat, NEW u \in Units, rows[u] # NULL, rows[u].creation_revision <= rev,
         NEW v, v = AtRevision(rows, ss, rev)[u]
  PROVE  /\ v \in FileUnit
         /\ v.target = Value(rows, ss, u, "target", rev)
         /\ v.comment = rows[u].comment
         /\ Plain(rows[u].state) /\ Plain(Value(rows, ss, u, "state", rev)) => Unmarked(v)
<1> DEFINE now == Convert(rows[u])
           first == FirstChange(ss, u, "state", rev)
           g == IF Later(ss, u, "state", rev) = {} THEN now
                ELSE RevertState(now, FirstChange(ss, u, "state", rev))
           h == IF Later(ss, u, "target", rev) = {} THEN g
                ELSE [g EXCEPT !.target = FirstChange(ss, u, "target", rev).old.target]
           target == Value(rows, ss, u, "target", rev)
           state == Value(rows, ss, u, "state", rev)
<1> USE DEF NoneLater
<1>1. rows[u] \in Unit
  BY DEF StoreUnit
<1>2. now \in FileUnit /\ now.target = rows[u].target /\ now.comment = rows[u].comment
  BY <1>1, ConvertTyped
<1>3. Plain(rows[u].state) => Unmarked(now)
  BY <1>1, ConvertPlain
<1>4. /\ g \in FileUnit /\ g.target = rows[u].target /\ g.comment = rows[u].comment
      /\ Plain(rows[u].state) /\ Plain(state) => Unmarked(g)
  <2> HIDE DEF now
  <2>1. CASE Later(ss, u, "state", rev) = {}
    BY <1>2, <1>3, <2>1
  <2>2. CASE Later(ss, u, "state", rev) # {}
    <3>1. first \in Submission /\ first \in ss
      BY <2>2, ValueTyped
    <3>2. g = RevertState(now, first) /\ state = first.old.state
      BY <2>2 DEF Value
    <3> HIDE DEF first, g, state
    <3>3. Plain(rows[u].state) /\ Plain(state) => Unmarked(g)
      BY <1>2, <1>3, <3>1, <3>2, RevertStatePlain
    <3> QED BY <1>2, <3>1, <3>2, <3>3, RevertStateTyped
  <2> QED BY <2>1, <2>2
<1>5. ~(rows[u] = NULL \/ rows[u].creation_revision > rev)
  BY <1>1 DEF Unit
<1>6. v = h
  BY <1>5, Zenon DEF AtRevision
<1>7. target \in Target
  <2>1. CASE Later(ss, u, "target", rev) = {}
    BY <1>1, <2>1 DEF Value, Unit
  <2>2. CASE Later(ss, u, "target", rev) # {}
    <3>1. FirstChange(ss, u, "target", rev) \in Submission
      BY <2>2, ValueTyped
    <3> QED BY <2>2, <3>1 DEF Value, Submission
  <2> QED BY <2>1, <2>2
<1>8. h = [g EXCEPT !.target = target]
  <2> HIDE DEF g
  <2>1. CASE Later(ss, u, "target", rev) = {}
    <3>1. target = g.target
      BY <1>4, <2>1 DEF Value
    <3>2. [g EXCEPT !.target = g.target] = g
      BY <1>4 DEF FileUnit
    <3> QED BY <2>1, <3>1, <3>2
  <2>2. CASE Later(ss, u, "target", rev) # {}
    BY <2>2 DEF Value
  <2> QED BY <2>1, <2>2
<1> HIDE DEF h, g, target, state
<1>9. v \in FileUnit /\ v.target = target /\ v.comment = g.comment
  BY <1>4, <1>6, <1>7, <1>8 DEF FileUnit
<1>10. Unmarked(g) => Unmarked(v)
  <2>1. v.fuzzy = g.fuzzy /\ v.obsolete = g.obsolete
    BY <1>4, <1>6, <1>8 DEF FileUnit
  <2> QED BY <2>1, Zenon DEF Unmarked
<1> QED BY <1>4, <1>9, <1>10 DEF target, state

\* The version that an upload is compared with has every target that was
\* downloaded.
DownloadedTargets ==
  \A c \in Copies : copies[c] # NULL =>
    LET version == AtRevision(unit, subs, copies[c].rev)
    IN \A u \in Units : copies[c].orig[u] # NULL =>
         version[u] # NULL /\ version[u].target = copies[c].orig[u].target

\* The record gives back the target of a unit that was downloaded.
LEMMA VersionOfDownload ==
  ASSUME TypeInv, DownloadInv, NEW c \in Copies, copies[c] # NULL, NEW u \in Units,
         copies[c].orig[u] # NULL
  PROVE  LET rev == copies[c].rev
         IN /\ rev \in Nat /\ unit[u] # NULL /\ unit[u].creation_revision <= rev
            /\ copies[c].orig[u].target = Value(unit, subs, u, "target", rev)
            /\ Value(unit, subs, u, "state", rev) # OBSOLETE
<1>1. copies[c] \in Copy
  BY DEF TypeInv, TypeOK
<1>2. Origin(unit, subs, u, copies[c].rev, copies[c].orig[u])
  BY DEF DownloadInv
<1> QED BY <1>1, <1>2 DEF Origin, Copy

\* With one worker, whatever was edited, uploaded, added, made obsolete or
\* marked since, the record gives back every target of a file that is still out.
THEOREM TargetsReturn ==
  ASSUME \A v, w \in Workers : v = w
  PROVE  Spec => []DownloadedTargets
<1>1. Alone
  BY DEF Alone
<1>2. TypeInv /\ DownloadInv => DownloadedTargets
  <2> SUFFICES ASSUME TypeInv, DownloadInv, NEW c \in Copies, copies[c] # NULL, NEW u \in Units,
                      copies[c].orig[u] # NULL
               PROVE  LET v == AtRevision(unit, subs, copies[c].rev)[u]
                      IN v # NULL /\ v.target = copies[c].orig[u].target
    BY DEF DownloadedTargets
  <2> DEFINE rev == copies[c].rev
             v == AtRevision(unit, subs, rev)[u]
             target == Value(unit, subs, u, "target", rev)
  <2>1. /\ rev \in Nat /\ unit[u] # NULL /\ unit[u].creation_revision <= rev
        /\ copies[c].orig[u].target = target
    BY VersionOfDownload
  <2>2. /\ unit \in StoreUnit /\ subs \in SUBSET Submission
        /\ revision \in Nat /\ NoneLater(subs, revision)
    BY DEF TypeInv, TypeOK, NoneLater
  <2>4. v = AtRevision(unit, subs, rev)[u] /\ target = Value(unit, subs, u, "target", rev)
    OBVIOUS
  <2> HIDE DEF rev, v, target
  <2>3. v \in FileUnit /\ v.target = target
    <3>1. rev \in Nat /\ unit[u] # NULL /\ unit[u].creation_revision <= rev
      BY <2>1
    <3>2. /\ v \in FileUnit
          /\ v.target = Value(unit, subs, u, "target", rev)
          /\ v.comment = unit[u].comment
          /\ Plain(unit[u].state) /\ Plain(Value(unit, subs, u, "state", rev)) => Unmarked(v)
      BY <2>2, <2>4, <3>1, VersionParts
    <3> QED BY <2>4, <3>2
  <2> QED BY <2>1, <2>3, NullAssumption DEF v, rev
<1>3. Spec => []DownloadInv
  BY <1>1, DownloadHolds
<1> QED BY <1>2, <1>3, Typed, PTL

-----------------------------------------------------------------------------
(* What an update makes of one unit *)

\* The unit after the first pass of an update, which adds units and makes them
\* obsolete where that is allowed, and after the second one.
StructuredOne(rows, ss, d, file, since, wins, allow, rev, u) ==
  IF allow
  THEN WithStructure(rows, UnitsToUpdate(rows, d, file, since), file,
                     AtRevision(rows, ss, since), since, wins, rev)[u]
  ELSE rows[u]
MergedOne(rows, ss, d, file, since, wins, allow, rev, u) ==
  LET x == StructuredOne(rows, ss, d, file, since, wins, allow, rev, u)
  IN IF u \in UnitsToUpdate(rows, d, file, since)
     THEN UpdatedUnit(x, file[u], AtRevision(rows, ss, since)[u], since, wins, rev)
     ELSE x
SameButRevision(x, y) ==
  y = x \/ /\ x # NULL /\ x \in Unit /\ y \in Unit
           /\ y.target = x.target /\ y.comment = x.comment /\ y.state = x.state

\* Both passes leave units.
LEMMA MergedOneTyped ==
  ASSUME NEW rows \in StoreUnit, NEW ss, NEW d, NEW file \in File, NEW since, NEW wins,
         NEW allow, NEW rev \in Nat, NEW u \in Units
  PROVE  LET x == StructuredOne(rows, ss, d, file, since, wins, allow, rev, u)
         IN /\ Written(rows[u], x, rev) /\ x \in Unit \cup {NULL}
            /\ u \in UnitsToUpdate(rows, d, file, since) => x \in Unit /\ file[u] \in FileUnit
            /\ MergedOne(rows, ss, d, file, since, wins, allow, rev, u) \in Unit \cup {NULL}
<1> DEFINE x == StructuredOne(rows, ss, d, file, since, wins, allow, rev, u)
           one == MergedOne(rows, ss, d, file, since, wins, allow, rev, u)
           toUpdate == UnitsToUpdate(rows, d, file, since)
           old == AtRevision(rows, ss, since)
<1>1. x = IF allow THEN WithStructure(rows, toUpdate, file, old, since, wins, rev)[u]
          ELSE rows[u]
  BY Zenon DEF StructuredOne
<1>2. one = IF u \in toUpdate THEN UpdatedUnit(x, file[u], old[u], since, wins, rev) ELSE x
  BY Zenon DEF MergedOne
<1>3. u \in toUpdate => rows[u] \in Unit /\ file[u] \in FileUnit
  BY DEF UnitsToUpdate, In, StoreUnit, File
<1> HIDE DEF x, one, toUpdate, old
<1>4. Written(rows[u], x, rev)
  <2>1. CASE allow
    BY <1>1, <2>1, StructureWritten
  <2>2. CASE ~allow
    BY <1>1, <2>2 DEF Written
  <2> QED BY <2>1, <2>2
<1>5. x \in Unit \cup {NULL}
  BY <1>4 DEF Written, StoreUnit
<1>6. u \in toUpdate => x \in Unit /\ file[u] \in FileUnit
  BY <1>3, <1>4 DEF Written
<1>7. one \in Unit \cup {NULL}
  <2>1. CASE u \in toUpdate
    BY <1>2, <1>6, <2>1, UpdatedUnitTyped
  <2>2. CASE u \notin toUpdate
    BY <1>2, <1>5, <2>2
  <2> QED BY <2>1, <2>2
<1> QED BY <1>4, <1>5, <1>6, <1>7 DEF x, one, toUpdate

\* What an update from a diff makes of one unit.
LEMMA DiffOfOne ==
  ASSUME NEW rows \in StoreUnit, NEW ss, NEW sugg, NEW d, NEW file \in File, NEW since, NEW wins,
         NEW allow, NEW rev \in Nat, NEW v \in Units,
         NEW o, o = UpdateFromDiff(rows, ss, sugg, d, file, since, wins, allow, rev)
  PROVE  /\ SameButRevision(MergedOne(rows, ss, d, file, since, wins, allow, rev, v), o.rows[v])
         /\ v \in UnitsToUpdate(rows, d, file, since) =>
              Suggested(v, StructuredOne(rows, ss, d, file, since, wins, allow, rev, v), file[v],
                        AtRevision(rows, ss, since)[v], since, wins)
                \subseteq sugg \cup o.suggested
<1> DEFINE one == MergedOne(rows, ss, d, file, since, wins, allow, rev, v)
           x == StructuredOne(rows, ss, d, file, since, wins, allow, rev, v)
           old == AtRevision(rows, ss, since)
           toUpdate == UnitsToUpdate(rows, d, file, since)
           structured ==
             IF allow THEN WithStructure(rows, toUpdate, file, old, since, wins, rev)
             ELSE rows
           updated ==
             [u \in Units |->
                IF u \in toUpdate
                THEN UpdatedUnit(structured[u], file[u], old[u], since, wins, rev)
                ELSE structured[u]]
           unsynced(y) == Live(y) /\ y.revision > since /\ y.revision < rev
           losers == (UNION {Suggested(u, structured[u], file[u], old[u], since, wins) :
                               u \in toUpdate}) \ sugg
           after == [u \in Units |-> IF unsynced(updated[u])
                                     THEN [updated[u] EXCEPT !.revision = rev + 1]
                                     ELSE updated[u]]
<1>1. o.rows = after /\ o.suggested = losers
  BY Zenon DEF UpdateFromDiff
<1>2. structured[v] = x
  BY Zenon DEF StructuredOne
<1>3. updated[v] = one
  <2>1. updated[v] = IF v \in toUpdate
                     THEN UpdatedUnit(structured[v], file[v], old[v], since, wins, rev)
                     ELSE structured[v]
    BY Zenon
  <2>2. one = IF v \in toUpdate THEN UpdatedUnit(x, file[v], old[v], since, wins, rev) ELSE x
    BY Zenon DEF MergedOne
  <2> HIDE DEF structured, updated, old, toUpdate, one, x
  <2> QED BY <1>2, <2>1, <2>2
<1>4. after[v] = IF unsynced(updated[v]) THEN [updated[v] EXCEPT !.revision = rev + 1]
                 ELSE updated[v]
  BY Zenon
<1>5. v \in toUpdate => Suggested(v, x, file[v], old[v], since, wins) \subseteq sugg \cup losers
  <2> HIDE DEF structured, old, toUpdate, x
  <2> QED BY <1>2
<1>6. one \in Unit \cup {NULL}
  BY MergedOneTyped
<1>7. SameButRevision(one, after[v])
  <2> HIDE DEF updated, after, one
  <2>1. CASE unsynced(updated[v])
    <3>1. one # NULL /\ after[v] = [one EXCEPT !.revision = rev + 1]
      BY <1>3, <1>4, <2>1 DEF Live
    <3> QED BY <1>6, <3>1 DEF SameButRevision, Unit
  <2>2. CASE ~unsynced(updated[v])
    BY <1>3, <1>4, <2>2 DEF SameButRevision
  <2> QED BY <2>1, <2>2
<1> HIDE DEF after, losers, one
<1> QED BY <1>1, <1>5, <1>7, Zenon DEF one, x

\* The same of Store.update, and all of its suggestions at once.
OneUpdated(rows, ss, sugg, d, file, since, wins, allow, rev, o) ==
  \A u \in Units :
    /\ SameButRevision(MergedOne(rows, ss, d, file, since, wins, allow, rev, u), o.rows[u])
    /\ u \in UnitsToUpdate(rows, d, file, since) =>
         Suggested(u, StructuredOne(rows, ss, d, file, since, wins, allow, rev, u), file[u],
                   AtRevision(rows, ss, since)[u], since, wins)
           \subseteq sugg \cup o.suggested

\* The same of a whole update.
LEMMA UpdateOfOne ==
  ASSUME NEW rows \in StoreUnit, NEW ss, NEW sugg, NEW d, NEW file \in File, NEW since, NEW wins,
         NEW allow, NEW rev \in Nat,
         NEW o, o = Update(rows, ss, sugg, d, file, since, wins, allow, rev)
  PROVE  OneUpdated(rows, ss, sugg, d, file, since, wins, allow, rev + 1, o)
<1> DEFINE toUpdate == UnitsToUpdate(rows, d, file, since)
           next == rev + 1
<1>1. CASE HasChanges(rows, d, file, since)
  <2> HIDE DEF next
  <2>1. o = UpdateFromDiff(rows, ss, sugg, d, file, since, wins, allow, next) /\ next \in Nat
    BY <1>1 DEF Update, next
  <2>2. OneUpdated(rows, ss, sugg, d, file, since, wins, allow, next, o)
    BY <2>1, DiffOfOne DEF OneUpdated
  <2> QED BY <2>2 DEF next
<1>2. CASE ~HasChanges(rows, d, file, since)
  <2>1. o.rows = rows
    BY <1>2, Zenon DEF Update
  <2>2. toUpdate = {} /\ UnitsToAdd(rows, file) = {} /\ UnitsToObsolete(rows, file) = {}
    BY <1>2 DEF HasChanges
  <2> HIDE DEF toUpdate, next
  <2>3. ASSUME NEW u \in Units
        PROVE  MergedOne(rows, ss, d, file, since, wins, allow, next, u) = rows[u]
    <3> DEFINE x == StructuredOne(rows, ss, d, file, since, wins, allow, next, u)
               old == AtRevision(rows, ss, since)
    <3>1. x = IF allow THEN WithStructure(rows, toUpdate, file, old, since, wins, next)[u]
              ELSE rows[u]
      BY Zenon DEF StructuredOne, toUpdate
    <3>2. u \notin UnitsObsoleted(rows, toUpdate, file, old, since, wins)
      BY <2>2 DEF UnitsObsoleted
    <3>3. WithStructure(rows, toUpdate, file, old, since, wins, next)[u] = rows[u]
      BY <2>2, <3>2, Zenon DEF WithStructure
    <3>4. MergedOne(rows, ss, d, file, since, wins, allow, next, u) = x
      BY <2>2, Zenon DEF MergedOne, toUpdate
    <3> HIDE DEF x
    <3> QED BY <3>1, <3>3, <3>4
  <2>4. OneUpdated(rows, ss, sugg, d, file, since, wins, allow, next, o)
    BY <2>1, <2>2, <2>3 DEF OneUpdated, SameButRevision, toUpdate
  <2> QED BY <2>4 DEF next
<1> QED BY <1>1, <1>2

-----------------------------------------------------------------------------
(* Nothing needs work: no unit is marked as needing it, and whether one is  *)
(* translated depends on its target.                                        *)

NoFuzzy == Fuzzy \subseteq {FALSE}

SettledState(state) ==
  state \in {OBSOLETE, UNTRANSLATED, TRANSLATED} /\ (state = OBSOLETE => Allow)
Settled(x) ==
  /\ SettledState(x.state)
  /\ x.state # OBSOLETE => (x.state = TRANSLATED <=> x.target # "")
Done(f) == f.fuzzy = FALSE /\ (f.obsolete => Allow)
SettledRows(rows) == \A u \in Units : rows[u] # NULL => Settled(rows[u])
SettledSubs(ss) == \A s \in ss : SettledState(s.old.state) /\ SettledState(s.new.state)
DoneFile(file) == \A u \in Units : file[u] # NULL => Done(file[u])

SettledTx(t) ==
  /\ t.row # NULL => Settled(t.row)
  /\ SettledRows(t.wrote)
  /\ SettledSubs(t.sub)
  /\ t.req.op = "submit" => t.req.fuzzy = FALSE
  /\ t.req.op = "upload" => DoneFile(t.req.file)

SettledInv ==
  /\ SettledRows(unit)
  /\ SettledSubs(subs)
  /\ \A c \in Copies : copies[c] # NULL => PlainFile(copies[c].orig) /\ DoneFile(copies[c].file)
  /\ \A w \in Workers : tx[w] # NULL => SettledTx(tx[w])

\* The state that a save works out follows the target.
LEMMA PreSaveSettled ==
  ASSUME NEW x \in Unit, Settled(x), NEW y \in Unit, SettledState(y.state),
         y.state \in {OBSOLETE, x.state} \/ Settled(y)
  PROVE  LET z == PreSave(x, y)
         IN /\ Settled(z) /\ z.target = y.target /\ z.comment = y.comment
            /\ z.state = OBSOLETE <=> y.state = OBSOLETE
<1> DEFINE empty == ""
           z == PreSave(x, y)
           Follows(r) == r.state # OBSOLETE => (r.state = TRANSLATED <=> r.target # empty)
<1> USE DEF OBSOLETE, UNTRANSLATED, TRANSLATED, FUZZY
<1>1. /\ Settled(x) <=> SettledState(x.state) /\ Follows(x)
      /\ Settled(y) <=> SettledState(y.state) /\ Follows(y)
      /\ Settled(z) <=> SettledState(z.state) /\ Follows(z)
  BY Zenon DEF Settled
<1>2. z = IF y.target = x.target THEN y
          ELSE IF y.target # empty /\ y.state = UNTRANSLATED
          THEN [y EXCEPT !.state = TRANSLATED]
          ELSE IF y.target = empty /\ y.state > FUZZY
          THEN [y EXCEPT !.state = UNTRANSLATED]
          ELSE y
  BY Zenon DEF PreSave
<1>3. x.state \in {OBSOLETE, UNTRANSLATED, TRANSLATED} /\ Follows(x)
  BY <1>1 DEF SettledState
<1>4. y.state \in {OBSOLETE, UNTRANSLATED, TRANSLATED}
  BY DEF SettledState
<1>5. y.state \in {OBSOLETE, x.state} \/ Follows(y)
  BY <1>1
<1> HIDE DEF z, empty
<1>6. z.target = y.target /\ z.comment = y.comment
  BY <1>2 DEF Unit
<1>7. Follows(z) /\ z.state \in {y.state, UNTRANSLATED, TRANSLATED}
      /\ (z.state = OBSOLETE <=> y.state = OBSOLETE)
  <2>1. CASE y.target = x.target
    BY <1>2, <1>3, <1>5, <2>1
  <2>2. CASE y.target # x.target /\ y.target # empty /\ y.state = UNTRANSLATED
    <3>1. z.state = TRANSLATED
      BY <1>2, <2>2 DEF Unit
    <3> QED BY <1>6, <2>2, <3>1
  <2>3. CASE y.target # x.target /\ y.target = empty /\ y.state > FUZZY
    <3>1. z.state = UNTRANSLATED
      BY <1>2, <2>3 DEF Unit
    <3> QED BY <1>6, <2>3, <3>1
  <2>4. CASE /\ y.target # x.target
             /\ ~(y.target # empty /\ y.state = UNTRANSLATED)
             /\ ~(y.target = empty /\ y.state > FUZZY)
    <3>1. z = y
      BY <1>2, <2>4
    <3> QED BY <1>4, <2>4, <3>1
  <2> QED BY <2>1, <2>2, <2>3, <2>4
<1>8. SettledState(z.state)
  BY <1>7 DEF SettledState
<1> QED BY <1>1, <1>6, <1>7, <1>8 DEF z

\* Unit.update makes the unit the same as that of the file.
LEMMA UnitUpdateSettled ==
  ASSUME NEW x \in Unit, Settled(x), NEW f \in FileUnit, Done(f)
  PROVE  LET y == PreSave(x, UnitUpdate(x, f))
         IN /\ Settled(y) /\ y.target = f.target /\ y.comment = f.comment
            /\ y.state = OBSOLETE <=> f.obsolete
<1> DEFINE copied == [x EXCEPT !.target = f.target, !.comment = f.comment]
           z == UnitUpdate(x, f)
           resurrected == CASE copied.target = "" -> UNTRANSLATED
                            [] copied.target # "" /\ f.fuzzy -> FUZZY
                            [] OTHER -> TRANSLATED
           Good(y) == /\ y \in Unit /\ SettledState(y.state)
                      /\ y.state \in {OBSOLETE, x.state} \/ Settled(y)
                      /\ y.target = f.target /\ y.comment = f.comment
                      /\ y.state = OBSOLETE <=> f.obsolete
<1>1. /\ copied \in Unit /\ copied.state = x.state
      /\ copied.target = f.target /\ copied.comment = f.comment
  BY DEF Unit, FileUnit
<1>2. SettledState(x.state) /\ x.state # FUZZY
  <2>1. SettledState(x.state)
    BY Zenon DEF Settled
  <2> QED BY <2>1 DEF SettledState, OBSOLETE, UNTRANSLATED, TRANSLATED, FUZZY
<1>3. (copied.state = FUZZY) = FALSE /\ (Obsolete(copied) <=> x.state = OBSOLETE)
  BY <1>1, <1>2 DEF Obsolete
<1>4. f.fuzzy = FALSE /\ f.obsolete \in BOOLEAN /\ (f.obsolete => Allow)
  BY DEF Done, FileUnit
<1>5. ~((copied.state = FUZZY) # f.fuzzy)
  <2> HIDE DEF copied
  <2> QED BY <1>3, <1>4, Zenon
<1>6. CASE f.obsolete <=> x.state = OBSOLETE
  <2>1. Obsolete(copied) = f.obsolete
    <3> HIDE DEF copied
    <3>1. Obsolete(copied) \in BOOLEAN
      BY DEF Obsolete
    <3> QED BY <1>3, <1>4, <1>6, <3>1, Zenon
  <2>2. ~(~Obsolete(copied) /\ f.obsolete) /\ ~(Obsolete(copied) /\ ~f.obsolete)
    <3> HIDE DEF copied
    <3> QED BY <2>1, Zenon
  <2>3. z = copied
    BY <1>5, <2>1, <2>2, Zenon DEF UnitUpdate
  <2> HIDE DEF copied, z
  <2>4. Good(copied)
    BY <1>1, <1>2, <1>6
  <2> HIDE DEF Good
  <2> QED BY <2>3, <2>4, PreSaveSettled DEF Good, z
<1>7. CASE f.obsolete /\ x.state # OBSOLETE
  <2>1. ~(Obsolete(copied) = f.obsolete) /\ ~Obsolete(copied) /\ ~(Obsolete(copied) /\ ~f.obsolete)
    <3> HIDE DEF copied
    <3> QED BY <1>3, <1>7, Zenon
  <2>2. z = MakeObsolete(copied)
    BY <1>5, <1>7, <2>1, Zenon DEF UnitUpdate
  <2> HIDE DEF copied, z
  <2>3. Good(z)
    <3>1. /\ z \in Unit /\ z.state = OBSOLETE
          /\ z.target = f.target /\ z.comment = f.comment
      BY <1>1, <2>2 DEF MakeObsolete, Unit, States
    <3>2. SettledState(z.state)
      BY <1>4, <1>7, <3>1 DEF SettledState
    <3> QED BY <1>7, <3>1, <3>2
  <2> HIDE DEF Good
  <2> QED BY <2>3, PreSaveSettled DEF Good, z
<1>8. CASE ~f.obsolete /\ x.state = OBSOLETE
  <2>1. ~(Obsolete(copied) = f.obsolete) /\ Obsolete(copied) /\ ~(~Obsolete(copied) /\ f.obsolete)
    <3> HIDE DEF copied
    <3> QED BY <1>3, <1>8, Zenon
  <2>2. z = Resurrect(copied, f.fuzzy)
    BY <1>5, <1>8, <2>1, Zenon DEF UnitUpdate
  <2>3. z = [copied EXCEPT !.state = resurrected]
    BY <2>2, Zenon DEF Resurrect
  <2>4. /\ resurrected \in {UNTRANSLATED, TRANSLATED}
        /\ resurrected = TRANSLATED <=> f.target # ""
    <3> DEFINE E == copied.target = ""
    <3>1. E <=> f.target = ""
      BY <1>1, Zenon
    <3>2. resurrected = IF E THEN UNTRANSLATED ELSE TRANSLATED
      BY <1>4, Zenon
    <3>3. UNTRANSLATED # TRANSLATED
      BY DEF UNTRANSLATED, TRANSLATED
    <3> HIDE DEF E, resurrected
    <3> QED BY <3>1, <3>2, <3>3, Zenon
  <2> HIDE DEF copied, z, resurrected
  <2>5. /\ z \in Unit /\ z.state = resurrected
        /\ z.target = f.target /\ z.comment = f.comment
    BY <1>1, <2>3, <2>4 DEF Unit, States
  <2>6. SettledState(z.state) /\ z.state # OBSOLETE
    <3>1. resurrected \in {UNTRANSLATED, TRANSLATED}
      BY <2>4, Zenon
    <3> QED BY <2>5, <3>1 DEF SettledState, OBSOLETE, UNTRANSLATED, TRANSLATED
  <2>7. Settled(z)
    BY <2>4, <2>5, <2>6, Zenon DEF Settled
  <2>8. Good(z)
    BY <1>8, <2>5, <2>6, <2>7
  <2> HIDE DEF Good
  <2> QED BY <2>8, PreSaveSettled DEF Good, z
<1> QED BY <1>6, <1>7, <1>8

\* A unit without marks of needing work goes to a file as it is.
LEMMA ConvertSettled ==
  ASSUME NEW x \in Unit, Settled(x), NEW f \in FileUnit, Done(f),
         x.target = f.target, x.comment = f.comment, x.state = OBSOLETE <=> f.obsolete
  PROVE  Convert(x) = f
<1>1. (x.state = FUZZY) = FALSE
  <2>1. SettledState(x.state)
    BY Zenon DEF Settled
  <2> QED BY <2>1 DEF SettledState, OBSOLETE, UNTRANSLATED, TRANSLATED, FUZZY
<1>2. f.obsolete \in BOOLEAN /\ f.fuzzy = FALSE
  BY DEF FileUnit, Done
<1>3. (x.state = OBSOLETE) = f.obsolete
  BY <1>2, Zenon
<1>4. Convert(x) = [target |-> f.target, comment |-> f.comment,
                    fuzzy |-> f.fuzzy, obsolete |-> f.obsolete]
  BY <1>1, <1>2, <1>3, Zenon DEF Convert
<1> QED BY <1>4 DEF FileUnit

\* An update takes over a unit of the file or leaves the one there is.
LEMMA UpdatedUnitSettled ==
  ASSUME NEW x \in Unit, Settled(x), NEW f \in FileUnit, Done(f),
         NEW old, NEW since, NEW wins, NEW rev \in Nat
  PROVE  LET y == UpdatedUnit(x, f, old, since, wins, rev)
         IN /\ Settled(y)
            /\ IF NeedUpdate(x, f, old, since, wins) /\ Convert(x) # f
               THEN /\ y.target = f.target /\ y.comment = f.comment
                    /\ y.state = OBSOLETE <=> f.obsolete
               ELSE y = x
<1> DEFINE y == UpdatedUnit(x, f, old, since, wins, rev)
           z == PreSave(x, UnitUpdate(x, f))
           need == NeedUpdate(x, f, old, since, wins) /\ Convert(x) # f
<1>1. z \in Unit
  BY UnitUpdateTyped, PreSaveTyped
<1>2. Settled(z) /\ z.target = f.target /\ z.comment = f.comment /\ (z.state = OBSOLETE <=> f.obsolete)
  BY UnitUpdateSettled
<1>3. y = IF need THEN [z EXCEPT !.revision = rev] ELSE x
  BY Zenon DEF UpdatedUnit
<1> HIDE DEF y, z
<1>4. CASE need
  <2>1. y.target = z.target /\ y.comment = z.comment /\ y.state = z.state
    BY <1>1, <1>3, <1>4 DEF Unit
  <2>2. Settled(y)
    BY <1>2, <2>1, Zenon DEF Settled
  <2> QED BY <1>2, <1>4, <2>1, <2>2 DEF y
<1>5. CASE ~need
  BY <1>3, <1>5 DEF y
<1> QED BY <1>4, <1>5

\* A unit that is added is that of the file.
LEMMA AddedUnitSettled ==
  ASSUME NEW f \in FileUnit, Done(f), NEW rev \in Nat
  PROVE  LET y == AddedUnit(f, rev)
         IN /\ Settled(y) /\ y.target = f.target /\ y.comment = f.comment
            /\ y.state = OBSOLETE <=> f.obsolete
<1> DEFINE empty == ""
           blank == [target |-> empty, comment |-> empty, state |-> UNTRANSLATED,
                     revision |-> rev, creation_revision |-> rev]
<1>1. AddedUnit(f, rev) = PreSave(blank, UnitUpdate(blank, f))
  BY Zenon DEF AddedUnit
<1>2. empty \in Target /\ empty \in Comments
  BY TextsAssumption DEF Target
<1>3. \A x : Settled(x) <=> /\ SettledState(x.state)
                            /\ x.state # OBSOLETE => (x.state = TRANSLATED <=> x.target # empty)
  BY Zenon DEF Settled
<1> HIDE DEF empty
<1>4. blank \in Unit
  BY <1>2 DEF Unit, States
<1>5. Settled(blank)
  BY <1>3 DEF SettledState, OBSOLETE, UNTRANSLATED, TRANSLATED
<1> HIDE DEF blank
<1> QED BY <1>1, <1>4, <1>5, UnitUpdateSettled

\* So is everything that an update leaves.
LEMMA MergedSettled ==
  ASSUME NEW rows \in StoreUnit, SettledRows(rows), NEW ss, NEW d,
         NEW file \in File, DoneFile(file), NEW since, NEW wins, NEW rev \in Nat, NEW u \in Units,
         NEW y, SameButRevision(MergedOne(rows, ss, d, file, since, wins, Allow, rev, u), y)
  PROVE  y # NULL => Settled(y)
<1> DEFINE x == StructuredOne(rows, ss, d, file, since, wins, Allow, rev, u)
           one == MergedOne(rows, ss, d, file, since, wins, Allow, rev, u)
           toUpdate == UnitsToUpdate(rows, d, file, since)
           old == AtRevision(rows, ss, since)
<1>1. x = IF Allow THEN WithStructure(rows, toUpdate, file, old, since, wins, rev)[u]
          ELSE rows[u]
  BY Zenon DEF StructuredOne
<1>2. one = IF u \in toUpdate THEN UpdatedUnit(x, file[u], old[u], since, wins, rev) ELSE x
  BY Zenon DEF MergedOne
<1>3. u \in toUpdate => x \in Unit /\ file[u] \in FileUnit
  BY MergedOneTyped
<1>4. WithStructure(rows, toUpdate, file, old, since, wins, rev)[u]
        = IF u \in UnitsToAdd(rows, file) THEN AddedUnit(file[u], rev)
          ELSE IF u \in UnitsObsoleted(rows, toUpdate, file, old, since, wins)
          THEN [MakeObsolete(rows[u]) EXCEPT !.revision = rev]
          ELSE rows[u]
  BY Zenon DEF WithStructure
<1> HIDE DEF x, one, toUpdate, old
<1>5. x # NULL => Settled(x)
  <2>1. CASE Allow /\ u \in UnitsToAdd(rows, file)
    <3>1. file[u] \in FileUnit /\ Done(file[u])
      BY <2>1 DEF UnitsToAdd, In, File, DoneFile
    <3> QED BY <1>1, <1>4, <2>1, <3>1, AddedUnitSettled
  <2>2. CASE /\ Allow /\ u \notin UnitsToAdd(rows, file)
             /\ u \in UnitsObsoleted(rows, toUpdate, file, old, since, wins)
    <3>1. rows[u] \in Unit
      BY <2>2 DEF UnitsObsoleted, UnitsToObsolete, Active, Live, StoreUnit
    <3>2. x.state = OBSOLETE
      BY <1>1, <1>4, <2>2, <3>1 DEF MakeObsolete, Unit
    <3> QED BY <2>2, <3>2 DEF Settled, SettledState
  <2>3. CASE ~(Allow /\ (\/ u \in UnitsToAdd(rows, file)
                         \/ u \in UnitsObsoleted(rows, toUpdate, file, old, since, wins)))
    BY <1>1, <1>4, <2>3 DEF SettledRows
  <2> QED BY <2>1, <2>2, <2>3
<1>6. one # NULL => Settled(one)
  <2>1. CASE u \in toUpdate
    <3>1. Settled(x)
      BY <1>3, <1>5, <2>1, NullAssumption
    <3>2. Done(file[u])
      BY <1>3, <2>1, NullAssumption DEF DoneFile
    <3> QED BY <1>2, <1>3, <2>1, <3>1, <3>2, UpdatedUnitSettled
  <2>2. CASE u \notin toUpdate
    BY <1>2, <1>5, <2>2
  <2> QED BY <2>1, <2>2
<1>7. SameButRevision(one, y)
  BY DEF one
<1>8. CASE y = one
  BY <1>6, <1>8
<1>9. CASE y # one
  <2>1. one # NULL /\ y.target = one.target /\ y.state = one.state
    BY <1>7, <1>9 DEF SameButRevision
  <2> QED BY <1>6, <2>1, Zenon DEF Settled
<1> QED BY <1>8, <1>9

\* At first, everything is settled.
LEMMA InitSettled == Init => SettledInv
<1> SUFFICES ASSUME Init PROVE SettledInv
  OBVIOUS
<1> DEFINE empty == ""
<1>1. PICK t \in [Stored -> Target] :
        unit = [u \in Units |->
                 IF u \in Stored
                 THEN [target |-> t[u], comment |-> empty,
                       state |-> IF t[u] = empty THEN UNTRANSLATED ELSE TRANSLATED,
                       revision |-> 1, creation_revision |-> 1]
                 ELSE NULL]
  BY Zenon DEF Init
<1> HIDE DEF empty
<1>2. subs = {} /\ copies = [c \in Copies |-> NULL] /\ tx = [w \in Workers |-> NULL]
  BY DEF Init
<1>3. \A u \in Units : unit[u] # NULL =>
        unit[u].state = IF unit[u].target = empty THEN UNTRANSLATED ELSE TRANSLATED
  BY <1>1
<1>4. ASSUME NEW u \in Units, unit[u] # NULL PROVE Settled(unit[u])
  <2> DEFINE x == unit[u]
  <2>1. Settled(x) <=> /\ SettledState(x.state)
                       /\ x.state # OBSOLETE => (x.state = TRANSLATED <=> x.target # empty)
    BY Zenon DEF Settled, empty
  <2>2. x.state = IF x.target = empty THEN UNTRANSLATED ELSE TRANSLATED
    BY <1>3, <1>4
  <2> HIDE DEF x
  <2>3. /\ SettledState(x.state)
        /\ x.state # OBSOLETE => (x.state = TRANSLATED <=> x.target # empty)
    BY <2>2 DEF SettledState, OBSOLETE, UNTRANSLATED, TRANSLATED
  <2> QED BY <2>1, <2>3 DEF x
<1> QED BY <1>2, <1>4 DEF SettledInv, SettledRows, SettledSubs

\* The step of a request that changes nothing else.
LEMMA OneSettled ==
  ASSUME TypeInv, SettledInv, NEW w \in Workers, NEW t, Becomes(w, t), t = NULL \/ SettledTx(t)
  PROVE  SettledInv'
<1>1. tx' = [tx EXCEPT ![w] = t] /\ UNCHANGED <<unit, subs, copies>>
  BY DEF Becomes
<1>2. \A v \in Workers : tx'[v] = IF v = w THEN t ELSE tx[v]
  BY <1>1 DEF TypeInv, TypeOK
<1> QED BY <1>1, <1>2 DEF SettledInv

\* A request that has begun is settled if its unit and its file are.
LEMMA LoadedSettled ==
  ASSUME NEW req, NEW row, row # NULL => Settled(row),
         req.op = "submit" => req.fuzzy = FALSE,
         req.op = "upload" => DoneFile(req.file)
  PROVE  SettledTx(Loaded(req, row))
  BY DEF Loaded, SettledTx, SettledRows, SettledSubs

\* Beginning an edit keeps SettledInv.
LEMMA EditSettled ==
  ASSUME NoFuzzy, TypeInv, SettledInv, NEW w \in Workers, Edit(w)
  PROVE  SettledInv'
<1>1. ASSUME NEW u \in Units, NEW req, LoadUnit(w, u, req), req.op # "upload",
             req.op = "submit" => req.fuzzy = FALSE
      PROVE  SettledInv'
  <2>1. Becomes(w, Loaded(req, unit[u]))
    BY <1>1 DEF LoadUnit, Becomes
  <2>2. unit[u] # NULL => Settled(unit[u])
    BY DEF SettledInv, SettledRows
  <2>3. SettledTx(Loaded(req, unit[u]))
    BY <1>1, <2>2, LoadedSettled
  <2> QED BY <2>1, <2>3, OneSettled
<1>2. PICK u \in Units :
        \/ \E target \in Target, fuzzy \in Fuzzy : Submit(w, u, target, fuzzy)
        \/ \E comment \in Comments : Comment(w, u, comment)
        \/ \E suggestion, target \in Texts : Accept(w, u, suggestion, target)
  BY Zenon DEF Edit
<1>3. ASSUME NEW target \in Target, NEW fuzzy \in Fuzzy, Submit(w, u, target, fuzzy)
      PROVE  SettledInv'
  <2> DEFINE req == [op |-> "submit", unit |-> u, target |-> target, fuzzy |-> FALSE]
  <2>1. req.op # "upload" /\ req.fuzzy = FALSE
    OBVIOUS
  <2>2. fuzzy = FALSE
    BY DEF NoFuzzy
  <2>3. LoadUnit(w, u, [op |-> "submit", unit |-> u, target |-> target, fuzzy |-> fuzzy])
    BY <1>3, Zenon DEF Submit
  <2>4. LoadUnit(w, u, req)
    BY <2>2, <2>3, Zenon
  <2> HIDE DEF req
  <2> QED BY <1>1, <2>1, <2>4
<1>4. ASSUME NEW comment \in Comments, Comment(w, u, comment)
      PROVE  SettledInv'
  <2> DEFINE req == [op |-> "comment", unit |-> u, comment |-> comment]
  <2>1. req.op # "upload" /\ req.op # "submit"
    OBVIOUS
  <2>2. LoadUnit(w, u, req)
    BY <1>4, Zenon DEF Comment
  <2> HIDE DEF req
  <2> QED BY <1>1, <2>1, <2>2
<1>5. ASSUME NEW suggestion \in Texts, NEW target \in Texts, Accept(w, u, suggestion, target)
      PROVE  SettledInv'
  <2> DEFINE req == [op |-> "accept", unit |-> u, suggestion |-> suggestion, target |-> target]
  <2>1. req.op # "upload" /\ req.op # "submit"
    OBVIOUS
  <2>2. LoadUnit(w, u, req)
    BY <1>5, Zenon DEF Accept
  <2> HIDE DEF req
  <2> QED BY <1>1, <2>1, <2>2
<1> QED BY <1>2, <1>3, <1>4, <1>5

\* So is what an edit makes of a unit, if it does not ask for more work.
LEMMA EditedSettled ==
  ASSUME NEW req \in Request, req.op \in {"submit", "comment", "accept"}, NEW x \in Unit,
         Settled(x), req.op = "submit" => req.fuzzy = FALSE
  PROVE  Settled(Edited(x, req))
<1> DEFINE y == CASE req.op = "submit" -> Submitted(x, req)
                  [] req.op = "accept" -> Accepted(x, req)
                  [] req.op = "comment" -> [x EXCEPT !.comment = req.comment]
           Good(z) == /\ z \in Unit /\ SettledState(z.state)
                      /\ z.state \in {OBSOLETE, x.state} \/ Settled(z)
<1>0. SettledState(x.state)
  BY Zenon DEF Settled
<1>1. ASSUME req.op = "submit" PROVE Good(y)
  <2>1. ~(req.op = "accept") /\ ~(req.op = "comment")
    BY <1>1
  <2>2. y = Submitted(x, req)
    BY <1>1, <2>1, Zenon
  <2>3. req.target \in Target
    BY <1>1, RequestParts
  <2> DEFINE empty == ""
             state == CASE req.target = empty -> UNTRANSLATED
                        [] req.target # empty /\ req.fuzzy -> FUZZY
                        [] OTHER -> TRANSLATED
             z == Submitted(x, req)
  <2>4. req.fuzzy = FALSE
    BY <1>1
  <2>5. state = IF req.target = empty THEN UNTRANSLATED ELSE TRANSLATED
    BY <2>4, Zenon
  <2>6. z = [x EXCEPT !.target = req.target, !.state = state]
    BY Zenon DEF Submitted
  <2>7. Settled(z) <=> /\ SettledState(z.state)
                       /\ z.state # OBSOLETE => (z.state = TRANSLATED <=> z.target # empty)
    BY Zenon DEF Settled
  <2> HIDE DEF empty, state, z
  <2>8. z \in Unit /\ z.target = req.target /\ z.state = state
    BY <2>3, <2>5, <2>6 DEF Unit, States
  <2>9. SettledState(z.state) /\ Settled(z)
    BY <2>5, <2>7, <2>8 DEF SettledState, OBSOLETE, UNTRANSLATED, TRANSLATED
  <2>10. Good(z)
    BY <2>8, <2>9
  <2> HIDE DEF y, Good
  <2> QED BY <2>2, <2>10 DEF z
<1>2. ASSUME req.op = "accept" PROVE Good(y)
  <2>1. ~(req.op = "submit") /\ ~(req.op = "comment")
    BY <1>2
  <2>2. y = Accepted(x, req)
    BY <1>2, <2>1, Zenon
  <2>3. req.target \in Target
    BY <1>2, RequestParts
  <2>4. Good(Accepted(x, req))
    <3>1. x.state # FUZZY
      BY <1>0 DEF SettledState, OBSOLETE, UNTRANSLATED, TRANSLATED, FUZZY
    <3>2. Accepted(x, req) \in Unit /\ Accepted(x, req).state = x.state
      BY <2>3, <3>1 DEF Accepted, Unit
    <3> QED BY <1>0, <3>2
  <2> HIDE DEF y, Good
  <2> QED BY <2>2, <2>4
<1>3. ASSUME req.op = "comment" PROVE Good(y)
  <2>1. ~(req.op = "accept") /\ ~(req.op = "submit")
    BY <1>3
  <2>2. y = [x EXCEPT !.comment = req.comment]
    BY <1>3, <2>1, Zenon
  <2>3. req.comment \in Comments
    BY <1>3, RequestParts
  <2> DEFINE z == [x EXCEPT !.comment = req.comment]
  <2>5. z \in Unit /\ z.state = x.state
    BY <2>3 DEF Unit
  <2> HIDE DEF z
  <2>6. Good(z)
    BY <1>0, <2>5
  <2> HIDE DEF y, Good
  <2> QED BY <2>2, <2>6 DEF z
<1>4. Good(y)
  <2> HIDE DEF y, Good
  <2> QED BY <1>1, <1>2, <1>3
<1>5. Edited(x, req) = PreSave(x, y)
  BY Zenon DEF Edited
<1> HIDE DEF y
<1> QED BY <1>4, <1>5, PreSaveSettled

\* Saving a unit keeps SettledInv.
LEMMA SaveSettled ==
  ASSUME NoFuzzy, TypeInv, SettledInv, NEW w \in Workers, SaveUnit(w)
  PROVE  SettledInv'
<1> DEFINE t == tx[w]
           x == t.row
           y == SavedUnit(t)
           r == Saved(t, x, y)
<1>1. /\ t \in Tx /\ t.req \in Request
      /\ t.req.op \in {"submit", "comment", "accept"} /\ t.req.unit \in Units
      /\ x \in Unit /\ y \in Unit /\ Becomes(w, r)
  BY SaveUnitParts
<1>2. t # NULL /\ x # NULL /\ revision \in Nat
  BY <1>1, NullAssumption DEF TypeInv, TypeOK
<1>3. SettledTx(t)
  BY <1>2 DEF SettledInv
<1>4. Settled(x) /\ (t.req.op = "submit" => t.req.fuzzy = FALSE)
  BY <1>2, <1>3 DEF SettledTx
<1>5. Settled(y)
  <2> DEFINE e == Edited(x, t.req)
  <2>1. e \in Unit /\ Settled(e)
    <3> HIDE DEF t
    <3> QED BY <1>1, <1>4, EditedTyped, EditedSettled
  <2>2. y = [e EXCEPT !.revision = IF SavedAt(t) > revision THEN SavedAt(t) ELSE e.revision]
    BY Zenon DEF SavedUnit
  <2> HIDE DEF e, y
  <2>3. y.target = e.target /\ y.state = e.state
    BY <2>1, <2>2 DEF Unit
  <2> QED BY <2>1, <2>3, Zenon DEF Settled
<1> HIDE DEF t, y
<1>6. /\ r.req = t.req /\ r.row = t.row /\ r.sub = Submissions(t.req.unit, x, y)
      /\ r.wrote = [t.wrote EXCEPT ![t.req.unit] = y]
  BY <1>1 DEF Saved, Tx
<1>7. SettledRows(r.wrote)
  <2>1. t.wrote \in StoreUnit /\ SettledRows(t.wrote)
    BY <1>1, <1>3 DEF Tx, SettledTx
  <2> HIDE DEF r
  <2> QED BY <1>1, <1>5, <1>6, <2>1 DEF SettledRows, StoreUnit
<1>8. SettledSubs(r.sub)
  <2>1. \A s \in r.sub : s.old.state = x.state /\ s.new.state = y.state
    BY <1>6 DEF Submissions
  <2>2. SettledState(x.state) /\ SettledState(y.state)
    BY <1>4, <1>5, Zenon DEF Settled
  <2> QED BY <2>1, <2>2 DEF SettledSubs
<1> HIDE DEF r
<1>9. SettledTx(r)
  BY <1>3, <1>6, <1>7, <1>8 DEF SettledTx
<1> QED BY <1>1, <1>9, OneSettled

\* An upload keeps SettledInv.
LEMMA UploadSettled ==
  ASSUME NoFuzzy, TypeInv, SettledInv, NEW w \in Workers, NEW c \in Copies, NEW wins \in Sides,
         Upload(w, c, wins)
  PROVE  SettledInv'
<1>0. PICK o, req, save : UploadBy(w, c, wins, o, req, save)
  BY UploadParts, Zenon
<1>1. /\ req \in Request /\ req.op = "upload" /\ req.copy = c
      /\ req.file = copies[c].file /\ req.wins = wins
      /\ Idle(w) /\ copies[c] \in Copy
      /\ o = Update(unit, subs, suggested, data, copies[c].file, copies[c].rev, wins,
                    Allow, revision)
      /\ Outcome(unit, o, revision, revision)
      /\ o.saved = FALSE => o.subs = {} /\ NoneAdded(unit, o.rows)
      /\ save = FALSE => o.saved = FALSE
      /\ save \in BOOLEAN
      /\ revision' = o.revision
      /\ Becomes(w, Uploading(req, o, save))
  BY <1>0, Zenon DEF UploadBy
<1> DEFINE t == Uploading(req, o, save)
           wrote == [u \in Units |-> IF u \in {v \in Units : o.rows[v] # unit[v]}
                                     THEN o.rows[u] ELSE NULL]
           step == IF save THEN "saved" ELSE "aggregated"
           file == copies[c].file
           since == copies[c].rev
<1>2. t = [Loaded(req, NULL) EXCEPT !.step = step, !.wrote = wrote,
                                    !.sub = o.subs, !.add = o.suggested]
  BY Zenon DEF Uploading
<1>3. \A u \in Units : wrote[u] = IF o.rows[u] # unit[u] THEN o.rows[u] ELSE NULL
  OBVIOUS
<1>4. /\ unit \in StoreUnit /\ revision \in Nat /\ SettledRows(unit)
      /\ file \in File /\ DoneFile(file)
  BY <1>1, NullAssumption DEF TypeInv, TypeOK, SettledInv, Copy
<1>5. o = Update(unit, subs, suggested, data, file, since, wins, Allow, revision)
  BY <1>1
<1> HIDE DEF step, wrote, t, file, since
<1>7. OneUpdated(unit, subs, suggested, data, file, since, wins, Allow, revision + 1, o)
  BY <1>4, <1>5, UpdateOfOne
<1>8. SettledRows(o.rows)
  <2> DEFINE next == revision + 1
  <2>1. next \in Nat
    BY <1>4
  <2> HIDE DEF next
  <2>2. \A u \in Units :
          SameButRevision(MergedOne(unit, subs, data, file, since, wins, Allow, next, u), o.rows[u])
    BY <1>7 DEF OneUpdated, next
  <2>3. \A u \in Units : o.rows[u] # NULL => Settled(o.rows[u])
    BY <1>4, <2>1, <2>2, MergedSettled
  <2> QED BY <2>3 DEF SettledRows
<1>9. SettledSubs(o.subs)
  <2>1. \A s \in o.subs : /\ s.unit \in Units /\ unit[s.unit] # NULL /\ o.rows[s.unit] # NULL
                          /\ s.old.state = unit[s.unit].state
                          /\ s.new.state = o.rows[s.unit].state
    <3>1. o.subs \subseteq Submission /\ Recorded(unit, o.rows, o.subs, revision)
      BY <1>1 DEF Outcome
    <3>2. \A s \in o.subs : s.unit \in Units
      BY <3>1 DEF Submission
    <3>3. \A s \in o.subs : /\ unit[s.unit] # NULL
                            /\ s.old.state = unit[s.unit].state
                            /\ s.new.state = o.rows[s.unit].state
      BY <3>1, Zenon DEF Recorded
    <3>4. \A u \in Units : unit[u] # NULL => o.rows[u] # NULL
      BY <3>1, Zenon DEF Recorded
    <3> QED BY <3>2, <3>3, <3>4, Zenon
  <2>2. \A s \in o.subs : Settled(unit[s.unit]) /\ Settled(o.rows[s.unit])
    BY <1>4, <1>8, <2>1 DEF SettledRows
  <2>3. \A s \in o.subs : SettledState(s.old.state) /\ SettledState(s.new.state)
    BY <2>1, <2>2, Zenon DEF Settled
  <2> QED BY <2>3 DEF SettledSubs
<1>10. t.sub = o.subs /\ t.wrote = wrote /\ t.req = req /\ t.row = NULL
  BY <1>2 DEF Loaded
<1>11. SettledRows(wrote)
  BY <1>3, <1>8 DEF SettledRows
<1>12. req.op # "submit" /\ DoneFile(req.file)
  BY <1>1, <1>4 DEF file
<1>13. SettledTx(t)
  BY <1>9, <1>10, <1>11, <1>12 DEF SettledTx
<1> QED BY <1>1, <1>13, OneSettled DEF t

\* Computing StoreData keeps SettledInv.
LEMMA AggregateSettled ==
  ASSUME TypeInv, SettledInv, NEW w \in Workers, Aggregate(w)
  PROVE  SettledInv'
<1> DEFINE t == tx[w]
           max == MaxUnitRevision(View(w))
           r == [t EXCEPT !.step = "aggregated", !.max = max]
<1>1. t # NULL /\ Becomes(w, r)
  BY Zenon DEF Aggregate, Becomes, Idle
<1>2. t \in Tx /\ SettledTx(t)
  BY <1>1 DEF TypeInv, TypeOK, SettledInv
<1> HIDE DEF t, max
<1>3. r.req = t.req /\ r.row = t.row /\ r.sub = t.sub /\ r.wrote = t.wrote
  BY <1>2 DEF Tx
<1> HIDE DEF r
<1>4. SettledTx(r)
  BY <1>2, <1>3 DEF SettledTx
<1> QED BY <1>1, <1>4, OneSettled

\* Exporting the units keeps SettledInv.
LEMMA ExportSettled ==
  ASSUME TypeInv, SettledInv, NEW w \in Workers, Export(w)
  PROVE  SettledInv'
<1> DEFINE t == tx[w]
           copy == [rev |-> t.req.rev, orig |-> Exported(unit), file |-> Exported(unit)]
<1>1. /\ copies' = [copies EXCEPT ![t.req.copy] = copy]
      /\ tx' = [tx EXCEPT ![w] = NULL]
      /\ UNCHANGED <<unit, subs>>
  BY Zenon DEF Export
<1>2. unit \in StoreUnit /\ SettledRows(unit)
  BY DEF TypeInv, TypeOK, SettledInv
<1>3. PlainFile(Exported(unit))
  <2> SUFFICES ASSUME NEW u \in Units, Exported(unit)[u] # NULL PROVE Unmarked(Exported(unit)[u])
    BY DEF PlainFile
  <2>1. Live(unit[u]) /\ Exported(unit)[u] = Convert(unit[u])
    BY DEF Exported
  <2>2. unit[u] \in Unit /\ Settled(unit[u])
    BY <1>2, <2>1 DEF Live, StoreUnit, SettledRows
  <2>3. Plain(unit[u].state)
    <3>1. SettledState(unit[u].state)
      BY <2>2, Zenon DEF Settled
    <3> QED BY <2>1, <3>1 DEF SettledState, Plain, Live, OBSOLETE
  <2> QED BY <2>1, <2>2, <2>3, ConvertPlain
<1>8. DoneFile(Exported(unit))
  BY <1>3, Zenon DEF DoneFile, PlainFile, Done, Unmarked
<1>4. copy.orig = Exported(unit) /\ copy.file = Exported(unit)
  OBVIOUS
<1> HIDE DEF copy, t
<1>5. \A c \in Copies : copies'[c] # NULL => copies'[c] = copies[c] \/ copies'[c] = copy
  BY <1>1 DEF TypeInv, TypeOK
<1>6. \A v \in Workers : tx'[v] # NULL => tx'[v] = tx[v]
  BY <1>1 DEF TypeInv, TypeOK
<1>7. \A c \in Copies : copies'[c] # NULL =>
        PlainFile(copies'[c].orig) /\ DoneFile(copies'[c].file)
  BY <1>3, <1>4, <1>5, <1>8 DEF SettledInv
<1> QED BY <1>1, <1>6, <1>7 DEF SettledInv

\* Working offline keeps SettledInv.
LEMMA TranslateSettled ==
  ASSUME NoFuzzy, TypeInv, SettledInv, NEW c \in Copies, NEW u \in Units,
         NEW f \in OfflineUnit \cup {NULL}, TranslateOffline(c, u, f)
  PROVE  SettledInv'
<1> DEFINE copy == [copies[c] EXCEPT !.file[u] = f]
<1>1. /\ copies[c] # NULL /\ copies' = [copies EXCEPT ![c] = copy]
      /\ UNCHANGED <<unit, subs, tx>>
  BY Zenon DEF TranslateOffline
<1>2. copies \in [Copies -> Copy \cup {NULL}] /\ copies[c] \in Copy
  BY <1>1 DEF TypeInv, TypeOK
<1>3. f # NULL => Done(f)
  BY DEF OfflineUnit, NoFuzzy, Done
<1>4. copy = [copies[c] EXCEPT !.file = [copies[c].file EXCEPT ![u] = f]]
  BY Zenon
<1>5. /\ copy.orig = copies[c].orig
      /\ \A v \in Units : copy.file[v] = IF v = u THEN f ELSE copies[c].file[v]
  BY <1>2, <1>4 DEF Copy, File
<1>6. PlainFile(copies[c].orig) /\ DoneFile(copies[c].file)
  BY <1>1 DEF SettledInv
<1> HIDE DEF copy
<1>7. PlainFile(copy.orig) /\ DoneFile(copy.file)
  BY <1>3, <1>5, <1>6 DEF DoneFile
<1>8. \A d \in Copies : copies'[d] # NULL => copies'[d] = copies[d] \/ copies'[d] = copy
  BY <1>1, <1>2
<1>9. \A d \in Copies : copies'[d] # NULL =>
        PlainFile(copies'[d].orig) /\ DoneFile(copies'[d].file)
  BY <1>7, <1>8 DEF SettledInv
<1> QED BY <1>1, <1>9 DEF SettledInv

\* A commit keeps SettledInv.
LEMMA CommitSettled ==
  ASSUME TypeInv, SettledInv, NEW w \in Workers, Commit(w)
  PROVE  SettledInv'
<1> DEFINE t == tx[w]
           V == View(w)
<1>1. /\ t # NULL /\ unit' = V /\ subs' = subs \cup t.sub
      /\ tx' = [tx EXCEPT ![w] = NULL] /\ copies' = copies
  BY Zenon DEF Commit, Idle
<1>2. SettledTx(t)
  BY <1>1 DEF SettledInv
<1>3. \A u \in Units : V[u] = IF t.wrote[u] # NULL THEN t.wrote[u] ELSE unit[u]
  BY DEF View
<1> HIDE DEF t, V
<1>4. SettledRows(V)
  BY <1>2, <1>3 DEF SettledInv, SettledTx, SettledRows
<1>5. SettledSubs(subs \cup t.sub)
  BY <1>2 DEF SettledInv, SettledTx, SettledSubs
<1>6. \A v \in Workers : tx'[v] # NULL => tx'[v] = tx[v]
  BY <1>1 DEF TypeInv, TypeOK
<1> QED BY <1>1, <1>4, <1>5, <1>6 DEF SettledInv

\* Beginning a download keeps SettledInv.
LEMMA DownloadSettled ==
  ASSUME TypeInv, SettledInv, NEW w \in Workers, NEW c \in Copies, Download(w, c)
  PROVE  SettledInv'
<1> DEFINE req == [op |-> "download", copy |-> c, rev |-> data]
<1>1. Becomes(w, Loaded(req, NULL))
  BY DEF Download, Becomes
<1>2. req.op # "submit" /\ req.op # "upload"
  OBVIOUS
<1> HIDE DEF req
<1>3. SettledTx(Loaded(req, NULL))
  BY <1>2, LoadedSettled
<1> QED BY <1>1, <1>3, OneSettled

\* Every step keeps SettledInv.
LEMMA SettledStep == NoFuzzy /\ TypeInv /\ SettledInv /\ [Next]_vars => SettledInv'
<1> SUFFICES ASSUME NoFuzzy, TypeInv, SettledInv, [Next]_vars PROVE SettledInv'
  OBVIOUS
<1>1. ASSUME NEW w \in Workers, Edit(w) PROVE SettledInv'
  BY <1>1, EditSettled
<1>2. ASSUME NEW w \in Workers, SaveUnit(w) PROVE SettledInv'
  BY <1>2, SaveSettled
<1>3. ASSUME NEW w \in Workers, NEW c \in Copies, Download(w, c) PROVE SettledInv'
  BY <1>3, DownloadSettled
<1>4. ASSUME NEW w \in Workers, Export(w) PROVE SettledInv'
  BY <1>4, ExportSettled
<1>5. ASSUME NEW w \in Workers, NEW c \in Copies, NEW wins \in Wins, Upload(w, c, wins)
      PROVE  SettledInv'
  <2>1. wins \in Sides
    BY OptionsAssumption
  <2> QED BY <1>5, <2>1, UploadSettled
<1>6. ASSUME NEW w \in Workers, Aggregate(w) PROVE SettledInv'
  BY <1>6, AggregateSettled
<1>7. ASSUME NEW w \in Workers, Commit(w) PROVE SettledInv'
  BY <1>7, CommitSettled
<1>8. ASSUME NEW c \in Copies, NEW u \in Units, NEW f \in OfflineUnit \cup {NULL},
             TranslateOffline(c, u, f)
      PROVE  SettledInv'
  BY <1>8, TranslateSettled
<1>9. CASE UNCHANGED vars
  BY <1>9 DEF vars, SettledInv
<1> QED BY <1>1, <1>2, <1>3, <1>4, <1>5, <1>6, <1>7, <1>8, <1>9 DEF Next

\* SettledInv is an invariant if there are translations only.
LEMMA SettledHolds ==
  ASSUME NoFuzzy
  PROVE  Spec => []SettledInv
<1>1. Init => SettledInv
  BY InitSettled
<1>2. TypeInv /\ SettledInv /\ [Next]_vars => SettledInv'
  BY SettledStep
<1> QED BY <1>1, <1>2, Typed, PTL DEF Spec

-----------------------------------------------------------------------------
(* Translations only: uploads do not add or remove units either.  Then the  *)
(* flags of the version are right as well.                                  *)

TargetsOnly == Allow = FALSE /\ NoFuzzy

PlainInv ==
  /\ PlainRows(unit)
  /\ PlainSubs(subs)
  /\ \A c \in Copies : copies[c] # NULL => PlainFile(copies[c].orig)
  /\ \A w \in Workers : tx[w] # NULL /\ tx[w].req.op = "upload" => PlainFile(tx[w].req.file)

\* PlainInv is an invariant if there are translations only.
LEMMA PlainHolds ==
  ASSUME TargetsOnly
  PROVE  Spec => []PlainInv
<1>1. NoFuzzy /\ Allow = FALSE
  BY DEF TargetsOnly
<1>2. ASSUME NEW x, Settled(x) PROVE Plain(x.state)
  <2>1. SettledState(x.state)
    BY <1>2, Zenon DEF Settled
  <2> QED BY <1>1, <2>1 DEF SettledState, Plain
<1>3. ASSUME NEW file \in File, DoneFile(file) PROVE PlainFile(file)
  <2>1. ASSUME NEW u \in Units, file[u] # NULL PROVE Unmarked(file[u])
    <3>1. file[u] \in FileUnit /\ Done(file[u])
      BY <1>3, <2>1 DEF File, DoneFile
    <3>2. file[u].obsolete \in BOOLEAN
      BY <3>1 DEF FileUnit
    <3> QED BY <1>1, <3>1, <3>2, Zenon DEF Done, Unmarked
  <2> QED BY <2>1 DEF PlainFile
<1>4. TypeInv /\ SettledInv => PlainInv
  <2> SUFFICES ASSUME TypeInv, SettledInv PROVE PlainInv
    OBVIOUS
  <2>1. PlainRows(unit)
    BY <1>2 DEF SettledInv, SettledRows, PlainRows
  <2>2. PlainSubs(subs)
    BY <1>1 DEF SettledInv, SettledSubs, SettledState, PlainSubs, Plain
  <2>3. ASSUME NEW w \in Workers, tx[w] # NULL, tx[w].req.op = "upload"
        PROVE  PlainFile(tx[w].req.file)
    <3>1. tx[w] \in Tx
      BY <2>3 DEF TypeInv, TypeOK
    <3>2. tx[w].req \in Request
      BY <3>1 DEF Tx
    <3>3. tx[w].req.file \in File
      BY <2>3, <3>2, RequestParts
    <3>4. DoneFile(tx[w].req.file)
      BY <2>3 DEF SettledInv, SettledTx
    <3> QED BY <1>3, <3>3, <3>4
  <2> QED BY <2>1, <2>2, <2>3 DEF SettledInv, PlainInv
<1>5. Spec => []SettledInv
  BY <1>1, SettledHolds
<1> QED BY <1>4, <1>5, Typed, PTL

\* A save does not mark a unit.
LEMMA PreSavePlain ==
  ASSUME NEW x, NEW y \in Unit, Plain(y.state)
  PROVE  Plain(PreSave(x, y).state) /\ PreSave(x, y).comment = y.comment
  BY DEF PreSave, Plain, Unit, UNTRANSLATED, TRANSLATED, FUZZY

\* Units of a file without marks are equal if their target and comment are.
LEMMA UnmarkedEqual ==
  ASSUME NEW f \in FileUnit, NEW g \in FileUnit, Unmarked(f), Unmarked(g),
         f.target = g.target, f.comment = g.comment
  PROVE  f = g
<1>1. f.fuzzy = g.fuzzy /\ f.obsolete = g.obsolete
  BY Zenon DEF Unmarked
<1> QED BY <1>1 DEF FileUnit

\* Unit.update takes over the target and the comment.
LEMMA UnitUpdatePlain ==
  ASSUME NEW x \in Unit, Plain(x.state), NEW f \in FileUnit, Unmarked(f)
  PROVE  UnitUpdate(x, f) = [x EXCEPT !.target = f.target, !.comment = f.comment]
<1> DEFINE copied == [x EXCEPT !.target = f.target, !.comment = f.comment]
<1>1. copied.state = x.state
  BY DEF Unit
<1>2. (copied.state = FUZZY) = FALSE /\ Obsolete(copied) = FALSE
  BY <1>1 DEF Plain, Obsolete, FUZZY, OBSOLETE, UNTRANSLATED, TRANSLATED
<1>3. f.fuzzy = FALSE /\ f.obsolete = FALSE
  BY Zenon DEF Unmarked
<1>4. ~((copied.state = FUZZY) # f.fuzzy)
  <2> HIDE DEF copied
  <2> QED BY <1>2, <1>3, Zenon
<1>5. ~(~Obsolete(copied) /\ f.obsolete) /\ ~(Obsolete(copied) /\ ~f.obsolete)
  <2> HIDE DEF copied
  <2> QED BY <1>2, <1>3, Zenon
<1>6. Obsolete(copied) = f.obsolete
  <2> HIDE DEF copied
  <2> QED BY <1>2, <1>3, Zenon
<1> QED BY <1>4, <1>5, <1>6, Zenon DEF UnitUpdate

\* Without marks, an update takes over a unit of the file or leaves the one there is.
LEMMA UpdatedUnitPlain ==
  ASSUME NEW x \in Unit, Plain(x.state), NEW f \in FileUnit, Unmarked(f),
         NEW old, NEW since, NEW wins, NEW rev \in Nat
  PROVE  LET y == UpdatedUnit(x, f, old, since, wins, rev)
         IN /\ Plain(y.state)
            /\ IF NeedUpdate(x, f, old, since, wins) /\ Convert(x) # f
               THEN y.target = f.target /\ y.comment = f.comment
               ELSE y = x
<1> DEFINE y == UpdatedUnit(x, f, old, since, wins, rev)
           copied == [x EXCEPT !.target = f.target, !.comment = f.comment]
           z == PreSave(x, copied)
           need == NeedUpdate(x, f, old, since, wins) /\ Convert(x) # f
<1>1. copied \in Unit /\ copied.target = f.target /\ copied.comment = f.comment /\ Plain(copied.state)
  BY DEF Unit, FileUnit
<1>2. UnitUpdate(x, f) = copied
  BY UnitUpdatePlain
<1> HIDE DEF copied
<1>3. z \in Unit /\ z.target = f.target /\ z.comment = f.comment /\ Plain(z.state)
  BY <1>1, PreSaveTyped, PreSavePlain
<1>4. CASE need
  <2>1. y = [z EXCEPT !.revision = rev]
    BY <1>2, <1>4, Zenon DEF UpdatedUnit
  <2> HIDE DEF z, y, need
  <2>2. Plain(y.state) /\ y.target = f.target /\ y.comment = f.comment
    BY <1>3, <2>1 DEF Unit
  <2>3. NeedUpdate(x, f, old, since, wins) /\ Convert(x) # f
    BY <1>4 DEF need
  <2> QED BY <2>2, <2>3, Zenon DEF y
<1>5. CASE ~need
  <2>1. y = x
    BY <1>5, Zenon DEF UpdatedUnit
  <2>2. ~(NeedUpdate(x, f, old, since, wins) /\ Convert(x) # f)
    BY <1>5, Zenon
  <2> HIDE DEF y
  <2>3. Plain(y.state)
    BY <2>1
  <2> QED BY <2>1, <2>2, <2>3, Zenon DEF y
<1> QED BY <1>4, <1>5

\* The version of a unit is the unit as it was downloaded, but for the comment.
LEMMA VersionPlain ==
  ASSUME TypeInv, DownloadInv, PlainInv, NEW c \in Copies, copies[c] # NULL, NEW u \in Units,
         NEW v, v = AtRevision(unit, subs, copies[c].rev)[u]
  PROVE  IF copies[c].orig[u] = NULL THEN v = NULL
         ELSE /\ v \in FileUnit /\ Unmarked(v) /\ v.target = copies[c].orig[u].target
              /\ unit[u] # NULL /\ v.comment = unit[u].comment
              /\ copies[c].orig[u] \in FileUnit /\ Unmarked(copies[c].orig[u])
<1> DEFINE rev == copies[c].rev
           target == Value(unit, subs, u, "target", rev)
           state == Value(unit, subs, u, "state", rev)
<1>1. /\ unit \in StoreUnit /\ subs \in SUBSET Submission
      /\ revision \in Nat /\ NoneLater(subs, revision)
  BY DEF TypeInv, TypeOK, NoneLater
<1>2. copies[c] \in Copy
  BY DEF TypeInv, TypeOK
<1>3. Origin(unit, subs, u, rev, copies[c].orig[u])
  BY DEF DownloadInv
<1>4. PlainRows(unit) /\ PlainSubs(subs) /\ PlainFile(copies[c].orig)
  BY DEF PlainInv
<1>5. unit[u] # NULL => Plain(state)
  <2>1. CASE Later(subs, u, "state", rev) = {}
    BY <1>4, <2>1 DEF Value, PlainRows
  <2>2. CASE Later(subs, u, "state", rev) # {}
    <3>1. FirstChange(subs, u, "state", rev) \in subs
      BY <1>1, <2>2, ValueTyped DEF NoneLater
    <3> QED BY <1>4, <2>2, <3>1 DEF Value, PlainSubs
  <2> QED BY <2>1, <2>2
<1>6. CASE copies[c].orig[u] # NULL
  <2>1. /\ rev \in Nat /\ unit[u] # NULL /\ unit[u].creation_revision <= rev
        /\ copies[c].orig[u].target = target
    BY <1>2, <1>3, <1>6 DEF Origin, Copy
  <2>2. /\ v = AtRevision(unit, subs, rev)[u]
        /\ target = Value(unit, subs, u, "target", rev) /\ state = Value(unit, subs, u, "state", rev)
    OBVIOUS
  <2>3. copies[c].orig[u] \in FileUnit /\ Unmarked(copies[c].orig[u])
    BY <1>2, <1>4, <1>6 DEF Copy, File, PlainFile
  <2> HIDE DEF rev, target, state
  <2>4. /\ v \in FileUnit /\ v.target = target /\ v.comment = unit[u].comment
        /\ Plain(unit[u].state) /\ Plain(state) => Unmarked(v)
    BY <1>1, <2>1, <2>2, VersionParts
  <2>5. Plain(unit[u].state) /\ Plain(state)
    BY <1>4, <1>5, <2>1 DEF PlainRows
  <2> QED BY <1>6, <2>1, <2>3, <2>4, <2>5
<1>7. CASE copies[c].orig[u] = NULL
  <2>1. CASE unit[u] = NULL \/ unit[u].creation_revision > rev
    BY <2>1, <1>7, Zenon DEF AtRevision
  <2>2. CASE ~(unit[u] = NULL \/ unit[u].creation_revision > rev)
    <3>1. unit[u] # NULL /\ unit[u].creation_revision <= rev
      BY <1>1, <1>2, <2>2 DEF StoreUnit, Unit, Copy
    <3>2. Value(unit, subs, u, "state", rev) = OBSOLETE
      BY <1>3, <1>7, <3>1 DEF Origin
    <3> QED BY <1>5, <3>1, <3>2 DEF Plain, OBSOLETE, UNTRANSLATED, TRANSLATED
  <2> QED BY <2>1, <2>2
<1> QED BY <1>6, <1>7

\* With one worker, as long as no unit is marked as needing work and no upload
\* adds or removes units, the submissions take every unit back to what was
\* downloaded.
THEOREM VersionStaysRight ==
  ASSUME \A v, w \in Workers : v = w,
         Allow = FALSE, Fuzzy \subseteq {FALSE}
  PROVE  Spec => []VersionIsWhatWasDownloaded
<1>1. Alone /\ TargetsOnly
  BY DEF Alone, TargetsOnly, NoFuzzy
<1>2. TypeInv /\ DownloadInv /\ PlainInv => VersionIsWhatWasDownloaded
  <2> DEFINE empty == ""
  <2> HIDE DEF empty
  <2>1. SUFFICES ASSUME TypeInv, DownloadInv, PlainInv, NEW c \in Copies, copies[c] # NULL,
                        NEW u \in Units
                 PROVE  LET v == AtRevision(unit, subs, copies[c].rev)[u]
                        IN IF copies[c].orig[u] = NULL
                           THEN v = NULL \/ v.obsolete
                           ELSE /\ v # NULL
                                /\ [v EXCEPT !.comment = empty]
                                     = [copies[c].orig[u] EXCEPT !.comment = empty]
    BY Zenon DEF VersionIsWhatWasDownloaded, empty
  <2> DEFINE v == AtRevision(unit, subs, copies[c].rev)[u]
             f == copies[c].orig[u]
  <2>2. v = AtRevision(unit, subs, copies[c].rev)[u]
    OBVIOUS
  <2> HIDE DEF v
  <2>3. IF f = NULL THEN v = NULL
        ELSE /\ v \in FileUnit /\ Unmarked(v) /\ v.target = f.target
             /\ f \in FileUnit /\ Unmarked(f)
    BY <2>1, <2>2, VersionPlain
  <2> HIDE DEF f
  <2>4. CASE f = NULL
    BY <2>3, <2>4 DEF f, v
  <2>5. CASE f # NULL
    <3>1. v # NULL
      BY <2>3, <2>5, NullAssumption
    <3>2. v.fuzzy = f.fuzzy /\ v.obsolete = f.obsolete
      BY <2>3, <2>5, Zenon DEF Unmarked
    <3>3. [v EXCEPT !.comment = empty] = [f EXCEPT !.comment = empty]
      BY <2>3, <2>5, <3>2 DEF FileUnit
    <3> QED BY <2>5, <3>1, <3>3, Zenon DEF f, v
  <2> QED BY <2>4, <2>5
<1>3. Spec => []DownloadInv /\ []PlainInv
  BY <1>1, DownloadHolds, PlainHolds
<1> QED BY <1>2, <1>3, Typed, PTL

-----------------------------------------------------------------------------
(* What an upload makes of one unit: x becomes y, for a file that was orig  *)
(* when it was downloaded and is f now; v is the version, and since its     *)
(* revision.                                                                *)

\* Without marks, whether a unit is translated depends on its target.
LEMMA SameTranslated ==
  ASSUME NEW f, NEW v, f.target = v.target,
         f.fuzzy = FALSE, f.obsolete = FALSE, v.fuzzy = FALSE, v.obsolete = FALSE
  PROVE  IsTranslated(f) = IsTranslated(v)
<1>1. f.fuzzy = v.fuzzy /\ f.obsolete = v.obsolete
  OBVIOUS
<1> QED BY <1>1, Zenon DEF IsTranslated

\* Flags and comments being the same, a unit is updated for its target only.
LEMMA NeedIsTarget ==
  ASSUME NEW x \in Unit, Plain(x.state), NEW f \in FileUnit, Unmarked(f),
         NEW v \in FileUnit, Unmarked(v), f.comment = v.comment,
         NEW since, NEW wins
  PROVE  NeedUpdate(x, f, v, since, wins)
           <=> /\ f.target # v.target /\ f.target # x.target
               /\ ~(x.target # v.target /\ wins = "pootle")
<1> DEFINE T == f.target # v.target
           D == x.target # v.target
           N == f.target # x.target
           P == wins = "pootle"
<1>1. v # NULL
  BY NullAssumption
<1>2. (FsTargetUpdated(f, v) <=> T) /\ (DbTargetUpdated(x, v) <=> D)
  BY <1>1, Zenon DEF FsTargetUpdated, DbTargetUpdated
<1>3. FsStateUpdated(f, v) => T
  <2>1. f.fuzzy = FALSE /\ f.obsolete = FALSE /\ v.fuzzy = FALSE /\ v.obsolete = FALSE
    BY Zenon DEF Unmarked
  <2>2. ASSUME f.target = v.target PROVE ~FsStateUpdated(f, v)
    <3>3. IsTranslated(f) = IsTranslated(v)
      BY <2>1, <2>2, SameTranslated
    <3>4. f.fuzzy = v.fuzzy /\ f.obsolete = v.obsolete
      BY <2>1, Zenon
    <3> QED BY <1>1, <3>3, <3>4, Zenon DEF FsStateUpdated
  <2> QED BY <2>2, Zenon
<1>4. ~ShouldUpdateComment(x, f, v, wins)
  BY <1>1, Zenon DEF ShouldUpdateComment, FsCommentUpdated
<1>5. ~ShouldUnobsolete(x, f, since, wins)
  BY DEF ShouldUnobsolete, Obsolete, Plain, UNTRANSLATED, TRANSLATED, OBSOLETE
<1>6. ShouldUpdateTarget(x, f, v, wins) <=> T /\ N /\ ~(D /\ P)
  BY <1>2, Zenon DEF ShouldUpdateTarget, TargetConflictFound
<1>7. ShouldUpdateState(x, f, v, wins) => T /\ ~(D /\ ~ShouldUpdateTarget(x, f, v, wins))
  BY <1>2, <1>3, Zenon DEF ShouldUpdateState
<1>8. T /\ ~D => N
  BY Zenon
<1> QED BY <1>4, <1>5, <1>6, <1>7, <1>8, Zenon DEF NeedUpdate

\* The unit as it is exported
ExportOne(x) == IF Live(x) THEN Convert(x) ELSE NULL

Kept(x, y, f, orig) ==
  f = orig /\ (f # NULL /\ x # NULL => f.comment = x.comment) => ExportOne(y) = ExportOne(x)
HaveAll(x, f, orig) == f # NULL /\ orig # NULL /\ Live(x) /\ f.comment = x.comment
Arrived(x, y, f, orig) ==
  HaveAll(x, f, orig) /\ f # orig /\ Convert(x) = orig => Convert(y) = f
Decided(u, x, y, f, orig, wins, sugg) ==
  HaveAll(x, f, orig) /\ orig.target # f.target /\ orig.target # x.target /\ f.target # x.target
    => LET lost == IF wins = "pootle" THEN f.target ELSE x.target
       IN /\ y.target = IF wins = "pootle" THEN x.target ELSE f.target
          /\ lost # "" => <<u, lost>> \in sugg
Arrives(u, x, y, f, orig, wins, sugg) ==
  Kept(x, y, f, orig) /\ Arrived(x, y, f, orig) /\ Decided(u, x, y, f, orig, wins, sugg)

\* The version, where the file has the unit, is what was downloaded but for
\* the comment.
VersionFor(x, v, orig) ==
  IF orig = NULL THEN v = NULL
  ELSE /\ v \in FileUnit /\ Unmarked(v) /\ v.target = orig.target
       /\ x # NULL /\ v.comment = x.comment
       /\ orig \in FileUnit /\ Unmarked(orig)

PlainUnit(x) == x # NULL => x \in Unit /\ Plain(x.state)
PlainFileUnit(f) == f # NULL => f \in FileUnit /\ Unmarked(f)

\* Only the revision differs: it is exported the same.
LEMMA SameExported ==
  ASSUME NEW x, NEW y, SameButRevision(x, y)
  PROVE  ExportOne(y) = ExportOne(x) /\ (x # NULL => y.target = x.target /\ Convert(y) = Convert(x))
<1>1. CASE y = x
  BY <1>1
<1>2. CASE y # x
  <2>1. /\ x # NULL /\ x \in Unit /\ y \in Unit
        /\ y.target = x.target /\ y.comment = x.comment /\ y.state = x.state
    BY <1>2 DEF SameButRevision
  <2>2. Convert(y) = Convert(x)
    BY <2>1, Zenon DEF Convert
  <2>3. Live(y) <=> Live(x)
    BY <2>1, NullAssumption DEF Live
  <2> QED BY <2>1, <2>2, <2>3, Zenon DEF ExportOne
<1> QED BY <1>1, <1>2

\* The merge of one unit, case by case: what neither side or one side has changed,
\* and the winner and the loser of what both have.
LEMMA OneArrives ==
  ASSUME NEW u, NEW x, PlainUnit(x), NEW f, PlainFileUnit(f), NEW orig, NEW v,
         VersionFor(x, v, orig), NEW wins, NEW since, NEW rev \in Nat, NEW one, NEW y, NEW sugg,
         \/ one = x
         \/ x # NULL /\ f # NULL /\ one = UpdatedUnit(x, f, v, since, wins, rev),
         HaveAll(x, f, orig) /\ Convert(x) # f
           => /\ one = UpdatedUnit(x, f, v, since, wins, rev)
              /\ Suggested(u, x, f, v, since, wins) \subseteq sugg,
         SameButRevision(one, y)
  PROVE  Arrives(u, x, y, f, orig, wins, sugg)
<1>1. ASSUME x # NULL, f # NULL, orig # NULL, f.comment = x.comment
      PROVE  /\ x \in Unit /\ Plain(x.state) /\ f \in FileUnit /\ Unmarked(f)
             /\ v \in FileUnit /\ Unmarked(v) /\ v.target = orig.target
             /\ f.comment = v.comment
             /\ orig \in FileUnit /\ Unmarked(orig)
             /\ NeedUpdate(x, f, v, since, wins)
                  <=> /\ f.target # orig.target /\ f.target # x.target
                      /\ ~(x.target # orig.target /\ wins = "pootle")
  <2>1. /\ x \in Unit /\ Plain(x.state) /\ f \in FileUnit /\ Unmarked(f)
        /\ v \in FileUnit /\ Unmarked(v) /\ v.target = orig.target
        /\ f.comment = v.comment
        /\ orig \in FileUnit /\ Unmarked(orig)
    BY <1>1 DEF PlainUnit, PlainFileUnit, VersionFor
  <2>2. NeedUpdate(x, f, v, since, wins)
          <=> /\ f.target # v.target /\ f.target # x.target
              /\ ~(x.target # v.target /\ wins = "pootle")
    BY <2>1, NeedIsTarget
  <2> QED BY <2>1, <2>2
<1>2. Kept(x, y, f, orig)
  <2> SUFFICES ASSUME f = orig, f # NULL /\ x # NULL => f.comment = x.comment
               PROVE  ExportOne(y) = ExportOne(x)
    BY DEF Kept
  <2>1. one = x
    <3> SUFFICES ASSUME x # NULL, f # NULL, one = UpdatedUnit(x, f, v, since, wins, rev)
                 PROVE  one = x
      OBVIOUS
    <3>1. ~NeedUpdate(x, f, v, since, wins)
      BY <1>1
    <3>2. x \in Unit /\ Plain(x.state) /\ f \in FileUnit /\ Unmarked(f)
      BY <1>1
    <3>3. UpdatedUnit(x, f, v, since, wins, rev) = x
      BY <3>1, Zenon DEF UpdatedUnit
    <3> QED BY <3>3
  <2> QED BY <2>1, SameExported
<1>3. Arrived(x, y, f, orig)
  <2> SUFFICES ASSUME HaveAll(x, f, orig), f # orig, Convert(x) = orig
               PROVE  Convert(y) = f
    BY DEF Arrived
  <2>1. x # NULL /\ f # NULL /\ orig # NULL /\ f.comment = x.comment
    BY DEF HaveAll, Live
  <2>2. orig.target = x.target /\ orig.comment = x.comment
    BY <1>1, <2>1, ConvertTyped
  <2>3. f.target # orig.target
    BY <1>1, <2>1, <2>2, UnmarkedEqual
  <2>4. NeedUpdate(x, f, v, since, wins) /\ Convert(x) # f
    BY <1>1, <2>1, <2>2, <2>3
  <2>5. one = UpdatedUnit(x, f, v, since, wins, rev)
    BY <2>4
  <2>6. one.target = f.target /\ one.comment = f.comment /\ Plain(one.state) /\ one \in Unit
    BY <1>1, <2>1, <2>4, <2>5, UpdatedUnitPlain, UpdatedUnitTyped
  <2>7. Convert(one) = f
    <3>1. Convert(one) \in FileUnit /\ Unmarked(Convert(one))
          /\ Convert(one).target = f.target /\ Convert(one).comment = f.comment
      BY <2>6, ConvertTyped, ConvertPlain
    <3> QED BY <1>1, <2>1, <3>1, UnmarkedEqual
  <2>8. one # NULL
    BY <2>6, NullAssumption
  <2> QED BY <2>7, <2>8, SameExported
<1>4. Decided(u, x, y, f, orig, wins, sugg)
  <2> DEFINE lost == IF wins = "pootle" THEN f.target ELSE x.target
             won == IF wins = "pootle" THEN x.target ELSE f.target
             empty == ""
  <2> HIDE DEF empty
  <2> SUFFICES ASSUME HaveAll(x, f, orig),
                      orig.target # f.target, orig.target # x.target, f.target # x.target
               PROVE  y.target = won /\ (lost # empty => <<u, lost>> \in sugg)
    BY Zenon DEF Decided, empty
  <2>1. x # NULL /\ f # NULL /\ orig # NULL /\ f.comment = x.comment
    BY DEF HaveAll, Live
  <2>2. NeedUpdate(x, f, v, since, wins) <=> wins # "pootle"
    BY <1>1, <2>1
  <2>3. x \in Unit /\ Convert(x) # f
    BY <1>1, <2>1, ConvertTyped
  <2>4. /\ one = UpdatedUnit(x, f, v, since, wins, rev)
        /\ Suggested(u, x, f, v, since, wins) \subseteq sugg
    BY <2>3
  <2>5. ASSUME NEW n \in Nat
        PROVE  UpdatedUnit(x, f, v, since, wins, n).target = won
    <3>1. wins = "pootle" => UpdatedUnit(x, f, v, since, wins, n) = x
      BY <1>1, <2>1, <2>2, <2>5, UpdatedUnitPlain
    <3>2. wins # "pootle" => UpdatedUnit(x, f, v, since, wins, n).target = f.target
      BY <1>1, <2>1, <2>2, <2>3, <2>5, UpdatedUnitPlain
    <3> QED BY <3>1, <3>2
  <2>6. one.target = won /\ one \in Unit
    BY <1>1, <2>1, <2>4, <2>5, UpdatedUnitTyped
  <2>7. y.target = won
    BY <2>6, NullAssumption, SameExported
  <2>8. TargetConflictFound(x, f, v)
    BY <1>1, <2>1, NullAssumption
       DEF TargetConflictFound, FsTargetUpdated, DbTargetUpdated
  <2>9. ~ShouldUnobsolete(x, f, since, wins)
    BY <1>1, <2>1 DEF ShouldUnobsolete, Obsolete, Plain, UNTRANSLATED, TRANSLATED, OBSOLETE
  <2>10. Suggested(u, x, f, v, since, wins)
           = Suggestible(u, UpdatedUnit(x, f, v, since, wins, 0), lost)
    BY <2>8, <2>9, Zenon DEF Suggested
  <2>11. UpdatedUnit(x, f, v, since, wins, 0).target = won
    BY <2>5
  <2>12. lost # won
    OBVIOUS
  <2> HIDE DEF lost, won
  <2>13. lost # empty => Suggestible(u, UpdatedUnit(x, f, v, since, wins, 0), lost) = {<<u, lost>>}
    BY <2>11, <2>12, Zenon DEF Suggestible, empty
  <2> QED BY <2>4, <2>7, <2>10, <2>13
<1> QED BY <1>2, <1>3, <1>4 DEF Arrives

-----------------------------------------------------------------------------
(* From the upload until it commits, the request holds what the update of   *)
(* the Store from the file returned: nothing else has changed.              *)

\* A file that may not bring or take units has those it had.
Within(file, orig) == Allow \/ \A u \in Units : file[u] = NULL <=> orig[u] = NULL

\* A unit as the request t leaves it
Seen(rows, t, u) == IF t.wrote[u] # NULL THEN t.wrote[u] ELSE rows[u]
Holds(rows, ss, sugg, d, files, t) ==
  /\ t.drop = {} /\ t.req.copy \in Copies /\ files[t.req.copy] # NULL
  /\ Within(t.req.file, files[t.req.copy].orig)
  /\ \E n \in Nat :
       LET o == Update(rows, ss, sugg, d, t.req.file, files[t.req.copy].rev, t.req.wins, Allow, n)
       IN t.add = o.suggested /\ \A u \in Units : Seen(rows, t, u) = o.rows[u]
Uploads(t) == t # NULL /\ t.req.op = "upload"

WithinInv ==
  \A c \in Copies : copies[c] # NULL => Within(copies[c].file, copies[c].orig)
HeldInv ==
  \A w \in Workers : Uploads(tx[w]) => Holds(unit, subs, suggested, data, copies, tx[w])

\* Every step keeps WithinInv.
LEMMA WithinStep == TypeInv /\ WithinInv /\ [Next]_vars => WithinInv'
<1> SUFFICES ASSUME TypeInv, WithinInv, [Next]_vars PROVE WithinInv'
  OBVIOUS
<1>1. ASSUME NEW w \in Workers, Export(w) PROVE WithinInv'
  <2> DEFINE t == tx[w]
             copy == [rev |-> t.req.rev, orig |-> Exported(unit), file |-> Exported(unit)]
  <2>1. copies' = [copies EXCEPT ![t.req.copy] = copy]
    BY <1>1, Zenon DEF Export
  <2>2. Within(copy.file, copy.orig)
    BY DEF Within
  <2> HIDE DEF copy, t
  <2> QED BY <2>1, <2>2 DEF TypeInv, TypeOK, WithinInv
<1>2. ASSUME NEW c \in Copies, NEW u \in Units, NEW f \in OfflineUnit \cup {NULL},
             TranslateOffline(c, u, f)
      PROVE  WithinInv'
  <2> DEFINE copy == [copies[c] EXCEPT !.file[u] = f]
  <2>1. /\ copies[c] # NULL /\ copies' = [copies EXCEPT ![c] = copy]
        /\ copies[c].file[u] = copies[c].orig[u]
        /\ NULL \in {f, copies[c].file[u]} => Allow
    BY <1>2, Zenon DEF TranslateOffline
  <2>2. copies \in [Copies -> Copy \cup {NULL}] /\ copies[c] \in Copy
    BY <2>1 DEF TypeInv, TypeOK
  <2>3. /\ copy.orig = copies[c].orig
        /\ \A v \in Units : copy.file[v] = IF v = u THEN f ELSE copies[c].file[v]
    BY <2>2 DEF Copy, File
  <2> HIDE DEF copy
  <2>4. Within(copies[c].file, copies[c].orig)
    BY <2>1 DEF WithinInv
  <2>5. Within(copy.file, copy.orig)
    BY <2>1, <2>3, <2>4 DEF Within
  <2> QED BY <2>1, <2>2, <2>5 DEF WithinInv
<1>3. CASE UNCHANGED copies
  BY <1>3 DEF WithinInv
<1>4. ASSUME NEW w \in Workers, Commit(w) PROVE WithinInv'
  BY <1>3, <1>4, Zenon DEF Commit
<1>5. CASE UNCHANGED vars
  BY <1>3, <1>5 DEF vars
<1> QED BY <1>1, <1>2, <1>3, <1>4, <1>5, OthersLeaveStore

\* An upload holds what the update returned.
LEMMA UploadHolds ==
  ASSUME TypeInv, WithinInv, NEW w \in Workers, NEW c \in Copies,
         NEW wins \in Sides, NEW o, NEW req, NEW save, UploadBy(w, c, wins, o, req, save)
  PROVE  Holds(unit, subs, suggested, data, copies, Uploading(req, o, save))
<1> DEFINE t == Uploading(req, o, save)
           wrote == [u \in Units |-> IF u \in {v \in Units : o.rows[v] # unit[v]}
                                     THEN o.rows[u] ELSE NULL]
           step == IF save THEN "saved" ELSE "aggregated"
<1>1. /\ req.copy = c /\ req.wins = wins /\ req.file = copies[c].file
      /\ copies[c] \in Copy
      /\ o = Update(unit, subs, suggested, data, copies[c].file, copies[c].rev, wins, Allow, revision)
      /\ Outcome(unit, o, revision, revision)
  BY Zenon DEF UploadBy
<1>2. t = [Loaded(req, NULL) EXCEPT !.step = step, !.wrote = wrote,
                                    !.sub = o.subs, !.add = o.suggested]
  BY Zenon DEF Uploading
<1>3. \A u \in Units : wrote[u] = IF o.rows[u] # unit[u] THEN o.rows[u] ELSE NULL
  OBVIOUS
<1> HIDE DEF step, wrote, t
<1>4. t.wrote = wrote /\ t.add = o.suggested /\ t.drop = {} /\ t.req = req
  BY <1>2 DEF Loaded
<1>5. Recorded(unit, o.rows, o.subs, revision)
  BY <1>1 DEF Outcome
<1>6. \A u \in Units : unit[u] # NULL => o.rows[u] # NULL
  BY <1>5, Zenon DEF Recorded
<1>7. \A u \in Units : Seen(unit, t, u) = o.rows[u]
  BY <1>3, <1>4, <1>6 DEF Seen
<1>8. copies[c] # NULL
  BY <1>1, NullAssumption
<1>9. Within(copies[c].file, copies[c].orig)
  BY <1>8 DEF WithinInv
<1>10. t.req.copy = c /\ t.req.wins = wins /\ t.req.file = copies[c].file
  BY <1>1, <1>4
<1>11. \E n \in Nat :
         LET p == Update(unit, subs, suggested, data, copies[c].file, copies[c].rev, wins, Allow, n)
         IN t.add = p.suggested /\ \A u \in Units : Seen(unit, t, u) = p.rows[u]
  <2>1. revision \in Nat
    BY DEF TypeInv, TypeOK
  <2> QED BY <1>1, <1>4, <1>7, <2>1
<1> QED BY <1>4, <1>8, <1>9, <1>10, <1>11 DEF Holds, t

\* One request, and what holds of it, is all there is with one worker.
LEMMA HeldOne ==
  ASSUME Alone, TypeInv, NEW w \in Workers, NEW t, tx' = [tx EXCEPT ![w] = t],
         Uploads(t) => Holds(unit', subs', suggested', data', copies', t)
  PROVE  HeldInv'
<1>1. tx'[w] = t
  BY DEF TypeInv, TypeOK
<1>2. \A v \in Workers : v = w
  BY DEF Alone
<1> QED BY <1>1, <1>2 DEF HeldInv

\* Every step keeps HeldInv.
LEMMA HeldStep ==
  ASSUME Alone, TypeInv, WithinInv, HeldInv, [Next]_vars
  PROVE  HeldInv'
<1>1. ASSUME NEW w \in Workers, NEW req, NEW row, req.op # "upload",
             tx' = [tx EXCEPT ![w] = Loaded(req, row)]
      PROVE  HeldInv'
  <2> DEFINE t == Loaded(req, row)
  <2>1. t.req = req
    BY DEF Loaded
  <2> HIDE DEF t
  <2>2. ~Uploads(t)
    BY <1>1, <2>1 DEF Uploads
  <2>3. tx' = [tx EXCEPT ![w] = t]
    BY <1>1 DEF t
  <2> QED BY <2>2, <2>3, HeldOne
<1>2. ASSUME NEW w \in Workers, tx' = [tx EXCEPT ![w] = NULL] PROVE HeldInv'
  BY <1>2, HeldOne DEF Uploads
<1>3. ASSUME NEW w \in Workers, NEW t, tx' = [tx EXCEPT ![w] = t], tx[w] # NULL,
             t.req = tx[w].req, t.wrote = tx[w].wrote, t.add = tx[w].add, t.drop = tx[w].drop,
             UNCHANGED <<unit, subs, suggested, data, copies>>
      PROVE  HeldInv'
  <2>1. Uploads(t) => Uploads(tx[w])
    BY <1>3 DEF Uploads
  <2>2. Uploads(t) => Holds(unit, subs, suggested, data, copies, tx[w])
    BY <2>1 DEF HeldInv
  <2>3. \A u \in Units : Seen(unit, t, u) = Seen(unit, tx[w], u)
    BY <1>3 DEF Seen
  <2>4. Uploads(t) => Holds(unit, subs, suggested, data, copies, t)
    BY <1>3, <2>2, <2>3 DEF Holds
  <2>5. Uploads(t) => Holds(unit', subs', suggested', data', copies', t)
    BY <1>3, <2>4
  <2> QED BY <1>3, <2>5, HeldOne
<1>4. ASSUME NEW w \in Workers, Edit(w) PROVE HeldInv'
  <2>1. PICK u \in Units :
          \/ \E target \in Target, fuzzy \in Fuzzy : Submit(w, u, target, fuzzy)
          \/ \E comment \in Comments : Comment(w, u, comment)
          \/ \E suggestion, target \in Texts : Accept(w, u, suggestion, target)
    BY <1>4, Zenon DEF Edit
  <2>2. ASSUME NEW req, req.op # "upload", LoadUnit(w, u, req) PROVE HeldInv'
    BY <1>1, <2>2 DEF LoadUnit
  <2>3. ASSUME NEW target \in Target, NEW fuzzy \in Fuzzy, Submit(w, u, target, fuzzy)
        PROVE  HeldInv'
    <3> DEFINE req == [op |-> "submit", unit |-> u, target |-> target, fuzzy |-> fuzzy]
    <3>1. req.op # "upload"
      OBVIOUS
    <3>2. LoadUnit(w, u, req)
      BY <2>3, Zenon DEF Submit
    <3> HIDE DEF req
    <3> QED BY <2>2, <3>1, <3>2
  <2>4. ASSUME NEW comment \in Comments, Comment(w, u, comment)
        PROVE  HeldInv'
    <3> DEFINE req == [op |-> "comment", unit |-> u, comment |-> comment]
    <3>1. req.op # "upload"
      OBVIOUS
    <3>2. LoadUnit(w, u, req)
      BY <2>4, Zenon DEF Comment
    <3> HIDE DEF req
    <3> QED BY <2>2, <3>1, <3>2
  <2>5. ASSUME NEW suggestion \in Texts, NEW target \in Texts, Accept(w, u, suggestion, target)
        PROVE  HeldInv'
    <3> DEFINE req == [op |-> "accept", unit |-> u, suggestion |-> suggestion, target |-> target]
    <3>1. req.op # "upload"
      OBVIOUS
    <3>2. LoadUnit(w, u, req)
      BY <2>5, Zenon DEF Accept
    <3> HIDE DEF req
    <3> QED BY <2>2, <3>1, <3>2
  <2> QED BY <2>1, <2>3, <2>4, <2>5
<1>5. ASSUME NEW w \in Workers, SaveUnit(w) PROVE HeldInv'
  <2> DEFINE t == tx[w]
             r == Saved(t, t.row, SavedUnit(t))
  <2>1. t \in Tx /\ t.req.op \in {"submit", "comment", "accept"} /\ Becomes(w, r)
    BY <1>5, SaveUnitParts
  <2>2. r.req = t.req
    <3> HIDE DEF t
    <3> QED BY <2>1 DEF Saved, Tx
  <2> HIDE DEF r, t
  <2>3. ~Uploads(r)
    BY <2>1, <2>2 DEF Uploads
  <2> QED BY <2>1, <2>3, HeldOne DEF Becomes
<1>6. ASSUME NEW w \in Workers, NEW c \in Copies, Download(w, c) PROVE HeldInv'
  <2> DEFINE req == [op |-> "download", copy |-> c, rev |-> data]
  <2>1. req.op # "upload"
    OBVIOUS
  <2>2. tx' = [tx EXCEPT ![w] = Loaded(req, NULL)]
    BY <1>6, Zenon DEF Download
  <2> HIDE DEF req
  <2> QED BY <1>1, <2>1, <2>2
<1>7. ASSUME NEW w \in Workers, Export(w) PROVE HeldInv'
  BY <1>2, <1>7 DEF Export
<1>8. ASSUME NEW w \in Workers, NEW c \in Copies, NEW wins \in Wins, Upload(w, c, wins)
      PROVE  HeldInv'
  <2>1. wins \in Sides
    BY OptionsAssumption
  <2>2. PICK o, req, save : UploadBy(w, c, wins, o, req, save)
    BY <1>8, <2>1, UploadParts, Zenon
  <2> DEFINE t == Uploading(req, o, save)
  <2>3. Holds(unit, subs, suggested, data, copies, t)
    BY <2>1, <2>2, UploadHolds
  <2>4. Becomes(w, t)
    BY <2>2, Zenon DEF UploadBy
  <2> HIDE DEF t
  <2>5. tx' = [tx EXCEPT ![w] = t] /\ Holds(unit', subs', suggested', data', copies', t)
    BY <2>3, <2>4 DEF Becomes
  <2> QED BY <2>5, HeldOne
<1>9. ASSUME NEW w \in Workers, Aggregate(w) PROVE HeldInv'
  <2> DEFINE t == tx[w]
             max == MaxUnitRevision(View(w))
             r == [t EXCEPT !.step = "aggregated", !.max = max]
  <2>1. t # NULL /\ tx' = [tx EXCEPT ![w] = r] /\ UNCHANGED <<unit, subs, suggested, data, copies>>
    BY <1>9, Zenon DEF Aggregate, Idle
  <2>2. t \in Tx
    BY <2>1 DEF TypeInv, TypeOK
  <2> HIDE DEF max
  <2>3. r.req = t.req /\ r.wrote = t.wrote /\ r.add = t.add /\ r.drop = t.drop
    <3> HIDE DEF t
    <3> QED BY <2>2 DEF Tx
  <2> HIDE DEF r
  <2> QED BY <1>3, <2>1, <2>3
<1>10. ASSUME NEW w \in Workers, Commit(w) PROVE HeldInv'
  BY <1>2, <1>10, Zenon DEF Commit
<1>11. ASSUME NEW c \in Copies, NEW u \in Units, NEW f \in OfflineUnit \cup {NULL},
              TranslateOffline(c, u, f)
       PROVE  HeldInv'
  <2>1. \A d \in Copies : copies'[d] # NULL =>
          /\ copies[d] # NULL
          /\ copies'[d].rev = copies[d].rev /\ copies'[d].orig = copies[d].orig
    BY <1>11, TranslateKeepsOrigin
  <2>2. \A d \in Copies : copies[d] # NULL => copies'[d] # NULL
    <3> DEFINE copy == [copies[c] EXCEPT !.file[u] = f]
    <3>1. /\ copies[c] # NULL /\ copies' = [copies EXCEPT ![c] = copy]
      BY <1>11, Zenon DEF TranslateOffline
    <3>2. copy \in Copy
      <4>1. copies[c] \in Copy /\ f \in FileUnit \cup {NULL}
        BY <3>1 DEF TypeInv, TypeOK, OfflineUnit
      <4> QED BY <4>1 DEF Copy, File
    <3> HIDE DEF copy
    <3> QED BY <3>1, <3>2, NullAssumption DEF TypeInv, TypeOK
  <2>3. UNCHANGED <<unit, subs, suggested, data, tx>>
    BY <1>11 DEF TranslateOffline
  <2>4. ASSUME NEW w \in Workers, Uploads(tx[w])
        PROVE  Holds(unit, subs, suggested, data, copies', tx[w])
    BY <2>1, <2>2, <2>4 DEF HeldInv, Holds
  <2> QED BY <2>3, <2>4 DEF HeldInv
<1>12. CASE UNCHANGED vars
  BY <1>12 DEF vars, HeldInv
<1> QED BY <1>4, <1>5, <1>6, <1>7, <1>8, <1>9, <1>10, <1>11, <1>12 DEF Next

\* HeldInv is an invariant for one worker.
LEMMA HeldHolds ==
  ASSUME Alone
  PROVE  Spec => []HeldInv
<1>1. Init => WithinInv
  BY DEF Init, WithinInv
<1>2. Init => HeldInv
  BY DEF Init, HeldInv, Uploads
<1>3. TypeInv /\ WithinInv /\ HeldInv /\ [Next]_vars => HeldInv'
  BY HeldStep
<1> QED BY <1>1, <1>2, <1>3, WithinStep, Typed, PTL DEF Spec

\* What arrives of a unit is what the merge promises.
LEMMA HeldArrives ==
  ASSUME TargetsOnly, TypeInv, DownloadInv, PlainInv,
         NEW w \in Workers, Uploads(tx[w]), Holds(unit, subs, suggested, data, copies, tx[w]),
         NEW u \in Units
  PROVE  LET t == tx[w]
         IN Arrives(u, unit[u], Seen(unit, t, u), t.req.file[u], Original(w)[u], t.req.wins,
                    suggested \cup t.add)
<1> DEFINE t == tx[w]
           c == t.req.copy
           file == t.req.file
           wins == t.req.wins
           since == copies[c].rev
           x == unit[u]
           f == file[u]
           orig == copies[c].orig[u]
           v == AtRevision(unit, subs, since)[u]
           toUpdate == UnitsToUpdate(unit, data, file, since)
           sugg == suggested \cup t.add
<1>1. /\ c \in Copies /\ copies[c] # NULL
      /\ Within(t.req.file, copies[c].orig)
      /\ \E n \in Nat :
           LET o == Update(unit, subs, suggested, data, file, since, wins, Allow, n)
           IN t.add = o.suggested /\ \A z \in Units : Seen(unit, t, z) = o.rows[z]
  BY DEF Holds
<1>2. PICK n \in Nat :
        LET o == Update(unit, subs, suggested, data, file, since, wins, Allow, n)
        IN t.add = o.suggested /\ \A z \in Units : Seen(unit, t, z) = o.rows[z]
  BY <1>1
<1> DEFINE next == n + 1
           o == Update(unit, subs, suggested, data, file, since, wins, Allow, n)
           one == MergedOne(unit, subs, data, file, since, wins, Allow, next, u)
           updated == UpdatedUnit(x, f, v, since, wins, next)
<1>3. t.add = o.suggested /\ Seen(unit, t, u) = o.rows[u] /\ next \in Nat
  BY <1>2
<1>4. /\ file \in File /\ PlainFile(file)
      /\ unit \in StoreUnit /\ PlainRows(unit)
  <2>1. tx[w] \in Tx /\ unit \in StoreUnit
    BY DEF Uploads, TypeInv, TypeOK
  <2>2. tx[w].req \in Request /\ tx[w].req.op = "upload"
    BY <2>1 DEF Tx, Uploads
  <2> QED BY <2>1, <2>2, RequestParts DEF PlainInv, Uploads
<1>5. VersionFor(x, v, orig)
  <2>1. v = AtRevision(unit, subs, copies[c].rev)[u]
    OBVIOUS
  <2> HIDE DEF v, c
  <2>2. IF copies[c].orig[u] = NULL THEN v = NULL
        ELSE /\ v \in FileUnit /\ Unmarked(v) /\ v.target = copies[c].orig[u].target
             /\ unit[u] # NULL /\ v.comment = unit[u].comment
             /\ copies[c].orig[u] \in FileUnit /\ Unmarked(copies[c].orig[u])
    BY <1>1, <2>1, VersionPlain
  <2> QED BY <2>2 DEF VersionFor
<1>6. PlainUnit(x) /\ PlainFileUnit(f)
  BY <1>4 DEF PlainUnit, PlainFileUnit, PlainRows, PlainFile, StoreUnit, File
<1>7. OneUpdated(unit, subs, suggested, data, file, since, wins, Allow, next, o)
  <2>1. o = Update(unit, subs, suggested, data, file, since, wins, Allow, n)
    OBVIOUS
  <2> HIDE DEF file, since, wins, o
  <2> QED BY <1>4, <2>1, UpdateOfOne
<1>8. StructuredOne(unit, subs, data, file, since, wins, Allow, next, u) = x
  BY Zenon DEF TargetsOnly, StructuredOne
<1>9. /\ SameButRevision(one, o.rows[u])
      /\ u \in toUpdate => Suggested(u, x, f, v, since, wins) \subseteq sugg
  <2>1. /\ SameButRevision(one, o.rows[u])
        /\ u \in toUpdate =>
             Suggested(u, StructuredOne(unit, subs, data, file, since, wins, Allow, next, u), f, v,
                       since, wins) \subseteq suggested \cup o.suggested
    BY <1>7, Zenon DEF OneUpdated
  <2> HIDE DEF o, one, x, f, v, since, wins, file, toUpdate, t
  <2> QED BY <1>3, <1>8, <2>1 DEF sugg
<1>10. /\ u \in toUpdate => one = updated /\ x # NULL /\ f # NULL
       /\ u \notin toUpdate => one = x
  <2>1. one = IF u \in toUpdate
              THEN UpdatedUnit(StructuredOne(unit, subs, data, file, since, wins, Allow, next, u),
                               f, v, since, wins, next)
              ELSE StructuredOne(unit, subs, data, file, since, wins, Allow, next, u)
    BY Zenon DEF MergedOne
  <2>2. u \in toUpdate => x # NULL /\ f # NULL
    BY DEF UnitsToUpdate, In
  <2> HIDE DEF one, x, f, v, since, wins, file, toUpdate
  <2> QED BY <1>8, <2>1, <2>2
<1>11. HaveAll(x, f, orig) /\ Convert(x) # f => u \in toUpdate
  BY DEF HaveAll, Live, UnitsToUpdate, In
<1> HIDE DEF one, toUpdate, v, file, since, sugg, next, x, f, orig, wins, o
<1>12. Arrives(u, x, o.rows[u], f, orig, wins, sugg)
  BY <1>3, <1>5, <1>6, <1>9, <1>10, <1>11, OneArrives
<1> QED BY <1>3, <1>12 DEF x, f, file, orig, wins, sugg, Original

\* Only its commit ends an upload.
LEMMA UploadedCommits ==
  ASSUME Alone, TypeInv, [Next]_vars, NEW w \in Workers, Uploaded(w)
  PROVE  Commit(w)
<1>1. /\ tx[w] # NULL /\ tx[w] \in Tx
      /\ tx[w].req.op = "upload" /\ tx[w].step = "aggregated" /\ tx'[w] = NULL
  BY DEF Uploaded, Doing, Idle, TypeInv, TypeOK
<1>2. \A v \in Workers : v = w
  BY DEF Alone
<1>3. ~UNCHANGED tx
  BY <1>1
<1>4. ASSUME NEW v \in Workers, Idle(v) PROVE FALSE
  BY <1>1, <1>2, <1>4 DEF Idle
<1>5. ASSUME NEW v \in Workers, NEW op, op # "upload", Doing(v, op, "loaded") PROVE FALSE
  BY <1>1, <1>2, <1>5 DEF Doing
<1>6. ASSUME NEW v \in Workers, Edit(v) PROVE FALSE
  BY <1>4, <1>6 DEF Edit, Submit, Comment, Accept, LoadUnit
<1>7. ASSUME NEW v \in Workers, SaveUnit(v) PROVE FALSE
  BY <1>5, <1>7 DEF SaveUnit
<1>8. ASSUME NEW v \in Workers, NEW c \in Copies, Download(v, c) PROVE FALSE
  BY <1>4, <1>8 DEF Download
<1>9. ASSUME NEW v \in Workers, Export(v) PROVE FALSE
  BY <1>5, <1>9 DEF Export
<1>10. ASSUME NEW v \in Workers, NEW c \in Copies, NEW wins \in Wins, Upload(v, c, wins)
       PROVE  FALSE
  <2>1. Idle(v)
    BY <1>10, Zenon DEF Upload
  <2> QED BY <1>4, <2>1
<1>11. ASSUME NEW v \in Workers, Aggregate(v) PROVE FALSE
  <2>1. tx[v].step = "saved"
    BY <1>11, Zenon DEF Aggregate
  <2> QED BY <1>1, <1>2, <2>1
<1>12. ASSUME NEW c \in Copies, NEW u \in Units, NEW f \in OfflineUnit \cup {NULL},
              TranslateOffline(c, u, f)
       PROVE  FALSE
  BY <1>3, <1>12 DEF TranslateOffline
<1>13. ~UNCHANGED vars
  BY <1>3 DEF vars
<1>14. PICK v \in Workers : Commit(v)
  BY <1>6, <1>7, <1>8, <1>9, <1>10, <1>11, <1>12, <1>13 DEF Next
<1> QED BY <1>2, <1>14

\* What an upload commits is what the update returned.
LEMMA CommitHeld ==
  ASSUME Alone, TypeInv, HeldInv, [Next]_vars, NEW w \in Workers, Uploaded(w)
  PROVE  LET t == tx[w]
         IN /\ Uploads(t) /\ Holds(unit, subs, suggested, data, copies, t)
            /\ suggested' = suggested \cup t.add
            /\ \A u \in Units : unit'[u] = Seen(unit, t, u)
<1> DEFINE t == tx[w]
<1>1. Commit(w)
  BY UploadedCommits
<1>2. t # NULL /\ t.req.op = "upload"
  BY DEF Uploaded, Doing, Idle
<1>3. unit' = View(w) /\ suggested' = (suggested \cup t.add) \ t.drop
  BY <1>1, Zenon DEF Commit
<1>4. Uploads(t) /\ Holds(unit, subs, suggested, data, copies, t)
  BY <1>2 DEF HeldInv, Uploads
<1>5. suggested' = suggested \cup t.add
  BY <1>3, <1>4 DEF Holds
<1>6. \A u \in Units : unit'[u] = Seen(unit, t, u)
  BY <1>3 DEF View, Seen
<1> QED BY <1>4, <1>5, <1>6

\* What has arrived when an upload has committed.
LEMMA CommitArrives ==
  ASSUME Alone, TargetsOnly, TypeInv, DownloadInv, PlainInv, HeldInv, [Next]_vars,
         NEW w \in Workers, Uploaded(w), NEW u \in Units
  PROVE  Arrives(u, unit[u], unit'[u], tx[w].req.file[u], Original(w)[u], tx[w].req.wins,
                 suggested')
<1> DEFINE t == tx[w]
<1>1. /\ Uploads(t) /\ Holds(unit, subs, suggested, data, copies, t)
      /\ suggested' = suggested \cup t.add /\ unit'[u] = Seen(unit, t, u)
  BY CommitHeld
<1>2. Arrives(u, unit[u], Seen(unit, t, u), t.req.file[u], Original(w)[u], t.req.wins,
              suggested \cup t.add)
  BY <1>1, HeldArrives
<1> QED BY <1>1, <1>2

\* What is downloaded of one unit.
LEMMA ExportedOne ==
  ASSUME NEW rows, NEW u \in Units
  PROVE  Exported(rows)[u] = ExportOne(rows[u])
  BY DEF Exported, ExportOne

\* Translations only: what the translator did not change is left alone.
LEMMA OthersStayTranslated ==
  ASSUME Alone, TargetsOnly
  PROVE  Spec => OnlyOfflineChangesUploaded
<1>1. Alone /\ TargetsOnly
  OBVIOUS
<1>2. ASSUME TypeInv, DownloadInv, PlainInv, HeldInv, [Next]_vars, NEW w \in Workers, Uploaded(w),
             NEW u \in Units, ~ChangedOffline(w, u), CommentsAgree(w, u),
             ~(BroughtBack(w, u) /\ tx[w].req.wins = "source")
      PROVE  Exported(unit')[u] = Exported(unit)[u]
  <2> DEFINE x == unit[u]
             y == unit'[u]
             f == tx[w].req.file[u]
             orig == Original(w)[u]
  <2>1. Arrives(u, x, y, f, orig, tx[w].req.wins, suggested')
    BY <1>1, <1>2, CommitArrives
  <2>2. f = orig /\ (f # NULL /\ x # NULL => f.comment = x.comment)
    BY <1>2 DEF ChangedOffline, CommentsAgree
  <2> HIDE DEF x, y, f, orig
  <2>3. ExportOne(y) = ExportOne(x)
    BY <2>1, <2>2 DEF Arrives, Kept
  <2>4. Exported(unit')[u] = ExportOne(y) /\ Exported(unit)[u] = ExportOne(x)
    BY ExportedOne DEF x, y
  <2> QED BY <2>3, <2>4
<1>3. TypeInv /\ DownloadInv /\ PlainInv /\ HeldInv /\ [Next]_vars =>
        [\A w \in Workers : Uploaded(w) =>
           \A u \in Units :
             /\ ~ChangedOffline(w, u) /\ CommentsAgree(w, u)
             /\ ~(BroughtBack(w, u) /\ tx[w].req.wins = "source")
             => Exported(unit')[u] = Exported(unit)[u]]_vars
  BY <1>2
<1>4. Spec => []DownloadInv /\ []PlainInv /\ []HeldInv
  BY <1>1, DownloadHolds, PlainHolds, HeldHolds
<1> QED BY <1>3, <1>4, Typed, PTL DEF Spec, OnlyOfflineChangesUploaded

\* Translations only: what the translator changed of a unit that nobody changed
\* online arrives as it is in the file.
LEMMA ChangesArriveTranslated ==
  ASSUME Alone, TargetsOnly
  PROVE  Spec => OfflineChangesArrive
<1>1. Alone /\ TargetsOnly
  OBVIOUS
<1>2. ASSUME TypeInv, DownloadInv, PlainInv, HeldInv, [Next]_vars, NEW w \in Workers, Uploaded(w),
             NEW u \in Units,
             BothHave(w, u), CommentsAgree(w, u), ChangedOffline(w, u), ~ChangedOnline(w, u)
      PROVE  Convert(unit'[u]) = tx[w].req.file[u]
  <2> DEFINE x == unit[u]
             y == unit'[u]
             f == tx[w].req.file[u]
             orig == Original(w)[u]
  <2>1. Arrives(u, x, y, f, orig, tx[w].req.wins, suggested')
    BY <1>1, <1>2, CommitArrives
  <2>2. f # NULL /\ orig # NULL /\ Live(x) /\ x # NULL /\ f # orig
    BY <1>2 DEF BothHave, ChangedOffline, Live
  <2>3. f.comment = x.comment
    BY <1>2, <2>2 DEF CommentsAgree
  <2>4. Convert(x) = orig
    <3>1. Exported(unit)[u] = orig
      BY <1>2 DEF ChangedOnline
    <3> QED BY <2>2, <3>1, ExportedOne DEF ExportOne
  <2> HIDE DEF x, f, orig
  <2> QED BY <2>1, <2>2, <2>3, <2>4 DEF Arrives, Arrived, HaveAll, f
<1>3. TypeInv /\ DownloadInv /\ PlainInv /\ HeldInv /\ [Next]_vars =>
        [\A w \in Workers : Uploaded(w) =>
           \A u \in Units :
             BothHave(w, u) /\ CommentsAgree(w, u) /\ ChangedOffline(w, u) /\ ~ChangedOnline(w, u)
               => \/ Convert(unit'[u]) = tx[w].req.file[u]
                  \/ tx[w].req.file[u].obsolete /\ ~Live(unit'[u])]_vars
  BY <1>2
<1>4. Spec => []DownloadInv /\ []PlainInv /\ []HeldInv
  BY <1>1, DownloadHolds, PlainHolds, HeldHolds
<1> QED BY <1>3, <1>4, Typed, PTL DEF Spec, OfflineChangesArrive

\* Translations only: of a target that was changed both online and offline one
\* wins, and the other one is a suggestion unless it is empty.
LEMMA LosersSuggestedTranslated ==
  ASSUME Alone, TargetsOnly
  PROVE  Spec => LoserSuggested
<1>1. Alone /\ TargetsOnly
  OBVIOUS
<1> DEFINE empty == ""
<1> HIDE DEF empty
<1>2. ASSUME TypeInv, DownloadInv, PlainInv, HeldInv, [Next]_vars, NEW w \in Workers, Uploaded(w),
             NEW u \in Units, BothHave(w, u), CommentsAgree(w, u),
             Original(w)[u].target # tx[w].req.file[u].target,
             Original(w)[u].target # unit[u].target,
             tx[w].req.file[u].target # unit[u].target
      PROVE  LET lost == IF tx[w].req.wins = "pootle" THEN tx[w].req.file[u].target
                         ELSE unit[u].target
             IN /\ unit'[u].target = IF tx[w].req.wins = "pootle" THEN unit[u].target
                                     ELSE tx[w].req.file[u].target
                /\ lost # empty => <<u, lost>> \in suggested'
  <2> DEFINE x == unit[u]
             y == unit'[u]
             f == tx[w].req.file[u]
             orig == Original(w)[u]
             wins == tx[w].req.wins
  <2>1. Arrives(u, x, y, f, orig, wins, suggested')
    BY <1>1, <1>2, CommitArrives
  <2>2. f # NULL /\ orig # NULL /\ Live(x) /\ x # NULL
    BY <1>2 DEF BothHave, Live
  <2>3. f.comment = x.comment
    BY <1>2, <2>2 DEF CommentsAgree
  <2>4. HaveAll(x, f, orig)
    BY <2>2, <2>3 DEF HaveAll
  <2>5. orig.target # f.target /\ orig.target # x.target /\ f.target # x.target
    BY <1>2
  <2> HIDE DEF x, y, f, orig, wins
  <2>6. LET lost == IF wins = "pootle" THEN f.target ELSE x.target
        IN /\ y.target = IF wins = "pootle" THEN x.target ELSE f.target
           /\ lost # empty => <<u, lost>> \in suggested'
    BY <2>1, <2>4, <2>5, Zenon DEF Arrives, Decided, empty
  <2> QED BY <2>6, Zenon DEF x, y, f, wins
<1>3. TypeInv /\ DownloadInv /\ PlainInv /\ HeldInv /\ [Next]_vars =>
        [\A w \in Workers : Uploaded(w) =>
           \A u \in Units :
             LET mine == tx[w].req.file[u].target
                 theirs == unit[u].target
                 kept == unit'[u].target
                 lost == IF tx[w].req.wins = "pootle" THEN mine ELSE theirs
             IN /\ BothHave(w, u) /\ CommentsAgree(w, u)
                /\ Original(w)[u].target \notin {mine, theirs} /\ mine # theirs
                => /\ kept = IF tx[w].req.wins = "pootle" THEN theirs ELSE mine
                   /\ lost # empty => <<u, lost>> \in suggested']_vars
  BY <1>2
<1>4. Spec => []DownloadInv /\ []PlainInv /\ []HeldInv
  BY <1>1, DownloadHolds, PlainHolds, HeldHolds
<1> QED BY <1>3, <1>4, Typed, PTL DEF Spec, LoserSuggested, empty

-----------------------------------------------------------------------------
(* Uploads that may add units and make them obsolete, where comments have   *)
(* no part in it.  What an upload makes of one unit: x becomes y, for a     *)
(* file that was orig when it was downloaded and is f now; v is the version *)
(* and since its revision.                                                  *)

NoComments == Comments = {""}

\* Of a unit that the file had, the version has the target, and no mark unless
\* the unit has become obsolete since.  One that it did not have is not in the
\* version, or it was brought back since.
VersionOf(x, v, orig, since, d) ==
  IF orig = NULL
  THEN Live(x) => v = NULL \/ (x.creation_revision <= since /\ since < x.revision)
  ELSE /\ x # NULL /\ v \in FileUnit /\ v.target = orig.target /\ v.comment = x.comment
       /\ orig \in FileUnit /\ Unmarked(orig)
       /\ Live(x) => Unmarked(v)
       /\ ~Live(x) => since < x.revision /\ since < d
       /\ ~(since < x.revision) => x.target = v.target

\* A unit that is settled is obsolete, or it has no mark.
LEMMA LiveSettled ==
  ASSUME NEW x \in Unit, Settled(x)
  PROVE  IF Live(x) THEN Plain(x.state) /\ ~Obsolete(x) ELSE x.state = OBSOLETE /\ Obsolete(x)
<1>1. SettledState(x.state)
  BY Zenon DEF Settled
<1>2. x # NULL
  BY NullAssumption
<1> QED BY <1>1, <1>2 DEF SettledState, Live, Plain, Obsolete, OBSOLETE, UNTRANSLATED, TRANSLATED

\* The record makes the version what VersionOf says.
LEMMA VersionSettled ==
  ASSUME TypeInv, AloneInv, DownloadInv, SettledInv, NEW c \in Copies, copies[c] # NULL,
         NEW u \in Units, NEW v, v = AtRevision(unit, subs, copies[c].rev)[u]
  PROVE  VersionOf(unit[u], v, copies[c].orig[u], copies[c].rev, data)
<1> DEFINE x == unit[u]
           orig == copies[c].orig[u]
           since == copies[c].rev
           state == Value(unit, subs, u, "state", since)
           target == Value(unit, subs, u, "target", since)
<1>1. /\ unit \in StoreUnit /\ subs \in SUBSET Submission /\ data \in Nat
      /\ revision \in Nat /\ NoneLater(subs, revision) /\ copies[c] \in Copy
  BY DEF TypeInv, TypeOK, NoneLater
<1>2. Origin(unit, subs, u, since, orig)
  BY DEF DownloadInv
<1>3. since \in Nat /\ (orig # NULL => orig \in FileUnit /\ Unmarked(orig))
  BY <1>1 DEF Copy, File, SettledInv, PlainFile
<1>4. x # NULL => x \in Unit /\ Settled(x) /\ x.revision \in Nat /\ x.creation_revision \in Nat
  BY <1>1 DEF StoreUnit, SettledInv, SettledRows, Unit
<1>5. ASSUME NEW field, Later(subs, u, field, since) # {}
      PROVE  since < x.revision /\ since < data
  <2>1. PICK s \in subs : s.unit = u /\ s.revision > since
    BY <1>5 DEF Later
  <2>2. s.revision \in Nat /\ x # NULL /\ s.revision <= data /\ s.revision <= x.revision
    BY <1>1, <2>1 DEF AloneInv, CountsInv, Submission
  <2> QED BY <1>1, <1>3, <1>4, <2>1, <2>2
<1>6. /\ Later(subs, u, "state", since) = {} => state = x.state
      /\ Later(subs, u, "target", since) = {} => target = x.target
  BY DEF Value
<1>7. x # NULL => SettledState(state)
  <2>1. CASE Later(subs, u, "state", since) = {}
    BY <1>4, <1>6, <2>1, Zenon DEF Settled
  <2>2. CASE Later(subs, u, "state", since) # {}
    <3>1. FirstChange(subs, u, "state", since) \in subs
      BY <1>1, <2>2, ValueTyped DEF NoneLater
    <3> QED BY <2>2, <3>1 DEF Value, SettledInv, SettledSubs
  <2> QED BY <2>1, <2>2
<1>8. /\ v = AtRevision(unit, subs, since)[u]
      /\ target = Value(unit, subs, u, "target", since)
      /\ state = Value(unit, subs, u, "state", since)
  OBVIOUS
<1>9. x = unit[u] /\ orig = copies[c].orig[u] /\ since = copies[c].rev
  OBVIOUS
<1> HIDE DEF state, target, since, orig, x
<1>10. CASE orig = NULL
  <2> SUFFICES ASSUME Live(x), v # NULL
               PROVE  x.creation_revision <= since /\ since < x.revision
    BY <1>9, <1>10 DEF VersionOf
  <2>1. x # NULL /\ x.state # OBSOLETE
    BY DEF Live, OBSOLETE
  <2>2. ~(x.creation_revision > since)
    BY <1>8, <1>9, Zenon DEF AtRevision
  <2>3. x.creation_revision <= since
    BY <1>3, <1>4, <2>1, <2>2
  <2>4. state = OBSOLETE
    BY <1>2, <1>8, <1>9, <1>10, <2>1, <2>3 DEF Origin
  <2>5. Later(subs, u, "state", since) # {}
    BY <1>6, <2>1, <2>4
  <2> QED BY <1>5, <2>3, <2>5
<1>11. CASE orig # NULL
  <2>1. /\ x # NULL /\ x.creation_revision <= since
        /\ orig.target = target /\ state # OBSOLETE
    BY <1>2, <1>8, <1>9, <1>11 DEF Origin
  <2>2. /\ v \in FileUnit /\ v.target = target /\ v.comment = x.comment
        /\ Plain(x.state) /\ Plain(state) => Unmarked(v)
    <3>1. unit[u] # NULL /\ unit[u].creation_revision <= since
      BY <1>9, <2>1
    <3>2. /\ v \in FileUnit /\ v.target = Value(unit, subs, u, "target", since)
          /\ v.comment = unit[u].comment
          /\ Plain(unit[u].state) /\ Plain(Value(unit, subs, u, "state", since)) => Unmarked(v)
      BY <1>1, <1>3, <1>8, <3>1, VersionParts
    <3> QED BY <1>8, <1>9, <3>2
  <2>3. Plain(state)
    BY <1>7, <2>1 DEF SettledState, Plain
  <2>4. Live(x) => Unmarked(v)
    BY <1>4, <2>1, <2>2, <2>3, LiveSettled
  <2>5. ~Live(x) => since < x.revision /\ since < data
    <3> SUFFICES ASSUME ~Live(x) PROVE since < x.revision /\ since < data
      OBVIOUS
    <3>1. x.state = OBSOLETE
      BY <1>4, <2>1, LiveSettled
    <3> QED BY <1>5, <1>6, <2>1, <3>1
  <2>6. ~(since < x.revision) => x.target = v.target
    BY <1>5, <1>6, <2>2
  <2> QED BY <1>3, <1>9, <1>11, <2>1, <2>2, <2>4, <2>5, <2>6 DEF VersionOf
<1> QED BY <1>10, <1>11

\* A unit of a file that the translator removed is updated, if Pootle wins, where
\* the unit has still the target that it had.
LEMMA NeedIsRemoved ==
  ASSUME NEW x \in Unit, Settled(x), Live(x), NEW f \in FileUnit, f.obsolete = TRUE,
         NEW v \in FileUnit, Unmarked(v), f.comment = v.comment,
         NEW since
  PROVE  NeedUpdate(x, f, v, since, "pootle") <=> x.target = v.target
<1> DEFINE T == f.target # v.target
           D == x.target # v.target
           N == f.target # x.target
           wins == "pootle"
<1>1. v # NULL /\ v.fuzzy = FALSE /\ v.obsolete = FALSE
  BY NullAssumption, Zenon DEF Unmarked
<1>2. (FsTargetUpdated(f, v) <=> T) /\ (DbTargetUpdated(x, v) <=> D)
  BY <1>1, Zenon DEF FsTargetUpdated, DbTargetUpdated
<1>3. FsStateUpdated(f, v)
  <2>1. f.obsolete # v.obsolete
    BY <1>1
  <2> QED BY <1>1, <2>1, Zenon DEF FsStateUpdated
<1>4. ~ShouldUpdateComment(x, f, v, wins)
  BY <1>1, Zenon DEF ShouldUpdateComment, FsCommentUpdated
<1>5. ~ShouldUnobsolete(x, f, since, wins)
  BY LiveSettled DEF ShouldUnobsolete
<1>6. ShouldUpdateTarget(x, f, v, wins) <=> T /\ N /\ ~D
  BY <1>2, Zenon DEF ShouldUpdateTarget, TargetConflictFound
<1>7. ShouldUpdateState(x, f, v, wins) <=> /\ ~(D /\ ~ShouldUpdateTarget(x, f, v, wins))
                                            /\ ~DbStateUpdated(x, v)
  BY <1>2, <1>3, Zenon DEF ShouldUpdateState, StateConflictFound
<1>8. ASSUME x.target = v.target PROVE ~DbStateUpdated(x, v)
  <2>1. (x.state = FUZZY) = FALSE /\ Obsolete(x) = FALSE
    BY LiveSettled DEF Plain, FUZZY, UNTRANSLATED, TRANSLATED, Obsolete, OBSOLETE
  <2>2. x.state # OBSOLETE
    BY LiveSettled DEF Obsolete
  <2>3. (x.state = TRANSLATED) = IsTranslated(v)
    BY <1>1, <1>8, <2>2, Zenon DEF Settled, IsTranslated
  <2>4. ~((x.state = FUZZY) # v.fuzzy) /\ ~(Obsolete(x) # v.obsolete)
    BY <1>1, <2>1, Zenon
  <2> QED BY <1>1, <2>3, <2>4, Zenon DEF DbStateUpdated
<1>9. T /\ ~D => N
  BY Zenon
<1> HIDE DEF T, D, N
<1>10. NeedUpdate(x, f, v, since, wins)
         <=> ShouldUpdateTarget(x, f, v, wins) \/ ShouldUpdateState(x, f, v, wins)
  BY <1>4, <1>5, Zenon DEF NeedUpdate
<1> QED BY <1>6, <1>7, <1>8, <1>10, Zenon DEF D

\* What the translator left alone stays as it is; what he removed and added.
Stays(x, y, f, orig, since, wins) ==
  /\ f = orig
  /\ ~(orig = NULL /\ Live(x) /\ x.creation_revision <= since /\ wins = "source")
  => ExportOne(y) = ExportOne(x)
\* The translator's change arrives if nobody changed the unit online.
ArrivedOrGone(x, y, f, orig) ==
  HaveAll(x, f, orig) /\ f # orig /\ Convert(x) = orig
    => Convert(y) = f \/ (f.obsolete /\ ~Live(y))
Gone(f) == f = NULL \/ (f # NULL /\ f.obsolete)
Taken(x, y, f, orig, since, wins) ==
  /\ ~Gone(f) /\ orig = NULL /\ x = NULL => ExportOne(y) = f
  /\ Gone(f) /\ orig # NULL /\ Live(x)
     => /\ (x.revision > since /\ wins = "pootle") \/ ~Live(y)
        /\ ExportOne(x) # orig /\ wins = "pootle" => ExportOne(y) = ExportOne(x)

\* The first pass of an update, of one unit, and both.
FirstPass(u, x, f, toObsolete, rev) ==
  IF f # NULL /\ x = NULL THEN AddedUnit(f, rev)
  ELSE IF u \in toObsolete THEN [MakeObsolete(x) EXCEPT !.revision = rev]
  ELSE x
BothPasses(u, x, f, v, since, wins, toUpdate, toObsolete, rev) ==
  IF u \in toUpdate THEN UpdatedUnit(FirstPass(u, x, f, toObsolete, rev), f, v, since, wins, rev)
  ELSE FirstPass(u, x, f, toObsolete, rev)

\* A unit that an update made obsolete is not exported any more.
LEMMA MadeObsolete ==
  ASSUME NEW x \in Unit, Allow, NEW rev \in Nat
  PROVE  LET z == [MakeObsolete(x) EXCEPT !.revision = rev]
         IN z \in Unit /\ Settled(z) /\ z.state = OBSOLETE /\ z.target = x.target
<1> DEFINE z == [MakeObsolete(x) EXCEPT !.revision = rev]
<1>1. z \in Unit /\ z.state = OBSOLETE /\ z.target = x.target
  BY DEF MakeObsolete, Unit, States
<1> HIDE DEF z
<1>2. Settled(z)
  BY <1>1, Zenon DEF Settled, SettledState
<1> QED BY <1>1, <1>2 DEF z

LEMMA ObsoleteNotLive ==
  ASSUME NEW one, one.state = OBSOLETE, NEW y, SameButRevision(one, y)
  PROVE  ~Live(y)
<1>1. y.state = OBSOLETE
  BY DEF SameButRevision
<1> QED BY <1>1 DEF Live, OBSOLETE

\* A unit of which nothing but the target was changed is kept if the translator
\* did not change it.
LEMMA OneStays ==
  ASSUME NoComments, Allow, NEW x, x # NULL => x \in Unit /\ Settled(x),
         NEW f, f # NULL => f \in FileUnit /\ Done(f), NEW orig, NEW v, NEW d \in Nat,
         NEW since \in Nat, NEW wins \in Sides, NEW rev \in Nat,
         VersionOf(x, v, orig, since, d),
         NEW u, NEW toUpdate, NEW toObsolete,
         u \in toUpdate => /\ x # NULL /\ f # NULL
                           /\ Obsolete(x) => since >= d \/ ~(since < x.revision),
         u \in toObsolete => /\ Live(x) /\ Gone(f) /\ v # NULL
                             /\ wins = "pootle" => ~(since < x.revision),
         NEW y, SameButRevision(BothPasses(u, x, f, v, since, wins, toUpdate, toObsolete, rev), y)
  PROVE  Stays(x, y, f, orig, since, wins)
<1> DEFINE one == BothPasses(u, x, f, v, since, wins, toUpdate, toObsolete, rev)
           first == FirstPass(u, x, f, toObsolete, rev)
<1> SUFFICES ASSUME f = orig,
                    ~(orig = NULL /\ Live(x) /\ x.creation_revision <= since /\ wins = "source")
             PROVE  one = x
  BY SameExported DEF Stays
<1>1. one = IF u \in toUpdate THEN UpdatedUnit(first, f, v, since, wins, rev) ELSE first
  BY Zenon DEF BothPasses
<1>2. x # NULL => x.revision \in Nat
  BY DEF Unit
<1>3. u \notin toObsolete
  <2> SUFFICES ASSUME u \in toObsolete PROVE FALSE
    OBVIOUS
  <2>1. Live(x) /\ x # NULL /\ Gone(f) /\ v # NULL
    BY DEF Live
  <2>2. CASE orig = NULL
    <3>1. x.creation_revision <= since /\ since < x.revision
      BY <2>1, <2>2 DEF VersionOf
    <3>2. wins = "pootle"
      BY <2>1, <2>2, <3>1 DEF Sides
    <3> QED BY <3>1, <3>2
  <2>3. CASE orig # NULL
    <3>1. Unmarked(f)
      BY <2>3 DEF VersionOf
    <3> QED BY <2>1, <2>3, <3>1, Zenon DEF Gone, Unmarked
  <2> QED BY <2>2, <2>3
<1>4. f # NULL => x # NULL
  BY DEF VersionOf
<1>5. first = x
  BY <1>3, <1>4, Zenon DEF FirstPass
<1> HIDE DEF one, first
<1>6. CASE u \in toUpdate
  <2>1. x # NULL /\ f # NULL /\ x \in Unit /\ Settled(x) /\ f \in FileUnit /\ orig # NULL
    BY <1>6
  <2>2. /\ v \in FileUnit /\ v.target = f.target /\ v.comment = x.comment
        /\ Unmarked(f)
        /\ Live(x) => Unmarked(v)
        /\ ~Live(x) => since < x.revision /\ since < d
    BY <2>1 DEF VersionOf
  <2>3. Live(x)
    <3> SUFFICES ASSUME ~Live(x) PROVE FALSE
      OBVIOUS
    <3>1. Obsolete(x)
      BY <2>1, LiveSettled
    <3> QED BY <1>2, <1>6, <2>1, <2>2, <3>1
  <2>4. f.comment = v.comment
    BY <2>1, <2>2 DEF NoComments, FileUnit
  <2>5. Plain(x.state)
    BY <2>1, <2>3, LiveSettled
  <2>6. ~NeedUpdate(x, f, v, since, wins)
    BY <2>1, <2>2, <2>3, <2>4, <2>5, NeedIsTarget
  <2>7. UpdatedUnit(x, f, v, since, wins, rev) = x
    BY <2>6, Zenon DEF UpdatedUnit
  <2> QED BY <1>1, <1>5, <1>6, <2>7
<1>7. CASE u \notin toUpdate
  BY <1>1, <1>5, <1>7
<1> QED BY <1>6, <1>7

\* A unit that the translator added is added.
LEMMA OneAdded ==
  ASSUME NEW f \in FileUnit, Done(f), ~Gone(f), NEW rev \in Nat,
         NEW y, SameButRevision(AddedUnit(f, rev), y)
  PROVE  ExportOne(y) = f
<1> DEFINE one == AddedUnit(f, rev)
<1>1. f # NULL /\ ~f.obsolete
  BY NullAssumption DEF Gone
<1>2. one \in Unit
  BY AddedUnitTyped
<1>3. Settled(one) /\ one.target = f.target /\ one.comment = f.comment
      /\ (one.state = OBSOLETE <=> f.obsolete)
  BY AddedUnitSettled
<1> HIDE DEF one
<1>4. Convert(one) = f
  BY <1>2, <1>3, ConvertSettled
<1>5. Live(one)
  BY <1>1, <1>2, <1>3, LiveSettled
<1>6. ExportOne(one) = f
  BY <1>4, <1>5 DEF ExportOne
<1> QED BY <1>6, SameExported DEF one

\* A unit that the translator removed becomes obsolete, or it is kept.
LEMMA OneRemoved ==
  ASSUME NoComments, Allow, NEW x \in Unit, Settled(x), Live(x),
         NEW f, f # NULL => f \in FileUnit /\ Done(f), Gone(f), NEW orig, orig # NULL, NEW v,
         NEW d \in Nat, NEW since \in Nat, NEW wins \in Sides, NEW rev \in Nat,
         VersionOf(x, v, orig, since, d),
         NEW u, NEW toUpdate, NEW toObsolete,
         IF f = NULL THEN u \notin toUpdate ELSE u \in toUpdate,
         u \in toObsolete <=> (wins = "pootle" => u \notin toUpdate /\ ~(since < x.revision)),
         NEW y, SameButRevision(BothPasses(u, x, f, v, since, wins, toUpdate, toObsolete, rev), y)
  PROVE  Taken(x, y, f, orig, since, wins)
<1> DEFINE one == BothPasses(u, x, f, v, since, wins, toUpdate, toObsolete, rev)
           first == FirstPass(u, x, f, toObsolete, rev)
           gone == [MakeObsolete(x) EXCEPT !.revision = rev]
<1>1. one = IF u \in toUpdate THEN UpdatedUnit(first, f, v, since, wins, rev) ELSE first
  BY Zenon DEF BothPasses
<1>2. x # NULL /\ x.revision \in Nat /\ x.comment \in Comments
  BY NullAssumption DEF Unit
<1>3. first = IF u \in toObsolete THEN gone ELSE x
  BY <1>2, Zenon DEF FirstPass
<1>4. gone \in Unit /\ Settled(gone) /\ gone.state = OBSOLETE
  BY MadeObsolete
<1>5. /\ v \in FileUnit /\ v.target = orig.target /\ v.comment = x.comment
      /\ orig \in FileUnit /\ Unmarked(orig) /\ Unmarked(v)
      /\ ~(since < x.revision) => x.target = v.target
  BY DEF VersionOf
<1>6. x.target = v.target => Convert(x) = orig
  <2> SUFFICES ASSUME x.target = v.target PROVE Convert(x) = orig
    OBVIOUS
  <2>1. Done(orig) /\ ~orig.obsolete
    BY <1>5, Zenon DEF Done, Unmarked
  <2>2. x.comment = orig.comment
    BY <1>2, <1>5 DEF NoComments, FileUnit
  <2>3. ~(x.state = OBSOLETE)
    BY LiveSettled DEF Obsolete
  <2> QED BY <1>5, <2>1, <2>2, <2>3, ConvertSettled
<1>7. ExportOne(x) = Convert(x)
  BY DEF ExportOne
<1> HIDE DEF one, first, gone
\* the two ways that it may end
<1>8. ASSUME one.state = OBSOLETE, wins = "pootle" => x.target = v.target
      PROVE  Taken(x, y, f, orig, since, wins)
  <2>1. ~Live(y)
    BY <1>8, ObsoleteNotLive DEF one
  <2> QED BY <1>2, <1>6, <1>7, <1>8, <2>1 DEF Taken
<1>9. ASSUME one = x, wins = "pootle", since < x.revision
      PROVE  Taken(x, y, f, orig, since, wins)
  <2>1. ExportOne(y) = ExportOne(x)
    BY <1>9, SameExported DEF one
  <2>2. x.revision > since
    BY <1>2, <1>9
  <2> QED BY <1>2, <1>9, <2>1, <2>2 DEF Taken
<1>10. CASE f = NULL
  <2>1. u \notin toUpdate /\ one = first
    BY <1>1, <1>10
  <2>2. CASE u \in toObsolete
    BY <1>3, <1>4, <1>5, <1>8, <2>1, <2>2
  <2>3. CASE u \notin toObsolete
    BY <1>3, <1>9, <2>1, <2>3
  <2> QED BY <2>2, <2>3
<1>11. CASE f # NULL
  <2>1. /\ u \in toUpdate /\ f \in FileUnit /\ Done(f) /\ f.obsolete = TRUE
        /\ one = UpdatedUnit(first, f, v, since, wins, rev)
    BY <1>1, <1>11 DEF Gone, FileUnit
  <2>2. CASE wins # "pootle"
    <3>1. first = gone
      BY <1>3, <2>2
    <3>2. one.state = OBSOLETE
      BY <1>4, <2>1, <3>1, UpdatedUnitSettled
    <3> QED BY <1>8, <2>2, <3>2
  <2>3. CASE wins = "pootle"
    <3>1. first = x
      BY <1>3, <2>1, <2>3
    <3>2. f.comment = v.comment
      BY <1>5, <2>1 DEF NoComments, FileUnit
    <3>3. NeedUpdate(x, f, v, since, wins) <=> x.target = v.target
      BY <1>5, <2>1, <2>3, <3>2, NeedIsRemoved
    <3>4. Convert(x) # f
      <4>1. ~Convert(x).obsolete
        BY LiveSettled, Zenon DEF Convert, Obsolete
      <4> QED BY <2>1, <4>1
    <3>5. CASE x.target = v.target
      <4>1. one.state = OBSOLETE
        BY <2>1, <3>1, <3>3, <3>4, <3>5, UpdatedUnitSettled
      <4> QED BY <1>8, <3>5, <4>1
    <3>6. CASE x.target # v.target
      <4>1. one = x
        BY <2>1, <3>1, <3>3, <3>6, Zenon DEF UpdatedUnit
      <4>2. since < x.revision
        BY <1>5, <3>6
      <4> QED BY <1>9, <2>3, <4>1, <4>2
    <3> QED BY <3>5, <3>6
  <2> QED BY <2>2, <2>3
<1> QED BY <1>10, <1>11

\* A unit of the file that the translator did not remove is merged as if uploads
\* could not add or remove any.
LEMMA OneMerged ==
  ASSUME NEW x \in Unit, Settled(x), Live(x), NEW f \in FileUnit, Done(f), ~f.obsolete,
         NEW orig, orig # NULL, NEW v, NEW d \in Nat, NEW since, NEW wins, NEW rev \in Nat,
         VersionOf(x, v, orig, since, d),
         NEW u, NEW toUpdate, NEW toObsolete,
         u \in toUpdate <=> Convert(x) # f, u \notin toObsolete,
         NEW sugg,
         u \in toUpdate =>
           Suggested(u, FirstPass(u, x, f, toObsolete, rev), f, v, since, wins) \subseteq sugg,
         NEW y,
         SameButRevision(BothPasses(u, x, f, v, since, wins, toUpdate, toObsolete, rev), y)
  PROVE  ArrivedOrGone(x, y, f, orig) /\ Decided(u, x, y, f, orig, wins, sugg)
<1> DEFINE one == BothPasses(u, x, f, v, since, wins, toUpdate, toObsolete, rev)
           first == FirstPass(u, x, f, toObsolete, rev)
<1>1. one = IF u \in toUpdate THEN UpdatedUnit(first, f, v, since, wins, rev) ELSE first
  BY Zenon DEF BothPasses
<1>2. x # NULL /\ f # NULL
  BY NullAssumption
<1>3. first = x
  BY <1>2, Zenon DEF FirstPass
<1> HIDE DEF one, first
<1>4. PlainUnit(x)
  BY LiveSettled DEF PlainUnit
<1>5. PlainFileUnit(f)
  BY DEF PlainFileUnit, Unmarked, Done, FileUnit
<1>6. VersionFor(x, v, orig)
  BY DEF VersionFor, VersionOf
<1>7. one = x \/ (x # NULL /\ f # NULL /\ one = UpdatedUnit(x, f, v, since, wins, rev))
  BY <1>1, <1>2, <1>3
<1>8. HaveAll(x, f, orig) /\ Convert(x) # f
        => /\ one = UpdatedUnit(x, f, v, since, wins, rev)
           /\ Suggested(u, x, f, v, since, wins) \subseteq sugg
  BY <1>1, <1>3 DEF first
<1>9. SameButRevision(one, y)
  BY DEF one
<1>10. Arrives(u, x, y, f, orig, wins, sugg)
  BY <1>4, <1>5, <1>6, <1>7, <1>8, <1>9, OneArrives
<1> QED BY <1>10 DEF Arrives, Arrived, ArrivedOrGone

\* What a target that lost leaves: x is the unit before the second pass of the
\* update.
Blank(t) == t = ""

LEMMA LoserOf ==
  ASSUME NEW x \in Unit, NEW f \in FileUnit, NEW v \in FileUnit, NEW u, NEW since, NEW wins,
         x.target # v.target, f.target # v.target, f.target # x.target,
         ~ShouldUnobsolete(x, f, since, wins),
         NEW won, won = IF wins = "pootle" THEN x.target ELSE f.target,
         NEW lost, lost = IF wins = "pootle" THEN f.target ELSE x.target,
         UpdatedUnit(x, f, v, since, wins, 0).target = won
  PROVE  Blank(lost) \/ Suggested(u, x, f, v, since, wins) = {<<u, lost>>}
<1> DEFINE z == UpdatedUnit(x, f, v, since, wins, 0)
           loser == IF wins = "pootle" THEN f.target ELSE x.target
<1> HIDE DEF z
<1>1. TargetConflictFound(x, f, v)
  BY NullAssumption DEF TargetConflictFound, FsTargetUpdated, DbTargetUpdated
<1>2. Suggested(u, x, f, v, since, wins) = Suggestible(u, z, loser)
  BY <1>1, Zenon DEF Suggested, z
<1>3. z.target = won /\ lost # won
  BY DEF z
<1>4. loser = lost
  OBVIOUS
<1>5. Blank(lost) \/ Suggestible(u, z, lost) = {<<u, lost>>}
  BY <1>3, Zenon DEF Suggestible, Blank
<1> QED BY <1>2, <1>4, <1>5

\* One that the translator removed becomes obsolete if nobody changed it, and of
\* its target and one given online, one wins and the other one is suggested.
LEMMA OneRemovedDecided ==
  ASSUME NoComments, Allow, NEW x \in Unit, Settled(x), Live(x),
         NEW f \in FileUnit, Done(f), f.obsolete, NEW orig, orig # NULL, NEW v,
         NEW d \in Nat, NEW since \in Nat, NEW wins \in Sides, NEW rev \in Nat,
         VersionOf(x, v, orig, since, d),
         NEW u, NEW toUpdate, NEW toObsolete,
         u \in toUpdate, u \in toObsolete <=> wins # "pootle",
         NEW sugg,
         Suggested(u, FirstPass(u, x, f, toObsolete, rev), f, v, since, wins) \subseteq sugg,
         NEW y,
         SameButRevision(BothPasses(u, x, f, v, since, wins, toUpdate, toObsolete, rev), y)
  PROVE  ArrivedOrGone(x, y, f, orig) /\ Decided(u, x, y, f, orig, wins, sugg)
<1> DEFINE one == BothPasses(u, x, f, v, since, wins, toUpdate, toObsolete, rev)
           first == FirstPass(u, x, f, toObsolete, rev)
           gone == [MakeObsolete(x) EXCEPT !.revision = rev]
<1>1. one = UpdatedUnit(first, f, v, since, wins, rev)
  BY Zenon DEF BothPasses
<1>2. x # NULL /\ f # NULL
  BY NullAssumption
<1>3. first = IF u \in toObsolete THEN gone ELSE x
  BY <1>2, Zenon DEF FirstPass
<1>4. gone \in Unit /\ Settled(gone) /\ gone.state = OBSOLETE /\ gone.target = x.target
  BY MadeObsolete
<1>5. /\ v \in FileUnit /\ v.target = orig.target /\ v.comment = x.comment /\ Unmarked(v)
  BY DEF VersionOf
<1>6. f.obsolete = TRUE /\ f.comment = v.comment
  BY <1>5 DEF FileUnit, NoComments
<1> HIDE DEF one, first, gone
<1>7. first \in Unit /\ Settled(first) /\ first.target = x.target
  BY <1>3, <1>4
<1>8. wins = "pootle" => first = x /\ (NeedUpdate(x, f, v, since, wins) <=> x.target = v.target)
  <2> SUFFICES ASSUME wins = "pootle"
               PROVE  first = x /\ (NeedUpdate(x, f, v, since, wins) <=> x.target = v.target)
    OBVIOUS
  <2> QED BY <1>3, <1>5, <1>6, NeedIsRemoved
<1>9. wins # "pootle" => first = gone
  BY <1>3
<1>10. SameButRevision(one, y) /\ one \in Unit
  BY <1>1, <1>7, UpdatedUnitTyped DEF one
<1>11. ArrivedOrGone(x, y, f, orig)
  <2> SUFFICES ASSUME Convert(x) = orig PROVE ~Live(y)
    BY DEF ArrivedOrGone
  <2>1. x.target = v.target
    BY <1>5, ConvertTyped
  <2>2. one.state = OBSOLETE
    <3>1. CASE wins = "pootle"
      <4>1. Convert(x) # f
        <5>1. ~Convert(x).obsolete
          BY LiveSettled, Zenon DEF Convert, Obsolete
        <5> QED BY <5>1
      <4> QED BY <1>1, <1>8, <2>1, <3>1, <4>1, UpdatedUnitSettled
    <3>2. CASE wins # "pootle"
      BY <1>1, <1>4, <1>9, <3>2, UpdatedUnitSettled
    <3> QED BY <3>1, <3>2
  <2> QED BY <1>10, <2>2, ObsoleteNotLive
<1>12. Decided(u, x, y, f, orig, wins, sugg)
  <2> DEFINE lost == IF wins = "pootle" THEN f.target ELSE x.target
             won == IF wins = "pootle" THEN x.target ELSE f.target
  <2> SUFFICES ASSUME orig.target # f.target, orig.target # x.target, f.target # x.target
               PROVE  y.target = won /\ (Blank(lost) \/ <<u, lost>> \in sugg)
    BY Zenon DEF Decided, Blank
  <2>1. first.target # v.target /\ f.target # v.target /\ f.target # first.target
    BY <1>5, <1>7
  <2>2. ASSUME NEW n \in Nat PROVE UpdatedUnit(first, f, v, since, wins, n).target = won
    <3>1. CASE wins = "pootle"
      <4>1. ~NeedUpdate(x, f, v, since, wins)
        BY <1>8, <2>1, <3>1
      <4>2. UpdatedUnit(x, f, v, since, wins, n) = x
        BY <4>1, Zenon DEF UpdatedUnit
      <4> QED BY <1>8, <3>1, <4>2
    <3>2. CASE wins # "pootle"
      <4>1. ShouldUpdateTarget(first, f, v, wins)
        BY <2>1, <3>2 DEF ShouldUpdateTarget, FsTargetUpdated
      <4>2. NeedUpdate(first, f, v, since, wins)
        BY <4>1, Zenon DEF NeedUpdate
      <4>3. Convert(first) # f
        BY <1>7, <2>1, ConvertTyped
      <4> QED BY <1>7, <2>2, <3>2, <4>2, <4>3, UpdatedUnitSettled
    <3> QED BY <3>1, <3>2
  <2>3. y.target = won
    <3>1. one.target = won
      BY <1>1, <2>2
    <3> HIDE DEF won
    <3> QED BY <1>10, <3>1 DEF SameButRevision
  <2>4. ~ShouldUnobsolete(first, f, since, wins)
    BY DEF ShouldUnobsolete
  <2>5. Blank(lost) \/ Suggested(u, first, f, v, since, wins) = {<<u, lost>>}
    <3>1. UpdatedUnit(first, f, v, since, wins, 0).target = won
      BY <2>2
    <3>2. /\ won = IF wins = "pootle" THEN first.target ELSE f.target
          /\ lost = IF wins = "pootle" THEN f.target ELSE first.target
      BY <1>7
    <3> HIDE DEF lost, won
    <3> QED BY <1>5, <1>7, <2>1, <2>4, <3>1, <3>2, LoserOf
  <2> HIDE DEF lost, won
  <2>6. Suggested(u, first, f, v, since, wins) \subseteq sugg
    BY DEF first
  <2> QED BY <2>3, <2>5, <2>6
<1> QED BY <1>11, <1>12

\* Which units an update takes up in its passes.
Passes(rows, ss, d, file, since, wins, rev, u, toUpdate, toObsolete) ==
  LET x == rows[u]
      f == file[u]
      v == AtRevision(rows, ss, since)[u]
  IN /\ MergedOne(rows, ss, d, file, since, wins, Allow, rev, u)
          = BothPasses(u, x, f, v, since, wins, toUpdate, toObsolete, rev)
     /\ StructuredOne(rows, ss, d, file, since, wins, Allow, rev, u)
          = FirstPass(u, x, f, toObsolete, rev)
     /\ u \in toUpdate <=> /\ x # NULL /\ f # NULL
                           /\ \/ Live(x) /\ Convert(x) # f
                              \/ Obsolete(x) /\ (since >= d \/ ~(since < x.revision))
     /\ u \in toObsolete <=> /\ Live(x) /\ Gone(f) /\ v # NULL
                             /\ wins = "pootle" => u \notin toUpdate /\ ~(since < x.revision)

LEMMA MergedPasses ==
  ASSUME Allow, NEW rows \in StoreUnit, NEW ss, NEW d \in Nat, NEW file \in File,
         NEW since \in Nat, NEW wins, NEW rev \in Nat, NEW u \in Units,
         NEW toUpdate, toUpdate = UnitsToUpdate(rows, d, file, since),
         NEW toObsolete,
         toObsolete = UnitsObsoleted(rows, toUpdate, file, AtRevision(rows, ss, since), since, wins)
  PROVE  Passes(rows, ss, d, file, since, wins, rev, u, toUpdate, toObsolete)
<1> DEFINE x == rows[u]
           f == file[u]
           old == AtRevision(rows, ss, since)
           v == old[u]
           one == MergedOne(rows, ss, d, file, since, wins, Allow, rev, u)
           structured == StructuredOne(rows, ss, d, file, since, wins, Allow, rev, u)
<1>1. one = IF u \in toUpdate THEN UpdatedUnit(structured, f, v, since, wins, rev) ELSE structured
  BY Zenon DEF MergedOne
<1>2. structured = WithStructure(rows, toUpdate, file, old, since, wins, rev)[u]
  BY Zenon DEF StructuredOne
<1>3. WithStructure(rows, toUpdate, file, old, since, wins, rev)[u]
        = IF u \in UnitsToAdd(rows, file) THEN AddedUnit(f, rev)
          ELSE IF u \in toObsolete THEN [MakeObsolete(x) EXCEPT !.revision = rev]
          ELSE x
  BY Zenon DEF WithStructure
<1>4. u \in UnitsToAdd(rows, file) <=> f # NULL /\ x = NULL
  BY DEF UnitsToAdd, In
<1> HIDE DEF one, structured
<1>5. structured = FirstPass(u, x, f, toObsolete, rev)
  <2> HIDE DEF x, f
  <2> QED BY <1>2, <1>3, <1>4, Zenon DEF FirstPass
<1>6. one = BothPasses(u, x, f, v, since, wins, toUpdate, toObsolete, rev)
  <2> HIDE DEF x, f, v
  <2> QED BY <1>1, <1>5, Zenon DEF BothPasses
<1>7. x # NULL => x \in Unit /\ x.revision \in Nat
  BY DEF StoreUnit, Unit
<1>8. u \in toUpdate <=> /\ x # NULL /\ f # NULL
                         /\ \/ Live(x) /\ Convert(x) # f
                            \/ Obsolete(x) /\ (since >= d \/ ~(since < x.revision))
  BY <1>7 DEF UnitsToUpdate, In, ObsoletedSince
<1>9. u \in toObsolete <=> /\ Live(x) /\ Gone(f) /\ v # NULL
                           /\ wins = "pootle" => u \notin toUpdate /\ ~(since < x.revision)
  <2>1. Live(x) => x # NULL
    BY DEF Live
  <2> HIDE DEF old
  <2> QED BY <1>7, <2>1 DEF UnitsObsoleted, UnitsToObsolete, Active, Gone, old
<1> QED BY <1>5, <1>6, <1>8, <1>9 DEF one, structured, Passes

\* A unit that both the file and the server have.
Settles(u, x, y, f, orig, wins, sugg) ==
  Live(x) /\ f # NULL /\ orig # NULL
    => ArrivedOrGone(x, y, f, orig) /\ Decided(u, x, y, f, orig, wins, sugg)

\* An upload that holds what the update returned takes over what the translator
\* removed, added and changed, and leaves alone the rest.
LEMMA HeldTakes ==
  ASSUME NoComments, Allow, TypeInv, AloneInv, DownloadInv, SettledInv,
         NEW w \in Workers, Uploads(tx[w]), Holds(unit, subs, suggested, data, copies, tx[w]),
         NEW u \in Units
  PROVE  LET t == tx[w]
             since == copies[t.req.copy].rev
         IN /\ Stays(unit[u], Seen(unit, t, u), t.req.file[u], Original(w)[u], since, t.req.wins)
            /\ Taken(unit[u], Seen(unit, t, u), t.req.file[u], Original(w)[u], since, t.req.wins)
            /\ Settles(u, unit[u], Seen(unit, t, u), t.req.file[u], Original(w)[u], t.req.wins,
                       suggested \cup t.add)
<1> DEFINE t == tx[w]
           c == t.req.copy
           file == t.req.file
           wins == t.req.wins
           since == copies[c].rev
           x == unit[u]
           f == file[u]
           orig == copies[c].orig[u]
           v == AtRevision(unit, subs, since)[u]
           sugg == suggested \cup t.add
           toUpdate == UnitsToUpdate(unit, data, file, since)
           toObsolete == UnitsObsoleted(unit, toUpdate, file, AtRevision(unit, subs, since),
                                        since, wins)
<1>1. /\ c \in Copies /\ copies[c] # NULL
      /\ \E n \in Nat :
           LET o == Update(unit, subs, suggested, data, file, since, wins, Allow, n)
           IN t.add = o.suggested /\ \A z \in Units : Seen(unit, t, z) = o.rows[z]
  BY DEF Holds
<1>2. PICK n \in Nat :
        LET o == Update(unit, subs, suggested, data, file, since, wins, Allow, n)
        IN t.add = o.suggested /\ \A z \in Units : Seen(unit, t, z) = o.rows[z]
  BY <1>1
<1> DEFINE next == n + 1
           o == Update(unit, subs, suggested, data, file, since, wins, Allow, n)
           one == MergedOne(unit, subs, data, file, since, wins, Allow, next, u)
           y == Seen(unit, t, u)
<1>3. y = o.rows[u] /\ t.add = o.suggested /\ next \in Nat
  <2>1. Seen(unit, t, u) = o.rows[u] /\ t.add = o.suggested
    BY <1>2
  <2> HIDE DEF o
  <2> QED BY <2>1
<1>4. /\ file \in File /\ DoneFile(file) /\ wins \in Sides
      /\ unit \in StoreUnit /\ SettledRows(unit) /\ data \in Nat
      /\ copies[c] \in Copy
  <2>1. /\ tx[w] \in Tx /\ unit \in StoreUnit /\ data \in Nat
        /\ copies[c] \in Copy
    BY <1>1 DEF Uploads, TypeInv, TypeOK
  <2>2. tx[w].req \in Request /\ tx[w].req.op = "upload"
    BY <2>1 DEF Tx, Uploads
  <2>3. tx[w].req.wins \in Sides
    BY <2>2 DEF Request
  <2> QED BY <2>1, <2>2, <2>3, RequestParts DEF SettledInv, SettledTx, Uploads
<1>5. since \in Nat
  BY <1>4 DEF Copy
<1>6. x # NULL => x \in Unit /\ Settled(x)
  BY <1>4 DEF SettledRows, StoreUnit
<1>7. f # NULL => f \in FileUnit /\ Done(f)
  BY <1>4 DEF DoneFile, File
<1>8. VersionOf(x, v, orig, since, data)
  <2>1. v = AtRevision(unit, subs, copies[c].rev)[u]
    OBVIOUS
  <2> HIDE DEF v, c
  <2> QED BY <1>1, <2>1, VersionSettled
<1>9. /\ SameButRevision(one, o.rows[u])
      /\ u \in toUpdate =>
           Suggested(u, StructuredOne(unit, subs, data, file, since, wins, Allow, next, u), f, v,
                     since, wins) \subseteq suggested \cup o.suggested
  <2>1. o = Update(unit, subs, suggested, data, file, since, wins, Allow, n)
    OBVIOUS
  <2> HIDE DEF file, since, wins, o
  <2>2. OneUpdated(unit, subs, suggested, data, file, since, wins, Allow, next, o)
    BY <1>4, <2>1, UpdateOfOne
  <2> QED BY <2>2, Zenon DEF OneUpdated, f, v, toUpdate, one
<1>10. /\ one = BothPasses(u, x, f, v, since, wins, toUpdate, toObsolete, next)
       /\ StructuredOne(unit, subs, data, file, since, wins, Allow, next, u)
            = FirstPass(u, x, f, toObsolete, next)
       /\ u \in toUpdate <=> /\ x # NULL /\ f # NULL
                             /\ \/ Live(x) /\ Convert(x) # f
                                \/ Obsolete(x) /\ (since >= data \/ ~(since < x.revision))
       /\ u \in toObsolete <=> /\ Live(x) /\ Gone(f) /\ v # NULL
                               /\ wins = "pootle" => u \notin toUpdate /\ ~(since < x.revision)
  <2>1. /\ toUpdate = UnitsToUpdate(unit, data, file, since)
        /\ toObsolete = UnitsObsoleted(unit, toUpdate, file, AtRevision(unit, subs, since),
                                       since, wins)
    OBVIOUS
  <2> HIDE DEF file, since, wins, next, toUpdate, toObsolete
  <2>2. unit \in StoreUnit /\ data \in Nat /\ file \in File /\ since \in Nat /\ next \in Nat
    BY <1>3, <1>4, <1>5
  <2>3. Passes(unit, subs, data, file, since, wins, next, u, toUpdate, toObsolete)
    BY <2>1, <2>2, MergedPasses
  <2> QED BY <2>3, Zenon DEF Passes
<1>11. Live(x) => x # NULL /\ ~Obsolete(x)
  <2>1. Live(x) => x # NULL
    BY DEF Live
  <2> QED BY <1>6, <2>1, LiveSettled
<1>12. Original(w)[u] = orig
  BY DEF Original
<1> HIDE DEF one, toUpdate, toObsolete, v, file, since, next, x, f, orig, wins, o, y, c, t, sugg
<1>13. /\ SameButRevision(BothPasses(u, x, f, v, since, wins, toUpdate, toObsolete, next), y)
       /\ u \in toUpdate =>
            Suggested(u, FirstPass(u, x, f, toObsolete, next), f, v, since, wins) \subseteq sugg
  BY <1>3, <1>9, <1>10 DEF sugg
<1>14. Stays(x, y, f, orig, since, wins)
  <2>1. u \in toUpdate => /\ x # NULL /\ f # NULL
                          /\ Obsolete(x) => since >= data \/ ~(since < x.revision)
    BY <1>10, <1>11
  <2>2. u \in toObsolete => /\ Live(x) /\ Gone(f) /\ v # NULL
                            /\ wins = "pootle" => ~(since < x.revision)
    BY <1>10
  <2> QED BY <1>3, <1>4, <1>5, <1>6, <1>7, <1>8, <1>13, <2>1, <2>2, OneStays
<1>15. Settles(u, x, y, f, orig, wins, sugg)
  <2> SUFFICES ASSUME Live(x), f # NULL, orig # NULL
               PROVE  ArrivedOrGone(x, y, f, orig) /\ Decided(u, x, y, f, orig, wins, sugg)
    BY DEF Settles
  <2>1. x \in Unit /\ Settled(x) /\ f \in FileUnit /\ Done(f) /\ x # NULL
    BY <1>6, <1>7, <1>11
  <2>2. u \in toUpdate <=> Convert(x) # f
    BY <1>10, <1>11
  <2>3. CASE ~f.obsolete
    <3>1. u \notin toObsolete
      BY <1>10, <2>3, Zenon DEF Gone
    <3> QED BY <1>3, <1>4, <1>8, <1>13, <2>1, <2>2, <2>3, <3>1, OneMerged
  <2>4. CASE f.obsolete
    <3>1. u \in toUpdate
      <4>1. ~Convert(x).obsolete
        BY <2>1, LiveSettled, Zenon DEF Convert, Obsolete
      <4> QED BY <2>2, <2>4, <4>1
    <3>2. u \in toObsolete <=> wins # "pootle"
      <4>1. v # NULL
        BY <1>8, NullAssumption DEF VersionOf
      <4>2. Gone(f)
        BY <2>4, Zenon DEF Gone
      <4> QED BY <1>10, <3>1, <4>1, <4>2
    <3> QED BY <1>3, <1>4, <1>5, <1>8, <1>13, <2>1, <2>4, <3>1, <3>2, OneRemovedDecided
  <2> QED BY <2>3, <2>4
<1>16. CASE Gone(f) /\ orig # NULL /\ Live(x)
  <2>1. x \in Unit /\ Settled(x) /\ v # NULL
    BY <1>6, <1>8, <1>11, <1>16, NullAssumption DEF VersionOf
  <2>2. IF f = NULL THEN u \notin toUpdate ELSE u \in toUpdate
    <3> SUFFICES ASSUME f # NULL PROVE u \in toUpdate
      BY <1>10
    <3>1. f.obsolete /\ ~Convert(x).obsolete
      <4>1. ~(x.state = OBSOLETE)
        BY <1>11, <1>16 DEF Obsolete
      <4> QED BY <1>16, <4>1, Zenon DEF Gone, Convert
    <3> QED BY <1>10, <1>11, <1>16, <3>1
  <2>3. u \in toObsolete <=> (wins = "pootle" => u \notin toUpdate /\ ~(since < x.revision))
    BY <1>10, <1>16, <2>1
  <2>4. Taken(x, y, f, orig, since, wins)
    BY <1>3, <1>4, <1>5, <1>7, <1>8, <1>13, <1>16, <2>1, <2>2, <2>3, OneRemoved
  <2> QED BY <1>12, <1>14, <1>15, <2>4 DEF x, y, f, file, since, wins, t, c, sugg
<1>17. CASE ~Gone(f) /\ orig = NULL /\ x = NULL
  <2>1. f # NULL /\ f \in FileUnit /\ Done(f)
    BY <1>7, <1>17 DEF Gone
  <2>2. u \notin toUpdate
    BY <1>10, <1>17
  <2>3. BothPasses(u, x, f, v, since, wins, toUpdate, toObsolete, next) = AddedUnit(f, next)
    BY <1>17, <2>1, <2>2, Zenon DEF BothPasses, FirstPass
  <2>4. ExportOne(y) = f
    BY <1>3, <1>13, <1>17, <2>1, <2>3, OneAdded
  <2>5. Taken(x, y, f, orig, since, wins)
    BY <1>17, <2>4 DEF Taken
  <2> QED BY <1>12, <1>14, <1>15, <2>5 DEF x, y, f, file, since, wins, t, c, sugg
<1>18. CASE ~(Gone(f) /\ orig # NULL /\ Live(x)) /\ ~(~Gone(f) /\ orig = NULL /\ x = NULL)
  <2>1. Taken(x, y, f, orig, since, wins)
    BY <1>18 DEF Taken
  <2> QED BY <1>12, <1>14, <1>15, <2>1 DEF x, y, f, file, since, wins, t, c, sugg
<1> QED BY <1>16, <1>17, <1>18

\* What an upload has taken over when it has committed.
LEMMA CommitTakes ==
  ASSUME Alone, NoComments, Allow, TypeInv, AloneInv, DownloadInv, SettledInv, HeldInv,
         [Next]_vars, NEW w \in Workers, Uploaded(w), NEW u \in Units
  PROVE  LET t == tx[w]
             since == copies[t.req.copy].rev
         IN /\ Stays(unit[u], unit'[u], t.req.file[u], Original(w)[u], since, t.req.wins)
            /\ Taken(unit[u], unit'[u], t.req.file[u], Original(w)[u], since, t.req.wins)
            /\ Settles(u, unit[u], unit'[u], t.req.file[u], Original(w)[u], t.req.wins, suggested')
<1> DEFINE t == tx[w]
           since == copies[t.req.copy].rev
<1>1. /\ Uploads(t) /\ Holds(unit, subs, suggested, data, copies, t)
      /\ suggested' = suggested \cup t.add /\ unit'[u] = Seen(unit, t, u)
  BY CommitHeld
<1>2. /\ Stays(unit[u], Seen(unit, t, u), t.req.file[u], Original(w)[u], since, t.req.wins)
      /\ Taken(unit[u], Seen(unit, t, u), t.req.file[u], Original(w)[u], since, t.req.wins)
      /\ Settles(u, unit[u], Seen(unit, t, u), t.req.file[u], Original(w)[u], t.req.wins,
                 suggested \cup t.add)
  BY <1>1, HeldTakes
<1> QED BY <1>1, <1>2

\* Where uploads may not add or remove units, the translator has added and
\* removed none.
LEMMA NoneTaken ==
  ASSUME Alone, Allow = FALSE, TypeInv, SettledInv, HeldInv, [Next]_vars,
         NEW w \in Workers, Uploaded(w), NEW u \in Units
  PROVE  /\ ~Gone(tx[w].req.file[u]) => Original(w)[u] # NULL
         /\ Gone(tx[w].req.file[u]) => Original(w)[u] = NULL
<1> DEFINE t == tx[w]
           f == t.req.file[u]
<1>1. Uploads(t) /\ Holds(unit, subs, suggested, data, copies, t)
  BY CommitHeld
<1>2. f = NULL <=> Original(w)[u] = NULL
  BY <1>1 DEF Holds, Within, Original
<1>3. f # NULL => ~f.obsolete
  <2>1. DoneFile(t.req.file)
    BY <1>1 DEF SettledInv, SettledTx, Uploads
  <2> QED BY <2>1 DEF DoneFile, Done
<1> QED BY <1>2, <1>3 DEF Gone

\* With one worker, and as long as nothing is marked as needing work, an upload
\* leaves alone what the translator did not change: whatever was made of the unit
\* online since the file was downloaded is not taken back.  Uploads may add and
\* remove units if there are no comments.
THEOREM OthersStayAsTheyAre ==
  ASSUME \A v, w \in Workers : v = w, Fuzzy \subseteq {FALSE},
         Allow = FALSE \/ Comments = {""}
  PROVE  Spec => OnlyOfflineChangesUploaded
<1>1. Alone /\ NoFuzzy /\ Allow \in BOOLEAN
  BY OptionsAssumption DEF Alone, NoFuzzy
<1>2. CASE Allow = FALSE
  BY <1>1, <1>2, OthersStayTranslated DEF TargetsOnly
<1>3. CASE Allow # FALSE
  <2>1. NoComments /\ Allow
    BY <1>1, <1>3, Zenon DEF NoComments
  <2>2. ASSUME TypeInv, AloneInv, DownloadInv, SettledInv, HeldInv, [Next]_vars,
               NEW w \in Workers, Uploaded(w), NEW u \in Units,
               ~ChangedOffline(w, u), ~(BroughtBack(w, u) /\ tx[w].req.wins = "source")
        PROVE  Exported(unit')[u] = Exported(unit)[u]
    <3> DEFINE t == tx[w]
               since == copies[t.req.copy].rev
    <3>1. Stays(unit[u], unit'[u], t.req.file[u], Original(w)[u], since, t.req.wins)
      BY <1>1, <2>1, <2>2, CommitTakes
    <3>2. ExportOne(unit'[u]) = ExportOne(unit[u])
      BY <2>2, <3>1 DEF Stays, ChangedOffline, BroughtBack
    <3> QED BY <3>2, ExportedOne
  <2>3. TypeInv /\ AloneInv /\ DownloadInv /\ SettledInv /\ HeldInv /\ [Next]_vars =>
          [\A w \in Workers : Uploaded(w) =>
             \A u \in Units :
               /\ ~ChangedOffline(w, u) /\ CommentsAgree(w, u)
               /\ ~(BroughtBack(w, u) /\ tx[w].req.wins = "source")
               => Exported(unit')[u] = Exported(unit)[u]]_vars
    BY <2>2
  <2>4. Spec => []AloneInv /\ []DownloadInv /\ []SettledInv /\ []HeldInv
    BY <1>1, AloneHolds, DownloadHolds, SettledHolds, HeldHolds, PTL
  <2> QED BY <2>3, <2>4, Typed, PTL DEF Spec, OnlyOfflineChangesUploaded
<1> QED BY <1>2, <1>3

\* With one worker, nothing marked as needing work and no comments, the units that
\* the translator adds arrive, and those that he removes become obsolete unless
\* they were changed online and Pootle wins.
THEOREM StructureIsTaken ==
  ASSUME \A v, w \in Workers : v = w, Fuzzy \subseteq {FALSE},
         Allow = FALSE \/ Comments = {""}
  PROVE  Spec => StructureArrives
<1>1. Alone /\ NoFuzzy /\ Allow \in BOOLEAN
  BY OptionsAssumption DEF Alone, NoFuzzy
<1>2. ASSUME TypeInv, AloneInv, DownloadInv, SettledInv, HeldInv, [Next]_vars,
             NEW w \in Workers, Uploaded(w), NEW u \in Units
      PROVE  Taken(unit[u], unit'[u], tx[w].req.file[u], Original(w)[u],
                   copies[tx[w].req.copy].rev, tx[w].req.wins)
  <2>1. CASE Allow = FALSE
    <3>1. /\ ~Gone(tx[w].req.file[u]) => Original(w)[u] # NULL
          /\ Gone(tx[w].req.file[u]) => Original(w)[u] = NULL
      BY <1>1, <1>2, <2>1, NoneTaken
    <3> QED BY <3>1 DEF Taken
  <2>2. CASE Allow # FALSE
    <3>1. NoComments /\ Allow
      BY <1>1, <2>2, Zenon DEF NoComments
    <3> QED BY <1>1, <1>2, <3>1, CommitTakes
  <2> QED BY <2>1, <2>2
<1>3. ASSUME TypeInv, AloneInv, DownloadInv, SettledInv, HeldInv, [Next]_vars,
             NEW w \in Workers, Uploaded(w), NEW u \in Units
      PROVE  LET mine == tx[w].req.file[u]
                 gone == mine = NULL \/ (mine # NULL /\ mine.obsolete)
                 touched == unit[u].revision > copies[tx[w].req.copy].rev
                 pootleWins == tx[w].req.wins = "pootle"
             IN /\ ~gone /\ Original(w)[u] = NULL /\ unit[u] = NULL
                  => Exported(unit')[u] = mine
                /\ gone /\ Original(w)[u] # NULL /\ Live(unit[u])
                  => /\ (touched /\ pootleWins) \/ ~Live(unit'[u])
                     /\ ChangedOnline(w, u) /\ pootleWins
                          => Exported(unit')[u] = Exported(unit)[u]
  <2>1. Taken(unit[u], unit'[u], tx[w].req.file[u], Original(w)[u],
              copies[tx[w].req.copy].rev, tx[w].req.wins)
    BY <1>2, <1>3
  <2>2. /\ Exported(unit')[u] = ExportOne(unit'[u])
        /\ Exported(unit)[u] = ExportOne(unit[u])
    BY ExportedOne
  <2> QED BY <2>1, <2>2, Zenon DEF Taken, Gone, ChangedOnline
<1>4. TypeInv /\ AloneInv /\ DownloadInv /\ SettledInv /\ HeldInv /\ [Next]_vars =>
        [\A w \in Workers : Uploaded(w) =>
           \A u \in Units :
             LET mine == tx[w].req.file[u]
                 gone == mine = NULL \/ (mine # NULL /\ mine.obsolete)
                 touched == unit[u].revision > copies[tx[w].req.copy].rev
                 pootleWins == tx[w].req.wins = "pootle"
             IN /\ ~gone /\ Original(w)[u] = NULL /\ unit[u] = NULL
                  => Exported(unit')[u] = mine
                /\ gone /\ Original(w)[u] # NULL /\ Live(unit[u])
                  => /\ (touched /\ pootleWins) \/ ~Live(unit'[u])
                     /\ ChangedOnline(w, u) /\ pootleWins
                          => Exported(unit')[u] = Exported(unit)[u]]_vars
  BY <1>3
<1>5. Spec => []AloneInv /\ []DownloadInv /\ []SettledInv /\ []HeldInv
  BY <1>1, AloneHolds, DownloadHolds, SettledHolds, HeldHolds, PTL
<1> QED BY <1>4, <1>5, Typed, PTL DEF Spec, StructureArrives

\* With one worker and nothing marked as needing work, what the translator changed
\* of a unit that nobody changed online arrives as it is in the file, or the unit
\* becomes obsolete as it is there.
THEOREM ChangesArrive ==
  ASSUME \A v, w \in Workers : v = w, Fuzzy \subseteq {FALSE},
         Allow = FALSE \/ Comments = {""}
  PROVE  Spec => OfflineChangesArrive
<1>1. Alone /\ NoFuzzy /\ Allow \in BOOLEAN
  BY OptionsAssumption DEF Alone, NoFuzzy
<1>2. CASE Allow = FALSE
  BY <1>1, <1>2, ChangesArriveTranslated DEF TargetsOnly
<1>3. CASE Allow # FALSE
  <2>1. NoComments /\ Allow
    BY <1>1, <1>3, Zenon DEF NoComments
  <2>2. ASSUME TypeInv, AloneInv, DownloadInv, SettledInv, HeldInv, [Next]_vars,
               NEW w \in Workers, Uploaded(w), NEW u \in Units,
               BothHave(w, u), CommentsAgree(w, u), ChangedOffline(w, u), ~ChangedOnline(w, u)
        PROVE  \/ Convert(unit'[u]) = tx[w].req.file[u]
               \/ tx[w].req.file[u].obsolete /\ ~Live(unit'[u])
    <3> DEFINE x == unit[u]
               y == unit'[u]
               f == tx[w].req.file[u]
               orig == Original(w)[u]
    <3>1. Settles(u, x, y, f, orig, tx[w].req.wins, suggested')
      BY <1>1, <2>1, <2>2, CommitTakes
    <3>2. HaveAll(x, f, orig) /\ f # orig
      BY <2>2 DEF BothHave, ChangedOffline, CommentsAgree, HaveAll, Live
    <3>3. Convert(x) = orig
      <4>1. Exported(unit)[u] = orig
        BY <2>2 DEF ChangedOnline
      <4> QED BY <3>2, <4>1, ExportedOne DEF ExportOne, HaveAll
    <3> HIDE DEF x, y, f, orig
    <3>4. Convert(y) = f \/ (f.obsolete /\ ~Live(y))
      BY <3>1, <3>2, <3>3 DEF Settles, ArrivedOrGone, HaveAll
    <3> QED BY <3>4 DEF y, f
  <2>3. TypeInv /\ AloneInv /\ DownloadInv /\ SettledInv /\ HeldInv /\ [Next]_vars =>
          [\A w \in Workers : Uploaded(w) =>
             \A u \in Units :
               BothHave(w, u) /\ CommentsAgree(w, u) /\ ChangedOffline(w, u) /\ ~ChangedOnline(w, u)
                 => \/ Convert(unit'[u]) = tx[w].req.file[u]
                    \/ tx[w].req.file[u].obsolete /\ ~Live(unit'[u])]_vars
    BY <2>2
  <2>4. Spec => []AloneInv /\ []DownloadInv /\ []SettledInv /\ []HeldInv
    BY <1>1, AloneHolds, DownloadHolds, SettledHolds, HeldHolds, PTL
  <2> QED BY <2>3, <2>4, Typed, PTL DEF Spec, OfflineChangesArrive
<1> QED BY <1>2, <1>3

\* With one worker and nothing marked as needing work, of a target that was changed
\* both online and offline one wins, and the other one is a suggestion unless it is
\* empty.
THEOREM LosersAreSuggested ==
  ASSUME \A v, w \in Workers : v = w, Fuzzy \subseteq {FALSE},
         Allow = FALSE \/ Comments = {""}
  PROVE  Spec => LoserSuggested
<1>1. Alone /\ NoFuzzy /\ Allow \in BOOLEAN
  BY OptionsAssumption DEF Alone, NoFuzzy
<1>2. CASE Allow = FALSE
  BY <1>1, <1>2, LosersSuggestedTranslated DEF TargetsOnly
<1>3. CASE Allow # FALSE
  <2> DEFINE empty == ""
  <2> HIDE DEF empty
  <2>1. NoComments /\ Allow
    BY <1>1, <1>3, Zenon DEF NoComments
  <2>2. ASSUME TypeInv, AloneInv, DownloadInv, SettledInv, HeldInv, [Next]_vars,
               NEW w \in Workers, Uploaded(w), NEW u \in Units, BothHave(w, u),
               CommentsAgree(w, u),
               Original(w)[u].target # tx[w].req.file[u].target,
               Original(w)[u].target # unit[u].target,
               tx[w].req.file[u].target # unit[u].target
        PROVE  LET lost == IF tx[w].req.wins = "pootle" THEN tx[w].req.file[u].target
                           ELSE unit[u].target
               IN /\ unit'[u].target = IF tx[w].req.wins = "pootle" THEN unit[u].target
                                       ELSE tx[w].req.file[u].target
                  /\ lost # empty => <<u, lost>> \in suggested'
    <3> DEFINE x == unit[u]
               y == unit'[u]
               f == tx[w].req.file[u]
               orig == Original(w)[u]
               wins == tx[w].req.wins
    <3>1. Settles(u, x, y, f, orig, wins, suggested')
      BY <1>1, <2>1, <2>2, CommitTakes
    <3>2. HaveAll(x, f, orig)
      BY <2>2 DEF BothHave, CommentsAgree, HaveAll, Live
    <3>3. orig.target # f.target /\ orig.target # x.target /\ f.target # x.target
      BY <2>2
    <3> HIDE DEF x, y, f, orig, wins
    <3>4. LET lost == IF wins = "pootle" THEN f.target ELSE x.target
          IN /\ y.target = IF wins = "pootle" THEN x.target ELSE f.target
             /\ lost # empty => <<u, lost>> \in suggested'
      <4>1. Decided(u, x, y, f, orig, wins, suggested')
        BY <3>1, <3>2 DEF Settles, HaveAll
      <4> QED BY <3>2, <3>3, <4>1, Zenon DEF Decided, empty
    <3> QED BY <3>4, Zenon DEF x, y, f, wins
  <2>3. TypeInv /\ AloneInv /\ DownloadInv /\ SettledInv /\ HeldInv /\ [Next]_vars =>
          [\A w \in Workers : Uploaded(w) =>
             \A u \in Units :
               LET mine == tx[w].req.file[u].target
                   theirs == unit[u].target
                   kept == unit'[u].target
                   lost == IF tx[w].req.wins = "pootle" THEN mine ELSE theirs
               IN /\ BothHave(w, u) /\ CommentsAgree(w, u)
                  /\ Original(w)[u].target \notin {mine, theirs} /\ mine # theirs
                  => /\ kept = IF tx[w].req.wins = "pootle" THEN theirs ELSE mine
                     /\ lost # empty => <<u, lost>> \in suggested']_vars
    BY <2>2
  <2>4. Spec => []AloneInv /\ []DownloadInv /\ []SettledInv /\ []HeldInv
    BY <1>1, AloneHolds, DownloadHolds, SettledHolds, HeldHolds, PTL
  <2> QED BY <2>3, <2>4, Typed, PTL DEF Spec, LoserSuggested, empty
<1> QED BY <1>2, <1>3
=============================================================================
