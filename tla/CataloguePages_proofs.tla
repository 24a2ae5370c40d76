------------------------ MODULE CataloguePages_proofs ------------------------
(***************************************************************************)
(* What the catalogue keeps through imports that race, fail and start over,*)
(* and what a browser that loads it meanwhile may rely on, proved for any  *)
(* number of importers, snapshots and pages.                               *)
(*                                                                         *)
(* Most of it holds whatever the parser makes of a sheet.  That a lone     *)
(* import is exact does not: there the folds over cells and rows are       *)
(* followed step by step (FoldExists, Lists), and a snapshot's rows are    *)
(* shown to be what its sheet says column by column.                       *)
(***************************************************************************)
EXTENDS CataloguePages, Lists

\* The catalogue is a table: its ids are 1, 2, ..., and each row has the columns
\* of a volcano.
IsTable ==
  /\ catalogue \in Seq(Range(catalogue))
  /\ \A i \in DOMAIN catalogue :
        /\ catalogue[i] = [ref |-> catalogue[i].ref, content |-> catalogue[i].content,
                           absent |-> catalogue[i].absent]
        /\ catalogue[i].absent \in BOOLEAN

CatalogueInv == IsTable /\ OneRowPerVolcano

\* What any step may do to the catalogue: every id stays with its volcano.
IdsStay ==
  \A i \in DOMAIN catalogue :
     i \in DOMAIN catalogue' /\ catalogue'[i].ref = catalogue[i].ref

----------------------------------------------------------------------------
LEMMA InsertKeepsCatalogue ==
  ASSUME CatalogueInv, NEW p \in Importer, Insert(p)
  PROVE  CatalogueInv' /\ IdsStay
<1> DEFINE row == Present(Row(p).ref, Row(p).content)
           n == Len(catalogue)
<1>1. /\ catalogue \in Seq(Range(catalogue)) /\ n \in Nat /\ DOMAIN catalogue = 1..n
      /\ catalogue' = Append(catalogue, row) /\ Stored(Row(p).ref) = {}
  BY DEF CatalogueInv, IsTable, Insert
<1>2. /\ row.ref = Row(p).ref /\ row.absent \in BOOLEAN
      /\ row = [ref |-> row.ref, content |-> row.content, absent |-> row.absent]
      /\ \A i \in DOMAIN catalogue : catalogue[i].ref # row.ref
  BY <1>1 DEF Present, Stored
<1> HIDE DEF row
<1>3. /\ catalogue \in Seq(Range(catalogue) \cup {row})
      /\ DOMAIN catalogue' = 1..(n + 1)
      /\ catalogue'[n + 1] = row /\ \A i \in 1..n : catalogue'[i] = catalogue[i]
  BY <1>1
<1>4. catalogue' \in Seq(Range(catalogue'))
  <2>1. Range(catalogue') = {catalogue'[i] : i \in 1..(n + 1)}
    BY <1>3 DEF Range
  <2>2. catalogue' \in Seq(Range(catalogue) \cup {row})
    BY <1>1, <1>3
  <2>3. catalogue' = [i \in 1..(n + 1) |-> catalogue'[i]]
    BY <1>3, <2>2
  <2> QED BY <1>1, <2>1, <2>3
<1>5. IsTable'
  BY <1>1, <1>2, <1>3, <1>4 DEF CatalogueInv, IsTable
<1>6. OneRowPerVolcano'
  BY <1>1, <1>2, <1>3 DEF CatalogueInv, OneRowPerVolcano
<1>7. IdsStay
  BY <1>1, <1>3 DEF IdsStay
<1> QED BY <1>5, <1>6, <1>7 DEF CatalogueInv

\* A table whose rows are rewritten in place.
LEMMA RewriteKeepsCatalogue ==
  ASSUME CatalogueInv, NEW new,
         catalogue' = [i \in DOMAIN catalogue |-> new[i]],
         \A i \in DOMAIN catalogue :
            /\ new[i] = [ref |-> new[i].ref, content |-> new[i].content, absent |-> new[i].absent]
            /\ new[i].ref = catalogue[i].ref /\ new[i].absent \in BOOLEAN
  PROVE  CatalogueInv' /\ IdsStay
<1>1. /\ Len(catalogue) \in Nat /\ DOMAIN catalogue = 1..Len(catalogue)
  BY DEF CatalogueInv, IsTable
<1>2. DOMAIN catalogue' = DOMAIN catalogue /\ \A i \in DOMAIN catalogue : catalogue'[i] = new[i]
  OBVIOUS
<1>3. catalogue' \in Seq(Range(catalogue'))
  <2>1. Range(catalogue') = {catalogue'[i] : i \in 1..Len(catalogue)}
    BY <1>1, <1>2 DEF Range
  <2>2. catalogue' = [i \in 1..Len(catalogue) |-> catalogue'[i]]
    BY <1>1, <1>2
  <2> QED BY <1>1, <2>1, <2>2
<1>4. IsTable'
  <2>1. \A i \in DOMAIN catalogue' :
           /\ catalogue'[i] = [ref |-> catalogue'[i].ref, content |-> catalogue'[i].content,
                               absent |-> catalogue'[i].absent]
           /\ catalogue'[i].absent \in BOOLEAN
    <3> SUFFICES ASSUME NEW i \in DOMAIN catalogue
                 PROVE  /\ catalogue'[i] = [ref |-> catalogue'[i].ref,
                                            content |-> catalogue'[i].content,
                                            absent |-> catalogue'[i].absent]
                        /\ catalogue'[i].absent \in BOOLEAN
      BY <1>2
    <3>1. catalogue'[i] = new[i]
      BY <1>2
    <3> QED BY <3>1, Zenon
  <2> QED BY <1>3, <2>1 DEF IsTable
<1>5. OneRowPerVolcano'
  <2>1. \A i \in DOMAIN catalogue : catalogue'[i].ref = catalogue[i].ref
    BY <1>2
  <2>2. \A i, j \in DOMAIN catalogue : catalogue[i].ref = catalogue[j].ref => i = j
    BY DEF CatalogueInv, OneRowPerVolcano
  <2>3. \A i, j \in DOMAIN catalogue' : catalogue'[i].ref = catalogue'[j].ref => i = j
    <3> SUFFICES ASSUME NEW i \in DOMAIN catalogue, NEW j \in DOMAIN catalogue,
                        catalogue'[i].ref = catalogue'[j].ref
                 PROVE  i = j
      BY <1>2
    <3>1. catalogue[i].ref = catalogue[j].ref
      BY <2>1
    <3> QED BY <3>1, <2>2
  <2> QED BY <2>3 DEF OneRowPerVolcano
<1> QED BY <1>2, <1>4, <1>5 DEF CatalogueInv, IdsStay

LEMMA UpdateKeepsCatalogue ==
  ASSUME CatalogueInv, NEW p \in Importer, Update(p)
  PROVE  CatalogueInv' /\ IdsStay
<1>1. PICK i \in Stored(Row(p).ref) :
         catalogue' = [catalogue EXCEPT ![i] = Present(Row(p).ref, Row(p).content)]
  BY DEF Update
<1> DEFINE row == Present(Row(p).ref, Row(p).content)
           new == [catalogue EXCEPT ![i] = row]
<1>2. /\ i \in DOMAIN catalogue /\ catalogue[i].ref = row.ref /\ row.absent \in BOOLEAN
      /\ row = [ref |-> row.ref, content |-> row.content, absent |-> row.absent]
  BY DEF Stored, Present
<1>3. catalogue' = new
  BY <1>1
<1> HIDE DEF row
<1>4. /\ DOMAIN new = DOMAIN catalogue /\ new[i] = row
      /\ \A j \in DOMAIN catalogue : j # i => new[j] = catalogue[j]
      /\ new = [j \in DOMAIN catalogue |-> new[j]]
  BY <1>2
<1> HIDE DEF new
<1>5. \A j \in DOMAIN catalogue :
            /\ new[j] = [ref |-> new[j].ref, content |-> new[j].content, absent |-> new[j].absent]
            /\ new[j].ref = catalogue[j].ref /\ new[j].absent \in BOOLEAN
  BY <1>2, <1>4 DEF CatalogueInv, IsTable
<1> QED BY <1>3, <1>4, <1>5, RewriteKeepsCatalogue

LEMMA MarkAbsentKeepsCatalogue ==
  ASSUME CatalogueInv, NEW p \in Importer, MarkAbsent(p)
  PROVE  CatalogueInv' /\ IdsStay
<1> DEFINE gone == {i \in DOMAIN catalogue :
                      ~catalogue[i].absent /\ catalogue[i].ref \notin seen[p]}
           new == [i \in DOMAIN catalogue |->
                     [catalogue[i] EXCEPT !.absent = catalogue[i].absent \/ i \in gone]]
<1>1. catalogue' = new
  BY Zenon DEF MarkAbsent
<1>2. ASSUME NEW i \in DOMAIN catalogue
      PROVE  /\ new[i] = [ref |-> new[i].ref, content |-> new[i].content, absent |-> new[i].absent]
             /\ new[i].ref = catalogue[i].ref /\ new[i].absent \in BOOLEAN
  <2> DEFINE mark == catalogue[i].absent \/ i \in gone
  <2>1. mark \in BOOLEAN
    OBVIOUS
  <2>2. new[i] = [catalogue[i] EXCEPT !.absent = mark]
    OBVIOUS
  <2> HIDE DEF mark, new
  <2>3. catalogue[i] = [ref |-> catalogue[i].ref, content |-> catalogue[i].content,
                        absent |-> catalogue[i].absent]
    BY DEF CatalogueInv, IsTable
  <2>4. new[i] = [ref |-> catalogue[i].ref, content |-> catalogue[i].content, absent |-> mark]
    BY <2>2, <2>3
  <2> QED BY <2>1, <2>4
<1>3. new = [i \in DOMAIN catalogue |-> new[i]]
  OBVIOUS
<1> HIDE DEF new
<1> QED BY <1>1, <1>2, <1>3, RewriteKeepsCatalogue

LEMMA IdleKeepsCatalogue ==
  ASSUME CatalogueInv, catalogue' = catalogue
  PROVE  CatalogueInv' /\ IdsStay
  BY DEF CatalogueInv, IsTable, OneRowPerVolcano, IdsStay

LEMMA CatalogueStart == Init => CatalogueInv
  BY DEF Init, ImportInit, CatalogueInv, IsTable, OneRowPerVolcano, Range

LEMMA CatalogueStep == CatalogueInv /\ [Next]_allVars => CatalogueInv' /\ IdsStay
<1> SUFFICES ASSUME CatalogueInv, [Next]_allVars PROVE CatalogueInv' /\ IdsStay
  OBVIOUS
<1>1. ASSUME NEW s \in DOMAIN Snapshots, ReplaceSnapshot(s) PROVE catalogue' = catalogue
  BY <1>1 DEF ReplaceSnapshot
<1>2. CASE UpdateManifest
  BY <1>2, IdleKeepsCatalogue DEF UpdateManifest
<1>3. ASSUME NEW p \in Importer, Import(p)
      PROVE  CatalogueInv' /\ IdsStay
  <2>1. CASE Insert(p)
    BY <2>1, InsertKeepsCatalogue
  <2>2. CASE Update(p)
    BY <2>2, UpdateKeepsCatalogue
  <2>3. CASE MarkAbsent(p)
    BY <2>3, MarkAbsentKeepsCatalogue
  <2>4. CASE VerifyChecksum(p) \/ ReadSnapshot(p) \/ RejectRow(p) \/ LookUpUnchanged(p)
             \/ LookUpChanged(p) \/ Abort(p)
    BY <2>4, IdleKeepsCatalogue
    DEF VerifyChecksum, ReadSnapshot, RejectRow, LookUpUnchanged, LookUpChanged, Abort
  <2> QED BY <1>3, <2>1, <2>2, <2>3, <2>4 DEF Import
<1>4. CASE StartWalk \/ FetchPage \/ FailWalk \/ UNCHANGED allVars
  BY <1>4, IdleKeepsCatalogue DEF StartWalk, FetchPage, FailWalk, vars, allVars
<1>5. CASE ImportNext
  BY <1>1, <1>2, <1>3, <1>5, IdleKeepsCatalogue DEF ImportNext
<1> QED BY <1>4, <1>5 DEF Next, ImportStep

\* A volcano has one row, even when two imports both find it missing
\* (volcano.Upsert and UNIQUE (source_id, source_ref)).
THEOREM OneRowForEach == Spec => []OneRowPerVolcano
<1>1. CatalogueInv => OneRowPerVolcano
  BY DEF CatalogueInv
<1> QED BY <1>1, CatalogueStart, CatalogueStep, PTL DEF Spec

\* An id stays with its volcano through every import, complete or broken off
\* (volcano.Upsert updates in place, MarkAbsent never deletes).
THEOREM IdentityIsKept == Spec => IdentityKept
<1>1. CatalogueInv /\ [Next]_allVars =>
        [\A i \in DOMAIN catalogue :
            i \in DOMAIN catalogue' /\ catalogue'[i].ref = catalogue[i].ref]_catalogue
  BY CatalogueStep DEF IdsStay
<1> QED BY <1>1, CatalogueStart, CatalogueStep, PTL DEF Spec, IdentityKept
----------------------------------------------------------------------------
(* The load.                                                               *)

Load == [stage : {"idle", "loading", "loaded", "failed"}, cursor : Nat, pages : Nat,
         shown : Seq(Nat), kept : SUBSET Nat]

\* Ids are shown in their order, up to the cursor.
ShownInOrder ==
  /\ \A k, l \in DOMAIN walk.shown : k < l => walk.shown[k] < walk.shown[l]
  /\ walk.stage = "loading" => \A k \in DOMAIN walk.shown : walk.shown[k] <= walk.cursor

\* Of what never went away, what lies up to the cursor is shown.
KeptIsShown ==
  /\ walk.kept \subseteq PresentIds
  /\ walk.stage = "loading" => \A i \in walk.kept : i <= walk.cursor => i \in Range(walk.shown)
  /\ walk.stage = "loaded" => walk.kept \subseteq Range(walk.shown)

LoadInv == CatalogueInv /\ walk \in Load /\ ShownInOrder /\ KeptIsShown

LEMMA PresentFacts ==
  ASSUME CatalogueInv
  PROVE  PresentIds \in SUBSET Nat /\ IsFiniteSet(PresentIds) /\ PresentIds \subseteq DOMAIN catalogue
<1>1. Len(catalogue) \in Nat /\ DOMAIN catalogue = 1..Len(catalogue)
  BY DEF CatalogueInv, IsTable
<1>2. IsFiniteSet(1..Len(catalogue)) /\ PresentIds \subseteq 1..Len(catalogue)
  BY <1>1, FS_Interval DEF PresentIds
<1>3. IsFiniteSet(PresentIds)
  BY <1>2, FS_Subset
<1>4. PresentIds \subseteq Nat
  BY <1>1, <1>2
<1> QED BY <1>1, <1>2, <1>3, <1>4

LEMMA LoadFacts ==
  ASSUME walk \in Load
  PROVE  /\ walk.cursor \in Nat /\ walk.pages \in Nat /\ walk.kept \subseteq Nat
         /\ walk.shown \in Seq(Nat) /\ Len(walk.shown) \in Nat
         /\ DOMAIN walk.shown = 1..Len(walk.shown)
<1>1. walk.cursor \in Nat /\ walk.pages \in Nat /\ walk.kept \subseteq Nat
      /\ walk.shown \in Seq(Nat)
  BY DEF Load
<1> QED BY <1>1

\* The ids the next page is taken from.
ToCome == {i \in PresentIds : i > walk.cursor}

\* A page holds ids beyond the cursor, in order; what it leaves out comes after.
LEMMA LoadPage ==
  ASSUME CatalogueInv, walk \in Load, NEW page, page = List
  PROVE  /\ page \in Seq(Nat) /\ Len(page) \in Nat /\ DOMAIN page = 1..Len(page)
         /\ \A k \in 1..Len(page) : page[k] > walk.cursor
         /\ \A k, l \in 1..Len(page) : k < l => page[k] < page[l]
         /\ \A i \in PresentIds : i > walk.cursor =>
               \/ \E k \in 1..Len(page) : page[k] = i
               \/ Len(page) = Limit /\ \A k \in 1..Len(page) : page[k] < i
<1> DEFINE rank == [i \in DOMAIN catalogue |-> 0]
<1>1. page = FirstBy(ToCome, rank, Limit)
  BY Zenon DEF List, ToCome
<1>2. /\ ToCome \in SUBSET Nat /\ IsFiniteSet(ToCome) /\ ToCome \subseteq DOMAIN catalogue
      /\ \A i \in ToCome : i > walk.cursor
      /\ \A i \in PresentIds : i > walk.cursor => i \in ToCome
  BY PresentFacts, LoadFacts, FS_Subset DEF ToCome
<1>3. \A i \in ToCome : rank[i] = 0
  BY <1>2
<1> HIDE DEF rank
<1>4. \A i \in ToCome : rank[i] \in Int
  BY <1>3
<1>5. \A i, j \in ToCome : RanksBefore(rank, i, j) <=> i < j
  BY <1>3 DEF RanksBefore
<1>6. /\ page \in Seq(ToCome) /\ Len(page) \in Nat
      /\ \A k, l \in 1..Len(page) : k < l => RanksBefore(rank, page[k], page[l])
      /\ \A i \in ToCome : \/ \E k \in 1..Len(page) : page[k] = i
                          \/ /\ Len(page) = Limit
                             /\ \A k \in 1..Len(page) : RanksBefore(rank, page[k], i)
  BY <1>1, <1>2, <1>4, PagesAssumption, FirstByPage
<1>7. \A k \in 1..Len(page) : page[k] \in ToCome
  BY <1>6
<1>8. ToCome \subseteq Nat
  BY <1>2
<1>9. page \in Seq(Nat)
  <2>1. page \in Seq(ToCome) /\ Len(page) \in Nat
    BY <1>6
  <2>2. page = [k \in 1..Len(page) |-> page[k]]
    BY <2>1
  <2>3. \A k \in 1..Len(page) : page[k] \in Nat
    BY <1>7, <1>8
  <2> QED BY <2>1, <2>2, <2>3
<1>10. \A i \in PresentIds : i > walk.cursor =>
          \/ \E k \in 1..Len(page) : page[k] = i
          \/ Len(page) = Limit /\ \A k \in 1..Len(page) : page[k] < i
  <2> SUFFICES ASSUME NEW i \in PresentIds, i > walk.cursor
               PROVE  \/ \E k \in 1..Len(page) : page[k] = i
                      \/ Len(page) = Limit /\ \A k \in 1..Len(page) : page[k] < i
    OBVIOUS
  <2>1. i \in ToCome
    BY DEF ToCome
  <2>2. \A k \in 1..Len(page) : RanksBefore(rank, page[k], i) => page[k] < i
    BY <1>5, <1>7, <2>1
  <2> QED BY <1>6, <2>1, <2>2
<1>11. /\ \A k \in 1..Len(page) : page[k] > walk.cursor
       /\ \A k, l \in 1..Len(page) : k < l => page[k] < page[l]
  BY <1>2, <1>5, <1>6, <1>7
<1> QED BY <1>6, <1>9, <1>10, <1>11

LEMMA FetchKeepsLoad ==
  ASSUME LoadInv, FetchPage
  PROVE  LoadInv'
<1> DEFINE page == List
           shown == walk.shown
           n == Len(shown)
           full == Len(page) = Limit
           cursor == IF full THEN page[Limit] ELSE walk.cursor
           stage == CASE ~full                      -> "loaded"
                      [] walk.pages + 1 = MaxPages  -> "failed"
                      [] OTHER                      -> "loading"
<1>1. CatalogueInv /\ walk \in Load /\ ShownInOrder /\ KeptIsShown
  BY DEF LoadInv
<1>2. /\ walk.stage = "loading" /\ catalogue' = catalogue
      /\ walk' = [walk EXCEPT !.shown = shown \o page, !.pages = walk.pages + 1,
                              !.cursor = cursor, !.stage = stage]
  BY Zenon DEF FetchPage, HasNext, vars
<1>3. /\ page \in Seq(Nat) /\ Len(page) \in Nat /\ DOMAIN page = 1..Len(page)
      /\ \A k \in 1..Len(page) : page[k] > walk.cursor
      /\ \A k, l \in 1..Len(page) : k < l => page[k] < page[l]
      /\ \A i \in PresentIds : i > walk.cursor =>
               \/ \E k \in 1..Len(page) : page[k] = i
               \/ Len(page) = Limit /\ \A k \in 1..Len(page) : page[k] < i
  BY <1>1, LoadPage
<1>4. /\ walk.cursor \in Nat /\ walk.pages \in Nat
      /\ shown \in Seq(Nat) /\ n \in Nat /\ DOMAIN shown = 1..n
  BY <1>1, LoadFacts
<1>5. full => Len(page) = Limit /\ Limit \in 1..Len(page) /\ cursor = page[Limit]
  BY PagesAssumption
<1>6. cursor \in Nat /\ stage \in {"loading", "loaded", "failed"}
  <2>1. cursor \in Nat
    BY <1>3, <1>4, <1>5
  <2>2. stage \in {"loading", "loaded", "failed"}
    OBVIOUS
  <2> QED BY <2>1, <2>2
<1>7. (stage = "loaded" => ~full) /\ (stage = "loading" => full)
  OBVIOUS
<1> HIDE DEF page, cursor, stage
<1>8. /\ walk' \in Load /\ walk'.shown = shown \o page /\ walk'.cursor = cursor
      /\ walk'.stage = stage /\ walk'.kept = walk.kept
  <2>1. shown \o page \in Seq(Nat) /\ walk.pages + 1 \in Nat
    BY <1>3, <1>4
  <2>2. stage \in {"idle", "loading", "loaded", "failed"}
    BY <1>6
  <2> HIDE DEF shown
  <2> QED BY <1>1, <1>2, <1>6, <2>1, <2>2 DEF Load
<1>9. /\ DOMAIN walk'.shown = 1..(n + Len(page))
      /\ \A k \in 1..n : walk'.shown[k] = shown[k]
      /\ \A k \in 1..Len(page) : /\ n + k \in 1..(n + Len(page))
                                 /\ walk'.shown[n + k] = page[k]
      /\ \A k \in 1..(n + Len(page)) : k > n =>
            k - n \in 1..Len(page) /\ walk'.shown[k] = page[k - n]
  BY <1>3, <1>4, <1>8
<1>10. \A k \in 1..n : shown[k] \in Nat /\ shown[k] <= walk.cursor
  BY <1>1, <1>2, <1>4 DEF ShownInOrder
<1>11. ShownInOrder'
  <2>0. Len(page) \in Nat /\ \A k \in 1..(n + Len(page)) : k \in Nat \ {0}
    BY <1>3, <1>4
  <2>1. ASSUME NEW k \in 1..(n + Len(page)), NEW l \in 1..(n + Len(page)), k < l
        PROVE  walk'.shown[k] < walk'.shown[l]
    <3>1. CASE l <= n
      <4>1. k \in 1..n /\ l \in 1..n
        BY <1>4, <2>0, <2>1, <3>1
      <4>2. walk'.shown[k] = shown[k] /\ walk'.shown[l] = shown[l]
        BY <1>9, <4>1
      <4> QED BY <1>1, <1>4, <2>1, <4>1, <4>2 DEF ShownInOrder
    <3>2. CASE k <= n /\ l > n
      <4>1. /\ walk'.shown[k] = shown[k] /\ shown[k] \in Nat /\ shown[k] <= walk.cursor
            /\ walk'.shown[l] = page[l - n] /\ l - n \in 1..Len(page)
        BY <1>9, <1>10, <2>1, <3>2
      <4>2. page[l - n] \in Nat /\ page[l - n] > walk.cursor
        BY <1>3, <4>1
      <4> QED BY <1>4, <4>1, <4>2
    <3>3. CASE k > n
      <4>1. /\ walk'.shown[k] = page[k - n] /\ k - n \in 1..Len(page)
            /\ walk'.shown[l] = page[l - n] /\ l - n \in 1..Len(page) /\ k - n < l - n
        BY <1>4, <1>9, <2>1, <3>3
      <4> QED BY <1>3, <4>1
    <3> QED BY <1>4, <2>1, <3>1, <3>2, <3>3
  <2>2. ASSUME full, NEW k \in 1..(n + Len(page))
        PROVE  walk'.shown[k] <= cursor
    <3>1. cursor = page[Limit] /\ Limit = Len(page) /\ Limit \in 1..Len(page)
          /\ cursor > walk.cursor
      BY <1>3, <1>5, <2>2
    <3>2. CASE k <= n
      <4>1. k \in 1..n
        BY <1>4, <2>0, <3>2
      <4>2. walk'.shown[k] = shown[k] /\ shown[k] \in Nat /\ shown[k] <= walk.cursor
        BY <1>9, <1>10, <4>1
      <4> QED BY <1>4, <1>6, <3>1, <4>2
    <3>3. CASE k > n
      <4>1. walk'.shown[k] = page[k - n] /\ k - n \in 1..Len(page)
        BY <1>9, <3>3
      <4>2. k - n = Limit \/ page[k - n] < page[Limit]
        <5>1. k - n \in Nat /\ Limit \in Nat /\ k - n <= Limit
          BY <1>4, <2>0, <3>1, <4>1
        <5>2. k - n < Limit => page[k - n] < page[Limit]
          BY <1>3, <3>1, <4>1
        <5> QED BY <5>1, <5>2
      <4>3. page[k - n] \in Nat /\ page[Limit] \in Nat
        BY <1>3, <3>1, <4>1
      <4> QED BY <3>1, <4>1, <4>2, <4>3
    <3> QED BY <1>4, <3>2, <3>3
  <2> QED BY <1>7, <1>8, <1>9, <2>1, <2>2 DEF ShownInOrder
<1>12. /\ \A i \in Range(shown) : i \in Range(walk'.shown)
       /\ \A k \in 1..Len(page) : page[k] \in Range(walk'.shown)
  <2>1. /\ Range(shown) = {shown[k] : k \in 1..n}
        /\ Range(walk'.shown) = {walk'.shown[k] : k \in 1..(n + Len(page))}
    BY <1>4, <1>9 DEF Range
  <2>2. \A k \in 1..n : k \in 1..(n + Len(page))
    BY <1>3, <1>4
  <2> QED BY <1>9, <2>1, <2>2
<1>13. KeptIsShown'
  <2>1. PresentIds' = PresentIds /\ walk.kept \subseteq PresentIds
    BY <1>1, <1>2 DEF PresentIds, KeptIsShown
  <2>2. ASSUME NEW i \in walk.kept, ~full \/ i <= cursor
        PROVE  i \in Range(walk'.shown)
    <3>1. CASE i <= walk.cursor
      BY <1>1, <1>2, <1>12, <3>1 DEF KeptIsShown
    <3>2. CASE ~(i <= walk.cursor)
      <4>1. i \in PresentIds /\ i \in Nat /\ i > walk.cursor
        BY <1>1, <1>4, <2>1, <3>2, PresentFacts
      <4>2. \/ \E k \in 1..Len(page) : page[k] = i
            \/ full /\ \A k \in 1..Len(page) : page[k] < i
        BY <1>3, <4>1
      <4>3. ~(full /\ \A k \in 1..Len(page) : page[k] < i)
        BY <1>3, <1>5, <1>6, <2>2, <4>1
      <4> QED BY <1>12, <4>2, <4>3
    <3> QED BY <3>1, <3>2
  <2> QED BY <1>7, <1>8, <2>1, <2>2 DEF KeptIsShown
<1>14. CatalogueInv'
  BY <1>1, <1>2, IdleKeepsCatalogue
<1> QED BY <1>8, <1>11, <1>13, <1>14 DEF LoadInv

LEMMA LoadStart == Init => LoadInv
<1> SUFFICES ASSUME Init PROVE LoadInv
  OBVIOUS
<1>1. walk = NoWalk
  BY DEF Init
<1>2. NoWalk \in Load /\ NoWalk.shown = <<>> /\ NoWalk.kept = {} /\ NoWalk.stage = "idle"
  BY DEF NoWalk, Load
<1>3. ShownInOrder /\ KeptIsShown
  BY <1>1, <1>2 DEF ShownInOrder, KeptIsShown
<1> QED BY <1>1, <1>2, <1>3, CatalogueStart DEF LoadInv

LEMMA LoadStep == LoadInv /\ [Next]_allVars => LoadInv'
<1> SUFFICES ASSUME LoadInv, [Next]_allVars PROVE LoadInv'
  OBVIOUS
<1>0. /\ CatalogueInv /\ walk \in Load /\ ShownInOrder /\ KeptIsShown
      /\ CatalogueInv' /\ IdsStay
  BY CatalogueStep DEF LoadInv
<1>1. CASE ImportStep
  <2> DEFINE kept == {i \in walk.kept : ~catalogue'[i].absent}
  <2>1. walk' = [walk EXCEPT !.kept = kept]
    BY <1>1 DEF ImportStep
  <2>2. kept \subseteq walk.kept /\ kept \subseteq Nat
    BY <1>0, LoadFacts
  <2>3. kept \subseteq PresentIds'
    BY <1>0 DEF KeptIsShown, PresentIds, IdsStay
  <2> HIDE DEF kept
  <2>4. /\ walk' \in Load /\ walk'.kept = kept /\ walk'.shown = walk.shown
        /\ walk'.stage = walk.stage /\ walk'.cursor = walk.cursor
    BY <1>0, <2>1, <2>2 DEF Load
  <2>5. ShownInOrder'
    BY <1>0, <2>4 DEF ShownInOrder
  <2>6. KeptIsShown'
    BY <1>0, <2>2, <2>3, <2>4 DEF KeptIsShown
  <2> QED BY <1>0, <2>4, <2>5, <2>6 DEF LoadInv
<1>2. CASE StartWalk
  <2>1. walk' = [NoWalk EXCEPT !.stage = "loading", !.kept = PresentIds]
        /\ catalogue' = catalogue
    BY <1>2 DEF StartWalk, vars
  <2>2. NoWalk \in Load /\ NoWalk.shown = <<>> /\ NoWalk.cursor = 0
    BY DEF NoWalk, Load
  <2>3. PresentIds \subseteq Nat /\ \A i \in PresentIds : i > 0
    <3>1. DOMAIN catalogue = 1..Len(catalogue) /\ Len(catalogue) \in Nat
      BY <1>0 DEF CatalogueInv, IsTable
    <3> QED BY <3>1 DEF PresentIds
  <2>4. /\ walk' \in Load /\ walk'.shown = <<>> /\ walk'.cursor = 0
        /\ walk'.stage = "loading" /\ walk'.kept = PresentIds
    BY <2>1, <2>2, <2>3 DEF Load
  <2>5. ShownInOrder'
    BY <2>4 DEF ShownInOrder
  <2>6. PresentIds' = PresentIds
    BY <2>1 DEF PresentIds
  <2>7. KeptIsShown'
    <3>1. \A i \in PresentIds : ~(i <= 0)
      <4> SUFFICES ASSUME NEW i \in PresentIds PROVE ~(i <= 0)
        OBVIOUS
      <4>1. i \in Nat /\ i > 0
        BY <2>3
      <4> QED BY <4>1
    <3>2. \A i \in walk'.kept : ~(i <= walk'.cursor)
      BY <2>4, <3>1, Zenon
    <3> QED BY <2>4, <2>6, <3>2 DEF KeptIsShown
  <2> QED BY <1>0, <2>4, <2>5, <2>7 DEF LoadInv
<1>3. CASE FetchPage
  BY <1>3, FetchKeepsLoad
<1>4. CASE FailWalk
  <2>1. /\ walk' \in Load /\ walk'.stage = "failed" /\ walk'.kept = walk.kept
        /\ walk'.shown = walk.shown /\ PresentIds' = PresentIds
    BY <1>0, <1>4 DEF FailWalk, Load, vars, PresentIds
  <2>2. ShownInOrder' /\ KeptIsShown'
    BY <1>0, <2>1 DEF ShownInOrder, KeptIsShown
  <2> QED BY <1>0, <2>1, <2>2 DEF LoadInv
<1>5. CASE UNCHANGED allVars
  BY <1>0, <1>5 DEF LoadInv, ShownInOrder, KeptIsShown, PresentIds, allVars, vars
<1> QED BY <1>1, <1>2, <1>3, <1>4, <1>5 DEF Next

\* A load that succeeds shows every volcano that was there all the while, and
\* none twice, whatever imports do between its pages (frontend/src/api/client.ts,
\* internal/volcano/list.go).
THEOREM LoadsAreComplete == Spec => []LoadedComplete
<1>1. ASSUME LoadInv PROVE LoadedComplete
  <2>1. /\ walk.shown \in Seq(Nat) /\ DOMAIN walk.shown = 1..Len(walk.shown)
        /\ Len(walk.shown) \in Nat
    BY <1>1, LoadFacts DEF LoadInv
  <2>2. \A k, l \in DOMAIN walk.shown : k < l => walk.shown[k] < walk.shown[l]
    BY <1>1 DEF LoadInv, ShownInOrder
  <2>3. IsInjective(walk.shown)
    <3> SUFFICES ASSUME NEW k \in DOMAIN walk.shown, NEW l \in DOMAIN walk.shown,
                        walk.shown[k] = walk.shown[l]
                 PROVE  k = l
      BY DEF IsInjective
    <3>1. walk.shown[k] \in Nat /\ walk.shown[l] \in Nat /\ k \in Nat /\ l \in Nat
      BY <2>1
    <3>2. ~(k < l) /\ ~(l < k)
      BY <2>2, <3>1
    <3> QED BY <3>1, <3>2
  <2> QED BY <1>1, <2>3 DEF LoadInv, KeptIsShown, LoadedComplete
<1> QED BY <1>1, LoadStart, LoadStep, PTL DEF Spec

----------------------------------------------------------------------------
(* What a sheet says: a row, cell by cell.                                 *)

\* The text in a column of a record, "" beyond its end.
TextIn(row, c) == IF c <= Len(row) THEN row[c] ELSE ""

Columns == Nat \ {0}

\* TextAt, of the first n cells.
TextUpto(cells, n, c) ==
  LET there == {k \in 1..n : ColumnOf(cells, k) = c}
  IN  IF there = {} THEN "" ELSE cells[CHOOSE k \in there : \A i \in there : i <= k].text

\* Every text is a STRING, of which "" is one; that it is, the provers have to be
\* told.
Text == STRING \cup {""}

LEMMA CellFacts ==
  ASSUME NEW cells \in Seq(Cell)
  PROVE  /\ Len(cells) \in Nat /\ DOMAIN cells = 1..Len(cells)
         /\ \A k \in 1..Len(cells) : /\ cells[k] \in Cell
                                     /\ cells[k].index \in Nat /\ cells[k].text \in Text
<1>1. \A cell \in Cell : cell.index \in Nat /\ cell.text \in Text
  BY Zenon DEF Cell, Text
<1>2. /\ Len(cells) \in Nat /\ DOMAIN cells = 1..Len(cells)
      /\ \A k \in 1..Len(cells) : cells[k] \in Cell
  OBVIOUS
<1> QED BY <1>1, <1>2, Zenon

\* The greatest of some numbers is the only one CHOOSE can mean.
LEMMA GreatestChosen ==
  ASSUME NEW T \in SUBSET Nat, NEW m \in T, \A n \in T : n <= m
  PROVE  (CHOOSE k \in T : \A n \in T : n <= k) = m
<1>1. \A k \in T : (\A n \in T : n <= k) => k = m
  <2> SUFFICES ASSUME NEW k \in T, \A n \in T : n <= k PROVE k = m
    OBVIOUS
  <2>1. k <= m /\ m <= k /\ k \in Nat /\ m \in Nat
    OBVIOUS
  <2> QED BY <2>1
<1> QED BY <1>1

\* A cell is in the column it names, or right after the cell before it.
LEMMA ColumnIs ==
  ASSUME NEW cells \in Seq(Cell), NEW k \in 1..Len(cells)
  PROVE  /\ ColumnOf(cells, k) \in Nat \ {0}
         /\ ColumnOf(cells, k) = IF cells[k].index > 0 THEN cells[k].index
                                 ELSE IF k = 1 THEN 1
                                 ELSE ColumnOf(cells, k - 1) + 1
<1> DEFINE own(i) == {j \in 1..i : cells[j].index > 0}
           last(i) == CHOOSE j \in own(i) : \A n \in own(i) : n <= j
<1>0. /\ Len(cells) \in Nat /\ k \in Nat \ {0} /\ k <= Len(cells)
      /\ \A j \in 1..Len(cells) : cells[j].index \in Nat
  BY CellFacts
<1>1. \A i : ColumnOf(cells, i) = IF own(i) = {} THEN i ELSE cells[last(i)].index + i - last(i)
  BY Zenon DEF ColumnOf
<1>2. ASSUME NEW i \in Nat, i <= Len(cells), own(i) # {}
      PROVE  last(i) \in own(i) /\ last(i) \in 1..i /\ cells[last(i)].index \in Nat \ {0}
  <2>1. own(i) \in SUBSET Nat /\ \A n \in own(i) : n <= i
    BY <1>2
  <2>2. PICK m \in own(i) : \A n \in own(i) : n <= m
    BY <1>2, <2>1, GreatestExists
  <2>3. last(i) = m
    BY <2>1, <2>2, GreatestChosen
  <2>4. m \in 1..i /\ m \in 1..Len(cells) /\ cells[m].index > 0
    BY <1>0, <1>2, <2>2
  <2>5. cells[m].index \in Nat \ {0}
    <3> HIDE DEF own, last
    <3>1. cells[m].index \in Nat /\ cells[m].index > 0
      BY <1>0, <2>4
    <3> QED BY <3>1
  <2> HIDE DEF own, last
  <2> QED BY <2>2, <2>3, <2>4, <2>5
<1>3. ColumnOf(cells, k) \in Nat \ {0}
  <2>1. CASE own(k) = {}
    BY <1>0, <1>1, <2>1
  <2>2. CASE own(k) # {}
    <3>1. last(k) \in 1..k /\ cells[last(k)].index \in Nat \ {0}
      BY <1>0, <1>2, <2>2
    <3>2. ColumnOf(cells, k) = cells[last(k)].index + k - last(k)
      BY <1>1, <2>2
    <3> HIDE DEF last
    <3> QED BY <1>0, <3>1, <3>2
  <2> QED BY <2>1, <2>2
<1>4. CASE cells[k].index > 0
  <2>1. k \in own(k) /\ own(k) \in SUBSET Nat /\ \A n \in own(k) : n <= k
    BY <1>0, <1>4
  <2>2. last(k) = k
    BY <2>1, GreatestChosen
  <2>3. cells[k].index \in Nat
    BY <1>0
  <2>4. ColumnOf(cells, k) = cells[k].index + k - k
    BY <1>1, <2>1, <2>2
  <2> QED BY <1>0, <1>3, <1>4, <2>3, <2>4
<1>5. CASE ~(cells[k].index > 0)
  <2>1. CASE k = 1
    <3>1. own(1) = {}
      BY <1>5, <2>1
    <3> QED BY <1>1, <1>3, <1>5, <2>1, <3>1
  <2>2. CASE k # 1
    <3>1. k - 1 \in Nat /\ k - 1 <= Len(cells) /\ 1..k = 1..(k - 1) \cup {k}
      BY <1>0, <2>2
    <3>2. own(k) = own(k - 1)
      BY <1>5, <3>1
    <3>3. CASE own(k) = {}
      <4>1. ColumnOf(cells, k) = k /\ ColumnOf(cells, k - 1) = k - 1
        BY <1>1, <3>2, <3>3
      <4> QED BY <1>0, <1>3, <1>5, <2>2, <4>1
    <3>4. CASE own(k) # {}
      <4>1. last(k) = last(k - 1)
        BY <3>2
      <4>2. last(k - 1) \in 1..(k - 1) /\ cells[last(k - 1)].index \in Nat
        BY <1>2, <3>1, <3>2, <3>4
      <4>3. /\ ColumnOf(cells, k) = cells[last(k - 1)].index + k - last(k - 1)
            /\ ColumnOf(cells, k - 1) = cells[last(k - 1)].index + (k - 1) - last(k - 1)
        BY <1>1, <3>2, <3>4, <4>1
      <4> HIDE DEF last
      <4> QED BY <1>0, <1>3, <1>5, <2>2, <4>2, <4>3
    <3> QED BY <3>3, <3>4
  <2> QED BY <2>1, <2>2
<1> QED BY <1>4, <1>5, <1>3

\* A list that some x are put after.
LEMMA JoinedIs ==
  ASSUME NEW S, NEW row \in Seq(S), NEW x \in S, NEW m \in Nat
  PROVE  LET long == row \o [k \in 1..m |-> x]
         IN  /\ long \in Seq(S) /\ Len(long) = Len(row) + m
             /\ \A k \in 1..(Len(row) + m) : long[k] = IF k <= Len(row) THEN row[k] ELSE x
<1> DEFINE pad == [k \in 1..m |-> x]
<1>1. pad \in Seq(S) /\ Len(pad) = m /\ \A k \in 1..m : pad[k] = x
  OBVIOUS
<1> HIDE DEF pad
<1>2. Len(row) \in Nat
  OBVIOUS
<1> DEFINE long == row \o pad
<1>3. /\ long \in Seq(S) /\ Len(long) = Len(row) + m
      /\ \A k \in 1..(Len(row) + m) : long[k] = IF k <= Len(row) THEN row[k] ELSE pad[k - Len(row)]
  BY <1>1, <1>2
<1> HIDE DEF long
<1>4. \A k \in 1..(Len(row) + m) : ~(k <= Len(row)) => k - Len(row) \in 1..m
  BY <1>2
<1>5. \A k \in 1..(Len(row) + m) : long[k] = IF k <= Len(row) THEN row[k] ELSE x
  BY <1>1, <1>3, <1>4
<1> QED BY <1>3, <1>5 DEF long, pad

LEMMA PadIs ==
  ASSUME NEW row \in Seq(Text), NEW n \in Nat
  PROVE  /\ PadTo(row, n) \in Seq(Text) /\ Len(PadTo(row, n)) >= n
         /\ Len(PadTo(row, n)) = IF Len(row) < n THEN n ELSE Len(row)
         /\ \A c \in Columns : TextIn(PadTo(row, n), c) = TextIn(row, c)
<1> DEFINE m == IF Len(row) < n THEN n - Len(row) ELSE 0
           long == PadTo(row, n)
<1>1. Len(row) \in Nat /\ m \in Nat
  OBVIOUS
<1>0. PICK none : none = ""
  BY Zenon
<1>2. long = row \o [k \in 1..m |-> none]
  BY <1>0, Zenon DEF PadTo
<1>3. none \in Text
  BY <1>0, Zenon DEF Text
<1> HIDE DEF m, long
<1>5. /\ long \in Seq(Text) /\ Len(long) = Len(row) + m
      /\ \A k \in 1..(Len(row) + m) : long[k] = IF k <= Len(row) THEN row[k] ELSE none
  BY <1>1, <1>2, <1>3, JoinedIs
<1>6. ASSUME NEW c \in Columns PROVE TextIn(long, c) = TextIn(row, c)
  <2>1. CASE c <= Len(row)
    <3>1. c \in 1..(Len(row) + m) /\ c <= Len(row) + m
      BY <1>1, <2>1 DEF Columns
    <3> QED BY <1>5, <2>1, <3>1, Zenon DEF TextIn
  <2>2. CASE ~(c <= Len(row)) /\ c <= Len(row) + m
    <3>1. c \in 1..(Len(row) + m)
      BY <1>1, <2>2 DEF Columns
    <3> QED BY <1>0, <1>5, <2>2, <3>1, Zenon DEF TextIn
  <2>3. CASE ~(c <= Len(row) + m) /\ ~(c <= Len(row))
    BY <1>5, <2>3, Zenon DEF TextIn
  <2>4. c <= Len(row) => c <= Len(row) + m
    BY <1>1 DEF Columns
  <2> QED BY <2>1, <2>2, <2>3, <2>4
<1>7. Len(row) + m = IF Len(row) < n THEN n ELSE Len(row)
  BY <1>1 DEF m
<1>8. Len(row) + m >= n
  BY <1>1, <1>7
<1> QED BY <1>5, <1>6, <1>7, <1>8 DEF long

RowsAndNext == [row : Seq(Text), next : Nat \ {0}]

\* A cell changes its own column and no other.
LEMMA PlaceIs ==
  ASSUME NEW done \in RowsAndNext, NEW cell \in Cell
  PROVE  LET column == IF cell.index > 0 THEN cell.index ELSE done.next
             after == Place(done, cell)
         IN  /\ after \in RowsAndNext /\ after.next = column + 1
             /\ \A c \in Columns :
                   TextIn(after.row, c) = IF c = column THEN cell.text ELSE TextIn(done.row, c)
<1> DEFINE column == IF cell.index > 0 THEN cell.index ELSE done.next
           long == PadTo(done.row, column)
           new == [long EXCEPT ![column] = cell.text]
<1>1. Place(done, cell) = [row |-> new, next |-> column + 1]
  BY Zenon DEF Place
<1>2. column \in Nat \ {0} /\ done.row \in Seq(Text) /\ cell.text \in Text
  <2>1. cell.index \in Nat /\ cell.text \in Text
    BY Zenon DEF Cell, Text
  <2>2. done.next \in Nat \ {0} /\ done.row \in Seq(Text)
    BY DEF RowsAndNext
  <2> QED BY <2>1, <2>2
<1> HIDE DEF column
<1>3. /\ long \in Seq(Text) /\ Len(long) >= column
      /\ \A c \in Columns : TextIn(long, c) = TextIn(done.row, c)
  BY <1>2, PadIs
<1> HIDE DEF long
<1>4. /\ Len(long) \in Nat /\ DOMAIN long = 1..Len(long) /\ column \in 1..Len(long)
  BY <1>2, <1>3
<1>5. /\ new \in Seq(Text) /\ Len(new) = Len(long) /\ new[column] = cell.text
      /\ \A c \in 1..Len(long) : c # column => new[c] = long[c]
  <2>1. new \in [1..Len(long) -> Text]
    BY <1>2, <1>3, <1>4
  <2> QED BY <1>2, <1>3, <1>4, <2>1
<1> HIDE DEF new
<1>6. ASSUME NEW c \in Columns
      PROVE  TextIn(new, c) = IF c = column THEN cell.text ELSE TextIn(done.row, c)
  <2>1. CASE c = column
    BY <1>4, <1>5, <2>1 DEF TextIn
  <2>2. CASE c # column
    <3>1. TextIn(new, c) = TextIn(long, c)
      <4>1. c <= Len(long) => c \in 1..Len(long)
        BY <1>4 DEF Columns
      <4>2. c <= Len(long) => new[c] = long[c]
        BY <1>5, <2>2, <4>1
      <4> QED BY <1>5, <4>2, Zenon DEF TextIn
    <3> QED BY <1>3, <2>2, <3>1
  <2> QED BY <2>1, <2>2
<1>7. [row |-> new, next |-> column + 1] \in RowsAndNext
  BY <1>2, <1>5 DEF RowsAndNext
<1> QED BY <1>1, <1>6, <1>7 DEF column

\* done holds what decodeSpreadsheetRows has after each cell.
PlaceSteps(done, cells) ==
  /\ done[0] = [row |-> <<>>, next |-> 1]
  /\ \A k \in 0..(Len(cells) - 1) : done[k + 1] = Place(done[k], cells[k + 1])
  /\ Decode(cells) = done[Len(cells)].row

LEMMA PlaceFold ==
  ASSUME NEW cells \in Seq(Cell)
  PROVE  \E done : PlaceSteps(done, cells)
<1> DEFINE n == Len(cells)
           V == RowsAndNext
           base == [row |-> <<>>, next |-> 1]
           step == [a \in V \X (1..n) |-> Place(a[1], cells[a[2]])]
           g == CHOOSE f : f = [t \in SUBSET (1..n) |->
                             IF t = {} THEN base ELSE Place(f[t \ {Max(t)}], cells[Max(t)])]
           done == [k \in 0..n |-> g[1..k]]
<1>1. n \in Nat /\ DOMAIN cells = 1..n /\ \A k \in 1..n : cells[k] \in Cell
  BY CellFacts
<1>2. step \in [V \X (1..n) -> V]
  <2>1. \A a \in V, k \in 1..n : Place(a, cells[k]) \in V
    BY <1>1, PlaceIs
  <2> HIDE DEF V
  <2> QED BY <2>1
<1>3. \A a \in V, k \in 1..n : step[<<a, k>>] = Place(a, cells[k])
  OBVIOUS
<1>4. base \in V
  BY DEF RowsAndNext
<1> HIDE DEF step, base, V
<1>5. PICK f \in [SUBSET (1..n) -> V] : IsFold(f, base, step, n)
  BY <1>1, <1>2, <1>4, FoldExists
<1>6. f = [t \in SUBSET (1..n) |->
             IF t = {} THEN base ELSE Place(f[t \ {Max(t)}], cells[Max(t)])]
  <2>1. ASSUME NEW t \in SUBSET (1..n), t # {}
        PROVE  step[<<f[t \ {Max(t)}], Max(t)>>] = Place(f[t \ {Max(t)}], cells[Max(t)])
    <3>1. Max(t) \in 1..n
      BY <1>1, <2>1, MaxInside
    <3>2. f[t \ {Max(t)}] \in V
      OBVIOUS
    <3> QED BY <1>3, <3>1, <3>2
  <2> QED BY <1>5, <2>1 DEF IsFold
<1>7. g = [t \in SUBSET (1..n) |->
             IF t = {} THEN base ELSE Place(g[t \ {Max(t)}], cells[Max(t)])]
  BY <1>6
<1>8. Decode(cells) = g[1..n].row
  <2>1. Decode(cells)
          = (CHOOSE f_1 : f_1 = [t \in SUBSET DOMAIN cells |->
               IF t = {} THEN base
               ELSE Place(f_1[t \ {Max(t)}], cells[Max(t)])])[DOMAIN cells].row
    BY Zenon DEF Decode, FoldLeft, MapThenFoldSet, base
  <2> QED BY <1>1, <2>1
<1> HIDE DEF g
<1>9. done[0] = base
  <2>1. 1..0 = {} /\ 0 \in 0..n /\ {} \in SUBSET (1..n)
    BY <1>1
  <2> QED BY <1>7, <2>1
<1>10. ASSUME NEW k \in 0..(n - 1)
       PROVE  done[k + 1] = Place(done[k], cells[k + 1])
  <2>1. k \in Nat /\ k \in 0..n /\ k + 1 \in 0..n /\ 1..(k + 1) \in SUBSET (1..n)
    BY <1>1
  <2>2. /\ 1..(k + 1) # {} /\ Max(1..(k + 1)) = k + 1
        /\ (1..(k + 1)) \ {k + 1} = 1..k
    BY <2>1, MaxOfPrefix
  <2>3. g[1..(k + 1)] = Place(g[1..k], cells[k + 1])
    BY <1>7, <2>1, <2>2
  <2> QED BY <2>1, <2>3
<1>11. done[n] = g[1..n]
  BY <1>1
<1> HIDE DEF done
<1>12. Decode(cells) = done[n].row
  BY <1>8, <1>11
<1> QED BY <1>9, <1>10, <1>12 DEF base, PlaceSteps

\* A cell more says the text of its own column, and nothing of the others.
LEMMA OneCellMore ==
  ASSUME NEW cells \in Seq(Cell), NEW k \in Nat, k + 1 <= Len(cells), NEW c
  PROVE  TextUpto(cells, k + 1, c) =
           IF c = ColumnOf(cells, k + 1) THEN cells[k + 1].text ELSE TextUpto(cells, k, c)
<1> DEFINE there(n) == {j \in 1..n : ColumnOf(cells, j) = c}
           last(n) == CHOOSE j \in there(n) : \A i \in there(n) : i <= j
<1>1. \A n : TextUpto(cells, n, c) = IF there(n) = {} THEN "" ELSE cells[last(n)].text
  BY Zenon DEF TextUpto
<1>2. 1..(k + 1) = 1..k \cup {k + 1}
  OBVIOUS
<1>3. CASE c = ColumnOf(cells, k + 1)
  <2>1. there(k + 1) \in SUBSET Nat /\ k + 1 \in there(k + 1) /\ \A n \in there(k + 1) : n <= k + 1
    BY <1>3
  <2>2. last(k + 1) = k + 1
    BY <2>1, GreatestChosen
  <2> HIDE DEF there, last
  <2> QED BY <1>1, <1>3, <2>1, <2>2, Zenon
<1>4. CASE c # ColumnOf(cells, k + 1)
  <2>1. there(k + 1) = there(k)
    BY <1>2, <1>4
  <2>2. last(k + 1) = last(k)
    BY <2>1
  <2> HIDE DEF there, last
  <2> QED BY <1>1, <1>4, <2>1, <2>2, Zenon
<1> QED BY <1>3, <1>4

\* decodeSpreadsheetRows puts every text where its column says.
LEMMA DecodeIs ==
  ASSUME NEW cells \in Seq(Cell)
  PROVE  /\ Decode(cells) \in Seq(Text)
         /\ \A c \in Columns : TextIn(Decode(cells), c) = TextAt(cells, c)
<1> DEFINE n == Len(cells)
<1>1. n \in Nat /\ n = Len(cells) /\ DOMAIN cells = 1..n /\ \A k \in 1..n : cells[k] \in Cell
  BY CellFacts
<1> HIDE DEF n
<1>2. PICK done : /\ done[0] = [row |-> <<>>, next |-> 1]
                  /\ \A k \in 0..(n - 1) : done[k + 1] = Place(done[k], cells[k + 1])
                  /\ Decode(cells) = done[n].row
  BY <1>1, PlaceFold DEF PlaceSteps
<1> DEFINE Good(k) ==
             /\ done[k] \in RowsAndNext
             /\ done[k].next = IF k = 0 THEN 1 ELSE ColumnOf(cells, k) + 1
             /\ \A c \in Columns : TextIn(done[k].row, c) = TextUpto(cells, k, c)
           T == {k \in Nat : k <= n => Good(k)}
<1>3. Good(0)
  <2>1. done[0] \in RowsAndNext /\ done[0].next = 1 /\ done[0].row = <<>>
    BY <1>2 DEF RowsAndNext
  <2>2. \A c \in Columns : ~(c <= Len(<<>>))
    BY DEF Columns
  <2>3. \A c \in Columns : {k \in 1..0 : ColumnOf(cells, k) = c} = {}
    OBVIOUS
  <2>4. \A c \in Columns : TextIn(<<>>, c) = TextUpto(cells, 0, c)
    BY <2>2, <2>3, Zenon DEF TextIn, TextUpto
  <2> QED BY <2>1, <2>4
<1>4. ASSUME NEW k \in Nat, k + 1 <= n, Good(k)
      PROVE  Good(k + 1)
  <2> DEFINE cell == cells[k + 1]
             old == done[k]
             column == IF cell.index > 0 THEN cell.index ELSE old.next
             after == Place(old, cell)
  <2>1. k \in 0..(n - 1) /\ k + 1 \in 1..n /\ k + 1 # 0
    BY <1>1, <1>4
  <2>2. done[k + 1] = after
    BY <1>2, <2>1
  <2>3. cell \in Cell /\ old \in RowsAndNext
    BY <1>1, <1>4, <2>1
  <2>4. /\ after \in RowsAndNext /\ after.next = column + 1
        /\ \A c \in Columns :
              TextIn(after.row, c) = IF c = column THEN cell.text ELSE TextIn(old.row, c)
    BY <2>3, PlaceIs
  <2>5. column = ColumnOf(cells, k + 1)
    <3>1. ColumnOf(cells, k + 1) = IF cells[k + 1].index > 0 THEN cells[k + 1].index
                                   ELSE IF k + 1 = 1 THEN 1
                                   ELSE ColumnOf(cells, k + 1 - 1) + 1
      BY <1>1, <2>1, ColumnIs
    <3>2. k + 1 = 1 <=> k = 0
      OBVIOUS
    <3>3. k + 1 - 1 = k
      OBVIOUS
    <3>4. old.next = IF k = 0 THEN 1 ELSE ColumnOf(cells, k) + 1
      BY <1>4
    <3> QED BY <3>1, <3>2, <3>3, <3>4
  <2>6. \A c \in Columns : TextIn(old.row, c) = TextUpto(cells, k, c)
    BY <1>4
  <2>7. \A c \in Columns :
           TextUpto(cells, k + 1, c) = IF c = column THEN cell.text ELSE TextUpto(cells, k, c)
    BY <1>1, <1>4, <2>5, OneCellMore
  <2> HIDE DEF cell, old, column, after
  <2>8. \A c \in Columns : TextIn(after.row, c) = TextUpto(cells, k + 1, c)
    BY <2>4, <2>6, <2>7
  <2> QED BY <2>1, <2>2, <2>4, <2>5, <2>8
<1>5. Good(n)
  <2> HIDE DEF Good
  <2>1. 0 \in T
    BY <1>3
  <2>2. \A k \in Nat : k \in T => k + 1 \in T
    <3> SUFFICES ASSUME NEW k \in Nat, k \in T, k + 1 <= n PROVE Good(k + 1)
      OBVIOUS
    <3>1. k <= n
      BY <1>1
    <3> QED BY <1>4, <3>1
  <2>3. n \in T
    <3> HIDE DEF T
    <3> QED BY <1>1, <2>1, <2>2, CountedUp
  <2> QED BY <1>1, <2>3
<1>6. \A c \in Columns : TextAt(cells, c) = TextUpto(cells, n, c)
  <2> SUFFICES ASSUME NEW c \in Columns PROVE TextAt(cells, c) = TextUpto(cells, n, c)
    OBVIOUS
  <2>1. {k \in DOMAIN cells : ColumnOf(cells, k) = c} = {k \in 1..n : ColumnOf(cells, k) = c}
    BY <1>1
  <2> DEFINE all == {k \in DOMAIN cells : ColumnOf(cells, k) = c}
             some == {k \in 1..n : ColumnOf(cells, k) = c}
  <2>2. TextAt(cells, c)
          = IF all = {} THEN "" ELSE cells[CHOOSE k \in all : \A i \in all : i <= k].text
    BY Zenon DEF TextAt
  <2>3. TextUpto(cells, n, c)
          = IF some = {} THEN "" ELSE cells[CHOOSE k \in some : \A i \in some : i <= k].text
    BY Zenon DEF TextUpto
  <2>4. all = some
    BY <2>1
  <2> HIDE DEF all, some
  <2> QED BY <2>2, <2>3, <2>4, Zenon
<1>7. Decode(cells) \in Seq(Text)
  <2>1. done[n] \in RowsAndNext
    BY <1>5
  <2> QED BY <1>2, <2>1 DEF RowsAndNext
<1> QED BY <1>2, <1>5, <1>6, <1>7

\* A row of a sheet as a record of as many columns as the header has.
Record(cells) == PadTo(Decode(cells), Len(Header))

LEMMA RecordIs ==
  ASSUME NEW cells \in Seq(Cell)
  PROVE  /\ Parseable(Record(cells)) <=>
              /\ TextAt(cells, 1) # "" /\ TextAt(cells, 2) # ""
              /\ TextAt(cells, 3) \in Number /\ TextAt(cells, 4) \in Number
              /\ TextAt(cells, 5) \in Number \cup {""}
         /\ ParseRow(Record(cells)) = LineSays(cells)
         /\ \A c \in 1..5 : Record(cells)[c] = TextAt(cells, c) /\ Record(cells)[c] \in Text
<1>1. Decode(cells) \in Seq(Text) /\ \A c \in Columns : TextIn(Decode(cells), c) = TextAt(cells, c)
  BY DecodeIs
<1>2. Len(Header) = 5
  BY DEF Header
<1> DEFINE record == Record(cells)
<1>3. /\ record \in Seq(Text) /\ Len(record) >= 5
      /\ \A c \in Columns : TextIn(record, c) = TextIn(Decode(cells), c)
  <2>1. 5 \in Nat /\ record = PadTo(Decode(cells), 5)
    BY <1>2 DEF Record
  <2> HIDE DEF record
  <2> QED BY <1>1, <2>1, PadIs
<1> HIDE DEF record
<1>4. \A c \in 1..5 : c \in Columns /\ c <= Len(record) /\ c \in DOMAIN record
  BY <1>3 DEF Columns
<1>5. \A c \in 1..5 : record[c] = TextAt(cells, c) /\ record[c] \in Text
  <2>1. \A c \in 1..5 : record[c] = TextIn(record, c)
    BY <1>4, Zenon DEF TextIn
  <2>2. \A c \in 1..5 : record[c] \in Text
    BY <1>3, <1>4
  <2> QED BY <1>1, <1>3, <1>4, <2>1, <2>2
<1>6. 1 \in 1..5 /\ 2 \in 1..5 /\ 3 \in 1..5 /\ 4 \in 1..5 /\ 5 \in 1..5
  OBVIOUS
<1>7. /\ record[1] = TextAt(cells, 1) /\ record[2] = TextAt(cells, 2) /\ record[3] = TextAt(cells, 3)
      /\ record[4] = TextAt(cells, 4) /\ record[5] = TextAt(cells, 5)
  BY <1>5, <1>6
<1>8. ParseRow(record) = LineSays(cells)
  BY <1>7, Zenon DEF ParseRow, LineSays
<1>9. Parseable(record) <=>
              /\ TextAt(cells, 1) # "" /\ TextAt(cells, 2) # ""
              /\ TextAt(cells, 3) \in Number /\ TextAt(cells, 4) \in Number
              /\ TextAt(cells, 5) \in Number \cup {""}
  BY <1>7, Zenon DEF Parseable
<1> QED BY <1>5, <1>8, <1>9, Zenon DEF record

----------------------------------------------------------------------------
(* What a sheet says: its rows.                                            *)

AnyRow == [ref : Text, content : [name : Text, latitude : Text, longitude : Text, elevation : Text]]

KeepRow(rows, record) == IF Parseable(record) THEN Append(rows, ParseRow(record)) ELSE rows

\* The records of a sheet, without the banner and the header.
RecordsOf(sheet) == [k \in 1..(Len(sheet) - 2) |-> PadTo(Decode(sheet[k + 2]), Len(Header))]

\* How many they are.
Body(sheet) == IF Len(sheet) > 2 THEN Len(sheet) - 2 ELSE 0

\* rows holds what Parse has after each record.
ParseSteps(rows, sheet) ==
  /\ rows[0] = <<>>
  /\ \A k \in 0..(Body(sheet) - 1) : rows[k + 1] = KeepRow(rows[k], RecordsOf(sheet)[k + 1])
  /\ Parse(sheet) = rows[Body(sheet)]

LEMMA SheetFacts ==
  ASSUME NEW sheet \in Seq(Seq(Cell))
  PROVE  /\ Len(sheet) \in Nat /\ Body(sheet) \in Nat /\ DOMAIN RecordsOf(sheet) = 1..Body(sheet)
         /\ \A k \in 1..Body(sheet) : /\ sheet[k + 2] \in Seq(Cell) /\ k + 2 \in 3..Len(sheet)
                                      /\ RecordsOf(sheet)[k] = Record(sheet[k + 2])
                                      /\ ParseRow(RecordsOf(sheet)[k]) \in AnyRow
         /\ \A k \in 3..Len(sheet) : k - 2 \in 1..Body(sheet)
<1>1. Len(sheet) \in Nat
  OBVIOUS
<1>2. Body(sheet) \in Nat /\ 1..(Len(sheet) - 2) = 1..Body(sheet)
  BY <1>1 DEF Body
<1>3. \A k \in 1..Body(sheet) : k + 2 \in 3..Len(sheet) /\ k + 2 \in 1..Len(sheet)
  BY <1>1 DEF Body
<1>4. \A k \in 3..Len(sheet) : k - 2 \in 1..Body(sheet)
  BY <1>1 DEF Body
<1>5. ASSUME NEW k \in 1..Body(sheet)
      PROVE  /\ sheet[k + 2] \in Seq(Cell) /\ RecordsOf(sheet)[k] = Record(sheet[k + 2])
             /\ ParseRow(RecordsOf(sheet)[k]) \in AnyRow
  <2>1. sheet[k + 2] \in Seq(Cell)
    BY <1>3
  <2>2. RecordsOf(sheet)[k] = Record(sheet[k + 2])
    BY <1>2 DEF RecordsOf, Record
  <2>3. \A c \in 1..5 : Record(sheet[k + 2])[c] \in Text
    BY <2>1, RecordIs
  <2> DEFINE record == Record(sheet[k + 2])
  <2>4. record[1] \in Text /\ record[2] \in Text /\ record[3] \in Text /\ record[4] \in Text
        /\ record[5] \in Text
    BY <2>3
  <2> HIDE DEF record
  <2>5. ParseRow(record) \in AnyRow
    BY <2>4 DEF ParseRow, AnyRow
  <2> QED BY <2>1, <2>2, <2>5 DEF record
<1>6. DOMAIN RecordsOf(sheet) = 1..Body(sheet)
  BY <1>2 DEF RecordsOf
<1> QED BY <1>1, <1>2, <1>3, <1>4, <1>5, <1>6

LEMMA ParseFold ==
  ASSUME NEW sheet \in Seq(Seq(Cell))
  PROVE  \E rows : ParseSteps(rows, sheet)
<1> DEFINE n == Body(sheet)
           records == RecordsOf(sheet)
           V == Seq(AnyRow)
           base == <<>>
           step == [a \in V \X (1..n) |-> KeepRow(a[1], records[a[2]])]
           g == CHOOSE f : f = [t \in SUBSET (1..n) |->
                             IF t = {} THEN base ELSE KeepRow(f[t \ {Max(t)}], records[Max(t)])]
           rows == [k \in 0..n |-> g[1..k]]
<1>1. n \in Nat /\ DOMAIN records = 1..n /\ \A k \in 1..n : ParseRow(records[k]) \in AnyRow
  BY SheetFacts
<1>2. step \in [V \X (1..n) -> V]
  <2>1. \A a \in V, k \in 1..n : KeepRow(a, records[k]) \in V
    <3> HIDE DEF records, n
    <3> QED BY <1>1 DEF KeepRow
  <2> HIDE DEF V, records
  <2> QED BY <2>1
<1>3. \A a \in V, k \in 1..n : step[<<a, k>>] = KeepRow(a, records[k])
  OBVIOUS
<1>4. base \in V
  OBVIOUS
<1> HIDE DEF step, base, V
<1>5. PICK f \in [SUBSET (1..n) -> V] : IsFold(f, base, step, n)
  BY <1>1, <1>2, <1>4, FoldExists
<1>6. f = [t \in SUBSET (1..n) |->
             IF t = {} THEN base ELSE KeepRow(f[t \ {Max(t)}], records[Max(t)])]
  <2>1. ASSUME NEW t \in SUBSET (1..n), t # {}
        PROVE  step[<<f[t \ {Max(t)}], Max(t)>>] = KeepRow(f[t \ {Max(t)}], records[Max(t)])
    <3>1. Max(t) \in 1..n
      BY <1>1, <2>1, MaxInside
    <3>2. f[t \ {Max(t)}] \in V
      OBVIOUS
    <3> QED BY <1>3, <3>1, <3>2
  <2> QED BY <1>5, <2>1 DEF IsFold
<1>7. g = [t \in SUBSET (1..n) |->
             IF t = {} THEN base ELSE KeepRow(g[t \ {Max(t)}], records[Max(t)])]
  BY <1>6
<1>8. Parse(sheet) = g[1..n]
  <2>1. Parse(sheet)
          = (CHOOSE f_1 : f_1 = [t \in SUBSET DOMAIN records |->
               IF t = {} THEN base
               ELSE KeepRow(f_1[t \ {Max(t)}], records[Max(t)])])[DOMAIN records]
    BY Zenon DEF Parse, RecordsOf, KeepRow, FoldLeft, MapThenFoldSet, base
  <2> HIDE DEF records
  <2> QED BY <1>1, <2>1
<1> HIDE DEF g, records
<1>9. rows[0] = base
  <2>1. 1..0 = {} /\ 0 \in 0..n /\ {} \in SUBSET (1..n)
    BY <1>1
  <2> QED BY <1>7, <2>1
<1>10. ASSUME NEW k \in 0..(n - 1)
       PROVE  rows[k + 1] = KeepRow(rows[k], records[k + 1])
  <2>1. k \in Nat /\ k \in 0..n /\ k + 1 \in 0..n /\ 1..(k + 1) \in SUBSET (1..n)
    BY <1>1
  <2>2. /\ 1..(k + 1) # {} /\ Max(1..(k + 1)) = k + 1
        /\ (1..(k + 1)) \ {k + 1} = 1..k
    BY <2>1, MaxOfPrefix
  <2>3. g[1..(k + 1)] = KeepRow(g[1..k], records[k + 1])
    BY <1>7, <2>1, <2>2
  <2> QED BY <2>1, <2>3
<1>11. rows[n] = g[1..n]
  BY <1>1
<1> HIDE DEF rows
<1>12. Parse(sheet) = rows[n]
  BY <1>8, <1>11
<1> QED BY <1>9, <1>10, <1>12 DEF base, records, ParseSteps

\* rows are those of the first n lines that can be used; place tells which.
RowsOfLines(rows, place, records, n) ==
  /\ rows \in Seq(AnyRow) /\ place \in [1..Len(rows) -> 1..n]
  /\ \A i, j \in 1..Len(rows) : i < j => place[i] < place[j]
  /\ \A i \in 1..Len(rows) : Parseable(records[place[i]]) /\ rows[i] = ParseRow(records[place[i]])
  /\ \A k \in 1..n : Parseable(records[k]) => \E i \in 1..Len(rows) : place[i] = k

LEMMA OneLineMore ==
  ASSUME NEW rows, NEW place, NEW records, NEW n \in Nat, RowsOfLines(rows, place, records, n),
         ParseRow(records[n + 1]) \in AnyRow
  PROVE  \E more : RowsOfLines(KeepRow(rows, records[n + 1]), more, records, n + 1)
<1> DEFINE record == records[n + 1]
           row == ParseRow(record)
           m == Len(rows)
           new == Append(rows, row)
           more == [i \in 1..(m + 1) |-> IF i = m + 1 THEN n + 1 ELSE place[i]]
<1>0. /\ rows \in Seq(AnyRow) /\ place \in [1..m -> 1..n] /\ m \in Nat
      /\ \A i, j \in 1..m : i < j => place[i] < place[j]
      /\ \A i \in 1..m : Parseable(records[place[i]]) /\ rows[i] = ParseRow(records[place[i]])
      /\ \A k \in 1..n : Parseable(records[k]) => \E i \in 1..m : place[i] = k
  BY DEF RowsOfLines
<1>1. 1..(n + 1) = 1..n \cup {n + 1} /\ 1..(m + 1) = 1..m \cup {m + 1} /\ m + 1 \notin 1..m
  BY <1>0
<1>2. CASE Parseable(record)
  <2>1. /\ new \in Seq(AnyRow) /\ Len(new) = m + 1 /\ new[m + 1] = row
        /\ \A i \in 1..m : new[i] = rows[i]
    BY <1>0
  <2> HIDE DEF new, m, row, record
  <2>2. more \in [1..(m + 1) -> 1..(n + 1)]
    BY <1>0, <1>1
  <2>3. more[m + 1] = n + 1 /\ \A i \in 1..m : more[i] = place[i]
    BY <1>1
  <2> HIDE DEF more
  <2>4. \A i, j \in 1..(m + 1) : i < j => more[i] < more[j]
    <3> SUFFICES ASSUME NEW i \in 1..(m + 1), NEW j \in 1..(m + 1), i < j
                 PROVE  more[i] < more[j]
      OBVIOUS
    <3>1. i \in 1..m
      BY <1>0
    <3>2. place[i] \in 1..n
      BY <1>0, <3>1
    <3>3. CASE j = m + 1
      BY <2>3, <3>1, <3>2, <3>3
    <3>4. CASE j \in 1..m
      BY <1>0, <2>3, <3>1, <3>4
    <3> QED BY <1>1, <3>3, <3>4
  <2>5. \A i \in 1..(m + 1) : Parseable(records[more[i]]) /\ new[i] = ParseRow(records[more[i]])
    <3>1. \A i \in 1..m : Parseable(records[more[i]]) /\ new[i] = ParseRow(records[more[i]])
      BY <1>0, <2>1, <2>3, Zenon
    <3>2. Parseable(records[more[m + 1]]) /\ new[m + 1] = ParseRow(records[more[m + 1]])
      BY <1>2, <2>1, <2>3, Zenon DEF record, row
    <3> QED BY <1>1, <3>1, <3>2, Zenon
  <2>6. \A k \in 1..(n + 1) : Parseable(records[k]) => \E i \in 1..(m + 1) : more[i] = k
    BY <1>0, <1>1, <2>3
  <2>7. KeepRow(rows, record) = new
    BY <1>2 DEF KeepRow, new, row
  <2>8. RowsOfLines(new, more, records, n + 1)
    BY <2>1, <2>2, <2>4, <2>5, <2>6 DEF RowsOfLines
  <2> QED BY <2>7, <2>8 DEF record
<1>3. CASE ~Parseable(record)
  <2>1. KeepRow(rows, record) = rows
    BY <1>3 DEF KeepRow
  <2>2. place \in [1..m -> 1..(n + 1)]
    BY <1>0
  <2>3. \A k \in 1..(n + 1) : Parseable(records[k]) => \E i \in 1..m : place[i] = k
    BY <1>0, <1>1, <1>3
  <2>4. RowsOfLines(rows, place, records, n + 1)
    BY <1>0, <2>2, <2>3 DEF RowsOfLines
  <2> QED BY <2>1, <2>4
<1> QED BY <1>2, <1>3

\* Parse returns the rows of the lines that can be used, in their order.
LEMMA ParseIs ==
  ASSUME NEW sheet \in Seq(Seq(Cell))
  PROVE  \E place : RowsOfLines(Parse(sheet), place, RecordsOf(sheet), Body(sheet))
<1> DEFINE n == Body(sheet)
           records == RecordsOf(sheet)
<1>1. n \in Nat /\ \A k \in 1..n : ParseRow(records[k]) \in AnyRow
  BY SheetFacts
<1>2. PICK rows : /\ rows[0] = <<>>
                  /\ \A k \in 0..(n - 1) : rows[k + 1] = KeepRow(rows[k], records[k + 1])
                  /\ Parse(sheet) = rows[n]
  BY ParseFold DEF ParseSteps
<1> HIDE DEF n, records
<1> DEFINE Good(k) == \E place : RowsOfLines(rows[k], place, records, k)
           T == {k \in Nat : k <= n => Good(k)}
<1>3. Good(0)
  <2>1. RowsOfLines(<<>>, <<>>, records, 0)
    <3>1. <<>> \in Seq(AnyRow) /\ <<>> \in [1..0 -> 1..0] /\ Len(<<>>) = 0
      OBVIOUS
    <3>2. 1..0 = {}
      OBVIOUS
    <3> QED BY <3>1, <3>2 DEF RowsOfLines
  <2> QED BY <1>2, <2>1
<1>4. ASSUME NEW k \in Nat, k + 1 <= n, Good(k)
      PROVE  Good(k + 1)
  <2>1. k \in 0..(n - 1) /\ k + 1 \in 1..n
    BY <1>1, <1>4
  <2>2. PICK place : RowsOfLines(rows[k], place, records, k)
    BY <1>4
  <2>3. rows[k + 1] = KeepRow(rows[k], records[k + 1]) /\ ParseRow(records[k + 1]) \in AnyRow
    BY <1>1, <1>2, <2>1
  <2> QED BY <2>2, <2>3, OneLineMore
<1>5. Good(n)
  <2> HIDE DEF Good
  <2>1. 0 \in T
    BY <1>3
  <2>2. \A k \in Nat : k \in T => k + 1 \in T
    <3> SUFFICES ASSUME NEW k \in Nat, k \in T, k + 1 <= n PROVE Good(k + 1)
      OBVIOUS
    <3>1. k <= n
      BY <1>1
    <3> QED BY <1>4, <3>1
  <2>3. n \in T
    <3> HIDE DEF T
    <3> QED BY <1>1, <2>1, <2>2, CountedUp
  <2> QED BY <1>1, <2>3
<1> QED BY <1>2, <1>5 DEF n, records

\* Among the first r rows, the last one of its volcano that the table can take.
IsLast(rows, r, i) ==
  /\ i \in 1..r /\ Storable(rows[i].content)
  /\ \A j \in 1..r : j > i /\ Storable(rows[j].content) => rows[j].ref # rows[i].ref

LastOnes(rows) == {rows[i] : i \in {j \in 1..Len(rows) : IsLast(rows, Len(rows), j)}}

\* A line that can be used is one that is parsed and that the table can take.
LEMMA UsableIs ==
  ASSUME NEW cells \in Seq(Cell)
  PROVE  /\ UsableLine(cells) <=> Parseable(Record(cells)) /\ Storable(LineSays(cells).content)
         /\ LineSays(cells).ref = TextAt(cells, 1)
<1>1. \A text : InTable(text) => text \in Number
  BY Zenon DEF InTable, Number
<1>2. /\ LineSays(cells).ref = TextAt(cells, 1)
      /\ LineSays(cells).content.latitude = TextAt(cells, 3)
      /\ LineSays(cells).content.longitude = TextAt(cells, 4)
  BY Zenon DEF LineSays
<1>3. Storable(LineSays(cells).content) <=> InTable(TextAt(cells, 3)) /\ InTable(TextAt(cells, 4))
  BY <1>2, Zenon DEF Storable
<1> QED BY <1>1, <1>2, <1>3, RecordIs, Zenon DEF UsableLine

\* What a sheet says is what Parse makes of its last usable lines.
LEMMA SaysIs ==
  ASSUME NEW sheet \in Seq(Seq(Cell))
  PROVE  /\ Says(sheet) = LastOnes(Parse(sheet))
         /\ Parse(sheet) \in Seq(AnyRow)
<1> DEFINE n == Body(sheet)
           rows == Parse(sheet)
           m == Len(rows)
<1>1. PICK place : RowsOfLines(rows, place, RecordsOf(sheet), n)
  BY ParseIs
<1> DEFINE line(i) == place[i] + 2
<1>2. /\ rows \in Seq(AnyRow) /\ m \in Nat /\ place \in [1..m -> 1..n]
      /\ \A i, j \in 1..m : i < j => place[i] < place[j]
      /\ \A i \in 1..m : /\ Parseable(RecordsOf(sheet)[place[i]])
                         /\ rows[i] = ParseRow(RecordsOf(sheet)[place[i]])
      /\ \A k \in 1..n : Parseable(RecordsOf(sheet)[k]) => \E i \in 1..m : place[i] = k
  BY <1>1 DEF RowsOfLines
<1>3. /\ Len(sheet) \in Nat /\ n \in Nat
      /\ \A k \in 1..n : /\ sheet[k + 2] \in Seq(Cell) /\ k + 2 \in 3..Len(sheet)
                         /\ RecordsOf(sheet)[k] = Record(sheet[k + 2])
      /\ \A k \in 3..Len(sheet) : k - 2 \in 1..n
  BY SheetFacts
<1> HIDE DEF n, rows, m
<1>4. ASSUME NEW i \in 1..m
      PROVE  /\ line(i) \in 3..Len(sheet) /\ rows[i] = LineSays(sheet[line(i)])
             /\ UsableLine(sheet[line(i)]) <=> Storable(rows[i].content)
             /\ TextAt(sheet[line(i)], 1) = rows[i].ref
  <2>1. place[i] \in 1..n
    BY <1>2
  <2>2. /\ sheet[line(i)] \in Seq(Cell) /\ line(i) \in 3..Len(sheet)
        /\ RecordsOf(sheet)[place[i]] = Record(sheet[line(i)])
    BY <1>3, <2>1
  <2>3. Parseable(Record(sheet[line(i)])) /\ rows[i] = ParseRow(Record(sheet[line(i)]))
    BY <1>2, <2>2
  <2> HIDE DEF line
  <2>4. rows[i] = LineSays(sheet[line(i)])
    BY <2>2, <2>3, RecordIs
  <2> QED BY <2>2, <2>3, <2>4, UsableIs
<1>5. ASSUME NEW k \in 3..Len(sheet), UsableLine(sheet[k])
      PROVE  \E i \in 1..m : line(i) = k
  <2>1. k - 2 \in 1..n /\ (k - 2) + 2 = k
    BY <1>3
  <2>2. sheet[k] \in Seq(Cell) /\ RecordsOf(sheet)[k - 2] = Record(sheet[k])
    BY <1>3, <2>1
  <2>3. Parseable(RecordsOf(sheet)[k - 2])
    BY <1>5, <2>2, UsableIs
  <2>4. PICK i \in 1..m : place[i] = k - 2
    BY <1>2, <2>1, <2>3
  <2> QED BY <2>1, <2>4
<1>6. \A i, j \in 1..m : line(i) > line(j) <=> i > j
  <2> SUFFICES ASSUME NEW i \in 1..m, NEW j \in 1..m PROVE line(i) > line(j) <=> i > j
    OBVIOUS
  <2>1. place[i] \in 1..n /\ place[j] \in 1..n /\ i \in Nat /\ j \in Nat
    BY <1>2
  <2>2. (i < j => place[i] < place[j]) /\ (j < i => place[j] < place[i])
    BY <1>2
  <2>3. i = j => place[i] = place[j]
    OBVIOUS
  <2> DEFINE a == place[i]
             b == place[j]
  <2>0. n \in Nat
    BY <1>3
  <2>4. a \in Nat /\ b \in Nat
    BY <2>0, <2>1
  <2>5. line(i) = a + 2 /\ line(j) = b + 2
    OBVIOUS
  <2>6. (i < j => a < b) /\ (j < i => b < a) /\ (i = j => a = b)
    BY <2>2, <2>3
  <2> HIDE DEF a, b, line
  <2> QED BY <2>1, <2>4, <2>5, <2>6
<1> DEFINE lines == {k \in 3..Len(sheet) : UsableLine(sheet[k])}
           ends == {k \in lines : \A later \in lines : later > k =>
                      TextAt(sheet[later], 1) # TextAt(sheet[k], 1)}
<1>7. Says(sheet) = {LineSays(sheet[k]) : k \in ends}
  BY Zenon DEF Says
<1> HIDE DEF line
<1>8. lines = {line(i) : i \in {j \in 1..m : Storable(rows[j].content)}}
  <2>1. ASSUME NEW k \in lines PROVE \E i \in 1..m : line(i) = k /\ Storable(rows[i].content)
    <3>1. k \in 3..Len(sheet) /\ UsableLine(sheet[k])
      OBVIOUS
    <3>2. PICK i \in 1..m : line(i) = k
      BY <1>5, <3>1
    <3> QED BY <1>4, <3>1, <3>2
  <2>2. ASSUME NEW i \in 1..m, Storable(rows[i].content) PROVE line(i) \in lines
    BY <1>4, <2>2
  <2> QED BY <2>1, <2>2
<1> HIDE DEF lines
<1>9. ASSUME NEW i \in 1..m, Storable(rows[i].content)
      PROVE  line(i) \in ends <=> IsLast(rows, m, i)
  <2>0. line(i) \in lines
    BY <1>8, <1>9
  <2>1. line(i) \in ends <=> \A later \in lines : later > line(i) =>
                                TextAt(sheet[later], 1) # TextAt(sheet[line(i)], 1)
    BY <2>0
  <2> HIDE DEF ends
  <2>2. (\A later \in lines : later > line(i) =>
                                TextAt(sheet[later], 1) # TextAt(sheet[line(i)], 1))
        <=> \A j \in 1..m : Storable(rows[j].content) /\ line(j) > line(i) =>
                                TextAt(sheet[line(j)], 1) # TextAt(sheet[line(i)], 1)
    BY <1>8
  <2>3. \A j \in 1..m : /\ line(j) > line(i) <=> j > i
                        /\ TextAt(sheet[line(j)], 1) = rows[j].ref
    BY <1>4, <1>6
  <2>4. TextAt(sheet[line(i)], 1) = rows[i].ref
    BY <1>4
  <2> QED BY <1>9, <2>1, <2>2, <2>3, <2>4 DEF IsLast
<1>10. ends = {line(i) : i \in {j \in 1..m : IsLast(rows, m, j)}}
  <2>1. ASSUME NEW k \in ends PROVE \E i \in 1..m : k = line(i) /\ IsLast(rows, m, i)
    <3>1. k \in lines
      OBVIOUS
    <3>2. PICK i \in 1..m : k = line(i) /\ Storable(rows[i].content)
      BY <1>8, <3>1
    <3> HIDE DEF ends
    <3>3. line(i) \in ends
      BY <2>1, <3>2
    <3> QED BY <1>9, <3>2, <3>3
  <2>2. ASSUME NEW i \in 1..m, IsLast(rows, m, i) PROVE line(i) \in ends
    <3>1. Storable(rows[i].content)
      BY <2>2 DEF IsLast
    <3> HIDE DEF ends
    <3> QED BY <1>9, <2>2, <3>1
  <2> HIDE DEF ends
  <2> QED BY <2>1, <2>2
<1> HIDE DEF ends
<1>11. Says(sheet) = {rows[i] : i \in {j \in 1..m : IsLast(rows, m, j)}}
  <2>1. \A i \in 1..m : LineSays(sheet[line(i)]) = rows[i]
    BY <1>4
  <2>2. {LineSays(sheet[k]) : k \in ends}
          = {LineSays(sheet[line(i)]) : i \in {j \in 1..m : IsLast(rows, m, j)}}
    BY <1>10
  <2>3. {LineSays(sheet[line(i)]) : i \in {j \in 1..m : IsLast(rows, m, j)}}
          = {rows[i] : i \in {j \in 1..m : IsLast(rows, m, j)}}
    BY <2>1
  <2> QED BY <1>7, <2>2, <2>3
<1> QED BY <1>2, <1>11 DEF LastOnes, m, rows

----------------------------------------------------------------------------
(* An import, row by row.                                                  *)

\* The catalogue shows a volcano as a row says.
Shows(row) == \E v \in DOMAIN catalogue : catalogue[v] = Present(row.ref, row.content)

ShowsAfter(row) == \E v \in DOMAIN catalogue' : catalogue'[v] = Present(row.ref, row.content)

Busy == {"upsert", "insert", "update"}

\* What an import has made of the rows before the next one.  While nobody else
\* writes, the catalogue shows the last of them of each volcano.
Progress(p) ==
  /\ rest[p] \in Nat \ {0} /\ rest[p] <= Len(Rows(p)) + 1
  /\ seen[p] = {Rows(p)[i].ref : i \in {j \in 1..(rest[p] - 1) : Storable(Rows(p)[j].content)}}
  /\ alone[p] => \A i \in 1..(rest[p] - 1) : IsLast(Rows(p), rest[p] - 1, i) => Shows(Rows(p)[i])

ShownRows == {[ref |-> v.ref, content |-> v.content] : v \in {w \in Range(catalogue) : ~w.absent}}

OneImport(p) ==
  /\ pc[p] \in Busy => Progress(p)
  /\ pc[p] \in {"insert", "update"} => HasRow(p)
  /\ pc[p] = "done" /\ alone[p] => Says(Snapshots[using[p]]) = ShownRows

\* The variables have their types.
Imports ==
  /\ installed \in DOMAIN Snapshots
  /\ pc \in [Importer -> PC]
  /\ using \in [Importer -> DOMAIN Snapshots]
  /\ rest \in [Importer -> Nat]
  /\ seen \in [Importer -> SUBSET Text]
  /\ alone \in [Importer -> BOOLEAN]

ImportsInv ==
  /\ CatalogueInv
  /\ \A v \in DOMAIN catalogue : Storable(catalogue[v].content)
  /\ Imports
  /\ \A p \in Importer : OneImport(p)

LEMMA SheetsParsed ==
  ASSUME NEW s \in DOMAIN Snapshots
  PROVE  /\ Parsed[s] \in Seq(AnyRow) /\ Len(Parsed[s]) \in Nat
         /\ DOMAIN Parsed[s] = 1..Len(Parsed[s])
         /\ Says(Snapshots[s]) = LastOnes(Parsed[s])
<1>1. Snapshots[s] \in Seq(Seq(Cell))
  <2>1. Snapshots \in Seq(Seq(Seq(Cell)))
    BY ImportAssumption, Zenon
  <2> QED BY <2>1
<1>2. Parsed[s] = Parse(Snapshots[s])
  BY DEF Parsed
<1>3. Parsed[s] \in Seq(AnyRow) /\ Says(Snapshots[s]) = LastOnes(Parsed[s])
  BY <1>1, <1>2, SaysIs
<1> QED BY <1>3

LEMMA RowFacts ==
  ASSUME Imports, NEW p \in Importer
  PROVE  /\ using[p] \in DOMAIN Snapshots
         /\ Rows(p) \in Seq(AnyRow) /\ Len(Rows(p)) \in Nat
         /\ Says(Snapshots[using[p]]) = LastOnes(Rows(p))
         /\ rest[p] \in Nat \ {0} /\ HasRow(p) => rest[p] \in 1..Len(Rows(p)) /\ Row(p) \in AnyRow
<1>1. using[p] \in DOMAIN Snapshots /\ rest[p] \in Nat
  BY DEF Imports
<1>2. /\ Rows(p) \in Seq(AnyRow) /\ Len(Rows(p)) \in Nat
      /\ Says(Snapshots[using[p]]) = LastOnes(Rows(p))
  BY <1>1, SheetsParsed DEF Rows
<1>3. ASSUME rest[p] \in Nat \ {0}, HasRow(p)
      PROVE  rest[p] \in 1..Len(Rows(p)) /\ Row(p) \in AnyRow
  <2>1. rest[p] \in 1..Len(Rows(p))
    BY <1>1, <1>2, <1>3 DEF HasRow
  <2>2. \A i \in 1..Len(Rows(p)) : Rows(p)[i] \in AnyRow
    BY <1>2
  <2> QED BY <2>1, <2>2 DEF Row
<1> QED BY <1>1, <1>2, <1>3

LEMMA ValidIfStorable ==
  ASSUME NEW content, Storable(content)
  PROVE  Valid(content)
  BY Zenon DEF Storable, Valid, InTable, OnGlobe

\* With one row more, the last ones are it and, of the others, those of other
\* volcanoes.
LEMMA OneRowMore ==
  ASSUME NEW rows, NEW r \in Nat \ {0}, NEW i \in 1..r, IsLast(rows, r, i)
  PROVE  \/ i = r
         \/ /\ i \in 1..(r - 1) /\ IsLast(rows, r - 1, i)
            /\ Storable(rows[r].content) => rows[i].ref # rows[r].ref
<1> SUFFICES ASSUME i # r
             PROVE  /\ i \in 1..(r - 1) /\ IsLast(rows, r - 1, i)
                    /\ Storable(rows[r].content) => rows[i].ref # rows[r].ref
  OBVIOUS
<1>1. i \in 1..(r - 1) /\ r > i /\ r \in 1..r /\ \A j \in 1..(r - 1) : j \in 1..r
  OBVIOUS
<1> QED BY <1>1 DEF IsLast

\* The import is where it was, and as far as nobody else wrote, so is the
\* catalogue.
LEMMA ImportStays ==
  ASSUME NEW p \in Importer, OneImport(p),
         pc'[p] = pc[p], using'[p] = using[p], rest'[p] = rest[p], seen'[p] = seen[p],
         \/ catalogue' = catalogue /\ alone'[p] = alone[p]
         \/ ~alone'[p]
  PROVE  OneImport(p)'
<1>1. Rows(p)' = Rows(p)
  BY DEF Rows
<1>2. catalogue' = catalogue => ShownRows' = ShownRows
  BY DEF ShownRows
<1>3. HasRow(p)' <=> HasRow(p)
  BY <1>1 DEF HasRow
<1>4. Progress(p) => Progress(p)'
  BY <1>1 DEF Progress, Shows
<1> QED BY <1>1, <1>2, <1>3, <1>4 DEF OneImport

\* The next row is dealt with, and the catalogue shows it.
LEMMA RowTaken ==
  ASSUME Imports, NEW p \in Importer, Progress(p), HasRow(p), Storable(Row(p).content),
         pc'[p] = "upsert", using'[p] = using[p], rest'[p] = rest[p] + 1,
         seen'[p] = seen[p] \cup {Row(p).ref}, alone'[p] <=> alone[p],
         ShowsAfter(Row(p)),
         \A i \in 1..Len(Rows(p)) :
            Shows(Rows(p)[i]) /\ Rows(p)[i].ref # Row(p).ref => ShowsAfter(Rows(p)[i])
  PROVE  OneImport(p)'
<1> DEFINE rows == Rows(p)
           r == rest[p]
<1>1. Rows(p)' = rows /\ Row(p) = rows[r]
  BY DEF Rows, Row
<1>2. r \in Nat \ {0} /\ Len(rows) \in Nat /\ r \in 1..Len(rows)
  BY RowFacts DEF Progress
<1>3. rest'[p] = r + 1 /\ r + 1 - 1 = r /\ 1..r = 1..(r - 1) \cup {r} /\ r - 1 \in Nat
  BY <1>2
<1>4. seen'[p] = {rows[i].ref : i \in {j \in 1..r : Storable(rows[j].content)}}
  <2>1. seen[p] = {rows[i].ref : i \in {j \in 1..(r - 1) : Storable(rows[j].content)}}
    BY DEF Progress
  <2>2. seen'[p] = seen[p] \cup {rows[r].ref} /\ Storable(rows[r].content)
    BY <1>1
  <2> HIDE DEF rows, r
  <2> QED BY <1>3, <2>1, <2>2
<1>5. ASSUME alone'[p], NEW i \in 1..r, IsLast(rows, r, i)
      PROVE  ShowsAfter(rows[i])
  <2>1. CASE i = r
    BY <1>1, <2>1
  <2>2. CASE i # r
    <3>1. i \in 1..(r - 1) /\ IsLast(rows, r - 1, i) /\ rows[i].ref # rows[r].ref
      BY <1>1, <1>2, <1>5, <2>2, OneRowMore
    <3>2. Shows(rows[i])
      BY <1>5, <3>1 DEF Progress
    <3>3. i \in 1..Len(rows)
      BY <1>2
    <3> QED BY <1>1, <3>1, <3>2, <3>3
  <2> QED BY <2>1, <2>2
<1>6. Progress(p)'
  <2>1. rest'[p] \in Nat \ {0} /\ rest'[p] <= Len(rows) + 1
    BY <1>2, <1>3
  <2> QED BY <1>1, <1>3, <1>4, <1>5, <2>1 DEF Progress, Shows, ShowsAfter
<1> QED BY <1>6 DEF OneImport

\* The next row is dealt with, and the table cannot take it.
LEMMA RowSkipped ==
  ASSUME Imports, NEW p \in Importer, Progress(p), HasRow(p), ~Storable(Row(p).content),
         pc'[p] = "upsert", using'[p] = using[p], rest'[p] = rest[p] + 1,
         seen'[p] = seen[p], alone'[p] <=> alone[p], catalogue' = catalogue
  PROVE  OneImport(p)'
<1> DEFINE rows == Rows(p)
           r == rest[p]
<1>1. Rows(p)' = rows /\ Row(p) = rows[r]
  BY DEF Rows, Row
<1>2. r \in Nat \ {0} /\ Len(rows) \in Nat /\ r \in 1..Len(rows)
  BY RowFacts DEF Progress
<1>3. rest'[p] = r + 1 /\ r + 1 - 1 = r /\ 1..r = 1..(r - 1) \cup {r} /\ r - 1 \in Nat
  BY <1>2
<1>4. seen'[p] = {rows[i].ref : i \in {j \in 1..r : Storable(rows[j].content)}}
  <2>1. seen[p] = {rows[i].ref : i \in {j \in 1..(r - 1) : Storable(rows[j].content)}}
    BY DEF Progress
  <2>2. seen'[p] = seen[p] /\ ~Storable(rows[r].content)
    BY <1>1
  <2> HIDE DEF rows, r
  <2> QED BY <1>3, <2>1, <2>2
<1>5. ASSUME alone'[p], NEW i \in 1..r, IsLast(rows, r, i)
      PROVE  ShowsAfter(rows[i])
  <2>1. i # r
    BY <1>1, <1>5 DEF IsLast
  <2>2. i \in 1..(r - 1) /\ IsLast(rows, r - 1, i)
    BY <1>2, <1>5, <2>1, OneRowMore
  <2>3. Shows(rows[i])
    BY <1>5, <2>2 DEF Progress
  <2> QED BY <2>3 DEF Shows, ShowsAfter
<1>6. Progress(p)'
  <2>1. rest'[p] \in Nat \ {0} /\ rest'[p] <= Len(rows) + 1
    BY <1>2, <1>3
  <2>2. alone'[p] => \A i \in 1..r : IsLast(rows, r, i) => ShowsAfter(rows[i])
    BY <1>5
  <2>3. rest'[p] - 1 = r
    BY <1>2, <1>3
  <2> HIDE DEF rows, r
  <2> QED BY <1>1, <1>4, <2>1, <2>2, <2>3 DEF Progress, Shows, ShowsAfter
<1> QED BY <1>6 DEF OneImport

\* What is not in the sheet is marked, and the catalogue shows the sheet.
LEMMA MarkedIsSaid ==
  ASSUME CatalogueInv, Imports, NEW p \in Importer, Progress(p), MarkAbsent(p), alone[p]
  PROVE  Says(Snapshots[using[p]]) = ShownRows'
<1> DEFINE rows == Rows(p)
           m == Len(rows)
           said == Says(Snapshots[using[p]])
<1>1. /\ rows \in Seq(AnyRow) /\ m \in Nat /\ DOMAIN rows = 1..m
      /\ said = {rows[i] : i \in {j \in 1..m : IsLast(rows, m, j)}}
      /\ rest[p] \in Nat \ {0} /\ rest[p] <= m + 1
  <2>1. rows \in Seq(AnyRow) /\ said = LastOnes(rows)
    BY RowFacts
  <2>2. rest[p] \in Nat \ {0} /\ rest[p] <= m + 1
    BY DEF Progress
  <2> HIDE DEF rows, said
  <2>3. m \in Nat /\ DOMAIN rows = 1..m
    BY <2>1
  <2> QED BY <2>1, <2>2, <2>3 DEF LastOnes
<1>2. rest[p] - 1 = m
  BY <1>1 DEF MarkAbsent, HasRow
<1>3. /\ seen[p] = {rows[i].ref : i \in {j \in 1..m : Storable(rows[j].content)}}
      /\ \A i \in 1..m : IsLast(rows, m, i) => Shows(rows[i])
  BY <1>2 DEF Progress
<1> HIDE DEF rows, m, said
<1> DEFINE gone == {i \in DOMAIN catalogue :
                      ~catalogue[i].absent /\ catalogue[i].ref \notin seen[p]}
<1>4. catalogue' = [i \in DOMAIN catalogue |->
                      [catalogue[i] EXCEPT !.absent = catalogue[i].absent \/ i \in gone]]
  BY Zenon DEF MarkAbsent
<1>5. \A v \in DOMAIN catalogue :
         /\ catalogue[v] = [ref |-> catalogue[v].ref, content |-> catalogue[v].content,
                            absent |-> catalogue[v].absent]
         /\ catalogue[v].absent \in BOOLEAN
  BY DEF CatalogueInv, IsTable
<1>6. DOMAIN catalogue' = DOMAIN catalogue
  BY <1>4
<1>7. ASSUME NEW v \in DOMAIN catalogue
      PROVE  /\ catalogue'[v].ref = catalogue[v].ref
             /\ catalogue'[v].content = catalogue[v].content
             /\ ~catalogue'[v].absent <=> ~catalogue[v].absent /\ catalogue[v].ref \in seen[p]
  <2> DEFINE mark == catalogue[v].absent \/ v \in gone
  <2>1. catalogue'[v] = [catalogue[v] EXCEPT !.absent = mark]
    BY <1>4
  <2>2. ~mark <=> ~catalogue[v].absent /\ catalogue[v].ref \in seen[p]
    OBVIOUS
  <2> HIDE DEF mark, gone
  <2>3. catalogue'[v] = [ref |-> catalogue[v].ref, content |-> catalogue[v].content, absent |-> mark]
    BY <1>5, <2>1
  <2> QED BY <2>2, <2>3
<1>8. ShownRows' = {[ref |-> catalogue[v].ref, content |-> catalogue[v].content] :
                      v \in {w \in DOMAIN catalogue : ~catalogue[w].absent /\ catalogue[w].ref \in seen[p]}}
  <2>1. ShownRows' = {[ref |-> catalogue'[v].ref, content |-> catalogue'[v].content] :
                        v \in {w \in DOMAIN catalogue : ~catalogue'[w].absent}}
    BY <1>6 DEF ShownRows, Range
  <2> HIDE DEF gone
  <2> QED BY <1>7, <2>1
<1>9. \A i \in 1..m : rows[i] = [ref |-> rows[i].ref, content |-> rows[i].content]
  <2>1. \A row \in AnyRow : row = [ref |-> row.ref, content |-> row.content]
    BY DEF AnyRow
  <2>2. \A i \in 1..m : rows[i] \in AnyRow
    BY <1>1
  <2> QED BY <2>1, <2>2
<1>10. ASSUME NEW i \in 1..m, IsLast(rows, m, i)
       PROVE  rows[i] \in ShownRows'
  <2>1. PICK v \in DOMAIN catalogue : catalogue[v] = Present(rows[i].ref, rows[i].content)
    BY <1>3, <1>10 DEF Shows
  <2>2. catalogue[v].ref = rows[i].ref /\ catalogue[v].content = rows[i].content /\ ~catalogue[v].absent
    BY <2>1 DEF Present
  <2>3. rows[i].ref \in seen[p]
    BY <1>3, <1>10 DEF IsLast
  <2>4. rows[i] = [ref |-> catalogue[v].ref, content |-> catalogue[v].content]
    BY <1>9, <2>2
  <2> QED BY <1>8, <2>2, <2>3, <2>4
<1>11. ASSUME NEW v \in DOMAIN catalogue, ~catalogue[v].absent, catalogue[v].ref \in seen[p]
       PROVE  [ref |-> catalogue[v].ref, content |-> catalogue[v].content] \in said
  <2> DEFINE those == {j \in 1..m : Storable(rows[j].content) /\ rows[j].ref = catalogue[v].ref}
  <2>1. those \in SUBSET Nat /\ those # {} /\ \A j \in those : j <= m
    BY <1>1, <1>3, <1>11
  <2>2. PICK i \in those : \A j \in those : j <= i
    BY <1>1, <2>1, GreatestExists
  <2>3. i \in 1..m /\ Storable(rows[i].content) /\ rows[i].ref = catalogue[v].ref
    OBVIOUS
  <2>4. \A j \in 1..m : j > i /\ Storable(rows[j].content) => rows[j].ref # rows[i].ref
    <3> SUFFICES ASSUME NEW j \in 1..m, j > i, Storable(rows[j].content), rows[j].ref = rows[i].ref
                 PROVE  FALSE
      OBVIOUS
    <3>1. j \in those
      BY <2>3
    <3>2. j <= i /\ i \in Nat /\ j \in Nat
      BY <2>1, <2>2, <3>1
    <3> HIDE DEF those
    <3> QED BY <3>2
  <2>5. IsLast(rows, m, i)
    BY <2>3, <2>4 DEF IsLast
  <2>6. PICK w \in DOMAIN catalogue : catalogue[w] = Present(rows[i].ref, rows[i].content)
    BY <1>3, <2>3, <2>5 DEF Shows
  <2>7. catalogue[w].ref = catalogue[v].ref /\ catalogue[w].content = rows[i].content
    BY <2>3, <2>6 DEF Present
  <2>8. w = v
    BY <2>7 DEF CatalogueInv, OneRowPerVolcano
  <2>9. rows[i] = [ref |-> catalogue[v].ref, content |-> catalogue[v].content]
    BY <1>9, <2>3, <2>7, <2>8
  <2> HIDE DEF those
  <2> QED BY <1>1, <2>3, <2>5, <2>9
<1>12. said = ShownRows'
  BY <1>1, <1>8, <1>10, <1>11
<1> QED BY <1>12 DEF said

\* Who writes disturbs the others, and not itself.
LEMMA DisturbFacts ==
  ASSUME Imports, NEW p \in Importer, Disturb(p)
  PROVE  /\ alone' \in [Importer -> BOOLEAN] /\ alone'[p] = alone[p]
         /\ \A q \in Importer : q # p => ~alone'[q]
<1>1. /\ alone' = [q \in Importer |-> alone[q] /\ q = p]
      /\ \A q \in Importer : alone[q] \in BOOLEAN
  BY DEF Disturb, Imports
<1>2. alone' \in [Importer -> BOOLEAN]
  BY <1>1
<1>3. alone'[p] = (alone[p] /\ p = p) /\ \A q \in Importer : alone'[q] = (alone[q] /\ q = p)
  BY <1>1
<1> QED BY <1>1, <1>2, <1>3

LEMMA GotoFacts ==
  ASSUME Imports, NEW p \in Importer, NEW label \in PC, Goto(p, label)
  PROVE  /\ pc' \in [Importer -> PC] /\ pc'[p] = label
         /\ \A q \in Importer : q # p => pc'[q] = pc[q]
  BY DEF Imports, Goto

LEMMA NextRowFacts ==
  ASSUME Imports, NEW p \in Importer, NextRow(p)
  PROVE  /\ rest' \in [Importer -> Nat] /\ rest'[p] = rest[p] + 1
         /\ \A q \in Importer : q # p => rest'[q] = rest[q]
<1>1. rest \in [Importer -> Nat] /\ rest' = [rest EXCEPT ![p] = rest[p] + 1] /\ rest[p] + 1 \in Nat
  BY DEF Imports, NextRow
<1> QED BY <1>1

LEMMA SeeFacts ==
  ASSUME Imports, NEW p \in Importer, See(p), Row(p) \in AnyRow
  PROVE  /\ seen' \in [Importer -> SUBSET Text] /\ seen'[p] = seen[p] \cup {Row(p).ref}
         /\ \A q \in Importer : q # p => seen'[q] = seen[q]
<1>1. Row(p).ref \in Text
  BY DEF AnyRow
<1>2. seen \in [Importer -> SUBSET Text] /\ seen' = [seen EXCEPT ![p] = seen[p] \cup {Row(p).ref}]
  BY DEF Imports, See
<1> QED BY <1>1, <1>2

\* A write of the next row, wherever it goes.
LEMMA RowWritten ==
  ASSUME Imports, NEW p \in Importer, Progress(p), HasRow(p), Storable(Row(p).content),
         AfterWrite(p), \A q \in Importer : OneImport(q),
         ShowsAfter(Row(p)),
         \A row : Shows(row) /\ row.ref # Row(p).ref => ShowsAfter(row)
  PROVE  Imports' /\ \A q \in Importer : OneImport(q)'
<1>1. See(p) /\ NextRow(p) /\ Disturb(p) /\ Goto(p, "upsert") /\ UNCHANGED <<files, using>>
  BY DEF AfterWrite
<1>2. Row(p) \in AnyRow /\ "upsert" \in PC
  BY RowFacts DEF Progress, PC
<1>3. /\ alone' \in [Importer -> BOOLEAN] /\ alone'[p] = alone[p]
      /\ \A q \in Importer : q # p => ~alone'[q]
  BY <1>1, DisturbFacts
<1>4. /\ pc' \in [Importer -> PC] /\ pc'[p] = "upsert"
      /\ \A q \in Importer : q # p => pc'[q] = pc[q]
  BY <1>1, <1>2, GotoFacts
<1>5. /\ rest' \in [Importer -> Nat] /\ rest'[p] = rest[p] + 1
      /\ \A q \in Importer : q # p => rest'[q] = rest[q]
  BY <1>1, NextRowFacts
<1>6. /\ seen' \in [Importer -> SUBSET Text] /\ seen'[p] = seen[p] \cup {Row(p).ref}
      /\ \A q \in Importer : q # p => seen'[q] = seen[q]
  BY <1>1, <1>2, SeeFacts
<1>7. Imports'
  BY <1>1, <1>3, <1>4, <1>5, <1>6 DEF Imports, files
<1>8. using' = using
  BY <1>1
<1>9. OneImport(p)'
  BY <1>3, <1>4, <1>5, <1>6, <1>8, RowTaken
<1>10. ASSUME NEW q \in Importer, q # p PROVE OneImport(q)'
  BY <1>3, <1>4, <1>5, <1>6, <1>8, <1>10, ImportStays
<1> QED BY <1>7, <1>9, <1>10

\* Steps of an import that leave the catalogue alone.
LEMMA ImportReads ==
  ASSUME ImportsInv, NEW p \in Importer,
         \/ VerifyChecksum(p) \/ ReadSnapshot(p) \/ RejectRow(p) \/ LookUpUnchanged(p)
         \/ LookUpChanged(p) \/ Abort(p)
  PROVE  Imports' /\ \A q \in Importer : OneImport(q)'
<1>0. /\ CatalogueInv /\ Imports /\ \A q \in Importer : OneImport(q)
      /\ \A v \in DOMAIN catalogue : Storable(catalogue[v].content)
  BY DEF ImportsInv
<1>1. catalogue' = catalogue /\ installed' = installed
  BY DEF VerifyChecksum, ReadSnapshot, RejectRow, LookUpUnchanged, LookUpChanged, Abort, files
<1>2. \A label \in {"idle", "checked", "upsert", "insert", "update"} : label \in PC
  BY DEF PC
<1>3. ASSUME NEW label \in {"idle", "checked"}, Goto(p, label), UNCHANGED locals
      PROVE  Imports' /\ \A q \in Importer : OneImport(q)'
  <2>1. /\ pc' \in [Importer -> PC] /\ pc'[p] = label
        /\ \A q \in Importer : q # p => pc'[q] = pc[q]
    BY <1>0, <1>2, <1>3, GotoFacts
  <2>2. using' = using /\ rest' = rest /\ seen' = seen /\ alone' = alone
    BY <1>3 DEF locals
  <2>3. Imports'
    BY <1>0, <1>1, <2>1, <2>2 DEF Imports
  <2>4. OneImport(p)'
    BY <2>1 DEF OneImport, Busy
  <2>5. ASSUME NEW q \in Importer, q # p PROVE OneImport(q)'
    BY <1>0, <1>1, <2>1, <2>2, <2>5, ImportStays
  <2> QED BY <2>3, <2>4, <2>5
<1>4. CASE VerifyChecksum(p) \/ Abort(p)
  BY <1>3, <1>4 DEF VerifyChecksum, Abort
<1>5. CASE ReadSnapshot(p)
  <2>1. /\ using' = [using EXCEPT ![p] = installed] /\ rest' = [rest EXCEPT ![p] = 1]
        /\ seen' = [seen EXCEPT ![p] = {}] /\ alone' = [alone EXCEPT ![p] = TRUE]
        /\ Goto(p, "upsert")
    BY <1>5 DEF ReadSnapshot
  <2>2. /\ pc' \in [Importer -> PC] /\ pc'[p] = "upsert"
        /\ \A q \in Importer : q # p => pc'[q] = pc[q]
    BY <1>0, <1>2, <2>1, GotoFacts
  <2>3. /\ using \in [Importer -> DOMAIN Snapshots] /\ installed \in DOMAIN Snapshots
        /\ rest \in [Importer -> Nat] /\ seen \in [Importer -> SUBSET Text]
        /\ alone \in [Importer -> BOOLEAN]
    BY <1>0 DEF Imports
  <2>4. Imports'
    BY <1>0, <1>1, <2>1, <2>2, <2>3 DEF Imports
  <2>5. rest'[p] = 1 /\ seen'[p] = {}
    BY <2>1, <2>3
  <2>6. Len(Parsed[using'[p]]) \in Nat
    BY <2>1, <2>3, SheetsParsed
  <2>7. Progress(p)'
    <3>1. rest'[p] \in Nat \ {0} /\ 1..(rest'[p] - 1) = {} /\ rest'[p] <= Len(Rows(p)') + 1
      BY <2>5, <2>6 DEF Rows
    <3> QED BY <2>5, <3>1 DEF Progress
  <2>8. OneImport(p)'
    BY <2>2, <2>7 DEF OneImport
  <2>9. ASSUME NEW q \in Importer, q # p PROVE OneImport(q)'
    <3>1. using'[q] = using[q] /\ rest'[q] = rest[q] /\ seen'[q] = seen[q] /\ alone'[q] = alone[q]
      BY <2>1, <2>3, <2>9
    <3> QED BY <1>0, <1>1, <2>2, <2>9, <3>1, ImportStays
  <2> QED BY <2>4, <2>8, <2>9
<1>6. CASE RejectRow(p)
  <2>1. /\ pc[p] = "upsert" /\ HasRow(p) /\ ~Valid(Row(p).content) /\ NextRow(p)
        /\ pc' = pc /\ using' = using /\ seen' = seen /\ alone' = alone
    BY <1>6 DEF RejectRow
  <2>2. /\ rest' \in [Importer -> Nat] /\ rest'[p] = rest[p] + 1
        /\ \A q \in Importer : q # p => rest'[q] = rest[q]
    BY <1>0, <2>1, NextRowFacts
  <2>3. Imports'
    BY <1>0, <1>1, <2>1, <2>2 DEF Imports
  <2>4. Progress(p) /\ ~Storable(Row(p).content)
    BY <1>0, <2>1, ValidIfStorable DEF OneImport, Busy
  <2>5. OneImport(p)'
    BY <1>0, <1>1, <2>1, <2>2, <2>4, RowSkipped
  <2>6. ASSUME NEW q \in Importer, q # p PROVE OneImport(q)'
    BY <1>0, <1>1, <2>1, <2>2, <2>6, ImportStays
  <2> QED BY <2>3, <2>5, <2>6
<1>7. CASE LookUpUnchanged(p)
  <2>1. /\ pc[p] = "upsert" /\ HasRow(p) /\ Unchanged(p) /\ See(p) /\ NextRow(p)
        /\ pc' = pc /\ using' = using /\ alone' = alone
    BY <1>7 DEF LookUpUnchanged
  <2>2. /\ rest' \in [Importer -> Nat] /\ rest'[p] = rest[p] + 1
        /\ \A q \in Importer : q # p => rest'[q] = rest[q]
    BY <1>0, <2>1, NextRowFacts
  <2>3. Progress(p)
    BY <1>0, <2>1 DEF OneImport, Busy
  <2>4. Row(p) \in AnyRow
    BY <1>0, <2>1, <2>3, RowFacts DEF Progress
  <2>5. /\ seen' \in [Importer -> SUBSET Text] /\ seen'[p] = seen[p] \cup {Row(p).ref}
        /\ \A q \in Importer : q # p => seen'[q] = seen[q]
    BY <1>0, <2>1, <2>4, SeeFacts
  <2>6. Imports'
    BY <1>0, <1>1, <2>1, <2>2, <2>5 DEF Imports
  <2>7. PICK i \in DOMAIN catalogue : /\ catalogue[i].ref = Row(p).ref
                                      /\ catalogue[i].content = Row(p).content
                                      /\ ~catalogue[i].absent
    BY <2>1 DEF Unchanged, Stored
  <2>8. Storable(Row(p).content)
    BY <1>0, <2>7
  <2>9. ShowsAfter(Row(p))
    <3>1. catalogue[i] = [ref |-> catalogue[i].ref, content |-> catalogue[i].content,
                          absent |-> catalogue[i].absent] /\ catalogue[i].absent \in BOOLEAN
      BY <1>0 DEF CatalogueInv, IsTable
    <3>2. catalogue[i].absent = FALSE
      BY <2>7, <3>1
    <3>3. catalogue[i] = Present(Row(p).ref, Row(p).content)
      BY <2>7, <3>1, <3>2 DEF Present
    <3> QED BY <1>1, <3>3 DEF ShowsAfter
  <2>10. \A row : Shows(row) => ShowsAfter(row)
    BY <1>1 DEF Shows, ShowsAfter
  <2>11. OneImport(p)'
    BY <1>0, <2>1, <2>2, <2>3, <2>5, <2>8, <2>9, <2>10, RowTaken
  <2>12. ASSUME NEW q \in Importer, q # p PROVE OneImport(q)'
    BY <1>0, <1>1, <2>1, <2>2, <2>5, <2>12, ImportStays
  <2> QED BY <2>6, <2>11, <2>12
<1>8. CASE LookUpChanged(p)
  <2> DEFINE label == IF Stored(Row(p).ref) = {} THEN "insert" ELSE "update"
  <2>1. /\ pc[p] = "upsert" /\ HasRow(p) /\ Goto(p, label) /\ UNCHANGED locals
    BY <1>8 DEF LookUpChanged
  <2>2. label \in {"insert", "update"}
    OBVIOUS
  <2> HIDE DEF label
  <2>3. /\ pc' \in [Importer -> PC] /\ pc'[p] \in {"insert", "update"}
        /\ \A q \in Importer : q # p => pc'[q] = pc[q]
    BY <1>0, <1>2, <2>1, <2>2, GotoFacts
  <2>4. using' = using /\ rest' = rest /\ seen' = seen /\ alone' = alone
    BY <2>1 DEF locals
  <2>5. Imports'
    BY <1>0, <1>1, <2>3, <2>4 DEF Imports
  <2>6. OneImport(p)'
    <3>1. Progress(p)
      BY <1>0, <2>1 DEF OneImport, Busy
    <3>2. Rows(p)' = Rows(p)
      BY <2>4 DEF Rows
    <3>3. HasRow(p)'
      BY <2>1, <2>4, <3>2 DEF HasRow
    <3>4. Progress(p)'
      BY <1>1, <2>4, <3>1, <3>2 DEF Progress, Shows
    <3> QED BY <2>3, <3>3, <3>4 DEF OneImport
  <2>7. ASSUME NEW q \in Importer, q # p PROVE OneImport(q)'
    BY <1>0, <1>1, <2>3, <2>4, <2>7, ImportStays
  <2> QED BY <2>5, <2>6, <2>7
<1> QED BY <1>4, <1>5, <1>6, <1>7, <1>8

\* Steps that write.
LEMMA ImportWrites ==
  ASSUME ImportsInv, NEW p \in Importer, Insert(p) \/ Update(p)
  PROVE  /\ Imports' /\ \A q \in Importer : OneImport(q)'
         /\ \A v \in DOMAIN catalogue' : Storable(catalogue'[v].content)
<1> DEFINE row == Present(Row(p).ref, Row(p).content)
           n == Len(catalogue)
<1>0. /\ CatalogueInv /\ Imports /\ \A q \in Importer : OneImport(q)
      /\ \A v \in DOMAIN catalogue : Storable(catalogue[v].content)
  BY DEF ImportsInv
<1>1. /\ pc[p] \in {"insert", "update"} /\ AfterWrite(p) /\ Storable(Row(p).content)
  BY DEF Insert, Update
<1>2. Progress(p) /\ HasRow(p)
  BY <1>0, <1>1 DEF OneImport, Busy
<1>3. catalogue \in Seq(Range(catalogue)) /\ n \in Nat /\ DOMAIN catalogue = 1..n
  BY <1>0 DEF CatalogueInv, IsTable
<1>4. row.ref = Row(p).ref /\ row.content = Row(p).content
  BY DEF Present
<1>5. /\ \E i \in DOMAIN catalogue' : catalogue'[i] = row
      /\ \A i \in DOMAIN catalogue' : catalogue'[i] = row
            \/ (i \in DOMAIN catalogue /\ catalogue'[i] = catalogue[i])
      /\ \A i \in DOMAIN catalogue : catalogue[i].ref # row.ref =>
            i \in DOMAIN catalogue' /\ catalogue'[i] = catalogue[i]
  <2>1. CASE Insert(p)
    <3>1. catalogue' = Append(catalogue, row)
      BY <2>1 DEF Insert
    <3> HIDE DEF row
    <3>2. /\ DOMAIN catalogue' = 1..(n + 1) /\ catalogue'[n + 1] = row
          /\ \A i \in 1..n : catalogue'[i] = catalogue[i]
      <4>1. catalogue \in Seq(Range(catalogue) \cup {row})
        BY <1>3
      <4> QED BY <1>3, <3>1, <4>1
    <3>3. 1..(n + 1) = 1..n \cup {n + 1}
      BY <1>3
    <3>4. \E i \in DOMAIN catalogue' : catalogue'[i] = row
      <4>1. n + 1 \in DOMAIN catalogue'
        BY <3>2, <3>3
      <4> QED BY <3>2, <4>1
    <3>5. ASSUME NEW i \in DOMAIN catalogue'
          PROVE  catalogue'[i] = row \/ (i \in DOMAIN catalogue /\ catalogue'[i] = catalogue[i])
      <4>1. i \in 1..n \/ i = n + 1
        BY <3>2, <3>3, <3>5, Zenon
      <4> QED BY <1>3, <3>2, <4>1, Zenon
    <3>6. ASSUME NEW i \in DOMAIN catalogue
          PROVE  i \in DOMAIN catalogue' /\ catalogue'[i] = catalogue[i]
      BY <1>3, <3>2, <3>3, <3>6, Zenon
    <3> QED BY <3>4, <3>5, <3>6, Zenon
  <2>2. CASE Update(p)
    <3>1. PICK i \in Stored(Row(p).ref) : catalogue' = [catalogue EXCEPT ![i] = row]
      BY <2>2 DEF Update
    <3>2. i \in DOMAIN catalogue /\ catalogue[i].ref = row.ref
      BY <1>4 DEF Stored
    <3> HIDE DEF row
    <3>3. /\ DOMAIN catalogue' = DOMAIN catalogue /\ catalogue'[i] = row
          /\ \A j \in DOMAIN catalogue : j # i => catalogue'[j] = catalogue[j]
      BY <3>1, <3>2
    <3>4. \E j \in DOMAIN catalogue' : catalogue'[j] = row
      BY <3>2, <3>3, Zenon
    <3>5. ASSUME NEW j \in DOMAIN catalogue'
          PROVE  catalogue'[j] = row \/ (j \in DOMAIN catalogue /\ catalogue'[j] = catalogue[j])
      BY <3>3, <3>5, Zenon
    <3>6. ASSUME NEW j \in DOMAIN catalogue, catalogue[j].ref # row.ref
          PROVE  j \in DOMAIN catalogue' /\ catalogue'[j] = catalogue[j]
      BY <3>2, <3>3, <3>6, Zenon
    <3> QED BY <3>4, <3>5, <3>6, Zenon
  <2> QED BY <2>1, <2>2
<1>6. ShowsAfter(Row(p))
  BY <1>5 DEF ShowsAfter
<1>7. ASSUME NEW other, Shows(other), other.ref # Row(p).ref
      PROVE  ShowsAfter(other)
  <2>1. PICK v \in DOMAIN catalogue : catalogue[v] = Present(other.ref, other.content)
    BY <1>7 DEF Shows
  <2>2. catalogue[v].ref = other.ref
    BY <2>1 DEF Present
  <2>3. v \in DOMAIN catalogue' /\ catalogue'[v] = catalogue[v]
    BY <1>4, <1>5, <1>7, <2>2
  <2> QED BY <2>1, <2>3 DEF ShowsAfter
<1>8. Imports' /\ \A q \in Importer : OneImport(q)'
  BY <1>0, <1>1, <1>2, <1>6, <1>7, RowWritten
<1>9. \A v \in DOMAIN catalogue' : Storable(catalogue'[v].content)
  <2> SUFFICES ASSUME NEW v \in DOMAIN catalogue' PROVE Storable(catalogue'[v].content)
    OBVIOUS
  <2>1. catalogue'[v] = row \/ (v \in DOMAIN catalogue /\ catalogue'[v] = catalogue[v])
    BY <1>5
  <2> HIDE DEF row
  <2> QED BY <1>0, <1>1, <1>4, <2>1
<1> QED BY <1>8, <1>9

LEMMA ImportMarks ==
  ASSUME ImportsInv, NEW p \in Importer, MarkAbsent(p)
  PROVE  /\ Imports' /\ \A q \in Importer : OneImport(q)'
         /\ \A v \in DOMAIN catalogue' : Storable(catalogue'[v].content)
<1> DEFINE gone == {i \in DOMAIN catalogue :
                      ~catalogue[i].absent /\ catalogue[i].ref \notin seen[p]}
           calm == gone = {}
<1>0. /\ CatalogueInv /\ Imports /\ \A q \in Importer : OneImport(q)
      /\ \A v \in DOMAIN catalogue : Storable(catalogue[v].content)
  BY DEF ImportsInv
<1>1. /\ pc[p] = "upsert" /\ Goto(p, "done") /\ installed' = installed
      /\ using' = using /\ rest' = rest /\ seen' = seen
  BY DEF MarkAbsent, files
<1>2. /\ catalogue' = [i \in DOMAIN catalogue |->
                         [catalogue[i] EXCEPT !.absent = catalogue[i].absent \/ i \in gone]]
      /\ alone' = [q \in Importer |-> alone[q] /\ (q = p \/ gone = {})]
  BY Zenon DEF MarkAbsent
<1>3. \A v \in DOMAIN catalogue :
         /\ catalogue[v] = [ref |-> catalogue[v].ref, content |-> catalogue[v].content,
                            absent |-> catalogue[v].absent]
         /\ catalogue[v].absent \in BOOLEAN
  BY <1>0 DEF CatalogueInv, IsTable
<1>4. /\ pc' \in [Importer -> PC] /\ pc'[p] = "done"
      /\ \A q \in Importer : q # p => pc'[q] = pc[q]
  <2>1. "done" \in PC
    BY DEF PC
  <2> QED BY <1>0, <1>1, <2>1, GotoFacts
<1>5. /\ DOMAIN catalogue' = DOMAIN catalogue
      /\ \A v \in DOMAIN catalogue :
            catalogue'[v] = [catalogue[v] EXCEPT !.absent = catalogue[v].absent \/ v \in gone]
  BY <1>2
<1>6. ASSUME NEW v \in DOMAIN catalogue
      PROVE  /\ catalogue'[v].content = catalogue[v].content
             /\ v \notin gone => catalogue'[v] = catalogue[v]
  <2> DEFINE mark == catalogue[v].absent \/ v \in gone
  <2>1. catalogue'[v] = [catalogue[v] EXCEPT !.absent = mark]
    BY <1>5
  <2>2. v \notin gone => mark = catalogue[v].absent
    BY <1>3
  <2> HIDE DEF mark, gone
  <2>3. catalogue'[v] = [ref |-> catalogue[v].ref, content |-> catalogue[v].content, absent |-> mark]
    BY <1>3, <2>1
  <2> QED BY <1>3, <2>2, <2>3
<1>7. gone = {} => catalogue' = catalogue
  <2> SUFFICES ASSUME gone = {} PROVE catalogue' = catalogue
    OBVIOUS
  <2>1. \A v \in DOMAIN catalogue : catalogue'[v] = catalogue[v]
    BY <1>6
  <2>2. catalogue' = [v \in DOMAIN catalogue |-> catalogue'[v]]
    BY <1>2
  <2>3. catalogue = [v \in DOMAIN catalogue |-> catalogue[v]]
    <3>1. catalogue \in Seq(Range(catalogue))
      BY <1>0 DEF CatalogueInv, IsTable
    <3> QED BY <3>1
  <2> HIDE DEF gone
  <2> QED BY <2>1, <2>2, <2>3
<1>8. /\ alone' \in [Importer -> BOOLEAN] /\ alone'[p] = alone[p]
      /\ \A q \in Importer : q # p => (~alone'[q] \/ (gone = {} /\ alone'[q] = alone[q]))
  <2>1. \A q \in Importer : alone[q] \in BOOLEAN
    BY <1>0 DEF Imports
  <2> HIDE DEF gone
  <2>2. \A q \in Importer : alone'[q] = (alone[q] /\ (q = p \/ gone = {}))
    BY <1>2
  <2>3. alone' \in [Importer -> BOOLEAN]
    BY <1>2, <2>1
  <2> QED BY <2>1, <2>2, <2>3
<1> HIDE DEF gone
<1>9. Imports'
  BY <1>0, <1>1, <1>4, <1>8 DEF Imports
<1>10. OneImport(p)'
  <2>1. Progress(p)
    BY <1>0, <1>1 DEF OneImport, Busy
  <2>2. alone[p] => Says(Snapshots[using[p]]) = ShownRows'
    BY <1>0, <2>1, MarkedIsSaid
  <2> QED BY <1>1, <1>4, <1>8, <2>2 DEF OneImport, Busy
<1>11. ASSUME NEW q \in Importer, q # p PROVE OneImport(q)'
  BY <1>0, <1>1, <1>4, <1>7, <1>8, <1>11, ImportStays
<1>12. \A v \in DOMAIN catalogue' : Storable(catalogue'[v].content)
  BY <1>0, <1>5, <1>6
<1> QED BY <1>9, <1>10, <1>11, <1>12

LEMMA ImportsStart == Init => ImportsInv
<1> SUFFICES ASSUME Init PROVE ImportsInv
  OBVIOUS
<1>1. /\ installed = 1 /\ catalogue = <<>>
      /\ pc = [p \in Importer |-> "idle"] /\ using = [p \in Importer |-> 1]
      /\ rest = [p \in Importer |-> 0] /\ seen = [p \in Importer |-> {}]
      /\ alone = [p \in Importer |-> TRUE]
  BY DEF Init, ImportInit
<1>2. 1 \in DOMAIN Snapshots
  <2>1. Snapshots \in Seq(Seq(Seq(Cell))) /\ Snapshots # <<>>
    BY ImportAssumption, Zenon
  <2> QED BY <2>1
<1>3. "idle" \in PC /\ {} \in SUBSET Text
  BY DEF PC
<1>4. Imports
  BY <1>1, <1>2, <1>3 DEF Imports
<1>5. \A p \in Importer : OneImport(p)
  BY <1>1 DEF OneImport, Busy
<1>6. DOMAIN catalogue = {}
  BY <1>1
<1> QED BY <1>4, <1>5, <1>6, CatalogueStart DEF ImportsInv

LEMMA ImportsStep == ImportsInv /\ [Next]_allVars => ImportsInv'
<1> SUFFICES ASSUME ImportsInv, [Next]_allVars PROVE ImportsInv'
  OBVIOUS
<1>0. /\ CatalogueInv /\ Imports /\ \A q \in Importer : OneImport(q)
      /\ \A v \in DOMAIN catalogue : Storable(catalogue[v].content)
      /\ CatalogueInv'
  BY CatalogueStep DEF ImportsInv
<1>1. ASSUME catalogue' = catalogue, UNCHANGED <<pc, locals>>, installed' \in DOMAIN Snapshots
      PROVE  ImportsInv'
  <2>1. pc' = pc /\ using' = using /\ rest' = rest /\ seen' = seen /\ alone' = alone
    BY <1>1 DEF locals
  <2>2. Imports'
    BY <1>0, <1>1, <2>1 DEF Imports
  <2>3. \A q \in Importer : OneImport(q)'
    BY <1>0, <1>1, <2>1, ImportStays
  <2>4. \A v \in DOMAIN catalogue' : Storable(catalogue'[v].content)
    BY <1>0, <1>1
  <2> QED BY <1>0, <2>2, <2>3, <2>4 DEF ImportsInv
<1>2. ASSUME NEW p \in Importer, Import(p)
      PROVE  ImportsInv'
  <2>1. CASE Insert(p) \/ Update(p)
    BY <1>0, <2>1, ImportWrites DEF ImportsInv
  <2>2. CASE MarkAbsent(p)
    BY <1>0, <2>2, ImportMarks DEF ImportsInv
  <2>3. CASE \/ VerifyChecksum(p) \/ ReadSnapshot(p) \/ RejectRow(p) \/ LookUpUnchanged(p)
             \/ LookUpChanged(p) \/ Abort(p)
    <3>1. catalogue' = catalogue
      BY <2>3 DEF VerifyChecksum, ReadSnapshot, RejectRow, LookUpUnchanged, LookUpChanged, Abort
    <3>2. \A v \in DOMAIN catalogue' : Storable(catalogue'[v].content)
      BY <1>0, <3>1
    <3>3. Imports' /\ \A q \in Importer : OneImport(q)'
      BY <2>3, ImportReads
    <3> QED BY <1>0, <3>2, <3>3 DEF ImportsInv
  <2> QED BY <1>2, <2>1, <2>2, <2>3 DEF Import
<1>3. ASSUME NEW s \in DOMAIN Snapshots, ReplaceSnapshot(s)
      PROVE  ImportsInv'
  BY <1>1, <1>3 DEF ReplaceSnapshot
<1>4. installed \in DOMAIN Snapshots
  BY <1>0 DEF Imports
<1>5. CASE UpdateManifest
  BY <1>1, <1>4, <1>5 DEF UpdateManifest
<1>6. CASE ImportNext
  BY <1>2, <1>3, <1>5, <1>6 DEF ImportNext
<1>7. CASE StartWalk \/ FetchPage \/ FailWalk \/ UNCHANGED allVars
  BY <1>1, <1>4, <1>7 DEF StartWalk, FetchPage, FailWalk, vars, allVars, files
<1> QED BY <1>6, <1>7 DEF Next, ImportStep

\* An import that ran to its end with nobody else writing leaves the catalogue
\* showing exactly what its snapshot says, whatever earlier imports had left in it
\* (cmd/server/import.go, gvp.Parse, volcano.Upsert, MarkAbsent).
THEOREM LoneImportsAreExact == Spec => []LoneImportExact
<1>1. ImportsInv => LoneImportExact
  BY DEF ImportsInv, OneImport, LoneImportExact, Finished, ShownRows
<1> QED BY <1>1, ImportsStart, ImportsStep, PTL DEF Spec
==============================================================================
