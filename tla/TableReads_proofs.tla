-------------------------- MODULE TableReads_proofs --------------------------
(***************************************************************************)
(* What the readers of growing tables may rely on.  A consumer who walks   *)
(* the pages of GET /api/v1/earthquakes while a collection revises the     *)
(* events: proved for any number of events, revisions, pages and items per *)
(* page.  One who asks GET /api/v1/observations about the past: proved for *)
(* any keys, values and number of questions.                               *)
(***************************************************************************)
EXTENDS TableReads, Lists

\* The order of the walk: by id, or by distance and id around a point.
Precedes(i, j) ==
  IF walk.near
  THEN \/ table[i].value < table[j].value
       \/ table[i].value = table[j].value /\ i < j
  ELSE i < j

Walk == [stage : {"idle", "walking", "done"}, near : BOOLEAN, pinned : BOOLEAN,
         asOf : Nat, cursor : Cursor, seen : Seq(Nat), known : Nat]

PagesType ==
  /\ clock \in Nat
  /\ table \in Seq(Row)
  /\ inserting \subseteq Row
  /\ walk \in Walk
  /\ \A k \in DOMAIN walk.seen : walk.seen[k] \in DOMAIN table
  /\ walk.cursor.id <= Len(table) /\ walk.known <= Len(table)

\* Rows are committed in the order of their stamps, for one INSERT is under way
\* at a time; no stamp is in the future.
Stamped ==
  /\ \A i \in DOMAIN table : table[i].stamp <= clock
  /\ \A i, j \in DOMAIN table : i < j => table[i].stamp <= table[j].stamp
  /\ \A row \in inserting :
        row.stamp <= clock /\ \A i \in DOMAIN table : table[i].stamp <= row.stamp

\* The rows shown are in the order of the walk, none of them beyond the cursor
\* the next page resumes from.
InOrder ==
  /\ \A k, l \in DOMAIN walk.seen : k < l => Precedes(walk.seen[k], walk.seen[l])
  /\ walk.stage = "walking" => \A i \in DOMAIN table : BeyondCursor(i) => i \notin Seen

\* Invariant of every walk.
PagesInv == PagesType /\ Stamped /\ InOrder

----------------------------------------------------------------------------
(* Facts of one state.                                                     *)

LEMMA RowFacts ==
  ASSUME PagesType
  PROVE  /\ Len(table) \in Nat /\ DOMAIN table = 1..Len(table)
         /\ IsFiniteSet(DOMAIN table)
         /\ \A i \in DOMAIN table :
               /\ i \in Nat \ {0} /\ table[i].key \in Event
               /\ table[i].stamp \in Nat /\ table[i].value \in Nat
<1>1. Len(table) \in Nat /\ DOMAIN table = 1..Len(table)
  BY DEF PagesType
<1>2. IsFiniteSet(DOMAIN table)
  BY <1>1, FS_Interval
<1>3. \A i \in DOMAIN table : table[i] \in Row
  BY DEF PagesType
<1>4. \A row \in Row : row.key \in Event /\ row.stamp \in Nat /\ row.value \in Nat
  BY PagesAssumption DEF Row
<1> QED BY <1>1, <1>2, <1>3, <1>4

LEMMA WalkFacts ==
  ASSUME PagesType
  PROVE  /\ walk.cursor.id \in Nat /\ walk.cursor.distance \in Nat
         /\ walk.seen \in Seq(Nat) /\ Len(walk.seen) \in Nat
         /\ DOMAIN walk.seen = 1..Len(walk.seen)
         /\ walk.near \in BOOLEAN /\ walk.pinned \in BOOLEAN /\ walk.asOf \in Nat
         /\ walk.known \in Nat
<1>1. /\ walk.cursor \in Cursor /\ walk.seen \in Seq(Nat)
      /\ walk.near \in BOOLEAN /\ walk.pinned \in BOOLEAN /\ walk.asOf \in Nat
      /\ walk.known \in Nat
  BY DEF PagesType, Walk
<1> QED BY <1>1 DEF Cursor

LEMMA PrecedesIsOrder ==
  ASSUME PagesType, NEW i \in DOMAIN table, NEW j \in DOMAIN table
  PROVE  /\ ~(Precedes(i, j) /\ Precedes(j, i))
         /\ i # j => Precedes(i, j) \/ Precedes(j, i)
         /\ ~Precedes(i, i)
  BY RowFacts DEF Precedes

\* What the cursor leaves behind precedes what lies beyond it.
LEMMA CursorSplits ==
  ASSUME PagesType, NEW i \in DOMAIN table, NEW j \in DOMAIN table,
         ~BeyondCursor(i), BeyondCursor(j)
  PROVE  Precedes(i, j)
  BY RowFacts, WalkFacts DEF BeyondCursor, Precedes

\* The rows the next page is taken from.
Rest == {i \in ChooseThenFilter(table, AsOf, {j \in DOMAIN table : InRadius(table[j].value)}) :
            BeyondCursor(i)}

LEMMA PageFacts ==
  ASSUME PagesType, NEW page, page = List
  PROVE  /\ page \in Seq(Rest) /\ Len(page) \in Nat /\ Rest \subseteq DOMAIN table
         /\ \A k, l \in 1..Len(page) : k < l => Precedes(page[k], page[l])
         /\ \A i \in Rest : \/ \E k \in 1..Len(page) : page[k] = i
                            \/ /\ Len(page) = Limit
                               /\ \A k \in 1..Len(page) : Precedes(page[k], i)
<1> DEFINE rank == [i \in DOMAIN table |-> IF walk.near THEN table[i].value ELSE 0]
<1>1. page = FirstBy(Rest, rank, Limit)
  BY Zenon DEF List, Rest
<1>2. Rest \subseteq DOMAIN table
  BY DEF Rest, ChooseThenFilter
<1>3. \A i, j \in DOMAIN table : RanksBefore(rank, i, j) <=> Precedes(i, j)
  BY RowFacts DEF RanksBefore, Precedes
<1>4. \A i \in DOMAIN table : rank[i] \in Int
  BY RowFacts
<1> HIDE DEF rank
<1>5. Rest \in SUBSET Nat /\ IsFiniteSet(Rest)
  BY <1>2, RowFacts, FS_Subset
<1>6. /\ page \in Seq(Rest) /\ Len(page) \in Nat
      /\ \A k, l \in 1..Len(page) : k < l => RanksBefore(rank, page[k], page[l])
      /\ \A i \in Rest : \/ \E k \in 1..Len(page) : page[k] = i
                         \/ /\ Len(page) = Limit
                            /\ \A k \in 1..Len(page) : RanksBefore(rank, page[k], i)
  <2>1. Limit \in Nat /\ \A i \in Rest : rank[i] \in Int
    BY <1>2, <1>4, PagesAssumption
  <2> QED BY <1>1, <1>5, <2>1, FirstByPage
<1>7. \A k \in 1..Len(page) : page[k] \in Rest
  BY <1>6
<1> QED BY <1>2, <1>3, <1>6, <1>7
\* What a page adds to the walk; the next one resumes after its last item.
LEMMA FetchFacts ==
  ASSUME PagesType, FetchPage, NEW page, page = List
  PROVE  /\ walk.stage = "walking"
         /\ clock' = clock /\ table' = table /\ inserting' = inserting
         /\ walk' \in Walk /\ walk'.cursor.id <= Len(table) /\ walk'.known <= Len(table)
         /\ walk'.near = walk.near /\ walk'.pinned = walk.pinned
         /\ walk'.asOf = walk.asOf /\ walk'.known = walk.known
         /\ walk'.seen = walk.seen \o page
         /\ Len(page) # Limit => walk'.stage = "done"
         /\ Len(page) = Limit =>
               /\ Len(page) \in 1..Len(page) /\ page[Len(page)] \in Rest
               /\ walk'.stage = "walking" /\ walk'.cursor.id = page[Len(page)]
               /\ \A i \in DOMAIN table :
                     BeyondCursor(i)' <=> Precedes(page[Len(page)], i)
<1> DEFINE last == page[Len(page)]
           full == Len(page) = Limit
           cursor == IF full
                     THEN [id |-> last,
                           distance |-> IF walk.near THEN table[last].value ELSE 0]
                     ELSE walk.cursor
           stage == IF full THEN "walking" ELSE "done"
<1>1. /\ walk.stage = "walking"
      /\ walk' = [walk EXCEPT !.seen = walk.seen \o page, !.stage = stage, !.cursor = cursor]
      /\ clock' = clock /\ table' = table /\ inserting' = inserting
  BY Zenon DEF FetchPage, HasNext
<1>2. page \in Seq(Nat) /\ \A k \in 1..Len(page) : page[k] \in Rest /\ page[k] \in DOMAIN table
  <2>1. page \in Seq(Rest) /\ Rest \subseteq DOMAIN table
    BY PageFacts
  <2>2. Rest \subseteq Nat
    BY <2>1, RowFacts
  <2> QED BY <2>1, <2>2
<1>3. full => Len(page) \in 1..Len(page) /\ last \in Rest /\ last \in DOMAIN table
  BY <1>2, PagesAssumption
<1>4. cursor \in Cursor /\ cursor.id <= Len(table) /\ (full => cursor.id = last)
  <2>1. CASE full
    <3>1. last \in Nat /\ last <= Len(table) /\ table[last].value \in Nat
      BY <1>3, <2>1, RowFacts
    <3> HIDE DEF last
    <3> QED BY <2>1, <3>1 DEF Cursor
  <2>2. CASE ~full
    BY <2>2 DEF PagesType, Walk
  <2> QED BY <2>1, <2>2
<1>5. walk \in Walk /\ walk.seen \o page \in Seq(Nat) /\ stage \in {"walking", "done"}
  BY <1>2 DEF PagesType, Walk
<1>6. full => cursor.distance = (IF walk.near THEN table[last].value ELSE 0)
  BY DEF last
<1>7. full => cursor.id = last
  BY DEF last
<1> HIDE DEF cursor
<1>8. /\ walk' \in Walk
      /\ walk'.near = walk.near /\ walk'.pinned = walk.pinned
      /\ walk'.asOf = walk.asOf /\ walk'.known = walk.known
      /\ walk'.seen = walk.seen \o page /\ walk'.stage = stage /\ walk'.cursor = cursor
  <2> HIDE DEF stage
  <2> QED BY <1>1, <1>4, <1>5 DEF Walk
<1>9. full => \A i \in DOMAIN table : BeyondCursor(i)' <=> Precedes(last, i)
  <2> SUFFICES ASSUME full, NEW i \in DOMAIN table
               PROVE  BeyondCursor(i)' <=> Precedes(last, i)
    OBVIOUS
  <2>1. BeyondCursor(i)' <=>
          IF walk.near
          THEN \/ table[i].value > cursor.distance
               \/ table[i].value = cursor.distance /\ i > cursor.id
          ELSE i > cursor.id
    BY <1>1, <1>8 DEF BeyondCursor
  <2>2. /\ table[i].value \in Nat /\ table[last].value \in Nat /\ i \in Nat /\ last \in Nat
    BY <1>3, RowFacts
  <2> QED BY <1>6, <1>7, <2>1, <2>2 DEF Precedes
<1>10. walk'.known <= Len(table)
  BY <1>8 DEF PagesType
<1> QED BY <1>1, <1>3, <1>4, <1>7, <1>8, <1>9, <1>10

\* The rows shown after a page.
LEMMA SeenAfter ==
  ASSUME PagesType, FetchPage, NEW page, page = List
  PROVE  /\ Len(walk'.seen) = Len(walk.seen) + Len(page)
         /\ DOMAIN walk'.seen = 1..(Len(walk.seen) + Len(page))
         /\ \A k \in DOMAIN walk.seen : k \in DOMAIN walk'.seen /\ walk'.seen[k] = walk.seen[k]
         /\ \A k \in 1..Len(page) : /\ Len(walk.seen) + k \in DOMAIN walk'.seen
                                    /\ walk'.seen[Len(walk.seen) + k] = page[k]
         /\ \A k \in DOMAIN walk'.seen :
               \/ k \in DOMAIN walk.seen /\ walk'.seen[k] = walk.seen[k]
               \/ /\ k - Len(walk.seen) \in 1..Len(page) /\ k > Len(walk.seen)
                  /\ walk'.seen[k] = page[k - Len(walk.seen)]
<1>1. walk'.seen = walk.seen \o page
  BY FetchFacts
<1>2. walk.seen \in Seq(Nat) /\ page \in Seq(Nat)
  <2>1. page \in Seq(Rest) /\ Rest \subseteq DOMAIN table
    BY PageFacts
  <2>2. Rest \subseteq Nat
    BY <2>1, RowFacts
  <2>3. page \in Seq(Nat)
    BY <2>1, <2>2
  <2> QED BY <2>3, WalkFacts
<1> QED BY <1>1, <1>2

LEMMA FetchKeepsOrder ==
  ASSUME PagesInv, FetchPage
  PROVE  PagesInv'
<1> DEFINE page == List
           n == Len(walk.seen)
<1>1. PagesType /\ Stamped /\ InOrder
  BY DEF PagesInv
<1>2. /\ page \in Seq(Rest) /\ Len(page) \in Nat /\ Rest \subseteq DOMAIN table
      /\ \A k, l \in 1..Len(page) : k < l => Precedes(page[k], page[l])
  BY <1>1, PageFacts
<1>3. /\ walk.stage = "walking"
      /\ clock' = clock /\ table' = table /\ inserting' = inserting
      /\ walk' \in Walk /\ walk'.cursor.id <= Len(table) /\ walk'.known <= Len(table)
      /\ walk'.near = walk.near
      /\ Len(page) # Limit => walk'.stage = "done"
      /\ Len(page) = Limit =>
            /\ Len(page) \in 1..Len(page) /\ page[Len(page)] \in Rest
            /\ \A i \in DOMAIN table : BeyondCursor(i)' <=> Precedes(page[Len(page)], i)
  BY <1>1, FetchFacts
<1>4. \A k \in DOMAIN walk'.seen :
         \/ k \in DOMAIN walk.seen /\ walk'.seen[k] = walk.seen[k]
         \/ /\ k - n \in 1..Len(page) /\ k > n
            /\ walk'.seen[k] = page[k - n]
  BY <1>1, SeenAfter
<1>5. \A k \in 1..Len(page) :
         page[k] \in Rest /\ page[k] \in DOMAIN table /\ BeyondCursor(page[k])
  BY <1>2 DEF Rest
<1>6. /\ n \in Nat /\ DOMAIN walk.seen = 1..n
      /\ \A k \in DOMAIN walk.seen :
            walk.seen[k] \in DOMAIN table /\ ~BeyondCursor(walk.seen[k])
      /\ DOMAIN walk'.seen = 1..(n + Len(page))
  BY <1>1, <1>3, WalkFacts, SeenAfter DEF PagesType, InOrder, Seen
<1>7. \A i, j : Precedes(i, j)' <=> Precedes(i, j)
  BY <1>3 DEF Precedes
<1> HIDE DEF page
<1>8. PagesType'
  <2>1. \A k \in DOMAIN walk'.seen : walk'.seen[k] \in DOMAIN table
    BY <1>4, <1>5, <1>6
  <2> QED BY <1>1, <1>3, <2>1 DEF PagesType
<1>9. Stamped'
  BY <1>1, <1>3 DEF Stamped
<1>10. InOrder'
  <2>1. ASSUME NEW k \in DOMAIN walk'.seen, NEW l \in DOMAIN walk'.seen, k < l
        PROVE  Precedes(walk'.seen[k], walk'.seen[l])
    <3>1. CASE l \in DOMAIN walk.seen
      <4>1. k \in DOMAIN walk.seen /\ walk'.seen[k] = walk.seen[k] /\ walk'.seen[l] = walk.seen[l]
        BY <1>4, <1>6, <2>1, <3>1
      <4> QED BY <1>1, <2>1, <3>1, <4>1 DEF InOrder
    <3>2. CASE k \in DOMAIN walk.seen /\ l \notin DOMAIN walk.seen
      <4>1. /\ walk'.seen[k] = walk.seen[k]
            /\ l - n \in 1..Len(page) /\ walk'.seen[l] = page[l - n]
        <5>1. k \in Nat /\ k <= n
          BY <1>6, <3>2
        <5>2. walk'.seen[k] = walk.seen[k]
          BY <1>4, <5>1
        <5>3. l - n \in 1..Len(page) /\ walk'.seen[l] = page[l - n]
          BY <1>4, <3>2
        <5> QED BY <5>2, <5>3
      <4> QED BY <1>1, <1>5, <1>6, <3>2, <4>1, CursorSplits
    <3>3. CASE k \notin DOMAIN walk.seen
      <4>1. /\ k - n \in 1..Len(page) /\ walk'.seen[k] = page[k - n]
            /\ l - n \in 1..Len(page) /\ walk'.seen[l] = page[l - n]
            /\ k - n < l - n
        <5>1. k - n \in 1..Len(page) /\ k > n /\ walk'.seen[k] = page[k - n]
          BY <1>4, <3>3
        <5>2. k \in Nat /\ l \in Nat /\ k - n < l - n
          BY <1>2, <1>6, <2>1
        <5>3. l \notin DOMAIN walk.seen
          BY <1>6, <2>1, <5>1, <5>2
        <5>4. l - n \in 1..Len(page) /\ walk'.seen[l] = page[l - n]
          BY <1>4, <5>3
        <5> QED BY <5>1, <5>2, <5>4
      <4> QED BY <1>2, <4>1
    <3> QED BY <3>1, <3>2, <3>3
  <2>2. ASSUME walk'.stage = "walking", NEW i \in DOMAIN table, BeyondCursor(i)',
               NEW k \in DOMAIN walk'.seen, walk'.seen[k] = i
        PROVE  FALSE
    <3> DEFINE last == page[Len(page)]
    <3>1. /\ last \in DOMAIN table /\ BeyondCursor(last) /\ Len(page) \in 1..Len(page)
          /\ Precedes(last, i)
      BY <1>3, <1>5, <2>2
    <3>2. CASE k \in DOMAIN walk.seen
      <4>1. walk.seen[k] = i
        BY <1>4, <1>6, <2>2, <3>2
      <4>2. Precedes(i, last)
        BY <1>1, <1>6, <3>1, <3>2, <4>1, CursorSplits
      <4> QED BY <1>1, <3>1, <4>2, PrecedesIsOrder
    <3>3. CASE k \notin DOMAIN walk.seen
      <4>1. k - n \in 1..Len(page) /\ page[k - n] = i
        BY <1>4, <2>2, <3>3
      <4>2. CASE k - n = Len(page)
        BY <1>1, <3>1, <4>1, <4>2, PrecedesIsOrder
      <4>3. CASE k - n < Len(page)
        <5>1. Precedes(i, last)
          BY <1>2, <3>1, <4>1, <4>3
        <5> QED BY <1>1, <3>1, <5>1, PrecedesIsOrder
      <4> QED BY <1>2, <4>1, <4>2, <4>3
    <3> QED BY <3>2, <3>3
  <2> QED BY <1>3, <1>7, <2>1, <2>2 DEF InOrder, Seen
<1> QED BY <1>8, <1>9, <1>10 DEF PagesInv
----------------------------------------------------------------------------
(* The other steps.                                                        *)

\* A commit adds one row and leaves the others as they are.
LEMMA CommitFacts ==
  ASSUME PagesType, Commit
  PROVE  \E row \in inserting :
            /\ row \in Row /\ Len(table') = Len(table) + 1
            /\ DOMAIN table' = DOMAIN table \cup {Len(table) + 1}
            /\ \A i \in DOMAIN table : table'[i] = table[i] /\ i < Len(table) + 1
            /\ table'[Len(table) + 1] = row /\ table' \in Seq(Row)
            /\ inserting' = {} /\ clock' = clock /\ walk' = walk
<1>1. PICK row \in inserting : table' = Append(table, row) /\ inserting' = {}
                               /\ clock' = clock /\ walk' = walk
  BY DEF Commit
<1>2. table \in Seq(Row) /\ row \in Row
  BY DEF PagesType
<1> QED BY <1>1, <1>2

LEMMA CommitKeepsOrder ==
  ASSUME PagesInv, Commit
  PROVE  PagesInv'
<1>1. PagesType /\ Stamped /\ InOrder
  BY DEF PagesInv
<1>2. PICK row \in inserting :
            /\ row \in Row /\ Len(table') = Len(table) + 1
            /\ DOMAIN table' = DOMAIN table \cup {Len(table) + 1}
            /\ \A i \in DOMAIN table : table'[i] = table[i] /\ i < Len(table) + 1
            /\ table'[Len(table) + 1] = row /\ table' \in Seq(Row)
            /\ inserting' = {} /\ clock' = clock /\ walk' = walk
  BY <1>1, CommitFacts
<1>3. /\ Len(table) \in Nat
      /\ \A k \in DOMAIN walk.seen : walk.seen[k] \in DOMAIN table
  BY <1>1, RowFacts DEF PagesType
<1>4. PagesType'
  <2>1. clock' \in Nat /\ table' \in Seq(Row) /\ inserting' \subseteq Row /\ walk' \in Walk
    BY <1>1, <1>2 DEF PagesType
  <2>2. walk'.cursor.id <= Len(table') /\ walk'.known <= Len(table')
    BY <1>1, <1>2, <1>3, WalkFacts DEF PagesType
  <2> QED BY <1>2, <1>3, <2>1, <2>2 DEF PagesType
<1>5. Stamped'
  <2>1. \A i \in DOMAIN table' : table'[i].stamp <= clock
    BY <1>1, <1>2 DEF Stamped
  <2>2. ASSUME NEW i \in DOMAIN table', NEW j \in DOMAIN table', i < j
        PROVE  table'[i].stamp <= table'[j].stamp
    <3>1. i \in DOMAIN table
      BY <1>2, <1>3, <2>2, RowFacts, <1>1
    <3>2. CASE j \in DOMAIN table
      BY <1>1, <1>2, <2>2, <3>1, <3>2 DEF Stamped
    <3>3. CASE j = Len(table) + 1
      BY <1>1, <1>2, <3>1, <3>3 DEF Stamped
    <3> QED BY <1>2, <3>2, <3>3
  <2> QED BY <1>2, <2>1, <2>2 DEF Stamped
<1>6. InOrder'
  <2>1. \A i, j \in DOMAIN table : Precedes(i, j)' <=> Precedes(i, j)
    BY <1>2 DEF Precedes
  <2>2. ASSUME NEW k \in DOMAIN walk.seen, NEW l \in DOMAIN walk.seen, k < l
        PROVE  IF walk.near
               THEN \/ table'[walk.seen[k]].value < table'[walk.seen[l]].value
                    \/ /\ table'[walk.seen[k]].value = table'[walk.seen[l]].value
                       /\ walk.seen[k] < walk.seen[l]
               ELSE walk.seen[k] < walk.seen[l]
    <3>1. Precedes(walk.seen[k], walk.seen[l])
      BY <1>1, <2>2 DEF InOrder
    <3> QED BY <1>2, <1>3, <3>1 DEF Precedes
  <2>3. ASSUME walk.stage = "walking", NEW i \in DOMAIN table', BeyondCursor(i)'
        PROVE  i \notin Seen
    <3>1. CASE i \in DOMAIN table
      <4>1. BeyondCursor(i)
        BY <1>2, <2>3, <3>1 DEF BeyondCursor
      <4> QED BY <1>1, <2>3, <3>1, <4>1 DEF InOrder
    <3>2. CASE i \notin DOMAIN table
      BY <1>3, <3>2 DEF Seen
    <3> QED BY <3>1, <3>2
  <2>4. Seen' = Seen
    BY <1>2 DEF Seen
  <2> QED BY <1>2, <2>2, <2>3, <2>4 DEF InOrder, Precedes
<1> QED BY <1>4, <1>5, <1>6 DEF PagesInv

LEMMA StartFacts ==
  ASSUME PagesType, NEW near \in BOOLEAN, NEW pinned \in BOOLEAN, NEW asOf \in 0..MaxClock,
         StartWalk(near, pinned, asOf)
  PROVE  /\ clock' = clock /\ table' = table /\ inserting' = inserting
         /\ walk' \in Walk /\ walk'.stage = "walking" /\ asOf < clock
         /\ walk'.near = near /\ walk'.pinned = pinned /\ walk'.asOf = asOf
         /\ walk'.cursor = [id |-> 0, distance |-> 0] /\ walk'.seen = <<>>
         /\ walk'.known = Len(table)
<1>1. Len(table) \in Nat
  BY RowFacts
<1>2. asOf \in Nat
  BY PagesAssumption
<1>3. NoWalk \in Walk
  BY DEF NoWalk, Walk, Cursor
<1>4. /\ clock' = clock /\ table' = table /\ inserting' = inserting /\ asOf < clock
      /\ walk' = [NoWalk EXCEPT
                !.stage = "walking", !.near = near, !.pinned = pinned, !.asOf = asOf,
                !.known = Len(table)]
  BY DEF StartWalk
<1>5. NoWalk.cursor = [id |-> 0, distance |-> 0] /\ NoWalk.seen = <<>>
  BY DEF NoWalk
<1> QED BY <1>1, <1>2, <1>3, <1>4, <1>5 DEF Walk

LEMMA StartKeepsOrder ==
  ASSUME PagesInv, NEW near \in BOOLEAN, NEW pinned \in BOOLEAN, NEW asOf \in 0..MaxClock,
         StartWalk(near, pinned, asOf)
  PROVE  PagesInv'
<1>1. PagesType /\ Stamped /\ InOrder
  BY DEF PagesInv
<1>2. /\ clock' = clock /\ table' = table /\ inserting' = inserting
      /\ walk' \in Walk /\ walk'.cursor.id = 0 /\ walk'.seen = <<>>
      /\ walk'.known = Len(table)
  BY <1>1, StartFacts
<1>3. PagesType'
  BY <1>1, <1>2, RowFacts DEF PagesType
<1>4. Stamped'
  BY <1>1, <1>2 DEF Stamped
<1>5. InOrder'
  BY <1>2 DEF InOrder, Seen
<1> QED BY <1>3, <1>4, <1>5 DEF PagesInv

LEMMA InOrderStays ==
  ASSUME InOrder, table' = table, walk' = walk
  PROVE  InOrder'
  BY DEF InOrder, Precedes, BeyondCursor, Seen

LEMMA PagesStart == Init => PagesInv
<1> SUFFICES ASSUME Init PROVE PagesInv
  OBVIOUS
<1>1. walk = NoWalk /\ table = <<>> /\ clock = 0 /\ inserting = {}
  BY DEF Init
<1>2. /\ NoWalk \in Walk /\ NoWalk.seen = <<>> /\ NoWalk.cursor.id = 0
      /\ NoWalk.known = 0
  BY DEF NoWalk, Walk, Cursor
<1>3. PagesType
  BY <1>1, <1>2 DEF PagesType
<1>4. Stamped
  BY <1>1 DEF Stamped
<1>5. InOrder
  BY <1>1, <1>2 DEF InOrder, Seen
<1> QED BY <1>3, <1>4, <1>5 DEF PagesInv

LEMMA PagesStep == PagesInv /\ [Next]_vars => PagesInv'
<1> SUFFICES ASSUME PagesInv, [Next]_vars PROVE PagesInv'
  OBVIOUS
<1>0. PagesType /\ Stamped /\ InOrder
  BY DEF PagesInv
<1>1. CASE Tick
  <2>1. clock' \in Nat /\ clock' > clock /\ clock \in Nat
    BY <1>0, <1>1 DEF Tick, PagesType
  <2>2. PagesType'
    BY <1>0, <1>1, <2>1 DEF Tick, PagesType
  <2>3. Stamped'
    <3>1. \A row \in inserting : row.stamp \in Nat
      BY <1>0 DEF PagesType, Row
    <3> QED BY <1>0, <1>1, <2>1, <3>1, RowFacts DEF Tick, Stamped
  <2>4. InOrder'
    BY <1>0, <1>1, InOrderStays DEF Tick
  <2> QED BY <2>2, <2>3, <2>4 DEF PagesInv
<1>2. ASSUME NEW e \in Event, NEW d \in Distance, BeginInsert(e, d)
      PROVE  PagesInv'
  <2> DEFINE row == [key |-> e, stamp |-> clock, value |-> d]
  <2>1. row \in Row /\ row.stamp = clock /\ inserting' = {row}
        /\ table' = table /\ walk' = walk /\ clock' = clock
    BY <1>0, <1>2 DEF BeginInsert, Row, PagesType
  <2> HIDE DEF row
  <2>2. PagesType'
    BY <1>0, <2>1 DEF PagesType
  <2>3. Stamped'
    BY <1>0, <2>1, RowFacts DEF Stamped, PagesType
  <2>4. InOrder'
    BY <1>0, <2>1, InOrderStays
  <2> QED BY <2>2, <2>3, <2>4 DEF PagesInv
<1>3. CASE Commit
  BY <1>3, CommitKeepsOrder
<1>4. ASSUME NEW near \in BOOLEAN, NEW pinned \in BOOLEAN, NEW asOf \in 0..MaxClock,
             StartWalk(near, pinned, asOf)
      PROVE  PagesInv'
  BY <1>4, StartKeepsOrder
<1>5. CASE FetchPage
  BY <1>5, FetchKeepsOrder
<1>6. CASE UNCHANGED vars
  <2>1. InOrder'
    BY <1>0, <1>6, InOrderStays DEF vars
  <2> QED BY <1>0, <1>6, <2>1 DEF vars, PagesInv, PagesType, Stamped
<1> QED BY <1>1, <1>2, <1>3, <1>4, <1>5, <1>6 DEF Next

----------------------------------------------------------------------------
\* No row is shown twice: each page resumes beyond the last item of the one before.
LEMMA InOrderShowsOnce ==
  ASSUME PagesInv
  PROVE  Len(walk.seen) = Cardinality(Seen)
<1> DEFINE seen == walk.seen
<1>1. /\ seen \in Seq(Nat) /\ Len(seen) \in Nat /\ DOMAIN seen = 1..Len(seen)
      /\ \A k \in DOMAIN seen : seen[k] \in DOMAIN table
  BY WalkFacts DEF PagesInv, PagesType
<1>2. ASSUME NEW k \in DOMAIN seen, NEW l \in DOMAIN seen, seen[k] = seen[l]
      PROVE  k = l
  <2>1. ~(k < l) /\ ~(l < k)
    BY <1>1, <1>2, PrecedesIsOrder DEF PagesInv, InOrder
  <2> QED BY <1>1, <2>1
<1>3. Seen = {seen[k] : k \in DOMAIN seen}
  BY DEF Seen
<1>4. seen \in Bijection(1..Len(seen), Seen)
  <2>1. seen \in [1..Len(seen) -> Seen]
    BY <1>1, <1>3
  <2>2. \A y \in Seen : \E k \in 1..Len(seen) : seen[k] = y
    BY <1>1, <1>3
  <2> HIDE DEF seen
  <2> QED BY <1>1, <1>2, <2>1, <2>2 DEF Bijection, Injection, Surjection, IsInjective
<1> HIDE DEF seen
<1>5. IsFiniteSet(1..Len(seen)) /\ Cardinality(1..Len(seen)) = Len(seen)
  BY <1>1, FS_Interval
<1>6. Cardinality(Seen) = Len(seen)
  BY <1>4, <1>5, FS_Bijection DEF ExistsBijection
<1> QED BY <1>6 DEF seen
----------------------------------------------------------------------------
(* What comes back in a walk.                                              *)

\* The versions of one event are stamped apart, in the order of their ids: two
\* at one instant the database refuses.
Apart ==
  /\ \A i, j \in DOMAIN table :
        i < j /\ table[i].key = table[j].key => table[i].stamp < table[j].stamp
  /\ \A row \in inserting, i \in DOMAIN table :
        table[i].key = row.key => table[i].stamp < row.stamp

\* What the walk has shown was known by the instant of its pages, and what has
\* superseded it by that instant was stored since the walk began.
ShownThen ==
  \A k \in DOMAIN walk.seen :
     /\ table[walk.seen[k]].stamp <= AsOf
     /\ \A j \in DOMAIN table :
           /\ table[j].key = table[walk.seen[k]].key
           /\ table[walk.seen[k]].stamp < table[j].stamp /\ table[j].stamp <= AsOf
           => j > walk.known

RevisionInv == PagesInv /\ Apart /\ ShownThen /\ RepeatsAreRevisions

\* Two rows of an event with one stamp are one row.
LEMMA ApartMeansOne ==
  ASSUME PagesType, Apart, NEW i \in DOMAIN table, NEW j \in DOMAIN table,
         table[i].key = table[j].key, table[i].stamp = table[j].stamp
  PROVE  i = j
<1>1. i \in Nat /\ j \in Nat /\ table[i].stamp \in Nat
  BY RowFacts
<1>2. ~(i < j) /\ ~(j < i)
  BY <1>1 DEF Apart
<1> QED BY <1>1, <1>2

LEMMA CommitKeepsRevisions ==
  ASSUME RevisionInv, Commit
  PROVE  Apart' /\ ShownThen' /\ RepeatsAreRevisions'
<1>1. PagesInv /\ PagesType /\ Stamped /\ Apart /\ ShownThen /\ RepeatsAreRevisions
  BY DEF RevisionInv, PagesInv
<1>2. PICK row \in inserting :
            /\ Len(table') = Len(table) + 1
            /\ DOMAIN table' = DOMAIN table \cup {Len(table) + 1}
            /\ \A i \in DOMAIN table : table'[i] = table[i] /\ i < Len(table) + 1
            /\ table'[Len(table) + 1] = row
            /\ inserting' = {} /\ clock' = clock /\ walk' = walk
  BY <1>1, CommitFacts
<1>3. /\ Len(table) \in Nat /\ walk.known \in Nat /\ walk.known <= Len(table)
      /\ DOMAIN table = 1..Len(table)
      /\ \A k \in DOMAIN walk.seen : walk.seen[k] \in DOMAIN table
  BY <1>1, RowFacts, WalkFacts DEF PagesType
<1>4. Apart'
  <2>1. ASSUME NEW i \in DOMAIN table', NEW j \in DOMAIN table', i < j,
               table'[i].key = table'[j].key
        PROVE  table'[i].stamp < table'[j].stamp
    <3>1. i \in DOMAIN table
      BY <1>2, <1>3, <2>1
    <3>2. CASE j \in DOMAIN table
      BY <1>1, <1>2, <2>1, <3>1, <3>2 DEF Apart
    <3>3. CASE j = Len(table) + 1
      BY <1>1, <1>2, <2>1, <3>1, <3>3 DEF Apart
    <3> QED BY <1>2, <3>2, <3>3
  <2> QED BY <1>2, <2>1 DEF Apart
<1>5. AsOf' = AsOf
  BY <1>2 DEF AsOf
<1>6. ShownThen'
  <2>1. ASSUME NEW k \in DOMAIN walk.seen
        PROVE  table'[walk.seen[k]] = table[walk.seen[k]]
    BY <1>2, <1>3
  <2>2. ASSUME NEW k \in DOMAIN walk.seen, NEW j \in DOMAIN table',
               table'[j].key = table[walk.seen[k]].key,
               table[walk.seen[k]].stamp < table'[j].stamp, table'[j].stamp <= AsOf
        PROVE  j > walk.known
    <3>1. CASE j \in DOMAIN table
      BY <1>1, <1>2, <2>2, <3>1 DEF ShownThen
    <3>2. CASE j = Len(table) + 1
      BY <1>3, <3>2
    <3> QED BY <1>2, <3>1, <3>2
  <2> QED BY <1>1, <1>2, <1>5, <2>1, <2>2 DEF ShownThen
<1>7. RepeatsAreRevisions'
  BY <1>1, <1>2, <1>3 DEF RepeatsAreRevisions
<1> QED BY <1>4, <1>6, <1>7

LEMMA FetchKeepsRevisions ==
  ASSUME RevisionInv, FetchPage
  PROVE  Apart' /\ ShownThen' /\ RepeatsAreRevisions'
<1> DEFINE page == List
           n == Len(walk.seen)
<1>1. PagesInv /\ PagesType /\ Stamped /\ Apart /\ ShownThen /\ RepeatsAreRevisions
  BY DEF RevisionInv, PagesInv
<1>2. PagesInv' /\ InOrder' /\ PagesType'
  BY <1>1, FetchKeepsOrder DEF PagesInv
<1>3. /\ clock' = clock /\ table' = table /\ inserting' = inserting
      /\ walk'.near = walk.near /\ walk'.pinned = walk.pinned
      /\ walk'.asOf = walk.asOf /\ walk'.known = walk.known
  BY <1>1, FetchFacts
<1>4. page \in Seq(Rest) /\ Rest \subseteq DOMAIN table
  BY <1>1, PageFacts
<1>5. \A k \in DOMAIN walk'.seen :
         \/ k \in DOMAIN walk.seen /\ walk'.seen[k] = walk.seen[k]
         \/ /\ k - n \in 1..Len(page) /\ k > n
            /\ walk'.seen[k] = page[k - n]
  BY <1>1, SeenAfter
<1>6. n \in Nat /\ DOMAIN walk.seen = 1..n /\ \A k \in DOMAIN walk'.seen : k \in Nat /\ k >= 1
  <2>1. Len(page) \in Nat
    BY <1>4
  <2> QED BY <1>1, <2>1, WalkFacts, SeenAfter
<1> HIDE DEF page
<1>7. \A i \in Rest : /\ i \in DOMAIN table /\ table[i].stamp <= AsOf
                      /\ \A j \in DOMAIN table :
                            table[j].key = table[i].key /\ table[j].stamp <= AsOf
                              => table[j].stamp <= table[i].stamp
  BY <1>4 DEF Rest, ChooseThenFilter, LatestOf, KnownAt
<1>8. AsOf' = AsOf
  BY <1>3 DEF AsOf
<1>9. \A k \in DOMAIN walk'.seen : k \notin DOMAIN walk.seen => walk'.seen[k] \in Rest
  BY <1>4, <1>5
<1>10. Apart'
  BY <1>1, <1>3 DEF Apart
<1>11. \A i \in DOMAIN table : table[i].stamp \in Nat
  BY <1>1, RowFacts
<1>12. ShownThen'
  <2>1. ASSUME NEW k \in DOMAIN walk'.seen
        PROVE  /\ table[walk'.seen[k]].stamp <= AsOf
               /\ \A j \in DOMAIN table :
                     /\ table[j].key = table[walk'.seen[k]].key
                     /\ table[walk'.seen[k]].stamp < table[j].stamp /\ table[j].stamp <= AsOf
                     => j > walk.known
    <3>1. CASE k \in DOMAIN walk.seen
      <4>1. walk'.seen[k] = walk.seen[k]
        BY <1>5, <1>6, <3>1
      <4> QED BY <1>1, <3>1, <4>1 DEF ShownThen
    <3>2. CASE k \notin DOMAIN walk.seen
      BY <1>7, <1>9, <1>11, <3>2
    <3> QED BY <3>1, <3>2
  <2> QED BY <1>3, <1>8, <2>1 DEF ShownThen
<1>13. ASSUME NEW k \in DOMAIN walk'.seen, NEW l \in DOMAIN walk'.seen, k < l,
              table[walk'.seen[k]].key = table[walk'.seen[l]].key
       PROVE  /\ walk'.seen[l] > walk.known
              /\ table[walk'.seen[k]].stamp < table[walk'.seen[l]].stamp
  <2> DEFINE i == walk'.seen[k]
             j == walk'.seen[l]
  <2>1. i \in DOMAIN table /\ j \in DOMAIN table /\ i # j
    <3>1. i \in DOMAIN table /\ j \in DOMAIN table
      BY <1>2, <1>3, <1>13 DEF PagesType
    <3>2. Precedes(i, j)
      <4>1. \A x, y : Precedes(x, y)' <=> Precedes(x, y)
        BY <1>3 DEF Precedes
      <4>2. \A x, y \in DOMAIN walk'.seen :
               x < y => Precedes(walk'.seen[x], walk'.seen[y])
        BY <1>2, <4>1 DEF InOrder
      <4> QED BY <1>13, <4>2
    <3>3. ~Precedes(i, i)
      BY <1>1, <3>1, PrecedesIsOrder
    <3> HIDE DEF i, j
    <3> QED BY <3>1, <3>2, <3>3
  <2>2. CASE l \in DOMAIN walk.seen
    <3>1. k \in DOMAIN walk.seen
      BY <1>6, <1>13, <2>2
    <3>2. i = walk.seen[k] /\ j = walk.seen[l]
      BY <1>5, <1>6, <2>2, <3>1
    <3> QED BY <1>1, <1>13, <2>2, <3>1, <3>2 DEF RepeatsAreRevisions
  <2>3. CASE l \notin DOMAIN walk.seen
    <3>1. j \in Rest
      BY <1>9, <2>3
    <3>2. table[i].stamp <= AsOf
      BY <1>3, <1>8, <1>12 DEF ShownThen
    <3>3. table[i].stamp <= table[j].stamp
      BY <1>7, <1>13, <2>1, <3>1, <3>2
    <3>4. table[i].stamp # table[j].stamp
      <4>1. i \in DOMAIN table /\ j \in DOMAIN table /\ i # j /\ table[i].key = table[j].key
        BY <1>13, <2>1
      <4> HIDE DEF i, j
      <4> QED BY <1>1, <4>1, ApartMeansOne
    <3>5. table[i].stamp < table[j].stamp
      BY <1>11, <2>1, <3>3, <3>4
    <3>6. j > walk.known
      BY <1>3, <1>7, <1>8, <1>12, <1>13, <2>1, <3>1, <3>5 DEF ShownThen
    <3> QED BY <3>5, <3>6
  <2> QED BY <2>2, <2>3
<1>14. RepeatsAreRevisions'
  BY <1>3, <1>13 DEF RepeatsAreRevisions
<1> QED BY <1>10, <1>12, <1>14

LEMMA RevisionStart == Init => RevisionInv
<1> SUFFICES ASSUME Init PROVE RevisionInv
  OBVIOUS
<1>1. walk = NoWalk /\ table = <<>> /\ inserting = {} /\ NoWalk.seen = <<>>
  BY DEF Init, NoWalk
<1>2. Apart
  BY <1>1 DEF Apart
<1>3. ShownThen /\ RepeatsAreRevisions
  BY <1>1 DEF ShownThen, RepeatsAreRevisions
<1> QED BY <1>2, <1>3, PagesStart DEF RevisionInv

\* The clock passes, or nothing that matters happens: what is stamped is stamped
\* by now.
LEMMA RevisionsStay ==
  ASSUME RevisionInv, table' = table, walk' = walk, clock' \in Nat, clock' >= clock
  PROVE  ShownThen' /\ RepeatsAreRevisions'
<1>1. PagesType /\ Stamped /\ ShownThen /\ RepeatsAreRevisions
  BY DEF RevisionInv, PagesInv
<1>2. /\ clock \in Nat
      /\ \A i \in DOMAIN table : table[i].stamp \in Nat /\ table[i].stamp <= clock
      /\ \A k \in DOMAIN walk.seen : walk.seen[k] \in DOMAIN table
  BY <1>1, RowFacts DEF PagesType, Stamped
<1>3. \A i \in DOMAIN table : table[i].stamp <= AsOf' <=> table[i].stamp <= AsOf
  BY <1>2 DEF AsOf
<1>4. ShownThen'
  BY <1>1, <1>2, <1>3 DEF ShownThen
<1>5. RepeatsAreRevisions'
  BY <1>1 DEF RepeatsAreRevisions
<1> QED BY <1>4, <1>5

LEMMA RevisionStep == RevisionInv /\ [Next]_vars => RevisionInv'
<1> SUFFICES ASSUME RevisionInv, [Next]_vars PROVE RevisionInv'
  OBVIOUS
<1>0. PagesInv /\ PagesType /\ Stamped /\ Apart /\ PagesInv'
  BY PagesStep DEF RevisionInv, PagesInv
<1>01. clock \in Nat
  BY <1>0 DEF PagesType
<1>1. CASE Tick
  <2>1. table' = table /\ walk' = walk /\ inserting' = inserting /\ clock' \in Nat /\ clock' >= clock
    BY <1>01, <1>1 DEF Tick
  <2>2. Apart'
    BY <1>0, <2>1 DEF Apart
  <2> QED BY <1>0, <2>1, <2>2, RevisionsStay DEF RevisionInv
<1>2. ASSUME NEW e \in Event, NEW d \in Distance, BeginInsert(e, d)
      PROVE  RevisionInv'
  <2> DEFINE row == [key |-> e, stamp |-> clock, value |-> d]
  <2>1. /\ inserting' = {row} /\ row.key = e /\ row.stamp = clock
        /\ table' = table /\ walk' = walk /\ clock' = clock
        /\ \A i \in DOMAIN table : ~(table[i].key = e /\ table[i].stamp = clock)
    BY <1>2 DEF BeginInsert, UniqueVersion
  <2> HIDE DEF row
  <2>2. \A i \in DOMAIN table : table[i].key = e => table[i].stamp < clock
    BY <1>0, <1>01, <2>1, RowFacts DEF Stamped
  <2>3. Apart'
    BY <1>0, <2>1, <2>2 DEF Apart
  <2> QED BY <1>0, <1>01, <2>1, <2>3, RevisionsStay DEF RevisionInv
<1>3. CASE Commit
  BY <1>0, <1>3, CommitKeepsRevisions DEF RevisionInv
<1>4. ASSUME NEW near \in BOOLEAN, NEW pinned \in BOOLEAN, NEW asOf \in 0..MaxClock,
             StartWalk(near, pinned, asOf)
      PROVE  RevisionInv'
  <2>1. table' = table /\ inserting' = inserting /\ walk'.seen = <<>>
    BY <1>0, <1>4, StartFacts
  <2>2. Apart'
    BY <1>0, <2>1 DEF Apart
  <2>3. ShownThen' /\ RepeatsAreRevisions'
    BY <2>1 DEF ShownThen, RepeatsAreRevisions
  <2> QED BY <1>0, <2>2, <2>3 DEF RevisionInv
<1>5. CASE FetchPage
  BY <1>0, <1>5, FetchKeepsRevisions DEF RevisionInv
<1>6. CASE UNCHANGED vars
  <2>1. table' = table /\ walk' = walk /\ inserting' = inserting /\ clock' \in Nat /\ clock' >= clock
    BY <1>01, <1>6 DEF vars
  <2>2. Apart'
    BY <1>0, <2>1 DEF Apart
  <2> QED BY <1>0, <2>1, <2>2, RevisionsStay DEF RevisionInv
<1> QED BY <1>1, <1>2, <1>3, <1>4, <1>5, <1>6 DEF Next

\* An event that a walk shows again is shown in a version that was stored after
\* the walk began and that revises the one shown before: by whatever cursor the
\* pages resume, and however slowly versions are committed, none brings back
\* what an earlier page has superseded (params.go, the cursor; earthquake.List).
THEOREM OnlyRevisionsComeBack == Spec => []RepeatsAreRevisions
<1>1. RevisionInv => RepeatsAreRevisions
  BY DEF RevisionInv
<1> QED BY <1>1, RevisionStart, RevisionStep, PTL DEF Spec
----------------------------------------------------------------------------
(* A walk pinned to an instant.                                            *)

\* What was known then, within the radius of the walk.
Target == {i \in Current(walk.asOf) : InRadius(table[i].value)}

\* The clock stands still while an INSERT is under way.
StampedNow == \A row \in inserting : row.stamp = clock

\* The instant is past, and the walk has shown what lies up to its cursor, or
\* everything once it is done.
PinnedProgress ==
  walk.pinned =>
    /\ walk.asOf < clock
    /\ walk.stage = "walking" => Seen = {i \in Target : ~BeyondCursor(i)}
    /\ walk.stage = "done" => Seen = Target

PinnedInv == PagesInv /\ StampedNow /\ PinnedProgress

\* The rows of a pinned walk's pages are those of the target beyond its cursor.
LEMMA PinnedRest ==
  ASSUME PagesType, walk.pinned
  PROVE  Rest = {i \in Target : BeyondCursor(i)} /\ Target \subseteq DOMAIN table
<1>1. Current(walk.asOf) \subseteq DOMAIN table
  BY DEF Current, LatestOf, KnownAt
<1>2. Rest = {i \in Current(walk.asOf) \cap {j \in DOMAIN table : InRadius(table[j].value)} :
                 BeyondCursor(i)}
  BY DEF Rest, ChooseThenFilter, AsOf, Current
<1> QED BY <1>1, <1>2 DEF Target

\* A row stamped after the instant is not of the target.
LEMMA TargetStays ==
  ASSUME PagesInv, StampedNow, Commit, walk.asOf < clock
  PROVE  Target' = Target
<1>1. PagesType
  BY DEF PagesInv
<1>2. PICK row \in inserting :
            /\ DOMAIN table' = DOMAIN table \cup {Len(table) + 1}
            /\ \A i \in DOMAIN table : table'[i] = table[i] /\ i < Len(table) + 1
            /\ table'[Len(table) + 1] = row
            /\ walk' = walk /\ row \in Row
  BY <1>1, CommitFacts
<1>3. ~(row.stamp <= walk.asOf)
  BY <1>1, WalkFacts DEF StampedNow, PagesType
<1>4. KnownAt(table', walk.asOf) = KnownAt(table, walk.asOf)
  BY <1>2, <1>3 DEF KnownAt
<1>5. \A i \in KnownAt(table, walk.asOf) : table'[i] = table[i]
  BY <1>2 DEF KnownAt
<1>6. LatestOf(table', KnownAt(table', walk.asOf)) = LatestOf(table, KnownAt(table, walk.asOf))
  BY <1>4, <1>5 DEF LatestOf
<1>7. Current(walk.asOf)' = Current(walk.asOf) /\ Current(walk.asOf) \subseteq DOMAIN table
  BY <1>2, <1>6 DEF Current, LatestOf, KnownAt
<1> QED BY <1>2, <1>7 DEF Target, InRadius

LEMMA CommitKeepsPinned ==
  ASSUME PinnedInv, Commit
  PROVE  PinnedProgress'
<1>1. PagesInv /\ StampedNow /\ PinnedProgress /\ PagesType
  BY DEF PinnedInv, PagesInv
<1>2. clock' = clock /\ walk' = walk
  BY <1>1, CommitFacts
<1>3. SUFFICES ASSUME walk.pinned PROVE PinnedProgress'
  BY <1>2 DEF PinnedProgress
<1>4. walk.asOf < clock /\ Target' = Target /\ Target \subseteq DOMAIN table
  BY <1>1, <1>3, TargetStays, PinnedRest DEF PinnedProgress
<1>5. \A i \in DOMAIN table : BeyondCursor(i)' <=> BeyondCursor(i)
  BY <1>1, <1>2, CommitFacts DEF BeyondCursor
<1>6. Seen' = Seen
  BY <1>2 DEF Seen
<1> QED BY <1>1, <1>2, <1>3, <1>4, <1>5, <1>6 DEF PinnedProgress

\* A page shows the target from the cursor to its last item, all of the rest if
\* it is not full.
LEMMA FetchKeepsPinned ==
  ASSUME PinnedInv, FetchPage
  PROVE  PinnedProgress'
<1> DEFINE page == List
           last == page[Len(page)]
           shown == {page[k] : k \in 1..Len(page)}
<1>1. PagesInv /\ PagesType /\ PinnedProgress
  BY DEF PinnedInv, PagesInv
<1>2. /\ walk.stage = "walking" /\ clock' = clock /\ table' = table
      /\ walk'.near = walk.near /\ walk'.pinned = walk.pinned /\ walk'.asOf = walk.asOf
      /\ Len(page) # Limit => walk'.stage = "done"
      /\ Len(page) = Limit =>
            /\ Len(page) \in 1..Len(page) /\ last \in Rest
            /\ walk'.stage = "walking"
            /\ \A i \in DOMAIN table : BeyondCursor(i)' <=> Precedes(last, i)
  BY <1>1, FetchFacts
<1>3. SUFFICES ASSUME walk.pinned PROVE PinnedProgress'
  BY <1>2 DEF PinnedProgress
<1>4. /\ walk.asOf < clock /\ Seen = {i \in Target : ~BeyondCursor(i)}
      /\ Rest = {i \in Target : BeyondCursor(i)} /\ Target \subseteq DOMAIN table
  BY <1>1, <1>2, <1>3, PinnedRest DEF PinnedProgress
<1>5. Target' = Target
  BY <1>2 DEF Target, Current, InRadius
<1>6. /\ page \in Seq(Rest) /\ Len(page) \in Nat
      /\ \A k, l \in 1..Len(page) : k < l => Precedes(page[k], page[l])
      /\ \A i \in Rest : \/ \E k \in 1..Len(page) : page[k] = i
                         \/ /\ Len(page) = Limit
                            /\ \A k \in 1..Len(page) : Precedes(page[k], i)
  BY <1>1, PageFacts
<1>7. Seen' = Seen \cup shown /\ shown \subseteq Rest
  <2> HIDE DEF page
  <2>1. /\ \A k \in DOMAIN walk.seen : k \in DOMAIN walk'.seen /\ walk'.seen[k] = walk.seen[k]
        /\ \A k \in 1..Len(page) : /\ Len(walk.seen) + k \in DOMAIN walk'.seen
                                   /\ walk'.seen[Len(walk.seen) + k] = page[k]
        /\ \A k \in DOMAIN walk'.seen :
              \/ k \in DOMAIN walk.seen /\ walk'.seen[k] = walk.seen[k]
              \/ /\ k - Len(walk.seen) \in 1..Len(page) /\ k > Len(walk.seen)
                 /\ walk'.seen[k] = page[k - Len(walk.seen)]
    BY <1>1, SeenAfter DEF page
  <2>2. Seen' = {walk'.seen[k] : k \in DOMAIN walk'.seen}
        /\ Seen = {walk.seen[k] : k \in DOMAIN walk.seen}
    BY DEF Seen
  <2>3. Seen' \subseteq Seen \cup shown
    BY <2>1, <2>2
  <2>4. Seen \subseteq Seen'
    BY <2>1, <2>2
  <2>5. shown \subseteq Seen'
    BY <2>1, <2>2
  <2>6. shown \subseteq Rest
    BY <1>6
  <2> QED BY <2>3, <2>4, <2>5, <2>6
<1> HIDE DEF page
<1>8. CASE Len(page) = Limit
  <2> HIDE DEF last
  <2>1. /\ last \in Rest /\ last \in DOMAIN table /\ last \in shown
        /\ \A i \in DOMAIN table : BeyondCursor(i)' <=> Precedes(last, i)
    BY <1>2, <1>4, <1>8 DEF last
  <2>2. \A i \in shown : ~Precedes(last, i)
    <3>1. ASSUME NEW k \in 1..Len(page) PROVE ~Precedes(last, page[k])
      <4>1. page[k] \in DOMAIN table
        BY <1>4, <1>6
      <4>2. k = Len(page) => page[k] = last
        BY DEF last
      <4>3. k < Len(page) => Precedes(page[k], last)
        BY <1>2, <1>6, <1>8 DEF last
      <4> QED BY <1>1, <1>6, <2>1, <4>1, <4>2, <4>3, PrecedesIsOrder
    <3> QED BY <3>1
  <2>3. \A i \in Seen : i \in DOMAIN table /\ ~Precedes(last, i)
    BY <1>1, <1>4, <2>1, CursorSplits, PrecedesIsOrder
  <2>4. \A i \in Rest : i \in shown \/ Precedes(last, i)
    BY <1>2, <1>6, <1>8 DEF last
  <2>5. Seen' = {i \in Target : ~Precedes(last, i)}
    <3> HIDE DEF shown
    <3> QED BY <1>4, <1>7, <2>2, <2>3, <2>4
  <2>6. Seen' = {i \in Target' : ~BeyondCursor(i)'}
    BY <1>4, <1>5, <2>1, <2>5
  <2> QED BY <1>2, <1>4, <1>8, <2>6 DEF PinnedProgress
<1>9. CASE Len(page) # Limit
  <2>1. Rest \subseteq shown
    BY <1>6, <1>9
  <2>2. Seen' = Target'
    <3> HIDE DEF shown
    <3> QED BY <1>4, <1>5, <1>7, <2>1
  <2> QED BY <1>2, <1>4, <1>9, <2>2 DEF PinnedProgress
<1> QED BY <1>8, <1>9

LEMMA PinnedStart == Init => PinnedInv
<1> SUFFICES ASSUME Init PROVE PinnedInv
  OBVIOUS
<1>1. PagesInv
  BY PagesStart
<1>2. StampedNow /\ PinnedProgress
  BY DEF Init, StampedNow, PinnedProgress, NoWalk
<1> QED BY <1>1, <1>2 DEF PinnedInv

LEMMA PinnedStays ==
  ASSUME PinnedProgress, table' = table, walk' = walk, walk.pinned => walk.asOf < clock'
  PROVE  PinnedProgress'
<1>1. Target' = Target /\ Seen' = Seen
  BY DEF Target, Seen, Current, InRadius
<1>2. \A i : BeyondCursor(i)' <=> BeyondCursor(i)
  BY DEF BeyondCursor
<1> QED BY <1>1, <1>2 DEF PinnedProgress

LEMMA PinnedStep ==
  ASSUME SlowCommits = FALSE
  PROVE  PinnedInv /\ [Next]_vars => PinnedInv'
<1> SUFFICES ASSUME PinnedInv, [Next]_vars PROVE PinnedInv'
  OBVIOUS
<1>0. /\ PagesInv /\ PagesType /\ StampedNow /\ PinnedProgress /\ PagesInv'
  BY PagesStep DEF PinnedInv, PagesInv
<1>1. CASE Tick
  <2>1. clock' = clock + 1 /\ table' = table /\ walk' = walk /\ inserting' = {}
    BY <1>1 DEF Tick
  <2>2. walk.pinned => walk.asOf < clock'
    BY <1>0, <2>1, WalkFacts DEF PinnedProgress, PagesType
  <2>3. PinnedProgress' /\ StampedNow'
    BY <1>0, <2>1, <2>2, PinnedStays DEF StampedNow
  <2> QED BY <1>0, <2>3 DEF PinnedInv
<1>2. ASSUME NEW e \in Event, NEW d \in Distance, BeginInsert(e, d)
      PROVE  PinnedInv'
  <2>1. clock' = clock /\ table' = table /\ walk' = walk
        /\ inserting' = {[key |-> e, stamp |-> clock, value |-> d]}
    BY <1>2 DEF BeginInsert
  <2>2. PinnedProgress'
    BY <1>0, <2>1, PinnedStays DEF PinnedProgress
  <2>3. StampedNow'
    BY <2>1 DEF StampedNow
  <2> QED BY <1>0, <2>2, <2>3 DEF PinnedInv
<1>3. CASE Commit
  <2>1. PinnedProgress'
    BY <1>3, CommitKeepsPinned
  <2>2. StampedNow'
    BY <1>0, <1>3, CommitFacts DEF StampedNow
  <2> QED BY <1>0, <2>1, <2>2 DEF PinnedInv
<1>4. ASSUME NEW near \in BOOLEAN, NEW pinned \in BOOLEAN, NEW asOf \in 0..MaxClock,
             StartWalk(near, pinned, asOf)
      PROVE  PinnedInv'
  <2>1. /\ clock' = clock /\ table' = table /\ inserting' = inserting
        /\ walk'.stage = "walking" /\ asOf < clock
        /\ walk'.near = near /\ walk'.asOf = asOf
        /\ walk'.cursor = [id |-> 0, distance |-> 0] /\ walk'.seen = <<>>
    BY <1>0, <1>4, StartFacts
  <2>2. \A i \in DOMAIN table : BeyondCursor(i)'
    <3>1. ASSUME NEW i \in DOMAIN table PROVE BeyondCursor(i)'
      <4>1. i \in Nat \ {0} /\ table[i].value \in Nat
        BY <1>0, RowFacts
      <4> QED BY <2>1, <4>1 DEF BeyondCursor
    <3> QED BY <3>1
  <2>3. Target' \subseteq DOMAIN table
    BY <2>1 DEF Target, Current, LatestOf, KnownAt
  <2>4. Seen' = {}
    BY <2>1 DEF Seen
  <2>5. PinnedProgress'
    BY <2>1, <2>2, <2>3, <2>4 DEF PinnedProgress
  <2>6. StampedNow'
    BY <1>0, <2>1 DEF StampedNow
  <2> QED BY <1>0, <2>5, <2>6 DEF PinnedInv
<1>5. CASE FetchPage
  <2>1. PinnedProgress'
    BY <1>5, FetchKeepsPinned
  <2>2. StampedNow'
    BY <1>0, <1>5 DEF FetchPage, StampedNow
  <2> QED BY <1>0, <2>1, <2>2 DEF PinnedInv
<1>6. CASE UNCHANGED vars
  <2>1. PinnedProgress' /\ StampedNow'
    BY <1>0, <1>6, PinnedStays DEF vars, StampedNow, PinnedProgress
  <2> QED BY <1>0, <2>1 DEF PinnedInv
<1> QED BY <1>1, <1>2, <1>3, <1>4, <1>5, <1>6 DEF Next

\* A walk pinned to an instant shows exactly what was known then, however its
\* pages fall between revisions (earthquake.List with as_of), as long as a
\* version is visible at the instant it is stamped with: a commit that is slower
\* than that adds to the past of a walk under way.
THEOREM PinnedWalksAreExact ==
  ASSUME SlowCommits = FALSE
  PROVE  Spec => []PinnedWalkExact
<1>1. PinnedInv => PinnedWalkExact
  <2> SUFFICES ASSUME PinnedInv, walk.stage = "done", walk.pinned
               PROVE  /\ Len(walk.seen) = Cardinality(Seen)
                      /\ Seen = {i \in Current(walk.asOf) :
                                    walk.near => table[i].value <= Radius}
    BY DEF PinnedWalkExact
  <2>1. Len(walk.seen) = Cardinality(Seen)
    BY InOrderShowsOnce DEF PinnedInv
  <2>2. Seen = Target
    BY DEF PinnedInv, PinnedProgress
  <2> QED BY <2>1, <2>2 DEF Target, InRadius
<1> QED BY <1>1, PinnedStart, PinnedStep, PTL DEF Spec
----------------------------------------------------------------------------
(* A walk by id that is not pinned.                                        *)

\* The event is shown already, or its current version is still to come.
Shown(e) == \E i \in Seen : table[i].key = e

ToCome(e) == \E i \in Current(clock) : table[i].key = e /\ i > walk.cursor.id

NothingLost ==
  ~walk.pinned /\ ~walk.near =>
    /\ walk.stage = "walking" => \A e \in Due : Shown(e) \/ ToCome(e)
    /\ walk.stage = "done" => \A e \in Due : Shown(e)

OmitInv == PagesInv /\ NothingLost

\* What was known when the walk began stays known.
LEMMA DueStays ==
  ASSUME PagesType, walk'.known = walk.known, \A i \in DOMAIN table : table'[i] = table[i]
  PROVE  Due' = Due
<1>1. \A i \in 1..walk.known : i \in DOMAIN table
  BY RowFacts, WalkFacts DEF PagesType
<1>2. \A i \in 1..walk.known : table'[i].key = table[i].key
  BY <1>1
<1> QED BY <1>2 DEF Due

\* The versions that are current now are the latest of all.
LEMMA CurrentNow == PagesInv => Current(clock) = LatestOf(table, DOMAIN table)
<1> SUFFICES ASSUME PagesInv PROVE Current(clock) = LatestOf(table, DOMAIN table)
  OBVIOUS
<1>1. KnownAt(table, clock) = DOMAIN table
  BY DEF PagesInv, Stamped, KnownAt
<1> QED BY <1>1 DEF Current

\* Every event that is known has a current version.
LEMMA CurrentExists ==
  ASSUME PagesInv, NEW i \in DOMAIN table
  PROVE  \E j \in Current(clock) : table[j].key = table[i].key
<1> DEFINE versions == {j \in DOMAIN table : table[j].key = table[i].key}
<1>1. /\ Len(table) \in Nat /\ DOMAIN table = 1..Len(table) /\ DOMAIN table \subseteq Nat
      /\ \A j \in DOMAIN table : table[j].stamp \in Nat
  BY RowFacts DEF PagesInv
<1>2. versions \in SUBSET Nat /\ versions # {} /\ \A n \in versions : n <= Len(table)
  BY <1>1
<1> HIDE DEF versions
<1>3. PICK m \in versions : \A n \in versions : n <= m
  BY <1>1, <1>2, GreatestExists
<1>4. m \in DOMAIN table /\ table[m].key = table[i].key
  BY <1>3 DEF versions
<1>5. ASSUME NEW j \in DOMAIN table, table[j].key = table[m].key
      PROVE  table[j].stamp <= table[m].stamp
  <2>1. j \in versions
    BY <1>4, <1>5 DEF versions
  <2>2. j < m \/ j = m
    BY <1>1, <1>3, <1>4, <2>1
  <2> QED BY <1>1, <1>4, <2>2 DEF PagesInv, Stamped
<1>6. m \in LatestOf(table, DOMAIN table)
  BY <1>4, <1>5 DEF LatestOf
<1> QED BY <1>4, <1>6, CurrentNow

LEMMA CommitKeepsToCome ==
  ASSUME PagesInv, Commit, NEW e \in Due, Shown(e) \/ ToCome(e)
  PROVE  /\ Shown(e)' \/ ToCome(e)'
         /\ Shown(e) => Shown(e)'
<1>1. PagesType /\ Stamped /\ PagesInv'
  BY PagesStep DEF PagesInv, Next
<1>2. PICK row \in inserting :
            /\ DOMAIN table' = DOMAIN table \cup {Len(table) + 1}
            /\ \A i \in DOMAIN table : table'[i] = table[i] /\ i < Len(table) + 1
            /\ table'[Len(table) + 1] = row
            /\ clock' = clock /\ walk' = walk
  BY <1>1, CommitFacts
<1>0. (Current(clock) = LatestOf(table, DOMAIN table))'
  BY <1>1, CurrentNow, PTL
<1>3. Shown(e) => Shown(e)'
  <2>1. Seen' = Seen /\ Seen \subseteq DOMAIN table
    BY <1>1, <1>2 DEF Seen, PagesType
  <2> QED BY <1>2, <2>1 DEF Shown
<1>4. ASSUME ToCome(e) PROVE ToCome(e)'
  <2>1. PICK i \in LatestOf(table, DOMAIN table) : table[i].key = e /\ i > walk.cursor.id
    BY <1>4, CurrentNow DEF ToCome
  <2>2. i \in DOMAIN table
    BY <2>1 DEF LatestOf
  <2>3. CASE row.key # e
    <3>1. i \in LatestOf(table', DOMAIN table')
      BY <1>2, <2>1, <2>2, <2>3 DEF LatestOf
    <3>2. i \in Current(clock)'
      BY <1>0, <3>1
    <3> QED BY <1>2, <2>1, <2>2, <3>2 DEF ToCome
  <2>4. CASE row.key = e
    <3> DEFINE n == Len(table) + 1
    <3>1. \A j \in DOMAIN table' : table'[j].stamp <= row.stamp
      <4>1. row.stamp \in Nat
        BY <1>1, <1>2 DEF PagesType, Row
      <4> QED BY <1>1, <1>2, <4>1 DEF Stamped
    <3>2. n \in LatestOf(table', DOMAIN table')
      BY <1>2, <3>1 DEF LatestOf
    <3>3. n > walk.cursor.id
      BY <1>1, RowFacts, WalkFacts DEF PagesType
    <3>4. n \in Current(clock)'
      BY <1>0, <3>2
    <3> QED BY <1>2, <2>4, <3>3, <3>4 DEF ToCome
  <2> QED BY <2>3, <2>4
<1> QED BY <1>3, <1>4
\* What a full page leaves out lies beyond its last item; a page that is not
\* full leaves nothing out.
LEMMA FetchKeepsNothingLost ==
  ASSUME OmitInv, FetchPage
  PROVE  NothingLost'
<1> DEFINE page == List
           last == page[Len(page)]
<1>1. PagesInv /\ PagesType /\ NothingLost
  BY DEF OmitInv, PagesInv
<1>2. /\ walk.stage = "walking" /\ clock' = clock /\ table' = table
      /\ walk'.near = walk.near /\ walk'.pinned = walk.pinned /\ walk'.known = walk.known
      /\ Len(page) # Limit => walk'.stage = "done"
      /\ Len(page) = Limit =>
            /\ Len(page) \in 1..Len(page) /\ last \in Rest
            /\ walk'.stage = "walking" /\ walk'.cursor.id = last
  BY <1>1, FetchFacts
<1>0. Due' = Due
  BY <1>2 DEF Due
<1>3. SUFFICES ASSUME ~walk.pinned, ~walk.near, NEW e \in Due
               PROVE  /\ Shown(e)' \/ ToCome(e)'
                      /\ walk'.stage = "done" => Shown(e)'
  BY <1>0, <1>2 DEF NothingLost
<1>4. /\ page \in Seq(Rest) /\ Len(page) \in Nat
      /\ \A i \in Rest : \/ \E k \in 1..Len(page) : page[k] = i
                         \/ /\ Len(page) = Limit
                            /\ \A k \in 1..Len(page) : Precedes(page[k], i)
  BY <1>1, PageFacts
<1>5. /\ \A k \in DOMAIN walk.seen : k \in DOMAIN walk'.seen /\ walk'.seen[k] = walk.seen[k]
      /\ \A k \in 1..Len(page) : /\ Len(walk.seen) + k \in DOMAIN walk'.seen
                                 /\ walk'.seen[Len(walk.seen) + k] = page[k]
  BY <1>1, SeenAfter
<1>6. Current(clock)' = Current(clock) /\ Current(clock) \subseteq DOMAIN table
  BY <1>2 DEF Current, LatestOf, KnownAt
<1> HIDE DEF page
<1>7. Shown(e) => Shown(e)'
  <2>1. Seen \subseteq Seen'
    BY <1>5 DEF Seen
  <2> QED BY <1>2, <2>1 DEF Shown
<1>8. CASE Shown(e)
  BY <1>7, <1>8
<1>9. ASSUME ToCome(e)
      PROVE  Shown(e)' \/ (Len(page) = Limit /\ ToCome(e)')
  <2>1. PICK i \in Current(clock) : table[i].key = e /\ i > walk.cursor.id
    BY <1>9 DEF ToCome
  <2>2. i \in Rest
    BY <1>3, <1>6, <2>1
    DEF Rest, ChooseThenFilter, AsOf, Current, InRadius, BeyondCursor
  <2>3. ASSUME NEW k \in 1..Len(page), page[k] = i
        PROVE  Shown(e)'
    <3>1. i \in Seen'
      BY <1>5, <2>3 DEF Seen
    <3> QED BY <1>2, <2>1, <3>1 DEF Shown
  <2>4. ASSUME Len(page) = Limit, \A k \in 1..Len(page) : Precedes(page[k], i)
        PROVE  ToCome(e)'
    <3>1. last < i
      BY <1>2, <1>3, <2>4 DEF Precedes
    <3>2. walk'.cursor.id = last
      BY <1>2, <2>4
    <3> HIDE DEF last
    <3>3. i > walk'.cursor.id
      BY <3>1, <3>2
    <3> QED BY <1>2, <1>6, <2>1, <3>3 DEF ToCome
  <2> QED BY <1>4, <2>2, <2>3, <2>4
<1>10. Shown(e) \/ ToCome(e)
  BY <1>1, <1>2, <1>3 DEF NothingLost
<1> QED BY <1>2, <1>8, <1>9, <1>10

LEMMA OmitStays ==
  ASSUME OmitInv, table' = table, walk' = walk, PagesInv'
  PROVE  NothingLost'
<1>1. (Current(clock) = LatestOf(table, DOMAIN table))'
  BY CurrentNow, PTL
<1>2. Current(clock)' = Current(clock)
  BY <1>1, CurrentNow DEF OmitInv
<1>3. Due' = Due
  BY DEF Due
<1> QED BY <1>2, <1>3 DEF OmitInv, NothingLost, Shown, ToCome, Seen

LEMMA OmitStart == Init => OmitInv
<1> SUFFICES ASSUME Init PROVE OmitInv
  OBVIOUS
<1>1. NothingLost
  BY DEF Init, NothingLost, NoWalk
<1> QED BY <1>1, PagesStart DEF OmitInv

LEMMA OmitStep == OmitInv /\ [Next]_vars => OmitInv'
<1> SUFFICES ASSUME OmitInv, [Next]_vars PROVE OmitInv'
  OBVIOUS
<1>0. PagesInv /\ PagesType /\ NothingLost /\ PagesInv'
  BY PagesStep DEF OmitInv, PagesInv
<1>1. CASE Tick
  BY <1>0, <1>1, OmitStays DEF Tick, OmitInv
<1>2. ASSUME NEW e \in Event, NEW d \in Distance, BeginInsert(e, d)
      PROVE  OmitInv'
  BY <1>0, <1>2, OmitStays DEF BeginInsert, OmitInv
<1>3. CASE Commit
  <2>1. walk' = walk /\ Due' = Due
    BY <1>0, <1>3, CommitFacts, DueStays
  <2>2. ASSUME NEW e \in Due, Shown(e) \/ ToCome(e)
        PROVE  (Shown(e)' \/ ToCome(e)') /\ (Shown(e) => Shown(e)')
    BY <1>0, <1>3, <2>2, CommitKeepsToCome
  <2>3. NothingLost'
    BY <1>0, <2>1, <2>2 DEF NothingLost
  <2> QED BY <1>0, <2>3 DEF OmitInv
<1>4. ASSUME NEW near \in BOOLEAN, NEW pinned \in BOOLEAN, NEW asOf \in 0..MaxClock,
             StartWalk(near, pinned, asOf)
      PROVE  OmitInv'
  <2>1. /\ clock' = clock /\ table' = table
        /\ walk'.stage = "walking" /\ walk'.cursor = [id |-> 0, distance |-> 0]
        /\ walk'.known = Len(table)
    BY <1>0, <1>4, StartFacts
  <2>2. Current(clock)' = Current(clock) /\ Current(clock) \subseteq DOMAIN table
    BY <2>1 DEF Current, LatestOf, KnownAt
  <2>3. ASSUME NEW e \in Due'
        PROVE  ToCome(e)'
    <3>1. PICK i \in DOMAIN table : table[i].key = e
      BY <1>0, <2>1, <2>3, RowFacts DEF Due
    <3>2. PICK j \in Current(clock) : table[j].key = e
      BY <1>0, <3>1, CurrentExists
    <3>3. j > walk'.cursor.id
      BY <1>0, <2>1, <2>2, RowFacts
    <3> QED BY <2>1, <2>2, <3>2, <3>3 DEF ToCome
  <2>4. NothingLost'
    BY <2>1, <2>3 DEF NothingLost
  <2> QED BY <1>0, <2>4 DEF OmitInv
<1>5. CASE FetchPage
  BY <1>0, <1>5, FetchKeepsNothingLost DEF OmitInv
<1>6. CASE UNCHANGED vars
  BY <1>0, <1>6, OmitStays DEF vars, OmitInv
<1> QED BY <1>1, <1>2, <1>3, <1>4, <1>5, <1>6 DEF Next

\* A walk by id that is not pinned omits no event it could have shown: a
\* revision moves an event to the end of the order, which the walk has not
\* reached (earthquake.List without as_of).
THEOREM NoEventIsOmitted == Spec => []NothingOmitted
<1>1. OmitInv => NothingOmitted
  BY DEF OmitInv, NothingLost, NothingOmitted, Shown
<1> QED BY <1>1, OmitStart, OmitStep, PTL DEF Spec
----------------------------------------------------------------------------
(* Observations.                                                           *)

Item == [key : Key, stamp : Nat, value : Observations!Value]

\* Every question was about an instant already past when it was asked, and its
\* answer is the one the table gives still.
AskedInv ==
  /\ clock \in Nat
  /\ table \in Seq(Item)
  /\ \A a \in asked :
        /\ a.asOf \in Nat /\ a.asOf < clock
        /\ a.rows = Observations!List(a.provenance, a.asOf)

----------------------------------------------------------------------------
\* A page depends on the ranks of the rows it is taken from, and on no others.
LEMMA SameRanksSamePage ==
  ASSUME NEW ids, NEW r1, NEW r2, \A i \in ids : r1[i] = r2[i], NEW n
  PROVE  FirstBy(ids, r1, n) = FirstBy(ids, r2, n)
<1> DEFINE p1 == [i \in ids |-> 1 + Cardinality({j \in ids : RanksBefore(r1, j, i)})]
           p2 == [i \in ids |-> 1 + Cardinality({j \in ids : RanksBefore(r2, j, i)})]
           m == Min({n, Cardinality(ids)})
<1>1. \A i \in ids : {j \in ids : RanksBefore(r1, j, i)} = {j \in ids : RanksBefore(r2, j, i)}
  BY DEF RanksBefore
<1>2. p1 = p2
  BY <1>1
<1>3. FirstBy(ids, r1, n) = Listing(ids, p1, m) /\ FirstBy(ids, r2, n) = Listing(ids, p2, m)
  BY Zenon DEF FirstBy, RanksBefore, Listing
<1> HIDE DEF p1, p2, m
<1> QED BY <1>2, <1>3

\* The statement, over the rows that match.
LEMMA ListIsPage ==
  ASSUME NEW provenance, NEW asOf
  PROVE  LET matching == {i \in DOMAIN table : Observations!Matches(provenance, table[i].value)}
         IN  Observations!List(provenance, asOf)
               = FirstBy(LatestOf(table, KnownAt(table, asOf) \cap matching),
                         [i \in DOMAIN table |-> table[i].key], PageSize)
  BY Zenon DEF Observations!List, Observations!FilterThenChoose, Observations!KnownAt, KnownAt,
               Observations!LatestOf, LatestOf, Observations!FirstBy, FirstBy,
               Observations!Min, Min, Observations!Cardinality, Cardinality

LEMMA ListIsPageNext ==
  ASSUME NEW provenance, NEW asOf
  PROVE  LET matching == {i \in DOMAIN table : Observations!Matches(provenance, table[i].value)}
         IN  Observations!List(provenance, asOf)'
               = FirstBy(LatestOf(table', KnownAt(table', asOf) \cap matching'),
                         [i \in DOMAIN table' |-> table'[i].key], PageSize)
  BY Zenon DEF Observations!List, Observations!FilterThenChoose, Observations!KnownAt, KnownAt,
               Observations!LatestOf, LatestOf, Observations!FirstBy, FirstBy,
               Observations!Min, Min, Observations!Cardinality, Cardinality

\* A row stamped after an instant changes no answer about that instant.
LEMMA AnswerStays ==
  ASSUME table \in Seq(Item), NEW row \in Item, table' = Append(table, row),
         NEW provenance, NEW asOf \in Nat, asOf < row.stamp
  PROVE  Observations!List(provenance, asOf)' = Observations!List(provenance, asOf)
<1> DEFINE
     matching == {i \in DOMAIN table : Observations!Matches(provenance, table[i].value)}
     known == KnownAt(table, asOf) \cap matching
     ids == LatestOf(table, known)
     rank == [i \in DOMAIN table |-> table[i].key]
<1>1. /\ DOMAIN table' = DOMAIN table \cup {Len(table) + 1}
      /\ \A i \in DOMAIN table : table'[i] = table[i] /\ i # Len(table) + 1
      /\ table'[Len(table) + 1] = row
  OBVIOUS
<1>2. ~(row.stamp <= asOf)
  BY DEF Item
<1>3. known' = known
  BY <1>1, <1>2 DEF KnownAt
<1>4. known \subseteq DOMAIN table
  OBVIOUS
<1>5. ids' = ids
  <2> HIDE DEF known
  <2>1. \A i \in known : table'[i] = table[i]
    BY <1>1, <1>4
  <2> QED BY <1>3, <2>1 DEF LatestOf
<1>6. ids \subseteq DOMAIN table
  BY <1>4 DEF LatestOf
<1> HIDE DEF ids
<1>7. \A i \in ids : rank'[i] = rank[i]
  <2>1. \A i \in DOMAIN table : i \in DOMAIN table' /\ table'[i].key = table[i].key
    BY <1>1
  <2>2. /\ \A i \in DOMAIN table : rank[i] = table[i].key
        /\ \A i \in DOMAIN table' : rank'[i] = table'[i].key
    OBVIOUS
  <2> HIDE DEF rank
  <2> QED BY <1>6, <2>1, <2>2
<1> HIDE DEF rank
<1>8. FirstBy(ids, rank', PageSize) = FirstBy(ids, rank, PageSize)
  BY <1>7, SameRanksSamePage
<1>9. /\ Observations!List(provenance, asOf) = FirstBy(ids, rank, PageSize)
      /\ Observations!List(provenance, asOf)' = FirstBy(ids', rank', PageSize)
  BY Zenon, ListIsPage, ListIsPageNext DEF ids, rank, known
<1> QED BY <1>5, <1>8, <1>9

LEMMA AskedStart == Observations!Init => AskedInv
  BY DEF Observations!Init, AskedInv

LEMMA AskedStep == AskedInv /\ [Observations!Next]_Observations!vars => AskedInv'
<1> SUFFICES ASSUME AskedInv, [Observations!Next]_Observations!vars PROVE AskedInv'
  OBVIOUS
<1>1. CASE Observations!Tick
  <2>1. \A p, asOf : Observations!List(p, asOf)' = Observations!List(p, asOf)
    BY <1>1 DEF Observations!Tick, Observations!List
  <2> QED BY <1>1, <2>1 DEF Observations!Tick, AskedInv
<1>2. ASSUME NEW key \in Key, NEW value \in Observations!Value, Observations!Insert(key, value)
      PROVE  AskedInv'
  <2> DEFINE row == [key |-> key, stamp |-> clock, value |-> value]
  <2>1. row \in Item /\ row.stamp = clock /\ table' = Append(table, row)
    BY <1>2 DEF Observations!Insert, Item, AskedInv
  <2> HIDE DEF row
  <2>2. table' \in Seq(Item)
    BY <2>1 DEF AskedInv
  <2>3. ASSUME NEW a \in asked
        PROVE  a.rows = Observations!List(a.provenance, a.asOf)'
    <3>1. a.asOf \in Nat /\ a.asOf < row.stamp /\ table \in Seq(Item)
          /\ a.rows = Observations!List(a.provenance, a.asOf)
      BY <2>1 DEF AskedInv
    <3>2. Observations!List(a.provenance, a.asOf)' = Observations!List(a.provenance, a.asOf)
      BY <2>1, <3>1, AnswerStays
    <3> QED BY <3>1, <3>2
  <2> QED BY <1>2, <2>2, <2>3 DEF Observations!Insert, AskedInv
<1>3. ASSUME NEW provenance \in Observations!Provenance, NEW asOf \in 0..MaxClock, Observations!Ask(provenance, asOf)
      PROVE  AskedInv'
  <2>1. \A p, i : Observations!List(p, i)' = Observations!List(p, i)
    BY <1>3 DEF Observations!Ask, Observations!List
  <2> DEFINE answer == [provenance |-> provenance, asOf |-> asOf,
                        rows |-> Observations!List(provenance, asOf)]
  <2>2. ASSUME NEW a \in asked'
        PROVE  a.asOf \in Nat /\ a.asOf < clock /\ a.rows = Observations!List(a.provenance, a.asOf)
    <3>1. CASE a \in asked
      BY <3>1 DEF AskedInv
    <3>2. CASE a = answer
      BY <1>3, <3>2 DEF Observations!Ask
    <3> QED BY <1>3, <2>2, <3>1, <3>2 DEF Observations!Ask
  <2> QED BY <1>3, <2>1, <2>2 DEF Observations!Ask, AskedInv
<1>4. CASE UNCHANGED Observations!vars
  <2>1. \A p, i : Observations!List(p, i)' = Observations!List(p, i)
    BY <1>4 DEF Observations!vars, Observations!List
  <2> QED BY <1>4, <2>1 DEF Observations!vars, AskedInv
<1> QED BY <1>1, <1>2, <1>3, <1>4 DEF Observations!Next

----------------------------------------------------------------------------
\* The same as-of query gives the same answer whenever it is asked, whatever is
\* inserted in between (observation.List; the trigger that stamps every row).
THEOREM AnswersAreFixed == Observations!Spec => []SameAnswer
<1>1. AskedInv => SameAnswer
  BY Zenon DEF AskedInv, SameAnswer, Observations!SameAnswer
<1> QED BY <1>1, AskedStart, AskedStep, PTL DEF Observations!Spec

LEMMA CurrentAnswers ==
  ASSUME AskedInv
  PROVE  AllIsCurrent
<1> SUFFICES ASSUME NEW a \in asked, a.provenance = "all"
             PROVE  LET current == LatestOf(table, KnownAt(table, a.asOf))
                    IN  /\ {a.rows[k] : k \in DOMAIN a.rows} \subseteq current
                        /\ Len(a.rows) = Min({PageSize, Cardinality(current)})
  BY Zenon DEF AllIsCurrent, Observations!AllIsCurrent, KnownAt, Observations!LatestOf, LatestOf,
               Observations!Min, Min, Observations!Cardinality, Cardinality
<1> DEFINE known == KnownAt(table, a.asOf)
           current == LatestOf(table, known)
           matching == {i \in DOMAIN table : Observations!Matches(a.provenance, table[i].value)}
           rank == [i \in DOMAIN table |-> table[i].key]
<1>1. matching = DOMAIN table
  BY DEF Observations!Matches
<1>2. known \cap matching = known
  BY <1>1 DEF KnownAt
<1>3. a.rows = FirstBy(current, rank, PageSize)
  <2>1. a.rows = FirstBy(LatestOf(table, known \cap matching), rank, PageSize)
    BY Zenon, ListIsPage DEF AskedInv
  <2> QED BY <1>2, <2>1
<1>4. current \subseteq DOMAIN table
  BY DEF LatestOf, KnownAt
<1>5. table \in Seq(Item)
  BY DEF AskedInv
<1> HIDE DEF current, known, matching
<1>6. current \in SUBSET Nat /\ IsFiniteSet(current)
  <2>1. DOMAIN table = 1..Len(table) /\ Len(table) \in Nat
    BY <1>5
  <2>2. IsFiniteSet(1..Len(table))
    BY <2>1, FS_Interval
  <2> QED BY <1>4, <2>1, <2>2, FS_Subset
<1>7. \A i \in current : rank[i] \in Int
  <2>1. \A i \in DOMAIN table : table[i] \in Item
    BY <1>5
  <2>2. \A i \in DOMAIN table : table[i].key \in Int
    BY <2>1, ObservationsAssumption DEF Item
  <2> QED BY <1>4, <2>2
<1> HIDE DEF rank
<1>8. a.rows \in Seq(current) /\ Len(a.rows) = Min({PageSize, Cardinality(current)})
  BY <1>3, <1>6, <1>7, ObservationsAssumption, FirstByPage
<1> QED BY <1>8 DEF current, known

\* An answer about every provenance is made of current versions, of all of them
\* unless they fill the page (observation.List).
THEOREM AnswersAreCurrent == Observations!Spec => []AllIsCurrent
<1>1. AskedInv => AllIsCurrent
  BY CurrentAnswers
<1> QED BY <1>1, AskedStart, AskedStep, PTL DEF Observations!Spec
==============================================================================
