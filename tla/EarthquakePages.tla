--------------------------- MODULE EarthquakePages ---------------------------
(***************************************************************************)
(* A consumer walks the pages of GET /api/v1/earthquakes while a           *)
(* collection revises the events (internal/earthquake/earthquake.go,       *)
(* handleListEarthquakes and the cursor of internal/httpapi/params.go).    *)
(*                                                                         *)
(* Every page is a statement of its own; what carries the walk from one to *)
(* the next is the cursor, and the instant as_of if the consumer gives one.*)
(* One collection writes at a time (SerialRuns of Ingestion), each version *)
(* in a statement that stamps the row when it begins and shows it when it  *)
(* commits.                                                                *)
(***************************************************************************)
EXTENDS Bitemporal

CONSTANTS
  Event,        \* external ids
  Distance,     \* how far a version may place its event from the point asked about
  Radius,       \* radius_km of the walks around the point
  Limit,        \* items per page
  SlowCommits,  \* whether the clock may pass while an INSERT is under way
  MaxClock, MaxRows  \* bounds of the model

ASSUME PagesAssumption ==
  /\ Distance \subseteq Nat \ {0}
  /\ Radius \in Nat
  /\ Limit \in Nat \ {0}
  /\ SlowCommits \in BOOLEAN
  /\ MaxClock \in Nat /\ MaxRows \in Nat

VARIABLES
  clock,
  table,     \* earthquakes: the committed rows
  inserting, \* the row of the INSERT under way, if any
  walk       \* the walk of the consumer

vars == <<clock, table, inserting, walk>>

Row == [key : Event, stamp : Nat, value : Distance]

\* A position in a walk: the id and, around a point, the distance of the last
\* item of the page before; id 0 at the start.
Cursor == [id : Nat, distance : Nat]

\* A walk, with two things the code does not keep: the ids `seen` so far and how
\* many rows were `known` when it began.
NoWalk == [stage |-> "idle", near |-> FALSE, pinned |-> FALSE, asOf |-> 0,
           cursor |-> [id |-> 0, distance |-> 0], seen |-> <<>>, known |-> 0]

TypeOK ==
  /\ clock \in Nat
  /\ table \in Seq(Row)
  /\ inserting \subseteq Row /\ Cardinality(inserting) <= 1
  /\ walk.stage \in {"idle", "walking", "done"}
  /\ walk.near \in BOOLEAN /\ walk.pinned \in BOOLEAN
  /\ walk.asOf \in 0..clock
  /\ walk.cursor \in Cursor
  /\ walk.seen \in Seq(DOMAIN table)
  /\ walk.known \in 0..Len(table)

Init == clock = 0 /\ table = <<>> /\ inserting = {} /\ walk = NoWalk

Tick ==
  /\ clock < MaxClock
  /\ SlowCommits \/ inserting = {}
  /\ clock' = clock + 1
  /\ UNCHANGED <<table, inserting, walk>>

----------------------------------------------------------------------------
(* The collection.                                                         *)

Current(asOf) == LatestOf(table, KnownAt(table, asOf))

\* Save has found that event e moved: its INSERT begins, and now() is fixed.
BeginInsert(e, d) ==
  /\ inserting = {}
  /\ Len(table) < MaxRows
  /\ UniqueVersion(table, e, clock)
  /\ \A i \in Current(clock) : table[i].key = e => table[i].value # d
  /\ inserting' = {[key |-> e, stamp |-> clock, value |-> d]}
  /\ UNCHANGED <<clock, table, walk>>

Commit ==
  \E row \in inserting :
     /\ table' = Append(table, row)
     /\ inserting' = {}
     /\ UNCHANGED <<clock, walk>>

----------------------------------------------------------------------------
(* The walk.                                                               *)

\* A consumer may pin the walk to an instant that is past, or leave as_of out.
StartWalk(near, pinned, asOf) ==
  /\ walk.stage # "walking"
  /\ asOf < clock
  /\ walk' = [NoWalk EXCEPT
                !.stage = "walking", !.near = near, !.pinned = pinned, !.asOf = asOf,
                !.known = Len(table)]
  /\ UNCHANGED <<clock, table, inserting>>

AsOf == IF walk.pinned THEN walk.asOf ELSE clock

\* (distance_km, id) > cursor around a point, id > cursor otherwise.
BeyondCursor(i) ==
  IF walk.near
  THEN \/ table[i].value > walk.cursor.distance
       \/ table[i].value = walk.cursor.distance /\ i > walk.cursor.id
  ELSE i > walk.cursor.id

InRadius(distance) == walk.near => distance <= Radius

\* Fault: the cursor is applied before the version is chosen.
ResumeThenChoose ==
  LET rank == [i \in DOMAIN table |-> IF walk.near THEN table[i].value ELSE 0]
      rest == {i \in DOMAIN table : InRadius(table[i].value) /\ BeyondCursor(i)}
  IN  FirstBy(FilterThenChoose(table, AsOf, rest), rank, Limit)

\* earthquake.List: the page after the cursor.
List ==
  LET rank == [i \in DOMAIN table |-> IF walk.near THEN table[i].value ELSE 0]
      near == {i \in DOMAIN table : InRadius(table[i].value)}
      rest == {i \in ChooseThenFilter(table, AsOf, near) : BeyondCursor(i)}
  IN  FirstBy(rest, rank, Limit)

\* Fault: only a page that is over the limit has a next one.
HasNextBeyond(page) == Len(page) > Limit

\* A full page means there may be more.
HasNext(page) == Len(page) = Limit

FetchPage ==
  /\ walk.stage = "walking"
  /\ LET page == List
         last == page[Len(page)]
     IN  walk' = [walk EXCEPT
                    !.seen = @ \o page,
                    !.stage = IF HasNext(page) THEN "walking" ELSE "done",
                    !.cursor = IF HasNext(page)
                               THEN [id |-> last,
                                     distance |-> IF walk.near THEN table[last].value ELSE 0]
                               ELSE @]
  /\ UNCHANGED <<clock, table, inserting>>

Next ==
  \/ Tick
  \/ \E e \in Event, d \in Distance : BeginInsert(e, d)
  \/ Commit
  \/ \E near, pinned \in BOOLEAN, asOf \in 0..MaxClock : StartWalk(near, pinned, asOf)
  \/ FetchPage

Spec == Init /\ [][Next]_vars

----------------------------------------------------------------------------
(* Properties.                                                             *)

Seen == {walk.seen[k] : k \in DOMAIN walk.seen}

\* The events that were known when the walk began.
Due == {table[i].key : i \in 1..walk.known}

\* A walk pinned to an instant shows exactly what was known then, each event
\* once and in its version of then, however the pages fall between revisions:
\* the same as-of query gives the same answer whenever it is asked
\* (armazenamento-temporal spec), and pages neither repeat nor omit an item
\* (api-publica spec).
PinnedWalkExact ==
  walk.stage = "done" /\ walk.pinned =>
    /\ Len(walk.seen) = Cardinality(Seen)
    /\ Seen = {i \in Current(walk.asOf) : walk.near => table[i].value <= Radius}

\* A walk by id that is not pinned shows every event that was known when it
\* began, although a revision moves an event to the end of the order.
NothingOmitted ==
  walk.stage = "done" /\ ~walk.pinned /\ ~walk.near =>
    Due \subseteq {table[i].key : i \in Seen}

\* A walk shows an event again only in a version that was stored after the walk
\* began, and that revises the one it showed before: no page goes back on what
\* another said.  That an event is never repeated at all (api-publica spec,
\* "nenhum sismo e repetido nem omitido") holds of pinned walks only, see
\* NoEventTwice.
RepeatsAreRevisions ==
  \A k, l \in DOMAIN walk.seen :
     k < l /\ table[walk.seen[k]].key = table[walk.seen[l]].key
       => /\ walk.seen[l] > walk.known
          /\ table[walk.seen[k]].stamp < table[walk.seen[l]].stamp

\* No walk shows an event twice, what the api-publica spec says of every walk
\* over the whole collection.
NoEventTwice ==
  \A k, l \in DOMAIN walk.seen :
     table[walk.seen[k]].key = table[walk.seen[l]].key => k = l
============================================================================
