-------------------------- MODULE ObservationReads --------------------------
(***************************************************************************)
(* GET /api/v1/observations over a table that keeps growing                *)
(* (internal/observation/observation.go, handleListObservations).          *)
(*                                                                         *)
(* The provenance a query asks for is tested before the version is chosen, *)
(* which earthquake.List takes care not to do; and the handler reads no    *)
(* cursor and gives none, so that an answer is one page long.              *)
(***************************************************************************)
EXTENDS Bitemporal

CONSTANTS
  Key,       \* natural keys: volcano, kind, observed_at and source
  Content,   \* measured values
  Limit,     \* items per page
  MaxClock, MaxRows, MaxAsked  \* bounds of the model

Provenance == {"real", "synthetic", "all"}

VARIABLES
  clock,
  table,   \* observations, in order of id
  asked    \* the queries answered so far, with their answers

vars == <<clock, table, asked>>

Value == [content : Content, synthetic : BOOLEAN]

TypeOK ==
  /\ clock \in 0..MaxClock
  /\ table \in Seq([key : Key, stamp : 0..clock, value : Value])
  /\ \A a \in asked :
        a.asOf < clock /\ a.provenance \in Provenance /\ a.rows \in Seq(DOMAIN table)

Init == clock = 0 /\ table = <<>> /\ asked = {}

Tick ==
  /\ clock < MaxClock
  /\ clock' = clock + 1
  /\ UNCHANGED <<table, asked>>

\* Fault: the caller's own ingested_at is stored.
InsertDated(key, value) ==
  /\ Len(table) < MaxRows
  /\ UniqueVersion(table, key, 0)
  /\ table' = Append(table, [key |-> key, stamp |-> 0, value |-> value])
  /\ UNCHANGED <<clock, asked>>

\* observation.Insert: the database stamps the row; a version is never refused
\* for what it says.
Insert(key, value) ==
  /\ Len(table) < MaxRows
  /\ UniqueVersion(table, key, clock)
  /\ table' = Append(table, [key |-> key, stamp |-> clock, value |-> value])
  /\ UNCHANGED <<clock, asked>>

Matches(provenance, value) ==
  CASE provenance = "real"      -> ~value.synthetic
    [] provenance = "synthetic" -> value.synthetic
    [] OTHER                    -> TRUE

\* observation.List; keys stand for observed_at in the order of the answer.
List(provenance, asOf) ==
  LET matching == {i \in DOMAIN table : Matches(provenance, table[i].value)}
  IN  FirstBy(FilterThenChoose(table, asOf, matching), [i \in DOMAIN table |-> table[i].key], Limit)

\* A query about an instant that is past.
Ask(provenance, asOf) ==
  /\ Cardinality(asked) < MaxAsked
  /\ asOf < clock
  /\ asked' = asked \cup
       {[provenance |-> provenance, asOf |-> asOf, rows |-> List(provenance, asOf)]}
  /\ UNCHANGED <<clock, table>>

Next ==
  \/ Tick
  \/ \E key \in Key, value \in Value : Insert(key, value)
  \/ \E provenance \in Provenance, asOf \in 0..MaxClock : Ask(provenance, asOf)

Spec == Init /\ [][Next]_vars

----------------------------------------------------------------------------
(* Properties.                                                             *)

\* The same as-of query gives the same answer whenever it is asked, whatever
\* has been inserted in the meantime (armazenamento-temporal spec).
SameAnswer ==
  \A a, b \in asked :
     a.provenance = b.provenance /\ a.asOf = b.asOf => a.rows = b.rows

\* A question for every provenance is answered with current versions only
\* ("exactly the current-version row per natural key", List), with all of them
\* unless they fill the page, and there is no other page.  Of one provenance the
\* answer may hold a version that another provenance has superseded, for the
\* filter runs before the version is chosen.
AllIsCurrent ==
  \A a \in asked : a.provenance = "all" =>
     LET current == LatestOf(table, {i \in DOMAIN table : table[i].stamp <= a.asOf})
     IN  /\ {a.rows[k] : k \in DOMAIN a.rows} \subseteq current
         /\ Len(a.rows) = Min({Limit, Cardinality(current)})
============================================================================
