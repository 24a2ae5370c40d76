----------------------------- MODULE Bitemporal -----------------------------
(***************************************************************************)
(* Reading a table that keeps every version of every record: earthquakes   *)
(* and observations (migrations 004, 005 and 009).                         *)
(*                                                                         *)
(* A table is a sequence of rows; the index of a row is its id.  A row has *)
(* a key, the time `stamp` its statement began (ingested_at, which a       *)
(* trigger forces to now()), and a value.                                  *)
(***************************************************************************)
EXTENDS Integers, Sequences, FiniteSetsExt

\* UNIQUE (natural key, ingested_at).
UniqueVersion(table, key, stamp) ==
  ~\E i \in DOMAIN table : table[i].key = key /\ table[i].stamp = stamp

\* DISTINCT ON (natural key) ... ORDER BY ingested_at DESC, over the rows ids.
LatestOf(table, ids) ==
  {i \in ids : \A j \in ids : table[j].key = table[i].key => table[j].stamp <= table[i].stamp}

\* Fault: what was stamped at the instant itself is left out.
KnownBefore(table, asOf) == {i \in DOMAIN table : table[i].stamp < asOf}

KnownAt(table, asOf) == {i \in DOMAIN table : table[i].stamp <= asOf}

\* The versions that are the latest at asOf among the rows that pass a filter:
\* the filter runs before the version is chosen.
FilterThenChoose(table, asOf, passing) == LatestOf(table, KnownAt(table, asOf) \cap passing)

\* The current versions at asOf that are among the rows that pass a filter: the
\* version is chosen before the filter runs.
ChooseThenFilter(table, asOf, passing) == LatestOf(table, KnownAt(table, asOf)) \cap passing

\* The first n ids in the order of rank, ties broken by id: ORDER BY rank, id
\* LIMIT n.
FirstBy(ids, rank, n) ==
  LET Before(i, j) == rank[i] < rank[j] \/ (rank[i] = rank[j] /\ i < j)
      place == [i \in ids |-> 1 + Cardinality({j \in ids : Before(j, i)})]
  IN  [k \in 1..Min({n, Cardinality(ids)}) |-> CHOOSE i \in ids : place[i] = k]
============================================================================
