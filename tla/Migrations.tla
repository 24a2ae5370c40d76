------------------------------ MODULE Migrations ------------------------------
(***************************************************************************)
(* The migrations the binary embeds (backend/migrations), each by what it  *)
(* asks of the schema and what it does to it.                              *)
(*                                                                         *)
(* A schema is the set of objects that are there: tables, the columns,     *)
(* triggers or indexes one migration adds to a table, and the terms one    *)
(* writes for a source.  A migration alters its `needs`; it creates its    *)
(* `adds`, which must not be there yet; it sees to its `ensures`, there or *)
(* not; and it drops its `drops`, with all that hangs on them.             *)
(***************************************************************************)
EXTENDS Integers, FiniteSetsExt

Object == {"volcanoes", "sources", "old_observations", "old_earthquakes",
           "observations", "earthquakes", "events", "observation_indexes",
           "earthquake_indexes", "source_terms", "volcano_fields",
           "observation_stamp", "earthquake_stamp", "gvp_licence", "source_policy",
           "usgs_licence", "earthquake_fields", "earthquake_quality", "runs"}

Change(needs, adds, ensures, drops) ==
  [needs |-> needs, adds |-> adds, ensures |-> ensures, drops |-> drops]

ReconcileLegacy == Change({}, {}, {"volcanoes", "sources"},
                          {"old_observations", "old_earthquakes", "observations", "earthquakes"})
BitemporalObservations == Change({"volcanoes", "sources"}, {"observations"}, {}, {})
BitemporalEarthquakes == Change({"sources"}, {"earthquakes"}, {}, {})
TemporalIndexes == Change({"observations", "earthquakes"},
                          {"observation_indexes", "earthquake_indexes"}, {}, {})
SourcesAudit == Change({"sources"}, {"source_terms"}, {}, {})
VolcanoFields == Change({"volcanoes", "sources"}, {"volcano_fields"}, {}, {})
IngestedAtEnforced == Change({"observations", "earthquakes"},
                             {"observation_stamp", "earthquake_stamp"}, {}, {})
GvpLicence == Change({"source_terms"}, {}, {"gvp_licence"}, {})
CollectionPolicy == Change({"sources"}, {"source_policy"}, {}, {})
UsgsLicence == Change({"source_terms", "source_policy"}, {}, {"usgs_licence"}, {})
EarthquakeFields == Change({"earthquakes"}, {"earthquake_fields"}, {}, {})
EarthquakeQuality == Change({"earthquakes"}, {"earthquake_quality"}, {}, {})
IngestionRuns == Change({"sources"}, {"runs"}, {}, {})

\* By version.
Migration ==
  <<ReconcileLegacy, BitemporalObservations, BitemporalEarthquakes, TemporalIndexes,
    SourcesAudit, VolcanoFields, IngestedAtEnforced, GvpLicence, CollectionPolicy,
    UsgsLicence, EarthquakeFields, EarthquakeQuality, IngestionRuns>>

FirstVersion == 3

Expected == 15

\* What goose sees: 001 and 002 are hidden from it.
Files == FirstVersion..Expected

Changes(version) == Migration[version - FirstVersion + 1]

\* What hangs on a table and goes with it: "events" stands for its rows.
HangingOn(table) ==
  CASE table = "observations" -> {"observation_indexes", "observation_stamp"}
    [] table = "earthquakes"  -> {"events", "earthquake_indexes", "earthquake_stamp",
                                  "earthquake_fields", "earthquake_quality"}
    [] OTHER                  -> {}

\* Whether the statements of a migration go through.
Applies(version, schema) ==
  /\ Changes(version).needs \subseteq schema
  /\ Changes(version).adds \cap schema = {}

After(version, schema) ==
  LET gone == UNION {{table} \cup HangingOn(table) : table \in Changes(version).drops}
  IN  (schema \ gone) \cup Changes(version).adds \cup Changes(version).ensures

\* What the migrations up to a version leave behind, one after the other.
SchemaAt(version) ==
  UNION {Changes(v).adds \cup Changes(v).ensures : v \in FirstVersion..version}

\* What the statements of this release read and write.
Complete(schema) == SchemaAt(Expected) \subseteq schema

\* A volume that ran 001 and 002 from docker-entrypoint-initdb.d.
LegacySchema == {"volcanoes", "sources", "old_observations", "old_earthquakes"}

\* Whether the USGS source is enabled once a migration has run: 003 seeds the
\* sources as enabled, 007 disables what has no licence, 012 enables it.
EnabledAfter(version, schema, enabled) ==
  CASE version = 3  -> enabled \/ "sources" \notin schema
    [] version = 7  -> FALSE
    [] version = 12 -> TRUE
    [] OTHER        -> enabled
============================================================================
