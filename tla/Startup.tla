------------------------------- MODULE Startup -------------------------------
(***************************************************************************)
(* How servers start: wait for the database, migrate it, open the pool,    *)
(* look up the source, listen (cmd/server/main.go and scheduler.go,        *)
(* internal/db/db.go, the library goose).                                  *)
(*                                                                         *)
(* A migration and its row in goose_db_version are one transaction.  goose *)
(* reads the version again before each migration, and takes no lock when   *)
(* it is called as Migrate calls it.  The configuration is read before all *)
(* of this: a start with a bad one ends before it begins.                  *)
(***************************************************************************)
EXTENDS Migrations, SequencesExt

CONSTANTS
  Server,     \* servers of one release on one database
  Volume,     \* the databases they may find: "empty", "legacy", "v0.1"
  Together,   \* whether one may start while another is starting
  MaxStarts, MaxOutages  \* bounds of the model

ASSUME StartupAssumption ==
  /\ Volume \subseteq {"empty", "legacy", "v0.1"}
  /\ Together \in BOOLEAN
  /\ MaxStarts \in Nat /\ MaxOutages \in Nat

VARIABLES
  up,         \* whether the database answers
  schema,     \* the objects that are there
  versions,   \* goose_db_version, by id; <<>> while there is no such table
  enabled,    \* data_sources.enabled of the USGS source
  stage,      \* where each server is
  aim,        \* the migration it is about to apply
  collecting, \* whether its scheduler was started
  starts, outages  \* how often a server started and the database stopped

database == <<up, schema, versions, enabled>>

vars == <<database, stage, aim, collecting, starts, outages>>

Starting == {"waiting", "ensure", "create", "pick", "apply", "pool", "source", "listen"}

Stage == {"down", "serving"} \cup Starting

TypeOK ==
  /\ up \in BOOLEAN
  /\ schema \subseteq Object
  /\ versions \in Seq({0} \cup Files)
  /\ enabled \in BOOLEAN
  /\ stage \in [Server -> Stage]
  /\ aim \in [Server -> {0} \cup Files]
  /\ collecting \in [Server -> BOOLEAN]
  /\ starts \in 0..MaxStarts /\ outages \in 0..MaxOutages
  /\ \A s \in Server : collecting[s] => stage[s] \in {"listen", "serving"}

\* The rows a release that stopped at a version has left.
VersionsUpTo(version) == <<0>> \o [k \in 1..(version - FirstVersion + 1) |-> k + FirstVersion - 1]

\* V0.1 stopped at version 10; its database may hold earthquakes.
Init ==
  /\ up \in BOOLEAN
  /\ \E volume \in Volume :
       CASE volume = "empty"  -> schema = {} /\ versions = <<>> /\ enabled = FALSE
         [] volume = "legacy" -> schema = LegacySchema /\ versions = <<>> /\ enabled = TRUE
         [] OTHER             -> /\ schema = SchemaAt(10) \cup {"events"}
                                 /\ versions = VersionsUpTo(10) /\ enabled = FALSE
  /\ stage = [s \in Server |-> "down"]
  /\ aim = [s \in Server |-> 0]
  /\ collecting = [s \in Server |-> FALSE]
  /\ starts = 0 /\ outages = 0

----------------------------------------------------------------------------
(* The surroundings.                                                       *)

StopDatabase ==
  /\ up /\ outages < MaxOutages
  /\ up' = FALSE
  /\ outages' = outages + 1
  /\ UNCHANGED <<schema, versions, enabled, stage, aim, collecting, starts>>

StartDatabase ==
  /\ ~up
  /\ up' = TRUE
  /\ UNCHANGED <<schema, versions, enabled, stage, aim, collecting, starts, outages>>

\* An operator enables or disables the source; a source without a licence
\* cannot be enabled (migration 007).
SwitchSource ==
  /\ up /\ "usgs_licence" \in schema
  /\ enabled' = ~enabled
  /\ UNCHANGED <<up, schema, versions, stage, aim, collecting, starts, outages>>

----------------------------------------------------------------------------
(* A start.                                                                *)

Goto(s, next) == stage' = [stage EXCEPT ![s] = next]

\* The process ends, and what it had in memory with it.
GoDown(s) ==
  /\ Goto(s, "down")
  /\ aim' = [aim EXCEPT ![s] = 0]
  /\ collecting' = [collecting EXCEPT ![s] = FALSE]

Begin(s) ==
  /\ stage[s] = "down" /\ starts < MaxStarts
  /\ Together \/ \A r \in Server : stage[r] \notin Starting
  /\ starts' = starts + 1
  /\ Goto(s, "waiting")
  /\ UNCHANGED <<database, aim, collecting, outages>>

\* WaitReady: one attempt goes through ...
FindReady(s) ==
  /\ stage[s] = "waiting" /\ up
  /\ Goto(s, "ensure")
  /\ UNCHANGED <<database, aim, collecting, starts, outages>>

\* Fault: the wait for the database has no end.
WaitForEver(s) == FALSE /\ UNCHANGED vars

\* ... or the timeout passes.
GiveUpWaiting(s) ==
  /\ stage[s] = "waiting" /\ ~up
  /\ GoDown(s)
  /\ UNCHANGED <<database, starts, outages>>

\* The version goose goes by: that of the row written last.
CurrentVersion == IF versions = <<>> THEN 0 ELSE Last(versions)

\* Files below the highest version that were never applied.
MissingFiles == {v \in Files : v < Max({0} \cup Range(versions)) /\ v \notin Range(versions)}

\* EnsureDBVersion and the check for missing files.
Ensure(s) ==
  /\ stage[s] = "ensure" /\ up
  /\ IF MissingFiles = {}
     THEN /\ Goto(s, IF versions = <<>> THEN "create" ELSE "pick")
          /\ UNCHANGED <<aim, collecting>>
     ELSE GoDown(s)
  /\ UNCHANGED <<database, starts, outages>>

\* The version table is created, unless somebody else has by now.
CreateVersionTable(s) ==
  /\ stage[s] = "create" /\ up
  /\ IF versions = <<>>
     THEN /\ versions' = <<0>>
          /\ Goto(s, "pick")
          /\ UNCHANGED <<aim, collecting>>
     ELSE GoDown(s) /\ UNCHANGED versions
  /\ UNCHANGED <<up, schema, enabled, starts, outages>>

\* Fault: the migration to begin with is chosen by what the binary has.
PickFirst(s) ==
  /\ stage[s] = "pick" /\ up
  /\ IF CurrentVersion = Expected
     THEN Goto(s, "pool") /\ UNCHANGED aim
     ELSE /\ aim' = [aim EXCEPT ![s] = IF aim[s] = 0 THEN FirstVersion ELSE aim[s] + 1]
          /\ Goto(s, "apply")
  /\ UNCHANGED <<database, collecting, starts, outages>>

\* The version is read, and with it settled which migration is next.
Pick(s) ==
  /\ stage[s] = "pick" /\ up
  /\ LET pending == {v \in Files : v > CurrentVersion}
     IN  IF pending = {}
         THEN Goto(s, "pool") /\ aim' = [aim EXCEPT ![s] = 0]
         ELSE Goto(s, "apply") /\ aim' = [aim EXCEPT ![s] = Min(pending)]
  /\ UNCHANGED <<database, collecting, starts, outages>>

\* Fault: the version is recorded in a transaction of its own, before ...
ApplyRecordingFirst(s) ==
  /\ stage[s] = "apply" /\ up
  /\ IF aim[s] \notin Range(versions)
     THEN /\ versions' = Append(versions, aim[s])
          /\ UNCHANGED <<schema, enabled, stage>>
     ELSE /\ schema' = After(aim[s], schema)
          /\ enabled' = EnabledAfter(aim[s], schema, enabled)
          /\ Goto(s, "pick")
          /\ UNCHANGED versions
  /\ UNCHANGED <<up, aim, collecting, starts, outages>>

\* Fault: ... or after the statements.
ApplyRecordingLast(s) ==
  /\ stage[s] = "apply" /\ up
  /\ IF Applies(aim[s], schema)
     THEN /\ schema' = After(aim[s], schema)
          /\ enabled' = EnabledAfter(aim[s], schema, enabled)
          /\ UNCHANGED <<versions, stage>>
     ELSE /\ versions' = Append(versions, aim[s])
          /\ Goto(s, "pick")
          /\ UNCHANGED <<schema, enabled>>
  /\ UNCHANGED <<up, aim, collecting, starts, outages>>

\* The transaction of one migration: all of it, or an error that ends the start.
Apply(s) ==
  /\ stage[s] = "apply" /\ up
  /\ IF Applies(aim[s], schema)
     THEN /\ schema' = After(aim[s], schema)
          /\ versions' = Append(versions, aim[s])
          /\ enabled' = EnabledAfter(aim[s], schema, enabled)
          /\ Goto(s, "pick")
          /\ UNCHANGED <<aim, collecting>>
     ELSE GoDown(s) /\ UNCHANGED <<schema, versions, enabled>>
  /\ UNCHANGED <<up, starts, outages>>

\* NewPool, with its Ping.
OpenPool(s) ==
  /\ stage[s] = "pool" /\ up
  /\ Goto(s, "source")
  /\ UNCHANGED <<database, aim, collecting, starts, outages>>

\* startIngestionScheduler: the source is looked up once; whatever goes wrong is
\* logged, and the server starts without a scheduler.  INGEST_INTERVAL may be 0.
StartScheduler(s) ==
  /\ stage[s] = "source"
  /\ \E interval \in BOOLEAN :
       collecting' = [collecting EXCEPT ![s] = interval /\ up /\ enabled]
  /\ Goto(s, "listen")
  /\ UNCHANGED <<database, aim, starts, outages>>

Listen(s) ==
  /\ stage[s] = "listen"
  /\ Goto(s, "serving")
  /\ UNCHANGED <<database, aim, collecting, starts, outages>>

\* A step that needs the database ends the start when there is none.
FailWithoutDatabase(s) ==
  /\ stage[s] \in {"ensure", "create", "pick", "apply", "pool"} /\ ~up
  /\ GoDown(s)
  /\ UNCHANGED <<database, starts, outages>>

\* Killed, or stopped by what is not modelled: the address is taken, a statement
\* fails for a reason of its own.  An open transaction is rolled back.
Kill(s) ==
  /\ stage[s] # "down"
  /\ GoDown(s)
  /\ UNCHANGED <<database, starts, outages>>

Start(s) ==
  \/ FindReady(s)
  \/ GiveUpWaiting(s)
  \/ Ensure(s)
  \/ CreateVersionTable(s)
  \/ Pick(s)
  \/ Apply(s)
  \/ OpenPool(s)
  \/ StartScheduler(s)
  \/ Listen(s)
  \/ FailWithoutDatabase(s)

Next ==
  \/ StopDatabase
  \/ StartDatabase
  \/ SwitchSource
  \/ \E s \in Server : Begin(s) \/ Start(s) \/ Kill(s)

\* Every step of a start ends, with its error or without; goose has no timeout,
\* but a database that answers gets it through and one that does not fails it.
Spec == Init /\ [][Next]_vars /\ \A s \in Server : WF_vars(Start(s))

----------------------------------------------------------------------------
(* Properties.                                                             *)

\* What GET /health says: the highest version in the table, and nothing else of
\* the schema, decides (handleHealth).
HealthOk == up /\ Max({0} \cup Range(versions)) >= Expected

\* Whoever is told that a server is healthy finds everything its statements need:
\* a server "refuses to report healthy against a database that is behind it",
\* wherever earlier starts were broken off (handleHealth, schema_version.go).
HealthHonest ==
  \A s \in Server : stage[s] = "serving" /\ HealthOk => Complete(schema)

\* A start never meets a schema that refuses its next step, wherever earlier
\* starts were broken off ("rodar novamente sobre um banco ja migrado nao altera
\* nada e nao falha", ambiente-local spec).
NeverRefused ==
  /\ MissingFiles = {}
  /\ \A s \in Server :
       /\ stage[s] = "create" => versions = <<>>
       /\ stage[s] = "apply" => Applies(aim[s], schema)

\* What was collected, and what an operator decided about the source, outlive
\* every later start ("os dados preexistentes sao preservados", ambiente-local
\* spec).
DataKept ==
  [][/\ "events" \in schema => "events" \in schema'
     /\ versions' # versions /\ "usgs_licence" \in schema => enabled' = enabled]_database

\* Every start ends, serving or down, even if the database never comes.
StartEnds == \A s \in Server : stage[s] \in Starting ~> stage[s] \notin Starting

\* The schema and the servers keep SchemaContract.
Contract == INSTANCE SchemaContract WITH
  First   <- FirstVersion,
  Final   <- Expected,
  Built   <- [v \in {0} \cup Files |-> IF v = 0 THEN {} ELSE SchemaAt(v)],
  version <- CurrentVersion,
  objects <- IF CurrentVersion = 0 THEN {} ELSE schema \ {"events"},
  serving <- {s \in Server : stage[s] = "serving"}

ContractKept == Contract!Spec

----------------------------------------------------------------------------
(* Strengthenings: what the proofs show inductive (Startup_proofs).        *)

\* The schema is what the recorded migrations have built, or what was there
\* before the first.
SchemaInv ==
  \/ versions \in {<<>>, <<0>>} /\ schema \in {{}, LegacySchema}
  \/ \E version \in Files :
       versions = VersionsUpTo(version) /\ schema \ {"events"} = SchemaAt(version)

\* The migration that follows the version the database is at.
NextVersion == IF CurrentVersion = 0 THEN FirstVersion ELSE CurrentVersion + 1

\* One server starts at a time, and each knows where the schema stands.
StartInv ==
  /\ \A r, s \in Server : stage[r] \in Starting /\ stage[s] \in Starting => r = s
  /\ \A s \in Server :
       /\ stage[s] = "create" => versions = <<>>
       /\ stage[s] = "pick" => versions # <<>>
       /\ stage[s] = "apply" => versions # <<>> /\ aim[s] \in Files /\ aim[s] = NextVersion
       /\ stage[s] \in {"pool", "source", "listen", "serving"} => CurrentVersion = Expected
============================================================================
