# A verification development for VolcanoPredict

TLA+ models of the VolcanoPredict backend (`src/backend`) and of the stateful
parts of its map (`src/frontend`): what collects earthquakes from the USGS,
what imports the volcano catalogue of the GVP, what answers questions about
both, how its servers start, and what the browser does with the answers. TLC checks the models on
small instances; TLAPS proves every invariant those runs check, and the action
properties with them, for every value of the constants (section 5). Liveness and
the three findings stay with TLC.

Paths below are relative to `src/backend/internal` unless they say otherwise.

## 1. The system

| Part | State it keeps | Operations | Interacts with | Hard behaviour |
|---|---|---|---|---|
| **Collection cycle** `ingestion/scheduler.go`, `cmd/server/{scheduler,ingest}.go`, `usgs/ingest.go` | one cycle's window, row, page | `TryLock`, choose a window, `ingest`, `collect`, `persist`, release | source client, ledger, store; several servers and an operator's command compete | lock lost or stranded, statements without a deadline, crash between statements, failures on the error path, anchor against another clock, pages by offset |
| **Run ledger** `ingestion/run.go`, migration 015 | `ingestion_runs` | `Begin`, `Finish`, `Fail`, `Skip`, `LastRun`, `LastSuccess` | written by cycles, read by coverage, status and the next cycle's anchor | UPDATEs guarded by an id alone; the anchor ignores the mode |
| **Coverage and status** `ingestion/coverage.go` | none | `CoverageFor`, `GapsSince`, `StatusFor` | ledger; the HTTP answers | interval arithmetic; which run a status is read from |
| **Earthquake store** `earthquake/store.go`, migrations 005, 009, 014 | `earthquakes`, one row per version | `Save` | cycles; quality verdicts | reads and inserts in two statements; compares content alone |
| **Earthquake reads** `earthquake/earthquake.go`, `httpapi/{earthquakes,params}.go` | none; the cursor is the consumer's | `List`, the handler, `coverageFor` | store, registry, ledger | several statements per answer and several answers per walk, on no common snapshot |
| **Observations** `observation/observation.go` | `observations`, one row per version | `Insert`, `List` | handler | a filter before the choice of a version; no pages |
| **Source client** `usgs/{client,parser}.go` | attempts of one fetch, offset of a walk | `Fetch`, `attempt`, `FetchPages`, `countFeatures`, `Parse` | the source, the cycle | retries, outages, offset pages over changing data, records that cannot be read |
| **Connection pool** `pgxpool`, opened in `db/db.go` | connections held, callers waiting | acquire, release | the lock of a cycle, every statement, every request | a cycle holds one connection and waits for another |
| **Quality engine** `dataquality`, `usgs/ingest.go` | keys seen in a collection | `Evaluate`, `worst`, `qualityOptionsFor` | store | verdicts depend on more than the content |
| **GVP import** `cmd/server/import.go`, `gvp`, `volcano/volcano.go` | `volcanoes`, snapshot and manifest files | `VerifyChecksum`, `Parse`, `Upsert`, `MarkAbsent` | catalogue listing | no transaction, no lock; aborts half way; files replaced |
| **Catalogue listing** `volcano/list.go`, `frontend/src/api/client.ts` | the browser's walk | `List`, `fetchAllVolcanoes` | import | pages while an import rewrites the table |
| **Search panel** `frontend/src/ui/SearchPanel.tsx` | term, sequence number, timer, results | effect, timer, answers | API | answers in any order |
| **Globe** `frontend/src/globe/Globe.tsx`, `main.tsx` | Viewer, controls, layer, selection | effect and cleanup, asynchronous task, gestures | panel, API | remounts while a task waits |
| **Source registry** `source/source.go`, migrations 002, 007, 010 to 012 | `data_sources` | lookups | startup, commands, coverage | a flag read at one time and relied on at another |
| **Startup** `cmd/server/{main,scheduler}.go`, `config`, `db`, `migrations` | the schema and `goose_db_version` | `WaitReady`, `Migrate`, `NewPool`, the scheduler, the listener, `/health` | the database; other servers that start | crashes between migrations, two servers migrating at once, a database that comes late or goes away |

What makes each part correct, in one line each:

* collection: one at a time per source; nothing the source revised is lost
  between two cycles; a window recorded as collected was collected; the lock
  comes free whatever fails;
* ledger: rows are appended, closed at most once by their own cycle, and then
  never change;
* coverage: gaps are exactly what no successful run collected; what was
  complete stays complete; the status says how long nothing was delivered;
* store: an event's history grows by genuine revisions only; the mark on a
  version is what the checks say of it;
* reads: an answer about the past never changes, pages omit nothing and repeat
  nothing but revisions, and `complete` is said only when the collection has
  every event;
* import: it converges to what the snapshot says, column by column, whatever
  happened before, identities stay, one row per volcano;
* startup: a server takes requests on a complete schema only, whatever broke off
  the starts before it; what was collected outlives every start; every start
  ends;
* pool: a cycle ends however busy the pool is, and leaves nothing taken;
* browser: results shown answer the term typed, one Viewer, a layer that
  follows its box.

## 2. The modules

| Module | Models | Correspondence |
|---|---|---|
| `RunLedger` | `ingestion_runs` | one operator per SQL statement of `run.go`; the index of a row is its id; `finished_at` is left to the result, as the CHECK of migration 015 ties them |
| `LedgerContract` | abstract specification of the ledger | rows are opened and closed, nothing else |
| `HistoryContract` | abstract specification of `earthquakes` | each version differs from the one before |
| `Ingestion` | the cycle, every process that runs one, and the source | one action per statement or request; `pc[p]` says where the cycle of process `p` is; `holder` is the process whose session has the advisory lock, `held` how many times it took it, `pooled` whether that connection is back in the pool; `Position` and `Page` are `orderby=time-asc` with `offset` and `limit` |
| `Ingestion_proofs` | | theorems about the ledger, the lock and the history, and about what a collection finds: coverage, revisions, the anchor |
| `Lists` | | lemmas about `ORDER BY ... LIMIT ... OFFSET` over any finite set, and about folds over lists of any length |
| `Coverage` | `CoverageFor`, `subtract`, `mergeIntervals`, `GapsSince` | folds over the same sorted lists as the loops of the code |
| `LedgerReads` | `StatusFor`, and every ledger these are applied to | collections seen from the ledger only |
| `Bitemporal` | the SQL by which a table of versions is read | `LatestOf` is `DISTINCT ON ... ORDER BY ingested_at DESC`; filters before or after it as in the two lists that use it |
| `WindowAnswers` | one request of `/earthquakes` against a collection in progress | the handler's three statements as `ListEvents`, `LookUpSource`, `Cover`; what is listed is one `Page` of `limit` rows after the cursor, as known at `as_of` |
| `EarthquakePages` | a walk over pages while events are revised | an INSERT stamps at its beginning (`BeginInsert`) and shows at its `Commit` |
| `ObservationReads` | questions about a growing table of observations | `Insert`, `Ask` |
| `CoverageReads` | the two readers of the ledger, `LedgerReads` and `WindowAnswers` | a reader picked at the start acts, the other stands still |
| `CoverageReads_proofs` | | theorems about intervals, coverage, the status and the answers |
| `TableReads` | the two readers of the tables of versions, `EarthquakePages` and `ObservationReads` | as in `CoverageReads` |
| `TableReads_proofs` | | theorems about walks, pinned or not, and about questions |
| `QualityMarks` | `Evaluate`, `collect`, `persist`, `sameContent` | a verdict is the list of checks that fire and the worst of their states |
| `SourceClient` | `Fetch` and `attempt` | one step per request, look at the context, and wait |
| `SourcePages` | `FetchPages`, `countFeatures`, `Parse` and `collect` over one window | a feature is the set of fields it has; `TakePage` is the callback's decoding, `SaveEvent` one turn of its loop, `EndPage` the end of the walk's loop |
| `ConnectionPool` | `pgxpool`: who holds a connection and who waits, in order | external; opened by `NewPool` |
| `CollectionCycle` | `Scheduler.Run`, `RunOnce` and `TryLock` around a walk, on a shared pool | `phase` is the statement the cycle is at; a statement is `AcquireForStatement` and the step that gives the connection back |
| `CollectionCycle_proofs` | | theorems about a request and its retries, the walk over a window, the pool, and the marks of `QualityMarks` |
| `Migrations` | the thirteen migrations goose sees | each by what it needs, adds, makes sure of and drops |
| `SchemaContract` | abstract specification of schema and servers | one version up at a time; a version says what is built; requests at the last one only |
| `Startup` | `main` from `WaitReady` to the listener, goose, `/health` | one action per step of a start; goose reads the version before each migration (`Pick`) and applies it in one transaction (`Apply`) |
| `Startup_proofs` | | theorems about starts that follow one another |
| `VolcanoSheet` | `gvp/parser.go` | `Place` is a cell landing in its column; `ColumnOf` and `TextAt` say, without the loop, what a row says |
| `CatalogueImport` | `server import-catalog` | reads its sheets with `VolcanoSheet`; `Upsert` looks up and writes in two steps; the files may be replaced |
| `CataloguePages` | the browser's load composed with `CatalogueImport` | `FetchPage` interleaved with every step of an import |
| `CataloguePages_proofs` | | theorems about the sheet, the table and the load |
| `SearchPanel` | the search box | the effect per change of the term, the timer, the answers |
| `GlobeLayer` | the globe's effect and task, and the panel | `task[k]` is the task of the k-th run of the effect |
| `MapPage` | the page: both, and the click on a result | `SelectResult` is where the one acts on the other |
| `MapPage_proofs` | | theorems about both halves |

Which uses which: `Ingestion` extends `RunLedger` and instantiates its two
contracts; `Coverage` extends `RunLedger`, and `LedgerReads` and `WindowAnswers`
extend `Coverage`; `CoverageReads` extends the one and instantiates the other;
`EarthquakePages` and `ObservationReads` extend `Bitemporal`, and `TableReads` has
both in the same way;
`SourcePages` extends `SourceClient`, and `CollectionCycle` composes it with
`ConnectionPool`; `Startup` extends `Migrations` and instantiates
`SchemaContract`; `CatalogueImport` extends `VolcanoSheet`, `CataloguePages`
extends `CatalogueImport` and `Bitemporal`, `MapPage` both halves of the page. The
`MC...` modules give small instances their constants (`MCCollectionCycle` those of
`CollectionCycle`, `QualityMarks` and `Ingestion`, the three tellings of a cycle, of
which the initial state picks one), and each `..._proofs` module
extends the module it is about, and `Lists` where it needs it.
`CollectionCycle_proofs` extends `QualityMarks` as well: the two modules share no
variable, and are two views of what `usgs/ingest.go` does with one window.
`WindowAnswers`, `EarthquakePages` and `QualityMarks` take collections to be
serial: that is `SerialRuns` of `Ingestion`, proved in `Ingestion_proofs`.

A cycle is told three times, each time with what its question needs:
`Ingestion` has every process, the ledger and a source that changes between two
pages; `CollectionCycle` has one process, the connections, the caller's context
and every failure of a request; `QualityMarks` has the verdicts.

Definitions marked `Fault:` are not part of any specification. Each one is a
plausible bug of the definition that follows it (a dropped guard, a cursor that
stays where it is, a lock released early), and each property was seen to fail
when that bug is put in: `PROJECT.json`, under `mutants`, says which.

## 3. What is abstracted

* **Contents.** The content of an event and a measured value are members of
  small sets; `Invalid` (or `Misplaced`) are those the parser or the store
  refuses. In `SourcePages` a feature is the set of the fields that are in order;
  in `VolcanoSheet` a row is its cells, five of the fourteen columns: two that
  must hold a text, two a number, one a number if anything. Numbers are a few
  texts, `NaN` among them. What is compared is compared as a whole.
* **Schema.** Objects are there or not: a table, or what one migration adds to
  one. Rows of `earthquakes` are one object, `events`.
* **Time.** A clock that only ticks. Statements take no time in `Ingestion`;
  in `EarthquakePages` an INSERT may, because its stamp and its visibility then
  differ. All processes and the database agree on the clock; what the clock of
  the source does is in `Lag`: how old an `updated` stamp may be when it becomes
  visible. Requests carry whole seconds: `Second` ticks.
* **The source** publishes an event, touches its record with the same or another
  content, or takes it back, at any time. When an event happened is part of its
  content (`Occurred`), as in `sameContent`: a revision may tell another instant,
  and several events may tell the same. `Rank` is how the source orders those. With
  `Steady`, it keeps the order of its answers while a run walks them: nothing is
  moved in time or taken back between two pages, and ties are broken one way.
  Records still appear, are revised and are touched between any two pages, and
  before or after a run everything may move.
* **One source.** The lock, the ledger and the store are per source. `enabled` in
  `Startup` is the flag of the USGS source.
* **Ledger.** Counts and error messages, which nothing reads back.
* **Requests.** The checks of parameters that precede the first statement;
  filters of lists that are one more predicate on a value. In `WindowAnswers` a
  request asks about a window and an `as_of`; with a magnitude, a radius, a state of
  quality or a provenance it lists less, beside the same coverage. A window without
  a beginning gets no word on coverage, as one in the future (`AnswerPlain`).
* **Times of events** in `WindowAnswers` are fixed, and each event has one version:
  revisions are with `EarthquakePages`, events moved in time with `Ingestion`.

The definitions that stand for something outside the sources (the source, the
operator, a crash, the passing of time) are marked external in `PROJECT.json`.

## 4. The runs

Counters are bounded by constants named `Max...`; at the bounds a model stops,
and searches, imports and starts end by themselves, so deadlock is not checked.
What could wait for something for ever is asked of the four liveness properties
instead (`LockComesFree`, `CycleEnds`, `StartEnds`, `SearchEnds`).

| Run | Question | Instance and why it is enough |
|---|---|---|
| `ingest_contention` | do servers and a command keep out of each other's way? | two servers, one command, crashes, failures, unlocks that fail and statements never answered anywhere, three runs; the session of the lock lives; the two contracts are checked as refinements |
| `ingest_paging` | are pages over changing data safe, and does the overlap cover records that show late? | one server, pages of one record, two events, contents of two instants and an unusable one, an overlap of 2 ticks and a lag of 1, two runs: an event can tie with the other, be moved in time between the runs, be pushed further on by one that appears between two requests, an unusable record fill a page, and a revision fall before, into and after the overlap of the second run; `Steady` |
| `ingest_modes` | do backfill, manual and incremental runs mix? | a command in every mode and window over four instants, seconds of two ticks so that truncation bites; the session of the lock may be lost at any time |
| `ledger_coverage` | are gaps, kinds and long gaps exact? does complete stay complete? does the status say when the source last delivered? does the collection have what `complete` vouches for, and is `none` said of uncollected windows only? | an initial state picks one of two readers. The ledger: every ledger of three runs over four instants and every window: three intervals can overlap, nest, touch, repeat and be single instants; instants between readings of the clock are checked too. Windows: two events, two runs, pages of one row after any cursor and as of any instant, so that a page is cut or empty beside any coverage; the source switched at any time, the handler's three statements interleaved with all of it |
| `reads` | do walks repeat or omit? do answers about the past stay? | an initial state picks one of two readers. Pages: two events, four versions, pages of one item, by id and around a point, pinned and not; events are interchangeable, hence the symmetry. Observations: three rows, two questions, pages of two |
| `catalogue` | does an import converge to what the sheet says whatever happened before, do two race, and what does the browser load meanwhile? | five editions (full; changed and shrunken, with a cell that skips a column and one that goes back; partly unusable, once per reason; one with a coordinate that is no number; malformed) installed up to twice more, two interchangeable importers, aborts anywhere, a load of up to three pages of one volcano |
| `collection_cycle` | does a cycle read its window to the end, end itself and leave nothing taken? do circumstances make revisions, or marks outlive their cause? does the lock come free? | an initial state picks one of three parts. The cycle: three attempts per request, a source that answers in nine ways and changes between any two, a caller that leaves at any time, a pool of two with two requests beside the cycle, and five windows: empty, shorter than a page, ending with a page, and with records of every unusable kind inside a full page. Marks: three deliveries of one event over several collections and every order of the checks. The lock: a server and a command of `Ingestion`, two runs, one event, the session lost, the unlock failing and a statement unanswered at any time |
| `startup` | do starts that were broken off anywhere leave a database the next one can use? | two servers, three starts one after the other, every kind of database, one outage, kills anywhere |
| `map_page` | stale results, remounts, the layer and its box | three changes of the term with answers in any order, three runs of the effect, two gestures, failures of imagery and catalogue |
| `loss_backfill`, `paging_unsteady`, `startup_race` | findings, below | one command, backfills and incremental runs; two events of one instant, pages of one; two servers that start together, no outage |

The parts of `reads`, of `ledger_coverage` and of `collection_cycle` never act in one
behaviour: the initial state picks one, and the others stand still. They share a
run for want of a better reason than that each is small; no property speaks of two
of them, and each keeps its own mutant. The fairness of the parts of
`collection_cycle` is conjoined: what stands still has no fair step enabled. `TypeOK` of the other modules holds under
these configurations too (of the reader picked, where there are two), but says
little about the code.

Three contracts are abstract specifications that a detailed one is shown to
implement. `LedgerKept` and `HistoryKept` map `runs` and `versions` to
themselves. `ContractKept` maps the version of `SchemaContract` to the row goose
wrote last, its objects to the schema without the rows, and its servers to those
that take requests: thirteen migrations, killed anywhere, look like one version at
a time. It implies `HealthHonest` for servers that start one after the other.

### Where the code departs from what is said of it

`loss_backfill` ends with a counterexample. `ingestao-fontes/spec.md` says that
a collection covers what the source revised since the last one. A successful
backfill moves the anchor, because `LastSuccess` ignores the mode
(`ingestion/run.go:182`); backfills ask by occurrence, so a revision of an older
event made before the backfill is asked for by nobody.

`paging_unsteady` ends with another. The comment at `usgs/client.go:126` says that
paging needs a total order, and the request asks for `orderby=time-asc`, which
leaves the order of events of one instant open. Two such events change places
between two pages of one: the second page has the event of the first again, the
other is on none, and the run is recorded as collected. With three publications
instead of two TLC finds the same without a tie: `occurred_at` is content that a
revision may change (`earthquake/store.go:187`), and a record that was read and is
then moved to a later instant, or withdrawn, pulls those behind it one place down,
past the offset. What the run did not read, the next one asks for only if the source
touched it within the overlap. With `Steady = TRUE` the same property is proved
(`CoverageIsHonest`).

`startup_race` ends with the third. The comment at `db/db.go:76` says that goose's
advisory lock serializes servers that start together; `goose.Up` takes none. Both
servers read version 0 and choose migration 003; one of them runs all thirteen
and serves; the other applies 003 then, which drops `observations` and
`earthquakes`. `/health` looks at the highest version and says ok. When the rerun
comes to 007 it fails; the next start goes by the last row and fails again. With
`Together = FALSE` the same property is proved (`HealthIsHonest`).

Others were met while modelling. The properties state the condition under which
the code does keep its word, and that condition is each time as weak as the code
allows; where a constant removes it, TLC shows the departure.

| Departure | How the model has it |
|---|---|
| The lock's session idles during a cycle. When the database ends it, the cycle goes on, a second one begins, and the two insert the same version twice (`ingestion/scheduler.go:116`). | `SessionLoss = TRUE` in `ingest_contention` breaks `SerialRuns` and `HistoryKept`; `LedgerKept` is proved for either value |
| A row shows after it is stamped, so that an answer about the past changes (`earthquake/earthquake.go:252`). | `SlowCommits = TRUE` in `reads` breaks `PinnedWalkExact` |
| `complete` comes with a note that an empty list means that nothing happened (`httpapi/earthquakes.go:370`). It is said beside lists that are empty for other reasons: the last page of a walk whose events filled the pages before (`:235`), a question about the past, which gets the coverage of the present (`:251`), a list taken before the collection ended (`:219`), a filter. | `EmptyMeansQuiet` states the note; TLC finds it violated in `ledger_coverage`. `CompleteAccountsForAll` says what the word does vouch for: every event is stored, and on the page, on another page or outside the view asked for (`Elsewhere`) |
| A walk that is not pinned shows an event again when it is revised meanwhile, as the revision has a new id (`earthquake/earthquake.go:278`); `api-publica/spec.md:146-149` says that whoever walks the collection sees no event repeated and none omitted. Around a point, a revision that comes closer is omitted as well. | `NoEventTwice` states the former; TLC finds it violated in `reads`. `RepeatsAreRevisions` says that nothing else comes back; `PinnedWalkExact` that pinned walks repeat and omit nothing; `NothingOmitted` is of walks by id |
| The last second of a window, cut in the request, is recorded as collected and was not asked for (`usgs/client.go:129`). | `CoverageHonest` speaks of the window up to its last whole second |
| No statement of a cycle has a deadline: the contexts come from `context.Background()` (`cmd/server/ingest.go:43`, `cmd/server/main.go:69`), there is no `statement_timeout`, and `pool.Acquire` waits as long as it takes (`ingestion/scheduler.go:98`). One that is never answered keeps the lock until the process is restarted. | `GetStuck`; `LockComesFree` lets a stuck process keep it |
| An unlock answered with an error is logged and its connection goes back to the pool with the lock; the pool may hand it to the next `TryLock`, which takes the lock a second time and gives it back once (`ingestion/scheduler.go:127-130`). Until the connection is closed, other servers skip their cycles. | `FailUnlock`, `Stranded`, `held`; `LockComesFree` holds because a connection has a lifetime |
| A disabled source is answered with `none`, whatever was collected (`httpapi/earthquakes.go:332`). | `NoneMeansUncollected` asks only while it is enabled |
| The status is read from the run with the furthest window, not from the last delivery (`ingestion/coverage.go:208`). | `StaleSinceDelivery` asks only of deliveries in the order of their windows |
| A source that never delivered is stale since its last attempt, where the comment says its first (`ingestion/coverage.go:211`). | no property |
| The error path that records a failed run can fail as well; the row stays `running` (`usgs/ingest.go:166`). | `LoseOutcome`; `LedgerKept` lets a row stay open |
| The provenance filter of observations runs before the version is chosen, and brings back superseded ones (`observation/observation.go:140`). | `AllIsCurrent` asks only of questions without the filter |
| Observations have no second page (`httpapi/handlers.go:206`). | `AllIsCurrent` asks only of collections that fit one page |
| A listed volcano whose row cannot be used is marked as gone (`gvp/importer.go:107`). | `LoneImportExact` speaks of the usable rows |
| `NaN` for a coordinate passes `Validate`, is refused by the table and ends the import, where the spec has the row rejected and the import go on (`volcano/volcano.go:84`). | `Insert` and `Update` need `Storable`; `LoneImportExact` asks only of imports that end |
| `NaN` for an elevation differs from itself: each import writes the row again, where the spec has a second run change nothing (`volcano/volcano.go:201`). | `Unchanged` |
| The scheduler is started before the listener, not after it (`cmd/server/main.go:65`), and looks at the source once: a database away for that moment leaves the server without collections, and a source disabled later is collected until a restart. | `StartScheduler`; no property |
| `goose.Up` has no time limit: a start waits as long as the database keeps its connection open (`db/db.go:93`). | a step without a database fails; a database that neither answers nor fails is not modelled |
| The snapshot is hashed and read in two openings of the file (`cmd/server/import.go:46`, `:78`). | `ReplaceSnapshot` between the two |
| The results of an erased search term come back (`ui/SearchPanel.tsx:39`). | `NothingStale` asks only while a term is typed |
| A box unticked before the globe is ready has no effect on the layer (`main.tsx:22`). | `TickedIsDrawn` states the direction that holds |
| A mark `future_timestamp` stays on the version when the instant it warned of has passed (`earthquake/store.go:176`). | `NothingHides` leaves that mark out |
| A record repeated and revised within one collection becomes a version marked `duplicate` (`usgs/ingest.go:239`). | `NoFakeRevision` asks that the content changed, not that the record was new |

### Fairness

* `Ingestion`: weak fairness of each process's own steps (`Work(p)`): a process that
  runs goes on with its cycle. The requests to the source have a time limit
  (`usgs/client.go:79`), the waits of the retries are bounded, and the unlock has
  five seconds. The statements have no limit at all, and neither has the wait for a
  connection: one that is never answered is an action of its own (`GetStuck`), after
  which no step of the process is enabled, so that fairness promises nothing of it.
  Strong fairness of `CloseSession`: pgx closes a connection at the end of its
  lifetime, an hour unless the URL says otherwise, however often it is used until
  then. Failures and crashes are not fair, and neither are the clock, the source and
  the start of a cycle.
* `CollectionCycle`: weak fairness of the cycle's own steps, of the pool, which serves
  its queue, and of the end of each request's statement, by the handlers' deadlines
  (`httpapi/context.go`). Requests to the source end by the client's time limit of
  60 s, and waits end. That the cycle's own statements are answered or fail is an
  assumption here, as nothing in the code limits them; with it `CycleEnds` says that
  a cycle hangs neither on its source nor on its own connections, and no more. For
  the same reason `Release` frees the lock at once; an unlock that fails is told in
  `Ingestion`. Neither the source nor the caller nor the timer is fair. A pool of one
  is excluded by `CycleAssumption`: there a cycle waits for itself.
* `Startup`: weak fairness of each server's steps. The database need not come
  back: without it each step fails, or its wait runs out.
* `MapPage` (`PanelFairness` of `SearchPanel`): timers fire and the browser settles every request, one way or
  the other. No order among the answers is assumed.

## 5. What is proved

Each theorem holds for every set of servers, commands, events, contents, terms,
importers or requests, for data of any length (ledgers, windows, sheets, tables of
versions), and for every value of the other constants under the named assumptions
of the module that declares them. The last column names the invariant it rests on
and what else it assumes.

| Theorem | Statement | Rests on |
|---|---|---|
| **`Ingestion_proofs`** | | |
| `CoreInvariance` | `Spec => []CoreInv` | its own induction |
| `TypeCorrect` | `Spec => []TypeOK` | `CoreInv` |
| `LedgerIsKept` | `Spec => LedgerKept` | `CoreInv`; `LedgerStep` maps each step to `Open`, `Close` or a stutter |
| `MutualExclusion` | `Spec => []SerialRuns` | `LockInv`; `SessionLoss = FALSE` |
| `HistoryIsKept` | `Spec => HistoryKept` | `LockInv`, `BatchInv`, `InsertInv`; `SessionLoss = FALSE` |
| `CoverageIsHonest` | `Spec => []CoverageHonest` | `CovInv`; `Steady`; every mode, lock or no lock |
| `RevisionsAreKept` | `Spec => []NoRevisionLost` | `RevisionInv`; `Steady`, `SessionLoss = FALSE`, incremental runs only, `Lag < Overlap` |
| `AnchorIsMonotone` | `Spec => AnchorNeverRegresses` | `CoreInv` |
| **`Startup_proofs`** | | `StartupInv`; `Together = FALSE` |
| `StartupInvariance` | `Spec => []StartupInv` | its own induction |
| `StartsAreNeverRefused` | `Spec => []NeverRefused` | |
| `HealthIsHonest` | `Spec => []HealthHonest` | |
| `StartsKeepData` | `Spec => DataKept` | |
| `ContractIsKept` | `Spec => ContractKept` | `ContractStep` maps each step to `Migrate`, `Serve`, `Leave` or a stutter |
| **`MapPage_proofs`** | | |
| `PanelIsNeverStale` | `Spec => []NothingStale` | `PanelInv` |
| `OneViewerAtATime` | `Spec => []OneViewer` | `GlobeInv` |
| `PanelHoldsTheControls` | `Spec => []PanelDrivesGlobe` | `GlobeInv` |
| `TickedLayerIsDrawn` | `Spec => []TickedIsDrawn` | `GlobeInv` |
| **`TableReads_proofs`** | | |
| `OnlyRevisionsComeBack` | `Spec => []RepeatsAreRevisions` | `PagesInv`; slow commits or not |
| `PinnedWalksAreExact` | `Spec => []PinnedWalkExact` | `PinnedInv`; `SlowCommits = FALSE` |
| `NoEventIsOmitted` | `Spec => []NothingOmitted` | `OmitInv`; slow commits or not |
| `AnswersAreFixed` | `Observations!Spec => []SameAnswer` | `AskedInv` |
| `AnswersAreCurrent` | `Observations!Spec => []AllIsCurrent` | `AskedInv`; keys are numbers, `PageSize \in Nat` |
| **`CoverageReads_proofs`** | | |
| `LedgerInvHolds` | `Spec => []LedgerInv` | its own induction |
| `GapsAreExact` | `Spec => []GapsExact` | `LedgerInv` |
| `KindsAreExact` | `Spec => []KindExact` | `LedgerInv` |
| `LongGapsAreFound` | `Spec => []LongGapsFound` | `LedgerInv` |
| `CoverageIsKept` | `Spec => CoverageKept` | `LedgerInv` |
| `StaleIsSinceDelivery` | `Spec => []StaleSinceDelivery` | `LedgerInv` |
| `CoverageInvHolds` | `CoverageSpec => [](LedgerInv /\ AnswersInv)` | its own induction |
| `CompleteIsAccounted` | `CoverageSpec => CompleteAccountsForAll` | `AnswersInv`; any limit, cursor and `as_of` |
| `NoneIsUncollected` | `CoverageSpec => NoneMeansUncollected` | `AnswersInv`; any limit, cursor and `as_of` |
| **`CataloguePages_proofs`** | | |
| `OneRowForEach` | `Spec => []OneRowPerVolcano` | `CatalogueInv` |
| `IdentityIsKept` | `Spec => IdentityKept` | `CatalogueInv` |
| `LoadsAreComplete` | `Spec => []LoadedComplete` | `LoadInv` |
| `LoneImportsAreExact` | `Spec => []LoneImportExact` | `ImportsInv`; the sheets are sequences of rows of cells |
| **`CollectionCycle_proofs`** | | |
| `QuietIsWhatWasSaid` | `Spec => []QuietIsSaid` | `ClientInv` |
| `WindowsAreReadWhole` | `Spec => []WholeWindow` | `ClientInv`, `WalkInv`; any `PageSize`, even one the service refuses |
| `NothingIsLeftTaken` | `Spec => []NothingLeftTaken` | `HoldInv`; a pool of two or more |
| `MarksAreNamed` | `MarksSpec => []MarksTypeOK` | `MarksInv` |
| `RevisionsAreGenuine` | `MarksSpec => []NoFakeRevision` | `MarksInv` |
| `NoVerdictHides` | `MarksSpec => []NothingHides` | `MarksInv` |

### The assumptions

* `SessionLoss = FALSE`: the database does not end the session of the lock under a
  living process. With `TRUE`, TLC finds two processes collecting at once.
* `Steady`: what the source serves keeps its order while a run walks it, that is, for
  the minutes a run lasts no event is moved in time or withdrawn and ties come one way.
  The code cannot see to it; `paging_unsteady` is the counterexample otherwise. Between
  runs events may be moved and withdrawn freely. A window that fits one page needs no
  such order; the proof does not go into that.
* Incremental runs only: the mode of scheduled runs. `loss_backfill` is the
  counterexample otherwise.
* `Lag < Overlap`: a revision shows at the source less than the overlap after the
  instant it is stamped with. That is what `SafetyOverlap` (`usgs/ingest.go`) is for.
  With a lag as long as the overlap, a revision may be stamped at the very instant
  the next run asks after, and is not asked for.
* `Together = FALSE`: servers start one at a time, broken off anywhere.
  `startup_race` is the counterexample otherwise.
* `SlowCommits = FALSE`: a version is visible at the instant it is stamped with.
  With `TRUE`, TLC finds a pinned walk that misses what came in meanwhile.
* Keys of observations stand for instants of observation; they need an order.
* A pool of two or more, one connection for the lock and one for a statement: with
  one, a cycle waits for itself.

### The arguments

The inductive invariants of the collection and of the starts stand at the end of
`Ingestion` and `Startup`, so that TLC can check them as well; the others stand
in front of the proofs that need them.

* **Types.** `TypeOK` of `Ingestion` alone is not inductive: `AnchorAt` chooses a
  successful row with `CHOOSE`, and subtracts from its end. `FurthestExists` says
  there is one to choose: an appended row is not a success, and a row that becomes
  one is either further than the furthest so far or not.
* **The ledger.** The UPDATEs of `run.go` name a row by its id and would reopen or
  overwrite anything. That a closed row never changes follows from who calls them:
  `RowInv` says a cycle owns the row it opened, that the row is `running` until
  the cycle closes it, and that no two cycles own the same row. This needs no
  lock, so that the contract holds even when the lock is lost.
* **The lock and the history.** `LockInv`: a process between `TryLock` and its
  release is the holder. `InsertInv`: what `Save` read is still so when it inserts.
  Between the two steps only the holder of the lock writes versions; the next
  record of a page is unique, though events may share an instant, because the ranks of
  events differ and a page has one record of each (`BatchInv`, `NextIsUnique`).
* **Coverage.** `CoverageHonest` says nothing of a run under way. `WalkCovers` does:
  each event of its window is stored, held in the page, or `Ahead`, at a place of
  the answer the walk has not come to. With `Steady` a place only grows: a record that
  replaces another during the walk tells the same instant, hence keeps its place among
  the others, nothing leaves the answer to an explicit window, and what appears later
  can only push it further on (`SteadyOrder`, `PositionGrows`, `AheadPublished`). That
  is where an unsteady source breaks it: `paging_unsteady`.
* **Revisions.** `WalkFinds` is the same for records that were revised since the
  window began, with one more way out: the record is so recent that the next run
  asks for it (`window.end - Lag`). A record replaced during the
  walk has a successor in its place that is as recent. `BatchFresh` says so of those in the page. `AnchorInv` ties
  the run to the anchor: it asks from the furthest end less the overlap, and ends
  further than any before it. When the run ends, what it did not store is later
  than its end less `Lag`, which is later than its end less `Overlap`: the next
  anchor. The lock is needed because a run that overtakes another moves the anchor
  under it.
* **Starts.** `SchemaInv`: goose's rows are a prefix of the migrations, and the schema
  is what that prefix builds. `StartInv`: whoever is about to apply a migration aims
  at the next one. A kill between two steps changes neither, for goose applies a
  migration and writes its row in one transaction. `Together = FALSE` gives one thing
  only: between `Pick` and `Apply` nobody else moves the version.
* **The panel.** `NothingStale` is not inductive, as an answer under way may put
  any results in the list. `CurrentAsksForTerm` says which: a search that carries the
  current sequence number asks for the term in the box. An erased term does not move
  the number, hence the exception, and the departure in section 4.
* **The globe.** The three properties need each other: a run is torn down by the
  cleanup of its own effect, so that the living Viewer is that of `mounts`, and the
  layer that the panel reaches through its controls is the one drawn. `RunsInOrder`
  says that a run to come has done nothing.
* **Answers about the past.** Of a question asked at an instant now past, the
  recorded answer is the one the table still gives: a row inserted later is stamped
  later, and `SameRanksSamePage` says the answer depends on the rows chosen only.
* **Walks.** What is shown stands in the order of the walk, up to the cursor
  (`InOrder`), hence no row twice. An event shown again is shown in another row; when
  the first was shown it was the current version, so that the other came later, after
  the walk began. Pinned: what is shown is exactly the part of the
  target up to the cursor, and the target no longer changes. By id: each event due
  is shown, or its current version is still to come, as a revision gets a new id,
  beyond every cursor.
* **The catalogue.** `Upsert` looks up and writes in two steps and two importers can
  both find nothing; the second INSERT then meets the UNIQUE and is refused, which is
  `Stored(ref) = {}` in `Insert`. `LoadInv`: of the volcanoes that never went away,
  those up to the cursor are shown. Neither depends on what the parser makes of a
  sheet.
* **A lone import.** `ImportsInv`: as long as nobody else wrote (`alone`), the
  catalogue shows, of the rows the import has come to, the last one of each volcano,
  and `seen` holds the references of those that could be stored (`Progress`). What is
  marked as absent afterwards is what `seen` leaves out. The rest is about the sheet:
  `DecodeIs` follows a row cell by cell and finds in each column the text that
  `TextAt` puts there, whatever columns are skipped or gone back to; `ParseIs` finds
  the rows of a sheet that can be used, in order. `SheetsParsed` puts the two
  together: what the import goes through is what the sheet says.
* **Intervals.** `MergeIntervals` is followed window by window: what it holds so far
  is ordered, apart, and covers what the windows so far cover (`MergedAll`); `Sweep`
  likewise holds the gaps behind the last interval (`SweptAll`). Together they make
  `SubtractExact`, and with the windows `Covering` picks, `CoverageExact`: an instant
  lies in a gap if and only if no successful run collected it. The empty window and
  the single instant are cases of their own, as they are in the code. `GapsExact`,
  `KindExact`, `LongGapsFound` and `CoverageKept` follow; the last because a
  successful run is never taken back (`SuccessesStay`).
* **The status.** `LastSuccess` goes by the end of the window. `LedgerInv` says that
  whatever ended, ended before a later collection began, so that of two runs whose
  windows end at the same instant the later row delivered last.
* **Answers over a window.** `CollectionsSaved`: each event of a run that succeeded is
  stored, and one of the run in progress is stored or still wanted. `PageAccounts`:
  each row of the window is on the page of the request or `Elsewhere`, which follows
  from what a page of `Lists` is and stays so while rows are added. `CompleteIsStored`
  then reads `complete` backwards, from the gaps to the runs to the events, and the
  two together are the theorem.
* **A request.** `ClientInv`: a retry comes only while an attempt is left, and a result
  that is a page, full or empty, is what the source said in the last answer. When that
  answer was lost or a failure, the result is neither.
* **A window.** `WalkInv` counts: stored, still to be saved and rejected features add
  up to those taken, in the order of the source, and none twice (`Accounted`). The
  walk ends with the first page that is not full, an empty one included; the empty one
  stands for the end because a source that is asked says `nothing` only if there is
  nothing at that offset, which has to be an invariant of the walk (`Truthful`), as the
  source may change its mind between two attempts.
* **The pool.** `HoldInv` ties who holds or awaits a connection to the statement the
  cycle is at: the lock's from `TryLock` to its release, a statement's while it is
  under way. Nobody waits twice, or for what it has (`PoolInv`).
* **Marks.** `NoFakeRevision` is inductive with the types: what is appended differs
  from the current version. `NothingHides` is not, as it says nothing of why the two
  verdicts agree. `Explained` does: both are what the same content deserved, of two
  collections of which the second began no earlier. The one mark that depends on the
  beginning, `future_timestamp`, can then only go.
* **Pages.** Walks, questions and loads need what `ORDER BY ... LIMIT` returns. `Lists`
  proves it of any order on a finite set, from cardinalities: `PageFull` (a page is
  full when something lies beyond it), `PlaceOnto` (there is a row at every place) and
  `FirstByPage` (a page holds the first in order, and what it leaves out comes after).
* **Loops.** The community modules define a fold as a function chosen to satisfy its
  recursion. `FoldExists` shows that there is one, by induction over a number
  (`CountedUp`, which goes by the least number that fails, `LeastExists`); each loop of
  the code then gets a list `acc` of what it holds after each turn (`AbsorbFold`,
  `SweepFold`, `KeepFold`, `PlaceFold`, `ParseFold`, `LookFold`), and an invariant of its own.

### Only model-checked

* Liveness (`LockComesFree`, `CycleEnds`, `StartEnds`, `SearchEnds`): fairness and
  ENABLED are out of the prover's reach.
* The three findings, which are counterexamples.
* That the assumptions above are needed: each departure of section 4 that a constant
  turns on is a counterexample TLC finds.

Proving `WholeWindow` corrected the model in one place: `SourceIsTruthful` bound the
source while nobody asked it anything, and now does while a request is under way.
The others needed loops written as folds and selections written as sets where a
recursive operator stood; the runs and their mutants are the same.

## 6. Not modelled, and why

* The envelope, the middleware and the parameters of the HTTP API: local to a
  request, without state or order. What a request is refused for before its first
  statement is left out with them.
* The rest of the text formats: characters, escapes, units, optional numbers.
* Filters of lists (name, country, magnitude, depth, quality): one more predicate
  on a value, as the radius in `EarthquakePages` is.
* Callout, about box and imagery of the map: layout and static content.
* Plain reads of the registry (`GET /sources`), and `handleIngestionStatus`, which
  is `StatusFor` once per source.
* A skipped cycle shows its source as unhealthy and hides the reason of the
  failure before it (`httpapi/earthquakes.go:432`). No document says what a
  skip should count as, so there is no property to hold the code to.
* The Down sections of migrations, which nothing runs.

## 7. Plan

Built, in this order: ledger and contracts; collection; the first proofs;
coverage; window answers; pages and observations; import and the browser's load;
quality; client; panel and globe; startup and its contract; pages of a source, the
pool and the cycle on it; the sheet; then the proofs of what a collection finds, of
starts, of the page, of walks and answers, and of the catalogue; then those of
coverage and of the answers over a window, of a cycle and its marks, and of a lone
import. Every safety property of a passing run is proved now. What could follow:

1. `CoverageKept` and `CompleteAccountsForAll` over `Ingestion` rather than over
   collections seen from the ledger, by a refinement of the ledger's rows.
2. `NothingHides` over `Ingestion`, whose `Save` reads and inserts in two statements.
3. The filters of the lists, as one more predicate on a value.

## 8. Running it

    tlc -workers 2 -config ingest_contention.cfg MCIngestion
    tlapm CataloguePages_proofs.tla

`tlapm` takes each `..._proofs` module and `Lists`; none takes more than a few
minutes.

Every run finishes within four minutes on two cores; `PROJECT.json` lists the module of each
configuration, the mutants of each property, and the lines every definition
stands for.
