----------------------------- MODULE Ingestion -----------------------------
(***************************************************************************)
(* Collection of earthquakes from one source, by every process that can do *)
(* it: the schedulers of the running servers and the `ingest` subcommand   *)
(* (internal/ingestion/scheduler.go, cmd/server/ingest.go,                 *)
(* cmd/server/scheduler.go, internal/usgs/ingest.go, internal/usgs/client, *)
(* internal/earthquake/store.go).                                          *)
(*                                                                         *)
(* One cycle of a process p:                                               *)
(*                                                                         *)
(*   idle -TryLock-> locked -Anchor/ChooseWindow-> begin -BeginRun->       *)
(*   fetch -FetchPage-> persist (-ReadNew-> insert -Insert-> persist)*     *)
(*   -NextPage-> fetch ... persist -FinishRun-> release -Release-> idle    *)
(*                                                                         *)
(* with the error paths to "fail" and to "release" in between.  Each       *)
(* statement is a transaction of its own in the code, so each is an action *)
(* here, and everything else may happen between two of them.               *)
(***************************************************************************)
EXTENDS RunLedger, FiniteSets

CONSTANTS
  Server,       \* server processes, each running one scheduler goroutine
  Command,      \* runs of `server ingest` by an operator
  Event,        \* external ids the source may publish
  Content,      \* normalised contents of an event, what sameContent compares
  Invalid,      \* the contents Save or the parser rejects
  Occurred,     \* when a content says its event happened
  Rank,         \* how the source orders events of one instant
  Steady,       \* whether what the source serves keeps its order during a run
  CommandMode,  \* the modes operators use
  Overlap,      \* SafetyOverlap
  Fallback,     \* how far the first incremental cycle reaches back
  Second,       \* ticks per second: requests carry whole seconds
  PageSize,     \* events per request
  Lag,          \* how old an `updated` stamp may be when it becomes visible
  SessionLoss,  \* whether the session holding the lock may die on its own
  Stuck,        \* whether a statement may never be answered
  MaxStranded,  \* how many unlocks in a row may fail
  MaxClock, MaxRuns, MaxPublished,  \* bounds of the model
  NoProcess     \* "nobody holds the lock"

Process == Server \cup Command

ASSUME ConstantsAssumption ==
  /\ NoProcess \notin Process
  /\ Invalid \subseteq Content
  /\ Occurred \in [Content -> Nat]
  /\ Rank \in [Event -> Nat]
  /\ \A d, e \in Event : Rank[d] = Rank[e] => d = e
  /\ CommandMode \subseteq Mode
  /\ Overlap \in Nat /\ Fallback \in Nat /\ Lag \in Nat
  /\ Second \in Nat \ {0} /\ PageSize \in Nat \ {0}
  /\ MaxClock \in Nat /\ MaxRuns \in Nat /\ MaxPublished \in Nat
  /\ Steady \in BOOLEAN /\ SessionLoss \in BOOLEAN /\ Stuck \in BOOLEAN
  /\ MaxStranded \in Nat

VARIABLES
  clock,      \* the time every process and the database agree on
  catalogue,  \* what the source serves: a set of records
  published,  \* how many publications the source made
  runs,       \* ingestion_runs
  versions,   \* earthquakes: the versions of each event, by ingested_at
  holder,     \* the process whose session holds the advisory lock
  held,       \* how many times that session has taken it
  pooled,     \* whether its connection is back in the pool
  pc, mode, window, row, offset, batch, full  \* one cycle's local state

vars == <<clock, catalogue, published, runs, versions, holder, held, pooled,
          pc, mode, window, row, offset, batch, full>>

locals == <<mode, window, row, offset, batch, full>>

source == <<clock, catalogue, published>>

lock == <<holder, held, pooled>>

\* "stuck" is a process that waits for a statement which is never answered.
PC == {"idle", "locked", "begin", "fetch", "persist", "insert", "fail", "release", "stuck"}

\* A run is between its first request and its last statement.
Walking(p) == pc[p] \in {"fetch", "persist", "insert"}

\* What the source says of an event: its content, its own `updated` stamp, and
\* since when it has served a record of this event that we can store and that
\* tells the same instant.
Record == [event : Event, content : Content, updated : Int, since : Int]

TypeOK ==
  /\ clock \in Nat
  /\ catalogue \subseteq Record
  /\ \A x, y \in catalogue : x.event = y.event => x = y
  /\ published \in Nat
  /\ runs \in Seq(Run)
  /\ versions \in [Event -> Seq(Content)]
  /\ holder \in Process \cup {NoProcess}
  /\ held \in Nat /\ pooled \in BOOLEAN
  /\ pc \in [Process -> PC]
  /\ mode \in [Process -> Mode]
  /\ window \in [Process -> [start : Int, end : Int]]
  /\ row \in [Process -> Nat]
  /\ offset \in [Process -> Nat \ {0}]
  /\ batch \in [Process -> SUBSET Record]
  /\ full \in [Process -> BOOLEAN]

----------------------------------------------------------------------------
(* The source.                                                             *)

\* An instant as a request carries it: RFC 3339 with whole seconds.
RFC3339(t) == t - (t % Second)

\* Fault: an explicit window asks for what the source changed in it.
MatchingByUpdate(m, w) ==
  {x \in catalogue :
     /\ x.updated > RFC3339(w.start)
     /\ m # "incremental" => x.updated <= RFC3339(w.end)}

\* The records a run of the given mode and window asks for.
Matching(m, w) ==
  {x \in catalogue :
     IF m = "incremental"
     THEN x.updated > RFC3339(w.start)
     ELSE RFC3339(w.start) <= Occurred[x.content] /\ Occurred[x.content] <= RFC3339(w.end)}

\* orderby=time-asc: x comes before y, with ties broken by rank.
Before(x, y, rank) ==
  \/ Occurred[x.content] < Occurred[y.content]
  \/ Occurred[x.content] = Occurred[y.content] /\ rank[x.event] < rank[y.event]

\* The 1-based position of x in the answer.
Position(x, answer, rank) == 1 + Cardinality({y \in answer : Before(y, x, rank)})

Page(answer, from, rank) ==
  {x \in answer : from <= Position(x, answer, rank) /\ Position(x, answer, rank) < from + PageSize}

\* The orders in which an answer may come: time-asc alone does not say how
\* events of one instant are ordered.
TieBreaks ==
  IF Steady
  THEN {Rank}
  ELSE {rank \in [Event -> {Rank[e] : e \in Event}] : \A d, e \in Event : rank[d] = rank[e] => d = e}

\* The records may be moved in their order, or out of it.
MayMove == Steady => \A p \in Process : ~Walking(p)

\* The source publishes event e, or touches its record: with a new content,
\* which may tell another instant, or with the same.  The stamp it puts on the
\* record may be up to Lag old by the time we can see it.
Publish(e, c, u) ==
  /\ published < MaxPublished
  /\ Occurred[c] <= u /\ clock - Lag <= u /\ u <= clock
  /\ LET old == {x \in catalogue : x.event = e}
         moved == {x \in old : Occurred[x.content] # Occurred[c]}
         kept == {x \in old \ moved : x.content \notin Invalid}
         since == IF kept = {} THEN {clock} ELSE {x.since : x \in kept}
     IN  /\ \A x \in old : x.updated <= u
         /\ moved # {} => MayMove
         /\ \E s \in since :
              catalogue' = (catalogue \ old)
                             \cup {[event |-> e, content |-> c, updated |-> u, since |-> s]}
  /\ published' = published + 1
  /\ UNCHANGED <<clock, runs, versions, lock, pc, locals>>

\* The source takes an event back.
Withdraw(x) ==
  /\ published < MaxPublished
  /\ MayMove
  /\ catalogue' = catalogue \ {x}
  /\ published' = published + 1
  /\ UNCHANGED <<clock, runs, versions, lock, pc, locals>>

Tick ==
  /\ clock < MaxClock
  /\ clock' = clock + 1
  /\ UNCHANGED <<catalogue, published, runs, versions, lock, pc, locals>>

----------------------------------------------------------------------------
(* Locking.                                                                *)

Goto(p, label) == pc' = [pc EXCEPT ![p] = label]

\* The cycle's local variables go out of scope.
EndCycle(p) ==
  /\ Goto(p, "idle")
  /\ mode' = [mode EXCEPT ![p] = "incremental"]
  /\ window' = [window EXCEPT ![p] = [start |-> 0, end |-> 0]]
  /\ row' = [row EXCEPT ![p] = 0]
  /\ offset' = [offset EXCEPT ![p] = 1]
  /\ batch' = [batch EXCEPT ![p] = {}]
  /\ full' = [full EXCEPT ![p] = FALSE]

\* Bound of the model: a row left for every run that is about to begin.
RoomForRow ==
  Len(runs) + Cardinality({p \in Process : pc[p] \in {"locked", "begin"}}) < MaxRuns

\* The unlock failed and left the lock with a connection of p's pool.
Stranded(p) == holder = p /\ pooled

\* Fault: a lock of each process's own instead of the database's.
TryLockAlone(p, m) ==
  /\ pc[p] = "idle"
  /\ p \in Server => m = "incremental"
  /\ RoomForRow
  /\ holder' = p /\ held' = 1 /\ pooled' = FALSE
  /\ mode' = [mode EXCEPT ![p] = m]
  /\ Goto(p, "locked")
  /\ UNCHANGED <<source, runs, versions, window, row, offset, batch, full>>

\* pg_try_advisory_lock succeeds: the lock is free, or the pool hands out the
\* very connection whose session has it.  A scheduler's cycle is always
\* incremental.
TryLock(p, m) ==
  /\ pc[p] = "idle"
  /\ holder = NoProcess \/ Stranded(p)
  /\ p \in Server => m = "incremental"
  /\ RoomForRow
  /\ holder' = p /\ held' = held + 1 /\ pooled' = FALSE
  /\ mode' = [mode EXCEPT ![p] = m]
  /\ Goto(p, "locked")
  /\ UNCHANGED <<source, runs, versions, window, row, offset, batch, full>>

\* The lock is taken: a scheduler records a skipped cycle, a command just exits.
SkipCycle(p) ==
  /\ p \in Server
  /\ pc[p] = "idle"
  /\ holder # NoProcess
  /\ RoomForRow
  /\ runs' = Skip(runs, "incremental", clock, clock, clock)
  /\ UNCHANGED <<source, versions, lock, pc, locals>>

\* The session of p is gone, and with it what it held.
EndSession(p) ==
  IF holder = p
  THEN holder' = NoProcess /\ held' = 0 /\ pooled' = FALSE
  ELSE UNCHANGED lock

\* The deferred release: unlocks once if the session still holds the lock.  An
\* unlock that gets no answer in its five seconds ends the session instead.
Release(p) ==
  /\ pc[p] = "release"
  /\ IF holder = p /\ held > 1
     THEN held' = held - 1 /\ pooled' = TRUE /\ UNCHANGED holder
     ELSE EndSession(p)
  /\ EndCycle(p)
  /\ UNCHANGED <<source, runs, versions>>

\* The unlock is answered with an error, which is logged, and the connection
\* goes back to the pool with the lock.  The pool of a command is closed next.
FailUnlock(p) ==
  /\ pc[p] = "release"
  /\ p \in Server
  /\ holder = p /\ held <= MaxStranded
  /\ pooled' = TRUE
  /\ EndCycle(p)
  /\ UNCHANGED <<source, runs, versions, holder, held>>

\* The pool closes a connection that is idle or old enough.
CloseSession(p) ==
  /\ Stranded(p)
  /\ EndSession(p)
  /\ UNCHANGED <<source, runs, versions, pc, locals>>

\* The process dies and its sessions with it: the lock is free, the row it was
\* writing stays as it is, and a new process may start.
Crash(p) ==
  /\ pc[p] # "idle"
  /\ EndSession(p)
  /\ EndCycle(p)
  /\ UNCHANGED <<source, runs, versions>>

\* No answer to the statement under way, nor a connection to send it on: the
\* contexts of a cycle have no deadline, so that it waits for good.
GetStuck(p) ==
  /\ Stuck
  /\ pc[p] \in {"locked", "begin", "persist", "insert", "fail"}
  /\ Goto(p, "stuck")
  /\ UNCHANGED <<source, runs, versions, lock, locals>>

\* The session that holds the lock, idle while the cycle works on other
\* connections of the pool, is terminated.  The cycle does not notice.
LoseSession(p) ==
  /\ SessionLoss
  /\ holder = p
  /\ EndSession(p)
  /\ UNCHANGED <<source, runs, versions, pc, locals>>

----------------------------------------------------------------------------
(* Choosing the window.                                                    *)

\* Fault: no safety overlap.
AnchorExact(now) ==
  IF Successes(runs) = {} THEN now - Fallback ELSE runs[LastSuccess(runs)].end

\* Where the next incremental cycle starts asking, at time now.
AnchorAt(now) ==
  IF Successes(runs) = {}
  THEN now - Fallback
  ELSE LET resume == runs[LastSuccess(runs)].end - Overlap
       IN  IF resume > now THEN now ELSE resume

Anchor(p) ==
  /\ pc[p] = "locked"
  /\ mode[p] = "incremental"
  /\ window' = [window EXCEPT ![p] = [start |-> AnchorAt(clock), end |-> clock]]
  /\ Goto(p, "begin")
  /\ UNCHANGED <<source, runs, versions, lock, mode, row, offset, batch, full>>

\* -backfill reaches back from now; -start names a window that may not end in
\* the future nor before it starts.
ChooseWindow(p, start, end) ==
  /\ pc[p] = "locked"
  /\ mode[p] # "incremental"
  /\ WindowOrdered(start, end) /\ end <= clock
  /\ mode[p] = "backfill" => end = clock
  /\ window' = [window EXCEPT ![p] = [start |-> start, end |-> end]]
  /\ Goto(p, "begin")
  /\ UNCHANGED <<source, runs, versions, lock, mode, row, offset, batch, full>>

\* The ledger cannot be read, the flags are refused or the row of the run
\* cannot be inserted: the command or the cycle ends before there is a row.
GiveUp(p) ==
  /\ pc[p] \in {"locked", "begin"}
  /\ Goto(p, "release")
  /\ UNCHANGED <<source, runs, versions, lock, locals>>

----------------------------------------------------------------------------
(* The run.                                                                *)

\* Fault: offsets counted from 0.
ZeroOffset == 0

\* The service counts offsets from 1.
FirstOffset == 1

BeginRun(p) ==
  /\ pc[p] = "begin"
  /\ WindowOrdered(window[p].start, window[p].end)
  /\ runs' = Begin(runs, mode[p], window[p].start, window[p].end, clock)
  /\ row' = [row EXCEPT ![p] = Len(runs) + 1]
  /\ offset' = [offset EXCEPT ![p] = FirstOffset]
  /\ Goto(p, "fetch")
  /\ UNCHANGED <<source, versions, lock, mode, window, batch, full>>

\* Fault: only the records that could be extracted are counted.
FullOfStorable(page) == Cardinality({x \in page : x.content \notin Invalid}) >= PageSize

\* The walk goes on after a full page: what was delivered counts, usable or not.
IsFull(page) == Cardinality(page) >= PageSize

\* One request is answered.
FetchPage(p) ==
  /\ pc[p] = "fetch"
  /\ \E rank \in TieBreaks :
     LET page == Page(Matching(mode[p], window[p]), offset[p], rank)
     IN  /\ batch' = [batch EXCEPT ![p] = page]
         /\ full' = [full EXCEPT ![p] = IsFull(page)]
  /\ Goto(p, "persist")
  /\ UNCHANGED <<source, runs, versions, lock, mode, window, row, offset>>

NextPage(p) ==
  /\ pc[p] = "persist"
  /\ batch[p] = {} /\ full[p]
  /\ offset' = [offset EXCEPT ![p] = @ + PageSize]
  /\ Goto(p, "fetch")
  /\ UNCHANGED <<source, runs, versions, lock, mode, window, row, batch, full>>

\* The next record of the page: the page is in order of time.
IsNext(p, x) ==
  /\ x \in batch[p]
  /\ ~\E y \in batch[p] : Before(y, x, Rank)

Done(p, x) == batch' = [batch EXCEPT ![p] = @ \ {x}]

\* The parser or Save refuses the record; the batch goes on without it.
Reject(p, x) ==
  /\ pc[p] = "persist"
  /\ IsNext(p, x)
  /\ x.content \in Invalid
  /\ Done(p, x)
  /\ UNCHANGED <<source, runs, versions, lock, pc, mode, window, row, offset, full>>

\* currentVersion finds the content of x already there.
SameContent(x) ==
  /\ versions[x.event] # <<>>
  /\ versions[x.event][Len(versions[x.event])] = x.content

\* Save reads the current version: the record says nothing new.
ReadSame(p, x) ==
  /\ pc[p] = "persist"
  /\ IsNext(p, x)
  /\ x.content \notin Invalid
  /\ SameContent(x)
  /\ Done(p, x)
  /\ UNCHANGED <<source, runs, versions, lock, pc, mode, window, row, offset, full>>

\* Save reads the current version: the record is new or revised ...
ReadNew(p, x) ==
  /\ pc[p] = "persist"
  /\ IsNext(p, x)
  /\ x.content \notin Invalid
  /\ ~SameContent(x)
  /\ Goto(p, "insert")
  /\ UNCHANGED <<source, runs, versions, lock, locals>>

\* ... and inserts it in another statement, on what it read before.
Insert(p, x) ==
  /\ pc[p] = "insert"
  /\ IsNext(p, x)
  /\ versions' = [versions EXCEPT ![x.event] = Append(@, x.content)]
  /\ Done(p, x)
  /\ Goto(p, "persist")
  /\ UNCHANGED <<source, runs, lock, mode, window, row, offset, full>>

\* Fault: the lock is given back before the failure is recorded.
BreakUnlocked(p) ==
  /\ pc[p] \in {"fetch", "persist", "insert"}
  /\ EndSession(p)
  /\ Goto(p, "fail")
  /\ UNCHANGED <<source, runs, versions, locals>>

\* A request fails for good, a response is malformed, a statement fails.
Break(p) ==
  /\ pc[p] \in {"fetch", "persist", "insert"}
  /\ Goto(p, "fail")
  /\ UNCHANGED <<source, runs, versions, lock, locals>>

\* Fault: the outcome goes to the newest row.
FinishNewestRow(p) ==
  /\ pc[p] = "persist"
  /\ batch[p] = {} /\ ~full[p]
  /\ runs' = Finish(runs, Len(runs))
  /\ Goto(p, "release")
  /\ UNCHANGED <<source, versions, lock, locals>>

FinishRun(p) ==
  /\ pc[p] = "persist"
  /\ batch[p] = {} /\ ~full[p]
  /\ runs' = Finish(runs, row[p])
  /\ Goto(p, "release")
  /\ UNCHANGED <<source, versions, lock, locals>>

\* Fault: what was collected before the failure passes for the whole window.
FailRunAsFinished(p) ==
  /\ pc[p] = "fail"
  /\ runs' = Finish(runs, row[p])
  /\ Goto(p, "release")
  /\ UNCHANGED <<source, versions, lock, locals>>

\* Fault: the error path returns without the deferred release.
FailRunKeepingLock(p) ==
  /\ pc[p] = "fail"
  /\ runs' = Fail(runs, row[p])
  /\ EndCycle(p)
  /\ UNCHANGED <<source, versions, lock>>

FailRun(p) ==
  /\ pc[p] = "fail"
  /\ runs' = Fail(runs, row[p])
  /\ Goto(p, "release")
  /\ UNCHANGED <<source, versions, lock, locals>>

\* The UPDATE that closes the row fails as well: the database is away, or the
\* context the cycle ran under, which Fail reuses, has been cancelled.
LoseOutcome(p) ==
  /\ \/ pc[p] = "fail"
     \/ pc[p] = "persist" /\ batch[p] = {} /\ ~full[p]
  /\ Goto(p, "release")
  /\ UNCHANGED <<source, runs, versions, lock, locals>>

----------------------------------------------------------------------------
Init ==
  /\ clock = 0
  /\ catalogue = {}
  /\ published = 0
  /\ runs = <<>>
  /\ versions = [e \in Event |-> <<>>]
  /\ holder = NoProcess /\ held = 0 /\ pooled = FALSE
  /\ pc = [p \in Process |-> "idle"]
  /\ mode = [p \in Process |-> "incremental"]
  /\ window = [p \in Process |-> [start |-> 0, end |-> 0]]
  /\ row = [p \in Process |-> 0]
  /\ offset = [p \in Process |-> 1]
  /\ batch = [p \in Process |-> {}]
  /\ full = [p \in Process |-> FALSE]

\* The steps of a cycle once the lock is taken, failures apart.
Work(p) ==
  \/ Anchor(p)
  \/ \E start, end \in 0..clock : ChooseWindow(p, start, end)
  \/ BeginRun(p)
  \/ FetchPage(p)
  \/ NextPage(p)
  \/ \E x \in batch[p] : Reject(p, x) \/ ReadSame(p, x) \/ ReadNew(p, x) \/ Insert(p, x)
  \/ FinishRun(p)
  \/ FailRun(p)
  \/ Release(p)

Mishap(p) ==
  \/ GiveUp(p)
  \/ Break(p)
  \/ LoseOutcome(p)
  \/ Crash(p)
  \/ GetStuck(p)
  \/ FailUnlock(p)
  \/ LoseSession(p)

Next ==
  \/ Tick
  \/ \E e \in Event, c \in Content, u \in 0..clock : Publish(e, c, u)
  \/ \E x \in catalogue : Withdraw(x)
  \/ \E p \in Process :
        \/ \E m \in CommandMode \cup {"incremental"} : TryLock(p, m)
        \/ SkipCycle(p)
        \/ Work(p)
        \/ CloseSession(p)
        \/ Mishap(p)

Spec == Init /\ [][Next]_vars

\* A process that runs goes on with its cycle.  What a cycle waits for are the
\* requests and the unlock, which have time limits, and statements, which are
\* answered or fail unless the process is stuck with one.  A connection that
\* kept the lock is closed at the end of its lifetime, if not before, however
\* often it is used until then.
Fairness == \A p \in Process : WF_vars(Work(p)) /\ SF_vars(CloseSession(p))

FairSpec == Spec /\ Fairness

----------------------------------------------------------------------------
(* Properties.                                                             *)

\* A process is collecting between taking the lock and its last statement.
Collecting(p) == pc[p] \notin {"idle", "release"}

\* No two processes ever collect at once (ingestao-fontes spec: a run does not
\* begin while another is in progress for the same source).
SerialRuns ==
  \A p, q \in Process : Collecting(p) /\ Collecting(q) => p = q

\* The records a finished incremental run has asked for, however late they
\* became visible.
Owed(x) ==
  \E i \in Successes(runs) :
     runs[i].mode = "incremental" /\ x.updated > runs[i].start

\* No revision is lost between two cycles: what the source says of an event,
\* once some finished incremental run was to collect it, is either our current
\* version or what the next cycle asks for.
NoRevisionLost ==
  \A x \in catalogue :
     x.content \notin Invalid /\ Owed(x)
        => SameContent(x) \/ x.updated > RFC3339(AnchorAt(clock))

\* A window recorded as collected was collected: of the events that the source
\* was serving when the run began, each that happened in the window, up to the
\* last whole second of it, is in the store.  CoverageFor answers "complete" on
\* the strength of this.
CoverageHonest ==
  \A i \in Successes(runs), x \in catalogue :
     /\ x.content \notin Invalid
     /\ runs[i].start < Occurred[x.content] /\ Occurred[x.content] <= RFC3339(runs[i].end)
     /\ x.since < runs[i].started
     => versions[x.event] # <<>>

\* The instant from which the next cycle asks never moves back, whatever the
\* modes and windows of the runs that finish meanwhile: what it has passed is
\* not asked for again.
AnchorNeverRegresses ==
  [][Successes(runs) # {} =>
       runs'[LastSuccess(runs')].end >= runs[LastSuccess(runs)].end]_runs

\* The ledger keeps the contract its readers rely on.
Ledger == INSTANCE LedgerContract

LedgerKept == Ledger!CSpec

\* The history of every event keeps its contract: no version repeats the one
\* before it, although Save reads and inserts in two statements.
History == INSTANCE HistoryContract

HistoryKept == History!CSpec

\* Whoever takes the lock gives it back, whatever fails, the unlock itself
\* included: only a statement that is never answered keeps it, until the process
\* is restarted.
LockComesFree == \A p \in Process : holder = p ~> holder # p \/ pc[p] = "stuck"

----------------------------------------------------------------------------
(* Strengthenings: what the proofs show inductive (Ingestion_proofs).      *)

\* A cycle owns the row it opened until it closes it.
RowInv ==
  /\ \A p \in Process :
        /\ row[p] \in 0..Len(runs)
        /\ pc[p] \in {"idle", "locked", "begin"} => row[p] = 0
        /\ pc[p] \in {"fetch", "persist", "insert", "fail"} =>
              row[p] # 0 /\ runs[row[p]].result = "running"
  /\ \A p, q \in Process : row[p] = row[q] /\ row[p] # 0 => p = q

\* LastSuccess is well defined as soon as one run succeeded.
FurthestExists ==
  Successes(runs) # {} => \E i \in Successes(runs) : IsLastSuccess(runs, i)

\* A process between TryLock and Release is the holder of the lock, on a
\* connection that it keeps to itself.
LockInv == \A p \in Process : pc[p] # "idle" => holder = p /\ ~pooled

\* A page holds one record of an event at most.
BatchInv ==
  \A p \in Process : \A x, y \in batch[p] : x.event = y.event => x = y

\* What Save read is still the case when it inserts.
InsertInv ==
  \A p \in Process : pc[p] = "insert" =>
     \A x \in batch[p] : IsNext(p, x) => ~SameContent(x)

\* The source's own stamps: an event is served once it has happened, and no
\* stamp is ahead of the clock.
SourceInv ==
  /\ IsFiniteSet(catalogue)
  /\ \A x \in catalogue :
        /\ Occurred[x.content] <= x.updated /\ x.updated <= clock
        /\ x.since <= clock

\* A window ends in the past, the row of a run says its window, and there is
\* nothing to save before the first page.
WindowInv ==
  /\ \A i \in DOMAIN runs : runs[i].end <= clock /\ runs[i].started <= clock
  /\ \A p \in Process :
        /\ pc[p] \in {"begin", "fetch", "persist", "insert", "fail"} => window[p].end <= clock
        /\ pc[p] \in {"fetch", "persist", "insert", "fail"} =>
              runs[row[p]].start = window[p].start /\ runs[row[p]].end = window[p].end
        /\ pc[p] \in {"idle", "locked", "begin", "fetch"} => batch[p] = {}

Answer(p) == Matching(mode[p], window[p])

\* The first place of the answer that is not in a page yet.
Frontier(p) == IF pc[p] = "fetch" THEN offset[p] ELSE offset[p] + PageSize

\* The walk has yet to come to x, and will go on to it.
Ahead(p, x) ==
  /\ x \in Answer(p)
  /\ Position(x, Answer(p), Rank) >= Frontier(p)
  /\ pc[p] = "fetch" \/ full[p]

\* Of the events its window is to cover, a run has saved, holds or will come to
\* each, however the source moves them about between two pages.
WalkCovers ==
  \A p \in Process : Walking(p) =>
     \A x \in catalogue :
        /\ x.content \notin Invalid
        /\ window[p].start < Occurred[x.content] /\ Occurred[x.content] <= RFC3339(window[p].end)
        /\ x.since < runs[row[p]].started
        => \/ versions[x.event] # <<>>
           \/ \E y \in batch[p] : y.event = x.event /\ y.content \notin Invalid
           \/ Ahead(p, x)

\* An incremental run asks from where the run with the furthest window tells it
\* to, and its own window is further.
AnchorInv ==
  \A p \in Process :
     /\ mode[p] = "incremental" /\ Successes(runs) # {}
     /\ pc[p] \in {"begin", "fetch", "persist", "insert", "fail"}
     => /\ window[p].start = runs[LastSuccess(runs)].end - Overlap
        /\ \A i \in Successes(runs) : runs[i].end <= window[p].end

\* What the source has put in the place of a record of the page is for the next
\* run.
BatchFresh ==
  \A p \in Process : Walking(p) =>
     \A y \in batch[p], x \in catalogue :
        x.event = y.event => x = y \/ x.updated >= window[p].end - Lag

\* Of the records it asked for, a run has saved, holds or will come to each, or
\* the next run asks for it again.
WalkFinds ==
  \A p \in Process : Walking(p) =>
     \A x \in catalogue :
        x.content \notin Invalid /\ x.updated > RFC3339(window[p].start)
        => \/ SameContent(x)
           \/ x.updated >= window[p].end - Lag
           \/ x \in batch[p]
           \/ Ahead(p, x)
============================================================================
