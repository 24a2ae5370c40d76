---------------------------- MODULE LedgerReads ----------------------------
(***************************************************************************)
(* What the readers of the ledger make of it while collections run, fail,  *)
(* are skipped or die: CoverageFor, GapsSince and StatusFor                *)
(* (internal/ingestion/coverage.go).                                       *)
(*                                                                         *)
(* The collections are seen from the ledger only: each opens a row, and    *)
(* the row may be closed at any later time or never.                       *)
(***************************************************************************)
EXTENDS Coverage

CONSTANTS
  Modes,                  \* the modes of the runs
  MaxClock, MaxRuns       \* bounds of the model

ASSUME ReadsAssumption ==
  /\ Modes \subseteq Mode
  /\ MaxClock \in Nat /\ MaxRuns \in Nat

VARIABLES
  clock,
  runs,       \* ingestion_runs
  finished    \* finished_at of each row, 0 while it is NULL

vars == <<clock, runs, finished>>

TypeOK ==
  /\ clock \in Nat
  /\ runs \in Seq(Run)
  /\ finished \in Seq(Nat)
  /\ Len(finished) = Len(runs)
  /\ \A i \in DOMAIN runs :
       runs[i].result # "running" => finished[i] >= runs[i].started

Init == clock = 0 /\ runs = <<>> /\ finished = <<>>

Tick ==
  /\ clock < MaxClock
  /\ clock' = clock + 1
  /\ UNCHANGED <<runs, finished>>

\* A run's window is in the past: the commands refuse one that is not.
BeginRun(mode, start, end) ==
  /\ Len(runs) < MaxRuns
  /\ WindowOrdered(start, end) /\ end <= clock
  /\ mode # "manual" => end = clock
  /\ runs' = Begin(runs, mode, start, end, clock)
  /\ finished' = Append(finished, 0)
  /\ UNCHANGED clock

\* Fault: a row that is closed is closed again.
ReopenRun(id, rows) ==
  /\ \A later \in (id + 1)..Len(runs) : runs[later].result = "skipped"
  /\ runs' = rows
  /\ finished' = [finished EXCEPT ![id] = clock]
  /\ UNCHANGED clock

\* Runs are serial, so only the newest may still be closed; one whose process
\* died stays open for ever.
CloseRun(id, rows) ==
  /\ runs[id].result = "running"
  /\ \A later \in (id + 1)..Len(runs) : runs[later].result = "skipped"
  /\ runs' = rows
  /\ finished' = [finished EXCEPT ![id] = clock]
  /\ UNCHANGED clock

SkipCycle ==
  /\ Len(runs) < MaxRuns
  /\ runs' = Skip(runs, "incremental", clock, clock, clock)
  /\ finished' = Append(finished, clock)
  /\ UNCHANGED clock

Next ==
  \/ Tick
  \/ \E mode \in Modes, start, end \in 0..clock : BeginRun(mode, start, end)
  \/ \E id \in DOMAIN runs : CloseRun(id, Finish(runs, id))
  \/ \E id \in DOMAIN runs : CloseRun(id, Fail(runs, id))
  \/ SkipCycle

Spec == Init /\ [][Next]_vars

----------------------------------------------------------------------------
(* The status of the source.                                               *)

\* Fault: what the last run says hides what earlier ones collected.
StatusOfLastRun ==
  LET last == LastRun(runs)
  IN  [everRun |-> runs # <<>>,
       succeeded |-> runs # <<>> /\ runs[last].result = "success",
       staleFor |-> IF runs = <<>> THEN 0 ELSE clock - finished[last]]

StatusFor ==
  LET last == LastRun(runs)
      success == LastSuccess(runs)
      succeeded == Successes(runs) # {}
  IN  [everRun |-> runs # <<>>,
       succeeded |-> succeeded,
       staleFor |-> CASE runs = <<>> -> 0
                      [] succeeded   -> clock - finished[success]
                      [] OTHER       -> clock - runs[last].started]

----------------------------------------------------------------------------
(* Properties.  An instant p is given in half units of the clock, so that  *)
(* there are instants strictly between two readings of the clock.          *)

Inside(p, iv) == 2 * iv.start <= p /\ p <= 2 * iv.end

StrictlyInside(p, iv) == 2 * iv.start < p /\ p < 2 * iv.end

Collected(p) ==
  \E i \in Successes(runs) : Inside(p, Interval(runs[i].start, runs[i].end))

Instants(iv) == (2 * iv.start)..(2 * iv.end)

Windows == {w \in [start : 0..clock, end : 0..clock] : w.start <= w.end}

\* The gaps reported for a window are exactly the instants no successful run
\* collected, whatever runs overlap, nest, touch or repeat ("a window with no
\* earthquakes and a window with no collection both look like zero rows").
GapsExact ==
  \A w \in Windows :
     LET gaps == CoverageFor(runs, w.start, w.end).gaps
     IN  /\ \A p \in Instants(w) :
              StrictlyInside(p, w) =>
                 (~Collected(p) <=> \E i \in DOMAIN gaps : StrictlyInside(p, gaps[i]))
         /\ \A i \in DOMAIN gaps :
              /\ w.start <= gaps[i].start /\ gaps[i].end <= w.end
              /\ i > 1 => gaps[i-1].end <= gaps[i].start

\* "complete" is said only of a window every instant of which was collected,
\* and "none" only when no instant strictly inside it was (CoverageKind).
KindExact ==
  \A w \in Windows :
     LET kind == CoverageFor(runs, w.start, w.end).kind
     IN  /\ kind = "complete" <=> \A p \in Instants(w) : Collected(p)
         /\ kind = "none" <=>
              /\ kind # "complete"
              /\ \A p \in Instants(w) : StrictlyInside(p, w) => ~Collected(p)

\* A stretch longer than the cadence during which nothing was collected is
\* always reported as a gap, and nothing else is (ingestao-fontes spec).
LongGapsFound ==
  \A cadence \in 1..clock, since \in 0..clock :
     LET found == GapsSince(runs, since, clock, cadence)
     IN  /\ \A w \in Windows :
              /\ since <= w.start /\ w.end - w.start > cadence
              /\ \A p \in Instants(w) : StrictlyInside(p, w) => ~Collected(p)
              => \E i \in DOMAIN found :
                    found[i].start <= w.start /\ w.end <= found[i].end
         /\ \A i \in DOMAIN found :
              /\ found[i].end - found[i].start > cadence
              /\ \A p \in Instants(found[i]) : StrictlyInside(p, found[i]) => ~Collected(p)

\* What was once collected stays collected: no later run, whatever becomes of
\* it, takes back the answer "complete" ("A failure must never erase the
\* evidence that an earlier collection succeeded", run.go).
CoverageKept ==
  [][\A w \in Windows :
        CoverageFor(runs, w.start, w.end).kind = "complete"
           => CoverageFor(runs', w.start, w.end).kind = "complete"]_vars

\* While deliveries end in the order of their windows, the status says how long
\* ago the source last delivered, whatever failed or was skipped since
\* (registro-de-fontes spec: how long the source has not been delivering).  A
\* run over an older window that ends later is not noticed: LastSuccess goes by
\* the window.
StaleSinceDelivery ==
  /\ Successes(runs) # {}
  /\ \A i, j \in Successes(runs) :
        finished[i] < finished[j] => runs[i].end <= runs[j].end
  => StatusFor.staleFor = clock - Max({finished[i] : i \in Successes(runs)})
============================================================================
