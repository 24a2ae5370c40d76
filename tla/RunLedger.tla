----------------------------- MODULE RunLedger -----------------------------
(***************************************************************************)
(* The table ingestion_runs of one source, as the package ingestion writes *)
(* and reads it (internal/ingestion/run.go, migration 015).                *)
(*                                                                         *)
(* A ledger is a sequence of rows; the index of a row is its id.  The      *)
(* operators below map a ledger to the ledger one SQL statement leaves, so *)
(* that a specification of the processes can say runs' = Finish(runs, id). *)
(*                                                                         *)
(* Abstracted: the counts and the error message, which nothing reads back, *)
(* and finished_at, which the CHECK of migration 015 ties to the result    *)
(* (NULL exactly while the result is "running").                           *)
(***************************************************************************)
EXTENDS Integers, Sequences

Mode == {"incremental", "backfill", "manual"}

Result == {"running", "success", "failure", "skipped"}

\* One recorded attempt: how its window was chosen, the window, when the row
\* was inserted (started_at) and how the attempt ended.
Run == [mode : Mode, start : Int, end : Int, started : Int, result : Result]

----------------------------------------------------------------------------
(* Statements that write.                                                  *)

\* The guard Begin puts on its window; Skip has none but always passes [t, t].
WindowOrdered(start, end) == ~(end < start)

NewRow(mode, start, end, now, result) ==
  [mode |-> mode, start |-> start, end |-> end, started |-> now, result |-> result]

\* INSERT ... 'running'; the caller checks WindowOrdered first.
Begin(rows, mode, start, end, now) ==
  Append(rows, NewRow(mode, start, end, now, "running"))

\* UPDATE ... SET result = 'success' WHERE id = $1: no condition on the result
\* the row had.
Finish(rows, id) == [rows EXCEPT ![id].result = "success"]

\* UPDATE ... SET result = 'failure' WHERE id = $1: no condition either.
Fail(rows, id) == [rows EXCEPT ![id].result = "failure"]

\* INSERT ... 'skipped': a row that is born closed.
Skip(rows, mode, start, end, now) ==
  Append(rows, NewRow(mode, start, end, now, "skipped"))

----------------------------------------------------------------------------
(* Statements that read.                                                   *)

Successes(rows) == {i \in DOMAIN rows : rows[i].result = "success"}

\* ORDER BY started_at DESC, id DESC LIMIT 1.
IsLastRun(rows, i) ==
  /\ i \in DOMAIN rows
  /\ \A j \in DOMAIN rows :
        \/ rows[j].started < rows[i].started
        \/ rows[j].started = rows[i].started /\ j <= i

LastRun(rows) == CHOOSE i \in DOMAIN rows : IsLastRun(rows, i)

\* Fault: the newest successful row instead of the furthest window.
IsNewestSuccess(rows, i) ==
  /\ i \in Successes(rows)
  /\ \A j \in Successes(rows) : j <= i

\* WHERE result = 'success' ORDER BY window_end DESC, id DESC LIMIT 1.
IsLastSuccess(rows, i) ==
  /\ i \in Successes(rows)
  /\ \A j \in Successes(rows) :
        \/ rows[j].end < rows[i].end
        \/ rows[j].end = rows[i].end /\ j <= i

LastSuccess(rows) == CHOOSE i \in Successes(rows) : IsLastSuccess(rows, i)
============================================================================
