--------------------------- MODULE LedgerContract ---------------------------
(***************************************************************************)
(* What the ledger of ingestion runs promises its readers, whoever writes  *)
(* it: rows are appended, never removed; a row is closed at most once; and *)
(* a closed row, the evidence of one collection, never changes again, not  *)
(* even when a later collection fails ("A failure must never erase the     *)
(* evidence that an earlier collection succeeded", run.go).                *)
(*                                                                         *)
(* The statements of RunLedger promise none of this by themselves: their   *)
(* UPDATEs are guarded by the id alone.                                    *)
(***************************************************************************)
EXTENDS RunLedger

VARIABLE runs

CInit == runs = <<>>

\* A row is appended: open, or closed from birth when the cycle was skipped.
Open ==
  /\ Len(runs') = Len(runs) + 1
  /\ \A i \in DOMAIN runs : runs'[i] = runs[i]
  /\ runs'[Len(runs')].result \in {"running", "skipped"}

\* An open row receives its outcome and keeps everything else.
Close ==
  \E i \in DOMAIN runs, outcome \in {"success", "failure"} :
     /\ runs[i].result = "running"
     /\ runs' = [runs EXCEPT ![i].result = outcome]

CNext == Open \/ Close

CSpec == CInit /\ [][CNext]_runs
============================================================================
