------------------------------ MODULE Coverage ------------------------------
(***************************************************************************)
(* "Was this window looked at?": the answer internal/ingestion/coverage.go *)
(* derives from the ledger, and the status of a source's collection.       *)
(*                                                                         *)
(* An interval is a record [start, end] of instants, both included.        *)
(***************************************************************************)
EXTENDS RunLedger, Bitemporal, SequencesExt

CoverageKind == {"complete", "partial", "none"}

Interval(s, e) == [start |-> s, end |-> e]

\* The windows of the rows ids, ORDER BY window_start.
WindowsOf(rows, ids) ==
  LET ordered == FirstBy(ids, [i \in DOMAIN rows |-> rows[i].start], Cardinality(ids))
  IN  [k \in DOMAIN ordered |-> Interval(rows[ordered[k]].start, rows[ordered[k]].end)]

\* Fault: every row counts, whatever its result.
CoveringAny(rows, s, e) ==
  WindowsOf(rows, {i \in DOMAIN rows : rows[i].start <= e /\ rows[i].end >= s})

\* The windows of the successful runs that meet [s, e].
Covering(rows, s, e) ==
  WindowsOf(rows, {i \in Successes(rows) : rows[i].start <= e /\ rows[i].end >= s})

\* Fault: an interval that ends inside the last one cuts it short.
AbsorbLatest(merged, iv) ==
  LET last == Len(merged)
  IN  IF iv.start > merged[last].end
      THEN Append(merged, iv)
      ELSE [merged EXCEPT ![last].end = iv.end]

\* One step of mergeIntervals: intervals that touch are contiguous.
Absorb(merged, iv) ==
  LET last == Len(merged)
  IN  IF iv.start > merged[last].end
      THEN Append(merged, iv)
      ELSE IF iv.end > merged[last].end
           THEN [merged EXCEPT ![last].end = iv.end]
           ELSE merged

\* The windows already come in the order sort.Slice would give them.
MergeIntervals(covered) == FoldLeft(Absorb, <<Head(covered)>>, Tail(covered))

\* One step of subtract: what lies between the cursor and iv is a gap, up to e;
\* nothing is looked at once the cursor has reached e.
Sweep(acc, iv, e) ==
  LET gapEnd == IF iv.start > e THEN e ELSE iv.start
  IN  IF acc.cursor >= e \/ iv.end <= acc.cursor
      THEN acc
      ELSE [cursor |-> iv.end,
            gaps   |-> IF gapEnd > acc.cursor
                       THEN Append(acc.gaps, Interval(acc.cursor, gapEnd))
                       ELSE acc.gaps]

\* Fault: what follows the last interval is forgotten.
SubtractHead(s, e, covered) ==
  IF covered = <<>>
  THEN <<Interval(s, e)>>
  ELSE LET step(acc, iv) == Sweep(acc, iv, e)
       IN  FoldLeft(step, [cursor |-> s, gaps |-> <<>>], MergeIntervals(covered)).gaps

Subtract(s, e, covered) ==
  IF covered = <<>>
  THEN <<Interval(s, e)>>
  ELSE LET step(acc, iv) == Sweep(acc, iv, e)
           swept == FoldLeft(step, [cursor |-> s, gaps |-> <<>>], MergeIntervals(covered))
       IN  IF swept.cursor < e
           THEN Append(swept.gaps, Interval(swept.cursor, e))
           ELSE swept.gaps

\* The gaps of [s, e], in order, and the word for them.
CoverageFor(rows, s, e) ==
  LET gaps == Subtract(s, e, Covering(rows, s, e))
  IN  [gaps |-> gaps,
       kind |-> CASE gaps = <<>>                -> "complete"
                  [] gaps = <<Interval(s, e)>>  -> "none"
                  [] OTHER                      -> "partial"]

\* Fault: a gap is counted from the start of the question.
GapsSinceStart(rows, since, now, cadence) ==
  LET keep(found, g) == IF g.end - since > cadence THEN Append(found, g) ELSE found
  IN  FoldLeft(keep, <<>>, CoverageFor(rows, since, now).gaps)

\* The gaps longer than the cadence of the source, from since until now.
GapsSince(rows, since, now, cadence) ==
  LET keep(found, g) == IF g.end - g.start > cadence THEN Append(found, g) ELSE found
  IN  FoldLeft(keep, <<>>, CoverageFor(rows, since, now).gaps)
============================================================================
