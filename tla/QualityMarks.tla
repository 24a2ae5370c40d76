---------------------------- MODULE QualityMarks ----------------------------
(***************************************************************************)
(* The quality mark a record carries into the store: the checks of         *)
(* internal/dataquality, what collect and persist feed them                *)
(* (internal/usgs/ingest.go), and what Save makes of the verdict           *)
(* (internal/earthquake/store.go).                                         *)
(*                                                                         *)
(* A verdict depends on the content, on when the collection began, on its  *)
(* mode and on what it has seen; Save compares the content alone.  Runs    *)
(* are serial (SerialRuns of Ingestion), so that evaluating and saving one *)
(* record is one step.  The source serves an event once it has happened;   *)
(* the check for an instant nobody filled in is left out, since the parser *)
(* lets no such record through.                                            *)
(***************************************************************************)
EXTENDS Integers, FiniteSetsExt, SequencesExt

CONSTANTS
  Event,        \* external ids
  Measure,      \* the measured values of an event
  Implausible,  \* measures outside the physical bounds
  Misplaced,    \* measures whose coordinates Save refuses
  Tolerance,    \* FutureTolerance
  LateAfter,    \* Options.LateAfter, of a routine collection
  MaxClock, MaxReceived  \* bounds of the model

ASSUME MarksAssumption ==
  /\ Implausible \subseteq Measure /\ Misplaced \subseteq Measure
  /\ Tolerance \in Nat /\ LateAfter \in Nat
  /\ MaxClock \in Nat /\ MaxReceived \in Nat

VARIABLES
  clock,
  table,     \* earthquakes, in the order of ingested_at
  run,       \* the collection under way
  judged,    \* the last verdict on each event that reached Save
  received   \* how many records the source delivered

marksVars == <<clock, table, run, judged, received>>

\* From the least severe to the most.
Severities == <<"valid", "delayed", "duplicate", "suspect", "outlier", "corrupted", "unevaluated">>

State == Range(Severities)

\* The checks, in the order in which they run, and the mark each one leaves.
Checks == << [rule |-> "future_timestamp",      state |-> "suspect"],
             [rule |-> "impossible_value",      state |-> "outlier"],
             [rule |-> "late_arrival",          state |-> "delayed"],
             [rule |-> "duplicate_in_response", state |-> "duplicate"] >>

Rule == {check.rule : check \in Range(Checks)}

Content == [at : Nat, measure : Measure]

Verdict == [state : State, rules : Seq(Rule)]

NoRun == [going |-> FALSE, mode |-> "manual", seenAt |-> 0, seen |-> {}]

\* What reaches the table is evaluated, and a mark names the check behind it
\* (Verdict.Validate and the CHECKs of migration 014).
MarksTypeOK ==
  /\ clock \in Nat
  /\ table \in Seq([key : Event, content : Content, mode : {"incremental", "manual"},
                    state : State \ {"unevaluated"}, rules : Seq(Rule)])
  /\ \A i \in DOMAIN table :
       /\ table[i].content.measure \notin Misplaced
       /\ table[i].state = "valid" <=> table[i].rules = <<>>
  /\ run \in [going : BOOLEAN, mode : {"incremental", "manual"}, seenAt : 0..clock,
              seen : SUBSET Event]
  /\ judged \in [Event -> Verdict]
  /\ received \in 0..MaxReceived

MarksInit ==
  /\ clock = 0
  /\ table = <<>>
  /\ run = NoRun
  /\ judged = [e \in Event |-> [state |-> "unevaluated", rules |-> <<>>]]
  /\ received = 0

Tick ==
  /\ clock < MaxClock
  /\ clock' = clock + 1
  /\ UNCHANGED <<table, run, judged, received>>

----------------------------------------------------------------------------
(* The engine.                                                             *)

Severity(state) == CHOOSE n \in DOMAIN Severities : Severities[n] = state

Worst(a, b) == IF Severity(b) > Severity(a) THEN b ELSE a

\* qualityOptionsFor: what an operator asked for cannot be late; 0 disables.
LateAfterFor(mode) == IF mode = "incremental" THEN LateAfter ELSE 0

Fires(rule, e, c) ==
  LET late == LateAfterFor(run.mode)
  IN  CASE rule = "future_timestamp"      -> c.at > run.seenAt + Tolerance
        [] rule = "impossible_value"      -> c.measure \in Implausible
        [] rule = "late_arrival"          -> late > 0 /\ run.seenAt - c.at > late
        [] rule = "duplicate_in_response" -> e \in run.seen

\* Builder.Fail: the worst state wins, and the rules stay in order.
Fail(verdict, check) ==
  [state |-> Worst(verdict.state, check.state), rules |-> Append(verdict.rules, check.rule)]

Evaluate(e, c) ==
  LET look(verdict, check) == IF Fires(check.rule, e, c) THEN Fail(verdict, check) ELSE verdict
  IN  FoldLeft(look, [state |-> "valid", rules |-> <<>>], Checks)

----------------------------------------------------------------------------
(* A collection.                                                           *)

\* The instant the checks compare with is that of the beginning.
BeginCollect(mode) ==
  /\ ~run.going
  /\ run' = [going |-> TRUE, mode |-> mode, seenAt |-> clock, seen |-> {}]
  /\ UNCHANGED <<clock, table, judged, received>>

VersionsOf(e) == {i \in DOMAIN table : table[i].key = e}

\* currentVersion: the last one stored.
CurrentOf(e) == table[Max(VersionsOf(e))]

\* Fault: the verdict is compared as well.
SameContentAndVerdict(e, c, verdict) ==
  /\ VersionsOf(e) # {}
  /\ CurrentOf(e).content = c
  /\ CurrentOf(e).state = verdict.state

\* Fault: the measured values are not compared.
SameInstant(e, c, verdict) ==
  /\ VersionsOf(e) # {}
  /\ CurrentOf(e).content.at = c.at

\* The current version of e says c already, whatever the verdict on it.
SameContent(e, c, verdict) ==
  /\ VersionsOf(e) # {}
  /\ CurrentOf(e).content = c

\* persist: the record is evaluated, and the key remembered, before Save looks
\* at the coordinates.
Deliver(e, c) ==
  /\ run.going
  /\ received < MaxReceived
  /\ c.at <= clock
  /\ LET verdict == Evaluate(e, c)
     IN  /\ run' = [run EXCEPT !.seen = @ \cup {e}]
         /\ IF c.measure \in Misplaced
            THEN UNCHANGED <<table, judged>>
            ELSE /\ judged' = [judged EXCEPT ![e] = verdict]
                 /\ table' = IF SameContent(e, c, verdict)
                             THEN table
                             ELSE Append(table, [key |-> e, content |-> c, mode |-> run.mode,
                                                 state |-> verdict.state,
                                                 rules |-> verdict.rules])
  /\ received' = received + 1
  /\ UNCHANGED clock

EndCollect ==
  /\ run.going
  /\ run' = NoRun
  /\ UNCHANGED <<clock, table, judged, received>>

MarksNext ==
  \/ Tick
  \/ \E mode \in {"incremental", "manual"} : BeginCollect(mode)
  \/ \E e \in Event, at \in 0..clock, m \in Measure : Deliver(e, [at |-> at, measure |-> m])
  \/ EndCollect

MarksSpec == MarksInit /\ [][MarksNext]_marksVars

----------------------------------------------------------------------------
(* Properties.                                                             *)

\* The circumstances of a collection make no revision: two versions of an event
\* in a row differ in content, whatever the modes that read it and however late
\* or often ("Nothing about the earthquakes had changed", sameContent).
NoFakeRevision ==
  \A e \in Event : \A i, j \in VersionsOf(e) :
     i < j /\ (\A k \in VersionsOf(e) : k <= i \/ j <= k)
       => table[i].content # table[j].content

Circumstances == {"late_arrival", "duplicate_in_response"}

\* Circumstances apart, the mark on the current version of an event is what the
\* checks last said of it ("A genuine quality change never hides behind this:
\* quality is a function of the content", sameContent), save one: the mark of an
\* event that happened after its collection began, by more than the tolerance,
\* stays on its version for ever.
NothingHides ==
  \A e \in Event :
     VersionsOf(e) # {} =>
       LET marks == Range(CurrentOf(e).rules) \ Circumstances
           last == Range(judged[e].rules) \ Circumstances
       IN  /\ last \subseteq marks
           /\ marks \subseteq last \cup {"future_timestamp"}
============================================================================
