-------------------------- MODULE MCCollectionCycle --------------------------
(***************************************************************************)
(* Small instances of the three tellings of a cycle for TLC: its requests  *)
(* and connections (CollectionCycle), the marks it leaves (QualityMarks)   *)
(* and, for what becomes of the lock, Ingestion.  They share nothing but a *)
(* run: a behaviour is one of them.  In a part that stands still nothing   *)
(* fair is enabled, so that the fairness of all goes together.             *)
(***************************************************************************)
EXTENDS CollectionCycle, QualityMarks

CONSTANTS e1, weak, absurd, nowhere

\* Windows that are empty, that end within a page of two or with one, and that
\* have features of every kind in them.
SmallListings ==
  LET good == Field
      off == Field \ {"range"}
      timeless == Field \ {"time"}
      placeless == Field \ {"coordinates", "range"}
  IN  {<<>>, <<good>>, <<good, timeless, good>>, <<off, good, placeless>>, <<good, good, off, good>>}

VARIABLES
  part,                                          \* "cycle", "marks" or "lock"
  now, catalogue, published, runs, versions,     \* of Ingestion
  holder, held, pooled,
  at, mode, window, row, from, batch, full

\* A server and a command around one event, in one instant.
Locking == INSTANCE Ingestion WITH
  Server <- {"s1"}, Command <- {"c1"}, NoProcess <- "nobody",
  Event <- {"e1"}, Content <- {"a"}, Invalid <- {},
  Occurred <- [c \in {"a"} |-> 0], Rank <- [e \in {"e1"} |-> 0],
  Steady <- TRUE, CommandMode <- {"manual"},
  Overlap <- 0, Fallback <- 0, Second <- 1, PageSize <- 1, Lag <- 0,
  SessionLoss <- TRUE, Stuck <- TRUE, MaxStranded <- 1,
  MaxClock <- 0, MaxRuns <- 2, MaxPublished <- 1,
  clock <- now, pc <- at, offset <- from

lockingVars == <<now, catalogue, published, runs, versions, holder, held, pooled,
                 at, mode, window, row, from, batch, full>>

\* One initial state of the cycle will do for the others.
AllInit ==
  /\ part \in {"cycle", "marks", "lock"}
  /\ Init /\ MarksInit /\ Locking!Init
  /\ part # "cycle" => listing = <<>> /\ source = "down"

Cycling == part = "cycle" /\ Next /\ UNCHANGED <<part, marksVars, lockingVars>>

Marking == part = "marks" /\ MarksNext /\ UNCHANGED <<part, vars, lockingVars>>

Contending == part = "lock" /\ Locking!Next /\ UNCHANGED <<part, vars, marksVars>>

AllSpec ==
  /\ AllInit /\ [][Cycling \/ Marking \/ Contending]_<<part, vars, marksVars, lockingVars>>
  /\ Fairness /\ Locking!Fairness

\* Whoever takes the lock gives it back, unless a statement is never answered
\* (Ingestion).
LockComesFree == Locking!LockComesFree
============================================================================
