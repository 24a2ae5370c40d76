--------------------------- MODULE CoverageReads ---------------------------
(***************************************************************************)
(* The readers of the ledger: those of internal/ingestion/coverage.go      *)
(* (LedgerReads) and the request that tells how much of its window was     *)
(* collected (WindowAnswers), each with a ledger of its own.  They never   *)
(* act together: the initial state picks one of them, which has the clock  *)
(* to itself, and the other stands still.                                  *)
(***************************************************************************)
EXTENDS LedgerReads

CONSTANTS
  Event, Occurred, Limit, Disabling,      \* of WindowAnswers
  AnswersMaxClock, AnswersMaxRuns         \* its bounds

ASSUME AnswersAssumption ==
  /\ Occurred \in [Event -> Nat]
  /\ Limit \in Nat \ {0}
  /\ Disabling \in BOOLEAN
  /\ AnswersMaxClock \in Nat /\ AnswersMaxRuns \in Nat

VARIABLES
  about,   \* whose steps are taken
  ledger,  \* the runs of WindowAnswers
  store, enabled, wanted, request  \* the rest of it

Answers == INSTANCE WindowAnswers WITH
  runs <- ledger, MaxClock <- AnswersMaxClock, MaxRuns <- AnswersMaxRuns

answersVars == <<ledger, store, enabled, wanted, request>>

coverageVars == <<about, vars, answersVars>>

CoverageInit ==
  /\ about \in {"ledger", "answers"}
  /\ Init /\ Answers!Init

StepOfLedger == about = "ledger" /\ Next /\ UNCHANGED answersVars

StepOfAnswers == about = "answers" /\ Answers!Next /\ UNCHANGED <<runs, finished>>

CoverageNext == (StepOfLedger \/ StepOfAnswers) /\ UNCHANGED about

CoverageSpec == CoverageInit /\ [][CoverageNext]_coverageVars

----------------------------------------------------------------------------
(* The properties of WindowAnswers, told with their module.                *)

\* "complete" leaves no event unaccounted for (WindowAnswers).
CompleteAccountsForAll == Answers!CompleteAccountsForAll

\* "complete" beside an empty list means that nothing happened (WindowAnswers).
EmptyMeansQuiet == Answers!EmptyMeansQuiet

\* `none` means that nothing was collected (WindowAnswers).
NoneMeansUncollected == Answers!NoneMeansUncollected
============================================================================
