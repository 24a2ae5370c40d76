----------------------------- MODULE TableReads ------------------------------
(***************************************************************************)
(* The readers of the two tables that keep every version: walks over the   *)
(* pages of GET /api/v1/earthquakes (EarthquakePages) and questions to     *)
(* GET /api/v1/observations (ObservationReads).  They never act together:  *)
(* the initial state picks one of them, which has the clock and the table  *)
(* to itself, and the other stands still.                                  *)
(***************************************************************************)
EXTENDS EarthquakePages

CONSTANTS
  Key, Content, PageSize,  \* of ObservationReads; PageSize is its Limit
  MaxObservations, MaxAsked  \* its bounds

\* Keys stand for instants of observation.
ASSUME ObservationsAssumption ==
  /\ Key \subseteq Int
  /\ PageSize \in Nat
  /\ MaxObservations \in Nat /\ MaxAsked \in Nat

VARIABLES
  about,  \* whose steps are taken
  asked   \* of ObservationReads

Observations == INSTANCE ObservationReads WITH
  Limit <- PageSize, MaxRows <- MaxObservations

readsVars == <<about, vars, asked>>

ReadsInit ==
  /\ about \in {"pages", "observations"}
  /\ Init /\ Observations!Init

StepOfPages == about = "pages" /\ Next /\ UNCHANGED asked

StepOfObservations ==
  about = "observations" /\ Observations!Next /\ UNCHANGED <<inserting, walk>>

ReadsNext == (StepOfPages \/ StepOfObservations) /\ UNCHANGED about

ReadsSpec == ReadsInit /\ [][ReadsNext]_readsVars

----------------------------------------------------------------------------
(* The properties of ObservationReads, told with its module.               *)

\* An as-of question keeps its answer (ObservationReads).
SameAnswer == Observations!SameAnswer

\* An answer about all provenances is current (ObservationReads).
AllIsCurrent == Observations!AllIsCurrent
============================================================================
