----------------------------- MODULE SearchPanel -----------------------------
(***************************************************************************)
(* The search box of the map (frontend/src/ui/SearchPanel.tsx): every      *)
(* change of the term arms a timer, the timer sends a request, and answers *)
(* come back in any order.                                                 *)
(***************************************************************************)
EXTENDS Naturals

CONSTANTS
  Term,      \* terms long enough to be searched
  Short,     \* terms that are too short, the empty one among them
  Nothing,   \* no results on display
  MaxTyped   \* bound of the model

ASSUME PanelAssumption ==
  /\ Nothing \notin Term \cup Short /\ Term \cap Short = {} /\ Short # {}
  /\ MaxTyped \in Nat

VARIABLES
  term,      \* what the box holds
  seq,       \* seqRef: the number of the last search begun
  timer,     \* the timer that is armed, as the search it will send, if any
  inflight,  \* the requests under way
  results,   \* the term the results on display answer, or Nothing
  searching, \* whether the panel says it is searching
  typed      \* how often the term changed

panelVars == <<term, seq, timer, inflight, results, searching, typed>>

Search == [seq : Nat, term : Term]

PanelTypeOK ==
  /\ term \in Term \cup Short
  /\ seq \in 0..typed
  /\ timer \subseteq Search /\ \A s \in timer : s.seq = seq
  /\ inflight \subseteq Search /\ \A s \in inflight : s.seq <= seq
  /\ results \in Term \cup {Nothing}
  /\ searching \in BOOLEAN
  /\ typed \in Nat

PanelInit ==
  /\ term \in Short
  /\ seq = 0
  /\ timer = {}
  /\ inflight = {}
  /\ results = Nothing
  /\ searching = FALSE
  /\ typed = 0

Change(t) ==
  /\ typed < MaxTyped
  /\ t # term
  /\ term' = t
  /\ typed' = typed + 1

\* The effect of a new term: the old timer is cleared and a new one armed.
Type(t) ==
  /\ t \in Term
  /\ Change(t)
  /\ seq' = seq + 1
  /\ searching' = TRUE
  /\ timer' = {[seq |-> seq + 1, term |-> t]}
  /\ UNCHANGED <<inflight, results>>

\* A term that is too short clears the panel; no search begins.
TypeShort(t) ==
  /\ t \in Short
  /\ Change(t)
  /\ timer' = {}
  /\ results' = Nothing
  /\ searching' = FALSE
  /\ UNCHANGED <<seq, inflight>>

\* 250 ms without a change.
Fire ==
  /\ timer # {}
  /\ timer' = {}
  /\ inflight' = inflight \cup timer
  /\ UNCHANGED <<term, seq, results, searching, typed>>

\* Fault: an answer is shown whatever was asked since.
IsOutOfOrderFine(s) == s \in inflight

\* seq === seqRef.current.
IsCurrent(s) == s.seq = seq

Receive(s, answer) ==
  /\ s \in inflight
  /\ inflight' = inflight \ {s}
  /\ IF IsCurrent(s)
     THEN results' = answer /\ searching' = FALSE
     ELSE UNCHANGED <<results, searching>>
  /\ UNCHANGED <<term, seq, timer, typed>>

\* Fault: an answer that fails leaves the panel as it is.
ReceiveFailureOnly(s) ==
  /\ s \in inflight
  /\ inflight' = inflight \ {s}
  /\ UNCHANGED <<term, seq, timer, results, searching, typed>>

ReceiveAnswer(s) == Receive(s, s.term)

ReceiveFailure(s) == Receive(s, Nothing)

\* A timer fires, and the browser answers or fails every request.
PanelFairness ==
  /\ WF_panelVars(Fire)
  /\ WF_panelVars(\E s \in inflight : ReceiveAnswer(s) \/ ReceiveFailure(s))

----------------------------------------------------------------------------
(* Properties.                                                             *)

\* Once the panel no longer says it is searching, the results it shows answer
\* the term in the box ("Descarta respostas de buscas antigas que chegarem fora
\* de ordem", SearchPanel.tsx), unless that term is too short to be searched: an
\* erased term leaves seqRef alone, and its answer still passes for current.
NothingStale == ~searching /\ results # Nothing /\ term \in Term => results = term

\* A search the user does not change comes to an end, shown or failed, however
\* many older ones are still under way.
SearchEnds == searching ~> ~searching
============================================================================
