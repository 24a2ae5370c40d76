------------------------------ MODULE MapPage -------------------------------
(***************************************************************************)
(* The page of the map (frontend/src/main.tsx): the search panel beside    *)
(* the globe.  A result of the search, shown while a newer search may be   *)
(* under way, is handed to the controls the globe gave last.               *)
(***************************************************************************)
EXTENDS SearchPanel, GlobeLayer

CONSTANT Found  \* the volcanoes a search for each term finds

ASSUME MapAssumption == Found \in [Term -> SUBSET Volcano]

vars == <<panelVars, globeVars>>

Init == PanelInit /\ GlobeInit

TypeOK == PanelTypeOK /\ GlobeTypeOK

\* onSelect of a result: focusVolcano.
SelectResult(v) ==
  /\ results # Nothing
  /\ v \in Found[results]
  /\ Focus(v)

Next ==
  \/ \E t \in Term : Type(t) /\ UNCHANGED globeVars
  \/ \E t \in Short : TypeShort(t) /\ UNCHANGED globeVars
  \/ Fire /\ UNCHANGED globeVars
  \/ \E s \in inflight : ReceiveAnswer(s) /\ UNCHANGED globeVars
  \/ \E s \in inflight : ReceiveFailure(s) /\ UNCHANGED globeVars
  \/ RunEffect /\ UNCHANGED panelVars
  \/ CleanUp /\ UNCHANGED panelVars
  \/ \E k \in Mount : CreateViewer(k) /\ UNCHANGED panelVars
  \/ \E k \in Mount : FailImagery(k) /\ UNCHANGED panelVars
  \/ \E k \in Mount : PlotVolcanoes(k) /\ UNCHANGED panelVars
  \/ \E k \in Mount : FailCatalogue(k) /\ UNCHANGED panelVars
  \/ Toggle /\ UNCHANGED panelVars
  \/ \E v \in Volcano \cup {None} : Click(v) /\ UNCHANGED panelVars
  \/ \E v \in Volcano : SelectResult(v) /\ UNCHANGED panelVars
  \/ CloseCallout /\ UNCHANGED panelVars
  \/ Render /\ UNCHANGED panelVars

Spec == Init /\ [][Next]_vars /\ PanelFairness
============================================================================
