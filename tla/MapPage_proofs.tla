--------------------------- MODULE MapPage_proofs ----------------------------
(***************************************************************************)
(* The search panel never settles on a stale answer, and the globe beside  *)
(* it has one Viewer, which the panel drives and whose layer it shows,     *)
(* however remounts, answers and gestures interleave.                      *)
(*                                                                         *)
(* The two components meet in one action only, the choice of a result, so  *)
(* each has an inductive invariant of its own.                             *)
(***************************************************************************)
EXTENDS MapPage, TLAPS

----------------------------------------------------------------------------
(* The panel.                                                              *)

\* A search that passes for the current one asks for the term in the box,
\* unless that term is too short: an erased term leaves seqRef alone.
CurrentAsksForTerm ==
  \A s \in timer \cup inflight : IsCurrent(s) /\ term \in Term => s.term = term

PanelInv == PanelTypeOK /\ CurrentAsksForTerm /\ NothingStale

LEMMA PanelStart == Init => PanelInv
<1> SUFFICES ASSUME PanelInit PROVE PanelInv
  BY DEF Init
<1> USE DEF PanelInit
<1>1. PanelTypeOK
  <2>1. seq \in 0..typed /\ typed \in Nat
    OBVIOUS
  <2>2. searching \in BOOLEAN
    OBVIOUS
  <2>3. term \in Term \cup Short /\ results \in Term \cup {Nothing}
    OBVIOUS
  <2>4. /\ timer \subseteq Search /\ \A s \in timer : s.seq = seq
        /\ inflight \subseteq Search /\ \A s \in inflight : s.seq <= seq
    OBVIOUS
  <2> QED BY <2>1, <2>2, <2>3, <2>4, Zenon DEF PanelTypeOK
<1>2. CurrentAsksForTerm /\ NothingStale
  BY DEF CurrentAsksForTerm, NothingStale
<1> QED BY <1>1, <1>2 DEF PanelInv

\* A new term begins a search whose number no earlier search has.
LEMMA TypeKeepsPanel ==
  ASSUME PanelInv, NEW t \in Term, Type(t)
  PROVE  PanelInv'
<1> USE DEF PanelInv, PanelTypeOK, Type, Change, Search
<1>1. PanelTypeOK'
  <2>1. seq' \in 0..typed' /\ typed' \in Nat
    OBVIOUS
  <2>2. \A s \in inflight : s.seq <= seq'
    OBVIOUS
  <2> QED BY <2>1, <2>2
<1>2. CurrentAsksForTerm'
  <2> SUFFICES ASSUME NEW s \in timer' \cup inflight', s.seq = seq'
               PROVE  s.term = t
    BY DEF CurrentAsksForTerm, IsCurrent
  <2>1. s \notin inflight
    OBVIOUS
  <2> QED BY <2>1
<1>3. NothingStale'
  BY DEF NothingStale
<1> QED BY <1>1, <1>2, <1>3

LEMMA TypeShortKeepsPanel ==
  ASSUME PanelInv, NEW t \in Short, TypeShort(t)
  PROVE  PanelInv'
<1> USE DEF PanelInv, PanelTypeOK, TypeShort, Change, Search
<1>1. PanelTypeOK'
  <2>1. seq' \in 0..typed' /\ typed' \in Nat
    OBVIOUS
  <2> QED BY <2>1
<1>2. CurrentAsksForTerm'
  BY PanelAssumption DEF CurrentAsksForTerm
<1>3. NothingStale'
  BY DEF NothingStale
<1> QED BY <1>1, <1>2, <1>3

LEMMA FireKeepsPanel ==
  ASSUME PanelInv, Fire
  PROVE  PanelInv'
<1> USE DEF PanelInv, PanelTypeOK, Fire, Search
<1>1. PanelTypeOK'
  OBVIOUS
<1>2. CurrentAsksForTerm'
  BY DEF CurrentAsksForTerm, IsCurrent
<1>3. NothingStale'
  BY DEF NothingStale
<1> QED BY <1>1, <1>2, <1>3

\* An answer changes what is shown only when its search passes for the current
\* one, which asks for the term in the box.
LEMMA ReceiveKeepsPanel ==
  ASSUME PanelInv, NEW s \in inflight, NEW answer \in {s.term, Nothing},
         Receive(s, answer)
  PROVE  PanelInv'
<1> USE DEF PanelInv, PanelTypeOK, Receive, Search, IsCurrent
<1>1. PanelTypeOK'
  OBVIOUS
<1>2. CurrentAsksForTerm'
  BY DEF CurrentAsksForTerm
<1>3. NothingStale'
  <2>1. CASE IsCurrent(s)
    BY <2>1 DEF NothingStale, CurrentAsksForTerm
  <2>2. CASE ~IsCurrent(s)
    BY <2>2 DEF NothingStale
  <2> QED BY <2>1, <2>2
<1> QED BY <1>1, <1>2, <1>3

LEMMA IdlePanel ==
  ASSUME PanelInv, UNCHANGED panelVars
  PROVE  PanelInv'
  BY DEF PanelInv, PanelTypeOK, CurrentAsksForTerm, NothingStale, IsCurrent,
         panelVars

LEMMA PanelStep == PanelInv /\ [Next]_vars => PanelInv'
<1> SUFFICES ASSUME PanelInv, [Next]_vars PROVE PanelInv'
  OBVIOUS
<1>1. ASSUME NEW t \in Term, Type(t) PROVE PanelInv'
  BY <1>1, TypeKeepsPanel
<1>2. ASSUME NEW t \in Short, TypeShort(t) PROVE PanelInv'
  BY <1>2, TypeShortKeepsPanel
<1>3. CASE Fire
  BY <1>3, FireKeepsPanel
<1>4. ASSUME NEW s \in inflight, ReceiveAnswer(s) PROVE PanelInv'
  BY <1>4, ReceiveKeepsPanel DEF ReceiveAnswer
<1>5. ASSUME NEW s \in inflight, ReceiveFailure(s) PROVE PanelInv'
  BY <1>5, ReceiveKeepsPanel DEF ReceiveFailure
<1>7. CASE UNCHANGED panelVars
  BY <1>7, IdlePanel
<1> QED
  BY <1>1, <1>2, <1>3, <1>4, <1>5, <1>7 DEF Next, vars, panelVars

\* The panel that no longer says it is searching shows the results of the term
\* in its box, in whatever order timers fire and answers come back
\* (SearchPanel.tsx, the comparison with seqRef).
THEOREM PanelIsNeverStale == Spec => []NothingStale
<1>1. PanelInv => NothingStale
  BY DEF PanelInv
<1> QED BY <1>1, PanelStart, PanelStep, PTL DEF Spec
----------------------------------------------------------------------------
(* The globe.                                                              *)

\* A mounted globe has run its effect, and a run that is still to come has done
\* nothing.
RunsInOrder ==
  /\ mounted => mounts \in Mount
  /\ \A k \in Mount : k > mounts => task[k] = "waiting"

GlobeInv ==
  /\ GlobeTypeOK
  /\ RunsInOrder
  /\ OneViewer
  /\ PanelDrivesGlobe
  /\ TickedIsDrawn

LEMMA GlobeStart == Init => GlobeInv
<1> SUFFICES ASSUME GlobeInit PROVE GlobeInv
  BY DEF Init
<1> USE DEF GlobeInit
<1>1. GlobeTypeOK
  <2>1. mounts \in 0..MaxMounts /\ viewerRef \in 0..mounts /\ gestures \in 0..MaxGestures
    BY GlobeAssumption
  <2>2. mounted \in BOOLEAN /\ box \in BOOLEAN
    OBVIOUS
  <2>3. /\ task \in [Mount -> Stage]
        /\ viewer \in [Mount -> {"none", "live", "destroyed"}]
        /\ shown \in [Mount -> SUBSET Volcano]
    BY DEF Stage
  <2>4. /\ controls \in {0} \cup {k \in Mount : task[k] = "ready"}
        /\ selectedId \in Volcano \cup {None} /\ callout \in Volcano \cup {None}
    OBVIOUS
  <2> QED BY <2>1, <2>2, <2>3, <2>4, Zenon DEF GlobeTypeOK
<1>2. RunsInOrder /\ OneViewer /\ PanelDrivesGlobe /\ TickedIsDrawn
  BY DEF RunsInOrder, OneViewer, PanelDrivesGlobe, TickedIsDrawn, Live
<1> QED BY <1>1, <1>2 DEF GlobeInv

\* The effect runs again only after a cleanup, when no Viewer is left.
LEMMA RunEffectKeepsGlobe ==
  ASSUME GlobeInv, RunEffect
  PROVE  GlobeInv'
<1> USE DEF GlobeInv, GlobeTypeOK, RunEffect, panel, Stage
<1>0. /\ mounts + 1 \in Mount /\ mounts' = mounts + 1
      /\ task'[mounts + 1] \in {"ended", "imagery"}
      /\ \A k \in Mount : k # mounts + 1 => task'[k] = task[k]
  BY GlobeAssumption DEF Mount
<1>1. GlobeTypeOK'
  <2>1. mounts' \in 0..MaxMounts /\ viewerRef' \in 0..mounts'
    BY GlobeAssumption
  <2>2. task' \in [Mount -> Stage]
    OBVIOUS
  <2>3. controls' \in {0} \cup {k \in Mount : task'[k] = "ready"}
    <3>1. CASE controls = 0
      BY <3>1
    <3>2. CASE controls \in Mount /\ task[controls] = "ready" /\ controls # mounts + 1
      BY <3>2, <1>0
    <3>3. task[mounts + 1] = "waiting"
      BY <1>0 DEF RunsInOrder, Mount
    <3> QED BY <3>1, <3>2, <3>3
  <2> QED BY <2>1, <2>2, <2>3
<1>2. RunsInOrder'
  BY <1>0 DEF RunsInOrder, Mount
<1>3. \A k \in Mount : ~Live(k) /\ ~Live(k)'
  BY DEF OneViewer, Live
<1>4. OneViewer' /\ TickedIsDrawn'
  BY <1>3 DEF OneViewer, TickedIsDrawn, Live
<1>5. PanelDrivesGlobe'
  BY <1>0 DEF PanelDrivesGlobe
<1> QED BY <1>1, <1>2, <1>4, <1>5

\* The Viewer of the current run is the only one, and it is destroyed.
LEMMA CleanUpKeepsGlobe ==
  ASSUME GlobeInv, CleanUp
  PROVE  GlobeInv'
<1> USE DEF GlobeInv, GlobeTypeOK, CleanUp, panel
<1>0. \A k \in Mount : ~Live(k)'
  <2> SUFFICES ASSUME NEW k \in Mount PROVE viewer'[k] # "live"
    BY DEF Live
  <2>1. CASE k = mounts
    BY <2>1
  <2>2. CASE k # mounts
    BY <2>2 DEF OneViewer, Live
  <2> QED BY <2>1, <2>2
<1>1. GlobeTypeOK'
  <2>1. viewer' \in [Mount -> {"none", "live", "destroyed"}]
    OBVIOUS
  <2>2. viewerRef' \in 0..mounts'
    OBVIOUS
  <2>3. mounted' \in BOOLEAN
    OBVIOUS
  <2> QED BY <2>1, <2>2, <2>3
<1>2. RunsInOrder'
  BY DEF RunsInOrder
<1>3. OneViewer' /\ TickedIsDrawn'
  BY <1>0 DEF OneViewer, TickedIsDrawn
<1>4. PanelDrivesGlobe'
  BY DEF PanelDrivesGlobe
<1> QED BY <1>1, <1>2, <1>3, <1>4

\* What a task that ends leaves behind.
LEMMA EndKeepsGlobe ==
  ASSUME GlobeInv, NEW k \in Mount, task[k] \in {"imagery", "catalogue"}, End(k),
         UNCHANGED <<mounts, mounted, viewer, viewerRef, controls, shown, panel>>
  PROVE  GlobeInv'
<1> USE DEF GlobeInv, GlobeTypeOK, End, panel
<1>0. /\ task' \in [Mount -> Stage]
      /\ \A j \in Mount : task'[j] = "ready" <=> task[j] = "ready"
  BY DEF Stage
<1>1. GlobeTypeOK'
  BY <1>0
<1>2. RunsInOrder'
  BY DEF RunsInOrder
<1>3. OneViewer'
  BY DEF OneViewer, Live
<1>4. TickedIsDrawn'
  BY <1>0 DEF TickedIsDrawn, Live
<1>5. PanelDrivesGlobe'
  BY <1>0 DEF PanelDrivesGlobe, Live, RunsInOrder
<1> QED BY <1>1, <1>2, <1>3, <1>4, <1>5

\* A Viewer is created only by the task of the current run.
LEMMA CreateViewerKeepsGlobe ==
  ASSUME GlobeInv, NEW k \in Mount, CreateViewer(k)
  PROVE  GlobeInv'
<1> USE DEF panel
<1>1. CASE Cancelled(k)
  BY <1>1, EndKeepsGlobe DEF CreateViewer
<1>2. ASSUME ~Cancelled(k), task[k] = "imagery",
             UNCHANGED <<mounts, mounted, controls, shown, panel>>,
             \/ /\ viewer' = [viewer EXCEPT ![k] = "live"]
                /\ viewerRef' = k
                /\ task' = [task EXCEPT ![k] = "catalogue"]
             \/ /\ viewer' = [viewer EXCEPT ![k] = "destroyed"]
                /\ viewerRef' = 0
                /\ End(k)
      PROVE  GlobeInv'
  <2> USE DEF GlobeInv, GlobeTypeOK
  <2>0. /\ mounted /\ k = mounts
        /\ task' \in [Mount -> Stage]
        /\ task[k] # "ready" /\ task'[k] # "ready"
        /\ \A j \in Mount : j # k => task'[j] = task[j] /\ viewer'[j] = viewer[j]
        /\ viewer'[k] = "live" => viewerRef' = k
    BY <1>2 DEF Cancelled, End, Stage
  <2>1. GlobeTypeOK'
    <3>1. viewer' \in [Mount -> {"none", "live", "destroyed"}]
      BY <1>2
    <3>2. viewerRef' \in 0..mounts'
      BY <1>2, <2>0 DEF Mount
    <3>3. controls' \in {0} \cup {j \in Mount : task'[j] = "ready"}
      BY <1>2, <2>0
    <3> QED BY <3>1, <3>2, <3>3, <2>0, <1>2
  <2>2. RunsInOrder'
    BY <1>2, <2>0 DEF RunsInOrder, Mount
  <2>3. OneViewer'
    BY <1>2, <2>0 DEF OneViewer, Live
  <2>4. TickedIsDrawn'
    BY <1>2, <2>0 DEF TickedIsDrawn, Live
  <2>5. PanelDrivesGlobe'
    BY <1>2, <2>0 DEF PanelDrivesGlobe
  <2> QED BY <2>1, <2>2, <2>3, <2>4, <2>5
<1>3. CASE ~Cancelled(k)
  BY <1>2, <1>3 DEF CreateViewer
<1> QED BY <1>1, <1>3

\* Only the task of the current run plots, and only into a Viewer that lives.
LEMMA PlotVolcanoesKeepsGlobe ==
  ASSUME GlobeInv, NEW k \in Mount, PlotVolcanoes(k)
  PROVE  GlobeInv'
<1> USE DEF panel, PlotVolcanoes
<1>1. CASE Cancelled(k) \/ ~Live(k)
  BY <1>1, EndKeepsGlobe
<1>2. CASE ~(Cancelled(k) \/ ~Live(k))
  <2> USE DEF GlobeInv, GlobeTypeOK
  <2>0. /\ mounted /\ k = mounts /\ Live(k)
        /\ task' \in [Mount -> Stage]
        /\ task'[k] = "ready" /\ controls' = k
        /\ shown' \in [Mount -> SUBSET Volcano] /\ shown'[k] = Volcano
        /\ \A j \in Mount : j # k => task'[j] = task[j] /\ shown'[j] = shown[j]
    BY <1>2 DEF Cancelled, Stage
  <2>1. GlobeTypeOK'
    BY <1>2, <2>0
  <2>2. RunsInOrder'
    BY <1>2, <2>0 DEF RunsInOrder, Mount
  <2>3. OneViewer'
    BY <1>2 DEF OneViewer, Live
  <2>4. TickedIsDrawn'
    BY <1>2, <2>0 DEF TickedIsDrawn, OneViewer, Live
  <2>5. PanelDrivesGlobe'
    BY <1>2, <2>0 DEF PanelDrivesGlobe, Live
  <2> QED BY <2>1, <2>2, <2>3, <2>4, <2>5
<1> QED BY <1>1, <1>2

\* The Viewer that is drawn is the one the panel drives, so that the box and the
\* layer change together.
LEMMA ToggleKeepsGlobe ==
  ASSUME GlobeInv, Toggle
  PROVE  GlobeInv'
<1> USE DEF GlobeInv, GlobeTypeOK, Toggle, Gesture, Reachable
<1>0. /\ shown' \in [Mount -> SUBSET Volcano]
      /\ controls \in Mount /\ Live(controls) /\ box' => shown'[controls] = Volcano
  <2>1. CASE Reachable(controls)
    <3>1. controls \in Mount
      BY <2>1
    <3>2. shown' = [shown EXCEPT ![controls] = IF box' THEN Volcano ELSE {}]
      BY <2>1
    <3> QED BY <3>1, <3>2
  <2>2. CASE ~Reachable(controls)
    <3>1. shown' = shown
      BY <2>2
    <3>2. controls \in Mount => ~Live(controls)
      BY <2>2, GlobeAssumption DEF Mount
    <3> QED BY <3>1, <3>2
  <2> QED BY <2>1, <2>2
<1>1. GlobeTypeOK'
  <2>1. gestures' \in 0..MaxGestures
    BY GlobeAssumption
  <2>2. selectedId' \in Volcano \cup {None} /\ callout' \in Volcano \cup {None}
    OBVIOUS
  <2>3. box' \in BOOLEAN
    OBVIOUS
  <2> QED BY <1>0, <2>1, <2>2, <2>3
<1>2. RunsInOrder' /\ PanelDrivesGlobe'
  BY DEF RunsInOrder, PanelDrivesGlobe, Live
<1>3. OneViewer'
  BY DEF OneViewer, Live
<1>4. TickedIsDrawn'
  <2> SUFFICES ASSUME box', NEW k \in Mount, Live(k), task[k] = "ready"
               PROVE  shown'[k] = Volcano
    BY DEF TickedIsDrawn, Live
  <2>1. k = mounts /\ mounted /\ controls = k
    BY DEF OneViewer, PanelDrivesGlobe
  <2> QED BY <2>1, <1>0
<1> QED BY <1>1, <1>2, <1>3, <1>4

\* Gestures that only move the selection.
LEMMA SelectionKeepsGlobe ==
  ASSUME GlobeInv,
         UNCHANGED <<mounts, mounted, task, viewer, viewerRef, controls, shown, box>>,
         selectedId' \in Volcano \cup {None}, callout' \in Volcano \cup {None},
         gestures' \in 0..MaxGestures
  PROVE  GlobeInv'
<1> USE DEF GlobeInv
<1>1. GlobeTypeOK'
  BY DEF GlobeTypeOK
<1>2. RunsInOrder' /\ OneViewer' /\ PanelDrivesGlobe' /\ TickedIsDrawn'
  BY DEF RunsInOrder, OneViewer, PanelDrivesGlobe, TickedIsDrawn, Live
<1> QED BY <1>1, <1>2

LEMMA GlobeStep == GlobeInv /\ [Next]_vars => GlobeInv'
<1> SUFFICES ASSUME GlobeInv, [Next]_vars PROVE GlobeInv'
  OBVIOUS
<1>0. /\ selectedId \in Volcano \cup {None} /\ callout \in Volcano \cup {None}
      /\ gestures \in 0..MaxGestures
      /\ Gesture => gestures' \in 0..MaxGestures
  BY GlobeAssumption DEF GlobeInv, GlobeTypeOK, Gesture
<1>1. CASE RunEffect
  BY <1>1, RunEffectKeepsGlobe
<1>2. CASE CleanUp
  BY <1>2, CleanUpKeepsGlobe
<1>3. ASSUME NEW k \in Mount, CreateViewer(k) PROVE GlobeInv'
  BY <1>3, CreateViewerKeepsGlobe
<1>4. ASSUME NEW k \in Mount, FailImagery(k) PROVE GlobeInv'
  BY <1>4, EndKeepsGlobe DEF FailImagery
<1>5. ASSUME NEW k \in Mount, PlotVolcanoes(k) PROVE GlobeInv'
  BY <1>5, PlotVolcanoesKeepsGlobe
<1>6. ASSUME NEW k \in Mount, FailCatalogue(k) PROVE GlobeInv'
  BY <1>6, EndKeepsGlobe DEF FailCatalogue
<1>7. CASE Toggle
  BY <1>7, ToggleKeepsGlobe
<1>8. ASSUME NEW v \in Volcano \cup {None}, Click(v) PROVE GlobeInv'
  <2>1. callout' \in Volcano \cup {None} /\ selectedId' \in Volcano \cup {None}
    BY <1>0, <1>8 DEF Click
  <2> QED BY <1>0, <1>8, <2>1, SelectionKeepsGlobe DEF Click
<1>9. ASSUME NEW v \in Volcano, SelectResult(v) PROVE GlobeInv'
  BY <1>0, <1>9, SelectionKeepsGlobe DEF SelectResult, Focus
<1>10. CASE CloseCallout
  BY <1>0, <1>10, SelectionKeepsGlobe DEF CloseCallout
<1>11. CASE Render
  <2>1. callout' \in Volcano \cup {None}
    BY <1>0, <1>11 DEF Render
  <2> QED BY <1>0, <1>11, <2>1, SelectionKeepsGlobe DEF Render
<1>12. CASE UNCHANGED globeVars
  BY <1>0, <1>12, SelectionKeepsGlobe DEF globeVars
<1> QED
  BY <1>1, <1>2, <1>3, <1>4, <1>5, <1>6, <1>7, <1>8, <1>9, <1>10, <1>11, <1>12
  DEF Next, vars

\* However remounts fall between the waits of a task, at most one Viewer lives,
\* that of the current run (Globe.tsx, the cleanup and the checks of cancelled).
THEOREM OneViewerAtATime == Spec => []OneViewer
<1>1. GlobeInv => OneViewer
  BY DEF GlobeInv
<1> QED BY <1>1, GlobeStart, GlobeStep, PTL DEF Spec

\* The controls the panel holds are those of the current run once it is ready,
\* and their Viewer lives (Globe.tsx onReady, main.tsx controlsRef).
THEOREM PanelHoldsTheControls == Spec => []PanelDrivesGlobe
<1>1. GlobeInv => PanelDrivesGlobe
  BY DEF GlobeInv
<1> QED BY <1>1, GlobeStart, GlobeStep, PTL DEF Spec

\* A ticked box never stands beside a globe that draws no volcanoes (main.tsx
\* toggleVolcanoes, Globe.tsx setVolcanoesVisible), for any number of remounts.
THEOREM TickedLayerIsDrawn == Spec => []TickedIsDrawn
<1>1. GlobeInv => TickedIsDrawn
  BY DEF GlobeInv
<1> QED BY <1>1, GlobeStart, GlobeStep, PTL DEF Spec
==============================================================================
