----------------------------- MODULE GlobeLayer -----------------------------
(***************************************************************************)
(* The globe of the map (frontend/src/globe/Globe.tsx) and the panel that  *)
(* drives it (frontend/src/main.tsx).                                      *)
(*                                                                         *)
(* The effect of the component starts an asynchronous task: it waits for   *)
(* the imagery, creates a Viewer, waits for the catalogue, plots it and    *)
(* hands the panel its controls.  The effect may be cleaned up and run     *)
(* again at any point (a remount), while the task of the run before is     *)
(* still waiting; refs survive, the locals of a task are its own.          *)
(***************************************************************************)
EXTENDS Naturals, FiniteSets

CONSTANTS
  Volcano,     \* the volcanoes of the catalogue
  None,        \* no volcano
  MaxMounts,   \* bound of the model: how often the effect runs
  MaxGestures  \* bound of the model: what the user does

ASSUME GlobeAssumption ==
  /\ None \notin Volcano
  /\ MaxMounts \in Nat \ {0} /\ MaxGestures \in Nat

VARIABLES
  mounts,     \* how often the effect ran; the last run is the current one
  mounted,    \* whether the current run has not been cleaned up
  task,       \* where the task of each run is
  viewer,     \* the Viewer of each run
  viewerRef,  \* the run whose Viewer the component remembers, 0 if none
  controls,   \* the run whose controls the panel holds, 0 if none
  shown,      \* the volcanoes each run's Viewer draws
  box,        \* the checkbox of the layer
  selectedId, \* selectedIdRef
  callout,    \* the volcano whose callout is open
  gestures

globeVars == <<mounts, mounted, task, viewer, viewerRef, controls, shown, box,
               selectedId, callout, gestures>>

Mount == 1..MaxMounts

Stage == {"waiting", "imagery", "catalogue", "ready", "ended"}

GlobeTypeOK ==
  /\ mounts \in 0..MaxMounts
  /\ mounted \in BOOLEAN
  /\ task \in [Mount -> Stage]
  /\ viewer \in [Mount -> {"none", "live", "destroyed"}]
  /\ viewerRef \in 0..mounts
  /\ controls \in {0} \cup {k \in Mount : task[k] = "ready"}
  /\ shown \in [Mount -> SUBSET Volcano]
  /\ box \in BOOLEAN
  /\ selectedId \in Volcano \cup {None}
  /\ callout \in Volcano \cup {None}
  /\ gestures \in 0..MaxGestures

GlobeInit ==
  /\ mounts = 0
  /\ mounted = FALSE
  /\ task = [k \in Mount |-> "waiting"]
  /\ viewer = [k \in Mount |-> "none"]
  /\ viewerRef = 0
  /\ controls = 0
  /\ shown = [k \in Mount |-> {}]
  /\ box = TRUE
  /\ selectedId = None
  /\ callout = None
  /\ gestures = 0

Live(k) == viewer[k] = "live"

Cancelled(k) == ~(mounted /\ k = mounts)

panel == <<box, selectedId, callout, gestures>>

----------------------------------------------------------------------------
(* The effect and its task.                                                *)

\* The effect runs; it starts a task unless a Viewer is still there.
RunEffect ==
  /\ ~mounted /\ mounts < MaxMounts
  /\ mounts' = mounts + 1
  /\ mounted' = TRUE
  /\ task' = [task EXCEPT ![mounts + 1] =
                IF viewerRef # 0 /\ Live(viewerRef) THEN "ended" ELSE "imagery"]
  /\ UNCHANGED <<viewer, viewerRef, controls, shown, panel>>

\* Fault: the cleanup only forgets the Viewer.
CleanUpForgetting ==
  /\ mounted
  /\ mounted' = FALSE
  /\ viewerRef' = 0
  /\ UNCHANGED <<mounts, task, viewer, controls, shown, panel>>

\* The cleanup cancels the task and destroys its Viewer.
CleanUp ==
  /\ mounted
  /\ mounted' = FALSE
  /\ viewer' = [viewer EXCEPT ![mounts] = IF @ = "live" THEN "destroyed" ELSE @]
  /\ viewerRef' = 0
  /\ UNCHANGED <<mounts, task, controls, shown, panel>>

End(k) == task' = [task EXCEPT ![k] = "ended"]

\* Fault: a task that was cancelled meanwhile goes on.
CreateAnyway(k) ==
  /\ task[k] = "imagery"
  /\ viewer' = [viewer EXCEPT ![k] = "live"]
  /\ viewerRef' = k
  /\ task' = [task EXCEPT ![k] = "catalogue"]
  /\ UNCHANGED <<mounts, mounted, controls, shown, panel>>

\* The imagery is there: the Viewer is created and the catalogue asked for,
\* unless the task was cancelled meanwhile or the context cannot hold a texture.
CreateViewer(k) ==
  /\ task[k] = "imagery"
  /\ \/ /\ ~Cancelled(k)
        /\ viewer' = [viewer EXCEPT ![k] = "live"]
        /\ viewerRef' = k
        /\ task' = [task EXCEPT ![k] = "catalogue"]
     \/ /\ ~Cancelled(k)
        /\ viewer' = [viewer EXCEPT ![k] = "destroyed"]
        /\ viewerRef' = 0
        /\ End(k)
     \/ /\ Cancelled(k)
        /\ End(k)
        /\ UNCHANGED <<viewer, viewerRef>>
  /\ UNCHANGED <<mounts, mounted, controls, shown, panel>>

\* No WebGL, or the imagery cannot be built: the error takes the globe's place.
FailImagery(k) ==
  /\ task[k] = "imagery"
  /\ End(k)
  /\ UNCHANGED <<mounts, mounted, viewer, viewerRef, controls, shown, panel>>

\* Fault: the catalogue is plotted wherever it arrives.
PlotAnyway(k) ==
  /\ task[k] = "catalogue"
  /\ shown' = [shown EXCEPT ![k] = Volcano]
  /\ controls' = k
  /\ task' = [task EXCEPT ![k] = "ready"]
  /\ UNCHANGED <<mounts, mounted, viewer, viewerRef, panel>>

\* Fault: a remounted globe takes its volcanoes to be plotted already.
PlotOnce(k) ==
  /\ task[k] = "catalogue"
  /\ IF Cancelled(k) \/ ~Live(k)
     THEN End(k) /\ UNCHANGED <<shown, controls>>
     ELSE /\ shown' = IF controls = 0 THEN [shown EXCEPT ![k] = Volcano] ELSE shown
          /\ controls' = k
          /\ task' = [task EXCEPT ![k] = "ready"]
  /\ UNCHANGED <<mounts, mounted, viewer, viewerRef, panel>>

\* The catalogue is there: it is plotted and the panel gets its controls.
PlotVolcanoes(k) ==
  /\ task[k] = "catalogue"
  /\ IF Cancelled(k) \/ ~Live(k)
     THEN End(k) /\ UNCHANGED <<shown, controls>>
     ELSE /\ shown' = [shown EXCEPT ![k] = Volcano]
          /\ controls' = k
          /\ task' = [task EXCEPT ![k] = "ready"]
  /\ UNCHANGED <<mounts, mounted, viewer, viewerRef, panel>>

\* Fault: the panel gets its controls all the same.
FailCatalogueWithControls(k) ==
  /\ task[k] = "catalogue"
  /\ End(k)
  /\ controls' = k
  /\ UNCHANGED <<mounts, mounted, viewer, viewerRef, shown, panel>>

\* The catalogue cannot be loaded: the globe stays, the panel says so.
FailCatalogue(k) ==
  /\ task[k] = "catalogue"
  /\ End(k)
  /\ UNCHANGED <<mounts, mounted, viewer, viewerRef, controls, shown, panel>>

----------------------------------------------------------------------------
(* The user.                                                               *)

Gesture == gestures < MaxGestures /\ gestures' = gestures + 1

\* Controls of a destroyed Viewer throw when they reach for it.
Reachable(k) == k # 0 /\ Live(k)

\* toggleVolcanoes: the box changes, and the layer if there are controls yet;
\* hiding the layer closes the callout.
Toggle ==
  /\ Gesture
  /\ box' = ~box
  /\ shown' = IF Reachable(controls)
              THEN [shown EXCEPT ![controls] = IF box' THEN Volcano ELSE {}]
              ELSE shown
  /\ IF Reachable(controls) /\ ~box'
     THEN selectedId' = None /\ callout' = None
     ELSE UNCHANGED <<selectedId, callout>>
  /\ UNCHANGED <<mounts, mounted, task, viewer, viewerRef, controls>>

\* A click on a volcano that is drawn selects it, one beside closes the callout.
Click(v) ==
  /\ Gesture
  /\ \E k \in Mount : Live(k) /\ task[k] = "ready" /\ (v = None \/ v \in shown[k])
  /\ selectedId' = v
  /\ callout' = IF v = None THEN None ELSE callout
  /\ UNCHANGED <<mounts, mounted, task, viewer, viewerRef, controls, shown, box>>

\* focusVolcano: a result of the search is selected, even through controls
\* whose Viewer is gone and in a layer that is hidden.
Focus(v) ==
  /\ Gesture
  /\ controls # 0
  /\ selectedId' = v
  /\ UNCHANGED <<mounts, mounted, task, viewer, viewerRef, controls, shown, box, callout>>

CloseCallout ==
  /\ Gesture
  /\ callout # None
  /\ selectedId' = None
  /\ callout' = None
  /\ UNCHANGED <<mounts, mounted, task, viewer, viewerRef, controls, shown, box>>

\* preRender: the callout follows the selection, or hides behind the globe.
Render ==
  /\ \E k \in Mount : Live(k) /\ task[k] = "ready"
  /\ selectedId # None
  /\ \E behind \in BOOLEAN : callout' = IF behind THEN None ELSE selectedId
  /\ UNCHANGED <<mounts, mounted, task, viewer, viewerRef, controls, shown, box,
                 selectedId, gestures>>

----------------------------------------------------------------------------
(* Properties.                                                             *)

\* However remounts fall between the waits of a task, there is never more than
\* one Viewer, that of the current run, and the component knows it: each holds a
\* WebGL context, and browsers run out of them ("Um Viewer por container,
\* sempre", Globe.tsx).
OneViewer == \A k \in Mount : Live(k) => viewerRef = k /\ mounted /\ k = mounts

\* Once the current run is ready the panel drives its globe, whatever a task of
\* an earlier run still does.
PanelDrivesGlobe ==
  mounted /\ task[mounts] = "ready" => controls = mounts /\ Live(mounts)

\* While its box is ticked the layer is drawn, through any remount ("Liga ou
\* desliga a camada de vulcoes", Globe.tsx).  The converse fails: a box that is
\* unticked before the globe has handed over its controls leaves the layer drawn.
TickedIsDrawn ==
  box => \A k \in Mount : Live(k) /\ task[k] = "ready" => shown[k] = Volcano
============================================================================
