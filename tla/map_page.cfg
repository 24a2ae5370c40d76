SPECIFICATION Spec
CONSTANTS
  fuji = fuji
  etna = etna
  empty = empty
  v1 = v1
  v2 = v2
  None = None
  Nothing = Nothing
  Term = {fuji, etna}
  Short = {empty}
  Volcano = {v1, v2}
  Found <- MCFound
  MaxTyped = 3
  MaxMounts = 3
  MaxGestures = 2
INVARIANTS NothingStale OneViewer PanelDrivesGlobe TickedIsDrawn
PROPERTIES SearchEnds
CHECK_DEADLOCK FALSE
