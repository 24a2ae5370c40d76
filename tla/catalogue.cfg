SPECIFICATION Spec
CONSTANTS
  p1 = p1
  p2 = p2
  Importer = {p1, p2}
  Snapshots <- Editions
  MaxReplaced = 2
  Limit = 1
  MaxPages = 3
SYMMETRY Symmetric
INVARIANTS OneRowPerVolcano LoneImportExact LoadedComplete
PROPERTIES IdentityKept
CHECK_DEADLOCK FALSE
