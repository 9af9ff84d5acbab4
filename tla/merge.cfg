SPECIFICATION Spec
CONSTANTS
  Items = {a, b}
  Values = {v, w}
  Labels <- RunLabels
  Edits = {}
  Merging = "merging"
  Preview = "render_preview"
  Limit = 3
  MaxId = 4
  MaxRev = 5
  MaxWork = 1
  NoSnap = NoSnap
  a = a
  b = b
  v = v
  w = w
SYMMETRY MergeSymmetry
CONSTRAINT LateSaves
CHECK_DEADLOCK FALSE
INVARIANT FailureLeavesNoEntry
INVARIANT WalksAgree
PROPERTY BothSidesSurvive
PROPERTY BaseLineageKept
PROPERTY MergeIsUndoable
