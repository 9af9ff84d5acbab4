SPECIFICATION Spec
CONSTANTS
  Ws = {w1}
  States = {s1, s2}
  Edits = {"edit"}
  Kinds = {"mutate", "record", "move", "free"}
  Legacy = TRUE
  ReuseAfterError = FALSE
  Damage = TRUE
  Limit = 2
  MaxId = 4
  MaxRev = 3
  Preview = "render_preview"
  NoIndex = NoIndex
  Damaged = Damaged
  NoSnap = NoSnap
  Torn = Torn
  w1 = w1
  w2 = w2
  s1 = s1
  s2 = s2
CONSTRAINT FewKindsLate
SYMMETRY StoreSymmetry
INVARIANT TypeOK
PROPERTY CursorHoldsSavedState
PROPERTY OneUndoRevertsEdit
