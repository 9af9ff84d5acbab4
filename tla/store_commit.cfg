SPECIFICATION Spec
CONSTANTS
  Ws = {w1, w2}
  States = {s1, s2}
  Edits = {"edit"}
  Kinds = {"mutate", "move"}
  Legacy = FALSE
  ReuseAfterError = FALSE
  Damage = FALSE
  Limit = 2
  MaxId = 3
  MaxRev = 4
  Preview = "render_preview"
  NoIndex = NoIndex
  Damaged = Damaged
  NoSnap = NoSnap
  Torn = Torn
  w1 = w1
  w2 = w2
  s1 = s1
  s2 = s2
SYMMETRY StoreSymmetry
INVARIANT NoDanglingEntry
INVARIANT FailureLeavesNothing
PROPERTY CommitBuildsOnSaved
