SPECIFICATION Spec
CONSTANTS
  Servers = {p1, p2}
  Commands <- TwoEdits
  NoSeq = NoSeq
  NoCommand = NoCommand
  Unread = Unread
  Quiet = TRUE
  MaxExternal = 1
  MaxLost = 0
  MaxFaults = 2
  a = a
  b = b
  e1 = e1
  e2 = e2
  i1 = i1
  i2 = i2
  i3 = i3
  i4 = i4
  p1 = p1
  p2 = p2
SYMMETRY ServerSymmetry
INVARIANT TypeOK
INVARIANT AppliedOnce
INVARIANT NothingAppliedIsLost
INVARIANT JournalKeepsApplyOrder
INVARIANT RepliesHold
INVARIANT PublishedSeqKeepsCommand
PROPERTY ExactlyOnceLog
