SPECIFICATION FairSpec
CONSTANTS
  Servers = {p1}
  Commands <- WithReuse
  NoSeq = NoSeq
  NoCommand = NoCommand
  Unread = Unread
  Quiet = TRUE
  MaxExternal = 0
  MaxLost = 1
  MaxFaults = 2
  a = a
  b = b
  e1 = e1
  e2 = e2
  i1 = i1
  i2 = i2
  i3 = i3
  i4 = i4
  p1 = p1
INVARIANT RowsRan
PROPERTY EveryCommandSettles
