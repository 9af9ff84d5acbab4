SPECIFICATION Spec
CONSTANTS
  MaxBeds = 2
  Parts <- OneThenTwo
  Host = Host
  Nothing = Nothing
  Other = Other
  NoRow = NoRow
  MaxFaults = 1
  MaxUndo = 1
INVARIANT AckMeansBytes
INVARIANT LandedBedIsHeard
INVARIANT StaleBedTakenBack
INVARIANT AnsweredAckSettled
CONSTRAINT SmallBeds
