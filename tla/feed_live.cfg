SPECIFICATION FairSpec
CONSTANTS
  k1 = k1
  k2 = k2
  Sockets = {k1, k2}
  Kinds = {"delta"}
  Faults = {"command", "death", "publish", "baseline"}
  Capacity = 1
  Memory = 2
  Attempts = 2
  MaxSaves = 1
  MaxFaults = 1
  MaxDrops = 1
  Nobody = Nobody
  NoRow = NoRow
  NoFile = NoFile
  Off = Off
  Asked = Asked
INVARIANT LeasedSocketIsWatched
PROPERTY TabConverges
CHECK_DEADLOCK FALSE
