SPECIFICATION Spec
CONSTANTS
  k1 = k1
  k2 = k2
  Sockets = {k1}
  Kinds = {"delta", "whole"}
  Faults = {"command", "silence", "death", "publish", "baseline", "lease", "request"}
  Capacity = 1
  Memory = 2
  Attempts = 2
  MaxSaves = 2
  MaxFaults = 1
  MaxDrops = 1
  Nobody = Nobody
  NoRow = NoRow
  NoFile = NoFile
  Off = Off
  Asked = Asked
CONSTRAINT FewTroubles
INVARIANT ClaimsWhatItShows
INVARIANT QuietTabIsCurrent
INVARIANT SeenSeqsComeBack
CHECK_DEADLOCK FALSE
