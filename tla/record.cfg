SPECIFICATION Spec
CONSTANTS
  Guests = {g1, g2}
  Host = Host
  Invite <- OneLink
  Conns = {c1, c2, c3}
  NoConn = NoConn
  Absent = Absent
  RecordedCap = 2
  MaxTakes = 2
  MaxLeaves = 1
  MaxRestarts = 1
  g1 = g1
  g2 = g2
CONSTRAINT SmallRoom
SYMMETRY RecordSymmetry
CHECK_DEADLOCK FALSE
INVARIANT HolderIsConnected
INVARIANT HostSeatKept
PROPERTY ConsentGovernsTakes
