SPECIFICATION FairSpec
CONSTANTS
  Tabs = {t1, t2}
  Edits = {e1, e2}
  Undos = {u1}
  Sides <- AllSides
  Live = Live
  Gone = Gone
  Nobody = Nobody
  t1 = t1
  e1 = e1
  e2 = e2
  u1 = u1
  MaxFaults = 1
CHECK_DEADLOCK FALSE
CONSTRAINT SmallQueue
INVARIANT TypeOK
INVARIANT NoOvertaking
PROPERTY EverySendSettles
