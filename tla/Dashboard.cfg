\* One page, its old streams, and a hub that outruns them.
SPECIFICATION FairSpec
CONSTANTS
  Dev = {d1}
  Obj = {o1, o2}
  Value = {v1}
  Stream = {s1, s2}
  None = None
  QueueMax = 2
  WireMax = 1
INVARIANTS PageIsCurrent IInv
PROPERTIES GoneLeavesPage DeadStreamsEnd
