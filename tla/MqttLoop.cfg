\* The broker stays connected: the event loop alone keeps it up to date.
SPECIFICATION Spec
CONSTANTS
  Dev = {d1}
  Type = {"feeder", "unidentified"}
  Value = {v1}
  None = None
  QueueMax = 2
  MaxRestarts = 1
  MostPortions = 2
  MostCalls = 2
  MaxFaults = 0
  StartsUp = TRUE
INVARIANTS LoopInv TypeOK OnlineWhenQuiet OfflineWhenQuiet DiscoveredWhenQuiet MirroredWhenQuiet NumberWhenQuiet FeedsAsShown
