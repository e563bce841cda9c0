\* The broker comes and goes, and paho's thread writes next to the loop's.
SPECIFICATION FairSpec
CONSTANTS
  Dev = {d1}
  Type = {"feeder"}
  Value = {}
  None = None
  QueueMax = 2
  MaxRestarts = 1
  MostPortions = 2
  MostCalls = 0
  MaxFaults = 1
  StartsUp = FALSE
INVARIANTS IInv OnlineWhenQuiet
PROPERTIES BackOnline
