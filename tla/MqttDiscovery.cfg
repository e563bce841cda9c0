\* Does a device that came before the broker get its entities?
SPECIFICATION Spec
CONSTANTS
  Dev = {d1}
  Type = {"feeder"}
  Value = {v1, v2}
  None = None
  QueueMax = 2
  MaxRestarts = 0
  MostPortions = 2
  MostCalls = 0
  MaxFaults = 0
  StartsUp = FALSE
INVARIANTS DiscoveredWhenQuiet
