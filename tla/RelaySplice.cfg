\* A command that is injected between two chunks of one frame.
SPECIFICATION Spec
CONSTANTS
  Message <- Messages
  Command <- Commands
  Report <- Reports
  KnownCommands <- FeederCommands
  Noise <- Noises
  MostFrames = 2
  MostNoise = 1
  MostReports = 2
  MostCommands = 1
CHECK_DEADLOCK FALSE
INVARIANTS DeviceReadsFrames
