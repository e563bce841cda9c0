\* Two frames of the cloud and noise between them, cut into chunks in every way;
\* the device is identified and a command injected at any moment.
SPECIFICATION Spec
CONSTANTS
  Message <- Messages
  Command <- Commands
  Report <- Reports
  KnownCommands <- FeederCommands
  Noise <- Noises
  MostFrames = 2
  MostNoise = 1
  MostReports = 2
  MostCommands = 1
CHECK_DEADLOCK FALSE
INVARIANTS IInv ChunkingInvisible FramesInOrder SharedStreamReadable CaptureIsComplete
