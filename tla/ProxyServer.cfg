\* Two connections of one feeder through the proxy, whatever its pumps raise.
SPECIFICATION FairSpec
CONSTANTS
  m1 = m1
  Mac = {m1}
  Rec = {r1}
  Conn = {c1, c2}
  Hnd = {h1, h2}
  None = None
  Grace = 1
  Dialect <- StatusOnly
  CloudFrames <- CloudDialect
  MaxCount = 1
  MaxStalled = 1
  Raises = {"caught", "uncaught"}
INVARIANTS IInv LossesAccounted
PROPERTIES StateSurvives HangUpPropagates PromiseKept
