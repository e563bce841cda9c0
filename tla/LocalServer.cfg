\* One feeder and its overlapping connections, with the fairness of the event loop.
SPECIFICATION FairSpec
CONSTANTS
  m1 = m1
  m2 = m2
  Mac = {m1}
  Rec = {r1, r2}
  Conn = {c1, c2}
  Hnd = {h1, h2}
  None = None
  Grace = 2
  Dialect <- FeederDialect
INVARIANTS SessionsCounted ConnectedIsKnown ExpiryArmed OneHandlerPerDevice IInv
PROPERTIES StateSurvives PromiseKept
