\* Is a connection that failed still counted?
SPECIFICATION Spec
CONSTANTS
  m1 = m1
  Mac = {m1}
  Rec = {r1, r2, r3}
  Conn = {c1, c2}
  Hnd = {h1}
  None = None
  Grace = 1
  Dialect <- StatusOnly
  CloudFrames <- CloudDialect
  MaxCount = 2
  MaxStalled = 1
  Raises = {"caught", "uncaught"}
INVARIANTS SessionsCounted
