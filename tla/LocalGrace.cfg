\* Is a device that keeps reconnecting given its whole grace period?
SPECIFICATION Spec
CONSTANTS
  m1 = m1
  m2 = m2
  Mac = {m1}
  Rec = {r1, r2, r3}
  Conn = {c1, c2}
  Hnd = {h1, h2, h3}
  None = None
  Grace = 2
  Dialect <- StatusOnly
PROPERTIES GraceHonoured
