\* Two litter boxes share the server.
SPECIFICATION BoxSpec
CONSTANTS
  m1 = m1
  m2 = m2
  Mac = {m1, m2}
  Rec = {r1, r2}
  Conn = {c1, c2}
  Hnd = {h1, h2, h3}
  None = None
  Grace = 1
  Dialect <- TwoBoxes
  Box = {m1}
  InFlight = 1
  Visit = {v1, v2}
SYMMETRY Identities
VIEW Live
INVARIANTS BoxInv CommandsStayHome EntriesAreArrivals ClockIsPushed
