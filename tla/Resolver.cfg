\* Overlapping lookups of a cloud that moves.
SPECIFICATION Spec
CONSTANTS
  Task = {t1, t2, t3}
  Address = {a1, a2}
  Box = Box
  Host = Host
  None = None
  Ttl = 2
  Wait = 1
SYMMETRY Interchangeable
INVARIANTS AnswersAreRecent FailuresExpire IInv
