--------------------------- MODULE MCLocalServer ---------------------------
(***************************************************************************)
(* LocalServer for TLC: the firmware dialects of the devices and the       *)
(* symmetry of the identities.                                             *)
(***************************************************************************)
EXTENDS LocalServer, TLC

CONSTANTS m1, m2

\* Frames of the captures the tests are pinned to.
StatusReport == [type |-> "report", sub |-> "main", cmd |-> "status", full |-> TRUE]
TimeQuery == [type |-> "query", sub |-> "feeder", cmd |-> "time", full |-> TRUE]
VisitReport == [type |-> "report", sub |-> "feeder", cmd |-> "visit", full |-> TRUE]

\* One feeder that speaks the captured dialect.
FeederDialect == (m1 :> {StatusReport, TimeQuery, VisitReport})

\* The same, of one frame.
StatusOnly == (m1 :> {StatusReport})

Identities == Permutations(Conn) \cup Permutations(Rec) \cup Permutations(Hnd)

=============================================================================
