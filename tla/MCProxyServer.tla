--------------------------- MODULE MCProxyServer ---------------------------
(***************************************************************************)
(* ProxyServer for TLC: what a feeder and its cloud say to each other.     *)
(***************************************************************************)
EXTENDS ProxyServer, TLC

CONSTANT m1

StatusReport == [type |-> "report", sub |-> "main", cmd |-> "status", full |-> TRUE]
VisitReport == [type |-> "report", sub |-> "feeder", cmd |-> "visit", full |-> TRUE]

\* The cloud's answer to a status report, and a push no handler knows.
StatusAck == [type |-> "ack", sub |-> "main", cmd |-> "status", full |-> TRUE]
UnknownPush == [type |-> "command", sub |-> "main", cmd |-> "other", full |-> TRUE]

FeederDialect == (m1 :> {StatusReport, VisitReport})
StatusOnly == (m1 :> {StatusReport})

CloudDialect == {StatusAck, UnknownPush}

\* Connections and records are interchangeable.
Identities == Permutations(Conn) \cup Permutations(Rec)

=============================================================================
