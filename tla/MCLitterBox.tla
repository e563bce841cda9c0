---------------------------- MODULE MCLitterBox ----------------------------
(***************************************************************************)
(* LitterBox for TLC: the frames of two boxes.                             *)
(***************************************************************************)
EXTENDS LitterBox, TLC

CONSTANTS m1, m2

\* A heartbeat with the body the decoder wants.
Heartbeat == [type |-> "ack", sub |-> "main", cmd |-> "heartbeat", full |-> TRUE]

Ping == [type |-> "ack", sub |-> "main", cmd |-> "ping", full |-> TRUE]

\* A frame of no subsystem or command a handler claims.
UnknownReport == [type |-> "report", sub |-> "main", cmd |-> "other", full |-> TRUE]

\* Two boxes; of the second, which may open with what nobody claims, only the
\* connections are followed.
TwoBoxes == (m1 :> {Heartbeat}) @@ (m2 :> {Ping, UnknownReport})

Identities == Permutations(Conn) \cup Permutations(Rec) \cup Permutations(Hnd)
              \cup Permutations(Visit)

\* What a handler still holds that nobody refers to any more makes no difference:
\* whoever takes its value for a new handler sets it all.
Live ==
  LET inUse == {h \in Hnd : ~FreshHandler(h)}
  IN  <<hubVars, open, sessRecord, sessHandler, recHandler, world, history,
        [h \in inUse |-> <<kind[h], target[h], decoded[h]>>],
        working \cap inUse, pushed \cap inUse>>

=============================================================================
