---------------------------- MODULE Availability ----------------------------
(***************************************************************************)
(* What the hub promises the dashboard and Home Assistant about a device:  *)
(* it comes online with a connection, it stays known for a while after its *)
(* last connection closed, and only from there is it reported gone.  A     *)
(* device that is online is never reported gone, and one that stays away   *)
(* is reported in the end.                                                 *)
(***************************************************************************)

CONSTANT Mac   \* the devices

VARIABLE avail \* what is promised about each device

TypeOK == avail \in [Mac -> {"absent", "online", "grace"}]

Init == avail = [m \in Mac |-> "absent"]

Connected(m) ==
  /\ avail[m] # "online"
  /\ avail' = [avail EXCEPT ![m] = "online"]

LastConnectionClosed(m) ==
  /\ avail[m] = "online"
  /\ avail' = [avail EXCEPT ![m] = "grace"]

ReportedGone(m) ==
  /\ avail[m] = "grace"
  /\ avail' = [avail EXCEPT ![m] = "absent"]

Next ==
  \E m \in Mac : Connected(m) \/ LastConnectionClosed(m) \/ ReportedGone(m)

Safety == Init /\ [][Next]_avail

Spec == Safety /\ \A m \in Mac : WF_avail(ReportedGone(m))

=============================================================================
