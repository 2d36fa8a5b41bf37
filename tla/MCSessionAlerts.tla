--------------------------- MODULE MCSessionAlerts ---------------------------
(* Two requests at a time: two polls of the first SAN, or one of them and a   *)
(* page that shows the second SAN. The same initiator is configured on both,  *)
(* and has its sessions on each of them or not.                              *)
EXTENDS SessionAlerts

CONSTANTS s1, s2, i1, p1, p2

TwoSans == {s1, s2}
FirstSan == {s1}
OnBoth == [s \in TwoSans |-> {i1}]
TwoPolls == {p1, p2}
Setting(policy, grace) == [on |-> TRUE, policy |-> policy, grace |-> grace]
TwoSettings == {Setting("strict", Grace), Setting("multipath", 0)}
=============================================================================
