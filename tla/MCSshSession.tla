---------------------------- MODULE MCSshSession ----------------------------
(* Instances of SshSession for TLC.                                         *)
EXTENDS SshSession, TLC

CONSTANTS c1, c2, c3, u1, k1, k2, k3, k4

\* Three callers of exec() and one of uploadFile(), for two channels.
PoolCmd == {c1, c2, c3, u1}
OneUpload == {u1}
TwoClients == {k1, k2}
ThreeClients == {k1, k2, k3}
PoolSymmetry == Permutations({c1, c2, c3}) \cup Permutations(ThreeClients)

\* Two callers of exec() and one of uploadFile(), for the liveness properties.
FewCmd == {c1, c2, u1}
TwoCmd == {c1, u1}

\* reload() overlaps old Clients with new ones.
FourClients == {k1, k2, k3, k4}
ReloadSymmetry == Permutations({c1, c2}) \cup Permutations(FourClients)
=============================================================================
