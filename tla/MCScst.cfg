CONSTANTS
  n1 = n1
  n2 = n2
  Tgt <- Names
  Grp <- GroupNames
  Ini <- Initiators
  LunId <- LunIds
  Handler <- Handlers
  Dev <- Devices
  Backing <- Files
  Dg <- AluaGroups
  Left <- LeftOf
  NoFile = ""
  InitConfig <- OneTarget
  Node = {n1, n2}
  Req = {r1, r2}
  Op <- Everything
  Path <- NodeOrCluster
  Fault = {"down", "readonly", "unread", "refused", "lost", "cut", "full", "noreload"}
  MaxInFlight = 2
  MaxTorn = 1
SPECIFICATION Spec
INVARIANT TypeOK
INVARIANT ConfigIntegrity
INVARIANT ReplyIsHonest
INVARIANT ClusterAgreement
PROPERTY AtomicMutation
SYMMETRY RequestSymmetry
VIEW View
CHECK_DEADLOCK FALSE
