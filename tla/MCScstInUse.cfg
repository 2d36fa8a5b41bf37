CONSTANTS
  n1 = n1
  n2 = n2
  Tgt <- Names
  Grp <- GroupNames
  Ini <- Initiators
  LunId <- LunIds
  Handler <- Handlers
  Dev <- Devices
  Backing <- Files
  Dg <- AluaGroups
  Left <- LeftOf
  NoFile = ""
  InitConfig <- OneTarget
  Node = {n1}
  Req = {r1, r2}
  Op <- Mutations
  Path <- OneNode
  Fault = {}
  MaxInFlight = 2
  MaxTorn = 0
SPECIFICATION Spec
PROPERTY DeviceInUseKept
SYMMETRY RequestSymmetry
CHECK_DEADLOCK FALSE
