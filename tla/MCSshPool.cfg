CONSTANTS
  c1 = c1
  c2 = c2
  c3 = c3
  u1 = u1
  k1 = k1
  k2 = k2
  k3 = k3
  k4 = k4
  NoClient = NoClient
  Cmd <- PoolCmd
  Upload <- OneUpload
  Client <- ThreeClients
  MaxChannels = 2
  MaxRetries = 2
  MaxReloads = 1
SPECIFICATION Spec
INVARIANT TypeOK
INVARIANT SlotAccounting
INVARIANT NoLostWakeup
INVARIANT OneReconnectionChain
INVARIANT DestroyedHasNoConnection
INVARIANT NoStrandedQueue
INVARIANT NoOvertakenQueue
SYMMETRY PoolSymmetry
CHECK_DEADLOCK FALSE
