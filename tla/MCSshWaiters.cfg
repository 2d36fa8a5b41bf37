CONSTANTS
  c1 = c1
  c2 = c2
  c3 = c3
  u1 = u1
  k1 = k1
  k2 = k2
  k3 = k3
  k4 = k4
  NoClient = NoClient
  Cmd <- FewCmd
  Upload <- OneUpload
  Client <- TwoClients
  MaxChannels = 1
  MaxRetries = 1
  MaxReloads = 0
SPECIFICATION FairSpec
PROPERTY EveryCallSettles
CHECK_DEADLOCK FALSE
