CONSTANTS
  MaxKeys = 4
  Brace <- SecondKey
SPECIFICATION FairSpec
INVARIANT TypeOK
INVARIANT InputInOrder
INVARIANT ShellFollowsSocket
PROPERTY BufferedReachesShell
CHECK_DEADLOCK FALSE
