CONSTANTS
  s1 = s1
  s2 = s2
  i1 = i1
  p1 = p1
  p2 = p2
  None = None
  San <- TwoSans
  Ini <- OnBoth
  Poll <- TwoPolls
  Watched <- FirstSan
  Settings <- TwoSettings
  MinActive = 1
  TTL = 1
  Grace = 1
SPECIFICATION FairSpec
INVARIANT TypeOK
PROPERTY AlertIsDue
PROPERTY LostIsReported
PROPERTY BackIsCleared
