SPECIFICATION Spec
CONSTANTS
  File = {f, g}
  Content = {x, y}
  Damaged = Damaged
  Binary = {b1, b2}
  San = {s1, s2}
  Job = {j1}
  Run = {r1, r2}
  Client = {c1, c2}
  None = None
  MaxBoth = 1
CONSTRAINT Bounded
SYMMETRY Symmetric
INVARIANTS
  TypeOK
  OneRunnerPerTarget
  StatusFollowsRun
  InstalledIsRegistered
  SuccessIsTrue
  StatusSumsUp
  EveryFileCatalogued
PROPERTIES
  CutTargetsStay
CHECK_DEADLOCK FALSE
