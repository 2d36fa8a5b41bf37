CONSTANTS
  i1 = i1
  i2 = i2
  n1 = n1
  n2 = n2
  b1 = b1
  b2 = b2
  s1 = s1
  Id = {i1, i2}
  Name = {n1, n2}
  Subject = {s1}
  Browser = {b1, b2}
  None = None
  MaxVersion = 2
SPECIFICATION Spec
INVARIANT AdminRemains
SYMMETRY BrowserSymmetry
CHECK_DEADLOCK FALSE
