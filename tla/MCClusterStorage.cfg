CONSTANTS
  Nodes = {n1, n2}
  Req = {r1, r2}
  NoNode = NoNode
  Ops <- AllOps
  Sections = {"users", "lvs"}
  MaxEvents = 1
SPECIFICATION Spec
SYMMETRY Symmetry
INVARIANTS TypeOK ReplyIsHonest Recoverable
PROPERTIES KnownUseSurvives ImplementsConfirmedChange
CHECK_DEADLOCK FALSE
