SPECIFICATION Spec
CONSTANTS
  net = net
  origin = origin
  product = product
  Check = {net, origin, product}
  DependsOn <- Chain
  Exempt = {net}
  Control = {net}
  MayHang = {}
  GraceRounds = 2
  Breakable = {}
  MaxFaults = 0
INVARIANT TypeOK
INVARIANT SlotsAreRuns
PROPERTY RedIsNotCollateral
