SPECIFICATION Spec
CONSTANTS
  net = net
  origin = origin
  product = product
  Check = {net, origin, product}
  DependsOn <- Chain
  Exempt = {net}
  Control = {net}
  MayHang = {}
  GraceRounds = 1
  Breakable = {origin}
  MaxFaults = 0
PROPERTY DemoteSeesSettledUpstream
