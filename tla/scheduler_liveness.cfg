SPECIFICATION FairSpec
CONSTANTS
  net = net
  origin = origin
  product = product
  Check = {origin, product}
  DependsOn <- Chain
  Exempt = {}
  Control = {}
  MayHang = {origin}
  GraceRounds = 1
  Breakable = {origin}
  MaxFaults = 1
INVARIANT CacheMatchesStore
PROPERTY EveryCheckKeepsRunning
PROPERTY CascadeSettles
PROPERTY RecoverySettles
