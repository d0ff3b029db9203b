SPECIFICATION Spec
CONSTANTS
  r1 = r1
  r2 = r2
  DayLen = 2
  DaysPerMonth = 3
  LastMoment = 5
  Stray = 99
  Retained = 2
  MaxVolumes = 2
  Radar = {r1, r2}
  Family = {"xband", "backend"}
  FLEET_SYSTEMIC_ENTER = 2
  FLEET_SYSTEMIC_EXIT = 0
  FLEET_MIN_DWELL = 10
  HoldDownMinutes = 5
  Observation <- Observed
  Limits <- Thresholds
  MaxRows <- RowsOf
  Job = {r1, r2}
  MaxSaves = 1
  MaxRestarts = 1
  Seam = 2
  LastStep = 5
  MaxReplays = 2
  Times = {1, 2, 3}
  MaxEntries = 3
  Reader = {r1, r2}
  Lines = 2
  COMPOSITE_RECEIPT_SETTLE = 2
  MaxWrite = 1
  MaxGap = 1
  Rest = 3
  LogsAtStart = {0, 2}
  MaxLogs = 3
  MaxWrites = 2
  MaxRow = 3
  CHUNK = 1
  Steady = TRUE
  MaxStops = 2
  h1 = h1
  h2 = h2
  Path = {1, 2}
  Sha = {h1, h2}
  Saver = {r1, r2}
  Nothing = Nothing
  Keep = 1
  MaxDay = 3
  Viewer = {r1, r2}
  _TILT_FRAMES = 2
  MaxCapture = 3
  _IMAGE_CACHE_MAX = 1
  Tolerance = 1
  MaxSaving = 1
  HoursPerDay = 2
  Zone = {0, 1}
  MaxHour = 4
  MaxVersion = 2
  MaxUpsets = 1
  MaxSteps = 3
  Slice = 1
  n_buckets = 2
  Recorded <- TwoTiers
  Focus = {"frames"}
INVARIANT TiltKeyNamesItsFrame
CHECK_DEADLOCK FALSE
