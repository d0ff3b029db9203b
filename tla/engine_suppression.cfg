SPECIFICATION FairSpec
CONSTANTS
  qpe = qpe
  origin = origin
  a1 = a1
  a2 = a2
  r1 = r1
  r2 = r2
  NoCheck = NoCheck
  NoAlarm = NoAlarm
  Check = {qpe, origin}
  DependsOn <- QpeOnOrigin
  Alarm = {a1}
  Step = {1}
  MaxAge = 1
  HoldDown <- HoldOrigin
  Receiver = {r1, r2}
  Scheduled = {r2}
  StepDelay <- OneStep
  Repeat = 0
  PromoteAfter = 1
  AtLeast = "info"
  Routed = {qpe}
  CleanWindow = 1
  SweepCadence = 0
  Outcome = {"ok", "fail"}
  MaxFaults = 0
  Acking = FALSE
  Silencing = FALSE
  Tiering = FALSE
INVARIANT SilentWhileBlamed
PROPERTY SuppressionClears
