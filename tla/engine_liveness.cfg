SPECIFICATION FairSpec
CONSTANTS
  qpe = qpe
  origin = origin
  a1 = a1
  a2 = a2
  r1 = r1
  r2 = r2
  NoCheck = NoCheck
  NoAlarm = NoAlarm
  Check = {qpe}
  DependsOn <- NoDependencies
  Alarm = {a1}
  Step = {1, 2}
  MaxAge = 2
  HoldDown <- HoldOne
  Receiver = {r1, r2}
  Scheduled = {r2}
  StepDelay <- StepPerUnit
  Repeat = 0
  PromoteAfter = 2
  AtLeast = "info"
  Routed = {qpe}
  CleanWindow = 1
  SweepCadence = 0
  Outcome = {"ok", "fail"}
  MaxFaults = 0
  Acking = FALSE
  Silencing = TRUE
  Tiering = TRUE
INVARIANT NoDuplicatePage
INVARIANT StepsInOrder
PROPERTY FailureOpensAlarm
PROPERTY FirstStepGoesOut
