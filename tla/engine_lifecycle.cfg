SPECIFICATION Spec
CONSTANTS
  qpe = qpe
  origin = origin
  a1 = a1
  a2 = a2
  r1 = r1
  r2 = r2
  NoCheck = NoCheck
  NoAlarm = NoAlarm
  Check = {qpe}
  DependsOn <- NoDependencies
  Alarm = {a1, a2}
  Step = {1}
  MaxAge = 2
  HoldDown <- HoldTwo
  Receiver = {r1}
  Scheduled = {}
  StepDelay <- OneStep
  Repeat = 0
  PromoteAfter = 2
  AtLeast = "info"
  Routed = {qpe}
  CleanWindow = 1
  SweepCadence = 0
  Outcome = {"ok", "held", "warn", "fail"}
  MaxFaults = 1
  Acking = FALSE
  Silencing = FALSE
  Tiering = FALSE
SYMMETRY AlarmSymmetry
INVARIANT TypeOK
INVARIANT OneOpenAlarm
INVARIANT HeldDown
PROPERTY ClosedOnRecovery
PROPERTY SeverityRatchet
PROPERTY ImplementsLifecycle
