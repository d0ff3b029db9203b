SPECIFICATION FairSpec
CONSTANTS
  qpe = qpe
  origin = origin
  a1 = a1
  a2 = a2
  r1 = r1
  r2 = r2
  NoCheck = NoCheck
  NoAlarm = NoAlarm
  Check = {qpe}
  DependsOn <- NoDependencies
  Alarm = {a1}
  Step = {1}
  MaxAge = 1
  HoldDown <- HoldNone
  Receiver = {r1}
  Scheduled = {}
  StepDelay <- OneStep
  Repeat = 0
  PromoteAfter = 1
  AtLeast = "info"
  Routed = {qpe}
  CleanWindow = 1
  SweepCadence = 0
  Outcome = {"ok", "fail"}
  MaxFaults = 1
  Acking = TRUE
  Silencing = FALSE
  Tiering = FALSE
INVARIANT NoPageUnderStandingAck
PROPERTY OutgrownAckLapses
