SPECIFICATION Spec
CONSTANTS
  Check = {qpe}
  NoCheck = NoCheck
  MaxOpenings = 2
  Recipient = {anna, ben}
  t1 = t1
  t2 = t2
  p1 = p1
  p2 = p2
  Token = {t1, t2}
  Tap = {p1, p2}
  None = None
  MaxLost = 1
  Device = {phone}
  Infrastructure = {}
  Wish <- Wishes
  MaxRows = 2
  MaxRestarts = 1
  WsCheck = {qpe, dns}
  Client = {c1, c2}
  Status = {"pass", "fail"}
  Unheard = Unheard
  MaxPending = 2
  Focus = {"link", "push", "dashboard"}
SYMMETRY ContactSymmetry
INVARIANT LinkAcksOnce
INVARIANT OneLinkPerReader
INVARIANT OnePushPerOpening
INVARIANT NoMootPush
INVARIANT SilenceMutesPush
INVARIANT DashboardInSync
CHECK_DEADLOCK FALSE
