\* The serial discipline, approvals allowed to race with themselves.  The row does
\* not exist until a push or a refresh inserts it; two keys.
SPECIFICATION SerialSpec
CONSTANTS
  k1 = k1
  k2 = k2
  r1 = r1
  r2 = r2
  r3 = r3
  i1 = i1
  c1 = c1
  c2 = c2
  c3 = c3
  None = None
  Key = {k1, k2}
  Request = {r1, r2, r3}
  KeyOf <- MCKeyOfTwo
  DaysOf <- MCDaysOneTwo
  IdemOf <- MCIdemRetry
  InitialHcm <- MCHcmThree
  Seeded = {}
  SetValues = {}
  SyncValues = {2}
  Known = {k1, k2}
  MaxBonus = 0
  Bonus = 1
  Call = {c1, c2}
  Ops = {"create", "approve", "reject", "cancel", "complete", "refresh", "sync"}
  Faults = {"outage", "lostReply", "crash", "locked"}
  HcmRetries = 0
  MaxBookings = 1
  Tolerated = {"approve"}
SYMMETRY CallSymmetry
INVARIANTS
  TypeOK
  PendingMatchesRequests
  AuditReplaysBalance
PROPERTIES
  StatusMachine
  KeepsLedger
