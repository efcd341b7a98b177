\* Weak fairness of every call being served; the HCM may be down for good
\* and calls may die.  The employee of k2 has no row.
SPECIFICATION FairSpec
CONSTANTS
  k1 = k1
  k2 = k2
  r1 = r1
  r2 = r2
  r3 = r3
  i1 = i1
  c1 = c1
  c2 = c2
  c3 = c3
  None = None
  Key = {k1, k2}
  Request = {r1, r2}
  KeyOf <- MCKeyOf
  DaysOf <- MCDaysOne
  IdemOf <- MCIdemRetry
  InitialHcm <- MCHcmFirst
  Seeded = {k1}
  SetValues = {}
  SyncValues = {0}
  Known = {k1}
  MaxBonus = 0
  Bonus = 1
  Call = {c1, c2}
  Ops = {"create", "approve", "reject", "cancel", "complete", "refresh", "sync", "reset"}
  Faults = {"crash", "outage", "lostReply", "locked"}
  HcmRetries = 1
  MaxBookings = 1
  Tolerated = {}
PROPERTIES
  EveryCallAnswered
