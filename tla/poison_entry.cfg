\* A batch whose first entry names an employee without a row: every batch fails there
\* and the balances after it are never reconciled.
SPECIFICATION FairSyncSpec
CONSTANTS
  k1 = k1
  k2 = k2
  r1 = r1
  r2 = r2
  c1 = c1
  c2 = c2
  s1 = s1
  s2 = s2
  None = None
  Key = {k1, k2}
  Request = {r1}
  KeyOf <- MCKeyOf
  DaysOf <- MCDaysTwo
  IdemOf <- MCNoIdem
  InitialHcm <- MCHcmOneTwo
  Seeded = {k1}
  SetValues = {}
  SyncValues = {0, 1, 2, 3, 4}
  Known = {k1}
  MaxBonus = 2
  Bonus = 1
  Call = {c1}
  Ops = {"sync", "anniversary"}
  Faults = {"crash", "locked"}
  HcmRetries = 0
  MaxBookings = 1
  Tolerated = {}
  Slot = {s1, s2}
  Corpus <- MCPoison
  SyncAttempts = 2
PROPERTIES
  Reconciled
