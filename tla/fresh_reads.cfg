\* The serial discipline, an HCM whose balance is only raised, and creations that
\* commit it as it is: syncs of any balance, which a refresh is too, overwrite the
\* row; no day is promised twice.
SPECIFICATION FreshSpec
CONSTANTS
  k1 = k1
  k2 = k2
  r1 = r1
  r2 = r2
  r3 = r3
  i1 = i1
  c1 = c1
  c2 = c2
  c3 = c3
  None = None
  Key = {k1}
  Request = {r1, r2, r3}
  KeyOf <- MCKeyOf
  DaysOf <- MCDaysOneTwo
  IdemOf <- MCNoIdem
  InitialHcm <- MCHcmThree
  Seeded = {k1}
  SetValues = {3}
  SyncValues = {0, 1, 2, 3}
  Known = {k1}
  MaxBonus = 3
  Bonus = 1
  Call = {c1, c2, c3}
  Ops = {"create", "approve", "reject", "cancel", "complete", "setBalance", "anniversary", "sync"}
  Faults = {"outage"}
  HcmRetries = 0
  MaxBookings = 1
  Tolerated = {}
SYMMETRY CallSymmetry
CHECK_DEADLOCK FALSE
INVARIANTS
  NoOverAllocation
  HcmBooksApproved
