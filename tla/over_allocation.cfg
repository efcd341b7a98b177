\* TRD.md:26.  A creation commits the HCM balance it read before an approval.
SPECIFICATION SerialSpec
CONSTANTS
  k1 = k1
  k2 = k2
  r1 = r1
  r2 = r2
  r3 = r3
  i1 = i1
  c1 = c1
  c2 = c2
  c3 = c3
  None = None
  Key = {k1}
  Request = {r1, r2, r3}
  KeyOf <- MCKeyOf
  DaysOf <- MCDaysOne
  IdemOf <- MCNoIdem
  InitialHcm <- MCHcmTwo
  Seeded = {k1}
  SetValues = {}
  SyncValues = {}
  Known = {k1}
  MaxBonus = 0
  Bonus = 1
  Call = {c1, c2, c3}
  Ops = {"create", "approve"}
  Faults = {}
  HcmRetries = 0
  MaxBookings = 1
  Tolerated = {}
SYMMETRY CallSymmetry
INVARIANTS
  NoOverAllocation
