\* Everything at once: any interleaving of two calls, any fault, stale pushes
\* and a retry of a creation under the same idempotency key.
SPECIFICATION LateSpec
CONSTANTS
  k1 = k1
  r1 = r1
  r2 = r2
  i1 = i1
  c1 = c1
  c2 = c2
  None = None
  Key = {k1}
  Request = {r1, r2}
  KeyOf <- MCKeyOf
  DaysOf <- MCDaysOne
  IdemOf <- MCIdemRetry
  InitialHcm <- MCHcmTwo
  Seeded = {k1}
  SetValues = {1}
  SyncValues = {0, 2}
  Known = {k1}
  MaxBonus = 0
  Bonus = 1
  Call = {c1, c2}
  Ops = {"create", "approve", "reject", "cancel", "complete", "refresh", "sync"}
  Faults = {"outage", "lostReply", "crash", "locked"}
  HcmRetries = 1
  MaxBookings = 1
  Tolerated = {}
  MaxLate = 1
SYMMETRY CallSymmetry
INVARIANTS
  LateTypeOK
  ApprovedWasDeducted
  CreditedWasDeducted
PROPERTIES
  OnlySyncOverdraws
