----------------------------- MODULE LeaveBalance -----------------------------
(* The leave_balances row and the updates BalanceRepository makes to it.      *)
(* A row is what the local shadow of the HCM keeps for one key (employee,     *)
(* location, leave type): the balance last learned from the HCM and the days  *)
(* reserved by open requests.  The id, the timestamps and the version column  *)
(* are left out: an update runs inside BEGIN IMMEDIATE .. COMMIT, so the row   *)
(* it names is the row that transaction has just read.                        *)
EXTENDS Integers, FiniteSets

CONSTANTS
  Key,       \* (employeeId, locationId, leaveType) triples
  Request,   \* the time-off requests that may ever be made
  KeyOf,     \* the balance each request draws on
  DaysOf,    \* the days each request asks for, in units of the smallest amount
  None       \* SQL NULL: no such row

ASSUME RequestAssumption ==
  /\ IsFiniteSet(Request)
  /\ KeyOf \in [Request -> Key]
  /\ DaysOf \in [Request -> Nat \ {0}]

Row == [hcm : Int, pending : Int]

ASSUME NoneAssumption == None \notin Row \cup Request \cup Key

availableDays(row) == row.hcm - row.pending

applyHcmRefreshAndIncrementPending(row, newHcmBalance, days) ==
  [hcm |-> newHcmBalance, pending |-> row.pending + days]

decrementPending(row, days) == [row EXCEPT !.pending = @ - days]

\* Mutant: approval releases the reservation and leaves hcm_balance alone.
applyApprovalKeepsHcm(row, days) == [row EXCEPT !.pending = @ - days]

applyApproval(row, days) ==
  [hcm |-> row.hcm - days, pending |-> row.pending - days]

applyCancellationOfApproved(row, days) == [row EXCEPT !.hcm = @ + days]

\* Mutant: the INSERT leaves pending_days out.
upsertHcmBalanceNull(row, newHcmBalance) ==
  [hcm     |-> newHcmBalance,
   pending |-> IF row = None THEN None ELSE row.pending]

upsertHcmBalance(row, newHcmBalance) ==
  [hcm     |-> newHcmBalance,
   pending |-> IF row = None THEN 0 ELSE row.pending]

(* The days of a set of requests: request r contributes DaysOf[r] pairs <<r, i>>.
   Counting pairs is a sum that needs no recursion.                              *)
DayPairs(r) == {r} \X (1 .. DaysOf[r])

sumDays(S) == Cardinality(UNION {DayPairs(r) : r \in S})

\* The PENDING requests of key k, given the status of every request.
PendingRequests(status, k) ==
  {r \in Request : KeyOf[r] = k /\ status[r] = "PENDING"}

sumPendingDays(status, k) == sumDays(PendingRequests(status, k))
===============================================================================
