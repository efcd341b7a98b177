---------------------------- MODULE MCLateBookings -----------------------------
(* LateBookings for TLC: two requests on one balance, the second of them the     *)
(* retry of the first under the same idempotency key.                           *)
EXTENDS LateBookings, TLC

CONSTANTS k1, r1, r2, i1, c1, c2

MCKeyOf == [r \in Request |-> k1]

MCDaysOne == [r \in Request |-> 1]

MCHcmTwo == [k \in Key |-> 2]

MCIdemRetry == [r \in Request |-> i1]

CallSymmetry == Permutations(Call)
================================================================================
