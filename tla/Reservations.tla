------------------------------ MODULE Reservations ------------------------------
(* What the time-off service promises of reservations, with no calls, no HCM and  *)
(* no database: every request moves through its life in single steps, and the     *)
(* days it reserves are taken once, when it is made, and given back once, when it  *)
(* stops being PENDING.  An idempotency key makes at most one request.            *)
EXTENDS LeaveBalance

CONSTANT IdemOf   \* the idempotency key of each request, None if none

VARIABLES
  status,    \* the status of each request, "NONE" before it is made
  reserved   \* the days reserved on each balance

Init ==
  /\ status = [r \in Request |-> "NONE"]
  /\ reserved = [k \in Key |-> 0]

Move(r, from, to) ==
  /\ status[r] = from
  /\ status' = [status EXCEPT ![r] = to]

Fresh(r) ==
  \A q \in Request : status[q] # "NONE" /\ IdemOf[r] # None => IdemOf[q] # IdemOf[r]

Create(r) ==
  /\ Fresh(r)
  /\ Move(r, "NONE", "PENDING")
  /\ reserved' = [reserved EXCEPT ![KeyOf[r]] = @ + DaysOf[r]]

\* A manager or the employee closes a PENDING request.
Decide(r) ==
  /\ \E to \in {"APPROVED", "REJECTED", "CANCELLED"} : Move(r, "PENDING", to)
  /\ reserved' = [reserved EXCEPT ![KeyOf[r]] = @ - DaysOf[r]]

\* An approved request is taken, or given back to the HCM.
Settle(r) ==
  /\ \E to \in {"COMPLETED", "CANCELLED"} : Move(r, "APPROVED", to)
  /\ UNCHANGED reserved

Next == \E r \in Request : Create(r) \/ Decide(r) \/ Settle(r)

Spec == Init /\ [][Next]_<<status, reserved>>
=================================================================================
