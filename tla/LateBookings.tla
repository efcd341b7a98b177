------------------------------ MODULE LateBookings -----------------------------
(* ExampleHR with an HCM that may book after the client has stopped waiting.  An  *)
(* attempt at a deduction or a credit that times out (5 s) is not taken back: the *)
(* HCM makes the booking when it gets to it, after the retry, after the manager's *)
(* next click or after the request has been decided otherwise.                   *)
EXTENDS ExampleHR

CONSTANT MaxLate   \* bound: late deductions and credits of one request

ASSUME LateAssumption == MaxLate \in Nat

VARIABLE underway   \* for each request, the bookings the HCM may still make

lateVars == <<vars, underway>>

LateTypeOK ==
  TypeOK /\ underway \in [Request -> [deduct : Nat, credit : Nat]]

LateInit ==
  Init /\ underway = [r \in Request |-> [deduct |-> 0, credit |-> 0]]

\* An attempt that times out before the HCM has booked it.
deductTimedOut(c) ==
  LET r == call[c].req
  IN /\ "lostReply" \in Faults
     /\ At(c, "approve", "hcm")
     /\ underway[r].deduct < MaxLate
     /\ underway' = [underway EXCEPT ![r].deduct = @ + 1]
     /\ NoReply(c)
     /\ UNCHANGED <<hcmVars, dbVars>>

creditTimedOut(c) ==
  LET r == call[c].req
  IN /\ "lostReply" \in Faults
     /\ At(c, "cancelApproved", "hcm")
     /\ underway[r].credit < MaxLate
     /\ underway' = [underway EXCEPT ![r].credit = @ + 1]
     /\ NoReply(c)
     /\ UNCHANGED <<hcmVars, dbVars>>

\* The HCM gets to it: it books, or refuses with a 422 that nobody reads.
lateDeduct(r) ==
  /\ underway[r].deduct > 0
  /\ underway' = [underway EXCEPT ![r].deduct = @ - 1]
  /\ deduct(r) \/ (Refuses(r) /\ UNCHANGED hcmVars)
  /\ UNCHANGED <<dbVars, call>>

lateCredit(r) ==
  /\ underway[r].credit > 0
  /\ underway' = [underway EXCEPT ![r].credit = @ - 1]
  /\ credit(r)
  /\ UNCHANGED <<dbVars, call>>

LateStep ==
  \/ \E c \in Call : deductTimedOut(c) \/ creditTimedOut(c)
  \/ \E r \in Request : lateDeduct(r) \/ lateCredit(r)

LateNext == LateStep \/ (Next /\ UNCHANGED underway)

LateSpec == LateInit /\ [][LateNext]_lateVars
================================================================================
