-------------------------------- MODULE TimeOff --------------------------------
(* TimeOffService: the life of a time-off request.  Each handler begins with a  *)
(* read outside any transaction that decides whether the call is legal, and     *)
(* ends with the transaction that changes the request, the balance row and the  *)
(* audit log.  A call the first read turns away changes nothing and is no step. *)
EXTENDS HcmClient

CONSTANTS
  IdemOf,       \* the idempotency key each request is made with, None if none
  MaxBookings   \* bound: approvals and cancellations of one request the HCM hears of

ASSUME TimeOffAssumption ==
  /\ DOMAIN IdemOf = Request
  /\ MaxBookings \in Nat

\* The UNIQUE column idempotency_key holds the key r is made with.
Taken(r) ==
  /\ IdemOf[r] # None
  /\ \E q \in Request : status[q] # "NONE" /\ IdemOf[q] = IdemOf[r]

(* createRequest.  A key already taken returns the cached request at once.  The *)
(* id of the row is a fresh uuid: no two calls make the same request.           *)
createRequest(c, r) ==
  /\ "create" \in Ops
  /\ status[r] = "NONE"
  /\ ~ \E d \in Call : call[d].op = "create" /\ call[d].req = r
  /\ ~Taken(r)
  /\ Begin(c, "create", r, KeyOf[r], "hcm")
  /\ UNCHANGED <<hcmVars, dbVars>>

effectiveHcm(row, seen) == IF seen >= 0 THEN seen ELSE row.hcm

\* Mutant: the authoritative check is dropped.
SufficientLocally(row, seen, days) == availableDays(row) >= days

\* Mutant: the checks compare with the balance and forget the reservations.
SufficientUnreserved(row, seen, days) ==
  row.hcm >= days /\ effectiveHcm(row, seen) >= days

\* The local check, then the check against the HCM's balance.
Sufficient(row, seen, days) ==
  /\ availableDays(row) >= days
  /\ effectiveHcm(row, seen) - row.pending >= days

\* What the transaction finds: a row that covers the days asked for, or a 404 or
\* 409.
Covered(c) ==
  LET row == balance[call[c].key]
  IN row # None /\ Sufficient(row, call[c].seen, DaysOf[call[c].req])

createRefused(c) ==
  /\ At(c, "create", "tx")
  /\ ~Covered(c)
  /\ Answer(c)
  /\ UNCHANGED <<hcmVars, dbVars>>

\* The transaction up to the INSERT: the checks pass, and the row takes the HCM's
\* balance and the reservation.
Reserve(c) ==
  /\ At(c, "create", "tx")
  /\ Covered(c)
  /\ balance' = [balance EXCEPT ![call[c].key] =
       applyHcmRefreshAndIncrementPending(
         @, effectiveHcm(@, call[c].seen), DaysOf[call[c].req])]
  /\ Answer(c)

createReserved(c) ==
  LET r == call[c].req
      row == balance[call[c].key]
  IN /\ Reserve(c)
     /\ ~Taken(r)
     /\ status' = [status EXCEPT ![r] = "PENDING"]
     /\ audit' = [audit EXCEPT ![call[c].key] =
          [hcm     |-> effectiveHcm(row, call[c].seen),
           pending |-> row.pending + DaysOf[r]]]
     /\ UNCHANGED hcmVars

\* The INSERT meets the UNIQUE constraint.  The handler returns the cached
\* request from inside the transaction, which commits the reservation.
createDuplicate(c) ==
  /\ Reserve(c)
  /\ Taken(call[c].req)
  /\ UNCHANGED <<hcmVars, status, audit>>

\* Mutant: the status is not looked at.
StillPendingUnchecked(r) == TRUE

\* The re-read inside approveRequest's transaction.
StillPending(r) == status[r] = "PENDING"

approveRequest(c, r) ==
  /\ "approve" \in Ops
  /\ status[r] = "PENDING"
  /\ deducts[r] < MaxBookings
  /\ Begin(c, "approve", r, KeyOf[r], "hcm")
  /\ UNCHANGED <<hcmVars, dbVars>>

approveRecorded(c) ==
  LET r == call[c].req
      k == call[c].key
  IN /\ At(c, "approve", "tx")
     /\ StillPending(r)
     /\ Commit(k, applyApproval(balance[k], DaysOf[r]),
                  [hcm     |-> balance[k].hcm - DaysOf[r],
                   pending |-> balance[k].pending - DaysOf[r]])
     /\ status' = [status EXCEPT ![r] = "APPROVED"]
     /\ Answer(c)
     /\ UNCHANGED hcmVars

\* Somebody decided in the meantime: a warning, and the request as it is now.
approveStale(c) ==
  /\ At(c, "approve", "tx")
  /\ ~StillPending(call[c].req)
  /\ Answer(c)
  /\ UNCHANGED <<hcmVars, dbVars>>

rejectRequest(c, r) ==
  /\ "reject" \in Ops
  /\ status[r] = "PENDING"
  /\ Begin(c, "reject", r, KeyOf[r], "tx")
  /\ UNCHANGED <<hcmVars, dbVars>>

\* The transaction that gives a reservation back, which both rejectRequest and
\* the PENDING branch of cancelRequest have.  It does not look at the status.
Release(c, newStatus) ==
  LET r == call[c].req
      k == call[c].key
  IN /\ Commit(k, decrementPending(balance[k], DaysOf[r]),
                  [hcm     |-> balance[k].hcm,
                   pending |-> balance[k].pending - DaysOf[r]])
     /\ status' = [status EXCEPT ![r] = newStatus]
     /\ Answer(c)
     /\ UNCHANGED hcmVars

rejectCommitted(c) == At(c, "reject", "tx") /\ Release(c, "REJECTED")

cancelPendingCommitted(c) ==
  At(c, "cancelPending", "tx") /\ Release(c, "CANCELLED")

\* Mutant: a PENDING request goes through the branch of the approved ones.
cancelRequestAlwaysCredits(c, r) ==
  /\ "cancel" \in Ops
  /\ status[r] \in {"PENDING", "APPROVED"}
  /\ credits[r] < MaxBookings
  /\ Begin(c, "cancelApproved", r, KeyOf[r], "hcm")
  /\ UNCHANGED <<hcmVars, dbVars>>

\* The branch is chosen by the status read at the start.
cancelRequest(c, r) ==
  /\ "cancel" \in Ops
  /\ \/ /\ status[r] = "PENDING"
        /\ Begin(c, "cancelPending", r, KeyOf[r], "tx")
     \/ /\ status[r] = "APPROVED"
        /\ credits[r] < MaxBookings
        /\ Begin(c, "cancelApproved", r, KeyOf[r], "hcm")
  /\ UNCHANGED <<hcmVars, dbVars>>

cancelApprovedCommitted(c) ==
  LET r == call[c].req
      k == call[c].key
  IN /\ At(c, "cancelApproved", "tx")
     /\ Commit(k, applyCancellationOfApproved(balance[k], DaysOf[r]),
                  [hcm     |-> balance[k].hcm + DaysOf[r],
                   pending |-> balance[k].pending])
     /\ status' = [status EXCEPT ![r] = "CANCELLED"]
     /\ Answer(c)
     /\ UNCHANGED hcmVars

\* Mutant: only PENDING requests are turned away.
CompletableUnlessPending(r) == status[r] \notin {"NONE", "PENDING"}

Completable(r) == status[r] = "APPROVED"

completeRequest(c, r) ==
  /\ "complete" \in Ops
  /\ Completable(r)
  /\ Begin(c, "complete", r, KeyOf[r], "tx")
  /\ UNCHANGED <<hcmVars, dbVars>>

\* An UPDATE by id outside any transaction, with no condition on the status.
completeCommitted(c) ==
  /\ At(c, "complete", "tx")
  /\ status' = [status EXCEPT ![call[c].req] = "COMPLETED"]
  /\ Answer(c)
  /\ UNCHANGED <<hcmVars, balance, audit>>

TimeOffStart(c, r) ==
  \/ createRequest(c, r)
  \/ approveRequest(c, r)
  \/ rejectRequest(c, r)
  \/ cancelRequest(c, r)
  \/ completeRequest(c, r)

TimeOffTx(c) ==
  \/ createRefused(c)
  \/ createReserved(c)
  \/ createDuplicate(c)
  \/ approveRecorded(c)
  \/ approveStale(c)
  \/ rejectCommitted(c)
  \/ cancelPendingCommitted(c)
  \/ cancelApprovedCommitted(c)
  \/ completeCommitted(c)
================================================================================
