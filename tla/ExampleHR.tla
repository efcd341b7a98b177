------------------------------- MODULE ExampleHR -------------------------------
(* ExampleHR and the HCM together: any number of calls to the time-off and       *)
(* balance endpoints in flight at once, pushes from the HCM, and the changes     *)
(* the HCM makes on its own.                                                     *)
EXTENDS TimeOff, BalanceSync

CONSTANT Tolerated   \* the decisions the serial discipline lets race with themselves

\* Only approveRequest reads the status again in its transaction.
ASSUME ToleratedAssumption == Tolerated \subseteq {"approve"}

Init == HcmInit /\ DbInit

(* What a call being served does next.                                         *)
Progress(c) == HcmStep(c) \/ TimeOffTx(c) \/ RefreshTx(c)

Arrive(c) ==
  \/ \E r \in Request : TimeOffStart(c, r)
  \/ \E k \in Key : refresh(c, k)

Fail(c) == Crash(c) \/ RetriesExhausted(c)

(* What the HCM does without being asked.                                      *)
HcmEvent ==
  /\ \/ "setBalance" \in Ops /\ \E k \in Key, v \in SetValues : setBalance(k, v)
     \/ "anniversary" \in Ops /\ \E k \in Key : applyAnniversary(k)
     \/ "reset" \in Ops /\ reset
  /\ UNCHANGED <<dbVars, call>>

Push == \E k \in Key, v \in SyncValues : SyncEntry(k, v)

Next ==
  \/ \E c \in Call : Arrive(c) \/ Progress(c) \/ Fail(c)
  \/ HcmEvent
  \/ Push

Spec == Init /\ [][Next]_vars

-------------------------------------------------------------------------------
(* The serial discipline: what the callers would have to observe for the code   *)
(* to keep its books.  No two decisions on one request are served at the same   *)
(* time, except repetitions of a decision in Tolerated, and no two creations    *)
(* with one idempotency key.  The code enforces neither.                        *)

Decides(c, r) == call[c].op \in Decisions /\ call[c].req = r

Exclusive ==
  \A c, d \in Call, r \in Request :
    c # d /\ Decides(c, r) /\ Decides(d, r) =>
      call[c].op = call[d].op /\ call[c].op \in Tolerated

Creates(c, r) == call[c].op = "create" /\ call[c].req = r

KeysUsedOnce ==
  \A c, d \in Call, q, r \in Request :
    c # d /\ Creates(c, q) /\ Creates(d, r) =>
      IdemOf[q] = None \/ IdemOf[q] # IdemOf[r]

SerialNext == Next /\ Exclusive' /\ KeysUsedOnce'

SerialSpec == Init /\ [][SerialNext]_vars

(* A creation commits while the HCM balance it read is still the HCM's balance: *)
(* nothing is booked or changed at the HCM in between.  Not enforced either.    *)
FreshReads ==
  \A c \in Call :
    At(c, "create", "tx") => call[c].seen = hcm[call[c].key]

FreshSpec == Init /\ [][SerialNext /\ FreshReads']_vars

(* Every call being served is resumed: the event loop runs each continuation,  *)
(* an HCM attempt ends by its timeout, and both retry loops are bounded.        *)
Fairness == \A c \in Call : WF_vars(Progress(c))

FairSpec == Spec /\ Fairness

-------------------------------------------------------------------------------
(* Invariants *)

TypeOK == HcmTypeOK /\ DbTypeOK

(* TRD section 4: the reserved days of a balance are the days of its PENDING    *)
(* requests, across creation, approval, rejection, cancellation and syncs that  *)
(* overwrite or insert the row.                                                 *)
PendingMatchesRequests ==
  \A k \in Key :
    balance[k] # None => balance[k].pending = sumPendingDays(status, k)

(* The audit log replays to the balance: the last entry of a key gives its row, *)
(* and a key without an entry still has the row it was seeded with.             *)
AuditReplaysBalance ==
  \A k \in Key :
    balance[k] = IF audit[k] # None THEN audit[k]
                 ELSE IF k \in Seeded
                 THEN [hcm |-> InitialHcm[k], pending |-> 0] ELSE None

(* approveRequest tells the HCM first: whatever races, fails or crashes, a      *)
(* request that is APPROVED or COMPLETED has been deducted by the HCM.          *)
ApprovedWasDeducted ==
  \A r \in Request : status[r] \in {"APPROVED", "COMPLETED"} => deducts[r] > 0

(* cancelRequest credits only what an approval has deducted: nobody is given    *)
(* days for a request the HCM never booked.                                     *)
CreditedWasDeducted ==
  \A r \in Request : credits[r] > 0 => deducts[r] > 0

Undecided(r) == \A c \in Call : ~Decides(c, r)

(* Challenge 4 of the TRD: between calls, the HCM has booked exactly the        *)
(* requests that are APPROVED or COMPLETED, each once.                          *)
HcmBooksApproved ==
  \A r \in Request : Undecided(r) =>
    deducts[r] - credits[r] =
      IF status[r] \in {"APPROVED", "COMPLETED"} THEN 1 ELSE 0

\* The PENDING requests of k that the HCM has not been told of.
Unbooked(k) == {r \in PendingRequests(status, k) : deducts[r] = 0}

(* Invariants the proofs rest on: ShapeInv holds of every behaviour, SerialInv of   *)
(* those under the serial discipline.                                            *)

\* A request in the table has a balance row: creation needs one, none is deleted.
RowsExist == \A r \in Request : status[r] # "NONE" => balance[KeyOf[r]] # None

\* A call knows what it is about, and a decision is about a request in the table.
CallShape ==
  \A c \in Call :
    /\ call[c].op \in Decisions =>
         /\ call[c].req \in Request
         /\ call[c].key = KeyOf[call[c].req]
         /\ status[call[c].req] # "NONE"
    /\ call[c].op = "create" =>
         call[c].req \in Request /\ call[c].key = KeyOf[call[c].req]
    /\ call[c].op = "refresh" => call[c].key \in Key

ShapeInv == TypeOK /\ RowsExist /\ CallShape

\* What a handler read before its transaction is still so when it commits.
StatusAsRead ==
  \A c \in Call, r \in Request : call[c].req = r =>
    /\ call[c].op \in {"reject", "cancelPending"} => status[r] = "PENDING"
    /\ call[c].op \in {"cancelApproved", "complete"} => status[r] = "APPROVED"
    /\ call[c].op = "create" => status[r] = "NONE" /\ ~Taken(r)

\* Two creations are about two requests.
CreatesDiffer ==
  \A c, d \in Call, r \in Request :
    c # d => ~(Creates(c, r) /\ Creates(d, r))

SerialInv ==
  /\ ShapeInv
  /\ StatusAsRead
  /\ CreatesDiffer
  /\ Exclusive
  /\ KeysUsedOnce

(* The system goal "it is impossible to over-allocate balance": the days         *)
(* promised to requests still PENDING are days the HCM has left.                *)
NoOverAllocation == \A k \in Key : sumDays(Unbooked(k)) <= hcm[k]

(* A second click on Approve must not deduct again: the deductions of a request *)
(* that nobody has cancelled are at most one.                                   *)
DeductedOnce == \A r \in Request : credits[r] = 0 => deducts[r] <= 1

-------------------------------------------------------------------------------
(* Action properties *)

\* available_days of k falls below zero, or further below it, in this step.
Overdraws(k) ==
  /\ balance[k] # None
  /\ balance'[k] # None
  /\ availableDays(balance'[k]) < 0
  /\ availableDays(balance'[k]) < availableDays(balance[k])

(* Only a balance learned from the HCM can overdraw the available days; no       *)
(* creation, approval or cancellation does, however stale what it has read.     *)
OnlySyncOverdraws ==
  [][\A k \in Key : Overdraws(k) =>
       Push \/ \E c \in Call : refreshCommitted(c)]_vars

\* The transitions of the status diagram.
Transition ==
  {<<"NONE", "PENDING">>, <<"PENDING", "APPROVED">>, <<"PENDING", "REJECTED">>,
   <<"PENDING", "CANCELLED">>, <<"APPROVED", "CANCELLED">>,
   <<"APPROVED", "COMPLETED">>}

(* A request moves along the status diagram: a decision once final stays.       *)
StatusMachine ==
  [][\A r \in Request : status'[r] # status[r] =>
       <<status[r], status'[r]>> \in Transition]_vars

-------------------------------------------------------------------------------
(* Refinement *)

\* A key without a row has nothing reserved.
Reserved == [k \in Key |-> IF balance[k] = None THEN 0 ELSE balance[k].pending]

Ledger == INSTANCE Reservations WITH reserved <- Reserved

(* Under the serial discipline the service is the ledger of Reservations: every *)
(* transaction is one step of one request, or changes neither its status nor    *)
(* the reserved days, and syncs and failed HCM calls leave no trace in them.    *)
KeepsLedger == Ledger!Spec

-------------------------------------------------------------------------------
(* Liveness *)

(* Every call is answered or lost in a crash, whatever the HCM does.            *)
EveryCallAnswered == \A c \in Call : call[c] # Idle ~> call[c] = Idle
================================================================================
