------------------------------- MODULE HcmClient -------------------------------
(* HcmClientService: the HTTP calls to the HCM, each attempted up to             *)
(* HcmRetries + 1 times.  axios-retry repeats an attempt that got no response,   *)
(* POST included, and a booking carries no idempotency key: an attempt whose     *)
(* reply is lost has booked, and the next one books again.                       *)
EXTENDS Service

CONSTANT HcmRetries   \* hcmRetryAttempts

ASSUME HcmRetriesAssumption == HcmRetries \in Nat

\* Mutant: the count starts again when it has reached the limit.
RetryForever(c) ==
  call' = [call EXCEPT ![c].tries = IF @ < HcmRetries THEN @ + 1 ELSE 0]

Retry(c) ==
  /\ call[c].tries < HcmRetries
  /\ call' = [call EXCEPT ![c].tries = @ + 1]

\* Mutant: HcmUnavailableError is swallowed, whatever the call was for.
GiveUpSilently(c) == ToTx(c, -1)

\* No attempt is left, or no time: axios-retry makes the attempts share one timeout.
\* handleError throws HcmUnavailableError.  createRequest goes on without the HCM's
\* balance; every other handler answers with an error.
GiveUp(c) == IF call[c].op = "create" THEN ToTx(c, -1) ELSE Answer(c)

NoReply(c) == Retry(c) \/ GiveUp(c)

\* An attempt that gets an answer ends the HCM call; one whose answer is lost
\* (a timeout, a broken connection) is an attempt that failed.
Replied(c, seen) ==
  \/ ToTx(c, seen)
  \/ "lostReply" \in Faults /\ NoReply(c)

\* An attempt that does not reach the HCM, or that it answers with a 5xx.
Unavailable(c) ==
  /\ "outage" \in Faults
  /\ call[c].pc = "hcm"
  /\ NoReply(c)
  /\ UNCHANGED <<hcmVars, dbVars>>

getBalance(c) ==
  /\ call[c].pc = "hcm" /\ call[c].op \in {"create", "refresh"}
  /\ ToTx(c, hcm[call[c].key])
  /\ UNCHANGED <<hcmVars, dbVars>>

deductBalance(c) ==
  /\ At(c, "approve", "hcm")
  /\ deduct(call[c].req)
  /\ Replied(c, -1)
  /\ UNCHANGED dbVars

\* 422: HcmInsufficientBalanceError, which approveRequest answers with a 409.
deductRefused(c) ==
  /\ At(c, "approve", "hcm")
  /\ Refuses(call[c].req)
  /\ Answer(c)
  /\ UNCHANGED <<hcmVars, dbVars>>

\* Mutant: the credit is skipped.
creditBalanceSkipped(c) ==
  /\ At(c, "cancelApproved", "hcm")
  /\ Replied(c, -1)
  /\ UNCHANGED <<hcmVars, dbVars>>

creditBalance(c) ==
  /\ At(c, "cancelApproved", "hcm")
  /\ credit(call[c].req)
  /\ Replied(c, -1)
  /\ UNCHANGED dbVars

HcmStep(c) ==
  \/ Unavailable(c)
  \/ getBalance(c)
  \/ deductBalance(c)
  \/ deductRefused(c)
  \/ creditBalance(c)
================================================================================
