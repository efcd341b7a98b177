------------------------------ MODULE BalanceSync ------------------------------
(* The two ways hcm_balance is overwritten without a request: BalanceService,    *)
(* which an employee asks to refresh one balance from the HCM, and               *)
(* HcmSyncService, which takes the balances the HCM pushes.                      *)
EXTENDS HcmClient

CONSTANTS
  SyncValues,   \* the balances a pushed entry may carry
  Known         \* the keys whose employee and location ExampleHR has rows for

ASSUME SyncAssumption ==
  /\ SyncValues \subseteq Nat
  /\ Known \subseteq Key

\* The INSERT of a row needs the employee and the location, which nothing here adds.
\* The UPDATE of a row that exists does not.
Storable(k) == k \in Known \/ balance[k] # None

refresh(c, k) ==
  /\ "refresh" \in Ops
  /\ Begin(c, "refresh", None, k, "hcm")
  /\ UNCHANGED <<hcmVars, dbVars>>

refreshCommitted(c) ==
  LET k == call[c].key
      row == upsertHcmBalance(balance[k], call[c].seen)
  IN /\ At(c, "refresh", "tx")
     /\ Storable(k)
     /\ Commit(k, row, row)
     /\ Answer(c)
     /\ UNCHANGED <<hcmVars, status>>

\* FOREIGN KEY constraint failed: rolled back, not retried and answered with a 500.
refreshRefused(c) ==
  /\ At(c, "refresh", "tx")
  /\ ~Storable(call[c].key)
  /\ Answer(c)
  /\ UNCHANGED <<hcmVars, dbVars>>

RefreshTx(c) == refreshCommitted(c) \/ refreshRefused(c)

\* Mutant: a push replaces the row and its reservations.
SyncEntryResets(k, availableBalance) ==
  LET row == [hcm |-> availableBalance, pending |-> 0] IN
  /\ "sync" \in Ops
  /\ Storable(k)
  /\ Commit(k, row, row)
  /\ UNCHANGED <<hcmVars, status, call>>

\* Mutant: a balance with open requests is left alone.
SyncEntryUnlessReserved(k, availableBalance) ==
  LET row == IF balance[k] # None /\ balance[k].pending > 0
             THEN balance[k] ELSE upsertHcmBalance(balance[k], availableBalance)
  IN /\ "sync" \in Ops
     /\ Storable(k)
     /\ Commit(k, row, row)
     /\ UNCHANGED <<hcmVars, status, call>>

(* The transaction of one pushed balance: processSingle, or one entry of        *)
(* processBatch, which gives each entry a transaction of its own.  A push may    *)
(* be late, repeated or overtaken by another, so it may carry any balance.  The  *)
(* audit entry records the days of the PENDING requests, not the row's.          *)
SyncEntry(k, availableBalance) ==
  /\ "sync" \in Ops
  /\ Storable(k)
  /\ Commit(k, upsertHcmBalance(balance[k], availableBalance),
               [hcm     |-> availableBalance,
                pending |-> sumPendingDays(status, k)])
  /\ UNCHANGED <<hcmVars, status, call>>
================================================================================
