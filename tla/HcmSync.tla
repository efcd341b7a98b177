-------------------------------- MODULE HcmSync --------------------------------
(* ExampleHR with the pushes the HCM really sends, where ExampleHR!Push takes    *)
(* any balance.  A push is a snapshot of the HCM's balances, taken when it is    *)
(* sent; it is on its way, or half processed, while everything else goes on, and *)
(* a later push may overtake it.  processBatch gives every entry a transaction   *)
(* of its own and stops at the first that fails for good.                        *)
EXTENDS ExampleHR, Sequences, Functions

CONSTANTS
  Slot,          \* slots for pushes under way at the same time
  Corpus,        \* the keys the HCM has balances for, in the order of its Map
  SyncAttempts   \* maxAttempts of retryOnOptimisticLock

ASSUME HcmSyncAssumption ==
  /\ Corpus \in Seq(Key)
  /\ SyncAttempts \in Nat \ {0}

VARIABLE push   \* the pushes under way

syncVars == <<vars, push>>

(* A push: the entries still to be processed, the attempts the first of them has *)
(* failed, and the length of the list of discrepancies so far.                   *)
NoPush == [sent |-> FALSE, todo |-> <<>>, tries |-> 0, discrepancies |-> 0]

Entry == [key : Key, availableBalance : Nat]

PushRecord ==
  [sent : BOOLEAN, todo : Seq(Entry), tries : Nat, discrepancies : Nat]

SyncTypeOK == TypeOK /\ push \in [Slot -> PushRecord]

SyncInit == Init /\ push = [s \in Slot |-> NoPush]

Send(s, entries) ==
  /\ push[s] = NoPush
  /\ push' = [push EXCEPT ![s] = [NoPush EXCEPT !.sent = TRUE, !.todo = entries]]

\* The push is over: answered, failed with a 500 or lost.
Over(s) == push' = [push EXCEPT ![s] = NoPush]

\* The keys of the HCM's Map.  A reset empties it; a key comes back, behind the others,
\* when it is given a balance again, and until then its balance counts as zero.
MapKeys ==
  IF "reset" \notin Ops THEN {Corpus}
  ELSE {keys \in UNION {Injection(1 .. n, Range(Corpus)) : n \in 0 .. Len(Corpus)} :
         \A k \in Range(Corpus) : hcm[k] > 0 => k \in Range(keys)}

\* All balances the HCM has, as they are now.
pushBatchToExampleHr(s) ==
  /\ \E keys \in MapKeys :
       Send(s, [i \in DOMAIN keys |->
         [key |-> keys[i], availableBalance |-> hcm[keys[i]]]])
  /\ UNCHANGED vars

\* An anniversary pushes the balance it has just computed, after its return.
anniversaryPush(s, k) ==
  /\ "anniversary" \in Ops
  /\ applyAnniversary(k)
  /\ Send(s, <<[key |-> k, availableBalance |-> hcm[k] + Bonus]>>)
  /\ UNCHANGED <<dbVars, call>>

InProgress(s) == push[s].sent /\ push[s].todo # <<>>

\* Mutant: availableAfterSync is what was available before.
DiscrepantBefore(e) == balance[e.key] # None /\ availableDays(balance[e.key]) < 0

\* availableAfterSync < 0
Discrepant(e) == e.availableBalance - sumPendingDays(status, e.key) < 0

Discrepancies(s) ==
  push[s].discrepancies + IF Discrepant(Head(push[s].todo)) THEN 1 ELSE 0

entryCommitted(s) ==
  /\ InProgress(s)
  /\ LET e == Head(push[s].todo) IN SyncEntry(e.key, e.availableBalance)
  /\ push' = [push EXCEPT
       ![s].todo = Tail(@), ![s].tries = 0, ![s].discrepancies = Discrepancies(s)]

\* An attempt meets a locked database: at BEGIN, or at the audit entry or COMMIT,
\* after the discrepancy was noted.  It is rolled back and made again; the note,
\* which is taken outside the database, stays.
entryRolledBack(s) ==
  /\ "locked" \in Faults
  /\ InProgress(s)
  /\ push[s].tries + 1 < SyncAttempts
  /\ \E noted \in {push[s].discrepancies} \cup
        IF Storable(Head(push[s].todo).key) THEN {Discrepancies(s)} ELSE {} :
       push' = [push EXCEPT ![s].tries = @ + 1, ![s].discrepancies = noted]
  /\ UNCHANGED vars

\* FOREIGN KEY constraint failed: not an error that is retried.  The rest of the
\* batch is dropped; the entries already committed stay.
entryRefused(s) ==
  /\ InProgress(s)
  /\ ~Storable(Head(push[s].todo).key)
  /\ Over(s)
  /\ UNCHANGED vars

\* The last attempt at an entry has met a locked database.
entryLockedOut(s) ==
  /\ "locked" \in Faults
  /\ InProgress(s)
  /\ push[s].tries + 1 = SyncAttempts
  /\ Over(s)
  /\ UNCHANGED vars

\* { processed, discrepanciesFound }
answered(s) ==
  /\ push[s].sent /\ push[s].todo = <<>>
  /\ Over(s)
  /\ UNCHANGED vars

\* The push does not arrive, or the instance that processes it dies.
lost(s) ==
  /\ "crash" \in Faults
  /\ push[s].sent
  /\ Over(s)
  /\ UNCHANGED vars

processPush(s) ==
  entryCommitted(s) \/ entryRefused(s) \/ answered(s)

PushStep(s) ==
  \/ pushBatchToExampleHr(s)
  \/ \E k \in Key : anniversaryPush(s, k)
  \/ processPush(s)
  \/ entryRolledBack(s)
  \/ entryLockedOut(s)
  \/ lost(s)

\* ExampleHR without its arbitrary pushes; an anniversary among the HcmEvents is one
\* whose push is lost.
ServiceStep == (\E c \in Call : Arrive(c) \/ Progress(c) \/ Fail(c)) \/ HcmEvent

SyncNext ==
  /\ \/ \E s \in Slot : PushStep(s)
     \/ ServiceStep /\ UNCHANGED push
  /\ Exclusive' /\ KeysUsedOnce'

SyncSpec == SyncInit /\ [][SyncNext]_syncVars

(* The HCM pushes its corpus again and again (a scheduler outside the code does,  *)
(* see TRD section 5.3), a push that has arrived is processed, and neither locks  *)
(* nor losses hit every entry of a key: one that keeps being tried gets through.  *)
SyncFairness ==
  /\ WF_syncVars(\E s \in Slot : pushBatchToExampleHr(s))
  /\ \A s \in Slot : WF_syncVars(processPush(s))
  /\ \A k \in Key : SF_syncVars(\E s \in Slot :
       entryCommitted(s) /\ Head(push[s].todo).key = k)

FairSyncSpec == SyncSpec /\ SyncFairness

-------------------------------------------------------------------------------

(* A push that takes more days away than the open requests leave does not go       *)
(* unnoticed: in the step that makes available_days negative (or more so) a        *)
(* discrepancy is noted, unless a refresh made it, which compares nothing.         *)
(* processSingle only logs its note, and processBatch answers with the number of    *)
(* its notes unless a later entry fails for good.                                *)
OverdraftsReported ==
  [][\A k \in Key : Overdraws(k) =>
       \/ \E s \in Slot : push'[s].discrepancies > push[s].discrepancies
       \/ \E c \in Call : refreshCommitted(c)]_syncVars

\* k is in the HCM's Map, whatever a reset has done to it.
InCorpus(k) == \A keys \in MapKeys : k \in Range(keys)

(* TRD goal "external HCM changes are reconciled": when the HCM's balances change *)
(* no more, the shadow of every balance it has ends up equal to the HCM's and      *)
(* stays so, whatever stale push, creation or approval writes in between.  A key   *)
(* that a reset has taken from the Map is not pushed again.                       *)
Reconciled ==
  <>[][UNCHANGED hcm]_hcm =>
    <>[](\A k \in Key : InCorpus(k) /\ balance[k] # None => balance[k].hcm = hcm[k])
================================================================================
