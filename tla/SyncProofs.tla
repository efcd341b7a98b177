------------------------------- MODULE SyncProofs ------------------------------
(* Theorems of HcmSync, for any corpus, any number of pushes under way and any     *)
(* faults.                                                                        *)
EXTENDS HcmSync, SerialProofs

PushType == push \in [Slot -> PushRecord]

\* The state is one of the serial discipline, its reservations are exact.
SyncInv == SerialInv /\ ReservedExact /\ PushType

(* A push is sent with entries of the HCM's balances.                              *)
LEMMA SendType ==
  ASSUME PushType, NEW s \in Slot, NEW entries \in Seq(Entry), Send(s, entries)
  PROVE  PushType'
<1> DEFINE rec == [NoPush EXCEPT !.sent = TRUE, !.todo = entries]
<1>1. rec \in PushRecord
  BY DEF NoPush, PushRecord
<1>2. push' = [push EXCEPT ![s] = rec]
  BY DEF Send
<1> HIDE DEF rec
<1> QED
  BY <1>1, <1>2 DEF PushType

(* The keys of the HCM's Map, whatever a reset has done to it, are keys.             *)
LEMMA MapKeysListed == MapKeys \subseteq Seq(Key)
<1>1. Corpus \in Seq(Key) /\ Range(Corpus) \subseteq Key
  BY HcmSyncAssumption DEF Range
<1>2. ASSUME NEW n \in 0 .. Len(Corpus), NEW keys \in Injection(1 .. n, Range(Corpus))
      PROVE  keys \in Seq(Key)
  <2>1. keys \in [1 .. n -> Key]
    BY <1>1 DEF Injection
  <2>2. n \in Nat
    BY <1>1
  <2> QED
    BY <2>1, <2>2
<1> QED
  BY <1>1, <1>2 DEF MapKeys

(* A push that is over leaves its slot free.                                       *)
LEMMA OverType ==
  ASSUME PushType, NEW s \in Slot, Over(s)
  PROVE  PushType'
<1>1. NoPush \in PushRecord
  BY DEF NoPush, PushRecord
<1> QED
  BY <1>1 DEF PushType, Over

(* The entry a push comes to next, and the count of discrepancies after it.         *)
LEMMA NextEntry ==
  ASSUME PushType, NEW s \in Slot, InProgress(s)
  PROVE  /\ Head(push[s].todo) \in Entry
         /\ Tail(push[s].todo) \in Seq(Entry)
         /\ push[s] \in PushRecord
         /\ push[s].tries \in Nat
         /\ push[s].discrepancies \in Nat
         /\ Discrepancies(s) \in Nat
<1>1. push[s] \in PushRecord
  BY DEF PushType
<1>2. /\ push[s].todo \in Seq(Entry) /\ push[s].todo # <<>>
      /\ push[s].tries \in Nat /\ push[s].discrepancies \in Nat
  BY <1>1 DEF PushRecord, InProgress
<1>3. Head(push[s].todo) \in Entry /\ Tail(push[s].todo) \in Seq(Entry)
  BY <1>2
<1>4. Discrepancies(s) \in Nat
  BY <1>2 DEF Discrepancies
<1> QED
  BY <1>1, <1>2, <1>3, <1>4

(* A committed entry is one push of ExampleHR; its push goes on.                     *)
LEMMA EntryStep ==
  ASSUME PushType, SyncValues = Nat, NEW s \in Slot, entryCommitted(s)
  PROVE  Push /\ PushType'
<1> DEFINE e == Head(push[s].todo)
           rec == [push[s] EXCEPT !.todo = Tail(@), !.tries = 0,
                                  !.discrepancies = Discrepancies(s)]
<1>1. InProgress(s) /\ SyncEntry(e.key, e.availableBalance)
  BY DEF entryCommitted
<1>2. e.key \in Key /\ e.availableBalance \in SyncValues
  BY <1>1, NextEntry DEF Entry
<1>3. Push
  BY <1>1, <1>2 DEF Push
<1>4. rec \in PushRecord
  BY <1>1, NextEntry DEF PushRecord
<1>5. push' = [push EXCEPT ![s] = rec]
  BY DEF entryCommitted, PushType
<1> HIDE DEF rec
<1>6. PushType'
  BY <1>4, <1>5 DEF PushType
<1> QED
  BY <1>3, <1>6

(* What a push does to the system is nothing, an entry or an anniversary.           *)
LEMMA PushStepMaps ==
  ASSUME HcmTypeOK, PushType, SyncValues = Nat, NEW s \in Slot, PushStep(s)
  PROVE  PushType' /\ (UNCHANGED vars \/ Push \/ HcmEvent)
<1>1. CASE pushBatchToExampleHr(s)
  <2> DEFINE entries(keys) == [i \in DOMAIN keys |->
               [key |-> keys[i], availableBalance |-> hcm[keys[i]]]]
  <2>1. PICK keys \in MapKeys : Send(s, entries(keys)) /\ UNCHANGED vars
    BY <1>1 DEF pushBatchToExampleHr
  <2>2. keys \in Seq(Key)
    BY MapKeysListed
  <2>3. \A i \in DOMAIN keys : entries(keys)[i] \in Entry
    BY <2>2 DEF HcmTypeOK, Entry
  <2>4. entries(keys) \in [1 .. Len(keys) -> Entry] /\ Len(keys) \in Nat
    BY <2>2, <2>3
  <2>5. entries(keys) \in Seq(Entry)
    BY <2>4
  <2> HIDE DEF entries
  <2> QED
    BY <2>1, <2>5, SendType
<1>2. CASE \E k \in Key : anniversaryPush(s, k)
  <2> PICK k \in Key : anniversaryPush(s, k)
    BY <1>2
  <2> DEFINE e == [key |-> k, availableBalance |-> hcm[k] + Bonus]
  <2>1. e \in Entry
    BY HcmAssumption DEF HcmTypeOK, Entry
  <2>2. Send(s, <<e>>)
    BY DEF anniversaryPush
  <2> HIDE DEF e
  <2>3. <<e>> \in Seq(Entry)
    BY <2>1
  <2>4. PushType'
    BY <2>2, <2>3, SendType
  <2>5. HcmEvent
    BY DEF anniversaryPush, HcmEvent
  <2> QED
    BY <2>4, <2>5
<1>3. CASE entryCommitted(s)
  BY <1>3, EntryStep
<1>4. CASE entryRefused(s) \/ answered(s) \/ entryLockedOut(s) \/ lost(s)
  BY <1>4, OverType DEF entryRefused, answered, entryLockedOut, lost
<1>5. CASE entryRolledBack(s)
  <2>1. PICK noted \in {push[s].discrepancies, Discrepancies(s)} :
          push' = [push EXCEPT ![s].tries = @ + 1, ![s].discrepancies = noted]
    BY <1>5 DEF entryRolledBack, Storable
  <2>2. /\ push[s] \in PushRecord /\ push[s].tries + 1 \in Nat /\ noted \in Nat
    BY <1>5, NextEntry DEF entryRolledBack
  <2> DEFINE rec == [push[s] EXCEPT !.tries = @ + 1, !.discrepancies = noted]
  <2>3. rec \in PushRecord
    BY <2>2 DEF PushRecord
  <2>4. push' = [push EXCEPT ![s] = rec]
    BY <2>1 DEF PushType
  <2> HIDE DEF rec
  <2>5. PushType'
    BY <2>3, <2>4 DEF PushType
  <2> QED
    BY <1>5, <2>5 DEF entryRolledBack
<1> QED
  BY <1>1, <1>2, <1>3, <1>4, <1>5 DEF PushStep, processPush

(* Every step with pushes is a step of the serial discipline or changes nothing.    *)
LEMMA SyncStepMaps ==
  ASSUME SyncInv, SyncValues = Nat, [SyncNext]_syncVars
  PROVE  [SerialNext]_vars /\ SyncInv'
<1>0. HcmTypeOK /\ PushType
  BY DEF SyncInv, SerialInv, ShapeInv, TypeOK
<1>1. PushType' /\ [SerialNext]_vars
  <2>1. CASE UNCHANGED syncVars
    BY <1>0, <2>1 DEF syncVars, PushType
  <2>2. CASE /\ ServiceStep /\ UNCHANGED push
             /\ Exclusive' /\ KeysUsedOnce'
    BY <1>0, <2>2 DEF ServiceStep, Next, SerialNext, PushType
  <2>3. CASE /\ \E s \in Slot : PushStep(s)
             /\ Exclusive' /\ KeysUsedOnce'
    BY <1>0, <2>3, PushStepMaps DEF Next, SerialNext
  <2> QED
    BY <2>1, <2>2, <2>3 DEF SyncNext
<1>2. SerialInv' /\ ReservedExact'
  BY <1>1, SerialStep, LedgerExact
  DEF SyncInv, SerialInv, ShapeInv, TypeOK, DbTypeOK
<1> QED
  BY <1>1, <1>2 DEF SyncInv

(* No push is under way at the start.                                              *)
LEMMA SyncInvInit == SyncInit => SyncInv
<1>1. NoPush \in PushRecord
  BY DEF NoPush, PushRecord
<1> QED
  BY <1>1, SerialInit, ExactInit DEF SyncInit, SyncInv, PushType

(* An entry that overdraws is counted: what a row has reserved is what the PENDING  *)
(* requests ask for, with which processBatch compares.                             *)
LEMMA EntryReported ==
  ASSUME SyncInv, NEW s \in Slot, entryCommitted(s), NEW k \in Key, Overdraws(k)
  PROVE  push'[s].discrepancies > push[s].discrepancies
<1> DEFINE e == Head(push[s].todo)
<1>0. /\ PushType /\ InProgress(s) /\ SyncEntry(e.key, e.availableBalance)
      /\ balance \in [Key -> Row \cup {None}]
  BY DEF SyncInv, entryCommitted, SerialInv, ShapeInv, TypeOK, DbTypeOK
<1>1. e.key \in Key /\ e.availableBalance \in Nat
  BY <1>0, NextEntry DEF Entry
<1>2. balance' = [balance EXCEPT ![e.key] =
                    upsertHcmBalance(balance[e.key], e.availableBalance)]
  BY <1>0 DEF SyncEntry, Commit
<1>3. balance[k] \in Row /\ availableDays(balance[k]) \in Int
  BY <1>0 DEF Overdraws, availableDays, Row
<1>4. k = e.key
  <2>1. balance'[k] # balance[k]
    BY <1>3 DEF Overdraws
  <2> QED
    BY <1>0, <1>1, <1>2, <2>1
<1>5. sumPendingDays(status, k) = balance[k].pending
  BY <1>3, NoneAssumption DEF SyncInv, ReservedExact, Reserved
<1>6. balance'[k].hcm = e.availableBalance /\ balance'[k].pending = balance[k].pending
  BY <1>0, <1>1, <1>2, <1>3, <1>4, NoneAssumption DEF upsertHcmBalance
<1>7. e.availableBalance - balance[k].pending < 0
  BY <1>6 DEF Overdraws, availableDays
<1>8. Discrepant(e)
  BY <1>4, <1>5, <1>7 DEF Discrepant
<1>9. /\ push[s].discrepancies \in Nat
      /\ Discrepancies(s) = push[s].discrepancies + 1
  BY <1>0, <1>8, NextEntry DEF Discrepancies
<1>10. push'[s].discrepancies = Discrepancies(s)
  BY <1>0, NextEntry DEF entryCommitted, PushType, PushRecord
<1> QED
  BY <1>9, <1>10

(* Types of the system and of its pushes.                                          *)
THEOREM SyncTypeCorrect ==
  ASSUME SyncValues = Nat PROVE SyncSpec => []SyncTypeOK
<1>1. SyncInv /\ [SyncNext]_syncVars => SyncInv'
  BY SyncStepMaps
<1>2. SyncInv => SyncTypeOK
  BY DEF SyncInv, SerialInv, ShapeInv, SyncTypeOK, PushType
<1> QED
  BY <1>1, <1>2, SyncInvInit, PTL DEF SyncSpec

(* With pushes under way the system is still one of the serial discipline, so that  *)
(* its theorems hold here too.                                                     *)
LEMMA PushesRefineEntries ==
  ASSUME SyncValues = Nat PROVE SyncSpec => SerialSpec
<1>1. SyncInv /\ [SyncNext]_syncVars => SyncInv' /\ [SerialNext]_vars
  BY SyncStepMaps
<1>2. SyncInit => Init
  BY DEF SyncInit
<1> QED
  BY <1>1, <1>2, SyncInvInit, PTL DEF SyncSpec, SerialSpec

(* So the reserved days stay those of the PENDING requests and the audit log        *)
(* replays, whatever becomes of a batch.                                          *)
THEOREM PushesKeepBooks ==
  ASSUME SyncValues = Nat
  PROVE  SyncSpec => [](PendingMatchesRequests /\ AuditReplaysBalance)
BY PushesRefineEntries, ReservationsExact, AuditComplete, PTL

(* Every overdraft a push causes is noted as a discrepancy of that push.            *)
THEOREM PushOverdraftsReported ==
  ASSUME SyncValues = Nat PROVE SyncSpec => OverdraftsReported
<1> DEFINE Reported(k) == \/ \E s \in Slot : push'[s].discrepancies > push[s].discrepancies
                          \/ \E c \in Call : refreshCommitted(c)
           A == \A k \in Key : Overdraws(k) => Reported(k)
<1>1. ASSUME SyncInv, [SyncNext]_syncVars PROVE [A]_syncVars
  <2>0. ShapeInv /\ HcmTypeOK /\ PushType
    BY <1>1 DEF SyncInv, SerialInv, ShapeInv, TypeOK
  <2>1. ASSUME UNCHANGED balance PROVE A
    <3>1. ASSUME NEW k \in Key PROVE ~Overdraws(k)
      <4>1. balance[k] \in Row \cup {None}
        BY <2>0 DEF ShapeInv, TypeOK, DbTypeOK
      <4>2. balance[k] # None => availableDays(balance[k]) \in Int
        BY <4>1 DEF availableDays, Row
      <4> QED
        BY <2>1, <4>2 DEF Overdraws
    <3> QED
      BY <3>1
  <2>2. CASE ServiceStep
    <3>1. CASE HcmEvent
      BY <2>1, <3>1 DEF HcmEvent, dbVars
    <3>2. CASE \E c \in Call : Arrive(c)
      BY <2>0, <2>1, <3>2, ArriveFrame DEF dbVars
    <3>3. CASE \E c \in Call : HcmStep(c) \/ refreshRefused(c) \/ Fail(c)
      BY <2>0, <2>1, <3>3, HcmStepFrame
      DEF refreshRefused, Fail, Crash, RetriesExhausted, dbVars
    <3>4. CASE \E c \in Call : TimeOffTx(c)
      BY <2>0, <3>4, TxCovers
    <3> QED
      BY <2>2, <3>1, <3>2, <3>3, <3>4 DEF ServiceStep, Progress, RefreshTx
  <2>3. ASSUME NEW s \in Slot, PushStep(s) PROVE A
    <3>1. CASE entryCommitted(s)
      BY <1>1, <3>1, EntryReported
    <3>2. CASE ~entryCommitted(s)
      BY <2>1, <2>3, <3>2
      DEF PushStep, processPush, pushBatchToExampleHr, anniversaryPush,
          entryRefused, answered, entryRolledBack, entryLockedOut, lost, vars, dbVars
    <3> QED
      BY <3>1, <3>2
  <2> QED
    BY <1>1, <2>2, <2>3 DEF SyncNext
<1>2. SyncInv /\ [SyncNext]_syncVars => SyncInv' /\ [A]_syncVars
  BY <1>1, SyncStepMaps
<1> QED
  BY <1>2, SyncInvInit, PTL DEF SyncSpec, OverdraftsReported
================================================================================
