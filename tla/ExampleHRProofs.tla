---------------------------- MODULE ExampleHRProofs ----------------------------
(* Theorems of ExampleHR, for any set of calls, any finite set of requests, any   *)
(* balances, retries and faults.                                                  *)
EXTENDS ExampleHR, LeaveBalanceLemmas

-------------------------------------------------------------------------------
(* Frames: what each kind of step may do to the calls being served.              *)

\* The call at c goes on with what it is about, or ends; the other calls stay.
Continues(c) ==
  \E rec \in CallRecord :
    /\ call' = [call EXCEPT ![c] = rec]
    /\ \/ rec = Idle
       \/ /\ rec.op = call[c].op
          /\ rec.req = call[c].req
          /\ rec.key = call[c].key

\* A request in the table stays in it.
StatusGrows ==
  \A r \in Request : status[r] # "NONE" => status'[r] # "NONE"

(* The record of a free slot is a call record.                                   *)
LEMMA IdleType == Idle \in CallRecord
BY DEF Idle, CallRecord

(* Answering ends a call.                                                        *)
LEMMA AnswerContinues ==
  ASSUME NEW c \in Call, Answer(c)
  PROVE  Continues(c)
BY IdleType DEF Answer, Continues

(* Going on to the transaction changes neither endpoint, request nor key.         *)
LEMMA ToTxContinues ==
  ASSUME TypeOK, NEW c \in Call, NEW seen \in Int, ToTx(c, seen)
  PROVE  Continues(c)
<1> DEFINE rec == [call[c] EXCEPT !.pc = "tx", !.seen = seen]
<1>1. call[c] \in CallRecord /\ call \in [Call -> CallRecord]
  BY DEF TypeOK, DbTypeOK
<1>2. /\ rec \in CallRecord
      /\ rec.op = call[c].op /\ rec.req = call[c].req /\ rec.key = call[c].key
  BY <1>1 DEF CallRecord
<1>3. call' = [call EXCEPT ![c] = rec]
  BY <1>1 DEF ToTx
<1> QED
  BY <1>2, <1>3 DEF Continues

(* Neither does another attempt.                                                 *)
LEMMA RetryContinues ==
  ASSUME TypeOK, NEW c \in Call, Retry(c)
  PROVE  Continues(c)
<1> DEFINE rec == [call[c] EXCEPT !.tries = @ + 1]
<1>1. call[c] \in CallRecord /\ call \in [Call -> CallRecord]
  BY DEF TypeOK, DbTypeOK
<1>2. /\ rec \in CallRecord
      /\ rec.op = call[c].op /\ rec.req = call[c].req /\ rec.key = call[c].key
  BY <1>1 DEF CallRecord
<1>3. call' = [call EXCEPT ![c] = rec]
  BY <1>1 DEF Retry
<1> QED
  BY <1>2, <1>3 DEF Continues

(* An attempt without reply retries, ends the call or, for a creation, goes on.  *)
LEMMA NoReplyContinues ==
  ASSUME TypeOK, NEW c \in Call, NoReply(c)
  PROVE  Continues(c)
<1>1. CASE Retry(c)
  BY <1>1, RetryContinues
<1>2. CASE GiveUp(c)
  <2>1. ToTx(c, -1) \/ Answer(c)
    BY <1>2 DEF GiveUp
  <2> QED
    BY <2>1, ToTxContinues, AnswerContinues
<1> QED
  BY <1>1, <1>2 DEF NoReply

(* A booking keeps the HCM's balances natural numbers: a deduction is covered.   *)
LEMMA BookingTypes ==
  ASSUME HcmTypeOK, NEW r \in Request, deduct(r) \/ credit(r)
  PROVE  HcmTypeOK'
<1> DEFINE k == KeyOf[r]
           n == DaysOf[r]
<1>1. k \in Key /\ n \in Nat
  BY RequestAssumption
<1>2. hcm[k] \in Nat /\ deducts[r] \in Nat /\ credits[r] \in Nat
  BY <1>1 DEF HcmTypeOK
<1>3. CASE deduct(r)
  <2>1. hcm[k] - n \in Nat
    BY <1>1, <1>2, <1>3 DEF deduct, Refuses
  <2>2. /\ hcm' = [hcm EXCEPT ![k] = hcm[k] - n]
        /\ deducts' = [deducts EXCEPT ![r] = deducts[r] + 1]
        /\ credits' = credits
    BY <1>3 DEF deduct
  <2> HIDE DEF k, n
  <2> QED
    BY <1>1, <1>2, <2>1, <2>2 DEF HcmTypeOK
<1>4. CASE credit(r)
  <2>1. /\ hcm' = [hcm EXCEPT ![k] = hcm[k] + n]
        /\ credits' = [credits EXCEPT ![r] = credits[r] + 1]
        /\ deducts' = deducts
    BY <1>4 DEF credit
  <2> HIDE DEF k, n
  <2> QED
    BY <1>1, <1>2, <2>1 DEF HcmTypeOK
<1> QED
  BY <1>3, <1>4

(* An HCM call leaves the database alone, keeps the HCM's balances natural       *)
(* numbers and continues its call.                                               *)
LEMMA HcmStepFrame ==
  ASSUME ShapeInv, NEW c \in Call, HcmStep(c)
  PROVE  UNCHANGED dbVars /\ HcmTypeOK' /\ Continues(c)
<1> USE DEF ShapeInv
<1>0. TypeOK /\ HcmTypeOK
  BY DEF TypeOK
<1>1. CASE Unavailable(c)
  BY <1>0, <1>1, NoReplyContinues DEF Unavailable, HcmTypeOK, hcmVars
<1>2. CASE getBalance(c)
  <2>1. call[c].key \in Key
    BY <1>2, RequestAssumption DEF getBalance, CallShape
  <2>2. hcm[call[c].key] \in Int
    BY <1>0, <2>1 DEF HcmTypeOK
  <2>3. Continues(c)
    BY <1>0, <1>2, <2>2, ToTxContinues DEF getBalance
  <2> QED
    BY <1>0, <1>2, <2>3 DEF getBalance, HcmTypeOK, hcmVars
<1>3. ASSUME Replied(c, -1) PROVE Continues(c)
  BY <1>0, <1>3, ToTxContinues, NoReplyContinues DEF Replied
<1>4. CASE deductBalance(c)
  <2>1. call[c].req \in Request
    BY <1>4 DEF deductBalance, At, CallShape, Decisions
  <2>2. HcmTypeOK'
    BY <1>0, <1>4, <2>1, BookingTypes DEF deductBalance
  <2> QED
    BY <1>3, <1>4, <2>2 DEF deductBalance
<1>5. CASE deductRefused(c)
  BY <1>0, <1>5, AnswerContinues DEF deductRefused, HcmTypeOK, hcmVars
<1>6. CASE creditBalance(c)
  <2>1. call[c].req \in Request
    BY <1>6 DEF creditBalance, At, CallShape, Decisions
  <2>2. HcmTypeOK'
    BY <1>0, <1>6, <2>1, BookingTypes DEF creditBalance
  <2> QED
    BY <1>3, <1>6, <2>2 DEF creditBalance
<1> QED
  BY <1>1, <1>2, <1>4, <1>5, <1>6 DEF HcmStep

(* A commit to a row that exists keeps the tables well typed and deletes no row. *)
LEMMA CommitFrame ==
  ASSUME TypeOK, NEW k \in Key, NEW row \in Row, NEW logged \in Row,
         Commit(k, row, logged)
  PROVE  /\ balance' \in [Key -> Row \cup {None}]
         /\ audit' \in [Key -> Row \cup {None}]
         /\ \A l \in Key : balance[l] # None => balance'[l] # None
         /\ balance'[k] = row
         /\ \A l \in Key : l # k => balance'[l] = balance[l]
BY NoneAssumption DEF TypeOK, DbTypeOK, Commit

\* What a transaction does to the tables, whichever it is.
TablesGrow ==
  /\ balance' \in [Key -> Row \cup {None}]
  /\ audit' \in [Key -> Row \cup {None}]
  /\ status' \in [Request -> RequestStatus \cup {"NONE"}]
  /\ StatusGrows
  /\ RowsExist'

(* Reserving days needs a row and writes one.                                    *)
LEMMA ReserveFrame ==
  ASSUME ShapeInv, NEW c \in Call, Reserve(c)
  PROVE  /\ call[c].req \in Request
         /\ call[c].key = KeyOf[call[c].req]
         /\ call[c].key \in Key
         /\ balance[call[c].key] \in Row
         /\ effectiveHcm(balance[call[c].key], call[c].seen) \in Int
         /\ balance' = [balance EXCEPT ![call[c].key] =
              applyHcmRefreshAndIncrementPending(balance[call[c].key],
                effectiveHcm(balance[call[c].key], call[c].seen),
                DaysOf[call[c].req])]
         /\ balance' \in [Key -> Row \cup {None}]
         /\ balance'[call[c].key] \in Row
         /\ \A l \in Key : l # call[c].key => balance'[l] = balance[l]
         /\ Continues(c)
<1> DEFINE k == call[c].key
           r == call[c].req
           e == effectiveHcm(balance[k], call[c].seen)
           row2 == applyHcmRefreshAndIncrementPending(balance[k], e, DaysOf[r])
<1>1. r \in Request /\ k = KeyOf[r] /\ k \in Key /\ DaysOf[r] \in Nat
  BY RequestAssumption DEF ShapeInv, CallShape, Reserve, At
<1>2. balance[k] \in Row
  BY <1>1 DEF Reserve, Covered, ShapeInv, TypeOK, DbTypeOK
<1>3. call[c].seen \in Int
  BY DEF ShapeInv, TypeOK, DbTypeOK, CallRecord
<1>4. e \in Int
  BY <1>2, <1>3 DEF effectiveHcm, Row
<1>5. row2 \in Row
  BY <1>1, <1>2, <1>4 DEF applyHcmRefreshAndIncrementPending, Row
<1>6. balance \in [Key -> Row \cup {None}]
  BY DEF ShapeInv, TypeOK, DbTypeOK
<1>7. balance' = [balance EXCEPT ![k] = row2]
  BY <1>1, <1>6 DEF Reserve
<1>8. Continues(c)
  BY AnswerContinues DEF Reserve
<1> HIDE DEF row2, e
<1>9. /\ balance' \in [Key -> Row \cup {None}]
      /\ balance'[k] \in Row
      /\ \A l \in Key : l # k => balance'[l] = balance[l]
  BY <1>1, <1>5, <1>6, <1>7
<1> QED
  BY <1>1, <1>2, <1>4, <1>7, <1>8, <1>9 DEF row2, e

(* The request and the row a decision is about.                                  *)
LEMMA DecisionFacts ==
  ASSUME ShapeInv, NEW c \in Call, call[c].op \in Decisions
  PROVE  /\ call[c].req \in Request
         /\ call[c].key = KeyOf[call[c].req]
         /\ call[c].key \in Key
         /\ DaysOf[call[c].req] \in Nat
         /\ DaysOf[call[c].req] > 0
         /\ status[call[c].req] # "NONE"
         /\ balance[call[c].key] \in Row
<1>1. /\ call[c].req \in Request
      /\ call[c].key = KeyOf[call[c].req]
      /\ status[call[c].req] # "NONE"
  BY DEF ShapeInv, CallShape
<1>2. KeyOf[call[c].req] \in Key /\ DaysOf[call[c].req] \in Nat /\ DaysOf[call[c].req] > 0
  BY <1>1, RequestAssumption
<1>3. balance[KeyOf[call[c].req]] # None
  BY <1>1 DEF ShapeInv, RowsExist
<1> QED
  BY <1>1, <1>2, <1>3 DEF ShapeInv, TypeOK, DbTypeOK

(* A decision that commits a row and a status leaves the tables as they should    *)
(* be.                                                                           *)
LEMMA DecisionCommits ==
  ASSUME ShapeInv, NEW c \in Call, call[c].op \in Decisions,
         NEW row \in Row, NEW logged \in Row, NEW s \in RequestStatus,
         Commit(call[c].key, row, logged),
         status' = [status EXCEPT ![call[c].req] = s]
  PROVE  TablesGrow
<1>1. call[c].req \in Request /\ call[c].key \in Key
  BY DecisionFacts
<1>2. /\ balance' \in [Key -> Row \cup {None}]
      /\ audit' \in [Key -> Row \cup {None}]
      /\ \A l \in Key : balance[l] # None => balance'[l] # None
  BY <1>1, CommitFrame DEF ShapeInv
<1>3. status \in [Request -> RequestStatus \cup {"NONE"}] /\ s # "NONE"
  BY DEF ShapeInv, TypeOK, DbTypeOK, RequestStatus
<1>4. /\ status' \in [Request -> RequestStatus \cup {"NONE"}]
      /\ StatusGrows
  BY <1>1, <1>3 DEF StatusGrows
<1>5. \A r \in Request : status'[r] # "NONE" => status[r] # "NONE"
  BY <1>1, <1>3, DecisionFacts
<1>6. RowsExist'
  BY <1>2, <1>5, RequestAssumption DEF ShapeInv, RowsExist
<1> QED
  BY <1>2, <1>4, <1>6 DEF TablesGrow

(* So does giving a reservation back.                                            *)
LEMMA ReleaseFrame ==
  ASSUME ShapeInv, NEW c \in Call, call[c].op \in Decisions,
         NEW s \in RequestStatus, Release(c, s)
  PROVE  UNCHANGED hcmVars /\ TablesGrow /\ Continues(c)
<1> DEFINE k == call[c].key
           n == DaysOf[call[c].req]
           row == decrementPending(balance[k], n)
           logged == [hcm |-> balance[k].hcm, pending |-> balance[k].pending - n]
<1>1. balance[k] \in Row /\ n \in Nat
  BY DecisionFacts
<1>2. row \in Row /\ logged \in Row
  BY <1>1 DEF decrementPending, Row
<1>3. Commit(k, row, logged) /\ status' = [status EXCEPT ![call[c].req] = s]
  BY DEF Release
<1> HIDE DEF row, logged
<1>4. TablesGrow
  BY <1>2, <1>3, DecisionCommits
<1> QED
  BY <1>4, AnswerContinues DEF Release

(* Every transaction of the time-off service leaves the HCM alone, the tables as  *)
(* they should be, and answers its call.                                         *)
LEMMA TimeOffTxFrame ==
  ASSUME ShapeInv, NEW c \in Call, TimeOffTx(c)
  PROVE  UNCHANGED hcmVars /\ TablesGrow /\ Continues(c)
<1> DEFINE k == call[c].key
           r == call[c].req
<1>0. /\ status \in [Request -> RequestStatus \cup {"NONE"}]
      /\ balance \in [Key -> Row \cup {None}]
      /\ audit \in [Key -> Row \cup {None}]
      /\ RowsExist
  BY DEF ShapeInv, TypeOK, DbTypeOK
<1>1. ASSUME UNCHANGED dbVars PROVE TablesGrow
  BY <1>0, <1>1 DEF dbVars, TablesGrow, StatusGrows, RowsExist
<1>2. CASE createRefused(c)
  BY <1>1, <1>2, AnswerContinues DEF createRefused
<1>3. CASE createReserved(c)
  <2>1. Reserve(c) /\ UNCHANGED hcmVars
        /\ status' = [status EXCEPT ![r] = "PENDING"]
        /\ audit' = [audit EXCEPT ![k] =
             [hcm     |-> effectiveHcm(balance[k], call[c].seen),
              pending |-> balance[k].pending + DaysOf[r]]]
    BY <1>3 DEF createReserved
  <2>2. /\ r \in Request /\ k = KeyOf[r] /\ k \in Key /\ DaysOf[r] \in Nat
        /\ balance[k] \in Row
        /\ effectiveHcm(balance[k], call[c].seen) \in Int
        /\ balance' \in [Key -> Row \cup {None}]
        /\ balance'[k] # None
        /\ \A l \in Key : l # k => balance'[l] = balance[l]
        /\ Continues(c)
    BY <2>1, ReserveFrame, RequestAssumption, NoneAssumption
  <2>3. [hcm     |-> effectiveHcm(balance[k], call[c].seen),
         pending |-> balance[k].pending + DaysOf[r]] \in Row
    BY <2>2 DEF Row
  <2>4. audit' \in [Key -> Row \cup {None}]
    BY <1>0, <2>1, <2>2, <2>3
  <2>5. status' \in [Request -> RequestStatus \cup {"NONE"}] /\ StatusGrows
    BY <1>0, <2>1, <2>2 DEF RequestStatus, StatusGrows
  <2>6. RowsExist'
    BY <1>0, <2>1, <2>2, RequestAssumption DEF RowsExist
  <2> QED
    BY <2>1, <2>2, <2>4, <2>5, <2>6 DEF TablesGrow
<1>4. CASE createDuplicate(c)
  <2>1. Reserve(c) /\ UNCHANGED <<hcmVars, status, audit>>
    BY <1>4 DEF createDuplicate
  <2>2. /\ balance' \in [Key -> Row \cup {None}]
        /\ \A l \in Key : balance[l] # None => balance'[l] # None
        /\ Continues(c)
    BY <2>1, ReserveFrame, NoneAssumption
  <2>3. StatusGrows /\ RowsExist'
    BY <1>0, <2>1, <2>2, RequestAssumption DEF RowsExist, StatusGrows
  <2> QED
    BY <1>0, <2>1, <2>2, <2>3 DEF TablesGrow
<1>5. CASE approveRecorded(c)
  <2> DEFINE row == applyApproval(balance[k], DaysOf[r])
             logged == [hcm     |-> balance[k].hcm - DaysOf[r],
                        pending |-> balance[k].pending - DaysOf[r]]
  <2>1. call[c].op \in Decisions
    BY <1>5 DEF approveRecorded, At, Decisions
  <2>2. row \in Row /\ logged \in Row
    BY <2>1, DecisionFacts DEF applyApproval, Row
  <2>3. Commit(k, row, logged) /\ status' = [status EXCEPT ![r] = "APPROVED"]
    BY <1>5 DEF approveRecorded
  <2> HIDE DEF row, logged
  <2>4. TablesGrow
    BY <2>1, <2>2, <2>3, DecisionCommits DEF RequestStatus
  <2> QED
    BY <1>5, <2>4, AnswerContinues DEF approveRecorded
<1>6. CASE approveStale(c)
  BY <1>1, <1>6, AnswerContinues DEF approveStale
<1>7. CASE rejectCommitted(c)
  BY <1>7, ReleaseFrame DEF rejectCommitted, At, Decisions, RequestStatus
<1>8. CASE cancelPendingCommitted(c)
  BY <1>8, ReleaseFrame DEF cancelPendingCommitted, At, Decisions, RequestStatus
<1>9. CASE cancelApprovedCommitted(c)
  <2> DEFINE row == applyCancellationOfApproved(balance[k], DaysOf[r])
             logged == [hcm     |-> balance[k].hcm + DaysOf[r],
                        pending |-> balance[k].pending]
  <2>1. call[c].op \in Decisions
    BY <1>9 DEF cancelApprovedCommitted, At, Decisions
  <2>2. row \in Row /\ logged \in Row
    BY <2>1, DecisionFacts DEF applyCancellationOfApproved, Row
  <2>3. Commit(k, row, logged) /\ status' = [status EXCEPT ![r] = "CANCELLED"]
    BY <1>9 DEF cancelApprovedCommitted
  <2> HIDE DEF row, logged
  <2>4. TablesGrow
    BY <2>1, <2>2, <2>3, DecisionCommits DEF RequestStatus
  <2> QED
    BY <1>9, <2>4, AnswerContinues DEF cancelApprovedCommitted
<1>10. CASE completeCommitted(c)
  <2>1. call[c].op \in Decisions
    BY <1>10 DEF completeCommitted, At, Decisions
  <2>2. r \in Request /\ status[r] # "NONE"
    BY <2>1, DecisionFacts
  <2>3. /\ status' = [status EXCEPT ![r] = "COMPLETED"]
        /\ UNCHANGED <<hcmVars, balance, audit>>
        /\ Continues(c)
    BY <1>10, AnswerContinues DEF completeCommitted
  <2>4. TablesGrow
    BY <1>0, <2>2, <2>3 DEF TablesGrow, StatusGrows, RowsExist, RequestStatus
  <2> QED
    BY <2>3, <2>4
<1> QED
  BY <1>2, <1>3, <1>4, <1>5, <1>6, <1>7, <1>8, <1>9, <1>10 DEF TimeOffTx

(* Overwriting or inserting the row of a key keeps the tables as they should be,   *)
(* touches no request and keeps the reserved days.                               *)
LEMMA UpsertFrame ==
  ASSUME ShapeInv, NEW k \in Key, NEW v \in Int, NEW logged \in Row,
         Commit(k, upsertHcmBalance(balance[k], v), logged),
         UNCHANGED status
  PROVE  /\ TablesGrow
         /\ balance'[k] = upsertHcmBalance(balance[k], v)
         /\ balance'[k] \in Row
         /\ \A l \in Key : l # k => balance'[l] = balance[l]
<1>1. /\ TypeOK /\ RowsExist
      /\ balance \in [Key -> Row \cup {None}]
      /\ status \in [Request -> RequestStatus \cup {"NONE"}]
  BY DEF ShapeInv, TypeOK, DbTypeOK
<1>2. upsertHcmBalance(balance[k], v) \in Row
  BY <1>1 DEF upsertHcmBalance, Row
<1>3. /\ balance' \in [Key -> Row \cup {None}]
      /\ audit' \in [Key -> Row \cup {None}]
      /\ \A l \in Key : balance[l] # None => balance'[l] # None
      /\ balance'[k] = upsertHcmBalance(balance[k], v)
      /\ \A l \in Key : l # k => balance'[l] = balance[l]
  BY <1>1, <1>2, CommitFrame
<1>4. StatusGrows /\ RowsExist'
  BY <1>1, <1>3, RequestAssumption DEF StatusGrows, RowsExist
<1> QED
  BY <1>1, <1>2, <1>3, <1>4 DEF TablesGrow

(* A refresh does that to the row it was asked for, whatever the HCM answered.     *)
LEMMA RefreshFrame ==
  ASSUME ShapeInv, NEW c \in Call, refreshCommitted(c)
  PROVE  /\ UNCHANGED hcmVars /\ UNCHANGED status
         /\ TablesGrow /\ Continues(c)
         /\ call[c].key \in Key
         /\ balance'[call[c].key] =
              upsertHcmBalance(balance[call[c].key], call[c].seen)
         /\ balance'[call[c].key] \in Row
         /\ \A l \in Key : l # call[c].key => balance'[l] = balance[l]
<1> DEFINE k == call[c].key
           row == upsertHcmBalance(balance[k], call[c].seen)
<1>1. k \in Key
  BY DEF refreshCommitted, At, ShapeInv, CallShape
<1>2. call[c].seen \in Int /\ balance[k] \in Row \cup {None}
  BY <1>1 DEF ShapeInv, TypeOK, DbTypeOK, CallRecord
<1>3. row \in Row
  BY <1>2 DEF upsertHcmBalance, Row
<1>4. Commit(k, row, row) /\ UNCHANGED <<hcmVars, status>>
  BY DEF refreshCommitted
<1>5. Continues(c)
  BY AnswerContinues DEF refreshCommitted
<1> QED
  BY <1>1, <1>2, <1>3, <1>4, <1>5, UpsertFrame

(* So does a pushed entry, and it is about no call.                              *)
LEMMA PushFrame ==
  ASSUME ShapeInv, NEW k \in Key, NEW v \in SyncValues, SyncEntry(k, v)
  PROVE  /\ UNCHANGED <<hcmVars, status, call>>
         /\ TablesGrow
         /\ balance'[k] = upsertHcmBalance(balance[k], v)
         /\ balance'[k] \in Row
         /\ \A l \in Key : l # k => balance'[l] = balance[l]
<1> DEFINE logged == [hcm |-> v, pending |-> sumPendingDays(status, k)]
<1>1. v \in Int
  BY SyncAssumption
<1>2. logged \in Row
  BY <1>1, SumPendingDaysNat DEF Row
<1>3. /\ Commit(k, upsertHcmBalance(balance[k], v), logged)
      /\ UNCHANGED <<hcmVars, status, call>>
  BY DEF SyncEntry
<1> HIDE DEF logged
<1> QED
  BY <1>1, <1>2, <1>3, UpsertFrame

(* A call that arrives takes a free slot and changes nothing else.               *)
LEMMA ArriveFrame ==
  ASSUME ShapeInv, NEW c \in Call, Arrive(c)
  PROVE  /\ UNCHANGED <<hcmVars, dbVars>>
         /\ call' \in [Call -> CallRecord]
         /\ CallShape'
<1> DEFINE Begun(op, r, k, pc) ==
             [Idle EXCEPT !.op = op, !.req = r, !.key = k, !.pc = pc]
<1>0. call \in [Call -> CallRecord] /\ CallShape
  BY DEF ShapeInv, TypeOK, DbTypeOK
<1>1. ASSUME NEW r \in Request, NEW op \in Decisions \cup {"create"},
             NEW pc \in {"hcm", "tx"}, Begin(c, op, r, KeyOf[r], pc),
             op \in Decisions => status[r] # "NONE",
             UNCHANGED <<hcmVars, dbVars>>
      PROVE  call' \in [Call -> CallRecord] /\ CallShape'
  <2>1. KeyOf[r] \in Key
    BY RequestAssumption
  <2>2. Begun(op, r, KeyOf[r], pc) \in CallRecord
    BY <2>1, IdleType DEF CallRecord
  <2>3. call' = [call EXCEPT ![c] = Begun(op, r, KeyOf[r], pc)]
    BY <1>1 DEF Begin
  <2>4. /\ Begun(op, r, KeyOf[r], pc).op = op
        /\ Begun(op, r, KeyOf[r], pc).req = r
        /\ Begun(op, r, KeyOf[r], pc).key = KeyOf[r]
    BY DEF Idle
  <2>5. status' = status
    BY <1>1 DEF dbVars
  <2> HIDE DEF Begun
  <2>6. call' \in [Call -> CallRecord]
    BY <1>0, <2>2, <2>3
  <2>7. CallShape'
    <3>1. ASSUME NEW d \in Call, d # c PROVE call'[d] = call[d]
      BY <1>0, <2>3, <3>1
    <3>2. call'[c].op = op /\ call'[c].req = r /\ call'[c].key = KeyOf[r]
      BY <1>0, <2>3, <2>4
    <3>3. op # "refresh"
      BY DEF Decisions
    <3> QED
      BY <1>0, <1>1, <2>5, <3>1, <3>2, <3>3 DEF CallShape
  <2> QED
    BY <2>6, <2>7
<1>2. CASE \E r \in Request : TimeOffStart(c, r)
  <2> PICK r \in Request : TimeOffStart(c, r)
    BY <1>2
  <2>1. CASE createRequest(c, r)
    BY <1>1, <2>1 DEF createRequest, Decisions
  <2>2. CASE approveRequest(c, r)
    BY <1>1, <2>2 DEF approveRequest, Decisions
  <2>3. CASE rejectRequest(c, r)
    BY <1>1, <2>3 DEF rejectRequest, Decisions
  <2>4. CASE cancelRequest(c, r)
    BY <1>1, <2>4 DEF cancelRequest, Decisions
  <2>5. CASE completeRequest(c, r)
    BY <1>1, <2>5 DEF completeRequest, Completable, Decisions
  <2> QED
    BY <2>1, <2>2, <2>3, <2>4, <2>5 DEF TimeOffStart
<1>3. CASE \E k \in Key : refresh(c, k)
  <2> PICK k \in Key : refresh(c, k)
    BY <1>3
  <2>1. call' = [call EXCEPT ![c] = Begun("refresh", None, k, "hcm")]
    BY DEF refresh, Begin
  <2>2. Begun("refresh", None, k, "hcm") \in CallRecord
    BY IdleType DEF CallRecord
  <2>3. /\ Begun("refresh", None, k, "hcm").op = "refresh"
        /\ Begun("refresh", None, k, "hcm").key = k
    BY DEF Idle
  <2>4. UNCHANGED <<hcmVars, dbVars>> /\ status' = status
    BY DEF refresh, dbVars
  <2> HIDE DEF Begun
  <2>5. call' \in [Call -> CallRecord]
    BY <1>0, <2>1, <2>2
  <2>6. CallShape'
    <3>1. ASSUME NEW d \in Call, d # c PROVE call'[d] = call[d]
      BY <1>0, <2>1, <3>1
    <3>2. call'[c].op = "refresh" /\ call'[c].key = k
      BY <1>0, <2>1, <2>3
    <3>3. "refresh" \notin Decisions /\ "refresh" # "create"
      BY DEF Decisions
    <3> QED
      BY <1>0, <2>4, <3>1, <3>2, <3>3 DEF CallShape
  <2> QED
    BY <2>4, <2>5, <2>6
<1> QED
  BY <1>2, <1>3 DEF Arrive

(* A call that goes on or ends keeps its shape while no request leaves the table. *)
LEMMA ContinuesShape ==
  ASSUME ShapeInv, NEW c \in Call, Continues(c), StatusGrows
  PROVE  call' \in [Call -> CallRecord] /\ CallShape'
<1> PICK rec \in CallRecord :
      /\ call' = [call EXCEPT ![c] = rec]
      /\ \/ rec = Idle
         \/ rec.op = call[c].op /\ rec.req = call[c].req /\ rec.key = call[c].key
  BY DEF Continues
<1>1. call \in [Call -> CallRecord] /\ CallShape
  BY DEF ShapeInv, TypeOK, DbTypeOK
<1>2. rec = Idle => rec.op = "none"
  BY DEF Idle
<1>3. call' \in [Call -> CallRecord]
  BY <1>1
<1>4. ASSUME NEW d \in Call
      PROVE  \/ call'[d].op = "none"
             \/ /\ call'[d].op = call[d].op
                /\ call'[d].req = call[d].req
                /\ call'[d].key = call[d].key
  BY <1>1, <1>2
<1>5. CallShape'
  BY <1>1, <1>4 DEF CallShape, StatusGrows, Decisions
<1> QED
  BY <1>3, <1>5

-------------------------------------------------------------------------------
(* Type correctness.  The rows a transaction computes with exist because requests *)
(* and rows are never deleted, which is why the invariant speaks of them.         *)

(* The tables start empty or seeded, and no call is being served.                  *)
LEMMA ShapeInit == Init => ShapeInv
<1> SUFFICES ASSUME Init PROVE ShapeInv
  OBVIOUS
<1>1. HcmTypeOK
  BY HcmAssumption DEF Init, HcmInit, HcmTypeOK
<1>2. balance \in [Key -> Row \cup {None}]
  BY HcmAssumption DEF Init, DbInit, Row
<1>3. /\ audit \in [Key -> Row \cup {None}]
      /\ status \in [Request -> RequestStatus \cup {"NONE"}]
  BY DEF Init, DbInit
<1>4. call \in [Call -> CallRecord]
  BY IdleType DEF Init, DbInit
<1>5. RowsExist
  BY DEF Init, DbInit, RowsExist
<1>6. CallShape
  BY DEF Init, DbInit, CallShape, Idle, Decisions
<1> QED
  BY <1>1, <1>2, <1>3, <1>4, <1>5, <1>6 DEF ShapeInv, TypeOK, DbTypeOK

(* What the step of a call being served does, to the HCM or to the tables.          *)
LEMMA ProgressFrame ==
  ASSUME ShapeInv, NEW c \in Call, Progress(c) \/ Fail(c)
  PROVE  HcmTypeOK' /\ TablesGrow /\ Continues(c)
<1>0. /\ HcmTypeOK /\ RowsExist
      /\ balance \in [Key -> Row \cup {None}]
      /\ audit \in [Key -> Row \cup {None}]
      /\ status \in [Request -> RequestStatus \cup {"NONE"}]
  BY DEF ShapeInv, TypeOK, DbTypeOK
<1>1. ASSUME UNCHANGED dbVars PROVE TablesGrow
  BY <1>0, <1>1 DEF dbVars, TablesGrow, StatusGrows, RowsExist
<1>2. ASSUME UNCHANGED hcmVars PROVE HcmTypeOK'
  BY <1>0, <1>2 DEF hcmVars, HcmTypeOK
<1>3. CASE HcmStep(c)
  BY <1>1, <1>3, HcmStepFrame
<1>4. CASE TimeOffTx(c)
  BY <1>2, <1>4, TimeOffTxFrame
<1>5. CASE refreshCommitted(c)
  BY <1>2, <1>5, RefreshFrame
<1>6. CASE refreshRefused(c) \/ Fail(c)
  BY <1>1, <1>2, <1>6, AnswerContinues
  DEF refreshRefused, Fail, Crash, RetriesExhausted
<1> QED
  BY <1>3, <1>4, <1>5, <1>6 DEF Progress, RefreshTx

(* Every step of the system preserves the shape of its state.                      *)
LEMMA ShapeStep == ShapeInv /\ [Next]_vars => ShapeInv'
<1> SUFFICES ASSUME ShapeInv, [Next]_vars PROVE ShapeInv'
  OBVIOUS
<1>0. /\ HcmTypeOK /\ RowsExist /\ CallShape
      /\ balance \in [Key -> Row \cup {None}]
      /\ audit \in [Key -> Row \cup {None}]
      /\ status \in [Request -> RequestStatus \cup {"NONE"}]
      /\ call \in [Call -> CallRecord]
  BY DEF ShapeInv, TypeOK, DbTypeOK
<1>1. CASE \E c \in Call : Arrive(c)
  <2> PICK c \in Call : Arrive(c)
    BY <1>1
  <2>1. /\ UNCHANGED <<hcmVars, dbVars>>
        /\ call' \in [Call -> CallRecord]
        /\ CallShape'
    BY ArriveFrame
  <2> QED
    BY <1>0, <2>1
    DEF ShapeInv, TypeOK, HcmTypeOK, DbTypeOK, RowsExist, hcmVars, dbVars
<1>2. CASE \E c \in Call : Progress(c) \/ Fail(c)
  <2> PICK c \in Call : Progress(c) \/ Fail(c)
    BY <1>2
  <2>1. HcmTypeOK' /\ TablesGrow /\ Continues(c)
    BY ProgressFrame
  <2>2. call' \in [Call -> CallRecord] /\ CallShape'
    BY <2>1, ContinuesShape DEF TablesGrow
  <2> QED
    BY <2>1, <2>2 DEF ShapeInv, TypeOK, DbTypeOK, TablesGrow
<1>3. CASE HcmEvent
  <2>1. UNCHANGED <<dbVars, call, deducts, credits>>
    BY <1>3 DEF HcmEvent, setBalance, applyAnniversary, reset
  <2>2. hcm' \in [Key -> Nat]
    <3>1. ASSUME NEW k \in Key, NEW v \in SetValues, setBalance(k, v)
          PROVE  hcm' \in [Key -> Nat]
      BY <1>0, <3>1, HcmAssumption DEF setBalance, HcmTypeOK
    <3>2. ASSUME NEW k \in Key, applyAnniversary(k)
          PROVE  hcm' \in [Key -> Nat]
      BY <1>0, <3>2, HcmAssumption DEF applyAnniversary, HcmTypeOK
    <3>3. ASSUME reset PROVE hcm' \in [Key -> Nat]
      BY <3>3 DEF reset
    <3> QED
      BY <1>3, <3>1, <3>2, <3>3 DEF HcmEvent
  <2> QED
    BY <1>0, <2>1, <2>2
    DEF ShapeInv, TypeOK, HcmTypeOK, DbTypeOK, RowsExist, CallShape, dbVars
<1>4. CASE Push
  <2> PICK k \in Key, v \in SyncValues : SyncEntry(k, v)
    BY <1>4 DEF Push
  <2>1. UNCHANGED <<hcmVars, status, call>> /\ TablesGrow
    BY PushFrame
  <2> QED
    BY <1>0, <2>1
    DEF ShapeInv, TypeOK, HcmTypeOK, DbTypeOK, CallShape, TablesGrow, hcmVars
<1>5. CASE UNCHANGED vars
  BY <1>0, <1>5
  DEF ShapeInv, TypeOK, HcmTypeOK, DbTypeOK, RowsExist, CallShape,
      vars, hcmVars, dbVars
<1> QED
  BY <1>1, <1>2, <1>3, <1>4, <1>5 DEF Next

(* Whatever overlaps and fails, a transaction finds the rows it counts on: rows,  *)
(* audit entries and calls have their types, a call is about a request that is in *)
(* the table, and a request in the table has its balance row.                     *)
THEOREM ShapeCorrect == Spec => []ShapeInv
<1> QED
  BY ShapeInit, ShapeStep, PTL DEF Spec

(* Type correctness of the whole system.                                          *)
THEOREM TypeCorrect == Spec => []TypeOK
<1>1. ShapeInv => TypeOK
  BY DEF ShapeInv
<1> QED
  BY <1>1, ShapeCorrect, PTL

-------------------------------------------------------------------------------
(* The HCM books first.  What is needed besides the two properties: a call that    *)
(* is about to approve, complete or cancel an approval knows of a deduction.       *)

CallBooked(c) ==
  At(c, "approve", "tx") \/ call[c].op \in {"complete", "cancelApproved"} =>
    deducts[call[c].req] > 0

BookedInv ==
  /\ ShapeInv
  /\ ApprovedWasDeducted
  /\ CreditedWasDeducted
  /\ \A c \in Call : CallBooked(c)

(* A free slot knows of nothing and claims nothing.                               *)
LEMMA AnswerBooked ==
  ASSUME TypeOK, NEW c \in Call, Answer(c)
  PROVE  CallBooked(c)'
<1>1. call'[c] = Idle
  BY DEF Answer, TypeOK, DbTypeOK
<1> QED
  BY <1>1 DEF CallBooked, At, Idle

(* Nor does an approval whose attempt had no reply: it tries again, or ends.       *)
LEMMA NoReplyBooked ==
  ASSUME TypeOK, NEW c \in Call, call[c].pc = "hcm", CallBooked(c),
         call[c].op \in Decisions => call[c].req \in Request,
         NoReply(c),
         \A r \in Request : deducts[r] > 0 => deducts'[r] > 0
  PROVE  CallBooked(c)'
<1>0. call \in [Call -> CallRecord] /\ call[c] \in CallRecord
  BY DEF TypeOK, DbTypeOK
<1>1. CASE Retry(c)
  <2>1. /\ call'[c].op = call[c].op /\ call'[c].pc = "hcm"
        /\ call'[c].req = call[c].req
    BY <1>0, <1>1 DEF Retry, CallRecord
  <2> QED
    BY <2>1 DEF CallBooked, At, Decisions
<1>2. CASE GiveUp(c)
  <2>1. CASE call[c].op = "create"
    <3>1. call'[c].op = "create"
      BY <1>0, <1>2, <2>1 DEF GiveUp, ToTx, CallRecord
    <3> QED
      BY <3>1 DEF CallBooked, At
  <2>2. CASE call[c].op # "create"
    BY <1>2, <2>2, AnswerBooked DEF GiveUp
  <2> QED
    BY <2>1, <2>2
<1> QED
  BY <1>1, <1>2 DEF NoReply

(* A booking that is answered moves its call on with a deduction behind it.        *)
LEMMA RepliedBooked ==
  ASSUME TypeOK, NEW c \in Call, call[c].pc = "hcm", CallBooked(c),
         call[c].req \in Request,
         Replied(c, -1),
         deducts'[call[c].req] > 0,
         \A r \in Request : deducts[r] > 0 => deducts'[r] > 0
  PROVE  CallBooked(c)'
<1>0. call \in [Call -> CallRecord] /\ call[c] \in CallRecord
  BY DEF TypeOK, DbTypeOK
<1>1. CASE ToTx(c, -1)
  <2>1. call'[c].req = call[c].req
    BY <1>0, <1>1 DEF ToTx, CallRecord
  <2> QED
    BY <2>1 DEF CallBooked
<1>2. CASE NoReply(c)
  BY <1>2, NoReplyBooked
<1> QED
  BY <1>1, <1>2 DEF Replied

(* The other calls keep what they know.                                           *)
LEMMA OthersBooked ==
  ASSUME BookedInv, NEW c \in Call, NEW d \in Call, d # c,
         call'[d] = call[d],
         \A r \in Request : deducts[r] > 0 => deducts'[r] > 0
  PROVE  CallBooked(d)'
<1>1. CallBooked(d)
  BY DEF BookedInv
<1>2. call[d].op \in {"approve", "complete", "cancelApproved"}
        => call[d].req \in Request
  BY DEF BookedInv, ShapeInv, CallShape, Decisions
<1> QED
  BY <1>1, <1>2 DEF CallBooked, At

(* The two properties follow for a step that makes no request APPROVED or          *)
(* COMPLETED without a deduction, credits nothing new, and forgets no deduction.   *)
LEMMA BookedKept ==
  ASSUME BookedInv,
         \A r \in Request : deducts[r] > 0 => deducts'[r] > 0,
         UNCHANGED credits,
         \A r \in Request :
           status'[r] \in {"APPROVED", "COMPLETED"} =>
             status'[r] = status[r] \/ deducts[r] > 0
  PROVE  ApprovedWasDeducted' /\ CreditedWasDeducted'
BY DEF BookedInv, ApprovedWasDeducted, CreditedWasDeducted

(* An HCM call books before anything is recorded, and credits only an approval.    *)
LEMMA BookedHcmStep ==
  ASSUME BookedInv, NEW c \in Call, HcmStep(c)
  PROVE  ApprovedWasDeducted' /\ CreditedWasDeducted' /\ CallBooked(c)'
<1> DEFINE r == call[c].req
<1>0. /\ TypeOK /\ CallBooked(c) /\ status' = status
      /\ deducts \in [Request -> Nat] /\ credits \in [Request -> Nat]
      /\ call[c].op \in Decisions => r \in Request
      /\ call \in [Call -> CallRecord] /\ call[c] \in CallRecord
  BY HcmStepFrame
  DEF BookedInv, ShapeInv, CallShape, TypeOK, HcmTypeOK, DbTypeOK, dbVars
<1>1. CASE Unavailable(c)
  <2>1. UNCHANGED <<deducts, credits>> /\ NoReply(c) /\ call[c].pc = "hcm"
    BY <1>1 DEF Unavailable, hcmVars
  <2> QED
    BY <1>0, <2>1, NoReplyBooked, BookedKept
<1>2. CASE getBalance(c)
  <2>1. UNCHANGED <<deducts, credits>>
    BY <1>2 DEF getBalance, hcmVars
  <2>2. call'[c].op \in {"create", "refresh"}
    BY <1>0, <1>2 DEF getBalance, ToTx, CallRecord
  <2>3. CallBooked(c)'
    BY <2>2 DEF CallBooked, At
  <2> QED
    BY <1>0, <2>1, <2>3, BookedKept
<1>3. CASE deductBalance(c)
  <2>1. /\ call[c].op \in Decisions /\ call[c].pc = "hcm" /\ Replied(c, -1)
        /\ deducts' = [deducts EXCEPT ![r] = @ + 1] /\ UNCHANGED credits
    BY <1>3 DEF deductBalance, deduct, At, Decisions
  <2>2. /\ deducts'[r] > 0
        /\ \A q \in Request : deducts[q] > 0 => deducts'[q] > 0
    BY <1>0, <2>1
  <2> QED
    BY <1>0, <2>1, <2>2, RepliedBooked, BookedKept
<1>4. CASE deductRefused(c)
  <2>1. UNCHANGED <<deducts, credits>> /\ Answer(c)
    BY <1>4 DEF deductRefused, hcmVars
  <2> QED
    BY <1>0, <2>1, AnswerBooked, BookedKept
<1>5. CASE creditBalance(c)
  <2>1. /\ call[c].op = "cancelApproved" /\ call[c].pc = "hcm" /\ Replied(c, -1)
        /\ credits' = [credits EXCEPT ![r] = @ + 1] /\ UNCHANGED deducts
    BY <1>5 DEF creditBalance, credit, At
  <2>2. r \in Request /\ deducts[r] > 0
    BY <1>0, <2>1 DEF CallBooked, Decisions
  <2>3. CallBooked(c)'
    BY <1>0, <2>1, <2>2, RepliedBooked
  <2>4. ApprovedWasDeducted'
    BY <1>0, <2>1 DEF BookedInv, ApprovedWasDeducted
  <2>5. CreditedWasDeducted'
    BY <1>0, <2>1, <2>2 DEF BookedInv, CreditedWasDeducted
  <2> QED
    BY <2>3, <2>4, <2>5
<1> QED
  BY <1>1, <1>2, <1>3, <1>4, <1>5 DEF HcmStep

(* A transaction approves or completes only what its call knows to be deducted.     *)
LEMMA BookedTx ==
  ASSUME BookedInv, NEW c \in Call,
         TimeOffTx(c) \/ RefreshTx(c) \/ Fail(c)
  PROVE  ApprovedWasDeducted' /\ CreditedWasDeducted' /\ CallBooked(c)'
         /\ UNCHANGED deducts
<1> DEFINE r == call[c].req
<1>0. /\ TypeOK /\ CallBooked(c) /\ ShapeInv
      /\ status \in [Request -> RequestStatus \cup {"NONE"}]
      /\ call[c].op \in Decisions => r \in Request
  BY DEF BookedInv, ShapeInv, CallShape, TypeOK, DbTypeOK
<1>1. Answer(c) /\ UNCHANGED <<deducts, credits>>
  BY DEF TimeOffTx, RefreshTx, refreshCommitted, refreshRefused, Fail, Crash,
         RetriesExhausted, createRefused, createReserved, createDuplicate, Reserve,
         approveRecorded, approveStale, rejectCommitted,
         cancelPendingCommitted, Release, cancelApprovedCommitted,
         completeCommitted, hcmVars
<1>2. CallBooked(c)'
  BY <1>0, <1>1, AnswerBooked
<1>3. ASSUME NEW q \in Request, status'[q] \in {"APPROVED", "COMPLETED"}
      PROVE  status'[q] = status[q] \/ deducts[q] > 0
  <2>1. CASE approveRecorded(c) \/ completeCommitted(c)
    <3>1. /\ call[c].op \in Decisions
          /\ At(c, "approve", "tx") \/ call[c].op = "complete"
      BY <2>1 DEF approveRecorded, completeCommitted, At, Decisions
    <3>2. r \in Request /\ deducts[r] > 0
      BY <1>0, <3>1 DEF CallBooked
    <3>3. q # r => status'[q] = status[q]
      BY <1>0, <2>1 DEF approveRecorded, completeCommitted
    <3> QED
      BY <3>2, <3>3
  <2>2. CASE rejectCommitted(c) \/ cancelPendingCommitted(c)
             \/ cancelApprovedCommitted(c)
    <3>1. call[c].op \in Decisions
      BY <2>2 DEF rejectCommitted, cancelPendingCommitted,
                  cancelApprovedCommitted, At, Decisions
    <3>2. \E s \in {"REJECTED", "CANCELLED"} : status' = [status EXCEPT ![r] = s]
      BY <2>2 DEF rejectCommitted, cancelPendingCommitted,
                  cancelApprovedCommitted, Release
    <3> QED
      BY <1>0, <1>3, <3>1, <3>2
  <2>3. CASE createReserved(c)
    <3>1. r \in Request
      BY <1>0, <2>3, ReserveFrame DEF createReserved
    <3>2. status' = [status EXCEPT ![r] = "PENDING"]
      BY <2>3 DEF createReserved
    <3> QED
      BY <1>0, <1>3, <3>1, <3>2
  <2>4. CASE createRefused(c) \/ createDuplicate(c) \/ approveStale(c)
             \/ RefreshTx(c) \/ Fail(c)
    BY <2>4 DEF createRefused, createDuplicate, approveStale, RefreshTx,
                refreshCommitted, refreshRefused, Fail, Crash, RetriesExhausted, dbVars
  <2> QED
    BY <2>1, <2>2, <2>3, <2>4 DEF TimeOffTx
<1> QED
  BY <1>1, <1>2, <1>3, BookedKept

(* A call that starts on an APPROVED request finds it deducted.                     *)
LEMMA BookedArrive ==
  ASSUME BookedInv, NEW c \in Call, Arrive(c)
  PROVE  /\ UNCHANGED <<hcmVars, dbVars>>
         /\ CallBooked(c)'
         /\ \A d \in Call : d # c => call'[d] = call[d]
<1>0. call \in [Call -> CallRecord] /\ ShapeInv
  BY DEF BookedInv, ShapeInv, TypeOK, DbTypeOK
<1>1. UNCHANGED <<hcmVars, dbVars>>
  BY <1>0, ArriveFrame
<1>2. ASSUME NEW op, NEW r, NEW k, NEW pc, Begin(c, op, r, k, pc)
      PROVE  /\ call'[c].op = op /\ call'[c].req = r /\ call'[c].pc = pc
             /\ \A d \in Call : d # c => call'[d] = call[d]
  BY <1>0, <1>2 DEF Begin, Idle
<1>3. CASE \E r \in Request : TimeOffStart(c, r)
  <2> PICK r \in Request : TimeOffStart(c, r)
    BY <1>3
  <2>0. deducts' = deducts
    BY <1>1 DEF hcmVars
  <2>1. CASE createRequest(c, r)
    <3>1. Begin(c, "create", r, KeyOf[r], "hcm")
      BY <2>1 DEF createRequest
    <3> QED
      BY <1>1, <1>2, <3>1 DEF CallBooked, At
  <2>2. CASE approveRequest(c, r)
    <3>1. Begin(c, "approve", r, KeyOf[r], "hcm")
      BY <2>2 DEF approveRequest
    <3> QED
      BY <1>1, <1>2, <3>1 DEF CallBooked, At
  <2>3. CASE rejectRequest(c, r)
    <3>1. Begin(c, "reject", r, KeyOf[r], "tx")
      BY <2>3 DEF rejectRequest
    <3> QED
      BY <1>1, <1>2, <3>1 DEF CallBooked, At
  <2>4. CASE cancelRequest(c, r)
    <3>1. CASE Begin(c, "cancelPending", r, KeyOf[r], "tx")
      BY <1>1, <1>2, <3>1 DEF CallBooked, At
    <3>2. CASE /\ status[r] = "APPROVED"
               /\ Begin(c, "cancelApproved", r, KeyOf[r], "hcm")
      <4>1. deducts[r] > 0
        BY <3>2 DEF BookedInv, ApprovedWasDeducted
      <4> QED
        BY <1>1, <1>2, <2>0, <3>2, <4>1 DEF CallBooked, At
    <3> QED
      BY <2>4, <3>1, <3>2 DEF cancelRequest
  <2>5. CASE completeRequest(c, r)
    <3>1. status[r] = "APPROVED" /\ Begin(c, "complete", r, KeyOf[r], "tx")
      BY <2>5 DEF completeRequest, Completable
    <3>2. deducts[r] > 0
      BY <3>1 DEF BookedInv, ApprovedWasDeducted
    <3> QED
      BY <1>1, <1>2, <2>0, <3>1, <3>2 DEF CallBooked, At
  <2> QED
    BY <2>1, <2>2, <2>3, <2>4, <2>5 DEF TimeOffStart
<1>4. CASE \E k \in Key : refresh(c, k)
  <2> PICK k \in Key : Begin(c, "refresh", None, k, "hcm")
    BY <1>4 DEF refresh
  <2> QED
    BY <1>1, <1>2 DEF CallBooked, At
<1> QED
  BY <1>3, <1>4 DEF Arrive

(* Deductions are never forgotten, and a call being served changes only itself.     *)
LEMMA CallsApart ==
  ASSUME ShapeInv, NEW c \in Call, Progress(c) \/ Fail(c)
  PROVE  /\ \A r \in Request : deducts[r] > 0 => deducts'[r] > 0
         /\ \A d \in Call : d # c => call'[d] = call[d]
<1>0. /\ deducts \in [Request -> Nat] /\ call \in [Call -> CallRecord]
  BY DEF ShapeInv, TypeOK, HcmTypeOK, DbTypeOK
<1>1. \A d \in Call : d # c => call'[d] = call[d]
  BY <1>0, ProgressFrame DEF Continues
<1>2. CASE deductBalance(c)
  <2>1. deducts' = [deducts EXCEPT ![call[c].req] = @ + 1]
    BY <1>2 DEF deductBalance, deduct
  <2> QED
    BY <1>0, <1>1, <2>1
<1>3. ASSUME UNCHANGED deducts
      PROVE  \A r \in Request : deducts[r] > 0 => deducts'[r] > 0
  BY <1>3
<1>4. CASE HcmStep(c) /\ ~deductBalance(c)
  <2>1. UNCHANGED deducts
    BY <1>4 DEF HcmStep, Unavailable, getBalance, deductRefused, creditBalance,
                credit, hcmVars
  <2> QED
    BY <1>1, <1>3, <2>1
<1>5. CASE TimeOffTx(c) \/ RefreshTx(c) \/ Fail(c)
  <2>1. UNCHANGED deducts
    BY <1>5 DEF TimeOffTx, RefreshTx, refreshCommitted, refreshRefused, Fail, Crash,
         RetriesExhausted, createRefused, createReserved, createDuplicate, Reserve,
         approveRecorded, approveStale, rejectCommitted,
         cancelPendingCommitted, Release, cancelApprovedCommitted,
         completeCommitted, hcmVars
  <2> QED
    BY <1>1, <1>3, <2>1
<1> QED
  BY <1>2, <1>4, <1>5 DEF Progress

(* At the start nothing is approved, credited or being served.                      *)
LEMMA BookedInit == Init => BookedInv
<1> SUFFICES ASSUME Init PROVE BookedInv
  OBVIOUS
<1>1. ApprovedWasDeducted /\ CreditedWasDeducted
  BY DEF Init, HcmInit, DbInit, ApprovedWasDeducted, CreditedWasDeducted
<1>2. \A c \in Call : CallBooked(c)
  BY DEF Init, DbInit, CallBooked, At, Idle
<1> QED
  BY <1>1, <1>2, ShapeInit DEF BookedInv

(* Every step preserves that the HCM has booked what is recorded.                   *)
LEMMA BookedStep == BookedInv /\ [Next]_vars => BookedInv'
<1> SUFFICES ASSUME BookedInv, [Next]_vars PROVE BookedInv'
  OBVIOUS
<1>0. ShapeInv /\ ShapeInv'
  BY ShapeStep DEF BookedInv
<1>1. CASE \E c \in Call : Arrive(c)
  <2> PICK c \in Call : Arrive(c)
    BY <1>1
  <2>1. /\ UNCHANGED <<status, deducts, credits>> /\ CallBooked(c)'
        /\ \A d \in Call : d # c => call'[d] = call[d]
    BY BookedArrive DEF hcmVars, dbVars
  <2>2. \A d \in Call : CallBooked(d)'
    BY <2>1, OthersBooked
  <2> QED
    BY <1>0, <2>1, <2>2, BookedKept DEF BookedInv
<1>2. CASE \E c \in Call : Progress(c) \/ Fail(c)
  <2> PICK c \in Call : Progress(c) \/ Fail(c)
    BY <1>2
  <2>1. ApprovedWasDeducted' /\ CreditedWasDeducted' /\ CallBooked(c)'
    BY BookedHcmStep, BookedTx DEF Progress
  <2>2. \A d \in Call : CallBooked(d)'
    BY <1>0, <2>1, CallsApart, OthersBooked
  <2> QED
    BY <1>0, <2>1, <2>2 DEF BookedInv
<1>3. CASE HcmEvent \/ Push \/ UNCHANGED vars
  <2>1. UNCHANGED <<status, deducts, credits, call>>
    BY <1>3 DEF HcmEvent, setBalance, applyAnniversary, reset, Push, SyncEntry,
                vars, hcmVars, dbVars
  <2>2. ApprovedWasDeducted' /\ CreditedWasDeducted'
    BY <2>1, BookedKept
  <2>3. \A c \in Call : CallBooked(c)'
    BY <2>1 DEF BookedInv, CallBooked, At
  <2> QED
    BY <1>0, <2>2, <2>3 DEF BookedInv
<1> QED
  BY <1>1, <1>2, <1>3 DEF Next

(* approveRequest tells the HCM first: whatever races, fails or crashes, a request  *)
(* that is APPROVED or COMPLETED has been deducted by the HCM.                      *)
THEOREM ApprovalsAreBooked == Spec => []ApprovedWasDeducted
<1>1. BookedInv => ApprovedWasDeducted
  BY DEF BookedInv
<1> QED
  BY <1>1, BookedInit, BookedStep, PTL DEF Spec

(* cancelRequest credits only what an approval has deducted.                        *)
THEOREM CreditsWereDeducted == Spec => []CreditedWasDeducted
<1>1. BookedInv => CreditedWasDeducted
  BY DEF BookedInv
<1> QED
  BY <1>1, BookedInit, BookedStep, PTL DEF Spec

-------------------------------------------------------------------------------
(* Overdrafts.                                                                    *)

(* A transaction of the time-off service leaves the available days of its row       *)
(* non-negative or does not lower them, whatever the row was when it was read.      *)
LEMMA TxCovers ==
  ASSUME ShapeInv, NEW c \in Call, TimeOffTx(c), NEW k \in Key
  PROVE  ~Overdraws(k)
<1> DEFINE l == call[c].key
           n == DaysOf[call[c].req]
<1> SUFFICES ASSUME Overdraws(k) PROVE FALSE
  OBVIOUS
<1>0. /\ balance \in [Key -> Row \cup {None}]
      /\ balance[k] \in Row
      /\ balance'[k] # balance[k]
  <2>1. balance \in [Key -> Row \cup {None}]
    BY DEF ShapeInv, TypeOK, DbTypeOK
  <2>2. balance[k] \in Row
    BY <2>1 DEF Overdraws
  <2>3. availableDays(balance[k]) \in Int
    BY <2>2 DEF availableDays, Row
  <2>4. availableDays(balance'[k]) < availableDays(balance[k])
    BY DEF Overdraws
  <2>5. ASSUME balance'[k] = balance[k] PROVE FALSE
    BY <2>3, <2>4, <2>5
  <2> QED
    BY <2>1, <2>2, <2>5
<1>1. CASE Reserve(c)
  <2>1. /\ l \in Key /\ n \in Nat /\ balance[l] \in Row
        /\ effectiveHcm(balance[l], call[c].seen) \in Int
        /\ balance'[l] = applyHcmRefreshAndIncrementPending(balance[l],
                            effectiveHcm(balance[l], call[c].seen), n)
        /\ \A j \in Key : j # l => balance'[j] = balance[j]
    BY <1>0, <1>1, ReserveFrame, RequestAssumption
  <2>2. effectiveHcm(balance[l], call[c].seen) - balance[l].pending >= n
    BY <1>1 DEF Reserve, Covered, Sufficient
  <2>3. /\ k = l /\ balance[l].pending \in Int
        /\ balance'[k].hcm = effectiveHcm(balance[l], call[c].seen)
        /\ balance'[k].pending = balance[l].pending + n
    BY <1>0, <2>1 DEF applyHcmRefreshAndIncrementPending, Row
  <2>4. balance'[k].hcm - balance'[k].pending >= 0
    BY <2>1, <2>2, <2>3
  <2>5. balance'[k].hcm \in Int /\ balance'[k].pending \in Int
    BY <2>1, <2>3
  <2> QED
    BY <2>4, <2>5 DEF Overdraws, availableDays
<1>2. CASE \/ approveRecorded(c) \/ rejectCommitted(c)
           \/ cancelPendingCommitted(c) \/ cancelApprovedCommitted(c)
  <2>1. call[c].op \in Decisions
    BY <1>2 DEF approveRecorded, rejectCommitted, cancelPendingCommitted,
                cancelApprovedCommitted, At, Decisions
  <2>2. l \in Key /\ n \in Nat /\ balance[l] \in Row
    BY <2>1, DecisionFacts
  <2>3. PICK row \in {applyApproval(balance[l], n), decrementPending(balance[l], n),
                      applyCancellationOfApproved(balance[l], n)} :
          balance' = [balance EXCEPT ![l] = row]
    BY <1>2 DEF approveRecorded, rejectCommitted, cancelPendingCommitted, Release,
                cancelApprovedCommitted, Commit
  <2>4. k = l /\ balance'[k] = row
    BY <1>0, <2>2, <2>3
  <2>5. availableDays(row) >= availableDays(balance[l])
    BY <2>2 DEF applyApproval, decrementPending, applyCancellationOfApproved,
                availableDays, Row
  <2>6. availableDays(balance[l]) \in Int /\ availableDays(row) \in Int
    BY <2>2 DEF applyApproval, decrementPending, applyCancellationOfApproved,
                availableDays, Row
  <2> QED
    BY <2>4, <2>5, <2>6 DEF Overdraws
<1>3. CASE createRefused(c) \/ approveStale(c) \/ completeCommitted(c)
  BY <1>0, <1>3 DEF createRefused, approveStale, completeCommitted, dbVars
<1> QED
  BY <1>1, <1>2, <1>3 DEF TimeOffTx, createReserved, createDuplicate

(* In a step of the system only a push or a refresh overdraws.                      *)
LEMMA OverdraftStep ==
  ASSUME ShapeInv, [Next]_vars
  PROVE  \A k \in Key : Overdraws(k) => Push \/ \E c \in Call : refreshCommitted(c)
<1> DEFINE A == \A k \in Key : Overdraws(k) =>
                  Push \/ \E c \in Call : refreshCommitted(c)
<1>1. ASSUME UNCHANGED balance PROVE A
  <2>1. ASSUME NEW k \in Key PROVE ~Overdraws(k)
    <3>1. ShapeInv => balance \in [Key -> Row \cup {None}]
      BY DEF ShapeInv, TypeOK, DbTypeOK
    <3>2. balance[k] # None => availableDays(balance[k]) \in Int
      BY <3>1 DEF availableDays, Row
    <3> QED
      BY <1>1, <3>2 DEF Overdraws
  <2> QED
    BY <2>1
<1>2. CASE \E c \in Call : Arrive(c)
  BY <1>1, <1>2, ArriveFrame DEF dbVars
<1>3. CASE \E c \in Call : HcmStep(c) \/ refreshRefused(c) \/ Fail(c)
  BY <1>1, <1>3, HcmStepFrame
  DEF refreshRefused, Fail, Crash, RetriesExhausted, dbVars
<1>4. CASE \E c \in Call : TimeOffTx(c)
  BY <1>4, TxCovers
<1>5. CASE Push \/ \E c \in Call : refreshCommitted(c)
  BY <1>5
<1>6. CASE HcmEvent \/ UNCHANGED vars
  BY <1>1, <1>6 DEF HcmEvent, vars, dbVars
<1> QED
  BY <1>2, <1>3, <1>4, <1>5, <1>6 DEF Next, Progress, RefreshTx

(* Only a balance learned from the HCM can overdraw the available days.             *)
THEOREM OverdraftsComeFromSync == Spec => OnlySyncOverdraws
<1>1. ShapeInv /\ [Next]_vars => ShapeInv'
        /\ [\A k \in Key : Overdraws(k) =>
              Push \/ \E c \in Call : refreshCommitted(c)]_vars
  BY OverdraftStep, ShapeStep
<1> QED
  BY <1>1, ShapeInit, PTL DEF Spec, OnlySyncOverdraws
================================================================================
