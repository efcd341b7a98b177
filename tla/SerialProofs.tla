------------------------------ MODULE SerialProofs ------------------------------
(* Theorems of ExampleHR under the serial discipline: the service implements the  *)
(* ledger of Reservations, and what the ledger keeps the service keeps.           *)
EXTENDS ExampleHRProofs

-------------------------------------------------------------------------------
(* The reserved days, as the ledger sees them.                                   *)

\* The reserved days of a row, none if there is no row.
reservedDays(row) == IF row = None THEN 0 ELSE row.pending

(* A step that leaves the reserved days of every key alone leaves Reserved alone. *)
LEMMA ReservedKept ==
  ASSUME \A k \in Key : reservedDays(balance'[k]) = reservedDays(balance[k])
  PROVE  Reserved' = Reserved
BY DEF Reserved, reservedDays

(* A step that changes one row changes Reserved there.                            *)
LEMMA ReservedChanged ==
  ASSUME NEW k \in Key, NEW v,
         reservedDays(balance'[k]) = reservedDays(balance[k]) + v,
         \A l \in Key : l # k => balance'[l] = balance[l]
  PROVE  Reserved' = [Reserved EXCEPT ![k] = @ + v]
<1>1. \A l \in Key : l # k => reservedDays(balance'[l]) = reservedDays(balance[l])
  BY DEF reservedDays
<1>2. \A l \in Key : Reserved[l] = reservedDays(balance[l])
  BY DEF Reserved, reservedDays
<1>3. Reserved' = [l \in Key |-> reservedDays(balance'[l])]
  BY DEF Reserved, reservedDays
<1>4. Reserved = [l \in Key |-> reservedDays(balance[l])]
  BY DEF Reserved, reservedDays
<1> QED
  BY <1>1, <1>3, <1>4

\* The reserved days of k drop by n.
Drops(k, n) == Reserved' = [Reserved EXCEPT ![k] = @ - n]

(* A commit that lowers the reserved days of a request's row by v lowers Reserved. *)
LEMMA CommitReserved ==
  ASSUME ShapeInv, NEW c \in Call, call[c].op \in Decisions,
         NEW row \in Row, NEW logged, NEW v \in Int,
         Commit(call[c].key, row, logged),
         row.pending = balance[call[c].key].pending - v
  PROVE  Drops(KeyOf[call[c].req], v)
<1> DEFINE k == call[c].key
<1>1. /\ k \in Key /\ k = KeyOf[call[c].req] /\ balance[k] \in Row
      /\ balance \in [Key -> Row \cup {None}]
  BY DecisionFacts DEF ShapeInv, TypeOK, DbTypeOK
<1>2. balance'[k] = row /\ \A l \in Key : l # k => balance'[l] = balance[l]
  BY <1>1 DEF Commit
<1>3. balance[k] # None /\ balance'[k] # None
  BY <1>1, <1>2, NoneAssumption
<1>4. reservedDays(balance'[k]) = reservedDays(balance[k]) - v /\ reservedDays(balance[k]) \in Int
  BY <1>1, <1>2, <1>3 DEF reservedDays, Row
<1>5. Reserved[k] = reservedDays(balance[k])
  BY <1>1 DEF Reserved, reservedDays
<1>6. reservedDays(balance'[k]) = reservedDays(balance[k]) + (-v)
  BY <1>4
<1>7. Reserved' = [Reserved EXCEPT ![k] = @ + (-v)]
  BY <1>1, <1>2, <1>6, ReservedChanged
<1>8. Reserved[k] + (-v) = Reserved[k] - v
  BY <1>4, <1>5
<1> QED
  BY <1>1, <1>7, <1>8 DEF Drops

-------------------------------------------------------------------------------
(* Each transaction is a step of the ledger.                                      *)

(* A creation that commits is the ledger's Create: its key is still free.          *)
LEMMA CreateMoves ==
  ASSUME SerialInv, NEW c \in Call, createReserved(c)
  PROVE  /\ call[c].req \in Request
         /\ status[call[c].req] = "NONE"
         /\ status' = [status EXCEPT ![call[c].req] = "PENDING"]
         /\ Ledger!Create(call[c].req)
<1> DEFINE k == call[c].key
           r == call[c].req
<1>1. /\ Reserve(c) /\ ~Taken(r) /\ call[c].op = "create"
      /\ status' = [status EXCEPT ![r] = "PENDING"]
  BY DEF createReserved, Reserve, At
<1>2. /\ r \in Request /\ k = KeyOf[r] /\ k \in Key /\ balance[k] \in Row
      /\ balance \in [Key -> Row \cup {None}]
      /\ DaysOf[r] \in Nat
      /\ balance'[k] \in Row
      /\ \A l \in Key : l # k => balance'[l] = balance[l]
      /\ balance' = [balance EXCEPT ![k] =
           applyHcmRefreshAndIncrementPending(balance[k],
             effectiveHcm(balance[k], call[c].seen), DaysOf[r])]
  BY <1>1, ReserveFrame, RequestAssumption
  DEF SerialInv, ShapeInv, TypeOK, DbTypeOK
<1>3. balance'[k].pending = balance[k].pending + DaysOf[r]
  BY <1>2 DEF applyHcmRefreshAndIncrementPending
<1>4. reservedDays(balance'[k]) = reservedDays(balance[k]) + DaysOf[r]
  BY <1>2, <1>3, NoneAssumption DEF reservedDays
<1>5. Reserved' = [Reserved EXCEPT ![KeyOf[r]] = @ + DaysOf[r]]
  BY <1>2, <1>4, ReservedChanged
<1>6. status[r] = "NONE"
  BY <1>1, <1>2 DEF SerialInv, StatusAsRead
<1>7. Ledger!Fresh(r)
  BY <1>1, <1>2 DEF Ledger!Fresh, Taken
<1> QED
  BY <1>1, <1>2, <1>5, <1>6, <1>7 DEF Ledger!Create, Ledger!Move

(* A decision moves a request from the status it read to another one.              *)
Moved(c, from, to) ==
  /\ call[c].op \in Decisions
  /\ status[call[c].req] = from
  /\ status' = [status EXCEPT ![call[c].req] = to]

(* The three ways a PENDING request is closed are the ledger's Decide.             *)
LEMMA DecideMoves ==
  ASSUME SerialInv, NEW c \in Call,
         approveRecorded(c) \/ rejectCommitted(c) \/ cancelPendingCommitted(c)
  PROVE  /\ Ledger!Decide(call[c].req)
         /\ \E to \in {"APPROVED", "REJECTED", "CANCELLED"} :
              Moved(c, "PENDING", to)
<1> DEFINE k == call[c].key
           r == call[c].req
<1>1. call[c].op \in Decisions /\ ShapeInv
  BY DEF approveRecorded, rejectCommitted, cancelPendingCommitted, At, Decisions,
         SerialInv
<1>2. r \in Request /\ DaysOf[r] \in Int /\ balance[k] \in Row
  BY <1>1, DecisionFacts
<1>3. status[r] = "PENDING"
  BY <1>2 DEF approveRecorded, StillPending, rejectCommitted,
              cancelPendingCommitted, At, SerialInv, StatusAsRead
<1>4. PICK to \in {"APPROVED", "REJECTED", "CANCELLED"} :
        status' = [status EXCEPT ![r] = to]
  BY DEF approveRecorded, rejectCommitted, cancelPendingCommitted, Release
<1>5. Drops(KeyOf[r], DaysOf[r])
  <2>1. CASE approveRecorded(c)
    <3> DEFINE row == applyApproval(balance[k], DaysOf[r])
               logged == [hcm     |-> balance[k].hcm - DaysOf[r],
                          pending |-> balance[k].pending - DaysOf[r]]
    <3>1. row \in Row /\ row.pending = balance[k].pending - DaysOf[r]
      BY <1>2 DEF applyApproval, Row
    <3>2. Commit(k, row, logged)
      BY <2>1 DEF approveRecorded
    <3> HIDE DEF row, logged
    <3> QED
      BY <1>1, <1>2, <3>1, <3>2, CommitReserved
  <2>2. CASE rejectCommitted(c) \/ cancelPendingCommitted(c)
    <3> DEFINE row == decrementPending(balance[k], DaysOf[r])
               logged == [hcm     |-> balance[k].hcm,
                          pending |-> balance[k].pending - DaysOf[r]]
    <3>1. row \in Row /\ row.pending = balance[k].pending - DaysOf[r]
      BY <1>2 DEF decrementPending, Row
    <3>2. Commit(k, row, logged)
      BY <2>2 DEF rejectCommitted, cancelPendingCommitted, Release
    <3> HIDE DEF row, logged
    <3> QED
      BY <1>1, <1>2, <3>1, <3>2, CommitReserved
  <2> QED
    BY <2>1, <2>2
<1> QED
  BY <1>1, <1>3, <1>4, <1>5 DEF Moved, Drops, Ledger!Decide, Ledger!Move

(* Cancelling and completing an approved request are the ledger's Settle.          *)
LEMMA SettleMoves ==
  ASSUME SerialInv, NEW c \in Call,
         cancelApprovedCommitted(c) \/ completeCommitted(c)
  PROVE  /\ Ledger!Settle(call[c].req)
         /\ \E to \in {"COMPLETED", "CANCELLED"} : Moved(c, "APPROVED", to)
<1> DEFINE k == call[c].key
           r == call[c].req
<1>1. call[c].op \in Decisions /\ ShapeInv
  BY DEF cancelApprovedCommitted, completeCommitted, At, Decisions, SerialInv
<1>2. r \in Request /\ DaysOf[r] \in Int /\ balance[k] \in Row
      /\ KeyOf[r] \in Key
  BY <1>1, DecisionFacts, RequestAssumption
<1>3. status[r] = "APPROVED"
  BY <1>2 DEF cancelApprovedCommitted, completeCommitted, At, SerialInv,
              StatusAsRead
<1>4. PICK to \in {"COMPLETED", "CANCELLED"} : status' = [status EXCEPT ![r] = to]
  BY DEF cancelApprovedCommitted, completeCommitted
<1>5. Reserved' = Reserved
  <2>1. CASE cancelApprovedCommitted(c)
    <3>1. /\ balance' = [balance EXCEPT ![k] =
                applyCancellationOfApproved(balance[k], DaysOf[r])]
          /\ balance \in [Key -> Row \cup {None}]
      BY <1>1, <2>1 DEF cancelApprovedCommitted, Commit, ShapeInv, TypeOK, DbTypeOK
    <3>2. /\ applyCancellationOfApproved(balance[k], DaysOf[r]) \in Row
          /\ applyCancellationOfApproved(balance[k], DaysOf[r]).pending
               = balance[k].pending
      BY <1>2 DEF applyCancellationOfApproved, Row
    <3>3. \A l \in Key : reservedDays(balance'[l]) = reservedDays(balance[l])
      BY <1>2, <3>1, <3>2, NoneAssumption DEF reservedDays
    <3> QED
      BY <3>3, ReservedKept
  <2>2. CASE completeCommitted(c)
    BY <2>2 DEF completeCommitted, Reserved
  <2> QED
    BY <2>1, <2>2
<1> QED
  BY <1>1, <1>3, <1>4, <1>5 DEF Moved, Ledger!Settle, Ledger!Move

-------------------------------------------------------------------------------
(* What a handler has read stays so until it commits.                             *)

(* The calls after a step of c: c goes on or has ended, the others are as before.  *)
LEMMA CallsAfter ==
  ASSUME ShapeInv, NEW c \in Call, Continues(c), NEW d \in Call
  PROVE  /\ \/ call'[d].op = "none"
            \/ call'[d].op = call[d].op /\ call'[d].req = call[d].req
         /\ d # c => call'[d] = call[d]
<1>1. call \in [Call -> CallRecord] /\ Idle.op = "none"
  BY DEF ShapeInv, TypeOK, DbTypeOK, Idle
<1> QED
  BY <1>1 DEF Continues

(* Two creations stay about two requests when a call goes on or ends.              *)
LEMMA CreatesStayApart ==
  ASSUME SerialInv, NEW c \in Call, Continues(c)
  PROVE  CreatesDiffer'
<1>1. ASSUME NEW d \in Call, NEW r \in Request, Creates(d, r)'
      PROVE  Creates(d, r)
  BY <1>1, CallsAfter DEF SerialInv, Creates
<1> QED
  BY <1>1 DEF SerialInv, CreatesDiffer

(* Where no status changes, what has been read stays true.                         *)
LEMMA ReadsKept ==
  ASSUME SerialInv, NEW c \in Call, Continues(c), UNCHANGED status
  PROVE  StatusAsRead'
<1>1. \A d \in Call : \/ call'[d].op = "none"
                      \/ call'[d].op = call[d].op /\ call'[d].req = call[d].req
  BY CallsAfter DEF SerialInv
<1>2. \A r \in Request : Taken(r)' = Taken(r)
  BY DEF Taken
<1> QED
  BY <1>1, <1>2 DEF SerialInv, StatusAsRead

(* A decision that commits disturbs no other call: only a second approval may be    *)
(* about the same request, and it has claimed nothing.                             *)
LEMMA ReadsDecided ==
  ASSUME SerialInv, NEW c \in Call, Continues(c), call'[c] = Idle,
         NEW from, NEW to, from # "NONE", to # "NONE", Moved(c, from, to)
  PROVE  StatusAsRead'
<1> DEFINE q == call[c].req
<1>0. /\ ShapeInv /\ q \in Request
      /\ status \in [Request -> RequestStatus \cup {"NONE"}]
  BY DecisionFacts DEF SerialInv, Moved, ShapeInv, TypeOK, DbTypeOK
<1>1. /\ \A r \in Request : status'[r] = "NONE" <=> status[r] = "NONE"
      /\ \A r \in Request : r # q => status'[r] = status[r]
  BY <1>0 DEF Moved
<1>2. \A r \in Request : Taken(r)' = Taken(r)
  BY <1>1 DEF Taken
<1>3. ASSUME NEW d \in Call, NEW r \in Request, call'[d].req = r
      PROVE
        /\ call'[d].op \in {"reject", "cancelPending"} => status'[r] = "PENDING"
        /\ call'[d].op \in {"cancelApproved", "complete"} => status'[r] = "APPROVED"
        /\ call'[d].op = "create" => status'[r] = "NONE" /\ ~Taken(r)'
  <2>1. CASE d = c
    BY <2>1 DEF Idle
  <2>2. CASE d # c
    <3>1. call'[d] = call[d]
      BY <1>0, <2>2, CallsAfter
    <3>2. call[d].op = "create" => status'[r] = "NONE" /\ ~Taken(r)'
      BY <1>1, <1>2, <1>3, <3>1 DEF SerialInv, StatusAsRead
    <3>3. CASE r # q
      BY <1>1, <1>3, <3>1, <3>2, <3>3 DEF SerialInv, StatusAsRead
    <3>4. CASE r = q /\ call[d].op \in Decisions
      <4>1. Decides(c, q) /\ Decides(d, q)
        BY <1>3, <3>1, <3>4 DEF Decides, Moved
      <4>2. call[d].op = "approve"
        BY <1>0, <2>2, <4>1, ToleratedAssumption DEF SerialInv, Exclusive
      <4> QED
        BY <3>1, <4>2
    <3> QED
      BY <3>1, <3>2, <3>3, <3>4 DEF Decisions
  <2> QED
    BY <2>1, <2>2
<1> QED
  BY <1>3 DEF StatusAsRead

(* A creation that commits takes its key from no other creation under way.          *)
LEMMA ReadsCreated ==
  ASSUME SerialInv, NEW c \in Call, Continues(c), call'[c] = Idle,
         createReserved(c)
  PROVE  StatusAsRead'
<1> DEFINE q == call[c].req
<1>0. /\ ShapeInv /\ q \in Request /\ status[q] = "NONE"
      /\ status' = [status EXCEPT ![q] = "PENDING"]
      /\ status \in [Request -> RequestStatus \cup {"NONE"}]
      /\ Creates(c, q)
  BY CreateMoves
  DEF SerialInv, ShapeInv, TypeOK, DbTypeOK, createReserved, Reserve, At, Creates
<1>1. \A r \in Request : r # q => status'[r] = status[r]
  BY <1>0
<1>2. ASSUME NEW d \in Call, NEW r \in Request, call'[d].req = r
      PROVE
        /\ call'[d].op \in {"reject", "cancelPending"} => status'[r] = "PENDING"
        /\ call'[d].op \in {"cancelApproved", "complete"} => status'[r] = "APPROVED"
        /\ call'[d].op = "create" => status'[r] = "NONE" /\ ~Taken(r)'
  <2>1. CASE d = c
    BY <2>1 DEF Idle
  <2>2. CASE d # c
    <3>1. call'[d] = call[d]
      BY <1>0, <2>2, CallsAfter
    <3>2. CASE call[d].op \in Decisions
      <4>1. r # q
        BY <1>0, <1>2, <3>1, <3>2 DEF ShapeInv, CallShape
      <4> QED
        BY <1>1, <1>2, <3>1, <3>2, <4>1 DEF SerialInv, StatusAsRead, Decisions
    <3>3. CASE call[d].op = "create"
      <4>1. Creates(d, r)
        BY <1>2, <3>1, <3>3 DEF Creates
      <4>2. r # q /\ (IdemOf[q] = None \/ IdemOf[q] # IdemOf[r])
        BY <1>0, <2>2, <4>1 DEF SerialInv, CreatesDiffer, KeysUsedOnce
      <4>3. status[r] = "NONE" /\ ~Taken(r)
        BY <1>2, <3>1, <3>3 DEF SerialInv, StatusAsRead
      <4>4. ~Taken(r)'
        BY <1>1, <4>2, <4>3 DEF Taken
      <4> QED
        BY <1>1, <3>1, <3>3, <4>2, <4>3, <4>4
    <3> QED
      BY <3>1, <3>2, <3>3 DEF Decisions
  <2> QED
    BY <2>1, <2>2
<1> QED
  BY <1>2 DEF StatusAsRead

(* A call that starts has just read what StatusAsRead says, and a creation starts    *)
(* with a request of its own.                                                      *)
LEMMA ReadsStarted ==
  ASSUME SerialInv, NEW c \in Call, Arrive(c)
  PROVE  StatusAsRead' /\ CreatesDiffer'
<1>0. /\ ShapeInv /\ call \in [Call -> CallRecord]
      /\ None \notin Request
  BY NoneAssumption DEF SerialInv, ShapeInv, TypeOK, DbTypeOK
<1>1. status' = status /\ \A r \in Request : Taken(r)' = Taken(r)
  BY <1>0, ArriveFrame DEF dbVars, Taken
<1>2. ASSUME NEW op, NEW q, NEW k, NEW pc, Begin(c, op, q, k, pc)
      PROVE  /\ call'[c].op = op /\ call'[c].req = q
             /\ \A d \in Call : d # c => call'[d] = call[d]
  BY <1>0, <1>2 DEF Begin, Idle
<1>3. PICK op, q :
        /\ call'[c].op = op /\ call'[c].req = q
        /\ \A d \in Call : d # c => call'[d] = call[d]
        /\ \/ q = None
           \/ /\ q \in Request
              /\ op \in {"reject", "cancelPending"} => status[q] = "PENDING"
              /\ op \in {"cancelApproved", "complete"} => status[q] = "APPROVED"
              /\ op = "create" =>
                   /\ status[q] = "NONE" /\ ~Taken(q)
                   /\ \A d \in Call : ~Creates(d, q)
  <2>1. CASE \E r \in Request : TimeOffStart(c, r)
    <3> PICK r \in Request : TimeOffStart(c, r)
      BY <2>1
    <3>1. CASE createRequest(c, r)
      BY <1>2, <3>1 DEF createRequest, Creates
    <3>2. CASE approveRequest(c, r)
      BY <1>2, <3>2 DEF approveRequest
    <3>3. CASE rejectRequest(c, r)
      BY <1>2, <3>3 DEF rejectRequest
    <3>4. CASE cancelRequest(c, r)
      BY <1>2, <3>4 DEF cancelRequest
    <3>5. CASE completeRequest(c, r)
      BY <1>2, <3>5 DEF completeRequest, Completable
    <3> QED
      BY <3>1, <3>2, <3>3, <3>4, <3>5 DEF TimeOffStart
  <2>2. CASE \E k \in Key : refresh(c, k)
    BY <1>2, <2>2 DEF refresh
  <2> QED
    BY <2>1, <2>2 DEF Arrive
<1>4. StatusAsRead'
  BY <1>0, <1>1, <1>3 DEF SerialInv, StatusAsRead
<1>5. CreatesDiffer'
  BY <1>0, <1>3 DEF SerialInv, CreatesDiffer, Creates
<1> QED
  BY <1>4, <1>5

-------------------------------------------------------------------------------
(* The steps of the system are steps of the ledger.                               *)

\* A step of the ledger, or none.
LedgerStep == Ledger!Next \/ UNCHANGED <<status, Reserved>>

\* The move a step makes along the status diagram, if any.
MovesAlong ==
  \A r \in Request : status'[r] # status[r] =>
    <<status[r], status'[r]>> \in Transition

(* A refresh or a push overwrites the HCM's balance and keeps what is reserved.     *)
LEMMA UpsertKeepsReserved ==
  ASSUME NEW k \in Key, NEW v,
         balance'[k] = upsertHcmBalance(balance[k], v),
         balance'[k] \in Row,
         \A l \in Key : l # k => balance'[l] = balance[l]
  PROVE  Reserved' = Reserved
<1>1. balance'[k] # None
  BY NoneAssumption
<1>2. \A l \in Key : reservedDays(balance'[l]) = reservedDays(balance[l])
  BY <1>1 DEF reservedDays, upsertHcmBalance
<1> QED
  BY <1>2, ReservedKept

(* The transactions of the time-off service.                                      *)
LEMMA TxMoves ==
  ASSUME SerialInv, NEW c \in Call, TimeOffTx(c)
  PROVE  LedgerStep /\ MovesAlong /\ StatusAsRead'
<1>0. /\ ShapeInv /\ Continues(c) /\ call'[c] = Idle
      /\ status \in [Request -> RequestStatus \cup {"NONE"}]
  <2>1. ShapeInv /\ call \in [Call -> CallRecord]
        /\ status \in [Request -> RequestStatus \cup {"NONE"}]
    BY DEF SerialInv, ShapeInv, TypeOK, DbTypeOK
  <2>2. Answer(c)
    BY DEF TimeOffTx, createRefused, createReserved, createDuplicate, Reserve,
           approveRecorded, approveStale, rejectCommitted,
           cancelPendingCommitted, Release, cancelApprovedCommitted,
           completeCommitted
  <2> QED
    BY <2>1, <2>2, AnswerContinues DEF Answer
<1>1. CASE createReserved(c)
  <2>1. Ledger!Next
    BY <1>1, CreateMoves DEF Ledger!Next
  <2>2. MovesAlong
    BY <1>0, <1>1, CreateMoves DEF MovesAlong, Transition
  <2> QED
    BY <1>0, <1>1, <2>1, <2>2, ReadsCreated DEF LedgerStep
<1>2. CASE approveRecorded(c) \/ rejectCommitted(c) \/ cancelPendingCommitted(c)
  <2> PICK to \in {"APPROVED", "REJECTED", "CANCELLED"} : Moved(c, "PENDING", to)
    BY <1>2, DecideMoves
  <2>1. call[c].req \in Request
    BY <1>0, DecisionFacts DEF Moved
  <2>2. LedgerStep
    BY <1>2, <2>1, DecideMoves DEF Ledger!Next, LedgerStep
  <2>3. MovesAlong
    BY <1>0, <2>1 DEF Moved, MovesAlong, Transition
  <2> QED
    BY <1>0, <2>2, <2>3, ReadsDecided
<1>3. CASE cancelApprovedCommitted(c) \/ completeCommitted(c)
  <2> PICK to \in {"COMPLETED", "CANCELLED"} : Moved(c, "APPROVED", to)
    BY <1>3, SettleMoves
  <2>1. call[c].req \in Request
    BY <1>0, DecisionFacts DEF Moved
  <2>2. LedgerStep
    BY <1>3, <2>1, SettleMoves DEF Ledger!Next, LedgerStep
  <2>3. MovesAlong
    BY <1>0, <2>1 DEF Moved, MovesAlong, Transition
  <2> QED
    BY <1>0, <2>2, <2>3, ReadsDecided
<1>4. ~createDuplicate(c)
  <2> SUFFICES ASSUME createDuplicate(c) PROVE FALSE
    OBVIOUS
  <2>1. call[c].op = "create" /\ call[c].req \in Request /\ Taken(call[c].req)
    BY <1>0 DEF createDuplicate, Reserve, At, ShapeInv, CallShape
  <2> QED
    BY <2>1 DEF SerialInv, StatusAsRead
<1>5. CASE createRefused(c) \/ approveStale(c)
  <2>1. UNCHANGED <<balance, status>>
    BY <1>5 DEF createRefused, approveStale, dbVars
  <2> QED
    BY <1>0, <2>1, ReadsKept DEF LedgerStep, MovesAlong, Reserved
<1> QED
  BY <1>1, <1>2, <1>3, <1>4, <1>5 DEF TimeOffTx

(* At the start nothing has been read or reserved.                                *)
LEMMA SerialInit == Init => SerialInv /\ Ledger!Init
<1> SUFFICES ASSUME Init PROVE SerialInv /\ Ledger!Init
  OBVIOUS
<1>1. \A c \in Call : call[c].op = "none"
  BY DEF Init, DbInit, Idle
<1>2. StatusAsRead /\ CreatesDiffer /\ Exclusive /\ KeysUsedOnce
  BY <1>1 DEF StatusAsRead, CreatesDiffer, Exclusive, KeysUsedOnce, Creates,
              Decides, Decisions
<1>3. \A k \in Key : reservedDays(balance[k]) = 0
  BY DEF Init, DbInit, reservedDays
<1>4. Ledger!Init
  BY <1>3 DEF Ledger!Init, Init, DbInit, Reserved, reservedDays
<1> QED
  BY <1>2, <1>4, ShapeInit DEF SerialInv

(* Under the discipline every step keeps what has been read, is a step of the       *)
(* ledger or none, and moves requests along the status diagram.                    *)
LEMMA SerialStep ==
  SerialInv /\ [SerialNext]_vars => SerialInv' /\ LedgerStep /\ MovesAlong
<1> SUFFICES ASSUME SerialInv, [SerialNext]_vars
             PROVE  SerialInv' /\ LedgerStep /\ MovesAlong
  OBVIOUS
<1>1. ShapeInv /\ ShapeInv'
  BY ShapeStep DEF SerialInv, SerialNext
<1>2. Exclusive' /\ KeysUsedOnce'
  <2>1. CASE SerialNext
    BY <2>1 DEF SerialNext
  <2>2. CASE UNCHANGED vars
    BY <2>2 DEF vars, SerialInv, Exclusive, KeysUsedOnce, Decides, Creates
  <2> QED
    BY <2>1, <2>2
<1>3. ASSUME StatusAsRead', CreatesDiffer', LedgerStep, MovesAlong
      PROVE  SerialInv' /\ LedgerStep /\ MovesAlong
  BY <1>1, <1>2, <1>3 DEF SerialInv
<1>4. ASSUME UNCHANGED <<status, balance>> PROVE LedgerStep /\ MovesAlong
  BY <1>4 DEF LedgerStep, MovesAlong, Reserved
<1>5. CASE \E c \in Call : Arrive(c)
  <2> PICK c \in Call : Arrive(c)
    BY <1>5
  <2>1. UNCHANGED <<status, balance>>
    BY <1>1, ArriveFrame DEF dbVars
  <2> QED
    BY <1>3, <1>4, <2>1, ReadsStarted
<1>6. CASE \E c \in Call : Progress(c) \/ Fail(c)
  <2> PICK c \in Call : Progress(c) \/ Fail(c)
    BY <1>6
  <2>1. Continues(c) /\ CreatesDiffer'
    BY <1>1, ProgressFrame, CreatesStayApart
  <2>2. CASE HcmStep(c) \/ refreshRefused(c) \/ Fail(c)
    <3>1. UNCHANGED <<status, balance>>
      BY <1>1, <2>2, HcmStepFrame
      DEF refreshRefused, Fail, Crash, RetriesExhausted, dbVars
    <3> QED
      BY <1>3, <1>4, <2>1, <3>1, ReadsKept
  <2>3. CASE TimeOffTx(c)
    BY <1>3, <2>1, <2>3, TxMoves
  <2>4. CASE refreshCommitted(c)
    <3>1. UNCHANGED status /\ Reserved' = Reserved
      BY <1>1, <2>4, RefreshFrame, UpsertKeepsReserved
    <3>2. LedgerStep /\ MovesAlong
      BY <3>1 DEF LedgerStep, MovesAlong
    <3> QED
      BY <1>3, <2>1, <3>1, <3>2, ReadsKept
  <2> QED
    BY <2>2, <2>3, <2>4 DEF Progress, RefreshTx
<1>7. CASE Push
  <2> PICK k \in Key, v \in SyncValues : SyncEntry(k, v)
    BY <1>7 DEF Push
  <2>1. UNCHANGED <<status, call>> /\ Reserved' = Reserved
    BY <1>1, PushFrame, UpsertKeepsReserved
  <2>2. LedgerStep /\ MovesAlong
    BY <2>1 DEF LedgerStep, MovesAlong
  <2>3. StatusAsRead' /\ CreatesDiffer'
    BY <2>1 DEF SerialInv, StatusAsRead, CreatesDiffer, Creates, Taken
  <2> QED
    BY <1>3, <2>2, <2>3
<1>8. CASE HcmEvent \/ UNCHANGED vars
  <2>1. UNCHANGED <<status, balance, call>>
    BY <1>8 DEF HcmEvent, vars, dbVars
  <2>2. StatusAsRead' /\ CreatesDiffer'
    BY <2>1 DEF SerialInv, StatusAsRead, CreatesDiffer, Creates, Taken
  <2> QED
    BY <1>3, <1>4, <2>1, <2>2
<1> QED
  BY <1>5, <1>6, <1>7, <1>8 DEF SerialNext, Next

-------------------------------------------------------------------------------
(* What the ledger keeps.                                                         *)

\* The reserved days are the days of the PENDING requests.
ReservedExact == \A k \in Key : Reserved[k] = sumPendingDays(status, k)

(* The ledger takes a request's days when it becomes PENDING and returns them once. *)
LEMMA LedgerExact ==
  ASSUME ReservedExact, LedgerStep,
         status \in [Request -> RequestStatus \cup {"NONE"}]
  PROVE  ReservedExact'
<1> DEFINE S == RequestStatus \cup {"NONE"}
<1> HIDE DEF S
<1>0. /\ status \in [Request -> S]
      /\ \A k \in Key : sumPendingDays(status, k) \in Nat
      /\ Reserved = [k \in Key |-> Reserved[k]]
  <2>1. Reserved = [k \in Key |-> Reserved[k]]
    BY DEF Reserved
  <2>2. \A k \in Key : sumPendingDays(status, k) \in Nat
    BY SumPendingDaysNat
  <2> QED
    BY <2>1, <2>2 DEF S
<1>1. ASSUME NEW r \in Request, Ledger!Create(r) PROVE ReservedExact'
  <2>1. /\ status[r] # "PENDING" /\ status' = [status EXCEPT ![r] = "PENDING"]
        /\ Reserved' = [Reserved EXCEPT ![KeyOf[r]] = @ + DaysOf[r]]
    BY <1>1 DEF Ledger!Create, Ledger!Move
  <2>2. ASSUME NEW k \in Key
        PROVE  Reserved'[k] = sumPendingDays(status', k)
    <3>1. sumPendingDays(status', k)
            = sumPendingDays(status, k) + IF k = KeyOf[r] THEN DaysOf[r] ELSE 0
      BY <1>0, <2>1, PendingAdded
    <3> QED
      BY <1>0, <2>1, <3>1, RequestAssumption DEF ReservedExact
  <2> QED
    BY <2>2 DEF ReservedExact
<1>2. ASSUME NEW r \in Request, Ledger!Decide(r) PROVE ReservedExact'
  <2>1. PICK to \in {"APPROVED", "REJECTED", "CANCELLED"} :
          status[r] = "PENDING" /\ status' = [status EXCEPT ![r] = to]
    BY <1>2 DEF Ledger!Decide, Ledger!Move
  <2>2. Reserved' = [Reserved EXCEPT ![KeyOf[r]] = @ - DaysOf[r]]
    BY <1>2 DEF Ledger!Decide
  <2>3. ASSUME NEW k \in Key
        PROVE  Reserved'[k] = sumPendingDays(status', k)
    <3>1. sumPendingDays(status', k)
            = sumPendingDays(status, k) - IF k = KeyOf[r] THEN DaysOf[r] ELSE 0
      BY <1>0, <2>1, PendingRemoved
    <3> QED
      BY <1>0, <2>2, <3>1, RequestAssumption DEF ReservedExact
  <2> QED
    BY <2>3 DEF ReservedExact
<1>3. ASSUME NEW r \in Request, Ledger!Settle(r) PROVE ReservedExact'
  <2>1. PICK to \in {"COMPLETED", "CANCELLED"} :
          status[r] = "APPROVED" /\ status' = [status EXCEPT ![r] = to]
    BY <1>3 DEF Ledger!Settle, Ledger!Move
  <2>2. Reserved' = Reserved
    BY <1>3 DEF Ledger!Settle
  <2>3. ASSUME NEW k \in Key
        PROVE  Reserved'[k] = sumPendingDays(status', k)
    <3>1. PendingRequests(status', k) = PendingRequests(status, k)
      BY <1>0, <2>1, PendingUntouched
    <3> QED
      BY <2>2, <3>1 DEF ReservedExact, sumPendingDays
  <2> QED
    BY <2>3 DEF ReservedExact
<1>4. CASE UNCHANGED <<status, Reserved>>
  BY <1>4 DEF ReservedExact
<1> QED
  BY <1>1, <1>2, <1>3, <1>4 DEF LedgerStep, Ledger!Next

(* At the start there is nothing to reserve for.                                  *)
LEMMA ExactInit == Init => ReservedExact
<1> SUFFICES ASSUME Init, NEW k \in Key
             PROVE  Reserved[k] = sumPendingDays(status, k)
  BY DEF ReservedExact
<1>1. PendingRequests(status, k) = {}
  BY DEF Init, DbInit, PendingRequests
<1>2. Reserved[k] = 0
  BY SerialInit DEF Ledger!Init
<1> QED
  BY <1>1, <1>2, SumDaysEmpty DEF sumPendingDays

-------------------------------------------------------------------------------
(* The theorems.                                                                  *)

(* Under the serial discipline the service is the ledger of Reservations, whatever  *)
(* the HCM, the pushes and the crashes do.                                         *)
THEOREM ServiceKeepsLedger == SerialSpec => KeepsLedger
<1>1. SerialInv /\ [SerialNext]_vars
        => SerialInv' /\ [Ledger!Next]_<<status, Reserved>>
  BY SerialStep DEF LedgerStep
<1> QED
  BY <1>1, SerialInit, PTL DEF SerialSpec, KeepsLedger, Ledger!Spec

(* No decision is undone: every change of a status follows the diagram.            *)
THEOREM StatusesFollowDiagram == SerialSpec => StatusMachine
<1>1. SerialInv /\ [SerialNext]_vars
        => SerialInv' /\ [\A r \in Request : status'[r] # status[r] =>
                            <<status[r], status'[r]>> \in Transition]_vars
  BY SerialStep DEF MovesAlong
<1> QED
  BY <1>1, SerialInit, PTL DEF SerialSpec, StatusMachine

(* TRD section 4: the reserved days of a balance are the days of its PENDING        *)
(* requests.                                                                      *)
THEOREM ReservationsExact == SerialSpec => []PendingMatchesRequests
<1>1. SerialInv /\ ReservedExact /\ [SerialNext]_vars => SerialInv' /\ ReservedExact'
  BY SerialStep, LedgerExact DEF SerialInv, ShapeInv, TypeOK, DbTypeOK
<1>2. ReservedExact => PendingMatchesRequests
  BY DEF ReservedExact, Reserved, PendingMatchesRequests
<1> QED
  BY <1>1, <1>2, SerialInit, ExactInit, PTL DEF SerialSpec

-------------------------------------------------------------------------------
(* The audit log.                                                                 *)

\* The row that the audit log, or the seed, gives key k.
Replayed(k) ==
  balance[k] = IF audit[k] # None THEN audit[k]
               ELSE IF k \in Seeded
               THEN [hcm |-> InitialHcm[k], pending |-> 0] ELSE None

(* A commit that logs the row it stores keeps every key replayed.                  *)
LEMMA CommitReplayed ==
  ASSUME ShapeInv, AuditReplaysBalance, NEW k \in Key, NEW row \in Row,
         Commit(k, row, row)
  PROVE  AuditReplaysBalance'
<1>1. /\ balance \in [Key -> Row \cup {None}] /\ audit \in [Key -> Row \cup {None}]
      /\ row # None
  BY NoneAssumption DEF ShapeInv, TypeOK, DbTypeOK
<1>2. /\ balance' = [balance EXCEPT ![k] = row]
      /\ audit' = [audit EXCEPT ![k] = row]
  BY DEF Commit
<1>3. ASSUME NEW l \in Key PROVE Replayed(l)'
  <2>1. Replayed(l)
    BY DEF AuditReplaysBalance, Replayed
  <2>2. CASE l = k
    BY <1>1, <1>2, <2>2 DEF Replayed
  <2>3. CASE l # k
    <3>1. balance'[l] = balance[l] /\ audit'[l] = audit[l]
      BY <1>1, <1>2, <2>3
    <3> QED
      BY <2>1, <3>1 DEF Replayed
  <2> QED
    BY <2>2, <2>3
<1> QED
  BY <1>3 DEF AuditReplaysBalance, Replayed

(* Nothing is logged for a step that leaves the rows alone.                        *)
LEMMA UnchangedReplayed ==
  ASSUME AuditReplaysBalance, UNCHANGED <<balance, audit>>
  PROVE  AuditReplaysBalance'
BY DEF AuditReplaysBalance

(* The transactions of the time-off service log what they store, the duplicate     *)
(* creation excepted, which does not happen under the discipline.                  *)
LEMMA TxReplayed ==
  ASSUME SerialInv, AuditReplaysBalance, NEW c \in Call, TimeOffTx(c)
  PROVE  AuditReplaysBalance'
<1> DEFINE k == call[c].key
           n == DaysOf[call[c].req]
<1>0. ShapeInv /\ balance \in [Key -> Row \cup {None}]
  BY DEF SerialInv, ShapeInv, TypeOK, DbTypeOK
<1>1. CASE createReserved(c)
  <2> DEFINE e == effectiveHcm(balance[k], call[c].seen)
             row == applyHcmRefreshAndIncrementPending(balance[k], e, n)
  <2>1. Reserve(c)
    BY <1>1 DEF createReserved
  <2>2. /\ k \in Key /\ balance[k] \in Row /\ e \in Int /\ n \in Nat
        /\ balance' = [balance EXCEPT ![k] = row]
    BY <1>0, <2>1, ReserveFrame, RequestAssumption
  <2>3. row = [hcm |-> e, pending |-> balance[k].pending + n]
    BY DEF applyHcmRefreshAndIncrementPending
  <2>4. audit' = [audit EXCEPT ![k] = row]
    BY <1>1, <2>3 DEF createReserved
  <2>5. row \in Row
    BY <2>2, <2>3 DEF Row
  <2> HIDE DEF e, row
  <2>6. Commit(k, row, row)
    BY <2>2, <2>4 DEF Commit
  <2> QED
    BY <1>0, <2>2, <2>5, <2>6, CommitReplayed
<1>2. CASE \/ approveRecorded(c) \/ rejectCommitted(c)
           \/ cancelPendingCommitted(c) \/ cancelApprovedCommitted(c)
  <2>1. k \in Key /\ n \in Nat /\ balance[k] \in Row
    <3>1. call[c].op \in Decisions
      BY <1>2 DEF approveRecorded, rejectCommitted, cancelPendingCommitted,
                  cancelApprovedCommitted, At, Decisions
    <3> QED
      BY <1>0, <3>1, DecisionFacts
  <2>2. /\ applyApproval(balance[k], n) =
             [hcm |-> balance[k].hcm - n, pending |-> balance[k].pending - n]
        /\ decrementPending(balance[k], n) =
             [hcm |-> balance[k].hcm, pending |-> balance[k].pending - n]
        /\ applyCancellationOfApproved(balance[k], n) =
             [hcm |-> balance[k].hcm + n, pending |-> balance[k].pending]
    BY <2>1 DEF applyApproval, decrementPending, applyCancellationOfApproved, Row
  <2>3. PICK row \in {applyApproval(balance[k], n), decrementPending(balance[k], n),
                      applyCancellationOfApproved(balance[k], n)} :
          Commit(k, row, row)
    BY <1>2, <2>2 DEF approveRecorded, rejectCommitted, cancelPendingCommitted,
                      Release, cancelApprovedCommitted
  <2>4. row \in Row
    BY <2>1, <2>2, <2>3 DEF Row
  <2> QED
    BY <1>0, <2>1, <2>3, <2>4, CommitReplayed
<1>3. CASE createRefused(c) \/ approveStale(c) \/ completeCommitted(c)
  BY <1>3, UnchangedReplayed DEF createRefused, approveStale, completeCommitted, dbVars
<1>4. CASE createDuplicate(c)
  <2>1. call[c].op = "create" /\ call[c].req \in Request /\ Taken(call[c].req)
    BY <1>0, <1>4 DEF createDuplicate, Reserve, At, ShapeInv, CallShape
  <2> QED
    BY <2>1 DEF SerialInv, StatusAsRead
<1> QED
  BY <1>1, <1>2, <1>3, <1>4 DEF TimeOffTx

(* A pushed entry logs the sum of the PENDING requests for the row's reserved days,  *)
(* and so the row, because the reservations are exact.                             *)
LEMMA PushReplayed ==
  ASSUME ShapeInv, ReservedExact, AuditReplaysBalance,
         NEW k \in Key, NEW v \in SyncValues, SyncEntry(k, v)
  PROVE  AuditReplaysBalance'
<1> DEFINE row == upsertHcmBalance(balance[k], v)
<1>1. v \in Int /\ balance[k] \in Row \cup {None}
  BY SyncAssumption DEF ShapeInv, TypeOK, DbTypeOK
<1>2. Reserved[k] = sumPendingDays(status, k)
  BY DEF ReservedExact
<1>3. row = [hcm |-> v, pending |-> sumPendingDays(status, k)]
  BY <1>2 DEF upsertHcmBalance, Reserved
<1>4. row \in Row
  BY <1>1, <1>3, SumPendingDaysNat DEF Row
<1>5. Commit(k, row, row)
  BY <1>3 DEF SyncEntry
<1> HIDE DEF row
<1> QED
  BY <1>4, <1>5, CommitReplayed

(* A refresh logs the row it stores.                                               *)
LEMMA RefreshReplayed ==
  ASSUME ShapeInv, AuditReplaysBalance, NEW c \in Call, refreshCommitted(c)
  PROVE  AuditReplaysBalance'
<1> DEFINE k == call[c].key
           row == upsertHcmBalance(balance[k], call[c].seen)
<1>1. k \in Key /\ Commit(k, row, row)
  BY DEF refreshCommitted, At, ShapeInv, CallShape
<1>2. balance[k] \in Row \cup {None} /\ call[c].seen \in Int
  BY <1>1 DEF ShapeInv, TypeOK, DbTypeOK, CallRecord
<1>3. row \in Row
  BY <1>2 DEF upsertHcmBalance, Row
<1> HIDE DEF row
<1> QED
  BY <1>1, <1>3, CommitReplayed

(* Every step under the discipline keeps the log complete.                         *)
LEMMA ReplayStep ==
  SerialInv /\ ReservedExact /\ AuditReplaysBalance /\ [SerialNext]_vars
    => AuditReplaysBalance'
<1> SUFFICES ASSUME SerialInv, ReservedExact, AuditReplaysBalance, [SerialNext]_vars
             PROVE  AuditReplaysBalance'
  OBVIOUS
<1>0. ShapeInv
  BY DEF SerialInv
<1>1. CASE \E c \in Call : Arrive(c)
  BY <1>0, <1>1, ArriveFrame, UnchangedReplayed DEF dbVars
<1>2. CASE \E c \in Call : HcmStep(c) \/ refreshRefused(c) \/ Fail(c)
  BY <1>0, <1>2, HcmStepFrame, UnchangedReplayed
  DEF refreshRefused, Fail, Crash, RetriesExhausted, dbVars
<1>3. CASE \E c \in Call : TimeOffTx(c)
  BY <1>3, TxReplayed
<1>4. CASE \E c \in Call : refreshCommitted(c)
  BY <1>0, <1>4, RefreshReplayed
<1>5. CASE Push
  BY <1>0, <1>5, PushReplayed DEF Push
<1>6. CASE HcmEvent \/ UNCHANGED vars
  BY <1>6, UnchangedReplayed DEF HcmEvent, vars, dbVars
<1> QED
  BY <1>1, <1>2, <1>3, <1>4, <1>5, <1>6 DEF SerialNext, Next, Progress, RefreshTx

(* "There is no window where a balance changed without a log entry": under the      *)
(* serial discipline the log gives every row.                                      *)
THEOREM AuditComplete == SerialSpec => []AuditReplaysBalance
<1>1. Init => AuditReplaysBalance
  BY DEF Init, DbInit, AuditReplaysBalance
<1>2. SerialInv /\ ReservedExact /\ AuditReplaysBalance /\ [SerialNext]_vars
        => SerialInv' /\ ReservedExact' /\ AuditReplaysBalance'
  BY ReplayStep, SerialStep, LedgerExact DEF SerialInv, ShapeInv, TypeOK, DbTypeOK
<1> QED
  BY <1>1, <1>2, SerialInit, ExactInit, PTL DEF SerialSpec
================================================================================
