------------------------------ MODULE FreshProofs ------------------------------
(* Theorems of ExampleHR about the HCM's books: what it has booked is what is      *)
(* approved, and the days it has left cover what is promised.  They need the       *)
(* serial discipline, an HCM that answers what it books, and instances that record *)
(* what they have booked; ExampleHR without one of these violates them.           *)
EXTENDS SerialProofs

(* A booking is answered and recorded: no reply is lost, no instance dies, none     *)
(* runs out of attempts at a locked database, and no approval races another.       *)
Reliable == Faults \subseteq {"outage"} /\ Tolerated = {}

-------------------------------------------------------------------------------
(* The invariant: what the HCM has booked for a request that is being decided is    *)
(* known from the call that decides it.                                           *)

Net(r) == deducts[r] - credits[r]

\* What the HCM has to have booked for a request nobody decides.
Due(r) == IF status[r] \in {"APPROVED", "COMPLETED"} THEN 1 ELSE 0

\* What it has booked for the request that c decides: an approval has been deducted,
\* a cancellation credited, once their transaction is next.
NetBooked(c) ==
  IF \/ At(c, "approve", "tx")
     \/ call[c].op = "complete"
     \/ call[c].op = "cancelApproved" /\ call[c].pc # "tx"
  THEN 1 ELSE 0

Books(r) ==
  /\ Undecided(r) => Net(r) = Due(r)
  /\ \A c \in Call : Decides(c, r) =>
       /\ Net(r) = NetBooked(c)
       /\ call[c].op = "approve" => status[r] = "PENDING"
  /\ status[r] \in {"NONE", "PENDING"} => credits[r] = 0

BooksInv == \A r \in Request : Books(r)

(* The discipline without tolerance: a request is decided by one call at a time.   *)
LEMMA DecidedAlone ==
  ASSUME Reliable, Exclusive, NEW c \in Call, NEW d \in Call, NEW r \in Request,
         Decides(c, r), Decides(d, r)
  PROVE  c = d
BY DEF Reliable, Exclusive

(* A step keeps the books of a request it does not touch.                          *)
LEMMA BooksElsewhere ==
  ASSUME NEW r \in Request, Books(r),
         deducts'[r] = deducts[r], credits'[r] = credits[r], status'[r] = status[r],
         \A c \in Call : Decides(c, r)' <=> Decides(c, r),
         \A c \in Call : Decides(c, r) =>
           call'[c].op = call[c].op /\ call'[c].pc = call[c].pc
  PROVE  Books(r)'
<1>1. Net(r)' = Net(r) /\ Due(r)' = Due(r)
  BY DEF Net, Due
<1>2. Undecided(r)' => Undecided(r)
  BY DEF Undecided
<1>3. \A c \in Call : Decides(c, r) => NetBooked(c)' = NetBooked(c)
  BY DEF NetBooked, At
<1> QED
  BY <1>1, <1>2, <1>3 DEF Books

(* The books of a request whose only decider, if any, is c.                        *)
LEMMA BooksHere ==
  ASSUME NEW r \in Request, NEW c \in Call,
         \A d \in Call : d # c => ~Decides(d, r)',
         Decides(c, r)' =>
           /\ Net(r)' = NetBooked(c)'
           /\ call'[c].op = "approve" => status'[r] = "PENDING",
         ~Decides(c, r)' => Net(r)' = Due(r)',
         status'[r] \in {"NONE", "PENDING"} => credits'[r] = 0
  PROVE  Books(r)'
<1>1. Undecided(r)' => ~Decides(c, r)'
  BY DEF Undecided
<1>2. \A d \in Call : Decides(d, r)' => d = c
  OBVIOUS
<1> QED
  BY <1>1, <1>2 DEF Books

(* What a decision has read, and what the HCM has booked for its request, agree:    *)
(* a decision that ends before its transaction leaves the books as they should be. *)
LEMMA DueBefore ==
  ASSUME SerialInv, BooksInv, NEW c \in Call, call[c].op \in Decisions,
         call[c].pc = "hcm"
  PROVE  Net(call[c].req) = Due(call[c].req)
<1> DEFINE r == call[c].req
<1>1. r \in Request /\ Decides(c, r)
  BY DecisionFacts DEF SerialInv, Decides
<1>2. /\ Net(r) = NetBooked(c)
      /\ call[c].op = "approve" => status[r] = "PENDING"
  BY <1>1 DEF BooksInv, Books
<1>3. /\ call[c].op \in {"reject", "cancelPending"} => status[r] = "PENDING"
      /\ call[c].op \in {"cancelApproved", "complete"} => status[r] = "APPROVED"
  BY <1>1 DEF SerialInv, StatusAsRead
<1> QED
  BY <1>2, <1>3 DEF NetBooked, At, Due, Decisions

-------------------------------------------------------------------------------
(* Each step keeps the books.                                                     *)

(* A step of a call that is no decision, before and after, that books nothing and   *)
(* touches no request.                                                            *)
LEMMA BooksApart ==
  ASSUME BooksInv, NEW c \in Call,
         UNCHANGED <<deducts, credits, status>>,
         call[c].op \notin Decisions, call'[c].op \notin Decisions,
         \A d \in Call : d # c => call'[d] = call[d]
  PROVE  BooksInv'
<1> SUFFICES ASSUME NEW r \in Request PROVE Books(r)'
  BY DEF BooksInv
<1>1. Books(r)
  BY DEF BooksInv
<1>2. ASSUME NEW d \in Call
      PROVE  /\ Decides(d, r)' <=> Decides(d, r)
             /\ Decides(d, r) =>
                  call'[d].op = call[d].op /\ call'[d].pc = call[d].pc
  BY DEF Decides
<1> QED
  BY <1>1, <1>2, BooksElsewhere

(* A decision that starts finds the books as they should be: nobody else decides.   *)
LEMMA BooksArrive ==
  ASSUME Reliable, SerialInv, BooksInv, Exclusive', NEW c \in Call, Arrive(c)
  PROVE  BooksInv'
<1>0. /\ call \in [Call -> CallRecord]
      /\ UNCHANGED <<deducts, credits, status>>
  BY ArriveFrame DEF SerialInv, ShapeInv, TypeOK, DbTypeOK, hcmVars, dbVars
<1>1. ASSUME NEW op, NEW q, NEW k, NEW pc, Begin(c, op, q, k, pc)
      PROVE  /\ call[c].op = "none"
             /\ call'[c].op = op /\ call'[c].req = q /\ call'[c].pc = pc
             /\ \A d \in Call : d # c => call'[d] = call[d]
  BY <1>0, <1>1 DEF Begin, Idle
<1>2. ASSUME NEW q \in Request, NEW op \in Decisions, NEW k, NEW pc,
             Begin(c, op, q, k, pc),
             op = "approve" => status[q] = "PENDING" /\ pc = "hcm",
             op \in {"reject", "cancelPending"} => status[q] = "PENDING",
             op = "cancelApproved" => status[q] = "APPROVED" /\ pc = "hcm",
             op = "complete" => status[q] = "APPROVED"
      PROVE  BooksInv'
  <2>1. /\ call[c].op = "none"
        /\ call'[c].op = op /\ call'[c].req = q /\ call'[c].pc = pc
        /\ \A d \in Call : d # c => call'[d] = call[d]
    BY <1>1, <1>2
  <2>2. Decides(c, q)' /\ \A r \in Request : ~Decides(c, r)
    BY <2>1 DEF Decides, Decisions
  <2>3. ASSUME NEW d \in Call, d # c PROVE ~Decides(d, q)' /\ ~Decides(d, q)
    <3>1. ~(Decides(c, q)' /\ Decides(d, q)')
      BY <2>3 DEF Reliable, Exclusive
    <3> QED
      BY <2>1, <2>2, <2>3, <3>1 DEF Decides
  <2>4. Books(q)'
    <3>1. Undecided(q)
      BY <2>2, <2>3 DEF Undecided
    <3>2. Net(q) = Due(q) /\ (status[q] = "PENDING" => credits[q] = 0)
      BY <3>1 DEF BooksInv, Books
    <3>3. Net(q)' = Net(q) /\ NetBooked(c)' = Due(q)
      BY <1>0, <1>2, <2>1 DEF Net, NetBooked, At, Due, Decisions
    <3>4. status'[q] \in {"NONE", "PENDING"} => credits'[q] = 0
      BY <1>0, <1>2, <3>2 DEF Decisions
    <3> QED
      BY <1>0, <1>2, <2>1, <2>2, <2>3, <3>2, <3>3, <3>4, BooksHere
  <2>5. ASSUME NEW r \in Request, r # q PROVE Books(r)'
    <3>1. Books(r)
      BY DEF BooksInv
    <3>2. ASSUME NEW d \in Call
          PROVE  /\ Decides(d, r)' <=> Decides(d, r)
                 /\ Decides(d, r) =>
                      call'[d].op = call[d].op /\ call'[d].pc = call[d].pc
      BY <2>1, <2>2, <2>5 DEF Decides
    <3> QED
      BY <1>0, <3>1, <3>2, BooksElsewhere
  <2> QED
    BY <2>4, <2>5 DEF BooksInv
<1>3. CASE \E r \in Request : TimeOffStart(c, r)
  <2> PICK r \in Request : TimeOffStart(c, r)
    BY <1>3
  <2>1. CASE createRequest(c, r)
    <3>1. call[c].op = "none" /\ call'[c].op = "create"
          /\ \A d \in Call : d # c => call'[d] = call[d]
      BY <1>1, <2>1 DEF createRequest
    <3> QED
      BY <1>0, <3>1, BooksApart DEF Decisions
  <2>2. CASE approveRequest(c, r)
    BY <1>2, <2>2 DEF approveRequest, Decisions
  <2>3. CASE rejectRequest(c, r)
    BY <1>2, <2>3 DEF rejectRequest, Decisions
  <2>4. CASE cancelRequest(c, r)
    BY <1>2, <2>4 DEF cancelRequest, Decisions
  <2>5. CASE completeRequest(c, r)
    BY <1>2, <2>5 DEF completeRequest, Completable, Decisions
  <2> QED
    BY <2>1, <2>2, <2>3, <2>4, <2>5 DEF TimeOffStart
<1>4. CASE \E k \in Key : refresh(c, k)
  <2>1. call[c].op = "none" /\ call'[c].op = "refresh"
        /\ \A d \in Call : d # c => call'[d] = call[d]
    BY <1>1, <1>4 DEF refresh
  <2> QED
    BY <1>0, <2>1, BooksApart DEF Decisions
<1> QED
  BY <1>3, <1>4 DEF Arrive

(* An HCM call of a decision books for its request and moves on to its transaction, *)
(* or books nothing and tries again or ends.                                      *)
LEMMA BooksHcmStep ==
  ASSUME Reliable, SerialInv, BooksInv, NEW c \in Call, HcmStep(c)
  PROVE  BooksInv'
<1> PICK r : r = call[c].req
  OBVIOUS
<1>0. /\ ShapeInv /\ call \in [Call -> CallRecord]
      /\ deducts \in [Request -> Nat] /\ credits \in [Request -> Nat]
      /\ UNCHANGED status
      /\ \A d \in Call : d # c => call'[d] = call[d]
      /\ "lostReply" \notin Faults
  BY HcmStepFrame, CallsApart
  DEF SerialInv, ShapeInv, TypeOK, HcmTypeOK, DbTypeOK, dbVars, Progress, Reliable
<1>1. CASE call[c].op \notin Decisions
  <2>1. UNCHANGED <<deducts, credits>>
    BY <1>1 DEF HcmStep, Unavailable, getBalance, deductBalance, deductRefused,
                creditBalance, At, Decisions, hcmVars
  <2>2. call'[c].op \notin Decisions
    <3>1. call'[c].op = "none" \/ call'[c].op = call[c].op
      BY <1>0, HcmStepFrame, CallsAfter
    <3> QED
      BY <1>1, <3>1 DEF Decisions
  <2> QED
    BY <1>0, <1>1, <2>1, <2>2, BooksApart
<1>2. CASE call[c].op \in Decisions
  <2>1. /\ r \in Request /\ call[c].pc = "hcm"
        /\ Decides(c, r) /\ Books(r)
        /\ Net(r) = Due(r) /\ Net(r) = NetBooked(c)
        /\ call[c].op = "approve" => status[r] = "PENDING"
        /\ call[c].op = "cancelApproved" => status[r] = "APPROVED"
    <3>1. r \in Request /\ Decides(c, r) /\ call[c].pc = "hcm"
      BY <1>0, <1>2, DecisionFacts
      DEF Decides, HcmStep, Unavailable, getBalance, deductBalance,
          deductRefused, creditBalance, At
    <3> QED
      BY <1>2, <3>1, DueBefore DEF BooksInv, Books, SerialInv, StatusAsRead
  <2>2. ASSUME NEW d \in Call, d # c PROVE ~Decides(d, r) /\ ~Decides(d, r)'
    BY <1>0, <2>1, <2>2, DecidedAlone DEF SerialInv, Decides
  <2>3. ASSUME NEW q \in Request, q # r,
               deducts'[q] = deducts[q], credits'[q] = credits[q]
        PROVE  Books(q)'
    <3>1. Books(q) /\ status'[q] = status[q]
      BY <1>0 DEF BooksInv
    <3>2. ASSUME NEW d \in Call
          PROVE  /\ Decides(d, q)' <=> Decides(d, q)
                 /\ Decides(d, q) =>
                      call'[d].op = call[d].op /\ call'[d].pc = call[d].pc
      <4>1. CASE d = c
        <5>1. call'[c].op = "none" \/ call'[c].req = r
          BY <1>0, HcmStepFrame, CallsAfter
        <5> QED
          BY <2>3, <4>1, <5>1 DEF Decides, Decisions
      <4>2. CASE d # c
        BY <1>0, <4>2 DEF Decides
      <4> QED
        BY <4>1, <4>2
    <3> QED
      BY <2>3, <3>1, <3>2, BooksElsewhere
  <2>4. ASSUME Answer(c), UNCHANGED <<deducts, credits>> PROVE Books(r)'
    <3>1. ~Decides(c, r)'
      BY <1>0, <2>4 DEF Answer, Decides, Idle, Decisions
    <3>2. Net(r)' = Due(r)' /\ (status'[r] \in {"NONE", "PENDING"} => credits'[r] = 0)
      BY <1>0, <2>1, <2>4 DEF Net, Due, Books
    <3> QED
      BY <2>1, <2>2, <3>1, <3>2, BooksHere
  <2>5. ASSUME Retry(c), UNCHANGED <<deducts, credits>> PROVE Books(r)'
    <3>1. call'[c].op = call[c].op /\ call'[c].req = r /\ call'[c].pc = call[c].pc
      BY <1>0, <2>5 DEF Retry, CallRecord
    <3>2. Decides(c, r)' /\ NetBooked(c)' = NetBooked(c) /\ Net(r)' = Net(r)
      BY <2>1, <2>5, <3>1 DEF Decides, NetBooked, At, Net
    <3>3. status'[r] \in {"NONE", "PENDING"} => credits'[r] = 0
      BY <1>0, <2>1, <2>5 DEF Books
    <3> QED
      BY <1>0, <2>1, <2>2, <3>1, <3>2, <3>3, BooksHere
  <2>6. ASSUME Replied(c, -1)
        PROVE  call'[c].op = call[c].op /\ call'[c].req = r /\ call'[c].pc = "tx"
    BY <1>0, <2>6 DEF Replied, ToTx, CallRecord
  <2>7. CASE Unavailable(c) \/ deductRefused(c)
    <3>1. UNCHANGED <<deducts, credits>> /\ (Answer(c) \/ Retry(c))
      BY <1>2, <2>7 DEF Unavailable, deductRefused, NoReply, GiveUp, Decisions, hcmVars
    <3> QED
      BY <2>3, <2>4, <2>5, <3>1 DEF BooksInv
  <2>8. CASE deductBalance(c)
    <3>1. /\ call[c].op = "approve" /\ Replied(c, -1)
          /\ deducts' = [deducts EXCEPT ![r] = @ + 1] /\ UNCHANGED credits
      BY <2>8 DEF deductBalance, deduct, At
    <3>2. Net(r)' = 1 /\ NetBooked(c)' = 1 /\ Decides(c, r)'
      BY <1>0, <2>1, <2>6, <3>1 DEF Net, NetBooked, At, Decides
    <3>3. status'[r] = "PENDING" /\ credits'[r] = 0
      BY <1>0, <2>1, <3>1 DEF Books
    <3>4. Books(r)'
      BY <2>1, <2>2, <3>2, <3>3, BooksHere
    <3> QED
      BY <1>0, <2>1, <2>3, <3>1, <3>4 DEF BooksInv
  <2>9. CASE creditBalance(c)
    <3>1. /\ call[c].op = "cancelApproved" /\ Replied(c, -1)
          /\ credits' = [credits EXCEPT ![r] = @ + 1] /\ UNCHANGED deducts
      BY <2>9 DEF creditBalance, credit, At
    <3>2. Net(r)' = 0 /\ NetBooked(c)' = 0 /\ Decides(c, r)'
      BY <1>0, <2>1, <2>6, <3>1 DEF Net, NetBooked, At, Decides, Due
    <3>3. status'[r] = "APPROVED" /\ call'[c].op = "cancelApproved"
      BY <1>0, <2>1, <2>6, <3>1
    <3>4. Books(r)'
      BY <2>1, <2>2, <3>2, <3>3, BooksHere
    <3> QED
      BY <1>0, <2>1, <2>3, <3>1, <3>4 DEF BooksInv
  <2> QED
    BY <1>2, <2>7, <2>8, <2>9 DEF HcmStep, getBalance, Decisions
<1> QED
  BY <1>1, <1>2

(* A transaction records what its call has booked, or, for a creation, a request    *)
(* the HCM has not heard of.                                                      *)
LEMMA BooksTx ==
  ASSUME Reliable, SerialInv, BooksInv, NEW c \in Call, TimeOffTx(c)
  PROVE  BooksInv'
<1> PICK r : r = call[c].req
  OBVIOUS
<1>0. /\ ShapeInv /\ call \in [Call -> CallRecord] /\ call'[c] = Idle
      /\ status \in [Request -> RequestStatus \cup {"NONE"}]
      /\ UNCHANGED <<deducts, credits>>
      /\ \A d \in Call : d # c => call'[d] = call[d]
  <2>1. Answer(c)
    BY DEF TimeOffTx, createRefused, createReserved, createDuplicate, Reserve,
           approveRecorded, approveStale, rejectCommitted,
           cancelPendingCommitted, Release, cancelApprovedCommitted,
           completeCommitted
  <2> QED
    BY <2>1, TimeOffTxFrame, CallsApart
    DEF SerialInv, ShapeInv, TypeOK, DbTypeOK, Answer, hcmVars, Progress
<1>1. Idle.op \notin Decisions
  BY DEF Idle, Decisions
<1>2. ASSUME NEW q \in Request, ~Decides(c, q), status'[q] = status[q] PROVE Books(q)'
  <2>1. ASSUME NEW d \in Call
        PROVE  /\ Decides(d, q)' <=> Decides(d, q)
               /\ Decides(d, q) =>
                    call'[d].op = call[d].op /\ call'[d].pc = call[d].pc
    BY <1>0, <1>1, <1>2 DEF Decides
  <2> QED
    BY <1>0, <1>2, <2>1, BooksElsewhere DEF BooksInv
<1>3. CASE call[c].op \in Decisions
  <2>1. r \in Request /\ Decides(c, r) /\ Books(r)
        /\ \A q \in Request : q # r => ~Decides(c, q)
    BY <1>0, <1>3, DecisionFacts DEF Decides, BooksInv
  <2>2. Net(r) = NetBooked(c) /\ (call[c].op = "approve" => status[r] = "PENDING")
    BY <2>1 DEF Books
  <2>3. PICK to \in {"APPROVED", "REJECTED", "CANCELLED", "COMPLETED"} :
          /\ status' = [status EXCEPT ![r] = to]
          /\ NetBooked(c) = IF to \in {"APPROVED", "COMPLETED"} THEN 1 ELSE 0
    <3>1. CASE approveRecorded(c)
      BY <3>1 DEF approveRecorded, NetBooked, At
    <3>2. CASE rejectCommitted(c) \/ cancelPendingCommitted(c)
      BY <3>2 DEF rejectCommitted, cancelPendingCommitted, Release, NetBooked, At
    <3>3. CASE cancelApprovedCommitted(c)
      BY <3>3 DEF cancelApprovedCommitted, NetBooked, At
    <3>4. CASE completeCommitted(c)
      BY <3>4 DEF completeCommitted, NetBooked, At
    <3>5. ~approveStale(c)
      BY <2>2 DEF approveStale, At, StillPending
    <3> QED
      BY <1>3, <3>1, <3>2, <3>3, <3>4, <3>5
      DEF TimeOffTx, createRefused, createReserved, createDuplicate, Reserve, At, Decisions
  <2>4. ASSUME NEW d \in Call PROVE ~Decides(d, r)'
    <3>1. CASE d = c
      BY <1>0, <1>1, <3>1 DEF Decides
    <3>2. CASE d # c
      BY <1>0, <2>1, <3>2, DecidedAlone DEF SerialInv, Decides
    <3> QED
      BY <3>1, <3>2
  <2>5. Books(r)'
    <3>1. status'[r] = to
      BY <1>0, <2>1, <2>3
    <3>2. Net(r)' = Due(r)'
      BY <1>0, <2>2, <2>3, <3>1 DEF Net, Due
    <3> QED
      BY <2>1, <2>4, <3>1, <3>2, BooksHere
  <2>6. ASSUME NEW q \in Request, q # r PROVE Books(q)'
    BY <1>0, <1>2, <2>1, <2>3, <2>6
  <2> QED
    BY <2>5, <2>6 DEF BooksInv
<1>4. CASE call[c].op \notin Decisions
  <2>1. \A q \in Request : ~Decides(c, q)
    BY <1>4 DEF Decides
  <2>2. CASE createReserved(c)
    <3>1. /\ r \in Request /\ status[r] = "NONE"
          /\ status' = [status EXCEPT ![r] = "PENDING"]
      BY <2>2, CreateMoves
    <3>2. \A d \in Call : ~Decides(d, r)
      BY <1>0, <3>1 DEF Decides, ShapeInv, CallShape
    <3>3. \A d \in Call : ~Decides(d, r)'
      BY <1>0, <1>1, <3>2 DEF Decides
    <3>4. Net(r) = Due(r) /\ credits[r] = 0 /\ status'[r] = "PENDING"
      BY <1>0, <3>1, <3>2 DEF Undecided, BooksInv, Books
    <3>5. Books(r)'
      BY <1>0, <3>1, <3>3, <3>4, BooksHere DEF Net, Due
    <3>6. ASSUME NEW q \in Request, q # r PROVE Books(q)'
      BY <1>0, <1>2, <2>1, <3>1, <3>6
    <3> QED
      BY <3>5, <3>6 DEF BooksInv
  <2>3. CASE createRefused(c) \/ createDuplicate(c)
    <3>1. UNCHANGED status
      BY <2>3 DEF createRefused, createDuplicate, dbVars
    <3> QED
      BY <1>2, <2>1, <3>1 DEF BooksInv
  <2> QED
    BY <1>4, <2>2, <2>3
    DEF TimeOffTx, approveRecorded, approveStale, rejectCommitted,
        cancelPendingCommitted, cancelApprovedCommitted, completeCommitted,
        At, Decisions
<1> QED
  BY <1>3, <1>4

(* Every step under the discipline keeps the books.                                *)
LEMMA BooksStep ==
  ASSUME Reliable, SerialInv, BooksInv, [SerialNext]_vars
  PROVE  BooksInv'
<1>0. ShapeInv /\ call \in [Call -> CallRecord]
  BY DEF SerialInv, ShapeInv, TypeOK, DbTypeOK
<1>1. CASE SerialNext /\ \E c \in Call : Arrive(c)
  BY <1>1, BooksArrive DEF SerialNext
<1>2. CASE \E c \in Call : HcmStep(c)
  BY <1>2, BooksHcmStep
<1>3. CASE \E c \in Call : TimeOffTx(c)
  BY <1>3, BooksTx
<1>4. CASE \E c \in Call : RefreshTx(c)
  <2> PICK c \in Call : RefreshTx(c)
    BY <1>4
  <2>1. UNCHANGED <<deducts, credits, status>> /\ call[c].op = "refresh" /\ Answer(c)
    BY DEF RefreshTx, refreshCommitted, refreshRefused, At, hcmVars, dbVars
  <2>2. call'[c].op = "none" /\ \A d \in Call : d # c => call'[d] = call[d]
    BY <1>0, <2>1 DEF Answer, Idle
  <2> QED
    BY <2>1, <2>2, BooksApart DEF Decisions
<1>5. \A c \in Call : ~Fail(c)
  BY DEF Reliable, Fail, Crash, RetriesExhausted
<1>6. CASE HcmEvent \/ Push \/ UNCHANGED vars
  <2>1. UNCHANGED <<deducts, credits, status, call>>
    BY <1>6 DEF HcmEvent, setBalance, applyAnniversary, reset, Push, SyncEntry,
                vars, hcmVars, dbVars
  <2> QED
    BY <2>1
    DEF BooksInv, Books, Undecided, Decides, Net, Due, NetBooked, At
<1> QED
  BY <1>1, <1>2, <1>3, <1>4, <1>5, <1>6 DEF SerialNext, Next, Progress

(* At the start nothing is booked and nobody decides.                              *)
LEMMA BooksInit == Init => BooksInv
BY DEF Init, HcmInit, DbInit, BooksInv, Books, Net, Due, Undecided, Decides, Idle,
       Decisions

(* Challenge 4 of the TRD: between calls, the HCM has booked exactly the requests    *)
(* that are APPROVED or COMPLETED, each once, however calls, outages, pushes and the *)
(* HCM's own changes overlap.                                                      *)
THEOREM BookingsExact == ASSUME Reliable PROVE SerialSpec => []HcmBooksApproved
<1>1. SerialInv /\ BooksInv /\ [SerialNext]_vars => SerialInv' /\ BooksInv'
  BY BooksStep, SerialStep
<1>2. BooksInv => HcmBooksApproved
  BY DEF BooksInv, Books, Net, Due, HcmBooksApproved
<1> QED
  BY <1>1, <1>2, SerialInit, BooksInit, PTL DEF SerialSpec

(* A request that was never credited has been deducted once at most: Approve can be *)
(* clicked again when it has failed, not when its deduction has been made.         *)
THEOREM ApprovedOnlyOnce == ASSUME Reliable PROVE SerialSpec => []DeductedOnce
<1>1. SerialInv /\ BooksInv /\ [SerialNext]_vars => SerialInv' /\ BooksInv'
  BY BooksStep, SerialStep
<1>2. ASSUME SerialInv, BooksInv PROVE DeductedOnce
  <2> SUFFICES ASSUME NEW r \in Request, credits[r] = 0 PROVE deducts[r] <= 1
    BY DEF DeductedOnce
  <2>1. deducts[r] \in Nat /\ Net(r) = deducts[r] - credits[r]
    BY <1>2 DEF Net, SerialInv, ShapeInv, TypeOK, HcmTypeOK
  <2>2. Net(r) \in {0, 1}
    BY <1>2 DEF BooksInv, Books, Undecided, Due, NetBooked
  <2> QED
    BY <2>1, <2>2
<1> QED
  BY <1>1, <1>2, SerialInit, BooksInit, PTL DEF SerialSpec

-------------------------------------------------------------------------------
(* No day is promised twice.  The check of a creation compares the HCM's balance    *)
(* with all reserved days of the row, which are those of the PENDING requests; a    *)
(* deduction takes days from the HCM that are promised to its own request.          *)

(* The HCM takes days back by deductions only.                                     *)
NothingTaken == Ops \cap {"setBalance", "reset"} = {}

(* The promised days are a number.                                                *)
LEMMA UnbookedType ==
  ASSUME NEW k
  PROVE  /\ Unbooked(k) \in SUBSET PendingRequests(status, k)
         /\ PendingRequests(status, k) \in SUBSET Request
         /\ sumDays(Unbooked(k)) \in Nat
         /\ sumDays(PendingRequests(status, k)) \in Nat
<1>1. /\ Unbooked(k) \in SUBSET PendingRequests(status, k)
      /\ PendingRequests(status, k) \in SUBSET Request
  BY DEF Unbooked, PendingRequests
<1> QED
  BY <1>1, SumDaysNat

(* A step that promises no more, and takes nothing from the HCM, takes nothing from  *)
(* those who were promised.                                                       *)
LEMMA PromisesKept ==
  ASSUME NoOverAllocation, HcmTypeOK, HcmTypeOK', NEW k \in Key,
         hcm'[k] >= hcm[k],
         \A r \in Request :
           status'[r] = "PENDING" /\ deducts'[r] = 0 =>
             status[r] = "PENDING" /\ deducts[r] = 0
  PROVE  sumDays(Unbooked(k)') <= hcm'[k]
<1>1. Unbooked(k)' \in SUBSET Unbooked(k) /\ Unbooked(k) \in SUBSET Request
  BY DEF Unbooked, PendingRequests
<1>2. sumDays(Unbooked(k)') <= sumDays(Unbooked(k))
  BY <1>1, SumDaysMonotone
<1>3. sumDays(Unbooked(k)) \in Nat /\ sumDays(Unbooked(k)') \in Nat
  BY <1>1, SumDaysNat
<1>4. hcm[k] \in Nat /\ hcm'[k] \in Nat /\ sumDays(Unbooked(k)) <= hcm[k]
  BY DEF HcmTypeOK, NoOverAllocation
<1> QED
  BY <1>2, <1>3, <1>4

(* A creation that commits promises days that are left: the balance it has read is   *)
(* the HCM's, and the row's reserved days are those of all PENDING requests.         *)
LEMMA CreationCovered ==
  ASSUME SerialInv, ReservedExact, FreshReads, NoOverAllocation,
         NEW c \in Call, createReserved(c), NEW k \in Key
  PROVE  sumDays(Unbooked(k)') <= hcm'[k]
<1> PICK r : r = call[c].req
  OBVIOUS
<1>0. /\ ShapeInv /\ HcmTypeOK /\ UNCHANGED hcmVars
      /\ r \in Request /\ status[r] = "NONE"
      /\ status' = [status EXCEPT ![r] = "PENDING"]
      /\ status \in [Request -> RequestStatus \cup {"NONE"}]
      /\ Reserve(c)
  BY CreateMoves
  DEF SerialInv, ShapeInv, TypeOK, DbTypeOK, createReserved
<1>1. hcm'[k] = hcm[k] /\ hcm[k] \in Nat /\ deducts' = deducts /\ DaysOf[r] \in Nat
  BY <1>0, RequestAssumption DEF hcmVars, HcmTypeOK
<1>2. CASE k = KeyOf[r]
  <2>1. /\ call[c].key = k /\ call[c].seen = hcm[k] /\ balance[k] \in Row
        /\ call[c].seen >= 0
    <3>1. At(c, "create", "tx") /\ Covered(c)
      BY <1>0 DEF Reserve
    <3>2. call[c].seen = hcm[call[c].key]
      BY <3>1 DEF FreshReads
    <3>3. call[c].key = k /\ balance[k] \in Row
      BY <1>0, <1>2, ReserveFrame
    <3> QED
      BY <1>1, <3>2, <3>3
  <2>2. hcm[k] - balance[k].pending >= DaysOf[r]
    BY <1>0, <2>1 DEF Reserve, Covered, Sufficient, effectiveHcm
  <2>3. balance[k].pending = sumDays(PendingRequests(status, k))
    BY <2>1, NoneAssumption DEF ReservedExact, Reserved, sumPendingDays
  <2>4. /\ PendingRequests(status, k) \in SUBSET Request
        /\ r \notin PendingRequests(status, k)
        /\ sumDays(PendingRequests(status, k)) \in Nat
    <3>1. r \notin PendingRequests(status, k)
      BY <1>0 DEF PendingRequests
    <3> QED
      BY <3>1, UnbookedType
  <2>5. Unbooked(k)' \in SUBSET (PendingRequests(status, k) \cup {r})
    BY <1>0 DEF Unbooked, PendingRequests
  <2>6. sumDays(PendingRequests(status, k) \cup {r})
          = sumDays(PendingRequests(status, k)) + DaysOf[r]
    BY <1>0, <2>4, SumDaysAdd
  <2>7. /\ PendingRequests(status, k) \cup {r} \in SUBSET Request
        /\ Unbooked(k)' \in SUBSET Request
    BY <1>0, <2>4, <2>5
  <2>8. sumDays(Unbooked(k)') <= sumDays(PendingRequests(status, k) \cup {r})
        /\ sumDays(Unbooked(k)') \in Nat
    BY <2>5, <2>7, SumDaysMonotone, SumDaysNat
  <2> QED
    BY <1>1, <2>2, <2>3, <2>4, <2>6, <2>8
<1>3. CASE k # KeyOf[r]
  <2>1. Unbooked(k)' = Unbooked(k)
    BY <1>0, <1>1, <1>3 DEF Unbooked, PendingRequests
  <2> QED
    BY <1>1, <2>1 DEF NoOverAllocation
<1> QED
  BY <1>2, <1>3

(* A deduction takes from the HCM what was promised to its own request, which had    *)
(* not been booked before.                                                        *)
LEMMA DeductionPromised ==
  ASSUME SerialInv, BooksInv, NoOverAllocation,
         NEW c \in Call, deductBalance(c), NEW k \in Key
  PROVE  sumDays(Unbooked(k)') <= hcm'[k]
<1> PICK r : r = call[c].req
  OBVIOUS
<1>0. /\ ShapeInv /\ HcmTypeOK /\ call[c].op = "approve" /\ call[c].pc = "hcm"
      /\ deduct(r) /\ UNCHANGED status
      /\ deducts \in [Request -> Nat] /\ credits \in [Request -> Nat]
      /\ hcm \in [Key -> Nat]
  BY DEF SerialInv, ShapeInv, TypeOK, HcmTypeOK, deductBalance, At, dbVars
<1>1. r \in Request /\ Decides(c, r) /\ DaysOf[r] \in Nat
  BY <1>0, DecisionFacts DEF Decides, Decisions
<1>2. status[r] = "PENDING" /\ deducts[r] = 0
  <2>1. status[r] = "PENDING" /\ Net(r) = 0 /\ credits[r] = 0
    BY <1>0, <1>1 DEF BooksInv, Books, NetBooked, At
  <2> QED
    BY <1>0, <1>1, <2>1 DEF Net
<1>3. /\ deducts' = [deducts EXCEPT ![r] = @ + 1]
      /\ hcm' = [hcm EXCEPT ![KeyOf[r]] = @ - DaysOf[r]]
  BY <1>0 DEF deduct
<1>4. Unbooked(k)' = Unbooked(k) \ {r}
  BY <1>0, <1>1, <1>3 DEF Unbooked, PendingRequests
<1>5. sumDays(Unbooked(k)) <= hcm[k] /\ hcm[k] \in Nat
  BY <1>0 DEF NoOverAllocation
<1>6. CASE k = KeyOf[r]
  <2>1. r \in Unbooked(k)
    BY <1>1, <1>2, <1>6 DEF Unbooked, PendingRequests
  <2>2. /\ Unbooked(k)' \in SUBSET Request /\ r \notin Unbooked(k)'
        /\ Unbooked(k) = Unbooked(k)' \cup {r}
    BY <1>4, <2>1, UnbookedType
  <2>3. sumDays(Unbooked(k)) = sumDays(Unbooked(k)') + DaysOf[r]
        /\ sumDays(Unbooked(k)') \in Nat
    BY <1>1, <2>2, SumDaysAdd, SumDaysNat
  <2>4. hcm'[k] = hcm[k] - DaysOf[r]
    BY <1>0, <1>3, <1>6
  <2> QED
    BY <1>1, <1>5, <2>3, <2>4
<1>7. CASE k # KeyOf[r]
  <2>1. Unbooked(k)' = Unbooked(k) /\ hcm'[k] = hcm[k]
    BY <1>0, <1>3, <1>4, <1>7 DEF Unbooked, PendingRequests
  <2> QED
    BY <1>5, <2>1
<1> QED
  BY <1>6, <1>7

(* The other steps of a call neither make a request PENDING nor take anything from   *)
(* the HCM.                                                                       *)
LEMMA OthersPromiseNothing ==
  ASSUME SerialInv, NEW c \in Call,
         \/ Arrive(c)
         \/ HcmStep(c) /\ ~deductBalance(c)
         \/ TimeOffTx(c) /\ ~createReserved(c)
         \/ RefreshTx(c) \/ Fail(c),
         NEW k \in Key
  PROVE  /\ hcm'[k] >= hcm[k]
         /\ \A r \in Request :
              status'[r] = "PENDING" /\ deducts'[r] = 0 =>
                status[r] = "PENDING" /\ deducts[r] = 0
<1>0. /\ ShapeInv /\ hcm \in [Key -> Nat] /\ hcm[k] \in Nat
      /\ status \in [Request -> RequestStatus \cup {"NONE"}]
  BY DEF SerialInv, ShapeInv, TypeOK, HcmTypeOK, DbTypeOK
<1>1. ASSUME UNCHANGED hcmVars, UNCHANGED status
      PROVE  /\ hcm'[k] >= hcm[k]
             /\ \A r \in Request :
                  status'[r] = "PENDING" /\ deducts'[r] = 0 =>
                    status[r] = "PENDING" /\ deducts[r] = 0
  BY <1>0, <1>1 DEF hcmVars
<1>2. CASE Arrive(c)
  BY <1>0, <1>1, <1>2, ArriveFrame DEF dbVars
<1>3. CASE creditBalance(c)
  <2> PICK r : r = call[c].req
    OBVIOUS
  <2>1. /\ r \in Request /\ DaysOf[r] \in Nat /\ UNCHANGED <<status, deducts>>
        /\ hcm' = [hcm EXCEPT ![KeyOf[r]] = @ + DaysOf[r]]
    BY <1>0, <1>3, DecisionFacts
    DEF creditBalance, credit, At, Decisions, dbVars
  <2> QED
    BY <1>0, <2>1
<1>4. CASE Unavailable(c) \/ getBalance(c) \/ deductRefused(c)
  BY <1>1, <1>4 DEF Unavailable, getBalance, deductRefused, dbVars
<1>5. CASE RefreshTx(c) \/ Fail(c)
  BY <1>1, <1>5
  DEF RefreshTx, refreshCommitted, refreshRefused, Fail, Crash, RetriesExhausted, dbVars
<1>6. CASE createRefused(c) \/ createDuplicate(c) \/ approveStale(c)
  BY <1>1, <1>6 DEF createRefused, createDuplicate, approveStale, dbVars
<1>7. CASE \/ approveRecorded(c) \/ rejectCommitted(c) \/ cancelPendingCommitted(c)
           \/ cancelApprovedCommitted(c) \/ completeCommitted(c)
  <2>1. UNCHANGED hcmVars
    BY <1>7 DEF approveRecorded, rejectCommitted, cancelPendingCommitted, Release,
                cancelApprovedCommitted, completeCommitted
  <2>2. PICK r, to : /\ to # "PENDING"
                     /\ status' = [status EXCEPT ![r] = to]
    BY <1>7 DEF approveRecorded, rejectCommitted, cancelPendingCommitted, Release,
                cancelApprovedCommitted, completeCommitted
  <2> QED
    BY <1>0, <2>1, <2>2 DEF hcmVars
<1> QED
  BY <1>2, <1>3, <1>4, <1>5, <1>6, <1>7 DEF HcmStep, TimeOffTx

(* Every step under the discipline leaves the HCM the days that are promised.        *)
LEMMA AllocationStep ==
  ASSUME NothingTaken, SerialInv, SerialInv', BooksInv, ReservedExact, FreshReads,
         NoOverAllocation, [SerialNext]_vars
  PROVE  NoOverAllocation'
<1> SUFFICES ASSUME NEW k \in Key PROVE sumDays(Unbooked(k)') <= hcm'[k]
  BY DEF NoOverAllocation
<1>0. /\ HcmTypeOK /\ HcmTypeOK' /\ hcm \in [Key -> Nat]
  BY DEF SerialInv, ShapeInv, TypeOK, HcmTypeOK
<1>1. CASE \E c \in Call : createReserved(c)
  BY <1>1, CreationCovered
<1>2. CASE \E c \in Call : deductBalance(c)
  BY <1>2, DeductionPromised
<1>3. CASE \E c \in Call :
             \/ Arrive(c)
             \/ HcmStep(c) /\ ~deductBalance(c)
             \/ TimeOffTx(c) /\ ~createReserved(c)
             \/ RefreshTx(c) \/ Fail(c)
  BY <1>0, <1>3, OthersPromiseNothing, PromisesKept
<1>4. CASE HcmEvent
  <2>1. PICK l \in Key : applyAnniversary(l)
    BY <1>4 DEF HcmEvent, NothingTaken
  <2>2. hcm'[k] >= hcm[k]
    BY <1>0, <2>1, HcmAssumption DEF applyAnniversary
  <2>3. UNCHANGED <<status, deducts>>
    BY <1>4, <2>1 DEF HcmEvent, applyAnniversary, dbVars
  <2> QED
    BY <1>0, <2>2, <2>3, PromisesKept
<1>5. CASE Push \/ UNCHANGED vars
  <2>1. UNCHANGED <<hcm, status, deducts>>
    BY <1>5 DEF Push, SyncEntry, vars, hcmVars, dbVars
  <2>2. hcm'[k] >= hcm[k]
    BY <1>0, <2>1
  <2> QED
    BY <1>0, <2>1, <2>2, PromisesKept
<1> QED
  BY <1>1, <1>2, <1>3, <1>4, <1>5 DEF SerialNext, Next, Progress

(* The system goal "it is impossible to over-allocate balance": the days promised to  *)
(* requests still PENDING are days the HCM has left, as long as creations commit the  *)
(* HCM balance as it is and the HCM takes nothing back on its own.  Stale or repeated *)
(* pushes and refreshes do no harm.                                               *)
THEOREM NoDayPromisedTwice ==
  ASSUME Reliable, NothingTaken PROVE FreshSpec => []NoOverAllocation
<1>1. Init => NoOverAllocation /\ FreshReads
  <2> SUFFICES ASSUME Init PROVE NoOverAllocation /\ FreshReads
    OBVIOUS
  <2>1. FreshReads
    BY DEF Init, DbInit, FreshReads, At, Idle
  <2>2. ASSUME NEW k \in Key PROVE sumDays(Unbooked(k)) <= hcm[k]
    <3>1. Unbooked(k) = {}
      BY DEF Init, DbInit, Unbooked, PendingRequests
    <3>2. hcm[k] \in Nat
      BY HcmAssumption DEF Init, HcmInit
    <3> QED
      BY <3>1, <3>2, SumDaysEmpty
  <2> QED
    BY <2>1, <2>2 DEF NoOverAllocation
<1>2. ASSUME SerialInv, BooksInv, ReservedExact, FreshReads, NoOverAllocation,
             [SerialNext /\ FreshReads']_vars
      PROVE  SerialInv' /\ BooksInv' /\ ReservedExact' /\ FreshReads'
             /\ NoOverAllocation'
  <2>1. [SerialNext]_vars
    BY <1>2
  <2>2. SerialInv' /\ BooksInv' /\ ReservedExact'
    BY <1>2, <2>1, SerialStep, BooksStep, LedgerExact
    DEF SerialInv, ShapeInv, TypeOK, DbTypeOK
  <2>3. FreshReads'
    BY <1>2 DEF vars, hcmVars, FreshReads, At
  <2>4. NoOverAllocation'
    BY <1>2, <2>1, <2>2, AllocationStep
  <2> QED
    BY <2>2, <2>3, <2>4
<1> QED
  BY <1>1, <1>2, SerialInit, BooksInit, ExactInit, PTL DEF FreshSpec
================================================================================
