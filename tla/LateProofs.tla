------------------------------- MODULE LateProofs ------------------------------
(* Theorems of LateBookings: what holds of ExampleHR when the HCM may also book     *)
(* after a timeout, for any number of late bookings.                               *)
EXTENDS LateBookings, ExampleHRProofs

UnderwayType == underway \in [Request -> [deduct : Nat, credit : Nat]]

\* A credit is under way only for a request that was deducted.
UnderwayBooked ==
  \A r \in Request : underway[r].credit > 0 => deducts[r] > 0

LateInv == BookedInv /\ UnderwayType /\ UnderwayBooked

(* At the start nothing is under way.                                             *)
LEMMA LateInvInit == LateInit => LateInv
<1> SUFFICES ASSUME LateInit PROVE LateInv
  OBVIOUS
<1>1. BookedInv
  BY BookedInit DEF LateInit
<1>2. underway = [r \in Request |-> [deduct |-> 0, credit |-> 0]]
  BY DEF LateInit
<1> QED
  BY <1>1, <1>2 DEF LateInv, UnderwayType, UnderwayBooked

(* A timeout leaves the HCM and the tables alone and its call as an attempt without *)
(* reply does; what may come late was called for.                                  *)
LEMMA TimeoutStep ==
  ASSUME LateInv, NEW c \in Call, deductTimedOut(c) \/ creditTimedOut(c)
  PROVE  LateInv' /\ UNCHANGED <<hcmVars, dbVars>>
<1> DEFINE r == call[c].req
<1>0. /\ BookedInv /\ ShapeInv /\ TypeOK /\ CallBooked(c)
      /\ call \in [Call -> CallRecord]
      /\ underway \in [Request -> [deduct : Nat, credit : Nat]]
  BY DEF LateInv, BookedInv, ShapeInv, TypeOK, DbTypeOK, UnderwayType
<1>1. /\ call[c].op \in Decisions /\ call[c].pc = "hcm"
      /\ NoReply(c) /\ UNCHANGED <<hcmVars, dbVars>>
  BY DEF deductTimedOut, creditTimedOut, At, Decisions
<1>2. r \in Request
  BY <1>0, <1>1, DecisionFacts
<1>3. UNCHANGED <<hcm, deducts, credits, balance, audit, status>>
  BY <1>1 DEF hcmVars, dbVars
<1>4. Continues(c)
  BY <1>0, <1>1, NoReplyContinues
<1>5. call' \in [Call -> CallRecord] /\ CallShape'
  BY <1>0, <1>3, <1>4, ContinuesShape DEF StatusGrows
<1>6. ShapeInv'
  BY <1>0, <1>3, <1>5 DEF ShapeInv, TypeOK, HcmTypeOK, DbTypeOK, RowsExist
<1>7. ApprovedWasDeducted' /\ CreditedWasDeducted'
  BY <1>0, <1>3 DEF BookedInv, ApprovedWasDeducted, CreditedWasDeducted
<1>8. CallBooked(c)'
  BY <1>0, <1>1, <1>2, <1>3, NoReplyBooked
<1>9. \A d \in Call : d # c => call'[d] = call[d]
  BY <1>0, <1>4 DEF Continues
<1>10. \A d \in Call : CallBooked(d)'
  BY <1>0, <1>3, <1>8, <1>9, OthersBooked
<1>11. BookedInv'
  BY <1>6, <1>7, <1>10 DEF BookedInv
<1>12. UnderwayType' /\ UnderwayBooked'
  <2>1. CASE deductTimedOut(c)
    <3>1. underway' = [underway EXCEPT ![r].deduct = @ + 1]
      BY <2>1 DEF deductTimedOut
    <3>2. /\ UnderwayType'
          /\ \A q \in Request : underway'[q].credit = underway[q].credit
      BY <1>0, <1>2, <3>1 DEF UnderwayType
    <3> QED
      BY <1>3, <3>2 DEF LateInv, UnderwayBooked
  <2>2. CASE creditTimedOut(c)
    <3>1. /\ underway' = [underway EXCEPT ![r].credit = @ + 1]
          /\ call[c].op = "cancelApproved"
      BY <2>2 DEF creditTimedOut, At
    <3>2. deducts[r] > 0
      BY <1>0, <3>1 DEF CallBooked
    <3>3. /\ UnderwayType'
          /\ \A q \in Request : q # r => underway'[q].credit = underway[q].credit
      BY <1>0, <1>2, <3>1 DEF UnderwayType
    <3> QED
      BY <1>3, <3>2, <3>3 DEF LateInv, UnderwayBooked
  <2> QED
    BY <2>1, <2>2
<1> QED
  BY <1>1, <1>11, <1>12 DEF LateInv

(* A late booking changes the HCM's books alone; a late credit was preceded by a    *)
(* deduction.                                                                      *)
LEMMA LateBookingStep ==
  ASSUME LateInv, NEW r \in Request, lateDeduct(r) \/ lateCredit(r)
  PROVE  LateInv' /\ UNCHANGED dbVars
<1>0. /\ BookedInv /\ ShapeInv /\ HcmTypeOK
      /\ underway \in [Request -> [deduct : Nat, credit : Nat]]
      /\ deducts \in [Request -> Nat] /\ credits \in [Request -> Nat]
  BY DEF LateInv, BookedInv, ShapeInv, TypeOK, HcmTypeOK, UnderwayType
<1>1. UNCHANGED <<balance, audit, status, call>>
  BY DEF lateDeduct, lateCredit, dbVars
<1>2. HcmTypeOK'
  <2>1. CASE deduct(r) \/ credit(r)
    BY <1>0, <2>1, BookingTypes
  <2>2. CASE UNCHANGED hcmVars
    BY <1>0, <2>2 DEF hcmVars, HcmTypeOK
  <2> QED
    BY <2>1, <2>2 DEF lateDeduct, lateCredit
<1>3. \A q \in Request : deducts[q] > 0 => deducts'[q] > 0
  BY <1>0 DEF lateDeduct, lateCredit, deduct, credit, hcmVars
<1>4. \A q \in Request : credits'[q] > 0 => credits[q] > 0 \/ deducts[q] > 0
  <2>1. CASE lateDeduct(r)
    BY <2>1 DEF lateDeduct, deduct, hcmVars
  <2>2. CASE lateCredit(r)
    <3>1. credits' = [credits EXCEPT ![r] = @ + 1] /\ deducts[r] > 0
      BY <2>2 DEF lateCredit, credit, LateInv, UnderwayBooked
    <3> QED
      BY <1>0, <3>1
  <2> QED
    BY <2>1, <2>2
<1>5. ShapeInv'
  BY <1>0, <1>1, <1>2 DEF ShapeInv, TypeOK, DbTypeOK, RowsExist, CallShape
<1>6. ApprovedWasDeducted' /\ CreditedWasDeducted'
  BY <1>0, <1>1, <1>3, <1>4 DEF BookedInv, ApprovedWasDeducted, CreditedWasDeducted
<1>7. \A c \in Call : CallBooked(c)'
  <2>1. ASSUME NEW c \in Call PROVE CallBooked(c)'
    <3>1. CallBooked(c) /\ call'[c] = call[c]
      BY <1>0, <1>1 DEF BookedInv
    <3>2. call[c].op \in Decisions => call[c].req \in Request
      BY <1>0 DEF ShapeInv, CallShape
    <3> QED
      BY <1>3, <3>1, <3>2 DEF CallBooked, At, Decisions
  <2> QED
    BY <2>1
<1>8. UnderwayType' /\ \A q \in Request : underway'[q].credit > 0 => underway[q].credit > 0
  <2>1. CASE lateDeduct(r)
    <3>1. /\ underway' = [underway EXCEPT ![r].deduct = @ - 1]
          /\ underway[r].deduct > 0
      BY <2>1 DEF lateDeduct
    <3>2. underway[r].deduct - 1 \in Nat
      BY <1>0, <3>1
    <3> QED
      BY <1>0, <3>1, <3>2 DEF UnderwayType
  <2>2. CASE lateCredit(r)
    <3>1. /\ underway' = [underway EXCEPT ![r].credit = @ - 1]
          /\ underway[r].credit > 0
      BY <2>2 DEF lateCredit
    <3>2. underway[r].credit - 1 \in Nat
      BY <1>0, <3>1
    <3> QED
      BY <1>0, <3>1, <3>2 DEF UnderwayType
  <2> QED
    BY <2>1, <2>2
<1>9. UnderwayBooked'
  BY <1>3, <1>8 DEF LateInv, UnderwayBooked
<1> QED
  BY <1>1, <1>5, <1>6, <1>7, <1>8, <1>9 DEF LateInv, BookedInv, dbVars

(* No step of ExampleHR forgets a deduction.                                       *)
LEMMA DeductionsKept ==
  ASSUME ShapeInv, [Next]_vars
  PROVE  \A r \in Request : deducts[r] > 0 => deducts'[r] > 0
<1>1. CASE \E c \in Call : Progress(c) \/ Fail(c)
  BY <1>1, CallsApart
<1>2. CASE \E c \in Call : Arrive(c)
  BY <1>2, ArriveFrame DEF hcmVars
<1>3. CASE HcmEvent \/ Push \/ UNCHANGED vars
  <2>1. UNCHANGED deducts
    BY <1>3 DEF HcmEvent, setBalance, applyAnniversary, reset, Push, SyncEntry,
                vars, hcmVars
  <2> QED
    BY <2>1
<1> QED
  BY <1>1, <1>2, <1>3 DEF Next

(* Every step preserves that what is booked, recorded or under way was deducted.    *)
LEMMA LateInvStep == LateInv /\ [LateNext]_lateVars => LateInv'
<1> SUFFICES ASSUME LateInv, [LateNext]_lateVars PROVE LateInv'
  OBVIOUS
<1>1. CASE LateStep
  BY <1>1, TimeoutStep, LateBookingStep DEF LateStep
<1>2. CASE [Next]_vars /\ UNCHANGED underway
  <2>1. BookedInv'
    BY <1>2, BookedStep DEF LateInv
  <2>2. \A r \in Request : deducts[r] > 0 => deducts'[r] > 0
    BY <1>2, DeductionsKept DEF LateInv, BookedInv
  <2>3. UnderwayType' /\ UnderwayBooked'
    BY <1>2, <2>2 DEF LateInv, UnderwayType, UnderwayBooked
  <2> QED
    BY <2>1, <2>3 DEF LateInv
<1> QED
  BY <1>1, <1>2 DEF LateNext, lateVars

(* Type correctness with late bookings.                                            *)
THEOREM LateTypeCorrect == LateSpec => []LateTypeOK
<1>1. LateInv => LateTypeOK
  BY DEF LateInv, LateTypeOK, UnderwayType, BookedInv, ShapeInv
<1> QED
  BY <1>1, LateInvInit, LateInvStep, PTL DEF LateSpec

(* A request is not APPROVED without a deduction although attempts time out and are *)
(* booked at any later moment: approveRequest records only an answer.              *)
THEOREM LateApprovalsAreBooked == LateSpec => []ApprovedWasDeducted
<1>1. LateInv => ApprovedWasDeducted
  BY DEF LateInv, BookedInv
<1> QED
  BY <1>1, LateInvInit, LateInvStep, PTL DEF LateSpec

(* A credit that comes late, or twice, was still called for by a deduction.         *)
THEOREM LateCreditsWereDeducted == LateSpec => []CreditedWasDeducted
<1>1. LateInv => CreditedWasDeducted
  BY DEF LateInv, BookedInv
<1> QED
  BY <1>1, LateInvInit, LateInvStep, PTL DEF LateSpec

(* A late booking touches no table, so that still only a push or a refresh overdraws. *)
THEOREM LateOverdraftsComeFromSync == LateSpec => OnlySyncOverdraws
<1> DEFINE A == \A k \in Key : Overdraws(k) =>
                  Push \/ \E c \in Call : refreshCommitted(c)
<1>1. ASSUME LateInv, [LateNext]_lateVars PROVE [A]_vars
  <2>0. ShapeInv
    BY <1>1 DEF LateInv, BookedInv
  <2>1. CASE LateStep
    <3>1. UNCHANGED dbVars
      BY <1>1, <2>1, TimeoutStep, LateBookingStep DEF LateStep
    <3>2. ASSUME NEW k \in Key PROVE ~Overdraws(k)
      <4>1. balance[k] \in Row \cup {None} /\ balance' = balance
        BY <2>0, <3>1 DEF ShapeInv, TypeOK, DbTypeOK, dbVars
      <4>2. balance[k] # None => availableDays(balance[k]) \in Int
        BY <4>1 DEF availableDays, Row
      <4> QED
        BY <4>1, <4>2 DEF Overdraws
    <3> QED
      BY <3>2
  <2>2. CASE [Next]_vars
    BY <2>0, <2>2, OverdraftStep
  <2> QED
    BY <1>1, <2>1, <2>2 DEF LateNext, lateVars
<1>2. LateInv /\ [LateNext]_lateVars => LateInv' /\ [A]_vars
  BY <1>1, LateInvStep
<1> QED
  BY <1>2, LateInvInit, PTL DEF LateSpec, OnlySyncOverdraws
================================================================================
