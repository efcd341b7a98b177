-------------------------- MODULE LeaveBalanceLemmas --------------------------
(* How the reserved days of a key follow the status of one request.  Everything *)
(* rests on sumDays counting pairs: adding a request to a set adds its pairs,   *)
(* which are disjoint from those of the others.                                 *)
EXTENDS LeaveBalance, FiniteSetTheorems, TLAPS

(* A request stands for as many pairs as it asks for days.                      *)
LEMMA DayPairsCount ==
  ASSUME NEW r \in Request
  PROVE  /\ IsFiniteSet(DayPairs(r))
         /\ Cardinality(DayPairs(r)) = DaysOf[r]
<1> DEFINE n == DaysOf[r]
<1>1. n \in Nat /\ n > 0
  BY RequestAssumption
<1> HIDE DEF n
<1>2. IsFiniteSet(1 .. n) /\ Cardinality(1 .. n) = n
  <2>1. \A a, b \in Int : /\ IsFiniteSet(a .. b)
                         /\ Cardinality(a .. b) = IF a > b THEN 0 ELSE b - a + 1
    BY FS_Interval
  <2>2. /\ IsFiniteSet(1 .. n)
        /\ Cardinality(1 .. n) = IF 1 > n THEN 0 ELSE n - 1 + 1
    BY <1>1, <2>1
  <2> QED
    BY <1>1, <2>2
<1>3. IsFiniteSet({r}) /\ Cardinality({r}) = 1
  BY FS_Singleton
<1>4. /\ IsFiniteSet({r} \X (1 .. n))
      /\ Cardinality({r} \X (1 .. n)) = Cardinality({r}) * Cardinality(1 .. n)
  BY <1>2, <1>3, FS_Product
<1>5. Cardinality({r} \X (1 .. n)) = n
  BY <1>1, <1>2, <1>3, <1>4
<1> QED
  BY <1>4, <1>5 DEF DayPairs, n

(* The pairs of a finite set of requests are finite, so sumDays is a number.    *)
LEMMA SumDaysNat ==
  ASSUME NEW S \in SUBSET Request
  PROVE  /\ IsFiniteSet(UNION {DayPairs(q) : q \in S})
         /\ sumDays(S) \in Nat
<1>1. IsFiniteSet(S)
  BY RequestAssumption, FS_Subset
<1>2. IsFiniteSet({DayPairs(q) : q \in S})
  <2> DEFINE f == [q \in S |-> DayPairs(q)]
  <2>1. f \in Surjection(S, {DayPairs(q) : q \in S})
    BY DEF Surjection
  <2> QED
    BY <1>1, <2>1, FS_Surjection
<1>3. \A T \in {DayPairs(q) : q \in S} : IsFiniteSet(T)
  BY DayPairsCount
<1>4. IsFiniteSet(UNION {DayPairs(q) : q \in S})
  BY <1>2, <1>3, FS_UNION
<1> QED
  BY <1>4, FS_CardinalityType DEF sumDays

(* Adding a request to a set adds its days.                                     *)
LEMMA SumDaysAdd ==
  ASSUME NEW S \in SUBSET Request, NEW r \in Request, r \notin S
  PROVE  sumDays(S \cup {r}) = sumDays(S) + DaysOf[r]
<1> DEFINE U == UNION {DayPairs(q) : q \in S}
<1>1. UNION {DayPairs(q) : q \in S \cup {r}} = U \cup DayPairs(r)
  OBVIOUS
<1>2. U \cap DayPairs(r) = {}
  BY DEF DayPairs
<1>3. IsFiniteSet(U) /\ Cardinality(U) \in Nat
  BY SumDaysNat, FS_CardinalityType
<1>4. IsFiniteSet(DayPairs(r)) /\ Cardinality(DayPairs(r)) = DaysOf[r]
  BY DayPairsCount
<1> HIDE DEF U
<1>5. Cardinality(U \cup DayPairs(r))
        = Cardinality(U) + Cardinality(DayPairs(r)) - Cardinality(U \cap DayPairs(r))
  BY <1>3, <1>4, FS_Union
<1>6. Cardinality(U \cap DayPairs(r)) = 0
  BY <1>2, FS_EmptySet
<1>7. DaysOf[r] \in Nat
  BY RequestAssumption
<1>8. Cardinality(U \cup DayPairs(r)) = Cardinality(U) + DaysOf[r]
  BY <1>3, <1>4, <1>5, <1>6, <1>7
<1> QED
  BY <1>1, <1>8 DEF sumDays, U

(* Fewer requests, no more days.                                                *)
LEMMA SumDaysMonotone ==
  ASSUME NEW S \in SUBSET Request, NEW T \in SUBSET S
  PROVE  sumDays(T) <= sumDays(S)
<1>1. IsFiniteSet(UNION {DayPairs(q) : q \in S})
  BY SumDaysNat
<1>2. UNION {DayPairs(q) : q \in T} \subseteq UNION {DayPairs(q) : q \in S}
  OBVIOUS
<1> QED
  BY <1>1, <1>2, FS_Subset DEF sumDays

(* No request, no days.                                                         *)
LEMMA SumDaysEmpty == sumDays({}) = 0
<1>1. UNION {DayPairs(q) : q \in {}} = {}
  OBVIOUS
<1> QED
  BY <1>1, FS_EmptySet DEF sumDays

(* A request that becomes PENDING adds its days to its key and to no other.     *)
LEMMA PendingAdded ==
  ASSUME NEW S, NEW st \in [Request -> S], NEW r \in Request, NEW k \in Key,
         st[r] # "PENDING"
  PROVE  sumPendingDays([st EXCEPT ![r] = "PENDING"], k) =
           sumPendingDays(st, k) + IF k = KeyOf[r] THEN DaysOf[r] ELSE 0
<1> DEFINE st2 == [st EXCEPT ![r] = "PENDING"]
           P == PendingRequests(st, k)
<1>0. P \in SUBSET Request /\ r \notin P
  BY DEF PendingRequests
<1>1. CASE k = KeyOf[r]
  <2>1. PendingRequests(st2, k) = P \cup {r}
    BY <1>1 DEF PendingRequests
  <2> QED
    BY <1>0, <1>1, <2>1, SumDaysAdd DEF sumPendingDays
<1>2. CASE k # KeyOf[r]
  <2>1. PendingRequests(st2, k) = P
    BY <1>2 DEF PendingRequests
  <2>2. sumDays(P) \in Nat
    BY <1>0, SumDaysNat
  <2> QED
    BY <1>2, <2>1, <2>2 DEF sumPendingDays
<1> QED
  BY <1>1, <1>2

(* A request that stops being PENDING takes its days from its key.              *)
LEMMA PendingRemoved ==
  ASSUME NEW S, NEW st \in [Request -> S], NEW r \in Request, NEW k \in Key,
         NEW s, st[r] = "PENDING", s # "PENDING"
  PROVE  sumPendingDays([st EXCEPT ![r] = s], k) =
           sumPendingDays(st, k) - IF k = KeyOf[r] THEN DaysOf[r] ELSE 0
<1> DEFINE st2 == [st EXCEPT ![r] = s]
           P == PendingRequests(st2, k)
<1>0. P \in SUBSET Request /\ r \notin P
  BY DEF PendingRequests
<1>1. sumDays(P) \in Nat
  BY <1>0, SumDaysNat
<1>2. DaysOf[r] \in Nat
  BY RequestAssumption
<1>3. CASE k = KeyOf[r]
  <2>1. PendingRequests(st, k) = P \cup {r}
    BY <1>3 DEF PendingRequests
  <2>2. sumDays(PendingRequests(st, k)) = sumDays(P) + DaysOf[r]
    BY <1>0, <2>1, SumDaysAdd
  <2> QED
    BY <1>1, <1>2, <1>3, <2>2 DEF sumPendingDays
<1>4. CASE k # KeyOf[r]
  <2>1. PendingRequests(st, k) = P
    BY <1>4 DEF PendingRequests
  <2> QED
    BY <1>1, <1>4, <2>1 DEF sumPendingDays
<1> QED
  BY <1>3, <1>4

(* A change between two other statuses leaves the PENDING requests alone.       *)
LEMMA PendingUntouched ==
  ASSUME NEW S, NEW st \in [Request -> S], NEW r \in Request, NEW k \in Key,
         NEW s, st[r] # "PENDING", s # "PENDING"
  PROVE  PendingRequests([st EXCEPT ![r] = s], k) = PendingRequests(st, k)
BY DEF PendingRequests

(* The reserved days are a number.                                              *)
LEMMA SumPendingDaysNat ==
  ASSUME NEW st, NEW k
  PROVE  sumPendingDays(st, k) \in Nat
<1>1. PendingRequests(st, k) \in SUBSET Request
  BY DEF PendingRequests
<1> QED
  BY <1>1, SumDaysNat DEF sumPendingDays
===============================================================================
