-------------------------------- MODULE MockHcm --------------------------------
(* The HCM, the system of record for balances, as mock-hcm implements it: a    *)
(* balance for each key, changed by deduct and credit on behalf of ExampleHR   *)
(* and by setBalance and applyAnniversary on its own.  It keeps no record of    *)
(* which booking belongs to which request; deducts and credits are history     *)
(* variables that count them, so that the properties can.                      *)
EXTENDS LeaveBalance

CONSTANTS
  InitialHcm,   \* the balance of each key when the system starts
  SetValues,    \* the balances setBalance may be given
  MaxBonus,     \* bound: anniversaries stop when a balance has reached it
  Bonus         \* the days one anniversary adds

ASSUME HcmAssumption ==
  /\ InitialHcm \in [Key -> Nat]
  /\ SetValues \subseteq Nat
  /\ MaxBonus \in Nat
  /\ Bonus \in Nat

VARIABLES
  hcm,       \* state: the balance of each key
  deducts,   \* history: how many deductions the HCM booked for each request
  credits    \* history: how many credits

hcmVars == <<hcm, deducts, credits>>

HcmTypeOK ==
  /\ hcm \in [Key -> Nat]
  /\ deducts \in [Request -> Nat]
  /\ credits \in [Request -> Nat]

HcmInit ==
  /\ hcm = InitialHcm
  /\ deducts = [r \in Request |-> 0]
  /\ credits = [r \in Request |-> 0]

\* Mutant: an off-by-one in the comparison.
RefusesOneShort(r) == hcm[KeyOf[r]] + 1 < DaysOf[r]

\* The HCM answers 422 to a deduction its balance does not cover.
Refuses(r) == hcm[KeyOf[r]] < DaysOf[r]

deduct(r) ==
  /\ ~Refuses(r)
  /\ hcm' = [hcm EXCEPT ![KeyOf[r]] = @ - DaysOf[r]]
  /\ deducts' = [deducts EXCEPT ![r] = @ + 1]
  /\ UNCHANGED credits

credit(r) ==
  /\ hcm' = [hcm EXCEPT ![KeyOf[r]] = @ + DaysOf[r]]
  /\ credits' = [credits EXCEPT ![r] = @ + 1]
  /\ UNCHANGED deducts

setBalance(k, balance) ==
  /\ hcm' = [hcm EXCEPT ![k] = balance]
  /\ UNCHANGED <<deducts, credits>>

\* The Map is emptied; a key that is not in it has a balance of zero.
reset ==
  /\ hcm' = [k \in Key |-> 0]
  /\ UNCHANGED <<deducts, credits>>

\* The push to ExampleHR that follows is fire-and-forget: it may be delivered
\* at any time or never, and is a sync entry of its own (BalanceSync!SyncEntry).
applyAnniversary(k) ==
  /\ hcm[k] + Bonus <= MaxBonus
  /\ hcm' = [hcm EXCEPT ![k] = @ + Bonus]
  /\ UNCHANGED <<deducts, credits>>
================================================================================
