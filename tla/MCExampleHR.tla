------------------------------ MODULE MCExampleHR ------------------------------
(* ExampleHR for TLC: one balance key (or two), and small numbers of requests,   *)
(* calls and days.                                                              *)
EXTENDS ExampleHR, TLC

CONSTANTS k1, k2, r1, r2, r3, i1, c1, c2, c3

\* Two requests on one balance.
MCKeyOf == [r \in Request |-> k1]

\* Two keys; a key that is not seeded has no row until a push or a refresh inserts it.
MCKeyOfTwo == [r \in Request |-> IF r = r1 THEN k1 ELSE k2]

MCDaysOne == [r \in Request |-> 1]

\* The first request asks for two units, the others for one.
MCDaysOneTwo == [r \in Request |-> IF r = r1 THEN 2 ELSE 1]

MCHcmOne == [k \in Key |-> 1]
MCHcmFirst == [k \in Key |-> IF k = k1 THEN 1 ELSE 0]
MCHcmTwo == [k \in Key |-> 2]
MCHcmThree == [k \in Key |-> 3]

MCNoIdem == [r \in Request |-> None]

\* r2 is the retry of r1: the same idempotency key, another uuid.
MCIdemRetry == [r \in Request |-> IF r \in {r1, r2} THEN i1 ELSE None]

CallSymmetry == Permutations(Call)
================================================================================
