------------------------------- MODULE MCHcmSync -------------------------------
(* HcmSync for TLC: two keys, of which the second is not seeded with a row.      *)
EXTENDS HcmSync

CONSTANTS k1, k2, r1, r2, c1, c2, s1, s2

MCKeyOf == [r \in Request |-> IF r = r1 THEN k1 ELSE k2]

MCDaysTwo == [r \in Request |-> 2]

\* Only the balance of k1 has room for an anniversary below MaxBonus = 2.
MCHcmOneTwo == [k \in Key |-> IF k = k1 THEN 1 ELSE 2]

MCNoIdem == [r \in Request |-> None]

MCCorpus == <<k1, k2>>

MCPoison == <<k2, k1>>
================================================================================
