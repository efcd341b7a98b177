-------------------------- MODULE MCSharedConnection ---------------------------
(* SharedConnection for TLC.                                                     *)
EXTENDS SharedConnection

CONSTANTS h1, h2, h3, h4

\* Any number of calls in one tick, or two at most.
MCTogether == SUBSET (Handler \ Later) \ {{}}
MCPairs == {H \in MCTogether : Cardinality(H) <= 2}

\* No batch of several entries, or h4's entry after h3's.
NoBatch == <<>>
MCBatch == [f \in {h4} |-> h3]
================================================================================
