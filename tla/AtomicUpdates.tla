----------------------------- MODULE AtomicUpdates -----------------------------
(* What withImmediateTransaction promises its callers: all that fn has written is *)
(* stored at once and once, or nothing is, and the answer tells which.  What fn    *)
(* writes is its own affair: it may return having written nothing, and one that   *)
(* fails may be tried again from the start.                                      *)
EXTENDS Naturals

CONSTANT
  Handler    \* the transactions served, and the single statements

VARIABLES
  made,      \* what each of them has written so far, counted
  stored,    \* how much of it is stored
  answer     \* the status code it ended with, 0 while it is served

Init ==
  /\ made = [h \in Handler |-> 0]
  /\ stored = [h \in Handler |-> 0]
  /\ answer = [h \in Handler |-> 0]

\* fn writes, or starts again.
Work(h) ==
  /\ answer[h] = 0 /\ stored[h] = 0
  /\ \E n \in {0, made[h] + 1} : made' = [made EXCEPT ![h] = n]
  /\ UNCHANGED <<stored, answer>>

\* A single statement works and stores in one step.
Store(h) ==
  /\ answer[h] = 0 /\ stored[h] = 0
  /\ \E n \in {made[h], made[h] + 1} \ {0} :
       /\ made' = [made EXCEPT ![h] = n]
       /\ stored' = [stored EXCEPT ![h] = n]
  /\ UNCHANGED answer

Reply(h) ==
  /\ answer[h] = 0
  /\ \E code \in {200, 409, 500} :
       /\ stored[h] = IF code = 200 THEN made[h] ELSE 0
       /\ answer' = [answer EXCEPT ![h] = code]
  /\ UNCHANGED <<made, stored>>

Next == \E h \in Handler : Work(h) \/ Store(h) \/ Reply(h)

Spec == Init /\ [][Next]_<<made, stored, answer>>
================================================================================
