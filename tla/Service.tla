-------------------------------- MODULE Service --------------------------------
(* What the ExampleHR instances share and what each of them holds: the tables  *)
(* of the SQLite database and, for every HTTP call being served, where its      *)
(* handler is suspended and the values it carries across the await.             *)
(*                                                                              *)
(* A handler runs in up to three pieces: the read at its start, the HCM call,   *)
(* and the BEGIN IMMEDIATE transaction at its end.  SQLite's write lock makes   *)
(* the transaction one step; nothing is locked between the pieces, and several  *)
(* instances may serve the same database.                                       *)
EXTENDS MockHcm

CONSTANTS
  Call,        \* slots for HTTP calls being served at the same time
  Ops,         \* what may happen: endpoints of ExampleHR and events at the HCM
  Faults,      \* what may go wrong
  Seeded       \* the keys that have a leave_balances row at the start

ASSUME ServiceAssumption ==
  /\ Faults \subseteq {"outage", "lostReply", "crash", "locked"}
  /\ Seeded \subseteq Key

VARIABLES
  balance,   \* leave_balances: a row or None for each key
  audit,     \* balance_audit_log: the new values its last entry gives each key
  status,    \* time_off_requests: the status of each request, "NONE" if no row
  call       \* the calls being served

dbVars == <<balance, audit, status>>
vars == <<hcmVars, dbVars, call>>

RequestStatus == {"PENDING", "APPROVED", "REJECTED", "CANCELLED", "COMPLETED"}

Decisions == {"approve", "reject", "cancelPending", "cancelApproved", "complete"}

(* A call: the endpoint, the request or key it is about, the piece it is to run *)
(* next, the HCM balance it has seen (-1: the sentinel for "HCM unavailable"),  *)
(* and the HCM attempts that have failed.                                       *)
Idle == [op |-> "none", req |-> None, key |-> None, pc |-> "idle",
         seen |-> -1, tries |-> 0]

CallRecord ==
  [op    : Decisions \cup {"none", "create", "refresh"},
   req   : Request \cup {None},
   key   : Key \cup {None},
   pc    : {"idle", "hcm", "tx"},
   seen  : Int,
   tries : Nat]

DbTypeOK ==
  /\ balance \in [Key -> Row \cup {None}]
  /\ audit \in [Key -> Row \cup {None}]
  /\ status \in [Request -> RequestStatus \cup {"NONE"}]
  /\ call \in [Call -> CallRecord]

DbInit ==
  /\ balance = [k \in Key |->
       IF k \in Seeded THEN [hcm |-> InitialHcm[k], pending |-> 0] ELSE None]
  /\ audit = [k \in Key |-> None]
  /\ status = [r \in Request |-> "NONE"]
  /\ call = [c \in Call |-> Idle]

At(c, op, pc) == call[c].op = op /\ call[c].pc = pc

\* A free slot takes a call; its handler is suspended at pc.
Begin(c, op, r, k, pc) ==
  /\ call[c] = Idle
  /\ call' = [call EXCEPT ![c] =
       [Idle EXCEPT !.op = op, !.req = r, !.key = k, !.pc = pc]]

\* The response, whatever it says, ends the call.
Answer(c) == call' = [call EXCEPT ![c] = Idle]

\* The HCM call is over; the transaction comes next.
ToTx(c, seen) == call' = [call EXCEPT ![c].pc = "tx", ![c].seen = seen]

\* COMMIT of a transaction that changed the row of key k and logged a change.
Commit(k, row, logged) ==
  /\ balance' = [balance EXCEPT ![k] = row]
  /\ audit' = [audit EXCEPT ![k] = logged]

\* The instance dies: the handler never resumes, the caller gets no answer.
Crash(c) ==
  /\ "crash" \in Faults
  /\ call[c] # Idle
  /\ Answer(c)
  /\ UNCHANGED <<hcmVars, dbVars>>

\* Every attempt at the transaction met a locked database; nothing was written.
RetriesExhausted(c) ==
  /\ "locked" \in Faults
  /\ call[c].pc = "tx"
  /\ Answer(c)
  /\ UNCHANGED <<hcmVars, dbVars>>
================================================================================
