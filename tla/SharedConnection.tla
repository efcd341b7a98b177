--------------------------- MODULE SharedConnection ----------------------------
(* One ExampleHR instance and its SQLite connection.  TypeORM's better-sqlite3   *)
(* driver has one connection and one query runner, so all handlers share the     *)
(* open transaction and the two flags withImmediateTransaction sets.  Statements *)
(* run synchronously and are awaited: handlers that are runnable in one tick of  *)
(* the event loop interleave at every await, and the next tick starts when none  *)
(* of them is runnable any more.                                                 *)
EXTENDS Integers, Sequences, FiniteSets

CONSTANTS
  Handler,       \* the calls of withImmediateTransaction, and the bare statements
  Bare,          \* the statements that are no part of a transaction: completeRequest
  Creation,      \* the transactions of createRequest
  Approval,      \* the transactions of approveRequest
  Before,        \* of the later entries of a batch: the entry before each of them
  Together,      \* the sets of HTTP calls that may become runnable in one tick
  MaxAttempts,   \* maxAttempts of retryOnOptimisticLock
  MaxOther       \* bound: commits of another instance on the same database

\* An HTTP call is one handler here, but for processBatch, whose entries are one each.
Later == DOMAIN Before

ASSUME HandlerAssumption ==
  /\ IsFiniteSet(Handler)
  /\ Bare \subseteq Handler
  /\ Creation \cup Approval \cup Later \subseteq Handler \ Bare
  /\ Creation \cap Approval = {}
  /\ Before \in [Later -> Handler \ Bare]
  /\ \A f, g \in Later : Before[f] = Before[g] => f = g
  /\ Together \subseteq SUBSET (Handler \ Later)
  /\ MaxAttempts \in Nat \ {0}
  /\ MaxOther \in Nat

VARIABLES
  open,      \* SQLite: a transaction is open on the connection
  savepoints,\* SQLite: the savepoints within it, oldest first
  flags,     \* the query runner's isTransactionActive and transactionDepth
  stored,    \* the database as committed
  working,   \* the database as the connection sees it
  handler,   \* where each handler is suspended
  other,     \* commits of the other instance so far
  crowded    \* history: a tick has had more runnable handlers than Room allows

sqlite == <<open, savepoints, stored, working>>
connection == <<sqlite, flags>>

vars == <<connection, handler, other, crowded>>

(* The data: the version of the one balance row everybody writes, and how many     *)
(* writes of each handler are in it.                                             *)
Data == [version : Nat, writes : [Handler -> Nat]]

\* SAVEPOINT typeorm_<name>: what ROLLBACK TO restores, and whether it is outermost,
\* so that its RELEASE is a COMMIT.
Savepoint == [name : Int, outer : BOOLEAN, data : Data]

NoFlags == [active |-> FALSE, depth |-> 0]

\* What a handler can fail with: "cannot start a transaction within a transaction",
\* "database is locked", OptimisticLockError, a 404 or 409 of the service, a UNIQUE
\* constraint, and any other error of SQLite or TypeORM, such as "no transaction is
\* active".
Error == {"none", "within", "locked", "optimistic", "refused", "unique", "other"}

isRetryableError(e) == e \in {"optimistic", "within", "locked"}

\* Mutant: a code of its own for a database that stays locked.
StatusCodeUnavailable(e) ==
  CASE e = "none" -> 200
    [] e \in {"optimistic", "refused"} -> 409
    [] e \in {"within", "locked"} -> 503
    [] OTHER -> 500

\* HttpExceptionFilter; the services' own refusals are 404 or 409, taken for one.
StatusCode(e) ==
  CASE e = "none" -> 200
    [] e \in {"optimistic", "refused"} -> 409
    [] OTHER -> 500

Runnable ==
  {"begin", "flags", "select", "update", "updateStatus", "save", "saveBegin", "insertOwn",
   "saveCommit", "saveRollback", "insert", "commit", "rollback", "finally",
   "bare", "bareReturn"}

HandlerRecord ==
  [pc : Runnable \cup {"new", "asleep", "answered"}, seen : Nat, made : Nat,
   error : Error, attempt : Nat, answer : {0, 200, 409, 500}]

TypeOK ==
  /\ open \in BOOLEAN
  /\ savepoints \in Seq(Savepoint)
  /\ flags \in [active : BOOLEAN, depth : Int]
  /\ stored \in Data /\ working \in Data
  /\ handler \in [Handler -> HandlerRecord]
  /\ other \in Nat /\ crowded \in BOOLEAN

Init ==
  /\ open = FALSE
  /\ savepoints = <<>>
  /\ flags = NoFlags
  /\ stored = [version |-> 1, writes |-> [h \in Handler |-> 0]]
  /\ working = stored
  /\ handler = [h \in Handler |->
       [pc |-> "new", seen |-> 0, made |-> 0, error |-> "none", attempt |-> 1,
        answer |-> 0]]
  /\ other = 0
  /\ crowded = FALSE

At(h, pc) == handler[h].pc = pc

Goto(h, pc) == handler' = [handler EXCEPT ![h].pc = pc]

Throw(h, e, pc) == handler' = [handler EXCEPT ![h].pc = pc, ![h].error = e]

\* A write, into the open transaction or committed by itself.
Write(data) ==
  /\ working' = data
  /\ stored' = IF open THEN stored ELSE data
  /\ UNCHANGED <<open, savepoints>>

\* A write of a handler's fn, which is done with its statement.
Writes(h, data, to) ==
  /\ Write([data EXCEPT !.writes[h] = @ + 1])
  /\ handler' = [handler EXCEPT ![h].pc = to, ![h].made = @ + 1]

\* Another instance may hold the write lock for longer than busy_timeout.
Locked == ~open /\ MaxOther > 0

\* BEGIN, COMMIT and ROLLBACK when they succeed.  An end takes all savepoints along.
BeginOK == ~open /\ open' = TRUE /\ UNCHANGED <<savepoints, stored, working>>

End == open /\ open' = FALSE /\ savepoints' = <<>>
CommitOK == End /\ stored' = working /\ UNCHANGED working
RollbackOK == End /\ working' = stored /\ UNCHANGED stored

-------------------------------------------------------------------------------
(* withImmediateTransaction *)

\* Mutant: an attempt that could not begin rolls back all the same.
beginRollsBack(h) ==
  /\ At(h, "begin")
  /\ \/ BeginOK /\ Goto(h, "flags")
     \/ open /\ Throw(h, "within", "rollback") /\ UNCHANGED sqlite
  /\ UNCHANGED <<flags, other, crowded>>

\* Mutant: no transaction is begun.
beginNothing(h) ==
  /\ At(h, "begin")
  /\ Goto(h, "flags")
  /\ UNCHANGED <<connection, other, crowded>>

\* BEGIN IMMEDIATE.  transactionStarted is false when it fails: no ROLLBACK.
begin(h) ==
  /\ At(h, "begin")
  /\ \/ BeginOK /\ Goto(h, "flags")
     \/ open /\ Throw(h, "within", "finally") /\ UNCHANGED sqlite
     \/ Locked /\ Throw(h, "locked", "finally") /\ UNCHANGED sqlite
  /\ UNCHANGED <<flags, other, crowded>>

setFlags(h) ==
  /\ At(h, "flags")
  /\ flags' = [active |-> TRUE, depth |-> 1]
  /\ Goto(h, "select")
  /\ UNCHANGED <<sqlite, other, crowded>>

commit(h) ==
  /\ At(h, "commit")
  /\ \/ CommitOK /\ Goto(h, "finally")
     \/ ~open /\ Throw(h, "other", "rollback") /\ UNCHANGED sqlite
  /\ UNCHANGED <<flags, other, crowded>>

\* Mutant: an error leaves the transaction open.
rollbackForgotten(h) ==
  /\ At(h, "rollback")
  /\ Goto(h, "finally")
  /\ UNCHANGED <<connection, other, crowded>>

\* Whatever transaction is open is rolled back; an error is ignored.
rollback(h) ==
  /\ At(h, "rollback")
  /\ RollbackOK \/ (~open /\ UNCHANGED sqlite)
  /\ Goto(h, "finally")
  /\ UNCHANGED <<flags, other, crowded>>

\* Mutant: an attempt is not counted.
ReturnUncounted(h) ==
  handler' = [handler EXCEPT ![h] =
    IF isRetryableError(@.error)
    THEN [@ EXCEPT !.pc = "asleep", !.error = "none", !.made = 0]
    ELSE [@ EXCEPT !.pc = "answered", !.answer = StatusCode(handler[h].error)]]

\* retryOnOptimisticLock tries again after a while, or HttpExceptionFilter answers.
Return(h) ==
  LET r == handler[h]
  IN handler' = [handler EXCEPT ![h] =
       IF isRetryableError(r.error) /\ r.attempt < MaxAttempts
       THEN [r EXCEPT !.pc = "asleep", !.attempt = r.attempt + 1, !.error = "none",
                      !.made = 0]
       ELSE [r EXCEPT !.pc = "answered", !.answer = StatusCode(r.error)]]

\* Mutant: transactionDepth keeps its value.
finallyKeepsDepth(h) ==
  /\ At(h, "finally")
  /\ flags' = [flags EXCEPT !.active = FALSE]
  /\ Return(h)
  /\ UNCHANGED <<sqlite, other, crowded>>

\* The flags are reset, whoever set them.
finally(h) ==
  /\ At(h, "finally")
  /\ flags' = NoFlags
  /\ Return(h)
  /\ UNCHANGED <<sqlite, other, crowded>>

-------------------------------------------------------------------------------
(* fn, the services' part: it reads and decides, updates the row, sets the status  *)
(* of the request, or saves a new one, and saves the audit entry.                 *)

\* It may refuse with a 404 or 409; approveRequest returns when the request is no
\* longer PENDING.
select(h) ==
  /\ At(h, "select")
  /\ \/ handler' = [handler EXCEPT ![h].pc = "update", ![h].seen = working.version]
     \/ Throw(h, "refused", "rollback")
     \/ h \in Approval /\ Goto(h, "commit")
  /\ UNCHANGED <<connection, other, crowded>>

FailsLocked(h, to) == Locked /\ Throw(h, "locked", to) /\ UNCHANGED sqlite

\* UPDATE leave_balances .. WHERE id = :id AND version = :version
update(h) ==
  /\ At(h, "update")
  /\ \/ /\ handler[h].seen = working.version
        /\ \E to \in {"updateStatus", "save"} :
             /\ (h \in Creation => to = "save") /\ (h \in Approval => to = "updateStatus")
             /\ Writes(h, [working EXCEPT !.version = @ + 1], to)
     \/ /\ handler[h].seen # working.version
        /\ Throw(h, "optimistic", "rollback") /\ UNCHANGED sqlite
     \/ FailsLocked(h, "rollback")
  /\ UNCHANGED <<flags, other, crowded>>

\* UPDATE time_off_requests .. WHERE id = :id
updateStatus(h) ==
  /\ At(h, "updateStatus")
  /\ Writes(h, working, "save") \/ FailsLocked(h, "rollback")
  /\ UNCHANGED <<flags, other, crowded>>

\* createRequest saves the request, then the audit entry.
SavesRequest(h) == h \in Creation /\ handler[h].made = 1
Saved(h) == IF h \in Creation /\ handler[h].made = 2 THEN "save" ELSE "commit"

\* A request whose idempotency key is stored already: createRequest returns the stored
\* one, unless that is gone by now.  Or its employee is unknown.
insertRefused(h) ==
  /\ SavesRequest(h)
  /\ Goto(h, "commit") \/ Throw(h, "other", "rollback")
  /\ UNCHANGED sqlite

\* The INSERT of a save that joined the open transaction.
insert(h) ==
  /\ At(h, "insert")
  /\ \/ Writes(h, working, IF SavesRequest(h) THEN "save" ELSE "commit")
     \/ insertRefused(h)
     \/ FailsLocked(h, "rollback")
  /\ UNCHANGED <<flags, other, crowded>>

-------------------------------------------------------------------------------
(* manager.save: EntityPersistExecutor and AbstractSqliteQueryRunner *)

\* Without an active transaction TypeORM starts one of its own.
save(h) ==
  /\ At(h, "save")
  /\ \/ flags.active /\ Goto(h, "insert") /\ UNCHANGED flags
     \/ ~flags.active /\ Goto(h, "saveBegin") /\ flags' = [flags EXCEPT !.active = TRUE]
  /\ UNCHANGED <<sqlite, other, crowded>>

Deeper == flags' = [flags EXCEPT !.depth = @ + 1]
Shallower(active) == flags' = [active |-> active, depth |-> flags.depth - 1]

\* SAVEPOINT, which opens a transaction where there is none.
SavepointOK ==
  /\ savepoints' = Append(savepoints,
       [name |-> flags.depth, outer |-> ~open, data |-> working])
  /\ open' = TRUE
  /\ UNCHANGED <<stored, working>>

\* startTransaction: BEGIN TRANSACTION at depth 0, SAVEPOINT typeorm_<depth> below it,
\* and a syntax error where resets by others have made the depth negative.
saveBegin(h) ==
  /\ At(h, "saveBegin")
  /\ \/ flags.depth = 0 /\ BeginOK /\ Deeper /\ Goto(h, "insertOwn")
     \/ flags.depth > 0 /\ SavepointOK /\ Deeper /\ Goto(h, "insertOwn")
     \/ /\ flags.depth = 0 /\ open
        /\ Throw(h, "within", "saveRollback") /\ UNCHANGED connection
     \/ /\ flags.depth < 0
        /\ Throw(h, "other", "saveRollback") /\ UNCHANGED connection
  /\ UNCHANGED <<other, crowded>>

\* The INSERT in TypeORM's own transaction, whose BEGIN has taken no lock yet.
insertOwn(h) ==
  /\ At(h, "insertOwn")
  /\ \/ Writes(h, working, "saveCommit")
     \/ /\ SavesRequest(h)
        /\ \E e \in {"unique", "other"} : Throw(h, e, "saveRollback")
        /\ UNCHANGED sqlite
     \/ MaxOther > 0 /\ Throw(h, "locked", "saveRollback") /\ UNCHANGED sqlite
  /\ UNCHANGED <<flags, other, crowded>>

\* The newest savepoint of the name that TypeORM gives to its present depth.
Newest(i) ==
  /\ i \in DOMAIN savepoints
  /\ savepoints[i].name = flags.depth - 1
  /\ \A j \in DOMAIN savepoints : savepoints[j].name = flags.depth - 1 => j <= i

Release(i) ==
  IF savepoints[i].outer THEN CommitOK
  ELSE savepoints' = SubSeq(savepoints, 1, i - 1) /\ UNCHANGED <<open, stored, working>>

RollbackTo(i) ==
  /\ savepoints' = SubSeq(savepoints, 1, i)
  /\ working' = savepoints[i].data
  /\ UNCHANGED <<open, stored>>

\* Whether the transaction or the savepoint that TypeORM takes for its own is there.
Nested == flags.active /\ flags.depth > 1
Owned == flags.active /\ IF flags.depth > 1 THEN \E i \in DOMAIN savepoints : Newest(i) ELSE open

\* commitTransaction
saveCommit(h) ==
  /\ At(h, "saveCommit")
  /\ \/ /\ Nested /\ \E i \in DOMAIN savepoints : Newest(i) /\ Release(i)
        /\ Shallower(TRUE) /\ Goto(h, Saved(h))
     \/ /\ Owned /\ ~Nested /\ CommitOK
        /\ Shallower(FALSE) /\ Goto(h, Saved(h))
     \/ ~Owned /\ Throw(h, "other", "saveRollback") /\ UNCHANGED connection
  /\ UNCHANGED <<other, crowded>>

\* rollbackTransaction, its own errors ignored.  A UNIQUE error is createRequest's to
\* catch.
saveRollback(h) ==
  /\ At(h, "saveRollback")
  /\ \/ /\ Nested /\ \E i \in DOMAIN savepoints : Newest(i) /\ RollbackTo(i)
        /\ Shallower(TRUE)
     \/ Owned /\ ~Nested /\ RollbackOK /\ Shallower(FALSE)
     \/ ~Owned /\ UNCHANGED connection
  /\ \/ handler[h].error # "unique" /\ Goto(h, "rollback")
     \/ handler[h].error = "unique" /\ Throw(h, "none", "commit")
     \/ handler[h].error = "unique" /\ Throw(h, "other", "rollback")
  /\ UNCHANGED <<other, crowded>>

-------------------------------------------------------------------------------

\* completeRequest's UPDATE on dataSource.manager, outside any retry, and its answer.
bare(h) ==
  /\ At(h, "bare")
  /\ Writes(h, working, "bareReturn") \/ FailsLocked(h, "bareReturn")
  /\ UNCHANGED <<flags, other, crowded>>

bareReturn(h) ==
  /\ At(h, "bareReturn")
  /\ handler' = [handler EXCEPT ![h].pc = "answered", ![h].answer = StatusCode(handler[h].error)]
  /\ UNCHANGED <<connection, other, crowded>>

Resume(h) ==
  \/ begin(h) \/ setFlags(h) \/ select(h) \/ update(h) \/ updateStatus(h)
  \/ save(h) \/ saveBegin(h) \/ insert(h) \/ insertOwn(h)
  \/ saveCommit(h) \/ saveRollback(h)
  \/ commit(h) \/ rollback(h) \/ finally(h)
  \/ bare(h) \/ bareReturn(h)

\* processBatch's loop comes to its next entry when this one is committed.
Due(f) ==
  f \in Later /\ At(f, "new") /\ At(Before[f], "answered") /\ handler[Before[f]].answer = 200

nextEntry(f) ==
  /\ Due(f)
  /\ Goto(f, "begin")
  /\ UNCHANGED <<connection, other, crowded>>

\* Suspended at an await whose result is there.
Live(h) == handler[h].pc \in Runnable \/ Due(h)

TickOver == \A h \in Handler : ~Live(h)

\* A call that is one transaction: no bare statement and no batch of several entries.
OneTransaction(h) == h \notin Bare \cup Later /\ \A f \in Later : Before[f] # h

\* A tick with room for its calls: two of one transaction each, or a single call.
Room(H) == Cardinality(H) <= IF \A h \in H : OneTransaction(h) THEN 2 ELSE 1

arrive(H) ==
  /\ TickOver
  /\ H # {} /\ \A h \in H : At(h, "new")
  /\ handler' = [h \in Handler |->
       IF h \in H
       THEN [handler[h] EXCEPT !.pc = IF h \in Bare THEN "bare" ELSE "begin"]
       ELSE handler[h]]
  /\ crowded' = (crowded \/ ~Room(H))
  /\ UNCHANGED <<connection, other>>

\* The backoff is a timer with a random part: each ends in a tick of its own.
wake(h) ==
  /\ TickOver
  /\ At(h, "asleep")
  /\ Goto(h, "begin")
  /\ UNCHANGED <<connection, other, crowded>>

\* Another instance writes the row; the write lock keeps it out of a transaction.
otherCommits ==
  /\ other < MaxOther
  /\ ~open
  /\ other' = other + 1
  /\ Write([working EXCEPT !.version = @ + 1])
  /\ UNCHANGED <<flags, handler, crowded>>

Local ==
  \/ \E h \in Handler : Resume(h) \/ wake(h)
  \/ \E f \in Later : nextEntry(f)
  \/ \E H \in Together : arrive(H)

\* The rest of a batch is never reached when an entry of it has failed.
CutOff(f) ==
  /\ f \in Later /\ At(f, "new")
  /\ At(Before[f], "new") \/ handler[Before[f]].answer \in {409, 500}

Done == \A h \in Handler : At(h, "answered") \/ CutOff(h)

Next == Local \/ otherCommits \/ (Done /\ UNCHANGED vars)

Spec == Init /\ [][Next]_vars

\* The event loop runs every continuation and every timer.
FairSpec == Spec /\ WF_vars(Local)

-------------------------------------------------------------------------------

(* Whatever the handlers of a tick have done to each other's transaction, flags and *)
(* savepoints, they leave none of them behind: the next tick starts afresh.        *)
ConnectionLeftClean ==
  TickOver => ~open /\ savepoints = <<>> /\ flags = NoFlags /\ working = stored

(* Until a tick is crowded, manager.save joins its handler's transaction, or is     *)
(* refused its BEGIN within it after another has reset the flags, so that the      *)
(* attempt fails: it never writes in a transaction or savepoint of its own.        *)
SavesJoin ==
  ~crowded => \A h \in Handler :
    ~At(h, "insertOwn") /\ (At(h, "saveBegin") => open /\ flags.depth = 0)

(* Until a tick is crowded the version check never fires, so that no update meets   *)
(* an OptimisticLockError: a transaction keeps everybody else from the row it has   *)
(* read.                                                                         *)
VersionAsRead ==
  ~crowded => \A h \in Handler : At(h, "update") => handler[h].seen = working.version

Made == [h \in Handler |-> handler[h].made]
Answers == [h \in Handler |-> handler[h].answer]

Atomic == INSTANCE AtomicUpdates WITH
  made <- Made, stored <- stored.writes, answer <- Answers

(* Two transactions in one tick, each undoing the other's flags, still store all    *)
(* that fn has written or nothing, and answer accordingly, which is what the other  *)
(* modules take for one step.  It may fail only after a tick without Room for its   *)
(* calls.                                                                         *)
AtomicUnlessCrowded ==
  Atomic!Init /\ [][Atomic!Next \/ crowded]_<<Made, stored.writes, Answers>>

(* Every handler is answered, although attempts fail and sleep.                   *)
EveryHandlerAnswered == <>Done
================================================================================
