------------------------ MODULE SharedConnectionProofs -------------------------
(* Theorems of SharedConnection: what the handlers of one tick can do to the      *)
(* connection they share, for any number of handlers, attempts and commits of     *)
(* another instance.                                                             *)
EXTENDS SharedConnection, FiniteSetTheorems, SequenceTheorems, TLAPS

-------------------------------------------------------------------------------
(* Types                                                                         *)

SqliteTyped ==
  /\ open \in BOOLEAN
  /\ savepoints \in Seq(Savepoint)
  /\ stored \in Data /\ working \in Data

\* A write of the row or of anything else keeps the type of the data.
LEMMA DataTyped ==
  ASSUME NEW d \in Data, NEW h \in Handler
  PROVE  /\ [d EXCEPT !.version = @ + 1] \in Data
         /\ [d EXCEPT !.writes[h] = @ + 1] \in Data
<1>1. d.version \in Nat /\ d.writes \in [Handler -> Nat]
  BY DEF Data
<1>2. d.version + 1 \in Nat /\ [d.writes EXCEPT ![h] = @ + 1] \in [Handler -> Nat]
  BY <1>1
<1> QED
  BY <1>1, <1>2 DEF Data

\* Every savepoint remembers data.
LEMMA SavepointTyped ==
  ASSUME savepoints \in Seq(Savepoint), NEW i \in DOMAIN savepoints
  PROVE  /\ savepoints[i] \in Savepoint /\ savepoints[i].data \in Data
         /\ SubSeq(savepoints, 1, i) \in Seq(Savepoint)
         /\ SubSeq(savepoints, 1, i - 1) \in Seq(Savepoint)
<1>1. i \in 1 .. Len(savepoints) /\ \A j \in 1 .. Len(savepoints) : savepoints[j] \in Savepoint
  BY LenProperties
<1>2. savepoints[i].data \in Data
  BY <1>1 DEF Savepoint
<1>3. i \in Int /\ i - 1 \in Int /\ Len(savepoints) \in Nat
  BY <1>1, LenProperties
<1>4. (\A j \in 1 .. i : savepoints[j] \in Savepoint)
      /\ \A j \in 1 .. i - 1 : savepoints[j] \in Savepoint
  BY <1>1, <1>3
<1>5. SubSeq(savepoints, 1, i) \in Seq(Savepoint)
  BY <1>3, <1>4, SubSeqProperties
<1>6. SubSeq(savepoints, 1, i - 1) \in Seq(Savepoint)
  BY <1>3, <1>4, SubSeqProperties
<1> QED
  BY <1>1, <1>2, <1>5, <1>6

\* Every statement of SQLite keeps its types.
LEMMA SqliteKeepsTypes ==
  ASSUME TypeOK
  PROVE  /\ UNCHANGED sqlite => SqliteTyped'
         /\ BeginOK \/ CommitOK \/ RollbackOK \/ SavepointOK => SqliteTyped'
         /\ \A d \in Data : Write(d) => SqliteTyped'
         /\ \A i \in DOMAIN savepoints : Release(i) \/ RollbackTo(i) => SqliteTyped'
<1> USE DEF TypeOK, SqliteTyped
<1>1. <<>> \in Seq(Savepoint)
  BY EmptySeq
<1>2. UNCHANGED sqlite => SqliteTyped'
  BY DEF sqlite
<1>3. BeginOK => SqliteTyped'
  BY DEF BeginOK
<1>4. CommitOK \/ RollbackOK => SqliteTyped'
  BY <1>1 DEF CommitOK, RollbackOK, End
<1>5. SavepointOK => SqliteTyped'
  <2>1. [name |-> flags.depth, outer |-> ~open, data |-> working] \in Savepoint
    BY DEF Savepoint
  <2> QED
    BY <2>1, AppendProperties DEF SavepointOK
<1>6. \A d \in Data : Write(d) => SqliteTyped'
  BY DEF Write
<1>7. ASSUME NEW i \in DOMAIN savepoints, Release(i) \/ RollbackTo(i)
      PROVE  SqliteTyped'
  <2>1. CASE Release(i)
    BY <1>4, <2>1, SavepointTyped DEF Release
  <2>2. CASE RollbackTo(i)
    BY <2>2, SavepointTyped DEF RollbackTo
  <2> QED BY <1>7, <2>1, <2>2
<1> QED
  BY <1>2, <1>3, <1>4, <1>5, <1>6, <1>7

\* Where a handler can be, and what it is answered.
Pcs == Runnable \cup {"new", "asleep", "answered"}
Codes == {0, 200, 409, 500}

\* A handler's record, by the names of these sets.
LEMMA RecordShape ==
  HandlerRecord =
    [pc : Pcs, seen : Nat, made : Nat, error : Error, attempt : Nat, answer : Codes]
BY DEF HandlerRecord, Pcs, Codes

\* A handler's record keeps its type whatever a step assigns to its fields.
LEMMA RecordTyped ==
  ASSUME NEW r \in HandlerRecord, NEW pc \in Pcs, NEW e \in Error, NEW n \in Nat,
         NEW m \in Nat, NEW code \in Codes
  PROVE  /\ [r EXCEPT !.pc = pc] \in HandlerRecord
         /\ [r EXCEPT !.pc = pc, !.error = e] \in HandlerRecord
         /\ [r EXCEPT !.pc = pc, !.seen = n] \in HandlerRecord
         /\ [r EXCEPT !.pc = pc, !.made = n] \in HandlerRecord
         /\ [r EXCEPT !.pc = pc, !.answer = code] \in HandlerRecord
         /\ [r EXCEPT !.pc = pc, !.attempt = n, !.error = e, !.made = m] \in HandlerRecord
<1> USE RecordShape
<1>1. [r EXCEPT !.pc = pc] \in HandlerRecord
  OBVIOUS
<1>2. [r EXCEPT !.pc = pc, !.error = e] \in HandlerRecord
  OBVIOUS
<1>3. [r EXCEPT !.pc = pc, !.seen = n] \in HandlerRecord
  OBVIOUS
<1>4. [r EXCEPT !.pc = pc, !.made = n] \in HandlerRecord
  OBVIOUS
<1>5. [r EXCEPT !.pc = pc, !.answer = code] \in HandlerRecord
  OBVIOUS
<1>6. [r EXCEPT !.pc = pc, !.attempt = n, !.error = e, !.made = m] \in HandlerRecord
  OBVIOUS
<1> QED
  BY <1>1, <1>2, <1>3, <1>4, <1>5, <1>6

HandlersTyped == handler \in [Handler -> HandlerRecord]

\* So do the records of all handlers, ...
LEMMA HandlerTyped ==
  ASSUME HandlersTyped, NEW h \in Handler
  PROVE  /\ \A pc \in Pcs :
              /\ Goto(h, pc) => HandlersTyped'
              /\ handler' = [handler EXCEPT ![h].pc = pc, ![h].made = @ + 1] => HandlersTyped'
         /\ \A e \in Error, pc \in Pcs : Throw(h, e, pc) => HandlersTyped'
         /\ \A pc \in Pcs, n \in Nat :
              handler' = [handler EXCEPT ![h].pc = pc, ![h].seen = n] => HandlersTyped'
         /\ \A pc \in Pcs, code \in Codes :
              handler' = [handler EXCEPT ![h].pc = pc, ![h].answer = code] => HandlersTyped'
<1> USE DEF HandlersTyped
<1>1. handler[h] \in HandlerRecord /\ handler[h].made + 1 \in Nat
  BY RecordShape
<1>2. \A pc \in Pcs, e \in Error, n \in Nat, m \in Nat, code \in Codes :
        /\ [handler[h] EXCEPT !.pc = pc] \in HandlerRecord
        /\ [handler[h] EXCEPT !.pc = pc, !.error = e] \in HandlerRecord
        /\ [handler[h] EXCEPT !.pc = pc, !.seen = n] \in HandlerRecord
        /\ [handler[h] EXCEPT !.pc = pc, !.made = n] \in HandlerRecord
        /\ [handler[h] EXCEPT !.pc = pc, !.answer = code] \in HandlerRecord
  BY <1>1, RecordTyped, Zenon
<1>3. "none" \in Error /\ 0 \in Nat /\ 0 \in Codes
  BY DEF Error, Codes
<1>4. ASSUME NEW pc \in Pcs
      PROVE  /\ Goto(h, pc) => HandlersTyped'
             /\ handler' = [handler EXCEPT ![h].pc = pc, ![h].made = @ + 1] => HandlersTyped'
  <2>1. [handler[h] EXCEPT !.pc = pc] \in HandlerRecord
    BY <1>2, <1>3
  <2>2. [handler[h] EXCEPT !.pc = pc, !.made = handler[h].made + 1] \in HandlerRecord
    BY <1>1, <1>2, <1>3
  <2> QED BY <2>1, <2>2 DEF Goto
<1>5. ASSUME NEW pc \in Pcs, NEW e \in Error
      PROVE  Throw(h, e, pc) => HandlersTyped'
  <2>1. [handler[h] EXCEPT !.pc = pc, !.error = e] \in HandlerRecord
    BY <1>2, <1>3
  <2> QED BY <2>1 DEF Throw
<1>6. ASSUME NEW pc \in Pcs, NEW n \in Nat
      PROVE  handler' = [handler EXCEPT ![h].pc = pc, ![h].seen = n] => HandlersTyped'
  <2>1. [handler[h] EXCEPT !.pc = pc, !.seen = n] \in HandlerRecord
    BY <1>2, <1>3
  <2> QED BY <2>1
<1>7. ASSUME NEW pc \in Pcs, NEW code \in Codes
      PROVE  handler' = [handler EXCEPT ![h].pc = pc, ![h].answer = code] => HandlersTyped'
  <2>1. [handler[h] EXCEPT !.pc = pc, !.answer = code] \in HandlerRecord
    BY <1>2, <1>3
  <2> QED BY <2>1
<1> HIDE DEF HandlersTyped
<1> QED
  BY <1>4, <1>5, <1>6, <1>7

\* ... also when an attempt ends.
LEMMA ReturnTyped ==
  ASSUME HandlersTyped, NEW h \in Handler, Return(h)
  PROVE  HandlersTyped'
<1> DEFINE r == handler[h]
           a == [r EXCEPT !.pc = "asleep", !.attempt = r.attempt + 1, !.error = "none",
                          !.made = 0]
           b == [r EXCEPT !.pc = "answered", !.answer = StatusCode(r.error)]
<1>1. r \in HandlerRecord
  BY DEF HandlersTyped
<1>2. /\ r.attempt + 1 \in Nat /\ "none" \in Error /\ 0 \in Nat
      /\ "asleep" \in Pcs /\ "answered" \in Pcs /\ StatusCode(r.error) \in Codes
  BY <1>1, RecordShape DEF Error, Pcs, Codes, StatusCode
<1>3. a \in HandlerRecord
  <2>1. PICK n \in Nat, e \in Error, m \in Nat :
          n = r.attempt + 1 /\ e = "none" /\ m = 0
    BY <1>2
  <2>2. [r EXCEPT !.pc = "asleep", !.attempt = n, !.error = e, !.made = m] \in HandlerRecord
    <3> HIDE DEF r
    <3> QED BY <1>1, <1>2, RecordTyped, Zenon
  <2> QED BY <2>1, <2>2
<1>4. b \in HandlerRecord
  <2>1. PICK code \in Codes : code = StatusCode(r.error)
    BY <1>2
  <2>2. [r EXCEPT !.pc = "answered", !.answer = code] \in HandlerRecord
    <3> HIDE DEF r
    <3> QED BY <1>1, <1>2, <2>1, RecordTyped, Zenon
  <2> QED BY <2>1, <2>2
<1>5. handler' = [handler EXCEPT ![h] = a] \/ handler' = [handler EXCEPT ![h] = b]
  BY DEF Return
<1> HIDE DEF a, b, r
<1> QED
  BY <1>3, <1>4, <1>5 DEF HandlersTyped

FlagsTyped == flags \in [active : BOOLEAN, depth : Int]

\* TypeORM counts transactionDepth up and down, as far as the types know below zero.
LEMMA CountedFlagsTyped ==
  ASSUME FlagsTyped
  PROVE  /\ Deeper => FlagsTyped'
         /\ \A active \in BOOLEAN : Shallower(active) => FlagsTyped'
<1>1. /\ flags = [active |-> flags.active, depth |-> flags.depth]
      /\ flags.active \in BOOLEAN
      /\ flags.depth + 1 \in Int /\ flags.depth - 1 \in Int
  BY DEF FlagsTyped
<1>2. Deeper => FlagsTyped'
  BY <1>1 DEF Deeper, FlagsTyped
<1>3. \A active \in BOOLEAN : Shallower(active) => FlagsTyped'
  BY <1>1 DEF Shallower, FlagsTyped
<1> QED
  BY <1>2, <1>3

\* The type invariant is made of these, ...
LEMMA TypesSplit ==
  /\ TypeOK <=> /\ SqliteTyped /\ FlagsTyped /\ HandlersTyped
                /\ other \in Nat /\ crowded \in BOOLEAN
  /\ TypeOK' <=> /\ SqliteTyped' /\ FlagsTyped' /\ HandlersTyped'
                 /\ other' \in Nat /\ crowded' \in BOOLEAN
BY DEF TypeOK, SqliteTyped, FlagsTyped, HandlersTyped

\* The members of these sets, for a step to cite.
LEMMA Names ==
  /\ "begin" \in Pcs /\ "flags" \in Pcs /\ "select" \in Pcs /\ "update" \in Pcs
  /\ "updateStatus" \in Pcs /\ "save" \in Pcs /\ "saveBegin" \in Pcs /\ "insertOwn" \in Pcs
  /\ "saveCommit" \in Pcs /\ "saveRollback" \in Pcs /\ "insert" \in Pcs /\ "commit" \in Pcs
  /\ "rollback" \in Pcs /\ "finally" \in Pcs /\ "bare" \in Pcs /\ "bareReturn" \in Pcs
  /\ "new" \in Pcs /\ "asleep" \in Pcs /\ "answered" \in Pcs
  /\ "none" \in Error /\ "within" \in Error /\ "locked" \in Error /\ "optimistic" \in Error
  /\ "refused" \in Error /\ "unique" \in Error /\ "other" \in Error
BY DEF Pcs, Runnable, Error

\* A statement of one handler keeps the types, ...
LEMMA ResumeTyped ==
  ASSUME TypeOK, NEW h \in Handler, Resume(h)
  PROVE  TypeOK'
<1> SUFFICES SqliteTyped' /\ FlagsTyped' /\ HandlersTyped' /\ UNCHANGED <<other, crowded>>
  BY TypesSplit
<1> USE TypesSplit
<1>1. ASSUME UNCHANGED connection
      PROVE  SqliteTyped' /\ FlagsTyped'
  BY <1>1, SqliteKeepsTypes DEF connection, FlagsTyped
<1>2. CASE begin(h)
  <2>1. HandlersTyped'
    BY <1>2, HandlerTyped, Names DEF begin
  <2>2. SqliteTyped' /\ FlagsTyped'
    BY <1>2, SqliteKeepsTypes DEF begin, FlagsTyped
  <2> QED BY <1>2, <2>1, <2>2 DEF begin
<1>3. CASE setFlags(h)
  <2>1. HandlersTyped'
    BY <1>3, HandlerTyped, Names DEF setFlags
  <2>2. SqliteTyped' /\ FlagsTyped'
    BY <1>3, SqliteKeepsTypes DEF setFlags, FlagsTyped
  <2> QED BY <1>3, <2>1, <2>2 DEF setFlags
<1>4. CASE select(h)
  <2>1. working.version \in Nat
    BY DEF SqliteTyped, Data
  <2>2. HandlersTyped'
    BY <1>4, <2>1, HandlerTyped, Names DEF select
  <2> QED BY <1>1, <1>4, <2>2 DEF select
<1>5. CASE update(h)
  <2>1. HandlersTyped'
    BY <1>5, HandlerTyped, Names DEF update, Writes, FailsLocked
  <2>2. [[working EXCEPT !.version = @ + 1] EXCEPT !.writes[h] = @ + 1] \in Data
    BY DataTyped DEF SqliteTyped
  <2>3. SqliteTyped'
    BY <1>5, <2>2, SqliteKeepsTypes DEF update, Writes, FailsLocked
  <2> QED BY <1>5, <2>1, <2>3 DEF update, FlagsTyped
<1>6. CASE updateStatus(h) \/ insert(h) \/ bare(h)
  <2>1. HandlersTyped'
    BY <1>6, HandlerTyped, Names
       DEF updateStatus, insert, bare, insertRefused, Writes, FailsLocked
  <2>2. [working EXCEPT !.writes[h] = @ + 1] \in Data
    BY DataTyped DEF SqliteTyped
  <2>3. SqliteTyped'
    BY <1>6, <2>2, SqliteKeepsTypes
       DEF updateStatus, insert, bare, insertRefused, Writes, FailsLocked
  <2> QED BY <1>6, <2>1, <2>3 DEF updateStatus, insert, bare, FlagsTyped
<1>7. CASE save(h)
  <2>1. HandlersTyped'
    BY <1>7, HandlerTyped, Names DEF save
  <2>2. SqliteTyped' /\ FlagsTyped'
    BY <1>7, SqliteKeepsTypes DEF save, FlagsTyped
  <2> QED BY <1>7, <2>1, <2>2 DEF save
<1>8. CASE saveBegin(h)
  <2>1. HandlersTyped'
    BY <1>8, HandlerTyped, Names DEF saveBegin
  <2>2. SqliteTyped' /\ FlagsTyped'
    BY <1>1, <1>8, SqliteKeepsTypes, CountedFlagsTyped DEF saveBegin
  <2> QED BY <1>8, <2>1, <2>2 DEF saveBegin
<1>9. CASE insertOwn(h)
  <2>1. HandlersTyped'
    BY <1>9, HandlerTyped, Names DEF insertOwn, Writes
  <2>2. [working EXCEPT !.writes[h] = @ + 1] \in Data
    BY DataTyped DEF SqliteTyped
  <2>3. SqliteTyped'
    BY <1>9, <2>2, SqliteKeepsTypes DEF insertOwn, Writes
  <2> QED BY <1>9, <2>1, <2>3 DEF insertOwn, FlagsTyped
<1>10. CASE saveCommit(h)
  <2>1. HandlersTyped'
    BY <1>10, HandlerTyped, Names DEF saveCommit, Saved
  <2>2. SqliteTyped' /\ FlagsTyped'
    BY <1>1, <1>10, SqliteKeepsTypes, CountedFlagsTyped DEF saveCommit
  <2> QED BY <1>10, <2>1, <2>2 DEF saveCommit
<1>11. CASE saveRollback(h)
  <2>1. HandlersTyped'
    BY <1>11, HandlerTyped, Names DEF saveRollback
  <2>2. SqliteTyped' /\ FlagsTyped'
    BY <1>1, <1>11, SqliteKeepsTypes, CountedFlagsTyped DEF saveRollback
  <2> QED BY <1>11, <2>1, <2>2 DEF saveRollback
<1>12. CASE commit(h) \/ rollback(h)
  <2>1. HandlersTyped'
    BY <1>12, HandlerTyped, Names DEF commit, rollback
  <2>2. SqliteTyped' /\ FlagsTyped'
    BY <1>12, SqliteKeepsTypes DEF commit, rollback, FlagsTyped
  <2> QED BY <1>12, <2>1, <2>2 DEF commit, rollback
<1>13. CASE finally(h)
  <2>1. HandlersTyped'
    BY <1>13, ReturnTyped DEF finally
  <2>2. SqliteTyped' /\ FlagsTyped'
    BY <1>13, SqliteKeepsTypes DEF finally, FlagsTyped, NoFlags
  <2> QED BY <1>13, <2>1, <2>2 DEF finally
<1>14. CASE bareReturn(h)
  <2>1. StatusCode(handler[h].error) \in Codes
    BY DEF StatusCode, Codes
  <2>2. HandlersTyped'
    BY <1>14, <2>1, HandlerTyped, Names DEF bareReturn
  <2> QED BY <1>1, <1>14, <2>2 DEF bareReturn
<1> QED
  BY <1>2, <1>3, <1>4, <1>5, <1>6, <1>7, <1>8, <1>9, <1>10, <1>11, <1>12,
     <1>13, <1>14 DEF Resume

\* ... and so does every step.
LEMMA StepTyped ==
  ASSUME TypeOK, [Next]_vars
  PROVE  TypeOK'
<1> USE TypesSplit
<1>1. ASSUME UNCHANGED connection
      PROVE  SqliteTyped' /\ FlagsTyped'
  BY <1>1, SqliteKeepsTypes DEF connection, FlagsTyped
<1>2. ASSUME NEW h \in Handler, wake(h) \/ nextEntry(h)
      PROVE  TypeOK'
  <2>1. HandlersTyped'
    BY <1>2, HandlerTyped, Names DEF wake, nextEntry
  <2> QED BY <1>1, <1>2, <2>1 DEF wake, nextEntry
<1>3. ASSUME NEW H \in Together, arrive(H)
      PROVE  TypeOK'
  <2>1. ASSUME NEW h \in Handler
        PROVE  /\ handler[h] \in HandlerRecord
               /\ [handler[h] EXCEPT !.pc = IF h \in Bare THEN "bare" ELSE "begin"]
                    \in HandlerRecord
    BY DEF HandlersTyped, HandlerRecord, Runnable
  <2>2. HandlersTyped'
    BY <1>3, <2>1 DEF arrive, HandlersTyped
  <2>3. crowded' \in BOOLEAN
    BY <1>3 DEF arrive
  <2> QED
    BY <1>1, <1>3, <2>2, <2>3 DEF arrive
<1>4. CASE otherCommits
  <2>1. [working EXCEPT !.version = @ + 1] \in Data
    <3>1. working \in Data /\ working.version + 1 \in Nat
      BY DEF SqliteTyped, Data
    <3>2. [working EXCEPT !.version = working.version + 1] \in Data
      BY <3>1 DEF Data
    <3> QED BY <3>2
  <2>2. SqliteTyped'
    BY <1>4, <2>1, SqliteKeepsTypes DEF otherCommits
  <2> QED
    BY <1>4, <2>2 DEF otherCommits, FlagsTyped, HandlersTyped
<1>5. CASE UNCHANGED vars
  <2>1. UNCHANGED <<connection, handler, other, crowded>>
    BY <1>5 DEF vars
  <2>2. HandlersTyped'
    BY <2>1 DEF HandlersTyped
  <2> QED BY <1>1, <2>1, <2>2
<1>6. ASSUME NEW f \in Later
      PROVE  f \in Handler
  BY HandlerAssumption
<1> QED
  BY <1>2, <1>3, <1>4, <1>5, <1>6, ResumeTyped DEF Next, Local

(* Every variable keeps its type: a handler is suspended at a step of its own, and *)
(* transactionDepth, which TypeORM counts up and down, is an integer.              *)
THEOREM ConnectionTyped == Spec => []TypeOK
<1>1. Init => TypeOK
  <2> SUFFICES ASSUME Init PROVE TypeOK
    OBVIOUS
  <2>1. HandlersTyped
    <3>1. [pc |-> "new", seen |-> 0, made |-> 0, error |-> "none", attempt |-> 1,
           answer |-> 0] \in HandlerRecord
      BY DEF HandlerRecord, Error
    <3> QED
      BY <3>1 DEF Init, HandlersTyped
  <2>2. stored \in Data /\ working \in Data
    BY DEF Init, Data
  <2>3. SqliteTyped
    BY <2>2, EmptySeq DEF Init, SqliteTyped
  <2>4. FlagsTyped
    BY DEF Init, NoFlags, FlagsTyped
  <2> QED
    BY <2>1, <2>3, <2>4, TypesSplit DEF Init
<1> QED
  BY <1>1, StepTyped, PTL DEF Spec

-------------------------------------------------------------------------------
(* What a resumed handler does to the control state: the steps handlers stand at,   *)
(* the open transaction and the flags.                                            *)

In(h, pcs) == handler[h].pc \in pcs

\* From BEGIN to ROLLBACK.
Inside ==
  {"flags", "select", "update", "updateStatus", "save", "saveBegin", "insertOwn",
   "saveCommit", "saveRollback", "insert", "commit", "rollback"}

\* The steps of fn before manager.save looks at the flags for the last time.
Midway == {"select", "update", "updateStatus", "save", "insert"}

Begun == [active |-> TRUE, depth |-> 1]

\* h moves, and it moves alone.
Moves(h, from, to) ==
  /\ handler[h].pc = from
  /\ handler'[h].pc = to
  /\ \A g \in Handler : g # h => handler'[g] = handler[g]

\* Steps that leave the transaction and the flags alone.
MovesPast(h) ==
  /\ \/ Moves(h, "begin", "finally")
     \/ \E to \in {"update", "commit", "rollback"} : Moves(h, "select", to)
     \/ \E to \in {"updateStatus", "save", "rollback"} : Moves(h, "update", to)
     \/ \E to \in {"save", "rollback"} : Moves(h, "updateStatus", to)
     \/ Moves(h, "save", "insert") /\ flags.active
     \/ \E to \in {"save", "commit", "rollback"} : Moves(h, "insert", to)
     \/ Moves(h, "commit", "rollback") /\ ~open
     \/ Moves(h, "rollback", "finally") /\ ~open
     \/ Moves(h, "bare", "bareReturn") \/ Moves(h, "bareReturn", "answered")
  /\ UNCHANGED <<open, flags>>

\* Steps that begin or end the transaction.
MovesOpen(h) ==
  /\ \/ Moves(h, "begin", "flags") /\ ~open /\ open' = TRUE
     \/ Moves(h, "commit", "finally") /\ open /\ open' = FALSE
     \/ Moves(h, "rollback", "finally") /\ open /\ open' = FALSE
  /\ UNCHANGED flags

\* Steps that set the flags only.
MovesFlags(h) ==
  /\ \/ Moves(h, "flags", "select") /\ flags' = Begun
     \/ Moves(h, "save", "saveBegin") /\ ~flags.active /\ flags'.depth = flags.depth
     \/ Moves(h, "finally", "asleep") /\ flags' = NoFlags
     \/ Moves(h, "finally", "answered") /\ flags' = NoFlags
  /\ UNCHANGED open

\* Steps of manager.save in what it takes for a transaction of its own.
MovesOwn(h) ==
  \/ Moves(h, "saveBegin", "saveRollback") /\ UNCHANGED <<open, flags>>
  \/ Moves(h, "saveBegin", "insertOwn") /\ ~(open /\ flags.depth = 0)
  \/ \E to \in {"saveCommit", "saveRollback"} : Moves(h, "insertOwn", to)
  \/ \E to \in {"save", "commit", "saveRollback"} : Moves(h, "saveCommit", to)
  \/ Moves(h, "saveRollback", "rollback")
  \/ Moves(h, "saveRollback", "commit") /\ handler[h].error = "unique"

\* Every statement is one of these moves.
LEMMA ResumeMoves ==
  ASSUME TypeOK, NEW h \in Handler, Resume(h)
  PROVE  /\ MovesPast(h) \/ MovesOpen(h) \/ MovesFlags(h) \/ MovesOwn(h)
         /\ UNCHANGED <<other, crowded>>
<1> USE DEF Moves, At, Goto, Throw, sqlite, connection
<1>0. /\ handler \in [Handler -> HandlerRecord]
      /\ handler[h] \in HandlerRecord
      /\ DOMAIN handler = Handler
      /\ flags = [active |-> flags.active, depth |-> flags.depth]
  BY DEF TypeOK
<1>1. CASE begin(h)
  BY <1>0, <1>1 DEF begin, BeginOK, MovesPast, MovesOpen, HandlerRecord
<1>2. CASE setFlags(h)
  BY <1>0, <1>2 DEF setFlags, MovesFlags, Begun, HandlerRecord
<1>3. CASE select(h)
  BY <1>0, <1>3 DEF select, MovesPast, HandlerRecord
<1>4. CASE update(h)
  BY <1>0, <1>4 DEF update, Writes, Write, FailsLocked, MovesPast, HandlerRecord
<1>5. CASE updateStatus(h)
  BY <1>0, <1>5 DEF updateStatus, Writes, Write, FailsLocked, MovesPast, HandlerRecord
<1>6. CASE save(h)
  BY <1>0, <1>6 DEF save, MovesPast, MovesFlags, HandlerRecord
<1>7. CASE insert(h)
  BY <1>0, <1>7
     DEF insert, insertRefused, Writes, Write, FailsLocked, MovesPast, HandlerRecord
<1>8. CASE saveBegin(h)
  <2>1. CASE Goto(h, "insertOwn") /\ ~(open /\ flags.depth = 0)
    BY <1>0, <1>8, <2>1 DEF saveBegin, MovesOwn, HandlerRecord
  <2>2. CASE ~(Goto(h, "insertOwn") /\ ~(open /\ flags.depth = 0))
    <3>1. UNCHANGED connection
          /\ \E e \in {"within", "other"} : Throw(h, e, "saveRollback")
      BY <1>8, <2>2 DEF saveBegin, BeginOK
    <3> QED BY <1>0, <1>8, <3>1 DEF saveBegin, MovesOwn, HandlerRecord
  <2> QED BY <1>8, <2>1, <2>2 DEF saveBegin
<1>9. CASE insertOwn(h)
  BY <1>0, <1>9 DEF insertOwn, Writes, MovesOwn, HandlerRecord
<1>10. CASE saveCommit(h)
  <2>1. PICK to \in {"save", "commit"} : to = Saved(h)
    BY DEF Saved
  <2>2. Goto(h, to) \/ Throw(h, "other", "saveRollback")
    BY <1>10, <2>1 DEF saveCommit
  <2> QED BY <1>0, <1>10, <2>2 DEF saveCommit, MovesOwn, HandlerRecord
<1>11. CASE saveRollback(h)
  BY <1>0, <1>11 DEF saveRollback, MovesOwn, HandlerRecord
<1>12. CASE commit(h)
  BY <1>0, <1>12 DEF commit, CommitOK, End, MovesPast, MovesOpen, HandlerRecord
<1>13. CASE rollback(h)
  BY <1>0, <1>13 DEF rollback, RollbackOK, End, MovesPast, MovesOpen, HandlerRecord
<1>14. CASE finally(h)
  <2>1. handler'[h].pc \in {"asleep", "answered"}
    BY <1>0, <1>14 DEF finally, Return, HandlerRecord
  <2>2. \A g \in Handler : g # h => handler'[g] = handler[g]
    BY <1>0, <1>14 DEF finally, Return
  <2> QED
    BY <1>14, <2>1, <2>2 DEF finally, MovesFlags
<1>15. CASE bare(h)
  BY <1>0, <1>15 DEF bare, Writes, Write, FailsLocked, MovesPast, HandlerRecord
<1>16. CASE bareReturn(h)
  BY <1>0, <1>16 DEF bareReturn, MovesPast, HandlerRecord
<1>17. UNCHANGED <<other, crowded>>
  BY DEF Resume, begin, setFlags, select, update, updateStatus, save, insert, saveBegin,
         insertOwn, saveCommit, saveRollback, commit, rollback, finally, bare, bareReturn
<1> QED
  BY <1>1, <1>2, <1>3, <1>4, <1>5, <1>6, <1>7, <1>8, <1>9, <1>10, <1>11, <1>12,
     <1>13, <1>14, <1>15, <1>16, <1>17 DEF Resume

-------------------------------------------------------------------------------
(* What a tick leaves behind: whatever is open or set, somebody still has to undo. *)

\* Between transactions the connection sees what is committed.
Settled == ~open => savepoints = <<>> /\ working = stored

CleanInv ==
  /\ open => \E h \in Handler : In(h, Inside)
  /\ Settled
  /\ flags # NoFlags => \E h \in Handler : In(h, Inside \cup {"finally"})

\* BEGIN, SAVEPOINT, their ends and a write in between leave it settled.
LEMMA StaysSettled ==
  ASSUME Settled
  PROVE  /\ UNCHANGED sqlite => Settled'
         /\ BeginOK \/ CommitOK \/ RollbackOK \/ SavepointOK => Settled'
         /\ \A d : Write(d) => Settled'
         /\ \A i \in DOMAIN savepoints : open /\ (Release(i) \/ RollbackTo(i)) => Settled'
BY DEF Settled, sqlite, BeginOK, CommitOK, RollbackOK, End, SavepointOK, Write, Release,
       RollbackTo

\* A savepoint is there in a transaction only.
LEMMA SavepointsInside ==
  ASSUME Settled, NEW i \in DOMAIN savepoints
  PROVE  open
BY DEF Settled

LEMMA ResumeSettled ==
  ASSUME NEW h \in Handler, Resume(h), Settled
  PROVE  Settled'
<1>1. CASE begin(h) \/ setFlags(h) \/ select(h) \/ save(h)
  BY <1>1, StaysSettled DEF begin, setFlags, select, save, connection
<1>2. CASE update(h) \/ updateStatus(h) \/ insert(h) \/ insertOwn(h) \/ bare(h)
  BY <1>2, StaysSettled
     DEF update, updateStatus, insert, insertRefused, insertOwn, bare, Writes, FailsLocked
<1>3. CASE saveBegin(h) \/ saveCommit(h) \/ saveRollback(h)
  BY <1>3, StaysSettled, SavepointsInside DEF saveBegin, saveCommit, saveRollback, connection
<1>4. CASE commit(h) \/ rollback(h) \/ finally(h) \/ bareReturn(h)
  BY <1>4, StaysSettled DEF commit, rollback, finally, bareReturn, connection
<1> QED
  BY <1>1, <1>2, <1>3, <1>4 DEF Resume

\* Who opens a transaction or sets a flag is still inside.
LEMMA CleanResume ==
  ASSUME TypeOK, CleanInv, NEW h \in Handler, Resume(h)
  PROVE  CleanInv'
<1> USE DEF CleanInv, In, Inside, Moves
<1>1. Settled'
  BY ResumeSettled
<1>2. CASE MovesPast(h)
  <2>1. open' => \E g \in Handler : In(g, Inside)'
    BY <1>2 DEF MovesPast
  <2>2. flags' # NoFlags => \E g \in Handler : In(g, Inside \cup {"finally"})'
    BY <1>2 DEF MovesPast
  <2> QED BY <1>1, <2>1, <2>2
<1>3. CASE MovesOpen(h)
  <2>1. In(h, Inside \cup {"finally"})'
    BY <1>3 DEF MovesOpen
  <2>2. open' => In(h, Inside)'
    BY <1>3 DEF MovesOpen
  <2> QED BY <1>1, <2>1, <2>2
<1>4. CASE MovesFlags(h)
  <2>1. open' => \E g \in Handler : In(g, Inside)'
    BY <1>4 DEF MovesFlags
  <2>2. flags' # NoFlags => In(h, Inside)'
    BY <1>4 DEF MovesFlags
  <2> QED BY <1>1, <2>1, <2>2
<1>5. CASE MovesOwn(h)
  <2>1. In(h, Inside)'
    BY <1>5 DEF MovesOwn
  <2> QED BY <1>1, <2>1
<1> QED
  BY <1>2, <1>3, <1>4, <1>5, ResumeMoves

\* When a tick is over nobody is within an attempt.
LEMMA TickOverClean ==
  ASSUME CleanInv, TickOver
  PROVE  /\ \A h \in Handler : ~In(h, Inside \cup {"finally"})
         /\ ~open /\ savepoints = <<>> /\ flags = NoFlags /\ working = stored
BY DEF CleanInv, Settled, TickOver, Live, In, Inside, Runnable

\* The next entry of a batch starts at its BEGIN, which nothing depends on.
LEMMA EntersNext ==
  ASSUME TypeOK, NEW f \in Later, nextEntry(f)
  PROVE  /\ f \in Handler /\ Due(f) /\ Moves(f, "new", "begin")
         /\ UNCHANGED <<connection, other, crowded>>
         /\ handler'[f].error = handler[f].error /\ handler'[f].made = handler[f].made
         /\ handler'[f].answer = handler[f].answer
<1>1. f \in Handler
  BY HandlerAssumption
<1>2. handler[f] \in HandlerRecord /\ DOMAIN handler = Handler
  BY <1>1 DEF TypeOK
<1> QED
  BY <1>1, <1>2 DEF nextEntry, Due, Moves, At, Goto, HandlerRecord, TypeOK

\* The other steps happen between ticks or leave the connection alone.
LEMMA CleanStep ==
  ASSUME TypeOK, CleanInv, [Next]_vars
  PROVE  CleanInv'
<1>1. ASSUME TickOver, UNCHANGED connection
      PROVE  CleanInv'
  BY <1>1, TickOverClean DEF CleanInv, Settled, connection, sqlite
<1>2. ASSUME NEW f \in Later, nextEntry(f)
      PROVE  CleanInv'
  BY <1>2, EntersNext DEF CleanInv, Settled, connection, sqlite, Moves, In, Inside
<1>3. CASE otherCommits
  <2>1. ~open /\ open' = open /\ UNCHANGED <<flags, handler>> /\ Settled'
    BY <1>3, StaysSettled DEF CleanInv, otherCommits, Write
  <2> QED BY <2>1 DEF CleanInv, In
<1>4. CASE UNCHANGED vars
  BY <1>4 DEF CleanInv, Settled, vars, connection, sqlite, In
<1> QED
  BY <1>1, <1>2, <1>3, <1>4, CleanResume DEF Next, Local, wake, arrive

(* When no handler is runnable any more, no transaction or savepoint is open, no    *)
(* flag is set and nothing written is uncommitted, however many handlers the tick   *)
(* had: BEGIN has its ROLLBACK or COMMIT and its finally on every path of           *)
(* withImmediateTransaction, and whatever manager.save has begun within it falls    *)
(* with that ROLLBACK or COMMIT.                                                  *)
THEOREM TicksLeaveConnectionClean == Spec => []ConnectionLeftClean
<1>1. Init => CleanInv
  BY DEF Init, CleanInv, Settled, NoFlags
<1>2. CleanInv => ConnectionLeftClean
  BY TickOverClean DEF ConnectionLeftClean
<1> QED
  BY <1>1, <1>2, CleanStep, ConnectionTyped, PTL DEF Spec

-------------------------------------------------------------------------------
(* What a resumed handler does to the data, and to its own error and answer, as     *)
(* long as manager.save joins its transaction.                                    *)

Joins(h) ==
  /\ ~In(h, {"insertOwn", "saveCommit"})
  /\ In(h, {"saveBegin"}) => open /\ flags.depth = 0
  /\ In(h, {"saveRollback"}) => handler[h].error # "unique"

Keeps(h) ==
  /\ handler'[h].error = handler[h].error
  /\ handler'[h].made = handler[h].made
  /\ handler'[h].answer = handler[h].answer

Fails(h) ==
  /\ handler'[h].error \notin {"none", "unique"}
  /\ handler'[h].made = handler[h].made
  /\ handler'[h].answer = handler[h].answer

\* Steps that go on.
Proceeds(h) ==
  /\ \/ Moves(h, "begin", "flags") /\ ~open
     \/ Moves(h, "flags", "select")
     \/ Moves(h, "select", "update") /\ handler'[h].seen = working.version
     \/ Moves(h, "select", "commit")
     \/ Moves(h, "save", "insert") \/ Moves(h, "save", "saveBegin")
     \/ Moves(h, "insert", "commit")
  /\ Keeps(h)
  /\ UNCHANGED <<stored, working>>

\* Steps that throw.
Throws(h) ==
  /\ \/ Moves(h, "begin", "finally") \/ Moves(h, "bare", "bareReturn")
     \/ Moves(h, "saveBegin", "saveRollback")
     \/ \E from \in {"select", "update", "updateStatus", "insert", "commit"} :
          Moves(h, from, "rollback")
  /\ Fails(h)
  /\ UNCHANGED <<stored, working>>

\* Steps that write.
WritesOne(h) ==
  /\ \/ \E to \in {"updateStatus", "save"} : Moves(h, "update", to)
     \/ Moves(h, "updateStatus", "save")
     \/ \E to \in {"save", "commit"} : Moves(h, "insert", to)
     \/ Moves(h, "bare", "bareReturn")
  /\ working'.writes = [working.writes EXCEPT ![h] = @ + 1]
  /\ stored' = IF open THEN stored ELSE working'
  /\ handler'[h].made = handler[h].made + 1
  /\ handler'[h].error = handler[h].error
  /\ handler'[h].answer = handler[h].answer

\* Steps that end a transaction.
Ends(h) ==
  /\ \/ Moves(h, "commit", "finally") /\ open /\ stored' = working
     \/ /\ Moves(h, "saveRollback", "rollback") \/ Moves(h, "rollback", "finally")
        /\ stored' = stored
  /\ Keeps(h)

\* Steps that end the attempt.
Leaves(h) ==
  /\ \/ /\ Moves(h, "finally", "asleep")
        /\ isRetryableError(handler[h].error)
        /\ handler'[h].error = "none" /\ handler'[h].made = 0
        /\ handler'[h].answer = handler[h].answer
     \/ /\ Moves(h, "finally", "answered") \/ Moves(h, "bareReturn", "answered")
        /\ handler'[h].error = handler[h].error
        /\ handler'[h].made = handler[h].made
        /\ handler'[h].answer = StatusCode(handler[h].error)
  /\ UNCHANGED <<stored, working>>

\* Every statement is one of these.
LEMMA ResumeData ==
  ASSUME TypeOK, NEW h \in Handler, Resume(h), Joins(h)
  PROVE  Proceeds(h) \/ Throws(h) \/ WritesOne(h) \/ Ends(h) \/ Leaves(h)
<1> USE DEF Joins, In, Moves, At, Goto, Throw, Keeps, Fails, sqlite, connection
<1>0. /\ handler \in [Handler -> HandlerRecord]
      /\ handler[h] \in HandlerRecord
      /\ DOMAIN handler = Handler
  BY DEF TypeOK
<1>1. CASE begin(h)
  BY <1>0, <1>1 DEF begin, BeginOK, Proceeds, Throws, HandlerRecord
<1>2. CASE setFlags(h)
  BY <1>0, <1>2 DEF setFlags, Proceeds, HandlerRecord
<1>3. CASE select(h)
  BY <1>0, <1>3 DEF select, Proceeds, Throws, HandlerRecord
<1>4. CASE update(h) \/ updateStatus(h) \/ insert(h) \/ bare(h)
  <2>1. ASSUME NEW d \in Data, d.writes = working.writes, NEW pc, Writes(h, d, pc)
        PROVE  /\ working'.writes = [working.writes EXCEPT ![h] = @ + 1]
               /\ stored' = IF open THEN stored ELSE working'
               /\ handler'[h].pc = pc
               /\ handler'[h].made = handler[h].made + 1
               /\ handler'[h].error = handler[h].error
               /\ handler'[h].answer = handler[h].answer
               /\ \A g \in Handler : g # h => handler'[g] = handler[g]
    <3>1. working'.writes = [working.writes EXCEPT ![h] = @ + 1]
      BY <2>1 DEF Writes, Write, Data
    <3> QED
      BY <1>0, <2>1, <3>1 DEF Writes, Write, HandlerRecord
  <2>2. /\ working \in Data
        /\ [working EXCEPT !.version = @ + 1] \in Data
        /\ [working EXCEPT !.version = @ + 1].writes = working.writes
    <3>1. working \in Data /\ working.version + 1 \in Nat
      BY DEF TypeOK, Data
    <3>2. [working EXCEPT !.version = working.version + 1] \in Data
      BY <3>1 DEF Data
    <3> QED BY <3>1, <3>2 DEF Data
  <2>3. CASE update(h)
    <3>1. ASSUME NEW pc \in {"updateStatus", "save"},
                 Writes(h, [working EXCEPT !.version = @ + 1], pc)
          PROVE  WritesOne(h)
      BY <2>1, <2>2, <2>3, <3>1 DEF update, WritesOne
    <3>2. ASSUME NEW e \in {"optimistic", "locked"}, Throw(h, e, "rollback"), UNCHANGED sqlite
          PROVE  Throws(h)
      BY <1>0, <2>3, <3>2 DEF update, Throws, HandlerRecord
    <3> QED BY <2>3, <3>1, <3>2 DEF update, FailsLocked
  <2>4. CASE updateStatus(h)
    <3>1. CASE Writes(h, working, "save")
      BY <2>1, <2>2, <2>4, <3>1 DEF updateStatus, WritesOne
    <3>2. CASE FailsLocked(h, "rollback")
      BY <1>0, <2>4, <3>2 DEF updateStatus, FailsLocked, Throws, HandlerRecord
    <3> QED BY <2>4, <3>1, <3>2 DEF updateStatus
  <2>5. CASE insert(h)
    <3>1. ASSUME NEW pc \in {"save", "commit"}, Writes(h, working, pc)
          PROVE  WritesOne(h)
      BY <2>1, <2>2, <2>5, <3>1 DEF insert, WritesOne
    <3>2. CASE insertRefused(h) \/ FailsLocked(h, "rollback")
      BY <1>0, <2>5, <3>2
         DEF insert, insertRefused, FailsLocked, Proceeds, Throws, HandlerRecord
    <3> QED BY <2>5, <3>1, <3>2 DEF insert
  <2>6. CASE bare(h)
    <3>1. CASE Writes(h, working, "bareReturn")
      BY <2>1, <2>2, <2>6, <3>1 DEF bare, WritesOne
    <3>2. CASE FailsLocked(h, "bareReturn")
      BY <1>0, <2>6, <3>2 DEF bare, FailsLocked, Throws, HandlerRecord
    <3> QED BY <2>6, <3>1, <3>2 DEF bare
  <2> QED BY <1>4, <2>3, <2>4, <2>5, <2>6
<1>5. CASE save(h)
  BY <1>0, <1>5 DEF save, Proceeds, HandlerRecord
<1>6. CASE saveBegin(h)
  <2>1. open /\ flags.depth = 0 /\ ~(flags.depth > 0) /\ ~(flags.depth < 0)
    BY <1>6 DEF saveBegin
  <2>2. UNCHANGED connection /\ Throw(h, "within", "saveRollback")
    BY <1>6, <2>1 DEF saveBegin, BeginOK
  <2> QED BY <1>0, <1>6, <2>2 DEF saveBegin, Throws, HandlerRecord
<1>7. CASE insertOwn(h) \/ saveCommit(h)
  BY <1>7 DEF insertOwn, saveCommit
<1>8. CASE saveRollback(h)
  <2>1. Goto(h, "rollback") /\ At(h, "saveRollback")
    BY <1>8 DEF saveRollback
  <2>2. stored' = stored
    BY <1>8 DEF saveRollback, RollbackTo, RollbackOK
  <2> QED BY <1>0, <2>1, <2>2 DEF Ends, HandlerRecord
<1>9. CASE commit(h)
  BY <1>0, <1>9 DEF commit, CommitOK, End, Ends, Throws, HandlerRecord
<1>10. CASE rollback(h)
  BY <1>0, <1>10 DEF rollback, RollbackOK, End, Ends, HandlerRecord
<1>11. CASE finally(h)
  BY <1>0, <1>11 DEF finally, Return, Leaves, HandlerRecord
<1>12. CASE bareReturn(h)
  BY <1>0, <1>12 DEF bareReturn, Leaves, HandlerRecord
<1> QED
  BY <1>1, <1>2, <1>3, <1>4, <1>5, <1>6, <1>7, <1>8, <1>9, <1>10, <1>11, <1>12 DEF Resume

-------------------------------------------------------------------------------
(* With Room in every tick so far, at most two handlers are live, and the one that  *)
(* is inside owns the open transaction until it ends it itself.                   *)

\* A handler by itself: which steps are its own, when it has an error, and when it has
\* written nothing.
Roles ==
  \A h \in Handler :
    IF h \in Bare THEN In(h, {"new", "bare", "bareReturn", "answered"})
                  ELSE ~In(h, {"bare", "bareReturn"})

Errors ==
  \A h \in Handler :
    /\ In(h, {"rollback", "saveRollback"}) => handler[h].error \notin {"none", "unique"}
    /\ ~In(h, {"rollback", "saveRollback", "finally", "bareReturn", "answered"}) =>
         handler[h].error = "none"
    /\ In(h, {"new", "asleep", "begin", "flags", "bare"}) => handler[h].made = 0
    /\ ~In(h, {"answered"}) => handler[h].answer = 0

RoomForTwo ==
  \A x, y \in Handler :
    x # y /\ Live(x) /\ Live(y) =>
      OneTransaction(x) /\ \A z \in Handler : Live(z) => z \in {x, y}

Quiet(x) == \A y \in Handler : y # x => ~Live(y)

OneInside == \A x, y \in Handler : In(x, Inside) /\ In(y, Inside) => x = y

\* It is never left without a transaction, nor does manager.save write in its own.
Unharmed ==
  \A x \in Handler :
    ~In(x, {"insertOwn", "saveCommit"}) /\ (In(x, Inside \ {"rollback"}) => open)

\* Its flags may be reset, and it then fails, but only once the other is done.
HarmedQuiet ==
  \A x \in Handler :
    \/ In(x, {"saveBegin", "saveRollback"})
    \/ In(x, Midway) /\ ~flags.active
    \/ In(x, {"rollback"}) /\ ~open
    => Quiet(x)

FlagsKept ==
  \A x \in Handler :
    /\ In(x, Midway) /\ ~flags.active => flags = NoFlags
    /\ In(x, {"saveBegin"}) => flags.depth = 0

ReadIsCurrent == \A x \in Handler : In(x, {"update"}) => handler[x].seen = working.version

\* What is stored of a handler that is not answered: all it has written, or nothing.
Wrote(h) == In(h, {"bareReturn", "finally"}) /\ handler[h].error = "none"

StoredIfWrote ==
  \A h \in Handler : ~In(h, {"answered"}) =>
    stored.writes[h] = IF Wrote(h) THEN handler[h].made ELSE 0

\* What the one inside has written so far.
WorkInProgress ==
  \A h \in Handler :
    In(h, Midway \cup {"flags", "commit"}) =>
      working.writes = [stored.writes EXCEPT ![h] = handler[h].made]

RoomInv ==
  ~crowded =>
    /\ Roles /\ Errors
    /\ RoomForTwo /\ OneInside /\ Unharmed /\ HarmedQuiet /\ FlagsKept
    /\ ReadIsCurrent /\ StoredIfWrote /\ WorkInProgress

\* Whoever is resumed was live; others become so only when it has been answered.
LEMMA LiveResume ==
  ASSUME TypeOK, NEW h \in Handler, Resume(h)
  PROVE  /\ Live(h)
         /\ \A g \in Handler : g # h => handler'[g] = handler[g]
         /\ Live(h)' => handler'[h].pc \notin {"asleep", "answered"}
         /\ \A g \in Handler : g # h /\ Live(g)' /\ ~Live(g) =>
              g \in Later /\ Before[g] = h /\ handler'[h].pc = "answered"
<1> USE DEF Moves
<1>1. handler[h].pc \in Runnable /\ \A g \in Handler : g # h => handler'[g] = handler[g]
  BY ResumeMoves DEF MovesPast, MovesOpen, MovesFlags, MovesOwn, Runnable
<1>2. Live(h)' => handler'[h].pc \notin {"asleep", "answered"}
  BY DEF Live, Due, At, Runnable
<1>3. ASSUME NEW g \in Handler, g # h, Live(g)', ~Live(g)
      PROVE  g \in Later /\ Before[g] = h /\ handler'[h].pc = "answered"
  <2>1. handler'[g] = handler[g]
    BY <1>1, <1>3
  <2>2. Due(g)' /\ ~Due(g)
    BY <1>3, <2>1 DEF Live
  <2>3. g \in Later /\ Before[g] \in Handler
    BY <2>2, HandlerAssumption DEF Due
  <2>4. Before[g] = h
    BY <1>1, <2>1, <2>2, <2>3 DEF Due, At
  <2> QED
    BY <2>2, <2>3, <2>4 DEF Due, At
<1> QED
  BY <1>1, <1>2, <1>3 DEF Live

\* There are still two of them at most, and a quiet handler stays so.
LEMMA RoomResume ==
  ASSUME TypeOK, RoomForTwo, NEW h \in Handler, Resume(h)
  PROVE  /\ RoomForTwo'
         /\ \A x \in Handler : x # h => ~Quiet(x)
         /\ Quiet(h) /\ handler'[h].pc # "answered" => Quiet(h)'
         /\ \A x \in Handler :
              x # h /\ Live(x) /\ handler'[h].pc \in {"asleep", "answered"} => Quiet(x)'
<1>1. /\ Live(h)
      /\ Live(h)' => handler'[h].pc \notin {"asleep", "answered"}
      /\ \A g \in Handler : g # h /\ Live(g)' /\ ~Live(g) =>
           g \in Later /\ Before[g] = h /\ handler'[h].pc = "answered"
  BY LiveResume
<1>2. ASSUME NEW x \in Handler, x # h, Live(x), NEW z \in Handler, Live(z)'
      PROVE  z \in {x, h} /\ Live(z)
  <2>1. OneTransaction(h) /\ \A y \in Handler : Live(y) => y \in {x, h}
    BY <1>1, <1>2 DEF RoomForTwo
  <2>2. ~(z \in Later /\ Before[z] = h)
    BY <2>1 DEF OneTransaction
  <2>3. Live(z)
    BY <1>1, <1>2, <2>2
  <2> QED BY <2>1, <2>3
<1>3. ASSUME NEW x \in Handler, NEW y \in Handler, x # y, Live(x)', Live(y)'
      PROVE  OneTransaction(x) /\ \A z \in Handler : Live(z)' => z \in {x, y}
  <2>1. \A f, g \in Later : Before[f] = Before[g] => f = g
    BY HandlerAssumption
  <2>2. PICK w \in {x, y} : w # h /\ Live(w)
    BY <1>1, <1>3, <2>1
  <2>3. x \in {w, h} /\ y \in {w, h} /\ Live(x) /\ Live(y)
    BY <1>2, <1>3, <2>2
  <2>4. \A z \in Handler : Live(z)' => z \in {x, y}
    BY <1>2, <1>3, <2>2, <2>3
  <2> QED BY <1>3, <2>3, <2>4 DEF RoomForTwo
<1>4. RoomForTwo'
  BY <1>3 DEF RoomForTwo, OneTransaction
<1>5. Quiet(h) /\ handler'[h].pc # "answered" => Quiet(h)'
  BY <1>1 DEF Quiet
<1>6. ASSUME NEW x \in Handler, x # h, Live(x), handler'[h].pc \in {"asleep", "answered"}
      PROVE  Quiet(x)'
  BY <1>1, <1>2, <1>6 DEF Quiet
<1> QED
  BY <1>1, <1>4, <1>5, <1>6 DEF Quiet

\* manager.save joins the transaction that is open.
LEMMA RoomJoins ==
  ASSUME RoomInv, ~crowded, NEW h \in Handler
  PROVE  Joins(h)
BY DEF RoomInv, Unharmed, FlagsKept, Errors, Joins, In, Inside

\* A handler keeps to its role and its error.
LEMMA RoomSelf ==
  ASSUME TypeOK, RoomInv, ~crowded, NEW h \in Handler, Resume(h)
  PROVE  Roles' /\ Errors'
<1> USE DEF RoomInv, Roles, Errors, In, Moves, Keeps, Fails
<1>1. CASE Proceeds(h)
  BY <1>1 DEF Proceeds
<1>2. CASE Throws(h)
  BY <1>2 DEF Throws
<1>3. CASE WritesOne(h)
  BY <1>3 DEF WritesOne
<1>4. CASE Ends(h)
  BY <1>4 DEF Ends
<1>5. CASE Leaves(h)
  BY <1>5 DEF Leaves
<1> QED
  BY <1>1, <1>2, <1>3, <1>4, <1>5, ResumeData, RoomJoins

\* Two handlers in a tick: the one inside keeps its transaction to itself, ...
LEMMA RoomControl ==
  ASSUME TypeOK, RoomInv, ~crowded, NEW h \in Handler, Resume(h)
  PROVE  /\ RoomForTwo' /\ OneInside' /\ Unharmed' /\ HarmedQuiet' /\ FlagsKept'
<1> USE DEF RoomInv, OneInside, Unharmed, HarmedQuiet, FlagsKept, In, Inside, Midway, Moves
<1>0. /\ RoomForTwo'
      /\ \A x \in Handler : x # h => ~Quiet(x)
      /\ Quiet(h) /\ handler'[h].pc # "answered" => Quiet(h)'
      /\ \A x \in Handler :
           x # h /\ Live(x) /\ handler'[h].pc \in {"asleep", "answered"} => Quiet(x)'
  BY RoomResume
<1>1. CASE MovesPast(h)
  <2>1. OneInside'
    BY <1>1 DEF MovesPast
  <2>2. Unharmed'
    BY <1>1 DEF MovesPast
  <2>3. HarmedQuiet'
    BY <1>0, <1>1 DEF MovesPast
  <2>4. FlagsKept'
    BY <1>1 DEF MovesPast
  <2> QED BY <1>0, <2>1, <2>2, <2>3, <2>4
<1>2. CASE MovesOpen(h)
  <2>1. OneInside'
    BY <1>0, <1>2 DEF MovesOpen
  <2>2. Unharmed'
    BY <1>2 DEF MovesOpen
  <2>3. HarmedQuiet'
    BY <1>0, <1>2 DEF MovesOpen
  <2>4. FlagsKept'
    BY <1>2 DEF MovesOpen
  <2> QED BY <1>0, <2>1, <2>2, <2>3, <2>4
<1>3. CASE MovesFlags(h)
  <2>1. OneInside'
    BY <1>3 DEF MovesFlags
  <2>2. Unharmed'
    BY <1>3 DEF MovesFlags
  <2>3. HarmedQuiet'
    BY <1>0, <1>3 DEF MovesFlags, Begun, Live, Runnable
  <2>4. FlagsKept'
    BY <1>3 DEF MovesFlags, Begun, NoFlags
  <2> QED BY <1>0, <2>1, <2>2, <2>3, <2>4
<1>4. CASE MovesOwn(h)
  <2>1. /\ Moves(h, "saveBegin", "saveRollback") /\ UNCHANGED <<open, flags>>
        \/ Moves(h, "saveRollback", "rollback")
    BY <1>4, RoomJoins DEF MovesOwn, Joins
  <2>2. Quiet(h)'
    BY <1>0, <2>1
  <2> QED BY <1>0, <2>1, <2>2
<1> QED
  BY <1>1, <1>2, <1>3, <1>4, ResumeMoves

\* A bare statement finds the connection to itself.
LEMMA BareAlone ==
  ASSUME CleanInv, Roles, RoomForTwo, NEW h \in Handler, In(h, {"bare", "bareReturn"})
  PROVE  Quiet(h) /\ ~open /\ working = stored
<1>1. ~OneTransaction(h) /\ Live(h)
  BY DEF Roles, In, OneTransaction, Live, Runnable
<1>2. Quiet(h)
  BY <1>1 DEF RoomForTwo, Quiet
<1> QED
  BY <1>2 DEF CleanInv, Settled, Quiet, Live, In, Inside, Runnable

\* ... what it has read is still so, and what it has written is its own.
LEMMA RoomData ==
  ASSUME TypeOK, CleanInv, RoomInv, ~crowded, NEW h \in Handler, Resume(h)
  PROVE  ReadIsCurrent' /\ StoredIfWrote' /\ WorkInProgress'
<1> USE DEF RoomInv, OneInside, Unharmed, ReadIsCurrent, StoredIfWrote, WorkInProgress,
        Wrote, In, Inside, Midway, Moves
<1>0. /\ working.writes \in [Handler -> Nat] /\ stored.writes \in [Handler -> Nat]
      /\ handler[h].made \in Nat
  BY DEF TypeOK, Data, HandlerRecord
<1>1. CASE Proceeds(h)
  <2>1. ReadIsCurrent'
    BY <1>1 DEF Proceeds
  <2>2. StoredIfWrote'
    BY <1>1 DEF Proceeds, Keeps
  <2>3. WorkInProgress'
    <3>1. CASE In(h, {"begin"})
      <4>1. working = stored /\ stored.writes[h] = 0 /\ handler'[h].made = 0
        BY <1>1, <3>1 DEF Proceeds, Keeps, CleanInv, Settled, Errors
      <4>2. working.writes = [stored.writes EXCEPT ![h] = 0]
        BY <1>0, <4>1
      <4>3. \A g \in Handler : g # h => ~In(g, Inside \ {"rollback"})
        BY <1>1, <3>1 DEF Proceeds
      <4> QED
        BY <1>1, <4>1, <4>2, <4>3 DEF Proceeds
    <3>2. CASE ~In(h, {"begin"})
      BY <1>1, <3>2 DEF Proceeds, Keeps
    <3> QED BY <3>1, <3>2
  <2> QED BY <2>1, <2>2, <2>3
<1>2. CASE Throws(h)
  <2>1. ReadIsCurrent'
    BY <1>2 DEF Throws
  <2>2. StoredIfWrote'
    BY <1>2 DEF Throws, Fails
  <2>3. WorkInProgress'
    BY <1>2 DEF Throws
  <2> QED BY <2>1, <2>2, <2>3
<1>3. CASE WritesOne(h)
  <2>1. In(h, {"bare"}) => Quiet(h) /\ ~open /\ working = stored
    BY BareAlone
  <2>2. \A g \in Handler : g # h => ~In(g, Inside)' /\ ~In(g, Inside)
    BY <1>3, <2>1 DEF WritesOne, Quiet, Live, Runnable
  <2>3. ReadIsCurrent'
    BY <1>3, <2>2 DEF WritesOne
  <2>4. CASE In(h, {"bare"})
    <3>1. stored'.writes = [stored.writes EXCEPT ![h] = 1] /\ handler'[h].made = 1
      BY <1>0, <1>3, <2>1, <2>4 DEF WritesOne, Errors
    <3>2. handler'[h].pc = "bareReturn" /\ handler'[h].error = "none"
      BY <1>3, <2>4 DEF WritesOne, Errors
    <3>3. StoredIfWrote'
      BY <1>0, <1>3, <3>1, <3>2 DEF WritesOne
    <3>4. WorkInProgress'
      BY <2>2, <3>2
    <3> QED BY <2>3, <3>3, <3>4
  <2>5. CASE ~In(h, {"bare"})
    <3>1. stored' = stored /\ handler[h].pc \in Midway /\ stored.writes[h] = 0
      BY <1>3, <2>5 DEF WritesOne
    <3>2. StoredIfWrote'
      BY <1>3, <3>1 DEF WritesOne
    <3>3. working'.writes = [stored'.writes EXCEPT ![h] = handler'[h].made]
      <4>1. working.writes = [stored.writes EXCEPT ![h] = handler[h].made]
        BY <3>1
      <4> QED
        BY <1>0, <1>3, <3>1, <4>1 DEF WritesOne
    <3>4. WorkInProgress'
      BY <2>2, <3>3
    <3> QED BY <2>3, <3>2, <3>4
  <2> QED BY <2>4, <2>5
<1>4. CASE Ends(h)
  <2>1. \A g \in Handler : g # h => ~In(g, Inside)' /\ ~In(g, Inside)
    BY <1>4 DEF Ends
  <2>2. ReadIsCurrent' /\ WorkInProgress'
    BY <1>4, <2>1 DEF Ends
  <2>3. StoredIfWrote'
    <3>1. CASE In(h, {"commit"})
      <4>1. stored'.writes = [stored.writes EXCEPT ![h] = handler[h].made]
        BY <1>4, <3>1 DEF Ends
      <4>2. /\ handler'[h].pc = "finally" /\ handler'[h].error = "none"
            /\ handler'[h].made = handler[h].made
        BY <1>4, <3>1 DEF Ends, Keeps, Errors
      <4> QED
        BY <1>0, <1>4, <4>1, <4>2 DEF Ends
    <3>2. CASE In(h, {"saveRollback", "rollback"})
      <4>1. stored' = stored /\ ~Wrote(h) /\ ~Wrote(h)'
        BY <1>4, <3>2 DEF Ends, Keeps, Errors
      <4> QED
        BY <1>4, <3>2, <4>1 DEF Ends
    <3> QED BY <1>4, <3>1, <3>2 DEF Ends
  <2> QED BY <2>2, <2>3
<1>5. CASE Leaves(h)
  <2>1. ReadIsCurrent' /\ WorkInProgress'
    BY <1>5 DEF Leaves
  <2>2. StoredIfWrote'
    BY <1>5 DEF Leaves, isRetryableError
  <2> QED BY <2>1, <2>2
<1> QED
  BY <1>1, <1>2, <1>3, <1>4, <1>5, ResumeData, RoomJoins

\* Two of a set are more than one, and three more than two.
LEMMA ThreeAreMany ==
  ASSUME NEW S, IsFiniteSet(S), NEW x \in S, NEW y \in S, x # y
  PROVE  /\ ~(Cardinality(S) <= 1)
         /\ Cardinality(S) <= 2 => \A z \in S : z \in {x, y}
<1>1. IsFiniteSet({x}) /\ Cardinality({x}) = 1
  BY FS_Singleton
<1>2. IsFiniteSet({x} \cup {y}) /\ Cardinality({x} \cup {y}) = 2
  <2> DEFINE U == {x}
  <2>1. IsFiniteSet(U) /\ Cardinality(U) = 1 /\ y \notin U
    BY <1>1
  <2> HIDE DEF U
  <2>2. IsFiniteSet(U \cup {y}) /\ Cardinality(U \cup {y}) = Cardinality(U) + 1
    BY <2>1, FS_AddElement
  <2>3. IsFiniteSet(U \cup {y}) /\ Cardinality(U \cup {y}) = 2
    BY <2>1, <2>2
  <2> QED BY <2>3 DEF U
<1>3. PICK T : T = {x} \cup {y} /\ IsFiniteSet(T) /\ Cardinality(T) = 2
  BY <1>2
<1>4. T \in SUBSET S
  BY <1>3
<1>5. Cardinality(T) <= Cardinality(S) /\ Cardinality(S) \in Nat
  BY <1>4, FS_Subset, FS_CardinalityType
<1>6. ASSUME NEW z \in S, z \notin {x, y}
      PROVE  3 <= Cardinality(S)
  <2>1. z \notin T
    BY <1>3, <1>6
  <2>2. Cardinality(T \cup {z}) = 3
    BY <1>3, <2>1, FS_AddElement
  <2>3. T \cup {z} \in SUBSET S
    BY <1>3
  <2>4. Cardinality(T \cup {z}) <= Cardinality(S)
    BY <2>3, FS_Subset
  <2> QED BY <2>2, <2>4
<1> QED
  BY <1>3, <1>5, <1>6

\* The handlers that arrive in a tick are the only ones live.
LEMMA Arrivals ==
  ASSUME TypeOK, NEW H \in Together, arrive(H)
  PROVE  /\ H \subseteq Handler /\ IsFiniteSet(H)
         /\ UNCHANGED <<connection, other>>
         /\ \A h \in Handler :
              /\ handler'[h].pc = IF h \notin H THEN handler[h].pc
                                  ELSE IF h \in Bare THEN "bare" ELSE "begin"
              /\ handler'[h].error = handler[h].error
              /\ handler'[h].made = handler[h].made
              /\ handler'[h].answer = handler[h].answer
              /\ h \in H => handler[h].pc = "new"
              /\ Live(h)' => h \in H
<1>1. H \subseteq Handler \ Later /\ IsFiniteSet(H)
  BY HandlerAssumption, FS_Subset
<1>2. \A h \in Handler : handler[h] \in HandlerRecord
  BY DEF TypeOK
<1>3. \A h \in Handler :
        /\ handler'[h].pc = IF h \notin H THEN handler[h].pc
                            ELSE IF h \in Bare THEN "bare" ELSE "begin"
        /\ handler'[h].error = handler[h].error
        /\ handler'[h].made = handler[h].made
        /\ handler'[h].answer = handler[h].answer
        /\ h \in H => handler[h].pc = "new"
        /\ h \notin H => handler'[h] = handler[h]
  BY <1>1, <1>2 DEF arrive, HandlerRecord, At
<1>4. ASSUME NEW h \in Handler, h \notin H
      PROVE  ~Live(h)'
  <2>1. ~Live(h) /\ handler'[h] = handler[h]
    BY <1>3, <1>4 DEF arrive, TickOver
  <2>2. ASSUME Due(h)'
        PROVE  FALSE
    <3>1. Before[h] \in Handler /\ h \in Later
      BY <2>2, HandlerAssumption DEF Due
    <3>2. Before[h] \notin H
      BY <1>3, <2>2, <3>1 DEF Due, At
    <3> QED
      BY <1>3, <2>1, <2>2, <3>1, <3>2 DEF Due, At, Live
  <2> QED BY <2>1, <2>2 DEF Live
<1> QED
  BY <1>1, <1>3, <1>4 DEF arrive

\* A backoff ends in a tick of its own.
LEMMA Wakes ==
  ASSUME TypeOK, NEW h \in Handler, wake(h)
  PROVE  /\ Moves(h, "asleep", "begin")
         /\ TickOver /\ UNCHANGED <<connection, other, crowded>>
         /\ handler'[h].error = handler[h].error
         /\ handler'[h].made = handler[h].made
         /\ handler'[h].answer = handler[h].answer
         /\ \A g \in Handler : Live(g)' => g = h
<1>1. handler[h] \in HandlerRecord /\ DOMAIN handler = Handler
  BY DEF TypeOK
<1>2. Moves(h, "asleep", "begin")
  BY <1>1 DEF wake, Moves, At, Goto, HandlerRecord, TypeOK
<1>3. ASSUME NEW g \in Handler, g # h
      PROVE  ~Live(g)'
  <2>1. ~Live(g) /\ handler'[g] = handler[g]
    BY <1>2, <1>3 DEF wake, TickOver, Moves
  <2>2. g \in Later => Before[g] \in Handler
    BY HandlerAssumption
  <2> QED
    BY <1>2, <2>1, <2>2 DEF Live, Due, At, Moves
<1> QED
  BY <1>1, <1>2, <1>3 DEF wake, At, Goto, HandlerRecord, TypeOK

\* Handlers at their BEGIN have room and harm nobody.
LEMMA AtTheirBegin ==
  ASSUME \A g \in Handler : Live(g)' => handler'[g].pc \in {"begin", "bare"}
  PROVE  /\ OneInside' /\ Unharmed' /\ HarmedQuiet' /\ FlagsKept'
         /\ ReadIsCurrent' /\ WorkInProgress'
<1>1. \A g \in Handler : ~In(g, Inside)'
  BY DEF Live, In, Inside, Runnable
<1> QED
  BY <1>1 DEF OneInside, Unharmed, HarmedQuiet, FlagsKept, ReadIsCurrent, WorkInProgress,
       In, Inside, Midway

\* With Room, ticks start so, and another instance writes between transactions only.
LEMMA RoomStep ==
  ASSUME TypeOK, CleanInv, RoomInv, [Next]_vars
  PROVE  RoomInv'
<1> SUFFICES ASSUME ~crowded' PROVE RoomInv'
  BY DEF RoomInv
<1>1. ASSUME NEW h \in Handler, Resume(h)
      PROVE  RoomInv'
  <2>1. ~crowded
    BY <1>1, ResumeMoves
  <2> QED
    BY <1>1, <2>1, RoomSelf, RoomControl, RoomData DEF RoomInv
<1>2. ASSUME NEW h \in Handler, wake(h)
      PROVE  RoomInv'
  <2>1. ~crowded /\ TickOver /\ Moves(h, "asleep", "begin") /\ UNCHANGED connection
        /\ \A g \in Handler : Live(g)' => g = h
    BY <1>2, Wakes
  <2>2. Roles' /\ Errors'
    BY <1>2, <2>1, Wakes DEF RoomInv, Roles, Errors, In, Moves
  <2>3. RoomForTwo'
    BY <2>1 DEF RoomForTwo
  <2>4. \A g \in Handler : Live(g)' => handler'[g].pc \in {"begin", "bare"}
    BY <2>1 DEF Moves
  <2>5. StoredIfWrote'
    BY <1>2, <2>1, Wakes DEF RoomInv, StoredIfWrote, Wrote, Moves, In, connection, sqlite
  <2> QED BY <2>2, <2>3, <2>4, <2>5, AtTheirBegin DEF RoomInv
<1>3. ASSUME NEW f \in Later, nextEntry(f)
      PROVE  RoomInv'
  <2>1. /\ f \in Handler /\ f \notin Bare /\ Live(f) /\ Moves(f, "new", "begin")
        /\ UNCHANGED <<connection, other, crowded>>
        /\ handler'[f].error = handler[f].error /\ handler'[f].made = handler[f].made
        /\ handler'[f].answer = handler[f].answer
    BY <1>3, EntersNext, HandlerAssumption DEF Live
  <2>2. \A g \in Handler : Live(g)' <=> Live(g)
    <3>1. ASSUME NEW g \in Handler, g # f
          PROVE  Live(g)' <=> Live(g)
      <4>1. g \in Later => Before[g] \in Handler
        BY HandlerAssumption
      <4> QED
        BY <2>1, <3>1, <4>1 DEF Live, Due, At, Moves
    <3>2. Live(f)'
      BY <2>1 DEF Live, Moves, Runnable
    <3> QED BY <2>1, <3>1, <3>2
  <2>3. ~crowded /\ UNCHANGED <<open, flags, stored, working>>
    BY <2>1 DEF connection, sqlite
  <2>4. Roles' /\ Errors'
    BY <2>1, <2>3 DEF RoomInv, Roles, Errors, In, Moves
  <2>5. RoomForTwo'
    BY <2>2, <2>3 DEF RoomInv, RoomForTwo, OneTransaction
  <2>6. \A x \in Handler : Quiet(x)' <=> Quiet(x)
    BY <2>2 DEF Quiet
  <2>7. OneInside' /\ Unharmed' /\ HarmedQuiet' /\ FlagsKept'
    BY <2>1, <2>3, <2>6
       DEF RoomInv, OneInside, Unharmed, HarmedQuiet, FlagsKept, In, Inside, Midway, Moves
  <2>8. ReadIsCurrent' /\ StoredIfWrote' /\ WorkInProgress'
    BY <2>1, <2>3
       DEF RoomInv, ReadIsCurrent, StoredIfWrote, Wrote, WorkInProgress, In, Midway, Moves
  <2> QED BY <2>4, <2>5, <2>7, <2>8 DEF RoomInv
<1>4. ASSUME NEW H \in Together, arrive(H)
      PROVE  RoomInv'
  <2>1. ~crowded /\ Room(H)
    BY <1>4 DEF arrive
  <2>2. \A g \in Handler : Live(g)' => g \in H /\ handler'[g].pc \in {"begin", "bare"}
    BY <1>4, Arrivals
  <2>3. RoomForTwo'
    <3> SUFFICES ASSUME NEW x \in H, NEW y \in H, x # y
                 PROVE  OneTransaction(x) /\ \A z \in H : z \in {x, y}
      BY <2>2 DEF RoomForTwo, OneTransaction
    <3>1. IsFiniteSet(H)
      BY <1>4, Arrivals
    <3>2. Cardinality(H) \in Nat /\ ~(Cardinality(H) <= 1)
      BY <3>1, ThreeAreMany, FS_CardinalityType
    <3>3. (\A h \in H : OneTransaction(h)) /\ Cardinality(H) <= 2
      BY <2>1, <3>2 DEF Room
    <3> QED
      BY <3>1, <3>3, ThreeAreMany
  <2>4. Roles' /\ Errors'
    BY <1>4, <2>1, Arrivals DEF RoomInv, Roles, Errors, In
  <2>5. StoredIfWrote'
    BY <1>4, <2>1, Arrivals DEF RoomInv, StoredIfWrote, Wrote, In, connection, sqlite
  <2> QED BY <2>2, <2>3, <2>4, <2>5, AtTheirBegin DEF RoomInv
<1>5. CASE otherCommits
  <2>1. ~crowded /\ ~open /\ working = stored /\ UNCHANGED <<open, flags, handler>>
    BY <1>5 DEF otherCommits, CleanInv, Settled, Write
  <2>2. /\ Roles' /\ Errors'
        /\ RoomForTwo' /\ OneInside' /\ Unharmed' /\ HarmedQuiet' /\ FlagsKept'
    BY <2>1 DEF RoomInv, Roles, Errors, RoomForTwo, OneTransaction, OneInside, Unharmed,
         HarmedQuiet, FlagsKept, Quiet, Live, Due, At, In
  <2>3. \A g \in Handler : ~In(g, Inside \ {"rollback"})'
    BY <2>1, <2>2 DEF Unharmed
  <2>4. ReadIsCurrent' /\ WorkInProgress'
    BY <2>3 DEF ReadIsCurrent, WorkInProgress, In, Inside, Midway
  <2>5. stored'.writes = stored.writes
    BY <1>5, <2>1 DEF otherCommits, Write, TypeOK, Data
  <2>6. StoredIfWrote'
    BY <2>1, <2>5 DEF RoomInv, StoredIfWrote, Wrote, In
  <2> QED BY <2>2, <2>4, <2>6 DEF RoomInv
<1>6. CASE UNCHANGED vars
  BY <1>6 DEF RoomInv, Roles, Errors, RoomForTwo, OneTransaction, OneInside, Unharmed,
       HarmedQuiet, FlagsKept, Quiet, Live, Due, At, In, ReadIsCurrent, StoredIfWrote,
       Wrote, WorkInProgress, vars, connection, sqlite
<1> QED
  BY <1>1, <1>2, <1>3, <1>4, <1>5, <1>6 DEF Next, Local

\* Nothing has happened at the start.
LEMMA InitRoom == Init => CleanInv /\ RoomInv
<1> SUFFICES ASSUME Init PROVE CleanInv /\ RoomInv
  OBVIOUS
<1>1. \A h \in Handler :
        /\ handler[h].pc = "new" /\ handler[h].error = "none"
        /\ handler[h].answer = 0 /\ handler[h].made = 0
  BY DEF Init
<1>2. CleanInv
  BY DEF Init, CleanInv, Settled, NoFlags
<1>3. \A h \in Handler : ~Live(h)
  <2>1. \A f \in Later : Before[f] \in Handler
    BY HandlerAssumption
  <2> QED
    BY <1>1, <2>1 DEF Live, Due, At, Runnable
<1>4. Roles /\ Errors /\ RoomForTwo /\ OneInside /\ Unharmed /\ HarmedQuiet /\ FlagsKept
  BY <1>1, <1>3 DEF Roles, Errors, RoomForTwo, OneInside, Unharmed, HarmedQuiet, FlagsKept,
       In, Inside, Midway
<1>5. ReadIsCurrent /\ StoredIfWrote /\ WorkInProgress
  BY <1>1 DEF Init, ReadIsCurrent, StoredIfWrote, Wrote, WorkInProgress, In, Midway
<1> QED
  BY <1>2, <1>4, <1>5 DEF RoomInv

(* Until a tick has had more runnable handlers than Room allows, manager.save finds  *)
(* the transaction of its handler open, at depth 0 if the flags are reset: TypeORM   *)
(* joins it, or fails to BEGIN, and never writes in a transaction of its own.       *)
THEOREM SavesJoinTheirTransaction == Spec => []SavesJoin
<1>1. RoomInv => SavesJoin
  BY DEF RoomInv, Unharmed, FlagsKept, SavesJoin, In, At, Inside
<1> QED
  BY <1>1, InitRoom, CleanStep, RoomStep, ConnectionTyped, PTL DEF Spec

(* The update of leave_balances that checks the version finds the one its handler   *)
(* has read, until a tick has had more runnable handlers than Room allows.         *)
THEOREM VersionsStayAsRead == Spec => []VersionAsRead
<1>1. RoomInv => VersionAsRead
  BY DEF RoomInv, ReadIsCurrent, VersionAsRead, In, At
<1> QED
  BY <1>1, InitRoom, CleanStep, RoomStep, ConnectionTyped, PTL DEF Spec

-------------------------------------------------------------------------------
(* The refinement: the writes of fn are Work, COMMIT and the bare statement are     *)
(* Store, the answer is Reply, an attempt begins anew with Work, and nothing else   *)
(* shows.                                                                         *)

\* One handler's step changes its own answer and its own count at most.
LEMMA ViewsAsFunctions ==
  ASSUME NEW h \in Handler, \A g \in Handler : g # h => handler'[g] = handler[g]
  PROVE  /\ Answers' = [Answers EXCEPT ![h] = handler'[h].answer]
         /\ Made' = [Made EXCEPT ![h] = handler'[h].made]
         /\ handler'[h].answer = handler[h].answer => Answers' = Answers
         /\ handler'[h].made = handler[h].made => Made' = Made
         /\ Answers[h] = handler[h].answer /\ Made[h] = handler[h].made
         /\ Made'[h] = handler'[h].made
BY DEF Answers, Made

\* A statement works, stores, replies or does not show.
LEMMA ResumeAtomic ==
  ASSUME TypeOK, CleanInv, RoomInv, ~crowded, NEW h \in Handler, Resume(h)
  PROVE  \/ Atomic!Work(h) \/ Atomic!Store(h) \/ Atomic!Reply(h)
         \/ UNCHANGED <<Made, stored.writes, Answers>>
<1> USE DEF In, Moves
<1>0. /\ working.writes \in [Handler -> Nat] /\ stored.writes \in [Handler -> Nat]
      /\ handler[h].made \in Nat
      /\ ~In(h, {"answered"}) => handler[h].answer = 0
  BY DEF TypeOK, Data, HandlerRecord, RoomInv, Errors
<1>1. CASE Proceeds(h) \/ Throws(h)
  BY <1>1, ViewsAsFunctions DEF Proceeds, Throws, Keeps, Fails
<1>2. CASE WritesOne(h)
  <2>1. /\ Answers' = Answers /\ Answers[h] = 0
        /\ Made' = [Made EXCEPT ![h] = handler[h].made + 1] /\ Made[h] = handler[h].made
    BY <1>0, <1>2, ViewsAsFunctions DEF WritesOne
  <2>2. stored.writes[h] = 0
    BY <1>2 DEF WritesOne, RoomInv, StoredIfWrote, Wrote
  <2>3. CASE In(h, {"bare"})
    <3>1. ~open /\ working = stored /\ handler[h].made = 0
      BY <2>3, BareAlone DEF RoomInv, Errors
    <3>2. stored'.writes = [stored.writes EXCEPT ![h] = 1]
      BY <1>0, <1>2, <2>2, <3>1 DEF WritesOne
    <3>3. 1 \in {Made[h], Made[h] + 1} \ {0} /\ Made' = [Made EXCEPT ![h] = 1]
      BY <2>1, <3>1
    <3> QED
      BY <2>1, <2>2, <3>2, <3>3 DEF Atomic!Store
  <2>4. CASE ~In(h, {"bare"})
    <3>1. stored' = stored
      BY <1>2, <2>4 DEF WritesOne, RoomInv, Unharmed, Inside
    <3> QED
      BY <2>1, <2>2, <3>1 DEF Atomic!Work
  <2> QED BY <2>3, <2>4
<1>3. CASE Ends(h)
  <2>1. Answers' = Answers /\ Made' = Made /\ Made[h] = handler[h].made
    BY <1>3, ViewsAsFunctions DEF Ends, Keeps
  <2>2. CASE In(h, {"commit"})
    <3>1. Answers[h] = 0 /\ stored.writes[h] = 0
      BY <1>0, <2>2, ViewsAsFunctions DEF RoomInv, StoredIfWrote, Wrote, Answers
    <3>2. stored'.writes = [stored.writes EXCEPT ![h] = handler[h].made]
      BY <1>3, <2>2 DEF Ends, RoomInv, WorkInProgress
    <3>3. CASE handler[h].made = 0
      <4>1. stored'.writes = stored.writes
        BY <1>0, <3>1, <3>2, <3>3
      <4> QED BY <2>1, <4>1
    <3>4. CASE handler[h].made # 0
      <4>1. /\ handler[h].made \in {Made[h], Made[h] + 1} \ {0}
            /\ Made' = [Made EXCEPT ![h] = handler[h].made]
        BY <2>1, <3>4 DEF Made
      <4> QED
        BY <2>1, <3>1, <3>2, <4>1 DEF Atomic!Store
    <3> QED BY <3>3, <3>4
  <2>3. CASE ~In(h, {"commit"})
    <3>1. stored' = stored
      BY <1>3, <2>3 DEF Ends
    <3> QED BY <2>1, <3>1
  <2> QED BY <2>2, <2>3
<1>4. CASE Leaves(h)
  <2>1. stored' = stored /\ Answers[h] = 0 /\ Made[h] = handler[h].made
        /\ stored.writes[h] = IF Wrote(h) THEN handler[h].made ELSE 0
    BY <1>0, <1>4, ViewsAsFunctions DEF Leaves, RoomInv, StoredIfWrote, Answers, Made
  <2>2. CASE Moves(h, "finally", "asleep")
    <3>1. Answers' = Answers /\ Made' = [Made EXCEPT ![h] = 0]
      BY <1>4, <2>2, ViewsAsFunctions DEF Leaves
    <3>2. stored.writes[h] = 0
      BY <1>4, <2>1, <2>2 DEF Leaves, Wrote, isRetryableError
    <3> QED
      BY <2>1, <3>1, <3>2 DEF Atomic!Work
  <2>3. CASE ~Moves(h, "finally", "asleep")
    <3>1. /\ Answers' = [Answers EXCEPT ![h] = handler'[h].answer] /\ Made' = Made
          /\ handler'[h].answer = StatusCode(handler[h].error)
          /\ In(h, {"bareReturn", "finally"})
      BY <1>4, <2>3, ViewsAsFunctions DEF Leaves
    <3> DEFINE Code == {200, 409, 500}
    <3>3. PICK code : code = handler'[h].answer
      OBVIOUS
    <3>4. code \in Code /\ (code = 200 <=> handler[h].error = "none")
      BY <3>1, <3>3 DEF StatusCode
    <3>5. stored.writes[h] = IF code = 200 THEN Made[h] ELSE 0
      BY <2>1, <3>1, <3>4 DEF Wrote
    <3>6. Answers' = [Answers EXCEPT ![h] = code]
      BY <3>1, <3>3
    <3>7. \E c \in Code :
            /\ stored.writes[h] = IF c = 200 THEN Made[h] ELSE 0
            /\ Answers' = [Answers EXCEPT ![h] = c]
      <4> HIDE DEF Code
      <4> QED BY <3>4, <3>5, <3>6
    <3> QED
      BY <2>1, <3>1, <3>7, Zenon DEF Atomic!Reply
  <2> QED BY <2>2, <2>3
<1> QED
  BY <1>1, <1>2, <1>3, <1>4, ResumeData, RoomJoins

\* No other step shows.
LEMMA StepAtomic ==
  ASSUME TypeOK, CleanInv, RoomInv, [Next]_vars
  PROVE  [Atomic!Next \/ crowded]_<<Made, stored.writes, Answers>>
<1>1. ASSUME NEW h \in Handler, Resume(h)
      PROVE  [Atomic!Next \/ crowded]_<<Made, stored.writes, Answers>>
  BY <1>1, ResumeAtomic DEF Atomic!Next
<1>2. ASSUME NEW h \in Handler, wake(h)
      PROVE  UNCHANGED <<Made, stored.writes, Answers>>
  BY <1>2, Wakes, ViewsAsFunctions DEF Moves, connection, sqlite
<1>3. ASSUME NEW f \in Later, nextEntry(f)
      PROVE  UNCHANGED <<Made, stored.writes, Answers>>
  BY <1>3, EntersNext, ViewsAsFunctions DEF Moves, connection, sqlite
<1>4. ASSUME NEW H \in Together, arrive(H)
      PROVE  UNCHANGED <<Made, stored.writes, Answers>>
  BY <1>4, Arrivals DEF Answers, Made, connection, sqlite
<1>5. CASE otherCommits
  <2>1. ~open /\ working = stored /\ handler' = handler
    BY <1>5 DEF otherCommits, CleanInv, Settled
  <2>2. stored'.writes = stored.writes
    BY <1>5, <2>1 DEF otherCommits, Write, TypeOK, Data
  <2> QED BY <2>1, <2>2 DEF Answers, Made
<1>6. CASE UNCHANGED vars
  BY <1>6 DEF vars, connection, sqlite, Answers, Made
<1> QED
  BY <1>1, <1>2, <1>3, <1>4, <1>5, <1>6 DEF Next, Local

(* While every tick had Room for its handlers, the interleaved statements of their  *)
(* transactions implement AtomicUpdates: all that fn has written in its last        *)
(* attempt is stored together and once, before an answer of 200, and nothing is     *)
(* before one of 409 or 500.                                                      *)
THEOREM TransactionsAreAtomic == Spec => AtomicUnlessCrowded
<1>1. Init => Atomic!Init
  BY DEF Init, Atomic!Init, Answers, Made
<1> QED
  BY <1>1, InitRoom, CleanStep, RoomStep, StepAtomic, ConnectionTyped, PTL
     DEF Spec, AtomicUnlessCrowded

(* When no tick can be crowded, because requests come two at a time, or singly where *)
(* one is a bare statement or a batch of several entries, the connection is         *)
(* AtomicUpdates and nothing else: its transactions may be taken for one step each, *)
(* as the other modules do.                                                       *)
THEOREM RoomyTicksAreAtomic ==
  ASSUME \A H \in Together : Room(H)
  PROVE  Spec => Atomic!Spec
<1>1. Init => ~crowded /\ Atomic!Init
  BY DEF Init, Atomic!Init, Answers, Made
<1>2. ASSUME TypeOK, ~crowded, [Next]_vars
      PROVE  ~crowded'
  <2>1. ASSUME NEW h \in Handler, Resume(h) \/ wake(h)
        PROVE  ~crowded'
    BY <1>2, <2>1, ResumeMoves, Wakes
  <2>2. ASSUME NEW H \in Together, arrive(H)
        PROVE  ~crowded'
    BY <1>2, <2>2 DEF arrive
  <2>3. ASSUME NEW f \in Later, nextEntry(f)
        PROVE  ~crowded'
    BY <1>2, <2>3 DEF nextEntry
  <2>4. CASE otherCommits \/ UNCHANGED vars
    BY <1>2, <2>4 DEF otherCommits, vars
  <2> QED
    BY <1>2, <2>1, <2>2, <2>3, <2>4 DEF Next, Local
<1>3. ASSUME TypeOK, CleanInv, RoomInv, ~crowded, [Next]_vars
      PROVE  [Atomic!Next]_<<Made, stored.writes, Answers>>
  BY <1>3, StepAtomic
<1> QED
  BY <1>1, <1>2, <1>3, InitRoom, CleanStep, RoomStep, ConnectionTyped, PTL
     DEF Spec, Atomic!Spec

-------------------------------------------------------------------------------
(* What the refinement means to a client.                                        *)

\* Answered 409 or 500: nothing is stored.  Answered 200: all that fn has written is.
AnswersTell ==
  \A h \in Handler :
    /\ handler[h].answer \in {409, 500} => stored.writes[h] = 0
    /\ handler[h].answer = 200 => stored.writes[h] = handler[h].made

\* The same of the refined variables, with what they are.
AnswersHold ==
  \A h \in Handler :
    /\ Answers[h] \in {0, 200, 409, 500}
    /\ Answers[h] \in {409, 500} => stored.writes[h] = 0
    /\ Answers[h] = 200 => stored.writes[h] = Made[h]

\* Nothing changes for a handler that is answered, and Reply looks at what is stored.
LEMMA AtomicKeepsPromise ==
  ASSUME TypeOK, AnswersHold, Atomic!Next
  PROVE  AnswersHold'
<1>0. /\ stored.writes \in [Handler -> Nat]
      /\ Answers = [g \in Handler |-> Answers[g]] /\ Made = [g \in Handler |-> Made[g]]
  BY DEF TypeOK, Data, Answers, Made
<1> USE DEF AnswersHold
<1>1. ASSUME NEW h \in Handler, Atomic!Work(h)
      PROVE  AnswersHold'
  <2>1. PICK n : Made' = [Made EXCEPT ![h] = n]
    BY <1>1 DEF Atomic!Work
  <2>2. Answers' = Answers /\ stored'.writes = stored.writes /\ Answers[h] = 0
    BY <1>1 DEF Atomic!Work
  <2> QED
    BY <1>0, <2>1, <2>2
<1>2. ASSUME NEW h \in Handler, Atomic!Store(h)
      PROVE  AnswersHold'
  <2>1. PICK n : /\ Made' = [Made EXCEPT ![h] = n]
                 /\ stored'.writes = [stored.writes EXCEPT ![h] = n]
    BY <1>2 DEF Atomic!Store
  <2>2. Answers' = Answers /\ Answers[h] = 0
    BY <1>2 DEF Atomic!Store
  <2> QED
    BY <1>0, <2>1, <2>2
<1>3. ASSUME NEW h \in Handler, Atomic!Reply(h)
      PROVE  AnswersHold'
  <2>1. PICK code \in {200, 409, 500} :
          /\ stored.writes[h] = IF code = 200 THEN Made[h] ELSE 0
          /\ Answers' = [Answers EXCEPT ![h] = code]
    BY <1>3 DEF Atomic!Reply
  <2>2. Made' = Made /\ stored'.writes = stored.writes
    BY <1>3 DEF Atomic!Reply
  <2> QED
    BY <1>0, <2>1, <2>2
<1> QED
  BY <1>1, <1>2, <1>3 DEF Atomic!Next

(* When no tick can be crowded, a client that is answered 200 finds all that its     *)
(* transaction has written stored, which is nothing where approveRequest returned   *)
(* early and a row without its audit entry where createRequest met a stored key;    *)
(* one that is answered 409 or 500 finds nothing, so a repetition starts from the   *)
(* data as they were.                                                             *)
THEOREM ClientsMayTrustAnswers ==
  ASSUME \A H \in Together : Room(H)
  PROVE  Spec => []AnswersTell
<1>1. Atomic!Init => AnswersHold
  BY DEF Atomic!Init, AnswersHold
<1>2. ASSUME AnswersHold, UNCHANGED <<Made, stored.writes, Answers>>
      PROVE  AnswersHold'
  BY <1>2 DEF AnswersHold
<1>3. AnswersHold => AnswersTell
  BY DEF AnswersHold, AnswersTell, Answers, Made
<1> QED
  BY <1>1, <1>2, <1>3, AtomicKeepsPromise, RoomyTicksAreAtomic, ConnectionTyped, PTL
     DEF Atomic!Spec
================================================================================
