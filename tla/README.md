# ExampleHR time-off service: TLA+ models, checks and proofs

ExampleHR (`src/`) is a NestJS microservice in which employees ask for time off.
The days belong to another system, the HCM, which is the system of record;
ExampleHR keeps a *shadow* of each balance and the days *reserved* by requests
that are still open. This directory holds TLA+ models of the service and of the
HCM it talks to, the TLC configurations that check them and the proofs that
TLAPS checks.

## 1. Inventory

| Component | State | Operations | In the models |
|---|---|---|---|
| Time-off requests (`modules/time-off`) | `time_off_requests`: status, UNIQUE `idempotency_key` | create, approve, reject, cancel (two branches), complete | `TimeOff` |
| Balances (`modules/balance`) | `leave_balances` (`hcm_balance`, `pending_days`, `version`), `balance_audit_log` | the row updates of `BalanceRepository`; refresh | `LeaveBalance`, `BalanceSync` |
| HCM client (`modules/hcm-sync/hcm-client.service.ts`) | none | getBalance, deduct, credit, each retried by axios-retry | `HcmClient`, `LateBookings` |
| HCM sync (`modules/hcm-sync/hcm-sync.service.ts`) | the discrepancies of the push being processed | single push, batch push | `BalanceSync!SyncEntry`, `HcmSync` |
| Transactions and lock retry (`database/transaction.helper.ts`, `common/concurrency`) | one connection, two flags of its query runner | `BEGIN IMMEDIATE .. COMMIT` around `fn`, whose `manager.save` may nest, retry on lock or version conflict | `SharedConnection` statement by statement; one step elsewhere (`Service!Commit`) |
| Schema (`database/migrations`) | UNIQUE and foreign keys, indexes | | `Service`, `TimeOff!Taken`, `BalanceSync!Storable` |
| Mock HCM (`mock-hcm/`) | a balance per key, kept non-negative by `deduct` | deduct, credit, setBalance, anniversary, reset, push | `MockHcm`, the pushes in `HcmSync` |
| Error responses (`common/filters`, `hcm.errors.ts`) | none | exception to status code | partly: `SharedConnection!StatusCode` |
| Guards, interceptors, bootstrap, configuration | none | authentication, wrapping, logging, wiring | not modelled |

**Interactions.** A handler of `TimeOffService` runs in up to three pieces:

1. it reads the request, outside any transaction, and decides whether the call
   is legal;
2. it may call the HCM over HTTP (create: getBalance; approve: deduct; cancel of
   an approved request: credit);
3. it changes the request, the balance row and the audit log in one
   `BEGIN IMMEDIATE` transaction.

Nothing is locked between the pieces. The HCM pushes balances to `/hcm/sync`,
which overwrite `hcm_balance`; employees may ask for a refresh, which reads the
HCM and overwrites it too.

**What is hard.** The windows between the pieces. Any other call may run in
them: in one process while a handler awaits the HCM or sleeps in the lock-retry
backoff (25 ms and more), and at any point when several instances serve one
database (TRD.md:494). A POST to the HCM that is repeated after a broken
connection books twice, for bookings carry no key. An instance may die, or run
out of transaction attempts, between the booking and its record. Pushes may be
late, repeated or overtaken, and nothing compares their `syncedAt`; a batch is a
snapshot that is stored entry by entry while the balances it carries change. And
all handlers of an instance share one SQLite connection and one query runner:
what one handler does to the open transaction and to the flags, it does to all.

**What makes the components correct.** Requests: statuses follow the diagram,
the HCM is told of every approval and credited only for what it deducted.
Balances: `pending_days` is the sum of the PENDING requests, the audit log
replays, days are not promised twice. HCM client: attempts end. Together: the
HCM has booked exactly what is approved, and what it has booked gets recorded.
`PROJECT.json` lists the hazards one by one, at their lines.

## 2. Modules

```
LeaveBalance          rows, updates, the sum of the PENDING days
  MockHcm             the HCM: balance, deduct, credit, its own changes
    Service           tables, calls being served, crash, exhausted retries
      HcmClient       attempts, retries, lost replies, outage
        TimeOff       create, approve, reject, cancel, complete
        BalanceSync   refresh, push
          ExampleHR   composition, disciplines, properties, refinement, liveness
            MCExampleHR      values for TLC
            ExampleHRProofs  theorems of Spec
              SerialProofs   theorems of SerialSpec
                FreshProofs  theorems about the HCM's books
            LateBookings     bookings the HCM makes after the timeout
              MCLateBookings, LateProofs
            HcmSync          pushes as the HCM sends them, batches included
              MCHcmSync, SyncProofs
  Reservations        the abstract ledger that ExampleHR implements
  LeaveBalanceLemmas  how the sum of PENDING days follows one status
SharedConnection      the statements of transactions on one connection
  MCSharedConnection  values for TLC
  SharedConnectionProofs  theorems of its Spec
AtomicUpdates         the abstract transaction that SharedConnection implements
```

`SharedConnection` is what justifies the one step that a transaction takes in all the
other modules: it shows when the writes of a handler are one step, and where not.

**State.** `balance[k]` is the row of a key (employee, location, leave type) or
`None`; `audit[k]` the new values of its last audit entry; `status[r]` the status
of a request, `"NONE"` while it has no row; `call[c]` a call being served: its
endpoint, its request or key, the piece that runs next (`"hcm"` or `"tx"`), the
HCM balance it has read and its failed attempts. `hcm[k]` is the HCM's balance.
`deducts[r]` and `credits[r]` are history variables: the HCM books per key, they
remember for which request.

**Actions.** `createRequest` ... `completeRequest` are the first pieces,
`getBalance`, `deductBalance`, `creditBalance`, `deductRefused` and
`Unavailable` the attempts at the HCM, and `createReserved`, `createRefused`,
`createDuplicate`, `approveRecorded`, `approveStale`, `rejectCommitted`,
`cancelPendingCommitted`, `cancelApprovedCommitted`, `completeCommitted`,
`refreshCommitted`, `refreshRefused` the last pieces, one for each outcome. A call that its first
read turns away changes nothing and is no step.

`HcmSync` adds `push[s]`, a push under way: the entries still to be processed, the
attempts at the first of them that were rolled back, and the discrepancies counted so
far. `pushBatchToExampleHr` and `anniversaryPush` send one, `entryCommitted`,
`entryRolledBack`, `entryRefused`, `entryLockedOut` are the outcomes of an entry's
transaction, `answered` and `lost` end the push. `MapKeys` are the keys a batch may carry:
the whole corpus, or, once a reset may have emptied the HCM's `Map`, what has been put
back, in any order. `LateBookings` adds `underway[r]`,
the deductions and credits the client has given up waiting for and the HCM may still
make.

In `SharedConnection` a handler is one call of `withImmediateTransaction`, or the bare
UPDATE of `completeRequest` (`Bare`). Its `pc` is the statement it executes next; `open`,
`savepoints`, `stored` and `working` are SQLite's, `flags` the query runner's
`isTransactionActive` and `transactionDepth`; the data is one row with its version and, for
each handler, how many of its writes are stored. `made` counts those its `fn` has made in
this attempt. `Creation` and `Approval` are the handlers whose `fn` may also end early
without throwing; every other `fn` takes both paths through `update`, with or without an
UPDATE of the request. A batch is a chain of handlers (`Before`, `Later`): `nextEntry`
starts an entry when the one before it is answered 200, in the same tick, and the rest is
never reached when one fails (`CutOff`). Single pushes, refreshes and decisions are the
other handlers. `save` .. `saveRollback` are TypeORM's: join the active transaction, or begin one,
with `BEGIN` at depth 0, a `SAVEPOINT` below and a syntax error at a negative depth, which
flags reset by others produce.

`map` in `PROJECT.json` gives the lines of each definition.

**Details that matter.**

- `createReserved` writes the HCM balance read in piece 2 into the row. When the
  HCM could not be reached, the code passes -1 and the row's own value is used
  (`effectiveHcm`).
- `createDuplicate` is the UNIQUE branch of `createRequest`: it returns from
  inside the transaction, which commits the reservation already made.
- `approveRecorded`/`approveStale`: only this transaction reads the status
  again. `Release` and `cancelApprovedCommitted` do not; neither does the
  unconditional UPDATE of `completeCommitted`.
- `GiveUp` may end the attempts early, because axios-retry lets them share one
  timeout. A create goes on without the HCM, the others answer with an error.
- The "balance not found" branches of approve, reject and cancel have no action:
  `ShapeCorrect` proves that the row is always there.
- A batch carries the balances as they are when it is sent, in the order of the HCM's
  `Map`. Each entry is a transaction of its own. An error that is not retried, such as
  the foreign key error for an employee ExampleHR has no row for (`Storable`: nothing
  but the seed inserts employees and locations), ends the loop with a 500: the entries
  before it stay committed and the caller learns neither their number nor their
  discrepancies.
- A discrepancy is noted inside the closure that `retryOnOptimisticLock` repeats and
  outside the database: an attempt that is rolled back leaves its note, so a
  discrepancy may be reported twice, or be reported although the attempt that succeeded
  found none. It is never missing (`OverdraftsReported`). A refresh compares nothing.
- A push taken between the HCM's deduction and `approveRecorded` is subtracted from
  twice: the pushed balance already lacks the days `applyApproval` takes off. The
  shadow is then too low until the next push; `Reconciled` says it recovers.
- `fn` may end without throwing and without having done its work. `approveRequest` returns
  when the request is no longer PENDING (`time-off.service.ts:228`): an empty transaction is
  committed and answered 200. `createRequest` returns from its UNIQUE branch (`:143`): the
  row's change is committed and answered 201 without request or audit entry. An answer of
  200 therefore means that all `fn` wrote is stored, not that it wrote what was asked for.
- `withImmediateTransaction` sets TypeORM's flags by hand so that `manager.save` joins its
  transaction, and resets them in `finally` whoever set them. When two handlers run in the
  same tick, the `BEGIN` of the second fails with "within a transaction" and its
  `finally` resets the flags of the first. The first one's `save` then begins a
  transaction of its own, which SQLite refuses; both are rolled back and retried. No
  harm is done, but it is not what the comment at `transaction.helper.ts:10` expects of a
  nested save. With more handlers in a tick
  a save may also find the depth of another and issue a `SAVEPOINT`, commit the transaction
  of another, miss its own savepoint or count the depth below zero.
- In a *crowded* tick atomicity can fail: a handler's `ROLLBACK` closes the transaction of
  another, whose later writes are committed one by one although it is answered 500, or the
  bare UPDATE of `completeRequest` joins a transaction that is rolled back after its 200. A
  tick is crowded when it has no `Room`: more than two calls, or a second call beside a
  bare UPDATE or a batch of several entries. The batch is in this list because its next
  entry may begin between the two `ROLLBACK`s of another call's save, which TLC finds.
  Handlers are runnable in one tick when their requests arrive in one read of a socket
  or are issued in-process. The model lets them interleave at every await in any order,
  more than the first-in-first-out microtask queue does, so it shows where atomicity is
  guaranteed, not that each of these histories can be produced.

**Abstractions.** Outside `SharedConnection` a transaction is one step: SQLite's write
lock admits one writer, the handlers hold no lock outside it, and
`AtomicUnlessCrowded` covers the handlers that share a connection. For the same reason
the version column, which is compared inside the transaction that has just read it,
never differs (`VersionAsRead`) and is left out. Days are whole multiples of a unit. The uuid of a
request is the request. The mock HCM's balance never goes below zero, so no HCM
balance is mistaken for the sentinel -1. A push carries any balance of
`SyncValues`, independent of `hcm`: this covers late, repeated and reordered
pushes; `HcmSync` sends the pushes the HCM really sends. In `ExampleHR` an attempt whose reply is lost books when
it is made; in `LateBookings` it may book at any later time. In `HcmSync` an
anniversary among the `HcmEvent`s is one whose push is lost. A reset forgets which keys the
`Map` had, so `MapKeys` allows every order and every subset that has the balances above
zero: more batches than the code can send.

`SharedConnection` takes the reads and decisions of a transaction for one `select`; another
instance appears as commits to the row (`otherCommits`) and as a statement that finds the
file locked. A statement of TypeORM and the change of its depth count are one step. The
transaction a save begins is deferred, takes no lock until its first write and may fail
there (`insertOwn`); `otherCommits` nevertheless waits until it is over. The balance row
exists, so the INSERT of a row by a sync is not among the statements. The first reads of
the handlers, which see what another handler has not committed yet, are not modelled.

## 3. Disciplines

The code promises less than its documents do. Three specifications say how much
each property needs:

- `Spec`: any calls overlap in any way.
- `SerialSpec`: two different decisions on one request are not served at the same
  time, nor one decision twice (except those in `Tolerated`, which may contain
  `approve`, because that transaction reads the status again), and of two
  creations with one idempotency key one ends before the other starts. Nothing
  in the code enforces this; it is what its callers must observe.
- `FreshSpec`: besides, a creation commits while the HCM balance it read is still
  the HCM's. Not enforced either.

`SerialSpec` restricts the steps of `Spec` by conditions on the next state, so
everything proved of `Spec` holds under it.

**Fairness.** `Fairness` is weak fairness of `Progress(c)` for every call: the
next piece of a call that has started is run. The code justifies it: the event
loop runs every continuation, an HTTP attempt ends at the latest with the
client's timeout (5 s, `hcm-sync.module.ts:20`), axios-retry makes at most
`hcmRetryAttempts` retries, and the transaction is attempted 5 times
(`optimistic-lock.ts:27`). No fairness is assumed of arrivals, pushes, crashes,
exhausted retries or of the HCM's health.

`SyncFairness`, for `Reconciled`: batches are sent again and again (by a scheduler
outside the code; the repository leaves it to the HCM, TRD section 5.3), a push that has
arrived is processed, and of the entries of each key that keep being tried infinitely
many get through (strong fairness: locks and losses are not permanent).
`SharedConnection!FairSpec` is weak fairness of `Local`: the event loop runs every
continuation and every timer.

## 4. Runs

The MC modules give the constants their values. Requests ask for one or two units.

| Run | Specification | Shows |
|---|---|---|
| `races` | `LateSpec` | Every overlap of two calls, with all faults, bookings after their timeout, stale pushes and a repeated idempotency key: `LateTypeOK`, `ApprovedWasDeducted`, `CreditedWasDeducted`, `OnlySyncOverdraws` |
| `serial` | `SerialSpec` | Three requests on two balances, two of them with one idempotency key, where rows exist once a push or a refresh inserts them: `TypeOK`, `PendingMatchesRequests`, `AuditReplaysBalance`, `StatusMachine`, and the refinement `KeepsLedger` |
| `fresh_reads` | `FreshSpec` | With three overlapping calls, outages, an HCM that is set and raised, and syncs of any balance (a refresh writes one of them): `NoOverAllocation`, and `HcmBooksApproved`, the HCM has booked exactly what is approved, as long as it never books without answering |
| `liveness` | `FairSpec` | `EveryCallAnswered`, with the HCM possibly down for ever, the database locked, calls that die and an employee without a row |
| `sync` | `FairSyncSpec` | Two pushes under way over a creation, an approval and a cancellation: `OverdraftsReported`, `Reconciled` |
| `one_connection` | `SharedConnection!FairSpec` | Four handlers in ticks of at most two, one of them with a bare statement, two attempts, another instance: `AtomicUnlessCrowded` (a refinement of `AtomicUpdates`), `ConnectionLeftClean`, `SavesJoin`, `VersionAsRead`, `EveryHandlerAnswered` |
| `batches` | `SharedConnection!Spec` | A batch of two entries, a creation and an approval in ticks of any size, with savepoints: `ConnectionLeftClean`, `AtomicUnlessCrowded` |
| `over_allocation` | `SerialSpec` | violates `NoOverAllocation` (TRD.md:26) |
| `retried_create` | `Spec` | violates `AuditReplaysBalance` (TRD.md:474) |
| `double_approve` | `Spec` | violates `DeductedOnce` (reports/03-implementation.md:182) |
| `lost_reply` | `SerialSpec` | violates `HcmBooksApproved` (TRD.md:436) |
| `poison_entry` | `FairSyncSpec` | violates `Reconciled` (TRD.md:27, TRD.md:81) |

`findings` in `PROJECT.json` tells what each counterexample does. In short:

- `over_allocation`: create reads 2 from the HCM, another request is approved
  (HCM 1), create writes 2 back, and one more request is admitted.
- `retried_create`: the loser of two creations with one key commits its
  reservation without request or audit entry.
- `double_approve`: two approvals deduct before either commits.
- `lost_reply`: the retry books a second time, or the request stays PENDING
  although its days are gone.
- `poison_entry`: the first entry of every batch is of an employee ExampleHR does not
  know; each batch ends there, and an anniversary whose push was lost is never learned.

What breaks without the serial discipline can be seen by giving `serial` or `fresh_reads` the
specification `Spec`: two rejections that both read PENDING release the reservation twice
(`PendingMatchesRequests`), a request is rejected or cancelled while its approval is at the
HCM and its days stay deducted (`HcmBooksApproved`), of a completion and a cancellation that
overlap the later one overwrites the final status of the other (`StatusMachine`). Two
instances can do this, or one process when one handler waits for the HCM or the lock.

**What the passing properties do not say.** `ApprovedWasDeducted` and `CreditedWasDeducted`
ask for *a* deduction, not for one only: a second deduction by a retry, by a late booking or
by an approval repeated after a crash passes them, and so does a second credit.
`MaxBookings` is 1, so that an approval whose record was lost is not repeated in the runs.
`HcmBooksApproved` holds without crashes, exhausted retries and lost
replies; with them the code has the gap that TRD.md:487 admits. `NoOverAllocation` holds
where a creation has read the HCM's current balance, so it says nothing of one that found the HCM down.
`OverdraftsReported` says that a note is made: a single push only logs it, and a batch that
is cut short does not return its list.
`FreshSpec` does not extend to late bookings: a deduction that comes after its request
has been rejected takes days that were promised again.

**Bounds.** `Call` has two or three slots: every hazard is a race of two calls;
`over_allocation` and `fresh_reads`, where a creation, an approval and another
creation overlap, have three. Two or three `Request`s and one key suffice since
requests of different keys share nothing but their idempotency key; `serial` has
a second key, `liveness` one for an employee without a row.
`HcmRetries` is 1 where repeated attempts matter (a second repetition shows
nothing a first does not) and 0 elsewhere. `MaxBookings` caps approvals and cancellations of one request that
reach the HCM, `MaxLate` those still under way; only a failed approval can be repeated,
and in the theorems both are arbitrary natural numbers. `MaxBonus`
caps anniversaries. `SetValues` and `SyncValues` hold the balances the HCM may be
set to and pushes may carry (`fresh_reads` only sets it to its highest): below, at and above the days asked for; in the runs of
`MCHcmSync` `SyncValues` holds every balance the HCM can reach there.
`sync` has two `Slot`s, one push that overtakes another, two keys in the `Corpus`, one
entry behind another, the second of them without a row at first, and two attempts.
It leaves `reset` out, which makes it too large for TLC; `liveness` resets the HCM, and the
theorems of `SyncProofs` cover batches after a reset (`MapKeys`). `Reconciled` does not
speak of a key that a reset has taken from the `Map`: it is never pushed again (`InCorpus`).

In `one_connection` each of four handlers has two attempts and the other instance commits
once (`MaxOther`); one or two arrive in a tick, with `Room` or, for the bare statement and
another, without. In `batches` ticks are of any size and a batch has a first and a last
entry; its four transactions with two attempts each reach savepoints, missed ones and a depth
below zero. The theorems have no such bounds.

The calls are a symmetry set in the runs without liveness. Deadlock is checked except in
`fresh_reads`, where a creation whose read has become stale may never commit, and
in `retried_create`, which ends when both calls are answered.

**Mutants.** `PROJECT.json` has, for each property of a passing run, a mutant of a
mapped definition that a plausible bug would produce and the property catches:
a dropped authoritative check, a status not read again, a sync that replaces the
reservations, an error that is swallowed, a credit that is skipped, a retry count that
starts again, an error that leaves the transaction open, a discrepancy computed before the
sync, a push that spares reserved balances, a transaction that is not begun or is rolled
back by one that has not begun it, a `finally` that forgets a flag.

## 5. Theorems

The theorems hold for every set of calls, every finite set of requests, any
keys, balances, retries, bounds and combination of faults. They rest on the
ASSUMEs of the modules: `RequestAssumption` (finitely many requests, each with a
key and a positive number of days), `NoneAssumption`, `HcmAssumption`,
`ServiceAssumption`, `HcmRetriesAssumption`, `TimeOffAssumption`,
`SyncAssumption` and, for `SerialProofs`, `ToleratedAssumption` (only approvals
may race with themselves), for `LateProofs` `LateAssumption`, for `SyncProofs`
`HcmSyncAssumption` (the corpus is a sequence of keys) and for `SharedConnectionProofs`
`HandlerAssumption` (finitely many handlers, which are bare statements, creations, approvals,
others, or entries of a batch with one entry before them and one after at most). TLC
evaluates each of them in the runs whose modules extend theirs. A hypothesis that only
some theorems need is written in the theorem itself.

`ExampleHRProofs`, about `Spec`:

- `ShapeCorrect`, `TypeCorrect`. Types alone are not inductive: a transaction
  computes with the row of its request, so `ShapeInv` adds that a call is about
  a request in the table and that such a request has a row. The argument is that
  neither is ever deleted.
- `ApprovalsAreBooked`, `CreditsWereDeducted`. The inductive invariant adds
  `CallBooked`: a call that is about to record an approval, complete a request or
  cancel an approved one knows of a deduction. It holds because the deduction comes
  before the transaction, and an APPROVED status that is read at the start was
  itself deducted. No discipline is needed: this is what "HCM first" buys.
- `OverdraftsComeFromSync`. The two checks of the create transaction make the
  new available days non-negative whatever was read before; the other
  transactions do not lower them.

`SerialProofs`, about `SerialSpec`:

- `ServiceKeepsLedger`: the service implements `Reservations`, with the reserved
  days of a key as refinement mapping. The inductive invariant `SerialInv` says that
  what a handler has read (`StatusAsRead`) is still true when it commits; it needs the
  discipline exactly where the code does not look again. Each transaction is
  then one `Create`, `Decide` or `Settle` of the ledger, and every other step a stutter.
- `StatusesFollowDiagram`: from the same invariant.
- `ReservationsExact`: the ledger keeps the reserved days equal to the sum of the
  PENDING requests, which `LeaveBalanceLemmas` proves for a sum that counts
  pairs (request, i), so that no recursion is needed.
- `AuditComplete`: the audit log replays to the rows. Each transaction logs what it
  stores; a pushed entry logs the sum of the PENDING days instead of the row's, which
  is the same by `ReservationsExact`; the duplicate creation, which logs nothing, does
  not happen under the discipline.

`FreshProofs`, about the HCM's books. All three theorems assume `Reliable`: the only
fault is an outage of the HCM before it books, and no approval races itself. Without it
they are false: `lost_reply` and `double_approve` are counterexamples.

- `BookingsExact`, about `SerialSpec`: whenever nobody decides a request, the HCM has
  booked it exactly if it is APPROVED or COMPLETED. The property speaks of quiet moments
  only and is not inductive; `BooksInv` adds what is booked in between, which the call
  under way tells: an approval that is about to commit has been deducted, a cancellation
  that is about to commit has been credited, and every other decision finds what its
  status says. It rests on `StatusAsRead` of `SerialInv`, for a decision that fails leaves
  the books it has read behind, and on the discipline, for a second decision would leave
  them twice. A `GiveUp` does not disturb them: an outage books nothing.
- `ApprovedOnlyOnce`, about `SerialSpec`: an approval that failed may be asked for again
  without a second deduction. It follows from `BooksInv`; with `BookingsExact` it is what
  the code promises in place of an idempotency key.
- `NoDayPromisedTwice`, about `FreshSpec`: the days of the requests still PENDING are days
  the HCM has left. It also assumes `NothingTaken`: the HCM does not lower a balance by
  itself (`setBalance`, `reset`), which no service can prevent. A creation compares the
  HCM's balance with *all* reserved days of the row; these are the PENDING days by
  `ReservationsExact`, those not yet deducted are fewer (`SumDaysMonotone`), and `FreshReads` says
  that the balance is still the HCM's. A deduction takes from the HCM what it takes from
  the promises. Pushes and refreshes of any balance, however stale, do no harm: the
  row's `hcm_balance` can only add a refusal. It is trusted alone when the HCM could not be
  asked, and then `FreshSpec` does not let the creation commit.
  `over_allocation` shows that `SerialSpec` is not enough.

`LateProofs`, about `LateSpec`, with any number of late bookings:

- `LateTypeCorrect`, `LateApprovalsAreBooked`, `LateCreditsWereDeducted`,
  `LateOverdraftsComeFromSync`. `LateInv` adds to the invariant above that a credit is
  under way only for a request that was deducted: the cancellation that asked for it
  knew of a deduction, and deductions are not forgotten. The steps of `ExampleHR`
  itself are those of `ExampleHRProofs`.

`SyncProofs`, about `SyncSpec`, when `SyncValues` is `Nat`, that is when `ExampleHR!Push`
takes any balance:

- `PushOverdraftsReported`: a push that overdraws is noted. It rests on the exact
  reservations: `processBatch` compares the pushed balance with the sum of the PENDING
  requests, the overdraft is one of the row's `pending_days`, and only because the two
  agree is none missed.
- `PushesKeepBooks`: `PendingMatchesRequests` and `AuditReplaysBalance`, which
  `SerialProofs` states of entries with arbitrary balances, hold with batches and single
  pushes of any length, late, overtaken, cut short, refused, retried or lost, and after
  resets. By the lemma `PushesRefineEntries` the service is still `SerialSpec`; the invariant
  says that the entries under way carry natural numbers for keys there are, which the HCM's
  type and `MapKeys` give.
- `SyncTypeCorrect`.

`SharedConnectionProofs`, about `SharedConnection!Spec`, for any number of handlers,
attempts and commits of the other instance. Two tables, `ResumeMoves` for the control
state and `ResumeData` for the data, say once what a statement can do; the invariants
are proved from them.

- `ConnectionTyped`.
- `TicksLeaveConnectionClean`: no tick ends with an open transaction, a savepoint, a flag set
  or an uncommitted write, however many transactions it had; this theorem has no condition.
  `CleanInv` names who still has to undo it: if a transaction is
  open some handler is inside one, if a flag is set some handler has its `finally` ahead, and
  a connection without a transaction has no savepoint (`Settled`).
  The converse is false, which is the hazard: the handler that closes it need not be
  the one that opened it.
- `SavesJoinTheirTransaction`: until a tick is crowded, a save writes in the transaction
  its handler has begun, or is refused its `BEGIN` within it; it issues no `SAVEPOINT` and
  commits nothing. In crowded ticks, which `batches` has, this fails.
- `VersionsStayAsRead`: until a tick is crowded, the version a transaction compares is the
  one it has read, so the retry on a version conflict is not reached.
- `TransactionsAreAtomic`: until a tick is crowded, the interleaved statements implement
  `AtomicUpdates`, with what is stored and what is answered as refinement mapping.
  `RoomInv` says that of two handlers the one inside owns the open transaction until it ends
  it itself, that its flags can be reset only when the other is done (`HarmedQuiet`: it
  fails, and harms nobody), and how much it has written so far.
- `RoomyTicksAreAtomic`: if no tick can be crowded, that is if `Together` has `Room` for every
  set of calls that arrive in one tick, `Spec` implements `AtomicUpdates`. This is a
  sufficient hypothesis under which the other modules may take a transaction for one step;
  nothing in the code enforces it. `fn` may write nothing or part of what it should, as its
  early and its UNIQUE return do: the theorem says that what it wrote is atomic, and
  `TimeOff` models those returns as steps of their own (`approveStale`, `createDuplicate`).
- `ClientsMayTrustAnswers`, same hypothesis: 200 means that all `fn` wrote is stored, once:
  nothing for an approval that returned early, the row's change alone for a creation whose
  key was stored, everything otherwise. 409 and 500 mean nothing is stored. It is proved of
  `AtomicUpdates` and carried over by the refinement.

Only model-checked: liveness (`EveryCallAnswered`, `Reconciled`,
`EveryHandlerAnswered`), which the prover does not handle. Every safety property of a
passing run is proved; the runs that expect a violation are counterexamples and have
nothing to prove.

## 6. Not modelled, and the plan

Planned:

1. `ApprovedOnlyOnce` under weaker hypotheses: which single fault, alone, already breaks it,
   and runs with a larger `MaxBookings` for approvals that are repeated after a crash.
2. What stays on record of a deduction whose approval has not committed, and an instance of
   `sync` small enough to reset the HCM.
3. The first reads of the handlers on the shared connection, which may see what another
   handler has not committed yet.

Left out for good:

- Floating-point drift of `REAL` days: sums of fractions are out of the tools' reach, days
  are whole units here.
- The sentinel -1 for "HCM unavailable" (`time-off.service.ts:65`): the HCM the repository
  comes with has no negative balance, so nothing can be mistaken for it.
- Error responses other than those a transaction ends with: they are decided before
  anything changes. Validation of request bodies likewise.
- Authentication, logging, response wrapping, configuration: stateless.
- Listing endpoints and single reads: they change nothing.
- How employees and locations get their rows: nothing under `src/src` but the test
  seed inserts them.
