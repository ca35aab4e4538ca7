# A TLA+ model of Balances

Balances keeps the monthly books of a household: what it owns, owes and is owed,
month by month, and reports derived from that. The server is Go over PostgreSQL
(`backend/`), the client React (`frontend/`). All state that outlives a request
is in PostgreSQL; every request handler runs concurrently with all others, and
what holds of the books holds because of the order of SQL statements, the
transactions around them, and the indexes and constraints of the schema. That is
what these modules are about.

Paths below are relative to the repository root. `repo/` is
`backend/internal/repo/`, `queries/` is `backend/queries/`.

## 1. Inventory

| Component | State | Operations | Interacts with |
|---|---|---|---|
| **Snapshot tables** (`repo/assets.go` and twins, `queries/*_snapshots.sql`) | one table per group: position, month, amount, tombstone, `supersedes` | create, update, delete, upsert, archive, restore, cascade | position lifecycle writes close rows into it; the report engine reads it |
| **Position lifecycle** (`repo/lifecycle.go`) | `status`, `terminated_at` of the position | terminate, un-terminate, move the termination | flips the position and writes or takes back a close snapshot in one transaction |
| **Bulk entry and import** (`repo/bulk_snapshots.go`, `repo/import_snapshots.go`, `snapshotimport/`) | none of its own | one month of many positions; many months of one; a position from its workbook | eligibility is read from the positions, then a loop of upserts |
| **Positions** (`repo/bank_accounts.go` ... `repo/time_deposits.go`) | the position rows, a detail row per subtype, tags, rollover links | create, update, soft-delete with cascade, link a rollover | parent of snapshots and transactions |
| **Investment transactions and settlement** (`repo/investment_transactions.go`, `repo/investment_settlement.go`) | the ledger of an investment | create, update, delete; a maturity or full sale terminates the investment | calls the lifecycle's close snapshot in its own transaction |
| **Report cache** (`repo/monthly_reports.go`) | `monthly_reports` rows with `generated_at`, `engine_version` | refresh on read, rebuild all, rebuild a month | reads every input table without a transaction; written by nobody else |
| **Report engine** (`repo/monthly_reports_engine.go`) | none, a pure function | generate all months | fed by the cache |
| **Accounts** (`auth/`) | users, sessions, credentials, reset tokens, rate limiter | sign in and out, reset, reactivate, sweep | every request is attributed to a user of a household |
| **Invitations and onboarding** (`auth/invitations.go`, `auth/onboarding.go`, `auth/local_invite.go`) | invitations, handshakes | invite, open the gate, found or join, accept | creates users and households |
| **Backup** (`backup/`) | none of its own | export (full, compacted), preview, restore, erase | reads and replaces every table of a household |
| **Workbooks** (`exports/`, `snapshotimport/`) | none of its own | export a position with its history; create one from a workbook | carries a position's columns, owner, tag, readings and ledger out and in |
| **Income, tags, rates** | one table each | single-statement CRUD, assignment of tags, deletion of a tag with its uses | inputs of the reports, labels of positions |

What is hard about it:

* *Interleaving.* PostgreSQL runs the requests at READ COMMITTED. A read followed
  by a write of what was read is not atomic unless the write's own `WHERE` says so,
  and many handlers check outside the transaction that writes.
* *Ordering of locks.* Deletions go children first, lifecycle requests parent first.
* *Long legal histories.* Displace, re-record, displace again, revert, import over
  it: the `supersedes` links chain, and the partial unique index must never be in
  the way of a restore. Mature, reactivate, edit the maturity, settle again.
* *Staleness.* The report cache decides from timestamps whether its rows still
  reflect inputs that others are writing.
* *Derived figures.* What a household spent in a month is nowhere recorded; the
  engine infers it from everything else, and one leg of one event counted twice or
  not at all shows as an expense that never was.
* *Parallel lists.* A position's columns are listed in eight places that share no
  definition: table, form, insert, update, workbook out, workbook in.
* *Partial failure.* Multi-statement requests must leave nothing behind; those
  outside a transaction leave behind whatever came before the failure.

Correctness, per component: one live snapshot per month and a sound `supersedes`
structure; a termination reversible until the user touches the month, never
overwriting a record, atomic with its flip; batches all-or-nothing; no live child
of a deleted position; every request ends; no ledger entry settled twice, no
history outside a deposit's term; living expenses that are what was spent; a report
read after a write reflects it; an invitation used once and only for its addressee,
a reset that closes what the old password opened; a backup that restores what was
exported, whole or not at all; a workbook that says what its position is.
`PROJECT.json` lists the hazards, line by line, with the properties that watch over
them.

## 2. Modules

```
CloseSnapshot            the table and its statements, as pure operators
 +- LifecycleTables      positions of one group and their snapshots
 |   +- PositionLifecycle    requests as atomic actions       (MCPositionLifecycle)
 |   +- LifecycleTx          the same requests, statement by statement  (MCLifecycleTx)
 |       +- Lifecycle_proofs   of both     <- CloseSnapshot_proofs
 +- InvestmentLedger     transactions, settlements, terms, rollovers  (MCInvestmentLedger)
     +- InvestmentLedger_proofs            <- CloseSnapshot_proofs

ReportInputs             reports as the facts they rest on, the staleness test
 +- ReportPromise        abstract: a read gives the reports of the books
 +- CachedReports        the inputs of the reports, and the reports kept of them
     +- ReportCache          the cache, request by request        (MCReportCache)
     +- ReportRefresh        reads and writes, statement by statement   (MCReportRefresh)
         +- CachedReports_proofs   of both; ReportCache implements ReportPromise

ReportEngine             the figures of a month, as pure operators
 +- HouseholdBooks       a household, and the books it keeps  (MCHouseholdBooks)
     +- HouseholdBooks_proofs

Accounts                 sign-in, invitations, onboarding, resets   (MCAccounts)
 +- Accounts_proofs

HouseholdBackup          export, restore, erasure among writers  (MCHouseholdBackup)
 +- HouseholdBackup_proofs

PositionKinds            the columns of the ten kinds, layer by layer
 +- PositionWorkbook     positions, tags, workbooks out and in  (MCPositionWorkbook)
     +- PositionWorkbook_proofs
```

**CloseSnapshot.** A table is a function from the row ids allocated so far to rows
`[pos, month, amount, deleted, supersedes]`. The four groups' tables have one
shape and the twins of `lifecycle.go` run one procedure over them
(`closeSnapshotOps`), so one module stands for the four. Each statement is an
operator from table to table (`Insert`, `SetAmount`, `Archive`, `Restore`,
`Upsert`, `ArchiveAll`); `WriteCloseSnapshot` and `RevertCloseSnapshot` yield the
*set* of tables they may leave, which differ in the id an insert draws; the empty
set is a failed statement and so a rollback. `Compacted` is what a compacted
export keeps, and `LoadTable` what the restore's one INSERT makes of a file's rows:
the table of them, or nothing when a `supersedes` among them leads out of the file,
which the foreign key of migration 00017 refuses.

**PositionLifecycle.** `position` and `snap` are the tables (LifecycleTables
declares them, and the two statements that atomic requests and transactions share);
every repository
method is one action: what its transaction does from the first read to the commit,
if nothing else runs. `terminated_at` and the snapshot's date are months here
because every rule modelled compares months. Amounts are the values the rules tell
apart: zero and others. `held` is a history variable: what the month of
termination read when the position was terminated, so that "un-terminating
restores it" can be stated, and `Forgotten` once the user wrote to that month, when
nothing is owed. It constrains nothing.

**LifecycleTx.** The same requests in the statements they send. `step[t]` is the
next statement of transaction `t`, `req[t]` what its handler holds in memory
(a pre-read `prior`, the row `seen`), `rows[t]` and `parent[t]` its uncommitted
writes, which are also its locks. A statement sees the committed tables overlaid
with its own transaction's writes (`View`), waits while another holds what it
writes (`Blockers`), and a `Commit` publishes everything at once. `Rollback` is the
client gone, a statement failed, the process dead: at any statement.
`DeadlockVictim` is PostgreSQL breaking a ring of waits. The READ COMMITTED rules
(visibility, lock waits, deadlock detection) are the only definitions not taken
from this repository; they are marked external in the map.

Abstractions in LifecycleTx worth knowing: an insert waits on an uncommitted row of
its month because of the partial unique index, as an update waits on the row; so
locks are on `<<position, month>>` cells. A statement that waited is evaluated when
it stops waiting, on what is then committed; PostgreSQL re-evaluates its `WHERE` on
the new version of the row, to the same effect for the predicates used here
(`id = ? AND deleted_at IS NULL`). The cascade is the exception that matters:
the rows it will touch are fixed when the statement starts and then taken one by
one, in any order. A position's status is not repeated: it is active exactly when
`terminated_at` is null (`validatePositionLifecycle`, and a CHECK constraint).

**ReportInputs.** The engine is a function of the household's rows, so the report
of a month is represented by the rows it is computed from and what they say
(`Report`): a snapshot or rate from its month on, an entry (income or transaction)
in its month, a position or the household always. A report that rests on other
facts than the books hold now is a stale one. That older snapshots and rates are
superseded by newer ones is left out, which makes "stale" slightly wider than a
wrong number; none of the counterexamples below depends on it. `Watermarked` is
the range of `MaxReportInputUpdatedAt`, whose dates are compared with the *first*
of the last month: hence `late`, an entry dated later in its month. `NeedsRegen` is
`needsRegen`.

**CachedReports** declares the tables of the next two.

**ReportCache.** One request is one action: writes of inputs (`Record`, `Amend`,
`Delete`, each stamped with the time of its transaction), `Read` with the refresh in
it, the two rebuilds, the turn of the month for one user, a new engine version.
Positions and the household are there from the start, amended and not deleted: a
deletion tombstones their snapshots in the same transaction, which is `Delete` of
those. Users date entries in the middle of a month, move them to later months and
delete the last snapshot, as the code lets them. `postponed` is history: the rows that
were given a later month since all reports were last computed.

**ReportPromise.** What a reader may rely on: facts change at will, and a read shows
`Report` for every month of `Months`. No cache, no stamps. It has two exceptions, both
named: of the rows in `overlooked` it says nothing, and while the books are `stranded`
nothing at all. `ReportCache` refines it with `facts <- Facts(books)`, and with the
exceptions as narrow as the code's test lets them be: `Overlooked` is the rows outside
the watermark's range that are in a month of the reports or were in one (`postponed`),
`Stranded` that every snapshot has been deleted. `shown` is what the read that was just
answered showed to whom, so that every read is judged, of whichever member.

**ReportRefresh.** A read is `Begin`, one `Load` per kind of table, `Watermark`,
`Check`, and if stale `BeginRegeneration` (which takes `generated_at`), `Prune`, one
`Upsert` per month, from the earliest on, `Commit`; then `List`. Writes are open from `BeginWrite`, which
takes `updated_at`, to `CommitWrite`. Rows a read has written are locked until it
ends. `Calendar` holds what the members' calendars show, two months at the turn of
one. Writes begin and commit at any statement of a read, and reads at any of a write.
`raced` and the field `since` of a read are history: the rows whose latest write
overlapped a refresh, and the rows written during this read.

**InvestmentLedger.** A handler of a transaction, a settlement, a snapshot or a
rollover link reads the investment, decides, and then writes in one transaction
that re-reads little. So a request is two steps: `Ask...`, with every check made
outside the transaction, and `Commit...`, with the few the transaction makes;
`saw` is what the first step read. Requests that are one transaction or one
statement are one step. The table of snapshots is CloseSnapshot's, days fall in
months of `DaysPerMonth`, and a term is a set of consecutive days. Three variables
are history and constrain nothing: `held` and `touched` as in PositionLifecycle,
and `strayed`, which records for each investment what the code does not guard: a
commit on a stale read, an end or an entry outside the term, an end moved by a
lifecycle request, a reactivation over a live maturity, a second successor made by
`CreateTimeDeposit`. The properties
say what holds *but for* the named strays, so each names the price of one missing
guard.

**ReportEngine** translates `monthly_reports_engine.go`: carry-forward of snapshots
and rates, net worth by group, earned income, placement, passive income,
investment return, value changes, write-offs, tracking changes, and living
expenses, which is what is left. The books are a record of live rows; a figure is
an operator of the books and a month.

**HouseholdBooks** drives it. A household is followed *from outside*: `spent`,
`gained` and `placed` are what really happened, event by event; `books` is what the
entry forms let it record about that at the month's end. The properties compare the
two. The household keeps to the conventions the engine's documents ask for
(ADR-0008, 0052, 0053): no mark or yield in the month an investment is bought, no
addition in the month tracking begins, a property fetches its last recorded value,
and an exit without cash leaves at the recorded value. Only investments are in a
foreign currency: the revaluation of a foreign bank account is a leak into living
expenses that the documents accept.

**Accounts.** Every handler of `auth/` that changes state, statement by statement:
a client's request is a sequence of steps, `Abort` may come before any of them, and
two clients' steps interleave. `Tick` passes time, against which handshakes,
invitations, reset tokens and sessions expire. An e-mail address stands for its
user and a number for each password; Google's answer is external. The fields `by`
of a user and `late`, `stale`, `founders` of sessions and tokens are history.

**HouseholdBackup.** The database is a graph of rows with an `up` reference, which
`validateGraph` checks in a file, and an `also` reference, which is left to the
database. Positions stand for what hangs on a household, history for what hangs on
a position. An export reads section by section outside a transaction; a restore or
an erasure is the steps `stash`, `wipe` table by table, `load`, in one transaction
at READ COMMITTED with row locks and foreign keys; members' requests come between.
`quiet` marks a file during whose reads nothing was written.

**PositionKinds** lists, per kind and layer, the columns the program names there:
the tables, the forms and what they require, inserts, updates, the Detail sheet and
its reader. **PositionWorkbook** carries positions of all ten kinds through those
layers: create, update, delete, readings, ledger, end and reactivation, tags, export
to a workbook, an edit of the file, and the creation of a position from it. The
requests that resolve a tag in one statement and write it in a later one are two
steps. `ORDER BY transaction_date, created_at` says nothing of rows that agree in both,
as those of one import do: an export picks any of the sheets the query may return
(`transactionsToExport`), and a cost basis is the set of what the orders give (`CostsOf`).

## 3. What is checked

| Run | Question | Result |
|---|---|---|
| `lifecycle_histories` | Does any history of requests break the `supersedes` links or the reversibility of a termination, in the table or in a compacted backup? | no |
| `tx_one_position` | Do the links, the atomicity of a termination and of a batch survive every interleaving? | yes |
| `tx_requests_end` | Does every request end, whatever rings of waits arise? | yes |
| `compacted_file` | Are the rows of a compacted export closed under `supersedes`? | no: a close row that was displaced in its turn is carried without its target |
| `report_cache` | Can the cache be told from reading the books, by members in one month or in two? | only by rows the staleness test overlooks and while no snapshot is left; a report lacks only rows newer than it, and the next read over the same months leaves the cache alone |
| `refresh_two_reads` | What goes stale when statements interleave, and is every read answered? | only rows whose latest write overlapped a refresh; yes, though two refreshes can deadlock and one of them then fails |
| `household_books` | Are the derived figures what really happened to the household? | yes, living expenses, returns and placement to the unit |
| `ledger_requests` | Do the ledger, the status and the close rows of an investment agree when requests act on what they read earlier? | yes, but for the strays each property names |
| `accounts_crossing` | Who becomes a member of what, and which sessions and links survive, when requests cross and abort? | only the invited; those of an old password do not |
| `accounts_local_join` | Does every user have a way in, or count as dormant? | no: joining with a password stores an empty `google_sub` and no credential |
| `backup_races` | Is a restore whole, does a quiet file restore, can its caller sign in afterwards? | yes, but for what compacted files may miss (section 4) |
| `workbook_round_trip` | Does the workbook of a position of each kind create that position again? | yes, but for the exceptions `Faithful` and `RoundTrips` list |

Two runs expect a violation, and are the findings in `PROJECT.json`.

* `accounts_local_join`: `commitJoin` (`auth/onboarding.go:308-352`) stores `google_sub`
  through a helper that turns "none" into `''` and not into NULL (line 335), and writes no
  credential: the password chosen at registration stays behind in the handshake. Every
  member who completes a local join has neither a Google identity nor a password, and is
  not dormant by the definition of `migrations/00008_local_password_auth.sql` either, so
  neither the founder's reactivation nor the operator's link finds them.
* `compacted_file`: a close row the user re-recorded keeps its `supersedes`; when a second
  termination displaces it, a compacted export carries it and not the row it supersedes
  (`queries/backup.sql:142`), against the comment there (lines 133-134) and INV-BACKUP-16.
  The restore of such a file is refused by the foreign key. `CompactedKeepsUndo` says that
  this is the only case, and that every file which loads keeps the undo.

Section 4 lists the further disagreements met while modelling.

**Bounds.** Every bound is a CONSTANT or a condition named in its module, and shows in the run's
cfg.

* *Tables.* `SnapId` bounds the rows ever allocated. Four rows of one position in
  two months are what the longest interesting history needs: a value, the close row
  that displaces it, re-recorded, and the close row that displaces that; the fourth
  leaves room for a termination moved to the other month. Three amounts separate
  "restored" from "some other recorded value". Two positions are enough for a step
  of one to disturb another.
* *Transactions.* In LifecycleTx two transactions plus the users' single-statement
  writes give all pairs of requests. `tx_requests_end` leaves those writes out, which
  hold no lock when they end, and lets batches take every cell, in any order. A
  request starts only if row ids are left for it (`RoomFor`), so no request is stuck
  by the bound, which would otherwise falsify liveness for no reason of the code.
* *Reports.* Two months let the members' calendars differ, a range end early or late and an
  entry be moved; one row of each kind suffices because the rules treat the rows of a kind
  alike, and there is a second snapshot so that one can be deleted and another left.
  `MaxTime` is the number of transactions that take a stamp: record, read, amend or
  delete, read again is four. In `refresh_two_reads` three stamps are a cache that is
  filled, a write, and a refresh that meets another; nothing starts unless a stamp is
  left for it (`RoomToStart`). Parents, which feed every month as a snapshot does from its
  month on, are left out there to keep the run short.
* *Household.* One position of each kind that the engine treats differently, two
  deposits so that one can roll over into the other, the stock in a currency whose
  rate moves between 1 and 2; three months, so that the second and third have an
  income statement and the second is settled before the third; three events, which is
  arrive or acquire, change, and leave, or any three in one month.
* *Ledger.* One investment with a history and two more that deposits roll over into;
  two days a month and three days, so that dates share a month or not; four rows and
  two transactions; three requests of two clients, so that one can read before
  another commits and a third undo what they did.
* *Accounts.* Two founders, a member left dormant by a restore, a guest with a Google
  identity; two clients and three requests, one tick. Lifetimes of 1 and 2 make
  everything but a session expire at it. Sessions, invitations and tokens are enough
  for every client to make one beside those of the start.
* *Backup.* A founder and a member, two households' worth of rows, two transactions
  (a restore among them, or two, or an erasure), one request of a member in between. `Idle` is
  FALSE: members write only while an export, restore or erasure is under way; what they write
  before is the choice of `Init`. The exception of `RestoreIsWhole`
  (`BroughtBack`, section 4) needs a third transaction: with `Tx` of three, `MaxId = 6`,
  `MaxTx = 3` and `MaxRequests = 0` the property fails without it and holds with it; for
  every number of transactions it is proved. Ids are
  never drawn twice; `RoomAssumption` says that `MaxId` leaves enough of them for what
  `Init` may hold.
* *Workbook.* One position is entered and one created from its workbook; two months,
  two readings, two tags and names; four writes: create, a reading or transaction,
  another or an end, and a change. Positions of all ten kinds are created; those of
  the kinds in `Busy` also get a history, one for each shape of reading and ledger.

Symmetry is used over interchangeable ids, clients and transactions, in safety runs
only.

**Deadlock checking** is off in all runs: once the bound on requests, rows, events or
time is reached nothing more can happen, and that is the bound's doing. Stuck
requests are what `EveryRequestEnds` and `EveryReadEnds` are for.

**Fairness** (`FairSpec` of LifecycleTx and ReportRefresh). `SF(Statement(t))`: the
handler is running and PostgreSQL queues the waiters of a lock in order, so a
statement that can run again and again is not passed over for ever. Weak fairness
would not do: a waiter is enabled and disabled as others take and release the lock.
`WF(DeadlockVictim(t))`: the detector runs after `deadlock_timeout`. Nothing forces
clients to send requests, or requests to fail: `Begin`, `Rollback` and the user's own
writes are not fair. The other modules state no fairness: nothing there waits.

Every property of a passing run is tested against a plausible bug: the operators
commented "Broken" are the code with a dropped guard, a lost link, a swapped order,
and the run finds each of them.

Some properties are stated and not part of a run: the type invariants (checked at the
same bounds while the modules were written), `TableSound` of InvestmentLedger,
`OneLivePerMonth`, `NoLiveOrphan` of PositionLifecycle and `NobodyMoves` of
Accounts (proved, section 5), `TerminationDisplaces`, and those of section 4, which
the code does not keep.

## 4. Known divergences

The modules violate some statements of the documentation and of comments. Except for the
two findings no run is kept for them; where a property is named, checking it
under the bounds above reproduces the divergence.

*Lifecycle.*
* Moving a termination to another month leaves the old close row on the active
  history (`repo/lifecycle.go:364`, INV-LIFECYCLE-04): `ActiveHoldsNoCloseRow` in
  PositionLifecycle.
* A zero the user recorded at the termination month is taken for a close row, and
  un-terminating removes it (`repo/lifecycle.go:386`): `UnterminateRestoresAny`.
* A close row that was re-recorded and displaced in its turn is in a compacted export
  without the row it supersedes (`queries/backup.sql:142`): the run `compacted_file`.
* A snapshot created while its position is being deleted stays live
  (`repo/assets.go:164`, against the comment in lines 145-146): `NoLiveOrphan` in
  LifecycleTx.
* A termination overwrites a value recorded between its read and its write
  (`repo/lifecycle.go:386`, INV-LIFECYCLE-03): `NeverOverwrites`; and an un-terminate
  soft-deletes one recorded between its read and its archive (`repo/lifecycle.go:426`):
  `OnlyZeroRemoved`.
* A request to active whose pre-read came before a concurrent termination's commit
  reactivates without removing the close row (`repo/lifecycle.go:98`):
  `ReactivatedHoldsNoCloseRow` in LifecycleTx.

*Reports.*
* An entry dated after the first of the last reported month moves no watermark
  (`queries/monthly_reports.sql:148`, INV-STALENESS-01, ADR-0006), and an entry moved to a
  month not yet reported stays in the report of its old month: `NeverServesStale` in
  ReportCache, the rows `KeepsPromise` excepts as `Overlooked`.
* After the last snapshot is deleted the cached months are served on
  (`repo/monthly_reports.go:189`, INV-STALENESS-02): `MonthRangeCoherent`, which
  `KeepsPromise` excepts as `Stranded`.
* Members either side of the turn of a month undo each other's range at every read
  (`repo/monthly_reports.go:180`): `NotThrashed` without its condition on the months. What
  each of them is shown is right all the same, which `KeepsPromise` is checked for.
* A write that commits between a refresh's load and its transaction is missing from a
  report stamped later (`repo/monthly_reports.go:184`), and a transaction that begins before
  a refresh and commits after it is stamped older than the report that lacks it
  (`queries/monthly_reports.sql:73`): `ReadAfterWrite` in ReportRefresh is violated by both.
  `OnlyRacesGoStale` says that nothing else goes stale.
* `trackingChangeFor`'s comment does not hold of a foreign position whose first rate is
  entered after its first snapshot; a newly tracked deposit's principal counts as new money.

*Investments.*
* Editing a maturity "is idempotent on status" (`repo/investment_transactions.go:289-290`),
  but an investment reactivated since is terminated again: `EditKeepsStatus`.
* "Every snapshot and transaction of the deposit must fall inside" its term
  (`repo/time_deposits.go:95-96`), but the bulk entry and the import do not ask for the term and
  a lifecycle request may end the deposit outside it; `UpdateTimeDeposit` then refuses
  every edit of the deposit. `DepositInTerm` without its exceptions.
* A deposit reactivated over its maturity can mature again; its ledger then holds two
  maturities, which a comment says it cannot. `MaturesOnce` without `"reopened"`.
* Rollovers are one to one only through the linking handler: `CreateTimeDeposit` with
  `rolled_from` checks existence alone, and two links on their way at once may both commit.
  Cycles of three deposits are not looked for.
* A list that seeds a snapshot and a maturity in one month has the zero written over the
  snapshot, where a maturity entered later would displace and keep it.

*Workbooks.* What `Faithful` and `RoundTrips` except: an end other than a maturity is not
in the file, so the copy is active; a position reactivated over its maturity comes back
matured, with its month zeroed; an amount that differs from quantity times price is
recomputed; rows of one day have no order; a deposit with history outside its term
previews cleanly and is refused on commit; a name of spaces can be created and not
imported. A tag renamed since the export is silently dropped; tag names compare by case
here, a detail left out. An update of a bond that omits `coupon_disposition` resets it.

*Accounts.*
* A local join leaves a member without any way in: the run `accounts_local_join`.
* Founding creates the household before the user, outside a transaction: a double submit
  or a failure leaves a household without anybody.
* A join that fails after the user was created leaves the invitation unused.
* "A reset always ends with exactly one live session" (`auth/reset.go:278`): a login whose
  password was verified before the reset opens its session after it. `ResetRevokes` carries
  that exception, and `FounderNeverResets` the corresponding one of a dormancy check that was
  overtaken.

*Backup.*
* "A file that previews cleanly is one that commit will accept"
  (`backup/restore_handler.go`): `PreviewIsKept`. Not so for an export during which a member
  joined and created a position, nor, in compacted form, for a deposit rolled over from a
  deleted one or a close row that was displaced in its turn, although INV-BACKUP-16 has the
  foreign key "close the loop" (`QuietFileRestores` excepts both); nor when a person of the file has founded a household elsewhere since.
* A full export that overlaps writes may validate and mix two moments.
* A password reset that commits between a restore's stash and its wipe is undone by it.
* An erasure can answer with success and leave the household there: its last `DELETE`
  waits for the household's row, which a restore has deleted and put back; when that
  commits, the statement finds the old row gone and removes nothing, and the members and
  positions that came with the new one stay. It is what erasing first and restoring then
  would leave. The wipe's `UPDATE households` of the audit columns, which the model leaves
  out, locks the same row, so in the code it takes one more restore. `RestoreIsWhole`
  excepts it (`BroughtBack`).

## 5. What is proved

TLAPS checks every proof; nothing is assumed but what the modules state about
their constants (`ASSUME`), which TLC evaluates in the runs.

*Position lifecycle.* `Lifecycle_proofs` proves of PositionLifecycle, for all positions, months,
amounts and row ids, finite or not: type correctness, `OneLivePerMonth`, `SupersedesSound`,
`NoLiveOrphan`, `UnterminateNeverFails`, `UnterminateRestores`,
`ReactivatedMonthNotZero` and `CompactedKeepsUndo`.

The safety invariants among them are not inductive. `SupersedesSound` speaks of the
rows live rows supersede; reverting a close row makes such a row live, and then it
must hold of *its* target, and no other row may name the row that is live now. So
the invariant follows the links to their end: there is a set `S` of rows, the live
ones and all that can still come back, such that

* `Sound(t, alive, S)`: every live row is in `S` and of a position that exists; a
  row that a row of `S` supersedes is in `S`, is archived, carries a value and no
  zero, and is superseded by that row of `S` alone (`Stacked`). Over one month of a
  position `S` is a stack with the live row on top.
* A create, an update or a batch puts a new row in or changes the top of a stack;
  an archive lets go of the top; `WriteCloseSnapshot` pushes and
  `RevertCloseSnapshot` pops. `CloseSnapshot_proofs` has a lemma of this form for
  each statement, then one for each of the two procedures, so that the invariance
  proof of the specification is a case split that cites them.
* `Owes` relates `held` to the top of the stack at the termination month, which
  gives `UnterminateRestores`; `RevertNotZero` gives `ReactivatedMonthNotZero`.
* A compacted file is a part of the table that holds the live rows and what those of
  terminated positions supersede. `Part` says of two tables that one holds some of the
  rows of the other, all live ones among them; `PartRevert`, that with the rows live
  ones supersede it also reads the same after a revert. A target that is missing from the
  file is that of an archived row, which is there because a live row supersedes it: that is
  `DisplacedTwice`. `CompactedKeepsUndo` follows without a further invariant.

*Report cache.* `CachedReports_proofs` proves of ReportCache, for all sets of rows, months, users and
versions, with the months integers:

* type correctness and `NothingOlderMissing`. The invariant is
  `Inv == TypeOK /\ Stamped /\ Grounded /\ NothingOlderMissing`: no stamp is ahead of
  the clock (so a write, which takes the next one, is newer than every report: that
  is what makes `NothingOlderMissing` inductive), and reports speak of existing rows
  that feed their month.
* `ReadingKeepsPromise`: `Spec` implements `ReportPromise`, with nothing assumed of what users
  do. It needs `Steady`, a second invariant: rows only move to earlier months than cached facts
  have them in unless they are `postponed`, and a filled cache comes of a snapshot, live or
  deleted. Then each row a cached report rests on, or should rest on, is overlooked or in the
  watermark's range; a cache that passes `NeedsRegen` is at least as new as all in the
  range, and `NothingOlderMissing` says it holds them as they are (`CurrentCache`).
* `NotThrashedHolds`: the cache a read leaves is current for every member whose reports
  range over the same months, the reader or another.

*Accounts.* `Accounts_proofs` proves, for all people, households, ids, clients and
lifetimes: type correctness, `UsedMeansMember`, `MembersWereInvited`, `ResetRevokes`,
`FounderNeverResets` and `NobodyMoves`. A handler acts on what it read some statements
ago, so the invariant has to say what of that is still true at each statement. Two
facts carry it: users never change once they are there (`NobodyMoves`) and
invitations, sessions and tokens are only added or spent, so what a request read of
them stays true in one direction; and a household has one founder, so the members a
founder's link may be for were all invited. `Inv` is a conjunction with one part per
table (`UsersOK`, `SessionsOK`, `InvitesOK`, `MembersOK`, `TokensOK`, `ClockOK`) and one for the
requests under way (`RequestsOK`), which lists per statement what the request holds;
each action's proof disturbs one or two of them.

*Investments.* `InvestmentLedger_proofs` proves, for all investments, days, terms,
amounts, ids and clients and any number of requests on their way: type correctness, `TableSound`, `NoLiveChild`,
`EndedReadsZero`, `DepositInTerm`, `MaturesOnce`, `CloseRowAtEnd`, `OneSuccessor` and
`ReopeningRestores`. It assumes of the constants that a day is in a month, a month has a day,
NULL is not an id, and the amounts users record are not zero (that a recorded zero is
taken for a close row is PositionLifecycle's subject). The argument has three layers:

* A month of an investment is told by four facts: whether it is `Marked` (has a live
  snapshot), `Closed` (by a zero), what it `Reads` and what its close row `Owes`. For each
  statement there is a lemma (`WriteCells`, `RevertCells`, ...) that says what it makes of
  the one month it is about and that every other month is the `SameCell`; they
  rest on the stack of `CloseSnapshot_proofs`, and no proof above them looks at a row.
* `Fine(i)` is what the properties need of one investment, strengthened to be inductive:
  `MaturesOnce` also needs that an active investment has no maturity, or the next one would
  be a second; `CloseRowAtEnd` that the maturity of an ended one is dated in the month of
  its end, or an edit would leave the close row of another month behind; `DepositInTerm` that
  the transactions of a deposit are maturities. Each part holds of an investment that did
  not stray in the way the part names; `RequestsOK` says what a request on its way
  holds, whatever was committed since.
* A step is about one investment (`FocusInvestment`, `FocusTxn`, `FocusTable`,
  `FocusHistory`); `FocusInv` concludes the invariant from `Fine` of that one. Only links,
  deletions and creations are treated apart, for the rollover chain (`ChainFine`).

*Lifecycle, statement by statement.* `Lifecycle_proofs` proves of LifecycleTx, for all positions, months
and amounts and any number of transactions: type correctness, `TableSound`,
`TerminationReadsZero` and `BatchWhole`, whatever interleaving, rollback or broken ring of
waits. What a commit publishes was seen by its transaction some statements ago, so the
invariant cannot be about the committed table alone:

* `Good(v)` is what the properties need of a table: one live row a cell, and links that
  lead to an archived row of the same cell. It holds of the committed table *and* of every
  transaction's `View`, and no two transactions hold rows of one cell (`Apart`), which is the
  unique index and the row locks at work. Two such views of one table, of which one commits, leave a good
  view to the other (`Over...` lemmas, `GoodPut` for a statement that writes one row).
* `TerminationReadsZero` needs, from the statement that writes the close row to the commit,
  that the zero is still live in the transaction's own view; `BatchWhole` that what the
  batch has written and what it has yet to write are together what was asked.

*Backup.* `HouseholdBackup_proofs` proves, for households of any size and any number of
restores and erasures at a time: type correctness, `QuietFileRestores`, `OnlyRacesFail`,
`RestoreIsWhole` and `RestorerComesBack`. It assumes that NULL is neither a person nor an id,
and `RoomAssumption`. The invariant is `Inv == \E u : State(u)`. `u` is a table that says of
every id ever drawn which row it is: an id is never drawn twice and a row changes only its
tombstone, so the rows of the books, of an export under way and of a file are all rows of
`u`, and what refers to what can be told in `u` although the rows have been wiped in the meantime. Its
parts:

* `Known` and `Books`: references stay in a household and lead up, and every reference of a
  live database is kept. `Exporting` and `Exported`: what the sections read so far carry of the
  books, all of it if nothing was written since; so a quiet file is closed.
* of each transaction `Wiping` and `Loading`: how far it is, and that, unless something
  was written in between, it has deleted exactly the tables it is past (`Alone`); `Carrying`: the password it
  has stashed is still the caller's; `Apart`: no two of them have deleted the same row or
  loaded the same file, which is what row locks and foreign keys leave of
  two concurrent restores.

TLC checked it as an invariant before it was proved, with `u` as a history variable, on
instances with two and with three transactions.

*Refresh, statement by statement.* `CachedReports_proofs` proves of ReportRefresh, for all rows and months and
any number of reads and writes: type correctness and `OnlyRacesGoStale`. The argument
of the cache (`NothingOlderMissing`, `Steady`) holds here of the rows that are not
`raced`, once it is said

* of the clock (`Clocked`): no two transactions have one stamp;
* of rows (`Falling`, `Backed`): none is late, and they move only to earlier months;
* of the books (`Standing`): a snapshot is always left. Without one a read lists the cache
  unrefreshed, whatever is in it;
* of a read under way (`SeenRight`, `StampsRight`): the tables it has loaded are true to
  the books but for raced rows, and its watermark is of them;
* of a read about to list (`Shown`): why each month in the cache is right. A month may have
  been published by this read, found current by it, or pruned and written by other reads
  since. This is the part that is about several reads.

TLC checked the invariant on the run's configuration and on one with rate and parent rows.

*Household.* `HouseholdBooks_proofs` proves, for any number of positions of all kinds, any
currencies, rates, amounts and months: `ExpensesAreSpending`, `ReturnsAreGains`,
`PlacementIsNewMoney`, `NoFalseAlarm` and `PastIsSettled`. It assumes what the
module states of its constants (`BooksAssumption`): one account in the home currency, each
position of one kind and currency, amounts and rates integers.

* A figure is a sum over positions or rows, a fold. The library's induction theorems cannot be
  cited (they take an operator as a parameter), so the laws of sums are proved by least
  counterexample: among the subsets of a finite set at which a law fails there is one with no
  smaller (`LeastSet`, from the well-founded order of finite sets), and taking an element out
  of it contradicts that. What a sum is, is a function of the subset (`SumFunction`), and every
  law above rests on how it unfolds (`SumUnfolds`), on what one, two or three changed terms do to
  it (`SumOne`, `SumTwo`, `SumThree`) and on the sum of sums (`SumPlus`).
* Each figure of a month is then taken apart position by position (`ReturnIs`, `LivingIs`,
  `PlacementIs`, ...): what position `p` contributes is an operator of the few rows of `p`.
* `Inv == InTime /\ BooksOK /\ Ahead /\ Reported /\ Underway`. `BooksOK` says what the rows of each
  position are, `Ahead` that nothing has happened in months to come. The properties speak of
  months that are over; `Underway` is their strengthening for the month being lived, whose
  snapshots are not recorded yet: what was earned and not spent went *into* positions, at what
  they are worth now (`Balanced`). An event shifts both sides by the same (`Shifts`), which is one
  lemma per event; the turn of the month records `worth`, which makes `Balanced` the report.
* Settled months: a step adds rows that are dated in the month under way, and a position that
  ends keeps the rows it had. Books that `Agree` up to a month have the same report of it
  (`AlikeReport`, from a lemma per figure). Each event's lemma proves both, `Upheld`.

*Workbook.* `PositionWorkbook_proofs` proves, for all positions, forms, tags, months and amounts
and any number of writes: `RoundTrips`, `ResavingKeeps` and `OnlyRacesWearDeadTags`. It assumes
that NULL is no name, id, member or row (`NilAssumption`) and that a form has the fields
of its kind and an owner that was validated (`FormAssumption`); nothing of the ledger's dates.

* `LayersFit(kind)` says what the eight lists of columns have in common: every column is
  inserted, exported, read back and seeded; what is required is stored; an update asks for
  whatever it sets. It is proved kind by kind from PositionKinds (`AllFit`), and nothing above
  it looks at a column's name but the four with rules of their own (a deposit's two dates, a
  bond's type and disposition).
* The invariant: a position has what its create form requires, whatever updates came since
  (`ColumnsOK`); its readings and ledger are of its kind; if it matured, its ledger has the
  maturity (`EndOK`); live tags have names of their own (`TagsOK`, or the file's name of a tag
  would not find it); the file is the workbook of such a position, whose tag was alive
  (`ExportOK`); and a request on its way holds a tag that was alive and a file that validates
  (`JobOK`).
* The ledger leaves in one order, comes back in another and is stored with its maturity last.
  `Matches(b, l, k)` says that `b` is a bijection from the rows of `l` to those of `k` that keeps
  type and date; sheet and ledger match, seed and sheet match, and matching composes
  (`SheetMatches`, `SeedMatches`, `MatchesCompose`). From it follow the equal bags and maturities,
  and that each order of the original is one of the copy (`MatchedCosts`); if no two rows share
  a day, also the converse. The cost basis itself, a fold, need not be evaluated.
* `OnlyRacesWearDeadTags`: the users' other writes keep a tag or clear it (`WritesKeepTags`), the
  deletion of a tag clears its uses (`DeleteTagInv`), so only the second step of an assignment or
  an import is left.

*Only model-checked.* `EveryRequestEnds` and `EveryReadEnds`: liveness under fairness is out
of the prover's reach. Every other property of a passing run is proved. The two violations
are TLC's.

## 6. Not modelled

* The web client, e-mail, configuration: no state the properties speak of. HTTP
  decoding, routing and formatting keep none between requests; of the middleware only
  the date guard bounds what the repository is asked.
* List and detail reads, the detail of a position (`generatePositionDetail`, which shares the
  carry-forward and the conversion of the report), time series, the year-on-year and inflation-adjusted
  statistics, PDF rendering: projections of the tables that write nothing.
* The rate limiter: it delays a login and never changes its outcome. Its `evictExpired`
  forgets the failure count, though `recordFailure` says "then a flat 15m forever after".
* The format transforms of old backups and the demo household, which is reset table by
  table and not atomically; `sessions`, `invitations` and `monthly_reports`, which a
  restore wipes and does not load. ADR-0036 has the commit of a restore take a typed name;
  the handler asks for none.
* Cell formats and row-level messages of workbooks: a row parses or it does not. An
  export's statements are modelled as one step; they run outside a transaction, so a file
  read across a write may mix two moments.
* The amounts of a settlement and a bond's outstanding face: arithmetic over one input.
* The switch to several currencies is a check and an update in two statements; the joiner
  who is second with an empty `google_sub` collides with the first on the unique index.

## 7. What is left

1. Proofs that LifecycleTx implements PositionLifecycle, and ReportRefresh ReportPromise,
   but for the races section 4 names.
2. HouseholdBackup with the tables it stands for taken apart: sessions, invitations,
   transactions, tags and income as sections of their own.
3. The export of a workbook statement by statement, and the rebuilds of the report cache
   among refreshes.
4. In HouseholdBooks, reactivations and deletions of positions, a deposit's top-up at its
   rollover, and a currency before its first rate.
