# Verification of auditlog in TLA+

auditlog is a small Go server that keeps a tamper-evident operation log: every
entry carries the hash of the one before it, old entries are moved in batches
from an active table to an archive table, and the chain can be verified on
demand. This directory holds TLA+ models of its core, translated from the Go
code, the TLC runs that check them and the theorems TLAPS proves about them.

    tlc  -workers 2 -config MCAuditStore_safety.cfg MCAuditStore.tla
    tlapm AuditStore_proof.tla

`PROJECT.json` lists components, runs, mutants, the map from definitions to
source lines, findings, hazards and theorems.

## 1. The system

| component | state | operations | talks to |
| --- | --- | --- | --- |
| SQLite store (`internal/store/sqlite.go`, `migrate.go`) | tables `audit_entries`, `archive_entries`, `archive_batches`, `meta`; `writeMu`; one connection | Open/ensureGenesis, Append, Head, AllEntries, Entries, EntryByID, Stats, Archive, Batches, Batch, SetVerify, LastVerify | called by all services |
| hash chain (`internal/chain/hashchain.go`) | none | HashEntry, NewEntry | AuditService, ensureGenesis, Verify |
| AuditService (`internal/service/audit.go`) | none | Append = Head; NewEntry; Store.Append | store |
| ArchiveService (`internal/service/archive.go`) | `status` under `mu` | Trigger, Status | store |
| scheduler (`internal/worker`) | a ticker goroutine | Trigger on every tick, until `stop` | ArchiveService |
| chain.Verify (`internal/chain/verify.go`) | none | full, range, head, spot verification | VerifyService |
| VerifyService | `meta.last_verify` | AllEntries; Head; chain.Verify; Batches; SetVerify | store |
| TraceService | none | Context = EntryByID; AllEntries | store |
| filter and paging (`internal/store/store.go`) | none | filter, page, batchPage | store |
| migrations (`internal/store/migrate.go`) | `schema_migrations` | one transaction per schema version | Open |
| request model (`internal/model`) | none | Normalize, CanonicalJSON | handlers, NewEntry, HashEntry |
| configuration (`internal/config`) | none | Load = defaults, environment, flags; Validate | main |
| server process (`cmd/server/main.go`) | signal context | boot, signal, HTTP.Shutdown, exit | everything |
| HTTP API (`internal/api`) | none | one handler per route | services |
| report engine (`internal/report`) | none | Generate | nothing yet: no handler calls it |
| Memory store, front end | see section 8 | | |

What makes it hard:

- **Concurrency.** HTTP handlers, the ticker goroutine and the goroutines of
  `POST /archive` share one database connection and `writeMu`. Each SQL
  statement or transaction is atomic; every service operation is several of
  them, with anything in between. In particular `AuditService.Append` reads the
  chain head *before* `Store.Append` takes `writeMu`.
- **Failure.** The process can die between any two steps; a statement can fail
  in the middle of a batch; row iteration can end early in functions that do
  not look at `rows.Err`; the answer to a stored append can be lost. The
  machine can lose power, and then also what was committed but not synced.
- **Ordering.** A verification and every multi-query read combine answers from
  different moments.
- **Liveness.** Appends wait for the archiver; a trigger is dropped while
  another one runs; shutdown must end, although it waits for every client.
  Everybody waits for one connection, without a timeout.

The properties that make each component correct are listed with the runs in
section 4; the places they are aimed at are the `hazards` of `PROJECT.json`.

## 2. Modules

| module | models | state and actions |
| --- | --- | --- |
| `Chain` | `chain.HashEntry`, `chain.NewEntry` | pure. A hash is the tuple of what it covers (injective digest); the id is not covered. |
| `Ledger` | the promise of the store (abstract) | `ledger`, `acked`; `Extend`, `Acknowledge` |
| `AuditStore` | SQLite store and its writers | see below |
| `ArchiveService` (extends `AuditStore`) | Trigger, scheduler, API trigger, process life cycle | `running`, `lastBatchNo`, `lastError`, position of each goroutine, `draining`, `active` (connections whose client is sending a request or taking a response) |
| `ChainVerify` | `chain.Verify` | pure |
| `DamagedChain` (extends `ChainVerify`) | a log whose rows are altered, lost or forked while the program appends to it | `entries`; `AppendRow`, and one action per kind of damage |
| `VerifyService` (extends `AuditStore`, `ChainVerify`) | `VerifyService.Verify` on the running store | one action per database access |
| `DurableStore` (extends `VerifyService`) | `Open` with its migrations, crashes in it, power loss | `schema`, `opening` (the migration step), `disk` (the database as of the last synced commit); `OpenDatabase`, `Migrate`, `OpenReturns`, `OpenFails`, `Persist`, `PowerLoss` |
| `Connection` | who waits for the single connection and for `writeMu` | `call`, `at` (the operation of a goroutine and its next instruction), `conn`, `writeMu`; `Begin`, `Lock`, `Open`, `Close`, `Unlock`, `Fail` |
| `Paging` | `page`, `batchPage`, the arithmetic of `Batches` | pure, with wrap-around ints |
| `ReadApi` (extends `AuditStore`, `Paging`) | Stats, Context, batch export, single pages, filtered page walks on the running store | one action per query |
| `DigestInput` | `Normalize`, `CanonicalJSON`, the text `HashEntry` hashes, `scanEntry` | pure, over any alphabet |
| `Config` | `Defaults`, `Load`, `Validate` | pure |
| `ReportEngine` | `Generate` and its parts | pure |
| `ReportLog` (extends `ReportEngine`) | the logs a report is asked for | `entries`; one action per kind of row |
| `MCAuditStore`, `MCVerifyService`, `MCDurableStore`, `MCReadApi`, `MCReportLog` | values of constants and symmetry for TLC | |
| `AuditStore_proof`, `ArchiveService_proof`, `DurableStore_proof`, `Connection_proof`, `DamagedChain_proof`, `Input_proof` (of `DigestInput` and `Config`), `ReadApi_proof`, `ReportLog_proof` | theorems | |

`AuditStore` in detail. `auditEntries` and `archiveEntries` are the rows of the
two tables, `archiveBatches` the manifests, `lastId` the AUTOINCREMENT counter.
`pc[c]`/`pending[c]` are the progress of an append handler `c` and the entry it
carries. `archiveJob` is the set of rows `Archive` has selected; while it is not
empty `Archive` holds `writeMu`.

| action | code |
| --- | --- |
| `Start` | `Open`, `ensureGenesis` |
| `Crash` | process death, or exit: handlers and the archiver vanish, an open transaction is rolled back |
| `BuildEntry(c, body)` | `AuditService.Append` up to `Store.Append`: head read and sealing, no lock |
| `AppendCommit(c)` | `SQLite.Append`, successful |
| `AppendFail(c)` | UNIQUE violation, failed statement, cancelled request |
| `Reply(c)`, `LoseReply(c)` | the 201 response arrives, or not |
| `ArchiveSelect(n)` | lock, threshold checks, the SELECT of the surplus rows of which `n` arrive |
| `ArchiveCommit` | the transaction: insert rows, insert manifest, delete |
| `ArchiveAbort` | any failure after the selection; a key conflict always ends here |

`AuditStore` allows `ArchiveSelect` at any time; who triggers it, and that no
two goroutines do, is the business of `ArchiveService`. Each of its actions
contains an action of `AuditStore` or leaves the tables alone, so that what is
shown of `AuditStore` holds of it by construction.
`VerifyService` and `ReadApi` only read the tables, so everything shown of
`AuditStore` holds under them. `AuditStore` lets a waiter for the connection or
for `writeMu` go on when it is free; that this never blocks for good is the
business of `Connection`. `AuditStore` starts with its tables in place; that
every start leads there is the business of `DurableStore`, whose `OpenReturns`
is `Start` once all migrations are recorded.

Mutants. The operators commented `Mutant of ...` are deliberate mistakes, one
per property and run, used to check that the property can fail: replacing the
definition by the mutant makes TLC report the property violated. They are not
part of any specification.

## 3. Abstractions

- The business fields of an entry are one opaque `body`; validation
  (`Normalize`, `CanonicalJSON`) rejects before any state is touched and is a
  step that changes nothing. What it accepts is the matter of `DigestInput`.
- SHA-256 is injective, and a hash is the tuple of what it covers:
  `JoinInjective` proves of the joined text that it determines the fields.
  Time stamps are left out, except in the report engine, where event times are
  what counts.
- A filter is the set of bodies its actor, action and target select, and a range
  of positions. Its time bounds are left out: no handler sets them.
- `LastVerify`, the third query of Stats, is a step (`StatsLastVerify`) whose
  result is left out: `ReadApi` runs no verifications.
- Archive writes back the rows as `scanEntry` read them. That is the row that
  was selected, unless its event time is before the year 0 (section 7).
- `payload_hash` (the hex form of the JSON of the rows) determines the rows, so
  the manifest records the set of rows.
- A table is a set of rows. `AllEntries` is their union; that no row is in both
  tables, so that `UNION ALL` lists nothing twice, is part of `IdUnique`. Where
  two rows share a position, `ORDER BY seq` may list them in either order: the
  readers choose nondeterministically.
- A process crash loses nothing that was committed: the operating system still
  has it. A power loss (`DurableStore`) puts the database back to what it was
  after the last commit that reached the disk; the frames of the WAL are
  checksummed in sequence, so it is always the state after *some* commit. That
  SQLite keeps this promise is taken from its documentation.
- `Connection` looks at nothing but the order in which an operation asks for the
  connection and for `writeMu`; a path that returns early gives back what it
  holds (`Fail`).

## 4. Runs

| run | question | instance | states |
| --- | --- | --- | --- |
| `store_safety` | Whatever appends, batches, crashes and restarts do: no hole (`NoGap`), the archive is one intact chain (`ArchiveIsChain`), ids stay unique and no row is in both tables (`IdUnique`), manifests partition the archive into linked segments (`BatchesLinked`), the head stays in the active table (`HeadStays`), a forked log is never archived further (`ForkFreezesArchive`), only an append at a position archived behind its back forks it (`ForkNeedsLateAppend`), the store implements the ledger (`ImplementsLedger`); `IInv` is the invariant the proofs use | 2 handlers, 2 bodies, threshold 2, keep 1, 5 positions, symmetric | 378 000 |
| `store_fork` | *Violated:* are positions unique? | 2 handlers, 3 positions | |
| `verify_exact` | What each mode of `chain.Verify` reports: the first broken row in scope, how many rows it checked (`ReportExact`); a full verification is `ok` iff altered rows are still one chain (`AlterationDetected`); `DamageInv` is the invariant the proofs use | logs of up to 4 positions, grown row by row, 2 bodies, up to 3 damages, window 2 | 387 000 |
| `verify_race` | With writers running, over crashes, interrupted migrations and power losses: never a false break (`NoFalseBreak`), `ok` covers every position up to the reported head (`OkCoversHead`), a head mismatch means growth (`MismatchMeansGrowth`), a batch reported as linked is an intact segment (`LinkedBatchesIntact`); `DInv` is the invariant the proofs use; the recorded version tells exactly which migrations are done (`SchemaWhole`); a power loss takes the newest rows only, from both tables together (`LossIsTail`) | 2 handlers, 3 positions, one request of each mode, symmetric | 2 010 000 |
| `verify_alarm` | *Violated:* is an intact log always `ok`? | 1 handler | |
| `durable_loss` | *Violated:* does every acknowledged row survive a power loss? | 1 handler, 2 positions | |
| `archive_live` | One archiver at a time and an exact `running` flag (`OneArchiver`), a truthful status (`StatusTruthful`); a signalled process ends if every client gets done (`ShutdownOnceServed`), a trigger returns (`TriggerReturns`), an append that reached the store returns (`EveryAppendReturns`), a full table is drained although triggers are dropped (`BacklogDrained`); `AInv` is the invariant the proofs use | 2 handlers, 1 other connection, ticker and 1 API trigger, threshold 2, keep 1, 3 positions | 74 000 |
| `archive_stall` | *Violated:* does a signalled process end, whatever the clients do? | 1 handler, 1 other connection | |
| `archive_shutdown` | *Violated:* does shutdown wait for the batch? | 1 handler | |
| `connection_live` | No circular wait for the connection and `writeMu` (`NoHoldAndWait`); every call returns, whoever else waits, fails or is cancelled (`EveryCallReturns`) | 3 goroutines, each in any of 6 operations | 27 000 |
| `read_race` | Stats, Context, export and filtered page walks during writes, on forked logs too: counts and head fit (`StatsConsistent`), a moved entry is found with its neighbours (`ContextFound`), an export is its segment (`ExportExact`), a page of any number holds just its rows (`PageExact`), a walk misses nothing it promises and repeats nothing (`WalkComplete`, `BatchWalkComplete`, `ActiveWalkOrdered`); `RInv` is the invariant the proofs use | 2 handlers, 4 positions, threshold 2, page size 2, pages 2 and 9 out of turn, 3 filters, symmetric | 771 000 |
| `report_exact` | A report counts every row it was asked for in exactly one bucket (`TimelineComplete`), ranks the most active actors, actions and targets (`RankingExact`), lists every risky row, the gravest first (`RisksExact`), and says continuous iff its rows are an unbroken piece of a chain (`IntegrityExact`) | logs of up to 4 rows, 4 contents, up to 2 damages, 32 requests | 10 600 |

Bounds. A fork needs two handlers, a batch between head read and insert, and
three positions; five positions allow two more batches after it, so a forked
log that could still be archived would be seen. Two bodies distinguish a fork
from a duplicate. Threshold 2 with keep 1 is the smallest legal policy and the
one with the least protection of the head. In `DamagedChain` three damages reach
an alteration that is resealed together with its successor, and appends behind
any damage reach a row that follows an altered or lost one. Four positions in
`read_race` give three batches, hence two pages of them, and a fork with a batch
before it. `Paging` is instantiated with ints up to 15 in `ReadApi`, so that the
offset of page 9 overflows; its arithmetic is proved for all. One connection
next to the handlers is enough to keep a process alive, and to bring a request
that arrives after the signal. Four rows in `ReportLog` give a list whose time order differs
from its log order at both ends, a tie in the ranking and a limit that cuts; one
request starts so long ago that durations saturate. Three positions in
`verify_race` allow two batches and an append on top, and a power loss that
takes a batch back while the verification holds rows of both tables. Three
goroutines in `connection_live` are a holder of `writeMu`, a holder of the
connection and a third that may overtake; the theorems hold for any number.
Symmetry is used in `store_safety`, `verify_race` and `read_race`, which check
no liveness. All
counters are bounded by `MaxSeq` alone: ids and batches grow only with entries.
Deadlock is checked except in `DamagedChain` and `ReportLog`, whose logs are
finite.

## 5. Fairness

Fairness is assumed in `ArchiveService` and `Connection`.

- `AFairSpec`: goroutines that can run do run, the ticker keeps ticking, main
  returns once no request is in progress. A waiter for `writeMu` gets it (`sync.Mutex` hands the lock over to a waiter starved
  for 1 ms), so the steps behind the lock are strongly fair; the archiver makes
  no blocking call while it holds it, so committing or aborting is weakly fair.
  Nothing is assumed of clients, of crashes or of the signal: no read or write
  timeout is set (`server.go:31`), so a client can keep a connection busy for
  ever.
- `ShutdownOnceServed` has the premise `ClientsFinish`: every client sends its
  request to the end and takes the response, or breaks the connection. Without
  it the shutdown need not end (`archive_stall`).
- `BacklogDrained` has one more premise, `BatchesGetThrough`: a whole batch that
  may be selected and committed infinitely often is: not every single attempt
  meets an I/O error, a crash or a signal.
- `Connection!FairSpec`: taking `writeMu` and the connection is strongly fair,
  because `sync.Mutex` hands over to a starved waiter and `database/sql` gives a
  released connection to one of its waiting requests; giving them back is weakly
  fair. Nothing is assumed of failures or of new requests.

## 6. What is proved

`AuditStore_proof` proves, for every set of clients and bodies, every legal
policy and every bound:

| theorem | statement |
| --- | --- |
| `Invariance` | `Spec => []IInv` |
| `TypeCorrect`, `NoGapCorrect`, `ArchiveCorrect`, `IdsCorrect`, `BatchesCorrect` | the invariants `TypeOK`, `NoGap`, `ArchiveIsChain`, `IdUnique`, `BatchesLinked` |
| `HeadCorrect`, `FrozenCorrect`, `ForkCorrect` | the action properties `HeadStays`, `ForkFreezesArchive`, `ForkNeedsLateAppend` |
| `LedgerCorrect` | `Spec => ImplementsLedger`, the refinement |
| `SingleWriterUnique` | `SeqUnique`, if there is at most one client |

Assumptions: `KeepMin` and `Threshold` are naturals with `1 <= KeepMin <
Threshold` (`config.Validate` refuses the rest), the genesis body is no client
body, `MaxSeq` is a positive natural.

The argument. `ArchiveIsChain` is not inductive: nothing in it says why a batch
fits on the archive. `IInv` adds `ArchivedUpTo`, the last archived position:
the archive is exactly the positions `1 .. ArchivedUpTo`, once each
(`ArchiveInv`); the manifests cut it, in order, into the segments whose rows
carry their number (`BatchInv`); the active rows have no hole above it and the head is above it
(`ActiveInv`); every row follows a stored row (`LogInv`), and so will every
entry a handler carries, however stale (`ClientInv`); the selected rows are a
prefix of the active table without the head (`JobInv`). The heart is the lemma
`CommittedBatch`: a late append at an archived position is below every other
active row, so it is in every batch that is selected, and UNIQUE(seq) of
`archive_entries` fails that batch. Hence a batch that commits contains exactly
the active rows from `ArchivedUpTo + 1` on. That also gives `FrozenCorrect`, and
that each manifest begins where the one before it ends.

`IInv` is stated in two parts: `StoreInv`, of the store and those who are about
to write to it, and what was acknowledged. `StoreInv` does not mention
`replied`, because a power loss makes acknowledgements untrue (finding 5) and
nothing else; `StoreInvariance` proves it by itself, for the modules that
extend `AuditStore`.

`ArchiveService_proof` proves, for any set of API triggers:

| theorem | statement |
| --- | --- |
| `AInvariance`, `ATypeCorrect` | `AInv`, `ATypeOK` |
| `OneArchiverCorrect`, `StatusCorrect` | `OneArchiver`, `StatusTruthful` |

`StoreInv` comes along (`StoreSteps`): the actions are made of those of
`AuditStore`. `StatusTruthful`
is not inductive: it speaks of the status once a batch is recorded, and between
the commit and the recording the status is one batch behind. `StatusInv` says
by how much (`Unrecorded`), and that only the one goroutine that archives can
be there.

`DurableStore_proof` proves, for any set of requests:

| theorem | statement |
| --- | --- |
| `DInvariance`, `VTypeCorrect` | `DInv`, `VTypeOK` |
| `SchemaCorrect` | `SchemaWhole` |
| `LossCorrect` | the action property `LossIsTail` |
| `NoFalseBreakCorrect`, `OkCorrect`, `MismatchCorrect` | `NoFalseBreak`, `OkCoversHead`, `MismatchMeansGrowth` |
| `LinkedCorrect` | `LinkedBatchesIntact` |

`DInv` has four parts. `StoreInv` of the running store. `VerifyInv`: the rows a
verification has read are in the log still, sorted, each with the row it
follows and with every position below it (`ReadInv`); the head it read later is
not below them (`ReportInv`); the batches it read are batches for ever
(`SeenBatchesInv`). `OpenInv`: which migration is next. `DiskInv`: the file is
itself a store (`OnDisk`, an instance of `AuditStore`) that satisfies the table
invariant, its rows are rows of the log, and every other row of the log has a
higher id; so what a power loss takes is a tail. Two facts carry the rest. The
lemma `SortedRows` shows that `ORDER BY seq` lists each row once, from
`OrderTotal` and a counting argument (`RanksExact`). `VerifyIntact` shows that
`chain.Verify`, in any of its modes, finds nothing in what was read from an
intact log: whatever `FindSeq` selects, the row before it in the list is the
row it follows. Since rows are never removed, a log without a fork now had none
at any earlier read. The result a power loss leaves in the
file is the one that was stored when the file had the rows it has, so it is
still true of them.

`Connection_proof` proves, for any number of goroutines, `HoldingsByPosition`
(who holds the connection and `writeMu` can be read off the instruction each
goroutine is at), from it `NoCyclicWait` (the invariant `NoHoldAndWait`) and
`DeadlockFree`: while any call is in progress, some goroutine can step. The
argument rests on one lemma about the operations as the code writes them
(`AllDisciplined`): each closes a query before the next, locks `writeMu` at most
once, with no query open, and gives it back last.

`Input_proof` justifies the abstraction of `Chain`, over any alphabet.
`JoinInjective`: the text that is hashed determines all seven fields, although
`prev_hash` is not checked for the delimiter and may hold any number of it; the
first delimiter ends the position and the last five end the fields behind
`prev_hash`. `AcceptedIsHashable`: what `Normalize` accepts `HashEntry` never
refuses, before and after the row has been stored; a detail that was left out
or is blank is accepted, and stored as `{}`. `ReadBackVerifies`: a row
that is read back hashes as it was sealed exactly if its event time is not
before the year 0 (see section 7). Their hypotheses are what is known of the
libraries: `FormatsInjective` (the decimal and the RFC 3339 forms determine
their values and hold no delimiter) and `CanonicalStable` (writing canonical
JSON again changes nothing).

It also proves `AcceptedPolicy`: whatever the environment and the flags hold,
a configuration that `Load` accepts satisfies `PolicyAssumption` of `AuditStore`
and gives the ticker a positive interval.

`ReadApi_proof` proves, for any filters, page sizes and radius:

| theorem | statement |
| --- | --- |
| `WindowValid` | for every list length, every int page number and every page size the slice bounds are valid, because the page is compared with the number of pages before it is multiplied |
| `PageCorrect` | `PageExact` |
| `RInvariance` | `RInv` |
| `StatsCorrect`, `ContextCorrect`, `ExportCorrect` | `StatsConsistent`, `ContextFound`, `ExportExact` |
| `WalkCorrect`, `BatchWalkCorrect`, `ActiveWalkCorrect` | `WalkComplete`, `BatchWalkComplete`, `ActiveWalkOrdered` |

`RInv` says, next to `StoreInv`, what a request holds between its queries and
that no answer becomes untrue afterwards. For a walk this is the matter of
`EntryWalkInv` and `BatchWalkInv`. Of the entries: call *passed* what the list
now holds up to the last position delivered. All that is passed was delivered,
if the list is the whole log; and in either list no more is passed than was
delivered. The second half is what makes paging by offset sound:
the next page begins at the number of rows delivered so far, hence behind all
that is passed. Appends enlarge the list behind it, and batches only take rows
out of the active list in front, so it survives every step of the store. In a
log that forks during the walk an append may enter below; `WalkComplete` and
`ActiveWalkOrdered` speak of unforked logs. The batches are served newest
first, so new ones are put in front: the pages delivered are at least the newest
batches among those that were there at the start. `LengthAssumption` says that
an int holds the length of every list plus one page; the length is bounded by
a counting lemma: in each table there is one row per position (`OnePerPosition`).

`DamagedChain_proof` proves, for any bodies, length of the log, number of
damages and size of the window of a head verification:

| theorem | statement |
| --- | --- |
| `DamageInvariance` | `DamageInv` |
| `ReportCorrect` | `ReportExact`, for every mode and request |
| `AlterationCorrect` | `AlterationDetected` |

`DamageInv` is what no damage can take from a log: its rows are sorted by
position, no id is given twice, and the n-th row is at position n unless one
was lost or added. On a log without a fork the positions then rise strictly
(`UnforkedRising`), and the rest connects what `Verify` does with indices and
what `ReportExact` says of positions: the number of rows above and below a row
are counted from its index (`RowsAround`), so that `SelectEntries` selects what
the request is about (`ScopeExact`); `FindSeq` finds the row at a position
(`FindSeqExact`), so that the body of the loop accepts a row iff it is not
`Broken` (`StatusExact`); the first index that is not accepted is the lowest
broken position. `ChainIfUnbroken` turns the same into `IsChain`.

`ReportLog_proof` proves, for every log, every request and every policy:

| theorem | statement |
| --- | --- |
| `IntegrityCorrect` | `IntegrityExact` |
| `RisksCorrect` | `RisksExact` |
| `RankingCorrect` | `RankingExact` |
| `TimelineCorrect` | `TimelineComplete` |
| `ScoreExact` | for every number of entries per level the risk score lies in 0..100, is 100 iff all entries are critical, and the cap in `riskScore` never cuts anything |

All four parts sort. `SortExact` says once what a sort returns, for any list and
any comparator that is a strict weak order (`WeakOrder`, proved of each of the
four comparators of the code): the selected elements, each once, none before one
the comparator puts in front of it. It rests on `PlacesExact`: in a total order
of n elements, which the comparator is with ties broken by index, the elements
have 0, 1, .., n - 1 others before them. `CountArranged` then turns what the code
counts in sorted lists into numbers of rows of the log. `SelectedExact` applies
both to the rows a report is about; the parts build on it:

- Integrity: neighbours by position follow each other iff no two rows share a
  position and each but the first has its predecessor (`ContinuousExact`).
- Risks: the level of the code is the gravest list the row is on
  (`GravityExact`), so the counts per level are disjoint parts of the rows, as
  `ScoreExact` requires.
- Rankings: the rows of a name lie between the first and the last of them, since
  the selection is sorted by time (`RankExact`); a name that is cut off is
  behind every listed one, and so has no more rows.
- Timeline: a quotient is the number of the interval a dividend lies in
  (`DivInterval`), start and end are multiples of the bucket (`TruncateExact`),
  and a row that is not too late for a Duration lies in no bucket behind the
  last, saturated or not (`SpanExact`).

`ReportAssumption` and `InputAssumption` are what the proofs assume: the types of
the fields of requests and rows, and of the constants of `engine.go` and
`types.go`.

Only model-checked: all liveness, that is `ShutdownOnceServed`, `TriggerReturns`,
`EveryAppendReturns`, `BacklogDrained` and `EveryCallReturns` (fairness and
ENABLED are out of the prover's reach). Every other property of the runs that
pass is the statement of a theorem.

## 7. Findings

1. **Forked chain** (`store_fork`). `audit.go:20` reads the head outside
   `writeMu`; UNIQUE(seq) is per table. Two overlapping appends and one batch
   between head read and insert put two rows at one position. After that no
   batch ever commits again (proved: `FrozenCorrect`).
2. **False alarm** (`verify_alarm`). `verify.go:17-21` reads the entries, then
   the head; an append in between is reported, and stored, as `head_mismatch`.
3. **Shutdown does not wait** for the current batch (`archive_shutdown`). Safe,
   as the batch is one transaction, but not what docs/01 9.3 says.
4. **Acknowledged entries and power loss** (`durable_loss`). Under
   `synchronous=NORMAL` a commit is not synced; docs/01:354 says that no commit
   is lost. What is lost is a tail, so the chain that is left is intact, and
   `verify` says `ok` of it.
5. **A shutdown may never end** (`archive_stall`). `HTTP.Shutdown` gets a
   context without a deadline (`main.go:43`) and the server has no timeouts
   (`server.go:31`): a client that stalls keeps the process alive, its ticker
   running. docs/01:409 gives it 30 s.

Two more things the models show, without a run of their own:

- **Failures of the storage answered with 200** (docs/03:317 has 500 for them).
  Stats drops an error of `Head` and says `head_seq` 0 (`sqlite.go:142`). `Batch`
  and `Batches` do not look at `rows.Err`: an export lacks rows (`sqlite.go:255`,
  against docs/03:287), and a page of batches is short, which a client takes for
  the last one (`sqlite.go:231`). `Verify` drops an error of `Batches` and
  reports no batch, and never more than 200 (`verify.go:26`, against docs/01:462).
  The models take all these paths. `StatsConsistent`, `ExportExact` and
  `BatchWalkComplete` say that nothing else shortens an answer; they do not say
  that a client can tell, because it cannot.
- **Lost rows pass.** An entry without predecessor is compared with its own
  `prev_hash` (`chain/verify.go:24`, against docs/01:238), so a full verification
  of a log with a hole says `ok`. `ReportExact` states what it compares;
  `DamagedChain` loses rows.

Further differences between docs and code that no property states: a batch is
called linked whether or not its rows were verified (`verify.go:32`, docs/01:454;
`LinkedBatchesIntact` says that it is true all the same, in a forked log too);
readers do block writers, as there is one connection (`sqlite.go:27`,
docs/01:353); `BEGIN IMMEDIATE` (docs/01:147) is not used; `GET /entries` never
parses `from` and `to`, and `GET /trace/report` takes the actor only (docs/03:302);
verifications and archive batches append no audit entry of their own;
`payload_hash` is the hex of the JSON, not a digest; `last_archive_at` is never
set; `last_batch_no` is 0 after a restart until the next batch; status 409 is
never used; `max_age_days` is read but not used. A report over a filtered
selection shows sequence gaps on an intact log: `IntegrityExact` states what the
field means, no document says otherwise.

Two more edges. `Normalize` accepts any past event time; one before the year 0
(in UTC) is written with a sign that `time.Parse` refuses, `scanEntry` drops the
error (`sqlite.go:290`), and the unaltered row verifies as `hash_mismatch`
(`ReadBackVerifies`). Archive reads it in the same way and writes the zero time
to `archive_entries`: from then on the row is changed for good. `AuditStore`,
which has no event times, moves rows as they are. `time.Time.Sub` saturates at 292 years: a report whose
window starts earlier counts all later rows in its last bucket, which does not
hold them (`aggregate.go:108, 121`; `TimelineComplete` says that no other
timeline is wrong).

## 8. Not modelled

- **Memory store**: only `pagination_test.go` constructs it. It has no genesis
  row, no unique keys and cannot fail, so it is no second implementation of
  what the server promises.
- **Routing, authentication, panic recovery, JSON, static files, front end**:
  I/O without state of their own.
- Of the report engine: percentages and averages; cancellation; the CSV form.
- Databases of older schema versions (docs/01 8.2) occur only as starts that were
  interrupted: this repository has no code that wrote one.
- Retries after a lost response store an entry twice; requests carry no identity
  that would let a property tell a retry from a second operation.

## 9. Plan

Done: the core (`Chain`, `Ledger`, `AuditStore`), its services
(`ArchiveService`, `VerifyService`), verification (`ChainVerify`,
`DamagedChain`), opening and power loss (`DurableStore`), the connection
(`Connection`), the readers with filters (`Paging`, `ReadApi`), the hashed text
and the configuration (`DigestInput`, `Config`), the report engine
(`ReportEngine`, `ReportLog`); the proofs of the core, of the archive service,
of verification on the running store, of
opening and power loss, of verification on damaged logs, of the readers, of the
connection, of the hashed text and of the configuration, and of the report
engine.

Left, should the code begin to use them:

1. The CSV form of a report (`export.go`), its percentages and averages, once a
   handler serves reports.
2. The time bounds of a filter, once a handler sets them.
