# A TLA+ development of BigBrotr

BigBrotr archives the Nostr network: it discovers relay URLs, decides which of
them are relays, monitors them, and copies every event they hold into
PostgreSQL.  Each service is an asyncio program in its own container
(`src/src/bigbrotr/__main__.py`, `src/deployments/*/docker-compose.yaml`,
`restart: unless-stopped`).  Services never call each other: they share the
database, and the database outlives all of them.

The modules here model what the archive's correctness rests on: how events are
fetched from relays that truncate, lie and change; how they and the position in
a relay are stored so that a crash loses nothing; how a URL is spelled, tested
and becomes a relay while several processes write the same rows; how relays are
monitored and jobs answered; and how a service process, its connection pool and
the stored procedures behave when statements fail, are retried or race.

Paths below are relative to `src/src/bigbrotr/` unless they start with `src/`.

## 1. Inventory

| Component | State | Operations | Hard behaviour |
|---|---|---|---|
| Event streaming (`utils/streaming.py`) | stack of window bounds, current window, events under verification | fetch a window, boundary fetch, probe, split, yield | the relay truncates newest first, changes between two fetches, may send anything, may be slow |
| Synchronizer (`services/synchronizer`) | cursors in `service_state`, event buffer, pending cursors | read cursors, stream all relays concurrently, flush buffer and cursors in chunks, deadline, cleanup | crash or error between chunks; events of many relays in one buffer; workers run during a flush |
| `_iter_concurrent`, `NetworkSemaphores` (`services/common/mixins.py`) | task group, unbounded queue, counter of finished workers | run one worker per item, consume results | order of completion, early exit of the consumer |
| Candidate queries (`services/common/queries.py`) | none of their own | `_filter_new_relays`, `insert_relays_as_candidates`, `batched_insert`, `upsert_service_states` | check and upsert in two transactions; chunks |
| Validator (`services/validator`) | candidates in `service_state`, page, verdicts | cleanup, fetch a page, probe, promote, fail | stale counters, crash between insert and delete, refetch loop |
| Seeder (`services/seeder`) | none | insert seed relays as candidates or as relays | races with Finder and Validator |
| Finder (`services/finder`) | API checkpoints and event cursors in `service_state` | scan APIs, scan stored events, insert candidates | checkpoint saved before its results; rows that appear behind a cursor |
| Service loop (`core/base_service.py`, `__main__.py`) | shutdown event, counter of consecutive failures, exit code | start, run a cycle, wait, stop | error boundary, failure limit, signal at any moment |
| Monitor (`services/monitor`) | per-relay checkpoints, chunk of results, publish checkpoints | check relays in chunks, publish, insert metadata | retries, publish before store, partial results |
| Clients (`services/common/mixins.py`) | dict of connected clients | `get`, `get_many`, `disconnect` | two workers connecting the same relay |
| DVM (`services/dvm`) | ids of processed requests, last fetch time | fetch jobs, answer | deduplication at its limit, failure after a job is marked |
| Refresher (`services/refresher`) | none | refresh each view | one failure must not stop the rest |
| API and catalog (`services/api`, `services/common/catalog.py`) | discovered tables, request counters | read-only queries with parsed filters and sort | input that the database rejects only when it executes |
| Pool and Brotr (`core/pool.py`, `core/brotr.py`) | pool, connected flag | connect with retries, statements with retries, typed inserts | retry of a statement that was committed |
| Protocol and tests (`utils/protocol.py`, `nips/nip11`, `nips/nip66`) | redirected stderr, clients | handshake, connection with fallback, RTT, NIP-11, HTTP, certificate, DNS, location | concurrent tests, cancellation at any await, verdicts read off exceptions |
| Relay URLs (`models/relay.py`) | none | sanitize, detect the network, construct | many spellings of one endpoint |
| Transport adapter, other models, logging, metrics, configuration | none shared | adapters, records, counters | none that a model would show |
| SQL functions (`src/deployments/*/postgres/init`) | tables `relay`, `event`, `event_relay`, `service_state`, ... | upserts, cascading inserts, views | each call is one transaction |

What makes each part correct: a stream is ordered, filtered and complete; a
cursor never passes an event that is not stored and the archive catches up once
faults stop; a discovered URL is never lost, only answering URLs are promoted,
every candidate is decided; a checkpoint never stands for results that can
still be lost and no relay is starved; every client that was opened is closed;
one endpoint has one URL; a test reports what it observed; a job is taken up
and not answered twice; a statement that is retried acts once; junction rows
keep their parents; the loop stops when told to and gives up after the
configured failures.

`PROJECT.json` lists the hazards at their lines.

## 2. Modules

| Module | Models | Uses |
|---|---|---|
| `EventOrder` | the order (created_at, id) of all cursors and sorts | |
| `OrderedDelivery` | what `stream_events` promises its consumers | `EventOrder` |
| `StreamEvents` | `utils/streaming.py` over an external relay | `EventOrder`, refines `OrderedDelivery` |
| `Synchronizer` | `services/synchronizer`, `_iter_concurrent`, the flush queries | `EventOrder`; its streams are those of `OrderedDelivery` |
| `CandidateLifecycle` | Seeder, Finder (insertion), Validator over shared tables | |
| `FinderScan` | the Finder's API and event scans with their checkpoints and cursors | `EventOrder` |
| `Archive` | the tables and stored procedures behind `core/brotr.py`, as functions on a database state | |
| `ServiceProcess` | `__main__.py`, `core/base_service.py`, `core/pool.py`, the Refresher's sequence of calls | `Archive` |
| `MonitorCycle` | `services/monitor`, `Clients` and `GeoReaders` of `services/common/mixins.py` | |
| `Catalog` | `services/common/catalog.py` as its callers see it | |
| `DvmJobs` | `services/dvm` | `Catalog` |
| `RelayUrl` | `models/relay.py`: spelling and network of a relay, as pure operators with a reference definition | |
| `RelayProbe` | `utils/protocol.py` and the tests of `nips/nip11` and `nips/nip66` | `RelayUrl` |
| `MC*` | instances for TLC | |
| `*Proofs` | theorems checked by TLAPS | |

Operators whose comment begins with "Mutant" are variants of the definition
that follows them, each a plausible bug; `PROJECT.json` pairs each of them with
a property that detects it.  They take no part in any specification.

### StreamEvents

`stream_events` is a generator; `pc` is where it is suspended.  `until_stack`,
`current_since`, `events`, `min_ts` are its locals of the same names.
`_fetch_validated` is one `Receive` step per filter (`filter`, `fetched`), used
for the window, for the boundary fetch of `_try_verify_completeness` and for its
probe with limit 1.  The yield loop is one `Yield` per event, since the consumer
runs (and may store a cursor) between two of them.  `FetchError` is an exception
of nostr-sdk, `IdleTimeout` the check at the head of the loop; it needs a fetch
since the last yield because nothing else takes time.

The relay is external.  `RelayKind` fixes what it may answer: "honest" answers
with the newest matching events up to its own cap (ties broken freely), "slow"
may be cut off anywhere by the client's receive timeout, "arbitrary" sends any
set of events.  The store of the first two changes at any moment
(`RelayChange`); the ghost `promised` holds the wanted events it has had since
the stream was opened.  Events are pairs; serialization, signatures and the
size check are the constant sets `Authentic` and `Unstorable`.

Completeness is stated under `SparseSeconds`: no second holds more events than
one answer carries.  A denser second is truncated silently; the comment at
`utils/streaming.py:246` accepts that.

### Synchronizer

`phase` is where `run_forever` and `synchronize` are; `worker`, `from`, `until`,
`last` belong to the workers.  A `Cleanup` is `delete_stale_cursors`, a
`FetchCursors` reads the cursors and starts the task group.  Workers yield into
`queue` at any time, also while the consumer is inside `InsertChunk` (one
transaction of `batched_insert`) or `UpsertChunk`.  `Deadline` is the break on
`max_duration`, at which workers and queue are dropped; closing the abandoned
generators is treated as immediate.  `DbError` is an exception that ends the
cycle in `run_forever`, `Crash` a killed process; neither touches the tables.
Giving up after `max_consecutive_failures` looks, to this model, like `Crash`.
`Shutdown`, `Stop`, `Restart` are SIGTERM and the container's restart policy.

What a relay holds is the constant `History`: an event published later with a
`created_at` below the cursor is not fetched by the code and is outside the
properties.  No service deletes relays, so a relay that the operator removes and
adds again is not modelled either.

### CandidateLifecycle

Rows of `service_state` are `candidate`, `failures`, `age`.  A timestamp is
modelled by its age, saturated at `Interval + 1`, because the code only compares
it with the retry interval and with other rows; beyond saturation the order
between rows is arbitrary.  Inserters hold the result of the SELECT (`new`) and
the time they took (`new_age`) until their chunks are upserted; several hold the
same URL when their SELECTs precede each other's upserts.  The constant `Inserter`
is the Seeder and the Finder, which the deployment runs side by side
(`src/deployments/bigbrotr/docker-compose.yaml:207-272`); with `to_validate` off
the Seeder writes to the relay table instead.  `resets` counts how often the
failures of a row went back.  The Validator
is a sequence of transactions and probes (`pc`): `DeletePromoted`,
`DeleteExhausted`, `StartCycle` (which fixes `attempted_before`, kept as the set
`due`), then pages: `FetchCandidates`, one `Probe` per candidate in any order,
`PromoteInsert`/`PromoteDelete`, `FailCandidates`.  `ValidatorFails` is an
exception that ends the cycle or a restart.  Candidates on networks that are not
enabled are those outside `Enabled`.

### FinderScan

`pc` follows `cleanup`, `find_from_api` and `find_from_events`.  The sources past
their cooldown are `todo`; answers collect in `buffer` and `fresh` (the pending
checkpoints with their age), and are written as the code writes them: first the
checkpoints, then the URLs.  In the event phase each relay's worker fetches pages
(`FetchPage`), yields their rows to `queue`, and the consumer flushes URLs before
cursors.  `size` counts the buffered URLs with repetitions, as `len(buffer)`
does.  HTTP, JMESPath and tag parsing are the constant functions `Lists` and
`Mentions`.  Ages saturate at the cooldown, where a missing checkpoint starts.

The Synchronizer's inserts are `RowsCommitted`: `seen_at` is taken when the
consumer receives an event, the row is committed with its batch, so rows of a
relay appear in the order of their seconds.  `SplitSeconds` says whether the rows
of one second may appear in several transactions.  They may; the passing run
excludes it and the run `finder_late` shows what it does.

### Archive and ServiceProcess

`Archive` is a library of pure operators: a database is a record of tables, a
stored procedure a function from database to database, and a `Brotr` call a
record that `Apply` interprets, with its cascading and non-cascading forms and
the checks that make it raise.  A procedure runs in one transaction, hence one
step.  The exception is an orphan clean-up: its DELETE selects with the snapshot
it starts with and deletes later, so it is two steps (`BeginCleanup`,
`EndCleanup`) between which other sessions commit.  No service calls it; an
operator does.

`ServiceProcess` follows one process from `Pool.connect` to its exit.  A cycle
is any sequence of up to `MaxCalls` calls from `Calls`, which is what `cleanup()`
and `run()` of every service come down to at this level; `alone` and `before`
remember whether another process wrote since the call began and what the tables
were then.  A statement may be committed and still fail with a connection error,
after which `_execute_with_retry` runs it again.  The refreshes of the Refresher
are calls whose failure does not end the cycle.  Signals, SIGKILL and restarts
come at any moment; `history` keeps the outcomes of the last cycles.

### MonitorCycle

`phase` follows `run()`: databases, readers, periodic events, the list of due
relays, then chunks.  A worker is a record `task[r]` (`run()` itself is
`task["main"]`, since it publishes through the same pool): queued for its
network's slot, checking (one attempt of one test at a time, `Attempt`, with
retries), connecting to a publishing relay, sending, yielded.  `cache` is the
`Clients` object with the connections that are really open; a connection is an
await, so two workers may both find the cache empty.  `displaced` records a
client that the second one overwrites.  What a check got stays in `task[r].got`
whether the worker yields it or an exception makes it yield `None` ("raised"), so
that properties can speak of data that was dropped.  Metadata and checkpoints are
written in batches, one transaction each.  The environment may fail a download, a query or
a publication, raise any exception in a worker, delete a relay, shut the process
down or kill it (`MaxFaults`).

### Catalog and DvmJobs

`Catalog` keeps of a request what decides whether it is answered: the table, the
columns and types its filters and sort name, whether a value can be read as the
type.  Errors found while parsing are told apart from those the database raises
when it executes (`QueryRejected`, `DataError`), because the DVM handles them
differently.  A job in `DvmJobs` appears at the relays up to `MaxDelay` seconds
after its `created_at`, or up to `MaxAhead` seconds before it, since the customer
chooses it; a cycle reads the clock, fetches, and takes the events
in any order (`FetchCut` is a fetch that its timeout ends with part of them);
each ends in a result, a price, an error event or an exception.
`processed` is the in-memory set that is cleared at `MaxProcessed`.  A restart
forgets it.

### RelayUrl and RelayProbe

A URL in `RelayUrl` is a record: scheme, host (labels with the property that the
rules look at, or an IP range), the form the host is written in (upper case,
percent-encoded, trailing dot, IDN, long IPv6), port, path segments, and whether
a query or fragment follows.  `Decoded` gives the segments with percent-encoded
characters and what they stand for.  `Sanitize` is the pipeline of
`sanitize_relay_url` in its order: like the code it checks the decoded path and
keeps the encoded one.  `Endpoint` says what a raw URL names, whatever
`sanitize_relay_url` does with it: the host, the port that is dialled, and the
resource, whose segments are decoded and which an invalid segment does not empty.
`OneUrlPerRelay` compares the two in both directions.

In `RelayProbe` each task is given a URL and one of eight tests.  `connect_relay`
is split at its awaits (`Begin`, `ProxyResolved`, `Connected`, `NotConnected`,
`Closed`), so a task can be cancelled or time out in each of them.  The text that
`_is_ssl_error` searches comes from nostr-sdk, so `NotConnected` lets it be taken
for a TLS error or not when TLS failed for whatever reason, and never when
something else did.  A request of `is_nostr_relay` ends with EOSE, in silence at
its own timeout, with an `OSError`, or by the overall timeout, which is a
`TimeoutError`.  `seen` is what the relay really did, `alive` the clients that exist, and the refcounted
redirection of `sys.stderr` is shared by all validations.

## 3. Runs

| Run | Question | Result |
|---|---|---|
| `stream_arbitrary` | Can any answer of a relay disorder the output, let a forged, oversized or unrequested event out, lose or repeat a window, or keep the generator from returning? | no: `AscendingOrder`, `OnlyWanted`, `RangeCovered`, `Termination` hold |
| `stream_honest` | Does the verification miss an event while the store changes between its fetches? | no: `PrefixComplete`, and `StreamEvents` implements `OrderedDelivery` |
| `stream_slow` | Is the stream complete up to the last yielded event when a receive times out? | **violated**, see 6 |
| `sync_crash` | Can a fault at any point leave a cursor past an event that is not stored, or move it back, or a finished cycle leave delivered events unsaved?  Does the service catch up afterwards, with two relays sharing one slot? | no: `CursorSafe`, `CursorNeverBack`, `NothingLeftBehind` hold; yes: `EventuallySynced` |
| `candidates` | With Seeder and Finder inserting at once, direct seeding and a fault: does a URL disappear, is one promoted without an answer, or a row probed twice in a cycle?  How often is a counter reset?  Is every candidate decided? | no: `NoCandidateLost`, `OnlyAnsweringPromoted`, `ProbedOnce`; at most once with two inserters, `ResetsLimited` (see 6); yes: `EventuallyDecided` |
| `finder_crash` | Can a fault leave a cursor past a row whose URLs were never inserted?  Does every URL in a row or listed by a source become a candidate, also when the fault falls between checkpoint and insertion? | no: `CursorCovers` holds when each second is committed at once; yes: `EventuallyFound` |
| `finder_late` | Does that hold for rows committed late? | **violated**, see 6 |
| `service` | Does a statement that is retried after it was committed act twice?  Can calls, clean-up and deletions of several processes break a reference or rewrite a row?  Is a signal lost?  Does the failure limit count failures that do not follow each other? | no: `RetriedOnce`, `ReturnMeansStored`, `ReferentialIntegrity`, `RowsKept`, `ShutdownHeeded`, `SignalEnds`, `StopsAtLimit` hold |
| `monitor` | Can a relay be marked before its metadata is stored, a worker leave no result, a client stay open, or a relay be starved by `max_relays`? | no: `MetadataBeforeCheckpoint` (unless the worker raised, see 6), `ChunkAccounted`, `ClientsTornDown` (up to displaced clients, see 6), `EventuallyChecked` hold |
| `monitor_geo` | Does the cycle go on when a database cannot be downloaded? | **violated**, see 6 |
| `dvm` | Does emptying the dedup set answer jobs again that are older than the cycle?  Is a job never taken up because another one failed, or because it arrived during a cycle? | no: `ReplaysLimited`, `JobsTaken` (unless a fetch was cut off, see 6) hold |
| `probe` | Do two spellings of a relay become two rows?  Can overlapping and cancelled tests leave stderr redirected or a client open, dial without verification against the configuration, or report what was not observed? | no: `StderrRestored` holds, `OneUrlPerRelay`, `ClientsReleased`, `DialsAllowed` and `VerdictSound` up to the exceptions named in 6 |

Bounds, and why they are enough:

- Streams run over four seconds, the least number at which a split produces a
  window that is itself split and one that is not; limit 3 exceeds the relay's
  cap 2, so truncation is invisible to the client, and two seconds are filled to
  the cap.  The arbitrary instance has events below, in and above the range, a
  forged and an unstorable one, and two overlapping filters.
- The Synchronizer has three relays, two of them on one network with one slot,
  five events, batches of two and chunks of one: a batch ends inside a second and
  holds events of two relays, and both inserts and cursor upserts take several
  transactions.  Two faults allow one during the recovery from another.
- `CandidateLifecycle` has two URLs, two inserters that may both find either of
  them, batches of one (so every multi-row write can be interrupted), an interval
  of 1 second, at most two failures and one fault.  Liveness is
  checked without `max_candidates`: with a budget the order of old rows matters,
  and saturated ages do not keep it.
- `FinderScan` has two relays and one scan slot, two events of which one mentions
  two URLs and one repeats a URL, pages of one row, a flush after two URLs and
  chunks of one record, so that every write of several records can be
  interrupted, and a source that lists a URL no event mentions.  Initial
  checkpoints are any mixture of fresh and old, of configured and retired
  sources.
- `ServiceProcess` has up to two calls per cycle out of nine kinds, two attempts per
  statement, a limit of two failures and two faults: a statement can be committed,
  fail, be repeated while other sessions insert, delete a relay or clean up
  orphans, and fail for good; one batch is larger than `batch.max_size`.  One relay, two events and one
  document under two types give every junction row a rival.
- `MonitorCycle` has three relays on two networks with one slot each, of which
  `max_relays` admits two, chunks of one or two, batches of one, one test that is
  retried and one for clearnet only, one publishing relay shared by the periodic
  event and the workers, and one fault.  `Interval = 0` makes relays due again
  before the clock ends, which is what starvation needs.
- `DvmJobs` has two jobs out of eight kinds of requests, a dedup set that is
  emptied at two, three seconds, arrival up to one second late or early and one
  fault: the clock's reading at the last cycle's start, at this one's and now can
  all differ, and a job that ends the cycle with an exception is no fault.
- `RelayProbe` has two concurrent tasks, which suffices for every overlap of the
  reference counter's two cases and for every pair of URLs, 82 spellings at the
  edges of the rules (encoded letters, slashes and dots among them), a proxy
  for two of the three overlay networks, and bodies just below and above the size
  limit.  Its symmetry in the tasks is sound: only invariants are checked and no
  constant tells the tasks apart.

Fairness.  In `StreamEvents` the generator's own steps are weakly fair: every
receive is bounded by a timeout and the consumer keeps asking.  In
`Synchronizer` the consumer, every worker and the clock are weakly fair: the
event loop runs every ready coroutine, streams and database calls have timeouts,
and a stopped container is started again; faults are finite (`MaxFaults`) and
not fair.  In `CandidateLifecycle` the Validator and the clock are weakly fair,
the inserters are not.  In `FinderScan` the Finder, its workers and the clock are
weakly fair, the Synchronizer is not.  In `ServiceProcess`, `MonitorCycle` and
`DvmJobs` the steps of the process are weakly fair for the same reason, faults,
signals and other processes are not; a refresh, which has no timeout by default,
is trusted to end.  `RelayProbe` has no liveness property and no fairness, and is
the only run without deadlock checking: its tasks end.

## 4. Proofs

Every safety invariant and action property that a passing run checks is also a
theorem, for every value of the constants under the modules' `ASSUME`s: sets the
finiteness of which the code takes for granted (jobs, URLs, events), sizes and
limits of at least 1, and, of the calls, URLs and sequences given to a model,
that they are of the form the code can be given.  `WellFormed` (`Archive`) says which
records a call of each `Brotr` method carries; `RawUrlsAssumption`
(`RelayProbe`) that a URL has the fields of `RelayUrl`; the assumption of
`MonitorCycle` that `Keys`, `Found` and `Target` are sequences over their sets.
A theorem with a hypothesis of its own is marked below; each hypothesis excludes
a case that a run or section 6 shows to fail.

| Module | Theorems | Hypothesis |
|---|---|---|
| `StreamEventsProofs` | `TypeCorrect`, `OrderCorrect`, `OnlyWantedCorrect`, `RangeCorrect` | any relay |
| | `PrefixIsComplete`, `Refinement` (of `OrderedDelivery`) | `Honest`: an honest relay, one filter |
| `SynchronizerProofs` | `TypeCorrect`, `CursorCorrect`, `CursorsAdvance`, `NothingIsLeft` | |
| `CandidateLifecycleProofs` | `TypeCorrect`, `NoCandidateLostCorrect`, `PromotionCorrect`, `NoneIsProbedTwice`, `ResetsAreLimited` | any inserters |
| `FinderScanProofs` | `TypeCorrect`; `CursorsCover` | the latter: `~SplitSeconds` |
| `ServiceProcessProofs` | `TypeCorrect`, `ReferencesAreKept`, `StopsExactlyAtTheLimit`, `RetriesAreOnce`, `ReturnsHaveStored`, `NothingIsRewritten`, `SignalsAreHeeded` | |
| `MonitorCycleProofs` | `TypeCorrect`, `EachRelayHasAResult`, `NoConnectionIsLeft`, `ChecksAreStored` | |
| `DvmJobsProofs` | `ReplaysAreLimited` | |
| `RelayProbeProofs` | `StderrIsRestored`, `ClientsAreReleased`, `DialsAreAllowed`, `VerdictsAreSound`, `OneUrl` | |

None of these properties is inductive by itself.  In each module an invariant
(`IInv`, `HInv`, `SInv`, ...) says what must hold at every point in between; it
was model-checked on the run's instance, then proved with one lemma per action or
group of actions, and the theorem follows from it.

`StreamEvents`.  For order: the bounds on `until_stack` are ascending, lie in
[current_since, EndTime] and end in EndTime; what is fetched, under verification
or pending lies in the window being worked on and is authentic and matching;
everything yielded lies below `current_since`, or, while a window is yielded,
below everything pending.  For completeness (`HInv`): what a fetch that has ended
says about the promised events it asked for.  An empty answer means there are
none, a missing one is not newer than any in the answer, and, since a second has
no more events than one answer carries (`LastSecond`), it is not of the fetch's
last second.  So above `min_ts` the window fetch is complete, at `min_ts` the
boundary fetch, and below it the probe has shown there is nothing: an accepted
window is complete (`CompleteWindow`), and so is everything below `current_since`.
The store changes between the fetches, but only removes from `promised`, and all
of this is monotone in it.  `Refinement` maps `Yield` to `Deliver`, `Finish` to
`Close`, `RelayChange` to `Release`, a timeout or an error to `CutShort` and
everything else to a stutter.

`Synchronizer`.  `CursorSafe` needs, for each place an event or position can be
in: what a worker has delivered (`last`) is, together with the queue and the
buffer, complete from the stored part on; a queue position is preceded by its
missing predecessors; the pending cursor of a relay is covered by the tables and
the buffer; during an upsert the buffer is empty.  Each transaction then moves
events from memory to the tables before the cursor that stands for them.
`OInv` adds the order: the events of a relay are queued in their order, seconds
never go back on the way from `cursor` over `pending` and the queue to `last`, and
the last event of a worker is in the queue, or the pending cursor, or the stored
one.  From the latter and the fact that the last flush finds no worker and an
empty queue it follows that the cycle's end leaves nothing.

`CandidateLifecycle`.  Everything inserted is in `relay`, deletion only starts
when all that is left to delete is inserted, and everything in `valid` has
answered.  Beside any inserters (`QInv`): a candidate in progress is in one of
`page`, `valid`, `invalid` and has its row, whose counter is at most the one in
`read`; a probed candidate is in progress, is a relay, or has failed and is not
due, until an inserter replaces its row; and the resets of a row and the inserters
that still hold its URL are together fewer than the inserters (`ResetsOK`).  For
the last, one of them made the row, one that resets it no longer holds the URL,
and no SELECT finds the URL again while the row is there.

`FinderScan`.  As in `Synchronizer`, for URLs: up to a pending cursor everything
is found or in the buffer, up to a queued row everything is found, buffered or
queued before it, and a page has every row between the worker's place and its own
rows.  Without late commits a row that appears lies after every place a scan has
reached.

`ServiceProcess`.  `ReferencesHold` is preserved by each procedure of `Archive`
(`ApplyReferences`); what a clean-up selected is referred to by nothing;
while nobody else writes, the tables are those before the call or those after it,
and every call is idempotent (`ApplyTwice`: twice is once), which is why a
retry of a committed statement acts once.  `HistoryOK` ties the counter of
failures to the last outcomes, and `SignalOK` and `LimitOK` say where the loop can
be once a signal was handled or the limit reached.

`MonitorCycle`.  Where a worker can be in each phase (`MainOK`, `WorkersOK`); what
was consumed is what the workers yielded, each relay once (`ResultsOK`); a
connection that is open is in the pool or was displaced from it (`ClientsOK`); and
what a check produced is in the database or still to be inserted before the
phase that marks, unless its worker raised (`StoredOK`).

`DvmJobs`.  The timestamp never passes the clock's reading at the start of the
cycle; what is left of a fetch is not older than the timestamp it asked for; and a
taken job that is no longer remembered is older than the timestamp or in `replay`.

`RelayProbe`.  Per task, what it holds and has seen at each of its awaits
(`TaskOK`); across tasks, that `refcount` is the number of validations inside the
suppressor.  `OneUrl` needs no invariant but that raw URLs have the form of
`RawUrlsAssumption`: a stored URL keeps host and dialled port, and its path is the
raw one or nothing, so equal keys mean equal endpoints unless a path was thrown
away (`OneKeyOneEndpoint`); without escapes the stored path is a function of the
resource (`OneEndpointOneKey`).

Only model-checked: the liveness properties (`Termination`, `EventuallySynced`,
`EventuallyDecided`, `EventuallyFound`, `SignalEnds`, `EventuallyChecked`,
`JobsTaken`), because the prover handles neither fairness nor ENABLED.  The three
runs that expect a violation are counterexamples and have nothing to prove.  No
module declares a RECURSIVE operator.

## 5. Plan

Proofs still worth adding: that a stream of `OrderedDelivery` is what
`Synchronizer` assumes of its workers, as a refinement of its `WorkerYield` step; lemmas
about the checks of `Catalog`; and `CursorsCover` with late commits for the rows
that are not late.

Models still worth adding: the sentinel protocol of `_iter_concurrent` as a
component of its own with the abstraction that `Synchronizer`, `FinderScan` and
`MonitorCycle` use as its specification, and the WebSocket adapter of
`utils/transport.py`.

## 6. Where the code and its documentation differ

Shown by a run:

- `stream_slow`: a receive timeout ends a fetch like the end of the answer does,
  so an empty probe after a timeout verifies a window that is not complete, and
  the cursor passes an event the relay holds.
- `finder_late`: the Finder resumes strictly after (seen_at, id).  A row with the
  cursor's second and a smaller id that the Synchronizer commits after the scan
  is never scanned, although the module's note says that rows inserted by the
  Synchronizer are eventually processed.
- `monitor_geo`: a failed download of a GeoLite2 database ends the cycle: at the
  download when the exception is not an `OSError` or `ValueError`, otherwise when
  `GeoReaders.open` does not find the file.

Written into the models as the code has it, and into the properties as an
exception where one is affected:

- `Clients.get` lets two workers connect to the same relay; the client stored
  first is displaced and never shut down (`displaced` in `ClientsTornDown`).
- A task that is interrupted inside `connect_relay` loses the client it was
  connecting (`cut` in `ClientsReleased`).
- A failed connection to a URL that contains the words "auth-required" makes
  `is_nostr_relay` answer true, since the exception quotes the URL (`words` in
  `VerdictSound`).
- A shutdown during the back-off of a Monitor check ends the check as failed, and
  the relay is checkpointed.
- An escaped capital letter in a host is decoded after the URL was lowercased, so
  that `sanitize_relay_url` returns a URL which `Relay` rejects.
- `services/common/queries.py:103-104` says that the failure counter of an
  existing candidate "is never reset".  Two inserters that both saw a URL as new
  reset it: the second upsert replaces the row the first one made, whatever the
  Validator counted in between.  An inserter selects the URL again only once the
  row is gone, so each does it at most once for a row (`ResetsLimited`), and a
  `fail_candidates` in progress restores the count it had read.
- `_sanitize_path` checks the decoded path and returns the encoded one
  (`models/relay.py:478-486`), so `wss://x.com/%61` and `wss://x.com/a` are two
  relays; `OneUrlPerRelay` asks for one key only where no segment is encoded.  A
  path with an invalid segment is dropped, and such a URL shares the key of the
  root (`PathDropped`).
- `create_client` sets `ConnectionTarget.ONION` (`utils/protocol.py:249`), which
  has nostr-sdk use the proxy for `.onion` relays only: I2P and Lokinet relays are
  dialled directly by the handshake and the RTT test, although
  `utils/protocol.py:22-24` says that overlay networks "always use" the proxy
  (`DialsAllowed` asks it of Tor, and of the aiohttp tests).
- `_is_ssl_error` is documented to recognize certificate errors but matches any
  text with "tls error" or "ssl handshake", and would miss a certificate error that
  is worded otherwise: a connection without verification may follow any failure
  of TLS (`TlsErrors` in `DialsAllowed`).
- `fetch_events` has a timeout of its own (`utils/protocol.py:439`), a quarter of
  the overall one, and returns normally when it expires.  A server that accepts
  the WebSocket and never answers is reported as a relay, although the docstring
  of `is_nostr_relay` asks for EOSE, AUTH or CLOSED ("silent" in `VerdictSound`).
- An exception of `publish_discovery` after a check has produced its data (any but
  the `OSError` and `TimeoutError` that `broadcast_events` catches,
  `utils/protocol.py:383`) makes the worker yield `None`: the data is dropped and
  the relay is checkpointed as failed (`services/monitor/service.py:687-696`).  So
  does an exception of `check_relay` after its first test, also an `OSError`,
  which it turns into an empty result (`services/monitor/service.py:528`).
  `MetadataBeforeCheckpoint` exempts these ("raised") and deleted relays.
- The filters of one request share its limit: once an earlier filter fills it, the
  later ones are not queried.  `stream_honest` has one filter.
- `processing.since` is not the start of a relay without a cursor: the worker
  starts at 0.  The queue of `_iter_concurrent` has no limit while the consumer
  waits for the database.
- A job whose bid is given as a string `param` raises a TypeError that ends the
  DVM's cycle; the job stays marked, the others are fetched again.  A send that
  times out may be followed by an error event for the same job.  A job that
  arrives with a `created_at` before the last fetch is never seen, nor is one that
  a fetch left out when its timeout ended it, because the timestamp moves on
  (`missed` in `JobsTaken`).  A job dated ahead of the clock stays in reach of
  every cycle until then, and each emptying of the dedup set has it answered
  again, so that replays are not limited "to the current cycle"
  (`services/dvm/service.py:308-310`) but to jobs no older than it.
- Leaving the loop at the failure limit exits with code 0.
- A junction row that is added while a clean-up is deleting the orphan it refers
  to disappears with it, and the inserter's cursor is already past the event
  (`MayGo` in `RowsKept`).
- The NIP-11 test dials an overlay relay directly when its network has no
  `proxy_url`; the HTTP test does not verify at all when insecure connections are
  allowed.
- On clearnet `ws://h` becomes `wss://h` and `ws://h:80` becomes `wss://h:80`, two
  relays; `Endpoint` takes the scheme the code gives the network as part of what a
  URL means.

## 7. Not modelled

The routes of the API wrap the catalog's calls and keep two counters; their SQL
text and JSON have no control a property could be about.  The WebSocket adapter
of `utils/transport.py` runs inside nostr-sdk's callbacks, whose contract is not
in this repository.  What NIP-11 documents, certificates and published events
contain, the models other than `Relay`, configuration files, key loading, logging
and metric counters carry data and no order of steps.  The SQL of the
materialized views is a query per view, and the services only call their refresh.
