# AEGIS NEXUS in TLA+

A verification project for AEGIS NEXUS: TLA+ modules that model its collector and its
sensors, TLC configurations that model-check them on small instances, and theorems about
them that TLAPS checks for every instance. All paths below are relative to the repository
root; `aegis_nexus/` stands for `src/aegis_nexus/`, and a bare file name for a file there.

## 1. The system

AEGIS NEXUS is a honeypot platform. Decoy services (`aegis_nexus/sensors/`) turn what
visitors do into events. A sensor client numbers each event and sends it, signed, in an
HTTP request of its own. A collector (`app.py`) served by several threads of one or more
Gunicorn processes normalises the event and stores it through `store.py` in one SQLite
database in WAL mode. Operators read lists, keep cases, triage alerts, upload PCAP evidence,
measure events against their past and correlate sessions through the same application.

Three facts about SQLite as the program uses it shape every module:

- one writer at a time, for all processes; a writer waits up to five seconds
  (`busy_timeout`, `store.py:65-73`) and then fails;
- Python's `sqlite3` opens a transaction at the first write statement of a connection. A
  `SELECT` before it runs in autocommit, in a snapshot of its own. Only `Store.ingest`,
  `reserve_sensor_nonce` and `apply_migrations` say `BEGIN IMMEDIATE` first. So "check, then
  write" is *two* steps nearly everywhere, and other workers come in between;
- what is read from the clock before the lock is granted (`collector_received_at`, audit
  stamps, the time a nonce is judged by) need not be in the order of the commits.

### Inventory

| component | state it keeps | operations | what is hard | what makes it correct |
|---|---|---|---|---|
| Sensor decoys (`sensors/`) | a connection's variables, slots of a listener, the FTP upload broker | one handler per protocol, `finish`, `put`, `take`, upload to quarantine | peers that close, fall silent or vanish at any point; limits; uploads matched by address only | slots come back; the evidence of a connection is complete and ordered; an upload is used once; every connection ends, but for an SSH shell whose peer never falls silent |
| Sensor delivery sequences (`sensors/client.py`, `sensor_sequence.py`) | the client's stream id and counter; `sensor_sequence_streams`, `sensor_sequence_ranges` | `emit`, `emit_heartbeat`, `record_event_sequence`, `record_heartbeat_sequence`, `sequence_summary` | loss, reordering, reuse of a number, restart of a sensor, full range detail, eviction of a stream whose requests are on their way | reported loss is the loss that happened, or a lower bound when detail is full; tables stay bounded |
| HTTP application and sensor authentication (`app.py`, `security.py`) | `sensor_replay_nonces`, a limiter per process | signature check, `reserve_sensor_nonce`, `allow`, handlers | a request repeated across threads that read the clock at different times, expiry at the edge of the window, restarts | a nonce is on file until its window has passed (which may end before its signature does); no key exceeds its limit in any window |
| Evidence files (`pcap.py`, `quarantine.py`) | files in two directories, `pcap_evidence`, a file lock | save, prune, store | file and row are two stores; crashes and locks between them; rows that cascade away | no row without its file, leftover files are accounted for, limits hold |
| Event model and normalisation (`model.py`, `derivation.py`, `time_integrity.py`) | none | bound, redact, derive artifacts, check the clock | values exactly at a limit, nested in each other | nothing is cut without a record |
| Threat context and sharing (`threat_context.py`, feeds, CTI) | an index per process | load, match, age; parse and export | rounding, which date counts, truncation | freshness never rises with age |
| Event store and sessions (`store.py`, `correlation.py`) | `events`, `sessions`, a maintenance counter per process, shared by its threads without a lock | `ingest`, `maintain`, `prune`, paged lists | workers prune at once, out-of-order events, failed maintenance, restarts, lists read while rows move | sessions and events agree; capacity holds but for ingests not counted yet, or lost from the counter; a 409 means the event is there; no row of a list is missed or repeated |
| Event hash chain (`event_chain.py`, `scripts/verify_integrity.py`) | `event_chain_head`, chain columns of `events` | `append_record`, `verify_chain` | concurrent appends, legitimate pruning, edits behind the program's back, a verifier beside a live collector | the chain never forks; what verifies is unaltered in every hashed column; pruning in the order of commits verifies |
| Detection, suppression and alerts (`detection*.py`, `alerts.py`) | `alerts`, `alert_evidence`, suppressions and their trail | evaluate rules, merge into an open alert, suppress, triage | look-up and insert are two steps, windows at their boundaries, cut contexts | bursts are found and nothing else; one open alert per finding; counts agree; the trail explains what was withheld |
| Investigation cases (`store.py`, `casework.py`) | `cases`, `case_tags`, `case_evidence`, `case_notes`, `case_history` | create, update, delete, evidence add and remove, note, retention | check-then-write races, deletion under another request | limits, history tells the state, only closed cases are deleted |
| Operator audit log (`operator_audit.py`) | `operator_audit_log` | `record` with age and row pruning | row written after the change, pruning of its own prune rows | tells only of what happened, loss is explicit, bounded |
| Analysis and reporting (`behavioral_analytics.py`, `correlation_workspace.py`, `pagination.py`, ...) | `correlation_links` | analyse an event, correlate a session, page, report | each reads and writes in several transactions, of a history that is cut | findings are true of all that is stored, live analysis and replay agree, links are those of one analysis |
| Schema migrations and backups (`migrations.py`, `backup.py`, `scripts/backup.py`) | `user_version`, `schema_migrations`, backup files | `apply_migrations`, `_backup_before_migration`, `backup_database` | workers start together, releases mix, a start dies half-way, rotation is shared | every migration once and in order, after a backup, and every worker comes through |
| Dashboard and operator scripts | none | presentation | wording, layout | not modelled |

### How they interact

```
peer -> decoy handler -> SensorClient.emit --HTTP--> authorise -> reserve nonce -> limiter
          |                                          -> ingest_event: normalise, clock check, context
          +-- upload --HTTP--> QuarantineStore       -> Store.ingest (one transaction):
                                                          session, event, chain, sequence
                                                     -> Store.maintain every 100th ingest
                                                     -> detection -> AlertStore.record
operator --HTTP--> authorise -> limiter -> case handlers -> Store.*_case* -> OperatorAuditLog
                                        -> PcapStore.save -> prune
                                        -> lists, behavioural analytics, correlation workspace
process start -> apply_migrations (backup first) -> Store.maintain(force=True); feed is loaded
verify_integrity.py, backup service --- read the same database file
```

## 2. Modules

| module | models | kind |
|---|---|---|
| `SequenceLedger` | `sensor_sequence.py`: the tables as a function from streams to rows, and every operation on them | operators |
| `SensorSequence` | client, network and handlers over `SequenceLedger` | state machine |
| `DeliveryAccount` | what the accounting promises: a set of numbers received, the highest known, duplicates | abstract specification |
| `DecoyProtocols` | what a handler of each protocol makes of one reading | operators |
| `DecoyServer` | listeners, connections, FTP broker, hand-over of uploads, over `DecoyProtocols` | state machine |
| `Threads` | threads and their processes | operators |
| `SensorRequests` | authorisation, nonces, limiter, quarantine, restarts | state machine |
| `EvidenceFiles` | `pcap.py`: files, rows, prune, crashes | state machine |
| `Collector` | requests and evidence files on the same threads, with one restart for both; composes `SensorRequests` and `EvidenceFiles` | composition |
| `SessionTable` | `correlation.py`, `_select_or_create_session` | operators |
| `EventChain` | `event_chain.py`: appending and the verifier's walk | operators |
| `EventStore` | ingest, maintenance, restarts, verifier, out-of-band edits; composes `SessionTable`, `EventChain`, `SequenceLedger` | state machine |
| `DetectionRules` | which rules find something in an event, and the evidence | operators |
| `DetectionPipeline` | from stored event to alert, suppressions, triage, over `DetectionRules` | state machine |
| `OperatorAudit` | `operator_audit.py` | operators |
| `CaseStore` | case handlers and operations, over `OperatorAudit` | state machine |
| `SchemaUpgrade` | start-up of the workers, migrations, backups, rotation | state machine |
| `EventModel` | `model.py`, `derivation.py`: bounding, redaction, artifacts | operators |
| `ThreatContext` | `threat_context.py`: index, matches, ageing, validity | operators |
| `BehavioralAnalytics` | `behavioral_analytics.py`: every analytic | operators |
| `CorrelationRules` | overlaps of sessions, their score and selection | operators |
| `Listing` | reading a list by cursor while rows come, go and move | state machine |
| `Investigation` | lists, analyses, correlations and feed loads beside ingest and retention; composes the five above | composition |
| `MCEventStore`, `MCCaseStore`, `MCSchemaUpgrade`, `MCDetection`, `MCDecoys`, `MCCollector`, `MCInvestigation` | constants, scenarios and symmetry of the small instances | TLC |
| `SequenceProofs`, `EventStoreProofs`, `CaseProofs`, `SchemaUpgradeProofs`, `DetectionProofs`, `DecoyProofs`, `CollectorProofs`, `InvestigationProofs` | theorems | proofs |

Definitions whose name has a suffix (`Covers_Bug`, `Surplus_OffByOne`) hold a plausible
defect of the definition next to them. No definition uses them; put in its place they show
that a property can fail.

### Correspondence of state and actions

**SensorSequence.** `stream` and `sent` are `SensorClient._stream_id` and `_last_sequence`.
`Emit` takes a number before the event may be dropped (`client.py:87-104`), so every way an
event is lost is `Lose`. A handler's `Stamp` (`collector_received_at`) and the transaction
that records the number (`CommitEvent`) are two steps: streams are evicted in the order of
stamps while rows are written in the order of commits. `RefuseEvent` is the foreign key that
fires when `_ensure_stream` evicts the very row it wrote. Range rows are folded into their
stream row as a set of intervals.

**DecoyServer.** `phase[c]` is where the thread of connection c is: accepted or refused
(`ProcessRequest`, `Refuse`), in its handler's loop (`Serve`, `PeerCloses`, `TimeOut`), in a
STOR (`Take`, `TakeTimesOut`), handing bytes to the collector (`Quarantine`,
`QuarantineRaises`), in `finish` and giving its slot back (`Finish`, `Release`). A reading is the
class of input the handler tells apart (a verb, whether it was cut); an SSH chunk is a sequence
of texts and line ends. That a peer is gone when an answer is written is a choice at every
answer.

`MaxTurns` is the limit of the handlers' loops; SSH has none, in the code as in the model. After
the readings of its script the peer of an SSH shell may go on sending for as long as it likes: its
phase stays `serving`. Only when it falls silent (`FallSilent`, which nothing obliges it to) can
the channel's timeout end the shell.

`Quarantine` lets the collector store and its answer be lost. `QuarantineRaises` is what
`quarantine_artifact` does not catch: a name that no header can carry (the verbs `..._ODD`), before
anything is sent, and an answer that breaks off (`IncompleteRead`). A name or a type that the client
and the quarantine shorten on their own (`client.py:139-140`, `quarantine.py:91-92`) is a verb
`..._RENAMED`; its event has no mark of it. `taken` and `dropped` are history.

**SensorRequests.** `serving[w]` is the request of a thread and the time it last read. `Arrive`
is authorisation; `Reserve` is one transaction by the time read before it; `Allow` is the
limiter under its lock, also by a time read before; `Lock`, `CountFiles`, `StoreArtifact` are
`QuarantineStore.store`. `Answer` is every other handler: whatever it does to events or cases
is in their modules. `Stop` takes a process's threads, limiter and file lock. A clean-up of
the limiter may be due at any call: its own timer is not modelled. `accepted` and
`admitted` are history.

**EvidenceFiles.** `job[w]` goes through `BeginSave`, `WriteTemporary`, `MoveIntoPlace`,
`InsertRow`, then the prune that ends every save: `RemoveOne` unlinks a file and deletes a row in a
transaction that only `EndPrune` commits; `RemovalFails` is the lock that another writer keeps too
long. `DeleteSession` cascades rows. `Crash` rolls back what was not committed. The clock counts
days.

**Collector.** Conjoins the two on the same threads: `Upload` is `Answer` with `BeginSave`, `Ingest`
is `Answer` with `DeleteSession`, `Restart` is `Stop` with `Crash`; every other action is one
component's and leaves the other alone.

**EventStore.** A thread's request goes `idle -> received` (`Receive`: the stamp, the skew
check) `-> stored` (`Ingest`: one `BEGIN IMMEDIATE` transaction over session, event, chain
and sequence) `-> idle`. `RejectDuplicate` is *any* `IntegrityError`, as in `app.py:754-757`.

After the commit, and without a lock, the thread counts its ingest on `since[p]`, the
`_ingest_since_maintenance` that all threads of process p share (four of them, `Dockerfile:12`):
`ReadCounter`, `WriteCounter`, `CheckCounter` and `ResetCounter` are steps of their own
(`store.py:231-233`). A write may overwrite what another thread counted since the read (`missed`
keeps account of that), and a reset wipes off what others have counted. A CPython with a global
interpreter lock rarely switches threads inside `+=`, but nothing in the code rules it out and
`requires-python` admits builds without that lock.

The thread that resets the counter, and every process that starts, goes through maintenance:
`Retention` (`prune`, a transaction), `CountOverflow` (a `SELECT` of its own) and
`DeleteOverflow`. Case retention is in `CaseStore`. `FailUpkeep` lets the run raise: the ingests
that its reset wiped off the counter are then `missed` as well. `Restart` drops a
process's requests, its counter and its maintenance. The verifier reads rows
(`VerifyWalk`) and head (`VerifyHead`) in two steps. `EditRow` and `DeleteRow` change the
table out of band. A row has a `body`, which stands for the hashed columns, and `copies`, which
stands for the columns that `HASHED_COLUMNS` omits and `Store.ingest` fills from the event's JSON
(`event_chain.py:30-34`, `store.py:190-193`): `EditRow` rewrites either. A hash is the tuple of its
inputs: equal exactly when they are. `log`, `missed` and `rejected` are history.

**DetectionPipeline.** A request that stored an event (`Ingest`; how it is stored is
`EventStore`) evaluates all rules at once (`Evaluate`) and takes the findings one by one: `Match`
(suppressions), `Lookup` (open alert), `WriteAlert`. Each opens a connection of its own.
`detection_context` makes two `SELECT`s in two snapshots, one of the source and one of the
secret; `Evaluate` merges them: events stored between the two could only show in the second. `CutOff` is an exception or a dead
worker; the repeated request is a duplicate and never comes here. `Triage` is
`AlertStore.update`; `CreateSuppression` is one transaction, deletion is a look-up
(`AskUnsuppress`) and a transaction (`Unsuppress`). Text matching is the set `event.shows`;
what the rules count is a field of the event. `handled`, `cut` and `forked` are history.

**CaseStore.** Each operation is a read (`Ask...`), a write transaction (`Write...`), the
re-read `get_case` (`Answer`), the stamp of the audit row (`Stamp`) and its insertion
(`Record`). Requests that find nothing to work on change nothing and have no step. The three
open statuses are one, since no code tells them apart. Linked telemetry always exists when it
is linked: the availability check only refuses. `CutOff` is a worker that dies at any of these
points or an audit row that fails (`record_audit` swallows the exception).

**SchemaUpgrade.** `Check` is the unlocked look at the version; `Begin` is `BEGIN IMMEDIATE`
with the version again; `Backup`, `Apply` and the failing `Die` follow. A backup file survives
the rollback of the transaction it was made in. One migration is one step of `version`: what
its DDL does is data.

**Investigation.** A behaviour chooses its workload once: events offered, tasks asked, feeds.
`Ingest` normalises, checks the clock, adds artifacts and the context of the feed the process
has loaded, and stores; `Drop` is retention, by receipt. `Open` and `More` (`Listing`) read a page
and continue after its cursor; rows of a session list move when `last_seen` rises.
`ReadEvent` and `Analyse` are the two transactions of a behavioural analysis; `Correlate` (whose two
`SELECT`s, of the session and of its candidates, are merged into one) and `Persist` those of a correlation. A text counts by its length, a feed entry by its dates. A
nested value is a function from paths to nodes, so that `_bounded`'s descent is the set of paths it
gets to (`Visited`): on the way to each, no place is past `MAX_ITEMS` and no key is dropped.

## 3. Checks

Every run has deadlock checking off: sensors and operators may stop sending, and every bound
ends a behaviour.

| run | instance | shows |
|---|---|---|
| `MCSequence` | 2 sensor starts where 1 stream is kept, 5 numbers in all, 2 ranges where up to 3 are needed, a heartbeat, a reused number, 2 requests in flight | `RangesKept`: ranges stay compact, bounded and true; `LossTold`: reported loss and gaps are exact while detail is whole, never overstated after; `ImplementsAccount`: the tables implement `DeliveryAccount` |
| `MCDecoys` | every dialogue alone; pairs with a Telnet or a silent peer; 3 peers for 2 slots; 2 to 4 connections that upload over FTP, names that are renamed or cannot be sent among them, a broker of depth 1 | `SlotsHeld`, `Bookended`, `ReadingsTold`, `UploadsTold` and, with fairness, `EveryConnectionEnds`: of an SSH shell only once its peer is silent |
| `MCDecoyCommands` (violation) | one SSH peer that sends two lines at once | `CommandsTold` fails: the second line is forgotten |
| `MCCollector` | 2 threads of a process; three workloads: artifacts and heartbeats of a sensor, uploads of an operator, both with forged requests; a restart; all limits 1, a window of 2 | `ReplaysApart`, `RateHeld`, `QuarantineHeld`, `FilesMatchRows`, `CapacityRestored` |
| `MCReplay` (violation) | 2 threads, one request of a sensor that arrives up to 3 times, a window of 2 | `NoncesSingleUse` fails: accepted at 0, and again at 2, when its nonce has expired and its signature has not |
| `MCStore` | four scenarios (below) of 3 threads in 2 processes, 6 events, capacity 1, maintenance at every 2nd ingest | `LinearChain`, `VerifiedMeansIntact`, `IntactVerdict`, `OrderedPrunesKeepChain`, `SessionsConsistent`, `CapacityBounded`, `NumbersCounted` |
| `MCStoreCollision` (violation) | 1 thread, 4 events | `DuplicateMeansStored` fails: a new event is answered 409 because its session's id is taken |
| `MCDetection` | 4 workloads (logins of two sources, pages, triage, suppressions) of 2 to 5 events, 2 requests, 2 operators, thresholds of 2 and 3, contexts of 3 and 2 events | `BurstsAreAlerts`: the rules find the behaviour `docs/DETECTIONS.md` describes and nothing else; `CountsAddUp`, `OneOpenAlert`, `WithheldAsTold` |
| `MCCases` | 2 threads, 2 cases, 2 items, limits of 1, 4 requests, a cut-off | `LimitsHeld`, `HistoryTold`, `AuditTold` under every interleaving of two requests |
| `MCCaseDelete` (violation) | the same | `DeletedWasClosed` fails: a case reopened after the check is deleted |
| `MCSchemaUpgrade` | 2 workers of a release with 3 migrations, 1 of a release with 2; first versions 0 to 3; 2 deaths; 1 scheduled backup; 2 files kept | `AppliedInOrder`, `DoneIsCurrent`, `FilesAreWhatTheySay` and, with fairness, `EveryWorkerStarts` |
| `MCInvestigation` | workloads of 4 or 5 events for lists of events and of sessions, login and command histories, related sessions, feeds; and one event for each shape of value at the limits | `PagesExact`, `FindingsGrounded`, `AnalysisRepeatable`, `LinksOfOneAnalysis`, `ContextAges`, `LossDisclosed` |

Type invariants are checked by `MCSequence`, `MCStore` and `MCCases`.

**Bounds.** Constants named `Max...` and commented "bound" limit the length of behaviours;
the others are settings of the program, set small so that the limit is reached. `MaxSent`
bounds the numbers of all streams together: four of one stream make every case of
the range merge (isolated, left, right, join) and two gaps, five leave one for the stream that
evicts it. Two actors show every race between a read and a write, since each operation has at
most one gap between them; three workers in `MCSchemaUpgrade` let one hold the lock, one wait
and one of another release look on. Four requests let one case see create, two overlapping
changes and one more.

`MCStore` states its scenarios as a `CONSTRAINT` (`Scenarios` in `MCEventStore`), since their
product is out of reach: `TwoWorkers` (two workers ingest and maintain three events, one restart or one
failed maintenance), `SharedCounter` (two threads of one worker count four events on its counter, one
failed maintenance: increments are overwritten and wiped off), `Tampering` (one worker prunes while a
row changes out of band, in a hashed column or in a copy, and the verifier runs) and `SessionOrders`
(one worker; two identities, a pause, an explicit session, numbered
events, a number used twice, in every order). A constraint only leaves states out, so an
invariant is checked in all that fit a scenario. The two threads of one process are alike
(`Symmetric`). The theorems of section 4 have no such limit.

`MCDetection`, `MCCollector`, `MCDecoys` and `MCInvestigation` choose a workload at the start instead, so
that each can be long: every temporal rule fires in one, every analytic in another, the limits of
the context are passed, and events without source, port or user are among them. A finding keeps
2 references in `MCDetection` (64 in the code), so that the limit cuts some. Every action fires in
some passing run.

**Fairness.** `SchemaUpgrade` has weak fairness of each worker's `Step`: a start that is not
killed goes on because SQLite grants the lock once it is free, and a worker that died is started
again by Gunicorn or by Compose (`restart: unless-stopped`). `DecoyServer` has weak fairness of
each connection's `Handle`: the thread runs, and every wait in it has a timeout
(`setup` of the handlers, ten seconds in `take`, the SSH channel's), which is the action
`TimeOut` or `TakeTimesOut`. Peers owe nothing: `ProcessRequest`, `PeerCloses` and `FallSilent` are not
fair. That is why `EveryConnectionEnds` leaves out an SSH shell whose peer has not fallen silent: its loop
(`ssh_decoy.py:186`, `:136`) has no limit and every chunk restarts the channel's thirty seconds. Every
other handler's loop is limited by `MaxTurns`, so its peer ends whatever it sends. Nothing
else in the code promises progress: sensors drop events, requests fail on a busy lock, and
maintenance runs only if events come.

## 4. Proofs

**Sequences** (`SequenceProofs`), for any number of sensor starts, numbers and limits:

- `SequenceTyped`, `RangesStand`, `LossIsTold`: `Spec => []TypeOK`, `[]RangesKept`, `[]LossTold`. The
  inductive invariant `SequenceInv` says of every row (`RowTold`) that its ranges are compact, stand
  for stored numbers only, for all of them while the row is exact, and that its counter is then their
  number; and of every request (`RequestsOK`) that it names a stream and a number in range. `AddToRangesKeeps` carries
  the merge case by case; `CountEventTells` the counters beside it; `OldestStream` and
  `EnsureStreamRoom` the eviction. `LossIsTold` needs that the sizes of disjoint ranges add up to
  the size of their union, and `AllGapsTell` that gaps are the complement.
- `TablesImplementAccount`: `Spec => ImplementsAccount`, the refinement: from `SequenceInv`, each
  commit is a report of the account, with or without an eviction, or a stutter.

**Event store** (`EventStoreProofs`), for any number of threads, processes, events and any limits:

- `ChainIsLinear`: `Spec => []LinearChain`. `LinearChain` alone is not inductive: an edit in
  place must be known to leave one row per number, or "the row of its number" says
  nothing. `ChainInv` adds to it that every stored row is a row of the log up to what was edited,
  at most once each (`Genuine`). One lemma per kind of step: rows appended (`ChainGrows`), rows
  deleted (`ChainShrinks`), a row rewritten (`ChainEdited`).
- `VerifiedIsIntact`: the lemma `IntactStretch` says that a clean walk that ends at the head is
  a contiguous stretch of the log up to its end, by the greatest missing number. It needs a
  least and a greatest element of a set of numbers, from well-foundedness of `<`. The rows of the
  stretch are as they were committed in every hashed column (`AsHashed`); of the other columns
  nothing can be said, since editing them leaves a chain that verifies (section 5).
- `VerdictIsIntact`: between walk and head, ingests only append to the log, so the rows of
  the walk stay `Genuine`; the lemma then applies to them with the later head, with the same scope.
- `TypeCorrect`: `TypeOK` together with `ChainInv` (row numbers) and finiteness of the
  events table (an overflow is a number).
- `SessionsStayConsistent`: `SessionInv` adds that every event has its session and that the end of a
  session is the time of one of its committed events (`EndIsAnEvent`), of which the pause rule speaks.
- `OrderedPrunesVerify`: while threads commit in the order of their stamps, what a prune leaves is a
  stretch of the log up to its end (`PruneInv`, `LatestAreStretch`), and a stretch of unaltered rows
  verifies; and in any order, a row that is missing above a kept one was stamped no later than it
  (`CutsAreLateCommits`), since whatever pruning takes is no newer than what it leaves (`KeptAreNewer`).
- `CapacityIsBounded`: two workers may delete one overflow twice, so `CapInv` orders the actors that
  maintain by the moment each counted the table, and bounds what the eviction of one leaves behind
  by the rounds that will count it later (`Fits`, `WithinLimits`). A committed ingest is somewhere at
  every moment: about to be counted, on a counter, overwritten there (`missed`), or wiped off it by a
  reset and then in the hands of the maintenance that the reset began (`Held`), until that maintenance
  counts the table or fails. `Credit` is the sum of the first three; `CreditOfCounting` and
  `CreditOfReset` say that no interleaving of the unlocked steps loses one. It rests on lemmas about the
  sum of a function.
- `NumbersAreCounted`: `LedgerInv` says of every row what its ranges stand for among the numbers of the
  log (`RowCounts`), and that no stream lost its row while all fit. What adding a number does to ranges
  is the lemma `AddToRangesKeeps` of `SequenceProofs`, instantiated.

**Cases** (`CaseProofs`), for any number of threads, cases, items and limits: `TypesHold`,
`LimitsAreHeld`, `HistoryIsTold`, `AuditIsTold`, all from `CaseInv` (`CaseInvHolds`). It says that two
requests meet on a case only where `overlapped` has it (`Overlaps`), so that elsewhere what a request read
is still there (`ReadsHold`); that a thread past a limit has a place kept for what it adds (`PlacesKept`);
and that an entry still to be audited has its own entry in the history (`EntriesKept`).

**Collector** (`CollectorProofs`), for any number of threads, processes, requests, sessions and limits:

- `NoReplay`: `RequestSpec => []ReplaysApart`. `RequestInv` says that the nonce of every acceptance
  is on file until the window of its time read has passed (`NoncesOnFile`), and that a time read is
  never ahead of the clock: so what a slow thread deletes has expired for all. That keeps two acceptances
  of a nonce a window apart; it does not make a nonce single-use, which `MCReplay` refutes.
- `RateIsHeld`: `RequestSpec => []RateHeld`. A bucket holds the reads of the last admissions of its key,
  and every one it forgot is a window old (`BucketTells`).
- `QuarantineBounded`: `RequestSpec => []QuarantineHeld`, from `QuarantineGuarded`: a thread between
  count and move holds the lock, and the room it counted is still there.
- `EvidenceMatches`: `EvidenceSpec => []FilesMatchRows`. `EvidenceInv` adds that a save under way has an
  id of its own, to which no row and no prune refers yet (`IdsFresh`), and that only the holder of the
  write lock has uncommitted deletions, whose files are gone (`RemovalsHeld`).
- `CapacityIsRestored`: `EvidenceSpec => []CapacityRestored`: while the table is above its limit and no
  save was cut off, some save has its prune before it (`Restores`).
- `ImplementsRequests` and `ImplementsEvidence` show that the composition implements each component,
  step by step; `CollectorKeeps` carries the invariants above over to `Collector`'s
  specification, which is the one TLC checks.

**Detection** (`DetectionProofs`), for any number of requests, operators, events and
suppressions:

- `TrailExplains`: `Spec => []WithheldAsTold`, from `WithheldInv`: the table of suppressions is
  exactly what the trail says is in force (`TrailInv`, which needs every id to be older than the
  row that mentions it), and a request past `Match` was not covered at that time. Rows are only
  appended, so what was said of a beginning of the trail stays (`TrailGrows`).
- `AlertsMerge`: `Spec => []OneOpenAlert`, from `OpenInv`: a request about to insert an alert of a
  key nobody else worked on is still right that there is none (`StillNone`).
- `AlertsCount`: `Spec => []CountsAddUp`, from `CountInv`: the findings of an event are of distinct rules,
  two requests never have the same event (`Apart`), and a finding still to be handled has no outcome
  yet (`Waiting`).
- `BurstsAreFound`: `Spec => []BurstsAreAlerts`. `BurstIsFound` and `FoundIsBurst` relate each rule to the
  burst the documentation describes, for any thresholds, windows and limits; they need
  that a set of the newest holds all that is as new (`NewestKeeps`) and that a larger set
  shows no fewer distinct values (`DistinctGrows`). `BurstInv` carries that through the pipeline:
  every rule's finding has its answer, waits for it, or the rule found nothing (`NoneOverlooked`), and
  what an alert refers to includes the evidence of each finding it counts (`AnsweredWell`).

**Decoys** (`DecoyProofs`), for any number of listeners, peers, connections and slots:
`SlotsAreHeld`, `ConnectionsAreBookended`, `ReadingsAreTold`, `UploadsAreTold`, all from `ServerInv`
(`ServerInvHolds`): an upload is in one place only, a queue of its own source, one handler's
hands or one connection's log (`BrokerOK`, `HandsOK`, `TellingsOK`); and every reading of a text protocol
but the last is told or needs no event (`ReadingsOK`). `ReadingsAreTold` is about what the handlers cut
themselves: what is shortened behind them on the way of an upload has no mark (section 5).

**Migrations** (`SchemaUpgradeProofs`), for any number of workers, releases, deaths and backups:
`MigrationsInOrder` and `ServesOnCurrentSchema`, from `UpgradeInv`: a waiting worker's
next migration is at most one above the version, the holder's is exactly one above, and a
finished worker has seen its release's version. `FilesTellTheTruth`: `Spec => []FilesAreWhatTheySay`, from
`CopyInv`: a backup is made before the first migration of its worker and numbered as it is made, so
while no more than `Keep` were made rotation has dropped none, the first copy included.

**Investigation** (`InvestigationProofs`), for any events, tasks, feeds, limits, weights and requests:

- `ListIsExact`: `ListingSpec => []PagesExact`, for any rows, page size and changes between two pages.
  `ListingInv` adds that what was seen lies at or before the cursor, and that every steady row is in
  the period the reader asked for.
- `ListsAreListings`: `Spec => ListingSpec`, the refinement: ingest, retention and the reader's requests
  are steps of a list whose rows come, go and move (`StepOfList`). `PagesStayExact` carries `PagesExact`
  over to `Spec`, which is the one TLC checks.
- `LossesAreDisclosed`: `Spec => []LossDisclosed`. `LossShows` says that a value of any depth loses nothing
  exactly when `_bounded` keeps it as it is: of a node that is missing, the first step not taken on its
  path (`FirstCut`) is a cut or a dropped key, and both are recorded. `KeptIsWithin` gives the limits.
- `FindingsAreGrounded` and `AnalysesAreRepeatable`, from `AnalysesOK`: an analysis holds the findings of
  its event against all that was stored when it read (`FoundIn`). One lemma per analytic (`NoveltyGrounded`, `LoginGrounded`, ...) shows
  what it claims; `NewestAreAll` that a history that was not cut is all of it. What comes after an event is not in
  its `History`, hence two analyses agree.
- `LinksAreOfOneAnalysis`, from `LinksOK`: what a request is about to write is one selection that was made.
  `ScoreBounded` shows that a score lies between 0 and 1000 in whatever order weights are taken off,
  `OverlapsAre` that a link leads to another session.
- `ContextOnlyAges`: `FreshnessFalls` shows that freshness, rounded half to even, never rises with
  age, through `RoundedOrdered`, which needs division to be monotonic (`DivisionOrdered`).

`InvestigationInvHolds` is the conjunction of these invariants with what is stored (`Typed`).

Assumptions are the `ASSUME`s of the modules: settings are natural numbers, the chunk size of
maintenance is positive, thresholds are at least 2, threads and processes are finite and apart, nobody is
called `"free"`, "none" is no value of a field, times and ids of events are integers, the offered
workloads are sets of requests. `Investigation` assumes that what is offered has the shape of an event and
a feed (`IsOffer`, `IsFeed`: values are finite trees), that weights are percentages, and that context is
stale before it is aged. SHA-256 is assumed injective.

No induction theorem of the library can be instantiated here, so whatever needs one is shown by a
least counterexample (`NatLessThanWellFounded` with `WFMin`): sums of functions, greatest numbers, the
number of findings among the rules.

**Only model-checked:** both liveness properties, `EveryConnectionEnds` and `EveryWorkerStarts`: liveness under
fairness is out of the prover's reach. Every other property of a passing run is stated by a theorem.
What the runs with an expected violation show needs no proof: a behaviour that violates it is there.

## 5. What the work showed

Confirmed by a run:

- **A signed request accepted twice** (`MCReplay`): a nonce expires `Skew` seconds after the time read
  at its acceptance and is deleted in that very second (`store.py:93`, `:97`), while the signature is
  valid until `Skew` after the sensor signed, that second included, and the sensor may sign up to `Skew`
  ahead (`security.py:35`). The same request is accepted again before its signature ends.
  `docs/THREAT_MODEL.md:11` calls nonces single-use, and `docs/OPERATIONS.md:39` says that every nonce
  accepted inside the signature's window is rejected.
- **A new event answered as duplicate** (`MCStoreCollision`): a temporal session's id hashes its
  identity and start. A late event with that very start, while the session moved on, opens
  a session whose id is taken; the event is dropped and answered `duplicate_event`.
- **A reopened case deleted** (`MCCaseDelete`): `delete_case` checks the status in autocommit and
  deletes by id. `docs/CASE_MANAGEMENT.md:19` promises closed cases only.
- **SSH commands forgotten** (`MCDecoyCommands`): `_read_command` returns the first line of a chunk and
  forgets what follows it, without a mark. `docs/CUSTOM_SENSORS.md:16` asks for one.

Seen while modelling and stated in the modules, without a run of their own.

Store and chain:

- `HASHED_COLUMNS` (`event_chain.py:30-34`) omits `received_at`, `protocol`, `service`,
  `destination_port`, `country`, `asn`, `latitude` and `longitude`, which `Store.ingest` stores beside the
  hashed JSON (`store.py:190-193`). A row edited in one of these
  verifies, although `docs/OPERATIONS.md:113` speaks of the exact stored columns and `:117` says that
  editing a record is reported. `VerifiedMeansIntact` and `IntactVerdict` speak of the hashed columns;
- `prune` and capacity eviction go by `collector_received_at`, stamped before the write lock, and the
  chain by the order of commits. Where two threads commit in the other order, retention by age
  may leave a hole (`sequence_gap`, `broken_link`; `store.py:274`) and the eviction of an overflow may
  take the newest row (`head_mismatch`; `store.py:242`), against `docs/OPERATIONS.md:118`.
  `OrderedPrunesKeepChain` says that nothing else cuts the chain;
- after retention removed every event the head still names the last one, and `verify_chain`
  reports `head_mismatch` (`event_chain.py:105`); `OrderedPrunesKeepChain` excludes the empty table;
- threads of a process count ingests without a lock, so that increments may be overwritten and
  maintenance come later than at every hundredth ingest; a reset before a maintenance run
  that fails loses all it wiped off. `CapacityBounded` counts both as `missed`;
- an ingest between the verifier's two reads is reported as `head_mismatch`;
- two workers may delete the same overflow twice, and so more than exceeds the capacity (`store.py:238`);
- `last_seen_at` of a stream takes the stamp of the request that commits last, which may be the
  older one: streams may be evicted in another order than they were heard of;
- a session whose `last_seen` moves while sessions are paged may be missed by the reader, and a
  session pruned and opened again may be listed twice; `PagesExact` speaks of rows that stayed.

Requests and evidence files:

- nonce table and limiter judge by a time read before their lock; neither is wrong on that account
  (`ReplaysApart`, `RateHeld`), but a request answered 429 or 422 has used its nonce;
- PCAP rows cascade away with their session and leave their files, which `MaxFiles` no longer counts;
  a crash inside a prune leaves rows without a file, whose download fails; temporary files of a
  crashed save are never removed; a save may prune the artifact it has just stored, and then answers
  with empty metadata.

Decoys:

- the name and the type of an upload are shortened on the way to the quarantine without a mark
  (`client.py:139-140`, `quarantine.py:91-92`), those of a web upload after `web_decoy.py:175-214` passed
  them on unbounded and names with directories over FTP too; `docs/CUSTOM_SENSORS.md:16` asks for a mark of every
  truncation. `ReadingsTold` speaks of what the handlers cut;
- a file name that no header can carry (outside Latin-1, or with a line break) makes
  `quarantine_artifact` raise a `ValueError` it does not catch (`client.py:151`), and an answer of the
  collector that breaks off an `IncompleteRead`: Flask answers 500, or the FTP handler is left, and the
  upload is lost untold (`QuarantineRaises`);
- an SSH shell whose peer sends something every thirty seconds never ends and keeps one of the slots
  (`ssh_decoy.py:186`, `:136`): no limit on commands or on the length of a connection as in the
  other decoys;
- the collector may store an upload while its answer is lost: the sensor then tells of a rejection;
- the FTP broker forgets its oldest upload when a fifth arrives for an address; an upload that comes after
  its STOR gave up is served to the next STOR of the address; a part of an upload that was cut off by a
  timeout or a reset is stored as if whole; a STOR is untold if its first answer cannot be written;
- a rejected FTP upload carries no mark although its file name was cut; Telnet without input
  yields an empty `credential` event; an unterminated last line of SSH is untold; Flask answers 405 and
  413 without an event.

Normalisation, context and analysis:

- `honeypot` and `event_type` are cut to 96 characters, and unknown top-level keys dropped, without
  making an event lossy; a sensor's notice with the original length equal to the captured one marks a
  complete password incomplete;
- the limit of derived artifacts is looked at after one was added: 128 grow to 129 (`derivation.py`);
- `event_rate_recon_burst` and `unusual_session_duration` put the event under analysis last and keep the
  first 32 references, so it may be missing from its own finding (`docs/BEHAVIORAL_ANALYTICS.md:32`);
- of two correlation requests for one session the one that read first may write last; links outlive
  the sessions they lead to.

Detection and alerts:

- an alert keeps the first 64 references of its window in the order of time (`detection.py:167`), so
  an event it counts may not be among them (`docs/DETECTIONS.md:29`); `BurstsAreAlerts` asks for the
  burst among the references of an alert only where its window fits (`AllReferred`);
- a burst whose latest event does not arrive last is not found: each event looks back from its
  own time only; `BurstsAreAlerts` promises the others;
- thresholds may be configured up to 10000 but the context holds at most 1000 events of the
  source and 250 of the secret: a rule above that never fires;
- a failure after `Store.ingest` and before the last finding loses the findings for good
  (`app.py:754-755`): the repeated request is answered 409;
- two crossing look-ups, or a look-up that crosses an alert being closed or reopened, open two alerts
  (`OneOpenAlert` excepts these as `forked`); an occurrence may be added to an alert closed since
  the look-up; `last_seen` is the time of the last event handled and may go back;
- two operators who delete one suppression at once leave two `deleted` rows in the trail.

Cases, audit and migrations:

- overlapping updates leave a closed case without `closed_at`, which retention never prunes, or with an
  old one (`store.py:878`); a link removed and added again while an older removal waits: that removal
  deletes nothing and is logged all the same (`store.py:957`). `HistoryTold` speaks of `closed_at` and links of cases no two requests worked on at once;
- the limits of 1000 evidence links and 500 notes give way by one for each further thread
  (`LimitsHeld`);
- a change whose case is deleted before `get_case` is answered 404 and never audited; adding a
  link that exists is audited again; audit detail is what the later re-read saw;
- audit rows are age-pruned by a stamp taken before the lock, not strictly by id;
- a start that fails in every migration makes a backup each time, and rotation then
  removes the copy at the original version and the scheduled ones (`backup.py:54-60`):
  `FilesAreWhatTheySay` promises the copy while at most `Keep` files were made;
- an older release that starts while a newer one migrates is not refused, since the only
  comparison with the newest version known is before the lock.

## 6. Plan

Done, in this order: sequences, event store with chain and sessions, cases with audit, migrations,
detection with alerts, decoys, requests with quarantine, evidence files and their composition,
normalisation, context, analysis and lists; and theorems about each. Next:

1. `EventStore` as a component of `Collector`, so that a nonce, its event and its sequence number are
   followed through one request, in place of the two halves that `SensorRequests` and `EventStore`
   show now.
2. Notes and tags of alerts; the reports of a study as operators over `Listing`'s rows.

## 7. Not modelled

Rendering, exporting and status pages (no state changes); the formats of feeds, STIX and CTI
exports; reports, study views, fingerprints and statistics (pure computations over one stored event or
session); notes and tags of alerts; the dashboard; one-shot scripts other than `backup.py` and
`verify_integrity.py`; the deployment files. `PROJECT.json` lists each with its reason. Also abstracted:
the text of events, titles and notes; the formats of ids, addresses and ports in normalisation (one flag); the
credential-fingerprint and rule-signature families of correlation, which score as the others do;
digests and signatures as values; personas and the bytes of a protocol; SQLite's own recovery, taken as its
documentation promises it.
