# Domio in TLA+

A verification project for the Domio monorepo: TLA+ models of the parts whose
correctness depends on the order of events, checked with TLC, with their safety
proved in TLAPS. It covers the path of an op from the editor over the gateway
and the worker into the log, the presenter session with its failover, the path
of analytics events into ClickHouse, and payouts. All paths below are under
`src/`.

## 1. The system

Domio is a platform for authoring and presenting slide decks. Editors keep
their CRDT operations (ops) in an outbound queue and send them over websockets
to the **realtime gateway**, which inserts them into Postgres when it has a
pool and publishes them to a NATS JetStream work queue. The **sync worker**
consumes the queue, writes the ops to `crdt_logs` and `branch_heads` in
batches, makes snapshots and prunes the log. A **presenter session** is a
versioned row that several devices advance, with an election for the device
that leads. Viewers' events go through **event ingest** into Kafka, or into a
spool when Kafka is away, and the **loader** moves them to ClickHouse. The
**payout executor** pays creators from their sales. Around this there are some
ninety services and workers, eleven web applications and the shared packages.

| component | state | operations | what is hard |
|---|---|---|---|
| Editor sync client, `apps/editor/src/sync` | pending ops in memory and in IndexedDB, a socket | init, enqueue, acknowledge; send, resend | writes nobody awaits, which fail silently; init replaces the array after an await; all tabs share the store and clear it |
| Realtime gateway, `services/realtime-gateway` | sessions with bounded channels, a clock | op, hello, presence, branch-switch handlers | insert, then best-effort publish; repeats on other connections; answers dropped when the channel is full |
| Worker process, `workers/sync/cmd/sync-worker` | consumer, callback, shutdown sequence | processMsg, shutdown, start | acknowledges before writing; callback not awaited; kills |
| Materializer, `workers/sync/internal/materialize` | buffer, timer, flush channel, stop channel | Push, flush (by size or timer), drain, Stop | callers, timer and stop race with the goroutine; failed and ambiguous transactions |
| Op log, `crdt_logs` and `branch_heads` | op rows, one head per branch | InsertOps, the gateway's insert | batches out of clock order, duplicates, ties |
| Snapshot manager, `workers/sync/internal/snapshot` | ops counted per deck; snapshot rows | OnOpsFlushed, CreateSnapshot | runs overlap each other and the writers; queries fail; restarts |
| Pruner, `workers/sync/internal/prune` and `pruneOnce` | none of its own | one DELETE | decides by the latest snapshot's clock only |
| Presenter session, `services/presenter-session` | versioned session rows, idempotency records, audit events | start, advance, annotate, timer, handover, failover, recap, end | whole rows read before an await and written after it; keys in flight and keys used again; audits that fail after the write; restarts |
| Failover election, `failover/election.ts` in it | stored election state, a replay buffer | heartbeat, tryClaim, stepDown; push, drain | calls overlap over a store without compare-and-set, by clocks that differ; eviction by size and age |
| Event ingest, `services/event-ingest` | spool files, a flush timer | publish, spool, flush | append against drain and remove; torn lines that a later append completes; boot without Kafka |
| ClickHouse loader, `services/clickhouse-loader` | a pending batch, the group's offset | fetch, insert, commit, dead-letter | commits fail after the insert, or overtake it; rows that the table never takes |
| Payout executor, `workers/payout-executor` | runs, ledger entries | start, stop, runOnce | passes overlap; a crash between transfer and ledger |
| Participant gateway, interaction services, session coordinator | registries of connections, polls, hands | join, vote, broadcast | reconnects, limits |
| Everything else | CRUD stores, external providers, rendering | | see PROJECT.json |

How the modelled parts interact:

    editor queue --ops--> gateway --insert (optional)--> crdt_logs <--DELETE-- pruner
         ^                 |   |                            ^  ^
         +----- OpAck -----+   +--publish--> JetStream       |  +--INSERT snapshot row
                                              |  ^          |          |
                                       callback  Ack    InsertOps      |
                                              v  |      goroutine      |
                                              buffer -------+--flush callback--> snapshot manager

    viewers --> event ingest --> Kafka --> loader --> ClickHouse
                     |             ^
                     +--> spool ---+

    devices --> presenter session --> presenter_session row, audit events
                     ^
    candidates --> election state          payout executor --> provider, ledger

What makes each part correct:

- editor's queue: an edit is acknowledged, in an open tab or in the store;
- gateway: an answer tells of a row, and a row reaches the bus;
- worker: an acknowledged message's op is in a safe place;
- materializer: no wake-up is lost, every accepted op is handed to the store
  once and in order, Stop drains and returns;
- log: a branch head is the greatest clock of its branch, and an op is never in
  neither log nor snapshot;
- session: no write is lost, versions are unique, a repeat of a key does not
  apply twice, what a client is told has its audit event, an ended session stays
  as it is; start: a repeat after the answer creates nothing;
- election: the primary of record has claimed its epoch, an epoch is shared and a
  primary replaced only where calls overtake each other; buffer: what is missing
  from a replay was crowded out or expired;
- ingest: an accepted event is in Kafka or in the spool, and the spool empties;
- loader: a skipped message was handled, every message is stored;
- payout: every ledger entry is backed by a transfer, and the counts of a run
  tell of each creator once.

Several of these hold only up to windows that the code leaves open. The
properties name those windows, and section 6 lists where a comment or document
promises more.

## 2. Modules

| module | models | state and actions against the code |
|---|---|---|
| `OrderedWriter` | what package materialize promises | a FIFO queue written from the front in whole batches |
| `Materializer` | `materialize.go` | one action per critical section or channel operation: `Push` (the locked part), `Signal` (the send after the unlock), the three select cases, `Take`/`Insert`/`Report` for flush, `DrainTake`/`DrainInsert` for drain, `Stop`, `Exit` |
| `HLC` | clock pairs as SQL and Go compare them | |
| `OpTable` | the op rows of `crdt_logs` for one deck, and their two writers | |
| `CrdtLog` | InsertOps on both tables; the gateway's insert | `InsertOps(batch)` is the transaction, `Upsert` the ON CONFLICT clause |
| `Snapshotter` | `snapshot.go`, `pruneOnce`, `prune.go` | each SQL statement of CreateSnapshot is an action: `ReadLast`, `List`, `ReadMax`, `ReadPayloads`, `InsertRow`; `OnOpsFlushed`, `Prune`, `RetentionElapses`, `Restart` |
| `SyncWorker` | `main.go`, composed with an INSTANCE of Materializer | `Take`, `Reject`, `Push`, `Ack` are processMsg; `StopConsumer`, `StopMaterializer`, `Exit` the shutdown; `Kill`, `Start`; `Deliver`, `AckWaitPasses` are JetStream |
| `Gateway` | the op frame in `router.go`, `validate.go`, `session.go`, `ws.go` | `HandleOp` is the read pump with validation and the insert, `PublishOp` and `SendAck` the rest of the handler, `WriteFrame` the write pump; `Connect`, `Disconnect`, `GatewayDies` |
| `LocalQueue` | `local-queue.ts` | `OpenTab` is init up to its await and `Loaded` the rest; `Edit` is enqueue, `Acknowledge`; `Persist`, `PersistFormer` (of the array that init replaced) and `PersistFails` are what becomes of a call of persistPendingOps; `CloseTab` |
| `PresenterSession` | `service.ts`, `state_machine.ts`, `pg_store.ts` and the keys of advance | a request goes through `Lookup`, `Reserve`, `Read`, `Write`, `EmitAudit`, `Commit`, one per await, where `Write` and `EmitAudit` may end in an error; `NextRow` is what each operation makes of the row it read, `Matches` the WHERE clause, `Updated` the columns of the UPDATE |
| `PresenterStart` | start and `idempotency/index.ts` | the same for a request that creates its row; `StartFails` is a creation or an audit that rejects |
| `Election` | `failover/election.ts` | each call is `Load` and, after the await, `Heartbeat`, `TryClaim` or `StepDown` with its save |
| `ReplayBuffer` | the standby's buffer in `election.ts` | `BufferPush`, `BufferDrain`, `BufferPeek`; gc is part of each |
| `EventIngest` | `ingest_pipeline.ts`, `spool.ts`, `kafka.ts`, `default_deps.ts`, `main.ts` | `Accept`, `PublishLands`, `PublishFails`, `Spool` for a batch; `StartPass`, `DrainFile`, `FlushLands`, `FlushFails`, `RemoveFile`, `DrainThrows` for the flusher; `Stopped`, `IngestBoot` |
| `Loader` | `cmd/loader/main.go`, `consumer.go`, `writer.go` | `FetchMessage`, `FlushBatch`, `Insert`, `InsertFails`, `Commit`, `SendToDLQ`, `CommitSkipped`; `LoaderDown`, `LoaderUp` |
| `PayoutExecutor` | `payout.ts` | a pass is `Fetch`, `CreatePayoutRun`, then per creator `Skip`, `LookupFails` or `Transfer`, `WriteEntry`, and `Complete`; `StartStop`, `RestartWorker` |
| `MCServices` | log, start, election, buffer, payout and gateway in one instance | `service` names the one that moves |
| `MCStreams` | ingest, loader and the editor's queue in one instance | `stream` names the one that moves |
| `MCSnapshotter`, `MCPresenterSession` | values of constants, symmetry | |
| `MaterializerProofs`, `SyncWorkerProofs`, `SnapshotterProofs`, `SessionProofs` | theorems about the module of that name, `SessionProofs` about `PresenterSession` | |
| `PresenterProofs` | theorems about `Election`, `PresenterStart` and `ReplayBuffer` | |
| `ServicesProofs` | theorems about `CrdtLog`, `PayoutExecutor` and `Gateway`, and about all of `MCServices` | |
| `StreamsProofs` | theorems about `LocalQueue`, `EventIngest` and `Loader`, and about all of `MCStreams` | |
| `DataLemmas` | lemmas about numbers, finite sets, sequences and sums that several proofs share | |

`MCServices` and `MCStreams` put several specifications side by side. Their
components share no variable, so a behaviour of all of them is an interleaving
of behaviours of each, and a property of one component's variables sees only
that component's steps. It is therefore enough that one moves in each
behaviour, which keeps the state space the sum and not the product. The
components that stand still are fair: nothing of theirs is enabled in the
initial states (`connected` and `refused` have one value when it is not the turn
of ingest or loader).

Modelling decisions, op path:

- An op is its row. `op_id` is the primary key, so a redelivered message is the
  same op; payload, author and slide are left out. Every statement filters by
  `deck_id`, so one deck is modelled.
- A branch is a function of the op in `OpTable`. The gateway stores the frame's
  branch_id as it comes, possibly empty (`ops/validate.go:122`), where the
  worker stores `main`: an editor that leaves it empty gets rows on a branch
  without a head. The model leaves that case out.
- The gateway's insert may or may not happen: its pool is optional
  (`services/realtime-gateway/cmd/rtgw/main.go:77-86`), and it binds an int32
  to the text column `op_type`, which is the driver's to accept. `Gateway`
  models a gateway with a pool. An insert that fails is answered INVALID_OP and
  `retryable: false` although it may have landed; the op then has a row and no
  copy on the bus, which `StoredReachesTheBus` allows by name.
- The gateway's clock is left out. Outside the package's tests only `Now` is
  called: no code calls `Update`, so the clock keeps its initial value. Nothing
  binds a live session id either, so the analytics fan-out never runs.
- A Go timer is armed or stopped. From Go 1.23 (`go.mod` says 1.25) Stop and
  Reset discard an unreceived expiry, so the drain of `timer.C` in Push has
  nothing to do.
- InsertOps commits or returns an error; an error may hide a commit whose
  answer was lost. The snapshotter sees that as a flush without a callback.
- `RetentionElapses` ages the rows that are there. It needs no run of
  CreateSnapshot in progress, as a run is cancelled after 30 seconds
  (`snapshot.go:247`) and the retention is counted in days.
- The JetStream client is modelled as the code uses it: deliveries are buffered
  until the callback is free; Stop of the consume context drops the buffer and
  does not wait for a callback in progress; Ack and Nak are not awaited and may
  be lost; an Ack after AckWait still removes the message.
- `LocalQueue` ends where the socket begins. The provider sends a length and
  JSON (`apps/editor/src/sync/provider.ts:88-96`), where the gateway parses
  protobuf and ignores a frame it cannot read
  (`services/realtime-gateway/internal/transport/ws.go:122-154`): between these
  two no Hello is welcomed and no op acknowledged, so nothing can be said of
  what arrives. The embedding app is external: it may enqueue before init is done
  and hands over OpAcks, as the comments of the class say. No code of the
  repository constructs the class yet.
- The calls of persistPendingOps on one array run in order, as each opens the
  database first; calls on an array that init has replaced come before those
  on the new one, and store the old array as it was left.

Modelling decisions, other parts:

- A TypeScript service runs until its next await, so an action is what happens
  between two awaits. The in-memory idempotency store empties on a restart, and
  the rows stay.
- The session row keeps the fields the operations write (`version`, mode,
  slide, presenter, timers, ended). `Updated` sets the columns of the Postgres
  UPDATE, which has no `presenter_id`.
- A request of the session may carry any key and any version that some client
  has seen. The presenter app keeps one key per session and operation and sends
  it with each new etag (`apps/presenter/src/lib/session-service.ts:166-216`),
  so advances with one key need not be repeats: after the first is answered the
  others are answered with its response (`RepeatIsReplayed`, section 6), and when
  it was forgotten they apply.
- `audit.emit` may reject, with the event kept or not (`service.ts:743`, `766`):
  the row is saved by then, the client gets an error and a keyed request keeps
  its placeholder. The same in start, where the creation may reject too.
- InMemoryElectionStore is the only store of the election in the repository. It
  has no lock and no compare-and-set, and its interface (`election.ts:40-43`)
  offers none; the Postgres store that the header speaks of (`election.ts:16-17`)
  is not there. So calls overlap as they like, two of one candidate too, and
  each candidate has a clock that is ahead by its `Skew`.
- A spool file is the sequence of its lines; a torn line is a value that no
  parser accepts. An append writes to the end of the file: behind a line cut
  short it completes that line, and what is appended later is whole again. Files
  that are flushed are taken in the order of their modification times.
- One partition in `Loader`; a message is its offset, and messages that are no
  JSON are a set. So are those that ClickHouse never takes, any set of the others:
  the INSERT names columns that the shipped schema lacks
  (`writer.go:83-89`, `infrastructure/clickhouse/init/001_phase17_schema.sql:23-81`),
  and an id that is no UUID or an unknown enum does not fit its column. A batch
  with one of them fails at every try, and flush has no way past it.
- Payout: one period, one currency, amounts are naturals. Requests to the provider
  are counted, so asking twice shows. Each call of the provider or the store may
  fail, before or after it had its effect.
- Histories (marked so at their declaration) are written and never read by a
  guard of the code.

## 3. Runs

| run | instance | shows |
|---|---|---|
| `materializer` | 2 ops, 2 callers, batches of 2, 4 pushes; 87,599 states | no lost wake-up, exact FIFO hand-over, Stop drains and returns, refinement of OrderedWriter |
| `snapshotter` | 2 ops on 2 branches, 2 overlapping runs, 1 snapshot row, failing queries; 1.3 million states | ops are lost in the listed ways only |
| `sync_worker` | 2 good messages, 2 deliveries each; 0.9 million states | acknowledged ops are accounted for |
| `sync_worker_live` | 1 good and 1 bad message; 24,472 states | acknowledged ops leave the memory, delivered ops are handed to the store, shutdown ends |
| `presenter_session` | 3 requests of any kind, 2 slides, 1 presenter, 1 key, starting live or in rehearsal; failing audits and restarts; 1.8 million states up to symmetry | no accepted write is overwritten, each version is one write, a repeat of a key applies once and replays its own answer, what a client is told is audited, an ended session is final |
| `services` | log: 6 ops on 2 branches, ties in either part; start: 3 requests, 2 keys; election: 2 candidates, 3 calls at a time of which 2 are one candidate's, a clock ahead by one, 2 promotions; buffer: 2 places, 4 pushes out of order; payout: 2 creators, 3 sales, 2 passes; gateway: 2 connections, 2 frames each, a channel of 1; 1,062,780 states | heads are latest and only advance; a late repeat creates no session; an epoch is shared and a primary replaced only behind a save over a newer state; replays are complete; ledger entries are backed and counts tell the run; answers are durable and rows reach the bus |
| `streams` | ingest: 2 batches over 2 keys, one of them from NATS, 2 passes, 2 faults; loader: 4 messages, 1 bad, any set of refused ones, batches of 2, 2 faults; queue: 2 tabs, 2 ops, 1 closed tab; 207,777 states | what an accepted event, a skipped message or an edit can be lost to; replays keep the spool's order; the spool empties, messages become rows |

Why the bounds are enough. Four pushes with batches of two fill the buffer past
its size, leave a remainder that only the timer can flush, and push behind the
drain; two callers hold two signals for a channel of one. Two messages with
two deliveries give a batch and a redelivery of each. Two runs of CreateSnapshot
overlap in every order of their statements; the bound `MaxSnaps` only closes
the success branch of `InsertRow`, and the violation runs use two rows. Three
requests on a row are a reader, a writer in between and another advance with
the key of either. `StartModes` and the single presenter are bounds: the modes
left out are reached by failover and handover, or refuse a handover as rehearsal
does (offline), and no column that is written has the presenter. Three calls of two candidates with two
promotions let both promote at once, a heartbeat come late over a new primary,
and one candidate overtake itself. Two connections send one op twice, one after
the other and at once, to a channel that is full after one answer. Two passes of
the payout list the same events; ann reaches the minimum only with two sales, so
her entries can be cut off in the middle. Four messages give a full batch, a bad
one behind a pending one, and a commit that overtakes. Two tabs are a queue and
another tab that clears it; the tab that closes lets an op be cut off, or stored
and loaded again. The theorems of section 5 have none of these bounds.

Deadlock is checked except where everything may be done: `materializer` after
Stop and the last push, `services` and `streams` when the component that moves
has used up its bounds.

Five runs state what a comment or document says and the code does not do
(PROJECT.json `findings` quotes the lines): `replay_reconstructs`,
`rows_consistent`, `latest_snapshot_suffices`, `graceful_exit_flushes`,
`hard_kill_loses_nothing`. Their instances have no failing queries, so an error
path is not what breaks the claim. On the last one: the claim is the phase
plan's definition of done for the op writer, a role `cmd/sync-worker` fills. A
gateway with a pool keeps the log row of such an op, but nothing then advances
the branch head or counts the op for a snapshot.

The positive counterparts are what the passing runs check and the proofs
generalise. `AckedAccountedFor` and `LossIsExplained` say that the windows above
are the only ones. `LossIsExplained` is about one deck and names three ways to
lose an op: pruned from a deck without snapshots; given up by a run that could
not read its branch; or late, that is, written with a clock at or before a
snapshot row, or at or before the maximum of a run that has already read its
branch. Overlapping runs, restarts, failed inserts and overshooting maxima lose
nothing beyond that. In the same way

- `StoredReachesTheBus` leaves out an op whose insert or publish failed, or
  whose handler died in between: its repeat is answered as a duplicate, and the
  worker never sees it;
- `LossExplained` leaves out events appended to a spool file between drain and
  unlink, and one that completes a line cut short; `SpoolEmpties` leaves out a torn line, which
  ends the process at every pass, and a boot without Kafka, whose stand-in
  publisher stays until the next boot;
- `SkippedIsHandled` and `MessagesAreStored` leave out messages that were
  pending when the commit of a bad one moved the offset past them, and bad ones
  whose dead letter failed;
- `MessagesAreStored` also leaves out all messages from the point on where a row
  that ClickHouse never takes stays in the batch: as shipped, the table lacks
  columns, every row is such a row, and the property says no more than that
  nothing else stops the loader;
- `EditSurvives` leaves out ops whose tab closed with the store behind its queue
  (a write under way, or the last one failed), ops pushed to the array that init
  then replaced, and records that a page cleared which had never seen them;
- `KeyAppliedOnce` leaves out two requests with one key of which one was sent
  while the other was in progress, was answered with an error after its write, or
  was forgotten in a restart: in each of these cases the code may apply it twice;
- `AuditAccounted` leaves out writes without an event whose request a restart cut
  off or whose audit failed; no client has been told of these;
- `EpochNamesOnePrimary` and `HeardPrimaryKept` leave out what follows a save
  computed from a state that was no longer stored. That is what a store with
  compare-and-set would refuse: `late` and `upset` stay as they began over such
  a store, and an epoch has one claimant and a primary its place.

## 4. Fairness

- Materializer: the goroutines are scheduled and InsertOps returns (weak
  fairness of `Run` and `Signal`). Go's select picks at random among ready
  cases, so a stop that stays ready is picked in the end (strong fairness of
  `SelectStop`). Callers need not push and Stop need not be called.
- SyncWorker: the same, and JetStream delivers and times out, the callback is
  scheduled, and a shutdown that began goes on. Nobody has to stop, kill or
  start the worker; `DeliveredIsHandled` makes no promise once it
  is stopped.
- EventIngest: the process is started again, handlers and passes that are in
  progress go on, and `setInterval` fires again and again (weak fairness).
  A publish of the flusher may fail any number of times, but one that is tried
  again and again lands (strong fairness of `FlushLands`): without it the broker
  may be away for ever and nothing empties.
- Loader: the loop, the ticker and the supervisor go on (weak fairness); an
  insert that ClickHouse can take and that is tried again and again succeeds
  (strong fairness of `Insert`, which a batch with a refused row never enables).

Gateway, presenter session, election, buffer, start, payout and the editor's
queue have safety properties only: each waits for a client, a candidate or a timer that need not
come.

## 5. Proofs

Every invariant and every safety action property that a passing run checks is
also a theorem, for every value of the constants. The theorems rest on the
assumptions on constants only (batch size at least one, ops with a branch and a
clock, a positive snapshot threshold, channels of at least one place, and so
on; each module names its own). None of them is about a store or a clock of the
election. `IngestAssumption` says that no batch is empty
and that an event is in one batch only, at one place: events have ids, and a
property that follows one event through the spool needs to tell it from others.

The inductive invariants that are more than the property and its types were
checked by TLC on the run's instance too.

Materializer and worker:

- `TypeCorrect`, `WakeupNeverLost`, `HandoverExact`, `StopDrains`
  (`MaterializerProofs`). With `TypeOK` known, `NoLostWakeup` and
  `FifoHandover` are inductive: the argument for the first is that the timer is
  stopped only by someone who is about to signal or to take the buffer.
  `StopDrains` needs `StopInv`: the mark Stop took is at most what was accepted,
  only a closed stop channel leads to the drain, and from the drain on the ops
  up to the mark are in the drained batch or handed over. The step that takes
  the buffer follows from the exact hand-over, since nothing is in flight then.
- `WriterImplemented`: every step of the materializer is a step or a stutter of
  `OrderedWriter` under the mapping queue = batch being inserted, then buffer.
  It needs that a batch at InsertOps is not empty (`BatchesNotEmpty`).
- `WorkerMaterializes` (`SyncWorkerProofs`): a step of the process is a step of
  its materializer, leaves it alone, or ends or starts a life, which renews it. The lemmas about single steps of the materializer carry over
  through an INSTANCE of its proofs.
- `WorkerTypeCorrect`, `AckedNeverVanishes`: `AckedAccountedFor` is not
  inductive, since the acknowledgement follows Push: `AckInv` adds that the op a
  callback has pushed is already kept somewhere.

Log, gateway and payout (`ServicesProofs`):

- `HeadsLatest`, `HeadsOnlyAdvance`: type and latest-head
  invariants are inductive together, from the order lemmas of clock pairs and
  `UpsertIsLater`: the two SQL expressions together choose the later of two
  clocks.
- `GatewayTypeCorrect`, `AnswersAreDurable`, `RowsReachTheBus`. `HandlerInv`: a
  handler that is about to publish or to acknowledge has inserted its row, is
  the only one over all connections with that op, and nobody has answered that
  the op was applied; before its publish the bus does not have it. The primary
  key is what admits one handler only.
- `LedgerBacked`: a pass that writes entries has an answered transfer of its
  creator's total, and the provider has not been asked yet in this run for a
  creator left to be paid (`TransferInv`); so each is asked for once.
- `RunIsTold`, `PayoutTypeCorrect`. `RunInv`: the creators of the list are told
  or left and never both, and while entries are written each event of the
  creator has one or is still to be written. That the cents are the sum of the
  transfers needs that the sum over a finite set does not depend on the order in
  which the fold takes its elements (`SumInsert` in `DataLemmas`).
- `ServicesAreTheirParts`, `ServicesTypeCorrect`: a behaviour of `MCServices` is
  one of each of its components.

Snapshots and presenter:

- `SnapTypeCorrect`, `LossExplained` (`SnapshotterProofs`). `LossIsExplained`
  is not inductive: whether a row that is inserted now leaves an op uncovered
  depends on what its run has read. The invariant adds `LastInv` (a run's lower
  bound is zero or a snapshot's clock) and `KeptInv`: a logged op that is not
  excused is in a snapshot, or in the log and after every snapshot; and every
  run in progress either still has to read it, has it, or has a maximum before
  it.
- `SessionTypeCorrect`, `VersionsOwned`, `WritesKept`, `KeysApplyOnce`,
  `WritesAudited`, `LifecycleHolds` (`SessionProofs`). One invariant carries
  all six. `ReadInv` says that a row somebody has read and whose version is
  still the stored one is the stored row, so the WHERE clause of the UPDATE
  lets through only writers that saw all accepted writes. `ProgressInv` ties
  what a request has written to where it is. `KeyInv` is what keeps a key from
  applying twice although the record may be in flight: of two requests with
  a key in progress one was sent beside the other, and once an accepted one has
  ended, its record is committed or it counts as unrecorded, so a later request
  that is past its lookup is excused. `RecordInv`: a committed record is the
  version of an accepted and audited request of the key, which is what makes
  a replayed answer an audited one.
- `EpochFences`, `PrimaryKeptWhileHeard`, `ElectionTypeCorrect`
  (`PresenterProofs`), for calls that overlap in any way. A state that was ever
  stored is `Backed`: its primary has claimed its epoch, so a save brings back
  nothing that was not claimed, however late. A claim above the stored epoch means
  that a late save took the epoch back (`ClaimsCovered`), so a promotion to an
  epoch that another has claimed comes behind one. Where nothing newer was
  overwritten the stored heartbeat is the last one of the primary by its clock
  (`BeatIsHeard`), so who finds it too old by the own clock found it silent.
- `RepeatsCreateNothing`, `StartTypeCorrect` (`PresenterProofs`). `RecordInv`: a
  record is of one finished request with its key, and what has committed since
  the restart has a record under its key, though requests in progress overwrite
  each other's. `RequestInv`: until its reserve, everything that had committed
  when a request was sent is still recorded; past its reserve, none of that has
  its key.
- `ReplayComplete`, `BufferTypeCorrect` (`PresenterProofs`). `BufferInv` makes
  the order of what is drained and what is buffered explicit: both increase, and
  all of the first is before all of the second. gc and the room for a push drop
  a prefix (`CollectedIsSuffix`, `RoomIsSuffix`); that a crowded-out op has
  `Capacity` later pushes follows from an increasing sequence spanning at least
  its length (`IncreasingSpan`).

Streams (`StreamsProofs`):

- `EditsSurvive`. `EditSurvives` is not inductive: `QueueInv` says that an
  edit which is only in a queue is in that of a tab whose last write is under way
  or failed (`Kept`), so that a tab without such writes may close, and that what
  a tab has seen is acknowledged or in its queue, where each op is once
  (`TabHolds`), so that its writes erase nothing but acknowledged ops and what
  it never saw.
- `IngestLossExplained`. `PassInv`: one pass runs at a time, what it holds is
  how its file begins, and is in Kafka before the unlink. `HandlerInv`: a
  handler counts the events of its batch that it has spooled, all of them safe.
- `ReplaysInOrder`. `SpoolInv`: files hold events that were spooled, each once.
  `OrderInv`: the lines of a file are in spool order, and an event that only the
  spool brought to Kafka is behind those spooled before it, which are in Kafka
  before it or have left the file for good. The hard step is a flush that lands:
  the batch is the beginning of the file, and what is in no file any more can
  not come later.
- `SkippedHandled`: every message that was fetched is stored, dead-lettered,
  excused, pending or the one in hand (`FetchedInv`); what the group's offset
  has passed lies below what was fetched.
- `StreamsAreTheirParts`, `StreamsTypeCorrect`: a behaviour of `MCStreams` is
  one of each of the three, with its fairness.

Definitions were chosen to be reasoned about where two forms say the same: the
records of a store and the events of a key are given by their ascending
enumeration and not by a sort or a filter, whose definitions the provers cannot
expand; sums are folds of the community modules. Induction is over sets of
natural numbers (`SetInduction`), since the library's rules take a predicate,
which the provers cannot instantiate. No module is recursive.

Only model-checked: the liveness properties (`EveryOpHandled`, `StopCompletes`,
`AckedLeavesMemory`, `DeliveredIsHandled`, `ShutdownCompletes`, `SpoolEmpties`,
`MessagesAreStored`). They need fairness and ENABLED, which
the prover does not do. And that the refuted formulas of sections 3 and 6 fail:
those are counterexamples.

## 6. Where text and code differ, without a run of their own

These formulas are at the end of their modules. TLC finds each violated when it
is put in place of the properties of the configuration named.

| formula, configuration | text | code |
|---|---|---|
| `MaxIsOfAnOp`, MCSnapshotter with one run and the clocks of MCServices | `workers/sync/internal/snapshot/snapshot.go:62-63` "BranchMaxHLC returns the max HLC among non-snapshot ops on the branch" | `snapshot.go:172` takes the maxima of the two parts independently; the result may be the clock of no op |
| `HandoverTakesOver`, MCPresenterSession with two presenters | `services/presenter-session/src/handoff_token.ts:4-5` "authorises a presenter to take over a session" | `store/pg_store.ts:141` has no `presenter_id` column; the old presenter stays in the row |
| `RepeatIsReplayed`, MCPresenterSession | `idempotency/index.ts:4-5` "Repeating the same request with the same key is a no-op (the previous response is replayed)." | `service.ts:310` ignores the answer of reserve; a repeat that overlaps the first gets a conflict |
| `StrictModeGraph`, MCPresenterSession | `state_machine.ts:11` "Mode transitions follow a strict graph" | `service.ts:657` sets live or failover from any mode |
| `OneSessionPerKey`, MCServices | `idempotency/index.ts:4-5` as above | `idempotency/index.ts:64` reports a placeholder as a free key; two starts that overlap create two sessions |
| `OneClaimPerEpoch`, MCServices | `failover/election.ts:9-10` "preventing split-brain" | `election.ts:113` loads and saves with nothing in between to exclude others: two candidates promote to the same epoch |
| `EpochIsMonotonic`, MCServices | `failover/election.ts:6` "Each candidate holds a monotonic `epoch` counter." | `election.ts:101` saves the whole state that was loaded; late, it takes the epoch back |
| `DrainIsFresh`, MCServices | `election.ts:164-165` "older ops are evicted when capacity is reached or the wall clock advances past" | `election.ts:205` stops at the first fresh op; an older one behind it is drained |
| `PaidOnce`, MCServices | `docs/development_phases/phase-19-marketplace.md:498` "idempotent on re-run" | `workers/payout-executor/src/payout.ts:334` puts the run's id into the transfer's key; a run after a crash or an overlapping one pays again |
| `SpoolDrains`, MCStreams | `services/event-ingest/src/default_deps.ts:32-34` "the same behavior the runtime path uses when Kafka drops mid-flight" | `default_deps.ts:36` the stand-in publisher is never replaced and never ready |
| `HeldIsAccepted`, MCStreams | `routes/events.ts:188-189` "we want 202 (Accepted) when spooled" | `routes/events.ts:190` the stand-in throws a plain Error, which is answered 500 though all is spooled |
| `RemovedAfterReplay`, MCStreams | `spool.ts:30` "Delete a spool file after successful replay." | `spool.ts:155` unlinks what was appended since the drain too |
| `PartitionInOrder`, MCStreams with single events over NATS | `spool.ts:13-14` "preserves the ordering invariant for replay" | `ingest_pipeline.ts:67` publishes a later event of a key while an earlier one is in the spool |
| `CommittedIsInserted`, MCStreams | `services/clickhouse-loader/cmd/loader/main.go:9-10` "commits offsets to Kafka only after a successful ClickHouse INSERT" | `main.go:265` commits a bad message at once, past rows that are pending |

Smaller ones, seen while reading and not modelled: `election.ts:9-10` says that "a
write from a stale epoch is rejected as DUAL_PRIMARY", and `service.ts:651`
compares the epoch with 1 only; `election.ts:129` saves role standby into the
shared state, where the primary's next heartbeat finds it; the presenter app's
second advance is answered with the response to its first, since both have one
key (`apps/presenter/src/lib/session-service.ts:203-216`); the sync provider and
the gateway frame their messages differently (section 2); a payout whose status in the
provider's answer is `failed` counts as paid (the model makes no difference
either); `missedHeartbeats` of the sync provider counts ticks of its timer
whatever the gateway answers; after a reload the queue is resent in the order of
random op ids where `local-queue.ts:4-5` says "resends the queue in causal
order", and `clientClock` goes on from the last record in that order, so it may
repeat; an op sent between the open of the socket and the Welcome overtakes the
queue; the op ids are called ULID-shaped (`local-queue.ts:8`) and are random
tokens.

## 7. Not modelled, and the plan

Not modelled: counters, metrics, logging, tracing, HTTP endpoints, row-level
security, compression of payloads, message expiry after seven days, several
workers with different ids, the gateway's clock, its hello, presence and
branch-switch frames, the event ingest's checks before a publish, the editor's
provider and bridge, handover tokens, and the components PROJECT.json
lists as `not_modelled` with their reasons. Most of those are request handlers
over a store, rendering, or calls to external providers, whose content is data
and not order.

| stage | modules | abstract specification | theorems |
|---|---|---|---|
| 1, done | OrderedWriter, Materializer, HLC, OpTable, CrdtLog, Snapshotter, SyncWorker | OrderedWriter | section 5 |
| 2, done | Gateway, PresenterSession, PresenterStart, Election, ReplayBuffer | | section 5 |
| 3, done | EventIngest, Loader, PayoutExecutor, LocalQueue | | section 5 |
| 4 | Gateway composed with the worker's stream; the sync provider once it speaks the gateway's format | an op queue from gateway to log with named losses | that the composition implements it |
| 5 | ParticipantGateway, live-session interactions, branch merges | a registry of participants | its invariants |
