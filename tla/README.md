# Verification of the conversational analytics system

TLA+ models, model-checking runs and proofs for the three-part application in
this repository: a browser extension (**Agent**), a local FastAPI server
(**Brain**) and a React single-page application (**Bridge**).  The models are
written from the code; ADRs, comments and tests are quoted only as statements of
what the code promises.

Contents: [the system](#1-the-system) · [the modules](#2-the-modules) ·
[the runs](#3-the-runs) · [the proofs](#4-the-proofs) ·
[disagreements](#5-where-the-code-and-its-documents-disagree) ·
[plan and what is not modelled](#6-plan-and-what-is-not-modelled).

## 1. The system

The Agent observes the signed-in creator's chats, normalises them and keeps
them durably; it delivers them over a WebSocket to the Brain, which holds the
canonical history in SQLite, projects it for reading, computes analytics and
serves Bridges.  The creator steers acquisition by settings that reach the Agent
as a configuration document, and may issue commands that the Agent executes.

### Components

| Component | Code | State | Operations |
|---|---|---|---|
| Agent durable store | `extension/transport/durable-outbox.mjs`, `indexeddb-ingestion-storage.mjs` | entity and coverage rows, outbox, acknowledged sequence, pending snapshot with scan cursor, pre-images and chunks | enqueue, enqueueMessageWithParent, commitPage, createSnapshot, buildNextSnapshotChunk, acknowledge |
| Agent socket | `agent-websocket.mjs` | socket, session, sync_required, sent sequences, single-flight snapshot send | connect, flush, session, acks, rejections, sync, reconnect, heartbeat |
| Agent configuration client | `agent-config-client.mjs`, `config-http-adapter.mjs` | persisted document, required revision, fetch generation, retry timer | require, fetch, validate, activate, retry |
| Agent command service | `agent-command-service.mjs` | results and pending results, in memory and stored; executions in flight | execute, resend, acknowledge |
| Agent history coordinator | `history-coordinator.mjs` | jobs, cursor, durable lease | page through the signer, pause, resume |
| Agent passive capture | `capture-ingestion.mjs`, `entity-merge.mjs` | none beyond the store | normalise, merge |
| Brain ingest stream | `app/persistence/history.py` | checkpoint, canonical rows, staged uploads, raw events, projection work | commit_delta, begin/add/commit snapshot |
| Brain Agent endpoint and manager | `endpoints/transport_ws.py`, `transport/manager.py` | leases and fences, presence, sockets, the command lock | hello, ingest, heartbeat, disconnect, expiry, broadcast |
| Settings and configuration | `endpoints/history.py`, `services/agent_configuration.py`, `history.py` | desired/effective settings, documents, installation record | update, publish, bind, confirm |
| Command execution | `services/command_execution.py` | audit records | issue, reissue, expire, record result |
| Canonical projection | `history.py` (ProjectionRepository), `manager.py` | work queue, generations in two slots, activation intents | catch_up, activate, snapshot |
| Analytics scheduler | `analytics/scheduling.py`, `pipeline.py`, `resilient_projection_store.py` | admitted work, queue, recovery requests, publication epoch, the lazy store | request, schedule, build, publish, recover, close |
| Analytics publication | `analytics/sqlite_projection_store.py`, `persistence/projection_activation.py` | generation rows in one file, witnesses and epochs in the other | stage, reserve, complete, activate, undo, reconcile, collect |
| Analytics graph | `analytics/sqlite_graph_store.py`, `graph_store.py` | a generation's nodes, edges and statistics, cached answers, the writer's lease | neighborhood, paths, degree, centrality, communities, rows; replace, upsert, validate, discard |
| Bridge | `frontend/src/store/transportStore.ts` | view revision, connection state | apply delta, detect gap, resynchronise |

### Interactions

Agent → Brain: `agent.hello`, deltas, snapshot begin/chunk/commit, heartbeats,
command results.  Brain → Agent: `agent.session`, `ingest.ack`,
`ingest.rejected`, `ingest.sync_required`, `config.available`, `command.execute`,
`command.result_ack`.  The configuration document itself is fetched over HTTP.
Brain → Bridge: state, views and history deltas, each with a view revision.
Inside the Brain all is one asyncio event loop over SQLite transactions; the
interesting interleavings are at awaits that really suspend (broadcasts, sends
under back pressure, projection and analytics threads).  Inside the Agent a
mutation queue serialises IndexedDB transactions; everything else interleaves
at awaits, and the MV3 worker may be terminated between any two of them.

### What makes it hard, and what makes it correct

| Component | Hard behaviour | Correct means |
|---|---|---|
| Agent store | capture while a snapshot is built; late acknowledgements; worker death | nothing unacknowledged is dropped; a snapshot is as of its `through_seq`; its chunks never change |
| Delivery | reconnect at any point, frames of dead sockets, lease takeover, duplicate and lost acknowledgements, gaps, refused changes | the Brain's view is always the state after a prefix of the captures; nothing is lost; the Agent never believes more than is committed; all is delivered in the end |
| Settings | overtaking publications, late echoes, stale fetches, crash between two transactions | shown as effective only what the Agent runs; no regression; every change takes effect in the end |
| Projection | two files without a common transaction, a crash between them, a lost file, slots that take turns, commits while the task ends | a slot is the canonical rows of its revision; only activated generations are read; the latest reaches the Bridge |
| Commands | repeated delivery, worker death, late results, deadlines | executed once, outcome final, results not lost, none open for ever |
| Sessions | the sweeper's stale clock reading against heartbeats, takeover, a lock held across sends, broadcasts that wait | one live writer; only the silent are retired, and all of them; presence stands for its time; Bridges end up with what the Brain holds |
| Analytics scheduler | coalescing, a full queue, storage that fails at any await, closing | no request forgotten or built twice at a time, each settles, nothing published after closing |
| Analytics publication | two files without a common transaction, several stores, expired leases, process death | only witnessed rows are active, revisions never go back, the dead are cleaned up, the served stay served |
| Analytics graph | reads of several transactions against activation and collection, a cache, six limits; a writer and its heartbeat thread | answers of the active generation, complete or marked truncated; generations validated whole, true reports, no deadlock |
| Bridge | deltas lost or reordered on reconnect | the store is a Brain view or asks for a new one |

The full list of hazards, each with its line and with the properties that
cover it, is in `PROJECT.json` under `hazards`.

## 2. The modules

| Module | Models | Uses |
|---|---|---|
| `IngestData` | typed changes and row identity | |
| `AgentOutbox` | the Agent's durable store | `IngestData` |
| `BrainStream` | the Brain's stream of one account | `IngestData` |
| `Delivery` | worker, sockets, endpoint, fence; composes the two above | `AgentOutbox`, `BrainStream` |
| `IngestPromise` | abstract specification of ingestion | `IngestData` |
| `Delivery_proofs` | theorems about `AgentOutbox` and `Delivery` | `Delivery`, TLAPS |
| `HistorySettings` | settings, documents, publication, configuration client | |
| `HistorySettings_proofs` | theorems about `HistorySettings` | `HistorySettings`, TLAPS |
| `Commands` | command log, delivery, execution, results | |
| `Commands_proofs` | theorems about `Commands` | `Commands`, TLAPS |
| `Projection` | read model of one account: work, two slots, activation, its task, a Bridge, a page | |
| `Projection_proofs` | theorems about `Projection` | `Projection`, TLAPS |
| `AgentSessions` | leases, presence, the sweeper, the command lock, broadcasts | |
| `AgentSessions_proofs` | theorems about `AgentSessions` | `AgentSessions`, TLAPS |
| `Scheduler` | the analytics scheduler over its lazy store | |
| `Scheduler_proofs` | theorems about `Scheduler` | `Scheduler`, TLAPS |
| `Publication` | how an analytics generation becomes visible, over two files | |
| `Publication_proofs` | theorems about `Publication` | `Publication`, TLAPS |
| `GraphSearch`, `GraphLoad` | the bounded searches as operators: in memory, and what SQL loads for them | |
| `GraphReader` | a reader's methods step by step against other connections | `GraphSearch`, `GraphLoad` |
| `GraphWriter` | the writer of one generation and its heartbeat thread | |
| `GraphStore_proofs` | theorems about `GraphReader` and `GraphWriter` | both, TLAPS |

Every definition's source lines are in `PROJECT.json` under `map`.  An operator
whose comment says *Mutant* is a plausible bug in the definition that follows it;
each property of each run has one that violates it.  A module has one type
invariant; where a run checks it, it is a conjunct of an invariant that says more
(`SnapshotIsCut`, `BooksAgree`, `SettingsAreTrue`, `ExecutedAndRecorded`,
`ReadersSeeActivated`, `RequestsAreHeld`, `AnswersAreHonest`, `SessionsAgree`), whose other
conjuncts are definitions of their own with their own comments.

### AgentOutbox

A change is named by its source_seq; the content of a row is the sequence of the
change that wrote it, so "newer" is a larger number.  `log` is history (the
payloads); `rows`, `outbox`, `acked`, `manifest`, `overrides`, `chunks`, `lastId`
are the object stores.  One IndexedDB transaction under `queueMutation` is one
action: `Enqueue`, `EnqueueMessageWithParent`, `CommitPage` (all `appendChange`,
with its pre-image), `CreateSnapshot`, `BuildNextSnapshotChunk`, `Acknowledge`.
A chunk may be cut short by bytes, so the builder consumes any non-empty part of
a page.  `WF(BuildNextSnapshotChunk)` is `prepareSnapshot`'s loop.

Left out: no-op merges, message and chat kinds beyond "entity", capture progress
rows, identities and epochs, validation errors.

### BrainStream

One SQLite transaction is one action.  `DeltaOutcome`, `BeginOutcome`,
`ChunkOutcome`, `CommitOutcome` are the order of the handler's checks;
`CommitDelta`, `BeginSnapshot`, `AddSnapshotChunk`, `CommitSnapshot` change
state only on "accepted".  The only coverage evidence kept is
generation.started, which the Brain refuses under another consent revision than
the applied one.  `work` is one item per canonical revision.

### Delivery

Connections are numbered; `up[c]` holds frames of connection `c` until the Brain
reads them or notices the close, so a dead connection's frames can be handled
after a newer one's.  The Agent listens on its current socket only (`down`).

| Action | Code |
|---|---|
| `CaptureAndFlush`, `FlushOutbox` | `captureDelta`, `flushOutbox` (its pages are one step) |
| `Connect`, `Disconnect`, `WorkerRestart` | `openSocket`, `handleClose`, MV3 termination |
| `TaskBuilds`, `TaskSends`, `TaskFails` | `handleSyncRequired` calls in progress |
| `SendNextSnapshotFrame` | the single-flight send |
| `RecvSession` … `RecvRejected` | `acceptSession` and the rest of the frame switch |
| `RecvAck`, `AckContinues` | the store operation of `handleAck`, and what follows the store's answer |
| `BindAgent`, `OpenSession` | the two halves of hello, around the broadcast in `bind_agent` |
| `RejectStale`, `IngestDelta`, `IngestSnapshot` | the ingest branch behind `is_current_fence` |
| `NoticeClose`, `LoseLease`, `HeartbeatRefused` | `disconnect_agent`, lease lost, fatal answer to a heartbeat |

One merge of steps: a store operation (`createSnapshot`, `acknowledge`) belongs to
the receipt of the frame that demands it, because `queueMutation` is first-in
first-out and nothing received later can be queued before it.  What the handler does
*after* the store has answered (`lastAck`, what was sent, `syncRequired = false`,
flushing or the next snapshot frame) is a step of its own: `agent-websocket.mjs`
awaits at lines 511 and 523, and a later frame or a new session may come between.
`acks` holds the answers that wait, `MaxAcks` at most.  A restarted Brain is
`Disconnect` followed by `NoticeClose`: it keeps exactly what SQLite keeps.

### HistorySettings

`settings` is the row of `history_settings`; `docs` the published documents,
each just its history policy; `confirmed` the installation's record.
`UpdateSettings` is update plus publication — two transactions with no
suspension between them, so only process death comes between (`CrashInUpdate`,
which notes the settings in the history variable `torn`) — and `Publish(i)` the
bind after the broadcast.  Its lease may be retired while the publication waits
(`RetireLease`), and the settings are then still marked (`manager.py:1256-1263`).
The client's fetch is
`StartFetch`, `GetConfig`, `Validate`, `Activate`, `FetchFails`, with the checks
of the session generation between them.  Left out: document validation,
401s and tickets, failures to persist.

### Commands

`log` holds the Brain's records.  `Issue` and `Reissue` save a record and await
the send with a private copy of it (`sending`), which `FinishSend` saves again;
`SendSuspends` says whether another handler can run in that await (only under
back pressure).  `Targets` has 0 for a lease that is stale or whose socket is
gone.  On the Agent, `mem` is changed at once and `disk` when the queued write
commits; `Perform` is policy check, executor and result; `torn` notes commands
whose worker died between the two: the next delivery performs these again, which
the code can do nothing about, and `ExecutesOnceUnlessTorn` says that nothing else
repeats a command.  The executor is a parameter of the code: the shipped worker
passes one that answers every command with "failed".

### Projection

`history` keeps the canonical rows of every revision, a conversation's row being
the pair of revisions that last wrote its entities and its coverage; `work` is
`projection_work`, `completed` the revision up to which it is marked done.
`canonical.sqlite3` and `projections.sqlite3` have no common transaction, so
`catch_up` is three actions: `CatchUp` (what both files say, the slot to build, the
intent), `BuildGeneration` (the projection transaction) and `Activate` (the
canonical one).  A slot that is built replays the work since the revision *it* has
reached, completed or not, since the slots take turns.  `worker` and `scheduled`
are the task and its pending mark; `Broadcast` sends the snapshot `catch_up`
returned.  `AckFails` is a commit whose acknowledgement cannot be sent: what
follows it in the handler, the scheduling, is skipped.  `dropped` is a history
variable for such losses.  A page is read in three steps on a thread of its own.
Left out: the texts and their pipeline, deletion of accounts, cursors between
pages, the summary and analytics documents beyond what they are computed from.

### AgentSessions

Everything in `manager.py` runs on one event loop, so tasks change places only
where they await: at `_agent_command_lock`, at a send to a Bridge, at a close, at
the sweeper's sleep.  `task[c]` is where connection `c`'s `_agent_socket` stands,
`status` and `age` are its lease, `active` the account's entry in `active_agents`,
`line` the holder and waiters of the lock, `casts` the broadcasts under way.  A
broadcast takes its payload and its list of Bridges at once and sends to one after
the other (`Cast`, `Send`).

| Action | Code |
|---|---|
| `Hello`, `BindAgent` | `bind_agent` up to the lock, and under it |
| `Heartbeat`, `ObservePresence` | frames of the current lease; refused ones change nothing |
| `Ends`, `DisconnectAgent` | the end of `_agent_socket`, under the lock |
| `IssueCommand`, `CommandSent` | whoever holds the lock across a send to the Agent |
| `BindBridge`, `GreetBridge` | the Bridge is in the manager's list before it gets its first `agent.state` |
| `BeginPass`, `SweepLease`, `SweepWaits`, `SweepLocked`, `SweepReports`, `SweepPresence` | `expire`, cut at its awaits; all of it judges by the clock reading of `BeginPass` |
| `PassFails` | `expire` raises: the sweeper's task is over |
| `Tick` | time |

Ages stand for clock readings: `age` is the time since the last heartbeat now, and
`sweep.aged` the same by the pass's reading, so a heartbeat sets both to 0.  One
account is modelled; others appear as the time they take (the sweeper may stay
between two steps, the lock may be held by another's command).  Left out: what
presence.state, system.state and state.delta carry, the queue of state.delta, and
Bridges that are lost.

### Scheduler

A step lasts from one await of the event loop to the next; what an executor
thread does is a step of its own.  `work` and `pending` are the admitted work and
its queue, `requests`, `batch` and `sweep` what the recovery task and the startup
sweep still have to ask for, `epoch` the publication epoch, `store`, `needs`,
`disk` and `file` the lazy store over a file that may vanish (`Damage`) or fail
at any call.  `Drain(w)` is the worker's loop, with a label for each await;
`Recover`, `Start`, `Request`, `Close` are the other tasks.  Publishing is one
step, which `Publication` opens up.  A build whose revision moved begins again, or
gives up: `max_revision_retries` is 3, and the rounds are not counted, so any of
them may be the last.  `ensure_ready` may take note of a replaced file even when it
fails.  History variables: `owed` (asked for and not
settled), `reported` (told of a storage failure), `escaped` (a drain that ended
in an uncaught error).  Left out: a saturated executor, which loses a request at
the caller with an error, and cancellation inside a computation.

### Publication

A step is one transaction of one of the two files with the reads that lead to it.
A store object is a process with its build owner and its scheduler's epoch.
`Publish(s)` is `stage_artifact` and `publish_generation` with the undo of a failed
activation (labels in `Publishing`); `Reconcile(s)` is `reconcile_startup`, row by
row (labels in `Opening`); `Scheduling(s)` opens, fences and revokes epochs;
`LeaseExpires`, `Lose` and `Ingest` are the clock, the death of a process and a
commit of the canonical history.  A generation is its canonical revision, the
generation it expects to replace and its owner; digests and validation are one
outcome.

### GraphSearch, GraphLoad, GraphReader

`GraphSearch` has the searches over a graph in memory (`Neighborhood`, `Paths`,
`Degree`, `Slice`) with their limits in the order the code applies them, as folds
over edges ordered by id; `GraphLoad` what the SQLite reader loads for them, hop by
hop.  `GraphReader` runs a method as the code does, as a sequence of
transactions (resolve the active generation, look in the cache, load, compute, check again,
store, confirm), while another connection activates generation 2, withdraws the
witness of the active one or collects the rows of generation 1, and while time
runs out.  Its reference definitions (`Within`, `Walks`, `Shortest`, `Complete`) say
what is asked for without the search's bookkeeping.  What networkx
computes over a slice is abstracted to the slice.  The resolver reads the active
row, the intent, the canonical identity twice, the active row and the intent in turn,
from two files (`sqlite_projection_store.py:1146-1212`); it is one read here, at its last
look at the active row, which is what its answer is about, and a canonical
identity that moves on appears as `Withdraw`.  Left out: edges whose own time or relation is
out of scope, which every query filters first; and edges from a node to itself, which
`upsert_edge` admits and the projector never makes (its relations join two kinds of
nodes, or two different ones), and whose degree in direction "both" the two
backends would not count alike.

### GraphWriter

The calling thread makes the calls of `stage_artifact` (or gives up and discards)
inside a lease session; the heartbeat thread renews the lease.  They share
`_write_gate`, the flags `_terminal_transition`, `_heartbeat_error`, `_valid`, the
stop and ready events and the chunk size; both need SQLite's write lock, which
another connection may hold, or use to reclaim the generation when its lease
expired.  The check after a transaction is merged with the one before the next
call; every edge joins the first and the last node.  The chunk size is read and
written by both threads without a lock, so it may rise again when one
overwrites the other's: any size from `MinChunk` (64 in the code) to the initial one.
A node that is put again loses its edges and gets them back in one transaction, in two
steps (`DeleteChanged`, `CommitChanged`), between which a statement may fail.
Only `stage_artifact` calls the writer in the application; upserts and discards are
operations of its interface that tests use.  A `discard` from a third thread
could wait for ever on the heartbeat's first renewal; no caller does that.

## 3. The runs

Every run passes; what the code does *not* keep is in section 5.

| Run | Question | Bounds |
|---|---|---|
| `outbox` | retention, as-of snapshots, chunks disjoint and in order, termination of the builder | 3 keys, page 2, 4 changes, 2 snapshots |
| `delivery` | nothing lost, both sides' books agree, implements `IngestPromise` | 1 key, 1 grant, 3 changes, 2 connections, 2 tasks, 1 waiting acknowledgement |
| `delivery_live` | every captured change is committed and acknowledged | no grants, 2 changes, 3 connections, faults until the second |
| `settings` | published and shown aligned means applied; confirmed is applied; no regression | 2 updates, 3 connections, deaths of either side |
| `settings_live` | every change takes effect | 2 updates, 5 connections, faults until the second |
| `commands` | executed once unless torn, outcome final, compacted is recorded; commands settle, results reach the Brain | 1 command, 2 deliveries, 7 connections, faults until the third |
| `projection` | slots exact, pages of activated generations only, visible advances, revisions reach the Bridge | 1 conversation, 3 revisions, 1 failure |
| `publication` | active is witnessed, revisions never go back, closed stores activate nothing, the served stay served, a startup decides what the dead left | 2 stores, 2 generations, 1 commit, 1 retired row kept |
| `scheduler` | requests and work are held, nothing published after closing, every request settles | 2 accounts (commits for one), 1 worker, queue and memory of 1, 1 fault |
| `graph` | cache exact, answers honest and of the active generation | all graphs of 3 nodes and up to 3 edges, every request with up to 2 tight limits; disturbed where the limits are generous and the graph has 2 edges at most; 2 calls |
| `graph_writer` | validated whole, true reports, lost is untouched, upserts keep edges, every session ends | 3 nodes, 2 edges, chunks from 3, 4 upserts, 2 disk faults |
| `agent_sessions` | one live writer, Bridges are told, fences hold, only the silent are retired and all of them, presence stands for its time | 2 connections, 1 Bridge, timeouts of 1 tick, 2 broadcasts at once, 1 failed pass |

**Why these bounds are enough.**  Three keys with pages of two put captures
before, at and after the scan cursor, with a page boundary inside the entities and
one between kinds.  In `delivery`, three changes allow one in the snapshot,
one captured while it is built and one after; two connections are what a late
frame needs, two tasks the overlap of two `handleSyncRequired` calls, and one
acknowledgement that waits for the store is overtaken by any frame but another of its kind.  In
`settings`, two updates let one publication overtake another, three
connections a late echo of each.  A second command shares no record with the
first except the queue of writes and the single-flight lock; the run keeps one.
In `projection`, the third revision is the first that is replayed into a slot that
is two behind; each revision is an entity change, coverage or a reseed.  With two
conversations the run is fifteen times as large; with one, a row that is wrongly
left alone is still seen, as its revisions differ from the canonical ones.
In `publication` two stores are an owner and one that takes over or reconciles it, in
either role, with both generations of one store or one of each.  In `scheduler` a queue
of one is full with the first account, and the second account is admitted,
refused and evicted next to it.  In `graph` two tight limits are what meets in
every disagreement found; three edges on three nodes hold a cycle, a branch
and a second path; the SQLite reader's steps are disturbed for every method.
In `graph_writer` chunks of 3, 2 and 1 (`MinChunk` is 1 there) over five rows cross the boundary between nodes and
edges inside a slice and at its end.  In `agent_sessions` the second
connection supersedes the first; a lease is young, stale at one tick and to be
retired at two; a second broadcast is what overtakes the first.  The theorems of
section 4 hold for all bounds.

**Faults.** Faults (`Disconnect`, `WorkerRestart`, deaths, `LoseLease`) strike at
any time until connection `MaxFaults+1` has been opened.  The live runs have
enough connections for each fault, and for each connection the *code* gives up
of its own accord (a lease taken by a late hello, a frame before the session),
so a liveness failure is never an exhausted bound.  In the other modules a fault
may come at every step, `MaxFaults` times: a failing call, a lost file, a
disk error, a failed pass; processes die, leases expire and other connections
interfere without a limit of their own.

**Fairness.**  Weak fairness for what an event loop or promise queue runs once it
is enabled: message handlers, their continuations (`AckContinues`), queued writes,
timers, and `Connect`, since the
Agent's backoff timer and its alarm reconnect it for ever.  The heartbeat is
an interval timer.  `GetConfig` has strong fairness: a Brain that is asked again
and again, each retry a new request, answers one of them.  None for
captures, faults, consent, settings changes or issued commands.
`delivery_live` has no grants: a change refused for lack of consent is retried
until consent returns, which ADR 0010 accepts, so it would rightly never be
committed.  `settings_live` has no consent revisions, which nothing in the flow of
documents depends on; `settings` has one, so that documents differ.
In `projection` the task's steps, the acknowledgement and the Bridge's first
snapshot are fair; commits, readers, Bridges and failures are not.
In `scheduler` the workers, the recovery and startup tasks and the end of a repair's delay
are fair; commits, requests, reads, closing and damage are not.  In `graph_writer` both threads are;
the gate, which the heartbeat lets go of between two attempts, has strong fairness.
In `agent_sessions` the sweeper, sends (a dead peer is given up), the end of a
command's send and whoever waits for the lock (an asyncio lock is served in order)
are; an Agent that connects, speaks or leaves is not, and neither is time: that
`SilentIsRetired` holds means that only the sweeper is needed.
`publication` and `graph` check safety only.

## 4. The proofs

TLC checks each property on the instance of its run; the theorems say the same for
every value of the constants that satisfies the modules' assumptions.  Those
assumptions are what the code guarantees or what a bound must be to be one: constants
are sets or numbers of the right kind, the model value that stands for *none* is not
a Bridge or a connection (`NamesAssumption` of `AgentSessions`), a worker is neither the
recovery nor the startup task (`TasksAssumption` of `Scheduler`), and a command has at
least one attempt (`MaxAttempts`).  Each safety proof has the same shape: the inductive invariant as named parts,
a lemma for what each group of operations does to them, one step per action, and
temporal steps at the end only.

`Delivery_proofs` first proves of `OutboxSpec`, for all entities, grants, page sizes
and bounds that satisfy the assumptions of `IngestData` and `AgentOutbox`:

- `OutboxTypeCorrect`: `[]OutboxTypeOK`.  It is inductive: each operation is
  `AppendChanges`, `CreateSnapshot`, `ConsumePage` or `Acknowledge`, and there
  is a lemma for each.
- `OutboxRetains`: `[]OutboxRetainsUnacknowledged`, inductive with the type
  invariant.
- `SnapshotIsConsistent`: `[]SnapshotIsAsOf`.  This says something of ready
  snapshots only and is not inductive.  `SnapshotInv` strengthens it by
  `RowsAreLast` (a row names the last change of its key), `PreImagesAreAsOf` (a
  saved pre-image is the row as of through_seq, and a row newer than through_seq
  without one had no earlier version) and `ContentIsScanned` (the chunks hold
  exactly the as-of rows the cursor has passed).  The step that needs all three is
  a capture at a key the cursor has not reached; the one that needs the order of
  the scan is a page that ends a kind.
- `SnapshotIsACut`: `[]SnapshotIsCut`.  Of `SnapshotInv` only that the chunks hold what
  the cursor has passed is needed, and that the cursor moves strictly on: a row that is in an
  earlier chunk lies before it.

Then of `DeliverySpec`, for any number of connections, captures, calls and faults:

- `NothingIsLost` (`[]NothingLost`) and `BooksAlwaysAgree` (`[]BooksAgree`), from
  `DeliveryInv`.  What a message says was true when it was sent; the invariant is
  about why it is still true, or harmless, when it arrives.  Captures, commits and upload ids
  only grow, so frames and answers stay true (`FramesAreTrue`, `AnswersAreTrue`), those that
wait for the store too (`AcksAreTrue`).  What
  is not monotone, the snapshot, is protected by the fence: frames of a dead
  connection are accepted only until the Brain has answered the hello of the live one
  (`DeadFramesAreFenced`), and where they are accepted snapshot frames are of the
  pending snapshot or of one that is committed (`FencedFramesMatch`).  A
  handshake travels alone and nothing is accepted before it (`HandshakesAreAlone`,
  `SessionIsOpened`).  `StagedMatches` (what the Brain has staged is the pending snapshot's
  chunks, as far as they came) and `CanonIsPrefix` (the rows are those after a
  prefix of the captures) are what the theorems state.
- `StoreImplemented`: `DeliverySpec => OutboxSpec`.  Composing the store with sockets and
  a Brain adds no behaviour to it, so that the theorems above hold of the composed
  system too; `DeliveryInv` uses them that way.
- `PromiseKept`: `DeliverySpec` implements `IngestPromise`, step by step: a delta or the
  commit of a snapshot moves the Brain from one prefix of the captures to a later
  one, every capture extends them, and all else stutters.

`HistorySettings_proofs` proves of `SettingsSpec`, for any number of changes,
connections and faults, `SettingsShownAreTrue` (`[]SettingsAreTrue`) and
`NothingRegresses` (`LateReportsNeverRegress`), from one invariant, `SettingsInv`.
Documents are only appended, so whatever is applied, reported, required or being
fetched is a document of the past (`AgentInv`, `UpInv`, `DownInv`).  Settings are bound
to no document or to the last one (`Fit`): a publication whose revision is
current carries the last document (`PublicationInv`), since a change of the
settings appends one and raises the revision in the same step.  So settings shown
as effective are effective at the last document, and the Agent, which applied it,
cannot have gone on to another.  That this document is their policy (`DocsInv`) fails
only for settings whose publication died, which is disagreement 3.  A fetch
that was answered holds a document not older than the one applied, because only the
end of a fetch applies one; that is why an Agent never goes back to an older
configuration, and a record that follows its reports never does either.

`Commands_proofs` proves of `CommandsSpec`, for any number of commands, connections,
attempts and faults:

- `ExecutedOnce`: with or without back pressure, a command is performed again only if the
  worker died between its action and the write of its result.  `ExecutionInv`
  orders the three places of a result, disk, the queued writes and memory: each holds
  what the one before holds (`ResultsGrow`), and an execution begins only
  where none of them has a result.
- `ExecutionIsRecorded` (`[]ExecutedAndRecorded`) and `OutcomeStands` (`OutcomeIsFinal`),
  under the hypothesis `SendSuspends = FALSE`.  A result that the Agent no longer
  offers is recorded by the Brain (`Compacts`, of memory and of disk, and of each
  acknowledgement on its way).  The hypothesis is `SendIsCurrent`: what `issue` writes
  after its send is the record it read before, plus the send.  Under back pressure that
  is false, and so are both theorems; disagreement 4 is the counterexample.

`Projection_proofs` proves of `ProjectionSpec`, for all conversations and bounds:

- `ProjectionIsExact`: `[]SlotsAreExact`.  Not inductive: that replaying the work
  since a slot's own revision gives the canonical rows needs that the work is
  complete.  `SlotInv` adds `WorkIsComplete` (between two revisions without a
  reseed, a conversation that no item names is unchanged, and one that only
  coverage items name has the same entities), `SlotsAreBehind` and `TargetIsAhead`
  (a slot is never ahead of the revision that is built).  `WorkIsComplete` is
  stated for all pairs of revisions, so that a commit extends each of them by one
  and no induction over revisions is needed.  `ReplayIsExact` is the main lemma.
- `ReadersAreServedActivated` (`[]ReadersSeeActivated`) and `VisibleNeverGoesBack`
  (`VisibleAdvances`), from `ReadInv`: an activated intent is never changed
  and the view is of the completed revision (`Activations`), a slot that holds an
  activated generation is as it was activated (`SlotsAreKnown`), the task builds beyond what is visible and in the other slot
  (`TaskIsAhead`), and what a page has read so far was read from a generation that
  was activated (`PagesAreKnown`), already before the check that ends the page.  The
  proof shows that of the two reasons the code has for a recovery the second, an active
  slot that has reached the target, is never the one that applies.

`Publication_proofs` proves of `Spec`, for all stores, generations, retentions and
revisions:

- `PublicationTypeCorrect`: `[]PublicationTypeOK`, with `CurIsAtHand` (a thread at
  work has a generation).
- `ActiveIsWitnessed`: `[]ActiveWasWitnessed`.  Not inductive: an activating thread
  acts on a witness it read before.  `SeenSettled` says what each label knows of
  it: a witness that was seen completed is completed or cancelled for ever.
- `NeverGoesBack`: `ActiveNeverGoesBack`, from `OneActive`, `RevsOfThePast` and
  `PrevIsOlder` (a staged row expects to replace one that is not newer).
- `ClosedIsSilent` (`ClosedStoreNeverActivates`), `ServedStands`
  (`ServedUntilSuperseded`) and `DeadAreResolved` (`StartupResolvesTheDead`), from
  `ThreadInv`, which says what a thread that stopped at a label may still rely on
  after the others went on: a revoked epoch was fenced in its store's memory first
  (`RevokedIsFenced`), a process reported dead stays dead (`GoneIsDead`), a row that is
  still being built has no witness (`NewIsUnwitnessed`), what is listed for collection is
  retired (`RetiredIsRetired`), and for each label what it read
  of its row and witness (`ThreadStands`).  Rows and witnesses move only in the ways that
  `RowsMoveNext` and `WitnessesMoveNext` list, so that a thread which does not step
  keeps its part of the invariant whoever does (`IdleStands`).

`Scheduler_proofs` proves of `Spec`, for all accounts, workers, queue sizes, revisions
and faults, `RequestsHeld` (`[]RequestsAreHeld`) and `NothingPublishedClosed`
(`ClosedPublishesNothing`), from `SchedulerInv`, which `SchedulerInductive` establishes:

- Admitted work is in one place (`HeldOnce`): once in the queue, in one worker's hands,
  or left behind by an uncaught error.  It moves when it is queued
  (`EnqueueHolds`), taken (`TakeKeeps`), settled (`DoneKeeps`) or escapes (`EscapeKeeps`);
  a step that only launches workers moves none, since one that starts to take has no account yet.
- What is owed is covered by a request or by admitted work, never by the batch alone
  (`OwedIsHeld`): the recovery task withdraws a request only if it is the one it
  admits, so a batch is never ahead of the requests.  The run's weaker statement, which also
  counts the batch, is not inductive: a recovery task that failed begins again and
  replaces its batch by what is requested then.
- Until a storage failure is reported a candidate carries the epoch that close() will
  fence, and after it a fenced one (`Carried`).  This needs that an epoch is opened by
  one task, the holder of the lock, and only while there is none (`OneOpens`): were
  another opened meanwhile, the candidates would carry one that close() does not know.
  A storage failure voids it, which is why `reported` is in the property (section 5).

`GraphStore_proofs` proves of the writer's `WriterSpec`, for any number of rows, chunk
sizes, upserts and faults: `WholeGraphIsValidated`, `ReportsAreTrue`,
`SessionLeavesNothing`, `LostStaysUntouched` and `EdgesSurviveUpserts` (an edge goes only
with the deletion that begins a replacement; `ReinsertedKeepsEdges` is the lemma about a
node that is put again).  The invariant says who holds gate and lock at each place of
the two threads (`Locks`), that the holder of the lock is still the owner, since
a reclaimer needs it too (`Owns`), that a terminal call has joined the heartbeat before
it commits (`Owns`, `Reports`), that a call which returned has done what it was for, the
generation being validated or retired (`Done`), and how far the rows are written (`Written`: the first
`pos` rows, whatever the chunk size has become).

Of a reader's `Spec` it proves, for every graph, request and limit and any number
of calls, `CachedAnswersAreExact` (`[]CacheIsExact`) and `ReturnsAreOfActive`
(`AnswersAreOfActive`).  The searches stay closed: what is proved is that no interleaving
with the other connections makes a method answer other than one undisturbed search of
the generation that is active when it returns.  The invariant is about the steps that
are left: which step may follow which (`WellOrdered`), and that before a search and
after it the load and the answer are those of the resolved generation unless its rows were
collected (`HeldIsExact`, `AnswerIsExact`), in which case it is not active again.

`AgentSessions_proofs` proves of `Spec`, for all connections, Bridges and timeouts:

- `OneWriterIsLive`, `FencesHold` and `OnlySilentLeasesRetire`.  The invariant adds that
  the sweeper and `active` only name bound leases, and that the pass never thinks a
  lease older than it is (`PassIsBehind`), which is why the second look under the lock
  suffices although its clock reading is old.
- `BridgesFollowTheLease` (`[]SessionsAgree`), from `TellInv`: of the broadcasts under
  way to a Bridge the newest carries what the Brain holds (`NewestIsCurrent`), and a
  Bridge that none is under way to was told it last (`BridgesAreTold`), unless a later
  broadcast has overtaken an earlier one at that Bridge.
- `PresenceStands` (`PresenceLastsItsTime`): the sweeper removes presence only when it
  is due, and what is due stays due until it is observed again (`DueIsOver`).

Only model-checked: what an undisturbed search of `GraphReader` finds
(`AnswersAreHonest`), and liveness.  The searches of `GraphSearch` are folds over
sequences: what they compute for every graph needs induction over data, which the prover
has not, so they are compared with their reference definitions on all small graphs.
Liveness needs fairness and ENABLED, beyond the prover too.

## 5. Where the code and its documents disagree

None of these has a run of its own: a run would hold one property that fails.
Each is reproduced by checking the named property (it is in the module, with a
comment) in a configuration that is given here.

1. *Deltas during a snapshot* (`Delivery`, `SnapshotPausesDeltas`; `DeliverySpec`,
   2 connections, 2 tasks).  A `handleSyncRequired` that outlives its session sends
   its begin frame on the next one, which resumed (`agent-websocket.mjs:438`).
   The Brain stages an upload *and* accepts deltas; the commit is then refused
   for good (`history.py:1107`), and each reconnect asks for the same upload.
   ADR 0010 (line 52): the Agent "pauses delta transmission while retaining later deltas".
2. *A required snapshot is forgotten* (`Delivery`, `SnapshotStaysRequired`; the
   same).  After `invariant_failed` the Agent requires a snapshot, but the next hello
   is answered with "resume" (`transport_ws.py:399`), which lifts that.  ADR 0004
   (line 53): a "failed invariant requires a snapshot; an ordinary reconnect resumes".
3. *Settings bound to an old document* (`HistorySettings`, `AlignedMeansApplied`;
   `SettingsSpec`, 2 connections).  A Brain that dies between the update of the
   settings and the publication of their document binds the *old* document to the
   new settings at the next hello (`manager.py:566`), and shows paused or revoked
   settings as effective while the Agent runs the running policy.  `history.py:1738`:
   "only after Agent confirmation".
4. *A recorded result is lost* (`Commands`, `ResultIsKept`; `SendSuspends = TRUE`, 3
   connections).  Under back pressure `issue` and `reissue` overwrite a result
   that was recorded and acknowledged during their await
   (`command_execution.py:244`).  ADR 0009 (line 17): "Keep ... commands ... durable".
5. *A lost projection file stays empty* (`Projection`, `DeletedIsRebuilt`; 2
   revisions, 1 lost file).  All its work is completed, so neither the start nor a bind finds
   any until a commit adds some (`history.py:2579`).  ADR 0009 (line 244):
   "Deleting `projections.sqlite3` rebuilds every read model".
6. *An account that is building for ever* (`Scheduler`, `BuildingIsBuilt`; the
   run's bounds).  Storage that fails while an unpublished candidate is discarded
   raises an error that nothing catches (`scheduling.py:647`): the worker ends and
   the account's work is never removed, so it is reported as building, and further
   requests join that work, until a restart.  `analytics/README.md:23-24`: "Missing,
   building, or failed projections report their stable availability state".
7. *A deleted analytics file stays unusable* (`Scheduler`, `DeletedFileIsRebuilt`;
   `LiveSpec`, the run's bounds).  When the repair (`ensure_ready`,
   `resilient_projection_store.py:98`) finds the file gone before a call does,
   the scheduler keeps an epoch that the new file does not know, and every later
   publication is refused (`sqlite_projection_store.py:515`) until a restart.
   `analytics/README.md:104-105`: the file
   "may be deleted at any time".
8. *Truncation that is not reported* (`GraphReader`, `TruncationIsReported`; the run's
   bounds).  A rooted slice whose edge limit is used up *assigns* its flag and forgets an
   earlier truncation (`sqlite_graph_store.py:1240`); a neighborhood that has visited
   its last node stops before edges between visited nodes (`graph_store.py:378`); a
   path whose goal is one step beyond the hop limit is "none, complete"
   (`sqlite_graph_store.py:869`, the goal counts as loaded).
   `analytics/README.md:58-62`: every traversal "reports truncation".

Smaller things met on the way, each an exception named in a property or its comment:

- The sweeper's task ends with the first exception of a pass (an expired command that
  cannot be stored) and is never started again while the process lives
  (`manager.py:517`): leases and presence then never expire, though ADR 0002 relies
  on that expiry when a worker disappears (`SilentIsRetired`).
- A broadcast held up at one Bridge is overtaken by a later one; that Bridge is left
  with the older `agent.state` until the next change (`BridgesAreTold`).
- Observation ids start again with a reinstalled Agent, whose presence is then refused
  until it has counted past the old ones (`manager.py:863`).
- A storage failure makes the scheduler forget its epoch, and a later close fences
  nothing (`ClosedPublishesNothing`); availability can be recorded after the loss that
  made it untrue (`scheduling.py:359`, `:482`); a task cancelled while it opens an epoch leaves it open.
- A store that checked the epoch before it was revoked still activates
  (`ClosedStoreNeverActivates`); a takeover whose live owner then undoes the activation
  hides a served projection (`ServedUntilSuperseded`).
- A reservation whose transaction succeeded and whose caller died before the row
  was marked is cancelled only by the next startup (`StartupResolvesTheDead`), which also
  cancels reservations of rows that are live (`sqlite_projection_store.py:845`).

## 6. Plan and what is not modelled

Each module is written to be proved about (constants with assumptions, no RECURSIVE
operator, invariants as named conjunctions).

1. *(done)* Ingestion: `IngestData`, `AgentOutbox`, `BrainStream`, `Delivery`,
   `IngestPromise`, and the first theorems.
2. *(done)* `HistorySettings`, `Commands`, `Projection`.
3. *(done)* Analytics: `Scheduler`, `Publication`, `GraphSearch`, `GraphLoad`,
   `GraphReader`, `GraphWriter`.
4. *(done)* `AgentSessions`.
5. `Coverage`: scopes, pages and generations of coverage evidence, live
   freshness; what the Brain refuses and what the coverage it shows means.
6. `EntityMerge`: the merge on both sides; that merging commutes enough for
   deltas and snapshots to converge, with parents and tombstones.
7. `BridgeStore`: view revisions, gaps and resynchronisation; state.delta.
8. `HistoryCoordinator`: jobs and the durable lease of the Agent's acquisition.
9. `Backup`: snapshots of the database files and what a restore meets.

A dozen runs is what this project keeps up; a further module shares one with the
component it belongs to, and so do its proofs.  Every safety property that a run checks
is proved, but for the searches of `GraphReader` (`AnswersAreHonest`).

Abstracted throughout: payloads, wording, logging, schema validation (only valid
frames are sent), authentication and tickets, disk-full and IndexedDB write
failures.  Not planned: the text and number crunching of `app/analytics`
(stateless), the in-memory projection store and graph writer (test doubles), React rendering, page hooks and other browser I/O, the legacy v1
ingestion path, build and packaging tools.
