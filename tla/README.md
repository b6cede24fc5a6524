# LoraDB verification

TLA+ models of LoraDB, an embeddable in-memory property graph database written
in Rust, with TLC configurations that check them on small instances and TLAPS
proofs about them for every instance.

## The system

A `Database` keeps one graph in memory, published as an immutable snapshot
(`LiveStore`). Readers load the current snapshot. Writers take one mutex, run
against a staged clone (or, for plans proven simple, in place), and record every
mutation. With a WAL attached, a write is committed to the log before it is
published. The log is written to the operating system at commit and fsynced in
the background, so the last moments may be lost with the power but not with the
process. Checkpoints write the graph to a snapshot file stamped with the LSN it
covers (the fence); the log is truncated behind it and replayed in front of it.

| Component | Source | State | Operations | Hard behaviour |
|---|---|---|---|---|
| Write-ahead log | `lora-wal/src/wal`, `segment.rs` | segment files, `next_lsn`, `durable_lsn`, active segment and its buffer, `bg_failure` | commit a transaction, rotate, fsync, marker, truncate, drop | fsync without the lock, failure of any file call, crash between two of them |
| Recovery | `wal.rs`, `replay.rs` | the files, the fence | open, discard, replay, cut | torn tail or corruption, snapshot ahead of the log, half a rotation |
| Recorder | `recorder/recorder.rs` | event buffer, armed, poisoned | arm, record, commit, abort, fsync | a failure must stop every later write |
| Managed snapshots | `snapshot/store.rs` | snapshot files, CURRENT, newest LSN, commit count | checkpoint under or behind the writers, prune | graph and LSN must match, two checkpoints at once |
| Automatic checkpoint | `wal/auto_checkpoint.rs` | threshold, worker | on growth, run, shutdown | requests while one runs |
| Write path | `database/write_guard.rs`, `wal/write_scope.rs` | writer mutex, staged graph | staged and in-place writes | error or poison between commit and publish |
| Transactions | `transaction.rs`, `stream.rs` | staged graph, buffer, cursor, closed | statement, cursor, commit, rollback | statement savepoints, cursors left open |
| Change feed | `changes/` | parked batches, ring, subscribers | publish, durable, subscribe, poll | release order, slow subscribers, history against truncation |
| Named archive | `named.rs`, `wal/archive/` | container file, work directory, worker, lock | open, mirror, install, close | crash while the container is rewritten |
| Directory lock | `lora-wal/src/lock.rs` | lock file | acquire, release | two processes |
| Plan cache | `plan_cache.rs` | plans by query and plan epoch | lookup, resolve, insert, evict | an epoch resolved from an older store |
| Codecs | `lora-wal/src/codec`, `lora-snapshot` | none | encode, decode | boundaries of lengths |
| Graph store | `lora-store` | records, adjacency lists, label buckets, indexes, constraints | mutations, replay of their events | lists and indexes against records, deferred removals |
| Query pipeline | parser, analyzer, compiler, executor | none between calls | parse to execute | language semantics |
| Outer layers | `lora-io`, `lora-server`, `bindings`, `packages`, `apps` | queues at most | wrap the above | the Node binding's write queue |

What makes each one correct, for those with state of their own:

- **log**: what was reported durable is never lost; recovery yields a prefix of
  the commits, whole transactions only; LSNs are never used twice; every log the
  code can leave opens again;
- **snapshots**: a snapshot holds exactly what its fence hides from replay;
- **write path**: nothing is published that is not logged, nothing logged is
  reported as failed, and after a poison nothing is accepted;
- **transactions**: a failed statement leaves no trace, a commit or rollback
  happens once and never under a live cursor;
- **change feed**: batches come out in commit order, once, only when durable, and
  a subscriber sees all of them or an error;
- **archive**: at every moment one of container and work directory is complete;
- **plan cache**: a plan is looked up only under its plan epoch, which moves when the
  store's plan signature does (any plan answers correctly; an old one costs time);
- **graph store**: the lists traversals read name exactly the records, replaying
  the recorded events rebuilds the graph, the net changes describe it, and a lookup
  that an index answers finds what a scan finds.

`PROJECT.json` lists the hazards behind these at their source lines.

## Modules

Every component has a module with its state and actions, an `Inv` module with its
properties (and the inductive invariant where something is proved), an `MC` module
that TLC runs, and `.cfg` files.

| Module | What it is |
|---|---|
| `DurableLog` | abstract specification: what a write-ahead log promises |
| `WalLog` | the log, its recovery, the recorder and one checkpoint, file call by file call; its properties |
| `WalLogInv`, `WalLogProofs` | the inductive invariants; type correctness; snapshots cover their fence, fsynced commits stay; the log opens, what replay reads, and that it implements `DurableLog` |
| `Replay`, `ReplayInv`, `ReplayProofs` | replay of the log into a graph, record by record, with the streaming of large transactions |
| `ChangeStream` | abstract specification: what the change feed promises a consumer |
| `ChangeHub`, `ChangeHubInv`, `ChangeHubProofs` | the hub, feeds, history replay and their entry points, over the durable LSN |
| `WritePath`, `WritePathInv`, `WritePathProofs` | staged, in-place and transactional writes against each other and against reads |
| `TxStatement`, `TxStatementInv`, `TxStatementProofs` | statements, savepoints, cursors, commit and rollback of explicit transactions |
| `ManagedCheckpoint`, `ManagedCheckpointInv`, `ManagedCheckpointProofs` | every kind of checkpoint and restore over the snapshot directory and the log; that what is durable is recovered |
| `GraphOps` | the in-memory graph as operators: one per mutation, with its events, and their replay |
| `NetChanges` | the change feed's net changes of a transaction |
| `GraphStore`, `GraphStoreInv` | staged, in-place and clearing writes over `GraphOps` and `NetChanges` |
| `PropertyIndex`, `PropertyIndexInv`, `PropertyIndexProofs` | the hash index on a node property: buckets, hooks, builds under lookups, cloning |
| `NamedArchive`, `NamedArchiveInv`, `NamedArchiveProofs` | a named database: work directory, container, worker, close; that it recovers what was promised |

How they meet:

- `WalLog` and `Replay` meet at the record. `WalLog` has the files, bad frames, LSN
  checks and LSNs of a whole log, and takes replay to apply the transactions
  committed above the fence (`Replayed`). `Replay` shows that replay does, from a
  log of whole frames with LSNs one after the other, and takes an event to apply or
  not. `GraphStore` shows that what the store emits does apply (`ReplayRebuilds`).
- `WritePath`, `ChangeHub`, `ManagedCheckpoint` and `NamedArchive` take a commit to be
  one appended item with an LSN, durable up to some LSN, which is what `WalLog`
  implements (`ImplementsDurableLog`). Where they let storage lose more than
  `DurableLog` allows, the gate in `Ops` says so.
- `PropertyIndex` has the same node mutations as `GraphOps`, reduced to what one
  index sees, and the staging and publication of `WritePath` reduced to one writer.
- `TxStatement` decides what a transaction logs and publishes; `WritePath` how that
  append and that publication meet with the other writers and readers;
  `ChangeHub` what consumers hear of it; `NetChanges` what they are told.

### WalLog and the code

State. `dir`, `born`, `sealed`, `base` are the segment files, whether their
32-byte header is whole, `FLAG_SEALED` and `base_lsn`; `written` is what the
operating system has of their records, `synced` and `dirSynced` what a power loss
leaves. `next_lsn`, `durable_lsn`, `active`, `pending` and `headerSealed` are
`WalState` with its `SegmentWriter`. `bg_failure` and `poisoned` are the flusher's
and the recorder's latches. `fence` and `snapTx` are the newest snapshot: its LSN
and the transactions in its graph. `live` is the in-memory graph, as the set of
transactions applied to it.

Threads are program counters. `cpc` is the transaction in `commit_tx_events`,
which holds the WAL state lock from `maybe_rotate` to the commit record
(`StateFree`) and is under the database's writer mutex (`WriterFree`). `fpc` are
the calls of `flush_inner(ForceFsync)` in progress, one per kind of caller: the
flusher thread, `sync`/`flush`, the checkpoint. Each one writes the buffer under
the lock, fsyncs without it, and advances `durable_lsn` under it again: three
actions. Foreground callers hold the recorder's lock throughout (`RecorderFree`).
`kpc` is the checkpoint, which holds the writer mutex (`kholds`) up to the moment
the graph is taken or to its end.

| Code | Actions |
|---|---|
| `commit_tx_events`, `append_tx` | `CommitLock`, `AppendBegin`, `AppendBatch`, `AppendCommit`, `CommitFlush`, `RollbackTx` in their error paths |
| `maybe_rotate`, `SegmentWriter::create`, `seal` | `RotateFlush`, `RotateCreate`, `RotateHeader`, `RotateSyncDir`, `RotateSeal` |
| `WalRecorder::commit_events_lsn` on error | `CommitPoison` |
| `force_fsync`, flusher thread, `flush_inner` | `FlushCall`, `FlushWrite`, `FlushSync`, `FlushAdvance` |
| `checkpoint_locked`, `checkpoint_behind_writers`, `install_locked`, `write_snapshot` | `CkptStart`, `CkptTake`, `CkptInstall`, `CkptMark`, `CkptTruncate`, `CkptAbandon` |
| `open_replaying_with`, `discard_unborn_segment`, `open_fresh`, `open_existing`, `cut_corrupt_log`, `replay_segments` | `DiscardUnborn`, `OpenFresh`, `OpenExisting`, `OpenCreate`, `OpenCreateFail`, `OpenFail` with `ReplayOk`, `Readable`, `TornTail`, `Replayed` |
| `Drop for Wal` | `Drop` |
| the world | `Crash`, `PowerLoss` |

Every call that can fail has its failure as a disjunct of the same action, with
the error path the code takes. `Faults` turns on what storage may do beyond
failing a call: write pages back out of order, forget a removal, keep a directory
entry volatile after the file was fsynced.

A rotation that fails leaves one of three files: none or one without a header, which
the next open discards; one with its whole header, when the fsync in `create` fails
and `maybe_rotate` returns without removing it; or one that was to be removed and came
back. The recorder is poisoned next, but a checkpoint that had released the writers
may get its marker into the old segment first, at the LSN the leftover begins with.

Data that no property tells apart is abstract: a record is its LSN, kind, the LSN
it refers to, its segment and its transaction; a segment is full at `Target`
records; a bad frame is a record of kind `torn`.

### Replay and the code

One step is one call of `accept_record`. `pending`, `events`, `bytes`, `streaming`,
`withdrawn` and `checkpoint_lsn_observed` are `ReplayState`; a `PendingTx` is a
transaction (the LSN of its begin) in `pending` with its events and its bytes.
`sink` is what the closure of `open_wal_into` captures: the graph as the sequence
of events applied to it, `before` the clone taken when a transaction starts to
stream, `failed` the provisional failure. `bad` are the events that do not apply
to the graph, chosen once per open.

`last_lsn`, `open`, `logged`, `size`, `committed` and `marked` are the log, kept
beside replay and never read by it: which transactions began and have not ended,
the events and the size of each, the events committed above the fence in commit
order, and the last marker. Each step picks the next record among those that can
follow in the log. With `primitives` transactions of `begin`/`append`/`commit`/
`abort` interleave freely. Without, the log is one of `commit_tx_events`: one
transaction at a time in a run that a failed write or a crash may leave without
its commit, none of them split by the fence (`WalLog` checks that).

| Code | Actions |
|---|---|
| `apply_record` with `withdraw_other_than`, `begin_transaction` | `TxBegin` |
| `add_events` | `Mutation` |
| `take_pending`, the `TxCommit` and `TxAbort` arms | `TxCommit`, `TxAbort` |
| `observe_checkpoint` | `Checkpoint` |
| `skip_fenced_record` and the fence in `accept_record` | the `Fenced` disjunct of each |
| `finish` | `finish` |
| `ReplayStep::Partial`, `Commit`, `Discard` in the sink | the operators `Partial`, `Commit`, `Discard` |

Bytes are counted in units of which `Budget` fill the buffer; a record is as large
as one buffer at most, since a larger one acts the same.

### DurableLog

`log` is the set of transactions a reopen would recover now, `durable` those
reported durable. Commits join at the end, a crash cuts a suffix that is not
durable. `WalLog` implements it under the refinement mapping
`log <- Log, durable <- fsynced`, where `Log` is the snapshot's transactions and
those with a commit record that replay would reach, buffered ones included.

### ChangeHub and the code

`active`, `closed`, `last_lsn`, `last_assigned`, `deferred`, `durable`, `parked`, `ring`,
`ring_floor` and `retention` are `HubState`. `feed[f]` is a consumer's `Subscriber`
with its queue and status, and its `ChangeFeed` with the backlog, `HistoryReplay` and
last delivered LSN. `log` is the history of the graph; `oldest` and `bases` are the WAL
segments and snapshots a history replay can use; `disk` is what a power loss
leaves. `reports` are calls of the durable listener a thread has yet to make after it
released the WAL's lock: they arrive late and in any order. `writer` is what the holder
of the writer mutex does next, so a commit and its `publish` are two steps.

| Code | Actions |
|---|---|
| `publish`, `publish_when_durable`, `publish_stacked`, catalog LSNs | `Commit`, `publish`, `CommitInMemory`, `CatalogCommit` |
| `flush_inner`'s end and `on_durable` | `Fsync`, `FsyncFails`, `on_durable` |
| `Database::activate_changes` | `ActivateListen`, `ActivateRead`, `Activate` |
| `publish_reset` after a restore | `Restore`, `publish_reset`, `RestoreInMemory` |
| checkpoint with `truncate_up_to` and pruning, as the feed sees them | `Checkpoint` |
| `set_retention`, `close`, `ChangeFeed::close` | `set_retention`, `close`, `close_feed` |
| `subscribe`, `HistoryReplay::plan`, `start`, `next` | `Subscribe`, `Plan`, `HistoryStart`, `HistoryNext` |
| `ChangeFeed::poll`, its waker, `Drop` | `PollBacklog`, `PollQueue`, `PollLagged`, `Sleep`, `Drop` |
| the world | `Restart` |

`ChangeHub` implements `ChangeStream` under `durable <- Durable`, the transactions up to
`durable_lsn`, and `cursor <- Cursor`, how many of them a consumer's token covers.
The consumer of the model stores its token with what it received and resumes from it.

### WritePath and the code

`live`, `epoch`, `handle` are `LiveStore` (the graph, its write counter, the holder of its
lock), `writer` the writer mutex, `recorder` is `RecorderState`, `log` what the WAL has. A
write is two mutations, so a graph can be half way; `wr[t].at` is the writer's place
in the code. The three paths are `with_logged_write_guard` and the schema commands
(`staged`), `run_live_fast_with_durable_recorder` (`live`) and `Transaction` (`tx`).

| Code | Actions |
|---|---|
| the checks before the mutex, `constraints_may_reject` | `execute`, `execute_schema_command`, `begin_transaction` |
| the mutex, with its timeout | `Lock`, `WriterLockTimeout`, `Release` |
| `WalWriteScope::begin`, `record`, `commit`, `finish`, `abort` | `arm`, `staged_write`, `live_write`, `tx_write`, `commit`, `commit_events`, `finish`, `abort_write` |
| publish, the live handle and its unwinding | `publish`, `drop_handle`, `unwind_handle`, `unwind_scope` |
| a read of `execute` | `load_full_with_epoch`, `ensure_wal_query_can_start`, `Rows` |
| read-only streams, `PROFILE`: compiled on one load, run on another | `load_full_with_epoch`, `open_cursor`, `Rows` |
| procedures, `SHOW`, read-only transactions, `with_store`, counts | `read_store`, `Rows` |
| flusher and `sync` | `BgFails`, `FlushFails` |

Only `execute` looks at the poison latch between its load and its rows. The reads of
the other two lines never look, so once a write in place failed to commit they show it
although it is not in the log (a finding below). `late` in a reader is history: the graph
was loaded by such a read after the latch was set. `ReadsCommitted` says of all
other rows that they come from a prefix of the log.

### TxStatement and the code

`tx[t]` is a `Transaction` with its `TxInner` (staged graph, buffer, savepoint,
`cursor_active`, `closed`), `stream[t]` the row stream it handed out. `moved` says whether
the staged graph was replaced under a live cursor, `done` is the history of completed
statements. An auto-commit stream is the hidden transaction of `stream_with_params`.

| Code | Actions |
|---|---|
| `begin_transaction`, `stream_with_params` | the same names |
| `execute`, `stream` with `take_savepoint` and `apply_savepoint` | `execute`, `stream_compiled` |
| `commit`, `rollback`, `Drop for Transaction` | `commit`, `rollback`, `drop_transaction` |
| the stream's next row, end, error and `Drop`, `TxStreamLease` | `next_row`, `Finish`, `pull_end`, `Fail`, `drop_stream`, `drop_held` |
| the auto-commit guard | `commit_drained`, `GuardCommit`, `GuardRollback` |

### ManagedCheckpoint and the code

`log` is a sequence of commits and markers, `base` its oldest kept LSN, `synced` the last
on storage. `files`, `cur` are the snapshot directory as the process sees it,
`filesSynced`, `curSynced` as a power loss leaves it at least. `newest` is the store's
lock and `newest_lsn` what is in it, `count` is `commits_since_checkpoint`. `job[p]` is a
checkpoint at one of its steps: `lock`, `take`, `fsync`, `rename`, `syncdir`, `current`,
`installed`, `mark`, `fsync2`, `truncate`, `prune`. The client runs one of them
(asked for, due, or a restore), the checkpoint thread another (behind the writers).
`truth` is the graph at each LSN, `maybe` a restore that is under way.

A graph is the set of the commits in it: their order is the log's. What replaying one of
them twice does is kept: the id-preserving creates refuse an id that exists
(`memory/graph.rs:3226`), so the open fails (`Replays`).

| Code | Actions |
|---|---|
| a commit with `observe_commit` | `commit` |
| `checkpoint_managed`, restores, `checkpoint_to`, the auto-checkpoint thread | `Start`, `on_growth`, `Take` |
| `install_locked`, `write_snapshot` | `Lock`, `Fsync`, `Rename`, `sync_dir`, `write_current`, `Installed` |
| marker, truncation, pruning, end | `checkpoint_marker`, `truncate_up_to`, `prune_old_snapshots`, `Done` |
| the errors of each | `Fails`, `Refused`, `Abort` |
| crash, power loss, and the open that loads CURRENT and replays | `CrashAndOpen` |

### GraphStore and the code

`GraphOps` has the node and relationship records, the two adjacency lists per node,
the label buckets and the id counters, with one operator per mutation of
`memory/graph.rs` and `memory/impls.rs`: the deferral of removals from long lists
(`DeferMin`), `delete_relationships` and `detach_delete_nodes` in batches, cascades,
`clear`, and the event each emits; `apply_event` is `database/replay.rs`.
`NetChanges` is `changes/build.rs`: the accumulator over events, the images of deleted
records (read from the graph before, or collected by the sink of a write in place)
and the change per entity. In `GraphStore` a write is staged, in place with one
of the shapes `live_fast_plan_safe` allows, or `try_clear`; it commits or is thrown away.
One property key and one relationship type stand for all of them.

`clear` takes the staged path here because `with_logged_store_mut` does; the comment at
`database/mod.rs:374-377` says in place.

### PropertyIndex and the code

`live` and `staged` are graphs: the slots with a node (`nodes`), those ever used
(`taken`, an id is used once), labels and the value of one property, and of
`PropertyIndexState` and its counter what concerns that property: `active` and
`any_active` (the key is in `active_keys`, in `any_scope_keys`), the buckets per
scope and across scopes, `count`. Buckets are `exact`, the holders of a value, and
`single`, the one holder of a digest, whose value is only in its record. A value
is one with a stable image; the others are never indexed and always scanned for,
so they count as `NoValue`. `job[j]` is what a lookup is building, outside the lock.
Relationships are indexed by the same buckets and have one scope each, their type.

| Code | Actions |
|---|---|
| `try_ensure_node_property_index`, `insert_bulk`, `build_parallel`, `absorb` | `Claim`, `Build`, `File` |
| `ensure_any_scope_node_property_index`, `activate_any_scope` | `StartMerge`, `Merge`, `EndMerge` |
| `IndexBundle::clone` | `CloneIndexes`, `CloneCount` |
| mutations with `on_node_created`, `on_node_property_set` and the other hooks | `Create`, `SetValue`, `RemoveValue`, `Relabel`, `Delete` |
| `drop_named_index_inner`, `deactivate` | `DropIndex` |
| the end of a write | `Publish`, `Abort` |

A build reads the values of one scope in id order when it is sequential and in any
order across digests when it is parallel: the model takes any order.

### NamedArchive and the code

A graph is `[k, n]`: the k-th restore and the commits up to LSN n. A variable and its
`Synced` twin are what the process sees and what a power loss leaves at least. `job` are
the three writers of the container: the worker, a checkpoint or restore, a forced
persist (`sync`, close). `phase` is the handle's life from `Prepare` to the removal of the
work directory.

| Code | Actions |
|---|---|
| `workspace.rs`, the open | `Prepare`, `OpenWal` |
| commits and `force_fsync` | `Commit`, `force_fsync_wal_only` |
| checkpoint and restore: capture, `install`, drop of covered WAL | `Capture`, `CaptureRestore`, `Install`, `ReplaceSnapshot`, `SyncSnapshot`, `drop_covered_wal`, `InstallFails` |
| the worker, `persist_force` | `WorkerTakes`, `WorkerLocks`, `persist_force` |
| the container: copy, rename, sync | `CopySnapshot`, `CopySegments`, `ReplaceContainer`, `Release`, `SyncContainer`, `WriteFails` |
| close | `Close`, `Down`, `remove_work_dir`, `Closed` |
| the world | `Crash`, `PowerLoss` |

Where a segment begins is free, so a truncation may stop at any LSN up to its
fence. Checkpoint markers carry no commit and are left out, as are the commits a
poisoned recorder's flusher would still write. The size limit is a write that fails.

## What TLC checks

| Run | Bounds | Properties |
|---|---|---|
| `checkpoint` | 10 LSNs, 4 segments of 3 records, 3 transactions, 1 checkpoint, `remove_lost` | `TypeOK`, `FsyncedStaysOnStorage`, `SnapshotMatchesFence`, `RefusedForMarker`, `CorruptForMarker`, `FsyncedRecovered`, `AppendsGrow`, `ImplementsDurableLog` |
| `reordered` | 9 LSNs, 3 segments of 4 records, 2 transactions of up to 2 batches, 1 checkpoint, `reordered_pages`, `remove_lost` | `TransactionsWhole` |
| `live` | 8 LSNs, 3 segments, 2 transactions, 1 checkpoint | `CommitsBecomeDurable`, `CheckpointsEnd` |
| `replay` | 7 records, buffer of 2, fence 0, 2 or 3, with and without the primitives, one event or none that does not apply | `ReplaysCommitted`, `BufferBounded`, `OwnLogsReplay`, `RefusedForCause` |
| `hub_crash` | 3 transactions, 10 LSNs, one power loss, one consumer with a buffer of 1, no retained batch, snapshots that keep one older | `StreamInOrder`, `HubHearsDurable`, `HistoryTrue`, `NothingSkipped`, `ImplementsStream` |
| `hub_live` | 2 transactions or restores, 8 LSNs, retention 0 or 1, with and without a WAL | `RestoresAnnounced`, `LiveComplete`, `ParkedReleased`, `EveryBatchHeard` |
| `write_path` | 2 writers, 1 reader, 3 writes, 2 reads | `LiveIsTheLog`, `ReadsCommitted`, `NeverMisused`, `EpochNamesGraph` |
| `tx_statement` | 2 transactions, 4 mutations | `StatementsWhole`, `CursorOnItsGraph`, `NothingKept`, `CommitsWhole` |
| `managed_checkpoint` | 6 LSNs, 3 commits or restores, 3 checkpoints, one due after every 2 commits, one older file kept | `RecoversDurable`, `CheckpointsEnd` |
| `graph_store` | 2 nodes, 2 relationships, 1 label, 1 value, 6 mutations, lists of 2 defer | `ListsTellRecords`, `ReplayRebuilds`, `NetApplies` |
| `property_index` | 3 nodes (2 at the open), 2 labels, 2 values with one digest, 1 reader, 2 edits, 2 activations counted | `LookupsFind` |
| `named_archive` | 2 commits, 1 restore, 2 checkpoints or forced persists, 2 stops | `RecoversPromised`, `ContainerWhole` |

What each shows is its `about` in `PROJECT.json`. The `TypeOK` of the modules whose runs
do not list it is kept for reading; those of `TxStatement` and
`NamedArchive` are part of the proved invariants.
`NeverTakenBack` and the statements that the findings refute are defined beside the
others; `NeverTakenBack` follows from `ImplementsStream` where
crashes are only power losses.

The bounds are chosen so that the interesting cases happen.

- `WalLog`: a transaction takes three or four LSNs, so two rotations, a truncated
  segment, an exhausted LSN space and an exhausted segment id space all occur; three
  transactions are what it takes to fill one segment, rotate, and have a
  truncation decide about the first; two batches are what it takes to have a
  transaction partly in a file. Behaviours contain any number of crashes and
  reopens. `MaxTx` and `MaxCkpt` only bound how many are started; `MaxLsn` and
  `MaxSeg` stand for the ends of the code's integer ranges, whose errors are
  modelled. An open that returned `Gap` or `Malformed` is final. Deadlock is checked in
  these runs: the log never stops by itself.
- `Replay`: seven records are what it takes to have two transactions, one of which
  streams, is withdrawn by the other, buffers on and tries to commit, or, without the
  primitives, one that streams in two parts, fails to apply and is cut, and one after
  it that commits; a fence of two lets a transaction begin below it and go on above,
  one of three falls on a commit. A buffer of two is filled by one record, by two, or
  by one that finds some room left.
- `ChangeHub`: three transactions are what it takes to have one released, one parked
  behind a report that is late and one more recent; with a buffer of one the second
  batch lags the consumer, and with nothing retained it must resume from the WAL,
  behind a checkpoint that truncated it. A retention of one makes the ring drop and
  keep. Restores, failing fsyncs and closing are in the second run, where no crash is
  needed.
- `WritePath`: two writers meet on the mutex and the poison latch, a third write finds
  what they left; a read and a second one straddle a publication.
- `TxStatement`: four mutations are two statements of one, then a stream of two, or
  one before and one after a failed statement of two.
- `ManagedCheckpoint`: three checkpoints are two that overlap and one that builds on
  what they left; three graphs are two commits and a restore between.
- `GraphStore`: six mutations build two nodes with two relationships (loops and
  parallel ones included), of which one more write deletes several; lists of one and
  of two removals are on both sides of `DeferMin`.
- `PropertyIndex`: with two values of one digest, one of them is in a digest entry and
  the other kept exactly; three nodes are two holders of one value and one of the
  other; two edits are a value that gains a holder and loses one, or a node that
  loses its last label and gains another. A count outlives its index, so two are
  counted over a drop and a rebuild. What a reader builds is its own until it files
  it: its steps commute with the writer's, but for filing between the two reads of a
  clone. `SpecInTurn` therefore lets readers build while nothing is staged, and lets
  one file what it has built while the writer clones; the theorems need no such
  restriction, nor the bounds, and cover values without a digest as well.
- `NamedArchive`: two commits and a restore give a snapshot ahead of, level with and
  behind the WAL; two stops are a crash and one that interrupts the recovery.

The runs other than `WalLog`'s end when their counters are used up, so they do not
check deadlock; where waiting for one another is the hazard, liveness says that
it ends.

Each property is also run against one plausible bug of the code it is about (the
operators commented "Variant"): a dropped fsync, a fence off by one, an LSN read
after the fsync, a listener installed too late, a savepoint not taken, a lock taken
late and so on. TLC finds each of them.

### Fairness

Fairness asks only for what threads do by themselves; nobody has to commit, sync,
checkpoint, restore or open.

- `WalLog`: a committing thread, a flush that was called and a checkpoint that
  started keep going (weak fairness). The flusher's timed wait always ends, so it
  keeps calling. Acquiring the recorder's mutex, which callers of `sync` can take
  again and again, is given strong fairness: the mutex does not starve one waiter for
  ever.
- `ChangeHub`: the flusher fsyncs every interval, the thread that fsynced makes its
  report, the holder of the writer mutex goes on with `publish`, `activate` and
  `publish_reset`, and a consumer that is awake polls (all weak).
- `ManagedCheckpoint`: each step of a checkpoint and its fsync (weak), and the two
  mutexes, which others take and release again (strong).

### Where code and documentation part

Statements of the repository that the models refute are listed as findings in
`PROJECT.json`, with the lines. The passing runs leave out what each needs,
by an element of `Ops` or `Faults`. Each can be reproduced with a `.cfg` that is kept
here, or by changing one as said, with the property named in place of its own; TLC stops
there.

| What | Property | Configuration |
|---|---|---|
| At open `durable_lsn` covers everything readable (`wal.rs:249`): `flush` skips records that are only in the page cache | `FlushedStaysOnStorage` | `WalFlushReopen` |
| the same, for consumers of the feed: an LSN they saw is taken back | `NeverTakenBack` | `HubCrash` with `MaxItems = 4`, `MaxCrash = 2`, `Retentions = {0, 1}`, `Ops = {"process_crash", "power_loss"}` |
| and a commit that gets its LSN again never reaches them | `NothingSkipped` | `HubCrash` with `MaxCrash = 2`, `Ops = {"process_crash", "power_loss"}` |
| A failed commit stays in the buffer and is recovered (`wal.rs:656`) | `FailedNeverRecovered` | `WalFailedCommit` |
| A segment left by a crash before `sync_dir` is used and never synced (`wal.rs:396`) | `FsyncedStaysOnStorage` | `WalEntryUnsynced` |
| A rotation whose header fsync fails leaves its segment, and a checkpoint's marker below it makes the next open `Malformed` (`wal.rs:981`) | `OpenSucceeds` | `WalFailedRotation` |
| Torn by a power loss, that marker is taken for corruption, with pages written in order (`segment.rs:181`) | `NeverCorrupt` | the same |
| A third restore of a named database without a commit in between is announced to nobody (`changes/mod.rs:434`) | `RestoresAnnounced` | `HubNamedReset` |
| `changes_head` names commits a power loss can take (`changes/mod.rs:326`) | `HeadDurable` | `HubCrash` with `MaxItems = 4`, `MaxCrash = 0`, `Retentions = {0, 1}`, `Ops = {}` |
| A feed that starts with "the next commit" gets parked earlier ones (`changes/mod.rs:609`) | `StartsWithNextCommit` | the same |
| Segments truncated between the plan of a history replay and its first poll are skipped without an error (`history.rs:169`) | `NothingSkipped` | `HubTruncateRace` |
| A feed closed in the middle of its history replay goes on with the backlog behind it (`changes/mod.rs:732`) | `NothingSkipped` | `HubCrash` with `MaxCrash = 0`, `Retentions = {1}`, `Ops = {"close"}` |
| History replay builds on a base older than a restore that is not in the WAL (`history.rs:110`) | `HistoryTrue` | `HubRestoreHistory` |
| `checkpoint_to` beside a checkpoint behind the writers leaves a log nobody can open (`snapshot/mod.rs:454`) | `RecoversSomewhere` | `ManagedCheckpoint` with `SPECIFICATION Spec`, `MaxJobs = 2`, `every = 0`, `Ops = {"behind", "to"}`; `RecoversDurable` with `Ops = {"to"}` shows that CURRENT alone does not suffice |
| A restore that dies before CURRENT leaves a file that is offered as a base of history (`store.rs:324`) | `BasesTrue` | `ManagedCheckpoint` with `SPECIFICATION Spec`, `MaxJobs = 2`, `every = 0`, `Ops = {"restore", "crash"}` |
| `rollback` under a live stream drops the graph its cursor is on (`transaction.rs:1011`) | `CursorOnItsGraph` | `TxStatement` with `MaxEvents = 2`, `Ops = {"rollback_streaming"}` |
| A constraint created after the plan was found safe in place quarantines the database (`occ.rs:70`) | `QuarantineForCause` | `WritePath` with `MaxWrites = 2`, `Ops = {"schema"}` |
| A flusher failure right after the commit record: the write fails but is in the log (`write_scope.rs:78`) | `LoggedIsPublished` | `WritePath` with `MaxWrites = 2`, `Ops = {"bg_fails"}` |
| Streams, `PROFILE`, procedures, `SHOW` and read-only transactions never ask the poison latch (`database/stream.rs:149`) | `NextQueryRejected` | `WritePath` with `MaxWrites = 2`, `Ops = {"commit_fails"}` |
| A panic in an in-place write shows readers half of it before the poison (`write_guard.rs:277`) | `NoHalfRead` | `WritePath` with `MaxWrites = 2`, `Ops = {"panic_live"}` |
| The work directory's own entry is not synced until the first container (`workspace.rs:55`) | `RecoversPromised` | `NamedArchive` with `Ops = {"lost_entry"}` |
| A snapshot renamed but not synced by a process that died is trusted (`archive.rs:186`) | `RecoversPromised` | `NamedArchive` with `Ops = {"lost_rename"}` |

`Ops = {"lost_tail"}` of `NamedArchive` shows the first line again on a named database.

## What is proved

Every theorem holds for every value of its module's constants that the named
`ASSUME` allows.

For `WalLog` these are `MaxLsn`, `MaxSeg`, `MaxTx`, `MaxCkpt`, `MaxBatches`, `Target`,
the set of flushers and the set of faults (`BoundsAssumption`).

- `TypeCorrect`: `Spec => []TypeOK`. The part that needs an argument is the LSN
  space: a record's LSN is below `MaxLsn` although `next_lsn` is advanced, rolled
  back, and recomputed at open from what storage kept. `LogInv` strengthens it
  with which files can exist in each phase of a rotation (`Shape`), that only the
  newest file may lack a header and records are in files that have one (`Files`),
  and that LSNs grow along the log and stay below `next_lsn` (`Order`).
- `SnapshotComplete`: `Spec => []SnapshotMatchesFence`. A snapshot is taken from
  `live` with `durable_lsn`; it is complete because every transaction in the log
  is in `live` while no commit is under way (`LiveCovers`), which a failed commit
  breaks, so poison must come before a checkpoint can take the graph, and because
  transactions committed while it is written get LSNs above it (`SnapCovers`).
- `FsyncedDurable`: `Spec => []FsyncedStaysOnStorage`, assuming that
  `"entry_unsynced"` is not among the faults. What an fsync covers is found by
  following the handle taken before the lock was released: every record up to the
  LSN taken is either in that file or already synced (`InFlight`), because a
  rotation syncs the old segment before there is a new one (`UnsyncedTail`), a
  half sealed writer accepts nothing (`SealStops`), and a leftover file starts
  above what is not synced (`LeftOver`, `Bases`). Truncation removes only
  segments whose records the fence covers, and those are in the snapshot. `Entries`
  says that only the newest file's entry can be volatile, with nothing in it that was
  fsynced, and `Kept` that a durable record is never
  behind a bad frame, so no cut takes it.

`SyncInv` is `LogInv` with the seven parts named above, `Inv` adds `Entries` and `Kept`.

The second half of `WalLogProofs` is about what a reopen would make of the files as they
are. The one assumption on `Faults` is what a finding above shows to be needed:
`entry_unsynced` breaks what was fsynced (`WalEntryUnsynced`). Pages are written back in any order but where said.

- `WholeTransactions`: `Spec => []TransactionsWhole`, with every fault. Replay reads the
  frames before the first bad one (`Sound`). A record it applies has its transaction's
  records from the begin to it in the same file, without a gap (`Whole`), and no fence
  or durable LSN falls between them (`Fences`), since a flush takes its LSN under the
  lock a transaction holds. That LSNs name one record needs `Frames`: only a power loss
  makes bad frames, and then nothing else is volatile.
- `LsnsGrow`: `Spec => AppendsGrow`, assuming no `entry_unsynced`. An open starts its
  active file at the larger of the fence and the last readable record plus one; that
  is above all that stays because no base is ahead of what is on storage (`Reached`,
  `Starts`).
- `FsyncedRecoveredHolds`: `Spec => FsyncedRecovered`, the same. With it, a commit that is
  durable is never behind a bad frame (`Kept`), and those the fence skips are in the
  snapshot (`SnapCovers`).
- `LogImplementsDurableLog`: `Spec => ImplementsDurableLog`, the same, step by step:
  commits join at the end because transactions are in the log in the order they began
  (`Numbered`), a power loss leaves a prefix of each file's order and so loses a suffix
  (`LosesSuffix`), and everything else, truncations included, changes neither `Log` nor
  `fsynced` but by what was just synced (`NextDurableLog`).
- `RefusedForMarkerHolds`: `Spec => []RefusedForMarker`, the same. That the log always opens
  is false (see above); this says the one way it is refused. The files are a chain the
  fence reaches into, each starting above what is in the ones before, but for a record that
  took the LSN at which the newest, empty one begins (`Chain`, `Clash`). There is one such
  record at most and it is a marker (`OneMarker`): the commit whose rotation failed
  poisons the recorder next, and only a checkpoint already past the writers gets in
  before. Sealed files are all on storage and end in a record, what may be torn is in the
  newest with a header or below that leftover (`TornEnd`), and markers name fences of
  their time (`Markers`).
- `CorruptForMarkerHolds`: `Spec => []CorruptForMarker`, the same; `TornEnd` says for pages
  written in order that a bad frame is the last.

`ReadInv` holds whatever storage does, `BaseInv` and `OpenInv` need the assumption. In
the whole module there is one lemma per part of the invariant or per group of
actions (commit, flush, checkpoint, stop, open), and one step per action in it.
`WalLogInv` is separate so that TLC can check the invariants it proves about.

For `Replay`, for every length of log, buffer, set of fences and of bad events, with
and without the primitives (`ReplayAssumption`), everything its run checks is
proved, from one invariant (`ReplayInv`):

- `ReplayExact`: `Spec => []ReplaysCommitted`. The invariant it needs says what
  the graph is in the middle (`Provisional`): with nothing streaming it is what was
  committed so far; with a transaction streaming, the clone is what was committed
  and the graph is that with the transaction's events up to those still buffered,
  unless one of them failed. For the others the buffer is all they logged
  (`Buffered`).
- `OwnLogsAccepted`: `Spec => []OwnLogsReplay`. In a log of whole runs the
  transaction under way is the only one that can be streaming and is never a
  withdrawn one (`Runs`).
- `RefusalsJustified`: `Spec => RefusedForCause`, and `BuffersBounded`, because only
  what outgrew the buffer is streamed or withdrawn (`Outgrown`).
- `ReplayTypeCorrect`: `Spec => []TypeOK`, with at most one clone.

For `TxStatement`, for any set of transactions and any number of mutations
(`TxStatementAssumption`), everything its run checks is proved, under the hypothesis
that `"rollback_streaming"` is not in `Ops`: a client does not call `rollback` while
a stream of the transaction is live, which the code does not refuse (see above).

- `TxInvHolds`: `Spec => []TxInv`. The properties are not inductive: a failed stream
  goes back to its savepoint, so the savepoint has to be right although nobody looks at
  it yet (`Savepoints`: it is the graph and buffer length of the completed statements);
  whoever ends a stream clears `cursor_active`, so a cursor must be live exactly as long
  as its stream, on a graph that was not moved (`Cursors`); handle, writer mutex and
  `closed` go together, and the graph a writer began with is still the published one
  (`Lifecycle`), without which a commit could overwrite another's; graph and buffer hold
  the same statements (`Contents`); and what has ended has nothing left (`Leftovers`).
- `StatementsWholeHolds`, `CursorOnItsGraphHolds`, `NothingKeptHolds`: follow from it.
- `CommitsWholeHolds`: `Spec => CommitsWhole`, the action property, from `TxInv` in the
  state before: one lemma for each action that publishes, and that the others leave
  `live` and `log` alone.

The proof has one lemma per action; since a step changes one transaction and its
stream, a lemma about `Good` of that one, and one that the others keep theirs, as
they do not see the mutex or the published graph change while they hold it.

For `PropertyIndex`, for any nodes, labels, values, digests and readers
(`PropertyIndexAssumption`), what its run checks is proved, with every interleaving of
builds, clones and edits:

- `IndexInvHolds`: `Spec => []IndexInv`. That lookups find what scans find is not
  inductive: a lookup sees the holders, while an edit also depends on where each value
  is kept. `Sound` says it of one set of buckets against a listing of who has which
  value: a value kept exactly is kept with all its holders, any other has one holder,
  in its digest entry, and a digest entry is of a node whose value has that digest and
  is not kept exactly. The records change before the hook runs, so the lemmas about
  `Insert` and `Remove` speak of listings that differ from the records at one node. A
  label move is a listing under the new scope and an unlisting under the old one
  (`Under`), a build a listing of the nodes walked so far (`Part`). The counter of a
  clone is read after its index, so it can be too large, never 0 for an active index,
  because `live.active` does not go back while the writer clones.
- `LookupsFindHolds`: `Spec => []LookupsFind`, from it.

For `WritePath`, for any writers and readers and any number of writes and reads, with
every failure and panic in `Ops` (`WritePathAssumption`, `NobodyAssumption`), all that its run
checks is proved:

- `WriteInvHolds`: `Spec => []WriteInv`. What readers load depends on a write that is not
  finished, so the invariant says for each place in the code how far its writer is:
  who holds the writer mutex and the store's lock (`Locks`), which places each of the three
  paths passes through (`Places`), that a healthy recorder is armed exactly in an open
  scope and has recorded what the writer did (`Scopes`), and where the staged and the live
  graph then are against the log (`Progress`, `Follows`): behind it by one write between
  the commit record and the publication, ahead of it by one during a write in place,
  which nobody can load. Once something poisons the database `Follows` says nothing, so
  reads under way are kept apart (`Loads`): rows come from a load made before the latch,
  but for the late ones that `ReadsCommitted` exempts, and the log only grows. `Epochs` is `EpochNamesGraph` with what a load can have returned.
- `LiveIsTheLogHolds`, `ReadsCommittedHolds`, `NeverMisusedHolds`, `EpochNamesGraphHolds`
  follow from it.

For `ChangeHub`, for any consumers, queue capacity, retention limits, commits, restores and
crashes (`ChangeHubAssumption`):

- `HubInvHolds`: `Spec => []HubInv`. The order of the stream rests on numbers that
  three parties keep: the WAL's next and durable LSN, the writer between its commit and its
  publication, and the hub's `last_lsn`, `last_assigned` and `durable`. `Modes` says
  which of them exist before and after `activate_changes`; `LogOrder` and `WalOrder` that the
  log is in order and a power loss cuts it above what is on disk; `Numbers` where the
  counters are against each other and against everything announced, the writer's
  pending batch included; `Hears` that the durable LSN is known to the hub or on its way
  to it, also while capture is being switched on.
- `StreamInOrderHolds`, `HubHearsDurableHolds`: follow from it.
- `RestoresAnnouncedHolds`: `Spec => []RestoresAnnounced` for databases that mark their
  checkpoints (`Marker`, managed snapshots): the marker takes an LSN, which leaves
  the Reset a place of its own. A named database writes none, and there the third restore in
  a row is announced by no Reset of its own (finding at `changes/mod.rs`).
- `HistoryTrueHolds`: `Spec => []HistoryTrue` without restores and without a truncation
  under a running replay, the two cases in which the code does deliver from a wrong
  graph (findings). The invariant `Rebuilt` says that every base holds the graph of its
  LSN, and that what a replay has rebuilt is the graph of the place it has reached, whatever
  is committed, truncated or cut off meanwhile.
- `LiveCompleteHolds`: `Spec => []LiveComplete`, without any such condition. `LiveInv` adds
  two parts. `Window`: `ring` is the end of what was released, exactly the batches above
  `ring_floor`, through every trimming. `Stores`: what a feed has in store (`backlog`, then
  `queue`) is in order, and every released batch above the feed's start that it has not
  delivered is in store, or lies behind the store of a feed that has lagged. So a queue
  that overflows loses only the end, and a batch that history already delivered is
  dropped from the backlog and no other.
- `NothingSkippedHolds`: `Spec => []NothingSkipped`, under three hypotheses, each of which
  a finding above needs broken: no `"close"` (a closed feed hands out the backlog behind
  an unfinished replay), no `"truncate_replay"` (a segment removed under a replay), and not both
  `"process_crash"` and `"power_loss"` (LSNs an open took to be durable are given out again).
  `ResumeInv` adds three parts to `LiveInv`. `Captured`: a transaction since capture began
  is announced, or is the writer's own to announce; every earlier one is at or below
  `ring_floor`, so that below the window there is the WAL and above it nothing unheard of.
  `Secured`: what a feed, a consumer or `stream` holds, and everything up to the end of a
  running replay, is within what no crash takes back (`Kept`: the disk if power may fail, else
  all that was written), except for Resets, which reach over at most two LSNs further; so a
  token never names an LSN that a later commit will get. `Resumes`: where each feed is
  against its consumer's token (`Position`), that a replay starts from a base at or below it and
  the segments it listed reach on from where it is (`Replay`), and that no transaction lies
  between the end of the history and the batches in store (`NoGap`). A step of the
  hub keeps every feed in its place (`AlikeRest`), a poll takes the first batch in store, and
  by `NextBatch` or `ReadNext` no transaction lies before it that the consumer has not had.

That `UpTo` and `Ready` are the prefixes meant is a lemma by the least element of a set of
positions (`LeastOf`, from the library's theorem that strict inclusion of finite sets is
well-founded), which is how the proofs do induction over a sequence without an induction
theorem. A feed has fifteen fields: each way of changing it is an operator (`Pushed`,
`Moved`, ...) with a lemma that says which fields it keeps, so that no step opens the record.

For `ManagedCheckpoint`, for any number of commits, restores and checkpoints, any commit
count and number of kept files, with failures of every step and crashes
(`ManagedCheckpointAssumption`), under the hypothesis that `"to"` is not in `Ops`: the
`checkpoint_to` that truncates the log for a file of its own breaks it (finding at
`snapshot/mod.rs:454`).

- `CheckpointInvHolds`: `Spec => [](CheckpointInv /\ Late)`. What an open recovers is said of
  snapshots, not of the disk: `Good(s)` if the log replays from `s` to the graph at every LSN
  that storage may keep, or to a restore under way, and applies no commit twice. `Loadable`
  says which files must be good, on every disk a power loss may leave: the one CURRENT
  names, old or new; before there is a CURRENT, any that could be the newest, and the
  empty graph while no file is sure to be there. `Directory` and `Order` say that these files
  exist, cover nothing that is not durable, and that the log still goes back to them. `Jobs`
  says for each place of a checkpoint how far its file, CURRENT and `newest_lsn` are: one
  that runs behind the writers may find its snapshot overtaken, and is held to it only while
  its LSN is above `newest_lsn`, which is what `install_locked` checks. `Locks` says that one
  at a time gets past that. `Restoring`: nothing but markers follows a restore's LSN until it
  is published, and a restore that failed after its file was named leaves the recorder
  poisoned, so nothing is committed over it. `Late` is what a restore needs of the checkpoint
  behind it: it took its LSN before the restore kept the writers out, so it will find
  itself overtaken.
- `RecoversDurableHolds`: `Spec => []RecoversDurable`, from it.

The steps are one lemma per action; those that change only a checkpoint's place and what is
on storage share a lemma (`Quiet`), as do those of the holder of `newest` (`WriterQuiet`) and
those that append (`AppendsOne`).

For `NamedArchive`, for any number of commits, restores, checkpoints, forced persists and
stops (`NamedArchiveAssumption`), with or without failing writes, under the hypothesis that
none of `"lost_entry"`, `"lost_rename"`, `"lost_tail"` is in `Ops`: that a power loss takes
the entry of the new work directory, or what a dead process left in files that the open
trusts without a sync, which breaks it (findings above).

- `ArchiveInvHolds`: `Spec => []ArchiveInv`. Every file has an older version a power loss
  may return to, each by itself, so `WorkWhole` speaks of all mixtures: the WAL reaches back
  to the snapshot that is on disk for sure, the snapshot is of LSNs that are fsynced, and any
  of the two snapshots with any end of the WAL is a graph that was live on this
  timeline and has what was promised. That needs the WAL to have nothing volatile while
  the two snapshots are of different restores, which the writer mutex sees to, held by
  a restore from its capture on. `WorkEntry` and `ClosesFull` are about the directory's
  removal: where it is gone, the container is on disk with everything, because a close
  asks for one more container and the worker clears `dirty` before it copies. `CopyWhole` is
  why a copy made while commits go on is one database: `write_lock` keeps the snapshot in place
  between the copy of it and of the segments. `LiveIsNewest` says that the
  published graph is the newest of the work directory, unless a restore is being installed or
  failed at it, and then the archive is poisoned; `CheckpointGraph` and `ForcedGraph` which
  graph each job has, and from which step on it is the snapshot.
- `RecoversPromisedHolds`, `ContainerWholeHolds`: follow from it.

There is one lemma per action, and one for each way in which several change the same things:
the worker before it copies (`WorkerMoves`), who copies (`CopierMoves`, `CopierKeeps`),
failures (`FailureHolds`), and the end of a process (`DownHolds`).

Only model-checked: the refinement of `ChangeStream`
(its mapping selects from the log with a `LAMBDA`, which the provers do not open);
`BasesTrue`, which the code breaks; everything about `GraphStore`; and
every liveness property, which is out of the prover's reach, as is what the folds and recursive
functions of `GraphOps` and `NetChanges` compute for every input.

## What is not modelled

- In `WalLog`: a second checkpoint at the same time and `checkpoint_to` (they are in
  `ManagedCheckpoint`); the `begin`/`append`/`commit`/`abort` calls, which have no caller
  outside tests (their records are in `Replay`); a header rewrite torn by a power
  loss; pages dropped by a failed fsync; removals of a truncation reordered by the
  file system; a `segment_target_bytes` smaller than a header, which is not rejected
  and would rotate for every transaction; the mirror of a named database.
- In `Replay`: commits, aborts and mutations of a transaction that never began or
  already ended, which no writer of whole transactions leaves (replay refuses
  them); decoding; `CollectEvents`, a second sink for callers that want a list.
- In `ChangeHub`: the byte limit of retention, which evicts as the batch limit does;
  what is in a batch (`NetChanges`).
- In `WritePath`: which plans are safe in place, a free choice, except for the check
  for constraints, whose race is in; the in-memory database, where a commit
  cannot fail.
- In `TxStatement`: read streams on the published graph, `EXPLAIN` and `PROFILE`, which
  change nothing; a panic inside a statement, which poisons the handle's mutex.
- In `ManagedCheckpoint`: `snapshot_to_dir`, which only reads; the byte count that starts
  the checkpoint behind the writers, which may start any time.
- In `PropertyIndex`: how a value or a record is encoded, the tables' sharing and
  copying on write, the relationships' index; the lookup of several at once. A
  mutation that fails inside the index (out of memory) is a panic, which
  `WritePath` has.
- In `GraphStore`: the sorted, text, point, vector and full-text indexes, the
  constraints and their events, relationship-type buckets, record encoding and
  copy-on-write pages.
- In `NamedArchive`: the container's codec and encryption, the name and the lock
  (`named.rs`, `lock.rs`), temporary files, containers of only a snapshot.
- The query pipeline (parser, analyzer, compiler, optimizer, executor) and with it most of
  the lines of the repository: functions of a query and a graph whose
  correctness is the language's semantics, over data no small set stands for.
  Codecs, import and export, the server and the bindings are input and output around
  `Database`. The plan cache and the WAL directory lock have state of their own and are
  still to be done; `WalLog` assumes what the lock is for, one live `Wal` per directory.

`PROJECT.json` has the status of each component with the reason.

## Plan

1. The sorted, text, point, full-text and vector indexes of `lora-store`: what their
   lookups return against a scan, over edits and rebuilds.
2. The WAL directory lock: takeover of a stale lock, waiting for a handle this process
   is closing. The plan cache's epochs. The Node binding's write queue.
3. Proofs: `GraphStore`, as far as its folds allow; `NothingSkipped` with `"close"`, once a
   feed closed in the middle of its history ends there.
