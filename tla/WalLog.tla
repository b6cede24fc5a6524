------------------------------- MODULE WalLog -------------------------------
(***************************************************************************)
(* The write-ahead log of LoraDB: crates/lora-wal (Wal, SegmentWriter,     *)
(* replay, the GroupSync flusher) driven through WalRecorder by one writer *)
(* at a time, a caller of sync/flush, and one checkpoint at a time.        *)
(*                                                                         *)
(* A log record is its LSN, its kind, the LSN it refers to (`ref`: the     *)
(* TxBegin of a batch or commit, the snapshot of a marker), the segment    *)
(* file it goes to, and the transaction it belongs to (`tx`, not stored by *)
(* the code: LSNs are handed out again after a crash loses the tail, so a  *)
(* transaction's identity has to be carried beside them).  A file is the   *)
(* set of its records, read in LSN order; that LSNs only grow along a file *)
(* is checked (AppendsGrow), not assumed.                                  *)
(*                                                                         *)
(* Storage.  `written` is what the operating system has, `synced` what     *)
(* survives a power loss.  A power loss keeps `synced`, any records the    *)
(* kernel happened to write back, and garbage ("torn") where a record was  *)
(* only partly written.  A process crash keeps `written`.  A failed fsync  *)
(* leaves the pages dirty.                                                 *)
(***************************************************************************)
EXTENDS Integers, FiniteSets

CONSTANTS
  MaxLsn,       \* the end of the LSN space (u64::MAX), never handed out
  MaxSeg,       \* largest segment id
  MaxTx,        \* transactions started in a behaviour
  MaxCkpt,      \* checkpoints started in a behaviour
  MaxBatches,   \* MutationBatch records a transaction may need
  Target,       \* segment_target_bytes, counted in records
  Flushers,     \* callers of flush_inner(ForceFsync): subset of AllFlushers
  Faults        \* what storage may do beyond failing calls: subset of AllFaults

AllFlushers == {"flusher", "sync", "ckpt"}
Foreground == Flushers \ {"flusher"}     \* those that come through WalRecorder

AllFaults ==
  {"reordered_pages",   \* unsynced records reach the disk in any order
   "remove_lost",       \* an ignored remove_file fails, or is undone by a crash
   "entry_unsynced"}    \* fsync of a new file does not make its entry durable

ASSUME BoundsAssumption ==
  /\ MaxLsn \in Nat \ {0} /\ MaxSeg \in Nat \ {0} /\ MaxTx \in Nat
  /\ MaxCkpt \in Nat
  /\ MaxBatches \in Nat \ {0} /\ Target \in Nat \ {0}
  /\ Flushers \subseteq AllFlushers /\ Faults \subseteq AllFaults

Lsns == 0 .. MaxLsn - 1
SegIds == 1 .. MaxSeg
Txs == 0 .. MaxTx                        \* 0 for records of no transaction
Kinds == {"begin", "batch", "commit", "marker", "torn"}
Record == [lsn : Lsns, kind : Kinds, ref : Lsns, seg : SegIds, tx : Txs]

VARIABLES
  \* the directory and its files
  dir, dirSynced,    \* segment files present; those whose entry is durable
  born, sealed,      \* files with a whole header; with FLAG_SEALED in it
  base,              \* base_lsn of each header
  written, synced,   \* records in the files; those fsynced
  \* the newest installed snapshot: the fence the next open replays from
  fence, snapTx,     \* its LSN; the transactions in it
  \* WalState and the latches
  up,                \* "down", "creating", "up", "corrupt" or "failed"
  next_lsn, durable_lsn, active,
  pending,           \* the active SegmentWriter's buffer
  headerSealed,      \* the active SegmentWriter's header.sealed
  bg_failure,        \* the flusher latched a failure and stopped
  poisoned,          \* RecorderState::poisoned
  \* the transaction in commit_tx
  cpc, cleft, ctx, cfirst, cflushed,
  \* the flush_inner calls in progress, and the file handle and LSN they took
  fpc, fseg, flsn,
  \* the checkpoint in progress
  kpc, klsn, ktx, kholds,
  ckpts,             \* checkpoints started so far
  \* the in-memory graph, and what callers were told
  live,              \* transactions in the live graph
  started,           \* transactions begun so far (names the next one)
  fsynced,           \* reported durable after an fsync
  flushOk,           \* covered by a flush()/sync() that returned Ok
  failed             \* whose commit returned an error

disk    == <<dir, dirSynced, born, sealed, base, written, synced>>
files   == <<dir, dirSynced, born, sealed, base>>
snap    == <<fence, snapTx>>
mem     == <<next_lsn, durable_lsn, active, pending, headerSealed>>
latches == <<bg_failure, poisoned>>
commit  == <<cpc, cleft, ctx, cfirst, cflushed>>
flush   == <<fpc, fseg, flsn>>
ckpt    == <<kpc, klsn, ktx, kholds>>
told    == <<live, started, ckpts, fsynced, flushOk, failed>>
vars    == <<disk, snap, up, mem, latches, commit, flush, ckpt, told>>

Commits(S) == {r \in S : r.kind = "commit"}
TxUpTo(S, l) == {r.tx : r \in {q \in Commits(S) : q.lsn <= l}}
In(seg) == {r \in written : r.seg = seg}
Greatest(S) == CHOOSE n \in S : \A m \in S : m <= n
Least(S) == CHOOSE n \in S : \A m \in S : n <= m

\* The WAL state lock is held from maybe_rotate to the TxCommit record.
StateFree == cpc \notin {"locked", "create", "header", "syncdir", "seal",
                         "append", "batches"}
\* WalRecorder's state lock is held through a foreground flush.
RecorderFree == \A s \in Foreground : fpc[s] = "idle"
\* The database's writer mutex.
WriterFree == cpc = "idle" /\ ~kholds
Healthy == ~bg_failure

-----------------------------------------------------------------------------
Init ==
  /\ dir = {} /\ dirSynced = {} /\ born = {} /\ sealed = {}
  /\ base = [s \in SegIds |-> 0]
  /\ written = {} /\ synced = {}
  /\ fence = 0 /\ snapTx = {}
  /\ up = "down"
  /\ next_lsn = 1 /\ durable_lsn = 0 /\ active = 1
  /\ pending = {} /\ headerSealed = FALSE
  /\ bg_failure = FALSE /\ poisoned = FALSE
  /\ cpc = "idle" /\ cleft = 0 /\ ctx = 0 /\ cfirst = 0 /\ cflushed = FALSE
  /\ fpc = [s \in Flushers |-> "idle"]
  /\ fseg = [s \in Flushers |-> 1] /\ flsn = [s \in Flushers |-> 0]
  /\ kpc = "idle" /\ klsn = 0 /\ ktx = {} /\ kholds = FALSE
  /\ live = {} /\ started = 0 /\ ckpts = 0
  /\ fsynced = {} /\ flushOk = {} /\ failed = {}

-----------------------------------------------------------------------------
(* Wal::commit_tx_events, under the writer mutex.                          *)

\* SegmentWriter::flush_buffer, when the write succeeds.
flush_buffer == written' = written \cup pending /\ pending' = {}

\* The recorder hands the events over; check_healthy, then the state lock.
CommitLock(n) ==
  /\ up = "up" /\ WriterFree /\ RecorderFree
  /\ ~poisoned /\ Healthy /\ started < MaxTx
  /\ started' = started + 1 /\ ctx' = started + 1
  /\ cpc' = "locked" /\ cleft' = n /\ cflushed' = FALSE
  /\ UNCHANGED <<disk, snap, up, mem, latches, cfirst, flush, ckpt,
                 live, ckpts, fsynced, flushOk, failed>>

Torn(r) == [r EXCEPT !.kind = "torn"]

Full == Cardinality(In(active)) + Cardinality(pending) >= Target

\* Directory entries that are durable once file seg is fsynced.
WithEntry(seg) ==
  IF "entry_unsynced" \in Faults THEN dirSynced ELSE dirSynced \cup ({seg} \cap dir)

\* A commit that fails poisons the recorder next (CommitPoison).
Fails == cpc' = "failing" /\ UNCHANGED <<cleft, ctx, cfirst, cflushed>>

\* Variant: rotation only writes the old segment out, without the fsync.
RotateFlushNoSync ==
  /\ cpc = "locked" /\ Full
  /\ flush_buffer /\ cpc' = "create"
  /\ UNCHANGED <<files, synced, snap, up, next_lsn, durable_lsn, active,
                 headerSealed, latches, cleft, ctx, cfirst, cflushed, flush,
                 ckpt, told>>

RotateFlush ==
  /\ cpc = "locked" /\ Full
  /\ \/ /\ flush_buffer
        /\ synced' = synced \cup {r \in written' : r.seg = active}
        /\ cpc' = "create" /\ UNCHANGED <<cleft, ctx, cfirst, cflushed>>
        /\ dirSynced' = WithEntry(active)
     \/ flush_buffer /\ Fails /\ UNCHANGED <<synced, dirSynced>>   \* fsync failed
     \/ Fails /\ UNCHANGED <<written, pending, synced, dirSynced>>  \* write failed
  /\ UNCHANGED <<dir, born, sealed, base, snap, up, next_lsn, durable_lsn, active,
                 headerSealed, latches, flush, ckpt, told>>

\* SegmentWriter::create opens with create_new: an existing file fails it.
RotateCreate ==
  /\ cpc = "create"
  /\ \/ /\ active + 1 \in SegIds \ dir
        /\ dir' = dir \cup {active + 1}
        /\ cpc' = "header" /\ UNCHANGED <<cleft, ctx, cfirst, cflushed>>
     \/ Fails /\ UNCHANGED dir
  /\ UNCHANGED <<dirSynced, born, sealed, base, written, synced, snap, up, mem,
                 latches, flush, ckpt, told>>

\* A failed header write leaves a file the next open discards.  If only the
\* fsync after it fails, the whole header stays, and nobody removes the file.
RotateHeader ==
  /\ cpc = "header"
  /\ \/ /\ born' = born \cup {active + 1}
        /\ base' = [base EXCEPT ![active + 1] = next_lsn]
        /\ dirSynced' = WithEntry(active + 1)
        /\ cpc' = "syncdir" /\ UNCHANGED <<cleft, ctx, cfirst, cflushed>>
     \/ /\ born' = born \cup {active + 1}
        /\ base' = [base EXCEPT ![active + 1] = next_lsn]
        /\ Fails /\ UNCHANGED dirSynced
     \/ Fails /\ UNCHANGED <<born, base, dirSynced>>
  /\ UNCHANGED <<dir, sealed, written, synced, snap, up, mem,
                 latches, flush, ckpt, told>>

\* The new file is dropped again.  An error of remove_file is ignored and no
\* sync_dir follows, so the file may be there at the next open.
DropNew ==
  \/ /\ dir' = dir \ {active + 1} /\ born' = born \ {active + 1}
     /\ dirSynced' = dirSynced \ {active + 1}
  \/ "remove_lost" \in Faults /\ UNCHANGED <<dir, born, dirSynced>>

RotateSyncDir ==
  /\ cpc = "syncdir"
  /\ \/ /\ dirSynced' = dir
        /\ cpc' = "seal" /\ UNCHANGED <<cleft, ctx, cfirst, cflushed>>
        /\ UNCHANGED <<dir, born>>
     \/ DropNew /\ Fails
  /\ UNCHANGED <<sealed, base, written, synced, snap, up, mem, latches, flush,
                 ckpt, told>>

\* seal() syncs again, then sets header.sealed in memory before the header is
\* rewritten: a failure may leave it set in memory only, or in the file too.
RotateSeal ==
  /\ cpc = "seal"
  /\ \/ /\ sealed' = sealed \cup {active} /\ headerSealed' = FALSE
        /\ active' = active + 1
        /\ cpc' = "append" /\ UNCHANGED <<cleft, ctx, cfirst, cflushed>>
        /\ UNCHANGED <<dir, born, dirSynced>>
     \/ /\ DropNew /\ Fails
        /\ headerSealed' \in BOOLEAN
        /\ sealed' \in IF headerSealed' THEN {sealed, sealed \cup {active}}
                                        ELSE {sealed}
        /\ UNCHANGED active
  /\ UNCHANGED <<base, written, synced, snap, up, next_lsn, durable_lsn,
                 pending, latches, flush, ckpt, told>>

Rec(l, k, ref) == [lsn |-> l, kind |-> k, ref |-> ref, seg |-> active,
                   tx |-> IF k = "marker" THEN 0 ELSE ctx]

\* Variant: the last LSN is handed out too.
LsnsLeftLast(n) == next_lsn + n <= MaxLsn + 1

\* alloc_lsn fails when the LSN after the one it would return does not exist.
LsnsLeft(n) == next_lsn + n <= MaxLsn

\* append_tx: TxBegin and the first batch.
AppendBegin ==
  /\ cpc = "append" \/ (cpc = "locked" /\ ~Full)
  /\ IF LsnsLeft(2) /\ ~headerSealed
     THEN /\ pending' = pending \cup {Rec(next_lsn, "begin", next_lsn),
                                      Rec(next_lsn + 1, "batch", next_lsn)}
          /\ next_lsn' = next_lsn + 2
          /\ cfirst' = next_lsn /\ cleft' = cleft - 1 /\ cpc' = "batches"
          /\ UNCHANGED <<ctx, cflushed>>
     ELSE Fails /\ UNCHANGED <<pending, next_lsn>>
  /\ UNCHANGED <<disk, snap, up, durable_lsn, active, headerSealed, latches,
                 flush, ckpt, told>>

\* The error path of commit_tx_events: forget the transaction if none of it
\* reached the file, otherwise drop what is buffered and keep the LSNs used.
RollbackTx(toFile) ==
  /\ Fails
  /\ IF toFile
     THEN pending' = {} /\ UNCHANGED next_lsn
     ELSE /\ pending' = {r \in pending : r.lsn < cfirst}
          /\ next_lsn' = cfirst

\* Variant: a failed write of the earlier batches goes unnoticed.
AppendBatchUnchecked ==
  /\ cpc = "batches" /\ cleft > 0 /\ LsnsLeft(1)
  /\ written' \in {written, written \cup pending}
  /\ pending' = {Rec(next_lsn, "batch", cfirst)}
  /\ next_lsn' = next_lsn + 1 /\ cleft' = cleft - 1 /\ cflushed' = TRUE
  /\ UNCHANGED <<files, synced, snap, up, durable_lsn, active, headerSealed,
                 latches, cpc, ctx, cfirst, flush, ckpt, told>>

\* append_tx: write the buffer out, then buffer one more batch.
AppendBatch ==
  /\ cpc = "batches" /\ cleft > 0
  /\ \/ /\ written' = written \cup pending
        /\ IF LsnsLeft(1)
           THEN /\ pending' = {Rec(next_lsn, "batch", cfirst)}
                /\ next_lsn' = next_lsn + 1
                /\ cleft' = cleft - 1 /\ cflushed' = TRUE
                /\ UNCHANGED <<cpc, ctx, cfirst>>
           ELSE RollbackTx(TRUE)
     \/ RollbackTx(cflushed) /\ UNCHANGED written
  /\ UNCHANGED <<files, synced, snap, up, durable_lsn, active, headerSealed,
                 latches, flush, ckpt, told>>

\* append_tx: TxCommit; the state lock is released.
AppendCommit ==
  /\ cpc = "batches" /\ cleft = 0
  /\ IF LsnsLeft(1)
     THEN /\ pending' = pending \cup {Rec(next_lsn, "commit", cfirst)}
          /\ next_lsn' = next_lsn + 1
          /\ cpc' = "flush" /\ UNCHANGED <<cleft, ctx, cfirst, cflushed>>
     ELSE RollbackTx(cflushed)
  /\ UNCHANGED <<disk, snap, up, durable_lsn, active, headerSealed, latches,
                 flush, ckpt, told>>

\* Variant: a failed write leaves part of its bytes in the file.
CommitFlushNoUndo ==
  /\ cpc = "flush"
  /\ \/ flush_buffer /\ live' = live \cup {ctx} /\ cpc' = "idle"
     \/ /\ \E r \in pending : /\ \A q \in pending : r.lsn <= q.lsn
                               /\ written' = written \cup {Torn(r)}
        /\ cpc' = "failing" /\ UNCHANGED <<pending, live>>
  /\ UNCHANGED <<files, synced, snap, up, next_lsn, durable_lsn, active,
                 headerSealed, latches, cleft, ctx, cfirst, cflushed, flush,
                 ckpt, started, ckpts, fsynced, flushOk, failed>>

\* Phase 2, flush_inner(PerConfiguredMode).  Ok acknowledges the commit and
\* the host publishes it; on a write error the records stay in the buffer.
CommitFlush ==
  /\ cpc = "flush"
  /\ \/ /\ flush_buffer
        /\ live' = live \cup {ctx}
        /\ cpc' = "idle" /\ UNCHANGED <<cleft, ctx, cfirst, cflushed>>
     \/ pending # {} /\ Fails /\ UNCHANGED <<written, pending, live>>
  /\ UNCHANGED <<files, synced, snap, up, next_lsn, durable_lsn, active,
                 headerSealed, latches, flush, ckpt, started, ckpts,
                 fsynced, flushOk, failed>>

CommitPoison ==
  /\ cpc = "failing" /\ RecorderFree
  /\ poisoned' = TRUE /\ failed' = failed \cup {ctx} /\ cpc' = "idle"
  /\ UNCHANGED <<disk, snap, up, mem, bg_failure, cleft, ctx, cfirst,
                 cflushed, flush, ckpt, live, started, ckpts, fsynced,
                 flushOk>>

-----------------------------------------------------------------------------
(* Wal::flush_inner(ForceFsync).  The flusher's tick comes at any time; a  *)
(* foreground call checks the latches and keeps the recorder locked.       *)

FlushCall(s) ==
  /\ up = "up" /\ fpc[s] = "idle" /\ Healthy
  /\ s \in Foreground => RecorderFree /\ ~poisoned
  /\ s = "ckpt" => kpc \in {"fsync1", "fsync2"}
  /\ fpc' = [fpc EXCEPT ![s] = "called"]
  /\ UNCHANGED <<disk, snap, up, mem, latches, commit, fseg, flsn, ckpt, told>>

\* flush_inner returned Ok to s; `covered` is what a foreground caller may
\* now count on.
FlushDone(s, covered) ==
  /\ fpc' = [fpc EXCEPT ![s] = "idle"]
  /\ flushOk' = IF s = "sync" THEN flushOk \cup covered ELSE flushOk
  /\ kpc' = IF s = "ckpt" THEN (IF kpc = "fsync1" THEN "take" ELSE "truncate")
                          ELSE kpc
  /\ UNCHANGED <<klsn, ktx, kholds>>

\* flush_inner returned an error to s.  A failed checkpoint ends.
FlushFailed(s) ==
  /\ fpc' = [fpc EXCEPT ![s] = "idle"]
  /\ bg_failure' = (bg_failure \/ s = "flusher")
  /\ poisoned' = (poisoned \/ s \in Foreground)
  /\ kpc' = IF s = "ckpt" THEN "idle" ELSE kpc
  /\ kholds' = (kholds /\ s # "ckpt")
  /\ UNCHANGED <<klsn, ktx>>

\* Variant: looks at the buffer, which every commit has already written out.
NothingBuffered == pending = {}

\* Everything handed out is already known durable.
NothingNew == durable_lsn >= next_lsn - 1

\* Under the state lock: write the buffer, take the handle and the last LSN,
\* or return at once when nothing is new.
FlushWrite(s) ==
  /\ fpc[s] = "called" /\ StateFree
  /\ \/ /\ flush_buffer
        /\ UNCHANGED latches
        /\ IF NothingNew
           THEN FlushDone(s, live) /\ UNCHANGED <<fseg, flsn>>
           ELSE /\ fpc' = [fpc EXCEPT ![s] = "written"]
                /\ fseg' = [fseg EXCEPT ![s] = active]
                /\ flsn' = [flsn EXCEPT ![s] = next_lsn - 1]
                /\ UNCHANGED <<ckpt, flushOk>>
     \/ /\ pending # {}                                     \* write failed
        /\ FlushFailed(s)
        /\ UNCHANGED <<written, pending, fseg, flsn, flushOk>>
  /\ UNCHANGED <<files, synced, snap, up, next_lsn, durable_lsn, active,
                 headerSealed, commit, live, started, ckpts,
                 fsynced, failed>>

\* The fsync, with no lock held: it covers whatever the file holds by now.
FlushSync(s) ==
  /\ fpc[s] = "written"
  /\ \/ /\ synced' = synced \cup In(fseg[s])
        /\ dirSynced' = WithEntry(fseg[s])
        /\ fpc' = [fpc EXCEPT ![s] = "synced"]
        /\ UNCHANGED <<latches, ckpt>>
     \/ FlushFailed(s) /\ UNCHANGED <<synced, dirSynced>>
  /\ UNCHANGED <<dir, born, sealed, base, written, snap, up, mem, commit, fseg,
                 flsn, told>>

\* Variant: reads next_lsn after the fsync instead of before it.
FlushAdvanceLate(s) ==
  /\ fpc[s] = "synced" /\ StateFree
  /\ durable_lsn' = next_lsn - 1
  /\ fsynced' = fsynced \cup TxUpTo(written, next_lsn - 1)
  /\ FlushDone(s, live)
  /\ UNCHANGED <<disk, snap, up, next_lsn, active, pending, headerSealed,
                 latches, commit, fseg, flsn, live, started, ckpts, failed>>

\* Under the state lock again: advance durable_lsn unless a later fsync did.
FlushAdvance(s) ==
  /\ fpc[s] = "synced" /\ StateFree
  /\ durable_lsn' = IF flsn[s] <= durable_lsn THEN durable_lsn ELSE flsn[s]
  /\ fsynced' = fsynced \cup TxUpTo(written, flsn[s])
  /\ FlushDone(s, live \cap TxUpTo(written, flsn[s]))
  /\ UNCHANGED <<disk, snap, up, next_lsn, active, pending, headerSealed,
                 latches, commit, fseg, flsn, live, started, ckpts,
                 failed>>

-----------------------------------------------------------------------------
(* A checkpoint: fsync and take the graph and its LSN under the writer     *)
(* mutex, install the snapshot, then marker, fsync and truncation.         *)

CkptStart ==
  /\ "ckpt" \in Flushers /\ up = "up" /\ kpc = "idle" /\ WriterFree
  /\ ckpts < MaxCkpt /\ ckpts' = ckpts + 1
  /\ kpc' = "fsync1" /\ kholds' = TRUE
  /\ UNCHANGED <<disk, snap, up, mem, latches, commit, flush, klsn, ktx,
                 live, started, fsynced, flushOk, failed>>

\* checkpoint_behind_writers releases the writer here, checkpoint_locked at
\* the end.
CkptTake ==
  /\ kpc = "take"
  /\ klsn' = durable_lsn /\ ktx' = live
  /\ kholds' \in BOOLEAN
  /\ kpc' = "install"
  /\ UNCHANGED <<disk, snap, up, mem, latches, commit, flush, told>>

\* Variant: stamps the snapshot with the durable LSN at the time of the write.
CkptInstallNow ==
  /\ kpc = "install"
  /\ fence' = durable_lsn /\ snapTx' = ktx
  /\ kpc' = "mark"
  /\ UNCHANGED <<disk, up, mem, latches, commit, flush, klsn, ktx, kholds, told>>

\* ManagedSnapshotStore::write_snapshot: once the file is renamed and CURRENT
\* names it, it is the one the next open loads.  A failure to sync the
\* directory afterwards ends the checkpoint.
CkptInstall ==
  /\ kpc = "install"
  /\ fence' = klsn /\ snapTx' = ktx
  /\ \/ kpc' = "mark" /\ UNCHANGED kholds
     \/ kpc' = "idle" /\ kholds' = FALSE
  /\ UNCHANGED <<disk, up, mem, latches, commit, flush, klsn, ktx, told>>

\* Wal::checkpoint_marker through the recorder.
CkptMark ==
  /\ kpc = "mark" /\ RecorderFree /\ StateFree
  /\ IF ~poisoned /\ Healthy /\ LsnsLeft(1) /\ ~headerSealed
     THEN /\ pending' = pending \cup {Rec(next_lsn, "marker", klsn)}
          /\ next_lsn' = next_lsn + 1
          /\ kpc' = "fsync2" /\ UNCHANGED <<kholds, poisoned>>
     ELSE /\ kpc' = "idle" /\ kholds' = FALSE /\ poisoned' = TRUE
          /\ UNCHANGED <<pending, next_lsn>>
  /\ UNCHANGED <<disk, snap, up, durable_lsn, active, headerSealed, bg_failure,
                 commit, flush, klsn, ktx, told>>

\* Variant: truncation ignores the fence.
DroppableAll(fenceLsn) == {s \in dir : s < active - 1}

\* Segments before the last two whose successor starts at or below fence+1.
Droppable(fenceLsn) ==
  {s \in dir : /\ s < active - 1
               /\ \E t \in dir : /\ s < t /\ base[t] - 1 <= fenceLsn
                                 /\ \A u \in dir : s < u => t <= u}

\* Wal::truncate_up_to removes oldest first and may stop at a failed removal.
CkptTruncate ==
  /\ kpc = "truncate" /\ StateFree
  /\ \E last \in {0} \cup Droppable(klsn) :
       LET gone == {s \in Droppable(klsn) : s <= last} IN
       /\ dir' = dir \ gone /\ dirSynced' = dirSynced \ gone
       /\ born' = born \ gone /\ sealed' = sealed \ gone
       /\ written' = {r \in written : r.seg \notin gone}
       /\ synced' = {r \in synced : r.seg \notin gone}
  /\ kpc' = "idle" /\ kholds' = FALSE
  /\ UNCHANGED <<base, snap, up, mem, latches, commit, flush, klsn, ktx, told>>

\* Variant: a checkpoint the recorder refuses never gives up.
CkptAbandonWriteOnly ==
  /\ kpc = "install"
  /\ kpc' = "idle" /\ kholds' = FALSE
  /\ UNCHANGED <<disk, snap, up, mem, latches, commit, flush, klsn, ktx, told>>

\* The snapshot write fails, or the recorder refuses the checkpoint's fsync.
CkptAbandon ==
  /\ \/ kpc = "install"
     \/ kpc \in {"fsync1", "fsync2"} /\ fpc["ckpt"] = "idle"
        /\ (poisoned \/ bg_failure)
  /\ kpc' = "idle" /\ kholds' = FALSE
  /\ UNCHANGED <<disk, snap, up, mem, latches, commit, flush, klsn, ktx, told>>

-----------------------------------------------------------------------------
(* Stopping: a crash of the process, a power loss, a clean drop.           *)

Stopped ==
  /\ up' = "down" /\ pending' = {} /\ headerSealed' = FALSE
  /\ bg_failure' = FALSE /\ poisoned' = FALSE
  /\ cpc' = "idle" /\ cleft' = 0 /\ ctx' = 0 /\ cfirst' = 0 /\ cflushed' = FALSE
  /\ fpc' = [s \in Flushers |-> "idle"]
  /\ fseg' = [s \in Flushers |-> 1] /\ flsn' = [s \in Flushers |-> 0]
  /\ kpc' = "idle" /\ klsn' = 0 /\ ktx' = {} /\ kholds' = FALSE
  /\ live' = {}
  /\ next_lsn' = 1 /\ durable_lsn' = 0 /\ active' = 1

Crash ==
  /\ up \in {"up", "creating"}
  /\ Stopped
  /\ UNCHANGED <<disk, snap, started, ckpts, fsynced, flushOk, failed>>

\* A power loss stops the process (Crash) and then takes the page cache.
\* Of the unsynced records, `kept` reach the disk.  A lost one below a kept
\* one leaves garbage, and so may the first of the rest.  Files whose header
\* or directory entry is unsynced may be gone; what is left of one without its
\* header the next open would discard.
PowerLoss ==
  \E kept \in SUBSET (written \ synced), partial \in BOOLEAN,
     lostDirs \in SUBSET (dir \ dirSynced) :
    LET lost == (written \ synced) \ kept
        holes == {l \in lost : \/ \E k \in kept : l.lsn < k.lsn
                               \/ partial /\ \A m \in lost : l.lsn <= m.lsn}
        after == synced \cup kept \cup {Torn(l) : l \in holes}
    IN
    /\ up \notin {"up", "creating"}
    /\ "reordered_pages" \notin Faults => \A k \in kept, l \in lost : k.lsn < l.lsn
    /\ written' = {r \in after : r.seg \notin lostDirs}
    /\ synced' = written'
    /\ dir' = dir \ lostDirs /\ dirSynced' = dir'
    /\ born' = born \ lostDirs /\ sealed' = sealed \ lostDirs
    /\ up' = "down"
    /\ UNCHANGED <<base, snap, mem, latches, commit, flush, ckpt, told>>

\* Wal::drop: no caller is left; flush_inner(ForceFsync) without the health
\* check, its errors ignored.
Drop ==
  /\ up = "up" /\ cpc = "idle" /\ kpc = "idle"
  /\ \A s \in Flushers : fpc[s] = "idle"
  /\ \/ /\ written' = written \cup pending
        /\ \/ UNCHANGED <<synced, dirSynced>>
           \/ /\ ~NothingNew
              /\ synced' = synced \cup {r \in written' : r.seg = active}
              /\ dirSynced' = WithEntry(active)
     \/ UNCHANGED <<written, synced, dirSynced>>
  /\ Stopped
  /\ UNCHANGED <<dir, born, sealed, base, snap, started, ckpts, fsynced, flushOk, failed>>

-----------------------------------------------------------------------------
(* Wal::open_replaying_with, at the fence of the newest snapshot.          *)

TornRecs == {r \in written : r.kind = "torn"}
FirstTorn == Least({r.lsn : r \in TornRecs})
Good == {r \in written : r.kind # "torn"}
\* Variant: replay skips bad frames.
ReadableSkipping == Good

\* What replay reads: everything before the first bad frame.
Readable == IF TornRecs = {} THEN Good ELSE {r \in Good : r.lsn < FirstTorn}

\* A bad frame is a torn tail: newest segment, unsealed, nothing valid after.
TornTail ==
  /\ \A r \in TornRecs : r.seg = Greatest(dir)
  /\ Greatest(dir) \notin sealed
  /\ Readable = Good

\* replay_segments' checks of ids, bases, LSN order, begins and markers.
ReplayOk ==
  /\ \A s, t \in dir : \A u \in s .. t : u \in dir
  /\ base[Least(dir)] - 1 <= fence
  /\ \A s, t \in dir : s < t =>
       base[s] < base[t] /\ \A r \in Readable : r.seg = s => r.lsn < base[t]
  /\ \A r \in Readable : base[r.seg] <= r.lsn
  /\ \A r, q \in Readable : r.lsn = q.lsn => r = q
  /\ \A r \in Readable : r.kind \in {"batch", "commit"} /\ r.lsn > fence =>
       \E b \in Readable : b.kind = "begin" /\ b.lsn = r.ref /\ b.lsn > fence
  /\ \A m \in Readable : m.kind = "marker" /\ m.lsn > fence =>
       /\ m.ref <= m.lsn
       /\ \A n \in Readable : n.kind = "marker" /\ n.lsn > fence /\ n.lsn < m.lsn
                              => n.ref <= m.ref

\* The transactions in the graph after replay onto the snapshot.
Replayed == snapTx \cup {r.tx : r \in {q \in Commits(Readable) : q.lsn > fence}}

DiscardUnborn ==
  /\ up = "down" /\ dir # {} /\ Greatest(dir) \notin born
  /\ dir' = dir \ {Greatest(dir)} /\ dirSynced' = dirSynced \ {Greatest(dir)}
  /\ UNCHANGED <<born, sealed, base, written, synced, snap, up, mem, latches,
                 commit, flush, ckpt, told>>

\* Variant: the last LSN in use is handed out again.
OpenedReusing(seg, lsn) ==
  /\ next_lsn' = lsn /\ durable_lsn' = lsn /\ active' = seg
  /\ live' = Replayed
  /\ UNCHANGED <<pending, headerSealed>>

\* The WAL after a successful replay: `lsn` is the highest it may not reuse.
Opened(seg, lsn) ==
  /\ next_lsn' = lsn + 1 /\ durable_lsn' = lsn /\ active' = seg
  /\ live' = Replayed
  /\ UNCHANGED <<pending, headerSealed>>

\* Variant: only the log is looked at, not the snapshot's fence.
LastUsedInLog == Greatest({r.lsn : r \in Readable} \cup {0})

\* A snapshot can be ahead of a log whose tail was lost.
LastUsed == Greatest({r.lsn : r \in Readable} \cup {fence})

OpenFresh ==
  /\ up = "down" /\ dir = {}
  /\ dir' = {1} /\ up' = "creating"
  /\ Opened(1, fence)
  /\ UNCHANGED <<dirSynced, born, sealed, base, written, synced, snap, latches,
                 commit, flush, ckpt, started, ckpts, fsynced, flushOk, failed>>

\* open_existing once replay succeeded: cut the bad tail (and move later
\* segments aside, cut_corrupt_log), then append to the newest segment left or,
\* if that is sealed, to a new one.
OpenExisting ==
  LET newest == Greatest({s \in dir : \A r \in TornRecs :
                                       r.lsn = FirstTorn => s <= r.seg})
      kept == {s \in dir : s <= newest}
  IN
  /\ dir # {} /\ Greatest(dir) \in born /\ ReplayOk
  /\ \/ up = "down" /\ (TornRecs # {} => TornTail)
     \/ up = "corrupt"                         \* truncate_corrupt_tail
  /\ written' = Readable
  /\ synced' = IF TornRecs = {} THEN synced
               ELSE (synced \cap Readable) \cup {r \in Readable : r.seg = newest}
  /\ IF newest \in sealed
     THEN /\ newest + 1 \in SegIds
          /\ dir' = kept \cup {newest + 1} /\ up' = "creating"
          /\ Opened(newest + 1, LastUsed)
     ELSE /\ up' = "up" /\ dir' = kept
          /\ Opened(newest, LastUsed)
  /\ dirSynced' = dirSynced \cap kept
  /\ born' = born \cap kept /\ sealed' = sealed \cap kept
  /\ UNCHANGED <<base, snap, latches, commit, flush,
                 ckpt, started, ckpts, fsynced, flushOk, failed>>

\* The new segment's header and directory entry are made durable.
OpenCreate ==
  /\ up = "creating"
  /\ born' = born \cup {active} /\ base' = [base EXCEPT ![active] = next_lsn]
  /\ dirSynced' = dir
  /\ up' = "up"
  /\ UNCHANGED <<dir, sealed, written, synced, snap, mem, latches, commit,
                 flush, ckpt, told>>

\* The header is written and one of the syncs fails, or the process dies before
\* it: nobody removes the file.
OpenCreateFail ==
  /\ up = "creating"
  /\ born' = born \cup {active} /\ base' = [base EXCEPT ![active] = next_lsn]
  /\ Stopped
  /\ UNCHANGED <<dir, dirSynced, sealed, written, synced, snap, started, ckpts,
                 fsynced, flushOk, failed>>

\* WalError::Corrupt, or Gap / Malformed.
OpenFail ==
  /\ up = "down" /\ dir # {} /\ Greatest(dir) \in born
  /\ \/ ReplayOk /\ TornRecs # {} /\ ~TornTail /\ up' = "corrupt"
     \/ ~ReplayOk /\ up' = "failed"
  /\ UNCHANGED <<disk, snap, mem, latches, commit, flush, ckpt, told>>

-----------------------------------------------------------------------------
CommitStep ==
  \/ RotateFlush \/ RotateCreate \/ RotateHeader \/ RotateSyncDir \/ RotateSeal
  \/ AppendBegin \/ AppendBatch \/ AppendCommit \/ CommitFlush \/ CommitPoison

FlushStep(s) == FlushWrite(s) \/ FlushSync(s) \/ FlushAdvance(s)

CkptStep ==
  CkptTake \/ CkptInstall \/ CkptMark \/ CkptTruncate \/ CkptAbandon

Open ==
  \/ DiscardUnborn \/ OpenFresh \/ OpenExisting
  \/ OpenCreate \/ OpenCreateFail \/ OpenFail

Next ==
  \/ \E n \in 1 .. MaxBatches : CommitLock(n)
  \/ CommitStep
  \/ \E s \in Flushers : FlushCall(s) \/ FlushStep(s)
  \/ CkptStart \/ CkptStep
  \/ Crash \/ PowerLoss \/ Drop
  \/ Open

Spec == Init /\ [][Next]_vars

\* The threads of a running process keep going: the committing thread, the
\* flusher (its interval always ends), a flush once it is called and a
\* checkpoint once it started.  Waiting for the recorder's mutex is not
\* starved by callers that keep calling sync.  Nobody has to commit, call sync
\* or start a checkpoint, and nothing has to be opened.
Fairness ==
  /\ WF_vars(CommitStep) /\ SF_vars(CommitPoison)
  /\ \A s \in Flushers \cap {"flusher"} : WF_vars(FlushCall(s))
  /\ \A s \in Flushers \cap {"ckpt"} : SF_vars(FlushCall(s))
  /\ \A s \in Flushers : WF_vars(FlushStep(s))
  /\ WF_vars(CkptStep) /\ SF_vars(CkptMark)

LiveSpec == Spec /\ Fairness

-----------------------------------------------------------------------------
(* Properties.                                                             *)

CommitPcs == {"idle", "locked", "create", "header", "syncdir", "seal",
              "append", "batches", "flush", "failing"}
CkptPcs == {"idle", "fsync1", "take", "install", "mark", "fsync2", "truncate"}

TypeDisk ==
  /\ dir \subseteq SegIds /\ dirSynced \subseteq dir
  /\ born \subseteq dir /\ sealed \subseteq dir
  /\ base \in [SegIds -> 0 .. MaxLsn]
TypeRecs ==
  written \subseteq Record /\ synced \subseteq written /\ pending \subseteq Record
TypeSnap ==
  /\ fence \in Lsns /\ klsn \in Lsns /\ snapTx \subseteq Txs /\ ktx \subseteq Txs
  /\ kpc \in CkptPcs /\ kholds \in BOOLEAN
TypeMem ==
  /\ up \in {"down", "creating", "up", "corrupt", "failed"}
  /\ next_lsn \in 1 .. MaxLsn /\ durable_lsn \in Lsns /\ active \in SegIds
  /\ headerSealed \in BOOLEAN /\ bg_failure \in BOOLEAN /\ poisoned \in BOOLEAN
TypeCommit ==
  /\ cpc \in CommitPcs /\ cleft \in 0 .. MaxBatches /\ ctx \in Txs
  /\ cfirst \in Lsns /\ cflushed \in BOOLEAN
TypeFlush ==
  /\ fpc \in [Flushers -> {"idle", "called", "written", "synced"}]
  /\ fseg \in [Flushers -> SegIds] /\ flsn \in [Flushers -> Lsns]
TypeTold ==
  /\ live \subseteq Txs /\ started \in Txs /\ ckpts \in 0 .. MaxCkpt
  /\ fsynced \subseteq Txs /\ flushOk \subseteq Txs /\ failed \subseteq Txs

\* The type invariant.  LSN MaxLsn (u64::MAX) is only ever the next one, never
\* a record's: alloc_lsn and next_lsn_after fail first.
TypeOK ==
  /\ TypeDisk /\ TypeRecs /\ TypeSnap /\ TypeMem
  /\ TypeCommit /\ TypeFlush /\ TypeTold

\* Recovered after the worst power loss: in the snapshot, or its commit record
\* fsynced in a segment whose header and directory entry are durable.
OnStorage == snapTx \cup {r.tx : r \in {q \in Commits(synced) :
                                        q.seg \in dirSynced \cap born}}

\* A transaction whose commit an fsync covered (flush_inner advanced
\* durable_lsn over it) stays on storage through every rotation, checkpoint,
\* truncation, crash and reopen.
FsyncedStaysOnStorage == fsynced \subseteq OnStorage

\* And every later open replays it (replay_segments never loses it to a torn
\* tail cut, the fence, or a dropped segment).
FsyncedRecovered ==
  [][up # "up" /\ up' = "up" => fsynced \subseteq live']_vars

\* Replay hands over whole transactions: while the WAL is open, every record
\* from the TxBegin to the TxCommit of a transaction replay would apply is
\* there.  A checkpoint never splits one (skip_fenced_record relies on it).
TransactionsWhole ==
  up = "up" => \A c \in Commits(written \cup pending) :
    \/ c.lsn <= fence
    \/ /\ fence < c.ref
       /\ \A l \in c.ref .. c.lsn : \E r \in written \cup pending :
            r.lsn = l /\ r.tx = c.tx

\* The snapshot holds every commit its fence makes replay skip (CkptTake pairs
\* the graph with durable_lsn under the writer mutex).
SnapshotMatchesFence ==
  \A c \in Commits(written \cup pending) : c.lsn <= fence => c.tx \in snapTx

\* Records reach a segment file in LSN order, each above the file's base_lsn;
\* an LSN in use is never handed out again.
AppendsGrow ==
  [][\A r \in written' \ written : r.kind # "torn" =>
       /\ base[r.seg] <= r.lsn
       /\ \A q \in written : q.lsn < r.lsn]_vars

\* Records with the LSN at which a later segment, that a rotation made and did
\* not get to use, begins.  Only the marker of a checkpoint that had released
\* the writers gets such an LSN, before the failed commit poisons the recorder.
Overtaken == {m \in written : \E s \in born : m.seg < s /\ base[s] = m.lsn}

\* Whatever crashes, power losses and failed calls leave behind, the log opens
\* again with its snapshot (never Gap or Malformed), unless a rotation that
\* failed left its segment and a checkpoint marker has the LSN it begins with.
RefusedForMarker == up = "failed" => \E m \in Overtaken : m.kind = "marker"

\* When pages reach the disk in order, an interrupted append is seen as a torn
\* tail and never as corruption, with that marker as the only exception.
CorruptForMarker ==
  "reordered_pages" \notin Faults =>
    (up = "corrupt" => \E m \in Overtaken : m.kind = "torn")

\* maybe_rotate: "Keep appending to the old segment".
OpenSucceeds == up # "failed"
NeverCorrupt == "reordered_pages" \notin Faults => up # "corrupt"

\* The abstract log: what a reopen would recover now.
Log == snapTx \cup {r.tx : r \in Commits(Readable \cup pending)}
DL == INSTANCE DurableLog WITH log <- Log, durable <- fsynced
ImplementsDurableLog == DL!Spec

\* A commit record that was appended is fsynced, unless its commit failed, the
\* flusher latched a failure or the process stopped.
CommitsBecomeDurable ==
  \A t \in 1 .. MaxTx :
    (cpc = "flush" /\ ctx = t) ~>
      (t \in fsynced \cup failed \/ bg_failure \/ up # "up")

\* A checkpoint ends, and with it its hold on the writer mutex.
CheckpointsEnd == (kpc # "idle") ~> (kpc = "idle")

\* Database::flush: "Make every commit before the call durable in the WAL".
FlushedStaysOnStorage == flushOk \subseteq OnStorage

\* recorder.rs: recovery "will not include the failed mutation".
FailedNeverRecovered ==
  [][up # "up" /\ up' = "up" => failed \cap live' = {}]_vars
=============================================================================
