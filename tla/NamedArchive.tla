---------------------------- MODULE NamedArchive ----------------------------
(***************************************************************************)
(* A named database (wal/archive.rs): a WAL work directory, which also     *)
(* holds the base snapshot, and the .loradb container written from it by   *)
(* the background worker, by checkpoints and restores, and by a forced     *)
(* persist.  An open trusts a work directory that has WAL over the         *)
(* container; a clean close removes it once the container has everything.  *)
(*                                                                         *)
(* A graph is [k, n]: restore k (0, none) and the commits up to LSN n. The *)
(* WAL holds `first`..`end`, less than a snapshot's LSN perhaps; which LSN *)
(* a segment begins at is free, so a truncation may stop anywhere up to    *)
(* its fence.  A variable in a pair is what the process sees, and, with    *)
(* "Synced", what a power loss leaves at least.                            *)
(***************************************************************************)
EXTENDS Integers, FiniteSets

CONSTANTS
  MaxCommits,   \* bound: the LSNs
  MaxRestores,  \* bound: restores
  MaxJobs,      \* bound: checkpoints and forced persists
  MaxStops,     \* bound: crashes, power losses and closes
  Ops           \* what may happen: subset of AllOps

\* A failed write; and what a power loss may take: the new work directory's
\* entry, and the snapshot or the WAL's tail that a crashed process left in
\* the files alone and the next open trusted as they were.
AllOps == {"fail", "lost_entry", "lost_rename", "lost_tail"}

ASSUME NamedArchiveAssumption ==
  /\ MaxCommits \in Nat /\ MaxRestores \in Nat /\ MaxJobs \in Nat /\ MaxStops \in Nat
  /\ Ops \subseteq AllOps

VARIABLES
  phase,               \* "down", "prepared", "up", "closing"
  work, workSynced,    \* the work directory: "none", "dir" (no WAL), "wal"
  snap, snapSynced,    \* its snapshot.lsnap
  first, firstSynced,  \* its WAL: the oldest LSN,
  end, endSynced,      \*   and the newest
  box, boxSynced,      \* the container
  live,                \* the published graph
  durable_lsn,         \* what the WAL takes for fsynced
  dirty, failure,      \* ArchiveState
  poisoned,            \* the recorder's latch
  writer, write_lock,  \* holders of the writer mutex and of the archive's lock
  job,                 \* the container writers
  jobs, restores, stops,
  lived,               \* history: every graph that was live, and a restore under way;
  kept,                \*   those that were since the last recovery, on its timeline
  promised, saved      \* history: what a caller was told is durable, and in the container

archive == <<dirty, failure, write_lock>>
wal == <<first, firstSynced, end, endSynced, durable_lsn>>
dir == <<work, workSynced, snap, snapSynced>>
container == <<box, boxSynced>>
counts == <<jobs, restores, stops>>
history == <<lived, kept, promised, saved>>
vars == <<phase, dir, wal, container, live, archive, poisoned, writer, job, counts, history>>

Writers == {"worker", "checkpoint", "forced"}
Nobody == "nobody"

Graph(k, n) == [k |-> k, n |-> n]
NoGraph == Graph(0, 0)     \* also: no snapshot
Copy(s, lo, hi) == [snap |-> s, first |-> lo, end |-> hi]
NoBox == Copy(NoGraph, 1, -1)

Larger(a, b) == IF a > b THEN a ELSE b
Before(g, h) == g.k < h.k \/ (g.k = h.k /\ g.n <= h.n)
Latest(g, h) == IF Before(g, h) THEN h ELSE g

\* The snapshot and the WAL above its fence; the WAL must reach back to it.
Replays(c) == c.first <= c.snap.n + 1
Rebuilt(c) == [c.snap EXCEPT !.n = Larger(@, c.end)]

Idle == [pc |-> "idle", kind |-> "none", graph |-> NoGraph, copy |-> NoBox]
At(p, pc) == job[p].pc = pc
GoTo(p, pc) == job' = [job EXCEPT ![p].pc = pc]
NewJob == jobs < MaxJobs /\ jobs' = jobs + 1

Init ==
  /\ phase = "down"
  /\ work = "none" /\ workSynced = "none" /\ snap = NoGraph /\ snapSynced = NoGraph
  /\ first = 1 /\ firstSynced = 1 /\ end = 0 /\ endSynced = 0 /\ durable_lsn = 0
  /\ box = NoBox /\ boxSynced = NoBox
  /\ live = NoGraph /\ dirty = FALSE /\ failure = FALSE /\ poisoned = FALSE
  /\ writer = Nobody /\ write_lock = Nobody
  /\ job = [p \in Writers |-> Idle]
  /\ jobs = 0 /\ restores = 0 /\ stops = 0
  /\ lived = {NoGraph} /\ kept = {NoGraph} /\ promised = NoGraph /\ saved = NoGraph

-----------------------------------------------------------------------------
(* Open.                                                                   *)

\* prepare_work_dir.  WAL without a snapshot takes the container's.  An
\* extraction goes through a directory renamed into place and syncs its
\* parent; a directory made for a new database is not synced.
Prepare ==
  /\ phase = "down" /\ phase' = "prepared"
  /\ \/ /\ work = "wal"
        /\ UNCHANGED <<dir, first, firstSynced, end, endSynced>>
     \/ /\ work # "wal" /\ box # NoBox
        /\ work' = "wal" /\ workSynced' = "wal"
        /\ snap' = box.snap /\ snapSynced' = box.snap
        /\ first' = box.first /\ firstSynced' = box.first
        /\ end' = box.end /\ endSynced' = box.end
     \/ /\ work # "wal" /\ box = NoBox
        /\ work' = "dir"
        /\ workSynced' = IF "lost_entry" \in Ops THEN workSynced ELSE "dir"
        /\ snap' = NoGraph /\ snapSynced' = NoGraph
        /\ first' = 1 /\ firstSynced' = 1 /\ end' = 0 /\ endSynced' = 0
  /\ UNCHANGED <<durable_lsn, container, live, archive, poisoned, writer, job, counts, history>>

\* open_named: the snapshot is loaded and the WAL replayed above it; then
\* the container is asked for, so that a fresh database has one.  Nothing
\* syncs what a dead process left.
OpenWal ==
  /\ phase = "prepared" /\ phase' = "up"
  /\ work' = "wal" /\ workSynced' = IF workSynced = "none" THEN "none" ELSE "wal"
  /\ live' = Rebuilt(Copy(snap, first, end)) /\ durable_lsn' = live'.n
  /\ kept' = {g \in kept : Before(g, live')}
  /\ dirty' = TRUE /\ failure' = FALSE
  /\ snapSynced' = IF "lost_rename" \in Ops THEN snapSynced ELSE snap
  /\ endSynced' = IF "lost_tail" \in Ops THEN endSynced ELSE end
  /\ UNCHANGED <<snap, first, firstSynced, end, container, write_lock,
                 poisoned, writer, job, counts, lived, promised, saved>>

-----------------------------------------------------------------------------
(* Writers, and what makes them durable.                                   *)

Publish(g) == live' = g /\ lived' = lived \cup {g} /\ kept' = kept \cup {g}

Commit ==
  /\ phase = "up" /\ writer = Nobody /\ ~ poisoned /\ live.n < MaxCommits
  /\ Publish(Graph(live.k, live.n + 1)) /\ end' = live.n + 1
  /\ UNCHANGED <<phase, dir, first, firstSynced, endSynced, durable_lsn, container, archive,
                 poisoned, writer, job, counts, promised, saved>>

\* flush_inner skips what the WAL takes for fsynced.
Fsynced == endSynced' = (IF durable_lsn >= end THEN endSynced ELSE end)
           /\ durable_lsn' = Larger(durable_lsn, end)
OnStorage == [live EXCEPT !.n = Larger(snapSynced.n, endSynced')]

\* Database::flush and the group flusher.
force_fsync_wal_only ==
  /\ phase = "up" /\ ~ poisoned /\ writer = Nobody /\ durable_lsn < end
  /\ Fsynced /\ promised' = Latest(promised, OnStorage)
  /\ UNCHANGED <<phase, dir, first, firstSynced, end, container, live, archive, poisoned,
                 writer, job, counts, lived, kept, saved>>

-----------------------------------------------------------------------------
(* Checkpoints and restores: the snapshot is staged, put in place, the     *)
(* WAL it covers dropped, and the container written.                       *)

\* checkpoint_named: the writer mutex is held for this step only.
Capture ==
  /\ phase = "up" /\ At("checkpoint", "idle") /\ writer = Nobody /\ ~ poisoned /\ NewJob
  /\ Fsynced
  /\ job' = [job EXCEPT !["checkpoint"] = [Idle EXCEPT !.pc = "staged", !.kind = "sync", !.graph = live]]
  /\ UNCHANGED <<phase, dir, first, firstSynced, end, container, live, archive, poisoned,
                 writer, restores, stops, history>>

\* load_snapshot_from_reader: the writer mutex is held to the end.
CaptureRestore ==
  /\ phase = "up" /\ At("checkpoint", "idle") /\ writer = Nobody /\ ~ poisoned
  /\ restores < MaxRestores /\ restores' = restores + 1
  /\ Fsynced /\ writer' = "checkpoint"
  /\ LET g == Graph(restores', live.n) IN
     job' = [job EXCEPT !["checkpoint"] = [Idle EXCEPT !.pc = "staged", !.kind = "restore", !.graph = g]]
  /\ UNCHANGED <<phase, dir, first, firstSynced, end, container, live, archive, poisoned,
                 jobs, stops, history>>

\* install_snapshot, step by step.
Install ==
  /\ At("checkpoint", "staged") /\ write_lock = Nobody /\ ~ failure
  /\ write_lock' = "checkpoint" /\ GoTo("checkpoint", "rename")
  /\ UNCHANGED <<phase, dir, wal, container, live, dirty, failure, poisoned, writer, counts, history>>

ReplaceSnapshot ==
  /\ At("checkpoint", "rename") /\ GoTo("checkpoint", "sync_dir")
  /\ snap' = job["checkpoint"].graph
  /\ lived' = lived \cup {snap'} /\ kept' = kept \cup {snap'}
  /\ UNCHANGED <<phase, work, workSynced, snapSynced, wal, container, live, archive, poisoned,
                 writer, counts, promised, saved>>

DropUnsynced ==    \* without sync_dir(work_dir)
  /\ At("checkpoint", "sync_dir") /\ GoTo("checkpoint", "drop_covered_wal")
  /\ UNCHANGED <<phase, dir, wal, container, live, archive, poisoned, writer, counts, history>>

SyncSnapshot ==
  /\ At("checkpoint", "sync_dir") /\ GoTo("checkpoint", "drop_covered_wal")
  /\ snapSynced' = snap
  /\ UNCHANGED <<phase, work, workSynced, snap, wal, container, live, archive, poisoned,
                 writer, counts, history>>

\* truncate_covered_by_mirror: sealed segments up to the fence, the oldest
\* first; the directory is synced before the container is written.
drop_covered_wal ==
  /\ At("checkpoint", "drop_covered_wal")
  /\ first' \in first .. Larger(first, job["checkpoint"].graph.n + 1)
  /\ GoTo("checkpoint", "write")
  /\ UNCHANGED <<phase, dir, firstSynced, end, endSynced, durable_lsn, container, live, archive,
                 poisoned, writer, counts, history>>

-----------------------------------------------------------------------------
(* The container: copied to a temporary file, the snapshot first, then the *)
(* segments, while commits go on; fsynced, renamed, its directory synced.  *)

\* The worker, after its debounce.
WorkerTakes ==
  /\ phase \in {"up", "closing"} /\ dirty /\ At("worker", "idle")
  /\ dirty' = FALSE /\ GoTo("worker", "lock")
  /\ UNCHANGED <<phase, dir, wal, container, live, failure, write_lock, poisoned, writer, counts, history>>

MayWriteAnyTime(p) == TRUE    \* the worker without write_lock

MayWrite(p) == write_lock = Nobody

WorkerLocks ==
  /\ At("worker", "lock") /\ MayWrite("worker")
  /\ write_lock' = "worker" /\ GoTo("worker", "write")
  /\ UNCHANGED <<phase, dir, wal, container, live, dirty, failure, poisoned, writer, counts, history>>

\* persist_force, under checkpoint_to: the WAL is fsynced with the writer
\* mutex held, and stays so.  After a failed write it stops writes.
persist_force ==
  /\ phase = "up" /\ At("forced", "idle") /\ writer = Nobody /\ ~ poisoned /\ NewJob
  /\ Fsynced
  /\ \/ /\ failure /\ poisoned' = TRUE
        /\ UNCHANGED <<writer, write_lock, job>>
     \/ /\ ~ failure /\ write_lock = Nobody
        /\ writer' = "forced" /\ write_lock' = "forced"
        /\ job' = [job EXCEPT !["forced"] = [Idle EXCEPT !.pc = "write", !.kind = "forced", !.graph = live]]
        /\ UNCHANGED poisoned
  /\ UNCHANGED <<phase, dir, first, firstSynced, end, container, live, dirty, failure,
                 restores, stops, history>>

CopySnapshot(p) ==
  /\ At(p, "write")
  /\ job' = [job EXCEPT ![p].pc = "segments", ![p].copy = Copy(snap, 1, 0)]
  /\ firstSynced' = IF p = "checkpoint" THEN first ELSE firstSynced
  /\ UNCHANGED <<phase, dir, first, end, endSynced, durable_lsn, container, live, archive,
                 poisoned, writer, counts, history>>

CopySegments(p) ==
  /\ At(p, "segments")
  /\ job' = [job EXCEPT ![p].pc = "replace", ![p].copy = Copy(@.snap, first, end)]
  /\ UNCHANGED <<phase, dir, wal, container, live, archive, poisoned, writer, counts, history>>

ReplaceContainer(p) ==
  /\ At(p, "replace") /\ GoTo(p, "sync_parent")
  /\ box' = job[p].copy
  /\ UNCHANGED <<phase, dir, wal, boxSynced, live, archive, poisoned, writer, counts, history>>

Release(p) ==
  /\ write_lock' = IF write_lock = p THEN Nobody ELSE write_lock
  /\ writer' = IF writer = p THEN Nobody ELSE writer
  /\ job' = [job EXCEPT ![p] = Idle]

\* The container and the work directory have the same parent. write_locked
\* also clears `dirty`. A restore is published now.
SyncContainer(p) ==
  /\ At(p, "sync_parent") /\ boxSynced' = box /\ workSynced' = work
  /\ Release(p)
  /\ dirty' = (p = "worker" /\ dirty) /\ UNCHANGED failure
  /\ IF p = "worker" THEN UNCHANGED <<promised, saved>>
     ELSE promised' = Latest(promised, job[p].graph) /\ saved' = Latest(saved, job[p].graph)
  /\ IF job[p].kind = "restore" THEN Publish(job[p].graph) ELSE UNCHANGED <<live, lived, kept>>
  /\ UNCHANGED <<phase, work, snap, snapSynced, wal, box, poisoned, counts>>

\* A container above its limit, or an I/O error: no one writes it again
\* until a reopen, and a restore that was about to be installed stops writes.
WriteFails(p) ==
  /\ "fail" \in Ops /\ job[p].pc \in {"write", "segments", "replace", "sync_parent"}
  /\ failure' = TRUE /\ Release(p) /\ UNCHANGED dirty
  /\ poisoned' = (poisoned \/ p = "forced" \/ job[p].kind = "restore")
  /\ UNCHANGED <<phase, dir, wal, container, live, counts, history>>

InstallFails ==
  /\ \/ At("checkpoint", "staged") /\ failure
     \/ "fail" \in Ops /\ job["checkpoint"].pc \in {"rename", "sync_dir", "drop_covered_wal"}
  /\ Release("checkpoint") /\ UNCHANGED <<dirty, failure>>
  /\ poisoned' = (poisoned \/ job["checkpoint"].kind = "restore")
  /\ UNCHANGED <<phase, dir, wal, container, live, counts, history>>

-----------------------------------------------------------------------------
(* The end: a clean close, a crash of the process, a power loss.           *)

Stop == stops < MaxStops /\ stops' = stops + 1

\* Drop: the WAL goes first, with a last fsync; then the worker is asked for
\* one more container and joined.
Close ==
  /\ phase = "up" /\ phase' = "closing" /\ Stop
  /\ At("checkpoint", "idle") /\ At("forced", "idle")
  /\ Fsynced /\ dirty' = TRUE
  /\ UNCHANGED <<dir, first, firstSynced, end, container, live, failure, write_lock, poisoned,
                 writer, job, jobs, restores, history>>

Down ==
  /\ phase' = "down" /\ dirty' = FALSE /\ failure' = FALSE /\ poisoned' = FALSE
  /\ writer' = Nobody /\ write_lock' = Nobody /\ job' = [p \in Writers |-> Idle]
  /\ durable_lsn' = 0 /\ live' = NoGraph

WorkerReturned == phase = "closing" /\ ~ dirty /\ At("worker", "idle")

\* remove_work_dir renames the directory away as a whole.
remove_work_dir ==
  /\ WorkerReturned /\ ~ failure /\ work = "wal"
  /\ work' = "none"
  /\ UNCHANGED <<phase, workSynced, snap, snapSynced, wal, container, live, archive, poisoned,
                 writer, job, counts, history>>

Closed ==
  /\ WorkerReturned /\ (failure \/ work = "none")
  /\ Down /\ workSynced' = IF failure THEN workSynced ELSE work
  /\ IF failure \/ poisoned THEN UNCHANGED <<promised, saved>>
     ELSE promised' = live /\ saved' = live
  /\ UNCHANGED <<work, snap, snapSynced, first, firstSynced, end, endSynced, container, counts,
                 lived, kept>>

Crash ==
  /\ phase # "down" /\ Stop /\ Down
  /\ UNCHANGED <<dir, first, firstSynced, end, endSynced, container, jobs, restores, history>>

\* What was not synced may be gone, each by itself.
PowerLoss ==
  /\ Stop /\ Down
  /\ work' \in {work, workSynced} /\ workSynced' = work'
  /\ snap' \in {snap, snapSynced} /\ snapSynced' = snap'
  /\ first' \in firstSynced .. first /\ firstSynced' = first'
  /\ end' \in endSynced .. end /\ endSynced' = end'
  /\ box' \in {box, boxSynced} /\ boxSynced' = box'
  /\ UNCHANGED <<jobs, restores, history>>

Next ==
  \/ Prepare \/ OpenWal
  \/ Commit \/ force_fsync_wal_only
  \/ Capture \/ CaptureRestore \/ Install \/ ReplaceSnapshot \/ SyncSnapshot \/ drop_covered_wal
  \/ WorkerTakes \/ WorkerLocks \/ persist_force
  \/ \E p \in Writers : CopySnapshot(p) \/ CopySegments(p) \/ ReplaceContainer(p)
                        \/ SyncContainer(p) \/ WriteFails(p)
  \/ InstallFails
  \/ Close \/ remove_work_dir \/ Closed \/ Crash \/ PowerLoss

Spec == Init /\ [][Next]_vars
=============================================================================
