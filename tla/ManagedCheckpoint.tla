------------------------- MODULE ManagedCheckpoint -------------------------
(***************************************************************************)
(* Managed snapshots: checkpoints asked for, due after a number of         *)
(* commits, or run behind the writers when the WAL has grown; restores,    *)
(* which are checkpoints of another graph; checkpoint_to, which writes     *)
(* somewhere else; and the open that loads CURRENT and replays the WAL.    *)
(*                                                                         *)
(* The WAL is a sequence of commits and markers, an LSN each, of which     *)
(* `base` is the oldest kept and `synced` the last on storage.  A graph is *)
(* the set of commits in it; a restore puts one of its own in place.       *)
(***************************************************************************)
EXTENDS Integers, Sequences, FiniteSets

CONSTANTS
  MaxLsn,        \* records appended
  MaxIds,        \* commits and restores
  MaxJobs,       \* checkpoints started
  every,         \* SnapshotConfig: checkpoint_every_commits, 0 for None,
  keep_old,      \*   and older snapshots kept
  Ops            \* what may happen: subset of AllOps

AllOps == {"restore", "behind", "to", "fail", "crash"}

ASSUME ManagedCheckpointAssumption ==
  /\ MaxLsn \in Nat /\ MaxIds \in Nat /\ MaxJobs \in Nat /\ every \in Nat /\ keep_old \in Nat
  /\ Ops \subseteq AllOps

VARIABLES
  log, synced, base,      \* the WAL
  poisoned,               \* the recorder's latch
  live,                   \* the published graph
  ids, jobs,              \* commits and restores, and checkpoints, so far
  files, filesSynced,     \* snapshot files, as seen and on storage
  cur, curSynced,         \* what CURRENT names, if anything
  ext,                    \* the newest file of checkpoint_to
  writer, newest,         \* holders of the writer mutex and of `newest`
  newest_lsn, count,      \* ManagedSnapshotStore: newest, commits_since_checkpoint
  job,                    \* the checkpoint a client runs, and the one behind
  truth, maybe            \* history: the graph at each LSN; a restore under way

wal == <<log, synced, base, poisoned>>
disk == <<files, filesSynced, cur, curSynced, ext>>
locks == <<writer, newest>>
store == <<newest_lsn, count>>
graph == <<live, ids, jobs>>
history == <<truth, maybe>>
vars == <<log, synced, base, poisoned, live, ids, jobs, files, filesSynced, cur, curSynced,
          ext, writer, newest, newest_lsn, count, job, truth, maybe>>

Procs == {"client", "behind"}
Nobody == "nobody"

Snap(lsn, g) == [lsn |-> lsn, graph |-> g]
NoSnap == Snap(0, {})
NoCurrent == -1
Idle == [pc |-> "idle", kind |-> "none", lsn |-> 0, graph |-> {}, installed |-> FALSE]

Commit(id) == [kind |-> "commit", n |-> id]
Marker(lsn) == [kind |-> "marker", n |-> lsn]

Init ==
  /\ log = <<>> /\ synced = 0 /\ base = 1 /\ poisoned = FALSE
  /\ live = {} /\ ids = 0 /\ jobs = 0
  /\ files = {} /\ filesSynced = {} /\ cur = NoCurrent /\ curSynced = NoCurrent /\ ext = NoSnap
  /\ writer = Nobody /\ newest = Nobody /\ newest_lsn = 0 /\ count = 0
  /\ job = [p \in Procs |-> Idle]
  /\ truth = <<{}>> /\ maybe = {}

May(op) == op \in Ops
NewJob == jobs < MaxJobs /\ jobs' = jobs + 1
At(p, pc) == job[p].pc = pc
GoTo(p, pc) == job' = [job EXCEPT ![p].pc = pc]

-----------------------------------------------------------------------------
(* How a checkpoint ends.                                                  *)

Unlock(p) ==
  /\ writer' = IF writer = p THEN Nobody ELSE writer
  /\ newest' = IF newest = p THEN Nobody ELSE newest
  /\ job' = [job EXCEPT ![p] = Idle]

\* Variant: a restore that failed halfway lets writes go on.
HalfRestoredGoOn(p) == FALSE

\* A restore whose file recovery may load stops all writes.
HalfRestored(p) == job[p].kind = "restore" /\ job[p].installed

\* With an error: only the commit count notices, or the whole database.
Abort(p, broken) ==
  /\ Unlock(p)
  /\ poisoned' = (poisoned \/ broken \/ HalfRestored(p))
  /\ count' = IF job[p].kind = "observed" THEN 0 ELSE count
  /\ UNCHANGED <<log, synced, base, graph, disk, newest_lsn, history>>

Fails(p) == May("fail") /\ Abort(p, FALSE)

\* A recorder call: refused when poisoned, and poisoning when it fails.
Refused(p) ==
  \/ poisoned /\ Abort(p, FALSE)
  \/ ~poisoned /\ May("fail") /\ Abort(p, TRUE)

-----------------------------------------------------------------------------
(* Commits and the start of checkpoints.                                   *)

\* A committed write, with observe_commit still under the writer mutex: a
\* checkpoint that is due is skipped while another holds `newest`.
commit ==
  /\ writer = Nobody /\ ~poisoned /\ ids < MaxIds /\ Len(log) < MaxLsn
  /\ log' = Append(log, Commit(ids + 1)) /\ ids' = ids + 1
  /\ synced' \in {synced, Len(log) + 1}
  /\ live' = live \cup {ids + 1} /\ truth' = Append(truth, live')
  /\ count' = IF every = 0 THEN 0 ELSE count + 1
  /\ IF every # 0 /\ count + 1 >= every /\ newest = Nobody
     THEN /\ NewJob
          /\ writer' = "client" /\ newest' = "client"
          /\ job' = [job EXCEPT !["client"] = [Idle EXCEPT !.pc = "fsync", !.kind = "observed"]]
     ELSE UNCHANGED <<locks, job, jobs>>
  /\ UNCHANGED <<base, poisoned, disk, newest_lsn, maybe>>

\* checkpoint_managed, load_snapshot and checkpoint_to take the writer mutex;
\* all but the last then wait for `newest`.
Start(kind) ==
  /\ writer = Nobody /\ At("client", "idle")
  /\ kind = "managed" \/ May(kind)
  /\ kind = "restore" => ids < MaxIds
  /\ NewJob
  /\ writer' = "client"
  /\ job' = [job EXCEPT !["client"] =
       [Idle EXCEPT !.pc = IF kind = "to" THEN "fsync" ELSE "lock", !.kind = kind]]
  /\ UNCHANGED <<wal, live, ids, disk, newest, store, history>>

\* Variant: the checkpoint behind the writers takes its locks the other way.
on_growthLocked ==
  /\ May("behind") /\ At("behind", "idle") /\ newest = Nobody /\ NewJob
  /\ newest' = "behind"
  /\ job' = [job EXCEPT !["behind"] = [Idle EXCEPT !.pc = "take", !.kind = "managed"]]
  /\ UNCHANGED <<wal, live, ids, disk, writer, store, history>>

\* The WAL has grown: one thread at a time.
on_growth ==
  /\ May("behind") /\ At("behind", "idle") /\ NewJob
  /\ job' = [job EXCEPT !["behind"] = [Idle EXCEPT !.pc = "take", !.kind = "managed"]]
  /\ UNCHANGED <<wal, live, ids, disk, locks, store, history>>

\* checkpoint_behind_writers: fsync, graph and LSN, all under the writer mutex.
Take ==
  /\ At("behind", "take") /\ writer = Nobody
  /\ \/ Refused("behind")
     \/ /\ ~poisoned /\ synced' = Len(log)
        /\ job' = [job EXCEPT !["behind"] =
             [@ EXCEPT !.pc = "lock", !.lsn = Len(log), !.graph = live]]
        /\ UNCHANGED <<log, base, poisoned, graph, disk, locks, store, history>>

\* Variant: whatever was installed meanwhile.
LockNoSkip(p) ==
  /\ At(p, "lock") /\ newest \in {Nobody, p}
  /\ newest' = p /\ GoTo(p, IF p = "behind" THEN "rename" ELSE "fsync")
  /\ UNCHANGED <<wal, graph, disk, writer, store, history>>

\* `newest`.  The checkpoint behind the writers has its LSN already, and does
\* nothing when one at or past it was installed.
Lock(p) ==
  /\ At(p, "lock") /\ newest \in {Nobody, p}
  /\ IF p = "behind" /\ newest_lsn >= job[p].lsn THEN Unlock(p)
     ELSE newest' = p /\ GoTo(p, IF p = "behind" THEN "rename" ELSE "fsync") /\ UNCHANGED writer
  /\ UNCHANGED <<wal, graph, disk, store, history>>

\* force_fsync, with the graph and the LSN it is stamped with.
Fsync ==
  /\ At("client", "fsync")
  /\ \/ Refused("client")
     \/ /\ ~poisoned /\ synced' = Len(log)
        /\ ids' = IF job["client"].kind = "restore" THEN ids + 1 ELSE ids
        /\ job' = [job EXCEPT !["client"] =
             [@ EXCEPT !.pc = "rename", !.lsn = Len(log),
                       !.graph = IF job["client"].kind = "restore" THEN {ids + 1} ELSE live]]
        /\ UNCHANGED <<log, base, poisoned, live, jobs, disk, locks, store, history>>

-----------------------------------------------------------------------------
(* write_snapshot and install_locked.                                      *)

\* The finished temporary file gets its name.
Rename(p) ==
  /\ At(p, "rename")
  /\ \/ Fails(p)
     \/ LET new == Snap(job[p].lsn, job[p].graph) IN
        /\ IF job[p].kind = "to"
           THEN ext' = new /\ GoTo(p, "mark") /\ UNCHANGED files
           ELSE /\ files' = {f \in files : f.lsn # new.lsn} \cup {new}
                /\ job' = [job EXCEPT ![p].pc = "syncdir", ![p].installed = TRUE]
                /\ UNCHANGED ext
        /\ maybe' = IF job[p].kind = "restore" THEN {new} ELSE maybe
        /\ UNCHANGED <<wal, graph, filesSynced, cur, curSynced, locks, store, truth>>

SyncDir == filesSynced' = files /\ curSynced' = cur

sync_dir(p) ==
  /\ At(p, "syncdir")
  /\ \/ Fails(p)
     \/ /\ SyncDir /\ GoTo(p, "current")
        /\ UNCHANGED <<wal, graph, files, cur, ext, locks, store, history>>

\* write_current: the file CURRENT replaced, then on storage.
write_current(p) ==
  /\ At(p, "current")
  /\ \/ Fails(p)
     \/ /\ cur' = job[p].lsn /\ GoTo(p, "installed")
        /\ UNCHANGED <<wal, graph, files, filesSynced, curSynced, ext, locks, store, history>>

Installed(p) ==
  /\ At(p, "installed")
  /\ \/ Fails(p)
     \/ /\ SyncDir /\ newest_lsn' = job[p].lsn /\ GoTo(p, "mark")
        /\ UNCHANGED <<wal, graph, files, cur, ext, locks, count, history>>

checkpoint_marker(p) ==
  /\ At(p, "mark")
  /\ \/ Refused(p)
     \/ /\ ~poisoned /\ Len(log) < MaxLsn
        /\ log' = Append(log, Marker(job[p].lsn)) /\ truth' = Append(truth, live)
        /\ GoTo(p, "fsync2")
        /\ UNCHANGED <<synced, base, poisoned, graph, disk, locks, store, maybe>>

Fsync2(p) ==
  /\ At(p, "fsync2")
  /\ \/ Refused(p)
     \/ /\ ~poisoned /\ synced' = Len(log) /\ GoTo(p, "truncate")
        /\ UNCHANGED <<log, base, poisoned, graph, disk, locks, store, history>>

\* A restore is published once its checkpoint is done, and everything from
\* its LSN on is on top of it.
Done(p) ==
  /\ Unlock(p)
  /\ IF job[p].kind = "restore"
     THEN /\ live' = job[p].graph /\ maybe' = {}
          /\ truth' = [n \in DOMAIN truth |-> IF n > job[p].lsn THEN job[p].graph ELSE truth[n]]
     ELSE UNCHANGED <<live, history>>

\* Whole segments at or below the fence, some of them kept or not removed.
truncate_up_to(p) ==
  /\ At(p, "truncate")
  /\ base' \in base .. (IF base > job[p].lsn THEN base ELSE job[p].lsn + 1)
  /\ IF job[p].kind = "to" THEN Done(p) /\ UNCHANGED <<ids, jobs>>
     ELSE GoTo(p, "prune") /\ UNCHANGED <<graph, locks, history>>
  /\ UNCHANGED <<log, synced, poisoned, disk, store>>

\* All but CURRENT and the keep_old newest others.
Prunable(lsn) ==
  LET others == {f \in files : f.lsn # lsn} IN
  {f \in others : Cardinality({g \in others : g.lsn > f.lsn}) >= keep_old}

\* Oldest first; a removal that fails leaves the rest.
prune_old_snapshots(p) ==
  /\ At(p, "prune")
  /\ count' = 0
  /\ \E n \in {0, MaxLsn} :
       /\ n < MaxLsn => May("fail")
       /\ files' = files \ {f \in Prunable(job[p].lsn) : f.lsn < n}
       /\ filesSynced' = IF n = MaxLsn THEN files' ELSE filesSynced
  /\ Done(p)
  /\ UNCHANGED <<wal, ids, jobs, cur, curSynced, ext, newest_lsn>>

-----------------------------------------------------------------------------
(* Crash and open.                                                         *)

\* What storage may hold: every name old or new.
Disks ==
  {fs \in SUBSET (files \cup filesSynced) :
     /\ files \cap filesSynced \subseteq fs
     /\ \A f, g \in fs : f.lsn = g.lsn => f = g
     /\ \A f \in files, g \in filesSynced : f.lsn = g.lsn => \E h \in fs : h.lsn = f.lsn}

\* load_latest: the file CURRENT names, or else the newest.
Loaded(fs, c) ==
  IF \E f \in fs : f.lsn = c THEN CHOOSE f \in fs : f.lsn = c
  ELSE IF fs = {} THEN NoSnap
  ELSE CHOOSE f \in fs : \A g \in fs : g.lsn <= f.lsn

\* What a replay of the records in (fence, last] applies.
Commits(fence, last) ==
  {log[n].n : n \in {m \in fence + 1 .. last : log[m].kind = "commit"}}

\* replay_segments above the fence: no gap before it, no marker that regresses,
\* no commit that the snapshot has already and that does not apply again.
Replays(snap, last) ==
  LET Markers == {n \in base .. last : n > snap.lsn /\ log[n].kind = "marker"} IN
  /\ base - 1 <= snap.lsn
  /\ \A m, n \in Markers : m < n => log[m].n <= log[n].n
  /\ Commits(snap.lsn, last) \cap snap.graph = {}

Recovered(snap, last) == snap.graph \cup Commits(snap.lsn, last)

CrashAndOpen ==
  /\ May("crash")
  /\ \E last \in synced .. Len(log), fs \in Disks, c \in {cur, curSynced} :
       LET snap == Loaded(fs, c)
           g == Recovered(snap, last) IN
       /\ Replays(snap, last)
       /\ log' = SubSeq(log, 1, last) /\ synced' = last
       /\ live' = g
       /\ truth' = [n \in 1 .. last + 1 |->
                      IF n > snap.lsn /\ g # truth[last + 1] THEN g ELSE truth[n]]
       /\ files' = fs /\ filesSynced' = fs /\ cur' = c /\ curSynced' = c
       /\ newest_lsn' = snap.lsn
  /\ poisoned' = FALSE /\ writer' = Nobody /\ newest' = Nobody /\ count' = 0
  /\ job' = [p \in Procs |-> Idle] /\ maybe' = {}
  /\ UNCHANGED <<base, ids, jobs, ext>>

-----------------------------------------------------------------------------
Step(p) ==
  \/ Lock(p) \/ Rename(p) \/ sync_dir(p) \/ write_current(p) \/ Installed(p)
  \/ checkpoint_marker(p) \/ Fsync2(p) \/ truncate_up_to(p) \/ prune_old_snapshots(p)

Next ==
  \/ commit \/ \E kind \in {"managed", "restore", "to"} : Start(kind)
  \/ on_growth \/ Take \/ Fsync \/ \E p \in Procs : Step(p)
  \/ CrashAndOpen

Spec == Init /\ [][Next]_vars

\* A thread runs on, and gets a mutex that is released again and again.
Fairness ==
  /\ WF_vars(Fsync) /\ SF_vars(Take)
  /\ \A p \in Procs : SF_vars(Lock(p)) /\ WF_vars(Step(p))

LiveSpec == Spec /\ Fairness
=============================================================================
