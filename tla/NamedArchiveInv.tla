--------------------------- MODULE NamedArchiveInv ---------------------------
(* What must hold of a named database's work directory and container.      *)
EXTENDS NamedArchive

Graphs == [k : 0 .. MaxRestores, n : 0 .. MaxCommits]
Copies == [snap : Graphs, first : 1 .. MaxCommits + 1, end : -1 .. MaxCommits]

Installing == {"rename", "sync_dir", "drop_covered_wal"}
Writing == {"write", "segments", "replace", "sync_parent"}
Jobs == [pc : {"idle", "lock", "staged"} \cup Installing \cup Writing,
         kind : {"none", "sync", "restore", "forced"}, graph : Graphs, copy : Copies]

\* Every variable stays in its type.
TypeOK ==
  /\ phase \in {"down", "prepared", "up", "closing"}
  /\ {work, workSynced} \subseteq {"none", "dir", "wal"}
  /\ {snap, snapSynced, live, promised, saved} \subseteq Graphs
  /\ lived \subseteq Graphs /\ kept \subseteq lived
  /\ firstSynced \in 1 .. first /\ first \in 1 .. MaxCommits + 1
  /\ endSynced \in 0 .. end /\ end \in 0 .. MaxCommits /\ durable_lsn \in 0 .. MaxCommits
  /\ {box, boxSynced} \subseteq Copies
  /\ {dirty, failure, poisoned} \subseteq BOOLEAN
  /\ {writer, write_lock} \subseteq Writers \cup {Nobody}
  /\ job \in [Writers -> Jobs]
  /\ jobs \in 0 .. MaxJobs /\ restores \in 0 .. MaxRestores /\ stops \in 0 .. MaxStops

\* Whatever the process was doing when it died or was closed, the next open
\* finds a WAL that reaches back to its snapshot and rebuilds a graph that
\* was live, with everything a caller was told is durable: the work
\* directory recovers by itself at every step of a checkpoint, a restore,
\* and its own removal, and the container does where there is none.
RecoversPromised ==
  /\ phase = "prepared" => Replays(Copy(snap, first, end))
  /\ phase \in {"up", "closing"} => live \in kept /\ Before(promised, live)

\* The container, as it is seen and as a power loss leaves it, is a whole
\* database by itself at any moment, copied while commits go on or not: it
\* rebuilds a graph that was live and has all that the last sync, restore
\* or close put in it.
ContainerWhole ==
  \A c \in {box, boxSynced} \ {NoBox} :
    Replays(c) /\ Rebuilt(c) \in lived /\ Before(saved, Rebuilt(c))

-----------------------------------------------------------------------------
(* The inductive invariant behind the two, when a power loss takes only    *)
(* what it may take of files that their writer synced: with no "lost_..."  *)
(* in Ops.                                                                 *)

\* What each container writer is doing, and which locks it holds for that.
Held ==
  /\ job["worker"].kind = "none" /\ job["worker"].pc \in {"idle", "lock"} \cup Writing
  /\ job["checkpoint"].pc \in {"idle", "staged"} \cup Installing \cup Writing
  /\ job["checkpoint"].kind \in {"none", "sync", "restore"}
  /\ job["checkpoint"].kind = "none" <=> job["checkpoint"].pc = "idle"
  /\ job["forced"].pc \in {"idle"} \cup Writing
  /\ job["forced"].kind \in {"none", "forced"}
  /\ job["forced"].kind = "none" <=> job["forced"].pc = "idle"
  /\ \A p \in Writers : write_lock = p <=> job[p].pc \in Installing \cup Writing
  /\ writer # "worker"
  /\ writer = "checkpoint" <=> job["checkpoint"].kind = "restore"
  /\ writer = "forced" <=> job["forced"].kind = "forced"

\* Nothing runs in a database that is not open.
AtRest ==
  phase \in {"down", "prepared"} =>
    /\ job = [p \in Writers |-> Idle] /\ writer = Nobody /\ write_lock = Nobody
    /\ ~ dirty /\ ~ failure /\ ~ poisoned

\* The files of the work directory, whichever of them a power loss takes
\* back, are a snapshot and a WAL that reaches back to it; they rebuild a
\* graph of this timeline with all that was promised.
WorkWhole ==
  /\ first <= snapSynced.n + 1 /\ snapSynced.n <= snap.n /\ snap.n <= endSynced
  /\ snapSynced.k <= snap.k /\ \A g \in kept : g.k <= restores
  /\ snapSynced.k < snap.k => endSynced = end
  /\ \A n \in endSynced .. end : Graph(snapSynced.k, n) \in kept /\ Graph(snap.k, n) \in kept
  /\ Before(promised, Graph(snapSynced.k, endSynced)) /\ Before(saved, promised)
  /\ NoGraph \in kept

\* Where there is no WAL to recover from, the container has it all.
WorkEntry ==
  /\ workSynced = work \/ (work = "none" /\ workSynced = "wal")
  /\ work = "none" => phase \in {"down", "closing"}
  /\ work = "dir" => phase \in {"down", "prepared"}
  /\ work # "wal" =>
       /\ box = boxSynced
       /\ IF box = NoBox THEN promised = NoGraph
          ELSE Rebuilt(box) \in kept /\ Before(promised, Rebuilt(box))

\* The published graph is the newest of the work directory, unless a
\* restore is being installed, or failed at it.
LiveIsNewest ==
  phase \in {"up", "closing"} =>
    /\ live.n = end /\ live \in kept /\ Before(promised, live)
    /\ live.k <= snapSynced.k
    /\ durable_lsn <= end /\ (durable_lsn = end => endSynced = end)
    /\ \/ live.k = snap.k \/ poisoned
       \/ job["checkpoint"].kind = "restore" /\ job["checkpoint"].pc \notin {"staged", "rename"}

\* A checkpoint's graph is fsynced in the WAL, and is the snapshot's from the
\* rename on; a restore's, with the writer mutex held, is of the last LSN.
CheckpointGraph ==
  LET g == job["checkpoint"].graph   pc == job["checkpoint"].pc IN
  /\ job["checkpoint"].kind = "sync" =>
       g.k = live.k /\ snap.k = live.k /\ g \in kept /\ g.n <= endSynced
  /\ job["checkpoint"].kind = "restore" =>
       /\ live.k < g.k /\ g.k <= restores /\ g.n = end /\ endSynced = end
       /\ pc \in {"staged", "rename"} => snap.k = live.k
  /\ pc \in {"staged", "rename"} => snap.n <= g.n
  /\ pc \in {"sync_dir", "drop_covered_wal"} \cup Writing => snap = g
  /\ pc \in {"drop_covered_wal"} \cup Writing => snapSynced = snap

\* A forced persist's graph is the published one, fsynced, to its end.
ForcedGraph ==
  job["forced"].kind = "forced" =>
    job["forced"].graph = live /\ endSynced = end /\ snap.k = live.k

Whole(c) ==
  /\ c.first <= c.snap.n + 1 /\ c.snap.n <= c.end
  /\ Graph(c.snap.k, c.end) \in lived /\ Before(saved, Graph(c.snap.k, c.end))

\* A copy is of the snapshot that its lock keeps in place, and is whole once
\* it has the segments.
CopyWhole ==
  \A p \in Writers :
    /\ job[p].pc \in {"segments", "replace", "sync_parent"} => job[p].copy.snap = snap
    /\ job[p].pc \in {"replace", "sync_parent"} =>
         /\ Whole(job[p].copy)
         /\ p # "worker" => Before(job[p].graph, Graph(snap.k, job[p].copy.end))
    /\ job[p].pc = "sync_parent" => box = job[p].copy

BoxWhole == \A c \in {box, boxSynced} : c = NoBox \/ Whole(c)

Full(c) == c.snap.k = snap.k /\ c.end = end

\* A clean close leaves a container with everything before the work
\* directory goes.
ClosesFull ==
  phase = "closing" =>
    /\ job["checkpoint"].pc = "idle" /\ job["forced"].pc = "idle" /\ endSynced = end
    /\ ~ failure /\ ~ dirty =>
         /\ job["worker"].pc \in {"replace", "sync_parent"} => Full(job["worker"].copy)
         /\ job["worker"].pc = "idle" => box = boxSynced /\ Full(box)
    /\ work = "wal" \/ (WorkerReturned /\ ~ failure)

ArchiveInv ==
  TypeOK /\ Held /\ AtRest /\ WorkWhole /\ WorkEntry /\ LiveIsNewest
  /\ CheckpointGraph /\ ForcedGraph /\ CopyWhole /\ BoxWhole /\ ClosesFull
=============================================================================
