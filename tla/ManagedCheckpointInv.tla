------------------------ MODULE ManagedCheckpointInv ------------------------
(* What must hold of the snapshot directory and the WAL together.          *)
EXTENDS ManagedCheckpoint

Graphs == SUBSET (1 .. MaxIds)
Snaps == [lsn : 0 .. MaxLsn, graph : Graphs]
Records == [kind : {"commit", "marker"}, n : Nat]
Pcs == {"idle", "lock", "take", "fsync", "rename", "syncdir", "current", "installed", "mark",
        "fsync2", "truncate", "prune"}
Kinds == {"none", "managed", "observed", "restore", "to"}
JobStates == [pc : Pcs, kind : Kinds, lsn : 0 .. MaxLsn, graph : Graphs, installed : BOOLEAN]

\* Every variable stays in its type.
TypeOK ==
  /\ log \in Seq(Records) /\ Len(log) <= MaxLsn
  /\ synced \in 0 .. Len(log) /\ base \in 1 .. MaxLsn + 1 /\ poisoned \in BOOLEAN
  /\ live \in Graphs /\ ids \in 0 .. MaxIds /\ jobs \in 0 .. MaxJobs
  /\ files \subseteq Snaps /\ filesSynced \subseteq Snaps /\ ext \in Snaps
  /\ {cur, curSynced} \subseteq (0 .. MaxLsn) \cup {NoCurrent}
  /\ writer \in Procs \cup {Nobody} /\ newest \in Procs \cup {Nobody}
  /\ newest_lsn \in 0 .. MaxLsn /\ count \in 0 .. ids
  /\ job \in [Procs -> JobStates]
  /\ truth \in Seq(Graphs) /\ Len(truth) = Len(log) + 1 /\ maybe \subseteq Snaps

\* Whenever the process dies, the next open succeeds and finds the graph of
\* the commits that reached storage: checkpoints, restores and their failures
\* in any order never leave CURRENT on a snapshot whose WAL is gone, and a
\* restore takes effect as a whole or not at all.
RecoversDurable ==
  \A last \in synced .. Len(log), fs \in Disks, c \in {cur, curSynced} :
    LET snap == Loaded(fs, c) IN
    /\ Replays(snap, last)
    /\ Recovered(snap, last) \in {truth[last + 1]} \cup {m.graph : m \in maybe}

\* The same, where the file of checkpoint_to may be what recovery starts from.
RecoversSomewhere ==
  \A last \in synced .. Len(log), fs \in Disks, c \in {cur, curSynced} :
    \E snap \in {Loaded(fs, c), ext} : Replays(snap, last)

\* "Managed snapshot files whose LSN fence is at or below ... Used by
\* change-feed history replay to find a base": each is the graph at its LSN.
BasesTrue ==
  ~poisoned /\ maybe = {} =>
    \A f \in files : f.lsn <= Len(log) => f.graph = truth[f.lsn + 1]

\* Every checkpoint ends and lets go of its locks, whoever else runs one.
CheckpointsEnd == \A p \in Procs : ~At(p, "idle") ~> At(p, "idle")

-----------------------------------------------------------------------------
(* The inductive invariant behind the theorem of ManagedCheckpointProofs,  *)
(* without checkpoint_to.                                                  *)

Covered == {"mark", "fsync2", "truncate", "prune"}
Current == {"installed"} \cup Covered
Named == {"syncdir", "current"} \cup Current
Stamped == {"rename"} \cup Named

JobSnap(p) == Snap(job[p].lsn, job[p].graph)
Pc(p) == job[p].pc

\* Who holds the mutexes: a client from the start, `newest` from when a
\* snapshot is stamped, or, behind the writers, from when it is written.
Locks ==
  /\ writer \in {Nobody, "client"} /\ (writer = Nobody <=> Pc("client") = "idle")
  /\ \A p \in Procs :
       /\ Pc(p) = "idle" => job[p] = Idle
       /\ Pc(p) \in Stamped \cup {"fsync"} => newest = p
       /\ job[p].kind # "to" /\ (job[p].installed <=> Pc(p) \in Named)
       /\ job[p].kind = "restore" => p = "client"
  /\ Pc("client") # "take" /\ Pc("behind") # "fsync"
  /\ job["client"].kind = "restore" /\ Pc("client") \in {"lock", "fsync"} => ids < MaxIds

\* A snapshot covers nothing that is not on storage, and the log goes back to
\* the newest one installed, which no marker is past.
Order ==
  /\ newest_lsn <= synced /\ base - 1 <= newest_lsn
  /\ \A n \in DOMAIN log :
       IF log[n].kind = "commit" THEN log[n].n \in 1 .. ids ELSE log[n].n <= newest_lsn
  /\ \A m, n \in DOMAIN log :
       m < n /\ log[m].kind = "marker" /\ log[n].kind = "marker" => log[m].n <= log[n].n
  /\ live \subseteq 1 .. ids /\ live = truth[Len(log) + 1]

\* The snapshot directory, as seen and on storage: CURRENT names a file, and
\* before there is a CURRENT nothing was dropped or marked.
Directory ==
  /\ \A f \in files \cup filesSynced : f.lsn <= synced /\ f.graph \subseteq 1 .. ids
  /\ \A f, g \in files : f.lsn = g.lsn => f = g
  /\ \A f, g \in filesSynced : f.lsn = g.lsn => f = g
  /\ \A c \in {cur, curSynced} :
       IF c = NoCurrent
       THEN base = 1 /\ \A n \in DOMAIN log : log[n].kind = "commit"
       ELSE /\ newest_lsn <= c
            /\ (\E f \in files : f.lsn = c) /\ (\E f \in filesSynced : f.lsn = c)

\* From the snapshot s, replay gets to the graph at any LSN storage may have
\* kept, or to a restore under way.
Exact(s) ==
  /\ s.lsn <= synced /\ Commits(s.lsn, Len(log)) \cap s.graph = {}
  /\ \A last \in synced .. Len(log) : Recovered(s, last) = truth[last + 1]
Good(s) ==
  /\ s.lsn <= synced /\ Commits(s.lsn, Len(log)) \cap s.graph = {}
  /\ \A last \in synced .. Len(log) :
       Recovered(s, last) \in {truth[last + 1]} \cup {m.graph : m \in maybe}

\* Every file that an open may load is good: the one CURRENT names, or, before
\* there is a CURRENT, one that every file sure to be there is not newer than.
Loadable ==
  \A c \in {cur, curSynced} :
    IF c # NoCurrent
    THEN \A f \in files \cup filesSynced : f.lsn = c => Good(f)
    ELSE /\ \A f \in files \cup filesSynced :
              (\A g \in files, h \in filesSynced : g.lsn = h.lsn => g.lsn <= f.lsn) => Good(f)
         /\ (\A g \in files, h \in filesSynced : g.lsn # h.lsn) => Good(NoSnap)

\* What each checkpoint has done so far; the one behind the writers may find
\* that it is too late.
JobOk(p) ==
  /\ Pc(p) \in Stamped =>
       /\ newest_lsn <= job[p].lsn /\ job[p].lsn <= synced /\ job[p].graph \subseteq 1 .. ids
       /\ job[p].kind # "restore" => Exact(JobSnap(p))
  /\ p = "behind" /\ Pc(p) = "lock" =>
       /\ job[p].lsn <= synced /\ job[p].graph \subseteq 1 .. ids
       /\ newest_lsn < job[p].lsn => Exact(JobSnap(p))
  /\ Pc(p) \in Named => JobSnap(p) \in files
  /\ Pc(p) \in Named \ {"syncdir"} => filesSynced = files
  /\ Pc(p) \in Current => cur = job[p].lsn
  /\ Pc(p) \in Covered => curSynced = job[p].lsn /\ newest_lsn = job[p].lsn
Jobs == \A p \in Procs : JobOk(p)

\* Nothing is committed over a restore under way, and while one that failed
\* halfway may come back, nothing is written.
Restoring ==
  LET j == job["client"] IN
  /\ j.kind = "restore" /\ j.pc \in Stamped =>
       \A n \in DOMAIN log : n > j.lsn => log[n].kind = "marker"
  /\ j.kind = "restore" /\ j.pc = "rename" => maybe = {}
  /\ j.kind = "restore" /\ j.pc \in Named => maybe = {JobSnap("client")}
  /\ maybe # {} => poisoned \/ (j.kind = "restore" /\ j.pc \in Named)

\* A client that writes a snapshot has kept the writers out since any that the
\* checkpoint behind them has taken.
Late ==
  Pc("client") \in Stamped /\ Pc("behind") = "lock" => job["behind"].lsn <= job["client"].lsn

CheckpointInv ==
  TypeOK /\ Locks /\ Order /\ Directory /\ Loadable /\ Jobs /\ Restoring
=============================================================================
