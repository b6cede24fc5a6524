---------------------- MODULE ManagedCheckpointProofs ----------------------
(***************************************************************************)
(* What managed snapshots and the WAL recover, for every number of         *)
(* commits, restores, checkpoints, failures and crashes.                   *)
(***************************************************************************)
EXTENDS ManagedCheckpointInv, FiniteSetTheorems, TLAPS

-----------------------------------------------------------------------------
(* The newest of the files, and the records of jobs.                       *)

\* A set of snapshots has one with the greatest LSN.
LEMMA NewestOf ==
  ASSUME NEW fs \in SUBSET Snaps, fs # {}
  PROVE  \E f \in fs : \A g \in fs : g.lsn <= f.lsn
<1> DEFINE Upto(f) == f.lsn .. MaxLsn
           T == {Upto(f) : f \in fs}
           R == StrictSubsetOrdering(0 .. MaxLsn)
           P == SUBSET (0 .. MaxLsn)
<1>0. MaxLsn \in Nat /\ \A f \in fs : f.lsn \in 0 .. MaxLsn
  BY ManagedCheckpointAssumption DEF Snaps
<1>1. IsFiniteSet(0 .. MaxLsn)
  BY <1>0, FS_Interval
<1>2. IsWellFoundedOn(R, P)
  BY <1>1, FS_StrictSubsetOrderingWellFounded, FS_FiniteSubsetsOfFinite, Zenon
<1>3. T \subseteq P /\ T # {}
  BY <1>0
<1>4. \E x \in T : \A y \in T : ~(<<y, x>> \in R)
  <2> HIDE DEF R, P, T
  <2> QED
    BY <1>2, <1>3, WFMin
<1>5. PICK f \in fs : \A g \in fs : ~(<<Upto(g), Upto(f)>> \in R)
  BY <1>4
<1>6. ASSUME NEW g \in fs, ~(g.lsn <= f.lsn) PROVE FALSE
  <2>1. g.lsn \in 0 .. MaxLsn /\ f.lsn \in 0 .. MaxLsn /\ f.lsn < g.lsn
    BY <1>0, <1>6
  <2>2. Upto(g) \subseteq Upto(f) /\ f.lsn \in Upto(f) /\ f.lsn \notin Upto(g)
    BY <1>0, <2>1
  <2>3. Upto(g) \in P /\ Upto(f) \in P
    BY <1>0, <2>1
  <2>4. <<Upto(g), Upto(f)>> \in R
    <3> HIDE DEF Upto
    <3> QED
      BY <2>2, <2>3 DEF StrictSubsetOrdering
  <2> QED
    BY <1>5, <2>4
<1> QED
  BY <1>6

LEMMA JobFields ==
  ASSUME NEW j \in JobStates
  PROVE  /\ j.pc \in Pcs /\ j.lsn \in 0 .. MaxLsn /\ j.lsn \in Nat /\ j.graph \in Graphs
         /\ j.kind \in Kinds
         /\ j.installed \in BOOLEAN /\ Snap(j.lsn, j.graph) \in Snaps
BY ManagedCheckpointAssumption DEF JobStates, Snaps, Snap

LEMMA SnapFields ==
  ASSUME NEW l, NEW g
  PROVE  Snap(l, g).lsn = l /\ Snap(l, g).graph = g
BY DEF Snap

LEMMA IdleFields ==
  /\ Idle \in JobStates /\ Idle.pc = "idle" /\ Idle.kind = "none" /\ ~Idle.installed
  /\ NoSnap \in Snaps /\ NoSnap.lsn = 0 /\ NoSnap.graph = {}
<1>1. 0 \in 0 .. MaxLsn /\ {} \in Graphs
  BY ManagedCheckpointAssumption DEF Graphs
<1>2. \A b \in BOOLEAN :
        [pc |-> "idle", kind |-> "none", lsn |-> 0, graph |-> {}, installed |-> b] \in JobStates
  BY <1>1 DEF JobStates, Pcs, Kinds
<1>3. Idle \in JobStates
  BY <1>2, Zenon DEF Idle
<1>4. NoSnap \in Snaps /\ NoSnap.lsn = 0 /\ NoSnap.graph = {}
  BY <1>1 DEF Snaps, NoSnap, Snap
<1> QED
  BY <1>3, <1>4 DEF Idle

\* A job at another step.
LEMMA JobMoved ==
  ASSUME NEW j \in JobStates, NEW pc \in Pcs, NEW k, k = [j EXCEPT !.pc = pc]
  PROVE  /\ k \in JobStates /\ k.pc = pc /\ k.kind = j.kind /\ k.lsn = j.lsn
         /\ k.graph = j.graph /\ k.installed = j.installed
<1>1. k = [pc |-> pc, kind |-> j.kind, lsn |-> j.lsn, graph |-> j.graph,
           installed |-> j.installed]
  BY DEF JobStates
<1>2. \A b \in BOOLEAN : [pc |-> pc, kind |-> j.kind, lsn |-> j.lsn, graph |-> j.graph,
                          installed |-> b] \in JobStates
  BY JobFields DEF JobStates
<1>3. j.installed \in BOOLEAN
  BY JobFields
<1>4. k \in JobStates
  BY <1>1, <1>2, <1>3, Zenon
<1> QED
  BY <1>1, <1>4

LEMMA JobNamed ==
  ASSUME NEW j \in JobStates, NEW k, k = [j EXCEPT !.pc = "syncdir", !.installed = TRUE]
  PROVE  /\ k \in JobStates /\ k.pc = "syncdir" /\ k.kind = j.kind /\ k.lsn = j.lsn
         /\ k.graph = j.graph /\ k.installed
<1>1. k = [pc |-> "syncdir", kind |-> j.kind, lsn |-> j.lsn, graph |-> j.graph,
           installed |-> TRUE]
  BY DEF JobStates
<1>2. \A b \in BOOLEAN : [pc |-> "syncdir", kind |-> j.kind, lsn |-> j.lsn, graph |-> j.graph,
                          installed |-> b] \in JobStates
  BY JobFields DEF JobStates, Pcs
<1>3. k \in JobStates
  BY <1>1, <1>2, Zenon
<1> QED
  BY <1>1, <1>3

\* A job that has read the log.
HasRead(j, pc, l, g) == [j EXCEPT !.pc = pc, !.lsn = l, !.graph = g]
LEMMA JobStamped ==
  ASSUME NEW j \in JobStates, NEW pc \in Pcs, NEW l \in 0 .. MaxLsn, NEW g \in Graphs,
         NEW k, k = HasRead(j, pc, l, g)
  PROVE  /\ k \in JobStates /\ k.pc = pc /\ k.kind = j.kind /\ k.lsn = l
         /\ k.graph = g /\ k.installed = j.installed
<1>1. k = [pc |-> pc, kind |-> j.kind, lsn |-> l, graph |-> g, installed |-> j.installed]
  BY DEF JobStates, HasRead
<1>2. \A b \in BOOLEAN : [pc |-> pc, kind |-> j.kind, lsn |-> l, graph |-> g,
                          installed |-> b] \in JobStates
  BY JobFields DEF JobStates
<1>3. j.installed \in BOOLEAN
  BY JobFields
<1>4. k \in JobStates
  BY <1>1, <1>2, <1>3, Zenon
<1> QED
  BY <1>1, <1>4

\* A job that begins.
Begun(pc, kind) == [Idle EXCEPT !.pc = pc, !.kind = kind]
LEMMA JobStarted ==
  ASSUME NEW pc \in Pcs, NEW kind \in Kinds, NEW k, k = Begun(pc, kind)
  PROVE  /\ k \in JobStates /\ k.pc = pc /\ k.kind = kind /\ ~k.installed
<1> DEFINE j == Idle
<1>1. j \in JobStates /\ ~j.installed
  BY IdleFields
<1>2. k = [j EXCEPT !.pc = pc, !.kind = kind]
  BY DEF Begun
<1> HIDE DEF j
<1>3. k = [pc |-> pc, kind |-> kind, lsn |-> j.lsn, graph |-> j.graph,
           installed |-> j.installed]
  BY <1>1, <1>2 DEF JobStates
<1>4. \A b \in BOOLEAN : [pc |-> pc, kind |-> kind, lsn |-> j.lsn, graph |-> j.graph,
                          installed |-> b] \in JobStates
  BY <1>1, JobFields DEF JobStates
<1>5. j.installed \in BOOLEAN
  BY <1>1, JobFields
<1>6. k \in JobStates
  BY <1>3, <1>4, <1>5, Zenon
<1>7. k.pc = pc /\ k.kind = kind
  BY ONLY <1>3
<1>8. k.installed = j.installed
  BY ONLY <1>3
<1> QED
  BY <1>1, <1>6, <1>7, <1>8

\* One process's job replaced.
LEMMA JobSet ==
  ASSUME job \in [Procs -> JobStates], NEW p \in Procs, NEW k \in JobStates,
         job' = [job EXCEPT ![p] = k]
  PROVE  /\ job' \in [Procs -> JobStates] /\ job'[p] = k
         /\ \A q \in Procs : q # p => job'[q] = job[q]
OBVIOUS

LEMMA GoToFacts ==
  ASSUME job \in [Procs -> JobStates], NEW p \in Procs, NEW pc \in Pcs, GoTo(p, pc)
  PROVE  /\ job' \in [Procs -> JobStates] /\ \A q \in Procs : q # p => job'[q] = job[q]
         /\ job'[p].pc = pc /\ job'[p].kind = job[p].kind /\ job'[p].lsn = job[p].lsn
         /\ job'[p].graph = job[p].graph /\ job'[p].installed = job[p].installed
<1> DEFINE k == [job[p] EXCEPT !.pc = pc]
<1>1. job' = [job EXCEPT ![p] = k]
  BY DEF GoTo
<1>2. job[p] \in JobStates
  OBVIOUS
<1>3. /\ k \in JobStates /\ k.pc = pc /\ k.kind = job[p].kind /\ k.lsn = job[p].lsn
      /\ k.graph = job[p].graph /\ k.installed = job[p].installed
  BY <1>2, JobMoved
<1> HIDE DEF k
<1> QED
  BY <1>1, <1>3, JobSet

-----------------------------------------------------------------------------
(* What stays as it was.                                                   *)

LEMMA TypeFields ==
  ASSUME TypeOK
  PROVE  /\ log \in Seq(Records) /\ Len(log) \in Nat /\ Len(log) <= MaxLsn /\ MaxLsn \in Nat
         /\ DOMAIN log = 1 .. Len(log) /\ \A n \in 1 .. Len(log) : log[n] \in Records
         /\ synced \in Nat /\ synced <= Len(log) /\ base \in Nat /\ base >= 1
         /\ live \in Graphs /\ ids \in Nat /\ ids <= MaxIds /\ MaxIds \in Nat
         /\ files \subseteq Snaps /\ filesSynced \subseteq Snaps /\ newest_lsn \in Nat
         /\ cur \in Nat \cup {NoCurrent} /\ curSynced \in Nat \cup {NoCurrent}
         /\ job \in [Procs -> JobStates] /\ maybe \subseteq Snaps
         /\ truth \in Seq(Graphs) /\ Len(truth) = Len(log) + 1 /\ Len(truth) \in Nat
         /\ DOMAIN truth = 1 .. Len(log) + 1
<1> USE ManagedCheckpointAssumption DEF TypeOK
<1>1. MaxLsn \in Nat /\ MaxIds \in Nat /\ Len(log) \in Nat
  OBVIOUS
<1>2. \A n \in 1 .. Len(log) : log[n] \in Records
  OBVIOUS
<1>3. cur \in Nat \cup {NoCurrent} /\ curSynced \in Nat \cup {NoCurrent}
  BY <1>1
<1>4. DOMAIN truth = 1 .. Len(log) + 1 /\ Len(truth) \in Nat
  OBVIOUS
<1> QED
  BY <1>1, <1>2, <1>3, <1>4

LEMMA RecordFields ==
  ASSUME NEW r \in Records
  PROVE  r.kind \in {"commit", "marker"} /\ r.n \in Nat
BY DEF Records

\* A snapshot stays exact while the log does and more of it is synced.
LEMMA ExactKept ==
  ASSUME TypeOK, UNCHANGED <<log, truth>>, synced' \in synced .. Len(log)
  PROVE  \A s : Exact(s) /\ s.lsn \in Nat => Exact(s)'
<1> SUFFICES ASSUME NEW s, Exact(s), s.lsn \in Nat PROVE Exact(s)'
  OBVIOUS
<1>1. synced \in Nat /\ Len(log) \in Nat
  BY TypeFields
<1>2. s.lsn <= synced'
  BY <1>1 DEF Exact
<1>3. \A last \in synced' .. Len(log) : last \in synced .. Len(log)
  BY <1>1
<1> QED
  BY <1>2, <1>3 DEF Exact, Commits, Recovered

\* A good snapshot stays good, whatever else a restore may bring.
LEMMA GoodKept ==
  ASSUME TypeOK, UNCHANGED <<log, truth>>, synced' \in synced .. Len(log),
         maybe \subseteq maybe'
  PROVE  \A s : Good(s) /\ s.lsn \in Nat => Good(s)'
<1> SUFFICES ASSUME NEW s, Good(s), s.lsn \in Nat PROVE Good(s)'
  OBVIOUS
<1>1. synced \in Nat /\ Len(log) \in Nat
  BY TypeFields
<1>2. s.lsn <= synced'
  BY <1>1 DEF Good
<1>3. \A last \in synced' .. Len(log) : last \in synced .. Len(log)
  BY <1>1
<1>4. \A last \in synced' .. Len(log) :
        Recovered(s, last) \in {truth[last + 1]} \cup {m.graph : m \in maybe'}
  <2> SUFFICES ASSUME NEW last \in synced' .. Len(log)
               PROVE  Recovered(s, last) \in {truth[last + 1]} \cup {m.graph : m \in maybe'}
    OBVIOUS
  <2>1. Recovered(s, last) \in {truth[last + 1]} \cup {m.graph : m \in maybe}
    BY <1>3 DEF Good
  <2> HIDE DEF Recovered
  <2> QED
    BY <2>1
<1>5. Commits(s.lsn, Len(log)) \cap s.graph = {}
  BY DEF Good
<1>6. /\ \A last : Recovered(s, last)' = Recovered(s, last)
      /\ Commits(s.lsn, Len(log))' = Commits(s.lsn, Len(log))
  BY DEF Commits, Recovered
<1> QED
  BY <1>2, <1>4, <1>5, <1>6 DEF Good

LEMMA ExactIsGood ==
  \A s : Exact(s) => Good(s)
BY DEF Exact, Good

LEMMA NoSnapLsn ==
  NoSnap.lsn \in Nat
BY IdleFields

LEMMA FileLsns ==
  ASSUME TypeOK
  PROVE  /\ \A f \in files \cup filesSynced :
              f \in Snaps /\ f.lsn \in Nat /\ f.lsn <= MaxLsn /\ f = Snap(f.lsn, f.graph)
         /\ \A p \in Procs : job[p] \in JobStates /\ job[p].lsn \in Nat
              /\ JobSnap(p).lsn = job[p].lsn /\ JobSnap(p).graph = job[p].graph
              /\ JobSnap(p) \in Snaps
<1>1. \A f \in Snaps : f.lsn \in Nat /\ f.lsn <= MaxLsn /\ f = Snap(f.lsn, f.graph)
  BY ManagedCheckpointAssumption DEF Snaps, Snap
<1>2. \A p \in Procs : job[p] \in JobStates
  BY TypeFields
<1>3. \A p \in Procs : job[p].lsn \in Nat /\ JobSnap(p) \in Snaps
  BY <1>2, JobFields DEF JobSnap
<1>4. \A p \in Procs : JobSnap(p).lsn = job[p].lsn /\ JobSnap(p).graph = job[p].graph
  BY DEF JobSnap, Snap
<1> QED
  BY <1>1, <1>2, <1>3, <1>4, TypeFields

LEMMA OrderKept ==
  ASSUME TypeOK, Order, UNCHANGED <<log, base, live, newest_lsn, truth>>,
         synced' \in synced .. Len(log), ids' \in Nat, ids' >= ids
  PROVE  Order'
<1>1. synced \in Nat /\ Len(log) \in Nat /\ ids \in Nat /\ newest_lsn \in Nat
  BY TypeFields
<1>2. newest_lsn <= synced' /\ base - 1 <= newest_lsn
  BY <1>1 DEF Order
<1>3. live \subseteq 1 .. ids'
  BY <1>1 DEF Order
<1>4. \A n \in DOMAIN log : IF log[n].kind = "commit" THEN log[n].n \in 1 .. ids'
                            ELSE log[n].n <= newest_lsn
  BY <1>1 DEF Order
<1> QED
  BY <1>2, <1>3, <1>4 DEF Order

LEMMA DirectoryKept ==
  ASSUME TypeOK, Directory, UNCHANGED <<log, base, newest_lsn, files, filesSynced, cur, curSynced>>,
         synced' \in synced .. Len(log), ids' \in Nat, ids' >= ids
  PROVE  Directory'
<1>1. synced \in Nat /\ Len(log) \in Nat /\ ids \in Nat
  BY TypeFields
<1>2. \A f \in files \cup filesSynced : f.lsn <= synced' /\ f.graph \subseteq 1 .. ids'
  <2> SUFFICES ASSUME NEW f \in files \cup filesSynced
               PROVE  f.lsn <= synced' /\ f.graph \subseteq 1 .. ids'
    OBVIOUS
  <2>1. f.lsn <= synced /\ f.graph \subseteq 1 .. ids /\ f.lsn \in Nat
    BY FileLsns DEF Directory
  <2> QED
    BY <1>1, <2>1
<1> QED
  BY <1>2 DEF Directory

LEMMA LoadableKept ==
  ASSUME TypeOK, Loadable, UNCHANGED <<log, truth, files, filesSynced, cur, curSynced>>,
         synced' \in synced .. Len(log), maybe \subseteq maybe'
  PROVE  Loadable'
<1>1. \A s : Good(s) /\ s.lsn \in Nat => Good(s)'
  BY GoodKept
<1>2. \A f \in files \cup filesSynced : f.lsn \in Nat
  BY FileLsns
<1> QED
  BY <1>1, <1>2, NoSnapLsn DEF Loadable

\* A checkpoint that does nothing in a step.
LEMMA JobKept ==
  ASSUME TypeOK, UNCHANGED <<log, newest_lsn, truth, files, filesSynced, cur, curSynced>>,
         synced' \in synced .. Len(log), ids' \in Nat, ids' >= ids,
         NEW p \in Procs, JobOk(p), job'[p] = job[p]
  PROVE  JobOk(p)'
<1>1. synced \in Nat /\ Len(log) \in Nat /\ ids \in Nat /\ job[p].lsn \in Nat
  BY TypeFields, FileLsns
<1>2. job[p].lsn <= synced => job[p].lsn <= synced'
  BY <1>1
<1>3. job[p].graph \subseteq 1 .. ids => job[p].graph \subseteq 1 .. ids'
  BY <1>1
<1>4. JobSnap(p)' = JobSnap(p) /\ JobSnap(p).lsn = job[p].lsn
  BY FileLsns DEF JobSnap
<1>5. Exact(JobSnap(p)) => Exact(JobSnap(p))'
  BY <1>1, <1>4, ExactKept
<1> QED
  BY <1>2, <1>3, <1>4, <1>5 DEF JobOk, Pc

\* A step of p that changes nothing but its own place and what is on storage.
LEMMA Quiet ==
  ASSUME CheckpointInv, NEW p \in Procs, \A q \in Procs : q # p => job'[q] = job[q],
         UNCHANGED <<log, base, live, newest_lsn, truth, maybe, files, filesSynced, cur, curSynced>>,
         synced' \in synced .. Len(log), ids' \in Nat, ids' >= ids,
         TypeOK', Locks', JobOk(p)', Restoring'
  PROVE  CheckpointInv'
<1>1. TypeOK /\ Order /\ Directory /\ Loadable /\ Jobs
  BY DEF CheckpointInv
<1>2. Order'
  BY <1>1, OrderKept
<1>3. Directory'
  BY <1>1, DirectoryKept
<1>4. Loadable'
  BY <1>1, LoadableKept
<1>5. \A q \in Procs : JobOk(q)'
  <2> SUFFICES ASSUME NEW q \in Procs, q # p PROVE JobOk(q)'
    OBVIOUS
  <2>1. JobOk(q) /\ job'[q] = job[q]
    BY <1>1 DEF Jobs
  <2> QED
    BY <1>1, <2>1, JobKept
<1> QED
  BY <1>2, <1>3, <1>4, <1>5 DEF CheckpointInv, Jobs

\* A job that is over, or has not read the log yet, has nothing to keep.
LEMMA FreshJob ==
  ASSUME NEW p \in Procs, ~(Pc(p)' \in Stamped), ~(p = "behind" /\ Pc(p)' = "lock")
  PROVE  JobOk(p)'
BY DEF JobOk, Stamped, Named, Current, Covered

LEMMA AbortInv ==
  ASSUME CheckpointInv, NEW p \in Procs, Pc(p) \in Stamped \cup {"take", "fsync"},
         NEW broken \in BOOLEAN, Abort(p, broken)
  PROVE  CheckpointInv'
<1>0. TypeOK /\ Locks /\ Restoring
  BY DEF CheckpointInv
<1>1. /\ UNCHANGED <<log, synced, base, live, ids, jobs, newest_lsn, truth, maybe>>
      /\ UNCHANGED <<files, filesSynced, cur, curSynced, ext>>
      /\ poisoned' = (poisoned \/ broken \/ HalfRestored(p))
      /\ count' = (IF job[p].kind = "observed" THEN 0 ELSE count)
      /\ writer' = (IF writer = p THEN Nobody ELSE writer)
      /\ newest' = (IF newest = p THEN Nobody ELSE newest)
      /\ job' = [job EXCEPT ![p] = Idle]
  BY DEF Abort, Unlock, graph, disk, history
<1>2. /\ job' \in [Procs -> JobStates] /\ job'[p] = Idle
      /\ \A q \in Procs : q # p => job'[q] = job[q]
  BY <1>0, <1>1, IdleFields, TypeFields, JobSet
<1>3. poisoned' \in BOOLEAN /\ (poisoned => poisoned') /\ (HalfRestored(p) => poisoned')
  BY <1>0, <1>1 DEF TypeOK, HalfRestored
<1>4. TypeOK'
  <2>1. count' \in 0 .. ids
    BY <1>0, <1>1, TypeFields DEF TypeOK
  <2>2. writer' \in Procs \cup {Nobody} /\ newest' \in Procs \cup {Nobody}
    BY <1>0, <1>1 DEF TypeOK
  <2> QED
    BY <1>0, <1>1, <1>2, <1>3, <2>1, <2>2 DEF TypeOK
<1>5. Locks'
  BY <1>0, <1>1, <1>2, IdleFields
     DEF Locks, Pc, Procs, Nobody, Stamped, Named, Current, Covered
<1>6. JobOk(p)'
  BY <1>2, IdleFields, FreshJob DEF Pc, Stamped, Named, Current, Covered
<1>7. Restoring'
  <2>1. CASE p = "client"
    <3>1. job'["client"] = Idle /\ Idle.kind # "restore"
      BY <1>2, <2>1, IdleFields
    <3>2. maybe # {} => poisoned'
      <4>1. job["client"].kind = "restore" /\ Pc("client") \in Named => HalfRestored(p)
        BY <1>0, <2>1 DEF Locks, HalfRestored
      <4> QED
        BY <1>0, <1>3, <4>1 DEF Restoring, Pc
    <3> QED
      BY <1>1, <3>1, <3>2 DEF Restoring
  <2>2. CASE p # "client"
    <3>1. job'["client"] = job["client"]
      BY <1>2, <2>2 DEF Procs
    <3> QED
      BY <1>0, <1>1, <1>3, <3>1 DEF Restoring, JobSnap
  <2> QED
    BY <2>1, <2>2
<1>8. synced \in synced .. Len(log) /\ ids \in Nat
  BY <1>0, TypeFields
<1> QED
  BY <1>1, <1>2, <1>4, <1>5, <1>6, <1>7, <1>8, Quiet

LEMMA RefusedInv ==
  ASSUME CheckpointInv, NEW p \in Procs, Pc(p) \in Stamped \cup {"take", "fsync"}, Refused(p)
  PROVE  CheckpointInv'
BY AbortInv DEF Refused

LEMMA FailsInv ==
  ASSUME CheckpointInv, NEW p \in Procs, Pc(p) \in Stamped \cup {"take", "fsync"}, Fails(p)
  PROVE  CheckpointInv'
BY AbortInv DEF Fails

-----------------------------------------------------------------------------
(* The start of checkpoints.                                               *)

\* The graph at the end of a log that is all on storage.
LEMMA ExactNow ==
  ASSUME TypeOK, Order, UNCHANGED <<log, truth>>, synced' = Len(log)
  PROVE  \A s : s.lsn = Len(log) /\ s.graph = live => Exact(s)'
<1> SUFFICES ASSUME NEW s, s.lsn = Len(log), s.graph = live PROVE Exact(s)'
  OBVIOUS
<1>1. Len(log) \in Nat
  BY TypeFields
<1>2. Len(log) + 1 .. Len(log) = {} /\ Len(log) .. Len(log) = {Len(log)}
  BY <1>1
<1>3. Commits(Len(log), Len(log)) = {}
  BY <1>2 DEF Commits
<1>4. Recovered(s, Len(log)) = truth[Len(log) + 1]
  BY <1>3 DEF Recovered, Order
<1>5. Commits(s.lsn, Len(log)) \cap s.graph = {}
  BY <1>3
<1>6. /\ \A last : Recovered(s, last)' = Recovered(s, last)
      /\ Commits(s.lsn, Len(log))' = Commits(s.lsn, Len(log))
  BY DEF Commits, Recovered
<1>7. s.lsn <= synced'
  BY <1>1
<1> QED
  BY <1>2, <1>4, <1>5, <1>6, <1>7 DEF Exact

\* A job's snapshot, while more of the log is synced.
LEMMA SnapKept ==
  ASSUME TypeOK, UNCHANGED <<log, truth>>, synced' \in synced .. Len(log),
         ids' \in Nat, ids' >= ids, NEW p \in Procs,
         job'[p].lsn = job[p].lsn, job'[p].graph = job[p].graph
  PROVE  /\ JobSnap(p)' = JobSnap(p) /\ (Exact(JobSnap(p)) => Exact(JobSnap(p))')
         /\ (job[p].lsn <= synced => job[p].lsn <= synced')
         /\ (job[p].graph \subseteq 1 .. ids => job[p].graph \subseteq 1 .. ids')
<1>1. synced \in Nat /\ Len(log) \in Nat /\ ids \in Nat /\ job[p].lsn \in Nat
  BY TypeFields, FileLsns
<1>2. job[p].lsn <= synced => job[p].lsn <= synced'
  BY <1>1
<1>3. job[p].graph \subseteq 1 .. ids => job[p].graph \subseteq 1 .. ids'
  BY <1>1
<1>4. JobSnap(p)' = JobSnap(p) /\ JobSnap(p).lsn = job[p].lsn
  BY FileLsns DEF JobSnap
<1>5. Exact(JobSnap(p)) => Exact(JobSnap(p))'
  BY <1>1, <1>4, ExactKept
<1> QED
  BY <1>2, <1>3, <1>4, <1>5

LEMMA StartInv ==
  ASSUME CheckpointInv, "to" \notin Ops, NEW kind \in {"managed", "restore", "to"}, Start(kind)
  PROVE  CheckpointInv'
<1>0. TypeOK /\ Locks /\ Restoring
  BY DEF CheckpointInv
<1> DEFINE k == [Idle EXCEPT !.pc = "lock", !.kind = kind]
<1>1. /\ kind # "to" /\ (kind = "restore" => ids < MaxIds)
      /\ writer = Nobody /\ writer' = "client" /\ job["client"].pc = "idle"
      /\ UNCHANGED <<log, synced, base, live, ids, newest_lsn, truth, maybe, poisoned>>
      /\ UNCHANGED <<files, filesSynced, cur, curSynced, ext, newest, count>>
      /\ jobs' \in 0 .. MaxJobs
  BY <1>0, ManagedCheckpointAssumption
     DEF Start, May, At, NewJob, wal, disk, store, history, TypeOK
<1>2. job' = [job EXCEPT !["client"] = k]
  BY <1>1 DEF Start
<1>3. "lock" \in Pcs /\ kind \in Kinds /\ "client" \in Procs
  BY DEF Pcs, Kinds, Procs
<1>k. k = Begun("lock", kind)
  BY DEF Begun
<1> HIDE DEF k
<1>4. k \in JobStates /\ k.pc = "lock" /\ k.kind = kind /\ ~k.installed
  BY ONLY <1>3, <1>k, JobStarted
<1>5. /\ job' \in [Procs -> JobStates] /\ job'["client"] = k
      /\ \A q \in Procs : q # "client" => job'[q] = job[q]
  BY <1>0, <1>2, <1>3, <1>4, TypeFields, JobSet
<1>6. TypeOK'
  BY <1>0, <1>1, <1>3, <1>5 DEF TypeOK
<1>7. Locks'
  BY <1>0, <1>1, <1>4, <1>5 DEF Locks, Pc, Procs, Nobody, Stamped, Named, Current, Covered
<1>8. JobOk("client")'
  BY <1>3, <1>4, <1>5, FreshJob DEF Pc, Stamped, Named, Current, Covered
<1>9. Restoring'
  BY <1>0, <1>1, <1>4, <1>5 DEF Restoring, Stamped, Named, Current, Covered
<1>10. synced \in synced .. Len(log) /\ ids \in Nat
  BY <1>0, TypeFields
<1> QED
  BY <1>1, <1>3, <1>5, <1>6, <1>7, <1>8, <1>9, <1>10, Quiet

LEMMA OnGrowthInv ==
  ASSUME CheckpointInv, on_growth
  PROVE  CheckpointInv'
<1>0. TypeOK /\ Locks /\ Restoring
  BY DEF CheckpointInv
<1> DEFINE k == [Idle EXCEPT !.pc = "take", !.kind = "managed"]
<1>1. /\ job["behind"].pc = "idle" /\ jobs' \in 0 .. MaxJobs
      /\ UNCHANGED <<log, synced, base, live, ids, newest_lsn, truth, maybe, poisoned>>
      /\ UNCHANGED <<files, filesSynced, cur, curSynced, ext, newest, writer, count>>
      /\ job' = [job EXCEPT !["behind"] = k]
  BY <1>0, ManagedCheckpointAssumption
     DEF on_growth, At, NewJob, wal, disk, store, locks, history, TypeOK
<1>3. "take" \in Pcs /\ "managed" \in Kinds /\ "behind" \in Procs /\ "client" \in Procs
  BY DEF Pcs, Kinds, Procs
<1>k. k = Begun("take", "managed")
  BY DEF Begun
<1> HIDE DEF k
<1>4. k \in JobStates /\ k.pc = "take" /\ k.kind = "managed" /\ ~k.installed
  BY ONLY <1>3, <1>k, JobStarted
<1>5. /\ job' \in [Procs -> JobStates] /\ job'["behind"] = k
      /\ \A q \in Procs : q # "behind" => job'[q] = job[q]
  BY <1>0, <1>1, <1>3, <1>4, TypeFields, JobSet
<1>6. TypeOK'
  BY <1>0, <1>1, <1>5 DEF TypeOK
<1>7. Locks'
  BY <1>0, <1>1, <1>4, <1>5 DEF Locks, Pc, Procs, Nobody, Stamped, Named, Current, Covered
<1>8. JobOk("behind")'
  BY <1>3, <1>4, <1>5, FreshJob DEF Pc, Stamped, Named, Current, Covered
<1>9. job'["client"] = job["client"]
  BY <1>3, <1>5
<1>10. Restoring'
  BY <1>0, <1>1, <1>9 DEF Restoring, JobSnap
<1>11. synced \in synced .. Len(log) /\ ids \in Nat
  BY <1>0, TypeFields
<1> QED
  BY <1>1, <1>3, <1>5, <1>6, <1>7, <1>8, <1>10, <1>11, Quiet

LEMMA TakeInv ==
  ASSUME CheckpointInv, Take
  PROVE  CheckpointInv'
<1>0. TypeOK /\ Locks /\ Order /\ Restoring
  BY DEF CheckpointInv
<1> DEFINE l == Len(log)
           k == [job["behind"] EXCEPT !.pc = "lock", !.lsn = l, !.graph = live]
<1>a. "behind" \in Procs /\ "client" \in Procs /\ job["behind"].pc = "take" /\ "lock" \in Pcs
  BY DEF Take, At, Procs, Pcs
<1>1. CASE Refused("behind")
  BY <1>a, <1>1, RefusedInv DEF Pc
<1>2. CASE /\ ~poisoned /\ synced' = Len(log) /\ job' = [job EXCEPT !["behind"] = k]
           /\ UNCHANGED <<log, base, poisoned, graph, disk, locks, store, history>>
  <2>1. /\ UNCHANGED <<log, base, live, ids, newest_lsn, truth, maybe, poisoned, jobs>>
        /\ UNCHANGED <<files, filesSynced, cur, curSynced, ext, newest, writer, count>>
        /\ synced' = l
    BY <1>2 DEF graph, disk, locks, store, history
  <2>2. l \in Nat /\ l \in 0 .. MaxLsn /\ live \in Graphs /\ job["behind"] \in JobStates
    BY <1>0, <1>a, TypeFields
  <2> HIDE DEF l
  <2>k. k = HasRead(job["behind"], "lock", l, live)
    BY DEF HasRead
  <2> HIDE DEF k
  <2>3. /\ k \in JobStates /\ k.pc = "lock" /\ k.kind = job["behind"].kind /\ k.lsn = l
        /\ k.graph = live /\ k.installed = job["behind"].installed
    BY ONLY <1>a, <2>2, <2>k, JobStamped
  <2>4. /\ job' \in [Procs -> JobStates] /\ job'["behind"] = k
        /\ \A q \in Procs : q # "behind" => job'[q] = job[q]
    BY <1>0, <1>2, <1>a, <2>3, TypeFields, JobSet
  <2>5. TypeOK'
    BY <1>0, <2>1, <2>2, <2>4 DEF TypeOK, l
  <2>6. Locks'
    BY <1>0, <1>a, <2>1, <2>3, <2>4
       DEF Locks, Pc, Procs, Nobody, Stamped, Named, Current, Covered
  <2>7. job'["client"] = job["client"]
    BY <1>a, <2>4
  <2>8. Restoring'
    BY <1>0, <2>1, <2>7 DEF Restoring, JobSnap
  <2>9. JobOk("behind")'
    <3>1. JobSnap("behind")'.lsn = l /\ JobSnap("behind")'.graph = live
      BY <2>3, <2>4 DEF JobSnap, Snap
    <3>2. Exact(JobSnap("behind"))'
      BY <1>0, <2>1, <3>1, ExactNow DEF l
    <3>3. job'["behind"].pc = "lock" /\ job'["behind"].lsn <= synced'
          /\ job'["behind"].graph \subseteq 1 .. ids'
      BY <1>0, <2>1, <2>2, <2>3, <2>4 DEF Order
    <3> QED
      BY <3>2, <3>3 DEF JobOk, Pc, Stamped, Named, Current, Covered
  <2>10. synced' \in synced .. Len(log) /\ ids \in Nat
    BY <1>0, <2>1, TypeFields DEF l
  <2> QED
    BY <1>a, <2>1, <2>4, <2>5, <2>6, <2>8, <2>9, <2>10, Quiet
<1> QED
  BY <1>1, <1>2 DEF Take

LEMMA LockInv ==
  ASSUME CheckpointInv, NEW p \in Procs, Lock(p)
  PROVE  CheckpointInv'
<1>0. TypeOK /\ Locks /\ Order /\ Jobs /\ Restoring
  BY DEF CheckpointInv
<1>1. /\ UNCHANGED <<log, synced, base, live, ids, jobs, newest_lsn, truth, maybe, poisoned>>
      /\ UNCHANGED <<files, filesSynced, cur, curSynced, ext, count>>
      /\ Pc(p) = "lock" /\ newest \in {Nobody, p}
  BY DEF Lock, At, Pc, wal, graph, disk, store, history
<1>2. synced' \in synced .. Len(log) /\ ids' \in Nat /\ ids' >= ids
  BY <1>0, <1>1, TypeFields
<1>3. CASE p = "behind" /\ newest_lsn >= job[p].lsn
  <2>1. /\ job' = [job EXCEPT ![p] = Idle]
        /\ writer' = (IF writer = p THEN Nobody ELSE writer)
        /\ newest' = (IF newest = p THEN Nobody ELSE newest)
    BY <1>3 DEF Lock, Unlock
  <2>2. /\ job' \in [Procs -> JobStates] /\ job'[p] = Idle
        /\ \A q \in Procs : q # p => job'[q] = job[q]
    BY <1>0, <2>1, IdleFields, TypeFields, JobSet
  <2>3. TypeOK'
    <3>1. writer' \in Procs \cup {Nobody} /\ newest' \in Procs \cup {Nobody}
      BY <1>0, <2>1 DEF TypeOK
    <3> QED
      BY <1>0, <1>1, <2>2, <3>1 DEF TypeOK
  <2>4. Locks'
    BY <1>0, <1>1, <1>3, <2>1, <2>2, IdleFields
       DEF Locks, Pc, Procs, Nobody, Stamped, Named, Current, Covered
  <2>5. JobOk(p)'
    BY <2>2, IdleFields, FreshJob DEF Pc, Stamped, Named, Current, Covered
  <2>6. job'["client"] = job["client"]
    BY <1>3, <2>2 DEF Procs
  <2>7. Restoring'
    BY <1>0, <1>1, <2>6 DEF Restoring, JobSnap
  <2> QED
    BY <1>1, <1>2, <2>2, <2>3, <2>4, <2>5, <2>7, Quiet
<1>4. CASE ~(p = "behind" /\ newest_lsn >= job[p].lsn)
  <2> DEFINE next == IF p = "behind" THEN "rename" ELSE "fsync"
  <2>1. newest' = p /\ writer' = writer /\ GoTo(p, next) /\ next \in Pcs
    BY <1>4 DEF Lock, Pcs
  <2>2. /\ job' \in [Procs -> JobStates] /\ \A q \in Procs : q # p => job'[q] = job[q]
        /\ job'[p].pc = next /\ job'[p].kind = job[p].kind /\ job'[p].lsn = job[p].lsn
        /\ job'[p].graph = job[p].graph /\ job'[p].installed = job[p].installed
    BY <1>0, <2>1, TypeFields, GoToFacts
  <2>3. TypeOK'
    <3>1. newest' \in Procs \cup {Nobody}
      BY <2>1
    <3> QED
      BY <1>0, <1>1, <2>1, <2>2, <3>1 DEF TypeOK
  <2>4. CASE p = "behind"
    <3>1. Locks'
      BY <1>0, <1>1, <2>1, <2>2, <2>4
         DEF Locks, Pc, Procs, Nobody, Stamped, Named, Current, Covered
    <3>2. job'["client"] = job["client"]
      BY <2>2, <2>4 DEF Procs
    <3>3. Restoring'
      BY <1>0, <1>1, <3>2 DEF Restoring, JobSnap
    <3>4. JobSnap(p)' = JobSnap(p) /\ (Exact(JobSnap(p)) => Exact(JobSnap(p))')
      BY <1>0, <1>1, <1>2, <2>2, SnapKept
    <3>5. /\ job[p].lsn <= synced /\ job[p].graph \subseteq 1 .. ids
          /\ newest_lsn < job[p].lsn => Exact(JobSnap(p))
      BY <1>0, <1>1, <2>4 DEF Jobs, JobOk
    <3>6. newest_lsn < job[p].lsn /\ newest_lsn <= job[p].lsn
      BY <1>0, <1>4, <2>4, TypeFields, FileLsns
    <3>7. Exact(JobSnap(p))'
      BY <3>4, <3>5, <3>6
    <3>8. JobOk(p)'
      BY <1>1, <2>2, <2>4, <3>5, <3>6, <3>7 DEF JobOk, Pc, Stamped, Named, Current, Covered
    <3> QED
      BY <1>1, <1>2, <2>2, <2>3, <3>1, <3>3, <3>8, Quiet
  <2>5. CASE p # "behind"
    <3>0. p = "client"
      BY <2>5 DEF Procs
    <3>1. Locks'
      BY <1>0, <1>1, <2>1, <2>2, <3>0
         DEF Locks, Pc, Procs, Nobody, Stamped, Named, Current, Covered
    <3>2. Restoring'
      BY <1>0, <1>1, <2>2, <3>0 DEF Restoring, Pc, Stamped, Named, Current, Covered
    <3>3. JobOk(p)'
      BY <2>2, <3>0, FreshJob DEF Pc, Stamped, Named, Current, Covered
    <3> QED
      BY <1>1, <1>2, <2>2, <2>3, <3>1, <3>2, <3>3, Quiet
  <2> QED
    BY <2>4, <2>5
<1> QED
  BY <1>3, <1>4

LEMMA FsyncInv ==
  ASSUME CheckpointInv, Fsync
  PROVE  CheckpointInv'
<1>0. TypeOK /\ Locks /\ Order /\ Restoring
  BY DEF CheckpointInv
<1> DEFINE l == Len(log)
           c == job["client"]
           r == c.kind = "restore"
           g == IF r THEN {ids + 1} ELSE live
           i == IF r THEN ids + 1 ELSE ids
           k == [c EXCEPT !.pc = "rename", !.lsn = l, !.graph = g]
<1>a. "behind" \in Procs /\ "client" \in Procs /\ c.pc = "fsync" /\ "rename" \in Pcs
  BY DEF Fsync, At, Procs, Pcs
<1>1. CASE Refused("client")
  BY <1>a, <1>1, RefusedInv DEF Pc
<1>2. CASE /\ ~poisoned /\ synced' = Len(log) /\ ids' = i
           /\ job' = [job EXCEPT !["client"] = k]
           /\ UNCHANGED <<log, base, poisoned, live, jobs, disk, locks, store, history>>
  <2>1. /\ UNCHANGED <<log, base, live, newest_lsn, truth, maybe, poisoned, jobs>>
        /\ UNCHANGED <<files, filesSynced, cur, curSynced, ext, newest, writer, count>>
        /\ synced' = l /\ ids' = i
    BY <1>2 DEF disk, locks, store, history
  <2>2. ids \in Nat /\ ids <= MaxIds /\ MaxIds \in Nat /\ (r => ids < MaxIds)
    BY <1>0, <1>a, TypeFields DEF Locks, Pc
  <2>3. /\ i \in Nat /\ i >= ids /\ i <= MaxIds /\ g \in Graphs /\ g \subseteq 1 .. i
    <3>1. live \in Graphs /\ live \subseteq 1 .. ids
      BY <1>0, TypeFields DEF Order
    <3> QED
      BY <2>2, <3>1 DEF Graphs
  <2>4. l \in Nat /\ l \in 0 .. MaxLsn /\ c \in JobStates /\ newest_lsn <= l
    BY <1>0, <1>a, TypeFields DEF Order
  <2>k. k = HasRead(c, "rename", l, g)
    BY DEF HasRead
  <2>r. ~r => g = live
    OBVIOUS
  <2> HIDE DEF k, l, i, g
  <2>5. /\ k \in JobStates /\ k.pc = "rename" /\ k.kind = c.kind /\ k.lsn = l
        /\ k.graph = g /\ k.installed = c.installed
    BY ONLY <1>a, <2>3, <2>4, <2>k, JobStamped
  <2>6. /\ job' \in [Procs -> JobStates] /\ job'["client"] = k
        /\ \A q \in Procs : q # "client" => job'[q] = job[q]
    BY <1>0, <1>2, <1>a, <2>5, TypeFields, JobSet
  <2>7. TypeOK'
    <3>1. ids' \in 0 .. MaxIds /\ count' \in 0 .. ids'
      BY <1>0, <2>1, <2>2, <2>3 DEF TypeOK
    <3> QED
      BY <1>0, <2>1, <2>4, <2>6, <3>1 DEF TypeOK, l
  <2>8. Locks'
    BY <1>0, <1>a, <2>1, <2>5, <2>6
       DEF Locks, Pc, Procs, Nobody, Stamped, Named, Current, Covered
  <2>9. Restoring'
    <3>1. maybe = {}
      BY <1>0, <1>2, <1>a DEF Restoring, Stamped, Named, Current, Covered
    <3>2. \A n \in DOMAIN log : ~(n > l)
      BY <1>0, TypeFields DEF l
    <3> QED
      BY <2>1, <2>5, <2>6, <3>1, <3>2 DEF Restoring, Stamped, Named, Current, Covered
  <2>10. JobOk("client")'
    <3>1. JobSnap("client")'.lsn = l /\ JobSnap("client")'.graph = g
      BY <2>5, <2>6 DEF JobSnap, Snap
    <3>2. ~r => Exact(JobSnap("client"))'
      BY <1>0, <2>1, <2>r, <3>1, ExactNow DEF l
    <3> QED
      BY <2>1, <2>3, <2>4, <2>5, <2>6, <3>2 DEF JobOk, Pc, Stamped, Named, Current, Covered
  <2>11. synced' \in synced .. Len(log)
    BY <1>0, <2>1, TypeFields DEF l
  <2> QED
    BY <1>a, <2>1, <2>3, <2>6, <2>7, <2>8, <2>9, <2>10, <2>11, Quiet
<1> QED
  BY <1>1, <1>2 DEF Fsync

LEMMA Fsync2Inv ==
  ASSUME CheckpointInv, NEW p \in Procs, Fsync2(p)
  PROVE  CheckpointInv'
<1>0. TypeOK /\ Locks /\ Jobs /\ Restoring
  BY DEF CheckpointInv
<1>1. Pc(p) = "fsync2"
  BY DEF Fsync2, At, Pc
<1>2. CASE Refused(p)
  BY <1>1, <1>2, RefusedInv DEF Stamped, Named, Current, Covered
<1>3. CASE /\ ~poisoned /\ synced' = Len(log) /\ GoTo(p, "truncate")
           /\ UNCHANGED <<log, base, poisoned, graph, disk, locks, store, history>>
  <2>1. /\ UNCHANGED <<log, base, live, ids, newest_lsn, truth, maybe, poisoned, jobs>>
        /\ UNCHANGED <<files, filesSynced, cur, curSynced, ext, newest, writer, count>>
        /\ synced' = Len(log) /\ "truncate" \in Pcs
    BY <1>3 DEF graph, disk, locks, store, history, Pcs
  <2>2. /\ job' \in [Procs -> JobStates] /\ \A q \in Procs : q # p => job'[q] = job[q]
        /\ job'[p].pc = "truncate" /\ job'[p].kind = job[p].kind /\ job'[p].lsn = job[p].lsn
        /\ job'[p].graph = job[p].graph /\ job'[p].installed = job[p].installed
    BY <1>0, <1>3, <2>1, TypeFields, GoToFacts
  <2>3. /\ synced' \in synced .. Len(log) /\ ids' \in Nat /\ ids' >= ids
        /\ synced' \in 0 .. Len(log)
    BY <1>0, <2>1, TypeFields
  <2>4. TypeOK'
    BY <1>0, <2>1, <2>2, <2>3 DEF TypeOK
  <2>5. Locks'
    BY <1>0, <1>1, <2>1, <2>2
       DEF Locks, Pc, Procs, Nobody, Stamped, Named, Current, Covered
  <2>6. /\ JobSnap(p)' = JobSnap(p) /\ (Exact(JobSnap(p)) => Exact(JobSnap(p))')
        /\ (job[p].lsn <= synced => job[p].lsn <= synced')
    BY <1>0, <2>1, <2>2, <2>3, SnapKept
  <2>7. JobOk(p)
    BY <1>0 DEF Jobs
  <2>8. JobOk(p)'
    BY <1>1, <2>1, <2>2, <2>6, <2>7 DEF JobOk, Pc, Stamped, Named, Current, Covered
  <2>9. Restoring'
    <3>1. CASE p = "client"
      BY <1>0, <1>1, <2>1, <2>2, <2>6, <3>1
         DEF Restoring, Pc, Stamped, Named, Current, Covered
    <3>2. CASE p # "client"
      <4>1. job'["client"] = job["client"]
        BY <2>2, <3>2 DEF Procs
      <4> QED
        BY <1>0, <2>1, <4>1 DEF Restoring, JobSnap
    <3> QED
      BY <3>1, <3>2
  <2> QED
    BY <2>1, <2>2, <2>3, <2>4, <2>5, <2>8, <2>9, Quiet
<1> QED
  BY <1>2, <1>3 DEF Fsync2

-----------------------------------------------------------------------------
(* The snapshot directory.                                                 *)

\* While p writes a snapshot, another checkpoint can only be waiting.
LEMMA OtherJob ==
  ASSUME CheckpointInv, NEW p \in Procs, NEW q \in Procs, p # q, Pc(p) \in Stamped,
         job'[q] = job[q], UNCHANGED <<log, truth, synced, ids>>,
         newest_lsn' \in Nat, newest_lsn' >= newest_lsn
  PROVE  JobOk(q)'
<1>0. TypeOK /\ Locks /\ Jobs
  BY DEF CheckpointInv
<1>1. ~(Pc(q) \in Stamped) /\ Pc(q)' = Pc(q)
  BY <1>0 DEF Locks, Procs, Pc
<1>2. synced \in synced .. Len(log) /\ ids \in Nat /\ newest_lsn \in Nat /\ job[q].lsn \in Nat
  BY <1>0, TypeFields, FileLsns
<1>3. JobSnap(q)' = JobSnap(q) /\ (Exact(JobSnap(q)) => Exact(JobSnap(q))')
  BY <1>0, <1>2, SnapKept
<1>4. newest_lsn' < job[q].lsn => newest_lsn < job[q].lsn
  BY <1>2
<1>5. JobOk(q)
  BY <1>0 DEF Jobs
<1>6. CASE q = "behind" /\ Pc(q) = "lock"
  BY <1>1, <1>3, <1>4, <1>5, <1>6 DEF JobOk, Pc, Stamped, Named, Current, Covered
<1>7. CASE ~(q = "behind" /\ Pc(q) = "lock")
  BY <1>1, <1>7, FreshJob
<1> QED
  BY <1>6, <1>7

\* A restore's snapshot is good once it is the one that may come back.
LEMMA RestoreGood ==
  ASSUME TypeOK, NEW s, s.lsn \in Nat, s.lsn <= synced, s \in maybe',
         \A n \in DOMAIN log : n > s.lsn => log[n].kind = "marker",
         UNCHANGED <<log, truth, synced>>
  PROVE  Good(s)'
<1>1. synced \in Nat /\ Len(log) \in Nat /\ synced <= Len(log) /\ DOMAIN log = 1 .. Len(log)
  BY TypeFields
<1>2. \A last \in synced .. Len(log) : Commits(s.lsn, last) = {}
  <2> SUFFICES ASSUME NEW last \in synced .. Len(log),
                      NEW m \in s.lsn + 1 .. last, log[m].kind = "commit"
               PROVE  FALSE
    BY DEF Commits
  <2>1. m \in DOMAIN log /\ m > s.lsn
    BY <1>1
  <2> QED
    BY <2>1
<1>3. Commits(s.lsn, Len(log)) = {}
  BY <1>1, <1>2
<1>4. \A last \in synced .. Len(log) : Recovered(s, last) = s.graph
  BY <1>2 DEF Recovered
<1>5. /\ \A last : Recovered(s, last)' = Recovered(s, last)
      /\ Commits(s.lsn, Len(log))' = Commits(s.lsn, Len(log))
  BY DEF Commits, Recovered
<1> QED
  BY <1>3, <1>4, <1>5 DEF Good

LEMMA RenameInv ==
  ASSUME CheckpointInv, NEW p \in Procs, Rename(p)
  PROVE  CheckpointInv'
<1>0. TypeOK /\ Locks /\ Order /\ Directory /\ Loadable /\ Jobs /\ Restoring
  BY DEF CheckpointInv
<1>a. Pc(p) = "rename" /\ Pc(p) \in Stamped /\ job[p].kind # "to"
  BY <1>0 DEF Rename, At, Pc, Stamped, Locks
<1>1. CASE Fails(p)
  BY <1>a, <1>1, FailsInv
<1>2. CASE ~Fails(p)
  <2>n. PICK new : new = JobSnap(p)
    OBVIOUS
  <2> DEFINE k == [job[p] EXCEPT !.pc = "syncdir", !.installed = TRUE]
  <2>1. /\ files' = {f \in files : f.lsn # new.lsn} \cup {new}
        /\ job' = [job EXCEPT ![p].pc = "syncdir", ![p].installed = TRUE]
        /\ maybe' = (IF job[p].kind = "restore" THEN {new} ELSE maybe)
        /\ UNCHANGED <<log, synced, base, poisoned, live, ids, jobs, filesSynced, cur, curSynced>>
        /\ UNCHANGED <<ext, writer, newest, newest_lsn, count, truth>>
    BY <1>2, <1>a, <2>n DEF Rename, JobSnap, wal, graph, locks, store
  <2>2. job[p] \in JobStates /\ new.lsn = job[p].lsn /\ new.graph = job[p].graph /\ new \in Snaps
        /\ new.lsn \in Nat
    BY <1>0, <2>n, FileLsns
  <2>3. job' = [job EXCEPT ![p] = k]
    BY <1>0, <2>1, TypeFields
  <2>k. k = [job[p] EXCEPT !.pc = "syncdir", !.installed = TRUE]
    OBVIOUS
  <2> HIDE DEF k
  <2>4. /\ k \in JobStates /\ k.pc = "syncdir" /\ k.kind = job[p].kind /\ k.lsn = job[p].lsn
        /\ k.graph = job[p].graph /\ k.installed
    BY <2>2, <2>k, JobNamed
  <2>5. /\ job' \in [Procs -> JobStates] /\ job'[p] = k
        /\ \A q \in Procs : q # p => job'[q] = job[q]
    BY <1>0, <2>3, <2>4, TypeFields, JobSet
  <2>6. JobSnap(p)' = new
    BY <2>4, <2>5, <2>n DEF JobSnap
  <2>7. TypeOK'
    <3>1. files' \subseteq Snaps /\ maybe' \subseteq Snaps
      BY <1>0, <2>1, <2>2, TypeFields
    <3> QED
      BY <1>0, <2>1, <2>5, <3>1 DEF TypeOK
  <2>8. Locks'
    BY <1>0, <1>a, <2>1, <2>4, <2>5
       DEF Locks, Pc, Procs, Nobody, Stamped, Named, Current, Covered
  <2>9. synced \in synced .. Len(log) /\ ids \in Nat /\ newest_lsn \in Nat
    BY <1>0, TypeFields
  <2>10. Order'
    BY <1>0, <2>1, <2>9, OrderKept
  <2>11. /\ newest_lsn <= new.lsn /\ new.lsn <= synced /\ new.graph \subseteq 1 .. ids
         /\ job[p].kind # "restore" => Exact(new)
    BY <1>0, <1>a, <2>2, <2>n DEF Jobs, JobOk
  <2>12. /\ \A f \in files' : f = new \/ (f \in files /\ f.lsn # new.lsn)
         /\ new \in files'
         /\ \A f \in files : \E h \in files' : h.lsn = f.lsn
    BY <2>1
  <2>13. Directory'
    <3>1. \A f \in files' \cup filesSynced : f.lsn <= synced /\ f.graph \subseteq 1 .. ids
      BY <1>0, <2>11, <2>12 DEF Directory
    <3>2. \A f, g \in files' : f.lsn = g.lsn => f = g
      BY <1>0, <2>12 DEF Directory
    <3>3. \A c \in {cur, curSynced} : c # NoCurrent =>
            newest_lsn <= c /\ (\E f \in files' : f.lsn = c) /\ (\E f \in filesSynced : f.lsn = c)
      <4> SUFFICES ASSUME NEW c \in {cur, curSynced}, c # NoCurrent
                   PROVE  newest_lsn <= c /\ (\E f \in files' : f.lsn = c)
                          /\ (\E f \in filesSynced : f.lsn = c)
        OBVIOUS
      <4>1. newest_lsn <= c /\ (\E f \in files : f.lsn = c) /\ (\E f \in filesSynced : f.lsn = c)
        BY <1>0 DEF Directory
      <4> QED
        BY <2>12, <4>1
    <3> QED
      BY <1>0, <2>1, <3>1, <3>2, <3>3 DEF Directory
  <2>14. maybe \subseteq maybe' /\ (job[p].kind = "restore" => new \in maybe')
    BY <1>0, <1>a, <2>1 DEF Restoring, Locks, Pc
  <2>15. Good(new)'
    <3>1. CASE job[p].kind = "restore"
      <4>1. \A n \in DOMAIN log : n > new.lsn => log[n].kind = "marker"
        BY <1>0, <1>a, <2>2, <3>1 DEF Restoring, Locks, Pc
      <4> QED
        BY <1>0, <2>1, <2>2, <2>11, <2>14, <3>1, <4>1, RestoreGood
    <3>2. CASE job[p].kind # "restore"
      <4>1. Good(new)
        BY <2>11, <3>2, ExactIsGood
      <4> QED
        BY <1>0, <2>1, <2>2, <2>9, <2>14, <4>1, GoodKept
    <3> QED
      BY <3>1, <3>2
  <2>16. Loadable'
    <3>1. \A s : Good(s) /\ s.lsn \in Nat => Good(s)'
      BY <1>0, <2>1, <2>9, <2>14, GoodKept
    <3>2. \A f \in files \cup filesSynced : f.lsn \in Nat
      BY <1>0, FileLsns
    <3>3. ASSUME NEW c \in {cur, curSynced}, c # NoCurrent,
                 NEW f \in files' \cup filesSynced, f.lsn = c
          PROVE  Good(f)'
      BY <1>0, <2>12, <2>15, <3>1, <3>2, <3>3 DEF Loadable
    <3>4. ASSUME NEW c \in {cur, curSynced}, c = NoCurrent
          PROVE  /\ \A f \in files' \cup filesSynced :
                      (\A g \in files', h \in filesSynced : g.lsn = h.lsn => g.lsn <= f.lsn)
                      => Good(f)'
                 /\ (\A g \in files', h \in filesSynced : g.lsn # h.lsn) => Good(NoSnap)'
      <4>1. /\ \A f \in files \cup filesSynced :
                 (\A g \in files, h \in filesSynced : g.lsn = h.lsn => g.lsn <= f.lsn) => Good(f)
            /\ (\A g \in files, h \in filesSynced : g.lsn # h.lsn) => Good(NoSnap)
        BY <1>0, <3>4 DEF Loadable
      <4>2. ASSUME NEW f \in files' \cup filesSynced,
                   \A g \in files', h \in filesSynced : g.lsn = h.lsn => g.lsn <= f.lsn
            PROVE  Good(f)'
        <5>1. CASE f = new
          BY <2>15, <5>1
        <5>2. CASE f # new
          <6>1. f \in files \cup filesSynced
            BY <2>12, <5>2
          <6>2. \A g \in files, h \in filesSynced : g.lsn = h.lsn => g.lsn <= f.lsn
            <7> SUFFICES ASSUME NEW g \in files, NEW h \in filesSynced, g.lsn = h.lsn
                         PROVE  g.lsn <= f.lsn
              OBVIOUS
            <7>1. PICK e \in files' : e.lsn = g.lsn
              BY <2>12
            <7> QED
              BY <4>2, <7>1
          <6> QED
            BY <3>1, <3>2, <4>1, <6>1, <6>2
        <5> QED
          BY <5>1, <5>2
      <4>3. ASSUME \A g \in files', h \in filesSynced : g.lsn # h.lsn PROVE Good(NoSnap)'
        BY <2>12, <3>1, <4>1, <4>3, NoSnapLsn
      <4> QED
        BY <4>2, <4>3
    <3> QED
      BY <2>1, <3>3, <3>4 DEF Loadable
  <2>17. JobOk(p)'
    <3>1. job[p].kind # "restore" => Exact(new)'
      BY <1>0, <2>1, <2>2, <2>9, <2>11, ExactKept
    <3> QED
      BY <2>1, <2>2, <2>4, <2>5, <2>6, <2>11, <2>12, <3>1
         DEF JobOk, Pc, Stamped, Named, Current, Covered
  <2>18. Jobs'
    BY <1>a, <2>1, <2>5, <2>9, <2>17, OtherJob DEF Jobs
  <2>19. Restoring'
    <3>1. CASE p = "client"
      BY <1>0, <1>a, <2>1, <2>4, <2>5, <2>6, <3>1
         DEF Restoring, Pc, Stamped, Named, Current, Covered
    <3>2. CASE p # "client"
      <4>1. job'["client"] = job["client"] /\ job[p].kind # "restore"
        BY <1>0, <2>5, <3>2 DEF Procs, Locks
      <4> QED
        BY <1>0, <2>1, <4>1 DEF Restoring, JobSnap
    <3> QED
      BY <3>1, <3>2
  <2> QED
    BY <2>7, <2>8, <2>10, <2>13, <2>16, <2>18, <2>19 DEF CheckpointInv
<1> QED
  BY <1>1, <1>2

\* A step of p with the snapshot in hand, which leaves the log as it is.
LEMMA WriterQuiet ==
  ASSUME CheckpointInv, NEW p \in Procs, Pc(p) \in Named, NEW pc \in Pcs, pc \in Named,
         GoTo(p, pc), UNCHANGED <<wal, graph, files, ext, locks, count, history>>,
         newest_lsn' \in 0 .. MaxLsn, newest_lsn' >= newest_lsn,
         filesSynced' \subseteq Snaps, {cur', curSynced'} \subseteq (0 .. MaxLsn) \cup {NoCurrent},
         Order', Directory', Loadable', JobOk(p)'
  PROVE  CheckpointInv'
<1>0. TypeOK /\ Locks /\ Restoring
  BY DEF CheckpointInv
<1>1. /\ UNCHANGED <<log, synced, base, poisoned, live, ids, jobs, truth, maybe>>
      /\ UNCHANGED <<files, ext, writer, newest, count>>
  BY DEF wal, graph, locks, history
<1>2. /\ job' \in [Procs -> JobStates] /\ \A q \in Procs : q # p => job'[q] = job[q]
      /\ job'[p].pc = pc /\ job'[p].kind = job[p].kind /\ job'[p].lsn = job[p].lsn
      /\ job'[p].graph = job[p].graph /\ job'[p].installed = job[p].installed
  BY <1>0, TypeFields, GoToFacts
<1>3. TypeOK'
  BY <1>0, <1>1, <1>2 DEF TypeOK
<1>4. Locks'
  BY <1>0, <1>1, <1>2 DEF Locks, Pc, Procs, Nobody, Stamped, Named, Current, Covered
<1>5. Jobs'
  <2>1. Pc(p) \in Stamped /\ newest_lsn' \in Nat
    BY <1>0, ManagedCheckpointAssumption DEF Stamped
  <2> QED
    BY <1>1, <1>2, <2>1, OtherJob DEF Jobs
<1>6. Restoring'
  <2>1. JobSnap(p)' = JobSnap(p)
    BY <1>2 DEF JobSnap
  <2>2. CASE p = "client"
    BY <1>0, <1>1, <1>2, <2>1, <2>2 DEF Restoring, Pc, Stamped, Named, Current, Covered
  <2>3. CASE p # "client"
    <3>1. job'["client"] = job["client"]
      BY <1>2, <2>3 DEF Procs
    <3> QED
      BY <1>0, <1>1, <3>1 DEF Restoring, JobSnap
  <2> QED
    BY <2>2, <2>3
<1> QED
  BY <1>3, <1>4, <1>5, <1>6 DEF CheckpointInv

\* What p has in hand in such a step.
LEMMA WriterFacts ==
  ASSUME CheckpointInv, NEW p \in Procs, Pc(p) \in Named, NEW pc \in Pcs, GoTo(p, pc),
         UNCHANGED <<log, truth, synced, ids>>
  PROVE  /\ JobSnap(p)' = JobSnap(p) /\ JobSnap(p) \in files
         /\ job'[p].pc = pc /\ job'[p].lsn = job[p].lsn /\ job[p].lsn \in 0 .. MaxLsn
         /\ job'[p].graph = job[p].graph /\ job'[p].kind = job[p].kind
         /\ newest_lsn <= job[p].lsn /\ job[p].lsn <= synced /\ job[p].graph \subseteq 1 .. ids
         /\ (job[p].kind # "restore" => Exact(JobSnap(p)) /\ Exact(JobSnap(p))')
         /\ JobSnap(p).lsn = job[p].lsn
<1>0. TypeOK /\ Jobs
  BY DEF CheckpointInv
<1>1. /\ job'[p].pc = pc /\ job'[p].kind = job[p].kind /\ job'[p].lsn = job[p].lsn
      /\ job'[p].graph = job[p].graph
  BY <1>0, TypeFields, GoToFacts
<1>2. synced \in synced .. Len(log) /\ ids \in Nat
  BY <1>0, TypeFields
<1>3. JobSnap(p)' = JobSnap(p) /\ (Exact(JobSnap(p)) => Exact(JobSnap(p))')
  BY <1>0, <1>1, <1>2, SnapKept
<1>4. /\ newest_lsn <= job[p].lsn /\ job[p].lsn <= synced /\ job[p].graph \subseteq 1 .. ids
      /\ (job[p].kind # "restore" => Exact(JobSnap(p))) /\ JobSnap(p) \in files
  BY <1>0 DEF Jobs, JobOk, Stamped
<1>5. job[p].lsn \in 0 .. MaxLsn /\ JobSnap(p).lsn = job[p].lsn
  <2>1. job[p] \in JobStates
    BY <1>0, FileLsns
  <2> QED
    BY <1>0, <2>1, JobFields, FileLsns
<1> QED
  BY <1>1, <1>3, <1>4, <1>5

LEMMA SyncDirInv ==
  ASSUME CheckpointInv, NEW p \in Procs, sync_dir(p)
  PROVE  CheckpointInv'
<1>0. TypeOK /\ Locks /\ Order /\ Directory /\ Loadable
  BY DEF CheckpointInv
<1>a. Pc(p) = "syncdir" /\ Pc(p) \in Named /\ Pc(p) \in Stamped
  BY DEF sync_dir, At, Pc, Stamped, Named
<1>1. CASE Fails(p)
  BY <1>a, <1>1, FailsInv
<1>2. CASE ~Fails(p)
  <2>1. /\ GoTo(p, "current") /\ filesSynced' = files /\ curSynced' = cur
        /\ UNCHANGED <<wal, graph, files, cur, ext, locks, store, history>>
    BY <1>2 DEF sync_dir, SyncDir
  <2>2. UNCHANGED <<log, synced, base, live, ids, newest_lsn, truth, maybe, count>>
    BY <2>1 DEF wal, graph, store, history
  <2>3. "current" \in Pcs /\ "current" \in Named
    BY DEF Pcs, Named
  <2>4. /\ JobSnap(p)' = JobSnap(p) /\ JobSnap(p) \in files
        /\ job'[p].pc = "current" /\ job'[p].lsn = job[p].lsn
        /\ job'[p].graph = job[p].graph /\ job'[p].kind = job[p].kind
        /\ newest_lsn <= job[p].lsn /\ job[p].lsn <= synced /\ job[p].graph \subseteq 1 .. ids
        /\ (job[p].kind # "restore" => Exact(JobSnap(p))')
    BY <1>a, <2>1, <2>2, <2>3, WriterFacts
  <2>5. synced \in synced .. Len(log) /\ ids \in Nat
    BY <1>0, TypeFields
  <2>6. Order'
    BY <1>0, <2>2, <2>5, OrderKept
  <2>7. Directory'
    BY <1>0, <2>1, <2>2 DEF Directory
  <2>8. Loadable'
    <3>1. \A s : Good(s) /\ s.lsn \in Nat => Good(s)'
      BY <1>0, <2>2, <2>5, GoodKept
    <3>2. \A f \in files : f.lsn \in Nat
      BY <1>0, FileLsns
    <3>3. ASSUME cur # NoCurrent, NEW f \in files, f.lsn = cur
          PROVE  Good(f)'
      BY <1>0, <3>1, <3>2, <3>3 DEF Loadable
    <3>4. ASSUME cur = NoCurrent
          PROVE  /\ \A f \in files : (\A g \in files, h \in files : g.lsn = h.lsn => g.lsn <= f.lsn)
                                     => Good(f)'
                 /\ (\A g \in files, h \in files : g.lsn # h.lsn) => Good(NoSnap)'
      <4>1. /\ \A f \in files \cup filesSynced :
                 (\A g \in files, h \in filesSynced : g.lsn = h.lsn => g.lsn <= f.lsn) => Good(f)
            /\ (\A g \in files, h \in filesSynced : g.lsn # h.lsn) => Good(NoSnap)
        BY <1>0, <3>4 DEF Loadable
      <4>2. ASSUME NEW f \in files, \A g \in files, h \in files : g.lsn = h.lsn => g.lsn <= f.lsn
            PROVE  Good(f)'
        BY <3>1, <3>2, <4>1, <4>2
      <4>3. ASSUME \A g \in files, h \in files : g.lsn # h.lsn PROVE Good(NoSnap)'
        BY <3>1, <4>1, <4>3, NoSnapLsn
      <4> QED
        BY <4>2, <4>3
    <3> QED
      BY <2>1, <3>3, <3>4 DEF Loadable
  <2>9. JobOk(p)'
    BY <2>1, <2>2, <2>4 DEF JobOk, Pc, Stamped, Named, Current, Covered
  <2>10. /\ newest_lsn' \in 0 .. MaxLsn /\ newest_lsn' >= newest_lsn /\ filesSynced' \subseteq Snaps
         /\ {cur', curSynced'} \subseteq (0 .. MaxLsn) \cup {NoCurrent}
    BY <1>0, <2>1, <2>2, TypeFields DEF TypeOK
  <2> QED
    BY <1>a, <2>1, <2>2, <2>3, <2>6, <2>7, <2>8, <2>9, <2>10, WriterQuiet
<1> QED
  BY <1>1, <1>2

\* The snapshot p has written is good to load.
LEMMA WrittenGood ==
  ASSUME CheckpointInv, NEW p \in Procs, Pc(p) \in Named,
         UNCHANGED <<log, truth, synced, ids, maybe>>
  PROVE  /\ \A f \in files : f.lsn = job[p].lsn => Good(f)'
         /\ \A f \in files : f.lsn = job[p].lsn => f = JobSnap(p)
<1>0. TypeOK /\ Locks /\ Directory /\ Jobs /\ Restoring
  BY DEF CheckpointInv
<1>n. PICK new : new = JobSnap(p)
  OBVIOUS
<1>1. /\ new \in files /\ new.lsn = job[p].lsn /\ new.lsn \in Nat /\ new.lsn <= synced
      /\ job[p].kind # "restore" => Exact(new)
  BY <1>0, <1>n, FileLsns DEF Jobs, JobOk, Stamped
<1>2. \A f \in files : f.lsn = job[p].lsn => f = new
  BY <1>0, <1>1 DEF Directory
<1>3. synced \in synced .. Len(log)
  BY <1>0, TypeFields
<1>4. Good(new)'
  <2>1. CASE job[p].kind = "restore"
    <3>1. p = "client" /\ new \in maybe'
      BY <1>0, <1>n, <2>1 DEF Locks, Restoring, Pc
    <3>2. \A n \in DOMAIN log : n > new.lsn => log[n].kind = "marker"
      BY <1>0, <1>1, <2>1, <3>1 DEF Restoring, Pc, Stamped
    <3> QED
      BY <1>0, <1>1, <3>1, <3>2, RestoreGood
  <2>2. CASE job[p].kind # "restore"
    <3>1. Good(new)
      BY <1>1, <2>2, ExactIsGood
    <3> QED
      BY <1>0, <1>1, <1>3, <3>1, GoodKept
  <2> QED
    BY <2>1, <2>2
<1> QED
  BY <1>2, <1>4, <1>n

LEMMA WriteCurrentInv ==
  ASSUME CheckpointInv, NEW p \in Procs, write_current(p)
  PROVE  CheckpointInv'
<1>0. TypeOK /\ Locks /\ Order /\ Directory /\ Loadable /\ Jobs
  BY DEF CheckpointInv
<1>a. Pc(p) = "current" /\ Pc(p) \in Named /\ Pc(p) \in Stamped
  BY DEF write_current, At, Pc, Stamped, Named
<1>1. CASE Fails(p)
  BY <1>a, <1>1, FailsInv
<1>2. CASE ~Fails(p)
  <2>1. /\ GoTo(p, "installed") /\ cur' = job[p].lsn
        /\ UNCHANGED <<wal, graph, files, filesSynced, curSynced, ext, locks, store, history>>
    BY <1>2 DEF write_current
  <2>2. UNCHANGED <<log, synced, base, live, ids, newest_lsn, truth, maybe, count>>
    BY <2>1 DEF wal, graph, store, history
  <2>3. "installed" \in Pcs /\ "installed" \in Named
    BY DEF Pcs, Named, Current
  <2>4. /\ JobSnap(p)' = JobSnap(p) /\ JobSnap(p) \in files /\ JobSnap(p).lsn = job[p].lsn
        /\ job'[p].pc = "installed" /\ job'[p].lsn = job[p].lsn /\ job[p].lsn \in 0 .. MaxLsn
        /\ job'[p].graph = job[p].graph /\ job'[p].kind = job[p].kind
        /\ newest_lsn <= job[p].lsn /\ job[p].lsn <= synced /\ job[p].graph \subseteq 1 .. ids
        /\ (job[p].kind # "restore" => Exact(JobSnap(p))')
    BY <1>a, <2>1, <2>2, <2>3, WriterFacts
  <2>5. synced \in synced .. Len(log) /\ ids \in Nat
    BY <1>0, TypeFields
  <2>6. Order'
    BY <1>0, <2>2, <2>5, OrderKept
  <2>7. filesSynced = files
    BY <1>0, <1>a DEF Jobs, JobOk, Named, Current, Covered
  <2>8. cur' # NoCurrent
    BY <2>1, <2>4, ManagedCheckpointAssumption DEF NoCurrent
  <2>9. Directory'
    <3>1. /\ newest_lsn <= cur' /\ (\E f \in files : f.lsn = cur')
          /\ (\E f \in filesSynced : f.lsn = cur')
      BY <2>1, <2>4, <2>7
    <3>2. IF curSynced = NoCurrent
          THEN base = 1 /\ \A n \in DOMAIN log : log[n].kind = "commit"
          ELSE /\ newest_lsn <= curSynced
               /\ (\E f \in files : f.lsn = curSynced) /\ (\E f \in filesSynced : f.lsn = curSynced)
      BY <1>0 DEF Directory
    <3> QED
      BY <1>0, <2>1, <2>2, <2>8, <3>1, <3>2 DEF Directory
  <2>10. Loadable'
    <3>1. \A s : Good(s) /\ s.lsn \in Nat => Good(s)'
      BY <1>0, <2>2, <2>5, GoodKept
    <3>2. \A f \in files \cup filesSynced : f.lsn \in Nat
      BY <1>0, FileLsns
    <3>3. \A f \in files \cup filesSynced : f.lsn = cur' => Good(f)'
      BY <1>a, <2>1, <2>2, <2>7, WrittenGood
    <3>4. IF curSynced # NoCurrent
          THEN \A f \in files \cup filesSynced : f.lsn = curSynced => Good(f)'
          ELSE /\ \A f \in files \cup filesSynced :
                    (\A g \in files, h \in filesSynced : g.lsn = h.lsn => g.lsn <= f.lsn)
                    => Good(f)'
               /\ (\A g \in files, h \in filesSynced : g.lsn # h.lsn) => Good(NoSnap)'
      BY <1>0, <3>1, <3>2, NoSnapLsn DEF Loadable
    <3> QED
      BY <2>1, <2>8, <3>3, <3>4 DEF Loadable
  <2>11. JobOk(p)'
    BY <2>1, <2>2, <2>4, <2>7 DEF JobOk, Pc, Stamped, Named, Current, Covered
  <2>12. /\ newest_lsn' \in 0 .. MaxLsn /\ newest_lsn' >= newest_lsn /\ filesSynced' \subseteq Snaps
         /\ {cur', curSynced'} \subseteq (0 .. MaxLsn) \cup {NoCurrent}
    BY <1>0, <2>1, <2>2, <2>4, TypeFields DEF TypeOK
  <2> QED
    BY <1>a, <2>1, <2>2, <2>3, <2>6, <2>9, <2>10, <2>11, <2>12, WriterQuiet
<1> QED
  BY <1>1, <1>2

LEMMA InstalledInv ==
  ASSUME CheckpointInv, NEW p \in Procs, Installed(p)
  PROVE  CheckpointInv'
<1>0. TypeOK /\ Locks /\ Order /\ Directory /\ Loadable /\ Jobs
  BY DEF CheckpointInv
<1>a. Pc(p) = "installed" /\ Pc(p) \in Named /\ Pc(p) \in Stamped
  BY DEF Installed, At, Pc, Stamped, Named, Current
<1>1. CASE Fails(p)
  BY <1>a, <1>1, FailsInv
<1>2. CASE ~Fails(p)
  <2>1. /\ GoTo(p, "mark") /\ filesSynced' = files /\ curSynced' = cur /\ newest_lsn' = job[p].lsn
        /\ UNCHANGED <<wal, graph, files, cur, ext, locks, count, history>>
    BY <1>2 DEF Installed, SyncDir
  <2>2. UNCHANGED <<log, synced, base, live, ids, truth, maybe>>
    BY <2>1 DEF wal, graph, history
  <2>3. "mark" \in Pcs /\ "mark" \in Named
    BY DEF Pcs, Named, Current, Covered
  <2>4. /\ JobSnap(p)' = JobSnap(p) /\ JobSnap(p) \in files /\ JobSnap(p).lsn = job[p].lsn
        /\ job'[p].pc = "mark" /\ job'[p].lsn = job[p].lsn /\ job[p].lsn \in 0 .. MaxLsn
        /\ job'[p].graph = job[p].graph /\ job'[p].kind = job[p].kind
        /\ newest_lsn <= job[p].lsn /\ job[p].lsn <= synced /\ job[p].graph \subseteq 1 .. ids
        /\ (job[p].kind # "restore" => Exact(JobSnap(p))')
    BY <1>a, <2>1, <2>2, <2>3, WriterFacts
  <2>5. newest_lsn \in Nat /\ base \in Nat /\ job[p].lsn \in Nat
    BY <1>0, TypeFields, FileLsns
  <2>6. Order'
    <3>1. base - 1 <= job[p].lsn
      BY <1>0, <2>4, <2>5 DEF Order
    <3>2. \A n \in DOMAIN log :
            IF log[n].kind = "commit" THEN log[n].n \in 1 .. ids ELSE log[n].n <= job[p].lsn
      <4> SUFFICES ASSUME NEW n \in DOMAIN log, log[n].kind # "commit"
                   PROVE  log[n].n <= job[p].lsn
        BY <1>0 DEF Order
      <4>1. log[n].n <= newest_lsn /\ log[n].n \in Nat
        BY <1>0, TypeFields, RecordFields DEF Order
      <4> QED
        BY <2>4, <2>5, <4>1
    <3> QED
      BY <1>0, <2>1, <2>2, <2>4, <3>1, <3>2 DEF Order
  <2>7. filesSynced = files /\ cur = job[p].lsn
    BY <1>0, <1>a DEF Jobs, JobOk, Named, Current, Covered
  <2>8. cur # NoCurrent
    BY <2>4, <2>7, ManagedCheckpointAssumption DEF NoCurrent
  <2>9. Directory'
    <3>1. newest_lsn' <= cur /\ (\E f \in files : f.lsn = cur)
      BY <2>1, <2>4, <2>5, <2>7
    <3> QED
      BY <1>0, <2>1, <2>2, <2>8, <3>1 DEF Directory
  <2>10. Loadable'
    <3>1. \A f \in files : f.lsn = cur => Good(f)'
      BY <1>a, <2>2, <2>7, WrittenGood
    <3> QED
      BY <2>1, <2>8, <3>1 DEF Loadable
  <2>11. JobOk(p)'
    BY <2>1, <2>2, <2>4, <2>5, <2>7 DEF JobOk, Pc, Stamped, Named, Current, Covered
  <2>12. /\ newest_lsn' \in 0 .. MaxLsn /\ newest_lsn' >= newest_lsn /\ filesSynced' \subseteq Snaps
         /\ {cur', curSynced'} \subseteq (0 .. MaxLsn) \cup {NoCurrent}
    BY <1>0, <2>1, <2>4, <2>5, TypeFields DEF TypeOK
  <2> QED
    BY <1>a, <2>1, <2>3, <2>6, <2>9, <2>10, <2>11, <2>12, WriterQuiet
<1> QED
  BY <1>1, <1>2

-----------------------------------------------------------------------------
(* A record appended to the log.                                           *)

\* What a record adds to a graph.
Adds(r) == IF r.kind = "commit" THEN {r.n} ELSE {}

LEMMA Appended ==
  ASSUME TypeOK, NEW r \in Records, log' = Append(log, r),
         NEW g \in Graphs, truth' = Append(truth, g)
  PROVE  /\ log' \in Seq(Records) /\ Len(log') = Len(log) + 1
         /\ DOMAIN log' = 1 .. Len(log) + 1 /\ DOMAIN log = 1 .. Len(log)
         /\ (\A n \in 1 .. Len(log) : log'[n] = log[n]) /\ log'[Len(log) + 1] = r
         /\ truth' \in Seq(Graphs) /\ Len(truth') = Len(log) + 2
         /\ (\A n \in 1 .. Len(log) + 1 : truth'[n] = truth[n]) /\ truth'[Len(log) + 2] = g
<1>1. /\ log \in Seq(Records) /\ truth \in Seq(Graphs) /\ Len(truth) = Len(log) + 1
      /\ Len(log) \in Nat
  BY TypeFields
<1>2. /\ log' \in Seq(Records) /\ Len(log') = Len(log) + 1
      /\ DOMAIN log' = 1 .. Len(log) + 1 /\ DOMAIN log = 1 .. Len(log)
      /\ (\A n \in 1 .. Len(log) : log'[n] = log[n]) /\ log'[Len(log) + 1] = r
  BY <1>1
<1>3. /\ truth' \in Seq(Graphs) /\ Len(truth') = Len(log) + 2
      /\ (\A n \in 1 .. Len(log) + 1 : truth'[n] = truth[n]) /\ truth'[Len(log) + 2] = g
  BY <1>1
<1> QED
  BY <1>2, <1>3

LEMMA AppendedCommits ==
  ASSUME TypeOK, NEW r \in Records, log' = Append(log, r),
         NEW g \in Graphs, truth' = Append(truth, g),
         NEW a \in Nat, NEW l \in Nat, l = Len(log)
  PROVE  /\ \A last \in 0 .. l : Commits(a, last)' = Commits(a, last)
         /\ a <= l => Commits(a, l + 1)' = Commits(a, l) \cup Adds(r)
<1>1. (\A n \in 1 .. l : log'[n] = log[n]) /\ log'[l + 1] = r
  BY Appended
<1>2. ASSUME NEW last \in 0 .. l PROVE Commits(a, last)' = Commits(a, last)
  <2>1. \A m \in a + 1 .. last : m \in 1 .. l
    OBVIOUS
  <2>2. \A m \in a + 1 .. last : log'[m] = log[m]
    BY <1>1, <2>1
  <2> QED
    BY <2>2 DEF Commits
<1>3. ASSUME a <= l PROVE Commits(a, l + 1)' = Commits(a, l) \cup Adds(r)
  <2>n. PICK old : old = a + 1 .. l
    OBVIOUS
  <2>1. a + 1 .. l + 1 = old \cup {l + 1}
    BY <1>3, <2>n
  <2>2. \A m \in old : log'[m] = log[m]
    BY <1>1, <2>n
  <2>3. log'[l + 1] = r
    BY <1>1
  <2>4. Commits(a, l + 1)' = {log'[n].n : n \in {m \in old \cup {l + 1} : log'[m].kind = "commit"}}
    BY <2>1 DEF Commits
  <2>5. Commits(a, l) = {log[n].n : n \in {m \in old : log[m].kind = "commit"}}
    BY <2>n DEF Commits
  <2>6. Commits(a, l + 1)' = {log[n].n : n \in {m \in old : log[m].kind = "commit"}} \cup Adds(r)
    BY ONLY <2>2, <2>3, <2>4 DEF Adds
  <2> QED
    BY <2>5, <2>6
<1> QED
  BY <1>2, <1>3

\* A snapshot that has not got what the record adds is as true as before.
LEMMA AppendedExact ==
  ASSUME TypeOK, Order, NEW r \in Records, log' = Append(log, r),
         NEW g \in Graphs, g = live \cup Adds(r), truth' = Append(truth, g),
         synced' \in {synced, Len(log) + 1}, maybe' = maybe
  PROVE  \A s : s.lsn \in Nat /\ Adds(r) \cap s.graph = {} =>
           /\ Exact(s) => Exact(s)'
           /\ Good(s) /\ (Adds(r) = {} \/ maybe = {}) => Good(s)'
<1> SUFFICES ASSUME NEW s, s.lsn \in Nat, Adds(r) \cap s.graph = {}
             PROVE  /\ Exact(s) => Exact(s)'
                    /\ Good(s) /\ (Adds(r) = {} \/ maybe = {}) => Good(s)'
  OBVIOUS
<1>l. PICK l \in Nat : l = Len(log)
  BY TypeFields
<1>x. PICK X : X = {m.graph : m \in maybe}
  OBVIOUS
<1>1. /\ synced \in Nat /\ synced <= l /\ Len(log') = l + 1
      /\ \A n \in 1 .. l + 1 : truth'[n] = truth[n]
      /\ truth'[l + 2] = g /\ live = truth[l + 1] /\ synced' \in Nat /\ synced <= synced'
  BY <1>l, Appended, TypeFields DEF Order
<1>c. /\ \A last \in 0 .. l : Commits(s.lsn, last)' = Commits(s.lsn, last)
      /\ s.lsn <= l => Commits(s.lsn, l + 1)' = Commits(s.lsn, l) \cup Adds(r)
  BY <1>l, AppendedCommits
<1>2. \A last \in 0 .. l : Recovered(s, last)' = Recovered(s, last)
  BY <1>c DEF Recovered
<1>3. s.lsn <= l => Recovered(s, l + 1)' = Recovered(s, l) \cup Adds(r)
  BY <1>c DEF Recovered
<1>5. \A last \in synced' .. l + 1 : last \in synced .. l \/ last = l + 1
  BY <1>1
<1>6. \A last \in synced .. l : last \in 0 .. l /\ last + 1 \in 1 .. l + 1
  BY <1>1
<1>7. s.lsn <= synced => s.lsn <= synced' /\ s.lsn <= l
  BY <1>1
<1>8. l \in synced .. l /\ l + 1 + 1 = l + 2
  BY <1>1
<1>9. ASSUME Exact(s) PROVE Exact(s)'
  <2>1. s.lsn <= synced /\ Commits(s.lsn, l) \cap s.graph = {}
        /\ \A last \in synced .. l : Recovered(s, last) = truth[last + 1]
    BY <1>9, <1>l DEF Exact
  <2>2. \A last \in synced .. l : Recovered(s, last)' = truth'[last + 1]
    BY <1>1, <1>2, <1>6, <2>1
  <2>3. Recovered(s, l + 1)' = truth'[l + 2]
    BY <1>1, <1>3, <1>7, <1>8, <2>1
  <2>4. Commits(s.lsn, l + 1)' \cap s.graph = {}
    BY <1>c, <1>7, <2>1
  <2>5. \A last \in synced' .. l + 1 : Recovered(s, last)' = truth'[last + 1]
    BY <1>5, <1>8, <2>2, <2>3
  <2>6. s.lsn <= synced'
    BY <1>7, <2>1
  <2> QED
    BY <1>1, <2>4, <2>5, <2>6 DEF Exact
<1>10. ASSUME Good(s), Adds(r) = {} \/ maybe = {} PROVE Good(s)'
  <2>1. s.lsn <= synced /\ Commits(s.lsn, l) \cap s.graph = {}
        /\ \A last \in synced .. l : Recovered(s, last) \in {truth[last + 1]} \cup X
    BY <1>10, <1>l, <1>x DEF Good
  <2>2. \A last \in synced .. l : Recovered(s, last)' \in {truth'[last + 1]} \cup X
    BY <1>1, <1>2, <1>6, <2>1
  <2>3. Recovered(s, l + 1)' \in {truth'[l + 2]} \cup X
    <3>1. Recovered(s, l) \in {live} \cup X
      BY <1>1, <1>8, <2>1
    <3>2. Adds(r) = {} \/ X = {}
      BY <1>10, <1>x
    <3>3. Recovered(s, l + 1)' = Recovered(s, l) \cup Adds(r)
      BY <1>3, <1>7, <2>1
    <3> QED
      BY <1>1, <3>1, <3>2, <3>3
  <2>4. Commits(s.lsn, l + 1)' \cap s.graph = {}
    BY <1>c, <1>7, <2>1
  <2>5. \A last \in synced' .. l + 1 : Recovered(s, last)' \in {truth'[last + 1]} \cup X
    BY <1>5, <1>8, <2>2, <2>3
  <2>6. s.lsn <= synced' /\ X = {m.graph : m \in maybe'}
    BY <1>7, <1>x, <2>1
  <2> QED
    BY <1>1, <2>4, <2>5, <2>6 DEF Good
<1> QED
  BY <1>9, <1>10

\* The log, the directory and the checkpoints under way, when a commit or the
\* marker of the newest snapshot is appended.
AppendsOne(r) ==
  /\ r \in Records /\ Len(log) < MaxLsn /\ log' = Append(log, r)
  /\ live' = live \cup Adds(r) /\ truth' = Append(truth, live')
  /\ synced' \in {synced, Len(log) + 1}
  /\ IF r.kind = "commit" THEN r.n = ids + 1 /\ ids' = ids + 1 /\ ids < MaxIds /\ maybe = {}
     ELSE r.n = newest_lsn /\ ids' = ids /\ cur # NoCurrent /\ curSynced # NoCurrent
  /\ UNCHANGED <<base, newest_lsn, files, filesSynced, cur, curSynced, maybe>>

LEMMA AppendedType ==
  ASSUME TypeOK, Order, NEW r, AppendsOne(r)
  PROVE  /\ live' \in Graphs /\ ids' \in Nat /\ ids' >= ids /\ ids' <= MaxIds
         /\ log' \in Seq(Records) /\ Len(log') <= MaxLsn /\ Len(log') = Len(log) + 1
         /\ synced' \in 0 .. Len(log') /\ synced' >= synced /\ synced \in Nat
         /\ truth' \in Seq(Graphs) /\ Len(truth') = Len(log') + 1
         /\ live' \subseteq 1 .. ids' /\ live' = truth'[Len(log') + 1]
<1>1. /\ ids \in Nat /\ MaxIds \in Nat /\ ids <= MaxIds /\ Len(log) \in Nat /\ MaxLsn \in Nat
      /\ synced \in Nat /\ synced <= Len(log)
  BY TypeFields
<1>2. live \subseteq 1 .. ids
  BY DEF Order
<1>a. /\ ids' \in {ids, ids + 1} /\ ids' <= MaxIds /\ Adds(r) \subseteq {ids'}
      /\ Adds(r) # {} => ids' = ids + 1
  BY <1>1 DEF AppendsOne, Adds
<1>b. 1 .. ids \subseteq 1 .. ids' /\ ids' \in Nat /\ ids' >= ids
  BY <1>1, <1>a
<1>c. Adds(r) \subseteq 1 .. ids'
  BY <1>1, <1>a
<1>3. ids' \in Nat /\ ids' >= ids /\ ids' <= MaxIds /\ live' \subseteq 1 .. ids'
  BY <1>2, <1>a, <1>b, <1>c DEF AppendsOne
<1>4. live' \in Graphs
  BY <1>1, <1>3 DEF Graphs
<1>5. /\ log' \in Seq(Records) /\ Len(log') = Len(log) + 1
      /\ truth' \in Seq(Graphs) /\ Len(truth') = Len(log) + 2 /\ truth'[Len(log) + 2] = live'
  BY <1>4, Appended DEF AppendsOne
<1>6. Len(log') <= MaxLsn /\ Len(truth') = Len(log') + 1 /\ Len(log) + 2 = Len(log') + 1
  BY <1>1, <1>5 DEF AppendsOne
<1>7. synced' \in 0 .. Len(log') /\ synced' >= synced
  BY <1>1, <1>5 DEF AppendsOne
<1> QED
  BY <1>1, <1>3, <1>4, <1>5, <1>6, <1>7

LEMMA AppendedTrue ==
  ASSUME TypeOK, Order, NEW r, AppendsOne(r)
  PROVE  \A s : s.lsn \in Nat /\ s.graph \subseteq 1 .. ids =>
           (Exact(s) => Exact(s)') /\ (Good(s) => Good(s)')
<1>1. /\ r \in Records /\ log' = Append(log, r) /\ live' \in Graphs
      /\ live' = live \cup Adds(r) /\ truth' = Append(truth, live')
      /\ synced' \in {synced, Len(log) + 1} /\ maybe' = maybe
  BY AppendedType DEF AppendsOne
<1>2. Adds(r) = {} \/ maybe = {}
  BY DEF AppendsOne, Adds
<1>3. \A s : s.graph \subseteq 1 .. ids => Adds(r) \cap s.graph = {}
  <2>1. ids \in Nat /\ ids + 1 \notin 1 .. ids
    BY TypeFields
  <2> QED
    BY <2>1 DEF AppendsOne, Adds
<1>n. PICK g : g = live'
  OBVIOUS
<1>4. g \in Graphs /\ g = live \cup Adds(r) /\ truth' = Append(truth, g)
  BY <1>1, <1>n
<1> QED
  BY <1>1, <1>2, <1>3, <1>4, AppendedExact

LEMMA AppendedOrder ==
  ASSUME TypeOK, Order, NEW r, AppendsOne(r)
  PROVE  Order'
<1> DEFINE l == Len(log)
<1>1. /\ l \in Nat /\ synced \in Nat /\ synced' \in Nat /\ synced' >= synced /\ newest_lsn \in Nat
      /\ ids' \in Nat /\ ids' >= ids /\ ids \in Nat
      /\ live' \subseteq 1 .. ids' /\ live' = truth'[Len(log') + 1]
  BY AppendedType, TypeFields
<1>2. /\ DOMAIN log' = 1 .. l + 1 /\ DOMAIN log = 1 .. l /\ newest_lsn' = newest_lsn
      /\ (\A n \in 1 .. l : log'[n] = log[n]) /\ log'[l + 1] = r /\ base' = base
      /\ \A n \in 1 .. l : log[n] \in Records
  BY AppendedType, Appended, TypeFields DEF AppendsOne
<1> HIDE DEF l
<1>3. \A n \in 1 .. l + 1 : n \in 1 .. l \/ n = l + 1
  BY <1>1
<1>4. newest_lsn <= synced' /\ base - 1 <= newest_lsn
  BY <1>1 DEF Order
<1>5. ASSUME NEW n \in 1 .. l + 1
      PROVE  IF log'[n].kind = "commit" THEN log'[n].n \in 1 .. ids' ELSE log'[n].n <= newest_lsn
  <2>1. CASE n = l + 1
    <3>1. r.kind = "commit" => r.n \in 1 .. ids'
      BY <1>1 DEF AppendsOne
    <3>2. r.kind # "commit" => r.n <= newest_lsn
      BY <1>1 DEF AppendsOne
    <3> QED
      BY <1>2, <2>1, <3>1, <3>2
  <2>2. CASE n \in 1 .. l
    <3>1. IF log[n].kind = "commit" THEN log[n].n \in 1 .. ids ELSE log[n].n <= newest_lsn
      BY <1>2, <2>2 DEF Order
    <3>2. 1 .. ids \subseteq 1 .. ids'
      BY <1>1
    <3> QED
      BY <1>2, <2>2, <3>1, <3>2
  <2> QED
    BY <1>3, <2>1, <2>2
<1>6. ASSUME NEW m \in 1 .. l + 1, NEW n \in 1 .. l + 1, m < n,
             log'[m].kind = "marker", log'[n].kind = "marker"
      PROVE  log'[m].n <= log'[n].n
  <2>1. m \in 1 .. l /\ log'[m] = log[m]
    BY <1>1, <1>2, <1>6
  <2>2. CASE n = l + 1
    <3>1. log'[n].n = newest_lsn
      BY <1>2, <1>6, <2>2 DEF AppendsOne
    <3>2. log[m].n <= newest_lsn
      BY <1>2, <1>6, <2>1 DEF Order
    <3> QED
      BY <2>1, <3>1, <3>2
  <2>3. CASE n \in 1 .. l
    <3>1. log'[n] = log[n]
      BY <1>2, <2>3
    <3> QED
      BY <1>2, <1>6, <2>1, <2>3, <3>1 DEF Order
  <2> QED
    BY <1>3, <2>2, <2>3
<1> QED
  BY <1>1, <1>2, <1>4, <1>5, <1>6 DEF Order

LEMMA AppendedDirectory ==
  ASSUME TypeOK, Order, Directory, Loadable, NEW r, AppendsOne(r)
  PROVE  Directory' /\ Loadable'
<1>1. /\ synced \in Nat /\ synced' \in Nat /\ synced' >= synced
      /\ ids' \in Nat /\ ids' >= ids /\ ids \in Nat
      /\ UNCHANGED <<base, newest_lsn, files, filesSynced, cur, curSynced, maybe>>
  BY AppendedType, TypeFields DEF AppendsOne
<1>2. \A f \in files \cup filesSynced :
        f.lsn \in Nat /\ f.graph \subseteq 1 .. ids /\ f.lsn <= synced
  BY FileLsns DEF Directory
<1>3. Directory'
  <2>1. \A f \in files \cup filesSynced : f.lsn <= synced' /\ f.graph \subseteq 1 .. ids'
    <3> SUFFICES ASSUME NEW f \in files \cup filesSynced
                 PROVE  f.lsn <= synced' /\ f.graph \subseteq 1 .. ids'
      OBVIOUS
    <3>1. f.lsn \in Nat /\ f.graph \subseteq 1 .. ids /\ f.lsn <= synced
      BY <1>2
    <3> QED
      BY <1>1, <3>1
  <2>2. ASSUME cur = NoCurrent \/ curSynced = NoCurrent,
               \A n \in DOMAIN log : log[n].kind = "commit"
        PROVE  \A n \in DOMAIN log' : log'[n].kind = "commit"
    <3>1. /\ DOMAIN log' = 1 .. Len(log) + 1 /\ DOMAIN log = 1 .. Len(log) /\ Len(log) \in Nat
          /\ (\A n \in 1 .. Len(log) : log'[n] = log[n]) /\ log'[Len(log) + 1] = r
      BY AppendedType, Appended, TypeFields DEF AppendsOne
    <3>2. r.kind = "commit"
      BY <2>2 DEF AppendsOne
    <3>3. \A n \in 1 .. Len(log) + 1 : n \in 1 .. Len(log) \/ n = Len(log) + 1
      BY <3>1
    <3> QED
      BY <2>2, <3>1, <3>2, <3>3
  <2>3. \A c \in {cur, curSynced} :
          IF c = NoCurrent
          THEN base = 1 /\ \A n \in DOMAIN log' : log'[n].kind = "commit"
          ELSE /\ newest_lsn <= c
               /\ (\E f \in files : f.lsn = c) /\ (\E f \in filesSynced : f.lsn = c)
    BY <2>2 DEF Directory
  <2> QED
    BY <1>1, <2>1, <2>3 DEF Directory
<1>4. Loadable'
  <2>1. \A s : s.lsn \in Nat /\ s.graph \subseteq 1 .. ids => (Good(s) => Good(s)')
    BY AppendedTrue
  <2>2. Good(NoSnap) => Good(NoSnap)'
    BY <2>1, IdleFields
  <2>3. \A f \in files \cup filesSynced : Good(f) => Good(f)'
    BY <1>2, <2>1
  <2> QED
    BY <1>1, <2>2, <2>3 DEF Loadable
<1> QED
  BY <1>3, <1>4

LEMMA AppendedJob ==
  ASSUME TypeOK, Order, NEW r, AppendsOne(r), NEW q \in Procs, JobOk(q),
         job'[q].lsn = job[q].lsn, job'[q].graph = job[q].graph, job'[q].kind = job[q].kind,
         \/ job'[q].pc = job[q].pc
         \/ job[q].pc = "mark" /\ job'[q].pc = "fsync2"
  PROVE  JobOk(q)'
<1>1. /\ synced \in Nat /\ synced' \in Nat /\ synced' >= synced
      /\ ids' \in Nat /\ ids' >= ids /\ ids \in Nat
      /\ UNCHANGED <<newest_lsn, files, filesSynced, cur, curSynced>>
  BY AppendedType, TypeFields DEF AppendsOne
<1>n. PICK s : s = JobSnap(q)
  OBVIOUS
<1>2. /\ s.lsn \in Nat /\ s.lsn = job[q].lsn /\ s.graph = job[q].graph /\ JobSnap(q)' = s
  BY <1>n, FileLsns DEF JobSnap
<1>3. /\ s.lsn <= synced => s.lsn <= synced'
      /\ s.graph \subseteq 1 .. ids => s.graph \subseteq 1 .. ids'
      /\ s.graph \subseteq 1 .. ids /\ Exact(s) => Exact(s)'
  BY <1>1, <1>2, AppendedTrue
<1> QED
  BY <1>1, <1>2, <1>3, <1>n DEF JobOk, Pc, Stamped, Named, Current, Covered

LEMMA MarkerInv ==
  ASSUME CheckpointInv, NEW p \in Procs, checkpoint_marker(p)
  PROVE  CheckpointInv'
<1>0. TypeOK /\ Locks /\ Order /\ Directory /\ Loadable /\ Jobs /\ Restoring
  BY DEF CheckpointInv
<1>a. Pc(p) = "mark" /\ Pc(p) \in Named /\ Pc(p) \in Stamped /\ Pc(p) \in Covered
  BY DEF checkpoint_marker, At, Pc, Stamped, Named, Current, Covered
<1>1. CASE Refused(p)
  BY <1>a, <1>1, RefusedInv
<1>2. CASE ~Refused(p)
  <2>n. PICK r : r = Marker(job[p].lsn)
    OBVIOUS
  <2>1. /\ Len(log) < MaxLsn /\ log' = Append(log, r) /\ truth' = Append(truth, live)
        /\ GoTo(p, "fsync2") /\ "fsync2" \in Pcs
        /\ UNCHANGED <<synced, base, poisoned, live, ids, jobs, writer, newest, newest_lsn, count>>
        /\ UNCHANGED <<files, filesSynced, cur, curSynced, ext, maybe>>
    BY <1>2, <2>n DEF checkpoint_marker, graph, disk, locks, store, Pcs
  <2>2. /\ job' \in [Procs -> JobStates] /\ \A q \in Procs : q # p => job'[q] = job[q]
        /\ job'[p].pc = "fsync2" /\ job'[p].kind = job[p].kind /\ job'[p].lsn = job[p].lsn
        /\ job'[p].graph = job[p].graph /\ job'[p].installed = job[p].installed
    BY <1>0, <2>1, TypeFields, GoToFacts
  <2>3. /\ cur = job[p].lsn /\ curSynced = job[p].lsn /\ newest_lsn = job[p].lsn
        /\ job[p].lsn \in Nat
    BY <1>0, <1>a, FileLsns DEF Jobs, JobOk, Current
  <2>4. r \in Records /\ r.kind = "marker" /\ r.n = newest_lsn
    BY <2>3, <2>n DEF Records, Marker
  <2>5. AppendsOne(r)
    <3>1. Adds(r) = {} /\ cur # NoCurrent /\ curSynced # NoCurrent
      BY <2>3, <2>4 DEF Adds, NoCurrent
    <3> QED
      BY <2>1, <2>4, <3>1 DEF AppendsOne
  <2>6. Order' /\ Directory' /\ Loadable'
    BY <1>0, <2>5, AppendedOrder, AppendedDirectory
  <2>7. TypeOK'
    BY <1>0, <2>1, <2>2, <2>5, AppendedType DEF TypeOK
  <2>8. Locks'
    BY <1>0, <1>a, <2>1, <2>2 DEF Locks, Pc, Procs, Nobody, Stamped, Named, Current, Covered
  <2>9. Jobs'
    <3> SUFFICES ASSUME NEW q \in Procs PROVE JobOk(q)'
      BY DEF Jobs
    <3>1. /\ job'[q].lsn = job[q].lsn /\ job'[q].graph = job[q].graph
          /\ job'[q].kind = job[q].kind
          /\ job'[q].pc = job[q].pc \/ (job[q].pc = "mark" /\ job'[q].pc = "fsync2")
      BY <1>a, <2>2 DEF Pc
    <3> QED
      BY <1>0, <2>5, <3>1, AppendedJob DEF Jobs
  <2>10. Restoring'
    <3>1. \A l \in Nat : (\A n \in DOMAIN log : n > l => log[n].kind = "marker")
                         => \A n \in DOMAIN log' : n > l => log'[n].kind = "marker"
      <4>1. /\ DOMAIN log' = 1 .. Len(log) + 1 /\ DOMAIN log = 1 .. Len(log) /\ Len(log) \in Nat
            /\ (\A n \in 1 .. Len(log) : log'[n] = log[n]) /\ log'[Len(log) + 1] = r
        BY <1>0, <2>1, <2>4, Appended, TypeFields
      <4>2. \A n \in 1 .. Len(log) + 1 : n \in 1 .. Len(log) \/ n = Len(log) + 1
        BY <4>1
      <4> QED
        BY <2>4, <4>1, <4>2
    <3>2. job["client"].lsn \in Nat /\ job'["client"].lsn = job["client"].lsn
          /\ job'["client"].kind = job["client"].kind /\ JobSnap("client")' = JobSnap("client")
      BY <1>0, <2>2, FileLsns DEF Procs, JobSnap
    <3>3. \/ job'["client"].pc = job["client"].pc
          \/ job["client"].pc = "mark" /\ job'["client"].pc = "fsync2"
      BY <1>a, <2>2 DEF Procs, Pc
    <3> QED
      BY <1>0, <2>1, <3>1, <3>2, <3>3 DEF Restoring, Stamped, Named, Current, Covered
  <2> QED
    BY <2>6, <2>7, <2>8, <2>9, <2>10 DEF CheckpointInv
<1> QED
  BY <1>1, <1>2

LEMMA CommitInv ==
  ASSUME CheckpointInv, commit
  PROVE  CheckpointInv'
<1>0. TypeOK /\ Locks /\ Order /\ Directory /\ Loadable /\ Jobs /\ Restoring
  BY DEF CheckpointInv
<1>p. "client" \in Procs /\ "behind" \in Procs
  BY DEF Procs
<1>n. PICK r : r = Commit(ids + 1)
  OBVIOUS
<1>1. /\ writer = Nobody /\ ~poisoned /\ ids < MaxIds /\ Len(log) < MaxLsn
      /\ log' = Append(log, r) /\ ids' = ids + 1 /\ synced' \in {synced, Len(log) + 1}
      /\ live' = live \cup {ids + 1} /\ truth' = Append(truth, live')
      /\ count' = (IF every = 0 THEN 0 ELSE count + 1)
      /\ UNCHANGED <<base, poisoned, files, filesSynced, cur, curSynced, ext, newest_lsn, maybe>>
  BY <1>n DEF commit, disk
<1>2. Pc("client") = "idle" /\ job["client"] = Idle
  BY <1>0, <1>1, <1>p DEF Locks
<1>3. maybe = {}
  BY <1>0, <1>1, <1>2, IdleFields DEF Restoring
<1>4. AppendsOne(r) /\ r \in Records /\ r.kind = "commit"
  <2>1. r \in Records /\ r.kind = "commit" /\ r.n = ids + 1
    BY <1>0, <1>n, TypeFields DEF Records, Commit
  <2>2. Adds(r) = {ids + 1}
    BY <2>1 DEF Adds
  <2> QED
    BY <1>1, <1>3, <2>1, <2>2 DEF AppendsOne
<1>5. Order' /\ Directory' /\ Loadable'
  BY <1>0, <1>4, AppendedOrder, AppendedDirectory
<1>6. CASE UNCHANGED <<locks, job, jobs>>
  <2>1. UNCHANGED <<writer, newest, job, jobs>>
    BY <1>6 DEF locks
  <2>2. TypeOK'
    <3>1. count' \in 0 .. ids' /\ ids' \in 0 .. MaxIds
      BY <1>0, <1>1, TypeFields DEF TypeOK
    <3> QED
      BY <1>0, <1>1, <1>4, <2>1, <3>1, AppendedType DEF TypeOK
  <2>3. Locks'
    BY <1>0, <1>1, <1>2, <2>1, IdleFields DEF Locks, Pc
  <2>4. Jobs'
    BY <1>0, <1>4, <2>1, AppendedJob DEF Jobs
  <2>5. Restoring'
    BY <1>1, <1>2, <1>3, <2>1, IdleFields DEF Restoring
  <2> QED
    BY <1>5, <2>2, <2>3, <2>4, <2>5 DEF CheckpointInv
<1>7. CASE /\ newest = Nobody /\ NewJob /\ writer' = "client" /\ newest' = "client"
           /\ job' = [job EXCEPT !["client"] = Begun("fsync", "observed")]
  <2>k. PICK k : k = Begun("fsync", "observed")
    OBVIOUS
  <2>1. "fsync" \in Pcs /\ "observed" \in Kinds /\ jobs' \in 0 .. MaxJobs
    BY <1>0, <1>7, ManagedCheckpointAssumption DEF Pcs, Kinds, NewJob, TypeOK
  <2>2. k \in JobStates /\ k.pc = "fsync" /\ k.kind = "observed" /\ ~k.installed
    BY ONLY <2>k, <2>1, JobStarted
  <2>3. /\ job' \in [Procs -> JobStates] /\ job'["client"] = k
        /\ \A q \in Procs : q # "client" => job'[q] = job[q]
    BY <1>0, <1>7, <1>p, <2>k, <2>2, TypeFields, JobSet
  <2>4. TypeOK'
    <3>1. count' \in 0 .. ids' /\ ids' \in 0 .. MaxIds
      BY <1>0, <1>1, TypeFields DEF TypeOK
    <3> QED
      BY <1>0, <1>1, <1>4, <1>7, <1>p, <2>1, <2>3, <3>1, AppendedType DEF TypeOK
  <2>5. Locks'
    BY <1>0, <1>1, <1>7, <2>2, <2>3
       DEF Locks, Pc, Procs, Nobody, Stamped, Named, Current, Covered
  <2>6. Jobs'
    <3> SUFFICES ASSUME NEW q \in Procs PROVE JobOk(q)'
      BY DEF Jobs
    <3>1. CASE q = "client"
      BY <2>2, <2>3, <3>1, FreshJob DEF Pc, Stamped, Named, Current, Covered
    <3>2. CASE q # "client"
      <4>1. job'[q] = job[q]
        BY <2>3, <3>2
      <4> QED
        BY <1>0, <1>4, <4>1, AppendedJob DEF Jobs
    <3> QED
      BY <3>1, <3>2
  <2>7. Restoring'
    BY <1>1, <1>3, <2>2, <2>3 DEF Restoring
  <2> QED
    BY <1>5, <2>4, <2>5, <2>6, <2>7 DEF CheckpointInv
<1> QED
  BY <1>6, <1>7 DEF commit, Begun

-----------------------------------------------------------------------------
(* The end of a checkpoint.                                                *)

LEMMA TruncateInv ==
  ASSUME CheckpointInv, NEW p \in Procs, truncate_up_to(p)
  PROVE  CheckpointInv'
<1>0. TypeOK /\ Locks /\ Order /\ Directory /\ Loadable /\ Jobs /\ Restoring
  BY DEF CheckpointInv
<1>a. /\ Pc(p) = "truncate" /\ Pc(p) \in Named /\ Pc(p) \in Stamped /\ Pc(p) \in Covered
      /\ job[p].kind # "to"
  BY <1>0 DEF truncate_up_to, At, Pc, Stamped, Named, Current, Covered, Locks
<1>1. /\ base' \in base .. (IF base > job[p].lsn THEN base ELSE job[p].lsn + 1)
      /\ GoTo(p, "prune") /\ "prune" \in Pcs
      /\ UNCHANGED <<log, synced, poisoned, live, ids, jobs, writer, newest, truth, maybe>>
      /\ UNCHANGED <<files, filesSynced, cur, curSynced, ext, newest_lsn, count>>
  BY <1>a DEF truncate_up_to, graph, locks, history, disk, store, Pcs
<1>2. /\ job' \in [Procs -> JobStates] /\ \A q \in Procs : q # p => job'[q] = job[q]
      /\ job'[p].pc = "prune" /\ job'[p].kind = job[p].kind /\ job'[p].lsn = job[p].lsn
      /\ job'[p].graph = job[p].graph /\ job'[p].installed = job[p].installed
  BY <1>0, <1>1, TypeFields, GoToFacts
<1>3. /\ cur = job[p].lsn /\ curSynced = job[p].lsn /\ newest_lsn = job[p].lsn
      /\ job[p].lsn \in Nat /\ job[p].lsn <= MaxLsn
  <2>1. job[p].lsn \in 0 .. MaxLsn
    BY <1>0, JobFields, FileLsns
  <2> QED
    BY <1>0, <1>a, <2>1, ManagedCheckpointAssumption DEF Jobs, JobOk, Current
<1>4. /\ synced \in synced .. Len(log) /\ ids \in Nat /\ synced \in Nat /\ base \in Nat
      /\ base \in 1 .. MaxLsn + 1 /\ MaxLsn \in Nat /\ newest_lsn \in Nat
  BY <1>0, TypeFields DEF TypeOK
<1>5. base' \in 1 .. MaxLsn + 1 /\ base' - 1 <= newest_lsn
  <2>1. base - 1 <= newest_lsn
    BY <1>0 DEF Order
  <2> QED
    BY <1>1, <1>3, <1>4, <2>1
<1>6. TypeOK'
  BY <1>0, <1>1, <1>2, <1>5 DEF TypeOK
<1>7. Locks'
  BY <1>0, <1>a, <1>1, <1>2 DEF Locks, Pc, Procs, Nobody, Stamped, Named, Current, Covered
<1>8. Order'
  BY <1>0, <1>1, <1>5 DEF Order
<1>9. Directory'
  <2>1. cur # NoCurrent /\ curSynced # NoCurrent
    BY <1>3 DEF NoCurrent
  <2> QED
    BY <1>0, <1>1, <2>1 DEF Directory
<1>10. Loadable'
  BY <1>0, <1>1, <1>4, LoadableKept
<1>11. Jobs'
  <2>1. JobSnap(p)' = JobSnap(p) /\ (Exact(JobSnap(p)) => Exact(JobSnap(p))')
    BY <1>0, <1>1, <1>2, <1>4, SnapKept
  <2>2. JobOk(p)
    BY <1>0 DEF Jobs
  <2>3. JobOk(p)'
    BY <1>a, <1>1, <1>2, <2>1, <2>2 DEF JobOk, Pc, Stamped, Named, Current, Covered
  <2> QED
    BY <1>a, <1>1, <1>2, <1>4, <2>3, OtherJob DEF Jobs
<1>12. Restoring'
  <2>1. JobSnap(p)' = JobSnap(p)
    BY <1>2 DEF JobSnap
  <2>2. CASE p = "client"
    BY <1>0, <1>a, <1>1, <1>2, <2>1, <2>2 DEF Restoring, Pc, Stamped, Named, Current, Covered
  <2>3. CASE p # "client"
    <3>1. job'["client"] = job["client"]
      BY <1>2, <2>3 DEF Procs
    <3> QED
      BY <1>0, <1>1, <3>1 DEF Restoring, JobSnap
  <2> QED
    BY <2>2, <2>3
<1> QED
  BY <1>6, <1>7, <1>8, <1>9, <1>10, <1>11, <1>12 DEF CheckpointInv

\* A restore's graph takes the place of all that the log says.
LEMMA RestoredGood ==
  ASSUME TypeOK, NEW s, s.lsn \in Nat, s.lsn <= synced,
         \A n \in DOMAIN log : n > s.lsn => log[n].kind = "marker",
         UNCHANGED <<log, synced>>,
         truth' = [n \in DOMAIN truth |-> IF n > s.lsn THEN s.graph ELSE truth[n]]
  PROVE  Good(s)' /\ truth'[Len(log) + 1] = s.graph
<1>1. /\ synced \in Nat /\ Len(log) \in Nat /\ synced <= Len(log) /\ DOMAIN log = 1 .. Len(log)
      /\ DOMAIN truth = 1 .. Len(log) + 1
  BY TypeFields
<1>2. \A last \in synced .. Len(log) : Commits(s.lsn, last) = {}
  <2> SUFFICES ASSUME NEW last \in synced .. Len(log),
                      NEW m \in s.lsn + 1 .. last, log[m].kind = "commit"
               PROVE  FALSE
    BY DEF Commits
  <2>1. m \in DOMAIN log /\ m > s.lsn
    BY <1>1
  <2> QED
    BY <2>1
<1>3. Commits(s.lsn, Len(log)) = {}
  BY <1>1, <1>2
<1>4. \A last \in synced .. Len(log) : Recovered(s, last) = s.graph
  BY <1>2 DEF Recovered
<1>5. /\ \A last : Recovered(s, last)' = Recovered(s, last)
      /\ Commits(s.lsn, Len(log))' = Commits(s.lsn, Len(log))
  BY DEF Commits, Recovered
<1>6. \A last \in synced .. Len(log) : truth'[last + 1] = s.graph
  <2> SUFFICES ASSUME NEW last \in synced .. Len(log) PROVE truth'[last + 1] = s.graph
    OBVIOUS
  <2>1. last + 1 \in DOMAIN truth /\ last + 1 > s.lsn
    BY <1>1
  <2> QED
    BY <2>1
<1>7. Len(log) \in synced .. Len(log)
  BY <1>1
<1> QED
  BY <1>3, <1>4, <1>5, <1>6, <1>7 DEF Good

LEMMA PruneInv ==
  ASSUME CheckpointInv, Late, NEW p \in Procs, prune_old_snapshots(p)
  PROVE  CheckpointInv'
<1>0. TypeOK /\ Locks /\ Order /\ Directory /\ Loadable /\ Jobs /\ Restoring
  BY DEF CheckpointInv
<1>a. Pc(p) = "prune" /\ Pc(p) \in Named /\ Pc(p) \in Stamped /\ Pc(p) \in Covered
  BY DEF prune_old_snapshots, At, Pc, Stamped, Named, Current, Covered
<1>n. PICK new : new = JobSnap(p)
  OBVIOUS
<1>1. /\ new.lsn = job[p].lsn /\ new.graph = job[p].graph /\ new.lsn \in Nat /\ new \in files
      /\ cur = new.lsn /\ curSynced = new.lsn /\ newest_lsn = new.lsn /\ filesSynced = files
      /\ new.lsn <= synced /\ new.graph \subseteq 1 .. ids
  <2>1. new.lsn = job[p].lsn /\ new.graph = job[p].graph /\ new.lsn \in Nat
    BY <1>0, <1>n, FileLsns
  <2> QED
    BY <1>0, <1>a, <1>n, <2>1 DEF Jobs, JobOk, Current, Named, Covered
<1>2. /\ files' \subseteq files /\ new \in files' /\ filesSynced' \in {files, files'}
      /\ UNCHANGED <<log, synced, base, poisoned, ids, jobs, cur, curSynced, ext, newest_lsn>>
      /\ count' = 0
  <2>1. PICK n \in {0, MaxLsn} :
          /\ files' = files \ {f \in Prunable(job[p].lsn) : f.lsn < n}
          /\ filesSynced' = IF n = MaxLsn THEN files' ELSE filesSynced
    BY DEF prune_old_snapshots
  <2>2. new \notin Prunable(job[p].lsn)
    BY <1>1 DEF Prunable
  <2>3. files' \subseteq files /\ new \in files' /\ filesSynced' \in {files, files'}
    BY <1>1, <2>1, <2>2
  <2> QED
    BY <2>3 DEF prune_old_snapshots, wal
<1>3. Done(p)
  BY DEF prune_old_snapshots
<1>4. /\ job' = [job EXCEPT ![p] = Idle]
      /\ writer' = (IF writer = p THEN Nobody ELSE writer)
      /\ newest' = (IF newest = p THEN Nobody ELSE newest)
  BY <1>3 DEF Done, Unlock
<1>5. /\ job' \in [Procs -> JobStates] /\ job'[p] = Idle
      /\ \A q \in Procs : q # p => job'[q] = job[q]
  BY <1>0, <1>4, IdleFields, TypeFields, JobSet
<1>6. cur # NoCurrent /\ curSynced # NoCurrent
  BY <1>1 DEF NoCurrent
<1>7. \A f \in files' \cup filesSynced' : f \in files /\ (f.lsn = new.lsn => f = new)
  BY <1>0, <1>1, <1>2 DEF Directory
<1>8. Directory'
  <2>1. /\ \A f \in files' \cup filesSynced' : f.lsn <= synced /\ f.graph \subseteq 1 .. ids
        /\ \A f, g \in files' : f.lsn = g.lsn => f = g
        /\ \A f, g \in filesSynced' : f.lsn = g.lsn => f = g
    BY <1>0, <1>2 DEF Directory
  <2>2. /\ newest_lsn <= cur /\ newest_lsn <= curSynced
        /\ (\E f \in files' : f.lsn = cur) /\ (\E f \in files' : f.lsn = curSynced)
        /\ (\E f \in filesSynced' : f.lsn = cur) /\ (\E f \in filesSynced' : f.lsn = curSynced)
    <3>1. new \in filesSynced'
      BY <1>1, <1>2
    <3> QED
      BY <1>1, <1>2, <3>1
  <2> QED
    BY <1>2, <1>6, <2>1, <2>2 DEF Directory
<1>9. Locks'
  BY <1>0, <1>a, <1>2, <1>4, <1>5, IdleFields
     DEF Locks, Pc, Procs, Nobody, Stamped, Named, Current, Covered
<1>10. /\ writer' \in Procs \cup {Nobody} /\ newest' \in Procs \cup {Nobody}
       /\ files' \subseteq Snaps /\ filesSynced' \subseteq Snaps /\ count' \in 0 .. ids
  <2>1. 0 \in 0 .. ids
    BY <1>0, TypeFields
  <2> QED
    BY <1>0, <1>2, <1>4, <2>1 DEF TypeOK
<1>11. synced \in synced .. Len(log) /\ ids \in Nat
  BY <1>0, TypeFields
<1>12. ASSUME Good(new)' PROVE Loadable'
  BY <1>1, <1>2, <1>6, <1>7, <1>12 DEF Loadable
<1>13. JobOk(p)'
  BY <1>5, IdleFields, FreshJob DEF Pc, Stamped, Named, Current, Covered
<1>14. CASE job[p].kind # "restore"
  <2>1. UNCHANGED <<live, truth, maybe>>
    BY <1>3, <1>14 DEF Done, history
  <2>2. TypeOK'
    BY <1>0, <1>2, <1>5, <1>10, <2>1 DEF TypeOK
  <2>3. Order'
    BY <1>0, <1>2, <1>11, <2>1, OrderKept
  <2>4. Good(new)'
    <3>1. Good(new)
      BY <1>0, <1>1, <1>6 DEF Loadable
    <3> QED
      BY <1>0, <1>1, <1>2, <1>11, <2>1, <3>1, GoodKept
  <2>5. Jobs'
    <3>1. newest_lsn' \in Nat /\ newest_lsn' >= newest_lsn
      BY <1>1, <1>2
    <3> QED
      BY <1>a, <1>2, <1>5, <1>13, <2>1, <3>1, OtherJob DEF Jobs
  <2>6. Restoring'
    <3>1. CASE p = "client"
      <4>1. job["client"].kind # "restore"
        BY <1>14, <3>1
      <4> QED
        BY <1>0, <1>2, <1>5, <2>1, <3>1, <4>1, IdleFields DEF Restoring
    <3>2. CASE p # "client"
      <4>1. job'["client"] = job["client"]
        BY <1>5, <3>2 DEF Procs
      <4> QED
        BY <1>0, <1>2, <2>1, <4>1 DEF Restoring, JobSnap
    <3> QED
      BY <3>1, <3>2
  <2> QED
    BY <1>8, <1>9, <1>12, <2>2, <2>3, <2>4, <2>5, <2>6 DEF CheckpointInv
<1>15. CASE job[p].kind = "restore"
  <2>1. /\ live' = new.graph /\ maybe' = {} /\ p = "client"
        /\ truth' = [n \in DOMAIN truth |-> IF n > new.lsn THEN new.graph ELSE truth[n]]
    BY <1>0, <1>1, <1>3, <1>15 DEF Done, Locks
  <2>2. \A n \in DOMAIN log : n > new.lsn => log[n].kind = "marker"
    BY <1>0, <1>a, <1>1, <1>15, <2>1 DEF Restoring, Pc
  <2>3. Good(new)' /\ truth'[Len(log) + 1] = new.graph
    BY <1>0, <1>1, <1>2, <2>1, <2>2, RestoredGood
  <2>4. TypeOK'
    <3>1. new.graph \in Graphs
      BY <1>0, <1>1, FileLsns DEF Snaps
    <3>2. truth' \in Seq(Graphs) /\ Len(truth') = Len(log) + 1
      BY <1>0, <2>1, <3>1, TypeFields
    <3> QED
      BY <1>0, <1>2, <1>5, <1>10, <2>1, <3>1, <3>2 DEF TypeOK
  <2>5. Order'
    BY <1>0, <1>1, <1>2, <2>1, <2>3 DEF Order
  <2>6. Jobs'
    <3>1. ASSUME NEW q \in Procs, q # p PROVE JobOk(q)'
      <4>1. q = "behind" /\ ~(Pc(q) \in Stamped) /\ job'[q] = job[q] /\ JobOk(q)
        BY <1>0, <1>a, <1>5, <2>1, <3>1 DEF Locks, Procs, Pc, Jobs
      <4>2. CASE Pc(q) = "lock"
        <5>1. job[q].lsn <= newest_lsn /\ job[q].lsn \in Nat /\ newest_lsn \in Nat
          BY <1>0, <1>a, <1>1, <2>1, <4>1, <4>2, FileLsns DEF Late
        <5>2. ~(newest_lsn' < job'[q].lsn)
          BY <1>2, <4>1, <5>1
        <5>3. job[q].lsn <= synced /\ job[q].graph \subseteq 1 .. ids
          BY <4>1, <4>2 DEF JobOk
        <5> QED
          BY <1>2, <4>1, <4>2, <5>2, <5>3 DEF JobOk, Pc, Stamped, Named, Current, Covered
      <4>3. CASE Pc(q) # "lock"
        BY <4>1, <4>3, FreshJob DEF Pc
      <4> QED
        BY <4>2, <4>3
    <3> QED
      BY <1>13, <3>1 DEF Jobs
  <2>7. Restoring'
    BY <1>5, <2>1, IdleFields DEF Restoring
  <2> QED
    BY <1>8, <1>9, <1>12, <2>3, <2>4, <2>5, <2>6, <2>7 DEF CheckpointInv
<1> QED
  BY <1>14, <1>15

-----------------------------------------------------------------------------
(* What an open loads.                                                     *)

\* Whatever storage holds, an open loads a good snapshot, which is among the
\* files, or the empty graph when there are none; the log goes back to it.
LEMMA LoadedGood ==
  ASSUME TypeOK, Order, Directory, Loadable, NEW fs \in Disks, NEW c \in {cur, curSynced},
         NEW s, s = Loaded(fs, c)
  PROVE  /\ Good(s) /\ s.lsn \in 0 .. MaxLsn /\ s.lsn \in Nat /\ s.graph \subseteq 1 .. ids
         /\ base - 1 <= s.lsn
         /\ IF c = NoCurrent THEN \A n \in DOMAIN log : log[n].kind = "commit"
            ELSE newest_lsn <= s.lsn /\ s.lsn = c /\ s \in fs
         /\ IF fs = {} THEN s = NoSnap ELSE s \in fs
         /\ \A f \in fs : f.lsn = s.lsn => f = s
         /\ c = NoCurrent => \A f \in fs : f.lsn <= s.lsn
<1>1. /\ fs \subseteq files \cup filesSynced /\ fs \in SUBSET Snaps
      /\ \A f, g \in fs : f.lsn = g.lsn => f = g
      /\ \A f \in files, g \in filesSynced : f.lsn = g.lsn => \E h \in fs : h.lsn = f.lsn
  BY TypeFields DEF Disks
<1>2. \A f \in fs : f.lsn \in 0 .. MaxLsn /\ f.lsn \in Nat /\ f.graph \subseteq 1 .. ids
  BY <1>1, FileLsns, ManagedCheckpointAssumption DEF Directory, Snaps
<1>3. newest_lsn \in Nat /\ base \in Nat /\ base - 1 <= newest_lsn
  BY TypeFields DEF Order
<1>4. CASE c # NoCurrent
  <2>1. /\ newest_lsn <= c /\ (\E f \in files : f.lsn = c) /\ (\E f \in filesSynced : f.lsn = c)
    BY <1>4 DEF Directory
  <2>2. \E f \in fs : f.lsn = c
    BY <1>1, <2>1
  <2>3. s \in fs /\ s.lsn = c
    BY <2>2 DEF Loaded
  <2>4. Good(s)
    BY <1>1, <1>4, <2>3 DEF Loadable
  <2>5. base - 1 <= s.lsn
    BY <1>2, <1>3, <2>1, <2>3
  <2> QED
    BY <1>1, <1>2, <1>4, <2>1, <2>3, <2>4, <2>5
<1>5. CASE c = NoCurrent
  <2>1. base = 1 /\ \A n \in DOMAIN log : log[n].kind = "commit"
    BY <1>5 DEF Directory
  <2>2. ~(\E f \in fs : f.lsn = c)
    BY <1>2, <1>5 DEF NoCurrent
  <2>3. CASE fs = {}
    <3>1. s = NoSnap
      BY <2>2, <2>3 DEF Loaded
    <3>2. \A g \in files, h \in filesSynced : g.lsn # h.lsn
      BY <1>1, <2>3
    <3>3. Good(NoSnap)
      BY <1>5, <3>2 DEF Loadable
    <3>4. NoSnap.lsn \in 0 .. MaxLsn /\ NoSnap.graph \subseteq 1 .. ids /\ base - 1 <= NoSnap.lsn
      BY <2>1, IdleFields, ManagedCheckpointAssumption
    <3> QED
      BY <1>5, <2>1, <2>3, <3>1, <3>3, <3>4, NoSnapLsn
  <2>4. CASE fs # {}
    <3>1. s = CHOOSE f \in fs : \A g \in fs : g.lsn <= f.lsn
      BY <2>2, <2>4 DEF Loaded
    <3>2. \E f \in fs : \A g \in fs : g.lsn <= f.lsn
      BY <1>1, <2>4, NewestOf
    <3>3. s \in fs /\ \A g \in fs : g.lsn <= s.lsn
      BY <3>1, <3>2
    <3>4. Good(s)
      <4>1. ASSUME NEW g \in files, NEW h \in filesSynced, g.lsn = h.lsn PROVE g.lsn <= s.lsn
        BY <1>1, <3>3, <4>1
      <4>2. s \in files \cup filesSynced
        BY <1>1, <3>3
      <4> QED
        BY <1>5, <4>1, <4>2 DEF Loadable
    <3>5. base - 1 <= s.lsn
      BY <1>2, <2>1, <3>3
    <3> QED
      BY <1>1, <1>2, <1>5, <2>1, <2>4, <3>3, <3>4, <3>5
  <2> QED
    BY <2>3, <2>4
<1> QED
  BY <1>4, <1>5

LEMMA CommitsWithin ==
  ASSUME TypeOK, Order, NEW a \in Nat, NEW last \in 0 .. Len(log)
  PROVE  Commits(a, last) \subseteq Commits(a, Len(log)) /\ Commits(a, last) \subseteq 1 .. ids
<1>1. Len(log) \in Nat /\ DOMAIN log = 1 .. Len(log)
  BY TypeFields
<1>2. \A m \in a + 1 .. last : m \in a + 1 .. Len(log) /\ m \in DOMAIN log
  BY <1>1
<1>3. \A m \in DOMAIN log : log[m].kind = "commit" => log[m].n \in 1 .. ids
  BY DEF Order
<1> QED
  BY <1>2, <1>3 DEF Commits

\* A state of the invariant is one that recovers.
LEMMA CheckpointInvSafe ==
  ASSUME CheckpointInv
  PROVE  RecoversDurable
<1>0. TypeOK /\ Order /\ Directory /\ Loadable
  BY DEF CheckpointInv
<1> SUFFICES ASSUME NEW last \in synced .. Len(log), NEW fs \in Disks, NEW c \in {cur, curSynced},
                    NEW s, s = Loaded(fs, c)
             PROVE  /\ Replays(s, last)
                    /\ Recovered(s, last) \in {truth[last + 1]} \cup {m.graph : m \in maybe}
  BY DEF RecoversDurable
<1>1. Good(s) /\ s.lsn \in Nat /\ base - 1 <= s.lsn
  BY <1>0, LoadedGood
<1>2. Recovered(s, last) \in {truth[last + 1]} \cup {m.graph : m \in maybe}
  BY <1>1 DEF Good
<1>3. /\ base \in Nat /\ base >= 1 /\ Len(log) \in Nat /\ synced \in Nat /\ synced <= Len(log)
      /\ DOMAIN log = 1 .. Len(log)
  BY <1>0, TypeFields
<1>4. last \in 0 .. Len(log) /\ \A n \in base .. last : n \in DOMAIN log
  BY <1>3
<1>5. Commits(s.lsn, last) \cap s.graph = {}
  BY <1>0, <1>1, <1>4, CommitsWithin DEF Good
<1>6. \A m, n \in {n \in base .. last : n > s.lsn /\ log[n].kind = "marker"} :
        m < n => log[m].n <= log[n].n
  BY <1>0, <1>4 DEF Order
<1>7. Replays(s, last)
  BY <1>1, <1>5, <1>6 DEF Replays
<1> QED
  BY <1>2, <1>7

-----------------------------------------------------------------------------
(* A crash, and the open after it.                                         *)

LEMMA CrashInv ==
  ASSUME CheckpointInv, CrashAndOpen
  PROVE  CheckpointInv'
<1>0. TypeOK /\ Order /\ Directory /\ Loadable
  BY DEF CheckpointInv
<1>1. PICK last \in synced .. Len(log), fs \in Disks, c \in {cur, curSynced} :
        /\ Replays(Loaded(fs, c), last)
        /\ log' = SubSeq(log, 1, last) /\ synced' = last
        /\ live' = Recovered(Loaded(fs, c), last)
        /\ truth' = [n \in 1 .. last + 1 |->
                       IF n > Loaded(fs, c).lsn /\ Recovered(Loaded(fs, c), last) # truth[last + 1]
                       THEN Recovered(Loaded(fs, c), last) ELSE truth[n]]
        /\ files' = fs /\ filesSynced' = fs /\ cur' = c /\ curSynced' = c
        /\ newest_lsn' = Loaded(fs, c).lsn
  BY DEF CrashAndOpen
<1>s. PICK s : s = Loaded(fs, c)
  OBVIOUS
<1>g. PICK g : g = Recovered(s, last)
  OBVIOUS
<1>2. /\ log' = SubSeq(log, 1, last) /\ synced' = last /\ live' = g /\ Replays(s, last)
      /\ truth' = [n \in 1 .. last + 1 |-> IF n > s.lsn /\ g # truth[last + 1] THEN g ELSE truth[n]]
      /\ files' = fs /\ filesSynced' = fs /\ cur' = c /\ curSynced' = c /\ newest_lsn' = s.lsn
  BY <1>1, <1>s, <1>g
<1>3. /\ poisoned' = FALSE /\ writer' = Nobody /\ newest' = Nobody /\ count' = 0
      /\ job' = [p \in Procs |-> Idle] /\ maybe' = {} /\ UNCHANGED <<base, ids, jobs, ext>>
  BY DEF CrashAndOpen
<1>4. /\ Good(s) /\ s.lsn \in 0 .. MaxLsn /\ s.lsn \in Nat /\ s.graph \subseteq 1 .. ids
      /\ base - 1 <= s.lsn
      /\ IF c = NoCurrent THEN \A n \in DOMAIN log : log[n].kind = "commit"
         ELSE newest_lsn <= s.lsn /\ s.lsn = c /\ s \in fs
      /\ IF fs = {} THEN s = NoSnap ELSE s \in fs
      /\ \A f \in fs : f.lsn = s.lsn => f = s
      /\ c = NoCurrent => \A f \in fs : f.lsn <= s.lsn
  BY <1>0, <1>s, LoadedGood
<1>5. /\ last \in Nat /\ last \in 0 .. Len(log) /\ Len(log) \in Nat /\ synced \in Nat
      /\ Len(log) <= MaxLsn /\ MaxLsn \in Nat /\ s.lsn <= synced /\ s.lsn <= last
      /\ DOMAIN log = 1 .. Len(log) /\ ids \in Nat /\ ids <= MaxIds /\ MaxIds \in Nat
      /\ newest_lsn \in Nat /\ base \in Nat /\ base >= 1
  BY <1>0, <1>4, TypeFields DEF Good
<1>6. /\ log' \in Seq(Records) /\ Len(log') = last /\ DOMAIN log' = 1 .. last
      /\ \A n \in 1 .. last : log'[n] = log[n] /\ n \in DOMAIN log /\ log[n] \in Records
  <2>1. \A n \in 1 .. last : n \in DOMAIN log /\ log[n] \in Records
    BY <1>0, <1>5, TypeFields
  <2>2. log' = [n \in 1 .. last |-> log[n]]
    BY <1>0, <1>2, <1>5, TypeFields
  <2>3. log' \in [1 .. last -> Records]
    BY <2>1, <2>2
  <2>4. log' \in Seq(Records) /\ Len(log') = last
    BY <1>5, <2>2, <2>3
  <2> QED
    BY <2>1, <2>2, <2>4
<1>7. \A a \in Nat : Commits(a, last)' = Commits(a, last)
  <2> SUFFICES ASSUME NEW a \in Nat PROVE Commits(a, last)' = Commits(a, last)
    OBVIOUS
  <2>1. \A m \in a + 1 .. last : m \in 1 .. last
    BY <1>5
  <2>2. \A m \in a + 1 .. last : log'[m] = log[m]
    BY <1>6, <2>1
  <2> QED
    BY <2>2 DEF Commits
<1>8. g \in Graphs /\ g \subseteq 1 .. ids
  <2>1. Commits(s.lsn, last) \subseteq 1 .. ids
    BY <1>0, <1>4, <1>5, CommitsWithin
  <2>2. g \subseteq 1 .. ids
    BY <1>4, <1>g, <2>1 DEF Recovered
  <2> QED
    BY <1>5, <2>2 DEF Graphs
<1>9. truth' \in Seq(Graphs) /\ Len(truth') = last + 1 /\ truth'[last + 1] = g
  <2>1. \A n \in 1 .. last + 1 : n \in 1 .. Len(log) + 1
    BY <1>5
  <2>2. \A n \in 1 .. last + 1 : truth[n] \in Graphs
    BY <1>0, <1>5, <2>1, TypeFields
  <2>3. truth' \in [1 .. last + 1 -> Graphs]
    BY <1>2, <1>8, <2>2
  <2>4. truth' \in Seq(Graphs) /\ Len(truth') = last + 1
    BY <1>2, <1>5, <2>3
  <2>5. last + 1 \in 1 .. last + 1 /\ last + 1 > s.lsn
    BY <1>4, <1>5
  <2>6. truth'[last + 1] = g
    BY <1>2, <2>5
  <2> QED
    BY <2>4, <2>6
<1>10. /\ fs \subseteq files \cup filesSynced /\ fs \subseteq Snaps
       /\ \A f, h \in fs : f.lsn = h.lsn => f = h
  BY <1>0, TypeFields DEF Disks
<1>11. \A f \in fs : f.lsn \in Nat /\ f.lsn <= last /\ f.graph \subseteq 1 .. ids
  <2> SUFFICES ASSUME NEW f \in fs
               PROVE  f.lsn \in Nat /\ f.lsn <= last /\ f.graph \subseteq 1 .. ids
    OBVIOUS
  <2>1. f.lsn \in Nat /\ f.lsn <= synced /\ f.graph \subseteq 1 .. ids
    BY <1>0, <1>10, FileLsns DEF Directory
  <2> QED
    BY <1>5, <2>1
<1>12. \A n \in 1 .. last : IF log[n].kind = "commit" THEN log[n].n \in 1 .. ids
                            ELSE log[n].n <= s.lsn
  <2> SUFFICES ASSUME NEW n \in 1 .. last
               PROVE  IF log[n].kind = "commit" THEN log[n].n \in 1 .. ids ELSE log[n].n <= s.lsn
    OBVIOUS
  <2>1. /\ n \in DOMAIN log /\ log[n].n \in Nat
        /\ IF log[n].kind = "commit" THEN log[n].n \in 1 .. ids ELSE log[n].n <= newest_lsn
    BY <1>0, <1>6, RecordFields DEF Order
  <2>2. log[n].kind # "commit" => newest_lsn <= s.lsn
    BY <1>4, <2>1
  <2> QED
    BY <1>4, <1>5, <2>1, <2>2
<1>13. TypeOK'
  <2>1. {c} \subseteq (0 .. MaxLsn) \cup {NoCurrent} /\ 0 \in 0 .. ids /\ last <= MaxLsn
        /\ last \in 0 .. last
    BY <1>0, <1>5 DEF TypeOK
  <2>2. job' \in [Procs -> JobStates]
    BY <1>3, IdleFields
  <2>3. /\ Nobody \in Procs \cup {Nobody} /\ FALSE \in BOOLEAN
        /\ base \in 1 .. MaxLsn + 1 /\ ids \in 0 .. MaxIds /\ jobs \in 0 .. MaxJobs /\ ext \in Snaps
    BY <1>0 DEF TypeOK
  <2>4. log' \in Seq(Records) /\ Len(log') <= MaxLsn /\ synced' \in 0 .. Len(log')
    BY <1>2, <1>6, <2>1
  <2>5. poisoned' \in BOOLEAN
    BY <1>3
  <2> QED
    BY <1>2, <1>3, <1>4, <1>6, <1>8, <1>9, <1>10, <2>1, <2>2, <2>3, <2>4, <2>5 DEF TypeOK
<1>14. Locks'
  <2>1. \A p \in Procs : job'[p] = Idle
    BY <1>3
  <2> QED
    BY <1>3, <2>1, IdleFields DEF Locks, Pc, Procs, Nobody, Stamped, Named, Current, Covered
<1>15. Order'
  <2>1. \A m, n \in 1 .. last : m < n /\ log[m].kind = "marker" /\ log[n].kind = "marker"
                                => log[m].n <= log[n].n
    BY <1>0, <1>6 DEF Order
  <2> QED
    BY <1>2, <1>3, <1>4, <1>5, <1>6, <1>8, <1>9, <1>12, <2>1 DEF Order
<1>16. Directory'
  <2>1. IF c = NoCurrent
        THEN base = 1 /\ \A n \in 1 .. last : log[n].kind = "commit"
        ELSE s.lsn <= c /\ \E f \in fs : f.lsn = c
    <3>1. CASE c = NoCurrent
      <4>1. base = 1
        BY <1>0, <3>1 DEF Directory
      <4> QED
        BY <1>4, <1>6, <3>1, <4>1
    <3>2. CASE c # NoCurrent
      BY <1>4, <3>2
    <3> QED
      BY <3>1, <3>2
  <2>2. \A d \in {cur', curSynced'} : d = c
    BY <1>2
  <2>3. IF c = NoCurrent
        THEN base' = 1 /\ \A n \in DOMAIN log' : log'[n].kind = "commit"
        ELSE /\ newest_lsn' <= c
             /\ (\E f \in files' : f.lsn = c) /\ (\E f \in filesSynced' : f.lsn = c)
    BY <1>2, <1>3, <1>6, <2>1
  <2>4. /\ \A f \in files' \cup filesSynced' : f.lsn <= synced' /\ f.graph \subseteq 1 .. ids'
        /\ \A f, h \in files' : f.lsn = h.lsn => f = h
        /\ \A f, h \in filesSynced' : f.lsn = h.lsn => f = h
    BY <1>2, <1>3, <1>10, <1>11
  <2> QED
    BY <2>2, <2>3, <2>4 DEF Directory
<1>17. Good(s)'
  <2>1. Recovered(s, last)' = g
    BY <1>4, <1>7, <1>g DEF Recovered
  <2>2. Commits(s.lsn, last)' \cap s.graph = {}
    BY <1>2, <1>4, <1>7 DEF Replays
  <2>3. last .. last = {last}
    BY <1>5
  <2> QED
    BY <1>2, <1>5, <1>6, <1>9, <2>1, <2>2, <2>3 DEF Good
<1>18. Loadable'
  <2>1. c # NoCurrent => \A f \in fs : f.lsn = c => f = s
    BY <1>4
  <2>2. ASSUME c = NoCurrent, NEW f \in fs, \A e, h \in fs : e.lsn = h.lsn => e.lsn <= f.lsn
        PROVE  f = s
    <3>1. s \in fs
      BY <1>4
    <3>2. s.lsn <= f.lsn /\ f.lsn <= s.lsn
      BY <1>4, <2>2, <3>1
    <3>3. f.lsn = s.lsn
      BY <1>4, <1>11, <3>2
    <3> QED
      BY <1>4, <3>3
  <2>3. ASSUME \A e, h \in fs : e.lsn # h.lsn
        PROVE  NoSnap = s
    BY <1>4, <2>3
  <2> QED
    BY <1>2, <1>17, <2>1, <2>2, <2>3 DEF Loadable
<1>19. Jobs' /\ Restoring'
  <2>1. \A p \in Procs : job'[p] = Idle
    BY <1>3
  <2>2. \A p \in Procs : JobOk(p)'
    BY <2>1, IdleFields, FreshJob DEF Pc, Stamped, Named, Current, Covered
  <2>3. Restoring'
    BY <1>3, <2>1, IdleFields DEF Restoring, Procs
  <2> QED
    BY <2>2, <2>3 DEF Jobs
<1> QED
  BY <1>13, <1>14, <1>15, <1>16, <1>18, <1>19 DEF CheckpointInv

-----------------------------------------------------------------------------
(* The invariant.                                                          *)

\* A step in which neither checkpoint goes on to where Late matters.
LEMMA LateKept ==
  ASSUME Late,
         \/ Pc("client")' \notin Stamped \/ Pc("behind")' # "lock"
         \/ /\ Pc("client") \in Stamped /\ Pc("behind") = "lock"
            /\ job'["client"].lsn = job["client"].lsn /\ job'["behind"].lsn = job["behind"].lsn
  PROVE  Late'
BY DEF Late

\* A checkpoint that goes on to another step, and one that ends.
LEMMA LateMoves ==
  ASSUME TypeOK, Late, NEW p \in Procs, Pc(p) \in Stamped, NEW k \in JobStates,
         job' = [job EXCEPT ![p] = k],
         k = Idle \/ (k.pc \in Stamped /\ k.lsn = job[p].lsn)
  PROVE  Late'
<1>1. job'[p] = k /\ \A q \in Procs : q # p => job'[q] = job[q]
  BY TypeFields, JobSet
<1>2. CASE p = "client"
  <2>1. job'["behind"] = job["behind"] /\ job'["client"] = k
    BY <1>1, <1>2 DEF Procs
  <2>2. CASE k = Idle
    BY <2>1, <2>2, IdleFields DEF Late, Pc, Stamped, Named, Current, Covered
  <2>3. CASE k.pc \in Stamped /\ k.lsn = job[p].lsn
    BY <1>2, <2>1, <2>3 DEF Late, Pc
  <2> QED
    BY <2>2, <2>3
<1>3. CASE p = "behind"
  <2>1. job'["behind"] = k /\ k.pc # "lock"
    BY <1>1, <1>3, IdleFields DEF Stamped, Named, Current, Covered
  <2> QED
    BY <2>1 DEF Late, Pc
<1> QED
  BY <1>2, <1>3 DEF Procs

LEMMA LateSteps ==
  ASSUME CheckpointInv, Late, NEW p \in Procs, Step(p)
  PROVE  Late'
<1>0. TypeOK /\ Locks
  BY DEF CheckpointInv
<1>1. job[p] \in JobStates
  BY <1>0, FileLsns
<1>2. ASSUME Pc(p) \in Stamped, NEW pc \in Stamped, GoTo(p, pc) PROVE Late'
  <2>k. PICK k : k = [job[p] EXCEPT !.pc = pc]
    OBVIOUS
  <2>1. pc \in Pcs
    BY DEF Pcs, Stamped, Named, Current, Covered
  <2>2. k \in JobStates /\ k.pc = pc /\ k.lsn = job[p].lsn
    BY <1>1, <2>1, <2>k, JobMoved
  <2>3. job' = [job EXCEPT ![p] = k]
    BY <1>2, <2>k DEF GoTo
  <2> QED
    BY <1>0, <1>2, <2>2, <2>3, LateMoves
<1>3. ASSUME Pc(p) \in Stamped, Unlock(p) PROVE Late'
  <2>1. job' = [job EXCEPT ![p] = Idle]
    BY <1>3 DEF Unlock
  <2> QED
    BY <1>0, <1>3, <2>1, IdleFields, LateMoves
<1>4. /\ \A broken : Abort(p, broken) => Unlock(p)
      /\ Refused(p) => Unlock(p)
      /\ Fails(p) => Unlock(p)
      /\ Done(p) => Unlock(p)
  BY DEF Refused, Fails, Abort, Done
<1>5. CASE Lock(p)
  <2>1. Pc(p) = "lock"
    BY <1>5 DEF Lock, At, Pc
  <2>2. CASE Unlock(p)
    <3>1. job'[p] = Idle
      BY <1>0, <2>2, TypeFields DEF Unlock
    <3> QED
      BY <3>1, IdleFields DEF Late, Pc, Procs, Stamped, Named, Current, Covered
  <2>3. CASE GoTo(p, IF p = "behind" THEN "rename" ELSE "fsync")
    <3>1. "rename" \in Pcs /\ "fsync" \in Pcs
      BY DEF Pcs
    <3>2. job'[p].pc = IF p = "behind" THEN "rename" ELSE "fsync"
      BY <1>0, <2>3, <3>1, TypeFields, GoToFacts
    <3> QED
      BY <3>2 DEF Late, Pc, Procs, Stamped, Named, Current, Covered
  <2> QED
    BY <1>5, <2>2, <2>3 DEF Lock
<1>6. CASE Rename(p)
  <2>1. Pc(p) = "rename" /\ Pc(p) \in Stamped /\ job[p].kind # "to"
    BY <1>0, <1>6 DEF Rename, At, Pc, Stamped, Locks
  <2>2. CASE job' = [job EXCEPT ![p].pc = "syncdir", ![p].installed = TRUE]
    <3>k. PICK k : k = [job[p] EXCEPT !.pc = "syncdir", !.installed = TRUE]
      OBVIOUS
    <3>1. k \in JobStates /\ k.pc = "syncdir" /\ k.lsn = job[p].lsn
      BY <1>1, <3>k, JobNamed
    <3>2. job' = [job EXCEPT ![p] = k] /\ "syncdir" \in Stamped
      BY <1>0, <2>2, <3>k, TypeFields DEF Stamped, Named
    <3> QED
      BY <1>0, <2>1, <3>1, <3>2, LateMoves
  <2>3. CASE Fails(p)
    BY <1>3, <1>4, <2>1, <2>3
  <2> QED
    BY <1>6, <2>1, <2>2, <2>3 DEF Rename
<1>7. CASE sync_dir(p)
  BY <1>2, <1>3, <1>4, <1>7 DEF sync_dir, At, Pc, Stamped, Named, Current, Covered
<1>8. CASE write_current(p)
  BY <1>2, <1>3, <1>4, <1>8 DEF write_current, At, Pc, Stamped, Named, Current, Covered
<1>9. CASE Installed(p)
  BY <1>2, <1>3, <1>4, <1>9 DEF Installed, At, Pc, Stamped, Named, Current, Covered
<1>10. CASE checkpoint_marker(p)
  BY <1>2, <1>3, <1>4, <1>10 DEF checkpoint_marker, At, Pc, Stamped, Named, Current, Covered
<1>11. CASE Fsync2(p)
  BY <1>2, <1>3, <1>4, <1>11 DEF Fsync2, At, Pc, Stamped, Named, Current, Covered
<1>12. CASE truncate_up_to(p)
  BY <1>2, <1>3, <1>4, <1>12 DEF truncate_up_to, At, Pc, Stamped, Named, Current, Covered
<1>13. CASE prune_old_snapshots(p)
  BY <1>3, <1>4, <1>13 DEF prune_old_snapshots, At, Pc, Stamped, Named, Current, Covered
<1> QED
  BY <1>5, <1>6, <1>7, <1>8, <1>9, <1>10, <1>11, <1>12, <1>13 DEF Step

\* A client's snapshot is stamped with the end of the log, which nothing that
\* is on storage is past.
LEMMA LateFsync ==
  ASSUME CheckpointInv, Late, Fsync
  PROVE  Late'
<1>0. TypeOK /\ Locks /\ Jobs
  BY DEF CheckpointInv
<1>1. CASE Refused("client")
  <2>1. job'["client"] = Idle
    BY <1>0, <1>1, TypeFields DEF Refused, Abort, Unlock, Procs
  <2> QED
    BY <2>1, IdleFields, LateKept DEF Pc, Stamped, Named, Current, Covered
<1>2. CASE ~Refused("client")
  <2>n. PICK g : g = IF job["client"].kind = "restore" THEN {ids + 1} ELSE live
    OBVIOUS
  <2>l. PICK l : l = Len(log)
    OBVIOUS
  <2>k. PICK k : k = [job["client"] EXCEPT !.pc = "rename", !.lsn = l, !.graph = g]
    OBVIOUS
  <2>1. job' = [job EXCEPT !["client"] = k]
    BY <1>2, <2>k, <2>l, <2>n DEF Fsync
  <2>2. job'["client"] = k /\ job'["behind"] = job["behind"]
    BY <1>0, <2>1, TypeFields DEF Procs
  <2>3. k.lsn = l
    BY <1>0, <2>k, FileLsns DEF Procs, JobStates
  <2>4. ASSUME Pc("behind") = "lock" PROVE job["behind"].lsn <= l
    <3>1. job["behind"].lsn <= synced
      BY <1>0, <2>4 DEF Jobs, JobOk, Procs
    <3>2. job["behind"].lsn \in Nat /\ synced \in Nat /\ l \in Nat /\ synced <= l
      BY <1>0, <2>l, FileLsns, TypeFields DEF Procs
    <3> QED
      BY <3>1, <3>2
  <2> QED
    BY <2>2, <2>3, <2>4 DEF Late, Pc
<1> QED
  BY <1>1, <1>2

LEMMA LateOthers ==
  ASSUME CheckpointInv, Late,
         \/ commit \/ (\E kind \in {"managed", "restore", "to"} : Start(kind))
         \/ on_growth \/ Take \/ CrashAndOpen
  PROVE  Late'
<1>0. TypeOK /\ Locks
  BY DEF CheckpointInv
<1>1. CASE commit
  <2>1. CASE job' = job
    BY <2>1 DEF Late, Pc
  <2>2. CASE job' = [job EXCEPT !["client"] = [Idle EXCEPT !.pc = "fsync", !.kind = "observed"]]
    <3>1. job'["client"] = [Idle EXCEPT !.pc = "fsync", !.kind = "observed"]
      BY <1>0, <2>2, TypeFields DEF Procs
    <3>2. job'["client"].pc = "fsync"
      BY <3>1 DEF Idle
    <3> QED
      BY <3>2, LateKept DEF Pc, Stamped, Named, Current, Covered
  <2> QED
    BY <1>1, <2>1, <2>2 DEF commit
<1>2. ASSUME NEW kind \in {"managed", "restore", "to"}, Start(kind)
      PROVE  Late'
  <2>1. PICK pc \in {"fsync", "lock"} :
          job' = [job EXCEPT !["client"] = [Idle EXCEPT !.pc = pc, !.kind = kind]]
    BY <1>2 DEF Start
  <2>2. job'["client"] = [Idle EXCEPT !.pc = pc, !.kind = kind]
    BY <1>0, <2>1, TypeFields DEF Procs
  <2>3. job'["client"].pc = pc
    BY <2>2 DEF Idle
  <2> QED
    BY <2>3, LateKept DEF Pc, Stamped, Named, Current, Covered
<1>3. CASE on_growth
  <2>1. job'["behind"] = [Idle EXCEPT !.pc = "take", !.kind = "managed"]
    BY <1>0, <1>3, TypeFields DEF on_growth, Procs
  <2>2. job'["behind"].pc = "take"
    BY <2>1 DEF Idle
  <2> QED
    BY <2>2, LateKept DEF Pc
<1>4. CASE Take
  <2>1. Pc("client") = "idle" /\ job["client"] = Idle
    BY <1>0, <1>4 DEF Take, Locks, Procs
  <2>2. job'["client"] = job["client"]
    BY <1>0, <1>4, TypeFields DEF Take, Refused, Abort, Unlock, Procs
  <2> QED
    BY <2>1, <2>2, LateKept DEF Pc, Stamped, Named, Current, Covered
<1>5. CASE CrashAndOpen
  <2>1. job'["client"] = Idle
    BY <1>5 DEF CrashAndOpen, Procs
  <2> QED
    BY <2>1, IdleFields, LateKept DEF Pc, Stamped, Named, Current, Covered
<1> QED
  BY <1>1, <1>2, <1>3, <1>4, <1>5

LEMMA InitInv ==
  ASSUME Init
  PROVE  CheckpointInv /\ Late
<1>1. /\ log = <<>> /\ synced = 0 /\ base = 1 /\ poisoned = FALSE
      /\ live = {} /\ ids = 0 /\ jobs = 0
      /\ files = {} /\ filesSynced = {} /\ cur = NoCurrent /\ curSynced = NoCurrent /\ ext = NoSnap
      /\ writer = Nobody /\ newest = Nobody /\ newest_lsn = 0 /\ count = 0
      /\ truth = <<{}>> /\ maybe = {} /\ \A p \in Procs : job[p] = Idle
      /\ job = [p \in Procs |-> Idle]
  BY DEF Init
<1>2. Len(log) = 0 /\ DOMAIN log = {} /\ Len(truth) = 1 /\ truth[1] = {}
  BY <1>1
<1>3. TypeOK
  <2>1. /\ {} \in Graphs /\ 0 \in 0 .. MaxLsn /\ 0 \in 0 .. MaxIds /\ 0 \in 0 .. MaxJobs
        /\ 1 \in 1 .. MaxLsn + 1 /\ MaxLsn \in Nat
    BY ManagedCheckpointAssumption DEF Graphs
  <2>2. truth \in Seq(Graphs) /\ log \in Seq(Records)
    BY <1>1, <2>1
  <2>3. job \in [Procs -> JobStates] /\ ext \in Snaps
    BY <1>1, IdleFields
  <2>4. synced \in 0 .. Len(log) /\ Len(log) <= MaxLsn /\ count \in 0 .. ids
    BY <1>1, <1>2, <2>1
  <2>5. /\ synced \in 0 .. Len(log) /\ base \in 1 .. MaxLsn + 1 /\ poisoned \in BOOLEAN
        /\ live \in Graphs /\ ids \in 0 .. MaxIds /\ jobs \in 0 .. MaxJobs
    BY <1>1, <2>1, <2>4
  <2>6. /\ files \subseteq Snaps /\ filesSynced \subseteq Snaps /\ maybe \subseteq Snaps
        /\ {cur, curSynced} \subseteq (0 .. MaxLsn) \cup {NoCurrent}
        /\ writer \in Procs \cup {Nobody} /\ newest \in Procs \cup {Nobody}
    BY <1>1
  <2>7. newest_lsn \in 0 .. MaxLsn /\ Len(truth) = Len(log) + 1
    BY <1>1, <1>2, <2>1
  <2> QED
    BY <2>2, <2>3, <2>4, <2>5, <2>6, <2>7 DEF TypeOK
<1>4. Locks
  BY <1>1, IdleFields DEF Locks, Pc, Procs, Nobody, Stamped, Named, Current, Covered
<1>5. Order
  BY <1>1, <1>2 DEF Order
<1>6. Directory
  BY <1>1, <1>2 DEF Directory
<1>7. Loadable
  <2>1. Commits(0, 0) = {}
    BY DEF Commits
  <2>2. Good(NoSnap)
    <3>1. 0 .. 0 = {0} /\ NoSnap.lsn = 0 /\ NoSnap.graph = {}
      BY IdleFields
    <3>2. Recovered(NoSnap, 0) = {}
      BY <2>1, <3>1 DEF Recovered
    <3>z. 0 + 1 = 1
      OBVIOUS
    <3>3. Recovered(NoSnap, 0) = truth[0 + 1]
      BY ONLY <1>2, <3>2, <3>z
    <3>4. synced .. Len(log) = {0} /\ NoSnap.lsn <= synced
      BY <1>1, <1>2, <3>1
    <3>5. Commits(NoSnap.lsn, Len(log)) = {}
      BY <1>2, <2>1, <3>1
    <3> QED
      BY <3>3, <3>4, <3>5 DEF Good
  <2> QED
    BY <1>1, <2>2 DEF Loadable
<1>8. Jobs
  BY <1>1, IdleFields DEF Jobs, JobOk, Pc, Stamped, Named, Current, Covered
<1>9. Restoring
  BY <1>1, IdleFields DEF Restoring, Procs
<1>10. Late
  BY <1>1, IdleFields DEF Late, Procs, Pc, Stamped, Named, Current, Covered
<1> QED
  BY <1>3, <1>4, <1>5, <1>6, <1>7, <1>8, <1>9, <1>10 DEF CheckpointInv

LEMMA NextInv ==
  ASSUME CheckpointInv, Late, "to" \notin Ops, Next
  PROVE  CheckpointInv' /\ Late'
<1>1. CASE commit
  BY <1>1, CommitInv, LateOthers
<1>2. CASE \E kind \in {"managed", "restore", "to"} : Start(kind)
  BY <1>2, StartInv, LateOthers
<1>3. CASE on_growth
  BY <1>3, OnGrowthInv, LateOthers
<1>4. CASE Take
  BY <1>4, TakeInv, LateOthers
<1>5. CASE Fsync
  BY <1>5, FsyncInv, LateFsync
<1>6. CASE \E p \in Procs : Step(p)
  <2>1. PICK p \in Procs : Step(p)
    BY <1>6
  <2>2. CheckpointInv'
    BY <2>1, LockInv, RenameInv, SyncDirInv, WriteCurrentInv, InstalledInv, MarkerInv, Fsync2Inv,
       TruncateInv, PruneInv DEF Step
  <2> QED
    BY <2>1, <2>2, LateSteps
<1>7. CASE CrashAndOpen
  BY <1>7, CrashInv, LateOthers
<1> QED
  BY <1>1, <1>2, <1>3, <1>4, <1>5, <1>6, <1>7 DEF Next

LEMMA StutterInv ==
  ASSUME CheckpointInv, Late, UNCHANGED vars
  PROVE  CheckpointInv' /\ Late'
<1>1. UNCHANGED <<log, synced, base, poisoned, live, ids, jobs, files, filesSynced, cur, curSynced,
                  ext, writer, newest, newest_lsn, count, job, truth, maybe>>
  BY DEF vars
<1>2. TypeOK' /\ Locks' /\ Order' /\ Directory' /\ Restoring' /\ Late'
  BY <1>1 DEF CheckpointInv, TypeOK, Locks, Order, Directory, Restoring, Late, Pc, JobSnap
<1>3. TypeOK /\ Loadable /\ Jobs
  BY DEF CheckpointInv
<1>4. synced \in synced .. Len(log) /\ ids \in Nat
  BY <1>3, TypeFields
<1>5. Loadable'
  BY <1>1, <1>3, <1>4, LoadableKept
<1>6. Jobs'
  BY <1>1, <1>3, <1>4, JobKept DEF Jobs
<1> QED
  BY <1>2, <1>5, <1>6 DEF CheckpointInv

\* However commits, managed checkpoints, restores, their failures and crashes
\* follow one another, while no checkpoint_to writes a snapshot of its own and
\* truncates the log (snapshot/mod.rs:454), the WAL and the snapshot directory
\* keep to the invariant.
THEOREM CheckpointInvHolds ==
  ASSUME "to" \notin Ops
  PROVE  Spec => [](CheckpointInv /\ Late)
<1>1. Init => CheckpointInv /\ Late
  BY InitInv
<1>2. (CheckpointInv /\ Late) /\ [Next]_vars => (CheckpointInv /\ Late)'
  BY NextInv, StutterInv
<1> QED
  BY <1>1, <1>2, PTL DEF Spec

\* Whenever the process dies, the next open succeeds, and finds the commits
\* that reached storage, or a whole restore that was under way.
THEOREM RecoversDurableHolds ==
  ASSUME "to" \notin Ops
  PROVE  Spec => []RecoversDurable
<1>1. CheckpointInv => RecoversDurable
  BY CheckpointInvSafe
<1> QED
  BY <1>1, CheckpointInvHolds, PTL
=============================================================================
