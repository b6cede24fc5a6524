------------------------- MODULE NamedArchiveProofs -------------------------
(***************************************************************************)
(* What a named database recovers, for every number of commits, restores,  *)
(* checkpoints, forced persists, crashes and power losses, when a power    *)
(* loss takes only what no one synced: no "lost_entry", "lost_rename" or   *)
(* "lost_tail" in Ops, each of which the code does let a power loss take.  *)
(***************************************************************************)
EXTENDS NamedArchiveInv, TLAPS

-----------------------------------------------------------------------------
(* Graphs, copies and jobs.                                                *)

LEMMA GraphFields ==
  ASSUME NEW k, NEW n
  PROVE  Graph(k, n).k = k /\ Graph(k, n).n = n
BY DEF Graph

LEMMA GraphIs ==
  ASSUME NEW g \in Graphs
  PROVE  g = Graph(g.k, g.n) /\ g.k \in 0 .. MaxRestores /\ g.n \in 0 .. MaxCommits
         /\ g.k \in Nat /\ g.n \in Nat
BY NamedArchiveAssumption DEF Graphs, Graph

LEMMA GraphIn ==
  ASSUME NEW k \in 0 .. MaxRestores, NEW n \in 0 .. MaxCommits
  PROVE  Graph(k, n) \in Graphs
BY DEF Graphs, Graph

LEMMA NoGraphIs == NoGraph \in Graphs /\ NoGraph.k = 0 /\ NoGraph.n = 0
BY NamedArchiveAssumption DEF NoGraph, Graphs, Graph

\* Graphs are ordered by the restore, then by the LSN.
LEMMA BeforeIs ==
  ASSUME NEW g \in Graphs, NEW h \in Graphs
  PROVE  /\ Before(g, h) <=> (g.k < h.k \/ (g.k = h.k /\ g.n <= h.n))
         /\ Before(g, h) \/ Before(h, g)
BY GraphIs DEF Before

LEMMA BeforeTrans ==
  ASSUME NEW f \in Graphs, NEW g \in Graphs, NEW h \in Graphs, Before(f, g), Before(g, h)
  PROVE  Before(f, h)
BY GraphIs DEF Before

LEMMA BeforeSelf ==
  ASSUME NEW g \in Graphs
  PROVE  Before(g, g) /\ Before(NoGraph, g)
BY GraphIs, NoGraphIs DEF Before

LEMMA LatestIs ==
  ASSUME NEW f \in Graphs, NEW g \in Graphs
  PROVE  /\ Latest(f, g) \in {f, g}
         /\ Before(f, Latest(f, g)) /\ Before(g, Latest(f, g))
BY BeforeIs, BeforeSelf DEF Latest

LEMMA CopyFields ==
  ASSUME NEW s, NEW lo, NEW hi
  PROVE  Copy(s, lo, hi).snap = s /\ Copy(s, lo, hi).first = lo /\ Copy(s, lo, hi).end = hi
BY DEF Copy

LEMMA CopyIn ==
  ASSUME NEW s \in Graphs, NEW lo \in 1 .. MaxCommits + 1, NEW hi \in -1 .. MaxCommits
  PROVE  Copy(s, lo, hi) \in Copies
BY DEF Copy, Copies

LEMMA CopyIs ==
  ASSUME NEW c \in Copies
  PROVE  c.snap \in Graphs /\ c.first \in 1 .. MaxCommits + 1 /\ c.end \in -1 .. MaxCommits
         /\ c.first \in Nat /\ c.end \in Int
BY NamedArchiveAssumption DEF Copies

LEMMA NoBoxIs == NoBox \in Copies /\ NoBox.end = -1
<1>1. 1 \in 1 .. MaxCommits + 1 /\ -1 \in -1 .. MaxCommits
  BY NamedArchiveAssumption
<1> QED
  BY <1>1, NoGraphIs, CopyIn, CopyFields DEF NoBox

\* A snapshot with a WAL that reaches beyond it rebuilds the WAL's last LSN.
LEMMA RebuiltIs ==
  ASSUME NEW c \in Copies, c.snap.n <= c.end
  PROVE  Rebuilt(c) = Graph(c.snap.k, c.end) /\ Rebuilt(c) \in Graphs
<1>1. c.snap \in Graphs /\ c.end \in Int /\ c.end \in -1 .. MaxCommits
  BY CopyIs
<1>2. c.snap = Graph(c.snap.k, c.snap.n) /\ c.snap.n \in Nat /\ c.snap.k \in 0 .. MaxRestores
  BY <1>1, GraphIs
<1>3. Larger(c.snap.n, c.end) = c.end
  BY <1>1, <1>2 DEF Larger
<1>4. Rebuilt(c) = [c.snap EXCEPT !.n = c.end]
  BY <1>3 DEF Rebuilt
<1>5. [c.snap EXCEPT !.n = c.end] = Graph(c.snap.k, c.end)
  BY <1>2 DEF Graph
<1>6. c.end \in 0 .. MaxCommits
  BY <1>1, <1>2, NamedArchiveAssumption
<1> QED
  BY <1>2, <1>4, <1>5, <1>6, GraphIn

LEMMA JobIs ==
  ASSUME NEW j \in Jobs
  PROVE  j.graph \in Graphs /\ j.copy \in Copies
BY DEF Jobs

LEMMA IdleIs ==
  Idle \in Jobs /\ Idle.pc = "idle" /\ Idle.kind = "none"
BY NoGraphIs, NoBoxIs DEF Idle, Jobs

\* A writer at its next step.
LEMMA JobMoved ==
  ASSUME job \in [Writers -> Jobs], NEW p \in Writers,
         NEW pc \in {"idle", "lock", "staged"} \cup Installing \cup Writing, GoTo(p, pc)
  PROVE  /\ job' \in [Writers -> Jobs]
         /\ job'[p].pc = pc /\ job'[p].kind = job[p].kind
         /\ job'[p].graph = job[p].graph /\ job'[p].copy = job[p].copy
         /\ \A q \in Writers \ {p} : job'[q] = job[q]
<1> DEFINE j == [job[p] EXCEPT !.pc = pc]
<1>1. job[p] \in Jobs
  OBVIOUS
<1>2. j = [pc |-> pc, kind |-> job[p].kind, graph |-> job[p].graph, copy |-> job[p].copy]
  BY <1>1 DEF Jobs
<1>3. j \in Jobs
  BY <1>1, <1>2 DEF Jobs
<1>4. job' = [job EXCEPT ![p] = j]
  BY DEF GoTo
<1>5. j.pc = pc /\ j.kind = job[p].kind /\ j.graph = job[p].graph /\ j.copy = job[p].copy
  BY <1>2
<1> HIDE DEF j
<1> QED
  BY <1>3, <1>4, <1>5

LEMMA JobSet ==
  ASSUME job \in [Writers -> Jobs], NEW p \in Writers, NEW j \in Jobs,
         job' = [job EXCEPT ![p] = j]
  PROVE  /\ job' \in [Writers -> Jobs] /\ job'[p] = j
         /\ \A q \in Writers \ {p} : job'[q] = job[q]
OBVIOUS

\* A writer that begins with the graph it captured.
Begun(pc, kind, g) == [Idle EXCEPT !.pc = pc, !.kind = kind, !.graph = g]
LEMMA JobBegun ==
  ASSUME NEW pc \in {"staged", "write"}, NEW kind \in {"sync", "restore", "forced"},
         NEW g \in Graphs
  PROVE  /\ Begun(pc, kind, g) \in Jobs /\ Begun(pc, kind, g).pc = pc
         /\ Begun(pc, kind, g).kind = kind /\ Begun(pc, kind, g).graph = g
<1>1. PICK i : i = Idle
  OBVIOUS
<1>2. PICK k : k = [i EXCEPT !.pc = pc, !.kind = kind, !.graph = g]
  OBVIOUS
<1>3. k = [pc |-> pc, kind |-> kind, graph |-> g, copy |-> i.copy]
  BY <1>1, <1>2, IdleIs DEF Jobs
<1>4. k \in Jobs /\ k.pc = pc /\ k.kind = kind /\ k.graph = g
  BY <1>1, <1>3, IdleIs DEF Jobs, Writing
<1> QED
  BY <1>1, <1>2, <1>4 DEF Begun

\* A writer with more of its copy.
Copied(j, pc, c) == [j EXCEPT !.pc = pc, !.copy = c]
LEMMA JobCopied ==
  ASSUME NEW j \in Jobs, NEW c \in Copies, NEW pc \in {"segments", "replace"}
  PROVE  /\ Copied(j, pc, c) \in Jobs
         /\ Copied(j, pc, c).pc = pc /\ Copied(j, pc, c).kind = j.kind
         /\ Copied(j, pc, c).graph = j.graph /\ Copied(j, pc, c).copy = c
<1>1. PICK k : k = [j EXCEPT !.pc = pc, !.copy = c]
  OBVIOUS
<1>2. k = [pc |-> pc, kind |-> j.kind, graph |-> j.graph, copy |-> c]
  BY <1>1 DEF Jobs
<1>3. k \in Jobs /\ k.pc = pc /\ k.kind = j.kind /\ k.graph = j.graph /\ k.copy = c
  BY <1>2 DEF Jobs, Writing
<1> QED
  BY <1>1, <1>3 DEF Copied

\* A writer that is done, or has failed, lets go of what it held.
LEMMA Released ==
  ASSUME job \in [Writers -> Jobs], NEW p \in Writers, Release(p)
  PROVE  /\ job' \in [Writers -> Jobs] /\ job'[p] = Idle
         /\ job'[p].pc = "idle" /\ job'[p].kind = "none"
         /\ \A q \in Writers \ {p} : job'[q] = job[q]
BY JobSet, IdleIs DEF Release

\* What the type invariant says of the parts.
LEMMA Types ==
  ASSUME TypeOK
  PROVE  /\ snap \in Graphs /\ snapSynced \in Graphs /\ live \in Graphs
         /\ promised \in Graphs /\ saved \in Graphs /\ kept \subseteq lived
         /\ first \in Nat /\ end \in Nat /\ endSynced \in Nat /\ durable_lsn \in Nat
         /\ firstSynced \in Nat /\ firstSynced <= first /\ endSynced <= end
         /\ first >= 1 /\ first <= MaxCommits + 1 /\ end <= MaxCommits /\ restores \in 0 .. MaxRestores
         /\ box \in Copies /\ boxSynced \in Copies
         /\ job \in [Writers -> Jobs]
         /\ \A p \in Writers : job[p] \in Jobs /\ job[p].graph \in Graphs /\ job[p].copy \in Copies
<1>1. \A j \in Jobs : j.graph \in Graphs /\ j.copy \in Copies
  BY JobIs
<1> QED
  BY <1>1, NamedArchiveAssumption DEF TypeOK

-----------------------------------------------------------------------------
(* A step that leaves alone what a part of the invariant is about.         *)

LEMMA HeldSame ==
  ASSUME Held, UNCHANGED <<job, write_lock, writer>>
  PROVE  Held'
BY DEF Held

LEMMA AtRestSame ==
  ASSUME AtRest, UNCHANGED <<phase, job, writer, write_lock, dirty, failure, poisoned>>
  PROVE  AtRest'
BY DEF AtRest

LEMMA WorkWholeSame ==
  ASSUME WorkWhole,
         UNCHANGED <<first, snapSynced, snap, endSynced, end, restores, kept, promised, saved>>
  PROVE  WorkWhole'
BY DEF WorkWhole

LEMMA WorkEntrySame ==
  ASSUME WorkEntry, UNCHANGED <<work, workSynced, phase, box, boxSynced, promised, kept>>
  PROVE  WorkEntry'
BY DEF WorkEntry

\* With a WAL in the work directory, the container may change.
LEMMA WorkEntryWal ==
  ASSUME WorkEntry, phase \in {"up", "closing"}, work = "wal",
         UNCHANGED <<work, phase>>, workSynced' \in {work, workSynced}
  PROVE  WorkEntry'
BY DEF WorkEntry

LEMMA LiveIsNewestSame ==
  ASSUME LiveIsNewest,
         UNCHANGED <<phase, live, end, kept, promised, snapSynced, durable_lsn, endSynced, snap,
                     poisoned, job>>
  PROVE  LiveIsNewest'
BY DEF LiveIsNewest

LEMMA CheckpointGraphSame ==
  ASSUME CheckpointGraph,
         UNCHANGED <<live, snap, kept, endSynced, restores, end, snapSynced>>,
         job'["checkpoint"] = job["checkpoint"]
  PROVE  CheckpointGraph'
BY DEF CheckpointGraph

LEMMA ForcedGraphSame ==
  ASSUME ForcedGraph, UNCHANGED <<live, endSynced, end, snap>>, job'["forced"] = job["forced"]
  PROVE  ForcedGraph'
BY DEF ForcedGraph

LEMMA WholeSame ==
  ASSUME NEW c, Whole(c), lived \subseteq lived', saved' = saved
  PROVE  Whole(c)'
BY DEF Whole

LEMMA CopyWholeSame ==
  ASSUME CopyWhole, UNCHANGED <<job, snap, saved, box>>, lived \subseteq lived'
  PROVE  CopyWhole'
BY DEF CopyWhole, Whole

LEMMA BoxWholeSame ==
  ASSUME BoxWhole, UNCHANGED <<box, boxSynced, saved>>, lived \subseteq lived'
  PROVE  BoxWhole'
BY DEF BoxWhole, Whole

LEMMA ClosesFullSame ==
  ASSUME ClosesFull,
         UNCHANGED <<phase, job, endSynced, end, failure, dirty, box, boxSynced, work, snap>>
  PROVE  ClosesFull'
BY DEF ClosesFull, WorkerReturned, Full, At

\* Nothing but the close is said of a database that does not close.
LEMMA NotClosing ==
  ASSUME phase' # "closing"
  PROVE  ClosesFull'
BY DEF ClosesFull

\* A database with a job at work is open.
LEMMA Open ==
  ASSUME TypeOK, AtRest, NEW p \in Writers, job[p].pc # "idle"
  PROVE  phase \in {"up", "closing"}
BY IdleIs DEF AtRest, TypeOK

\* A checkpoint or a forced persist keeps the database from closing.
LEMMA OpenUp ==
  ASSUME TypeOK, AtRest, WorkEntry, ClosesFull, NEW p \in {"checkpoint", "forced"}, job[p].pc # "idle"
  PROVE  phase = "up" /\ work = "wal"
<1>1. phase \in {"up", "closing"}
  BY Open DEF Writers
<1>2. phase # "closing"
  BY DEF ClosesFull
<1> QED
  BY <1>1, <1>2 DEF WorkEntry, TypeOK

-----------------------------------------------------------------------------
(* The first state, and the open.                                          *)

LEMMA InitHolds == Init => ArchiveInv
<1> SUFFICES ASSUME Init PROVE ArchiveInv
  OBVIOUS
<1>1. /\ NoGraph \in Graphs /\ NoGraph.k = 0 /\ NoGraph.n = 0 /\ NoBox \in Copies
      /\ Idle \in Jobs /\ Idle.pc = "idle" /\ Idle.kind = "none"
      /\ Before(NoGraph, NoGraph) /\ Graph(0, 0) = NoGraph
  BY NoGraphIs, NoBoxIs, IdleIs, BeforeSelf DEF NoGraph
<1>2. job \in [Writers -> Jobs] /\ \A p \in Writers : job[p] = Idle
  BY <1>1 DEF Init
<1>3. TypeOK
  <2>1. /\ {snap, snapSynced, live, promised, saved} \subseteq Graphs
        /\ lived \subseteq Graphs /\ kept \subseteq lived /\ {box, boxSynced} \subseteq Copies
    BY <1>1 DEF Init
  <2>2. /\ {dirty, failure, poisoned} \subseteq BOOLEAN
        /\ {writer, write_lock} \subseteq Writers \cup {Nobody}
    BY DEF Init
  <2>3. /\ firstSynced \in 1 .. first /\ first \in 1 .. MaxCommits + 1
        /\ endSynced \in 0 .. end /\ end \in 0 .. MaxCommits /\ durable_lsn \in 0 .. MaxCommits
        /\ jobs \in 0 .. MaxJobs /\ restores \in 0 .. MaxRestores /\ stops \in 0 .. MaxStops
    BY NamedArchiveAssumption DEF Init
  <2> QED
    BY <1>2, <2>1, <2>2, <2>3 DEF Init, TypeOK
<1>4. Held
  BY <1>1, <1>2 DEF Init, Held, Writers, Nobody, Installing, Writing
<1>5. WorkWhole
  BY <1>1 DEF Init, WorkWhole
<1>6. CheckpointGraph /\ ForcedGraph /\ CopyWhole
  BY <1>1, <1>2 DEF CheckpointGraph, ForcedGraph, CopyWhole, Writers, Writing
<1>7. AtRest /\ WorkEntry /\ LiveIsNewest /\ BoxWhole /\ ClosesFull
  BY DEF Init, AtRest, WorkEntry, LiveIsNewest, BoxWhole, ClosesFull
<1> QED
  BY <1>3, <1>4, <1>5, <1>6, <1>7 DEF ArchiveInv

LEMMA PrepareHolds ==
  ASSUME ArchiveInv, Prepare, "lost_entry" \notin Ops
  PROVE  ArchiveInv'
<1>1. TypeOK /\ Held /\ AtRest /\ WorkWhole /\ WorkEntry /\ BoxWhole
  BY DEF ArchiveInv
<1>2. /\ phase = "down" /\ phase' = "prepared"
      /\ UNCHANGED <<durable_lsn, container, live, archive, poisoned, writer, job, counts, history>>
  BY DEF Prepare
<1>3. UNCHANGED <<box, boxSynced, live, dirty, failure, write_lock, poisoned, writer, job,
                  jobs, restores, stops, lived, kept, promised, saved, durable_lsn>>
  BY <1>2 DEF container, archive, counts, history
<1>4. \A p \in Writers : job[p] = Idle
  BY <1>1, <1>2 DEF AtRest
<1>5. Held' /\ AtRest' /\ LiveIsNewest' /\ ClosesFull' /\ BoxWhole'
  <2>1. Held' /\ BoxWhole'
    BY <1>1, <1>3, HeldSame, BoxWholeSame
  <2>2. AtRest'
    BY <1>1, <1>2, <1>3 DEF AtRest
  <2> QED
    BY <1>2, <2>1, <2>2 DEF LiveIsNewest, ClosesFull
<1>6. CheckpointGraph' /\ ForcedGraph' /\ CopyWhole'
  BY <1>3, <1>4, IdleIs DEF CheckpointGraph, ForcedGraph, CopyWhole, Writers, Writing
<1>7. CASE work = "wal" /\ UNCHANGED <<dir, first, firstSynced, end, endSynced>>
  <2>1. UNCHANGED <<work, workSynced, snap, snapSynced, first, firstSynced, end, endSynced>>
    BY <1>7 DEF dir
  <2>2. TypeOK'
    BY <1>1, <1>2, <1>3, <2>1 DEF TypeOK
  <2>3. WorkWhole'
    BY <1>1, <1>3, <2>1, WorkWholeSame
  <2>4. WorkEntry'
    BY <1>1, <1>7, <2>1 DEF WorkEntry
  <2> QED
    BY <1>5, <1>6, <2>2, <2>3, <2>4 DEF ArchiveInv
<1>8. CASE /\ work # "wal" /\ box # NoBox
           /\ work' = "wal" /\ workSynced' = "wal"
           /\ snap' = box.snap /\ snapSynced' = box.snap
           /\ first' = box.first /\ firstSynced' = box.first
           /\ end' = box.end /\ endSynced' = box.end
  <2>1. /\ Whole(box) /\ box \in Copies /\ box.snap \in Graphs
        /\ Rebuilt(box) \in kept /\ Before(promised, Rebuilt(box))
    BY <1>1, <1>8, Types, CopyIs DEF BoxWhole, WorkEntry
  <2>2. /\ box.first \in 1 .. MaxCommits + 1 /\ box.end \in -1 .. MaxCommits
        /\ box.snap.n \in Nat /\ box.snap.n <= box.end /\ box.first <= box.snap.n + 1
        /\ Rebuilt(box) = Graph(box.snap.k, box.end)
    BY <2>1, CopyIs, GraphIs, RebuiltIs DEF Whole
  <2>3. box.end \in 0 .. MaxCommits /\ box.snap.k \in Nat
    BY <2>1, <2>2, GraphIs, NamedArchiveAssumption
  <2>4. TypeOK'
    <3>1. /\ {work', workSynced'} \subseteq {"none", "dir", "wal"}
          /\ {snap', snapSynced', live', promised', saved'} \subseteq Graphs
          /\ firstSynced' \in 1 .. first' /\ first' \in 1 .. MaxCommits + 1
          /\ endSynced' \in 0 .. end' /\ end' \in 0 .. MaxCommits
      BY <1>1, <1>3, <1>8, <2>1, <2>2, <2>3, Types, NamedArchiveAssumption
    <3> QED
      BY <1>1, <1>2, <1>3, <3>1 DEF TypeOK
  <2>5. WorkWhole'
    BY <1>1, <1>3, <1>8, <2>1, <2>2, <2>3 DEF WorkWhole
  <2>6. WorkEntry'
    BY <1>8 DEF WorkEntry
  <2> QED
    BY <1>5, <1>6, <2>4, <2>5, <2>6 DEF ArchiveInv
<1>9. CASE /\ work # "wal" /\ box = NoBox
           /\ work' = "dir"
           /\ workSynced' = IF "lost_entry" \in Ops THEN workSynced ELSE "dir"
           /\ snap' = NoGraph /\ snapSynced' = NoGraph
           /\ first' = 1 /\ firstSynced' = 1 /\ end' = 0 /\ endSynced' = 0
  <2>1. workSynced' = "dir"
    BY <1>9, "lost_entry" \notin Ops
  <2>2. promised = NoGraph /\ boxSynced = NoBox
    BY <1>1, <1>9 DEF WorkEntry
  <2>3. TypeOK'
    BY <1>1, <1>2, <1>3, <1>9, <2>1, NoGraphIs, NamedArchiveAssumption DEF TypeOK
  <2>4. WorkWhole'
    <3>1. Graph(0, 0) = NoGraph /\ Before(NoGraph, NoGraph) /\ NoGraph.k = 0 /\ NoGraph.n = 0
          /\ NoGraph \in kept /\ Before(saved, promised) /\ \A g \in kept : g.k <= restores
      BY <1>1, NoGraphIs, BeforeSelf DEF WorkWhole, NoGraph
    <3>2. \A n \in 0 .. 0 : n = 0
      OBVIOUS
    <3> QED
      BY <1>3, <1>9, <2>2, <3>1, <3>2 DEF WorkWhole
  <2>5. WorkEntry'
    BY <1>2, <1>3, <1>9, <2>1, <2>2 DEF WorkEntry
  <2> QED
    BY <1>5, <1>6, <2>3, <2>4, <2>5 DEF ArchiveInv
<1> QED
  BY <1>7, <1>8, <1>9 DEF Prepare

\* What an open, or a power loss, makes of the work directory.
LEMMA WorkRebuilt ==
  ASSUME TypeOK, WorkWhole
  PROVE  /\ Rebuilt(Copy(snap, first, end)) = Graph(snap.k, end)
         /\ Graph(snap.k, end) \in kept /\ Graph(snap.k, end) \in Graphs
         /\ Before(promised, Graph(snap.k, end))
<1>1. /\ snap \in Graphs /\ snapSynced \in Graphs /\ promised \in Graphs
      /\ end \in 0 .. MaxCommits /\ first \in 1 .. MaxCommits + 1
      /\ endSynced \in Nat /\ endSynced <= end /\ kept \subseteq Graphs
  BY Types DEF TypeOK
<1>2. end \in -1 .. MaxCommits
  BY <1>1
<1>3. PICK c : c = Copy(snap, first, end)
  OBVIOUS
<1>4. c \in Copies /\ c.snap = snap /\ c.end = end
  BY <1>1, <1>2, <1>3, CopyIn, CopyFields
<1>5. Rebuilt(c) = Graph(snap.k, end)
  BY <1>1, <1>4, GraphIs, RebuiltIs DEF WorkWhole
<1>6. Graph(snap.k, end) \in kept
  BY <1>1 DEF WorkWhole
<1>7. Before(promised, Graph(snap.k, end))
  BY <1>1, GraphIs, GraphFields DEF WorkWhole, Before
<1> QED
  BY <1>1, <1>3, <1>5, <1>6, <1>7

LEMMA OpenWalHolds ==
  ASSUME ArchiveInv, OpenWal, "lost_rename" \notin Ops, "lost_tail" \notin Ops
  PROVE  ArchiveInv'
<1>1. TypeOK /\ Held /\ AtRest /\ WorkWhole /\ WorkEntry /\ BoxWhole
  BY DEF ArchiveInv
<1>2. PICK g : g = Graph(snap.k, end)
  OBVIOUS
<1>3. /\ g \in kept /\ g \in Graphs /\ Before(promised, g) /\ g.k = snap.k /\ g.n = end
      /\ Rebuilt(Copy(snap, first, end)) = g
  BY <1>1, <1>2, WorkRebuilt, GraphFields
<1>4. /\ phase = "prepared" /\ phase' = "up" /\ work' = "wal"
      /\ live' = g /\ durable_lsn' = end /\ kept' = {h \in kept : Before(h, g)}
      /\ dirty' = TRUE /\ failure' = FALSE /\ snapSynced' = snap /\ endSynced' = end
      /\ UNCHANGED <<snap, first, firstSynced, end, box, boxSynced, write_lock,
                     poisoned, writer, job, jobs, restores, stops, lived, promised, saved>>
  BY <1>3, "lost_rename" \notin Ops, "lost_tail" \notin Ops DEF OpenWal, container, counts
<1>5. work \in {"wal", "dir"} /\ workSynced' = "wal"
  BY <1>1, <1>4 DEF TypeOK, WorkEntry, OpenWal
<1>6. \A p \in Writers : job[p] = Idle
  BY <1>1, <1>4 DEF AtRest
<1>7. /\ snap \in Graphs /\ snapSynced \in Graphs /\ promised \in Graphs /\ end \in Nat
      /\ endSynced \in Nat /\ endSynced <= end /\ end \in 0 .. MaxCommits /\ first \in Nat
      /\ snap.k \in Nat /\ snap.n \in Nat /\ snapSynced.k \in Nat /\ snapSynced.n \in Nat
  BY <1>1, Types, GraphIs DEF TypeOK
<1>8. g \in kept' /\ NoGraph \in kept' /\ kept' \subseteq kept
  BY <1>1, <1>3, <1>4, BeforeSelf DEF WorkWhole
<1>9. TypeOK'
  <2>1. {work', workSynced'} \subseteq {"none", "dir", "wal"} /\ {dirty', failure', poisoned'} \subseteq BOOLEAN
    BY <1>1, <1>4, <1>5 DEF TypeOK
  <2>2. firstSynced' \in 1 .. first' /\ endSynced' \in 0 .. end' /\ kept' \subseteq lived'
    BY <1>1, <1>4, <1>7, <1>8 DEF TypeOK
  <2> QED
    BY <1>1, <1>3, <1>4, <1>7, <2>1, <2>2 DEF TypeOK
<1>10. Held' /\ BoxWhole'
  BY <1>1, <1>4, HeldSame, BoxWholeSame
<1>11. AtRest' /\ WorkEntry' /\ ClosesFull'
  BY <1>4, <1>5 DEF AtRest, WorkEntry, ClosesFull
<1>12. WorkWhole'
  <2>1. snap.n <= end /\ first <= snap.n + 1 /\ (\A h \in kept' : h.k <= restores)
        /\ Before(saved, promised)
    BY <1>1, <1>7, <1>8 DEF WorkWhole
  <2>2. \A n \in end .. end : Graph(snap.k, n) \in kept'
    BY <1>2, <1>7, <1>8
  <2> QED
    BY <1>2, <1>3, <1>4, <1>7, <1>8, <2>1, <2>2 DEF WorkWhole
<1>13. LiveIsNewest'
  BY <1>3, <1>4, <1>7, <1>8 DEF LiveIsNewest
<1>14. CheckpointGraph' /\ ForcedGraph' /\ CopyWhole'
  BY <1>4, <1>6, IdleIs DEF CheckpointGraph, ForcedGraph, CopyWhole, Writers, Writing
<1> QED
  BY <1>9, <1>10, <1>11, <1>12, <1>13, <1>14 DEF ArchiveInv

-----------------------------------------------------------------------------
(* Commits and fsyncs.                                                     *)

\* While nobody holds the writer mutex of an archive that takes writes, the
\* published graph is the work directory's.
LEMMA Settled ==
  ASSUME ArchiveInv, phase = "up", writer = Nobody, ~ poisoned
  PROVE  /\ live.k = snap.k /\ snapSynced.k = snap.k /\ live.n = end
         /\ job["checkpoint"].kind # "restore" /\ job["forced"].kind = "none"
         /\ work = "wal"
<1>1. TypeOK /\ Held /\ WorkWhole /\ WorkEntry /\ LiveIsNewest
  BY DEF ArchiveInv
<1>2. job["checkpoint"].kind # "restore" /\ job["forced"].kind = "none"
  BY <1>1 DEF Held, Nobody
<1>3. live.k = snap.k /\ live.k <= snapSynced.k /\ snapSynced.k <= snap.k /\ live.n = end
  BY <1>1, <1>2 DEF LiveIsNewest, WorkWhole
<1>4. live.k \in Nat /\ snapSynced.k \in Nat /\ snap.k \in Nat
  BY <1>1, Types, GraphIs
<1>5. work = "wal"
  BY <1>1 DEF WorkEntry, TypeOK
<1> QED
  BY <1>2, <1>3, <1>4, <1>5

LEMMA FsyncedIs ==
  ASSUME TypeOK, LiveIsNewest, phase = "up", Fsynced
  PROVE  endSynced' = end /\ durable_lsn' = end
<1>1. durable_lsn \in Nat /\ end \in Nat /\ durable_lsn <= end /\ (durable_lsn = end => endSynced = end)
  BY Types DEF LiveIsNewest
<1> QED
  BY <1>1 DEF Fsynced, Larger

\* Fsyncing keeps what is said of the files and of the published graph.
LEMMA FsyncedWhole ==
  ASSUME TypeOK, WorkWhole, endSynced' = end,
         UNCHANGED <<first, snap, snapSynced, end, restores, kept, promised, saved>>
  PROVE  WorkWhole'
<1>1. /\ endSynced \in Nat /\ end \in Nat /\ endSynced <= end
      /\ snap \in Graphs /\ snapSynced \in Graphs /\ promised \in Graphs
      /\ snap.n \in Nat /\ snapSynced.k \in Nat /\ snapSynced.n \in Nat
  BY Types, GraphIs
<1>2. snap.n <= end /\ \A n \in end .. end : n \in endSynced .. end
  BY <1>1 DEF WorkWhole
<1>3. Before(promised, Graph(snapSynced.k, end))
  BY <1>1, GraphIs, GraphFields DEF WorkWhole, Before
<1> QED
  BY <1>1, <1>2, <1>3 DEF WorkWhole

LEMMA CommitHolds ==
  ASSUME ArchiveInv, Commit
  PROVE  ArchiveInv'
<1>1. /\ TypeOK /\ Held /\ AtRest /\ WorkWhole /\ WorkEntry /\ LiveIsNewest /\ CheckpointGraph
      /\ CopyWhole /\ BoxWhole
  BY DEF ArchiveInv
<1>2. /\ phase = "up" /\ writer = Nobody /\ ~ poisoned /\ live.n < MaxCommits
      /\ live' = Graph(live.k, live.n + 1) /\ end' = live.n + 1
      /\ lived' = lived \cup {live'} /\ kept' = kept \cup {live'}
      /\ UNCHANGED <<phase, work, workSynced, snap, snapSynced, first, firstSynced, endSynced,
                     durable_lsn, box, boxSynced, dirty, failure, write_lock, poisoned, writer,
                     job, jobs, restores, stops, promised, saved>>
  BY DEF Commit, Publish, dir, container, archive, counts
<1>3. /\ live.k = snap.k /\ snapSynced.k = snap.k /\ live.n = end
      /\ job["checkpoint"].kind # "restore" /\ job["forced"].kind = "none" /\ work = "wal"
  BY <1>2, Settled
<1>4. /\ end \in Nat /\ endSynced \in Nat /\ endSynced <= end /\ live \in Graphs /\ first \in Nat
      /\ durable_lsn \in Nat /\ live.k \in 0 .. MaxRestores /\ live.k \in Nat /\ end + 1 \in 0 .. MaxCommits
  <2>1. /\ end \in Nat /\ endSynced \in Nat /\ endSynced <= end /\ live \in Graphs /\ first \in Nat
        /\ durable_lsn \in Nat
    BY <1>1, Types
  <2>2. end + 1 \in 0 .. MaxCommits
    BY <1>2, <1>3, <2>1, NamedArchiveAssumption
  <2> QED
    BY <2>1, <2>2, GraphIs
<1>5. live' \in Graphs /\ live'.k = live.k /\ live'.n = end + 1 /\ Before(live, live')
  BY <1>2, <1>3, <1>4, GraphIn, GraphFields, BeforeIs
<1>6. TypeOK'
  <2>1. endSynced' \in 0 .. end' /\ end' \in 0 .. MaxCommits /\ firstSynced' \in 1 .. first'
    BY <1>1, <1>2, <1>3, <1>4 DEF TypeOK
  <2>2. lived' \subseteq Graphs /\ kept' \subseteq lived'
    BY <1>1, <1>2, <1>5 DEF TypeOK
  <2> QED
    BY <1>1, <1>2, <1>5, <2>1, <2>2 DEF TypeOK
<1>7. Held' /\ AtRest' /\ WorkEntry' /\ CopyWhole' /\ BoxWhole' /\ ClosesFull'
  <2>1. Held' /\ AtRest' /\ CopyWhole' /\ BoxWhole'
    BY <1>1, <1>2, HeldSame, AtRestSame, CopyWholeSame, BoxWholeSame
  <2>2. WorkEntry' /\ ClosesFull'
    BY <1>1, <1>2, <1>3, WorkEntryWal, NotClosing
  <2> QED
    BY <2>1, <2>2
<1>8. WorkWhole'
  <2>1. \A n \in endSynced .. end + 1 :
          Graph(snapSynced.k, n) \in kept' /\ Graph(snap.k, n) \in kept'
    <3>1. \A n \in endSynced .. end + 1 : n \in endSynced .. end \/ n = end + 1
      BY <1>4
    <3> QED
      BY <1>1, <1>2, <1>3, <3>1 DEF WorkWhole
  <2>2. \A g \in kept' : g.k <= restores
    <3>1. live \in kept
      BY <1>1, <1>2 DEF LiveIsNewest
    <3> QED
      BY <1>1, <1>2, <1>5, <3>1 DEF WorkWhole
  <2>3. ~(snapSynced.k < snap.k)
    BY <1>3, <1>4
  <2> QED
    BY <1>1, <1>2, <1>3, <2>1, <2>2, <2>3 DEF WorkWhole
<1>9. LiveIsNewest'
  <2>1. Before(promised, live')
    BY <1>1, <1>2, <1>4, <1>5, Types, BeforeTrans DEF LiveIsNewest
  <2>2. durable_lsn <= end
    BY <1>1, <1>2 DEF LiveIsNewest
  <2> QED
    BY <1>2, <1>3, <1>4, <1>5, <2>1, <2>2 DEF LiveIsNewest
<1>10. CheckpointGraph'
  BY <1>1, <1>2, <1>3, <1>5 DEF CheckpointGraph
<1>11. ForcedGraph'
  BY <1>2, <1>3 DEF ForcedGraph
<1> QED
  BY <1>6, <1>7, <1>8, <1>9, <1>10, <1>11 DEF ArchiveInv

LEMMA force_fsync_wal_onlyHolds ==
  ASSUME ArchiveInv, force_fsync_wal_only
  PROVE  ArchiveInv'
<1>1. /\ TypeOK /\ Held /\ AtRest /\ WorkWhole /\ WorkEntry /\ LiveIsNewest /\ CheckpointGraph
      /\ CopyWhole /\ BoxWhole
  BY DEF ArchiveInv
<1>2. /\ phase = "up" /\ writer = Nobody /\ ~ poisoned /\ Fsynced
      /\ promised' = Latest(promised, OnStorage)
      /\ UNCHANGED <<phase, work, workSynced, snap, snapSynced, first, firstSynced, end, box,
                     boxSynced, live, dirty, failure, write_lock, poisoned, writer, job, jobs,
                     restores, stops, lived, kept, saved>>
  BY DEF force_fsync_wal_only, dir, container, archive, counts
<1>3. /\ live.k = snap.k /\ snapSynced.k = snap.k /\ live.n = end
      /\ job["checkpoint"].kind # "restore" /\ job["forced"].kind = "none" /\ work = "wal"
  BY <1>1, <1>2, Settled
<1>4. endSynced' = end /\ durable_lsn' = end
  BY <1>1, <1>2, FsyncedIs
<1>5. /\ end \in Nat /\ endSynced \in Nat /\ endSynced <= end /\ live \in Graphs
      /\ snapSynced \in Graphs /\ snapSynced.n \in Nat /\ snapSynced.k \in Nat /\ snap.n \in Nat
      /\ promised \in Graphs /\ saved \in Graphs
  BY <1>1, Types, GraphIs
<1>6. live = Graph(snapSynced.k, end) /\ live = Graph(snap.k, end)
  BY <1>3, <1>5, GraphIs
<1>7. OnStorage = live
  <2>1. Larger(snapSynced.n, endSynced') = end
    BY <1>1, <1>4, <1>5 DEF WorkWhole, Larger
  <2>2. [live EXCEPT !.n = end] = live
    BY <1>3, <1>5 DEF Graphs
  <2> QED
    BY <2>1, <2>2 DEF OnStorage
<1>8. promised' = live /\ Before(saved, live) /\ Before(live, live)
  <2>1. Before(promised, live) /\ Before(saved, promised)
    BY <1>1, <1>2 DEF LiveIsNewest, WorkWhole
  <2>2. promised' = live
    BY <1>2, <1>7, <2>1 DEF Latest
  <2> QED
    BY <1>5, <2>1, <2>2, BeforeTrans, BeforeSelf
<1>9. TypeOK'
  <2>1. endSynced' \in 0 .. end' /\ durable_lsn' \in 0 .. MaxCommits
    BY <1>1, <1>2, <1>4, <1>5 DEF TypeOK
  <2> QED
    BY <1>1, <1>2, <1>5, <1>8, <2>1 DEF TypeOK
<1>10. Held' /\ AtRest' /\ WorkEntry' /\ CopyWhole' /\ BoxWhole' /\ ClosesFull'
  <2>1. Held' /\ AtRest' /\ CopyWhole' /\ BoxWhole'
    BY <1>1, <1>2, HeldSame, AtRestSame, CopyWholeSame, BoxWholeSame
  <2>2. WorkEntry' /\ ClosesFull'
    BY <1>1, <1>2, <1>3, WorkEntryWal, NotClosing
  <2> QED
    BY <2>1, <2>2
<1>11. WorkWhole'
  <2>1. snap.n <= end /\ \A n \in end .. end : n \in endSynced .. end
    BY <1>1, <1>5 DEF WorkWhole
  <2> QED
    BY <1>1, <1>2, <1>4, <1>6, <1>8, <2>1 DEF WorkWhole
<1>12. LiveIsNewest'
  BY <1>1, <1>2, <1>4, <1>5, <1>8 DEF LiveIsNewest
<1>13. CheckpointGraph' /\ ForcedGraph'
  <2>1. job["checkpoint"].graph.n \in Nat
    BY <1>1, Types, GraphIs DEF Writers
  <2> QED
    BY <1>1, <1>2, <1>3, <1>4, <1>5, <2>1 DEF CheckpointGraph, ForcedGraph
<1> QED
  BY <1>9, <1>10, <1>11, <1>12, <1>13 DEF ArchiveInv

-----------------------------------------------------------------------------
(* Checkpoints and restores.                                               *)

\* A writer that copies nothing yet, or no longer, leaves the others' copies.
LEMMA CopyWholeOthers ==
  ASSUME CopyWhole, NEW p \in Writers, \A q \in Writers \ {p} : job'[q] = job[q],
         job'[p].pc \notin {"segments", "replace", "sync_parent"},
         UNCHANGED <<snap, saved, box>>, lived \subseteq lived'
  PROVE  CopyWhole'
BY DEF CopyWhole, Whole

\* The one who holds write_lock is alone with the container.
LEMMA Alone ==
  ASSUME Held, NEW p \in Writers, NEW q \in Writers \ {p}, job[p].pc \in Installing \cup Writing
  PROVE  job[q].pc \notin Installing \cup Writing
BY DEF Held

LEMMA CaptureHolds ==
  ASSUME ArchiveInv, Capture
  PROVE  ArchiveInv'
<1>1. /\ TypeOK /\ Held /\ AtRest /\ WorkWhole /\ WorkEntry /\ LiveIsNewest
      /\ CopyWhole /\ BoxWhole
  BY DEF ArchiveInv
<1>2. /\ phase = "up" /\ job["checkpoint"].pc = "idle" /\ writer = Nobody /\ ~ poisoned /\ Fsynced
      /\ jobs < MaxJobs /\ jobs' = jobs + 1
      /\ job' = [job EXCEPT !["checkpoint"] = Begun("staged", "sync", live)]
      /\ UNCHANGED <<phase, work, workSynced, snap, snapSynced, first, firstSynced, end, box,
                     boxSynced, live, dirty, failure, write_lock, poisoned, writer,
                     restores, stops, lived, kept, promised, saved>>
  BY DEF Capture, At, NewJob, Begun, dir, container, archive, history
<1>3. /\ live.k = snap.k /\ snapSynced.k = snap.k /\ live.n = end
      /\ job["checkpoint"].kind # "restore" /\ job["forced"].kind = "none" /\ work = "wal"
  BY <1>1, <1>2, Settled DEF ArchiveInv
<1>4. endSynced' = end /\ durable_lsn' = end
  BY <1>1, <1>2, FsyncedIs
<1>5. end \in Nat /\ endSynced \in Nat /\ endSynced <= end /\ live \in Graphs /\ snap.n \in Nat
  BY <1>1, Types, GraphIs
<1>6. PICK j : j = Begun("staged", "sync", live)
  OBVIOUS
<1>7. j \in Jobs /\ j.pc = "staged" /\ j.kind = "sync" /\ j.graph = live
  BY <1>5, <1>6, JobBegun
<1>8. /\ job' \in [Writers -> Jobs] /\ job'["checkpoint"] = j
      /\ \A q \in Writers \ {"checkpoint"} : job'[q] = job[q]
      /\ "checkpoint" \in Writers /\ job'["forced"] = job["forced"] /\ job'["worker"] = job["worker"]
  BY <1>1, <1>2, <1>6, <1>7, Types, JobSet DEF Writers
<1>9. TypeOK'
  <2>1. endSynced' \in 0 .. end' /\ durable_lsn' \in 0 .. MaxCommits /\ jobs' \in 0 .. MaxJobs
    BY <1>1, <1>2, <1>4, <1>5, NamedArchiveAssumption DEF TypeOK
  <2> QED
    BY <1>1, <1>2, <1>8, <2>1 DEF TypeOK
<1>10. Held'
  BY <1>1, <1>2, <1>3, <1>7, <1>8 DEF Held, Installing, Writing, Writers, Nobody
<1>11. AtRest' /\ WorkEntry' /\ CopyWhole' /\ BoxWhole' /\ ClosesFull'
  <2>1. CopyWhole' /\ BoxWhole'
    BY <1>1, <1>2, <1>7, <1>8, CopyWholeOthers, BoxWholeSame
  <2>2. WorkEntry' /\ ClosesFull'
    BY <1>1, <1>2, <1>3, WorkEntryWal, NotClosing
  <2> QED
    BY <1>2, <2>1, <2>2 DEF AtRest
<1>12. WorkWhole'
  BY <1>1, <1>2, <1>4, FsyncedWhole
<1>13. LiveIsNewest'
  BY <1>1, <1>2, <1>3, <1>4, <1>5 DEF LiveIsNewest
<1>14. CheckpointGraph'
  <2>1. live \in kept /\ snap.n <= end
    BY <1>1, <1>2, <1>5 DEF LiveIsNewest, WorkWhole
  <2> QED
    BY <1>2, <1>3, <1>4, <1>5, <1>7, <1>8, <2>1 DEF CheckpointGraph, Writing
<1>15. ForcedGraph'
  BY <1>3, <1>8 DEF ForcedGraph
<1> QED
  BY <1>9, <1>10, <1>11, <1>12, <1>13, <1>14, <1>15 DEF ArchiveInv

LEMMA CaptureRestoreHolds ==
  ASSUME ArchiveInv, CaptureRestore
  PROVE  ArchiveInv'
<1>1. /\ TypeOK /\ Held /\ AtRest /\ WorkWhole /\ WorkEntry /\ LiveIsNewest
      /\ CopyWhole /\ BoxWhole
  BY DEF ArchiveInv
<1>2. PICK g : g = Graph(restores + 1, live.n)
  OBVIOUS
<1>3. /\ phase = "up" /\ job["checkpoint"].pc = "idle" /\ writer = Nobody /\ ~ poisoned /\ Fsynced
      /\ restores < MaxRestores /\ restores' = restores + 1 /\ writer' = "checkpoint"
      /\ job' = [job EXCEPT !["checkpoint"] = Begun("staged", "restore", g)]
      /\ UNCHANGED <<phase, work, workSynced, snap, snapSynced, first, firstSynced, end, box,
                     boxSynced, live, dirty, failure, write_lock, poisoned,
                     jobs, stops, lived, kept, promised, saved>>
  BY <1>2 DEF CaptureRestore, At, Begun, dir, container, archive, history
<1>4. /\ live.k = snap.k /\ snapSynced.k = snap.k /\ live.n = end
      /\ job["checkpoint"].kind # "restore" /\ job["forced"].kind = "none" /\ work = "wal"
  BY <1>1, <1>3, Settled DEF ArchiveInv
<1>5. endSynced' = end /\ durable_lsn' = end
  BY <1>1, <1>3, FsyncedIs
<1>6. /\ end \in Nat /\ endSynced \in Nat /\ endSynced <= end /\ live \in Graphs /\ snap.n \in Nat
      /\ restores \in Nat /\ live.k \in Nat /\ live.n \in 0 .. MaxCommits
      /\ restores + 1 \in 0 .. MaxRestores
  BY <1>1, <1>3, Types, GraphIs, NamedArchiveAssumption
<1>7. live.k <= restores /\ snap.n <= end
  <2>1. live \in kept /\ \A h \in kept : h.k <= restores
    BY <1>1, <1>3 DEF LiveIsNewest, WorkWhole
  <2>2. snap.n <= end
    BY <1>1, <1>6 DEF WorkWhole
  <2> QED
    BY <2>1, <2>2
<1>8. g \in Graphs /\ g.k = restores + 1 /\ g.n = end
  BY <1>2, <1>4, <1>6, GraphIn, GraphFields
<1>9. PICK j : j = Begun("staged", "restore", g)
  OBVIOUS
<1>10. j \in Jobs /\ j.pc = "staged" /\ j.kind = "restore" /\ j.graph = g
  BY <1>8, <1>9, JobBegun
<1>11. /\ job' \in [Writers -> Jobs] /\ job'["checkpoint"] = j
       /\ \A q \in Writers \ {"checkpoint"} : job'[q] = job[q]
       /\ "checkpoint" \in Writers /\ job'["forced"] = job["forced"] /\ job'["worker"] = job["worker"]
  BY <1>1, <1>3, <1>9, <1>10, Types, JobSet DEF Writers
<1>12. TypeOK'
  <2>1. endSynced' \in 0 .. end' /\ durable_lsn' \in 0 .. MaxCommits /\ restores' \in 0 .. MaxRestores
    BY <1>1, <1>3, <1>5, <1>6 DEF TypeOK
  <2>2. {writer', write_lock'} \subseteq Writers \cup {Nobody}
    BY <1>1, <1>3, <1>11 DEF TypeOK
  <2> QED
    BY <1>1, <1>3, <1>11, <2>1, <2>2 DEF TypeOK
<1>13. Held'
  BY <1>1, <1>3, <1>4, <1>10, <1>11 DEF Held, Installing, Writing, Writers, Nobody
<1>14. AtRest' /\ WorkEntry' /\ CopyWhole' /\ BoxWhole' /\ ClosesFull'
  <2>1. CopyWhole' /\ BoxWhole'
    BY <1>1, <1>3, <1>10, <1>11, CopyWholeOthers, BoxWholeSame
  <2>2. WorkEntry' /\ ClosesFull'
    BY <1>1, <1>3, <1>4, WorkEntryWal, NotClosing
  <2> QED
    BY <1>3, <2>1, <2>2 DEF AtRest
<1>15. WorkWhole'
  <2>1. PICK r : r = restores
    OBVIOUS
  <2>2. \A h \in kept : h.k <= r + 1
    <3>1. \A h \in kept : h.k \in Nat /\ h.k <= r
      BY <1>1, <2>1, GraphIs DEF WorkWhole, TypeOK
    <3> QED
      BY <1>6, <2>1, <3>1
  <2>3. snap.n <= end /\ \A n \in end .. end : n \in endSynced .. end
    BY <1>6, <1>7
  <2>4. Before(promised, Graph(snapSynced.k, end))
    <3>1. Graph(snapSynced.k, end) = live
      BY <1>4, <1>6, GraphIs
    <3> QED
      BY <1>1, <1>3, <3>1 DEF LiveIsNewest
  <2> QED
    BY <1>1, <1>3, <1>5, <2>1, <2>2, <2>3, <2>4 DEF WorkWhole
<1>16. LiveIsNewest'
  BY <1>1, <1>3, <1>4, <1>5, <1>6 DEF LiveIsNewest
<1>17. CheckpointGraph'
  BY <1>3, <1>4, <1>5, <1>6, <1>7, <1>8, <1>10, <1>11 DEF CheckpointGraph, Writing
<1>18. ForcedGraph'
  BY <1>4, <1>11 DEF ForcedGraph
<1> QED
  BY <1>12, <1>13, <1>14, <1>15, <1>16, <1>17, <1>18 DEF ArchiveInv

\* The checkpoint at its next step: what its locks allow stays true.
LEMMA CheckpointMoves ==
  ASSUME TypeOK, Held, AtRest, WorkEntry, ClosesFull,
         NEW pc \in Installing \cup Writing, GoTo("checkpoint", pc),
         job["checkpoint"].pc \in {"staged"} \cup Installing \cup Writing,
         write_lock' = "checkpoint", write_lock \in {Nobody, "checkpoint"},
         UNCHANGED <<phase, writer>>
  PROVE  /\ phase = "up" /\ phase' = "up" /\ work = "wal" /\ Held' /\ AtRest' /\ ClosesFull'
         /\ job' \in [Writers -> Jobs] /\ job["forced"].kind = "none"
         /\ "checkpoint" \in Writers /\ \A q \in Writers \ {"checkpoint"} : job'[q] = job[q]
         /\ \A q \in Writers \ {"checkpoint"} : job[q].pc \notin Installing \cup Writing
         /\ job'["forced"] = job["forced"] /\ job'["worker"] = job["worker"]
         /\ job'["checkpoint"].pc = pc /\ job'["checkpoint"].kind = job["checkpoint"].kind
         /\ job'["checkpoint"].graph = job["checkpoint"].graph
<1>1. job["checkpoint"].pc # "idle" /\ "checkpoint" \in Writers /\ "forced" \in Writers /\ "worker" \in Writers
  BY DEF Installing, Writing, Writers
<1>2. phase = "up" /\ work = "wal"
  BY <1>1, OpenUp
<1>3. /\ job' \in [Writers -> Jobs] /\ \A q \in Writers \ {"checkpoint"} : job'[q] = job[q]
      /\ job'["checkpoint"].pc = pc /\ job'["checkpoint"].kind = job["checkpoint"].kind
      /\ job'["checkpoint"].graph = job["checkpoint"].graph
      /\ job'["forced"] = job["forced"] /\ job'["worker"] = job["worker"]
  BY <1>1, Types, JobMoved
<1>4. \A q \in Writers \ {"checkpoint"} : job[q].pc \notin Installing \cup Writing
  BY <1>1 DEF Held, Nobody, Writers
<1>5. job["forced"].kind = "none"
  BY <1>1, <1>4 DEF Held, Writers
<1>6. Held'
  <2>1. \A p \in Writers : write_lock' = p <=> job'[p].pc \in Installing \cup Writing
    BY <1>1, <1>3, <1>4
  <2>2. pc # "idle"
    BY DEF Installing, Writing
  <2> QED
    BY <1>1, <1>3, <2>1, <2>2 DEF Held
<1>7. AtRest' /\ ClosesFull'
  BY <1>2 DEF AtRest, ClosesFull
<1> QED
  BY <1>1, <1>2, <1>3, <1>4, <1>5, <1>6, <1>7

LEMMA InstallHolds ==
  ASSUME ArchiveInv, Install
  PROVE  ArchiveInv'
<1>1. /\ TypeOK /\ Held /\ AtRest /\ WorkWhole /\ WorkEntry /\ LiveIsNewest /\ CheckpointGraph
      /\ ForcedGraph /\ CopyWhole /\ BoxWhole /\ ClosesFull
  BY DEF ArchiveInv
<1>2. /\ job["checkpoint"].pc = "staged" /\ write_lock = Nobody /\ write_lock' = "checkpoint"
      /\ GoTo("checkpoint", "rename")
      /\ UNCHANGED <<phase, work, workSynced, snap, snapSynced, first, firstSynced, end, endSynced,
                     durable_lsn, box, boxSynced, live, dirty, failure, poisoned, writer,
                     jobs, restores, stops, lived, kept, promised, saved>>
  BY DEF Install, At, dir, wal, container, counts, history
<1>3. /\ phase = "up" /\ phase' = "up" /\ work = "wal" /\ Held' /\ AtRest' /\ ClosesFull'
      /\ job' \in [Writers -> Jobs] /\ "checkpoint" \in Writers
      /\ \A q \in Writers \ {"checkpoint"} : job'[q] = job[q]
      /\ job'["forced"] = job["forced"]
      /\ job'["checkpoint"].pc = "rename" /\ job'["checkpoint"].kind = job["checkpoint"].kind
      /\ job'["checkpoint"].graph = job["checkpoint"].graph
  BY <1>1, <1>2, CheckpointMoves DEF Installing
<1>4. TypeOK'
  BY <1>1, <1>2, <1>3 DEF TypeOK
<1>5. WorkWhole' /\ WorkEntry' /\ CopyWhole' /\ BoxWhole' /\ ForcedGraph'
  <2>1. WorkWhole' /\ WorkEntry'
    BY <1>1, <1>2, WorkWholeSame, WorkEntrySame
  <2>2. CopyWhole' /\ BoxWhole' /\ ForcedGraph'
    BY <1>1, <1>2, <1>3, CopyWholeOthers, BoxWholeSame, ForcedGraphSame
  <2> QED
    BY <2>1, <2>2
<1>6. LiveIsNewest'
  BY <1>1, <1>2, <1>3 DEF LiveIsNewest
<1>7. CheckpointGraph'
  BY <1>1, <1>2, <1>3 DEF CheckpointGraph, Writing
<1> QED
  BY <1>3, <1>4, <1>5, <1>6, <1>7 DEF ArchiveInv

LEMMA ReplaceSnapshotHolds ==
  ASSUME ArchiveInv, ReplaceSnapshot
  PROVE  ArchiveInv'
<1>1. /\ TypeOK /\ Held /\ AtRest /\ WorkWhole /\ WorkEntry /\ LiveIsNewest /\ CheckpointGraph
      /\ ForcedGraph /\ CopyWhole /\ BoxWhole /\ ClosesFull
  BY DEF ArchiveInv
<1>2. PICK g : g = job["checkpoint"].graph
  OBVIOUS
<1>3. /\ job["checkpoint"].pc = "rename" /\ GoTo("checkpoint", "sync_dir")
      /\ snap' = g /\ lived' = lived \cup {g} /\ kept' = kept \cup {g}
      /\ UNCHANGED <<phase, work, workSynced, snapSynced, first, firstSynced, end, endSynced,
                     durable_lsn, box, boxSynced, live, dirty, failure, write_lock, poisoned, writer,
                     jobs, restores, stops, promised, saved>>
  BY <1>2 DEF ReplaceSnapshot, At, wal, archive, container, counts
<1>4. write_lock = "checkpoint"
  BY <1>1, <1>3 DEF Held, Writers, Installing
<1>5. /\ phase = "up" /\ phase' = "up" /\ work = "wal" /\ Held' /\ AtRest' /\ ClosesFull'
      /\ job' \in [Writers -> Jobs] /\ job["forced"].kind = "none" /\ "checkpoint" \in Writers
      /\ \A q \in Writers \ {"checkpoint"} : job'[q] = job[q]
      /\ \A q \in Writers \ {"checkpoint"} : job[q].pc \notin Installing \cup Writing
      /\ job'["forced"] = job["forced"]
      /\ job'["checkpoint"].pc = "sync_dir" /\ job'["checkpoint"].kind = job["checkpoint"].kind
      /\ job'["checkpoint"].graph = g
  BY <1>1, <1>2, <1>3, <1>4, CheckpointMoves DEF Installing
<1>6. /\ g \in Graphs /\ g.k \in Nat /\ g.n \in Nat /\ g = Graph(g.k, g.n)
      /\ snap.k \in Nat /\ snap.n \in Nat /\ snapSynced.k \in Nat /\ snapSynced.n \in Nat
      /\ end \in Nat /\ endSynced \in Nat /\ endSynced <= end /\ live.k \in Nat /\ restores \in Nat
  BY <1>1, <1>2, <1>5, Types, GraphIs
<1>7. snap.n <= g.n /\ g.n <= endSynced /\ snap.k = live.k /\ live.k = snapSynced.k
  <2>1. job["checkpoint"].kind \in {"sync", "restore"}
    BY <1>1, <1>3 DEF Held
  <2>2. snap.n <= g.n /\ g.n <= endSynced /\ snap.k = live.k
    BY <1>1, <1>2, <1>3, <1>6, <2>1 DEF CheckpointGraph
  <2>3. live.k <= snapSynced.k /\ snapSynced.k <= snap.k
    BY <1>1, <1>5 DEF LiveIsNewest, WorkWhole
  <2> QED
    BY <1>6, <2>2, <2>3
<1>8. (g.k = live.k /\ g \in kept) \/ (live.k < g.k /\ g.k <= restores /\ g.n = end /\ endSynced = end
                           /\ job["checkpoint"].kind = "restore")
  <2>1. job["checkpoint"].kind \in {"sync", "restore"}
    BY <1>1, <1>3 DEF Held
  <2> QED
    BY <1>1, <1>2, <2>1 DEF CheckpointGraph
<1>9. TypeOK'
  <2>1. lived' \subseteq Graphs /\ kept' \subseteq lived' /\ {snap', snapSynced', live', promised', saved'} \subseteq Graphs
    BY <1>1, <1>3, <1>6 DEF TypeOK
  <2> QED
    BY <1>1, <1>3, <1>5, <2>1 DEF TypeOK
<1>10. WorkWhole'
  <2>1. \A n \in endSynced .. end : Graph(snapSynced.k, n) \in kept' /\ Graph(g.k, n) \in kept'
    <3>1. \A n \in endSynced .. end : Graph(snapSynced.k, n) \in kept
      BY <1>1 DEF WorkWhole
    <3>2. CASE g.k = live.k
      BY <1>3, <1>7, <3>1, <3>2
    <3>3. CASE g.n = end /\ endSynced = end
      <4>1. \A n \in endSynced .. end : n = g.n
        BY <1>6, <3>3
      <4> QED
        BY <1>3, <1>6, <3>1, <4>1
    <3> QED
      BY <1>8, <3>2, <3>3
  <2>2. \A h \in kept' : h.k <= restores
    BY <1>1, <1>3, <1>8 DEF WorkWhole
  <2>3. snapSynced.k <= g.k /\ (snapSynced.k < g.k => endSynced = end)
    BY <1>6, <1>7, <1>8
  <2>4. snapSynced.n <= g.n
    BY <1>1, <1>6, <1>7 DEF WorkWhole
  <2> QED
    BY <1>1, <1>3, <1>7, <2>1, <2>2, <2>3, <2>4 DEF WorkWhole
<1>11. WorkEntry'
  BY <1>1, <1>3, <1>5, WorkEntryWal
<1>12. LiveIsNewest'
  BY <1>1, <1>3, <1>5, <1>8 DEF LiveIsNewest
<1>13. CheckpointGraph'
  <2>1. kept \subseteq kept' /\ g.k <= restores /\ g \in kept'
    <3>1. \A h \in kept : h.k <= restores
      BY <1>1 DEF WorkWhole
    <3> QED
      BY <1>3, <1>8, <3>1
  <2> QED
    BY <1>1, <1>2, <1>3, <1>5, <1>7, <1>8, <2>1 DEF CheckpointGraph, Writing
<1>14. ForcedGraph' /\ BoxWhole'
  BY <1>1, <1>3, <1>5, BoxWholeSame DEF ForcedGraph
<1>15. CopyWhole'
  BY <1>5 DEF CopyWhole, Writing
<1> QED
  BY <1>5, <1>9, <1>10, <1>11, <1>12, <1>13, <1>14, <1>15 DEF ArchiveInv

LEMMA SyncSnapshotHolds ==
  ASSUME ArchiveInv, SyncSnapshot
  PROVE  ArchiveInv'
<1>1. /\ TypeOK /\ Held /\ AtRest /\ WorkWhole /\ WorkEntry /\ LiveIsNewest /\ CheckpointGraph
      /\ ForcedGraph /\ CopyWhole /\ BoxWhole /\ ClosesFull
  BY DEF ArchiveInv
<1>2. /\ job["checkpoint"].pc = "sync_dir" /\ GoTo("checkpoint", "drop_covered_wal")
      /\ snapSynced' = snap
      /\ UNCHANGED <<phase, work, workSynced, snap, first, firstSynced, end, endSynced,
                     durable_lsn, box, boxSynced, live, dirty, failure, write_lock, poisoned, writer,
                     jobs, restores, stops, lived, kept, promised, saved>>
  BY DEF SyncSnapshot, At, wal, archive, container, counts, history
<1>3. write_lock = "checkpoint"
  BY <1>1, <1>2 DEF Held, Writers, Installing
<1>4. /\ phase = "up" /\ phase' = "up" /\ work = "wal" /\ Held' /\ AtRest' /\ ClosesFull'
      /\ job' \in [Writers -> Jobs] /\ "checkpoint" \in Writers
      /\ \A q \in Writers \ {"checkpoint"} : job'[q] = job[q]
      /\ job'["forced"] = job["forced"]
      /\ job'["checkpoint"].pc = "drop_covered_wal" /\ job'["checkpoint"].kind = job["checkpoint"].kind
      /\ job'["checkpoint"].graph = job["checkpoint"].graph
  BY <1>1, <1>2, <1>3, CheckpointMoves DEF Installing
<1>5. /\ snap \in Graphs /\ snapSynced \in Graphs /\ promised \in Graphs
      /\ snap.k \in Nat /\ snap.n \in Nat /\ snapSynced.k \in Nat /\ snapSynced.n \in Nat
      /\ end \in Nat /\ endSynced \in Nat /\ first \in Nat /\ live.k \in Nat
  BY <1>1, Types, GraphIs
<1>6. TypeOK'
  BY <1>1, <1>2, <1>4 DEF TypeOK
<1>7. WorkWhole'
  <2>1. Before(promised, Graph(snap.k, endSynced))
    <3>1. Before(promised, Graph(snapSynced.k, endSynced)) /\ snapSynced.k <= snap.k
      BY <1>1 DEF WorkWhole
    <3>2. promised.k \in Nat /\ promised.n \in Nat
      BY <1>5, GraphIs
    <3> QED
      BY <1>5, <3>1, <3>2, GraphFields DEF Before
  <2>2. first <= snap.n + 1 /\ snap.n <= snap.n /\ snap.k <= snap.k /\ ~(snap.k < snap.k)
    BY <1>1, <1>5 DEF WorkWhole
  <2> QED
    BY <1>1, <1>2, <2>1, <2>2 DEF WorkWhole
<1>8. WorkEntry' /\ CopyWhole' /\ BoxWhole' /\ ForcedGraph'
  <2>1. WorkEntry' /\ BoxWhole' /\ ForcedGraph'
    BY <1>1, <1>2, <1>4, WorkEntrySame, BoxWholeSame, ForcedGraphSame
  <2>2. CopyWhole'
    BY <1>1, <1>2, <1>4, CopyWholeOthers
  <2> QED
    BY <2>1, <2>2
<1>9. LiveIsNewest'
  <2>1. live.k <= snap.k
    BY <1>1, <1>4, <1>5 DEF LiveIsNewest, WorkWhole
  <2> QED
    BY <1>1, <1>2, <1>4, <2>1 DEF LiveIsNewest
<1>10. CheckpointGraph'
  BY <1>1, <1>2, <1>4 DEF CheckpointGraph, Writing
<1> QED
  BY <1>4, <1>6, <1>7, <1>8, <1>9, <1>10 DEF ArchiveInv

LEMMA drop_covered_walHolds ==
  ASSUME ArchiveInv, drop_covered_wal
  PROVE  ArchiveInv'
<1>1. /\ TypeOK /\ Held /\ AtRest /\ WorkWhole /\ WorkEntry /\ LiveIsNewest /\ CheckpointGraph
      /\ ForcedGraph /\ CopyWhole /\ BoxWhole /\ ClosesFull
  BY DEF ArchiveInv
<1>2. /\ job["checkpoint"].pc = "drop_covered_wal" /\ GoTo("checkpoint", "write")
      /\ first' \in first .. Larger(first, job["checkpoint"].graph.n + 1)
      /\ UNCHANGED <<phase, work, workSynced, snap, snapSynced, firstSynced, end, endSynced,
                     durable_lsn, box, boxSynced, live, dirty, failure, write_lock, poisoned, writer,
                     jobs, restores, stops, lived, kept, promised, saved>>
  BY DEF drop_covered_wal, At, dir, archive, container, counts, history
<1>3. write_lock = "checkpoint"
  BY <1>1, <1>2 DEF Held, Writers, Installing
<1>4. /\ phase = "up" /\ phase' = "up" /\ work = "wal" /\ Held' /\ AtRest' /\ ClosesFull'
      /\ job' \in [Writers -> Jobs] /\ "checkpoint" \in Writers
      /\ \A q \in Writers \ {"checkpoint"} : job'[q] = job[q]
      /\ job'["forced"] = job["forced"]
      /\ job'["checkpoint"].pc = "write" /\ job'["checkpoint"].kind = job["checkpoint"].kind
      /\ job'["checkpoint"].graph = job["checkpoint"].graph
  BY <1>1, <1>2, <1>3, CheckpointMoves DEF Installing, Writing
<1>5. first' \in Nat /\ first <= first' /\ first' <= snapSynced.n + 1
  <2>1. job["checkpoint"].graph = snapSynced
    BY <1>1, <1>2 DEF CheckpointGraph
  <2>2. first \in Nat /\ snapSynced.n \in Nat /\ first <= snapSynced.n + 1
    BY <1>1, Types, GraphIs DEF WorkWhole
  <2>3. Larger(first, snapSynced.n + 1) = snapSynced.n + 1
    BY <2>2 DEF Larger
  <2> QED
    BY <1>2, <2>1, <2>2, <2>3
<1>6. TypeOK'
  <2>1. firstSynced' \in 1 .. first' /\ first' \in 1 .. MaxCommits + 1
    <3>1. snapSynced.n <= MaxCommits /\ snapSynced.n \in Nat /\ firstSynced \in 1 .. first /\ first \in Nat
      BY <1>1, Types, GraphIs, NamedArchiveAssumption DEF TypeOK
    <3> QED
      BY <1>2, <1>5, <3>1, NamedArchiveAssumption
  <2> QED
    BY <1>1, <1>2, <1>4, <2>1 DEF TypeOK
<1>7. WorkWhole'
  BY <1>1, <1>2, <1>5 DEF WorkWhole
<1>8. WorkEntry' /\ CopyWhole' /\ BoxWhole' /\ ForcedGraph'
  <2>1. WorkEntry' /\ BoxWhole' /\ ForcedGraph'
    BY <1>1, <1>2, <1>4, WorkEntrySame, BoxWholeSame, ForcedGraphSame
  <2>2. CopyWhole'
    BY <1>1, <1>2, <1>4, CopyWholeOthers
  <2> QED
    BY <2>1, <2>2
<1>9. LiveIsNewest'
  BY <1>1, <1>2, <1>4 DEF LiveIsNewest
<1>10. CheckpointGraph'
  BY <1>1, <1>2, <1>4 DEF CheckpointGraph, Writing
<1> QED
  BY <1>4, <1>6, <1>7, <1>8, <1>9, <1>10 DEF ArchiveInv

-----------------------------------------------------------------------------
(* The container.                                                          *)

\* The worker at its next step before it copies.
LEMMA WorkerMoves ==
  ASSUME ArchiveInv, NEW pc \in {"lock", "write"}, GoTo("worker", pc),
         job["worker"].pc \in {"idle", "lock"}, phase \in {"up", "closing"}, work = "wal",
         pc = "lock" => write_lock' = write_lock,
         pc = "write" => write_lock = Nobody /\ write_lock' = "worker",
         dirty' \in BOOLEAN,
         UNCHANGED <<phase, work, workSynced, snap, snapSynced, first, firstSynced, end, endSynced,
                     durable_lsn, box, boxSynced, live, failure, poisoned, writer,
                     jobs, restores, stops, lived, kept, promised, saved>>
  PROVE  ArchiveInv'
<1>1. /\ TypeOK /\ Held /\ AtRest /\ WorkWhole /\ WorkEntry /\ LiveIsNewest /\ CheckpointGraph
      /\ ForcedGraph /\ CopyWhole /\ BoxWhole /\ ClosesFull
  BY DEF ArchiveInv
<1>2. /\ job' \in [Writers -> Jobs] /\ \A q \in Writers \ {"worker"} : job'[q] = job[q]
      /\ job'["worker"].pc = pc /\ job'["worker"].kind = job["worker"].kind
      /\ job'["checkpoint"] = job["checkpoint"] /\ job'["forced"] = job["forced"]
      /\ "worker" \in Writers
  BY <1>1, Types, JobMoved DEF Writers, Writing
<1>3. TypeOK'
  <2>1. {writer', write_lock'} \subseteq Writers \cup {Nobody}
    BY <1>1, <1>2 DEF TypeOK
  <2>2. {dirty', failure', poisoned'} \subseteq BOOLEAN
    BY <1>1 DEF TypeOK
  <2> QED
    BY <1>1, <1>2, <2>1, <2>2 DEF TypeOK
<1>4. Held'
  <2>1. \A q \in Writers : write_lock' = q <=> job'[q].pc \in Installing \cup Writing
    BY <1>1, <1>2 DEF Held, Installing, Writing, Writers, Nobody
  <2> QED
    BY <1>1, <1>2, <2>1 DEF Held, Writing
<1>5. WorkWhole' /\ WorkEntry' /\ CopyWhole' /\ BoxWhole' /\ AtRest'
  <2>1. WorkWhole' /\ WorkEntry' /\ BoxWhole'
    BY <1>1, WorkWholeSame, WorkEntrySame, BoxWholeSame
  <2>2. CopyWhole'
    BY <1>1, <1>2, CopyWholeOthers
  <2> QED
    BY <2>1, <2>2 DEF AtRest
<1>6. LiveIsNewest' /\ CheckpointGraph' /\ ForcedGraph'
  <2>1. CheckpointGraph' /\ ForcedGraph'
    BY <1>1, <1>2, CheckpointGraphSame, ForcedGraphSame
  <2> QED
    BY <1>1, <1>2, <2>1 DEF LiveIsNewest
<1>7. ClosesFull'
  BY <1>1, <1>2 DEF ClosesFull
<1> QED
  BY <1>3, <1>4, <1>5, <1>6, <1>7 DEF ArchiveInv

\* A database that has not removed its work directory still has it.
LEMMA StillThere ==
  ASSUME TypeOK, WorkEntry, ClosesFull, phase \in {"up", "closing"}, ~ WorkerReturned
  PROVE  work = "wal"
BY DEF TypeOK, WorkEntry, ClosesFull

LEMMA WorkerTakesHolds ==
  ASSUME ArchiveInv, WorkerTakes
  PROVE  ArchiveInv'
<1>1. /\ phase \in {"up", "closing"} /\ dirty /\ job["worker"].pc = "idle" /\ dirty' = FALSE
      /\ GoTo("worker", "lock")
      /\ UNCHANGED <<phase, work, workSynced, snap, snapSynced, first, firstSynced, end, endSynced,
                     durable_lsn, box, boxSynced, live, failure, write_lock, poisoned, writer,
                     jobs, restores, stops, lived, kept, promised, saved>>
  BY DEF WorkerTakes, At, dir, wal, container, counts, history
<1>2. work = "wal"
  BY <1>1, StillThere DEF ArchiveInv, WorkerReturned
<1> QED
  BY <1>1, <1>2, WorkerMoves

LEMMA WorkerLocksHolds ==
  ASSUME ArchiveInv, WorkerLocks
  PROVE  ArchiveInv'
<1>1. /\ job["worker"].pc = "lock" /\ write_lock = Nobody /\ write_lock' = "worker"
      /\ GoTo("worker", "write")
      /\ UNCHANGED <<phase, work, workSynced, snap, snapSynced, first, firstSynced, end, endSynced,
                     durable_lsn, box, boxSynced, live, dirty, failure, poisoned, writer,
                     jobs, restores, stops, lived, kept, promised, saved>>
  BY DEF WorkerLocks, MayWrite, At, dir, wal, container, counts, history
<1>2. phase \in {"up", "closing"}
  <2>1. "worker" \in Writers /\ job["worker"].pc # "idle"
    BY <1>1 DEF Writers
  <2> QED
    BY <2>1, Open DEF ArchiveInv
<1>3. work = "wal" /\ dirty' \in BOOLEAN
  <2>1. ~ WorkerReturned
    BY <1>1 DEF WorkerReturned, At
  <2>2. work = "wal"
    BY <1>2, <2>1, StillThere DEF ArchiveInv
  <2>3. dirty \in BOOLEAN
    BY DEF ArchiveInv, TypeOK
  <2> QED
    BY <1>1, <2>2, <2>3
<1> QED
  BY <1>1, <1>2, <1>3, WorkerMoves

LEMMA persist_forceHolds ==
  ASSUME ArchiveInv, persist_force
  PROVE  ArchiveInv'
<1>1. /\ TypeOK /\ Held /\ AtRest /\ WorkWhole /\ WorkEntry /\ LiveIsNewest /\ CheckpointGraph
      /\ CopyWhole /\ BoxWhole
  BY DEF ArchiveInv
<1>2. /\ phase = "up" /\ job["forced"].pc = "idle" /\ writer = Nobody /\ ~ poisoned /\ Fsynced
      /\ jobs < MaxJobs /\ jobs' = jobs + 1
      /\ UNCHANGED <<phase, work, workSynced, snap, snapSynced, first, firstSynced, end, box,
                     boxSynced, live, dirty, failure, restores, stops, lived, kept, promised, saved>>
  BY DEF persist_force, At, NewJob, dir, container, history
<1>3. /\ live.k = snap.k /\ snapSynced.k = snap.k /\ live.n = end
      /\ job["checkpoint"].kind # "restore" /\ job["forced"].kind = "none" /\ work = "wal"
  BY <1>2, Settled
<1>4. endSynced' = end /\ durable_lsn' = end
  BY <1>1, <1>2, FsyncedIs
<1>5. /\ end \in Nat /\ endSynced \in Nat /\ endSynced <= end /\ live \in Graphs
      /\ job["checkpoint"].graph.n \in Nat
  BY <1>1, Types, GraphIs DEF Writers
<1>6. /\ endSynced' \in 0 .. end' /\ durable_lsn' \in 0 .. MaxCommits /\ jobs' \in 0 .. MaxJobs
  BY <1>1, <1>2, <1>4, <1>5, NamedArchiveAssumption DEF TypeOK
<1>7. WorkWhole' /\ WorkEntry' /\ BoxWhole' /\ ClosesFull' /\ AtRest'
  <2>1. WorkWhole' /\ BoxWhole'
    BY <1>1, <1>2, <1>4, FsyncedWhole, BoxWholeSame
  <2>2. WorkEntry' /\ ClosesFull'
    BY <1>1, <1>2, <1>3, WorkEntryWal, NotClosing
  <2> QED
    BY <1>2, <2>1, <2>2 DEF AtRest
<1>8. ASSUME job'["checkpoint"] = job["checkpoint"]
      PROVE  CheckpointGraph'
  BY <1>1, <1>2, <1>3, <1>4, <1>5, <1>8 DEF CheckpointGraph
<1>9. CASE failure /\ poisoned' = TRUE /\ UNCHANGED <<writer, write_lock, job>>
  <2>1. TypeOK'
    <3>1. {dirty', failure', poisoned'} \subseteq BOOLEAN
      BY <1>1, <1>2, <1>9 DEF TypeOK
    <3> QED
      BY <1>1, <1>2, <1>6, <1>9, <3>1 DEF TypeOK
  <2>2. Held' /\ CopyWhole' /\ CheckpointGraph'
    BY <1>1, <1>2, <1>8, <1>9, HeldSame, CopyWholeSame
  <2>3. ForcedGraph' /\ LiveIsNewest'
    BY <1>1, <1>2, <1>3, <1>4, <1>5, <1>9 DEF ForcedGraph, LiveIsNewest
  <2> QED
    BY <1>7, <2>1, <2>2, <2>3 DEF ArchiveInv
<1>10. CASE /\ ~ failure /\ write_lock = Nobody
            /\ writer' = "forced" /\ write_lock' = "forced"
            /\ job' = [job EXCEPT !["forced"] = Begun("write", "forced", live)]
            /\ UNCHANGED poisoned
  <2>1. PICK j : j = Begun("write", "forced", live)
    OBVIOUS
  <2>2. j \in Jobs /\ j.pc = "write" /\ j.kind = "forced" /\ j.graph = live
    BY <1>5, <2>1, JobBegun
  <2>3. /\ job' \in [Writers -> Jobs] /\ job'["forced"] = j
        /\ \A q \in Writers \ {"forced"} : job'[q] = job[q]
        /\ "forced" \in Writers /\ job'["checkpoint"] = job["checkpoint"]
        /\ job'["worker"] = job["worker"]
    BY <1>1, <1>10, <2>1, <2>2, Types, JobSet DEF Writers
  <2>4. TypeOK'
    <3>1. {writer', write_lock'} \subseteq Writers \cup {Nobody}
      BY <1>10, <2>3
    <3>2. {dirty', failure', poisoned'} \subseteq BOOLEAN
      BY <1>1, <1>2, <1>10 DEF TypeOK
    <3> QED
      BY <1>1, <1>2, <1>6, <2>3, <3>1, <3>2 DEF TypeOK
  <2>5. Held'
    BY <1>1, <1>2, <1>3, <1>10, <2>2, <2>3 DEF Held, Installing, Writing, Writers, Nobody
  <2>6. CopyWhole' /\ CheckpointGraph'
    BY <1>1, <1>2, <1>8, <2>2, <2>3, CopyWholeOthers
  <2>7. ForcedGraph'
    BY <1>2, <1>3, <1>4, <2>2, <2>3 DEF ForcedGraph
  <2>8. LiveIsNewest'
    BY <1>1, <1>2, <1>3, <1>4, <1>5 DEF LiveIsNewest
  <2> QED
    BY <1>7, <2>4, <2>5, <2>6, <2>7, <2>8 DEF ArchiveInv
<1> QED
  BY <1>9, <1>10 DEF persist_force, Begun

\* Who copies the container goes on: what its lock allows stays true.
LEMMA CopierMoves ==
  ASSUME TypeOK, Held, AtRest, WorkEntry, ClosesFull,
         NEW p \in Writers, job[p].pc \in Writing, job'[p].pc \in Writing,
         job' \in [Writers -> Jobs], \A q \in Writers \ {p} : job'[q] = job[q],
         job'[p].kind = job[p].kind, UNCHANGED <<phase, write_lock, writer>>
  PROVE  /\ phase \in {"up", "closing"} /\ work = "wal" /\ Held' /\ AtRest'
         /\ \A q \in Writers \ {p} : job[q].pc \notin Installing \cup Writing
         /\ p # "worker" => phase = "up"
<1>1. job[p].pc # "idle" /\ job'[p].pc # "idle"
  BY DEF Writing
<1>2. phase \in {"up", "closing"}
  BY <1>1, Open
<1>3. p # "worker" => phase = "up"
  BY <1>1, OpenUp DEF Writers
<1>4. ~ WorkerReturned \/ phase = "up"
  BY <1>1, <1>3 DEF WorkerReturned, At
<1>5. work = "wal"
  BY <1>2, <1>4, StillThere DEF WorkerReturned
<1>6. \A q \in Writers \ {p} : job[q].pc \notin Installing \cup Writing
  BY Alone
<1>7. \A q \in Writers : write_lock' = q <=> job'[q].pc \in Installing \cup Writing
  BY DEF Held
<1>8. Held'
  <2>1. CASE p = "worker"
    BY <1>1, <1>7, <2>1 DEF Held, Writers
  <2>2. CASE p = "checkpoint"
    BY <1>1, <1>7, <2>2 DEF Held, Writers
  <2>3. CASE p = "forced"
    BY <1>1, <1>7, <2>3 DEF Held, Writers
  <2> QED
    BY <2>1, <2>2, <2>3 DEF Writers
<1>9. AtRest'
  BY <1>2 DEF AtRest
<1> QED
  BY <1>2, <1>3, <1>5, <1>6, <1>8, <1>9

\* Where who copies keeps its kind and its graph, and the files stay.
LEMMA CopierKeeps ==
  ASSUME ArchiveInv, NEW p \in Writers, job[p].pc \in Writing, job'[p].pc \in Writing,
         \A q \in Writers \ {p} : job'[q] = job[q],
         job'[p].kind = job[p].kind, job'[p].graph = job[p].graph,
         UNCHANGED <<phase, snap, snapSynced, first, end, endSynced, durable_lsn, live, poisoned,
                     restores, kept, promised, saved>>
  PROVE  WorkWhole' /\ LiveIsNewest' /\ CheckpointGraph' /\ ForcedGraph'
<1>1. WorkWhole /\ LiveIsNewest /\ CheckpointGraph /\ ForcedGraph
  BY DEF ArchiveInv
<1>2. WorkWhole'
  BY <1>1, WorkWholeSame
<1>3. CASE p = "checkpoint"
  <2>1. CheckpointGraph' /\ ForcedGraph'
    BY <1>1, <1>3 DEF CheckpointGraph, ForcedGraph, Writing, Writers
  <2>2. LiveIsNewest'
    BY <1>1, <1>3 DEF LiveIsNewest, Writing
  <2> QED
    BY <1>2, <2>1, <2>2
<1>4. CASE p # "checkpoint"
  <2>1. job'["checkpoint"] = job["checkpoint"]
    BY <1>4 DEF Writers
  <2>2. job'["forced"].kind = job["forced"].kind /\ job'["forced"].graph = job["forced"].graph
    BY DEF Writers
  <2>3. CheckpointGraph'
    BY <1>1, <2>1, CheckpointGraphSame
  <2>4. ForcedGraph' /\ LiveIsNewest'
    BY <1>1, <2>1, <2>2 DEF ForcedGraph, LiveIsNewest
  <2> QED
    BY <1>2, <2>3, <2>4
<1> QED
  BY <1>3, <1>4

LEMMA JobCopiedAt ==
  ASSUME job \in [Writers -> Jobs], NEW p \in Writers, NEW c \in Copies,
         NEW pc \in {"segments", "replace"},
         job' = [job EXCEPT ![p].pc = pc, ![p].copy = c]
  PROVE  /\ job' \in [Writers -> Jobs]
         /\ job'[p].pc = pc /\ job'[p].kind = job[p].kind
         /\ job'[p].graph = job[p].graph /\ job'[p].copy = c
         /\ \A q \in Writers \ {p} : job'[q] = job[q]
<1>1. PICK j : j = job[p]
  OBVIOUS
<1>2. PICK k : k = Copied(j, pc, c)
  OBVIOUS
<1>3. /\ k \in Jobs /\ k.pc = pc /\ k.kind = j.kind /\ k.graph = j.graph /\ k.copy = c
  BY <1>1, <1>2, JobCopied
<1>4. job' = [job EXCEPT ![p] = k]
  BY <1>1, <1>2 DEF Copied
<1> QED
  BY <1>1, <1>3, <1>4, JobSet

LEMMA CopySnapshotHolds ==
  ASSUME ArchiveInv, NEW p \in Writers, CopySnapshot(p)
  PROVE  ArchiveInv'
<1>1. /\ TypeOK /\ Held /\ AtRest /\ WorkEntry /\ CopyWhole /\ BoxWhole /\ ClosesFull
  BY DEF ArchiveInv
<1>2. PICK c : c = Copy(snap, 1, 0)
  OBVIOUS
<1>3. /\ job[p].pc = "write" /\ job' = [job EXCEPT ![p].pc = "segments", ![p].copy = c]
      /\ firstSynced' \in {first, firstSynced}
      /\ UNCHANGED <<phase, work, workSynced, snap, snapSynced, first, end, endSynced,
                     durable_lsn, box, boxSynced, live, dirty, failure, write_lock, poisoned, writer,
                     jobs, restores, stops, lived, kept, promised, saved>>
  BY <1>2 DEF CopySnapshot, At, dir, container, archive, counts, history
<1>4. c \in Copies /\ c.snap = snap
  <2>1. 1 \in 1 .. MaxCommits + 1 /\ 0 \in -1 .. MaxCommits
    BY NamedArchiveAssumption
  <2> QED
    BY <1>1, <1>2, <2>1, Types, CopyIn, CopyFields
<1>5. /\ job' \in [Writers -> Jobs]
      /\ job'[p].pc = "segments" /\ job'[p].kind = job[p].kind
      /\ job'[p].graph = job[p].graph /\ job'[p].copy = c
      /\ \A q \in Writers \ {p} : job'[q] = job[q]
  BY <1>1, <1>3, <1>4, Types, JobCopiedAt
<1>6. job[p].pc \in Writing /\ job'[p].pc \in Writing
  BY <1>3, <1>5 DEF Writing
<1>7. /\ phase \in {"up", "closing"} /\ work = "wal" /\ Held' /\ AtRest'
      /\ \A q \in Writers \ {p} : job[q].pc \notin Installing \cup Writing
      /\ p # "worker" => phase = "up"
  BY <1>1, <1>3, <1>5, <1>6, CopierMoves
<1>8. WorkWhole' /\ LiveIsNewest' /\ CheckpointGraph' /\ ForcedGraph'
  BY <1>3, <1>5, <1>6, CopierKeeps
<1>9. TypeOK'
  <2>1. firstSynced' \in 1 .. first'
    BY <1>1, <1>3 DEF TypeOK
  <2> QED
    BY <1>1, <1>3, <1>5, <2>1 DEF TypeOK
<1>10. WorkEntry' /\ BoxWhole'
  BY <1>1, <1>3, WorkEntrySame, BoxWholeSame
<1>11. CopyWhole'
  <2>1. ASSUME NEW q \in Writers \ {p}
        PROVE  job'[q].pc \notin {"segments", "replace", "sync_parent"}
    BY <1>5, <1>7 DEF Writing
  <2> QED
    BY <1>3, <1>4, <1>5, <2>1 DEF CopyWhole
<1>12. ClosesFull'
  <2>1. CASE p = "worker"
    BY <1>1, <1>3, <1>5, <1>7, <2>1 DEF ClosesFull, Writers
  <2>2. CASE p # "worker"
    BY <1>3, <1>7, <2>2, NotClosing
  <2> QED
    BY <2>1, <2>2
<1> QED
  BY <1>7, <1>8, <1>9, <1>10, <1>11, <1>12 DEF ArchiveInv

\* The snapshot and the WAL as they are now make a whole database.
LEMMA WorkIsWhole ==
  ASSUME TypeOK, WorkWhole, NEW c, c = Copy(snap, first, end)
  PROVE  /\ c \in Copies /\ Whole(c) /\ c.snap = snap /\ c.end = end /\ Full(c)
<1>1. /\ snap \in Graphs /\ snapSynced \in Graphs /\ promised \in Graphs /\ saved \in Graphs
      /\ end \in 0 .. MaxCommits /\ first \in 1 .. MaxCommits + 1 /\ first \in Nat
      /\ end \in Nat /\ endSynced \in Nat /\ endSynced <= end /\ kept \subseteq lived
      /\ snap.n \in Nat /\ snapSynced.n \in Nat
  BY Types, GraphIs DEF TypeOK
<1>2. end \in -1 .. MaxCommits
  BY <1>1
<1>3. c \in Copies /\ c.snap = snap /\ c.first = first /\ c.end = end
  BY <1>1, <1>2, CopyIn, CopyFields
<1>4. first <= snap.n + 1 /\ snap.n <= end
  BY <1>1 DEF WorkWhole
<1>5. /\ Graph(snap.k, end) \in kept /\ Graph(snap.k, end) \in Graphs
      /\ Before(promised, Graph(snap.k, end)) /\ Before(saved, promised)
  BY WorkRebuilt DEF WorkWhole
<1>6. Before(saved, Graph(snap.k, end))
  BY <1>1, <1>5, BeforeTrans
<1>7. Whole(c)
  BY <1>1, <1>3, <1>4, <1>5, <1>6 DEF Whole
<1> QED
  BY <1>3, <1>7 DEF Full

\* What a checkpoint, a restore or a forced persist is for is in its copy.
LEMMA CopyHasGraph ==
  ASSUME ArchiveInv, NEW p \in Writers, p # "worker", job[p].pc \in Writing
  PROVE  Before(job[p].graph, Graph(snap.k, end))
<1>1. /\ TypeOK /\ Held /\ AtRest /\ WorkWhole /\ WorkEntry /\ LiveIsNewest /\ CheckpointGraph
      /\ ForcedGraph /\ ClosesFull
  BY DEF ArchiveInv
<1>2. job[p].pc # "idle"
  BY DEF Writing
<1>3. /\ snap.k \in Nat /\ snap.n \in Nat /\ snap.n <= end /\ phase = "up"
  <2>1. snap.k \in Nat /\ snap.n \in Nat /\ end \in Nat /\ endSynced \in Nat /\ endSynced <= end
    BY <1>1, Types, GraphIs
  <2>2. phase = "up"
    BY <1>1, <1>2, OpenUp DEF Writers
  <2> QED
    BY <1>1, <2>1, <2>2 DEF WorkWhole
<1>4. CASE p = "checkpoint"
  <2>1. job[p].graph = snap
    BY <1>1, <1>4 DEF CheckpointGraph
  <2> QED
    BY <1>3, <2>1, GraphFields DEF Before
<1>5. CASE p = "forced"
  <2>1. job[p].graph = live /\ live.k = snap.k /\ live.n = end
    BY <1>1, <1>2, <1>3, <1>5 DEF Held, ForcedGraph, LiveIsNewest
  <2> QED
    BY <1>1, <2>1, Types, GraphFields DEF Before
<1> QED
  BY <1>4, <1>5 DEF Writers

LEMMA CopySegmentsHolds ==
  ASSUME ArchiveInv, NEW p \in Writers, CopySegments(p)
  PROVE  ArchiveInv'
<1>1. /\ TypeOK /\ Held /\ AtRest /\ WorkWhole /\ WorkEntry /\ CopyWhole /\ BoxWhole /\ ClosesFull
  BY DEF ArchiveInv
<1>2. PICK c : c = Copy(snap, first, end)
  OBVIOUS
<1>3. /\ job[p].pc = "segments"
      /\ job' = [job EXCEPT ![p].pc = "replace", ![p].copy = c]
      /\ UNCHANGED <<phase, work, workSynced, snap, snapSynced, first, firstSynced, end, endSynced,
                     durable_lsn, box, boxSynced, live, dirty, failure, write_lock, poisoned, writer,
                     jobs, restores, stops, lived, kept, promised, saved>>
  <2>1. job[p].pc = "segments"
    BY DEF CopySegments, At
  <2>2. job[p].copy.snap = snap
    BY <1>1, <2>1 DEF CopyWhole
  <2>3. job' = [job EXCEPT ![p].pc = "replace", ![p].copy = Copy(job[p].copy.snap, first, end)]
    BY <1>1, Types DEF CopySegments, Jobs
  <2> QED
    BY <1>2, <2>1, <2>2, <2>3 DEF CopySegments, dir, wal, container, archive, counts, history
<1>4. c \in Copies /\ Whole(c) /\ c.snap = snap /\ c.end = end /\ Full(c)
  BY <1>1, <1>2, WorkIsWhole
<1>5. /\ job' \in [Writers -> Jobs]
      /\ job'[p].pc = "replace" /\ job'[p].kind = job[p].kind
      /\ job'[p].graph = job[p].graph /\ job'[p].copy = c
      /\ \A q \in Writers \ {p} : job'[q] = job[q]
  BY <1>1, <1>3, <1>4, Types, JobCopiedAt
<1>6. job[p].pc \in Writing /\ job'[p].pc \in Writing
  BY <1>3, <1>5 DEF Writing
<1>7. /\ phase \in {"up", "closing"} /\ work = "wal" /\ Held' /\ AtRest'
      /\ \A q \in Writers \ {p} : job[q].pc \notin Installing \cup Writing
      /\ p # "worker" => phase = "up"
  BY <1>1, <1>3, <1>5, <1>6, CopierMoves
<1>8. WorkWhole' /\ LiveIsNewest' /\ CheckpointGraph' /\ ForcedGraph'
  BY <1>3, <1>5, <1>6, CopierKeeps
<1>9. TypeOK'
  BY <1>1, <1>3, <1>5 DEF TypeOK
<1>10. WorkEntry' /\ BoxWhole'
  BY <1>1, <1>3, WorkEntrySame, BoxWholeSame
<1>11. CopyWhole'
  <2>1. ASSUME NEW q \in Writers \ {p}
        PROVE  job'[q].pc \notin {"segments", "replace", "sync_parent"}
    BY <1>5, <1>7 DEF Writing
  <2>2. Whole(c)'
    BY <1>3, <1>4 DEF Whole
  <2>3. p # "worker" => Before(job[p].graph, Graph(snap.k, end))
    BY <1>6, CopyHasGraph
  <2> QED
    BY <1>3, <1>4, <1>5, <2>1, <2>2, <2>3 DEF CopyWhole
<1>12. ClosesFull'
  <2>1. CASE p = "worker"
    BY <1>1, <1>3, <1>4, <1>5, <1>7, <2>1 DEF ClosesFull, Writers, Full
  <2>2. CASE p # "worker"
    BY <1>3, <1>7, <2>2, NotClosing
  <2> QED
    BY <2>1, <2>2
<1> QED
  BY <1>7, <1>8, <1>9, <1>10, <1>11, <1>12 DEF ArchiveInv

LEMMA ReplaceContainerHolds ==
  ASSUME ArchiveInv, NEW p \in Writers, ReplaceContainer(p)
  PROVE  ArchiveInv'
<1>1. /\ TypeOK /\ Held /\ AtRest /\ WorkEntry /\ CopyWhole /\ BoxWhole /\ ClosesFull
  BY DEF ArchiveInv
<1>2. /\ job[p].pc = "replace" /\ GoTo(p, "sync_parent") /\ box' = job[p].copy
      /\ UNCHANGED <<phase, work, workSynced, snap, snapSynced, first, firstSynced, end, endSynced,
                     durable_lsn, boxSynced, live, dirty, failure, write_lock, poisoned, writer,
                     jobs, restores, stops, lived, kept, promised, saved>>
  BY DEF ReplaceContainer, At, dir, wal, archive, counts, history
<1>3. /\ job' \in [Writers -> Jobs]
      /\ job'[p].pc = "sync_parent" /\ job'[p].kind = job[p].kind
      /\ job'[p].graph = job[p].graph /\ job'[p].copy = job[p].copy
      /\ \A q \in Writers \ {p} : job'[q] = job[q]
  BY <1>1, <1>2, Types, JobMoved DEF Writing
<1>4. job[p].pc \in Writing /\ job'[p].pc \in Writing
  BY <1>2, <1>3 DEF Writing
<1>5. /\ phase \in {"up", "closing"} /\ work = "wal" /\ Held' /\ AtRest'
      /\ \A q \in Writers \ {p} : job[q].pc \notin Installing \cup Writing
      /\ p # "worker" => phase = "up"
  BY <1>1, <1>2, <1>3, <1>4, CopierMoves
<1>6. WorkWhole' /\ LiveIsNewest' /\ CheckpointGraph' /\ ForcedGraph'
  BY <1>2, <1>3, <1>4, CopierKeeps
<1>7. TypeOK'
  <2>1. {box', boxSynced'} \subseteq Copies
    BY <1>1, <1>2, Types
  <2> QED
    BY <1>1, <1>2, <1>3, <2>1 DEF TypeOK
<1>8. WorkEntry'
  BY <1>1, <1>2, <1>5, WorkEntryWal
<1>9. PICK c : c = job[p].copy
  OBVIOUS
<1>10. Whole(c)' /\ BoxWhole'
  <2>1. Whole(c)
    BY <1>1, <1>2, <1>9 DEF CopyWhole
  <2>2. Whole(c)' /\ box' = c
    BY <1>2, <1>9, <2>1, WholeSame
  <2>3. boxSynced' = NoBox \/ Whole(boxSynced')
    BY <1>1, <1>2 DEF BoxWhole
  <2> QED
    BY <1>2, <2>2, <2>3 DEF BoxWhole, Whole
<1>11. CopyWhole'
  <2>1. ASSUME NEW q \in Writers \ {p}
        PROVE  job'[q].pc \notin {"segments", "replace", "sync_parent"}
    BY <1>3, <1>5 DEF Writing
  <2>2. /\ job[p].copy.snap = snap
        /\ p # "worker" => Before(job[p].graph, Graph(snap.k, job[p].copy.end))
    BY <1>1, <1>2 DEF CopyWhole
  <2> QED
    BY <1>2, <1>3, <1>9, <1>10, <2>1, <2>2 DEF CopyWhole
<1>12. ClosesFull'
  <2>1. CASE p = "worker"
    BY <1>1, <1>2, <1>3, <1>5, <2>1 DEF ClosesFull, Writers, Full
  <2>2. CASE p # "worker"
    BY <1>2, <1>5, <2>2, NotClosing
  <2> QED
    BY <2>1, <2>2
<1> QED
  BY <1>5, <1>6, <1>7, <1>8, <1>10, <1>11, <1>12 DEF ArchiveInv

\* A writer that lets go holds nothing, and no lock is without a holder.
LEMMA ReleasedHeld ==
  ASSUME TypeOK, Held, NEW p \in Writers, Release(p)
  PROVE  /\ Held' /\ job' \in [Writers -> Jobs]
         /\ job'[p].pc = "idle" /\ job'[p].kind = "none"
         /\ \A q \in Writers \ {p} : job'[q] = job[q]
         /\ {writer', write_lock'} \subseteq Writers \cup {Nobody}
<1>1. /\ job' \in [Writers -> Jobs] /\ job'[p].pc = "idle" /\ job'[p].kind = "none"
      /\ \A q \in Writers \ {p} : job'[q] = job[q]
  BY Types, Released
<1>2. /\ write_lock' = IF write_lock = p THEN Nobody ELSE write_lock
      /\ writer' = IF writer = p THEN Nobody ELSE writer
  BY DEF Release
<1>3. {writer', write_lock'} \subseteq Writers \cup {Nobody}
  BY <1>2 DEF TypeOK
<1>4. \A q \in Writers : write_lock' = q <=> job'[q].pc \in Installing \cup Writing
  <2>1. Nobody \notin Writers /\ "idle" \notin Installing \cup Writing
    BY DEF Nobody, Writers, Installing, Writing
  <2>2. CASE write_lock = p
    BY <1>1, <1>2, <2>1, <2>2 DEF Held
  <2>3. CASE write_lock # p
    BY <1>1, <1>2, <2>1, <2>3 DEF Held
  <2> QED
    BY <2>2, <2>3
<1>5. Held'
  <2>1. CASE p = "worker"
    BY <1>1, <1>2, <1>4, <2>1 DEF Held, Writers
  <2>2. CASE p = "checkpoint"
    <3>1. writer' # "worker" /\ writer' # "checkpoint" /\ (writer' = "forced" <=> writer = "forced")
      BY <1>2, <2>2 DEF Held, Nobody
    <3> QED
      BY <1>1, <1>4, <2>2, <3>1 DEF Held, Writers
  <2>3. CASE p = "forced"
    <3>1. writer' # "worker" /\ writer' # "forced" /\ (writer' = "checkpoint" <=> writer = "checkpoint")
      BY <1>2, <2>3 DEF Held, Nobody
    <3> QED
      BY <1>1, <1>4, <2>3, <3>1 DEF Held, Writers
  <2> QED
    BY <2>1, <2>2, <2>3 DEF Writers
<1> QED
  BY <1>1, <1>3, <1>5

\* A failure: nothing but the latches changes, and no promise is made.
LEMMA FailureHolds ==
  ASSUME ArchiveInv, NEW p \in Writers, job[p].pc \notin {"idle", "lock"}, Release(p),
         failure' \in {TRUE, failure}, p = "worker" => failure' = TRUE,
         poisoned' = (poisoned \/ p = "forced" \/ job[p].kind = "restore"),
         UNCHANGED <<phase, work, workSynced, snap, snapSynced, first, firstSynced, end, endSynced,
                     durable_lsn, box, boxSynced, live, dirty,
                     jobs, restores, stops, lived, kept, promised, saved>>
  PROVE  ArchiveInv'
<1>1. /\ TypeOK /\ Held /\ AtRest /\ WorkWhole /\ WorkEntry /\ LiveIsNewest /\ CheckpointGraph
      /\ ForcedGraph /\ CopyWhole /\ BoxWhole /\ ClosesFull
  BY DEF ArchiveInv
<1>2. /\ Held' /\ job' \in [Writers -> Jobs]
      /\ job'[p].pc = "idle" /\ job'[p].kind = "none"
      /\ \A q \in Writers \ {p} : job'[q] = job[q]
      /\ {writer', write_lock'} \subseteq Writers \cup {Nobody}
  BY <1>1, ReleasedHeld
<1>3. /\ phase \in {"up", "closing"} /\ (p # "worker" => phase = "up")
  <2>1. job[p].pc # "idle"
    OBVIOUS
  <2> QED
    BY <1>1, <2>1, Open, OpenUp DEF Writers
<1>4. TypeOK'
  <2>1. {dirty', failure', poisoned'} \subseteq BOOLEAN
    BY <1>1 DEF TypeOK
  <2> QED
    BY <1>1, <1>2, <2>1 DEF TypeOK
<1>5. WorkWhole' /\ WorkEntry' /\ BoxWhole' /\ CopyWhole' /\ AtRest'
  <2>1. WorkWhole' /\ WorkEntry' /\ BoxWhole'
    BY <1>1, WorkWholeSame, WorkEntrySame, BoxWholeSame
  <2>2. CopyWhole'
    BY <1>1, <1>2, CopyWholeOthers
  <2> QED
    BY <1>3, <2>1, <2>2 DEF AtRest
<1>6. CheckpointGraph'
  <2>1. CASE p = "checkpoint"
    BY <1>2, <2>1 DEF CheckpointGraph, Writing
  <2>2. CASE p # "checkpoint"
    <3>1. job'["checkpoint"] = job["checkpoint"]
      BY <1>2, <2>2 DEF Writers
    <3> QED
      BY <1>1, <3>1, CheckpointGraphSame
  <2> QED
    BY <2>1, <2>2
<1>7. ForcedGraph'
  <2>1. CASE p = "forced"
    BY <1>2, <2>1 DEF ForcedGraph
  <2>2. CASE p # "forced"
    <3>1. job'["forced"] = job["forced"]
      BY <1>2, <2>2 DEF Writers
    <3> QED
      BY <1>1, <3>1, ForcedGraphSame
  <2> QED
    BY <2>1, <2>2
<1>8. LiveIsNewest'
  <2>1. CASE p = "checkpoint"
    BY <1>1, <1>3, <2>1 DEF LiveIsNewest
  <2>2. CASE p # "checkpoint"
    <3>1. job'["checkpoint"] = job["checkpoint"]
      BY <1>2, <2>2 DEF Writers
    <3> QED
      BY <1>1, <1>3, <3>1 DEF LiveIsNewest
  <2> QED
    BY <2>1, <2>2
<1>9. ClosesFull'
  <2>1. CASE p = "worker"
    <3>1. phase = "closing" =>
            job'["checkpoint"].pc = "idle" /\ job'["forced"].pc = "idle" /\ endSynced' = end'
      BY <1>1, <1>2, <2>1 DEF ClosesFull, Writers
    <3>2. phase = "closing" => work = "wal"
      BY <1>1, <2>1 DEF ClosesFull, WorkerReturned, At
    <3>3. failure' = TRUE
      BY <2>1
    <3> QED
      BY <3>1, <3>2, <3>3 DEF ClosesFull
  <2>2. CASE p # "worker"
    BY <1>3, <2>2, NotClosing
  <2> QED
    BY <2>1, <2>2
<1> QED
  BY <1>2, <1>4, <1>5, <1>6, <1>7, <1>8, <1>9 DEF ArchiveInv

LEMMA WriteFailsHolds ==
  ASSUME ArchiveInv, NEW p \in Writers, WriteFails(p)
  PROVE  ArchiveInv'
<1>1. job[p].pc \notin {"idle", "lock"}
  BY DEF WriteFails
<1>2. /\ failure' = TRUE /\ Release(p)
      /\ poisoned' = (poisoned \/ p = "forced" \/ job[p].kind = "restore")
      /\ UNCHANGED <<phase, work, workSynced, snap, snapSynced, first, firstSynced, end, endSynced,
                     durable_lsn, box, boxSynced, live, dirty,
                     jobs, restores, stops, lived, kept, promised, saved>>
  BY DEF WriteFails, dir, wal, container, counts, history
<1> QED
  BY <1>1, <1>2, FailureHolds

LEMMA InstallFailsHolds ==
  ASSUME ArchiveInv, InstallFails
  PROVE  ArchiveInv'
<1>1. "checkpoint" \in Writers /\ "checkpoint" # "worker" /\ "checkpoint" # "forced"
  BY DEF Writers
<1>2. job["checkpoint"].pc \notin {"idle", "lock"}
  BY DEF InstallFails, At
<1>3. /\ failure' = failure /\ Release("checkpoint")
      /\ poisoned' = (poisoned \/ job["checkpoint"].kind = "restore")
      /\ UNCHANGED <<phase, work, workSynced, snap, snapSynced, first, firstSynced, end, endSynced,
                     durable_lsn, box, boxSynced, live, dirty,
                     jobs, restores, stops, lived, kept, promised, saved>>
  BY DEF InstallFails, dir, wal, container, counts, history
<1> QED
  BY <1>1, <1>2, <1>3, FailureHolds

\* The worker's container has reached the directory.
LEMMA WorkerSyncs ==
  ASSUME ArchiveInv, SyncContainer("worker")
  PROVE  ArchiveInv'
<1>1. /\ TypeOK /\ Held /\ AtRest /\ WorkWhole /\ WorkEntry /\ LiveIsNewest /\ CheckpointGraph
      /\ ForcedGraph /\ CopyWhole /\ BoxWhole /\ ClosesFull
  BY DEF ArchiveInv
<1>2. "worker" \in Writers /\ "checkpoint" \in Writers /\ "forced" \in Writers
  BY DEF Writers
<1>3. /\ job["worker"].pc = "sync_parent" /\ boxSynced' = box /\ workSynced' = work
      /\ Release("worker") /\ dirty' = ("worker" = "worker" /\ dirty)
      /\ UNCHANGED <<phase, work, snap, snapSynced, first, firstSynced, end, endSynced,
                     durable_lsn, box, live, failure, poisoned,
                     jobs, restores, stops, lived, kept, promised, saved>>
  <2>1. job["worker"].kind # "restore"
    BY <1>1 DEF Held
  <2> QED
    BY <2>1 DEF SyncContainer, At, wal, counts
<1>4. /\ Held' /\ job' \in [Writers -> Jobs]
      /\ job'["worker"].pc = "idle" /\ job'["worker"].kind = "none"
      /\ \A q \in Writers \ {"worker"} : job'[q] = job[q]
      /\ {writer', write_lock'} \subseteq Writers \cup {Nobody}
  BY <1>1, <1>2, <1>3, ReleasedHeld
<1>5. job'["checkpoint"] = job["checkpoint"] /\ job'["forced"] = job["forced"]
  BY <1>4 DEF Writers
<1>6. phase \in {"up", "closing"} /\ work = "wal"
  <2>1. job["worker"].pc # "idle"
    BY <1>3
  <2>2. phase \in {"up", "closing"}
    BY <1>1, <1>2, <2>1, Open
  <2> QED
    BY <1>1, <2>1, <2>2, StillThere DEF WorkerReturned, At
<1>7. TypeOK'
  <2>1. {dirty', failure', poisoned'} \subseteq BOOLEAN
    BY <1>1, <1>3 DEF TypeOK
  <2>2. {box', boxSynced'} \subseteq Copies /\ {work', workSynced'} \subseteq {"none", "dir", "wal"}
    BY <1>1, <1>3 DEF TypeOK
  <2> QED
    BY <1>1, <1>3, <1>4, <2>1, <2>2 DEF TypeOK
<1>8. WorkWhole' /\ WorkEntry' /\ CopyWhole' /\ AtRest'
  <2>1. WorkWhole' /\ WorkEntry'
    BY <1>1, <1>3, <1>6, WorkWholeSame, WorkEntryWal
  <2>2. CopyWhole'
    BY <1>1, <1>2, <1>3, <1>4, CopyWholeOthers
  <2> QED
    BY <1>3, <1>6, <2>1, <2>2 DEF AtRest
<1>9. BoxWhole'
  BY <1>1, <1>3 DEF BoxWhole, Whole
<1>10. LiveIsNewest' /\ CheckpointGraph' /\ ForcedGraph'
  <2>1. CheckpointGraph' /\ ForcedGraph'
    BY <1>1, <1>3, <1>5, CheckpointGraphSame, ForcedGraphSame
  <2> QED
    BY <1>1, <1>3, <1>5, <2>1 DEF LiveIsNewest
<1>11. ClosesFull'
  <2>1. dirty' = dirty
    BY <1>1, <1>3 DEF TypeOK
  <2>2. box = job["worker"].copy
    BY <1>1, <1>2, <1>3 DEF CopyWhole
  <2> QED
    BY <1>1, <1>3, <1>4, <1>5, <1>6, <2>1, <2>2 DEF ClosesFull, Full
<1> QED
  BY <1>4, <1>7, <1>8, <1>9, <1>10, <1>11 DEF ArchiveInv

\* The graph a checkpoint, a restore or a forced persist is for is by then
\* in the files of the work directory, whichever a power loss takes.
LEMMA JobIsDurable ==
  ASSUME ArchiveInv, NEW p \in {"checkpoint", "forced"}, job[p].pc = "sync_parent"
  PROVE  /\ phase = "up" /\ work = "wal"
         /\ Before(job[p].graph, Graph(snapSynced.k, endSynced))
         /\ job[p].kind # "restore" => Before(job[p].graph, live) /\ live.k = snap.k
         /\ job[p].kind = "restore" =>
              /\ p = "checkpoint" /\ job[p].graph = snap /\ snapSynced = snap
              /\ snap.n = end /\ live.k < snap.k /\ snap.k <= restores
<1>1. /\ TypeOK /\ Held /\ AtRest /\ WorkWhole /\ WorkEntry /\ LiveIsNewest /\ CheckpointGraph
      /\ ForcedGraph /\ ClosesFull
  BY DEF ArchiveInv
<1>2. phase = "up" /\ work = "wal"
  <2>1. job[p].pc # "idle"
    OBVIOUS
  <2> QED
    BY <1>1, <2>1, OpenUp
<1>3. /\ end \in Nat /\ endSynced \in Nat /\ endSynced <= end /\ live \in Graphs
      /\ live.k \in Nat /\ live.n \in Nat /\ snap.k \in Nat /\ snap.n \in Nat
      /\ snapSynced.k \in Nat /\ live.n = end /\ live.k <= snapSynced.k /\ snap.n <= endSynced
  BY <1>1, <1>2, Types, GraphIs DEF LiveIsNewest, WorkWhole
<1>4. CASE p = "checkpoint"
  <2>1. job[p].graph = snap /\ snapSynced = snap /\ job[p].kind \in {"sync", "restore"}
    BY <1>1, <1>4 DEF CheckpointGraph, Held, Writing
  <2>2. Before(snap, Graph(snapSynced.k, endSynced))
    BY <1>3, <2>1, GraphFields DEF Before
  <2>3. CASE job[p].kind = "sync"
    <3>1. live.k = snap.k
      BY <1>1, <1>4, <2>1, <2>3 DEF CheckpointGraph
    <3>2. Before(snap, live)
      BY <1>3, <3>1 DEF Before
    <3> QED
      BY <1>2, <2>1, <2>2, <2>3, <3>1, <3>2
  <2>4. CASE job[p].kind = "restore"
    <3>1. snap.n = end /\ live.k < snap.k /\ snap.k <= restores
      BY <1>1, <1>4, <2>1, <2>4 DEF CheckpointGraph
    <3> QED
      BY <1>2, <1>4, <2>1, <2>2, <2>4, <3>1
  <2> QED
    BY <2>1, <2>3, <2>4
<1>5. CASE p = "forced"
  <2>1. job[p].kind = "forced"
    BY <1>1, <1>5 DEF Held
  <2>2. job[p].graph = live /\ endSynced = end /\ snap.k = live.k
    BY <1>1, <1>5, <2>1 DEF ForcedGraph
  <2>3. Before(live, Graph(snapSynced.k, endSynced)) /\ Before(live, live)
    BY <1>3, <2>2, GraphFields DEF Before
  <2> QED
    BY <1>2, <2>1, <2>2, <2>3
<1> QED
  BY <1>4, <1>5

\* The latest of two graphs that are before a third is before it.
LEMMA LatestBefore ==
  ASSUME NEW f \in Graphs, NEW g \in Graphs, NEW h, Before(f, h), Before(g, h)
  PROVE  Before(Latest(f, g), h) /\ Latest(f, g) \in Graphs
BY DEF Latest

\* What is saved stays behind what is promised when both take in a graph.
LEMMA LatestMonotone ==
  ASSUME NEW f \in Graphs, NEW g \in Graphs, NEW h \in Graphs, Before(f, g)
  PROVE  Before(Latest(f, h), Latest(g, h))
<1>1. /\ Latest(g, h) \in Graphs /\ Before(g, Latest(g, h)) /\ Before(h, Latest(g, h))
  BY LatestIs
<1>2. Before(f, Latest(g, h))
  BY <1>1, BeforeTrans
<1> QED
  BY <1>1, <1>2, LatestBefore

LEMMA JobSyncs ==
  ASSUME ArchiveInv, NEW p \in {"checkpoint", "forced"}, SyncContainer(p)
  PROVE  ArchiveInv'
<1>1. /\ TypeOK /\ Held /\ AtRest /\ WorkWhole /\ WorkEntry /\ LiveIsNewest /\ CheckpointGraph
      /\ ForcedGraph /\ CopyWhole /\ BoxWhole /\ ClosesFull
  BY DEF ArchiveInv
<1>2. p \in Writers /\ p # "worker" /\ "checkpoint" \in Writers /\ "forced" \in Writers
  BY DEF Writers
<1>3. PICK g : g = job[p].graph
  OBVIOUS
<1>4. /\ job[p].pc = "sync_parent" /\ boxSynced' = box /\ workSynced' = work
      /\ Release(p) /\ dirty' = FALSE
      /\ promised' = Latest(promised, g) /\ saved' = Latest(saved, g)
      /\ IF job[p].kind = "restore"
         THEN live' = g /\ lived' = lived \cup {g} /\ kept' = kept \cup {g}
         ELSE UNCHANGED <<live, lived, kept>>
      /\ UNCHANGED <<phase, work, snap, snapSynced, first, firstSynced, end, endSynced,
                     durable_lsn, box, failure, poisoned, jobs, restores, stops>>
  BY <1>2, <1>3 DEF SyncContainer, At, Publish, wal, counts
<1>5. /\ Held' /\ job' \in [Writers -> Jobs]
      /\ job'[p].pc = "idle" /\ job'[p].kind = "none"
      /\ \A q \in Writers \ {p} : job'[q] = job[q]
      /\ {writer', write_lock'} \subseteq Writers \cup {Nobody}
  BY <1>1, <1>2, <1>4, ReleasedHeld
<1>6. /\ phase = "up" /\ work = "wal"
      /\ Before(g, Graph(snapSynced.k, endSynced))
      /\ job[p].kind # "restore" => Before(g, live) /\ live.k = snap.k
      /\ job[p].kind = "restore" =>
           /\ p = "checkpoint" /\ g = snap /\ snapSynced = snap
           /\ snap.n = end /\ live.k < snap.k /\ snap.k <= restores
  BY <1>3, <1>4, JobIsDurable
<1>7. /\ g \in Graphs /\ promised \in Graphs /\ saved \in Graphs /\ live \in Graphs
      /\ snap \in Graphs /\ g.k \in Nat /\ g.n \in Nat /\ live.k \in Nat /\ live.n \in Nat
      /\ snap.k \in Nat /\ kept \subseteq lived /\ lived \subseteq Graphs
  BY <1>1, <1>2, <1>3, Types, GraphIs DEF TypeOK
<1>8. \A q \in Writers \ {p} : job[q].pc \notin Installing \cup Writing
  BY <1>1, <1>2, <1>4, Alone DEF Writing
<1>9. /\ live' \in Graphs /\ live' \in kept' /\ Before(g, live') /\ Before(promised, live')
      /\ live'.n = end /\ live'.k <= snapSynced.k /\ live'.k = snap.k
      /\ kept \subseteq kept' /\ lived \subseteq lived' /\ kept' \subseteq lived' /\ lived' \subseteq Graphs
  <2>1. Before(promised, live) /\ live \in kept /\ live.n = end /\ live.k <= snapSynced.k
    BY <1>1, <1>6 DEF LiveIsNewest
  <2>2. CASE job[p].kind = "restore"
    <3>1. live' = snap /\ g = snap /\ kept' = kept \cup {g} /\ lived' = lived \cup {g}
      BY <1>4, <1>6, <2>2
    <3>2. Before(live, snap) /\ Before(snap, snap)
      BY <1>6, <1>7, <2>2, BeforeIs, BeforeSelf
    <3>3. Before(promised, snap)
      BY <1>7, <2>1, <3>2, BeforeTrans
    <3> QED
      BY <1>6, <1>7, <2>2, <3>1, <3>2, <3>3
  <2>3. CASE job[p].kind # "restore"
    BY <1>4, <1>6, <1>7, <2>1, <2>3
  <2> QED
    BY <2>2, <2>3
<1>10. /\ promised' \in Graphs /\ saved' \in Graphs
       /\ Before(promised', Graph(snapSynced.k, endSynced)) /\ Before(saved', promised')
       /\ Before(promised', live')
  <2>1. Before(promised, Graph(snapSynced.k, endSynced)) /\ Before(saved, promised)
    BY <1>1 DEF WorkWhole
  <2>2. promised' \in Graphs /\ Before(promised', Graph(snapSynced.k, endSynced))
    BY <1>4, <1>6, <1>7, <2>1, LatestBefore
  <2>3. saved' \in Graphs /\ Before(saved', promised')
    BY <1>4, <1>7, <2>1, LatestIs, LatestMonotone
  <2>4. Before(promised', live')
    BY <1>4, <1>7, <1>9, LatestBefore
  <2> QED
    BY <2>2, <2>3, <2>4
<1>11. TypeOK'
  <2>1. {dirty', failure', poisoned'} \subseteq BOOLEAN /\ {work', workSynced'} \subseteq {"none", "dir", "wal"}
    BY <1>1, <1>4 DEF TypeOK
  <2>2. {box', boxSynced'} \subseteq Copies
        /\ {snap', snapSynced', live', promised', saved'} \subseteq Graphs
    BY <1>1, <1>4, <1>9, <1>10 DEF TypeOK
  <2> QED
    BY <1>1, <1>4, <1>5, <1>9, <2>1, <2>2 DEF TypeOK
<1>12. WorkWhole'
  <2>1. \A h \in kept' : h.k <= restores
    BY <1>1, <1>4, <1>6 DEF WorkWhole
  <2> QED
    BY <1>1, <1>4, <1>9, <1>10, <2>1 DEF WorkWhole
<1>13. WorkEntry' /\ ClosesFull' /\ AtRest'
  BY <1>1, <1>4, <1>6, WorkEntryWal, NotClosing DEF AtRest
<1>14. CopyWhole'
  <2>1. \A q \in Writers : job'[q].pc \notin {"segments", "replace", "sync_parent"}
    BY <1>5, <1>8 DEF Writing
  <2> QED
    BY <2>1 DEF CopyWhole
<1>15. BoxWhole'
  <2>1. PICK c : c = box
    OBVIOUS
  <2>2. Whole(c) /\ c.snap = snap /\ Before(g, Graph(snap.k, c.end)) /\ c = job[p].copy
    BY <1>1, <1>2, <1>3, <1>4, <2>1 DEF CopyWhole
  <2>3. Before(saved', Graph(c.snap.k, c.end))
    BY <1>4, <1>7, <2>2, LatestBefore DEF Whole
  <2>4. Whole(c)'
    BY <1>9, <2>2, <2>3 DEF Whole
  <2> QED
    BY <1>4, <2>1, <2>4 DEF BoxWhole, Whole
<1>16. LiveIsNewest'
  <2>1. durable_lsn <= end /\ (durable_lsn = end => endSynced = end)
    BY <1>1, <1>6 DEF LiveIsNewest
  <2> QED
    BY <1>4, <1>9, <1>10, <2>1 DEF LiveIsNewest
<1>17. CheckpointGraph' /\ ForcedGraph'
  <2>1. CASE p = "checkpoint"
    <3>1. job'["forced"].kind = "none"
      BY <1>1, <1>2, <1>5, <1>8, <2>1 DEF Held
    <3> QED
      BY <1>5, <2>1, <3>1 DEF CheckpointGraph, ForcedGraph, Writing
  <2>2. CASE p = "forced"
    <3>1. job[p].kind # "restore" /\ job'["checkpoint"] = job["checkpoint"]
      BY <1>1, <1>2, <1>5, <2>2 DEF Held
    <3>2. UNCHANGED <<live, kept>>
      BY <1>4, <3>1
    <3> QED
      BY <1>1, <1>4, <1>5, <2>2, <3>1, <3>2, CheckpointGraphSame DEF ForcedGraph
  <2> QED
    BY <2>1, <2>2
<1> QED
  BY <1>5, <1>11, <1>12, <1>13, <1>14, <1>15, <1>16, <1>17 DEF ArchiveInv

LEMMA SyncContainerHolds ==
  ASSUME ArchiveInv, NEW p \in Writers, SyncContainer(p)
  PROVE  ArchiveInv'
<1>1. CASE p = "worker"
  BY <1>1, WorkerSyncs
<1>2. CASE p \in {"checkpoint", "forced"}
  BY <1>2, JobSyncs
<1> QED
  BY <1>1, <1>2 DEF Writers

-----------------------------------------------------------------------------
(* The end.                                                                *)

LEMMA CloseHolds ==
  ASSUME ArchiveInv, Close
  PROVE  ArchiveInv'
<1>1. /\ TypeOK /\ Held /\ AtRest /\ WorkWhole /\ WorkEntry /\ LiveIsNewest /\ CheckpointGraph
      /\ ForcedGraph /\ CopyWhole /\ BoxWhole
  BY DEF ArchiveInv
<1>2. /\ phase = "up" /\ phase' = "closing" /\ stops < MaxStops /\ stops' = stops + 1
      /\ job["checkpoint"].pc = "idle" /\ job["forced"].pc = "idle"
      /\ Fsynced /\ dirty' = TRUE
      /\ UNCHANGED <<work, workSynced, snap, snapSynced, first, firstSynced, end, box, boxSynced,
                     live, failure, write_lock, poisoned, writer, job, jobs, restores,
                     lived, kept, promised, saved>>
  BY DEF Close, Stop, At, dir, container, history
<1>3. endSynced' = end /\ durable_lsn' = end
  BY <1>1, <1>2, FsyncedIs
<1>4. work = "wal"
  BY <1>1, <1>2 DEF WorkEntry, TypeOK
<1>5. end \in Nat /\ end \in 0 .. MaxCommits
  BY <1>1, Types DEF TypeOK
<1>6. TypeOK'
  <2>1. endSynced' \in 0 .. end' /\ durable_lsn' \in 0 .. MaxCommits /\ stops' \in 0 .. MaxStops
    BY <1>1, <1>2, <1>3, <1>5, NamedArchiveAssumption DEF TypeOK
  <2>2. {dirty', failure', poisoned'} \subseteq BOOLEAN
    BY <1>1, <1>2 DEF TypeOK
  <2> QED
    BY <1>1, <1>2, <2>1, <2>2 DEF TypeOK
<1>7. Held' /\ CopyWhole' /\ BoxWhole' /\ WorkWhole'
  BY <1>1, <1>2, <1>3, HeldSame, CopyWholeSame, BoxWholeSame, FsyncedWhole
<1>8. AtRest' /\ WorkEntry'
  BY <1>1, <1>2, <1>4 DEF AtRest, WorkEntry
<1>9. LiveIsNewest'
  BY <1>1, <1>2, <1>3, <1>5 DEF LiveIsNewest
<1>10. CheckpointGraph' /\ ForcedGraph'
  BY <1>1, <1>2 DEF Held, CheckpointGraph, ForcedGraph, Writing
<1>11. ClosesFull'
  BY <1>2, <1>3, <1>4 DEF ClosesFull
<1> QED
  BY <1>6, <1>7, <1>8, <1>9, <1>10, <1>11 DEF ArchiveInv

\* The container that a database closes with.
LEMMA ClosedBox ==
  ASSUME ArchiveInv, WorkerReturned, ~ failure
  PROVE  /\ box = boxSynced /\ box # NoBox /\ Whole(box)
         /\ Rebuilt(box) = Graph(snap.k, end) /\ Graph(box.snap.k, box.end) = Graph(snap.k, end)
         /\ Rebuilt(box) \in kept /\ Before(promised, Rebuilt(box)) /\ Before(live, Rebuilt(box))
         /\ live.n = end /\ live.k <= snapSynced.k /\ endSynced = end /\ live \in Graphs
<1>1. TypeOK /\ WorkWhole /\ LiveIsNewest /\ BoxWhole /\ ClosesFull
  BY DEF ArchiveInv
<1>2. phase = "closing" /\ ~ dirty /\ job["worker"].pc = "idle"
  BY DEF WorkerReturned, At
<1>3. box = boxSynced /\ box.snap.k = snap.k /\ box.end = end /\ endSynced = end
  BY <1>1, <1>2 DEF ClosesFull, Full
<1>4. /\ end \in Nat /\ box \in Copies /\ live \in Graphs /\ live.k \in Nat /\ live.n \in Nat
      /\ snap.k \in Nat /\ snapSynced.k \in Nat
  BY <1>1, Types, GraphIs
<1>5. box # NoBox
  BY <1>3, <1>4, NoBoxIs
<1>6. Whole(box) /\ box.snap.n <= box.end
  BY <1>1, <1>5 DEF BoxWhole, Whole
<1>7. Rebuilt(box) = Graph(snap.k, end)
  BY <1>3, <1>4, <1>6, RebuiltIs
<1>8. Graph(snap.k, end) \in kept /\ Before(promised, Graph(snap.k, end))
  BY <1>1, WorkRebuilt
<1>9. live.n = end /\ live.k <= snapSynced.k /\ live.k <= snap.k
  BY <1>1, <1>2, <1>4 DEF LiveIsNewest, WorkWhole
<1>10. Before(live, Graph(snap.k, end))
  BY <1>4, <1>9, GraphFields DEF Before
<1> QED
  BY <1>3, <1>4, <1>5, <1>6, <1>7, <1>8, <1>9, <1>10

LEMMA remove_work_dirHolds ==
  ASSUME ArchiveInv, remove_work_dir
  PROVE  ArchiveInv'
<1>1. /\ TypeOK /\ Held /\ AtRest /\ WorkWhole /\ WorkEntry /\ LiveIsNewest /\ CheckpointGraph
      /\ ForcedGraph /\ CopyWhole /\ BoxWhole /\ ClosesFull
  BY DEF ArchiveInv
<1>2. /\ WorkerReturned /\ ~ failure /\ work = "wal" /\ work' = "none" /\ phase = "closing"
      /\ UNCHANGED <<phase, workSynced, snap, snapSynced, first, firstSynced, end, endSynced,
                     durable_lsn, box, boxSynced, live, dirty, failure, write_lock, poisoned, writer,
                     job, jobs, restores, stops, lived, kept, promised, saved>>
  BY DEF remove_work_dir, WorkerReturned, wal, container, archive, counts, history
<1>3. TypeOK'
  BY <1>1, <1>2 DEF TypeOK
<1>4. Held' /\ AtRest' /\ WorkWhole' /\ LiveIsNewest'
  BY <1>1, <1>2, HeldSame, AtRestSame, WorkWholeSame, LiveIsNewestSame
<1>5. CheckpointGraph' /\ ForcedGraph' /\ CopyWhole' /\ BoxWhole'
  BY <1>1, <1>2, CheckpointGraphSame, ForcedGraphSame, CopyWholeSame, BoxWholeSame
<1>6. WorkEntry'
  <2>1. workSynced = "wal"
    BY <1>1, <1>2 DEF WorkEntry
  <2>2. PICK c : c = box
    OBVIOUS
  <2>3. /\ boxSynced = c /\ c # NoBox /\ Rebuilt(c) \in kept /\ Before(promised, Rebuilt(c))
    BY <1>2, <2>2, ClosedBox
  <2> QED
    BY <1>2, <2>1, <2>2, <2>3 DEF WorkEntry
<1>7. ClosesFull'
  BY <1>1, <1>2 DEF ClosesFull, WorkerReturned, At, Full
<1> QED
  BY <1>3, <1>4, <1>5, <1>6, <1>7 DEF ArchiveInv

\* Of a process that is gone nothing is left but the files.
LEMMA DownHolds ==
  ASSUME Down
  PROVE  /\ Held' /\ AtRest' /\ LiveIsNewest' /\ CheckpointGraph' /\ ForcedGraph' /\ CopyWhole'
         /\ ClosesFull' /\ job' \in [Writers -> Jobs] /\ phase' = "down"
         /\ {dirty', failure', poisoned'} \subseteq BOOLEAN
         /\ {writer', write_lock'} \subseteq Writers \cup {Nobody}
         /\ live' \in Graphs /\ durable_lsn' = 0
<1>1. /\ phase' = "down" /\ dirty' = FALSE /\ failure' = FALSE /\ poisoned' = FALSE
      /\ writer' = Nobody /\ write_lock' = Nobody /\ job' = [p \in Writers |-> Idle]
      /\ durable_lsn' = 0 /\ live' = NoGraph
  BY DEF Down
<1>2. job' \in [Writers -> Jobs] /\ \A p \in Writers : job'[p].pc = "idle" /\ job'[p].kind = "none"
  BY <1>1, IdleIs
<1>3. Held'
  BY <1>1, <1>2 DEF Held, Nobody, Writers, Installing, Writing
<1>4. CheckpointGraph' /\ ForcedGraph' /\ CopyWhole'
  BY <1>2 DEF CheckpointGraph, ForcedGraph, CopyWhole, Writers, Writing
<1>5. AtRest' /\ LiveIsNewest' /\ ClosesFull'
  BY <1>1 DEF AtRest, LiveIsNewest, ClosesFull
<1> QED
  BY <1>1, <1>2, <1>3, <1>4, <1>5, NoGraphIs

LEMMA ClosedHolds ==
  ASSUME ArchiveInv, Closed
  PROVE  ArchiveInv'
<1>1. /\ TypeOK /\ WorkWhole /\ WorkEntry /\ BoxWhole /\ ClosesFull
  BY DEF ArchiveInv
<1>2. /\ WorkerReturned /\ phase = "closing" /\ (failure \/ work = "none") /\ Down
      /\ workSynced' = IF failure THEN workSynced ELSE work
      /\ UNCHANGED <<work, snap, snapSynced, first, firstSynced, end, endSynced, box, boxSynced,
                     jobs, restores, stops, lived, kept>>
      /\ IF failure \/ poisoned THEN UNCHANGED <<promised, saved>>
         ELSE promised' = live /\ saved' = live
  BY DEF Closed, WorkerReturned, container, counts
<1>3. /\ Held' /\ AtRest' /\ LiveIsNewest' /\ CheckpointGraph' /\ ForcedGraph' /\ CopyWhole'
      /\ ClosesFull' /\ job' \in [Writers -> Jobs] /\ phase' = "down"
      /\ {dirty', failure', poisoned'} \subseteq BOOLEAN
      /\ {writer', write_lock'} \subseteq Writers \cup {Nobody}
      /\ live' \in Graphs /\ durable_lsn' = 0
  BY <1>2, DownHolds
<1>4. /\ promised \in Graphs /\ saved \in Graphs /\ live \in Graphs /\ snapSynced.k \in Nat
      /\ live.k \in Nat /\ live.n \in Nat /\ 0 \in 0 .. MaxCommits
  BY <1>1, Types, GraphIs, NamedArchiveAssumption
<1>5. TypeOK'
  <2>1. /\ {work', workSynced'} \subseteq {"none", "dir", "wal"}
        /\ {snap', snapSynced', live', promised', saved'} \subseteq Graphs
    BY <1>1, <1>2, <1>3, <1>4 DEF TypeOK
  <2> QED
    BY <1>1, <1>2, <1>3, <1>4, <2>1 DEF TypeOK
<1>6. CASE UNCHANGED <<promised, saved>>
  <2>1. WorkWhole' /\ BoxWhole'
    BY <1>1, <1>2, <1>6, WorkWholeSame, BoxWholeSame
  <2>2. WorkEntry'
    BY <1>1, <1>2, <1>3, <1>6 DEF WorkEntry, ClosesFull
  <2> QED
    BY <1>3, <1>5, <2>1, <2>2 DEF ArchiveInv
<1>7. CASE ~ failure /\ promised' = live /\ saved' = live
  <2>1. PICK c : c = box
    OBVIOUS
  <2>2. PICK g : g = Graph(snap.k, end)
    OBVIOUS
  <2>3. /\ c = box /\ c = boxSynced /\ c # NoBox /\ Whole(c) /\ Rebuilt(c) = g
        /\ Graph(c.snap.k, c.end) = g
        /\ g \in kept /\ Before(live, g)
        /\ live.n = end /\ live.k <= snapSynced.k /\ endSynced = end
    BY <1>2, <1>7, <2>1, <2>2, ClosedBox
  <2>4. WorkWhole'
    <3>1. Before(live, Graph(snapSynced.k, endSynced)) /\ Before(live, live)
      BY <1>4, <2>3, GraphFields DEF Before
    <3> QED
      BY <1>1, <1>2, <1>7, <3>1 DEF WorkWhole
  <2>5. WorkEntry'
    BY <1>2, <1>3, <1>7, <2>3 DEF WorkEntry
  <2>6. BoxWhole'
    <3>1. Whole(c)'
      BY <1>2, <1>7, <2>3 DEF Whole
    <3> QED
      BY <1>2, <2>3, <3>1 DEF BoxWhole, Whole
  <2> QED
    BY <1>3, <1>5, <2>4, <2>5, <2>6 DEF ArchiveInv
<1> QED
  BY <1>2, <1>6, <1>7

LEMMA CrashHolds ==
  ASSUME ArchiveInv, Crash
  PROVE  ArchiveInv'
<1>1. /\ TypeOK /\ WorkWhole /\ WorkEntry /\ BoxWhole
  BY DEF ArchiveInv
<1>2. /\ Down /\ stops < MaxStops /\ stops' = stops + 1
      /\ UNCHANGED <<work, workSynced, snap, snapSynced, first, firstSynced, end, endSynced,
                     box, boxSynced, jobs, restores, lived, kept, promised, saved>>
  BY DEF Crash, Stop, dir, container, history
<1>3. /\ Held' /\ AtRest' /\ LiveIsNewest' /\ CheckpointGraph' /\ ForcedGraph' /\ CopyWhole'
      /\ ClosesFull' /\ job' \in [Writers -> Jobs] /\ phase' = "down"
      /\ {dirty', failure', poisoned'} \subseteq BOOLEAN
      /\ {writer', write_lock'} \subseteq Writers \cup {Nobody}
      /\ live' \in Graphs /\ durable_lsn' = 0
  BY <1>2, DownHolds
<1>4. TypeOK'
  <2>1. stops' \in 0 .. MaxStops /\ durable_lsn' \in 0 .. MaxCommits
    BY <1>1, <1>2, <1>3, NamedArchiveAssumption DEF TypeOK
  <2> QED
    BY <1>1, <1>2, <1>3, <2>1 DEF TypeOK
<1>5. WorkWhole' /\ BoxWhole'
  BY <1>1, <1>2, WorkWholeSame, BoxWholeSame
<1>6. WorkEntry'
  BY <1>1, <1>2, <1>3 DEF WorkEntry
<1> QED
  BY <1>3, <1>4, <1>5, <1>6 DEF ArchiveInv

LEMMA PowerLossHolds ==
  ASSUME ArchiveInv, PowerLoss
  PROVE  ArchiveInv'
<1>1. /\ TypeOK /\ WorkWhole /\ WorkEntry /\ BoxWhole
  BY DEF ArchiveInv
<1>2. /\ Down /\ stops < MaxStops /\ stops' = stops + 1
      /\ work' \in {work, workSynced} /\ workSynced' = work'
      /\ snap' \in {snap, snapSynced} /\ snapSynced' = snap'
      /\ first' \in firstSynced .. first /\ firstSynced' = first'
      /\ end' \in endSynced .. end /\ endSynced' = end'
      /\ box' \in {box, boxSynced} /\ boxSynced' = box'
      /\ UNCHANGED <<jobs, restores, lived, kept, promised, saved>>
  BY DEF PowerLoss, Stop, history
<1>3. /\ Held' /\ AtRest' /\ LiveIsNewest' /\ CheckpointGraph' /\ ForcedGraph' /\ CopyWhole'
      /\ ClosesFull' /\ job' \in [Writers -> Jobs] /\ phase' = "down"
      /\ {dirty', failure', poisoned'} \subseteq BOOLEAN
      /\ {writer', write_lock'} \subseteq Writers \cup {Nobody}
      /\ live' \in Graphs /\ durable_lsn' = 0
  BY <1>2, DownHolds
<1>4. /\ first \in Nat /\ firstSynced \in Nat /\ 1 <= firstSynced /\ first <= MaxCommits + 1
      /\ end \in Nat /\ endSynced \in Nat /\ end <= MaxCommits
      /\ snap \in Graphs /\ snapSynced \in Graphs /\ promised \in Graphs
      /\ snap.k \in Nat /\ snap.n \in Nat /\ snapSynced.k \in Nat /\ snapSynced.n \in Nat
      /\ promised.k \in Nat /\ promised.n \in Nat
  <2>1. firstSynced \in 1 .. first
    BY <1>1 DEF TypeOK
  <2> QED
    BY <1>1, <2>1, Types, GraphIs
<1>5. /\ first' \in Nat /\ first' <= first /\ 1 <= first' /\ end' \in Nat /\ endSynced <= end' /\ end' <= end
  BY <1>2, <1>4
<1>6. TypeOK'
  <2>1. /\ stops' \in 0 .. MaxStops /\ durable_lsn' \in 0 .. MaxCommits
        /\ firstSynced' \in 1 .. first' /\ first' \in 1 .. MaxCommits + 1
        /\ endSynced' \in 0 .. end' /\ end' \in 0 .. MaxCommits
    BY <1>1, <1>2, <1>3, <1>4, <1>5, NamedArchiveAssumption DEF TypeOK
  <2>2. /\ {work', workSynced'} \subseteq {"none", "dir", "wal"}
        /\ {snap', snapSynced', live', promised', saved'} \subseteq Graphs
        /\ {box', boxSynced'} \subseteq Copies
    BY <1>1, <1>2, <1>3 DEF TypeOK
  <2> QED
    BY <1>1, <1>2, <1>3, <2>1, <2>2 DEF TypeOK
<1>7. WorkWhole'
  <2>1. PICK s : s = snap'
    OBVIOUS
  <2>2. PICK e : e = end'
    OBVIOUS
  <2>3. /\ s \in {snap, snapSynced} /\ s.n \in Nat /\ s.k \in Nat /\ e \in Nat
        /\ endSynced <= e /\ e <= end
    BY <1>2, <1>4, <1>5, <2>1, <2>2
  <2>4. first' <= s.n + 1 /\ s.n <= e /\ snapSynced.k <= s.k
    BY <1>1, <1>4, <1>5, <2>3 DEF WorkWhole
  <2>5. \A n \in e .. e : Graph(s.k, n) \in kept
    <3>1. e \in endSynced .. end /\ \A n \in e .. e : n = e
      BY <1>4, <2>3
    <3> QED
      BY <1>1, <2>3, <3>1 DEF WorkWhole
  <2>6. Before(promised, Graph(s.k, e))
    <3>1. Before(promised, Graph(snapSynced.k, endSynced))
      BY <1>1 DEF WorkWhole
    <3> QED
      BY <1>4, <2>3, <2>4, <3>1, GraphFields DEF Before
  <2>7. ~(s.k < s.k) /\ s.k <= s.k /\ s.n <= s.n
    BY <2>3
  <2> QED
    BY <1>1, <1>2, <2>1, <2>2, <2>4, <2>5, <2>6, <2>7 DEF WorkWhole
<1>8. WorkEntry'
  BY <1>1, <1>2, <1>3 DEF WorkEntry
<1>9. BoxWhole'
  BY <1>1, <1>2 DEF BoxWhole, Whole
<1> QED
  BY <1>3, <1>6, <1>7, <1>8, <1>9 DEF ArchiveInv

-----------------------------------------------------------------------------
(* The theorems.                                                           *)

LEMMA StutterHolds ==
  ASSUME ArchiveInv, UNCHANGED vars
  PROVE  ArchiveInv'
<1>1. UNCHANGED <<phase, work, workSynced, snap, snapSynced, first, firstSynced, end, endSynced,
                  durable_lsn, box, boxSynced, live, dirty, failure, write_lock, poisoned, writer,
                  job, jobs, restores, stops, lived, kept, promised, saved>>
  BY DEF vars, dir, wal, container, archive, counts, history
<1>2. TypeOK'
  BY <1>1 DEF ArchiveInv, TypeOK
<1>3. Held' /\ AtRest' /\ WorkWhole' /\ WorkEntry' /\ LiveIsNewest'
  BY <1>1, HeldSame, AtRestSame, WorkWholeSame, WorkEntrySame, LiveIsNewestSame DEF ArchiveInv
<1>4. CheckpointGraph' /\ ForcedGraph' /\ CopyWhole' /\ BoxWhole' /\ ClosesFull'
  BY <1>1, CheckpointGraphSame, ForcedGraphSame, CopyWholeSame, BoxWholeSame, ClosesFullSame
     DEF ArchiveInv
<1> QED
  BY <1>2, <1>3, <1>4 DEF ArchiveInv

LEMMA NextHolds ==
  ASSUME ArchiveInv, Next, Ops \cap {"lost_entry", "lost_rename", "lost_tail"} = {}
  PROVE  ArchiveInv'
<1>1. "lost_entry" \notin Ops /\ "lost_rename" \notin Ops /\ "lost_tail" \notin Ops
  OBVIOUS
<1>2. CASE Prepare \/ OpenWal
  BY <1>1, <1>2, PrepareHolds, OpenWalHolds
<1>3. CASE Commit \/ force_fsync_wal_only
  BY <1>3, CommitHolds, force_fsync_wal_onlyHolds
<1>4. CASE Capture \/ CaptureRestore \/ Install \/ ReplaceSnapshot \/ SyncSnapshot \/ drop_covered_wal
  BY <1>4, CaptureHolds, CaptureRestoreHolds, InstallHolds, ReplaceSnapshotHolds,
     SyncSnapshotHolds, drop_covered_walHolds
<1>5. CASE WorkerTakes \/ WorkerLocks \/ persist_force
  BY <1>5, WorkerTakesHolds, WorkerLocksHolds, persist_forceHolds
<1>6. ASSUME NEW p \in Writers,
             CopySnapshot(p) \/ CopySegments(p) \/ ReplaceContainer(p) \/ SyncContainer(p) \/ WriteFails(p)
      PROVE  ArchiveInv'
  BY <1>6, CopySnapshotHolds, CopySegmentsHolds, ReplaceContainerHolds, SyncContainerHolds,
     WriteFailsHolds
<1>7. CASE InstallFails
  BY <1>7, InstallFailsHolds
<1>8. CASE Close \/ remove_work_dir \/ Closed \/ Crash \/ PowerLoss
  BY <1>8, CloseHolds, remove_work_dirHolds, ClosedHolds, CrashHolds, PowerLossHolds
<1> QED
  BY <1>2, <1>3, <1>4, <1>5, <1>6, <1>7, <1>8 DEF Next

\* The inductive invariant, of which the two below are consequences.
THEOREM ArchiveInvHolds ==
  ASSUME Ops \cap {"lost_entry", "lost_rename", "lost_tail"} = {}
  PROVE  Spec => []ArchiveInv
<1>1. ArchiveInv /\ [Next]_vars => ArchiveInv'
  BY NextHolds, StutterHolds
<1> QED
  BY <1>1, InitHolds, PTL DEF Spec

\* Whatever the process was doing when it died, lost power or was closed,
\* the next open (open_named) finds a WAL that reaches back to its snapshot,
\* and rebuilds a graph that was live with all that was promised.
THEOREM RecoversPromisedHolds ==
  ASSUME Ops \cap {"lost_entry", "lost_rename", "lost_tail"} = {}
  PROVE  Spec => []RecoversPromised
<1>1. ArchiveInv => RecoversPromised
  <2> SUFFICES ASSUME ArchiveInv PROVE RecoversPromised
    OBVIOUS
  <2>1. first <= snap.n + 1
    <3>1. TypeOK /\ WorkWhole
      BY DEF ArchiveInv
    <3>2. first \in Nat /\ snap.n \in Nat /\ snapSynced.n \in Nat
      BY <3>1, Types, GraphIs
    <3> QED
      BY <3>1, <3>2 DEF WorkWhole
  <2>2. Replays(Copy(snap, first, end))
    BY <2>1, CopyFields DEF Replays
  <2> QED
    BY <2>2 DEF ArchiveInv, LiveIsNewest, RecoversPromised
<1> QED
  BY <1>1, ArchiveInvHolds, PTL

\* The container that the worker, checkpoints and persists write (format.rs)
\* is at every step, and after a power loss at every step, a whole database
\* with all that a caller was told is in it.
THEOREM ContainerWholeHolds ==
  ASSUME Ops \cap {"lost_entry", "lost_rename", "lost_tail"} = {}
  PROVE  Spec => []ContainerWhole
<1>1. ArchiveInv => ContainerWhole
  <2> SUFFICES ASSUME ArchiveInv, NEW c \in {box, boxSynced}, c # NoBox
               PROVE  Replays(c) /\ Rebuilt(c) \in lived /\ Before(saved, Rebuilt(c))
    BY DEF ContainerWhole
  <2>1. Whole(c) /\ c \in Copies
    BY DEF ArchiveInv, BoxWhole, TypeOK
  <2>2. Rebuilt(c) = Graph(c.snap.k, c.end)
    BY <2>1, RebuiltIs DEF Whole
  <2> QED
    BY <2>1, <2>2 DEF Whole, Replays
<1> QED
  BY <1>1, ArchiveInvHolds, PTL

=============================================================================
