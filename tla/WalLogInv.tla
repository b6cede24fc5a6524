----------------------------- MODULE WalLogInv -----------------------------
(***************************************************************************)
(* The inductive invariants behind the theorems of WalLogProofs, kept      *)
(* apart from the proofs so that TLC can check them too.  LogInv is about  *)
(* files and LSNs, SyncInv adds what is fsynced and what snapshots cover,  *)
(* Inv which files a power loss can take and what was reported durable.    *)
(* ReadInv, BaseInv and OpenInv, at the end, are about what a reopen would *)
(* make of the files as they are.                                          *)
(***************************************************************************)
EXTENDS WalLog

Rotating == {"header", "syncdir", "seal"}
Running == up \in {"up", "creating"}
Unsynced == written \ synced

\* Which files there are, and where the counters may go next.
Shape ==
  /\ sealed \subseteq born
  /\ up = "up" => active \in born
  /\ up = "creating" => active \in dir \ born
  /\ Running => \A s \in sealed : s <= active
  /\ cpc # "idle" => up = "up"
  /\ cpc \in Rotating => active + 1 \in dir
  /\ cpc \in {"syncdir", "seal"} => active + 1 \in born
  /\ cpc \in Rotating \cup {"locked", "create", "append"} => cleft > 0
  /\ cpc = "batches" => cfirst > 0
  /\ \A s \in Flushers : fpc[s] # "idle" =>
       up = "up" /\ (s = "ckpt" => kpc \in {"fsync1", "fsync2"})
  /\ kpc # "idle" => up = "up"
  /\ kpc \in {"fsync1", "take"} => kholds /\ cpc = "idle"

\* Only the newest file may lack its header; records are in files that have
\* one; appends go to the active segment, and no later file has records.
Files ==
  /\ \A s \in dir \ born : \A t \in dir : t <= s
  /\ up = "up" => \A t \in dir : t <= active + 1
  /\ up = "creating" => \A t \in dir : t <= active
  /\ \A r \in written : r.seg \in born
  /\ Running => \A r \in written : r.seg <= active
  /\ \A r \in pending : r.seg = active
  /\ pending # {} => up = "up"
  /\ cpc \in Rotating \cup {"create"} => pending = {}

\* LSNs grow along the log and next_lsn is above all of them, also after the
\* rollback of a transaction that cannot be appended.
Order ==
  /\ \A r, q \in written : r.seg < q.seg => r.lsn < q.lsn
  /\ \A r \in written, q \in pending : r.lsn < q.lsn
  /\ Running => \A r \in written \cup pending : r.lsn < next_lsn
  /\ Running => durable_lsn < next_lsn /\ fence < next_lsn
  /\ kpc \in {"install", "mark", "fsync2", "truncate"} => klsn < next_lsn
  /\ \A s \in Flushers : fpc[s] \in {"written", "synced"} =>
       /\ flsn[s] < next_lsn
       /\ \A r \in pending : flsn[s] < r.lsn
  /\ cpc = "batches" =>
       /\ cfirst < next_lsn /\ durable_lsn < cfirst /\ fence < cfirst
       /\ kpc \in {"install", "mark", "fsync2", "truncate"} => klsn < cfirst
       /\ ~cflushed => \A r \in written : r.lsn < cfirst
       /\ \A s \in Flushers :
            fpc[s] \in {"written", "synced"} => flsn[s] < cfirst

\* Records that are not fsynced are the newest ones, in the active segment,
\* and no segment is started or sealed after them.
UnsyncedTail ==
  /\ up = "up" => \A r \in Unsynced : r.seg = active
  /\ up = "creating" => Unsynced = {}
  /\ cpc \in Rotating \cup {"create"} => Unsynced = {}
  /\ \A r \in Unsynced : r.seg \notin sealed
  /\ \A r \in Unsynced, q \in synced : q.lsn < r.lsn

\* A writer whose seal failed half way accepts no more records.
SealStops ==
  /\ up = "up" /\ active \in sealed => headerSealed
  /\ headerSealed => /\ pending = {}
                     /\ cpc = "failing" \/ (cpc = "idle" /\ poisoned)

\* A file a failed rotation left behind starts above what was unsynced then.
LeftOver ==
  /\ \A r \in Unsynced \cup pending, s \in born : s <= r.seg \/ base[s] <= r.lsn
  /\ up = "up" => \A s \in born : s > active =>
       /\ base[s] <= next_lsn
       /\ \/ cpc \in {"syncdir", "seal", "failing"}
          \/ cpc = "idle" /\ poisoned

\* A flush in progress covers every record up to the LSN it took.
InFlight ==
  \A s \in Flushers, r \in written :
    /\ fpc[s] = "written" /\ r.lsn <= flsn[s] => r \in synced \/ r.seg = fseg[s]
    /\ fpc[s] = "synced" /\ r.lsn <= flsn[s] => r \in synced

\* Segments start above everything written before them.
Bases ==
  /\ Running => \A r \in written, t \in born :
                   r.seg < t /\ t <= active => r.lsn < base[t]
  /\ cpc \in {"syncdir", "seal"} => base[active + 1] = next_lsn

\* The snapshot holds what its fence hides from replay, and so does the one
\* being written.
SnapCovers ==
  /\ \A c \in Commits(written \cup pending) : c.lsn <= fence => c.tx \in snapTx
  /\ Running => snapTx \subseteq live
  /\ kpc = "install" =>
       /\ snapTx \subseteq ktx /\ ktx \subseteq live
       /\ \A c \in Commits(written \cup pending) : c.lsn <= klsn => c.tx \in ktx
  /\ kpc \in {"mark", "fsync2", "truncate"} => klsn = fence

\* The live graph holds every transaction in the log but the one being
\* committed; a failed one poisons the recorder first.
LiveCovers ==
  /\ Running /\ cpc = "idle" /\ ~poisoned =>
       \A c \in Commits(written \cup pending) : c.tx \in live
  /\ cpc \notin {"idle", "failing"} =>
       \A c \in Commits(written \cup pending) : c.tx \in live \cup {ctx}
  /\ kpc = "take" => \A c \in Commits(written \cup pending) : c.tx \in live
  /\ \A s \in Flushers : s = "ckpt" /\ fpc[s] # "idle" /\ kpc = "fsync1" =>
       \A c \in Commits(written \cup pending) : c.tx \in live

\* When an fsync makes the file's directory entry durable, only the newest file
\* may go in a power loss, and with it nothing that was fsynced.
Entries ==
  "entry_unsynced" \notin Faults =>
    /\ \A s \in dir \ dirSynced : \A t \in dir : t <= s
    /\ \A r \in synced : r.seg \in dirSynced
    /\ sealed \subseteq dirSynced
    /\ cpc = "create" => active \in dirSynced
    /\ (\E r \in written : r.kind = "torn") => dirSynced = dir

\* What was reported durable is in the snapshot or in front of any bad frame.
Kept ==
  /\ Running => \A r \in written : r.kind # "torn"
  /\ \A r \in pending : r.kind # "torn"
  /\ \A t \in fsynced :
       \/ t \in snapTx
       \/ \E c \in Commits(synced) :
            /\ c.tx = t
            /\ \A r \in written : r.kind = "torn" => c.lsn < r.lsn

\* The log's own invariant, the one with what fsync and snapshots add, and the
\* one that needs a file system that makes a fsynced file's entry durable.
LogInv == TypeOK /\ Shape /\ Files /\ Order
SyncInv ==
  /\ LogInv
  /\ UnsyncedTail /\ SealStops /\ LeftOver /\ InFlight
  /\ Bases /\ SnapCovers /\ LiveCovers
Inv == SyncInv /\ Entries /\ Kept

-----------------------------------------------------------------------------
(* What a reopen reads and recovers.                                       *)

\* The records in front of any bad frame: what Readable computes.
Sound ==
  {r \in written : /\ r.kind # "torn"
                   /\ \A q \in written : q.kind = "torn" => r.lsn < q.lsn}

\* Only a power loss leaves bad frames, and nothing volatile with them; no two
\* records share an LSN.
Frames ==
  /\ Running => \A r \in written : r.kind # "torn"
  /\ \A r \in pending : r.kind # "torn"
  /\ (\E r \in written : r.kind = "torn") => Unsynced = {} /\ dirSynced = dir
  /\ \A r, q \in written \cup pending : r.lsn = q.lsn => r = q

\* No transaction has records on both sides of l.
SplitsNone(l) ==
  \A r \in written \cup pending :
    r.kind \in {"batch", "commit"} /\ r.lsn > l => r.ref > l

\* Fences are durable LSNs, which only grow and which flushes take between
\* transactions.
Fences ==
  /\ SplitsNone(fence)
  /\ Running => SplitsNone(durable_lsn) /\ fence <= durable_lsn
  /\ kpc \in {"install", "mark", "fsync2", "truncate"} =>
       SplitsNone(klsn) /\ fence <= klsn /\ klsn <= durable_lsn
  /\ \A s \in Flushers : fpc[s] \in {"written", "synced"} => SplitsNone(flsn[s])

\* The records from `first` to `last`, of one transaction in one segment.
Run(S, first, last, t, seg) ==
  \A l \in first .. last : \E r \in S :
    /\ r.lsn = l /\ r.tx = t /\ r.seg = seg
    /\ l = first => r.kind = "begin"

\* A batch or commit that replay would apply has its transaction's records from
\* the begin to it before it, in the same file.
Applied == {r \in Sound \cup pending : r.kind \in {"batch", "commit"} /\ r.lsn > fence}
Whole ==
  /\ \A r \in Applied :
       r.ref <= r.lsn /\ Run(Sound \cup pending, r.ref, r.lsn, r.tx, r.seg)
  /\ cpc = "batches" => Run(written \cup pending, cfirst, next_lsn - 1, ctx, active)

\* Transactions are in the log, and in the snapshots, in the order they began.
InLog(t) == t \in snapTx \/ \E c \in Commits(written \cup pending) : c.tx = t
Numbered ==
  /\ \A c, d \in Commits(written \cup pending) : c.lsn < d.lsn => c.tx < d.tx
  /\ \A c \in Commits(written \cup pending) :
       /\ c.tx \in snapTx \/ \A t \in snapTx : t < c.tx
       /\ kpc = "install" => c.tx \in ktx \/ \A t \in ktx : t < c.tx
  /\ \A t \in live : t <= started
  /\ \A t \in Txs : InLog(t) => t <= started
  /\ cpc \notin {"idle", "flush", "failing"} =>
       /\ ctx = started /\ ctx > 0 /\ ctx \notin live /\ ~InLog(ctx)
  /\ cpc = "flush" => InLog(ctx)
  /\ Running => \A t \in live : InLog(t)
  /\ Commits(pending) # {} =>
       cpc \in {"flush", "failing"} \/ (cpc = "idle" /\ poisoned)

\* Records are above the base of their file, and so is what comes next.
Starts ==
  /\ \A r \in written : base[r.seg] <= r.lsn
  /\ \A r \in pending : base[active] <= r.lsn
  /\ up = "up" => base[active] <= next_lsn
  /\ cpc = "batches" => base[active] <= cfirst

\* Nothing was skipped when a file was begun: what is right below its base is
\* covered by the fence or a record that no power loss takes.
Reached ==
  /\ up # "up" => ~poisoned
  /\ Running /\ cpc # "failing" /\ (poisoned => cpc # "idle") =>
       next_lsn - 1 <= fence \/ \E r \in written \cup pending : r.lsn = next_lsn - 1
  /\ \A s \in born : \/ base[s] - 1 <= fence
                      \/ \E r \in synced \cap Sound : base[s] - 1 <= r.lsn

\* The marker that took the LSN at which file t begins, a file no rotation got
\* to use; the marker may be a bad frame by now.
Clash(r, t) ==
  /\ r.lsn = base[t] /\ r.kind \in {"marker", "torn"}
  /\ \A s \in dir : s <= t
  /\ \A q \in written : q.seg # t

\* The files are a chain without gaps that the fence reaches into, each one
\* starting above what is in the ones before, but for such a marker.
Chain ==
  /\ \A s, t \in dir : \A u \in s .. t : u \in dir
  /\ \A s \in born : (\A t \in dir : s <= t) => base[s] - 1 <= fence
  /\ \A s, t \in born : s < t => base[s] < base[t]
  /\ \A r \in written, t \in born : r.seg < t => r.lsn < base[t] \/ Clash(r, t)
  /\ \A s \in sealed : \E r \in synced \cap Sound : r.seg = s
  /\ cpc \in Rotating \cup {"create"} => \E r \in written : r.seg = active
  /\ up = "creating" => /\ \A s \in born : base[s] < next_lsn
                        /\ next_lsn - 1 <= fence \/ \E s \in dir : s < active

\* While the file of a failed rotation is there, at most one record is appended
\* above its base: the marker of the checkpoint that had released the writers.
OneMarker ==
  up = "up" /\ active + 1 \in born =>
    \/ base[active + 1] = next_lsn
    \/ /\ base[active + 1] + 1 = next_lsn
       /\ poisoned \/ kpc \notin {"install", "mark"}
       /\ cpc \in {"idle", "failing"}
       /\ \A r \in written \cup pending : r.lsn = base[active + 1] => r.kind = "marker"

\* What may be lost is in the newest file with records, and when pages reach
\* the disk in order only its last frame is bad.
TornEnd ==
  /\ \A r \in written : r \in Unsynced \/ r.kind = "torn" =>
       r.seg \notin sealed /\ \A s \in born : s <= r.seg \/ Clash(r, s)
  /\ "reordered_pages" \notin Faults =>
       \A q \in written : q.kind = "torn" =>
         \A r \in written : r = q \/ r.lsn < q.lsn

\* Markers name fences of their time.
Markers ==
  /\ \A m \in written \cup pending : m.kind = "marker" =>
       m.ref <= m.lsn /\ m.ref <= fence
  /\ \A m, n \in written \cup pending :
       m.kind = "marker" /\ n.kind = "marker" /\ n.lsn < m.lsn => n.ref <= m.ref

\* What replay reads, whatever storage does; with durable directory entries;
\* and what of it replay accepts.
ReadInv == SyncInv /\ Frames /\ Fences /\ Whole /\ Numbered /\ Markers
BaseInv == Inv /\ ReadInv /\ Starts /\ Reached
OpenInv == BaseInv /\ Chain /\ OneMarker /\ TornEnd
=============================================================================
