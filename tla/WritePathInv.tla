---------------------------- MODULE WritePathInv ----------------------------
(* What writers and readers may rely on, whichever way a write takes and   *)
(* wherever it fails.                                                      *)
EXTENDS WritePath

RecorderState ==
  [armed : BOOLEAN, buffer : 0 .. 2,
   poisoned : {"no", "commit", "query", "flush", "misuse"}]
WriterState ==
  [at : {"idle", "wait", "arm", "body", "commit", "check", "publish", "abort",
         "drop", "unwind", "abort_unwound", "release"},
   path : {"staged", "live", "tx"}, id : Ids \cup {0}, clash : BOOLEAN,
   staged : Graph, n : 0 .. 2]
ReaderState ==
  [at : {"idle", "loaded", "rows"}, seen : Graph, epoch : Nat, late : BOOLEAN]

\* Every variable stays in its type; the store's lock is only held by the
\* holder of the writer mutex.
TypeOK ==
  /\ live \in Graph /\ epoch \in Nat \ {0}
  /\ writer \in Writers \cup {Nobody} /\ handle \in {Nobody, writer}
  /\ recorder \in RecorderState
  /\ log \in Seq(Ids) /\ bg_failure \in BOOLEAN
  /\ wr \in [Writers -> WriterState] /\ rd \in [Readers -> ReaderState]
  /\ ids \in 0 .. MaxWrites /\ schema \subseteq Ids /\ reads \in 0 .. MaxReads
  /\ unwound \in BOOLEAN

Whole(g, s) == g.half = {} /\ g.ids = s

\* "so recovery and the live graph agree": while the database is not
\* poisoned, what readers can load is the log replayed, in the order of the
\* log, whole writes only; it misses at most the newest one, and that only
\* while its writer still holds the mutex.  (A write in place that panics
\* drops the store's lock before its scope poisons: see NoHalfRead.)
LiveIsTheLog ==
  handle = Nobody /\ ~Poisoned /\ ~unwound =>
    \/ Whole(live, log)
    \/ writer # Nobody /\ log # <<>> /\ Whole(live, SubSeq(log, 1, Len(log) - 1))

\* No rows are computed from a write that is not in the log, or from half of one:
\* not by a query of execute, however late it looks at the latch, and by the
\* reads that never look at it (streams, PROFILE, procedures, SHOW, read-only
\* transactions) only from a graph loaded after the latch was set.
ReadsCommitted ==
  ~unwound => \A r \in Readers : rd[r].at = "rows" /\ ~rd[r].late =>
    /\ rd[r].seen.half = {}
    /\ \E n \in 0 .. Len(log) : rd[r].seen.ids = SubSeq(log, 1, n)

\* "the next query also observes `poisoned() = Some(_)` and is rejected": no read
\* whatever gets the rows of a write whose commit failed.
NextQueryRejected ==
  ~unwound => \A r \in Readers : rd[r].at = "rows" =>
    \E n \in 0 .. Len(log) : rd[r].seen.ids = SubSeq(log, 1, n)

\* A read that passes the poison check, or loads before there is anything to
\* find, never gets rows of a half-applied write, also when that write panics
\* ("the scope then aborts the recorder and poisons it").
NoHalfRead ==
  \A r \in Readers : rd[r].at = "rows" /\ ~rd[r].late => rd[r].seen.half = {}

\* The recorder's protocol is never broken: no write finds it armed by
\* another, commits what it did not arm, or records outside its scope, also
\* after errors and panics ("so the next write can arm it again instead of
\* poisoning the WAL").
NeverMisused == recorder.poisoned # "misuse"

\* "callers can safely use it as a cache key": an epoch names one graph, so a
\* plan cached under the epoch a load returned was made for the graph every
\* other load of that epoch gets.
EpochNamesGraph ==
  handle = Nobody => \A r \in Readers : rd[r].epoch = epoch => rd[r].seen = live

\* "only sound for plans that cannot fail midway": a query that fails without
\* a panic and with a healthy disk never quarantines the database.
QuarantineForCause == recorder.poisoned = "query" => unwound

\* "Once the commit record is written the staged graph is published whatever
\* happens next": when the mutex is free, no logged write is missing.
LoggedIsPublished == writer = Nobody => \A k \in DOMAIN log : Has(live, {log[k]})

-----------------------------------------------------------------------------
(* The inductive invariant behind the theorems of WritePathProofs.         *)

\* The program counters say who holds the writer mutex and the store's lock.
Locks ==
  /\ \A t \in Writers : writer = t <=> wr[t].at \notin {"idle", "wait"}
  /\ \A t \in Writers :
       handle = t <=> On(t, "live") /\ wr[t].at \in {"commit", "abort", "drop", "unwind"}

\* The places each path passes through, and how far a write got there.
Places == \A t \in Writers :
  /\ At(t, "check") => On(t, "staged")
  /\ At(t, "publish") => ~On(t, "live")
  /\ wr[t].at \in {"drop", "unwind", "abort_unwound"} => On(t, "live")
  /\ wr[t].at \in {"arm", "abort"} => ~On(t, "tx")
  /\ At(t, "commit") => wr[t].n \in {0, 2}
  /\ At(t, "abort") /\ On(t, "live") => wr[t].n = 1
  /\ At(t, "abort_unwound") => unwound
  /\ ~At(t, "idle") => wr[t].id \in Ids

Scope == {"body", "commit", "abort", "unwind", "abort_unwound"}

\* While the recorder is healthy it is armed exactly by the write whose scope
\* is open, and its buffer is what that write has done.
Scopes ==
  recorder.poisoned = "no" =>
    /\ writer = Nobody => ~recorder.armed
    /\ \A t \in Writers : writer = t =>
         /\ recorder.armed <=> ~On(t, "tx") /\ wr[t].at \in Scope
         /\ recorder.armed => recorder.buffer = IF At(t, "body") THEN 0 ELSE wr[t].n

\* The log has one write more than the live graph.
Ahead == log # <<>> /\ Whole(live, SubSeq(log, 1, Len(log) - 1))

\* Where the writer t has to have brought its graph, and the live one.
Progress(t) ==
  /\ wr[t].at \in {"arm", "body", "drop", "release"} => Whole(live, log)
  /\ At(t, "abort") /\ On(t, "staged") => Whole(live, log)
  /\ wr[t].at \in {"arm", "body"} /\ ~On(t, "live") => wr[t].staged = live
  /\ At(t, "commit") =>
       IF On(t, "live")
       THEN Whole(live, IF wr[t].n = 0 THEN log ELSE Append(log, wr[t].id))
       ELSE Whole(live, log) /\ wr[t].staged = Applied(live, wr[t].id, wr[t].n)
  /\ wr[t].at \in {"check", "publish"} =>
       Whole(wr[t].staged, log) /\ (Whole(live, log) \/ Ahead)

Clean == ~Poisoned /\ ~unwound

\* Until something poisons the database, the graph follows the log.
Follows ==
  Clean => /\ writer = Nobody => Whole(live, log)
           /\ \A t \in Writers : writer = t => Progress(t)

\* Rows come from a prefix of the log, but for a late load; a graph loaded while nothing was wrong
\* is one as well.
CommittedPrefix(g) ==
  g.half = {} /\ \E n \in 0 .. Len(log) : g.ids = SubSeq(log, 1, n)

Loads == ~unwound => \A r \in Readers :
  /\ rd[r].at = "rows" /\ ~rd[r].late => CommittedPrefix(rd[r].seen)
  /\ rd[r].at = "loaded" /\ ~Poisoned => CommittedPrefix(rd[r].seen)

Epochs == \A r \in Readers :
  /\ rd[r].epoch <= epoch
  /\ handle = Nobody /\ rd[r].epoch = epoch => rd[r].seen = live

WriteInv ==
  /\ TypeOK /\ Locks /\ Places /\ Scopes /\ NeverMisused
  /\ Follows /\ Loads /\ Epochs
=============================================================================
