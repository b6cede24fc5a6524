----------------------------- MODULE ChangeHub -----------------------------
(***************************************************************************)
(* The change feed of a LoraDB database: crates/lora-database/src/changes  *)
(* (ChangeHub, Subscriber, ChangeFeed, HistoryReplay) and its entry points *)
(* in database/changes.rs, over the durability of the WAL.                 *)
(*                                                                         *)
(* One writer at a time appends a commit to the WAL and then, still under  *)
(* the writer mutex, publishes its batch into the hub.  Threads that fsync *)
(* the WAL advance `durable_lsn` under the WAL's lock and report it to the *)
(* hub afterwards, so reports arrive late and out of order.  Consumers     *)
(* open feeds, poll them, sleep on them, drop them and resume.             *)
(*                                                                         *)
(* Items.  `log` is what happened to the graph, in order: transactions     *)
(* with the LSN of their TxCommit, and restores with the LSN they are      *)
(* fenced at.  `id` names an item for ever; LSNs are handed out again when *)
(* a crash loses the tail.  A batch is an LSN and the item it reports; a   *)
(* delivered one also says whether it was built on the graph as it was at  *)
(* that commit (`good`).                                                   *)
(***************************************************************************)
EXTENDS Integers, Sequences, FiniteSets

CONSTANTS
  MaxLsn,      \* bound: LSNs handed out
  MaxItems,    \* bound: transactions and restores
  MaxCrash,    \* bound: crashes
  Feeds,       \* consumers, each with at most one feed open
  Capacity,    \* ChangeFeedOptions::buffer_size
  Retentions,  \* values of the retention limit (batches and bytes as one)
  WalModes,    \* what wal_backed may be
  Marker,      \* TRUE: managed snapshots; FALSE: a named database
  KeepOld,     \* SnapshotConfig::keep_old
  Ops          \* what may happen beside commits: subset of AllOps

AllOps == {"restore", "checkpoint", "catalog", "retention", "close",
           "fsync_fails", "process_crash", "power_loss", "truncate_replay"}

ASSUME ChangeHubAssumption ==
  /\ MaxLsn \in Nat /\ MaxItems \in Nat /\ MaxCrash \in Nat
  /\ Capacity \in Nat \ {0} /\ KeepOld \in Nat
  /\ Retentions \subseteq Nat /\ Retentions # {}
  /\ WalModes \subseteq BOOLEAN /\ Marker \in BOOLEAN /\ Ops \subseteq AllOps

NoLsn == -1
Ids == 1 .. MaxItems
Batch == [lsn : Nat, id : Ids]

VARIABLES
  \* the graph's history and the WAL
  log, ids,            \* items; the number of ids used
  next_lsn, durable_lsn,
  disk,                \* the last LSN a power loss cannot take
  oldest, bases,       \* first LSN still in the WAL; snapshots a replay can start from
  bg_failure,          \* a failed fsync, latched
  listener, reports,   \* durable listener installed; its calls not made yet
  writer,              \* what the holder of the writer mutex does next
  crashes,
  wal_backed,          \* FALSE: an in-memory database; never changes
  \* ChangeHub
  active, closed, last_lsn, last_assigned, deferred, durable,
  parked, ring, ring_floor, retention,
  \* ChangeFeed and Subscriber, one per consumer
  feed,
  \* consumers: resume token, where the current run of batches began,
  \* what was delivered since; the batches this process released
  token, begun, got, stream,
  since                \* ids used when capture began

wal   == <<next_lsn, durable_lsn, disk, oldest, bases, bg_failure, listener>>
hub   == <<active, closed, last_lsn, last_assigned, deferred, durable,
           parked, ring, ring_floor, retention, stream, since>>
eaten == <<token, begun, got>>
process == <<crashes, wal_backed>>
vars  == <<log, ids, wal, reports, writer, process, hub, feed, eaten>>

Bigger(a, b) == IF a > b THEN a ELSE b
Lesser(a, b) == IF a < b THEN a ELSE b

NoFeed == [status |-> "none", queue |-> <<>>, backlog |-> <<>>, last |-> NoLsn,
           errored |-> FALSE, asleep |-> FALSE, joined |-> 0,
           hist |-> "no", after |-> 0, upto |-> 0, base |-> 0, seen |-> {},
           pos |-> 0, from |-> 0, fresh |-> FALSE]

Idle == [at |-> "idle", lsn |-> 0, id |-> 0]

EmptyBase == [lsn |-> 0, has |-> {}]

\* How many items at the front of s have LSNs up to l.
UpTo(s, l) ==
  CHOOSE n \in 0 .. Len(s) :
    /\ \A i \in 1 .. n : s[i].lsn <= l
    /\ n < Len(s) => s[n + 1].lsn > l

-----------------------------------------------------------------------------
\* The graph after the first n items: a restore replaces everything.
GraphAt(n) ==
  {log[i].id : i \in {i \in 1 .. n : \A j \in i + 1 .. n : log[j].kind # "restore"}}

Txs == {log[i] : i \in {i \in DOMAIN log : log[i].kind = "tx"}}

Init ==
  /\ log = <<>> /\ ids = 0
  /\ next_lsn = 1 /\ durable_lsn = 0 /\ disk = 0 /\ oldest = 1 /\ bases = {}
  /\ bg_failure = FALSE /\ listener = FALSE /\ reports = {}
  /\ writer = Idle /\ crashes = 0 /\ wal_backed \in WalModes
  /\ active = FALSE /\ closed = FALSE /\ last_lsn = 0 /\ last_assigned = 0
  /\ deferred = FALSE /\ durable = 0 /\ parked = <<>> /\ ring = <<>>
  /\ ring_floor = 0 /\ retention \in Retentions
  /\ feed = [f \in Feeds |-> NoFeed]
  /\ token = [f \in Feeds |-> NoLsn] /\ begun = [f \in Feeds |-> NoLsn]
  /\ got = [f \in Feeds |-> <<>>] /\ stream = <<>> /\ since = 0

-----------------------------------------------------------------------------
\* Variant: the consumer is not woken.
PushNoWake(F, bs) ==
  LET room == Capacity - Len(F.queue) IN
  IF F.status # "open" \/ bs = <<>> THEN F
  ELSE IF Len(bs) <= room THEN [F EXCEPT !.queue = @ \o bs]
       ELSE [F EXCEPT !.queue = @ \o SubSeq(bs, 1, room), !.status = "lagged"]

(* Subscriber::push, for the batches bs one after the other: those that    *)
(* fit, then Lagged; feeds that are not open ignore them.  Pushing wakes   *)
(* the consumer.                                                           *)

Push(F, bs) ==
  LET room == Capacity - Len(F.queue) IN
  IF F.status # "open" \/ bs = <<>> THEN F
  ELSE IF Len(bs) <= room
       THEN [F EXCEPT !.queue = @ \o bs, !.asleep = FALSE]
       ELSE [F EXCEPT !.queue = @ \o SubSeq(bs, 1, room), !.status = "lagged",
                      !.asleep = FALSE]

\* Variant: one batch too many is kept.
TrimmedLate(r, limit) == SubSeq(r, Bigger(Len(r) - limit, 1), Len(r))

\* Variant: the floor is left behind by an eviction.
FloorAfterKept(r, limit, floor) == floor

(* trim_ring: evict from the front while over the limit. *)
Trimmed(r, limit) == SubSeq(r, Bigger(Len(r) - limit, 0) + 1, Len(r))
FloorAfter(r, limit, floor) ==
  IF Len(r) > limit THEN r[Len(r) - limit].lsn ELSE floor

(* release, for the batches bs one after the other. *)
Release(bs) ==
  /\ last_lsn' = IF bs = <<>> THEN last_lsn ELSE bs[Len(bs)].lsn
  /\ ring' = Trimmed(ring \o bs, retention)
  /\ ring_floor' = FloorAfter(ring \o bs, retention, ring_floor)
  /\ feed' = [f \in Feeds |-> Push(feed[f], bs)]
  /\ stream' = stream \o bs

Batches(ps) == [i \in DOMAIN ps |-> ps[i].batch]

\* Variant: one batch for each report.
ReadyOne(d) == IF parked # <<>> /\ parked[1].needs <= d THEN 1 ELSE 0

\* How many parked batches a durable LSN of d hands out: the longest prefix
\* that waits for nothing more.
Ready(d) ==
  CHOOSE n \in 0 .. Len(parked) :
    /\ \A i \in 1 .. n : parked[i].needs <= d
    /\ n < Len(parked) => parked[n + 1].needs > d

\* Variant: one parked batch too many is taken off the queue.
on_durableDropping ==
  \E d \in reports :
    /\ reports' = reports \ {d}
    /\ IF d <= durable
       THEN UNCHANGED <<hub, feed>>
       ELSE LET n == Ready(d) IN
            /\ durable' = d
            /\ parked' = SubSeq(parked, n + 2, Len(parked))
            /\ Release(SubSeq(Batches(parked), 1, n))
            /\ UNCHANGED <<active, closed, last_assigned, deferred, retention, since>>
    /\ UNCHANGED <<log, ids, wal, writer, process, eaten>>

(* on_durable, called by the thread that ran the fsync. *)
on_durable ==
  \E d \in reports :
    /\ reports' = reports \ {d}
    /\ IF d <= durable
       THEN UNCHANGED <<hub, feed>>
       ELSE LET n == Ready(d) IN
            /\ durable' = d
            /\ parked' = SubSeq(parked, n + 1, Len(parked))
            /\ Release(SubSeq(Batches(parked), 1, n))
            /\ UNCHANGED <<active, closed, last_assigned, deferred, retention, since>>
    /\ UNCHANGED <<log, ids, wal, writer, process, eaten>>

(* publish_when_durable: a batch that has nothing to wait for is released, *)
(* any other is parked behind the earlier ones.                            *)
MayRelease(needs) == ~deferred \/ (parked = <<>> /\ needs <= durable)

\* Variant: the newest batch is parked first.
publish_stacked(lsn, id, needs) ==
  IF closed THEN UNCHANGED <<hub, feed>>
  ELSE LET b == [lsn |-> lsn, id |-> id] IN
       /\ last_assigned' = lsn
       /\ IF MayRelease(needs)
          THEN Release(<<b>>) /\ UNCHANGED parked
          ELSE /\ parked' = <<[needs |-> needs, batch |-> b]>> \o parked
               /\ UNCHANGED <<last_lsn, ring, ring_floor, stream, feed>>
       /\ UNCHANGED <<active, closed, deferred, durable, retention, since>>

publish_when_durable(lsn, id, needs) ==
  IF closed THEN UNCHANGED <<hub, feed>>
  ELSE LET b == [lsn |-> lsn, id |-> id] IN
       /\ last_assigned' = lsn
       /\ IF MayRelease(needs)
          THEN Release(<<b>>) /\ UNCHANGED parked
          ELSE /\ parked' = Append(parked, [needs |-> needs, batch |-> b])
               /\ UNCHANGED <<last_lsn, ring, ring_floor, stream, feed>>
       /\ UNCHANGED <<active, closed, deferred, durable, retention, since>>

-----------------------------------------------------------------------------
(* Writers.  The WAL commit and the publication of its batch are two steps *)
(* of one holder of the writer mutex; fsyncs fall between them.            *)

Up == ~closed /\ writer.at = "idle"
May(op) == op \in Ops
Item(kind, lsn) == [id |-> ids + 1, kind |-> kind, lsn |-> lsn]

Commit ==
  /\ Up /\ wal_backed /\ ~bg_failure /\ ids < MaxItems /\ next_lsn + 3 <= MaxLsn
  /\ log' = Append(log, Item("tx", next_lsn + 2)) /\ ids' = ids + 1
  /\ next_lsn' = next_lsn + 3
  /\ writer' = IF active THEN [at |-> "publish", lsn |-> next_lsn + 2, id |-> ids + 1] ELSE Idle
  /\ UNCHANGED <<durable_lsn, disk, oldest, bases, bg_failure, listener, reports,
                 process, hub, feed, eaten>>

publish ==
  /\ writer.at = "publish"
  /\ LET lsn == Bigger(writer.lsn, last_assigned + 1) IN
     publish_when_durable(lsn, writer.id, lsn)
  /\ writer' = Idle
  /\ UNCHANGED <<log, ids, wal, reports, process, eaten>>

\* An in-memory database numbers its own batches.
CommitInMemory ==
  /\ Up /\ ~wal_backed /\ ids < MaxItems
  /\ LET lsn == last_assigned + 1 IN
     /\ log' = Append(log, Item("tx", IF active THEN lsn ELSE 0)) /\ ids' = ids + 1
     /\ IF active THEN publish_when_durable(lsn, ids + 1, lsn) ELSE UNCHANGED <<hub, feed>>
  /\ UNCHANGED <<wal, reports, writer, process, eaten>>

\* A commit of index or constraint changes has no batch.
CatalogCommit ==
  /\ May("catalog") /\ Up /\ wal_backed /\ ~bg_failure /\ next_lsn + 3 <= MaxLsn
  /\ next_lsn' = next_lsn + 3
  /\ UNCHANGED <<log, ids, durable_lsn, disk, oldest, bases, bg_failure, listener,
                 reports, writer, process, hub, feed, eaten>>

-----------------------------------------------------------------------------
(* fsync, by any thread: everything written when it began becomes durable, *)
(* and the report to the hub is sent after the WAL's lock is released.     *)

Report(d) == reports' = IF listener THEN reports \cup {d} ELSE reports

Fsync ==
  /\ wal_backed /\ ~bg_failure /\ ~closed
  /\ \E l \in {t.lsn : t \in Txs} \cup {next_lsn - 1} :
       /\ l > durable_lsn
       /\ durable_lsn' = l /\ disk' = Bigger(disk, l) /\ Report(l)
  /\ UNCHANGED <<log, ids, next_lsn, oldest, bases, bg_failure, listener, writer,
                 process, hub, feed, eaten>>

FsyncFails ==
  /\ May("fsync_fails") /\ wal_backed /\ ~bg_failure /\ ~closed
  /\ bg_failure' = TRUE
  /\ UNCHANGED <<log, ids, next_lsn, durable_lsn, disk, oldest, bases, listener,
                 reports, writer, process, hub, feed, eaten>>

-----------------------------------------------------------------------------
(* activate_changes, under the writer mutex: the listener goes in, then    *)
(* the durable LSN is read, then the hub defers and starts capturing.      *)

ActivateListen ==
  /\ Up /\ ~active
  /\ IF wal_backed
     THEN /\ listener' = TRUE
          /\ writer' = [Idle EXCEPT !.at = "read"]
          /\ UNCHANGED hub
     ELSE /\ active' = TRUE /\ since' = ids
          /\ UNCHANGED <<listener, writer, closed, last_lsn, last_assigned, deferred,
                         durable, parked, ring, ring_floor, retention, stream>>
  /\ UNCHANGED <<log, ids, next_lsn, durable_lsn, disk, oldest, bases, bg_failure,
                 reports, process, feed, eaten>>

ActivateRead ==
  /\ writer.at = "read"
  /\ writer' = [at |-> "activate", lsn |-> durable_lsn, id |-> 0]
  /\ UNCHANGED <<log, ids, wal, reports, process, hub, feed, eaten>>

\* defer_until_durable(durable) and activate(head).
Activate ==
  /\ writer.at = "activate"
  /\ deferred' = TRUE /\ durable' = Bigger(durable, writer.lsn)
  /\ LET head == Bigger(next_lsn - 1, last_lsn) IN
     last_lsn' = head /\ last_assigned' = head /\ ring_floor' = head
  /\ active' = TRUE /\ since' = ids /\ writer' = Idle
  /\ UNCHANGED <<log, ids, wal, reports, process, closed, parked, ring, retention,
                 stream, feed, eaten>>

-----------------------------------------------------------------------------
(* Checkpoints: the WAL is fsynced, the snapshot stored with the fence it  *)
(* reaches, a marker appended (managed snapshots), the WAL it covers       *)
(* dropped up to a segment boundary, older snapshots pruned.               *)

Replaying(f) == feed[f].hist \in {"planned", "running"} /\ ~feed[f].errored
MayTruncate == May("truncate_replay") \/ \A f \in Feeds : ~Replaying(f)

\* Where the oldest segment may start after a truncation: segments start with
\* a transaction, and truncate_up_to keeps the active one and the one before.
SegmentBases ==
  {t.lsn - 2 : t \in {t \in Txs : \E u \in Txs : u.lsn > t.lsn}}

Stored(b) ==
  LET others == {o \in bases : o.lsn # b.lsn} IN
  IF Marker
  THEN {b} \cup {o \in others : Cardinality({n \in others : n.lsn > o.lsn}) < KeepOld}
  ELSE {b}

\* The checkpoint of a graph that holds the items `has`.
checkpoint(has) ==
  LET fence == next_lsn - 1
      next  == IF Marker THEN next_lsn + 1 ELSE next_lsn IN
  /\ next <= MaxLsn
  /\ next_lsn' = next
  /\ durable_lsn' = next - 1 /\ disk' = Bigger(disk, next - 1)
  /\ IF durable_lsn < next - 1 THEN Report(next - 1) ELSE UNCHANGED reports
  /\ bases' = Stored([lsn |-> fence, has |-> has])
  /\ oldest' \in {oldest} \cup
       (IF MayTruncate
        THEN {o \in SegmentBases : oldest <= o /\ o <= fence + 1}
        ELSE {})
  /\ UNCHANGED <<bg_failure, listener>>

Checkpoint ==
  /\ May("checkpoint") /\ Up /\ wal_backed /\ ~bg_failure
  /\ checkpoint(GraphAt(Len(log)))
  /\ UNCHANGED <<log, ids, writer, process, hub, feed, eaten>>

(* load_snapshot_from_reader: the restored graph is checkpointed, swapped  *)
(* in, and its Reset published, under one hold of the writer mutex.        *)
Restore ==
  /\ May("restore") /\ Up /\ wal_backed /\ ~bg_failure /\ ids < MaxItems
  /\ checkpoint({ids + 1})
  /\ log' = Append(log, Item("restore", next_lsn - 1)) /\ ids' = ids + 1
  /\ writer' = IF active THEN [at |-> "reset", lsn |-> next_lsn', id |-> ids + 1] ELSE Idle
  /\ UNCHANGED <<process, hub, feed, eaten>>

\* publish_reset: at most two Resets fit below the next commit's LSN.
publish_reset ==
  /\ writer.at = "reset"
  /\ LET lsn == Bigger(writer.lsn, last_assigned + 1) IN
     IF lsn <= writer.lsn + 1
     THEN publish_when_durable(lsn, writer.id, writer.lsn - 1)
     ELSE UNCHANGED <<hub, feed>>
  /\ writer' = Idle
  /\ UNCHANGED <<log, ids, wal, reports, process, eaten>>

RestoreInMemory ==
  /\ May("restore") /\ Up /\ ~wal_backed /\ ids < MaxItems
  /\ LET lsn == last_assigned + 1 IN
     /\ log' = Append(log, Item("restore", IF active THEN lsn ELSE 0)) /\ ids' = ids + 1
     /\ IF active THEN publish_when_durable(lsn, ids + 1, lsn) ELSE UNCHANGED <<hub, feed>>
  /\ UNCHANGED <<wal, reports, writer, process, eaten>>

-----------------------------------------------------------------------------
set_retention ==
  /\ May("retention") /\ active
  /\ \E r \in Retentions \ {retention} :
       /\ retention' = r
       /\ ring' = Trimmed(ring, r) /\ ring_floor' = FloorAfter(ring, r, ring_floor)
  /\ UNCHANGED <<log, ids, wal, reports, writer, process, active, closed, last_lsn,
                 last_assigned, deferred, durable, parked, stream, since, feed, eaten>>

Closed(F) == IF F.status \in {"none", "closed"} THEN F
             ELSE [F EXCEPT !.status = "closed", !.queue = <<>>, !.asleep = FALSE]

\* ChangeHub::close, when the database is dropped.
close ==
  /\ May("close") /\ active /\ Up
  /\ closed' = TRUE /\ parked' = <<>>
  /\ feed' = [f \in Feeds |-> Closed(feed[f])]
  /\ UNCHANGED <<log, ids, wal, reports, writer, process, active, last_lsn,
                 last_assigned, deferred, durable, ring, ring_floor, retention,
                 stream, since, eaten>>

\* ChangeFeed::close, or its closer on another thread.
close_feed(f) ==
  /\ May("close") /\ feed[f].status \notin {"none", "closed"} /\ feed[f].hist # "wanted"
  /\ feed' = [feed EXCEPT ![f] = Closed(@)]
  /\ UNCHANGED <<log, ids, wal, reports, writer, process, hub, eaten>>

-----------------------------------------------------------------------------
(* Opening a feed.                                                         *)

After(s, from) == SubSeq(s, UpTo(s, from) + 1, Len(s))

\* A consumer told that its history is gone reads the graph and starts over.
StartOver(f) ==
  /\ token' = [token EXCEPT ![f] = NoLsn] /\ begun' = [begun EXCEPT ![f] = NoLsn]
  /\ got' = [got EXCEPT ![f] = <<>>]

Opened == [NoFeed EXCEPT !.status = "open", !.joined = ids, !.after = last_lsn]

\* subscribe, without a resume point or with one: 0 asks for everything.
Subscribe(f) ==
  /\ active /\ ~closed /\ feed[f].status = "none"
  /\ \E from \in IF token[f] = NoLsn THEN {NoLsn, 0} ELSE {token[f]} :
       IF from > last_lsn
       THEN StartOver(f) /\ UNCHANGED feed
       ELSE /\ begun' = [begun EXCEPT ![f] = IF token[f] = NoLsn THEN from ELSE @]
            /\ feed' = [feed EXCEPT ![f] =
                 IF from = NoLsn THEN [Opened EXCEPT !.fresh = TRUE]
                 ELSE [Opened EXCEPT
                   !.last = from, !.backlog = After(ring, from),
                   !.hist = IF from >= ring_floor THEN "no" ELSE "wanted",
                   !.after = from, !.upto = ring_floor]]
            /\ UNCHANGED <<token, got>>
  /\ UNCHANGED <<log, ids, wal, reports, writer, process, hub>>

\* Variant: a base past the resume point will do.
CoversAhead(b, after) == oldest <= b.lsn + 1

(* HistoryReplay::plan: the newest base at or below the resume point past  *)
(* which the WAL still holds every record.                                 *)
Covers(b, after) == b.lsn <= after /\ oldest <= b.lsn + 1
Plan(f) ==
  /\ feed[f].hist = "wanted"
  /\ LET fit == IF wal_backed THEN {b \in bases \cup {EmptyBase} : Covers(b, feed[f].after)}
                ELSE {} IN
     IF fit = {}
     THEN feed' = [feed EXCEPT ![f] = NoFeed] /\ StartOver(f)
     ELSE /\ \E b \in fit :
               /\ \A o \in fit : o.lsn <= b.lsn
               /\ feed' = [feed EXCEPT ![f].hist = "planned", ![f].base = b.lsn,
                                       ![f].seen = b.has]
          /\ UNCHANGED eaten
  /\ UNCHANGED <<log, ids, wal, reports, writer, process, hub>>

Fails(f) == [feed EXCEPT ![f].errored = TRUE, ![f].status = "closed", ![f].queue = <<>>]

(* HistoryReplay::start: everything up to `upto` is made durable, the base *)
(* loaded, the WAL's segment files listed.                                 *)
HistoryStart(f) ==
  /\ feed[f].hist = "planned" /\ ~feed[f].errored
  /\ LET fsyncs == durable_lsn < feed[f].upto
         file   == {b \in bases : b.lsn = feed[f].base}
         lost   == Marker /\ feed[f].base # 0 /\ file = {}
         seen   == IF Marker /\ file # {} THEN (CHOOSE b \in file : TRUE).has
                   ELSE feed[f].seen IN
     /\ IF fsyncs /\ ~bg_failure
        THEN /\ durable_lsn' = next_lsn - 1 /\ disk' = Bigger(disk, next_lsn - 1)
             /\ Report(next_lsn - 1)
        ELSE UNCHANGED <<durable_lsn, disk, reports>>
     /\ feed' = IF (fsyncs /\ bg_failure) \/ lost THEN Fails(f)
                ELSE [feed EXCEPT ![f].hist = "running", ![f].seen = seen,
                                  ![f].pos = feed[f].base, ![f].from = oldest]
  /\ UNCHANGED <<log, ids, next_lsn, oldest, bases, bg_failure, listener, writer,
                 process, hub, eaten>>

Deliver(f, b) ==
  /\ token' = [token EXCEPT ![f] = b.lsn] /\ got' = [got EXCEPT ![f] = Append(@, b)]
  /\ UNCHANGED begun

Live(b) == [lsn |-> b.lsn, id |-> b.id, good |-> TRUE]

\* Variant: reads from the resume point, not from the base.
ToReadAfter(f) ==
  {i \in DOMAIN log : /\ log[i].kind = "tx" /\ log[i].lsn > Bigger(feed[f].pos, feed[f].after)
                      /\ log[i].lsn <= feed[f].upto /\ log[i].lsn >= feed[f].from}

\* Positions in `log` the replay of f has still to read.
ToRead(f) ==
  {i \in DOMAIN log : /\ log[i].kind = "tx" /\ log[i].lsn > feed[f].pos
                      /\ log[i].lsn <= feed[f].upto /\ log[i].lsn >= feed[f].from}

(* next_batch reads one transaction: up to the resume point it is applied  *)
(* silently, past it delivered.  A transaction that does not fit the graph *)
(* rebuilt so far may fail to apply; a file removed since the listing may  *)
(* fail to open.                                                           *)
HistoryNext(f) ==
  /\ feed[f].hist = "running" /\ ~feed[f].errored
  /\ IF feed[f].status = "closed" \/ ToRead(f) = {}
     THEN feed' = [feed EXCEPT ![f].hist = "no"] /\ UNCHANGED eaten
     ELSE LET i    == CHOOSE i \in ToRead(f) : \A j \in ToRead(f) : i <= j
              t    == log[i]
              good == feed[f].seen = GraphAt(i - 1)
              read == [feed EXCEPT ![f].pos = t.lsn, ![f].seen = @ \cup {t.id}] IN
          \/ /\ ~good \/ t.lsn < oldest
             /\ feed' = Fails(f) /\ UNCHANGED eaten
          \/ /\ t.lsn <= feed[f].after
             /\ feed' = read /\ UNCHANGED eaten
          \/ /\ t.lsn > feed[f].after
             /\ feed' = [read EXCEPT ![f].last = t.lsn, ![f].backlog = After(@, t.lsn)]
             /\ Deliver(f, [lsn |-> t.lsn, id |-> t.id, good |-> good])
  /\ UNCHANGED <<log, ids, wal, reports, writer, process, hub>>

-----------------------------------------------------------------------------
(* ChangeFeed::poll past the history, and the consumer around it.          *)

CaughtUp(f) == feed[f].hist = "no" /\ ~feed[f].errored /\ ~feed[f].asleep

\* A batch of the backlog the feed has not had yet.
NewTo(f, b) == feed[f].last = NoLsn \/ b.lsn > feed[f].last

PollBacklog(f) ==
  /\ CaughtUp(f) /\ feed[f].backlog # <<>>
  /\ LET b == Head(feed[f].backlog) IN
     IF NewTo(f, b)
     THEN /\ feed' = [feed EXCEPT ![f].backlog = Tail(@), ![f].last = b.lsn]
          /\ Deliver(f, Live(b))
     ELSE feed' = [feed EXCEPT ![f].backlog = Tail(@)] /\ UNCHANGED eaten
  /\ UNCHANGED <<log, ids, wal, reports, writer, process, hub>>

\* Variant: live batches first.
PollQueueFirst(f) ==
  /\ CaughtUp(f) /\ feed[f].queue # <<>>
  /\ LET b == Head(feed[f].queue) IN
     /\ feed' = [feed EXCEPT ![f].queue = Tail(@), ![f].last = b.lsn]
     /\ Deliver(f, Live(b))
  /\ UNCHANGED <<log, ids, wal, reports, writer, process, hub>>

PollQueue(f) ==
  /\ CaughtUp(f) /\ feed[f].backlog = <<>> /\ feed[f].queue # <<>>
  /\ LET b == Head(feed[f].queue) IN
     /\ feed' = [feed EXCEPT ![f].queue = Tail(@), ![f].last = b.lsn]
     /\ Deliver(f, Live(b))
  /\ UNCHANGED <<log, ids, wal, reports, writer, process, hub>>

\* The drained queue of a feed that fell behind: LORA_CHANGES_LAGGED.
PollLagged(f) ==
  /\ CaughtUp(f) /\ feed[f].backlog = <<>> /\ feed[f].queue = <<>>
  /\ feed[f].status = "lagged"
  /\ feed' = [feed EXCEPT ![f].status = "closed", ![f].errored = TRUE]
  /\ UNCHANGED <<log, ids, wal, reports, writer, process, hub, eaten>>

\* next_timeout: sleeps only if, under the subscriber's lock, there is
\* nothing to take and nothing has ended the feed.
Sleep(f) ==
  /\ CaughtUp(f) /\ feed[f].backlog = <<>>
  /\ feed[f].queue = <<>> /\ feed[f].status = "open"
  /\ feed' = [feed EXCEPT ![f].asleep = TRUE]
  /\ UNCHANGED <<log, ids, wal, reports, writer, process, hub, eaten>>

\* ChangeFeed::drop, at any time; what a closed feed still held is lost.
\* A consumer keeps its token and may resume.
Drop(f) ==
  /\ feed[f].status # "none" /\ feed[f].hist # "wanted"
  /\ feed' = [feed EXCEPT ![f] = NoFeed]
  /\ UNCHANGED <<log, ids, wal, reports, writer, process, hub, eaten>>

-----------------------------------------------------------------------------
(* The process ends, by itself or with the machine, and the database is    *)
(* opened again: what can be read is taken to be durable.                  *)

Reopened(cut, ondisk) ==
  /\ log' = SubSeq(log, 1, UpTo(log, cut))
  /\ next_lsn' = cut + 1 /\ durable_lsn' = cut /\ disk' = ondisk

Restart ==
  /\ wal_backed /\ crashes < MaxCrash /\ crashes' = crashes + 1
  /\ \/ May("process_crash") /\ Reopened(next_lsn - 1, disk)
     \/ May("power_loss") /\ \E cut \in disk .. next_lsn - 1 : Reopened(cut, cut)
  /\ bg_failure' = FALSE /\ listener' = FALSE /\ reports' = {} /\ writer' = Idle
  /\ active' = FALSE /\ closed' = FALSE /\ last_lsn' = 0 /\ last_assigned' = 0
  /\ deferred' = FALSE /\ durable' = 0 /\ parked' = <<>> /\ ring' = <<>>
  /\ ring_floor' = 0 /\ retention' \in Retentions /\ stream' = <<>> /\ since' = 0
  /\ feed' = [f \in Feeds |-> NoFeed]
  /\ UNCHANGED <<ids, oldest, bases, eaten, wal_backed>>

Writer ==
  \/ Commit \/ publish \/ CommitInMemory \/ CatalogCommit
  \/ ActivateListen \/ ActivateRead \/ Activate
  \/ Checkpoint \/ Restore \/ publish_reset \/ RestoreInMemory

Poll(f) == HistoryStart(f) \/ HistoryNext(f) \/ PollBacklog(f) \/ PollQueue(f)
           \/ PollLagged(f)

Consumer(f) ==
  Subscribe(f) \/ Plan(f) \/ Poll(f) \/ Sleep(f) \/ close_feed(f) \/ Drop(f)

Next ==
  \/ Writer \/ Fsync \/ FsyncFails \/ on_durable
  \/ set_retention \/ close \/ Restart
  \/ \E f \in Feeds : Consumer(f)

Spec == Init /\ [][Next]_vars

(* Fairness: the flusher fsyncs every interval, the thread that did reports*)
(* it, the writer mutex's holder goes on, a consumer that is awake polls.  *)
Fairness ==
  /\ WF_vars(Fsync) /\ WF_vars(on_durable)
  /\ WF_vars(publish) /\ WF_vars(ActivateRead) /\ WF_vars(Activate)
  /\ WF_vars(publish_reset)
  /\ \A f \in Feeds : WF_vars(Plan(f) \/ Poll(f))

LiveSpec == Spec /\ Fairness
=============================================================================
