---------------------------- MODULE ChangeHubInv ----------------------------
(* What the change feed must keep, whatever writers, fsyncs, reports,      *)
(* consumers, checkpoints and crashes do.                                  *)
EXTENDS ChangeHub

Items == [id : Ids, kind : {"tx", "restore"}, lsn : Nat]
Waiting == [needs : Nat, batch : Batch]
Delivered == [lsn : Nat, id : Ids, good : BOOLEAN]
Places == Nat \cup {NoLsn}
WriterState ==
  [at : {"idle", "publish", "reset", "read", "activate"}, lsn : Nat, id : Ids \cup {0}]
FeedState ==
  [status : {"none", "open", "lagged", "closed"}, queue : Seq(Batch),
   backlog : Seq(Batch), last : Places, errored : BOOLEAN, asleep : BOOLEAN,
   joined : Nat, hist : {"no", "wanted", "planned", "running"}, after : Nat,
   upto : Nat, base : Nat, seen : SUBSET Ids, pos : Nat, from : Nat, fresh : BOOLEAN]

\* Every variable stays in its type.
TypeOK ==
  /\ log \in Seq(Items) /\ ids \in 0 .. MaxItems
  /\ next_lsn \in Nat \ {0} /\ durable_lsn \in Nat /\ disk \in Nat /\ oldest \in Nat
  /\ bases \subseteq [lsn : Nat, has : SUBSET Ids] /\ reports \subseteq Nat
  /\ bg_failure \in BOOLEAN /\ listener \in BOOLEAN /\ wal_backed \in BOOLEAN
  /\ writer \in WriterState /\ crashes \in Nat
  /\ active \in BOOLEAN /\ closed \in BOOLEAN /\ deferred \in BOOLEAN
  /\ last_lsn \in Nat /\ last_assigned \in Nat /\ durable \in Nat /\ ring_floor \in Nat
  /\ parked \in Seq(Waiting) /\ ring \in Seq(Batch) /\ stream \in Seq(Batch)
  /\ retention \in Retentions /\ since \in Nat
  /\ feed \in [Feeds -> FeedState]
  /\ token \in [Feeds -> Places] /\ begun \in [Feeds -> Places]
  /\ got \in [Feeds -> Seq(Delivered)]

\* What was released and what is parked: the order in which all of it comes out.
Announced == stream \o Batches(parked)

Increasing(s) == \A i, j \in DOMAIN s : i < j => s[i].lsn < s[j].lsn

\* Batches leave the hub in commit order, however late or reordered the
\* reports of durable LSNs are: what was released and what is parked carries
\* increasing LSNs, the order of the commits they report (ChangeHub::publish,
\* on_durable).
StreamInOrder ==
  /\ Increasing(Announced)
  /\ \A i, j \in DOMAIN Announced : i < j => Announced[i].id < Announced[j].id
  /\ stream # <<>> => last_lsn = stream[Len(stream)].lsn
  /\ Announced # <<>> /\ ~closed => last_assigned = Announced[Len(Announced)].lsn

\* A parked batch waits for something: none is left behind by a report that
\* already covered it, and once every report has arrived the hub knows the
\* WAL's durable LSN, also when the fsync raced activate_changes.
HubHearsDurable ==
  active /\ deferred =>
    /\ parked # <<>> => parked[1].needs > durable
    /\ reports = {} => durable = durable_lsn

\* Since it was opened, a feed has delivered every batch the hub released up
\* to the one delivered last, resets included.
LiveComplete ==
  \A f \in Feeds : \A i \in DOMAIN stream :
    /\ feed[f].status \in {"open", "lagged"} /\ feed[f].last # NoLsn
    /\ stream[i].lsn > Bigger(feed[f].after, feed[f].upto)
    /\ stream[i].lsn <= feed[f].last
    => \E k \in DOMAIN got[f] : got[f][k].id = stream[i].id

\* "it first replays every batch after that LSN": a consumer that began at an
\* LSN and never started over has every transaction up to its token.
NothingSkipped ==
  \A f \in Feeds : got[f] # <<>> =>
    \A t \in Txs :
      t.lsn > (IF begun[f] = 0 THEN 0 ELSE got[f][1].lsn) /\ t.lsn <= token[f]
      => \E k \in DOMAIN got[f] : got[f][k].id = t.id

\* "a crash can never take back an LSN a consumer has seen": every transaction
\* delivered is still there under its LSN.
NeverTakenBack ==
  \A f \in Feeds : \A k \in DOMAIN got[f] :
    \E i \in DOMAIN log : /\ log[i].id = got[f][k].id
                          /\ log[i].kind = "tx" => log[i].lsn = got[f][k].lsn

\* A transaction delivered from history was rebuilt on the graph as it was at
\* that commit ("Created and updated entities carry their state after the
\* commit").
HistoryTrue == \A f \in Feeds : \A k \in DOMAIN got[f] : got[f][k].good

\* Every restore since capture began has a Reset at or after it on its way or
\* out ("one per committed write (..., snapshot restore)").
RestoresAnnounced ==
  active /\ ~closed /\ writer.at = "idle" =>
    \A i \in DOMAIN log :
      log[i].kind = "restore" /\ log[i].id > since =>
        \E k \in DOMAIN Announced :
          /\ Announced[k].id >= log[i].id
          /\ \E j \in DOMAIN log : log[j].id = Announced[k].id /\ log[j].kind = "restore"

\* "Without `from_lsn` the feed starts with the next commit": it delivers
\* nothing committed before it was opened.
StartsWithNextCommit ==
  \A f \in Feeds : feed[f].fresh =>
    \A k \in DOMAIN got[f] : got[f][k].id > feed[f].joined

\* "LSN of the newest batch handed to feeds ... On a WAL-backed database a
\* commit counts once it is durable": changes_head names no commit a power
\* loss can take.
HeadDurable ==
  active => \A t \in Txs : t.lsn <= last_lsn => t.lsn <= durable_lsn

-----------------------------------------------------------------------------
\* What the stream of durable transactions and the consumers' places in it are.
Durable ==
  LET s == SelectSeq(log, LAMBDA i : i.kind = "tx" /\ i.lsn <= durable_lsn) IN
  [i \in DOMAIN s |-> s[i].id]

Cursor(f) ==
  IF token[f] # NoLsn
  THEN Cardinality({t \in Txs : t.lsn <= durable_lsn /\ t.lsn <= token[f]})
  ELSE begun[f]

CS == INSTANCE ChangeStream WITH
        Txs <- Ids, durable <- Durable, cursor <- [f \in Feeds |-> Cursor(f)]

\* The feed implements ChangeStream: exactly once, in commit order, from
\* where the consumer left off, through every crash.
ImplementsStream == CS!Spec

-----------------------------------------------------------------------------
\* A parked batch is handed out unless the database closes or its WAL fails:
\* no report is lost and no thread has to wait for another.
ParkedReleased == parked # <<>> ~> parked = <<>> \/ bg_failure

\* A released batch reaches every open feed whose consumer polls, or the feed
\* tells it has ended; a Reset the ring no longer held when the feed was opened
\* is not in the WAL either.
EveryBatchHeard ==
  \A f \in Feeds, n \in Ids :
    ((\E i \in DOMAIN stream :
        /\ stream[i].id = n /\ feed[f].status = "open"
        /\ feed[f].last # NoLsn /\ stream[i].lsn > feed[f].last
        /\ stream[i].lsn > feed[f].upto \/ \E t \in Txs : t.id = n)
     ~> (feed[f].status # "open" \/ \E k \in DOMAIN got[f] : got[f][k].id = n))

-----------------------------------------------------------------------------
(* The inductive invariants behind the theorems of ChangeHubProofs.        *)

\* Capture is off or on, batches wait only in a database with a WAL, and the
\* writer mutex is between two steps only of what that needs.
Modes ==
  /\ ~active => /\ stream = <<>> /\ parked = <<>> /\ ring = <<>>
                /\ last_lsn = 0 /\ ring_floor = 0 /\ ~closed /\ ~deferred
                /\ \A f \in Feeds : feed[f].status = "none"
  /\ active => (deferred <=> wal_backed)
  /\ closed => parked = <<>> /\ writer.at = "idle"
  /\ writer.at \in {"publish", "reset"} => active
  /\ writer.at \in {"read", "activate"} => ~active
  /\ ~wal_backed => /\ writer.at = "idle" /\ parked = <<>> /\ bases = {} /\ reports = {}
                    /\ durable_lsn = 0 /\ durable = 0 /\ disk = 0
  /\ \A f \in Feeds :
       /\ feed[f].status = "none" => feed[f] = NoFeed
       /\ feed[f].hist \in {"planned", "running"} => wal_backed

\* Ids and LSNs grow along the log; a restore shares the LSN it is fenced at.
LogOrder ==
  /\ \A i \in DOMAIN log : log[i].id <= ids
  /\ \A i, j \in DOMAIN log : i < j => log[i].id < log[j].id
  /\ wal_backed => \A i \in DOMAIN log : log[i].lsn < next_lsn
  /\ wal_backed => \A i, j \in DOMAIN log : i < j =>
       log[i].lsn <= log[j].lsn /\ (log[j].kind = "tx" => log[i].lsn < log[j].lsn)
  /\ wal_backed => \A i \in DOMAIN log : log[i].kind = "tx" => log[i].lsn > 0

\* What a power loss keeps is durable, and a snapshot needs nothing else.
WalOrder ==
  /\ disk <= durable_lsn /\ durable_lsn < next_lsn
  /\ \A b \in bases : b.lsn <= disk

\* The hub's counters against the WAL's and against what the hub announced.
Numbers ==
  /\ last_lsn <= last_assigned
  /\ \A k \in DOMAIN Announced :
       /\ Announced[k].lsn <= last_assigned /\ Announced[k].id <= ids
       /\ IF k <= Len(stream) THEN Announced[k].lsn <= last_lsn ELSE Announced[k].lsn > last_lsn
       /\ writer.at \in {"publish", "reset"} => Announced[k].id < writer.id
  /\ wal_backed /\ active => last_assigned <= (IF Marker THEN next_lsn ELSE next_lsn + 1)
  /\ writer.at \in {"publish", "reset"} => writer.id = ids /\ ids > 0
  /\ writer.at = "publish" => writer.lsn = next_lsn - 1 /\ last_assigned < writer.lsn
  /\ writer.at = "reset" =>
       writer.lsn = next_lsn /\ (Marker => last_assigned < writer.lsn)

\* No durable LSN is kept from the hub: what it does not know is being reported.
Hears ==
  /\ durable <= durable_lsn /\ \A d \in reports : d <= durable_lsn
  /\ deferred \/ writer.at \in {"read", "activate"} => listener
  /\ parked # <<>> => parked[1].needs > durable
  /\ deferred => durable_lsn \in reports \cup {durable}
  /\ writer.at = "activate" =>
       writer.lsn <= durable_lsn /\ durable_lsn \in reports \cup {durable, writer.lsn}

HubInv == TypeOK /\ Modes /\ LogOrder /\ WalOrder /\ StreamInOrder /\ Numbers /\ Hears

\* The window really is one: `ring` is the end of what was released, the batches
\* above ring_floor (HubState::ring_floor, "Every published batch with an LSN
\* above this one is in `ring`").
EndOf(R, S, floor) ==
  /\ Len(R) <= Len(S)
  /\ \A k \in DOMAIN R : R[k] = S[Len(S) - Len(R) + k]
  /\ \A i \in DOMAIN S : S[i].lsn > floor <=> i > Len(S) - Len(R)
Window == ring_floor <= last_lsn /\ EndOf(ring, stream, ring_floor)

\* The batches P a feed has in store for its consumer are those of S above
\* `start` that it has not delivered, without a gap: G is what it delivered,
\* `last` the LSN of the last.
Stocked(P, start, last, status, S, G) ==
  /\ Increasing(P)
  /\ \A k \in DOMAIN P :
       (\E i \in DOMAIN S : S[i] = P[k]) /\ P[k].lsn > start /\ P[k].lsn > last
  /\ \A i \in DOMAIN S : S[i].lsn > start =>
       \/ S[i].lsn <= last /\ \E k \in DOMAIN G : G[k].id = S[i].id
       \/ \E k \in DOMAIN P : P[k] = S[i]
       \/ /\ status = "lagged" /\ S[i].lsn > last
          /\ \A k \in DOMAIN P : P[k].lsn < S[i].lsn

Start(F) == Bigger(F.after, F.upto)
Pending(F) == F.backlog \o F.queue
Store(F, S, G, head) ==
  F.status \in {"open", "lagged"} =>
    /\ F.last <= head /\ Start(F) <= head
    /\ F.hist # "no" => F.last <= F.upto
    /\ Stocked(Pending(F), Start(F), F.last, F.status, S, G)
Stores == \A f \in Feeds : Store(feed[f], stream, got[f], last_lsn)

LiveInv == HubInv /\ Window /\ Stores

\* With managed snapshots every restore gets a Reset of its own.
Resets ==
  active /\ ~closed => \A i \in DOMAIN log :
    log[i].kind = "restore" /\ log[i].id > since =>
      \/ \E k \in DOMAIN Announced : Announced[k].id = log[i].id
      \/ writer.at = "reset" /\ writer.id = log[i].id

\* The graph at LSN l of a log without restores.
GraphOf(s, l) == {s[i].id : i \in {i \in DOMAIN s : s[i].lsn <= l}}
GraphUpTo(l) == GraphOf(log, l)

\* What the history replay of a feed starts from and has rebuilt so far, as
\* long as the segments it needs stay.
Rebuilding(F) ==
  /\ F.hist = "planned" =>
       /\ F.seen = GraphUpTo(F.base) /\ F.base < next_lsn
       /\ ~F.errored => oldest <= F.base + 1
  /\ F.hist = "running" =>
       /\ F.seen = GraphUpTo(F.pos) /\ F.pos < next_lsn
       /\ F.from <= F.pos + 1

\* Without restores, every replay rebuilds the graph of its place in the log.
Rebuilt ==
  /\ \A i \in DOMAIN log : log[i].kind = "tx"
  /\ \A b \in bases : b.has = GraphUpTo(b.lsn)
  /\ \A f \in Feeds : Rebuilding(feed[f])
  /\ HistoryTrue

\* The LSNs that no crash takes back.
Kept == IF "power_loss" \in Ops THEN disk ELSE next_lsn - 1

\* Every transaction since capture began is announced, the others are below
\* what the retained batches reach back to.
Told(t) ==
  IF t.id > since
  THEN \/ \E k \in DOMAIN Announced : Announced[k].lsn = t.lsn /\ Announced[k].id = t.id
       \/ writer.at = "publish" /\ writer.id = t.id /\ writer.lsn = t.lsn
  ELSE t.lsn <= ring_floor
Captured == since <= ids /\ (active => \A t \in Txs : Told(t))

\* With n kept, LSN l can be shown: what committed up to l is within n, and
\* Resets reach over at most two LSNs more.
Fenced(l, n, T) == l <= n + 2 /\ \A t \in T : t.lsn <= l => t.lsn <= n
Seen(F, tok, n, T) ==
  Fenced(tok, n, T) /\ (F.hist = "running" /\ ~F.errored => Fenced(F.upto, n, T))

\* What leaves the hub, and what a consumer has, no crash takes back, when the
\* process and the power do not both fail.
HubSecured ==
  wal_backed =>
    /\ durable_lsn <= Kept
    /\ \A k \in DOMAIN parked : Fenced(parked[k].batch.lsn, parked[k].needs, Txs)
    /\ \A i \in DOMAIN stream : Fenced(stream[i].lsn, Kept, Txs)
FeedsSecured == wal_backed => \A f \in Feeds : Seen(feed[f], token[f], Kept, Txs)
MemorySecured ==
  ~wal_backed =>
    /\ \A f \in Feeds : token[f] <= (IF active THEN last_assigned ELSE NoLsn)
    /\ ~active => \A i \in DOMAIN log : log[i].lsn = 0
Secured == HubSecured /\ FeedsSecured /\ MemorySecured

\* The consumer's token is where its feed is.
Position(F, tok, beg, g) ==
  /\ tok = NoLsn <=> g = <<>>
  /\ beg \in {NoLsn, 0}
  /\ F.status # "none" =>
       /\ F.last = IF tok # NoLsn THEN tok ELSE beg
       /\ F.status = "closed" => F.errored

\* The history replay reads on where the feed is, from segments that are there.
Replay(F, old) ==
  F.status # "none" =>
    /\ F.hist # "no" => F.after < F.upto
    /\ F.hist \in {"wanted", "planned"} => F.last = F.after
    /\ F.hist = "planned" => F.base <= F.after /\ (~F.errored => old <= F.base + 1)
    /\ F.hist = "running" => F.last = Bigger(F.after, F.pos) /\ F.from <= F.pos + 1

\* No transaction lies between the history and the batches of the hub.
NoGap(F, T, mark) ==
  F.status # "none" =>
    /\ \A t \in T : t.id <= mark => t.lsn <= Start(F)
    /\ F.hist = "no" /\ ~F.errored /\ F.last # NoLsn =>
         \A t \in T : t.lsn <= F.last \/ t.lsn > Start(F)

Resumes ==
  \A f \in Feeds : /\ Position(feed[f], token[f], begun[f], got[f])
                   /\ Replay(feed[f], oldest) /\ NoGap(feed[f], Txs, since)

ResumeInv == LiveInv /\ Captured /\ Secured /\ Resumes /\ NothingSkipped /\ ~closed

-----------------------------------------------------------------------------
(* The vocabulary of the proofs: what the steps do to the feeds and to the   *)
(* hub.                                                                      *)

Statuses == {"none", "open", "lagged", "closed"}
Hists == {"no", "wanted", "planned", "running"}

\* A feed after a push; n of the batches fit, and the feed lags unless all do.
Pushed(F, q, s) == [F EXCEPT !.queue = q, !.status = s, !.asleep = FALSE]
Fits(F, bs, n, s, G) ==
  /\ G = Pushed(F, F.queue \o SubSeq(bs, 1, n), s)
  /\ s = "open" => n = Len(bs)
  /\ F.queue \o SubSeq(bs, 1, n) \in Seq(Batch) /\ s \in Statuses

\* A batch pushed to a feed: nothing, or the part of it that the queue takes.
PushedTo(F, bs, G) ==
  \/ G = F /\ (F.status # "open" \/ bs = <<>>)
  \/ /\ F.status = "open"
     /\ \E n \in 0 .. Len(bs) : /\ G.queue = F.queue \o SubSeq(bs, 1, n)
                                /\ G.status \in {"open", "lagged"}
                                /\ G.status = "open" => n = Len(bs)

\* A feed that ends with an error.
Ended(F, q) ==
  [F EXCEPT !.queue = q, !.status = "closed", !.errored = TRUE]

\* A feed whose history replay moves.
Moved(F, h, b, s, p, r) ==
  [F EXCEPT !.hist = h, !.base = b, !.seen = s, !.pos = p, !.from = r]

\* A feed that hands a batch out or reads past one.
Took(F, q, b, l, s, p) ==
  [F EXCEPT !.queue = q, !.backlog = b, !.last = l, !.seen = s, !.pos = p]

\* A feed whose consumer sleeps.
Slept(F) ==
  [F EXCEPT !.asleep = TRUE]

\* Feeds just opened.
FreshFeed(j, a) == [NoFeed EXCEPT !.status = "open", !.joined = j, !.after = a, !.fresh = TRUE]
ResumedFeed(j, a, u, b, h) ==
  [NoFeed EXCEPT !.status = "open", !.joined = j, !.last = a, !.backlog = b, !.hist = h,
                 !.after = a, !.upto = u]

\* The feed of f becomes G and no other changes.
Becomes(f, G) ==
  feed' \in [Feeds -> FeedState] /\ feed'[f] = G /\ \A g \in Feeds : g # f => feed'[g] = feed[g]

\* A feed whose replay does not go on.
Undisturbed(G, F) ==
  \/ G.hist \notin {"planned", "running"}
  \/ /\ G.hist = F.hist /\ G.seen = F.seen /\ G.base = F.base /\ G.pos = F.pos
     /\ G.from = F.from /\ (F.errored => G.errored)

\* The places of a feed that the hub does not move.
Alike(G, F) ==
  /\ G.last = F.last /\ G.errored = F.errored /\ G.hist = F.hist /\ G.after = F.after
  /\ G.upto = F.upto /\ G.base = F.base /\ G.pos = F.pos /\ G.from = F.from
  /\ G.status = F.status \/ (F.status = "open" /\ G.status = "lagged")

\* b is announced after the others.
Announces(b) ==
  /\ Len(Announced') = Len(Announced) + 1
  /\ \A k \in 1 .. Len(Announced) : Announced'[k] = Announced[k]
  /\ Announced'[Len(Announced) + 1] = b

\* A batch published: it leaves the hub, or it waits for the WAL.
SendsOn(b, needs) ==
  /\ ~closed /\ last_assigned' = b.lsn /\ b \in Batch
  /\ UNCHANGED <<active, closed, deferred, durable, retention, since>>
  /\ parked = <<>> /\ UNCHANGED parked /\ Release(<<b>>) /\ MayRelease(needs)
  /\ <<b>> \in Seq(Batch) /\ Announces(b)
Parks(b, needs) ==
  /\ ~closed /\ last_assigned' = b.lsn /\ b \in Batch
  /\ UNCHANGED <<active, closed, deferred, durable, retention, since>>
  /\ deferred /\ ~MayRelease(needs)
  /\ [needs |-> needs, batch |-> b] \in Waiting
  /\ parked' = Append(parked, [needs |-> needs, batch |-> b])
  /\ UNCHANGED <<last_lsn, ring, ring_floor, stream, feed>> /\ Announces(b)

\* Report d reaches the hub: bs, the first n of the parked batches, leave it.
HandsOut(d, n, bs) ==
  /\ \A k \in 1 .. n : parked[k].needs <= d
  /\ Len(bs) = n /\ \A k \in 1 .. n : bs[k] = parked[k].batch
  /\ Release(bs)
  /\ parked' \in Seq(Waiting) /\ Len(parked') = Len(parked) - n
  /\ \A k \in 1 .. Len(parked') : parked'[k] = parked[n + k]
  /\ Len(parked') > 0 => parked'[1].needs > d
Reaches(d) ==
  /\ UNCHANGED <<active, closed, last_assigned, deferred, retention, since>>
  /\ \E n \in 0 .. Len(parked), bs \in Seq(Batch) : HandsOut(d, n, bs)
  /\ Announced' = Announced

\* A feed opened to go on after LSN from, and one whose replay starts from base b.
ResumesFrom(f, from) ==
  /\ from <= last_lsn
  /\ from = IF token[f] = NoLsn THEN 0 ELSE token[f]
  /\ begun' = [begun EXCEPT ![f] = IF token[f] = NoLsn THEN from ELSE @]
  /\ After(ring, from) \in Seq(Batch)
  /\ Becomes(f, ResumedFeed(ids, from, ring_floor, After(ring, from),
                           IF from >= ring_floor THEN "no" ELSE "wanted"))
PlannedOn(f, b) ==
  /\ Covers(b, feed[f].after) /\ b.lsn \in Nat /\ b.has \in SUBSET Ids
  /\ Becomes(f, Moved(feed[f], "planned", b.lsn, b.has, feed[f].pos, feed[f].from))

\* The replay of f is at its end; it reads past transaction i, which the consumer
\* has; it reads i and hands it out.
ReadOut(f) ==
  /\ feed[f].status = "closed" \/ ToRead(f) = {}
  /\ UNCHANGED eaten
  /\ Becomes(f, Moved(feed[f], "no", feed[f].base, feed[f].seen, feed[f].pos, feed[f].from))
Reads(f, i, bl, la) ==
  /\ feed[f].status # "closed"
  /\ i \in DOMAIN log /\ \A j \in ToRead(f) : i <= j
  /\ Becomes(f, Took(feed[f], feed[f].queue, bl, la, feed[f].seen \cup {log[i].id}, log[i].lsn))
ReadsPast(f, i) ==
  log[i].lsn <= feed[f].after /\ UNCHANGED eaten
  /\ Reads(f, i, feed[f].backlog, feed[f].last)
ReadsOn(f, i) ==
  /\ log[i].lsn > feed[f].after
  /\ After(feed[f].backlog, log[i].lsn) \in Seq(Batch)
  /\ Reads(f, i, After(feed[f].backlog, log[i].lsn), log[i].lsn)
  /\ Deliver(f, [lsn |-> log[i].lsn, id |-> log[i].id, good |-> feed[f].seen = GraphAt(i - 1)])

\* A transaction that commits now is beyond what any consumer has seen.
Beyond(t) ==
  /\ t.lsn \in Nat /\ t.id \in Nat
  /\ \A f \in Feeds : t.lsn > token[f]
  /\ active => t.id > since /\ t.lsn > last_assigned
TxsGrow == \A t \in Txs' : t \in Txs \/ Beyond(t)
=============================================================================
