------------------------------- MODULE Replay -------------------------------
(***************************************************************************)
(* Replay of the write-ahead log into the graph: ReplayState of            *)
(* crates/lora-wal/src/replay.rs, and the sink of open_wal_into in         *)
(* crates/lora-database/src/database/replay.rs.                            *)
(*                                                                         *)
(* The events of a transaction are buffered until its commit, up to        *)
(* PENDING_BUDGET_BYTES.  Past that they go to the sink before replay      *)
(* knows whether there is a commit (Partial); the sink applies them over a *)
(* clone and drops the clone at the commit or puts it back (Discard).      *)
(* WalLog models the files, the bad frames and the LSN checks around this. *)
(*                                                                         *)
(* Each step reads one record, which the log's writer chose among those it *)
(* can have written.  `open`, `logged`, `size` and `committed` say what is *)
(* in the log so far, whatever replay does with it.  An event is the LSN   *)
(* of its record.                                                          *)
(***************************************************************************)
EXTENDS Integers, Sequences, FiniteSets

CONSTANTS
  MaxLsn,        \* records in the log
  Budget,        \* PENDING_BUDGET_BYTES
  Fences,        \* checkpoint_lsn of the open
  BadSets,       \* sets of events that do not apply to the graph
  PrimitiveModes \* what `primitives` may be

Lsns == 1 .. MaxLsn

ASSUME ReplayAssumption ==
  /\ MaxLsn \in Nat /\ Budget \in Nat \ {0}
  /\ Fences \subseteq 0 .. MaxLsn /\ BadSets \subseteq SUBSET Lsns
  /\ PrimitiveModes \subseteq BOOLEAN

VARIABLES
  \* of this open; never change
  fence, bad,
  primitives,                  \* written with begin/append/commit/abort too
  \* the log read so far
  last_lsn, open, logged, size, committed, marked,
  \* ReplayState; a PendingTx is an LSN in `pending`, its events and its bytes
  pending, events, bytes, streaming, withdrawn, checkpoint_lsn_observed,
  \* the sink: the graph, its clone (at most one), a failed Partial step
  sink,
  status                       \* "reading", "done" or "failed"

log == <<last_lsn, open, logged, size, committed, marked>>
state == <<pending, events, bytes, streaming, withdrawn, checkpoint_lsn_observed>>
vars == <<fence, bad, primitives, log, state, sink, status>>

lsn == last_lsn + 1
Fenced == lsn <= fence

Init ==
  /\ fence \in Fences /\ bad \in BadSets /\ primitives \in PrimitiveModes
  /\ last_lsn = 0 /\ open = {} /\ logged = [b \in Lsns |-> <<>>]
  /\ size = [b \in Lsns |-> 0] /\ committed = <<>> /\ marked = 0
  /\ pending = {} /\ events = [b \in Lsns |-> <<>>]
  /\ bytes = [b \in Lsns |-> 0]
  /\ streaming = 0 /\ withdrawn = {} /\ checkpoint_lsn_observed = 0
  /\ sink = [graph |-> <<>>, before |-> <<>>, failed |-> FALSE]
  /\ status = "reading"

-----------------------------------------------------------------------------
(* The sink.                                                               *)

Good(evs) == \A i \in DOMAIN evs : evs[i] \notin bad

\* replay_tx stops at the first event that does not apply.
replay_tx(graph, evs) ==
  graph \o SubSeq(evs, 1, Cardinality({n \in DOMAIN evs : Good(SubSeq(evs, 1, n))}))

\* The clone is taken before the first part; after an error the rest of the
\* transaction is not applied.
Partial(s, evs) ==
  [graph  |-> IF s.failed THEN s.graph ELSE replay_tx(s.graph, evs),
   before |-> IF s.before = <<>> THEN <<s.graph>> ELSE s.before,
   failed |-> s.failed \/ ~Good(evs)]

CommitOk(s, evs) == ~s.failed /\ Good(evs)
Commit(s, evs) == [graph |-> s.graph \o evs, before |-> <<>>, failed |-> FALSE]

\* Variant: the failure of a withdrawn transaction is kept.
DiscardKeepingFailure(s) ==
  [graph  |-> IF s.before = <<>> THEN s.graph ELSE s.before[1],
   before |-> <<>>,
   failed |-> s.failed]

Discard(s) ==
  [graph  |-> IF s.before = <<>> THEN s.graph ELSE s.before[1],
   before |-> <<>>,
   failed |-> FALSE]

-----------------------------------------------------------------------------
(* The log.  commit_tx_events writes the records of a transaction in one   *)
(* run, with a commit unless a write failed, and checkpoints fall between  *)
(* transactions.  The low-level primitives interleave at will.             *)

\* A record of transaction b may come next.
MayContinue(b) == b \in open /\ (primitives \/ (b <= fence <=> Fenced))

Ended(b) == open' = open \ {b}

-----------------------------------------------------------------------------
(* accept_record, for each kind of record.                                 *)

\* A record of another transaction than the one streaming withdraws that one.
\* Variant: never.
OthersStreamOn(b) == FALSE
Other(b) == streaming # 0 /\ streaming # b

\* Variant: all the others are withdrawn.
WithdrawnNowAll(b) == withdrawn \cup (pending \ {b})

StreamingNow(b) == IF Other(b) THEN 0 ELSE streaming
WithdrawnNow(b) == IF Other(b) THEN withdrawn \cup {streaming} ELSE withdrawn
SinkNow(b) == IF Other(b) THEN Discard(sink) ELSE sink
withdraw_other_than(b) ==
  streaming' = StreamingNow(b) /\ withdrawn' = WithdrawnNow(b) /\ sink' = SinkNow(b)

\* Malformed: the open fails.
Refuse == status' = "failed" /\ UNCHANGED <<state, sink>>

Read == status = "reading" /\ lsn \in Lsns /\ last_lsn' = lsn
        /\ UNCHANGED <<fence, bad, primitives>>

TxBegin ==
  /\ Read
  /\ open' = IF primitives THEN open \cup {lsn} ELSE {lsn}
  /\ UNCHANGED <<logged, size, committed, marked, status>>
  /\ \/ Fenced /\ UNCHANGED <<state, sink>>
     \/ /\ ~Fenced
        /\ withdraw_other_than(lsn)
        /\ pending' = pending \cup {lsn}
        /\ UNCHANGED <<events, bytes, checkpoint_lsn_observed>>

\* Variant: the count goes on after a hand-over.
BytesAfterKept(b, len) == bytes[b] + len
BytesAfter(b, len) ==
  IF bytes[b] + len >= Budget /\ b \notin WithdrawnNow(b) THEN 0 ELSE bytes[b] + len

\* Mutation and MutationBatch: add_events.
Mutation(b, len) ==
  /\ Read /\ MayContinue(b)
  /\ logged' = [logged EXCEPT ![b] = Append(@, lsn)]
  /\ size' = [size EXCEPT ![b] = @ + len]
  /\ UNCHANGED <<open, committed, marked>>
  /\ \/ Fenced /\ UNCHANGED <<state, sink, status>>
     \/ ~Fenced /\ b \notin pending /\ Refuse
     \/ /\ ~Fenced /\ b \in pending
        /\ LET evs == Append(events[b], lsn) IN
           IF bytes[b] + len >= Budget /\ b \notin WithdrawnNow(b)
           THEN /\ sink' = Partial(SinkNow(b), evs)
                /\ streaming' = b /\ withdrawn' = WithdrawnNow(b)
                /\ events' = [events EXCEPT ![b] = <<>>]
           ELSE /\ withdraw_other_than(b)
                /\ events' = [events EXCEPT ![b] = evs]
        /\ bytes' = [bytes EXCEPT ![b] = BytesAfter(b, len)]
        /\ UNCHANGED <<pending, checkpoint_lsn_observed, status>>

TxCommit(b) ==
  /\ Read /\ MayContinue(b) /\ Ended(b)
  /\ committed' = IF Fenced THEN committed ELSE committed \o logged[b]
  /\ UNCHANGED <<logged, size, marked>>
  /\ \/ /\ Fenced /\ pending' = pending \ {b}
        /\ UNCHANGED <<events, bytes, streaming, withdrawn,
                       checkpoint_lsn_observed, sink, status>>
     \/ /\ ~Fenced
        /\ IF b \in pending \ withdrawn /\ CommitOk(SinkNow(b), events[b])
           THEN /\ sink' = Commit(SinkNow(b), events[b])
                /\ streaming' = 0 /\ withdrawn' = WithdrawnNow(b)
                /\ pending' = pending \ {b}
                /\ UNCHANGED <<events, bytes, checkpoint_lsn_observed, status>>
           ELSE Refuse

TxAbort(b) ==
  /\ primitives
  /\ Read /\ MayContinue(b) /\ Ended(b)
  /\ UNCHANGED <<logged, size, committed, marked>>
  /\ \/ /\ Fenced /\ pending' = pending \ {b}
        /\ UNCHANGED <<events, bytes, streaming, withdrawn,
                       checkpoint_lsn_observed, sink, status>>
     \/ ~Fenced /\ b \notin pending /\ Refuse
     \/ /\ ~Fenced /\ b \in pending /\ pending' = pending \ {b}
        /\ IF streaming = b
           THEN streaming' = 0 /\ sink' = Discard(sink)
           ELSE UNCHANGED <<streaming, sink>>
        /\ UNCHANGED <<events, bytes, withdrawn, checkpoint_lsn_observed, status>>

\* Checkpoints go forward, but for two at once (and primitives).
Checkpoint(snapshot_lsn) ==
  /\ Read
  /\ primitives \/ (marked <= snapshot_lsn /\ snapshot_lsn < lsn)
  /\ marked' = snapshot_lsn
  /\ open' = IF primitives THEN open ELSE {}
  /\ UNCHANGED <<logged, size, committed>>
  /\ \/ Fenced /\ UNCHANGED <<state, sink, status>>
     \/ /\ ~Fenced
        /\ IF snapshot_lsn <= lsn /\ checkpoint_lsn_observed <= snapshot_lsn
           THEN /\ checkpoint_lsn_observed' = snapshot_lsn
                /\ UNCHANGED <<pending, events, bytes, streaming, withdrawn,
                               sink, status>>
           ELSE Refuse

\* Variant: the end of the log leaves the sink alone.
finishKeeping ==
  /\ status = "reading" /\ status' = "done"
  /\ UNCHANGED <<fence, bad, primitives, log, state, sink>>

\* The end of the log, or the bad frame it is cut at.
finish ==
  /\ status = "reading" /\ status' = "done"
  /\ sink' = IF streaming # 0 THEN Discard(sink) ELSE sink
  /\ UNCHANGED <<fence, bad, primitives, log, state>>

-----------------------------------------------------------------------------
Next ==
  \/ TxBegin
  \/ \E b \in Lsns : \/ \E len \in 1 .. Budget : Mutation(b, len)
                     \/ TxCommit(b) \/ TxAbort(b)
  \/ \E snapshot_lsn \in 0 .. MaxLsn : Checkpoint(snapshot_lsn)
  \/ finish

Spec == Init /\ [][Next]_vars

-----------------------------------------------------------------------------
(* Properties.                                                             *)

TypeOK ==
  /\ fence \in 0 .. MaxLsn /\ bad \subseteq Lsns /\ primitives \in BOOLEAN
  /\ last_lsn \in 0 .. MaxLsn /\ open \subseteq Lsns
  /\ logged \in [Lsns -> Seq(Lsns)] /\ size \in [Lsns -> Nat] /\ committed \in Seq(Lsns)
  /\ marked \in 0 .. MaxLsn
  /\ pending \subseteq Lsns /\ events \in [Lsns -> Seq(Lsns)]
  /\ bytes \in [Lsns -> Nat]
  /\ streaming \in 0 .. MaxLsn /\ withdrawn \subseteq Lsns
  /\ checkpoint_lsn_observed \in 0 .. MaxLsn
  /\ sink.graph \in Seq(Lsns) /\ sink.failed \in BOOLEAN
  /\ sink.before \in Seq(Seq(Lsns)) /\ Len(sink.before) <= 1
  /\ status \in {"reading", "done", "failed"}

\* A replay that succeeds leaves the snapshot's graph with exactly the
\* transactions committed past the fence, whole and in commit order: nothing of
\* a transaction streamed to the sink in parts (add_events) and not committed,
\* and no clone left behind.
ReplaysCommitted ==
  status = "done" => sink.graph = committed /\ sink.before = <<>>

\* A log that only commit_tx_events and checkpoints wrote is never refused, with
\* transactions of any size cut short anywhere by failed writes and crashes.
\* Only an event of a committed transaction that does not apply refuses it.
OwnLogsReplay ==
  ~primitives /\ status = "failed" => ~Good(committed)

\* A record is refused only for a reason in the log: its transaction began below
\* the fence, does not apply, or outgrew the buffer.  Transactions that fit it
\* interleave freely, and `withdrawn` never costs one of them its commit.
RefusedForCause ==
  [][\A b \in Lsns :
       /\ TxCommit(b) \/ TxAbort(b) \/ \E len \in 1 .. Budget : Mutation(b, len)
       /\ status' = "failed"
       => b <= fence \/ ~Good(logged[b]) \/ size[b] >= Budget]_vars

\* A transaction that is not withdrawn never holds a full buffer.
BufferBounded == \A b \in pending \ withdrawn : bytes[b] < Budget
=============================================================================
