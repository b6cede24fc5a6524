---------------------------- MODULE TxStatement ----------------------------
(***************************************************************************)
(* Explicit transactions and row streams of a WAL-backed database: the     *)
(* staged copy, the buffer of mutations that becomes one WAL transaction,  *)
(* the savepoint a failed or abandoned statement goes back to, and cursors *)
(* that borrow the staged copy, outlive the statement that opened them and *)
(* may outlive the transaction's handle.                                   *)
(*                                                                         *)
(* A mutation is a number; a graph is the sequence of mutations in it.     *)
(* Transactions share the writer mutex, the live graph and the WAL, of     *)
(* which only the order of commits and a latched failure matter here.      *)
(***************************************************************************)
EXTENDS Integers, Sequences

CONSTANTS
  Txs,
  MaxEvents,   \* mutations made
  Ops          \* what may happen: subset of AllOps

AllOps == {"commit_fails", "rollback_streaming"}

ASSUME TxStatementAssumption == MaxEvents \in Nat /\ Ops \subseteq AllOps

Nobody == "nobody"
ASSUME NobodyAssumption == Nobody \notin Txs

VARIABLES
  live, log, poisoned,    \* the published graph; the mutations in the WAL
  writer,                 \* holder of the writer mutex
  tx, stream,             \* per transaction: handle with TxInner, and its stream
  events                  \* mutations made so far

vars == <<live, log, poisoned, writer, tx, stream, events>>

Events == 1 .. MaxEvents
Graph == Seq(Events)

None == [some |-> FALSE, graph |-> <<>>]
Some(g) == [some |-> TRUE, graph |-> g]

NoSavepoint == [set |-> FALSE, staged |-> None, len |-> 0]

\* Besides the fields of TxInner: snapshot, the graph pinned at begin; moved,
\* whether the staged copy was replaced since a cursor was opened on it; done,
\* the mutations of the statements that completed (history).
NotBegun ==
  [at |-> "new", mode |-> "rw", auto |-> FALSE, snapshot |-> <<>>,
   staged |-> None, moved |-> FALSE, buffer |-> <<>>, savepoint |-> NoSavepoint,
   cursor_active |-> FALSE, closed |-> FALSE, done |-> <<>>]

\* held: an earlier stream, over but not yet dropped by the client.
NoStream == [at |-> "none", writes |-> FALSE, applied |-> <<>>, held |-> FALSE]

Init ==
  /\ live = <<>> /\ log = <<>> /\ poisoned = FALSE /\ writer = Nobody
  /\ tx = [t \in Txs |-> NotBegun] /\ stream = [t \in Txs |-> NoStream]
  /\ events = 0

May(op) == op \in Ops
Open(t) == tx[t].at = "open"
Pulling(t) == stream[t].at = "active"

\* The next n mutations.
New(n) == [k \in 1 .. n |-> events + k]
Mutate(n) == events + n <= MaxEvents /\ events' = events + n

-----------------------------------------------------------------------------
(* TxInner, as functions of a transaction's record.                        *)

ensure_staged(T) ==
  IF T.staged.some THEN T
  ELSE [T EXCEPT !.staged = Some(T.snapshot), !.moved = TRUE]

\* Mutations of the staged graph, which its BufferingRecorder hears.
Apply(T, es) == [T EXCEPT !.staged.graph = @ \o es, !.buffer = @ \o es]

take_savepoint(T, clone_staged) ==
  [set |-> TRUE, staged |-> IF clone_staged THEN T.staged ELSE None,
   len |-> Len(T.buffer)]

apply_savepoint(T, sp) ==
  [T EXCEPT !.buffer = SubSeq(@, 1, sp.len), !.staged = sp.staged,
            !.moved = TRUE, !.savepoint = NoSavepoint]

discard_transaction_state(T) ==
  [T EXCEPT !.savepoint = NoSavepoint, !.cursor_active = FALSE, !.staged = None,
            !.buffer = <<>>, !.closed = TRUE]

\* Variant: a stream that ends after its transaction leaves the state behind.
finalize_streamAlive(T, outcome, es) ==
  LET F == [T EXCEPT !.cursor_active = FALSE] IN
  IF outcome = "Interrupted" /\ T.savepoint.set THEN apply_savepoint(F, T.savepoint)
  ELSE [F EXCEPT !.savepoint = NoSavepoint, !.done = @ \o es]

\* finalize_stream: only mutating streams have a savepoint to go back to.
finalize_stream(T, outcome, es) ==
  LET F == [T EXCEPT !.cursor_active = FALSE] IN
  IF T.closed THEN discard_transaction_state(F)
  ELSE IF outcome = "Interrupted" /\ T.savepoint.set THEN apply_savepoint(F, T.savepoint)
  ELSE [F EXCEPT !.savepoint = NoSavepoint, !.done = @ \o es]

\* Variant: a stream that is over ends its cursor again when it is dropped.
lease_finalizeAgain(T, finalized, outcome, es) == finalize_stream(T, outcome, es)

\* TxCursorLease: a stream ends its cursor once.
lease_finalize(T, finalized, outcome, es) ==
  IF finalized THEN T ELSE finalize_stream(T, outcome, es)

\* The handle is consumed, and with it the writer lease.
Gone(t, T) ==
  /\ tx' = [tx EXCEPT ![t] = [T EXCEPT !.at = "gone"]]
  /\ writer' = IF writer = t THEN Nobody ELSE writer

-----------------------------------------------------------------------------
(* Beginning.                                                              *)

begin_transaction(t) ==
  /\ tx[t].at = "new"
  /\ \E mode \in {"ro", "rw"} :
       /\ mode = "rw" => writer = Nobody
       /\ writer' = IF mode = "rw" THEN t ELSE writer
       /\ tx' = [tx EXCEPT ![t].at = "open", ![t].mode = mode, ![t].snapshot = live]
  /\ UNCHANGED <<live, log, poisoned, stream, events>>

\* Database::stream of a mutating query: a hidden transaction with a cursor
\* and no savepoint.  Opening a cursor may run the whole plan, and fail.
stream_with_params(t) ==
  /\ tx[t].at = "new" /\ writer = Nobody
  /\ \E n \in 0 .. 2, ok \in BOOLEAN :
       LET B == [tx[t] EXCEPT !.at = "open", !.auto = TRUE, !.snapshot = live]
           C == [Apply(ensure_staged(B), New(n)) EXCEPT !.cursor_active = TRUE, !.moved = FALSE] IN
       /\ Mutate(n)
       /\ IF ok
          THEN /\ tx' = [tx EXCEPT ![t] = C] /\ writer' = t
               /\ stream' = [stream EXCEPT ![t] =
                    [at |-> "active", writes |-> TRUE, applied |-> New(n), held |-> FALSE]]
          ELSE Gone(t, discard_transaction_state(C)) /\ UNCHANGED stream
  /\ UNCHANGED <<live, log, poisoned>>

-----------------------------------------------------------------------------
(* Statements.                                                             *)

\* begin_statement: the borrow of a live stream is exclusive.
begin_statement(t) == Open(t) /\ ~tx[t].auto /\ ~tx[t].closed /\ ~tx[t].cursor_active

\* A mutating statement, or a schema command, run to its end.
execute(t) ==
  /\ begin_statement(t) /\ tx[t].mode = "rw"
  /\ \E n \in 0 .. 2, ok \in BOOLEAN :
       LET S == ensure_staged(tx[t])
           sp == take_savepoint(S, tx[t].staged.some)
           A == Apply(S, New(n)) IN
       /\ Mutate(n)
       /\ tx' = [tx EXCEPT ![t] = IF ok THEN [A EXCEPT !.done = @ \o New(n)]
                                  ELSE apply_savepoint(A, sp)]
  /\ UNCHANGED <<live, log, poisoned, writer, stream>>

\* Transaction::stream.  Reads are staged too: their cursor borrows the copy.
stream_compiled(t) ==
  /\ begin_statement(t)
  /\ \E writes \in BOOLEAN, n \in 0 .. 2, ok \in BOOLEAN :
       LET S == ensure_staged(tx[t])
           sp == IF writes THEN take_savepoint(S, tx[t].staged.some) ELSE NoSavepoint
           A == Apply([S EXCEPT !.cursor_active = TRUE, !.moved = FALSE, !.savepoint = sp], New(n)) IN
       /\ writes => tx[t].mode = "rw"
       /\ ~writes => n = 0
       /\ Mutate(n)
       /\ tx' = [tx EXCEPT ![t] = IF ok THEN A ELSE finalize_stream(A, "Interrupted", <<>>)]
       /\ stream' = IF ok THEN [stream EXCEPT ![t] =
                      [at |-> "active", writes |-> writes, applied |-> New(n),
                       held |-> stream[t].at \in {"exhausted", "errored"}]]
                    ELSE stream
  /\ UNCHANGED <<live, log, poisoned, writer>>

-----------------------------------------------------------------------------
(* The end of a transaction.                                               *)

take_commit_state(T) ==
  [T EXCEPT !.staged = None, !.buffer = <<>>, !.closed = TRUE]

\* replay_commit_wal and publish_staged_graph, of what was taken.
Publish(t, staged, buffer) ==
  \/ /\ ~poisoned
     /\ log' = log \o buffer /\ UNCHANGED poisoned
     /\ live' = IF staged.some THEN staged.graph ELSE live
  \/ /\ poisoned \/ (May("commit_fails") /\ buffer # <<>>)
     /\ poisoned' = TRUE /\ UNCHANGED <<log, live>>

\* Variant: an active cursor does not stop a commit.
MayCommitAnyway(T) == TRUE

MayCommit(T) == ~T.cursor_active

\* Variant: the state is dropped with the handle, borrowed or not.
DropHandleAll(t) ==
  /\ Gone(t, discard_transaction_state(tx[t])) /\ UNCHANGED <<live, log, poisoned>>

\* Drop of the handle: a stream may still borrow the staged graph.
DropHandle(t) ==
  /\ Gone(t, IF tx[t].cursor_active THEN [tx[t] EXCEPT !.closed = TRUE]
             ELSE discard_transaction_state(tx[t]))
  /\ UNCHANGED <<live, log, poisoned>>

\* Transaction::commit consumes the handle, also when it is refused.
commit(t) ==
  /\ Open(t) /\ ~tx[t].auto
  /\ IF ~MayCommit(tx[t]) THEN DropHandle(t)
     ELSE /\ Gone(t, take_commit_state(tx[t]))
          /\ IF tx[t].mode = "rw" THEN Publish(t, tx[t].staged, tx[t].buffer)
             ELSE UNCHANGED <<live, log, poisoned>>
  /\ UNCHANGED <<stream, events>>

\* rollback asks only whether the transaction is closed.
rollback(t) ==
  /\ Open(t) /\ ~tx[t].auto
  /\ May("rollback_streaming") \/ ~tx[t].cursor_active
  /\ Gone(t, discard_transaction_state(tx[t]))
  /\ UNCHANGED <<live, log, poisoned, stream, events>>

drop_transaction(t) ==
  /\ Open(t) /\ ~tx[t].auto
  /\ DropHandle(t)
  /\ UNCHANGED <<stream, events>>

-----------------------------------------------------------------------------
(* QueryStream.                                                            *)

\* The cursor has a graph to run on.
Sound(t) == tx[t].staged.some /\ ~tx[t].moved

\* A row: at most one more mutation.
next_row(t) ==
  /\ Pulling(t) /\ Sound(t) /\ stream[t].writes
  /\ Mutate(1)
  /\ tx' = [tx EXCEPT ![t] = Apply(@, New(1))]
  /\ stream' = [stream EXCEPT ![t].applied = @ \o New(1)]
  /\ UNCHANGED <<live, log, poisoned, writer>>

\* AutoCommitGuard::commit and ::rollback, with the cursor gone.
GuardCommit(t) ==
  LET T == [tx[t] EXCEPT !.cursor_active = FALSE] IN
  /\ Gone(t, take_commit_state(T)) /\ Publish(t, T.staged, T.buffer)
  /\ stream' = [stream EXCEPT ![t].at = IF poisoned' THEN "errored" ELSE "exhausted"]

GuardRollback(t, at) ==
  /\ Gone(t, discard_transaction_state(tx[t]))
  /\ stream' = [stream EXCEPT ![t].at = at]
  /\ UNCHANGED <<live, log, poisoned>>

\* The cursor's end.  An auto-commit stream that `pull` brought there waits,
\* drained, for finish or next_row.
Finish(t) ==
  /\ Pulling(t) /\ ~tx[t].auto
  /\ tx' = [tx EXCEPT ![t] = lease_finalize(@, FALSE, "Exhausted", stream[t].applied)]
  /\ stream' = [stream EXCEPT ![t].at = "exhausted"]
  /\ UNCHANGED <<live, log, poisoned, writer, events>>

pull_end(t) ==
  /\ Pulling(t) /\ tx[t].auto
  /\ stream' = [stream EXCEPT ![t].at = "drained"]
  /\ UNCHANGED <<live, log, poisoned, writer, tx, events>>

commit_drained(t) ==
  /\ tx[t].auto /\ stream[t].at \in {"active", "drained"}
  /\ GuardCommit(t) /\ UNCHANGED events

\* An error ends the stream for good.
Fail(t) ==
  /\ Pulling(t)
  /\ IF tx[t].auto THEN GuardRollback(t, "errored")
     ELSE /\ tx' = [tx EXCEPT ![t] = lease_finalize(@, FALSE, "Interrupted", <<>>)]
          /\ stream' = [stream EXCEPT ![t].at = "errored"]
          /\ UNCHANGED <<live, log, poisoned, writer>>
  /\ UNCHANGED events

\* Dropped before its end, or drained and never committed: rolled back.
drop_stream(t) ==
  /\ Pulling(t) \/ stream[t].at = "drained"
  /\ IF tx[t].auto THEN GuardRollback(t, "dropped")
     ELSE /\ tx' = [tx EXCEPT ![t] = lease_finalize(@, FALSE, "Interrupted", <<>>)]
          /\ stream' = [stream EXCEPT ![t].at = "dropped"]
          /\ UNCHANGED <<live, log, poisoned, writer>>
  /\ UNCHANGED events

\* A stream that is over is dropped while a later one may be running.
drop_held(t) ==
  /\ stream[t].held
  /\ tx' = [tx EXCEPT ![t] = lease_finalize(@, TRUE, "Exhausted", <<>>)]
  /\ stream' = [stream EXCEPT ![t].held = FALSE]
  /\ UNCHANGED <<live, log, poisoned, writer, events>>

-----------------------------------------------------------------------------
Step(t) ==
  \/ begin_transaction(t) \/ stream_with_params(t) \/ execute(t) \/ stream_compiled(t)
  \/ commit(t) \/ rollback(t) \/ drop_transaction(t)
  \/ next_row(t) \/ Finish(t) \/ pull_end(t) \/ commit_drained(t) \/ Fail(t)
  \/ drop_stream(t) \/ drop_held(t)

Next == \E t \in Txs : Step(t)

Spec == Init /\ [][Next]_vars
=============================================================================
