-------------------------- MODULE TxStatementInv --------------------------
(* What a client may rely on, statement by statement and at the end.       *)
EXTENDS TxStatement

Optional == [some : BOOLEAN, graph : Graph]
TxRecord ==
  [at : {"new", "open", "gone"}, mode : {"ro", "rw"}, auto : BOOLEAN, snapshot : Graph,
   staged : Optional, moved : BOOLEAN, buffer : Graph,
   savepoint : [set : BOOLEAN, staged : Optional, len : Nat],
   cursor_active : BOOLEAN, closed : BOOLEAN, done : Graph]
StreamRecord ==
  [at : {"none", "active", "drained", "exhausted", "errored", "dropped"},
   writes : BOOLEAN, applied : Graph, held : BOOLEAN]

\* Every variable stays in its type.
TypeOK ==
  /\ live \in Graph /\ log \in Graph /\ poisoned \in BOOLEAN
  /\ writer \in Txs \cup {Nobody} /\ events \in 0 .. MaxEvents
  /\ tx \in [Txs -> TxRecord] /\ stream \in [Txs -> StreamRecord]

\* What the statement under way has done so far.
UnderWay(t) == IF tx[t].cursor_active THEN stream[t].applied ELSE <<>>

\* The graph a statement of t runs on.
View(t) == IF tx[t].staged.some THEN tx[t].staged.graph ELSE tx[t].snapshot

\* "a failed or dropped streaming statement only rolls back its own effects":
\* whatever statements and streams failed before, a transaction sees the graph
\* it began with and its completed statements, and its buffer holds exactly
\* their mutations, so what commit logs is what it publishes.
StatementsWhole ==
  \A t \in Txs : Open(t) =>
    /\ View(t) = tx[t].snapshot \o tx[t].done \o UnderWay(t)
    /\ tx[t].buffer = tx[t].done \o UnderWay(t)

\* A commit publishes and logs the whole transaction on top of everything
\* committed before, and never a statement that did not complete, one of an
\* abandoned stream, or anything after a failed commit.
CommitsWhole ==
  [][<<live, log>>' # <<live, log>> =>
       \E t \in Txs :
         LET es == IF tx[t].auto THEN stream[t].applied ELSE tx[t].done IN
         /\ Open(t) /\ tx[t].mode = "rw" /\ ~poisoned
         /\ tx[t].auto => stream'[t].at = "exhausted"
         /\ ~Pulling(t) \/ tx[t].auto
         /\ log' = log \o es /\ live' = live \o es]_vars

\* "`inner.staged` remains `Some(_)` at a stable address for the cursor's
\* lifetime", also when the transaction's handle goes first.
CursorOnItsGraph == \A t \in Txs : Pulling(t) => Sound(t)

\* A transaction that has ended holds no lock and, once no stream of it is
\* left, no copy of the graph.
NothingKept ==
  \A t \in Txs : tx[t].at = "gone" =>
    /\ writer # t
    /\ ~Pulling(t) => ~tx[t].staged.some /\ tx[t].buffer = <<>>

-----------------------------------------------------------------------------
(* The inductive invariant: of a transaction's record T and its stream S,  *)
(* given whether it has the writer mutex and what is published.            *)

Running(S) == S.at \in {"active", "drained"}

\* The handle, the lock and the graph begun with.
Lifecycle(T, S, holds, published) ==
  /\ T.at = "new" => T = NotBegun /\ S = NoStream
  /\ T.closed <=> T.at = "gone"
  /\ T.auto => T.mode = "rw"
  /\ holds <=> T.at = "open" /\ T.mode = "rw"
  /\ holds => T.snapshot = published

\* A cursor lives exactly as long as its stream, on a copy that is there.
Cursors(T, S) ==
  /\ T.cursor_active <=> Running(S)
  /\ S.at = "drained" => T.auto
  /\ T.auto => (T.at = "open" <=> T.cursor_active)
  /\ T.cursor_active => T.staged.some /\ ~T.moved

\* What a running stream goes back to: the statements that completed.
Savepoints(T, S) ==
  /\ T.auto => T.done = <<>>
  /\ T.at = "open" /\ ~T.auto /\ T.cursor_active =>
       IF S.writes
       THEN /\ T.savepoint.set /\ T.savepoint.len = Len(T.done)
            /\ IF T.savepoint.staged.some
               THEN T.savepoint.staged.graph = T.snapshot \o T.done
               ELSE T.done = <<>>
       ELSE ~T.savepoint.set /\ S.applied = <<>>

\* The staged copy and the buffer hold the same statements.
Contents(T, S) ==
  LET es == IF T.cursor_active THEN S.applied ELSE <<>> IN
  T.at = "open" =>
    /\ T.buffer = T.done \o es
    /\ IF T.staged.some THEN T.staged.graph = T.snapshot \o (T.done \o es)
       ELSE T.done = <<>>

Leftovers(T) ==
  T.at = "gone" /\ ~T.cursor_active => ~T.staged.some /\ T.buffer = <<>>

Good(T, S, holds, published) ==
  /\ Lifecycle(T, S, holds, published) /\ Cursors(T, S) /\ Savepoints(T, S)
  /\ Contents(T, S) /\ Leftovers(T)

TxInv ==
  /\ TypeOK
  /\ \A t \in Txs : Good(tx[t], stream[t], writer = t, live)
=============================================================================
