------------------------- MODULE TxStatementProofs -------------------------
(***************************************************************************)
(* Proofs about TxStatement for every set of transactions and every number *)
(* of mutations.                                                           *)
(***************************************************************************)
EXTENDS TxStatementInv, SequenceTheorems, TLAPS

-----------------------------------------------------------------------------
(* Sequences of mutations.                                                 *)

\* What the steps below need of concatenation.
LEMMA Concat ==
  ASSUME NEW s \in Graph, NEW d \in Graph, NEW e \in Graph
  PROVE  /\ <<>> \in Graph /\ s \o d \in Graph
         /\ s \o <<>> = s /\ <<>> \o s = s
         /\ (s \o d) \o e = s \o (d \o e)
<1> QED
  BY ConcatProperties, ConcatEmptySeq, ConcatAssociative, EmptySeq DEF Graph

\* Concatenation associates.
LEMMA Associates == \A s, d, e \in Graph : (s \o d) \o e = s \o (d \o e)
<1> TAKE s, d, e \in Graph
<1>1. s \in Seq(Events) /\ d \in Seq(Events) /\ e \in Seq(Events)
  BY DEF Graph
<1> QED
  BY <1>1, ConcatAssociative, SMTT(40)

\* Cutting a concatenation after its first part gives that part back.
LEMMA CutBack ==
  ASSUME NEW d \in Graph, NEW e \in Graph
  PROVE  SubSeq(d \o e, 1, Len(d)) = d
<1>1. CASE d = <<>>
  <2>1. Len(d) = 0
    BY <1>1
  <2> QED
    BY <1>1, <2>1, SubSeqEmpty
<1>2. CASE d # <<>>
  <2>1. Len(d) \in Nat /\ Len(d) # 0
    BY <1>2, EmptySeq DEF Graph
  <2>2. 1 \in 1 .. Len(d) /\ Len(d) \in 1 .. Len(d)
    BY <2>1
  <2>3. SubSeq(d \o e, 1, Len(d)) = SubSeq(d, 1, Len(d))
    BY <2>2, SubSeqOfConcat1 DEF Graph
  <2> QED
    BY <2>3, SubSeqFull DEF Graph
<1> QED
  BY <1>1, <1>2

\* The next n mutations.
LEMMA NewTyped ==
  ASSUME events \in 0 .. MaxEvents, NEW n \in Nat, events + n <= MaxEvents
  PROVE  /\ New(n) \in Graph
         /\ n = 0 => New(n) = <<>>
         /\ events + n \in 0 .. MaxEvents
<1>1. MaxEvents \in Nat
  BY TxStatementAssumption
<1>2. \A k \in 1 .. n : events + k \in Events
  BY <1>1 DEF Events
<1>3. New(n) \in [1 .. n -> Events]
  BY <1>2 DEF New
<1>4. New(n) \in Seq(Events) /\ Len(New(n)) = n
  BY <1>3, IsASeq
<1> QED
  BY <1>1, <1>4, EmptySeq DEF Graph

-----------------------------------------------------------------------------
(* One transaction moves, the others stay as good as they were.            *)

LEMMA Frame ==
  ASSUME TxInv, NEW t \in Txs, NEW T \in TxRecord, NEW S \in StreamRecord,
         tx' = [tx EXCEPT ![t] = T], stream' = [stream EXCEPT ![t] = S],
         live' \in Graph, log' \in Graph, poisoned' \in BOOLEAN,
         events' \in 0 .. MaxEvents,
         \/ writer' = writer
         \/ writer = Nobody /\ writer' = t
         \/ writer = t /\ writer' = Nobody,
         live' = live \/ writer = t,
         Good(T, S, writer' = t, live')
  PROVE  TxInv'
<1>1. TypeOK'
  BY DEF TxInv, TypeOK
<1>2. ASSUME NEW u \in Txs
      PROVE  Good(tx'[u], stream'[u], writer' = u, live')
  <2>1. CASE u = t
    BY <2>1 DEF TxInv, TypeOK
  <2>2. CASE u # t
    <3>1. tx'[u] = tx[u] /\ stream'[u] = stream[u]
      BY <2>2 DEF TxInv, TypeOK
    <3>2. (writer' = u) <=> (writer = u)
      BY <2>2, NobodyAssumption
    <3>3. writer = u => live' = live
      BY <2>2
    <3>4. Good(tx[u], stream[u], writer = u, live)
      BY DEF TxInv
    <3>5. Lifecycle(tx[u], stream[u], writer' = u, live')
      BY <3>2, <3>3, <3>4 DEF Good, Lifecycle
    <3> QED
      BY <3>1, <3>4, <3>5 DEF Good
  <2> QED
    BY <2>1, <2>2
<1> QED
  BY <1>1, <1>2 DEF TxInv

-----------------------------------------------------------------------------
(* The operators on a transaction's record.                                *)

\* What the invariant says of one transaction.
LEMMA Facts ==
  ASSUME TxInv, NEW t \in Txs
  PROVE  /\ tx[t] \in TxRecord /\ stream[t] \in StreamRecord
         /\ Good(tx[t], stream[t], writer = t, live)
         /\ live \in Graph /\ log \in Graph /\ poisoned \in BOOLEAN
         /\ events \in 0 .. MaxEvents
         /\ tx \in [Txs -> TxRecord] /\ stream \in [Txs -> StreamRecord]
<1> QED
  BY DEF TxInv, TypeOK

\* What no operation on the copy or the buffer touches.
Kept(E, T) ==
  /\ E.at = T.at /\ E.mode = T.mode /\ E.auto = T.auto /\ E.snapshot = T.snapshot
  /\ E.done = T.done /\ E.closed = T.closed

\* A statement starts on a copy with the completed statements.
LEMMA Staged ==
  ASSUME NEW T \in TxRecord, NEW S \in StreamRecord, Contents(T, S),
         T.at = "open", ~T.cursor_active, NEW E, E = ensure_staged(T)
  PROVE  /\ E \in TxRecord
         /\ E.staged.some /\ E.staged.graph = T.snapshot \o T.done
         /\ E.buffer = T.done
         /\ Kept(E, T) /\ E.savepoint = T.savepoint /\ E.cursor_active = T.cursor_active
<1>1. T.snapshot \in Graph /\ T.done \in Graph /\ T.staged \in Optional
  BY DEF TxRecord
<1>2. /\ T.snapshot \o <<>> = T.snapshot /\ T.done \o <<>> = T.done
  BY <1>1, Concat
<1>3. T.buffer = T.done
  BY <1>2 DEF Contents
<1>4. CASE T.staged.some
  BY <1>2, <1>3, <1>4 DEF Contents, ensure_staged, TxRecord, Kept
<1>5. CASE ~T.staged.some
  <2>1. T.done = <<>>
    BY <1>5 DEF Contents
  <2>2. Some(T.snapshot) \in Optional
    BY <1>1 DEF Some, Optional
  <2>3. E = [T EXCEPT !.staged = Some(T.snapshot), !.moved = TRUE]
    BY <1>5 DEF ensure_staged
  <2>4. /\ E \in TxRecord /\ E.staged = Some(T.snapshot) /\ E.buffer = T.buffer
        /\ Kept(E, T) /\ E.savepoint = T.savepoint /\ E.cursor_active = T.cursor_active
    BY <2>2, <2>3 DEF TxRecord, Kept
  <2>5. E.staged.some /\ E.staged.graph = T.snapshot
    BY <2>4 DEF Some
  <2> QED
    BY <1>2, <1>3, <2>1, <2>4, <2>5
<1> QED
  BY <1>4, <1>5

\* Mutations go to the end of the copy and of the buffer.
LEMMA Applied ==
  ASSUME NEW T \in TxRecord, NEW es \in Graph, NEW A, A = Apply(T, es)
  PROVE  /\ A \in TxRecord
         /\ A.staged.some = T.staged.some /\ A.staged.graph = T.staged.graph \o es
         /\ A.buffer = T.buffer \o es
         /\ Kept(A, T) /\ A.savepoint = T.savepoint /\ A.cursor_active = T.cursor_active
         /\ A.moved = T.moved
<1>1. T.staged \in Optional /\ T.staged.graph \in Graph /\ T.buffer \in Graph
  BY DEF TxRecord, Optional
<1>2. T.staged.graph \o es \in Graph /\ T.buffer \o es \in Graph
  BY <1>1, Concat
<1>3. [T.staged EXCEPT !.graph = @ \o es] \in Optional
  BY <1>1, <1>2 DEF Optional
<1>4. A = [T EXCEPT !.staged = [T.staged EXCEPT !.graph = @ \o es],
                               !.buffer = T.buffer \o es]
  BY DEF Apply, TxRecord, Optional
<1>5. PICK staged \in Optional : staged = [T.staged EXCEPT !.graph = @ \o es]
  BY <1>3
<1>6. PICK buffer \in Graph : buffer = T.buffer \o es
  BY <1>2
<1>7. staged.some = T.staged.some /\ staged.graph = T.staged.graph \o es
  BY <1>1, <1>5 DEF Optional
<1>8. A = [T EXCEPT !.staged = staged, !.buffer = buffer]
  BY <1>4, <1>5, <1>6
<1>9. /\ A \in TxRecord /\ A.staged = staged /\ A.buffer = buffer
      /\ Kept(A, T) /\ A.savepoint = T.savepoint /\ A.cursor_active = T.cursor_active
      /\ A.moved = T.moved
  <2>1. staged \in Optional /\ buffer \in Graph
    BY <1>5, <1>6
  <2> QED
    BY <1>8, <2>1 DEF TxRecord, Kept
<1> QED
  BY <1>6, <1>7, <1>9, Zenon

\* The savepoint takes both back to the completed statements.
LEMMA BackToSavepoint ==
  ASSUME NEW T \in TxRecord, NEW es \in Graph, T.buffer = T.done \o es,
         NEW sp \in [set : BOOLEAN, staged : Optional, len : Nat],
         sp.len = Len(T.done), NEW B, B = apply_savepoint(T, sp)
  PROVE  /\ B \in TxRecord
         /\ Kept(B, T) /\ B.cursor_active = T.cursor_active
         /\ B.buffer = T.done /\ B.staged = sp.staged
<1>1. T.done \in Graph
  BY DEF TxRecord
<1>2. SubSeq(T.buffer, 1, sp.len) = T.done
  BY <1>1, CutBack
<1>3. NoSavepoint \in [set : BOOLEAN, staged : Optional, len : Nat]
  BY EmptySeq DEF NoSavepoint, None, Optional, Graph
<1> QED
  BY <1>1, <1>2, <1>3 DEF apply_savepoint, TxRecord, Kept

\* A discarded transaction has no copy, no buffer and no cursor.
LEMMA Discarded ==
  ASSUME NEW T \in TxRecord, NEW D, D = discard_transaction_state(T)
  PROVE  /\ D \in TxRecord
         /\ D = [T EXCEPT !.savepoint = NoSavepoint, !.cursor_active = FALSE,
                          !.staged = None, !.buffer = <<>>, !.closed = TRUE]
<1>1. /\ NoSavepoint \in [set : BOOLEAN, staged : Optional, len : Nat]
      /\ None \in Optional /\ <<>> \in Graph
  BY EmptySeq DEF NoSavepoint, None, Optional, Graph
<1> QED
  BY <1>1 DEF discard_transaction_state, TxRecord

-----------------------------------------------------------------------------
(* Beginning.                                                              *)

LEMMA BeginKeeps ==
  ASSUME TxInv, NEW t \in Txs, begin_transaction(t)
  PROVE  TxInv'
<1>1. PICK mode \in {"ro", "rw"} :
        /\ mode = "rw" => writer = Nobody
        /\ writer' = IF mode = "rw" THEN t ELSE writer
        /\ tx' = [tx EXCEPT ![t].at = "open", ![t].mode = mode, ![t].snapshot = live]
  BY DEF begin_transaction
<1> DEFINE T == [tx[t] EXCEPT !.at = "open", !.mode = mode, !.snapshot = live]
<1>2. /\ tx[t] \in TxRecord /\ stream[t] \in StreamRecord /\ live \in Graph
      /\ Good(tx[t], stream[t], writer = t, live)
  BY DEF TxInv, TypeOK
<1>3. tx[t] = NotBegun /\ stream[t] = NoStream /\ writer # t
  BY <1>2 DEF Good, Lifecycle, begin_transaction
<1>4. T \in TxRecord
  BY <1>2 DEF TxRecord
<1>5. tx' = [tx EXCEPT ![t] = T] /\ stream' = [stream EXCEPT ![t] = stream[t]]
  BY <1>1 DEF begin_transaction, TxInv, TypeOK
<1>6. (writer' = t) <=> (mode = "rw")
  BY <1>1, <1>3
<1>7. <<>> \o <<>> = <<>>
  BY Concat, EmptySeq DEF Graph
<1>8. Good(T, stream[t], writer' = t, live')
  BY <1>3, <1>6, <1>7
  DEF begin_transaction, NotBegun, NoStream, None, NoSavepoint, Good, Lifecycle, Cursors,
      Savepoints, Contents, Leftovers, Running
<1>9. /\ live' = live /\ log' = log /\ poisoned' = poisoned /\ events' = events
      /\ writer' = writer \/ (writer = Nobody /\ writer' = t)
  BY <1>1 DEF begin_transaction
<1> HIDE DEF T
<1> QED
  BY <1>2, <1>4, <1>5, <1>8, <1>9, Frame DEF TxInv, TypeOK

LEMMA StreamWithParamsKeeps ==
  ASSUME TxInv, NEW t \in Txs, stream_with_params(t)
  PROVE  TxInv'
<1> DEFINE B == [tx[t] EXCEPT !.at = "open", !.auto = TRUE, !.snapshot = live]
           C(n) == [Apply(ensure_staged(B), New(n)) EXCEPT !.cursor_active = TRUE,
                                                           !.moved = FALSE]
<1>1. PICK n \in 0 .. 2, ok \in BOOLEAN :
        /\ Mutate(n)
        /\ IF ok
           THEN /\ tx' = [tx EXCEPT ![t] = C(n)] /\ writer' = t
                /\ stream' = [stream EXCEPT ![t] =
                     [at |-> "active", writes |-> TRUE, applied |-> New(n), held |-> FALSE]]
           ELSE Gone(t, discard_transaction_state(C(n))) /\ UNCHANGED stream
  BY Zenon DEF stream_with_params
<1>2. /\ tx[t].at = "new" /\ writer = Nobody
      /\ live' = live /\ log' = log /\ poisoned' = poisoned
  BY DEF stream_with_params
<1>3. /\ tx[t] \in TxRecord /\ stream[t] \in StreamRecord
      /\ tx[t] = NotBegun /\ stream[t] = NoStream /\ live \in Graph
  BY <1>2, Facts DEF Good, Lifecycle
<1>4. New(n) \in Graph /\ events' \in 0 .. MaxEvents
  BY <1>1, Facts, NewTyped DEF Mutate
<1>5. B \in TxRecord
  BY <1>3 DEF TxRecord
<1>6. /\ B.at = "open" /\ ~B.staged.some /\ B.done = <<>> /\ B.buffer = <<>> /\ B.auto
      /\ B.mode = "rw" /\ B.snapshot = live /\ ~B.closed /\ ~B.cursor_active
  BY <1>3 DEF NotBegun, None
<1>7. Contents(B, stream[t])
  BY <1>6, Concat, EmptySeq DEF Contents, Graph
<1> HIDE DEF B
<1>8a. PICK E : E = ensure_staged(B)
  OBVIOUS
<1>8. /\ E \in TxRecord /\ E.staged.some /\ E.staged.graph = B.snapshot \o B.done
      /\ E.buffer = B.done /\ Kept(E, B)
  BY <1>3, <1>5, <1>6, <1>7, <1>8a, Staged, Zenon
<1>9a. PICK A : A = Apply(E, New(n))
  OBVIOUS
<1>9b. /\ A \in TxRecord /\ A.staged.some = E.staged.some
       /\ A.staged.graph = E.staged.graph \o New(n) /\ A.buffer = E.buffer \o New(n)
       /\ Kept(A, E)
  BY <1>4, <1>8, <1>9a, Applied, Zenon
<1>9. A.staged.some /\ A.staged.graph = live \o New(n) /\ A.buffer = New(n)
  <2>1. live \o <<>> = live /\ <<>> \o New(n) = New(n)
    BY <1>3, <1>4, Concat
  <2> QED
    BY <1>3, <1>6, <1>8, <1>9b, <2>1
<1>10. C(n) = [A EXCEPT !.cursor_active = TRUE, !.moved = FALSE] /\ C(n) \in TxRecord
  BY <1>8a, <1>9a, <1>9b DEF TxRecord
<1>11. /\ C(n).at = "open" /\ C(n).done = <<>> /\ C(n).auto /\ C(n).mode = "rw"
       /\ C(n).snapshot = live /\ ~C(n).closed /\ C(n).cursor_active /\ ~C(n).moved
       /\ C(n).staged = A.staged /\ C(n).buffer = A.buffer
  <2>1. A \in TxRecord /\ Kept(A, E) /\ Kept(E, B)
    BY <1>8, <1>9b
  <2>2. /\ Kept(C(n), A) /\ C(n).cursor_active /\ ~C(n).moved
        /\ C(n).staged = A.staged /\ C(n).buffer = A.buffer
    BY <1>10, <2>1 DEF TxRecord, Kept
  <2> HIDE DEF C
  <2> QED
    BY <1>6, <2>1, <2>2 DEF Kept
<1> HIDE DEF C
<1>12. CASE ok
  <2> DEFINE S == [at |-> "active", writes |-> TRUE, applied |-> New(n), held |-> FALSE]
  <2>1. S \in StreamRecord
    BY <1>4 DEF StreamRecord
  <2>2. tx' = [tx EXCEPT ![t] = C(n)] /\ writer' = t /\ stream' = [stream EXCEPT ![t] = S]
    BY <1>1, <1>12
  <2>3. Contents(C(n), S)
    <3>1. <<>> \o New(n) = New(n)
      BY <1>4, Concat
    <3>2. C(n).staged.some /\ C(n).staged.graph = live \o New(n) /\ C(n).buffer = New(n)
      BY <1>9, <1>11, Zenon
    <3> QED
      BY <1>11, <3>1, <3>2, Zenon DEF Contents
  <2>4. Good(C(n), S, writer' = t, live')
    BY <1>2, <1>9, <1>11, <2>2, <2>3
    DEF Good, Lifecycle, Cursors, Savepoints, Leftovers, Running
  <2> HIDE DEF S
  <2> QED
    BY <1>2, <1>4, <1>10, <2>1, <2>2, <2>4, Facts, Frame
<1>13. CASE ~ok
  <2>0. PICK D : D = discard_transaction_state(C(n))
    OBVIOUS
  <2>1. /\ D \in TxRecord
        /\ D = [C(n) EXCEPT !.savepoint = NoSavepoint, !.cursor_active = FALSE,
                              !.staged = None, !.buffer = <<>>, !.closed = TRUE]
    BY <1>10, <2>0, Discarded
  <2> DEFINE T == [D EXCEPT !.at = "gone"]
  <2>2. T \in TxRecord
    BY <2>1 DEF TxRecord
  <2>3. tx' = [tx EXCEPT ![t] = T] /\ writer' = writer /\ stream' = [stream EXCEPT ![t] = stream[t]]
    BY <1>1, <1>2, <1>13, <2>0, Facts DEF Gone
  <2>4. Good(T, stream[t], writer' = t, live')
    BY <1>2, <1>3, <1>10, <1>11, <2>1, <2>3, NobodyAssumption
    DEF Good, Lifecycle, Cursors, Savepoints, Contents, Leftovers, Running, NoStream, None, TxRecord
  <2> HIDE DEF T
  <2> QED
    BY <1>2, <1>3, <1>4, <2>2, <2>3, <2>4, Facts, Frame
<1> QED
  BY <1>12, <1>13

-----------------------------------------------------------------------------
(* Ends.                                                                   *)

\* A transaction that is gone, with nothing left.
LEMMA Ends ==
  ASSUME TxInv, NEW t \in Txs, NEW T \in TxRecord, NEW S \in StreamRecord,
         T.at = "gone", T.closed, ~T.cursor_active, ~T.staged.some, T.buffer = <<>>,
         T.auto = tx[t].auto, T.mode = tx[t].mode, T.done = tx[t].done, ~Running(S),
         tx' = [tx EXCEPT ![t] = T], stream' = [stream EXCEPT ![t] = S],
         writer' = IF writer = t THEN Nobody ELSE writer,
         live' \in Graph, log' \in Graph, poisoned' \in BOOLEAN, events' \in 0 .. MaxEvents,
         live' = live \/ writer = t
  PROVE  TxInv'
<1>1. Good(tx[t], stream[t], writer = t, live)
  BY Facts
<1>2. writer' # t
  BY NobodyAssumption
<1>3. Good(T, S, writer' = t, live')
  BY <1>1, <1>2
  DEF Good, Lifecycle, Cursors, Savepoints, Contents, Leftovers, Running
<1> QED
  BY <1>3, Frame

\* A statement's stream gives its cursor back: completed, undone, or, when the
\* handle is gone already, with everything else.
LEMMA FinalizeGood ==
  ASSUME NEW X \in TxRecord, NEW R \in StreamRecord, NEW holds, NEW published,
         Good(X, R, holds, published), R.at = "active", ~X.auto,
         NEW S, ~Running(S), NEW outcome, NEW es,
         \/ outcome = "Exhausted" /\ es = R.applied
         \/ outcome = "Interrupted" /\ es = <<>>,
         NEW T, T = finalize_stream(X, outcome, es)
  PROVE  T \in TxRecord /\ Good(T, S, holds, published)
<1>1. X.cursor_active /\ X.at # "new"
  BY DEF Good, Lifecycle, Cursors, Running, NotBegun
<1> DEFINE F == [X EXCEPT !.cursor_active = FALSE]
<1>3. /\ F \in TxRecord /\ Kept(F, X) /\ ~F.cursor_active /\ F.staged = X.staged
      /\ F.buffer = X.buffer /\ F.savepoint = X.savepoint
  BY DEF TxRecord, Kept
<1>4. finalize_stream(X, outcome, es) =
        IF X.closed THEN discard_transaction_state(F)
        ELSE IF outcome = "Interrupted" /\ X.savepoint.set
             THEN apply_savepoint(F, X.savepoint)
        ELSE [F EXCEPT !.savepoint = NoSavepoint, !.done = @ \o es]
  BY DEF finalize_stream
<1> HIDE DEF F
<1>5. CASE X.closed
  <2>0. PICK D : D = discard_transaction_state(F)
    OBVIOUS
  <2>1. /\ D \in TxRecord
        /\ D = [F EXCEPT !.savepoint = NoSavepoint, !.cursor_active = FALSE,
                         !.staged = None, !.buffer = <<>>, !.closed = TRUE]
    BY <1>3, <2>0, Discarded
  <2>2. /\ D.closed /\ ~D.cursor_active
        /\ ~D.staged.some /\ D.buffer = <<>>
    BY <1>3, <2>1 DEF TxRecord, None
  <2>3. D.at = "gone" /\ D.auto = X.auto /\ D.mode = X.mode /\ D.done = X.done
    BY <1>3, <1>5, <2>1 DEF TxRecord, Kept, Good, Lifecycle
  <2>4. ~holds
    BY <1>5 DEF Good, Lifecycle
  <2>5. T = D
    BY <1>4, <1>5, <2>0
  <2>6. Good(D, S, holds, published)
    BY <2>2, <2>3, <2>4
    DEF Good, Lifecycle, Cursors, Savepoints, Contents, Leftovers, Running
  <2> QED
    BY <2>1, <2>5, <2>6
<1>6. ASSUME ~X.closed
      PROVE  T \in TxRecord /\ Good(T, S, holds, published)
  <2>1. /\ X.at = "open" /\ X.snapshot \in Graph /\ X.done \in Graph
        /\ R.applied \in Graph
    BY <1>1, <1>6 DEF Good, Lifecycle, TxRecord, StreamRecord
  <2>2. /\ X.buffer = X.done \o R.applied
        /\ X.staged.some
        /\ X.staged.graph = X.snapshot \o (X.done \o R.applied)
    BY <1>1, <2>1 DEF Good, Contents, Cursors
  <2>3. IF R.writes
        THEN /\ X.savepoint.set /\ X.savepoint.len = Len(X.done)
             /\ IF X.savepoint.staged.some
                THEN X.savepoint.staged.graph = X.snapshot \o X.done
                ELSE X.done = <<>>
        ELSE ~X.savepoint.set /\ R.applied = <<>>
    BY <1>1, <2>1 DEF Good, Savepoints
  <2>4. Lifecycle(X, R, holds, published)
    BY DEF Good
  <2>5. CASE outcome = "Interrupted" /\ X.savepoint.set
    <3>0. PICK B : B = apply_savepoint(F, X.savepoint)
      OBVIOUS
    <3>1. X.savepoint \in [set : BOOLEAN, staged : Optional, len : Nat]
      BY DEF TxRecord
    <3>2. F.buffer = F.done \o R.applied /\ X.savepoint.len = Len(F.done)
      BY <1>3, <2>2, <2>3, <2>5, Zenon DEF Kept
    <3>3. /\ B \in TxRecord /\ Kept(B, F) /\ B.cursor_active = F.cursor_active
          /\ B.buffer = F.done /\ B.staged = X.savepoint.staged
      BY <1>3, <2>1, <3>0, <3>1, <3>2, BackToSavepoint, ZenonT(40)
    <3>4. /\ Kept(B, X) /\ ~B.cursor_active /\ B.buffer = B.done
          /\ B.staged = X.savepoint.staged
      BY <1>3, <3>3, Zenon DEF Kept
    <3>5. B.done \o <<>> = B.done
      BY <3>3, Concat DEF TxRecord
    <3>6. IF B.staged.some THEN B.staged.graph = B.snapshot \o B.done ELSE B.done = <<>>
      BY <2>3, <2>5, <3>4, Zenon DEF Kept
    <3>7. Contents(B, S)
      BY <3>4, <3>5, <3>6, Zenon DEF Contents
    <3>8. Good(B, S, holds, published)
      BY <1>3, <2>1, <2>4, <3>4, <3>7
      DEF Good, Lifecycle, Cursors, Savepoints, Leftovers, Running, Kept
    <3>9. T = B
      BY <1>4, <1>6, <2>5, <3>0
    <3> QED
      BY <3>3, <3>8, <3>9
  <2>6. CASE ~(outcome = "Interrupted" /\ X.savepoint.set)
    <3>1. es = R.applied
      BY <2>3, <2>6
    <3>2. PICK done \in Graph : done = X.done \o R.applied
      BY <2>1, Concat
    <3>3. NoSavepoint \in [set : BOOLEAN, staged : Optional, len : Nat]
      BY EmptySeq DEF NoSavepoint, None, Optional, Graph
    <3>4. PICK E : E = [F EXCEPT !.savepoint = NoSavepoint, !.done = done]
      OBVIOUS
    <3>5. /\ E \in TxRecord /\ ~E.cursor_active
          /\ E.staged = X.staged /\ E.buffer = X.buffer /\ E.done = done
          /\ E.at = "open" /\ E.mode = X.mode /\ E.auto = X.auto
          /\ E.closed = X.closed /\ E.snapshot = X.snapshot
      BY <1>3, <2>1, <3>3, <3>4 DEF TxRecord, Kept
    <3>6. done \o <<>> = done
      BY Concat
    <3>7. Contents(E, S)
      BY <2>2, <3>2, <3>5, <3>6, Zenon DEF Contents
    <3>8. Good(E, S, holds, published)
      BY <2>1, <2>4, <3>5, <3>7
      DEF Good, Lifecycle, Cursors, Savepoints, Leftovers, Running
    <3>9. F.done = X.done
      BY <1>3 DEF Kept
    <3>10. T = [F EXCEPT !.savepoint = NoSavepoint, !.done = F.done \o es]
      BY <1>4, <1>6, <2>6, Zenon
    <3>11. T = E
      BY <3>1, <3>2, <3>4, <3>9, <3>10, Zenon
    <3> QED
      BY <3>5, <3>8, <3>11
  <2> QED
    BY <2>5, <2>6
<1> QED
  BY <1>5, <1>6

LEMMA FinalizeKeeps ==
  ASSUME TxInv, NEW t \in Txs, NEW S \in StreamRecord, NEW outcome, NEW es,
         Pulling(t), ~tx[t].auto, ~Running(S),
         \/ outcome = "Exhausted" /\ es = stream[t].applied
         \/ outcome = "Interrupted" /\ es = <<>>,
         tx' = [tx EXCEPT ![t] = finalize_stream(tx[t], outcome, es)],
         stream' = [stream EXCEPT ![t] = S],
         UNCHANGED <<live, log, poisoned, writer, events>>
  PROVE  TxInv'
<1>1. PICK T : T = finalize_stream(tx[t], outcome, es)
  OBVIOUS
<1>2. T \in TxRecord /\ Good(T, S, writer = t, live)
  BY <1>1, Facts, FinalizeGood DEF Pulling
<1> QED
  BY <1>1, <1>2, Facts, Frame

-----------------------------------------------------------------------------
(* Statements.                                                             *)

LEMMA ExecuteKeeps ==
  ASSUME TxInv, NEW t \in Txs, execute(t)
  PROVE  TxInv'
<1> DEFINE E == ensure_staged(tx[t])
           sp == take_savepoint(E, tx[t].staged.some)
           A(n) == Apply(E, New(n))
<1>1. PICK n \in 0 .. 2, ok \in BOOLEAN :
        /\ Mutate(n)
        /\ tx' = [tx EXCEPT ![t] = IF ok THEN [A(n) EXCEPT !.done = @ \o New(n)]
                                   ELSE apply_savepoint(A(n), sp)]
  BY Zenon DEF execute
<1>2. /\ tx[t].at = "open" /\ ~tx[t].auto /\ ~tx[t].closed /\ ~tx[t].cursor_active
      /\ UNCHANGED <<live, log, poisoned, writer, stream>>
  BY DEF execute, begin_statement, Open
<1>3. /\ tx[t] \in TxRecord /\ stream[t] \in StreamRecord
      /\ Good(tx[t], stream[t], writer = t, live)
  BY Facts
<1>4. New(n) \in Graph /\ events' \in 0 .. MaxEvents
  BY <1>1, Facts, NewTyped DEF Mutate
<1>5. tx[t].snapshot \in Graph /\ tx[t].done \in Graph
  BY <1>3 DEF TxRecord
<1>6. Contents(tx[t], stream[t]) /\ Lifecycle(tx[t], stream[t], writer = t, live)
  BY <1>3 DEF Good
<1>7. /\ E \in TxRecord /\ E.staged.some
      /\ E.staged.graph = tx[t].snapshot \o tx[t].done /\ E.buffer = tx[t].done
      /\ Kept(E, tx[t]) /\ E.cursor_active = tx[t].cursor_active
  BY <1>2, <1>3, <1>6, Staged, Zenon
<1>8. /\ A(n) \in TxRecord /\ A(n).staged.some = E.staged.some
      /\ A(n).staged.graph = E.staged.graph \o New(n) /\ A(n).buffer = E.buffer \o New(n)
      /\ Kept(A(n), E) /\ A(n).cursor_active = E.cursor_active
  BY <1>4, <1>7, Applied, Zenon
<1>9. PICK done \in Graph : done = tx[t].done \o New(n)
  BY <1>4, <1>5, Concat
<1>10. A(n).staged.some /\ A(n).buffer = done /\ A(n).staged.graph = tx[t].snapshot \o done
  <2>1. (tx[t].snapshot \o tx[t].done) \o New(n) = tx[t].snapshot \o done
    <3>2. (tx[t].snapshot \o tx[t].done) \o New(n) = tx[t].snapshot \o (tx[t].done \o New(n))
      BY <1>4, <1>5, Associates, Zenon
    <3> QED
      BY <1>9, <3>2, Zenon
  <2> QED
    BY <1>7, <1>8, <1>9, <2>1, Zenon
<1>11. Kept(A(n), tx[t]) /\ ~A(n).cursor_active
  BY <1>2, <1>7, <1>8, Zenon DEF Kept
<1>12. ~Running(stream[t])
  BY <1>2, <1>3 DEF Good, Cursors
<1>13. stream' = [stream EXCEPT ![t] = stream[t]]
  BY <1>2, Facts
<1>14. CASE ok
  <2>1. PICK T : T = [A(n) EXCEPT !.done = A(n).done \o New(n)]
    OBVIOUS
  <2>2. A(n).done \o New(n) = done
    BY <1>9, <1>11, Zenon DEF Kept
  <2>3. tx' = [tx EXCEPT ![t] = T]
    BY <1>1, <1>14, <2>1, Zenon
  <2>4. T = [A(n) EXCEPT !.done = done]
    BY <2>1, <2>2, Zenon
  <2> HIDE DEF A
  <2>5. A(n) \in TxRecord
    BY <1>8
  <2>6. /\ T \in TxRecord /\ T.done = done /\ ~T.cursor_active
        /\ T.staged = A(n).staged /\ T.buffer = A(n).buffer
        /\ T.at = "open" /\ T.mode = tx[t].mode /\ ~T.auto
        /\ T.closed = tx[t].closed /\ T.snapshot = tx[t].snapshot
    BY <1>2, <1>11, <2>4, <2>5 DEF TxRecord, Kept
  <2>7. Contents(T, stream[t])
    <3>1. done \o <<>> = done
      BY Concat
    <3> QED
      BY <1>10, <2>6, <3>1, Zenon DEF Contents
  <2>8. Good(T, stream[t], writer' = t, live')
    BY <1>2, <1>6, <1>12, <2>6, <2>7
    DEF Good, Lifecycle, Cursors, Savepoints, Leftovers, Running
  <2> QED
    BY <1>2, <1>3, <1>4, <1>13, <2>3, <2>6, <2>8, Facts, Frame
<1>15. CASE ~ok
  <2>1. PICK T : T = apply_savepoint(A(n), sp)
    OBVIOUS
  <2>2. tx' = [tx EXCEPT ![t] = T]
    BY <1>1, <1>15, <2>1, Zenon
  <2>3. /\ sp \in [set : BOOLEAN, staged : Optional, len : Nat]
        /\ sp.len = Len(tx[t].done)
        /\ sp.staged = IF tx[t].staged.some THEN E.staged ELSE None
    <3>1. Len(tx[t].done) \in Nat
      BY <1>5 DEF Graph
    <3>2. E.staged \in Optional /\ None \in Optional
      BY <1>7, EmptySeq DEF TxRecord, None, Optional, Graph
    <3>3. E.buffer = tx[t].done
      BY <1>7
    <3> HIDE DEF E
    <3> QED
      BY <3>1, <3>2, <3>3 DEF take_savepoint
  <2>4. A(n).buffer = A(n).done \o New(n) /\ A(n).done = tx[t].done
    BY <1>9, <1>10, <1>11, Zenon DEF Kept
  <2>5. /\ T \in TxRecord /\ Kept(T, A(n)) /\ T.cursor_active = A(n).cursor_active
        /\ T.buffer = A(n).done /\ T.staged = sp.staged
    BY <1>4, <1>8, <2>1, <2>3, <2>4, BackToSavepoint, Zenon
  <2> HIDE DEF A, sp
  <2>6. Kept(T, tx[t]) /\ ~T.cursor_active /\ T.buffer = tx[t].done
    BY <1>11, <2>4, <2>5, Zenon DEF Kept
  <2>7. IF T.staged.some THEN T.staged.graph = tx[t].snapshot \o tx[t].done
        ELSE tx[t].done = <<>>
    <3>1. CASE tx[t].staged.some
      BY <1>7, <2>3, <2>5, <3>1, Zenon
    <3>2. CASE ~tx[t].staged.some
      <4>1. tx[t].done = <<>> /\ ~T.staged.some
        BY <1>2, <1>6, <2>3, <2>5, <3>2 DEF Contents, None
      <4> QED
        BY <4>1
    <3> QED
      BY <3>1, <3>2
  <2>8. Contents(T, stream[t])
    <3>1. tx[t].done \o <<>> = tx[t].done
      BY <1>5, Concat
    <3> QED
      BY <2>6, <2>7, <3>1, Zenon DEF Contents, Kept
  <2>9. Good(T, stream[t], writer' = t, live')
    BY <1>2, <1>6, <1>12, <2>6, <2>8
    DEF Good, Lifecycle, Cursors, Savepoints, Leftovers, Running, Kept
  <2> QED
    BY <1>2, <1>3, <1>4, <1>13, <2>2, <2>5, <2>9, Facts, Frame
<1> QED
  BY <1>14, <1>15

\* A stream that opens runs on the copy; one that fails to open is undone.
LEMMA StreamCompiledKeeps ==
  ASSUME TxInv, NEW t \in Txs, stream_compiled(t)
  PROVE  TxInv'
<1> DEFINE E == ensure_staged(tx[t])
           sp(writes) == IF writes THEN take_savepoint(E, tx[t].staged.some) ELSE NoSavepoint
           C(writes) == [E EXCEPT !.cursor_active = TRUE, !.moved = FALSE,
                                  !.savepoint = sp(writes)]
           A(writes, n) == Apply(C(writes), New(n))
           R(writes, n, held) == [at |-> "active", writes |-> writes, applied |-> New(n),
                                  held |-> held]
<1>1. PICK writes \in BOOLEAN, n \in 0 .. 2, ok \in BOOLEAN :
        /\ writes => tx[t].mode = "rw"
        /\ ~writes => n = 0
        /\ Mutate(n)
        /\ tx' = [tx EXCEPT ![t] = IF ok THEN A(writes, n)
                    ELSE finalize_stream(A(writes, n), "Interrupted", <<>>)]
        /\ stream' = IF ok THEN [stream EXCEPT ![t] =
                       R(writes, n, stream[t].at \in {"exhausted", "errored"})]
                     ELSE stream
  BY Zenon DEF stream_compiled
<1>2. /\ tx[t].at = "open" /\ ~tx[t].auto /\ ~tx[t].closed /\ ~tx[t].cursor_active
      /\ UNCHANGED <<live, log, poisoned, writer>>
  BY DEF stream_compiled, begin_statement, Open
<1>3. /\ tx[t] \in TxRecord /\ stream[t] \in StreamRecord
      /\ Good(tx[t], stream[t], writer = t, live)
  BY Facts
<1>4. New(n) \in Graph /\ (~writes => New(n) = <<>>) /\ events' \in 0 .. MaxEvents
  BY <1>1, Facts, NewTyped DEF Mutate
<1>5. tx[t].snapshot \in Graph /\ tx[t].done \in Graph
  BY <1>3 DEF TxRecord
<1>6. Contents(tx[t], stream[t]) /\ Lifecycle(tx[t], stream[t], writer = t, live)
  BY <1>3 DEF Good
<1>7. /\ E \in TxRecord /\ E.staged.some
      /\ E.staged.graph = tx[t].snapshot \o tx[t].done /\ E.buffer = tx[t].done
      /\ Kept(E, tx[t])
  BY <1>2, <1>3, <1>6, Staged, Zenon
<1> HIDE DEF E
<1>8. /\ sp(writes) \in [set : BOOLEAN, staged : Optional, len : Nat]
      /\ IF writes
         THEN /\ sp(writes).set /\ sp(writes).len = Len(tx[t].done)
              /\ IF sp(writes).staged.some
                 THEN sp(writes).staged.graph = tx[t].snapshot \o tx[t].done
                 ELSE tx[t].done = <<>>
         ELSE ~sp(writes).set
  <2>1. Len(tx[t].done) \in Nat
    BY <1>5 DEF Graph
  <2>2. E.staged \in Optional /\ None \in Optional /\ ~None.some
    BY <1>7, EmptySeq DEF TxRecord, None, Optional, Graph
  <2>3. ~tx[t].staged.some => tx[t].done = <<>>
    BY <1>2, <1>6 DEF Contents
  <2>4. CASE writes
    BY <1>7, <2>1, <2>2, <2>3, <2>4 DEF take_savepoint
  <2>5. CASE ~writes
    BY <2>2, <2>5 DEF NoSavepoint
  <2> QED
    BY <2>4, <2>5
<1> HIDE DEF sp
<1>9. /\ C(writes) \in TxRecord /\ Kept(C(writes), tx[t]) /\ C(writes).cursor_active
      /\ ~C(writes).moved /\ C(writes).savepoint = sp(writes)
      /\ C(writes).staged = E.staged /\ C(writes).buffer = tx[t].done
  BY <1>7, <1>8 DEF TxRecord, Kept
<1> HIDE DEF C
<1>10. PICK es \in Graph : es = New(n)
  BY <1>4
<1>11. PICK Y, X : Y = C(writes) /\ X = Apply(Y, es) /\ X = A(writes, n)
  BY <1>10, Zenon
<1> HIDE DEF A
<1>12. /\ Y \in TxRecord /\ Kept(Y, tx[t]) /\ Y.cursor_active /\ ~Y.moved
       /\ Y.savepoint = sp(writes) /\ Y.staged.some
       /\ Y.staged.graph = tx[t].snapshot \o tx[t].done /\ Y.buffer = tx[t].done
  BY <1>7, <1>9, <1>11, Zenon
<1>13a. /\ X \in TxRecord /\ X.staged.some = Y.staged.some
        /\ X.staged.graph = Y.staged.graph \o es /\ X.buffer = Y.buffer \o es
        /\ Kept(X, Y) /\ X.savepoint = Y.savepoint /\ X.cursor_active = Y.cursor_active
        /\ X.moved = Y.moved
  <2>1. Y \in TxRecord /\ es \in Graph /\ X = Apply(Y, es)
    BY <1>10, <1>11, <1>12
  <2> QED
    BY <2>1, Applied, ZenonT(40)
<1>13. /\ X \in TxRecord /\ Kept(X, tx[t]) /\ X.cursor_active /\ ~X.moved
       /\ X.savepoint = sp(writes) /\ X.staged.some
  BY <1>12, <1>13a, Zenon DEF Kept
<1>14. X.staged.graph = tx[t].snapshot \o (tx[t].done \o es) /\ X.buffer = tx[t].done \o es
  <2>1. (tx[t].snapshot \o tx[t].done) \o es = tx[t].snapshot \o (tx[t].done \o es)
    BY <1>5, Associates, Zenon
  <2> QED
    BY <1>12, <1>13a, <2>1, Zenon
<1>15. ASSUME NEW held \in BOOLEAN
       PROVE  /\ R(writes, n, held) \in StreamRecord
              /\ Good(X, R(writes, n, held), writer = t, live)
  <2>1. PICK S : S = R(writes, n, held)
    OBVIOUS
  <2>2. /\ S \in StreamRecord /\ S.at = "active" /\ S.writes = writes /\ S.applied = es
    BY <1>10, <2>1 DEF StreamRecord
  <2>3. Contents(X, S)
    BY <1>13, <1>14, <2>2, Zenon DEF Contents, Kept
  <2>4. Savepoints(X, S)
    <3>1. X.done = tx[t].done /\ X.snapshot = tx[t].snapshot /\ ~X.auto
      BY <1>2, <1>13 DEF Kept
    <3>2. ~writes => S.applied = <<>>
      BY <1>4, <1>10, <2>2
    <3>3. IF S.writes
          THEN /\ X.savepoint.set /\ X.savepoint.len = Len(X.done)
               /\ IF X.savepoint.staged.some
                  THEN X.savepoint.staged.graph = X.snapshot \o X.done
                  ELSE X.done = <<>>
          ELSE ~X.savepoint.set /\ S.applied = <<>>
      BY <1>8, <1>13, <2>2, <3>1, <3>2, Zenon
    <3> QED
      BY <3>1, <3>3, Zenon DEF Savepoints
  <2>5. Good(X, S, writer = t, live)
    BY <1>2, <1>6, <1>13, <2>2, <2>3, <2>4
    DEF Good, Lifecycle, Cursors, Leftovers, Running, Kept
  <2> QED
    BY <2>1, <2>2, <2>5
<1> HIDE DEF R
<1>16. CASE ok
  <2>1. PICK held \in BOOLEAN : held = (stream[t].at \in {"exhausted", "errored"})
    <3>1. (stream[t].at \in {"exhausted", "errored"}) = TRUE
          \/ (stream[t].at \in {"exhausted", "errored"}) = FALSE
      OBVIOUS
    <3> QED
      BY <3>1, Zenon
  <2>2. tx' = [tx EXCEPT ![t] = X] /\ stream' = [stream EXCEPT ![t] = R(writes, n, held)]
    BY <1>1, <1>11, <1>16, <2>1, Zenon
  <2>3. Good(X, R(writes, n, held), writer' = t, live') /\ R(writes, n, held) \in StreamRecord
    BY <1>2, <1>15
  <2> QED
    BY <1>2, <1>4, <1>13, <2>2, <2>3, Facts, Frame
<1>17. CASE ~ok
  <2>1. PICK T : T = finalize_stream(X, "Interrupted", <<>>)
    OBVIOUS
  <2>2. tx' = [tx EXCEPT ![t] = T] /\ stream' = [stream EXCEPT ![t] = stream[t]]
    <3>1. tx' = [tx EXCEPT ![t] = T] /\ stream' = stream
      BY <1>1, <1>11, <1>17, <2>1, Zenon
    <3> QED
      BY <3>1, Facts
  <2>3. ~Running(stream[t])
    BY <1>2, <1>3 DEF Good, Cursors
  <2>4. PICK S : S = R(writes, n, FALSE)
    OBVIOUS
  <2>5. S \in StreamRecord /\ Good(X, S, writer = t, live)
    BY <1>15, <2>4
  <2>6. S.at = "active" /\ ~X.auto
    BY <1>2, <1>13, <2>4 DEF R, Kept
  <2>7. T \in TxRecord /\ Good(T, stream[t], writer = t, live)
    BY <1>13, <2>1, <2>3, <2>5, <2>6, FinalizeGood
  <2>8. Good(T, stream[t], writer' = t, live')
    BY <1>2, <2>7
  <2> QED
    BY <1>2, <1>3, <1>4, <2>2, <2>7, <2>8, Facts, Frame
<1> QED
  BY <1>16, <1>17

-----------------------------------------------------------------------------
(* The end of a transaction and of its streams.                            *)

\* A discarded record, its handle consumed.
LEMMA DiscardEnds ==
  ASSUME TxInv, NEW t \in Txs, NEW X \in TxRecord, NEW S \in StreamRecord,
         X.auto = tx[t].auto, X.mode = tx[t].mode, X.done = tx[t].done, ~Running(S),
         Gone(t, discard_transaction_state(X)), stream' = [stream EXCEPT ![t] = S],
         UNCHANGED <<live, log, poisoned, events>>
  PROVE  TxInv'
<1>0. PICK D : D = discard_transaction_state(X)
  OBVIOUS
<1>1. /\ D \in TxRecord
      /\ D = [X EXCEPT !.savepoint = NoSavepoint, !.cursor_active = FALSE,
                       !.staged = None, !.buffer = <<>>, !.closed = TRUE]
  BY <1>0, Discarded
<1> DEFINE T == [D EXCEPT !.at = "gone"]
<1>2a. /\ D.closed /\ ~D.cursor_active /\ D.staged = None /\ D.buffer = <<>>
       /\ D.auto = X.auto /\ D.mode = X.mode /\ D.done = X.done
  BY <1>1 DEF TxRecord
<1>2b. /\ T \in TxRecord /\ T.at = "gone" /\ T.closed = D.closed
       /\ T.cursor_active = D.cursor_active /\ T.staged = D.staged
       /\ T.buffer = D.buffer /\ T.auto = D.auto /\ T.mode = D.mode /\ T.done = D.done
  <2>1. D \in TxRecord
    BY <1>1
  <2> QED
    BY <2>1 DEF TxRecord
<1>2. /\ T \in TxRecord /\ T.at = "gone" /\ T.closed /\ ~T.cursor_active /\ ~T.staged.some
      /\ T.buffer = <<>> /\ T.auto = tx[t].auto /\ T.mode = tx[t].mode /\ T.done = tx[t].done
  <2> HIDE DEF T
  <2>1. ~None.some
    BY DEF None
  <2> QED
    BY <1>2a, <1>2b, <2>1
<1>3. tx' = [tx EXCEPT ![t] = T] /\ writer' = IF writer = t THEN Nobody ELSE writer
  BY <1>0 DEF Gone
<1> HIDE DEF T
<1> QED
  BY <1>2, <1>3, Facts, Ends

\* The handle goes; a stream that still runs keeps the copy.
LEMMA DropHandleKeeps ==
  ASSUME TxInv, NEW t \in Txs, Open(t), ~tx[t].auto, DropHandle(t),
         UNCHANGED <<stream, events>>
  PROVE  TxInv'
<1>1. /\ tx[t] \in TxRecord /\ stream[t] \in StreamRecord
      /\ Good(tx[t], stream[t], writer = t, live) /\ tx[t].at = "open"
  BY Facts DEF Open
<1>2. stream' = [stream EXCEPT ![t] = stream[t]]
  BY Facts
<1>3. CASE tx[t].cursor_active
  <2> DEFINE T == [tx[t] EXCEPT !.closed = TRUE, !.at = "gone"]
  <2>1. /\ tx' = [tx EXCEPT ![t] = T] /\ writer' = IF writer = t THEN Nobody ELSE writer
        /\ live' = live /\ log' = log /\ poisoned' = poisoned /\ events' = events
    BY <1>3 DEF DropHandle, Gone
  <2>2. T \in TxRecord
    BY <1>1 DEF TxRecord
  <2>3. /\ T.at = "gone" /\ T.closed /\ T.cursor_active /\ T.staged = tx[t].staged
        /\ ~T.auto /\ T.mode = tx[t].mode /\ T.moved = tx[t].moved
    BY <1>1, <1>3 DEF TxRecord
  <2>4. writer' # t
    BY <2>1, NobodyAssumption
  <2>5. Good(T, stream[t], writer' = t, live')
    BY <1>1, <1>3, <2>3, <2>4
    DEF Good, Lifecycle, Cursors, Savepoints, Contents, Leftovers
  <2>6. writer' = writer \/ (writer = t /\ writer' = Nobody)
    BY <2>1
  <2>7. /\ live' \in Graph /\ log' \in Graph /\ poisoned' \in BOOLEAN
        /\ events' \in 0 .. MaxEvents /\ live' = live
    BY <2>1, Facts
  <2>8. tx' = [tx EXCEPT ![t] = T]
    BY <2>1
  <2> HIDE DEF T
  <2> QED
    BY <1>1, <1>2, <2>2, <2>5, <2>6, <2>7, <2>8, Frame
<1>4. CASE ~tx[t].cursor_active
  <2>1. ~Running(stream[t])
    BY <1>1, <1>4 DEF Good, Cursors
  <2>2. Gone(t, discard_transaction_state(tx[t])) /\ UNCHANGED <<live, log, poisoned, events>>
    BY <1>4 DEF DropHandle
  <2> QED
    BY <1>1, <1>2, <2>1, <2>2, DiscardEnds
<1> QED
  BY <1>3, <1>4

\* What a commit took is published, and its handle consumed.
LEMMA PublishEnds ==
  ASSUME TxInv, NEW t \in Txs, NEW X \in TxRecord, NEW S \in StreamRecord, ~X.cursor_active,
         X.auto = tx[t].auto, X.mode = tx[t].mode, X.done = tx[t].done, ~Running(S),
         Gone(t, take_commit_state(X)), stream' = [stream EXCEPT ![t] = S],
         \/ UNCHANGED <<live, log, poisoned>>
         \/ writer = t /\ Publish(t, X.staged, X.buffer),
         events' = events
  PROVE  TxInv'
<1> DEFINE T == [take_commit_state(X) EXCEPT !.at = "gone"]
<1>1. /\ T \in TxRecord /\ T.at = "gone" /\ T.closed /\ ~T.cursor_active /\ ~T.staged.some
      /\ T.buffer = <<>> /\ T.auto = tx[t].auto /\ T.mode = tx[t].mode /\ T.done = tx[t].done
  BY EmptySeq DEF TxRecord, None, take_commit_state, Optional, Graph
<1>2. tx' = [tx EXCEPT ![t] = T] /\ writer' = IF writer = t THEN Nobody ELSE writer
  BY DEF Gone
<1>3. /\ live \in Graph /\ log \in Graph /\ poisoned \in BOOLEAN /\ X.buffer \in Graph
      /\ X.staged.graph \in Graph
  BY Facts DEF TxRecord, Optional
<1>4. log \o X.buffer \in Graph
  BY <1>3, Concat
<1>5. /\ live' \in Graph /\ log' \in Graph /\ poisoned' \in BOOLEAN
      /\ live' = live \/ writer = t
  BY <1>3, <1>4 DEF Publish
<1> HIDE DEF T
<1> QED
  BY <1>1, <1>2, <1>5, Facts, Ends

LEMMA CommitKeeps ==
  ASSUME TxInv, NEW t \in Txs, commit(t)
  PROVE  TxInv'
<1>1. /\ tx[t] \in TxRecord /\ stream[t] \in StreamRecord
      /\ Good(tx[t], stream[t], writer = t, live)
  BY Facts
<1>2. stream' = [stream EXCEPT ![t] = stream[t]] /\ events' = events /\ ~tx[t].auto /\ Open(t)
  BY Facts DEF commit
<1>3. CASE tx[t].cursor_active
  BY <1>2, <1>3, DropHandleKeeps DEF commit, MayCommit
<1>4. CASE ~tx[t].cursor_active
  <2>1. ~Running(stream[t])
    BY <1>1, <1>4 DEF Good, Cursors
  <2>2. tx[t].mode = "rw" => writer = t
    BY <1>1, <1>2 DEF Good, Lifecycle, Open
  <2>3. /\ Gone(t, take_commit_state(tx[t]))
        /\ \/ UNCHANGED <<live, log, poisoned>>
           \/ writer = t /\ Publish(t, tx[t].staged, tx[t].buffer)
    BY <1>4, <2>2 DEF commit, MayCommit
  <2> QED
    BY <1>1, <1>2, <1>4, <2>1, <2>3, PublishEnds
<1> QED
  BY <1>3, <1>4

LEMMA RollbackKeeps ==
  ASSUME TxInv, NEW t \in Txs, rollback(t), ~May("rollback_streaming")
  PROVE  TxInv'
<1>1. tx[t] \in TxRecord /\ stream[t] \in StreamRecord /\ ~Running(stream[t])
  BY Facts DEF rollback, Good, Cursors
<1>2. stream' = [stream EXCEPT ![t] = stream[t]]
  BY Facts DEF rollback
<1> QED
  BY <1>1, <1>2, DiscardEnds DEF rollback

-----------------------------------------------------------------------------
(* Streams.                                                                *)

LEMMA NextRowKeeps ==
  ASSUME TxInv, NEW t \in Txs, next_row(t)
  PROVE  TxInv'
<1>1. /\ tx[t] \in TxRecord /\ stream[t] \in StreamRecord
      /\ Good(tx[t], stream[t], writer = t, live)
  BY Facts
<1>2. /\ stream[t].at = "active" /\ stream[t].writes /\ tx[t].staged.some /\ ~tx[t].moved
      /\ Mutate(1) /\ UNCHANGED <<live, log, poisoned, writer>>
  BY DEF next_row, Pulling, Sound
<1>3. PICK es \in Graph : es = New(1)
  BY <1>2, Facts, NewTyped DEF Mutate
<1>3a. es \in Graph /\ tx[t] \in TxRecord
  BY <1>1, <1>3
<1>4. events' \in 0 .. MaxEvents
  BY <1>2, Facts, NewTyped DEF Mutate
<1>5. PICK applied \in Graph : applied = stream[t].applied \o es
  BY <1>1, <1>3, Concat DEF StreamRecord
<1>6. PICK X : X = Apply(tx[t], es)
  OBVIOUS
<1> DEFINE S == [stream[t] EXCEPT !.applied = applied]
<1>7. tx' = [tx EXCEPT ![t] = X]
  BY <1>3, <1>6 DEF next_row
<1>8. stream' = [stream EXCEPT ![t] = S]
  BY <1>3, <1>5, Facts DEF next_row
<1>9. /\ S \in StreamRecord /\ S.at = "active" /\ S.writes /\ S.applied = applied
  BY <1>1, <1>2 DEF StreamRecord
<1> HIDE DEF S
<1>10. /\ X \in TxRecord /\ X.staged.some = tx[t].staged.some
       /\ X.staged.graph = tx[t].staged.graph \o es /\ X.buffer = tx[t].buffer \o es
       /\ Kept(X, tx[t]) /\ X.savepoint = tx[t].savepoint
       /\ X.cursor_active = tx[t].cursor_active /\ X.moved = tx[t].moved
  <2>1. PICK Y : Y = tx[t]
    OBVIOUS
  <2>2. Y \in TxRecord /\ es \in Graph /\ X = Apply(Y, es)
    BY <1>3a, <1>6, <2>1
  <2>3. /\ X \in TxRecord /\ X.staged.some = Y.staged.some
        /\ X.staged.graph = Y.staged.graph \o es /\ X.buffer = Y.buffer \o es
        /\ Kept(X, Y) /\ X.savepoint = Y.savepoint
        /\ X.cursor_active = Y.cursor_active /\ X.moved = Y.moved
    BY <2>2, Applied, ZenonT(40)
  <2> QED
    BY <2>1, <2>3, Zenon
<1>11. tx[t].cursor_active /\ tx[t].at # "new"
  BY <1>1, <1>2 DEF Good, Cursors, Lifecycle, Running, NoStream
<1>12. Contents(X, S)
  <2>1. CASE tx[t].at = "open"
    <3>1. /\ tx[t].buffer = tx[t].done \o stream[t].applied
          /\ tx[t].staged.graph = tx[t].snapshot \o (tx[t].done \o stream[t].applied)
      BY <1>1, <1>2, <1>11, <2>1 DEF Good, Contents
    <3>2. /\ tx[t].snapshot \in Graph /\ tx[t].done \in Graph /\ stream[t].applied \in Graph
      BY <1>1 DEF TxRecord, StreamRecord
    <3>3. (tx[t].done \o stream[t].applied) \o es = tx[t].done \o applied
      BY <1>3a, <1>5, <3>2, Associates, ZenonT(40)
    <3>4. PICK d \in Graph : d = tx[t].done \o stream[t].applied
      BY <3>2, Concat
    <3>4a. d \in Graph
      BY <3>4
    <3>5. (tx[t].snapshot \o d) \o es = tx[t].snapshot \o (d \o es)
      <4>1. PICK a : a = tx[t].snapshot
        OBVIOUS
      <4>2. a \in Graph /\ d \in Graph /\ es \in Graph
        BY <1>3a, <3>2, <3>4a, <4>1
      <4>3. (a \o d) \o es = a \o (d \o es)
        BY <4>2, Associates, Zenon
      <4> QED
        BY <4>1, <4>3, Zenon
    <3>6. X.buffer = tx[t].done \o applied
      BY <1>10, <3>1, <3>3, Zenon
    <3>7. X.staged.graph = tx[t].snapshot \o (tx[t].done \o applied)
      BY <1>10, <3>1, <3>3, <3>4, <3>5, Zenon
    <3>8. X.staged.some /\ X.cursor_active
      BY <1>2, <1>10, <1>11
    <3> QED
      BY <1>9, <1>10, <3>6, <3>7, <3>8, Zenon DEF Contents, Kept
  <2>2. CASE tx[t].at # "open"
    BY <1>10, <2>2 DEF Contents, Kept
  <2> QED
    BY <2>1, <2>2
<1>13. Good(X, S, writer = t, live)
  <2>1. /\ Lifecycle(tx[t], stream[t], writer = t, live) /\ Cursors(tx[t], stream[t])
        /\ Savepoints(tx[t], stream[t])
    BY <1>1 DEF Good
  <2>2. Lifecycle(X, S, writer = t, live)
    BY <1>10, <1>11, <2>1 DEF Lifecycle, Kept
  <2>3. Cursors(X, S)
    BY <1>2, <1>9, <1>10, <2>1 DEF Cursors, Running, Kept
  <2>4. Savepoints(X, S)
    BY <1>2, <1>9, <1>10, <1>11, <2>1 DEF Savepoints, Kept
  <2>5. Leftovers(X)
    BY <1>10, <1>11 DEF Leftovers
  <2> QED
    BY <1>12, <2>2, <2>3, <2>4, <2>5 DEF Good
<1>14. Good(X, S, writer' = t, live')
  BY <1>2, <1>13
<1> QED
  BY <1>2, <1>4, <1>7, <1>8, <1>9, <1>10, <1>14, Facts, Frame

LEMMA PullEndKeeps ==
  ASSUME TxInv, NEW t \in Txs, pull_end(t)
  PROVE  TxInv'
<1> DEFINE S == [stream[t] EXCEPT !.at = "drained"]
<1>1. /\ tx[t] \in TxRecord /\ stream[t] \in StreamRecord
      /\ Good(tx[t], stream[t], writer = t, live)
  BY Facts
<1>2. /\ stream[t].at = "active" /\ tx[t].auto
      /\ UNCHANGED <<live, log, poisoned, writer, tx, events>>
  BY DEF pull_end, Pulling
<1>3. tx' = [tx EXCEPT ![t] = tx[t]] /\ stream' = [stream EXCEPT ![t] = S]
  BY <1>2, Facts DEF pull_end
<1>4. /\ S \in StreamRecord /\ S.at = "drained" /\ S.writes = stream[t].writes
      /\ S.applied = stream[t].applied
  BY <1>1 DEF StreamRecord
<1> HIDE DEF S
<1>5. Good(tx[t], S, writer' = t, live')
  BY <1>1, <1>2, <1>4
  DEF Good, Lifecycle, Cursors, Savepoints, Contents, Leftovers, Running, NoStream
<1> QED
  BY <1>1, <1>2, <1>3, <1>4, <1>5, Facts, Frame

\* The hidden transaction of an auto-commit stream, when it commits.
LEMMA Drained ==
  ASSUME TxInv, NEW t \in Txs, tx[t].auto, stream[t].at \in {"active", "drained"}
  PROVE  /\ tx[t].cursor_active /\ tx[t].at = "open" /\ tx[t].mode = "rw" /\ writer = t
         /\ tx[t].done = <<>> /\ tx[t].staged.some
         /\ tx[t].buffer = stream[t].applied
         /\ tx[t].staged.graph = live \o stream[t].applied
<1>1. /\ tx[t] \in TxRecord /\ stream[t] \in StreamRecord
      /\ Good(tx[t], stream[t], writer = t, live)
  BY Facts
<1>2. /\ tx[t].cursor_active /\ tx[t].at = "open" /\ tx[t].mode = "rw" /\ writer = t
      /\ tx[t].done = <<>> /\ tx[t].staged.some /\ tx[t].snapshot = live
  BY <1>1 DEF Good, Lifecycle, Cursors, Savepoints, Running
<1>3. <<>> \o stream[t].applied = stream[t].applied
  BY <1>1, Concat DEF StreamRecord
<1>4. /\ tx[t].buffer = <<>> \o stream[t].applied
      /\ tx[t].staged.graph = live \o (<<>> \o stream[t].applied)
  BY <1>1, <1>2 DEF Good, Contents
<1> QED
  BY <1>2, <1>3, <1>4

LEMMA CommitDrainedKeeps ==
  ASSUME TxInv, NEW t \in Txs, commit_drained(t)
  PROVE  TxInv'
<1> DEFINE X == [tx[t] EXCEPT !.cursor_active = FALSE]
           S == [stream[t] EXCEPT !.at = IF poisoned' THEN "errored" ELSE "exhausted"]
<1>1. writer = t
  BY Drained DEF commit_drained
<1>2. tx[t] \in TxRecord /\ stream[t] \in StreamRecord
  BY Facts
<1>3. /\ X \in TxRecord /\ ~X.cursor_active
      /\ X.auto = tx[t].auto /\ X.mode = tx[t].mode /\ X.done = tx[t].done
  BY <1>2 DEF TxRecord
<1>4. S \in StreamRecord /\ ~Running(S)
  BY <1>2 DEF StreamRecord, Running
<1>5. stream' = [stream EXCEPT ![t] = S]
  BY Facts DEF commit_drained, GuardCommit
<1>6. Gone(t, take_commit_state(X)) /\ Publish(t, X.staged, X.buffer) /\ events' = events
  BY DEF commit_drained, GuardCommit
<1> HIDE DEF X, S
<1> QED
  BY <1>1, <1>3, <1>4, <1>5, <1>6, PublishEnds

\* An auto-commit stream that is rolled back.
LEMMA GuardRollbackKeeps ==
  ASSUME TxInv, NEW t \in Txs, NEW at \in {"errored", "dropped"},
         GuardRollback(t, at), UNCHANGED events
  PROVE  TxInv'
<1> DEFINE S == [stream[t] EXCEPT !.at = at]
<1>1. tx[t] \in TxRecord /\ stream[t] \in StreamRecord
  BY Facts
<1>2. S \in StreamRecord /\ ~Running(S)
  BY <1>1 DEF StreamRecord, Running
<1>3. stream' = [stream EXCEPT ![t] = S]
  BY Facts DEF GuardRollback
<1>4. Gone(t, discard_transaction_state(tx[t])) /\ UNCHANGED <<live, log, poisoned, events>>
  BY DEF GuardRollback
<1> HIDE DEF S
<1> QED
  BY <1>1, <1>2, <1>3, <1>4, DiscardEnds

\* A statement's stream that is over, one way or the other.
LEMMA StreamOverKeeps ==
  ASSUME TxInv, NEW t \in Txs, NEW at \in {"exhausted", "errored", "dropped"},
         NEW outcome, NEW es,
         \/ outcome = "Exhausted" /\ es = stream[t].applied
         \/ outcome = "Interrupted" /\ es = <<>>,
         Pulling(t), ~tx[t].auto,
         tx' = [tx EXCEPT ![t] = lease_finalize(@, FALSE, outcome, es)],
         stream' = [stream EXCEPT ![t].at = at],
         UNCHANGED <<live, log, poisoned, writer, events>>
  PROVE  TxInv'
<1> DEFINE S == [stream[t] EXCEPT !.at = at]
<1>1. stream[t] \in StreamRecord
  BY Facts
<1>2. S \in StreamRecord /\ ~Running(S)
  BY <1>1 DEF StreamRecord, Running
<1>3. stream' = [stream EXCEPT ![t] = S]
  BY Facts
<1>4. tx' = [tx EXCEPT ![t] = finalize_stream(tx[t], outcome, es)]
  BY Facts DEF lease_finalize
<1> HIDE DEF S
<1> QED
  BY <1>2, <1>3, <1>4, FinalizeKeeps

LEMMA FinishKeeps ==
  ASSUME TxInv, NEW t \in Txs, Finish(t)
  PROVE  TxInv'
<1> QED
  BY StreamOverKeeps DEF Finish

LEMMA FailKeeps ==
  ASSUME TxInv, NEW t \in Txs, Fail(t)
  PROVE  TxInv'
<1>1. CASE tx[t].auto
  BY <1>1, GuardRollbackKeeps DEF Fail
<1>2. CASE ~tx[t].auto
  BY <1>2, StreamOverKeeps DEF Fail
<1> QED
  BY <1>1, <1>2

LEMMA DropStreamKeeps ==
  ASSUME TxInv, NEW t \in Txs, drop_stream(t)
  PROVE  TxInv'
<1>1. CASE tx[t].auto
  BY <1>1, GuardRollbackKeeps DEF drop_stream
<1>2. CASE ~tx[t].auto
  <2>1. Pulling(t)
    BY <1>2, Facts DEF drop_stream, Good, Cursors, Pulling
  <2> QED
    BY <1>2, <2>1, StreamOverKeeps DEF drop_stream
<1> QED
  BY <1>1, <1>2

LEMMA DropHeldKeeps ==
  ASSUME TxInv, NEW t \in Txs, drop_held(t)
  PROVE  TxInv'
<1> DEFINE S == [stream[t] EXCEPT !.held = FALSE]
<1>1. /\ tx[t] \in TxRecord /\ stream[t] \in StreamRecord
      /\ Good(tx[t], stream[t], writer = t, live)
  BY Facts
<1>2. /\ tx' = [tx EXCEPT ![t] = tx[t]] /\ stream' = [stream EXCEPT ![t] = S]
      /\ UNCHANGED <<live, log, poisoned, writer, events>>
  BY Facts DEF drop_held, lease_finalize
<1>3. /\ S \in StreamRecord /\ S.at = stream[t].at /\ S.writes = stream[t].writes
      /\ S.applied = stream[t].applied
  BY <1>1 DEF StreamRecord
<1>4. stream[t] # NoStream
  BY DEF drop_held, NoStream
<1> HIDE DEF S
<1>5. Good(tx[t], S, writer' = t, live')
  BY <1>1, <1>2, <1>3, <1>4
  DEF Good, Lifecycle, Cursors, Savepoints, Contents, Leftovers, Running
<1> QED
  BY <1>1, <1>2, <1>3, <1>5, Facts, Frame

-----------------------------------------------------------------------------
(* The theorems: no stream is live when `rollback` is called, the case the *)
(* code leaves open.                                                       *)

LEMMA InitGood == Init => TxInv
<1> SUFFICES ASSUME Init PROVE TxInv
  OBVIOUS
<1>1. MaxEvents \in Nat
  BY TxStatementAssumption
<1>2. <<>> \in Graph /\ None \in Optional
  BY EmptySeq DEF Graph, None, Optional
<1>3. NoSavepoint \in [set : BOOLEAN, staged : Optional, len : Nat]
  BY <1>2 DEF NoSavepoint
<1>4. NotBegun \in TxRecord /\ NoStream \in StreamRecord
  BY <1>2, <1>3 DEF NotBegun, TxRecord, NoStream, StreamRecord
<1>5. TypeOK
  <2>1. tx \in [Txs -> TxRecord] /\ stream \in [Txs -> StreamRecord]
    BY <1>4 DEF Init
  <2>2. live \in Graph /\ log \in Graph
    BY <1>2 DEF Init
  <2>3. poisoned \in BOOLEAN /\ writer \in Txs \cup {Nobody}
    BY DEF Init
  <2>4. events = 0
    BY DEF Init
  <2>5. events \in 0 .. MaxEvents
    BY <1>1, <2>4
  <2> QED
    BY <2>1, <2>2, <2>3, <2>5 DEF TypeOK
<1>6. ASSUME NEW t \in Txs
      PROVE  Good(tx[t], stream[t], writer = t, live)
  <2>1. tx[t] = NotBegun /\ stream[t] = NoStream /\ writer # t
    BY NobodyAssumption DEF Init
  <2> QED
    BY <2>1 DEF Good, Lifecycle, Cursors, Savepoints, Contents, Leftovers, Running,
                NotBegun, NoStream, None
<1> QED
  BY <1>5, <1>6 DEF TxInv

LEMMA NextKeeps ==
  ASSUME ~May("rollback_streaming"), TxInv, [Next]_vars
  PROVE  TxInv'
<1>1. CASE UNCHANGED vars
  <2>1. TypeOK'
    BY <1>1 DEF vars, TxInv, TypeOK
  <2>2. ASSUME NEW t \in Txs
        PROVE  Good(tx'[t], stream'[t], writer' = t, live')
    BY <1>1 DEF vars, TxInv
  <2> QED
    BY <2>1, <2>2 DEF TxInv
<1>2. ASSUME NEW t \in Txs, Step(t)
      PROVE  TxInv'
  <2>1. CASE begin_transaction(t)
    BY <2>1, BeginKeeps
  <2>2. CASE stream_with_params(t)
    BY <2>2, StreamWithParamsKeeps
  <2>3. CASE execute(t)
    BY <2>3, ExecuteKeeps
  <2>4. CASE stream_compiled(t)
    BY <2>4, StreamCompiledKeeps
  <2>5. CASE commit(t)
    BY <2>5, CommitKeeps
  <2>6. CASE rollback(t)
    BY <2>6, RollbackKeeps
  <2>7. CASE drop_transaction(t)
    BY <2>7, DropHandleKeeps DEF drop_transaction
  <2>8. CASE next_row(t)
    BY <2>8, NextRowKeeps
  <2>9. CASE Finish(t)
    BY <2>9, FinishKeeps
  <2>10. CASE pull_end(t)
    BY <2>10, PullEndKeeps
  <2>11. CASE commit_drained(t)
    BY <2>11, CommitDrainedKeeps
  <2>12. CASE Fail(t)
    BY <2>12, FailKeeps
  <2>13. CASE drop_stream(t)
    BY <2>13, DropStreamKeeps
  <2>14. CASE drop_held(t)
    BY <2>14, DropHeldKeeps
  <2> QED
    BY <1>2, <2>1, <2>2, <2>3, <2>4, <2>5, <2>6, <2>7, <2>8, <2>9, <2>10, <2>11, <2>12,
       <2>13, <2>14 DEF Step
<1> QED
  BY <1>1, <1>2 DEF Next

\* The staged copy, the buffer, the savepoint and the cursor of every
\* transaction stay in step through all of Transaction's and QueryStream's calls.
THEOREM TxInvHolds ==
  ASSUME "rollback_streaming" \notin Ops
  PROVE  Spec => []TxInv
<1>1. ~May("rollback_streaming")
  BY DEF May
<1>2. TxInv /\ [Next]_vars => TxInv'
  BY <1>1, NextKeeps
<1> QED
  BY <1>2, InitGood, PTL DEF Spec

\* A failed, abandoned or dropped statement leaves the staged graph and the
\* buffer (finalize_stream, apply_savepoint) exactly at the completed ones.
THEOREM StatementsWholeHolds ==
  ASSUME "rollback_streaming" \notin Ops
  PROVE  Spec => []StatementsWhole
<1>1. TxInv => StatementsWhole
  <2> SUFFICES ASSUME TxInv, NEW t \in Txs, Open(t)
               PROVE  /\ View(t) = tx[t].snapshot \o tx[t].done \o UnderWay(t)
                      /\ tx[t].buffer = tx[t].done \o UnderWay(t)
    BY DEF StatementsWhole
  <2>1. /\ tx[t] \in TxRecord /\ stream[t] \in StreamRecord
        /\ Contents(tx[t], stream[t]) /\ Cursors(tx[t], stream[t]) /\ tx[t].at = "open"
    BY Facts DEF Good, Open
  <2>2. PICK s \in Graph, d \in Graph, e \in Graph :
          s = tx[t].snapshot /\ d = tx[t].done /\ e = UnderWay(t)
    <3>1. UnderWay(t) \in Graph
      BY <2>1, EmptySeq DEF UnderWay, StreamRecord, Graph
    <3> QED
      BY <2>1, <3>1 DEF TxRecord
  <2>3. /\ tx[t].buffer = d \o e
        /\ IF tx[t].staged.some THEN tx[t].staged.graph = s \o (d \o e) ELSE d = <<>>
    BY <2>1, <2>2 DEF Contents, UnderWay
  <2>4. s \in Graph /\ d \in Graph /\ e \in Graph
    BY <2>2
  <2>5. (s \o d) \o e = s \o (d \o e)
    BY <2>4, Associates, Zenon
  <2>6. View(t) = (s \o d) \o e
    <3>1. CASE tx[t].staged.some
      <4>1. View(t) = tx[t].staged.graph
        BY <3>1 DEF View
      <4> QED
        BY <2>3, <2>5, <3>1, <4>1, Zenon
    <3>2. CASE ~tx[t].staged.some
      <4>1. d = <<>> /\ e = <<>>
        BY <2>1, <2>2, <2>3, <3>2 DEF UnderWay, Cursors
      <4>2. View(t) = s
        BY <2>2, <3>2 DEF View
      <4>3. s \o <<>> = s
        BY <2>4, Concat
      <4> QED
        BY <4>1, <4>2, <4>3, Zenon
    <3> QED
      BY <3>1, <3>2
  <2> QED
    BY <2>2, <2>3, <2>6, Zenon
<1> QED
  BY <1>1, TxInvHolds, PTL

\* The raw pointer of a stream's cursor (TxCursorLease) has a staged copy to
\* point into for as long as rows are pulled.
THEOREM CursorOnItsGraphHolds ==
  ASSUME "rollback_streaming" \notin Ops
  PROVE  Spec => []CursorOnItsGraph
<1>1. TxInv => CursorOnItsGraph
  BY Facts DEF CursorOnItsGraph, Pulling, Sound, Good, Cursors, Running
<1> QED
  BY <1>1, TxInvHolds, PTL

\* However a transaction ends, discard_transaction_state or take_commit_state
\* has run and the writer mutex is free by the time its last stream is gone.
THEOREM NothingKeptHolds ==
  ASSUME "rollback_streaming" \notin Ops
  PROVE  Spec => []NothingKept
<1>1. TxInv => NothingKept
  <2> SUFFICES ASSUME TxInv, NEW t \in Txs, tx[t].at = "gone"
               PROVE  /\ writer # t
                      /\ ~Pulling(t) => ~tx[t].staged.some /\ tx[t].buffer = <<>>
    BY DEF NothingKept
  <2>1. Good(tx[t], stream[t], writer = t, live)
    BY Facts
  <2>2. writer # t
    BY <2>1 DEF Good, Lifecycle
  <2>3. ~Pulling(t) => ~tx[t].cursor_active
    BY <2>1 DEF Good, Lifecycle, Cursors, Running, Pulling
  <2> QED
    BY <2>1, <2>2, <2>3 DEF Good, Leftovers
<1> QED
  BY <1>1, TxInvHolds, PTL

\* The transaction a step commits, its statements and what they were begun on.
Committing(t, es) ==
  /\ Open(t) /\ tx[t].mode = "rw" /\ ~poisoned
  /\ tx[t].auto => stream'[t].at = "exhausted"
  /\ ~Pulling(t) \/ tx[t].auto
  /\ log' = log \o es /\ live' = live \o es

LEMMA CommitWhole ==
  ASSUME TxInv, NEW t \in Txs, commit(t), <<live, log>>' # <<live, log>>
  PROVE  ~tx[t].auto /\ Committing(t, tx[t].done)
<1>1. /\ tx[t] \in TxRecord /\ stream[t] \in StreamRecord
      /\ Good(tx[t], stream[t], writer = t, live)
  BY Facts
<1>2. /\ Open(t) /\ ~tx[t].auto /\ ~tx[t].cursor_active /\ tx[t].mode = "rw"
      /\ Publish(t, tx[t].staged, tx[t].buffer)
  BY DEF commit, DropHandle, MayCommit
<1>3. /\ ~poisoned /\ log' = log \o tx[t].buffer
      /\ live' = IF tx[t].staged.some THEN tx[t].staged.graph ELSE live
  BY <1>2 DEF Publish
<1>4. ~Pulling(t) /\ tx[t].snapshot = live
  BY <1>1, <1>2 DEF Good, Lifecycle, Cursors, Running, Pulling, Open
<1>5. /\ tx[t].buffer = tx[t].done \o <<>>
      /\ IF tx[t].staged.some THEN tx[t].staged.graph = live \o (tx[t].done \o <<>>)
         ELSE tx[t].done = <<>>
  BY <1>1, <1>2, <1>4 DEF Good, Contents, Open
<1>6. tx[t].done \o <<>> = tx[t].done /\ live \o <<>> = live
  BY <1>1, Facts, Concat DEF TxRecord
<1>7. tx[t].buffer = tx[t].done /\ live' = live \o tx[t].done
  BY <1>3, <1>5, <1>6, Zenon
<1> QED
  BY <1>2, <1>3, <1>4, <1>7, Zenon DEF Committing

LEMMA CommitDrainedWhole ==
  ASSUME TxInv, NEW t \in Txs, commit_drained(t), <<live, log>>' # <<live, log>>
  PROVE  tx[t].auto /\ Committing(t, stream[t].applied)
<1>1. /\ tx[t].auto /\ tx[t].at = "open" /\ tx[t].mode = "rw" /\ tx[t].staged.some
      /\ tx[t].buffer = stream[t].applied
      /\ tx[t].staged.graph = live \o stream[t].applied
  BY Drained DEF commit_drained
<1>2. Publish(t, tx[t].staged, tx[t].buffer)
  <2>1. tx[t] \in TxRecord
    BY Facts
  <2> DEFINE T == [tx[t] EXCEPT !.cursor_active = FALSE]
  <2>2. T.staged = tx[t].staged /\ T.buffer = tx[t].buffer
    BY <2>1 DEF TxRecord
  <2>3. Publish(t, T.staged, T.buffer)
    BY DEF commit_drained, GuardCommit
  <2> HIDE DEF T
  <2> QED
    BY <2>2, <2>3, Zenon
<1>3. /\ ~poisoned /\ ~poisoned' /\ log' = log \o tx[t].buffer /\ live' = tx[t].staged.graph
  BY <1>1, <1>2 DEF Publish
<1>4. stream'[t].at = "exhausted"
  BY <1>3, Facts DEF commit_drained, GuardCommit, StreamRecord
<1> QED
  BY <1>1, <1>3, <1>4, Zenon DEF Committing, Open

\* replay_commit_wal and publish_staged_graph put the same whole transaction at
\* the end of the log and of the live graph.
THEOREM CommitsWholeHolds ==
  ASSUME "rollback_streaming" \notin Ops
  PROVE  Spec => CommitsWhole
<1>1. ASSUME TxInv, [Next]_vars, <<live, log>>' # <<live, log>>
      PROVE  \E t \in Txs :
               LET es == IF tx[t].auto THEN stream[t].applied ELSE tx[t].done IN
               /\ Open(t) /\ tx[t].mode = "rw" /\ ~poisoned
               /\ tx[t].auto => stream'[t].at = "exhausted"
               /\ ~Pulling(t) \/ tx[t].auto
               /\ log' = log \o es /\ live' = live \o es
  <2>1. PICK t \in Txs : Step(t)
    BY <1>1 DEF Next, vars
  <2>2. commit(t) \/ commit_drained(t)
    BY <1>1, <2>1
    DEF Step, begin_transaction, stream_with_params, execute, stream_compiled, rollback,
        drop_transaction, DropHandle, next_row, Finish, pull_end, Fail, GuardRollback,
        drop_stream, drop_held
  <2>3. CASE commit(t)
    <3>1. ~tx[t].auto /\ Committing(t, tx[t].done)
      BY <1>1, <2>3, CommitWhole
    <3> QED
      BY <3>1 DEF Committing
  <2>4. CASE commit_drained(t)
    <3>1. tx[t].auto /\ Committing(t, stream[t].applied)
      BY <1>1, <2>4, CommitDrainedWhole
    <3> QED
      BY <3>1 DEF Committing
  <2> QED
    BY <2>2, <2>3, <2>4
<1>2. TxInv /\ [Next]_vars =>
        [<<live, log>>' # <<live, log>> =>
           \E t \in Txs :
             LET es == IF tx[t].auto THEN stream[t].applied ELSE tx[t].done IN
             /\ Open(t) /\ tx[t].mode = "rw" /\ ~poisoned
             /\ tx[t].auto => stream'[t].at = "exhausted"
             /\ ~Pulling(t) \/ tx[t].auto
             /\ log' = log \o es /\ live' = live \o es]_vars
  BY <1>1
<1> QED
  BY <1>2, TxInvHolds, PTL DEF Spec, CommitsWhole

=============================================================================
