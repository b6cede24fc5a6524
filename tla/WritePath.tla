----------------------------- MODULE WritePath -----------------------------
(***************************************************************************)
(* How writes and reads of a WAL-backed database meet: the writer mutex,   *)
(* the live graph behind its read-write lock and epoch (LiveStore), the    *)
(* recorder that buffers a write's events for one WAL transaction          *)
(* (WalRecorder, WalWriteScope), and the three ways to write:              *)
(*                                                                         *)
(*   staged  with_logged_write_guard: over a copy, published after the     *)
(*           commit; queries that may fail midway, admin calls, schema     *)
(*           commands                                                      *)
(*   live    run_live_fast_with_durable_recorder: in place, readers locked *)
(*           out; plans that occ.rs takes to be unable to fail midway      *)
(*   tx      Transaction: over a copy with a buffer of its own, or the     *)
(*           hidden transaction of a mutating stream                       *)
(*                                                                         *)
(* A write is two mutations; a graph is the sequence of writes applied to  *)
(* it, with the ones of which only the first mutation is there.  WalLog    *)
(* models what becomes of a commit; here it is appended to `log` or fails. *)
(***************************************************************************)
EXTENDS Integers, Sequences, FiniteSets

CONSTANTS
  Writers, Readers,
  MaxWrites,   \* writes begun
  MaxReads,    \* reads begun
  Ops          \* what may happen: subset of AllOps

AllOps == {"commit_fails", "bg_fails", "flush_fails", "schema", "panic", "panic_live"}

ASSUME WritePathAssumption ==
  /\ MaxWrites \in Nat /\ MaxReads \in Nat /\ Ops \subseteq AllOps

Nobody == "nobody"
ASSUME NobodyAssumption == Nobody \notin Writers

Ids == 1 .. MaxWrites

VARIABLES
  \* LiveStore: the graph, its write counter, the holder of its write lock
  live, epoch, handle,
  writer,                 \* holder of the writer mutex
  recorder,               \* RecorderState
  log, bg_failure,        \* ids committed to the WAL; its latched failure
  wr,                     \* what each writer is at
  rd, reads,              \* what each reader is at
  ids, schema,            \* writes begun; the ids of schema commands
  unwound                 \* history: a write in place has panicked

store == <<live, epoch, handle>>
wal   == <<log, bg_failure>>
vars  == <<store, writer, recorder, wal, wr, rd, reads, ids, schema, unwound>>

Graph == [ids : Seq(Ids), half : SUBSET Ids]
Empty == [ids |-> <<>>, half |-> {}]

\* The graph g after n mutations of write i.
Applied(g, i, n) ==
  [ids  |-> IF n = 0 THEN g.ids ELSE Append(g.ids, i),
   half |-> IF n = 1 THEN g.half \cup {i} ELSE g.half]

Has(g, S) == \E k \in DOMAIN g.ids : g.ids[k] \in S

Resting == [at |-> "idle", path |-> "staged", id |-> 0, clash |-> FALSE,
            staged |-> Empty, n |-> 0]

Init ==
  /\ live = Empty /\ epoch = 1 /\ handle = Nobody /\ writer = Nobody
  /\ recorder = [armed |-> FALSE, buffer |-> 0, poisoned |-> "no"]
  /\ log = <<>> /\ bg_failure = FALSE
  /\ wr = [t \in Writers |-> Resting]
  /\ rd = [r \in Readers |-> [at |-> "idle", seen |-> Empty, epoch |-> 0, late |-> FALSE]]
  /\ reads = 0 /\ ids = 0 /\ schema = {} /\ unwound = FALSE

May(op) == op \in Ops
At(t, where) == wr[t].at = where
Goes(t, where) == wr' = [wr EXCEPT ![t].at = where]
On(t, path) == wr[t].path = path

-----------------------------------------------------------------------------
(* WalRecorder.                                                            *)

\* poisoned_reason: its own failure, or one the WAL latched.
Poisoned == recorder.poisoned # "no" \/ bg_failure

\* poison keeps the first reason; nothing buffered survives it.
PoisonedFor(reason) ==
  [armed |-> FALSE, buffer |-> 0,
   poisoned |-> IF recorder.poisoned = "no" THEN reason ELSE recorder.poisoned]

Misused == [recorder EXCEPT !.poisoned = "misuse"]

\* record, n times: buffered if armed.
Recorded(n) ==
  IF recorder.poisoned # "no" \/ n = 0 THEN recorder
  ELSE IF ~recorder.armed THEN Misused
       ELSE [recorder EXCEPT !.buffer = @ + n]

Disarmed == [recorder EXCEPT !.armed = FALSE, !.buffer = 0]

\* Variant: an abort leaves the recorder armed.
abortArmed == IF recorder.poisoned = "no" THEN [recorder EXCEPT !.buffer = 0] ELSE recorder

\* abort: no record of an aborted write ever reaches the WAL.
abort == IF recorder.poisoned = "no" THEN Disarmed ELSE recorder

\* Variant: a failed write in place is forgotten like a staged one.
abort_armedOnly(path) == abort

\* abort_armed under the path's WalAbortPolicy: mutations the live graph has
\* and the WAL has not quarantine the database.
abort_armed(path) ==
  IF path = "live" /\ recorder.poisoned = "no" /\ recorder.buffer > 0
  THEN PoisonedFor("query") ELSE abort

-----------------------------------------------------------------------------
(* A write begins: the query is compiled, and its path chosen, from the    *)
(* live graph before the writer mutex is taken.  A write that clashes with *)
(* a constraint fails in its second mutation once that constraint is in    *)
(* the graph it writes to.                                                 *)

constraints_may_reject(clash) == clash /\ Has(live, schema)

Begin(t, path, clash, cmd) ==
  /\ At(t, "idle") /\ ids < MaxWrites /\ ids' = ids + 1
  /\ schema' = IF cmd THEN schema \cup {ids + 1} ELSE schema
  /\ wr' = [wr EXCEPT ![t] =
       [Resting EXCEPT !.at = "wait", !.path = path, !.id = ids + 1, !.clash = clash]]
  /\ UNCHANGED <<store, writer, recorder, wal, rd, reads, unwound>>

execute(t) ==
  /\ handle = Nobody
  /\ \E clash \in BOOLEAN :
       \/ Begin(t, "staged", clash, FALSE)
       \/ ~constraints_may_reject(clash) /\ Begin(t, "live", clash, FALSE)

execute_schema_command(t) == May("schema") /\ Begin(t, "staged", FALSE, TRUE)

begin_transaction(t) == \E clash \in BOOLEAN : Begin(t, "tx", clash, FALSE)

\* Variant: the mutex is not held to the end of a commit.
LockEarly(t) ==
  /\ At(t, "wait") /\ handle = Nobody
  /\ writer \in {Nobody} \cup {w \in Writers : At(w, "check") \/ At(w, "publish")}
  /\ writer' = t
  /\ wr' = [wr EXCEPT ![t].at = IF On(t, "tx") THEN "body" ELSE "arm",
                      ![t].staged = IF On(t, "live") THEN Empty ELSE live]
  /\ UNCHANGED <<store, recorder, wal, rd, reads, ids, schema, unwound>>

\* write_store, and begin_transaction: the copy is taken under the mutex.
Lock(t) ==
  /\ At(t, "wait") /\ writer = Nobody /\ handle = Nobody
  /\ writer' = t
  /\ wr' = [wr EXCEPT ![t].at = IF On(t, "tx") THEN "body" ELSE "arm",
                      ![t].staged = IF On(t, "live") THEN Empty ELSE live]
  /\ UNCHANGED <<store, recorder, wal, rd, reads, ids, schema, unwound>>

\* A write with a deadline gives up waiting; none of those goes in place, and
\* schema commands ignore theirs.
WriterLockTimeout(t) ==
  /\ At(t, "wait") /\ ~On(t, "live") /\ wr[t].id \notin schema /\ writer # Nobody
  /\ Goes(t, "idle")
  /\ UNCHANGED <<store, writer, recorder, wal, rd, reads, ids, schema, unwound>>

\* ensure_wal_query_can_start (in place only) and WalWriteScope::arm.
arm(t) ==
  /\ At(t, "arm")
  /\ IF (On(t, "live") /\ Poisoned) \/ recorder.poisoned # "no"
     THEN UNCHANGED recorder /\ Goes(t, "release")
     ELSE IF recorder.armed
          THEN recorder' = Misused /\ Goes(t, "release")
          ELSE /\ recorder' = [recorder EXCEPT !.armed = TRUE, !.buffer = 0]
               /\ Goes(t, "body")
  /\ UNCHANGED <<store, writer, wal, rd, reads, ids, schema, unwound>>

-----------------------------------------------------------------------------
(* The mutating closure: how far it gets and how it ends.                  *)

Target(t) == IF On(t, "live") THEN live ELSE wr[t].staged
Clashes(t) == wr[t].clash /\ Has(Target(t), schema)

\* A plan chosen for the live path only fails on a constraint; any other may
\* fail at any point (a deadline, an expression, a failing row).
Ends(t) ==
  (IF Clashes(t) THEN {[n |-> 1, ok |-> "err"]}
   ELSE {[n |-> 0, ok |-> "ok"], [n |-> 2, ok |-> "ok"]})
  \cup (IF On(t, "live") THEN {} ELSE {[n |-> n, ok |-> "err"] : n \in 0 .. 1})
  \cup (IF May(IF On(t, "live") THEN "panic_live" ELSE "panic") /\ ~On(t, "tx")
        THEN {[n |-> 1, ok |-> "panic"]} ELSE {})

staged_write(t) ==
  /\ At(t, "body") /\ On(t, "staged")
  /\ \E e \in Ends(t) :
       /\ recorder' = Recorded(e.n)
       /\ wr' = [wr EXCEPT ![t].staged = Applied(@, wr[t].id, e.n), ![t].n = e.n,
                           ![t].at = IF e.ok = "ok" THEN "commit" ELSE "abort"]
  /\ UNCHANGED <<store, writer, wal, rd, reads, ids, schema, unwound>>

\* In place: with the store's write lock.
live_write(t) ==
  /\ At(t, "body") /\ On(t, "live")
  /\ handle' = t /\ UNCHANGED epoch
  /\ \E e \in Ends(t) :
       /\ recorder' = Recorded(e.n)
       /\ live' = Applied(live, wr[t].id, e.n)
       /\ wr' = [wr EXCEPT ![t].n = e.n,
                           ![t].at = CASE e.ok = "ok"    -> "commit"
                                       [] e.ok = "err"   -> "abort"
                                       [] e.ok = "panic" -> "unwind"]
  /\ UNCHANGED <<writer, wal, rd, reads, ids, schema, unwound>>

\* The statements of a transaction as one: a failed one leaves no trace (see
\* TxStatement).  rollback, or a drop, ends it.
tx_write(t) ==
  /\ At(t, "body") /\ On(t, "tx")
  /\ \E e \in Ends(t) :
       wr' = IF e.ok = "ok"
             THEN [wr EXCEPT ![t].staged = Applied(@, wr[t].id, e.n), ![t].n = e.n,
                             ![t].at = "commit"]
             ELSE [wr EXCEPT ![t].at = "release"]
  /\ UNCHANGED <<store, writer, recorder, wal, rd, reads, ids, schema, unwound>>

-----------------------------------------------------------------------------
(* Commit.                                                                 *)

\* Wal::commit_tx fails once the WAL has latched a failure, and may fail by
\* itself; any error poisons the recorder.
CommitTx(t, quiet, done, failed) ==
  \/ /\ ~bg_failure
     /\ log' = Append(log, wr[t].id) /\ recorder' = quiet /\ Goes(t, done)
  \/ /\ bg_failure \/ May("commit_fails")
     /\ recorder' = [quiet EXCEPT !.poisoned = "commit"] /\ Goes(t, failed)
     /\ UNCHANGED log

\* commit / commit_capture of an armed write.
commit(t) ==
  /\ At(t, "commit") /\ ~On(t, "tx")
  /\ LET done   == IF On(t, "live") THEN "drop" ELSE "check"
         failed == IF On(t, "live") THEN "drop" ELSE "release" IN
     IF recorder.poisoned # "no"
     THEN UNCHANGED <<recorder, log>> /\ Goes(t, failed)
     ELSE IF ~recorder.armed
     THEN recorder' = Misused /\ Goes(t, failed) /\ UNCHANGED log
     ELSE IF recorder.buffer = 0
     THEN recorder' = Disarmed /\ Goes(t, done) /\ UNCHANGED log
     ELSE CommitTx(t, Disarmed, done, failed)
  /\ UNCHANGED <<store, writer, bg_failure, rd, reads, ids, schema, unwound>>

\* commit_events of a transaction, from its own buffer.  One that changed
\* nothing logs nothing, and publishes its copy if a statement made one.
commit_events(t) ==
  /\ At(t, "commit") /\ On(t, "tx")
  /\ IF Poisoned
     THEN UNCHANGED <<recorder, log>> /\ Goes(t, "release")
     ELSE IF wr[t].n = 0
     THEN \E next \in {"publish", "release"} : UNCHANGED <<recorder, log>> /\ Goes(t, next)
     ELSE CommitTx(t, recorder, "publish", "release")
  /\ UNCHANGED <<store, writer, bg_failure, rd, reads, ids, schema, unwound>>

\* The end of WalWriteScope::finish: a failure latched since fails the write.
finish(t) ==
  /\ At(t, "check")
  /\ Goes(t, IF Poisoned THEN "release" ELSE "publish")
  /\ UNCHANGED <<store, writer, recorder, wal, rd, reads, ids, schema, unwound>>

\* Variant: the swap does not count as a write.
publishUncounted(t) ==
  /\ At(t, "publish")
  /\ live' = wr[t].staged /\ UNCHANGED epoch /\ Goes(t, "release")
  /\ UNCHANGED <<handle, writer, recorder, wal, rd, reads, ids, schema, unwound>>

\* publish_in_place / publish_staged_graph: LiveStore::store.
publish(t) ==
  /\ At(t, "publish")
  /\ live' = wr[t].staged /\ epoch' = epoch + 1 /\ Goes(t, "release")
  /\ UNCHANGED <<handle, writer, recorder, wal, rd, reads, ids, schema, unwound>>

\* A failed closure, or a staged one that panicked.
abort_write(t) ==
  /\ At(t, "abort")
  /\ recorder' = abort_armed(wr[t].path)
  /\ Goes(t, IF On(t, "live") THEN "drop" ELSE "release")
  /\ UNCHANGED <<store, writer, wal, rd, reads, ids, schema, unwound>>

\* WriteHandle::drop counts the write before the lock goes.
DropHandle(t, next) ==
  /\ handle' = Nobody /\ epoch' = epoch + 1 /\ Goes(t, next)
  /\ UNCHANGED <<live, writer, recorder, wal, rd, reads, ids, schema>>

drop_handle(t) == At(t, "drop") /\ DropHandle(t, "release") /\ UNCHANGED unwound

\* A panic in place drops the handle first, then the scope.
unwind_handle(t) == At(t, "unwind") /\ DropHandle(t, "abort_unwound") /\ unwound' = TRUE

unwind_scope(t) ==
  /\ At(t, "abort_unwound")
  /\ recorder' = abort_armed("live") /\ Goes(t, "release")
  /\ UNCHANGED <<store, writer, wal, rd, reads, ids, schema, unwound>>

\* Variant: the mutex goes before the store's lock.
ReleaseEarly(t) ==
  /\ At(t, "drop") \/ At(t, "release")
  /\ writer' = IF writer = t THEN Nobody ELSE writer
  /\ wr' = [wr EXCEPT ![t] = Resting]
  /\ UNCHANGED <<store, recorder, wal, rd, reads, ids, schema, unwound>>

Release(t) ==
  /\ At(t, "release")
  /\ writer' = IF writer = t THEN Nobody ELSE writer
  /\ wr' = [wr EXCEPT ![t] = Resting]
  /\ UNCHANGED <<store, recorder, wal, rd, reads, ids, schema, unwound>>

-----------------------------------------------------------------------------
(* Reads.  execute loads the graph, looks at the poison latch and computes *)
(* its rows; every other read computes them from the graph it loads and    *)
(* never looks.                                                            *)

\* LiveStore::load_full_with_epoch; late is history: the latch was set before
\* this load, by a read that does not look at it.
Load(r, where, late) ==
  /\ handle = Nobody
  /\ rd' = [rd EXCEPT ![r] = [at |-> where, seen |-> live, epoch |-> epoch, late |-> late]]
  /\ UNCHANGED <<store, writer, recorder, wal, wr, ids, schema, unwound>>

\* The load the query is compiled on.
load_full_with_epoch(r) ==
  /\ rd[r].at = "idle" /\ reads < MaxReads /\ reads' = reads + 1
  /\ Load(r, "loaded", FALSE)

\* Procedures, SHOW, read-only transactions, with_store and the counts.
read_store(r) ==
  /\ rd[r].at = "idle" /\ reads < MaxReads /\ reads' = reads + 1
  /\ Load(r, "rows", Poisoned)

\* A read-only stream, and PROFILE: compiled on one graph, run on a second load.
open_cursor(r) == rd[r].at = "loaded" /\ UNCHANGED reads /\ Load(r, "rows", Poisoned)

\* Variant: the rows are computed whatever the latch says.
ensure_wal_query_can_startNot(r) ==
  /\ rd[r].at = "loaded"
  /\ rd' = [rd EXCEPT ![r].at = "rows"]
  /\ UNCHANGED <<store, writer, recorder, wal, wr, reads, ids, schema, unwound>>

\* What execute does before it runs a read-only plan.
ensure_wal_query_can_start(r) ==
  /\ rd[r].at = "loaded"
  /\ rd' = [rd EXCEPT ![r].at = IF Poisoned THEN "idle" ELSE "rows"]
  /\ UNCHANGED <<store, writer, recorder, wal, wr, reads, ids, schema, unwound>>

Rows(r) ==
  /\ rd[r].at = "rows" /\ rd' = [rd EXCEPT ![r].at = "idle"]
  /\ UNCHANGED <<store, writer, recorder, wal, wr, reads, ids, schema, unwound>>

-----------------------------------------------------------------------------
(* Failures beside the write: the flusher latches one, or an admin call    *)
(* (flush, force_fsync, a checkpoint's marker) poisons the recorder, which *)
(* stays armed if it was.                                                  *)

BgFails ==
  /\ May("bg_fails") /\ ~bg_failure /\ bg_failure' = TRUE
  /\ UNCHANGED <<store, writer, recorder, log, wr, rd, reads, ids, schema, unwound>>

FlushFails ==
  /\ May("flush_fails") /\ recorder.poisoned = "no"
  /\ recorder' = [recorder EXCEPT !.poisoned = "flush"]
  /\ UNCHANGED <<store, writer, wal, wr, rd, reads, ids, schema, unwound>>

-----------------------------------------------------------------------------
Write(t) ==
  \/ execute(t) \/ execute_schema_command(t) \/ begin_transaction(t)
  \/ Lock(t) \/ WriterLockTimeout(t) \/ arm(t)
  \/ staged_write(t) \/ live_write(t) \/ tx_write(t)
  \/ commit(t) \/ commit_events(t) \/ finish(t) \/ publish(t)
  \/ abort_write(t) \/ drop_handle(t) \/ unwind_handle(t) \/ unwind_scope(t)
  \/ Release(t)

Read(r) ==
  \/ load_full_with_epoch(r) \/ read_store(r) \/ open_cursor(r)
  \/ ensure_wal_query_can_start(r) \/ Rows(r)

Next ==
  \/ \E t \in Writers : Write(t)
  \/ \E r \in Readers : Read(r)
  \/ BgFails \/ FlushFails

Spec == Init /\ [][Next]_vars
=============================================================================
