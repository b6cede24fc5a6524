-------------------------- MODULE WritePathProofs --------------------------
(***************************************************************************)
(* Proofs about WritePath, for any writers and readers and any number of   *)
(* writes and reads: WriteInv is inductive, and the properties of          *)
(* WritePathInv that its run checks follow from it.                        *)
(***************************************************************************)
EXTENDS WritePathInv, TLAPS

Ats == {"idle", "wait", "arm", "body", "commit", "check", "publish", "abort",
        "drop", "unwind", "abort_unwound", "release"}

-----------------------------------------------------------------------------
(* Types of what the actions assign.                                       *)

\* A graph with a write applied to it, wholly or by half, is a graph.
LEMMA AppliedType ==
  ASSUME NEW g \in Graph, NEW i \in Ids, NEW n \in 0 .. 2
  PROVE  Applied(g, i, n) \in Graph
  BY DEF Applied, Graph

\* So is the one without writes.
LEMMA EmptyType == Empty \in Graph
  BY DEF Empty, Graph

\* A resting writer.
LEMMA RestingType == Resting \in WriterState
  <1>1. FALSE \in BOOLEAN /\ 0 \in 0 .. 2 /\ 0 \in Ids \cup {0}
    OBVIOUS
  <1> QED BY <1>1, EmptyType, Zenon DEF Resting, WriterState

\* A writer that goes somewhere, and nothing else.
LEMMA MovedType ==
  ASSUME wr \in [Writers -> WriterState], NEW t \in Writers, NEW at \in Ats,
         Goes(t, at)
  PROVE  /\ wr' \in [Writers -> WriterState]
         /\ wr' = [wr EXCEPT ![t] = [wr[t] EXCEPT !.at = at]]
  <1>1. [wr[t] EXCEPT !.at = at] \in WriterState
    BY DEF WriterState, Ats
  <1> QED BY <1>1 DEF Goes

\* A writer that takes its copy.
LEMMA CopiedType ==
  ASSUME wr \in [Writers -> WriterState], NEW t \in Writers, NEW at \in Ats, NEW g \in Graph,
         wr' = [wr EXCEPT ![t].at = at, ![t].staged = g]
  PROVE  /\ wr' \in [Writers -> WriterState]
         /\ wr'[t].at = at /\ wr'[t].staged = g
         /\ wr'[t].path = wr[t].path /\ wr'[t].id = wr[t].id
         /\ \A u \in Writers \ {t} : wr'[u] = wr[u]
  <1>1. wr[t] \in WriterState
    OBVIOUS
  <1>2. [wr[t] EXCEPT !.at = at, !.staged = g] \in WriterState
    BY <1>1 DEF WriterState, Ats
  <1>3. wr' \in [Writers -> WriterState]
    BY <1>2
  <1> QED BY <1>1, <1>3 DEF WriterState

\* The states of the recorder its operations lead to.
LEMMA RecorderTypes ==
  ASSUME recorder \in RecorderState
  PROVE  /\ Misused \in RecorderState /\ Disarmed \in RecorderState
         /\ [recorder EXCEPT !.armed = TRUE, !.buffer = 0] \in RecorderState
         /\ abort \in RecorderState
         /\ [Disarmed EXCEPT !.poisoned = "commit"] \in RecorderState
         /\ [recorder EXCEPT !.poisoned = "commit"] \in RecorderState
         /\ [recorder EXCEPT !.poisoned = "flush"] \in RecorderState
         /\ PoisonedFor("query") \in RecorderState
         /\ \A n \in 0 .. 2 : recorder.buffer = 0 => Recorded(n) \in RecorderState
  <1>1. Misused \in RecorderState
    BY DEF RecorderState, Misused
  <1>2. 0 \in 0 .. 2 /\ TRUE \in BOOLEAN /\ FALSE \in BOOLEAN
    OBVIOUS
  <1>3. ASSUME NEW b \in BOOLEAN, NEW k \in 0 .. 2
        PROVE  [recorder EXCEPT !.armed = b, !.buffer = k] \in RecorderState
    BY DEF RecorderState
  <1>4. Disarmed \in RecorderState
    BY <1>2, <1>3, Zenon DEF Disarmed
  <1>5. [recorder EXCEPT !.armed = TRUE, !.buffer = 0] \in RecorderState
    BY <1>2, <1>3, Zenon
  <1>6. abort \in RecorderState
    BY <1>4 DEF abort
  <1>7. \A s \in RecorderState : [s EXCEPT !.poisoned = "commit"] \in RecorderState
    BY DEF RecorderState
  <1>8. [recorder EXCEPT !.poisoned = "flush"] \in RecorderState
    BY DEF RecorderState
  <1>9. PoisonedFor("query") \in RecorderState
    BY DEF RecorderState, PoisonedFor
  <1>10. ASSUME NEW n \in 0 .. 2, recorder.buffer = 0 PROVE Recorded(n) \in RecorderState
    <2>1. [recorder EXCEPT !.buffer = n] \in RecorderState
      BY DEF RecorderState
    <2>2. [recorder EXCEPT !.buffer = @ + n] = [recorder EXCEPT !.buffer = n]
      BY <1>10 DEF RecorderState
    <2> QED BY <1>1, <2>1, <2>2 DEF Recorded
  <1> QED BY <1>1, <1>4, <1>5, <1>6, <1>7, <1>8, <1>9, <1>10

-----------------------------------------------------------------------------
(* What the parts of the invariant need of graphs and recorder.            *)

\* A write that did nothing leaves the graph as it was; a whole one adds
\* itself at the end.
LEMMA AppliedGraphs ==
  ASSUME NEW g \in Graph, NEW i
  PROVE  /\ Applied(g, i, 0) = g
         /\ \A s : Whole(g, s) => Whole(Applied(g, i, 2), Append(s, i))
  BY DEF Applied, Graph, Whole

\* A graph that was the log before one more commit is behind by one.
LEMMA BehindByOne ==
  ASSUME log \in Seq(Ids), NEW i \in Ids, log' = Append(log, i),
         Whole(live, log), live' = live
  PROVE  Ahead'
  <1>1. log' # <<>> /\ SubSeq(log', 1, Len(log') - 1) = log
    OBVIOUS
  <1> QED BY <1>1 DEF Ahead, Whole

\* The latches only ever go one way.
LEMMA RecorderFields ==
  ASSUME recorder \in RecorderState
  PROVE  /\ Misused.poisoned = "misuse"
         /\ Disarmed.armed = FALSE /\ Disarmed.poisoned = recorder.poisoned
         /\ [Disarmed EXCEPT !.poisoned = "commit"].poisoned = "commit"
         /\ [recorder EXCEPT !.poisoned = "commit"].poisoned = "commit"
         /\ PoisonedFor("query").poisoned \notin {"no", "misuse"}
            \/ PoisonedFor("query").poisoned = recorder.poisoned
         /\ PoisonedFor("query").poisoned # "no"
         /\ LET arms == [recorder EXCEPT !.armed = TRUE, !.buffer = 0] IN
              arms.armed /\ arms.buffer = 0 /\ arms.poisoned = recorder.poisoned
  BY DEF RecorderState, Misused, Disarmed, PoisonedFor

\* What readers loaded stays what it is when the log grows.
LEMMA LoadsKept ==
  ASSUME WriteInv, rd' = rd, unwound' = unwound, Poisoned => Poisoned',
         log' = log \/ \E i \in Ids : log' = Append(log, i)
  PROVE  Loads'
  <1>1. ASSUME NEW g, CommittedPrefix(g) PROVE CommittedPrefix(g)'
    <2>1. CASE log' = log
      BY <1>1, <2>1 DEF CommittedPrefix
    <2>2. ASSUME NEW i \in Ids, log' = Append(log, i) PROVE CommittedPrefix(g)'
      <3>1. PICK n \in 0 .. Len(log) : g.ids = SubSeq(log, 1, n)
        BY <1>1 DEF CommittedPrefix
      <3>2. n \in 0 .. Len(log') /\ SubSeq(log', 1, n) = SubSeq(log, 1, n)
        BY <2>2 DEF WriteInv, TypeOK
      <3> QED BY <1>1, <3>1, <3>2 DEF CommittedPrefix
    <2> QED BY <2>1, <2>2
  <1> QED BY <1>1 DEF WriteInv, Loads

-----------------------------------------------------------------------------
(* One lemma for each action.                                              *)

\* A write begins: it holds nothing yet.
LEMMA BeginInv ==
  ASSUME WriteInv, NEW t \in Writers, NEW path \in {"staged", "live", "tx"},
         NEW clash \in BOOLEAN, NEW cmd \in BOOLEAN, Begin(t, path, clash, cmd)
  PROVE  WriteInv'
  <1> USE NobodyAssumption DEF WriteInv, At, On, store, wal
  <1> DEFINE s == [Resting EXCEPT !.at = "wait", !.path = path, !.id = ids + 1,
                                  !.clash = clash]
  <1>1. wr[t].at = "idle" /\ writer # t
    BY DEF Begin, Locks
  <1>2. ids + 1 \in Ids /\ ids' \in 0 .. MaxWrites /\ schema' \subseteq Ids
    BY WritePathAssumption DEF TypeOK, Begin, Ids
  <1>3. s \in WriterState /\ s.at = "wait" /\ s.id = ids + 1
    BY <1>2, RestingType DEF WriterState
  <1>4. wr' = [wr EXCEPT ![t] = s]
    BY DEF Begin
  <1>5. wr' \in [Writers -> WriterState]
    BY <1>3, <1>4 DEF TypeOK
  <1>6. TypeOK'
    BY <1>1, <1>2, <1>3, <1>4, <1>5 DEF TypeOK, Begin
  <1>7. Locks'
    BY <1>1, <1>2, <1>3, <1>4, <1>5 DEF Locks, TypeOK, WriterState, Begin
  <1>8. Places'
    BY <1>1, <1>2, <1>3, <1>4, <1>5 DEF Places, TypeOK, WriterState, Begin
  <1>9. Scopes'
    BY <1>1, <1>2, <1>3, <1>4, <1>5
       DEF Scopes, Scope, TypeOK, WriterState, Locks, Places, RecorderState, Begin
  <1>10. NeverMisused'
    BY <1>1, <1>2, <1>3, <1>4, <1>5 DEF NeverMisused, Begin
  <1>11. Follows'
    BY <1>1, <1>2, <1>3, <1>4, <1>5
       DEF Follows, Clean, Poisoned, Progress, Ahead, Whole, TypeOK, WriterState, Locks,
           Places, Begin
  <1>12. Loads'
    BY LoadsKept DEF Poisoned, Begin
  <1>13. Epochs'
    BY <1>1, <1>2, <1>3, <1>4, <1>5 DEF Epochs, TypeOK, ReaderState, Begin
  <1> QED BY <1>6, <1>7, <1>8, <1>9, <1>10, <1>11, <1>12, <1>13

\* The mutex is taken, and with it the copy the write works on.
LEMMA LockInv ==
  ASSUME WriteInv, NEW t \in Writers, Lock(t)
  PROVE  WriteInv'
  <1> USE NobodyAssumption DEF WriteInv, At, On, store, wal
  <1> DEFINE at == IF On(t, "tx") THEN "body" ELSE "arm"
             g == IF On(t, "live") THEN Empty ELSE live
  <1>1. wr[t].at = "wait" /\ writer = Nobody /\ handle = Nobody /\ writer' = t
    BY DEF Lock
  <1>2. g \in Graph /\ at \in Ats /\ wr \in [Writers -> WriterState] /\ wr[t].n \in 0 .. 2
    BY EmptyType DEF TypeOK, Ats, WriterState
  <1>3. wr' = [wr EXCEPT ![t].at = at, ![t].staged = g]
    BY DEF Lock
  <1>4. at \in {"arm", "body"} /\ (at = "arm" <=> wr[t].path # "tx")
        /\ (wr[t].path # "live" => g = live)
    OBVIOUS
  <1> HIDE DEF at, g
  <1>5. /\ wr' \in [Writers -> WriterState]
        /\ wr'[t].at = at /\ wr'[t].staged = g
        /\ wr'[t].path = wr[t].path /\ wr'[t].id = wr[t].id
        /\ \A u \in Writers \ {t} : wr'[u] = wr[u]
    BY ONLY t \in Writers, <1>2, <1>3, CopiedType
  <1>6. TypeOK'
    BY <1>1, <1>3, <1>4, <1>5 DEF TypeOK, Lock
  <1>7. Locks'
    BY <1>1, <1>3, <1>4, <1>5 DEF Locks, TypeOK, WriterState, Lock
  <1>8. Places'
    BY <1>1, <1>3, <1>4, <1>5 DEF Places, TypeOK, WriterState, Lock
  <1>9. Scopes'
    BY <1>1, <1>3, <1>4, <1>5
       DEF Scopes, Scope, TypeOK, WriterState, Locks, Places, RecorderState, Lock
  <1>10. NeverMisused'
    BY <1>1, <1>3, <1>4, <1>5 DEF NeverMisused, Lock
  <1>11. Follows'
    <2>1. UNCHANGED <<live, log, unwound, recorder>>
      BY DEF Lock
    <2>2. Clean' => Clean
      BY <2>1 DEF Clean, Poisoned, Lock
    <2>3. Clean' => Whole(live, log)
      BY <1>1, <2>2 DEF Follows
    <2>4. Clean' => Progress(t)'
      BY <1>4, <1>5, <2>1, <2>3 DEF Progress, Whole
    <2> QED BY <1>1, <2>4 DEF Follows, TypeOK
  <1>12. Loads'
    BY LoadsKept DEF Poisoned, Lock
  <1>13. Epochs'
    BY <1>1, <1>3, <1>4, <1>5 DEF Epochs, TypeOK, ReaderState, Lock
  <1> QED BY <1>6, <1>7, <1>8, <1>9, <1>10, <1>11, <1>12, <1>13

\* A writer that waits gives up.
LEMMA WriterLockTimeoutInv ==
  ASSUME WriteInv, NEW t \in Writers, WriterLockTimeout(t)
  PROVE  WriteInv'
  <1> USE NobodyAssumption DEF WriteInv, At, On, store, wal
  <1>1. wr[t].at = "wait" /\ writer # t
    BY DEF WriterLockTimeout, TypeOK, Locks, Places
  <1>2. Goes(t, "idle")
    BY DEF WriterLockTimeout
  <1>3. /\ wr' \in [Writers -> WriterState]
        /\ wr' = [wr EXCEPT ![t] = [wr[t] EXCEPT !.at = "idle"]]
    BY <1>2, MovedType DEF TypeOK, Ats
  <1>4. TypeOK'
    BY <1>1, <1>3 DEF TypeOK, WriterLockTimeout
  <1>5. Locks'
    BY <1>1, <1>3 DEF Locks, TypeOK, WriterState, WriterLockTimeout
  <1>6. Places'
    BY <1>1, <1>3 DEF Places, TypeOK, WriterState, WriterLockTimeout
  <1>7. Scopes'
    BY <1>1, <1>3 DEF Scopes, Scope, TypeOK, WriterState, Locks, Places, RecorderState,
       WriterLockTimeout
  <1>8. NeverMisused'
    BY <1>1, <1>3 DEF NeverMisused, WriterLockTimeout
  <1>9. Follows'
    BY <1>1, <1>3 DEF Follows, Clean, Poisoned, Progress, Ahead, Whole, TypeOK,
       WriterState, Locks, Places, WriterLockTimeout
  <1>10. Loads'
    BY LoadsKept DEF Poisoned, WriterLockTimeout
  <1>11. Epochs'
    BY <1>1, <1>3 DEF Epochs, TypeOK, ReaderState, WriterLockTimeout
  <1> QED BY <1>4, <1>5, <1>6, <1>7, <1>8, <1>9, <1>10, <1>11

\* The latch is looked at once more before the copy is published.
LEMMA finishInv ==
  ASSUME WriteInv, NEW t \in Writers, finish(t)
  PROVE  WriteInv'
  <1> USE NobodyAssumption DEF WriteInv, At, On, store, wal
  <1>1. wr[t].at = "check" /\ writer = t /\ wr[t].path = "staged"
    BY DEF finish, TypeOK, Locks, Places
  <1>2. PICK at \in {"release", "publish"} : Goes(t, at)
    BY DEF finish
  <1>3. /\ wr' \in [Writers -> WriterState]
        /\ wr' = [wr EXCEPT ![t] = [wr[t] EXCEPT !.at = at]]
    BY <1>2, MovedType DEF TypeOK, Ats
  <1>4. TypeOK'
    BY <1>1, <1>3 DEF TypeOK, finish
  <1>5. Locks'
    BY <1>1, <1>3 DEF Locks, TypeOK, WriterState, finish
  <1>6. Places'
    BY <1>1, <1>3 DEF Places, TypeOK, WriterState, finish
  <1>7. Scopes'
    BY <1>1, <1>3 DEF Scopes, Scope, TypeOK, WriterState, Locks, Places, RecorderState,
       finish
  <1>8. NeverMisused'
    BY <1>1, <1>3 DEF NeverMisused, finish
  <1>9. Follows'
    <2>1. CASE Poisoned
      BY <1>3, <2>1 DEF Follows, Clean, Poisoned, finish
    <2>2. CASE ~Poisoned
      <3>1. at = "publish"
        BY <1>1, <1>2, <2>2 DEF finish, Goes, TypeOK, WriterState
      <3> QED BY <1>1, <1>3, <3>1 DEF Follows, Clean, Poisoned, Progress, Ahead, Whole,
                 TypeOK, WriterState, finish
    <2> QED BY <2>1, <2>2
  <1>10. Loads'
    BY LoadsKept DEF Poisoned, finish
  <1>11. Epochs'
    BY <1>1, <1>3 DEF Epochs, TypeOK, ReaderState, finish
  <1> QED BY <1>4, <1>5, <1>6, <1>7, <1>8, <1>9, <1>10, <1>11

\* The mutex is let go, and the writer is done.
LEMMA ReleaseInv ==
  ASSUME WriteInv, NEW t \in Writers, Release(t)
  PROVE  WriteInv'
  <1> USE NobodyAssumption DEF WriteInv, At, On, store, wal
  <1>1. wr[t].at = "release" /\ writer = t /\ writer' = Nobody
    BY DEF Release, Locks
  <1>2. wr' = [wr EXCEPT ![t] = Resting] /\ Resting \in WriterState /\ Resting.at = "idle"
    BY RestingType DEF Release, Resting
  <1>3. wr' \in [Writers -> WriterState]
    BY <1>2 DEF TypeOK
  <1>4. handle = Nobody
    BY <1>1 DEF Locks, TypeOK
  <1>5. TypeOK'
    BY <1>1, <1>2, <1>3, <1>4 DEF TypeOK, Release
  <1>6. Locks'
    BY <1>1, <1>2, <1>3, <1>4 DEF Locks, TypeOK, WriterState, Release
  <1>7. Places'
    BY <1>1, <1>2, <1>3, <1>4 DEF Places, TypeOK, WriterState, Release
  <1>8. Scopes'
    BY <1>1, <1>2, <1>3, <1>4
       DEF Scopes, Scope, TypeOK, WriterState, Locks, Places, RecorderState, Release
  <1>9. NeverMisused'
    BY <1>1, <1>2, <1>3, <1>4 DEF NeverMisused, Release
  <1>10. Follows'
    BY <1>1, <1>2, <1>3, <1>4
       DEF Follows, Clean, Poisoned, Progress, Ahead, Whole, TypeOK, WriterState, Locks,
           Places, Release
  <1>11. Loads'
    BY LoadsKept DEF Poisoned, Release
  <1>12. Epochs'
    BY <1>1, <1>2, <1>3, <1>4 DEF Epochs, TypeOK, ReaderState, Release
  <1> QED BY <1>5, <1>6, <1>7, <1>8, <1>9, <1>10, <1>11, <1>12

\* The scope opens, unless the recorder is poisoned.
LEMMA armInv ==
  ASSUME WriteInv, NEW t \in Writers, arm(t)
  PROVE  WriteInv'
  <1> USE NobodyAssumption DEF WriteInv, At, On, store, wal
  <1>1. wr[t].at = "arm" /\ writer = t /\ wr[t].path # "tx"
    BY DEF arm, TypeOK, Locks, Places
  <1>2. PICK at \in {"release", "body"} : Goes(t, at)
    BY DEF arm
  <1>3. /\ wr' \in [Writers -> WriterState]
        /\ wr' = [wr EXCEPT ![t] = [wr[t] EXCEPT !.at = at]]
    BY <1>2, MovedType DEF TypeOK, Ats
  <1>4. recorder \in RecorderState /\ recorder' \in RecorderState
    BY RecorderTypes DEF arm, TypeOK
  <1>5. recorder.poisoned = "no" => ~recorder.armed
    BY <1>1 DEF Scopes, Scope
  <1>6. \/ at = "release" /\ recorder' = recorder /\ Poisoned
        \/ /\ at = "body" /\ recorder.poisoned = "no"
           /\ recorder' = [recorder EXCEPT !.armed = TRUE, !.buffer = 0]
    BY <1>1, <1>2, <1>5 DEF arm, Goes, TypeOK, WriterState, Poisoned
  <1>7. at = "body" => recorder'.armed /\ recorder'.buffer = 0 /\ recorder'.poisoned = "no"
    BY <1>4, <1>6, RecorderFields
  <1>8. TypeOK'
    BY <1>1, <1>3, <1>4, <1>6, <1>7 DEF TypeOK, arm
  <1>9. Locks'
    BY <1>1, <1>3, <1>4, <1>6, <1>7 DEF Locks, TypeOK, WriterState, arm
  <1>10. Places'
    BY <1>1, <1>3, <1>4, <1>6, <1>7 DEF Places, TypeOK, WriterState, arm
  <1>11. Scopes'
    BY <1>1, <1>3, <1>4, <1>6, <1>7
       DEF Scopes, Scope, TypeOK, WriterState, Locks, Places, RecorderState, arm
  <1>12. NeverMisused'
    BY <1>1, <1>3, <1>4, <1>6, <1>7 DEF NeverMisused, arm
  <1>13. Follows'
    BY <1>1, <1>3, <1>4, <1>6, <1>7
       DEF Follows, Clean, Poisoned, Progress, Ahead, Whole, TypeOK, WriterState, Locks,
           Places, arm
  <1>14. Loads'
    BY <1>6, <1>7, LoadsKept DEF Poisoned, arm
  <1>15. Epochs'
    BY <1>1, <1>3, <1>4, <1>6, <1>7 DEF Epochs, TypeOK, ReaderState, arm
  <1> QED BY <1>8, <1>9, <1>10, <1>11, <1>12, <1>13, <1>14, <1>15

\* The closure runs on the copy, in an open scope.
LEMMA staged_writeInv ==
  ASSUME WriteInv, NEW t \in Writers, staged_write(t)
  PROVE  WriteInv'
  <1> USE NobodyAssumption DEF WriteInv, At, On, store, wal
  <1>1. wr[t].at = "body" /\ writer = t /\ wr[t].path = "staged" /\ wr[t].id \in Ids
    BY DEF staged_write, Locks, Places
  <1>2. PICK e \in Ends(t) :
          /\ recorder' = Recorded(e.n)
          /\ wr' = [wr EXCEPT ![t].staged = Applied(@, wr[t].id, e.n), ![t].n = e.n,
                              ![t].at = IF e.ok = "ok" THEN "commit" ELSE "abort"]
    BY DEF staged_write
  <1>3. e.n \in 0 .. 2 /\ (e.ok = "ok" => e.n \in {0, 2})
    BY DEF Ends
  <1> DEFINE at == IF e.ok = "ok" THEN "commit" ELSE "abort"
             g == Applied(wr[t].staged, wr[t].id, e.n)
  <1>4. wr \in [Writers -> WriterState] /\ g \in Graph /\ at \in Ats
    BY <1>1, <1>3, AppliedType DEF TypeOK, Ats, WriterState
  <1>5. wr' = [wr EXCEPT ![t].staged = g, ![t].n = e.n, ![t].at = at]
    BY <1>2
  <1>6. at \in {"commit", "abort"} /\ (at = "commit" => e.n \in {0, 2})
    BY <1>3
  <1> HIDE DEF at
  <1>7. /\ wr' \in [Writers -> WriterState]
        /\ wr'[t].at = at /\ wr'[t].n = e.n /\ wr'[t].path = wr[t].path
        /\ wr'[t].staged = Applied(wr[t].staged, wr[t].id, e.n) /\ wr'[t].id = wr[t].id
        /\ \A u \in Writers \ {t} : wr'[u] = wr[u]
    <2> DEFINE n == e.n
    <2>0. n \in 0 .. 2 /\ wr' = [wr EXCEPT ![t].staged = g, ![t].n = n, ![t].at = at]
      BY <1>3, <1>5
    <2> HIDE DEF g, n
    <2>1. /\ wr' \in [Writers -> WriterState]
          /\ wr'[t].at = at /\ wr'[t].n = n /\ wr'[t].path = wr[t].path
          /\ wr'[t].staged = g /\ wr'[t].id = wr[t].id
          /\ \A u \in Writers \ {t} : wr'[u] = wr[u]
      <3>1. wr[t] \in WriterState
        BY <1>4
      <3>2. [wr[t] EXCEPT !.staged = g, !.n = n, !.at = at] \in WriterState
        BY ONLY <3>1, <2>0, <1>4 DEF WriterState, Ats
      <3>3. wr' \in [Writers -> WriterState]
        BY ONLY <3>2, <2>0, <1>4, t \in Writers
      <3> QED BY ONLY <3>1, <3>3, <2>0, <1>4, t \in Writers DEF WriterState
    <2> QED BY <2>1 DEF g, n
  <1>8. recorder \in RecorderState
    BY DEF TypeOK
  <1>9. recorder.poisoned = "no" =>
          /\ recorder.armed /\ recorder'.armed /\ recorder'.poisoned = "no"
          /\ recorder'.buffer = e.n
    BY <1>1, <1>2, <1>3, <1>8 DEF Scopes, Scope, Recorded, RecorderState
  <1>10. recorder' \in RecorderState /\ (recorder.poisoned # "no" => recorder' = recorder)
    BY <1>1, <1>2, <1>3, <1>8, RecorderTypes DEF Scopes, Scope, Recorded
  <1>11. TypeOK'
    BY <1>1, <1>6, <1>7, <1>8, <1>9, <1>10 DEF TypeOK, staged_write
  <1>12. Locks'
    <2>1. writer' = writer /\ handle' = handle /\ handle # t
      BY <1>1 DEF Locks, staged_write
    <2>2. wr'[t].at \notin {"idle", "wait"} /\ wr'[t].path # "live"
      BY <1>1, <1>6, <1>7
    <2>3. \A u \in Writers \ {t} : wr'[u] = wr[u]
      BY <1>7
    <2> QED BY <1>1, <2>1, <2>2, <2>3 DEF Locks
  <1>13. Places'
    <2>1. UNCHANGED unwound
      BY DEF staged_write
    <2>2. wr'[t].at \in {"commit", "abort"} /\ (wr'[t].at = "commit" => wr'[t].n \in {0, 2})
      BY <1>6, <1>7
    <2>3. wr'[t].path = "staged" /\ wr'[t].id \in Ids
      BY <1>1, <1>7
    <2>4. \A u \in Writers \ {t} : wr'[u] = wr[u]
      BY <1>7
    <2> QED BY <2>1, <2>2, <2>3, <2>4 DEF Places
  <1>14. Scopes'
    <2>1. writer' = t
      BY <1>1 DEF staged_write
    <2>2. recorder'.poisoned = "no" => recorder.poisoned = "no"
      BY <1>10
    <2>3. recorder'.poisoned = "no" =>
            recorder'.armed /\ wr'[t].path # "tx" /\ wr'[t].at \in Scope /\ wr'[t].at # "body"
            /\ recorder'.buffer = wr'[t].n
      BY <1>1, <1>6, <1>7, <1>9, <2>2 DEF Scope
    <2> QED
      BY <2>1, <2>3, Zenon DEF Scopes
  <1>15. NeverMisused'
    BY <1>1, <1>6, <1>7, <1>8, <1>9, <1>10 DEF NeverMisused, staged_write
  <1>16. Follows'
    <2>1. CASE Clean' /\ Clean
      <3>1. Whole(live, log) /\ wr[t].staged = live
        BY <1>1, <2>1 DEF Follows, Progress
      <3>2. Progress(t)'
        BY <1>1, <1>6, <1>7, <3>1 DEF Progress, Whole, staged_write
      <3> QED BY <1>1, <3>2 DEF Follows, staged_write, TypeOK
    <2>2. CASE ~Clean
      BY <1>10, <2>2 DEF Follows, Clean, Poisoned, staged_write
    <2> QED BY <2>1, <2>2 DEF Follows
  <1>17. Loads'
    BY <1>10, LoadsKept DEF Poisoned, staged_write
  <1>18. Epochs'
    BY <1>1, <1>6, <1>7, <1>8, <1>9, <1>10 DEF Epochs, TypeOK, ReaderState, staged_write
  <1> QED BY <1>11, <1>12, <1>13, <1>14, <1>15, <1>16, <1>17, <1>18

\* The closure runs in place, with the store's lock.
LEMMA live_writeInv ==
  ASSUME WriteInv, NEW t \in Writers, live_write(t)
  PROVE  WriteInv'
  <1> USE NobodyAssumption DEF WriteInv, At, On, store, wal
  <1>1. /\ wr[t].at = "body" /\ writer = t /\ wr[t].path = "live" /\ wr[t].id \in Ids
        /\ handle' = t
    BY DEF live_write, Locks, Places
  <1>2. PICK e \in Ends(t) :
          /\ recorder' = Recorded(e.n)
          /\ live' = Applied(live, wr[t].id, e.n)
          /\ wr' = [wr EXCEPT ![t].n = e.n,
                              ![t].at = CASE e.ok = "ok"    -> "commit"
                                          [] e.ok = "err"   -> "abort"
                                          [] e.ok = "panic" -> "unwind"]
    BY DEF live_write
  <1> DEFINE at == CASE e.ok = "ok"    -> "commit"
                     [] e.ok = "err"   -> "abort"
                     [] e.ok = "panic" -> "unwind"
             n == e.n
  <1>3. /\ n \in 0 .. 2 /\ at \in {"commit", "abort", "unwind"}
        /\ at = "commit" => n \in {0, 2}
        /\ at = "abort" => n = 1
    BY <1>1 DEF Ends
  <1>4. /\ wr' = [wr EXCEPT ![t].n = n, ![t].at = at] /\ recorder' = Recorded(n)
        /\ live' = Applied(live, wr[t].id, n)
    BY <1>2
  <1> HIDE DEF at, n
  <1>5. /\ wr' \in [Writers -> WriterState]
        /\ wr'[t].at = at /\ wr'[t].n = n /\ wr'[t].path = wr[t].path
        /\ wr'[t].id = wr[t].id
        /\ \A u \in Writers \ {t} : wr'[u] = wr[u]
    <2>1. wr \in [Writers -> WriterState] /\ wr[t] \in WriterState
      BY DEF TypeOK
    <2>2. [wr[t] EXCEPT !.n = n, !.at = at] \in WriterState
      BY ONLY <2>1, <1>3 DEF WriterState
    <2>3. wr' \in [Writers -> WriterState]
      BY ONLY <2>1, <2>2, <1>4, t \in Writers
    <2> QED BY ONLY <2>1, <2>3, <1>4, t \in Writers DEF WriterState
  <1>6. live' \in Graph /\ recorder \in RecorderState
    BY <1>1, <1>3, <1>4, AppliedType DEF TypeOK
  <1>7. recorder.poisoned = "no" =>
          /\ recorder.armed /\ recorder'.armed /\ recorder'.poisoned = "no"
          /\ recorder'.buffer = n
    BY <1>1, <1>3, <1>4, <1>6 DEF Scopes, Scope, Recorded, RecorderState
  <1>8. recorder' \in RecorderState /\ (recorder.poisoned # "no" => recorder' = recorder)
    BY <1>1, <1>3, <1>4, <1>6, RecorderTypes DEF Scopes, Scope, Recorded
  <1>9. UNCHANGED <<epoch, writer, log, bg_failure, rd, reads, ids, schema, unwound>>
    BY DEF live_write
  <1>10. TypeOK'
    BY <1>1, <1>3, <1>5, <1>6, <1>7, <1>8, <1>9 DEF TypeOK
  <1>11. Locks'
    BY <1>1, <1>3, <1>5, <1>6, <1>7, <1>8, <1>9 DEF Locks, TypeOK, WriterState
  <1>12. Places'
    BY <1>1, <1>3, <1>5, <1>6, <1>7, <1>8, <1>9 DEF Places, TypeOK, WriterState
  <1>13. Scopes'
    BY <1>1, <1>3, <1>5, <1>6, <1>7, <1>8, <1>9
       DEF Scopes, Scope, TypeOK, WriterState, Locks, Places, RecorderState
  <1>14. NeverMisused'
    BY <1>1, <1>3, <1>5, <1>6, <1>7, <1>8, <1>9 DEF NeverMisused
  <1>15. Follows'
    <2>1. CASE Clean' /\ Clean
      <3>1. Whole(live, log)
        BY <1>1, <2>1 DEF Follows, Progress
      <3>2. at = "commit" => live' = IF n = 0 THEN live ELSE Applied(live, wr[t].id, 2)
        BY <1>3, <1>4, AppliedGraphs DEF TypeOK
      <3>3. Progress(t)'
        BY <1>1, <1>3, <1>5, <1>9, <3>1, <3>2, AppliedGraphs DEF Progress, TypeOK
      <3> QED BY <1>1, <1>9, <3>3 DEF Follows, TypeOK
    <2>2. CASE ~Clean
      BY <1>8, <1>9, <2>2 DEF Follows, Clean, Poisoned, TypeOK
    <2> QED BY <2>1, <2>2 DEF Follows
  <1>16. Loads'
    BY <1>8, <1>9, LoadsKept DEF Poisoned
  <1>17. Epochs'
    BY <1>1, <1>3, <1>5, <1>6, <1>7, <1>8, <1>9 DEF Epochs, TypeOK, ReaderState
  <1> QED BY <1>10, <1>11, <1>12, <1>13, <1>14, <1>15, <1>16, <1>17

\* The statements of a transaction run on its copy, outside any scope.
LEMMA tx_writeInv ==
  ASSUME WriteInv, NEW t \in Writers, tx_write(t)
  PROVE  WriteInv'
  <1> USE NobodyAssumption DEF WriteInv, At, On, store, wal
  <1>1. wr[t].at = "body" /\ writer = t /\ wr[t].path = "tx" /\ wr[t].id \in Ids
    BY DEF tx_write, Locks, Places
  <1>2. PICK e \in Ends(t) :
          wr' = IF e.ok = "ok"
                THEN [wr EXCEPT ![t].staged = Applied(@, wr[t].id, e.n), ![t].n = e.n,
                                ![t].at = "commit"]
                ELSE [wr EXCEPT ![t].at = "release"]
    BY DEF tx_write
  <1> DEFINE n == IF e.ok = "ok" THEN e.n ELSE wr[t].n
             at == IF e.ok = "ok" THEN "commit" ELSE "release"
             g == IF e.ok = "ok" THEN Applied(wr[t].staged, wr[t].id, n)
                                 ELSE wr[t].staged
  <1>3. wr \in [Writers -> WriterState] /\ wr[t] \in WriterState
    BY DEF TypeOK
  <1>4. /\ n \in 0 .. 2 /\ at \in {"commit", "release"}
        /\ at = "commit" => n \in {0, 2} /\ g = Applied(wr[t].staged, wr[t].id, n)
    BY <1>3 DEF Ends, WriterState
  <1>5. g \in Graph
    BY <1>1, <1>3, <1>4, AppliedType DEF WriterState
  <1>6. wr' = [wr EXCEPT ![t] = [wr[t] EXCEPT !.staged = g, !.n = n, !.at = at]]
    BY <1>2, <1>3 DEF WriterState
  <1> HIDE DEF at, n, g
  <1>7. /\ wr' \in [Writers -> WriterState]
        /\ wr'[t].at = at /\ wr'[t].n = n /\ wr'[t].path = wr[t].path
        /\ wr'[t].staged = g /\ wr'[t].id = wr[t].id
        /\ \A u \in Writers \ {t} : wr'[u] = wr[u]
    <2>1. [wr[t] EXCEPT !.staged = g, !.n = n, !.at = at] \in WriterState
      BY ONLY <1>3, <1>4, <1>5 DEF WriterState
    <2>2. wr' \in [Writers -> WriterState]
      BY ONLY <1>3, <1>6, <2>1, t \in Writers
    <2> QED BY ONLY <1>3, <1>6, <2>2, t \in Writers DEF WriterState
  <1>8. TypeOK'
    BY <1>1, <1>4, <1>7 DEF TypeOK, tx_write
  <1>9. Locks'
    BY <1>1, <1>4, <1>7 DEF Locks, TypeOK, WriterState, tx_write
  <1>10. Places'
    <2>1. UNCHANGED unwound
      BY DEF tx_write
    <2>2. wr'[t].at \in {"commit", "release"} /\ (wr'[t].at = "commit" => wr'[t].n \in {0, 2})
      BY <1>4, <1>7
    <2>3. wr'[t].path = "tx" /\ wr'[t].id \in Ids
      BY <1>1, <1>7
    <2>4. \A u \in Writers \ {t} : wr'[u] = wr[u]
      BY <1>7
    <2> QED BY <2>1, <2>2, <2>3, <2>4 DEF Places
  <1>11. Scopes'
    BY <1>1, <1>4, <1>7 DEF Scopes, Scope, TypeOK, WriterState, Locks, Places,
       RecorderState, tx_write
  <1>12. NeverMisused'
    BY <1>1, <1>4, <1>7 DEF NeverMisused, tx_write
  <1>13. Follows'
    <2>1. CASE Clean' /\ Clean
      <3>1. Whole(live, log) /\ wr[t].staged = live
        BY <1>1, <2>1 DEF Follows, Progress
      <3>2. Progress(t)'
        BY <1>1, <1>4, <1>7, <3>1 DEF Progress, Whole, tx_write
      <3> QED BY <1>1, <3>2 DEF Follows, tx_write, TypeOK
    <2>2. CASE ~Clean
      BY <1>1, <2>2 DEF Follows, Clean, Poisoned, tx_write
    <2> QED BY <2>1, <2>2 DEF Follows
  <1>14. Loads'
    BY LoadsKept DEF Poisoned, tx_write
  <1>15. Epochs'
    BY <1>1, <1>4, <1>7 DEF Epochs, TypeOK, ReaderState, tx_write
  <1> QED BY <1>8, <1>9, <1>10, <1>11, <1>12, <1>13, <1>14, <1>15

\* The copy becomes the live graph.
LEMMA publishInv ==
  ASSUME WriteInv, NEW t \in Writers, publish(t)
  PROVE  WriteInv'
  <1> USE NobodyAssumption DEF WriteInv, At, On, store, wal
  <1>1. wr[t].at = "publish" /\ writer = t /\ handle = Nobody /\ wr[t].staged \in Graph
    BY DEF publish, TypeOK, Locks, Places, WriterState
  <1>2. Goes(t, "release")
    BY DEF publish
  <1>3. /\ wr' \in [Writers -> WriterState]
        /\ wr' = [wr EXCEPT ![t] = [wr[t] EXCEPT !.at = "release"]]
    BY <1>2, MovedType DEF TypeOK, Ats
  <1>4. TypeOK'
    BY <1>1, <1>3 DEF TypeOK, publish
  <1>5. Locks'
    BY <1>1, <1>3 DEF Locks, TypeOK, WriterState, publish
  <1>6. Places'
    BY <1>1, <1>3 DEF Places, TypeOK, WriterState, publish
  <1>7. Scopes'
    BY <1>1, <1>3 DEF Scopes, Scope, TypeOK, WriterState, Locks, Places, RecorderState,
       publish
  <1>8. NeverMisused'
    BY <1>1, <1>3 DEF NeverMisused, publish
  <1>9. Follows'
    BY <1>1, <1>3 DEF Follows, Clean, Poisoned, Progress, Ahead, Whole, TypeOK,
       WriterState, Locks, Places, publish
  <1>10. Loads'
    BY LoadsKept DEF Poisoned, publish
  <1>11. Epochs'
    BY <1>1, <1>3 DEF Epochs, TypeOK, ReaderState, publish
  <1> QED BY <1>4, <1>5, <1>6, <1>7, <1>8, <1>9, <1>10, <1>11

\* The write is counted and the store's lock let go.
LEMMA drop_handleInv ==
  ASSUME WriteInv, NEW t \in Writers, drop_handle(t)
  PROVE  WriteInv'
  <1> USE NobodyAssumption DEF WriteInv, At, On, store, wal, DropHandle
  <1>1. wr[t].at = "drop" /\ writer = t /\ wr[t].path = "live" /\ handle = t
    BY DEF drop_handle, TypeOK, Locks, Places
  <1>2. Goes(t, "release")
    BY DEF drop_handle
  <1>3. /\ wr' \in [Writers -> WriterState]
        /\ wr' = [wr EXCEPT ![t] = [wr[t] EXCEPT !.at = "release"]]
    BY <1>2, MovedType DEF TypeOK, Ats
  <1>4. TypeOK'
    BY <1>1, <1>3 DEF TypeOK, drop_handle
  <1>5. Locks'
    BY <1>1, <1>3 DEF Locks, TypeOK, WriterState, drop_handle
  <1>6. Places'
    BY <1>1, <1>3 DEF Places, TypeOK, WriterState, drop_handle
  <1>7. Scopes'
    BY <1>1, <1>3 DEF Scopes, Scope, TypeOK, WriterState, Locks, Places, RecorderState,
       drop_handle
  <1>8. NeverMisused'
    BY <1>1, <1>3 DEF NeverMisused, drop_handle
  <1>9. Follows'
    BY <1>1, <1>3 DEF Follows, Clean, Poisoned, Progress, Ahead, Whole, TypeOK,
       WriterState, Locks, Places, drop_handle
  <1>10. Loads'
    BY LoadsKept DEF Poisoned, drop_handle
  <1>11. Epochs'
    BY <1>1, <1>3 DEF Epochs, TypeOK, ReaderState, drop_handle
  <1> QED BY <1>4, <1>5, <1>6, <1>7, <1>8, <1>9, <1>10, <1>11

\* A panic in place: the store's lock goes first.
LEMMA unwind_handleInv ==
  ASSUME WriteInv, NEW t \in Writers, unwind_handle(t)
  PROVE  WriteInv'
  <1> USE NobodyAssumption DEF WriteInv, At, On, store, wal, DropHandle
  <1>1. wr[t].at = "unwind" /\ writer = t /\ wr[t].path = "live" /\ handle = t
    BY DEF unwind_handle, TypeOK, Locks, Places
  <1>2. Goes(t, "abort_unwound")
    BY DEF unwind_handle
  <1>3. /\ wr' \in [Writers -> WriterState]
        /\ wr' = [wr EXCEPT ![t] = [wr[t] EXCEPT !.at = "abort_unwound"]]
    BY <1>2, MovedType DEF TypeOK, Ats
  <1>4. TypeOK'
    BY <1>1, <1>3 DEF TypeOK, unwind_handle
  <1>5. Locks'
    BY <1>1, <1>3 DEF Locks, TypeOK, WriterState, unwind_handle
  <1>6. Places'
    BY <1>1, <1>3 DEF Places, TypeOK, WriterState, unwind_handle
  <1>7. Scopes'
    BY <1>1, <1>3 DEF Scopes, Scope, TypeOK, WriterState, Locks, Places, RecorderState,
       unwind_handle
  <1>8. NeverMisused'
    BY <1>1, <1>3 DEF NeverMisused, unwind_handle
  <1>9. Follows'
    BY DEF Follows, Clean, unwind_handle
  <1>10. Loads'
    BY DEF Loads, unwind_handle
  <1>11. Epochs'
    BY <1>1, <1>3 DEF Epochs, TypeOK, ReaderState, unwind_handle
  <1> QED BY <1>4, <1>5, <1>6, <1>7, <1>8, <1>9, <1>10, <1>11

\* Then the scope is left, which poisons the recorder.
LEMMA unwind_scopeInv ==
  ASSUME WriteInv, NEW t \in Writers, unwind_scope(t)
  PROVE  WriteInv'
  <1> USE NobodyAssumption DEF WriteInv, At, On, store, wal
  <1>1. wr[t].at = "abort_unwound" /\ writer = t /\ wr[t].path = "live" /\ unwound
    BY DEF unwind_scope, TypeOK, Locks, Places
  <1>2. Goes(t, "release")
    BY DEF unwind_scope
  <1>3. /\ wr' \in [Writers -> WriterState]
        /\ wr' = [wr EXCEPT ![t] = [wr[t] EXCEPT !.at = "release"]]
    BY <1>2, MovedType DEF TypeOK, Ats
  <1>4. recorder \in RecorderState /\ recorder' \in RecorderState
    BY RecorderTypes DEF unwind_scope, abort_armed, TypeOK
  <1>5. /\ recorder'.poisoned # "misuse"
        /\ recorder.poisoned # "no" => recorder'.poisoned # "no"
        /\ recorder'.poisoned = "no" => ~recorder'.armed
    BY <1>4, RecorderFields DEF unwind_scope, abort_armed, abort, NeverMisused
  <1>6. TypeOK'
    BY <1>1, <1>3, <1>4, <1>5 DEF TypeOK, unwind_scope
  <1>7. Locks'
    BY <1>1, <1>3, <1>4, <1>5 DEF Locks, TypeOK, WriterState, unwind_scope
  <1>8. Places'
    BY <1>1, <1>3, <1>4, <1>5 DEF Places, TypeOK, WriterState, unwind_scope
  <1>9. Scopes'
    BY <1>1, <1>3, <1>4, <1>5
       DEF Scopes, Scope, TypeOK, WriterState, Locks, Places, RecorderState, unwind_scope
  <1>10. NeverMisused'
    BY <1>1, <1>3, <1>4, <1>5 DEF NeverMisused, unwind_scope
  <1>11. Follows'
    BY <1>1 DEF Follows, Clean, unwind_scope
  <1>12. Loads'
    BY <1>1 DEF Loads, unwind_scope
  <1>13. Epochs'
    BY <1>1, <1>3, <1>4, <1>5 DEF Epochs, TypeOK, ReaderState, unwind_scope
  <1> QED BY <1>6, <1>7, <1>8, <1>9, <1>10, <1>11, <1>12, <1>13

\* A write that failed: in place it poisons the recorder.
LEMMA abort_writeInv ==
  ASSUME WriteInv, NEW t \in Writers, abort_write(t)
  PROVE  WriteInv'
  <1> USE NobodyAssumption DEF WriteInv, At, On, store, wal
  <1>1. wr[t].at = "abort" /\ writer = t /\ wr[t].path \in {"staged", "live"}
    BY DEF abort_write, TypeOK, Locks, Places, WriterState
  <1>2. PICK at \in {"drop", "release"} : Goes(t, at)
    BY DEF abort_write
  <1>3. /\ wr' \in [Writers -> WriterState]
        /\ wr' = [wr EXCEPT ![t] = [wr[t] EXCEPT !.at = at]]
    BY <1>2, MovedType DEF TypeOK, Ats
  <1>4. recorder \in RecorderState /\ recorder' \in RecorderState
    BY RecorderTypes DEF abort_write, abort_armed, TypeOK
  <1>5. /\ recorder'.poisoned # "misuse"
        /\ recorder.poisoned # "no" => recorder'.poisoned # "no"
        /\ recorder'.poisoned = "no" => ~recorder'.armed
    BY <1>4, RecorderFields DEF abort_write, abort_armed, abort, NeverMisused
  <1>6. at = "drop" <=> wr[t].path = "live"
    BY <1>2, <1>3 DEF abort_write, Goes, TypeOK, WriterState
  <1>7. wr[t].path = "live" => recorder'.poisoned # "no"
    <2>1. CASE recorder.poisoned = "no" /\ wr[t].path = "live"
      <3>1. recorder.buffer > 0
        BY <1>1, <2>1 DEF Scopes, Scope, Places
      <3> QED BY <1>4, <2>1, <3>1, RecorderFields DEF abort_write, abort_armed
    <2> QED BY <1>5, <2>1
  <1>8. TypeOK'
    BY <1>1, <1>3, <1>4, <1>5, <1>6 DEF TypeOK, abort_write
  <1>9. Locks'
    BY <1>1, <1>3, <1>4, <1>5, <1>6 DEF Locks, TypeOK, WriterState, abort_write
  <1>10. Places'
    BY <1>1, <1>3, <1>4, <1>5, <1>6 DEF Places, TypeOK, WriterState, abort_write
  <1>11. Scopes'
    BY <1>1, <1>3, <1>4, <1>5, <1>6
       DEF Scopes, Scope, TypeOK, WriterState, Locks, Places, RecorderState, abort_write
  <1>12. NeverMisused'
    BY <1>1, <1>3, <1>4, <1>5, <1>6 DEF NeverMisused, abort_write
  <1>13. Follows'
    <2>1. CASE Clean' /\ Clean
      <3>1. Whole(live, log) /\ wr[t].path = "staged"
        BY <1>1, <1>7, <2>1 DEF Follows, Progress, Clean, Poisoned
      <3>2. Progress(t)'
        BY <1>1, <1>3, <1>6, <3>1 DEF Progress, Whole, abort_write, TypeOK, WriterState
      <3> QED BY <1>1, <3>2 DEF Follows, abort_write, TypeOK
    <2>2. CASE ~Clean
      BY <1>5, <2>2 DEF Follows, Clean, Poisoned, abort_write
    <2> QED BY <2>1, <2>2 DEF Follows
  <1>14. Loads'
    BY <1>5, LoadsKept DEF Poisoned, abort_write
  <1>15. Epochs'
    BY <1>1, <1>3, <1>4, <1>5, <1>6 DEF Epochs, TypeOK, ReaderState, abort_write
  <1> QED BY <1>8, <1>9, <1>10, <1>11, <1>12, <1>13, <1>14, <1>15

\* The scope's events are committed, or there were none.
LEMMA commitInv ==
  ASSUME WriteInv, NEW t \in Writers, commit(t)
  PROVE  WriteInv'
  <1> USE NobodyAssumption DEF WriteInv, At, On, store, wal
  <1>1. wr[t].at = "commit" /\ writer = t /\ wr[t].id \in Ids
        /\ wr[t].path \in {"staged", "live"} /\ wr[t].n \in {0, 2}
    BY DEF commit, TypeOK, Locks, Places, WriterState
  <1>2. PICK at \in {"drop", "check", "release"} : Goes(t, at)
    BY DEF commit, CommitTx
  <1>3. /\ wr' \in [Writers -> WriterState]
        /\ wr' = [wr EXCEPT ![t] = [wr[t] EXCEPT !.at = at]]
    BY <1>2, MovedType DEF TypeOK, Ats
  <1>4. recorder \in RecorderState /\ recorder' \in RecorderState
    BY RecorderTypes DEF commit, CommitTx, TypeOK
  <1>5. recorder.poisoned = "no" => recorder.armed /\ recorder.buffer = wr[t].n
    BY <1>1 DEF Scopes, Scope
  <1>6. /\ wr[t].path = "live" => at = "drop"
        /\ wr[t].path = "staged" => at \in {"check", "release"}
    BY <1>1, <1>2, <1>3 DEF commit, CommitTx, Goes, TypeOK, WriterState
  <1>7. \/ recorder.poisoned # "no" /\ recorder' = recorder /\ log' = log
        \/ /\ recorder.poisoned = "no" /\ wr[t].n = 0 /\ at # "release"
           /\ recorder' = Disarmed /\ log' = log
        \/ /\ recorder.poisoned = "no" /\ wr[t].n = 2 /\ at # "release"
           /\ recorder' = Disarmed /\ log' = Append(log, wr[t].id)
        \/ /\ recorder.poisoned = "no"
           /\ recorder' = [Disarmed EXCEPT !.poisoned = "commit"] /\ log' = log
    BY <1>1, <1>2, <1>3, <1>5 DEF commit, CommitTx, Goes, TypeOK, WriterState
  <1>8. /\ log' \in Seq(Ids) /\ recorder'.poisoned # "misuse"
        /\ recorder.poisoned # "no" => recorder'.poisoned # "no"
        /\ recorder'.poisoned = "no" => ~recorder'.armed
        /\ log' = log \/ \E i \in Ids : log' = Append(log, i)
    <2>1. log' = log \/ log' = Append(log, wr[t].id)
      BY <1>7
    <2>2. log' \in Seq(Ids)
      BY <1>1, <2>1 DEF TypeOK
    <2>3. /\ recorder'.poisoned # "misuse"
          /\ recorder.poisoned # "no" => recorder'.poisoned # "no"
          /\ recorder'.poisoned = "no" => ~recorder'.armed
      BY <1>4, <1>7, RecorderFields DEF NeverMisused, Poisoned
    <2> QED BY <1>1, <2>1, <2>2, <2>3
  <1>9. UNCHANGED <<live, epoch, handle, writer, bg_failure, rd, reads, ids, schema, unwound>>
    BY DEF commit
  <1>10. TypeOK'
    BY <1>1, <1>3, <1>4, <1>6, <1>8, <1>9 DEF TypeOK
  <1>11. Locks'
    BY <1>1, <1>3, <1>4, <1>6, <1>8, <1>9 DEF Locks, TypeOK, WriterState
  <1>12. Places'
    BY <1>1, <1>3, <1>4, <1>6, <1>8, <1>9 DEF Places, TypeOK, WriterState
  <1>13. Scopes'
    BY <1>1, <1>3, <1>4, <1>6, <1>8, <1>9
       DEF Scopes, Scope, TypeOK, WriterState, Locks, Places, RecorderState
  <1>14. NeverMisused'
    BY <1>1, <1>3, <1>4, <1>6, <1>8, <1>9 DEF NeverMisused
  <1>15. Follows'
    <2>1. CASE Clean' /\ Clean
      <3>1. Progress(t) /\ recorder.poisoned = "no" /\ recorder'.poisoned = "no"
        BY <1>1, <2>1 DEF Follows, Clean, Poisoned
      <3>2. \/ wr[t].n = 0 /\ log' = log
            \/ wr[t].n = 2 /\ log' = Append(log, wr[t].id)
        BY <1>4, <1>7, <3>1, RecorderFields
      <3>3. at # "release"
        BY <1>4, <1>7, <3>1, RecorderFields
      <3>4. ASSUME wr[t].path = "live" PROVE Progress(t)'
        <4>1. Whole(live, IF wr[t].n = 0 THEN log ELSE Append(log, wr[t].id))
          BY <1>1, <3>1, <3>4 DEF Progress
        <4>2. Whole(live, log')
          BY <3>2, <4>1 DEF Whole
        <4> QED BY <1>1, <1>3, <1>6, <1>9, <3>4, <4>2
                   DEF Progress, Whole, TypeOK, WriterState
      <3>5. ASSUME wr[t].path = "staged" PROVE Progress(t)'
        <4>1. Whole(live, log) /\ wr[t].staged = Applied(live, wr[t].id, wr[t].n)
          BY <1>1, <3>1, <3>5 DEF Progress
        <4>2. Whole(wr[t].staged, log')
          <5>1. CASE wr[t].n = 0 /\ log' = log
            BY <4>1, <5>1, AppliedGraphs DEF TypeOK
          <5>2. CASE wr[t].n = 2 /\ log' = Append(log, wr[t].id)
            BY <4>1, <5>2, AppliedGraphs DEF TypeOK
          <5> QED BY <3>2, <5>1, <5>2
        <4>3. Whole(live, log)' \/ Ahead'
          BY <1>1, <1>9, <3>2, <4>1, BehindByOne DEF TypeOK, Whole
        <4>4. at = "check"
          BY <1>6, <3>3, <3>5
        <4> QED BY <1>1, <1>3, <1>9, <3>5, <4>2, <4>3, <4>4
                   DEF Progress, Whole, TypeOK, WriterState
      <3>6. Progress(t)'
        BY <1>1, <3>4, <3>5
      <3> QED BY <1>1, <1>9, <3>6 DEF Follows, TypeOK
    <2>2. CASE ~Clean
      BY <1>8, <1>9, <2>2 DEF Follows, Clean, Poisoned, TypeOK
    <2> QED BY <2>1, <2>2 DEF Follows
  <1>16. Loads'
    BY <1>8, <1>9, LoadsKept DEF Poisoned
  <1>17. Epochs'
    BY <1>1, <1>3, <1>4, <1>6, <1>8, <1>9 DEF Epochs, TypeOK, ReaderState
  <1> QED BY <1>10, <1>11, <1>12, <1>13, <1>14, <1>15, <1>16, <1>17

\* A transaction hands its own buffer over.
LEMMA commit_eventsInv ==
  ASSUME WriteInv, NEW t \in Writers, commit_events(t)
  PROVE  WriteInv'
  <1> USE NobodyAssumption DEF WriteInv, At, On, store, wal
  <1>1. wr[t].at = "commit" /\ writer = t /\ wr[t].id \in Ids
        /\ wr[t].path = "tx" /\ wr[t].n \in {0, 2}
    BY DEF commit_events, TypeOK, Locks, Places, WriterState
  <1>2. PICK at \in {"publish", "release"} : Goes(t, at)
    BY DEF commit_events, CommitTx
  <1>3. /\ wr' \in [Writers -> WriterState]
        /\ wr' = [wr EXCEPT ![t] = [wr[t] EXCEPT !.at = at]]
    BY <1>2, MovedType DEF TypeOK, Ats
  <1>4. recorder \in RecorderState /\ recorder' \in RecorderState
    BY RecorderTypes DEF commit_events, CommitTx, TypeOK
  <1>5. recorder.poisoned = "no" => ~recorder.armed
    BY <1>1 DEF Scopes, Scope
  <1>6. \/ recorder' = recorder /\ log' = log /\ (Poisoned \/ wr[t].n = 0)
        \/ wr[t].n = 2 /\ recorder' = recorder /\ log' = Append(log, wr[t].id)
           /\ at = "publish"
        \/ ~Poisoned /\ log' = log /\ recorder' = [recorder EXCEPT !.poisoned = "commit"]
    BY <1>1, <1>2, <1>3 DEF commit_events, CommitTx, Goes, TypeOK, WriterState
  <1>7. /\ log' \in Seq(Ids) /\ recorder'.poisoned # "misuse"
        /\ recorder.poisoned # "no" => recorder'.poisoned # "no"
        /\ recorder'.poisoned = "no" => ~recorder'.armed
        /\ log' = log \/ \E i \in Ids : log' = Append(log, i)
    <2>1. log' = log \/ log' = Append(log, wr[t].id)
      BY <1>5, <1>6
    <2>2. log' \in Seq(Ids)
      BY <1>1, <2>1 DEF TypeOK
    <2>3. /\ recorder'.poisoned # "misuse"
          /\ recorder.poisoned # "no" => recorder'.poisoned # "no"
          /\ recorder'.poisoned = "no" => ~recorder'.armed
      BY <1>4, <1>5, <1>6, RecorderFields DEF NeverMisused, Poisoned
    <2> QED BY <1>1, <2>1, <2>2, <2>3
  <1>8. UNCHANGED <<live, epoch, handle, writer, bg_failure, rd, reads, ids, schema, unwound>>
    BY DEF commit_events
  <1>9. TypeOK'
    BY <1>1, <1>3, <1>4, <1>7, <1>8 DEF TypeOK
  <1>10. Locks'
    BY <1>1, <1>3, <1>4, <1>7, <1>8 DEF Locks, TypeOK, WriterState
  <1>11. Places'
    BY <1>1, <1>3, <1>4, <1>7, <1>8 DEF Places, TypeOK, WriterState
  <1>12. Scopes'
    BY <1>1, <1>3, <1>4, <1>7, <1>8
       DEF Scopes, Scope, TypeOK, WriterState, Locks, Places, RecorderState
  <1>13. NeverMisused'
    BY <1>1, <1>3, <1>4, <1>7, <1>8 DEF NeverMisused
  <1>14. Follows'
    <2>1. CASE Clean' /\ Clean
      <3>1. Progress(t) /\ recorder'.poisoned = "no" /\ ~Poisoned
        BY <1>1, <2>1 DEF Follows, Clean, Poisoned
      <3>2. \/ wr[t].n = 0 /\ log' = log
            \/ wr[t].n = 2 /\ log' = Append(log, wr[t].id) /\ at = "publish"
        BY <1>4, <1>6, <3>1, RecorderFields
      <3>3. Whole(live, log) /\ wr[t].staged = Applied(live, wr[t].id, wr[t].n)
        BY <1>1, <3>1 DEF Progress
      <3>4. Whole(wr[t].staged, log')
        <4>1. CASE wr[t].n = 0 /\ log' = log
          BY <3>3, <4>1, AppliedGraphs DEF TypeOK
        <4>2. CASE wr[t].n = 2 /\ log' = Append(log, wr[t].id)
          BY <3>3, <4>2, AppliedGraphs DEF TypeOK
        <4> QED BY <3>2, <4>1, <4>2
      <3>5. Whole(live, log)' \/ (at = "publish" /\ Ahead')
        <4>1. CASE log' = log
          <5>1. Whole(live, log)'
            BY <1>8, <3>3, <4>1 DEF Whole
          <5> QED BY <5>1
        <4>2. CASE log' = Append(log, wr[t].id) /\ at = "publish"
          BY <1>1, <1>8, <3>3, <4>2, BehindByOne DEF TypeOK
        <4> QED BY <3>2, <4>1, <4>2
      <3>6. Progress(t)'
        BY <1>1, <1>3, <1>8, <3>4, <3>5 DEF Progress, Whole, TypeOK, WriterState
      <3> QED BY <1>1, <1>8, <3>6 DEF Follows, TypeOK
    <2>2. CASE ~Clean
      BY <1>7, <1>8, <2>2 DEF Follows, Clean, Poisoned, TypeOK
    <2> QED BY <2>1, <2>2 DEF Follows
  <1>15. Loads'
    BY <1>7, <1>8, LoadsKept DEF Poisoned
  <1>16. Epochs'
    BY <1>1, <1>3, <1>4, <1>7, <1>8 DEF Epochs, TypeOK, ReaderState
  <1> QED BY <1>9, <1>10, <1>11, <1>12, <1>13, <1>14, <1>15, <1>16

-----------------------------------------------------------------------------
(* What the parts say together, and the steps of readers and latches.      *)

\* Nobody can load a graph the log does not have: where a writer may be while
\* the store's lock is free, the live graph is the log or one write behind.
LEMMA GraphFollows == WriteInv => LiveIsTheLog
  <1> SUFFICES ASSUME WriteInv, handle = Nobody, Clean
               PROVE  \/ Whole(live, log)
                      \/ writer # Nobody /\ Ahead
    BY DEF LiveIsTheLog, Clean, Ahead
  <1>1. CASE writer = Nobody
    BY <1>1 DEF WriteInv, Follows
  <1>2. ASSUME NEW t \in Writers, writer = t
        PROVE  \/ Whole(live, log)
               \/ writer # Nobody /\ Ahead
    <2>1. Progress(t) /\ wr[t].at \notin {"idle", "wait"} /\ handle # t /\ t # Nobody
      BY <1>2, NobodyAssumption DEF WriteInv, Follows, Locks
    <2>2. wr[t].at \notin {"unwind", "abort_unwound"}
      BY <2>1 DEF WriteInv, Locks, Places, At, On, Clean
    <2>3. wr[t].at \in {"commit", "abort"} => wr[t].path # "live"
      BY <2>1 DEF WriteInv, Locks, On
    <2>4. wr[t].at = "abort" => wr[t].path = "staged"
      BY <1>2, <2>3 DEF WriteInv, Places, At, On, TypeOK, WriterState
    <2> QED BY <1>2, <2>1, <2>2, <2>3, <2>4
               DEF Progress, At, On, WriteInv, TypeOK, WriterState
  <1> QED BY <1>1, <1>2 DEF WriteInv, TypeOK

\* The parts of the invariant that a reader's step does not touch.
LEMMA ReadKeeps ==
  ASSUME WriteInv, rd' \in [Readers -> ReaderState], reads' \in 0 .. MaxReads,
         UNCHANGED <<store, writer, recorder, wal, wr, ids, schema, unwound>>
  PROVE  TypeOK' /\ Locks' /\ Places' /\ Scopes' /\ NeverMisused' /\ Follows'
  <1> USE DEF WriteInv, store, wal
  <1>1. TypeOK'
    BY DEF TypeOK
  <1>2. Locks' /\ Places' /\ NeverMisused'
    BY DEF Locks, Places, NeverMisused, At, On
  <1>3. Scopes'
    BY DEF Scopes, Scope, At, On
  <1>4. Follows'
    BY DEF Follows, Clean, Poisoned, Progress, Ahead, Whole, At, On
  <1> QED BY <1>1, <1>2, <1>3, <1>4

\* A reader loads the live graph, with its epoch.
LEMMA LoadInv ==
  ASSUME WriteInv, NEW r \in Readers,
         load_full_with_epoch(r) \/ read_store(r) \/ open_cursor(r)
  PROVE  WriteInv'
  <1>p. Poisoned \in BOOLEAN
    BY DEF Poisoned, WriteInv, TypeOK
  <1>0. PICK where \in {"loaded", "rows"}, late \in BOOLEAN :
          /\ Load(r, where, late) /\ reads' \in {reads, reads + 1}
          /\ reads' = reads + 1 => reads < MaxReads
          /\ where = "rows" => (late <=> Poisoned)
    <2>1. CASE load_full_with_epoch(r)
      BY <2>1 DEF load_full_with_epoch
    <2>2. CASE read_store(r)
      BY <1>p, <2>2 DEF read_store
    <2>3. CASE open_cursor(r)
      <3>1. reads' = reads /\ reads # reads + 1
        BY <2>3 DEF open_cursor, WriteInv, TypeOK
      <3> QED BY <1>p, <2>3, <3>1 DEF open_cursor
    <2> QED BY <2>1, <2>2, <2>3
  <1> DEFINE s == [at |-> where, seen |-> live, epoch |-> epoch, late |-> late]
  <1>1. rd' = [rd EXCEPT ![r] = s] /\ handle = Nobody /\ rd \in [Readers -> ReaderState]
    BY <1>0 DEF Load, WriteInv, TypeOK
  <1>2. s \in ReaderState
    BY DEF WriteInv, TypeOK, ReaderState
  <1>3. rd' \in [Readers -> ReaderState] /\ reads' \in 0 .. MaxReads
    BY <1>0, <1>1, <1>2, WritePathAssumption DEF WriteInv, TypeOK
  <1>4. UNCHANGED <<live, epoch, handle, writer, recorder, log, bg_failure, wr, ids, schema, unwound>>
    BY <1>0 DEF Load, store, wal
  <1>5. ~Poisoned /\ ~unwound => CommittedPrefix(live)
    <2>1. ASSUME ~Poisoned, ~unwound PROVE Whole(live, log) \/ Ahead
      BY <1>1, <2>1, GraphFollows DEF LiveIsTheLog, Ahead
    <2>2. /\ log = SubSeq(log, 1, Len(log)) /\ Len(log) \in 0 .. Len(log)
          /\ log # <<>> => Len(log) - 1 \in 0 .. Len(log)
      BY DEF WriteInv, TypeOK
    <2> QED BY <2>1, <2>2 DEF Ahead, Whole, CommittedPrefix
  <1>6. Loads'
    <2>1. \A g : CommittedPrefix(g) => CommittedPrefix(g)'
      BY <1>4 DEF CommittedPrefix
    <2>2. Poisoned' = Poisoned
      BY <1>4 DEF Poisoned
    <2>3. \A q \in Readers \ {r} : rd'[q] = rd[q]
      BY <1>1
    <2>4. /\ rd'[r].at = where /\ rd'[r].seen = live
          /\ where = "rows" => (rd'[r].late <=> Poisoned)
      BY <1>0, <1>1
    <2>5. ASSUME ~unwound PROVE
            /\ rd'[r].at = "rows" /\ ~rd'[r].late => CommittedPrefix(rd[r].seen)'
            /\ rd'[r].at = "loaded" /\ ~Poisoned => CommittedPrefix(rd[r].seen)'
      BY <1>5, <2>1, <2>4, <2>5
    <2> QED BY <1>4, <2>1, <2>2, <2>3, <2>5 DEF Loads, WriteInv
  <1>7. Epochs'
    BY <1>1, <1>3, <1>4 DEF Epochs, WriteInv, TypeOK, ReaderState
  <1> QED BY <1>3, <1>4, <1>6, <1>7, ReadKeeps DEF WriteInv, store, wal

\* It then looks at the latch, and later is done with its rows.
LEMMA ReadOnInv ==
  ASSUME WriteInv, NEW r \in Readers, ensure_wal_query_can_start(r) \/ Rows(r)
  PROVE  WriteInv'
  <1>1. PICK at \in {"idle", "rows"} :
          /\ rd' = [rd EXCEPT ![r].at = at]
          /\ at = "rows" => rd[r].at = "loaded" /\ ~Poisoned
    BY DEF ensure_wal_query_can_start, Rows
  <1>2. rd[r] \in ReaderState /\ rd \in [Readers -> ReaderState]
    BY DEF WriteInv, TypeOK
  <1>3. [rd[r] EXCEPT !.at = at] \in ReaderState
    BY <1>2 DEF ReaderState
  <1>4. rd' \in [Readers -> ReaderState]
    BY <1>1, <1>2, <1>3
  <1>5. UNCHANGED <<live, epoch, handle, writer, recorder, log, bg_failure, wr, reads, ids,
                    schema, unwound>>
    BY DEF ensure_wal_query_can_start, Rows, store, wal
  <1>6. /\ rd'[r].at = at /\ rd'[r].seen = rd[r].seen /\ rd'[r].epoch = rd[r].epoch
        /\ rd'[r].late = rd[r].late
        /\ \A q \in Readers \ {r} : rd'[q] = rd[q]
    BY <1>1, <1>2 DEF ReaderState
  <1>7. Loads'
    <2>1. \A g : CommittedPrefix(g) => CommittedPrefix(g)'
      BY <1>5 DEF CommittedPrefix
    <2>2. Poisoned' = Poisoned
      BY <1>5 DEF Poisoned
    <2> QED BY <1>1, <1>5, <1>6, <2>1, <2>2 DEF Loads, WriteInv
  <1>8. Epochs'
    BY <1>5, <1>6 DEF Epochs, WriteInv
  <1>9. reads' \in 0 .. MaxReads
    BY <1>5 DEF WriteInv, TypeOK
  <1> QED BY <1>4, <1>5, <1>7, <1>8, <1>9, ReadKeeps DEF WriteInv, store, wal

\* A failure of the flusher or of an admin call.
LEMMA LatchInv ==
  ASSUME WriteInv, BgFails \/ FlushFails
  PROVE  WriteInv'
  <1> USE DEF WriteInv
  <1>1. UNCHANGED <<live, epoch, handle, writer, log, wr, rd, reads, ids, schema, unwound>>
    BY DEF BgFails, FlushFails, store, wal
  <1>2. recorder \in RecorderState
    BY DEF TypeOK
  <1>3. /\ recorder' \in RecorderState /\ bg_failure' \in BOOLEAN
        /\ recorder'.poisoned # "misuse"
        /\ recorder' = recorder \/ recorder'.poisoned # "no"
        /\ bg_failure' \/ recorder'.poisoned # "no"
    BY <1>2, RecorderTypes DEF BgFails, FlushFails, wal, TypeOK, RecorderState, NeverMisused
  <1>4. TypeOK'
    BY <1>1, <1>3 DEF TypeOK
  <1>5. Locks' /\ Places' /\ NeverMisused'
    BY <1>1, <1>3 DEF Locks, Places, NeverMisused, At, On
  <1>6. Scopes'
    BY <1>1, <1>3 DEF Scopes, Scope, At, On
  <1>7. Poisoned'
    BY <1>3 DEF Poisoned
  <1>8. Follows'
    BY <1>7 DEF Follows, Clean
  <1>9. Loads'
    BY <1>1, <1>7, LoadsKept
  <1>10. Epochs'
    BY <1>1 DEF Epochs
  <1> QED BY <1>4, <1>5, <1>6, <1>8, <1>9, <1>10

-----------------------------------------------------------------------------
(* The theorems.                                                           *)

\* The initial state: nothing written, nothing read, every lock free.
LEMMA InitInv == Init => WriteInv
  <1> SUFFICES ASSUME Init PROVE WriteInv
    OBVIOUS
  <1>1. wr \in [Writers -> WriterState] /\ \A t \in Writers : wr[t].at = "idle"
    BY RestingType DEF Init, Resting
  <1>2. rd \in [Readers -> ReaderState] /\ \A r \in Readers : rd[r].at = "idle" /\ rd[r].epoch = 0
    BY EmptyType DEF Init, ReaderState
  <1>3. recorder \in RecorderState
    BY DEF Init, RecorderState
  <1>4. TypeOK
    <2>1. /\ live \in Graph /\ epoch \in Nat \ {0} /\ log \in Seq(Ids)
          /\ ids \in 0 .. MaxWrites /\ reads \in 0 .. MaxReads /\ schema \subseteq Ids
      BY EmptyType, WritePathAssumption DEF Init
    <2>2. /\ bg_failure \in BOOLEAN /\ unwound \in BOOLEAN
          /\ writer \in Writers \cup {Nobody} /\ handle \in {Nobody, writer}
      BY DEF Init
    <2> QED BY <1>1, <1>2, <1>3, <2>1, <2>2 DEF TypeOK
  <1>5. Locks /\ Places
    BY <1>1, NobodyAssumption DEF Init, Locks, Places, At
  <1>6. Scopes /\ NeverMisused
    BY NobodyAssumption DEF Init, Scopes, NeverMisused
  <1>7. Follows
    BY NobodyAssumption DEF Init, Follows, Whole, Empty
  <1>8. Loads /\ Epochs
    BY <1>2 DEF Init, Loads, Epochs
  <1> QED BY <1>4, <1>5, <1>6, <1>7, <1>8 DEF WriteInv

\* Every step keeps the invariant.
LEMMA StepInv == WriteInv /\ [Next]_vars => WriteInv'
  <1> SUFFICES ASSUME WriteInv, [Next]_vars PROVE WriteInv'
    OBVIOUS
  <1>1. ASSUME NEW t \in Writers, Write(t) PROVE WriteInv'
    <2>1. CASE execute(t) \/ execute_schema_command(t) \/ begin_transaction(t)
      <3>1. PICK path \in {"staged", "live", "tx"}, clash \in BOOLEAN, cmd \in BOOLEAN :
              Begin(t, path, clash, cmd)
        BY <2>1, Zenon DEF execute, execute_schema_command, begin_transaction
      <3> QED BY <3>1, BeginInv
    <2>2. CASE Lock(t) \/ WriterLockTimeout(t) \/ arm(t)
      BY <2>2, LockInv, WriterLockTimeoutInv, armInv
    <2>3. CASE staged_write(t) \/ live_write(t) \/ tx_write(t)
      BY <2>3, staged_writeInv, live_writeInv, tx_writeInv
    <2>4. CASE commit(t) \/ commit_events(t) \/ finish(t) \/ publish(t)
      BY <2>4, commitInv, commit_eventsInv, finishInv, publishInv
    <2>5. CASE abort_write(t) \/ drop_handle(t) \/ unwind_handle(t) \/ unwind_scope(t)
      BY <2>5, abort_writeInv, drop_handleInv, unwind_handleInv, unwind_scopeInv
    <2>6. CASE Release(t)
      BY <2>6, ReleaseInv
    <2> QED BY <1>1, <2>1, <2>2, <2>3, <2>4, <2>5, <2>6 DEF Write
  <1>2. ASSUME NEW r \in Readers, Read(r) PROVE WriteInv'
    BY <1>2, LoadInv, ReadOnInv DEF Read
  <1>3. CASE BgFails \/ FlushFails
    BY <1>3, LatchInv
  <1>4. CASE UNCHANGED vars
    <2>1. UNCHANGED <<store, live, epoch, handle, writer, recorder, wal, log, bg_failure, wr,
                      rd, reads, ids, schema, unwound>>
      BY <1>4 DEF vars, store, wal
    <2>2. TypeOK' /\ Locks' /\ Places' /\ Scopes' /\ NeverMisused' /\ Follows'
      BY <2>1, ReadKeeps DEF WriteInv, TypeOK
    <2>3. Loads' /\ Epochs'
      BY <2>1, LoadsKept DEF WriteInv, Epochs, Poisoned
    <2> QED BY <2>2, <2>3 DEF WriteInv
  <1> QED BY <1>1, <1>2, <1>3, <1>4 DEF Next

\* The inductive invariant holds of every writer mutex, recorder, log and read
\* the code can reach.
THEOREM WriteInvHolds == Spec => []WriteInv
  <1> QED BY InitInv, StepInv, PTL DEF Spec

\* What readers can load is the log replayed, but for the newest write while
\* its writer still holds the mutex (LiveStore against the WAL).
THEOREM LiveIsTheLogHolds == Spec => []LiveIsTheLog
  <1> QED BY WriteInvHolds, GraphFollows, PTL

\* Rows are computed from committed writes only: load_full_with_epoch followed by
\* ensure_wal_query_can_start lets no other graph through, and a load alone
\* (read_store, LiveCursor::open) only one that the latch already told of.
THEOREM ReadsCommittedHolds == Spec => []ReadsCommitted
  <1>1. WriteInv => ReadsCommitted
    BY DEF WriteInv, Loads, ReadsCommitted, CommittedPrefix
  <1> QED BY <1>1, WriteInvHolds, PTL

\* arm, record and commit are called in their order, after whatever failed.
THEOREM NeverMisusedHolds == Spec => []NeverMisused
  <1>1. WriteInv => NeverMisused
    BY DEF WriteInv
  <1> QED BY <1>1, WriteInvHolds, PTL

\* Every load of one epoch gets one graph (LiveStore's write counter).
THEOREM EpochNamesGraphHolds == Spec => []EpochNamesGraph
  <1>1. WriteInv => EpochNamesGraph
    BY DEF WriteInv, Epochs, EpochNamesGraph
  <1> QED BY <1>1, WriteInvHolds, PTL
=============================================================================
