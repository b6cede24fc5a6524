---------------------------- MODULE ReplayProofs ----------------------------
(***************************************************************************)
(* Proofs about Replay for every length of the log, every budget, every    *)
(* set of fences and of events that do not apply, with and without the     *)
(* low-level primitives.                                                   *)
(***************************************************************************)
EXTENDS ReplayInv, SequenceTheorems, FiniteSetTheorems, TLAPS

-----------------------------------------------------------------------------
(* Sequences of events.                                                    *)

\* Appending an event keeps a sequence good if the event is.
LEMMA GoodAppend ==
  ASSUME NEW s \in Seq(Lsns), NEW e \in Lsns
  PROVE  Good(Append(s, e)) <=> Good(s) /\ e \notin bad
<1>1. DOMAIN s = 1 .. Len(s) /\ Len(s) \in Nat
  OBVIOUS
<1>2. /\ DOMAIN Append(s, e) = 1 .. Len(s) + 1
      /\ \A i \in 1 .. Len(s) : Append(s, e)[i] = s[i]
      /\ Append(s, e)[Len(s) + 1] = e
  OBVIOUS
<1>3. \A i \in 1 .. Len(s) + 1 : i \in 1 .. Len(s) \/ i = Len(s) + 1
  BY <1>1
<1>4. \A i \in 1 .. Len(s) : i \in 1 .. Len(s) + 1
  BY <1>1
<1>5. Len(s) + 1 \in 1 .. Len(s) + 1
  BY <1>1
<1> QED
  BY <1>1, <1>2, <1>3, <1>4, <1>5, Zenon DEF Good

\* A concatenation is good when both parts are.
LEMMA GoodConcat ==
  ASSUME NEW s \in Seq(Lsns), NEW t \in Seq(Lsns)
  PROVE  Good(s \o t) => Good(s) /\ Good(t)
<1>1. \A i \in DOMAIN s : i \in DOMAIN (s \o t) /\ (s \o t)[i] = s[i]
  OBVIOUS
<1>2. \A i \in DOMAIN t :
        Len(s) + i \in DOMAIN (s \o t) /\ (s \o t)[Len(s) + i] = t[i]
  OBVIOUS
<1> QED
  BY <1>1, <1>2, Zenon DEF Good

\* Concatenation passes through Append.
LEMMA ConcatAppend ==
  ASSUME NEW s \in Seq(Lsns), NEW t \in Seq(Lsns), NEW e \in Lsns
  PROVE  s \o Append(t, e) = Append(s \o t, e)
<1>1. /\ s \o Append(t, e) \in Seq(Lsns) /\ Append(s \o t, e) \in Seq(Lsns)
      /\ Len(s \o Append(t, e)) = Len(Append(s \o t, e))
  OBVIOUS
<1>2. ASSUME NEW i \in 1 .. Len(s \o Append(t, e))
      PROVE  (s \o Append(t, e))[i] = Append(s \o t, e)[i]
  OBVIOUS
<1> QED
  BY <1>1, <1>2

-----------------------------------------------------------------------------
(* replay_tx.                                                              *)

\* The parts of a sequence that apply, by their length.
Applying(evs) == {n \in DOMAIN evs : Good(SubSeq(evs, 1, n))}

\* The interval from 1 to n has n elements.
LEMMA IntervalSize ==
  ASSUME NEW n \in Nat
  PROVE  IsFiniteSet(1 .. n) /\ Cardinality(1 .. n) = n
  BY FS_Interval

\* At most all of them.
LEMMA ApplyingBound ==
  ASSUME NEW evs \in Seq(Lsns)
  PROVE  Cardinality(Applying(evs)) \in 0 .. Len(evs)
<1>1. DOMAIN evs = 1 .. Len(evs) /\ Len(evs) \in Nat
  OBVIOUS
<1>2. IsFiniteSet(1 .. Len(evs)) /\ Cardinality(1 .. Len(evs)) = Len(evs)
  BY <1>1, IntervalSize
<1>3. Applying(evs) \in SUBSET (1 .. Len(evs))
  BY <1>1 DEF Applying
<1>4. /\ IsFiniteSet(Applying(evs))
      /\ Cardinality(Applying(evs)) <= Cardinality(1 .. Len(evs))
  BY <1>2, <1>3, FS_Subset
<1>5. Cardinality(Applying(evs)) \in Nat
  BY <1>4, FS_CardinalityType
<1> QED
  BY <1>1, <1>2, <1>4, <1>5

\* replay_tx yields a graph.
LEMMA ReplayTxType ==
  ASSUME NEW graph \in Seq(Lsns), NEW evs \in Seq(Lsns)
  PROVE  replay_tx(graph, evs) \in Seq(Lsns)
<1> DEFINE n == Cardinality(Applying(evs))
<1>1. n \in 0 .. Len(evs) /\ Len(evs) \in Nat
  BY ApplyingBound
<1>2. \A i \in 1 .. n : evs[i] \in Lsns
  BY <1>1, ElementOfSeq
<1>3. SubSeq(evs, 1, n) \in Seq(Lsns)
  <2> HIDE DEF n
  <2> QED
    BY <1>1, <1>2, SubSeqProperties
<1>4. replay_tx(graph, evs) = graph \o SubSeq(evs, 1, n)
  BY DEF replay_tx, Applying
<1> HIDE DEF n
<1> QED
  BY <1>3, <1>4, ConcatProperties

\* Events that all apply are all applied.
LEMMA ReplayTxWhole ==
  ASSUME NEW graph \in Seq(Lsns), NEW evs \in Seq(Lsns), Good(evs)
  PROVE  replay_tx(graph, evs) = graph \o evs
<1>1. DOMAIN evs = 1 .. Len(evs) /\ Len(evs) \in Nat
  OBVIOUS
<1>2. ASSUME NEW n \in 1 .. Len(evs)
      PROVE  Good(SubSeq(evs, 1, n))
  <2>1. \A i \in 1 .. n : evs[i] \in Lsns
    BY ElementOfSeq
  <2>2. /\ SubSeq(evs, 1, n) \in Seq(Lsns) /\ Len(SubSeq(evs, 1, n)) = n
        /\ \A i \in 1 .. n : SubSeq(evs, 1, n)[i] = evs[i]
    BY <2>1
  <2>3. DOMAIN SubSeq(evs, 1, n) = 1 .. n
    BY <2>2
  <2>4. \A i \in 1 .. n : i \in DOMAIN evs
    BY <1>1
  <2> QED
    BY <2>2, <2>3, <2>4, Zenon DEF Good
<1>3. Applying(evs) = 1 .. Len(evs)
  BY <1>1, <1>2 DEF Applying
<1>4. Cardinality(Applying(evs)) = Len(evs)
  <2>1. Cardinality(1 .. Len(evs)) = Len(evs)
    BY <1>1, IntervalSize
  <2> QED
    BY <1>3, <2>1, Zenon
<1>5. SubSeq(evs, 1, Cardinality(Applying(evs))) = evs
  BY <1>4, SubSeqFull
<1> QED
  BY <1>5 DEF replay_tx, Applying

-----------------------------------------------------------------------------
(* What withdraw_other_than leaves.                                        *)

\* Discard gives back the committed graph, with no clone and no failure.
LEMMA Discarded ==
  ASSUME ReplayInv, status = "reading", streaming # 0
  PROVE  /\ Discard(sink).graph = committed
         /\ Discard(sink).before = <<>> /\ ~Discard(sink).failed
<1>1. sink.before = <<committed>>
  BY DEF ReplayInv, Provisional
<1> QED
  BY <1>1 DEF Discard

\* After withdraw_other_than(b) only b may be streaming, and the sink is as
\* Provisional says.
LEMMA Withdrawing ==
  ASSUME ReplayInv, status = "reading", NEW b \in Lsns
  PROVE  /\ StreamingNow(b) \in {0, b}
         /\ StreamingNow(b) = 0 =>
              /\ SinkNow(b).graph = committed /\ SinkNow(b).before = <<>>
              /\ ~SinkNow(b).failed
         /\ StreamingNow(b) = b =>
              SinkNow(b) = sink /\ WithdrawnNow(b) = withdrawn /\ streaming = b
<1>1. CASE Other(b)
  BY <1>1, Discarded DEF Other, StreamingNow, SinkNow, Lsns
<1>2. CASE ~Other(b)
  BY <1>2 DEF Other, StreamingNow, SinkNow, WithdrawnNow, ReplayInv, Provisional, Lsns
<1> QED
  BY <1>1, <1>2

\* The ones withdrawn then are those withdrawn before and the one that was
\* streaming, never b itself.
LEMMA WithdrawnThen ==
  ASSUME ReplayInv, status = "reading", NEW b \in Lsns
  PROVE  /\ withdrawn \subseteq WithdrawnNow(b)
         /\ WithdrawnNow(b) \subseteq 1 .. last_lsn
         /\ b \in WithdrawnNow(b) <=> b \in withdrawn
         /\ \A c \in WithdrawnNow(b) : size[c] >= Budget
         /\ streaming \notin {0, b} => streaming \in WithdrawnNow(b)
         /\ streaming \in {0, b} =>
              WithdrawnNow(b) = withdrawn /\ SinkNow(b) = sink
<1>1. streaming # 0 => streaming \in 1 .. last_lsn /\ size[streaming] >= Budget
  BY ReplayAssumption DEF ReplayInv, TypeOK, Begun, Provisional, Outgrown, Tracked
<1> QED
  BY <1>1 DEF Other, WithdrawnNow, SinkNow, ReplayInv, Begun, Outgrown

\* Its types.
LEMMA WithdrawingType ==
  ASSUME ReplayInv, status = "reading", NEW b \in Lsns
  PROVE  /\ StreamingNow(b) \in 0 .. MaxLsn
         /\ WithdrawnNow(b) \subseteq Lsns
         /\ SinkNow(b).graph \in Seq(Lsns) /\ SinkNow(b).failed \in BOOLEAN
         /\ SinkNow(b).before \in Seq(Seq(Lsns)) /\ Len(SinkNow(b).before) <= 1
<1>1. StreamingNow(b) \in 0 .. MaxLsn
  BY ReplayAssumption DEF ReplayInv, TypeOK, StreamingNow
<1>2. WithdrawnNow(b) \subseteq Lsns
  BY DEF ReplayInv, TypeOK, WithdrawnNow, Other, Lsns
<1>3. CASE StreamingNow(b) = 0
  <2>1. committed \in Seq(Lsns)
    BY DEF ReplayInv, TypeOK
  <2>2. <<>> \in Seq(Seq(Lsns)) /\ Len(<<>>) = 0
    BY EmptySeq
  <2>3. Discard(sink).failed = FALSE
    BY DEF Discard
  <2>4. SinkNow(b).failed \in BOOLEAN
    BY <2>3 DEF SinkNow, ReplayInv, TypeOK
  <2>5. SinkNow(b).graph = committed /\ SinkNow(b).before = <<>>
    BY <1>3, Withdrawing
  <2>6. Len(SinkNow(b).before) <= 1
    BY <2>2, <2>5
  <2> QED
    BY <1>1, <1>2, <2>1, <2>2, <2>4, <2>5, <2>6, Zenon
<1>4. CASE StreamingNow(b) = b
  BY <1>1, <1>2, <1>4, Withdrawing DEF ReplayInv, TypeOK
<1> QED
  BY <1>3, <1>4, Withdrawing

-----------------------------------------------------------------------------
(* Each record keeps the invariant.                                        *)

\* Below the fence replay knows no transaction.
LEMMA FencedIdle ==
  ASSUME ReplayInv, status = "reading", Fenced
  PROVE  pending = {} /\ streaming = 0
<1>1. pending = {}
  BY DEF ReplayInv, TypeOK, Begun, Fenced, lsn
<1> QED
  BY <1>1 DEF ReplayInv, Provisional, Tracked

\* Replay starts with nothing.
LEMMA Initially ==
  ASSUME Init
  PROVE  ReplayInv
<1>1. <<>> \in Seq(Lsns) /\ <<>> \in Seq(Seq(Lsns)) /\ Len(<<>>) = 0
  OBVIOUS
<1>2. TypeOK
  BY <1>1, ReplayAssumption DEF Init, TypeOK
<1>3. Begun /\ Buffered
  BY DEF Init, Begun, Buffered, Tracked, Lsns
<1>4. Provisional /\ Outgrown /\ Runs
  BY DEF Init, Provisional, Outgrown, Runs, Tracked
<1> QED
  BY <1>2, <1>3, <1>4 DEF Init, ReplayInv, ReplaysCommitted, OwnLogsReplay

\* TxBegin: a new transaction, empty, and no other one streaming.
LEMMA TxBeginKeeps ==
  ASSUME ReplayInv, TxBegin
  PROVE  ReplayInv'
<1> USE DEF ReplayInv
<1>1. /\ status = "reading" /\ lsn \in Lsns /\ last_lsn \in Nat /\ lsn = last_lsn + 1
      /\ last_lsn' = lsn /\ lsn \notin pending /\ lsn # streaming
      /\ streaming \in 0 .. MaxLsn /\ fence \in Nat
  <2>1. /\ status = "reading" /\ lsn \in Lsns /\ last_lsn \in Nat /\ lsn = last_lsn + 1
        /\ last_lsn' = lsn /\ streaming \in 0 .. MaxLsn /\ fence \in Nat
    BY ReplayAssumption DEF TxBegin, Read, TypeOK, lsn
  <2>2. lsn \notin pending
    BY <2>1 DEF Begun
  <2>3. lsn # 0
    BY <2>1 DEF Lsns
  <2>4. lsn # streaming
    BY <2>1, <2>2, <2>3 DEF Provisional, Tracked
  <2> QED
    BY <2>1, <2>2, <2>4
<1>2. /\ StreamingNow(lsn) = 0
      /\ SinkNow(lsn).graph = committed /\ SinkNow(lsn).before = <<>>
      /\ ~SinkNow(lsn).failed
  <2>1. StreamingNow(lsn) # lsn
    BY <1>1, Withdrawing
  <2> QED
    BY <1>1, <2>1, Withdrawing
<1>3. CASE Fenced /\ UNCHANGED <<state, sink>>
  <2> USE <1>3 DEF state
  <2>1. TypeOK'
    BY <1>1 DEF TxBegin, Read, TypeOK, Lsns
  <2>2. Begun'
    BY <1>1 DEF TxBegin, Read, Begun, Fenced, Lsns
  <2>3. pending = {} /\ streaming = 0
    BY <1>1, FencedIdle
  <2>4. Buffered' /\ Provisional' /\ Outgrown'
    BY <2>3 DEF TxBegin, Read, Buffered, Provisional, Outgrown, Tracked, Good
  <2>5. Runs'
    BY <1>1, <2>3 DEF TxBegin, Read, Runs, Begun, TypeOK
  <2>6. ReplaysCommitted' /\ OwnLogsReplay'
    BY <1>1 DEF TxBegin, Read, ReplaysCommitted, OwnLogsReplay
  <2> QED
    BY <2>1, <2>2, <2>4, <2>5, <2>6
<1>4. CASE /\ ~Fenced
           /\ withdraw_other_than(lsn)
           /\ pending' = pending \cup {lsn}
           /\ UNCHANGED <<events, bytes, checkpoint_lsn_observed>>
  <2>1. TypeOK'
    <3>1. /\ streaming' \in 0 .. MaxLsn /\ withdrawn' \subseteq Lsns
          /\ sink'.graph \in Seq(Lsns) /\ sink'.failed \in BOOLEAN
          /\ sink'.before \in Seq(Seq(Lsns)) /\ Len(sink'.before) <= 1
      BY <1>1, <1>4, WithdrawingType, Zenon DEF withdraw_other_than
    <3>2. open' \subseteq Lsns /\ pending' \subseteq Lsns /\ last_lsn' \in 0 .. MaxLsn
      BY <1>1, <1>4 DEF TxBegin, TypeOK, Lsns
    <3> QED
      BY <1>4, <3>1, <3>2 DEF TxBegin, Read, TypeOK
  <2>2. Begun'
    BY <1>1, <1>4, WithdrawnThen
    DEF withdraw_other_than, TxBegin, Read, Begun, Fenced, Lsns
  <2>3. Buffered'
    <3>1. logged[lsn] = <<>> /\ events[lsn] = <<>>
      BY <1>1 DEF Begun
    <3>2. Good(<<>>)
      BY DEF Good
    <3>3. \A b \in Tracked' : b = lsn \/ (b \in Tracked /\ b # streaming)
      <4>1. /\ withdrawn \subseteq WithdrawnNow(lsn)
            /\ streaming \notin {0, lsn} => streaming \in WithdrawnNow(lsn)
        BY <1>1, WithdrawnThen
      <4>2. 0 \notin pending
        BY DEF TypeOK, Lsns
      <4> QED
        BY <1>1, <1>4, <4>1, <4>2 DEF withdraw_other_than, Tracked
    <3> QED
      BY <1>4, <3>1, <3>2, <3>3 DEF TxBegin, Read, Buffered, Good
  <2>4. Provisional'
    BY <1>2, <1>4 DEF withdraw_other_than, TxBegin, Provisional
  <2>5. Outgrown'
    <3>1. bytes[lsn] = 0 /\ size[lsn] \in Nat
      BY <1>1 DEF Begun, TypeOK
    <3>2. Tracked' \subseteq Tracked \cup {lsn}
      BY <1>1, <1>4, WithdrawnThen DEF withdraw_other_than, Tracked
    <3> QED
      BY <1>1, <1>2, <1>4, <3>1, <3>2, WithdrawnThen, ReplayAssumption
      DEF withdraw_other_than, TxBegin, Outgrown
  <2>6. Runs'
    <3>1. lsn \notin WithdrawnNow(lsn)
      BY <1>1, WithdrawnThen
    <3> QED
      BY <1>1, <1>2, <1>4, <3>1
      DEF withdraw_other_than, TxBegin, Read, Runs, TypeOK
  <2>7. ReplaysCommitted' /\ OwnLogsReplay'
    BY <1>1 DEF TxBegin, Read, ReplaysCommitted, OwnLogsReplay
  <2> QED
    BY <2>1, <2>2, <2>3, <2>4, <2>5, <2>6, <2>7
<1> QED
  BY <1>3, <1>4 DEF TxBegin

\* What a Mutation does to the log, whatever replay makes of it.
LEMMA MutationLog ==
  ASSUME ReplayInv, NEW b \in Lsns, NEW len \in 1 .. Budget, Mutation(b, len)
  PROVE  /\ status = "reading" /\ b \in open /\ b <= last_lsn
         /\ last_lsn \in Nat /\ last_lsn' = last_lsn + 1 /\ last_lsn' \in Lsns
         /\ lsn = last_lsn' /\ fence \in Nat
         /\ logged' \in [Lsns -> Seq(Lsns)] /\ logged'[b] = Append(logged[b], lsn)
         /\ size' \in [Lsns -> Nat] /\ size'[b] = size[b] + len
         /\ \A c \in Lsns \ {b} : logged'[c] = logged[c] /\ size'[c] = size[c]
         /\ \A c \in Lsns : size'[c] >= size[c]
<1>1. /\ status = "reading" /\ b \in open /\ last_lsn' = last_lsn + 1
      /\ lsn = last_lsn' /\ lsn \in Lsns
      /\ logged' = [logged EXCEPT ![b] = Append(@, lsn)]
      /\ size' = [size EXCEPT ![b] = @ + len]
  BY DEF Mutation, Read, MayContinue, lsn
<1>2. /\ last_lsn \in Nat /\ fence \in Nat /\ b <= last_lsn
      /\ logged \in [Lsns -> Seq(Lsns)] /\ size \in [Lsns -> Nat] /\ len \in Nat
  <2>1. /\ last_lsn \in 0 .. MaxLsn /\ fence \in 0 .. MaxLsn
        /\ logged \in [Lsns -> Seq(Lsns)] /\ size \in [Lsns -> Nat]
    BY DEF ReplayInv, TypeOK
  <2>2. b \in 1 .. last_lsn
    BY <1>1 DEF ReplayInv, Begun
  <2> QED
    BY <2>1, <2>2, ReplayAssumption
<1>3. logged' \in [Lsns -> Seq(Lsns)]
  BY <1>1, <1>2
<1>4. size' \in [Lsns -> Nat] /\ \A c \in Lsns : size'[c] >= size[c]
  BY <1>1, <1>2
<1> QED
  BY <1>1, <1>2, <1>3, <1>4

\* A Mutation that replay skips: below the fence, or one it refuses.
LEMMA MutationIdle ==
  ASSUME ReplayInv, NEW b \in Lsns, NEW len \in 1 .. Budget, Mutation(b, len),
         UNCHANGED <<state, sink>>, b \notin pending,
         \/ Fenced /\ UNCHANGED status
         \/ ~Fenced /\ status' = "failed"
  PROVE  ReplayInv'
<1> USE DEF ReplayInv
<1>1. UNCHANGED <<open, committed, marked, fence, bad, primitives, state, sink>>
  BY DEF Mutation, Read
<1>0. /\ status = "reading" /\ b \in open /\ last_lsn \in Nat
      /\ last_lsn' = last_lsn + 1 /\ last_lsn' \in Lsns /\ lsn = last_lsn'
      /\ fence \in Nat /\ Budget \in Nat
      /\ logged' \in [Lsns -> Seq(Lsns)] /\ size' \in [Lsns -> Nat]
      /\ size \in [Lsns -> Nat] /\ \A c \in Lsns : size'[c] >= size[c]
  BY MutationLog, ReplayAssumption DEF TypeOK
<1> HIDE DEF ReplayInv
<1>9. Budget \in Nat /\ \A c \in Lsns : size[c] >= Budget => size'[c] >= Budget
  <2>1. Budget \in Nat
    BY ReplayAssumption
  <2>2. \A c \in Lsns : size[c] \in Nat /\ size'[c] \in Nat /\ size'[c] >= size[c]
    BY <1>0
  <2> QED
    BY <2>1, <2>2
<1> USE DEF ReplayInv
<1>2. TypeOK'
  <2>1. last_lsn' \in 0 .. MaxLsn /\ status' \in {"reading", "done", "failed"}
    BY <1>0 DEF Lsns
  <2> QED
    BY <1>0, <1>1, <2>1 DEF TypeOK, state
<1>3. Begun'
  <2>1. open' \subseteq 1 .. last_lsn' /\ pending' \subseteq fence' + 1 .. last_lsn'
        /\ withdrawn' \subseteq 1 .. last_lsn'
    BY <1>0, <1>1 DEF Begun, state
  <2>2. \A c \in Lsns : c > last_lsn' =>
          logged'[c] = <<>> /\ events'[c] = <<>> /\ bytes'[c] = 0
    <3>1. \A c \in Lsns : c > last_lsn =>
            logged[c] = <<>> /\ events[c] = <<>> /\ bytes[c] = 0
      BY DEF Begun
    <3>2. \A c \in Lsns : c > last_lsn' => c > last_lsn /\ c # b
      BY MutationLog DEF Lsns
    <3>3. \A c \in Lsns \ {b} : logged'[c] = logged[c]
      BY MutationLog
    <3>4. UNCHANGED <<events, bytes>>
      BY DEF state
    <3> QED
      BY <3>1, <3>2, <3>3, <3>4
  <2> QED
    BY <1>1, <2>1, <2>2, MutationLog DEF Begun, state
<1>4. Buffered'
  <2>1. \A c \in pending : c \in Lsns \ {b}
    BY DEF TypeOK
  <2> QED
    <3>1. \A c \in pending : logged'[c] = logged[c]
      BY <2>1, MutationLog
    <3>2. UNCHANGED <<pending, withdrawn, streaming, events, bad>>
      BY <1>1 DEF state
    <3> HIDE DEF ReplayInv
    <3> QED
      BY <3>1, <3>2 DEF Buffered, Tracked, Good, ReplayInv
<1>5. Provisional' /\ Outgrown'
  <2>1. \A c \in pending : c \in Lsns \ {b}
    BY DEF TypeOK
  <2>2. status' = "reading" => Provisional'
    <3>1. streaming # 0 => streaming \in pending /\ streaming \in Lsns \ {b}
      BY <2>1, MutationLog DEF Provisional, Tracked
    <3> QED
      BY <1>1, <3>1, MutationLog DEF Provisional, Tracked, state, Good
  <2>3. \A c \in withdrawn : size'[c] >= Budget
    BY <1>9 DEF Outgrown, TypeOK
  <2>4. streaming # 0 => size'[streaming] >= Budget
    <3>1. streaming # 0 => streaming \in Lsns
      BY DEF TypeOK, Lsns
    <3>2. streaming # 0 => size[streaming] >= Budget
      BY DEF Outgrown
    <3> QED
      BY <1>9, <3>1, <3>2
  <2>5. Outgrown'
    BY <1>1, <2>1, <2>3, <2>4, MutationLog DEF Outgrown, Tracked, state
  <2> QED
    BY <2>2, <2>5 DEF Provisional
<1>6. Runs'
  <2>1. marked <= last_lsn => marked <= last_lsn'
    BY <1>0 DEF TypeOK
  <2> QED
    BY <1>0, <1>1, <2>1 DEF Runs, state
<1>7. OwnLogsReplay'
  <2>1. ~primitives /\ ~Fenced => b \in pending
    <3>1. ~primitives => (b <= fence <=> Fenced)
      BY DEF Mutation, MayContinue
    <3>2. b \in Nat /\ (b > fence => b \in pending)
      BY <1>0 DEF Begun, Lsns
    <3> QED
      BY <1>0, <3>1, <3>2
  <2> QED
    BY <1>0, <1>1, <2>1 DEF OwnLogsReplay
<1>8. ReplaysCommitted'
  BY MutationLog DEF ReplaysCommitted
<1> QED
  BY <1>2, <1>3, <1>4, <1>5, <1>6, <1>7, <1>8

\* A Mutation of a transaction under way: its event is buffered, or everything
\* buffered is handed over.
LEMMA MutationAdds ==
  ASSUME ReplayInv, NEW b \in Lsns, NEW len \in 1 .. Budget, Mutation(b, len),
         ~Fenced, b \in pending, status' = status
  PROVE  ReplayInv'
<1> DEFINE full == bytes[b] + len >= Budget /\ b \notin WithdrawnNow(b)
           evs == Append(events[b], lsn)
<1>1. /\ status = "reading" /\ b \in open /\ last_lsn \in Nat
      /\ last_lsn' = last_lsn + 1 /\ last_lsn' \in Lsns /\ lsn = last_lsn'
      /\ fence \in Nat /\ Budget \in Nat \ {0}
  BY MutationLog, ReplayAssumption
<1>2. /\ UNCHANGED <<fence, bad, primitives, open, committed, marked, pending,
                     checkpoint_lsn_observed, status>>
      /\ withdrawn' = WithdrawnNow(b)
      /\ bytes' = [bytes EXCEPT ![b] = BytesAfter(b, len)]
      /\ full => /\ sink' = Partial(SinkNow(b), evs) /\ streaming' = b
                 /\ events' = [events EXCEPT ![b] = <<>>]
      /\ ~full => /\ sink' = SinkNow(b) /\ streaming' = StreamingNow(b)
                  /\ events' = [events EXCEPT ![b] = evs]
  BY <1>1 DEF Mutation, Read, Refuse, withdraw_other_than
<1>3. /\ logged' \in [Lsns -> Seq(Lsns)] /\ logged'[b] = Append(logged[b], lsn)
      /\ \A c \in Lsns \ {b} : logged'[c] = logged[c]
  BY MutationLog
<1>4. /\ logged \in [Lsns -> Seq(Lsns)] /\ events \in [Lsns -> Seq(Lsns)]
      /\ lsn \in Lsns /\ committed \in Seq(Lsns) /\ evs \in Seq(Lsns)
      /\ pending \subseteq Lsns /\ b # 0
  <2>1. /\ logged \in [Lsns -> Seq(Lsns)] /\ events \in [Lsns -> Seq(Lsns)]
        /\ committed \in Seq(Lsns) /\ pending \subseteq Lsns
    BY DEF ReplayInv, TypeOK
  <2>2. lsn \in Lsns /\ b # 0
    BY <1>1 DEF Lsns
  <2>3. events[b] \in Seq(Lsns)
    BY <2>1
  <2>4. evs \in Seq(Lsns)
    BY <2>2, <2>3, AppendProperties
  <2> QED
    BY <2>1, <2>2, <2>4
<1>5. /\ SinkNow(b).graph \in Seq(Lsns) /\ SinkNow(b).failed \in BOOLEAN
      /\ SinkNow(b).before \in Seq(Seq(Lsns)) /\ Len(SinkNow(b).before) <= 1
      /\ StreamingNow(b) \in 0 .. MaxLsn
  BY <1>1, WithdrawingType
<1>6. /\ StreamingNow(b) \in {0, b}
      /\ StreamingNow(b) = 0 =>
           /\ SinkNow(b).graph = committed /\ SinkNow(b).before = <<>>
           /\ ~SinkNow(b).failed
      /\ StreamingNow(b) = b =>
           SinkNow(b) = sink /\ WithdrawnNow(b) = withdrawn /\ streaming = b
      /\ streaming = b => StreamingNow(b) = b
  BY <1>1, Withdrawing DEF StreamingNow, Other
<1>7. /\ withdrawn \subseteq WithdrawnNow(b)
      /\ WithdrawnNow(b) \subseteq 1 .. last_lsn
      /\ b \in WithdrawnNow(b) <=> b \in withdrawn
      /\ \A c \in WithdrawnNow(b) : size[c] >= Budget
      /\ streaming \notin {0, b} => streaming \in WithdrawnNow(b)
      /\ streaming \in {0, b} => WithdrawnNow(b) = withdrawn
  BY <1>1, WithdrawnThen
<1>8. /\ \A c \in Lsns : size[c] \in Nat /\ size'[c] \in Nat /\ size'[c] >= size[c]
      /\ size' \in [Lsns -> Nat] /\ size'[b] = size[b] + len
      /\ bytes \in [Lsns -> Nat] /\ len \in Nat
  <2>1. size \in [Lsns -> Nat] /\ bytes \in [Lsns -> Nat]
    BY DEF ReplayInv, TypeOK
  <2>2. /\ size' \in [Lsns -> Nat] /\ size'[b] = size[b] + len
        /\ \A c \in Lsns : size'[c] >= size[c]
    BY MutationLog
  <2>3. len \in Nat
    BY <1>1
  <2> QED
    BY <2>1, <2>2, <2>3
<1>9. Good(logged'[b]) => Good(logged[b]) /\ Good(evs)
  <2>1. Good(logged[b]) => Good(events[b])
    BY DEF ReplayInv, Buffered
  <2>2. /\ Good(logged'[b]) <=> Good(logged[b]) /\ lsn \notin bad
        /\ Good(evs) <=> Good(events[b]) /\ lsn \notin bad
    <3>1. logged[b] \in Seq(Lsns) /\ events[b] \in Seq(Lsns) /\ lsn \in Lsns
      BY <1>4
    <3> QED
      BY <1>3, <3>1, GoodAppend
  <2> QED
    BY <2>1, <2>2
<1> HIDE DEF evs
<1>10. TypeOK'
  <2>1. bytes' \in [Lsns -> Nat]
    BY <1>2, <1>8 DEF BytesAfter
  <2>2. events' \in [Lsns -> Seq(Lsns)]
    <3>1. \E new \in Seq(Lsns) : events' = [events EXCEPT ![b] = new]
      <4>1. <<>> \in Seq(Lsns)
        OBVIOUS
      <4> QED
        BY <1>2, <1>4, <4>1, Zenon
    <3> QED
      BY <1>4, <3>1
  <2>3. /\ sink'.graph \in Seq(Lsns) /\ sink'.failed \in BOOLEAN
        /\ sink'.before \in Seq(Seq(Lsns)) /\ Len(sink'.before) <= 1
    <3>1. CASE full
      <4>1. replay_tx(SinkNow(b).graph, evs) \in Seq(Lsns)
        BY <1>4, <1>5, ReplayTxType
      <4>2. <<SinkNow(b).graph>> \in Seq(Seq(Lsns)) /\ Len(<<SinkNow(b).graph>>) <= 1
        BY <1>5
      <4>3. /\ sink'.graph \in {SinkNow(b).graph, replay_tx(SinkNow(b).graph, evs)}
            /\ sink'.before \in {SinkNow(b).before, <<SinkNow(b).graph>>}
        BY <1>2, <3>1 DEF Partial
      <4>4. sink'.failed = (SinkNow(b).failed \/ ~Good(evs))
        BY <1>2, <3>1 DEF Partial
      <4>5. sink'.graph \in Seq(Lsns) /\ sink'.failed \in BOOLEAN
        BY <1>5, <4>1, <4>3, <4>4, Zenon
      <4>6. sink'.before \in Seq(Seq(Lsns))
        BY <1>5, <4>2, <4>3, Zenon
      <4>7. Len(sink'.before) <= 1
        BY <1>5, <4>2, <4>3, Zenon
      <4> QED
        BY <4>5, <4>6, <4>7
    <3>2. CASE ~full
      BY <1>2, <1>5, <3>2
    <3> QED
      BY <3>1, <3>2
  <2>4. streaming' \in 0 .. MaxLsn /\ withdrawn' \subseteq Lsns /\ last_lsn' \in 0 .. MaxLsn
    <3>1. WithdrawnNow(b) \subseteq Lsns /\ b \in 0 .. MaxLsn
      BY <1>1, WithdrawingType DEF Lsns
    <3>2. last_lsn' \in 0 .. MaxLsn
      BY <1>1 DEF Lsns
    <3> QED
      BY <1>2, <1>5, <3>1, <3>2
  <2> QED
    BY <1>2, <1>3, <1>8, <2>1, <2>2, <2>3, <2>4 DEF ReplayInv, TypeOK
<1>11. Begun'
  <2>1. /\ open \subseteq 1 .. last_lsn /\ pending \subseteq fence + 1 .. last_lsn
        /\ \A c \in Lsns : c > last_lsn =>
             logged[c] = <<>> /\ events[c] = <<>> /\ bytes[c] = 0
        /\ \A c \in open : c > fence => c \in pending
    BY <1>1 DEF ReplayInv, Begun
  <2>2. /\ open' \subseteq 1 .. last_lsn' /\ pending' \subseteq fence' + 1 .. last_lsn'
        /\ withdrawn' \subseteq 1 .. last_lsn'
    BY <1>1, <1>2, <1>7, <2>1
  <2>3. ASSUME NEW c \in Lsns, c > last_lsn'
        PROVE  logged'[c] = <<>> /\ events'[c] = <<>> /\ bytes'[c] = 0
    <3>1. c # b /\ c > last_lsn
      BY <1>1, <2>1, <2>3 DEF Lsns
    <3> QED
      BY <1>2, <1>3, <1>4, <1>8, <2>1, <3>1
  <2> QED
    BY <1>2, <2>1, <2>2, <2>3 DEF Begun
<1>12. Buffered'
  <2>1. ASSUME NEW c \in pending, c \notin WithdrawnNow(b), c # streaming'
        PROVE  events'[c] = logged'[c]
    <3>1. CASE c = b
      <4>1. ~full /\ streaming' = 0 /\ streaming # b /\ b \in Tracked
        BY <1>2, <1>4, <1>6, <1>7, <2>1, <3>1 DEF Tracked
      <4>2. events[b] = logged[b]
        BY <4>1 DEF ReplayInv, Buffered
      <4> QED
        BY <1>2, <1>3, <1>4, <3>1, <4>1, <4>2 DEF evs
    <3>2. CASE c # b
      <4>1. c \in Tracked /\ c # streaming
        BY <1>4, <1>7, <2>1, <3>2 DEF Tracked, Lsns
      <4>2. events[c] = logged[c] /\ c \in Lsns
        BY <1>4, <4>1 DEF ReplayInv, Buffered
      <4> QED
        BY <1>2, <1>3, <1>4, <3>2, <4>2
    <3> QED
      BY <3>1, <3>2
  <2>2. ASSUME NEW c \in pending, Good(logged'[c])
        PROVE  Good(events'[c])
    <3>1. CASE c = b
      <4>1. events'[b] = <<>> \/ events'[b] = evs
        BY <1>2, <1>4
      <4>2. Good(<<>>)
        BY DEF Good
      <4> QED
        BY <1>9, <2>2, <3>1, <4>1, <4>2
    <3>2. CASE c # b
      <4>1. logged'[c] = logged[c] /\ events'[c] = events[c]
        BY <1>2, <1>3, <1>4, <3>2
      <4> QED
        BY <2>2, <4>1 DEF ReplayInv, Buffered
    <3> QED
      BY <3>1, <3>2
  <2>3. \A c \in pending : Good(logged[c])' => Good(events[c])'
    BY <1>2, <2>2 DEF Good
  <2> QED
    BY <1>2, <2>1, <2>3 DEF Buffered, Tracked
<1>13. Provisional'
  <2>1. CASE full
    <3>1. /\ streaming' = b /\ b \in Tracked' /\ events'[b] = <<>>
          /\ sink' = Partial(SinkNow(b), evs) /\ committed' = committed
      BY <1>2, <1>4, <2>1 DEF Tracked
    <3>2. CASE StreamingNow(b) = 0
      <4>1. b \in Tracked /\ b # streaming
        BY <1>4, <1>6, <1>7, <2>1, <3>2 DEF Tracked
      <4>2. evs = logged'[b]
        BY <1>3, <4>1 DEF ReplayInv, Buffered, evs
      <4>3. /\ sink'.before = <<committed>>
            /\ sink'.graph = replay_tx(committed, evs)
            /\ sink'.failed <=> ~Good(evs)
        BY <1>6, <3>1, <3>2 DEF Partial
      <4>4. ~sink'.failed => sink'.graph = committed \o logged'[b]
        BY <1>4, <4>2, <4>3, ReplayTxWhole
      <4>5. committed \o logged'[b] \in Seq(Lsns) /\ sink'.graph \in Seq(Lsns)
        BY <1>3, <1>4, <4>3, ReplayTxType, ConcatProperties
      <4>6. sink'.graph \o <<>> = sink'.graph
        BY <4>5, ConcatEmptySeq
      <4>7. sink'.failed => ~Good(logged[b])'
        BY <1>2, <4>2, <4>3 DEF Good
      <4> QED
        BY <1>4, <3>1, <4>3, <4>4, <4>6, <4>7 DEF Provisional
    <3>3. CASE StreamingNow(b) = b
      <4>1. /\ streaming = b /\ SinkNow(b) = sink /\ sink.before = <<committed>>
            /\ ~sink.failed => sink.graph \o events[b] = committed \o logged[b]
            /\ sink.failed => ~Good(logged[b])
        BY <1>1, <1>4, <1>6, <3>3 DEF ReplayInv, Provisional
      <4>2. /\ sink'.before = <<committed>>
            /\ sink'.failed <=> sink.failed \/ ~Good(evs)
            /\ ~sink.failed => sink'.graph = replay_tx(sink.graph, evs)
        <5>1. sink' = Partial(sink, evs) /\ sink.before # <<>>
          BY <3>1, <4>1
        <5> QED
          BY <4>1, <5>1 DEF Partial
      <4>3. sink'.failed => ~Good(logged'[b])
        BY <1>9, <4>1, <4>2
      <4>4. ASSUME ~sink'.failed
            PROVE  sink'.graph \o <<>> = committed \o logged'[b]
        <5>1. sink.graph \in Seq(Lsns) /\ sink'.graph = sink.graph \o evs
          <6>1. sink.graph \in Seq(Lsns) /\ Good(evs) /\ ~sink.failed
            BY <1>5, <4>1, <4>2, <4>4
          <6> QED
            BY <1>4, <4>2, <6>1, ReplayTxWhole
        <5>2. sink.graph \o evs = Append(sink.graph \o events[b], lsn)
          <6>1. events[b] \in Seq(Lsns) /\ lsn \in Lsns
            BY <1>4
          <6> QED
            BY <5>1, <6>1, ConcatAppend DEF evs
        <5>3. Append(committed \o logged[b], lsn) = committed \o logged'[b]
          <6>1. logged[b] \in Seq(Lsns) /\ lsn \in Lsns
            BY <1>4
          <6>2. Append(committed \o logged[b], lsn) = committed \o Append(logged[b], lsn)
            BY <1>4, <6>1, ConcatAppend
          <6> QED
            BY <1>3, <6>2
        <5>4. sink'.graph = committed \o logged'[b]
          BY <4>1, <4>2, <4>4, <5>1, <5>2, <5>3
        <5>5. sink'.graph \in Seq(Lsns)
          BY <1>4, <5>1, ConcatProperties
        <5> QED
          BY <5>4, <5>5, ConcatEmptySeq
      <4>5. sink'.failed => ~Good(logged[b])'
        BY <1>2, <4>3 DEF Good
      <4> QED
        BY <1>4, <3>1, <4>2, <4>4, <4>5 DEF Provisional
    <3> QED
      BY <1>6, <3>2, <3>3
  <2>2. CASE ~full
    <3>1. /\ sink' = SinkNow(b) /\ streaming' = StreamingNow(b)
          /\ events'[b] = evs /\ committed' = committed
      BY <1>2, <1>4, <2>2
    <3>2. CASE StreamingNow(b) = 0
      BY <1>4, <1>6, <3>1, <3>2 DEF Provisional
    <3>3. CASE StreamingNow(b) = b
      <4>1. /\ streaming = b /\ sink' = sink /\ sink.before = <<committed>>
            /\ ~sink.failed => sink.graph \o events[b] = committed \o logged[b]
            /\ sink.failed => ~Good(logged[b])
            /\ b \in Tracked
        BY <1>1, <1>4, <1>6, <3>1, <3>3 DEF ReplayInv, Provisional
      <4>2. b \in Tracked'
        BY <1>2, <1>7, <4>1 DEF Tracked
      <4>3. ~sink.failed => sink.graph \o evs = committed \o logged'[b]
        <5>1. /\ events[b] \in Seq(Lsns) /\ logged[b] \in Seq(Lsns) /\ lsn \in Lsns
              /\ sink.graph \in Seq(Lsns) /\ committed \in Seq(Lsns)
          BY <1>4 DEF ReplayInv, TypeOK
        <5>2. sink.graph \o evs = Append(sink.graph \o events[b], lsn)
          BY <5>1, ConcatAppend DEF evs
        <5>3. Append(committed \o logged[b], lsn) = committed \o logged'[b]
          <6>1. Append(committed \o logged[b], lsn) = committed \o Append(logged[b], lsn)
            BY <5>1, ConcatAppend
          <6> QED
            BY <1>3, <6>1
        <5> QED
          BY <4>1, <5>2, <5>3
      <4>4. sink.failed => ~Good(logged[b])'
        <5>1. sink.failed => ~Good(logged'[b])
          BY <1>9, <4>1
        <5> QED
          BY <1>2, <5>1 DEF Good
      <4> QED
        BY <1>4, <3>1, <3>3, <4>1, <4>2, <4>3, <4>4 DEF Provisional
    <3> QED
      BY <1>6, <3>2, <3>3
  <2> QED
    BY <2>1, <2>2
<1>14. Outgrown'
  <2>1. /\ \A c \in pending : bytes[c] <= size[c]
        /\ \A c \in Tracked : bytes[c] < Budget
        /\ streaming # 0 => size[streaming] >= Budget
    BY DEF ReplayInv, Outgrown
  <2>2. \A c \in pending \ {b} : bytes'[c] = bytes[c]
    BY <1>2, <1>4, <1>8
  <2>3. /\ bytes'[b] = BytesAfter(b, len) /\ bytes[b] \in Nat /\ size[b] \in Nat
        /\ bytes[b] <= size[b]
    BY <1>2, <1>8, <2>1
  <2>4. /\ bytes'[b] <= size'[b]
        /\ b \notin WithdrawnNow(b) => bytes'[b] < Budget
        /\ full => size'[b] >= Budget
    BY <1>1, <1>8, <2>3 DEF BytesAfter
  <2>5. \A c \in pending : bytes'[c] <= size'[c]
    <3>1. ASSUME NEW c \in pending, c # b
          PROVE  bytes'[c] <= size'[c]
      <4>1. bytes[c] \in Nat /\ size[c] \in Nat /\ size'[c] \in Nat /\ size'[c] >= size[c]
        BY <1>4, <1>8
      <4>2. bytes'[c] = bytes[c] /\ bytes[c] <= size[c]
        BY <2>1, <2>2, <3>1
      <4> QED
        BY <4>1, <4>2
    <3> QED
      BY <2>4, <3>1
  <2>6. \A c \in Tracked' : bytes'[c] < Budget
    BY <1>2, <1>7, <2>1, <2>2, <2>4 DEF Tracked
  <2>7. \A c \in Lsns : size[c] >= Budget => size'[c] >= Budget
    BY <1>1, <1>8
  <2>8. \A c \in withdrawn' : size'[c] >= Budget
    <3>1. WithdrawnNow(b) \subseteq Lsns
      BY <1>1, WithdrawingType
    <3> QED
      BY <1>2, <1>7, <2>7, <3>1
  <2>9. streaming' # 0 => size'[streaming'] >= Budget
    BY <1>2, <1>4, <1>6, <2>1, <2>4, <2>7
  <2> QED
    BY <1>2, <2>5, <2>6, <2>8, <2>9 DEF Outgrown
<1>15. Runs'
  <2>1. SUFFICES ASSUME ~primitives
                 PROVE  Runs'
    BY <1>2 DEF Runs
  <2>2. /\ \A c \in open : c = b
        /\ b \notin withdrawn /\ streaming \in {0, b}
        /\ checkpoint_lsn_observed <= marked /\ marked <= last_lsn
    BY <1>1, <2>1 DEF ReplayInv, Runs
  <2>3. marked <= last_lsn'
    BY <1>1, <2>2 DEF ReplayInv, TypeOK
  <2>4. withdrawn' = withdrawn /\ streaming' \in {0, b}
    BY <1>2, <1>6, <1>7, <2>2
  <2> QED
    BY <1>2, <2>2, <2>3, <2>4 DEF Runs
<1> QED
  BY <1>1, <1>2, <1>10, <1>11, <1>12, <1>13, <1>14, <1>15
  DEF ReplayInv, ReplaysCommitted, OwnLogsReplay

\* TxCommit: the rest of the transaction joins the graph, and what was
\* provisional with it; or the open fails.
LEMMA TxCommitKeeps ==
  ASSUME ReplayInv, NEW b \in Lsns, TxCommit(b)
  PROVE  ReplayInv'
<1>1. /\ status = "reading" /\ b \in open /\ last_lsn \in Nat
      /\ last_lsn' = last_lsn + 1 /\ last_lsn' \in Lsns /\ lsn = last_lsn'
      /\ open' = open \ {b} /\ fence \in Nat
      /\ UNCHANGED <<fence, bad, primitives, logged, size, marked, events, bytes,
                     checkpoint_lsn_observed>>
      /\ committed' = IF Fenced THEN committed ELSE committed \o logged[b]
  BY ReplayAssumption
  DEF TxCommit, Read, MayContinue, Ended, Refuse, state, lsn, ReplayInv, TypeOK
<1>2. /\ logged \in [Lsns -> Seq(Lsns)] /\ events \in [Lsns -> Seq(Lsns)]
      /\ committed \in Seq(Lsns) /\ pending \subseteq Lsns
      /\ logged[b] \in Seq(Lsns) /\ events[b] \in Seq(Lsns) /\ b # 0
      /\ open \subseteq Lsns
  <2>1. b # 0
    BY DEF Lsns
  <2> QED
    BY <2>1 DEF ReplayInv, TypeOK
<1>3. committed' \in Seq(Lsns)
  <2>1. committed \o logged[b] \in Seq(Lsns)
    BY <1>2, ConcatProperties
  <2> QED
    BY <1>1, <1>2, <2>1
<1>4. last_lsn' \in 0 .. MaxLsn
  BY <1>1 DEF Lsns
<1>5. \/ Fenced /\ pending' = pending \ {b} /\ UNCHANGED <<streaming, withdrawn, sink, status>>
      \/ /\ ~Fenced /\ b \in pending \ withdrawn /\ CommitOk(SinkNow(b), events[b])
         /\ sink' = Commit(SinkNow(b), events[b]) /\ streaming' = 0
         /\ withdrawn' = WithdrawnNow(b) /\ pending' = pending \ {b}
         /\ UNCHANGED status
      \/ /\ ~Fenced /\ ~(b \in pending \ withdrawn /\ CommitOk(SinkNow(b), events[b]))
         /\ status' = "failed" /\ UNCHANGED <<pending, streaming, withdrawn, sink>>
  BY DEF TxCommit, Refuse, state
<1>6. Begun'
  <2>1. pending' \subseteq pending /\ (status' = "reading" => pending \ {b} \subseteq pending')
    BY <1>5
  <2>2. withdrawn' \subseteq 1 .. last_lsn
    BY <1>1, <1>5, WithdrawnThen DEF ReplayInv, Begun
  <2>3. /\ open' \subseteq 1 .. last_lsn' /\ pending' \subseteq fence' + 1 .. last_lsn'
        /\ withdrawn' \subseteq 1 .. last_lsn'
    <3>1. open \subseteq 1 .. last_lsn /\ pending \subseteq fence + 1 .. last_lsn
      BY DEF ReplayInv, Begun
    <3> QED
      BY <1>1, <2>1, <2>2, <3>1
  <2>4. \A c \in Lsns : c > last_lsn' =>
          logged'[c] = <<>> /\ events'[c] = <<>> /\ bytes'[c] = 0
    BY <1>1 DEF ReplayInv, Begun, Lsns
  <2>5. status' = "reading" => \A c \in open' : c > fence' => c \in pending'
    BY <1>1, <2>1 DEF ReplayInv, Begun
  <2> QED
    BY <2>3, <2>4, <2>5 DEF Begun
<1>7. Runs'
  <2>1. CASE primitives
    BY <1>1, <2>1 DEF Runs
  <2>2. CASE ~primitives
    <3>1. \A c \in open : c = b
      BY <1>1, <2>2 DEF ReplayInv, Runs
    <3>2. open' = {}
      BY <1>1, <3>1
    <3>3. marked <= last_lsn'
      BY <1>1, <2>2 DEF ReplayInv, Runs, TypeOK
    <3> QED
      BY <1>1, <2>2, <3>2, <3>3 DEF ReplayInv, Runs
  <2> QED
    BY <2>1, <2>2
<1>8. ReplaysCommitted'
  BY <1>1, <1>5 DEF ReplaysCommitted
<1>9. CASE Fenced /\ pending' = pending \ {b} /\ UNCHANGED <<streaming, withdrawn, sink, status>>
  <2>1. pending = {} /\ pending' = {} /\ streaming = 0 /\ committed' = committed
    BY <1>1, <1>9, FencedIdle
  <2>2. TypeOK'
    BY <1>1, <1>2, <1>4, <1>9, <2>1 DEF ReplayInv, TypeOK
  <2>3. Buffered' /\ Provisional' /\ Outgrown'
    BY <1>1, <1>9, <2>1 DEF ReplayInv, Buffered, Provisional, Outgrown, Tracked
  <2>4. OwnLogsReplay'
    BY <1>1, <1>9 DEF OwnLogsReplay
  <2> QED
    BY <1>6, <1>7, <1>8, <2>2, <2>3, <2>4 DEF ReplayInv
<1>10. CASE /\ ~Fenced /\ b \in pending \ withdrawn /\ CommitOk(SinkNow(b), events[b])
            /\ sink' = Commit(SinkNow(b), events[b]) /\ streaming' = 0
            /\ withdrawn' = WithdrawnNow(b) /\ pending' = pending \ {b}
            /\ UNCHANGED status
  <2>1. /\ sink'.graph = SinkNow(b).graph \o events[b] /\ sink'.before = <<>>
        /\ sink'.failed = FALSE /\ ~SinkNow(b).failed /\ Good(events[b])
    BY <1>10 DEF Commit, CommitOk
  <2>2. sink'.graph = committed \o logged[b]
    <3>1. CASE StreamingNow(b) = 0
      <4>1. SinkNow(b).graph = committed
        BY <1>1, <3>1, Withdrawing
      <4>2. b \in Tracked /\ b # streaming
        BY <1>2, <1>10, <3>1 DEF Tracked, StreamingNow, Other
      <4>3. events[b] = logged[b]
        BY <4>2 DEF ReplayInv, Buffered
      <4> QED
        BY <2>1, <4>1, <4>3
    <3>2. CASE StreamingNow(b) = b
      <4>1. streaming = b /\ SinkNow(b) = sink
        BY <1>1, <3>2, Withdrawing
      <4> QED
        BY <1>1, <1>2, <2>1, <4>1 DEF ReplayInv, Provisional
    <3> QED
      BY <1>1, <3>1, <3>2, Withdrawing
  <2>3. committed' = committed \o logged[b]
    BY <1>1, <1>10
  <2>4. TypeOK'
    <3>1. withdrawn' \subseteq Lsns
      BY <1>1, <1>10, WithdrawingType
    <3>2. <<>> \in Seq(Seq(Lsns)) /\ Len(<<>>) <= 1 /\ 0 \in 0 .. MaxLsn
      BY ReplayAssumption
    <3>3. sink'.graph \in Seq(Lsns)
      BY <1>3, <2>2, <2>3
    <3>4. /\ sink'.failed \in BOOLEAN /\ streaming' \in 0 .. MaxLsn
          /\ sink'.before \in Seq(Seq(Lsns)) /\ Len(sink'.before) <= 1
      BY <1>10, <2>1, <3>2, Zenon
    <3>5. open' \subseteq Lsns /\ pending' \subseteq Lsns
      BY <1>1, <1>2, <1>10
    <3> QED
      BY <1>1, <1>3, <1>4, <1>10, <3>1, <3>3, <3>4, <3>5 DEF ReplayInv, TypeOK
  <2>5. Tracked' \subseteq Tracked \ {b, streaming}
    <3>1. /\ withdrawn \subseteq WithdrawnNow(b)
          /\ streaming \notin {0, b} => streaming \in WithdrawnNow(b)
      BY <1>1, WithdrawnThen
    <3>2. 0 \notin pending
      BY <1>2 DEF Lsns
    <3> QED
      BY <1>10, <3>1, <3>2 DEF Tracked
  <2>6. Buffered' /\ Outgrown'
    BY <1>1, <1>10, <2>5, WithdrawnThen DEF ReplayInv, Buffered, Outgrown, Good
  <2>7. Provisional'
    BY <1>10, <2>1, <2>2, <2>3 DEF Provisional
  <2>8. OwnLogsReplay'
    BY <1>1, <1>10 DEF OwnLogsReplay
  <2> QED
    BY <1>6, <1>7, <1>8, <2>4, <2>6, <2>7, <2>8 DEF ReplayInv
<1>11. CASE /\ ~Fenced /\ ~(b \in pending \ withdrawn /\ CommitOk(SinkNow(b), events[b]))
            /\ status' = "failed" /\ UNCHANGED <<pending, streaming, withdrawn, sink>>
  <2>1. TypeOK'
    BY <1>1, <1>2, <1>3, <1>4, <1>11 DEF ReplayInv, TypeOK
  <2>2. Buffered' /\ Provisional' /\ Outgrown'
    BY <1>1, <1>11 DEF ReplayInv, Buffered, Provisional, Outgrown, Tracked, Good
  <2>3. ASSUME ~primitives
        PROVE  ~Good(committed')
    <3>1. b \in pending /\ b \notin withdrawn /\ streaming \in {0, b}
      <4>1. b > fence => b \in pending
        BY <1>1 DEF ReplayInv, Begun
      <4>2. b <= fence <=> Fenced
        BY <2>3 DEF TxCommit, MayContinue
      <4>3. b \in Nat
        BY DEF Lsns
      <4> QED
        BY <1>1, <1>11, <2>3, <4>1, <4>2, <4>3 DEF ReplayInv, Runs
    <3>2. sink.failed \/ ~Good(events[b])
      BY <1>1, <1>11, <3>1, WithdrawnThen DEF CommitOk
    <3>3. ~Good(logged[b])
      BY <1>1, <3>1, <3>2 DEF ReplayInv, Provisional, Buffered
    <3>4. committed' = committed \o logged[b]
      BY <1>1, <1>11
    <3> QED
      BY <1>2, <3>3, <3>4, GoodConcat
  <2>4. OwnLogsReplay'
    BY <1>1, <2>3 DEF OwnLogsReplay, Good
  <2> QED
    BY <1>6, <1>7, <1>8, <2>1, <2>2, <2>4 DEF ReplayInv
<1> QED
  BY <1>5, <1>9, <1>10, <1>11

\* TxAbort: the transaction is forgotten, and what of it was provisional.
LEMMA TxAbortKeeps ==
  ASSUME ReplayInv, NEW b \in Lsns, TxAbort(b)
  PROVE  ReplayInv'
<1>1. /\ status = "reading" /\ b \in open /\ last_lsn \in Nat
      /\ last_lsn' = last_lsn + 1 /\ last_lsn' \in Lsns /\ open' = open \ {b}
      /\ primitives
      /\ UNCHANGED <<fence, bad, primitives, logged, size, committed, marked, events, bytes,
                     withdrawn, checkpoint_lsn_observed>>
  BY DEF TxAbort, Read, MayContinue, Ended, Refuse, state, lsn, ReplayInv, TypeOK
<1>2. /\ pending' \subseteq pending
      /\ status' \in {"reading", "failed"}
      /\ status' = "reading" => pending' = pending \ {b}
      /\ \/ /\ streaming' = streaming /\ sink' = sink
            /\ status' = "reading" => streaming # b
         \/ streaming = b /\ streaming' = 0 /\ sink' = Discard(sink) /\ b \notin pending'
  <2>1. b # 0
    BY DEF Lsns
  <2>2. Fenced => streaming # b
    BY <1>1, <2>1, FencedIdle
  <2> QED
    BY <1>1, <2>1, <2>2 DEF TxAbort, Refuse, state
<1>3. streaming = b =>
        /\ Discard(sink).graph = committed /\ Discard(sink).before = <<>>
        /\ Discard(sink).failed = FALSE
  <2>1. b # 0
    BY DEF Lsns
  <2> QED
    BY <1>1, <2>1, Discarded DEF Discard
<1>4. TypeOK'
  <2>1. <<>> \in Seq(Seq(Lsns)) /\ Len(<<>>) <= 1 /\ 0 \in 0 .. MaxLsn
    BY ReplayAssumption
  <2>2. committed \in Seq(Lsns)
    BY DEF ReplayInv, TypeOK
  <2>3. /\ sink'.graph \in Seq(Lsns) /\ sink'.failed \in BOOLEAN
        /\ sink'.before \in Seq(Seq(Lsns)) /\ Len(sink'.before) <= 1
        /\ streaming' \in 0 .. MaxLsn
    <3>1. CASE streaming' = streaming /\ sink' = sink
      BY <3>1 DEF ReplayInv, TypeOK
    <3>2. CASE streaming = b /\ streaming' = 0 /\ sink' = Discard(sink)
      BY <1>3, <2>1, <2>2, <3>2, Zenon
    <3> QED
      BY <1>2, <3>1, <3>2
  <2>4. last_lsn' \in 0 .. MaxLsn
    BY <1>1 DEF Lsns
  <2> QED
    BY <1>1, <1>2, <2>3, <2>4 DEF ReplayInv, TypeOK
<1>5. Begun'
  <2>1. /\ open' \subseteq 1 .. last_lsn' /\ pending' \subseteq fence' + 1 .. last_lsn'
        /\ withdrawn' \subseteq 1 .. last_lsn'
    <3>1. /\ open \subseteq 1 .. last_lsn /\ pending \subseteq fence + 1 .. last_lsn
          /\ withdrawn \subseteq 1 .. last_lsn
      BY DEF ReplayInv, Begun
    <3>2. fence \in Nat
      BY ReplayAssumption DEF ReplayInv, TypeOK
    <3> QED
      BY <1>1, <1>2, <3>1, <3>2
  <2>2. \A c \in Lsns : c > last_lsn' =>
          logged'[c] = <<>> /\ events'[c] = <<>> /\ bytes'[c] = 0
    BY <1>1 DEF ReplayInv, Begun, Lsns
  <2>3. status' = "reading" => \A c \in open' : c > fence' => c \in pending'
    BY <1>1, <1>2 DEF ReplayInv, Begun
  <2> QED
    BY <2>1, <2>2, <2>3 DEF Begun
<1>6. Buffered'
  <2>1. \A c \in Tracked' : c # streaming' => c \in Tracked /\ c # streaming
    BY <1>1, <1>2 DEF Tracked
  <2> QED
    BY <1>1, <1>2, <2>1 DEF ReplayInv, Buffered, Good
<1>7. Provisional'
  <2>1. CASE streaming' = streaming /\ sink' = sink
    <3>1. status' = "reading" /\ streaming # 0 => streaming \in Tracked'
      BY <1>1, <1>2, <2>1 DEF ReplayInv, Provisional, Tracked, Lsns
    <3> QED
      BY <1>1, <2>1, <3>1 DEF ReplayInv, Provisional, Good
  <2>2. CASE streaming = b /\ streaming' = 0 /\ sink' = Discard(sink)
    BY <1>1, <1>3, <2>2 DEF Provisional
  <2> QED
    BY <1>2, <2>1, <2>2
<1>8. Outgrown'
  BY <1>1, <1>2 DEF ReplayInv, Outgrown, Tracked
<1>9. Runs' /\ OwnLogsReplay'
  BY <1>1 DEF Runs, OwnLogsReplay, TxAbort
<1>10. ReplaysCommitted'
  BY <1>2 DEF ReplaysCommitted
<1> QED
  BY <1>4, <1>5, <1>6, <1>7, <1>8, <1>9, <1>10 DEF ReplayInv

\* Checkpoint: a marker changes no transaction.
LEMMA CheckpointKeeps ==
  ASSUME ReplayInv, NEW snapshot_lsn \in 0 .. MaxLsn, Checkpoint(snapshot_lsn)
  PROVE  ReplayInv'
<1>1. /\ status = "reading" /\ last_lsn \in Nat
      /\ last_lsn' = last_lsn + 1 /\ last_lsn' \in Lsns /\ lsn = last_lsn'
      /\ marked' = snapshot_lsn /\ open' = IF primitives THEN open ELSE {}
      /\ primitives \/ (marked <= snapshot_lsn /\ snapshot_lsn < lsn)
      /\ UNCHANGED <<fence, bad, primitives, logged, size, committed, pending, events, bytes,
                     streaming, withdrawn, sink>>
  BY DEF Checkpoint, Read, Refuse, state, lsn, ReplayInv, TypeOK
<1>2. \/ status' = status /\ checkpoint_lsn_observed' \in {checkpoint_lsn_observed, snapshot_lsn}
      \/ /\ status' = "failed" /\ checkpoint_lsn_observed' = checkpoint_lsn_observed
         /\ ~(snapshot_lsn <= lsn /\ checkpoint_lsn_observed <= snapshot_lsn)
  BY DEF Checkpoint, Refuse, state
<1>3. TypeOK'
  <2>1. last_lsn' \in 0 .. MaxLsn
    BY <1>1 DEF Lsns
  <2> QED
    BY <1>1, <1>2, <2>1 DEF ReplayInv, TypeOK
<1>4. Begun'
  <2>1. /\ open' \subseteq 1 .. last_lsn' /\ pending' \subseteq fence' + 1 .. last_lsn'
        /\ withdrawn' \subseteq 1 .. last_lsn'
    BY <1>1 DEF ReplayInv, Begun
  <2>2. \A c \in Lsns : c > last_lsn' =>
          logged'[c] = <<>> /\ events'[c] = <<>> /\ bytes'[c] = 0
    BY <1>1 DEF ReplayInv, Begun, Lsns
  <2> QED
    BY <1>1, <2>1, <2>2 DEF ReplayInv, Begun
<1>5. Buffered' /\ Provisional' /\ Outgrown'
  BY <1>1 DEF ReplayInv, Buffered, Provisional, Outgrown, Tracked, Good
<1>6. ASSUME ~primitives
      PROVE  /\ checkpoint_lsn_observed <= marked /\ marked <= snapshot_lsn
             /\ snapshot_lsn < last_lsn' /\ open' = {} /\ marked' = snapshot_lsn
             /\ checkpoint_lsn_observed \in Nat /\ marked \in Nat /\ snapshot_lsn \in Nat
  BY <1>1, <1>6, ReplayAssumption DEF ReplayInv, TypeOK, Runs
<1>7. Runs'
  <2>1. ~primitives => /\ checkpoint_lsn_observed' <= marked' /\ marked' <= last_lsn'
                       /\ open' = {}
    BY <1>1, <1>2, <1>6
  <2> QED
    BY <1>1, <2>1 DEF Runs
<1>8. OwnLogsReplay'
  <2>1. ~primitives => status' = status
    BY <1>1, <1>2, <1>6
  <2> QED
    BY <1>1, <2>1 DEF OwnLogsReplay
<1>9. ReplaysCommitted'
  BY <1>1, <1>2 DEF ReplaysCommitted
<1> QED
  BY <1>3, <1>4, <1>5, <1>7, <1>8, <1>9 DEF ReplayInv

\* finish: what is provisional is put back.
LEMMA FinishKeeps ==
  ASSUME ReplayInv, finish
  PROVE  ReplayInv'
<1>1. /\ status = "reading" /\ status' = "done"
      /\ sink' = IF streaming # 0 THEN Discard(sink) ELSE sink
      /\ UNCHANGED <<fence, bad, primitives, last_lsn, open, logged, size, committed, marked,
                     pending, events, bytes, streaming, withdrawn, checkpoint_lsn_observed>>
  BY DEF finish, log, state
<1>2. sink'.graph = committed /\ sink'.before = <<>> /\ sink'.failed \in BOOLEAN
  <2>1. CASE streaming # 0
    <3>1. Discard(sink).failed = FALSE
      BY DEF Discard
    <3> QED
      BY <1>1, <2>1, <3>1, Discarded
  <2>2. CASE streaming = 0
    BY <1>1, <2>2 DEF ReplayInv, Provisional, TypeOK
  <2> QED
    BY <2>1, <2>2
<1>3. TypeOK'
  <2>1. <<>> \in Seq(Seq(Lsns)) /\ Len(<<>>) <= 1
    OBVIOUS
  <2>2. committed \in Seq(Lsns)
    BY DEF ReplayInv, TypeOK
  <2>3. /\ sink'.graph \in Seq(Lsns) /\ sink'.failed \in BOOLEAN
        /\ sink'.before \in Seq(Seq(Lsns)) /\ Len(sink'.before) <= 1
    BY <1>2, <2>1, <2>2, Zenon
  <2> QED
    BY <1>1, <2>3 DEF ReplayInv, TypeOK
<1>4. Begun' /\ Buffered' /\ Outgrown'
  BY <1>1 DEF ReplayInv, Begun, Buffered, Outgrown, Tracked, Good
<1>5. Provisional' /\ Runs'
  BY <1>1 DEF ReplayInv, Provisional, Runs
<1>6. ReplaysCommitted' /\ OwnLogsReplay'
  BY <1>1, <1>2 DEF ReplaysCommitted, OwnLogsReplay
<1> QED
  BY <1>3, <1>4, <1>5, <1>6 DEF ReplayInv

-----------------------------------------------------------------------------
(* The theorems.                                                           *)

\* Every step keeps the invariant.
LEMMA Inductive ==
  ASSUME ReplayInv, [Next]_vars
  PROVE  ReplayInv'
<1>1. CASE TxBegin
  BY <1>1, TxBeginKeeps
<1>2. ASSUME NEW b \in Lsns, NEW len \in 1 .. Budget, Mutation(b, len)
      PROVE  ReplayInv'
  <2>1. CASE Fenced /\ UNCHANGED <<state, sink, status>>
    <3>1. b \notin pending
      BY <1>2, <2>1, MutationLog, FencedIdle
    <3> QED
      BY <1>2, <2>1, <3>1, MutationIdle
  <2>2. CASE ~Fenced /\ b \notin pending /\ Refuse
    BY <1>2, <2>2, MutationIdle DEF Refuse
  <2>3. CASE ~Fenced /\ b \in pending /\ status' = status
    BY <1>2, <2>3, MutationAdds
  <2> QED
    BY <1>2, <2>1, <2>2, <2>3 DEF Mutation
<1>3. ASSUME NEW b \in Lsns, TxCommit(b) \/ TxAbort(b)
      PROVE  ReplayInv'
  BY <1>3, TxCommitKeeps, TxAbortKeeps
<1>4. ASSUME NEW snapshot_lsn \in 0 .. MaxLsn, Checkpoint(snapshot_lsn)
      PROVE  ReplayInv'
  BY <1>4, CheckpointKeeps
<1>5. CASE finish
  BY <1>5, FinishKeeps
<1>6. CASE UNCHANGED vars
  BY <1>6 DEF vars, log, state, ReplayInv, TypeOK, Begun, Buffered, Provisional,
     Outgrown, Runs, ReplaysCommitted, OwnLogsReplay, Tracked, Good
<1> QED
  BY <1>1, <1>2, <1>3, <1>4, <1>5, <1>6 DEF Next

\* The invariant holds throughout a replay.
LEMMA Invariant == Spec => []ReplayInv
<1>1. Init => ReplayInv
  BY Initially
<1>2. ReplayInv /\ [Next]_vars => ReplayInv'
  BY Inductive
<1> QED
  BY <1>1, <1>2, PTL DEF Spec

\* The state of a replay keeps its types.
THEOREM ReplayTypeCorrect == Spec => []TypeOK
<1>1. ReplayInv => TypeOK
  BY DEF ReplayInv
<1> QED
  BY <1>1, Invariant, PTL

\* A replay that succeeds (replay_segments, open_wal_into) leaves exactly the
\* committed transactions, whole and in commit order, whatever was streamed.
THEOREM ReplayExact == Spec => []ReplaysCommitted
<1>1. ReplayInv => ReplaysCommitted
  BY DEF ReplayInv
<1> QED
  BY <1>1, Invariant, PTL

\* Logs of commit_tx_events and checkpoints are refused for nothing but a
\* committed event that does not apply.
THEOREM OwnLogsAccepted == Spec => []OwnLogsReplay
<1>1. ReplayInv => OwnLogsReplay
  BY DEF ReplayInv
<1> QED
  BY <1>1, Invariant, PTL

\* add_events never leaves a full buffer, but of a withdrawn transaction.
THEOREM BuffersBounded == Spec => []BufferBounded
<1>1. ReplayInv => BufferBounded
  BY DEF ReplayInv, Outgrown, Tracked, BufferBounded
<1> QED
  BY <1>1, Invariant, PTL

\* accept_record refuses a record only for what its own transaction did.
THEOREM RefusalsJustified == Spec => RefusedForCause
<1> DEFINE Cause(b) ==
      (/\ TxCommit(b) \/ TxAbort(b) \/ \E len \in 1 .. Budget : Mutation(b, len)
       /\ status' = "failed")
      => b <= fence \/ ~Good(logged[b]) \/ size[b] >= Budget
<1>1. ASSUME ReplayInv, NEW b \in Lsns
      PROVE  Cause(b)
  <2>1. SUFFICES ASSUME TxCommit(b) \/ TxAbort(b)
                          \/ \E len \in 1 .. Budget : Mutation(b, len),
                        status' = "failed", b > fence, Good(logged[b])
                 PROVE  size[b] >= Budget
    <3>1. b \in Nat /\ fence \in Nat
      BY <1>1, ReplayAssumption DEF ReplayInv, TypeOK, Lsns
    <3> QED
      BY <3>1
  <2>2. status = "reading" /\ b \in open /\ b \in pending
    BY <1>1, <2>1 DEF TxCommit, TxAbort, Mutation, Read, MayContinue, ReplayInv, Begun
  <2>3. TxCommit(b)
    BY <2>1, <2>2 DEF TxAbort, Mutation, Refuse
  <2>4. b \in withdrawn \/ ~CommitOk(SinkNow(b), events[b])
    BY <2>1, <2>2, <2>3 DEF TxCommit
  <2>5. CASE b \in withdrawn
    BY <1>1, <2>5 DEF ReplayInv, Outgrown
  <2>6. CASE ~CommitOk(SinkNow(b), events[b])
    <3>1. Good(events[b])
      BY <1>1, <2>1, <2>2 DEF ReplayInv, Buffered
    <3>2. SinkNow(b).failed
      BY <2>6, <3>1 DEF CommitOk
    <3>3. streaming = b /\ b # 0
      BY <1>1, <2>2, <3>2, Withdrawing DEF Lsns
    <3> QED
      BY <1>1, <3>3 DEF ReplayInv, Outgrown
  <2> QED
    BY <2>4, <2>5, <2>6
<1>2. ReplayInv => [\A b \in Lsns : Cause(b)]_vars
  BY <1>1
<1> QED
  BY <1>2, Invariant, PTL DEF RefusedForCause
=============================================================================
