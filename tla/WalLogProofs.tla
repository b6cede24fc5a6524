---------------------------- MODULE WalLogProofs ----------------------------
(***************************************************************************)
(* Proofs about WalLog for every value of its constants: what is on        *)
(* storage, then what a reopen finds there, whole transactions in the      *)
(* order of their commits in a log that opens, and the refinement.         *)
(***************************************************************************)
EXTENDS WalLogInv, WellFoundedInduction, FiniteSetTheorems, TLAPS

-----------------------------------------------------------------------------
(* Extremal elements.                                                      *)

\* A nonempty set of naturals has a least element (well-foundedness of <).
LEMMA LeastExists ==
  ASSUME NEW S \in SUBSET Nat, S # {}
  PROVE  \E n \in S : \A m \in S : n <= m
<1>1. PICK x \in S : \A y \in S : ~(<<y, x>> \in OpToRel(<, Nat))
  BY NatLessThanWellFounded, WFMin
<1>2. \A y \in S : ~(y < x)
  BY <1>1 DEF OpToRel
<1> QED
  BY <1>2

\* A nonempty set of naturals with an upper bound has a greatest element.
LEMMA GreatestExists ==
  ASSUME NEW S \in SUBSET Nat, S # {}, NEW b \in Nat, \A m \in S : m <= b
  PROVE  \E n \in S : \A m \in S : m <= n
<1> DEFINE T == {b - m : m \in S}
<1>1. T \in SUBSET Nat /\ T # {}
  <2>1. \A m \in S : b - m \in Nat
    OBVIOUS
  <2> QED
    BY <2>1
<1>2. PICK x \in T : \A y \in T : x <= y
  BY <1>1, LeastExists
<1>3. PICK n \in S : x = b - n
  BY <1>2 DEF T
<1>4. \A m \in S : b - m \in T
  BY DEF T
<1>5. \A m \in S : m <= n
  BY <1>2, <1>3, <1>4
<1> QED
  BY <1>3, <1>5

\* Greatest of a bounded set of naturals is its largest element.
LEMMA GreatestType ==
  ASSUME NEW S \in SUBSET Nat, S # {}, NEW b \in Nat, \A m \in S : m <= b
  PROVE  Greatest(S) \in S /\ \A m \in S : m <= Greatest(S)
  BY GreatestExists DEF Greatest

\* Least of a set of naturals is its smallest element.
LEMMA LeastType ==
  ASSUME NEW S \in SUBSET Nat, S # {}
  PROVE  Least(S) \in S /\ \A m \in S : Least(S) <= m
  BY LeastExists DEF Least

-----------------------------------------------------------------------------
(* Types.                                                                  *)

\* Every part of the type invariant, for citing in a DEF list's place.
LEMMA TypeParts ==
  /\ TypeOK <=> /\ TypeDisk /\ TypeRecs /\ TypeSnap /\ TypeMem
                /\ TypeCommit /\ TypeFlush /\ TypeTold
  /\ LogInv <=> TypeOK /\ Shape /\ Files /\ Order
  BY DEF TypeOK, LogInv

\* A record the code builds while a transaction or a checkpoint runs.
LEMMA RecType ==
  ASSUME TypeOK, NEW l \in Lsns, NEW k \in Kinds, NEW ref \in Lsns
  PROVE  Rec(l, k, ref) \in Record
<1>1. active \in SegIds /\ ctx \in Txs /\ 0 \in Txs
  BY BoundsAssumption DEF TypeOK, TypeMem, TypeCommit, Txs
<1> QED
  BY <1>1 DEF Rec, Record

\* The fields of such a record.
LEMMA RecFields ==
  ASSUME NEW l, NEW k, NEW ref
  PROVE  /\ Rec(l, k, ref).lsn = l /\ Rec(l, k, ref).kind = k
         /\ Rec(l, k, ref).seg = active
         /\ k # "marker" => Rec(l, k, ref).tx = ctx
  BY DEF Rec

\* Everything that is compared is a number.
LEMMA Numbers ==
  ASSUME TypeOK
  PROVE  /\ next_lsn \in Nat \ {0} /\ durable_lsn \in Nat /\ fence \in Nat
         /\ klsn \in Nat /\ cfirst \in Nat /\ active \in Nat
         /\ \A s \in dir : s \in Nat
         /\ \A s \in Flushers : flsn[s] \in Nat /\ fseg[s] \in Nat
         /\ \A r \in written \cup pending : r.lsn \in Nat /\ r.seg \in Nat
         /\ \A s \in SegIds : base[s] \in Nat
<1> USE BoundsAssumption DEF TypeOK, Lsns, SegIds
<1>1. next_lsn \in Nat \ {0} /\ durable_lsn \in Nat /\ active \in Nat
  BY DEF TypeMem
<1>2. fence \in Nat /\ klsn \in Nat /\ cfirst \in Nat
  BY DEF TypeSnap, TypeCommit
<1>3. \A s \in dir : s \in Nat
  BY DEF TypeDisk
<1>4. \A s \in Flushers : flsn[s] \in Nat /\ fseg[s] \in Nat
  BY DEF TypeFlush
<1>5. \A r \in written \cup pending : r.lsn \in Nat /\ r.seg \in Nat
  BY DEF TypeRecs, Record
<1>6. \A s \in SegIds : base[s] \in Nat
  BY DEF TypeDisk
<1> QED
  BY <1>1, <1>2, <1>3, <1>4, <1>5, <1>6

\* An fsync adds the entry of a file that is there.
LEMMA EntryType ==
  ASSUME NEW seg
  PROVE  /\ dirSynced \subseteq WithEntry(seg)
         /\ dirSynced \subseteq dir => WithEntry(seg) \subseteq dir
  BY DEF WithEntry

\* Writing the buffer out keeps the log in order.
LEMMA WriteOut ==
  ASSUME LogInv, up = "up"
  PROVE  LET W == written \cup pending IN
         /\ \A r \in W : r.seg \in born /\ r.seg <= active /\ r.lsn < next_lsn
         /\ \A r, q \in W : r.seg < q.seg => r.lsn < q.lsn
  BY Numbers DEF LogInv, Shape, Files, Order, Running

\* Before the first open there are no files, so the invariant holds.
LEMMA InitLogInv == Init => LogInv
<1> SUFFICES ASSUME Init PROVE LogInv
  OBVIOUS
<1> USE BoundsAssumption DEF Init, Lsns, SegIds, Txs, Running
<1>1. TypeDisk /\ TypeRecs /\ Shape
  BY DEF TypeDisk, TypeRecs, Shape, Rotating
<1>2. /\ kholds \in BOOLEAN /\ headerSealed \in BOOLEAN /\ bg_failure \in BOOLEAN
      /\ poisoned \in BOOLEAN /\ cflushed \in BOOLEAN
  OBVIOUS
<1>3. TypeSnap /\ TypeMem
  BY <1>2 DEF TypeSnap, TypeMem, CkptPcs
<1>4. TypeCommit /\ TypeTold
  BY <1>2 DEF TypeCommit, TypeTold, CommitPcs
<1>5. TypeFlush
  BY DEF TypeFlush
<1>6. Files /\ Order
  BY DEF Files, Order, Rotating
<1> QED
  BY <1>6, <1>1, <1>3, <1>4, <1>5 DEF LogInv, TypeOK

\* commit_tx_events: every step of a commit, from the rotation of a full segment
\* to the rollback of a transaction that cannot be appended, keeps files and LSNs
\* in order.
LEMMA CommitLogInv ==
  ASSUME LogInv, CommitStep \/ \E n \in 1 .. MaxBatches : CommitLock(n)
  PROVE  LogInv'
<1> USE BoundsAssumption, TypeParts
    DEF disk, files, snap, mem, latches, commit, flush, ckpt, told, Fails, Running
<1>1. ASSUME NEW n \in 1 .. MaxBatches, CommitLock(n)
      PROVE  LogInv'
  <2> USE <1>1 DEF CommitLock
  <2>1. TypeDisk' /\ TypeRecs' /\ TypeSnap' /\ TypeMem' /\ TypeFlush'
    BY DEF TypeDisk, TypeRecs, TypeSnap, TypeMem, TypeFlush
  <2>2. started + 1 \in Txs
    BY DEF TypeTold, Txs
  <2>3. TypeCommit'
    <3>1. ctx' \in Txs
      BY <2>2
    <3>2. cleft' \in 0 .. MaxBatches
      OBVIOUS
    <3>3. cpc' \in CommitPcs /\ cfirst' \in Lsns
      BY DEF TypeCommit, CommitPcs
    <3>4. cflushed' \in BOOLEAN
      OBVIOUS
    <3> QED
      BY <3>1, <3>2, <3>3, <3>4 DEF TypeCommit
  <2>4. TypeTold'
    BY <2>2 DEF TypeTold
  <2>5. Shape'
    BY DEF Shape, Rotating, WriterFree
  <2>files. Files'
    BY DEF Files, Rotating
  <2>order. Order'
    BY DEF Order
  <2> QED
    BY <2>files, <2>order, <2>1, <2>3, <2>4, <2>5 DEF LogInv, TypeOK
<1>2. CASE RotateFlush
  <2> USE <1>2 DEF RotateFlush, flush_buffer
  <2>1. TypeDisk' /\ TypeSnap' /\ TypeMem' /\ TypeFlush' /\ TypeTold'
    BY EntryType DEF TypeDisk, TypeSnap, TypeMem, TypeFlush, TypeTold
  <2>2. TypeCommit' /\ TypeRecs'
    BY DEF TypeCommit, TypeRecs, CommitPcs
  <2>3. Shape'
    BY DEF Shape, Rotating
  <2>up. up = "up"
    BY DEF Shape
  <2>files. Files'
    BY <2>up, WriteOut DEF Files, Rotating
  <2>order. Order'
    BY <2>up, WriteOut DEF Order
  <2> QED
    BY <2>files, <2>order, <2>1, <2>2, <2>3 DEF LogInv, TypeOK
<1>3. CASE RotateCreate
  <2> USE <1>3 DEF RotateCreate
  <2>1. TypeRecs' /\ TypeSnap' /\ TypeMem' /\ TypeFlush' /\ TypeTold'
    BY DEF TypeRecs, TypeSnap, TypeMem, TypeFlush, TypeTold
  <2>2. TypeCommit' /\ TypeDisk'
    BY DEF TypeCommit, TypeDisk, CommitPcs
  <2>3. Shape'
    BY DEF Shape, Rotating
  <2>files. Files'
    <3>1. up = "up" /\ active \in born /\ \A t \in dir \ born : t = active + 1
      BY Numbers DEF Shape, Files, TypeDisk
    <3>2. \A t \in dir : t <= active + 1
      BY <3>1 DEF Files
    <3> QED
      BY <3>1, <3>2, Numbers DEF Files, Rotating
  <2>order. Order'
    BY DEF Order
  <2> QED
    BY <2>files, <2>order, <2>1, <2>2, <2>3 DEF LogInv, TypeOK
<1>4. CASE RotateHeader
  <2> USE <1>4 DEF RotateHeader
  <2>1. TypeRecs' /\ TypeSnap' /\ TypeMem' /\ TypeFlush' /\ TypeTold'
    BY DEF TypeRecs, TypeSnap, TypeMem, TypeFlush, TypeTold
  <2>2. TypeCommit'
    BY DEF TypeCommit, CommitPcs
  <2>3. TypeDisk'
    BY DEF TypeDisk, TypeMem, Shape, Rotating, WithEntry
  <2>4. Shape'
    BY DEF Shape, Rotating, WithEntry
  <2>files. Files'
    BY DEF Files, Rotating
  <2>order. Order'
    BY DEF Order
  <2> QED
    BY <2>files, <2>order, <2>1, <2>2, <2>3, <2>4 DEF LogInv, TypeOK
<1>5. CASE RotateSyncDir
  <2> USE <1>5 DEF RotateSyncDir
  <2>1. TypeRecs' /\ TypeSnap' /\ TypeMem' /\ TypeFlush' /\ TypeTold'
    BY DEF TypeRecs, TypeSnap, TypeMem, TypeFlush, TypeTold
  <2>2. TypeCommit'
    BY DEF TypeCommit, CommitPcs
  <2>3. active + 1 \in dir /\ active + 1 \notin sealed /\ active \in Nat
    BY DEF Shape, Rotating, TypeMem, SegIds
  <2>4. TypeDisk'
    BY <2>3 DEF TypeDisk, DropNew
  <2>5. Shape'
    BY <2>3 DEF Shape, Rotating, DropNew
  <2>files. Files'
    <3>1. up = "up" /\ \A r \in written : r.seg \in born \ {active + 1}
      BY Numbers DEF Shape, Files
    <3> QED
      BY <3>1, Numbers DEF Files, Rotating, DropNew
  <2>order. Order'
    BY DEF Order
  <2> QED
    BY <2>files, <2>order, <2>1, <2>2, <2>4, <2>5 DEF LogInv, TypeOK
<1>6. CASE RotateSeal
  <2> USE <1>6 DEF RotateSeal
  <2>1. TypeRecs' /\ TypeSnap' /\ TypeFlush' /\ TypeTold'
    BY DEF TypeRecs, TypeSnap, TypeFlush, TypeTold
  <2>2. TypeCommit'
    BY DEF TypeCommit, CommitPcs
  <2>3. /\ active + 1 \in born /\ active + 1 \notin sealed
        /\ active \in Nat /\ active \in born /\ up = "up"
    BY DEF Shape, Rotating, TypeMem, SegIds
  <2>4. TypeDisk'
    <3>1. CASE sealed' = sealed \cup {active} /\ UNCHANGED <<dir, born, dirSynced>>
      BY <2>3, <3>1 DEF TypeDisk
    <3>2. CASE DropNew /\ sealed' \in {sealed, sealed \cup {active}}
      <4>1. {active} \cup sealed \subseteq dir \ {active + 1}
        BY <2>3 DEF TypeDisk
      <4> QED
        BY <2>3, <3>2, <4>1 DEF TypeDisk, DropNew
    <3> QED
      BY <3>1, <3>2
  <2>5. TypeMem'
    BY <2>3 DEF TypeDisk, TypeMem
  <2>6. Shape'
    BY <2>3 DEF Shape, Rotating, DropNew, TypeDisk, SegIds
  <2>files. Files'
    <3>1. up = "up" /\ \A r \in written : r.seg \in born \ {active + 1}
      BY Numbers DEF Shape, Files
    <3>2. pending = {}
      BY DEF Files, Rotating
    <3>3. CASE active' = active + 1 /\ UNCHANGED <<dir, born>>
      BY <3>1, <3>2, <3>3, Numbers DEF Files, Rotating
    <3>4. CASE DropNew /\ UNCHANGED active /\ cpc' = "failing"
      BY <3>1, <3>2, <3>4, Numbers DEF Files, Rotating, DropNew
    <3> QED
      BY <3>3, <3>4
  <2>order. Order'
    BY DEF Order
  <2> QED
    BY <2>files, <2>order, <2>1, <2>2, <2>4, <2>5, <2>6 DEF LogInv, TypeOK
<1>7. CASE AppendBegin
  <2> USE <1>7 DEF AppendBegin
  <2>1. TypeDisk' /\ TypeSnap' /\ TypeFlush' /\ TypeTold'
    BY DEF TypeDisk, TypeSnap, TypeFlush, TypeTold
  <2>2. /\ LsnsLeft(2) => next_lsn \in Lsns \ {0} /\ next_lsn + 1 \in Lsns
        /\ cleft > 0 /\ up = "up"
    BY DEF LsnsLeft, Lsns, TypeMem, Shape, Rotating
  <2>3. TypeMem' /\ TypeCommit'
    BY <2>2 DEF TypeMem, TypeCommit, CommitPcs, LsnsLeft
  <2>4. TypeRecs'
    BY <2>2, RecType DEF TypeRecs, Kinds
  <2>5. Shape'
    BY <2>2 DEF Shape, Rotating, Lsns
  <2>files. Files'
    BY <2>2, RecFields DEF Files, Rotating
  <2>order. Order'
    BY <2>2, RecFields, Numbers DEF Order
  <2> QED
    BY <2>files, <2>order, <2>1, <2>3, <2>4, <2>5 DEF LogInv, TypeOK
<1>8. CASE AppendBatch
  <2> USE <1>8 DEF AppendBatch, RollbackTx
  <2>1. TypeDisk' /\ TypeSnap' /\ TypeFlush' /\ TypeTold'
    BY DEF TypeDisk, TypeSnap, TypeFlush, TypeTold
  <2>2. /\ LsnsLeft(1) => next_lsn \in Lsns /\ next_lsn + 1 \in 1 .. MaxLsn
        /\ cfirst \in 1 .. MaxLsn
    BY DEF LsnsLeft, Lsns, TypeMem, TypeCommit, Shape
  <2>3. TypeMem' /\ TypeCommit'
    <3>1. cleft - 1 \in 0 .. MaxBatches
      BY DEF TypeCommit
    <3> QED
      BY <2>2, <3>1 DEF TypeMem, TypeCommit, CommitPcs
  <2>4. cfirst \in Lsns /\ (LsnsLeft(1) => Rec(next_lsn, "batch", cfirst) \in Record)
    BY <2>2, RecType DEF TypeCommit, Kinds
  <2>5. TypeRecs'
    BY <2>4 DEF TypeRecs
  <2>6. Shape'
    BY DEF Shape, Rotating
  <2>up. up = "up"
    BY DEF Shape
  <2>files. Files'
    BY <2>up, RecFields, WriteOut DEF Files, Rotating
  <2>order. Order'
    BY <2>up, RecFields, WriteOut, Numbers DEF Order, Files
  <2> QED
    BY <2>files, <2>order, <2>1, <2>3, <2>5, <2>6 DEF LogInv, TypeOK
<1>9. CASE AppendCommit
  <2> USE <1>9 DEF AppendCommit, RollbackTx
  <2>1. TypeDisk' /\ TypeSnap' /\ TypeFlush' /\ TypeTold'
    BY DEF TypeDisk, TypeSnap, TypeFlush, TypeTold
  <2>2. /\ LsnsLeft(1) => next_lsn \in Lsns /\ next_lsn + 1 \in 1 .. MaxLsn
        /\ cfirst \in 1 .. MaxLsn
    BY DEF LsnsLeft, Lsns, TypeMem, TypeCommit, Shape
  <2>3. TypeMem' /\ TypeCommit'
    BY <2>2 DEF TypeMem, TypeCommit, CommitPcs
  <2>4. cfirst \in Lsns /\ (LsnsLeft(1) => Rec(next_lsn, "commit", cfirst) \in Record)
    BY <2>2, RecType DEF TypeCommit, Kinds
  <2>5. TypeRecs'
    BY <2>4 DEF TypeRecs
  <2>6. Shape'
    BY DEF Shape, Rotating
  <2>up. up = "up"
    BY DEF Shape
  <2>files. Files'
    BY <2>up, RecFields, WriteOut DEF Files, Rotating
  <2>order. Order'
    BY <2>up, RecFields, WriteOut, Numbers DEF Order, Files
  <2> QED
    BY <2>files, <2>order, <2>1, <2>3, <2>5, <2>6 DEF LogInv, TypeOK
<1>10. CASE CommitFlush
  <2> USE <1>10 DEF CommitFlush, flush_buffer
  <2>1. TypeDisk' /\ TypeSnap' /\ TypeFlush' /\ TypeMem'
    BY DEF TypeDisk, TypeSnap, TypeFlush, TypeMem
  <2>2. TypeCommit' /\ TypeRecs' /\ TypeTold'
    BY DEF TypeCommit, TypeRecs, TypeTold, CommitPcs
  <2>3. Shape'
    BY DEF Shape, Rotating
  <2>up. up = "up"
    BY DEF Shape
  <2>files. Files'
    BY <2>up, WriteOut DEF Files, Rotating
  <2>order. Order'
    BY <2>up, WriteOut DEF Order
  <2> QED
    BY <2>files, <2>order, <2>1, <2>2, <2>3 DEF LogInv, TypeOK
<1>11. CASE CommitPoison
  <2> USE <1>11 DEF CommitPoison
  <2>1. TypeDisk' /\ TypeRecs' /\ TypeSnap' /\ TypeFlush' /\ TypeMem'
    BY DEF TypeDisk, TypeRecs, TypeSnap, TypeFlush, TypeMem
  <2>2. TypeCommit' /\ TypeTold'
    BY DEF TypeCommit, TypeTold, CommitPcs
  <2>3. Shape'
    BY DEF Shape, Rotating
  <2>files. Files'
    BY DEF Files, Rotating
  <2>order. Order'
    BY DEF Order
  <2> QED
    BY <2>files, <2>order, <2>1, <2>2, <2>3 DEF LogInv, TypeOK
<1> QED
  BY <1>1, <1>2, <1>3, <1>4, <1>5, <1>6, <1>7, <1>8, <1>9, <1>10, <1>11
  DEF CommitStep

\* A flush that returns to its caller ends, and moves at most a checkpoint on.
LEMMA FlushEnds ==
  ASSUME LogInv, NEW s \in Flushers, fpc[s] # "idle",
         FlushFailed(s) \/ \E c : FlushDone(s, c)
  PROVE  /\ \A q \in Flushers : fpc'[q] # "idle" =>
              fpc'[q] = fpc[q] /\ (q = "ckpt" => kpc' \in {"fsync1", "fsync2"})
         /\ kpc' # "idle" => kpc # "idle"
         /\ kpc' \in {"install", "mark", "fsync2", "truncate"} =>
              kpc \in {"install", "mark", "fsync2", "truncate"}
         /\ kpc' \in {"fsync1", "take"} => kholds' /\ cpc = "idle"
         /\ klsn' = klsn /\ ktx' = ktx
<1> USE DEF LogInv, TypeOK, Shape, TypeFlush
<1>1. \A q \in Flushers : fpc'[q] # "idle" => q # s /\ fpc'[q] = fpc[q]
  BY DEF FlushFailed, FlushDone
<1>2. s # "ckpt" => kpc' = kpc /\ (kholds => kholds')
  BY DEF FlushFailed, FlushDone
<1>3. s = "ckpt" => kpc \in {"fsync1", "fsync2"} /\ (kpc = "fsync1" => kholds)
  OBVIOUS
<1>4. CASE s # "ckpt"
  BY <1>1, <1>2, <1>4 DEF FlushFailed, FlushDone
<1>5. CASE s = "ckpt" /\ FlushFailed(s)
  BY <1>1, <1>3, <1>5 DEF FlushFailed
<1>6. CASE s = "ckpt" /\ \E c : FlushDone(s, c)
  BY <1>1, <1>3, <1>6 DEF FlushDone
<1> QED
  BY <1>4, <1>5, <1>6

\* flush_inner: writing the buffer out and advancing durable_lsn keep files and
\* LSNs in order, whatever ran between the two halves.
LEMMA FlushLogInv ==
  ASSUME LogInv, NEW s \in Flushers, FlushCall(s) \/ FlushStep(s)
  PROVE  LogInv'
<1> USE BoundsAssumption, TypeParts
    DEF disk, files, snap, mem, latches, commit, flush, ckpt, told, Running
<1>1. CASE FlushCall(s)
  <2> USE <1>1 DEF FlushCall
  <2>1. TypeDisk' /\ TypeRecs' /\ TypeSnap' /\ TypeMem' /\ TypeCommit' /\ TypeTold'
    BY DEF TypeDisk, TypeRecs, TypeSnap, TypeMem, TypeCommit, TypeTold
  <2>2. TypeFlush'
    BY DEF TypeFlush
  <2>3. Shape'
    BY DEF Shape, Rotating
  <2>files. Files'
    BY DEF Files, Rotating
  <2>order. Order'
    BY DEF Order
  <2> QED
    BY <2>files, <2>order, <2>1, <2>2, <2>3 DEF LogInv, TypeOK
<1>2. CASE FlushWrite(s)
  <2> USE <1>2 DEF FlushWrite
  <2>1. TypeDisk' /\ TypeCommit'
    BY DEF TypeDisk, TypeCommit
  <2>2. TypeRecs'
    BY DEF TypeRecs, flush_buffer
  <2>3. TypeSnap' /\ kholds' \in BOOLEAN
    BY DEF TypeSnap, CkptPcs, FlushDone, FlushFailed
  <2>4. TypeTold'
    BY DEF TypeTold, FlushDone
  <2>5. TypeMem'
    <3>1. bg_failure' \in BOOLEAN /\ poisoned' \in BOOLEAN
      BY DEF TypeMem, FlushFailed
    <3> QED
      BY <3>1 DEF TypeMem
  <2>6. TypeFlush'
    <3>1. next_lsn - 1 \in Lsns /\ active \in SegIds
      BY DEF TypeMem, Lsns
    <3> QED
      BY <3>1 DEF TypeFlush, FlushDone, FlushFailed
  <2>up. up = "up"
    BY DEF Shape
  <2>7. Shape'
    <3>1. CASE FlushFailed(s) \/ \E c : FlushDone(s, c)
      BY <2>up, <3>1, FlushEnds DEF Shape, Rotating
    <3>2. CASE fpc' = [fpc EXCEPT ![s] = "written"] /\ UNCHANGED ckpt
      BY <2>up, <3>2 DEF Shape, Rotating, TypeFlush
    <3> QED
      BY <3>1, <3>2
  <2>files. Files'
    BY <2>up, WriteOut DEF Files, Rotating, flush_buffer
  <2>order. Order'
    <3>1. /\ \A r, q \in written' : r.seg < q.seg => r.lsn < q.lsn
          /\ \A r \in written', q \in pending' : r.lsn < q.lsn
          /\ \A r \in written' \cup pending' : r.lsn < next_lsn
      BY <2>up, WriteOut DEF Order, flush_buffer
    <3>2. CASE FlushFailed(s) \/ \E c : FlushDone(s, c)
      <4>1. \A q \in Flushers : fpc'[q] # "idle" => fpc'[q] = fpc[q]
        BY <3>2, FlushEnds
      <4>2. UNCHANGED <<fseg, flsn>>
        BY <4>1 DEF TypeFlush
      <4>3. pending' \subseteq pending
        BY DEF flush_buffer
      <4>4. kpc' \in {"install", "mark", "fsync2", "truncate"} => klsn' < next_lsn
        BY <3>2, FlushEnds DEF Order
      <4> QED
        BY <2>up, <3>1, <4>1, <4>2, <4>3, <4>4 DEF Order, StateFree
    <3>3. CASE ~NothingNew /\ flush_buffer /\ UNCHANGED ckpt
               /\ fpc' = [fpc EXCEPT ![s] = "written"]
               /\ flsn' = [flsn EXCEPT ![s] = next_lsn - 1]
      <4>1. \A q \in Flushers : fpc'[q] \in {"written", "synced"} =>
              flsn'[q] < next_lsn
        BY <3>3, Numbers DEF Order, TypeFlush
      <4>2. pending' = {}
        BY <3>3 DEF flush_buffer
      <4> QED
        BY <2>up, <3>1, <3>3, <4>1, <4>2 DEF Order, StateFree
    <3> QED
      BY <3>2, <3>3
  <2> QED
    BY <2>files, <2>order, <2>1, <2>2, <2>3, <2>4, <2>5, <2>6, <2>7 DEF LogInv, TypeOK
<1>3. CASE FlushSync(s)
  <2> USE <1>3 DEF FlushSync
  <2>1. TypeDisk' /\ TypeCommit' /\ TypeTold'
    BY EntryType DEF TypeDisk, TypeCommit, TypeTold
  <2>2. TypeRecs'
    BY DEF TypeRecs, In
  <2>3. TypeSnap'
    BY DEF TypeSnap, CkptPcs, FlushFailed
  <2>4. TypeMem'
    <3>1. bg_failure' \in BOOLEAN /\ poisoned' \in BOOLEAN
      BY DEF TypeMem, FlushFailed
    <3> QED
      BY <3>1 DEF TypeMem
  <2>5. TypeFlush'
    BY DEF TypeFlush, FlushFailed
  <2>6. Shape'
    <3>1. CASE FlushFailed(s)
      BY <3>1, FlushEnds DEF Shape, Rotating
    <3>2. CASE fpc' = [fpc EXCEPT ![s] = "synced"] /\ UNCHANGED ckpt
      BY <3>2 DEF Shape, Rotating, TypeFlush
    <3> QED
      BY <3>1, <3>2
  <2>files. Files'
    BY DEF Files, Rotating
  <2>order. Order'
    <3>1. CASE FlushFailed(s)
      BY <3>1, FlushEnds DEF Order
    <3>2. CASE fpc' = [fpc EXCEPT ![s] = "synced"] /\ UNCHANGED ckpt
      BY <3>2 DEF Order, TypeFlush
    <3> QED
      BY <3>1, <3>2
  <2> QED
    BY <2>files, <2>order, <2>1, <2>2, <2>3, <2>4, <2>5, <2>6 DEF LogInv, TypeOK
<1>4. CASE FlushAdvance(s)
  <2> USE <1>4 DEF FlushAdvance
  <2>1. TypeDisk' /\ TypeCommit' /\ TypeRecs'
    BY DEF TypeDisk, TypeCommit, TypeRecs
  <2>2. TypeSnap'
    BY DEF TypeSnap, CkptPcs, FlushDone
  <2>3. TypeMem' /\ TypeFlush'
    BY DEF TypeMem, TypeFlush, FlushDone
  <2>4. TypeTold'
    <3>1. TxUpTo(written, flsn[s]) \subseteq Txs
      BY DEF TxUpTo, Commits, TypeRecs, Record
    <3> QED
      BY <3>1 DEF TypeTold, FlushDone
  <2>5. Shape'
    BY FlushEnds DEF Shape, Rotating
  <2>files. Files'
    BY DEF Files, Rotating
  <2>order. Order'
    BY FlushEnds, Numbers DEF Order, Shape, StateFree
  <2> QED
    BY <2>files, <2>order, <2>1, <2>2, <2>3, <2>4, <2>5 DEF LogInv, TypeOK
<1> QED
  BY <1>1, <1>2, <1>3, <1>4 DEF FlushStep

\* A checkpoint: marker, installed snapshot and truncated segments keep files and
\* LSNs in order.
LEMMA CkptLogInv ==
  ASSUME LogInv, CkptStart \/ CkptStep
  PROVE  LogInv'
<1> USE BoundsAssumption, TypeParts
    DEF disk, files, snap, mem, latches, commit, flush, ckpt, told, Running
<1>1. CASE CkptStart
  <2> USE <1>1 DEF CkptStart
  <2>1. TypeDisk' /\ TypeRecs' /\ TypeMem' /\ TypeCommit' /\ TypeFlush'
    BY DEF TypeDisk, TypeRecs, TypeMem, TypeCommit, TypeFlush
  <2>2. TypeSnap' /\ TypeTold'
    BY DEF TypeSnap, TypeTold, CkptPcs
  <2>3. Shape'
    BY DEF Shape, Rotating, WriterFree
  <2>files. Files'
    BY DEF Files, Rotating
  <2>order. Order'
    BY DEF Order
  <2> QED
    BY <2>files, <2>order, <2>1, <2>2, <2>3 DEF LogInv, TypeOK
<1>2. CASE CkptTake
  <2> USE <1>2 DEF CkptTake
  <2>1. /\ TypeDisk' /\ TypeRecs' /\ TypeMem' /\ TypeCommit' /\ TypeFlush'
        /\ TypeTold'
    BY DEF TypeDisk, TypeRecs, TypeMem, TypeCommit, TypeFlush, TypeTold
  <2>2. TypeSnap'
    BY DEF TypeSnap, TypeMem, TypeTold, CkptPcs
  <2>3. Shape'
    BY DEF Shape, Rotating
  <2>files. Files'
    BY DEF Files, Rotating
  <2>order. Order'
    BY Numbers DEF Order, Shape
  <2> QED
    BY <2>files, <2>order, <2>1, <2>2, <2>3 DEF LogInv, TypeOK
<1>3. CASE CkptInstall
  <2> USE <1>3 DEF CkptInstall
  <2>1. /\ TypeDisk' /\ TypeRecs' /\ TypeMem' /\ TypeCommit' /\ TypeFlush'
        /\ TypeTold'
    BY DEF TypeDisk, TypeRecs, TypeMem, TypeCommit, TypeFlush, TypeTold
  <2>2. TypeSnap'
    BY DEF TypeSnap, CkptPcs
  <2>3. Shape'
    BY DEF Shape, Rotating
  <2>files. Files'
    BY DEF Files, Rotating
  <2>order. Order'
    BY DEF Order
  <2> QED
    BY <2>files, <2>order, <2>1, <2>2, <2>3 DEF LogInv, TypeOK
<1>4. CASE CkptMark
  <2> USE <1>4 DEF CkptMark
  <2>1. TypeDisk' /\ TypeCommit' /\ TypeFlush' /\ TypeTold'
    BY DEF TypeDisk, TypeCommit, TypeFlush, TypeTold
  <2>2. TypeSnap'
    BY DEF TypeSnap, CkptPcs
  <2>3. LsnsLeft(1) => next_lsn \in Lsns /\ next_lsn + 1 \in 1 .. MaxLsn
    BY DEF LsnsLeft, Lsns, TypeMem
  <2>4. TypeMem'
    BY <2>3 DEF TypeMem
  <2>5. TypeRecs'
    BY <2>3, RecType DEF TypeRecs, TypeSnap, Kinds
  <2>6. Shape'
    BY DEF Shape, Rotating
  <2>files. Files'
    BY RecFields DEF Files, Rotating, Shape, StateFree
  <2>order. Order'
    BY RecFields, Numbers DEF Order, Shape, StateFree
  <2> QED
    BY <2>files, <2>order, <2>1, <2>2, <2>4, <2>5, <2>6 DEF LogInv, TypeOK
<1>5. CASE CkptTruncate
  <2> USE <1>5 DEF CkptTruncate
  <2>1. TypeMem' /\ TypeCommit' /\ TypeFlush' /\ TypeTold'
    BY DEF TypeMem, TypeCommit, TypeFlush, TypeTold
  <2>2. TypeSnap'
    BY DEF TypeSnap, CkptPcs
  <2>3. PICK last \in {0} \cup Droppable(klsn) :
          LET gone == {t \in Droppable(klsn) : t <= last} IN
          /\ dir' = dir \ gone /\ dirSynced' = dirSynced \ gone
          /\ born' = born \ gone /\ sealed' = sealed \ gone
          /\ written' = {r \in written : r.seg \notin gone}
          /\ synced' = {r \in synced : r.seg \notin gone}
    OBVIOUS
  <2> DEFINE gone == {t \in Droppable(klsn) : t <= last}
  <2>4. \A t \in gone : t < active - 1
    BY DEF Droppable
  <2> HIDE DEF gone
  <2>5. TypeDisk' /\ TypeRecs'
    BY <2>3 DEF TypeDisk, TypeRecs, gone
  <2>6. Shape'
    <3>1. active \notin gone /\ active + 1 \notin gone
      BY <2>4 DEF TypeMem, SegIds
    <3>2. cpc \notin Rotating
      BY DEF StateFree, Rotating
    <3>3. /\ dir' = dir \ gone /\ born' = born \ gone /\ sealed' = sealed \ gone
      BY <2>3 DEF gone
    <3> QED
      BY <3>1, <3>2, <3>3 DEF Shape, Rotating
  <2>files. Files'
    BY DEF Files, Rotating
  <2>order. Order'
    BY DEF Order
  <2> QED
    BY <2>files, <2>order, <2>1, <2>2, <2>5, <2>6 DEF LogInv, TypeOK
<1>6. CASE CkptAbandon
  <2> USE <1>6 DEF CkptAbandon
  <2>1. /\ TypeDisk' /\ TypeRecs' /\ TypeMem' /\ TypeCommit' /\ TypeFlush'
        /\ TypeTold'
    BY DEF TypeDisk, TypeRecs, TypeMem, TypeCommit, TypeFlush, TypeTold
  <2>2. TypeSnap'
    BY DEF TypeSnap, CkptPcs
  <2>3. Shape'
    BY DEF Shape, Rotating
  <2>files. Files'
    BY DEF Files, Rotating
  <2>order. Order'
    BY DEF Order
  <2> QED
    BY <2>files, <2>order, <2>1, <2>2, <2>3 DEF LogInv, TypeOK
<1> QED
  BY <1>1, <1>2, <1>3, <1>4, <1>5, <1>6 DEF CkptStep

\* What a stopped process keeps in memory: nothing.
LEMMA StoppedType ==
  ASSUME LogInv, Stopped
  PROVE  /\ TypeMem' /\ TypeCommit' /\ TypeFlush' /\ pending' = {}
         /\ klsn' \in Lsns /\ ktx' \subseteq Txs /\ kpc' \in CkptPcs
         /\ kholds' \in BOOLEAN /\ live' \subseteq Txs
         /\ (sealed' \subseteq born' => Shape')
         /\ up' = "down" /\ cpc' = "idle" /\ kpc' = "idle"
         /\ \A s \in Flushers : fpc'[s] = "idle"
<1> USE BoundsAssumption DEF Stopped, Lsns, SegIds, Txs, Running
<1>1. /\ kholds' \in BOOLEAN /\ headerSealed' \in BOOLEAN /\ bg_failure' \in BOOLEAN
      /\ poisoned' \in BOOLEAN /\ cflushed' \in BOOLEAN
  OBVIOUS
<1>2. TypeMem'
  BY <1>1 DEF TypeMem
<1>3. TypeCommit'
  BY <1>1 DEF TypeCommit, CommitPcs
<1>4. TypeFlush'
  BY DEF TypeFlush
<1>5. sealed' \subseteq born' => Shape'
  BY DEF Shape, Rotating
<1> QED
  BY <1>1, <1>2, <1>3, <1>4, <1>5 DEF CkptPcs

\* A record half of which reached the disk is still a record of its file.
LEMMA TornType ==
  ASSUME NEW r \in Record
  PROVE  Torn(r) \in Record /\ Torn(r).seg = r.seg /\ Torn(r).lsn = r.lsn
  BY DEF Torn, Record, Kinds

\* A crash, a power loss that keeps any part of what was not fsynced, and a clean
\* drop leave files a later open can work from.
LEMMA StopLogInv ==
  ASSUME LogInv, Crash \/ PowerLoss \/ Drop
  PROVE  LogInv'
<1> USE BoundsAssumption, TypeParts
    DEF disk, files, snap, mem, latches, commit, flush, ckpt, told, Running
<1>1. CASE Crash
  <2> USE <1>1 DEF Crash
  <2>1. TypeDisk' /\ TypeRecs' /\ TypeSnap' /\ TypeTold'
    BY StoppedType DEF TypeDisk, TypeRecs, TypeSnap, TypeTold
  <2>2. Shape'
    BY StoppedType DEF Shape
  <2>files. Files'
    BY StoppedType DEF Files, Rotating
  <2>order. Order'
    BY StoppedType DEF Order
  <2> QED
    BY <2>files, <2>order, <2>1, <2>2, StoppedType DEF LogInv, TypeOK
<1>2. CASE PowerLoss
  <2>1. PICK kept \in SUBSET (written \ synced), partial \in BOOLEAN,
             lostDirs \in SUBSET (dir \ dirSynced) :
          LET lost == (written \ synced) \ kept
              holes == {l \in lost : \/ \E k \in kept : l.lsn < k.lsn
                                     \/ partial /\ \A m \in lost : l.lsn <= m.lsn}
              after == synced \cup kept \cup {Torn(l) : l \in holes}
          IN
          /\ up \notin {"up", "creating"}
          /\ "reordered_pages" \notin Faults =>
               \A k \in kept, l \in lost : k.lsn < l.lsn
          /\ written' = {r \in after : r.seg \notin lostDirs}
          /\ synced' = written'
          /\ dir' = dir \ lostDirs /\ dirSynced' = dir'
          /\ born' = born \ lostDirs /\ sealed' = sealed \ lostDirs
          /\ up' = "down"
          /\ UNCHANGED <<base, snap, mem, latches, commit, flush, ckpt, told>>
    BY <1>2 DEF PowerLoss
  <2>2. TypeSnap' /\ TypeMem' /\ TypeCommit' /\ TypeFlush' /\ TypeTold'
    BY <2>1 DEF TypeSnap, TypeMem, TypeCommit, TypeFlush, TypeTold
  <2>3. TypeDisk'
    BY <2>1 DEF TypeDisk
  <2>4. TypeRecs'
    <3>1. \A r \in written' : r \in written \/ \E l \in written : r = Torn(l)
      BY <2>1 DEF TypeRecs
    <3>2. written' \subseteq Record
      BY <3>1, TornType DEF TypeRecs
    <3> QED
      BY <2>1, <3>2 DEF TypeRecs
  <2>5. Shape'
    BY <2>1 DEF Shape, Rotating
  <2>6. \A r \in written' : r.seg \notin lostDirs /\
          \E q \in written : q.seg = r.seg /\ q.lsn = r.lsn
    BY <2>1, TornType DEF TypeRecs
  <2>7. /\ up' = "down" /\ cpc' = "idle" /\ kpc' = "idle" /\ pending' = {}
        /\ \A s \in Flushers : fpc'[s] = "idle"
    BY <2>1 DEF Shape, Files
  <2>8. dir' = dir \ lostDirs /\ born' = born \ lostDirs
    BY <2>1
  <2>files. Files'
    BY <2>6, <2>7, <2>8 DEF Files, Rotating
  <2>order. Order'
    <3>1. \A r, q \in written' : r.seg < q.seg => r.lsn < q.lsn
      BY <2>6 DEF Order
    <3> QED
      BY <3>1, <2>7 DEF Order
  <2> QED
    BY <2>files, <2>order, <2>2, <2>3, <2>4, <2>5 DEF LogInv, TypeOK
<1>3. CASE Drop
  <2> USE <1>3 DEF Drop
  <2>1. TypeDisk' /\ TypeSnap' /\ TypeTold'
    BY StoppedType, EntryType DEF TypeDisk, TypeSnap, TypeTold
  <2>2. TypeRecs'
    BY StoppedType DEF TypeRecs
  <2>3. Shape'
    BY StoppedType DEF Shape
  <2>4. written' \subseteq written \cup pending
    OBVIOUS
  <2>files. Files'
    BY <2>4, StoppedType, WriteOut DEF Files, Rotating
  <2>order. Order'
    BY <2>4, StoppedType, WriteOut DEF Order
  <2> QED
    BY <2>files, <2>order, <2>1, <2>2, <2>3, StoppedType DEF LogInv, TypeOK
<1> QED
  BY <1>1, <1>2, <1>3

\* The newest segment file, when there is one.
LEMMA NewestType ==
  ASSUME TypeOK, dir # {}
  PROVE  Greatest(dir) \in dir /\ \A s \in dir : s <= Greatest(dir)
<1>1. dir \in SUBSET Nat /\ MaxSeg \in Nat /\ \A m \in dir : m <= MaxSeg
  BY BoundsAssumption DEF TypeOK, TypeDisk, SegIds
<1> QED
  BY <1>1, GreatestType

\* Replay reads records of the files, and never reaches the end of the LSNs.
LEMMA ReplayType ==
  ASSUME TypeOK
  PROVE  /\ Readable \subseteq written /\ LastUsed \in Lsns
         /\ fence <= LastUsed /\ \A r \in Readable : r.lsn <= LastUsed
         /\ Replayed \subseteq Txs
<1>1. Readable \subseteq written /\ written \subseteq Record
  BY DEF Readable, Good, TypeOK, TypeRecs
<1> DEFINE used == {r.lsn : r \in Readable} \cup {fence}
<1>2. used \subseteq Lsns
  BY <1>1 DEF Record, TypeOK, TypeSnap
<1>3. used \in SUBSET Nat /\ \A n \in used : n <= MaxLsn
  BY <1>2, BoundsAssumption DEF Lsns
<1>4. LastUsed \in used /\ \A n \in used : n <= LastUsed
  BY <1>3, GreatestType, BoundsAssumption DEF LastUsed
<1>5. Replayed \subseteq Txs
  BY <1>1 DEF Replayed, Commits, Record, TypeOK, TypeSnap
<1> QED
  BY <1>1, <1>2, <1>4, <1>5

\* The segment open_existing goes on with: the one of the first bad frame, or
\* the newest.
CutAt == Greatest({s \in dir : \A r \in TornRecs : r.lsn = FirstTorn => s <= r.seg})

\* With bad frames, they start in segment CutAt.
LEMMA FirstTornType ==
  ASSUME TypeOK, TornRecs # {}
  PROVE  \E r \in TornRecs : r.lsn = FirstTorn /\ \A q \in TornRecs : r.lsn <= q.lsn
<1> DEFINE L == {r.lsn : r \in TornRecs}
<1>1. \A r \in TornRecs : r.lsn \in Nat
  BY Numbers DEF TornRecs
<1>2. L \in SUBSET Nat /\ L # {}
  BY <1>1
<1>3. Least(L) \in L /\ \A m \in L : Least(L) <= m
  BY <1>2, LeastType
<1>4. \A q \in TornRecs : q.lsn \in L
  OBVIOUS
<1> QED
  BY <1>3, <1>4 DEF FirstTorn

\* That segment has a header, and replay reads no record behind it.
LEMMA CutType ==
  ASSUME LogInv, dir # {}, Greatest(dir) \in born
  PROVE  /\ CutAt \in dir /\ CutAt \in born /\ dir \subseteq born
         /\ \A r \in Readable : r.seg <= CutAt
         /\ TornRecs = {} => CutAt = Greatest(dir)
         /\ \A r \in TornRecs : r.lsn = FirstTorn => r.seg = CutAt
<1> DEFINE D == {s \in dir : \A r \in TornRecs : r.lsn = FirstTorn => s <= r.seg}
<1>t. TypeOK
  BY DEF LogInv
<1>1. dir \in SUBSET Nat /\ MaxSeg \in Nat /\ \A m \in dir : m <= MaxSeg
  BY <1>t, BoundsAssumption DEF TypeOK, TypeDisk, SegIds
<1>2. Greatest(dir) \in dir /\ \A s \in dir : s <= Greatest(dir)
  BY <1>t, NewestType
<1>3. dir \subseteq born
  <2>1. ASSUME NEW s \in dir, s \notin born PROVE FALSE
    <3>1. Greatest(dir) <= s /\ s <= Greatest(dir)
      BY <2>1, <1>2 DEF LogInv, Files
    <3>2. s \in Nat /\ Greatest(dir) \in Nat
      BY <1>1, <1>2
    <3>3. s = Greatest(dir)
      BY <3>1, <3>2
    <3> QED
      BY <2>1, <3>3
  <2> QED
    BY <2>1
<1>4. Readable \subseteq written /\ TornRecs \subseteq written
  BY DEF Readable, Good, TornRecs
<1>5. CASE TornRecs = {}
  <2>1. D = dir
    BY <1>5
  <2>2. CutAt = Greatest(dir)
    BY <2>1 DEF CutAt
  <2>3. \A r \in Readable : r.seg \in dir
    BY <1>4 DEF LogInv, TypeOK, TypeDisk, Files
  <2> QED
    BY <1>2, <1>3, <1>5, <2>2, <2>3
<1>6. CASE TornRecs # {}
  <2>1. PICK r \in TornRecs : r.lsn = FirstTorn /\ \A q \in TornRecs : r.lsn <= q.lsn
    BY <1>t, <1>6, FirstTornType
  <2>2. r.seg \in born /\ r.seg \in dir
    BY <1>4 DEF LogInv, TypeOK, TypeDisk, Files
  <2>3. \A q \in TornRecs : q.lsn = FirstTorn => q.seg = r.seg
    BY <2>1, <1>t, <1>4, Numbers DEF LogInv, Order
  <2>4. r.seg \in D /\ \A m \in D : m <= r.seg
    <3>0. r.seg \in Nat
      BY <2>2, <1>1
    <3>1. r.seg <= r.seg
      BY <3>0
    <3>2. \A m \in D : m <= r.seg
      BY <2>1
    <3> QED
      BY <2>2, <2>3, <3>1, <3>2
  <2>5. D \in SUBSET Nat /\ MaxSeg \in Nat /\ (\A m \in D : m <= MaxSeg) /\ D # {}
    <3>1. D \subseteq dir
      OBVIOUS
    <3> QED
      BY <1>1, <2>4, <3>1
  <2>6. Greatest(D) \in D /\ \A m \in D : m <= Greatest(D)
    <3> HIDE DEF D
    <3> QED
      BY <2>5, GreatestType
  <2>7. CutAt = r.seg
    <3>1. Greatest(D) = r.seg
      <4> HIDE DEF D
      <4>1. r.seg \in Nat /\ Greatest(D) \in Nat
        BY <2>4, <2>5, <2>6
      <4>2. r.seg <= Greatest(D) /\ Greatest(D) <= r.seg
        BY <2>4, <2>6
      <4> QED
        BY <4>1, <4>2
    <3> QED
      BY <3>1 DEF CutAt
  <2>8. \A q \in Readable : q.lsn < r.lsn
    BY <1>6, <2>1 DEF Readable
  <2>9. \A q \in Readable : q.seg <= r.seg
    BY <2>8, <1>4, <1>t, Numbers DEF LogInv, Order
  <2> QED
    BY <1>3, <1>6, <2>2, <2>3, <2>7, <2>9
<1> QED
  BY <1>5, <1>6

\* Opening: next_lsn starts above every record that is left, also when the
\* snapshot is ahead of the log, a torn tail was cut or a new segment is created.
LEMMA OpenLogInv ==
  ASSUME LogInv, Open
  PROVE  LogInv'
<1> USE BoundsAssumption, TypeParts
    DEF disk, files, snap, mem, latches, commit, flush, ckpt, told, Running
<1>1. CASE DiscardUnborn
  <2> USE <1>1 DEF DiscardUnborn
  <2>1. /\ TypeRecs' /\ TypeSnap' /\ TypeMem' /\ TypeCommit' /\ TypeFlush'
        /\ TypeTold'
    BY DEF TypeRecs, TypeSnap, TypeMem, TypeCommit, TypeFlush, TypeTold
  <2>2. TypeDisk'
    BY DEF TypeDisk, Shape
  <2>3. Shape'
    BY DEF Shape, Rotating
  <2>files. Files'
    BY DEF Files, Rotating
  <2>order. Order'
    BY DEF Order
  <2> QED
    BY <2>files, <2>order, <2>1, <2>2, <2>3 DEF LogInv, TypeOK
<1>2. CASE OpenFresh
  <2> USE <1>2 DEF OpenFresh, Opened
  <2>1. TypeRecs' /\ TypeSnap' /\ TypeCommit' /\ TypeFlush'
    BY DEF TypeRecs, TypeSnap, TypeCommit, TypeFlush
  <2>2. TypeTold'
    BY ReplayType DEF TypeTold
  <2>3. TypeDisk'
    BY DEF TypeDisk, SegIds
  <2>4. TypeMem'
    BY DEF TypeMem, TypeSnap, Lsns, SegIds
  <2>5. Shape'
    BY DEF Shape, Rotating, TypeDisk
  <2>6. /\ written = {} /\ pending = {} /\ cpc = "idle" /\ kpc = "idle" /\ born = {}
        /\ \A s \in Flushers : fpc[s] = "idle"
    BY DEF Shape, Files, TypeDisk
  <2>files. Files'
    BY <2>6 DEF Files, Rotating
  <2>order. Order'
    BY <2>6, Numbers DEF Order
  <2> QED
    BY <2>files, <2>order, <2>1, <2>2, <2>3, <2>4, <2>5 DEF LogInv, TypeOK
<1>3. CASE OpenExisting
  <2> DEFINE kept == {s \in dir : s <= CutAt}
  <2>1. /\ written' = Readable
        /\ synced' = IF TornRecs = {} THEN synced
                     ELSE (synced \cap Readable)
                            \cup {r \in Readable : r.seg = CutAt}
        /\ \/ /\ CutAt \in sealed /\ CutAt + 1 \in SegIds
              /\ dir' = kept \cup {CutAt + 1} /\ up' = "creating"
              /\ Opened(CutAt + 1, LastUsed)
           \/ /\ CutAt \notin sealed
              /\ up' = "up" /\ dir' = kept
              /\ Opened(CutAt, LastUsed)
        /\ dirSynced' = dirSynced \cap kept
        /\ born' = born \cap kept /\ sealed' = sealed \cap kept
        /\ UNCHANGED <<base, snap, latches, commit, flush, ckpt, started, ckpts,
                       fsynced, flushOk, failed>>
        /\ dir # {} /\ Greatest(dir) \in born /\ ReplayOk
        /\ up \in {"down", "corrupt"}
    BY <1>3 DEF OpenExisting, CutAt
  <2>2. /\ CutAt \in dir /\ CutAt \in born /\ CutAt \in SegIds /\ CutAt \in Nat
        /\ \A r \in Readable : r.seg <= CutAt
    BY <2>1, CutType DEF TypeDisk, SegIds
  <2>3. /\ Readable \subseteq written /\ LastUsed \in Lsns
        /\ fence <= LastUsed /\ \A r \in Readable : r.lsn <= LastUsed
        /\ Replayed \subseteq Txs
    BY ReplayType
  <2>4. /\ pending' = {} /\ cpc' = "idle" /\ kpc' = "idle"
        /\ \A s \in Flushers : fpc'[s] = "idle"
        /\ next_lsn' = LastUsed + 1 /\ durable_lsn' = LastUsed
    BY <2>1 DEF Shape, Files, Opened
  <2>5. /\ born' \subseteq kept /\ sealed' \subseteq born' /\ CutAt \in born'
        /\ dirSynced' \subseteq kept /\ CutAt \in kept /\ dir' \subseteq SegIds
        /\ kept \subseteq dir' /\ \A s \in kept : s <= CutAt
        /\ \A s \in born : s <= CutAt => s \in born'
    <3>1. CutAt <= CutAt /\ kept \subseteq dir
      BY <2>2
    <3>2. dir' \subseteq SegIds
      BY <2>1, <3>1 DEF TypeDisk
    <3> QED
      BY <2>1, <2>2, <3>1, <3>2 DEF Shape, TypeDisk
  <2>6. TypeDisk'
    BY <2>1, <2>5 DEF TypeDisk
  <2>7. TypeRecs'
    <3>1. synced' \subseteq written'
      <4>1. TornRecs = {} => synced \subseteq Readable
        BY DEF TypeRecs, TornRecs, Readable, Good
      <4> QED
        BY <2>1, <4>1
    <3> QED
      BY <2>1, <2>3, <2>4, <3>1 DEF TypeRecs
  <2>8. TypeSnap' /\ TypeCommit' /\ TypeFlush'
    BY <2>1 DEF TypeSnap, TypeCommit, TypeFlush
  <2>9. TypeTold'
    BY <2>1, <2>3 DEF TypeTold, Opened
  <2>10. TypeMem'
    <3>1. LastUsed + 1 \in 1 .. MaxLsn
      BY <2>3 DEF Lsns
    <3>2. UNCHANGED <<headerSealed, bg_failure, poisoned>>
      BY <2>1 DEF Opened
    <3>3. active' \in SegIds /\ up' \in {"up", "creating"}
      BY <2>1, <2>2 DEF Opened
    <3> QED
      BY <2>3, <2>4, <3>1, <3>2, <3>3 DEF TypeMem
  <2>11. Shape'
    BY <2>1, <2>2, <2>4, <2>5 DEF Shape, Rotating, Opened
  <2>files. Files'
    <3>1. \A s \in dir' \ born' : s = CutAt + 1
      BY <2>1, <2>2, <2>5, CutType DEF Files
    <3>2. \A r \in Readable : r.seg \in born /\ r.seg <= CutAt
      BY <2>2, <2>3 DEF Files
    <3>3. \A r \in written' : r.seg \in born' /\ r.seg <= CutAt
      BY <2>1, <2>5, <3>2
    <3>4. \A s \in dir' : s \in Nat /\ (s <= CutAt \/ (up' = "creating" /\ s = CutAt + 1))
      BY <2>1, <2>2, <2>5 DEF SegIds
    <3>5. \/ up' = "up" /\ active' = CutAt
          \/ up' = "creating" /\ active' = CutAt + 1
      BY <2>1 DEF Opened
    <3>6. \A r \in written' : r.seg \in Nat
      BY <2>3, <2>1, Numbers
    <3> QED
      BY <2>2, <2>4, <3>1, <3>3, <3>4, <3>5, <3>6 DEF Files, Rotating
  <2>order. Order'
    <3>1. \A r, q \in written' : r.seg < q.seg => r.lsn < q.lsn
      BY <2>1, <2>3 DEF Order
    <3>2. \A r \in written' : r.lsn < next_lsn'
      BY <2>1, <2>3, <2>4, Numbers DEF Lsns
    <3>3. durable_lsn' < next_lsn' /\ fence' < next_lsn'
      BY <2>1, <2>3, <2>4, Numbers DEF Lsns
    <3> QED
      BY <2>4, <3>1, <3>2, <3>3 DEF Order
  <2> QED
    BY <2>files, <2>order, <2>6, <2>7, <2>8, <2>9, <2>10, <2>11 DEF LogInv, TypeOK
<1>4. CASE OpenCreate
  <2> USE <1>4 DEF OpenCreate
  <2>1. TypeRecs' /\ TypeSnap' /\ TypeMem' /\ TypeCommit' /\ TypeFlush' /\ TypeTold'
    BY DEF TypeRecs, TypeSnap, TypeMem, TypeCommit, TypeFlush, TypeTold
  <2>2. TypeDisk'
    BY DEF TypeDisk, TypeMem, Shape
  <2>3. Shape'
    BY DEF Shape, Rotating
  <2>files. Files'
    BY Numbers DEF Files, Rotating, Shape
  <2>order. Order'
    BY DEF Order
  <2> QED
    BY <2>files, <2>order, <2>1, <2>2, <2>3 DEF LogInv, TypeOK
<1>5. CASE OpenFail
  <2> USE <1>5 DEF OpenFail
  <2>1. /\ TypeDisk' /\ TypeRecs' /\ TypeSnap' /\ TypeCommit' /\ TypeFlush'
        /\ TypeTold'
    BY DEF TypeDisk, TypeRecs, TypeSnap, TypeCommit, TypeFlush, TypeTold
  <2>2. TypeMem'
    BY DEF TypeMem
  <2>3. Shape'
    BY DEF Shape, Rotating
  <2>files. Files'
    BY DEF Files, Rotating
  <2>order. Order'
    BY DEF Order
  <2> QED
    BY <2>files, <2>order, <2>1, <2>2, <2>3 DEF LogInv, TypeOK
<1>6. CASE OpenCreateFail
  <2> USE <1>6 DEF OpenCreateFail
  <2>1. TypeRecs' /\ TypeSnap' /\ TypeTold'
    BY StoppedType DEF TypeRecs, TypeSnap, TypeTold
  <2>2. TypeDisk'
    BY DEF TypeDisk, TypeMem, Shape
  <2>3. Shape'
    BY StoppedType DEF Shape
  <2>files. Files'
    BY StoppedType, Numbers DEF Files, Rotating, Shape
  <2>order. Order'
    BY StoppedType DEF Order
  <2> QED
    BY <2>files, <2>order, <2>1, <2>2, <2>3, StoppedType DEF LogInv, TypeOK
<1> QED
  BY <1>1, <1>2, <1>3, <1>4, <1>5, <1>6 DEF Open

\* The log's invariant is inductive.
LEMMA NextLogInv == LogInv /\ [Next]_vars => LogInv'
<1> SUFFICES ASSUME LogInv, [Next]_vars PROVE LogInv'
  OBVIOUS
<1>1. CASE Next
  BY <1>1, CommitLogInv, FlushLogInv, CkptLogInv, StopLogInv, OpenLogInv DEF Next
<1>2. CASE UNCHANGED vars
  <2>1. TypeOK'
    BY <1>2 DEF LogInv, TypeOK, TypeDisk, TypeRecs, TypeSnap, TypeMem, TypeCommit,
                TypeFlush, TypeTold, vars, disk, snap, mem, latches, commit, flush,
                ckpt, told
  <2>2. Shape' /\ Files' /\ Order'
    BY <1>2 DEF LogInv, Shape, Files, Order, Running, vars, disk, snap, mem, latches,
                commit, flush, ckpt, told
  <2> QED
    BY <2>1, <2>2 DEF LogInv
<1> QED
  BY <1>1, <1>2

\* Files and LSNs are in order in every reachable state.
LEMMA LogInvariant == Spec => []LogInv
  BY InitLogInv, NextLogInv, PTL DEF Spec

\* Type correctness for every value of the constants.  In particular alloc_lsn,
\* next_lsn_after, a rollback of next_lsn, and the snapshot-ahead-of-log case of
\* open_existing never hand out or store the last LSN.
THEOREM TypeCorrect == Spec => []TypeOK
  BY LogInvariant, PTL DEF LogInv

-----------------------------------------------------------------------------
(* Durability: what was fsynced stays on storage, and the snapshot holds   *)
(* what its fence hides.                                                   *)

\* Writing the buffer out: the unsynced records still end the log, in the
\* active segment, in front of any file a failed rotation left.
LEMMA WriteOutSync ==
  ASSUME SyncInv, up = "up"
  PROVE  LET W == written \cup pending IN
         /\ \A r \in W \ synced : r.seg = active /\ r.seg \notin sealed
         /\ \A r \in W \ synced, q \in synced : q.lsn < r.lsn
         /\ \A r \in W \ synced, t \in born : t <= r.seg \/ base[t] <= r.lsn
         /\ \A r \in W, t \in born : r.seg < t /\ t <= active => r.lsn < base[t]
<1>i. /\ TypeOK /\ Files /\ Order /\ UnsyncedTail /\ SealStops /\ LeftOver /\ Bases
  BY DEF SyncInv, LogInv
<1> USE DEF Unsynced, Running
<1>1. \A r \in written \cup pending : r \notin synced => r.seg = active /\ r.seg \notin sealed
  BY <1>i DEF Files, UnsyncedTail, SealStops
<1>2. \A r \in written \cup pending, q \in synced : r \notin synced => q.lsn < r.lsn
  BY <1>i DEF TypeOK, TypeRecs, Order, UnsyncedTail
<1>3. \A r \in written \cup pending, t \in born :
        /\ r \notin synced => t <= r.seg \/ base[t] <= r.lsn
        /\ r.seg < t /\ t <= active => r.lsn < base[t]
  BY <1>i, Numbers DEF TypeOK, TypeDisk, Files, LeftOver, Bases
<1> QED
  BY <1>1, <1>2, <1>3

\* A commit, with its rotation and its failures.
LEMMA CommitSync ==
  ASSUME SyncInv, CommitStep \/ \E n \in 1 .. MaxBatches : CommitLock(n)
  PROVE  /\ UnsyncedTail' /\ SealStops' /\ LeftOver' /\ InFlight'
         /\ Bases' /\ SnapCovers' /\ LiveCovers'
<1> USE BoundsAssumption
    DEF disk, files, snap, mem, latches, commit, flush, ckpt, told, Fails, Running,
        Rotating, Unsynced, Commits
<1>i. /\ TypeOK /\ LogInv /\ Shape /\ Files /\ Order /\ UnsyncedTail /\ SealStops
      /\ LeftOver /\ InFlight /\ Bases /\ SnapCovers /\ LiveCovers
  BY DEF SyncInv, LogInv
<1>1. ASSUME NEW n \in 1 .. MaxBatches, CommitLock(n)
      PROVE  /\ UnsyncedTail' /\ SealStops' /\ LeftOver' /\ InFlight'
             /\ Bases' /\ SnapCovers' /\ LiveCovers'
  <2> USE <1>1 DEF CommitLock, WriterFree
  <2>1. UnsyncedTail' /\ SealStops' /\ LeftOver' /\ InFlight'
    BY <1>i, Numbers DEF UnsyncedTail, SealStops, LeftOver, InFlight, Shape, Files, Order
  <2>2. Bases' /\ SnapCovers' /\ LiveCovers'
    BY <1>i, Numbers DEF Bases, SnapCovers, LiveCovers, Shape, Files, Order, UnsyncedTail
  <2> QED
    BY <2>1, <2>2
<1>2. CASE RotateFlush
  <2> USE <1>2 DEF RotateFlush, flush_buffer
  <2>up. up = "up"
    BY <1>i DEF Shape
  <2>1. SealStops' /\ LeftOver' /\ InFlight' /\ SnapCovers' /\ LiveCovers'
    BY <1>i, Numbers DEF SealStops, LeftOver, InFlight, SnapCovers, LiveCovers, Shape, Files, Order, UnsyncedTail
  <2>2. UnsyncedTail'
    BY <1>i, <2>up, WriteOutSync, Numbers DEF UnsyncedTail, TypeOK, TypeRecs
  <2>3. Bases'
    BY <1>i, <2>up, WriteOutSync DEF Bases
  <2> QED
    BY <2>1, <2>2, <2>3
<1>3. CASE RotateCreate
  <2> USE <1>3 DEF RotateCreate
  <2>1. UnsyncedTail' /\ SealStops' /\ LeftOver' /\ InFlight'
    BY <1>i, Numbers DEF UnsyncedTail, SealStops, LeftOver, InFlight, Shape, Files, Order
  <2>2. Bases' /\ SnapCovers' /\ LiveCovers'
    BY <1>i, Numbers DEF Bases, SnapCovers, LiveCovers, Shape, Files, Order, UnsyncedTail
  <2> QED
    BY <2>1, <2>2
<1>4. CASE RotateHeader
  <2> USE <1>4 DEF RotateHeader, WithEntry
  <2>up. up = "up" /\ Unsynced = {} /\ pending = {} /\ active + 1 \in SegIds
    BY <1>i DEF Shape, Files, UnsyncedTail, TypeOK, TypeDisk
  <2>b. \/ /\ born' = born \cup {active + 1} /\ base'[active + 1] = next_lsn
           /\ \A t \in SegIds \ {active + 1} : base'[t] = base[t]
           /\ cpc' \in {"syncdir", "failing"}
        \/ UNCHANGED <<born, base>> /\ cpc' = "failing"
    BY <1>i, <2>up DEF TypeOK, TypeDisk
  <2>t. /\ born \subseteq SegIds /\ born \subseteq dir /\ active \in Nat
        /\ \A t \in born : t <= active + 1
    BY <1>i, <2>up, Numbers DEF TypeOK, TypeDisk, Files
  <2>1. UnsyncedTail' /\ SealStops' /\ InFlight' /\ SnapCovers' /\ LiveCovers'
    BY <1>i, Numbers DEF UnsyncedTail, SealStops, InFlight, SnapCovers, LiveCovers, Shape, Files, Order
  <2>2. LeftOver'
    BY <1>i, <2>up, <2>b, <2>t, Numbers DEF LeftOver
  <2>3. Bases'
    BY <1>i, <2>up, <2>b, <2>t, Numbers DEF Bases
  <2> QED
    BY <2>1, <2>2, <2>3
<1>5. CASE RotateSyncDir
  <2> USE <1>5 DEF RotateSyncDir, DropNew
  <2>1. UnsyncedTail' /\ SealStops' /\ LeftOver' /\ InFlight'
    BY <1>i, Numbers DEF UnsyncedTail, SealStops, LeftOver, InFlight, Shape, Files, Order
  <2>2. Bases' /\ SnapCovers' /\ LiveCovers'
    BY <1>i, Numbers DEF Bases, SnapCovers, LiveCovers, Shape, Files, Order, UnsyncedTail
  <2> QED
    BY <2>1, <2>2
<1>6. CASE RotateSeal
  <2> USE <1>6 DEF RotateSeal, DropNew
  <2>up. /\ up = "up" /\ Unsynced = {} /\ pending = {} /\ active \in Nat
         /\ \A s \in sealed : s <= active
         /\ \A t \in born : t \in Nat /\ t <= active + 1
    BY <1>i, Numbers DEF Shape, Files, UnsyncedTail, TypeOK, TypeDisk
  <2>b. base[active + 1] = next_lsn /\ active + 1 \in born
    BY <1>i DEF Bases, Shape
  <2>1. UnsyncedTail' /\ InFlight' /\ SnapCovers' /\ LiveCovers'
    BY <1>i, Numbers DEF UnsyncedTail, InFlight, SnapCovers, LiveCovers, Shape, Files, Order
  <2>2. SealStops'
    <3>1. active + 1 \notin sealed
      BY <2>up
    <3>2. CASE active' = active + 1 /\ sealed' = sealed \cup {active}
               /\ headerSealed' = FALSE
      BY <2>up, <3>1, <3>2 DEF SealStops
    <3>3. CASE UNCHANGED active /\ cpc' = "failing" /\ headerSealed'
      BY <2>up, <3>3 DEF SealStops
    <3>4. CASE UNCHANGED <<active, sealed>> /\ cpc' = "failing" /\ ~headerSealed'
      <4>1. active \notin sealed
        BY <1>i, <2>up DEF SealStops
      <4> QED
        BY <2>up, <3>4, <4>1 DEF SealStops
    <3> QED
      BY <3>2, <3>3, <3>4
  <2>3. LeftOver'
    BY <1>i, <2>up, <2>b, Numbers DEF LeftOver
  <2>4. Bases'
    <3>1. \A r \in written : r.lsn < next_lsn
      BY <1>i, <2>up DEF Order
    <3> QED
      BY <1>i, <2>up, <2>b, <3>1, Numbers DEF Bases
  <2> QED
    BY <2>1, <2>2, <2>3, <2>4
<1>7. CASE AppendBegin
  <2> USE <1>7 DEF AppendBegin, Rec
  <2>n. /\ up = "up" /\ active \in Nat /\ \A t \in born : t \in Nat /\ t <= active
        /\ UNCHANGED <<born, active>>
    BY <1>i, Numbers DEF Shape, LeftOver, TypeOK, TypeDisk
  <2>1. UnsyncedTail' /\ SealStops' /\ InFlight' /\ Bases'
    BY <1>i, Numbers DEF UnsyncedTail, SealStops, InFlight, Bases, Shape, Files, Order
  <2>2. SnapCovers' /\ LiveCovers'
    BY <1>i, Numbers DEF SnapCovers, LiveCovers, Shape, Files, Order, UnsyncedTail
  <2>3. LeftOver'
    <3>1. \A r \in Unsynced' \cup pending' : r.seg = active
      BY <1>i, <2>n, RecFields DEF UnsyncedTail, Files
    <3> QED
      BY <2>n, <3>1 DEF LeftOver
  <2> QED
    BY <2>1, <2>2, <2>3
<1>8. CASE AppendBatch
  <2> USE <1>8 DEF AppendBatch, RollbackTx, Rec
  <2>n. /\ up = "up" /\ active \in Nat /\ \A t \in born : t \in Nat /\ t <= active
        /\ UNCHANGED <<born, active>>
    BY <1>i, Numbers DEF Shape, LeftOver, TypeOK, TypeDisk
  <2>1. SealStops' /\ InFlight' /\ SnapCovers' /\ LiveCovers'
    BY <1>i, Numbers DEF SealStops, InFlight, SnapCovers, LiveCovers, Shape, Files, Order, UnsyncedTail
  <2>2. UnsyncedTail'
    BY <1>i, <2>n, WriteOutSync DEF UnsyncedTail
  <2>3. LeftOver'
    <3>1. \A r \in Unsynced' \cup pending' : r.seg = active
      BY <1>i, <2>n, RecFields, WriteOutSync DEF UnsyncedTail, Files
    <3> QED
      BY <2>n, <3>1 DEF LeftOver
  <2>4. Bases'
    BY <1>i, <2>n, WriteOutSync DEF Bases
  <2> QED
    BY <2>1, <2>2, <2>3, <2>4
<1>9. CASE AppendCommit
  <2> USE <1>9 DEF AppendCommit, RollbackTx, Rec
  <2>n. /\ up = "up" /\ active \in Nat /\ \A t \in born : t \in Nat /\ t <= active
        /\ UNCHANGED <<born, active>>
    BY <1>i, Numbers DEF Shape, LeftOver, TypeOK, TypeDisk
  <2>1. UnsyncedTail' /\ SealStops' /\ InFlight' /\ Bases'
    BY <1>i, Numbers DEF UnsyncedTail, SealStops, InFlight, Bases, Shape, Files, Order
  <2>2. SnapCovers' /\ LiveCovers'
    BY <1>i, Numbers DEF SnapCovers, LiveCovers, Shape, Files, Order, UnsyncedTail
  <2>3. LeftOver'
    <3>1. \A r \in Unsynced' \cup pending' : r.seg = active
      BY <1>i, <2>n, RecFields DEF UnsyncedTail, Files
    <3> QED
      BY <2>n, <3>1 DEF LeftOver
  <2> QED
    BY <2>1, <2>2, <2>3
<1>10. CASE CommitFlush
  <2> USE <1>10 DEF CommitFlush, flush_buffer
  <2>up. up = "up"
    BY <1>i DEF Shape
  <2>1. SealStops' /\ LeftOver' /\ InFlight' /\ SnapCovers' /\ LiveCovers'
    BY <1>i, Numbers DEF SealStops, LeftOver, InFlight, SnapCovers, LiveCovers, Shape, Files, Order, UnsyncedTail
  <2>2. UnsyncedTail'
    BY <1>i, <2>up, WriteOutSync DEF UnsyncedTail
  <2>3. Bases'
    BY <1>i, <2>up, WriteOutSync DEF Bases
  <2> QED
    BY <2>1, <2>2, <2>3
<1>11. CASE CommitPoison
  <2> USE <1>11 DEF CommitPoison
  <2>1. UnsyncedTail' /\ SealStops' /\ LeftOver' /\ InFlight'
    BY <1>i, Numbers DEF UnsyncedTail, SealStops, LeftOver, InFlight, Shape, Files, Order
  <2>2. Bases' /\ SnapCovers' /\ LiveCovers'
    BY <1>i, Numbers DEF Bases, SnapCovers, LiveCovers, Shape, Files, Order, UnsyncedTail
  <2> QED
    BY <2>1, <2>2
<1> QED
  BY <1>1, <1>2, <1>3, <1>4, <1>5, <1>6, <1>7, <1>8, <1>9, <1>10, <1>11 DEF CommitStep

\* A flush.
LEMMA FlushSyncInv ==
  ASSUME SyncInv, NEW s \in Flushers, FlushCall(s) \/ FlushStep(s)
  PROVE  /\ UnsyncedTail' /\ SealStops' /\ LeftOver' /\ InFlight'
         /\ Bases' /\ SnapCovers' /\ LiveCovers'
<1> USE BoundsAssumption
    DEF disk, files, snap, mem, latches, commit, flush, ckpt, told, Fails, Running,
        Rotating, Unsynced, Commits
<1>i. /\ TypeOK /\ LogInv /\ Shape /\ Files /\ Order /\ UnsyncedTail /\ SealStops
      /\ LeftOver /\ InFlight /\ Bases /\ SnapCovers /\ LiveCovers
  BY DEF SyncInv, LogInv
<1>1. CASE FlushCall(s)
  <2> USE <1>1 DEF FlushCall, StateFree, FlushDone, FlushFailed
  <2>1. UnsyncedTail' /\ SealStops' /\ LeftOver' /\ InFlight'
    BY <1>i, Numbers DEF UnsyncedTail, SealStops, LeftOver, InFlight, Shape, Files, Order
  <2>2. Bases' /\ SnapCovers'
    BY <1>i, Numbers DEF Bases, SnapCovers, Shape, Files, Order, UnsyncedTail
  <2>3. LiveCovers'
    <3>1. s = "ckpt" /\ kpc = "fsync1" =>
            \A c \in written \cup pending : c.kind = "commit" => c.tx \in live
      BY <1>i DEF Shape, LiveCovers, Foreground
    <3> QED
      BY <1>i, <3>1 DEF LiveCovers, TypeOK, TypeFlush
  <2> QED
    BY <2>1, <2>2, <2>3
<1>2. CASE FlushWrite(s)
  <2> USE <1>2 DEF FlushWrite, StateFree, FlushDone, FlushFailed, flush_buffer
  <2>up. up = "up" /\ fpc[s] # "idle"
    BY <1>i DEF Shape
  <2>w. \/ written' = written \cup pending /\ pending' = {}
        \/ UNCHANGED <<written, pending>>
    OBVIOUS
  <2>1. SealStops' /\ SnapCovers'
    BY <1>i, Numbers DEF SealStops, SnapCovers, Shape, Files, Order, UnsyncedTail
  <2>2. UnsyncedTail'
    BY <1>i, <2>up, <2>w, WriteOutSync DEF UnsyncedTail
  <2>3. LeftOver'
    <3>1. \A r \in Unsynced' \cup pending', t \in born : t <= r.seg \/ base[t] <= r.lsn
      BY <1>i, <2>up, <2>w, WriteOutSync DEF LeftOver
    <3>2. poisoned => poisoned'
      OBVIOUS
    <3> QED
      BY <1>i, <2>up, <3>1, <3>2 DEF LeftOver
  <2>4. InFlight'
    <3>1. \A q \in Flushers, r \in written' :
            fpc[q] \in {"written", "synced"} /\ r.lsn <= flsn[q] => r \in written
      BY <1>i, <2>w, Numbers DEF Order
    <3>2. \A r \in written' : r \in synced \/ r.seg = active
      BY <1>i, <2>up, <2>w, WriteOutSync
    <3>3. CASE fpc' = [fpc EXCEPT ![s] = "idle"] /\ UNCHANGED <<fseg, flsn>>
      BY <1>i, <3>1, <3>3 DEF InFlight, TypeOK, TypeFlush
    <3>4. CASE /\ fpc' = [fpc EXCEPT ![s] = "written"]
               /\ fseg' = [fseg EXCEPT ![s] = active]
               /\ flsn' = [flsn EXCEPT ![s] = next_lsn - 1]
      <4>1. fpc'[s] = "written" /\ fseg'[s] = active
        BY <1>i, <3>4 DEF TypeOK, TypeFlush
      <4>2. \A q \in Flushers \ {s} :
              fpc'[q] = fpc[q] /\ fseg'[q] = fseg[q] /\ flsn'[q] = flsn[q]
        BY <1>i, <3>4 DEF TypeOK, TypeFlush
      <4> QED
        BY <1>i, <3>1, <3>2, <4>1, <4>2 DEF InFlight
    <3> QED
      BY <3>3, <3>4
  <2>5. Bases'
    BY <1>i, <2>up, <2>w, WriteOutSync DEF Bases
  <2>6. LiveCovers'
    <3>1. kpc' = "take" => kpc = "take" \/ (s = "ckpt" /\ kpc = "fsync1")
      BY DEF FlushDone, FlushFailed
    <3>2. \A q \in Flushers : fpc'[q] # "idle" => fpc[q] # "idle"
      BY <1>i, <2>up DEF TypeOK, TypeFlush, FlushDone, FlushFailed
    <3>3. kpc' = "fsync1" => kpc = "fsync1"
      BY DEF FlushDone, FlushFailed
    <3>4. poisoned => poisoned'
      BY DEF FlushFailed
    <3>5. written' \cup pending' = written \cup pending
      OBVIOUS
    <3>6. UNCHANGED <<up, commit, live>>
      OBVIOUS
    <3> QED
      BY <1>i, <2>up, <3>1, <3>2, <3>3, <3>4, <3>5, <3>6 DEF LiveCovers
  <2> QED
    BY <2>1, <2>2, <2>3, <2>4, <2>5, <2>6
<1>3. CASE FlushSync(s)
  <2> USE <1>3 DEF FlushSync, StateFree, FlushDone, FlushFailed, In
  <2>up. up = "up" /\ fpc[s] # "idle"
    BY <1>i DEF Shape
  <2>w. Unsynced' \subseteq Unsynced /\ synced \subseteq synced'
    OBVIOUS
  <2>1. UnsyncedTail' /\ SealStops' /\ Bases' /\ SnapCovers'
    BY <1>i, Numbers DEF UnsyncedTail, SealStops, Bases, SnapCovers, Shape, Files, Order
  <2>2. LeftOver'
    <3>1. poisoned => poisoned'
      OBVIOUS
    <3> QED
      BY <1>i, <2>w, <3>1 DEF LeftOver
  <2>3. InFlight'
    <3>1. \A q \in Flushers \ {s} : fpc'[q] = fpc[q]
      BY <1>i DEF TypeOK, TypeFlush
    <3>2. fpc'[s] = "idle" \/ (fpc'[s] = "synced" /\ synced' = synced \cup In(fseg[s]))
      BY <1>i DEF TypeOK, TypeFlush
    <3> QED
      BY <1>i, <2>w, <3>1, <3>2 DEF InFlight
  <2>4. LiveCovers'
    <3>1. kpc' = "take" => kpc = "take" \/ (s = "ckpt" /\ kpc = "fsync1")
      BY DEF FlushDone, FlushFailed
    <3>2. \A q \in Flushers : fpc'[q] # "idle" => fpc[q] # "idle"
      BY <1>i, <2>up DEF TypeOK, TypeFlush, FlushDone, FlushFailed
    <3>3. kpc' = "fsync1" => kpc = "fsync1"
      BY DEF FlushDone, FlushFailed
    <3>4. poisoned => poisoned'
      BY DEF FlushFailed
    <3>5. written' \cup pending' = written \cup pending
      OBVIOUS
    <3>6. UNCHANGED <<up, commit, live>>
      OBVIOUS
    <3> QED
      BY <1>i, <2>up, <3>1, <3>2, <3>3, <3>4, <3>5, <3>6 DEF LiveCovers
  <2> QED
    BY <2>1, <2>2, <2>3, <2>4
<1>4. CASE FlushAdvance(s)
  <2> USE <1>4 DEF FlushAdvance, StateFree, FlushDone, FlushFailed
  <2>1. UnsyncedTail' /\ SealStops' /\ LeftOver' /\ InFlight'
    BY <1>i, Numbers DEF UnsyncedTail, SealStops, LeftOver, InFlight, Shape, Files, Order
  <2>2. Bases' /\ SnapCovers' /\ LiveCovers'
    BY <1>i, Numbers DEF Bases, SnapCovers, LiveCovers, Shape, Files, Order, UnsyncedTail
  <2> QED
    BY <2>1, <2>2
<1> QED
  BY <1>1, <1>2, <1>3, <1>4 DEF FlushStep

\* A checkpoint.
LEMMA CkptSync ==
  ASSUME SyncInv, CkptStart \/ CkptStep
  PROVE  /\ UnsyncedTail' /\ SealStops' /\ LeftOver' /\ InFlight'
         /\ Bases' /\ SnapCovers' /\ LiveCovers'
<1> USE BoundsAssumption
    DEF disk, files, snap, mem, latches, commit, flush, ckpt, told, Fails, Running,
        Rotating, Unsynced, Commits
<1>i. /\ TypeOK /\ LogInv /\ Shape /\ Files /\ Order /\ UnsyncedTail /\ SealStops
      /\ LeftOver /\ InFlight /\ Bases /\ SnapCovers /\ LiveCovers
  BY DEF SyncInv, LogInv
<1>1. CASE CkptStart
  <2> USE <1>1 DEF CkptStart, WriterFree
  <2>1. UnsyncedTail' /\ SealStops' /\ LeftOver' /\ InFlight'
    BY <1>i, Numbers DEF UnsyncedTail, SealStops, LeftOver, InFlight, Shape, Files, Order
  <2>2. Bases' /\ SnapCovers' /\ LiveCovers'
    BY <1>i, Numbers DEF Bases, SnapCovers, LiveCovers, Shape, Files, Order, UnsyncedTail
  <2> QED
    BY <2>1, <2>2
<1>2. CASE CkptTake
  <2> USE <1>2 DEF CkptTake
  <2>1. UnsyncedTail' /\ SealStops' /\ LeftOver' /\ InFlight'
    BY <1>i, Numbers DEF UnsyncedTail, SealStops, LeftOver, InFlight, Shape, Files, Order
  <2>2. Bases' /\ LiveCovers'
    BY <1>i, Numbers DEF Bases, LiveCovers, Shape, Files, Order, UnsyncedTail
  <2>3. SnapCovers'
    BY <1>i DEF SnapCovers, LiveCovers, Shape
  <2> QED
    BY <2>1, <2>2, <2>3
<1>3. CASE CkptInstall
  <2> USE <1>3 DEF CkptInstall
  <2>1. UnsyncedTail' /\ SealStops' /\ LeftOver' /\ InFlight'
    BY <1>i, Numbers DEF UnsyncedTail, SealStops, LeftOver, InFlight, Shape, Files, Order
  <2>2. Bases' /\ SnapCovers' /\ LiveCovers'
    BY <1>i, Numbers DEF Bases, SnapCovers, LiveCovers, Shape, Files, Order, UnsyncedTail
  <2> QED
    BY <2>1, <2>2
<1>4. CASE CkptMark
  <2> USE <1>4 DEF CkptMark, StateFree, Rec
  <2>up. up = "up"
    BY <1>i DEF Shape
  <2>1. UnsyncedTail' /\ SealStops' /\ InFlight' /\ Bases'
    BY <1>i, Numbers DEF UnsyncedTail, SealStops, InFlight, Bases, Shape, Files, Order
  <2>2. SnapCovers' /\ LiveCovers'
    BY <1>i, Numbers DEF SnapCovers, LiveCovers, Shape, Files, Order, UnsyncedTail
  <2>3. LeftOver'
    BY <1>i, <2>up, RecFields, Numbers DEF LeftOver, TypeOK, TypeDisk
  <2> QED
    BY <2>1, <2>2, <2>3
<1>5. CASE CkptTruncate
  <2> USE <1>5 DEF CkptTruncate, StateFree
  <2>1. UnsyncedTail' /\ SealStops' /\ LeftOver' /\ InFlight'
    BY <1>i, Numbers DEF UnsyncedTail, SealStops, LeftOver, InFlight, Shape, Files, Order
  <2>2. Bases' /\ SnapCovers' /\ LiveCovers'
    BY <1>i, Numbers DEF Bases, SnapCovers, LiveCovers, Shape, Files, Order, UnsyncedTail
  <2> QED
    BY <2>1, <2>2
<1>6. CASE CkptAbandon
  <2> USE <1>6 DEF CkptAbandon
  <2>1. UnsyncedTail' /\ SealStops' /\ LeftOver' /\ InFlight'
    BY <1>i, Numbers DEF UnsyncedTail, SealStops, LeftOver, InFlight, Shape, Files, Order
  <2>2. Bases' /\ SnapCovers' /\ LiveCovers'
    BY <1>i, Numbers DEF Bases, SnapCovers, LiveCovers, Shape, Files, Order, UnsyncedTail
  <2> QED
    BY <2>1, <2>2
<1> QED
  BY <1>1, <1>2, <1>3, <1>4, <1>5, <1>6 DEF CkptStep

\* A crash, a power loss or a clean stop.
LEMMA StopSync ==
  ASSUME SyncInv, Crash \/ PowerLoss \/ Drop
  PROVE  /\ UnsyncedTail' /\ SealStops' /\ LeftOver' /\ InFlight'
         /\ Bases' /\ SnapCovers' /\ LiveCovers'
<1> USE BoundsAssumption
    DEF disk, files, snap, mem, latches, commit, flush, ckpt, told, Fails, Running,
        Rotating, Unsynced, Commits
<1>i. /\ TypeOK /\ LogInv /\ Shape /\ Files /\ Order /\ UnsyncedTail /\ SealStops
      /\ LeftOver /\ InFlight /\ Bases /\ SnapCovers /\ LiveCovers
  BY DEF SyncInv, LogInv
<1>1. CASE Crash
  <2> USE <1>1 DEF Crash, Stopped
  <2>1. UnsyncedTail' /\ SealStops' /\ LeftOver' /\ InFlight'
    BY <1>i, Numbers DEF UnsyncedTail, SealStops, LeftOver, InFlight, Shape, Files, Order
  <2>2. Bases' /\ SnapCovers' /\ LiveCovers'
    BY <1>i, Numbers DEF Bases, SnapCovers, LiveCovers, Shape, Files, Order, UnsyncedTail
  <2> QED
    BY <2>1, <2>2
<1>2. CASE PowerLoss
  <2> USE <1>2 DEF PowerLoss
  <2>s. /\ up' = "down" /\ Unsynced' = {} /\ pending' = {} /\ cpc' = "idle"
        /\ \A s \in Flushers : fpc'[s] = "idle"
    BY <1>i DEF Shape, Files
  <2>1. UnsyncedTail' /\ LiveCovers'
    BY <1>i, Numbers DEF UnsyncedTail, LiveCovers, Shape, Files, Order
  <2>2. SealStops'
    BY <1>i, <2>s DEF SealStops
  <2>3. LeftOver'
    BY <2>s DEF LeftOver
  <2>4. InFlight'
    BY <2>s DEF InFlight
  <2>5. Bases'
    BY <2>s DEF Bases
  <2>6. SnapCovers'
    <3>1. \A r \in written' : r.kind = "commit" => r \in written
      BY <1>i DEF Torn, TypeOK, TypeRecs, Record
    <3> QED
      BY <1>i, <3>1 DEF SnapCovers, Shape, Files
  <2> QED
    BY <2>1, <2>2, <2>3, <2>4, <2>5, <2>6
<1>3. CASE Drop
  <2> USE <1>3 DEF Drop, Stopped
  <2>1. SealStops' /\ LeftOver' /\ InFlight' /\ Bases'
    BY <1>i, Numbers DEF SealStops, LeftOver, InFlight, Bases, Shape, Files, Order, UnsyncedTail
  <2>2. SnapCovers' /\ LiveCovers'
    BY <1>i, Numbers DEF SnapCovers, LiveCovers, Shape, Files, Order, UnsyncedTail
  <2>3. UnsyncedTail'
    <3>1. \A r \in written' \ synced' : r.seg \notin sealed
      BY <1>i, WriteOutSync DEF UnsyncedTail
    <3>2. \A r \in written' \ synced', q \in synced' : q.lsn < r.lsn
      BY <1>i, WriteOutSync DEF UnsyncedTail
    <3> QED
      BY <3>1, <3>2 DEF UnsyncedTail
  <2> QED
    BY <2>1, <2>2, <2>3
<1> QED
  BY <1>1, <1>2, <1>3 DEF Stopped

\* An open.
LEMMA OpenSync ==
  ASSUME SyncInv, Open
  PROVE  /\ UnsyncedTail' /\ SealStops' /\ LeftOver' /\ InFlight'
         /\ Bases' /\ SnapCovers' /\ LiveCovers'
<1> USE BoundsAssumption
    DEF disk, files, snap, mem, latches, commit, flush, ckpt, told, Fails, Running,
        Rotating, Unsynced, Commits
<1>i. /\ TypeOK /\ LogInv /\ Shape /\ Files /\ Order /\ UnsyncedTail /\ SealStops
      /\ LeftOver /\ InFlight /\ Bases /\ SnapCovers /\ LiveCovers
  BY DEF SyncInv, LogInv
<1>1. CASE DiscardUnborn
  <2> USE <1>1 DEF DiscardUnborn
  <2>1. UnsyncedTail' /\ SealStops' /\ LeftOver' /\ InFlight'
    BY <1>i, Numbers DEF UnsyncedTail, SealStops, LeftOver, InFlight, Shape, Files, Order
  <2>2. Bases' /\ SnapCovers' /\ LiveCovers'
    BY <1>i, Numbers DEF Bases, SnapCovers, LiveCovers, Shape, Files, Order, UnsyncedTail
  <2> QED
    BY <2>1, <2>2
<1>2. CASE OpenFresh
  <2> USE <1>2 DEF OpenFresh, Opened
  <2>e. /\ written = {} /\ pending = {} /\ born = {} /\ sealed = {} /\ snapTx \subseteq Replayed
        /\ cpc = "idle" /\ \A s \in Flushers : fpc[s] = "idle"
    BY <1>i DEF Shape, Files, TypeOK, TypeDisk, Replayed
  <2>1. UnsyncedTail'
    BY <1>i, <2>e DEF UnsyncedTail, Shape
  <2>2. SealStops'
    BY <1>i, <2>e DEF SealStops
  <2>3. LeftOver'
    BY <2>e DEF LeftOver
  <2>4. InFlight'
    BY <2>e DEF InFlight
  <2>5. Bases'
    BY <2>e DEF Bases
  <2>6. SnapCovers'
    BY <1>i, <2>e DEF SnapCovers, Shape
  <2>7. LiveCovers'
    BY <1>i, <2>e DEF LiveCovers, Shape
  <2> QED
    BY <2>1, <2>2, <2>3, <2>4, <2>5, <2>6, <2>7
<1>3. CASE OpenExisting
  <2> USE <1>3
  <2>1. /\ written' = Readable
        /\ synced' = IF TornRecs = {} THEN synced
                     ELSE (synced \cap Readable)
                            \cup {r \in Readable : r.seg = CutAt}
        /\ \/ CutAt \in sealed /\ up' = "creating" /\ active' = CutAt + 1
           \/ CutAt \notin sealed /\ up' = "up" /\ active' = CutAt
        /\ born' = {t \in born : t <= CutAt} /\ sealed' \subseteq sealed
        /\ live' = Replayed
        /\ UNCHANGED <<base, snap, latches, commit, flush, ckpt, pending, headerSealed>>
        /\ dir # {} /\ Greatest(dir) \in born /\ ReplayOk
        /\ up \in {"down", "corrupt"}
    <3>1. born \subseteq dir
      BY <1>i DEF TypeOK, TypeDisk
    <3> QED
      BY <3>1 DEF OpenExisting, CutAt, Opened
  <2>2. /\ CutAt \in born /\ CutAt \in Nat /\ \A t \in born : t \in Nat /\ t \in dir
        /\ \A r \in Readable : r.seg <= CutAt /\ r \in written /\ r.seg \in born
    BY <1>i, <2>1, CutType, ReplayType, Numbers DEF TypeOK, TypeDisk, Files
  <2>3. /\ pending' = {} /\ cpc' = "idle" /\ kpc' = "idle"
        /\ \A s \in Flushers : fpc'[s] = "idle"
    BY <1>i, <2>1 DEF Shape, Files
  <2>4. \A r \in Readable, t \in born : r.seg < t => r.lsn < base[t]
    BY <2>1, <2>2 DEF ReplayOk
  <2>5. \A r \in Readable : r \notin synced => r.seg = CutAt
    <3> SUFFICES ASSUME NEW r \in Readable, r \notin synced, r.seg # CutAt PROVE FALSE
      OBVIOUS
    <3>1. r.seg < CutAt /\ r.seg \in Nat
      BY <1>i, <2>2, Numbers
    <3>2. r.lsn < base[CutAt]
      BY <2>2, <2>4, <3>1
    <3>3. CutAt <= r.seg \/ base[CutAt] <= r.lsn
      BY <1>i, <2>2 DEF LeftOver
    <3>4. r.lsn \in Nat /\ base[CutAt] \in Nat
      BY <1>i, <2>2, Numbers DEF TypeOK, TypeDisk
    <3> QED
      BY <2>2, <3>1, <3>2, <3>3, <3>4
  <2>6. /\ Unsynced' \subseteq Unsynced /\ \A r \in Unsynced' : r.seg = CutAt
        /\ TornRecs = {} => synced' = synced
        /\ TornRecs # {} => Unsynced' = {}
    BY <2>1, <2>2, <2>5
  <2>7. CutAt \in sealed => Unsynced' = {}
    BY <1>i, <2>6 DEF UnsyncedTail
  <2>8. snapTx \subseteq Replayed /\
        \A c \in Readable : c.kind = "commit" => c.tx \in Replayed
    <3>1. \A c \in Readable : c.kind = "commit" /\ c.lsn <= fence => c.tx \in snapTx
      BY <1>i, <2>2 DEF SnapCovers
    <3> QED
      BY <1>i, <2>2, <3>1, Numbers DEF Replayed
  <2>20. UnsyncedTail'
    BY <1>i, <2>1, <2>3, <2>6, <2>7 DEF UnsyncedTail
  <2>21. SealStops'
    BY <1>i, <2>1, <2>3 DEF SealStops
  <2>22. LeftOver'
    <3>1. \A t \in born' : t \in Nat /\ t <= CutAt
      BY <2>1, <2>2
    <3>2. \A r \in Unsynced' \cup pending' : r.seg = CutAt
      BY <2>3, <2>6
    <3>3. up' = "up" => active' = CutAt
      BY <2>1
    <3> QED
      BY <2>2, <3>1, <3>2, <3>3 DEF LeftOver
  <2>23. InFlight'
    BY <2>3 DEF InFlight
  <2>24. Bases'
    <3>1. \A r \in written', t \in born' : r.seg < t => r.lsn < base'[t]
      BY <2>1, <2>4
    <3> QED
      BY <2>3, <3>1 DEF Bases
  <2>25. SnapCovers'
    BY <1>i, <2>1, <2>2, <2>3, <2>8 DEF SnapCovers
  <2>26. LiveCovers'
    BY <2>1, <2>3, <2>8 DEF LiveCovers
  <2> QED
    BY <2>20, <2>21, <2>22, <2>23, <2>24, <2>25, <2>26
<1>4. CASE OpenCreate
  <2> USE <1>4 DEF OpenCreate
  <2>e. /\ Unsynced = {} /\ pending = {} /\ active \in SegIds /\ active \notin born
        /\ active \notin sealed /\ \A t \in born : t \in SegIds /\ t <= active
    BY <1>i DEF Shape, Files, UnsyncedTail, TypeOK, TypeDisk, TypeMem
  <2>b. base'[active] = next_lsn /\ \A t \in born : base'[t] = base[t]
    BY <1>i, <2>e DEF TypeOK, TypeDisk
  <2>1. UnsyncedTail' /\ InFlight' /\ SnapCovers' /\ LiveCovers'
    BY <1>i, Numbers DEF UnsyncedTail, InFlight, SnapCovers, LiveCovers, Shape, Files, Order
  <2>2. SealStops'
    BY <1>i, <2>e DEF SealStops
  <2>3. LeftOver'
    BY <1>i, <2>e, Numbers DEF LeftOver, SegIds
  <2>4. Bases'
    BY <1>i, <2>e, <2>b DEF Bases, Order, Shape
  <2> QED
    BY <2>1, <2>2, <2>3, <2>4
<1>5. CASE OpenFail
  <2> USE <1>5 DEF OpenFail
  <2>1. UnsyncedTail' /\ SealStops' /\ LeftOver' /\ InFlight'
    BY <1>i, Numbers DEF UnsyncedTail, SealStops, LeftOver, InFlight, Shape, Files, Order
  <2>2. Bases' /\ SnapCovers' /\ LiveCovers'
    BY <1>i, Numbers DEF Bases, SnapCovers, LiveCovers, Shape, Files, Order, UnsyncedTail
  <2> QED
    BY <2>1, <2>2
<1>6. CASE OpenCreateFail
  <2> USE <1>6 DEF OpenCreateFail, Stopped
  <2>e. Unsynced = {} /\ Unsynced' = {} /\ pending' = {}
    BY <1>i DEF UnsyncedTail
  <2>1. UnsyncedTail' /\ SealStops' /\ LeftOver' /\ InFlight'
    BY <2>e DEF UnsyncedTail, SealStops, LeftOver, InFlight
  <2>2. Bases' /\ LiveCovers'
    BY DEF Bases, LiveCovers
  <2>3. SnapCovers'
    BY <1>i, <2>e DEF SnapCovers
  <2> QED
    BY <2>1, <2>2, <2>3
<1> QED
  BY <1>1, <1>2, <1>3, <1>4, <1>5, <1>6 DEF Open

\* Initially nothing is written and nothing covered.
LEMMA InitSync == Init => SyncInv
<1> SUFFICES ASSUME Init PROVE SyncInv
  OBVIOUS
<1> USE DEF Init, Unsynced, Running, Rotating, Commits
<1>1. UnsyncedTail /\ SealStops /\ LeftOver
  BY DEF UnsyncedTail, SealStops, LeftOver
<1>2. InFlight /\ Bases /\ SnapCovers /\ LiveCovers
  BY DEF InFlight, Bases, SnapCovers, LiveCovers
<1> QED
  BY <1>1, <1>2, InitLogInv DEF SyncInv

\* What is fsynced and what snapshots cover stays as it should in every step.
LEMMA NextSync == SyncInv /\ [Next]_vars => SyncInv'
<1> SUFFICES ASSUME SyncInv, [Next]_vars PROVE SyncInv'
  OBVIOUS
<1>1. LogInv'
  BY NextLogInv DEF SyncInv
<1>2. CASE Next
  BY <1>1, <1>2, CommitSync, FlushSyncInv, CkptSync, StopSync, OpenSync DEF Next, SyncInv
<1>3. CASE UNCHANGED vars
  <2> USE <1>3 DEF SyncInv, vars, disk, snap, mem, latches, commit, flush, ckpt, told,
                   Unsynced, Running
  <2>1. UnsyncedTail' /\ SealStops' /\ LeftOver' /\ InFlight'
    BY DEF UnsyncedTail, SealStops, LeftOver, InFlight
  <2>2. Bases' /\ SnapCovers' /\ LiveCovers'
    BY DEF Bases, SnapCovers, LiveCovers, Commits
  <2> QED
    BY <1>1, <2>1, <2>2
<1> QED
  BY <1>2, <1>3

\* So it does in every reachable state.
LEMMA SyncInvariant == Spec => []SyncInv
  BY InitSync, NextSync, PTL DEF Spec

\* A checkpoint never hides a transaction from replay that its snapshot does not
\* hold: checkpoint_locked and checkpoint_behind_writers take the graph and the
\* durable LSN together, and writers that commit while the snapshot is written
\* stay above its fence.
THEOREM SnapshotComplete == Spec => []SnapshotMatchesFence
<1>1. SyncInv => SnapshotMatchesFence
  BY DEF SyncInv, SnapCovers, SnapshotMatchesFence
<1> QED
  BY <1>1, SyncInvariant, PTL

-----------------------------------------------------------------------------
(* What was reported durable, on a file system whose fsync of a new file   *)
(* makes its directory entry durable.                                      *)

\* A record truncate_up_to drops is not above the fence.
LEMMA DroppedBelow ==
  ASSUME SyncInv, kpc = "truncate", NEW c \in written, c.seg \in Droppable(klsn)
  PROVE  c.lsn <= fence /\ klsn = fence /\ up = "up"
<1>i. /\ TypeOK /\ Shape /\ Files /\ Order /\ Bases /\ SnapCovers
  BY DEF SyncInv, LogInv
<1>up. up = "up" /\ active \in born /\ active \in dir
  BY <1>i DEF Shape, TypeOK, TypeDisk
<1>1. PICK t \in dir : /\ c.seg < t /\ base[t] - 1 <= klsn
                       /\ \A u \in dir : c.seg < u => t <= u
  BY DEF Droppable
<1>n. /\ c \in written /\ c.lsn \in Nat /\ c.seg \in Nat /\ t \in Nat /\ active \in Nat
      /\ base[t] \in Nat /\ klsn \in Nat
  BY <1>i, <1>1, Numbers DEF TypeOK, TypeDisk
<1>2. t <= active
  BY <1>up, <1>1, <1>n DEF Droppable
<1>3. t \in born
  <2> SUFFICES ASSUME t \notin born PROVE FALSE
    OBVIOUS
  <2>1. active <= t
    BY <1>i, <1>up, <1>1 DEF Files
  <2>2. t = active
    BY <2>1, <1>2, <1>n
  <2> QED
    BY <2>2, <1>up
<1>4. c.lsn < base[t]
  BY <1>i, <1>up, <1>1, <1>2, <1>3, <1>n DEF Bases, Running
<1>5. klsn = fence
  BY <1>i DEF SnapCovers
<1> QED
  BY <1>up, <1>1, <1>4, <1>5, <1>n

\* So its transaction is in the snapshot.
LEMMA DroppedCovered ==
  ASSUME SyncInv, kpc = "truncate",
         NEW c \in Commits(written), c.seg \in Droppable(klsn)
  PROVE  c.tx \in snapTx
  BY DroppedBelow DEF SyncInv, SnapCovers, Commits

\* Every step leaves what was fsynced in files whose entry is durable.
LEMMA NextEntries ==
  ASSUME Inv, Next, "entry_unsynced" \notin Faults
  PROVE  Entries'
<1> USE DEF disk, files, snap, mem, latches, commit, flush, ckpt, told, Fails, Running
<1>i. /\ TypeOK /\ LogInv /\ Shape /\ Files /\ UnsyncedTail /\ Kept /\ SyncInv
      /\ TypeDisk /\ TypeRecs
  BY DEF Inv, SyncInv, LogInv, TypeOK
<1>k. /\ dirSynced \subseteq dir /\ born \subseteq dir /\ sealed \subseteq dirSynced
      /\ \A s \in dir \ dirSynced : \A t \in dir : t <= s
      /\ \A r \in synced : r.seg \in dirSynced
      /\ cpc = "create" => active \in dirSynced
      /\ (\E r \in written : r.kind = "torn") => dirSynced = dir
  BY <1>i DEF Inv, Entries, TypeDisk
<1>n. active \in Nat /\ \A s \in dir : s \in Nat
  BY <1>i, Numbers
<1>w. \A seg : WithEntry(seg) = dirSynced \cup ({seg} \cap dir)
  BY DEF WithEntry
<1>r. \A r \in written : r.seg \in born
  BY <1>i DEF Files
<1>t. Running => \A r \in written \cup pending : r.kind # "torn"
  BY <1>i DEF Kept
<1>1. ASSUME NEW n \in 1 .. MaxBatches, CommitLock(n) PROVE Entries'
  BY <1>k, <1>1 DEF CommitLock, Entries
<1>2. CASE RotateFlush
  <2>1. up = "up" /\ active \in dir /\ \A r \in written' : r.kind # "torn"
    BY <1>i, <1>k, <1>t, <1>2 DEF RotateFlush, flush_buffer, Shape
  <2> QED
    BY <1>k, <1>w, <1>2, <2>1 DEF RotateFlush, Entries
<1>3. CASE RotateCreate
  <2>1. /\ up = "up" /\ \A t \in dir : t <= active + 1
        /\ active \in dirSynced /\ \A r \in written : r.kind # "torn"
    BY <1>i, <1>k, <1>t, <1>3 DEF RotateCreate, Shape, Files
  <2>2. CASE UNCHANGED dir
    BY <1>k, <1>3, <2>1, <2>2 DEF RotateCreate, Entries
  <2>3. CASE active + 1 \notin dir /\ dir' = dir \cup {active + 1}
    <3>1. dir \subseteq dirSynced
      <4> SUFFICES ASSUME NEW s \in dir, s \notin dirSynced PROVE FALSE
        OBVIOUS
      <4>1. active <= s /\ s <= active + 1 /\ s # active + 1 /\ s # active
        BY <1>k, <2>1, <2>3
      <4> QED
        BY <1>n, <4>1
    <3> QED
      BY <1>k, <1>n, <1>3, <2>1, <2>3, <3>1 DEF RotateCreate, Entries
  <2> QED
    BY <1>3, <2>2, <2>3 DEF RotateCreate
<1>4. CASE RotateHeader
  BY <1>k, <1>w, <1>4 DEF RotateHeader, Entries
<1>5. CASE RotateSyncDir
  <2>1. active + 1 \in dir /\ active + 1 \notin sealed /\ Unsynced = {}
    BY <1>i, <1>5, <1>n DEF RotateSyncDir, Shape, Rotating, UnsyncedTail, Running
  <2>2. \A r \in synced : r.seg # active + 1
    BY <1>i, <1>5, <1>n DEF RotateSyncDir, Shape, Rotating, Files, TypeRecs
  <2> QED
    BY <1>i, <1>k, <1>5, <1>t, <2>1, <2>2 DEF RotateSyncDir, DropNew, Entries, Shape
<1>6. CASE RotateSeal
  <2>1. active + 1 \in dir /\ active + 1 \notin sealed /\ up = "up" /\ active \in dir
    BY <1>i, <1>k, <1>6, <1>n DEF RotateSeal, Shape, Rotating, Running
  <2>2. \A r \in synced : r.seg # active + 1
    BY <1>i, <1>6, <1>n, <2>1 DEF Files, TypeRecs
  <2>3. active \in dirSynced
    BY <1>k, <1>n, <2>1
  <2>4. /\ cpc' \in {"append", "failing"} /\ UNCHANGED <<written, synced>>
        /\ sealed' \subseteq sealed \cup {active}
        /\ \/ UNCHANGED <<dir, dirSynced>>
           \/ dir' = dir \ {active + 1} /\ dirSynced' = dirSynced \ {active + 1}
    BY <1>6 DEF RotateSeal, DropNew
  <2>5. sealed' \subseteq dirSynced'
    BY <1>k, <1>n, <2>1, <2>3, <2>4
  <2>6. \A r \in written' : r.kind # "torn"
    BY <1>t, <2>1, <2>4
  <2> QED
    BY <1>k, <2>2, <2>4, <2>5, <2>6 DEF Entries
<1>7. CASE AppendBegin
  BY <1>k, <1>7 DEF AppendBegin, Entries
<1>8. CASE AppendBatch
  <2>1. \A r \in written' : r.kind # "torn"
    BY <1>i, <1>t, <1>8 DEF AppendBatch, Shape
  <2> QED
    BY <1>k, <1>8, <2>1 DEF AppendBatch, RollbackTx, Entries
<1>9. CASE AppendCommit
  BY <1>k, <1>9 DEF AppendCommit, RollbackTx, Entries
<1>10. CASE CommitFlush
  <2>1. \A r \in written' : r.kind # "torn"
    BY <1>i, <1>t, <1>10 DEF CommitFlush, flush_buffer, Shape
  <2> QED
    BY <1>k, <1>10, <2>1 DEF CommitFlush, Entries
<1>11. CASE CommitPoison
  BY <1>k, <1>11 DEF CommitPoison, Entries
<1>12. ASSUME NEW s \in Flushers, FlushCall(s) \/ FlushAdvance(s) PROVE Entries'
  BY <1>k, <1>12 DEF FlushCall, FlushAdvance, Entries
<1>13. ASSUME NEW s \in Flushers, FlushWrite(s) PROVE Entries'
  <2>1. \A r \in written' : r.kind # "torn"
    BY <1>i, <1>t, <1>13 DEF FlushWrite, flush_buffer, Shape
  <2> QED
    BY <1>k, <1>13, <2>1 DEF FlushWrite, Entries
<1>14. ASSUME NEW s \in Flushers, FlushSync(s) PROVE Entries'
  <2>1. \A r \in written : r.kind # "torn"
    BY <1>i, <1>t, <1>14 DEF FlushSync, Shape
  <2>2. \/ UNCHANGED <<synced, dirSynced>>
        \/ synced' = synced \cup In(fseg[s]) /\ dirSynced' = WithEntry(fseg[s])
    BY <1>14 DEF FlushSync
  <2>3. UNCHANGED <<dir, sealed, written, cpc, active>>
    BY <1>14 DEF FlushSync
  <2>4. \A r \in synced' : r.seg \in dirSynced'
    BY <1>k, <1>r, <1>w, <2>2 DEF In
  <2>5. dirSynced \subseteq dirSynced'
    BY <1>w, <2>2
  <2> QED
    BY <1>k, <2>1, <2>3, <2>4, <2>5 DEF Entries
<1>15. CASE CkptStart \/ CkptTake \/ CkptAbandon \/ CkptInstall \/ CkptMark
  BY <1>k, <1>15 DEF CkptStart, CkptTake, CkptAbandon, CkptInstall, CkptMark, Entries
<1>16. CASE CkptTruncate
  <2>1. PICK last \in {0} \cup Droppable(klsn) :
          LET gone == {t \in Droppable(klsn) : t <= last} IN
          /\ dir' = dir \ gone /\ dirSynced' = dirSynced \ gone
          /\ sealed' = sealed \ gone
          /\ written' = {r \in written : r.seg \notin gone}
          /\ synced' = {r \in synced : r.seg \notin gone}
    BY <1>16 DEF CkptTruncate
  <2>2. /\ up = "up" /\ cpc \notin {"create"} /\ UNCHANGED cpc
        /\ \A r \in written : r.kind # "torn"
    BY <1>i, <1>t, <1>16 DEF CkptTruncate, Shape, StateFree
  <2> QED
    BY <1>k, <2>1, <2>2 DEF Entries
<1>17. CASE Crash
  BY <1>k, <1>17 DEF Crash, Stopped, Entries
<1>18. CASE Drop
  <2>1. active \in dir /\ \A r \in written' : r.kind # "torn"
    BY <1>i, <1>k, <1>t, <1>18 DEF Drop, Shape
  <2>2. /\ \A r \in synced' : r.seg \in dirSynced'
        /\ dirSynced \subseteq dirSynced'
    BY <1>k, <1>w, <1>18, <2>1 DEF Drop
  <2> QED
    BY <1>k, <1>18, <2>1, <2>2 DEF Drop, Stopped, Entries
<1>19. CASE PowerLoss
  <2>1. /\ dirSynced' = dir' /\ synced' = written' /\ cpc' = cpc /\ up \notin {"up"}
        /\ \E lostDirs \in SUBSET (dir \ dirSynced) :
             /\ sealed' = sealed \ lostDirs /\ dir' = dir \ lostDirs
             /\ \A r \in written' : r.seg \notin lostDirs
    BY <1>19 DEF PowerLoss
  <2>2. \A r \in written' : \E q \in written : q.seg = r.seg
    BY <1>i, <1>19, TornType DEF PowerLoss, TypeRecs
  <2>3. \A r \in written' : r.seg \in dir'
    BY <1>k, <1>r, <2>1, <2>2
  <2> QED
    BY <1>i, <1>k, <2>1, <2>3 DEF Entries, Shape
<1>20. CASE DiscardUnborn
  <2>1. /\ dir' = dir \ {Greatest(dir)} /\ dirSynced' = dirSynced \ {Greatest(dir)}
        /\ Greatest(dir) \notin born /\ UNCHANGED <<born, sealed, written, synced, cpc, up>>
        /\ up = "down"
    BY <1>20 DEF DiscardUnborn
  <2>2. cpc = "idle" /\ sealed \subseteq born
    BY <1>i, <2>1 DEF Shape
  <2> QED
    BY <1>i, <1>k, <1>r, <2>1, <2>2 DEF Entries, TypeRecs
<1>21. CASE OpenFresh
  <2>1. written = {} /\ synced = {} /\ sealed = {} /\ cpc = "idle"
    BY <1>i, <1>k, <1>r, <1>21 DEF OpenFresh, TypeRecs, Shape
  <2> QED
    BY <2>1, <1>21 DEF OpenFresh, Entries
<1>22. CASE OpenExisting
  <2> DEFINE keep == {s \in dir : s <= CutAt}
  <2>1. /\ written' = Readable
        /\ synced' = IF TornRecs = {} THEN synced
                     ELSE (synced \cap Readable)
                            \cup {r \in Readable : r.seg = CutAt}
        /\ dirSynced' = dirSynced \cap keep /\ sealed' = sealed \cap keep
        /\ \/ dir' = keep
           \/ CutAt \in sealed /\ dir' = keep \cup {CutAt + 1}
        /\ UNCHANGED cpc /\ up \in {"down", "corrupt"}
    BY <1>22 DEF OpenExisting, CutAt, Opened
  <2>2. (\A r \in Readable : r.kind # "torn") /\ Readable \subseteq written
    BY DEF Readable, Good
  <2>3. cpc = "idle"
    BY <1>i, <2>1 DEF Shape
  <2>5. /\ CutAt \in Nat /\ CutAt \in dir
        /\ \A r \in Readable : r.seg <= CutAt
    <3>1. dir # {} /\ Greatest(dir) \in born
      BY <1>22 DEF OpenExisting
    <3> QED
      BY <1>i, <1>n, <3>1, CutType
  <2>4. \A r \in synced' : r.seg \in dirSynced'
    <3>1. TornRecs = {} => Readable = written
      BY DEF Readable, Good, TornRecs
    <3>2. TornRecs # {} => dirSynced = dir
      BY <1>k DEF TornRecs
    <3>3. synced \subseteq written
      BY <1>i DEF TypeRecs
    <3> QED
      BY <1>k, <1>r, <2>1, <2>2, <2>5, <3>1, <3>2, <3>3
  <2>6. ASSUME NEW s \in dir', s \notin dirSynced', NEW t \in dir' PROVE t <= s
    <3>a. dir' = keep \/ dir' = keep \cup {CutAt + 1}
      BY <2>1
    <3>b. (t \in dir /\ t <= CutAt) \/ t = CutAt + 1
      BY <2>6, <3>a
    <3>1. t \in Nat /\ (t <= CutAt \/ t = CutAt + 1)
      <4>1. CutAt \in Nat /\ \A x \in dir : x \in Nat
        BY <1>n, <2>5
      <4> QED
        BY <3>b, <4>1
    <3>2. CASE s \in keep
      <4>1. s \in dir \ dirSynced /\ s = CutAt /\ CutAt \notin dirSynced
        BY <1>k, <1>n, <2>1, <2>5, <2>6, <3>2
      <4> QED
        BY <1>k, <1>n, <2>1, <2>5, <2>6, <4>1
    <3> QED
      BY <1>n, <2>1, <2>5, <2>6, <3>1, <3>2
  <2> QED
    BY <1>k, <2>1, <2>2, <2>3, <2>4, <2>6 DEF Entries
<1>23. CASE OpenCreate
  BY <1>i, <1>k, <1>23 DEF OpenCreate, Entries, Shape
<1>24. CASE OpenCreateFail
  BY <1>k, <1>24 DEF OpenCreateFail, Stopped, Entries
<1>25. CASE OpenFail
  BY <1>k, <1>25 DEF OpenFail, Entries
<1> QED
  BY <1>1, <1>2, <1>3, <1>4, <1>5, <1>6, <1>7, <1>8, <1>9, <1>10, <1>11, <1>12, <1>13,
     <1>14, <1>15, <1>16, <1>17, <1>18, <1>19, <1>20, <1>21, <1>22, <1>23, <1>24, <1>25
  DEF Next, CommitStep, FlushStep, CkptStep, Open

\* Every step keeps what was reported durable.
LEMMA NextKept ==
  ASSUME Inv, Next, "entry_unsynced" \notin Faults
  PROVE  Kept'
<1> USE DEF disk, files, snap, mem, latches, commit, flush, ckpt, told, Fails, Running,
            Commits
<1>i. /\ TypeOK /\ LogInv /\ Shape /\ Files /\ Order /\ UnsyncedTail /\ InFlight
      /\ SnapCovers /\ Kept /\ SyncInv
  BY DEF Inv, SyncInv, LogInv
<1>k. (\A r \in synced : r.seg \in dirSynced) /\ synced \subseteq written
  BY <1>i DEF Inv, Entries, TypeOK, TypeRecs
<1>1. ASSUME NEW n \in 1 .. MaxBatches, CommitLock(n) PROVE Kept'
  BY <1>i, <1>1 DEF CommitLock, Kept
<1>2. CASE RotateFlush
  BY <1>i, <1>2 DEF RotateFlush, flush_buffer, Kept, Shape
<1>3. CASE RotateCreate
  BY <1>i, <1>3 DEF RotateCreate, Kept
<1>4. CASE RotateHeader
  BY <1>i, <1>4 DEF RotateHeader, WithEntry, Kept
<1>5. CASE RotateSyncDir
  BY <1>i, <1>k, <1>5 DEF RotateSyncDir, DropNew, Kept, TypeOK, TypeDisk
<1>6. CASE RotateSeal
  BY <1>i, <1>6 DEF RotateSeal, DropNew, Kept
<1>7. CASE AppendBegin
  BY <1>i, <1>7, RecFields DEF AppendBegin, Kept
<1>8. CASE AppendBatch
  BY <1>i, <1>8, RecFields DEF AppendBatch, RollbackTx, Kept
<1>9. CASE AppendCommit
  BY <1>i, <1>9, RecFields DEF AppendCommit, RollbackTx, Kept
<1>10. CASE CommitFlush
  BY <1>i, <1>10 DEF CommitFlush, flush_buffer, Kept, Shape
<1>11. CASE CommitPoison
  BY <1>i, <1>11 DEF CommitPoison, Kept
<1>12. ASSUME NEW s \in Flushers, FlushCall(s) \/ FlushWrite(s) \/ FlushSync(s)
       PROVE  Kept'
  BY <1>i, <1>12 DEF FlushCall, FlushWrite, FlushSync, flush_buffer, FlushDone,
                     FlushFailed, Kept, Shape
<1>13. ASSUME NEW s \in Flushers, FlushAdvance(s) PROVE Kept'
  <2>1. up = "up" /\ \A r \in written : r.kind # "torn"
    BY <1>i, <1>13 DEF FlushAdvance, Shape, Kept
  <2>2. \A t \in TxUpTo(written, flsn[s]) : \E c \in synced : c.kind = "commit" /\ c.tx = t
    BY <1>i, <1>13 DEF FlushAdvance, InFlight, TxUpTo
  <2> QED
    BY <1>i, <1>13, <2>1, <2>2 DEF FlushAdvance, FlushDone, Kept
<1>14. CASE CkptStart \/ CkptTake \/ CkptAbandon
  BY <1>i, <1>14 DEF CkptStart, CkptTake, CkptAbandon, Kept
<1>15. CASE CkptInstall
  BY <1>i, <1>15 DEF CkptInstall, SnapCovers, Kept
<1>16. CASE CkptMark
  BY <1>i, <1>16, RecFields DEF CkptMark, Kept
<1>17. CASE CkptTruncate
  <2>1. PICK last \in {0} \cup Droppable(klsn) :
          LET gone == {t \in Droppable(klsn) : t <= last} IN
          /\ dir' = dir \ gone /\ dirSynced' = dirSynced \ gone
          /\ born' = born \ gone
          /\ written' = {r \in written : r.seg \notin gone}
          /\ synced' = {r \in synced : r.seg \notin gone}
    BY <1>17 DEF CkptTruncate
  <2>2. UNCHANGED <<snapTx, fsynced, up, pending>> /\ kpc = "truncate"
    BY <1>17 DEF CkptTruncate
  <2>3. written' \subseteq written
    BY <2>1
  <2>4. \A c \in synced : c.kind = "commit" => c \in synced' \/ c.tx \in snapTx
    <3>1. \A c \in synced : c \in synced' \/ c.seg \in Droppable(klsn)
      BY <2>1
    <3> QED
      BY <1>i, <1>k, <2>2, <3>1, DroppedCovered
  <2> QED
    BY <1>i, <2>2, <2>3, <2>4 DEF Kept
<1>18. CASE Crash \/ Drop
  BY <1>i, <1>18 DEF Crash, Drop, Stopped, Kept
<1>19. CASE PowerLoss
  <2>1. PICK kept \in SUBSET (written \ synced), lostDirs \in SUBSET (dir \ dirSynced) :
          /\ synced' = written' /\ dirSynced' = dir' /\ born' \subseteq dir'
          /\ \A r \in synced : r.seg \notin lostDirs => r \in written'
          /\ \A r \in written' : \/ r \in written
                                 \/ \E l \in written \ synced : r = Torn(l)
          /\ up' = "down" /\ UNCHANGED <<snapTx, fsynced, pending>>
    <3>1. born \subseteq dir
      BY <1>i DEF TypeOK, TypeDisk
    <3> QED
      BY <1>19, <1>k, <3>1 DEF PowerLoss
  <2>2. \A r \in synced : r.seg \notin lostDirs
    BY <1>i, <1>k DEF Files
  <2>3. \A c \in synced, r \in written' :
          (\A q \in written : q.kind = "torn" => c.lsn < q.lsn) /\ r.kind = "torn"
            => c.lsn < r.lsn
    BY <1>i, <2>1, TornType DEF UnsyncedTail, Unsynced, TypeOK, TypeRecs
  <2>4. \A r \in pending' : r.kind # "torn"
    BY <1>i, <2>1 DEF Kept
  <2>5. \A t \in fsynced' :
          \/ t \in snapTx'
          \/ \E c \in synced' : /\ c.kind = "commit" /\ c.tx = t
                               /\ \A r \in written' : r.kind = "torn" => c.lsn < r.lsn
    BY <1>i, <2>1, <2>2, <2>3 DEF Kept
  <2> QED
    BY <2>1, <2>4, <2>5 DEF Kept
<1>20. CASE DiscardUnborn
  BY <1>i, <1>k, <1>20 DEF DiscardUnborn, Kept
<1>21. CASE OpenFresh
  <2>1. written = {} /\ born = {}
    BY <1>i, <1>21 DEF OpenFresh, Files, TypeOK, TypeDisk
  <2> QED
    BY <1>i, <1>k, <1>21, <2>1 DEF OpenFresh, Opened, Kept
<1>22. CASE OpenExisting
  <2> DEFINE keep == {s \in dir : s <= CutAt}
  <2>1. /\ written' = Readable
        /\ synced' = IF TornRecs = {} THEN synced
                     ELSE (synced \cap Readable)
                            \cup {r \in Readable : r.seg = CutAt}
        /\ dirSynced' = dirSynced \cap keep /\ born' = born \cap keep
        /\ UNCHANGED <<snapTx, fsynced, pending>>
    BY <1>22 DEF OpenExisting, CutAt, Opened
  <2>2. \A r \in Readable : r.kind # "torn"
    BY DEF Readable, Good
  <2>3. \A c \in synced :
          c.kind = "commit" /\ (\A q \in written : q.kind = "torn" => c.lsn < q.lsn)
            => c \in Readable
    <3>1. TornRecs # {} => \E r \in TornRecs : r.lsn = FirstTorn
      BY <1>i, FirstTornType
    <3> QED
      BY <1>k, <3>1 DEF Readable, Good, TornRecs
  <2>4. \A c \in synced : c \in Readable => c \in synced'
    BY <2>1
  <2> QED
    BY <1>i, <1>k, <2>1, <2>2, <2>3, <2>4 DEF Kept
<1>23. CASE OpenCreate \/ OpenCreateFail
  BY <1>i, <1>23 DEF OpenCreate, OpenCreateFail, Stopped, Kept
<1>24. CASE OpenFail
  BY <1>i, <1>24 DEF OpenFail, Kept
<1> QED
  BY <1>1, <1>2, <1>3, <1>4, <1>5, <1>6, <1>7, <1>8, <1>9, <1>10, <1>11, <1>12, <1>13,
     <1>14, <1>15, <1>16, <1>17, <1>18, <1>19, <1>20, <1>21, <1>22, <1>23, <1>24
  DEF Next, CommitStep, FlushStep, CkptStep, Open

\* A transaction that an fsync covered stays on storage through every rotation,
\* flush, checkpoint, truncation, failed write, crash, power loss and reopen, with
\* any page order and lost removals: flush_inner reports no LSN durable that
\* recovery could lose.  Only the directory entry of a new segment is taken to be
\* durable once the file is fsynced.
THEOREM FsyncedDurable ==
  ASSUME "entry_unsynced" \notin Faults
  PROVE  Spec => []FsyncedStaysOnStorage
<1>1. Init => Inv
  <2>1. Init => Entries /\ Kept
    BY DEF Init, Entries, Kept, Running, Commits
  <2> QED
    BY <2>1, InitSync DEF Inv
<1>2. Inv /\ [Next]_vars => Inv'
  <2> SUFFICES ASSUME Inv, [Next]_vars PROVE Inv'
    OBVIOUS
  <2>1. SyncInv'
    BY NextSync DEF Inv
  <2>2. CASE Next
    BY <2>1, <2>2, NextKept, NextEntries DEF Inv
  <2>3. CASE UNCHANGED vars
    <3>1. Entries' /\ Kept'
      BY <2>3 DEF Inv, Entries, Kept, Running, Commits, vars, disk, snap, mem, latches, commit,
                  flush, ckpt, told
    <3> QED
      BY <2>1, <3>1 DEF Inv
  <2> QED
    BY <2>2, <2>3
<1>3. Inv => FsyncedStaysOnStorage
  <2> SUFFICES ASSUME Inv, NEW t \in fsynced PROVE t \in OnStorage
    BY DEF FsyncedStaysOnStorage
  <2>1. \A c \in synced : c.seg \in born /\ c.seg \in dirSynced
    BY DEF Inv, SyncInv, LogInv, Files, Entries, TypeOK, TypeRecs
  <2> QED
    BY <2>1 DEF Inv, Kept, OnStorage, Commits
<1> QED
  BY <1>1, <1>2, <1>3, PTL DEF Spec

-----------------------------------------------------------------------------
(***************************************************************************)
(* What a reopen finds.                                                    *)
(***************************************************************************)

\* Replay reads exactly the records in front of the first bad frame.
LEMMA SoundIsReadable ==
  ASSUME TypeOK
  PROVE  Sound = Readable /\ Sound \subseteq written
<1>1. \A r \in written : r.lsn \in Nat
  BY Numbers
<1>2. CASE TornRecs = {}
  BY <1>2 DEF Sound, Readable, Good, TornRecs
<1>3. CASE TornRecs # {}
  <2>1. PICK q \in TornRecs : q.lsn = FirstTorn /\ \A t \in TornRecs : q.lsn <= t.lsn
    BY <1>3, FirstTornType
  <2>2. \A r \in Good : r.lsn < FirstTorn <=> \A t \in TornRecs : r.lsn < t.lsn
    BY <1>1, <2>1 DEF Good, TornRecs
  <2>3. Readable = {r \in Good : r.lsn < FirstTorn}
    BY <1>3 DEF Readable
  <2> QED
    BY <2>2, <2>3 DEF Sound, Good, TornRecs
<1> QED
  BY <1>2, <1>3

\* With no bad frame, those are all records.
LEMMA SoundIsAll ==
  ASSUME \A r \in written : r.kind # "torn"
  PROVE  Sound = written
  BY DEF Sound

\* What a power loss leaves: nothing volatile, of a file it keeps everything
\* fsynced and, in front of the first bad frame, nothing is missing.
LEMMA PowerLossFacts ==
  ASSUME SyncInv, Frames, PowerLoss
  PROVE  /\ up \notin {"up", "creating"} /\ up' = "down" /\ pending = {} /\ pending' = {}
         /\ cpc = "idle" /\ cpc' = "idle" /\ kpc = "idle" /\ kpc' = "idle"
         /\ \A s \in Flushers : fpc[s] = "idle" /\ fpc'[s] = "idle"
         /\ UNCHANGED <<base, snap, mem, latches, commit, flush, ckpt, told>>
         /\ synced' = written' /\ dirSynced' = dir'
         /\ dirSynced \subseteq dir' /\ dir' \subseteq dir
         /\ born' = born \cap dir' /\ sealed' = sealed \cap dir'
         /\ \A r \in synced : r.seg \in dirSynced => r \in written'
         /\ \A r \in written' : r \in written \/ \E l \in Unsynced : r = Torn(l)
         /\ \A r, q \in written' : r.lsn = q.lsn => r = q
         /\ Sound' \subseteq Sound
         /\ \A r \in Sound', q \in Sound :
              q.lsn <= r.lsn /\ q.seg \in dir' => q \in Sound'
         /\ \A r \in synced \cap Sound : r.seg \in dirSynced => r \in Sound'
<1> USE DEF snap, mem, latches, commit, flush, ckpt, told, Running
<1>i. TypeOK /\ Shape /\ Files /\ UnsyncedTail /\ synced \subseteq written
  BY DEF SyncInv, LogInv, TypeOK, TypeRecs
<1>1. PICK kept \in SUBSET (written \ synced), partial \in BOOLEAN,
           lostDirs \in SUBSET (dir \ dirSynced) :
        LET lost == (written \ synced) \ kept
            holes == {l \in lost : \/ \E k \in kept : l.lsn < k.lsn
                                   \/ partial /\ \A m \in lost : l.lsn <= m.lsn}
            after == synced \cup kept \cup {Torn(l) : l \in holes}
        IN
        /\ up \notin {"up", "creating"}
        /\ written' = {r \in after : r.seg \notin lostDirs}
        /\ synced' = written'
        /\ dir' = dir \ lostDirs /\ dirSynced' = dir'
        /\ born' = born \ lostDirs /\ sealed' = sealed \ lostDirs
        /\ up' = "down"
        /\ UNCHANGED <<base, snap, mem, latches, commit, flush, ckpt, told>>
  BY DEF PowerLoss
<1> DEFINE lost == (written \ synced) \ kept
           holes == {l \in lost : \/ \E k \in kept : l.lsn < k.lsn
                                  \/ partial /\ \A m \in lost : l.lsn <= m.lsn}
<1>2. \A r : r \in written' <=> /\ r.seg \notin lostDirs
                               /\ \/ r \in synced \/ r \in kept
                                  \/ \E l \in holes : r = Torn(l)
  BY <1>1
<1>3. \A l \in holes : l \in written /\ l \notin synced /\ l \notin kept
  OBVIOUS
<1>4. \A l \in written : /\ Torn(l).lsn = l.lsn /\ Torn(l).seg = l.seg
                         /\ Torn(l).kind = "torn"
  BY <1>i DEF TypeOK, TypeRecs, Record, Torn
<1>5. \A l \in lost : (\E k \in kept : l.lsn < k.lsn) => l \in holes
  OBVIOUS
<1> HIDE DEF holes, lost
<1>6. /\ up \notin {"up", "creating"} /\ up' = "down" /\ pending = {} /\ pending' = {}
      /\ cpc = "idle" /\ cpc' = "idle" /\ kpc = "idle" /\ kpc' = "idle"
      /\ \A s \in Flushers : fpc[s] = "idle" /\ fpc'[s] = "idle"
  BY <1>i, <1>1 DEF Shape, Files
<1>7. \A r \in written' : r \in written \/ \E l \in Unsynced : r = Torn(l)
  BY <1>i, <1>2, <1>3 DEF Unsynced
<1>8. \A r \in written' : \E q \in written : q.lsn = r.lsn /\ (q = r \/ (q \in holes /\ r = Torn(q)))
  <2> SUFFICES ASSUME NEW r \in written'
               PROVE  \E q \in written : /\ q.lsn = r.lsn
                                         /\ q = r \/ (q \in holes /\ r = Torn(q))
    OBVIOUS
  <2>1. CASE r \in written
    BY <2>1
  <2>2. CASE r \notin written
    <3>1. PICK l \in holes : r = Torn(l)
      BY <1>i, <1>2, <2>2
    <3> QED
      BY <1>3, <1>4, <3>1
  <2> QED
    BY <2>1, <2>2
<1>9. \A r, q \in written' : r.lsn = q.lsn => r = q
  <2> SUFFICES ASSUME NEW r \in written', NEW q \in written', r.lsn = q.lsn PROVE r = q
    OBVIOUS
  <2>1. PICK a \in written : a.lsn = r.lsn /\ (a = r \/ (a \in holes /\ r = Torn(a)))
    BY <1>8
  <2>2. PICK b \in written : b.lsn = q.lsn /\ (b = q \/ (b \in holes /\ q = Torn(b)))
    BY <1>8
  <2>3. a = b
    BY <2>1, <2>2 DEF Frames
  <2>6. CASE \E t \in written : t.kind = "torn"
    BY <2>6, <2>1, <2>2, <2>3, <1>3 DEF Frames, Unsynced
  <2>7. CASE \A t \in written : t.kind # "torn"
    BY <2>7, <1>2, <1>3, <1>4, <2>1, <2>2, <2>3
  <2> QED
    BY <2>6, <2>7
<1>10. CASE \E t \in written : t.kind = "torn"
  <2>1. kept = {} /\ holes = {} /\ lostDirs = {}
    BY <1>10, <1>3 DEF Frames, Unsynced
  <2>2. written' = written /\ synced = written
    BY <1>10, <1>1, <2>1, <1>i DEF Frames, Unsynced, holes, lost
  <2>3. Sound' = Sound
    BY <2>2 DEF Sound
  <2> QED
    BY <1>1, <1>6, <1>7, <1>9, <2>2, <2>3, <1>i DEF TypeOK, TypeDisk
<1>11. CASE \A t \in written : t.kind # "torn"
  <2>1. Sound = written
    BY <1>11, SoundIsAll
  <2>2. \A r \in Sound' : r \in written' /\ r \in synced \cup kept
    BY <1>2, <1>3, <1>4 DEF Sound
  <2>3. \A r \in Sound', q \in Sound : q.lsn <= r.lsn /\ q.seg \in dir' => q \in Sound'
    <3> SUFFICES ASSUME NEW r \in Sound', NEW q \in Sound, q.lsn <= r.lsn,
                        q.seg \in dir', q \notin Sound'
                 PROVE  FALSE
      OBVIOUS
    <3>1. /\ r \in written' /\ r \in written /\ q \in written /\ r.kind # "torn"
          /\ \A t \in written' : t.kind = "torn" => r.lsn < t.lsn
      BY <1>i, <2>1, <2>2 DEF Sound
    <3>2. r.lsn \in Nat /\ q.lsn \in Nat /\ \A t \in written' : t.lsn \in Nat
      BY <1>i, <3>1, <1>8, Numbers
    <3>3. q.kind # "torn" /\ \A t \in written' : t.kind = "torn" => q.lsn < t.lsn
      BY <1>11, <3>1, <3>2
    <3>4. q \notin written' /\ q # r
      BY <3>3, <3>1 DEF Sound
    <3>5. q.lsn < r.lsn
      BY <3>1, <3>2, <3>4 DEF Frames
    <3>6. q.seg \notin lostDirs
      BY <1>1
    <3>7. q \in lost
      BY <1>2, <3>1, <3>4, <3>6 DEF lost
    <3>8. r \in kept
      BY <1>i, <2>2, <3>1, <3>2, <3>5, <3>7 DEF UnsyncedTail, Unsynced, lost
    <3>9. q \in holes
      BY <1>5, <3>5, <3>7, <3>8
    <3>10. Torn(q) \in written'
      BY <1>2, <1>4, <3>1, <3>6, <3>9
    <3> QED
      BY <1>4, <3>1, <3>2, <3>5, <3>10
  <2>4. \A r \in synced \cap Sound : r.seg \in dirSynced => r \in Sound'
    <3> SUFFICES ASSUME NEW r \in synced, r.seg \in dirSynced PROVE r \in Sound'
      OBVIOUS
    <3>1. r \in written' /\ r.kind # "torn"
      BY <1>i, <1>2, <1>11
    <3>2. \A t \in written' : t.kind = "torn" => \E l \in Unsynced : t.lsn = l.lsn
      BY <1>2, <1>3, <1>4, <1>11, <1>i DEF Unsynced
    <3> QED
      BY <1>i, <3>1, <3>2 DEF Sound, UnsyncedTail
  <2>5. Sound' \subseteq Sound
    BY <2>1, <2>2, <1>i
  <2> QED
    BY <1>1, <1>2, <1>6, <1>7, <1>9, <2>3, <2>4, <2>5, <1>i DEF TypeOK, TypeDisk
<1> QED
  BY <1>10, <1>11

\* What truncate_up_to removes: whole old segments with nothing above the fence.
LEMMA TruncateFacts ==
  ASSUME SyncInv, CkptTruncate
  PROVE  /\ kpc = "truncate" /\ kpc' = "idle" /\ kholds' = FALSE /\ StateFree
         /\ up = "up" /\ klsn = fence
         /\ UNCHANGED <<base, snap, up, mem, latches, commit, flush, klsn, ktx, told>>
         /\ \E gone \in SUBSET Droppable(klsn) :
              /\ \E last \in Nat : gone = {s \in Droppable(klsn) : s <= last}
              /\ dir' = dir \ gone /\ dirSynced' = dirSynced \ gone
              /\ born' = born \ gone /\ sealed' = sealed \ gone
              /\ written' = {r \in written : r.seg \notin gone}
              /\ synced' = {r \in synced : r.seg \notin gone}
              /\ \A r \in written : r.seg \in gone => r.lsn <= fence
              /\ \A s \in gone : s < active - 1
<1>i. /\ TypeOK /\ Shape /\ SnapCovers
  BY DEF SyncInv, LogInv
<1>1. /\ kpc = "truncate" /\ kpc' = "idle" /\ kholds' = FALSE /\ StateFree
      /\ UNCHANGED <<base, snap, up, mem, latches, commit, flush, klsn, ktx, told>>
  BY DEF CkptTruncate
<1>2. up = "up" /\ klsn = fence
  BY <1>i, <1>1 DEF Shape, SnapCovers
<1>3. PICK last \in {0} \cup Droppable(klsn) :
        LET gone == {s \in Droppable(klsn) : s <= last} IN
        /\ dir' = dir \ gone /\ dirSynced' = dirSynced \ gone
        /\ born' = born \ gone /\ sealed' = sealed \ gone
        /\ written' = {r \in written : r.seg \notin gone}
        /\ synced' = {r \in synced : r.seg \notin gone}
  BY DEF CkptTruncate
<1> DEFINE gone == {s \in Droppable(klsn) : s <= last}
<1>4. gone \in SUBSET Droppable(klsn)
  OBVIOUS
<1>5. \A r \in written : r.seg \in gone => r.lsn <= fence
  BY <1>1, DroppedBelow
<1>6. \A s \in gone : s < active - 1
  BY DEF Droppable
<1>7. last \in Nat
  BY <1>i, Numbers DEF Droppable
<1>8. /\ dir' = dir \ gone /\ dirSynced' = dirSynced \ gone
      /\ born' = born \ gone /\ sealed' = sealed \ gone
      /\ written' = {r \in written : r.seg \notin gone}
      /\ synced' = {r \in synced : r.seg \notin gone}
  BY <1>3
<1>9. \E n \in Nat : gone = {s \in Droppable(klsn) : s <= n}
  BY <1>7
<1> HIDE DEF gone
<1> QED
  BY <1>1, <1>2, <1>4, <1>5, <1>6, <1>8, <1>9

\* What open_existing goes on with.
LEMMA OpenFacts ==
  ASSUME SyncInv, OpenExisting
  PROVE  /\ written' = Sound /\ Sound = Readable /\ Sound \subseteq written
         /\ synced' = IF TornRecs = {} THEN synced
                      ELSE (synced \cap Sound) \cup {r \in Sound : r.seg = CutAt}
         /\ \/ /\ CutAt \in sealed /\ up' = "creating" /\ active' = CutAt + 1
               /\ dir' = {s \in dir : s <= CutAt} \cup {CutAt + 1}
            \/ /\ CutAt \notin sealed /\ up' = "up" /\ active' = CutAt
               /\ dir' = {s \in dir : s <= CutAt}
         /\ born' = {t \in born : t <= CutAt} /\ sealed' = {t \in sealed : t <= CutAt}
         /\ live' = Replayed /\ next_lsn' = LastUsed + 1 /\ durable_lsn' = LastUsed
         /\ fence <= LastUsed /\ \A r \in Sound : r.lsn <= LastUsed
         /\ UNCHANGED <<base, snap, latches, commit, flush, ckpt, pending,
                        headerSealed, started, fsynced>>
         /\ dir # {} /\ Greatest(dir) \in born /\ dir \subseteq born /\ ReplayOk
         /\ CutAt \in dir /\ CutAt \in born /\ CutAt \in SegIds
         /\ TornRecs = {} => CutAt = Greatest(dir)
         /\ \A r \in Sound : r.seg <= CutAt /\ r.kind # "torn"
         /\ up \in {"down", "corrupt"} /\ pending = {} /\ cpc = "idle" /\ kpc = "idle"
         /\ \A s \in Flushers : fpc[s] = "idle"
<1>i. LogInv /\ TypeOK /\ Shape /\ Files
  BY DEF SyncInv, LogInv
<1>r. Sound = Readable /\ Sound \subseteq written
  BY <1>i, SoundIsReadable
<1>b. born \subseteq dir /\ sealed \subseteq dir /\ dir \subseteq SegIds
  BY <1>i DEF TypeOK, TypeDisk
<1> USE DEF snap, latches, commit, flush, ckpt
<1>1. /\ written' = Readable
      /\ synced' = IF TornRecs = {} THEN synced
                   ELSE (synced \cap Readable)
                          \cup {r \in Readable : r.seg = CutAt}
      /\ \/ /\ CutAt \in sealed /\ up' = "creating" /\ active' = CutAt + 1
            /\ dir' = {s \in dir : s <= CutAt} \cup {CutAt + 1}
         \/ /\ CutAt \notin sealed /\ up' = "up" /\ active' = CutAt
            /\ dir' = {s \in dir : s <= CutAt}
      /\ live' = Replayed /\ next_lsn' = LastUsed + 1 /\ durable_lsn' = LastUsed
      /\ UNCHANGED <<base, snap, latches, commit, flush, ckpt, pending, headerSealed,
                     started, fsynced>>
      /\ dir # {} /\ Greatest(dir) \in born /\ ReplayOk
      /\ up \in {"down", "corrupt"}
  BY DEF OpenExisting, CutAt, Opened
<1>2. born' = {t \in born : t <= CutAt} /\ sealed' = {t \in sealed : t <= CutAt}
  BY <1>b DEF OpenExisting, CutAt
<1>3. /\ CutAt \in dir /\ CutAt \in born /\ dir \subseteq born
      /\ \A r \in Readable : r.seg <= CutAt
      /\ TornRecs = {} => CutAt = Greatest(dir)
  BY <1>i, <1>1, CutType
<1>4. fence <= LastUsed /\ \A r \in Readable : r.lsn <= LastUsed
  BY <1>i, ReplayType
<1>5. /\ pending = {} /\ cpc = "idle" /\ kpc = "idle"
      /\ \A s \in Flushers : fpc[s] = "idle"
  BY <1>i, <1>1 DEF Shape, Files
<1>6. \A r \in Sound : r.kind # "torn"
  BY DEF Sound
<1> QED
  BY <1>r, <1>b, <1>1, <1>2, <1>3, <1>4, <1>5, <1>6

\* Every step keeps the LSNs apart, and only a power loss makes bad frames.
LEMMA NextFrames ==
  ASSUME SyncInv, Frames, Next
  PROVE  Frames'
<1> USE DEF disk, files, snap, mem, latches, commit, flush, ckpt, told, Fails,
            Running
<1>i. /\ TypeOK /\ Shape /\ Files /\ Order /\ UnsyncedTail /\ SnapCovers /\ LiveCovers
      /\ LogInv /\ synced \subseteq written
  BY DEF SyncInv, LogInv, TypeOK, TypeRecs
<1>n. /\ next_lsn \in Nat /\ \A r \in written \cup pending : r.lsn \in Nat /\ r.ref \in Nat
      /\ durable_lsn \in Nat /\ fence \in Nat /\ klsn \in Nat /\ cfirst \in Nat
      /\ \A s \in Flushers : flsn[s] \in Nat
  BY <1>i, Numbers DEF TypeOK, TypeRecs, Record, Lsns
<1>1. ASSUME NEW n \in 1 .. MaxBatches, CommitLock(n) PROVE Frames'
  BY <1>i, <1>n, <1>1 DEF CommitLock, WriterFree, Frames, Unsynced
<1>2. CASE RotateFlush
  BY <1>i, <1>n, <1>2 DEF RotateFlush, flush_buffer, Frames, Unsynced, Shape
<1>3. CASE RotateCreate
  BY <1>i, <1>n, <1>3 DEF RotateCreate, Frames, Unsynced, Shape
<1>4. CASE RotateHeader
  BY <1>i, <1>n, <1>4 DEF RotateHeader, WithEntry, Frames, Unsynced, Shape
<1>5. CASE RotateSyncDir
  BY <1>i, <1>n, <1>5 DEF RotateSyncDir, DropNew, Frames, Unsynced
<1>6. CASE RotateSeal
  BY <1>i, <1>n, <1>6 DEF RotateSeal, DropNew, Frames, Unsynced
<1>7. CASE AppendBegin
  BY <1>i, <1>n, <1>7, RecFields DEF AppendBegin, Frames, Unsynced, Order, Shape
<1>8. CASE AppendBatch
  BY <1>i, <1>n, <1>8, RecFields DEF AppendBatch, RollbackTx, Frames, Unsynced, Order, Shape
<1>9. CASE AppendCommit
  BY <1>i, <1>n, <1>9, RecFields
     DEF AppendCommit, RollbackTx, Frames, Unsynced, Order, Shape
<1>10. CASE CommitFlush
  BY <1>i, <1>n, <1>10 DEF CommitFlush, flush_buffer, Frames, Unsynced, Shape
<1>11. CASE CommitPoison
  BY <1>i, <1>n, <1>11 DEF CommitPoison, Frames, Unsynced
<1>12. ASSUME NEW s \in Flushers, FlushCall(s) PROVE Frames'
  BY <1>i, <1>n, <1>12 DEF FlushCall, Frames, Unsynced
<1>13. ASSUME NEW s \in Flushers, FlushWrite(s) PROVE Frames'
  BY <1>i, <1>n, <1>13 DEF FlushWrite, flush_buffer, FlushDone, FlushFailed, Frames,
     Unsynced, Shape
<1>14. ASSUME NEW s \in Flushers, FlushSync(s) PROVE Frames'
  BY <1>i, <1>n, <1>14 DEF FlushSync, FlushFailed, Frames, Unsynced, Shape
<1>15. ASSUME NEW s \in Flushers, FlushAdvance(s) PROVE Frames'
  BY <1>i, <1>n, <1>15 DEF FlushAdvance, FlushDone, Frames, Unsynced
<1>16. CASE CkptStart
  BY <1>i, <1>n, <1>16 DEF CkptStart, Frames, Unsynced
<1>17. CASE CkptTake
  BY <1>i, <1>n, <1>17 DEF CkptTake, Frames, Unsynced
<1>18. CASE CkptInstall
  BY <1>i, <1>n, <1>18 DEF CkptInstall, Frames, Unsynced
<1>19. CASE CkptMark
  BY <1>i, <1>n, <1>19, RecFields DEF CkptMark, Frames, Unsynced, Order, Shape
<1>20. CASE CkptTruncate
  BY <1>i, <1>n, <1>20, TruncateFacts DEF Frames, Unsynced
<1>21. CASE CkptAbandon
  BY <1>i, <1>n, <1>21 DEF CkptAbandon, Frames, Unsynced
<1>22. CASE Crash
  BY <1>i, <1>n, <1>22 DEF Crash, Stopped, Frames, Unsynced
<1>23. CASE PowerLoss
  BY <1>i, <1>n, <1>23, PowerLossFacts DEF Frames, Unsynced
<1>24. CASE Drop
  BY <1>i, <1>n, <1>24 DEF Drop, Stopped, Frames, Unsynced
<1>25. CASE DiscardUnborn
  BY <1>i, <1>n, <1>25 DEF DiscardUnborn, Frames, Unsynced
<1>26. CASE OpenFresh
  <2>1. written = {} /\ pending = {}
    BY <1>i, <1>26 DEF OpenFresh, Files, TypeOK, TypeDisk
  <2> QED
    BY <2>1, <1>26 DEF OpenFresh, Opened, Frames
<1>27. CASE OpenExisting
  BY <1>i, <1>n, <1>27, OpenFacts DEF Frames, Unsynced
<1>28. CASE OpenCreate
  BY <1>i, <1>n, <1>28 DEF OpenCreate, Frames, Unsynced
<1>29. CASE OpenFail
  BY <1>i, <1>n, <1>29 DEF OpenFail, Frames, Unsynced
<1>30. CASE OpenCreateFail
  BY <1>i, <1>n, <1>30 DEF OpenCreateFail, Stopped, Frames, Unsynced
<1> QED
  BY <1>1, <1>2, <1>3, <1>4, <1>5, <1>6, <1>7, <1>8, <1>9, <1>10, <1>11, <1>12,
     <1>13, <1>14, <1>15, <1>16, <1>17, <1>18, <1>19, <1>20, <1>21, <1>22, <1>23,
     <1>24, <1>25, <1>26, <1>27, <1>28, <1>29, <1>30
  DEF Next, CommitStep, FlushStep, CkptStep, Open

\* Every step keeps the markers in the order of the fences they name.
LEMMA NextMarkers ==
  ASSUME SyncInv, Frames, Fences, Markers, Next
  PROVE  Markers'
<1> USE DEF disk, files, snap, mem, latches, commit, flush, ckpt, told, Fails,
            Running
<1>i. /\ TypeOK /\ Shape /\ Files /\ Order /\ UnsyncedTail /\ SnapCovers /\ LiveCovers
      /\ LogInv /\ synced \subseteq written
  BY DEF SyncInv, LogInv, TypeOK, TypeRecs
<1>n. /\ next_lsn \in Nat /\ \A r \in written \cup pending : r.lsn \in Nat /\ r.ref \in Nat
      /\ durable_lsn \in Nat /\ fence \in Nat /\ klsn \in Nat /\ cfirst \in Nat
      /\ \A s \in Flushers : flsn[s] \in Nat
  BY <1>i, Numbers DEF TypeOK, TypeRecs, Record, Lsns
<1>t. \A r \in written : /\ Torn(r).kind = "torn" /\ Torn(r).lsn = r.lsn
                         /\ Torn(r).seg = r.seg
  BY <1>i DEF TypeOK, TypeRecs, Record, Torn
<1>1. ASSUME NEW n \in 1 .. MaxBatches, CommitLock(n) PROVE Markers'
  BY <1>i, <1>n, <1>1 DEF CommitLock, WriterFree, Markers
<1>2. CASE RotateFlush
  BY <1>i, <1>n, <1>2 DEF RotateFlush, flush_buffer, Markers
<1>3. CASE RotateCreate
  BY <1>i, <1>n, <1>3 DEF RotateCreate, Markers
<1>4. CASE RotateHeader
  BY <1>i, <1>n, <1>4 DEF RotateHeader, WithEntry, Markers
<1>5. CASE RotateSyncDir
  BY <1>i, <1>n, <1>5 DEF RotateSyncDir, DropNew, Markers
<1>6. CASE RotateSeal
  BY <1>i, <1>n, <1>6 DEF RotateSeal, DropNew, Markers
<1>7. CASE AppendBegin
  BY <1>i, <1>n, <1>7, RecFields DEF AppendBegin, Markers
<1>8. CASE AppendBatch
  BY <1>i, <1>n, <1>8, RecFields DEF AppendBatch, RollbackTx, Markers
<1>9. CASE AppendCommit
  BY <1>i, <1>n, <1>9, RecFields DEF AppendCommit, RollbackTx, Markers
<1>10. CASE CommitFlush
  BY <1>i, <1>n, <1>10 DEF CommitFlush, flush_buffer, Markers
<1>11. CASE CommitPoison
  BY <1>i, <1>n, <1>11 DEF CommitPoison, Markers
<1>12. ASSUME NEW s \in Flushers, FlushCall(s) PROVE Markers'
  BY <1>i, <1>n, <1>12 DEF FlushCall, Markers
<1>13. ASSUME NEW s \in Flushers, FlushWrite(s) PROVE Markers'
  BY <1>i, <1>n, <1>13 DEF FlushWrite, flush_buffer, FlushDone, FlushFailed, Markers
<1>14. ASSUME NEW s \in Flushers, FlushSync(s) PROVE Markers'
  BY <1>i, <1>n, <1>14 DEF FlushSync, FlushFailed, Markers
<1>15. ASSUME NEW s \in Flushers, FlushAdvance(s) PROVE Markers'
  BY <1>i, <1>n, <1>15 DEF FlushAdvance, FlushDone, Markers
<1>16. CASE CkptStart
  BY <1>i, <1>n, <1>16 DEF CkptStart, Markers
<1>17. CASE CkptTake
  BY <1>i, <1>n, <1>17 DEF CkptTake, Markers
<1>18. CASE CkptInstall
  BY <1>i, <1>n, <1>18 DEF CkptInstall, Markers, Fences
<1>19. CASE CkptMark
  <2>1. /\ up = "up" /\ klsn = fence /\ fence < next_lsn
        /\ \A r \in written \cup pending : r.lsn < next_lsn
    BY <1>i, <1>19 DEF CkptMark, Shape, SnapCovers, Order
  <2>2. \A r \in written' \cup pending' :
          r \in written \cup pending \/ (r.lsn = next_lsn /\ r.ref = fence)
    <3> DEFINE m == Rec(next_lsn, "marker", klsn)
    <3>1. m.lsn = next_lsn /\ m.ref = klsn
      BY DEF Rec
    <3>2. /\ written' = written
          /\ pending' = pending \/ pending' = pending \cup {m}
      BY <1>19 DEF CkptMark
    <3> HIDE DEF m
    <3> QED
      BY <2>1, <3>1, <3>2
  <2>3. fence' = fence
    BY <1>19 DEF CkptMark
  <2> QED
    BY <1>n, <2>1, <2>2, <2>3 DEF Markers
<1>20. CASE CkptTruncate
  BY <1>i, <1>n, <1>20, TruncateFacts DEF Markers
<1>21. CASE CkptAbandon
  BY <1>i, <1>n, <1>21 DEF CkptAbandon, Markers
<1>22. CASE Crash
  BY <1>i, <1>n, <1>22 DEF Crash, Stopped, Markers
<1>23. CASE PowerLoss
  <2>1. \A r \in written' \cup pending' : r.kind = "marker" => r \in written
    BY <1>t, <1>23, PowerLossFacts DEF Unsynced
  <2>2. fence' = fence
    BY <1>23 DEF PowerLoss
  <2> QED
    BY <2>1, <2>2 DEF Markers
<1>24. CASE Drop
  BY <1>i, <1>n, <1>24 DEF Drop, Stopped, Markers
<1>25. CASE DiscardUnborn
  BY <1>i, <1>n, <1>25 DEF DiscardUnborn, Markers
<1>26. CASE OpenFresh
  BY <1>i, <1>n, <1>26 DEF OpenFresh, Opened, Markers
<1>27. CASE OpenExisting
  BY <1>i, <1>n, <1>27, OpenFacts DEF Markers
<1>28. CASE OpenCreate
  BY <1>i, <1>n, <1>28 DEF OpenCreate, Markers
<1>29. CASE OpenFail
  BY <1>i, <1>n, <1>29 DEF OpenFail, Markers
<1>30. CASE OpenCreateFail
  BY <1>i, <1>n, <1>30 DEF OpenCreateFail, Stopped, Markers
<1> QED
  BY <1>1, <1>2, <1>3, <1>4, <1>5, <1>6, <1>7, <1>8, <1>9, <1>10, <1>11, <1>12,
     <1>13, <1>14, <1>15, <1>16, <1>17, <1>18, <1>19, <1>20, <1>21, <1>22, <1>23,
     <1>24, <1>25, <1>26, <1>27, <1>28, <1>29, <1>30
  DEF Next, CommitStep, FlushStep, CkptStep, Open

\* Every step takes LSNs between transactions only.
LEMMA NextFences ==
  ASSUME SyncInv, Frames, Fences, Next
  PROVE  Fences'
<1> USE DEF disk, files, snap, mem, latches, commit, flush, ckpt, told, Fails,
            Running
<1>i. /\ TypeOK /\ Shape /\ Files /\ Order /\ UnsyncedTail /\ SnapCovers /\ LiveCovers
      /\ LogInv /\ synced \subseteq written
  BY DEF SyncInv, LogInv, TypeOK, TypeRecs
<1>n. /\ next_lsn \in Nat /\ \A r \in written \cup pending : r.lsn \in Nat /\ r.ref \in Nat
      /\ durable_lsn \in Nat /\ fence \in Nat /\ klsn \in Nat /\ cfirst \in Nat
      /\ \A s \in Flushers : flsn[s] \in Nat
  BY <1>i, Numbers DEF TypeOK, TypeRecs, Record, Lsns
<1>t. \A r \in written : /\ Torn(r).kind = "torn" /\ Torn(r).lsn = r.lsn
                         /\ Torn(r).seg = r.seg
  BY <1>i DEF TypeOK, TypeRecs, Record, Torn
<1>1. ASSUME NEW n \in 1 .. MaxBatches, CommitLock(n) PROVE Fences'
  BY <1>i, <1>n, <1>1 DEF CommitLock, WriterFree, Fences, SplitsNone
<1>2. CASE RotateFlush
  BY <1>i, <1>n, <1>2 DEF RotateFlush, flush_buffer, Fences, SplitsNone
<1>3. CASE RotateCreate
  BY <1>i, <1>n, <1>3 DEF RotateCreate, Fences, SplitsNone
<1>4. CASE RotateHeader
  BY <1>i, <1>n, <1>4 DEF RotateHeader, WithEntry, Fences, SplitsNone
<1>5. CASE RotateSyncDir
  BY <1>i, <1>n, <1>5 DEF RotateSyncDir, DropNew, Fences, SplitsNone
<1>6. CASE RotateSeal
  BY <1>i, <1>n, <1>6 DEF RotateSeal, DropNew, Fences, SplitsNone
<1>7. CASE AppendBegin
  <2>up. up = "up"
    BY <1>i, <1>7 DEF Shape, AppendBegin
  <2>1. \A r \in written' \cup pending' :
          r \in written \cup pending \/ r.kind = "marker" \/ r.ref = next_lsn
    BY <1>7 DEF AppendBegin, Rec
  <2>2. ASSUME NEW l \in Nat, SplitsNone(l), l < next_lsn PROVE SplitsNone(l)'
    BY <1>n, <2>1, <2>2 DEF SplitsNone
  <2>3. /\ fence < next_lsn /\ durable_lsn < next_lsn
        /\ kpc \in {"install", "mark", "fsync2", "truncate"} => klsn < next_lsn
        /\ \A s \in Flushers : fpc[s] \in {"written", "synced"} => flsn[s] < next_lsn
    BY <1>i, <2>up, <1>7 DEF AppendBegin, Order
  <2>4. UNCHANGED <<fence, durable_lsn, up, klsn, fpc, flsn>>
    BY <1>7 DEF AppendBegin
  <2>5. kpc' \in {"install", "mark", "fsync2", "truncate"} =>
          kpc \in {"install", "mark", "fsync2", "truncate"}
    BY <1>7 DEF AppendBegin
  <2> QED
    BY <1>n, <2>up, <2>2, <2>3, <2>4, <2>5 DEF Fences
<1>8. CASE AppendBatch
  <2>up. up = "up"
    BY <1>i, <1>8 DEF Shape, AppendBatch, RollbackTx
  <2>1. \A r \in written' \cup pending' :
          r \in written \cup pending \/ r.kind = "marker" \/ r.ref = cfirst
    BY <1>8 DEF AppendBatch, RollbackTx, Rec
  <2>2. ASSUME NEW l \in Nat, SplitsNone(l), l < cfirst PROVE SplitsNone(l)'
    BY <1>n, <2>1, <2>2 DEF SplitsNone
  <2>3. /\ fence < cfirst /\ durable_lsn < cfirst
        /\ kpc \in {"install", "mark", "fsync2", "truncate"} => klsn < cfirst
        /\ \A s \in Flushers : fpc[s] \in {"written", "synced"} => flsn[s] < cfirst
    BY <1>i, <2>up, <1>8 DEF AppendBatch, RollbackTx, Order
  <2>4. UNCHANGED <<fence, durable_lsn, up, klsn, fpc, flsn>>
    BY <1>8 DEF AppendBatch, RollbackTx
  <2>5. kpc' \in {"install", "mark", "fsync2", "truncate"} =>
          kpc \in {"install", "mark", "fsync2", "truncate"}
    BY <1>8 DEF AppendBatch, RollbackTx
  <2> QED
    BY <1>n, <2>up, <2>2, <2>3, <2>4, <2>5 DEF Fences
<1>9. CASE AppendCommit
  <2>up. up = "up"
    BY <1>i, <1>9 DEF Shape, AppendCommit, RollbackTx
  <2>1. \A r \in written' \cup pending' :
          r \in written \cup pending \/ r.kind = "marker" \/ r.ref = cfirst
    BY <1>9 DEF AppendCommit, RollbackTx, Rec
  <2>2. ASSUME NEW l \in Nat, SplitsNone(l), l < cfirst PROVE SplitsNone(l)'
    BY <1>n, <2>1, <2>2 DEF SplitsNone
  <2>3. /\ fence < cfirst /\ durable_lsn < cfirst
        /\ kpc \in {"install", "mark", "fsync2", "truncate"} => klsn < cfirst
        /\ \A s \in Flushers : fpc[s] \in {"written", "synced"} => flsn[s] < cfirst
    BY <1>i, <2>up, <1>9 DEF AppendCommit, RollbackTx, Order
  <2>4. UNCHANGED <<fence, durable_lsn, up, klsn, fpc, flsn>>
    BY <1>9 DEF AppendCommit, RollbackTx
  <2>5. kpc' \in {"install", "mark", "fsync2", "truncate"} =>
          kpc \in {"install", "mark", "fsync2", "truncate"}
    BY <1>9 DEF AppendCommit, RollbackTx
  <2> QED
    BY <1>n, <2>up, <2>2, <2>3, <2>4, <2>5 DEF Fences
<1>10. CASE CommitFlush
  BY <1>i, <1>n, <1>10 DEF CommitFlush, flush_buffer, Fences, SplitsNone
<1>11. CASE CommitPoison
  BY <1>i, <1>n, <1>11 DEF CommitPoison, Fences, SplitsNone
<1>12. ASSUME NEW s \in Flushers, FlushCall(s) PROVE Fences'
  BY <1>i, <1>n, <1>12 DEF FlushCall, Fences, SplitsNone, Order, Shape
<1>13. ASSUME NEW s \in Flushers, FlushWrite(s) PROVE Fences'
  <2>up. up = "up" /\ written' \cup pending' = written \cup pending
    BY <1>i, <1>13 DEF Shape, FlushWrite, flush_buffer, FlushDone, FlushFailed
  <2>1. ASSUME NEW l \in Nat, SplitsNone(l) PROVE SplitsNone(l)'
    BY <2>up, <2>1 DEF SplitsNone
  <2>2. SplitsNone(next_lsn - 1)
    BY <1>i, <1>n, <2>up DEF SplitsNone, Order
  <2>3. \A q \in Flushers : fpc'[q] \in {"written", "synced"} =>
          \/ fpc[q] \in {"written", "synced"} /\ flsn'[q] = flsn[q]
          \/ flsn'[q] = next_lsn - 1
    BY <1>i, <1>13 DEF FlushWrite, flush_buffer, FlushDone, FlushFailed, TypeOK, TypeFlush
  <2>4. /\ UNCHANGED <<fence, up, klsn>>
        /\ durable_lsn' \in Nat /\ durable_lsn <= durable_lsn' /\ SplitsNone(durable_lsn')
    BY <1>i, <1>n, <1>13, <2>up DEF FlushWrite, flush_buffer, FlushDone, FlushFailed, Fences
  <2>5. kpc' \in {"install", "mark", "fsync2", "truncate"} =>
          kpc \in {"install", "mark", "fsync2", "truncate"}
    BY <1>i, <1>13, FlushEnds DEF FlushWrite, flush_buffer, FlushDone, FlushFailed
  <2>6. next_lsn - 1 \in Nat
    BY <1>i, Numbers
  <2>7. \A q \in Flushers : fpc'[q] \in {"written", "synced"} => SplitsNone(flsn[q])'
    BY <1>n, <2>1, <2>2, <2>3, <2>6 DEF Fences, SplitsNone
  <2>8. SplitsNone(fence)' /\ SplitsNone(durable_lsn)' /\ fence' <= durable_lsn'
    BY <1>n, <2>up, <2>1, <2>4 DEF Fences
  <2>9. kpc' \in {"install", "mark", "fsync2", "truncate"} =>
          SplitsNone(klsn)' /\ fence' <= klsn' /\ klsn' <= durable_lsn'
    BY <1>n, <2>1, <2>4, <2>5 DEF Fences
  <2> QED
    BY <2>7, <2>8, <2>9 DEF Fences
<1>14. ASSUME NEW s \in Flushers, FlushSync(s) PROVE Fences'
  <2>up. up = "up" /\ written' \cup pending' = written \cup pending
    BY <1>i, <1>14 DEF Shape, FlushSync, FlushFailed
  <2>1. ASSUME NEW l \in Nat, SplitsNone(l) PROVE SplitsNone(l)'
    BY <2>up, <2>1 DEF SplitsNone
  <2>2. SplitsNone(next_lsn - 1)
    BY <1>i, <1>n, <2>up DEF SplitsNone, Order
  <2>3. \A q \in Flushers : fpc'[q] \in {"written", "synced"} =>
          \/ fpc[q] \in {"written", "synced"} /\ flsn'[q] = flsn[q]
          \/ flsn'[q] = next_lsn - 1
    BY <1>i, <1>14 DEF FlushSync, FlushFailed, TypeOK, TypeFlush
  <2>4. /\ UNCHANGED <<fence, up, klsn>>
        /\ durable_lsn' \in Nat /\ durable_lsn <= durable_lsn' /\ SplitsNone(durable_lsn')
    BY <1>i, <1>n, <1>14, <2>up DEF FlushSync, FlushFailed, Fences
  <2>5. kpc' \in {"install", "mark", "fsync2", "truncate"} =>
          kpc \in {"install", "mark", "fsync2", "truncate"}
    BY <1>i, <1>14, FlushEnds DEF FlushSync, FlushFailed
  <2>6. next_lsn - 1 \in Nat
    BY <1>i, Numbers
  <2>7. \A q \in Flushers : fpc'[q] \in {"written", "synced"} => SplitsNone(flsn[q])'
    BY <1>n, <2>1, <2>2, <2>3, <2>6 DEF Fences, SplitsNone
  <2>8. SplitsNone(fence)' /\ SplitsNone(durable_lsn)' /\ fence' <= durable_lsn'
    BY <1>n, <2>up, <2>1, <2>4 DEF Fences
  <2>9. kpc' \in {"install", "mark", "fsync2", "truncate"} =>
          SplitsNone(klsn)' /\ fence' <= klsn' /\ klsn' <= durable_lsn'
    BY <1>n, <2>1, <2>4, <2>5 DEF Fences
  <2> QED
    BY <2>7, <2>8, <2>9 DEF Fences
<1>15. ASSUME NEW s \in Flushers, FlushAdvance(s) PROVE Fences'
  <2>1. UNCHANGED <<written, pending, fence, up, klsn, flsn>>
    BY <1>15 DEF FlushAdvance, FlushDone
  <2>2. \A l : SplitsNone(l) => SplitsNone(l)'
    BY <2>1 DEF SplitsNone
  <2>3. /\ durable_lsn' \in Nat /\ durable_lsn <= durable_lsn'
        /\ up = "up" /\ SplitsNone(durable_lsn')
    BY <1>i, <1>n, <1>15 DEF FlushAdvance, Fences, Shape
  <2>4. kpc' \in {"install", "mark", "fsync2", "truncate"} =>
          kpc \in {"install", "mark", "fsync2", "truncate"}
    BY <1>i, <1>15, FlushEnds DEF FlushAdvance
  <2>5. \A q \in Flushers : fpc'[q] \in {"written", "synced"} => fpc[q] \in {"written", "synced"}
    BY <1>i, <1>15, FlushEnds DEF FlushAdvance
  <2> QED
    BY <1>n, <2>1, <2>2, <2>3, <2>4, <2>5 DEF Fences
<1>16. CASE CkptStart
  BY <1>i, <1>n, <1>16 DEF CkptStart, Fences, SplitsNone, Order, Shape
<1>17. CASE CkptTake
  BY <1>i, <1>n, <1>17 DEF CkptTake, Fences, SplitsNone, Order, Shape
<1>18. CASE CkptInstall
  BY <1>i, <1>n, <1>18 DEF CkptInstall, Fences, SplitsNone, Order, Shape
<1>19. CASE CkptMark
  BY <1>i, <1>n, <1>19, RecFields DEF CkptMark, Fences, SplitsNone, Order, Shape
<1>20. CASE CkptTruncate
  BY <1>i, <1>n, <1>20, TruncateFacts DEF Fences, SplitsNone
<1>21. CASE CkptAbandon
  BY <1>i, <1>n, <1>21 DEF CkptAbandon, Fences, SplitsNone
<1>22. CASE Crash
  BY <1>i, <1>n, <1>22 DEF Crash, Stopped, Fences, SplitsNone
<1>23. CASE PowerLoss
  <2>1. \A r \in written' \cup pending' :
          r \in written \cup pending \/ r.kind \notin {"batch", "commit"}
    BY <1>t, <1>23, PowerLossFacts DEF Unsynced
  <2>2. \A l : SplitsNone(l) => SplitsNone(l)'
    BY <2>1 DEF SplitsNone
  <2>3. /\ UNCHANGED fence /\ up' = "down" /\ kpc' = "idle"
        /\ \A s \in Flushers : fpc'[s] = "idle"
    BY <1>23, PowerLossFacts
  <2>4. SplitsNone(fence)'
    BY <2>2, <2>3 DEF Fences
  <2> QED
    BY <2>3, <2>4 DEF Fences
<1>24. CASE Drop
  BY <1>i, <1>n, <1>24 DEF Drop, Stopped, Fences, SplitsNone
<1>25. CASE DiscardUnborn
  BY <1>i, <1>n, <1>25 DEF DiscardUnborn, Fences, SplitsNone
<1>26. CASE OpenFresh
  <2>1. written = {} /\ pending = {} /\ kpc = "idle" /\ \A s \in Flushers : fpc[s] = "idle"
    BY <1>i, <1>26 DEF OpenFresh, Files, Shape, TypeOK, TypeDisk
  <2> QED
    BY <1>n, <2>1, <1>26 DEF OpenFresh, Opened, Fences, SplitsNone
<1>27. CASE OpenExisting
  <2>1. /\ written' \subseteq written /\ pending' = {} /\ kpc' = "idle" /\ fence' = fence
        /\ \A s \in Flushers : fpc'[s] = "idle"
        /\ durable_lsn' = LastUsed /\ fence <= LastUsed /\ LastUsed \in Nat
        /\ \A r \in written' : r.lsn <= LastUsed
    BY <1>i, <1>27, OpenFacts, ReplayType DEF Lsns
  <2>2. SplitsNone(fence)'
    BY <2>1 DEF Fences, SplitsNone
  <2>3. SplitsNone(durable_lsn)'
    BY <1>n, <2>1 DEF SplitsNone
  <2> QED
    BY <2>1, <2>2, <2>3 DEF Fences
<1>28. CASE OpenCreate
  BY <1>i, <1>n, <1>28 DEF OpenCreate, Fences, SplitsNone, Order, Shape
<1>29. CASE OpenFail
  BY <1>i, <1>n, <1>29 DEF OpenFail, Fences, SplitsNone
<1>30. CASE OpenCreateFail
  BY <1>i, <1>n, <1>30 DEF OpenCreateFail, Stopped, Fences, SplitsNone
<1> QED
  BY <1>1, <1>2, <1>3, <1>4, <1>5, <1>6, <1>7, <1>8, <1>9, <1>10, <1>11, <1>12,
     <1>13, <1>14, <1>15, <1>16, <1>17, <1>18, <1>19, <1>20, <1>21, <1>22, <1>23,
     <1>24, <1>25, <1>26, <1>27, <1>28, <1>29, <1>30
  DEF Next, CommitStep, FlushStep, CkptStep, Open


\* Whole transactions stay whole where nothing in front of their last record goes.
LEMMA WholeStep ==
  ASSUME SyncInv, SyncInv', Whole,
         \A r \in Applied' :
           \/ /\ r \in Applied
              /\ \A q \in Sound \cup pending :
                   r.ref <= q.lsn /\ q.lsn <= r.lsn /\ q.seg = r.seg
                     => q \in Sound' \cup pending'
           \/ r.ref <= r.lsn /\ Run(Sound' \cup pending', r.ref, r.lsn, r.tx, r.seg),
         cpc' = "batches" =>
           \/ /\ cpc = "batches" /\ UNCHANGED <<cfirst, next_lsn, ctx, active>>
              /\ written' \cup pending' = written \cup pending
           \/ Run(written' \cup pending', cfirst', next_lsn' - 1, ctx', active')
  PROVE  Whole'
<1>1. ASSUME NEW r \in Applied'
      PROVE  r.ref <= r.lsn /\ Run(Sound' \cup pending', r.ref, r.lsn, r.tx, r.seg)
  <2>1. CASE r.ref <= r.lsn /\ Run(Sound' \cup pending', r.ref, r.lsn, r.tx, r.seg)
    BY <2>1
  <2>2. CASE /\ r \in Applied
             /\ \A q \in Sound \cup pending :
                  r.ref <= q.lsn /\ q.lsn <= r.lsn /\ q.seg = r.seg
                    => q \in Sound' \cup pending'
    <3>0. r \in Record
      BY <2>2 DEF Applied, Sound, SyncInv, LogInv, TypeOK, TypeRecs
    <3>1. r.ref \in Nat /\ r.lsn \in Nat /\ r.ref <= r.lsn
      BY <2>2, <3>0 DEF Whole, Record, Lsns
    <3>2. Run(Sound \cup pending, r.ref, r.lsn, r.tx, r.seg)
      BY <2>2 DEF Whole
    <3>3. Run(Sound' \cup pending', r.ref, r.lsn, r.tx, r.seg)
      BY <2>2, <3>1, <3>2 DEF Run
    <3> QED
      BY <3>1, <3>3
  <2> QED
    BY <1>1, <2>1, <2>2
<1>2. ASSUME cpc' = "batches"
      PROVE  Run(written' \cup pending', cfirst', next_lsn' - 1, ctx', active')
  BY <1>2 DEF Whole
<1> QED
  BY <1>1, <1>2 DEF Whole, Run

\* Every step keeps what replay would apply whole: commit_tx_events writes a
\* transaction into one file in one run, and what is lost is a suffix of each
\* file.
LEMMA NextWhole ==
  ASSUME SyncInv, Frames, Fences, Whole, Next
  PROVE  Whole'
<1> USE DEF disk, files, snap, mem, latches, commit, flush, ckpt, told, Fails,
            Running
<1>i. /\ TypeOK /\ Shape /\ Files /\ Order /\ UnsyncedTail /\ SnapCovers /\ LiveCovers
      /\ LogInv /\ synced \subseteq written
  BY DEF SyncInv, LogInv, TypeOK, TypeRecs
<1>n. /\ next_lsn \in Nat /\ \A r \in written \cup pending : r.lsn \in Nat /\ r.ref \in Nat
      /\ durable_lsn \in Nat /\ fence \in Nat /\ klsn \in Nat /\ cfirst \in Nat
      /\ \A s \in Flushers : flsn[s] \in Nat
  BY <1>i, Numbers DEF TypeOK, TypeRecs, Record, Lsns
<1>s. Running => Sound = written
  BY SoundIsAll DEF Frames
<1>t. Running' => Sound' = written'
  BY NextFrames DEF Frames, Sound
<1>u. written' = written => Sound' = Sound
  BY DEF Sound
<1>w. SyncInv /\ SyncInv' /\ Whole
  BY NextSync
<1>1. ASSUME NEW n \in 1 .. MaxBatches, CommitLock(n) PROVE Whole'
  <2>1. Sound' \cup pending' = Sound \cup pending /\ fence' = fence
    BY <1>i, <1>s, <1>t, <1>u, <1>1 DEF CommitLock, WriterFree, Shape, Rotating
  <2>2. cpc' = "batches" =>
          /\ cpc = "batches" /\ UNCHANGED <<cfirst, next_lsn, ctx, active>>
          /\ written' \cup pending' = written \cup pending
    BY <1>i, <1>1 DEF CommitLock, WriterFree, Shape, Rotating, StateFree
  <2>3. Applied' = Applied
    BY <2>1 DEF Applied
  <2> QED
    BY <1>w, <2>1, <2>2, <2>3, WholeStep
<1>2. CASE RotateFlush
  <2>1. Sound' \cup pending' = Sound \cup pending /\ fence' = fence
    BY <1>i, <1>s, <1>t, <1>u, <1>2 DEF RotateFlush, flush_buffer, Shape, Rotating
  <2>2. cpc' = "batches" =>
          /\ cpc = "batches" /\ UNCHANGED <<cfirst, next_lsn, ctx, active>>
          /\ written' \cup pending' = written \cup pending
    BY <1>i, <1>2 DEF RotateFlush, flush_buffer, Shape, Rotating, StateFree
  <2>3. Applied' = Applied
    BY <2>1 DEF Applied
  <2> QED
    BY <1>w, <2>1, <2>2, <2>3, WholeStep
<1>3. CASE RotateCreate
  <2>1. Sound' \cup pending' = Sound \cup pending /\ fence' = fence
    BY <1>i, <1>s, <1>t, <1>u, <1>3 DEF RotateCreate, Shape, Rotating
  <2>2. cpc' = "batches" =>
          /\ cpc = "batches" /\ UNCHANGED <<cfirst, next_lsn, ctx, active>>
          /\ written' \cup pending' = written \cup pending
    BY <1>i, <1>3 DEF RotateCreate, Shape, Rotating, StateFree
  <2>3. Applied' = Applied
    BY <2>1 DEF Applied
  <2> QED
    BY <1>w, <2>1, <2>2, <2>3, WholeStep
<1>4. CASE RotateHeader
  <2>1. Sound' \cup pending' = Sound \cup pending /\ fence' = fence
    BY <1>i, <1>s, <1>t, <1>u, <1>4 DEF RotateHeader, WithEntry, Shape, Rotating
  <2>2. cpc' = "batches" =>
          /\ cpc = "batches" /\ UNCHANGED <<cfirst, next_lsn, ctx, active>>
          /\ written' \cup pending' = written \cup pending
    BY <1>i, <1>4 DEF RotateHeader, WithEntry, Shape, Rotating, StateFree
  <2>3. Applied' = Applied
    BY <2>1 DEF Applied
  <2> QED
    BY <1>w, <2>1, <2>2, <2>3, WholeStep
<1>5. CASE RotateSyncDir
  <2>1. Sound' \cup pending' = Sound \cup pending /\ fence' = fence
    BY <1>i, <1>s, <1>t, <1>u, <1>5 DEF RotateSyncDir, DropNew, Shape, Rotating
  <2>2. cpc' = "batches" =>
          /\ cpc = "batches" /\ UNCHANGED <<cfirst, next_lsn, ctx, active>>
          /\ written' \cup pending' = written \cup pending
    BY <1>i, <1>5 DEF RotateSyncDir, DropNew, Shape, Rotating, StateFree
  <2>3. Applied' = Applied
    BY <2>1 DEF Applied
  <2> QED
    BY <1>w, <2>1, <2>2, <2>3, WholeStep
<1>6. CASE RotateSeal
  <2>1. Sound' \cup pending' = Sound \cup pending /\ fence' = fence
    BY <1>i, <1>s, <1>t, <1>u, <1>6 DEF RotateSeal, DropNew, Shape, Rotating
  <2>2. cpc' = "batches" =>
          /\ cpc = "batches" /\ UNCHANGED <<cfirst, next_lsn, ctx, active>>
          /\ written' \cup pending' = written \cup pending
    BY <1>i, <1>6 DEF RotateSeal, DropNew, Shape, Rotating, StateFree
  <2>3. Applied' = Applied
    BY <2>1 DEF Applied
  <2> QED
    BY <1>w, <2>1, <2>2, <2>3, WholeStep
<1>7. CASE AppendBegin
  <2>up. up = "up" /\ up' = "up" /\ fence' = fence /\ written' = written
    BY <1>i, <1>7 DEF AppendBegin, Shape
  <2>1. CASE cpc' = "failing"
    <3>1. pending' = pending
      BY <2>1, <1>7 DEF AppendBegin
    <3>2. Applied' = Applied
      BY <1>u, <2>up, <3>1 DEF Applied
    <3> QED
      BY <1>u, <1>w, <2>up, <2>1, <3>1, <3>2, WholeStep
  <2>2. CASE cpc' # "failing"
    <3> DEFINE b == Rec(next_lsn, "begin", next_lsn)
               m == Rec(next_lsn + 1, "batch", next_lsn)
    <3>1. /\ pending' = pending \cup {b, m} /\ next_lsn' = next_lsn + 2
          /\ cfirst' = next_lsn /\ ctx' = ctx /\ active' = active
      BY <2>2, <1>7 DEF AppendBegin
    <3>2. /\ b.lsn = next_lsn /\ b.kind = "begin" /\ b.tx = ctx /\ b.seg = active
          /\ m.lsn = next_lsn + 1 /\ m.kind = "batch" /\ m.tx = ctx /\ m.seg = active
          /\ m.ref = next_lsn
      BY DEF Rec
    <3> HIDE DEF b, m
    <3>3. Run(written' \cup pending', next_lsn, next_lsn + 1, ctx, active)
      BY <1>n, <3>1, <3>2 DEF Run
    <3>4. \A r \in Applied' : r \in Applied \/ r = m
      BY <1>u, <2>up, <3>1, <3>2 DEF Applied
    <3>5. m.ref <= m.lsn /\ Run(Sound' \cup pending', m.ref, m.lsn, m.tx, m.seg)
      BY <1>n, <1>t, <2>up, <3>2, <3>3
    <3>6. next_lsn' - 1 = next_lsn + 1
      BY <1>n, <3>1
    <3> QED
      BY <1>u, <1>w, <2>up, <3>1, <3>3, <3>4, <3>5, <3>6, WholeStep
  <2> QED
    BY <2>1, <2>2
<1>8. CASE AppendBatch
  <2>up. up = "up" /\ up' = "up" /\ fence' = fence /\ cpc = "batches"
    BY <1>i, <1>8 DEF AppendBatch, Shape
  <2>1. ASSUME LsnsLeft(1), cpc' \in {"batches", "flush"},
              pending' \cup written' = pending \cup written \cup {Rec(next_lsn, "batch", cfirst)},
              next_lsn' = next_lsn + 1, UNCHANGED <<cfirst, ctx, active>>
       PROVE  Whole'
    <3> DEFINE m == Rec(next_lsn, "batch", cfirst)
    <3>1. /\ m.lsn = next_lsn /\ m.kind = "batch" /\ m.tx = ctx /\ m.seg = active
          /\ m.ref = cfirst
      BY DEF Rec
    <3>0. m \in written' \cup pending' /\ written \cup pending \subseteq written' \cup pending'
      BY <2>1
    <3> HIDE DEF m
    <3>2. Run(written \cup pending, cfirst, next_lsn - 1, ctx, active)
      BY <1>8 DEF Whole, AppendBatch
    <3>c. cfirst < next_lsn
      BY <1>i, <1>8 DEF Order, AppendBatch
    <3>3. Run(written' \cup pending', cfirst, next_lsn, ctx, active)
      <4> SUFFICES ASSUME NEW l \in cfirst .. next_lsn
                   PROVE  \E r \in written' \cup pending' :
                            /\ r.lsn = l /\ r.tx = ctx /\ r.seg = active
                            /\ l = cfirst => r.kind = "begin"
        BY DEF Run
      <4>1. CASE l = next_lsn
        BY <1>n, <3>0, <3>1, <3>c, <4>1
      <4>2. CASE l # next_lsn
        <5>1. l \in cfirst .. next_lsn - 1
          BY <1>n, <4>2
        <5> QED
          BY <3>0, <3>2, <5>1 DEF Run
      <4> QED
        BY <4>1, <4>2
    <3>4. \A r \in Applied' : r \in Applied \/ r = m
      BY <1>s, <1>t, <2>up, <2>1 DEF Applied, m
    <3>5. m.ref <= m.lsn /\ Run(Sound' \cup pending', m.ref, m.lsn, m.tx, m.seg)
      BY <1>n, <1>t, <2>up, <3>1, <3>3, <3>c
    <3>6. next_lsn' - 1 = next_lsn
      BY <1>n, <2>1
    <3>7. \A q \in Sound \cup pending : q \in Sound' \cup pending'
      BY <1>s, <1>t, <2>up, <2>1
    <3> QED
      BY <1>w, <2>1, <3>3, <3>4, <3>5, <3>6, <3>7, WholeStep
  <2>2. ASSUME RollbackTx(TRUE), written' \in {written, written \cup pending}
       PROVE  Whole'
    <3>1. /\ cpc' = "failing"
          /\ Sound' \cup pending' \subseteq written \cup pending
          /\ \A r \in Sound' \cup pending', q \in written \cup pending :
               q.lsn <= r.lsn => q \in Sound' \cup pending'
      BY <1>i, <1>n, <1>t, <2>up, <2>2 DEF RollbackTx, Order
    <3>2. \A r \in Applied' : r \in Applied /\ r \in Sound' \cup pending'
      BY <1>s, <2>up, <3>1 DEF Applied
    <3> QED
      BY <1>s, <1>w, <2>up, <3>1, <3>2, WholeStep
  <2>3. ASSUME RollbackTx(FALSE), written' \in {written, written \cup pending},
              ~cflushed, written' = written
       PROVE  Whole'
    <3>1. /\ cpc' = "failing"
          /\ Sound' \cup pending' \subseteq written \cup pending
          /\ \A r \in Sound' \cup pending', q \in written \cup pending :
               q.lsn <= r.lsn => q \in Sound' \cup pending'
      BY <1>i, <1>n, <1>t, <2>up, <2>3 DEF RollbackTx, Order
    <3>2. \A r \in Applied' : r \in Applied /\ r \in Sound' \cup pending'
      BY <1>s, <2>up, <3>1 DEF Applied
    <3> QED
      BY <1>s, <1>w, <2>up, <3>1, <3>2, WholeStep
  <2>4. CASE cflushed
    BY <2>1, <2>2, <2>4, <1>8 DEF AppendBatch
  <2>5. CASE ~cflushed
    <3>1. cflushed = FALSE
      BY <1>i, <2>5 DEF TypeOK, TypeCommit
    <3> QED
      BY <2>1, <2>2, <2>3, <3>1, <1>8 DEF AppendBatch
  <2> QED
    BY <2>4, <2>5
<1>9. CASE AppendCommit
  <2>up. up = "up" /\ up' = "up" /\ fence' = fence /\ cpc = "batches"
    BY <1>i, <1>9 DEF AppendCommit, Shape
  <2>1. ASSUME LsnsLeft(1), cpc' \in {"batches", "flush"},
              pending' \cup written' = pending \cup written \cup {Rec(next_lsn, "commit", cfirst)},
              next_lsn' = next_lsn + 1, UNCHANGED <<cfirst, ctx, active>>
       PROVE  Whole'
    <3> DEFINE m == Rec(next_lsn, "commit", cfirst)
    <3>1. /\ m.lsn = next_lsn /\ m.kind = "commit" /\ m.tx = ctx /\ m.seg = active
          /\ m.ref = cfirst
      BY DEF Rec
    <3>0. m \in written' \cup pending' /\ written \cup pending \subseteq written' \cup pending'
      BY <2>1
    <3> HIDE DEF m
    <3>2. Run(written \cup pending, cfirst, next_lsn - 1, ctx, active)
      BY <1>9 DEF Whole, AppendCommit
    <3>c. cfirst < next_lsn
      BY <1>i, <1>9 DEF Order, AppendCommit
    <3>3. Run(written' \cup pending', cfirst, next_lsn, ctx, active)
      <4> SUFFICES ASSUME NEW l \in cfirst .. next_lsn
                   PROVE  \E r \in written' \cup pending' :
                            /\ r.lsn = l /\ r.tx = ctx /\ r.seg = active
                            /\ l = cfirst => r.kind = "begin"
        BY DEF Run
      <4>1. CASE l = next_lsn
        BY <1>n, <3>0, <3>1, <3>c, <4>1
      <4>2. CASE l # next_lsn
        <5>1. l \in cfirst .. next_lsn - 1
          BY <1>n, <4>2
        <5> QED
          BY <3>0, <3>2, <5>1 DEF Run
      <4> QED
        BY <4>1, <4>2
    <3>4. \A r \in Applied' : r \in Applied \/ r = m
      BY <1>s, <1>t, <2>up, <2>1 DEF Applied, m
    <3>5. m.ref <= m.lsn /\ Run(Sound' \cup pending', m.ref, m.lsn, m.tx, m.seg)
      BY <1>n, <1>t, <2>up, <3>1, <3>3, <3>c
    <3>6. next_lsn' - 1 = next_lsn
      BY <1>n, <2>1
    <3>7. \A q \in Sound \cup pending : q \in Sound' \cup pending'
      BY <1>s, <1>t, <2>up, <2>1
    <3> QED
      BY <1>w, <2>1, <3>3, <3>4, <3>5, <3>6, <3>7, WholeStep
  <2>2. ASSUME RollbackTx(TRUE), written' \in {written, written \cup pending}
       PROVE  Whole'
    <3>1. /\ cpc' = "failing"
          /\ Sound' \cup pending' \subseteq written \cup pending
          /\ \A r \in Sound' \cup pending', q \in written \cup pending :
               q.lsn <= r.lsn => q \in Sound' \cup pending'
      BY <1>i, <1>n, <1>t, <2>up, <2>2 DEF RollbackTx, Order
    <3>2. \A r \in Applied' : r \in Applied /\ r \in Sound' \cup pending'
      BY <1>s, <2>up, <3>1 DEF Applied
    <3> QED
      BY <1>s, <1>w, <2>up, <3>1, <3>2, WholeStep
  <2>3. ASSUME RollbackTx(FALSE), written' \in {written, written \cup pending},
              ~cflushed, written' = written
       PROVE  Whole'
    <3>1. /\ cpc' = "failing"
          /\ Sound' \cup pending' \subseteq written \cup pending
          /\ \A r \in Sound' \cup pending', q \in written \cup pending :
               q.lsn <= r.lsn => q \in Sound' \cup pending'
      BY <1>i, <1>n, <1>t, <2>up, <2>3 DEF RollbackTx, Order
    <3>2. \A r \in Applied' : r \in Applied /\ r \in Sound' \cup pending'
      BY <1>s, <2>up, <3>1 DEF Applied
    <3> QED
      BY <1>s, <1>w, <2>up, <3>1, <3>2, WholeStep
  <2>4. CASE cflushed
    BY <2>1, <2>2, <2>4, <1>9 DEF AppendCommit
  <2>5. CASE ~cflushed
    <3>1. cflushed = FALSE
      BY <1>i, <2>5 DEF TypeOK, TypeCommit
    <3> QED
      BY <2>1, <2>2, <2>3, <3>1, <1>9 DEF AppendCommit
  <2> QED
    BY <2>4, <2>5
<1>10. CASE CommitFlush
  <2>1. Sound' \cup pending' = Sound \cup pending /\ fence' = fence
    BY <1>i, <1>s, <1>t, <1>u, <1>10 DEF CommitFlush, flush_buffer, Shape, Rotating
  <2>2. cpc' = "batches" =>
          /\ cpc = "batches" /\ UNCHANGED <<cfirst, next_lsn, ctx, active>>
          /\ written' \cup pending' = written \cup pending
    BY <1>i, <1>10 DEF CommitFlush, flush_buffer, Shape, Rotating, StateFree
  <2>3. Applied' = Applied
    BY <2>1 DEF Applied
  <2> QED
    BY <1>w, <2>1, <2>2, <2>3, WholeStep
<1>11. CASE CommitPoison
  <2>1. Sound' \cup pending' = Sound \cup pending /\ fence' = fence
    BY <1>i, <1>s, <1>t, <1>u, <1>11 DEF CommitPoison, Shape, Rotating
  <2>2. cpc' = "batches" =>
          /\ cpc = "batches" /\ UNCHANGED <<cfirst, next_lsn, ctx, active>>
          /\ written' \cup pending' = written \cup pending
    BY <1>i, <1>11 DEF CommitPoison, Shape, Rotating, StateFree
  <2>3. Applied' = Applied
    BY <2>1 DEF Applied
  <2> QED
    BY <1>w, <2>1, <2>2, <2>3, WholeStep
<1>12. ASSUME NEW s \in Flushers, FlushCall(s) PROVE Whole'
  <2>1. Sound' \cup pending' = Sound \cup pending /\ fence' = fence
    BY <1>i, <1>s, <1>t, <1>u, <1>12 DEF FlushCall, Shape, Rotating
  <2>2. cpc' = "batches" =>
          /\ cpc = "batches" /\ UNCHANGED <<cfirst, next_lsn, ctx, active>>
          /\ written' \cup pending' = written \cup pending
    BY <1>i, <1>12 DEF FlushCall, Shape, Rotating, StateFree
  <2>3. Applied' = Applied
    BY <2>1 DEF Applied
  <2> QED
    BY <1>w, <2>1, <2>2, <2>3, WholeStep
<1>13. ASSUME NEW s \in Flushers, FlushWrite(s) PROVE Whole'
  <2>1. Sound' \cup pending' = Sound \cup pending /\ fence' = fence
    BY <1>i, <1>s, <1>t, <1>u, <1>13
       DEF FlushWrite, flush_buffer, FlushDone, FlushFailed, Shape, Rotating
  <2>2. cpc' = "batches" =>
          /\ cpc = "batches" /\ UNCHANGED <<cfirst, next_lsn, ctx, active>>
          /\ written' \cup pending' = written \cup pending
    BY <1>i, <1>13 DEF FlushWrite, flush_buffer, FlushDone, FlushFailed, Shape, Rotating,
       StateFree
  <2>3. Applied' = Applied
    BY <2>1 DEF Applied
  <2> QED
    BY <1>w, <2>1, <2>2, <2>3, WholeStep
<1>14. ASSUME NEW s \in Flushers, FlushSync(s) PROVE Whole'
  <2>1. Sound' \cup pending' = Sound \cup pending /\ fence' = fence
    BY <1>i, <1>s, <1>t, <1>u, <1>14 DEF FlushSync, FlushFailed, Shape, Rotating
  <2>2. cpc' = "batches" =>
          /\ cpc = "batches" /\ UNCHANGED <<cfirst, next_lsn, ctx, active>>
          /\ written' \cup pending' = written \cup pending
    BY <1>i, <1>14 DEF FlushSync, FlushFailed, Shape, Rotating, StateFree
  <2>3. Applied' = Applied
    BY <2>1 DEF Applied
  <2> QED
    BY <1>w, <2>1, <2>2, <2>3, WholeStep
<1>15. ASSUME NEW s \in Flushers, FlushAdvance(s) PROVE Whole'
  <2>1. Sound' \cup pending' = Sound \cup pending /\ fence' = fence
    BY <1>i, <1>s, <1>t, <1>u, <1>15 DEF FlushAdvance, FlushDone, Shape, Rotating
  <2>2. cpc' = "batches" =>
          /\ cpc = "batches" /\ UNCHANGED <<cfirst, next_lsn, ctx, active>>
          /\ written' \cup pending' = written \cup pending
    BY <1>i, <1>15 DEF FlushAdvance, FlushDone, Shape, Rotating, StateFree
  <2>3. Applied' = Applied
    BY <2>1 DEF Applied
  <2> QED
    BY <1>w, <2>1, <2>2, <2>3, WholeStep
<1>16. CASE CkptStart
  <2>1. Sound' \cup pending' = Sound \cup pending /\ fence' = fence
    BY <1>i, <1>s, <1>t, <1>u, <1>16 DEF CkptStart, Shape, Rotating
  <2>2. cpc' = "batches" =>
          /\ cpc = "batches" /\ UNCHANGED <<cfirst, next_lsn, ctx, active>>
          /\ written' \cup pending' = written \cup pending
    BY <1>i, <1>16 DEF CkptStart, Shape, Rotating, StateFree
  <2>3. Applied' = Applied
    BY <2>1 DEF Applied
  <2> QED
    BY <1>w, <2>1, <2>2, <2>3, WholeStep
<1>17. CASE CkptTake
  <2>1. Sound' \cup pending' = Sound \cup pending /\ fence' = fence
    BY <1>i, <1>s, <1>t, <1>u, <1>17 DEF CkptTake, Shape, Rotating
  <2>2. cpc' = "batches" =>
          /\ cpc = "batches" /\ UNCHANGED <<cfirst, next_lsn, ctx, active>>
          /\ written' \cup pending' = written \cup pending
    BY <1>i, <1>17 DEF CkptTake, Shape, Rotating, StateFree
  <2>3. Applied' = Applied
    BY <2>1 DEF Applied
  <2> QED
    BY <1>w, <2>1, <2>2, <2>3, WholeStep
<1>18. CASE CkptInstall
  <2>1. Sound' \cup pending' = Sound \cup pending /\ fence <= fence' /\ fence' \in Nat
    BY <1>i, <1>n, <1>u, <1>18 DEF CkptInstall, Fences
  <2>2. cpc' = "batches" =>
          /\ cpc = "batches" /\ UNCHANGED <<cfirst, next_lsn, ctx, active>>
          /\ written' \cup pending' = written \cup pending
    BY <1>18 DEF CkptInstall
  <2>3. Applied' \subseteq Applied
    BY <1>n, <2>1 DEF Applied, Sound
  <2> QED
    BY <1>w, <2>1, <2>2, <2>3, WholeStep
<1>19. CASE CkptMark
  <2>1. /\ up = "up" /\ up' = "up" /\ cpc' # "batches" /\ fence' = fence
        /\ written' = written /\ pending \subseteq pending'
    BY <1>i, <1>19 DEF CkptMark, Shape, StateFree
  <2>2. \A r \in Applied' : r \in Applied
    <3>1. Rec(next_lsn, "marker", klsn).kind = "marker"
      BY RecFields
    <3>2. \A r \in pending' : r \in pending \/ r.kind = "marker"
      BY <3>1, <1>19 DEF CkptMark
    <3> QED
      BY <1>u, <2>1, <3>2 DEF Applied
  <2>3. Sound \cup pending \subseteq Sound' \cup pending'
    BY <1>u, <2>1
  <2> QED
    BY <1>w, <2>1, <2>2, <2>3, WholeStep
<1>20. CASE CkptTruncate
  <2>1. PICK gone \in SUBSET Droppable(klsn) :
          /\ written' = {r \in written : r.seg \notin gone}
          /\ \A s \in gone : s < active - 1
    BY <1>20, TruncateFacts
  <2>2. UNCHANGED <<pending, fence, up, cpc>> /\ up = "up" /\ StateFree
    BY <1>20, TruncateFacts
  <2>3. Sound = written /\ Sound' = written'
    BY <1>s, <1>t, <2>2
  <2>4. \A r \in Applied' : r \in Applied
    BY <2>1, <2>2, <2>3 DEF Applied
  <2>5. \A r \in Applied' : r.seg \notin gone
    <3>1. active \notin gone
      BY <1>i, <2>1, Numbers
    <3> QED
      BY <1>i, <2>1, <2>2, <2>3, <3>1 DEF Applied, Files
  <2>6. \A r \in Applied', q \in Sound \cup pending :
          q.seg = r.seg => q \in Sound' \cup pending'
    BY <2>1, <2>2, <2>3, <2>5
  <2>7. cpc' # "batches"
    BY <2>2 DEF StateFree
  <2> QED
    BY <1>w, <2>4, <2>6, <2>7, WholeStep
<1>21. CASE CkptAbandon
  <2>1. Sound' \cup pending' = Sound \cup pending /\ fence' = fence
    BY <1>i, <1>s, <1>t, <1>u, <1>21 DEF CkptAbandon, Shape, Rotating
  <2>2. cpc' = "batches" =>
          /\ cpc = "batches" /\ UNCHANGED <<cfirst, next_lsn, ctx, active>>
          /\ written' \cup pending' = written \cup pending
    BY <1>i, <1>21 DEF CkptAbandon, Shape, Rotating, StateFree
  <2>3. Applied' = Applied
    BY <2>1 DEF Applied
  <2> QED
    BY <1>w, <2>1, <2>2, <2>3, WholeStep
<1>22. CASE Crash
  <2>1. /\ written \subseteq written' /\ written' \subseteq written \cup pending
        /\ pending' = {} /\ fence' = fence /\ up \in {"up", "creating"} /\ cpc' = "idle"
        /\ written' # written => written' = written \cup pending
    BY <1>i, <1>22 DEF Crash, Stopped
  <2>2. Sound = written /\ Sound' = written'
    BY <1>s, <2>1 DEF Frames, Sound
  <2>3. \A r \in Applied' : r \in Applied
    BY <2>1, <2>2 DEF Applied
  <2>4. \A r \in written', q \in written \cup pending : q.lsn <= r.lsn => q \in written'
    BY <1>i, <1>n, <2>1 DEF Order
  <2> QED
    BY <1>w, <2>1, <2>2, <2>3, <2>4, WholeStep DEF Applied
<1>23. CASE PowerLoss
  <2>1. /\ pending = {} /\ pending' = {} /\ fence' = fence /\ cpc' = "idle" /\ Sound' \subseteq Sound
        /\ \A r \in Sound', q \in Sound :
             q.lsn <= r.lsn /\ q.seg \in dir' => q \in Sound'
    BY <1>23, PowerLossFacts
  <2>2. \A r \in Applied' : r \in Applied /\ r \in Sound'
    BY <2>1 DEF Applied
  <2>3. \A r \in Sound' : r.seg \in dir'
    BY <1>w DEF Sound, SyncInv, LogInv, Files, TypeOK, TypeDisk
  <2> QED
    BY <1>w, <2>1, <2>2, <2>3, WholeStep
<1>24. CASE Drop
  <2>1. /\ written \subseteq written' /\ written' \subseteq written \cup pending
        /\ pending' = {} /\ fence' = fence /\ up \in {"up", "creating"} /\ cpc' = "idle"
        /\ written' # written => written' = written \cup pending
    BY <1>i, <1>24 DEF Drop, Stopped
  <2>2. Sound = written /\ Sound' = written'
    BY <1>s, <2>1 DEF Frames, Sound
  <2>3. \A r \in Applied' : r \in Applied
    BY <2>1, <2>2 DEF Applied
  <2>4. \A r \in written', q \in written \cup pending : q.lsn <= r.lsn => q \in written'
    BY <1>i, <1>n, <2>1 DEF Order
  <2> QED
    BY <1>w, <2>1, <2>2, <2>3, <2>4, WholeStep DEF Applied
<1>25. CASE DiscardUnborn
  <2>1. Sound' \cup pending' = Sound \cup pending /\ fence' = fence
    BY <1>i, <1>s, <1>t, <1>u, <1>25 DEF DiscardUnborn, Shape, Rotating
  <2>2. cpc' = "batches" =>
          /\ cpc = "batches" /\ UNCHANGED <<cfirst, next_lsn, ctx, active>>
          /\ written' \cup pending' = written \cup pending
    BY <1>i, <1>25 DEF DiscardUnborn, Shape, Rotating, StateFree
  <2>3. Applied' = Applied
    BY <2>1 DEF Applied
  <2> QED
    BY <1>w, <2>1, <2>2, <2>3, WholeStep
<1>26. CASE OpenFresh
  <2>1. UNCHANGED <<written, pending, fence>> /\ cpc' # "batches"
    BY <1>i, <1>26 DEF OpenFresh, Opened, Shape
  <2>2. Applied' = Applied
    BY <1>u, <2>1 DEF Applied
  <2> QED
    BY <1>u, <1>w, <2>1, <2>2, WholeStep
<1>27. CASE OpenExisting
  <2>1. /\ written' = Sound /\ pending = {} /\ pending' = {} /\ fence' = fence
        /\ cpc' # "batches"
    BY <1>27, OpenFacts
  <2>2. Sound' = Sound
    BY <1>t, <2>1, <1>27, OpenFacts
  <2>3. Applied' = Applied
    BY <2>1, <2>2 DEF Applied
  <2> QED
    BY <1>w, <2>1, <2>2, <2>3, WholeStep
<1>28. CASE OpenCreate
  <2>1. Sound' \cup pending' = Sound \cup pending /\ fence' = fence
    BY <1>i, <1>s, <1>t, <1>u, <1>28 DEF OpenCreate, Shape, Rotating
  <2>2. cpc' = "batches" =>
          /\ cpc = "batches" /\ UNCHANGED <<cfirst, next_lsn, ctx, active>>
          /\ written' \cup pending' = written \cup pending
    BY <1>i, <1>28 DEF OpenCreate, Shape, Rotating, StateFree
  <2>3. Applied' = Applied
    BY <2>1 DEF Applied
  <2> QED
    BY <1>w, <2>1, <2>2, <2>3, WholeStep
<1>29. CASE OpenFail
  <2>1. Sound' \cup pending' = Sound \cup pending /\ fence' = fence
    BY <1>i, <1>s, <1>t, <1>u, <1>29 DEF OpenFail, Shape, Rotating
  <2>2. cpc' = "batches" =>
          /\ cpc = "batches" /\ UNCHANGED <<cfirst, next_lsn, ctx, active>>
          /\ written' \cup pending' = written \cup pending
    BY <1>i, <1>29 DEF OpenFail, Shape, Rotating, StateFree
  <2>3. Applied' = Applied
    BY <2>1 DEF Applied
  <2> QED
    BY <1>w, <2>1, <2>2, <2>3, WholeStep
<1>30. CASE OpenCreateFail
  <2>1. Sound' \cup pending' = Sound \cup pending /\ fence' = fence /\ cpc' # "batches"
    BY <1>i, <1>u, <1>30 DEF OpenCreateFail, Stopped, Files, Sound
  <2>2. Applied' = Applied
    BY <2>1 DEF Applied
  <2> QED
    BY <1>w, <2>1, <2>2, WholeStep
<1> QED
  BY <1>1, <1>2, <1>3, <1>4, <1>5, <1>6, <1>7, <1>8, <1>9, <1>10, <1>11, <1>12,
     <1>13, <1>14, <1>15, <1>16, <1>17, <1>18, <1>19, <1>20, <1>21, <1>22, <1>23,
     <1>24, <1>25, <1>26, <1>27, <1>28, <1>29, <1>30
  DEF Next, CommitStep, FlushStep, CkptStep, Open

\* Every step keeps the transactions in the order in which they began.
LEMMA NextNumbered ==
  ASSUME SyncInv, Frames, Fences, Numbered, Next
  PROVE  Numbered'
<1> USE DEF disk, files, snap, mem, latches, commit, flush, ckpt, told, Fails,
            Running
<1>i. /\ TypeOK /\ Shape /\ Files /\ Order /\ UnsyncedTail /\ SnapCovers /\ LiveCovers
      /\ LogInv /\ synced \subseteq written
  BY DEF SyncInv, LogInv, TypeOK, TypeRecs
<1>n. /\ next_lsn \in Nat /\ \A r \in written \cup pending : r.lsn \in Nat /\ r.tx \in Txs
      /\ ctx \in Nat /\ started \in Nat /\ cfirst \in Nat
      /\ snapTx \subseteq Txs /\ ktx \subseteq Txs /\ live \subseteq Txs
      /\ \A t \in Txs : t \in Nat
  BY <1>i, Numbers DEF TypeOK, TypeRecs, TypeCommit, TypeTold, TypeSnap, Record, Txs
<1>t. \A r \in written : Torn(r).kind = "torn"
  BY <1>i DEF TypeOK, TypeRecs, Record, Torn
<1>1. ASSUME NEW n \in 1 .. MaxBatches, CommitLock(n) PROVE Numbered'
  BY <1>i, <1>n, <1>1 DEF CommitLock, WriterFree, Numbered, InLog, Commits, Shape
<1>2. CASE RotateFlush
  BY <1>i, <1>n, <1>2 DEF RotateFlush, flush_buffer, Numbered, InLog, Commits, Shape
<1>3. CASE RotateCreate
  BY <1>i, <1>n, <1>3 DEF RotateCreate, Numbered, InLog, Commits
<1>4. CASE RotateHeader
  BY <1>i, <1>n, <1>4 DEF RotateHeader, WithEntry, Numbered, InLog, Commits
<1>5. CASE RotateSyncDir
  BY <1>i, <1>n, <1>5 DEF RotateSyncDir, DropNew, Numbered, InLog, Commits
<1>6. CASE RotateSeal
  BY <1>i, <1>n, <1>6 DEF RotateSeal, DropNew, Numbered, InLog, Commits
<1>7. CASE AppendBegin
  BY <1>i, <1>n, <1>7, RecFields DEF AppendBegin, Numbered, InLog, Commits, Order, Shape
<1>8. CASE AppendBatch
  BY <1>i, <1>n, <1>8, RecFields
     DEF AppendBatch, RollbackTx, Numbered, InLog, Commits, Order, Shape
<1>9. CASE AppendCommit
  <2>a. UNCHANGED <<written, snapTx, ktx, live, started, up, kpc, poisoned>> /\ cpc = "batches"
    BY <1>9 DEF AppendCommit
  <2>b. UNCHANGED ctx /\ up = "up"
    BY <1>i, <1>9, <2>a DEF AppendCommit, RollbackTx, Shape
  <2>1. /\ UNCHANGED <<written, snapTx, ktx, live, started, ctx, up, kpc, poisoned>>
        /\ cpc = "batches" /\ up = "up"
    BY <2>a, <2>b
  <2>c. Commits(pending) = {}
    BY <2>1 DEF Numbered
  <2>2. CASE cpc' = "failing"
    <3>1. pending' \subseteq pending
      BY <2>2, <1>9 DEF AppendCommit, RollbackTx
    <3>2. /\ Commits(written' \cup pending') = Commits(written \cup pending)
          /\ Commits(pending)' = {}
      BY <2>1, <2>c, <3>1 DEF Commits
    <3>3. \A t : InLog(t)' <=> InLog(t)
      BY <2>1, <3>2 DEF InLog
    <3> QED
      BY <2>1, <2>2, <3>2, <3>3 DEF Numbered
  <2>3. CASE cpc' # "failing"
    <3> DEFINE m == Rec(next_lsn, "commit", cfirst)
    <3>1. cpc' = "flush" /\ pending' = pending \cup {m}
      BY <2>3, <1>9 DEF AppendCommit, RollbackTx
    <3>2. m.lsn = next_lsn /\ m.kind = "commit" /\ m.tx = ctx
      BY DEF Rec
    <3> HIDE DEF m
    <3>3. Commits(written' \cup pending') = Commits(written \cup pending) \cup {m}
      BY <2>1, <3>1, <3>2 DEF Commits
    <3>4. \A t : InLog(t)' <=> InLog(t) \/ t = ctx
      BY <2>1, <3>2, <3>3 DEF InLog
    <3>5. \A c \in Commits(written \cup pending) :
            c.lsn < next_lsn /\ c.lsn \in Nat /\ c.tx \in Txs /\ InLog(c.tx)
      BY <1>i, <1>n, <2>1 DEF Order, Commits, InLog
    <3>d. /\ ctx = started /\ ctx \notin live /\ ~InLog(ctx)
          /\ \A t \in live : t <= started
          /\ \A t \in Txs : InLog(t) => t <= started
      BY <2>1 DEF Numbered
    <3>e. \A t \in Txs : InLog(t) => t < ctx
      BY <1>n, <3>d
    <3>f. \A t \in snapTx : InLog(t)
      BY DEF InLog
    <3>6. /\ ctx = started /\ ctx \notin live /\ ~InLog(ctx)
          /\ \A t \in Txs : InLog(t) => t < ctx
          /\ \A t \in live \cup snapTx : t < ctx
      BY <1>n, <3>d, <3>e, <3>f
    <3>7. \A c, d \in Commits(written' \cup pending') : c.lsn < d.lsn => c.tx < d.tx
      <4> SUFFICES ASSUME NEW c \in Commits(written \cup pending) \cup {m},
                          NEW d \in Commits(written \cup pending) \cup {m},
                          c.lsn < d.lsn
                   PROVE  c.tx < d.tx
        BY <3>3
      <4>1. CASE c = m
        <5>1. CASE d = m
          BY <4>1, <5>1, <1>n, <3>2
        <5>2. CASE d # m
          <6>1. d.lsn < next_lsn /\ d.lsn \in Nat
            BY <3>5, <5>2
          <6> QED
            BY <4>1, <6>1, <1>n, <3>2
        <5> QED
          BY <5>1, <5>2
      <4>2. CASE c # m /\ d = m
        BY <4>2, <3>2, <3>5, <3>6
      <4>3. CASE c # m /\ d # m
        BY <4>3 DEF Numbered
      <4> QED
        BY <4>1, <4>2, <4>3
    <3>8. kpc = "install" => \A t \in ktx : t < ctx
      BY <1>i, <3>6 DEF SnapCovers
    <3>9. \A c \in Commits(written' \cup pending') :
            /\ c.tx \in snapTx' \/ \A t \in snapTx' : t < c.tx
            /\ kpc' = "install" => c.tx \in ktx' \/ \A t \in ktx' : t < c.tx
      BY <2>1, <3>2, <3>3, <3>6, <3>8 DEF Numbered
    <3>10. /\ \A t \in live' : t <= started' /\ InLog(t)'
           /\ \A t \in Txs : InLog(t)' => t <= started'
           /\ InLog(ctx)'
      BY <1>n, <2>1, <3>4, <3>6 DEF Numbered
    <3> QED
      BY <2>1, <3>1, <3>7, <3>9, <3>10 DEF Numbered
  <2> QED
    BY <2>2, <2>3
<1>10. CASE CommitFlush
  BY <1>i, <1>n, <1>10 DEF CommitFlush, flush_buffer, Numbered, InLog, Commits, Shape
<1>11. CASE CommitPoison
  BY <1>i, <1>n, <1>11 DEF CommitPoison, Numbered, InLog, Commits, Shape
<1>12. ASSUME NEW s \in Flushers, FlushCall(s) PROVE Numbered'
  BY <1>i, <1>n, <1>12 DEF FlushCall, Numbered, InLog, Commits
<1>13. ASSUME NEW s \in Flushers, FlushWrite(s) PROVE Numbered'
  BY <1>i, <1>n, <1>13 DEF FlushWrite, flush_buffer, FlushDone, FlushFailed, Numbered,
     InLog, Commits, Shape
<1>14. ASSUME NEW s \in Flushers, FlushSync(s) PROVE Numbered'
  BY <1>i, <1>n, <1>14 DEF FlushSync, FlushFailed, Numbered, InLog, Commits, Shape
<1>15. ASSUME NEW s \in Flushers, FlushAdvance(s) PROVE Numbered'
  BY <1>i, <1>n, <1>15 DEF FlushAdvance, FlushDone, Numbered, InLog, Commits
<1>16. CASE CkptStart
  BY <1>i, <1>n, <1>16 DEF CkptStart, Numbered, InLog, Commits, Shape
<1>17. CASE CkptTake
  BY <1>i, <1>n, <1>17 DEF CkptTake, Numbered, InLog, Commits, Shape, LiveCovers
<1>18. CASE CkptInstall
  BY <1>i, <1>n, <1>18 DEF CkptInstall, Numbered, InLog, Commits, Shape, SnapCovers
<1>19. CASE CkptMark
  BY <1>i, <1>n, <1>19, RecFields DEF CkptMark, Numbered, InLog, Commits, Order, Shape
<1>20. CASE CkptTruncate
  <2>1. PICK gone \in SUBSET Droppable(klsn) :
          /\ written' = {r \in written : r.seg \notin gone}
          /\ \A r \in written : r.seg \in gone => r.lsn <= fence
    BY <1>20, TruncateFacts
  <2>2. UNCHANGED <<pending, snapTx, up, cpc, live, started, ctx, ktx, poisoned>> /\ kpc' = "idle"
    BY <1>20, TruncateFacts
  <2>3. \A c \in Commits(written' \cup pending') : c \in Commits(written \cup pending)
    BY <2>1, <2>2 DEF Commits
  <2>4. \A c \in Commits(written \cup pending) :
          c \in Commits(written' \cup pending') \/ c.tx \in snapTx
    BY <1>i, <2>1, <2>2 DEF Commits, SnapCovers
  <2>5. \A t : InLog(t) <=> InLog(t)'
    BY <2>2, <2>3, <2>4 DEF InLog
  <2>6. Commits(pending)' = Commits(pending)
    BY <2>2 DEF Commits
  <2> QED
    BY <2>2, <2>3, <2>5, <2>6 DEF Numbered
<1>21. CASE CkptAbandon
  BY <1>i, <1>n, <1>21 DEF CkptAbandon, Numbered, InLog, Commits
<1>22. CASE Crash
  BY <1>i, <1>n, <1>22 DEF Crash, Stopped, Numbered, InLog, Commits, Shape
<1>23. CASE PowerLoss
  <2>1. /\ UNCHANGED <<snapTx, live, started>> /\ pending = {} /\ pending' = {}
        /\ up' = "down" /\ cpc' = "idle" /\ kpc' = "idle"
    BY <1>23, PowerLossFacts
  <2>2. \A c \in Commits(written' \cup pending') : c \in Commits(written \cup pending)
    BY <1>t, <2>1, <1>23, PowerLossFacts DEF Commits, Unsynced
  <2>3. \A t : InLog(t)' => InLog(t)
    BY <2>1, <2>2 DEF InLog
  <2>4. Commits(pending)' = {}
    BY <2>1 DEF Commits
  <2> QED
    BY <2>1, <2>2, <2>3, <2>4 DEF Numbered
<1>24. CASE Drop
  BY <1>i, <1>n, <1>24 DEF Drop, Stopped, Numbered, InLog, Commits, Shape
<1>25. CASE DiscardUnborn
  BY <1>i, <1>n, <1>25 DEF DiscardUnborn, Numbered, InLog, Commits
<1>26. CASE OpenFresh
  <2>1. /\ written = {} /\ pending = {} /\ cpc = "idle" /\ kpc = "idle"
    BY <1>i, <1>26 DEF OpenFresh, Files, Shape, TypeOK, TypeDisk
  <2>2. UNCHANGED <<written, pending, snapTx, started, cpc, kpc>> /\ live' = Replayed
    BY <1>26 DEF OpenFresh, Opened
  <2>3. Commits(written' \cup pending') = {} /\ Commits(written \cup pending) = {}
        /\ Commits(pending)' = {}
    BY <2>1, <2>2 DEF Commits
  <2>4. Replayed = snapTx
    BY <1>i, <2>1, SoundIsReadable DEF Replayed, Commits
  <2>5. \A t : (InLog(t)' <=> InLog(t)) /\ (InLog(t) <=> t \in snapTx)
    BY <2>2, <2>3 DEF InLog
  <2> QED
    BY <1>n, <2>1, <2>2, <2>3, <2>4, <2>5 DEF Numbered
<1>27. CASE OpenExisting
  <2>1. /\ UNCHANGED <<snapTx, started>> /\ written' = Sound /\ Sound = Readable
        /\ Sound \subseteq written
        /\ pending = {} /\ pending' = {} /\ cpc' = "idle" /\ kpc' = "idle"
        /\ live' = Replayed
    BY <1>27, OpenFacts
  <2>2. /\ \A c \in Commits(written' \cup pending') : c \in Commits(written \cup pending)
        /\ Commits(pending)' = {}
    BY <2>1 DEF Commits
  <2>3. \A t : InLog(t)' => InLog(t)
    BY <2>1, <2>2 DEF InLog
  <2>4. \A t \in Replayed : InLog(t)'
    BY <2>1 DEF Replayed, Commits, InLog
  <2>5. \A t \in Replayed : t \in Txs
    BY <1>i, ReplayType
  <2> QED
    BY <2>1, <2>2, <2>3, <2>4, <2>5 DEF Numbered
<1>28. CASE OpenCreate
  BY <1>i, <1>n, <1>28 DEF OpenCreate, Numbered, InLog, Commits
<1>29. CASE OpenFail
  BY <1>i, <1>n, <1>29 DEF OpenFail, Numbered, InLog, Commits
<1>30. CASE OpenCreateFail
  BY <1>i, <1>n, <1>30 DEF OpenCreateFail, Stopped, Numbered, InLog, Commits
<1> QED
  BY <1>1, <1>2, <1>3, <1>4, <1>5, <1>6, <1>7, <1>8, <1>9, <1>10, <1>11, <1>12,
     <1>13, <1>14, <1>15, <1>16, <1>17, <1>18, <1>19, <1>20, <1>21, <1>22, <1>23,
     <1>24, <1>25, <1>26, <1>27, <1>28, <1>29, <1>30
  DEF Next, CommitStep, FlushStep, CkptStep, Open

\* Every step keeps the records, and the next one, above the base of their
\* file.
LEMMA NextStarts ==
  ASSUME BaseInv, Next, "entry_unsynced" \notin Faults
  PROVE  Starts'
<1> USE DEF disk, files, snap, mem, latches, commit, flush, ckpt, told, Fails,
            Running
<1>i. /\ TypeOK /\ Shape /\ Files /\ Order /\ UnsyncedTail /\ Bases /\ SnapCovers
      /\ SyncInv /\ LogInv /\ synced \subseteq written /\ Kept /\ Frames /\ Starts /\ Reached
      /\ Fences
  BY DEF BaseInv, ReadInv, Inv, SyncInv, LogInv, TypeOK, TypeRecs
<1>n. /\ next_lsn \in Nat /\ \A r \in written \cup pending : r.lsn \in Nat /\ r.seg \in SegIds
      /\ fence \in Nat /\ klsn \in Nat /\ cfirst \in Nat /\ active \in SegIds
      /\ active + 1 # active
      /\ \A s \in SegIds : base[s] \in Nat
  <2>1. active \in SegIds /\ \A r \in written \cup pending : r.seg \in SegIds
    BY <1>i DEF TypeOK, TypeMem, TypeRecs, Record
  <2> QED
    BY <1>i, <2>1, Numbers
<1>t. \A r \in written : /\ Torn(r).kind = "torn" /\ Torn(r).lsn = r.lsn
                         /\ Torn(r).seg = r.seg
  BY <1>i DEF TypeOK, TypeRecs, Record, Torn
<1>1. ASSUME NEW n \in 1 .. MaxBatches, CommitLock(n) PROVE Starts'
  BY <1>i, <1>n, <1>1 DEF CommitLock, WriterFree, Starts
<1>2. CASE RotateFlush
  BY <1>i, <1>n, <1>2 DEF RotateFlush, flush_buffer, Starts, Files
<1>3. CASE RotateCreate
  BY <1>i, <1>n, <1>3 DEF RotateCreate, Starts
<1>4. CASE RotateHeader
  <2>1. /\ cpc = "header" /\ up = "up" /\ pending = {} /\ \A r \in written : r.seg <= active
    BY <1>i, <1>4 DEF RotateHeader, Shape, Files, Rotating
  <2>2. \A s \in SegIds : s # active + 1 => base'[s] = base[s]
    BY <1>i, <1>4 DEF RotateHeader, TypeOK, TypeDisk
  <2>3. \A r \in written : r.seg # active + 1
    BY <1>n, <2>1 DEF SegIds
  <2>4. UNCHANGED <<written, pending, up, active, next_lsn, cfirst>> /\ cpc' # "batches"
    BY <1>4, <2>1 DEF RotateHeader
  <2> QED
    BY <1>i, <1>n, <2>1, <2>2, <2>3, <2>4 DEF Starts
<1>5. CASE RotateSyncDir
  BY <1>i, <1>n, <1>5 DEF RotateSyncDir, DropNew, Starts
<1>6. CASE RotateSeal
  <2>1. cpc = "seal" /\ up = "up" /\ pending = {} /\ base[active + 1] = next_lsn
    BY <1>i, <1>6 DEF RotateSeal, Shape, Files, Rotating, Bases
  <2>2. /\ UNCHANGED <<written, pending, base, next_lsn>> /\ cpc' # "batches"
        /\ active' = active \/ active' = active + 1
    BY <1>6, <2>1 DEF RotateSeal
  <2> QED
    BY <1>i, <1>n, <2>1, <2>2 DEF Starts
<1>7. CASE AppendBegin
  BY <1>i, <1>n, <1>7, RecFields DEF AppendBegin, Starts, Order, Shape
<1>8. CASE AppendBatch
  BY <1>i, <1>n, <1>8, RecFields DEF AppendBatch, RollbackTx, Starts, Order, Shape, Files
<1>9. CASE AppendCommit
  BY <1>i, <1>n, <1>9, RecFields DEF AppendCommit, RollbackTx, Starts, Order, Shape
<1>10. CASE CommitFlush
  BY <1>i, <1>n, <1>10 DEF CommitFlush, flush_buffer, Starts, Files
<1>11. CASE CommitPoison
  BY <1>i, <1>n, <1>11 DEF CommitPoison, Starts
<1>12. ASSUME NEW s \in Flushers, FlushCall(s) PROVE Starts'
  BY <1>i, <1>n, <1>12 DEF FlushCall, Starts
<1>13. ASSUME NEW s \in Flushers, FlushWrite(s) PROVE Starts'
  BY <1>i, <1>n, <1>13 DEF FlushWrite, flush_buffer, FlushDone, FlushFailed, Starts, Files
<1>14. ASSUME NEW s \in Flushers, FlushSync(s) PROVE Starts'
  BY <1>i, <1>n, <1>14 DEF FlushSync, FlushFailed, Starts
<1>15. ASSUME NEW s \in Flushers, FlushAdvance(s) PROVE Starts'
  BY <1>i, <1>n, <1>15 DEF FlushAdvance, FlushDone, Starts
<1>16. CASE CkptStart
  BY <1>i, <1>n, <1>16 DEF CkptStart, Starts
<1>17. CASE CkptTake
  BY <1>i, <1>n, <1>17 DEF CkptTake, Starts
<1>18. CASE CkptInstall
  BY <1>i, <1>n, <1>18 DEF CkptInstall, Starts
<1>19. CASE CkptMark
  BY <1>i, <1>n, <1>19, RecFields DEF CkptMark, Starts, Order, Shape
<1>20. CASE CkptTruncate
  <2>1. /\ UNCHANGED <<pending, base, active, next_lsn, cfirst, up, cpc>>
        /\ written' \subseteq written
    BY <1>i, <1>20, TruncateFacts
  <2> QED
    BY <1>i, <2>1 DEF Starts
<1>21. CASE CkptAbandon
  BY <1>i, <1>n, <1>21 DEF CkptAbandon, Starts
<1>22. CASE Crash
  BY <1>i, <1>n, <1>22 DEF Crash, Stopped, Starts
<1>23. CASE PowerLoss
  <2>1. /\ UNCHANGED base /\ pending' = {} /\ up' = "down" /\ cpc' = "idle"
        /\ \A r \in written' : r \in written \/ \E l \in Unsynced : r = Torn(l)
    BY <1>i, <1>23, PowerLossFacts
  <2>2. \A r \in written' : \E q \in written : r.lsn = q.lsn /\ r.seg = q.seg
    BY <1>t, <2>1 DEF Unsynced
  <2> QED
    BY <1>i, <2>1, <2>2 DEF Starts
<1>24. CASE Drop
  BY <1>i, <1>n, <1>24 DEF Drop, Stopped, Starts, Files
<1>25. CASE DiscardUnborn
  BY <1>i, <1>n, <1>25 DEF DiscardUnborn, Starts
<1>26. CASE OpenFresh
  <2>1. written = {} /\ pending = {} /\ cpc = "idle"
    BY <1>i, <1>26 DEF OpenFresh, Files, Shape, TypeOK, TypeDisk
  <2> QED
    BY <2>1, <1>26 DEF OpenFresh, Opened, Starts
<1>27. CASE OpenExisting
  <2>1. /\ UNCHANGED base /\ pending' = {} /\ cpc' = "idle" /\ written' = Sound
        /\ Sound \subseteq written /\ next_lsn' = LastUsed + 1 /\ fence <= LastUsed
        /\ \A r \in Sound : r.lsn <= LastUsed
        /\ CutAt \in born /\ CutAt \in SegIds
        /\ up' = "up" => active' = CutAt
    BY <1>i, <1>27, OpenFacts
  <2>2. base[CutAt] - 1 <= LastUsed
    <3>1. base[CutAt] \in Nat /\ LastUsed \in Nat /\ \A r \in Sound : r.lsn \in Nat
      BY <1>i, <1>n, <2>1, ReplayType DEF Lsns
    <3> QED
      BY <1>i, <1>n, <2>1, <3>1 DEF Reached
  <2>3. base[CutAt] <= LastUsed + 1
    BY <1>i, <1>n, <2>1, <2>2, ReplayType DEF Lsns
  <2> QED
    BY <1>i, <2>1, <2>3 DEF Starts
<1>28. CASE OpenCreate
  <2>1. active \notin born /\ pending = {} /\ cpc = "idle" /\ up = "creating"
    BY <1>i, <1>28 DEF OpenCreate, Shape, Files
  <2>2. \A r \in written : r.seg \in born
    BY <1>i DEF Files
  <2>3. base'[active] = next_lsn /\ \A r \in written : base'[r.seg] = base[r.seg]
    BY <1>i, <1>n, <1>28, <2>1, <2>2 DEF OpenCreate, TypeOK, TypeDisk
  <2>4. UNCHANGED <<written, pending, active, next_lsn, cpc>>
    BY <1>28 DEF OpenCreate
  <2> QED
    BY <1>i, <1>n, <2>1, <2>3, <2>4 DEF Starts
<1>29. CASE OpenFail
  BY <1>i, <1>n, <1>29 DEF OpenFail, Starts
<1>30. CASE OpenCreateFail
  <2>1. active \notin born /\ \A r \in written : r.seg \in born
    BY <1>i, <1>30 DEF OpenCreateFail, Shape, Files
  <2>2. \A r \in written : base'[r.seg] = base[r.seg]
    BY <1>i, <1>n, <1>30, <2>1 DEF OpenCreateFail, TypeOK, TypeDisk
  <2>3. UNCHANGED written /\ pending' = {} /\ up' = "down" /\ cpc' = "idle"
    BY <1>30 DEF OpenCreateFail, Stopped
  <2> QED
    BY <1>i, <2>2, <2>3 DEF Starts
<1> QED
  BY <1>1, <1>2, <1>3, <1>4, <1>5, <1>6, <1>7, <1>8, <1>9, <1>10, <1>11, <1>12,
     <1>13, <1>14, <1>15, <1>16, <1>17, <1>18, <1>19, <1>20, <1>21, <1>22, <1>23,
     <1>24, <1>25, <1>26, <1>27, <1>28, <1>29, <1>30
  DEF Next, CommitStep, FlushStep, CkptStep, Open

\* Every step keeps the base of each file right above something durable.
LEMMA NextReached ==
  ASSUME BaseInv, Next, "entry_unsynced" \notin Faults
  PROVE  Reached'
<1> USE DEF disk, files, snap, mem, latches, commit, flush, ckpt, told, Fails,
            Running
<1>i. /\ TypeOK /\ Shape /\ Files /\ Order /\ UnsyncedTail /\ Bases /\ SnapCovers
      /\ SyncInv /\ LogInv /\ synced \subseteq written /\ Kept /\ Frames /\ Starts /\ Reached
      /\ Fences
  BY DEF BaseInv, ReadInv, Inv, SyncInv, LogInv, TypeOK, TypeRecs
<1>n. /\ next_lsn \in Nat /\ \A r \in written \cup pending : r.lsn \in Nat /\ r.seg \in SegIds
      /\ fence \in Nat /\ klsn \in Nat /\ cfirst \in Nat /\ active \in SegIds
      /\ active + 1 # active
      /\ \A s \in SegIds : base[s] \in Nat
  <2>1. active \in SegIds /\ \A r \in written \cup pending : r.seg \in SegIds
    BY <1>i DEF TypeOK, TypeMem, TypeRecs, Record
  <2> QED
    BY <1>i, <2>1, Numbers
<1>s. Running => Sound = written
  BY <1>i, SoundIsAll DEF Frames
<1>b. \A s \in born : s \in SegIds /\ base[s] \in Nat
  BY <1>i, <1>n DEF TypeOK, TypeDisk
<1>e. \A r \in synced : r.seg \in dirSynced
  BY DEF BaseInv, Inv, Entries
<1>1. ASSUME NEW n \in 1 .. MaxBatches, CommitLock(n) PROVE Reached'
  BY <1>i, <1>n, <1>s, <1>1 DEF CommitLock, WriterFree, Reached, Sound, Shape
<1>2. CASE RotateFlush
  <2>1. /\ UNCHANGED <<base, next_lsn, fence>> /\ born' \subseteq born
        /\ synced \subseteq synced' /\ written \subseteq written' /\ up = "up"
    BY <1>i, <1>2 DEF RotateFlush, flush_buffer, Shape
  <2>2. /\ up' \in {"up", "down"} /\ (up' = "down" => ~poisoned')
        /\ cpc' # "failing" /\ up' = "up" => written' \cup pending' = written \cup pending
        /\ cpc' # "failing" /\ up' = "up" /\ (poisoned' => cpc' # "idle") =>
             cpc # "failing" /\ (poisoned => cpc # "idle")
    BY <1>i, <2>1, <1>2 DEF RotateFlush, flush_buffer, Shape
  <2>3. Sound = written /\ Sound' = written'
    BY <1>i, <1>s, <2>1, <1>2 DEF RotateFlush, flush_buffer, Sound, Frames
  <2> QED
    BY <1>i, <2>1, <2>2, <2>3 DEF Reached
<1>3. CASE RotateCreate
  BY <1>i, <1>n, <1>s, <1>3 DEF RotateCreate, Reached, Sound, Shape
<1>4. CASE RotateHeader
  <2>1. cpc = "header" /\ up = "up" /\ pending = {} /\ Unsynced = {}
    BY <1>i, <1>4 DEF RotateHeader, Shape, Files, Rotating, UnsyncedTail
  <2>2. \A s \in SegIds : s # active + 1 => base'[s] = base[s]
    BY <1>i, <1>4 DEF RotateHeader, TypeOK, TypeDisk
  <2>3. UNCHANGED <<written, synced, pending, up, next_lsn, fence, poisoned, Sound>>
    BY <1>4 DEF RotateHeader, Sound
  <2>4. synced = written /\ Sound = written
    BY <1>i, <1>s, <2>1 DEF Unsynced
  <2>5. CASE UNCHANGED <<born, base>> /\ cpc' = "failing"
    BY <1>i, <2>1, <2>3, <2>5 DEF Reached
  <2>6. CASE /\ born' = born \cup {active + 1} /\ cpc' \in {"syncdir", "failing"}
             /\ base' = [base EXCEPT ![active + 1] = next_lsn]
    <3>1. cpc' \in {"syncdir", "failing"} /\ born' = born \cup {active + 1}
      BY <2>6
    <3>2. active + 1 \in dir' /\ dir' = dir
      BY <1>i, <2>1, <1>4 DEF Shape, Rotating, RotateHeader
    <3>3. base'[active + 1] = next_lsn
      BY <1>i, <2>6, <3>2 DEF TypeOK, TypeDisk
    <3>4. next_lsn - 1 <= fence \/ \E r \in synced \cap Sound : next_lsn - 1 = r.lsn
      BY <1>i, <2>1, <2>4 DEF Reached
    <3>5. \A s \in born' : \/ base'[s] - 1 <= fence
                           \/ \E r \in synced \cap Sound : base'[s] - 1 <= r.lsn
      <4>1. base'[active + 1] - 1 <= fence \/ \E r \in synced \cap Sound : base'[active + 1] - 1 <= r.lsn
        BY <1>n, <3>3, <3>4, <2>4
      <4> QED
        BY <1>i, <1>b, <2>2, <3>1, <4>1 DEF Reached
    <3>6. \A s \in born' : \/ base'[s] - 1 <= fence'
                           \/ \E r \in (synced \cap Sound)' : base'[s] - 1 <= r.lsn
      BY <2>3, <3>5
    <3>7. next_lsn' - 1 <= fence' \/ \E r \in written' \cup pending' : r.lsn = next_lsn' - 1
      BY <1>i, <2>1, <2>3 DEF Reached
    <3> QED
      BY <2>1, <2>3, <3>6, <3>7 DEF Reached
  <2> QED
    BY <1>4, <2>5, <2>6 DEF RotateHeader
<1>5. CASE RotateSyncDir
  BY <1>i, <1>n, <1>s, <1>5 DEF RotateSyncDir, DropNew, Reached, Sound, Shape
<1>6. CASE RotateSeal
  BY <1>i, <1>n, <1>s, <1>6 DEF RotateSeal, DropNew, Reached, Sound, Shape
<1>7. CASE AppendBegin
  BY <1>i, <1>n, <1>s, <1>7, RecFields DEF AppendBegin, Reached, Shape, Sound
<1>8. CASE AppendBatch
  <2>1. /\ UNCHANGED <<base, fence, born, synced, up, poisoned>> /\ written \subseteq written'
        /\ cpc = "batches" /\ \A r \in written' : r.kind # "torn"
    BY <1>i, <1>8 DEF AppendBatch, RollbackTx, Shape, Frames
  <2>2. Sound \subseteq Sound' /\ up = "up"
    BY <1>i, <2>1 DEF Sound, Shape
  <2>3. cpc' = "failing" \/ \E r \in pending' : r.lsn = next_lsn' - 1
    BY <1>n, RecFields, <1>8 DEF AppendBatch, RollbackTx
  <2> QED
    BY <1>i, <2>1, <2>2, <2>3 DEF Reached
<1>9. CASE AppendCommit
  BY <1>i, <1>n, <1>s, <1>9, RecFields DEF AppendCommit, RollbackTx, Reached, Shape, Sound
<1>10. CASE CommitFlush
  <2>1. /\ UNCHANGED <<base, next_lsn, fence>> /\ born' \subseteq born
        /\ synced \subseteq synced' /\ written \subseteq written' /\ up = "up"
    BY <1>i, <1>10 DEF CommitFlush, flush_buffer, Shape
  <2>2. /\ up' \in {"up", "down"} /\ (up' = "down" => ~poisoned')
        /\ cpc' # "failing" /\ up' = "up" => written' \cup pending' = written \cup pending
        /\ cpc' # "failing" /\ up' = "up" /\ (poisoned' => cpc' # "idle") =>
             cpc # "failing" /\ (poisoned => cpc # "idle")
    BY <1>i, <2>1, <1>10 DEF CommitFlush, flush_buffer, Shape
  <2>3. Sound = written /\ Sound' = written'
    BY <1>i, <1>s, <2>1, <1>10 DEF CommitFlush, flush_buffer, Sound, Frames
  <2> QED
    BY <1>i, <2>1, <2>2, <2>3 DEF Reached
<1>11. CASE CommitPoison
  BY <1>i, <1>n, <1>s, <1>11 DEF CommitPoison, Reached, Sound, Shape
<1>12. ASSUME NEW s \in Flushers, FlushCall(s) PROVE Reached'
  BY <1>i, <1>n, <1>s, <1>12 DEF FlushCall, Reached, Sound, Shape
<1>13. ASSUME NEW s \in Flushers, FlushWrite(s) PROVE Reached'
  <2>1. /\ UNCHANGED <<base, next_lsn, fence, born, synced, up, cpc>> /\ up = "up"
        /\ written \subseteq written'
        /\ written' \cup pending' = written \cup pending
    BY <1>i, <1>13 DEF FlushWrite, flush_buffer, Shape
  <2>2. poisoned => poisoned'
    BY <1>13 DEF FlushWrite, FlushFailed
  <2>3. Sound = written /\ Sound' = written'
    BY <1>i, <1>s, <2>1 DEF Sound, Frames
  <2> QED
    BY <1>i, <2>1, <2>2, <2>3 DEF Reached
<1>14. ASSUME NEW s \in Flushers, FlushSync(s) PROVE Reached'
  BY <1>i, <1>n, <1>s, <1>14 DEF FlushSync, FlushFailed, Reached, Sound, Shape
<1>15. ASSUME NEW s \in Flushers, FlushAdvance(s) PROVE Reached'
  BY <1>i, <1>n, <1>s, <1>15 DEF FlushAdvance, FlushDone, Reached, Sound, Shape
<1>16. CASE CkptStart
  BY <1>i, <1>n, <1>s, <1>16 DEF CkptStart, Reached, Sound, Shape
<1>17. CASE CkptTake
  BY <1>i, <1>n, <1>s, <1>17 DEF CkptTake, Reached, Sound, Shape
<1>18. CASE CkptInstall
  <2>1. /\ UNCHANGED <<base, next_lsn, born, synced, written, pending, up, cpc, poisoned, Sound>>
        /\ fence' = klsn /\ kpc = "install"
    BY <1>18 DEF CkptInstall, Sound
  <2>2. fence <= klsn
    BY <1>i, <2>1 DEF Fences
  <2>3. \A m \in Int : m <= fence => m <= fence'
    BY <1>n, <2>1, <2>2
  <2>4. next_lsn - 1 \in Int /\ \A s \in born : base[s] - 1 \in Int
    BY <1>n, <1>b
  <2> QED
    BY <1>i, <2>1, <2>3, <2>4 DEF Reached
<1>19. CASE CkptMark
  BY <1>i, <1>n, <1>s, <1>19, RecFields DEF CkptMark, Reached, Shape, Sound
<1>20. CASE CkptTruncate
  <2>1. PICK gone \in SUBSET Droppable(klsn) :
          /\ born' = born \ gone
          /\ written' = {r \in written : r.seg \notin gone}
          /\ synced' = {r \in synced : r.seg \notin gone}
          /\ \A r \in written : r.seg \in gone => r.lsn <= fence
    BY <1>i, <1>20, TruncateFacts
  <2>2. /\ UNCHANGED <<pending, base, next_lsn, fence, poisoned, cpc, up>> /\ up = "up"
    BY <1>i, <1>20, TruncateFacts
  <2>3. Sound = written /\ Sound' = written'
    BY <1>i, <1>s, <2>1, <2>2 DEF Frames, Sound
  <2>4. \A r \in synced : r.lsn <= fence \/ r \in synced'
    BY <1>i, <2>1
  <2>5. \A r \in written : r.lsn <= fence \/ r \in written'
    BY <2>1
  <2>6. Running /\ cpc # "failing" /\ (poisoned => cpc # "idle") =>
          next_lsn - 1 <= fence \/ \E r \in written' \cup pending : r.lsn = next_lsn - 1
    BY <1>i, <2>2, <2>5 DEF Reached
  <2>7. \A s \in born : \/ base[s] - 1 <= fence
                        \/ \E r \in synced' : base[s] - 1 <= r.lsn
    <3> SUFFICES ASSUME NEW s \in born, ~(base[s] - 1 <= fence)
                 PROVE  \E r \in synced' : base[s] - 1 <= r.lsn
      OBVIOUS
    <3>1. PICK r \in synced \cap Sound : base[s] - 1 <= r.lsn
      BY <1>i DEF Reached
    <3>2. ~(r.lsn <= fence)
      BY <1>i, <1>n, <1>b, <3>1
    <3> QED
      BY <2>4, <3>1, <3>2
  <2>8. synced' \subseteq written'
    BY <1>i, <2>1
  <2> QED
    BY <2>1, <2>2, <2>3, <2>6, <2>7, <2>8 DEF Reached
<1>21. CASE CkptAbandon
  BY <1>i, <1>n, <1>s, <1>21 DEF CkptAbandon, Reached, Sound, Shape
<1>22. CASE Crash
  BY <1>i, <1>n, <1>s, <1>22 DEF Crash, Stopped, Reached, Sound, Shape
<1>23. CASE PowerLoss
  <2>1. /\ UNCHANGED <<base, fence, poisoned>> /\ up' = "down" /\ up # "up" /\ synced' = written'
        /\ born' \subseteq born
        /\ \A r \in synced \cap Sound : r.seg \in dirSynced => r \in Sound'
        /\ Sound' \subseteq written'
    BY <1>i, <1>23, PowerLossFacts DEF Sound
  <2>2. \A r \in synced \cap Sound : r \in synced' \cap Sound'
    BY <1>e, <2>1
  <2> QED
    BY <1>i, <2>1, <2>2 DEF Reached
<1>24. CASE Drop
  <2>1. /\ UNCHANGED <<base, fence, born>> /\ written \subseteq written' /\ ~poisoned'
        /\ up' = "down" /\ synced \subseteq synced' /\ written' \subseteq written \cup pending
    BY <1>i, <1>24 DEF Drop, Stopped
  <2>2. Sound \subseteq Sound'
    BY <1>i, <2>1 DEF Sound, Frames, Kept
  <2> QED
    BY <1>i, <2>1, <2>2 DEF Reached
<1>25. CASE DiscardUnborn
  BY <1>i, <1>n, <1>s, <1>25 DEF DiscardUnborn, Reached, Sound, Shape
<1>26. CASE OpenFresh
  <2>1. written = {} /\ born = {} /\ cpc = "idle" /\ up = "down"
    BY <1>i, <1>26 DEF OpenFresh, Files, Shape, TypeOK, TypeDisk
  <2>2. UNCHANGED <<born, fence, poisoned>> /\ next_lsn' = fence + 1
    BY <1>26 DEF OpenFresh, Opened
  <2> QED
    BY <1>i, <1>n, <2>1, <2>2 DEF Reached
<1>27. CASE OpenExisting
  <2>1. /\ UNCHANGED <<base, fence, poisoned>> /\ written' = Sound /\ Sound \subseteq written
        /\ born' \subseteq born /\ next_lsn' = LastUsed + 1 /\ Sound = Readable
        /\ up \in {"down", "corrupt"} /\ pending' = {}
        /\ synced \cap Sound \subseteq synced'
        /\ \A r \in Sound : r.kind # "torn"
    BY <1>i, <1>27, OpenFacts
  <2>2. Sound' = Sound
    BY <2>1, SoundIsAll DEF Sound
  <2>3. ~poisoned
    BY <1>i, <2>1 DEF Reached
  <2>4. LastUsed = fence \/ \E r \in Sound : r.lsn = LastUsed
    <3> DEFINE L == {r.lsn : r \in Readable} \cup {fence}
    <3>1. L \in SUBSET Nat /\ L # {} /\ MaxLsn \in Nat /\ \A m \in L : m <= MaxLsn
      <4>1. Readable \subseteq written
        BY <1>i, ReplayType
      <4> QED
        BY <1>i, <4>1, BoundsAssumption DEF TypeOK, TypeRecs, TypeSnap, Record, Lsns
    <3>2. Greatest(L) \in L
      BY <3>1, GreatestType
    <3> QED
      BY <2>1, <3>2 DEF LastUsed
  <2>5. next_lsn' - 1 = LastUsed
    BY <1>i, <2>1, ReplayType DEF Lsns
  <2> QED
    BY <1>i, <1>n, <2>1, <2>2, <2>3, <2>4, <2>5 DEF Reached
<1>28. CASE OpenCreate
  <2>1. /\ active \notin born /\ pending = {} /\ cpc = "idle" /\ up = "creating" /\ Unsynced = {}
        /\ ~poisoned
    BY <1>i, <1>28 DEF OpenCreate, Shape, Files, UnsyncedTail, Reached
  <2>2. /\ base'[active] = next_lsn /\ \A s \in born : base'[s] = base[s]
        /\ born' = born \cup {active}
    BY <1>i, <1>n, <1>b, <1>28, <2>1 DEF OpenCreate, TypeOK, TypeDisk
  <2>3. UNCHANGED <<written, synced, pending, next_lsn, cpc, fence, poisoned>> /\ up' = "up"
    BY <1>28 DEF OpenCreate
  <2>4. synced = written /\ Sound = written /\ Sound' = written
    BY <1>i, <1>s, <2>1, <2>3 DEF Unsynced, Sound
  <2>5. next_lsn - 1 <= fence \/ \E r \in written : r.lsn = next_lsn - 1
    BY <1>i, <2>1 DEF Reached
  <2>6. \A s \in born' : base'[s] - 1 <= fence \/ \E r \in written : base'[s] - 1 <= r.lsn
    <3>1. base'[active] - 1 <= fence \/ \E r \in written : base'[active] - 1 <= r.lsn
      BY <1>n, <2>2, <2>5
    <3> QED
      BY <1>i, <2>2, <2>4, <3>1 DEF Reached
  <2> QED
    BY <1>n, <2>1, <2>3, <2>4, <2>5, <2>6 DEF Reached
<1>29. CASE OpenFail
  BY <1>i, <1>n, <1>s, <1>29 DEF OpenFail, Reached, Sound, Shape
<1>30. CASE OpenCreateFail
  <2>1. /\ active \notin born /\ pending = {} /\ cpc = "idle" /\ up = "creating" /\ Unsynced = {}
        /\ ~poisoned
    BY <1>i, <1>30 DEF OpenCreateFail, Shape, Files, UnsyncedTail, Reached
  <2>2. /\ base'[active] = next_lsn /\ \A s \in born : base'[s] = base[s]
        /\ born' = born \cup {active}
    BY <1>i, <1>n, <1>b, <1>30, <2>1 DEF OpenCreateFail, TypeOK, TypeDisk
  <2>3. UNCHANGED <<written, synced, fence>> /\ up' = "down" /\ ~poisoned'
    BY <1>30 DEF OpenCreateFail, Stopped
  <2>4. synced = written /\ Sound = written /\ Sound' = written
    BY <1>i, <1>s, <2>1, <2>3 DEF Unsynced, Sound
  <2>5. next_lsn - 1 <= fence \/ \E r \in written : r.lsn = next_lsn - 1
    BY <1>i, <2>1 DEF Reached
  <2>6. \A s \in born' : base'[s] - 1 <= fence \/ \E r \in written : base'[s] - 1 <= r.lsn
    <3>1. base'[active] - 1 <= fence \/ \E r \in written : base'[active] - 1 <= r.lsn
      BY <1>n, <2>2, <2>5
    <3> QED
      BY <1>i, <2>2, <2>4, <3>1 DEF Reached
  <2> QED
    BY <1>n, <2>1, <2>3, <2>4, <2>6 DEF Reached
<1> QED
  BY <1>1, <1>2, <1>3, <1>4, <1>5, <1>6, <1>7, <1>8, <1>9, <1>10, <1>11, <1>12,
     <1>13, <1>14, <1>15, <1>16, <1>17, <1>18, <1>19, <1>20, <1>21, <1>22, <1>23,
     <1>24, <1>25, <1>26, <1>27, <1>28, <1>29, <1>30
  DEF Next, CommitStep, FlushStep, CkptStep, Open

\* What follows Chain and the rest of the invariant is about in a running log:
\* no file before the active one has an LSN of it, and only one is after it.
LEMMA AheadOnly ==
  ASSUME SyncInv, up = "up", NEW t \in born
  PROVE  /\ t = active + 1 \/ t <= active
         /\ \A r \in written \cup pending : r.seg <= active /\ r.lsn < next_lsn
         /\ t <= active => \A r \in written : r.seg < t => r.lsn < base[t]
         /\ t > active => /\ base[t] <= next_lsn
                          /\ cpc \in {"syncdir", "seal", "failing"} \/ (cpc = "idle" /\ poisoned)
         /\ cpc \in {"syncdir", "seal"} /\ t > active => base[t] = next_lsn
<1>i. TypeOK /\ Shape /\ Files /\ Order /\ Bases /\ LeftOver
  BY DEF SyncInv, LogInv
<1>n. active \in Nat /\ t \in Nat /\ t \in dir /\ \A r \in pending : r.seg = active
  BY <1>i, Numbers DEF TypeOK, TypeDisk, Files
<1>1. t <= active + 1
  BY <1>i, <1>n DEF Files
<1>2. t = active + 1 \/ t <= active
  BY <1>1, <1>n
<1>3. \A r \in written \cup pending : r.seg <= active /\ r.lsn < next_lsn
  BY <1>i, <1>n DEF Files, Order, Running
<1>4. t <= active => \A r \in written : r.seg < t => r.lsn < base[t]
  BY <1>i DEF Bases, Running
<1>5. t > active => /\ base[t] <= next_lsn
                    /\ cpc \in {"syncdir", "seal", "failing"} \/ (cpc = "idle" /\ poisoned)
  BY <1>i DEF LeftOver
<1>6. cpc \in {"syncdir", "seal"} /\ t > active => base[t] = next_lsn
  BY <1>i, <1>2, <1>n DEF Bases
<1> QED
  BY <1>2, <1>3, <1>4, <1>5, <1>6

\* A buffered record that would follow the LSN a left-over file begins with is the
\* marker that took it.
LEMMA PendingClash ==
  ASSUME SyncInv, OneMarker, NEW r \in pending, NEW t \in born, r.seg < t
  PROVE  /\ up = "up" /\ t = active + 1 /\ r.seg = active
         /\ r.lsn = base[t] /\ r.kind = "marker"
<1>i. TypeOK /\ Files /\ Order /\ LeftOver
  BY DEF SyncInv, LogInv
<1>1. up = "up" /\ r.seg = active
  BY <1>i DEF Files
<1>n. active \in Nat /\ t \in Nat /\ r.lsn \in Nat /\ next_lsn \in Nat /\ base[t] \in Nat
  BY <1>i, Numbers DEF TypeOK, TypeDisk
<1>2. t = active + 1
  BY <1>1, <1>n, AheadOnly
<1>3. base[t] <= r.lsn
  BY <1>i, <1>1, <1>2, <1>n DEF LeftOver
<1>4. r.lsn < next_lsn
  BY <1>i, <1>1 DEF Order, Running
<1>5. /\ base[t] + 1 = next_lsn
      /\ \A q \in written \cup pending : q.lsn = base[t] => q.kind = "marker"
  BY <1>1, <1>2, <1>3, <1>4, <1>n DEF OneMarker
<1>6. r.lsn = base[t]
  BY <1>3, <1>4, <1>5, <1>n
<1> QED
  BY <1>1, <1>2, <1>5, <1>6

\* A step that at most writes the buffer out leaves the chain as it is.
LEMMA ChainStep ==
  ASSUME SyncInv, Frames, Chain, OneMarker, up = "up", up' # "creating",
         UNCHANGED <<dir, born, sealed, base, fence>>,
         written \subseteq written', written' \subseteq written \cup pending,
         synced \subseteq synced',
         cpc' \in Rotating \cup {"create"} =>
           active' = active /\ \E r \in written' : r.seg = active
  PROVE  Chain'
<1>i. Files /\ \A r \in pending : r.kind # "torn" /\ r.seg = active
  BY DEF SyncInv, LogInv, Files, Frames
<1>1. Sound \subseteq Sound'
  BY <1>i DEF Sound, Frames, Running
<1>2. ASSUME NEW r \in written', NEW t \in born, r.seg < t
      PROVE  r.lsn < base[t] \/ Clash(r, t)'
  <2>1. \/ r \in written /\ (r.lsn < base[t] \/ Clash(r, t))
        \/ r \in pending
    BY <1>2 DEF Chain
  <2>2. ~(r.lsn < base[t]) => t = active + 1
    BY <1>2, <2>1, AheadOnly, PendingClash
  <2>3. t = active + 1 => \A q \in written' : q.seg # t
    <3>1. active \in Nat /\ \A q \in written \cup pending : q.seg \in Nat
      BY Numbers DEF SyncInv, LogInv
    <3> QED
      BY <3>1, AheadOnly, <1>2
  <2>4. t = active + 1 => \A s \in dir' : s <= t
    BY <1>i DEF Files
  <2>5. ~(r.lsn < base[t]) => r.lsn = base[t] /\ r.kind \in {"marker", "torn"}
    BY <1>2, <2>1, PendingClash DEF Clash
  <2> QED
    BY <2>2, <2>3, <2>4, <2>5 DEF Clash
<1> QED
  BY <1>1, <1>2 DEF Chain

\* Every step keeps the files a chain that the fence reaches into.
LEMMA NextChain ==
  ASSUME OpenInv, Next, "entry_unsynced" \notin Faults
  PROVE  Chain'
<1> USE DEF disk, files, snap, mem, latches, commit, flush, ckpt, told, Fails,
            Running
<1>i. /\ TypeOK /\ Shape /\ Files /\ Order /\ UnsyncedTail /\ SealStops /\ Bases
      /\ SyncInv /\ LogInv /\ synced \subseteq written /\ Kept /\ Frames /\ Starts
      /\ Fences /\ SnapCovers /\ Chain /\ OneMarker /\ LeftOver
  BY DEF OpenInv, BaseInv, ReadInv, Inv, SyncInv, LogInv, TypeOK, TypeRecs
<1>e. /\ \A s \in dir \ dirSynced : \A t \in dir : t <= s
      /\ sealed \subseteq dirSynced
  BY DEF OpenInv, BaseInv, Inv, Entries
<1>n. /\ next_lsn \in Nat /\ \A r \in written \cup pending : r.lsn \in Nat /\ r.seg \in SegIds
      /\ fence \in Nat /\ klsn \in Nat /\ active \in SegIds
      /\ \A s \in SegIds : base[s] \in Nat /\ s \in Nat
      /\ dir \subseteq SegIds /\ born \subseteq dir /\ sealed \subseteq born
  <2>1. active \in SegIds /\ \A r \in written \cup pending : r.seg \in SegIds
    BY <1>i DEF TypeOK, TypeMem, TypeRecs, Record
  <2>2. dir \subseteq SegIds /\ born \subseteq dir /\ sealed \subseteq born
    BY <1>i DEF TypeOK, TypeDisk, Shape
  <2> QED
    BY <1>i, <2>1, <2>2, Numbers DEF SegIds
<1>s. Running => Sound = written
  BY <1>i, SoundIsAll DEF Frames
<1>t. \A r \in written : /\ Torn(r).kind = "torn" /\ Torn(r).lsn = r.lsn
                         /\ Torn(r).seg = r.seg
  BY <1>i DEF TypeOK, TypeRecs, Record, Torn
\* What an open or a rotation finds: no marker has taken an LSN of the chain.
<1>a. up = "up" /\ cpc \notin {"failing", "idle"} =>
        /\ cpc \notin {"syncdir", "seal"} => \A t \in born : t <= active
        /\ \A r \in written, t \in born : r.seg < t => r.lsn < base[t]
  <2> SUFFICES ASSUME up = "up", cpc \notin {"failing", "idle"}, NEW t \in born
               PROVE  /\ cpc \notin {"syncdir", "seal"} => t <= active
                      /\ \A r \in written : r.seg < t => r.lsn < base[t]
    OBVIOUS
  <2>1. active \in Nat /\ t \in Nat
    BY <1>n
  <2> QED
    BY <1>i, <2>1, AheadOnly
<1>1. ASSUME NEW n \in 1 .. MaxBatches, CommitLock(n) PROVE Chain'
  <2>1. /\ UNCHANGED <<dir, born, sealed, base, written, synced, fence, up>> /\ up = "up"
        /\ cpc' \notin Rotating \cup {"create"}
    BY <1>1 DEF CommitLock, Rotating
  <2> QED
    BY <1>i, <2>1, ChainStep
<1>2. CASE RotateFlush
  <2>1. /\ UNCHANGED <<dir, born, sealed, base, fence, up, active>> /\ up = "up"
        /\ written \subseteq written' /\ written' \subseteq written \cup pending
        /\ synced \subseteq synced'
    BY <1>i, <1>2 DEF RotateFlush, flush_buffer, Shape
  <2>2. cpc' \in Rotating \cup {"create"} => \E r \in written' : r.seg = active
    <3> SUFFICES ASSUME cpc' \in Rotating \cup {"create"} PROVE \E r \in written' : r.seg = active
      OBVIOUS
    <3>1. written' = written \cup pending /\ Full
      BY <1>2 DEF RotateFlush, flush_buffer, Rotating
    <3>2. In(active) # {} \/ pending # {}
      <4>1. Cardinality({}) = 0
        BY FS_EmptySet
      <4>2. Target \in Nat /\ Target > 0
        BY BoundsAssumption
      <4> QED
        BY <3>1, <4>1, <4>2 DEF Full
    <3>3. \A r \in pending : r.seg = active
      BY <1>i DEF Files
    <3> QED
      BY <3>1, <3>2, <3>3 DEF In
  <2> QED
    BY <1>i, <2>1, <2>2, ChainStep
<1>3. CASE RotateCreate
  <2>1. /\ UNCHANGED <<born, sealed, base, written, synced, fence, up, active>> /\ up = "up"
        /\ cpc = "create" /\ (dir' = dir \/ dir' = dir \cup {active + 1})
    BY <1>i, <1>3 DEF RotateCreate, Shape
  <2>2. /\ active \in dir /\ \A t \in dir : t <= active + 1 /\ t \in Nat
        /\ active \in Nat
    BY <1>i, <1>n, <2>1 DEF Shape, Files
  <2>3. \A s, t \in dir' : \A u \in s .. t : u \in dir'
    <3> SUFFICES ASSUME dir' = dir \cup {active + 1}, NEW s \in dir', NEW t \in dir',
                        NEW u \in s .. t, u # active + 1
                 PROVE  u \in dir
      BY <1>i, <2>1 DEF Chain
    <3>1. s \in dir /\ u \in Int /\ s <= u /\ u <= active /\ s \in Nat
      BY <2>2
    <3> QED
      BY <1>i, <2>2, <3>1 DEF Chain
  <2>4. Sound' = Sound
    BY <2>1 DEF Sound
  <2>5. \A r \in written, t \in born : r.seg < t => r.lsn < base[t]
    BY <1>a, <2>1
  <2> QED
    BY <1>i, <2>1, <2>3, <2>4, <2>5 DEF Chain
<1>4. CASE RotateHeader
  <2>1. /\ UNCHANGED <<dir, sealed, written, synced, fence, up, active, next_lsn>> /\ up = "up"
        /\ cpc = "header" /\ \A r \in written : r.seg <= active
        /\ active \in born /\ active + 1 \in dir
    BY <1>i, <1>4 DEF RotateHeader, Shape, Files, Rotating
  <2>a. /\ active + 1 \notin born
        /\ \A r \in written, t \in born : r.seg < t => r.lsn < base[t]
    BY <1>a, <1>n, <2>1
  <2>2. Sound' = Sound
    BY <2>1 DEF Sound
  <2>3. CASE UNCHANGED <<born, base>> /\ cpc' = "failing"
    BY <1>i, <2>1, <2>2, <2>3, <2>a DEF Chain, Rotating
  <2>4. CASE /\ born' = born \cup {active + 1} /\ cpc' \in {"syncdir", "failing"}
             /\ base' = [base EXCEPT ![active + 1] = next_lsn]
    <3>1. born' = born \cup {active + 1}
      BY <2>4
    <3>2. base'[active + 1] = next_lsn
      BY <1>i, <1>n, <2>1, <2>4 DEF TypeOK, TypeDisk
    <3>3. \A s \in born : base'[s] = base[s]
      BY <1>i, <1>n, <2>1, <2>4, <2>a DEF TypeOK, TypeDisk
    <3>4. \A r \in written : r.lsn < next_lsn
      BY <1>i, <2>1 DEF Order, Running
    <3>5. PICK q \in written : q.seg = active
      BY <1>i, <2>1 DEF Chain, Rotating
    <3>6. base[active] < next_lsn
      BY <1>i, <1>n, <3>4, <3>5 DEF Starts
    <3>7. \A s \in born : s <= active /\ s \in Nat /\ active \in Nat
      BY <1>a, <1>n, <2>1
    <3>8. \A s \in born : base[s] < next_lsn
      BY <1>i, <1>n, <2>1, <3>6, <3>7 DEF Chain
    <3>9. \A s, t \in born' : s < t => base'[s] < base'[t]
      <4> SUFFICES ASSUME NEW s \in born', NEW t \in born', s < t PROVE base'[s] < base'[t]
        OBVIOUS
      <4>1. s \in born
        BY <1>n, <3>1, <3>7
      <4>2. CASE t \in born
        BY <1>i, <3>3, <4>1, <4>2 DEF Chain
      <4>3. CASE t = active + 1
        BY <3>2, <3>3, <3>8, <4>1, <4>3
      <4> QED
        BY <3>1, <4>2, <4>3
    <3>10. \A r \in written, t \in born' : r.seg < t => r.lsn < base'[t]
      BY <2>a, <3>1, <3>2, <3>3, <3>4
    <3>11. \A s \in born' : (\A t \in dir : s <= t) => base'[s] - 1 <= fence
      BY <1>i, <1>n, <2>1, <3>1, <3>3, <3>7 DEF Chain
    <3>12. \E r \in written : r.seg = active
      BY <3>5
    <3> QED
      BY <1>i, <2>1, <2>2, <2>4, <3>9, <3>10, <3>11, <3>12 DEF Chain
  <2> QED
    BY <1>4, <2>3, <2>4 DEF RotateHeader
<1>5. CASE RotateSyncDir
  <2>1. /\ UNCHANGED <<base, written, synced, fence, up, next_lsn>> /\ up = "up"
        /\ cpc = "syncdir"
        /\ active \in dir /\ active \in Nat /\ \A t \in dir : t <= active + 1 /\ t \in Nat
    BY <1>i, <1>n, <1>5 DEF RotateSyncDir, Shape, Files
  <2>a. \A r \in written, t \in born : r.seg < t => r.lsn < base[t]
    BY <1>a, <2>1
  <2>2. Sound' = Sound
    BY <2>1 DEF Sound
  <2>3. CASE cpc' # "failing"
    <3>1. UNCHANGED <<dir, born, sealed, active>> /\ cpc' = "seal"
      BY <2>3, <1>5 DEF RotateSyncDir
    <3> QED
      BY <1>i, <2>1, <2>2, <2>a, <3>1 DEF Chain, Rotating
  <2>4. CASE cpc' = "failing"
    <3>1. /\ \/ dir' = dir \ {active + 1} /\ born' = born \ {active + 1}
             \/ dir' = dir /\ born' = born
          /\ sealed' \in {sealed, sealed \cup {active}} /\ active' = active
      BY <2>4, <1>5 DEF RotateSyncDir, DropNew
    <3>2. \A s, t \in dir' : \A u \in s .. t : u \in dir'
      <4>1. \A s, t \in dir : \A u \in s .. t : u \in dir
        BY <1>i DEF Chain
      <4>2. CASE dir' = dir
        BY <4>1, <4>2
      <4>3. CASE dir' = dir \ {active + 1}
        BY <2>1, <4>1, <4>3
      <4> QED
        BY <3>1, <4>2, <4>3
    <3>3. \A s \in born' : (\A t \in dir' : s <= t) => \A t \in dir : s <= t
      BY <1>n, <2>1, <3>1
    <3>4. \A s \in sealed' : \E r \in synced \cap Sound : r.seg = s
      <4>1. \E r \in synced \cap Sound : r.seg = active
        BY <1>i, <1>s, <2>1 DEF Chain, UnsyncedTail, Rotating, Unsynced, Running
      <4> QED
        BY <1>i, <3>1, <4>1 DEF Chain
    <3> QED
      BY <1>i, <2>1, <2>2, <2>4, <2>a, <3>1, <3>2, <3>3, <3>4 DEF Chain, Rotating
  <2> QED
    BY <2>3, <2>4
<1>6. CASE RotateSeal
  <2>1. /\ UNCHANGED <<base, written, synced, fence, up, next_lsn>> /\ up = "up"
        /\ cpc = "seal"
        /\ active \in dir /\ active \in Nat /\ \A t \in dir : t <= active + 1 /\ t \in Nat
    BY <1>i, <1>n, <1>6 DEF RotateSeal, Shape, Files
  <2>a. \A r \in written, t \in born : r.seg < t => r.lsn < base[t]
    BY <1>a, <2>1
  <2>2. Sound' = Sound
    BY <2>1 DEF Sound
  <2>3. CASE cpc' # "failing"
    <3>1. /\ UNCHANGED <<dir, born>> /\ cpc' = "append" /\ sealed' = sealed \cup {active}
      BY <2>3, <1>6 DEF RotateSeal
    <3>2. \E r \in synced \cap Sound : r.seg = active
      BY <1>i, <1>s, <2>1 DEF Chain, UnsyncedTail, Rotating, Unsynced, Running
    <3> QED
      BY <1>i, <2>1, <2>2, <2>a, <3>1, <3>2 DEF Chain, Rotating
  <2>4. CASE cpc' = "failing"
    <3>1. /\ \/ dir' = dir \ {active + 1} /\ born' = born \ {active + 1}
             \/ dir' = dir /\ born' = born
          /\ sealed' \in {sealed, sealed \cup {active}} /\ active' = active
      BY <2>4, <1>6 DEF RotateSeal, DropNew
    <3>2. \A s, t \in dir' : \A u \in s .. t : u \in dir'
      <4>1. \A s, t \in dir : \A u \in s .. t : u \in dir
        BY <1>i DEF Chain
      <4>2. CASE dir' = dir
        BY <4>1, <4>2
      <4>3. CASE dir' = dir \ {active + 1}
        BY <2>1, <4>1, <4>3
      <4> QED
        BY <3>1, <4>2, <4>3
    <3>3. \A s \in born' : (\A t \in dir' : s <= t) => \A t \in dir : s <= t
      BY <1>n, <2>1, <3>1
    <3>4. \A s \in sealed' : \E r \in synced \cap Sound : r.seg = s
      <4>1. \E r \in synced \cap Sound : r.seg = active
        BY <1>i, <1>s, <2>1 DEF Chain, UnsyncedTail, Rotating, Unsynced, Running
      <4> QED
        BY <1>i, <3>1, <4>1 DEF Chain
    <3> QED
      BY <1>i, <2>1, <2>2, <2>4, <2>a, <3>1, <3>2, <3>3, <3>4 DEF Chain, Rotating
  <2> QED
    BY <2>3, <2>4
<1>7. CASE AppendBegin
  <2>1. /\ UNCHANGED <<dir, born, sealed, base, fence>> /\ up = "up" /\ up' # "creating"
        /\ written \subseteq written' /\ written' \subseteq written \cup pending
        /\ synced \subseteq synced' /\ cpc' \notin Rotating \cup {"create"}
    BY <1>i, <1>7 DEF AppendBegin, Shape, Rotating
  <2> QED
    BY <1>i, <2>1, ChainStep
<1>8. CASE AppendBatch
  <2>1. /\ UNCHANGED <<dir, born, sealed, base, fence>> /\ up = "up" /\ up' # "creating"
        /\ written \subseteq written' /\ written' \subseteq written \cup pending
        /\ synced \subseteq synced' /\ cpc' \notin Rotating \cup {"create"}
    BY <1>i, <1>8 DEF AppendBatch, RollbackTx, Shape, Rotating
  <2> QED
    BY <1>i, <2>1, ChainStep
<1>9. CASE AppendCommit
  <2>1. /\ UNCHANGED <<dir, born, sealed, base, fence>> /\ up = "up" /\ up' # "creating"
        /\ written \subseteq written' /\ written' \subseteq written \cup pending
        /\ synced \subseteq synced' /\ cpc' \notin Rotating \cup {"create"}
    BY <1>i, <1>9 DEF AppendCommit, RollbackTx, Shape, Rotating
  <2> QED
    BY <1>i, <2>1, ChainStep
<1>10. CASE CommitFlush
  <2>1. /\ UNCHANGED <<dir, born, sealed, base, fence>> /\ up = "up" /\ up' # "creating"
        /\ written \subseteq written' /\ written' \subseteq written \cup pending
        /\ synced \subseteq synced' /\ cpc' \notin Rotating \cup {"create"}
    BY <1>i, <1>10 DEF CommitFlush, flush_buffer, Shape, Rotating
  <2> QED
    BY <1>i, <2>1, ChainStep
<1>11. CASE CommitPoison
  <2>1. /\ UNCHANGED <<dir, born, sealed, base, fence>> /\ up = "up" /\ up' # "creating"
        /\ written \subseteq written' /\ written' \subseteq written \cup pending
        /\ synced \subseteq synced' /\ cpc' \notin Rotating \cup {"create"}
    BY <1>i, <1>11 DEF CommitPoison, Shape, Rotating
  <2> QED
    BY <1>i, <2>1, ChainStep
<1>12. ASSUME NEW s \in Flushers, FlushCall(s) PROVE Chain'
  <2>1. /\ UNCHANGED <<dir, born, sealed, base, fence, cpc, active>> /\ up = "up"
        /\ up' # "creating" /\ synced \subseteq synced'
        /\ written \subseteq written' /\ written' \subseteq written \cup pending
    BY <1>i, <1>12 DEF FlushCall
  <2> QED
    BY <1>i, <2>1, ChainStep DEF Chain
<1>13. ASSUME NEW s \in Flushers, FlushWrite(s) PROVE Chain'
  <2>1. /\ UNCHANGED <<dir, born, sealed, base, fence, cpc, active>> /\ up = "up"
        /\ up' # "creating" /\ synced \subseteq synced'
        /\ written \subseteq written' /\ written' \subseteq written \cup pending
    BY <1>i, <1>13 DEF FlushWrite, flush_buffer, Shape
  <2> QED
    BY <1>i, <2>1, ChainStep DEF Chain
<1>14. ASSUME NEW s \in Flushers, FlushSync(s) PROVE Chain'
  <2>1. /\ UNCHANGED <<dir, born, sealed, base, fence, cpc, active>> /\ up = "up"
        /\ up' # "creating" /\ synced \subseteq synced'
        /\ written \subseteq written' /\ written' \subseteq written \cup pending
    BY <1>i, <1>14 DEF FlushSync, Shape
  <2> QED
    BY <1>i, <2>1, ChainStep DEF Chain
<1>15. ASSUME NEW s \in Flushers, FlushAdvance(s) PROVE Chain'
  <2>1. /\ UNCHANGED <<dir, born, sealed, base, fence, cpc, active>> /\ up = "up"
        /\ up' # "creating" /\ synced \subseteq synced'
        /\ written \subseteq written' /\ written' \subseteq written \cup pending
    BY <1>i, <1>15 DEF FlushAdvance, Shape
  <2> QED
    BY <1>i, <2>1, ChainStep DEF Chain
<1>16. CASE CkptStart
  <2>1. /\ UNCHANGED <<dir, born, sealed, base, fence, cpc, active>> /\ up = "up"
        /\ up' # "creating" /\ synced \subseteq synced'
        /\ written \subseteq written' /\ written' \subseteq written \cup pending
    BY <1>i, <1>16 DEF CkptStart, Shape
  <2> QED
    BY <1>i, <2>1, ChainStep DEF Chain
<1>17. CASE CkptTake
  <2>1. /\ UNCHANGED <<dir, born, sealed, base, fence, cpc, active>> /\ up = "up"
        /\ up' # "creating" /\ synced \subseteq synced'
        /\ written \subseteq written' /\ written' \subseteq written \cup pending
    BY <1>i, <1>17 DEF CkptTake, Shape
  <2> QED
    BY <1>i, <2>1, ChainStep DEF Chain
<1>18. CASE CkptInstall
  <2>1. UNCHANGED <<dir, born, sealed, base, written, synced, up, active, cpc>> /\ up = "up"
    BY <1>i, <1>18 DEF CkptInstall, Shape
  <2>2. fence' = klsn /\ fence <= klsn
    BY <1>i, <1>18 DEF CkptInstall, Fences
  <2>3. Sound' = Sound
    BY <2>1 DEF Sound
  <2>4. \A s \in born : base[s] - 1 <= fence => base[s] - 1 <= fence'
    BY <1>n, <2>2
  <2> QED
    BY <1>i, <2>1, <2>2, <2>3, <2>4 DEF Chain, Clash
<1>19. CASE CkptMark
  <2>1. /\ UNCHANGED <<dir, born, sealed, base, fence, cpc, active>> /\ up = "up"
        /\ up' # "creating" /\ synced \subseteq synced'
        /\ written \subseteq written' /\ written' \subseteq written \cup pending
    BY <1>i, <1>19 DEF CkptMark, Shape
  <2> QED
    BY <1>i, <2>1, ChainStep DEF Chain
<1>20. CASE CkptTruncate
  <2>1. PICK gone \in SUBSET Droppable(klsn) :
          /\ \E last \in Nat : gone = {s \in Droppable(klsn) : s <= last}
          /\ dir' = dir \ gone /\ born' = born \ gone /\ sealed' = sealed \ gone
          /\ written' = {r \in written : r.seg \notin gone}
          /\ synced' = {r \in synced : r.seg \notin gone}
          /\ \A s \in gone : s < active - 1
    BY <1>i, <1>20, TruncateFacts
  <2>2. /\ UNCHANGED <<base, fence, up, cpc, active>> /\ up = "up" /\ klsn = fence
        /\ cpc \notin Rotating \cup {"create"}
    BY <1>i, <1>20, TruncateFacts DEF StateFree, Rotating
  <2>3. Sound = written /\ Sound' = written'
    BY <1>i, <1>s, <2>1, <2>2 DEF Sound, Running
  <2>4. \A s \in sealed' : \E r \in synced' \cap Sound' : r.seg = s
    <3> SUFFICES ASSUME NEW s \in sealed, s \notin gone
                 PROVE  \E r \in synced' \cap Sound' : r.seg = s
      BY <2>1
    <3>1. PICK r \in synced \cap Sound : r.seg = s
      BY <1>i DEF Chain
    <3> QED
      BY <2>1, <2>3, <3>1
  <2>5. active \in born /\ \A t \in dir : t <= active + 1 /\ t \in Nat
    BY <1>i, <1>n, <2>2 DEF Shape, Files
  \* Every file but the newest has a header, so bases grow along `dir`.
  <2>6. \A s \in dir : s <= active => s \in born
    BY <1>i, <1>n, <2>5 DEF Files
  <2>7. \A s \in dir : s < active =>
          s + 1 \in dir /\ s + 1 \in born /\ base[s] < base[s + 1]
    BY <1>i, <1>n, <2>5, <2>6 DEF Chain
  <2>8. \A s \in dir : s \in Droppable(klsn) <=> s < active - 1 /\ base[s + 1] - 1 <= klsn
    <3> SUFFICES ASSUME NEW s \in dir
                 PROVE  s \in Droppable(klsn) <=> s < active - 1 /\ base[s + 1] - 1 <= klsn
      OBVIOUS
    <3>1. ASSUME s \in Droppable(klsn) PROVE s < active - 1 /\ base[s + 1] - 1 <= klsn
      <4>1. s < active - 1 /\ \E t \in dir : /\ s < t /\ base[t] - 1 <= klsn
                                          /\ \A u \in dir : s < u => t <= u
        BY <3>1 DEF Droppable
      <4>2. s + 1 \in dir
        BY <1>n, <2>5, <2>7, <4>1
      <4>3. \A t \in dir : s < t /\ (\A u \in dir : s < u => t <= u) => t = s + 1
        BY <2>5, <4>2
      <4> QED
        BY <4>1, <4>3
    <3>2. ASSUME s < active - 1, base[s + 1] - 1 <= klsn PROVE s \in Droppable(klsn)
      <4>1. s + 1 \in dir /\ s < s + 1 /\ \A u \in dir : s < u => s + 1 <= u
        BY <1>n, <2>5, <2>7, <3>2
      <4> QED
        BY <3>2, <4>1 DEF Droppable
    <3> QED
      BY <3>1, <3>2
  <2>9. \A s, t \in dir : t \in gone /\ s <= t => s \in gone
    <3> SUFFICES ASSUME NEW s \in dir, NEW t \in gone, s < t PROVE s \in gone
      BY <1>n, <2>5
    <3>1. t \in dir /\ t < active - 1 /\ base[t + 1] - 1 <= klsn /\ t \in Nat /\ s \in Nat
      BY <1>n, <2>1, <2>5, <2>8 DEF Droppable
    <3>2. s + 1 \in born /\ t + 1 \in born /\ s < active - 1 /\ s + 1 < t + 1
      BY <1>n, <2>7, <3>1
    <3>3. base[s + 1] < base[t + 1] /\ base[s + 1] \in Nat /\ base[t + 1] \in Nat
      BY <1>i, <1>n, <3>2 DEF Chain
    <3>4. s \in Droppable(klsn)
      BY <1>n, <2>8, <3>1, <3>2, <3>3
    <3> QED
      BY <1>n, <2>1, <3>1, <3>4
  <2>10. \A s, t \in dir' : \A u \in s .. t : u \in dir'
    <3> SUFFICES ASSUME NEW s \in dir', NEW t \in dir', NEW u \in s .. t PROVE u \in dir'
      OBVIOUS
    <3>1. s \in dir /\ t \in dir /\ s \notin gone /\ s \in Nat /\ t \in Nat /\ s <= u
      BY <2>1, <2>5
    <3>2. u \in dir
      BY <1>i, <3>1 DEF Chain
    <3> QED
      BY <2>1, <2>9, <3>1, <3>2
  <2>11. \A s \in born' : (\A t \in dir' : s <= t) => base[s] - 1 <= fence
    <3> SUFFICES ASSUME NEW s \in born, s \notin gone, \A t \in dir' : s <= t
                 PROVE  base[s] - 1 <= fence
      BY <2>1
    <3>1. s \in dir /\ s \in Nat
      BY <1>n
    <3>2. CASE \A t \in dir : s <= t
      BY <1>i, <3>2 DEF Chain
    <3>3. CASE \E t \in dir : t < s
      <4>1. PICK t \in dir : t < s
        BY <3>3
      <4>2. t \in Nat /\ t \in gone
        BY <2>1, <2>5, <3>1, <4>1
      <4>3. s - 1 \in dir
        <5>1. s - 1 \in t .. s
          BY <3>1, <4>1, <4>2
        <5> QED
          BY <1>i, <3>1, <5>1 DEF Chain
      <4>4. s - 1 \in gone
        BY <2>1, <2>5, <3>1, <4>3
      <4>5. base[(s - 1) + 1] - 1 <= klsn
        BY <2>1, <2>8, <4>3, <4>4
      <4> QED
        BY <2>2, <3>1, <4>5
    <3> QED
      BY <2>5, <3>1, <3>2, <3>3
  <2>12. \A r \in written', t \in born' : r.seg < t => r.lsn < base[t] \/ Clash(r, t)'
    BY <1>i, <2>1, <2>2 DEF Chain, Clash
  <2> QED
    BY <1>i, <2>1, <2>2, <2>4, <2>10, <2>11, <2>12 DEF Chain
<1>21. CASE CkptAbandon
  <2>1. /\ UNCHANGED <<dir, born, sealed, base, fence, cpc, active>> /\ up = "up"
        /\ up' # "creating" /\ synced \subseteq synced'
        /\ written \subseteq written' /\ written' \subseteq written \cup pending
    BY <1>i, <1>21 DEF CkptAbandon, Shape
  <2> QED
    BY <1>i, <2>1, ChainStep DEF Chain
<1>22. CASE Crash
  <2>1. UNCHANGED <<dir, born, sealed, base, written, synced, fence>> /\ up' = "down" /\ cpc' = "idle"
    BY <1>22 DEF Crash, Stopped
  <2>2. Sound' = Sound
    BY <2>1 DEF Sound
  <2> QED
    BY <1>i, <2>1, <2>2 DEF Chain, Clash, Rotating
<1>23. CASE PowerLoss
  <2>1. /\ UNCHANGED <<base, fence>> /\ up' = "down" /\ cpc' = "idle" /\ synced' = written'
        /\ dirSynced \subseteq dir' /\ dir' \subseteq dir
        /\ born' = born \cap dir' /\ sealed' = sealed \cap dir'
        /\ \A r \in written' : r \in written \/ \E l \in Unsynced : r = Torn(l)
        /\ \A r \in synced \cap Sound : r.seg \in dirSynced => r \in Sound'
        /\ Sound' \subseteq written'
    BY <1>i, <1>23, PowerLossFacts DEF Sound
  \* Only the newest file can be gone, which is not sealed.
  <2>2. sealed' = sealed /\ born' \subseteq born
    BY <1>e, <2>1
  <2>3. \A r \in written' : \E q \in written : /\ r.lsn = q.lsn /\ r.seg = q.seg
                                             /\ r.kind \in {q.kind, "torn"}
    BY <1>t, <2>1 DEF Unsynced
  <2>4. \A s \in dir \ dir' : \A t \in dir : t <= s
    BY <1>e, <2>1
  <2>5. \A s, t \in dir' : \A u \in s .. t : u \in dir'
    <3> SUFFICES ASSUME NEW s \in dir', NEW t \in dir', NEW u \in s .. t, u \notin dir'
                 PROVE  FALSE
      OBVIOUS
    <3>1. s \in dir /\ t \in dir /\ s \in Nat /\ t \in Nat /\ u <= t /\ u \in Int
      BY <1>n, <2>1
    <3>2. u \in dir
      BY <1>i, <3>1 DEF Chain
    <3> QED
      BY <2>4, <3>1, <3>2
  <2>6. \A s \in born' : (\A t \in dir' : s <= t) => \A t \in dir : s <= t
    BY <1>n, <2>1, <2>4
  <2>7. \A s \in sealed' : \E r \in synced' \cap Sound' : r.seg = s
    <3> SUFFICES ASSUME NEW s \in sealed PROVE \E r \in synced' \cap Sound' : r.seg = s
      BY <2>2
    <3>1. PICK r \in synced \cap Sound : r.seg = s
      BY <1>i DEF Chain
    <3> QED
      BY <1>e, <2>1, <3>1
  <2>8. \A r \in written', t \in born' : r.seg < t => r.lsn < base[t] \/ Clash(r, t)'
    <3> SUFFICES ASSUME NEW r \in written', NEW t \in born', r.seg < t, ~(r.lsn < base[t])
                 PROVE  Clash(r, t)'
      OBVIOUS
    <3>1. PICK q \in written : /\ r.lsn = q.lsn /\ r.seg = q.seg
                               /\ r.kind \in {q.kind, "torn"}
      BY <2>3
    <3>2. Clash(q, t)
      BY <1>i, <2>2, <3>1 DEF Chain
    <3>3. \A p \in written' : p.seg # t
      BY <2>3, <3>2 DEF Clash
    <3> QED
      BY <2>1, <3>1, <3>2, <3>3 DEF Clash
  <2> QED
    BY <1>i, <2>1, <2>2, <2>5, <2>6, <2>7, <2>8 DEF Chain, Rotating
<1>24. CASE Drop
  <2>1. /\ UNCHANGED <<dir, born, sealed, base, fence>> /\ up = "up" /\ up' # "creating"
        /\ written \subseteq written' /\ written' \subseteq written \cup pending
        /\ synced \subseteq synced' /\ cpc' \notin Rotating \cup {"create"}
    BY <1>i, <1>24 DEF Drop, Stopped, Rotating
  <2> QED
    BY <1>i, <2>1, ChainStep
<1>25. CASE DiscardUnborn
  <2>1. /\ UNCHANGED <<born, sealed, base, written, synced, fence, up, cpc>>
        /\ dir # {} /\ dir' = dir \ {Greatest(dir)} /\ up = "down" /\ Greatest(dir) \notin born
    BY <1>25 DEF DiscardUnborn
  <2>2. Greatest(dir) \in dir /\ \A s \in dir : s <= Greatest(dir)
    BY <1>i, <2>1, NewestType
  <2> DEFINE g == Greatest(dir)
  <2> HIDE DEF g
  <2>3. g \in dir /\ g \in Nat /\ dir' = dir \ {g} /\ \A s \in dir : s <= g
    BY <1>n, <2>1, <2>2 DEF g
  <2>4. \A s, t \in dir' : \A u \in s .. t : u \in dir'
    <3> SUFFICES ASSUME NEW s \in dir', NEW t \in dir', NEW u \in s .. t PROVE u \in dir'
      OBVIOUS
    <3>1. s \in dir /\ t \in dir /\ s \in Nat /\ t \in Nat /\ t < g
      BY <1>n, <2>3
    <3>2. u \in dir
      BY <1>i, <3>1 DEF Chain
    <3> QED
      BY <2>3, <3>1, <3>2
  <2>5. \A s \in born' : (\A t \in dir' : s <= t) => \A t \in dir : s <= t
    BY <1>n, <2>1, <2>3
  <2>6. Sound' = Sound
    BY <2>1 DEF Sound
  <2>7. cpc = "idle"
    BY <1>i, <2>1 DEF Shape
  <2> QED
    BY <1>i, <2>1, <2>4, <2>5, <2>6, <2>7 DEF Chain, Clash, Rotating
<1>26. CASE OpenFresh
  <2>1. written = {} /\ born = {} /\ sealed = {} /\ cpc = "idle" /\ up = "down"
    BY <1>i, <1>26 DEF OpenFresh, Files, Shape, TypeOK, TypeDisk
  <2>2. UNCHANGED <<born, sealed, written, fence, cpc>> /\ next_lsn' = fence + 1 /\ dir' = {1}
    BY <1>26 DEF OpenFresh, Opened
  <2> QED
    BY <1>n, <2>1, <2>2 DEF Chain, Rotating
<1>27. CASE OpenExisting
  <2>1. /\ UNCHANGED <<base, fence, cpc>> /\ written' = Sound /\ Sound \subseteq written
        /\ born' = {t \in born : t <= CutAt} /\ sealed' = {t \in sealed : t <= CutAt}
        /\ next_lsn' = LastUsed + 1 /\ \A r \in Sound : r.lsn <= LastUsed
        /\ CutAt \in dir /\ CutAt \in born /\ cpc = "idle"
        /\ synced \cap Sound \subseteq synced'
        /\ \A r \in Sound : r.kind # "torn"
        /\ \/ /\ CutAt \in sealed /\ up' = "creating" /\ active' = CutAt + 1
              /\ dir' = {s \in dir : s <= CutAt} \cup {CutAt + 1}
           \/ up' = "up" /\ dir' = {s \in dir : s <= CutAt}
    BY <1>i, <1>27, OpenFacts
  <2>a. \A r \in Sound, t \in born : r.seg < t => r.lsn < base[t]
    <3>1. ReplayOk /\ Sound = Readable
      BY <1>i, <1>27, OpenFacts
    <3>2. \A r \in Sound : r.seg \in dir
      BY <1>i, <1>n, <2>1 DEF Files
    <3> QED
      BY <1>n, <3>1, <3>2 DEF ReplayOk
  <2>2. Sound' = Sound
    BY <2>1, SoundIsAll DEF Sound
  <2>3. CutAt \in Nat /\ LastUsed \in Nat
    BY <1>i, <1>n, <2>1, ReplayType DEF Lsns
  <2>4. \A s, t \in dir' : \A u \in s .. t : u \in dir'
    <3> SUFFICES ASSUME NEW s \in dir', NEW t \in dir', NEW u \in s .. t PROVE u \in dir'
      OBVIOUS
    <3>a. \A x \in dir : x \in Nat
      BY <1>n
    <3>b. s \in Nat /\ t \in Nat /\ t <= CutAt + 1
      <4>1. \A x \in dir' : (x \in dir /\ x <= CutAt) \/ x = CutAt + 1
        BY <2>1
      <4> QED
        BY <2>3, <3>a, <4>1
    <3>1. s \in Nat /\ t \in Nat /\ u \in Int /\ s <= u /\ u <= t
      BY <3>b
    <3>2. CASE u <= CutAt
      <4>1. s \in dir
        BY <2>1, <2>3, <3>1, <3>2
      <4>2. u \in dir
        BY <1>i, <2>1, <2>3, <3>1, <3>2, <4>1 DEF Chain
      <4> QED
        BY <2>1, <3>2, <4>2
    <3>3. CASE ~(u <= CutAt)
      <4>1. u = t
        BY <2>3, <3>b, <3>1, <3>3
      <4> QED
        BY <4>1
    <3> QED
      BY <3>2, <3>3
  <2>5. \A s \in born' : (\A t \in dir' : s <= t) => \A t \in dir : s <= t
    BY <1>n, <2>1, <2>3
  <2>6. \A s \in sealed' : \E r \in synced' \cap Sound' : r.seg = s
    BY <1>i, <2>1, <2>2 DEF Chain
  <2>7. up' = "creating" => /\ \A s \in born' : base[s] < next_lsn'
                            /\ \E s \in dir' : s < active'
    <3> SUFFICES ASSUME up' = "creating"
                 PROVE  /\ \A s \in born' : base[s] < next_lsn'
                        /\ \E s \in dir' : s < active'
      OBVIOUS
    <3>1. CutAt \in sealed /\ active' = CutAt + 1 /\ CutAt \in dir'
      BY <2>1, <2>3
    <3>2. PICK r \in synced \cap Sound : r.seg = CutAt
      BY <1>i, <3>1 DEF Chain
    <3>3. base[CutAt] <= r.lsn /\ r.lsn <= LastUsed /\ r.lsn \in Nat
      BY <1>i, <1>n, <2>1, <3>2 DEF Starts
    <3>4. base[CutAt] < next_lsn'
      BY <1>n, <2>1, <2>3, <3>3
    <3>5. \A s \in born' : s = CutAt \/ base[s] < base[CutAt]
      BY <1>i, <1>n, <2>1, <2>3 DEF Chain
    <3>6. \A s \in born' : base[s] < next_lsn'
      BY <1>n, <2>1, <2>3, <3>4, <3>5
    <3> QED
      BY <2>3, <3>1, <3>6
  <2>8. /\ \A s \in born' : (\A t \in dir' : s <= t) => base'[s] - 1 <= fence'
        /\ \A s, t \in born' : s < t => base'[s] < base'[t]
        /\ \A r \in written', t \in born' : r.seg < t => r.lsn < base'[t]
    BY <1>i, <2>1, <2>5, <2>a DEF Chain
  <2> QED
    BY <2>1, <2>4, <2>6, <2>7, <2>8 DEF Chain, Rotating
<1>28. CASE OpenCreate
  <2>1. /\ active \in dir /\ active \notin born /\ cpc = "idle" /\ up = "creating"
        /\ \A t \in dir : t <= active
    BY <1>i, <1>28 DEF OpenCreate, Shape, Files
  <2>2. /\ base'[active] = next_lsn /\ \A s \in born : base'[s] = base[s]
        /\ born' = born \cup {active}
    BY <1>i, <1>n, <1>28, <2>1 DEF OpenCreate, TypeOK, TypeDisk
  <2>3. UNCHANGED <<dir, sealed, written, synced, fence, cpc, Sound>> /\ up' = "up"
    BY <1>28 DEF OpenCreate, Sound
  <2>4. \A s \in born : base[s] < next_lsn /\ s < active /\ s \in Nat /\ active \in Nat
    BY <1>i, <1>n, <2>1 DEF Chain
  <2>5. \A r \in written : r.lsn < next_lsn
    BY <1>i, <2>1 DEF Order, Running
  <2>6. \A s, t \in born' : s < t => base'[s] < base'[t]
    <3> SUFFICES ASSUME NEW s \in born', NEW t \in born', s < t PROVE base'[s] < base'[t]
      OBVIOUS
    <3>1. s \in born
      BY <1>n, <2>2, <2>4
    <3>2. CASE t \in born
      BY <1>i, <2>2, <3>1, <3>2 DEF Chain
    <3>3. CASE t = active
      BY <2>2, <2>4, <3>1, <3>3
    <3> QED
      BY <2>2, <3>2, <3>3
  <2>7. \A r \in written, t \in born' : r.seg < t => r.lsn < base'[t]
    BY <1>i, <2>1, <2>2, <2>4, <2>5 DEF Bases
  <2>8. \A s \in born' : (\A t \in dir : s <= t) => base'[s] - 1 <= fence
    <3>1. (\A t \in dir : active <= t) => next_lsn - 1 <= fence
      BY <1>i, <1>n, <2>1 DEF Chain
    <3> QED
      BY <1>i, <2>2, <3>1 DEF Chain
  <2> QED
    BY <1>i, <2>1, <2>3, <2>6, <2>7, <2>8 DEF Chain, Rotating
<1>29. CASE OpenFail
  <2>1. /\ UNCHANGED <<dir, born, sealed, base, written, synced, fence, cpc, active>>
        /\ up' \in {"corrupt", "failed"}
    BY <1>29 DEF OpenFail
  <2>2. Sound' = Sound
    BY <2>1 DEF Sound
  <2> QED
    BY <1>i, <2>1, <2>2 DEF Chain, Clash
<1>30. CASE OpenCreateFail
  <2>1. /\ active \in dir /\ active \notin born /\ cpc = "idle" /\ up = "creating"
        /\ \A t \in dir : t <= active
    BY <1>i, <1>30 DEF OpenCreateFail, Shape, Files
  <2>2. /\ base'[active] = next_lsn /\ \A s \in born : base'[s] = base[s]
        /\ born' = born \cup {active}
    BY <1>i, <1>n, <1>30, <2>1 DEF OpenCreateFail, TypeOK, TypeDisk
  <2>3. UNCHANGED <<dir, sealed, written, synced, fence, Sound>> /\ up' = "down" /\ cpc' = "idle"
    BY <1>30 DEF OpenCreateFail, Stopped, Sound
  <2>4. \A s \in born : base[s] < next_lsn /\ s < active /\ s \in Nat /\ active \in Nat
    BY <1>i, <1>n, <2>1 DEF Chain
  <2>5. \A r \in written : r.lsn < next_lsn
    BY <1>i, <2>1 DEF Order, Running
  <2>6. \A s, t \in born' : s < t => base'[s] < base'[t]
    <3> SUFFICES ASSUME NEW s \in born', NEW t \in born', s < t PROVE base'[s] < base'[t]
      OBVIOUS
    <3>1. s \in born
      BY <1>n, <2>2, <2>4
    <3>2. CASE t \in born
      BY <1>i, <2>2, <3>1, <3>2 DEF Chain
    <3>3. CASE t = active
      BY <2>2, <2>4, <3>1, <3>3
    <3> QED
      BY <2>2, <3>2, <3>3
  <2>7. \A r \in written, t \in born' : r.seg < t => r.lsn < base'[t]
    BY <1>i, <2>1, <2>2, <2>4, <2>5 DEF Bases
  <2>8. \A s \in born' : (\A t \in dir : s <= t) => base'[s] - 1 <= fence
    <3>1. (\A t \in dir : active <= t) => next_lsn - 1 <= fence
      BY <1>i, <1>n, <2>1 DEF Chain
    <3> QED
      BY <1>i, <2>2, <3>1 DEF Chain
  <2> QED
    BY <1>i, <2>1, <2>3, <2>6, <2>7, <2>8 DEF Chain, Rotating
<1> QED
  BY <1>1, <1>2, <1>3, <1>4, <1>5, <1>6, <1>7, <1>8, <1>9, <1>10, <1>11, <1>12,
     <1>13, <1>14, <1>15, <1>16, <1>17, <1>18, <1>19, <1>20, <1>21, <1>22, <1>23,
     <1>24, <1>25, <1>26, <1>27, <1>28, <1>29, <1>30
  DEF Next, CommitStep, FlushStep, CkptStep, Open

\* When pages reach the disk in order, only the last frame can be bad.
LEMMA PowerLossOrdered ==
  ASSUME SyncInv, Frames, PowerLoss, "reordered_pages" \notin Faults,
         \A q \in written : q.kind = "torn" => \A r \in written : r = q \/ r.lsn < q.lsn
  PROVE  \A q \in written' : q.kind = "torn" => \A r \in written' : r = q \/ r.lsn < q.lsn
<1>i. TypeOK /\ UnsyncedTail /\ synced \subseteq written
  BY DEF SyncInv, LogInv, TypeOK, TypeRecs
<1>1. PICK kept \in SUBSET (written \ synced), partial \in BOOLEAN,
           lostDirs \in SUBSET (dir \ dirSynced) :
        LET lost == (written \ synced) \ kept
            holes == {l \in lost : \/ \E k \in kept : l.lsn < k.lsn
                                   \/ partial /\ \A m \in lost : l.lsn <= m.lsn}
            after == synced \cup kept \cup {Torn(l) : l \in holes}
        IN
        /\ up \notin {"up", "creating"}
        /\ "reordered_pages" \notin Faults => \A k \in kept, l \in lost : k.lsn < l.lsn
        /\ written' = {r \in after : r.seg \notin lostDirs}
        /\ synced' = written'
        /\ dir' = dir \ lostDirs /\ dirSynced' = dir'
        /\ born' = born \ lostDirs /\ sealed' = sealed \ lostDirs
        /\ up' = "down"
        /\ UNCHANGED <<base, snap, mem, latches, commit, flush, ckpt, told>>
  BY DEF PowerLoss
<1> DEFINE lost == (written \ synced) \ kept
           holes == {l \in lost : \/ \E k \in kept : l.lsn < k.lsn
                                  \/ partial /\ \A m \in lost : l.lsn <= m.lsn}
<1>2. \A r \in written' : \/ r \in synced \/ r \in kept
                          \/ \E l \in holes : r = Torn(l)
  BY <1>1
<1>3. \A k \in kept, l \in lost : k.lsn < l.lsn
  BY <1>1
<1>4. \A r \in written : r.lsn \in Nat
  BY <1>i, Numbers
<1>5. \A l \in holes : l \in lost /\ \A m \in lost : l.lsn <= m.lsn
  BY <1>3, <1>4
<1>6. \A l \in lost : l \in Unsynced /\ l \in written
  BY DEF Unsynced
<1>7. kept \subseteq Unsynced /\ kept \subseteq written
  BY DEF Unsynced
<1> HIDE DEF holes, lost
<1>8. \A l \in written : Torn(l).lsn = l.lsn /\ Torn(l).kind = "torn"
  BY <1>i DEF TypeOK, TypeRecs, Record, Torn
<1>9. CASE \E t \in written : t.kind = "torn"
  <2>1. Unsynced = {}
    BY <1>9 DEF Frames
  <2>2. written' \subseteq written
    BY <1>i, <1>2, <1>5, <1>6, <1>7, <2>1
  <2> QED
    BY <2>2
<1>10. CASE \A t \in written : t.kind # "torn"
  <2> SUFFICES ASSUME NEW q \in written', q.kind = "torn", NEW r \in written'
               PROVE  r = q \/ r.lsn < q.lsn
    OBVIOUS
  <2>1. PICK l \in holes : q = Torn(l)
    BY <1>i, <1>2, <1>7, <1>10
  <2>2. l \in lost /\ l \in Unsynced /\ q.lsn = l.lsn /\ l \in written
    BY <1>5, <1>6, <1>8, <2>1
  <2>3. CASE r \in synced
    BY <1>i, <2>2, <2>3 DEF UnsyncedTail
  <2>4. CASE r \in kept
    BY <1>3, <2>2, <2>4
  <2>5. CASE \E m \in holes : r = Torn(m)
    <3>1. PICK m \in holes : r = Torn(m)
      BY <2>5
    <3>2. m \in lost /\ m \in written /\ m.lsn <= l.lsn /\ l.lsn <= m.lsn
      BY <1>5, <1>6, <2>1, <2>2, <3>1
    <3>3. m = l
      BY <1>4, <2>2, <3>2 DEF Frames
    <3> QED
      BY <2>1, <3>1, <3>3
  <2> QED
    BY <1>2, <2>3, <2>4, <2>5
<1> QED
  BY <1>9, <1>10

\* Every step keeps a left-over file at most one marker behind the log.
LEMMA NextOneMarker ==
  ASSUME SyncInv, Frames, OneMarker, Next
  PROVE  OneMarker'
<1> USE DEF disk, files, snap, mem, latches, commit, flush, ckpt, told, Fails,
            Running
<1>i. TypeOK /\ Shape /\ Files /\ Order /\ Bases /\ LeftOver
  BY DEF SyncInv, LogInv
<1>n. /\ active \in Nat /\ next_lsn \in Nat /\ active + 1 # active
      /\ \A r \in written \cup pending : r.lsn \in Nat
      /\ \A t \in born : t \in Nat /\ base[t] \in Nat
  BY <1>i, Numbers DEF TypeOK, TypeDisk
<1>a. /\ (active + 1) + 1 \notin born \/ up # "up"
      /\ up = "up" /\ active + 1 \in born =>
           /\ cpc \in {"syncdir", "seal", "failing"} \/ (cpc = "idle" /\ poisoned)
           /\ cpc \in {"syncdir", "seal"} => base[active + 1] = next_lsn
  <2>1. ASSUME up = "up", (active + 1) + 1 \in born PROVE FALSE
    BY <1>n, <2>1, AheadOnly
  <2>2. ASSUME up = "up", active + 1 \in born
        PROVE  /\ cpc \in {"syncdir", "seal", "failing"} \/ (cpc = "idle" /\ poisoned)
               /\ cpc \in {"syncdir", "seal"} => base[active + 1] = next_lsn
    BY <1>n, <2>2, AheadOnly
  <2> QED
    BY <2>1, <2>2
<1>1. ASSUME NEW n \in 1 .. MaxBatches, CommitLock(n) PROVE OneMarker'
  BY <1>a, <1>1 DEF CommitLock, WriterFree, OneMarker
<1>2. CASE RotateFlush \/ RotateCreate
  BY <1>i, <1>a, <1>2 DEF RotateFlush, RotateCreate, OneMarker, Shape
<1>3. CASE RotateHeader
  <2>1. up = "up" /\ cpc = "header" /\ active + 1 \notin born /\ active + 1 \in dir
    BY <1>i, <1>a, <1>3 DEF RotateHeader, Shape, Rotating
  <2>2. active + 1 \in born' => base'[active + 1] = next_lsn
    BY <1>i, <2>1, <1>3 DEF RotateHeader, TypeOK, TypeDisk
  <2> QED
    BY <1>3, <2>2 DEF RotateHeader, OneMarker
<1>4. CASE RotateSyncDir
  BY <1>i, <1>a, <1>4 DEF RotateSyncDir, DropNew, OneMarker, Shape
<1>5. CASE RotateSeal
  <2>1. up = "up" /\ cpc = "seal"
    BY <1>i, <1>5 DEF RotateSeal, Shape
  <2>2. UNCHANGED <<base, next_lsn>> /\ born' \subseteq born
        /\ active' \in {active, active + 1}
    BY <1>5 DEF RotateSeal, DropNew
  <2> QED
    BY <1>a, <2>1, <2>2 DEF OneMarker
<1>6. CASE AppendBegin \/ AppendBatch \/ AppendCommit \/ CommitFlush
  <2>1. /\ up = "up" /\ UNCHANGED <<born, active, up>>
        /\ cpc \notin {"syncdir", "seal", "failing", "idle"}
    BY <1>i, <1>6 DEF AppendBegin, AppendBatch, AppendCommit, CommitFlush, RollbackTx, Shape
  <2> QED
    BY <1>a, <2>1 DEF OneMarker
<1>7. CASE CommitPoison
  BY <1>7 DEF CommitPoison, OneMarker
<1>8. ASSUME NEW s \in Flushers, FlushCall(s) \/ FlushStep(s) PROVE OneMarker'
  <2>1. /\ UNCHANGED <<base, born, next_lsn, active, up, cpc>> /\ (poisoned => poisoned')
        /\ written' \cup pending' = written \cup pending
        /\ kpc' \in {"install", "mark"} => kpc \in {"install", "mark"}
    <3>1. CASE FlushCall(s)
      BY <3>1 DEF FlushCall
    <3>f. FlushFailed(s) => /\ poisoned => poisoned'
                            /\ kpc' \in {"install", "mark"} => kpc \in {"install", "mark"}
      BY DEF FlushFailed
    <3>d. FlushDone(s, live) =>
            (kpc' \in {"install", "mark"} => kpc \in {"install", "mark"})
      BY DEF FlushDone
    <3>2. CASE FlushWrite(s)
      <4>1. /\ UNCHANGED <<base, born, next_lsn, active, up, cpc>>
            /\ written' \cup pending' = written \cup pending
            /\ FlushFailed(s) \/ (UNCHANGED poisoned /\ (FlushDone(s, live) \/ UNCHANGED kpc))
        BY <3>2 DEF FlushWrite, flush_buffer
      <4> QED
        BY <3>f, <3>d, <4>1
    <3>3. CASE FlushSync(s)
      <4>1. /\ UNCHANGED <<base, born, next_lsn, active, up, cpc, written, pending>>
            /\ FlushFailed(s) \/ UNCHANGED <<poisoned, kpc>>
        BY <3>3 DEF FlushSync
      <4> QED
        BY <3>f, <4>1
    <3>4. CASE FlushAdvance(s)
      BY <3>4 DEF FlushAdvance, FlushDone
    <3> QED
      BY <1>8, <3>1, <3>2, <3>3, <3>4 DEF FlushStep
  <2> QED
    BY <2>1 DEF OneMarker
<1>9. CASE CkptStart \/ CkptAbandon \/ CkptInstall
  BY <1>9 DEF CkptStart, CkptAbandon, CkptInstall, OneMarker
<1>10. CASE CkptTake
  <2>1. cpc = "idle"
    BY <1>i, <1>10 DEF CkptTake, Shape
  <2> QED
    BY <1>a, <2>1, <1>10 DEF CkptTake, OneMarker
<1>11. CASE CkptMark
  <2>1. /\ kpc = "mark" /\ up = "up" /\ cpc \notin {"syncdir", "seal"}
        /\ UNCHANGED <<born, base, active, written, cpc, up>>
    BY <1>i, <1>11 DEF CkptMark, Shape, StateFree
  <2>2. CASE UNCHANGED <<pending, next_lsn>> /\ poisoned'
    BY <1>11, <2>1, <2>2 DEF CkptMark, OneMarker
  <2>3. CASE ~poisoned /\ next_lsn' = next_lsn + 1 /\ kpc' = "fsync2"
             /\ pending' = pending \cup {Rec(next_lsn, "marker", klsn)}
    <3> SUFFICES ASSUME active + 1 \in born
                 PROVE  /\ base[active + 1] + 1 = next_lsn'
                        /\ cpc \in {"idle", "failing"}
                        /\ \A r \in written' \cup pending' :
                             r.lsn = base[active + 1] => r.kind = "marker"
      BY <2>1, <2>3 DEF OneMarker
    <3>1. base[active + 1] = next_lsn
      BY <2>1, <2>3 DEF OneMarker
    <3>2. cpc \in {"idle", "failing"}
      BY <1>a, <2>1
    <3>3. \A r \in written \cup pending : r.lsn # next_lsn
      BY <1>i, <1>n, <2>1 DEF Order
    <3>4. Rec(next_lsn, "marker", klsn).kind = "marker"
      BY DEF Rec
    <3> QED
      BY <2>1, <2>3, <3>1, <3>2, <3>3, <3>4
  <2> QED
    BY <1>11, <2>2, <2>3 DEF CkptMark
<1>12. CASE CkptTruncate
  <2>1. /\ UNCHANGED <<base, next_lsn, active, up, cpc, poisoned, pending>> /\ kpc' = "idle"
        /\ born' \subseteq born /\ written' \subseteq written
    BY <1>12, TruncateFacts
  <2> QED
    BY <2>1 DEF OneMarker
<1>13. CASE Crash \/ Drop \/ PowerLoss \/ DiscardUnborn \/ OpenFresh \/ OpenFail \/ OpenCreateFail
  <2>1. up' # "up"
    BY <1>13 DEF Crash, Drop, PowerLoss, DiscardUnborn, OpenFresh, OpenFail, OpenCreateFail,
                 Stopped
  <2> QED
    BY <2>1 DEF OneMarker
<1>14. CASE OpenExisting
  <2>1. /\ born' = {t \in born : t <= CutAt} /\ CutAt \in born
        /\ up' = "up" => active' = CutAt
    BY <1>14, OpenFacts
  <2> QED
    BY <1>n, <2>1 DEF OneMarker
<1>15. CASE OpenCreate
  <2>1. UNCHANGED active /\ born' = born \cup {active} /\ \A t \in born : t <= active
    BY <1>i, <1>15 DEF OpenCreate, Files, TypeOK, TypeDisk
  <2> QED
    BY <1>n, <2>1 DEF OneMarker
<1> QED
  BY <1>1, <1>2, <1>3, <1>4, <1>5, <1>6, <1>7, <1>8, <1>9, <1>10, <1>11, <1>12,
     <1>13, <1>14, <1>15
  DEF Next, CommitStep, CkptStep, Open

\* Every step keeps what may be lost, and what was, at the end of the newest
\* file with records.
LEMMA NextTornEnd ==
  ASSUME OpenInv, Next, SyncInv', Frames', Chain'
  PROVE  TornEnd'
<1> USE DEF disk, files, snap, mem, latches, commit, flush, ckpt, told, Fails,
            Running
<1>i. /\ TypeOK /\ Shape /\ Files /\ SyncInv /\ Frames /\ TornEnd
  BY DEF OpenInv, BaseInv, ReadInv, Inv, SyncInv, LogInv
<1>t. \A r \in written : /\ Torn(r).kind = "torn" /\ Torn(r).lsn = r.lsn
                         /\ Torn(r).seg = r.seg
  BY <1>i DEF TypeOK, TypeRecs, Record, Torn
\* Without bad frames it is a matter of what is not fsynced yet.
<1>1. ASSUME \A r \in written' : r.kind # "torn" PROVE TornEnd'
  <2>1. ASSUME NEW r \in Unsynced'
        PROVE  r.seg \notin sealed' /\ \A s \in born' : s <= r.seg \/ Clash(r, s)'
    <3>1. /\ TypeOK' /\ LeftOver' /\ UnsyncedTail' /\ r \in written'
      BY <2>1 DEF SyncInv, LogInv, Unsynced
    <3>2. ASSUME NEW s \in born', ~(s <= r.seg) PROVE Clash(r, s)'
      <4>1. /\ r.seg \in Nat /\ s \in Nat /\ r.lsn \in Nat /\ base'[s] \in Nat
        <5>1. r \in Record /\ base' \in [SegIds -> 0 .. MaxLsn]
          BY <3>1 DEF TypeOK, TypeRecs, TypeDisk
        <5>2. s \in SegIds
          BY <3>1, <3>2 DEF TypeOK, TypeDisk
        <5> QED
          BY <5>1, <5>2, BoundsAssumption DEF Record, SegIds, Lsns
      <4>2. base'[s] <= r.lsn
        BY <2>1, <3>1, <3>2 DEF LeftOver
      <4> QED
        BY <3>1, <3>2, <4>1, <4>2 DEF Chain
    <3> QED
      BY <2>1, <3>1, <3>2 DEF UnsyncedTail
  <2> QED
    BY <1>1, <2>1 DEF TornEnd
<1>2. ASSUME up' \in {"up", "creating"} PROVE TornEnd'
  BY <1>1, <1>2 DEF Frames
<1>3. CASE CommitStep
  <2>1. up' = up /\ up = "up"
    BY <1>i, <1>3 DEF CommitStep, RotateFlush, RotateCreate, RotateHeader, RotateSyncDir,
       RotateSeal, AppendBegin, AppendBatch, AppendCommit, CommitFlush, CommitPoison, Shape
  <2> QED
    BY <1>2, <2>1
<1>4. ASSUME NEW s \in Flushers, FlushCall(s) \/ FlushStep(s) PROVE TornEnd'
  <2>1. up' = up /\ up = "up"
    BY <1>i, <1>4 DEF FlushCall, FlushStep, FlushWrite, FlushSync, FlushAdvance, Shape
  <2> QED
    BY <1>2, <2>1
<1>5. CASE CkptStart \/ CkptStep
  <2>1. up' = up /\ up = "up"
    BY <1>i, <1>5 DEF CkptStart, CkptStep, CkptTake, CkptInstall, CkptMark, CkptTruncate,
       CkptAbandon, Shape
  <2> QED
    BY <1>2, <2>1
<1>6. ASSUME NEW n \in 1 .. MaxBatches, CommitLock(n) PROVE TornEnd'
  BY <1>2, <1>6 DEF CommitLock
<1>7. CASE Crash \/ Drop \/ OpenCreateFail
  <2>1. up \in {"up", "creating"} /\ written' \subseteq written \cup pending
    BY <1>7 DEF Crash, Drop, OpenCreateFail
  <2> QED
    BY <1>i, <1>1, <2>1 DEF Frames
<1>8. CASE PowerLoss
  <2>1. /\ synced' = written' /\ born' \subseteq born /\ sealed' \subseteq sealed
        /\ dir' \subseteq dir /\ UNCHANGED base
        /\ \A r \in written' : r \in written \/ \E l \in Unsynced : r = Torn(l)
    BY <1>i, <1>8, PowerLossFacts
  <2>2. \A r \in written' : \E q \in written : q.seg = r.seg
    BY <1>t, <2>1 DEF Unsynced
  <2>3. ASSUME NEW r \in written', r.kind = "torn"
        PROVE  r.seg \notin sealed' /\ \A s \in born' : s <= r.seg \/ Clash(r, s)'
    <3>1. PICK q \in written : /\ q.lsn = r.lsn /\ q.seg = r.seg
                               /\ q \in Unsynced \/ q.kind = "torn"
      BY <1>t, <2>1, <2>3 DEF Unsynced
    <3>2. q.seg \notin sealed /\ \A s \in born : s <= q.seg \/ Clash(q, s)
      BY <1>i, <3>1 DEF TornEnd
    <3> QED
      BY <2>1, <2>2, <2>3, <3>1, <3>2 DEF Clash
  <2>4. Unsynced' = {}
    BY <2>1 DEF Unsynced
  <2>5. "reordered_pages" \notin Faults =>
          \A q \in written' : q.kind = "torn" => \A r \in written' : r = q \/ r.lsn < q.lsn
    BY <1>i, <1>8, PowerLossOrdered DEF TornEnd
  <2> QED
    BY <2>3, <2>4, <2>5 DEF TornEnd
<1>9. CASE DiscardUnborn \/ OpenFail
  <2>1. UNCHANGED <<born, sealed, base, written, synced>> /\ dir' \subseteq dir
    BY <1>9 DEF DiscardUnborn, OpenFail
  <2> QED
    BY <1>i, <2>1 DEF TornEnd, Unsynced, Clash
<1>10. CASE OpenFresh \/ OpenCreate
  BY <1>2, <1>10 DEF OpenFresh, OpenCreate
<1>11. CASE OpenExisting
  BY <1>2, <1>11 DEF OpenExisting
<1> QED
  BY <1>3, <1>4, <1>5, <1>6, <1>7, <1>8, <1>9, <1>10, <1>11 DEF Next, Open

-----------------------------------------------------------------------------
(* What replay reads, whatever storage does to what was not fsynced.       *)

\* A log that does not exist yet reads as nothing.
LEMMA InitRead == Init => ReadInv
<1> SUFFICES ASSUME Init PROVE ReadInv
  OBVIOUS
<1>1. SyncInv
  BY InitSync
<1>2. /\ written = {} /\ pending = {} /\ Sound = {} /\ Applied = {}
      /\ Commits(written \cup pending) = {} /\ Commits(pending) = {}
  BY DEF Init, Sound, Applied, Commits
<1>3. Frames /\ Fences /\ Markers
  <2>1. \A l : SplitsNone(l)
    BY <1>2 DEF SplitsNone
  <2>2. up = "down" /\ kpc = "idle" /\ \A s \in Flushers : fpc[s] = "idle"
    BY DEF Init
  <2>3. Fences
    BY <2>1, <2>2 DEF Fences, Running
  <2> QED
    BY <1>2, <2>2, <2>3 DEF Frames, Markers, Running
<1>4. Whole
  BY <1>2 DEF Init, Whole
<1>5. Numbered
  <2>1. \A t : ~InLog(t)
    BY <1>2 DEF Init, InLog
  <2> QED
    BY <1>2, <2>1 DEF Init, Numbered, Running
<1> QED
  BY <1>1, <1>3, <1>4, <1>5 DEF ReadInv

\* Every step keeps what replay reads in order.
LEMMA NextRead == ReadInv /\ [Next]_vars => ReadInv'
<1> SUFFICES ASSUME ReadInv, [Next]_vars PROVE ReadInv'
  OBVIOUS
<1>1. SyncInv'
  BY NextSync DEF ReadInv
<1>2. CASE Next
  BY <1>1, <1>2, NextFrames, NextFences, NextWhole, NextNumbered, NextMarkers DEF ReadInv
<1>3. CASE UNCHANGED vars
  <2> USE <1>3 DEF vars, disk, files, snap, mem, latches, commit, flush, ckpt, told, Running,
              Unsynced, Commits, SplitsNone
  <2>1. Frames'
    BY DEF ReadInv, Frames
  <2>2. Fences'
    BY DEF ReadInv, Fences
  <2>3. Whole'
    BY DEF ReadInv, Whole, Run, Applied, Sound
  <2>4. Numbered'
    BY DEF ReadInv, Numbered, InLog
  <2>5. Markers'
    BY DEF ReadInv, Markers
  <2> QED
    BY <1>1, <2>1, <2>2, <2>3, <2>4, <2>5 DEF ReadInv
<1> QED
  BY <1>2, <1>3

\* So it holds in every behaviour, with any faults of storage.
LEMMA ReadInvariant == Spec => []ReadInv
  BY InitRead, NextRead, PTL DEF Spec

\* Replay never meets half a transaction it would apply: what skip_fenced_record
\* and the torn tail cut take away is whole, for every page order, lost removal,
\* lost directory entry, failed write, crash and checkpoint.
THEOREM WholeTransactions == Spec => []TransactionsWhole
<1>1. ReadInv => TransactionsWhole
  <2> SUFFICES ASSUME ReadInv, up = "up", NEW c \in Commits(written \cup pending),
                      ~(c.lsn <= fence)
               PROVE  /\ fence < c.ref
                      /\ \A l \in c.ref .. c.lsn : \E r \in written \cup pending :
                           r.lsn = l /\ r.tx = c.tx
    BY DEF TransactionsWhole
  <2>1. TypeOK
    BY DEF ReadInv, SyncInv, LogInv
  <2>2. c.lsn \in Nat /\ fence \in Nat /\ fence < c.lsn /\ c.kind = "commit"
        /\ c \in written \cup pending
    BY <2>1, Numbers DEF Commits
  <2>3. Sound = written
    BY SoundIsAll DEF ReadInv, Frames, Running
  <2>4. c \in Applied
    BY <2>2, <2>3 DEF Applied
  <2>5. Run(Sound \cup pending, c.ref, c.lsn, c.tx, c.seg)
    BY <2>4 DEF ReadInv, Whole
  <2>6. fence < c.ref
    <3>1. c.ref \in Nat
      BY <2>1, <2>2 DEF TypeOK, TypeRecs, Record, Lsns
    <3> QED
      BY <2>2, <3>1 DEF ReadInv, Fences, SplitsNone
  <2> QED
    BY <2>3, <2>5, <2>6 DEF Run
<1> QED
  BY <1>1, ReadInvariant, PTL

-----------------------------------------------------------------------------
(* A file system that makes a fsynced file's directory entry durable.      *)

\* It holds before anything is opened.
LEMMA InitBase == Init => BaseInv
<1> SUFFICES ASSUME Init PROVE BaseInv
  OBVIOUS
<1>1. SyncInv /\ ReadInv
  BY InitSync, InitRead
<1>2. Entries /\ Kept /\ Starts /\ Reached
  BY DEF Init, Entries, Kept, Starts, Reached, Running, Commits
<1> QED
  BY <1>1, <1>2 DEF BaseInv, Inv

\* Every step keeps it.
LEMMA NextBase ==
  ASSUME "entry_unsynced" \notin Faults
  PROVE  BaseInv /\ [Next]_vars => BaseInv'
<1> SUFFICES ASSUME BaseInv, [Next]_vars PROVE BaseInv'
  OBVIOUS
<1>1. SyncInv' /\ ReadInv'
  BY NextSync, NextRead DEF BaseInv, Inv
<1>2. CASE Next
  BY <1>1, <1>2, NextKept, NextEntries, NextStarts, NextReached DEF BaseInv, Inv
<1>3. CASE UNCHANGED vars
  <2> USE <1>3 DEF vars, disk, files, snap, mem, latches, commit, flush, ckpt, told, Running
  <2>1. Kept' /\ Entries'
    BY DEF BaseInv, Inv, Kept, Entries, Commits
  <2>2. Starts'
    BY DEF BaseInv, Starts
  <2>3. Reached'
    BY DEF BaseInv, Reached, Sound
  <2> QED
    BY <1>1, <2>1, <2>2, <2>3 DEF BaseInv, Inv
<1> QED
  BY <1>2, <1>3

\* The invariant of a log whose entries are durable, for every behaviour.
LEMMA BaseInvariant ==
  ASSUME "entry_unsynced" \notin Faults
  PROVE  Spec => []BaseInv
  BY InitBase, NextBase, PTL DEF Spec


\* Every record that appears in a file was buffered, or is garbage.
LEMMA OnlyPending ==
  ASSUME SyncInv, Frames, Next
  PROVE  \A r \in written' : r \in written \/ r \in pending \/ r.kind = "torn"
<1> USE DEF disk, files, snap, mem, latches, commit, flush, ckpt, told, Fails,
            Running
<1>i. TypeOK /\ Shape /\ Files /\ synced \subseteq written
  BY DEF SyncInv, LogInv, TypeOK, TypeRecs
<1>t. \A r \in written : Torn(r).kind = "torn"
  BY <1>i DEF TypeOK, TypeRecs, Record, Torn
<1>1. ASSUME NEW n \in 1 .. MaxBatches, CommitLock(n) PROVE \A r \in written' : r \in written \/ r \in pending \/ r.kind = "torn"
  BY <1>i, <1>1 DEF CommitLock, WriterFree
<1>2. CASE RotateFlush
  BY <1>i, <1>2 DEF RotateFlush, flush_buffer
<1>3. CASE RotateCreate
  BY <1>i, <1>3 DEF RotateCreate
<1>4. CASE RotateHeader
  BY <1>i, <1>4 DEF RotateHeader, WithEntry
<1>5. CASE RotateSyncDir
  BY <1>i, <1>5 DEF RotateSyncDir, DropNew
<1>6. CASE RotateSeal
  BY <1>i, <1>6 DEF RotateSeal, DropNew
<1>7. CASE AppendBegin
  BY <1>i, <1>7, RecFields DEF AppendBegin
<1>8. CASE AppendBatch
  BY <1>i, <1>8, RecFields DEF AppendBatch, RollbackTx
<1>9. CASE AppendCommit
  BY <1>i, <1>9, RecFields DEF AppendCommit, RollbackTx
<1>10. CASE CommitFlush
  BY <1>i, <1>10 DEF CommitFlush, flush_buffer
<1>11. CASE CommitPoison
  BY <1>i, <1>11 DEF CommitPoison
<1>12. ASSUME NEW s \in Flushers, FlushCall(s) PROVE \A r \in written' : r \in written \/ r \in pending \/ r.kind = "torn"
  BY <1>i, <1>12 DEF FlushCall
<1>13. ASSUME NEW s \in Flushers, FlushWrite(s) PROVE \A r \in written' : r \in written \/ r \in pending \/ r.kind = "torn"
  BY <1>i, <1>13 DEF FlushWrite, flush_buffer, FlushDone, FlushFailed
<1>14. ASSUME NEW s \in Flushers, FlushSync(s) PROVE \A r \in written' : r \in written \/ r \in pending \/ r.kind = "torn"
  BY <1>i, <1>14 DEF FlushSync, FlushFailed
<1>15. ASSUME NEW s \in Flushers, FlushAdvance(s) PROVE \A r \in written' : r \in written \/ r \in pending \/ r.kind = "torn"
  BY <1>i, <1>15 DEF FlushAdvance, FlushDone
<1>16. CASE CkptStart
  BY <1>i, <1>16 DEF CkptStart
<1>17. CASE CkptTake
  BY <1>i, <1>17 DEF CkptTake
<1>18. CASE CkptInstall
  BY <1>i, <1>18 DEF CkptInstall
<1>19. CASE CkptMark
  BY <1>i, <1>19, RecFields DEF CkptMark
<1>20. CASE CkptTruncate
  BY <1>20, TruncateFacts
<1>21. CASE CkptAbandon
  BY <1>i, <1>21 DEF CkptAbandon
<1>22. CASE Crash
  BY <1>i, <1>22 DEF Crash, Stopped
<1>23. CASE PowerLoss
  <2>1. \A r \in written' : r \in written \/ \E l \in Unsynced : r = Torn(l)
    BY <1>23, PowerLossFacts
  <2> QED
    BY <1>t, <2>1 DEF Unsynced
<1>24. CASE Drop
  BY <1>i, <1>24 DEF Drop, Stopped
<1>25. CASE DiscardUnborn
  BY <1>i, <1>25 DEF DiscardUnborn
<1>26. CASE OpenFresh
  BY <1>i, <1>26 DEF OpenFresh, Opened
<1>27. CASE OpenExisting
  BY <1>27, OpenFacts
<1>28. CASE OpenCreate
  BY <1>i, <1>28 DEF OpenCreate
<1>29. CASE OpenFail
  BY <1>i, <1>29 DEF OpenFail
<1>30. CASE OpenCreateFail
  BY <1>i, <1>30 DEF OpenCreateFail
<1> QED
  BY <1>1, <1>2, <1>3, <1>4, <1>5, <1>6, <1>7, <1>8, <1>9, <1>10, <1>11, <1>12,
     <1>13, <1>14, <1>15, <1>16, <1>17, <1>18, <1>19, <1>20, <1>21, <1>22, <1>23,
     <1>24, <1>25, <1>26, <1>27, <1>28, <1>29, <1>30
  DEF Next, CommitStep, FlushStep, CkptStep, Open

\* Records reach a file in LSN order and above its base_lsn, and no LSN in use is
\* handed out again: not after a rotation, a failed append, a rollback, a crash, a
\* power loss or an open onto a snapshot that is ahead of the log.
THEOREM LsnsGrow ==
  ASSUME "entry_unsynced" \notin Faults
  PROVE  Spec => AppendsGrow
<1>1. BaseInv /\ [Next]_vars =>
        [\A r \in written' \ written : r.kind # "torn" =>
           /\ base[r.seg] <= r.lsn
           /\ \A q \in written : q.lsn < r.lsn]_vars
  <2> SUFFICES ASSUME BaseInv, Next, NEW r \in written' \ written, r.kind # "torn"
               PROVE  /\ base[r.seg] <= r.lsn
                      /\ \A q \in written : q.lsn < r.lsn
    OBVIOUS
  <2>1. r \in pending
    BY OnlyPending DEF BaseInv, ReadInv
  <2> QED
    BY <2>1 DEF BaseInv, Inv, SyncInv, LogInv, Files, Order, Starts
<1> QED
  BY <1>1, BaseInvariant, PTL DEF Spec, AppendsGrow

\* Until a segment created at open has its header, the graph replay built waits.
Recovered == up = "creating" => fsynced \subseteq live

\* The graph a replay builds has every transaction reported durable.
LEMMA ReplayKeeps ==
  ASSUME BaseInv
  PROVE  fsynced \subseteq Replayed
<1>i. TypeOK /\ SnapCovers /\ Kept /\ synced \subseteq written
  BY DEF BaseInv, Inv, SyncInv, LogInv, TypeOK, TypeRecs
<1> SUFFICES ASSUME NEW t \in fsynced, t \notin snapTx PROVE t \in Replayed
  BY DEF Replayed
<1>1. PICK c \in Commits(synced) :
        c.tx = t /\ \A r \in written : r.kind = "torn" => c.lsn < r.lsn
  BY <1>i DEF Kept
<1>2. c \in written /\ c.kind = "commit" /\ c \in Sound
  BY <1>i, <1>1 DEF Commits, Sound
<1>3. c \in Readable
  BY <1>i, <1>2, SoundIsReadable
<1>4. ~(c.lsn <= fence)
  BY <1>i, <1>1, <1>2 DEF SnapCovers, Commits
<1>5. c.lsn \in Nat /\ fence \in Nat
  BY <1>i, <1>2, Numbers
<1> QED
  BY <1>1, <1>2, <1>3, <1>4, <1>5 DEF Replayed, Commits


\* An open that succeeds has every transaction reported durable in its graph.
LEMMA NextRecovered ==
  ASSUME BaseInv, Recovered, Next
  PROVE  Recovered' /\ (up # "up" /\ up' = "up" => fsynced \subseteq live')
<1> USE DEF disk, files, snap, mem, latches, commit, flush, ckpt, told
<1>i. TypeOK /\ Shape /\ SyncInv /\ Frames
  BY DEF BaseInv, ReadInv, Inv, SyncInv, LogInv
<1>r. fsynced \subseteq Replayed
  BY ReplayKeeps
<1>1. ASSUME NEW n \in 1 .. MaxBatches, CommitLock(n) PROVE Recovered' /\ (up # "up" /\ up' = "up" => fsynced \subseteq live')
  <2>1. up = "up" /\ up' = "up"
    BY <1>i, <1>1 DEF CommitLock, WriterFree, Shape
  <2> QED
    BY <2>1 DEF Recovered
<1>2. CASE RotateFlush
  <2>1. up = "up" /\ up' = "up"
    BY <1>i, <1>2 DEF RotateFlush, flush_buffer, Shape
  <2> QED
    BY <2>1 DEF Recovered
<1>3. CASE RotateCreate
  <2>1. up = "up" /\ up' = "up"
    BY <1>i, <1>3 DEF RotateCreate, Shape
  <2> QED
    BY <2>1 DEF Recovered
<1>4. CASE RotateHeader
  <2>1. up = "up" /\ up' = "up"
    BY <1>i, <1>4 DEF RotateHeader, WithEntry, Shape
  <2> QED
    BY <2>1 DEF Recovered
<1>5. CASE RotateSyncDir
  <2>1. up = "up" /\ up' = "up"
    BY <1>i, <1>5 DEF RotateSyncDir, DropNew, Shape
  <2> QED
    BY <2>1 DEF Recovered
<1>6. CASE RotateSeal
  <2>1. up = "up" /\ up' = "up"
    BY <1>i, <1>6 DEF RotateSeal, DropNew, Shape
  <2> QED
    BY <2>1 DEF Recovered
<1>7. CASE AppendBegin
  <2>1. up = "up" /\ up' = "up"
    BY <1>i, <1>7 DEF AppendBegin, Shape
  <2> QED
    BY <2>1 DEF Recovered
<1>8. CASE AppendBatch
  <2>1. up = "up" /\ up' = "up"
    BY <1>i, <1>8 DEF AppendBatch, RollbackTx, Shape
  <2> QED
    BY <2>1 DEF Recovered
<1>9. CASE AppendCommit
  <2>1. up = "up" /\ up' = "up"
    BY <1>i, <1>9 DEF AppendCommit, RollbackTx, Shape
  <2> QED
    BY <2>1 DEF Recovered
<1>10. CASE CommitFlush
  <2>1. up = "up" /\ up' = "up"
    BY <1>i, <1>10 DEF CommitFlush, flush_buffer, Shape
  <2> QED
    BY <2>1 DEF Recovered
<1>11. CASE CommitPoison
  <2>1. up = "up" /\ up' = "up"
    BY <1>i, <1>11 DEF CommitPoison, Shape
  <2> QED
    BY <2>1 DEF Recovered
<1>12. ASSUME NEW s \in Flushers, FlushCall(s) PROVE Recovered' /\ (up # "up" /\ up' = "up" => fsynced \subseteq live')
  <2>1. up = "up" /\ up' = "up"
    BY <1>i, <1>12 DEF FlushCall, Shape
  <2> QED
    BY <2>1 DEF Recovered
<1>13. ASSUME NEW s \in Flushers, FlushWrite(s) PROVE Recovered' /\ (up # "up" /\ up' = "up" => fsynced \subseteq live')
  <2>1. up = "up" /\ up' = "up"
    BY <1>i, <1>13 DEF FlushWrite, flush_buffer, FlushDone, FlushFailed, Shape
  <2> QED
    BY <2>1 DEF Recovered
<1>14. ASSUME NEW s \in Flushers, FlushSync(s) PROVE Recovered' /\ (up # "up" /\ up' = "up" => fsynced \subseteq live')
  <2>1. up = "up" /\ up' = "up"
    BY <1>i, <1>14 DEF FlushSync, FlushFailed, Shape
  <2> QED
    BY <2>1 DEF Recovered
<1>15. ASSUME NEW s \in Flushers, FlushAdvance(s) PROVE Recovered' /\ (up # "up" /\ up' = "up" => fsynced \subseteq live')
  <2>1. up = "up" /\ up' = "up"
    BY <1>i, <1>15 DEF FlushAdvance, FlushDone, Shape
  <2> QED
    BY <2>1 DEF Recovered
<1>16. CASE CkptStart
  <2>1. up = "up" /\ up' = "up"
    BY <1>i, <1>16 DEF CkptStart, Shape
  <2> QED
    BY <2>1 DEF Recovered
<1>17. CASE CkptTake
  <2>1. up = "up" /\ up' = "up"
    BY <1>i, <1>17 DEF CkptTake, Shape
  <2> QED
    BY <2>1 DEF Recovered
<1>18. CASE CkptInstall
  <2>1. up = "up" /\ up' = "up"
    BY <1>i, <1>18 DEF CkptInstall, Shape
  <2> QED
    BY <2>1 DEF Recovered
<1>19. CASE CkptMark
  <2>1. up = "up" /\ up' = "up"
    BY <1>i, <1>19 DEF CkptMark, Shape
  <2> QED
    BY <2>1 DEF Recovered
<1>20. CASE CkptTruncate
  <2>1. up = "up" /\ up' = "up"
    BY <1>i, <1>20, TruncateFacts
  <2> QED
    BY <2>1 DEF Recovered
<1>21. CASE CkptAbandon
  <2>1. up = "up" /\ up' = "up"
    BY <1>i, <1>21 DEF CkptAbandon, Shape
  <2> QED
    BY <2>1 DEF Recovered
<1>22. CASE Crash
  <2>1. up' = "down"
    BY <1>i, <1>22 DEF Crash, Stopped, Shape
  <2> QED
    BY <2>1 DEF Recovered
<1>23. CASE PowerLoss
  <2>1. up' = "down"
    BY <1>i, <1>23, PowerLossFacts
  <2> QED
    BY <2>1 DEF Recovered
<1>24. CASE Drop
  <2>1. up' = "down"
    BY <1>i, <1>24 DEF Drop, Stopped, Shape
  <2> QED
    BY <2>1 DEF Recovered
<1>25. CASE DiscardUnborn
  <2>1. up = "down" /\ up' = "down"
    BY <1>i, <1>25 DEF DiscardUnborn, Shape
  <2> QED
    BY <2>1 DEF Recovered
<1>26. CASE OpenFresh
  <2>1. up = "down" /\ up' = "creating" /\ UNCHANGED fsynced /\ live' = Replayed
    BY <1>26 DEF OpenFresh, Opened
  <2> QED
    BY <1>r, <2>1 DEF Recovered
<1>27. CASE OpenExisting
  <2>1. UNCHANGED fsynced /\ live' = Replayed
    BY <1>i, <1>27, OpenFacts
  <2> QED
    BY <1>r, <2>1 DEF Recovered
<1>28. CASE OpenCreate
  <2>1. up = "creating" /\ up' = "up" /\ UNCHANGED <<live, fsynced>>
    BY <1>28 DEF OpenCreate
  <2> QED
    BY <2>1 DEF Recovered
<1>29. CASE OpenFail
  <2>1. up = "down" /\ up' \in {"corrupt", "failed"}
    BY <1>i, <1>29 DEF OpenFail, Shape
  <2> QED
    BY <2>1 DEF Recovered
<1>30. CASE OpenCreateFail
  <2>1. up' = "down"
    BY <1>30 DEF OpenCreateFail, Stopped
  <2> QED
    BY <2>1 DEF Recovered
<1> QED
  BY <1>1, <1>2, <1>3, <1>4, <1>5, <1>6, <1>7, <1>8, <1>9, <1>10, <1>11, <1>12,
     <1>13, <1>14, <1>15, <1>16, <1>17, <1>18, <1>19, <1>20, <1>21, <1>22, <1>23,
     <1>24, <1>25, <1>26, <1>27, <1>28, <1>29, <1>30
  DEF Next, CommitStep, FlushStep, CkptStep, Open

\* Every open that succeeds replays every transaction an fsync covered: none is
\* lost to a torn tail cut, to the snapshot's fence or to a dropped segment.
THEOREM FsyncedRecoveredHolds ==
  ASSUME "entry_unsynced" \notin Faults
  PROVE  Spec => FsyncedRecovered
<1>1. Init => Recovered
  BY DEF Init, Recovered
<1>2. BaseInv /\ Recovered /\ [Next]_vars =>
        /\ Recovered'
        /\ [up # "up" /\ up' = "up" => fsynced \subseteq live']_vars
  <2> SUFFICES ASSUME BaseInv, Recovered, [Next]_vars
               PROVE  /\ Recovered'
                      /\ [up # "up" /\ up' = "up" => fsynced \subseteq live']_vars
    OBVIOUS
  <2>1. CASE Next
    BY <2>1, NextRecovered
  <2>2. CASE UNCHANGED vars
    BY <2>2 DEF Recovered, vars, told
  <2> QED
    BY <2>1, <2>2
<1> QED
  BY <1>1, <1>2, BaseInvariant, PTL DEF Spec, FsyncedRecovered

-----------------------------------------------------------------------------
(* What the next open makes of the files.                                  *)

\* The invariant that says so, for every behaviour.
LEMMA OpenInvariant ==
  ASSUME "entry_unsynced" \notin Faults
  PROVE  Spec => []OpenInv
<1>1. Init => OpenInv
  <2> SUFFICES ASSUME Init PROVE OpenInv
    OBVIOUS
  <2>1. Chain /\ OneMarker /\ TornEnd
    BY DEF Init, Chain, OneMarker, TornEnd, Unsynced, Rotating
  <2> QED
    BY <2>1, InitBase DEF OpenInv
<1>2. OpenInv /\ [Next]_vars => OpenInv'
  <2> SUFFICES ASSUME OpenInv, [Next]_vars PROVE OpenInv'
    OBVIOUS
  <2>1. BaseInv' /\ SyncInv' /\ Frames'
    BY NextBase DEF OpenInv, BaseInv, ReadInv
  <2>2. CASE Next
    <3>1. Chain' /\ OneMarker'
      BY <2>2, NextChain, NextOneMarker DEF OpenInv, BaseInv, ReadInv
    <3>2. TornEnd'
      BY <2>1, <2>2, <3>1, NextTornEnd
    <3> QED
      BY <2>1, <3>1, <3>2 DEF OpenInv
  <2>3. CASE UNCHANGED vars
    <3> USE <2>3 DEF vars, disk, files, snap, mem, latches, commit, flush, ckpt, told
    <3>1. Chain'
      BY DEF OpenInv, Chain, Clash, Sound
    <3>2. TornEnd'
      BY DEF OpenInv, TornEnd, Clash, Unsynced
    <3>3. OneMarker'
      BY DEF OpenInv, OneMarker
    <3> QED
      BY <2>1, <3>1, <3>2, <3>3 DEF OpenInv
  <2> QED
    BY <2>2, <2>3
<1> QED
  BY <1>1, <1>2, PTL DEF Spec

\* replay_segments finds nothing to refuse: no gap, no base out of order, no
\* batch or commit without its begin, no marker out of order, unless a marker
\* took the LSN at which the file of a failed rotation begins.
LEMMA ReplaySucceeds ==
  ASSUME OpenInv, up = "down", dir # {}, Greatest(dir) \in born,
         \A m \in Overtaken : m.kind # "marker"
  PROVE  ReplayOk
<1>i. /\ TypeOK /\ Files /\ Order /\ Chain /\ Frames /\ Fences /\ Whole /\ Markers /\ Starts
  BY DEF OpenInv, BaseInv, ReadInv, Inv, SyncInv, LogInv
<1>1. Readable = Sound /\ Sound \subseteq written /\ pending = {}
  BY <1>i, SoundIsReadable DEF Files
<1>2. \A s \in dir : s \in Nat
  BY <1>i, Numbers
<1>3. Greatest(dir) \in dir /\ \A s \in dir : s <= Greatest(dir)
  BY <1>i, NewestType
<1>4. dir \subseteq born
  <2> SUFFICES ASSUME NEW s \in dir, s \notin born PROVE FALSE
    OBVIOUS
  <2>1. Greatest(dir) <= s /\ s <= Greatest(dir)
    BY <1>i, <1>3 DEF Files
  <2>2. s = Greatest(dir)
    BY <1>2, <1>3, <2>1
  <2> QED
    BY <2>2
<1>5. base[Least(dir)] - 1 <= fence
  <2>1. Least(dir) \in dir /\ \A s \in dir : Least(dir) <= s
    BY <1>2, LeastType
  <2> QED
    BY <1>i, <1>4, <2>1 DEF Chain
<1>6. \A s, t \in dir : s < t =>
        base[s] < base[t] /\ \A r \in Readable : r.seg = s => r.lsn < base[t]
  <2> SUFFICES ASSUME NEW s \in dir, NEW t \in dir, s < t
               PROVE  base[s] < base[t] /\ \A r \in Readable : r.seg = s => r.lsn < base[t]
    OBVIOUS
  <2>1. base[s] < base[t]
    BY <1>i, <1>4 DEF Chain
  <2>2. ASSUME NEW r \in Readable, r.seg = s, ~(r.lsn < base[t]) PROVE FALSE
    <3>1. r \in written /\ r.kind # "torn" /\ t \in born
      BY <1>1, <1>4, <2>2 DEF Sound
    <3>2. Clash(r, t)
      BY <1>i, <2>2, <3>1 DEF Chain
    <3>3. r \in Overtaken /\ r.kind = "marker"
      BY <2>2, <3>1, <3>2 DEF Clash, Overtaken
    <3> QED
      BY <3>3
  <2> QED
    BY <2>1, <2>2
<1>7. \A r \in Readable : base[r.seg] <= r.lsn
  BY <1>i, <1>1 DEF Starts
<1>8. \A r, q \in Readable : r.lsn = q.lsn => r = q
  BY <1>i, <1>1 DEF Frames
<1>9. ASSUME NEW r \in Readable, r.kind \in {"batch", "commit"}, r.lsn > fence
      PROVE  \E b \in Readable : b.kind = "begin" /\ b.lsn = r.ref /\ b.lsn > fence
  <2>1. r \in Applied
    BY <1>1, <1>9 DEF Applied
  <2>2. r.ref <= r.lsn /\ Run(Sound, r.ref, r.lsn, r.tx, r.seg)
    BY <1>i, <1>1, <2>1 DEF Whole
  <2>3. r.ref \in Nat /\ r.lsn \in Nat
    BY <1>i, <1>1 DEF TypeOK, TypeRecs, Record, Lsns
  <2>4. \E b \in Sound : b.lsn = r.ref /\ b.kind = "begin"
    BY <2>2, <2>3 DEF Run
  <2>5. r.ref > fence
    BY <1>i, <1>1, <1>9 DEF Fences, SplitsNone
  <2> QED
    BY <1>1, <2>4, <2>5
<1>10. ASSUME NEW m \in Readable, m.kind = "marker"
       PROVE  /\ m.ref <= m.lsn
              /\ \A n \in Readable : n.kind = "marker" /\ n.lsn < m.lsn => n.ref <= m.ref
  BY <1>i, <1>1, <1>10 DEF Markers
<1>11. \A s, t \in dir : \A u \in s .. t : u \in dir
  BY <1>i DEF Chain
<1> QED
  BY <1>5, <1>6, <1>7, <1>8, <1>9, <1>10, <1>11 DEF ReplayOk

\* Only a failed open ends in "corrupt" or "failed".
LEMMA UpMoves ==
  ASSUME Next, ~OpenFail
  PROVE  up' = up \/ up' \in {"up", "creating", "down"}
<1> USE DEF disk, files, snap, mem, latches, commit, flush, ckpt, told
<1>1. CASE CommitStep
  BY <1>1 DEF CommitStep, RotateFlush, RotateCreate, RotateHeader, RotateSyncDir,
     RotateSeal, AppendBegin, AppendBatch, AppendCommit, CommitFlush, CommitPoison
<1>2. ASSUME NEW s \in Flushers, FlushCall(s) \/ FlushStep(s) PROVE up' = up
  BY <1>2 DEF FlushCall, FlushStep, FlushWrite, FlushSync, FlushAdvance
<1>3. CASE CkptStart \/ CkptStep
  BY <1>3 DEF CkptStart, CkptStep, CkptTake, CkptInstall, CkptMark, CkptTruncate,
     CkptAbandon
<1>4. ASSUME NEW n \in 1 .. MaxBatches, CommitLock(n) PROVE up' = up
  BY <1>4 DEF CommitLock
<1>5. CASE Open
  BY <1>5 DEF Open, DiscardUnborn, OpenFresh, OpenExisting, OpenCreate, OpenCreateFail,
     Stopped
<1>6. CASE Crash \/ PowerLoss \/ Drop
  BY <1>6 DEF Crash, Drop, PowerLoss, Stopped
<1> QED
  BY <1>1, <1>2, <1>3, <1>4, <1>5, <1>6 DEF Next

\* A log that could not be opened stays as it is until storage changes it.
LEMMA Stuck ==
  ASSUME LogInv, Next, up \in {"corrupt", "failed"}, up' = up
  PROVE  UNCHANGED <<written, born, base>>
<1> USE DEF disk, files, snap, mem, latches, commit, flush, ckpt, told
<1>i. cpc = "idle" /\ kpc = "idle" /\ \A s \in Flushers : fpc[s] = "idle"
  BY DEF LogInv, Shape
<1>1. ~CommitStep
  BY <1>i DEF CommitStep, RotateFlush, RotateCreate, RotateHeader, RotateSyncDir,
     RotateSeal, AppendBegin, AppendBatch, AppendCommit, CommitFlush, CommitPoison
<1>2. ASSUME NEW s \in Flushers, FlushCall(s) \/ FlushStep(s) PROVE FALSE
  BY <1>i, <1>2 DEF FlushCall, FlushStep, FlushWrite, FlushSync, FlushAdvance
<1>3. ~CkptStart /\ ~CkptStep
  BY <1>i DEF CkptStart, CkptStep, CkptTake, CkptInstall, CkptMark, CkptTruncate,
     CkptAbandon
<1>4. ASSUME NEW n \in 1 .. MaxBatches, CommitLock(n) PROVE FALSE
  BY <1>4 DEF CommitLock
<1>5. CASE Open
  BY <1>5 DEF Open, DiscardUnborn, OpenFresh, OpenExisting, OpenFail, OpenCreate,
     OpenCreateFail, Stopped
<1>6. CASE Crash \/ PowerLoss \/ Drop
  BY <1>6 DEF Crash, Drop, PowerLoss, Stopped
<1> QED
  BY <1>1, <1>2, <1>3, <1>4, <1>5, <1>6 DEF Next

\* Whatever a crash, a power loss or a failed call leaves, with pages written back
\* in any order, the next open refuses the log with a gap or malformed records only
\* for a checkpoint's marker that took the LSN at which the segment of a failed
\* rotation begins.
THEOREM RefusedForMarkerHolds ==
  ASSUME "entry_unsynced" \notin Faults
  PROVE  Spec => []RefusedForMarker
<1>1. Init => RefusedForMarker
  BY DEF Init, RefusedForMarker
<1>2. OpenInv /\ RefusedForMarker /\ [Next]_vars => RefusedForMarker'
  <2> SUFFICES ASSUME OpenInv, RefusedForMarker, [Next]_vars, up' = "failed"
               PROVE  \E m \in Overtaken' : m.kind = "marker"
    BY DEF RefusedForMarker
  <2>1. CASE OpenFail
    <3>1. UNCHANGED <<written, born, base>> /\ ~ReplayOk /\ up = "down" /\ dir # {}
          /\ Greatest(dir) \in born
      BY <2>1 DEF OpenFail, disk, files
    <3>2. \E m \in Overtaken : m.kind = "marker"
      BY <3>1, ReplaySucceeds
    <3> QED
      BY <3>1, <3>2 DEF Overtaken
  <2>2. CASE ~OpenFail /\ Next
    <3>1. up = "failed" /\ up' = up
      BY <2>2, UpMoves
    <3>2. UNCHANGED <<written, born, base>>
      BY <2>2, <3>1, Stuck DEF OpenInv, BaseInv, Inv, SyncInv
    <3> QED
      BY <3>1, <3>2 DEF RefusedForMarker, Overtaken
  <2>3. CASE UNCHANGED vars
    BY <2>3 DEF RefusedForMarker, Overtaken, vars, disk, files, mem
  <2> QED
    BY <2>1, <2>2, <2>3
<1> QED
  BY <1>1, <1>2, OpenInvariant, PTL DEF Spec

\* Pages that reach the disk in order leave a torn tail, which open_existing cuts:
\* the newest segment, not sealed, nothing valid after the bad frame; unless the
\* bad frame is the marker before the file of a failed rotation.
LEMMA TailIsTorn ==
  ASSUME OpenInv, "reordered_pages" \notin Faults, dir # {}, Greatest(dir) \in born,
         TornRecs # {}, \A m \in Overtaken : m.kind # "torn"
  PROVE  TornTail
<1>i. TypeOK /\ Shape /\ Files /\ TornEnd
  BY DEF OpenInv, BaseInv, Inv, SyncInv, LogInv
<1>1. Greatest(dir) \in dir /\ \A s \in dir : s <= Greatest(dir)
  BY <1>i, NewestType
<1>2. \A r \in written : r.seg \in born /\ r.seg \in Nat /\ r.lsn \in Nat /\ r.seg \in dir
  BY <1>i, Numbers DEF Files, TypeOK, TypeDisk
<1>3. Greatest(dir) \in Nat
  BY <1>i, <1>1, Numbers
<1>4. ASSUME NEW r \in TornRecs PROVE r.seg = Greatest(dir) /\ r.seg \notin sealed
  <2>1. /\ r \in written /\ r.kind = "torn" /\ r.seg \notin sealed
        /\ \A s \in born : s <= r.seg \/ Clash(r, s)
    BY <1>i, <1>4 DEF TornEnd, TornRecs
  <2>2. ASSUME ~(Greatest(dir) <= r.seg) PROVE FALSE
    <3>1. Clash(r, Greatest(dir)) /\ r.seg < Greatest(dir)
      BY <1>2, <1>3, <2>1, <2>2
    <3>2. r \in Overtaken
      BY <2>1, <3>1 DEF Clash, Overtaken
    <3> QED
      BY <2>1, <3>2
  <2> QED
    BY <1>1, <1>2, <1>3, <2>1, <2>2
<1>5. Readable = Good
  <2>1. \A q \in TornRecs, r \in Good : r.lsn < q.lsn
    BY <1>i DEF TornEnd, TornRecs, Good
  <2>2. Sound = Good
    BY <2>1 DEF Sound, Good, TornRecs
  <2> QED
    BY <1>i, <2>2, SoundIsReadable
<1> QED
  BY <1>4, <1>5 DEF TornTail

\* When pages reach the disk in order, an interrupted append is seen as a torn
\* tail: replay_segments reports corruption only for such a marker.
THEOREM CorruptForMarkerHolds ==
  ASSUME "entry_unsynced" \notin Faults
  PROVE  Spec => []CorruptForMarker
<1>1. Init => CorruptForMarker
  BY DEF Init, CorruptForMarker
<1>2. OpenInv /\ CorruptForMarker /\ [Next]_vars => CorruptForMarker'
  <2> SUFFICES ASSUME OpenInv, CorruptForMarker, [Next]_vars, up' = "corrupt",
                      "reordered_pages" \notin Faults
               PROVE  \E m \in Overtaken' : m.kind = "torn"
    BY DEF CorruptForMarker
  <2>1. CASE OpenFail
    <3>1. UNCHANGED <<written, born, base>> /\ TornRecs # {} /\ ~TornTail /\ dir # {}
          /\ Greatest(dir) \in born
      BY <2>1 DEF OpenFail, disk, files
    <3>2. \E m \in Overtaken : m.kind = "torn"
      BY <3>1, TailIsTorn
    <3> QED
      BY <3>1, <3>2 DEF Overtaken
  <2>2. CASE ~OpenFail /\ Next
    <3>1. up = "corrupt" /\ up' = up
      BY <2>2, UpMoves
    <3>2. UNCHANGED <<written, born, base>>
      BY <2>2, <3>1, Stuck DEF OpenInv, BaseInv, Inv, SyncInv
    <3> QED
      BY <3>1, <3>2 DEF CorruptForMarker, Overtaken
  <2>3. CASE UNCHANGED vars
    BY <2>3 DEF CorruptForMarker, Overtaken, vars, disk, files, mem
  <2> QED
    BY <2>1, <2>2, <2>3
<1> QED
  BY <1>1, <1>2, OpenInvariant, PTL DEF Spec

-----------------------------------------------------------------------------
(* The log is a DurableLog: it grows by whole transactions in the order of *)
(* their commits and loses only a suffix that no fsync covered.            *)

\* The abstract log, read off the records in front of any bad frame.
LogIs ==
  \A t : t \in Log <=> t \in snapTx \/ \E c \in Commits(Sound \cup pending) : c.tx = t

\* It is what the refinement mapping computes.
LEMMA LogHolds == TypeOK => LogIs
<1> SUFFICES ASSUME TypeOK PROVE LogIs
  OBVIOUS
<1>1. Sound = Readable
  BY SoundIsReadable
<1> QED
  BY <1>1 DEF Log, LogIs

\* What was reported durable is in it.
LEMMA DurableInLog == BaseInv => fsynced \subseteq Log
<1> SUFFICES ASSUME BaseInv PROVE fsynced \subseteq Log
  OBVIOUS
<1>1. fsynced \subseteq Replayed
  BY ReplayKeeps
<1>2. Replayed \subseteq Log
  BY DEF Replayed, Log, Commits
<1> QED
  BY <1>1, <1>2

\* While the WAL is open there are no bad frames.
LEMMA OpenIsSound == ReadInv => (up = "up" => Sound = written)
  BY SoundIsAll DEF ReadInv, Frames, Running

\* The same three facts of the state after a step.
LEMMA AfterStep ==
  /\ TypeOK' => LogIs'
  /\ BaseInv' => (fsynced \subseteq Log)'
  /\ ReadInv' => (up = "up" => Sound = written)'
  BY LogHolds, DurableInLog, OpenIsSound, PTL

\* Losing buffered records, or the files' records above some of them, leaves a
\* prefix of the transactions.
LEMMA LosesSuffix ==
  ASSUME BaseInv, TypeOK', UNCHANGED <<snapTx, fsynced>>, fsynced \subseteq Log',
         \A c \in Commits(Sound' \cup pending') : c \in Commits(Sound \cup pending),
         \A d \in Commits(Sound' \cup pending'), c \in Commits(Sound \cup pending) :
           c.lsn < d.lsn => c \in Commits(Sound' \cup pending')
  PROVE  DL!Next
<1>i. TypeOK /\ Frames /\ Numbered /\ Sound \subseteq written
  BY SoundIsReadable DEF BaseInv, ReadInv, Inv, SyncInv, LogInv
<1>n. \A c \in Commits(Sound \cup pending) :
        /\ c \in Commits(written \cup pending) /\ c \in written \cup pending
        /\ c.lsn \in Nat /\ c.tx \in Nat
  BY <1>i, Numbers DEF Commits, TypeOK, TypeRecs, Record, Txs
<1>s. \A t \in snapTx : t \in Nat
  BY <1>i DEF TypeOK, TypeSnap, Txs
<1>1. \A t : t \in Log <=> t \in snapTx \/ \E c \in Commits(Sound \cup pending) : c.tx = t
  BY <1>i, LogHolds DEF LogIs
<1>2. \A t : t \in Log' <=> t \in snapTx \/ \E c \in Commits(Sound' \cup pending') : c.tx = t
  BY AfterStep DEF LogIs
<1>3. Log' \subseteq Log
  BY <1>1, <1>2
<1>4. ASSUME NEW t \in Log', NEW u \in Log, u < t PROVE u \in Log'
  <2> SUFFICES ASSUME u \notin snapTx PROVE u \in Log'
    BY <1>2
  <2>1. PICK c \in Commits(Sound \cup pending) : c.tx = u
    BY <1>1
  <2>2. \A x \in snapTx : x < u
    BY <1>i, <1>n, <2>1 DEF Numbered
  <2>a. c.tx \in Nat /\ c.lsn \in Nat
    BY <1>n, <2>1
  <2>3. t \notin snapTx
    BY <1>s, <1>4, <2>1, <2>2, <2>a
  <2>4. PICK d \in Commits(Sound' \cup pending') : d.tx = t
    BY <1>2, <2>3
  <2>5. d \in Commits(Sound \cup pending)
    BY <2>4
  <2>b. /\ d.tx \in Nat /\ d.lsn \in Nat /\ d \in written \cup pending
        /\ c \in written \cup pending
        /\ c \in Commits(written \cup pending) /\ d \in Commits(written \cup pending)
    BY <1>n, <2>1, <2>5
  <2>6. ~(d.lsn < c.lsn)
    <3>1. d.lsn < c.lsn => d.tx < c.tx
      BY <1>i, <2>b DEF Numbered
    <3> QED
      BY <1>4, <2>1, <2>4, <2>a, <2>b, <3>1
  <2>7. d.lsn # c.lsn
    <3>1. d.lsn = c.lsn => d = c
      BY <1>i, <2>b DEF Frames
    <3> QED
      BY <1>4, <2>1, <2>4, <2>a, <3>1
  <2>8. c.lsn < d.lsn
    BY <2>6, <2>7, <2>a, <2>b
  <2> QED
    BY <1>2, <2>1, <2>4, <2>8
<1> QED
  BY <1>3, <1>4 DEF DL!Next, DL!Lose

\* Every step of the log is a step of a DurableLog, or changes nothing it can
\* see.
LEMMA NextDurableLog ==
  ASSUME BaseInv, Next, "entry_unsynced" \notin Faults
  PROVE  DL!Next \/ UNCHANGED <<Log, fsynced>>
<1> USE DEF disk, files, snap, mem, latches, commit, flush, ckpt, told, Fails,
            Running
<1>i. /\ TypeOK /\ Shape /\ Files /\ Order /\ SnapCovers /\ LiveCovers /\ SyncInv
      /\ Kept /\ Frames /\ Numbered /\ synced \subseteq written
  BY DEF BaseInv, ReadInv, Inv, SyncInv, LogInv, TypeOK, TypeRecs
<1>b. BaseInv' /\ ReadInv' /\ TypeOK'
  BY NextBase DEF BaseInv, ReadInv, Inv, SyncInv, LogInv
<1>l. \A t : t \in Log <=> t \in snapTx \/ \E c \in Commits(Sound \cup pending) : c.tx = t
  BY <1>i, LogHolds DEF LogIs
<1>m. \A t : t \in Log' <=> t \in snapTx' \/ \E c \in Commits(Sound' \cup pending') : c.tx = t
  BY <1>b, AfterStep DEF LogIs
<1>d. fsynced' \subseteq Log'
  BY <1>b, AfterStep
<1>s. up = "up" => Sound = written
  BY OpenIsSound DEF BaseInv
<1>t. up' = "up" => Sound' = written'
  BY <1>b, AfterStep
\* A step that leaves the commits of the log alone is a stutter.
<1>u. ASSUME UNCHANGED fsynced,
             \A t : (t \in snapTx' \/ \E c \in Commits(Sound' \cup pending') : c.tx = t)
               <=> (t \in snapTx \/ \E c \in Commits(Sound \cup pending) : c.tx = t)
      PROVE  UNCHANGED <<Log, fsynced>>
  BY <1>l, <1>m, <1>u
<1>1. ASSUME NEW n \in 1 .. MaxBatches, CommitLock(n) PROVE DL!Next \/ UNCHANGED <<Log, fsynced>>
  <2>1. UNCHANGED <<written, pending, snapTx, fsynced>>
    BY <1>1 DEF CommitLock
  <2> QED
    BY <1>u, <2>1 DEF Sound, Commits
<1>2. CASE RotateFlush
  <2>1. /\ UNCHANGED <<snapTx, fsynced, up>> /\ up = "up"
        /\ written' \cup pending' = written \cup pending
    BY <1>i, <1>2 DEF RotateFlush, flush_buffer, Shape
  <2> QED
    BY <1>s, <1>t, <1>u, <2>1
<1>3. CASE RotateCreate
  <2>1. UNCHANGED <<written, pending, snapTx, fsynced>>
    BY <1>3 DEF RotateCreate
  <2> QED
    BY <1>u, <2>1 DEF Sound, Commits
<1>4. CASE RotateHeader
  <2>1. UNCHANGED <<written, pending, snapTx, fsynced>>
    BY <1>4 DEF RotateHeader
  <2> QED
    BY <1>u, <2>1 DEF Sound, Commits
<1>5. CASE RotateSyncDir
  <2>1. UNCHANGED <<written, pending, snapTx, fsynced>>
    BY <1>5 DEF RotateSyncDir
  <2> QED
    BY <1>u, <2>1 DEF Sound, Commits
<1>6. CASE RotateSeal
  <2>1. UNCHANGED <<written, pending, snapTx, fsynced>>
    BY <1>6 DEF RotateSeal
  <2> QED
    BY <1>u, <2>1 DEF Sound, Commits
<1>7. CASE AppendBegin
  <2>1. UNCHANGED <<written, snapTx, fsynced, up>> /\ up = "up"
    BY <1>i, <1>7 DEF AppendBegin, Shape
  <2>2. Commits(pending') = Commits(pending)
    BY <1>7, RecFields DEF AppendBegin, Commits
  <2> QED
    BY <1>s, <1>t, <1>u, <2>1, <2>2 DEF Commits
<1>8. CASE AppendBatch
  <2>1. /\ UNCHANGED <<snapTx, fsynced, up>> /\ up = "up" /\ cpc = "batches"
        /\ written \subseteq written' /\ written' \subseteq written \cup pending
    BY <1>i, <1>8 DEF AppendBatch, RollbackTx, Shape
  <2>2. Commits(pending) = {}
    BY <1>i, <2>1 DEF Numbered
  <2>3. Commits(pending') = {}
    BY <2>2, <1>8, RecFields DEF AppendBatch, RollbackTx, Commits
  <2>4. Commits(written') = Commits(written)
    BY <2>1, <2>2 DEF Commits
  <2>5. Commits(Sound' \cup pending') = Commits(Sound \cup pending)
    BY <1>s, <1>t, <2>1, <2>2, <2>3, <2>4 DEF Commits
  <2> QED
    BY <1>u, <2>1, <2>5
<1>9. CASE AppendCommit
  <2>1. UNCHANGED <<written, snapTx, fsynced, up>> /\ cpc = "batches"
    BY <1>9 DEF AppendCommit
  <2>2. up = "up" /\ Commits(pending) = {}
    BY <1>i, <2>1 DEF Shape, Numbered
  <2>3. CASE cpc' = "failing"
    <3>1. Commits(pending') = {}
      BY <2>2, <2>3, <1>9 DEF AppendCommit, RollbackTx, Commits
    <3>2. Commits(Sound' \cup pending') = Commits(Sound \cup pending)
      BY <1>s, <1>t, <2>1, <2>2, <3>1 DEF Commits
    <3> QED
      BY <1>u, <2>1, <3>2
  <2>4. CASE cpc' # "failing"
    <3> DEFINE m == Rec(next_lsn, "commit", cfirst)
    <3>1. pending' = pending \cup {m}
      BY <2>4, <1>9 DEF AppendCommit, RollbackTx
    <3>2. m.kind = "commit" /\ m.tx = ctx
      BY DEF Rec
    <3> HIDE DEF m
    <3>3. Commits(Sound' \cup pending') = Commits(Sound \cup pending) \cup {m}
      BY <1>s, <1>t, <2>1, <2>2, <3>1, <3>2 DEF Commits
    <3>4. Log' = Log \cup {ctx}
      <4>1. \A t : t \in Log' <=> t \in Log \/ t = m.tx
        BY <1>l, <1>m, <2>1, <3>3
      <4> QED
        BY <3>2, <4>1
    <3>5. /\ ctx = started /\ ctx > 0 /\ ~InLog(ctx)
          /\ \A t \in Txs : InLog(t) => t <= started
      BY <1>i, <2>1 DEF Numbered
    <3>6. \A t \in Log : InLog(t) /\ t \in Txs
      <4>1. \A c \in Commits(written \cup pending) : c.tx \in Txs
        BY <1>i DEF TypeOK, TypeRecs, Record, Commits
      <4> QED
        BY <1>i, <1>l, <1>s, <2>2, <4>1 DEF InLog, TypeOK, TypeSnap
    <3>7. ctx \in 1 .. MaxTx /\ \A t \in Txs : t \in Nat
      BY <1>i, <3>5, BoundsAssumption DEF TypeOK, TypeCommit, Txs
    <3>8. \A t \in Log : t < ctx
      BY <3>5, <3>6, <3>7
    <3> QED
      BY <2>1, <3>4, <3>7, <3>8 DEF DL!Next, DL!Commit
  <2> QED
    BY <2>3, <2>4
<1>10. CASE CommitFlush
  <2>1. /\ UNCHANGED <<snapTx, fsynced, up>> /\ up = "up"
        /\ written' \cup pending' = written \cup pending
    BY <1>i, <1>10 DEF CommitFlush, flush_buffer, Shape
  <2> QED
    BY <1>s, <1>t, <1>u, <2>1
<1>11. CASE CommitPoison
  <2>1. UNCHANGED <<written, pending, snapTx, fsynced>>
    BY <1>11 DEF CommitPoison
  <2> QED
    BY <1>u, <2>1 DEF Sound, Commits
<1>12. ASSUME NEW s \in Flushers, FlushCall(s) PROVE DL!Next \/ UNCHANGED <<Log, fsynced>>
  <2>1. UNCHANGED <<written, pending, snapTx, fsynced>>
    BY <1>12 DEF FlushCall
  <2> QED
    BY <1>u, <2>1 DEF Sound, Commits
<1>13. ASSUME NEW s \in Flushers, FlushWrite(s) PROVE DL!Next \/ UNCHANGED <<Log, fsynced>>
  <2>1. /\ UNCHANGED <<snapTx, fsynced, up>> /\ up = "up"
        /\ written' \cup pending' = written \cup pending
    BY <1>i, <1>13 DEF FlushWrite, flush_buffer, Shape
  <2> QED
    BY <1>s, <1>t, <1>u, <2>1
<1>14. ASSUME NEW s \in Flushers, FlushSync(s) PROVE DL!Next \/ UNCHANGED <<Log, fsynced>>
  <2>1. UNCHANGED <<written, pending, snapTx, fsynced>>
    BY <1>14 DEF FlushSync
  <2> QED
    BY <1>u, <2>1 DEF Sound, Commits
<1>15. ASSUME NEW s \in Flushers, FlushAdvance(s) PROVE DL!Next \/ UNCHANGED <<Log, fsynced>>
  <2>1. UNCHANGED <<written, pending, snapTx>> /\ fsynced \subseteq fsynced'
    BY <1>15 DEF FlushAdvance
  <2>2. Log' = Log
    BY <1>l, <1>m, <2>1 DEF Sound, Commits
  <2> QED
    BY <1>d, <2>1, <2>2 DEF DL!Next, DL!MakeDurable
<1>16. CASE CkptStart
  <2>1. UNCHANGED <<written, pending, snapTx, fsynced>>
    BY <1>16 DEF CkptStart
  <2> QED
    BY <1>u, <2>1 DEF Sound, Commits
<1>17. CASE CkptTake
  <2>1. UNCHANGED <<written, pending, snapTx, fsynced>>
    BY <1>17 DEF CkptTake
  <2> QED
    BY <1>u, <2>1 DEF Sound, Commits
<1>18. CASE CkptInstall
  <2>1. /\ UNCHANGED <<written, pending, fsynced, up>> /\ snapTx' = ktx
        /\ kpc = "install" /\ up = "up"
    BY <1>i, <1>18 DEF CkptInstall, Shape
  <2>2. snapTx \subseteq ktx /\ ktx \subseteq live
    BY <1>i, <2>1 DEF SnapCovers
  <2>3. \A t \in ktx : t \in snapTx \/ \E c \in Commits(written \cup pending) : c.tx = t
    BY <1>i, <2>1, <2>2 DEF Numbered, InLog, Running
  <2> QED
    BY <1>s, <1>t, <1>u, <2>1, <2>2, <2>3
<1>19. CASE CkptMark
  <2>1. UNCHANGED <<written, snapTx, fsynced, up>> /\ up = "up"
    BY <1>i, <1>19 DEF CkptMark, Shape
  <2>2. Commits(pending') = Commits(pending)
    BY <1>19, RecFields DEF CkptMark, Commits
  <2> QED
    BY <1>s, <1>t, <1>u, <2>1, <2>2 DEF Commits
<1>20. CASE CkptTruncate
  <2>1. PICK gone \in SUBSET Droppable(klsn) :
          /\ written' = {r \in written : r.seg \notin gone}
          /\ \A r \in written : r.seg \in gone => r.lsn <= fence
    BY <1>i, <1>20, TruncateFacts
  <2>2. UNCHANGED <<pending, snapTx, fsynced, up>> /\ up = "up"
    BY <1>i, <1>20, TruncateFacts
  <2>3. \A c \in Commits(written' \cup pending') : c \in Commits(written \cup pending)
    BY <2>1, <2>2 DEF Commits
  <2>4. \A c \in Commits(written \cup pending) :
          c \in Commits(written' \cup pending') \/ c.tx \in snapTx
    BY <1>i, <2>1, <2>2 DEF Commits, SnapCovers
  <2> QED
    BY <1>s, <1>t, <1>u, <2>2, <2>3, <2>4
<1>21. CASE CkptAbandon
  <2>1. UNCHANGED <<written, pending, snapTx, fsynced>>
    BY <1>21 DEF CkptAbandon
  <2> QED
    BY <1>u, <2>1 DEF Sound, Commits
<1>22. CASE Crash
  <2>1. UNCHANGED <<snapTx, fsynced>> /\ pending' = {}
        /\ \/ written' = written \/ written' = written \cup pending
    BY <1>22 DEF Crash, Stopped
  <2>2. Sound' = Sound \/ Sound' = Sound \cup pending
    <3>1. \A r \in pending : r.kind # "torn" /\ up = "up"
      BY <1>i DEF Frames, Files
    <3>2. CASE pending = {} \/ written' = written
      BY <2>1, <3>2 DEF Sound
    <3>3. CASE pending # {} /\ written' = written \cup pending
      BY <1>i, <3>1, <3>3 DEF Sound, Frames, Running
    <3> QED
      BY <2>1, <3>2, <3>3
  <2>3. \A c \in Commits(Sound' \cup pending') : c \in Commits(Sound \cup pending)
    BY <2>1, <2>2 DEF Commits
  <2>4. \A d \in Sound, c \in pending : d.lsn < c.lsn /\ d.lsn \in Nat /\ c.lsn \in Nat
    BY <1>i, SoundIsReadable, Numbers DEF Order
  <2>5. \A d \in Commits(Sound' \cup pending'), c \in Commits(Sound \cup pending) :
          c.lsn < d.lsn => c \in Commits(Sound' \cup pending')
    BY <2>1, <2>2, <2>4 DEF Commits
  <2> QED
    BY <1>b, <1>d, <2>1, <2>3, <2>5, LosesSuffix
<1>23. CASE PowerLoss
  <2>1. /\ UNCHANGED <<snapTx, fsynced>> /\ pending = {} /\ pending' = {} /\ Sound' \subseteq Sound
        /\ dirSynced \subseteq dir'
        /\ \A r \in Sound', q \in Sound : q.lsn <= r.lsn /\ q.seg \in dir' => q \in Sound'
    BY <1>i, <1>23, PowerLossFacts
  \* Only the newest file can be gone, and with it only the end of the log.
  <2>2. /\ \A r \in Sound', q \in Sound : q.lsn < r.lsn => q.seg \in dir'
        /\ \A q \in Sound : q.lsn \in Nat
    <3>1. /\ dir' \subseteq dir /\ dirSynced \subseteq dir'
          /\ \A r \in written' : r.seg \in dir \ (dir \ dir')
          /\ \A q \in written : q.seg \in dir
      <4>1. PICK gone \in SUBSET (dir \ dirSynced) :
              dir' = dir \ gone /\ \A r \in written' : r.seg \notin gone
        BY <1>23 DEF PowerLoss
      <4>2. \A q \in written : q.seg \in dir
        BY <1>i DEF Files, TypeOK, TypeDisk
      <4>3. written' \subseteq written \/ \A r \in written' : r.seg \in dir
        <5>1. \A r \in written' : r \in written \/ \E l \in Unsynced : r = Torn(l)
          BY <1>i, <1>23, PowerLossFacts
        <5>2. \A l \in written : Torn(l).seg = l.seg
          BY <1>i DEF TypeOK, TypeRecs, Record, Torn
        <5> QED
          BY <4>2, <5>1, <5>2 DEF Unsynced
      <4> QED
        BY <2>1, <4>1, <4>2, <4>3
    <3>2. Sound \subseteq written /\ Sound' \subseteq written' /\ Sound' \subseteq written
      BY <2>1 DEF Sound
    <3>3. \A q \in written : q.lsn \in Nat /\ q.seg \in Nat
      BY <1>i, Numbers
    <3>4. \A s \in dir \ dirSynced : \A t \in dir : t <= s
      BY DEF BaseInv, Inv, Entries
    <3>5. ASSUME NEW r \in Sound', NEW q \in Sound, q.lsn < r.lsn, q.seg \notin dir'
          PROVE  FALSE
      <4>1. q.seg \in dir \ dirSynced /\ r.seg \in dir /\ r.seg # q.seg
        BY <3>1, <3>2, <3>5
      <4>2. r.seg < q.seg
        BY <3>2, <3>3, <3>4, <4>1
      <4>3. r.lsn < q.lsn
        BY <1>i, <3>2, <4>2 DEF Order
      <4> QED
        BY <3>2, <3>3, <3>5, <4>3
    <3> QED
      BY <3>2, <3>3, <3>5
  <2>3. \A c \in Commits(Sound' \cup pending') : c \in Commits(Sound \cup pending)
    BY <2>1 DEF Commits
  <2>4. \A d \in Commits(Sound' \cup pending'), c \in Commits(Sound \cup pending) :
          c.lsn < d.lsn => c \in Commits(Sound' \cup pending')
    BY <2>1, <2>2 DEF Commits
  <2> QED
    BY <1>b, <1>d, <2>1, <2>3, <2>4, LosesSuffix
<1>24. CASE Drop
  <2>1. UNCHANGED <<snapTx, fsynced>> /\ pending' = {}
        /\ \/ written' = written \/ written' = written \cup pending
    BY <1>24 DEF Drop, Stopped
  <2>2. Sound' = Sound \/ Sound' = Sound \cup pending
    <3>1. \A r \in pending : r.kind # "torn" /\ up = "up"
      BY <1>i DEF Frames, Files
    <3>2. CASE pending = {} \/ written' = written
      BY <2>1, <3>2 DEF Sound
    <3>3. CASE pending # {} /\ written' = written \cup pending
      BY <1>i, <3>1, <3>3 DEF Sound, Frames, Running
    <3> QED
      BY <2>1, <3>2, <3>3
  <2>3. \A c \in Commits(Sound' \cup pending') : c \in Commits(Sound \cup pending)
    BY <2>1, <2>2 DEF Commits
  <2>4. \A d \in Sound, c \in pending : d.lsn < c.lsn /\ d.lsn \in Nat /\ c.lsn \in Nat
    BY <1>i, SoundIsReadable, Numbers DEF Order
  <2>5. \A d \in Commits(Sound' \cup pending'), c \in Commits(Sound \cup pending) :
          c.lsn < d.lsn => c \in Commits(Sound' \cup pending')
    BY <2>1, <2>2, <2>4 DEF Commits
  <2> QED
    BY <1>b, <1>d, <2>1, <2>3, <2>5, LosesSuffix
<1>25. CASE DiscardUnborn
  <2>1. UNCHANGED <<written, pending, snapTx, fsynced>>
    BY <1>25 DEF DiscardUnborn
  <2> QED
    BY <1>u, <2>1 DEF Sound, Commits
<1>26. CASE OpenFresh
  <2>1. UNCHANGED <<written, pending, snapTx, fsynced>>
    BY <1>26 DEF OpenFresh, Opened
  <2> QED
    BY <1>u, <2>1 DEF Sound, Commits
<1>27. CASE OpenExisting
  <2>1. /\ UNCHANGED <<snapTx, fsynced, pending>> /\ written' = Sound
        /\ \A r \in Sound : r.kind # "torn"
    BY <1>i, <1>27, OpenFacts
  <2>2. Sound' = Sound
    BY <2>1, SoundIsAll DEF Sound
  <2> QED
    BY <1>u, <2>1, <2>2
<1>28. CASE OpenCreate
  <2>1. UNCHANGED <<written, pending, snapTx, fsynced>>
    BY <1>28 DEF OpenCreate
  <2> QED
    BY <1>u, <2>1 DEF Sound, Commits
<1>29. CASE OpenFail
  <2>1. UNCHANGED <<written, pending, snapTx, fsynced>>
    BY <1>29 DEF OpenFail
  <2> QED
    BY <1>u, <2>1 DEF Sound, Commits
<1>30. CASE OpenCreateFail
  <2>1. UNCHANGED <<written, pending, snapTx, fsynced>>
    BY <1>i, <1>30 DEF OpenCreateFail, Stopped, Files
  <2> QED
    BY <1>u, <2>1 DEF Sound, Commits
<1> QED
  BY <1>1, <1>2, <1>3, <1>4, <1>5, <1>6, <1>7, <1>8, <1>9, <1>10, <1>11, <1>12,
     <1>13, <1>14, <1>15, <1>16, <1>17, <1>18, <1>19, <1>20, <1>21, <1>22, <1>23,
     <1>24, <1>25, <1>26, <1>27, <1>28, <1>29, <1>30
  DEF Next, CommitStep, FlushStep, CkptStep, Open

\* The write-ahead log implements DurableLog, whatever storage does short of
\* losing a fsynced file's entry: commits join in order, and rotation, flushes,
\* checkpoints, truncation, crashes, power losses and opens lose nothing but a
\* suffix of transactions never reported durable.
THEOREM LogImplementsDurableLog ==
  ASSUME "entry_unsynced" \notin Faults
  PROVE  Spec => ImplementsDurableLog
<1>1. Init => DL!Init
  <2> SUFFICES ASSUME Init PROVE DL!Init
    OBVIOUS
  <2>1. Readable \cup pending = {}
    BY DEF Init, Readable, Good, TornRecs
  <2> QED
    BY <2>1 DEF Init, Log, Commits, DL!Init
<1>2. BaseInv /\ [Next]_vars => [DL!Next]_<<Log, fsynced>>
  <2> SUFFICES ASSUME BaseInv, [Next]_vars PROVE DL!Next \/ UNCHANGED <<Log, fsynced>>
    OBVIOUS
  <2>1. CASE Next
    BY <2>1, NextDurableLog
  <2>2. CASE UNCHANGED vars
    BY <2>2 DEF vars, disk, snap, mem, told, Log, Readable, Good, TornRecs, FirstTorn,
       Commits
  <2> QED
    BY <2>1, <2>2
<1> QED
  BY <1>1, <1>2, BaseInvariant, PTL DEF Spec, ImplementsDurableLog, DL!Spec
=============================================================================
