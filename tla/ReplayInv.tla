----------------------------- MODULE ReplayInv -----------------------------
(***************************************************************************)
(* The inductive invariant behind the theorems of ReplayProofs, kept apart *)
(* from the proofs so that TLC can check it too.                           *)
(***************************************************************************)
EXTENDS Replay

Tracked == pending \ withdrawn

\* Transactions begin in what was read, and replay knows those past the fence.
Begun ==
  /\ open \subseteq 1 .. last_lsn
  /\ pending \subseteq fence + 1 .. last_lsn
  /\ withdrawn \subseteq 1 .. last_lsn
  /\ \A b \in Lsns : b > last_lsn =>
       logged[b] = <<>> /\ events[b] = <<>> /\ bytes[b] = 0
  /\ status = "reading" => \A b \in open : b > fence => b \in pending

\* What is buffered is what was logged, but for the one streaming: there the
\* sink's graph has the rest.
Buffered ==
  /\ \A b \in Tracked : b # streaming => events[b] = logged[b]
  /\ \A b \in pending : Good(logged[b]) => Good(events[b])

\* The sink's graph without the provisional part is what was committed.
Provisional ==
  status = "reading" =>
    /\ streaming = 0 =>
         sink.graph = committed /\ sink.before = <<>> /\ ~sink.failed
    /\ streaming # 0 =>
         /\ streaming \in Tracked
         /\ sink.before = <<committed>>
         /\ ~sink.failed => sink.graph \o events[streaming]
                              = committed \o logged[streaming]
         /\ sink.failed => ~Good(logged[streaming])

\* Only a transaction that outgrew the buffer was streamed, or withdrawn.
Outgrown ==
  /\ \A b \in pending : bytes[b] <= size[b]
  /\ \A b \in Tracked : bytes[b] < Budget
  /\ \A b \in withdrawn : size[b] >= Budget
  /\ streaming # 0 => size[streaming] >= Budget

\* A log of whole runs: the transaction under way is the newest, and no other
\* one is streaming by then.
Runs ==
  ~primitives =>
    /\ \A b \in open, c \in open : b = c
    /\ open \cap withdrawn = {}
    /\ status = "reading" => \A b \in open : streaming \in {0, b}
    /\ checkpoint_lsn_observed <= marked /\ marked <= last_lsn

ReplayInv ==
  /\ TypeOK /\ Begun /\ Buffered /\ Provisional /\ Outgrown /\ Runs
  /\ ReplaysCommitted /\ OwnLogsReplay
=============================================================================
