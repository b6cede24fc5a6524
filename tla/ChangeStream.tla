---------------------------- MODULE ChangeStream ----------------------------
(***************************************************************************)
(* What a change feed promises its consumers, with no hub, parking, ring   *)
(* or history: the durable transactions form a sequence that only grows,   *)
(* whatever crashes; a consumer's cursor moves along it one transaction at *)
(* a time, across lagging, dropped feeds, resumes and restarts.  It starts *)
(* at the beginning or anywhere, and is thrown away only as a whole.       *)
(***************************************************************************)
EXTENDS Integers, Sequences

CONSTANTS Feeds, Txs

VARIABLES durable,   \* the durable transactions, in commit order
          cursor     \* how many of them a consumer has seen or skipped; -1: none

Init == durable = <<>> /\ cursor = [f \in Feeds |-> -1]

Grow ==
  /\ durable' \in Seq(Txs)
  /\ Len(durable') > Len(durable) /\ SubSeq(durable', 1, Len(durable)) = durable
  /\ UNCHANGED cursor

Join(f) ==
  /\ cursor[f] = -1
  /\ \E n \in 0 .. Len(durable) : cursor' = [cursor EXCEPT ![f] = n]
  /\ UNCHANGED durable

Deliver(f) ==
  /\ cursor[f] >= 0 /\ cursor[f] < Len(durable)
  /\ cursor' = [cursor EXCEPT ![f] = @ + 1]
  /\ UNCHANGED durable

StartOver(f) ==
  /\ cursor' = [cursor EXCEPT ![f] = -1]
  /\ UNCHANGED durable

Next == Grow \/ \E f \in Feeds : Join(f) \/ Deliver(f) \/ StartOver(f)

Spec == Init /\ [][Next]_<<durable, cursor>>
=============================================================================
