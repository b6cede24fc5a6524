----------------------------- MODULE DurableLog -----------------------------
(***************************************************************************)
(* What the write-ahead log promises, with no files, buffers or locks.     *)
(*                                                                         *)
(* Transactions are numbered in the order their commits are requested.     *)
(* `log` is the set of transactions a reopen would recover now; `durable`  *)
(* those reported durable.  A commit joins at the end.  A crash may cut    *)
(* the log anywhere at or after its durable transactions, and only there:  *)
(* no transaction is recovered without the ones committed before it.       *)
(***************************************************************************)
EXTENDS Naturals

CONSTANT MaxTx

VARIABLES log, durable

Init == log = {} /\ durable = {}

Commit(t) ==
  /\ t \in 1 .. MaxTx /\ \A u \in log : u < t
  /\ log' = log \cup {t}
  /\ UNCHANGED durable

MakeDurable ==
  /\ durable' \in SUBSET log
  /\ durable \subseteq durable'
  /\ UNCHANGED log

\* Any suffix of the log may be lost, down to what is durable.
Lose ==
  /\ log' \in SUBSET log
  /\ durable \subseteq log'
  /\ \A t \in log', u \in log : u < t => u \in log'
  /\ UNCHANGED durable

Next == (\E t \in 1 .. MaxTx : Commit(t)) \/ MakeDurable \/ Lose

Spec == Init /\ [][Next]_<<log, durable>>
=============================================================================
