----------------------------- MODULE NetChanges -----------------------------
(***************************************************************************)
(* changes/build.rs: the net changes of one transaction, built from its    *)
(* events, the records it deleted and the graph after it.                  *)
(*                                                                         *)
(* The accumulator remembers whether a Clear restarted it, the entities in *)
(* the order the transaction first touched them, and per entity whether it *)
(* was created or deleted and the last operation on the property and on    *)
(* each label.                                                             *)
(***************************************************************************)
EXTENDS GraphOps

NoTouch == [created |-> FALSE, deleted |-> FALSE, key |-> "none", labels |-> <<>>]
EmptyAcc == [reset |-> FALSE, order |-> <<>>, touch |-> [node |-> <<>>, rel |-> <<>>]]

KindOf(ev) == IF ev.op \in {"CreateRel", "SetRel", "RemoveRel", "DeleteRel"} THEN "rel" ELSE "node"

Touched(t, ev) ==
  CASE ev.op \in {"CreateNode", "CreateRel"} -> [t EXCEPT !.created = TRUE]
    [] ev.op \in {"DeleteNode", "DetachDelete", "DeleteRel"} -> [t EXCEPT !.deleted = TRUE]
    [] ev.op \in {"SetNode", "SetRel"} -> [t EXCEPT !.key = "set"]
    [] ev.op \in {"RemoveNode", "RemoveRel"} -> [t EXCEPT !.key = "removed"]
    [] ev.op = "AddLabel" -> [t EXCEPT !.labels = (ev.label :> "set") @@ @]
    [] ev.op = "RemoveLabel" -> [t EXCEPT !.labels = (ev.label :> "removed") @@ @]

observe(acc, ev) ==
  IF ev.op = "Clear" THEN [EmptyAcc EXCEPT !.reset = TRUE]
  ELSE LET k == KindOf(ev)
           seen == ev.id \in DOMAIN acc.touch[k]
           t == IF seen THEN acc.touch[k][ev.id] ELSE NoTouch
       IN [acc EXCEPT !.order = IF seen THEN @ ELSE Append(@, [kind |-> k, id |-> ev.id]),
                      !.touch[k] = (ev.id :> Touched(t, ev)) @@ @]

-----------------------------------------------------------------------------
(* PreImages: captured from the graph before the transaction, for the      *)
(* entities it deletes. (A write in place collects them in the sink.)      *)

capture(acc, before) ==
  [k \in {"node", "rel"} |->
     [id \in {i \in DOMAIN acc.touch[k] : acc.touch[k][i].deleted} \cap DOMAIN before[k]
        |-> before[k][id]]]

NoRecord == [labels |-> {}, prop |-> NoValue]

\* None, or the one change of the entity. A deleted relationship without
\* an image has no change, a deleted node is reported with nothing on it.
NetChange(e, acc, pre, post) ==
  LET t == acc.touch[e.kind][e.id]
      image == IF e.id \in DOMAIN pre[e.kind] THEN pre[e.kind][e.id] ELSE NoRecord
      ops(o) == {l \in DOMAIN t.labels : t.labels[l] = o}
      change(c, rec) == <<[change |-> c, kind |-> e.kind, id |-> e.id, rec |-> rec,
                           key |-> t.key, added |-> ops("set"), removed |-> ops("removed")]>>
  IN CASE t.created /\ t.deleted -> <<>>
       [] ~ t.created /\ t.deleted ->
            IF e.kind = "rel" /\ e.id \notin DOMAIN pre.rel THEN <<>> ELSE change("deleted", image)
       [] ~ t.deleted /\ e.id \notin DOMAIN post[e.kind] -> <<>>
       [] t.created /\ ~ t.deleted /\ e.id \in DOMAIN post[e.kind] ->
            change("created", post[e.kind][e.id])
       [] OTHER -> change("updated", post[e.kind][e.id])

build_changes(acc, pre, post) ==
  LET Add(out, e) == out \o NetChange(e, acc, pre, post)
  IN FoldLeft(Add, IF acc.reset THEN <<[change |-> "reset"]>> ELSE <<>>, acc.order)

-----------------------------------------------------------------------------
(* A consumer that keeps a copy of the records and applies the changes in  *)
(* order: what it must be able to rely on. An update is applied from its   *)
(* deltas, so that they have to agree with the record it carries.          *)

Records(g) == [node |-> g.node, rel |-> g.rel]
Broken == [broken |-> TRUE]

Merged(old, c) ==
  LET prop == CASE c.key = "set" -> c.rec.prop [] c.key = "removed" -> NoValue [] OTHER -> old.prop
  IN IF c.kind = "node"
     THEN [labels |-> (old.labels \cup c.added) \ c.removed, prop |-> prop]
     ELSE [old EXCEPT !.prop = prop]

Consume(copy, c) ==
  CASE copy = Broken -> Broken
    [] c.change = "reset" -> Records(EmptyGraph)
    [] c.change = "created" ->
         IF \/ c.id \in DOMAIN copy[c.kind]
            \/ c.kind = "rel" /\ ~ {c.rec.src, c.rec.dst} \subseteq DOMAIN copy.node
         THEN Broken ELSE [copy EXCEPT ![c.kind] = (c.id :> c.rec) @@ @]
    [] c.change = "updated" ->
         IF c.id \notin DOMAIN copy[c.kind] \/ Merged(copy[c.kind][c.id], c) # c.rec
         THEN Broken ELSE [copy EXCEPT ![c.kind][c.id] = c.rec]
    [] c.change = "deleted" ->
         IF c.id \notin DOMAIN copy[c.kind] \/ copy[c.kind][c.id] # c.rec
         THEN Broken ELSE [copy EXCEPT ![c.kind] = Without(@, c.id)]

Consumed(copy, changes) == FoldLeft(Consume, copy, changes)
=============================================================================
