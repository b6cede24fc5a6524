----------------------------- MODULE GraphStore -----------------------------
(***************************************************************************)
(* One writer at a time changes the graph: on a staged copy that is        *)
(* published or thrown away, or in place with a plan that cannot fail      *)
(* (database/occ.rs, live_fast_plan_safe). Each mutation's events are      *)
(* recorded. The replica is the graph recovery would rebuild from them,    *)
(* and `pre` with `acc` is what the change feed would be built from.       *)
(***************************************************************************)
EXTENDS NetChanges

CONSTANTS
  MaxNodes,    \* bound: node ids
  MaxRels,     \* bound: relationship ids
  MaxOps       \* bound: mutations of all writes together

VARIABLES
  g,        \* the graph the writer works on; the published one between writes
  base,     \* the published graph when the write began
  plan,     \* "none", "staged", "clear", or what the write does in place
  left,     \* mutations that may still be made
  acc,      \* build.rs Accumulator over the write's events
  sink,     \* PreImageSink: records dropped by a write in place
  replica   \* the graph replayed from the recorded events

vars == <<g, base, plan, left, acc, sink, replica>>

\* live_fast_plan_safe: the shapes of writes that run in place. The others
\* are staged; try_clear is a staged write of its own.
InPlace == {"create", "set", "delete", "create_delete"}
Staged == {"staged", "clear"}
Ids(f) == DOMAIN f

Init ==
  /\ g = EmptyGraph /\ base = EmptyGraph /\ replica = EmptyGraph
  /\ plan = "none" /\ left = MaxOps
  /\ acc = EmptyAcc /\ sink = NoImages

Begin(p) ==
  /\ plan = "none" /\ plan' = p
  /\ UNCHANGED <<left, g, base, acc, sink, replica>>

\* The sink is installed for a plan in place that has a DELETE.
MayDeleteCreated == plan = "create_delete"
MayDelete == plan \in {"delete", "create_delete"}

\* One store operation: its events reach the recorder, and what is built
\* from them follows. One that does nothing emits nothing.
Mutate(w) ==
  /\ w.evs # <<>>
  /\ left > 0 /\ left' = left - 1
  /\ g' = w.g
  /\ acc' = FoldLeft(observe, acc, w.evs)
  /\ replica' = replay_into(replica, w.evs)
  /\ sink' = IF MayDelete THEN w.dropped ELSE sink
  /\ UNCHANGED <<base, plan>>

Now == [Work(g) EXCEPT !.dropped = sink]

\* The inputs: a node starts bare or with everything, a relationship bare.
Create ==
  /\ plan \in {"staged", "create", "create_delete"}
  /\ g.nextNode < MaxNodes
  /\ \/ Mutate(try_create_node(Now, {}, NoValue))
     \/ \E v \in Values : Mutate(try_create_node(Now, Labels, v))

CreateRel ==
  /\ plan = "staged" /\ g.nextRel < MaxRels
  /\ \E a, b \in Ids(g.node) : Mutate(create_relationship(Now, a, b, NoValue))

\* SET of a property, to null for a removal.
SetProperty ==
  /\ plan \in {"staged", "set"}
  /\ \/ \E n \in Ids(g.node), v \in Values : Mutate(set_node_property(Now, n, v))
     \/ \E n \in Ids(g.node) : Mutate(remove_node_property(Now, n))
     \/ \E n \in Ids(g.node), v \in Values :
          \E edits \in {<<v, NoValue>>, <<NoValue, v>>} : Mutate(update_node_properties(Now, n, edits))
     \/ \E r \in Ids(g.rel), v \in Values : Mutate(set_relationship_property(Now, r, v))
     \/ \E r \in Ids(g.rel) : Mutate(remove_relationship_property(Now, r))

SetLabel ==
  /\ plan = "staged"
  /\ \E n \in Ids(g.node), l \in Labels :
       Mutate(add_node_label(Now, n, l)) \/ Mutate(remove_node_label(Now, n, l))

\* DELETE hands the store its relationships, then its nodes, each in one
\* batch in id order; the graph API hands it one relationship.
Batches(ids) == {SetToSortSeq(S, <) : S \in SUBSET ids \ {{}}}

DeleteRels ==
  /\ plan \in {"staged", "delete"}
  /\ \/ \E rs \in Batches(Ids(g.rel)) : Mutate(delete_relationships(Now, rs))
     \/ plan = "staged" /\ \E r \in Ids(g.rel) : Mutate(delete_relationship(Now, r))

\* A plain DELETE in place takes only what its own CREATE made.
Deletable == IF plan = "staged" THEN Ids(g.node)
             ELSE {n \in Ids(g.node) : n \in Ids(acc.touch.node) /\ acc.touch.node[n].created}

DeleteNode ==
  /\ plan \in {"staged", "create_delete"}
  /\ \E n \in Deletable : Mutate(delete_node(Now, n))

DetachDelete ==
  /\ plan \in {"staged", "delete"}
  /\ \E ns \in Batches(Ids(g.node)) : Mutate(detach_delete_nodes(Now, ns))

Clear == plan = "clear" /\ Mutate(clear(Now))

Done == plan' = "none" /\ UNCHANGED left /\ acc' = EmptyAcc /\ sink' = NoImages

\* The staged graph is published, or the write in place is over.
Commit ==
  /\ plan # "none" /\ Done
  /\ base' = g /\ UNCHANGED <<g, replica>>

\* A staged write fails: its graph goes, and its events never commit.
Abort ==
  /\ plan \in Staged /\ Done
  /\ g' = base /\ replica' = base /\ UNCHANGED base

Next ==
  \/ \E p \in Staged \cup InPlace : Begin(p)
  \/ Create \/ CreateRel \/ SetProperty \/ SetLabel
  \/ DeleteRels \/ DeleteNode \/ DetachDelete \/ Clear
  \/ Commit \/ Abort

Spec == Init /\ [][Next]_vars

\* What publish_changes would build its batch from, were the write to end.
Pre == IF plan \in InPlace THEN sink ELSE capture(acc, base)
Batch == build_changes(acc, Pre, g)
=============================================================================
