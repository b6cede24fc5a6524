------------------------------ MODULE GraphOps ------------------------------
(***************************************************************************)
(* The in-memory graph (lora-store, memory/graph.rs and memory/impls.rs)   *)
(* as pure operators: records, the two adjacency lists of every node, the  *)
(* label buckets and the id counters, one operator per mutation, with the  *)
(* events it emits to the recorder and the records it hands to the sink.   *)
(*                                                                         *)
(* One property key and one relationship type; labels and values are model *)
(* values, labels trimmed and not empty. A list's bytes are its length.    *)
(* A mutation maps a "work" record                                         *)
(*    [g: the graph, evs: events emitted, pending: deferred removals,      *)
(*     dropped: the first deleted record of each id (the sink)]            *)
(* to the next one.                                                        *)
(***************************************************************************)
EXTENDS Naturals, Sequences, SequencesExt, TLC

CONSTANTS
  Labels,      \* labels
  Values,      \* property values
  NoValue,     \* the property is absent
  DeferMin     \* DEFER_REMOVAL_MIN_BYTES: longer lists defer their removals

Sides == {"out", "in"}
LabelSets == SUBSET Labels
Props == Values \cup {NoValue}

EmptyGraph ==
  [node |-> <<>>, rel |-> <<>>, adj |-> [s \in Sides |-> <<>>],
   byLabel |-> [l \in Labels |-> {}], nextNode |-> 0, nextRel |-> 0]

NoImages == [node |-> <<>>, rel |-> <<>>]
Work(g) == [g |-> g, evs |-> <<>>, pending |-> {}, dropped |-> NoImages]

Emit(w, ev) == [w EXCEPT !.evs = Append(@, ev)]
Without(f, x) == [y \in DOMAIN f \ {x} |-> f[y]]
Larger(a, b) == IF a > b THEN a ELSE b

-----------------------------------------------------------------------------
(* Creation. The slots of the adjacency lists grow with the ids.           *)

Grown(lists, n) == [m \in DOMAIN lists \cup 0..n |-> IF m \in DOMAIN lists THEN lists[m] ELSE <<>>]

PutNode(g, id, rec) ==
  [g EXCEPT !.node = (id :> rec) @@ @,
            !.adj = [s \in Sides |-> Grown(@[s], id)],
            !.byLabel = [l \in Labels |-> IF l \in rec.labels THEN @[l] \cup {id} ELSE @[l]],
            !.nextNode = Larger(@, id + 1)]

PutRel(g, id, rec) ==
  [g EXCEPT !.rel = (id :> rec) @@ @,
            !.adj["out"][rec.src] = Append(@, [rel |-> id, far |-> rec.dst]),
            !.adj["in"][rec.dst] = Append(@, [rel |-> id, far |-> rec.src]),
            !.nextRel = Larger(@, id + 1)]

try_create_node(w, labels, prop) ==
  LET id == w.g.nextNode  rec == [labels |-> labels, prop |-> prop]
  IN Emit([w EXCEPT !.g = PutNode(@, id, rec)], [op |-> "CreateNode", id |-> id, rec |-> rec])

create_relationship(w, src, dst, prop) ==
  LET id == w.g.nextRel  rec == [src |-> src, dst |-> dst, prop |-> prop]
  IN IF {src, dst} \subseteq DOMAIN w.g.node
     THEN Emit([w EXCEPT !.g = PutRel(@, id, rec)], [op |-> "CreateRel", id |-> id, rec |-> rec])
     ELSE w

-----------------------------------------------------------------------------
(* Properties and labels. What changes nothing emits nothing, except that  *)
(* setting a property to the value it has is an event.                     *)

set_node_property(w, n, v) ==
  IF n \notin DOMAIN w.g.node THEN w
  ELSE Emit([w EXCEPT !.g.node[n].prop = v], [op |-> "SetNode", id |-> n, value |-> v])

remove_node_property(w, n) ==
  IF n \notin DOMAIN w.g.node \/ w.g.node[n].prop = NoValue THEN w
  ELSE Emit([w EXCEPT !.g.node[n].prop = NoValue], [op |-> "RemoveNode", id |-> n])

\* The edits go to the record at once, their events are emitted after.
update_node_properties(w, n, edits) ==
  LET Edit(x, v) == IF v = NoValue THEN remove_node_property(x, n)
                    ELSE set_node_property(x, n, v)
  IN FoldLeft(Edit, w, edits)

add_node_label(w, n, l) ==
  IF n \notin DOMAIN w.g.node \/ l \in w.g.node[n].labels THEN w
  ELSE Emit([w EXCEPT !.g.node[n].labels = @ \cup {l}, !.g.byLabel[l] = @ \cup {n}],
            [op |-> "AddLabel", id |-> n, label |-> l])

remove_node_label(w, n, l) ==
  IF n \notin DOMAIN w.g.node \/ l \notin w.g.node[n].labels THEN w
  ELSE Emit([w EXCEPT !.g.node[n].labels = @ \ {l}, !.g.byLabel[l] = @ \ {n}],
            [op |-> "RemoveLabel", id |-> n, label |-> l])

set_relationship_property(w, r, v) ==
  IF r \notin DOMAIN w.g.rel THEN w
  ELSE Emit([w EXCEPT !.g.rel[r].prop = v], [op |-> "SetRel", id |-> r, value |-> v])

remove_relationship_property(w, r) ==
  IF r \notin DOMAIN w.g.rel \/ w.g.rel[r].prop = NoValue THEN w
  ELSE Emit([w EXCEPT !.g.rel[r].prop = NoValue], [op |-> "RemoveRel", id |-> r])

-----------------------------------------------------------------------------
(* Deletion. In a batch a long list keeps its entries until the flush.     *)

Dropped(w, kind, id, rec) ==
  IF id \in DOMAIN w.dropped[kind] THEN w ELSE [w EXCEPT !.dropped[kind] = (id :> rec) @@ @]

adjacency_removeLate(w, n, s, r, batch) ==
  IF Len(w.g.adj[s][n]) > DeferMin
  THEN [w EXCEPT !.pending = @ \cup {<<n, s, r>>}]
  ELSE [w EXCEPT !.g.adj[s][n] = SelectSeq(@, LAMBDA e : e.rel # r)]

adjacency_remove(w, n, s, r, batch) ==
  LET list == w.g.adj[s][n]
  IN IF batch /\ Len(list) > DeferMin
     THEN [w EXCEPT !.pending = @ \cup {<<n, s, r>>}]
     ELSE [w EXCEPT !.g.adj[s][n] = SelectSeq(@, LAMBDA e : e.rel # r)]

flush_adjacency_removals(w) ==
  [w EXCEPT !.g.adj = [s \in Sides |-> [n \in DOMAIN @[s] |->
                        SelectSeq(@[s][n], LAMBDA e : <<n, s, e.rel>> \notin w.pending)]],
            !.pending = {}]

delete_relationship_deferring(w, r, batch) ==
  IF r \notin DOMAIN w.g.rel THEN w
  ELSE LET rec == w.g.rel[r]
           gone == Dropped([w EXCEPT !.g.rel = Without(@, r)], "rel", r, rec)
           near == adjacency_remove(gone, rec.src, "out", r, batch)
           far == adjacency_remove(near, rec.dst, "in", r, batch)
       IN Emit(far, [op |-> "DeleteRel", id |-> r])

delete_relationship(w, r) == delete_relationship_deferring(w, r, FALSE)

delete_relationships(w, rels) ==
  LET DeleteOne(x, r) == delete_relationship_deferring(x, r, TRUE)
  IN flush_adjacency_removals(FoldLeft(DeleteOne, w, rels))

clear_adjacency(g, n) == [g EXCEPT !.adj["out"][n] = <<>>, !.adj["in"][n] = <<>>]

has_incident_relationships(g, n) == g.adj["out"][n] # <<>> \/ g.adj["in"][n] # <<>>

\* A self-loop is in both lists and reported once.
incident_relationship_ids(g, n) ==
  LET ids(list) == [i \in DOMAIN list |-> list[i].rel]
  IN ids(g.adj["out"][n]) \o ids(SelectSeq(g.adj["in"][n], LAMBDA e : e.far # n))

delete_node(w, n) ==
  IF n \notin DOMAIN w.g.node \/ has_incident_relationships(w.g, n) THEN w
  ELSE LET rec == w.g.node[n]
           taken == [clear_adjacency(w.g, n) EXCEPT
                      !.node = Without(@, n),
                      !.byLabel = [l \in Labels |-> IF l \in rec.labels THEN @[l] \ {n} ELSE @[l]]]
       IN Emit(Dropped([w EXCEPT !.g = taken], "node", n, rec), [op |-> "DeleteNode", id |-> n])

detach_delete_deferringEarly(w, n) ==
  LET DeleteOne(x, r) == delete_relationship_deferring(x, r, TRUE)
      bare == FoldLeft(DeleteOne, [Emit(w, [op |-> "DetachDelete", id |-> n]) EXCEPT
                                     !.g = clear_adjacency(@, n)],
                       incident_relationship_ids(w.g, n))
  IN IF n \notin DOMAIN w.g.node THEN w ELSE delete_node(bare, n)

\* The node's own lists are read and cleared before its relationships go.
detach_delete_deferring(w, n) ==
  LET DeleteOne(x, r) == delete_relationship_deferring(x, r, TRUE)
      bare == FoldLeft(DeleteOne, [w EXCEPT !.g = clear_adjacency(@, n)],
                       incident_relationship_ids(w.g, n))
      done == delete_node(bare, n)
  IN IF n \notin DOMAIN w.g.node THEN w
     ELSE IF n \in DOMAIN done.g.node THEN bare
     ELSE Emit(done, [op |-> "DetachDelete", id |-> n])

detach_delete_nodes(w, nodes) ==
  flush_adjacency_removals(FoldLeft(detach_delete_deferring, w, nodes))

clear(w) == Emit([w EXCEPT !.g = EmptyGraph], [op |-> "Clear"])

-----------------------------------------------------------------------------
(* Replay (database/replay.rs, apply_event): each event goes to the store  *)
(* operation of its name, creations with the id they had; an operation     *)
(* that finds nothing to do refuses the whole replay, except a detach      *)
(* delete, whose parts were replayed before it.                            *)

Refused == [refused |-> TRUE]

Changed(g, w) == IF w.evs = <<>> THEN Refused ELSE w.g

apply_event(g, ev) ==
  CASE g = Refused -> Refused
    [] ev.op = "CreateNode" ->
         IF ev.id \in DOMAIN g.node THEN Refused ELSE PutNode(g, ev.id, ev.rec)
    [] ev.op = "CreateRel" ->
         IF ev.id \in DOMAIN g.rel \/ ~ {ev.rec.src, ev.rec.dst} \subseteq DOMAIN g.node
         THEN Refused ELSE PutRel(g, ev.id, ev.rec)
    [] ev.op = "SetNode" -> Changed(g, set_node_property(Work(g), ev.id, ev.value))
    [] ev.op = "RemoveNode" -> Changed(g, remove_node_property(Work(g), ev.id))
    [] ev.op = "AddLabel" -> Changed(g, add_node_label(Work(g), ev.id, ev.label))
    [] ev.op = "RemoveLabel" -> Changed(g, remove_node_label(Work(g), ev.id, ev.label))
    [] ev.op = "SetRel" -> Changed(g, set_relationship_property(Work(g), ev.id, ev.value))
    [] ev.op = "RemoveRel" -> Changed(g, remove_relationship_property(Work(g), ev.id))
    [] ev.op = "DeleteRel" -> Changed(g, delete_relationship(Work(g), ev.id))
    [] ev.op = "DeleteNode" -> Changed(g, delete_node(Work(g), ev.id))
    [] ev.op = "DetachDelete" -> detach_delete_nodes(Work(g), <<ev.id>>).g
    [] ev.op = "Clear" -> EmptyGraph

replay_into(g, evs) == FoldLeft(apply_event, g, evs)
=============================================================================
