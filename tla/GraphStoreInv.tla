---------------------------- MODULE GraphStoreInv ----------------------------
(***************************************************************************)
(* Properties of GraphStore.                                               *)
(***************************************************************************)
EXTENDS GraphStore

\* Traversals and scans read the lists, never the records: a node's lists
\* name exactly the relationships that leave and enter it, in the order
\* they were created, through batch deletes that defer their removals; a
\* label's bucket names its nodes; no relationship outlives an endpoint.
EndOf(s, rec) == IF s = "out" THEN rec.src ELSE rec.dst
FarOf(s, rec) == IF s = "out" THEN rec.dst ELSE rec.src
ListsTellRecords ==
  /\ \A l \in Labels : g.byLabel[l] = {n \in Ids(g.node) : l \in g.node[n].labels}
  /\ \A r \in Ids(g.rel) : {g.rel[r].src, g.rel[r].dst} \subseteq Ids(g.node)
  /\ \A s \in Sides : \A n \in Ids(g.adj[s]) :
       LET list == g.adj[s][n] IN
       /\ \A i, j \in DOMAIN list : i < j => list[i].rel < list[j].rel
       /\ {list[i].rel : i \in DOMAIN list} = {r \in Ids(g.rel) : EndOf(s, g.rel[r]) = n}
       /\ \A i \in DOMAIN list : list[i].far = FarOf(s, g.rel[list[i].rel])

\* Recovery: replaying the recorded events over the graph the write began
\* with is never refused and gives the same graph, lists, buckets and id
\* counters included, whatever the batches, cascades and clears were.
ReplayRebuilds == replica = g

\* Change feed: a consumer that applies the net changes in order to its
\* copy of the records before the write has the records after it. Nothing
\* is created twice or before its endpoints, updates carry deltas that
\* lead to the record they carry, and a deleted entity is described as it
\* was before the write, whether that was read from the graph before or
\* collected while the graph changed in place.
NetApplies ==
  plan # "none" => Consumed(Records(base), Batch) = Records(g)
=============================================================================
