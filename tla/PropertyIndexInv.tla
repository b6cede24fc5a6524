--------------------------- MODULE PropertyIndexInv ---------------------------
(***************************************************************************)
(* What PropertyIndex promises, and the inductive invariant behind it.     *)
(***************************************************************************)
EXTENDS PropertyIndex

\* The nodes a scan finds under scope s with value v.
Scan(g, s, v) == {id \in Ids : s \in ScopesOf(g.labels[id]) /\ g.value[id] = v}

Finds(g) ==
  /\ g.active => \A s \in Scopes, v \in Values :
       Get(g.scoped[s], v, Holders(g, v)) = Scan(g, s, v)
  /\ g.any_active => \A v \in Values : Get(g.any, v, Holders(g, v)) = Holders(g, v)

\* A lookup that the index answers finds the nodes a scan would, whoever built
\* the index, over whatever graph, and whatever the writer has done to its
\* copy since: values with one digest, values that gain and lose holders,
\* nodes that gain their first label or lose their last, a build that is filed
\* while the writer clones the graph.
LookupsFind == Finds(live) /\ (stage = "open" => Finds(staged))

-----------------------------------------------------------------------------
(* The inductive invariant.                                                *)

JobRecord == [pc : {"idle", "build", "merge"}, done : SUBSET Ids,
              scoped : [Scopes -> Buckets], any : Buckets]

TypeOK ==
  /\ live \in Graph /\ staged \in Graph /\ stage \in {"none", "cloning", "open"}
  /\ job \in [Jobs -> JobRecord] /\ edits \in Nat

\* Which value each node is listed under, if any.
Listing == [Ids -> Values \cup {NoValue}]

\* Buckets list each node under its value and nothing else: exactly, with all
\* that hold it, or alone by the digest.
Sound(b, listing) ==
  /\ \A v \in Values :
       b.exact[v] # {} => b.exact[v] = {id \in Ids : listing[id] = v}
  /\ \A id \in Ids : listing[id] # NoValue /\ b.exact[listing[id]] = {} =>
       Digest[listing[id]] # NoDigest /\ b.single[Digest[listing[id]]] = id
  /\ \A d \in Digests : b.single[d] # NoId =>
       LET v == listing[b.single[d]] IN
       v # NoValue /\ Digest[v] = d /\ b.exact[v] = {}

\* The part of a listing that some of the nodes make.
Part(listing, ids) == [id \in Ids |-> IF id \in ids THEN listing[id] ELSE NoValue]

\* The listing of scope s.
Under(labels, value, s) ==
  [id \in Ids |-> IF s \in ScopesOf(labels[id]) THEN value[id] ELSE NoValue]

\* The index of g lists its nodes by `labels` and `value`.
Lists(g, labels, value) ==
  /\ g.active => \A s \in Scopes : Sound(g.scoped[s], Under(labels, value, s))
  /\ ~g.active => ~g.any_active /\ g.scoped = [s \in Scopes |-> EmptyBuckets]
  /\ g.any_active => Sound(g.any, value)
  /\ ~g.any_active => g.any = EmptyBuckets

\* The records are the listing; a free slot has no value.
IndexSound(g) ==
  /\ Lists(g, g.labels, g.value)
  /\ g.nodes \subseteq g.taken
  /\ \A id \in Ids \ g.nodes : g.value[id] = NoValue

Counted(g) == g.active => g.count # 0

\* What a lookup has built so far lists the nodes it has walked.
JobSound(g, t) ==
  CASE t.pc = "idle"  -> t = Idle
    [] t.pc = "build" ->
         \A s \in Scopes : Sound(t.scoped[s], Part(Under(g.labels, g.value, s), t.done))
    [] t.pc = "merge" -> g.active /\ Sound(t.any, Part(g.value, t.done))

IndexInv ==
  /\ TypeOK
  /\ IndexSound(live) /\ Counted(live)
  /\ IndexSound(staged) /\ (stage = "open" => Counted(staged))
  /\ stage = "cloning" /\ staged.active => live.active
  /\ \A j \in Jobs : JobSound(Sees(j), job[j])
  /\ stage # "open" => job[Writer] = Idle
=============================================================================
