---------------------------- MODULE PropertyIndex ----------------------------
(***************************************************************************)
(* The hash index on one property of the nodes                             *)
(* (crates/lora-store/src/memory/property_index.rs), the hooks that keep   *)
(* it current (graph.rs, impls.rs), and who builds it: a lookup builds the *)
(* index it misses over the live graph other lookups read, while a writer  *)
(* clones that graph and edits the clone (IndexBundle::clone in            *)
(* entity_index_store.rs).                                                 *)
(*                                                                         *)
(* A graph under readers is immutable but for its indexes, behind a lock,  *)
(* and the counter of active ones, which spares the hooks the lock.  Every *)
(* action below holds the lock for all it does to the index.  The staged   *)
(* graph belongs to one writer.  WritePath models staging and publishing;  *)
(* a write in place (no reader then) is a staged one nobody looked aside.  *)
(***************************************************************************)
EXTENDS Integers, FiniteSets

CONSTANTS
  Ids,           \* slots of nodes
  Labels, Unlabelled,
  Values, NoValue,
  Digests, NoDigest,
  Digest,        \* of a value with a heap image; NoDigest for the others
  NoId,
  Readers, Writer,
  MaxOpened,     \* nodes of the graph opened
  MaxEdits,      \* edits of the history
  MaxCount       \* activations counted (a count outlives its index)

ASSUME PropertyIndexAssumption ==
  /\ IsFiniteSet(Ids) /\ NoId \notin Ids
  /\ Unlabelled \notin Labels /\ NoValue \notin Values /\ NoDigest \notin Digests
  /\ Digest \in [Values -> Digests \cup {NoDigest}]
  /\ Writer \notin Readers /\ {MaxOpened, MaxEdits, MaxCount} \subseteq Nat

VARIABLES
  live, staged,  \* the graphs; with nothing staged, the same
  stage,         \* "none", "cloning" or "open"
  job,           \* what each lookup, the writer's own included, is building
  edits

vars == <<live, staged, stage, job, edits>>

Jobs == Readers \cup {Writer}
Scopes == Labels \cup {Unlabelled}

-----------------------------------------------------------------------------
(* PropertyValueBuckets.  A value is kept exactly with its holders, or by  *)
(* its digest when one node holds it and no other value has that digest.   *)

Buckets == [exact : [Values -> SUBSET Ids], single : [Digests -> Ids \cup {NoId}]]
EmptyBuckets == [exact |-> [v \in Values |-> {}], single |-> [d \in Digests |-> NoId]]

\* `holders` are the nodes whose records hold v.
Insert(b, id, v, holders) ==
  LET d == Digest[v] IN
  CASE d = NoDigest \/ b.exact[v] # {} -> [b EXCEPT !.exact[v] = @ \cup {id}]
    [] OTHER ->
       CASE b.single[d] = NoId -> [b EXCEPT !.single[d] = id]
         [] b.single[d] = id -> b
         [] b.single[d] \in holders \ {id} ->
              [b EXCEPT !.exact[v] = {id, b.single[d]}, !.single[d] = NoId]
         [] OTHER -> [b EXCEPT !.exact[v] = {id}]

\* Back to one holder: its digest entry, unless another value's has it.
Remove(b, id, v) ==
  LET d == Digest[v]
      left == b.exact[v] \ {id}
      back == {o \in left : left = {o} /\ d # NoDigest /\ b.single[d] = NoId}
  IN
  [exact  |-> [b.exact EXCEPT ![v] = left \ back],
   single |-> IF back # {} THEN [b.single EXCEPT ![d] = CHOOSE o \in back : TRUE]
              ELSE [e \in Digests |-> IF e = d /\ b.single[e] = id THEN NoId
                                      ELSE b.single[e]]]

Get(b, v, holders) ==
  IF b.exact[v] # {} THEN b.exact[v]
  ELSE {id \in holders : Digest[v] # NoDigest /\ b.single[Digest[v]] = id}

\* The (value, node) pairs listed; a digest entry's value is in its record.
Entries(b, value) ==
  {e \in Values \X Ids :
     \/ e[2] \in b.exact[e[1]]
     \/ value[e[2]] = e[1] /\ \E d \in Digests : b.single[d] = e[2]}

-----------------------------------------------------------------------------
(* A graph: its records, and PropertyIndexState with the active counter.   *)

Graph == [nodes : SUBSET Ids, taken : SUBSET Ids,
          labels : [Ids -> SUBSET Labels], value : [Ids -> Values \cup {NoValue}],
          active : BOOLEAN, any_active : BOOLEAN,
          scoped : [Scopes -> Buckets], any : Buckets, count : Nat]

Holders(g, v) == {id \in Ids : g.value[id] = v}

\* or_unlabelled
ScopesOf(labels) == IF labels = {} THEN {Unlabelled} ELSE labels

\* insert_with_scopes and remove_with_scopes
InsertInto(g, id, scopes, v) ==
  [g EXCEPT
     !.any = IF g.any_active THEN Insert(@, id, v, Holders(g, v)) ELSE @,
     !.scoped = [s \in Scopes |-> IF s \in scopes
                   THEN Insert(g.scoped[s], id, v, Holders(g, v)) ELSE g.scoped[s]]]

RemoveFrom(g, id, scopes, v) ==
  [g EXCEPT
     !.any = Remove(@, id, v),
     !.scoped = [s \in Scopes |-> IF s \in scopes
                   THEN Remove(g.scoped[s], id, v) ELSE g.scoped[s]]]

\* insert_scoped and remove_scoped: the map across scopes stays.
InsertScoped(g, id, s, v) ==
  [g EXCEPT !.scoped[s] = Insert(@, id, v, Holders(g, v))]
RemoveScoped(g, id, s, v) ==
  [g EXCEPT !.scoped[s] = Remove(@, id, v)]

\* The hooks first ask the counter, then whether this key is indexed.
Maintained(g) == g.count # 0 /\ g.active

-----------------------------------------------------------------------------
(* Edits of a graph: the record first, then the hook.                      *)

on_node_created(g, id) ==
  IF Maintained(g) /\ g.value[id] # NoValue
  THEN InsertInto(g, id, ScopesOf(g.labels[id]), g.value[id])
  ELSE g
CreateNode(g, id, labels, v) ==
  on_node_created(
    [g EXCEPT !.nodes = @ \cup {id}, !.taken = @ \cup {id},
              !.labels[id] = labels, !.value[id] = v], id)

on_node_property_removed(g, id, old) ==
  IF Maintained(g) THEN RemoveFrom(g, id, ScopesOf(g.labels[id]), old) ELSE g
RemoveProperty(g, id) ==
  on_node_property_removed([g EXCEPT !.value[id] = NoValue], id, g.value[id])

\* Variant: the new value is listed before the old one is dropped.
on_node_property_set_first(g, id, old, new) ==
  LET set == InsertInto(g, id, ScopesOf(g.labels[id]), new) IN
  IF ~Maintained(g) \/ old = NoValue THEN on_node_created(g, id)
  ELSE RemoveFrom(set, id, ScopesOf(g.labels[id]), old)

on_node_property_set(g, id, old, new) ==
  LET unset == IF old = NoValue THEN g
               ELSE RemoveFrom(g, id, ScopesOf(g.labels[id]), old)
  IN IF Maintained(g) THEN InsertInto(unset, id, ScopesOf(g.labels[id]), new) ELSE g
SetProperty(g, id, v) ==
  on_node_property_set([g EXCEPT !.value[id] = v], id, g.value[id], v)

\* update_node_properties with two edits of the key: both are in the record
\* before the first hook runs.
UpdateTwice(g, id, v, w) ==
  LET edited == [g EXCEPT !.value[id] = w] IN
  on_node_property_set(on_node_property_set(edited, id, g.value[id], v), id, v, w)

on_node_label_added(g, id, l) ==
  LET listed == InsertScoped(g, id, l, g.value[id]) IN
  CASE ~Maintained(g) \/ g.value[id] = NoValue -> g
    [] OTHER -> IF g.labels[id] = {l}
                THEN RemoveScoped(listed, id, Unlabelled, g.value[id])
                ELSE listed
AddLabel(g, id, l) ==
  on_node_label_added([g EXCEPT !.labels[id] = @ \cup {l}], id, l)

on_node_label_removed(g, id, l) ==
  LET unlisted == RemoveScoped(g, id, l, g.value[id]) IN
  CASE ~Maintained(g) \/ g.value[id] = NoValue -> g
    [] OTHER -> IF g.labels[id] = {}
                THEN InsertScoped(unlisted, id, Unlabelled, g.value[id])
                ELSE unlisted
RemoveLabel(g, id, l) ==
  on_node_label_removed([g EXCEPT !.labels[id] = @ \ {l}], id, l)

on_node_deleted(g, id, labels, old) ==
  IF Maintained(g) /\ old # NoValue
  THEN RemoveFrom(g, id, ScopesOf(labels), old) ELSE g
DeleteNode(g, id) ==
  on_node_deleted(
    [g EXCEPT !.nodes = @ \ {id}, !.labels[id] = {}, !.value[id] = NoValue],
    id, g.labels[id], g.value[id])

\* DROP INDEX; the counter stays, and only spares the hooks a look.
deactivate(g) ==
  [g EXCEPT !.active = FALSE, !.any_active = FALSE, !.any = EmptyBuckets,
            !.scoped = [s \in Scopes |-> EmptyBuckets]]

-----------------------------------------------------------------------------
(* A lookup builds what it misses from the graph it reads.                 *)

Idle == [pc |-> "idle", done |-> {}, scoped |-> [s \in Scopes |-> EmptyBuckets],
         any |-> EmptyBuckets]

Sees(j) == IF j = Writer THEN staged ELSE live
MayLook(j) == j = Writer => stage = "open"

\* The lookups of the same graph; the claims of a clone are its own.
Beside(j) == IF j = Writer THEN {} ELSE Readers \ {j}

Become(j, g) ==
  IF j = Writer THEN staged' = g /\ UNCHANGED live ELSE live' = g /\ UNCHANGED staged

\* activate_any_scope holds the lock all the while.
Locked(js) == \E j \in js : job[j].pc = "merge"

\* try_ensure_node_property_index: without the claim the lookup scans.
Claim(j) ==
  /\ MayLook(j) /\ job[j] = Idle /\ ~Sees(j).active
  /\ \A k \in Beside(j) : job[k].pc # "build"
  /\ job' = [job EXCEPT ![j].pc = "build"]
  /\ UNCHANGED <<live, staged, stage, edits>>

\* insert_bulk, or build_parallel, which lists the values of one digest in
\* some order too.
Build(j, id) ==
  LET g == Sees(j)  v == g.value[id] IN
  /\ job[j].pc = "build" /\ id \in g.nodes \ job[j].done /\ v # NoValue
  /\ job' = [job EXCEPT
       ![j].done = @ \cup {id},
       ![j].scoped = [s \in Scopes |-> IF s \in ScopesOf(g.labels[id])
                        THEN Insert(@[s], id, v, Holders(g, v)) ELSE @[s]]]
  /\ UNCHANGED <<live, staged, stage, edits>>

\* ensure_node_property_index files what it built, unless another did.
Filed(g, scoped) ==
  IF g.active THEN g
  ELSE [g EXCEPT
          !.scoped = [s \in Scopes |-> IF scoped[s] # EmptyBuckets
                                       THEN scoped[s] ELSE @[s]],
          !.active = TRUE, !.count = @ + 1]
File(j) ==
  /\ job[j].pc = "build" /\ ~Locked(Beside(j)) /\ Sees(j).count < MaxCount
  /\ \A id \in Sees(j).nodes \ job[j].done : Sees(j).value[id] = NoValue
  /\ Become(j, Filed(Sees(j), job[j].scoped))
  /\ job' = [job EXCEPT ![j] = Idle]
  /\ UNCHANGED <<stage, edits>>

\* ensure_any_scope_node_property_index, for a lookup without a label.
StartMerge(j) ==
  /\ MayLook(j) /\ job[j] = Idle /\ Sees(j).active /\ ~Sees(j).any_active
  /\ ~Locked(Beside(j))
  /\ job' = [job EXCEPT ![j].pc = "merge"]
  /\ UNCHANGED <<live, staged, stage, edits>>

\* Scope by scope; a node comes once for each label, in an order the hash
\* tables choose.
Merge(j, s, e) ==
  LET g == Sees(j) IN
  /\ job[j].pc = "merge" /\ e \in Entries(g.scoped[s], g.value)
  /\ job' = [job EXCEPT
       ![j].done = @ \cup {e[2]},
       ![j].any = Insert(@, e[2], e[1], Holders(g, e[1]))]
  /\ UNCHANGED <<live, staged, stage, edits>>

EndMerge(j) ==
  LET g == Sees(j) IN
  /\ job[j].pc = "merge"
  /\ \A s \in Scopes : \A e \in Entries(g.scoped[s], g.value) : e[2] \in job[j].done
  /\ Become(j, [g EXCEPT !.any = job[j].any, !.any_active = TRUE])
  /\ job' = [job EXCEPT ![j] = Idle]
  /\ UNCHANGED <<stage, edits>>

-----------------------------------------------------------------------------
(* The writer clones the live graph, edits the clone and publishes it.     *)

\* IndexBundle::clone: the index under its lock, then the counter.
CloneIndexes ==
  /\ stage = "none" /\ ~Locked(Readers)
  /\ staged' = [live EXCEPT !.count = 0] /\ stage' = "cloning"
  /\ UNCHANGED <<live, job, edits>>

CloneCount ==
  /\ stage = "cloning" /\ stage' = "open"
  /\ staged' = [staged EXCEPT !.count = live.count]
  /\ UNCHANGED <<live, job, edits>>

MayEdit == stage = "open" /\ job[Writer] = Idle /\ edits < MaxEdits
Edited(g) == staged' = g /\ edits' = edits + 1 /\ UNCHANGED <<live, stage, job>>

Create ==
  \E id \in Ids \ staged.taken, labels \in SUBSET Labels, v \in Values \cup {NoValue} :
    MayEdit /\ Edited(CreateNode(staged, id, labels, v))

SetValue ==
  \E id \in staged.nodes, v \in Values :
    /\ MayEdit
    /\ \/ Edited(SetProperty(staged, id, v))
       \/ \E w \in Values : Edited(UpdateTwice(staged, id, v, w))

RemoveValue ==
  \E id \in staged.nodes :
    MayEdit /\ staged.value[id] # NoValue /\ Edited(RemoveProperty(staged, id))

Relabel ==
  \E id \in staged.nodes, l \in Labels :
    /\ MayEdit
    /\ \/ l \notin staged.labels[id] /\ Edited(AddLabel(staged, id, l))
       \/ l \in staged.labels[id] /\ Edited(RemoveLabel(staged, id, l))

Delete == \E id \in staged.nodes : MayEdit /\ Edited(DeleteNode(staged, id))

DropIndex == MayEdit /\ staged.active /\ Edited(deactivate(staged))

\* The readers of the graph replaced go on with it, alone.
Publish ==
  /\ stage = "open" /\ job[Writer] = Idle
  /\ live' = staged /\ stage' = "none" /\ job' = [j \in Jobs |-> Idle]
  /\ UNCHANGED <<staged, edits>>

Abort ==
  /\ stage = "open" /\ job[Writer] = Idle
  /\ stage' = "none" /\ staged' = live /\ UNCHANGED <<live, job, edits>>

-----------------------------------------------------------------------------
\* An open graph: indexes are built by the lookups of the restarted process.
Opened(nodes, labels, value) ==
  [nodes |-> nodes, taken |-> nodes, labels |-> labels, value |-> value,
   active |-> FALSE, any_active |-> FALSE,
   scoped |-> [s \in Scopes |-> EmptyBuckets], any |-> EmptyBuckets, count |-> 0]

Init ==
  /\ \E nodes \in SUBSET Ids, labels \in [Ids -> SUBSET Labels],
        value \in [Ids -> Values \cup {NoValue}] :
       /\ Cardinality(nodes) <= MaxOpened
       /\ \A id \in Ids \ nodes : labels[id] = {} /\ value[id] = NoValue
       /\ live = Opened(nodes, labels, value)
  /\ staged = live /\ stage = "none" /\ job = [j \in Jobs |-> Idle] /\ edits = 0

Next ==
  \/ \E j \in Jobs :
       \/ Claim(j) \/ File(j) \/ StartMerge(j) \/ EndMerge(j)
       \/ \E id \in Ids : Build(j, id)
       \/ \E s \in Scopes, e \in Values \X Ids : Merge(j, s, e)
  \/ CloneIndexes \/ CloneCount
  \/ Create \/ SetValue \/ RemoveValue \/ Relabel \/ Delete \/ DropIndex
  \/ Publish \/ Abort

Spec == Init /\ [][Next]_vars
=============================================================================
