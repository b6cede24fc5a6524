------------------------- MODULE PropertyIndexProofs -------------------------
(***************************************************************************)
(* Proofs about PropertyIndex for every set of nodes, labels and values,   *)
(* every choice of digests, and any number of lookups at once.             *)
(***************************************************************************)
EXTENDS PropertyIndexInv, TLAPS

-----------------------------------------------------------------------------
(* PropertyValueBuckets.                                                   *)

\* Buckets that list nothing.
LEMMA EmptyIsSound ==
  ASSUME NEW L \in Listing
  PROVE  /\ EmptyBuckets \in Buckets
         /\ (\A id \in Ids : L[id] = NoValue) => Sound(EmptyBuckets, L)
<1>1. EmptyBuckets \in Buckets
  BY DEF EmptyBuckets, Buckets
<1>2. /\ \A v \in Values : EmptyBuckets.exact[v] = {}
      /\ \A d \in Digests : EmptyBuckets.single[d] = NoId
  BY DEF EmptyBuckets
<1> QED
  BY <1>1, <1>2, PropertyIndexAssumption DEF Sound, Listing

\* A digest entry is the only node with its value, and values kept exactly
\* have no digest entry.
LEMMA SoundFacts ==
  ASSUME NEW L \in Listing, NEW b \in Buckets, Sound(b, L)
  PROVE  /\ \A v \in Values : /\ b.exact[v] # {} => b.exact[v] = {i \in Ids : L[i] = v}
                              /\ b.exact[v] \subseteq {i \in Ids : L[i] = v}
         /\ \A i \in Ids, v \in Values : L[i] = v /\ b.exact[v] = {} =>
              Digest[v] \in Digests /\ b.single[Digest[v]] = i
         /\ \A d \in Digests, i \in Ids : b.single[d] = i =>
              L[i] \in Values /\ Digest[L[i]] = d /\ b.exact[L[i]] = {}
<1>1. NoId \notin Ids /\ NoValue \notin Values
  BY PropertyIndexAssumption
<1>2. \A v \in Values : Digest[v] # NoDigest => Digest[v] \in Digests
  BY PropertyIndexAssumption
<1>3. \A i \in Ids : L[i] \in Values \cup {NoValue}
  BY DEF Listing
<1> QED
  BY <1>1, <1>2, <1>3 DEF Sound

\* The converse, with the facts of `SoundFacts`.
LEMMA SoundBy ==
  ASSUME NEW L \in Listing, NEW b \in Buckets,
         \A v \in Values : b.exact[v] # {} => b.exact[v] = {i \in Ids : L[i] = v},
         \A i \in Ids, v \in Values : L[i] = v /\ b.exact[v] = {} =>
           Digest[v] \in Digests /\ b.single[Digest[v]] = i,
         \A d \in Digests, i \in Ids : b.single[d] = i =>
           L[i] \in Values /\ Digest[L[i]] = d /\ b.exact[L[i]] = {}
  PROVE  Sound(b, L)
<1>1. NoDigest \notin Digests /\ NoValue \notin Values
  BY PropertyIndexAssumption
<1>2. \A i \in Ids : L[i] # NoValue => L[i] \in Values
  BY DEF Listing
<1>3. \A d \in Digests : b.single[d] # NoId => b.single[d] \in Ids
  BY DEF Buckets
<1>4. \A i \in Ids : L[i] # NoValue /\ b.exact[L[i]] = {} =>
        Digest[L[i]] # NoDigest /\ b.single[Digest[L[i]]] = i
  BY <1>1, <1>2
<1>5. \A d \in Digests : b.single[d] # NoId =>
        L[b.single[d]] # NoValue /\ Digest[L[b.single[d]]] = d
          /\ b.exact[L[b.single[d]]] = {}
  BY <1>1, <1>3
<1> QED
  BY <1>4, <1>5 DEF Sound

\* What `insert` changes.
LEMMA InsertCases ==
  ASSUME NEW b \in Buckets, NEW id \in Ids, NEW v \in Values, NEW H \in SUBSET Ids
  PROVE  LET n == Insert(b, id, v, H)  d == Digest[v] IN
         /\ n \in Buckets
         /\ \A w \in Values \ {v} : n.exact[w] = b.exact[w]
         /\ \A e \in Digests \ {d} : n.single[e] = b.single[e]
         /\ d = NoDigest \/ b.exact[v] # {} =>
              n.exact[v] = b.exact[v] \cup {id} /\ n.single = b.single
         /\ d \in Digests /\ b.exact[v] = {} =>
              /\ b.single[d] \in {NoId, id} => n.single[d] = id /\ n.exact[v] = {}
              /\ b.single[d] \in H \ {id} =>
                   n.single[d] = NoId /\ n.exact[v] = {id, b.single[d]}
              /\ b.single[d] \in Ids \ (H \cup {id}) =>
                   n.single[d] = b.single[d] /\ n.exact[v] = {id}
         /\ d = NoDigest \/ d \in Digests
<1> DEFINE n == Insert(b, id, v, H)
           d == Digest[v]
<1>1. /\ b.exact \in [Values -> SUBSET Ids] /\ b.single \in [Digests -> Ids \cup {NoId}]
      /\ b = [exact |-> b.exact, single |-> b.single]
      /\ d = NoDigest \/ d \in Digests
      /\ NoId \notin Ids /\ NoDigest \notin Digests
  BY PropertyIndexAssumption DEF Buckets
<1>2. CASE d = NoDigest \/ b.exact[v] # {}
  <2>1. n = [exact |-> [b.exact EXCEPT ![v] = @ \cup {id}], single |-> b.single]
    BY <1>1, <1>2 DEF Insert, n, d
  <2> QED
    BY <1>1, <1>2, <2>1 DEF Buckets, n, d
<1>3. CASE d \in Digests /\ b.exact[v] = {}
  <2>0. b.single[d] \in Ids \cup {NoId} /\ d # NoDigest
    BY <1>1, <1>3
  <2>1. CASE b.single[d] = NoId
    <3>1. n = [exact |-> b.exact, single |-> [b.single EXCEPT ![d] = id]]
      BY <1>1, <1>3, <2>0, <2>1 DEF Insert, n, d
    <3> QED
      BY <1>1, <1>3, <2>1, <3>1 DEF Buckets, n, d
  <2>2. CASE b.single[d] = id
    <3>1. n = b
      <4>1. b.single[d] # NoId
        BY <1>1, <2>2
      <4> QED
        BY <1>3, <2>0, <2>2, <4>1 DEF Insert, n, d
    <3> QED
      BY <1>1, <1>3, <2>2, <3>1 DEF Buckets, n, d
  <2>3. CASE b.single[d] \in H \ {id}
    <3>1. n = [exact |-> [b.exact EXCEPT ![v] = {id, b.single[d]}],
               single |-> [b.single EXCEPT ![d] = NoId]]
      BY <1>1, <1>3, <2>0, <2>3 DEF Insert, n, d
    <3> QED
      BY <1>1, <1>3, <2>0, <2>3, <3>1 DEF Buckets, n, d
  <2>4. CASE b.single[d] \in Ids \ (H \cup {id})
    <3>1. n = [exact |-> [b.exact EXCEPT ![v] = {id}], single |-> b.single]
      BY <1>1, <1>3, <2>0, <2>4 DEF Insert, n, d
    <3> QED
      BY <1>1, <1>3, <2>0, <2>4, <3>1 DEF Buckets, n, d
  <2> QED
    BY <2>0, <2>1, <2>2, <2>3, <2>4
<1> QED
  BY <1>1, <1>2, <1>3 DEF n, d

\* `insert` lists the node, whatever the digests of the others.
LEMMA InsertSound ==
  ASSUME NEW L \in Listing, NEW b \in Buckets, Sound(b, L),
         NEW id \in Ids, NEW v \in Values, NEW H \in SUBSET Ids,
         L[id] \in {NoValue, v},
         \A o \in Ids \ {id} : L[o] # NoValue => (o \in H <=> L[o] = v)
  PROVE  /\ Insert(b, id, v, H) \in Buckets
         /\ [L EXCEPT ![id] = v] \in Listing
         /\ Sound(Insert(b, id, v, H), [L EXCEPT ![id] = v])
<1> DEFINE n == Insert(b, id, v, H)
           d == Digest[v]
           M == [L EXCEPT ![id] = v]
<1>1. /\ M \in Listing /\ M[id] = v /\ \A o \in Ids \ {id} : M[o] = L[o]
      /\ NoValue \notin Values /\ NoId \notin Ids /\ v # NoValue
      /\ \A o \in Ids : L[o] \in Values \cup {NoValue}
  BY PropertyIndexAssumption DEF Listing
<1>2. /\ n \in Buckets
      /\ \A w \in Values \ {v} : n.exact[w] = b.exact[w]
      /\ \A e \in Digests \ {d} : n.single[e] = b.single[e]
      /\ d = NoDigest \/ b.exact[v] # {} =>
           n.exact[v] = b.exact[v] \cup {id} /\ n.single = b.single
      /\ d \in Digests /\ b.exact[v] = {} =>
           /\ b.single[d] \in {NoId, id} => n.single[d] = id /\ n.exact[v] = {}
           /\ b.single[d] \in H \ {id} =>
                n.single[d] = NoId /\ n.exact[v] = {id, b.single[d]}
           /\ b.single[d] \in Ids \ (H \cup {id}) =>
                n.single[d] = b.single[d] /\ n.exact[v] = {id}
      /\ d = NoDigest \/ d \in Digests
  BY InsertCases
<1>3. /\ \A w \in Values : /\ b.exact[w] # {} => b.exact[w] = {i \in Ids : L[i] = w}
                           /\ b.exact[w] \subseteq {i \in Ids : L[i] = w}
      /\ \A i \in Ids, w \in Values : L[i] = w /\ b.exact[w] = {} =>
           Digest[w] \in Digests /\ b.single[Digest[w]] = i
      /\ \A e \in Digests, i \in Ids : b.single[e] = i =>
           L[i] \in Values /\ Digest[L[i]] = e /\ b.exact[L[i]] = {}
  BY SoundFacts
<1>4. /\ \A e \in Digests : b.single[e] \in Ids \cup {NoId}
      /\ NoDigest \notin Digests
  BY PropertyIndexAssumption DEF Buckets
<1>5. \A w \in Values \ {v} : {i \in Ids : M[i] = w} = {i \in Ids : L[i] = w}
  BY <1>1
<1>6. {i \in Ids : M[i] = v} = {i \in Ids : L[i] = v} \cup {id}
  BY <1>1
<1>7. CASE d = NoDigest \/ b.exact[v] # {}
  <2>1. n.exact[v] = {i \in Ids : M[i] = v} /\ n.exact[v] # {}
    <3>1. CASE b.exact[v] # {}
      BY <1>2, <1>3, <1>6, <3>1
    <3>2. CASE b.exact[v] = {} /\ d = NoDigest
      <4>1. {i \in Ids : L[i] = v} = {}
        BY <1>3, <1>4, <3>2
      <4> QED
        BY <1>2, <1>6, <3>2, <4>1
    <3> QED
      BY <1>7, <3>1, <3>2
  <2>2. n.single = b.single
    BY <1>2, <1>7
  <2>3. \A w \in Values : n.exact[w] # {} => n.exact[w] = {i \in Ids : M[i] = w}
    BY <1>2, <1>3, <1>5, <2>1
  <2>4. \A i \in Ids, w \in Values : M[i] = w /\ n.exact[w] = {} =>
          Digest[w] \in Digests /\ n.single[Digest[w]] = i
    BY <1>1, <1>2, <1>3, <2>1, <2>2
  <2>5. \A e \in Digests, i \in Ids : n.single[e] = i =>
          M[i] \in Values /\ Digest[M[i]] = e /\ n.exact[M[i]] = {}
    <3>1. \A e \in Digests : b.single[e] # id
      BY <1>1, <1>3, <1>4, <1>7
    <3> QED
      BY <1>1, <1>2, <1>3, <1>4, <1>7, <2>2, <3>1
  <2> QED
    BY <1>1, <1>2, <2>3, <2>4, <2>5, SoundBy
<1>8. CASE d \in Digests /\ b.exact[v] = {}
  <2>0. \A i \in Ids : L[i] = v => b.single[d] = i
    BY <1>3, <1>8
  <2>1. CASE b.single[d] \in {NoId, id}
    <3>1. n.single[d] = id /\ n.exact[v] = {}
      BY <1>2, <1>8, <2>1
    <3>2. {i \in Ids : M[i] = v} = {id}
      BY <1>1, <1>6, <2>0, <2>1
    <3>3. \A w \in Values : n.exact[w] # {} => n.exact[w] = {i \in Ids : M[i] = w}
      BY <1>2, <1>3, <1>5, <3>1
    <3>4. \A i \in Ids, w \in Values : M[i] = w /\ n.exact[w] = {} =>
            Digest[w] \in Digests /\ n.single[Digest[w]] = i
      <4>1. ASSUME NEW i \in Ids, NEW w \in Values \ {v}, M[i] = w, n.exact[w] = {}
            PROVE  Digest[w] \in Digests /\ n.single[Digest[w]] = i
        <5>1. L[i] = w /\ b.exact[w] = {} /\ i # id
          BY <1>1, <1>2, <4>1
        <5>2. Digest[w] \in Digests /\ b.single[Digest[w]] = i
          BY <1>3, <5>1
        <5>3. Digest[w] # d
          BY <1>1, <2>1, <5>1, <5>2
        <5> QED
          BY <1>2, <5>2, <5>3
      <4> QED
        BY <1>8, <3>1, <3>2, <4>1
    <3>5. \A e \in Digests, i \in Ids : n.single[e] = i =>
            M[i] \in Values /\ Digest[M[i]] = e /\ n.exact[M[i]] = {}
      <4>1. ASSUME NEW e \in Digests \ {d}, NEW i \in Ids, n.single[e] = i
            PROVE  M[i] \in Values /\ Digest[M[i]] = e /\ n.exact[M[i]] = {}
        <5>1. L[i] \in Values /\ Digest[L[i]] = e /\ b.exact[L[i]] = {} /\ L[i] # v
          BY <1>2, <1>3, <4>1
        <5>2. i # id
          BY <1>1, <5>1
        <5> QED
          BY <1>1, <1>2, <5>1, <5>2
      <4>2. \A i \in Ids : n.single[d] = i => M[i] = v
        BY <1>1, <3>1
      <4> QED
        BY <3>1, <4>1, <4>2
    <3> QED
      BY <1>1, <1>2, <3>3, <3>4, <3>5, SoundBy
  <2>2. CASE b.single[d] \in H \ {id}
    <3> DEFINE o == b.single[d]
    <3>1. n.single[d] = NoId /\ n.exact[v] = {id, o}
      BY <1>2, <1>8, <2>2
    <3>2. o \in Ids \ {id} /\ L[o] = v
      BY <1>1, <1>3, <1>8, <2>2
    <3>3. {i \in Ids : M[i] = v} = {id, o}
      BY <1>6, <2>0, <3>2
    <3>4. \A w \in Values : n.exact[w] # {} => n.exact[w] = {i \in Ids : M[i] = w}
      BY <1>2, <1>3, <1>5, <3>1, <3>3
    <3>5. \A i \in Ids, w \in Values : M[i] = w /\ n.exact[w] = {} =>
            Digest[w] \in Digests /\ n.single[Digest[w]] = i
      <4>1. ASSUME NEW i \in Ids, NEW w \in Values, M[i] = w, n.exact[w] = {}
            PROVE  Digest[w] \in Digests /\ n.single[Digest[w]] = i
        <5>1. w # v
          BY <3>1, <4>1
        <5>2. L[i] = w /\ b.exact[w] = {}
          BY <1>1, <1>2, <4>1, <5>1
        <5>3. Digest[w] \in Digests /\ b.single[Digest[w]] = i
          BY <1>3, <5>2
        <5>4. Digest[w] # d
          BY <3>2, <5>1, <5>2, <5>3
        <5> QED
          BY <1>2, <5>3, <5>4
      <4> QED
        BY <4>1
    <3>6. \A e \in Digests, i \in Ids : n.single[e] = i =>
            M[i] \in Values /\ Digest[M[i]] = e /\ n.exact[M[i]] = {}
      <4>1. ASSUME NEW e \in Digests, NEW i \in Ids, n.single[e] = i
            PROVE  M[i] \in Values /\ Digest[M[i]] = e /\ n.exact[M[i]] = {}
        <5>1. e # d /\ b.single[e] = i
          BY <1>1, <1>2, <3>1, <4>1
        <5>2. L[i] \in Values /\ Digest[L[i]] = e /\ b.exact[L[i]] = {} /\ L[i] # v
          BY <1>3, <5>1
        <5>3. i # id
          BY <1>1, <5>2
        <5> QED
          BY <1>1, <1>2, <5>2, <5>3
      <4> QED
        BY <4>1
    <3> QED
      BY <1>1, <1>2, <3>4, <3>5, <3>6, SoundBy
  <2>3. CASE b.single[d] \in Ids \ (H \cup {id})
    <3> DEFINE o == b.single[d]
    <3>1. n.single[d] = o /\ n.exact[v] = {id} /\ o \in Ids \ {id}
      BY <1>2, <1>8, <2>3
    <3>2. L[o] \in Values \ {v} /\ Digest[L[o]] = d /\ b.exact[L[o]] = {}
      BY <1>1, <1>3, <1>8, <2>3
    <3>3. {i \in Ids : M[i] = v} = {id}
      BY <1>6, <2>0, <3>2
    <3>4. \A w \in Values : n.exact[w] # {} => n.exact[w] = {i \in Ids : M[i] = w}
      BY <1>2, <1>3, <1>5, <3>1, <3>3
    <3>5. \A e \in Digests : n.single[e] = b.single[e]
      BY <1>2, <3>1
    <3>6. \A i \in Ids, w \in Values : M[i] = w /\ n.exact[w] = {} =>
            Digest[w] \in Digests /\ n.single[Digest[w]] = i
      BY <1>1, <1>2, <1>3, <3>1, <3>5
    <3>7. \A e \in Digests, i \in Ids : n.single[e] = i =>
            M[i] \in Values /\ Digest[M[i]] = e /\ n.exact[M[i]] = {}
      <4>1. ASSUME NEW e \in Digests, NEW i \in Ids, n.single[e] = i
            PROVE  M[i] \in Values /\ Digest[M[i]] = e /\ n.exact[M[i]] = {}
        <5>1. b.single[e] = i
          BY <3>5, <4>1
        <5>2. L[i] \in Values /\ Digest[L[i]] = e /\ b.exact[L[i]] = {} /\ L[i] # v
          BY <1>3, <3>2, <5>1
        <5>3. i # id
          BY <1>1, <5>2
        <5> QED
          BY <1>1, <1>2, <5>2, <5>3
      <4> QED
        BY <4>1
    <3> QED
      BY <1>1, <1>2, <3>4, <3>6, <3>7, SoundBy
  <2> QED
    BY <1>4, <1>8, <2>1, <2>2, <2>3
<1> QED
  BY <1>2, <1>7, <1>8

\* What `remove` changes.
LEMMA RemoveCases ==
  ASSUME NEW b \in Buckets, NEW id \in Ids, NEW v \in Values
  PROVE  LET n == Remove(b, id, v)  d == Digest[v]  left == b.exact[v] \ {id} IN
         /\ n \in Buckets
         /\ \A w \in Values \ {v} : n.exact[w] = b.exact[w]
         /\ \A e \in Digests \ {d} : n.single[e] = b.single[e]
         /\ \A o \in Ids : left = {o} /\ d \in Digests /\ b.single[d] = NoId =>
              n.exact[v] = {} /\ n.single[d] = o
         /\ (\A o \in Ids : left # {o}) \/ d = NoDigest \/ b.single[d] # NoId =>
              /\ n.exact[v] = left
              /\ d \in Digests =>
                   n.single[d] = IF b.single[d] = id THEN NoId ELSE b.single[d]
         /\ d = NoDigest \/ d \in Digests
<1> DEFINE n == Remove(b, id, v)
           d == Digest[v]
           left == b.exact[v] \ {id}
           back == {o \in left : left = {o} /\ d # NoDigest /\ b.single[d] = NoId}
           last == CHOOSE o \in back : TRUE
<1>1. /\ b.exact \in [Values -> SUBSET Ids] /\ b.single \in [Digests -> Ids \cup {NoId}]
      /\ d = NoDigest \/ d \in Digests
      /\ NoId \notin Ids /\ NoDigest \notin Digests
  BY PropertyIndexAssumption DEF Buckets
<1>2. left \in SUBSET Ids /\ left \ back \in SUBSET Ids
  BY <1>1
<1>3. n = [exact  |-> [b.exact EXCEPT ![v] = left \ back],
           single |-> IF back # {} THEN [b.single EXCEPT ![d] = last]
                      ELSE [e \in Digests |-> IF e = d /\ b.single[e] = id THEN NoId
                                              ELSE b.single[e]]]
  BY DEF Remove
<1>4. ASSUME NEW o \in Ids, left = {o}, d \in Digests, b.single[d] = NoId
      PROVE  /\ n \in Buckets /\ n.exact[v] = {} /\ n.single[d] = o
             /\ \A e \in Digests \ {d} : n.single[e] = b.single[e]
  <2>1. back = {o}
    BY <1>1, <1>4
  <2>2. last = o
    BY <2>1
  <2>3. n.exact = [b.exact EXCEPT ![v] = {}] /\ n.single = [b.single EXCEPT ![d] = o]
    <3>1. left \ back = {} /\ back # {}
      BY <1>4, <2>1
    <3> HIDE DEF back, left, d, last, n
    <3> QED
      BY <1>3, <2>2, <3>1
  <2>4. n = [exact |-> n.exact, single |-> n.single]
    BY <1>3
  <2>5. /\ [b.exact EXCEPT ![v] = {}] \in [Values -> SUBSET Ids]
        /\ [b.single EXCEPT ![d] = o] \in [Digests -> Ids \cup {NoId}]
    BY <1>1, <1>4
  <2>6. n \in Buckets
    BY <2>3, <2>4, <2>5 DEF Buckets
  <2> QED
    BY <1>1, <1>4, <2>3, <2>6
<1>5. ASSUME (\A o \in Ids : left # {o}) \/ d = NoDigest \/ b.single[d] # NoId
      PROVE  /\ n \in Buckets /\ n.exact[v] = left
             /\ d \in Digests =>
                  n.single[d] = IF b.single[d] = id THEN NoId ELSE b.single[d]
             /\ \A e \in Digests \ {d} : n.single[e] = b.single[e]
  <2>1. back = {}
    BY <1>2, <1>5
  <2>2. /\ n.exact = [b.exact EXCEPT ![v] = left]
        /\ n.single = [e \in Digests |-> IF e = d /\ b.single[e] = id THEN NoId
                                         ELSE b.single[e]]
        /\ n = [exact |-> n.exact, single |-> n.single]
    BY <1>3, <2>1
  <2>3. n.exact \in [Values -> SUBSET Ids] /\ n.single \in [Digests -> Ids \cup {NoId}]
    BY <1>1, <1>2, <2>2
  <2>4. n \in Buckets
    BY <2>2, <2>3 DEF Buckets
  <2> QED
    BY <1>1, <2>2, <2>4
<1>6. \A w \in Values \ {v} : n.exact[w] = b.exact[w]
  BY <1>1, <1>3
<1> HIDE DEF n, d, left, back
<1>7. \/ \E o \in Ids : left = {o} /\ d \in Digests /\ b.single[d] = NoId
      \/ (\A o \in Ids : left # {o}) \/ d = NoDigest \/ b.single[d] # NoId
  BY <1>1
<1>8. n \in Buckets /\ \A e \in Digests \ {d} : n.single[e] = b.single[e]
  BY <1>4, <1>5, <1>7
<1>9. /\ n \in Buckets
      /\ \A w \in Values \ {v} : n.exact[w] = b.exact[w]
      /\ \A e \in Digests \ {d} : n.single[e] = b.single[e]
      /\ \A o \in Ids : left = {o} /\ d \in Digests /\ b.single[d] = NoId =>
           n.exact[v] = {} /\ n.single[d] = o
      /\ (\A o \in Ids : left # {o}) \/ d = NoDigest \/ b.single[d] # NoId =>
           /\ n.exact[v] = left
           /\ d \in Digests =>
                n.single[d] = IF b.single[d] = id THEN NoId ELSE b.single[d]
      /\ d = NoDigest \/ d \in Digests
  BY <1>1, <1>4, <1>5, <1>6, <1>8
<1> QED
  BY <1>9 DEF n, d, left

\* `remove` drops the node, and nothing else.
LEMMA RemoveSound ==
  ASSUME NEW L \in Listing, NEW b \in Buckets, Sound(b, L),
         NEW id \in Ids, NEW v \in Values, L[id] = v
  PROVE  /\ Remove(b, id, v) \in Buckets
         /\ [L EXCEPT ![id] = NoValue] \in Listing
         /\ Sound(Remove(b, id, v), [L EXCEPT ![id] = NoValue])
<1> DEFINE n == Remove(b, id, v)
           d == Digest[v]
           left == b.exact[v] \ {id}
           M == [L EXCEPT ![id] = NoValue]
<1>1. /\ M \in Listing /\ M[id] = NoValue /\ \A o \in Ids \ {id} : M[o] = L[o]
      /\ NoValue \notin Values /\ NoId \notin Ids /\ v # NoValue /\ NoDigest \notin Digests
      /\ \A o \in Ids : L[o] \in Values \cup {NoValue}
  BY PropertyIndexAssumption DEF Listing
<1>2. /\ n \in Buckets
      /\ \A w \in Values \ {v} : n.exact[w] = b.exact[w]
      /\ \A e \in Digests \ {d} : n.single[e] = b.single[e]
      /\ \A o \in Ids : left = {o} /\ d \in Digests /\ b.single[d] = NoId =>
           n.exact[v] = {} /\ n.single[d] = o
      /\ (\A o \in Ids : left # {o}) \/ d = NoDigest \/ b.single[d] # NoId =>
           /\ n.exact[v] = left
           /\ d \in Digests =>
                n.single[d] = IF b.single[d] = id THEN NoId ELSE b.single[d]
      /\ d = NoDigest \/ d \in Digests
  BY RemoveCases
<1>3. /\ \A w \in Values : /\ b.exact[w] # {} => b.exact[w] = {i \in Ids : L[i] = w}
                           /\ b.exact[w] \subseteq {i \in Ids : L[i] = w}
      /\ \A i \in Ids, w \in Values : L[i] = w /\ b.exact[w] = {} =>
           Digest[w] \in Digests /\ b.single[Digest[w]] = i
      /\ \A e \in Digests, i \in Ids : b.single[e] = i =>
           L[i] \in Values /\ Digest[L[i]] = e /\ b.exact[L[i]] = {}
  BY SoundFacts
<1>4. \A e \in Digests : b.single[e] \in Ids \cup {NoId}
  BY DEF Buckets
<1>5. /\ \A w \in Values \ {v} : {i \in Ids : M[i] = w} = {i \in Ids : L[i] = w}
      /\ {i \in Ids : M[i] = v} = {i \in Ids : L[i] = v} \ {id}
  BY <1>1
<1>6. \A w \in Values \ {v} : n.exact[w] # {} => n.exact[w] = {i \in Ids : M[i] = w}
  BY <1>2, <1>3, <1>5
<1>7. CASE b.exact[v] # {}
  <2>1. left = {i \in Ids : M[i] = v}
    BY <1>3, <1>5, <1>7
  <2>2. d \in Digests => \A i \in Ids : b.single[d] = i => L[i] # v /\ i # id
    BY <1>3, <1>7
  <2>3. CASE \E o \in Ids : left = {o} /\ d \in Digests /\ b.single[d] = NoId
    <3>1. PICK o \in Ids : left = {o} /\ d \in Digests /\ b.single[d] = NoId
      BY <2>3
    <3>2. n.exact[v] = {} /\ n.single[d] = o
      BY <1>2, <3>1
    <3>3. \A w \in Values : n.exact[w] # {} => n.exact[w] = {i \in Ids : M[i] = w}
      BY <1>6, <3>2
    <3>4. \A i \in Ids, w \in Values : M[i] = w /\ n.exact[w] = {} =>
            Digest[w] \in Digests /\ n.single[Digest[w]] = i
      <4>1. ASSUME NEW i \in Ids, NEW w \in Values \ {v}, M[i] = w, n.exact[w] = {}
            PROVE  Digest[w] \in Digests /\ n.single[Digest[w]] = i
        <5>1. L[i] = w /\ b.exact[w] = {}
          BY <1>1, <1>2, <4>1
        <5>2. Digest[w] \in Digests /\ b.single[Digest[w]] = i
          BY <1>3, <5>1
        <5>3. Digest[w] # d
          BY <1>1, <3>1, <5>2
        <5> QED
          BY <1>2, <5>2, <5>3
      <4>2. \A i \in Ids : M[i] = v => i = o
        BY <2>1, <3>1
      <4> QED
        BY <3>1, <3>2, <4>1, <4>2
    <3>5. \A e \in Digests, i \in Ids : n.single[e] = i =>
            M[i] \in Values /\ Digest[M[i]] = e /\ n.exact[M[i]] = {}
      <4>1. ASSUME NEW e \in Digests \ {d}, NEW i \in Ids, n.single[e] = i
            PROVE  M[i] \in Values /\ Digest[M[i]] = e /\ n.exact[M[i]] = {}
        <5>1. L[i] \in Values /\ Digest[L[i]] = e /\ b.exact[L[i]] = {} /\ L[i] # v
          BY <1>2, <1>3, <4>1
        <5> QED
          BY <1>1, <1>2, <5>1
      <4>2. \A i \in Ids : n.single[d] = i => M[i] = v
        BY <2>1, <3>1, <3>2
      <4> QED
        BY <3>2, <4>1, <4>2
    <3> QED
      BY <1>1, <1>2, <3>3, <3>4, <3>5, SoundBy
  <2>4. CASE (\A o \in Ids : left # {o}) \/ d = NoDigest \/ b.single[d] # NoId
    <3>1. n.exact[v] = left /\ \A e \in Digests : n.single[e] = b.single[e]
      BY <1>2, <1>4, <2>2, <2>4
    <3>2. \A w \in Values : n.exact[w] # {} => n.exact[w] = {i \in Ids : M[i] = w}
      BY <1>6, <2>1, <3>1
    <3>3. \A i \in Ids, w \in Values : M[i] = w /\ n.exact[w] = {} =>
            Digest[w] \in Digests /\ n.single[Digest[w]] = i
      <4>1. ASSUME NEW i \in Ids, NEW w \in Values, M[i] = w, n.exact[w] = {}
            PROVE  Digest[w] \in Digests /\ n.single[Digest[w]] = i
        <5>1. w # v
          BY <2>1, <3>1, <4>1
        <5>2. L[i] = w /\ b.exact[w] = {}
          BY <1>1, <1>2, <4>1, <5>1
        <5> QED
          BY <1>3, <3>1, <5>2
      <4> QED
        BY <4>1
    <3>4. \A e \in Digests, i \in Ids : n.single[e] = i =>
            M[i] \in Values /\ Digest[M[i]] = e /\ n.exact[M[i]] = {}
      BY <1>1, <1>2, <1>3, <1>7, <3>1
    <3> QED
      BY <1>1, <1>2, <3>2, <3>3, <3>4, SoundBy
  <2> QED
    BY <1>2, <2>3, <2>4
<1>8. CASE b.exact[v] = {}
  <2>1. d \in Digests /\ b.single[d] = id
    BY <1>3, <1>8
  <2>2. n.exact[v] = {} /\ n.single[d] = NoId
    BY <1>1, <1>2, <1>8, <2>1
  <2>3. \A i \in Ids : M[i] # v
    BY <1>1, <1>3, <1>8, <2>1
  <2>4. \A w \in Values : n.exact[w] # {} => n.exact[w] = {i \in Ids : M[i] = w}
    BY <1>6, <2>2
  <2>5. \A i \in Ids, w \in Values : M[i] = w /\ n.exact[w] = {} =>
          Digest[w] \in Digests /\ n.single[Digest[w]] = i
    <3>1. ASSUME NEW i \in Ids, NEW w \in Values, M[i] = w, n.exact[w] = {}
          PROVE  Digest[w] \in Digests /\ n.single[Digest[w]] = i
      <4>1. w # v /\ i # id
        BY <1>1, <2>3, <3>1
      <4>2. L[i] = w /\ b.exact[w] = {}
        BY <1>1, <1>2, <3>1, <4>1
      <4>3. Digest[w] \in Digests /\ b.single[Digest[w]] = i
        BY <1>3, <4>2
      <4> QED
        BY <1>2, <2>1, <4>1, <4>3
    <3> QED
      BY <3>1
  <2>6. \A e \in Digests, i \in Ids : n.single[e] = i =>
          M[i] \in Values /\ Digest[M[i]] = e /\ n.exact[M[i]] = {}
    <3>1. ASSUME NEW e \in Digests, NEW i \in Ids, n.single[e] = i
          PROVE  M[i] \in Values /\ Digest[M[i]] = e /\ n.exact[M[i]] = {}
      <4>1. e # d /\ b.single[e] = i
        BY <1>1, <1>2, <2>2, <3>1
      <4>2. L[i] \in Values /\ Digest[L[i]] = e /\ b.exact[L[i]] = {} /\ L[i] # v
        BY <1>3, <4>1
      <4> QED
        BY <1>1, <1>2, <4>2
    <3> QED
      BY <3>1
  <2> QED
    BY <1>1, <1>2, <2>4, <2>5, <2>6, SoundBy
<1> QED
  BY <1>1, <1>2, <1>7, <1>8

\* Nothing to remove from empty buckets.
LEMMA RemoveNothing ==
  ASSUME NEW id \in Ids, NEW v \in Values
  PROVE  Remove(EmptyBuckets, id, v) = EmptyBuckets
<1> DEFINE n == Remove(EmptyBuckets, id, v)
           left == EmptyBuckets.exact[v] \ {id}
<1>1. left = {}
  BY DEF EmptyBuckets
<1>2. n = [exact  |-> [EmptyBuckets.exact EXCEPT ![v] = {}],
           single |-> [e \in Digests |->
                         IF e = Digest[v] /\ EmptyBuckets.single[e] = id THEN NoId
                         ELSE EmptyBuckets.single[e]]]
  BY <1>1 DEF Remove
<1>3. [EmptyBuckets.exact EXCEPT ![v] = {}] = EmptyBuckets.exact
  BY DEF EmptyBuckets
<1>4. \A e \in Digests : EmptyBuckets.single[e] = NoId
  BY DEF EmptyBuckets
<1>5. n = [exact |-> EmptyBuckets.exact, single |-> [e \in Digests |-> NoId]]
  BY <1>2, <1>3, <1>4
<1> QED
  BY <1>5 DEF EmptyBuckets

\* A lookup finds the nodes listed under its value.
LEMMA GetFinds ==
  ASSUME NEW L \in Listing, NEW b \in Buckets, Sound(b, L),
         NEW v \in Values, NEW H \in SUBSET Ids,
         \A i \in Ids : L[i] # NoValue => (i \in H <=> L[i] = v)
  PROVE  Get(b, v, H) = {i \in Ids : L[i] = v}
<1>1. /\ \A w \in Values : b.exact[w] # {} => b.exact[w] = {i \in Ids : L[i] = w}
      /\ \A i \in Ids, w \in Values : L[i] = w /\ b.exact[w] = {} =>
           Digest[w] \in Digests /\ b.single[Digest[w]] = i
      /\ \A e \in Digests, i \in Ids : b.single[e] = i =>
           L[i] \in Values /\ Digest[L[i]] = e /\ b.exact[L[i]] = {}
  BY SoundFacts
<1>2. /\ NoDigest \notin Digests /\ NoValue \notin Values
      /\ Digest[v] = NoDigest \/ Digest[v] \in Digests
  BY PropertyIndexAssumption
<1> QED
  BY <1>1, <1>2 DEF Get

\* The entries are the listing, the values of digest entries read back.
LEMMA EntriesAre ==
  ASSUME NEW L \in Listing, NEW b \in Buckets, Sound(b, L), NEW value \in Listing,
         \A i \in Ids : L[i] \in {NoValue, value[i]}
  PROVE  \A w \in Values, i \in Ids : <<w, i>> \in Entries(b, value) <=> L[i] = w
<1>1. /\ \A w \in Values : /\ b.exact[w] # {} => b.exact[w] = {i \in Ids : L[i] = w}
                           /\ b.exact[w] \subseteq {i \in Ids : L[i] = w}
      /\ \A i \in Ids, w \in Values : L[i] = w /\ b.exact[w] = {} =>
           Digest[w] \in Digests /\ b.single[Digest[w]] = i
      /\ \A e \in Digests, i \in Ids : b.single[e] = i =>
           L[i] \in Values /\ Digest[L[i]] = e /\ b.exact[L[i]] = {}
  BY SoundFacts
<1>2. NoValue \notin Values
  BY PropertyIndexAssumption
<1> TAKE w \in Values, i \in Ids
<1>3. <<w, i>> \in Entries(b, value) <=>
        \/ i \in b.exact[w]
        \/ value[i] = w /\ \E d \in Digests : b.single[d] = i
  BY DEF Entries
<1> QED
  BY <1>1, <1>2, <1>3

-----------------------------------------------------------------------------
(* Hooks over a whole index.                                               *)

\* All of a graph but the buckets.
Kept(g, n) ==
  /\ n.nodes = g.nodes /\ n.taken = g.taken /\ n.labels = g.labels /\ n.value = g.value
  /\ n.active = g.active /\ n.any_active = g.any_active /\ n.count = g.count

LabelSets == [Ids -> SUBSET Labels]

LEMMA UnderTyped ==
  ASSUME NEW S \in LabelSets, NEW M \in Listing, NEW s \in Scopes
  PROVE  Under(S, M, s) \in Listing
BY DEF Under, Listing

\* Relisting one node under a value.
LEMMA Relisted ==
  ASSUME NEW S \in LabelSets, NEW M \in Listing, NEW id \in Ids, NEW s \in Scopes,
         NEW u \in Values \cup {NoValue}
  PROVE  /\ [M EXCEPT ![id] = u] \in Listing
         /\ s \in ScopesOf(S[id]) =>
              Under(S, [M EXCEPT ![id] = u], s) = [Under(S, M, s) EXCEPT ![id] = u]
         /\ s \notin ScopesOf(S[id]) =>
              Under(S, [M EXCEPT ![id] = u], s) = Under(S, M, s)
<1> DEFINE N == [M EXCEPT ![id] = u]
<1>1. N \in Listing /\ N[id] = u /\ \A o \in Ids \ {id} : N[o] = M[o]
  BY DEF Listing
<1>2. \A i \in Ids : Under(S, N, s)[i] = IF s \in ScopesOf(S[i]) THEN N[i] ELSE NoValue
  BY DEF Under
<1>3. CASE s \in ScopesOf(S[id])
  BY <1>1, <1>3 DEF Under
<1>4. CASE s \notin ScopesOf(S[id])
  BY <1>1, <1>4 DEF Under
<1> QED
  BY <1>1, <1>3, <1>4

\* insert_with_scopes lists a node, in every scope it has and across them.
LEMMA InsertIntoLists ==
  ASSUME NEW g \in Graph, NEW S \in LabelSets, NEW M \in Listing,
         Lists(g, S, M), g.active, NEW id \in Ids, NEW v \in Values,
         M[id] = NoValue, \A o \in Ids \ {id} : M[o] = g.value[o]
  PROVE  LET n == InsertInto(g, id, ScopesOf(S[id]), v) IN
         /\ n \in Graph /\ Kept(g, n)
         /\ Lists(n, S, [M EXCEPT ![id] = v])
<1> DEFINE H == Holders(g, v)
           x == IF g.any_active THEN Insert(g.any, id, v, H) ELSE g.any
           f == [s \in Scopes |-> IF s \in ScopesOf(S[id])
                                  THEN Insert(g.scoped[s], id, v, H) ELSE g.scoped[s]]
           N == [M EXCEPT ![id] = v]
           n == InsertInto(g, id, ScopesOf(S[id]), v)
<1>1. /\ g.any \in Buckets /\ g.scoped \in [Scopes -> Buckets]
      /\ g.value \in Listing /\ H \in SUBSET Ids
      /\ \A i \in Ids : i \in H <=> g.value[i] = v
      /\ NoValue \notin Values
  BY PropertyIndexAssumption DEF Graph, Listing, Holders
<1>2. ASSUME NEW L \in Listing, NEW b \in Buckets, Sound(b, L), L[id] = NoValue,
             \A o \in Ids \ {id} : L[o] # NoValue => L[o] = M[o]
      PROVE  /\ Insert(b, id, v, H) \in Buckets
             /\ Sound(Insert(b, id, v, H), [L EXCEPT ![id] = v])
  <2>1. \A o \in Ids \ {id} : L[o] # NoValue => (o \in H <=> L[o] = v)
    BY <1>1, <1>2
  <2> QED
    BY <1>1, <1>2, <2>1, InsertSound
<1>3. ASSUME NEW s \in Scopes
      PROVE  f[s] \in Buckets /\ Sound(f[s], Under(S, N, s))
  <2>1. Under(S, M, s) \in Listing /\ g.scoped[s] \in Buckets /\ Sound(g.scoped[s], Under(S, M, s))
    BY <1>1, UnderTyped DEF Lists
  <2>2. /\ Under(S, M, s)[id] = NoValue
        /\ \A o \in Ids \ {id} : Under(S, M, s)[o] # NoValue => Under(S, M, s)[o] = M[o]
    BY DEF Under
  <2>3. /\ s \in ScopesOf(S[id]) => Under(S, N, s) = [Under(S, M, s) EXCEPT ![id] = v]
        /\ s \notin ScopesOf(S[id]) => Under(S, N, s) = Under(S, M, s)
    BY Relisted
  <2> HIDE DEF H, N
  <2> QED
    BY <1>2, <2>1, <2>2, <2>3
<1>4. x \in Buckets /\ (g.any_active => Sound(x, N))
  <2>1. g.any_active => Sound(g.any, M)
    BY DEF Lists
  <2> HIDE DEF H
  <2> QED
    BY <1>1, <1>2, <2>1
<1>5. f \in [Scopes -> Buckets]
  BY <1>3
<1>6. n = [g EXCEPT !.any = x, !.scoped = f]
  BY DEF InsertInto
<1> HIDE DEF H, N, n, x, f
<1>7. n \in Graph /\ Kept(g, n) /\ n.any = x /\ n.scoped = f
  BY <1>4, <1>5, <1>6 DEF Graph, Kept
<1>8. Lists(n, S, N)
  <2>1. ~g.any_active => x = EmptyBuckets
    BY DEF x, Lists
  <2> QED
    BY <1>3, <1>4, <1>7, <2>1 DEF Lists, Kept
<1> QED
  BY <1>7, <1>8 DEF n, N

\* remove_with_scopes drops it.
LEMMA RemoveFromLists ==
  ASSUME NEW g \in Graph, NEW S \in LabelSets, NEW M \in Listing,
         Lists(g, S, M), g.active, NEW id \in Ids, NEW v \in Values, M[id] = v
  PROVE  LET n == RemoveFrom(g, id, ScopesOf(S[id]), v) IN
         /\ n \in Graph /\ Kept(g, n)
         /\ Lists(n, S, [M EXCEPT ![id] = NoValue])
<1> DEFINE x == Remove(g.any, id, v)
           f == [s \in Scopes |-> IF s \in ScopesOf(S[id])
                                  THEN Remove(g.scoped[s], id, v) ELSE g.scoped[s]]
           N == [M EXCEPT ![id] = NoValue]
           n == RemoveFrom(g, id, ScopesOf(S[id]), v)
<1>1. g.any \in Buckets /\ g.scoped \in [Scopes -> Buckets]
  BY DEF Graph
<1>2. ASSUME NEW s \in Scopes
      PROVE  f[s] \in Buckets /\ Sound(f[s], Under(S, N, s))
  <2>1. Under(S, M, s) \in Listing /\ g.scoped[s] \in Buckets /\ Sound(g.scoped[s], Under(S, M, s))
    BY <1>1, UnderTyped DEF Lists
  <2>2. /\ s \in ScopesOf(S[id]) => Under(S, N, s) = [Under(S, M, s) EXCEPT ![id] = NoValue]
        /\ s \notin ScopesOf(S[id]) => Under(S, N, s) = Under(S, M, s)
    <3>1. NoValue \in Values \cup {NoValue}
      OBVIOUS
    <3> QED
      BY <3>1, Relisted
  <2>3. s \in ScopesOf(S[id]) => Under(S, M, s)[id] = v
    BY DEF Under
  <2> HIDE DEF N
  <2> QED
    BY <2>1, <2>2, <2>3, RemoveSound
<1>3. x \in Buckets /\ (g.any_active => Sound(x, N)) /\ (~g.any_active => x = EmptyBuckets)
  <2>1. CASE g.any_active
    BY <1>1, <2>1, RemoveSound DEF Lists
  <2>2. CASE ~g.any_active
    <3>1. g.any = EmptyBuckets
      BY <2>2 DEF Lists
    <3> QED
      BY <1>1, <2>2, <3>1, RemoveNothing
  <2> QED
    BY <2>1, <2>2
<1>4. f \in [Scopes -> Buckets]
  BY <1>2
<1>5. n = [g EXCEPT !.any = x, !.scoped = f]
  BY DEF RemoveFrom
<1> HIDE DEF N, n, x, f
<1>6. n \in Graph /\ Kept(g, n) /\ n.any = x /\ n.scoped = f
  BY <1>3, <1>4, <1>5 DEF Graph, Kept
<1>7. Lists(n, S, N)
  BY <1>2, <1>3, <1>6 DEF Lists, Kept
<1> QED
  BY <1>6, <1>7 DEF n, N

\* An index that is not active lists nothing, whatever the records are.
LEMMA InactiveLists ==
  ASSUME NEW g, NEW S, NEW M, NEW T, NEW N, Lists(g, S, M), ~g.active
  PROVE  Lists(g, T, N)
BY DEF Lists

\* A node under no value may change its labels.
LEMMA RelabelledLists ==
  ASSUME NEW g, NEW S \in LabelSets, NEW T \in LabelSets, NEW M \in Listing,
         Lists(g, S, M), NEW id \in Ids, M[id] = NoValue,
         \A o \in Ids \ {id} : T[o] = S[o]
  PROVE  Lists(g, T, M)
<1>1. \A s \in Scopes : Under(T, M, s) = Under(S, M, s)
  <2>1. ASSUME NEW s \in Scopes, NEW i \in Ids
        PROVE  Under(T, M, s)[i] = Under(S, M, s)[i]
    BY DEF Under
  <2> QED
    BY <2>1 DEF Under
<1> QED
  BY <1>1 DEF Lists

\* Only the buckets and the two flags matter.
LEMMA SameIndex ==
  ASSUME NEW g, NEW n, NEW S, NEW M, Lists(g, S, M),
         n.active = g.active, n.any_active = g.any_active,
         n.scoped = g.scoped, n.any = g.any
  PROVE  Lists(n, S, M)
BY DEF Lists

\* The hook of a property that is set.
LEMMA HookSets ==
  ASSUME NEW g \in Graph, NEW M \in Listing, Lists(g, g.labels, M), Counted(g),
         NEW id \in Ids, NEW v \in Values, \A o \in Ids \ {id} : M[o] = g.value[o]
  PROVE  LET n == on_node_property_set(g, id, M[id], v) IN
         /\ n \in Graph /\ Kept(g, n)
         /\ Lists(n, g.labels, [M EXCEPT ![id] = v])
<1> DEFINE old == M[id]
           N == [M EXCEPT ![id] = NoValue]
           O == [M EXCEPT ![id] = v]
           n == on_node_property_set(g, id, old, v)
           unset == RemoveFrom(g, id, ScopesOf(g.labels[id]), old)
<1>1. /\ g.labels \in LabelSets /\ old \in Values \cup {NoValue}
      /\ N \in Listing /\ N[id] = NoValue /\ \A o \in Ids \ {id} : N[o] = M[o]
      /\ O = [N EXCEPT ![id] = v]
  BY DEF Graph, LabelSets, Listing
<1>2. CASE ~g.active
  <2>1. n = g
    BY <1>2 DEF on_node_property_set, Maintained
  <2>2. Lists(n, g.labels, O)
    BY <1>2, <2>1, InactiveLists
  <2> QED
    BY <2>1, <2>2 DEF Kept
<1>3. CASE g.active /\ old = NoValue
  <2>1. n = InsertInto(g, id, ScopesOf(g.labels[id]), v)
    BY <1>3 DEF on_node_property_set, Maintained, Counted
  <2> QED
    BY <1>1, <1>3, <2>1, InsertIntoLists
<1>4. CASE g.active /\ old # NoValue
  <2>1. n = InsertInto(unset, id, ScopesOf(g.labels[id]), v)
    BY <1>4 DEF on_node_property_set, Maintained, Counted
  <2>2. unset \in Graph /\ Kept(g, unset) /\ Lists(unset, g.labels, N)
    <3>1. old \in Values
      BY <1>1, <1>4
    <3> QED
      BY <1>1, <1>4, <3>1, RemoveFromLists
  <2> HIDE DEF unset, N, O, n
  <2>3. \A o \in Ids \ {id} : N[o] = unset.value[o]
    BY <1>1, <2>2 DEF Kept
  <2> DEFINE m == InsertInto(unset, id, ScopesOf(g.labels[id]), v)
  <2>5. unset.active
    BY <1>4, <2>2 DEF Kept
  <2>6. m \in Graph /\ Kept(unset, m) /\ Lists(m, g.labels, [N EXCEPT ![id] = v])
    BY <1>1, <2>2, <2>3, <2>5, InsertIntoLists
  <2> HIDE DEF m
  <2>4. n \in Graph /\ Kept(unset, n) /\ Lists(n, g.labels, O)
    BY <1>1, <2>1, <2>6 DEF m
  <2> QED
    BY <2>2, <2>4 DEF Kept, n, O
<1> QED
  BY <1>2, <1>3, <1>4

-----------------------------------------------------------------------------
(* Edits.                                                                  *)

\* A graph no edit has left wrong.
Whole(g) == g \in Graph /\ IndexSound(g) /\ Counted(g)

\* The record of a node changes, its index does not yet.
LEMMA RecordChanges ==
  ASSUME NEW g, Whole(g), NEW n,
         n.active = g.active, n.any_active = g.any_active, n.count = g.count,
         n.scoped = g.scoped, n.any = g.any
  PROVE  /\ Counted(n) /\ Lists(n, g.labels, g.value)
         /\ g \in Graph /\ g.labels \in LabelSets /\ g.value \in Listing
         /\ g.nodes \in SUBSET Ids /\ g.taken \in SUBSET Ids /\ g.nodes \subseteq g.taken
         /\ \A o \in Ids \ g.nodes : g.value[o] = NoValue
<1>1. Lists(n, g.labels, g.value)
  <2>1. Lists(g, g.labels, g.value)
    BY DEF Whole, IndexSound
  <2> QED
    BY <2>1, SameIndex
<1> QED
  BY <1>1 DEF Whole, IndexSound, Counted, Graph, LabelSets, Listing

LEMMA CreateSound ==
  ASSUME NEW g, Whole(g), NEW id \in Ids \ g.taken,
         NEW ls \in SUBSET Labels, NEW v \in Values \cup {NoValue}
  PROVE  Whole(CreateNode(g, id, ls, v))
<1> DEFINE r == [g EXCEPT !.nodes = @ \cup {id}, !.taken = @ \cup {id},
                          !.labels[id] = ls, !.value[id] = v]
           n == on_node_created(r, id)
<1>0. /\ g \in Graph /\ id \in Ids /\ g.nodes \subseteq g.taken
      /\ g.nodes \cup {id} \in SUBSET Ids /\ g.taken \cup {id} \in SUBSET Ids
  BY DEF Whole, Graph, IndexSound
<1>2. /\ r \in Graph
      /\ r.nodes = g.nodes \cup {id} /\ r.taken = g.taken \cup {id}
      /\ r.labels = [g.labels EXCEPT ![id] = ls]
      /\ r.value = [g.value EXCEPT ![id] = v]
      /\ r.active = g.active /\ r.any_active = g.any_active /\ r.count = g.count
      /\ r.scoped = g.scoped /\ r.any = g.any
  BY <1>0 DEF Graph
<1> HIDE DEF r
<1>3. /\ Counted(r) /\ Lists(r, g.labels, g.value)
      /\ g.labels \in LabelSets /\ g.value \in Listing
      /\ \A o \in Ids \ g.nodes : g.value[o] = NoValue
  BY <1>2, RecordChanges
<1>1. g.value[id] = NoValue
  BY <1>0, <1>3
<1>4. /\ r.labels \in LabelSets /\ \A o \in Ids \ {id} : r.labels[o] = g.labels[o]
      /\ \A o \in Ids \ {id} : g.value[o] = r.value[o]
      /\ r.value[id] = v /\ r.value \in Listing
  BY <1>2, <1>3 DEF LabelSets, Listing
<1>5. Lists(r, r.labels, g.value)
  BY <1>0, <1>1, <1>3, <1>4, RelabelledLists
<1>6. n \in Graph /\ Kept(r, n) /\ Lists(n, r.labels, r.value)
  <2>1. CASE v = NoValue
    <3>1. n = r /\ r.value = g.value
      BY <1>1, <1>2, <1>3, <1>4, <2>1 DEF on_node_created, Listing
    <3> QED
      BY <1>2, <1>5, <3>1 DEF Kept
  <2>2. CASE ~r.active
    <3>1. n = r
      BY <2>2 DEF on_node_created, Maintained
    <3> QED
      BY <1>2, <1>5, <2>2, <3>1, InactiveLists DEF Kept
  <2>3. CASE r.active /\ v # NoValue
    <3>1. n = InsertInto(r, id, ScopesOf(r.labels[id]), v)
      BY <1>3, <1>4, <2>3 DEF on_node_created, Maintained, Counted
    <3>2. v \in Values
      BY <2>3
    <3> DEFINE m == InsertInto(r, id, ScopesOf(r.labels[id]), v)
    <3>3. m \in Graph /\ Kept(r, m) /\ Lists(m, r.labels, [g.value EXCEPT ![id] = v])
      BY <1>0, <1>1, <1>2, <1>3, <1>4, <1>5, <2>3, <3>2, InsertIntoLists
    <3> HIDE DEF m
    <3> QED
      BY <1>2, <3>1, <3>3 DEF m
  <2> QED
    BY <2>1, <2>2, <2>3
<1>7. IndexSound(n)
  <2>1. \A o \in Ids \ n.nodes : n.value[o] = NoValue
    BY <1>0, <1>2, <1>3, <1>4, <1>6 DEF Kept
  <2> QED
    BY <1>0, <1>2, <1>6, <2>1 DEF IndexSound, Kept
<1>8. CreateNode(g, id, ls, v) = n
  BY DEF CreateNode, r
<1> HIDE DEF n
<1> QED
  BY <1>3, <1>6, <1>7, <1>8 DEF Whole, Counted, Kept

LEMMA SetSound ==
  ASSUME NEW g, Whole(g), NEW id \in g.nodes, NEW v \in Values, NEW w \in Values
  PROVE  Whole(SetProperty(g, id, v)) /\ Whole(UpdateTwice(g, id, v, w))
<1>1. /\ g \in Graph /\ IndexSound(g) /\ Counted(g) /\ id \in Ids
      /\ g.nodes \in SUBSET Ids /\ g.taken \in SUBSET Ids /\ g.labels[id] \in SUBSET Labels
      /\ g.nodes \subseteq g.taken
      /\ \A o \in Ids \ g.nodes : g.value[o] = NoValue
  BY DEF Whole, Graph, IndexSound
<1>2. ASSUME NEW u \in Values, NEW r, r = [g EXCEPT !.value[id] = u]
      PROVE  /\ r \in Graph /\ Counted(r) /\ r.nodes = g.nodes /\ r.taken = g.taken
             /\ r.labels = g.labels /\ r.value = [g.value EXCEPT ![id] = u]
             /\ g.value \in Listing /\ Lists(r, r.labels, g.value)
             /\ \A o \in Ids \ {id} : g.value[o] = r.value[o]
  <2>1. /\ r \in Graph /\ r.nodes = g.nodes /\ r.taken = g.taken
        /\ r.labels = g.labels /\ r.value = [g.value EXCEPT ![id] = u]
        /\ r.active = g.active /\ r.any_active = g.any_active /\ r.count = g.count
        /\ r.scoped = g.scoped /\ r.any = g.any
    BY <1>1, <1>2 DEF Graph
  <2>2. g.value \in Listing
    BY <1>1 DEF Graph, Listing
  <2>3. Lists(r, r.labels, g.value)
    BY <1>1, <2>1, SameIndex DEF IndexSound
  <2> QED
    BY <1>1, <2>1, <2>2, <2>3 DEF Counted, Listing
<1>3. ASSUME NEW r \in Graph, NEW n \in Graph, Kept(r, n), Lists(n, r.labels, r.value),
             r.nodes = g.nodes, r.taken = g.taken, Counted(r), NEW u \in Values,
             r.value = [g.value EXCEPT ![id] = u]
      PROVE  Whole(n)
  <2>1. \A o \in Ids \ n.nodes : n.value[o] = NoValue
    BY <1>1, <1>3 DEF Kept, Graph
  <2>2. n.nodes \subseteq n.taken /\ Lists(n, n.labels, n.value) /\ Counted(n)
    BY <1>1, <1>3 DEF Kept, Counted
  <2> QED
    BY <2>1, <2>2 DEF Whole, IndexSound
<1>4. Whole(SetProperty(g, id, v))
  <2> DEFINE r == [g EXCEPT !.value[id] = v]
             n == on_node_property_set(r, id, g.value[id], v)
  <2>1. /\ r \in Graph /\ Counted(r) /\ r.nodes = g.nodes /\ r.taken = g.taken
        /\ r.labels = g.labels /\ r.value = [g.value EXCEPT ![id] = v]
        /\ g.value \in Listing /\ Lists(r, r.labels, g.value)
        /\ \A o \in Ids \ {id} : g.value[o] = r.value[o]
    BY <1>2
  <2> HIDE DEF r
  <2>2. n \in Graph /\ Kept(r, n) /\ Lists(n, r.labels, [g.value EXCEPT ![id] = v])
    BY <1>1, <2>1, HookSets
  <2> HIDE DEF n
  <2>3. Whole(n)
    BY <1>3, <2>1, <2>2
  <2> QED
    BY <2>3 DEF SetProperty, n, r
<1>5. Whole(UpdateTwice(g, id, v, w))
  <2> DEFINE r == [g EXCEPT !.value[id] = w]
             m == on_node_property_set(r, id, g.value[id], v)
             n == on_node_property_set(m, id, v, w)
             M == [g.value EXCEPT ![id] = v]
  <2>1. /\ r \in Graph /\ Counted(r) /\ r.nodes = g.nodes /\ r.taken = g.taken
        /\ r.labels = g.labels /\ r.value = [g.value EXCEPT ![id] = w]
        /\ g.value \in Listing /\ Lists(r, r.labels, g.value)
        /\ \A o \in Ids \ {id} : g.value[o] = r.value[o]
    BY <1>2
  <2> HIDE DEF r
  <2>2. m \in Graph /\ Kept(r, m) /\ Lists(m, r.labels, M)
    BY <1>1, <2>1, HookSets
  <2> HIDE DEF m
  <2>3. /\ M \in Listing /\ M[id] = v /\ [M EXCEPT ![id] = w] = r.value
        /\ \A o \in Ids \ {id} : M[o] = m.value[o]
    BY <1>1, <2>1, <2>2 DEF Listing, Kept
  <2> HIDE DEF M
  <2>4. Lists(m, m.labels, M) /\ Counted(m) /\ m.labels = r.labels
    BY <2>1, <2>2 DEF Kept, Counted
  <2>5. /\ on_node_property_set(m, id, M[id], w) \in Graph
        /\ Kept(m, on_node_property_set(m, id, M[id], w))
        /\ Lists(on_node_property_set(m, id, M[id], w), m.labels, [M EXCEPT ![id] = w])
    BY <1>1, <2>2, <2>3, <2>4, HookSets
  <2>6. n \in Graph /\ Kept(r, n) /\ Lists(n, r.labels, r.value)
    BY <2>2, <2>3, <2>4, <2>5 DEF Kept
  <2> HIDE DEF n
  <2>7. Whole(n)
    BY <1>3, <2>1, <2>6
  <2> QED
    BY <2>7 DEF UpdateTwice, n, m, r
<1> QED
  BY <1>4, <1>5

LEMMA RemovePropertySound ==
  ASSUME NEW g, Whole(g), NEW id \in g.nodes, g.value[id] # NoValue
  PROVE  Whole(RemoveProperty(g, id))
<1> DEFINE r == [g EXCEPT !.value[id] = NoValue]
           old == g.value[id]
           n == on_node_property_removed(r, id, old)
           m == RemoveFrom(r, id, ScopesOf(r.labels[id]), old)
<1>1. g \in Graph /\ id \in Ids /\ old \in Values
  BY DEF Whole, Graph
<1>2. /\ r \in Graph /\ r.nodes = g.nodes /\ r.taken = g.taken /\ r.labels = g.labels
      /\ r.value = [g.value EXCEPT ![id] = NoValue]
      /\ r.active = g.active /\ r.any_active = g.any_active /\ r.count = g.count
      /\ r.scoped = g.scoped /\ r.any = g.any
  BY <1>1 DEF Graph
<1> HIDE DEF r
<1>3. /\ Counted(r) /\ Lists(r, g.labels, g.value)
      /\ g.labels \in LabelSets /\ g.value \in Listing /\ g.nodes \subseteq g.taken
      /\ \A o \in Ids \ g.nodes : g.value[o] = NoValue
  BY <1>2, RecordChanges
<1>4. n \in Graph /\ Kept(r, n) /\ Lists(n, r.labels, r.value)
  <2>1. CASE ~r.active
    <3>1. n = r
      BY <2>1 DEF on_node_property_removed, Maintained
    <3> QED
      BY <1>2, <1>3, <2>1, <3>1, InactiveLists DEF Kept
  <2>2. CASE r.active
    <3>1. n = m
      BY <1>3, <2>2 DEF on_node_property_removed, Maintained, Counted
    <3>2. m \in Graph /\ Kept(r, m) /\ Lists(m, r.labels, [g.value EXCEPT ![id] = NoValue])
      BY <1>1, <1>2, <1>3, <2>2, RemoveFromLists
    <3> HIDE DEF m, n
    <3> QED
      BY <1>2, <3>1, <3>2
  <2> QED
    BY <2>1, <2>2
<1>5. RemoveProperty(g, id) = n
  BY DEF RemoveProperty, r
<1> HIDE DEF n
<1>6. \A o \in Ids \ n.nodes : n.value[o] = NoValue
  BY <1>1, <1>2, <1>3, <1>4 DEF Kept, Listing
<1> QED
  BY <1>2, <1>3, <1>4, <1>5, <1>6 DEF Whole, IndexSound, Counted, Kept

LEMMA DeleteSound ==
  ASSUME NEW g, Whole(g), NEW id \in g.nodes
  PROVE  Whole(DeleteNode(g, id))
<1> DEFINE r == [g EXCEPT !.nodes = @ \ {id}, !.labels[id] = {}, !.value[id] = NoValue]
           old == g.value[id]
           n == on_node_deleted(r, id, g.labels[id], old)
           m == RemoveFrom(r, id, ScopesOf(g.labels[id]), old)
<1>1. g \in Graph /\ id \in Ids /\ old \in Values \cup {NoValue}
  BY DEF Whole, Graph
<1>2. /\ r \in Graph /\ r.nodes = g.nodes \ {id} /\ r.taken = g.taken
      /\ r.labels = [g.labels EXCEPT ![id] = {}]
      /\ r.value = [g.value EXCEPT ![id] = NoValue]
      /\ r.active = g.active /\ r.any_active = g.any_active /\ r.count = g.count
      /\ r.scoped = g.scoped /\ r.any = g.any
  BY <1>1 DEF Graph
<1> HIDE DEF r
<1>3. /\ Counted(r) /\ Lists(r, g.labels, g.value)
      /\ g.labels \in LabelSets /\ g.value \in Listing /\ g.nodes \subseteq g.taken
      /\ \A o \in Ids \ g.nodes : g.value[o] = NoValue
  BY <1>2, RecordChanges
<1>4. /\ r.labels \in LabelSets /\ \A o \in Ids \ {id} : r.labels[o] = g.labels[o]
      /\ r.value \in Listing /\ r.value[id] = NoValue
      /\ \A o \in Ids \ {id} : r.value[o] = g.value[o]
  BY <1>1, <1>2, <1>3 DEF LabelSets, Listing
<1>5. n \in Graph /\ Kept(r, n) /\ Lists(n, g.labels, r.value)
  <2>1. CASE ~r.active
    <3>1. n = r
      BY <2>1 DEF on_node_deleted, Maintained
    <3> QED
      BY <1>2, <1>3, <2>1, <3>1, InactiveLists DEF Kept
  <2>2. CASE old = NoValue
    <3>1. n = r /\ r.value = g.value
      BY <1>1, <1>2, <1>3, <2>2 DEF on_node_deleted, Listing
    <3> QED
      BY <1>2, <1>3, <3>1 DEF Kept
  <2>3. CASE r.active /\ old # NoValue
    <3>1. n = m
      BY <1>3, <2>3 DEF on_node_deleted, Maintained, Counted
    <3>2. m \in Graph /\ Kept(r, m) /\ Lists(m, g.labels, [g.value EXCEPT ![id] = NoValue])
      BY <1>1, <1>2, <1>3, <2>3, RemoveFromLists
    <3> HIDE DEF m, n
    <3> QED
      BY <1>2, <3>1, <3>2
  <2> QED
    BY <2>1, <2>2, <2>3
<1>6. DeleteNode(g, id) = n
  BY DEF DeleteNode, r
<1> HIDE DEF n
<1>7. Lists(n, n.labels, n.value)
  <2>1. Lists(n, r.labels, r.value)
    BY <1>1, <1>3, <1>4, <1>5, RelabelledLists
  <2> QED
    BY <1>5, <2>1 DEF Kept
<1>8. \A o \in Ids \ n.nodes : n.value[o] = NoValue
  BY <1>1, <1>2, <1>3, <1>4, <1>5 DEF Kept
<1> QED
  BY <1>2, <1>3, <1>5, <1>6, <1>7, <1>8 DEF Whole, IndexSound, Counted, Kept

\* DROP INDEX.
LEMMA DeactivateSound ==
  ASSUME NEW g, Whole(g)
  PROVE  Whole(deactivate(g))
<1> DEFINE n == deactivate(g)
<1>1. EmptyBuckets \in Buckets
  BY DEF EmptyBuckets, Buckets
<1>2. g \in Graph
  BY DEF Whole
<1>3. /\ n \in Graph /\ n.nodes = g.nodes /\ n.taken = g.taken /\ n.labels = g.labels
      /\ n.value = g.value /\ n.active = FALSE /\ n.any_active = FALSE
      /\ n.scoped = [s \in Scopes |-> EmptyBuckets] /\ n.any = EmptyBuckets
  BY <1>1, <1>2 DEF deactivate, Graph
<1> HIDE DEF n
<1> QED
  BY <1>3 DEF Whole, IndexSound, Lists, Counted, n

-----------------------------------------------------------------------------
(* Labels.                                                                 *)

\* insert_scoped and remove_scoped change one scope's buckets.
LEMMA InsertScopedIs ==
  ASSUME NEW g \in Graph, NEW s \in Scopes, NEW id \in Ids, NEW v \in Values
  PROVE  LET n == InsertScoped(g, id, s, v) IN
         /\ n \in Graph /\ Kept(g, n) /\ n.any = g.any
         /\ n.scoped[s] = Insert(g.scoped[s], id, v, Holders(g, v))
         /\ \A t \in Scopes \ {s} : n.scoped[t] = g.scoped[t]
<1> DEFINE x == Insert(g.scoped[s], id, v, Holders(g, v))
           n == InsertScoped(g, id, s, v)
<1>1. g.scoped[s] \in Buckets /\ Holders(g, v) \in SUBSET Ids
  BY DEF Graph, Holders
<1>2. x \in Buckets
  BY <1>1, InsertCases
<1>3. n = [g EXCEPT !.scoped[s] = x]
  BY DEF InsertScoped, Graph
<1> HIDE DEF x, n
<1>4. /\ n \in Graph /\ Kept(g, n) /\ n.any = g.any
      /\ n.scoped[s] = x /\ \A t \in Scopes \ {s} : n.scoped[t] = g.scoped[t]
  BY <1>2, <1>3 DEF Graph, Kept
<1> QED
  BY <1>4 DEF x, n

LEMMA RemoveScopedIs ==
  ASSUME NEW g \in Graph, NEW s \in Scopes, NEW id \in Ids, NEW v \in Values
  PROVE  LET n == RemoveScoped(g, id, s, v) IN
         /\ n \in Graph /\ Kept(g, n) /\ n.any = g.any
         /\ n.scoped[s] = Remove(g.scoped[s], id, v)
         /\ \A t \in Scopes \ {s} : n.scoped[t] = g.scoped[t]
<1> DEFINE x == Remove(g.scoped[s], id, v)
           n == RemoveScoped(g, id, s, v)
<1>1. g.scoped[s] \in Buckets
  BY DEF Graph
<1>2. x \in Buckets
  BY <1>1, RemoveCases
<1>3. n = [g EXCEPT !.scoped[s] = x]
  BY DEF RemoveScoped, Graph
<1> HIDE DEF x, n
<1>4. /\ n \in Graph /\ Kept(g, n) /\ n.any = g.any
      /\ n.scoped[s] = x /\ \A t \in Scopes \ {s} : n.scoped[t] = g.scoped[t]
  BY <1>2, <1>3 DEF Graph, Kept
<1> QED
  BY <1>4 DEF x, n

\* A node moves between scopes.
LEMMA Moved ==
  ASSUME NEW S \in LabelSets, NEW T \in LabelSets, NEW M \in Listing, NEW id \in Ids,
         \A o \in Ids \ {id} : T[o] = S[o], NEW s \in Scopes
  PROVE  /\ s \in ScopesOf(T[id]) => Under(T, M, s) = [Under(S, M, s) EXCEPT ![id] = M[id]]
         /\ s \notin ScopesOf(T[id]) => Under(T, M, s) = [Under(S, M, s) EXCEPT ![id] = NoValue]
         /\ (s \in ScopesOf(T[id]) <=> s \in ScopesOf(S[id])) => Under(T, M, s) = Under(S, M, s)
         /\ s \in ScopesOf(S[id]) => Under(S, M, s)[id] = M[id]
         /\ s \notin ScopesOf(S[id]) => Under(S, M, s)[id] = NoValue
<1>1. \A i \in Ids \ {id} : Under(T, M, s)[i] = Under(S, M, s)[i]
  BY DEF Under
<1>2. /\ s \in ScopesOf(T[id]) => Under(T, M, s)[id] = M[id]
      /\ s \notin ScopesOf(T[id]) => Under(T, M, s)[id] = NoValue
      /\ s \in ScopesOf(S[id]) => Under(S, M, s)[id] = M[id]
      /\ s \notin ScopesOf(S[id]) => Under(S, M, s)[id] = NoValue
  BY DEF Under
<1>3. Under(T, M, s) \in Listing /\ Under(S, M, s) \in Listing
  BY UnderTyped
<1> HIDE DEF Under
<1> QED
  BY <1>1, <1>2, <1>3 DEF Listing

\* Relisting a node in one scope, once it moved there or away.
LEMMA ScopeSound ==
  ASSUME NEW g \in Graph, NEW S \in LabelSets, NEW T \in LabelSets, NEW M \in Listing,
         NEW id \in Ids, \A o \in Ids \ {id} : T[o] = S[o],
         NEW s \in Scopes, Sound(g.scoped[s], Under(S, M, s)), M = g.value, M[id] # NoValue
  PROVE  /\ s \in ScopesOf(T[id]) \ ScopesOf(S[id]) =>
              Sound(Insert(g.scoped[s], id, M[id], Holders(g, M[id])), Under(T, M, s))
         /\ s \in ScopesOf(S[id]) \ ScopesOf(T[id]) =>
              Sound(Remove(g.scoped[s], id, M[id]), Under(T, M, s))
         /\ (s \in ScopesOf(T[id]) <=> s \in ScopesOf(S[id])) =>
              Sound(g.scoped[s], Under(T, M, s))
<1> DEFINE L == Under(S, M, s)
           N == Under(T, M, s)
           H == Holders(g, M[id])
<1>1. /\ L \in Listing /\ N \in Listing /\ g.scoped[s] \in Buckets
      /\ M[id] \in Values /\ H \in SUBSET Ids /\ \A i \in Ids : i \in H <=> M[i] = M[id]
  BY UnderTyped DEF Graph, Holders, Listing
<1>2. /\ s \in ScopesOf(T[id]) => N = [L EXCEPT ![id] = M[id]]
      /\ s \notin ScopesOf(T[id]) => N = [L EXCEPT ![id] = NoValue]
      /\ (s \in ScopesOf(T[id]) <=> s \in ScopesOf(S[id])) => N = L
      /\ s \in ScopesOf(S[id]) => L[id] = M[id]
      /\ s \notin ScopesOf(S[id]) => L[id] = NoValue
  BY Moved
<1>3. \A o \in Ids \ {id} : L[o] # NoValue => L[o] = M[o]
  BY DEF Under
<1>4. \A o \in Ids \ {id} : L[o] # NoValue => (o \in H <=> L[o] = M[id])
  BY <1>1, <1>3
<1>5. ASSUME s \in ScopesOf(T[id]) \ ScopesOf(S[id])
      PROVE  Sound(Insert(g.scoped[s], id, M[id], H), N)
  <2> HIDE DEF L, N, H
  <2>1. Sound(g.scoped[s], L) /\ L[id] = NoValue /\ N = [L EXCEPT ![id] = M[id]]
    BY <1>2, <1>5 DEF L
  <2> QED
    BY <1>1, <1>4, <2>1, InsertSound
<1>6. ASSUME s \in ScopesOf(S[id]) \ ScopesOf(T[id])
      PROVE  Sound(Remove(g.scoped[s], id, M[id]), N)
  <2> HIDE DEF L, N, H
  <2>1. Sound(g.scoped[s], L) /\ L[id] = M[id] /\ N = [L EXCEPT ![id] = NoValue]
    BY <1>2, <1>6 DEF L
  <2> QED
    BY <1>1, <2>1, RemoveSound
<1> QED
  BY <1>2, <1>5, <1>6

LEMMA AddLabelSound ==
  ASSUME NEW g, Whole(g), NEW id \in g.nodes, NEW l \in Labels, l \notin g.labels[id]
  PROVE  Whole(AddLabel(g, id, l))
<1> DEFINE r == [g EXCEPT !.labels[id] = @ \cup {l}]
           v == g.value[id]
           n == on_node_label_added(r, id, l)
<1>1. /\ g \in Graph /\ id \in Ids /\ v \in Values \cup {NoValue}
      /\ g.labels[id] \in SUBSET Labels
      /\ Unlabelled \notin Labels /\ l \in Scopes /\ Unlabelled \in Scopes
  BY PropertyIndexAssumption DEF Whole, Graph, Scopes
<1>2. /\ r \in Graph /\ r.nodes = g.nodes /\ r.taken = g.taken /\ r.value = g.value
      /\ r.labels = [g.labels EXCEPT ![id] = g.labels[id] \cup {l}]
      /\ r.active = g.active /\ r.any_active = g.any_active /\ r.count = g.count
      /\ r.scoped = g.scoped /\ r.any = g.any
  BY <1>1 DEF Graph
<1> HIDE DEF r
<1>3. /\ Counted(r) /\ Lists(r, g.labels, g.value)
      /\ g.labels \in LabelSets /\ g.value \in Listing /\ g.nodes \subseteq g.taken
      /\ \A o \in Ids \ g.nodes : g.value[o] = NoValue
  BY <1>2, RecordChanges
<1>4. /\ r.labels \in LabelSets /\ \A o \in Ids \ {id} : r.labels[o] = g.labels[o]
      /\ ScopesOf(r.labels[id]) = g.labels[id] \cup {l}
      /\ r.labels[id] = {l} <=> g.labels[id] = {}
  BY <1>1, <1>2, <1>3 DEF LabelSets, ScopesOf
<1>5. n \in Graph /\ Kept(r, n) /\ Lists(n, r.labels, r.value)
  <2>1. CASE ~r.active \/ v = NoValue
    <3>1. n = r
      BY <1>2, <2>1 DEF on_node_label_added, Maintained
    <3>2. Lists(r, r.labels, g.value)
      <4>1. CASE ~r.active
        BY <1>3, <4>1, InactiveLists
      <4>2. CASE v = NoValue
        BY <1>1, <1>3, <1>4, <4>2, RelabelledLists
      <4> QED
        BY <2>1, <4>1, <4>2
    <3> QED
      BY <1>2, <3>1, <3>2 DEF Kept
  <2>2. CASE r.active /\ v # NoValue
    <3> DEFINE listed == InsertScoped(r, id, l, v)
               m == RemoveScoped(listed, id, Unlabelled, v)
    <3>1. n = IF r.labels[id] = {l} THEN m ELSE listed
      BY <1>2, <1>3, <2>2 DEF on_node_label_added, Maintained, Counted
    <3>2. v \in Values
      BY <1>1, <2>2
    <3>3. /\ listed \in Graph /\ Kept(r, listed) /\ listed.any = r.any
          /\ listed.scoped[l] = Insert(r.scoped[l], id, v, Holders(r, v))
          /\ \A t \in Scopes \ {l} : listed.scoped[t] = r.scoped[t]
      BY <1>1, <1>2, <3>2, InsertScopedIs
    <3> HIDE DEF listed
    <3>4. /\ m \in Graph /\ Kept(listed, m) /\ m.any = listed.any
          /\ m.scoped[Unlabelled] = Remove(listed.scoped[Unlabelled], id, v)
          /\ \A t \in Scopes \ {Unlabelled} : m.scoped[t] = listed.scoped[t]
      BY <1>1, <3>2, <3>3, RemoveScopedIs
    <3> HIDE DEF m, n
    <3>5. /\ n \in Graph /\ Kept(r, n) /\ n.any = r.any
          /\ n.scoped[l] = Insert(r.scoped[l], id, v, Holders(r, v))
          /\ g.labels[id] = {} => n.scoped[Unlabelled] = Remove(r.scoped[Unlabelled], id, v)
          /\ g.labels[id] # {} => n.scoped[Unlabelled] = r.scoped[Unlabelled]
          /\ \A t \in Scopes \ {l, Unlabelled} : n.scoped[t] = r.scoped[t]
      BY <1>1, <1>4, <3>1, <3>3, <3>4 DEF Kept
    <3>6. ASSUME NEW s \in Scopes
          PROVE  Sound(n.scoped[s], Under(r.labels, g.value, s))
      <4>1. /\ s \in ScopesOf(r.labels[id]) \ ScopesOf(g.labels[id]) =>
                 Sound(Insert(r.scoped[s], id, v, Holders(r, v)), Under(r.labels, g.value, s))
            /\ s \in ScopesOf(g.labels[id]) \ ScopesOf(r.labels[id]) =>
                 Sound(Remove(r.scoped[s], id, v), Under(r.labels, g.value, s))
            /\ (s \in ScopesOf(r.labels[id]) <=> s \in ScopesOf(g.labels[id])) =>
                 Sound(r.scoped[s], Under(r.labels, g.value, s))
        <5>1. Sound(r.scoped[s], Under(g.labels, g.value, s))
          BY <1>3, <2>2 DEF Lists
        <5> QED
          BY <1>1, <1>2, <1>3, <1>4, <2>2, <5>1, ScopeSound
      <4>2. CASE s = l
        <5>1. s \in ScopesOf(r.labels[id]) \ ScopesOf(g.labels[id])
          BY <1>1, <1>4, <4>2 DEF ScopesOf
        <5> QED
          BY <3>5, <4>1, <4>2, <5>1
      <4>3. CASE s = Unlabelled
        <5>1. s \notin ScopesOf(r.labels[id])
          BY <1>1, <1>4, <4>3
        <5>2. s \in ScopesOf(g.labels[id]) <=> g.labels[id] = {}
          BY <1>1, <4>3 DEF ScopesOf
        <5> QED
          BY <3>5, <4>1, <4>3, <5>1, <5>2
      <4>4. CASE s \notin {l, Unlabelled}
        <5>1. s \in ScopesOf(r.labels[id]) <=> s \in ScopesOf(g.labels[id])
          BY <1>4, <4>4 DEF ScopesOf
        <5> QED
          BY <3>5, <4>1, <4>4, <5>1
      <4> QED
        BY <4>2, <4>3, <4>4
    <3> QED
      BY <1>2, <1>3, <2>2, <3>5, <3>6 DEF Lists, Kept
  <2> QED
    BY <2>1, <2>2
<1>6. AddLabel(g, id, l) = n
  BY DEF AddLabel, r
<1> HIDE DEF n
<1> QED
  BY <1>2, <1>3, <1>5, <1>6 DEF Whole, IndexSound, Counted, Kept

LEMMA RemoveLabelSound ==
  ASSUME NEW g, Whole(g), NEW id \in g.nodes, NEW l \in Labels, l \in g.labels[id]
  PROVE  Whole(RemoveLabel(g, id, l))
<1> DEFINE r == [g EXCEPT !.labels[id] = @ \ {l}]
           v == g.value[id]
           n == on_node_label_removed(r, id, l)
<1>1. /\ g \in Graph /\ id \in Ids /\ v \in Values \cup {NoValue}
      /\ g.labels[id] \in SUBSET Labels
      /\ Unlabelled \notin Labels /\ l \in Scopes /\ Unlabelled \in Scopes
  BY PropertyIndexAssumption DEF Whole, Graph, Scopes
<1>2. /\ r \in Graph /\ r.nodes = g.nodes /\ r.taken = g.taken /\ r.value = g.value
      /\ r.labels = [g.labels EXCEPT ![id] = g.labels[id] \ {l}]
      /\ r.active = g.active /\ r.any_active = g.any_active /\ r.count = g.count
      /\ r.scoped = g.scoped /\ r.any = g.any
  BY <1>1 DEF Graph
<1> HIDE DEF r
<1>3. /\ Counted(r) /\ Lists(r, g.labels, g.value)
      /\ g.labels \in LabelSets /\ g.value \in Listing /\ g.nodes \subseteq g.taken
      /\ \A o \in Ids \ g.nodes : g.value[o] = NoValue
  BY <1>2, RecordChanges
<1>4. /\ r.labels \in LabelSets /\ \A o \in Ids \ {id} : r.labels[o] = g.labels[o]
      /\ r.labels[id] = g.labels[id] \ {l}
      /\ ScopesOf(g.labels[id]) = g.labels[id]
  BY <1>1, <1>2, <1>3 DEF LabelSets, ScopesOf
<1>5. n \in Graph /\ Kept(r, n) /\ Lists(n, r.labels, r.value)
  <2>1. CASE ~r.active \/ v = NoValue
    <3>1. n = r
      BY <1>2, <2>1 DEF on_node_label_removed, Maintained
    <3>2. Lists(r, r.labels, g.value)
      <4>1. CASE ~r.active
        BY <1>3, <4>1, InactiveLists
      <4>2. CASE v = NoValue
        BY <1>1, <1>3, <1>4, <4>2, RelabelledLists
      <4> QED
        BY <2>1, <4>1, <4>2
    <3> QED
      BY <1>2, <3>1, <3>2 DEF Kept
  <2>2. CASE r.active /\ v # NoValue
    <3> DEFINE unlisted == RemoveScoped(r, id, l, v)
               m == InsertScoped(unlisted, id, Unlabelled, v)
    <3>1. n = IF r.labels[id] = {} THEN m ELSE unlisted
      BY <1>2, <1>3, <2>2 DEF on_node_label_removed, Maintained, Counted
    <3>2. v \in Values
      BY <1>1, <2>2
    <3>3. /\ unlisted \in Graph /\ Kept(r, unlisted) /\ unlisted.any = r.any
          /\ unlisted.scoped[l] = Remove(r.scoped[l], id, v)
          /\ \A t \in Scopes \ {l} : unlisted.scoped[t] = r.scoped[t]
      BY <1>1, <1>2, <3>2, RemoveScopedIs
    <3> HIDE DEF unlisted
    <3>4. /\ m \in Graph /\ Kept(unlisted, m) /\ m.any = unlisted.any
          /\ m.scoped[Unlabelled]
               = Insert(unlisted.scoped[Unlabelled], id, v, Holders(unlisted, v))
          /\ \A t \in Scopes \ {Unlabelled} : m.scoped[t] = unlisted.scoped[t]
      BY <1>1, <3>2, <3>3, InsertScopedIs
    <3>5. Holders(unlisted, v) = Holders(r, v)
      BY <3>3 DEF Kept, Holders
    <3> HIDE DEF m, n
    <3>6. /\ n \in Graph /\ Kept(r, n) /\ n.any = r.any
          /\ n.scoped[l] = Remove(r.scoped[l], id, v)
          /\ r.labels[id] = {} =>
               n.scoped[Unlabelled] = Insert(r.scoped[Unlabelled], id, v, Holders(r, v))
          /\ r.labels[id] # {} => n.scoped[Unlabelled] = r.scoped[Unlabelled]
          /\ \A t \in Scopes \ {l, Unlabelled} : n.scoped[t] = r.scoped[t]
      BY <1>1, <3>1, <3>3, <3>4, <3>5 DEF Kept
    <3>7. ASSUME NEW s \in Scopes
          PROVE  Sound(n.scoped[s], Under(r.labels, g.value, s))
      <4>1. /\ s \in ScopesOf(r.labels[id]) \ ScopesOf(g.labels[id]) =>
                 Sound(Insert(r.scoped[s], id, v, Holders(r, v)), Under(r.labels, g.value, s))
            /\ s \in ScopesOf(g.labels[id]) \ ScopesOf(r.labels[id]) =>
                 Sound(Remove(r.scoped[s], id, v), Under(r.labels, g.value, s))
            /\ (s \in ScopesOf(r.labels[id]) <=> s \in ScopesOf(g.labels[id])) =>
                 Sound(r.scoped[s], Under(r.labels, g.value, s))
        <5>1. Sound(r.scoped[s], Under(g.labels, g.value, s))
          BY <1>3, <2>2 DEF Lists
        <5> QED
          BY <1>1, <1>2, <1>3, <1>4, <2>2, <5>1, ScopeSound
      <4>2. CASE s = l
        <5>1. s \in ScopesOf(g.labels[id]) \ ScopesOf(r.labels[id])
          BY <1>1, <1>4, <4>2 DEF ScopesOf
        <5> QED
          BY <3>6, <4>1, <4>2, <5>1
      <4>3. CASE s = Unlabelled
        <5>1. s \notin ScopesOf(g.labels[id])
          BY <1>1, <1>4, <4>3
        <5>2. s \in ScopesOf(r.labels[id]) <=> r.labels[id] = {}
          BY <1>1, <1>4, <4>3 DEF ScopesOf
        <5> QED
          BY <3>6, <4>1, <4>3, <5>1, <5>2
      <4>4. CASE s \notin {l, Unlabelled}
        <5>1. s \in ScopesOf(r.labels[id]) <=> s \in ScopesOf(g.labels[id])
          BY <1>4, <4>4 DEF ScopesOf
        <5> QED
          BY <3>6, <4>1, <4>4, <5>1
      <4> QED
        BY <4>2, <4>3, <4>4
    <3> QED
      BY <1>2, <1>3, <2>2, <3>6, <3>7 DEF Lists, Kept
  <2> QED
    BY <2>1, <2>2
<1>6. RemoveLabel(g, id, l) = n
  BY DEF RemoveLabel, r
<1> HIDE DEF n
<1> QED
  BY <1>2, <1>3, <1>5, <1>6 DEF Whole, IndexSound, Counted, Kept

-----------------------------------------------------------------------------
(* What a lookup builds.                                                   *)

LEMMA PartTyped ==
  ASSUME NEW L \in Listing, NEW done
  PROVE  Part(L, done) \in Listing
BY DEF Part, Listing

\* One more node is walked.
LEMMA Walked ==
  ASSUME NEW L \in Listing, NEW done \in SUBSET Ids, NEW id \in Ids
  PROVE  Part(L, done \cup {id}) = [Part(L, done) EXCEPT ![id] = L[id]]
<1>1. \A i \in Ids : Part(L, done \cup {id})[i]
                       = [Part(L, done) EXCEPT ![id] = L[id]][i]
  BY DEF Part
<1>2. Part(L, done \cup {id}) \in Listing /\ Part(L, done) \in Listing
  BY PartTyped
<1> HIDE DEF Part
<1> QED
  BY <1>1, <1>2 DEF Listing

\* The walk lists a node, or lists it again.
LEMMA WalkSound ==
  ASSUME NEW L \in Listing, NEW value \in Listing, NEW done \in SUBSET Ids,
         NEW b \in Buckets, Sound(b, Part(L, done)),
         NEW id \in Ids, NEW v \in Values, L[id] = v,
         \A i \in Ids : L[i] \in {NoValue, value[i]},
         NEW H, H = {i \in Ids : value[i] = v}
  PROVE  /\ Insert(b, id, v, H) \in Buckets
         /\ Sound(Insert(b, id, v, H), Part(L, done \cup {id}))
<1> DEFINE P == Part(L, done)
<1>1. P \in Listing /\ Part(L, done \cup {id}) = [P EXCEPT ![id] = v]
  BY PartTyped, Walked
<1>2. /\ P[id] \in {NoValue, v}
      /\ \A o \in Ids : P[o] # NoValue => P[o] = L[o]
  BY DEF Part
<1>3. \A o \in Ids \ {id} : P[o] # NoValue => (o \in H <=> P[o] = v)
  BY <1>2
<1> HIDE DEF P
<1>4. Sound(b, P) /\ H \in SUBSET Ids
  BY DEF P
<1> QED
  BY <1>1, <1>2, <1>3, <1>4, InsertSound

\* A node that is not in a scope is nothing to it.
LEMMA WalkedElsewhere ==
  ASSUME NEW L \in Listing, NEW done \in SUBSET Ids, NEW id \in Ids, L[id] = NoValue
  PROVE  Part(L, done \cup {id}) = Part(L, done)
BY DEF Part

\* All nodes with a value were walked.
LEMMA WalkedAll ==
  ASSUME NEW L \in Listing, NEW done \in SUBSET Ids,
         \A id \in Ids \ done : L[id] = NoValue
  PROVE  Part(L, done) = L
BY DEF Part, Listing

\* A built index is filed whole.
LEMMA FiledSound ==
  ASSUME NEW g \in Graph, IndexSound(g), Counted(g), NEW built \in [Scopes -> Buckets],
         \A s \in Scopes : Sound(built[s], Under(g.labels, g.value, s))
  PROVE  LET n == Filed(g, built) IN
         /\ Whole(n) /\ n.labels = g.labels /\ n.value = g.value
         /\ n.active
<1> DEFINE n == Filed(g, built)
<1>1. CASE g.active
  BY <1>1 DEF Filed, Whole
<1>2. CASE ~g.active
  <2>1. \A s \in Scopes : g.scoped[s] = EmptyBuckets /\ ~g.any_active /\ g.any = EmptyBuckets
    BY <1>2 DEF IndexSound, Lists
  <2>2. [s \in Scopes |-> IF built[s] # EmptyBuckets THEN built[s] ELSE g.scoped[s]] = built
    BY <2>1
  <2>3. n = [g EXCEPT
               !.scoped = [s \in Scopes |-> IF built[s] # EmptyBuckets
                                            THEN built[s] ELSE g.scoped[s]],
               !.active = TRUE, !.count = g.count + 1]
    BY <1>2 DEF Filed
  <2> HIDE DEF n
  <2>4. g.count \in Nat /\ g.count + 1 \in Nat /\ g.count + 1 # 0
    BY DEF Graph
  <2>8. n = [g EXCEPT !.scoped = built, !.active = TRUE, !.count = g.count + 1]
    BY <2>2, <2>3
  <2>9. /\ n.nodes = g.nodes /\ n.taken = g.taken
        /\ n.labels = g.labels /\ n.value = g.value /\ n.active = TRUE
        /\ n.any_active = g.any_active /\ n.any = g.any /\ n.scoped = built
        /\ n.count = g.count + 1
    BY <2>8 DEF Graph
  <2>10. n \in Graph
    BY <2>4, <2>8 DEF Graph
  <2>5. /\ n \in Graph /\ n.nodes = g.nodes /\ n.taken = g.taken
        /\ n.labels = g.labels /\ n.value = g.value /\ n.active
        /\ ~n.any_active /\ n.any = EmptyBuckets /\ n.scoped = built
        /\ n.count = g.count + 1
    <3>1. \A s \in Scopes : ~g.any_active /\ g.any = EmptyBuckets
      BY <2>1
    <3>2. ~g.any_active /\ g.any = EmptyBuckets
      BY <3>1 DEF Scopes
    <3> QED
      BY <2>9, <2>10, <3>2
  <2>6. Lists(n, n.labels, n.value)
    <3>1. \A s \in Scopes : Sound(n.scoped[s], Under(n.labels, n.value, s))
      BY <2>5
    <3> QED
      BY <2>5, <3>1 DEF Lists
  <2>7. Whole(n)
    BY <2>4, <2>5, <2>6 DEF Whole, IndexSound, Counted
  <2> QED
    BY <2>5, <2>7 DEF n
<1> QED
  BY <1>1, <1>2

\* So is a map across the scopes.
LEMMA MergedSound ==
  ASSUME NEW g, Whole(g), g.active, NEW merged \in Buckets, Sound(merged, g.value),
         NEW n, n = [g EXCEPT !.any = merged, !.any_active = TRUE]
  PROVE  Whole(n) /\ n.labels = g.labels /\ n.value = g.value /\ n.active
<1>1. g \in Graph
  BY DEF Whole
<1>2. /\ n \in Graph /\ n.nodes = g.nodes /\ n.taken = g.taken
      /\ n.labels = g.labels /\ n.value = g.value /\ n.active = g.active
      /\ n.any_active = TRUE /\ n.any = merged /\ n.scoped = g.scoped
      /\ n.count = g.count
  BY <1>1 DEF Graph
<1>3. Lists(n, n.labels, n.value)
  BY <1>2 DEF Whole, IndexSound, Lists
<1> QED
  BY <1>2, <1>3 DEF Whole, IndexSound, Counted

\* A sound index finds what a scan finds.
LEMMA SoundFinds ==
  ASSUME NEW g \in Graph, IndexSound(g)
  PROVE  Finds(g)
<1>1. /\ g.value \in Listing /\ g.labels \in LabelSets
      /\ g.any \in Buckets /\ g.scoped \in [Scopes -> Buckets]
      /\ NoValue \notin Values
      /\ \A v \in Values : /\ Holders(g, v) \in SUBSET Ids
                           /\ \A i \in Ids : i \in Holders(g, v) <=> g.value[i] = v
  BY PropertyIndexAssumption DEF Graph, Listing, LabelSets, Holders
<1>2. ASSUME g.active, NEW s \in Scopes, NEW v \in Values
      PROVE  Get(g.scoped[s], v, Holders(g, v)) = Scan(g, s, v)
  <2> DEFINE L == Under(g.labels, g.value, s)
  <2>1. L \in Listing /\ Sound(g.scoped[s], L) /\ g.scoped[s] \in Buckets
    BY <1>1, <1>2, UnderTyped DEF IndexSound, Lists
  <2>2. /\ \A i \in Ids : L[i] # NoValue => (i \in Holders(g, v) <=> L[i] = v)
        /\ {i \in Ids : L[i] = v} = Scan(g, s, v)
    BY <1>1 DEF Under, Scan
  <2> HIDE DEF L
  <2>3. Get(g.scoped[s], v, Holders(g, v)) = {i \in Ids : L[i] = v}
    BY <1>1, <2>1, <2>2, GetFinds
  <2> QED
    BY <2>2, <2>3
<1>3. ASSUME g.any_active, NEW v \in Values
      PROVE  Get(g.any, v, Holders(g, v)) = Holders(g, v)
  <2>1. Sound(g.any, g.value)
    BY <1>3 DEF IndexSound, Lists
  <2>2. Get(g.any, v, Holders(g, v)) = {i \in Ids : g.value[i] = v}
    BY <1>1, <2>1, GetFinds
  <2> QED
    BY <2>2 DEF Holders
<1> QED
  BY <1>2, <1>3 DEF Finds

-----------------------------------------------------------------------------
(* The invariant is inductive.                                             *)

LEMMA IdleIs ==
  /\ Idle \in JobRecord /\ Idle.pc = "idle"
  /\ \A g : JobSound(g, Idle)
<1>1. EmptyBuckets \in Buckets
  BY DEF EmptyBuckets, Buckets
<1> QED
  BY <1>1 DEF Idle, JobRecord, JobSound

\* A lookup is as good after its graph's index changed.
LEMMA JobKept ==
  ASSUME NEW g, NEW n, NEW t \in JobRecord, JobSound(g, t),
         n.labels = g.labels, n.value = g.value, g.active => n.active
  PROVE  JobSound(n, t)
<1>1. t.pc \in {"idle", "build", "merge"}
  BY DEF JobRecord
<1>2. CASE t.pc = "idle"
  BY <1>2 DEF JobSound
<1>3. CASE t.pc = "build"
  BY <1>3 DEF JobSound
<1>4. CASE t.pc = "merge"
  BY <1>4 DEF JobSound
<1> QED
  BY <1>1, <1>2, <1>3, <1>4

\* What a lookup sees when it has work.
LEMMA SeesWhole ==
  ASSUME IndexInv, NEW j \in Jobs, MayLook(j) \/ job[j].pc # "idle"
  PROVE  Whole(Sees(j)) /\ MayLook(j) /\ job[j] \in JobRecord /\ JobSound(Sees(j), job[j])
BY IdleIs DEF IndexInv, TypeOK, Jobs, MayLook, Sees, Whole

\* A step of one lookup, which may have changed the index it sees.
LEMMA JobStep ==
  ASSUME IndexInv, NEW j \in Jobs, MayLook(j), stage' = stage, edits' = edits,
         NEW t \in JobRecord, job' = [job EXCEPT ![j] = t],
         NEW n, Become(j, n), Whole(n), JobSound(n, t),
         n.labels = Sees(j).labels, n.value = Sees(j).value,
         Sees(j).active => n.active
  PROVE  IndexInv'
<1>1. Writer \notin Readers /\ Writer \in Jobs
  BY PropertyIndexAssumption DEF Jobs
<1>2. /\ job' \in [Jobs -> JobRecord] /\ job'[j] = t
      /\ \A k \in Jobs \ {j} : job'[k] = job[k] /\ job[k] \in JobRecord
  BY DEF IndexInv, TypeOK
<1>3. CASE j = Writer
  <2>1. live' = live /\ staged' = n /\ stage = "open" /\ stage' = "open"
    BY <1>3 DEF Become, MayLook
  <2>2. ASSUME NEW k \in Jobs
        PROVE  JobSound(Sees(k), job[k])'
    BY <1>2, <1>3, <2>1 DEF IndexInv, Sees
  <2>3. TypeOK'
    BY <1>2, <2>1 DEF IndexInv, TypeOK, Whole
  <2> QED
    BY <2>1, <2>2, <2>3 DEF IndexInv, Whole, IndexSound, Counted
<1>4. CASE j # Writer
  <2>1. live' = n /\ staged' = staged
    BY <1>4 DEF Become
  <2>2. n.labels = live.labels /\ n.value = live.value /\ (live.active => n.active)
    BY <1>4 DEF Sees
  <2>3. ASSUME NEW k \in Jobs
        PROVE  JobSound(Sees(k), job[k])'
    <3>1. CASE k = j
      BY <1>2, <1>4, <2>1, <3>1 DEF Sees
    <3>2. CASE k = Writer
      BY <1>2, <1>4, <2>1, <3>2 DEF IndexInv, Sees
    <3>3. CASE k # j /\ k # Writer
      <4>1. JobSound(live, job[k]) /\ job[k] \in JobRecord
        BY <1>2, <3>3 DEF IndexInv, Sees
      <4>2. JobSound(n, job[k])
        BY <2>2, <4>1, JobKept
      <4> QED
        BY <1>2, <2>1, <3>3, <4>2 DEF Sees
    <3> QED
      BY <3>1, <3>2, <3>3
  <2>4. TypeOK'
    BY <1>2, <2>1 DEF IndexInv, TypeOK, Whole
  <2>5. (stage # "open" => job[Writer] = Idle)'
    BY <1>1, <1>2, <1>4 DEF IndexInv
  <2> QED
    BY <2>1, <2>2, <2>3, <2>4, <2>5 DEF IndexInv, Whole, IndexSound, Counted
<1> QED
  BY <1>3, <1>4

\* The writer's edits: no lookup of its own is under way.
LEMMA EditStep ==
  ASSUME IndexInv, MayEdit, NEW n, Edited(n), Whole(n)
  PROVE  IndexInv'
<1>1. /\ staged' = n /\ live' = live /\ stage' = stage /\ job' = job
      /\ stage = "open" /\ job[Writer] = Idle /\ edits' \in Nat
  BY DEF Edited, MayEdit, IndexInv, TypeOK
<1>2. TypeOK'
  BY <1>1 DEF IndexInv, TypeOK, Whole
<1>3. ASSUME NEW k \in Jobs
      PROVE  JobSound(Sees(k), job[k])'
  BY <1>1, IdleIs DEF IndexInv, Sees
<1> QED
  BY <1>1, <1>2, <1>3 DEF IndexInv, Whole, IndexSound, Counted

-----------------------------------------------------------------------------
(* One lemma per action of a lookup.                                       *)

LEMMA NothingWalked ==
  ASSUME NEW L \in Listing
  PROVE  Sound(EmptyBuckets, Part(L, {}))
<1>1. Part(L, {}) \in Listing
  BY PartTyped
<1>2. \A id \in Ids : Part(L, {})[id] = NoValue
  BY DEF Part
<1> QED
  BY <1>1, <1>2, EmptyIsSound

LEMMA GraphTypes ==
  ASSUME NEW g, Whole(g)
  PROVE  /\ g \in Graph /\ g.value \in Listing /\ g.labels \in LabelSets
         /\ IndexSound(g) /\ Counted(g)
         /\ g.scoped \in [Scopes -> Buckets] /\ g.any \in Buckets
         /\ \A s \in Scopes : Under(g.labels, g.value, s) \in Listing
         /\ g.nodes \subseteq Ids
         /\ \A id \in Ids \ g.nodes : g.value[id] = NoValue
<1>1. /\ g \in Graph /\ g.value \in Listing /\ g.labels \in LabelSets
      /\ g.scoped \in [Scopes -> Buckets] /\ g.any \in Buckets
      /\ g.nodes \subseteq Ids
  BY DEF Whole, Graph, Listing, LabelSets
<1> QED
  BY <1>1, UnderTyped DEF Whole, IndexSound

LEMMA ClaimInv ==
  ASSUME IndexInv, NEW j \in Jobs, Claim(j)
  PROVE  IndexInv'
<1> DEFINE g == Sees(j)
           t == [Idle EXCEPT !.pc = "build"]
<1>1. /\ MayLook(j) /\ job[j] = Idle /\ job' = [job EXCEPT ![j] = t]
      /\ stage' = stage /\ edits' = edits /\ Become(j, g)
  <2>1. /\ MayLook(j) /\ job[j] = Idle /\ stage' = stage /\ edits' = edits
        /\ job' = [job EXCEPT ![j] = t]
    BY DEF Claim
  <2> QED
    BY <2>1 DEF Claim, Become, Sees
<1>2. Whole(g)
  BY <1>1, SeesWhole
<1>3. /\ t \in JobRecord /\ t.pc = "build" /\ t.done = {}
      /\ \A s \in Scopes : t.scoped[s] = EmptyBuckets
  BY IdleIs DEF JobRecord, Idle
<1> HIDE DEF g, t
<1>4. JobSound(g, t)
  BY <1>2, <1>3, GraphTypes, NothingWalked DEF JobSound
<1>5. /\ g = Sees(j)
  BY DEF g
<1> QED
  BY <1>1, <1>2, <1>3, <1>4, <1>5, JobStep

LEMMA BuildInv ==
  ASSUME IndexInv, NEW j \in Jobs, NEW id \in Ids, Build(j, id)
  PROVE  IndexInv'
<1> DEFINE g == Sees(j)
           v == g.value[id]
           H == Holders(g, v)
           S == ScopesOf(g.labels[id])
           o == job[j]
           b(s) == IF s \in S THEN Insert(o.scoped[s], id, v, H) ELSE o.scoped[s]
           t == [o EXCEPT !.done = @ \cup {id}, !.scoped = [s \in Scopes |-> b(s)]]
<1>1. /\ o.pc = "build" /\ v # NoValue /\ stage' = stage /\ edits' = edits
      /\ job' = [job EXCEPT ![j] = t]
  BY DEF Build
<1>2. Become(j, g)
  BY DEF Build, Become, Sees
<1>3. Whole(g) /\ MayLook(j) /\ o \in JobRecord /\ JobSound(g, o)
  BY <1>1, SeesWhole
<1>4. /\ g \in Graph /\ g.value \in Listing /\ g.labels \in LabelSets
      /\ \A s \in Scopes : Under(g.labels, g.value, s) \in Listing
  BY <1>3, GraphTypes
<1>5. v \in Values /\ H = {i \in Ids : g.value[i] = v}
  BY <1>1, <1>4 DEF Listing, Holders
<1>6. /\ o.done \in SUBSET Ids /\ o.scoped \in [Scopes -> Buckets]
      /\ \A s \in Scopes : Sound(o.scoped[s], Part(Under(g.labels, g.value, s), o.done))
  BY <1>1, <1>3 DEF JobRecord, JobSound
<1>7. g = Sees(j)
  OBVIOUS
<1> HIDE DEF g, v, H, S
<1>8. ASSUME NEW s \in Scopes
      PROVE  /\ b(s) \in Buckets
             /\ Sound(b(s), Part(Under(g.labels, g.value, s), o.done \cup {id}))
  <2> DEFINE L == Under(g.labels, g.value, s)
  <2>1. L \in Listing /\ Sound(o.scoped[s], Part(L, o.done)) /\ o.scoped[s] \in Buckets
    BY <1>4, <1>6
  <2>2. CASE s \in S
    <3>1. L[id] = v /\ \A i \in Ids : L[i] \in {NoValue, g.value[i]}
      BY <2>2 DEF Under, S, v
    <3> HIDE DEF L
    <3>2. /\ Insert(o.scoped[s], id, v, H) \in Buckets
          /\ Sound(Insert(o.scoped[s], id, v, H), Part(L, o.done \cup {id}))
      BY <1>4, <1>5, <1>6, <2>1, <3>1, WalkSound
    <3> QED
      BY <2>2, <3>2 DEF L
  <2>3. CASE s \notin S
    <3>1. L[id] = NoValue
      BY <2>3 DEF Under, S
    <3> HIDE DEF L
    <3>2. Part(L, o.done \cup {id}) = Part(L, o.done)
      BY <1>6, <2>1, <3>1, WalkedElsewhere
    <3> QED
      BY <2>1, <2>3, <3>2 DEF L
  <2> QED
    BY <2>2, <2>3
<1> HIDE DEF b, o
<1>9. /\ t \in JobRecord /\ t.pc = "build" /\ t.done = o.done \cup {id}
      /\ t.scoped = [s \in Scopes |-> b(s)]
  BY <1>1, <1>3, <1>6, <1>8 DEF JobRecord
<1> HIDE DEF t
<1>10. JobSound(g, t)
  BY <1>8, <1>9 DEF JobSound
<1> QED
  BY <1>1, <1>2, <1>3, <1>7, <1>9, <1>10, JobStep

LEMMA FileInv ==
  ASSUME IndexInv, NEW j \in Jobs, File(j)
  PROVE  IndexInv'
<1> DEFINE g == Sees(j)
           o == job[j]
           n == Filed(g, o.scoped)
<1>1. /\ o.pc = "build" /\ stage' = stage /\ edits' = edits
      /\ job' = [job EXCEPT ![j] = Idle] /\ Become(j, n)
      /\ \A id \in g.nodes \ o.done : g.value[id] = NoValue
  BY DEF File
<1>2. Whole(g) /\ MayLook(j) /\ o \in JobRecord /\ JobSound(g, o)
  BY <1>1, SeesWhole
<1>3. /\ g \in Graph /\ g.value \in Listing /\ IndexSound(g) /\ Counted(g)
      /\ \A s \in Scopes : Under(g.labels, g.value, s) \in Listing
      /\ \A id \in Ids \ g.nodes : g.value[id] = NoValue
  BY <1>2, GraphTypes
<1>4. /\ o.done \in SUBSET Ids /\ o.scoped \in [Scopes -> Buckets]
      /\ \A s \in Scopes : Sound(o.scoped[s], Part(Under(g.labels, g.value, s), o.done))
  BY <1>1, <1>2 DEF JobRecord, JobSound
<1>5. ASSUME NEW s \in Scopes
      PROVE  Sound(o.scoped[s], Under(g.labels, g.value, s))
  <2>1. \A id \in Ids \ o.done : Under(g.labels, g.value, s)[id] = NoValue
    BY <1>1, <1>3 DEF Under
  <2>2. Part(Under(g.labels, g.value, s), o.done) = Under(g.labels, g.value, s)
    BY <1>3, <1>4, <2>1, WalkedAll
  <2> QED
    BY <1>4, <2>2
<1>6. g = Sees(j)
  OBVIOUS
<1> HIDE DEF g, o
<1>7. Whole(n) /\ n.labels = g.labels /\ n.value = g.value /\ n.active
  BY <1>3, <1>4, <1>5, FiledSound
<1> HIDE DEF n
<1>8. JobSound(n, Idle) /\ Idle \in JobRecord
  BY IdleIs
<1> QED
  BY <1>1, <1>2, <1>6, <1>7, <1>8, JobStep

LEMMA StartMergeInv ==
  ASSUME IndexInv, NEW j \in Jobs, StartMerge(j)
  PROVE  IndexInv'
<1> DEFINE g == Sees(j)
           t == [Idle EXCEPT !.pc = "merge"]
<1>1. /\ MayLook(j) /\ job[j] = Idle /\ job' = [job EXCEPT ![j] = t]
      /\ stage' = stage /\ edits' = edits /\ Become(j, g) /\ g.active
  <2>1. /\ MayLook(j) /\ job[j] = Idle /\ stage' = stage /\ edits' = edits
        /\ job' = [job EXCEPT ![j] = t] /\ g.active
    BY DEF StartMerge
  <2> QED
    BY <2>1 DEF StartMerge, Become, Sees
<1>2. Whole(g)
  BY <1>1, SeesWhole
<1>3. /\ t \in JobRecord /\ t.pc = "merge" /\ t.done = {} /\ t.any = EmptyBuckets
  BY IdleIs DEF JobRecord, Idle
<1>4. g = Sees(j)
  OBVIOUS
<1> HIDE DEF g, t
<1>5. JobSound(g, t)
  BY <1>1, <1>2, <1>3, GraphTypes, NothingWalked DEF JobSound
<1> QED
  BY <1>1, <1>2, <1>3, <1>4, <1>5, JobStep

\* An entry of any scope is a node with its value.
LEMMA MergeInv ==
  ASSUME IndexInv, NEW j \in Jobs, NEW s \in Scopes, NEW e \in Values \X Ids,
         Merge(j, s, e)
  PROVE  IndexInv'
<1> DEFINE g == Sees(j)
           o == job[j]
           H == Holders(g, e[1])
           m == Insert(o.any, e[2], e[1], H)
           t == [o EXCEPT !.done = @ \cup {e[2]}, !.any = m]
           L == Under(g.labels, g.value, s)
<1>1. /\ o.pc = "merge" /\ stage' = stage /\ edits' = edits
      /\ job' = [job EXCEPT ![j] = t] /\ e \in Entries(g.scoped[s], g.value)
  BY DEF Merge
<1>2. Become(j, g)
  BY DEF Merge, Become, Sees
<1>3. Whole(g) /\ MayLook(j) /\ o \in JobRecord /\ JobSound(g, o)
  BY <1>1, SeesWhole
<1>4. /\ g \in Graph /\ g.value \in Listing /\ IndexSound(g) /\ L \in Listing
      /\ g.scoped[s] \in Buckets
  BY <1>3, GraphTypes
<1>5. /\ o.done \in SUBSET Ids /\ o.any \in Buckets /\ g.active
      /\ Sound(o.any, Part(g.value, o.done))
  BY <1>1, <1>3 DEF JobRecord, JobSound
<1>6. Sound(g.scoped[s], L) /\ \A i \in Ids : L[i] \in {NoValue, g.value[i]}
  BY <1>4, <1>5 DEF IndexSound, Lists, Under
<1>7. g = Sees(j) /\ H = {i \in Ids : g.value[i] = e[1]}
  BY DEF Holders
<1>8. e[1] \in Values /\ e[2] \in Ids /\ e = <<e[1], e[2]>> /\ NoValue \notin Values
  BY PropertyIndexAssumption
<1> HIDE DEF g, L, H
<1>9. L[e[2]] = e[1]
  BY <1>1, <1>4, <1>6, <1>8, EntriesAre
<1>10. g.value[e[2]] = e[1]
  BY <1>6, <1>8, <1>9
<1>11. m \in Buckets /\ Sound(m, Part(g.value, o.done \cup {e[2]}))
  <2> DEFINE V == g.value
             id == e[2]
             v == e[1]
  <2>1. /\ V \in Listing /\ id \in Ids /\ v \in Values /\ V[id] = v
        /\ Sound(o.any, Part(V, o.done)) /\ H = {i \in Ids : V[i] = v}
        /\ \A i \in Ids : V[i] \in {NoValue, V[i]}
    BY <1>4, <1>5, <1>7, <1>8, <1>10
  <2> HIDE DEF V, id, v
  <2>2. /\ Insert(o.any, id, v, H) \in Buckets
        /\ Sound(Insert(o.any, id, v, H), Part(V, o.done \cup {id}))
    BY <1>5, <2>1, WalkSound
  <2> QED
    BY <2>2 DEF V, id, v
<1> HIDE DEF m, o
<1>12. /\ t \in JobRecord /\ t.pc = "merge" /\ t.done = o.done \cup {e[2]} /\ t.any = m
  BY <1>1, <1>3, <1>5, <1>8, <1>11 DEF JobRecord
<1> HIDE DEF t
<1>13. JobSound(g, t)
  BY <1>5, <1>11, <1>12 DEF JobSound
<1> QED
  BY <1>1, <1>2, <1>3, <1>7, <1>12, <1>13, JobStep

\* Every node with a value is in some scope.
LEMMA EndMergeInv ==
  ASSUME IndexInv, NEW j \in Jobs, EndMerge(j)
  PROVE  IndexInv'
<1> DEFINE g == Sees(j)
           o == job[j]
           n == [g EXCEPT !.any = o.any, !.any_active = TRUE]
<1>1. /\ o.pc = "merge" /\ stage' = stage /\ edits' = edits
      /\ job' = [job EXCEPT ![j] = Idle] /\ Become(j, n)
      /\ \A s \in Scopes : \A e \in Entries(g.scoped[s], g.value) : e[2] \in o.done
  BY DEF EndMerge
<1>2. Whole(g) /\ MayLook(j) /\ o \in JobRecord /\ JobSound(g, o)
  BY <1>1, SeesWhole
<1>3. /\ g \in Graph /\ g.value \in Listing /\ g.labels \in LabelSets /\ IndexSound(g)
      /\ \A s \in Scopes : /\ Under(g.labels, g.value, s) \in Listing
                            /\ g.scoped[s] \in Buckets
  BY <1>2, GraphTypes
<1>4. /\ o.done \in SUBSET Ids /\ o.any \in Buckets /\ g.active
      /\ Sound(o.any, Part(g.value, o.done))
  BY <1>1, <1>2 DEF JobRecord, JobSound
<1>5. g = Sees(j)
  OBVIOUS
<1> HIDE DEF g, o
<1>6. ASSUME NEW id \in Ids, id \notin o.done
      PROVE  g.value[id] = NoValue
  <2> SUFFICES ASSUME g.value[id] # NoValue PROVE FALSE
    OBVIOUS
  <2> DEFINE v == g.value[id]
  <2>1. v \in Values
    BY <1>3 DEF Listing
  <2>2. PICK s \in Scopes : s \in ScopesOf(g.labels[id])
    BY <1>3 DEF ScopesOf, Scopes, LabelSets
  <2> DEFINE L == Under(g.labels, g.value, s)
  <2>3. /\ L \in Listing /\ g.scoped[s] \in Buckets /\ Sound(g.scoped[s], L)
    BY <1>3, <1>4 DEF IndexSound, Lists
  <2>4. L[id] = v /\ \A i \in Ids : L[i] \in {NoValue, g.value[i]}
    BY <2>2 DEF Under
  <2> HIDE DEF L, v
  <2>5. <<v, id>> \in Entries(g.scoped[s], g.value)
    BY <1>3, <2>1, <2>3, <2>4, EntriesAre
  <2> QED
    BY <1>1, <1>6, <2>5
<1>7. Part(g.value, o.done) = g.value
  BY <1>3, <1>4, <1>6, WalkedAll
<1>8. Sound(o.any, g.value)
  BY <1>4, <1>7
<1>9. Whole(n) /\ n.labels = g.labels /\ n.value = g.value /\ n.active
  BY <1>2, <1>4, <1>8, MergedSound
<1> HIDE DEF n
<1>10. JobSound(n, Idle) /\ Idle \in JobRecord
  BY IdleIs
<1> QED
  BY <1>1, <1>2, <1>5, <1>9, <1>10, JobStep

-----------------------------------------------------------------------------
(* The writer.                                                             *)

LEMMA EditInv ==
  ASSUME IndexInv, Create \/ SetValue \/ RemoveValue \/ Relabel \/ Delete \/ DropIndex
  PROVE  IndexInv'
<1>1. Writer \in Jobs
  BY DEF Jobs
<1>2. ASSUME MayEdit
      PROVE  Whole(staged)
  BY <1>2 DEF MayEdit, IndexInv, TypeOK, Whole
<1>3. CASE Create
  <2>1. PICK id \in Ids \ staged.taken, ls \in SUBSET Labels, v \in Values \cup {NoValue} :
          MayEdit /\ Edited(CreateNode(staged, id, ls, v))
    BY <1>3 DEF Create
  <2>2. Whole(CreateNode(staged, id, ls, v))
    BY <1>2, <2>1, CreateSound
  <2> QED
    BY <2>1, <2>2, EditStep
<1>4. CASE SetValue
  <2>1. PICK id \in staged.nodes, v \in Values, w \in Values :
          /\ MayEdit
          /\ \/ Edited(SetProperty(staged, id, v))
             \/ Edited(UpdateTwice(staged, id, v, w))
    BY <1>4 DEF SetValue
  <2>2. Whole(SetProperty(staged, id, v)) /\ Whole(UpdateTwice(staged, id, v, w))
    BY <1>2, <2>1, SetSound
  <2> QED
    BY <2>1, <2>2, EditStep
<1>5. CASE RemoveValue
  <2>1. PICK id \in staged.nodes :
          /\ MayEdit /\ staged.value[id] # NoValue
          /\ Edited(RemoveProperty(staged, id))
    BY <1>5 DEF RemoveValue
  <2>2. Whole(RemoveProperty(staged, id))
    BY <1>2, <2>1, RemovePropertySound
  <2> QED
    BY <2>1, <2>2, EditStep
<1>6. CASE Relabel
  <2>1. PICK id \in staged.nodes, l \in Labels :
          /\ MayEdit
          /\ \/ l \notin staged.labels[id] /\ Edited(AddLabel(staged, id, l))
             \/ l \in staged.labels[id] /\ Edited(RemoveLabel(staged, id, l))
    BY <1>6 DEF Relabel
  <2>2. CASE l \notin staged.labels[id] /\ Edited(AddLabel(staged, id, l))
    <3>1. Whole(AddLabel(staged, id, l))
      BY <1>2, <2>1, <2>2, AddLabelSound
    <3> QED
      BY <2>1, <2>2, <3>1, EditStep
  <2>3. CASE l \in staged.labels[id] /\ Edited(RemoveLabel(staged, id, l))
    <3>1. Whole(RemoveLabel(staged, id, l))
      BY <1>2, <2>1, <2>3, RemoveLabelSound
    <3> QED
      BY <2>1, <2>3, <3>1, EditStep
  <2> QED
    BY <2>1, <2>2, <2>3
<1>7. CASE Delete
  <2>1. PICK id \in staged.nodes : MayEdit /\ Edited(DeleteNode(staged, id))
    BY <1>7 DEF Delete
  <2>2. Whole(DeleteNode(staged, id))
    BY <1>2, <2>1, DeleteSound
  <2> QED
    BY <2>1, <2>2, EditStep
<1>8. CASE DropIndex
  <2>1. MayEdit /\ Edited(deactivate(staged))
    BY <1>8 DEF DropIndex
  <2>2. Whole(deactivate(staged))
    BY <1>2, <2>1, DeactivateSound
  <2> QED
    BY <2>1, <2>2, EditStep
<1> QED
  BY <1>3, <1>4, <1>5, <1>6, <1>7, <1>8

\* The counter is all that changes.
LEMMA Recounted ==
  ASSUME NEW g \in Graph, IndexSound(g), NEW count \in Nat
  PROVE  LET n == [g EXCEPT !.count = count] IN
         /\ n \in Graph /\ IndexSound(n) /\ n.count = count /\ n.active = g.active
         /\ n.labels = g.labels /\ n.value = g.value
<1> DEFINE n == [g EXCEPT !.count = count]
<1>1. /\ n \in Graph /\ n.count = count /\ n.active = g.active /\ n.nodes = g.nodes
      /\ n.taken = g.taken /\ n.labels = g.labels /\ n.value = g.value
      /\ n.any_active = g.any_active /\ n.scoped = g.scoped /\ n.any = g.any
  BY DEF Graph
<1> HIDE DEF n
<1>2. IndexSound(n)
  BY <1>1 DEF IndexSound, Lists
<1> QED
  BY <1>1, <1>2 DEF n

\* The counter is read after the index: what was filed between is counted,
\* not there.
LEMMA CloneInv ==
  ASSUME IndexInv, CloneIndexes \/ CloneCount
  PROVE  IndexInv'
<1>1. /\ live \in Graph /\ IndexSound(live) /\ Counted(live)
      /\ staged \in Graph /\ IndexSound(staged) /\ live.count \in Nat /\ 0 \in Nat
      /\ stage # "open" /\ job[Writer] = Idle
      /\ live' = live /\ job' = job /\ edits' = edits
  BY DEF IndexInv, TypeOK, CloneIndexes, CloneCount, Graph
<1>2. ASSUME staged' \in Graph
      PROVE  TypeOK' /\ \A j \in Jobs : JobSound(Sees(j), job[j])'
  <2>1. stage' \in {"none", "cloning", "open"}
    BY DEF CloneIndexes, CloneCount
  <2>2. TypeOK'
    BY <1>1, <1>2, <2>1 DEF IndexInv, TypeOK
  <2>3. ASSUME NEW j \in Jobs
        PROVE  JobSound(Sees(j), job[j])'
    BY <1>1, IdleIs DEF IndexInv, Sees
  <2> QED
    BY <2>2, <2>3
<1>3. CASE CloneIndexes
  <2> DEFINE n == [live EXCEPT !.count = 0]
  <2>1. n \in Graph /\ IndexSound(n) /\ n.active = live.active
    BY <1>1, Recounted
  <2>2. staged' = n /\ stage' = "cloning"
    BY <1>3 DEF CloneIndexes
  <2> HIDE DEF n
  <2> QED
    BY <1>1, <1>2, <2>1, <2>2 DEF IndexInv, IndexSound, Counted
<1>4. CASE CloneCount
  <2> DEFINE n == [staged EXCEPT !.count = live.count]
  <2>1. /\ n \in Graph /\ IndexSound(n) /\ n.active = staged.active
        /\ n.count = live.count
    BY <1>1, Recounted
  <2>2. staged' = n /\ stage' = "open" /\ stage = "cloning"
    BY <1>4 DEF CloneCount
  <2>3. staged.active => live.count # 0
    BY <1>1, <2>2 DEF IndexInv, Counted
  <2> HIDE DEF n
  <2> QED
    BY <1>1, <1>2, <2>1, <2>2, <2>3 DEF IndexInv, IndexSound, Counted
<1> QED
  BY <1>3, <1>4

LEMMA PublishInv ==
  ASSUME IndexInv, Publish \/ Abort
  PROVE  IndexInv'
<1>1. /\ live \in Graph /\ IndexSound(live) /\ Counted(live)
      /\ staged \in Graph /\ IndexSound(staged) /\ Counted(staged)
      /\ stage' = "none" /\ edits' = edits /\ edits \in Nat
      /\ job[Writer] = Idle /\ Writer \in Jobs
  BY DEF IndexInv, TypeOK, Publish, Abort, Jobs
<1>2. CASE Publish
  <2>1. live' = staged /\ staged' = staged /\ \A j \in Jobs : job'[j] = Idle
    BY <1>2 DEF Publish
  <2>2. job' \in [Jobs -> JobRecord]
    BY <1>2, IdleIs DEF Publish
  <2> QED
    BY <1>1, <2>1, <2>2, IdleIs DEF IndexInv, TypeOK, IndexSound, Counted
<1>3. CASE Abort
  <2>1. live' = live /\ staged' = live /\ job' = job
    BY <1>3 DEF Abort
  <2>2. ASSUME NEW j \in Jobs
        PROVE  JobSound(Sees(j), job[j])'
    BY <1>1, <2>1, IdleIs DEF IndexInv, Sees
  <2> QED
    BY <1>1, <2>1, <2>2 DEF IndexInv, TypeOK, IndexSound, Counted
<1> QED
  BY <1>2, <1>3

LEMMA InitInv == Init => IndexInv
<1> SUFFICES ASSUME Init PROVE IndexInv
  OBVIOUS
<1>1. PICK nodes \in SUBSET Ids, labels \in [Ids -> SUBSET Labels],
           value \in [Ids -> Values \cup {NoValue}] :
        /\ \A id \in Ids \ nodes : value[id] = NoValue
        /\ live = Opened(nodes, labels, value)
  BY DEF Init
<1>2. /\ staged = live /\ stage = "none" /\ edits = 0
      /\ \A j \in Jobs : job[j] = Idle
  BY DEF Init
<1>3. job \in [Jobs -> JobRecord]
  BY IdleIs DEF Init
<1>4. EmptyBuckets \in Buckets
  BY DEF EmptyBuckets, Buckets
<1>5. /\ live \in Graph /\ live.nodes = nodes /\ live.taken = nodes
      /\ live.value = value /\ ~live.active /\ ~live.any_active
      /\ live.scoped = [s \in Scopes |-> EmptyBuckets] /\ live.any = EmptyBuckets
  BY <1>1, <1>4 DEF Opened, Graph
<1>6. IndexSound(live) /\ Counted(live)
  BY <1>1, <1>5 DEF IndexSound, Lists, Counted
<1> QED
  BY <1>2, <1>3, <1>5, <1>6, IdleIs DEF IndexInv, TypeOK, Jobs

LEMMA NextInv == IndexInv /\ [Next]_vars => IndexInv'
<1> SUFFICES ASSUME IndexInv, [Next]_vars PROVE IndexInv'
  OBVIOUS
<1>1. ASSUME NEW j \in Jobs, Claim(j) \/ File(j) \/ StartMerge(j) \/ EndMerge(j)
      PROVE  IndexInv'
  BY <1>1, ClaimInv, FileInv, StartMergeInv, EndMergeInv
<1>2. ASSUME NEW j \in Jobs, NEW id \in Ids, Build(j, id)
      PROVE  IndexInv'
  BY <1>2, BuildInv
<1>3. ASSUME NEW j \in Jobs, NEW s \in Scopes, NEW e \in Values \X Ids, Merge(j, s, e)
      PROVE  IndexInv'
  BY <1>3, MergeInv
<1>4. CASE CloneIndexes \/ CloneCount
  BY <1>4, CloneInv
<1>5. CASE Create \/ SetValue \/ RemoveValue \/ Relabel \/ Delete \/ DropIndex
  BY <1>5, EditInv
<1>6. CASE Publish \/ Abort
  BY <1>6, PublishInv
<1>7. CASE UNCHANGED vars
  <2>1. ASSUME NEW j \in Jobs
        PROVE  JobSound(Sees(j), job[j])'
    BY <1>7 DEF IndexInv, Sees, vars
  <2> QED
    BY <1>7, <2>1 DEF vars, IndexInv, TypeOK, IndexSound, Counted
<1> QED
  BY <1>1, <1>2, <1>3, <1>4, <1>5, <1>6, <1>7 DEF Next

\* The buckets list each node under its value, at rest and while they are
\* built, in the live graph and in the staged one.
THEOREM IndexInvHolds == Spec => []IndexInv
<1> QED
  BY InitInv, NextInv, PTL DEF Spec

\* A lookup answered by the index finds what a scan would.
THEOREM LookupsFindHolds == Spec => []LookupsFind
<1>1. IndexInv => LookupsFind
  <2> SUFFICES ASSUME IndexInv PROVE LookupsFind
    OBVIOUS
  <2>1. /\ live \in Graph /\ IndexSound(live)
        /\ staged \in Graph /\ IndexSound(staged)
    BY DEF IndexInv, TypeOK
  <2> QED
    BY <2>1, SoundFinds DEF LookupsFind
<1> QED
  BY <1>1, IndexInvHolds, PTL
=============================================================================
